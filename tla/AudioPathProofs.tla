---------------------------- MODULE AudioPathProofs ---------------------------
(***************************************************************************)
(* Proofs about what passes between synths and out of the audio thread.    *)
(*                                                                         *)
(* BusBlocks, for any synths and units in them, any number of synths       *)
(* running in a block and any lengths of blocks and host buffers: the host *)
(* gets every frame once and in order, control buses hold, and - but for   *)
(* two shapes of reblocked synths that the code gets wrong - every reader  *)
(* and the host hear what this block's writers made of the channel.        *)
(*                                                                         *)
(* StreamRecorder, for every size of pool, chunk, ring and block: a        *)
(* recording loses and doubles nothing on its way to the file.             *)
(***************************************************************************)
EXTENDS BusBlocks, SequenceInduction

(* Where the variables range: no stamp is later than this block's, and the *)
(* walk stands at a unit of a running synth.                               *)
Typed ==
    /\ DOMAIN data = Audio /\ DOMAIN mix = Audio /\ DOMAIN left = Audio
    /\ counter \in Nat /\ want \in Nat /\ emitted \in 0 .. Slices
    /\ touched \in [Audio -> 0 .. counter] /\ ktouched \in 0 .. counter
    /\ order \in Seq(Node)
    /\ \/ pc = Idle
       \/ counter # 0 /\ pc = Ending
       \/ /\ counter # 0
          /\ pc \in [at : Node, tick : 1 .. Ticks(pc.at), unit : 1 .. Len(Graph(pc.at))]
          /\ \E i \in DOMAIN order : order[i] = pc.at

(* No synth is called idle or ending. *)
LEMMA Apart == Idle # Ending /\ Idle.at \notin Node /\ Ending.at \notin Node
BY GraphAssumption DEF Idle, Ending

(* Every synth has ticks and units. *)
LEMMA TicksNat == \A n \in Node : Ticks(n) \in Nat \ {0} /\ Len(Graph(n)) \in Nat \ {0}
<1>1. \A n \in Node : Graph(n) \in Seq(Units) /\ Graph(n) # <<>>
  BY GraphAssumption
<1>2. \A n \in Node : Len(Graph(n)) \in Nat \ {0}
  BY <1>1
<1> QED
  BY <1>2, BusAssumption DEF Ticks

(* The channel of a unit is of the unit's rate. *)
LEMMA UnitOf ==
    ASSUME NEW n \in Node, NEW k \in 1 .. Len(Graph(n))
    PROVE  \/ Graph(n)[k][1] \in Writers \cup Readers /\ Graph(n)[k][2] \in Audio
           \/ Graph(n)[k][1] \in WritersKr \cup ReadersKr
<1>1. Graph(n) \in Seq(Units)
  BY GraphAssumption
<1>2. Graph(n)[k] \in Units
  BY <1>1
<1> QED
  BY <1>2 DEF Units

(* Where the walk goes next. *)
LEMMA AdvanceCases ==
    ASSUME Typed, pc.at \in Node, Advance
    PROVE  \/ /\ pc.unit < Len(Graph(pc.at))
              /\ pc' = [at |-> pc.at, tick |-> pc.tick, unit |-> pc.unit + 1]
           \/ /\ pc.unit = Len(Graph(pc.at)) /\ pc.tick < Ticks(pc.at)
              /\ pc' = [at |-> pc.at, tick |-> pc.tick + 1, unit |-> 1]
           \/ /\ pc.unit = Len(Graph(pc.at)) /\ pc.tick = Ticks(pc.at)
              /\ pc' = Ending \/ \E i \in DOMAIN order : pc' = FirstUnit(order[i])
<1>1. /\ pc \in [at : Node, tick : 1 .. Ticks(pc.at), unit : 1 .. Len(Graph(pc.at))]
      /\ \E i \in DOMAIN order : order[i] = pc.at
  BY Apart DEF Typed
<1>2. Ticks(pc.at) \in Nat /\ Len(Graph(pc.at)) \in Nat
  BY TicksNat
<1>3. CASE pc.unit < Len(Graph(pc.at))
  BY <1>1, <1>3 DEF Advance
<1>4. CASE ~(pc.unit < Len(Graph(pc.at))) /\ pc.tick < Ticks(pc.at)
  <2>1. pc' = [pc EXCEPT !.tick = @ + 1, !.unit = 1]
    BY <1>4 DEF Advance
  <2>2. pc.unit = Len(Graph(pc.at))
    BY <1>1, <1>2, <1>4
  <2> QED
    BY <1>1, <1>4, <2>1, <2>2
<1>5. CASE ~(pc.unit < Len(Graph(pc.at))) /\ ~(pc.tick < Ticks(pc.at))
  <2>1. pc' = After(order, pc.at) /\ pc.unit = Len(Graph(pc.at)) /\ pc.tick = Ticks(pc.at)
    BY <1>1, <1>2, <1>5 DEF Advance
  <2> DEFINE i == CHOOSE i \in DOMAIN order : order[i] = pc.at
  <2>2. i \in DOMAIN order
    BY <1>1
  <2>3. After(order, pc.at) = IF i < Len(order) THEN FirstUnit(order[i + 1]) ELSE Ending
    BY DEF After
  <2>4. order \in Seq(Node)
    BY DEF Typed
  <2> HIDE DEF i
  <2>5. i < Len(order) => i + 1 \in DOMAIN order
    BY <2>2, <2>4
  <2> QED
    BY <2>1, <2>3, <2>5
<1> QED
  BY <1>3, <1>4, <1>5

(* The walk goes to a unit of a running synth, or ends. *)
LEMMA AdvanceTyped ==
    ASSUME Typed, pc.at \in Node, Advance
    PROVE  \/ pc' = Ending
           \/ /\ pc' \in [at : Node, tick : 1 .. Ticks(pc'.at), unit : 1 .. Len(Graph(pc'.at))]
              /\ \E i \in DOMAIN order : order[i] = pc'.at
<1>1. /\ pc \in [at : Node, tick : 1 .. Ticks(pc.at), unit : 1 .. Len(Graph(pc.at))]
      /\ \E i \in DOMAIN order : order[i] = pc.at
      /\ order \in Seq(Node)
  BY Apart DEF Typed
<1>2. Ticks(pc.at) \in Nat \ {0} /\ Len(Graph(pc.at)) \in Nat \ {0}
  BY TicksNat
<1>3. CASE pc.unit < Len(Graph(pc.at)) /\ pc' = [at |-> pc.at, tick |-> pc.tick, unit |-> pc.unit + 1]
  <2>1. pc.unit + 1 \in 1 .. Len(Graph(pc.at))
    BY <1>1, <1>2, <1>3
  <2> QED
    BY <1>1, <1>3, <2>1
<1>4. CASE pc.tick < Ticks(pc.at) /\ pc' = [at |-> pc.at, tick |-> pc.tick + 1, unit |-> 1]
  <2>1. pc.tick + 1 \in 1 .. Ticks(pc.at) /\ 1 \in 1 .. Len(Graph(pc.at))
    BY <1>1, <1>2, <1>4
  <2> QED
    BY <1>1, <1>4, <2>1
<1>5. ASSUME NEW i \in DOMAIN order, pc' = FirstUnit(order[i])
      PROVE  /\ pc' \in [at : Node, tick : 1 .. Ticks(pc'.at), unit : 1 .. Len(Graph(pc'.at))]
             /\ \E j \in DOMAIN order : order[j] = pc'.at
  <2>1. order[i] \in Node
    BY <1>1, <1>5
  <2>2. 1 \in 1 .. Ticks(order[i]) /\ 1 \in 1 .. Len(Graph(order[i]))
    BY <2>1, TicksNat
  <2> QED
    BY <1>5, <2>1, <2>2 DEF FirstUnit
<1> QED
  BY <1>3, <1>4, <1>5, AdvanceCases

-----------------------------------------------------------------------------
(* Types.                                                                  *)

(* A write leaves every channel a content and a stamp of this block or     *)
(* earlier.                                                                *)
LEMMA WriteTyped ==
    ASSUME Typed, NEW kind \in Writers, NEW ch \in Audio, NEW on, Write(kind, ch, on)
    PROVE  /\ DOMAIN data' = Audio /\ DOMAIN mix' = Audio
           /\ touched' \in [Audio -> 0 .. counter]
<1>1. /\ DOMAIN data = Audio /\ DOMAIN mix = Audio
      /\ touched \in [Audio -> 0 .. counter] /\ counter \in 0 .. counter
  BY DEF Typed
<1>2. Touch(ch) \in [Audio -> 0 .. counter]
  BY <1>1 DEF Touch
<1>3. /\ \A to, x : DOMAIN Accumulate(ch, to, x) = Audio
      /\ \A to, x : DOMAIN Replace(ch, to, x) = Audio
      /\ \A to, x : DOMAIN Mixed(ch, to, x) = Audio
      /\ \A to, x : DOMAIN MixedOver(ch, to, x) = Audio
  BY <1>1 DEF Accumulate, Replace, Mixed, MixedOver
<1>4. CASE kind = "out"
  BY <1>2, <1>3, <1>4 DEF Write, Out
<1>5. CASE kind = "replace"
  BY <1>2, <1>3, <1>5 DEF Write, ReplaceOut
<1>6. CASE kind = "xfull"
  BY <1>1, <1>2, <1>3, <1>6 DEF Write, XOutFull
<1>7. CASE kind = "xpart"
  BY <1>1, <1>2, <1>3, <1>7 DEF Write, XOutPart
<1>8. CASE kind = "offset"
  BY <1>2, <1>3, <1>8 DEF Write, OffsetOut
<1> QED
  BY <1>4, <1>5, <1>6, <1>7, <1>8 DEF Writers

(* The orders of a set of synths are sequences of synths. *)
LEMMA WalkTyped ==
    ASSUME NEW ns \in SUBSET Node, NEW o \in SetToSeqs(ns)
    PROVE  o \in Seq(Node)
<1>1. Cardinality(ns) \in Nat
  BY GraphAssumption, FS_Subset, FS_CardinalityType
<1>2. o \in [1 .. Cardinality(ns) -> ns]
  BY DEF SetToSeqs
<1> QED
  BY <1>1, <1>2

(* The channels start out typed. *)
LEMMA InitTyped == Init => Typed
BY BusAssumption DEF Init, Typed, Silence

(* A unit's tick keeps the types. *)
LEMMA RunUnitTyped ==
    ASSUME Typed, RunUnit
    PROVE  Typed'
<1>1. /\ pc \in [at : Node, tick : 1 .. Ticks(pc.at), unit : 1 .. Len(Graph(pc.at))]
      /\ counter \in Nat \ {0}
  BY Apart DEF Typed, RunUnit
<1> DEFINE u == Graph(pc.at)[pc.unit]
           on == TickSlices(pc.at, pc.tick)
<1>2. UNCHANGED <<counter, emitted, want, order, left>> /\ Advance
  BY DEF RunUnit
<1>3. \/ u[1] \in Writers \cup Readers /\ u[2] \in Audio
      \/ u[1] \in WritersKr \cup ReadersKr
  BY <1>1, UnitOf
<1>4. /\ DOMAIN data' = Audio /\ DOMAIN mix' = Audio
      /\ touched' \in [Audio -> 0 .. counter] /\ ktouched' \in 0 .. counter
  <2> HIDE DEF u, on
  <2>1. \/ u[1] \in Writers /\ Write(u[1], u[2], on)
        \/ u[1] \in WritersKr /\ WriteKr(u[1])
        \/ Read(u[1], u[2], on)
    BY DEF RunUnit, u, on
  <2>2. CASE u[1] \in Writers /\ Write(u[1], u[2], on)
    <3>1. u[2] \in Audio
      BY <1>3, <2>2 DEF Writers, WritersKr, ReadersKr
    <3>2. ktouched' = ktouched
      BY <2>2 DEF Write
    <3> QED
      BY <2>2, <3>1, <3>2, WriteTyped DEF Typed
  <2>3. CASE WriteKr(u[1])
    BY <1>1, <2>3 DEF WriteKr, OutKr, Typed
  <2>4. CASE Read(u[1], u[2], on)
    BY <2>4 DEF Read, Typed
  <2> QED
    BY <2>1, <2>2, <2>3, <2>4
<1>5. \/ pc' = Ending
      \/ /\ pc' \in [at : Node, tick : 1 .. Ticks(pc'.at), unit : 1 .. Len(Graph(pc'.at))]
         /\ \E i \in DOMAIN order : order[i] = pc'.at
  BY <1>1, <1>2, AdvanceTyped
<1> HIDE DEF u, on
<1> QED
  BY <1>1, <1>2, <1>4, <1>5 DEF Typed, Ending, Idle, Ticks

(* What write_input puts on the input bus. *)
HostInput == [s \in 1 .. Slices |-> IF s <= want THEN {<<Host, counter + 1, s>>} ELSE {}]

(* What the start of a block leaves on the channels. *)
LEMMA BeginBlockWrites ==
    ASSUME BeginBlock
    PROVE  /\ data' = [data EXCEPT ![In0] = HostInput]
           /\ mix' = [c \in Audio |-> IF c = In0 THEN HostInput ELSE Silence]
           /\ touched' = [touched EXCEPT ![In0] = counter + 1]
           /\ counter' = counter + 1
<1>1. counter' = counter + 1 /\ touched' = [touched EXCEPT ![In0] = counter + 1]
  BY Zenon DEF BeginBlock
<1> QED
  BY <1>1, Zenon DEF BeginBlock, HostInput

(* The start of a block keeps the types, and a walk begins. *)
LEMMA BeginBlockTyped ==
    ASSUME Typed, BeginBlock
    PROVE  Typed' /\ (pc' = Ending \/ pc'.at \in Node)
<1>1. counter \in Nat /\ counter' = counter + 1 /\ UNCHANGED <<emitted, want, left>>
  BY DEF Typed, BeginBlock
<1>2. PICK o : o \in Seq(Node) /\ order' = o /\ pc' = IF o = <<>> THEN Ending ELSE FirstUnit(o[1])
  <2>1. PICK ns \in {m \in SUBSET Node : Cardinality(m) <= MaxRunning} :
          \E o \in SetToSeqs(ns) : \E kept \in SUBSET (Node \ ns) :
            order' = o /\ pc' = IF o = <<>> THEN Ending ELSE FirstUnit(o[1])
    BY Zenon DEF BeginBlock
  <2>2. ns \in SUBSET Node
    BY <2>1
  <2> QED
    BY <2>1, <2>2, WalkTyped
<1>3. o \in Seq(Node)
  BY <1>2
<1>4. \/ pc' = Ending
      \/ /\ pc' \in [at : Node, tick : 1 .. Ticks(pc'.at), unit : 1 .. Len(Graph(pc'.at))]
         /\ \E i \in DOMAIN order' : order'[i] = pc'.at
  <2>1. CASE o = <<>>
    BY <1>2, <2>1
  <2>2. CASE o # <<>>
    <3>1. 1 \in DOMAIN o /\ o[1] \in Node /\ pc' = FirstUnit(o[1]) /\ order' = o
      BY <1>2, <1>3, <2>2
    <3>2. 1 \in 1 .. Ticks(o[1]) /\ 1 \in 1 .. Len(Graph(o[1]))
      BY <3>1, TicksNat
    <3> QED
      BY <3>1, <3>2 DEF FirstUnit
  <2> QED
    BY <2>1, <2>2
<1>5. DOMAIN data' = Audio /\ DOMAIN mix' = Audio
  <2>1. data' = [data EXCEPT ![In0] = HostInput] /\ mix' = [c \in Audio |-> IF c = In0 THEN HostInput ELSE Silence]
    BY BeginBlockWrites
  <2> QED
    BY <2>1 DEF Typed
<1>6. touched' = [touched EXCEPT ![In0] = counter + 1] /\ touched \in [Audio -> 0 .. counter]
  BY BeginBlockWrites DEF Typed
<1>7. touched' \in [Audio -> 0 .. counter']
  <2>1. 0 .. counter \subseteq 0 .. counter + 1 /\ counter + 1 \in 0 .. counter + 1
    BY <1>1
  <2>2. touched' \in [Audio -> 0 .. counter + 1]
    BY <1>6, <2>1, Zenon
  <2> QED
    BY <1>1, <2>2
<1>8. ktouched' = ktouched \/ ktouched' = counter + 1
  BY DEF BeginBlock
<1>9. ktouched' \in 0 .. counter'
  BY <1>1, <1>8 DEF Typed
<1>10. counter' # 0
  BY <1>1
<1> QED
  BY <1>1, <1>2, <1>3, <1>4, <1>5, <1>7, <1>9, <1>10 DEF Typed, Ending, Idle, Ticks

(* Emission keeps the types. *)
LEMMA EmitTyped ==
    ASSUME Typed, Emit
    PROVE  Typed'
<1>1. emitted' \in 0 .. Slices /\ want' \in Nat
  BY BusAssumption DEF Emit, Typed
<1> QED
  BY <1>1 DEF Emit, Typed, Ending, Idle, Ticks

(* Every step keeps the types. *)
LEMMA StepTyped == Typed /\ [Next]_vars => Typed'
<1> SUFFICES ASSUME Typed, [Next]_vars PROVE Typed'
  OBVIOUS
<1>1. CASE HostCall
  BY <1>1, BusAssumption DEF HostCall, Typed, Ending, Idle, Ticks
<1>2. CASE BeginBlock
  BY <1>2, BeginBlockTyped
<1>3. CASE RunUnit
  BY <1>3, RunUnitTyped
<1>4. CASE EndBlock
  BY <1>4, BusAssumption DEF EndBlock, Typed, Ending, Idle, Ticks
<1>5. CASE Emit
  BY <1>5, EmitTyped
<1>6. CASE UNCHANGED vars
  BY <1>6 DEF vars, Typed, Ending, Idle, Ticks
<1> QED
  BY <1>1, <1>2, <1>3, <1>4, <1>5, <1>6 DEF Next

(* The stamps and the walk are always in range. *)
THEOREM ChannelsTyped == Spec => []Typed
<1> QED
  BY InitTyped, StepTyped, PTL DEF Spec

-----------------------------------------------------------------------------
(* The host's frames.                                                      *)

(* No frame of the latest block has been played. *)
Under == pc # Idle \/ emitted = 0

(* The frames played last end where the block's emission stands: within    *)
(* this block, or at the end of the one before while this one has played   *)
(* nothing; while a block is computed the one before has been played.      *)
Played ==
    /\ pc # Idle => emitted = Slices
    /\ counter = 0 => emitted = Slices /\ played = <<>>
    /\ Len(played) \in Nat /\ DOMAIN played = 1 .. Len(played)
    /\ \A i \in DOMAIN played :
         played[i].block \in 0 .. counter /\ played[i].slice \in 1 .. Slices
         /\ (pc # Idle => played[i].block # counter)
    /\ played = <<>> => counter = 0 \/ (counter = 1 /\ Under)
    /\ played # <<>> =>
         IF Under
         THEN played[Len(played)].block + 1 = counter /\ played[Len(played)].slice = Slices
         ELSE played[Len(played)].block = counter /\ played[Len(played)].slice = emitted

(* Nothing has been played at first. *)
LEMMA InitPlayed == Init => Played
BY BusAssumption DEF Init, Played, Under

(* What one emission plays: the next frames of the block. *)
LEMMA Emitted ==
    ASSUME Typed, Emit
    PROVE  \E n \in 1 .. Slices :
             /\ emitted \in 0 .. Slices - 1 /\ emitted + n <= Slices /\ emitted' = emitted + n
             /\ pc = Idle
             /\ Len(played') = n /\ DOMAIN played' = 1 .. n /\ played' # <<>>
             /\ \A i \in 1 .. n : played'[i].block = counter /\ played'[i].slice = emitted + i
                                  /\ played'[i].got = data[Out0][emitted + i]
<1> DEFINE n == IF Slices - emitted < want THEN Slices - emitted ELSE want
           new == [s \in 1 .. n |-> [block |-> counter, slice |-> emitted + s, got |-> data[Out0][emitted + s]]]
           S == {new[i] : i \in 1 .. n}
<1>1. /\ want > 0 /\ emitted < Slices /\ pc = Idle
      /\ emitted' = emitted + n /\ played' = new
  BY DEF Emit
<1>2. want \in Nat /\ emitted \in 0 .. Slices /\ Slices \in Nat \ {0}
  BY BusAssumption DEF Typed
<1>3. n \in 1 .. Slices /\ emitted + n <= Slices /\ emitted \in 0 .. Slices - 1
  BY <1>1, <1>2
<1> HIDE DEF n
<1>4. new \in [1 .. n -> S] /\ n \in Nat
  <2>1. \A i \in 1 .. n : new[i] \in S
    OBVIOUS
  <2>2. new = [i \in 1 .. n |-> new[i]]
    OBVIOUS
  <2>3. n \in Nat
    BY <1>3
  <2> HIDE DEF new, S
  <2> QED
    BY <2>1, <2>2, <2>3
<1> HIDE DEF S
<1>5. new \in Seq(S) /\ Len(new) = n
  <2> HIDE DEF new
  <2> QED
    BY <1>4
<1>6. DOMAIN new = 1 .. n /\ new # <<>>
  <2>1. DOMAIN new = 1 .. n /\ n # 0
    BY <1>3
  <2> HIDE DEF new
  <2> QED
    BY <2>1, <1>5
<1>7. \A i \in 1 .. n : new[i].block = counter /\ new[i].slice = emitted + i
                        /\ new[i].got = data[Out0][emitted + i]
  OBVIOUS
<1> HIDE DEF new
<1> QED
  BY <1>1, <1>3, <1>5, <1>6, <1>7

(* An emission moves the end of what was played with it. *)
LEMMA EmitPlayed ==
    ASSUME Typed, Played, Emit
    PROVE  Played'
<1>1. PICK n \in 1 .. Slices :
        /\ emitted \in 0 .. Slices - 1 /\ emitted + n <= Slices /\ emitted' = emitted + n
        /\ pc = Idle
        /\ Len(played') = n /\ DOMAIN played' = 1 .. n /\ played' # <<>>
        /\ \A i \in 1 .. n : played'[i].block = counter /\ played'[i].slice = emitted + i
  BY Emitted
<1>2. pc' = pc /\ counter' = counter /\ counter \in Nat /\ Slices \in Nat \ {0}
  BY BusAssumption DEF Emit, Typed
<1>3. counter # 0
  BY <1>1, <1>2 DEF Played
<1>4. emitted' # 0 /\ n \in 1 .. n /\ Len(played') = n /\ n \in Nat
  BY <1>1, <1>2
<1>5. \A i \in 1 .. n : emitted + i \in 1 .. Slices
  BY <1>1, <1>2
<1> QED
  BY <1>1, <1>2, <1>3, <1>4, <1>5 DEF Played, Under

(* Every step keeps Played. *)
LEMMA StepPlayed == Typed /\ Played /\ [Next]_vars => Played'
<1> SUFFICES ASSUME Typed, Played, [Next]_vars PROVE Played'
  OBVIOUS
<1>1. counter \in Nat /\ Slices \in Nat \ {0}
  BY BusAssumption DEF Typed
<1>2. CASE HostCall
  BY <1>2 DEF HostCall, Played, Under
<1>3. CASE BeginBlock
  <2>1. pc = Idle /\ emitted = Slices /\ UNCHANGED <<emitted, played>> /\ counter' = counter + 1
    BY <1>3 DEF BeginBlock
  <2>2. pc' # Idle
    <3>1. \/ pc' = Ending
          \/ pc'.at \in Node
      BY <1>3, BeginBlockTyped
    <3> QED
      BY <3>1, Apart
  <2>3. \A i \in DOMAIN played : played[i].block \in 0 .. counter' /\ played[i].block # counter'
    BY <1>1, <2>1 DEF Played
  <2> QED
    BY <1>1, <2>1, <2>2, <2>3 DEF Played, Under
<1>4. CASE RunUnit
  <2>1. UNCHANGED <<emitted, played, counter>> /\ pc.at \in Node
    BY <1>4 DEF RunUnit
  <2>2. Typed'
    BY <1>4, RunUnitTyped
  <2>3. pc # Idle /\ pc' # Idle
    <3>1. pc' = Ending \/ pc'.at \in Node
      BY <2>1, <1>4, AdvanceTyped DEF RunUnit
    <3> QED
      BY <2>1, <3>1, Apart
  <2> QED
    BY <2>1, <2>3 DEF Played, Under
<1>5. CASE EndBlock
  <2>1. UNCHANGED <<played, counter>> /\ pc = Ending /\ pc' = Idle /\ emitted' = 0
    BY <1>5 DEF EndBlock
  <2>2. counter # 0 /\ pc # Idle
    BY <2>1, Apart DEF Typed, Ending
  <2> QED
    BY <1>1, <2>1, <2>2 DEF Played, Under
<1>6. CASE Emit
  BY <1>6, EmitPlayed
<1>7. CASE UNCHANGED vars
  BY <1>7 DEF vars, Played, Under
<1> QED
  BY <1>2, <1>3, <1>4, <1>5, <1>6, <1>7 DEF Next

(* The host gets every frame of every block once and in order. *)
THEOREM PlaysInOrder == Spec => PlayedInOrder
<1> DEFINE Follows ==
      played' # played =>
         /\ played' # <<>>
         /\ \/ played = <<>> /\ played'[1].slice = 1
            \/ LET last == played[Len(played)]
               IN  \/ played'[1].block = last.block /\ played'[1].slice = last.slice + 1
                   \/ played'[1].block = last.block + 1 /\ played'[1].slice = 1 /\ last.slice = Slices
<1>1. ASSUME Typed, Played, [Next]_vars
      PROVE  Follows
  <2>1. CASE Emit
    <3>1. PICK n \in 1 .. Slices :
            /\ emitted \in 0 .. Slices - 1 /\ pc = Idle
            /\ played' # <<>>
            /\ \A i \in 1 .. n : played'[i].block = counter /\ played'[i].slice = emitted + i
      BY <1>1, <2>1, Emitted
    <3>2. played'[1].block = counter /\ played'[1].slice = emitted + 1
      BY <3>1
    <3>3. counter # 0 /\ counter \in Nat /\ Slices \in Nat
      BY <1>1, <3>1, BusAssumption DEF Played, Typed
    <3>4. CASE played = <<>>
      BY <1>1, <3>1, <3>2, <3>3, <3>4 DEF Played, Under
    <3>5. CASE played # <<>>
      <4>1. Len(played) \in DOMAIN played
        BY <1>1, <3>5 DEF Played
      <4>2. played[Len(played)].block \in 0 .. counter
        BY <1>1, <4>1 DEF Played
      <4> QED
        BY <1>1, <3>1, <3>2, <3>3, <3>5, <4>2 DEF Played, Under
    <3> QED
      BY <3>4, <3>5
  <2>2. CASE ~Emit
    BY <1>1, <2>2 DEF Next, HostCall, BeginBlock, RunUnit, EndBlock, vars
  <2> QED
    BY <2>1, <2>2
<1>2. Typed /\ Played /\ [Next]_vars => Typed' /\ Played'
  BY StepTyped, StepPlayed
<1>3. Init => Typed /\ Played
  BY InitTyped, InitPlayed
<1> QED
  BY <1>1, <1>2, <1>3, PTL DEF Spec, PlayedInOrder

-----------------------------------------------------------------------------
(* The control channel.                                                    *)

(* The bus holds what its last block with writers made of it, and its      *)
(* stamp tells whether that is this block.                                 *)
Held ==
    /\ kdata = kmix.v /\ kmix.set \in BOOLEAN
    /\ counter # 0 => (kmix.set <=> ktouched = counter)

(* The bus starts out silent. *)
LEMMA InitHeld == Init => Held /\ ControlHeld
BY DEF Init, Held, ControlHeld, Nothing

(* A unit's tick, Out.kr, ReplaceOut.kr and the readers of the bus. *)
LEMMA RunUnitHeld ==
    ASSUME Typed, Held, RunUnit
    PROVE  Held' /\ ControlHeld'
<1>1. counter' = counter /\ counter \in Nat \ {0} /\ ktouched \in 0 .. counter
  BY Apart DEF Typed, RunUnit
<1> DEFINE u == Graph(pc.at)[pc.unit]
           on == TickSlices(pc.at, pc.tick)
<1>2. \/ u[1] \in Writers /\ Write(u[1], u[2], on)
      \/ u[1] \in WritersKr /\ WriteKr(u[1])
      \/ u[1] \in Readers \cup ReadersKr /\ Read(u[1], u[2], on)
  BY DEF RunUnit
<1>3. pc.at \in Node /\ pc.tick \in 1 .. Ticks(pc.at) /\ Ticks(pc.at) \in Nat
  BY Apart, TicksNat DEF Typed, RunUnit
<1> HIDE DEF u, on
<1>4. CASE Write(u[1], u[2], on)
  BY <1>1, <1>4 DEF Write, Held, ControlHeld, Nothing
<1>5. CASE WriteKr(u[1])
  <2>1. heard' = Nothing
    BY <1>5 DEF WriteKr
  <2>2. Held'
    BY <1>1, <1>5 DEF WriteKr, OutKr, Held
  <2> QED
    BY <2>1, <2>2 DEF ControlHeld, Nothing
<1>6. CASE u[1] \in Readers \cup ReadersKr /\ Read(u[1], u[2], on)
  <2>1. UNCHANGED <<kdata, ktouched, kmix>>
    BY <1>6 DEF Read
  <2>2. 1 \in 1 .. Slices /\ (pc.tick = 1 <=> {pc.tick} = {1})
    BY <1>3, BusAssumption
  <2>3. CASE u[1] \in {"in", "map"}
    <3>1. In(u[2], on)
      BY <1>6, <2>3 DEF Read
    <3>2. heard'.kind = "in"
      BY <3>1 DEF In, Hear
    <3> QED
      BY <1>1, <2>1, <3>2 DEF Held, ControlHeld
  <2>4. CASE u[1] = "feedback"
    <3>1. InFeedback(u[2], on)
      BY <1>6, <2>4 DEF Read
    <3>2. heard'.kind = "feedback"
      BY <3>1 DEF InFeedback, Hear
    <3> QED
      BY <1>1, <2>1, <3>2 DEF Held, ControlHeld
  <2>5. CASE u[1] = "inkr"
    <3>1. InKr
      BY <1>6, <2>5 DEF Read
    <3>2. heard'.kind = "control" /\ heard'.got[1] = kdata
      BY <2>2, <3>1 DEF InKr, Hear
    <3> QED
      BY <1>1, <2>1, <3>2 DEF Held, ControlHeld
  <2>6. CASE u[1] = "intrig"
    <3>1. InTrig(pc.tick)
      BY <1>6, <2>6 DEF Read
    <3>2. /\ heard'.kind = "trig" /\ heard'.slices = {pc.tick}
          /\ heard'.got[1] = IF pc.tick = 1 /\ ktouched = counter THEN kdata ELSE {}
      BY <2>2, <3>1 DEF InTrig, Hear
    <3> QED
      BY <1>1, <2>1, <2>2, <3>2 DEF Held, ControlHeld
  <2> QED
    BY <1>6, <2>3, <2>4, <2>5, <2>6 DEF Readers, ReadersKr
<1> QED
  BY <1>2, <1>4, <1>5, <1>6

(* Every step keeps the bus's value, and its readers hear it. *)
LEMMA StepHeld == Typed /\ Held /\ ControlHeld /\ [Next]_vars => Held' /\ ControlHeld'
<1> SUFFICES ASSUME Typed, Held, ControlHeld, [Next]_vars PROVE Held' /\ ControlHeld'
  OBVIOUS
<1>1. CASE HostCall
  BY <1>1 DEF HostCall, Held, ControlHeld
<1>2. CASE BeginBlock
  <2>1. counter \in Nat /\ ktouched \in 0 .. counter /\ counter' = counter + 1 /\ heard' = Nothing
    BY <1>2 DEF BeginBlock, Typed
  <2>2. PICK set \in BOOLEAN :
          /\ kdata' = IF set THEN {<<Host, counter + 1, 1>>} ELSE kdata
          /\ ktouched' = IF set THEN counter + 1 ELSE ktouched
          /\ kmix' = IF set THEN [set |-> TRUE, v |-> {<<Host, counter + 1, 1>>}]
                     ELSE [set |-> FALSE, v |-> kmix.v]
    BY <1>2, Zenon DEF BeginBlock
  <2>3. \/ /\ kdata' = {<<Host, counter + 1, 1>>} /\ ktouched' = counter + 1
           /\ kmix' = [set |-> TRUE, v |-> {<<Host, counter + 1, 1>>}]
        \/ /\ kdata' = kdata /\ ktouched' = ktouched
           /\ kmix' = [set |-> FALSE, v |-> kmix.v]
    BY <2>2, Zenon
  <2>4. ControlHeld'
    <3>1. heard'.kind = "none"
      BY <2>1 DEF Nothing
    <3> QED
      BY <3>1 DEF ControlHeld
  <2>5. CASE /\ kdata' = {<<Host, counter + 1, 1>>} /\ ktouched' = counter + 1
             /\ kmix' = [set |-> TRUE, v |-> {<<Host, counter + 1, 1>>}]
    <3>1. kmix'.v = kdata'
      BY <2>5
    <3>2. kmix'.set = TRUE
      BY <2>5, Zenon
    <3> QED
      BY <2>1, <2>5, <2>4, <3>1, <3>2, Zenon DEF Held
  <2>6. CASE /\ kdata' = kdata /\ ktouched' = ktouched
             /\ kmix' = [set |-> FALSE, v |-> kmix.v]
    <3>1. kmix'.v = kdata'
      BY <2>6 DEF Held
    <3>2. kmix'.set = FALSE
      BY <2>6, Zenon
    <3>3. ktouched' # counter'
      BY <2>1, <2>6
    <3> QED
      BY <2>4, <3>1, <3>2, <3>3, Zenon DEF Held
  <2> QED
    BY <2>3, <2>5, <2>6
<1>3. CASE RunUnit
  BY <1>3, RunUnitHeld
<1>4. CASE EndBlock
  BY <1>4 DEF EndBlock, Held, ControlHeld, Nothing
<1>5. CASE Emit
  BY <1>5 DEF Emit, Held, ControlHeld
<1>6. CASE UNCHANGED vars
  BY <1>6 DEF vars, Held, ControlHeld
<1> QED
  BY <1>1, <1>2, <1>3, <1>4, <1>5, <1>6 DEF Next

(* A control bus holds what its writers of the last block that had any     *)
(* made of it, and a trigger is heard in its own block only (io.rs), for   *)
(* every synth, reblocked or not.                                          *)
THEOREM ControlBusHolds == Spec => []ControlHeld
<1>1. Init => Typed /\ Held /\ ControlHeld
  BY InitTyped, InitHeld
<1>2. Typed /\ Held /\ ControlHeld /\ [Next]_vars => Typed' /\ Held' /\ ControlHeld'
  BY StepTyped, StepHeld
<1> QED
  BY <1>1, <1>2, PTL DEF Spec

-----------------------------------------------------------------------------
(* The audio channels.                                                     *)

(* No reblocked synth has an XOut that is fully faded over: it sums onto   *)
(* an untouched channel what should replace it.                            *)
NoFadedReblocking ==
    \A n \in Reblocked : \A u \in 1 .. Len(Graph(n)) : Graph(n)[u][1] # "xfull"

(* No reblocked synth reads a channel ahead of a ReplaceOut on it: the     *)
(* first tick's write marks the whole channel live, and in the next ticks  *)
(* such a reader hears the last-written block.                             *)
ReadersBehindReplaces ==
    \A n \in Reblocked : \A u \in 1 .. Len(Graph(n)) :
        Graph(n)[u][1] = "replace" =>
          \A v \in 1 .. u - 1 : Graph(n)[v][1] \in Readers => Graph(n)[v][2] # Graph(n)[u][2]

(* Unit u of synth n is a ReplaceOut on channel c. *)
Replaces(n, u, c) == u \in 1 .. Len(Graph(n)) /\ Graph(n)[u][1] = "replace" /\ Graph(n)[u][2] = c

(* The slices of a live channel that may still hold the last block: a      *)
(* ReplaceOut of the running reblocked synth is yet to reach them.         *)
Pending(c, s) ==
    /\ pc.at \in Reblocked
    /\ \E u \in 1 .. Len(Graph(pc.at)) :
         Replaces(pc.at, u, c) /\ (s > pc.tick \/ (s = pc.tick /\ pc.unit <= u))

(* A running synth past its first tick, or past such a unit, has marked    *)
(* the channel.                                                            *)
Begun ==
    pc.at \in Reblocked =>
      \A u \in 1 .. Len(Graph(pc.at)) :
        Graph(pc.at)[u][1] \in {"replace", "xpart"} /\ (pc.tick > 1 \/ u < pc.unit) =>
            Live(Graph(pc.at)[u][2])

(* The heart of the matter. A live channel holds the mix, but for pending  *)
(* slices; an untouched one holds what it was left with; between blocks    *)
(* all channels do, and the output holds the mix, which is silence if none *)
(* wrote.                                                                  *)
Mixing ==
    /\ \A c \in Audio : \A s \in 1 .. Slices :
         /\ Live(c) /\ ~Pending(c, s) => data[c][s] = mix[c][s]
         /\ ~Live(c) => mix[c][s] = {} /\ data[c][s] = left[c][s]
         /\ pc = Idle => data[c][s] = left[c][s]
    /\ \A s \in 1 .. Slices : pc = Idle => data[Out0][s] = mix[Out0][s]
    /\ Begun

(* The walk settles a pending slice only by running the ReplaceOut. *)
LEMMA PendingStays ==
    ASSUME Typed, pc.at \in Reblocked, Advance, NEW c, NEW s \in 1 .. Slices, Pending(c, s)
    PROVE  Pending(c, s)' \/ (s = pc.tick /\ Replaces(pc.at, pc.unit, c))
<1>1. pc \in [at : Node, tick : 1 .. Ticks(pc.at), unit : 1 .. Len(Graph(pc.at))]
  BY Apart, GraphAssumption DEF Typed
<1>2. Ticks(pc.at) = Slices /\ Slices \in Nat /\ Len(Graph(pc.at)) \in Nat
  BY <1>1, TicksNat, BusAssumption DEF Ticks
<1>3. PICK u \in 1 .. Len(Graph(pc.at)) :
        Replaces(pc.at, u, c) /\ (s > pc.tick \/ (s = pc.tick /\ pc.unit <= u))
  BY DEF Pending
<1>4. CASE pc' = [at |-> pc.at, tick |-> pc.tick, unit |-> pc.unit + 1]
  <2>1. s > pc.tick \/ (s = pc.tick /\ pc.unit + 1 <= u) \/ (s = pc.tick /\ pc.unit = u)
    BY <1>1, <1>3
  <2> QED
    BY <1>3, <1>4, <2>1 DEF Pending, Replaces
<1>5. CASE pc.unit = Len(Graph(pc.at)) /\ pc' = [at |-> pc.at, tick |-> pc.tick + 1, unit |-> 1]
  <2>1. s > pc.tick + 1 \/ (s = pc.tick + 1 /\ 1 <= u) \/ (s = pc.tick /\ pc.unit = u)
    BY <1>1, <1>2, <1>3, <1>5
  <2> QED
    BY <1>3, <1>5, <2>1 DEF Pending, Replaces
<1>6. CASE pc.unit = Len(Graph(pc.at)) /\ pc.tick = Ticks(pc.at)
  BY <1>1, <1>2, <1>3, <1>6
<1> QED
  BY <1>1, <1>4, <1>5, <1>6, AdvanceCases

(* The walk passes a unit only once it has marked its channel. *)
LEMMA BegunStays ==
    ASSUME Typed, Begun, pc.at \in Node, Advance,
           \A c \in Audio : Live(c) => touched'[c] = counter',
           Graph(pc.at)[pc.unit][1] \in {"replace", "xpart"} =>
             touched'[Graph(pc.at)[pc.unit][2]] = counter'
    PROVE  Begun'
<1>1. pc \in [at : Node, tick : 1 .. Ticks(pc.at), unit : 1 .. Len(Graph(pc.at))]
  BY Apart DEF Typed
<1>2. Ticks(pc.at) \in Nat /\ Len(Graph(pc.at)) \in Nat
  BY TicksNat
<1> SUFFICES ASSUME pc'.at \in Reblocked, NEW u \in 1 .. Len(Graph(pc'.at)),
                    Graph(pc'.at)[u][1] \in {"replace", "xpart"},
                    pc'.tick > 1 \/ u < pc'.unit
             PROVE  touched'[Graph(pc'.at)[u][2]] = counter'
  BY DEF Begun, Live
<1>3. CASE pc'.at = pc.at /\ (pc.tick > 1 \/ u < pc.unit \/ u = pc.unit)
  <2>1. Graph(pc.at)[u][2] \in Audio
    BY <1>3, UnitOf DEF WritersKr, ReadersKr
  <2>2. u # pc.unit => Live(Graph(pc.at)[u][2])
    BY <1>3 DEF Begun
  <2> QED
    BY <1>3, <2>1, <2>2
<1>4. CASE /\ pc.unit < Len(Graph(pc.at))
           /\ pc' = [at |-> pc.at, tick |-> pc.tick, unit |-> pc.unit + 1]
  <2>1. pc'.at = pc.at /\ pc'.tick = pc.tick /\ pc'.unit = pc.unit + 1
    BY <1>4
  <2>2. pc.tick > 1 \/ u < pc.unit \/ u = pc.unit
    BY <1>1, <1>2, <2>1
  <2> QED
    BY <1>3, <2>1, <2>2
<1>5. CASE /\ pc.unit = Len(Graph(pc.at))
           /\ pc' = [at |-> pc.at, tick |-> pc.tick + 1, unit |-> 1]
  <2>1. pc'.at = pc.at
    BY <1>5
  <2>2. u < pc.unit \/ u = pc.unit
    BY <1>2, <1>5, <2>1
  <2> QED
    BY <1>3, <2>1, <2>2
<1>6. CASE pc' = Ending \/ \E i \in DOMAIN order : pc' = FirstUnit(order[i])
  <2>1. pc' # Ending
    BY Apart, GraphAssumption
  <2>2. pc'.tick = 1 /\ pc'.unit = 1
    BY <1>6, <2>1 DEF FirstUnit
  <2> QED
    BY <2>2
<1> QED
  BY <1>4, <1>5, <1>6, AdvanceCases

(* What a writer that replaces leaves on a channel. *)
LEMMA Overwritten ==
    ASSUME Typed, NEW ch \in Audio, NEW on, NEW x,
           data' = Replace(ch, on, x), mix' = MixedOver(ch, on, x), touched' = Touch(ch)
    PROVE  /\ \A c \in Audio : c # ch =>
                data'[c] = data[c] /\ mix'[c] = mix[c] /\ touched'[c] = touched[c]
           /\ touched'[ch] = counter
           /\ \A s \in 1 .. Slices :
                /\ s \in on => data'[ch][s] = mix'[ch][s]
                /\ s \notin on => data'[ch][s] = data[ch][s] /\ mix'[ch][s] = mix[ch][s]
<1>1. DOMAIN data = Audio /\ DOMAIN mix = Audio /\ DOMAIN touched = Audio
  BY DEF Typed
<1>2. \A s \in 1 .. Slices :
        /\ data'[ch][s] = IF s \in on THEN x[s] ELSE data[ch][s]
        /\ mix'[ch][s] = IF s \in on THEN x[s] ELSE mix[ch][s]
  BY <1>1 DEF Replace, MixedOver
<1>3. \A c \in Audio : c # ch =>
        data'[c] = data[c] /\ mix'[c] = mix[c] /\ touched'[c] = touched[c]
  BY <1>1 DEF Replace, MixedOver, Touch
<1>4. touched'[ch] = counter
  BY <1>1 DEF Touch
<1> QED
  BY <1>2, <1>3, <1>4

(* A sum with nothing for the first slice is the same without it, on a     *)
(* live channel: what OffsetOut leaves out in its first block.             *)
LEMMA LeadingSliceKept ==
    ASSUME NEW ch, NEW on, NEW x, Live(ch), x[1] = {}
    PROVE  Accumulate(ch, on \ {1}, x) = Accumulate(ch, on, x)
<1> DEFINE Sum(d, from) == [s \in 1 .. Slices |-> IF s \in from THEN d[s] \cup x[s] ELSE d[s]]
<1>1. \A d : Sum(d, on \ {1}) = Sum(d, on)
  <2> TAKE d
  <2>1. \A s \in 1 .. Slices :
          (IF s \in on \ {1} THEN d[s] \cup x[s] ELSE d[s]) = (IF s \in on THEN d[s] \cup x[s] ELSE d[s])
    OBVIOUS
  <2> QED
    BY <2>1
<1>2. \A from : Accumulate(ch, from, x) = [data EXCEPT ![ch] = Sum(data[ch], from)]
  BY DEF Accumulate
<1> HIDE DEF Sum
<1> QED
  BY <1>1, <1>2

(* A sum keeps a channel equal to its mix, whether it starts from silence  *)
(* or not.                                                                 *)
LEMMA SumMixes ==
    ASSUME Typed, NEW ch \in Audio, NEW on \in SUBSET (1 .. Slices), NEW x,
           data' = Accumulate(ch, on, x), mix' = Mixed(ch, on, x), touched' = Touch(ch),
           \A s \in 1 .. Slices : ~Live(ch) => mix[ch][s] = {}
    PROVE  /\ \A c \in Audio : c # ch =>
                data'[c] = data[c] /\ mix'[c] = mix[c] /\ touched'[c] = touched[c]
           /\ touched'[ch] = counter
           /\ \A s \in 1 .. Slices :
                /\ Live(ch) /\ s \notin on => data'[ch][s] = data[ch][s] /\ mix'[ch][s] = mix[ch][s]
                /\ Live(ch) /\ s \in on /\ data[ch][s] = mix[ch][s] => data'[ch][s] = mix'[ch][s]
                /\ ~Live(ch) => data'[ch][s] = mix'[ch][s]
<1>1. DOMAIN data = Audio /\ DOMAIN mix = Audio /\ DOMAIN touched = Audio
  BY DEF Typed
<1>2. \A s \in 1 .. Slices : Silence[s] = {}
  BY DEF Silence
<1>3. \A s \in 1 .. Slices : mix'[ch][s] = IF s \in on THEN mix[ch][s] \cup x[s] ELSE mix[ch][s]
  BY <1>1 DEF Mixed
<1>4. \A s \in 1 .. Slices : data'[ch][s] =
        IF Live(ch) THEN (IF s \in on THEN data[ch][s] \cup x[s] ELSE data[ch][s])
        ELSE (IF s \in on THEN x[s] ELSE {})
  <2>1. CASE Live(ch)
    BY <1>1, <2>1 DEF Accumulate
  <2>2. CASE ~Live(ch)
    BY <1>1, <1>2, <2>2 DEF Accumulate
  <2> QED
    BY <2>1, <2>2
<1>5. \A c \in Audio : c # ch =>
        data'[c] = data[c] /\ mix'[c] = mix[c] /\ touched'[c] = touched[c]
  BY <1>1 DEF Accumulate, Mixed, Touch
<1>6. touched'[ch] = counter
  BY <1>1 DEF Touch
<1>7. ASSUME NEW s \in 1 .. Slices
      PROVE  /\ Live(ch) /\ s \notin on => data'[ch][s] = data[ch][s] /\ mix'[ch][s] = mix[ch][s]
             /\ Live(ch) /\ s \in on /\ data[ch][s] = mix[ch][s] => data'[ch][s] = mix'[ch][s]
             /\ ~Live(ch) => data'[ch][s] = mix'[ch][s]
  <2>1. CASE Live(ch)
    BY <1>3, <1>4, <2>1
  <2>2. CASE ~Live(ch)
    BY <1>3, <1>4, <2>2
  <2> QED
    BY <2>1, <2>2
<1> QED
  BY <1>7, <1>5, <1>6

(* What a write of one tick does to its channel.                           *)
LEMMA WriteMixes ==
    ASSUME Typed, Mixing, NoFadedReblocking, pc.at \in Node,
           NEW kind \in Writers, NEW ch \in Audio, NEW on,
           kind = Graph(pc.at)[pc.unit][1], ch = Graph(pc.at)[pc.unit][2],
           on = TickSlices(pc.at, pc.tick), Write(kind, ch, on)
    PROVE  /\ \A c \in Audio : c # ch =>
                data'[c] = data[c] /\ mix'[c] = mix[c] /\ touched'[c] = touched[c]
           /\ touched'[ch] = counter
           /\ \A s \in 1 .. Slices :
                /\ s \in on /\ (~Pending(ch, s) \/ kind = "replace") => data'[ch][s] = mix'[ch][s]
                /\ Live(ch) /\ s \notin on => data'[ch][s] = data[ch][s] /\ mix'[ch][s] = mix[ch][s]
                /\ ~Live(ch) /\ s \notin on /\ kind # "replace" => data'[ch][s] = mix'[ch][s]
<1> DEFINE own == Own(pc.at)
<1>1. /\ pc.tick \in 1 .. Ticks(pc.at) /\ pc.unit \in 1 .. Len(Graph(pc.at))
      /\ counter \in Nat /\ Slices \in Nat \ {0}
  BY Apart, BusAssumption DEF Typed
<1>2. /\ on \in SUBSET (1 .. Slices)
      /\ pc.at \notin Reblocked => pc.tick = 1 /\ on = 1 .. Slices
      /\ pc.at \in Reblocked => on = {pc.tick}
      /\ pc.tick \in 1 .. Slices
  BY <1>1 DEF TickSlices, Ticks
<1>0. on \in SUBSET (1 .. Slices)
  BY <1>2
<1>3. /\ \A s \in 1 .. Slices : Live(ch) /\ ~Pending(ch, s) => data[ch][s] = mix[ch][s]
      /\ \A s \in 1 .. Slices : ~Live(ch) => mix[ch][s] = {}
  BY DEF Mixing
<1>4. pc.at \in Reblocked /\ pc.tick > 1 /\ kind = "xpart" => Live(ch)
  <2>1. Begun
    BY DEF Mixing
  <2> QED
    BY <1>1, <2>1 DEF Begun
<1>5. pc.at \in Reblocked => kind # "xfull"
  BY <1>1 DEF NoFadedReblocking
<1>6. CASE kind = "out" \/ (kind = "xpart" /\ (pc.at \notin Reblocked \/ pc.tick = 1))
  <2>1. kind = "out" =>
          data' = Accumulate(ch, on, own) /\ touched' = Touch(ch) /\ mix' = Mixed(ch, on, own)
    BY DEF Write, Out
  <2>2. kind = "xpart" => XOutPart(pc.at, ch, on, pc.tick)
    BY DEF Write
  <2>3. ~(pc.at \in Reblocked /\ pc.tick > 1) \/ kind = "out"
    BY <1>2, <1>6
  <2>4. kind = "xpart" =>
          data' = Accumulate(ch, on, own) /\ touched' = Touch(ch) /\ mix' = Mixed(ch, on, own)
    BY <1>6, <2>2, <2>3 DEF XOutPart
  <2>5. PICK x : data' = Accumulate(ch, on, x) /\ touched' = Touch(ch) /\ mix' = Mixed(ch, on, x)
    BY <1>6, <2>1, <2>4
  <2>6. /\ \A c \in Audio : c # ch =>
             data'[c] = data[c] /\ mix'[c] = mix[c] /\ touched'[c] = touched[c]
        /\ touched'[ch] = counter
        /\ \A s \in 1 .. Slices :
             /\ Live(ch) /\ s \notin on => data'[ch][s] = data[ch][s] /\ mix'[ch][s] = mix[ch][s]
             /\ Live(ch) /\ s \in on /\ data[ch][s] = mix[ch][s] => data'[ch][s] = mix'[ch][s]
             /\ ~Live(ch) => data'[ch][s] = mix'[ch][s]
    BY <1>0, <1>3, <2>5, SumMixes
  <2> QED
    BY <1>3, <1>6, <2>6
<1>7. CASE kind = "replace" \/ (kind = "xfull" /\ pc.at \notin Reblocked)
  <2>1. PICK x : data' = Replace(ch, on, x) /\ touched' = Touch(ch) /\ mix' = MixedOver(ch, on, x)
    BY <1>7 DEF Write, ReplaceOut, XOutFull
  <2>2. /\ \A c \in Audio : c # ch =>
             data'[c] = data[c] /\ mix'[c] = mix[c] /\ touched'[c] = touched[c]
        /\ touched'[ch] = counter
        /\ \A s \in 1 .. Slices :
             /\ s \in on => data'[ch][s] = mix'[ch][s]
             /\ s \notin on => data'[ch][s] = data[ch][s] /\ mix'[ch][s] = mix[ch][s]
    BY <2>1, Overwritten, ZenonT(30)
  <2>3. pc.at \notin Reblocked => \A s \in 1 .. Slices : s \in on
    BY <1>2
  <2>4. ASSUME NEW s \in 1 .. Slices
        PROVE  /\ s \in on /\ (~Pending(ch, s) \/ kind = "replace") => data'[ch][s] = mix'[ch][s]
               /\ Live(ch) /\ s \notin on => data'[ch][s] = data[ch][s] /\ mix'[ch][s] = mix[ch][s]
               /\ ~Live(ch) /\ s \notin on /\ kind # "replace" => data'[ch][s] = mix'[ch][s]
    <3>1. s \in on \/ kind = "replace"
      BY <1>7, <2>3
    <3> QED
      BY <2>2, <3>1
  <2> QED
    BY <2>2, <2>4
<1>8. CASE kind = "xpart" /\ pc.at \in Reblocked /\ pc.tick > 1
  <2>1. XOutPart(pc.at, ch, on, pc.tick)
    BY <1>8 DEF Write
  <2>2. /\ data' = [data EXCEPT ![ch] = [s \in 1 .. Slices |->
                       IF s \in on THEN data[ch][s] \cup own[s] ELSE data[ch][s]]]
        /\ touched' = touched /\ mix' = Mixed(ch, on, own)
    <3>1. pc.tick # 1
      BY <1>2, <1>8
    <3> QED
      BY <1>8, <2>1, <3>1 DEF XOutPart
  <2>3. DOMAIN data = Audio /\ DOMAIN mix = Audio
    BY DEF Typed
  <2>4. /\ \A c \in Audio : c # ch => data'[c] = data[c] /\ mix'[c] = mix[c]
        /\ \A s \in 1 .. Slices :
             /\ data'[ch][s] = IF s \in on THEN data[ch][s] \cup own[s] ELSE data[ch][s]
             /\ mix'[ch][s] = IF s \in on THEN mix[ch][s] \cup own[s] ELSE mix[ch][s]
    BY <2>2, <2>3 DEF Mixed
  <2>5. Live(ch) /\ touched' = touched /\ touched'[ch] = counter
    BY <1>4, <1>8, <2>2 DEF Live
  <2> HIDE DEF own
  <2>6. ASSUME NEW s \in 1 .. Slices
        PROVE  /\ s \in on /\ ~Pending(ch, s) => data'[ch][s] = mix'[ch][s]
               /\ s \notin on => data'[ch][s] = data[ch][s] /\ mix'[ch][s] = mix[ch][s]
    <3>1. ~Pending(ch, s) => data[ch][s] = mix[ch][s]
      BY <1>3, <2>5
    <3> QED
      BY <2>4, <3>1
  <2> QED
    BY <1>8, <2>4, <2>5, <2>6
<1>9. CASE kind = "offset"
  <2>1. OffsetOut(pc.at, ch, on, pc.tick)
    BY <1>9 DEF Write
  <2> DEFINE late == [s \in 1 .. Slices |->
                        IF s = pc.tick THEN (IF warm[pc.at] THEN {carry[pc.at]} ELSE {})
                        ELSE {Signal(pc.at, s - 1)}]
             from == IF ~warm[pc.at] /\ pc.at \notin Reblocked /\ Live(ch) THEN on \ {1} ELSE on
  <2>2. data' = Accumulate(ch, from, late) /\ touched' = Touch(ch) /\ mix' = Mixed(ch, on, late)
    BY <2>1 DEF OffsetOut
  <2>3. ~warm[pc.at] => late[pc.tick] = {}
    BY <1>2
  <2>4. from = on \/ (from = on \ {1} /\ Live(ch) /\ late[1] = {})
    BY <1>2, <2>3
  <2>5. PICK x : data' = Accumulate(ch, on, x) /\ touched' = Touch(ch) /\ mix' = Mixed(ch, on, x)
    <3> HIDE DEF late, from
    <3>1. data' = Accumulate(ch, on, late)
      BY <2>2, <2>4, LeadingSliceKept
    <3> QED
      BY <2>2, <3>1
  <2>6. /\ \A c \in Audio : c # ch =>
             data'[c] = data[c] /\ mix'[c] = mix[c] /\ touched'[c] = touched[c]
        /\ touched'[ch] = counter
        /\ \A s \in 1 .. Slices :
             /\ Live(ch) /\ s \notin on => data'[ch][s] = data[ch][s] /\ mix'[ch][s] = mix[ch][s]
             /\ Live(ch) /\ s \in on /\ data[ch][s] = mix[ch][s] => data'[ch][s] = mix'[ch][s]
             /\ ~Live(ch) => data'[ch][s] = mix'[ch][s]
    BY <1>0, <1>3, <2>5, SumMixes
  <2> QED
    BY <1>3, <1>9, <2>6
<1>10. pc.at \in Reblocked => (pc.tick = 1 \/ pc.tick > 1)
  BY <1>2
<1> QED
  BY <1>5, <1>6, <1>7, <1>8, <1>9, <1>10 DEF Writers

(* A unit's tick keeps the channels equal to their mixes. *)
LEMMA RunUnitMixing ==
    ASSUME Typed, Mixing, NoFadedReblocking, RunUnit
    PROVE  Mixing'
<1> DEFINE kind == Graph(pc.at)[pc.unit][1]
           ch == Graph(pc.at)[pc.unit][2]
           on == TickSlices(pc.at, pc.tick)
<1>1. /\ pc.at \in Node /\ Advance /\ counter' = counter /\ left' = left
      /\ pc.tick \in 1 .. Ticks(pc.at) /\ pc.unit \in 1 .. Len(Graph(pc.at))
      /\ counter \in Nat
  BY Apart DEF RunUnit, Typed
<1>2. pc' # Idle
  BY <1>1, AdvanceCases, Apart, GraphAssumption DEF FirstUnit, Idle, Typed
<1>3. /\ Begun
      /\ \A c \in Audio : \A s \in 1 .. Slices :
           /\ Live(c) /\ ~Pending(c, s) => data[c][s] = mix[c][s]
           /\ ~Live(c) => mix[c][s] = {} /\ data[c][s] = left[c][s]
  BY DEF Mixing
<1>4. ASSUME NEW c \in Audio, NEW s \in 1 .. Slices, Pending(c, s)
      PROVE  Pending(c, s)' \/ (pc.at \in Reblocked /\ s = pc.tick /\ kind = "replace" /\ c = ch)
  BY <1>1, <1>4, PendingStays DEF Pending, Replaces
<1>5. CASE kind \in Writers /\ Write(kind, ch, on)
  <2>1. ch \in Audio
    BY <1>1, <1>5, UnitOf DEF Writers, WritersKr, ReadersKr
  <2>2. /\ \A c \in Audio : c # ch =>
             data'[c] = data[c] /\ mix'[c] = mix[c] /\ touched'[c] = touched[c]
        /\ touched'[ch] = counter
        /\ \A s \in 1 .. Slices :
             /\ s \in on /\ (~Pending(ch, s) \/ kind = "replace") => data'[ch][s] = mix'[ch][s]
             /\ Live(ch) /\ s \notin on => data'[ch][s] = data[ch][s] /\ mix'[ch][s] = mix[ch][s]
             /\ ~Live(ch) /\ s \notin on /\ kind # "replace" => data'[ch][s] = mix'[ch][s]
    BY <1>1, <1>5, <2>1, WriteMixes
  <2>3. Begun'
    BY <1>1, <1>3, <2>1, <2>2, BegunStays DEF Live
  <2>4. ASSUME NEW c \in Audio, NEW s \in 1 .. Slices, touched'[c] = counter, ~Pending(c, s)'
        PROVE  data'[c][s] = mix'[c][s]
    <3>1. CASE c # ch
      <4>1. data'[c] = data[c] /\ mix'[c] = mix[c] /\ Live(c)
        BY <2>2, <2>4, <3>1 DEF Live
      <4>2. ~Pending(c, s)
        BY <1>4, <2>4, <3>1
      <4> QED
        BY <1>3, <4>1, <4>2
    <3>2. CASE c = ch /\ s \in on
      BY <1>4, <2>2, <2>4, <3>2
    <3>3. CASE c = ch /\ s \notin on /\ Live(ch)
      <4>1. ~Pending(ch, s)
        BY <1>4, <2>4, <3>3 DEF TickSlices
      <4>2. data[ch][s] = mix[ch][s]
        BY <1>3, <2>1, <3>3, <4>1
      <4>3. data'[ch][s] = data[ch][s] /\ mix'[ch][s] = mix[ch][s]
        BY <2>2, <3>3
      <4> QED
        BY <3>3, <4>2, <4>3
    <3>4. CASE c = ch /\ s \notin on /\ ~Live(ch)
      <4>1. kind # "replace"
        <5> SUFFICES ASSUME kind = "replace" PROVE FALSE
          OBVIOUS
        <5>1. pc.at \in Reblocked /\ s # pc.tick /\ pc.tick \in 1 .. Slices
          BY <1>1, <3>4 DEF TickSlices, Ticks
        <5>2. s < pc.tick
          <6>1. ~Pending(ch, s)
            BY <1>4, <2>1, <2>4, <3>4, <5>1
          <6> QED
            BY <1>1, <5>1, <6>1 DEF Pending, Replaces
        <5>3. pc.tick > 1
          BY <5>1, <5>2
        <5> QED
          BY <1>1, <1>3, <3>4, <5>1, <5>3 DEF Begun
      <4> QED
        BY <2>2, <3>4, <4>1
    <3> QED
      BY <3>1, <3>2, <3>3, <3>4
  <2>5. ASSUME NEW c \in Audio, NEW s \in 1 .. Slices, touched'[c] # counter
        PROVE  mix'[c][s] = {} /\ data'[c][s] = left'[c][s]
    <3>1. c # ch
      BY <2>2, <2>5
    <3>2. ~Live(c) /\ data'[c] = data[c] /\ mix'[c] = mix[c]
      BY <2>2, <2>5, <3>1 DEF Live
    <3> QED
      BY <1>1, <1>3, <3>2
  <2> QED
    BY <1>1, <1>2, <2>3, <2>4, <2>5 DEF Mixing, Live
<1>6. CASE /\ kind \notin Writers
           /\ data' = data /\ mix' = mix /\ touched' = touched
  <2>1. kind # "replace" /\ kind # "xpart"
    BY <1>6 DEF Writers
  <2>2. Begun'
    BY <1>1, <1>3, <1>6, <2>1, BegunStays DEF Live
  <2>3. \A c \in Audio : \A s \in 1 .. Slices : ~Pending(c, s)' => ~Pending(c, s)
    BY <1>4, <2>1
  <2> QED
    BY <1>1, <1>2, <1>3, <1>6, <2>2, <2>3 DEF Mixing, Live
<1> QED
  BY <1>5, <1>6 DEF RunUnit, WriteKr, Read, Writers, WritersKr, Readers, ReadersKr

(* The channels start out silent. *)
LEMMA InitMixing == Init => Mixing
<1> SUFFICES ASSUME Init PROVE Mixing
  OBVIOUS
<1>1. /\ pc.at \notin Reblocked
      /\ \A c \in Audio : data[c] = mix[c] /\ data[c] = left[c] /\ data[c] = Silence /\ Out0 \in Audio
  BY Apart, GraphAssumption DEF Init, Audio
<1> QED
  BY <1>1 DEF Mixing, Begun, Silence, Audio

(* The start of a block leaves every channel untouched but the input. *)
LEMMA BeginBlockMixing ==
    ASSUME Typed, Mixing, BeginBlock
    PROVE  Mixing'
<1>1. /\ data' = [data EXCEPT ![In0] = HostInput]
      /\ mix' = [c \in Audio |-> IF c = In0 THEN HostInput ELSE Silence]
      /\ touched' = [touched EXCEPT ![In0] = counter + 1]
      /\ counter' = counter + 1
  BY BeginBlockWrites
<1>2. pc = Idle /\ left' = left /\ counter \in Nat /\ touched \in [Audio -> 0 .. counter]
      /\ DOMAIN data = Audio /\ In0 \in Audio
  BY DEF BeginBlock, Typed, Audio
<1>3. \E o : pc' = IF o = <<>> THEN Ending ELSE FirstUnit(o[1])
  BY Zenon DEF BeginBlock
<1>4. pc' # Idle
  BY BeginBlockTyped, Apart
<1>5. Begun'
  <2>1. CASE pc' = Ending
    BY <2>1, Apart, GraphAssumption DEF Begun
  <2>2. CASE \E n : pc' = FirstUnit(n)
    <3>1. pc'.tick = 1 /\ pc'.unit = 1
      BY <2>2 DEF FirstUnit
    <3> QED
      BY <3>1 DEF Begun
  <2> QED
    BY <1>3, <2>1, <2>2
<1>6. \A c \in Audio : c # In0 => touched'[c] # counter'
  BY <1>1, <1>2
<1>7. \A c \in Audio : \A s \in 1 .. Slices :
        /\ c = In0 => data'[c][s] = mix'[c][s] /\ touched'[c] = counter'
        /\ c # In0 => mix'[c][s] = {} /\ data'[c][s] = left'[c][s]
  BY <1>1, <1>2 DEF Mixing, Silence
<1> QED
  BY <1>4, <1>5, <1>6, <1>7 DEF Mixing, Live

(* The end of a block silences the output if none wrote to it. *)
LEMMA EndBlockMixing ==
    ASSUME Typed, Mixing, EndBlock
    PROVE  Mixing'
<1>1. /\ pc = Ending /\ pc' = Idle /\ pc.at \notin Reblocked /\ pc'.at \notin Reblocked
      /\ UNCHANGED <<touched, counter, mix>>
      /\ data' = IF Live(Out0) THEN data ELSE [data EXCEPT ![Out0] = Silence]
      /\ left' = [c \in Audio |-> IF Live(c) \/ c = Out0 THEN mix[c] ELSE left[c]]
  BY Apart, GraphAssumption DEF EndBlock
<1>2. \A c \in Audio : \A s \in 1 .. Slices :
        /\ Live(c) => data[c][s] = mix[c][s]
        /\ ~Live(c) => mix[c][s] = {} /\ data[c][s] = left[c][s]
  BY <1>1 DEF Mixing, Pending
<1>3. ASSUME NEW c \in Audio, NEW s \in 1 .. Slices
      PROVE  /\ Live(c) => data'[c][s] = mix'[c][s]
             /\ data'[c][s] = left'[c][s]
             /\ c = Out0 => data'[c][s] = mix'[c][s]
  <2>1. DOMAIN data = Audio
    BY DEF Typed
  <2>2. CASE Live(c)
    BY <1>1, <1>2, <2>1, <2>2
  <2>3. CASE ~Live(c) /\ c = Out0
    BY <1>1, <1>2, <2>1, <2>3 DEF Silence
  <2>4. CASE ~Live(c) /\ c # Out0
    BY <1>1, <1>2, <2>1, <2>4
  <2> QED
    BY <2>2, <2>3, <2>4
<1>4. \A c \in Audio : \A s \in 1 .. Slices : ~Live(c) => mix'[c][s] = {}
  BY <1>1, <1>2
<1>5. Begun'
  BY <1>1 DEF Begun
<1>6. Out0 \in Audio
  BY DEF Audio
<1> QED
  BY <1>1, <1>3, <1>4, <1>5, <1>6 DEF Mixing, Live

(* Every step keeps Mixing. *)
LEMMA StepMixing == NoFadedReblocking /\ Typed /\ Mixing /\ [Next]_vars => Mixing'
<1> SUFFICES ASSUME NoFadedReblocking, Typed, Mixing, [Next]_vars PROVE Mixing'
  OBVIOUS
<1>1. CASE HostCall
  BY <1>1 DEF HostCall, Mixing, Begun, Pending, Live
<1>2. CASE BeginBlock
  BY <1>2, BeginBlockMixing
<1>3. CASE RunUnit
  BY <1>3, RunUnitMixing
<1>4. CASE EndBlock
  BY <1>4, EndBlockMixing
<1>5. CASE Emit
  BY <1>5 DEF Emit, Mixing, Begun, Pending, Live
<1>6. CASE UNCHANGED vars
  BY <1>6 DEF vars, Mixing, Begun, Pending, Live
<1> QED
  BY <1>1, <1>2, <1>3, <1>4, <1>5, <1>6 DEF Next

(* A reader hears the mix: no slice it reads is pending. *)
LEMMA StepReaders == ReadersBehindReplaces /\ Typed /\ Mixing /\ ReadersHearTheMix /\ [Next]_vars
                       => ReadersHearTheMix'
<1> SUFFICES ASSUME ReadersBehindReplaces, Typed, Mixing, ReadersHearTheMix, [Next]_vars
             PROVE  ReadersHearTheMix'
  OBVIOUS
<1>1. CASE heard' = Nothing
  BY <1>1 DEF Nothing, ReadersHearTheMix
<1>2. CASE UNCHANGED <<heard, mix, touched, counter, left>>
  BY <1>2 DEF ReadersHearTheMix, Live
<1>3. CASE RunUnit
  <2> DEFINE kind == Graph(pc.at)[pc.unit][1]
             ch == Graph(pc.at)[pc.unit][2]
             on == TickSlices(pc.at, pc.tick)
  <2>1. /\ pc.at \in Node /\ counter' = counter /\ left' = left
        /\ pc.tick \in 1 .. Ticks(pc.at) /\ pc.unit \in 1 .. Len(Graph(pc.at))
    BY <1>3, Apart DEF RunUnit, Typed
  <2>2. heard' = Nothing \/ (kind \in Readers \cup ReadersKr /\ Read(kind, ch, on))
    BY <1>3 DEF RunUnit, Write, WriteKr
  <2>3. CASE kind \in Readers /\ Read(kind, ch, on)
    <3>1. ch \in Audio
      BY <2>1, <2>3, UnitOf DEF Readers, WritersKr, ReadersKr
    <3>2. on \subseteq 1 .. Slices
      BY <2>1, BusAssumption DEF TickSlices, Ticks
    <3>3. ASSUME NEW s \in on
          PROVE  ~Pending(ch, s)
      <4> SUFFICES ASSUME Pending(ch, s) PROVE FALSE
        OBVIOUS
      <4>1. pc.at \in Reblocked /\ s = pc.tick
        BY <3>3 DEF Pending, TickSlices
      <4>2. PICK v \in 1 .. Len(Graph(pc.at)) : Replaces(pc.at, v, ch) /\ pc.unit <= v
        BY <2>1, <4>1 DEF Pending
      <4>3. v # pc.unit
        BY <2>3, <4>2 DEF Replaces, Readers
      <4>4. pc.unit \in 1 .. v - 1
        BY <2>1, <4>2, <4>3
      <4> QED
        BY <2>3, <4>1, <4>2, <4>4 DEF ReadersBehindReplaces, Replaces
    <3>4. \A s \in on : IF Live(ch) THEN data[ch][s] = mix[ch][s]
                        ELSE mix[ch][s] = {} /\ data[ch][s] = left[ch][s]
      BY <3>1, <3>2, <3>3 DEF Mixing
    <3>5. UNCHANGED <<mix, touched>>
      BY <2>3 DEF Read
    <3>6. CASE kind \in {"in", "map"}
      <4>1. heard' = [kind |-> "in", ch |-> ch, slices |-> on,
                      got |-> IF Live(ch) THEN data[ch] ELSE Silence]
        BY <2>3, <3>6 DEF Read, In, Hear
      <4>2. \A s \in on : heard'.got[s] = mix'[ch][s]
        BY <3>2, <3>4, <3>5, <4>1 DEF Silence
      <4> QED
        BY <4>1, <4>2 DEF ReadersHearTheMix
    <3>7. CASE kind = "feedback"
      <4>1. heard' = [kind |-> "feedback", ch |-> ch, slices |-> on, got |-> data[ch]]
        BY <2>3, <3>7 DEF Read, InFeedback, Hear
      <4> QED
        BY <2>1, <3>4, <3>5, <4>1 DEF ReadersHearTheMix, Live
    <3> QED
      BY <2>3, <3>6, <3>7 DEF Readers
  <2>4. CASE kind \in ReadersKr /\ Read(kind, ch, on)
    <3>1. heard'.kind \in {"control", "trig"}
      BY <2>4 DEF Read, InKr, InTrig, Hear, ReadersKr
    <3> QED
      BY <3>1 DEF ReadersHearTheMix
  <2> QED
    BY <1>1, <2>2, <2>3, <2>4
<1> QED
  BY <1>1, <1>2, <1>3 DEF Next, HostCall, BeginBlock, EndBlock, Emit, vars

(* A reader hears exactly what the writers before it in this block have    *)
(* made of the channel, and silence where none wrote (bus.rs, input.rs),   *)
(* however synths are ordered, paused, freed and reblocked.                *)
THEOREM ReadersHear ==
    ASSUME NoFadedReblocking, ReadersBehindReplaces
    PROVE  Spec => []ReadersHearTheMix
<1>1. Init => Typed /\ Mixing /\ ReadersHearTheMix
  <2>1. Init => ReadersHearTheMix
    BY DEF Init, Nothing, ReadersHearTheMix
  <2> QED
    BY <2>1, InitTyped, InitMixing
<1>2. Typed /\ Mixing /\ ReadersHearTheMix /\ [Next]_vars => Typed' /\ Mixing' /\ ReadersHearTheMix'
  BY StepTyped, StepMixing, StepReaders
<1> QED
  BY <1>1, <1>2, PTL DEF Spec

(* The host hears the mix of the block whose frames it gets. *)
LEMMA StepHost == Typed /\ Mixing /\ Played /\ HostHearsTheMix /\ [Next]_vars => HostHearsTheMix'
<1> SUFFICES ASSUME Typed, Mixing, Played, HostHearsTheMix, [Next]_vars
             PROVE  HostHearsTheMix'
  OBVIOUS
<1>1. counter \in Nat
  BY DEF Typed
<1>2. CASE BeginBlock
  <2>1. counter' = counter + 1 /\ played' = played
    BY <1>2 DEF BeginBlock
  <2> QED
    BY <1>1, <2>1 DEF Played, HostHearsTheMix
<1>3. CASE RunUnit
  <2>1. pc # Idle /\ UNCHANGED <<counter, played>>
    BY <1>3, Apart DEF RunUnit
  <2> QED
    BY <2>1 DEF Played, HostHearsTheMix
<1>4. CASE Emit
  <2>1. PICK n \in 1 .. Slices :
          /\ emitted \in 0 .. Slices - 1 /\ emitted + n <= Slices /\ pc = Idle
          /\ DOMAIN played' = 1 .. n
          /\ \A i \in 1 .. n : played'[i].block = counter /\ played'[i].slice = emitted + i
                               /\ played'[i].got = data[Out0][emitted + i]
    BY <1>4, Emitted
  <2>2. mix' = mix /\ Slices \in Nat
    BY <1>4, BusAssumption DEF Emit
  <2>3. \A i \in 1 .. n : data[Out0][emitted + i] = mix[Out0][emitted + i]
    BY <2>1, <2>2 DEF Mixing
  <2> QED
    BY <2>1, <2>2, <2>3 DEF HostHearsTheMix
<1>5. CASE UNCHANGED <<played, mix, counter>>
  BY <1>5 DEF HostHearsTheMix
<1> QED
  BY <1>2, <1>3, <1>4, <1>5 DEF Next, HostCall, EndBlock, vars

(* A control bus holds its value over blocks in which nobody writes, while *)
(* an output that nobody wrote to is silent (io.rs, World::run_one_block). *)
THEOREM HeldOrSilent ==
    ASSUME NoFadedReblocking
    PROVE  Spec => []UnwrittenHeldOrSilent
<1> DEFINE I == Typed /\ Mixing /\ Played /\ Held /\ ControlHeld /\ HostHearsTheMix
<1>1. Init => I
  <2>1. Init => HostHearsTheMix
    BY DEF Init, HostHearsTheMix
  <2> QED
    BY <2>1, InitTyped, InitMixing, InitPlayed, InitHeld
<1>2. I /\ [Next]_vars => I'
  BY StepTyped, StepMixing, StepPlayed, StepHeld, StepHost
<1>3. I => UnwrittenHeldOrSilent
  BY DEF UnwrittenHeldOrSilent
<1> QED
  BY <1>1, <1>2, <1>3, PTL DEF Spec
-----------------------------------------------------------------------------
CONSTANTS Chunks, ChunkFrames, Frames, OtherFrames, BlockFrames, MaxHeard, Replacing, NoChunk, NrtApart
VARIABLES mode, buffer, recording, rt, toWrite, next, current, filled, recycle, written,
          host, chunk, sink, outcome, closing
Recorder == INSTANCE StreamRecorder WITH left <- toWrite

(* The instance's flattening is the library's. *)
LEMMA RecorderFlattens ==
    ASSUME NEW s
    PROVE  Recorder!FlattenSeq(s) = FlattenSeq(s)
  BY DEF Recorder!FlattenSeq, FlattenSeq

Frame == [of : {"original", "other", "none"}, index : Nat]
Chunk == Seq(Frame)

(* A chunk that an end holds. *)
InHand(c) == IF c = NoChunk THEN 0 ELSE 1

(* What the sink is being given, and what the audio thread is filling. *)
Saving == IF host = "save" THEN chunk ELSE <<>>
Filling == IF current = NoChunk THEN <<>> ELSE current

Places ==
    /\ recording \in {"rt", "trash", "dropped"} /\ buffer \in {"original", "other", "none"}
    /\ rt \in {"idle", "write", "push", "flush"}
    /\ host \in {"idle", "drain", "save", "recycle", "isEmpty", "isAbandoned"}
    /\ toWrite \in Nat /\ next \in Nat /\ recycle \in Nat
    /\ current \in Chunk \cup {NoChunk} /\ (current # NoChunk => Len(current) <= ChunkFrames)
    /\ chunk \in Chunk \cup {NoChunk} /\ (chunk # NoChunk => Len(chunk) <= ChunkFrames)
    /\ filled \in Seq({c \in Chunk : Len(c) <= ChunkFrames})

(* Every chunk of the pool is in a ring or with the end that works on it.  *)
(* A failing sink is the one that loses a chunk, and no more are counted   *)
(* from then on.                                                           *)
Pool == recycle + Len(filled) + InHand(current) + InHand(chunk)

StreamInv ==
    /\ Places
    /\ rt = "push" => current # NoChunk
    /\ host \in {"save", "recycle"} <=> chunk # NoChunk
    /\ host # "idle" => outcome = "open"
    /\ Pool <= Chunks
    /\ outcome = "open" => Pool = Chunks

(* The sizes, and what the invariant says of each place. *)
LEMMA Facts ==
    ASSUME Recorder!SizesOK, StreamInv
    PROVE  /\ Chunks \in Nat /\ ChunkFrames \in Nat /\ ChunkFrames >= 1 /\ BlockFrames \in Nat
           /\ Frames \in Nat /\ OtherFrames \in Nat
           /\ recycle \in Nat /\ Len(filled) \in Nat
           /\ InHand(current) \in {0, 1} /\ InHand(chunk) \in {0, 1}
           /\ Recorder!RingSize = Chunks + 1
  BY DEF Recorder!SizesOK, StreamInv, Places, InHand, Recorder!RingSize

(* The pool's invariant holds at the start. *)
LEMMA InitInv == Recorder!SizesOK /\ Recorder!Init => StreamInv
  BY DEF Recorder!SizesOK, Recorder!Init, StreamInv, Places, Pool, InHand, Chunk

(* The audio thread, where it does not touch a ring. *)
LEMMA QuietAudioKeeps ==
    ASSUME Recorder!SizesOK, StreamInv,
           Recorder!StartCopy \/ Recorder!StartLive \/ Recorder!EndWrite \/ Recorder!CloseRecording \/ Recorder!FreeSlot \/ Recorder!ChangeSlot
    PROVE  StreamInv'
<1>1. UNCHANGED <<current, filled, recycle, Recorder!hostVars>>
  BY DEF Recorder!StartCopy, Recorder!StartLive, Recorder!EndWrite, Recorder!CloseRecording, Recorder!FreeSlot, Recorder!ChangeSlot, Recorder!hostVars
<1>2. /\ recording' \in {"rt", "trash", "dropped"} /\ buffer' \in {"original", "other", "none"}
      /\ rt' \in {"idle", "write", "push", "flush"} /\ (rt' = "push" => rt = "push")
  BY DEF Recorder!StartCopy, Recorder!StartLive, Recorder!EndWrite, Recorder!CloseRecording, Recorder!FreeSlot, Recorder!ChangeSlot, Recorder!Retire,
         StreamInv, Places
<1>3. toWrite' \in Nat /\ next' \in Nat
  BY Facts DEF Recorder!StartCopy, Recorder!StartLive, Recorder!EndWrite, Recorder!CloseRecording, Recorder!FreeSlot, Recorder!ChangeSlot, Recorder!Total,
               StreamInv, Places
<1> QED
  BY <1>1, <1>2, <1>3 DEF StreamInv, Places, Pool, InHand, Recorder!hostVars

(* What one call of StreamRecording::write adds to a chunk. *)
LEMMA WriteAdds ==
    ASSUME Recorder!SizesOK, StreamInv, Recorder!Write
    PROVE  \E new \in Chunk :
              /\ current' = Filling \o new /\ written' = written \o new
              /\ current' \in Chunk /\ Len(current') <= ChunkFrames
              /\ Len(new) <= toWrite /\ toWrite' = toWrite - Len(new) /\ next' = next + Len(new)
<1> DEFINE n == Recorder!Smaller(toWrite, ChunkFrames - Len(Filling))
           new == [i \in 1..n |-> [of |-> buffer, index |-> next + i - 1]]
<1>1. /\ current' = Filling \o new /\ written' = written \o new
      /\ next' = next + n /\ toWrite' = toWrite - n
  BY DEF Recorder!Write, Filling
<1>2. Filling \in Chunk /\ Len(Filling) <= ChunkFrames /\ Len(Filling) \in Nat
  <2>1. /\ current # NoChunk => current \in Chunk /\ Len(current) <= ChunkFrames
        /\ <<>> \in Chunk /\ Len(<<>>) <= ChunkFrames
    BY Facts DEF StreamInv, Places, Chunk
  <2>2. Filling \in Chunk /\ Len(Filling) <= ChunkFrames
    BY <2>1 DEF Filling
  <2> QED
    BY <2>2, LenProperties DEF Chunk
<1>3. /\ toWrite \in Nat /\ next \in Nat /\ ChunkFrames \in Nat
      /\ buffer \in {"original", "other", "none"}
  BY Facts DEF StreamInv, Places
<1>4. n \in Nat /\ n <= toWrite /\ Len(Filling) + n <= ChunkFrames
  BY <1>2, <1>3 DEF Recorder!Smaller
<1> HIDE DEF n
<1>5. new \in Chunk /\ Len(new) = n
  <2>1. \A i \in 1..n : [of |-> buffer, index |-> next + i - 1] \in Frame
    <3> SUFFICES ASSUME NEW i \in 1..n
                 PROVE  next + i - 1 \in Nat
      BY <1>3 DEF Frame
    <3> QED
      BY <1>3, <1>4
  <2>2. new \in [1..n -> Frame]
    BY <2>1
  <2> QED
    BY <1>4, <2>2 DEF Chunk
<1> HIDE DEF new
<1>6. Filling \o new \in Seq(Frame) /\ Len(Filling \o new) = Len(Filling) + Len(new)
  BY <1>2, <1>5, ConcatProperties, Zenon DEF Chunk
<1>7. current' \in Chunk /\ Len(current') <= ChunkFrames
  BY <1>1, <1>2, <1>4, <1>5, <1>6 DEF Chunk
<1> QED
  BY <1>1, <1>4, <1>5, <1>7

(* The audio thread writes a block. *)
LEMMA WriteKeeps ==
    ASSUME Recorder!SizesOK, NoChunk \notin Chunk, StreamInv, Recorder!Write
    PROVE  StreamInv'
<1>1. PICK new \in Chunk :
         /\ current' \in Chunk /\ Len(current') <= ChunkFrames
         /\ Len(new) <= toWrite /\ toWrite' = toWrite - Len(new) /\ next' = next + Len(new)
  BY WriteAdds
<1>2. /\ rt' \in {"push", "write"}
      /\ recycle' = IF current = NoChunk THEN recycle - 1 ELSE recycle
      /\ UNCHANGED <<recording, buffer, Recorder!hostVars, filled>>
      /\ (current # NoChunk \/ recycle > 0)
  BY DEF Recorder!Write
<1>3. toWrite' \in Nat /\ next' \in Nat
  <2>1. toWrite \in Nat /\ next \in Nat /\ Len(new) \in Nat
    BY <1>1, LenProperties DEF StreamInv, Places, Chunk
  <2> QED
    BY <1>1, <2>1
<1>4. current' # NoChunk
  BY <1>1
<1>5. Pool' = Pool /\ recycle' \in Nat
  <2>1. InHand(current') = 1 /\ InHand(chunk') = InHand(chunk) /\ Len(filled') = Len(filled)
    BY <1>2, <1>4 DEF InHand, Recorder!hostVars
  <2>2. CASE current = NoChunk
    <3>1. recycle' = recycle - 1 /\ recycle > 0 /\ InHand(current) = 0
      BY <1>2, <2>2 DEF InHand
    <3> QED
      BY <2>1, <3>1, Facts DEF Pool
  <2>3. CASE current # NoChunk
    <3>1. recycle' = recycle /\ InHand(current) = 1
      BY <1>2, <2>3 DEF InHand
    <3> QED
      BY <2>1, <3>1, Facts DEF Pool
  <2> QED
    BY <2>2, <2>3
<1> QED
  BY <1>1, <1>2, <1>3, <1>4, <1>5 DEF StreamInv, Places, Recorder!hostVars

(* Handing a chunk over: the ring has room for the whole pool. *)
LEMMA HandedKeeps ==
    ASSUME Recorder!SizesOK, StreamInv, current # NoChunk,
           filled' = Append(filled, current), current' = NoChunk,
           UNCHANGED <<Recorder!hostVars, recycle, buffer, toWrite, next>>,
           rt' \in {"idle", "write", "flush"}, recording' \in {"rt", "trash", "dropped"}
    PROVE  StreamInv'
<1>1. /\ current \in {c \in Chunk : Len(c) <= ChunkFrames}
      /\ filled \in Seq({c \in Chunk : Len(c) <= ChunkFrames})
  BY DEF StreamInv, Places
<1>2. /\ filled' \in Seq({c \in Chunk : Len(c) <= ChunkFrames})
      /\ Len(filled') = Len(filled) + 1
  BY <1>1
<1>3. Pool' = Pool
  BY <1>2, Facts DEF Pool, InHand, Recorder!hostVars
<1> QED
  BY <1>2, <1>3 DEF StreamInv, Places, Recorder!hostVars

(* There is room for a chunk in the ring it goes to. *)
LEMMA RoomForAll ==
    ASSUME Recorder!SizesOK, StreamInv
    PROVE  /\ current # NoChunk => Len(filled) < Recorder!RingSize
           /\ chunk # NoChunk => recycle < Recorder!RingSize
  BY Facts DEF StreamInv, Pool, InHand

(* A chunk is handed over. *)
LEMMA HandingKeeps ==
    ASSUME Recorder!SizesOK, StreamInv, Recorder!PushChunk \/ Recorder!Flush
    PROVE  StreamInv'
<1>1. CASE Recorder!PushChunk
  <2>1. current # NoChunk /\ Len(filled) < Recorder!RingSize
    BY <1>1, RoomForAll DEF Recorder!PushChunk, StreamInv
  <2> QED
    BY <1>1, <2>1, HandedKeeps DEF Recorder!PushChunk, StreamInv, Places
<1>2. CASE Recorder!Flush
  <2>1. CASE current \in {NoChunk, <<>>}
    <3>1. /\ recording' = "trash" /\ rt' = "idle"
          /\ UNCHANGED <<filled, current, buffer, toWrite, next, Recorder!hostVars, recycle>>
      BY <1>2, <2>1 DEF Recorder!Flush, Recorder!Retire
    <3> QED
      BY <3>1 DEF StreamInv, Places, Pool, InHand, Recorder!hostVars
  <2>2. CASE current \notin {NoChunk, <<>>}
    <3>1. Len(filled) < Recorder!RingSize
      BY <2>2, RoomForAll
    <3> QED
      BY <1>2, <2>2, <3>1, HandedKeeps DEF Recorder!Flush, Recorder!Retire
  <2> QED
    BY <2>1, <2>2
<1> QED
  BY <1>1, <1>2

(* The host. *)
LEMMA PopKeeps ==
    ASSUME Recorder!SizesOK, NoChunk \notin Chunk, StreamInv, Recorder!Pop
    PROVE  StreamInv'
<1>1. /\ filled \in Seq({c \in Chunk : Len(c) <= ChunkFrames}) /\ filled # <<>>
      /\ filled' = Tail(filled) /\ chunk' = Head(filled) /\ chunk = NoChunk /\ host' = "save"
      /\ outcome = "open"
      /\ UNCHANGED <<outcome, recycle, Recorder!rtVars, recording>>
  BY DEF Recorder!Pop, StreamInv, Places
<1>2. /\ chunk' \in {c \in Chunk : Len(c) <= ChunkFrames} /\ chunk' # NoChunk
      /\ filled' \in Seq({c \in Chunk : Len(c) <= ChunkFrames})
      /\ Len(filled') = Len(filled) - 1
  BY <1>1
<1>3. Pool' = Pool
  BY <1>1, <1>2, Facts DEF Pool, InHand, Recorder!rtVars
<1> QED
  BY <1>1, <1>2, <1>3 DEF StreamInv, Places, Recorder!rtVars

(* The host copies the chunk it holds to the sink. *)
LEMMA SaveKeeps ==
    ASSUME Recorder!SizesOK, StreamInv, Recorder!Save
    PROVE  StreamInv'
<1>1. UNCHANGED <<recording, Recorder!rtVars, filled, recycle>> /\ chunk # NoChunk
  BY DEF Recorder!Save, StreamInv
<1>2. CASE host' = "recycle" /\ UNCHANGED <<chunk, outcome>>
  BY <1>1, <1>2 DEF StreamInv, Places, Pool, InHand, Recorder!rtVars
<1>3. CASE outcome' = "failed" /\ host' = "idle" /\ chunk' = NoChunk
  <2>1. Pool' <= Chunks
    BY <1>1, <1>3, Facts DEF Pool, InHand, Recorder!rtVars, StreamInv
  <2> QED
    BY <1>1, <1>3, <2>1 DEF StreamInv, Places, Recorder!rtVars
<1> QED
  BY <1>2, <1>3 DEF Recorder!Save

(* An emptied chunk goes back to the audio thread. *)
LEMMA RecycleKeeps ==
    ASSUME Recorder!SizesOK, StreamInv, Recorder!Recycle
    PROVE  StreamInv'
<1>1. chunk # NoChunk /\ recycle < Recorder!RingSize /\ outcome = "open"
  BY RoomForAll DEF Recorder!Recycle, StreamInv
<1>2. /\ recycle' = recycle + 1 /\ chunk' = NoChunk /\ host' = "drain"
      /\ UNCHANGED <<recording, Recorder!rtVars, outcome, filled>>
  BY <1>1 DEF Recorder!Recycle
<1>3. Pool' = Pool /\ recycle' \in Nat
  <2>1. InHand(chunk) = 1 /\ InHand(chunk') = 0 /\ InHand(current') = InHand(current)
    BY <1>1, <1>2 DEF InHand, Recorder!rtVars
  <2> QED
    BY <1>2, <2>1, Facts DEF Pool
<1>4. Places'
  BY <1>2, <1>3 DEF StreamInv, Places, Recorder!rtVars
<1> QED
  BY <1>1, <1>2, <1>3, <1>4 DEF StreamInv, Recorder!rtVars

(* What the host does apart from the chunks. *)
LEMMA QuietHostKeeps ==
    ASSUME Recorder!SizesOK, StreamInv,
           Recorder!Drop \/ Recorder!Drained \/ Recorder!IsEmpty \/ Recorder!IsAbandoned \/ Recorder!OpenFails \/ Recorder!RequestClose \/ Recorder!ForgetStream
    PROVE  StreamInv'
<1>1. /\ UNCHANGED <<Recorder!rtVars, chunk, filled, recycle>>
      /\ recording' \in {recording, "dropped"}
  BY DEF Recorder!Drop, Recorder!Drained, Recorder!IsEmpty, Recorder!IsAbandoned, Recorder!OpenFails, Recorder!RequestClose, Recorder!ForgetStream, Recorder!hostVars
<1>2. /\ host' \in {"idle", "drain", "isEmpty", "isAbandoned"}
           \/ host' = host
      /\ host' # host => host \in {"idle", "drain", "isEmpty", "isAbandoned"}
      /\ outcome' = "open" => outcome = "open"
      /\ host' # "idle" => outcome' = "open"
  BY DEF StreamInv, Recorder!Drop, Recorder!Drained, Recorder!IsEmpty, Recorder!IsAbandoned, Recorder!OpenFails, Recorder!RequestClose, Recorder!ForgetStream, Recorder!hostVars
<1>3. Pool' = Pool
  BY <1>1 DEF Pool, InHand, Recorder!rtVars
<1> QED
  BY <1>1, <1>2, <1>3 DEF StreamInv, Places, Recorder!rtVars

(* Every step keeps the pool's invariant. *)
LEMMA StepInv ==
    ASSUME Recorder!SizesOK, NoChunk \notin Chunk, StreamInv, [Recorder!Next]_(Recorder!vars)
    PROVE  StreamInv'
<1>1. CASE UNCHANGED Recorder!vars
  BY <1>1 DEF Recorder!vars, Recorder!rtVars, Recorder!hostVars, StreamInv, Places, Pool, InHand
<1>2. CASE Recorder!Next
  BY <1>2, QuietAudioKeeps, WriteKeeps, HandingKeeps, PopKeeps, SaveKeeps, RecycleKeeps,
     QuietHostKeeps DEF Recorder!Next, Recorder!Audio, Recorder!Host
<1> QED
  BY <1>1, <1>2

(* Neither end ever meets a full ring: no chunk is overwritten by the      *)
(* audio thread (StreamRecording::push_current) nor freed by the host when *)
(* it sends one back.                                                      *)
NoRingFull ==
    /\ rt \in {"push", "flush"} /\ current # NoChunk => Len(filled) < Recorder!RingSize
    /\ host = "recycle" => recycle < Recorder!RingSize

(* The stream between the audio thread and the host keeps its types and    *)
(* its pool of chunks, and neither of its rings overflows: for every pool, *)
(* chunk size, buffer and block, with Nrt on a thread of its own or not,   *)
(* and whatever fails, is closed, replaced or freed meanwhile.             *)
THEOREM PoolConserved ==
    ASSUME Recorder!SizesOK, NoChunk \notin Chunk
    PROVE  Recorder!Spec => [](Recorder!TypeOK /\ Recorder!ChunksConserved /\ NoRingFull)
<1>1. Recorder!Init => StreamInv
  BY InitInv
<1>2. StreamInv /\ [Recorder!Next]_(Recorder!vars) => StreamInv'
  BY StepInv
<1>3. StreamInv => Recorder!TypeOK /\ Recorder!ChunksConserved /\ NoRingFull
  <2> SUFFICES ASSUME StreamInv PROVE Recorder!TypeOK /\ Recorder!ChunksConserved /\ NoRingFull
    OBVIOUS
  <2>1. Recorder!ChunksConserved
    BY Facts DEF StreamInv, Recorder!ChunksConserved, Pool, InHand
  <2>2. NoRingFull
    BY RoomForAll DEF NoRingFull, StreamInv
  <2>3. recycle \in 0..Recorder!RingSize
    BY Facts DEF StreamInv, Pool
  <2>4. Recorder!TypeOK
    BY <2>3 DEF StreamInv, Places, Recorder!TypeOK, Recorder!IsChunk
  <2> QED
    BY <2>1, <2>2, <2>4
<1> QED
  BY <1>1, <1>2, <1>3, PTL DEF Recorder!Spec

-----------------------------------------------------------------------------
(* The frames in order.                                                    *)

Flow == written \in Seq(Frame) /\ sink \in Seq(Frame)

OrderInv == StreamInv /\ Flow /\ Recorder!NothingReordered

(* The pieces of NothingReordered are sequences of frames. *)
LEMMA Pieces ==
    ASSUME StreamInv
    PROVE  /\ Saving \in Chunk /\ Filling \in Chunk /\ filled \in Seq(Chunk)
           /\ FlattenSeq(filled) \in Chunk
<1>1. filled \in Seq(Chunk)
  <2>1. filled \in Seq({c \in Chunk : Len(c) <= ChunkFrames})
    BY DEF StreamInv, Places
  <2>2. {c \in Chunk : Len(c) <= ChunkFrames} \subseteq Chunk
    OBVIOUS
  <2> QED
    BY <2>1, <2>2, SeqMonotonic
<1>2. FlattenSeq(filled) \in Chunk
  BY <1>1, FlattenType DEF Chunk
<1>3. <<>> \in Chunk
  BY DEF Chunk
<1>4. Saving \in Chunk
  <2>1. host = "save" => chunk # NoChunk /\ chunk \in Chunk \cup {NoChunk}
    BY DEF StreamInv, Places
  <2> QED
    BY <1>3, <2>1 DEF Saving
<1>5. Filling \in Chunk
  <2>1. current \in Chunk \cup {NoChunk}
    BY DEF StreamInv, Places
  <2> QED
    BY <1>3, <2>1 DEF Filling
<1> QED
  BY <1>1, <1>2, <1>4, <1>5

(* Concatenation of chunks is associative. *)
LEMMA ChunksAssociate == \A a, b, c \in Chunk : (a \o b) \o c = a \o (b \o c)
  BY ONLY Associative, SMT DEF Chunk

(* What was written, as one sequence: saved, being saved, waiting, being filled. *)
LEMMA Together ==
    Recorder!NothingReordered
        <=> (outcome = "open" => written = sink \o Saving \o FlattenSeq(filled) \o Filling)
  BY RecorderFlattens DEF Recorder!NothingReordered, Saving, Filling

(* The order holds at the start. *)
LEMMA InitOrder == Recorder!SizesOK /\ Recorder!Init => OrderInv
<1> SUFFICES ASSUME Recorder!SizesOK, Recorder!Init PROVE OrderInv
  OBVIOUS
<1>1. StreamInv
  BY InitInv
<1>2. /\ written = <<>> /\ sink = <<>> /\ filled = <<>> /\ current = NoChunk
      /\ host = "idle"
  BY DEF Recorder!Init
<1>3. sink \o Saving \o FlattenSeq(filled) \o Filling = <<>>
  BY <1>2, FlattenEmpty, ConcatEmptySeq DEF Saving, Filling
<1> QED
  BY <1>1, <1>2, <1>3, Together DEF OrderInv, Flow

(* Whatever leaves the pieces alone keeps them in order. *)
LEMMA StillKeeps ==
    ASSUME OrderInv, StreamInv', UNCHANGED <<written, sink, filled, current, chunk>>,
           outcome' = "open" => outcome = "open" /\ (host' = "save" <=> host = "save")
    PROVE  OrderInv'
  BY DEF OrderInv, Flow, Recorder!NothingReordered

(* What is written goes to the end. *)
LEMMA WriteInOrder ==
    ASSUME Recorder!SizesOK, NoChunk \notin Chunk, OrderInv, StreamInv', Recorder!Write
    PROVE  OrderInv'
<1> DEFINE before == sink \o Saving \o FlattenSeq(filled)
<1>1. PICK new \in Chunk :
         /\ current' = Filling \o new /\ written' = written \o new /\ current' \in Chunk
  BY WriteAdds DEF OrderInv
<1>2. UNCHANGED <<Recorder!hostVars, filled>> /\ current' # NoChunk
  BY <1>1 DEF Recorder!Write
<1>3. /\ Filling' = Filling \o new
      /\ before' = before /\ outcome' = outcome /\ sink' = sink
  BY <1>1, <1>2 DEF Filling, Saving, Recorder!hostVars
<1>4. before \in Chunk /\ Filling \in Chunk /\ written \in Chunk /\ sink \in Chunk
  BY Pieces, ConcatProperties DEF OrderInv, Flow, Chunk
<1>5. outcome = "open" => written = before \o Filling
  BY Together DEF OrderInv
<1> HIDE DEF before
<1>6. (before \o Filling) \o new = before \o (Filling \o new)
  <2>1. before \in Chunk /\ Filling \in Chunk /\ new \in Chunk
    BY <1>4
  <2> QED
    BY <2>1, ChunksAssociate, Zenon
<1>7. outcome' = "open" => written' = before' \o Filling'
  BY <1>1, <1>3, <1>5, <1>6
<1>8. Flow'
  BY <1>1, <1>3, <1>4, ConcatProperties DEF Flow, Chunk
<1>9. Recorder!NothingReordered'
  BY <1>7, RecorderFlattens DEF Recorder!NothingReordered, Saving, Filling, before
<1> QED
  BY <1>8, <1>9 DEF OrderInv

(* A chunk handed over. *)
LEMMA HandedInOrder ==
    ASSUME NoChunk \notin Chunk, OrderInv, StreamInv', current # NoChunk,
           filled' = Append(filled, current), current' = NoChunk,
           UNCHANGED <<Recorder!hostVars, written>>
    PROVE  OrderInv'
<1> DEFINE before == sink \o Saving
<1>1. /\ before \in Chunk /\ FlattenSeq(filled) \in Chunk /\ current \in Chunk
      /\ filled \in Seq(Chunk) /\ Filling = current
  BY Pieces, ConcatProperties DEF OrderInv, Flow, Chunk, Filling
<1>2. /\ before' = before /\ Filling' = <<>> /\ outcome' = outcome /\ sink' = sink
      /\ FlattenSeq(filled') = FlattenSeq(filled) \o current
  <2>1. FlattenSeq(Append(filled, current)) = FlattenSeq(filled) \o current
    BY <1>1, FlattenAppend DEF Chunk
  <2> QED
    BY <2>1 DEF Filling, Saving, Recorder!hostVars
<1>3. outcome = "open" => written = (before \o FlattenSeq(filled)) \o current
  BY <1>1, Together DEF OrderInv
<1> HIDE DEF before
<1>4. /\ (before \o FlattenSeq(filled)) \o current = before \o (FlattenSeq(filled) \o current)
  BY <1>1, ChunksAssociate, Zenon
<1>5. before' \o FlattenSeq(filled') \in Chunk
  BY <1>1, <1>2, ConcatProperties DEF Chunk
<1>6. (before' \o FlattenSeq(filled')) \o Filling' = before' \o FlattenSeq(filled')
  BY <1>2, <1>5, ConcatEmptySeq DEF Chunk
<1>7. outcome' = "open" => written' = (before' \o FlattenSeq(filled')) \o Filling'
  BY <1>2, <1>3, <1>4, <1>6
<1>8. Recorder!NothingReordered'
  BY <1>7, RecorderFlattens DEF Recorder!NothingReordered, Saving, Filling, before
<1> QED
  BY <1>2, <1>8 DEF OrderInv, Flow

(* A chunk that changes hands keeps its place. *)
LEMMA HandingInOrder ==
    ASSUME Recorder!SizesOK, NoChunk \notin Chunk, OrderInv, StreamInv', Recorder!PushChunk \/ Recorder!Flush
    PROVE  OrderInv'
<1>1. current # NoChunk => Len(filled) < Recorder!RingSize
  BY RoomForAll DEF OrderInv
<1>2. UNCHANGED <<Recorder!hostVars, written>>
  BY DEF Recorder!PushChunk, Recorder!Flush
<1>3. CASE Recorder!PushChunk
  BY <1>1, <1>2, <1>3, HandedInOrder DEF Recorder!PushChunk, OrderInv, StreamInv
<1>4. CASE Recorder!Flush /\ current \in {NoChunk, <<>>}
  BY <1>2, <1>4, StillKeeps DEF Recorder!Flush, Recorder!hostVars
<1>5. CASE Recorder!Flush /\ current \notin {NoChunk, <<>>}
  BY <1>1, <1>2, <1>5, HandedInOrder DEF Recorder!Flush
<1> QED
  BY <1>3, <1>4, <1>5

(* A chunk taken by the host. *)
LEMMA PopInOrder ==
    ASSUME Recorder!SizesOK, NoChunk \notin Chunk, OrderInv, StreamInv', Recorder!Pop
    PROVE  OrderInv'
<1>1. /\ filled # <<>> /\ filled' = Tail(filled) /\ chunk' = Head(filled)
      /\ host # "save" /\ host' = "save" /\ outcome = "open"
      /\ UNCHANGED <<outcome, sink, current, written>>
  BY DEF Recorder!Pop, Recorder!rtVars
<1>2. /\ filled \in Seq(Chunk) /\ FlattenSeq(Tail(filled)) \in Chunk /\ Head(filled) \in Chunk
      /\ sink \in Chunk /\ Filling \in Chunk
  <2>1. Tail(filled) \in Seq(Chunk) /\ Head(filled) \in Chunk /\ filled \in Seq(Chunk)
    BY <1>1, Pieces DEF OrderInv
  <2>2. FlattenSeq(Tail(filled)) \in Chunk
    BY <2>1, FlattenType DEF Chunk
  <2> QED
    BY <2>1, <2>2, Pieces DEF OrderInv, Flow, Chunk
<1>3. FlattenSeq(filled) = Head(filled) \o FlattenSeq(Tail(filled))
  BY <1>1, <1>2, FlattenTail DEF Chunk
<1>4. Saving = <<>> /\ Saving' = Head(filled) /\ Filling' = Filling
  BY <1>1 DEF Saving, Filling
<1>5. sink \o <<>> = sink
  BY <1>2, ConcatEmptySeq DEF Chunk
<1>6. sink \o (Head(filled) \o FlattenSeq(Tail(filled)))
        = (sink \o Head(filled)) \o FlattenSeq(Tail(filled))
  BY <1>2, ChunksAssociate, Zenon
<1>7. written = sink \o Saving \o FlattenSeq(filled) \o Filling
  BY <1>1, Together DEF OrderInv
<1>8. written' = sink' \o Saving' \o FlattenSeq(filled') \o Filling'
  BY <1>1, <1>3, <1>4, <1>5, <1>6, <1>7
<1>9. Recorder!NothingReordered'
  BY <1>8, RecorderFlattens DEF Recorder!NothingReordered, Saving, Filling
<1> QED
  BY <1>1, <1>9 DEF OrderInv, Flow

(* What is saved moves from one part to the next. *)
LEMMA SaveInOrder ==
    ASSUME OrderInv, StreamInv', Recorder!Save
    PROVE  OrderInv'
<1>1. host = "save" /\ chunk \in Chunk /\ UNCHANGED <<filled, current, written>>
  BY Pieces DEF Recorder!Save, Recorder!rtVars, OrderInv, Saving
<1>2. CASE sink' = sink \o chunk /\ host' = "recycle" /\ UNCHANGED outcome
  <2>1. sink' \in Chunk
    BY <1>1, <1>2, ConcatProperties DEF OrderInv, Flow, Chunk
  <2>2. sink' \o <<>> = sink'
    BY <2>1, ConcatEmptySeq DEF Chunk
  <2>3. Recorder!NothingReordered'
    BY <1>1, <1>2, <2>2 DEF OrderInv, Recorder!NothingReordered
  <2> QED
    BY <1>1, <2>1, <2>3 DEF OrderInv, Flow, Chunk
<1>3. CASE outcome' = "failed" /\ UNCHANGED sink
  BY <1>1, <1>3 DEF OrderInv, Flow, Recorder!NothingReordered
<1> QED
  BY <1>2, <1>3 DEF Recorder!Save

(* Every step keeps the order. *)
LEMMA StepOrder ==
    ASSUME Recorder!SizesOK, NoChunk \notin Chunk, OrderInv, [Recorder!Next]_(Recorder!vars)
    PROVE  OrderInv'
<1>1. StreamInv'
  BY StepInv DEF OrderInv
<1>2. CASE UNCHANGED Recorder!vars
  BY <1>1, <1>2, StillKeeps DEF Recorder!vars, Recorder!rtVars, Recorder!hostVars
<1>3. CASE Recorder!StartCopy \/ Recorder!StartLive \/ Recorder!EndWrite \/ Recorder!CloseRecording \/ Recorder!FreeSlot \/ Recorder!ChangeSlot
  <2>1. UNCHANGED <<written, sink, filled, current, chunk, outcome, host>>
    BY <1>3 DEF Recorder!StartCopy, Recorder!StartLive, Recorder!EndWrite, Recorder!CloseRecording, Recorder!FreeSlot, Recorder!ChangeSlot, Recorder!hostVars
  <2> QED
    BY <1>1, <2>1, StillKeeps
<1>4. CASE Recorder!Drop \/ Recorder!Drained \/ Recorder!IsEmpty \/ Recorder!IsAbandoned \/ Recorder!OpenFails \/ Recorder!RequestClose \/ Recorder!ForgetStream
  <2>1. /\ UNCHANGED <<written, sink, filled, current, chunk>>
        /\ outcome' = "open" => outcome = "open"
        /\ host' = "save" <=> host = "save"
    BY <1>4 DEF Recorder!Drop, Recorder!Drained, Recorder!IsEmpty, Recorder!IsAbandoned, Recorder!OpenFails, Recorder!RequestClose, Recorder!ForgetStream,
                Recorder!rtVars, Recorder!hostVars, OrderInv, StreamInv
  <2> QED
    BY <1>1, <2>1, StillKeeps
<1>5. CASE Recorder!Recycle
  <2>1. UNCHANGED <<written, sink, filled, current, outcome>> /\ host = "recycle" /\ host' = "drain"
    BY <1>5 DEF Recorder!Recycle, Recorder!rtVars
  <2> QED
    BY <1>1, <2>1 DEF OrderInv, Flow, Recorder!NothingReordered
<1> QED
  BY <1>1, <1>2, <1>3, <1>4, <1>5, WriteInOrder, HandingInOrder, PopInOrder, SaveInOrder
     DEF Recorder!Next, Recorder!Audio, Recorder!Host

(* What the audio thread writes reaches the sink in order and without a    *)
(* gap, with the rest in the chunks between, and the places and the pool   *)
(* are kept: for every pool, chunk size, buffer and block, and whatever    *)
(* fails, is closed, replaced or freed meanwhile.                          *)
THEOREM StreamStaysIntact ==
    ASSUME Recorder!SizesOK, NoChunk \notin Chunk
    PROVE  Recorder!Spec => []Recorder!StreamIntact
<1>1. Recorder!Init => OrderInv
  BY InitOrder
<1>2. OrderInv /\ [Recorder!Next]_(Recorder!vars) => OrderInv'
  BY StepOrder
<1>3. OrderInv => Recorder!NothingReordered
  BY DEF OrderInv
<1> QED
  BY <1>1, <1>2, <1>3, PoolConserved, PTL DEF Recorder!Spec, Recorder!StreamIntact

-----------------------------------------------------------------------------
(* A client that is told /done.                                            *)

(* A recording that the audio thread has given up is no longer filled.     *)
GivenUp == recording # "rt" => rt = "idle"

(* A close that was applied has the recording flushed before anything else *)
(* happens to it.                                                          *)
Closing ==
    /\ mode \in {"copy", "live"}
    /\ closing = "applied" => mode = "live" /\ (rt = "flush" \/ recording # "rt")

(* How far a copy is: a frame is counted when it is in a chunk, and only   *)
(* the whole buffer makes a copy that was not disturbed end.               *)
Complete == recording # "rt" /\ outcome \in {"open", "done"}
Copying ==
    mode = "copy" =>
        /\ next = Len(written)
        /\ buffer = "original" =>
              /\ next <= Frames
              /\ rt \in {"write", "push"} => next + toWrite <= Frames
              /\ rt = "flush" \/ Complete => next = Frames

(* A recording that ended by itself or by a close left no frame behind.    *)
Flushed ==
    Complete /\ (mode = "copy" \/ closing = "applied") => current \in {NoChunk, <<>>}

(* The dispatcher looked at the ring and found it empty before it looked   *)
(* at the recording: nothing came after, for Nrt, which drops a recording, *)
(* did not run between the two.                                            *)
Emptied == host = "isAbandoned" /\ recording = "dropped" => filled = <<>>

(* What was true when the client was told stays true. *)
Told ==
    outcome = "done" =>
        /\ recording = "dropped"
        /\ mode = "copy" \/ closing = "applied" => sink = written

DoneInv == GivenUp /\ Closing /\ Copying /\ Flushed /\ Emptied /\ Told

(* The last look at a recording: it is over and nothing is left. *)
LEMMA LookTells ==
    ASSUME OrderInv, DoneInv, Recorder!IsAbandoned, recording = "dropped",
           mode = "copy" \/ closing = "applied"
    PROVE  sink = written
<1>1. /\ host = "isAbandoned" /\ outcome = "open" /\ filled = <<>>
      /\ current \in {NoChunk, <<>>}
  BY DEF Recorder!IsAbandoned, OrderInv, StreamInv, DoneInv, Emptied, Flushed, Complete
<1>2. Saving = <<>> /\ Filling = <<>> /\ FlattenSeq(filled) = <<>>
  BY <1>1, FlattenEmpty DEF Saving, Filling
<1>3. written = sink \o <<>> \o <<>> \o <<>>
  BY <1>1, <1>2, Together DEF OrderInv
<1> QED
  BY <1>3, ConcatEmptySeq DEF OrderInv, Flow

(* Every step keeps DoneInv. *)
LEMMA DoneStep ==
    ASSUME Recorder!SizesOK, NoChunk \notin Chunk, ~NrtApart, OrderInv, DoneInv, Recorder!Next
    PROVE  DoneInv'
<1> USE DEF DoneInv, GivenUp, Closing, Copying, Flushed, Emptied, Told, Complete
<1>0. /\ host # "idle" => outcome = "open"
      /\ toWrite \in Nat /\ next \in Nat /\ Frames \in Nat /\ OtherFrames \in Nat
  BY Facts DEF OrderInv, StreamInv, Places
<1>1. CASE Recorder!StartCopy
  BY <1>0, <1>1 DEF Recorder!StartCopy, Recorder!Retire, Recorder!Total, Recorder!hostVars
<1>2. CASE Recorder!StartLive
  BY <1>0, <1>2 DEF Recorder!StartLive, Recorder!hostVars
<1>3. CASE Recorder!EndWrite
  BY <1>0, <1>3 DEF Recorder!EndWrite, Recorder!Total, Recorder!hostVars
<1>4. CASE Recorder!PushChunk
  BY <1>0, <1>4 DEF Recorder!PushChunk, Recorder!hostVars
<1>5. CASE Recorder!CloseRecording
  BY <1>0, <1>5 DEF Recorder!CloseRecording, Recorder!hostVars
<1>6. CASE Recorder!FreeSlot
  BY <1>0, <1>6 DEF Recorder!FreeSlot, Recorder!Retire, Recorder!hostVars
<1>7. CASE Recorder!ChangeSlot
  BY <1>0, <1>7 DEF Recorder!ChangeSlot, Recorder!hostVars
<1>8. CASE Recorder!Drop
  BY <1>0, <1>8 DEF Recorder!Drop, Recorder!rtVars, Recorder!hostVars
<1>9. CASE Recorder!Pop
  BY <1>0, <1>9 DEF Recorder!Pop, Recorder!rtVars
<1>10. CASE Recorder!Save
  BY <1>0, <1>10 DEF Recorder!Save, Recorder!rtVars
<1>11. CASE Recorder!Recycle
  BY <1>0, <1>11 DEF Recorder!Recycle, Recorder!rtVars
<1>12. CASE Recorder!Drained
  BY <1>0, <1>12 DEF Recorder!Drained, Recorder!rtVars
<1>13. CASE Recorder!IsEmpty
  BY <1>0, <1>13 DEF Recorder!IsEmpty, Recorder!rtVars
<1>14. CASE Recorder!OpenFails
  BY <1>0, <1>14 DEF Recorder!OpenFails, Recorder!rtVars
<1>15. CASE Recorder!RequestClose
  BY <1>0, <1>15 DEF Recorder!RequestClose, Recorder!rtVars, Recorder!hostVars
<1>16. CASE Recorder!ForgetStream
  BY <1>0, <1>16 DEF Recorder!ForgetStream, Recorder!rtVars
<1>17. CASE Recorder!Write
  <2>1. PICK new \in Chunk :
           /\ written' = written \o new
           /\ Len(new) <= toWrite /\ toWrite' = toWrite - Len(new) /\ next' = next + Len(new)
    BY <1>17, WriteAdds DEF OrderInv
  <2>2. /\ rt = "write" /\ rt' \in {"push", "write"}
        /\ UNCHANGED <<mode, recording, buffer, Recorder!hostVars, filled, closing>>
    BY <1>17 DEF Recorder!Write
  <2>3. Len(written') = Len(written) + Len(new) /\ Len(new) \in Nat /\ Len(written) \in Nat
    BY <2>1, ConcatProperties, LenProperties DEF OrderInv, Flow, Chunk
  <2>4. /\ next' + toWrite' = next + toWrite /\ (next = Len(written) => next' = Len(written'))
        /\ next' <= next + toWrite
    <3> DEFINE k == Len(new)
               w == Len(written)
               v == Len(written')
    <3>1. k \in Nat /\ w \in Nat /\ v = w + k /\ k <= toWrite /\ toWrite' = toWrite - k /\ next' = next + k
      BY <2>1, <2>3
    <3> HIDE DEF k, w, v, DoneInv
    <3>2. next' + toWrite' = next + toWrite /\ (next = w => next' = v) /\ next' <= next + toWrite
      BY <1>0, <3>1
    <3> QED
      BY <3>2 DEF k, w, v
  <2>5. recording = "rt"
    BY <2>2
  <2>6. Copying'
    BY <1>0, <2>2, <2>4, <2>5 DEF Recorder!hostVars
  <2> QED
    BY <2>2, <2>5, <2>6 DEF Recorder!hostVars
<1>18. CASE Recorder!Flush
  <2>1. current # NoChunk => Len(filled) < Recorder!RingSize
    BY RoomForAll DEF OrderInv
  <2>2. /\ rt = "flush" /\ Recorder!Retire /\ current' \in {NoChunk, <<>>}
        /\ UNCHANGED <<mode, buffer, toWrite, next, written, Recorder!hostVars, closing>>
    BY <1>18, <2>1 DEF Recorder!Flush
  <2>3. recording = "rt"
    BY <2>2
  <2> QED
    BY <1>0, <2>2, <2>3 DEF Recorder!Retire, Recorder!hostVars
<1>19. CASE Recorder!IsAbandoned
  <2>1. /\ UNCHANGED <<mode, recording, Recorder!rtVars, sink, closing>> /\ host' = "idle"
        /\ outcome' = IF recording = "dropped" THEN "done" ELSE "open"
        /\ outcome = "open"
    BY <1>0, <1>19 DEF Recorder!IsAbandoned
  <2>2. recording = "dropped" /\ (mode = "copy" \/ closing = "applied") => sink = written
    BY <1>19, LookTells
  <2> QED
    BY <2>1, <2>2 DEF Recorder!rtVars
<1> QED
  BY <1>1, <1>2, <1>3, <1>4, <1>5, <1>6, <1>7, <1>8, <1>9, <1>10, <1>11,
     <1>12, <1>13, <1>14, <1>15, <1>16, <1>17, <1>18, <1>19 DEF Recorder!Next, Recorder!Audio, Recorder!Host

(* A client that is told /done has all of it, whatever the sizes, whatever *)
(* fails and whatever is closed, replaced or freed, as long as Nrt runs on *)
(* the thread of the dispatcher: on another, is_finished may see the audio *)
(* thread gone before it looks at what that left in the ring.              *)
THEOREM DoneIsDelivered ==
    ASSUME Recorder!SizesOK, NoChunk \notin Chunk, ~NrtApart
    PROVE  Recorder!Spec => []Recorder!DoneMeansDelivered
<1>1. Recorder!Init => OrderInv /\ DoneInv
  <2> SUFFICES ASSUME Recorder!Init PROVE OrderInv /\ DoneInv
    OBVIOUS
  <2>1. Frames \in Nat
    BY DEF Recorder!SizesOK
  <2> QED
    BY <2>1, InitOrder DEF Recorder!Init, DoneInv, GivenUp, Closing, Copying, Flushed, Emptied, Told, Complete
<1>2. OrderInv /\ DoneInv /\ [Recorder!Next]_(Recorder!vars) => (OrderInv /\ DoneInv)'
  <2> SUFFICES ASSUME OrderInv, DoneInv, [Recorder!Next]_(Recorder!vars) PROVE OrderInv' /\ DoneInv'
    OBVIOUS
  <2>1. OrderInv'
    BY StepOrder
  <2>2. CASE UNCHANGED Recorder!vars
    BY <2>1, <2>2 DEF Recorder!vars, Recorder!rtVars, Recorder!hostVars, DoneInv, GivenUp, Closing, Copying, Flushed, Emptied,
                      Told, Complete
  <2> QED
    BY <2>1, <2>2, DoneStep
<1>3. OrderInv /\ DoneInv => Recorder!DoneMeansDelivered
  BY DEF OrderInv, Flow, DoneInv, Copying, Complete, Told, Recorder!DoneMeansDelivered
<1> QED
  BY <1>1, <1>2, <1>3, PTL DEF Recorder!Spec
=============================================================================
