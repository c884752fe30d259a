--------------------------- MODULE SynthDefsProofs ---------------------------
(***************************************************************************)
(* Proofs about SynthDefs, for every ring, table, tree and block size, and *)
(* for any calls: that a scheduled command is played at its time, that the *)
(* audio thread never drops the last reference to a definition, and that   *)
(* an id has one owner and means one definition to whoever sends it.       *)
(***************************************************************************)
EXTENDS SynthDefs, SequenceInduction

(* Where in its block a command is played.                                 *)

(* What an integer division rounds down to. *)
LEMMA Floor ==
    ASSUME NEW a \in Int, NEW b \in Int, b > 0
    PROVE  /\ a \div b \in Int
           /\ b * (a \div b) <= a
           /\ a < b * (a \div b) + b
<1>1. a \div b \in Int /\ a % b \in Int /\ 0 <= a % b /\ a % b < b
  OBVIOUS
<1>2. a = b * (a \div b) + (a % b)
  OBVIOUS
<1> QED
  BY <1>1, <1>2

(* Scaling keeps the order. *)
LEMMA Scale ==
    ASSUME NEW m \in Int, NEW n \in Int, m >= n, NEW k \in Int, k > 0
    PROVE  m * k >= n * k
<1>1. \A x, y \in Int : x >= 0 /\ y >= 0 => x * y >= 0 /\ x * y \in Int
  OBVIOUS
<1>2. (m - n) * k >= 0
  BY <1>1
<1>3. (m - n) * k = m * k - n * k /\ m * k \in Int /\ n * k \in Int
  OBVIOUS
<1> QED
  BY <1>2, <1>3

(* block_offset rounds to the nearest sample: before the clamp it is off   *)
(* by half a sample at most.                                               *)
LEMMA NearestSample ==
    ASSUME NEW d \in Int, NEW u \in Int, u > 0
    PROVE  LET pos == (2 * d + u) \div (2 * u)
           IN  pos \in Int /\ 2 * (pos * u) <= 2 * d + u /\ 2 * d < 2 * (pos * u) + u
<1> DEFINE pos == (2 * d + u) \div (2 * u)
<1>1. 2 * d + u \in Int /\ 2 * u \in Int /\ 2 * u > 0
  OBVIOUS
<1>2. pos \in Int /\ (2 * u) * pos <= 2 * d + u /\ 2 * d + u < (2 * u) * pos + 2 * u
  BY <1>1, Floor
<1> HIDE DEF pos
<1>3. (2 * u) * pos = 2 * (pos * u) /\ pos * u \in Int
  BY <1>2
<1>4. 2 * d < 2 * (pos * u) + u
  BY <1>2, <1>3
<1> QED
  BY <1>2, <1>3, <1>4 DEF pos

(* In a state whose clock and first command have their types, that command *)
(* is played within a sample of its time.                                  *)
LEMMA DueWithinASample ==
    ASSUME buftime \in Int, increment \in Int, sched # <<>> => Head(sched).time \in Int
    PROVE  LandsInTime
<1> SUFFICES ASSUME phase = "due", IsDue, Head(sched).time >= buftime
             PROVE  Distance(BlockOffset(buftime, Head(sched).time) * UnitsPerSample,
                             Head(sched).time - buftime)
                      <= UnitsPerSample + Distance(increment, NominalIncrement)
  BY DEF LandsInTime
<1> DEFINE t == Head(sched).time
           d == t - buftime
           u == UnitsPerSample
           pos == (2 * d + u) \div (2 * u)
           off == BlockOffset(buftime, t)
           longer == Distance(increment, NominalIncrement)
<1>1. /\ t \in Int /\ d \in Int /\ d >= 0 /\ d <= increment
      /\ u \in Int /\ u > 0 /\ BlockSize \in Int /\ BlockSize >= 1
  BY ClockAssumption DEF IsDue, BlockEnd
<1>2. pos \in Int /\ 2 * (pos * u) <= 2 * d + u /\ 2 * d < 2 * (pos * u) + u
  BY <1>1, NearestSample
<1>3. off = IF pos < 0 THEN 0 ELSE IF pos > BlockSize - 1 THEN BlockSize - 1 ELSE pos
  BY DEF BlockOffset
<1>4. NominalIncrement \in Int /\ NominalIncrement = BlockSize * u
  BY <1>1 DEF NominalIncrement
<1>5. longer \in Int /\ longer >= 0 /\ longer >= increment - NominalIncrement
  BY <1>1, <1>4 DEF Distance
<1> HIDE DEF t, d, u, pos, off, longer
<1>6. pos >= 0
  <2> SUFFICES ASSUME pos <= -1 PROVE FALSE
    BY <1>2
  <2>1. pos * u <= -1 * u
    BY <1>1, <1>2
  <2> QED
    BY <1>1, <1>2, <2>1
<1>7. CASE pos > BlockSize - 1
  <2>1. off = BlockSize - 1 /\ off * u = NominalIncrement - u
    <3>1. (BlockSize - 1) * u = BlockSize * u - u
      BY <1>1
    <3> QED
      BY <1>1, <1>2, <1>3, <1>4, <1>6, <1>7, <3>1
  <2>2. pos * u >= BlockSize * u
    <3>1. pos \in Int /\ pos >= BlockSize
      BY <1>1, <1>2, <1>7
    <3> QED
      BY <1>1, <3>1, Scale
  <2>3. pos * u \in Int
    BY <1>1, <1>2
  <2>4. 2 * d >= 2 * NominalIncrement - u
    BY <1>1, <1>2, <1>4, <2>2, <2>3
  <2>5. Distance(off * u, d) <= u + longer
    BY <1>1, <1>4, <1>5, <2>1, <2>4 DEF Distance
  <2> QED
    BY <2>5 DEF off, t, d, u, longer
<1>8. CASE pos <= BlockSize - 1
  <2>1. off = pos /\ pos * u \in Int
    BY <1>1, <1>2, <1>3, <1>6, <1>8
  <2>2. Distance(off * u, d) <= u + longer
    BY <1>1, <1>2, <1>5, <2>1 DEF Distance
  <2> QED
    BY <2>2 DEF off, t, d, u, longer
<1> QED
  BY <1>1, <1>2, <1>7, <1>8

--------------------------------------------------------------------------------
(* What is retained of a list.                                             *)

(* The function Retained takes the last value of, as far as n.             *)
Keeping(f, s, S, n) ==
    f = [k \in 0 .. n |-> IF k = 0 THEN <<>>
                          ELSE IF s[k] \in S THEN Append(f[k - 1], s[k]) ELSE f[k - 1]]

(* There is such a function for every list.                                *)
LEMMA KeepingExists ==
    ASSUME NEW D, NEW s \in Seq(D), NEW S
    PROVE  \E f : Keeping(f, s, S, Len(s))
<1> DEFINE T == {n \in Nat : \E f : Keeping(f, s, S, n)}
<1>1. 0 \in T
  <2> DEFINE f == [k \in 0 .. 0 |-> <<>>]
  <2>1. Keeping(f, s, S, 0)
    BY DEF Keeping
  <2> QED
    BY <2>1
<1>2. ASSUME NEW n \in Nat, n \in T PROVE n + 1 \in T
  <2>1. PICK f : Keeping(f, s, S, n)
    BY <1>2
  <2> DEFINE Of(h, k) == IF k = 0 THEN <<>>
                         ELSE IF s[k] \in S THEN Append(h[k - 1], s[k]) ELSE h[k - 1]
             g == [k \in 0 .. (n + 1) |-> Of(f, k)]
  <2>2. ASSUME NEW k \in 0 .. n PROVE g[k] = f[k]
    <3>1. k \in 0 .. (n + 1)
      OBVIOUS
    <3>2. f[k] = Of(f, k)
      BY <2>1, Zenon DEF Keeping
    <3> QED
      BY <3>1, <3>2
  <2>3. ASSUME NEW k \in 0 .. (n + 1) PROVE Of(f, k) = Of(g, k)
    <3>1. k # 0 => k - 1 \in 0 .. n
      OBVIOUS
    <3> HIDE DEF g
    <3>2. k # 0 => f[k - 1] = g[k - 1]
      BY <3>1, <2>2
    <3> QED
      BY <3>2
  <2>4. g = [k \in 0 .. (n + 1) |-> Of(g, k)]
    BY <2>3, Zenon
  <2>5. Keeping(g, s, S, n + 1)
    BY <2>4 DEF Keeping
  <2> HIDE DEF g
  <2> QED
    BY <2>5
<1>3. Len(s) \in T
  <2>1. Len(s) \in Nat
    OBVIOUS
  <2> HIDE DEF T
  <2> QED
    BY <1>1, <1>2, <2>1, Induct
<1> QED
  BY <1>3

(* Retained takes its last value.                                          *)
LEMMA RetainedIs ==
    ASSUME NEW D, NEW s \in Seq(D), NEW S
    PROVE  \E f : Keeping(f, s, S, Len(s)) /\ Retained(s, S) = f[Len(s)]
<1> DEFINE f == CHOOSE g : Keeping(g, s, S, Len(s))
<1>1. Keeping(f, s, S, Len(s))
  BY KeepingExists
<1>2. Retained(s, S) = f[Len(s)]
  BY DEF Retained, Keeping
<1> QED
  BY <1>1, <1>2

(* The values of the function, each from the one before.                   *)
LEMMA KeepingStep ==
    ASSUME NEW f, NEW s, NEW S, NEW n \in Nat, Keeping(f, s, S, n)
    PROVE  /\ f[0] = <<>>
           /\ \A k \in 0 .. n : k + 1 <= n =>
                 f[k + 1] = IF s[k + 1] \in S THEN Append(f[k], s[k + 1]) ELSE f[k]
<1>1. \A k \in 0 .. n : f[k] = IF k = 0 THEN <<>>
                               ELSE IF s[k] \in S THEN Append(f[k - 1], s[k]) ELSE f[k - 1]
  BY Zenon DEF Keeping
<1>2. ASSUME NEW k \in 0 .. n, k + 1 <= n
      PROVE  f[k + 1] = IF s[k + 1] \in S THEN Append(f[k], s[k + 1]) ELSE f[k]
  <2>1. k + 1 \in 0 .. n /\ k + 1 # 0 /\ (k + 1) - 1 = k
    BY <1>2
  <2> QED
    BY <1>1, <2>1
<1>3. 0 \in 0 .. n
  OBVIOUS
<1> QED
  BY <1>1, <1>2, <1>3

(* Nothing of nothing is retained.                                         *)
LEMMA RetainedNone == \A S : Retained(<<>>, S) = <<>>
<1> TAKE S
<1>1. <<>> \in Seq({}) /\ Len(<<>>) = 0
  OBVIOUS
<1>2. PICK f : Keeping(f, <<>>, S, 0) /\ Retained(<<>>, S) = f[0]
  BY <1>1, RetainedIs
<1> QED
  BY <1>2, KeepingStep

(* A list one longer.                                                      *)
LEMMA RetainedAppend ==
    ASSUME NEW D, NEW s \in Seq(D), NEW c \in D, NEW S
    PROVE  Retained(Append(s, c), S)
             = IF c \in S THEN Append(Retained(s, S), c) ELSE Retained(s, S)
<1> DEFINE t == Append(s, c)
           n == Len(s)
<1>1. /\ t \in Seq(D) /\ n \in Nat /\ Len(t) = n + 1 /\ t[n + 1] = c
      /\ \A k \in 1 .. n : t[k] = s[k]
  OBVIOUS
<1> HIDE DEF t
<1>2. PICK g : Keeping(g, t, S, n + 1) /\ Retained(t, S) = g[n + 1]
  BY <1>1, RetainedIs
<1>3. PICK f : Keeping(f, s, S, n) /\ Retained(s, S) = f[n]
  BY RetainedIs
<1>4. /\ g[0] = <<>>
      /\ \A k \in 0 .. (n + 1) : k + 1 <= n + 1 =>
            g[k + 1] = IF t[k + 1] \in S THEN Append(g[k], t[k + 1]) ELSE g[k]
  <2>1. n + 1 \in Nat
    BY <1>1
  <2> QED
    BY <1>2, <2>1, KeepingStep
<1>5. /\ f[0] = <<>>
      /\ \A k \in 0 .. n : k + 1 <= n =>
            f[k + 1] = IF s[k + 1] \in S THEN Append(f[k], s[k + 1]) ELSE f[k]
  BY <1>1, <1>3, KeepingStep
<1> DEFINE T == {k \in Nat : k <= n => g[k] = f[k]}
<1>6. 0 \in T
  BY <1>4, <1>5
<1>7. ASSUME NEW k \in Nat, k \in T PROVE k + 1 \in T
  <2> SUFFICES ASSUME k + 1 <= n PROVE g[k + 1] = f[k + 1]
    OBVIOUS
  <2>1. k \in 0 .. n /\ k \in 0 .. (n + 1) /\ k + 1 <= n + 1 /\ k + 1 \in 1 .. n /\ g[k] = f[k]
    BY <1>1, <1>7
  <2>2. t[k + 1] = s[k + 1]
    BY <1>1, <2>1
  <2>3. g[k + 1] = IF t[k + 1] \in S THEN Append(g[k], t[k + 1]) ELSE g[k]
    BY <1>4, <2>1
  <2>4. f[k + 1] = IF s[k + 1] \in S THEN Append(f[k], s[k + 1]) ELSE f[k]
    BY <1>5, <2>1
  <2> QED
    BY <2>1, <2>2, <2>3, <2>4
<1>8. n \in T
  <2> HIDE DEF T
  <2> QED
    BY <1>1, <1>6, <1>7, Induct
<1>9. g[n] = f[n] /\ n \in 0 .. (n + 1) /\ n + 1 <= n + 1
  BY <1>1, <1>8
<1>10. g[n + 1] = IF t[n + 1] \in S THEN Append(g[n], t[n + 1]) ELSE g[n]
  BY <1>4, <1>9
<1> QED
  BY <1>1, <1>2, <1>3, <1>9, <1>10 DEF t

(* What is retained is a list, and holds of P what the list held of P      *)
(* among what is kept.                                                     *)
LEMMA RetainedTally ==
    ASSUME NEW D, NEW s \in Seq(D), NEW S
    PROVE  /\ Retained(s, S) \in Seq(D)
           /\ \A P : Tally(Retained(s, S), P) = Tally(s, S \cap P)
<1> DEFINE T == {r \in Seq(D) : /\ Retained(r, S) \in Seq(D)
                                /\ \A P : Tally(Retained(r, S), P) = Tally(r, S \cap P)}
<1>1. <<>> \in T
  <2>1. <<>> \in Seq(D) /\ Retained(<<>>, S) = <<>>
    BY RetainedNone
  <2>2. \A P : Tally(<<>>, P) = Tally(<<>>, S \cap P)
    BY TallyEmpty
  <2> QED
    BY <2>1, <2>2
<1>2. ASSUME NEW r \in Seq(D), NEW c \in D, r \in T PROVE Append(r, c) \in T
  <2>1. /\ Append(r, c) \in Seq(D) /\ Retained(r, S) \in Seq(D)
        /\ \A P : Tally(Retained(r, S), P) = Tally(r, S \cap P)
    BY <1>2
  <2>2. Retained(Append(r, c), S) = IF c \in S THEN Append(Retained(r, S), c) ELSE Retained(r, S)
    BY RetainedAppend
  <2>3. Retained(Append(r, c), S) \in Seq(D)
    BY <2>1, <2>2
  <2>4. ASSUME NEW P PROVE Tally(Retained(Append(r, c), S), P) = Tally(Append(r, c), S \cap P)
    <3>1. Tally(Append(r, c), S \cap P) = Tally(r, S \cap P) + (IF c \in S \cap P THEN 1 ELSE 0)
      BY TallyAppend
    <3>2. Tally(r, S \cap P) \in Nat
      BY TallyType
    <3>3. Tally(Append(Retained(r, S), c), P) = Tally(Retained(r, S), P) + (IF c \in P THEN 1 ELSE 0)
      BY <2>1, TallyAppend
    <3>4. CASE c \in S
      BY <2>1, <2>2, <3>1, <3>3, <3>4
    <3>5. CASE c \notin S
      BY <2>1, <2>2, <3>1, <3>2, <3>5
    <3> QED
      BY <3>4, <3>5
  <2> QED
    BY <2>1, <2>3, <2>4
<1>3. Seq(D) \subseteq T
  <2> HIDE DEF T
  <2> QED
    BY <1>1, <1>2, InductAppend
<1> QED
  BY <1>3

(* What is in the list and kept is in what is retained.                    *)
LEMMA RetainedHolds ==
    ASSUME NEW D, NEW s \in Seq(D), NEW S, NEW k \in 1 .. Len(s), s[k] \in S
    PROVE  \E j \in 1 .. Len(Retained(s, S)) : Retained(s, S)[j] = s[k]
<1>1. Retained(s, S) \in Seq(D) /\ Tally(Retained(s, S), {s[k]}) = Tally(s, S \cap {s[k]})
  BY RetainedTally
<1>2. Tally(s, S \cap {s[k]}) # 0
  BY TallyType
<1>3. ~ \A j \in 1 .. Len(Retained(s, S)) : Retained(s, S)[j] \notin {s[k]}
  BY <1>1, <1>2, TallyType
<1> QED
  BY <1>3

(* What is retained was to be kept.                                        *)
LEMMA RetainedIn ==
    ASSUME NEW D, NEW s \in Seq(D), NEW S
    PROVE  \A j \in 1 .. Len(Retained(s, S)) : Retained(s, S)[j] \in S
<1> DEFINE r == Retained(s, S)
<1>1. r \in Seq(D) /\ Tally(r, D \ S) = Tally(s, S \cap (D \ S))
  BY RetainedTally
<1>2. Tally(s, S \cap (D \ S)) = 0
  <2>1. \A k \in 1 .. Len(s) : s[k] \notin S \cap (D \ S)
    OBVIOUS
  <2> QED
    BY <2>1, TallyType
<1> HIDE DEF r
<1>3. \A j \in 1 .. Len(r) : r[j] \notin D \ S
  BY <1>1, <1>2, TallyType
<1>4. \A j \in 1 .. Len(r) : r[j] \in D
  BY <1>1
<1> QED
  BY <1>3, <1>4 DEF r

(* The last of a stack, and the stack without it.                          *)
LEMMA FrontLast ==
    ASSUME NEW S, NEW s \in Seq(S), s # <<>>
    PROVE  Last(s) \in S /\ Front(s) \in Seq(S) /\ s = Append(Front(s), Last(s))
<1>1. Len(s) \in Nat /\ Len(s) >= 1
  OBVIOUS
<1>2. Last(s) = s[Len(s)] /\ Front(s) = SubSeq(s, 1, Len(s) - 1)
  BY DEF Last, Front
<1>3. SubSeq(s, 1, Len(s) - 1) \in Seq(S) /\ s[Len(s)] \in S
  BY <1>1
<1>4. s = Append(SubSeq(s, 1, Len(s) - 1), s[Len(s)])
  BY <1>1
<1> QED
  BY <1>2, <1>3, <1>4

(* A push into the scheduler's heap keeps to what the heap is of.          *)
LEMMA PushType ==
    ASSUME NEW T, NEW heap \in Seq(T), NEW cmd \in T
    PROVE  SchedPush(heap, cmd) \in Seq(T)
<1> DEFINE earlier == {k \in DOMAIN heap : heap[k].time <= cmd.time}
           before == Cardinality(earlier)
<1>1. Len(heap) \in Nat /\ DOMAIN heap = 1 .. Len(heap)
  OBVIOUS
<1>2. before \in Nat /\ before <= Len(heap)
  <2>1. IsFiniteSet(1 .. Len(heap)) /\ Cardinality(1 .. Len(heap)) = Len(heap)
    BY <1>1, FS_Interval, SMTT(30)
  <2>2. earlier \in SUBSET (1 .. Len(heap))
    BY <1>1
  <2>3. IsFiniteSet(earlier) /\ before <= Len(heap)
    BY <2>1, <2>2, FS_Subset
  <2> QED
    BY <2>3, FS_CardinalityType
<1> HIDE DEF before
<1>3. SchedPush(heap, cmd) = SubSeq(heap, 1, before) \o <<cmd>> \o SubSeq(heap, before + 1, Len(heap))
  <2>1. SchedPush(heap, cmd) = InsertAt(heap, before + 1, cmd)
    BY DEF SchedPush, before
  <2>2. (before + 1) - 1 = before
    BY <1>2
  <2> QED
    BY <2>1, <2>2 DEF InsertAt
<1>4. SubSeq(heap, 1, before) \in Seq(T) /\ SubSeq(heap, before + 1, Len(heap)) \in Seq(T)
  BY <1>1, <1>2
<1> QED
  BY <1>3, <1>4

--------------------------------------------------------------------------------
(* The types of the state.                                                 *)

Defs    == [name : Names, serial : Nat, slots : Nat]
Entries == Defs \X (Ids \cup {NIL})
Moments == Int \cup {NIL}

FreeCmds == [op : {"free"}, time : Moments, node : Nodes]
AddCmds  == [op : {"add"}, time : Moments, node : Nodes, id : Ids, aux : Nat, meant : Defs]
DefCmds  == [op : {"define"}, time : {NIL}, id : Ids, def : Defs]
GoneCmds == [op : {"freedef"}, time : {NIL}, id : Ids]

\* The commands that may wait for their time, and the whole of them.
Timeable == FreeCmds \cup AddCmds
Waiting  == {c \in Timeable : c.time # NIL}
Commands == Timeable \cup DefCmds \cup GoneCmds \cup {ClearCmd}

CtlTypes ==
    /\ authored \in [Names -> Nat \cup {NIL}]
    /\ compiled \in [Names -> Defs \cup {NIL}]
    /\ defIds \in [Names -> Ids \cup {NIL}]
    /\ poolSlots \in [Ids -> Nat]
    /\ retiring \in Seq(Entries) /\ freeIds \in Seq(Ids) /\ nextDefId \in 0 .. MaxSynthDefs
    /\ schedule \in Moments
    /\ call \in [name : Names, node : Nodes] \cup {NIL}
    /\ compiles \in Nat
    /\ \A n \in Names : compiled[n] # NIL => defIds[n] # NIL
    /\ call # NIL => compiled[call.name] # NIL

RtTypes ==
    /\ table \in [Ids -> Defs \cup {NIL}]
    /\ synths \in [Nodes -> Defs \cup {NIL}]
    /\ sched \in Seq(Waiting)

DefTypes == CtlTypes /\ ring \in Seq(Commands) /\ RtTypes

(* The assumptions on the constants, as the proofs use them.               *)
LEMMA Constants == /\ NIL \notin Defs /\ NIL \notin Ids /\ NIL \notin Nat
                   /\ Ids \subseteq Nat /\ MaxSynthDefs \in Nat
                   /\ \A i \in Nat : i < MaxSynthDefs => i \in Ids
                   /\ SlotCounts \subseteq Nat /\ Times \subseteq Moments /\ NIL \in Moments
  BY ControlAssumption DEF Defs, Ids, Moments

(* The types hold at the start. *)
LEMMA InitTypes == Init => DefTypes
<1> SUFFICES ASSUME Init PROVE DefTypes
  OBVIOUS
<1>1. CtlTypes
  BY Constants DEF Init, CtlTypes
<1>2. RtTypes /\ ring \in Seq(Commands)
  BY Constants DEF Init, RtTypes
<1> QED
  BY <1>1, <1>2 DEF DefTypes

(* Reaping keeps lists of retired definitions and of ids.                  *)
LEMMA ReapTypes ==
    ASSUME NEW list \in Seq(Entries), NEW ids \in Seq(Ids), Reap(list, ids)
    PROVE  retiring' \in Seq(Entries) /\ freeIds' \in Seq(Ids)
<1> DEFINE gone == {e \in ToSet(list) : StrongCount(e[1]) <= 1}
           keep == {e \in gone : e[2] # NIL}
           back == Retained(list, keep)
<1>1. /\ retiring' = Retained(list, ToSet(list) \ gone)
      /\ freeIds' = ids \o [k \in DOMAIN back |-> back[k][2]]
  BY DEF Reap
<1>2. \A e \in keep : e[2] # NIL
  OBVIOUS
<1> HIDE DEF gone, keep
<1>3. retiring' \in Seq(Entries) /\ back \in Seq(Entries)
  BY <1>1, RetainedTally
<1>4. \A k \in 1 .. Len(back) : back[k] \in keep
  BY RetainedIn
<1> HIDE DEF back
<1>5. \A k \in 1 .. Len(back) : back[k][2] \in Ids
  <2> TAKE k \in 1 .. Len(back)
  <2>1. back[k] \in Entries /\ back[k][2] # NIL
    BY <1>2, <1>3, <1>4
  <2> QED
    BY <2>1 DEF Entries
<1>6. [k \in DOMAIN back |-> back[k][2]] \in Seq(Ids)
  <2>1. DOMAIN back = 1 .. Len(back) /\ Len(back) \in Nat
    BY <1>3
  <2> QED
    BY <1>5, <2>1
<1> QED
  BY <1>1, <1>3, <1>6

(* The list that is reaped.                                                *)
LEMMA RetireTypes ==
    ASSUME CtlTypes, NEW n \in Names, NEW id \in Ids \cup {NIL}
    PROVE  Retire(n, id) \in Seq(Entries)
<1>1. compiled[n] # NIL => <<compiled[n], id>> \in Entries
  BY DEF CtlTypes, Entries
<1> QED
  BY <1>1 DEF CtlTypes, Retire

(* The id a definition is compiled under is one of the World's.            *)
LEMMA IdForType ==
    ASSUME CtlTypes, NEW n \in Names, IdFor(n) # NIL
    PROVE  /\ IdFor(n) \in Ids
           /\ defIds[n] = NIL /\ freeIds # <<>> => Front(freeIds) \in Seq(Ids)
           /\ defIds[n] = NIL /\ freeIds = <<>> => nextDefId + 1 \in 0 .. MaxSynthDefs
<1>1. defIds[n] \in Ids \cup {NIL} /\ freeIds \in Seq(Ids) /\ nextDefId \in 0 .. MaxSynthDefs
  BY DEF CtlTypes
<1>2. freeIds # <<>> => Last(freeIds) \in Ids /\ Front(freeIds) \in Seq(Ids)
  BY <1>1, FrontLast
<1>3. nextDefId < MaxSynthDefs => nextDefId \in Ids /\ nextDefId + 1 \in 0 .. MaxSynthDefs
  BY <1>1, Constants
<1> QED
  BY <1>1, <1>2, <1>3 DEF IdFor

(* Compiling a definition keeps the types. *)
LEMMA CompileTypes ==
    ASSUME DefTypes, NEW n \in Names, NEW next \in [name : {n}, node : Nodes] \cup {NIL},
           call = NIL, CompileDef(n, next)
    PROVE  CtlTypes' /\ ring' \in Seq(Commands)
<1> DEFINE id == IdFor(n)
           d == [name |-> n, serial |-> compiles, slots |-> authored[n]]
<1>1. id \in Ids /\ freeIds' \in Seq(Ids) /\ nextDefId' \in 0 .. MaxSynthDefs
  BY IdForType DEF CompileDef, DefTypes, CtlTypes
<1>2. d \in Defs /\ compiles' \in Nat
  BY DEF CompileDef, DefTypes, CtlTypes, Defs
<1>3. DefineCmd(id, d) \in Commands
  BY <1>1, <1>2 DEF DefineCmd, DefCmds, Commands
<1>4. d.slots \in Nat
  BY <1>2 DEF Defs
<1>5. /\ UNCHANGED <<authored, retiring, schedule>>
      /\ defIds' = [defIds EXCEPT ![n] = id]
      /\ \/ UNCHANGED <<ring, poolSlots, compiled, call>>
         \/ /\ ring' = Append(ring, DefineCmd(id, d))
            /\ poolSlots' = [poolSlots EXCEPT ![id] = d.slots]
            /\ compiled' = [compiled EXCEPT ![n] = d]
            /\ call' = next
  BY DEF CompileDef
<1> HIDE DEF id, d
<1>6. defIds' \in [Names -> Ids \cup {NIL}] /\ \A m \in Names : defIds[m] # NIL => defIds'[m] # NIL
  BY <1>1, <1>5, Constants DEF DefTypes, CtlTypes
<1>7. ring' \in Seq(Commands)
  BY <1>3, <1>5 DEF DefTypes
<1>8. poolSlots' \in [Ids -> Nat] /\ compiled' \in [Names -> Defs \cup {NIL}]
  BY <1>1, <1>2, <1>4, <1>5, ZenonT(30) DEF DefTypes, CtlTypes
<1>9. \A m \in Names : compiled'[m] # NIL => defIds'[m] # NIL
  BY <1>1, <1>5, <1>6, Constants DEF DefTypes, CtlTypes
<1>10. call' \in [name : Names, node : Nodes] \cup {NIL} /\ (call' # NIL => compiled'[call'.name] # NIL)
  BY <1>2, <1>5, Constants DEF DefTypes, CtlTypes
<1> QED
  BY <1>1, <1>2, <1>5, <1>6, <1>7, <1>8, <1>9, <1>10 DEF DefTypes, CtlTypes

(* The commands the Controller makes.                                      *)
LEMMA CommandTypes ==
    ASSUME DefTypes, NEW node \in Nodes, NEW n \in Names, compiled[n] # NIL, NEW aux \in Nat
    PROVE  AddCmd(node, defIds[n], aux, compiled[n], schedule) \in Commands
<1>1. defIds[n] \in Ids /\ compiled[n] \in Defs /\ schedule \in Moments
  BY DEF DefTypes, CtlTypes
<1> QED
  BY <1>1 DEF AddCmd, AddCmds, Timeable, Commands
(* The command that frees a node is a command. *)
LEMMA FreeType ==
    ASSUME DefTypes, NEW node \in Nodes
    PROVE  FreeCmd(node, schedule) \in Commands
<1>1. schedule \in Moments
  BY DEF DefTypes, CtlTypes
<1> QED
  BY <1>1 DEF FreeCmd, FreeCmds, Timeable, Commands

(* The controller's calls keep the types. *)
LEMMA ControllerTypes ==
    ASSUME DefTypes,
           \/ ReapRetiredDefs
           \/ \E n \in Names, s \in SlotCounts : InsertDef(n, s)
           \/ \E n \in Names : FreeDef(n) \/ EnsureCompiled(n)
           \/ \E n \in Names, node \in Nodes : SynthNew(n, node)
           \/ SynthNewSend
           \/ \E n \in Names, gone, node \in Nodes : TrySendBatch(gone, n, node)
           \/ ClearSched
           \/ \E node \in Nodes : FreeNode(node)
           \/ \E t \in Times : BeginScheduled(t)
           \/ EndScheduled
    PROVE  CtlTypes' /\ ring' \in Seq(Commands)
<1>0. CtlTypes /\ ring \in Seq(Commands)
  BY DEF DefTypes
<1>1. CASE ReapRetiredDefs
  <2>1. retiring' \in Seq(Entries) /\ freeIds' \in Seq(Ids)
    BY <1>1, <1>0, ReapTypes DEF ReapRetiredDefs, CtlTypes
  <2> QED
    BY <1>1, <1>0, <2>1 DEF ReapRetiredDefs, CtlTypes
<1>2. ASSUME NEW n \in Names, NEW s \in SlotCounts, InsertDef(n, s)
      PROVE  CtlTypes' /\ ring' \in Seq(Commands)
  <2>1. retiring' \in Seq(Entries) /\ freeIds' \in Seq(Ids)
    <3>1. Retire(n, NIL) \in Seq(Entries)
      BY <1>0, RetireTypes
    <3> QED
      BY <1>2, <1>0, <3>1, ReapTypes DEF InsertDef, CtlTypes
  <2>2. s \in Nat
    BY Constants
  <2> QED
    BY <1>2, <1>0, <2>1, <2>2 DEF InsertDef, CtlTypes
<1>3. ASSUME NEW n \in Names, FreeDef(n)
      PROVE  CtlTypes' /\ ring' \in Seq(Commands)
  <2> DEFINE id == defIds[n]
             ids == IF compiled[n] = NIL /\ id # NIL THEN Append(freeIds, id) ELSE freeIds
  <2>1. id \in Ids \cup {NIL}
    BY <1>0 DEF CtlTypes
  <2>2. ids \in Seq(Ids)
    BY <1>0, <2>1 DEF CtlTypes
  <2>3. retiring' \in Seq(Entries) /\ freeIds' \in Seq(Ids)
    <3>1. Retire(n, id) \in Seq(Entries)
      BY <1>0, <2>1, RetireTypes
    <3>2. Reap(Retire(n, id), ids)
      BY <1>3 DEF FreeDef
    <3> HIDE DEF id, ids
    <3> QED
      BY <2>2, <3>1, <3>2, ReapTypes
  <2>4. ring' \in Seq(Commands)
    <3>1. id # NIL => FreeDefCmd(id) \in Commands
      BY <2>1 DEF FreeDefCmd, GoneCmds, Commands
    <3> QED
      BY <1>3, <1>0, <3>1 DEF FreeDef
  <2> HIDE DEF id, ids
  <2> QED
    BY <1>3, <1>0, <2>3, <2>4 DEF FreeDef, CtlTypes
<1>4. ASSUME NEW n \in Names, EnsureCompiled(n)
      PROVE  CtlTypes' /\ ring' \in Seq(Commands)
  BY <1>4, CompileTypes DEF EnsureCompiled
<1>5. ASSUME NEW n \in Names, NEW node \in Nodes, SynthNew(n, node)
      PROVE  CtlTypes' /\ ring' \in Seq(Commands)
  <2> DEFINE next == [name |-> n, node |-> node]
  <2>1. next \in [name : {n}, node : Nodes] /\ call = NIL
    BY <1>5 DEF SynthNew
  <2>2. CASE CompileDef(n, next)
    BY <2>1, <2>2, CompileTypes
  <2>3. CASE compiled[n] # NIL /\ call' = next
             /\ UNCHANGED <<authored, compiled, defIds, poolSlots, retiring, freeIds, nextDefId,
                            schedule, ring, compiles>>
    BY <1>0, <2>3 DEF CtlTypes
  <2> QED
    BY <1>5, <2>2, <2>3 DEF SynthNew
<1>6. CASE SynthNewSend
  <2>1. call.name \in Names /\ call.node \in Nodes /\ compiled[call.name] # NIL /\ compiled[call.name].slots \in Nat
    BY <1>0, <1>6, Constants DEF SynthNewSend, CtlTypes, Defs
  <2>2. AddCmd(call.node, defIds[call.name], compiled[call.name].slots, compiled[call.name], schedule) \in Commands
    BY <2>1, CommandTypes
  <2>3. ring' \in Seq(Commands)
    BY <1>0, <1>6, <2>2 DEF SynthNewSend
  <2> QED
    BY <1>0, <1>6, <2>3 DEF SynthNewSend, CtlTypes
<1>7. ASSUME NEW n \in Names, NEW gone \in Nodes, NEW node \in Nodes, TrySendBatch(gone, n, node)
      PROVE  CtlTypes' /\ ring' \in Seq(Commands)
  <2> DEFINE c == FreeCmd(gone, schedule)
             e == AddCmd(node, defIds[n], poolSlots[defIds[n]], compiled[n], schedule)
  <2>1. poolSlots[defIds[n]] \in Nat /\ compiled[n] # NIL
    BY <1>0, <1>7 DEF TrySendBatch, CtlTypes
  <2>2. c \in Commands /\ e \in Commands
    BY <2>1, CommandTypes, FreeType
  <2>3. ring' = ring \o <<c, e>> /\ UNCHANGED ctl /\ compiles' = compiles
    BY <1>7 DEF TrySendBatch
  <2> HIDE DEF c, e
  <2> QED
    BY <1>0, <2>2, <2>3 DEF CtlTypes, ctl
<1>8. ASSUME NEW c \in Commands, Send(c)
      PROVE  CtlTypes' /\ ring' \in Seq(Commands)
  BY <1>0, <1>8 DEF Send, CtlTypes, ctl
<1>9. CASE ClearSched
  BY <1>8, <1>9 DEF ClearSched, Commands
<1>10. ASSUME NEW node \in Nodes, FreeNode(node)
       PROVE  CtlTypes' /\ ring' \in Seq(Commands)
  BY <1>8, <1>10, FreeType DEF FreeNode
<1>11. ASSUME NEW t \in Times, BeginScheduled(t)
       PROVE  CtlTypes' /\ ring' \in Seq(Commands)
  BY <1>0, <1>11, Constants DEF BeginScheduled, CtlTypes
<1>12. CASE EndScheduled
  BY <1>0, <1>12, Constants DEF EndScheduled, CtlTypes
<1> QED
  BY <1>1, <1>2, <1>3, <1>4, <1>5, <1>6, <1>7, <1>9, <1>10, <1>11, <1>12

(* What a command taken from the ring or the heap does to the table and    *)
(* the graphs: their types, and that what they hold of definitions they    *)
(* held before, or got from the command.                                   *)
LEMMA ApplyHolds ==
    ASSUME RtTypes, NEW cmd \in Commands, Apply(cmd)
    PROVE  /\ table' \in [Ids -> Defs \cup {NIL}]
           /\ synths' \in [Nodes -> Defs \cup {NIL}]
           /\ \A i \in Ids : \/ table'[i] = NIL \/ table'[i] = table[i]
                             \/ cmd.op = "define" /\ table'[i] = cmd.def
           /\ \A m \in Nodes : \/ synths'[m] = NIL \/ synths'[m] = synths[m]
                               \/ \E i \in Ids : synths'[m] = table[i]
<1>0. table \in [Ids -> Defs \cup {NIL}] /\ synths \in [Nodes -> Defs \cup {NIL}]
  BY DEF RtTypes
<1>1. CASE cmd.op = "define" /\ SetTable(cmd.id, cmd.def)
  <2>1. cmd.id \in Ids /\ cmd.def \in Defs
    BY <1>1 DEF Commands, Timeable, FreeCmds, AddCmds, GoneCmds, DefCmds, ClearCmd
  <2> QED
    BY <1>0, <1>1, <2>1 DEF SetTable
<1>2. CASE cmd.op = "freedef" /\ SetTable(cmd.id, NIL)
  <2>1. cmd.id \in Ids
    BY <1>2 DEF Commands, Timeable, FreeCmds, AddCmds, GoneCmds, DefCmds, ClearCmd
  <2> QED
    BY <1>0, <1>2, <2>1 DEF SetTable
<1>3. CASE cmd.op = "free" /\ ReleaseSynth(cmd.node) /\ UNCHANGED table
  <2>1. cmd.node \in Nodes
    BY <1>3 DEF Commands, Timeable, FreeCmds, AddCmds, GoneCmds, DefCmds, ClearCmd
  <2> QED
    BY <1>0, <1>3, <2>1 DEF ReleaseSynth
<1>4. CASE cmd.op = "add" /\ AddSynth(cmd) /\ UNCHANGED table
  <2>1. cmd.node \in Nodes /\ cmd.id \in Ids
    BY <1>4 DEF Commands, Timeable, FreeCmds, AddCmds, GoneCmds, DefCmds, ClearCmd
  <2> QED
    BY <1>0, <1>4, <2>1 DEF AddSynth
<1> QED
  BY <1>1, <1>2, <1>3, <1>4 DEF Apply

(* A command that has a time is one that may wait.                         *)
LEMMA WaitsInTime ==
    ASSUME NEW cmd \in Commands, cmd.time # NIL
    PROVE  cmd \in Waiting
  BY DEF Commands, DefCmds, GoneCmds, ClearCmd, Waiting

(* The audio thread's step, and the NRT thread's.                          *)
WorldStep ==
    \/ StartBlock
    \/ \E t \in Resyncs, inc \in Increments : Resync(t, inc)
    \/ Intake \/ IntakeDone \/ ApplyDue \/ EndBlock
    \/ NrtProcess

(* What such a step takes in: nothing, the first command of the ring or    *)
(* the first one due.                                                      *)
LEMMA WorldTakes ==
    ASSUME DefTypes, WorldStep
    PROVE  /\ UNCHANGED <<ctl, compiles>>
           /\ \/ ring' = ring /\ table' = table
              \/ /\ ring # <<>> /\ ring' = Tail(ring)
                 /\ \/ Head(ring).time # NIL /\ table' = table
                    \/ Apply(Head(ring))
                    \/ Head(ring).op = "clear" /\ UNCHANGED <<table, synths>>
              \/ \E cmd \in Timeable : Apply(cmd) /\ ring' = ring
           /\ DefTypes'
           /\ \A m \in Nodes : \/ synths'[m] = NIL \/ synths'[m] = synths[m]
                               \/ \E i \in Ids : synths'[m] = table[i]
<1>0. /\ CtlTypes /\ ring \in Seq(Commands) /\ RtTypes
      /\ table \in [Ids -> Defs \cup {NIL}] /\ synths \in [Nodes -> Defs \cup {NIL}]
      /\ sched \in Seq(Waiting)
  BY DEF DefTypes, RtTypes
<1>c. UNCHANGED <<ctl, compiles>> => CtlTypes'
  BY <1>0 DEF CtlTypes, ctl
<1>1. CASE StartBlock
  BY <1>0, <1>1, <1>c DEF StartBlock, DefTypes, RtTypes
<1>2. CASE \E t \in Resyncs, inc \in Increments : Resync(t, inc)
  BY <1>0, <1>2, <1>c DEF Resync, DefTypes, RtTypes
<1>3. CASE Intake
  <2> DEFINE cmd == Head(ring)
  <2>1. /\ ring # <<>> /\ ring' = Tail(ring) /\ UNCHANGED <<ctl, compiles>>
        /\ \/ cmd.time # NIL /\ sched' = SchedPush(sched, cmd) /\ UNCHANGED <<table, synths>>
           \/ Apply(cmd) /\ sched' = sched
           \/ cmd.op = "clear" /\ ClearHeap /\ UNCHANGED <<table, synths>>
    BY <1>3 DEF Intake
  <2>2. cmd \in Commands /\ Tail(ring) \in Seq(Commands)
    BY <1>0, <2>1
  <2>3. ClearHeap => sched' \in Seq(Waiting)
    BY DEF ClearHeap
  <2> HIDE DEF cmd
  <2>4. cmd.time # NIL => SchedPush(sched, cmd) \in Seq(Waiting)
    BY <1>0, <2>2, WaitsInTime, PushType
  <2>5. sched' \in Seq(Waiting)
    BY <1>0, <2>1, <2>3, <2>4
  <2>6. /\ table' \in [Ids -> Defs \cup {NIL}] /\ synths' \in [Nodes -> Defs \cup {NIL}]
        /\ \A m \in Nodes : \/ synths'[m] = NIL \/ synths'[m] = synths[m]
                            \/ \E i \in Ids : synths'[m] = table[i]
    <3>1. CASE Apply(cmd)
      BY <1>0, <2>2, <3>1, ApplyHolds
    <3>2. CASE UNCHANGED <<table, synths>>
      BY <1>0, <3>2
    <3> QED
      BY <2>1, <3>1, <3>2
  <2>7. DefTypes'
    BY <1>c, <2>1, <2>2, <2>5, <2>6 DEF DefTypes, RtTypes
  <2>8. \/ cmd.time # NIL /\ table' = table
        \/ Apply(cmd)
        \/ cmd.op = "clear" /\ UNCHANGED <<table, synths>>
    BY <2>1
  <2> QED
    BY <2>1, <2>6, <2>7, <2>8 DEF cmd
<1>4. CASE IntakeDone
  BY <1>0, <1>4, <1>c DEF IntakeDone, DefTypes, RtTypes
<1>5. CASE ApplyDue
  <2> DEFINE cmd == Head(sched)
  <2>1. sched # <<>> /\ Apply(cmd) /\ sched' = Tail(sched) /\ ring' = ring /\ UNCHANGED <<ctl, compiles>>
    BY <1>5 DEF ApplyDue, IsDue
  <2>2. cmd \in Timeable /\ cmd \in Commands /\ sched' \in Seq(Waiting)
    BY <1>0, <2>1 DEF Commands, Waiting
  <2> HIDE DEF cmd
  <2>3. /\ table' \in [Ids -> Defs \cup {NIL}] /\ synths' \in [Nodes -> Defs \cup {NIL}]
        /\ \A m \in Nodes : \/ synths'[m] = NIL \/ synths'[m] = synths[m]
                            \/ \E i \in Ids : synths'[m] = table[i]
    BY <1>0, <2>1, <2>2, ApplyHolds
  <2> QED
    BY <1>0, <1>c, <2>1, <2>2, <2>3 DEF DefTypes, RtTypes
<1>6. CASE EndBlock
  <2>1. /\ UNCHANGED <<ctl, ring, table, sched, compiles>>
        /\ \/ synths' = synths
           \/ \E m \in Nodes : ReleaseSynth(m)
    BY <1>6 DEF EndBlock, Live
  <2>2. /\ synths' \in [Nodes -> Defs \cup {NIL}]
        /\ \A m \in Nodes : synths'[m] = NIL \/ synths'[m] = synths[m]
    BY <1>0, <2>1 DEF ReleaseSynth
  <2> QED
    BY <1>0, <1>c, <2>1, <2>2 DEF DefTypes, RtTypes
<1>7. CASE NrtProcess
  BY <1>0, <1>7, <1>c DEF NrtProcess, rt, DefTypes, RtTypes
<1> QED
  BY <1>1, <1>2, <1>3, <1>4, <1>5, <1>6, <1>7 DEF WorldStep

(* The types of the state hold throughout.                                 *)
LEMMA StepTypes == DefTypes /\ [Next]_vars => DefTypes'
<1> SUFFICES ASSUME DefTypes, [Next]_vars PROVE DefTypes'
  OBVIOUS
<1>1. CASE WorldStep
  BY <1>1, WorldTakes
<1>2. ASSUME CtlTypes', ring' \in Seq(Commands), UNCHANGED rt PROVE DefTypes'
  BY <1>2 DEF DefTypes, RtTypes, rt
<1>3. CASE Next /\ ~WorldStep
  <2>1. CtlTypes' /\ ring' \in Seq(Commands)
    BY <1>3, ControllerTypes DEF Next, WorldStep
  <2>2. UNCHANGED rt
    BY <1>3 DEF Next, WorldStep, ReapRetiredDefs, InsertDef, FreeDef, EnsureCompiled, CompileDef,
                SynthNew, SynthNewSend, TrySendBatch, ClearSched, FreeNode, Send, BeginScheduled,
                EndScheduled
  <2> QED
    BY <1>2, <2>1, <2>2
<1>4. CASE UNCHANGED vars
  BY <1>4 DEF vars, ctl, rt, DefTypes, CtlTypes, RtTypes
<1> QED
  BY <1>1, <1>3, <1>4

--------------------------------------------------------------------------------
(* When a scheduled command is played.                                     *)

ClockInv == DefTypes /\ buftime \in Int /\ increment \in Int

(* A command that falls due within the block and is not late is played     *)
(* within a sample of its time, or of what the rate filter lengthened the  *)
(* block by, whatever the block size, the sample rate, the host's clock    *)
(* and the calls: apply_due_scheduled and block_offset.                    *)
THEOREM DueLandsInTime == Spec => []LandsInTime
<1>1. Init => ClockInv
  BY InitTypes, ClockAssumption DEF Init, ClockInv, NominalIncrement
<1>2. ClockInv /\ [Next]_vars => ClockInv'
  <2> SUFFICES ASSUME ClockInv, [Next]_vars PROVE ClockInv'
    OBVIOUS
  <2>1. DefTypes' /\ buftime \in Int /\ increment \in Int
    BY StepTypes DEF ClockInv
  <2>2. CASE \E t \in Resyncs, inc \in Increments : Resync(t, inc)
    BY <2>1, <2>2, ControlAssumption DEF Resync, ClockInv
  <2>3. CASE EndBlock
    BY <2>1, <2>3 DEF EndBlock, BlockEnd, ClockInv
  <2>4. CASE UNCHANGED <<buftime, increment>>
    BY <2>1, <2>4 DEF ClockInv
  <2>5. CASE Next /\ ~EndBlock /\ ~ \E t \in Resyncs, inc \in Increments : Resync(t, inc)
    <3>1. UNCHANGED <<buftime, increment>>
      BY <2>5 DEF Next, rt, ReapRetiredDefs, InsertDef, FreeDef, EnsureCompiled, CompileDef, SynthNew,
                  SynthNewSend, TrySendBatch, ClearSched, FreeNode, Send, BeginScheduled, EndScheduled,
                  StartBlock, Intake, IntakeDone, ApplyDue, NrtProcess
    <3> QED
      BY <2>4, <3>1
  <2>6. CASE UNCHANGED vars
    BY <2>4, <2>6 DEF vars, rt
  <2> QED
    BY <2>2, <2>3, <2>5, <2>6
<1>3. ClockInv => LandsInTime
  <2> SUFFICES ASSUME ClockInv PROVE LandsInTime
    OBVIOUS
  <2>1. sched \in Seq(Waiting) /\ buftime \in Int /\ increment \in Int
    BY DEF ClockInv, DefTypes, RtTypes
  <2>2. \A c \in Waiting : c.time \in Int
    BY DEF Waiting, Timeable, FreeCmds, AddCmds, Moments
  <2>3. sched # <<>> => Head(sched) \in Waiting
    BY <2>1
  <2> QED
    BY <2>1, <2>2, <2>3, DueWithinASample
<1> QED
  BY <1>1, <1>2, <1>3, PTL DEF Spec

--------------------------------------------------------------------------------
(* Who drops the last reference to a definition.                           *)

Held(d) == \/ \E k \in 1 .. Len(ring) : ring[k].op = "define" /\ ring[k].def = d
           \/ \E i \in Ids : table[i] = d
           \/ \E m \in Nodes : synths[m] = d
Kept(d) == \/ \E n \in Names : compiled[n] = d
           \/ \E k \in 1 .. Len(retiring) : retiring[k][1] = d

KeptInv == \A d \in Defs : Held(d) => Kept(d)

(* FreedByController says it with sets.                                    *)
LEMMA KeptMeans ==
    ASSUME DefTypes, KeptInv
    PROVE  FreedByController
<1> SUFFICES ASSUME NEW d \in HeldByWorld \ {NIL} PROVE InControl(d) \cup InRetired(d) # {}
  BY DEF FreedByController
<1>1. /\ ring \in Seq(Commands) /\ retiring \in Seq(Entries)
      /\ table \in [Ids -> Defs \cup {NIL}] /\ synths \in [Nodes -> Defs \cup {NIL}]
  BY DEF DefTypes, CtlTypes, RtTypes
<1>2. Held(d)
  BY <1>1 DEF HeldByWorld, Held
<1>3. d \in Defs
  <2>1. \A c \in Commands : c.op = "define" => c.def \in Defs
    BY DEF Commands, Timeable, FreeCmds, AddCmds, GoneCmds, DefCmds, ClearCmd
  <2>2. \A k \in 1 .. Len(ring) : ring[k] \in Commands
    BY <1>1
  <2> QED
    BY <1>1, <1>2, <2>1, <2>2 DEF Held
<1>4. Kept(d)
  BY <1>2, <1>3 DEF KeptInv
<1>5. DOMAIN retiring = 1 .. Len(retiring)
  BY <1>1
<1> QED
  BY <1>4, <1>5 DEF Kept, InControl, InRetired

(* A part of a finite set has a size, and it is 0 only for none.           *)
LEMMA PartSize ==
    ASSUME NEW T, IsFiniteSet(T), NEW S \in SUBSET T
    PROVE  Cardinality(S) \in Nat /\ (S # {} => Cardinality(S) >= 1)
<1>1. IsFiniteSet(S)
  BY FS_Subset
<1> QED
  BY <1>1, FS_CardinalityType, FS_EmptySet

(* Of a definition the World holds and the Controller holds too, the count *)
(* is more than one.                                                       *)
LEMMA TwoHolders ==
    ASSUME DefTypes, NEW d \in Defs, Held(d), Kept(d)
    PROVE  StrongCount(d) \in Int /\ StrongCount(d) > 1
<1>1. /\ ring \in Seq(Commands) /\ retiring \in Seq(Entries) /\ MaxSynthDefs \in Nat
      /\ Len(ring) \in Nat /\ Len(retiring) \in Nat
      /\ DOMAIN ring = 1 .. Len(ring) /\ DOMAIN retiring = 1 .. Len(retiring)
  BY Constants DEF DefTypes, CtlTypes, RtTypes
<1>2. /\ IsFiniteSet(1 .. Len(ring)) /\ IsFiniteSet(1 .. Len(retiring)) /\ IsFiniteSet(Ids)
      /\ IsFiniteSet(Names) /\ IsFiniteSet(Nodes)
  <2>1. MaxSynthDefs - 1 \in Int /\ 0 \in Int /\ 1 \in Int /\ Len(ring) \in Int /\ Len(retiring) \in Int
    BY <1>1
  <2>2. \A x, y \in Int : IsFiniteSet(x .. y)
    BY FS_Interval
  <2>3. IsFiniteSet(Names) /\ IsFiniteSet(Nodes)
    BY ControlAssumption
  <2> QED
    BY <2>1, <2>2, <2>3 DEF Ids
<1> DEFINE a == Cardinality(InRing(d))
           b == Cardinality(InTable(d))
           c == Cardinality(InSynths(d))
           e == Cardinality(InControl(d))
           f == Cardinality(InRetired(d))
<1>3. a \in Nat /\ (InRing(d) # {} => a >= 1)
  <2>1. InRing(d) \in SUBSET (1 .. Len(ring))
    BY <1>1 DEF InRing
  <2> QED
    BY <1>2, <2>1, PartSize
<1>4. b \in Nat /\ (InTable(d) # {} => b >= 1)
  <2>1. InTable(d) \in SUBSET Ids
    BY DEF InTable
  <2> QED
    BY <1>2, <2>1, PartSize
<1>5. c \in Nat /\ (InSynths(d) # {} => c >= 1)
  <2>1. InSynths(d) \in SUBSET Nodes
    BY DEF InSynths
  <2> QED
    BY <1>2, <2>1, PartSize
<1>6. e \in Nat /\ (InControl(d) # {} => e >= 1)
  <2>1. InControl(d) \in SUBSET Names
    BY DEF InControl
  <2> QED
    BY <1>2, <2>1, PartSize
<1>7. f \in Nat /\ (InRetired(d) # {} => f >= 1)
  <2>1. InRetired(d) \in SUBSET (1 .. Len(retiring))
    BY <1>1 DEF InRetired
  <2> QED
    BY <1>2, <2>1, PartSize
<1>8. InRing(d) # {} \/ InTable(d) # {} \/ InSynths(d) # {}
  BY <1>1 DEF Held, InRing, InTable, InSynths
<1>9. InControl(d) # {} \/ InRetired(d) # {}
  BY <1>1 DEF Kept, InControl, InRetired
<1>10. StrongCount(d) = a + b + c + e + f
  BY DEF StrongCount
<1> HIDE DEF a, b, c, e, f
<1> QED
  BY <1>3, <1>4, <1>5, <1>6, <1>7, <1>8, <1>9, <1>10

(* Reaping keeps such a definition.                                        *)
LEMMA ReapKeeps ==
    ASSUME DefTypes, NEW d \in Defs, Held(d), Kept(d),
           NEW list \in Seq(Entries), NEW ids, Reap(list, ids),
           NEW k \in 1 .. Len(list), list[k][1] = d
    PROVE  \E j \in 1 .. Len(retiring') : retiring'[j][1] = d
<1> DEFINE gone == {e \in ToSet(list) : StrongCount(e[1]) <= 1}
           keep == ToSet(list) \ gone
<1>1. retiring' = Retained(list, keep)
  BY DEF Reap
<1>2. list[k] \in keep
  <2>1. StrongCount(d) \in Int /\ StrongCount(d) > 1
    BY TwoHolders
  <2>2. list[k] \in ToSet(list)
    BY DEF ToSet
  <2> QED
    BY <2>1, <2>2
<1> HIDE DEF keep
<1>3. \E j \in 1 .. Len(Retained(list, keep)) : Retained(list, keep)[j] = list[k]
  BY <1>2, RetainedHolds
<1> QED
  BY <1>1, <1>3

(* With nothing new in the World's hands, and the list reaped that what is *)
(* compiled no longer was added to, what was kept stays kept.              *)
LEMMA ReapStep ==
    ASSUME DefTypes, KeptInv, NEW list \in Seq(Entries), NEW ids, Reap(list, ids),
           \A d \in Defs : Held(d)' => Held(d),
           \A d \in Defs : Kept(d) => \/ \E n \in Names : compiled'[n] = d
                                      \/ \E k \in 1 .. Len(list) : list[k][1] = d
    PROVE  KeptInv'
<1> SUFFICES ASSUME NEW d \in Defs, Held(d)' PROVE Kept(d)'
  BY DEF KeptInv
<1>1. Held(d) /\ Kept(d)
  BY DEF KeptInv
<1>2. CASE \E n \in Names : compiled'[n] = d
  BY <1>2 DEF Kept
<1>3. ASSUME NEW k \in 1 .. Len(list), list[k][1] = d PROVE Kept(d)'
  <2>1. \E j \in 1 .. Len(retiring') : retiring'[j][1] = d
    BY <1>1, <1>3, ReapKeeps
  <2> QED
    BY <2>1 DEF Kept
<1> QED
  BY <1>1, <1>2, <1>3

(* What is on the list Retire gives.                                       *)
LEMMA RetireHolds ==
    ASSUME CtlTypes, NEW n \in Names, NEW id \in Ids \cup {NIL}, NEW d \in Defs, Kept(d)
    PROVE  \/ \E m \in Names \ {n} : compiled[m] = d
           \/ \E k \in 1 .. Len(Retire(n, id)) : Retire(n, id)[k][1] = d
<1>1. retiring \in Seq(Entries) /\ compiled[n] \in Defs \cup {NIL} /\ d # NIL
  BY Constants DEF CtlTypes
<1>2. CASE compiled[n] = NIL
  BY <1>1, <1>2 DEF Kept, Retire
<1>3. CASE compiled[n] # NIL
  <2> DEFINE e == <<compiled[n], id>>
             list == Append(retiring, e)
  <2>1. e \in Entries /\ Retire(n, id) = list
    BY <1>1, <1>3 DEF Entries, Retire
  <2>2. e[1] = compiled[n]
    OBVIOUS
  <2> HIDE DEF e
  <2>3. /\ Len(list) = Len(retiring) + 1 /\ Len(retiring) \in Nat /\ list[Len(retiring) + 1] = e
        /\ \A k \in 1 .. Len(retiring) : list[k] = retiring[k]
    BY <1>1, <2>1
  <2>4. \A k \in 1 .. Len(retiring) : k \in 1 .. Len(list)
    BY <2>3
  <2>5. Len(retiring) + 1 \in 1 .. Len(list)
    BY <2>3
  <2> HIDE DEF list
  <2> QED
    BY <2>1, <2>2, <2>3, <2>4, <2>5 DEF Kept
<1> QED
  BY <1>2, <1>3

(* A push of anything but a definition puts nothing into the World's hands.*)
LEMMA PushHolds ==
    ASSUME DefTypes, table' = table, synths' = synths,
           \/ ring' = ring
           \/ \E c \in Commands : c.op # "define" /\ ring' = Append(ring, c)
           \/ \E c, e \in Commands : c.op # "define" /\ e.op # "define" /\ ring' = ring \o <<c, e>>
    PROVE  \A d \in Defs : Held(d)' => Held(d)
<1>1. ring \in Seq(Commands)
  BY DEF DefTypes
<1>2. \A k \in 1 .. Len(ring') : ring'[k].op = "define" => k \in 1 .. Len(ring) /\ ring'[k] = ring[k]
  <2>1. CASE ring' = ring
    BY <2>1
  <2>2. ASSUME NEW c \in Commands, c.op # "define", ring' = Append(ring, c)
        PROVE  \A k \in 1 .. Len(ring') : ring'[k].op = "define" => k \in 1 .. Len(ring) /\ ring'[k] = ring[k]
    BY <1>1, <2>2
  <2>3. ASSUME NEW c \in Commands, NEW e \in Commands, c.op # "define", e.op # "define",
               ring' = ring \o <<c, e>>
        PROVE  \A k \in 1 .. Len(ring') : ring'[k].op = "define" => k \in 1 .. Len(ring) /\ ring'[k] = ring[k]
    BY <1>1, <2>3
  <2> QED
    BY <2>1, <2>2, <2>3
<1> QED
  BY <1>2 DEF Held

(* The commands that carry no definition into the table.                   *)
LEMMA NotDefine ==
    /\ \A node, time : FreeCmd(node, time).op # "define"
    /\ \A node, id, aux, meant, time : AddCmd(node, id, aux, meant, time).op # "define"
    /\ \A id : FreeDefCmd(id).op # "define"
    /\ ClearCmd.op # "define"
  BY DEF FreeCmd, AddCmd, FreeDefCmd, ClearCmd

(* A compilation puts the definition it makes into the ring, and keeps it. *)
LEMMA CompileKept ==
    ASSUME DefTypes, KeptInv, NEW n \in Names, NEW next, CompileDef(n, next)
    PROVE  KeptInv'
<1> DEFINE id == IdFor(n)
           d == [name |-> n, serial |-> compiles, slots |-> authored[n]]
<1>1. /\ UNCHANGED <<retiring, table, synths>> /\ compiled[n] = NIL
      /\ \/ UNCHANGED <<ring, compiled>>
         \/ /\ ring' = Append(ring, DefineCmd(id, d))
            /\ compiled' = [compiled EXCEPT ![n] = d]
  BY DEF CompileDef, rt
<1>2. ring \in Seq(Commands) /\ compiled \in [Names -> Defs \cup {NIL}]
  BY DEF DefTypes, CtlTypes
<1>3. DefineCmd(id, d).def = d
  BY DEF DefineCmd
<1> HIDE DEF id, d
<1>4. CASE UNCHANGED <<ring, compiled>>
  BY <1>1, <1>4 DEF KeptInv, Held, Kept
<1>5. CASE /\ ring' = Append(ring, DefineCmd(id, d))
           /\ compiled' = [compiled EXCEPT ![n] = d]
  <2> DEFINE c == DefineCmd(id, d)
  <2>1. \A k \in 1 .. Len(ring') : (k \in 1 .. Len(ring) /\ ring'[k] = ring[k]) \/ ring'[k] = c
    BY <1>2, <1>5
  <2>2. compiled'[n] = d /\ \A m \in Names \ {n} : compiled'[m] = compiled[m]
    BY <1>2, <1>5
  <2>3. c.def = d
    BY <1>3
  <2> HIDE DEF c
  <2> SUFFICES ASSUME NEW x \in Defs, Held(x)' PROVE Kept(x)'
    BY DEF KeptInv
  <2>4. CASE x = d
    BY <2>2, <2>4 DEF Kept
  <2>5. CASE x # d
    <3>1. Held(x)
      BY <1>1, <2>1, <2>3, <2>5 DEF Held
    <3>2. Kept(x)
      BY <3>1 DEF KeptInv
    <3>3. x # NIL
      BY Constants
    <3> QED
      BY <1>1, <2>2, <3>2, <3>3 DEF Kept
  <2> QED
    BY <2>4, <2>5
<1> QED
  BY <1>1, <1>4, <1>5

(* The controller's calls keep the accounts of who holds a definition. *)
LEMMA ControllerKept ==
    ASSUME DefTypes, KeptInv,
           \/ ReapRetiredDefs
           \/ \E n \in Names, s \in SlotCounts : InsertDef(n, s)
           \/ \E n \in Names : FreeDef(n) \/ EnsureCompiled(n)
           \/ \E n \in Names, node \in Nodes : SynthNew(n, node)
           \/ SynthNewSend
           \/ \E n \in Names, gone, node \in Nodes : TrySendBatch(gone, n, node)
           \/ ClearSched
           \/ \E node \in Nodes : FreeNode(node)
           \/ \E t \in Times : BeginScheduled(t)
           \/ EndScheduled
    PROVE  KeptInv'
<1>0. /\ CtlTypes /\ ring \in Seq(Commands) /\ retiring \in Seq(Entries)
      /\ compiled \in [Names -> Defs \cup {NIL}] /\ defIds \in [Names -> Ids \cup {NIL}]
  BY DEF DefTypes, CtlTypes
<1>h. (\A d \in Defs : Held(d)' => Held(d)) /\ UNCHANGED <<compiled, retiring>> => KeptInv'
  BY DEF KeptInv, Kept
<1>1. CASE ReapRetiredDefs
  <2>1. /\ Reap(retiring, freeIds)
        /\ UNCHANGED <<ring, table, synths, compiled>>
    BY <1>1 DEF ReapRetiredDefs, rt
  <2>2. \A d \in Defs : Held(d)' => Held(d)
    BY <2>1, PushHolds
  <2>3. \A d \in Defs : Kept(d) => \/ \E n \in Names : compiled'[n] = d
                                   \/ \E k \in 1 .. Len(retiring) : retiring[k][1] = d
    <3>1. compiled' = compiled
      BY <2>1
    <3> QED
      BY <3>1 DEF Kept
  <2> QED
    BY <1>0, <2>1, <2>2, <2>3, ReapStep
<1>2. ASSUME NEW n \in Names, NEW id \in Ids \cup {NIL}, NEW ids, Reap(Retire(n, id), ids),
             compiled' = [compiled EXCEPT ![n] = NIL],
             \A d \in Defs : Held(d)' => Held(d)
      PROVE  KeptInv'
  <2>1. Retire(n, id) \in Seq(Entries)
    BY <1>0, RetireTypes
  <2>2. ASSUME NEW d \in Defs, Kept(d)
        PROVE  \/ \E m \in Names : compiled'[m] = d
               \/ \E k \in 1 .. Len(Retire(n, id)) : Retire(n, id)[k][1] = d
    <3>1. \A m \in Names \ {n} : compiled'[m] = compiled[m]
      BY <1>0, <1>2
    <3>2. \/ \E m \in Names \ {n} : compiled[m] = d
          \/ \E k \in 1 .. Len(Retire(n, id)) : Retire(n, id)[k][1] = d
      BY <1>0, <2>2, RetireHolds
    <3> QED
      BY <3>1, <3>2
  <2> QED
    BY <1>2, <2>1, <2>2, ReapStep
<1>3. ASSUME NEW n \in Names, NEW s \in SlotCounts, InsertDef(n, s) PROVE KeptInv'
  <2>1. /\ Reap(Retire(n, NIL), freeIds)
        /\ compiled' = [compiled EXCEPT ![n] = NIL]
        /\ UNCHANGED <<ring, table, synths>>
    BY <1>3 DEF InsertDef, rt
  <2>2. \A d \in Defs : Held(d)' => Held(d)
    BY <2>1, PushHolds
  <2>3. NIL \in Ids \cup {NIL}
    OBVIOUS
  <2> QED
    BY <1>2, <2>1, <2>2, <2>3
<1>4. ASSUME NEW n \in Names, FreeDef(n) PROVE KeptInv'
  <2> DEFINE id == defIds[n]
             ids == IF compiled[n] = NIL /\ id # NIL THEN Append(freeIds, id) ELSE freeIds
  <2>1. /\ Reap(Retire(n, id), ids)
        /\ compiled' = [compiled EXCEPT ![n] = NIL]
        /\ UNCHANGED <<table, synths>>
        /\ ring' = IF id = NIL THEN ring ELSE Append(ring, FreeDefCmd(id))
    BY <1>4 DEF FreeDef, rt
  <2>2. id \in Ids \cup {NIL} /\ (id # NIL => FreeDefCmd(id) \in Commands)
    BY <1>0 DEF FreeDefCmd, GoneCmds, Commands
  <2> HIDE DEF id, ids
  <2>3. \A d \in Defs : Held(d)' => Held(d)
    BY <2>1, <2>2, PushHolds, NotDefine
  <2> QED
    BY <1>2, <2>1, <2>2, <2>3
<1>5. ASSUME NEW n \in Names, EnsureCompiled(n) PROVE KeptInv'
  BY <1>5, CompileKept DEF EnsureCompiled
<1>6. ASSUME NEW n \in Names, NEW node \in Nodes, SynthNew(n, node) PROVE KeptInv'
  <2>1. CASE CompileDef(n, [name |-> n, node |-> node])
    BY <2>1, CompileKept
  <2>2. CASE UNCHANGED <<compiled, retiring, ring, table, synths>>
    BY <1>h, <2>2, PushHolds
  <2> QED
    BY <1>6, <2>1, <2>2 DEF SynthNew, rt
<1>7. CASE SynthNewSend
  <2> DEFINE c == AddCmd(call.node, defIds[call.name], compiled[call.name].slots, compiled[call.name],
                         schedule)
  <2>1. /\ ring' = Append(ring, c) \/ ring' = ring
        /\ UNCHANGED <<compiled, retiring, table, synths>>
        /\ call # NIL
    BY <1>7 DEF SynthNewSend, rt
  <2>2. call.name \in Names /\ call.node \in Nodes /\ compiled[call.name] # NIL /\ compiled[call.name].slots \in Nat
    BY <1>0, <2>1, Constants DEF CtlTypes, Defs
  <2>3. c \in Commands /\ c.op # "define"
    BY <2>2, CommandTypes, NotDefine
  <2> HIDE DEF c
  <2> QED
    BY <1>h, <2>1, <2>3, PushHolds
<1>8. ASSUME NEW n \in Names, NEW gone \in Nodes, NEW node \in Nodes, TrySendBatch(gone, n, node)
      PROVE  KeptInv'
  <2> DEFINE c == FreeCmd(gone, schedule)
             e == AddCmd(node, defIds[n], poolSlots[defIds[n]], compiled[n], schedule)
  <2>1. poolSlots[defIds[n]] \in Nat /\ compiled[n] # NIL
    BY <1>0, <1>8 DEF TrySendBatch, CtlTypes
  <2>2. c \in Commands /\ e \in Commands /\ c.op # "define" /\ e.op # "define"
    BY <2>1, CommandTypes, FreeType, NotDefine
  <2>3. ring' = ring \o <<c, e>> /\ UNCHANGED <<compiled, retiring, table, synths>>
    BY <1>8 DEF TrySendBatch, ctl, rt
  <2> HIDE DEF c, e
  <2> QED
    BY <1>h, <2>2, <2>3, PushHolds
<1>9. ASSUME NEW c \in Commands, c.op # "define", Send(c) PROVE KeptInv'
  <2>1. ring' = Append(ring, c) /\ UNCHANGED <<compiled, retiring, table, synths>>
    BY <1>9 DEF Send, ctl, rt
  <2> QED
    BY <1>h, <1>9, <2>1, PushHolds
<1>10. CASE ClearSched
  <2>1. ClearCmd \in Commands
    BY DEF Commands
  <2> QED
    BY <1>9, <1>10, <2>1, NotDefine DEF ClearSched
<1>11. ASSUME NEW node \in Nodes, FreeNode(node) PROVE KeptInv'
  BY <1>9, <1>11, FreeType, NotDefine DEF FreeNode
<1>12. ASSUME NEW t \in Times, BeginScheduled(t) PROVE KeptInv'
  <2>1. UNCHANGED <<compiled, retiring, ring, table, synths>>
    BY <1>12 DEF BeginScheduled, rt
  <2> QED
    BY <1>h, <2>1, PushHolds
<1>13. CASE EndScheduled
  <2>1. UNCHANGED <<compiled, retiring, ring, table, synths>>
    BY <1>13 DEF EndScheduled, rt
  <2> QED
    BY <1>h, <2>1, PushHolds
<1> QED
  BY <1>1, <1>3, <1>4, <1>5, <1>6, <1>7, <1>8, <1>10, <1>11, <1>12, <1>13

(* The World only hands on what it has, from the ring to the table and     *)
(* from the table to a graph.                                              *)
LEMMA WorldKept ==
    ASSUME DefTypes, KeptInv, WorldStep
    PROVE  KeptInv'
<1>0. ring \in Seq(Commands) /\ RtTypes
  BY DEF DefTypes
<1>1. /\ UNCHANGED <<compiled, retiring>>
      /\ \A m \in Nodes : \/ synths'[m] = NIL \/ synths'[m] = synths[m]
                          \/ \E i \in Ids : synths'[m] = table[i]
      /\ \/ ring' = ring /\ table' = table
         \/ /\ ring # <<>> /\ ring' = Tail(ring)
            /\ \/ table' = table
               \/ Apply(Head(ring))
         \/ \E cmd \in Timeable : Apply(cmd) /\ ring' = ring
  BY WorldTakes DEF ctl
<1>2. \A k \in 1 .. Len(ring') : \E j \in 1 .. Len(ring) : ring'[k] = ring[j]
  <2>1. CASE ring' = ring
    BY <2>1
  <2>2. CASE ring # <<>> /\ ring' = Tail(ring)
    <3>1. /\ Len(ring) \in Nat /\ Len(Tail(ring)) = Len(ring) - 1
          /\ \A k \in 1 .. Len(Tail(ring)) : k + 1 \in 1 .. Len(ring) /\ Tail(ring)[k] = ring[k + 1]
      BY <1>0, <2>2
    <3> QED
      BY <2>2, <3>1
  <2> QED
    BY <1>1, <2>1, <2>2
<1>3. \A i \in Ids : \/ table'[i] = NIL \/ table'[i] = table[i]
                     \/ \E k \in 1 .. Len(ring) : ring[k].op = "define" /\ table'[i] = ring[k].def
  <2>1. CASE table' = table
    BY <2>1
  <2>2. CASE ring # <<>> /\ Apply(Head(ring))
    <3>1. Head(ring) = ring[1] /\ 1 \in 1 .. Len(ring) /\ ring[1] \in Commands
      BY <1>0, <2>2
    <3>2. \A i \in Ids : \/ table'[i] = NIL \/ table'[i] = table[i]
                         \/ ring[1].op = "define" /\ table'[i] = ring[1].def
      BY <1>0, <2>2, <3>1, ApplyHolds
    <3> QED
      BY <3>1, <3>2
  <2>3. ASSUME NEW cmd \in Timeable, Apply(cmd)
        PROVE  \A i \in Ids : table'[i] = NIL \/ table'[i] = table[i]
    <3>1. cmd \in Commands /\ cmd.op # "define"
      BY <2>3 DEF Commands, Timeable, FreeCmds, AddCmds
    <3> QED
      BY <1>0, <2>3, <3>1, ApplyHolds
  <2> QED
    BY <1>1, <2>1, <2>2, <2>3
<1> SUFFICES ASSUME NEW d \in Defs, Held(d)' PROVE Kept(d)'
  BY DEF KeptInv
<1>4. d # NIL
  BY Constants
<1>5. CASE \E k \in 1 .. Len(ring') : ring'[k].op = "define" /\ ring'[k].def = d
  <2>1. Held(d)
    BY <1>2, <1>5 DEF Held
  <2> QED
    BY <1>1, <2>1 DEF KeptInv, Kept
<1>6. CASE \E i \in Ids : table'[i] = d
  <2>1. Held(d)
    BY <1>3, <1>4, <1>6 DEF Held
  <2> QED
    BY <1>1, <2>1 DEF KeptInv, Kept
<1>7. CASE \E m \in Nodes : synths'[m] = d
  <2>1. Held(d)
    BY <1>1, <1>4, <1>7 DEF Held
  <2> QED
    BY <1>1, <2>1 DEF KeptInv, Kept
<1> QED
  BY <1>5, <1>6, <1>7 DEF Held

(* Whatever the audio thread still holds of a definition, in the ring, in  *)
(* its table or in a synth's graph, the Controller holds too: dropping it  *)
(* never frees it there, whatever is redefined, freed and reaped meanwhile *)
(* (reap_retired_defs).                                                    *)
THEOREM ControllerFreesLast == Spec => []FreedByController
<1>1. Init => DefTypes /\ KeptInv
  <2> SUFFICES ASSUME Init PROVE KeptInv
    BY InitTypes
  <2> QED
    BY Constants DEF Init, KeptInv, Held
<1>2. DefTypes /\ KeptInv /\ [Next]_vars => (DefTypes /\ KeptInv)'
  <2> SUFFICES ASSUME DefTypes, KeptInv, [Next]_vars PROVE KeptInv'
    BY StepTypes
  <2>1. CASE WorldStep
    BY <2>1, WorldKept
  <2>2. CASE Next /\ ~WorldStep
    BY <2>2, ControllerKept DEF Next, WorldStep
  <2>3. CASE UNCHANGED vars
    BY <2>3 DEF vars, ctl, rt, KeptInv, Held, Kept
  <2> QED
    BY <2>1, <2>2, <2>3
<1>3. DefTypes /\ KeptInv => FreedByController
  BY KeptMeans
<1> QED
  BY <1>1, <1>2, <1>3, PTL DEF Spec

(* How many owners an id has.                                              *)
NamesOf(f, id) == {n \in Names : f[n] = id}
With(id)       == {e \in Entries : e[2] = id}

OwnersInv ==
    \A id \in Ids : Cardinality(NamesOf(defIds, id)) + Tally(freeIds, {id}) + Tally(retiring, With(id))
                      = IF id < nextDefId THEN 1 ELSE 0

(* IdsPartition counts the same.                                           *)
LEMMA OwnersMeans ==
    ASSUME DefTypes, OwnersInv
    PROVE  IdsPartition
<1> SUFFICES ASSUME NEW id \in Ids PROVE Owners(id) = IF id < nextDefId THEN 1 ELSE 0
  BY DEF IdsPartition
<1>1. retiring \in Seq(Entries) /\ DOMAIN retiring = 1 .. Len(retiring)
  BY DEF DefTypes, CtlTypes
<1>2. {k \in DOMAIN freeIds : freeIds[k] = id} = Spots(freeIds, {id})
  BY DEF Spots
<1>3. \A k \in DOMAIN retiring : retiring[k] \in Entries
  BY <1>1
<1>4. {k \in DOMAIN retiring : retiring[k][2] = id} = Spots(retiring, With(id))
  BY <1>3 DEF Spots, With
<1>5. {n \in Names : defIds[n] = id} = NamesOf(defIds, id)
  BY DEF NamesOf
<1>6. Owners(id) = Cardinality(NamesOf(defIds, id)) + Tally(freeIds, {id}) + Tally(retiring, With(id))
  BY <1>2, <1>4, <1>5 DEF Owners, Tally
<1> QED
  BY <1>6 DEF OwnersInv

(* The names of an id are finitely many. *)
LEMMA NamesSize ==
    ASSUME NEW f, NEW id
    PROVE  IsFiniteSet(NamesOf(f, id)) /\ Cardinality(NamesOf(f, id)) \in Nat
<1>1. IsFiniteSet(Names) /\ NamesOf(f, id) \in SUBSET Names
  BY ControlAssumption DEF NamesOf
<1>2. IsFiniteSet(NamesOf(f, id))
  BY <1>1, FS_Subset
<1> QED
  BY <1>2, FS_CardinalityType

(* One name takes an id.                                                   *)
LEMMA NameTakes ==
    ASSUME NEW f, NEW g, NEW n \in Names, NEW id, f[n] # id, g[n] = id,
           \A m \in Names \ {n} : g[m] = f[m]
    PROVE  Cardinality(NamesOf(g, id)) = Cardinality(NamesOf(f, id)) + 1
<1>1. NamesOf(g, id) = NamesOf(f, id) \cup {n} /\ n \notin NamesOf(f, id)
  BY DEF NamesOf
<1>2. IsFiniteSet(NamesOf(f, id))
  BY NamesSize
<1>3. Cardinality(NamesOf(f, id) \cup {n}) = Cardinality(NamesOf(f, id)) + 1
  BY <1>1, <1>2, FS_AddElement
<1> QED
  BY <1>1, <1>3

(* What an entry with an id adds to a list.                                *)
LEMMA RetireTally ==
    ASSUME CtlTypes, NEW n \in Names, NEW x \in Ids \cup {NIL}, NEW id \in Ids
    PROVE  Tally(Retire(n, x), With(id))
             = Tally(retiring, With(id)) + (IF compiled[n] # NIL /\ x = id THEN 1 ELSE 0)
<1>0. retiring \in Seq(Entries) /\ Tally(retiring, With(id)) \in Nat
  BY TallyType DEF CtlTypes
<1>1. CASE compiled[n] = NIL
  BY <1>0, <1>1 DEF Retire
<1>2. CASE compiled[n] # NIL
  <2> DEFINE e == <<compiled[n], x>>
  <2>1. e \in Entries /\ (e \in With(id) <=> x = id)
    BY <1>2 DEF CtlTypes, Entries, With
  <2>2. Retire(n, x) = Append(retiring, e)
    BY <1>2 DEF Retire
  <2> HIDE DEF e
  <2>3. Tally(Append(retiring, e), With(id)) = Tally(retiring, With(id)) + (IF e \in With(id) THEN 1 ELSE 0)
    BY <1>0, <2>1, TallyAppend
  <2> QED
    BY <1>2, <2>1, <2>2, <2>3
<1> QED
  BY <1>1, <1>2

(* Reaping moves ids from the list to the stack, and loses none.           *)
LEMMA ReapConserves ==
    ASSUME NEW list \in Seq(Entries), NEW ids \in Seq(Ids), Reap(list, ids), NEW id \in Ids
    PROVE  Tally(freeIds', {id}) + Tally(retiring', With(id)) = Tally(ids, {id}) + Tally(list, With(id))
<1> DEFINE gone == {e \in ToSet(list) : StrongCount(e[1]) <= 1}
           given == {e \in gone : e[2] # NIL}
           keep == ToSet(list) \ gone
           back == Retained(list, given)
           freed == [k \in DOMAIN back |-> back[k][2]]
           W == With(id)
<1>1. retiring' = Retained(list, keep) /\ freeIds' = ids \o freed
  BY DEF Reap
<1>2. /\ keep \cap given = {}
      /\ \A e \in ToSet(list) : e[2] # NIL => e \in keep \cup given
      /\ \A e \in given : e[2] # NIL
  OBVIOUS
<1>3. \A e \in W : e[2] = id /\ id # NIL
  BY Constants DEF With
<1> HIDE DEF gone, given, keep
<1>4. back \in Seq(Entries) /\ Tally(back, W) = Tally(list, given \cap W)
  BY RetainedTally
<1>5. Tally(retiring', W) = Tally(list, keep \cap W)
  BY <1>1, RetainedTally
<1>6. \A k \in 1 .. Len(back) : back[k] \in Entries /\ back[k][2] \in Ids
  <2>1. \A k \in 1 .. Len(back) : back[k] \in given
    BY RetainedIn
  <2> HIDE DEF back
  <2>2. \A k \in 1 .. Len(back) : back[k] \in Entries
    BY <1>4
  <2> QED
    BY <1>2, <2>1, <2>2 DEF Entries
<1> HIDE DEF back
<1>7. freed \in Seq(Ids) /\ DOMAIN freed = DOMAIN back /\ DOMAIN back = 1 .. Len(back)
  <2>1. DOMAIN back = 1 .. Len(back) /\ Len(back) \in Nat
    BY <1>4
  <2> QED
    BY <1>6, <2>1
<1>8. \A k \in DOMAIN back : freed[k] = back[k][2]
  OBVIOUS
<1> HIDE DEF freed
<1>9. Tally(freed, {id}) = Tally(back, W)
  <2>1. \A k \in DOMAIN back : back[k] \in W <=> back[k][2] = id
    BY <1>6, <1>7 DEF With
  <2>2. Spots(freed, {id}) = Spots(back, W)
    BY <1>7, <1>8, <2>1 DEF Spots
  <2> QED
    BY <2>2 DEF Tally
<1>10. Tally(freeIds', {id}) = Tally(ids, {id}) + Tally(freed, {id})
  BY <1>1, <1>7, TallyConcat
<1>11. Tally(list, W) = Tally(list, keep \cap W) + Tally(list, given \cap W)
  <2>1. Tally(list, (keep \cap W) \cup (given \cap W))
          = Tally(list, keep \cap W) + Tally(list, given \cap W)
    <3>1. (keep \cap W) \cap (given \cap W) = {}
      BY <1>2
    <3> QED
      BY <3>1, TallySplit
  <2>2. \A k \in DOMAIN list : list[k] \in ToSet(list)
    BY DEF ToSet
  <2>3. Spots(list, W) = Spots(list, (keep \cap W) \cup (given \cap W))
    BY <1>2, <1>3, <2>2 DEF Spots
  <2>4. Tally(list, W) = Tally(list, (keep \cap W) \cup (given \cap W))
    BY <2>3 DEF Tally
  <2> QED
    BY <2>1, <2>4
<1> DEFINE a == Tally(ids, {id})
           b == Tally(list, keep \cap W)
           c == Tally(list, given \cap W)
<1>12. a \in Nat /\ b \in Nat /\ c \in Nat
  BY TallyType
<1>13. /\ Tally(freeIds', {id}) = a + c /\ Tally(retiring', W) = b /\ Tally(list, W) = b + c
  BY <1>4, <1>5, <1>9, <1>10, <1>11
<1> HIDE DEF a, b, c, W
<1>14. (a + c) + b = a + (b + c)
  BY <1>12
<1>15. Tally(freeIds', {id}) + Tally(retiring', W) = a + Tally(list, W)
  BY <1>13, <1>14
<1> QED
  BY <1>15 DEF a, W

(* A step that gives the stack and the list what ReapConserves says of     *)
(* them, and moves as much from the names.                                 *)
LEMMA OwnersByReap ==
    ASSUME DefTypes, OwnersInv, NEW list \in Seq(Entries), NEW ids \in Seq(Ids), Reap(list, ids),
           nextDefId' = nextDefId,
           \A id \in Ids : Cardinality(NamesOf(defIds', id)) + Tally(ids, {id}) + Tally(list, With(id))
                             = Cardinality(NamesOf(defIds, id)) + Tally(freeIds, {id})
                               + Tally(retiring, With(id))
    PROVE  OwnersInv'
<1> SUFFICES ASSUME NEW id \in Ids
             PROVE  Cardinality(NamesOf(defIds', id)) + Tally(freeIds', {id}) + Tally(retiring', With(id))
                      = IF id < nextDefId THEN 1 ELSE 0
  BY DEF OwnersInv, NamesOf, With, Tally, Spots, Entries, Defs, Ids
<1> DEFINE n == Cardinality(NamesOf(defIds', id))
           a == Tally(ids, {id})
           b == Tally(list, With(id))
           c == Tally(freeIds', {id})
           d == Tally(retiring', With(id))
<1>1. c + d = a + b
  BY ReapConserves
<1>2. n \in Nat /\ a \in Nat /\ b \in Nat
  BY NamesSize, TallyType
<1>3. c \in Nat /\ d \in Nat
  BY ReapTypes, TallyType
<1>4. n + a + b = IF id < nextDefId THEN 1 ELSE 0
  BY DEF OwnersInv
<1> HIDE DEF n, a, b, c, d
<1>5. n + c + d = n + a + b
  BY <1>1, <1>2, <1>3
<1>6. n + c + d = IF id < nextDefId THEN 1 ELSE 0
  BY <1>4, <1>5
<1> QED
  BY <1>6 DEF n, c, d

(* Freeing a definition keeps one owner to an id. *)
LEMMA FreeOwners ==
    ASSUME DefTypes, OwnersInv, NEW n \in Names, FreeDef(n)
    PROVE  OwnersInv'
<1> DEFINE x == defIds[n]
           ids == IF compiled[n] = NIL /\ x # NIL THEN Append(freeIds, x) ELSE freeIds
           list == Retire(n, x)
<1>1. /\ Reap(list, ids) /\ nextDefId' = nextDefId
      /\ defIds' = [defIds EXCEPT ![n] = NIL]
  BY DEF FreeDef
<1>2. /\ CtlTypes /\ freeIds \in Seq(Ids) /\ x \in Ids \cup {NIL}
      /\ defIds \in [Names -> Ids \cup {NIL}]
  BY DEF DefTypes, CtlTypes
<1>3. ids \in Seq(Ids)
  BY <1>2
<1>4. list \in Seq(Entries)
  BY <1>2, RetireTypes
<1>5. defIds'[n] = NIL /\ \A m \in Names \ {n} : defIds[m] = defIds'[m]
  BY <1>1, <1>2
<1>6. ASSUME NEW id \in Ids
      PROVE  Cardinality(NamesOf(defIds', id)) + Tally(ids, {id}) + Tally(list, With(id))
               = Cardinality(NamesOf(defIds, id)) + Tally(freeIds, {id}) + Tally(retiring, With(id))
  <2> DEFINE a == Cardinality(NamesOf(defIds', id))
             b == Tally(freeIds, {id})
             c == Tally(retiring, With(id))
             here == IF compiled[n] # NIL /\ x = id THEN 1 ELSE 0
             there == IF compiled[n] = NIL /\ x = id THEN 1 ELSE 0
  <2>0. id # NIL
    BY Constants
  <2>1. a \in Nat /\ b \in Nat /\ c \in Nat
    <3>1. retiring \in Seq(Entries)
      BY <1>2 DEF CtlTypes
    <3> QED
      BY <1>2, <3>1, NamesSize, TallyType
  <2>2. Tally(list, With(id)) = c + here
    BY <1>2, RetireTally
  <2>3. Tally(ids, {id}) = b + there
    <3>1. CASE compiled[n] = NIL /\ x # NIL
      <4>1. Tally(Append(freeIds, x), {id}) = b + (IF x \in {id} THEN 1 ELSE 0)
        BY <1>2, <3>1, TallyAppend
      <4> QED
        BY <3>1, <4>1
    <3>2. CASE ~(compiled[n] = NIL /\ x # NIL)
      <4>1. ids = freeIds /\ there = 0
        BY <2>0, <3>2
      <4> QED
        BY <2>1, <4>1
    <3> QED
      BY <3>1, <3>2
  <2>4. Cardinality(NamesOf(defIds, id)) = a + (IF x = id THEN 1 ELSE 0)
    <3>1. CASE x = id
      <4>1. defIds[n] = id /\ defIds'[n] # id
        BY <1>5, <2>0, <3>1
      <4> QED
        BY <1>5, <3>1, <4>1, NameTakes
    <3>2. CASE x # id
      <4>1. NamesOf(defIds, id) = NamesOf(defIds', id)
        BY <1>5, <2>0, <3>2 DEF NamesOf
      <4> QED
        BY <2>1, <3>2, <4>1
    <3> QED
      BY <3>1, <3>2
  <2>5. (IF x = id THEN 1 ELSE 0) = here + there /\ here \in Nat /\ there \in Nat
    OBVIOUS
  <2> HIDE DEF x, ids, list
  <2>6. Cardinality(NamesOf(defIds, id)) = a + (here + there)
    BY <2>4, <2>5
  <2> HIDE DEF here, there, a, b, c
  <2>7. a + (b + there) + (c + here) = (a + (here + there)) + b + c
    BY <2>1, <2>5
  <2>8. a + Tally(ids, {id}) + Tally(list, With(id)) = Cardinality(NamesOf(defIds, id)) + b + c
    BY <2>2, <2>3, <2>6, <2>7
  <2> QED
    BY <2>8 DEF a, b, c
<1> HIDE DEF x, ids, list
<1> QED
  BY <1>1, <1>3, <1>4, <1>6, OwnersByReap

(* Inserting one does. *)
LEMMA InsertOwners ==
    ASSUME DefTypes, OwnersInv, NEW n \in Names, NEW s, InsertDef(n, s)
    PROVE  OwnersInv'
<1>1. Reap(Retire(n, NIL), freeIds) /\ nextDefId' = nextDefId /\ defIds' = defIds
  BY DEF InsertDef
<1>2. CtlTypes /\ freeIds \in Seq(Ids) /\ retiring \in Seq(Entries) /\ NIL \in Ids \cup {NIL}
  BY DEF DefTypes, CtlTypes
<1>3. Retire(n, NIL) \in Seq(Entries)
  BY <1>2, RetireTypes
<1>4. ASSUME NEW id \in Ids PROVE Tally(Retire(n, NIL), With(id)) = Tally(retiring, With(id))
  <2>1. id # NIL /\ Tally(retiring, With(id)) \in Nat
    BY <1>2, Constants, TallyType
  <2>2. Tally(Retire(n, NIL), With(id))
          = Tally(retiring, With(id)) + (IF compiled[n] # NIL /\ NIL = id THEN 1 ELSE 0)
    BY <1>2, RetireTally
  <2> QED
    BY <2>1, <2>2
<1>5. \A id \in Ids : Cardinality(NamesOf(defIds', id)) + Tally(freeIds, {id}) + Tally(Retire(n, NIL), With(id))
                        = Cardinality(NamesOf(defIds, id)) + Tally(freeIds, {id}) + Tally(retiring, With(id))
  BY <1>1, <1>4
<1> QED
  BY <1>1, <1>2, <1>3, <1>5, OwnersByReap

(* An owned id has no other owner.                                         *)
LEMMA OneOwner ==
    ASSUME DefTypes, OwnersInv, NEW n \in Names, defIds[n] # NIL
    PROVE  /\ defIds[n] \in Ids /\ defIds[n] < nextDefId
           /\ \A m \in Names \ {n} : defIds[m] # defIds[n]
           /\ \A k \in 1 .. Len(freeIds) : freeIds[k] # defIds[n]
<1> DEFINE id == defIds[n]
<1>1. id \in Ids /\ freeIds \in Seq(Ids) /\ retiring \in Seq(Entries) /\ nextDefId \in Nat /\ id \in Nat
  <2>1. /\ id \in Ids \cup {NIL} /\ freeIds \in Seq(Ids) /\ retiring \in Seq(Entries)
        /\ nextDefId \in 0 .. MaxSynthDefs
    BY DEF DefTypes, CtlTypes
  <2> HIDE DEF id
  <2> QED
    <3>1. id # NIL
      BY DEF id
    <3> QED
      BY <2>1, <3>1, Constants
<1> DEFINE a == Cardinality(NamesOf(defIds, id))
           b == Tally(freeIds, {id})
           c == Tally(retiring, With(id))
<1>2. a + b + c = IF id < nextDefId THEN 1 ELSE 0
  BY <1>1 DEF OwnersInv
<1>3. a \in Nat /\ b \in Nat /\ c \in Nat /\ IsFiniteSet(NamesOf(defIds, id)) /\ n \in NamesOf(defIds, id)
  BY <1>1, NamesSize, TallyType DEF NamesOf
<1>4. Cardinality(NamesOf(defIds, id) \ {n}) = a - 1
  BY <1>3, FS_RemoveElement
<1>5. /\ IsFiniteSet(NamesOf(defIds, id) \ {n}) /\ Cardinality(NamesOf(defIds, id) \ {n}) \in Nat
      /\ (Cardinality(NamesOf(defIds, id) \ {n}) = 0 => NamesOf(defIds, id) \ {n} = {})
  <2>1. IsFiniteSet(NamesOf(defIds, id) \ {n})
    BY <1>3, FS_RemoveElement
  <2> QED
    BY <2>1, FS_CardinalityType, FS_EmptySet
<1>6. b = 0 => \A k \in 1 .. Len(freeIds) : freeIds[k] \notin {id}
  BY <1>1, TallyType
<1> HIDE DEF a, b, c
<1>7. a >= 1
  BY <1>3, <1>4, <1>5
<1>8. id < nextDefId /\ a = 1 /\ b = 0
  BY <1>1, <1>2, <1>3, <1>7
<1>9. NamesOf(defIds, id) \ {n} = {}
  BY <1>4, <1>5, <1>8
<1>10. \A m \in Names \ {n} : defIds[m] # defIds[n]
  BY <1>9 DEF NamesOf
<1> QED
  BY <1>1, <1>6, <1>8, <1>10

(* An id on the stack has no name.                                         *)
LEMMA FreeUnnamed ==
    ASSUME DefTypes, OwnersInv, NEW k \in 1 .. Len(freeIds), NEW m \in Names
    PROVE  defIds[m] # freeIds[k]
<1>1. freeIds \in Seq(Ids) /\ freeIds[k] \in Ids /\ freeIds[k] # NIL
  <2>1. freeIds \in Seq(Ids)
    BY DEF DefTypes, CtlTypes
  <2> QED
    BY <2>1, Constants
<1> SUFFICES ASSUME defIds[m] = freeIds[k] PROVE FALSE
  OBVIOUS
<1> QED
  BY <1>1, OneOwner

(* Compiling one does. *)
LEMMA CompileOwners ==
    ASSUME DefTypes, OwnersInv, NEW n \in Names, NEW next, CompileDef(n, next)
    PROVE  /\ OwnersInv'
           /\ \A m \in Names \ {n} : defIds[m] # IdFor(n)
<1> DEFINE x == IdFor(n)
<1>1. /\ x # NIL /\ retiring' = retiring
      /\ defIds' = [defIds EXCEPT ![n] = x]
      /\ freeIds' = IF defIds[n] = NIL /\ freeIds # <<>> THEN Front(freeIds) ELSE freeIds
      /\ nextDefId' = IF defIds[n] = NIL /\ freeIds = <<>> THEN nextDefId + 1 ELSE nextDefId
  BY DEF CompileDef
<1>2. /\ CtlTypes /\ freeIds \in Seq(Ids) /\ retiring \in Seq(Entries) /\ nextDefId \in Nat
      /\ defIds \in [Names -> Ids \cup {NIL}]
  BY DEF DefTypes, CtlTypes
<1>3. x \in Ids
  BY <1>1, <1>2, IdForType
<1>4. defIds'[n] = x /\ \A m \in Names \ {n} : defIds'[m] = defIds[m]
  BY <1>1, <1>2
<1>5. CASE defIds[n] # NIL
  <2>1. x = defIds[n] /\ defIds' = defIds /\ freeIds' = freeIds /\ nextDefId' = nextDefId
    BY <1>1, <1>2, <1>5 DEF IdFor
  <2>2. \A m \in Names \ {n} : defIds[m] # defIds[n]
    BY <1>5, OneOwner
  <2>3. OwnersInv'
    BY <1>1, <2>1 DEF OwnersInv
  <2> QED
    BY <2>1, <2>2, <2>3
<1>6. CASE defIds[n] = NIL
  <2>0. x # NIL /\ defIds[n] # x
    BY <1>1, <1>6
  <2>1. \A id \in Ids : Cardinality(NamesOf(defIds', id))
                          = Cardinality(NamesOf(defIds, id)) + (IF id = x THEN 1 ELSE 0)
    <3> TAKE id \in Ids
    <3>1. CASE id = x
      BY <1>4, <2>0, <3>1, NameTakes
    <3>2. CASE id # x
      <4>1. NamesOf(defIds', id) = NamesOf(defIds, id)
        <5>1. id # NIL
          BY Constants
        <5> QED
          BY <1>4, <1>6, <3>2, <5>1 DEF NamesOf
      <4>2. Cardinality(NamesOf(defIds, id)) \in Nat
        BY NamesSize
      <4> QED
        BY <3>2, <4>1, <4>2
    <3> QED
      BY <3>1, <3>2
  <2>2. CASE freeIds # <<>>
    <3>1. /\ x = Last(freeIds) /\ freeIds' = Front(freeIds) /\ nextDefId' = nextDefId
          /\ Front(freeIds) \in Seq(Ids) /\ freeIds = Append(Front(freeIds), x)
      BY <1>1, <1>2, <1>6, <2>2, FrontLast DEF IdFor
    <3>2. \A id \in Ids : Tally(freeIds, {id}) = Tally(freeIds', {id}) + (IF id = x THEN 1 ELSE 0)
      <4> TAKE id \in Ids
      <4>1. Tally(Append(Front(freeIds), x), {id}) = Tally(Front(freeIds), {id}) + (IF x \in {id} THEN 1 ELSE 0)
        BY <1>3, <3>1, TallyAppend
      <4>2. (IF x \in {id} THEN 1 ELSE 0) = (IF id = x THEN 1 ELSE 0)
        OBVIOUS
      <4> QED
        BY <3>1, <4>1, <4>2
    <3>3. ASSUME NEW id \in Ids
          PROVE  Cardinality(NamesOf(defIds', id)) + Tally(freeIds', {id}) + Tally(retiring', With(id))
                   = IF id < nextDefId' THEN 1 ELSE 0
      <4> DEFINE a == Cardinality(NamesOf(defIds, id))
                 b == Tally(freeIds', {id})
                 c == Tally(retiring, With(id))
                 one == IF id = x THEN 1 ELSE 0
      <4>1. a \in Nat /\ b \in Nat /\ c \in Nat /\ one \in Nat
        BY <1>2, <3>1, NamesSize, TallyType
      <4>2. a + (b + one) + c = IF id < nextDefId THEN 1 ELSE 0
        BY <3>2 DEF OwnersInv
      <4>3. Cardinality(NamesOf(defIds', id)) = a + one
        BY <2>1
      <4> HIDE DEF a, b, c, one
      <4>4. (a + one) + b + c = a + (b + one) + c
        BY <4>1
      <4>5. Cardinality(NamesOf(defIds', id)) + b + c = IF id < nextDefId THEN 1 ELSE 0
        BY <4>2, <4>3, <4>4
      <4> QED
        BY <1>1, <3>1, <4>5 DEF b, c
    <3>4. \A m \in Names \ {n} : defIds[m] # x
      <4>1. Len(freeIds) \in 1 .. Len(freeIds) /\ x = freeIds[Len(freeIds)]
        BY <1>2, <2>2, <3>1 DEF Last
      <4> QED
        BY <4>1, FreeUnnamed
    <3> HIDE DEF x
    <3>5. OwnersInv'
      BY <3>3 DEF OwnersInv, NamesOf, With, Tally, Spots, Entries, Defs, Ids
    <3> QED
      BY <3>4, <3>5 DEF x
  <2>3. CASE freeIds = <<>>
    <3>1. x = nextDefId /\ freeIds' = freeIds /\ nextDefId' = nextDefId + 1
      BY <1>1, <1>6, <2>3 DEF IdFor
    <3>3. ASSUME NEW id \in Ids
          PROVE  Cardinality(NamesOf(defIds', id)) + Tally(freeIds', {id}) + Tally(retiring', With(id))
                   = IF id < nextDefId' THEN 1 ELSE 0
      <4> DEFINE a == Cardinality(NamesOf(defIds, id))
                 b == Tally(freeIds, {id})
                 c == Tally(retiring, With(id))
                 one == IF id = x THEN 1 ELSE 0
                 rhs == IF id < nextDefId THEN 1 ELSE 0
      <4>1. a \in Nat /\ b \in Nat /\ c \in Nat /\ one \in Nat /\ rhs \in Nat /\ id \in Nat
        BY <1>2, NamesSize, TallyType, Constants
      <4>2. a + b + c = rhs
        BY DEF OwnersInv
      <4>3. Cardinality(NamesOf(defIds', id)) = a + one
        BY <2>1
      <4>4. rhs + one = IF id < nextDefId + 1 THEN 1 ELSE 0
        BY <1>2, <3>1, <4>1
      <4> HIDE DEF a, b, c, one, rhs
      <4>5. (a + one) + b + c = rhs + one
        BY <4>1, <4>2
      <4>6. Cardinality(NamesOf(defIds', id)) + b + c = IF id < nextDefId + 1 THEN 1 ELSE 0
        BY <4>3, <4>4, <4>5
      <4> QED
        BY <1>1, <3>1, <4>6 DEF b, c
    <3>4. \A m \in Names \ {n} : defIds[m] # x
      <4> SUFFICES ASSUME NEW m \in Names, defIds[m] = x PROVE FALSE
        OBVIOUS
      <4>1. defIds[m] < nextDefId
        BY <2>0, OneOwner
      <4> QED
        BY <1>2, <3>1, <4>1
    <3> HIDE DEF x
    <3>5. OwnersInv'
      BY <3>3 DEF OwnersInv, NamesOf, With, Tally, Spots, Entries, Defs, Ids
    <3> QED
      BY <3>4, <3>5 DEF x
  <2> QED
    BY <2>2, <2>3
<1> QED
  BY <1>5, <1>6

--------------------------------------------------------------------------------
(* What the table will hold when the World has come to a place in the ring.*)

\* ResidentAt of any table and ring.
Installs(r, id, k) == {j \in 1 .. k - 1 : r[j].op \in {"define", "freedef"} /\ r[j].id = id}
Latest(A) == CHOOSE j \in A : \A i \in A : i <= j
Resident(t, r, id, k) ==
    LET A == Installs(r, id, k)
    IN  IF A = {} THEN t[id] ELSE IF r[Latest(A)].op = "define" THEN r[Latest(A)].def ELSE NIL

\* What a command makes of what the table holds under an id.
After(c, id, d) == IF c.op = "define" /\ c.id = id THEN c.def
                   ELSE IF c.op = "freedef" /\ c.id = id THEN NIL ELSE d

(* Before the first command the table is as it is. *)
LEMMA ResidentFirst ==
    ASSUME NEW t, NEW r, NEW id
    PROVE  Resident(t, r, id, 1) = t[id]
<1>1. 1 .. 1 - 1 = {}
  OBVIOUS
<1> QED
  BY <1>1 DEF Resident, Installs

(* One command further. *)
LEMMA ResidentNext ==
    ASSUME NEW t, NEW r, NEW id, NEW k \in Nat \ {0}
    PROVE  Resident(t, r, id, k + 1) = After(r[k], id, Resident(t, r, id, k))
<1> DEFINE A == Installs(r, id, k)
           B == Installs(r, id, k + 1)
<1>1. (k + 1) - 1 = k /\ 1 .. k = (1 .. k - 1) \cup {k} /\ k \notin 1 .. k - 1
  OBVIOUS
<1>2. CASE r[k].op \in {"define", "freedef"} /\ r[k].id = id
  <2>1. B = A \cup {k}
    BY <1>1, <1>2 DEF Installs
  <2>2. \A i \in B : i <= k /\ i \in Int
    BY <1>1 DEF Installs
  <2>3. \A j \in B : (\A i \in B : i <= j) => j = k
    <3> SUFFICES ASSUME NEW j \in B, \A i \in B : i <= j PROVE j = k
      OBVIOUS
    <3>1. k <= j /\ j <= k /\ j \in Int
      BY <2>1, <2>2
    <3> QED
      BY <3>1
  <2>4. k \in B /\ B # {}
    BY <2>1
  <2> HIDE DEF B
  <2>5. Latest(B) = k
    BY <2>2, <2>3, <2>4 DEF Latest
  <2>6. Resident(t, r, id, k + 1) = IF r[k].op = "define" THEN r[k].def ELSE NIL
    BY <2>4, <2>5 DEF Resident, B
  <2> QED
    BY <1>2, <2>6 DEF After
<1>3. CASE ~(r[k].op \in {"define", "freedef"} /\ r[k].id = id)
  <2>1. B = A
    BY <1>1, <1>3 DEF Installs
  <2>2. Resident(t, r, id, k + 1) = Resident(t, r, id, k)
    BY <2>1 DEF Resident
  <2> QED
    BY <1>3, <2>2 DEF After
<1> QED
  BY <1>2, <1>3

(* It looks at no command from its place on.                               *)
LEMMA ResidentPrefix ==
    ASSUME NEW t, NEW r, NEW q, NEW id, NEW k \in Nat, \A j \in 1 .. k - 1 : q[j] = r[j]
    PROVE  Resident(t, q, id, k) = Resident(t, r, id, k)
<1> DEFINE A == Installs(r, id, k)
           last == Latest(A)
<1>1. Installs(q, id, k) = A /\ \A j \in A : j \in 1 .. k - 1
  BY DEF Installs
<1> HIDE DEF A
<1>2. CASE A = {}
  BY <1>1, <1>2 DEF Resident, A
<1>3. CASE A # {}
  <2> DEFINE T == {n \in Nat : \E j \in A : j = k - 1 - n}
  <2>1. \A j \in A : j \in Nat /\ j <= k - 1 /\ k - 1 - j \in Nat /\ k - 1 - (k - 1 - j) = j
    BY <1>1
  <2>2. T # {} /\ T \in SUBSET Nat
    <3>1. PICK j \in A : TRUE
      BY <1>3
    <3>2. k - 1 - j \in T
      BY <2>1, <3>1
    <3> QED
      BY <3>2
  <2>3. PICK n \in T : \A m \in T : n <= m
    <3> HIDE DEF T
    <3> QED
      BY <2>2, LeastNat
  <2>4. PICK j \in A : j = k - 1 - n
    OBVIOUS
  <2>5. \A i \in A : i <= j
    <3> TAKE i \in A
    <3>1. k - 1 - i \in T
      BY <2>1
    <3>2. n <= k - 1 - i /\ n \in Nat
      BY <2>3, <3>1
    <3> QED
      BY <2>1, <2>4, <3>2
  <2>6. last \in A
    BY <2>5 DEF Latest
  <2> HIDE DEF last
  <2>7. q[last] = r[last]
    BY <1>1, <2>6
  <2> QED
    BY <1>1, <1>3, <2>7 DEF Resident, last, A
<1> QED
  BY <1>2, <1>3

(* The World takes the first command.                                      *)
LEMMA ResidentTail ==
    ASSUME NEW r \in Seq(Commands), r # <<>>, NEW t, NEW u, NEW id,
           u[id] = After(Head(r), id, t[id])
    PROVE  \A k \in 1 .. Len(r) : Resident(u, Tail(r), id, k) = Resident(t, r, id, k + 1)
<1> DEFINE n == Len(r)
           T == {k \in Nat : k + 1 <= n => Resident(u, Tail(r), id, k + 1) = Resident(t, r, id, (k + 1) + 1)}
<1>1. /\ n \in Nat /\ n >= 1 /\ Head(r) = r[1] /\ Len(Tail(r)) = n - 1
      /\ \A k \in 1 .. n - 1 : Tail(r)[k] = r[k + 1]
  OBVIOUS
<1>2. 0 \in T
  <2>1. Resident(u, Tail(r), id, 1) = u[id] /\ Resident(t, r, id, 1) = t[id]
    BY ResidentFirst
  <2>2. Resident(t, r, id, 1 + 1) = After(r[1], id, Resident(t, r, id, 1))
    BY ResidentNext
  <2>3. 0 + 1 = 1
    OBVIOUS
  <2> QED
    BY <1>1, <2>1, <2>2, <2>3
<1>3. ASSUME NEW k \in Nat, k \in T PROVE k + 1 \in T
  <2> SUFFICES ASSUME (k + 1) + 1 <= n
               PROVE  Resident(u, Tail(r), id, (k + 1) + 1) = Resident(t, r, id, ((k + 1) + 1) + 1)
    OBVIOUS
  <2>1. Resident(u, Tail(r), id, k + 1) = Resident(t, r, id, (k + 1) + 1)
    BY <1>1, <1>3
  <2>2. k + 1 \in Nat \ {0} /\ (k + 1) + 1 \in Nat \ {0} /\ k + 1 \in 1 .. n - 1
    BY <1>1
  <2>3. Resident(u, Tail(r), id, (k + 1) + 1) = After(Tail(r)[k + 1], id, Resident(u, Tail(r), id, k + 1))
    BY <2>2, ResidentNext
  <2>4. Resident(t, r, id, ((k + 1) + 1) + 1) = After(r[(k + 1) + 1], id, Resident(t, r, id, (k + 1) + 1))
    BY <2>2, ResidentNext
  <2>5. Tail(r)[k + 1] = r[(k + 1) + 1]
    BY <1>1, <2>2
  <2> QED
    BY <2>1, <2>3, <2>4, <2>5
<1>4. Nat \subseteq T
  <2> HIDE DEF T
  <2> QED
    BY <1>2, <1>3, Induct
<1> SUFFICES ASSUME NEW k \in 1 .. n PROVE Resident(u, Tail(r), id, k) = Resident(t, r, id, k + 1)
  OBVIOUS
<1>5. k - 1 \in Nat /\ (k - 1) + 1 = k /\ k <= n
  BY <1>1
<1>6. k - 1 \in T
  <2> HIDE DEF T
  <2> QED
    BY <1>4, <1>5
<1> QED
  BY <1>5, <1>6

(* Every creation in a ring r finds the definition it was made from; what  *)
(* an id means at the end of the ring.                                     *)
Creates(t, r) ==
    \A k \in 1 .. Len(r) :
        r[k].op = "add" /\ r[k].time = NIL =>
            Resident(t, r, r[k].id, k) = r[k].meant /\ r[k].aux = r[k].meant.slots
AtEnd(t, r, id) == Resident(t, r, id, Len(r) + 1)

\* A compiled name's id means its definition to a creation sent now.
ReadyInv ==
    \A n \in Names : compiled[n] # NIL =>
        AtEnd(table, ring, defIds[n]) = compiled[n] /\ poolSlots[defIds[n]] = compiled[n].slots

IdsInv == DefTypes /\ OwnersInv /\ ReadyInv /\ Creates(table, ring)

(* A push.                                                                 *)
LEMMA PushMeans ==
    ASSUME NEW r \in Seq(Commands), NEW c \in Commands, NEW t, Creates(t, r),
           c.op = "add" /\ c.time = NIL => AtEnd(t, r, c.id) = c.meant /\ c.aux = c.meant.slots
    PROVE  /\ Creates(t, Append(r, c))
           /\ \A id : AtEnd(t, Append(r, c), id) = After(c, id, AtEnd(t, r, id))
<1> DEFINE q == Append(r, c)
           n == Len(r)
<1>1. /\ n \in Nat /\ Len(q) = n + 1 /\ q[n + 1] = c
      /\ \A k \in 1 .. n : q[k] = r[k]
  OBVIOUS
<1> HIDE DEF q
<1>2. \A id : \A k \in 1 .. n + 1 : Resident(t, q, id, k) = Resident(t, r, id, k)
  <2> TAKE id
  <2> TAKE k \in 1 .. n + 1
  <2>1. k \in Nat /\ \A j \in 1 .. k - 1 : q[j] = r[j]
    BY <1>1
  <2> QED
    BY <2>1, ResidentPrefix
<1>3. n + 1 \in Nat \ {0} /\ n + 1 \in 1 .. n + 1
  BY <1>1
<1>4. \A id : AtEnd(t, q, id) = After(c, id, AtEnd(t, r, id))
  <2> TAKE id
  <2>1. Resident(t, q, id, (n + 1) + 1) = After(q[n + 1], id, Resident(t, q, id, n + 1))
    BY <1>3, ResidentNext
  <2> QED
    BY <1>1, <1>2, <1>3, <2>1 DEF AtEnd
<1>5. Creates(t, q)
  <2> SUFFICES ASSUME NEW k \in 1 .. n + 1, q[k].op = "add", q[k].time = NIL
               PROVE  Resident(t, q, q[k].id, k) = q[k].meant /\ q[k].aux = q[k].meant.slots
    BY <1>1 DEF Creates
  <2>1. Resident(t, q, q[k].id, k) = Resident(t, r, q[k].id, k)
    BY <1>2
  <2>2. CASE k = n + 1
    BY <1>1, <2>1, <2>2 DEF AtEnd
  <2>3. CASE k \in 1 .. n
    <3>1. q[k] = r[k]
      BY <1>1, <2>3
    <3> QED
      BY <2>1, <2>3, <3>1 DEF Creates
  <2> QED
    BY <1>1, <2>2, <2>3
<1> QED
  BY <1>4, <1>5 DEF q

(* What the World's step does to the table, the ring's first command does. *)
LEMMA WorldTable ==
    ASSUME DefTypes, WorldStep
    PROVE  \/ ring' = ring /\ table' = table
           \/ /\ ring # <<>> /\ ring' = Tail(ring)
              /\ \A id \in Ids : table'[id] = After(Head(ring), id, table[id])
<1>0. ring \in Seq(Commands) /\ table \in [Ids -> Defs \cup {NIL}]
  BY DEF DefTypes, RtTypes
<1>1. \/ ring' = ring /\ table' = table
      \/ /\ ring # <<>> /\ ring' = Tail(ring)
         /\ \/ Head(ring).time # NIL /\ table' = table
            \/ Apply(Head(ring))
            \/ Head(ring).op = "clear" /\ table' = table
      \/ \E cmd \in Timeable : Apply(cmd) /\ ring' = ring
  BY WorldTakes
<1>2. ASSUME NEW cmd \in Timeable PROVE cmd.op \in {"free", "add"}
  BY DEF Timeable, FreeCmds, AddCmds
<1>3. ASSUME NEW cmd \in Commands, Apply(cmd), NEW id \in Ids
      PROVE  table'[id] = After(cmd, id, table[id])
  <2>1. CASE cmd.op = "define" /\ SetTable(cmd.id, cmd.def)
    BY <1>0, <2>1 DEF SetTable, After
  <2>2. CASE cmd.op = "freedef" /\ SetTable(cmd.id, NIL)
    BY <1>0, <2>2 DEF SetTable, After
  <2>3. CASE cmd.op \in {"free", "add"} /\ UNCHANGED table
    BY <2>3 DEF After
  <2> QED
    BY <1>3, <2>1, <2>2, <2>3 DEF Apply
<1>4. ASSUME NEW cmd \in Timeable, Apply(cmd) PROVE table' = table
  BY <1>2, <1>4 DEF Apply
<1>5. CASE ring # <<>> /\ ring' = Tail(ring)
  <2> DEFINE c == Head(ring)
  <2>1. c \in Commands
    BY <1>0, <1>5
  <2> HIDE DEF c
  <2>2. c.time # NIL => c.op \in {"free", "add"}
    BY <1>2, <2>1, WaitsInTime DEF Waiting
  <2>3. table' = table /\ c.op \in {"free", "add", "clear"} => \A id \in Ids : table'[id] = After(c, id, table[id])
    BY DEF After
  <2>4. CASE ring' = ring
    <3>1. Len(Tail(ring)) # Len(ring)
      BY <1>0, <1>5
    <3> QED
      BY <1>5, <2>4, <3>1
  <2>5. CASE \/ c.time # NIL /\ table' = table
             \/ Apply(c)
             \/ c.op = "clear" /\ table' = table
    <3>1. \A id \in Ids : table'[id] = After(c, id, table[id])
      BY <1>3, <2>1, <2>2, <2>3, <2>5
    <3> QED
      BY <1>5, <3>1 DEF c
  <2> QED
    BY <1>1, <2>4, <2>5 DEF c
<1> QED
  BY <1>1, <1>4, <1>5

(* The audio thread's steps keep one definition to an id. *)
LEMMA WorldIds ==
    ASSUME IdsInv, WorldStep
    PROVE  IdsInv'
<1>0. /\ DefTypes /\ ring \in Seq(Commands) /\ defIds \in [Names -> Ids \cup {NIL}]
      /\ \A n \in Names : compiled[n] # NIL => defIds[n] # NIL
  BY DEF IdsInv, DefTypes, CtlTypes
<1>1. DefTypes' /\ UNCHANGED ctl
  BY <1>0, WorldTakes
<1>2. UNCHANGED <<compiled, defIds, freeIds, retiring, nextDefId, poolSlots>>
  BY <1>1 DEF ctl
<1>3. OwnersInv'
  BY <1>2 DEF IdsInv, OwnersInv
<1>4. CASE ring' = ring /\ table' = table
  BY <1>1, <1>2, <1>3, <1>4 DEF IdsInv, ReadyInv
<1>5. CASE /\ ring # <<>> /\ ring' = Tail(ring)
           /\ \A id \in Ids : table'[id] = After(Head(ring), id, table[id])
  <2> DEFINE n == Len(ring)
  <2>1. \A id \in Ids : \A k \in 1 .. n : Resident(table', ring', id, k) = Resident(table, ring, id, k + 1)
    <3> TAKE id \in Ids
    <3>1. table'[id] = After(Head(ring), id, table[id])
      BY <1>5
    <3>2. ring \in Seq(Commands) /\ ring # <<>>
      BY <1>0, <1>5
    <3>3. \A k \in 1 .. Len(ring) : Resident(table', Tail(ring), id, k) = Resident(table, ring, id, k + 1)
      <4> DEFINE tp == table'
      <4>1. \A t, u : u[id] = After(Head(ring), id, t[id]) =>
               \A k \in 1 .. Len(ring) : Resident(u, Tail(ring), id, k) = Resident(t, ring, id, k + 1)
        BY <3>2, ResidentTail
      <4>2. tp[id] = After(Head(ring), id, table[id])
        BY <3>1
      <4> HIDE DEF tp
      <4>3. \A k \in 1 .. Len(ring) : Resident(tp, Tail(ring), id, k) = Resident(table, ring, id, k + 1)
        BY <4>1, <4>2, Zenon
      <4> QED
        BY <4>3 DEF tp
    <3> QED
      BY <1>5, <3>3
  <2>2. /\ n \in 1 .. n /\ Len(ring') + 1 = n
        /\ \A k \in 1 .. Len(ring') : ring'[k] = ring[k + 1] /\ k + 1 \in 1 .. n /\ k \in 1 .. n
    BY <1>0, <1>5
  <2>3. \A id \in Ids : AtEnd(table', ring', id) = AtEnd(table, ring, id)
    BY <2>1, <2>2 DEF AtEnd
  <2>4. ReadyInv'
    <3> SUFFICES ASSUME NEW m \in Names, compiled[m] # NIL
                 PROVE  AtEnd(table', ring', defIds[m]) = compiled[m] /\ poolSlots[defIds[m]] = compiled[m].slots
      BY <1>2 DEF ReadyInv
    <3>1. defIds[m] \in Ids
      BY <1>0
    <3> QED
      BY <2>3, <3>1 DEF IdsInv, ReadyInv
  <2>5. Creates(table', ring')
    <3> SUFFICES ASSUME NEW k \in 1 .. Len(ring'), ring'[k].op = "add", ring'[k].time = NIL
                 PROVE  Resident(table', ring', ring'[k].id, k) = ring'[k].meant /\ ring'[k].aux = ring'[k].meant.slots
      BY DEF Creates
    <3> DEFINE c == ring[k + 1]
    <3>1. ring'[k] = c /\ k + 1 \in 1 .. n /\ k \in 1 .. n /\ c \in Commands
      BY <1>0, <2>2
    <3> HIDE DEF c
    <3>2. c.op = "add" /\ c.time = NIL
      BY <3>1
    <3>3. c.id \in Ids
      BY <3>1, <3>2 DEF Commands, Timeable, FreeCmds, AddCmds, GoneCmds, DefCmds, ClearCmd
    <3>4. Resident(table, ring, c.id, k + 1) = c.meant /\ c.aux = c.meant.slots
      BY <3>1, <3>2 DEF IdsInv, Creates, c
    <3>5. Resident(table', ring', c.id, k) = Resident(table, ring, c.id, k + 1)
      BY <2>1, <3>1, <3>3
    <3> QED
      BY <3>1, <3>4, <3>5
  <2> QED
    BY <1>1, <1>3, <2>4, <2>5 DEF IdsInv
<1> QED
  BY <1>0, <1>4, <1>5, WorldTable

(* Compiling keeps one definition to an id. *)
LEMMA CompileIds ==
    ASSUME IdsInv, NEW n \in Names, NEW next, CompileDef(n, next)
    PROVE  OwnersInv' /\ ReadyInv' /\ Creates(table', ring')
<1> DEFINE x == IdFor(n)
           d == [name |-> n, serial |-> compiles, slots |-> authored[n]]
           c == DefineCmd(x, d)
<1>0. /\ DefTypes /\ CtlTypes /\ ring \in Seq(Commands) /\ defIds \in [Names -> Ids \cup {NIL}]
      /\ compiled \in [Names -> Defs \cup {NIL}] /\ poolSlots \in [Ids -> Nat]
      /\ OwnersInv /\ Creates(table, ring)
  BY DEF IdsInv, DefTypes, CtlTypes
<1>1. OwnersInv' /\ \A m \in Names \ {n} : defIds[m] # x
  BY <1>0, CompileOwners
<1>2. /\ compiled[n] = NIL /\ x # NIL /\ table' = table
      /\ defIds' = [defIds EXCEPT ![n] = x]
      /\ \/ UNCHANGED <<ring, poolSlots, compiled>>
         \/ /\ ring' = Append(ring, c)
            /\ poolSlots' = [poolSlots EXCEPT ![x] = d.slots]
            /\ compiled' = [compiled EXCEPT ![n] = d]
  BY DEF CompileDef, rt
<1>3. x \in Ids
  BY <1>0, <1>2, IdForType
<1>4. d \in Defs /\ c \in Commands /\ c.op = "define" /\ c.id = x /\ c.def = d
  <2>1. d \in Defs
    BY <1>0 DEF CompileDef, CtlTypes, Defs
  <2> HIDE DEF x, d
  <2>2. c \in Commands
    BY <1>3, <2>1 DEF DefineCmd, DefCmds, Commands
  <2>3. c.op = "define" /\ c.id = x /\ c.def = d
    BY DEF DefineCmd
  <2> HIDE DEF c
  <2> QED
    BY <2>1, <2>2, <2>3
<1> HIDE DEF x, d, c
<1>5. defIds'[n] = x /\ \A m \in Names \ {n} : defIds'[m] = defIds[m]
  BY <1>0, <1>2
<1>6. CASE UNCHANGED <<ring, poolSlots, compiled>>
  <2>1. ReadyInv'
    BY <1>2, <1>5, <1>6 DEF IdsInv, ReadyInv
  <2> QED
    BY <1>0, <1>1, <1>2, <1>6, <2>1
<1>7. CASE /\ ring' = Append(ring, c)
           /\ poolSlots' = [poolSlots EXCEPT ![x] = d.slots]
           /\ compiled' = [compiled EXCEPT ![n] = d]
  <2>1. /\ Creates(table', ring')
        /\ \A id : AtEnd(table', ring', id) = After(c, id, AtEnd(table, ring, id))
    BY <1>0, <1>2, <1>4, <1>7, PushMeans
  <2>2. /\ compiled'[n] = d /\ \A m \in Names \ {n} : compiled'[m] = compiled[m]
        /\ poolSlots'[x] = d.slots /\ \A i \in Ids \ {x} : poolSlots'[i] = poolSlots[i]
    BY <1>0, <1>3, <1>7
  <2>3. ReadyInv'
    <3> SUFFICES ASSUME NEW m \in Names, compiled'[m] # NIL
                 PROVE  AtEnd(table', ring', defIds'[m]) = compiled'[m] /\ poolSlots'[defIds'[m]] = compiled'[m].slots
      BY DEF ReadyInv
    <3>1. CASE m = n
      BY <1>4, <1>5, <2>1, <2>2, <3>1 DEF After
    <3>2. CASE m # n
      <4>1. compiled[m] # NIL /\ defIds'[m] = defIds[m] /\ defIds[m] \in Ids \ {x} /\ compiled'[m] = compiled[m]
        BY <1>0, <1>1, <1>5, <2>2, <3>2 DEF CtlTypes
      <4>2. AtEnd(table, ring, defIds[m]) = compiled[m] /\ poolSlots[defIds[m]] = compiled[m].slots
        BY <4>1 DEF IdsInv, ReadyInv
      <4>3. After(c, defIds[m], AtEnd(table, ring, defIds[m])) = AtEnd(table, ring, defIds[m])
        BY <1>4, <4>1 DEF After
      <4> QED
        BY <2>1, <2>2, <4>1, <4>2, <4>3
    <3> QED
      BY <3>1, <3>2
  <2> QED
    BY <1>1, <2>1, <2>3
<1> QED
  BY <1>2, <1>6, <1>7

(* A call that leaves names, ids and the list alone and pushes nothing, a  *)
(* command that touches no id, or two of them.                             *)
LEMMA SendIds ==
    ASSUME IdsInv, UNCHANGED <<compiled, defIds, freeIds, retiring, nextDefId, poolSlots, table>>,
           NEW Sent, Sent = {c \in Commands :
                 /\ c.op \notin {"define", "freedef"}
                 /\ c.op = "add" /\ c.time = NIL =>
                       AtEnd(table, ring, c.id) = c.meant /\ c.aux = c.meant.slots},
           \/ ring' = ring
           \/ \E c \in Sent : ring' = Append(ring, c)
           \/ \E c, e \in Sent : ring' = ring \o <<c, e>>
    PROVE  OwnersInv' /\ ReadyInv' /\ Creates(table', ring')
<1>0. /\ DefTypes /\ ring \in Seq(Commands) /\ OwnersInv /\ ReadyInv /\ Creates(table, ring)
  BY DEF IdsInv, DefTypes
<1>1. OwnersInv'
  BY <1>0 DEF OwnersInv
<1>2. ASSUME \A id : AtEnd(table, ring', id) = AtEnd(table, ring, id), Creates(table, ring')
      PROVE  ReadyInv' /\ Creates(table', ring')
  BY <1>0, <1>2 DEF ReadyInv
<1>3. ASSUME NEW c \in Sent
      PROVE  /\ Append(ring, c) \in Seq(Commands) /\ Creates(table, Append(ring, c))
             /\ \A id : AtEnd(table, Append(ring, c), id) = AtEnd(table, ring, id)
  <2>1. c \in Commands /\ Append(ring, c) \in Seq(Commands)
    BY <1>0
  <2>2. /\ Creates(table, Append(ring, c))
        /\ \A id : AtEnd(table, Append(ring, c), id) = After(c, id, AtEnd(table, ring, id))
    BY <1>0, <2>1, PushMeans
  <2>3. \A id, d : After(c, id, d) = d
    <3>1. c.op \notin {"define", "freedef"}
      OBVIOUS
    <3> QED
      BY <3>1 DEF After
  <2> QED
    BY <2>1, <2>2, <2>3
<1>4. CASE ring' = ring
  BY <1>0, <1>1, <1>2, <1>4
<1>5. ASSUME NEW c \in Sent, ring' = Append(ring, c)
      PROVE  ReadyInv' /\ Creates(table', ring')
  BY <1>2, <1>3, <1>5
<1>6. ASSUME NEW c \in Sent, NEW e \in Sent, ring' = ring \o <<c, e>>
      PROVE  ReadyInv' /\ Creates(table', ring')
  <2> DEFINE q == Append(ring, c)
  <2>1. /\ q \in Seq(Commands) /\ Creates(table, q)
        /\ \A id : AtEnd(table, q, id) = AtEnd(table, ring, id)
    BY <1>3
  <2>2. ring' = Append(q, e)
    BY <1>0, <1>6
  <2> HIDE DEF q
  <2>3. e \in Commands /\ (e.op = "add" /\ e.time = NIL => AtEnd(table, q, e.id) = e.meant /\ e.aux = e.meant.slots)
    BY <2>1
  <2>4. /\ Creates(table, Append(q, e))
        /\ \A id : AtEnd(table, Append(q, e), id) = After(e, id, AtEnd(table, q, id))
    BY <2>1, <2>3, PushMeans
  <2>5. \A id, d : After(e, id, d) = d
    <3>1. e.op \notin {"define", "freedef"}
      OBVIOUS
    <3> QED
      BY <3>1 DEF After
  <2> QED
    BY <1>2, <2>1, <2>2, <2>4, <2>5
<1> QED
  BY <1>1, <1>4, <1>5, <1>6

(* The controller's calls do. *)
LEMMA ControllerIds ==
    ASSUME IdsInv,
           \/ ReapRetiredDefs
           \/ \E n \in Names, s \in SlotCounts : InsertDef(n, s)
           \/ \E n \in Names : FreeDef(n) \/ EnsureCompiled(n)
           \/ \E n \in Names, node \in Nodes : SynthNew(n, node)
           \/ SynthNewSend
           \/ \E n \in Names, gone, node \in Nodes : TrySendBatch(gone, n, node)
           \/ ClearSched
           \/ \E node \in Nodes : FreeNode(node)
           \/ \E t \in Times : BeginScheduled(t)
           \/ EndScheduled
    PROVE  OwnersInv' /\ ReadyInv' /\ Creates(table', ring')
<1>0. /\ DefTypes /\ CtlTypes /\ ring \in Seq(Commands) /\ defIds \in [Names -> Ids \cup {NIL}]
      /\ compiled \in [Names -> Defs \cup {NIL}] /\ retiring \in Seq(Entries) /\ freeIds \in Seq(Ids)
      /\ OwnersInv /\ ReadyInv /\ Creates(table, ring)
  BY DEF IdsInv, DefTypes, CtlTypes
<1> DEFINE Sent == {c \in Commands :
                 /\ c.op \notin {"define", "freedef"}
                 /\ c.op = "add" /\ c.time = NIL =>
                       AtEnd(table, ring, c.id) = c.meant /\ c.aux = c.meant.slots}
           Same == UNCHANGED <<compiled, defIds, freeIds, retiring, nextDefId, poolSlots, table>>
<1>s. ASSUME Same,
             \/ ring' = ring
             \/ \E c \in Sent : ring' = Append(ring, c)
             \/ \E c, e \in Sent : ring' = ring \o <<c, e>>
      PROVE  OwnersInv' /\ ReadyInv' /\ Creates(table', ring')
  BY <1>s, SendIds
<1>1. CASE ReapRetiredDefs
  <2>1. /\ Reap(retiring, freeIds)
        /\ nextDefId' = nextDefId /\ defIds' = defIds
        /\ UNCHANGED <<compiled, poolSlots, table, ring>>
    BY <1>1 DEF ReapRetiredDefs, rt
  <2>2. OwnersInv'
    BY <1>0, <2>1, OwnersByReap
  <2>3. ReadyInv' /\ Creates(table', ring')
    BY <1>0, <2>1 DEF ReadyInv
  <2> QED
    BY <2>2, <2>3
<1>2. ASSUME NEW n \in Names, NEW s \in SlotCounts, InsertDef(n, s)
      PROVE  OwnersInv' /\ ReadyInv' /\ Creates(table', ring')
  <2>1. /\ compiled' = [compiled EXCEPT ![n] = NIL]
        /\ UNCHANGED <<defIds, poolSlots, table, ring>>
    BY <1>2 DEF InsertDef, rt
  <2>2. OwnersInv'
    BY <1>0, <1>2, InsertOwners
  <2>3. \A m \in Names : compiled'[m] # NIL => compiled'[m] = compiled[m]
    BY <1>0, <2>1
  <2>4. ReadyInv' /\ Creates(table', ring')
    BY <1>0, <2>1, <2>3 DEF ReadyInv
  <2> QED
    BY <2>2, <2>4
<1>3. ASSUME NEW n \in Names, FreeDef(n)
      PROVE  OwnersInv' /\ ReadyInv' /\ Creates(table', ring')
  <2> DEFINE x == defIds[n]
             c == FreeDefCmd(x)
  <2>1. /\ compiled' = [compiled EXCEPT ![n] = NIL]
        /\ defIds' = [defIds EXCEPT ![n] = NIL]
        /\ UNCHANGED <<poolSlots, table>>
        /\ ring' = IF x = NIL THEN ring ELSE Append(ring, c)
    BY <1>3 DEF FreeDef, rt
  <2>2. OwnersInv'
    BY <1>0, <1>3, FreeOwners
  <2>3. \A m \in Names : compiled'[m] # NIL => m # n /\ compiled'[m] = compiled[m] /\ defIds'[m] = defIds[m]
    BY <1>0, <2>1
  <2>4. x # NIL => \A m \in Names \ {n} : defIds[m] # x
    BY <1>0, OneOwner
  <2>5. x # NIL => c \in Commands
    BY <1>0 DEF FreeDefCmd, GoneCmds, Commands
  <2>6. c.op = "freedef" /\ c.id = x
    BY DEF FreeDefCmd
  <2> HIDE DEF x, c
  <2>7. /\ Creates(table', ring')
        /\ \A id : id # x => AtEnd(table', ring', id) = AtEnd(table, ring, id)
    <3>1. CASE x = NIL
      BY <1>0, <2>1, <3>1
    <3>2. CASE x # NIL
      <4>1. /\ Creates(table, Append(ring, c))
            /\ \A id : AtEnd(table, Append(ring, c), id) = After(c, id, AtEnd(table, ring, id))
        BY <1>0, <2>5, <2>6, <3>2, PushMeans
      <4>2. \A id, d : id # x => After(c, id, d) = d
        BY <2>6 DEF After
      <4> QED
        BY <2>1, <3>2, <4>1, <4>2
    <3> QED
      BY <3>1, <3>2
  <2>8. ReadyInv'
    <3> SUFFICES ASSUME NEW m \in Names, compiled'[m] # NIL
                 PROVE  AtEnd(table', ring', defIds'[m]) = compiled'[m] /\ poolSlots'[defIds'[m]] = compiled'[m].slots
      BY DEF ReadyInv
    <3>1. m # n /\ compiled'[m] = compiled[m] /\ defIds'[m] = defIds[m] /\ compiled[m] # NIL
      BY <2>3
    <3>2. defIds[m] # x
      <4>1. defIds[m] # NIL
        BY <1>0, <3>1 DEF CtlTypes
      <4> QED
        BY <2>4, <3>1, <4>1
    <3> QED
      BY <1>0, <2>1, <2>7, <3>1, <3>2 DEF ReadyInv
  <2> QED
    BY <2>2, <2>7, <2>8
<1>4. ASSUME NEW n \in Names, EnsureCompiled(n)
      PROVE  OwnersInv' /\ ReadyInv' /\ Creates(table', ring')
  BY <1>4, CompileIds DEF EnsureCompiled
<1>5. ASSUME NEW n \in Names, NEW node \in Nodes, SynthNew(n, node)
      PROVE  OwnersInv' /\ ReadyInv' /\ Creates(table', ring')
  <2>1. CASE CompileDef(n, [name |-> n, node |-> node])
    BY <2>1, CompileIds
  <2>2. CASE Same /\ ring' = ring
    BY <1>s, <2>2
  <2> QED
    BY <1>5, <2>1, <2>2 DEF SynthNew, rt
<1>6. ASSUME NEW n \in Names, compiled[n] # NIL, NEW node \in Nodes
      PROVE  /\ AddCmd(node, defIds[n], compiled[n].slots, compiled[n], schedule) \in Sent
             /\ poolSlots[defIds[n]] = compiled[n].slots
  <2> DEFINE c == AddCmd(node, defIds[n], compiled[n].slots, compiled[n], schedule)
  <2>1. compiled[n].slots \in Nat
    BY <1>0, <1>6 DEF Defs
  <2>2. c \in Commands
    BY <1>0, <1>6, <2>1, CommandTypes
  <2>3. c.op = "add" /\ c.id = defIds[n] /\ c.meant = compiled[n] /\ c.aux = compiled[n].slots
    BY DEF AddCmd
  <2>4. AtEnd(table, ring, defIds[n]) = compiled[n] /\ poolSlots[defIds[n]] = compiled[n].slots
    BY <1>0, <1>6 DEF ReadyInv
  <2> HIDE DEF c
  <2>5. c \in Sent
    BY <2>2, <2>3, <2>4
  <2> QED
    BY <2>4, <2>5 DEF c
<1>7. ASSUME NEW node \in Nodes PROVE FreeCmd(node, schedule) \in Sent
  <2>1. FreeCmd(node, schedule) \in Commands /\ FreeCmd(node, schedule).op = "free"
    BY <1>0, FreeType DEF FreeCmd
  <2> QED
    BY <2>1
<1>8. ClearCmd \in Sent
  BY DEF ClearCmd, Commands
<1> HIDE DEF Sent
<1>9. CASE SynthNewSend
  <2>1. call.name \in Names /\ call.node \in Nodes /\ compiled[call.name] # NIL
    BY <1>0, <1>9 DEF SynthNewSend, CtlTypes
  <2>2. AddCmd(call.node, defIds[call.name], compiled[call.name].slots, compiled[call.name], schedule) \in Sent
    BY <1>6, <2>1
  <2>3. Same
    BY <1>9 DEF SynthNewSend, rt
  <2>4. \/ ring' = ring
        \/ ring' = Append(ring, AddCmd(call.node, defIds[call.name], compiled[call.name].slots,
                                       compiled[call.name], schedule))
    BY <1>9 DEF SynthNewSend
  <2> QED
    BY <1>s, <2>2, <2>3, <2>4
<1>10. ASSUME NEW n \in Names, NEW gone \in Nodes, NEW node \in Nodes, TrySendBatch(gone, n, node)
       PROVE  OwnersInv' /\ ReadyInv' /\ Creates(table', ring')
  <2> DEFINE c == FreeCmd(gone, schedule)
             e == AddCmd(node, defIds[n], poolSlots[defIds[n]], compiled[n], schedule)
  <2>1. compiled[n] # NIL /\ ring' = ring \o <<c, e>> /\ Same
    BY <1>10 DEF TrySendBatch, ctl, rt
  <2>2. c \in Sent
    BY <1>7
  <2>3. e \in Sent
    <3>1. poolSlots[defIds[n]] = compiled[n].slots
      BY <1>6, <2>1
    <3> QED
      BY <1>6, <2>1, <3>1
  <2> HIDE DEF c, e
  <2> QED
    BY <1>s, <2>1, <2>2, <2>3
<1>11. ASSUME NEW c \in Sent, Send(c)
       PROVE  OwnersInv' /\ ReadyInv' /\ Creates(table', ring')
  <2>1. ring' = Append(ring, c) /\ Same
    BY <1>11 DEF Send, ctl, rt
  <2> QED
    BY <1>s, <1>11, <2>1
<1>12. CASE ClearSched
  BY <1>8, <1>11, <1>12 DEF ClearSched
<1>13. ASSUME NEW node \in Nodes, FreeNode(node)
       PROVE  OwnersInv' /\ ReadyInv' /\ Creates(table', ring')
  BY <1>7, <1>11, <1>13 DEF FreeNode
<1>14. ASSUME NEW t \in Times, BeginScheduled(t)
       PROVE  OwnersInv' /\ ReadyInv' /\ Creates(table', ring')
  <2>1. ring' = ring /\ Same
    BY <1>14 DEF BeginScheduled, rt
  <2> QED
    BY <1>s, <2>1
<1>15. CASE EndScheduled
  <2>1. ring' = ring /\ Same
    BY <1>15 DEF EndScheduled, rt
  <2> QED
    BY <1>s, <2>1
<1> QED
  BY <1>1, <1>2, <1>3, <1>4, <1>5, <1>9, <1>10, <1>12, <1>13, <1>14, <1>15

(* One definition to an id at the start. *)
LEMMA InitIds == Init => IdsInv
<1> SUFFICES ASSUME Init PROVE IdsInv
  OBVIOUS
<1>1. DefTypes
  BY InitTypes
<1>2. OwnersInv
  <2>0. \A id \in Ids : ~(id < nextDefId)
    BY Constants DEF Init, Ids
  <2> SUFFICES ASSUME NEW id \in Ids
               PROVE  Cardinality(NamesOf(defIds, id)) + Tally(freeIds, {id}) + Tally(retiring, With(id)) = 0
    BY <2>0 DEF OwnersInv
  <2>1. NamesOf(defIds, id) = {}
    BY Constants DEF Init, NamesOf
  <2>2. Cardinality(NamesOf(defIds, id)) = 0
    BY <2>1, FS_EmptySet
  <2>3. Tally(freeIds, {id}) = 0 /\ Tally(retiring, With(id)) = 0
    BY TallyEmpty DEF Init
  <2> QED
    BY <2>2, <2>3
<1>3. ReadyInv
  BY DEF Init, ReadyInv
<1>4. Creates(table, ring)
  BY DEF Init, Creates
<1> QED
  BY <1>1, <1>2, <1>3, <1>4 DEF IdsInv

--------------------------------------------------------------------------------
(* Creations that wait for their time.                                     *)

\* From its place k on, a creation meets its definition wherever it comes to
\* be applied.
Meets(t, r, c, k) == \A j \in k .. Len(r) + 1 : Resident(t, r, c.id, j) = c.meant

\* What a creation at place k owes to its name while its definition stands.
Means(comp, ids, cs, t, r, c, k) ==
    c.op = "add" =>
        /\ c.meant.serial < cs /\ c.aux = c.meant.slots
        /\ comp[c.meant.name] = c.meant => c.id = ids[c.meant.name] /\ Meets(t, r, c, k)

Meaning(comp, ids, cs, t, r) == {c \in Waiting : Means(comp, ids, cs, t, r, c, 1)}

\* Every creation does, in the ring and in the heap; a compiled form carries
\* its name, and a serial number that was given out.
Later(comp, ids, cs, t, r, s) ==
    /\ \A n \in Names : comp[n] # NIL => comp[n].name = n /\ comp[n].serial < cs
    /\ \A k \in 1 .. Len(r) : Means(comp, ids, cs, t, r, r[k], k)
    /\ s \in Seq(Meaning(comp, ids, cs, t, r))

LaterInv == Later(compiled, defIds, compiles, table, ring, sched)

(* A creation's fields. *)
LEMMA AddFields ==
    ASSUME NEW c \in Commands, c.op = "add"
    PROVE  /\ c.id \in Ids /\ c.meant \in Defs /\ c.meant # NIL
           /\ c.meant.name \in Names /\ c.meant.serial \in Nat
<1>1. c \in AddCmds
  BY DEF Commands, Timeable, FreeCmds, AddCmds, GoneCmds, DefCmds, ClearCmd
<1>2. c.id \in Ids /\ c.meant \in Defs
  BY <1>1 DEF AddCmds
<1> QED
  BY <1>2, Constants DEF Defs

(* A list of members of a set is one of any larger set. *)
LEMMA SeqGrows ==
    ASSUME NEW A, NEW B, A \subseteq B, NEW s \in Seq(A)
    PROVE  s \in Seq(B)
<1>1. Len(s) \in Nat /\ \A k \in 1 .. Len(s) : s[k] \in B
  OBVIOUS
<1>2. s = [k \in 1 .. Len(s) |-> s[k]]
  OBVIOUS
<1> DEFINE m == Len(s)
<1>3. [k \in 1 .. m |-> s[k]] \in [1 .. m -> B]
  BY <1>1
<1>4. m \in Nat
  BY <1>1
<1> HIDE DEF m
<1>5. [1 .. m -> B] \subseteq Seq(B)
  BY <1>4
<1> QED
  BY <1>2, <1>3, <1>5 DEF m

(* A push that leaves the creation's id alone. *)
LEMMA MeetsPush ==
    ASSUME NEW r \in Seq(Commands), NEW c \in Commands, NEW t, NEW a, NEW k \in Nat \ {0},
           k <= Len(r) + 1, Meets(t, r, a, k),
           c.op \in {"define", "freedef"} => c.id # a.id
    PROVE  Meets(t, Append(r, c), a, k)
<1> DEFINE q == Append(r, c)
           n == Len(r)
<1>1. /\ n \in Nat /\ Len(q) = n + 1 /\ q[n + 1] = c
      /\ \A j \in 1 .. n : q[j] = r[j]
  OBVIOUS
<1> HIDE DEF q
<1>2. \A j \in k .. n + 1 : Resident(t, q, a.id, j) = a.meant
  <2> TAKE j \in k .. n + 1
  <2>1. j \in Nat /\ \A i \in 1 .. j - 1 : q[i] = r[i]
    BY <1>1
  <2>2. Resident(t, q, a.id, j) = Resident(t, r, a.id, j)
    BY <2>1, ResidentPrefix
  <2> QED
    BY <2>2 DEF Meets
<1>3. Resident(t, q, a.id, (n + 1) + 1) = a.meant
  <2>1. n + 1 \in Nat \ {0} /\ n + 1 \in k .. n + 1
    BY <1>1
  <2>2. Resident(t, q, a.id, (n + 1) + 1) = After(q[n + 1], a.id, Resident(t, q, a.id, n + 1))
    BY <2>1, ResidentNext
  <2>3. \A d : After(c, a.id, d) = d
    BY DEF After
  <2> QED
    BY <1>1, <1>2, <2>1, <2>2, <2>3
<1>4. \A j \in k .. Len(q) + 1 : j \in k .. n + 1 \/ j = (n + 1) + 1
  BY <1>1
<1> QED
  BY <1>2, <1>3, <1>4 DEF Meets, q

(* The World takes the first command: every place moves up by one.         *)
LEMMA MeetsTail ==
    ASSUME NEW r \in Seq(Commands), r # <<>>, NEW t, NEW u, NEW a, NEW k \in Nat, NEW h \in Nat \ {0},
           u[a.id] = After(Head(r), a.id, t[a.id]), k <= h + 1, Meets(t, r, a, k)
    PROVE  Meets(u, Tail(r), a, h)
<1>1. Len(r) \in Nat /\ Len(Tail(r)) + 1 = Len(r)
  OBVIOUS
<1>2. \A j \in 1 .. Len(r) : Resident(u, Tail(r), a.id, j) = Resident(t, r, a.id, j + 1)
  BY ResidentTail
<1> SUFFICES ASSUME NEW j \in h .. Len(r) PROVE Resident(u, Tail(r), a.id, j) = a.meant
  BY <1>1 DEF Meets
<1>3. j \in 1 .. Len(r) /\ j + 1 \in k .. Len(r) + 1
  BY <1>1
<1> QED
  BY <1>2, <1>3 DEF Meets

\* Definitions given up, or compiled anew under a serial number that no
\* creation has.
Renews(comp, ids, cs, comp2, ids2, cs2) ==
    \A m \in Names : \/ comp2[m] = NIL
                     \/ comp2[m] = comp[m] /\ ids2[m] = ids[m]
                     \/ comp2[m].name = m /\ comp2[m].serial \in cs .. cs2 - 1

(* No creation loses its meaning by that. *)
LEMMA ChangeLater ==
    ASSUME NEW comp \in [Names -> Defs \cup {NIL}], NEW ids, NEW cs \in Nat, NEW t,
           NEW r \in Seq(Commands), NEW s, NEW comp2, NEW ids2, NEW cs2 \in Nat, cs <= cs2,
           Later(comp, ids, cs, t, r, s), Renews(comp, ids, cs, comp2, ids2, cs2)
    PROVE  Later(comp2, ids2, cs2, t, r, s)
<1>1. ASSUME NEW c \in Commands, NEW k, Means(comp, ids, cs, t, r, c, k)
      PROVE  Means(comp2, ids2, cs2, t, r, c, k)
  <2> SUFFICES ASSUME c.op = "add" PROVE Means(comp2, ids2, cs2, t, r, c, k)
    BY DEF Means
  <2> DEFINE d == c.meant
             m == d.name
  <2>1. d # NIL /\ m \in Names /\ d.serial \in Nat
    BY AddFields
  <2>2. /\ d.serial < cs /\ c.aux = d.slots
        /\ comp[m] = d => c.id = ids[m] /\ Meets(t, r, c, k)
    BY <1>1 DEF Means
  <2> HIDE DEF m
  <2>3. comp2[m] = d => comp2[m] = comp[m] /\ ids2[m] = ids[m]
    <3>1. comp2[m] = d => comp2[m] # NIL /\ ~(comp2[m].serial \in cs .. cs2 - 1)
      BY <2>1, <2>2
    <3> QED
      BY <2>1, <3>1 DEF Renews
  <2>4. d.serial < cs2
    BY <2>1, <2>2
  <2> QED
    BY <2>2, <2>3, <2>4 DEF Means, m
<1>2. Waiting \subseteq Commands
  BY DEF Waiting, Commands
<1>3. Meaning(comp, ids, cs, t, r) \subseteq Meaning(comp2, ids2, cs2, t, r)
  BY <1>1, <1>2 DEF Meaning
<1>4. s \in Seq(Meaning(comp2, ids2, cs2, t, r))
  BY <1>3, SeqGrows DEF Later
<1>5. \A n \in Names : comp2[n] # NIL => comp2[n].name = n /\ comp2[n].serial < cs2
  <2> SUFFICES ASSUME NEW n \in Names, comp2[n] # NIL
               PROVE  comp2[n].name = n /\ comp2[n].serial < cs2
    OBVIOUS
  <2>1. CASE comp2[n] = comp[n]
    <3>1. comp[n].name = n /\ comp[n].serial < cs /\ comp[n].serial \in Nat
      BY <2>1 DEF Later, Defs
    <3> QED
      BY <2>1, <3>1
  <2>2. CASE comp2[n].name = n /\ comp2[n].serial \in cs .. cs2 - 1
    BY <2>2
  <2> QED
    BY <2>1, <2>2 DEF Renews
<1>6. \A k \in 1 .. Len(r) : Means(comp2, ids2, cs2, t, r, r[k], k)
  <2> TAKE k \in 1 .. Len(r)
  <2>1. r[k] \in Commands /\ Means(comp, ids, cs, t, r, r[k], k)
    BY DEF Later
  <2> QED
    BY <1>1, <2>1
<1> QED
  BY <1>4, <1>5, <1>6 DEF Later

(* A push that installs nothing under the id of a name that has a compiled *)
(* form, or creates what its id means now.                                 *)
LEMMA PushLater ==
    ASSUME NEW comp, NEW ids, NEW cs, NEW t, NEW r \in Seq(Commands), NEW s,
           NEW c \in Commands, Later(comp, ids, cs, t, r, s),
           c.op \in {"define", "freedef"} => \A n \in Names : comp[n] # NIL => ids[n] # c.id,
           c.op = "add" => /\ c.meant.serial < cs /\ c.aux = c.meant.slots
                           /\ c.id = ids[c.meant.name] /\ AtEnd(t, r, c.id) = c.meant
    PROVE  Later(comp, ids, cs, t, Append(r, c), s)
<1> DEFINE q == Append(r, c)
           n == Len(r)
<1>1. /\ n \in Nat /\ Len(q) = n + 1 /\ q[n + 1] = c
      /\ \A k \in 1 .. n : q[k] = r[k] /\ r[k] \in Commands
  OBVIOUS
<1>2. ASSUME NEW a \in Commands, NEW k \in Nat \ {0}, k <= n + 1, Means(comp, ids, cs, t, r, a, k)
      PROVE  Means(comp, ids, cs, t, q, a, k)
  <2> SUFFICES ASSUME a.op = "add", comp[a.meant.name] = a.meant
               PROVE  Meets(t, q, a, k)
    BY <1>2 DEF Means
  <2>1. a.meant # NIL /\ a.meant.name \in Names
    BY AddFields
  <2>2. a.id = ids[a.meant.name] /\ Meets(t, r, a, k)
    BY <1>2 DEF Means
  <2>3. c.op \in {"define", "freedef"} => c.id # a.id
    BY <2>1, <2>2
  <2> QED
    BY <1>2, <2>2, <2>3, MeetsPush
<1>3. Means(comp, ids, cs, t, q, c, n + 1)
  <2> SUFFICES ASSUME c.op = "add" PROVE Means(comp, ids, cs, t, q, c, n + 1)
    BY DEF Means
  <2>1. n + 1 \in Nat \ {0} /\ n + 1 <= n + 1 /\ \A j \in n + 1 .. n + 1 : j = n + 1
    BY <1>1
  <2>2. Meets(t, r, c, n + 1)
    BY <2>1 DEF Meets, AtEnd
  <2>3. Means(comp, ids, cs, t, r, c, n + 1)
    BY <2>2 DEF Means
  <2> QED
    BY <1>2, <2>1, <2>3
<1>4. \A k \in 1 .. Len(q) : Means(comp, ids, cs, t, q, q[k], k)
  <2> TAKE k \in 1 .. Len(q)
  <2>1. CASE k = n + 1
    BY <1>1, <1>3, <2>1
  <2>2. CASE k \in 1 .. n
    <3>1. q[k] = r[k] /\ r[k] \in Commands /\ Means(comp, ids, cs, t, r, r[k], k)
      BY <1>1, <2>2 DEF Later
    <3>2. k \in Nat \ {0} /\ k <= n + 1
      BY <1>1, <2>2
    <3> HIDE DEF q
    <3> QED
      BY <1>2, <3>1, <3>2
  <2>3. k = n + 1 \/ k \in 1 .. n
    BY <1>1
  <2> QED
    BY <2>1, <2>2, <2>3
<1>5. s \in Seq(Meaning(comp, ids, cs, t, q))
  <2>1. Waiting \subseteq Commands
    BY DEF Waiting, Commands
  <2>2. 1 \in Nat \ {0} /\ 1 <= n + 1
    BY <1>1
  <2> HIDE DEF q
  <2>3. Meaning(comp, ids, cs, t, r) \subseteq Meaning(comp, ids, cs, t, q)
    BY <1>2, <2>1, <2>2 DEF Meaning
  <2> QED
    BY <2>3, SeqGrows DEF Later
<1> HIDE DEF q
<1>6. Later(comp, ids, cs, t, q, s)
  BY <1>4, <1>5 DEF Later
<1> QED
  BY <1>6 DEF q

(* The World takes the first command, and may keep it for its time.        *)
LEMMA TailLater ==
    ASSUME NEW comp, NEW ids, NEW cs, NEW t, NEW r \in Seq(Commands), NEW s, r # <<>>,
           Later(comp, ids, cs, t, r, s), NEW u,
           \A id \in Ids : u[id] = After(Head(r), id, t[id])
    PROVE  /\ Later(comp, ids, cs, u, Tail(r), s)
           /\ Head(r).time # NIL =>
                 Later(comp, ids, cs, u, Tail(r), SchedPush(s, Head(r)))
<1> DEFINE q == Tail(r)
           n == Len(r)
           S == Meaning(comp, ids, cs, u, q)
<1>1. /\ n \in Nat /\ n >= 1 /\ Head(r) = r[1] /\ Len(q) = n - 1 /\ r[1] \in Commands
      /\ \A k \in 1 .. n - 1 : q[k] = r[k + 1] /\ r[k + 1] \in Commands /\ k + 1 \in 1 .. n
  OBVIOUS
<1>2. ASSUME NEW a \in Commands, NEW k \in Nat, NEW h \in Nat \ {0}, k <= h + 1,
             Means(comp, ids, cs, t, r, a, k)
      PROVE  Means(comp, ids, cs, u, q, a, h)
  <2> SUFFICES ASSUME a.op = "add", comp[a.meant.name] = a.meant
               PROVE  Meets(u, q, a, h)
    BY <1>2 DEF Means
  <2>1. a.id \in Ids /\ Meets(t, r, a, k)
    BY <1>2, AddFields DEF Means
  <2>2. u[a.id] = After(Head(r), a.id, t[a.id])
    BY <2>1
  <2> QED
    BY <1>2, <2>1, <2>2, MeetsTail
<1>3. 1 \in Nat /\ 1 \in Nat \ {0} /\ 1 <= 1 + 1 /\ 1 \in 1 .. n
  BY <1>1
<1>4. \A k \in 1 .. Len(q) : Means(comp, ids, cs, u, q, q[k], k)
  <2> TAKE k \in 1 .. Len(q)
  <2>1. k \in 1 .. n - 1
    BY <1>1
  <2>2. /\ q[k] = r[k + 1] /\ r[k + 1] \in Commands
        /\ Means(comp, ids, cs, t, r, r[k + 1], k + 1)
    BY <1>1, <2>1 DEF Later
  <2>3. k + 1 \in Nat /\ k \in Nat \ {0} /\ k + 1 <= k + 1
    BY <2>1
  <2> HIDE DEF q
  <2> QED
    BY <1>2, <2>2, <2>3
<1>5. s \in Seq(S)
  <2>1. Waiting \subseteq Commands
    BY DEF Waiting, Commands
  <2> HIDE DEF q
  <2>2. Meaning(comp, ids, cs, t, r) \subseteq S
    BY <1>2, <1>3, <2>1 DEF Meaning
  <2> HIDE DEF S
  <2> QED
    BY <2>2, SeqGrows DEF Later
<1>6. Head(r).time # NIL => SchedPush(s, Head(r)) \in Seq(S)
  <2> SUFFICES ASSUME Head(r).time # NIL PROVE SchedPush(s, Head(r)) \in Seq(S)
    OBVIOUS
  <2>1. Head(r) \in Waiting
    BY <1>1, WaitsInTime
  <2>2. Means(comp, ids, cs, t, r, r[1], 1)
    BY <1>3 DEF Later
  <2> HIDE DEF q
  <2>3. Means(comp, ids, cs, u, q, r[1], 1)
    BY <1>1, <1>2, <1>3, <2>2
  <2>4. Head(r) \in S
    BY <1>1, <2>1, <2>3 DEF Meaning
  <2> HIDE DEF S
  <2> QED
    BY <1>5, <2>4, PushType
<1> HIDE DEF q
<1>7. /\ Later(comp, ids, cs, u, q, s)
      /\ Head(r).time # NIL => Later(comp, ids, cs, u, q, SchedPush(s, Head(r)))
  BY <1>4, <1>5, <1>6 DEF Later
<1> QED
  BY <1>7 DEF q

(* What the World's step does to the heap.                                 *)
LEMMA WorldHeap ==
    ASSUME DefTypes, WorldStep
    PROVE  \/ sched' = sched \/ sched' = <<>>
           \/ sched # <<>> /\ sched' = Tail(sched) /\ ring' = ring
           \/ /\ ring # <<>> /\ Head(ring).time # NIL
              /\ ring' = Tail(ring) /\ table' = table /\ sched' = SchedPush(sched, Head(ring))
  BY DEF WorldStep, StartBlock, Resync, Intake, IntakeDone, ApplyDue, IsDue, EndBlock, NrtProcess,
         rt, ClearHeap

(* The heap may lose what it holds. *)
LEMMA HeapShrinks ==
    ASSUME NEW comp, NEW ids, NEW cs, NEW t, NEW r, NEW s, Later(comp, ids, cs, t, r, s)
    PROVE  /\ Later(comp, ids, cs, t, r, <<>>)
           /\ s # <<>> => Later(comp, ids, cs, t, r, Tail(s))
<1> DEFINE S == Meaning(comp, ids, cs, t, r)
<1>1. s \in Seq(S)
  BY DEF Later
<1> HIDE DEF S
<1>2. <<>> \in Seq(S) /\ (s # <<>> => Tail(s) \in Seq(S))
  BY <1>1
<1> QED
  BY <1>2 DEF Later, S

(* The audio thread's steps leave the waiting creations their meaning.     *)
LEMMA WorldLater ==
    ASSUME IdsInv, LaterInv, WorldStep
    PROVE  LaterInv'
<1>1. DefTypes /\ ring \in Seq(Commands) /\ UNCHANGED <<compiled, defIds, compiles>>
  <2>1. DefTypes
    BY DEF IdsInv
  <2>2. UNCHANGED <<ctl, compiles>>
    BY <2>1, WorldTakes
  <2> QED
    BY <2>1, <2>2 DEF DefTypes, ctl
<1>2. Later(compiled, defIds, compiles, table, ring, sched)
  BY DEF LaterInv
<1> DEFINE u == table'
           q == ring'
           s == sched'
<1>3. Later(compiled, defIds, compiles, u, q, sched)
  <2>1. CASE ring' = ring /\ table' = table
    BY <1>2, <2>1
  <2>2. CASE /\ ring # <<>> /\ ring' = Tail(ring)
             /\ \A id \in Ids : table'[id] = After(Head(ring), id, table[id])
    <3>1. q = Tail(ring) /\ \A id \in Ids : u[id] = After(Head(ring), id, table[id])
      BY <2>2
    <3> HIDE DEF u, q
    <3> QED
      BY <1>1, <1>2, <2>2, <3>1, TailLater
  <2> QED
    BY <1>1, <2>1, <2>2, WorldTable
<1>4. CASE /\ ring # <<>> /\ Head(ring).time # NIL
           /\ ring' = Tail(ring) /\ table' = table /\ sched' = SchedPush(sched, Head(ring))
  <2> DEFINE c == Head(ring)
  <2>1. c \in Commands
    BY <1>1, <1>4
  <2> HIDE DEF c
  <2>2. c.time # NIL => c.op \in {"free", "add"}
    BY <2>1, WaitsInTime DEF Waiting, Timeable, FreeCmds, AddCmds
  <2>3. \A id \in Ids : table[id] = After(c, id, table[id])
    BY <1>4, <2>2 DEF After, c
  <2>4. Later(compiled, defIds, compiles, table, Tail(ring), SchedPush(sched, Head(ring)))
    BY <1>1, <1>2, <1>4, <2>3, TailLater DEF c
  <2> QED
    BY <1>1, <1>4, <2>4 DEF LaterInv
<1>5. CASE \/ sched' = sched \/ sched' = <<>>
           \/ sched # <<>> /\ sched' = Tail(sched)
  <2>1. Later(compiled, defIds, compiles, u, q, s)
    <3> HIDE DEF u, q
    <3> QED
      BY <1>3, <1>5, HeapShrinks
  <2> QED
    BY <1>1, <2>1 DEF LaterInv
<1> QED
  BY <1>1, <1>4, <1>5, WorldHeap

(* The Controller's calls do. *)
LEMMA ControllerLater ==
    ASSUME IdsInv, LaterInv,
           \/ ReapRetiredDefs
           \/ \E n \in Names, s \in SlotCounts : InsertDef(n, s)
           \/ \E n \in Names : FreeDef(n) \/ EnsureCompiled(n)
           \/ \E n \in Names, node \in Nodes : SynthNew(n, node)
           \/ SynthNewSend
           \/ \E n \in Names, gone, node \in Nodes : TrySendBatch(gone, n, node)
           \/ ClearSched
           \/ \E node \in Nodes : FreeNode(node)
           \/ \E t \in Times : BeginScheduled(t)
           \/ EndScheduled
    PROVE  LaterInv'
<1>0. /\ DefTypes /\ CtlTypes /\ ring \in Seq(Commands) /\ defIds \in [Names -> Ids \cup {NIL}]
      /\ compiled \in [Names -> Defs \cup {NIL}] /\ compiles \in Nat
      /\ OwnersInv /\ ReadyInv
  BY DEF IdsInv, DefTypes, CtlTypes
<1>1. Later(compiled, defIds, compiles, table, ring, sched)
  BY DEF LaterInv
<1>2. ASSUME UNCHANGED <<compiled, defIds, compiles, table, ring, sched>> PROVE LaterInv'
  BY <1>1, <1>2 DEF LaterInv
<1>3. ASSUME NEW c \in Commands, c.op \notin {"define", "freedef", "add"}
      PROVE  Later(compiled, defIds, compiles, table, Append(ring, c), sched)
  BY <1>0, <1>1, <1>3, PushLater
<1>4. ASSUME NEW r \in Seq(Commands), Later(compiled, defIds, compiles, table, r, sched),
             NEW n \in Names, compiled[n] # NIL, AtEnd(table, r, defIds[n]) = compiled[n],
             NEW node \in Nodes
      PROVE  Later(compiled, defIds, compiles, table,
                   Append(r, AddCmd(node, defIds[n], compiled[n].slots, compiled[n], schedule)), sched)
  <2> DEFINE c == AddCmd(node, defIds[n], compiled[n].slots, compiled[n], schedule)
  <2>1. compiled[n].slots \in Nat
    BY <1>0, <1>4 DEF Defs
  <2>2. c \in Commands
    BY <1>0, <1>4, <2>1, CommandTypes
  <2>3. /\ c.op = "add" /\ c.id = defIds[n] /\ c.meant = compiled[n] /\ c.aux = compiled[n].slots
    BY DEF AddCmd
  <2>4. compiled[n].name = n /\ compiled[n].serial < compiles
    BY <1>4 DEF Later
  <2> HIDE DEF c
  <2> QED
    BY <1>4, <2>2, <2>3, <2>4, PushLater DEF c
<1>5. CASE ReapRetiredDefs
  BY <1>2, <1>5 DEF ReapRetiredDefs, rt
<1>6. ASSUME NEW n \in Names, NEW s \in SlotCounts, InsertDef(n, s) PROVE LaterInv'
  <2> DEFINE comp == compiled'
  <2>1. comp = [compiled EXCEPT ![n] = NIL] /\ UNCHANGED <<defIds, compiles, table, ring, sched>>
    BY <1>6 DEF InsertDef, rt
  <2>2. Renews(compiled, defIds, compiles, comp, defIds, compiles)
    BY <1>0, <2>1 DEF Renews
  <2> HIDE DEF comp
  <2>3. Later(comp, defIds, compiles, table, ring, sched)
    BY <1>0, <1>1, <2>2, ChangeLater
  <2> QED
    BY <2>1, <2>3 DEF LaterInv, comp
<1>7. ASSUME NEW n \in Names, FreeDef(n) PROVE LaterInv'
  <2> DEFINE x == defIds[n]
             c == FreeDefCmd(x)
             comp == compiled'
             ids == defIds'
  <2>1. /\ comp = [compiled EXCEPT ![n] = NIL] /\ ids = [defIds EXCEPT ![n] = NIL]
        /\ UNCHANGED <<compiles, table, sched>>
        /\ ring' = IF x = NIL THEN ring ELSE Append(ring, c)
    BY <1>7 DEF FreeDef, rt
  <2>2. /\ comp[n] = NIL
        /\ \A m \in Names \ {n} : comp[m] = compiled[m] /\ ids[m] = defIds[m]
    BY <1>0, <2>1
  <2>3. x # NIL => \A m \in Names \ {n} : defIds[m] # x
    BY <1>0, OneOwner
  <2>4. x # NIL => c \in Commands
    BY <1>0 DEF FreeDefCmd, GoneCmds, Commands
  <2>5. c.op = "freedef" /\ c.id = x
    BY DEF FreeDefCmd
  <2> HIDE DEF x, c, comp, ids
  <2>6. Later(comp, ids, compiles, table, ring, sched)
    <3>1. Renews(compiled, defIds, compiles, comp, ids, compiles)
      BY <2>2 DEF Renews
    <3> QED
      BY <1>0, <1>1, <3>1, ChangeLater
  <2>7. x # NIL => \A m \in Names : comp[m] # NIL => ids[m] # x
    BY <2>2, <2>3
  <2>8. x # NIL => Later(comp, ids, compiles, table, Append(ring, c), sched)
    BY <1>0, <2>4, <2>5, <2>6, <2>7, PushLater
  <2> QED
    BY <2>1, <2>6, <2>8 DEF LaterInv, comp, ids
<1>8. ASSUME NEW n \in Names, NEW next, CompileDef(n, next) PROVE LaterInv'
  <2> DEFINE x == IdFor(n)
             d == [name |-> n, serial |-> compiles, slots |-> authored[n]]
             c == DefineCmd(x, d)
             comp == compiled'
             ids == defIds'
             cs == compiles'
  <2>1. /\ compiled[n] = NIL /\ x # NIL /\ authored[n] # NIL /\ UNCHANGED <<table, sched>>
        /\ ids = [defIds EXCEPT ![n] = x] /\ cs = compiles + 1
        /\ \/ ring' = ring /\ comp = compiled
           \/ ring' = Append(ring, c) /\ comp = [compiled EXCEPT ![n] = d]
    BY <1>8 DEF CompileDef, rt
  <2>2. x \in Ids /\ authored[n] \in Nat /\ \A m \in Names \ {n} : defIds[m] # x
    <3>1. x \in Ids
      BY <1>0, <2>1, IdForType
    <3>2. \A m \in Names \ {n} : defIds[m] # x
      BY <1>0, <1>8, CompileOwners
    <3>3. authored[n] \in Nat
      BY <1>0, <2>1 DEF CtlTypes
    <3> QED
      BY <3>1, <3>2, <3>3
  <2>3. c \in Commands /\ c.op = "define" /\ c.id = x
    <3>1. d \in Defs
      BY <1>0, <2>2 DEF Defs
    <3> HIDE DEF d, x
    <3>2. c \in DefCmds /\ c.op = "define" /\ c.id = x
      BY <2>2, <3>1 DEF DefineCmd, DefCmds
    <3> QED
      BY <3>2 DEF Commands
  <2>4. d.name = n /\ d.serial = compiles
    OBVIOUS
  <2> HIDE DEF x, d, c, comp, ids, cs
  <2>5. \A m \in Names \ {n} : ids[m] = defIds[m]
    BY <1>0, <2>1
  <2>6. cs \in Nat /\ compiles <= cs /\ compiles < cs
    BY <1>0, <2>1
  <2>7. CASE ring' = ring /\ comp = compiled
    <3>1. Renews(compiled, defIds, compiles, comp, ids, cs)
      BY <2>1, <2>5, <2>7 DEF Renews
    <3>2. Later(comp, ids, cs, table, ring, sched)
      BY <1>0, <1>1, <2>6, <3>1, ChangeLater
    <3> QED
      BY <2>1, <2>7, <3>2 DEF LaterInv, comp, ids, cs
  <2>8. CASE ring' = Append(ring, c) /\ comp = [compiled EXCEPT ![n] = d]
    <3>1. \A m \in Names : compiled[m] # NIL => defIds[m] # c.id
      BY <2>1, <2>2, <2>3
    <3>2. Later(compiled, defIds, compiles, table, Append(ring, c), sched)
      BY <1>0, <1>1, <2>3, <3>1, PushLater
    <3>3. comp[n] = d /\ \A m \in Names \ {n} : comp[m] = compiled[m]
      BY <1>0, <2>8
    <3>4. Renews(compiled, defIds, compiles, comp, ids, cs)
      <4>1. comp[n].name = n /\ comp[n].serial \in compiles .. cs - 1
        BY <1>0, <2>1, <2>4, <2>6, <3>3
      <4>2. \A m \in Names \ {n} : comp[m] = compiled[m] /\ ids[m] = defIds[m]
        BY <2>5, <3>3
      <4> QED
        BY <4>1, <4>2 DEF Renews
    <3>5. Append(ring, c) \in Seq(Commands)
      BY <1>0, <2>3
    <3> DEFINE q == Append(ring, c)
    <3> HIDE DEF q
    <3>6. q \in Seq(Commands) /\ Later(compiled, defIds, compiles, table, q, sched)
      BY <3>2, <3>5 DEF q
    <3>7. Later(comp, ids, cs, table, q, sched)
      BY <1>0, <2>6, <3>4, <3>6, ChangeLater
    <3> QED
      BY <2>1, <2>8, <3>7 DEF LaterInv, comp, ids, cs, q
  <2> QED
    BY <2>1, <2>7, <2>8
<1>9. ASSUME NEW n \in Names, EnsureCompiled(n) PROVE LaterInv'
  BY <1>8, <1>9 DEF EnsureCompiled
<1>10. ASSUME NEW n \in Names, NEW node \in Nodes, SynthNew(n, node) PROVE LaterInv'
  <2>1. CASE CompileDef(n, [name |-> n, node |-> node])
    BY <1>8, <2>1
  <2>2. CASE UNCHANGED <<compiled, defIds, compiles, table, ring, sched>>
    BY <1>2, <2>2
  <2> QED
    BY <1>10, <2>1, <2>2 DEF SynthNew, rt
<1>11. CASE SynthNewSend
  <2>1. call.name \in Names /\ call.node \in Nodes /\ compiled[call.name] # NIL
    BY <1>0, <1>11 DEF SynthNewSend, CtlTypes
  <2>2. AtEnd(table, ring, defIds[call.name]) = compiled[call.name]
    BY <1>0, <2>1 DEF ReadyInv
  <2> DEFINE c == AddCmd(call.node, defIds[call.name], compiled[call.name].slots,
                         compiled[call.name], schedule)
  <2>3. Later(compiled, defIds, compiles, table, Append(ring, c), sched)
    BY <1>0, <1>1, <1>4, <2>1, <2>2
  <2>4. (ring' = ring \/ ring' = Append(ring, c)) /\ UNCHANGED <<compiled, defIds, compiles, table, sched>>
    BY <1>11 DEF SynthNewSend, rt
  <2> HIDE DEF c
  <2> QED
    BY <1>1, <2>3, <2>4 DEF LaterInv
<1>12. ASSUME NEW n \in Names, NEW gone \in Nodes, NEW node \in Nodes, TrySendBatch(gone, n, node)
       PROVE  LaterInv'
  <2> DEFINE c == FreeCmd(gone, schedule)
             e == AddCmd(node, defIds[n], compiled[n].slots, compiled[n], schedule)
             q == Append(ring, c)
  <2>1. /\ compiled[n] # NIL /\ UNCHANGED <<compiled, defIds, compiles, table, sched>>
        /\ ring' = ring \o <<c, AddCmd(node, defIds[n], poolSlots[defIds[n]], compiled[n], schedule)>>
    BY <1>12 DEF TrySendBatch, ctl, rt
  <2>2. AtEnd(table, ring, defIds[n]) = compiled[n] /\ poolSlots[defIds[n]] = compiled[n].slots
    BY <1>0, <2>1 DEF ReadyInv
  <2>3. ring' = ring \o <<c, e>>
    BY <2>1, <2>2
  <2>4. c \in Commands /\ c.op = "free"
    BY <1>0, FreeType DEF FreeCmd
  <2> HIDE DEF c
  <2>5. Later(compiled, defIds, compiles, table, q, sched) /\ q \in Seq(Commands)
    BY <1>0, <1>3, <2>4
  <2>6. AtEnd(table, q, defIds[n]) = compiled[n]
    <3>1. Creates(table, ring)
      BY DEF IdsInv
    <3>2. AtEnd(table, q, defIds[n]) = After(c, defIds[n], AtEnd(table, ring, defIds[n]))
      BY <1>0, <2>4, <3>1, PushMeans
    <3> QED
      BY <2>2, <2>4, <3>2 DEF After
  <2>7. ring' = Append(q, e)
    BY <1>0, <2>3
  <2> HIDE DEF q
  <2>8. Later(compiled, defIds, compiles, table, Append(q, e), sched)
    BY <1>4, <2>1, <2>5, <2>6
  <2> QED
    BY <2>1, <2>7, <2>8 DEF LaterInv
<1>13. ASSUME NEW c \in Commands, c.op \notin {"define", "freedef", "add"}, Send(c) PROVE LaterInv'
  <2>1. ring' = Append(ring, c) /\ UNCHANGED <<compiled, defIds, compiles, table, sched>>
    BY <1>13 DEF Send, ctl, rt
  <2> QED
    BY <1>3, <1>13, <2>1 DEF LaterInv
<1>14. CASE ClearSched
  <2>1. ClearCmd \in Commands /\ ClearCmd.op = "clear"
    BY DEF ClearCmd, Commands
  <2> QED
    BY <1>13, <1>14, <2>1 DEF ClearSched
<1>15. ASSUME NEW node \in Nodes, FreeNode(node) PROVE LaterInv'
  <2>1. FreeCmd(node, schedule) \in Commands /\ FreeCmd(node, schedule).op = "free"
    BY <1>0, FreeType DEF FreeCmd
  <2> QED
    BY <1>13, <1>15, <2>1 DEF FreeNode
<1>16. ASSUME NEW t \in Times, BeginScheduled(t) PROVE LaterInv'
  BY <1>2, <1>16 DEF BeginScheduled, rt
<1>17. CASE EndScheduled
  BY <1>2, <1>17 DEF EndScheduled, rt
<1> QED
  BY <1>5, <1>6, <1>7, <1>9, <1>10, <1>11, <1>12, <1>14, <1>15, <1>16, <1>17

(* What the invariant says in the words of IdsMeanOneDef. *)
LEMMA IdsMean ==
    ASSUME IdsInv, LaterInv
    PROVE  IdsMeanOneDef
<1>1. IdsPartition
  BY OwnersMeans DEF IdsInv
<1>2. \A id, k : ResidentAt(id, k) = Resident(table, ring, id, k)
  BY DEF ResidentAt, Resident, Installs, Latest
<1>3. ring \in Seq(Commands) /\ DOMAIN ring = 1 .. Len(ring)
  BY DEF IdsInv, DefTypes
<1>4. /\ \A k \in 1 .. Len(ring) : Means(compiled, defIds, compiles, table, ring, ring[k], k)
      /\ sched \in Seq(Meaning(compiled, defIds, compiles, table, ring))
  BY DEF LaterInv, Later
<1>5. ASSUME NEW c, NEW k, c.op = "add", Stands(c),
             Means(compiled, defIds, compiles, table, ring, c, k)
      PROVE  FindsFrom(c, k)
  BY <1>2, <1>5 DEF Stands, Means, Meets, FindsFrom, Finds
<1>6. ASSUME NEW k \in DOMAIN ring, ring[k].op = "add", ring[k].time = NIL PROVE Finds(ring[k], k)
  BY <1>2, <1>3, <1>6 DEF IdsInv, Creates, Finds
<1>7. ASSUME NEW k \in DOMAIN ring, ring[k].op = "add", Stands(ring[k]) PROVE FindsFrom(ring[k], k)
  BY <1>3, <1>4, <1>5, <1>7
<1>8. ASSUME NEW k \in DOMAIN sched, sched[k].op = "add", Stands(sched[k])
      PROVE  FindsFrom(sched[k], 1)
  <2>1. sched[k] \in Meaning(compiled, defIds, compiles, table, ring)
    BY <1>4
  <2>2. Means(compiled, defIds, compiles, table, ring, sched[k], 1)
    BY <2>1 DEF Meaning
  <2> QED
    BY <1>5, <1>8, <2>2
<1>9. CreatesFindTheirDef
  BY <1>6, <1>7, <1>8 DEF CreatesFindTheirDef
<1> QED
  BY <1>1, <1>9 DEF IdsMeanOneDef

(* An id handed out has one owner at every moment, a name, a retired       *)
(* definition or the stack of free ids. Every creation sent to take effect *)
(* at once meets in the World's table the very definition it was made      *)
(* from, with an allocation table of its size, and so does every creation  *)
(* that waits for its time, as long as the definition is still the         *)
(* compiled form of its name. This is so for any number of names, ids and  *)
(* nodes, any ring and heap and any order of redefinitions, frees, refused *)
(* pushes, reaping and creations (compiled_def, free_def,                  *)
(* reap_retired_defs, synth_new, try_send_batch, drain_commands).          *)
THEOREM IdsAlwaysMeanOneDef == Spec => []IdsMeanOneDef
<1>1. Init => IdsInv /\ LaterInv
  <2> SUFFICES ASSUME Init PROVE LaterInv
    BY InitIds
  <2> DEFINE S == Meaning(compiled, defIds, compiles, table, ring)
  <2> HIDE DEF S
  <2>1. <<>> \in Seq(S) /\ Len(<<>>) = 0 /\ 1 .. 0 = {}
    OBVIOUS
  <2>2. ring = <<>> /\ sched = <<>> /\ \A n \in Names : compiled[n] = NIL
    BY DEF Init
  <2>3. /\ \A n \in Names : compiled[n] # NIL =>
              compiled[n].name = n /\ compiled[n].serial < compiles
        /\ \A k \in 1 .. Len(ring) : Means(compiled, defIds, compiles, table, ring, ring[k], k)
    BY <2>1, <2>2
  <2>4. sched \in Seq(S)
    BY <2>1, <2>2
  <2> QED
    BY <2>3, <2>4 DEF S, LaterInv, Later
<1>2. IdsInv /\ LaterInv /\ [Next]_vars => (IdsInv /\ LaterInv)'
  <2> SUFFICES ASSUME IdsInv, LaterInv, [Next]_vars PROVE IdsInv' /\ LaterInv'
    OBVIOUS
  <2>1. DefTypes'
    BY StepTypes DEF IdsInv
  <2>2. CASE WorldStep
    BY <2>2, WorldIds, WorldLater
  <2>3. CASE Next /\ ~WorldStep
    <3>1. OwnersInv' /\ ReadyInv' /\ Creates(table', ring')
      BY <2>3, ControllerIds DEF Next, WorldStep
    <3>2. LaterInv'
      BY <2>3, ControllerLater DEF Next, WorldStep
    <3> QED
      BY <2>1, <3>1, <3>2 DEF IdsInv
  <2>4. CASE UNCHANGED vars
    <3>1. OwnersInv' /\ ReadyInv' /\ Creates(table', ring')
      BY <2>4 DEF vars, ctl, rt, IdsInv, OwnersInv, ReadyInv
    <3>2. LaterInv'
      BY <2>4 DEF vars, ctl, rt, LaterInv
    <3> QED
      BY <2>1, <3>1, <3>2 DEF IdsInv
  <2> QED
    BY <2>2, <2>3, <2>4
<1>3. IdsInv /\ LaterInv => IdsMeanOneDef
  BY IdsMean
<1> QED
  BY <1>1, <1>2, <1>3, PTL DEF Spec
==============================================================================
