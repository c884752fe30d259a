---- MODULE BusBlocks ----
(***************************************************************************)
(* Signals on the buses (plyphon-dsp/src/bus.rs), block after block: the   *)
(* host fills output buffers of any length from blocks of Slices frames    *)
(* (World::fill_duplex), and in each block the running synths' units write *)
(* and read bus channels in tree order (run_one_block, Graph::process).    *)
(* A channel keeps its last data and the block that touched it last: that  *)
(* stamp decides whether a writer sums or replaces and whether a reader    *)
(* hears anything.                                                         *)
(*                                                                         *)
(* A frame's content is the set of contributions summed in it; a           *)
(* contribution <<n, b, i>> is what synth n computed in block b for frame  *)
(* i. A graph that is reblocked runs once for each slice of the block.     *)
(***************************************************************************)
EXTENDS Integers, Sequences, FiniteSets, SequencesExt

CONSTANTS
    Node,       \* synths
    Graph(_),   \* its units: <<kind, channel>> in calc order, one OffsetOut at most
    Reblocked,  \* the synths that run one tick a slice
    Out0, In0, Private, Control, \* channels: hardware out and in, private, control
    Slices,     \* frames in a block
    MaxBlocks,  \* bound: blocks computed
    MaxRunning, \* bound: synths running in one block
    MaxHost     \* bound: frames the host asks for at once

ASSUME BusAssumption ==
    Slices \in Nat \ {0} /\ MaxBlocks \in Nat /\ MaxRunning \in Nat /\ MaxHost \in Nat \ {0}

Audio == {Out0, In0, Private}
Writers == {"out", "replace", "xfull", "xpart", "offset"}
WritersKr == {"outkr", "replacekr"}
Readers == {"in", "map", "feedback"}
ReadersKr == {"inkr", "intrig"}
Units == ((Writers \cup Readers) \X Audio) \cup ((WritersKr \cup ReadersKr) \X {Control})

ASSUME GraphAssumption ==
    /\ IsFiniteSet(Node) /\ Reblocked \subseteq Node /\ "idle" \notin Node /\ "ending" \notin Node
    /\ \A n \in Node : Graph(n) \in Seq(Units) /\ Graph(n) # <<>>

VARIABLES
    data, touched,     \* audio channels: content per slice, block stamp
    kdata, ktouched,   \* the control channel
    counter,           \* buf_counter
    emitted,           \* block_frames_emitted
    want,              \* frames the host still waits for
    order, warm, carry, \* the running synths; OffsetOut's warmed flag and carry
    pc,                \* [node, tick, unit] to run next, or "idle", "ending"
    mix, kmix,         \* ghost: what this block's writers should make of a channel
    left,              \* ghost: what the last block that had writers left on it
    heard,             \* ghost: what the last reader heard: [kind, ch, slices, got]
    played             \* ghost: frames the host got of the block: [block, slice]

vars == <<data, touched, kdata, ktouched, counter, emitted, want, order, warm, carry, pc,
          mix, kmix, left, heard, played>>

Silence == [s \in 1 .. Slices |-> {}]
Nothing == [kind |-> "none", ch |-> Control, slices |-> {}, got |-> Silence]

\* The slices a tick covers, and the frame of a contribution.
TickSlices(n, tick) == IF n \in Reblocked THEN {tick} ELSE 1 .. Slices
Ticks(n) == IF n \in Reblocked THEN Slices ELSE 1
Signal(n, i) == <<n, counter, i>>

----------------------------------------------------------------------------
(* AudioBus: every writer goes through these.                              *)

Live(ch) == touched[ch] = counter

\* Mutant: the first write of a block clears only its own slice.
AccumulateSlice(ch, on, x) ==
    [data EXCEPT ![ch] = [s \in 1 .. Slices |->
        IF s \notin on THEN @[s] ELSE IF Live(ch) THEN @[s] \cup x[s] ELSE x[s]]]

\* write_accumulate_decimated: the first write of a block clears the rest.
Accumulate(ch, on, x) ==
    LET old == IF Live(ch) THEN data[ch] ELSE Silence
    IN  [data EXCEPT ![ch] = [s \in 1 .. Slices |-> IF s \in on THEN old[s] \cup x[s] ELSE old[s]]]

\* write_replace_decimated: only the tick's own slice is written.
Replace(ch, on, x) ==
    [data EXCEPT ![ch] = [s \in 1 .. Slices |-> IF s \in on THEN x[s] ELSE @[s]]]

Touch(ch) == [touched EXCEPT ![ch] = counter]

Mixed(ch, on, x) == [mix EXCEPT ![ch] = [s \in 1 .. Slices |-> IF s \in on THEN @[s] \cup x[s] ELSE @[s]]]
MixedOver(ch, on, x) == [mix EXCEPT ![ch] = [s \in 1 .. Slices |-> IF s \in on THEN x[s] ELSE @[s]]]

----------------------------------------------------------------------------
(* The writing units.                                                      *)

Own(n) == [s \in 1 .. Slices |-> {Signal(n, s)}]

Out(n, ch, on) ==
    /\ data' = Accumulate(ch, on, Own(n))
    /\ touched' = Touch(ch)
    /\ mix' = Mixed(ch, on, Own(n))
    /\ UNCHANGED <<warm, carry>>

ReplaceOut(n, ch, on) ==
    /\ data' = Replace(ch, on, Own(n))
    /\ touched' = Touch(ch)
    /\ mix' = MixedOver(ch, on, Own(n))
    /\ UNCHANGED <<warm, carry>>

\* XOut with the crossfade at 1: a copy; in a reblocked graph a sum onto
\* whatever the channel holds.
XOutFull(n, ch, on) ==
    /\ data' = IF n \in Reblocked
               THEN [data EXCEPT ![ch] = [s \in 1 .. Slices |-> IF s \in on THEN @[s] \cup Own(n)[s] ELSE @[s]]]
               ELSE Replace(ch, on, Own(n))
    /\ touched' = Touch(ch)
    /\ mix' = IF n \in Reblocked THEN Mixed(ch, on, Own(n)) ELSE MixedOver(ch, on, Own(n))
    /\ UNCHANGED <<warm, carry>>

\* XOut between 0 and 1: summed with a live channel. A reblocked graph
\* clears and stamps an untouched channel in its first tick.
XOutPart(n, ch, on, tick) ==
    /\ data' = IF n \in Reblocked /\ tick > 1
               THEN [data EXCEPT ![ch] = [s \in 1 .. Slices |-> IF s \in on THEN @[s] \cup Own(n)[s] ELSE @[s]]]
               ELSE Accumulate(ch, on, Own(n))
    /\ touched' = IF n \notin Reblocked \/ tick = 1 THEN Touch(ch) ELSE touched
    /\ mix' = Mixed(ch, on, Own(n))
    /\ UNCHANGED <<warm, carry>>

\* OffsetOut, one slice late: the last one is carried to the next tick. In
\* its first block an ordinary graph leaves what comes before its onset to
\* the others.
OffsetOut(n, ch, on, tick) ==
    LET late == [s \in 1 .. Slices |->
                    IF s = tick THEN (IF warm[n] THEN {carry[n]} ELSE {}) ELSE {Signal(n, s - 1)}]
        from == IF ~warm[n] /\ n \notin Reblocked /\ Live(ch) THEN on \ {1} ELSE on
    IN  /\ data' = Accumulate(ch, from, late)
        /\ touched' = Touch(ch)
        /\ mix' = Mixed(ch, on, late)
        /\ carry' = [carry EXCEPT ![n] = Signal(n, IF n \in Reblocked THEN tick ELSE Slices)]
        /\ warm' = [warm EXCEPT ![n] = TRUE]

\* Out.kr, ReplaceOut.kr: on the first tick only.
OutKr(n, tick, replace) ==
    /\ kdata' = IF tick > 1 THEN kdata
                ELSE IF replace \/ ktouched # counter THEN {Signal(n, 1)} ELSE kdata \cup {Signal(n, 1)}
    /\ ktouched' = IF tick > 1 THEN ktouched ELSE counter
    /\ kmix' = IF tick > 1 THEN kmix
               ELSE IF replace THEN [set |-> TRUE, v |-> {Signal(n, 1)}]
               ELSE [set |-> TRUE, v |-> (IF kmix.set THEN kmix.v ELSE {}) \cup {Signal(n, 1)}]

(* The reading units.                                                      *)

Hear(kind, ch, on, got) == heard' = [kind |-> kind, ch |-> ch, slices |-> on, got |-> got]

\* In.ar, and a parameter mapped to an audio bus, hear a live channel only.
In(ch, on) == Hear("in", ch, on, IF Live(ch) THEN data[ch] ELSE Silence)
InFeedback(ch, on) == Hear("feedback", ch, on, data[ch])
InKr == Hear("control", Control, {1}, [s \in 1 .. Slices |-> kdata])
InTrig(tick) == Hear("trig", Control, {tick},
    [s \in 1 .. Slices |-> IF tick = 1 /\ ktouched = counter THEN kdata ELSE {}])

----------------------------------------------------------------------------

FirstUnit(node) == [at |-> node, tick |-> 1, unit |-> 1]
Ending == [at |-> "ending", tick |-> 0, unit |-> 0]
Idle == [at |-> "idle", tick |-> 0, unit |-> 0]

After(o, n) == LET i == CHOOSE i \in DOMAIN o : o[i] = n IN IF i < Len(o) THEN FirstUnit(o[i + 1]) ELSE Ending

Advance ==
    pc' = IF pc.unit < Len(Graph(pc.at)) THEN [pc EXCEPT !.unit = @ + 1]
          ELSE IF pc.tick < Ticks(pc.at) THEN [pc EXCEPT !.tick = @ + 1, !.unit = 1]
          ELSE After(order, pc.at)

Write(kind, ch, on) ==
    /\ \/ kind = "out" /\ Out(pc.at, ch, on)
       \/ kind = "replace" /\ ReplaceOut(pc.at, ch, on)
       \/ kind = "xfull" /\ XOutFull(pc.at, ch, on)
       \/ kind = "xpart" /\ XOutPart(pc.at, ch, on, pc.tick)
       \/ kind = "offset" /\ OffsetOut(pc.at, ch, on, pc.tick)
    /\ heard' = Nothing
    /\ UNCHANGED <<kdata, ktouched, kmix>>

WriteKr(kind) ==
    /\ OutKr(pc.at, pc.tick, kind = "replacekr")
    /\ heard' = Nothing
    /\ UNCHANGED <<data, touched, mix, warm, carry>>

Read(kind, ch, on) ==
    /\ \/ kind \in {"in", "map"} /\ In(ch, on)
       \/ kind = "feedback" /\ InFeedback(ch, on)
       \/ kind = "inkr" /\ InKr
       \/ kind = "intrig" /\ InTrig(pc.tick)
    /\ UNCHANGED <<data, touched, mix, warm, carry, kdata, ktouched, kmix>>

\* One unit of the running synth computes one tick.
RunUnit ==
    /\ pc.at \in Node
    /\ LET u == Graph(pc.at)[pc.unit]
           on == TickSlices(pc.at, pc.tick)
       IN  \/ u[1] \in Writers /\ Write(u[1], u[2], on)
           \/ u[1] \in WritersKr /\ WriteKr(u[1])
           \/ u[1] \in Readers \cup ReadersKr /\ Read(u[1], u[2], on)
    /\ Advance
    /\ UNCHANGED <<counter, emitted, want, order, left, played>>

----------------------------------------------------------------------------
(* The world.                                                              *)

\* The host asks for frames (fill_duplex), and gives as many of input.
HostCall ==
    /\ want = 0
    /\ want' \in 1 .. MaxHost
    /\ UNCHANGED <<data, touched, kdata, ktouched, counter, emitted, order, warm, carry, pc,
                   mix, kmix, left, heard, played>>

Host == "host"

\* write_input, then run_one_block up to the walk of the tree: commands and
\* due bundles change which synths run, in which order - a paused synth
\* keeps its state, a new one has none - and may set the control bus for
\* the block to come.
BeginBlock ==
    /\ want > 0 /\ emitted = Slices /\ pc = Idle /\ counter < MaxBlocks
    /\ \E ns \in {m \in SUBSET Node : Cardinality(m) <= MaxRunning} : \E o \in SetToSeqs(ns) :
       \E kept \in SUBSET (Node \ ns) :
           /\ order' = o
           /\ warm' = [n \in Node |-> warm[n] /\ (n \in kept \/ (n \in ns /\ n \in Range(order)))]
           /\ pc' = IF o = <<>> THEN Ending ELSE FirstUnit(o[1])
    /\ counter' = counter + 1
    /\ LET input == [s \in 1 .. Slices |-> IF s <= want THEN {<<Host, counter + 1, s>>} ELSE {}]
       IN  /\ data' = [data EXCEPT ![In0] = input]
           /\ mix' = [c \in Audio |-> IF c = In0 THEN input ELSE Silence]
    /\ touched' = [touched EXCEPT ![In0] = counter + 1]
    /\ \E set \in BOOLEAN :
           /\ kdata' = IF set THEN {<<Host, counter + 1, 1>>} ELSE kdata
           /\ ktouched' = IF set THEN counter + 1 ELSE ktouched
           /\ kmix' = IF set THEN [set |-> TRUE, v |-> {<<Host, counter + 1, 1>>}]
                      ELSE [set |-> FALSE, v |-> kmix.v]
    /\ heard' = Nothing
    /\ UNCHANGED <<emitted, want, carry, left, played>>

\* Mutant: an output nobody wrote to keeps its last block.
EndBlockUnsilenced ==
    /\ pc = Ending
    /\ left' = [c \in Audio |-> IF Live(c) \/ c = Out0 THEN mix[c] ELSE left[c]]
    /\ emitted' = 0
    /\ pc' = Idle
    /\ heard' = Nothing
    /\ UNCHANGED <<data, touched, kdata, ktouched, counter, want, order, warm, carry, mix, kmix, played>>

\* silence_untouched_outputs; the block can be emitted.
EndBlock ==
    /\ pc = Ending
    /\ data' = IF Live(Out0) THEN data ELSE [data EXCEPT ![Out0] = Silence]
    /\ left' = [c \in Audio |-> IF Live(c) \/ c = Out0 THEN mix[c] ELSE left[c]]
    /\ emitted' = 0
    /\ pc' = Idle
    /\ heard' = Nothing
    /\ UNCHANGED <<touched, kdata, ktouched, counter, want, order, warm, carry, mix, kmix, played>>

\* Mutant: the end of a block the host had no room for is dropped.
EmitWhole ==
    /\ want > 0 /\ emitted < Slices /\ pc = Idle
    /\ LET n == IF Slices - emitted < want THEN Slices - emitted ELSE want
       IN  /\ emitted' = Slices
           /\ want' = want - n
           /\ played' = [s \in 1 .. n |-> [block |-> counter, slice |-> emitted + s, got |-> data[Out0][emitted + s]]]
    /\ UNCHANGED <<data, touched, kdata, ktouched, counter, order, warm, carry, pc, mix, kmix, left, heard>>

\* Frames of the block are copied to the host's buffer.
Emit ==
    /\ want > 0 /\ emitted < Slices /\ pc = Idle
    /\ LET n == IF Slices - emitted < want THEN Slices - emitted ELSE want
       IN  /\ emitted' = emitted + n
           /\ want' = want - n
           /\ played' = [s \in 1 .. n |-> [block |-> counter, slice |-> emitted + s, got |-> data[Out0][emitted + s]]]
    /\ UNCHANGED <<data, touched, kdata, ktouched, counter, order, warm, carry, pc, mix, kmix, left, heard>>

Init ==
    /\ data = [c \in Audio |-> Silence]
    /\ touched = [c \in Audio |-> 0]
    /\ kdata = {} /\ ktouched = 0
    /\ counter = 0
    /\ emitted = Slices
    /\ want = 0
    /\ order = <<>>
    /\ warm = [n \in Node |-> FALSE]
    /\ carry = [n \in Node |-> <<n, 0, 0>>]
    /\ pc = Idle
    /\ mix = data
    /\ left = data
    /\ kmix = [set |-> FALSE, v |-> {}]
    /\ heard = Nothing
    /\ played = <<>>

Next == HostCall \/ BeginBlock \/ RunUnit \/ EndBlock \/ Emit

Spec == Init /\ [][Next]_vars

----------------------------------------------------------------------------
\* A reader hears exactly what the writers before it in this block have
\* made of the channel - their sum, or the last replacement and what came
\* after it - and silence where none wrote: never a frame of another block,
\* whatever order, slices or stamps the writers came with (bus.rs, input.rs,
\* and graph.rs for a parameter mapped to a bus). InFeedback, before the
\* block's first writer, hears what the last block with writers left there.
ReadersHearTheMix ==
    \A s \in heard.slices :
        /\ heard.kind = "in" => heard.got[s] = mix[heard.ch][s]
        /\ heard.kind = "feedback" =>
               heard.got[s] = IF Live(heard.ch) THEN mix[heard.ch][s] ELSE left[heard.ch][s]

\* In.kr hears the writers of the last block that had any, a value set by a
\* command among them; InTrig hears them in
\* that block only, in a graph's first tick.
ControlHeld ==
    /\ heard.kind = "control" => heard.got[1] = kmix.v
    /\ heard.kind = "trig" => heard.got[1] = IF kmix.set /\ heard.slices = {1} THEN kmix.v ELSE {}

\* The host gets every frame of every block once, in order, however the
\* lengths it asks for straddle the blocks, and hears in it what that
\* block's synths wrote to the output: one that stopped is not heard again.
HostHearsTheMix ==
    \A i \in DOMAIN played : played[i].got = mix[Out0][played[i].slice] \/ played[i].block # counter

\* What outlives its block is told from what does not: a control bus keeps
\* its value over blocks that nobody writes in, an output goes silent.
UnwrittenHeldOrSilent == ControlHeld /\ HostHearsTheMix

PlayedInOrder ==
    [][played' # played =>
         /\ played' # <<>>
         /\ \/ played = <<>> /\ played'[1].slice = 1
            \/ LET last == played[Len(played)]
               IN  \/ played'[1].block = last.block /\ played'[1].slice = last.slice + 1
                   \/ played'[1].block = last.block + 1 /\ played'[1].slice = 1 /\ last.slice = Slices]_vars
====
