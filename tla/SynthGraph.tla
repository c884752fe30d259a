---- MODULE SynthGraph ----
(***************************************************************************)
(* Live synths of one compiled definition (plyphon-rt/src/graph.rs): the   *)
(* block of memory each is given (World::build_graph), its constructor     *)
(* pass and its ticks (Graph::process), one unit at a time, over audio     *)
(* wires all synths share.                                                 *)
(*                                                                         *)
(* A sample is who computed it: <<"out", synth, unit, output, tick>>, tick  *)
(* 0 being the constructor pass; Rest is what memory holds before anyone   *)
(* writes, Cleared what a unit without memory outputs.                     *)
(***************************************************************************)
EXTENDS SynthCompile

CONSTANTS
    Synth,      \* synths
    Defs,       \* definitions to try
    MaxBlocks,  \* bound: blocks of the World
    MaxSets     \* bound: values set on parameters

ASSUME DefsAssumption == Defs \subseteq Definitions /\ MaxSets \in Nat /\ MaxBlocks \in Nat

VARIABLES
    def, plan,  \* the definition and what it compiled to
    running,    \* synths in tree order; a paused one is not walked
    graph,      \* synth -> its instance, or Absent
    audio,      \* the shared audio wires: sample -> content
    pc,         \* [synth, tick, phase, step], or Idle
    turn,       \* blocks begun
    sets,       \* values set so far
    heard,      \* ghost: what the last unit read, input by input
    trigSeen    \* ghost: value -> the ticks a trigger parameter showed it in

graphVars == <<def, plan, running, graph, audio, pc, turn, sets, heard, trigSeen>>

Rest == <<"rest">>
Zero == <<"zero">>
Silence == <<"silence">>
Cleared == <<"cleared">>

Absent == [ctrl |-> <<>>]
Idle == [synth |-> "none", tick |-> 0, phase |-> "idle", step |-> 0]
Silent == [synth |-> "none", unit |-> 0, phase |-> "idle", got |-> <<>>]
LiveSynths == {s \in Synth : graph[s] # Absent}

\* The calc list and the order of construction.
Calc == LET S == CalcUnits(def) IN [i \in 1 .. Cardinality(S) |-> CHOOSE u \in S : Index(S, u) = i - 1]
Name(u) == def.units[u].name

----------------------------------------------------------------------------
(* Starting a synth.                                                       *)

\* build_graph, when the pool has a block: states from the image, controls
\* at their defaults, nothing done, the feedback bus silent, no local buffer.
NewGraph ==
    [ctrl    |-> [w \in 0 .. NumControlWires(def) - 1 |->
                     IF w < Len(def.params) THEN <<"default", w + 1>> ELSE Zero],
     done    |-> [i \in 0 .. Cardinality(CalcUnits(def)) - 1 |-> FALSE],
     ended   |-> [u \in CalcUnits(def) |-> FALSE],   \* ghost: what the flags stand for
     lag     |-> [p \in ParamsOf(def, "lag") |-> Zero],
     local   |-> [c \in 0 .. LocalChannels(def) - 1 |-> Silence],
     lbuf    |-> [u \in LocalBufUnits(def) |-> [live |-> FALSE, off |-> 0, len |-> 0]],
     samples |-> <<>>,
     aux     |-> [u \in PoolUnits(def) |-> "unused"],
     ticks   |-> 0,
     init    |-> FALSE]

NewSynth(s) ==
    /\ pc = Idle /\ graph[s] = Absent
    /\ graph' = [graph EXCEPT ![s] = NewGraph]
    /\ running' = Append(running, s)
    /\ heard' = Silent
    /\ UNCHANGED <<def, plan, audio, pc, turn, sets, trigSeen>>

\* The walk without a synth.
Without(s) ==
    IF s \in Range(running) THEN RemoveAt(running, CHOOSE i \in DOMAIN running : running[i] = s) ELSE running

\* into_parts: block and regions go back to their pools.
FreeSynth(s) ==
    /\ pc = Idle /\ s \in LiveSynths
    /\ graph' = [graph EXCEPT ![s] = Absent]
    /\ running' = Without(s)
    /\ heard' = Silent
    /\ UNCHANGED <<def, plan, audio, pc, turn, sets, trigSeen>>

SetRunning(s) ==
    /\ pc = Idle /\ s \in LiveSynths
    /\ running' = IF s \in Range(running) THEN Without(s) ELSE Append(running, s)
    /\ heard' = Silent
    /\ UNCHANGED <<def, plan, graph, audio, pc, turn, sets, trigSeen>>

SetControl(s, p) ==
    /\ pc = Idle /\ s \in LiveSynths /\ sets < MaxSets
    /\ sets' = sets + 1
    /\ graph' = [graph EXCEPT ![s].ctrl[ParamWire(p)] = <<"set", sets + 1>>]
    /\ heard' = Silent
    /\ UNCHANGED <<def, plan, running, audio, pc, turn, trigSeen>>

----------------------------------------------------------------------------
(* One tick.                                                               *)

\* The first tick constructs every unit, in the definition's order, and then
\* calculates the calc list; later ones only calculate. Either may be empty.
Calculate == IF Calc = <<>> THEN "ticked" ELSE "calc"
FirstStep(s) == IF graph[s].init \/ def.units = <<>> THEN Calculate ELSE "construct"

\* Audio parameters are lifted to their wires.
Lifted(s) ==
    [x \in DOMAIN audio |->
        LET lifted == {p \in ParamsOf(def, "audio") : x \div plan.bs = AudioParamWire(def, p)}
        IN  IF lifted = {} THEN audio[x] ELSE graph[s].ctrl[ParamWire(CHOOSE p \in lifted : TRUE)]]

\* Lagged ones take one step towards their value: how far is left out.
LagStep(s) == [p \in ParamsOf(def, "lag") |-> graph[s].ctrl[ParamWire(p)]]
Lagged(s) ==
    [w \in DOMAIN graph[s].ctrl |->
        LET lagged == {p \in ParamsOf(def, "lag") : w = LagWire(def, p)}
        IN  IF lagged = {} THEN graph[s].ctrl[w] ELSE <<"lag", LagStep(s)[CHOOSE p \in lagged : TRUE]>>]

\* A parameter mapped to a bus (/n_map, /n_mapa), which takes the bus's value
\* here, tick by tick, is left out: no parameter is mapped.
BeginTick(s, tick) ==
    /\ audio' = Lifted(s)
    /\ graph' = [graph EXCEPT ![s].ctrl = Lagged(s), ![s].lag = LagStep(s), ![s].ticks = @ + 1, ![s].init = TRUE]
    /\ pc' = [synth |-> s, tick |-> tick, phase |-> FirstStep(s), step |-> 1]
    /\ UNCHANGED <<def, plan, running, sets, trigSeen>>

\* The World walks the tree (run_one_block).
BeginBlock ==
    /\ pc = Idle /\ turn < MaxBlocks /\ running # <<>>
    /\ turn' = turn + 1
    /\ heard' = Silent
    /\ BeginTick(Head(running), 1)

\* Inputs::audio and Inputs::control: a demand input reads what its unit
\* pulls, input by input; in the constructor one sample of an audio input.
Samples(u, phase) == IF phase = "calc" /\ def.units[u].rate = "audio" THEN plan.bs ELSE 1

Pulled(s) ==
    LET pull[u \in DemandUnits(def)] ==
            UNION {LET src == plan.source[u][i]
                   IN  CASE src[1] = "audio"   -> {audio[src[2] * plan.bs]}
                         [] src[1] = "control" -> {graph[s].ctrl[src[2]]}
                         [] src[1] = "demand"  -> pull[CHOOSE v \in DemandUnits(def) :
                                                           Index(DemandUnits(def), v) = src[2]]
                         [] OTHER              -> {} : i \in DOMAIN plan.source[u]}
    IN  pull

Read(s, u, i, phase) ==
    LET src == plan.source[u][i]
    IN  CASE src[1] = "audio"   -> {audio[src[2] * plan.bs + k] : k \in 0 .. Samples(u, phase) - 1}
          [] src[1] = "control" -> {graph[s].ctrl[src[2]]}
          [] src[1] = "demand"  -> Pulled(s)[CHOOSE v \in DemandUnits(def) : Index(DemandUnits(def), v) = src[2]]
          [] OTHER              -> {}

Ins(s, u, phase) ==
    IF Name(u) = "LocalIn"
    THEN [c \in 1 .. LocalChannels(def) |-> IF Samples(u, phase) = plan.bs THEN {graph[s].local[c - 1]} ELSE {}]
    ELSE IF Name(u) = "watch" THEN <<{<<"done", graph[s].done[plan.watched[u]]>>}>>
    ELSE [i \in DOMAIN def.units[u].ins |-> Read(s, u, i, phase)]

\* Publish: a unit's outputs reach its wires, one sample of them while it is
\* constructed.
PublishAudio(s, u, phase, out) ==
    [x \in DOMAIN audio |->
        IF u \in AudioUnits(def) /\ \E o \in DOMAIN plan.wire[u] : x \div plan.bs = plan.wire[u][o]
                                      /\ x % plan.bs < Samples(u, phase)
        THEN out[CHOOSE o \in DOMAIN plan.wire[u] : x \div plan.bs = plan.wire[u][o]]
        ELSE audio[x]]
PublishControl(s, u, out) ==
    [w \in DOMAIN graph[s].ctrl |->
        IF u \notin AudioUnits(def) /\ \E o \in DOMAIN plan.wire[u] : w = plan.wire[u][o]
        THEN out[CHOOSE o \in DOMAIN plan.wire[u] : w = plan.wire[u][o]]
        ELSE graph[s].ctrl[w]]

\* grow_local_bufs: the storage is appended, zeroed, to a copy of the block.
Grown(g, u, len) ==
    [g EXCEPT !.lbuf[u] = [live |-> TRUE, off |-> Len(g.samples), len |-> len],
              !.samples = @ \o [k \in 1 .. len |-> Zero]]

\* A unit then writes to it (ClearBuf, SetBuf, RecordBuf).
Filled(g, s, u) ==
    [g EXCEPT !.samples = [k \in DOMAIN @ |->
              IF k > g.lbuf[u].off /\ k <= g.lbuf[u].off + g.lbuf[u].len THEN <<"fill", s, u>> ELSE @[k]]]

\* LocalOut, if its width is the bus's: the bus holds its inputs.
Fed(g, s, u, phase) ==
    IF phase = "calc" /\ Len(def.units[u].ins) = LocalChannels(def)
    THEN [g EXCEPT !.local = [c \in DOMAIN @ |-> CHOOSE x \in Read(s, u, c + 1, phase) : TRUE]]
    ELSE g

Done(g, u, b) == [g EXCEPT !.done[Index(CalcUnits(def), u)] = b, !.ended[u] = b]

\* The allocations a constructor makes, which the pools may refuse; whether
\* an envelope is done after its calc, or its retriggering cleared it.
Effects(g, s, u, phase) ==
    IF phase = "construct" /\ Name(u) = "LocalBuf" THEN {Filled(Grown(g, u, 2), s, u), Done(g, u, TRUE)}
    ELSE IF phase = "construct" /\ u \in PoolUnits(def)
         THEN {[g EXCEPT !.aux[u] = x] : x \in {"live", "failed"}}
    ELSE IF Name(u) = "env" /\ phase = "calc" THEN {Done(g, u, b) : b \in BOOLEAN}
    ELSE IF Name(u) = "LocalOut" THEN {Fed(g, s, u, phase)}
    ELSE {g}

Silenced(g, u) == u \in PoolUnits(def) /\ g.aux[u] = "failed"

Steps == IF pc.phase = "construct" THEN Len(def.units) ELSE Len(Calc)
UnitAt == IF pc.phase = "construct" THEN pc.step ELSE Calc[pc.step]

NextStep ==
    IF pc.step < Steps THEN [pc EXCEPT !.step = @ + 1]
    ELSE IF pc.phase = "construct" THEN [pc EXCEPT !.phase = Calculate, !.step = 1]
    ELSE [pc EXCEPT !.phase = "ticked"]

\* The values trigger parameters show in this read.
TrigShown(s, got) ==
    {v \in UNION Range(got) : \E p \in ParamsOf(def, "trig") : v = graph[s].ctrl[ParamWire(p)]}

\* One unit is constructed, or calculated: a demand unit is only
\* constructed, a scalar one too.
RunUnit ==
    LET s == pc.synth
        u == UnitAt
        tick == IF pc.phase = "construct" THEN 0 ELSE graph[s].ticks
    IN  /\ pc.phase \in {"construct", "calc"}
        /\ pc' = NextStep
        /\ IF IsDemand(def, u)
           THEN /\ heard' = [synth |-> s, unit |-> u, phase |-> pc.phase, got |-> <<Pulled(s)[u]>>]
                /\ UNCHANGED <<graph, audio, trigSeen>>
           ELSE IF pc.phase = "calc" /\ def.units[u].rate = "scalar"
           THEN heard' = Silent /\ UNCHANGED <<graph, audio, trigSeen>>
           ELSE LET got == Ins(s, u, pc.phase)
                IN  /\ heard' = [synth |-> s, unit |-> u, phase |-> pc.phase, got |-> got]
                    /\ trigSeen' = [v \in DOMAIN trigSeen |->
                           IF <<"set", v>> \in TrigShown(s, got) THEN trigSeen[v] \cup {graph[s].ticks} ELSE trigSeen[v]]
                    /\ \E g \in Effects(graph[s], s, u, pc.phase) :
                           LET out == [o \in 0 .. def.units[u].nout - 1 |->
                                          IF Silenced(g, u) THEN Cleared ELSE <<"out", s, u, o, tick>>]
                               h == IF Silenced(g, u) THEN Done(g, u, TRUE) ELSE g
                           IN  /\ graph' = [graph EXCEPT ![s] = [h EXCEPT !.ctrl = PublishControl(s, u, out)]]
                               /\ audio' = PublishAudio(s, u, pc.phase, out)
        /\ UNCHANGED <<def, plan, running, turn, sets>>

\* Mutant: trigger parameters are zeroed once a block, after its last tick.
EndTickOfBlock ==
    /\ pc.phase = "ticked"
    /\ LET s == pc.synth
           i == CHOOSE j \in DOMAIN running : running[j] = s
           zeroed == [graph EXCEPT ![s].ctrl = [w \in DOMAIN @ |->
                         IF pc.tick = plan.ticks /\ \E p \in ParamsOf(def, "trig") : w = ParamWire(p) THEN Zero ELSE @[w]]]
       IN  /\ graph' = zeroed
           /\ pc' = IF pc.tick < plan.ticks THEN [pc EXCEPT !.phase = "next", !.tick = @ + 1]
                    ELSE IF i < Len(running) THEN [synth |-> running[i + 1], tick |-> 1, phase |-> "next", step |-> 0]
                    ELSE Idle
    /\ heard' = Silent
    /\ UNCHANGED <<def, plan, running, audio, turn, sets, trigSeen>>

\* The tick over, trigger parameters are zeroed; the next tick of the synth,
\* or the next synth, follows.
EndTick ==
    /\ pc.phase = "ticked"
    /\ LET s == pc.synth
           i == CHOOSE j \in DOMAIN running : running[j] = s
           zeroed == [graph EXCEPT ![s].ctrl = [w \in DOMAIN @ |->
                         IF \E p \in ParamsOf(def, "trig") : w = ParamWire(p) THEN Zero ELSE @[w]]]
       IN  /\ graph' = zeroed
           /\ pc' = IF pc.tick < plan.ticks THEN [pc EXCEPT !.phase = "next", !.tick = @ + 1]
                    ELSE IF i < Len(running) THEN [synth |-> running[i + 1], tick |-> 1, phase |-> "next", step |-> 0]
                    ELSE Idle
    /\ heard' = Silent
    /\ UNCHANGED <<def, plan, running, audio, turn, sets, trigSeen>>

NextTick ==
    /\ pc.phase = "next"
    /\ heard' = Silent
    /\ BeginTick(pc.synth, pc.tick)
    /\ UNCHANGED turn

GraphInit ==
    /\ def \in {d \in Defs : ~Refused(d)}
    /\ plan = Compile(def)
    /\ running = <<>>
    /\ graph = [s \in Synth |-> Absent]
    /\ audio = [x \in 0 .. MaxWireBufs * WorldBlock - 1 |-> Rest]
    /\ pc = Idle
    /\ turn = 0
    /\ sets = 0
    /\ heard = Silent
    /\ trigSeen = [v \in 1 .. MaxSets |-> {}]

GraphNext ==
    \/ \E s \in Synth : NewSynth(s) \/ FreeSynth(s) \/ SetRunning(s)
    \/ \E s \in Synth, p \in DOMAIN def.params : SetControl(s, p)
    \/ BeginBlock \/ RunUnit \/ EndTick \/ NextTick

GraphSpec == GraphInit /\ [][GraphNext]_graphVars

----------------------------------------------------------------------------
\* What a unit was last computed as: this tick or, for a scalar unit and
\* in the constructor pass, when it was constructed.
Fresh(s, u, o, phase, tick) ==
    IF Silenced(graph[s], u) THEN Cleared
    ELSE <<"out", s, u, o, IF def.units[u].rate = "scalar" \/ phase = "construct" THEN 0 ELSE tick>>

\* What an input should bring: demand units bring their own inputs.
Owed(s, phase) ==
    LET g == graph[s]
        in(ref) ==
            CASE ref[1] = "const" -> {}
              [] ref[1] = "param" -> {IF def.params[ref[2]] = "lag" THEN <<"lag", g.lag[ref[2]]>>
                                      ELSE g.ctrl[ParamWire(ref[2])]}
              [] ref[1] = "unit"  -> {Fresh(s, ref[2], ref[3], phase, g.ticks)}
        pulled[u \in DemandUnits(def)] ==
            UNION {LET ref == def.units[u].ins[i]
                   IN  IF ref[1] = "unit" /\ IsDemand(def, ref[2]) THEN pulled[ref[2]] ELSE in(ref)
                   : i \in DOMAIN def.units[u].ins}
    IN  [u \in Units(def) |-> IF IsDemand(def, u) THEN <<pulled[u]>>
         ELSE [i \in DOMAIN def.units[u].ins |->
                  LET ref == def.units[u].ins[i]
                  IN  IF ref[1] = "unit" /\ IsDemand(def, ref[2]) THEN pulled[ref[2]] ELSE in(ref)]]

\* What the feedback bus should bring: the LocalOut's inputs of the tick
\* before, silence in the first one or if there is none as wide.
OwedBack(s) ==
    LET outs == {u \in Units(def) : Name(u) = "LocalOut" /\ Len(def.units[u].ins) = LocalChannels(def)}
    IN  [c \in 1 .. LocalChannels(def) |->
            IF outs = {} \/ graph[s].ticks = 1 THEN {Silence}
            ELSE LET ref == def.units[CHOOSE u \in outs : TRUE].ins[c]
                 IN  {Fresh(s, ref[2], ref[3], "calc", graph[s].ticks - 1)}]

\* Although all synths compute in the same wires, a unit hears its own
\* synth's units as they were computed in the same tick, its parameters as
\* they stand, and nothing of another synth or an earlier tick - but for
\* LocalIn, which hears the tick before, paused blocks aside; a watcher
\* sees whether the unit it watches is done by now (graph.rs, synthdef.rs,
\* local_io.rs; DoneState in unit/mod.rs).
InputsFresh ==
    heard.synth # "none" =>
        LET s == heard.synth
            u == heard.unit
        IN  CASE Name(u) = "LocalIn" -> heard.phase = "calc" => heard.got = OwedBack(s)
              [] Name(u) = "watch"   -> heard.got = <<{<<"done", graph[s].ended[def.units[u].ins[1][2]]>>}>>
              [] OTHER               -> heard.got = Owed(s, heard.phase)[u]

\* A value set on a trigger parameter shows in one tick - the first the
\* synth runs after it - to all who read the parameter, and in no other
\* ("for exactly the control tick it lands in", graph.rs).
TrigOneTick ==
    /\ \A v \in DOMAIN trigSeen : Cardinality(trigSeen[v]) <= 1
    /\ pc.phase = "ticked" =>
           \A p \in ParamsOf(def, "trig"), v \in 1 .. MaxSets :
               /\ graph[pc.synth].ctrl[ParamWire(p)] = <<"set", v>>
               /\ \E u \in CalcUnits(def) : /\ def.units[u].rate # "scalar" /\ Name(u) \notin {"LocalIn", "watch"}
                                           /\ <<"param", p>> \in Range(def.units[u].ins)
               => trigSeen[v] = {graph[pc.synth].ticks}

\* Each local buffer that got its storage keeps it, and what is in it,
\* while the block is moved to make room for the others (grow_local_bufs;
\* "each buffer is appended at a distinct offset", LocalBufs::pair_mut).
LocalBufsKept ==
    \A s \in LiveSynths : \A u \in LocalBufUnits(def) : graph[s].lbuf[u].live =>
        \A k \in 1 .. graph[s].lbuf[u].len : graph[s].samples[graph[s].lbuf[u].off + k] = <<"fill", s, u>>

\* A synth computes with its own values and buffers only, though all synths
\* share the wires and each block of the pool is carved by offsets.
SynthsApart == InputsFresh /\ LocalBufsKept

\* The plan an accepted definition compiles to is sound (PlanSound): the
\* spans of the block, the units' states and regions and the wires are
\* disjoint and in bounds ("the spans are contiguous, hence disjoint",
\* graphdef.rs; "none is reachable from below it", demand/mod.rs). Neither
\* changes while synths run, so it is read when none does.
PlansSound == running = <<>> => PlanSound(def, plan)
====
