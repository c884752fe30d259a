---- MODULE SynthCompile ----
(***************************************************************************)
(* SynthDef::compile (plyphon/src/synthdef.rs): a definition's parameters  *)
(* and units become a calc list, a demand plan, wires, and the layout of   *)
(* the block of memory every synth of it gets (build_layout in             *)
(* plyphon-unit/src/graphdef.rs).                                          *)
(*                                                                         *)
(* A definition is [params, units, reblock, resample]; a parameter is its  *)
(* kind; reblock is <<n>> or, for the World's block, <<>>; a unit is       *)
(*   [name, rate, ins, nout, size, align, aux, pool]                       *)
(* with its inputs <<"const">>, <<"param", p>> or <<"unit", u, o>> and the *)
(* bytes its constructor asks for. Unit and parameter numbers start at 1,  *)
(* wires, offsets, outputs and plan indices at 0 as in the code.           *)
(***************************************************************************)
EXTENDS Integers, Sequences, FiniteSetsExt, SequencesExt

CONSTANTS
    WorldBlock,       \* samples of the World's block
    MaxWireBufs,      \* audio wires the shared scratch holds
    MaxUnitOutputs,   \* outputs the shared scratch holds
    MaxDemandState,   \* bytes of the demand pull's stack copy
    MaxDemandDepth,   \* demand units nested in one pull
    MetaBytes         \* bytes of a local buffer's record

ASSUME CompileAssumption ==
    /\ WorldBlock \in Nat \ {0}
    /\ {MaxWireBufs, MaxUnitOutputs, MaxDemandState, MaxDemandDepth, MetaBytes} \subseteq Nat
    /\ MetaBytes % 4 = 0

\* What a definition may be made of; states are aligned like the types the
\* units keep in them.
Kind == {"control", "trig", "audio", "lag"}
Input == {<<"const">>} \cup {"param"} \X (Nat \ {0}) \cup {"unit"} \X (Nat \ {0}) \X Nat
UnitSpec ==
    [name : STRING, rate : {"audio", "control", "scalar", "demand"}, ins : Seq(Input), nout : Nat,
     size : Nat, align : {1, 2, 4, 8}, aux : Nat, pool : BOOLEAN]
Definitions == [params : Seq(Kind), units : Seq(UnitSpec), reblock : Seq(Nat), resample : Nat]

Units(d) == DOMAIN d.units
IsDemand(d, u) == d.units[u].rate = "demand"
DemandUnits(d) == {u \in Units(d) : IsDemand(d, u)}
CalcUnits(d) == Units(d) \ DemandUnits(d)
Before(S, u) == {v \in S : v < u}

Index(S, u) == Cardinality(Before(S, u))
\* Outputs of the units of S, counted unit by unit.
Outs(d, S) ==
    LET sum[k \in 0 .. Len(d.units)] ==
            IF k = 0 THEN 0 ELSE sum[k - 1] + (IF k \in S THEN d.units[k].nout ELSE 0)
    IN  sum[Len(d.units)]

ParamsOf(d, kind) == {p \in DOMAIN d.params : d.params[p] = kind}

----------------------------------------------------------------------------
(* Wires. Parameters come first: values, then lagged outputs, among the    *)
(* control wires; audio parameters among the audio wires.                  *)

AudioUnits(d) == {u \in CalcUnits(d) : d.units[u].rate = "audio"}
ControlUnits(d) == CalcUnits(d) \ AudioUnits(d)

ParamWire(p) == p - 1
LagWire(d, p) == Len(d.params) + Index(ParamsOf(d, "lag"), p)
AudioParamWire(d, p) == Index(ParamsOf(d, "audio"), p)
\* Mutant: audio outputs are numbered as if there were no audio parameters.
UnitWireOverParams(d, u, o) ==
    IF u \in AudioUnits(d) THEN Outs(d, Before(AudioUnits(d), u)) + o
    ELSE Len(d.params) + Cardinality(ParamsOf(d, "lag")) + Outs(d, Before(ControlUnits(d), u)) + o
UnitWire(d, u, o) ==
    IF u \in AudioUnits(d)
    THEN Cardinality(ParamsOf(d, "audio")) + Outs(d, Before(AudioUnits(d), u)) + o
    ELSE Len(d.params) + Cardinality(ParamsOf(d, "lag")) + Outs(d, Before(ControlUnits(d), u)) + o

NumAudioWires(d) == Cardinality(ParamsOf(d, "audio")) + Outs(d, AudioUnits(d))
NumControlWires(d) ==
    Len(d.params) + Cardinality(ParamsOf(d, "lag")) + Outs(d, ControlUnits(d))

\* An input's source, once resolved.
ParamSource(d, p) ==
    CASE d.params[p] = "audio" -> <<"audio", AudioParamWire(d, p)>>
      [] d.params[p] = "lag"   -> <<"control", LagWire(d, p)>>
      [] OTHER                 -> <<"control", ParamWire(p)>>
Source(d, in) ==
    CASE in[1] = "const" -> in
      [] in[1] = "param" -> ParamSource(d, in[2])
      [] in[1] = "unit"  -> IF IsDemand(d, in[2]) THEN <<"demand", Index(DemandUnits(d), in[2])>>
                            ELSE <<IF in[2] \in AudioUnits(d) THEN "audio" ELSE "control",
                                   UnitWire(d, in[2], in[3])>>

\* A reference is good if its target exists and, from a demand unit to
\* another, comes earlier; from a calc unit any target is taken.
GoodInput(d, u, in) ==
    CASE in[1] = "const" -> TRUE
      [] in[1] = "param" -> in[2] \in DOMAIN d.params
      [] in[1] = "unit"  -> /\ in[2] \in Units(d)
                            /\ in[3] < d.units[in[2]].nout
                            /\ IsDemand(d, u) /\ IsDemand(d, in[2]) => in[2] < u

----------------------------------------------------------------------------
(* build_layout.                                                           *)

AlignUp(x, align) == ((x + align - 1) \div align) * align

\* Slots [size, align] packed in order: their offsets, and the end.
Pack(slots) ==
    LET end[k \in 0 .. Len(slots)] ==
            IF k = 0 THEN 0 ELSE AlignUp(end[k - 1], slots[k].align) + slots[k].size
    IN  [offs |-> [k \in 1 .. Len(slots) |-> AlignUp(end[k - 1], slots[k].align)],
         end  |-> end[Len(slots)]]

Slots(d, S, size(_), align(_)) ==
    [i \in 1 .. Cardinality(S) |->
        LET u == CHOOSE v \in S : Index(S, v) = i - 1
        IN  [size |-> size(u), align |-> align(u)]]

StateSlots(d, S) == Slots(d, S, LAMBDA u : d.units[u].size, LAMBDA u : d.units[u].align)
AuxSlots(d, S) == Slots(d, S, LAMBDA u : d.units[u].aux,
                         LAMBDA u : IF d.units[u].aux = 0 THEN 1 ELSE 4)

States(d) == Pack(StateSlots(d, CalcUnits(d)))
\* Mutant: the regions are packed first, the states after them.
DemandsAuxFirst(d) ==
    LET n == Cardinality(DemandUnits(d))
        p == Pack(AuxSlots(d, DemandUnits(d)) \o StateSlots(d, DemandUnits(d)))
    IN  [p EXCEPT !.offs = SubSeq(@, n + 1, 2 * n) \o SubSeq(@, 1, n)]

\* Every demand unit's state, then every demand unit's aux region.
Demands(d) == Pack(StateSlots(d, DemandUnits(d)) \o AuxSlots(d, DemandUnits(d)))
Auxes(d) == Pack(AuxSlots(d, CalcUnits(d)))

BlockSize(d) == IF d.reblock = <<>> THEN WorldBlock ELSE d.reblock[1]
LocalChannels(d) ==
    LET ins == {u \in Units(d) : d.units[u].name = "LocalIn"}
    IN  IF ins = {} THEN 0 ELSE d.units[CHOOSE u \in ins : TRUE].nout
NumLocalBufs(d) == Cardinality({u \in CalcUnits(d) : d.units[u].name = "LocalBuf"})

\* The spans of a synth's block and their lengths, in order.
SpanLengths(d) == <<
    <<"state",    AlignUp(States(d).end, 8)>>,
    <<"demand",   AlignUp(Demands(d).end, 8)>>,
    <<"aux",      AlignUp(Auxes(d).end, 8)>>,
    <<"control",  4 * NumControlWires(d)>>,
    <<"pmaps",    4 * Len(d.params)>>,
    <<"done",     4 * Cardinality(CalcUnits(d))>>,
    <<"local",    4 * LocalChannels(d) * BlockSize(d)>>,
    <<"lbufmeta", MetaBytes * NumLocalBufs(d)>>,
    <<"amaps",    4 * Len(d.params)>>,
    <<"lag",      4 * Cardinality(ParamsOf(d, "lag"))>> >>

SpanNames == {"state", "demand", "aux", "control", "pmaps", "done", "local", "lbufmeta", "amaps", "lag"}

\* Each span starts where the one before it ends; local buffers go last.
BuildLayout(d) ==
    LET L == SpanLengths(d)
        off[k \in 1 .. Len(L) + 1] == IF k = 1 THEN 0 ELSE off[k - 1] + L[k - 1][2]
    IN  [spans |-> [n \in SpanNames |->
                       LET k == CHOOSE j \in DOMAIN L : L[j][1] = n
                       IN  [off |-> off[k], len |-> L[k][2]]],
         total |-> off[Len(L) + 1]]

----------------------------------------------------------------------------
(* What a definition is refused for, and the plan of one that is not.      *)

\* Longest chain of demand units below each, in one forward pass.
Depths(d) ==
    LET depth[u \in DemandUnits(d)] ==
            LET nested == {v \in DemandUnits(d) : \E i \in DOMAIN d.units[u].ins :
                               d.units[u].ins[i][1] = "unit" /\ d.units[u].ins[i][2] = v}
            IN  1 + Max({0} \cup {depth[v] : v \in nested})
    IN  depth

PowerOfTwo(n) == \E k \in 0 .. n : n = 2 ^ k

InvalidReblock(d) == d.reblock # <<>> /\ ~(PowerOfTwo(BlockSize(d)) /\ BlockSize(d) <= WorldBlock)
InvalidResample(d) == ~PowerOfTwo(d.resample)
DemandMultiOutput(d) == \E u \in DemandUnits(d) : d.units[u].nout # 1
MultipleLocalBuses(d) ==
    \E n \in {"LocalIn", "LocalOut"} : Cardinality({u \in Units(d) : d.units[u].name = n}) > 1
TooManyWires(d) == NumAudioWires(d) > MaxWireBufs
BadInputRef(d) == \E u \in Units(d) : \E i \in DOMAIN d.units[u].ins : ~GoodInput(d, u, d.units[u].ins[i])
DemandStateTooLarge(d) == \E u \in DemandUnits(d) : d.units[u].size > MaxDemandState
TooManyOutputs(d) == \E u \in CalcUnits(d) : d.units[u].nout > MaxUnitOutputs
DemandNestingTooDeep(d) == \E u \in DemandUnits(d) : Depths(d)[u] > MaxDemandDepth

Refused(d) ==
    \/ InvalidReblock(d) \/ InvalidResample(d) \/ DemandMultiOutput(d) \/ MultipleLocalBuses(d)
    \/ TooManyWires(d) \/ BadInputRef(d) \/ DemandStateTooLarge(d) \/ TooManyOutputs(d)
    \/ DemandNestingTooDeep(d)

\* Units that allocate at synth start, and local buffers, in calc order.
PoolUnits(d) == {u \in CalcUnits(d) : d.units[u].pool}
LocalBufUnits(d) == {u \in CalcUnits(d) : d.units[u].name = "LocalBuf"}

Compile(d) == [
    bs     |-> BlockSize(d),
    ticks  |-> (WorldBlock \div BlockSize(d)) * d.resample,
    source |-> [u \in Units(d) |-> [i \in DOMAIN d.units[u].ins |-> Source(d, d.units[u].ins[i])]],
    wire   |-> [u \in CalcUnits(d) |-> [o \in 0 .. d.units[u].nout - 1 |-> UnitWire(d, u, o)]],
    watched |-> [u \in {v \in Units(d) : d.units[v].name = "watch"} |-> Index(CalcUnits(d), d.units[u].ins[1][2])],
    states |-> States(d).offs,
    demands |-> Demands(d).offs,
    auxes  |-> Auxes(d).offs,
    layout |-> BuildLayout(d)]

----------------------------------------------------------------------------
(* What an accepted plan owes the audio thread.                            *)

Apart(a, b) == a.off + a.len <= b.off \/ b.off + b.len <= a.off
Inside(a, len) == a.off >= 0 /\ a.off + a.len <= len

StateRange(d, plan, u) == [off |-> plan.states[Index(CalcUnits(d), u) + 1], len |-> d.units[u].size]
AuxRange(d, plan, u) == [off |-> plan.auxes[Index(CalcUnits(d), u) + 1], len |-> d.units[u].aux]
DemandState(d, plan, u) == [off |-> plan.demands[Index(DemandUnits(d), u) + 1], len |-> d.units[u].size]
DemandAux(d, plan, u) ==
    [off |-> plan.demands[Cardinality(DemandUnits(d)) + Index(DemandUnits(d), u) + 1],
     len |-> d.units[u].aux]

\* Who writes each wire: a parameter's value, its lagged or audio output, a
\* unit's output.
UnitWires(plan, S) ==
    UNION {{[of |-> <<"out", u, o>>, at |-> plan.wire[u][o]] : o \in DOMAIN plan.wire[u]} : u \in S}
ControlWires(d, plan) ==
    {[of |-> <<"value", p>>, at |-> ParamWire(p)] : p \in DOMAIN d.params} \cup
    {[of |-> <<"lag", p>>, at |-> LagWire(d, p)] : p \in ParamsOf(d, "lag")} \cup
    UnitWires(plan, ControlUnits(d))
AudioWires(d, plan) ==
    {[of |-> <<"audio", p>>, at |-> AudioParamWire(d, p)] : p \in ParamsOf(d, "audio")} \cup
    UnitWires(plan, AudioUnits(d))
OneWriter(wires) == \A w, x \in wires : w.at = x.at => w = x

\* Spans are apart and inside the block; states, regions and f32 data are
\* aligned.
SpansSafe(plan) ==
    LET span == plan.layout.spans
    IN  /\ \A m, n \in SpanNames : m # n => Apart(span[m], span[n])
        /\ \A n \in SpanNames : Inside(span[n], plan.layout.total) /\ span[n].off % 4 = 0
        /\ \A n \in {"state", "demand", "aux"} : span[n].off % 8 = 0

CalcsSafe(d, plan) ==
    LET span == plan.layout.spans
    IN  \A u, v \in CalcUnits(d) :
            /\ StateRange(d, plan, u).off % d.units[u].align = 0
            /\ d.units[u].aux > 0 => AuxRange(d, plan, u).off % 4 = 0
            /\ Inside(StateRange(d, plan, u), span["state"].len)
            /\ Inside(AuxRange(d, plan, u), span["aux"].len)
            /\ u # v => Apart(StateRange(d, plan, u), StateRange(d, plan, v))
                        /\ Apart(AuxRange(d, plan, u), AuxRange(d, plan, v))

\* The split a demand pull makes at its region leaves every state, and every
\* region a nested pull needs, below it.
DemandsSafe(d, plan) ==
    /\ \A u, v \in DemandUnits(d) :
           /\ DemandState(d, plan, u).off % d.units[u].align = 0
           /\ d.units[u].aux > 0 => DemandAux(d, plan, u).off % 4 = 0
           /\ Inside(DemandAux(d, plan, u), plan.layout.spans["demand"].len)
           /\ Inside(DemandState(d, plan, v), DemandAux(d, plan, u).off)
           /\ u # v => Apart(DemandState(d, plan, u), DemandState(d, plan, v))
                       /\ Apart(DemandAux(d, plan, u), DemandAux(d, plan, v))
    /\ \A u \in DemandUnits(d) : \A i \in DOMAIN plan.source[u] : plan.source[u][i][1] = "demand" =>
           LET v == CHOOSE w \in DemandUnits(d) : Index(DemandUnits(d), w) = plan.source[u][i][2]
           IN  Inside(DemandAux(d, plan, v), DemandAux(d, plan, u).off)

WiresSafe(d, plan) ==
    /\ OneWriter(ControlWires(d, plan)) /\ OneWriter(AudioWires(d, plan))
    /\ \A w \in ControlWires(d, plan) : 4 * (w.at + 1) <= plan.layout.spans["control"].len
    /\ \A w \in AudioWires(d, plan) : (w.at + 1) * plan.bs <= MaxWireBufs * WorldBlock

\* No two units share memory, aligned for what they keep in it; no wire has
\* two writers or lies outside its span or the shared scratch.
PlanSound(d, plan) ==
    SpansSafe(plan) /\ CalcsSafe(d, plan) /\ DemandsSafe(d, plan) /\ WiresSafe(d, plan)
====
