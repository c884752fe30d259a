------------------------------- MODULE UnitLives -------------------------------
(***************************************************************************)
(* The lives of the units whose state is more than coefficients and words: *)
(* delay lines, grains, chains of spectral units and convolvers.  A        *)
(* behaviour picks one machine, builds it and runs it a block at a time,   *)
(* with inputs that may be different in each block.                        *)
(***************************************************************************)
EXTENDS SpectralChain, Convolvers

CONSTANTS
    Sub,        \* units of delay in a sample
    Stale,      \* what memory holds before it is written
    Zero,       \* what a guarded tap gives
    MaxGrains,  \* places in a bank of grains
    NONE,       \* the end of a list of grains
    Lives       \* bound: the blocks a machine of each kind is run for

VARIABLES
    machine,    \* "line", "tap", "bank", "warp", "graintap", "chain", "convolver"
    u,          \* the unit, or the chain of units
    s           \* its state

lifeVars == <<machine, u, s>>

Lines == INSTANCE DelayLines WITH Block <- ChainBlock
Grainy == INSTANCE Grains WITH Block <- ChainBlock
--------------------------------------------------------------------------------
(* Delay lines.                                                            *)

\* Delays in parts of a sample, all a whole number of steps of a block's slope
\* apart: shorter than the shortest, in range, and longer than the longest.
Delays == {0, Sub + ChainBlock, 3 * Sub, 30 * Sub}
LineKinds ==
    { [kind |-> k, interp |-> i, rate |-> r, max |-> IF k \in {"bufdelay", "bufcomb"} THEN 6 ELSE 1] :
        k \in {"delay", "comb", "bufdelay", "bufcomb", "pluck"}, i \in {"N", "L", "C"}, r \in {"audio", "control"} }
LineUnits == {v \in LineKinds : v.kind = "pluck" => v.interp = "L" /\ v.rate = "control"}
TapUnits == [kind : {"deltap"}, interp : {"N", "L", "C"}, rate : {"audio", "control"}, max : {8}, order : {"before", "after"}]

\* A buffer may be missing in any block; once in a life it is replaced, by a
\* smaller or a larger one.  (One that ends at or before DelTapWr's head would
\* make it index past the end: the tap gets none of these.)
Swaps(v, now) ==
    IF v.kind \in {"bufdelay", "bufcomb"} THEN {3, 9}
    ELSE {frames \in {5, 12} : frames > now.phase}
Buffers(v, now) ==
    IF v.kind \notin {"bufdelay", "bufcomb", "deltap"} THEN {Lines!Same}
    ELSE {Lines!Same, Lines!Gone} \cup (IF now.wr > 0 /\ now.placed = 0 THEN Swaps(v, now) ELSE {})
Unstarted == [wr |-> 0, placed |-> 0]

DelayInput(v, now, delays) ==
    [delay : IF v.rate = "audio" THEN [1 .. ChainBlock -> delays] ELSE {<<d>> : d \in delays},
     decay : IF v.kind \in {"comb", "pluck"} THEN {1, 2} ELSE {1},
     trig  : IF v.kind = "pluck" THEN BOOLEAN ELSE {FALSE},
     buf   : Buffers(v, now)]
--------------------------------------------------------------------------------
(* Grains.                                                                 *)

BankUnits == [kind : {"bank"}, rate : {"audio", "control"}, max : {2, 3}]
GrainInput(v) ==
    [trig : IF v.kind = "bank" THEN (IF v.rate = "audio" THEN [1 .. ChainBlock -> BOOLEAN] ELSE {<<b>> : b \in BOOLEAN})
            ELSE {<<FALSE>>},
     dur      : {1, 5, 9},
     overlaps : IF v.kind = "bank" THEN {1} ELSE {1, 3},
     there    : IF v.kind = "bank" THEN {TRUE} ELSE BOOLEAN]
--------------------------------------------------------------------------------
(* Chains.                                                                 *)

FrameOf(op) == [form |-> op.form, pair |-> op.pair, keeps |-> op.keeps, copies |-> op.copies]
FrameOps == {FrameOf(op) : op \in {PvMagSquared, PvMagMul, PvComplex, PvCopy, PackFft, PvMagNoise, PvRandComb, PvRandWipe,
                                  PvDiffuser, PvBinShift, PvMagSmear, PvMagFreeze, PvBinWipe, PvConj}}
Plain == {op \in FrameOps : op.keeps = "none"}
Chains == {c \in [source : {"fft", "trigger"}, polar : BOOLEAN, size : {4}, hop : {2, 4}, hop2 : {2, 4},
                  ops : {<<a>> : a \in FrameOps} \cup {<<a, b>> : a \in Plain, b \in Plain}] :
              (c.source = "fft" => ~c.polar) /\ (c.hop2 = 4 \/ \E k \in DOMAIN c.ops : c.ops[k].pair)}

\* A trigger for what keeps an order, a pool that may be out of memory at the first
\* frame, one block in which the analysis is switched off, and a buffer that the host
\* replaces by one of another size.
ChainInput(c, now) ==
    LET single == Len(c.ops) = 1
        keeps == IF single THEN c.ops[1].keeps ELSE "none"
    IN  [trig   : IF keeps \in {"order", "hold"} THEN {0, 1} ELSE {0},
         room   : IF keeps # "none" /\ now.blocks < 2 THEN BOOLEAN ELSE {TRUE},
         active : IF now.blocks = 2 THEN BOOLEAN ELSE {TRUE},
         size   : IF single /\ now.swaps < 2 /\ now.blocks \in {2, 4} THEN {4, 8} ELSE {now.bufs[1].size}]
--------------------------------------------------------------------------------
(* Convolvers.                                                             *)

Convs == [kind : {"frame", "kernel", "fade"}, blocks : {1, 2}, parts : {1}]
            \cup [kind : {"part"}, blocks : 2 .. 4, parts : {1, 2, 3, 5, 6}]
ConvInput(c, now) ==
    LET retriggered == c.kind \in {"kernel", "fade"}
        early == now.blocks < 3
    IN  {x \in [trig : {0, 1}, there : BOOLEAN, fade : 0 .. 2] :
            /\ x.trig = 1 => retriggered
            /\ ~x.there => early /\ (c.kind = "part" \/ x.trig = 1)
            /\ x.fade # 1 => c.kind = "fade" /\ x.trig = 1}
--------------------------------------------------------------------------------
LifeInit ==
    \/ machine = "line" /\ u \in LineUnits /\ \E x \in DelayInput(u, Unstarted, Delays) : s = Lines!LineInit(u, x)
    \/ machine = "tap" /\ u \in TapUnits /\ \E x \in DelayInput(u, Unstarted, Delays) : s = Lines!TapInit(u, x)
    \/ machine = "bank" /\ u \in BankUnits /\ s = Grainy!BankInit
    \/ machine = "warp" /\ u = [kind |-> "warp"] /\ s = Grainy!WarpInit
    \/ machine = "graintap" /\ u = [kind |-> "tap"] /\ s = Grainy!TapGrainsInit
    \/ machine = "chain" /\ u \in Chains /\ s = ChainStart(u)
    \/ machine = "convolver" /\ u \in Convs /\ s = ConvStart(u)

Stays == UNCHANGED <<machine, u>>

DelayBlock ==
    /\ machine = "line" /\ s.wr < Lives.line * ChainBlock
    /\ \E x \in DelayInput(u, s, Delays) : \E after \in {Lines!LineBlock(u, s, x)} : s' = after
    /\ Stays
DelTapBlock ==
    /\ machine = "tap" /\ s.wr < Lives.line * ChainBlock
    /\ \E x \in DelayInput(u, s, Delays) : \E after \in {Lines!TapBlock(u, s, x)} : s' = after
    /\ Stays
GrainBlock ==
    /\ machine = "bank" /\ s.now < Lives.grain * ChainBlock
    /\ \E x \in GrainInput(u) : \E after \in {Grainy!BankBlock(u, s, x)} : s' = after
    /\ Stays
Warp1Block ==
    /\ machine = "warp" /\ s.now < Lives.grain * ChainBlock
    /\ \E x \in GrainInput(u) : \E after \in {Grainy!WarpBlock(s, x)} : s' = after
    /\ Stays
GrainTapBlock ==
    /\ machine = "graintap" /\ s.now < Lives.grain * ChainBlock
    /\ \E x \in GrainInput(u) : \E after \in {Grainy!TapGrainsBlock(s, x)} : s' = after
    /\ Stays
SpectralBlock ==
    /\ machine = "chain" /\ s.blocks < Lives.chain
    /\ \E x \in ChainInput(u, s) : \E after \in {ChainBlockOf(u, s, x)} : s' = after
    /\ Stays
ConvolverBlock ==
    /\ machine = "convolver" /\ s.blocks < (IF u.kind = "part" THEN Lives.parts ELSE Lives.frames)
    /\ \E x \in ConvInput(u, s) : \E after \in {ConvBlockOf(u, s, x)} : s' = after
    /\ Stays

LifeNext ==
    DelayBlock \/ DelTapBlock \/ GrainBlock \/ Warp1Block \/ GrainTapBlock \/ SpectralBlock \/ ConvolverBlock

LifeSpec == LifeInit /\ [][LifeNext]_lifeVars
--------------------------------------------------------------------------------
\* A delay reads back what went into its line, and silence before that, never what
\* the memory held (delay.rs, deltap.rs).
LineReadsBack == machine \in {"line", "tap"} => Lines!LineReadsBack(u, s)

\* Grains play from their start to their end, whatever happens to the places beside
\* theirs, and a scan starts its grains when they are due (grain.rs, grain_tap.rs).
GrainsInTime ==
    machine \in {"bank", "warp", "graintap"} => Grainy!GrainsPlayThrough(u, s) /\ Grainy!WarpKeepsTime(u, s)

\* Whatever works in frames puts its samples out a fixed time after they came in:
\* the chain's resynthesis, the convolvers' frames and the partitions of PartConv.
FramesOnTime ==
    /\ machine = "chain" => OnTime(u, s)
    /\ machine = "convolver" => FramesLineUp(u, s) /\ PartitionsMeet(u, s)

\* A spectrum is in the form its buffer says, and a unit's tables are filled before
\* they are read and drawn when they are asked for (pv.rs, pv_random.rs, pv_ops.rs).
SpectraTrue == machine = "chain" => FormsTrue(u, s) /\ DrawsWhenAsked(u, s) /\ TablesFilled(u, s)

\* A convolver sounds with the kernel that settled last and, during a fade, the one
\* asked for last, however triggers and fades cross (convolution2.rs).
KernelInUse == machine = "convolver" => KernelSettles(u, s)
===============================================================================
