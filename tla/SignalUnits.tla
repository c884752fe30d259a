----------------------------- MODULE SignalUnits -----------------------------
(***************************************************************************)
(* The units that combine, shape, count and place signals; envelopes,      *)
(* lines and the units that act on the synth they run in.                  *)
(***************************************************************************)
EXTENDS UnitRows

\* pan.rs.  Every output is a loop of its own over the input slices; the level
\* of some is 1 when it is not given.
Pan2      == [Unit EXCEPT !.args = 2, !.slices = {0}, !.once = {1}, !.opts = {2}, !.outs = 2, !.rates = {"audio"}]
LinPan2   == [Pan2 EXCEPT !.need = 2]
Balance2  == [AudioFilter EXCEPT !.need = 3, !.slices = {0, 1}, !.once = {2}, !.opts = {3}, !.outs = 2]
XFade2    == [Balance2 EXCEPT !.outs = 1]
LinXFade2 == [XFade2 EXCEPT !.opts = {}]
Rotate2   == [Balance2 EXCEPT !.opts = {}]
Pan4      == [AudioFilter EXCEPT !.need = 4, !.once = {1, 2, 3}, !.outs = 4]
PanB      == Pan4
PanB2     == [AudioFilter EXCEPT !.need = 3, !.once = {1, 2}, !.outs = 3]
BiPanB2   == [AudioFilter EXCEPT !.need = 4, !.slices = {0, 1}, !.once = {2, 3}, !.outs = 3]
DecodeB2  == [AudioFilter EXCEPT !.need = 4, !.slices = {0, 1, 2}, !.seeds = {3}, !.outs = 4]
PanAz     == [AudioFilter EXCEPT !.need = 5, !.once = {1, 2, 3, 4}, !.outs = 4]

\* shape.rs, binary_op.rs, unary_op.rs: whatever the rate of an operand
RangeShaper == [Unit EXCEPT !.need = 3, !.sigs = {0, 1, 2}]
InRange     == [Unit EXCEPT !.need = 3, !.sigs = {0}, !.once = {1, 2}]
InRect      == [Unit EXCEPT !.need = 6, !.sigs = {0, 1}, !.once = 2 .. 5]
LinExp      == [Unit EXCEPT !.need = 5, !.sigs = {0}, !.once = 1 .. 4]
Unwrap      == [Unit EXCEPT !.need = 3, !.sigs = {0}, !.seeds = {0, 1, 2}]
BinaryOp     == [Unit EXCEPT !.need = 2, !.exact = TRUE, !.sigs = {0, 1}]
RandBinaryOp == BinaryOp
UnaryOp      == [Unit EXCEPT !.need = 1, !.exact = TRUE, !.sigs = {0}]
RandUnaryOp  == UnaryOp

\* select.rs.  The index clamps to the inputs there are; the table units read a
\* buffer, or 0 when there is none.
Select  == [Unit EXCEPT !.need = 2, !.sigs = {0, 1}, !.opts = {2}]
TWindex == [Unit EXCEPT !.need = 2, !.sigs = {0}, !.once = {1}, !.opts = {2, 3}, !.seeds = {1}, !.seedOpts = {2, 3}, !.init = "own"]
Index          == [Unit EXCEPT !.need = 2, !.once = {0}, !.sigs = {1}]
Shaper         == Index
DegreeToKey    == [Index EXCEPT !.opts = {2}]
IndexInBetween == Index
DetectIndex    == [Index EXCEPT !.seeds = {0, 1}, !.init = "own"]

\* trigger.rs: each remembers the trigger of the sample before, in the block or
\* across its edge
Trig1      == [Unit EXCEPT !.need = 2, !.sigs = {0}, !.once = {1}, !.init = "restore"]
Trig       == Trig1
TDelay     == Trig1
ToggleFF   == [Unit EXCEPT !.need = 1, !.sigs = {0}, !.init = "restore"]
SetResetFF == [Unit EXCEPT !.need = 2, !.sigs = {0, 1}, !.init = "restore"]
Latch      == SetResetFF
Gate       == SetResetFF
Schmidt    == [Unit EXCEPT !.need = 3, !.sigs = {0}, !.once = {1, 2}, !.init = "restore"]

\* timing.rs
PulseCount   == SetResetFF
PulseDivider == [Unit EXCEPT !.need = 2, !.sigs = {0}, !.once = {1}, !.init = "restore"]
Stepper      == [Unit EXCEPT !.need = 6, !.sigs = {0, 1}, !.once = 2 .. 5,
                             !.init = "restore"]
ZeroCrossing == [Unit EXCEPT !.need = 1, !.sigs = {0}, !.seeds = {0}, !.init = "own"]
Timer        == [Unit EXCEPT !.need = 1, !.sigs = {0}, !.init = "restore"]
Sweep        == [Unit EXCEPT !.need = 2, !.sigs = {0, 1}, !.init = "restore"]
Phasor       == [Unit EXCEPT !.need = 5, !.sigs = {0, 1}, !.once = 2 .. 4, !.init = "restore"]

\* measure.rs: the level starts at the input
Peak         == [Unit EXCEPT !.need = 2, !.sigs = {0, 1}, !.seeds = {0}, !.init = "restore"]
RunningMin   == [Peak EXCEPT !.init = "own"]
RunningMax   == RunningMin
PeakFollower == [Unit EXCEPT !.need = 2, !.sigs = {0}, !.once = {1}, !.seeds = {0}, !.init = "restore"]
MostChange   == [Unit EXCEPT !.need = 2, !.sigs = {0, 1}, !.seeds = {0, 1},
                             !.init = "restore"]
LeastChange  == MostChange
LastValue    == PeakFollower

\* section.rs, physical.rs: sections and springs over an audio input
FOS    == [AudioFilter EXCEPT !.need = 4, !.once = 1 .. 3]
SOS    == [AudioFilter EXCEPT !.need = 6, !.once = 1 .. 5]
Spring == [AudioFilter EXCEPT !.need = 3, !.once = {1, 2}]
Ball   == [AudioFilter EXCEPT !.need = 4, !.once = {1, 2, 3}, !.seeds = {0}]
TBall  == Ball

\* info.rs: one value for the block
Info    == Unit
BufInfo == [Unit EXCEPT !.args = 1, !.once = {0}]
SubsampleOffset == Unit

-----------------------------------------------------------------------------
\* env.rs, line.rs, linen.rs
Line    == [Unit EXCEPT !.need = 3, !.seeds = 0 .. 2, !.seedOpts = {3}, !.init = "own"]
XLine   == Line
EnvGen  == [Unit EXCEPT !.args = 5, !.once = 0 .. 4, !.opts = {5, 6, 7, 9, 10, 11, 12}, !.init = "restore"]
Linen   == [Unit EXCEPT !.need = 5, !.once = 0 .. 4, !.rates = {"control"}]
\* The segment's coefficients follow the index, not the envelope: an envelope
\* written anew while the index rests is not seen.
IEnvGen == [Unit EXCEPT !.need = 5, !.sigs = {0}, !.once = 1 .. 4, !.opts = 5 .. 8]

\* node_ctl.rs
SelfTrig == [Unit EXCEPT !.args = 1, !.once = {0}, !.init = "restore"]
Done     == Unit
WhenDone == [Unit EXCEPT !.args = 1, !.once = {0}]
Free     == [Unit EXCEPT !.args = 2, !.once = {0, 1}, !.seeds = {0}, !.init = "own"]
Pause    == Free

\* test.rs
CheckBadValues == [Unit EXCEPT !.need = 1, !.sigs = {0}]
Sanitize       == [Unit EXCEPT !.need = 2, !.sigs = {0, 1}]

\* input.rs: control buses read at a synth's own pace
InTrig == [Unit EXCEPT !.need = 1, !.once = {0}, !.seeds = {0}, !.init = "own"]
LagIn  == [Unit EXCEPT !.need = 2, !.once = {0}, !.seeds = {0, 1}, !.init = "own", !.rates = {"control"}]
=============================================================================
