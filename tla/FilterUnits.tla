------------------------------ MODULE FilterUnits ------------------------------
(***************************************************************************)
(* The units that turn one signal into another sample by sample: filters,  *)
(* lags, equalisers, dynamics and reverbs.                                 *)
(***************************************************************************)
EXTENDS UnitRows

\* filter.rs: LPF, HPF
Butter == [AudioFilter EXCEPT !.need = 2, !.once = {1}, !.coefs = {Watch({1})}]

\* one_pole.rs: the coefficient is an input, read each block and not cached
OnePole    == [AudioFilter EXCEPT !.need = 2, !.once = {1}]
OneZero    == [AudioFilter EXCEPT !.need = 2, !.once = {1}, !.seeds = {0}]
Integrator == [AudioFilter EXCEPT !.need = 2, !.once = {1}, !.init = "own", !.seeds = {0}]
LeakDC     == [AudioFilter EXCEPT !.need = 2, !.once = {1}, !.seeds = {0}]

\* two_pole.rs
TwoPole == [AudioFilter EXCEPT !.need = 3, !.once = {1, 2}, !.coefs = {Watch({1, 2})}]
TwoZero == TwoPole

\* resonant.rs
RLPF   == [AudioFilter EXCEPT !.need = 3, !.once = {1, 2}, !.coefs = {Watch({1, 2})}]
RHPF   == RLPF
BPF    == RLPF
BRF    == RLPF
Resonz == RLPF
Ringz  == RLPF

\* decay.rs: the two times of Decay2 are compared one by one
Decay  == [AudioFilter EXCEPT !.need = 2, !.once = {1}, !.coefs = {Watch({1})}, !.init = "restore"]
Decay2 == [AudioFilter EXCEPT !.need = 3, !.once = {1, 2}, !.coefs = {Watch({1}), Watch({2})}, !.init = "restore"]

\* moog.rs: a positive reset empties the ladder before the loop
MoogFF == [AudioFilter EXCEPT !.need = 2, !.once = {1}, !.opts = {2, 3}, !.coefs = {Watch({1})}]

\* eq.rs.  A Beq glides over the groups of three samples of a block; one whose
\* parameters are all scalar and that is a low or high pass never looks again.
Formlet == [AudioFilter EXCEPT !.need = 4, !.once = {1, 2, 3}, !.coefs = {Watch({1, 2, 3})}]
MidEQ   == [AudioFilter EXCEPT !.need = 4, !.once = {1, 2, 3}, !.coefs = {Watch({1, 2, 3})}]
Beq     == [Unit EXCEPT !.need = 3, !.sigs = {0}, !.once = {1, 2}, !.coefs = {Glide({1, 2})}, !.seeded = TRUE]
BeqDb   == [Beq EXCEPT !.need = 4, !.once = {1, 2, 3}, !.coefs = {Glide({1, 2, 3})}]

\* filter_simple.rs: the sections without coefficients start at their input
LPZ1   == [AudioFilter EXCEPT !.seeds = {0}]
HPZ1   == LPZ1
Slope  == LPZ1
LPZ2   == LPZ1
Delay1 == [AudioFilter EXCEPT !.init = "own", !.seedOpts = {1}]
Delay2 == [AudioFilter EXCEPT !.init = "own", !.seedOpts = {1, 2}]
Slew   == [AudioFilter EXCEPT !.need = 3, !.once = {1, 2}, !.seeds = {0}]
APF    == TwoPole
Flip   == [Unit EXCEPT !.need = 1, !.sigs = {0}]

\* rate_conv.rs: these builds do not count their inputs.  A2K, T2K: one value a
\* block whatever the unit's rate; T2A clears the block, then marks the edge
Dc  == [Unit EXCEPT !.args = 1, !.once = {0}]
K2A == [Unit EXCEPT !.args = 1, !.once = {0}, !.seeds = {0}]
A2K == [Unit EXCEPT !.args = 1, !.once = {0}, !.rates = {"control"}]
T2A == [Unit EXCEPT !.args = 2, !.once = {0, 1}, !.init = "restore"]
T2K == [Unit EXCEPT !.args = 1, !.folds = {0}, !.init = "own", !.seeds = {0}, !.rates = {"control"}]

\* util.rs.  The lags start at their input and cache a coefficient for each
\* time; -1 marks it unset, which is also a time whose coefficient is 0.
MulAdd == [Unit EXCEPT !.args = 3, !.sigs = {0}, !.once = {1, 2}]
SumOf(count) == [Unit EXCEPT !.need = count, !.sigs = 0 .. count - 1]
Lag    == [Unit EXCEPT !.args = 2, !.sigs = {0}, !.once = {1}, !.coefs = {WatchFit({1})}, !.seeds = {0}]
Lag2   == Lag
Lag3   == Lag
LagUD  == [Unit EXCEPT !.need = 3, !.sigs = {0}, !.once = {1, 2}, !.coefs = {WatchFit({1, 2})}, !.seeds = {0}]
Lag2UD == LagUD
Lag3UD == LagUD
\* A kr Amplitude over an audio input follows every sample of it and publishes the last
Amplitude == [Unit EXCEPT !.args = 1, !.sigs = {0}, !.opts = {1, 2}, !.coefs = {WatchFit({1}), WatchFit({2})}]

\* ramp.rs
Ramp   == [Unit EXCEPT !.need = 2, !.sigs = {0}, !.once = {1}, !.init = "own", !.seeds = {0}]
VarLag == [Unit EXCEPT !.need = 3, !.once = {0, 1}, !.coefs = {WatchFrom({0, 1})},
                       !.init = "own", !.seeds = {0, 1, 2}, !.seeded = TRUE]

\* dynamics.rs.  The gain of a Compander follows its side chain.
Compander     == [AudioFilter EXCEPT !.need = 7, !.slices = {0, 1}, !.once = 2 .. 6, !.coefs = {Watch({5}), Watch({6})}]
DetectSilence == [Unit EXCEPT !.need = 3, !.sigs = {0}, !.once = {1, 2}, !.opts = {3}, !.init = "none"]
LookAhead     == [AudioFilter EXCEPT !.need = 3, !.once = {1}, !.seeds = {2}, !.pool = TRUE]

\* hilbert.rs: the coefficients depend on the sample rate alone
Hilbert   == [AudioFilter EXCEPT !.outs = 2]
FreqShift == [AudioFilter EXCEPT !.need = 2, !.args = 3, !.once = {1, 2}]

\* bank.rs: a resonator for each group of three inputs past the head.  The
\* coefficients are set once; a failed warm-up is repeated by the first block.
Klang == [Unit EXCEPT !.need = 5, !.seeds = 0 .. 4, !.init = "own"]
Klank == [Unit EXCEPT !.need = 7, !.sigs = {0}, !.seeds = 1 .. 6, !.init = "restore"]

\* freeverb.rs, gverb.rs: the coefficients of a GVerb glide over the block it runs for
FreeVerb  == [Unit EXCEPT !.need = 4, !.sigs = {0}, !.once = 1 .. 3]
FreeVerb2 == [Unit EXCEPT !.need = 5, !.sigs = {0, 1}, !.once = 2 .. 4, !.outs = 2]
GVerb     == [AudioFilter EXCEPT !.need = 10, !.once = {2, 3, 4, 6, 7, 8}, !.coefs = {Drift({2, 3, 4, 6, 7, 8})},
                                 !.seeds = 1 .. 9, !.init = "none", !.seeded = TRUE, !.outs = 2, !.pool = TRUE]

\* median.rs, running_sum.rs: over a window of the input
Median     == [AudioFilter EXCEPT !.need = 2, !.slices = {1}, !.seeds = {0, 1}]
RunningSum == [Unit EXCEPT !.need = 2, !.sigs = {0}, !.seeds = {1}, !.init = "none", !.pool = TRUE]
===============================================================================
