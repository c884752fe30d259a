---------------------------- MODULE SpectralUnits ----------------------------
(***************************************************************************)
(* The units of the FFT chain.  Each takes a chain on input 0 and hands it *)
(* on; on top of what a unit is (UnitRows) it has the form it wants a      *)
(* spectrum's bins in, whether it works on a pair of chains, and the table *)
(* it keeps from frame to frame.  SpectralChain runs them.  Then the units *)
(* that follow a signal or a spectrum, and those that convolve one with a  *)
(* kernel.                                                                 *)
(***************************************************************************)
EXTENDS UnitRows, TLC

\* The constructor hands the chain on without running the calc.
Chain == [Unit EXCEPT !.need = 1, !.once = {0}, !.seeds = {0}, !.init = "own", !.rates = {"control"}]
            @@ [form |-> "polar",  \* or "complex", or "stored": as it is found
                pair |-> FALSE,    \* whether input 1 is a second chain
                keeps |-> "none",  \* or "scratch", "order", "hold"
                copies |-> FALSE]  \* whether the first is copied to the second

\* fft.rs, fft_trigger.rs
Fft        == [Unit EXCEPT !.need = 6, !.once = {0, 4}, !.sigs = {1}, !.seeds = {0, 2, 3, 5}, !.init = "own",
                           !.pool = TRUE, !.rates = {"control"}]
FftTrigger == [Unit EXCEPT !.need = 3, !.seeds = {0, 1, 2}, !.init = "own", !.rates = {"control"}]
Ifft       == [Unit EXCEPT !.need = 3, !.once = {0, 1, 2}, !.init = "none",
                           !.pool = TRUE, !.rates = {"audio"}]

\* pv_mag_squared.rs, pv_mag_mul.rs, pv_combine.rs, pack_fft.rs
PvMagSquared == Chain
PvMagMul     == [Chain EXCEPT !.need = 2, !.once = {0, 1}, !.pair = TRUE]
PvComplex    == [PvMagMul EXCEPT !.form = "complex"]
PvPolar      == PvMagMul
PvCopyPhase  == PvMagMul
PvCopy       == [PvMagMul EXCEPT !.form = "stored", !.seeds = {1}, !.copies = TRUE]
PackFft      == [Chain EXCEPT !.need = 6, !.seeds = {0, 2, 3, 4, 5}, !.form = "complex"]

\* pv_random.rs
PvMagNoise    == [Chain EXCEPT !.form = "stored"]
PvRandComb    == [Chain EXCEPT !.need = 3, !.once = 0 .. 2, !.form = "stored", !.keeps = "order"]
PvRandWipe    == [PvRandComb EXCEPT !.need = 4, !.once = 0 .. 3, !.pair = TRUE]
PvBinScramble == [PvRandComb EXCEPT !.need = 4, !.once = 0 .. 3]

\* pv_ops.rs
PvMagThresh    == [Chain EXCEPT !.need = 2, !.once = {0, 1}]
PvLocalMax     == PvMagThresh
PvPhaseQuarter == [Chain EXCEPT !.form = "complex"]
PvBrickWall    == [PvMagThresh EXCEPT !.form = "stored"]
PvConj         == PvPhaseQuarter
PvDiffuser     == [PvMagThresh EXCEPT !.keeps = "order"]
PvBinShift     == [Chain EXCEPT !.need = 4, !.once = 0 .. 3, !.form = "complex", !.keeps = "scratch"]
PvMagSmear     == [PvMagThresh EXCEPT !.keeps = "scratch"]
PvRectComb     == [Chain EXCEPT !.need = 4, !.once = 0 .. 3, !.form = "stored"]

\* pv_extra.rs
PvMagFreeze    == [PvMagThresh EXCEPT !.keeps = "hold"]
PvMagShift     == [Chain EXCEPT !.need = 3, !.once = 0 .. 2, !.keeps = "scratch"]
PvPhaseShift   == [Chain EXCEPT !.need = 3, !.once = 0 .. 2]
PvMagDiv       == [PvMagMul EXCEPT !.need = 3, !.once = 0 .. 2]
PvBinWipe      == [PvMagDiv EXCEPT !.form = "stored"]
PvRectComb2    == [PvBinWipe EXCEPT !.need = 5, !.once = 0 .. 4]
PvConformalMap == [PvPhaseShift EXCEPT !.form = "complex"]

\* feature_detection.rs: detectors at the end of a chain, whose output is a
\* trigger
PvJensenAndersen  == [Chain EXCEPT !.need = 7, !.once = 0 .. 6, !.pool = TRUE, !.rates = {"audio", "control"}]
PvHainsworthFoote == [PvJensenAndersen EXCEPT !.need = 5, !.once = 0 .. 4]

-----------------------------------------------------------------------------
\* Input 0 of the spectral ones is a chain: a buffer's number in the block its
\* frame is ready, -1 in any other.

Feature == [Unit EXCEPT !.init = "own", !.rates = {"control"}]

SpecFlatness == [Feature EXCEPT !.need = 1, !.once = {0}]
SpecCentroid == SpecFlatness
SpecPcile    == [Feature EXCEPT !.need = 4, !.once = {0, 1}, !.seeds = {2, 3}]
KeyTrack     == [Feature EXCEPT !.need = 3, !.once = 0 .. 2]
Mfcc         == [Feature EXCEPT !.need = 2, !.once = {0}, !.seeds = {1}, !.pool = TRUE]
Onsets       == [Feature EXCEPT !.need = 9, !.once = 0 .. 7, !.seeds = {8}]
Loudness     == [Feature EXCEPT !.need = 3, !.once = 0 .. 2, !.init = "calc"]
BeatTrack    == [Feature EXCEPT !.need = 2, !.once = {0, 1}, !.outs = 4]
BeatTrack2   == [Feature EXCEPT !.need = 6, !.once = {0, 4}, !.seeds = {1, 2, 3, 5}, !.pool = TRUE, !.outs = 6]
Pitch        == [Feature EXCEPT !.need = 11, !.sigs = {0}, !.seeds = 1 .. 10, !.pool = TRUE, !.outs = 2]
PitchShift   == [Unit EXCEPT !.need = 5, !.sigs = {0}, !.once = 1 .. 4, !.seeds = {1}, !.init = "none", !.pool = TRUE]

\* The kernel's buffer is read by the constructor, and again when a trigger
\* asks for it.
Convolver == [Unit EXCEPT !.exact = TRUE, !.sigs = {0}, !.init = "own", !.pool = TRUE, !.rates = {"audio"}]

Convolution         == [Convolver EXCEPT !.need = 3, !.sigs = {0, 1}, !.seeds = {0, 2},
                                         !.rates = {"audio", "control"}]
Convolution2        == [Convolver EXCEPT !.need = 4, !.once = {1, 2}, !.seeds = {0, 1, 3}]
Convolution2L       == [Convolver EXCEPT !.need = 5, !.once = {1, 2, 4}, !.seeds = {0, 1, 3, 4}, !.rates = {"audio", "control"}]
StereoConvolution2L == [Convolver EXCEPT !.need = 6, !.once = {1, 2, 3, 5}, !.seeds = {0, 1, 2, 4, 5}, !.outs = 2]
Convolution3        == [Convolver EXCEPT !.need = 4, !.sigs = {}, !.slices = {0}, !.once = {1, 2}, !.seeds = {0, 1, 3}]
PartConv            == [Convolver EXCEPT !.need = 3, !.seeds = {1, 2}]
=============================================================================
