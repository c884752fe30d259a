------------------------------ MODULE SourceUnits ------------------------------
(***************************************************************************)
(* The units that make a signal: oscillators, noise, chaotic maps and      *)
(* random values, whose input 0 is the frequency in most; and those with   *)
(* memory of their own: those that play, record, read and report (buffers, *)
(* the disk streams cued in them, and what a unit sends to the host), the  *)
(* delay lines and the grains, as a synth's calc loop sees them.  The      *)
(* lines themselves and the grains' lives are in DelayLines and Grains.    *)
(***************************************************************************)
EXTENDS UnitRows

\* sin_osc.rs.  FSinOsc derives its coefficient again when the frequency moves.
SinOsc   == [Unit EXCEPT !.args = 2, !.sigs = {0}, !.once = {1}, !.init = "restore"]
FSinOsc  == [Unit EXCEPT !.args = 2, !.once = {0}, !.seeds = {0, 1}, !.coefs = {Watch({0})}, !.seeded = TRUE, !.init = "own"]
SinOscFB == [Unit EXCEPT !.args = 2, !.once = {0, 1}, !.init = "restore"]

\* lf.rs.  A VarSaw takes a new width at the next turn of its phase.
LFSaw   == [Unit EXCEPT !.args = 1, !.once = {0}, !.seedOpts = {1}, !.init = "restore"]
LFPulse == [LFSaw EXCEPT !.opts = {2}]
Impulse == LFSaw
LFTri   == [Unit EXCEPT !.args = 2, !.once = {0}, !.seeds = {1}, !.init = "restore"]
LFPar   == LFTri
LFCub   == LFTri
VarSaw  == [LFTri EXCEPT !.args = 3, !.once = {0, 2}, !.seeds = {1, 2}]
SyncSaw == [Unit EXCEPT !.need = 2, !.once = {0, 1}]
LFGauss == [Unit EXCEPT !.need = 2, !.once = {0, 1}, !.opts = {2, 3, 4}, !.init = "restore"]

\* band_limited.rs, formant.rs, vibrato.rs, amp_comp.rs, psin_grain.rs.  A
\* Vibrato keeps its phase, and counts its delay and attack from the first sample.
Saw      == [Unit EXCEPT !.args = 1, !.once = {0}, !.init = "restore"]
Pulse    == [Unit EXCEPT !.args = 1, !.once = {0}, !.opts = {1}, !.init = "none"]
Blip     == [Saw EXCEPT !.opts = {1}]
Formant  == [Unit EXCEPT !.need = 3, !.once = 0 .. 2, !.init = "restore"]
Vibrato  == [Unit EXCEPT !.need = 9, !.sigs = {0}, !.once = 1 .. 8]
AmpComp  == [Unit EXCEPT !.need = 3, !.sigs = {0}, !.once = {1, 2}]
AmpCompA == [Unit EXCEPT !.need = 4, !.sigs = {0}, !.seeds = {1, 2, 3}]
PSinGrain == [Unit EXCEPT !.need = 3, !.seeds = {0, 1, 2}, !.init = "own"]

\* wavetable_osc.rs, over a buffer that holds a table
Osc   == [Unit EXCEPT !.need = 3, !.sigs = {1}, !.once = {0, 2}, !.init = "restore"]
OscN  == Osc
COsc  == [Unit EXCEPT !.need = 3, !.once = 0 .. 2, !.init = "restore"]
VOsc  == [Osc EXCEPT !.coefs = {Glide({0})}, !.seeded = TRUE, !.seeds = {0, 2}]
VOsc3 == [Unit EXCEPT !.need = 4, !.once = 0 .. 3, !.coefs = {Glide({0})}, !.seeded = TRUE, !.seeds = {0}, !.init = "restore"]

\* lf_noise.rs: run_counter reads the frequency once a block, run_phase at every sample
RunCounter == [Unit EXCEPT !.need = 1, !.once = {0}]
RunPhase   == [Unit EXCEPT !.need = 1, !.sigs = {0}]
LFNoise0    == RunCounter
LFClipNoise == LFNoise0
LFNoise1    == RunCounter
LFNoise2    == RunCounter
LFDNoise0    == RunPhase
LFDClipNoise == LFDNoise0
LFDNoise1    == RunPhase
LFDNoise3    == RunPhase

\* noise.rs
WhiteNoise == Unit
ClipNoise  == Unit
GrayNoise  == Unit
PinkNoise  == Unit
BrownNoise == [Unit EXCEPT !.init = "own"]
Dust       == [Unit EXCEPT !.need = 1, !.once = {0}]
Dust2      == Dust
Crackle    == [Unit EXCEPT !.args = 1, !.once = {0}]
Logistic   == [Unit EXCEPT !.args = 3, !.once = {0, 1}, !.seeds = {0, 2}, !.init = "own"]
Hasher     == [Unit EXCEPT !.args = 1, !.sigs = {0}]
MantissaMask == [Unit EXCEPT !.args = 2, !.sigs = {0}, !.once = {1}]

\* chaos.rs: an orbit that starts again from the inputs K when one of them
\* moves.
Orbit(size, K) == [Unit EXCEPT !.need = size, !.once = 0 .. size - 1, !.coefs = {WatchFrom(K)}, !.seeds = K,
                                  !.seeded = TRUE]
\* An orbit that reads its seed once, or again only when it left the stable range
FreeOrbit(size, K) == [Unit EXCEPT !.need = size, !.once = (0 .. size - 1) \ K, !.seeds = K]
CuspN     == Orbit(4, {3})
QuadN     == Orbit(5, {4})
StandardN == Orbit(4, {2, 3})
LatoocarfianN == Orbit(7, {5, 6})
FBSineN   == Orbit(7, {5, 6})
CuspL     == Orbit(4, {3})
QuadL     == Orbit(5, {4})
LorenzL   == Orbit(8, {5, 6, 7})
StandardL == Orbit(4, {2, 3})
FBSineL   == Orbit(7, {5, 6})
LatoocarfianL == Orbit(7, {5, 6})
FBSineC   == Orbit(7, {5, 6})
LatoocarfianC == Orbit(7, {5, 6})
QuadC     == Orbit(5, {4})
LinCongN  == FreeOrbit(5, {4})
LinCongL  == FreeOrbit(5, {4})
LinCongC  == FreeOrbit(5, {4})
GbmanN    == FreeOrbit(3, {1, 2})
GbmanL    == FreeOrbit(3, {1, 2})
HenonN    == [FreeOrbit(5, {3, 4}) EXCEPT !.once = 0 .. 4]
HenonL    == [FreeOrbit(5, {3, 4}) EXCEPT !.once = 0 .. 4]
HenonC    == [FreeOrbit(5, {3, 4}) EXCEPT !.once = 0 .. 4]

\* gendy.rs: breakpoints in the synth's memory, drawn by the constructor.  INIT_CPS
\* sizes it, before the constructor.
Gendy(size, cps) == [Unit EXCEPT !.need = size, !.once = (0 .. size - 1) \ {cps}, !.seeds = {cps}, !.init = "own", !.pool = TRUE]
Gendy1 == Gendy(10, 8)
Gendy2 == Gendy(12, 8)
Gendy3 == Gendy(9, 7)

\* rand.rs.  IRand, LinRand and NRand draw when the synth starts and hold the
\* value; the trigger units draw again at an edge of their last input.
Rand    == [Unit EXCEPT !.args = 2, !.seeds = {0, 1}]
ExpRand == Rand
ScalarRand(size) == [Unit EXCEPT !.need = size, !.seeds = 0 .. size - 1, !.init = "own", !.rates = {"scalar"}]
IRand   == ScalarRand(2)
LinRand == ScalarRand(3)
NRand   == ScalarRand(3)
TrigRand == [Unit EXCEPT !.args = 3, !.once = {0, 1}, !.sigs = {2}]
TRand    == TrigRand
TExpRand == TrigRand
TIRand   == TrigRand
CoinGate == [Unit EXCEPT !.need = 2, !.once = {0}, !.sigs = {1}, !.seeds = {1}, !.init = "own"]
RandSeed == [Unit EXCEPT !.args = 2, !.sigs = {0}, !.once = {1}]
RandID   == [Unit EXCEPT !.args = 1, !.once = {0}]

-----------------------------------------------------------------------------
(* Units that play, record, read and report.                               *)

\* A buffer unit writes 0 where there is no buffer; the bench looks at what is
\* read and written around that.
PlayBuf   == [Unit EXCEPT !.args = 1, !.once = {0}, !.opts = 1 .. 5, !.init = "none", !.outs = 2]
RecordBuf == [Unit EXCEPT !.need = 9, !.once = 0 .. 6, !.sigs = {8}, !.seeds = {1, 2, 3, 7}, !.init = "own"]
BufRd     == [Unit EXCEPT !.need = 4, !.once = {0, 2}, !.sigs = {1}, !.outs = 2]
BufWr     == [Unit EXCEPT !.need = 4, !.sigs = {1, 3}, !.once = {0, 2}, !.init = "none"]

\* What a unit tells the host leaves its output as it is, or copies a value
\* to it.
Poll        == [Unit EXCEPT !.need = 4, !.sigs = {0, 1}, !.once = {2}, !.init = "none"]
SendReply   == [Unit EXCEPT !.need = 3, !.sigs = {0}, !.once = {1}, !.opts = {3}, !.init = "none", !.outs = 0]
SendPeakRMS == [Unit EXCEPT !.need = 6, !.sigs = {4}, !.once = {2}, !.seeds = {0, 1}, !.init = "own", !.outs = 0]
SendTrig    == [Unit EXCEPT !.args = 3, !.sigs = {0, 2}, !.once = {1}, !.init = "none", !.outs = 0]
ScopeOut    == [Unit EXCEPT !.need = 2, !.sigs = {1}, !.once = {0}, !.init = "none", !.outs = 0]

DiskIn  == [Unit EXCEPT !.args = 1, !.once = {0}, !.init = "none", !.outs = 2]
VDiskIn == [DiskIn EXCEPT !.need = 2, !.once = {0, 1}]

-----------------------------------------------------------------------------
\* delay.rs, deltap.rs, pluck.rs.  A line is never read before it is warm; what
\* the delay slopes to is set once by the constructor.  A delay time that is read
\* sample by sample keeps nothing, and is left out here.
Delay == [Unit EXCEPT !.need = 3, !.sigs = {0}, !.once = {2}, !.seeds = {1, 2}, !.coefs = {Drift({2})}, !.seeded = TRUE, !.init = "own", !.pool = TRUE]
FeedbackDelay == [Delay EXCEPT !.need = 4, !.once = {2, 3}, !.seeds = {1, 2, 3}, !.coefs = {Drift({2, 3})}]
BufDelay == [Delay EXCEPT !.once = {0, 2}, !.sigs = {1}, !.seeds = {0, 2}, !.pool = FALSE]
BufFeedbackDelay == [BufDelay EXCEPT !.need = 4, !.once = {0, 2, 3}, !.seeds = {0, 2, 3}, !.coefs = {Drift({2, 3})}]
DelTapWr == [Unit EXCEPT !.need = 2, !.once = {0}, !.sigs = {1}]
DelTapRd == [Unit EXCEPT !.need = 4, !.once = {0, 2}, !.sigs = {1}, !.seeds = {2}, !.coefs = {Glide({2})}, !.seeded = TRUE]
Pluck    == [Delay EXCEPT !.need = 6, !.once = {3, 4, 5}, !.sigs = {0, 1}, !.seeds = 2 .. 5, !.coefs = {Drift({3, 4, 5})}]

\* grain.rs, grain_tap.rs.  Grains are mixed into outputs that the block clears first.
GrainSin == [Unit EXCEPT !.need = 6, !.sigs = {0}, !.once = 1 .. 4, !.rates = {"audio"}]
GrainFM  == [GrainSin EXCEPT !.need = 8, !.once = 1 .. 6]
GrainIn  == [GrainSin EXCEPT !.folds = {2}, !.once = {1, 3, 4}]
GrainBuf == [GrainSin EXCEPT !.need = 9, !.once = 1 .. 7]
TGrains  == [GrainSin EXCEPT !.need = 8, !.once = 1 .. 7, !.init = "none", !.outs = 2]
Warp1    == [TGrains EXCEPT !.sigs = {}, !.once = 0 .. 7]
GrainTap == [GrainSin EXCEPT !.sigs = {}, !.once = 0 .. 5, !.seeds = {0},
                             !.init = "own"]
===============================================================================
