----------------------------- MODULE UnitRegistry -----------------------------
(***************************************************************************)
(* The names the built-in registry knows its float units by                *)
(* (UnitRegistry::with_builtins), and the unit each of them builds.  The   *)
(* demand-rate units and the buses have machines of their own.             *)
(***************************************************************************)
EXTENDS FilterUnits, SourceUnits, SignalUnits, SpectralUnits

\* Oscillators, lines and shapers.
Generators ==
    [SinOsc |-> SinOsc, InTrig |-> InTrig, LagIn |-> LagIn, BinaryOpUGen |-> BinaryOp, UnaryOpUGen |-> UnaryOp,
     Line |-> Line, XLine |-> XLine, AmpComp |-> AmpComp, AmpCompA |-> AmpCompA, Clip |-> RangeShaper,
     Wrap |-> RangeShaper, Fold |-> RangeShaper, ModDif |-> RangeShaper, InRange |-> InRange, InRect |-> InRect,
     LinExp |-> LinExp, Unwrap |-> Unwrap]

\* Filters.
Filters ==
    [LPF |-> Butter, HPF |-> Butter, OnePole |-> OnePole, OneZero |-> OneZero, Integrator |-> Integrator,
     LeakDC |-> LeakDC, TwoPole |-> TwoPole, TwoZero |-> TwoZero, Decay |-> Decay, Decay2 |-> Decay2, RLPF |-> RLPF,
     RHPF |-> RHPF, BPF |-> BPF, BRF |-> BRF, Resonz |-> Resonz, Ringz |-> Ringz, Formlet |-> Formlet,
     MidEQ |-> MidEQ, MoogFF |-> MoogFF, Median |-> Median, Hilbert |-> Hilbert, FreqShift |-> FreqShift,
     LPZ1 |-> LPZ1, HPZ1 |-> HPZ1, LPZ2 |-> LPZ2, HPZ2 |-> LPZ2, BPZ2 |-> LPZ2, BRZ2 |-> LPZ2, Delay1 |-> Delay1,
     Delay2 |-> Delay2, Slope |-> Slope, Slew |-> Slew, APF |-> APF, Flip |-> Flip, FOS |-> FOS, SOS |-> SOS,
     BLowPass |-> Beq, BHiPass |-> Beq, BAllPass |-> Beq, BBandPass |-> Beq, BBandStop |-> Beq, BPeakEQ |-> BeqDb,
     BLowShelf |-> BeqDb, BHiShelf |-> BeqDb]

\* Pitch units, reverberators, stochastic synthesis.
Processors ==
    [PitchShift |-> PitchShift, Pitch |-> Pitch, FreeVerb |-> FreeVerb, FreeVerb2 |-> FreeVerb2, GVerb |-> GVerb,
     Gendy1 |-> Gendy1, Gendy2 |-> Gendy2, Gendy3 |-> Gendy3]

\* Noise, and the random numbers a synth draws.
Noises ==
    [WhiteNoise |-> WhiteNoise, Rand |-> Rand, ExpRand |-> ExpRand, IRand |-> IRand, LinRand |-> LinRand,
     NRand |-> NRand, TRand |-> TRand, TExpRand |-> TExpRand, TIRand |-> TIRand, CoinGate |-> CoinGate,
     RandSeed |-> RandSeed, RandID |-> RandID, ClipNoise |-> ClipNoise, GrayNoise |-> GrayNoise,
     PinkNoise |-> PinkNoise, BrownNoise |-> BrownNoise, Dust |-> Dust, Dust2 |-> Dust2, Crackle |-> Crackle,
     Logistic |-> Logistic, Hasher |-> Hasher, MantissaMask |-> MantissaMask, LFNoise0 |-> LFNoise0,
     LFNoise1 |-> LFNoise1, LFNoise2 |-> LFNoise2, LFClipNoise |-> LFClipNoise, LFDNoise0 |-> LFDNoise0,
     LFDNoise1 |-> LFDNoise1, LFDNoise3 |-> LFDNoise3, LFDClipNoise |-> LFDClipNoise]

\* Chaotic generators.
Chaos ==
    [CuspN |-> CuspN, QuadN |-> QuadN, LinCongN |-> LinCongN, GbmanN |-> GbmanN, StandardN |-> StandardN,
     LatoocarfianN |-> LatoocarfianN, CuspL |-> CuspL, QuadL |-> QuadL, HenonL |-> HenonL, LorenzL |-> LorenzL,
     StandardL |-> StandardL, FBSineN |-> FBSineN, FBSineL |-> FBSineL, FBSineC |-> FBSineC, HenonN |-> HenonN,
     HenonC |-> HenonC, LatoocarfianL |-> LatoocarfianL, LatoocarfianC |-> LatoocarfianC, LinCongL |-> LinCongL,
     LinCongC |-> LinCongC, GbmanL |-> GbmanL, QuadC |-> QuadC]

\* Buffers, disk streams, tables.
Buffers ==
    [PlayBuf |-> PlayBuf, Convolution3 |-> Convolution3, BufRd |-> BufRd, DiskIn |-> DiskIn, VDiskIn |-> VDiskIn,
     ScopeOut |-> ScopeOut, Select |-> Select, TWindex |-> TWindex, Index |-> Index, IndexL |-> Index,
     WrapIndex |-> Index, FoldIndex |-> Index, IndexInBetween |-> IndexInBetween, DetectIndex |-> DetectIndex,
     Shaper |-> Shaper, DegreeToKey |-> DegreeToKey, RecordBuf |-> RecordBuf, BufWr |-> BufWr]

\* Low-frequency, band-limited and wavetable oscillators; banks.
Oscillators ==
    [LFSaw |-> LFSaw, LFPulse |-> LFPulse, Impulse |-> Impulse, LFTri |-> LFTri, LFPar |-> LFPar, LFCub |-> LFCub,
     VarSaw |-> VarSaw, SyncSaw |-> SyncSaw, Vibrato |-> Vibrato, FSinOsc |-> FSinOsc, PSinGrain |-> PSinGrain,
     SinOscFB |-> SinOscFB, LFGauss |-> LFGauss, Saw |-> Saw, Pulse |-> Pulse, Blip |-> Blip, Formant |-> Formant,
     Osc |-> Osc, OscN |-> OscN, COsc |-> COsc, VOsc |-> VOsc, VOsc3 |-> VOsc3, Klang |-> Klang, Klank |-> Klank]

\* Panners; springs and balls.
Panners ==
    [Pan2 |-> Pan2, LinPan2 |-> LinPan2, Balance2 |-> Balance2, XFade2 |-> XFade2, LinXFade2 |-> LinXFade2,
     Rotate2 |-> Rotate2, Pan4 |-> Pan4, PanAz |-> PanAz, PanB |-> PanB, PanB2 |-> PanB2, BiPanB2 |-> BiPanB2,
     DecodeB2 |-> DecodeB2, Spring |-> Spring, Ball |-> Ball, TBall |-> TBall]

\* Sums, lags, dynamics, envelopes.
Utilities ==
    [MulAdd |-> MulAdd, Sum3 |-> SumOf(3), Sum4 |-> SumOf(4), Lag |-> Lag, Lag2 |-> Lag2, Lag3 |-> Lag3,
     LagUD |-> LagUD, Lag2UD |-> Lag2UD, Lag3UD |-> Lag3UD, Ramp |-> Ramp, VarLag |-> VarLag,
     Amplitude |-> Amplitude, Compander |-> Compander, DetectSilence |-> DetectSilence, Limiter |-> LookAhead,
     Normalizer |-> LookAhead, EnvGen |-> EnvGen, IEnvGen |-> IEnvGen, Linen |-> Linen]

\* Triggers and timing.
Triggers ==
    [SendTrig |-> SendTrig, Poll |-> Poll, Trig |-> Trig, Trig1 |-> Trig1, TDelay |-> TDelay, ToggleFF |-> ToggleFF,
     SetResetFF |-> SetResetFF, Latch |-> Latch, Gate |-> Gate, Schmidt |-> Schmidt, PulseCount |-> PulseCount,
     PulseDivider |-> PulseDivider, Stepper |-> Stepper, ZeroCrossing |-> ZeroCrossing, Timer |-> Timer,
     Sweep |-> Sweep, Phasor |-> Phasor]

\* Measurements.
Measures ==
    [Peak |-> Peak, RunningMin |-> RunningMin, RunningMax |-> RunningMax, RunningSum |-> RunningSum,
     PeakFollower |-> PeakFollower, MostChange |-> MostChange, LeastChange |-> LeastChange, LastValue |-> LastValue,
     SendReply |-> SendReply, SendPeakRMS |-> SendPeakRMS]

\* What the engine and a buffer are like.
Infos ==
    [SampleRate |-> Info, SampleDur |-> Info, RadiansPerSample |-> Info, ControlRate |-> Info, ControlDur |-> Info,
     NumOutputBuses |-> Info, NumInputBuses |-> Info, NumAudioBuses |-> Info, NumControlBuses |-> Info,
     NumRunningSynths |-> Info, NumBuffers |-> Info, BlockSize |-> Info, NodeID |-> Info,
     SubsampleOffset |-> SubsampleOffset, BufFrames |-> BufInfo, BufChannels |-> BufInfo, BufSamples |-> BufInfo,
     BufSampleRate |-> BufInfo, BufRateScale |-> BufInfo, BufDur |-> BufInfo]

\* Units that free or pause.
NodeControls ==
    [FreeSelf |-> SelfTrig, PauseSelf |-> SelfTrig, Done |-> Done, FreeSelfWhenDone |-> WhenDone,
     PauseSelfWhenDone |-> WhenDone, Free |-> Free, Pause |-> Pause]

\* Rate conversion, guards.
Conversions ==
    [DC |-> Dc, K2A |-> K2A, A2K |-> A2K, T2A |-> T2A, T2K |-> T2K, CheckBadValues |-> CheckBadValues,
     Sanitize |-> Sanitize, BeatTrack2 |-> BeatTrack2]

\* FFT chains and what listens to them (the fft feature).
Spectrals ==
    [FFT |-> Fft, IFFT |-> Ifft, FFTTrigger |-> FftTrigger, Convolution |-> Convolution,
     Convolution2 |-> Convolution2, Convolution2L |-> Convolution2L, StereoConvolution2L |-> StereoConvolution2L,
     PartConv |-> PartConv, PV_MagMul |-> PvMagMul, PV_MagSquared |-> PvMagSquared, PV_MagAbove |-> PvMagThresh,
     PV_MagBelow |-> PvMagThresh, PV_MagClip |-> PvMagThresh, PV_LocalMax |-> PvLocalMax,
     PV_PhaseShift90 |-> PvPhaseQuarter, PV_PhaseShift270 |-> PvPhaseQuarter, PV_BrickWall |-> PvBrickWall,
     PV_Conj |-> PvConj, PV_Diffuser |-> PvDiffuser, PV_Add |-> PvComplex, PV_Mul |-> PvComplex,
     PV_Div |-> PvComplex, PV_Max |-> PvPolar, PV_Min |-> PvPolar, PV_CopyPhase |-> PvCopyPhase, PV_Copy |-> PvCopy,
     PV_BinShift |-> PvBinShift, PV_MagSmear |-> PvMagSmear, PV_RectComb |-> PvRectComb,
     PV_MagFreeze |-> PvMagFreeze, PV_MagShift |-> PvMagShift, PV_PhaseShift |-> PvPhaseShift,
     PV_MagDiv |-> PvMagDiv, PV_BinWipe |-> PvBinWipe, PV_RectComb2 |-> PvRectComb2,
     PV_ConformalMap |-> PvConformalMap, PV_MagNoise |-> PvMagNoise, PV_RandComb |-> PvRandComb,
     PV_RandWipe |-> PvRandWipe, PV_BinScramble |-> PvBinScramble, PV_JensenAndersen |-> PvJensenAndersen,
     PV_HainsworthFoote |-> PvHainsworthFoote, BeatTrack |-> BeatTrack, KeyTrack |-> KeyTrack, PackFFT |-> PackFft,
     SpecCentroid |-> SpecCentroid, SpecFlatness |-> SpecFlatness, SpecPcile |-> SpecPcile, Loudness |-> Loudness,
     MFCC |-> Mfcc, Onsets |-> Onsets]

\* Delay lines, and clouds of grains.
DelayUnits ==
    [DelayN |-> Delay, DelayL |-> Delay, DelayC |-> Delay, CombN |-> FeedbackDelay, CombL |-> FeedbackDelay,
     CombC |-> FeedbackDelay, AllpassN |-> FeedbackDelay, AllpassL |-> FeedbackDelay, AllpassC |-> FeedbackDelay,
     BufDelayN |-> BufDelay, BufDelayL |-> BufDelay, BufDelayC |-> BufDelay, BufCombN |-> BufFeedbackDelay,
     BufCombL |-> BufFeedbackDelay, BufCombC |-> BufFeedbackDelay, BufAllpassN |-> BufFeedbackDelay,
     BufAllpassL |-> BufFeedbackDelay, BufAllpassC |-> BufFeedbackDelay, DelTapWr |-> DelTapWr, DelTapRd |-> DelTapRd,
     Pluck |-> Pluck]
GrainUnits ==
    [GrainSin |-> GrainSin, GrainFM |-> GrainFM, GrainIn |-> GrainIn, GrainBuf |-> GrainBuf, TGrains |-> TGrains,
     Warp1 |-> Warp1, GrainTap |-> GrainTap]

\* An operator with a random-number opcode seeds differently from any other.
RandomOps == [BinaryOpUGenRand |-> RandBinaryOp, UnaryOpUGenRand |-> RandUnaryOp]

Builtins ==
    Generators @@ Filters @@ Processors @@ Noises @@ Chaos @@ Buffers @@ Oscillators @@ Panners @@ Utilities
        @@ Triggers @@ Measures @@ Infos @@ NodeControls @@ Conversions @@ Spectrals @@ DelayUnits @@ GrainUnits
        @@ RandomOps
===============================================================================
