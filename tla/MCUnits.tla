-------------------------------- MODULE MCUnits --------------------------------
(***************************************************************************)
(* Four machines that share no state, checked side by side: a unit on the  *)
(* bench, the life of a delay, a bank of grains, a chain or a convolver, a *)
(* graph of demand sources, and a recording on its way out.  A behaviour   *)
(* picks one; the variables of the others stay idle.                       *)
(***************************************************************************)
EXTENDS UnitRegistry

CONSTANTS
    Machines,       \* which of "bench", "lives", "demand", "recorder" are run
    SampleBlock,    \* samples in a block
    OnBench,        \* the units on the bench, all of them if none is named
    Blocks, AnyRate,
    Sub, Stale, Zero, MaxGrains, NONE, Lives,
    NaN, Inf, MaxFrames, Fuel, Horizon,
    Chunks, ChunkFrames, Frames, OtherFrames, BlockFrames, MaxHeard, Replacing, NoChunk, NrtApart

VARIABLES
    live,
    unit, n, own, audio, phase, high, state, t, written, missed, done,
    machine, u, s,
    case, st, d, out, fired, knobs, frame, since, base, again,
    mode, buffer, recording, rt, left, next, current, filled, recycle, put, host, chunk, sink, outcome, closing

benchVars == <<unit, n, own, audio, phase, high, state, t, written, missed, done>>
livesVars == <<machine, u, s>>
demandVars == <<case, st, d, out, fired, knobs, frame, since, base, again>>
recorderVars == <<mode, buffer, recording, rt, left, next, current, filled, recycle, put, host, chunk, sink, outcome, closing>>
vars == <<live, benchVars, livesVars, demandVars, recorderVars>>

Bench == INSTANCE UnitBench WITH Row <- Builtins, BlockSize <- SampleBlock
Living == INSTANCE UnitLives WITH ChainBlock <- SampleBlock
Graphs == INSTANCE DemandStreams WITH Block <- SampleBlock, Cases <- {}
Demanded == INSTANCE DemandStreams WITH Block <- SampleBlock, Cases <- Graphs!AllCases
Recorder == INSTANCE StreamRecorder WITH written <- put

ASSUME SizeAssumption == Demanded!DriverSizesOK /\ Recorder!SizesOK

Idle == "idle"
BenchIdle ==
    /\ unit = Idle /\ n = Idle /\ own = Idle /\ audio = Idle /\ phase = Idle /\ high = Idle
    /\ state = Idle /\ t = Idle /\ written = Idle /\ missed = Idle
    /\ done = Idle
LivesIdle ==
    /\ machine = Idle /\ u = Idle /\ s = Idle
DemandIdle ==
    /\ case = Idle /\ st = Idle /\ d = Idle /\ out = Idle /\ fired = Idle /\ knobs = Idle
    /\ frame = Idle /\ since = Idle /\ base = Idle /\ again = Idle
RecorderIdle ==
    /\ mode = Idle /\ buffer = Idle /\ recording = Idle /\ rt = Idle /\ left = Idle
    /\ next = Idle /\ current = Idle /\ filled = Idle /\ recycle = Idle /\ put = Idle
    /\ host = Idle /\ chunk = Idle /\ sink = Idle /\ outcome = Idle /\ closing = Idle

Init ==
    /\ live \in Machines
    /\ IF live = "bench" THEN Bench!Init /\ (OnBench = {} \/ unit \in OnBench) ELSE BenchIdle
    /\ IF live = "lives" THEN Living!LifeInit ELSE LivesIdle
    /\ IF live = "demand" THEN Demanded!Init ELSE DemandIdle
    /\ IF live = "recorder" THEN Recorder!Init ELSE RecorderIdle

\* Whose step it is.
Benched == live = "bench" /\ UNCHANGED <<live, livesVars, demandVars, recorderVars>>
Lived == live = "lives" /\ UNCHANGED <<live, benchVars, demandVars, recorderVars>>
Drives == live = "demand" /\ UNCHANGED <<live, benchVars, livesVars, recorderVars>>
Records == live = "recorder" /\ UNCHANGED <<live, benchVars, livesVars, demandVars>>

Next ==
    \/ Benched /\ Bench!Refuse
    \/ Benched /\ Bench!Construct
    \/ Benched /\ Bench!Silence
    \/ Benched /\ Bench!Block
    \/ Lived /\ Living!DelayBlock
    \/ Lived /\ Living!DelTapBlock
    \/ Lived /\ Living!GrainBlock
    \/ Lived /\ Living!Warp1Block
    \/ Lived /\ Living!GrainTapBlock
    \/ Lived /\ Living!SpectralBlock
    \/ Lived /\ Living!ConvolverBlock
    \/ Drives /\ Demanded!Next
    \/ Records /\ Recorder!StartCopy
    \/ Records /\ Recorder!StartLive
    \/ Records /\ Recorder!Write
    \/ Records /\ Recorder!EndWrite
    \/ Records /\ Recorder!PushChunk
    \/ Records /\ Recorder!Flush
    \/ Records /\ Recorder!CloseRecording
    \/ Records /\ Recorder!FreeSlot
    \/ Records /\ Recorder!ChangeSlot
    \/ Records /\ Recorder!Drop
    \/ Records /\ Recorder!Pop
    \/ Records /\ Recorder!Save
    \/ Records /\ Recorder!Recycle
    \/ Records /\ Recorder!Drained
    \/ Records /\ Recorder!IsEmpty
    \/ Records /\ Recorder!IsAbandoned
    \/ Records /\ Recorder!OpenFails
    \/ Records /\ Recorder!RequestClose
    \/ Records /\ Recorder!ForgetStream

Spec == Init /\ [][Next]_vars

\* A step of the recorder, for the fairness StreamRecorder states.
Of(A) == Records /\ A
FairSpec ==
    /\ Spec
    /\ WF_recorderVars(Of(Recorder!Audio)) /\ SF_recorderVars(Of(Recorder!CloseRecording)) /\ SF_recorderVars(Of(Recorder!Drop))
    /\ WF_recorderVars(Of(Recorder!Host))
--------------------------------------------------------------------------------
\* After a calc every sample of every output of a unit is its own, whatever rate its
\* inputs have (mod.rs, the calc loop's scratch outputs).
OutputsWritten == live = "bench" => Bench!OutputsWritten

\* A block is calculated with coefficients that belong to its inputs (the units'
\* cached values: bits compared before the loop).
CoefsFollow == live = "bench" => Bench!CoefsFollow


\* A delay reads back what went into its line, and silence before that, never what
\* the memory held (delay.rs, deltap.rs, pluck.rs).
LineReadsBack == live = "lives" => Living!LineReadsBack

\* Grains play from their start to their end, whatever happens to the places beside
\* theirs, and a scan starts its grains when they are due (grain.rs, grain_tap.rs).
GrainsInTime == live = "lives" => Living!GrainsInTime

\* Whatever works in frames puts its samples out a fixed time after they came in:
\* resynthesis, the convolvers' frames, PartConv's partitions.
FramesOnTime == live = "lives" => Living!FramesOnTime

\* A spectrum is in the form its buffer says, and a unit's tables are filled before
\* they are read and drawn when they are asked for.
SpectraTrue == live = "lives" => Living!SpectraTrue

\* A convolver uses the kernel asked for last (convolution2.rs).
KernelInUse == live = "lives" => Living!KernelInUse

\* A demand graph gives the sequence it writes down, and every pull returns.
StreamsAsWritten == live = "demand" => Demanded!StreamsAsWritten

\* Duty, TDuty and DemandEnvGen keep the time of the durations they pull.
DriversOnTime == live = "demand" => Demanded!DriversOnTime

\* The stream between the two threads is intact: its pool whole, its frames in order.
StreamIntact == live = "recorder" => Recorder!StreamIntact

\* A client that is told /done has all that was recorded.
DoneMeansDelivered == live = "recorder" => Recorder!DoneMeansDelivered

\* A recording is given up, and a copy and a close are answered, unless a /b_free takes
\* the stream away.
RecordingsEnd == Recorder!RecordingRetired /\ Recorder!AlwaysAnswered
--------------------------------------------------------------------------------
LifeBounds == [line |-> 7, grain |-> 6, chain |-> 6, parts |-> 25, frames |-> 9]
================================================================================
