SPECIFICATION Spec
CONSTANTS
    Machines = {"bench"}
    SampleBlock = 2
    OnBench = {"LPF"}
    Blocks = 2
    AnyRate = TRUE
    Sub = 4
    Stale = Stale
    Zero = Zero
    MaxGrains = 3
    NONE = NONE
    Lives <- LifeBounds
    NaN = NaN
    Inf = Inf
    MaxFrames = 8
    Fuel = 14
    Horizon = 9
    NoChunk = NoChunk
    Chunks = 3
    ChunkFrames = 2
    Frames = 11
    OtherFrames = 9
    BlockFrames = 3
    MaxHeard = 15
    Replacing = TRUE
    NrtApart = FALSE
INVARIANTS OutputsWritten
CHECK_DEADLOCK FALSE
