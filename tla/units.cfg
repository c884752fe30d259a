SPECIFICATION FairSpec
CONSTANTS
    Machines = {"bench", "lives", "demand", "recorder"}
    SampleBlock = 2
    OnBench = {}
    Blocks = 2
    AnyRate = FALSE
    Sub = 4
    Stale = Stale
    Zero = Zero
    MaxGrains = 3
    NONE = NONE
    Lives <- LifeBounds
    NaN = NaN
    Inf = Inf
    MaxFrames = 11
    Fuel = 14
    Horizon = 9
    NoChunk = NoChunk
    Chunks = 3
    ChunkFrames = 2
    Frames = 11
    OtherFrames = 9
    BlockFrames = 3
    MaxHeard = 15
    Replacing = TRUE
    NrtApart = FALSE
INVARIANTS
    CoefsFollow 
    LineReadsBack GrainsInTime FramesOnTime SpectraTrue KernelInUse
    StreamsAsWritten DriversOnTime
    StreamIntact DoneMeansDelivered
PROPERTIES RecordingsEnd
CHECK_DEADLOCK FALSE
