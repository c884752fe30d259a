SPECIFICATION Spec
CONSTANTS
    NIL = NIL
    Names = {a, b}
    Nodes = {n1, n2}
    MaxSynthDefs = 2
    RingCap = 3
    TrashCap = 1
    MaxNodes = 1
    SchedCap = 1
    BlockSize = 2
    UnitsPerSample = 2
    SlotCounts = {0, 1}
    Increments = {4, 5}
    Times = {5}
    Resyncs = {1}
    MaxCompiles = 3
    MaxCalls = 5
    MaxTime = 6
SYMMETRY Symmetry
INVARIANTS IdsMeanOneDef FreedByController LandsInTime
CHECK_DEADLOCK FALSE
