SPECIFICATION Spec
CONSTANTS
    w = w
    r = r
    x = x
    o = o
    f = f
    Node = {w, r, x, o, f}
    Graph <- Mixers
    Reblocked = {r, f}
    Out0 = "out"
    In0 = "in"
    Private = "private"
    Control = "control"
    Slices = 2
    MaxBlocks = 3
    MaxRunning = 2
    MaxHost = 3
INVARIANTS ReadersHearTheMix UnwrittenHeldOrSilent
PROPERTY PlayedInOrder
CHECK_DEADLOCK FALSE
