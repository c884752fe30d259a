CONSTANTS
    Clients = {c1, c2}
    Bufs = {0}
    Nodes = {1000}
    Defs = {bell, drum}
    None = None
    Sessions <- ThreeSessions
    MaxPackets = 3
    RingCap = 3
SPECIFICATION Spec
SYMMETRY Symmetry
CHECK_DEADLOCK FALSE
INVARIANTS AnswersComeHome AnsweredExactlyOnce NamesRight
