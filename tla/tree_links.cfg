SPECIFICATION Spec
CONSTANTS
  n0 = n0
  n1 = n1
  n2 = n2
  n3 = n3
  n4 = n4
  None = None
  NoCmd = NoCmd
  NodeId = {n0, n1, n2, n3, n4}
  Root = n0
  MaxNodes = 4
  MaxAsking = 2
  Actions <- DoneActions
  Pausing = TRUE
SYMMETRY IdSymmetry
INVARIANTS
  WellFormed
  AskersKeepTheirSlots
PROPERTIES
  EachEndReported
  ImplementsForest
