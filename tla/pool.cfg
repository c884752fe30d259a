SPECIFICATION Spec
CONSTANTS
  NIL = NIL
  Blocks = 38
  MaxRegions = 4
  Requests = {0, 1008, 1009}
INVARIANTS
  PoolWellFormed
PROPERTIES
  ImplementsArena
