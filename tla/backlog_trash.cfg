SPECIFICATION Spec
CONSTANTS
  b1 = b1
  b2 = b2
  b3 = b3
  b4 = b4
  b5 = b5
  b6 = b6
  NoBox = NoBox
  Box = {b1, b2, b3, b4, b5, b6}
  MaxNodes = 2
  MaxBuffers = 1
  MaxScheduled = 0
  CommandCapacity = 1
  TrashCapacity = 1
  ReplyCapacity = 1
  TreeCapacity = 1
  TraceLength = 1
  ReplyIds = 1
  Ops = {"install", "free", "write", "splice", "new", "remove", "clear", "run", "flat", "unit_free"}
SYMMETRY BoxSymmetry
INVARIANTS
  PendingTrashBounded
  OneHolder
PROPERTIES
  FreedOnlyByNrt
