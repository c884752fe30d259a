SPECIFICATION FairSpec
CONSTANTS
  b1 = b1
  b2 = b2
  b3 = b3
  b4 = b4
  b5 = b5
  b6 = b6
  NoBox = NoBox
  Box = {b1, b2}
  MaxNodes = 2
  MaxBuffers = 1
  MaxScheduled = 0
  CommandCapacity = 1
  TrashCapacity = 1
  ReplyCapacity = 1
  TreeCapacity = 2
  TraceLength = 2
  ReplyIds = 3
  Ops = {"new", "query", "trace", "install", "write", "unit_free", "unit_pause"}
INVARIANTS
  PendingRepliesBounded
PROPERTIES
  RepliesAreFifo
  RingReopens
