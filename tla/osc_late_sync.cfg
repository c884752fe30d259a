SPECIFICATION Spec
CONSTANTS
  Messages <- TimedSync
  MaxAsked = 2
  MaxOther = 0
  MaxRange = 1
  RingCap = 3
  ReplyCap = 2
  SchedCap = 1
  Whole = TRUE
INVARIANTS
  AnswersRight
CHECK_DEADLOCK FALSE
