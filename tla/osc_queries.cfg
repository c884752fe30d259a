SPECIFICATION FairSpec
CONSTANTS
  Messages <- SafeMessages
  MaxAsked = 2
  MaxOther = 2
  MaxRange = 1
  RingCap = 3
  ReplyCap = 2
  SchedCap = 1
  Whole = TRUE
INVARIANTS
  AnswersRight
  InStep
PROPERTIES
  EveryGetterAnswered
CHECK_DEADLOCK FALSE
