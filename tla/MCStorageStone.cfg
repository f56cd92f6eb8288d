SPECIFICATION Spec
CONSTANTS
  Sizes <- MCSizes
  MaxEvents = 4
CHECK_DEADLOCK FALSE
INVARIANTS
  MemorySafe
  AnswersTell
