SPECIFICATION Spec
CONSTANTS
  Contexts <- MCContexts
  Root = 0
  NumNames = 2
  Timeout = 1
  MaxNow = 2
  MaxRequests = 3
  MaxChecklist = 4
CHECK_DEADLOCK FALSE
INVARIANTS
  TypeOK
  SweepIsExact
PROPERTIES
  EveryoneGoesOn
  SweepIsAtomic
