SPECIFICATION Spec
CONSTANTS
  Runs <- MCOne
  LoopLimit = 2
  StallLimit = 2
  MaxCalls = 1
  MongoEnabled = FALSE
  Compacts = FALSE
  None = None
INVARIANT RunStatusDeclared
CHECK_DEADLOCK FALSE
