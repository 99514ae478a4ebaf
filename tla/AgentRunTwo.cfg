SPECIFICATION Spec
CONSTANTS
  Runs <- MCTwo
  LoopLimit = 2
  StallLimit = 2
  MaxCalls = 1
  MongoEnabled = FALSE
  Compacts = TRUE
  None = None
INVARIANTS SessionSettles DegradedFailureShown
CHECK_DEADLOCK FALSE
