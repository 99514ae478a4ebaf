SPECIFICATION Spec
CONSTANTS
  run1 = run1
  run2 = run2
  Runs <- MCOne
  Limit = 3
  Keep = 2
  AutoCompact = TRUE
  MongoEnabled = FALSE
  MaxLog = 8
INVARIANT CompactForces
CHECK_DEADLOCK FALSE
