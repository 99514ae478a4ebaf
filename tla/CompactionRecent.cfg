SPECIFICATION Spec
CONSTANTS
  run1 = run1
  run2 = run2
  Runs <- MCOne
  Limit = 4
  Keep = 3
  AutoCompact = TRUE
  MongoEnabled = FALSE
  MaxLog = 8
INVARIANT RecentUncompressed
CHECK_DEADLOCK FALSE
