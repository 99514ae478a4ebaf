SPECIFICATION Spec
CONSTANTS
  run1 = run1
  run2 = run2
  Runs <- MCOne
  Limit = 3
  Keep = 2
  AutoCompact = TRUE
  MongoEnabled = TRUE
  MaxLog = 12
INVARIANTS TypeOK ContextBounded
PROPERTY HeadAdvances
CHECK_DEADLOCK FALSE
