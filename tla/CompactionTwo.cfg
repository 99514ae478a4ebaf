SPECIFICATION Spec
CONSTANTS
  run1 = run1
  run2 = run2
  Runs <- MCTwo
  Limit = 2
  Keep = 1
  AutoCompact = TRUE
  MongoEnabled = TRUE
  MaxLog = 6
INVARIANTS HeadDescribed NothingElseForgotten
SYMMETRY Symmetry
CHECK_DEADLOCK FALSE
