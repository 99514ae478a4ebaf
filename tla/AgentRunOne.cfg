SPECIFICATION FairSpec
CONSTANTS
  Runs <- MCOne
  LoopLimit = 4
  StallLimit = 2
  MaxCalls = 2
  MongoEnabled = TRUE
  Compacts = TRUE
  None = None
INVARIANTS TypeOK CallsSettled AnnouncedResultsStored OutcomeOnSession StopsWhenStalled
PROPERTY RunReturns
CHECK_DEADLOCK FALSE
