SPECIFICATION FairSpec
CONSTANTS
  Calls <- MCCalls
  Handlers = {h1, h2}
  Keys <- MCKeys
  KeyOf <- MCOwnKeys
  Decisions <- MCDecisions
  MongoEnabled = FALSE
  MaxRestarts = 1
  None = None
INVARIANTS RulesWereVoted ConsentBeforeReturn
PROPERTY EveryoneReturns
CHECK_DEADLOCK FALSE
