SPECIFICATION Spec
CONSTANTS
  Calls <- MCCalls
  Handlers = {h1, h2}
  Keys <- MCKeys
  KeyOf <- MCSharedKey
  Decisions <- MCDecisions
  MongoEnabled = TRUE
  MaxRestarts = 1
  None = None
INVARIANTS TypeOK BlockedByRival RegisteredWhileOpen SoleDecisionOnRecord
PROPERTY KeepsPromise
CHECK_DEADLOCK FALSE
