SPECIFICATION PromptSpec
CONSTANTS
  Runs = {"r1"}
  MaxRequests = 2
  MaxClicks = 2
INVARIANTS PromptStays
CHECK_DEADLOCK FALSE
