SPECIFICATION MCSpec
CONSTANTS
  Calls <- MCCalls
  Paths <- MCPaths
  Pieces <- MCPieces
  Plans <- MCPlans
  Initial <- MCInitial
  Saved <- MCSaved
  Absent = Absent
  MaxSaves = 1
  PatchPaths = {"p", "q"}
  NamedPaths = {"p"}
  NoPath = ""
  Words = {"a"}
  MaxSections = 2
  MaxPieces = 2
  MaxNoise = 1
  TextSettings = {"model"}
  Dirs = {"d1", "d2"}
  Numbers = {0, 5}
  Digits = {0, 1, 9}
  MaxDigits = 2
  HalfInts = 16
  Fallback = 8
  MaxSessions = 2
  Room <- MCRoom
  MaxActs = 3
  MaxWire = 1
  Fetches = {1, 2}
  Runs = {"r1", "r2"}
  MaxRequests = 3
  MaxClicks = 2
  Requests = {"q1", "q2"}
  SessionBound = 3
  MaxCalls = 1
  MaxLoops = 1
  Names <- MCNames
  Snippets <- MCSnippets
  Rest <- MCRest
  Templates <- MCTemplates
  Declarations <- MCDeclared
  Arguments <- MCArguments
  MatchKeys <- MCKeys
  Reasons = {"x", "y"}
  LabelOf <- MCLabel
  Found <- MCFound
  RankLimit = 2
  MaxReasons = 1
INVARIANTS WorkspaceTypeOK PatchUnderstood SubtasksAccounted CommandRead TopRanked
PROPERTIES CallsKeepTheirPlan SettingsLayered ViewFollowsLog PromptFollowsRequests
CHECK_DEADLOCK FALSE
