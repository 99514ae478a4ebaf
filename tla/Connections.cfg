SPECIFICATION MCSpec
CONSTANTS
  Conns <- MCConns
  Casters <- MCCasters
  MaxEvents = 1
  Cap = 1
  None = None
  MaxUnasked = 2
  StderrCap = 1
  Servers <- MCServers
  Tools <- MCTools
  NameOf <- MCNameOf
  MaxChanges = 1
  Files <- MCFiles
  Asked = "f1"
  StdinCap = 2
  MaxSpoken = 3
  Tries = 2
  Loops = {1, 2}
  Sockets = {"a", "b", "c"}
  NoSocket = "none"
  MaxFlips = 3
  Attempts = 3
  MaxTurns = 3
INVARIANTS ConnectionsTypeOK WritesToClients AnswersFit AnswersAsAsked
PROPERTIES EveryClientServed BreaksStayLocal CallsEnd CallsAsOffered ClientComesBack DesktopOpens
CHECK_DEADLOCK FALSE
