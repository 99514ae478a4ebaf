----------------------------- MODULE MCConnections -----------------------------
(* Instances for TLC of what holds a connection: the event socket at its two  *)
(* ends, the hub and the web client, the clients of the tool servers and the  *)
(* language servers, and the start of the desktop shell.  The modules share   *)
(* no state: a behaviour is one of the part that is chosen at the beginning,  *)
(* and the others have not begun, or are over.                                *)
EXTENDS EventHub, McpClient, McpTools, LspClient, WebStatus, Desktop

VARIABLE part

MCConns == {"c1", "c2"}
MCCasters == {"b1", "b2"}

MCServers == {"s1", "s2"}
MCTools == {"a-b", "a_b"}
\* Two tools of one server share a name.
MCNameOf(s, t) == IF s = "s1" THEN "s1__a_b" ELSE "s2__" \o t
MCFiles == {"f1", "f2"}

ASSUME MCAssumption == "s1__a_b" \in Names

-----------------------------------------------------------------------------
ToolsIdle == ToolsInit /\ configured = {} /\ tools = [s \in Servers |-> {}] /\ asked = "s1__a_b"

McpOver ==
  /\ transport = "stdio" /\ messageURL = FALSE /\ endless = FALSE /\ ctx = "done"
  /\ call = "done" /\ toServer = <<>> /\ toClient = <<>>
  /\ server = "down" /\ stderr = 0 /\ answered = {} /\ unasked = 0
  /\ taken = Nothing /\ verdict = "error"

LspOver ==
  /\ op = "request" /\ context = "done" /\ lsp = "done" /\ reader = "none"
  /\ diagnosticsCh = <<>> /\ errCh = <<>> /\ stdin = <<>> /\ stdout = <<>>
  /\ process = "down" /\ opened = FALSE /\ spoken = 0 /\ published = {}
  /\ got = NoFrame /\ result = "error"

StatusIdle ==
  StatusInit /\ backend = "down" /\ token = FALSE /\ boot = "loading" /\ loops[1] = NewLoop

DesktopOver ==
  /\ managed = TRUE /\ desk = "quit" /\ request = "none" /\ attempts = 0
  /\ serves = "nothing" /\ turns = 0 /\ since = "probing"
  /\ helper = "none" /\ serviceProcess = FALSE /\ bootStatus = "unknown"

MCInit ==
  /\ part \in {"hub", "mcp", "tools", "lsp", "status", "desktop"}
  /\ Init
  /\ IF part = "mcp" THEN McpInit ELSE McpOver
  /\ IF part = "tools" THEN ToolsInit ELSE ToolsIdle
  /\ IF part = "lsp" THEN LspInit ELSE LspOver
  /\ IF part = "status" THEN StatusInit ELSE StatusIdle
  /\ IF part = "desktop" THEN DesktopInit ELSE DesktopOver

\* Part p makes a step, and no other.
In(p) ==
  /\ part = p /\ part' = p
  /\ p # "hub" => UNCHANGED vars
  /\ p # "mcp" => UNCHANGED mcpVars
  /\ p # "tools" => UNCHANGED toolsVars
  /\ p # "lsp" => UNCHANGED lspVars
  /\ p # "status" => UNCHANGED statusVars
  /\ p # "desktop" => UNCHANGED deskVars

MCNext ==
  \/ In("hub") /\ Next
  \/ In("mcp") /\ McpNext
  \/ In("tools") /\ ToolsNext
  \/ In("lsp") /\ LspNext
  \/ In("status") /\ StatusNext
  \/ In("desktop") /\ DesktopNext

MCHub(A) == In("hub") /\ A
MCMcp(A) == In("mcp") /\ A
MCLsp(A) == In("lsp") /\ A
MCStatus(A) == In("status") /\ A
MCDesktop(A) == In("desktop") /\ A

\* The fairness of FairSpec, McpSpec, LspSpec, StatusSpec and DesktopSpec.
MCSpec ==
  /\ MCInit /\ [][MCNext]_<<part, vars, mcpVars, toolsVars, lspVars, statusVars, deskVars>>
  /\ \A c \in Conns : WF_vars(MCHub(Handler(c))) /\ WF_vars(MCHub(Receive(c)))
  /\ \A b \in Casters : WF_vars(MCHub(Casting(b)))
  /\ WF_mcpVars(MCMcp(McpStep)) /\ WF_mcpVars(MCMcp(Deadline)) /\ WF_mcpVars(MCMcp(Answer))
  /\ WF_lspVars(MCLsp(LspCaller)) /\ WF_lspVars(MCLsp(LspReader)) /\ WF_lspVars(MCLsp(ServerHears))
  /\ WF_statusVars(MCStatus(Polls))
  /\ \A l \in Loops : WF_statusVars(MCStatus(LoopSteps(l)))
  /\ \A k \in Sockets : WF_statusVars(MCStatus(Closed(k)))
  /\ WF_deskVars(MCDesktop(DesktopSteps))

\* Every module's variables keep their types.
ConnectionsTypeOK ==
  TypeOK /\ McpTypeOK /\ ToolsTypeOK /\ LspTypeOK /\ StatusTypeOK /\ DesktopTypeOK

\* A call to a tool server and one to a language server end, and leave nothing
\* behind.
CallsEnd == CallsEndClean /\ LspEndsClean
=============================================================================
