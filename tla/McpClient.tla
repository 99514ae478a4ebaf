------------------------------ MODULE McpClient ------------------------------
(***************************************************************************)
(* One call of the client of the Model Context Protocol,                   *)
(* service/internal/mcp/client.go: ListTools and CallTool over the three   *)
(* transports of Client.call.                                              *)
(*                                                                         *)
(* Over stdio the client starts a process and talks to it over pipes; over *)
(* sse it posts its messages and reads the answers from one event stream;  *)
(* over http a request is one POST and its response.  The first two greet  *)
(* first: "initialize", its answer, "initialized", and then the request.   *)
(* readEnvelope (stdio) takes whatever message comes next as the answer;   *)
(* readSSEEnvelope waits for the id.                                       *)
(*                                                                         *)
(* External: the server.  It answers what it has heard, in order, but may  *)
(* also speak unasked (notifications, requests of its own with ids of its  *)
(* own, broken frames), write to stderr, fall silent and exit.  Texts are  *)
(* left out: a message is its id and what it says.                         *)
(***************************************************************************)
EXTENDS Naturals, Sequences

CONSTANTS
  MaxUnasked,  \* bound on what the server says without being asked
  StderrCap    \* what the pipe of stderr holds before a write to it blocks

ASSUME McpAssumption == MaxUnasked \in Nat /\ StderrCap \in Nat \ {0}

VARIABLES
  transport,   \* of the server's configuration
  messageURL,  \* TRUE: the configuration names the place to post to
  endless,     \* TRUE: the caller's context never ends (context.Background)
  ctx,         \* the context of the call, with the deadline of its transport
  call,        \* where the call is
  toServer,    \* messages on their way to the server
  toClient,    \* messages on their way to the client
  server,      \* the server: "down", "up", "silent" or "gone"
  stderr,      \* what it has written to stderr; nobody reads that pipe
  answered,    \* history: what it has answered
  unasked,     \* history: how often it spoke unasked
  taken,       \* the message last read as an answer
  verdict      \* what the call returns

settings == <<transport, messageURL, endless>>
wires == <<toServer, toClient>>
mcpServer == <<server, stderr, answered, unasked>>
mcpVars == <<settings, ctx, call, wires, mcpServer, taken, verdict>>

Transports == {"stdio", "http", "sse"}
CallPcs == {"start", "discover", "greet", "greeted", "confirm", "request",
            "requested", "done"}

Sent(method, n) == [method |-> method, id |-> n]
Requests == {Sent("initialize", 1), Sent("initialized", 0), Sent("call", 2)}

Says(what, n) == [says |-> what, id |-> n]
Nothing == Says("nothing", 0)
Answers == {Says(what, n) : what \in {"initialize", "call", "error"}, n \in {1, 2}}
Unasked == {Says("nothing", n) : n \in 0..2} \cup {Says("broken", 0), Says("endpoint", 0)}

McpInit ==
  /\ transport \in Transports
  /\ messageURL \in BOOLEAN
  /\ endless \in BOOLEAN
  /\ ctx = "live"
  /\ call = "start"
  /\ toServer = <<>> /\ toClient = <<>>
  /\ server = IF transport = "stdio" THEN "down" ELSE "up"
  /\ stderr = 0 /\ answered = {} /\ unasked = 0
  /\ taken = Nothing
  /\ verdict = "open"

-----------------------------------------------------------------------------
(* The end of a call.  The deferred Kill and Wait end the process of stdio  *)
(* on every way out.                                                       *)

Killed == IF transport = "stdio" THEN "gone" ELSE server

Return(v) ==
  /\ call' = "done"
  /\ verdict' = v
  /\ server' = Killed
  /\ UNCHANGED <<settings, ctx, wires, stderr, answered, unasked>>

\* Mutated form of Fails: a failed call leaves the process running.
FailsUnkilled ==
  /\ call' = "done"
  /\ verdict' = "error"
  /\ UNCHANGED <<settings, ctx, wires, mcpServer, taken>>

\* Mutated form of Fails: the error is dropped on the way out.
FailsUnsaid ==
  /\ call' = "done"
  /\ server' = Killed
  /\ UNCHANGED <<settings, ctx, wires, stderr, answered, unasked, taken, verdict>>

Fails == Return("error") /\ UNCHANGED taken

\* ListTools and CallTool parse the result: a message without one has nothing
\* to parse.  The result of "initialize" does parse: it lists no tools.
Parses(m) == m.says \in {"call", "initialize"}

\* A message is the answer to the request: the call returns it.
Accept(m) ==
  /\ taken' = m
  /\ Return(IF Parses(m) THEN "ok" ELSE "error")

\* A message is the answer to "initialize": its content is not looked at.
Greeted(m) ==
  /\ call' = "confirm"
  /\ taken' = m
  /\ UNCHANGED <<settings, ctx, mcpServer, verdict>>

-----------------------------------------------------------------------------
(* stdio *)

Start ==
  /\ call = "start" /\ transport = "stdio"
  /\ ctx = "live"
  /\ call' = "greet"
  /\ server' = "up"
  /\ UNCHANGED <<settings, ctx, wires, stderr, answered, unasked, taken, verdict>>

\* No command is configured, it cannot be started, or the context is done.
StartFails == call = "start" /\ transport = "stdio" /\ Fails

Writes == [greet |-> Sent("initialize", 1), confirm |-> Sent("initialized", 0),
           request |-> Sent("call", 2)]

\* Mutated form of AfterWrite: the answer to "initialize" is not waited for.
GreetUnread == [greet |-> "confirm", confirm |-> "request", request |-> "requested"]

AfterWrite == [greet |-> "greeted", confirm |-> "request", request |-> "requested"]

WriteMessage ==
  /\ transport = "stdio" /\ call \in DOMAIN Writes
  /\ server # "gone"
  /\ toServer' = Append(toServer, Writes[call])
  /\ call' = AfterWrite[call]
  /\ UNCHANGED <<settings, ctx, toClient, mcpServer, taken, verdict>>

WriteBreaks == transport = "stdio" /\ call \in DOMAIN Writes /\ server = "gone" /\ Fails

\* readEnvelope: the next message, whatever it is.
ReadNext ==
  /\ transport = "stdio" /\ call \in {"greeted", "requested"}
  /\ toClient # <<>>
  /\ LET m == Head(toClient)
     IN \/ m.says \in {"error", "broken"} /\ Fails
        \/ /\ m.says \notin {"error", "broken"}
           /\ call = "greeted"
           /\ toClient' = Tail(toClient)
           /\ Greeted(m)
           /\ UNCHANGED toServer
        \/ /\ m.says \notin {"error", "broken"}
           /\ call = "requested"
           /\ Accept(m)

ReadNothing ==
  /\ transport = "stdio" /\ call \in {"greeted", "requested"}
  /\ toClient = <<>> /\ server = "gone"
  /\ Fails

-----------------------------------------------------------------------------
(* sse and http *)

Remote == transport \in {"http", "sse"}

\* callSSE opens the stream; callHTTP has no greeting.
Open ==
  /\ call = "start" /\ Remote
  /\ ctx = "live" /\ server # "gone"
  /\ call' = CASE transport = "http" -> "request"
               [] transport = "sse" /\ messageURL -> "greet"
               [] OTHER -> "discover"
  /\ UNCHANGED <<settings, ctx, wires, mcpServer, taken, verdict>>

\* discoverSSEMessageURL reads events until one names the endpoint or looks
\* like a message of the protocol, and falls back to the stream's own address
\* on the latter and when the stream ends.  The event it stops at is consumed.
Discover ==
  /\ call = "discover"
  /\ IF toClient = <<>>
     THEN (server = "gone" \/ ctx = "done") /\ UNCHANGED toClient
     ELSE toClient' = Tail(toClient)
  /\ call' = IF toClient # <<>> /\ Head(toClient).says = "broken"
             THEN "discover" ELSE "greet"
  /\ UNCHANGED <<settings, ctx, toServer, mcpServer, taken, verdict>>

Post ==
  /\ Remote /\ call \in DOMAIN Writes
  /\ ctx = "live" /\ server # "gone"
  /\ toServer' = Append(toServer, Writes[call])
  /\ call' = AfterWrite[call]
  /\ UNCHANGED <<settings, ctx, toClient, mcpServer, taken, verdict>>

\* A connection refused or broken, a status of 400 or more, or the deadline.
\* A fallback address that takes no messages is one of these.
RequestFails == Remote /\ call \in DOMAIN Writes \cup {"start"} /\ Fails

\* readSSEEnvelope: the message with the id asked for, or any error.
Expected == IF call = "greeted" THEN 1 ELSE 2

\* Mutated form of Matches: ids are not compared.
MatchesAny(m) == m.says \notin {"broken", "endpoint"}

Matches(m) == m.says \notin {"broken", "endpoint"} /\ m.id = Expected

ReadEvent ==
  /\ transport = "sse" /\ call \in {"greeted", "requested"}
  /\ ctx = "live" /\ toClient # <<>>
  /\ LET m == Head(toClient)
     IN \/ m.says = "error" /\ Fails
        \/ /\ m.says # "error" /\ Matches(m)
           /\ call = "greeted"
           /\ toClient' = Tail(toClient)
           /\ Greeted(m)
           /\ UNCHANGED toServer
        \/ /\ m.says # "error" /\ Matches(m)
           /\ call = "requested"
           /\ Accept(m)
        \/ /\ m.says # "error" /\ ~Matches(m)
           /\ toClient' = Tail(toClient)
           /\ UNCHANGED <<settings, ctx, call, toServer, mcpServer, taken, verdict>>

\* The body of the response is the answer.
ReadResponse ==
  /\ transport = "http" /\ call = "requested"
  /\ ctx = "live" /\ toClient # <<>>
  /\ \/ Head(toClient).says \in {"error", "broken"} /\ Fails
     \/ Head(toClient).says \notin {"error", "broken"} /\ Accept(Head(toClient))

StreamEnds ==
  /\ Remote /\ call \in {"greeted", "requested"}
  /\ ctx = "done" \/ (toClient = <<>> /\ server = "gone")
  /\ Fails

\* Mutated form of Deadline: the stream is opened with the caller's context.
NoDeadline == FALSE /\ UNCHANGED mcpVars

\* The eight seconds of callSSE, the client timeout of callHTTP.
Deadline ==
  /\ Remote /\ call # "done" /\ ctx = "live"
  /\ ctx' = "done"
  /\ UNCHANGED <<settings, call, wires, mcpServer, taken, verdict>>

-----------------------------------------------------------------------------
(* The caller and the server *)

\* The caller goes; exec.CommandContext kills the process.
ContextEnds ==
  /\ ~endless /\ ctx = "live" /\ call # "done"
  /\ ctx' = "done"
  /\ server' = IF call = "start" THEN server ELSE Killed
  /\ UNCHANGED <<settings, call, wires, stderr, answered, unasked, taken, verdict>>

\* A server whose write to stderr blocks does nothing else.
Able == server = "up" /\ stderr < StderrCap

Answer ==
  /\ Able /\ toServer # <<>>
  /\ LET m == Head(toServer)
     IN \/ /\ m.id = 0
           /\ UNCHANGED <<toClient, answered>>
        \/ /\ m.id # 0
           /\ \E what \in {m.method, "error"} : toClient' = Append(toClient, Says(what, m.id))
           /\ answered' = answered \cup {m.method}
  /\ toServer' = Tail(toServer)
  /\ UNCHANGED <<settings, ctx, call, server, stderr, unasked, taken, verdict>>

\* An http server can only respond: a response of its own making is a bad one.
Speak ==
  /\ Able /\ unasked < MaxUnasked
  /\ transport = "http" => call = "requested"
  /\ \E m \in Unasked :
       /\ m.says = "endpoint" => transport = "sse"
       /\ toClient' = Append(toClient, m)
  /\ unasked' = unasked + 1
  /\ UNCHANGED <<settings, ctx, call, toServer, server, stderr, answered, taken, verdict>>

Log ==
  /\ transport = "stdio" /\ Able
  /\ stderr' = stderr + 1
  /\ UNCHANGED <<settings, ctx, call, wires, server, answered, unasked, taken, verdict>>

ServerStops ==
  /\ server = "up"
  /\ \E s \in {"silent", "gone"} : server' = s
  /\ UNCHANGED <<settings, ctx, call, wires, stderr, answered, unasked, taken, verdict>>

McpStep ==
  \/ Start \/ StartFails \/ WriteMessage \/ WriteBreaks \/ ReadNext \/ ReadNothing
  \/ Open \/ Discover \/ Post \/ RequestFails \/ ReadEvent \/ ReadResponse
  \/ StreamEnds

McpNext ==
  McpStep \/ Deadline \/ ContextEnds \/ Answer \/ Speak \/ Log \/ ServerStops

\* The goroutine of the call runs, timers fire, and a server that is able to
\* answers what it has heard.
McpFairness == WF_mcpVars(McpStep) /\ WF_mcpVars(Deadline) /\ WF_mcpVars(Answer)

McpSpec == McpInit /\ [][McpNext]_mcpVars /\ McpFairness

-----------------------------------------------------------------------------
(* Properties *)

\* Every variable keeps its type.  A call that was not decided has not ended.
McpTypeOK ==
  /\ transport \in Transports /\ messageURL \in BOOLEAN /\ endless \in BOOLEAN
  /\ ctx \in {"live", "done"}
  /\ call \in CallPcs
  /\ toServer \in Seq(Requests) /\ toClient \in Seq(Answers \cup Unasked)
  /\ server \in {"down", "up", "silent", "gone"}
  /\ stderr \in 0..StderrCap /\ unasked \in 0..MaxUnasked
  /\ answered \subseteq {"initialize", "call"}
  /\ taken \in Answers \cup Unasked
  /\ verdict \in {"open", "ok", "error"}
  /\ (verdict = "open") <=> (call # "done")

\* A call that returns without an error returns the server's answer to its
\* request.  Over stdio, where ids are not compared, a server that speaks
\* unasked makes the client one message late: then, and only then, the answer
\* to "initialize" passes for the answer to the request.
OkIsAnswered ==
  verdict = "ok" =>
    \/ taken = Says("call", 2)
    \/ transport = "stdio" /\ unasked > 0 /\ taken = Says("initialize", 1)

\* The request is sent to a server that has answered the greeting (the server
\* may count on it), except to one that spoke unasked, and except over http.
GreetsFirst ==
  (\E i \in DOMAIN toServer : toServer[i].method = "call") =>
    transport = "http" \/ unasked > 0 \/ "initialize" \in answered

\* A call that has returned leaves no process behind, whichever way it ended.
NoProcessLeft == transport = "stdio" /\ call = "done" => server \in {"down", "gone"}

\* Every call ends: remote ones by their deadline at the latest.  A call over
\* stdio has no deadline: it ends unless its context goes on and the server is
\* silent, or stuck in a write to stderr, which nobody reads.  availableTools
\* makes such a call, with a context that never ends, before every answer of
\* the model.
CallEnds ==
  <>[](\/ call = "done"
       \/ /\ transport = "stdio" /\ ctx = "live"
          /\ server = "silent" \/ stderr = StderrCap)

\* Together: the order of the conversation, and whose answer is returned.
AnswersFit == OkIsAnswered /\ GreetsFirst

\* Together: every call ends, and leaves nothing behind.
CallsEndClean == CallEnds /\ []NoProcessLeft
=============================================================================
