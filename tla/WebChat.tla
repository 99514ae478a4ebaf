-------------------------------- MODULE WebChat --------------------------------
(***************************************************************************)
(* What the web client shows of a session, web/src/ui/App.tsx: the list of *)
(* messages, while the event socket is up (see WebStatus for when it is    *)
(* not, and WebPrompt for the prompt for a permission).                    *)
(*                                                                         *)
(* It is written from several sides: by the events of the socket, of       *)
(* whatever session, and by the continuations of requests, which write     *)
(* without looking again at what the user has selected by then.  The       *)
(* service answers requests concurrently; what it writes, events and       *)
(* answers, is taken to arrive in the order it is written.                 *)
(*                                                                         *)
(* Nothing keeps a user from sending again in a session whose run goes on. *)
(* A send, and its run, is named by the number of the user's act it is.    *)
(*                                                                         *)
(* A message is named by its session and its place in the log.  It has the *)
(* send whose run stores it, and a revision: 0 while the statuses of its   *)
(* tool calls are still to be stored, which is done without an event.      *)
(*                                                                         *)
(* External, from AgentRun: the runs of a session.                         *)
(***************************************************************************)
EXTENDS Naturals, Sequences, FiniteSets

CONSTANTS
  MaxSessions,  \* bound on the sessions, numbered as they are created
  Room,         \* bound on the messages of each of them
  MaxActs,      \* bound on what the user does to sessions
  MaxWire,      \* bound on what is under way to the client
  Fetches       \* places for requests for messages under way

ASSUME WebChatAssumption ==
  {MaxSessions, MaxActs, MaxWire} \subseteq Nat /\ Room \in [1..MaxSessions -> Nat]

VARIABLES
  log,        \* the stored log of each session: send and revision of each message
  running,    \* the sends whose run goes on
  into,       \* the session of each send, 0 if there is no such send yet
  untold,     \* the message its run has stored and not broadcast, 0 if none
  fetches,    \* the requests for messages under way
  inbox,      \* what the service has written to this client
  created,    \* how many sessions there are
  selected,   \* selectedSessionId, 0 if none
  sending,    \* the sends whose handleSend has not ended
  shown,      \* messages: <<session, place, <<send, revision>>>>
  acts,       \* what the user has done so far
  calm,       \* history: the user has done one thing at a time, and none has failed
  alone       \* history: the sends beside which there was none in their session

service == <<log, running, into, untold>>
chatVars == <<service, fetches, inbox, created, selected, sending, shown, acts, calm, alone>>

Sessions == 1..MaxSessions
Sends == 1..MaxActs
NoSend == 0
Revisions == Sends \X {0, 1}

Idle == [state |-> "free", session |-> 0, send |-> NoSend, revs |-> <<>>]

WebChatInit ==
  /\ log = [s \in Sessions |-> <<>>]
  /\ running = {} /\ into = [k \in Sends |-> 0] /\ untold = [k \in Sends |-> 0]
  /\ fetches = [f \in Fetches |-> Idle]
  /\ inbox = <<>>
  /\ created = 0 /\ selected = 0 /\ sending = {}
  /\ shown = <<>>
  /\ acts = 0 /\ calm = TRUE /\ alone = {}

-----------------------------------------------------------------------------
(* Helpers *)

\* The messages of session s as listMessages gives them.
View(s, revs) == [n \in DOMAIN revs |-> <<s, n, revs[n]>>]

Packet(kind, s, k, n, ok, revs) ==
  [kind |-> kind, session |-> s, send |-> k, n |-> n, ok |-> ok, revs |-> revs]

\* listMessages is sent for session s, at the end of send k or of none.  It has
\* one of the free places, which are all alike.
Fetch(s, k) ==
  LET free == {f \in Fetches : fetches[f].state = "free"}
  IN /\ free # {}
     /\ fetches' = [fetches EXCEPT ![CHOOSE f \in free : TRUE] =
                     [state |-> "sent", session |-> s, send |-> k, revs |-> <<>>]]

Busy == inbox # <<>> \/ sending # {} \/ \E f \in Fetches : fetches[f].state # "free"

\* The user does one more thing, in peace (if nothing is under way) or not.
Act(peace) ==
  /\ acts < MaxActs /\ acts' = acts + 1
  /\ calm' = (calm /\ peace)

-----------------------------------------------------------------------------
(* The user *)

\* A session of the list is clicked; the effect on selectedSessionId fetches it.
Select(s) ==
  /\ s <= created /\ s # selected
  /\ selected' = s
  /\ Fetch(s, NoSend)
  /\ Act(~Busy)
  /\ UNCHANGED <<service, inbox, created, sending, shown, alone>>

Created(s) ==
  /\ s = created + 1
  /\ created' = s
  /\ selected' = s
  /\ shown' = <<>>
  /\ Fetch(s, NoSend)

\* handleNewSession, from createSession's answer on.
NewSession(s) ==
  /\ Created(s)
  /\ Act(~Busy)
  /\ UNCHANGED <<service, inbox, sending, alone>>

\* The sends into session s that have not ended.
Beside(s) == {k \in sending : into[k] = s}

\* The service begins the run of a send: it stores the prompt, and no event says
\* so.  Another run of the session may be going on.
Starts(s) ==
  LET k == acts + 1
  IN /\ k \in Sends /\ Len(log[s]) < Room[s]
     /\ log' = [log EXCEPT ![s] = Append(@, <<k, 1>>)]
     /\ running' = running \cup {k}
     /\ into' = [into EXCEPT ![k] = s]
     /\ sending' = sending \cup {k}
     /\ alone' = IF Beside(s) = {} THEN alone \cup {k} ELSE alone \ Beside(s)
     /\ UNCHANGED <<untold, inbox>>

\* handleSend: in the selected session, or in one it creates.
Send(s) ==
  /\ selected = s
  /\ Starts(s) /\ Act(~Busy)
  /\ UNCHANGED <<fetches, created, selected, shown>>

SendNew(s) ==
  /\ selected = 0
  /\ Created(s) /\ Starts(s)
  /\ Act(FALSE)

-----------------------------------------------------------------------------
(* The service *)

Pushes(frame) == Len(inbox) < MaxWire /\ inbox' = Append(inbox, frame)

client == <<created, selected, sending, shown, acts>>

AtWork(k) == k \in running /\ untold[k] = 0

\* A run stores a message, one of tool calls or another, and then broadcasts it.
Saves(k, rev) ==
  /\ AtWork(k) /\ Len(log[into[k]]) < Room[into[k]]
  /\ log' = [log EXCEPT ![into[k]] = Append(@, <<k, rev>>)]
  /\ untold' = [untold EXCEPT ![k] = Len(log[into[k]]) + 1]
  /\ UNCHANGED <<running, into, fetches, inbox, client, calm, alone>>

Broadcasts(k) ==
  /\ untold[k] # 0
  /\ untold' = [untold EXCEPT ![k] = 0]
  /\ Pushes(Packet("message", into[k], k, untold[k], TRUE, <<log[into[k]][untold[k]]>>))
  /\ UNCHANGED <<log, running, into, fetches, client, calm, alone>>

\* The statuses of its calls are stored.
Revises(k) ==
  /\ AtWork(k)
  /\ \E n \in DOMAIN log[into[k]] :
       /\ log[into[k]][n] = <<k, 0>>
       /\ log' = [log EXCEPT ![into[k]][n] = <<k, 1>>]
  /\ UNCHANGED <<running, into, untold, fetches, inbox, client, calm, alone>>

\* The run returns a message, or an error.
Ends(k, ok) ==
  /\ AtWork(k)
  /\ ok => \A n \in DOMAIN log[into[k]] : log[into[k]][n] # <<k, 0>>
  /\ running' = running \ {k}
  /\ Pushes(Packet("ran", into[k], k, 0, ok, <<>>))
  /\ UNCHANGED <<log, into, untold, fetches, client, calm, alone>>

Reads(f) ==
  /\ fetches[f].state = "sent"
  /\ fetches' = [fetches EXCEPT ![f].state = "read", ![f].revs = log[fetches[f].session]]
  /\ UNCHANGED <<service, inbox, client, calm, alone>>

AnswersFetch(f, ok) ==
  /\ fetches[f].state = "read"
  /\ fetches' = [fetches EXCEPT ![f] = Idle]
  /\ Pushes(Packet(IF fetches[f].send = NoSend THEN "listed" ELSE "refreshed",
                  fetches[f].session, fetches[f].send, 0, ok, fetches[f].revs))
  /\ UNCHANGED <<service, client, calm, alone>>

-----------------------------------------------------------------------------
(* The client takes what the service wrote *)

Takes(kind) ==
  /\ inbox # <<>> /\ Head(inbox).kind = kind
  /\ inbox' = Tail(inbox)

\* Mutated form of TakesMessage: every message comes last.
TakesMessageAsNew ==
  /\ Takes("message")
  /\ shown' = Append(shown, <<Head(inbox).session, Head(inbox).n, Head(inbox).revs[1]>>)
  /\ UNCHANGED <<service, fetches, created, selected, sending, acts, calm, alone>>

\* message.completed, of whatever session: it replaces the message it is a
\* revision of, or comes last.
TakesMessage ==
  /\ Takes("message")
  /\ LET m == <<Head(inbox).session, Head(inbox).n, Head(inbox).revs[1]>>
         same == {i \in DOMAIN shown : shown[i][1] = m[1] /\ shown[i][2] = m[2]}
     IN shown' = IF same = {} THEN Append(shown, m)
                 ELSE [i \in DOMAIN shown |-> IF i \in same THEN m ELSE shown[i]]
  /\ UNCHANGED <<service, fetches, created, selected, sending, acts, calm, alone>>

\* Mutated form of TakesRun: the messages are not fetched again.
TakesRunOnly ==
  /\ Takes("ran")
  /\ sending' = sending \ {Head(inbox).send}
  /\ calm' = (calm /\ Head(inbox).ok)
  /\ UNCHANGED <<service, fetches, created, selected, shown, acts, alone>>

\* handleSend after runAgent: an error ends it there.
TakesRun ==
  /\ Takes("ran")
  /\ IF Head(inbox).ok
     THEN Fetch(Head(inbox).session, Head(inbox).send) /\ UNCHANGED <<sending, calm>>
     ELSE /\ sending' = sending \ {Head(inbox).send}
          /\ calm' = FALSE
          /\ UNCHANGED fetches
  /\ UNCHANGED <<service, created, selected, shown, acts, alone>>

\* Mutated form of Replaced: only what is not shown yet is added.
MissingAdded(frame) ==
  LET new == View(frame.session, frame.revs)
      Missing(m) == \A i \in DOMAIN shown : <<shown[i][1], shown[i][2]>> # <<m[1], m[2]>>
  IN shown \o SelectSeq(new, Missing)

Replaced(frame) == View(frame.session, frame.revs)

\* setMessages, of the session that was asked for.
TakesMessages(kind) ==
  /\ Takes(kind)
  /\ shown' = IF Head(inbox).ok THEN Replaced(Head(inbox)) ELSE shown
  /\ sending' = IF kind = "refreshed" THEN sending \ {Head(inbox).send} ELSE sending
  /\ calm' = (calm /\ Head(inbox).ok)
  /\ UNCHANGED <<service, fetches, created, selected, acts, alone>>

-----------------------------------------------------------------------------
WebChatNext ==
  \/ \E s \in Sessions : Select(s) \/ NewSession(s) \/ Send(s) \/ SendNew(s)
  \/ \E k \in Sends : Broadcasts(k) \/ Revises(k)
  \/ \E k \in Sends, rev \in {0, 1} : Saves(k, rev)
  \/ \E k \in Sends, ok \in BOOLEAN : Ends(k, ok)
  \/ \E f \in Fetches : Reads(f) \/ \E ok \in BOOLEAN : AnswersFetch(f, ok)
  \/ TakesMessage \/ TakesRun
  \/ TakesMessages("listed") \/ TakesMessages("refreshed")

WebChatSpec == WebChatInit /\ [][WebChatNext]_chatVars

-----------------------------------------------------------------------------
(* Properties *)

\* Every variable keeps its type, and no message is shown twice, though it
\* comes by an event and by an answer.
WebChatTypeOK ==
  /\ log \in [Sessions -> Seq(Revisions)] /\ running \subseteq 1..acts
  /\ into \in [Sends -> 0..created] /\ untold \in [Sends -> Nat]
  /\ \A f \in Fetches : fetches[f].state \in {"free", "sent", "read"}
  /\ created \in 0..MaxSessions /\ selected \in 0..created
  /\ sending \subseteq 1..acts /\ alone \subseteq 1..acts
  /\ shown \in Seq(Sessions \X Nat \X Revisions)
  /\ \A i, j \in DOMAIN shown : shown[i][1] = shown[j][1] /\ shown[i][2] = shown[j][2] => i = j
  /\ acts \in 0..MaxActs /\ calm \in BOOLEAN

\* A user who does one thing at a time is shown, whenever nothing is under
\* way, the log of the selected session as it is stored: with the prompts,
\* which no event tells of, and the last revision of every message.
QuietViewIsLog ==
  calm /\ ~Busy /\ selected # 0 => shown = View(selected, log[selected])

\* And whatever a user does, and however many of his sends go on at once, the
\* fetch at the end of a send shows all that its run stored, each message in its
\* last revision.  It shows the whole log of its session if no other send went on
\* beside it there: the messages of another may have come by events meanwhile,
\* and an answer that is late takes them away again.
RefreshShowsRun ==
  [][ inbox # <<>> /\ Head(inbox).kind = "refreshed" /\ Head(inbox).ok /\ inbox' = Tail(inbox) =>
        LET s == Head(inbox).session
            k == Head(inbox).send
        IN /\ \A n \in DOMAIN log[s] :
                log[s][n][1] = k => n \in DOMAIN shown' /\ shown'[n] = <<s, n, log[s][n]>>
           /\ k \in alone => shown' = View(s, log[s]) ]_chatVars

\* Together: in the end the user sees what is stored.
ViewFollowsLog == []QuietViewIsLog /\ RefreshShowsRun
=============================================================================
