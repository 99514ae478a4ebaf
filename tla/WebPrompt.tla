------------------------------- MODULE WebPrompt -------------------------------
(***************************************************************************)
(* The prompt for a permission in the web client, web/src/ui/App.tsx:      *)
(* pendingPermission, set by the event permission.requested and cleared by *)
(* handlePermission.                                                       *)
(*                                                                         *)
(* There is one prompt for the requests of all sessions.  handlePermission *)
(* sends the decision, waits for the answer and then clears the prompt,    *)
(* whichever request it shows by then: the service lets the run go on      *)
(* before it writes its answer, so the next request of the same run may    *)
(* come first.  The buttons stay enabled meanwhile: each click is a        *)
(* decision of its own, on whatever is shown.  What the service writes is  *)
(* taken to arrive in the order it is written.                             *)
(*                                                                         *)
(* External, from PermissionBroker: the requests, numbered as they come,   *)
(* and handlePermissionDecision.                                           *)
(***************************************************************************)
EXTENDS Naturals, Sequences

CONSTANTS
  Runs,        \* runs that may ask for a permission, one request at a time
  MaxRequests, \* bound on their requests
  MaxClicks    \* bound on the user's decisions

ASSUME WebPromptAssumption == {MaxRequests, MaxClicks} \subseteq Nat

VARIABLES
  waiting,   \* the request each run waits for, 0 if none
  numbered,  \* requests so far
  socket,    \* what the service has written to this client
  prompt,    \* pendingPermission, 0 if none
  deciding,  \* how far handlePermission is, for each click
  clicked,   \* the request each click decides on, 0 if it is still to come
  prompted,  \* history: requests that have been shown
  late       \* history: requests that timed out

promptVars == <<waiting, numbered, socket, prompt, deciding, clicked, prompted, late>>

PromptNumbers == 1..MaxRequests
Clicks == 1..MaxClicks

PromptInit ==
  /\ waiting = [r \in Runs |-> 0] /\ numbered = 0
  /\ socket = <<>>
  /\ prompt = 0
  /\ deciding = [c \in Clicks |-> "no"] /\ clicked = [c \in Clicks |-> 0]
  /\ prompted = {} /\ late = {}

-----------------------------------------------------------------------------
(* The service *)

Asks(r) ==
  /\ waiting[r] = 0 /\ numbered < MaxRequests
  /\ numbered' = numbered + 1
  /\ waiting' = [waiting EXCEPT ![r] = numbered + 1]
  /\ socket' = Append(socket, <<"request", numbered + 1>>)
  /\ UNCHANGED <<prompt, deciding, clicked, prompted, late>>

\* The timer fires or the run is cancelled; no event takes the prompt back.
TimesOut(r) ==
  /\ waiting[r] # 0
  /\ late' = late \cup {waiting[r]}
  /\ waiting' = [waiting EXCEPT ![r] = 0]
  /\ UNCHANGED <<numbered, socket, prompt, deciding, clicked, prompted>>

Decided(c, how) == deciding' = [deciding EXCEPT ![c] = how]

\* ResolvePermission: the run that waits, if one still does, goes on.  Of two
\* handlers that find the request, the second may do this when nobody waits.
Resolves(c) ==
  /\ deciding[c] = "sent"
  /\ Decided(c, "resolved")
  /\ waiting' = [r \in Runs |-> IF waiting[r] = clicked[c] THEN 0 ELSE waiting[r]]
  /\ UNCHANGED <<numbered, socket, prompt, clicked, prompted, late>>

\* The store fails, or the call to the service.
ResolveFails(c) ==
  /\ deciding[c] = "sent"
  /\ Decided(c, "failed")
  /\ UNCHANGED <<waiting, numbered, socket, prompt, clicked, prompted, late>>

\* The handler's answer.
HandlerAnswers(c) ==
  /\ deciding[c] \in {"resolved", "failed"}
  /\ Decided(c, "answered")
  /\ socket' = Append(socket, <<IF deciding[c] = "resolved" THEN "ok" ELSE "error", c>>)
  /\ UNCHANGED <<waiting, numbered, prompt, clicked, prompted, late>>

-----------------------------------------------------------------------------
(* The client *)

Receives(kind) ==
  /\ socket # <<>> /\ Head(socket)[1] = kind
  /\ socket' = Tail(socket)

\* permission.requested: a prompt that is there is replaced.
ReceiveRequest ==
  /\ Receives("request")
  /\ prompt' = Head(socket)[2]
  /\ prompted' = prompted \cup {Head(socket)[2]}
  /\ UNCHANGED <<waiting, numbered, deciding, clicked, late>>

\* The user decides on the request that is shown, be it once more.
Decide(c) ==
  /\ prompt # 0 /\ deciding[c] = "no"
  /\ Decided(c, "sent")
  /\ clicked' = [clicked EXCEPT ![c] = prompt]
  /\ UNCHANGED <<waiting, numbered, socket, prompt, prompted, late>>

\* Mutated form of ReceiveOK: the prompt is left to the next event.
ReceiveOKOnly ==
  /\ Receives("ok")
  /\ Decided(Head(socket)[2], "over")
  /\ UNCHANGED <<waiting, numbered, prompt, clicked, prompted, late>>

\* handlePermission goes on: setPendingPermission(null).
ReceiveOK ==
  /\ Receives("ok")
  /\ Decided(Head(socket)[2], "over")
  /\ prompt' = 0
  /\ UNCHANGED <<waiting, numbered, clicked, prompted, late>>

\* Mutated form of ReceiveError: the prompt is cleared all the same.
ReceiveErrorAndClear ==
  /\ Receives("error")
  /\ Decided(Head(socket)[2], "over")
  /\ prompt' = 0
  /\ UNCHANGED <<waiting, numbered, clicked, prompted, late>>

\* It throws, and the prompt stays.
ReceiveError ==
  /\ Receives("error")
  /\ Decided(Head(socket)[2], "over")
  /\ UNCHANGED <<waiting, numbered, prompt, clicked, prompted, late>>

PromptNext ==
  \/ \E r \in Runs : Asks(r) \/ TimesOut(r)
  \/ \E c \in Clicks : Decide(c) \/ Resolves(c) \/ ResolveFails(c) \/ HandlerAnswers(c)
  \/ ReceiveRequest \/ ReceiveOK \/ ReceiveError

PromptSpec == PromptInit /\ [][PromptNext]_promptVars

-----------------------------------------------------------------------------
(* Properties *)

Waits(q) == \E r \in Runs : waiting[r] = q

OnTheirWay == {c \in Clicks : deciding[c] \notin {"no", "over"}}

\* A prompt is for a request that still waits, or has timed out, or on which a
\* decision is on its way: nobody is asked again about a request that the
\* client knows was decided.
PromptIsLive ==
  /\ prompt \in 0..MaxRequests
  /\ prompt # 0 => Waits(prompt) \/ prompt \in late \/ \E c \in OnTheirWay : clicked[c] = prompt

\* The prompt of a request that waits goes only when another request takes its
\* place or a decision has been made: a decision that failed can be repeated.
OnlyRivalsHide ==
  [][ prompt # 0 /\ prompt' # prompt /\ Waits(prompt) =>
        \/ prompt' > prompt
        \/ \E c \in Clicks :
             deciding[c] = "answered" /\ deciding'[c] = "over" /\ ~Waits(clicked[c]) ]_promptVars

\* Together: the prompt is there for a request, and as long as it is open.
PromptFollowsRequests == []PromptIsLive /\ OnlyRivalsHide

\* A request that was shown, and still waits, is shown.
PromptStays == \A r \in Runs : waiting[r] \in prompted => prompt = waiting[r]
=============================================================================
