--------------------------- MODULE PermissionBroker ---------------------------
(***************************************************************************)
(* The permission broker of service/internal/app/app.go.                   *)
(*                                                                         *)
(* Every mutating or reading tool calls requestPermission, which returns   *)
(* at once when an allow rule covers the call and otherwise stores a       *)
(* "pending" request, registers a channel of capacity one under its id,    *)
(* broadcasts the request and waits for a decision, for the permission     *)
(* timer or for the end of its context.  POST /api/permissions/decide runs *)
(* ResolvePermission in a goroutine of its own: it looks the channel up,   *)
(* overwrites the stored status, installs an allow rule for                *)
(* "allow_session", and sends the decision on the channel it looked up.    *)
(* Nothing serialises the two, nor two decisions about one request.        *)
(*                                                                         *)
(* A call is identified with the request it makes, and a handler with one  *)
(* POST.  Data (paths, previews, run ids) is abstracted to KeyOf, the      *)
(* allow-rule key of a call.                                               *)
(***************************************************************************)
EXTENDS Naturals

CONSTANTS
  Calls,         \* tool calls that ask for permission, one request each
  Handlers,      \* HTTP requests that decide, one ResolvePermission each
  Keys,          \* allow-rule keys
  KeyOf,         \* KeyOf[c]: the key of call c
  Decisions,     \* decision strings; the server passes any string on
  MongoEnabled,  \* FALSE: degraded mode, requests live in memory only
  MaxRestarts,   \* bound on restarts of the service
  None           \* no value

ASSUME BrokerAssumption ==
  /\ KeyOf \in [Calls -> Keys]
  /\ {"allow_once", "allow_session", "deny"} \subseteq Decisions
  /\ Decisions \cap {"error", "pending", "timeout", None} = {}
  /\ None \notin Calls \cup {"error", "pending", "timeout"}
  /\ MongoEnabled \in BOOLEAN
  /\ MaxRestarts \in Nat

VARIABLES
  phase,       \* where each call is in requestPermission or in its tool
  result,      \* what requestPermission returns: a decision or "error"
  announced,   \* calls whose permission.requested event was broadcast
  registered,  \* domain of pendingReq
  channel,     \* content of each call's decision channel (capacity one)
  stored,      \* status of the stored request
  allowRules,  \* keys allowed for the session
  hpc,         \* where each handler is in ResolvePermission
  hcall,       \* the request it decides
  hdec,        \* its decision
  hchan,       \* TRUE when its lookup found the channel
  restarts,    \* restarts so far
  submitted    \* history: decisions submitted since the last restart

callVars    == <<phase, result, announced>>
sharedVars  == <<registered, channel, stored, allowRules>>
handlerVars == <<hpc, hcall, hdec, hchan>>
vars == <<callVars, sharedVars, handlerVars, restarts, submitted>>

InFlight == {"saving", "announcing", "waiting", "expiring", "leaving", "returned"}
Phases   == {"idle", "ran", "denied", "failed", "dead"} \cup InFlight
Statuses == Decisions \cup {None, "pending", "timeout"}
HandlerPcs == {"idle", "recording", "ruling", "sending", "done", "dead"}

Init ==
  /\ phase = [c \in Calls |-> "idle"]
  /\ result = [c \in Calls |-> None]
  /\ announced = {}
  /\ registered = {}
  /\ channel = [c \in Calls |-> None]
  /\ stored = [c \in Calls |-> None]
  /\ allowRules = {}
  /\ hpc = [h \in Handlers |-> "idle"]
  /\ hcall = [h \in Handlers |-> None]
  /\ hdec = [h \in Handlers |-> None]
  /\ hchan = [h \in Handlers |-> FALSE]
  /\ restarts = 0
  /\ submitted = {}

-----------------------------------------------------------------------------
(* Helpers *)

MoveTo(c, from, to) ==
  /\ phase[c] = from
  /\ phase' = [phase EXCEPT ![c] = to]

HandlerMoves(h, from, to) ==
  /\ hpc[h] = from
  /\ hpc' = [hpc EXCEPT ![h] = to]

\* A context may be cancelled and Mongo may fail at any call of the store.  The
\* driver's error does not tell whether the write was applied.
MaybeStored(c, s) ==
  \/ UNCHANGED stored
  \/ stored' = [stored EXCEPT ![c] = s]

-----------------------------------------------------------------------------
(* Mutated forms of the definitions below, each a slip the code could have     *)
(* made; the specification never uses them, PROJECT.json names the property    *)
(* each must break.                                                            *)

\* The timeout branch returns the status it wrote instead of an error.
TimeoutAsAnswer(c) ==
  /\ MoveTo(c, "expiring", "leaving")
  /\ result' = [result EXCEPT ![c] = "timeout"]
  /\ stored' = [stored EXCEPT ![c] = "timeout"]
  /\ UNCHANGED <<announced, registered, channel, allowRules,
                 handlerVars, restarts, submitted>>

\* The timeout branch also wakes the channel.
TimeoutFillsChannel(c) ==
  /\ MoveTo(c, "expiring", "leaving")
  /\ result' = [result EXCEPT ![c] = "error"]
  /\ stored' = [stored EXCEPT ![c] = "timeout"]
  /\ channel' = [channel EXCEPT ![c] = "deny"]
  /\ UNCHANGED <<announced, registered, allowRules, handlerVars, restarts, submitted>>

\* time.After is missing from the select.
NoTimer(c) == FALSE /\ UNCHANGED vars

\* The deferred delete is missing.
LeaveRegistered(c) ==
  /\ MoveTo(c, "leaving", "returned")
  /\ UNCHANGED <<result, announced, sharedVars, handlerVars, restarts, submitted>>

\* Any allow rule will do, whatever its key.
AllowedByAnyRule(c) ==
  /\ MoveTo(c, "idle", "returned")
  /\ allowRules # {}
  /\ result' = [result EXCEPT ![c] = "allow_session"]
  /\ UNCHANGED <<announced, sharedVars, handlerVars, restarts, submitted>>

\* The tool looks at the decision and not at the error.
ApprovedDespiteError(d) == d \notin {None, "deny"}

\* An allow rule is installed for every decision that is not a denial.
RecordRulesAlways(h) ==
  /\ HandlerMoves(h, "recording", IF hdec[h] # "deny" THEN "ruling" ELSE "sending")
  /\ stored' = [stored EXCEPT ![hcall[h]] = hdec[h]]
  /\ UNCHANGED <<callVars, registered, channel, allowRules,
                 hcall, hdec, hchan, restarts, submitted>>

\* The error of updatePermissionStatus is ignored.
RecordErrorIgnored(h) ==
  /\ MongoEnabled
  /\ HandlerMoves(h, "recording", "sending")
  /\ MaybeStored(hcall[h], hdec[h])
  /\ UNCHANGED <<callVars, registered, channel, allowRules,
                 hcall, hdec, hchan, restarts, submitted>>

\* The rule is keyed by the session alone.
AddRuleForAll(h) ==
  /\ HandlerMoves(h, "ruling", "sending")
  /\ allowRules' = Keys
  /\ UNCHANGED <<callVars, registered, channel, stored,
                 hcall, hdec, hchan, restarts, submitted>>

\* The decision channel is unbuffered.
SendUnbuffered(h) ==
  /\ HandlerMoves(h, "sending", "done")
  /\ hchan[h]
  /\ phase[hcall[h]] = "waiting"
  /\ channel[hcall[h]] = None
  /\ channel' = [channel EXCEPT ![hcall[h]] = hdec[h]]
  /\ UNCHANGED <<callVars, registered, stored, allowRules,
                 hcall, hdec, hchan, restarts, submitted>>

\* Allow rules are restored from the store after a restart.
RestartKeepsRules ==
  /\ restarts < MaxRestarts
  /\ restarts' = restarts + 1
  /\ phase' = [c \in Calls |-> IF phase[c] \in InFlight THEN "dead" ELSE phase[c]]
  /\ hpc' = [h \in Handlers |-> IF hpc[h] \in {"idle", "done"} THEN hpc[h] ELSE "dead"]
  /\ registered' = {}
  /\ channel' = [c \in Calls |-> None]
  /\ stored' = IF MongoEnabled THEN stored ELSE [c \in Calls |-> None]
  /\ submitted' = {}
  /\ UNCHANGED <<result, announced, allowRules, hcall, hdec, hchan>>

-----------------------------------------------------------------------------
(* requestPermission *)

\* The allow rules are consulted first, under allowMu.
AllowedByRule(c) ==
  /\ MoveTo(c, "idle", "returned")
  /\ KeyOf[c] \in allowRules
  /\ result' = [result EXCEPT ![c] = "allow_session"]
  /\ UNCHANGED <<announced, sharedVars, handlerVars, restarts, submitted>>

NoRule(c) ==
  /\ MoveTo(c, "idle", "saving")
  /\ KeyOf[c] \notin allowRules
  /\ UNCHANGED <<result, announced, sharedVars, handlerVars, restarts, submitted>>

\* SavePermission and memPermissions.
Save(c) ==
  /\ MoveTo(c, "saving", "announcing")
  /\ stored' = [stored EXCEPT ![c] = "pending"]
  /\ UNCHANGED <<result, announced, registered, channel, allowRules,
                 handlerVars, restarts, submitted>>

SaveFails(c) ==
  /\ MongoEnabled
  /\ MoveTo(c, "saving", "returned")
  /\ result' = [result EXCEPT ![c] = "error"]
  /\ MaybeStored(c, "pending")
  /\ UNCHANGED <<announced, registered, channel, allowRules,
                 handlerVars, restarts, submitted>>

\* The channel is registered before the request id is made public, so no
\* handler can act on the id in between.
Announce(c) ==
  /\ MoveTo(c, "announcing", "waiting")
  /\ registered' = registered \cup {c}
  /\ announced' = announced \cup {c}
  /\ UNCHANGED <<result, channel, stored, allowRules,
                 handlerVars, restarts, submitted>>

\* The three branches of the select; when several are ready Go takes any.
Receive(c) ==
  /\ MoveTo(c, "waiting", "leaving")
  /\ channel[c] # None
  /\ result' = [result EXCEPT ![c] = channel[c]]
  /\ channel' = [channel EXCEPT ![c] = None]
  /\ UNCHANGED <<announced, registered, stored, allowRules,
                 handlerVars, restarts, submitted>>

TimerFires(c) ==
  /\ MoveTo(c, "waiting", "expiring")
  /\ UNCHANGED <<result, announced, sharedVars, handlerVars, restarts, submitted>>

ContextDone(c) ==
  /\ MoveTo(c, "waiting", "leaving")
  /\ result' = [result EXCEPT ![c] = "error"]
  /\ UNCHANGED <<announced, sharedVars, handlerVars, restarts, submitted>>

\* updatePermissionStatus(..., "timeout"); its error is ignored.
WriteTimeout(c) ==
  /\ MoveTo(c, "expiring", "leaving")
  /\ result' = [result EXCEPT ![c] = "error"]
  /\ \/ stored' = [stored EXCEPT ![c] = "timeout"]
     \/ MongoEnabled /\ UNCHANGED stored
  /\ UNCHANGED <<announced, registered, channel, allowRules,
                 handlerVars, restarts, submitted>>

\* The deferred delete from pendingReq.
Leave(c) ==
  /\ MoveTo(c, "leaving", "returned")
  /\ registered' = registered \ {c}
  /\ UNCHANGED <<result, announced, channel, stored, allowRules,
                 handlerVars, restarts, submitted>>

-----------------------------------------------------------------------------
(* The tool that asked: RunShell, ReadFile, WriteFile, EditFile, ApplyPatch *)

\* The only decision the tools refuse is "deny".
Approved(d) == d \notin {None, "error", "deny"}

ToolRuns(c) ==
  /\ MoveTo(c, "returned", "ran")
  /\ Approved(result[c])
  /\ UNCHANGED <<result, announced, sharedVars, handlerVars, restarts, submitted>>

ToolDenied(c) ==
  /\ MoveTo(c, "returned", "denied")
  /\ result[c] = "deny"
  /\ UNCHANGED <<result, announced, sharedVars, handlerVars, restarts, submitted>>

ToolFails(c) ==
  /\ MoveTo(c, "returned", "failed")
  /\ result[c] = "error"
  /\ UNCHANGED <<result, announced, sharedVars, handlerVars, restarts, submitted>>

-----------------------------------------------------------------------------
(* ResolvePermission *)

\* The channel is looked up under pendingMu and used after the unlock.
Decide(h, c, d) ==
  /\ c \in announced
  /\ HandlerMoves(h, "idle", "recording")
  /\ hcall' = [hcall EXCEPT ![h] = c]
  /\ hdec' = [hdec EXCEPT ![h] = d]
  /\ hchan' = [hchan EXCEPT ![h] = c \in registered]
  /\ submitted' = submitted \cup {<<c, d>>}
  /\ UNCHANGED <<callVars, sharedVars, restarts>>

\* listPendingPermissions (which does not filter on the status) and
\* updatePermissionStatus (which does not look at the old one).  The rule is
\* installed only when the request was found.
Record(h) ==
  /\ hpc[h] = "recording"
  /\ LET c == hcall[h]
         exists == stored[c] # None
     IN /\ \E found \in {exists, exists /\ ~MongoEnabled} :
             HandlerMoves(h, "recording",
               IF hdec[h] = "allow_session" /\ found THEN "ruling" ELSE "sending")
        /\ stored' = IF exists THEN [stored EXCEPT ![c] = hdec[h]] ELSE stored
  /\ UNCHANGED <<callVars, registered, channel, allowRules,
                 hcall, hdec, hchan, restarts, submitted>>

RecordFails(h) ==
  /\ MongoEnabled
  /\ HandlerMoves(h, "recording", "done")
  /\ MaybeStored(hcall[h], hdec[h])
  /\ UNCHANGED <<callVars, registered, channel, allowRules,
                 hcall, hdec, hchan, restarts, submitted>>

AddRule(h) ==
  /\ HandlerMoves(h, "ruling", "sending")
  /\ allowRules' = allowRules \cup {KeyOf[hcall[h]]}
  /\ UNCHANGED <<callVars, registered, channel, stored,
                 hcall, hdec, hchan, restarts, submitted>>

\* The send blocks while the buffer of the channel is full; neither a timer nor
\* the request's context ends it.
Send(h) ==
  /\ HandlerMoves(h, "sending", "done")
  /\ hchan[h]
  /\ channel[hcall[h]] = None
  /\ channel' = [channel EXCEPT ![hcall[h]] = hdec[h]]
  /\ UNCHANGED <<callVars, registered, stored, allowRules,
                 hcall, hdec, hchan, restarts, submitted>>

NothingToSend(h) ==
  /\ HandlerMoves(h, "sending", "done")
  /\ ~hchan[h]
  /\ UNCHANGED <<callVars, sharedVars, hcall, hdec, hchan, restarts, submitted>>

-----------------------------------------------------------------------------
(* The service stops and starts again: New builds empty maps; Mongo keeps the *)
(* requests, degraded mode does not.                                          *)

Restart ==
  /\ restarts < MaxRestarts
  /\ restarts' = restarts + 1
  /\ phase' = [c \in Calls |-> IF phase[c] \in InFlight THEN "dead" ELSE phase[c]]
  /\ hpc' = [h \in Handlers |-> IF hpc[h] \in {"idle", "done"} THEN hpc[h] ELSE "dead"]
  /\ registered' = {}
  /\ channel' = [c \in Calls |-> None]
  /\ allowRules' = {}
  /\ stored' = IF MongoEnabled THEN stored ELSE [c \in Calls |-> None]
  /\ submitted' = {}
  /\ UNCHANGED <<result, announced, hcall, hdec, hchan>>

CallStep(c) ==
  \/ AllowedByRule(c) \/ NoRule(c)
  \/ Save(c) \/ SaveFails(c) \/ Announce(c)
  \/ Receive(c) \/ TimerFires(c) \/ ContextDone(c) \/ WriteTimeout(c) \/ Leave(c)
  \/ ToolRuns(c) \/ ToolDenied(c) \/ ToolFails(c)

HandlerStep(h) ==
  \/ \E c \in Calls, d \in Decisions : Decide(h, c, d)
  \/ Record(h) \/ RecordFails(h) \/ AddRule(h) \/ Send(h) \/ NothingToSend(h)

Next ==
  \/ \E c \in Calls : CallStep(c)
  \/ \E h \in Handlers : HandlerStep(h)
  \/ Restart

Spec == Init /\ [][Next]_vars

\* The Go runtime runs every goroutine that can run, and the permission timer
\* fires; nobody has to decide, and a context need not end.
Fairness ==
  /\ \A c \in Calls :
       /\ WF_vars(Save(c) \/ SaveFails(c)) /\ WF_vars(Announce(c))
       /\ WF_vars(TimerFires(c)) /\ WF_vars(WriteTimeout(c)) /\ WF_vars(Leave(c))
       /\ WF_vars(ToolRuns(c) \/ ToolDenied(c) \/ ToolFails(c))
  /\ \A h \in Handlers :
       /\ WF_vars(Record(h) \/ RecordFails(h)) /\ WF_vars(AddRule(h))
       /\ WF_vars(Send(h)) /\ WF_vars(NothingToSend(h))

FairSpec == Spec /\ Fairness

-----------------------------------------------------------------------------
(* Properties *)

\* Every variable has its type; results and buffered decisions are decisions.
TypeOK ==
  /\ phase \in [Calls -> Phases]
  /\ result \in [Calls -> Decisions \cup {None, "error"}]
  /\ announced \subseteq Calls
  /\ registered \subseteq Calls
  /\ channel \in [Calls -> Decisions \cup {None}]
  /\ stored \in [Calls -> Statuses]
  /\ allowRules \subseteq Keys
  /\ hpc \in [Handlers -> HandlerPcs]
  /\ hcall \in [Handlers -> Calls \cup {None}]
  /\ hdec \in [Handlers -> Decisions \cup {None}]
  /\ hchan \in [Handlers -> BOOLEAN]
  /\ \A h \in Handlers : hpc[h] # "idle" => hcall[h] \in Calls /\ hdec[h] \in Decisions
  /\ restarts \in 0..MaxRestarts
  /\ submitted \subseteq Calls \X Decisions

\* The promise the broker makes to the tools, with the consent it is about.
Verdict(c) ==
  CASE phase[c] = "ran" -> "allowed"
    [] phase[c] = "denied" -> "denied"
    [] phase[c] \in {"failed", "dead"} -> "aborted"
    [] OTHER -> "open"

Promise == INSTANCE ApprovalPromise
  WITH votes <- submitted, verdict <- [c \in Calls |-> Verdict(c)]

Consent(c) == Promise!ConsentIn(submitted, c)

\* The broker implements its promise (requestPermission, ResolvePermission and
\* the tools' test of the decision together): a tool runs only on a vote for it
\* or a session vote for its key since the last start, and is refused as
\* denied only on a vote that denies it.
KeepsPromise == Promise!Spec

\* A call on its way out of requestPermission with an approval has the consent
\* for it, whatever order handlers, timers and cancellations took.
ConsentBeforeReturn ==
  \A c \in Calls :
    phase[c] \in {"leaving", "returned"} /\ Approved(result[c]) => Consent(c)

\* An allow rule exists only for the key of a request that this run of the
\* service was asked to allow for the session: no rule outlives a restart, and
\* none comes from another key or from another decision.
RulesWereVoted ==
  \A k \in allowRules :
    \E c \in Calls : KeyOf[c] = k /\ <<c, "allow_session">> \in submitted

\* A handler can block on the send only because another handler decided the
\* same request and its decision still fills the buffer.
Blocked(h) == hpc[h] = "sending" /\ hchan[h] /\ channel[hcall[h]] # None

BlockedByRival ==
  \A h \in Handlers : Blocked(h) =>
    \E g \in Handlers \ {h} : hcall[g] = hcall[h] /\ hpc[g] = "done" /\ hchan[g]

\* pendingReq holds exactly the requests whose requestPermission has not
\* returned: a decision is never offered a channel nobody is going to release,
\* and no entry leaks on the timeout and cancellation paths.
RegisteredWhileOpen ==
  \A c \in Calls :
    c \in registered <=> phase[c] \in {"waiting", "expiring", "leaving"}

\* When one handler alone decided a request and its decision was the answer,
\* the stored status is that decision: the record is written before the answer
\* is delivered, and the timer cannot overwrite it afterwards.
Sole(h) == \A g \in Handlers \ {h} : hcall[g] # hcall[h]

SoleDecisionOnRecord ==
  \A c \in announced, h \in Handlers :
    /\ phase[c] \in {"leaving", "returned"}
    /\ result[c] # "error"
    /\ hcall[h] = c
    /\ Sole(h)
    => stored[c] = result[c]

\* A request that was broadcast always ends, without anybody deciding it: the
\* permission timer of the select sees to it.
Ended(c) == phase[c] \in {"ran", "denied", "failed", "dead"}

RequestEnds == \A c \in Calls : phase[c] = "waiting" ~> Ended(c)

\* The HTTP handler of a decision returns, unless a second handler decides the
\* same request: then it may wait for ever on a channel nobody reads.
SoleHandlerReturns ==
  \A h \in Handlers :
    hpc[h] = "recording" ~> (hpc[h] \in {"done", "dead"} \/ ~Sole(h))

\* Together: nobody waits for ever, but for a handler with a rival.
EveryoneReturns == RequestEnds /\ SoleHandlerReturns
=============================================================================
