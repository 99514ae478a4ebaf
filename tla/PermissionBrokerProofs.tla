------------------------ MODULE PermissionBrokerProofs ------------------------
(***************************************************************************)
(* Proofs about PermissionBroker, for any set of calls, handlers, keys and *)
(* decisions, with and without Mongo and for any number of restarts.       *)
(*                                                                         *)
(* The argument: every value that can become an answer is traced back to   *)
(* the vote it came from.  A handler past its lookup carries a submitted   *)
(* decision (HandlerVoted), a buffered decision was sent by a handler that *)
(* is done (BufferFilled), an answer was a vote for this very call or was  *)
(* taken from a rule (AnswerVoted), and a rule comes from a session vote   *)
(* (RulesWereVoted).  A restart forgets votes, rules, buffers and calls in *)
(* flight together, which is what keeps the chain from reaching back       *)
(* across it.                                                              *)
(***************************************************************************)
EXTENDS PermissionBroker, TLAPS

-----------------------------------------------------------------------------
(* The inductive invariant *)

\* A handler past its lookup carries a decision that was submitted, and is
\* about to install a rule only for a session vote.
HandlerVoted ==
  \A h \in Handlers :
    /\ hpc[h] \in {"recording", "ruling", "sending"} => <<hcall[h], hdec[h]>> \in submitted
    /\ hpc[h] = "ruling" => hdec[h] = "allow_session"

\* A buffered decision was submitted for the call, by a handler that is done.
BufferFilled ==
  \A c \in Calls : channel[c] # None =>
    /\ <<c, channel[c]>> \in submitted
    /\ \E g \in Handlers : hpc[g] = "done" /\ hcall[g] = c /\ hchan[g]

SessionVote(c) ==
  \E b \in Calls : KeyOf[b] = KeyOf[c] /\ <<b, "allow_session">> \in submitted

\* The answer of requestPermission is a vote for this call, or a session vote
\* for its key, or an error.
AnswerVoted ==
  \A c \in Calls : phase[c] \in {"leaving", "returned"} =>
    \/ result[c] = "error"
    \/ <<c, result[c]>> \in submitted
    \/ result[c] = "allow_session" /\ SessionVote(c)

IInv ==
  /\ TypeOK
  /\ HandlerVoted
  /\ BufferFilled
  /\ AnswerVoted
  /\ RulesWereVoted
  /\ RegisteredWhileOpen

-----------------------------------------------------------------------------
(* Type correctness *)

\* Every variable keeps its type through the steps of calls, of handlers and
\* of a restart.
THEOREM TypeCorrect == Spec => []TypeOK
<1> USE BrokerAssumption DEF TypeOK, Phases, InFlight, Statuses, HandlerPcs
<1>1. Init => TypeOK
  BY DEF Init
<1>2. TypeOK /\ [Next]_vars => TypeOK'
  <2> SUFFICES ASSUME TypeOK, [Next]_vars PROVE TypeOK'
    OBVIOUS
  <2> USE DEF callVars, sharedVars, handlerVars, MoveTo, HandlerMoves, MaybeStored
  <2>1. ASSUME NEW c \in Calls, CallStep(c) PROVE TypeOK'
    <3>1. CASE AllowedByRule(c) BY <3>1 DEF AllowedByRule
    <3>2. CASE NoRule(c) BY <3>2 DEF NoRule
    <3>3. CASE Save(c) BY <3>3 DEF Save
    <3>4. CASE SaveFails(c) BY <3>4 DEF SaveFails
    <3>5. CASE Announce(c) BY <3>5 DEF Announce
    <3>6. CASE Receive(c) BY <3>6 DEF Receive
    <3>7. CASE TimerFires(c) BY <3>7 DEF TimerFires
    <3>8. CASE ContextDone(c) BY <3>8 DEF ContextDone
    <3>9. CASE WriteTimeout(c) BY <3>9 DEF WriteTimeout
    <3>10. CASE Leave(c) BY <3>10 DEF Leave
    <3>11. CASE ToolRuns(c) BY <3>11 DEF ToolRuns
    <3>12. CASE ToolDenied(c) BY <3>12 DEF ToolDenied
    <3>13. CASE ToolFails(c) BY <3>13 DEF ToolFails
    <3> QED BY <2>1, <3>1, <3>2, <3>3, <3>4, <3>5, <3>6, <3>7, <3>8, <3>9,
               <3>10, <3>11, <3>12, <3>13 DEF CallStep
  <2>2. ASSUME NEW h \in Handlers, HandlerStep(h) PROVE TypeOK'
    <3>1. ASSUME NEW c \in Calls, NEW d \in Decisions, Decide(h, c, d) PROVE TypeOK'
      BY <3>1 DEF Decide
    <3>2. CASE Record(h) BY <3>2 DEF Record
    <3>3. CASE RecordFails(h) BY <3>3 DEF RecordFails
    <3>4. CASE AddRule(h) BY <3>4 DEF AddRule
    <3>5. CASE Send(h) BY <3>5 DEF Send
    <3>6. CASE NothingToSend(h) BY <3>6 DEF NothingToSend
    <3> QED BY <2>2, <3>1, <3>2, <3>3, <3>4, <3>5, <3>6 DEF HandlerStep
  <2>3. CASE Restart BY <2>3 DEF Restart
  <2>4. CASE UNCHANGED vars BY <2>4 DEF vars
  <2> QED BY <2>1, <2>2, <2>3, <2>4 DEF Next
<1> QED BY <1>1, <1>2, PTL DEF Spec

-----------------------------------------------------------------------------
(* The inductive invariant is inductive *)

\* The service starts with nothing registered, decided or allowed.
LEMMA InitIInv == Init => IInv
<1> SUFFICES ASSUME Init PROVE IInv
  OBVIOUS
<1>1. TypeOK
  BY BrokerAssumption DEF Init, TypeOK, Phases, InFlight, Statuses, HandlerPcs
<1>2. HandlerVoted /\ BufferFilled /\ AnswerVoted /\ RulesWereVoted
  BY DEF Init, HandlerVoted, BufferFilled, AnswerVoted, RulesWereVoted
<1>3. RegisteredWhileOpen
  BY DEF Init, RegisteredWhileOpen
<1> QED BY <1>1, <1>2, <1>3 DEF IInv

\* What a step of a call leaves alone: the handlers, the votes, the rules, the
\* other calls; of the channels it can only drain its own.
LEMMA CallFrame ==
  ASSUME TypeOK, NEW c \in Calls, CallStep(c)
  PROVE  /\ UNCHANGED <<handlerVars, submitted, allowRules>>
         /\ channel' = channel \/ channel' = [channel EXCEPT ![c] = None]
         /\ \A e \in Calls \ {c} :
              /\ phase'[e] = phase[e]
              /\ result'[e] = result[e]
              /\ e \in registered' <=> e \in registered
<1> USE DEF TypeOK, callVars, sharedVars, handlerVars, MoveTo
<1>1. CASE AllowedByRule(c) BY <1>1 DEF AllowedByRule
<1>2. CASE NoRule(c) BY <1>2 DEF NoRule
<1>3. CASE Save(c) BY <1>3 DEF Save
<1>4. CASE SaveFails(c) BY <1>4 DEF SaveFails
<1>5. CASE Announce(c) BY <1>5 DEF Announce
<1>6. CASE Receive(c) BY <1>6 DEF Receive
<1>7. CASE TimerFires(c) BY <1>7 DEF TimerFires
<1>8. CASE ContextDone(c) BY <1>8 DEF ContextDone
<1>9. CASE WriteTimeout(c) BY <1>9 DEF WriteTimeout
<1>10. CASE Leave(c) BY <1>10 DEF Leave
<1>11. CASE ToolRuns(c) BY <1>11 DEF ToolRuns
<1>12. CASE ToolDenied(c) BY <1>12 DEF ToolDenied
<1>13. CASE ToolFails(c) BY <1>13 DEF ToolFails
<1> QED BY <1>1, <1>2, <1>3, <1>4, <1>5, <1>6, <1>7, <1>8, <1>9, <1>10, <1>11, <1>12, <1>13 DEF CallStep

\* The entry of a call in pendingReq follows its own steps.
LEMMA CallRegistered ==
  ASSUME TypeOK, RegisteredWhileOpen, NEW c \in Calls, CallStep(c)
  PROVE  c \in registered' <=> phase'[c] \in {"waiting", "expiring", "leaving"}
<1> USE DEF TypeOK, RegisteredWhileOpen, callVars, sharedVars, MoveTo
<1>1. CASE AllowedByRule(c) BY <1>1 DEF AllowedByRule
<1>2. CASE NoRule(c) BY <1>2 DEF NoRule
<1>3. CASE Save(c) BY <1>3 DEF Save
<1>4. CASE SaveFails(c) BY <1>4 DEF SaveFails
<1>5. CASE Announce(c) BY <1>5 DEF Announce
<1>6. CASE Receive(c) BY <1>6 DEF Receive
<1>7. CASE TimerFires(c) BY <1>7 DEF TimerFires
<1>8. CASE ContextDone(c) BY <1>8 DEF ContextDone
<1>9. CASE WriteTimeout(c) BY <1>9 DEF WriteTimeout
<1>10. CASE Leave(c) BY <1>10 DEF Leave
<1>11. CASE ToolRuns(c) BY <1>11 DEF ToolRuns
<1>12. CASE ToolDenied(c) BY <1>12 DEF ToolDenied
<1>13. CASE ToolFails(c) BY <1>13 DEF ToolFails
<1> QED BY <1>1, <1>2, <1>3, <1>4, <1>5, <1>6, <1>7, <1>8, <1>9, <1>10, <1>11, <1>12, <1>13 DEF CallStep

\* The answer of a call comes from its channel, from a rule, or is an error.
LEMMA CallAnswered ==
  ASSUME IInv, NEW c \in Calls, CallStep(c), phase'[c] \in {"leaving", "returned"}
  PROVE  \/ result'[c] = "error"
         \/ <<c, result'[c]>> \in submitted
         \/ result'[c] = "allow_session" /\ SessionVote(c)
<1> USE DEF IInv, TypeOK, callVars, MoveTo
<1>1. CASE AllowedByRule(c) BY <1>1 DEF AllowedByRule, RulesWereVoted, SessionVote
<1>2. CASE Receive(c) BY <1>2 DEF Receive, BufferFilled
<1>3. CASE SaveFails(c) \/ ContextDone(c) \/ WriteTimeout(c)
  BY <1>3 DEF SaveFails, ContextDone, WriteTimeout
<1>4. CASE Leave(c) BY <1>4 DEF Leave, AnswerVoted
<1>5. CASE NoRule(c) \/ Save(c) \/ Announce(c) \/ TimerFires(c)
  BY <1>5 DEF NoRule, Save, Announce, TimerFires
<1>6. CASE ToolRuns(c) \/ ToolDenied(c) \/ ToolFails(c)
  BY <1>6 DEF ToolRuns, ToolDenied, ToolFails
<1> QED BY <1>1, <1>2, <1>3, <1>4, <1>5, <1>6 DEF CallStep

\* requestPermission and the tool behind it keep the inductive invariant.
LEMMA CallKeepsIInv ==
  ASSUME IInv, TypeOK', NEW c \in Calls, CallStep(c) PROVE IInv'
<1> USE DEF IInv
<1>1. HandlerVoted' /\ RulesWereVoted'
  BY CallFrame DEF HandlerVoted, RulesWereVoted, handlerVars
<1>2. BufferFilled'
  BY CallFrame DEF BufferFilled, TypeOK, handlerVars
<1>3. AnswerVoted'
  <2> SUFFICES ASSUME NEW e \in Calls, phase'[e] \in {"leaving", "returned"}
               PROVE  \/ result'[e] = "error"
                      \/ <<e, result'[e]>> \in submitted'
                      \/ result'[e] = "allow_session" /\ SessionVote(e)'
    BY DEF AnswerVoted
  <2>1. SessionVote(e)' = SessionVote(e) /\ submitted' = submitted
    BY CallFrame DEF SessionVote
  <2>2. CASE e = c BY <2>1, <2>2, CallAnswered
  <2>3. CASE e # c BY <2>1, <2>3, CallFrame DEF AnswerVoted
  <2> QED BY <2>2, <2>3
<1>4. RegisteredWhileOpen'
  <2> SUFFICES ASSUME NEW e \in Calls
               PROVE  e \in registered' <=> phase'[e] \in {"waiting", "expiring", "leaving"}
    BY DEF RegisteredWhileOpen
  <2>1. CASE e = c BY <2>1, CallRegistered
  <2>2. CASE e # c BY <2>2, CallFrame DEF RegisteredWhileOpen
  <2> QED BY <2>1, <2>2
<1> QED BY <1>1, <1>2, <1>3, <1>4

-----------------------------------------------------------------------------
\* What a step of a handler leaves alone: the calls, pendingReq, the other
\* handlers; no vote is withdrawn, and a handler that is done stays done.
LEMMA HandlerFrame ==
  ASSUME TypeOK, NEW h \in Handlers, HandlerStep(h)
  PROVE  /\ UNCHANGED <<callVars, registered>>
         /\ submitted \subseteq submitted'
         /\ hpc[h] # "done"
         /\ hpc[h] = "idle" \/ UNCHANGED <<hcall, hdec, hchan>>
         /\ \A g \in Handlers \ {h} :
              /\ hpc'[g] = hpc[g]
              /\ hcall'[g] = hcall[g]
              /\ hdec'[g] = hdec[g]
              /\ hchan'[g] = hchan[g]
<1> USE DEF TypeOK, sharedVars, HandlerMoves
<1>1. CASE \E c \in Calls, d \in Decisions : Decide(h, c, d) BY <1>1 DEF Decide
<1>2. CASE Record(h) BY <1>2 DEF Record
<1>3. CASE RecordFails(h) BY <1>3 DEF RecordFails
<1>4. CASE AddRule(h) BY <1>4 DEF AddRule
<1>5. CASE Send(h) BY <1>5 DEF Send
<1>6. CASE NothingToSend(h) BY <1>6 DEF NothingToSend
<1> QED BY <1>1, <1>2, <1>3, <1>4, <1>5, <1>6 DEF HandlerStep

\* The three conjuncts a handler can disturb.
LEMMA HandlerKeepsVoted ==
  ASSUME IInv, NEW h \in Handlers, HandlerStep(h)
  PROVE  HandlerVoted' /\ BufferFilled' /\ RulesWereVoted'
<1> USE BrokerAssumption DEF IInv, TypeOK, HandlerVoted, BufferFilled, RulesWereVoted,
        callVars, sharedVars, HandlerMoves
<1>1. ASSUME NEW c \in Calls, NEW d \in Decisions, Decide(h, c, d)
      PROVE  HandlerVoted' /\ BufferFilled' /\ RulesWereVoted'
  <2>1. HandlerVoted' BY <1>1 DEF Decide
  <2>2. BufferFilled' BY <1>1 DEF Decide
  <2>3. RulesWereVoted' BY <1>1 DEF Decide
  <2> QED BY <2>1, <2>2, <2>3
<1>2. CASE Record(h)
  <2>1. HandlerVoted' BY <1>2 DEF Record
  <2>2. BufferFilled' BY <1>2 DEF Record
  <2>3. RulesWereVoted' BY <1>2 DEF Record
  <2> QED BY <2>1, <2>2, <2>3
<1>3. CASE RecordFails(h)
  <2>1. HandlerVoted' BY <1>3 DEF RecordFails
  <2>2. BufferFilled' BY <1>3 DEF RecordFails
  <2>3. RulesWereVoted' BY <1>3 DEF RecordFails
  <2> QED BY <2>1, <2>2, <2>3
<1>4. CASE AddRule(h)
  <2>1. HandlerVoted' BY <1>4 DEF AddRule
  <2>2. BufferFilled' BY <1>4 DEF AddRule
  <2>3. RulesWereVoted' BY <1>4 DEF AddRule
  <2> QED BY <2>1, <2>2, <2>3
<1>5. CASE Send(h)
  <2>1. HandlerVoted' BY <1>5 DEF Send
  <2>2. BufferFilled' BY <1>5 DEF Send
  <2>3. RulesWereVoted' BY <1>5 DEF Send
  <2> QED BY <2>1, <2>2, <2>3
<1>6. CASE NothingToSend(h) BY <1>6 DEF NothingToSend
<1> QED BY <1>1, <1>2, <1>3, <1>4, <1>5, <1>6 DEF HandlerStep

\* ResolvePermission keeps the inductive invariant.
LEMMA HandlerKeepsIInv ==
  ASSUME IInv, TypeOK', NEW h \in Handlers, HandlerStep(h) PROVE IInv'
<1> USE DEF IInv
<1>1. HandlerVoted' /\ BufferFilled' /\ RulesWereVoted'
  BY HandlerKeepsVoted
<1>2. AnswerVoted'
  BY HandlerFrame DEF AnswerVoted, SessionVote, callVars
<1>3. RegisteredWhileOpen'
  BY HandlerFrame DEF RegisteredWhileOpen, callVars
<1> QED BY <1>1, <1>2, <1>3

-----------------------------------------------------------------------------
\* A restart empties everything the invariant speaks of at once.
LEMMA RestartKeepsIInv ==
  ASSUME IInv, TypeOK', Restart PROVE IInv'
<1> USE DEF IInv, Restart, TypeOK
<1>1. HandlerVoted' BY DEF HandlerVoted
<1>2. BufferFilled' /\ RulesWereVoted' BY DEF BufferFilled, RulesWereVoted
<1>3. AnswerVoted' BY DEF AnswerVoted, InFlight
<1>4. RegisteredWhileOpen' BY DEF RegisteredWhileOpen, InFlight
<1> QED BY <1>1, <1>2, <1>3, <1>4

\* Every reachable state satisfies the inductive invariant.
THEOREM Invariance == Spec => []IInv
<1>1. Init => IInv
  BY InitIInv
<1>2. IInv /\ TypeOK' /\ [Next]_vars => IInv'
  <2> SUFFICES ASSUME IInv, TypeOK', [Next]_vars PROVE IInv'
    OBVIOUS
  <2>1. CASE \E c \in Calls : CallStep(c) BY <2>1, CallKeepsIInv
  <2>2. CASE \E h \in Handlers : HandlerStep(h) BY <2>2, HandlerKeepsIInv
  <2>3. CASE Restart BY <2>3, RestartKeepsIInv
  <2>4. CASE UNCHANGED vars
    BY <2>4 DEF vars, callVars, sharedVars, handlerVars, IInv, HandlerVoted, BufferFilled,
                AnswerVoted, SessionVote, RulesWereVoted, RegisteredWhileOpen
  <2> QED BY <2>1, <2>2, <2>3, <2>4 DEF Next
<1> QED BY <1>1, <1>2, TypeCorrect, PTL DEF Spec

-----------------------------------------------------------------------------
(* The properties the runs check, for every instance *)

\* A call leaves requestPermission with an approval only when it was consented to.
THEOREM Consented == Spec => []ConsentBeforeReturn
<1>1. IInv => ConsentBeforeReturn
  BY BrokerAssumption DEF IInv, TypeOK, AnswerVoted, SessionVote, ConsentBeforeReturn, Approved,
     Consent, Promise!ConsentIn
<1> QED BY <1>1, Invariance, PTL

\* An allow rule was voted for since the last start.
THEOREM RulesVoted == Spec => []RulesWereVoted
<1>1. IInv => RulesWereVoted BY DEF IInv
<1> QED BY <1>1, Invariance, PTL

\* Only a rival that sent first blocks a handler.
THEOREM BlockingNeedsRival == Spec => []BlockedByRival
<1>1. IInv => BlockedByRival
  BY DEF IInv, TypeOK, BufferFilled, BlockedByRival, Blocked
<1> QED BY <1>1, Invariance, PTL

\* pendingReq leaks no entry and loses none.
THEOREM RegistrationExact == Spec => []RegisteredWhileOpen
<1>1. IInv => RegisteredWhileOpen BY DEF IInv
<1> QED BY <1>1, Invariance, PTL

-----------------------------------------------------------------------------
(* The refinement *)

\* A step of a call closes its verdict on the votes present, or is a stutter.
LEMMA CallRefines ==
  ASSUME IInv, NEW c \in Calls, CallStep(c) PROVE [Promise!Next]_(Promise!apVars)
<1> USE DEF Promise!apVars, IInv, TypeOK
<1>0. UNCHANGED submitted
  BY CallFrame DEF IInv
<1>1. CASE ToolRuns(c)
  <2>1. Consent(c)
    BY <1>1, BrokerAssumption DEF ToolRuns, MoveTo, AnswerVoted, SessionVote, Approved,
       Consent, Promise!ConsentIn
  <2>2. Promise!Close(c, "allowed")
    BY <1>0, <1>1 DEF ToolRuns, MoveTo, Promise!Close, Verdict
  <2> QED BY <2>1, <2>2 DEF Consent, Promise!Allow, Promise!Next
<1>2. CASE ToolDenied(c)
  <2>1. <<c, "deny">> \in submitted
    BY <1>2 DEF ToolDenied, MoveTo, AnswerVoted
  <2>2. Promise!Close(c, "denied")
    BY <1>0, <1>2 DEF ToolDenied, MoveTo, Promise!Close, Verdict
  <2> QED BY <2>1, <2>2 DEF Promise!Deny, Promise!Next
<1>3. CASE ToolFails(c)
  <2>1. Promise!Close(c, "aborted")
    BY <1>0, <1>3 DEF ToolFails, MoveTo, Promise!Close, Verdict
  <2> QED BY <2>1 DEF Promise!Abort, Promise!Next
<1>4. CASE ~(ToolRuns(c) \/ ToolDenied(c) \/ ToolFails(c))
  <2>1. phase[c] \notin {"ran", "denied", "failed", "dead"}
    BY <1>4 DEF CallStep, AllowedByRule, NoRule, Save, SaveFails, Announce, Receive,
       TimerFires, ContextDone, WriteTimeout, Leave, MoveTo
  <2>2. phase'[c] \notin {"ran", "denied", "failed", "dead"}
    BY <1>4 DEF CallStep, AllowedByRule, NoRule, Save, SaveFails, Announce, Receive,
       TimerFires, ContextDone, WriteTimeout, Leave, MoveTo
  <2>3. \A e \in Calls \ {c} : phase'[e] = phase[e]
    BY CallFrame
  <2>4. \A e \in Calls : Verdict(e)' = Verdict(e)
    BY <2>1, <2>2, <2>3 DEF Verdict
  <2> QED BY <1>0, <2>4
<1> QED BY <1>1, <1>2, <1>3, <1>4

\* A step of a handler is a vote, or a stutter.
LEMMA HandlerRefines ==
  ASSUME IInv, NEW h \in Handlers, HandlerStep(h) PROVE [Promise!Next]_(Promise!apVars)
<1> USE DEF Promise!apVars, IInv
<1>0. \A e \in Calls : Verdict(e)' = Verdict(e)
  BY HandlerFrame DEF callVars, Verdict
<1>1. ASSUME NEW c \in Calls, NEW d \in Decisions, Decide(h, c, d)
      PROVE  Promise!Next
  BY <1>0, <1>1 DEF Decide, Promise!Vote, Promise!Next
<1>2. CASE Record(h) \/ RecordFails(h) \/ AddRule(h) \/ Send(h) \/ NothingToSend(h)
  BY <1>0, <1>2 DEF Record, RecordFails, AddRule, Send, NothingToSend
<1> QED BY <1>1, <1>2 DEF HandlerStep

\* A restart aborts the calls in flight and forgets the votes.
LEMMA RestartRefines ==
  ASSUME IInv, Restart PROVE Promise!Next
<1> DEFINE lost == {c \in Calls : phase[c] \in InFlight}
<1>1. lost \subseteq {c \in Calls : Verdict(c) = "open"}
  BY DEF Verdict, InFlight
<1>2. \A c \in Calls : Verdict(c)' = IF c \in lost THEN "aborted" ELSE Verdict(c)
  BY DEF Restart, Verdict, InFlight, IInv, TypeOK
<1>3. [c \in Calls |-> Verdict(c)]' =
        [c \in Calls |-> IF c \in lost THEN "aborted" ELSE [e \in Calls |-> Verdict(e)][c]]
  BY <1>2
<1>4. lost \in SUBSET {c \in Calls : [e \in Calls |-> Verdict(e)][c] = "open"}
  BY <1>1
<1>5. submitted' = {} BY DEF Restart
<1> QED BY <1>3, <1>4, <1>5 DEF Promise!Forget, Promise!Next

\* The broker keeps its promise: it implements ApprovalPromise.
THEOREM Refinement == Spec => KeepsPromise
<1>1. Init => Promise!Init
  BY DEF Init, Promise!Init, Verdict
<1>2. IInv /\ [Next]_vars => [Promise!Next]_(Promise!apVars)
  <2> SUFFICES ASSUME IInv, [Next]_vars PROVE [Promise!Next]_(Promise!apVars)
    OBVIOUS
  <2>1. CASE \E c \in Calls : CallStep(c) BY <2>1, CallRefines
  <2>2. CASE \E h \in Handlers : HandlerStep(h) BY <2>2, HandlerRefines
  <2>3. CASE Restart BY <2>3, RestartRefines
  <2>4. CASE UNCHANGED vars
    BY <2>4 DEF vars, callVars, Promise!apVars, Verdict
  <2> QED BY <2>1, <2>2, <2>3, <2>4 DEF Next
<1> QED BY <1>1, <1>2, Invariance, PTL DEF Spec, KeepsPromise, Promise!Spec

-----------------------------------------------------------------------------
(* The record of a request that one handler decided *)

\* An idle handler has no request, so deciding never frees another from a rival;
\* the others have one that was made public.
IdleHasNoCall ==
  \A h \in Handlers :
    /\ hpc[h] = "idle" => hcall[h] = None
    /\ hpc[h] # "idle" => hcall[h] \in announced

\* A request that was made public is past its announcement, and on record for
\* as long as its call is in flight.
AnnouncedOnRecord ==
  /\ \A c \in announced :
       /\ phase[c] \notin {"idle", "saving", "announcing"}
       /\ phase[c] \in {"waiting", "expiring", "leaving", "returned"} => stored[c] # None
  /\ \A c \in Calls : phase[c] = "announcing" => stored[c] # None

\* A handler that is about to send to a call that waits has its decision on
\* record, if it has no rival.
SenderOnRecord ==
  \A h \in Handlers :
    hpc[h] \in {"ruling", "sending"} /\ phase[hcall[h]] = "waiting" /\ Sole(h)
      => stored[hcall[h]] = hdec[h]

\* A buffered decision, and one that was answered, was sent by a handler that
\* is done, and is on record if that handler has no rival.
BufferOnRecord ==
  \A c \in Calls : channel[c] # None =>
    \E g \in Handlers :
      /\ hpc[g] = "done" /\ hcall[g] = c
      /\ phase[c] = "waiting" /\ Sole(g) => stored[c] = channel[c]

AnswerOnRecord ==
  \A c \in announced : phase[c] \in {"leaving", "returned"} /\ result[c] # "error" =>
    \E g \in Handlers :
      /\ hpc[g] = "done" /\ hcall[g] = c
      /\ Sole(g) => stored[c] = result[c]

RecordInv ==
  /\ IdleHasNoCall
  /\ AnnouncedOnRecord
  /\ SenderOnRecord
  /\ BufferOnRecord
  /\ AnswerOnRecord

\* No request is stored, announced or decided at the start.
LEMMA InitRecord == Init => RecordInv
BY DEF Init, RecordInv, IdleHasNoCall, AnnouncedOnRecord, SenderOnRecord, BufferOnRecord,
       AnswerOnRecord

\* A call does not disturb the record of a sole decision: it writes "timeout"
\* only when it leaves with an error.
LEMMA CallKeepsRecord ==
  ASSUME IInv, RecordInv, NEW c \in Calls, CallStep(c) PROVE RecordInv'
<1> USE DEF RecordInv
<1>0. UNCHANGED <<hpc, hcall, hdec>>
  BY CallFrame DEF IInv, handlerVars
<1>1. \A h \in Handlers : Sole(h)' = Sole(h)
  BY <1>0 DEF Sole
<1>2. IdleHasNoCall'
  <2>1. announced \subseteq announced'
    BY DEF CallStep, AllowedByRule, NoRule, Save, SaveFails, Announce, Receive,
       TimerFires, ContextDone, WriteTimeout, Leave, ToolRuns, ToolDenied, ToolFails, callVars
  <2> QED BY <1>0, <2>1 DEF IdleHasNoCall
<1>a. phase[c] \in {"idle", "saving", "announcing"} =>
        c \notin announced /\ \A h \in Handlers : hcall[h] # c
  BY BrokerAssumption DEF AnnouncedOnRecord, IdleHasNoCall, IInv, TypeOK
<1>b. None \notin {"pending", "timeout", "error"}
  BY BrokerAssumption
<1> USE DEF IInv, TypeOK, MoveTo, callVars, sharedVars
<1>3. CASE AllowedByRule(c)
  <2>1. AnnouncedOnRecord' BY <1>0, <1>1, <1>3, <1>a, <1>b DEF AllowedByRule, AnnouncedOnRecord
  <2>2. SenderOnRecord' BY <1>0, <1>1, <1>3, <1>a, <1>b DEF AllowedByRule, SenderOnRecord
  <2>3. BufferOnRecord' BY <1>0, <1>1, <1>3, <1>a, <1>b DEF AllowedByRule, BufferOnRecord
  <2>4. AnswerOnRecord' BY <1>0, <1>1, <1>3, <1>a, <1>b DEF AllowedByRule, AnswerOnRecord
  <2> QED BY <1>2, <2>1, <2>2, <2>3, <2>4
<1>4. CASE NoRule(c)
  <2>1. AnnouncedOnRecord' BY <1>0, <1>1, <1>4, <1>a, <1>b DEF NoRule, AnnouncedOnRecord
  <2>2. SenderOnRecord' BY <1>0, <1>1, <1>4, <1>a, <1>b DEF NoRule, SenderOnRecord
  <2>3. BufferOnRecord' BY <1>0, <1>1, <1>4, <1>a, <1>b DEF NoRule, BufferOnRecord
  <2>4. AnswerOnRecord' BY <1>0, <1>1, <1>4, <1>a, <1>b DEF NoRule, AnswerOnRecord
  <2> QED BY <1>2, <2>1, <2>2, <2>3, <2>4
<1>5. CASE Save(c)
  <2>1. AnnouncedOnRecord' BY <1>0, <1>1, <1>5, <1>a, <1>b DEF Save, AnnouncedOnRecord
  <2>2. SenderOnRecord' BY <1>0, <1>1, <1>5, <1>a, <1>b DEF Save, SenderOnRecord
  <2>3. BufferOnRecord' BY <1>0, <1>1, <1>5, <1>a, <1>b DEF Save, BufferOnRecord
  <2>4. AnswerOnRecord' BY <1>0, <1>1, <1>5, <1>a, <1>b DEF Save, AnswerOnRecord
  <2> QED BY <1>2, <2>1, <2>2, <2>3, <2>4
<1>6. CASE SaveFails(c)
  <2>1. AnnouncedOnRecord' BY <1>0, <1>1, <1>6, <1>a, <1>b DEF SaveFails, MaybeStored, AnnouncedOnRecord
  <2>2. SenderOnRecord' BY <1>0, <1>1, <1>6, <1>a, <1>b DEF SaveFails, MaybeStored, SenderOnRecord
  <2>3. BufferOnRecord' BY <1>0, <1>1, <1>6, <1>a, <1>b DEF SaveFails, MaybeStored, BufferOnRecord
  <2>4. AnswerOnRecord' BY <1>0, <1>1, <1>6, <1>a, <1>b DEF SaveFails, MaybeStored, AnswerOnRecord
  <2> QED BY <1>2, <2>1, <2>2, <2>3, <2>4
<1>7. CASE Announce(c)
  <2>1. AnnouncedOnRecord' BY <1>0, <1>1, <1>7, <1>a, <1>b DEF Announce, AnnouncedOnRecord
  <2>2. SenderOnRecord' BY <1>0, <1>1, <1>7, <1>a, <1>b DEF Announce, SenderOnRecord
  <2>3. BufferOnRecord' BY <1>0, <1>1, <1>7, <1>a, <1>b DEF Announce, BufferOnRecord
  <2>4. AnswerOnRecord' BY <1>0, <1>1, <1>7, <1>a, <1>b DEF Announce, AnswerOnRecord
  <2> QED BY <1>2, <2>1, <2>2, <2>3, <2>4
<1>8. CASE Receive(c)
  <2>1. AnnouncedOnRecord' BY <1>0, <1>1, <1>8, BrokerAssumption DEF Receive, AnnouncedOnRecord
  <2>2. SenderOnRecord' BY <1>0, <1>1, <1>8, BrokerAssumption DEF Receive, SenderOnRecord
  <2>3. BufferOnRecord' BY <1>0, <1>1, <1>8, BrokerAssumption DEF Receive, BufferOnRecord
  <2>4. AnswerOnRecord' BY <1>0, <1>1, <1>8, BrokerAssumption DEF Receive, AnswerOnRecord, BufferOnRecord
  <2> QED BY <1>2, <2>1, <2>2, <2>3, <2>4
<1>9. CASE TimerFires(c)
  <2>1. AnnouncedOnRecord' BY <1>0, <1>1, <1>9 DEF TimerFires, AnnouncedOnRecord
  <2>2. SenderOnRecord' BY <1>0, <1>1, <1>9 DEF TimerFires, SenderOnRecord
  <2>3. BufferOnRecord' BY <1>0, <1>1, <1>9 DEF TimerFires, BufferOnRecord
  <2>4. AnswerOnRecord' BY <1>0, <1>1, <1>9 DEF TimerFires, AnswerOnRecord
  <2> QED BY <1>2, <2>1, <2>2, <2>3, <2>4
<1>10. CASE ContextDone(c)
  <2>1. AnnouncedOnRecord' BY <1>0, <1>1, <1>10 DEF ContextDone, AnnouncedOnRecord
  <2>2. SenderOnRecord' BY <1>0, <1>1, <1>10 DEF ContextDone, SenderOnRecord
  <2>3. BufferOnRecord' BY <1>0, <1>1, <1>10 DEF ContextDone, BufferOnRecord
  <2>4. AnswerOnRecord' BY <1>0, <1>1, <1>10 DEF ContextDone, AnswerOnRecord
  <2> QED BY <1>2, <2>1, <2>2, <2>3, <2>4
<1>11. CASE WriteTimeout(c)
  <2>1. AnnouncedOnRecord' BY <1>0, <1>1, <1>11, <1>a, <1>b DEF WriteTimeout, AnnouncedOnRecord
  <2>2. SenderOnRecord' BY <1>0, <1>1, <1>11, <1>a, <1>b DEF WriteTimeout, SenderOnRecord
  <2>3. BufferOnRecord' BY <1>0, <1>1, <1>11, <1>a, <1>b DEF WriteTimeout, BufferOnRecord
  <2>4. AnswerOnRecord' BY <1>0, <1>1, <1>11, <1>a, <1>b DEF WriteTimeout, AnswerOnRecord
  <2> QED BY <1>2, <2>1, <2>2, <2>3, <2>4
<1>12. CASE Leave(c)
  <2>1. AnnouncedOnRecord' BY <1>0, <1>1, <1>12 DEF Leave, AnnouncedOnRecord
  <2>2. SenderOnRecord' BY <1>0, <1>1, <1>12 DEF Leave, SenderOnRecord
  <2>3. BufferOnRecord' BY <1>0, <1>1, <1>12 DEF Leave, BufferOnRecord
  <2>4. AnswerOnRecord' BY <1>0, <1>1, <1>12 DEF Leave, AnswerOnRecord
  <2> QED BY <1>2, <2>1, <2>2, <2>3, <2>4
<1>13. CASE ToolRuns(c)
  <2>1. AnnouncedOnRecord' BY <1>0, <1>1, <1>13 DEF ToolRuns, AnnouncedOnRecord
  <2>2. SenderOnRecord' BY <1>0, <1>1, <1>13 DEF ToolRuns, SenderOnRecord
  <2>3. BufferOnRecord' BY <1>0, <1>1, <1>13 DEF ToolRuns, BufferOnRecord
  <2>4. AnswerOnRecord' BY <1>0, <1>1, <1>13 DEF ToolRuns, AnswerOnRecord
  <2> QED BY <1>2, <2>1, <2>2, <2>3, <2>4
<1>14. CASE ToolDenied(c)
  <2>1. AnnouncedOnRecord' BY <1>0, <1>1, <1>14 DEF ToolDenied, AnnouncedOnRecord
  <2>2. SenderOnRecord' BY <1>0, <1>1, <1>14 DEF ToolDenied, SenderOnRecord
  <2>3. BufferOnRecord' BY <1>0, <1>1, <1>14 DEF ToolDenied, BufferOnRecord
  <2>4. AnswerOnRecord' BY <1>0, <1>1, <1>14 DEF ToolDenied, AnswerOnRecord
  <2> QED BY <1>2, <2>1, <2>2, <2>3, <2>4
<1>15. CASE ToolFails(c)
  <2>1. AnnouncedOnRecord' BY <1>0, <1>1, <1>15 DEF ToolFails, AnnouncedOnRecord
  <2>2. SenderOnRecord' BY <1>0, <1>1, <1>15 DEF ToolFails, SenderOnRecord
  <2>3. BufferOnRecord' BY <1>0, <1>1, <1>15 DEF ToolFails, BufferOnRecord
  <2>4. AnswerOnRecord' BY <1>0, <1>1, <1>15 DEF ToolFails, AnswerOnRecord
  <2> QED BY <1>2, <2>1, <2>2, <2>3, <2>4
<1> QED BY <1>3, <1>4, <1>5, <1>6, <1>7, <1>8, <1>9, <1>10, <1>11, <1>12, <1>13, <1>14, <1>15 DEF CallStep

\* A handler stores its decision before it can send it.
LEMMA HandlerKeepsRecord ==
  ASSUME IInv, RecordInv, NEW h \in Handlers, HandlerStep(h) PROVE RecordInv'
<1> USE BrokerAssumption DEF RecordInv, IInv, TypeOK
<1>0. \A g \in Handlers : hcall[g] \in Calls /\ hpc[g] # "idle" /\ Sole(g)' => Sole(g)
  <2> SUFFICES ASSUME NEW g \in Handlers, hcall[g] \in Calls, hpc[g] # "idle", Sole(g)'
               PROVE  Sole(g)
    OBVIOUS
  <2>1. hcall'[g] = hcall[g]
    BY HandlerFrame
  <2>2. \A k \in Handlers : hcall'[k] = hcall[k] \/ hcall[k] = None
    BY HandlerFrame DEF IdleHasNoCall
  <2> QED BY <2>1, <2>2 DEF Sole
<1>1. \A g \in Handlers \ {h} :
        hpc'[g] = hpc[g] /\ hcall'[g] = hcall[g] /\ hdec'[g] = hdec[g]
  BY HandlerFrame
<1> USE DEF callVars, sharedVars, HandlerMoves, HandlerVoted
<1>2. ASSUME NEW c \in Calls, NEW d \in Decisions, Decide(h, c, d) PROVE RecordInv'
  <2>1. IdleHasNoCall' BY <1>2 DEF Decide, IdleHasNoCall
  <2>2. AnnouncedOnRecord' BY <1>2 DEF Decide, AnnouncedOnRecord
  <2>3. SenderOnRecord' BY <1>0, <1>1, <1>2 DEF Decide, SenderOnRecord
  <2>4. BufferOnRecord' BY <1>0, <1>1, <1>2 DEF Decide, BufferOnRecord
  <2>5. AnswerOnRecord' BY <1>0, <1>1, <1>2 DEF Decide, AnswerOnRecord
  <2> QED BY <2>1, <2>2, <2>3, <2>4, <2>5
<1>3. CASE Record(h)
  <2>1. IdleHasNoCall' BY <1>3 DEF Record, IdleHasNoCall
  <2>2. AnnouncedOnRecord' BY <1>3 DEF Record, AnnouncedOnRecord
  <2>6. /\ hcall' = hcall /\ hdec' = hdec /\ channel' = channel
        /\ hpc[h] = "recording"
        /\ \A c \in Calls : c # hcall[h] => stored'[c] = stored[c]
        /\ hpc'[h] \in {"ruling", "sending"} /\ hcall[h] \in announced /\ phase[hcall[h]] = "waiting"
             => stored'[hcall[h]] = hdec[h]
    BY <1>3 DEF Record, AnnouncedOnRecord
  <2>7. \A g \in Handlers \ {h} : Sole(g)' => Sole(g) /\ hcall[g] # hcall[h]
    BY <2>6 DEF Sole
  <2>3. SenderOnRecord'
    <3> SUFFICES ASSUME NEW g \in Handlers, hpc'[g] \in {"ruling", "sending"},
                        phase'[hcall'[g]] = "waiting", Sole(g)'
                 PROVE  stored'[hcall'[g]] = hdec'[g]
      BY DEF SenderOnRecord
    <3>1. phase' = phase /\ hcall[g] \in announced
      BY <1>1, <2>6, HandlerFrame DEF IdleHasNoCall
    <3>2. CASE g = h BY <2>6, <3>1, <3>2
    <3>3. CASE g # h BY <1>1, <2>6, <2>7, <3>1, <3>3 DEF SenderOnRecord
    <3> QED BY <3>2, <3>3
  <2>4. BufferOnRecord'
    <3>1. phase' = phase BY HandlerFrame
    <3> QED BY <1>1, <2>6, <2>7, <3>1 DEF BufferOnRecord
  <2>5. AnswerOnRecord'
    <3>1. phase' = phase /\ result' = result /\ announced' = announced BY HandlerFrame
    <3> QED BY <1>1, <2>6, <2>7, <3>1 DEF AnswerOnRecord
  <2> QED BY <2>1, <2>2, <2>3, <2>4, <2>5
<1>4. CASE RecordFails(h)
  <2>1. IdleHasNoCall' BY <1>4 DEF RecordFails, MaybeStored, IdleHasNoCall
  <2>2. AnnouncedOnRecord' BY <1>4 DEF RecordFails, MaybeStored, AnnouncedOnRecord
  <2>6. /\ hcall' = hcall /\ hdec' = hdec /\ channel' = channel
        /\ hpc[h] = "recording"
        /\ \A c \in Calls : c # hcall[h] => stored'[c] = stored[c]
        /\ hpc'[h] \in {"ruling", "sending"} /\ hcall[h] \in announced /\ phase[hcall[h]] = "waiting"
             => stored'[hcall[h]] = hdec[h]
    BY <1>4 DEF RecordFails, MaybeStored, AnnouncedOnRecord
  <2>7. \A g \in Handlers \ {h} : Sole(g)' => Sole(g) /\ hcall[g] # hcall[h]
    BY <2>6 DEF Sole
  <2>3. SenderOnRecord'
    <3> SUFFICES ASSUME NEW g \in Handlers, hpc'[g] \in {"ruling", "sending"},
                        phase'[hcall'[g]] = "waiting", Sole(g)'
                 PROVE  stored'[hcall'[g]] = hdec'[g]
      BY DEF SenderOnRecord
    <3>1. phase' = phase /\ hcall[g] \in announced
      BY <1>1, <2>6, HandlerFrame DEF IdleHasNoCall
    <3>2. CASE g = h BY <2>6, <3>1, <3>2
    <3>3. CASE g # h BY <1>1, <2>6, <2>7, <3>1, <3>3 DEF SenderOnRecord
    <3> QED BY <3>2, <3>3
  <2>4. BufferOnRecord'
    <3>1. phase' = phase BY HandlerFrame
    <3> QED BY <1>1, <2>6, <2>7, <3>1 DEF BufferOnRecord
  <2>5. AnswerOnRecord'
    <3>1. phase' = phase /\ result' = result /\ announced' = announced BY HandlerFrame
    <3> QED BY <1>1, <2>6, <2>7, <3>1 DEF AnswerOnRecord
  <2> QED BY <2>1, <2>2, <2>3, <2>4, <2>5
<1>5. CASE AddRule(h)
  <2>1. IdleHasNoCall' BY <1>5 DEF AddRule, IdleHasNoCall
  <2>2. AnnouncedOnRecord' BY <1>0, <1>1, <1>5 DEF AddRule, AnnouncedOnRecord
  <2>3. SenderOnRecord' BY <1>0, <1>1, <1>5 DEF AddRule, SenderOnRecord
  <2>4. BufferOnRecord' BY <1>0, <1>1, <1>5 DEF AddRule, BufferOnRecord
  <2>5. AnswerOnRecord' BY <1>0, <1>1, <1>5 DEF AddRule, AnswerOnRecord
  <2> QED BY <2>1, <2>2, <2>3, <2>4, <2>5
<1>6. CASE Send(h)
  <2>1. IdleHasNoCall' BY <1>6 DEF Send, IdleHasNoCall
  <2>2. AnnouncedOnRecord' BY <1>0, <1>1, <1>6 DEF Send, AnnouncedOnRecord
  <2>3. SenderOnRecord' BY <1>0, <1>1, <1>6 DEF Send, SenderOnRecord
  <2>4. BufferOnRecord' BY <1>0, <1>1, <1>6 DEF Send, BufferOnRecord, SenderOnRecord
  <2>5. AnswerOnRecord' BY <1>0, <1>1, <1>6 DEF Send, AnswerOnRecord
  <2> QED BY <2>1, <2>2, <2>3, <2>4, <2>5
<1>7. CASE NothingToSend(h)
  <2>1. IdleHasNoCall' BY <1>7 DEF NothingToSend, IdleHasNoCall
  <2>2. AnnouncedOnRecord' BY <1>0, <1>1, <1>7 DEF NothingToSend, AnnouncedOnRecord
  <2>3. SenderOnRecord' BY <1>0, <1>1, <1>7 DEF NothingToSend, SenderOnRecord
  <2>4. BufferOnRecord' BY <1>0, <1>1, <1>7 DEF NothingToSend, BufferOnRecord
  <2>5. AnswerOnRecord' BY <1>0, <1>1, <1>7 DEF NothingToSend, AnswerOnRecord
  <2> QED BY <2>1, <2>2, <2>3, <2>4, <2>5
<1> QED BY <1>2, <1>3, <1>4, <1>5, <1>6, <1>7 DEF HandlerStep

\* The stored status of a request that one handler decided is the decision its
\* call was answered with.
THEOREM SoleDecisionRecorded == Spec => []SoleDecisionOnRecord
<1>1. Init => RecordInv
  BY InitRecord
<1>2. IInv /\ RecordInv /\ [Next]_vars => RecordInv'
  <2> SUFFICES ASSUME IInv, RecordInv, [Next]_vars PROVE RecordInv'
    OBVIOUS
  <2>1. CASE \E c \in Calls : CallStep(c) BY <2>1, CallKeepsRecord
  <2>2. CASE \E h \in Handlers : HandlerStep(h) BY <2>2, HandlerKeepsRecord
  <2>3. CASE Restart
    BY <2>3 DEF Restart, IInv, TypeOK, InFlight, Phases, RecordInv, IdleHasNoCall, AnnouncedOnRecord,
       SenderOnRecord, BufferOnRecord, AnswerOnRecord
  <2>4. CASE UNCHANGED vars
    BY <2>4 DEF vars, callVars, sharedVars, handlerVars, RecordInv, IdleHasNoCall,
       AnnouncedOnRecord, SenderOnRecord, BufferOnRecord, AnswerOnRecord, Sole
  <2> QED BY <2>1, <2>2, <2>3, <2>4 DEF Next
<1>3. IInv /\ RecordInv => SoleDecisionOnRecord
  <2> SUFFICES ASSUME IInv, RecordInv, NEW c \in announced, NEW h \in Handlers,
                      phase[c] \in {"leaving", "returned"}, result[c] # "error",
                      hcall[h] = c, Sole(h)
               PROVE  stored[c] = result[c]
    BY DEF SoleDecisionOnRecord
  <2>1. PICK g \in Handlers : hcall[g] = c /\ (Sole(g) => stored[c] = result[c])
    BY DEF RecordInv, AnswerOnRecord
  <2>2. g = h
    BY <2>1 DEF Sole
  <2> QED BY <2>1, <2>2
<1> QED BY <1>1, <1>2, <1>3, Invariance, PTL DEF Spec
=============================================================================
