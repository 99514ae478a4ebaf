------------------------------- MODULE AgentRun -------------------------------
(***************************************************************************)
(* The tool loop of the agent: RunAgent and runLLMFlow of                  *)
(* service/internal/app/app.go, for prompts that reach the model.          *)
(*                                                                         *)
(* A run saves the prompt, marks the session "started", reads the history, *)
(* and then asks the model at most LoopLimit times, each time with a new   *)
(* listing of the tools there are.  An answer with tool calls is stored    *)
(* with the calls "running", each call is executed and its result stored,  *)
(* the answer is stored again with the final statuses, and the model is    *)
(* asked again; a run gives up after StallLimit answers in a row none of   *)
(* whose calls succeeded.                                                  *)
(*                                                                         *)
(* Several runs of ONE session execute at once (one per HTTP request).     *)
(* They share the session record, which updateSession reads and writes     *)
(* back without a lock over the two, and the message log.  Message texts,  *)
(* the retrieval prompt and the tools themselves are abstracted: a tool    *)
(* call has one of four outcomes, and history compaction is a choice here  *)
(* (the Compaction module is about it).                                    *)
(***************************************************************************)
EXTENDS Naturals, Sequences

CONSTANTS
  Runs,          \* runs of the session
  LoopLimit,     \* 6 in the code
  StallLimit,    \* 2 in the code
  MaxCalls,      \* bound on the tool calls of one answer
  MongoEnabled,  \* FALSE: degraded mode, messages and session in memory
  Compacts,      \* whether the history may be compacted
  None

ASSUME RunAssumption ==
  /\ LoopLimit \in Nat \ {0} /\ StallLimit \in Nat \ {0} /\ MaxCalls \in Nat \ {0}
  /\ MongoEnabled \in BOOLEAN /\ Compacts \in BOOLEAN
  /\ Runs # {}

VARIABLES
  pc,          \* where each run is
  want,        \* the status its updateSession is to write, None to keep it
  next,        \* where it goes after updateSession
  copy,        \* the session its updateSession has read
  loop,        \* answers of the model handled so far
  count, index, succeeded,  \* calls of the current answer, executed, successful
  stalled,     \* unproductiveToolLoops
  cancelled,   \* its context is done (the client went away)
  session,     \* LastRunID and LastRunStatus of the stored session
  unanswered,  \* stored tool calls without a stored result
  open,        \* stored tool calls whose stored status is "running"
  emitted,     \* last run.status event of each run
  announced,   \* tool calls and results that were broadcast
  yield,       \* history: successful calls of each handled answer
  storeFailed  \* history: a store operation of the run failed

control == <<pc, want, next, copy>>
counters == <<loop, count, index, succeeded, stalled>>
log == <<unanswered, open>>
history == <<yield, storeFailed>>
vars == <<control, counters, cancelled, session, log, emitted, announced, history>>

Outcomes == {"completed", "denied", "malformed", "failed"}
ToolStatus ==
  [denied |-> "tool_denied", malformed |-> "tool_malformed", failed |-> "tool_failed"]
Terminal == {"completed", "stopped_after_tool_failures"}
RunStatuses == Terminal \cup {"started", "compacted_then_continued", "model_failed",
  "awaiting_tool", "assistant_resumed", "tool_denied", "tool_malformed", "tool_failed"}
Pcs == {"idle", "updating", "writing", "listing", "compacting", "continuing", "offering",
        "chatting", "answering", "storing", "executing", "reporting", "restoring",
        "stopping", "exhausted", "returned", "failed"}
Finished == {"returned", "failed"}
CallIds == (1..LoopLimit) \X (1..MaxCalls)
Sessions == [run: Runs \cup {None}, status: RunStatuses \cup {None}]

ASSUME NoneAssumption == None \notin Runs \cup RunStatuses

Init ==
  /\ pc = [r \in Runs |-> "idle"]
  /\ want = [r \in Runs |-> None]
  /\ next = [r \in Runs |-> "idle"]
  /\ copy = [r \in Runs |-> [run |-> None, status |-> None]]
  /\ loop = [r \in Runs |-> 0]
  /\ count = [r \in Runs |-> 0]
  /\ index = [r \in Runs |-> 0]
  /\ succeeded = [r \in Runs |-> 0]
  /\ stalled = [r \in Runs |-> 0]
  /\ cancelled = [r \in Runs |-> FALSE]
  /\ session = [run |-> None, status |-> None]
  /\ unanswered = [r \in Runs |-> {}]
  /\ open = [r \in Runs |-> {}]
  /\ emitted = [r \in Runs |-> None]
  /\ announced = [r \in Runs |-> {}]
  /\ yield = [r \in Runs |-> <<>>]
  /\ storeFailed = [r \in Runs |-> FALSE]

-----------------------------------------------------------------------------
(* Helpers *)

Goto(r, from, to) ==
  /\ pc[r] = from
  /\ pc' = [pc EXCEPT ![r] = to]

Set(f, r, v) == [f EXCEPT ![r] = v]

\* Memory never fails.  Mongo may fail, and does once the context is done.
StoreOk(r) == MongoEnabled => ~cancelled[r]
StoreErr(r) == MongoEnabled /\ storeFailed' = Set(storeFailed, r, TRUE)

\* run.status event.
Emit(r, s) == emitted' = Set(emitted, r, s)

\* updateSession(status) and then go on at pc "to".
Update(r, from, status, to) ==
  /\ Goto(r, from, "updating")
  /\ want' = Set(want, r, status)
  /\ next' = Set(next, r, to)
  /\ UNCHANGED copy

\* The calls of the current answer.
CurrentCalls(r) == {<<loop[r] + 1, i>> : i \in 1..count[r]}
CurrentCall(r) == <<loop[r] + 1, index[r] + 1>>

\* Mutated form of NextStalled: a successful call does not reset the count.
NeverReset(current, total, successful) == IF total = 0 THEN 0 ELSE current + 1

\* nextUnproductiveToolLoops
NextStalled(current, total, successful) ==
  IF total = 0 \/ successful > 0 THEN 0 ELSE current + 1

\* Mutated form of AfterAnswer: one answer too many.
OneMoreAnswer(n) == IF n <= LoopLimit THEN "offering" ELSE "exhausted"

\* The loop condition, after n answers.
AfterAnswer(n) == IF n < LoopLimit THEN "offering" ELSE "exhausted"

-----------------------------------------------------------------------------
(* Entry *)

\* RunAgent saves the prompt; runLLMFlow starts with updateSession("started").
SavePrompt(r) ==
  /\ StoreOk(r)
  /\ Update(r, "idle", "started", "listing")
  /\ UNCHANGED <<counters, cancelled, session, log, emitted, announced, history>>

SavePromptFails(r) ==
  /\ Goto(r, "idle", "failed")
  /\ StoreErr(r)
  /\ UNCHANGED <<want, next, copy, counters, cancelled, session, log, emitted,
                 announced, yield>>

-----------------------------------------------------------------------------
(* updateSession: getSession, mutate the copy, save it; errors are ignored *)

ReadSession(r) ==
  /\ StoreOk(r)
  /\ Goto(r, "updating", "writing")
  /\ copy' = Set(copy, r, session)
  /\ UNCHANGED <<want, next, counters, cancelled, session, log, emitted, announced, history>>

\* Mutated form of WriteSession: the status is set on a copy that is not saved.
WriteUnchanged(r) ==
  /\ StoreOk(r)
  /\ Goto(r, "writing", next[r])
  /\ session' = IF want[r] = "started" THEN [run |-> r, status |-> "started"] ELSE copy[r]
  /\ UNCHANGED <<want, next, copy, counters, cancelled, log, emitted, announced, history>>

WriteSession(r) ==
  /\ StoreOk(r)
  /\ Goto(r, "writing", next[r])
  /\ session' = CASE want[r] = "started" -> [run |-> r, status |-> "started"]
                  [] want[r] = None -> copy[r]
                  [] OTHER -> [copy[r] EXCEPT !.status = want[r]]
  /\ UNCHANGED <<want, next, copy, counters, cancelled, log, emitted, announced, history>>

UpdateFails(r) ==
  /\ pc[r] \in {"updating", "writing"}
  /\ pc' = Set(pc, r, next[r])
  /\ StoreErr(r)
  /\ UNCHANGED <<want, next, copy, counters, cancelled, session, log, emitted,
                 announced, yield>>

-----------------------------------------------------------------------------
(* History *)

ListMessages(r) ==
  /\ StoreOk(r)
  /\ Goto(r, "listing", "compacting")
  /\ Emit(r, "started")
  /\ UNCHANGED <<want, next, copy, counters, cancelled, session, log, announced, history>>

\* The session keeps saying "started".
ListMessagesFails(r) ==
  /\ Goto(r, "listing", "failed")
  /\ Emit(r, "model_failed")
  /\ StoreErr(r)
  /\ UNCHANGED <<want, next, copy, counters, cancelled, session, log, announced, yield>>

\* A new summary is recorded by an updateSession of its own, which leaves the
\* status as it reads it.
Summarise(r) ==
  /\ Compacts
  /\ Update(r, "compacting", None, "continuing")
  /\ UNCHANGED <<counters, cancelled, session, log, emitted, announced, history>>

\* There is a continuation: a new summary, or the one already there.
Compact(r) ==
  /\ Compacts
  /\ \E from \in {"compacting", "continuing"} :
       Update(r, from, "compacted_then_continued", "offering")
  /\ Emit(r, "compacted_then_continued")
  /\ UNCHANGED <<counters, cancelled, session, log, announced, history>>

NoCompaction(r) ==
  /\ Goto(r, "compacting", "offering")
  /\ UNCHANGED <<want, next, copy, counters, cancelled, session, log, emitted,
                 announced, history>>

-----------------------------------------------------------------------------
(* The loop *)

\* availableTools asks every MCP server, with context.Background(): an error
\* offers no tools of theirs, and the end of the run's context stops nothing.
OfferTools(r) ==
  /\ Goto(r, "offering", "chatting")
  /\ UNCHANGED <<want, next, copy, counters, cancelled, session, log, emitted,
                 announced, history>>

\* Mutated forms of ChatFails: the call to the model does not notice that its
\* context is done; the failure is not recorded on the session.
ChatIgnoresContext(r) ==
  /\ ~cancelled[r]
  /\ Update(r, "chatting", "model_failed", "failed")
  /\ Emit(r, "model_failed")
  /\ UNCHANGED <<counters, cancelled, session, log, announced, history>>

ChatFailsUnrecorded(r) ==
  /\ Goto(r, "chatting", "failed")
  /\ Emit(r, "model_failed")
  /\ UNCHANGED <<want, next, copy, counters, cancelled, session, log, announced, history>>

ChatFails(r) ==
  /\ Update(r, "chatting", "model_failed", "failed")
  /\ Emit(r, "model_failed")
  /\ UNCHANGED <<counters, cancelled, session, log, announced, history>>

ChatAnswers(r) ==
  /\ ~cancelled[r]
  /\ Goto(r, "chatting", "answering")
  /\ UNCHANGED <<want, next, copy, counters, cancelled, session, log, emitted,
                 announced, history>>

ChatCalls(r, n) ==
  /\ ~cancelled[r]
  /\ Goto(r, "chatting", "storing")
  /\ Emit(r, "awaiting_tool")
  /\ count' = Set(count, r, n)
  /\ index' = Set(index, r, 0)
  /\ succeeded' = Set(succeeded, r, 0)
  /\ UNCHANGED <<want, next, copy, loop, stalled, cancelled, session, log,
                 announced, history>>

\* The answer is stored with its calls "running", and then broadcast.
StoreCalls(r) ==
  /\ StoreOk(r)
  /\ Goto(r, "storing", "executing")
  /\ unanswered' = Set(unanswered, r, unanswered[r] \cup CurrentCalls(r))
  /\ open' = Set(open, r, open[r] \cup CurrentCalls(r))
  /\ announced' = Set(announced, r, announced[r] \cup (CurrentCalls(r) \X {"call"}))
  /\ UNCHANGED <<want, next, copy, counters, cancelled, session, emitted, history>>

\* The run returns without a word: no event, and the session says "started".
StoreCallsFails(r) ==
  /\ Goto(r, "storing", "failed")
  /\ StoreErr(r)
  /\ \/ UNCHANGED log
     \/ /\ unanswered' = Set(unanswered, r, unanswered[r] \cup CurrentCalls(r))
        /\ open' = Set(open, r, open[r] \cup CurrentCalls(r))
  /\ UNCHANGED <<want, next, copy, counters, cancelled, session, emitted,
                 announced, yield>>

\* executeToolCall.  The status of the part is set in place; in degraded mode
\* the stored message shares the part, so it changes in the log as well.
ExecuteCall(r, outcome) ==
  /\ Goto(r, "executing", "reporting")
  /\ \/ outcome = "completed" /\ succeeded' = Set(succeeded, r, succeeded[r] + 1)
                              /\ UNCHANGED emitted
     \/ outcome # "completed" /\ Emit(r, ToolStatus[outcome])
                              /\ UNCHANGED succeeded
  /\ open' = IF MongoEnabled THEN open ELSE Set(open, r, open[r] \ {CurrentCall(r)})
  /\ UNCHANGED <<want, next, copy, loop, count, index, stalled, cancelled, session,
                 unanswered, announced, history>>

\* Mutated form of StoreResult: the result is broadcast but not stored.
ResultNotStored(r) ==
  /\ Goto(r, "reporting", IF index[r] + 1 = count[r] THEN "restoring" ELSE "executing")
  /\ announced' = Set(announced, r, announced[r] \cup {<<CurrentCall(r), "result">>})
  /\ index' = Set(index, r, index[r] + 1)
  /\ UNCHANGED <<want, next, copy, loop, count, succeeded, stalled, cancelled, session,
                 log, emitted, history>>

StoreResult(r) ==
  /\ StoreOk(r)
  /\ Goto(r, "reporting", IF index[r] + 1 = count[r] THEN "restoring" ELSE "executing")
  /\ unanswered' = Set(unanswered, r, unanswered[r] \ {CurrentCall(r)})
  /\ announced' = Set(announced, r, announced[r] \cup {<<CurrentCall(r), "result">>})
  /\ index' = Set(index, r, index[r] + 1)
  /\ UNCHANGED <<want, next, copy, loop, count, succeeded, stalled, cancelled, session,
                 open, emitted, history>>

\* Mutated form of StoreResultFails: the result is broadcast before it is stored.
AnnounceThenFail(r) ==
  /\ Goto(r, "reporting", "failed")
  /\ StoreErr(r)
  /\ Emit(r, "tool_failed")
  /\ announced' = Set(announced, r, announced[r] \cup {<<CurrentCall(r), "result">>})
  /\ UNCHANGED <<want, next, copy, counters, cancelled, session, log, yield>>

StoreResultFails(r) ==
  /\ Goto(r, "reporting", "failed")
  /\ StoreErr(r)
  /\ Emit(r, "tool_failed")
  /\ \/ UNCHANGED unanswered
     \/ unanswered' = Set(unanswered, r, unanswered[r] \ {CurrentCall(r)})
  /\ UNCHANGED <<want, next, copy, counters, cancelled, session, open, announced, yield>>

\* Mutated form of StoreStatuses: the answer is not stored again.
StatusesNotStored(r) ==
  /\ LET s == NextStalled(stalled[r], count[r], succeeded[r])
     IN /\ stalled' = Set(stalled, r, s)
        /\ s < StallLimit
        /\ Goto(r, "restoring", AfterAnswer(loop[r] + 1))
  /\ loop' = Set(loop, r, loop[r] + 1)
  /\ Emit(r, "assistant_resumed")
  /\ yield' = Set(yield, r, Append(yield[r], succeeded[r]))
  /\ UNCHANGED <<want, next, copy, count, index, succeeded, cancelled, session,
                 log, announced, storeFailed>>

\* The answer is stored again, with the statuses of its calls; then the run
\* stops, goes on, or has used up its loops.
StoreStatuses(r) ==
  /\ StoreOk(r)
  /\ LET s == NextStalled(stalled[r], count[r], succeeded[r])
     IN /\ stalled' = Set(stalled, r, s)
        /\ \/ /\ s >= StallLimit
              /\ Goto(r, "restoring", "stopping")
              /\ UNCHANGED <<loop, emitted>>
           \/ /\ s < StallLimit
              /\ loop' = Set(loop, r, loop[r] + 1)
              /\ Goto(r, "restoring", AfterAnswer(loop[r] + 1))
              /\ Emit(r, "assistant_resumed")
  /\ open' = Set(open, r, open[r] \ CurrentCalls(r))
  /\ yield' = Set(yield, r, Append(yield[r], succeeded[r]))
  /\ UNCHANGED <<want, next, copy, count, index, succeeded, cancelled, session,
                 unanswered, announced, storeFailed>>

StoreStatusesFails(r) ==
  /\ Goto(r, "restoring", "failed")
  /\ StoreErr(r)
  /\ Emit(r, "tool_failed")
  /\ \/ UNCHANGED open
     \/ open' = Set(open, r, open[r] \ CurrentCalls(r))
  /\ UNCHANGED <<want, next, copy, counters, cancelled, session, unanswered,
                 announced, yield>>

-----------------------------------------------------------------------------
(* The final text: the answer, or the notice that the run stopped *)

FinalStatus(from) ==
  IF from = "stopping" THEN "stopped_after_tool_failures" ELSE "completed"

\* Mutated form of SaveText: the end of the run is emitted, not recorded.
EndUnrecorded(r, from) ==
  /\ StoreOk(r)
  /\ Goto(r, from, "returned")
  /\ Emit(r, FinalStatus(from))
  /\ UNCHANGED <<want, next, copy, counters, cancelled, session, log, announced, history>>

SaveText(r, from) ==
  /\ StoreOk(r)
  /\ Update(r, from, FinalStatus(from), "returned")
  /\ Emit(r, FinalStatus(from))
  /\ UNCHANGED <<counters, cancelled, session, log, announced, history>>

SaveTextFails(r, from) ==
  /\ Goto(r, from, "failed")
  /\ StoreErr(r)
  /\ UNCHANGED <<want, next, copy, counters, cancelled, session, log, emitted,
                 announced, yield>>

-----------------------------------------------------------------------------
\* The client goes away: net/http cancels the request's context.
Cancel(r) ==
  /\ pc[r] \notin Finished
  /\ ~cancelled[r]
  /\ cancelled' = Set(cancelled, r, TRUE)
  /\ UNCHANGED <<control, counters, session, log, emitted, announced, history>>

Start(r) == SavePrompt(r) \/ SavePromptFails(r)

\* A tool may be a server's: of MCP or of a language.
CallsATool(r) == \E o \in Outcomes : ExecuteCall(r, o)

Works(r) ==
  \/ ReadSession(r) \/ WriteSession(r) \/ UpdateFails(r)
  \/ ListMessages(r) \/ ListMessagesFails(r)
  \/ Summarise(r) \/ Compact(r) \/ NoCompaction(r)
  \/ ChatFails(r) \/ ChatAnswers(r) \/ \E n \in 1..MaxCalls : ChatCalls(r, n)
  \/ StoreCalls(r) \/ StoreCallsFails(r)
  \/ StoreResult(r) \/ StoreResultFails(r) \/ StoreStatuses(r) \/ StoreStatusesFails(r)
  \/ \E from \in {"answering", "stopping", "exhausted"} :
       SaveText(r, from) \/ SaveTextFails(r, from)

Proceed(r) == Works(r) \/ OfferTools(r) \/ CallsATool(r)

Next == \E r \in Runs : Start(r) \/ Proceed(r) \/ Cancel(r)

Spec == Init /\ [][Next]_vars

\* A started run keeps going where its wait ends: the client of the model gives
\* up after five minutes, the databases answer or fail, and the clients read
\* what is broadcast (see EventHub for one that does not).  Two steps wait for
\* servers without a limit of time, see McpClient and LspClient: the listing of
\* the tools and the call of one.  They are not fair.
FairSpec == Spec /\ \A r \in Runs : WF_vars(Works(r))

-----------------------------------------------------------------------------
(* Properties *)

\* Every variable has its type.
TypeOK ==
  /\ pc \in [Runs -> Pcs]
  /\ next \in [Runs -> Pcs]
  /\ want \in [Runs -> RunStatuses \cup {None}]
  /\ copy \in [Runs -> Sessions]
  /\ session \in Sessions
  /\ loop \in [Runs -> 0..LoopLimit]
  /\ count \in [Runs -> 0..MaxCalls]
  /\ index \in [Runs -> 0..MaxCalls]
  /\ succeeded \in [Runs -> 0..MaxCalls]
  /\ stalled \in [Runs -> 0..StallLimit]
  /\ cancelled \in [Runs -> BOOLEAN]
  /\ unanswered \in [Runs -> SUBSET CallIds]
  /\ open \in [Runs -> SUBSET CallIds]
  /\ emitted \in [Runs -> RunStatuses \cup {None}]
  /\ announced \in [Runs -> SUBSET (CallIds \X {"call", "result"})]
  /\ storeFailed \in [Runs -> BOOLEAN]

\* A run asks the model to go on only when every call it made has a stored result
\* and a stored final status; a run that returns an answer leaves none behind.
Settled(r) == unanswered[r] = {} /\ open[r] = {}

CallsSettled ==
  \A r \in Runs :
    pc[r] \in {"offering", "chatting", "answering", "stopping", "exhausted", "returned"} => Settled(r)

\* The model is not asked again after StallLimit answers in a row without one
\* successful call, and a run is stopped for that reason only then.
Barren(ys) ==
  /\ Len(ys) >= StallLimit
  /\ \A i \in Len(ys) - StallLimit + 1 .. Len(ys) : ys[i] = 0

StopsWhenStalled ==
  \A r \in Runs :
    /\ pc[r] = "chatting" => ~Barren(yield[r])
    /\ emitted[r] = "stopped_after_tool_failures" => Barren(yield[r])

\* What was broadcast as a message is in the store, but for the calls still
\* unanswered: an announced result is a stored one.
AnnouncedResultsStored ==
  \A r \in Runs : \A x \in announced[r] :
    x[2] = "result" => x[1] \notin unanswered[r] /\ <<x[1], "call">> \in announced[r]

\* When every run has returned an answer and no store operation failed, the
\* session shows the end of a run, whatever the runs overwrote of each other:
\* no run leaves the session "started" for good.
SessionSettles ==
  (/\ \A r \in Runs : pc[r] = "returned"
   /\ \A r \in Runs : ~storeFailed[r])
  => session.status \in Terminal

\* A run that had the session to itself leaves its own id and outcome there.
Alone(r) == \A q \in Runs \ {r} : pc[q] = "idle"

OutcomeOnSession ==
  \A r \in Runs :
    pc[r] = "returned" /\ Alone(r) /\ ~storeFailed[r]
      => session = [run |-> r, status |-> emitted[r]]

\* A run in memory that ends without an answer was refused one by the model:
\* there is no other way to fail in degraded mode, and the session says so.
DegradedFailureShown ==
  \A r \in Runs :
    ~MongoEnabled /\ pc[r] = "failed" /\ Alone(r)
      => session = [run |-> r, status |-> "model_failed"] /\ Settled(r)

\* Every run that has started returns, unless one listing of the tools or one
\* call of a tool lasts for ever: the loop is bounded, and nothing else waits
\* for what may not come, whatever fails and whenever the client goes away.
RunReturns ==
  \A r \in Runs :
    pc[r] \notin {"idle"} \cup Finished ~>
      \/ pc[r] \in Finished
      \/ [](pc[r] = "offering") \/ [](pc[r] = "executing")

\* run.status carries one of the statuses AgentEvent declares in
\* shared/src/index.ts.
DeclaredRunStatuses == {"started", "awaiting_tool", "waiting_for_approval", "tool_denied",
  "tool_failed", "assistant_resumed", "completed", "model_failed",
  "compacted_then_continued", "subtask_completed"}

RunStatusDeclared == \A r \in Runs : emitted[r] \in DeclaredRunStatuses \cup {None}
=============================================================================
