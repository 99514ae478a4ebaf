---------------------------- MODULE AgentRunProofs ----------------------------
(***************************************************************************)
(* What holds of the tool loop for every number of runs of a session, of   *)
(* answers of the model and of calls in them, in both modes of the store.  *)
(***************************************************************************)
EXTENDS AgentRun, SequenceTheorems, TLAPS

Updating == {"updating", "writing"}

\* Where run r is, but for an updateSession under way.
Place(r) == IF pc[r] \in Updating THEN next[r] ELSE pc[r]

Before == {"idle", "listing", "compacting", "continuing", "offering", "chatting", "storing"}
Within == {"executing", "reporting"}
Outside == Before \cup {"answering", "stopping", "exhausted", "returned"}

\* The five uses of updateSession.
ResumesRight(r) ==
  pc[r] \in Updating =>
    \/ next[r] = "listing" /\ want[r] = "started"
    \/ next[r] = "continuing" /\ want[r] = None
    \/ next[r] = "offering" /\ want[r] = "compacted_then_continued"
    \/ next[r] = "failed" /\ want[r] = "model_failed"
    \/ next[r] = "returned" /\ want[r] \in Terminal /\ want[r] = emitted[r]

\* The log owes exactly the calls the run has still to report.
Remaining(r) == {<<loop[r] + 1, i>> : i \in index[r] + 1 .. count[r]}

CallsOK(r) ==
  /\ Place(r) \in Outside => Settled(r)
  /\ Place(r) = "failed" /\ ~storeFailed[r] => Settled(r)
  /\ Place(r) \in Before \cup Within \cup {"restoring"} => loop[r] < LoopLimit
  /\ Place(r) \in Within \cup {"storing", "restoring"} => count[r] > 0
  /\ Place(r) = "storing" => index[r] = 0
  /\ Place(r) \in Within => index[r] < count[r] /\ unanswered[r] = Remaining(r)
  /\ Place(r) = "restoring" => unanswered[r] = {}
  /\ Place(r) \in Within \cup {"restoring"} => open[r] \subseteq CurrentCalls(r)
  /\ Place(r) = "storing" => succeeded[r] = 0
  /\ Place(r) = "executing" => succeeded[r] <= index[r]
  /\ Place(r) = "reporting" => succeeded[r] <= index[r] + 1

\* Nothing of an answer is announced before it is stored.
AnnouncedOK(r) ==
  /\ \A x \in announced[r] : x[2] = "result" =>
       x[1] \notin unanswered[r] /\ <<x[1], "call">> \in announced[r]
  /\ Place(r) \in Before => \A x \in announced[r] : x[1][1] <= loop[r]
  /\ Place(r) \in Within \cup {"restoring"} =>
       /\ \A x \in announced[r] : x[1][1] <= loop[r] + 1
       /\ CurrentCalls(r) \X {"call"} \subseteq announced[r]

\* unproductiveToolLoops is the number of answers without a success at the end.
Counted(n, answers) ==
  /\ n <= Len(answers)
  /\ \A i \in 1..Len(answers) : i > Len(answers) - n => answers[i] = 0
  /\ n < Len(answers) => answers[Len(answers) - n] > 0

Trailing(r) == Counted(stalled[r], yield[r])

StallOK(r) ==
  /\ Trailing(r)
  /\ Place(r) \in Before \cup Within \cup {"restoring"} => stalled[r] < StallLimit
  /\ Place(r) = "stopping" => stalled[r] = StallLimit
  /\ emitted[r] = "stopped_after_tool_failures" => Place(r) = "returned" /\ Barren(yield[r])

Memory(r) == ~MongoEnabled => ~storeFailed[r]

\* A run that is alone finds the session as it left it.
Sole(r) ==
  ~storeFailed[r] =>
    /\ pc[r] = "writing" => copy[r] = session
    /\ ~(pc[r] = "idle" \/ (pc[r] \in Updating /\ next[r] = "listing")) => session.run = r
    /\ pc[r] = "returned" => session = [run |-> r, status |-> emitted[r]]
    /\ pc[r] = "failed" => session = [run |-> r, status |-> "model_failed"]

SoleOK(r) == Alone(r) => Sole(r)

AgentTypeOK == TypeOK /\ yield \in [Runs -> Seq(0..MaxCalls)]

RunOK(r) == ResumesRight(r) /\ CallsOK(r) /\ AnnouncedOK(r) /\ StallOK(r) /\ Memory(r)

\* The invariants of AgentRun speak of the ends of a run; what leads there are
\* the facts above about the log, the events and the session.
AgentInv ==
  /\ AgentTypeOK /\ SessionSettles
  /\ \A r \in Runs : RunOK(r) /\ SoleOK(r)

-----------------------------------------------------------------------------
(* The steps of a run *)

\* Those that leave the calls and the counters alone.
Moves(r) ==
  \/ SavePrompt(r) \/ SavePromptFails(r)
  \/ ReadSession(r) \/ WriteSession(r) \/ UpdateFails(r)
  \/ ListMessages(r) \/ ListMessagesFails(r)
  \/ Summarise(r) \/ Compact(r) \/ NoCompaction(r)
  \/ OfferTools(r) \/ ChatFails(r) \/ ChatAnswers(r)
  \/ \E from \in {"answering", "stopping", "exhausted"} :
       SaveText(r, from) \/ SaveTextFails(r, from)
  \/ Cancel(r)

\* Those about the calls of an answer.
Handles(r) ==
  \/ \E n \in 1..MaxCalls : ChatCalls(r, n)
  \/ StoreCalls(r) \/ StoreCallsFails(r)
  \/ \E o \in Outcomes : ExecuteCall(r, o)
  \/ StoreResult(r) \/ StoreResultFails(r) \/ StoreStatuses(r) \/ StoreStatusesFails(r)

\* There are no others.
LEMMA StepsOfARun ==
  ASSUME NEW r \in Runs
  PROVE  Start(r) \/ Proceed(r) \/ Cancel(r) <=> Moves(r) \/ Handles(r)
  BY DEF Start, Proceed, Works, CallsATool, Moves, Handles

\* The state of run q.
Mine(q) ==
  <<pc[q], want[q], next[q], copy[q], loop[q], count[q], index[q], succeeded[q], stalled[q],
    cancelled[q], unanswered[q], open[q], emitted[q], announced[q], yield[q], storeFailed[q]>>

\* A step of a run changes no other run's state: they share the session only.
LEMMA OthersKeep ==
  ASSUME AgentTypeOK, NEW r \in Runs, NEW q \in Runs, q # r, Moves(r) \/ Handles(r)
  PROVE  UNCHANGED Mine(q)
<1> USE DEF AgentTypeOK, TypeOK, Mine, Set, Goto, Update, Emit, StoreErr, control, counters, log, history
<1>1. CASE SavePrompt(r) \/ SavePromptFails(r)
  BY <1>1 DEF SavePrompt, SavePromptFails
<1>2. CASE ReadSession(r) \/ WriteSession(r)
  BY <1>2 DEF ReadSession, WriteSession
<1>3. CASE UpdateFails(r)
  BY <1>3 DEF UpdateFails
<1>4. CASE ListMessages(r) \/ ListMessagesFails(r)
  BY <1>4 DEF ListMessages, ListMessagesFails
<1>5. CASE Summarise(r) \/ Compact(r) \/ NoCompaction(r)
  BY <1>5 DEF Summarise, Compact, NoCompaction
<1>6. CASE OfferTools(r) \/ ChatFails(r) \/ ChatAnswers(r)
  BY <1>6 DEF OfferTools, ChatFails, ChatAnswers
<1>7. ASSUME NEW from \in {"answering", "stopping", "exhausted"}, SaveText(r, from) \/ SaveTextFails(r, from)
      PROVE  UNCHANGED Mine(q)
  BY <1>7 DEF SaveText, SaveTextFails
<1>8. CASE Cancel(r)
  BY <1>8 DEF Cancel
<1>9. ASSUME NEW n \in 1..MaxCalls, ChatCalls(r, n) PROVE UNCHANGED Mine(q)
  BY <1>9 DEF ChatCalls
<1>10. CASE StoreCalls(r)
  BY <1>10 DEF StoreCalls
<1>11. CASE StoreCallsFails(r)
  BY <1>11 DEF StoreCallsFails
<1>12. ASSUME NEW o \in Outcomes, ExecuteCall(r, o) PROVE UNCHANGED Mine(q)
  BY <1>12 DEF ExecuteCall
<1>13. CASE StoreResult(r)
  BY <1>13 DEF StoreResult
<1>14. CASE StoreResultFails(r)
  BY <1>14 DEF StoreResultFails
<1>15. CASE StoreStatuses(r)
  BY <1>15 DEF StoreStatuses
<1>16. CASE StoreStatusesFails(r)
  BY <1>16 DEF StoreStatusesFails
<1> QED BY <1>1, <1>2, <1>3, <1>4, <1>5, <1>6, <1>7, <1>8, <1>9, <1>10, <1>11, <1>12, <1>13,
           <1>14, <1>15, <1>16 DEF Moves, Handles

-----------------------------------------------------------------------------
(* Steps that leave the calls alone *)

\* They keep the types.
LEMMA MovesKeepType ==
  ASSUME AgentTypeOK, NEW r \in Runs, Moves(r)
  PROVE  AgentTypeOK'
<1> USE RunAssumption
        DEF AgentTypeOK, TypeOK, Set, Goto, Update, Emit, StoreErr, control, counters, log, history,
            Pcs, RunStatuses, Terminal
<1>1. CASE SavePrompt(r)
  BY <1>1 DEF SavePrompt
<1>2. CASE SavePromptFails(r)
  BY <1>2 DEF SavePromptFails
<1>3. CASE ReadSession(r)
  BY <1>3 DEF ReadSession
<1>4. CASE WriteSession(r)
  <2>1. session' \in Sessions
    BY <1>4 DEF WriteSession, Sessions
  <2> QED BY <1>4, <2>1 DEF WriteSession
<1>5. CASE UpdateFails(r)
  BY <1>5 DEF UpdateFails
<1>6. CASE ListMessages(r)
  BY <1>6 DEF ListMessages
<1>7. CASE ListMessagesFails(r)
  BY <1>7 DEF ListMessagesFails
<1>8. CASE Summarise(r)
  BY <1>8 DEF Summarise
<1>9. CASE Compact(r)
  <2>1. PICK from \in {"compacting", "continuing"} :
          Update(r, from, "compacted_then_continued", "offering")
    BY <1>9 DEF Compact
  <2> QED BY <1>9, <2>1 DEF Compact
<1>10. CASE NoCompaction(r)
  BY <1>10 DEF NoCompaction
<1>11. CASE ChatFails(r)
  BY <1>11 DEF ChatFails
<1>12. CASE ChatAnswers(r)
  BY <1>12 DEF ChatAnswers
<1>16. CASE OfferTools(r)
  BY <1>16 DEF OfferTools
<1>13. ASSUME NEW from \in {"answering", "stopping", "exhausted"}, SaveText(r, from)
       PROVE  AgentTypeOK'
  BY <1>13 DEF SaveText, FinalStatus
<1>14. ASSUME NEW from \in {"answering", "stopping", "exhausted"}, SaveTextFails(r, from)
       PROVE  AgentTypeOK'
  BY <1>14 DEF SaveTextFails
<1>15. CASE Cancel(r)
  BY <1>15 DEF Cancel
<1> QED BY <1>1, <1>2, <1>3, <1>4, <1>5, <1>6, <1>7, <1>8, <1>9, <1>10, <1>11, <1>12, <1>13,
           <1>14, <1>15, <1>16 DEF Moves

\* Where they lead, and what they say.
Leads(r) ==
  \/ Place(r)' = Place(r) /\ storeFailed'[r] = storeFailed[r]
  \/ Place(r) \in Before \ {"storing"} /\ Place(r)' \in Before \ {"idle", "storing"}
  \/ Place(r) = "chatting" /\ Place(r)' \in {"answering", "failed"}
  \/ Place(r) \in {"answering", "stopping", "exhausted"} /\ Place(r)' = "returned"
  \/ storeFailed'[r] /\ Place(r)' \in {Place(r), "failed"}

Says(r) ==
  emitted'[r] = "stopped_after_tool_failures" =>
    \/ Place(r) = "stopping" /\ Place(r)' = "returned"
    \/ emitted[r] = "stopped_after_tool_failures" /\ (Place(r) = "returned" => Place(r)' = "returned")

\* A move leads where Leads says and leaves the log and the counters alone.
LEMMA MovesLead ==
  ASSUME AgentTypeOK, NEW r \in Runs, ResumesRight(r), Moves(r)
  PROVE  /\ UNCHANGED <<loop, count, index, succeeded, stalled, unanswered, open, announced, yield>>
         /\ Leads(r) /\ Says(r) /\ ResumesRight(r)'
         /\ (storeFailed'[r] => storeFailed[r] \/ MongoEnabled) /\ (storeFailed[r] => storeFailed'[r])
<1> USE RunAssumption, NoneAssumption
        DEF AgentTypeOK, TypeOK, Set, Goto, Update, Emit, StoreErr, control, counters, log, history,
            Place, Updating, Leads, Says, Before, ResumesRight, RunStatuses, Terminal
<1>1. CASE SavePrompt(r) \/ SavePromptFails(r)
  BY <1>1 DEF SavePrompt, SavePromptFails
<1>2. CASE ReadSession(r)
  BY <1>2 DEF ReadSession
<1>3. CASE WriteSession(r)
  BY <1>3 DEF WriteSession
<1>4. CASE UpdateFails(r)
  BY <1>4 DEF UpdateFails
<1>5. CASE ListMessages(r) \/ ListMessagesFails(r)
  BY <1>5 DEF ListMessages, ListMessagesFails
<1>6. CASE Summarise(r)
  BY <1>6 DEF Summarise
<1>7. CASE Compact(r) \/ NoCompaction(r)
  BY <1>7 DEF Compact, NoCompaction
<1>8. CASE OfferTools(r) \/ ChatFails(r) \/ ChatAnswers(r)
  BY <1>8 DEF OfferTools, ChatFails, ChatAnswers
<1>9. ASSUME NEW from \in {"answering", "stopping", "exhausted"}, SaveText(r, from)
      PROVE  /\ UNCHANGED <<loop, count, index, succeeded, stalled, unanswered, open, announced, yield>>
             /\ Leads(r) /\ Says(r) /\ ResumesRight(r)'
             /\ storeFailed' = storeFailed
  BY <1>9 DEF SaveText, FinalStatus
<1>10. ASSUME NEW from \in {"answering", "stopping", "exhausted"}, SaveTextFails(r, from)
       PROVE  /\ UNCHANGED <<loop, count, index, succeeded, stalled, unanswered, open, announced, yield>>
              /\ Leads(r) /\ Says(r) /\ ResumesRight(r)'
              /\ storeFailed'[r] /\ MongoEnabled
  BY <1>10 DEF SaveTextFails
<1>11. CASE Cancel(r)
  BY <1>11 DEF Cancel
<1> QED BY <1>1, <1>2, <1>3, <1>4, <1>5, <1>6, <1>7, <1>8, <1>9, <1>10, <1>11 DEF Moves

\* So they keep what is known of the run.
LEMMA MovesKeepRun ==
  ASSUME AgentTypeOK, NEW r \in Runs, RunOK(r), Moves(r)
  PROVE  RunOK(r)'
<1>1. /\ UNCHANGED <<loop, count, index, succeeded, stalled, unanswered, open, announced, yield>>
      /\ Leads(r) /\ Says(r) /\ ResumesRight(r)'
      /\ (storeFailed'[r] => storeFailed[r] \/ MongoEnabled) /\ (storeFailed[r] => storeFailed'[r])
  BY MovesLead DEF RunOK
<1>2. CallsOK(r)'
  BY <1>1 DEF RunOK, CallsOK, Leads, Before, Within, Outside, Settled, Remaining, CurrentCalls
<1>3. AnnouncedOK(r)'
  BY <1>1 DEF RunOK, AnnouncedOK, Leads, Before, Within, CurrentCalls
<1>4. StallOK(r)'
  <2>1. Trailing(r)' /\ (Barren(yield[r])' <=> Barren(yield[r]))
    BY <1>1 DEF RunOK, StallOK, Trailing, Barren
  <2>2. Place(r) = "stopping" => Barren(yield[r])
    BY DEF RunOK, StallOK, Trailing, Counted, Barren, AgentTypeOK, TypeOK
  <2> QED BY <1>1, <2>1, <2>2 DEF RunOK, StallOK, Leads, Says, Before, Within
<1>5. Memory(r)'
  BY <1>1 DEF RunOK, Memory
<1> QED BY <1>1, <1>2, <1>3, <1>4, <1>5 DEF RunOK

-----------------------------------------------------------------------------
(* Steps about the calls of an answer *)

\* A set of calls of one run is replaced by another.
LEMMA Updated ==
  ASSUME NEW f \in [Runs -> SUBSET CallIds], NEW r \in Runs, NEW v \in SUBSET CallIds
  PROVE  [f EXCEPT ![r] = v] \in [Runs -> SUBSET CallIds]
  OBVIOUS

\* The calls of an answer are among the identifiers.
LEMMA CallsAreIds ==
  ASSUME AgentTypeOK, NEW r \in Runs, loop[r] < LoopLimit
  PROVE  /\ CurrentCalls(r) \subseteq CallIds
         /\ index[r] < count[r] => CurrentCall(r) \in CurrentCalls(r)
<1>0. loop[r] \in 0..LoopLimit /\ count[r] \in 0..MaxCalls /\ index[r] \in 0..MaxCalls
  BY DEF AgentTypeOK, TypeOK
<1>1. /\ loop[r] + 1 \in 1..LoopLimit
      /\ \A i \in 1..count[r] : i \in 1..MaxCalls
      /\ index[r] < count[r] => index[r] + 1 \in 1..count[r]
  BY <1>0, RunAssumption
<1>2. CurrentCalls(r) \subseteq CallIds
  BY <1>1 DEF CurrentCalls, CallIds
<1>3. index[r] < count[r] => CurrentCall(r) \in CurrentCalls(r)
  BY <1>1 DEF CurrentCalls, CurrentCall
<1> QED BY <1>2, <1>3

\* The model asks for n tools.
LEMMA ChatCallsKeeps ==
  ASSUME AgentTypeOK, NEW r \in Runs, RunOK(r), NEW n \in 1..MaxCalls, ChatCalls(r, n)
  PROVE  AgentTypeOK' /\ RunOK(r)'
<1> USE RunAssumption DEF AgentTypeOK, TypeOK, Set, Goto, Emit, log, history
<1>1. AgentTypeOK'
  <2>1. pc' \in [Runs -> Pcs]
    BY DEF ChatCalls, Pcs
  <2>2. emitted' \in [Runs -> RunStatuses \cup {None}]
    BY DEF ChatCalls, RunStatuses
  <2>3. count' \in [Runs -> 0..MaxCalls]
    BY DEF ChatCalls
  <2>4. index' \in [Runs -> 0..MaxCalls] /\ succeeded' \in [Runs -> 0..MaxCalls]
    BY DEF ChatCalls
  <2> QED BY <2>1, <2>2, <2>3, <2>4 DEF ChatCalls
<1>2. /\ Place(r) = "chatting" /\ Place(r)' = "storing" /\ pc'[r] = "storing"
      /\ count'[r] = n /\ index'[r] = 0 /\ succeeded'[r] = 0 /\ loop' = loop /\ stalled' = stalled
      /\ UNCHANGED <<unanswered, open, announced, yield, storeFailed>>
      /\ emitted'[r] = "awaiting_tool"
  BY DEF ChatCalls, Place, Updating
<1>3. ResumesRight(r)'
  BY <1>2 DEF ResumesRight, Updating
<1>4. CallsOK(r)'
  BY <1>2 DEF RunOK, CallsOK, Before, Within, Outside, Settled
<1>5. AnnouncedOK(r)'
  BY <1>2 DEF RunOK, AnnouncedOK, Before, Within
<1>6. StallOK(r)' /\ Memory(r)'
  BY <1>2 DEF RunOK, StallOK, Trailing, Memory, Before, Within
<1> QED BY <1>1, <1>3, <1>4, <1>5, <1>6 DEF RunOK

\* The answer is stored with its calls.
LEMMA StoreCallsKeeps ==
  ASSUME AgentTypeOK, NEW r \in Runs, RunOK(r), StoreCalls(r)
  PROVE  AgentTypeOK' /\ RunOK(r)'
<1> USE RunAssumption DEF AgentTypeOK, TypeOK, Set, Goto, log, counters, history
<1>1. /\ Place(r) = "storing" /\ Place(r)' = "executing" /\ pc'[r] = "executing"
      /\ pc' \in [Runs -> Pcs]
      /\ unanswered' = [unanswered EXCEPT ![r] = unanswered[r] \cup CurrentCalls(r)]
      /\ open' = [open EXCEPT ![r] = open[r] \cup CurrentCalls(r)]
      /\ announced' = [announced EXCEPT ![r] = announced[r] \cup (CurrentCalls(r) \X {"call"})]
      /\ UNCHANGED <<want, next, copy, loop, count, index, succeeded, stalled, cancelled,
                     session, emitted, yield, storeFailed>>
  BY DEF StoreCalls, Place, Updating, Pcs
<1>2. /\ Settled(r) /\ loop[r] < LoopLimit /\ count[r] > 0 /\ index[r] = 0 /\ succeeded[r] = 0
      /\ stalled[r] < StallLimit
      /\ \A x \in announced[r] : x[1][1] <= loop[r]
      /\ emitted[r] # "stopped_after_tool_failures"
  BY <1>1 DEF RunOK, CallsOK, AnnouncedOK, StallOK, Before, Outside
<1>3. CurrentCalls(r) \subseteq CallIds
  BY <1>2, CallsAreIds
<1>4. AgentTypeOK'
  BY <1>1, <1>3
<1>5. CallsOK(r)'
  <2>1. unanswered'[r] = CurrentCalls(r) /\ open'[r] = CurrentCalls(r)
    BY <1>1, <1>2 DEF Settled
  <2>2. CurrentCalls(r)' = CurrentCalls(r) /\ Remaining(r)' = CurrentCalls(r)
    BY <1>1, <1>2 DEF Remaining, CurrentCalls
  <2> QED BY <1>1, <1>2, <2>1, <2>2 DEF CallsOK, Before, Within, Outside
<1>6. AnnouncedOK(r)'
  <2>1. announced'[r] = announced[r] \cup (CurrentCalls(r) \X {"call"})
        /\ unanswered'[r] = CurrentCalls(r) /\ CurrentCalls(r)' = CurrentCalls(r)
    BY <1>1, <1>2 DEF Settled, CurrentCalls
  <2>2. \A x \in CurrentCalls(r) \X {"call"} : x[2] = "call" /\ x[1][1] = loop[r] + 1
    BY DEF CurrentCalls
  <2>3. ASSUME NEW x \in announced[r]
        PROVE  x[1] \notin CurrentCalls(r) /\ x[1][1] <= loop[r] + 1
    <3>1. x[1] \in CallIds
      OBVIOUS
    <3>2. x[1][1] <= loop[r] /\ x[1][1] \in Nat /\ loop[r] \in Nat
      BY <1>2, <3>1 DEF CallIds
    <3>3. \A c \in CurrentCalls(r) : c[1] = loop[r] + 1
      BY DEF CurrentCalls
    <3> HIDE DEF AgentTypeOK, TypeOK, Set, Goto, log, counters, history
    <3> QED BY <3>2, <3>3
  <2>4. \A x \in announced'[r] : x[2] = "result" =>
          x[1] \notin unanswered'[r] /\ <<x[1], "call">> \in announced'[r]
    BY <2>1, <2>2, <2>3 DEF RunOK, AnnouncedOK
  <2>5. \A x \in announced'[r] : x[1][1] <= loop[r] + 1
    BY <2>1, <2>2, <2>3
  <2> QED BY <1>1, <2>1, <2>4, <2>5 DEF AnnouncedOK, Before, Within
<1>7. ResumesRight(r)' /\ StallOK(r)' /\ Memory(r)'
  BY <1>1, <1>2 DEF RunOK, StallOK, Trailing, Memory, Before, Within, ResumesRight, Updating
<1> QED BY <1>4, <1>5, <1>6, <1>7 DEF RunOK

\* A store operation about the calls fails: the run ends, and nothing more is
\* announced.
LEMMA FailedKeeps ==
  ASSUME AgentTypeOK, NEW r \in Runs, RunOK(r), Place(r) \in Within \cup {"storing", "restoring"},
         pc'[r] = "failed", storeFailed'[r], MongoEnabled,
         emitted'[r] \in {emitted[r], "tool_failed"},
         announced'[r] = announced[r], yield'[r] = yield[r],
         stalled'[r] = stalled[r],
         unanswered'[r] \subseteq unanswered[r] \cup (IF Place(r) = "storing" THEN CurrentCalls(r) ELSE {})
  PROVE  RunOK(r)'
<1>1. Place(r)' = "failed"
  BY DEF Place, Updating
<1>2. ResumesRight(r)' /\ CallsOK(r)' /\ Memory(r)'
  BY <1>1 DEF ResumesRight, CallsOK, Memory, Updating, Before, Within, Outside
<1>3. \A x \in announced[r] : x[2] = "result" => x[1] \notin unanswered'[r]
  <2>1. CASE Place(r) = "storing"
    <3>1. \A x \in announced[r] : x[1][1] <= loop[r]
      BY <2>1 DEF RunOK, AnnouncedOK, Before
    <3>2. \A x \in announced[r] : x[1] \notin CurrentCalls(r)
      BY <3>1 DEF CurrentCalls, CallIds, AgentTypeOK, TypeOK
    <3> QED BY <2>1, <3>2 DEF RunOK, AnnouncedOK
  <2>2. CASE Place(r) # "storing"
    BY <2>2 DEF RunOK, AnnouncedOK
  <2> QED BY <2>1, <2>2
<1>4. AnnouncedOK(r)'
  BY <1>1, <1>3 DEF RunOK, AnnouncedOK, Before, Within
<1>5. StallOK(r)'
  <2>1. emitted[r] # "stopped_after_tool_failures"
    BY DEF RunOK, StallOK, Within
  <2> QED BY <1>1, <2>1 DEF RunOK, StallOK, Trailing, Before, Within
<1> QED BY <1>2, <1>4, <1>5 DEF RunOK

\* So the failures of the store keep what is known of the run.
LEMMA FailuresKeep ==
  ASSUME AgentTypeOK, NEW r \in Runs, RunOK(r),
         StoreCallsFails(r) \/ StoreResultFails(r) \/ StoreStatusesFails(r)
  PROVE  AgentTypeOK' /\ RunOK(r)'
<1> USE RunAssumption DEF AgentTypeOK, TypeOK, Set, Goto, Emit, StoreErr, log, counters
<1>1. CASE StoreCallsFails(r)
  <2>1. Place(r) = "storing" /\ loop[r] < LoopLimit
    BY <1>1 DEF StoreCallsFails, Place, Updating, RunOK, CallsOK, Before
  <2>2. CurrentCalls(r) \subseteq CallIds
    BY <2>1, CallsAreIds
  <2>3. AgentTypeOK'
    <3>0. unanswered[r] \cup CurrentCalls(r) \in SUBSET CallIds
          /\ open[r] \cup CurrentCalls(r) \in SUBSET CallIds
      BY <2>2
    <3>1. unanswered' \in [Runs -> SUBSET CallIds] /\ open' \in [Runs -> SUBSET CallIds]
      <4>1. \/ unanswered' = unanswered /\ open' = open
            \/ /\ unanswered' = [unanswered EXCEPT ![r] = unanswered[r] \cup CurrentCalls(r)]
               /\ open' = [open EXCEPT ![r] = open[r] \cup CurrentCalls(r)]
        BY <1>1 DEF StoreCallsFails
      <4>2. unanswered \in [Runs -> SUBSET CallIds] /\ open \in [Runs -> SUBSET CallIds]
        OBVIOUS
      <4> HIDE DEF AgentTypeOK, TypeOK, Set, log
      <4>3. [unanswered EXCEPT ![r] = unanswered[r] \cup CurrentCalls(r)] \in [Runs -> SUBSET CallIds]
        BY <3>0, <4>2, Updated, Zenon
      <4>4. [open EXCEPT ![r] = open[r] \cup CurrentCalls(r)] \in [Runs -> SUBSET CallIds]
        BY <3>0, <4>2, Updated, Zenon
      <4> QED BY <4>1, <4>2, <4>3, <4>4, Zenon
    <3>3. pc' \in [Runs -> Pcs]
      BY <1>1 DEF StoreCallsFails, Pcs
    <3>4. storeFailed' \in [Runs -> BOOLEAN]
      BY <1>1 DEF StoreCallsFails
    <3> QED BY <1>1, <3>1, <3>3, <3>4 DEF StoreCallsFails
  <2>4. /\ pc'[r] = "failed" /\ storeFailed'[r] /\ MongoEnabled
        /\ emitted'[r] = emitted[r] /\ announced'[r] = announced[r] /\ yield'[r] = yield[r]
        /\ stalled'[r] = stalled[r]
        /\ unanswered'[r] \subseteq unanswered[r] \cup CurrentCalls(r)
    BY <1>1 DEF StoreCallsFails
  <2> QED BY <2>1, <2>3, <2>4, FailedKeeps
<1>2. CASE StoreResultFails(r)
  <2>1. Place(r) = "reporting"
    BY <1>2 DEF StoreResultFails, Place, Updating
  <2>2. AgentTypeOK'
    <3>1. unanswered' \in [Runs -> SUBSET CallIds]
      <4>1. \/ unanswered' = unanswered
            \/ unanswered' = [unanswered EXCEPT ![r] = unanswered[r] \ {CurrentCall(r)}]
        BY <1>2 DEF StoreResultFails
      <4>2. unanswered \in [Runs -> SUBSET CallIds] /\ unanswered[r] \ {CurrentCall(r)} \in SUBSET CallIds
        OBVIOUS
      <4> HIDE DEF AgentTypeOK, TypeOK, Set, log
      <4>3. [unanswered EXCEPT ![r] = unanswered[r] \ {CurrentCall(r)}] \in [Runs -> SUBSET CallIds]
        BY <4>2, Updated, Zenon
      <4> QED BY <4>1, <4>2, <4>3, Zenon
    <3>2. pc' \in [Runs -> Pcs]
      BY <1>2 DEF StoreResultFails, Pcs
    <3>3. storeFailed' \in [Runs -> BOOLEAN]
      BY <1>2 DEF StoreResultFails
    <3>4. emitted' \in [Runs -> RunStatuses \cup {None}]
      BY <1>2 DEF StoreResultFails, RunStatuses
    <3> QED BY <1>2, <3>1, <3>2, <3>3, <3>4 DEF StoreResultFails
  <2>3. /\ pc'[r] = "failed" /\ storeFailed'[r] /\ MongoEnabled
        /\ emitted'[r] = "tool_failed" /\ announced'[r] = announced[r] /\ yield'[r] = yield[r]
        /\ stalled'[r] = stalled[r]
        /\ unanswered'[r] \subseteq unanswered[r]
    BY <1>2 DEF StoreResultFails
  <2> QED BY <2>1, <2>2, <2>3, FailedKeeps DEF Within
<1>3. CASE StoreStatusesFails(r)
  <2>1. Place(r) = "restoring"
    BY <1>3 DEF StoreStatusesFails, Place, Updating
  <2>2. AgentTypeOK'
    <3>1. open' \in [Runs -> SUBSET CallIds]
      <4>1. \/ open' = open
            \/ open' = [open EXCEPT ![r] = open[r] \ CurrentCalls(r)]
        BY <1>3 DEF StoreStatusesFails
      <4>2. open \in [Runs -> SUBSET CallIds] /\ open[r] \ CurrentCalls(r) \in SUBSET CallIds
        OBVIOUS
      <4> HIDE DEF AgentTypeOK, TypeOK, Set, log
      <4>3. [open EXCEPT ![r] = open[r] \ CurrentCalls(r)] \in [Runs -> SUBSET CallIds]
        BY <4>2, Updated, Zenon
      <4> QED BY <4>1, <4>2, <4>3, Zenon
    <3>2. pc' \in [Runs -> Pcs]
      BY <1>3 DEF StoreStatusesFails, Pcs
    <3>3. storeFailed' \in [Runs -> BOOLEAN]
      BY <1>3 DEF StoreStatusesFails
    <3>4. emitted' \in [Runs -> RunStatuses \cup {None}]
      BY <1>3 DEF StoreStatusesFails, RunStatuses
    <3> QED BY <1>3, <3>1, <3>2, <3>3, <3>4 DEF StoreStatusesFails
  <2>3. /\ pc'[r] = "failed" /\ storeFailed'[r] /\ MongoEnabled
        /\ emitted'[r] = "tool_failed" /\ announced'[r] = announced[r] /\ yield'[r] = yield[r]
        /\ stalled'[r] = stalled[r]
        /\ unanswered'[r] \subseteq unanswered[r]
    BY <1>3 DEF StoreStatusesFails
  <2> QED BY <2>1, <2>2, <2>3, FailedKeeps
<1> QED BY <1>1, <1>2, <1>3

\* A call is executed, or refused.
LEMMA ExecuteCallKeeps ==
  ASSUME AgentTypeOK, NEW r \in Runs, RunOK(r), NEW o \in Outcomes, ExecuteCall(r, o)
  PROVE  AgentTypeOK' /\ RunOK(r)'
<1> USE RunAssumption DEF AgentTypeOK, TypeOK, Set, Goto, Emit
<1>1. /\ Place(r) = "executing" /\ Place(r)' = "reporting" /\ pc'[r] = "reporting"
      /\ pc' \in [Runs -> Pcs]
      /\ UNCHANGED <<want, next, copy, loop, count, index, stalled, cancelled, session,
                     unanswered, announced, yield, storeFailed>>
  BY DEF ExecuteCall, Place, Updating, Pcs, history
<1>2. index[r] < count[r] /\ succeeded[r] <= index[r] /\ unanswered[r] = Remaining(r)
  BY <1>1 DEF RunOK, CallsOK, Within
<1>3. /\ succeeded' \in [Runs -> 0..MaxCalls]
      /\ succeeded'[r] \in {succeeded[r], succeeded[r] + 1}
  <2>1. succeeded[r] + 1 \in 0..MaxCalls
    BY <1>2
  <2>2. succeeded' = succeeded \/ succeeded' = [succeeded EXCEPT ![r] = succeeded[r] + 1]
    BY DEF ExecuteCall
  <2> QED BY <2>1, <2>2
<1>4. /\ emitted' \in [Runs -> RunStatuses \cup {None}]
      /\ emitted'[r] \in {emitted[r], "tool_denied", "tool_malformed", "tool_failed"}
  <2>1. CASE o = "completed"
    BY <2>1 DEF ExecuteCall
  <2>2. CASE o # "completed"
    <3>1. ToolStatus[o] \in {"tool_denied", "tool_malformed", "tool_failed"}
      BY <2>2 DEF ToolStatus, Outcomes
    <3>2. emitted' = [emitted EXCEPT ![r] = ToolStatus[o]]
      BY <2>2 DEF ExecuteCall
    <3> QED BY <3>1, <3>2 DEF RunStatuses
  <2> QED BY <2>1, <2>2
<1>5. open' \in [Runs -> SUBSET CallIds] /\ open'[r] \subseteq open[r]
  <2>1. open' = open \/ open' = [open EXCEPT ![r] = open[r] \ {CurrentCall(r)}]
    BY DEF ExecuteCall
  <2>2. open \in [Runs -> SUBSET CallIds] /\ open[r] \ {CurrentCall(r)} \in SUBSET CallIds
    OBVIOUS
  <2> HIDE DEF AgentTypeOK, TypeOK, Set
  <2>3. [open EXCEPT ![r] = open[r] \ {CurrentCall(r)}] \in [Runs -> SUBSET CallIds]
    BY <2>2, Updated, Zenon
  <2>4. [open EXCEPT ![r] = open[r] \ {CurrentCall(r)}][r] = open[r] \ {CurrentCall(r)}
    BY <2>2
  <2> QED BY <2>1, <2>2, <2>3, <2>4
<1>6. AgentTypeOK'
  BY <1>1, <1>3, <1>4, <1>5
<1>7. CallsOK(r)'
  <2>1. /\ loop[r] \in Nat /\ index[r] \in Nat /\ count[r] \in Nat /\ succeeded[r] \in Nat
        /\ succeeded'[r] \in Nat
    BY <1>3
  <2> HIDE RunAssumption
  <2> HIDE DEF AgentTypeOK, TypeOK, Set, Goto, Emit
  <2>2. CurrentCalls(r)' = CurrentCalls(r) /\ Remaining(r)' = Remaining(r)
    BY <1>1 DEF CurrentCalls, Remaining
  <2>3. loop[r] < LoopLimit /\ count[r] > 0 /\ open[r] \subseteq CurrentCalls(r)
    BY <1>1 DEF RunOK, CallsOK, Within
  <2>4. /\ loop'[r] < LoopLimit /\ count'[r] > 0 /\ index'[r] < count'[r]
        /\ unanswered'[r] = Remaining(r)'
    BY <1>1, <1>2, <2>2, <2>3
  <2>5. open'[r] \subseteq CurrentCalls(r)'
    BY <1>5, <2>2, <2>3
  <2>6. succeeded'[r] <= index'[r] + 1
    BY <1>1, <1>2, <1>3, <2>1
  <2>7. /\ Place(r)' \notin Outside
        /\ Place(r)' \notin {"failed", "storing", "restoring", "executing"}
    BY <1>1 DEF Outside, Before
  <2> QED BY <2>4, <2>5, <2>6, <2>7 DEF CallsOK
<1>8. AnnouncedOK(r)'
  <2> HIDE RunAssumption DEF AgentTypeOK, TypeOK, Set, Goto, Emit
  <2>1. Place(r) \in Within /\ Place(r)' \notin Before /\ CurrentCalls(r)' = CurrentCalls(r)
    BY <1>1 DEF Before, Within, CurrentCalls
  <2>2. AnnouncedOK(r)
    BY DEF RunOK
  <2> QED BY <1>1, <2>1, <2>2 DEF AnnouncedOK
<1>9. ResumesRight(r)' /\ StallOK(r)' /\ Memory(r)'
  BY <1>1, <1>4 DEF RunOK, StallOK, Trailing, Memory, Before, Within, ResumesRight, Updating
<1> QED BY <1>6, <1>7, <1>8, <1>9 DEF RunOK

\* The calls that remain once the first of them is done.
LEMMA OneFewer ==
  ASSUME NEW l \in Nat, NEW n \in Nat, NEW c \in Nat
  PROVE  {<<l, i>> : i \in n + 1 .. c} \ {<<l, n + 1>>} = {<<l, i>> : i \in n + 2 .. c}
  OBVIOUS

\* The result of a call is stored and announced.
LEMMA StoreResultKeeps ==
  ASSUME AgentTypeOK, NEW r \in Runs, RunOK(r), StoreResult(r)
  PROVE  AgentTypeOK' /\ RunOK(r)'
<1> USE RunAssumption DEF AgentTypeOK, TypeOK, Set, Goto
<1>1. /\ Place(r) = "reporting"
      /\ Place(r)' = (IF index[r] + 1 = count[r] THEN "restoring" ELSE "executing")
      /\ pc'[r] \in {"restoring", "executing"}
      /\ pc' \in [Runs -> Pcs]
      /\ unanswered' = [unanswered EXCEPT ![r] = unanswered[r] \ {CurrentCall(r)}]
      /\ announced' = [announced EXCEPT ![r] = announced[r] \cup {<<CurrentCall(r), "result">>}]
      /\ index' = [index EXCEPT ![r] = index[r] + 1]
      /\ UNCHANGED <<want, next, copy, loop, count, succeeded, stalled, cancelled, session,
                     open, emitted, yield, storeFailed>>
  BY DEF StoreResult, Place, Updating, Pcs, history
<1>2. /\ index[r] < count[r] /\ succeeded[r] <= index[r] + 1 /\ unanswered[r] = Remaining(r)
      /\ loop[r] < LoopLimit /\ open[r] \subseteq CurrentCalls(r)
      /\ CurrentCalls(r) \X {"call"} \subseteq announced[r]
      /\ \A x \in announced[r] : x[1][1] <= loop[r] + 1
  BY <1>1 DEF RunOK, CallsOK, AnnouncedOK, Within
<1>3. CurrentCall(r) \in CurrentCalls(r) /\ CurrentCall(r) \in CallIds
  BY <1>2, CallsAreIds
<1>4. index' \in [Runs -> 0..MaxCalls] /\ index'[r] = index[r] + 1
  BY <1>1, <1>2
<1>5. unanswered' \in [Runs -> SUBSET CallIds] /\ unanswered'[r] = unanswered[r] \ {CurrentCall(r)}
  <2>1. unanswered \in [Runs -> SUBSET CallIds] /\ unanswered[r] \ {CurrentCall(r)} \in SUBSET CallIds
    OBVIOUS
  <2> HIDE DEF AgentTypeOK, TypeOK, Set
  <2>2. [unanswered EXCEPT ![r] = unanswered[r] \ {CurrentCall(r)}] \in [Runs -> SUBSET CallIds]
    BY <2>1, Updated, Zenon
  <2>3. [unanswered EXCEPT ![r] = unanswered[r] \ {CurrentCall(r)}][r] = unanswered[r] \ {CurrentCall(r)}
    BY <2>1
  <2> QED BY <1>1, <2>2, <2>3
<1>6. /\ announced' \in [Runs -> SUBSET (CallIds \X {"call", "result"})]
      /\ announced'[r] = announced[r] \cup {<<CurrentCall(r), "result">>}
  <2>1. announced[r] \cup {<<CurrentCall(r), "result">>} \in SUBSET (CallIds \X {"call", "result"})
    BY <1>3
  <2> QED BY <1>1, <2>1
<1>7. AgentTypeOK'
  BY <1>1, <1>4, <1>5, <1>6
<1>8. unanswered'[r] = Remaining(r)' /\ (index[r] + 1 = count[r] => Remaining(r)' = {})
  <2>1. index[r] \in Nat /\ count[r] \in Nat /\ loop[r] + 1 \in Nat
    OBVIOUS
  <2>2. Remaining(r) \ {CurrentCall(r)} = {<<loop[r] + 1, i>> : i \in index[r] + 2 .. count[r]}
    <3> HIDE DEF AgentTypeOK, TypeOK
    <3>1. {<<loop[r] + 1, i>> : i \in index[r] + 1 .. count[r]} \ {<<loop[r] + 1, index[r] + 1>>}
            = {<<loop[r] + 1, i>> : i \in index[r] + 2 .. count[r]}
      BY <2>1, OneFewer
    <3> QED BY <3>1 DEF Remaining, CurrentCall
  <2>3. index'[r] + 1 = index[r] + 2 /\ loop'[r] = loop[r] /\ count'[r] = count[r]
    BY <1>1, <1>4, <2>1
  <2>4. Remaining(r)' = {<<loop[r] + 1, i>> : i \in index[r] + 2 .. count[r]}
    BY <2>3 DEF Remaining
  <2>5. index[r] + 1 = count[r] => index[r] + 2 .. count[r] = {}
    <3> HIDE DEF AgentTypeOK, TypeOK
    <3> QED BY <2>1
  <2> QED BY <1>2, <1>5, <2>2, <2>4, <2>5
<1>9. CallsOK(r)'
  <2>1. CurrentCalls(r)' = CurrentCalls(r)
    BY <1>1 DEF CurrentCalls
  <2>2. index[r] + 1 # count[r] => index'[r] < count'[r]
    BY <1>1, <1>2, <1>4
  <2>3. succeeded'[r] <= index'[r] /\ count'[r] > 0 /\ loop'[r] < LoopLimit
        /\ open'[r] \subseteq CurrentCalls(r)'
    BY <1>1, <1>2, <1>4, <2>1
  <2> QED BY <1>1, <1>8, <2>2, <2>3 DEF CallsOK, Before, Within, Outside
<1>10. AnnouncedOK(r)'
  <2>1. CurrentCalls(r)' = CurrentCalls(r) /\ loop'[r] = loop[r] /\ loop[r] \in Nat
    BY <1>1 DEF CurrentCalls
  <2>2. <<CurrentCall(r), "call">> \in announced[r]
    BY <1>2, <1>3
  <2>3. \A x \in announced'[r] : x[2] = "result" =>
          x[1] \notin unanswered'[r] /\ <<x[1], "call">> \in announced'[r]
    <3>1. \A x \in announced[r] : x[2] = "result" =>
            x[1] \notin unanswered[r] /\ <<x[1], "call">> \in announced[r]
      BY DEF RunOK, AnnouncedOK
    <3> HIDE DEF AgentTypeOK, TypeOK, Set
    <3> QED BY <1>5, <1>6, <2>2, <3>1
  <2>4. CurrentCall(r)[1] = loop[r] + 1
    BY DEF CurrentCall
  <2>5. \A x \in announced'[r] : x[1][1] <= loop[r] + 1
    <3> HIDE RunAssumption
    <3> HIDE DEF AgentTypeOK, TypeOK, Set, Goto
    <3>1. ASSUME NEW x \in announced'[r] PROVE x \in announced[r] \/ x[1] = CurrentCall(r)
      BY <1>6
    <3> QED BY <1>2, <2>1, <2>4, <3>1
  <2> QED BY <1>1, <1>2, <1>6, <2>1, <2>3, <2>5 DEF AnnouncedOK, Before, Within
<1>11. ResumesRight(r)' /\ StallOK(r)' /\ Memory(r)'
  BY <1>1 DEF RunOK, StallOK, Trailing, Memory, Before, Within, ResumesRight, Updating
<1> QED BY <1>7, <1>9, <1>10, <1>11 DEF RunOK

\* The count of answers without a success follows the answers.
LEMMA OneMoreCounted ==
  ASSUME NEW y \in Seq(0..MaxCalls), NEW n \in Nat, NEW v \in 0..MaxCalls, Counted(n, y)
  PROVE  /\ Append(y, v) \in Seq(0..MaxCalls)
         /\ Counted(IF v > 0 THEN 0 ELSE n + 1, Append(y, v))
<1> DEFINE m == IF v > 0 THEN 0 ELSE n + 1
<1>0. /\ n <= Len(y)
      /\ \A i \in 1..Len(y) : i > Len(y) - n => y[i] = 0
      /\ n < Len(y) => y[Len(y) - n] > 0
  BY DEF Counted
<1>1. /\ Append(y, v) \in Seq(0..MaxCalls) /\ Len(Append(y, v)) = Len(y) + 1
      /\ \A i \in 1..Len(y) : Append(y, v)[i] = y[i]
      /\ Append(y, v)[Len(y) + 1] = v
  BY AppendProperties
<1>2. Len(y) \in Nat
  BY LenProperties
<1>3. CASE v > 0
  BY <1>1, <1>2, <1>3 DEF Counted
<1>4. CASE v = 0
  <2>1. m = n + 1
    BY <1>4
  <2>2. ASSUME NEW i \in 1..Len(y) + 1, i > Len(y) + 1 - m PROVE Append(y, v)[i] = 0
    <3>1. CASE i = Len(y) + 1
      BY <1>1, <1>4, <3>1
    <3>2. CASE i # Len(y) + 1
      <4>1. i \in 1..Len(y) /\ i > Len(y) - n
        BY <1>2, <2>1, <2>2, <3>2
      <4> QED BY <1>0, <1>1, <4>1
    <3> QED BY <3>1, <3>2
  <2>3. ASSUME m < Len(y) + 1 PROVE Append(y, v)[Len(y) + 1 - m] > 0
    <3>1. n < Len(y) /\ Len(y) + 1 - m = Len(y) - n /\ Len(y) - n \in 1..Len(y)
      BY <1>2, <2>1, <2>3
    <3> QED BY <1>0, <1>1, <3>1
  <2> QED BY <1>0, <1>1, <1>2, <2>1, <2>2, <2>3 DEF Counted
<1> QED BY <1>3, <1>4

\* The answer is stored with the statuses of its calls.
LEMMA StoreStatusesKeeps ==
  ASSUME AgentTypeOK, NEW r \in Runs, RunOK(r), StoreStatuses(r)
  PROVE  AgentTypeOK' /\ RunOK(r)'
<1> DEFINE s == NextStalled(stalled[r], count[r], succeeded[r])
           stops == s >= StallLimit /\ pc' = [pc EXCEPT ![r] = "stopping"]
                    /\ UNCHANGED <<loop, emitted>>
           goes == s < StallLimit /\ loop' = [loop EXCEPT ![r] = loop[r] + 1]
                   /\ pc' = [pc EXCEPT ![r] = AfterAnswer(loop[r] + 1)]
                   /\ emitted' = [emitted EXCEPT ![r] = "assistant_resumed"]
<1>1. /\ pc[r] = "restoring" /\ (stops \/ goes)
      /\ stalled' = [stalled EXCEPT ![r] = s]
      /\ open' = [open EXCEPT ![r] = open[r] \ CurrentCalls(r)]
      /\ yield' = [yield EXCEPT ![r] = Append(yield[r], succeeded[r])]
      /\ UNCHANGED <<want, next, copy, count, index, succeeded, cancelled, session,
                     unanswered, announced, storeFailed>>
  BY DEF StoreStatuses, Set, Goto, Emit
<1>2. /\ Place(r) = "restoring" /\ count[r] > 0 /\ loop[r] < LoopLimit /\ stalled[r] < StallLimit
      /\ unanswered[r] = {} /\ open[r] \subseteq CurrentCalls(r) /\ Trailing(r)
      /\ \A x \in announced[r] : x[1][1] <= loop[r] + 1
      /\ emitted[r] # "stopped_after_tool_failures"
  BY <1>1 DEF Place, Updating, RunOK, CallsOK, AnnouncedOK, StallOK, Within
<1>3. /\ stalled[r] \in Nat /\ count[r] \in Nat /\ succeeded[r] \in 0..MaxCalls
      /\ loop[r] \in Nat /\ yield[r] \in Seq(0..MaxCalls)
      /\ pc \in [Runs -> Pcs] /\ stalled \in [Runs -> 0..StallLimit]
      /\ open \in [Runs -> SUBSET CallIds] /\ loop \in [Runs -> 0..LoopLimit]
      /\ yield \in [Runs -> Seq(0..MaxCalls)] /\ emitted \in [Runs -> RunStatuses \cup {None}]
  BY DEF AgentTypeOK, TypeOK
<1>4. s = (IF succeeded[r] > 0 THEN 0 ELSE stalled[r] + 1) /\ s \in 0..StallLimit
  BY <1>2, <1>3, RunAssumption DEF NextStalled
<1>5. /\ yield'[r] = Append(yield[r], succeeded[r]) /\ stalled'[r] = s
      /\ open'[r] = {} /\ unanswered'[r] = {} /\ announced'[r] = announced[r]
  BY <1>1, <1>2, <1>3
<1>6. /\ Append(yield[r], succeeded[r]) \in Seq(0..MaxCalls) /\ Trailing(r)'
  <2>1. Counted(stalled[r], yield[r])
    BY <1>2 DEF Trailing
  <2>2. /\ Append(yield[r], succeeded[r]) \in Seq(0..MaxCalls)
        /\ Counted(IF succeeded[r] > 0 THEN 0 ELSE stalled[r] + 1, Append(yield[r], succeeded[r]))
    BY <1>3, <2>1, OneMoreCounted
  <2> HIDE DEF s
  <2> QED BY <1>4, <1>5, <2>2 DEF Trailing
<1>7. AgentTypeOK'
  <2> HIDE DEF s
  <2>1. pc' \in [Runs -> Pcs]
    <3>1. AfterAnswer(loop[r] + 1) \in Pcs /\ "stopping" \in Pcs
      BY DEF AfterAnswer, Pcs
    <3>2. \/ pc' = [pc EXCEPT ![r] = "stopping"]
          \/ pc' = [pc EXCEPT ![r] = AfterAnswer(loop[r] + 1)]
      BY <1>1
    <3> QED BY <1>3, <3>1, <3>2
  <2>2. loop' \in [Runs -> 0..LoopLimit]
    <3>1. loop[r] + 1 \in 0..LoopLimit
      BY <1>2, <1>3, RunAssumption
    <3>2. loop' = loop \/ loop' = [loop EXCEPT ![r] = loop[r] + 1]
      BY <1>1
    <3> QED BY <1>3, <3>1, <3>2
  <2>3. emitted' \in [Runs -> RunStatuses \cup {None}]
    BY <1>1, <1>3 DEF RunStatuses
  <2>4. open' \in [Runs -> SUBSET CallIds]
    <3>1. open[r] \ CurrentCalls(r) \in SUBSET CallIds
      BY <1>3
    <3> QED BY <1>1, <1>3, <3>1, Updated, Zenon
  <2>5. stalled' \in [Runs -> 0..StallLimit]
    BY <1>1, <1>3, <1>4
  <2>6. yield' \in [Runs -> Seq(0..MaxCalls)]
    BY <1>1, <1>3, <1>6
  <2> QED BY <1>1, <2>1, <2>2, <2>3, <2>4, <2>5, <2>6 DEF AgentTypeOK, TypeOK
<1>8. CASE stops
  <2> HIDE DEF s
  <2>1. Place(r)' = "stopping" /\ pc'[r] = "stopping" /\ emitted' = emitted /\ stalled'[r] = StallLimit
    BY <1>3, <1>4, <1>5, <1>8, RunAssumption DEF Place, Updating
  <2>2. CallsOK(r)'
    BY <1>5, <2>1 DEF CallsOK, Settled, Before, Within, Outside
  <2>3. AnnouncedOK(r)'
    BY <1>5, <2>1 DEF RunOK, AnnouncedOK, Before, Within
  <2>4. StallOK(r)'
    BY <1>2, <1>6, <2>1 DEF StallOK, Before, Within
  <2>5. ResumesRight(r)' /\ Memory(r)'
    BY <1>1, <2>1 DEF RunOK, Memory, ResumesRight, Updating
  <2> QED BY <1>7, <2>2, <2>3, <2>4, <2>5 DEF RunOK
<1>9. CASE goes
  <2> HIDE DEF s
  <2>1. /\ pc'[r] = AfterAnswer(loop[r] + 1) /\ Place(r)' = pc'[r]
        /\ pc'[r] \in {"offering", "exhausted"}
        /\ emitted'[r] = "assistant_resumed" /\ loop'[r] = loop[r] + 1
        /\ stalled'[r] < StallLimit
        /\ pc'[r] = "offering" => loop'[r] < LoopLimit
    BY <1>3, <1>5, <1>9 DEF Place, Updating, AfterAnswer
  <2>2. CallsOK(r)'
    BY <1>5, <2>1 DEF CallsOK, Settled, Before, Within, Outside
  <2>3. AnnouncedOK(r)'
    BY <1>2, <1>5, <2>1 DEF RunOK, AnnouncedOK, Before, Within
  <2>4. StallOK(r)'
    BY <1>6, <2>1 DEF StallOK, Before, Within
  <2>5. ResumesRight(r)' /\ Memory(r)'
    BY <1>1, <2>1 DEF RunOK, Memory, ResumesRight, Updating
  <2> QED BY <1>7, <2>2, <2>3, <2>4, <2>5 DEF RunOK
<1> QED BY <1>1, <1>8, <1>9

\* So every step about the calls keeps what is known of the run.
LEMMA HandlesKeepRun ==
  ASSUME AgentTypeOK, NEW r \in Runs, RunOK(r), Handles(r)
  PROVE  AgentTypeOK' /\ RunOK(r)'
  BY ChatCallsKeeps, StoreCallsKeeps, ExecuteCallKeeps, StoreResultKeeps, StoreStatusesKeeps,
     FailuresKeep DEF Handles

\* What is known of a run does not depend on the others.
LEMMA OthersKnown ==
  ASSUME NEW q \in Runs, UNCHANGED Mine(q), RunOK(q)
  PROVE  RunOK(q)'
<1> USE DEF Mine
<1>1. Place(q)' = Place(q) /\ CurrentCalls(q)' = CurrentCalls(q) /\ Remaining(q)' = Remaining(q)
      /\ (Settled(q)' <=> Settled(q)) /\ (Barren(yield[q])' <=> Barren(yield[q]))
  BY DEF Place, CurrentCalls, Remaining, Settled, Barren
<1>2. ResumesRight(q)' /\ Memory(q)'
  BY DEF RunOK, ResumesRight, Memory
<1>3. CallsOK(q)' /\ AnnouncedOK(q)'
  BY <1>1 DEF RunOK, CallsOK, AnnouncedOK
<1>4. StallOK(q)'
  BY <1>1 DEF RunOK, StallOK, Trailing
<1> QED BY <1>2, <1>3, <1>4 DEF RunOK

-----------------------------------------------------------------------------
(* The session *)

\* What a step of a run does to the session, as far as its end is concerned.
Outcome(r) ==
  /\ storeFailed[r] => storeFailed'[r]
  /\ pc'[r] = "idle" => UNCHANGED <<pc, session>>
  /\ pc'[r] = "returned" /\ ~storeFailed'[r] => session'.status \in Terminal
  /\ Sole(r) => Sole(r)'

\* A run that is alone leaves the session as the invariant says, and one that
\* returns has written the end of a run there.
LEMMA StepsSettle ==
  ASSUME AgentTypeOK, NEW r \in Runs, ResumesRight(r), Moves(r) \/ Handles(r)
  PROVE  Outcome(r)
<1> USE RunAssumption, NoneAssumption
        DEF AgentTypeOK, TypeOK, Set, Goto, Update, Emit, StoreErr, control, counters, log, history,
            Updating, Outcome, Sole
<1>1. CASE SavePrompt(r) \/ SavePromptFails(r)
  BY <1>1 DEF SavePrompt, SavePromptFails
<1>2. CASE ReadSession(r)
  BY <1>2 DEF ReadSession
<1>3. CASE WriteSession(r)
  <2>1. /\ pc[r] = "writing" /\ pc' = [pc EXCEPT ![r] = next[r]]
        /\ session' = CASE want[r] = "started" -> [run |-> r, status |-> "started"]
                         [] want[r] = None -> copy[r]
                         [] OTHER -> [copy[r] EXCEPT !.status = want[r]]
        /\ UNCHANGED <<want, next, copy, emitted, storeFailed>>
    BY <1>3 DEF WriteSession
  <2>2. pc'[r] = next[r] /\ copy[r] \in Sessions /\ session \in Sessions
    BY <2>1
  <2>3. CASE next[r] = "listing" /\ want[r] = "started"
    BY <2>1, <2>2, <2>3 DEF RunStatuses
  <2>4. CASE next[r] = "continuing" /\ want[r] = None
    BY <2>1, <2>2, <2>4 DEF RunStatuses
  <2>5. CASE next[r] = "offering" /\ want[r] = "compacted_then_continued"
    BY <2>1, <2>2, <2>5 DEF RunStatuses, Sessions
  <2>6. CASE next[r] = "failed" /\ want[r] = "model_failed"
    BY <2>1, <2>2, <2>6 DEF RunStatuses, Sessions
  <2>7. CASE next[r] = "returned" /\ want[r] \in Terminal /\ want[r] = emitted[r]
    <3>1. want[r] # None /\ want[r] # "started"
      BY <2>7 DEF RunStatuses, Terminal
    <3> QED BY <2>1, <2>2, <2>7, <3>1 DEF Sessions
  <2> QED BY <2>1, <2>3, <2>4, <2>5, <2>6, <2>7 DEF ResumesRight
<1>4. CASE UpdateFails(r)
  BY <1>4 DEF UpdateFails, ResumesRight
<1>5. CASE ListMessages(r)
  BY <1>5 DEF ListMessages
<1>6. CASE ListMessagesFails(r)
  BY <1>6 DEF ListMessagesFails
<1>7. CASE Summarise(r) \/ NoCompaction(r)
  BY <1>7 DEF Summarise, NoCompaction
<1>8. CASE Compact(r)
  BY <1>8 DEF Compact
<1>9. CASE OfferTools(r) \/ ChatFails(r) \/ ChatAnswers(r)
  BY <1>9 DEF OfferTools, ChatFails, ChatAnswers
<1>10. ASSUME NEW from \in {"answering", "stopping", "exhausted"}, SaveText(r, from) PROVE Outcome(r)
  BY <1>10 DEF SaveText
<1>11. ASSUME NEW from \in {"answering", "stopping", "exhausted"}, SaveTextFails(r, from) PROVE Outcome(r)
  BY <1>11 DEF SaveTextFails
<1>12. CASE Cancel(r)
  BY <1>12 DEF Cancel, Finished
<1>13. ASSUME NEW n \in 1..MaxCalls, ChatCalls(r, n) PROVE Outcome(r)
  BY <1>13 DEF ChatCalls
<1>14. CASE StoreCalls(r)
  BY <1>14 DEF StoreCalls
<1>15. CASE StoreCallsFails(r)
  BY <1>15 DEF StoreCallsFails
<1>16. ASSUME NEW o \in Outcomes, ExecuteCall(r, o) PROVE Outcome(r)
  BY <1>16 DEF ExecuteCall
<1>17. CASE StoreResult(r)
  BY <1>17 DEF StoreResult
<1>18. CASE StoreResultFails(r)
  BY <1>18 DEF StoreResultFails
<1>19. CASE StoreStatuses(r)
  BY <1>19 DEF StoreStatuses, AfterAnswer
<1>20. CASE StoreStatusesFails(r)
  BY <1>20 DEF StoreStatusesFails
<1> QED BY <1>1, <1>2, <1>3, <1>4, <1>5, <1>6, <1>7, <1>8, <1>9, <1>10, <1>11, <1>12, <1>13,
           <1>14, <1>15, <1>16, <1>17, <1>18, <1>19, <1>20 DEF Moves, Handles

-----------------------------------------------------------------------------
(* The invariant *)

\* No run has begun.
LEMMA InitAgentInv == Init => AgentInv
<1> SUFFICES ASSUME Init PROVE AgentInv
  OBVIOUS
<1>1. AgentTypeOK
  BY RunAssumption DEF Init, AgentTypeOK, TypeOK, Pcs, Sessions
<1>2. SessionSettles
  BY RunAssumption DEF Init, SessionSettles
<1>3. ASSUME NEW r \in Runs PROVE RunOK(r) /\ SoleOK(r)
  <2>1. Place(r) = "idle" /\ Settled(r) /\ emitted[r] # "stopped_after_tool_failures"
    BY NoneAssumption DEF Init, Place, Updating, Settled, RunStatuses, Terminal
  <2>2. CallsOK(r) /\ AnnouncedOK(r)
    BY <2>1, RunAssumption DEF Init, CallsOK, AnnouncedOK, Before, Within
  <2>3. StallOK(r)
    BY <2>1, RunAssumption DEF Init, StallOK, Trailing, Counted, Before, Within
  <2>4. ResumesRight(r) /\ Memory(r) /\ SoleOK(r)
    BY DEF Init, ResumesRight, Memory, SoleOK, Sole, Updating
  <2> QED BY <2>2, <2>3, <2>4 DEF RunOK
<1> QED BY <1>1, <1>2, <1>3 DEF AgentInv

\* A step of one run keeps what is known of it, of the others and of the session.
LEMMA NextAgentInv == AgentInv /\ [Next]_vars => AgentInv'
<1> SUFFICES ASSUME AgentInv, [Next]_vars PROVE AgentInv'
  OBVIOUS
<1>1. CASE UNCHANGED vars
  <2>1. AgentTypeOK' /\ SessionSettles'
    BY <1>1 DEF AgentInv, AgentTypeOK, TypeOK, SessionSettles, vars, control, counters, log, history
  <2>2. ASSUME NEW r \in Runs PROVE RunOK(r)' /\ SoleOK(r)'
    <3>1. RunOK(r)'
      BY <1>1, OthersKnown DEF AgentInv, Mine, vars, control, counters, log, history
    <3>2. SoleOK(r)'
      BY <1>1 DEF AgentInv, SoleOK, Sole, Alone, vars, control, counters, log, history
    <3> QED BY <3>1, <3>2
  <2> QED BY <2>1, <2>2 DEF AgentInv
<1>2. ASSUME NEW r \in Runs, Start(r) \/ Proceed(r) \/ Cancel(r) PROVE AgentInv'
  <2>1. Moves(r) \/ Handles(r)
    BY <1>2, StepsOfARun
  <2>2. AgentTypeOK /\ RunOK(r) /\ ResumesRight(r)
    BY DEF AgentInv, RunOK
  <2>3. AgentTypeOK' /\ RunOK(r)'
    BY <2>1, <2>2, MovesKeepType, MovesKeepRun, HandlesKeepRun
  <2>4. \A q \in Runs \ {r} : UNCHANGED Mine(q)
    BY <2>1, <2>2, OthersKeep
  <2>5. Outcome(r)
    BY <2>1, <2>2, StepsSettle
  <2>6. \A q \in Runs \ {r} : RunOK(q)'
    BY <2>4, OthersKnown DEF AgentInv
  <2>7. \A q \in Runs \ {r} : pc'[q] = pc[q] /\ copy'[q] = copy[q] /\ next'[q] = next[q]
                             /\ emitted'[q] = emitted[q] /\ storeFailed'[q] = storeFailed[q]
    BY <2>4 DEF Mine
  <2>8. SoleOK(r)'
    BY <2>5, <2>7 DEF AgentInv, SoleOK, Alone, Outcome
  <2>9. ASSUME NEW q \in Runs \ {r} PROVE SoleOK(q)'
    <3> SUFFICES ASSUME Alone(q)' PROVE Sole(q)'
      BY DEF SoleOK
    <3>1. pc' = pc /\ session' = session
      BY <2>5 DEF Alone, Outcome
    <3>2. Alone(q) /\ SoleOK(q)
      BY <3>1 DEF Alone, AgentInv
    <3> QED BY <2>7, <3>1, <3>2 DEF SoleOK, Sole
  <2>10. SessionSettles'
    BY <2>5 DEF SessionSettles, Outcome
  <2> QED BY <2>3, <2>6, <2>8, <2>9, <2>10 DEF AgentInv
<1> QED BY <1>1, <1>2 DEF Next

\* The invariant holds of every behaviour.
LEMMA AgentInvariant == Spec => []AgentInv
<1>1. Init => AgentInv
  BY InitAgentInv
<1>2. AgentInv /\ [Next]_vars => AgentInv'
  BY NextAgentInv
<1> QED BY <1>1, <1>2, PTL DEF Spec

-----------------------------------------------------------------------------
(* What the runs check, for every value of the constants *)

\* Every variable has its type: no run loops, counts or stalls past its limits.
THEOREM TypesCorrect == Spec => []TypeOK
<1>1. AgentInv => TypeOK
  BY DEF AgentInv, AgentTypeOK
<1> QED BY <1>1, AgentInvariant, PTL

\* The model is asked again, and an answer returned, only when the log has a
\* result and a final status for every call in it.
THEOREM CallsAlwaysSettled == Spec => []CallsSettled
<1>1. AgentInv => CallsSettled
  BY DEF AgentInv, RunOK, CallsOK, CallsSettled, Place, Updating, Outside, Before
<1> QED BY <1>1, AgentInvariant, PTL

\* A result that was broadcast is stored, and its call was broadcast before it.
THEOREM ResultsAreStored == Spec => []AnnouncedResultsStored
<1>1. AgentInv => AnnouncedResultsStored
  BY DEF AgentInv, RunOK, AnnouncedOK, AnnouncedResultsStored
<1> QED BY <1>1, AgentInvariant, PTL

\* StallLimit answers in a row without a successful call, and nothing less, stop a run.
THEOREM StopsOnlyWhenStalled == Spec => []StopsWhenStalled
<1>1. ASSUME AgentInv, NEW r \in Runs
      PROVE  /\ pc[r] = "chatting" => ~Barren(yield[r])
             /\ emitted[r] = "stopped_after_tool_failures" => Barren(yield[r])
  <2>1. StallOK(r) /\ stalled[r] \in Nat /\ yield[r] \in Seq(0..MaxCalls)
    BY <1>1 DEF AgentInv, RunOK, AgentTypeOK, TypeOK
  <2>2. ASSUME pc[r] = "chatting", Barren(yield[r]) PROVE FALSE
    <3>1. stalled[r] < StallLimit /\ Counted(stalled[r], yield[r])
      BY <2>1, <2>2 DEF StallOK, Trailing, Place, Updating, Before
    <3>2. Len(yield[r]) \in Nat /\ Len(yield[r]) >= StallLimit
      BY <2>1, <2>2, LenProperties DEF Barren
    <3>3. Len(yield[r]) - stalled[r] \in Len(yield[r]) - StallLimit + 1 .. Len(yield[r])
      BY <2>1, <3>1, <3>2, RunAssumption
    <3>4. yield[r][Len(yield[r]) - stalled[r]] = 0
      BY <2>2, <3>3 DEF Barren
    <3>5. yield[r][Len(yield[r]) - stalled[r]] > 0
      BY <2>1, <3>1, <3>2, RunAssumption DEF Counted
    <3> QED BY <3>4, <3>5
  <2> QED BY <2>1, <2>2 DEF StallOK
<1>2. AgentInv => StopsWhenStalled
  BY <1>1 DEF StopsWhenStalled
<1> QED BY <1>2, AgentInvariant, PTL

\* Whatever the runs overwrite of each other, the session ends with an end.
THEOREM SessionAlwaysSettles == Spec => []SessionSettles
<1>1. AgentInv => SessionSettles
  BY DEF AgentInv
<1> QED BY <1>1, AgentInvariant, PTL

\* A run that had the session to itself leaves its id and outcome there.
THEOREM OutcomeIsOnSession == Spec => []OutcomeOnSession
<1>1. AgentInv => OutcomeOnSession
  BY DEF AgentInv, SoleOK, Sole, OutcomeOnSession
<1> QED BY <1>1, AgentInvariant, PTL

\* In degraded mode only the model can fail a run, and the session says so.
THEOREM DegradedFailureIsShown == Spec => []DegradedFailureShown
<1>1. ASSUME AgentInv, NEW r \in Runs, ~MongoEnabled, pc[r] = "failed", Alone(r)
      PROVE  session = [run |-> r, status |-> "model_failed"] /\ Settled(r)
  <2>1. ~storeFailed[r]
    BY <1>1 DEF AgentInv, RunOK, Memory
  <2>2. Place(r) = "failed"
    BY <1>1 DEF Place, Updating
  <2> QED BY <1>1, <2>1, <2>2 DEF AgentInv, RunOK, CallsOK, SoleOK, Sole
<1>2. AgentInv => DegradedFailureShown
  BY <1>1 DEF DegradedFailureShown
<1> QED BY <1>2, AgentInvariant, PTL
=============================================================================
