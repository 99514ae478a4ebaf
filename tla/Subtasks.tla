------------------------------- MODULE Subtasks -------------------------------
(***************************************************************************)
(* Subtasks: RunSubtask of service/internal/app/app.go and its callers, the *)
(* tool run_subtask, the command /task and POST /api/subtasks.             *)
(*                                                                         *)
(* A subtask is a session of its own in which RunAgent runs to its end     *)
(* while the caller waits, so that one HTTP request is one stack of runs,  *)
(* and a run of a subtask may start subtasks.  The context of the request  *)
(* is the context of them all.  When the run of a subtask returns, the     *)
(* parent session gets a text message about it (only if it went well) and  *)
(* the clients an event, and only then does the caller go on.  Requests    *)
(* about one session run at once.                                          *)
(*                                                                         *)
(* A run is seen from outside (see AgentRun for its inside): it asks for    *)
(* tools, gets their results, and answers.  A run is named by its request  *)
(* and its session; session 1 is the one the clients talk in.              *)
(***************************************************************************)
EXTENDS Naturals, Sequences

CONSTANTS
  Requests,        \* HTTP requests, one stack of runs each
  SessionBound,    \* bound: sessions there can be
  MaxCalls,        \* bound: tool calls of one answer of the model
  MaxLoops         \* bound: answers with tool calls of one run (6 in the code)

ASSUME SubtasksAssumption ==
  SessionBound \in Nat \ {0} /\ MaxCalls \in Nat /\ MaxLoops \in Nat

VARIABLES
  sessions,  \* the stored sessions: what made each of them
  logs,      \* the messages of each session
  stack,     \* the runs of each request, the innermost last
  told,      \* the events about subtasks, in the order of their broadcast
  inMongo    \* FALSE: degraded mode, chosen at startup; saving never fails

subtaskVars == <<sessions, logs, stack, told, inMongo>>

NoRun == <<>>
Run(q, s) == <<q, s>>

Frame(s, pc, via) ==
  [session |-> s, pc |-> pc, via |-> via, child |-> 0, ok |-> TRUE, left |-> 0, loops |-> 0]

Entry(r, kind, child, ok) == [by |-> r, kind |-> kind, child |-> child, ok |-> ok]

SubtasksInit ==
  /\ sessions = <<[parent |-> 0, run |-> NoRun]>>
  /\ logs = <<<<>>>>
  /\ stack = [q \in Requests |-> <<>>]
  /\ told = <<>>
  /\ inMongo \in BOOLEAN

-----------------------------------------------------------------------------
(* Helpers *)

Begun(q) == stack[q] # <<>>
Top(q) == stack[q][Len(stack[q])]
RunAt(q, pc) == Begun(q) /\ Top(q).pc = pc
Me(q) == Run(q, Top(q).session)

TopBecomes(q, f) == stack' = [stack EXCEPT ![q][Len(stack[q])] = f]
Goes(q, pc) == TopBecomes(q, [Top(q) EXCEPT !.pc = pc])

\* SaveMessage may fail, but not in memory; an error leaves open whether the
\* message is stored.  A cancelled context shows as nothing else: the model and
\* the store fail, each as it may at any time.
Stores(s, e) == logs' = [logs EXCEPT ![s] = Append(@, e)]
StoreFails(s, e) == inMongo /\ (UNCHANGED logs \/ Stores(s, e))

-----------------------------------------------------------------------------
(* A request: handleRunAgent or handleRunSubtask *)

Chat(q) ==
  /\ ~Begun(q)
  /\ stack' = [stack EXCEPT ![q] = <<Frame(1, "prompting", "none")>>]
  /\ UNCHANGED <<sessions, logs, told, inMongo>>

\* The body may name no session: the subtask then has no parent.
PostSubtask(q) ==
  /\ ~Begun(q)
  /\ \E s \in {0, 1} : stack' = [stack EXCEPT ![q] = <<Frame(s, "creating", "http")>>]
  /\ UNCHANGED <<sessions, logs, told, inMongo>>

-----------------------------------------------------------------------------
(* RunAgent *)

\* The prompt is stored, and tells what to do: ask the model (a path that can be
\* read is put into a prompt for it), run /task, or only answer with a text
\* (other commands, a usage, a path that is not there).
SavePrompt(q) ==
  /\ RunAt(q, "prompting")
  /\ Stores(Top(q).session, Entry(Me(q), "prompt", 0, TRUE))
  /\ \/ Goes(q, "thinking")
     \/ TopBecomes(q, [Top(q) EXCEPT !.pc = "creating", !.via = "task"])
     \/ Goes(q, "texting")
  /\ UNCHANGED <<sessions, told, inMongo>>

SavePromptFails(q) ==
  /\ RunAt(q, "prompting")
  /\ StoreFails(Top(q).session, Entry(Me(q), "prompt", 0, TRUE))
  /\ Goes(q, "failed")
  /\ UNCHANGED <<sessions, told, inMongo>>

\* An error of the model, of a listing or reading, or of a command other than
\* /task: no text.
RunFails(q) ==
  /\ RunAt(q, "thinking") \/ (RunAt(q, "texting") /\ Top(q).via = "none")
  /\ Goes(q, "failed")
  /\ UNCHANGED <<sessions, logs, told, inMongo>>

\* The model asks for n tools: its message is stored.
AsksForTools(q) ==
  /\ RunAt(q, "thinking")
  /\ Top(q).loops < MaxLoops
  /\ \E n \in 1..MaxCalls :
       TopBecomes(q, [Top(q) EXCEPT !.pc = "creating", !.via = "tool", !.left = n,
                                 !.loops = @ + 1])
  /\ Stores(Top(q).session, Entry(Me(q), "call", 0, TRUE))
  /\ UNCHANGED <<sessions, told, inMongo>>

\* The text a run ends with: the model's answer (the loop's end is one too) or
\* the text of a command; then RunAgent returns it.
SaveText(q) ==
  /\ RunAt(q, "thinking") \/ RunAt(q, "texting")
  /\ Stores(Top(q).session, Entry(Me(q), "text", 0, TRUE))
  /\ Goes(q, "answered")
  /\ UNCHANGED <<sessions, told, inMongo>>

\* The message of the calls or the last text cannot be stored.
SaveTextFails(q) ==
  /\ RunAt(q, "thinking") \/ RunAt(q, "texting")
  /\ \E kind \in {"call", "text"} :
       /\ kind = "call" => RunAt(q, "thinking")
       /\ StoreFails(Top(q).session, Entry(Me(q), kind, 0, TRUE))
  /\ Goes(q, "failed")
  /\ UNCHANGED <<sessions, told, inMongo>>

\* A call of another tool.
OtherTool(q) ==
  /\ RunAt(q, "creating") /\ Top(q).via = "tool"
  /\ \E ok \in BOOLEAN :
       TopBecomes(q, [Top(q) EXCEPT !.pc = "resulting", !.child = 0, !.ok = ok])
  /\ UNCHANGED <<sessions, logs, told, inMongo>>

AfterResult(f) ==
  [f EXCEPT !.left = @ - 1, !.child = 0, !.ok = TRUE,
            !.pc = IF f.left > 1 THEN "creating" ELSE "thinking"]

\* The result of a call is stored, and the next call is executed.
SaveResult(q) ==
  /\ RunAt(q, "resulting")
  /\ Stores(Top(q).session, Entry(Me(q), "result", Top(q).child, Top(q).ok))
  /\ TopBecomes(q, AfterResult(Top(q)))
  /\ UNCHANGED <<sessions, told, inMongo>>

SaveResultFails(q) ==
  /\ RunAt(q, "resulting")
  /\ StoreFails(Top(q).session, Entry(Me(q), "result", Top(q).child, Top(q).ok))
  /\ Goes(q, "failed")
  /\ UNCHANGED <<sessions, told, inMongo>>

-----------------------------------------------------------------------------
(* RunSubtask *)

\* What a child session records: only a tool call knows the run it is made in.
Child(q) ==
  [parent |-> Top(q).session, run |-> IF Top(q).via = "tool" THEN Me(q) ELSE NoRun]

\* The child session is stored and RunAgent begins in it.
CreateChild(q) ==
  /\ RunAt(q, "creating")
  /\ Len(sessions) < SessionBound
  /\ sessions' = Append(sessions, Child(q))
  /\ logs' = Append(logs, <<>>)
  /\ stack' = [stack EXCEPT ![q] = Append(@, Frame(Len(sessions) + 1, "prompting", "none"))]
  /\ UNCHANGED <<told, inMongo>>

\* What the caller makes of the outcome: the tool's result, a text either way,
\* or the answer of the handler.
Resumed(f, c, ok) ==
  CASE f.via = "tool" -> [f EXCEPT !.pc = "resulting", !.child = c, !.ok = ok]
    [] f.via = "task" -> [f EXCEPT !.pc = "texting"]
    [] OTHER -> [f EXCEPT !.pc = IF ok THEN "answered" ELSE "failed"]

\* The session cannot be stored: an error, and nobody is told.
CreateFails(q) ==
  /\ RunAt(q, "creating") /\ inMongo
  /\ TopBecomes(q, Resumed(Top(q), 0, FALSE))
  /\ \/ UNCHANGED <<sessions, logs>>
     \/ /\ Len(sessions) < SessionBound
        /\ sessions' = Append(sessions, Child(q))
        /\ logs' = Append(logs, <<>>)
  /\ UNCHANGED <<told, inMongo>>

InSubtask(q) == Len(stack[q]) > 1
Caller(q) == stack[q][Len(stack[q]) - 1]
Parent(q) == sessions[Top(q).session].parent

\* Mutated form of Report: the text goes to the child's own session.
ReportToChild(q) ==
  /\ RunAt(q, "answered") /\ InSubtask(q)
  /\ Goes(q, "reporting")
  /\ Stores(Top(q).session, Entry(Run(q, Parent(q)), "report", Top(q).session, TRUE))
  /\ UNCHANGED <<sessions, told, inMongo>>

\* The run of the child has returned a message: a text about it is saved in the
\* parent session, if there is one, and an error is ignored.
Report(q) ==
  /\ RunAt(q, "answered") /\ InSubtask(q)
  /\ Goes(q, "reporting")
  /\ LET e == Entry(Run(q, Parent(q)), "report", Top(q).session, TRUE)
     IN IF Parent(q) = 0 THEN UNCHANGED logs
        ELSE Stores(Parent(q), e) \/ StoreFails(Parent(q), e)
  /\ UNCHANGED <<sessions, told, inMongo>>

Event(q, status) ==
  [child |-> Top(q).session, session |-> Parent(q),
   run |-> sessions[Top(q).session].run, status |-> status]

\* RunSubtask returns to its caller.
Returns(q, ok) ==
  stack' = [stack EXCEPT ![q] =
    Append(SubSeq(@, 1, Len(@) - 2), Resumed(Caller(q), Top(q).session, ok))]

ChildCompleted(q) ==
  /\ RunAt(q, "reporting")
  /\ told' = Append(told, Event(q, "subtask_completed"))
  /\ Returns(q, TRUE)
  /\ UNCHANGED <<sessions, logs, inMongo>>

\* Mutated form of ChildFailed: the error is returned before anybody is told.
ChildFailedUntold(q) ==
  /\ RunAt(q, "failed") /\ InSubtask(q)
  /\ Returns(q, FALSE)
  /\ UNCHANGED <<sessions, logs, told, inMongo>>

ChildFailed(q) ==
  /\ RunAt(q, "failed") /\ InSubtask(q)
  /\ told' = Append(told, Event(q, "tool_failed"))
  /\ Returns(q, FALSE)
  /\ UNCHANGED <<sessions, logs, inMongo>>

-----------------------------------------------------------------------------
SubtasksStep(q) ==
  \/ Chat(q) \/ PostSubtask(q)
  \/ SavePrompt(q) \/ SavePromptFails(q) \/ RunFails(q)
  \/ AsksForTools(q) \/ SaveText(q) \/ SaveTextFails(q)
  \/ OtherTool(q) \/ SaveResult(q) \/ SaveResultFails(q)
  \/ CreateChild(q) \/ CreateFails(q)
  \/ Report(q) \/ ChildCompleted(q) \/ ChildFailed(q)

SubtasksNext == \E q \in Requests : SubtasksStep(q)

SubtasksSpec == SubtasksInit /\ [][SubtasksNext]_subtaskVars

-----------------------------------------------------------------------------
(* Properties *)

\* Every variable has its type, and a run waits only for a run above it in its
\* stack whose session is a child of its own.
FrameOK(f) ==
  /\ f.session \in 0..Len(sessions)
  /\ f.pc \in {"prompting", "thinking", "texting", "creating", "resulting",
              "answered", "reporting", "failed"}
  /\ f.via \in {"none", "tool", "task", "http"}
  /\ f.child \in 0..Len(sessions) /\ f.ok \in BOOLEAN
  /\ f.left \in 0..MaxCalls /\ f.loops \in 0..MaxLoops

SubtasksTypeOK ==
  /\ Len(logs) = Len(sessions) /\ Len(sessions) <= SessionBound
  /\ \A c \in 2..Len(sessions) : sessions[c].parent \in 0..c - 1
  /\ \A q \in Requests : \A i \in DOMAIN stack[q] :
       /\ FrameOK(stack[q][i])
       /\ i > 1 => /\ stack[q][i - 1].pc = "creating"
                   /\ sessions[stack[q][i].session].parent = stack[q][i - 1].session
  /\ inMongo \in BOOLEAN

Children == 2..Len(sessions)
Running(c) ==
  \E q \in Requests : \E i \in DOMAIN stack[q] : stack[q][i].session = c
EventsOf(c) == {i \in DOMAIN told : told[i].child = c}

\* The clients hear of every subtask that is over, once, and of none that is not,
\* however deep it was and however it ended; only a session whose storing
\* reported an error may be left, empty and unheard of.
ToldOnce ==
  \A c \in Children :
    IF Running(c) THEN EventsOf(c) = {}
    ELSE \/ \E i \in DOMAIN told : EventsOf(c) = {i}
         \/ inMongo /\ EventsOf(c) = {} /\ logs[c] = <<>>

\* What they hear is true: a completed subtask's log ends with its text, and
\* without a store that fails a failed one's does not.
EndsWithText(c) == logs[c] # <<>> /\ logs[c][Len(logs[c])].kind = "text"

ToldTruly ==
  \A i \in DOMAIN told :
    /\ told[i].status = "subtask_completed" => EndsWithText(told[i].child)
    /\ told[i].status = "tool_failed" /\ ~inMongo
         => ~EndsWithText(told[i].child)

\* What the run of a request in a session has added to its log, and which of it
\* comes directly before what.
Own(q, s) == {n \in DOMAIN logs[s] : logs[s][n].by = Run(q, s)}
Neighbours(q, s, m, n) ==
  m \in Own(q, s) /\ n \in Own(q, s) /\ m < n /\ \A k \in Own(q, s) : k <= m \/ n <= k

\* The clients were told that c is over, and whether it went well.
ToldOf(c, ok) ==
  \E i \in DOMAIN told : EventsOf(c) = {i} /\ (ok <=> told[i].status = "subtask_completed")

\* In the parent's log, the text about a subtask that a run's tool call made
\* stands after the message of the call and before the result of the call,
\* whatever other requests add to that log; and a result that reports success is
\* that of a subtask the clients were told is completed.
ReportPlaced(q, s, n) ==
  /\ \E m \in Own(q, s) : Neighbours(q, s, m, n) /\ logs[s][m].kind \in {"call", "result"}
  /\ \A m \in Own(q, s) :
       Neighbours(q, s, n, m) => logs[s][m].kind = "result" /\ logs[s][m].child = logs[s][n].child

ResultTold(q, s, n) ==
  /\ ToldOf(logs[s][n].child, logs[s][n].ok)
  /\ logs[s][n].ok /\ ~inMongo =>
       \E m \in Own(q, s) : Neighbours(q, s, m, n) /\ logs[s][m].kind = "report"

ReportInPlace ==
  \A s \in DOMAIN logs : \A q \in Requests : \A n \in Own(q, s) :
    /\ logs[s][n].kind = "report" /\ sessions[logs[s][n].child].run # NoRun => ReportPlaced(q, s, n)
    /\ logs[s][n].kind = "result" /\ logs[s][n].child # 0 => ResultTold(q, s, n)

\* Together: the account of the subtasks is complete, true and in order.
SubtasksAccounted == ToldOnce /\ ToldTruly /\ ReportInPlace
=============================================================================
