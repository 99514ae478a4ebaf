------------------------------ MODULE Compaction ------------------------------
(***************************************************************************)
(* Compaction of a session's history: maybeCompactHistory of               *)
(* service/internal/app/integrations.go, as runLLMFlow and the command     *)
(* /compact use it.                                                        *)
(*                                                                         *)
(* The log of a session only grows.  A message is named by its place in    *)
(* it, the order of the saves (Mongo sorts by createdAt, set just before a *)
(* save); a summary is a message too, appended where the log ends when it  *)
(* is saved.  The session record points at the active summary.  A run reads   *)
(* the log, picks the active summary, and gives the model that summary and *)
(* the messages after it, unless they are too many: then all but the Keep  *)
(* newest are summarised first.                                            *)
(*                                                                         *)
(* Runs of one session execute at once.  Every change of the session       *)
(* record goes through updateSession, which reads the whole record and     *)
(* writes the whole record back, so runs overwrite each other's pointers.  *)
(* Texts are abstracted: a summary is the set of messages its text was     *)
(* made from.  A message without a text (of tool calls only, or the result *)
(* of a tool that says nothing) is no part of what is summarised.          *)
(***************************************************************************)
EXTENDS Integers, Sequences, FiniteSets

CONSTANTS
  Runs,          \* places for runs of the session; each is reused
  Limit,         \* CompactLimit
  Keep,          \* CompactKeep
  AutoCompact,   \* AutoCompact
  MongoEnabled,  \* FALSE: the store is in memory and never fails
  MaxLog         \* bound: no prompt and no tool message beyond this length

ASSUME CompactionAssumption ==
  /\ Limit \in Nat \ {0} /\ Keep \in Nat \ {0} /\ MaxLog \in Nat
  /\ AutoCompact \in BOOLEAN /\ MongoEnabled \in BOOLEAN

VARIABLES
  log,      \* the messages of the session
  session,  \* the summary fields of the stored session
  pc,       \* where each run is
  mode,     \* "chat": runLLMFlow;  "compact": the command
  hist,     \* length of the log the run has read
  head,     \* the active summary of the run, 0 if none
  outcome,  \* what the run's pass has done
  context,  \* the messages of the log that the run gives to the model
  patch,    \* the summary the run's updateSession records, 0: a status only
  copy,     \* the session its updateSession has read
  next      \* where the run goes after updateSession

update == <<patch, copy, next>>
vars == <<log, session, pc, mode, hist, head, outcome, context, update>>

Plain(kind) == [kind |-> kind, parent |-> 0, from |-> 0, to |-> 0, covers |-> {}]
Turn == Plain("turn")
Silent == Plain("silent")
NoSummary == [head |-> 0, parent |-> 0, from |-> 0, to |-> 0]

Pcs == {"idle", "updating", "writing", "listing", "choosing", "summarising",
        "chatting", "replying"}
OutcomeKinds == {"none", "whole", "reused", "fresh", "failed"}

Init ==
  /\ log = <<>>
  /\ session = NoSummary
  /\ pc = [r \in Runs |-> "idle"]
  /\ mode = [r \in Runs |-> "chat"]
  /\ hist = [r \in Runs |-> 0]
  /\ head = [r \in Runs |-> 0]
  /\ outcome = [r \in Runs |-> "none"]
  /\ context = [r \in Runs |-> {}]
  /\ patch = [r \in Runs |-> 0]
  /\ copy = [r \in Runs |-> NoSummary]
  /\ next = [r \in Runs |-> "idle"]

-----------------------------------------------------------------------------
(* The choice of the active summary *)

SummariesOf(n) == {i \in 1..n : log[i].kind = "summary"}

\* latestSummaryIndex: the last summary of the first n messages, 0 if none.
LatestSummary(n) ==
  IF SummariesOf(n) = {} THEN 0
  ELSE CHOOSE i \in SummariesOf(n) : \A j \in SummariesOf(n) : j <= i

\* activeSummaryIndex
ActiveSummary(s, n) == IF s.head \in 1..n THEN s.head ELSE LatestSummary(n)

\* The working part of a history of n messages starts after Base(k, n): after
\* the summary k, but at the beginning when nothing follows the summary.
Base(k, n) == IF k < n THEN k ELSE 0
Working(k, n) == Base(k, n) + 1 .. n

\* Mutated form of WorkingSize: one message short.
SizeOffByOne(k, n) == n - Base(k, n) - 1

WorkingSize(k, n) == n - Base(k, n)

-----------------------------------------------------------------------------
(* Steps *)

Goto(r, from, to) ==
  /\ pc[r] = from
  /\ pc' = [pc EXCEPT ![r] = to]

Set(f, r, v) == [f EXCEPT ![r] = v]

\* updateSession, to record summary p (0: only a status), and go on at "to".
Update(r, from, p, to) ==
  /\ Goto(r, from, "updating")
  /\ patch' = Set(patch, r, p)
  /\ next' = Set(next, r, to)
  /\ UNCHANGED copy

\* The pass is over: the context is c.  A chat records the status
\* "compacted_then_continued" when there is a continuation.
Finish(r, from, o, c) ==
  /\ outcome' = Set(outcome, r, o)
  /\ context' = Set(context, r, c)
  /\ IF mode[r] = "chat" /\ o = "reused"
     THEN Update(r, from, 0, "chatting")
     ELSE /\ Goto(r, from, IF mode[r] = "chat" THEN "chatting" ELSE "replying")
          /\ UNCHANGED update

-----------------------------------------------------------------------------
(* A run begins *)

\* RunAgent saves the prompt; runLLMFlow records "started" before it lists the
\* history, the command /compact lists it at once.
Prompt(r, m) ==
  /\ Len(log) < MaxLog
  /\ log' = Append(log, Turn)
  /\ mode' = Set(mode, r, m)
  /\ outcome' = Set(outcome, r, "none")
  /\ context' = Set(context, r, {})
  /\ \/ m = "chat" /\ Update(r, "idle", 0, "listing")
     \/ m = "compact" /\ Goto(r, "idle", "listing") /\ UNCHANGED update
  /\ UNCHANGED <<session, hist, head>>

\* ListMessages; maybeCompactHistory leaves a short history alone.
ListMessages(r) ==
  /\ hist' = Set(hist, r, Len(log))
  /\ IF AutoCompact /\ Len(log) > Limit
     THEN /\ Goto(r, "listing", "choosing")
          /\ UNCHANGED <<outcome, context, update>>
     ELSE Finish(r, "listing", "whole", 1..Len(log))
  /\ UNCHANGED <<log, session, mode, head>>

ListMessagesFails(r) ==
  /\ MongoEnabled
  /\ Goto(r, "listing", "idle")
  /\ UNCHANGED <<log, session, mode, hist, head, outcome, context, update>>

-----------------------------------------------------------------------------
(* The pass *)

\* getSession, whose failure leaves an empty record; then the active summary
\* and what follows it are used as they are, or must be summarised.
Choose(r) ==
  \E s \in {session} \cup (IF MongoEnabled THEN {NoSummary} ELSE {}) :
    LET n == hist[r]
        k == ActiveSummary(s, n)
    IN /\ head' = Set(head, r, k)
       /\ IF WorkingSize(k, n) > Limit /\ WorkingSize(k, n) > Keep
          THEN /\ Goto(r, "choosing", "summarising")
               /\ UNCHANGED <<outcome, context, update>>
          ELSE IF k > 0 THEN Finish(r, "choosing", "reused", {k} \cup Working(k, n))
                        ELSE Finish(r, "choosing", "whole", 1..n)
       /\ UNCHANGED <<log, session, mode, hist>>

\* Mutated form of Older: one message short.
OlderButOne(k, n) == Base(k, n) + 1 .. n - Keep - 1

\* The messages the model is asked to summarise, and those it is not.
Older(k, n) == Base(k, n) + 1 .. n - Keep
Recent(n) == n - Keep + 1 .. n

\* What a text made from messages S stands for: a summary among them stands
\* for its own sources too.
Sources(S) == S \cup UNION {log[i].covers : i \in S}

\* Those with a text, of a message or of a tool's result.
WithText(S) == {i \in S : log[i].kind # "silent"}

\* Mutated form of Summary: the previous summary is left out.
SummaryOfOlderOnly(k, n) ==
  [kind |-> "summary", parent |-> k, from |-> Base(k, n) + 1, to |-> n - Keep,
   covers |-> Sources(WithText(Older(k, n)))]

\* The summary: the previous one, if any, and the texts of the older messages.
Summary(k, n) ==
  [kind |-> "summary", parent |-> k, from |-> Base(k, n) + 1, to |-> n - Keep,
   covers |-> Sources(WithText(Older(k, n)) \cup ({k} \ {0}))]

\* The model fails, or answers nothing: the history is used as it is.
SummariseFails(r) ==
  /\ Finish(r, "summarising", "failed", 1..hist[r])
  /\ UNCHANGED <<log, session, mode, hist, head>>

\* The summary is saved where the log ends NOW, and then recorded.
SaveSummary(r) ==
  /\ log' = Append(log, Summary(head[r], hist[r]))
  /\ outcome' = Set(outcome, r, "fresh")
  /\ context' = Set(context, r, {Len(log) + 1} \cup Recent(hist[r]))
  /\ Update(r, "summarising", Len(log) + 1,
            IF mode[r] = "chat" THEN "chatting" ELSE "replying")
  /\ UNCHANGED <<session, mode, hist, head>>

\* Mutated form of SaveSummaryFails: the error is ignored.
SaveErrorIgnored(r) ==
  /\ MongoEnabled
  /\ outcome' = Set(outcome, r, "fresh")
  /\ context' = Set(context, r, Recent(hist[r]))
  /\ Update(r, "summarising", Len(log) + 1,
            IF mode[r] = "chat" THEN "chatting" ELSE "replying")
  /\ UNCHANGED <<log, session, mode, hist, head>>

\* The save reports an error, and may have been done or not.
SaveSummaryFails(r) ==
  /\ MongoEnabled
  /\ log' \in {log, Append(log, Summary(head[r], hist[r]))}
  /\ Finish(r, "summarising", "failed", 1..hist[r])
  /\ UNCHANGED <<session, mode, hist, head>>

-----------------------------------------------------------------------------
(* updateSession *)

\* Mutated form of ReadSession: a copy once read is used again.
ReadCached(r) ==
  /\ Goto(r, "updating", "writing")
  /\ copy' = IF copy[r] = NoSummary THEN Set(copy, r, session) ELSE copy
  /\ UNCHANGED <<log, session, mode, hist, head, outcome, context, patch, next>>

ReadSession(r) ==
  /\ Goto(r, "updating", "writing")
  /\ copy' = Set(copy, r, session)
  /\ UNCHANGED <<log, session, mode, hist, head, outcome, context, patch, next>>

\* Mutated form of Described: only the pointer is set.
PointerOnly(c, p) == IF p = 0 THEN c ELSE [c EXCEPT !.head = p]

\* The record c with the fields of summary p.
Described(c, p) ==
  IF p = 0 THEN c
  ELSE [head |-> p, parent |-> log[p].parent, from |-> log[p].from, to |-> log[p].to]

\* A chat with a fresh summary goes on to record "compacted_then_continued".
WriteSession(r) ==
  /\ session' = Described(copy[r], patch[r])
  /\ IF patch[r] > 0 /\ mode[r] = "chat"
     THEN Update(r, "writing", 0, next[r])
     ELSE Goto(r, "writing", next[r]) /\ UNCHANGED update
  /\ UNCHANGED <<log, mode, hist, head, outcome, context>>

\* Either half of an update fails: the error is ignored.
UpdateFails(r) ==
  /\ MongoEnabled
  /\ \E from \in {"updating", "writing"} :
       IF patch[r] > 0 /\ mode[r] = "chat"
       THEN Update(r, from, 0, next[r])
       ELSE Goto(r, from, next[r]) /\ UNCHANGED update
  /\ UNCHANGED <<log, session, mode, hist, head, outcome, context>>

-----------------------------------------------------------------------------
(* A run goes on and ends *)

\* A message of tool calls or a tool's result is stored.
Continue(r) ==
  /\ pc[r] = "chatting"
  /\ Len(log) < MaxLog
  /\ \E m \in {Silent, Turn} : log' = Append(log, m)
  /\ UNCHANGED <<session, pc, mode, hist, head, outcome, context, update>>

\* The final text is stored; a chat records its end.
Answer(r) ==
  /\ log' = Append(log, Turn)
  /\ \/ mode[r] = "chat" /\ Update(r, "chatting", 0, "idle")
     \/ mode[r] = "compact" /\ Goto(r, "replying", "idle") /\ UNCHANGED update
  /\ UNCHANGED <<session, mode, hist, head, outcome, context>>

\* The run fails for another reason (see AgentRun), or its reply is not stored.
Abandon(r) ==
  /\ \/ Goto(r, "chatting", "idle")
     \/ MongoEnabled /\ Goto(r, "replying", "idle")
  /\ UNCHANGED <<log, session, mode, hist, head, outcome, context, update>>

-----------------------------------------------------------------------------
Step(r) ==
  \/ \E m \in {"chat", "compact"} : Prompt(r, m)
  \/ ListMessages(r) \/ ListMessagesFails(r)
  \/ Choose(r) \/ SummariseFails(r) \/ SaveSummary(r) \/ SaveSummaryFails(r)
  \/ ReadSession(r) \/ WriteSession(r) \/ UpdateFails(r)
  \/ Continue(r) \/ Answer(r) \/ Abandon(r)

Next == \E r \in Runs : Step(r)

Spec == Init /\ [][Next]_vars

-----------------------------------------------------------------------------
(* Properties *)

Messages == [kind : {"turn", "silent", "summary"}, parent : Nat, from : Nat, to : Nat,
             covers : SUBSET Nat]
Records == [head : Nat, parent : Nat, from : Nat, to : Nat]

\* Every variable has its type, and a run reads no further than the log.
TypeOK ==
  /\ log \in Seq(Messages)
  /\ session \in Records
  /\ pc \in [Runs -> Pcs]
  /\ mode \in [Runs -> {"chat", "compact"}]
  /\ hist \in [Runs -> 0..Len(log)]
  /\ head \in [Runs -> 0..Len(log)]
  /\ outcome \in [Runs -> OutcomeKinds]
  /\ context \in [Runs -> SUBSET (1..Len(log))]
  /\ patch \in [Runs -> 0..Len(log)]
  /\ copy \in [Runs -> Records]
  /\ next \in [Runs -> Pcs]

\* The summary fields of the session all speak of one stored summary, whatever
\* failed between the save of the summary and the update of the session and
\* whichever runs overwrote the record.
Describes(s) ==
  s.head # 0 =>
    /\ s.head \in SummariesOf(Len(log))
    /\ LET m == log[s.head]
       IN s.parent = m.parent /\ s.from = m.from /\ s.to = m.to

HeadDescribed == Describes(session)

\* The messages that a summary i of the log has passed over: they come after the
\* last one it was made from and before the summary itself.
PassedOver(i) ==
  \E s \in SummariesOf(Len(log)) : log[s].to < i /\ i < s

\* The messages without a text that a summary of the log speaks of: it was made
\* without them.
LeftOut(i) ==
  /\ log[i].kind = "silent"
  /\ \E s \in SummariesOf(Len(log)) : log[s].from <= i /\ i <= log[s].to

Known(C) == Sources(C)

\* What the model is given lacks no message of the history but those a summary
\* has passed over, and those without a text that it was made without (tool
\* calls, above all): nothing else is forgotten, whichever summary is active.
OnlyPassedOverForgotten ==
  \A r \in Runs : pc[r] = "chatting" =>
    \A i \in 1..hist[r] : i \in Known(context[r]) \/ PassedOver(i) \/ LeftOut(i)

\* A pass that summarises loses no text that the previous summary left: each
\* message is given to the model as it is or is part of the new summary, or is
\* without a text, and older than the newest Keep.
PassLosesNoText ==
  \A r \in Runs : outcome[r] = "fresh" =>
    /\ WithText(Working(head[r], hist[r])) \subseteq Known(context[r])
    /\ Recent(hist[r]) \subseteq context[r]

\* Together: the model lacks nothing but what was passed over before the pass,
\* and older messages without a text.
NothingElseForgotten == OnlyPassedOverForgotten /\ PassLosesNoText

\* A history is given to the model in at most Limit (or Keep) messages and a
\* summary, unless summarising failed.
Bound == 1 + (IF Limit > Keep THEN Limit ELSE Keep)

ContextBounded ==
  \A r \in Runs :
    pc[r] \in {"chatting", "replying"} /\ AutoCompact /\ outcome[r] # "failed"
      => Cardinality(context[r]) <= Bound

\* The session never turns back to an older summary (one run at a time).
HeadAdvances == [][session'.head >= session.head]_vars

\* The newest Keep messages of the conversation are given to the model as they
\* are: "AUTO_COMPACT_PRESERVE_RECENT controls how many recent messages stay
\* uncompressed" (README.md:76).
NewestTurns(n) ==
  LET turns == 1..n \ SummariesOf(n)
  IN {i \in turns : Cardinality({j \in turns : j > i}) < Keep}

RecentUncompressed ==
  \A r \in Runs : pc[r] = "chatting" => NewestTurns(hist[r]) \subseteq context[r]

\* The command compacts whenever more than Keep messages are uncompressed and
\* nothing fails: "/compact forces a session compaction pass" (README.md:110).
CompactForces ==
  \A r \in Runs :
    /\ mode[r] = "compact" /\ pc[r] = "replying" /\ outcome[r] # "failed"
    /\ WorkingSize(ActiveSummary(session, hist[r]), hist[r]) > Keep
    => outcome[r] = "fresh"
=============================================================================
