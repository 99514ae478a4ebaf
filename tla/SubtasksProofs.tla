---------------------------- MODULE SubtasksProofs ----------------------------
(* Proofs about Subtasks, for any requests, any depth and any number of       *)
(* calls: the clients are told of every subtask once, truly, and the log has   *)
(* its report in the place it belongs.                                        *)
EXTENDS Subtasks, SequenceTheorems, TLAPS

-----------------------------------------------------------------------------
(* The invariant *)

Frames ==
  [session : Nat,
   pc : {"prompting", "thinking", "texting", "creating", "resulting",
         "answered", "reporting", "failed"},
   via : {"none", "tool", "task", "http"},
   child : Nat, ok : BOOLEAN, left : Nat, loops : Nat]

Entries ==
  [by : Requests \X Nat, kind : {"prompt", "call", "text", "result", "report"},
   child : Nat, ok : BOOLEAN]

Tellings ==
  [child : Nat, session : Nat, run : (Requests \X Nat) \cup {NoRun},
   status : {"subtask_completed", "tool_failed"}]

SubtaskTypes ==
  /\ sessions \in Seq([parent : Nat, run : (Requests \X Nat) \cup {NoRun}])
  /\ Len(sessions) >= 1
  /\ logs \in Seq(Seq(Entries))
  /\ stack \in [Requests -> Seq(Frames)]
  /\ told \in Seq(Tellings)
  /\ SubtasksTypeOK

Sess(q, i) == stack[q][i].session

\* What a run waits for, or goes on to, has to do with how it came there.
ViaOK(f) ==
  /\ f.via = "http" => f.pc \in {"creating", "answered", "failed"}
  /\ f.session = 0 => f.via = "http"
  /\ f.pc = "prompting" => f.via = "none"
  /\ f.pc = "thinking" => f.via \in {"none", "tool"}
  /\ f.pc = "texting" => f.via \in {"none", "task"}
  /\ f.pc = "creating" => f.via # "none"
  /\ f.pc = "resulting" => f.via = "tool"
  /\ f.pc \in {"creating", "resulting"} /\ f.via = "tool" => f.left >= 1

\* The session of a run that is no request's first is a child, and says who made it.
ChildOf(q, i) ==
  /\ Sess(q, i) \in Children
  /\ stack[q][i].via # "http"
  /\ sessions[Sess(q, i)].run =
       IF stack[q][i - 1].via = "tool" THEN Run(q, Sess(q, i - 1)) ELSE NoRun

StackOK(q) ==
  \A i \in DOMAIN stack[q] :
    /\ ViaOK(stack[q][i])
    /\ i = 1 => Sess(q, i) \in {0, 1} /\ stack[q][i].pc # "reporting"
    /\ i > 1 => ChildOf(q, i)

\* A child session is run once.
Apart ==
  \A q, p \in Requests : \A i \in DOMAIN stack[q], j \in DOMAIN stack[p] :
    Sess(q, i) = Sess(p, j) /\ Sess(q, i) \in Children => q = p /\ i = j

EntryOK(e) ==
  /\ e.child \in Children \cup {0}
  /\ e.kind = "report" => e.child \in Children

RecordsOK ==
  /\ \A s \in DOMAIN logs : \A n \in DOMAIN logs[s] : EntryOK(logs[s][n])
  /\ \A n \in DOMAIN told : told[n].child \in Children

NotBegunYet ==
  \A q \in Requests : stack[q] = <<>> => \A s \in DOMAIN logs : Own(q, s) = {}

\* What a run has added to the log of its session last.
LastOwn(q, s, n) == n \in Own(q, s) /\ \A k \in Own(q, s) : k <= n
ToolReport(s, n) == logs[s][n].kind = "report" /\ sessions[logs[s][n].child].run # NoRun
NoReportLast(q, s) == \A n \in Own(q, s) : LastOwn(q, s, n) => ~ToolReport(s, n)
CallLast(q, s) == \E n \in Own(q, s) : LastOwn(q, s, n) /\ logs[s][n].kind \in {"call", "result"}
ReportLast(q, s, c) ==
  \E n \in Own(q, s) : LastOwn(q, s, n) /\ logs[s][n].kind = "report" /\ logs[s][n].child = c

Reporting(q, i) == i < Len(stack[q]) /\ stack[q][i + 1].pc = "reporting"

\* The report about a subtask comes with the step to "reporting", if the store
\* does not fail.
AwaitsChild(q, i) ==
  IF Reporting(q, i)
  THEN \/ ReportLast(q, Sess(q, i), Sess(q, i + 1))
       \/ inMongo /\ CallLast(q, Sess(q, i))
  ELSE CallLast(q, Sess(q, i))

HasOutcome(q, f) ==
  /\ f.child = 0 => CallLast(q, f.session)
  /\ f.child # 0 =>
       /\ f.child \in Children /\ ToldOf(f.child, f.ok)
       /\ \/ ReportLast(q, f.session, f.child)
          \/ (~f.ok \/ inMongo) /\ CallLast(q, f.session)

OwnOK(q, i) ==
  LET f == stack[q][i]
  IN /\ f.pc = "prompting" => Own(q, f.session) = {}
     /\ f.pc \in {"thinking", "texting"} => NoReportLast(q, f.session)
     /\ f.pc = "creating" /\ f.via # "tool" /\ f.session # 0 => NoReportLast(q, f.session)
     /\ f.pc = "creating" /\ f.via = "tool" => AwaitsChild(q, i)
     /\ f.pc = "resulting" => HasOutcome(q, f)

TextOK(q, i) ==
  IF stack[q][i].pc \in {"answered", "reporting"}
  THEN EndsWithText(Sess(q, i)) ELSE ~inMongo => ~EndsWithText(Sess(q, i))

RunsOK ==
  \A q \in Requests : \A i \in DOMAIN stack[q] : OwnOK(q, i) /\ (i > 1 => TextOK(q, i))

\* The account is complete because a child session is run by one run of one
\* stack until the clients are told, and in order because of what each run has
\* added to its log last.
SubtasksInv ==
  /\ SubtaskTypes /\ (\A q \in Requests : StackOK(q)) /\ Apart
  /\ RecordsOK /\ NotBegunYet /\ RunsOK /\ SubtasksAccounted

-----------------------------------------------------------------------------
(* The log *)

\* A message that is stored comes last, and every other log is as it was.
LEMMA StoredLog ==
  ASSUME logs \in Seq(Seq(Entries)), NEW s \in DOMAIN logs, NEW e \in Entries, Stores(s, e)
  PROVE  /\ logs' \in Seq(Seq(Entries)) /\ Len(logs') = Len(logs) /\ DOMAIN logs' = DOMAIN logs
         /\ \A t \in DOMAIN logs : t # s => logs'[t] = logs[t]
         /\ Len(logs[s]) \in Nat /\ DOMAIN logs[s] = 1..Len(logs[s])
         /\ Len(logs'[s]) = Len(logs[s]) + 1 /\ DOMAIN logs'[s] = 1..Len(logs[s]) + 1
         /\ \A n \in 1..Len(logs[s]) : logs'[s][n] = logs[s][n]
         /\ logs'[s][Len(logs[s]) + 1] = e
         /\ logs'[s] # <<>>
<1>1. logs[s] \in Seq(Entries)
  OBVIOUS
<1>2. logs'[s] = Append(logs[s], e)
  BY DEF Stores
<1>3. Append(logs[s], e) \in Seq(Entries)
  BY <1>1
<1>4. /\ logs' \in Seq(Seq(Entries)) /\ Len(logs') = Len(logs) /\ DOMAIN logs' = DOMAIN logs
      /\ \A t \in DOMAIN logs : t # s => logs'[t] = logs[t]
  BY <1>3, ExceptSeq DEF Stores
<1>5. /\ Len(logs[s]) \in Nat /\ DOMAIN logs[s] = 1..Len(logs[s])
      /\ Len(logs'[s]) = Len(logs[s]) + 1 /\ DOMAIN logs'[s] = 1..Len(logs[s]) + 1
      /\ \A n \in 1..Len(logs[s]) : logs'[s][n] = logs[s][n]
      /\ logs'[s][Len(logs[s]) + 1] = e
  BY <1>1, <1>2, <1>3, AppendProperties
<1> QED
  BY <1>4, <1>5

\* A run has added what it had added, and nothing else.
SameOwn(q, s) == Own(q, s)' = Own(q, s) /\ \A n \in Own(q, s) : logs'[s][n] = logs[s][n]

\* It has added e, as the n-th message of the log.
OneMore(q, s, e, n) ==
  /\ Own(q, s)' = Own(q, s) \cup {n}
  /\ n \in Nat /\ \A m \in Own(q, s) : m \in Nat /\ m < n /\ logs'[s][m] = logs[s][m]
  /\ logs'[s][n] = e

\* A message is one run's, and in one log.
LEMMA StoredOwn ==
  ASSUME logs \in Seq(Seq(Entries)), NEW s \in DOMAIN logs, NEW e \in Entries, Stores(s, e)
  PROVE  /\ \A q \in Requests, t \in DOMAIN logs : t # s \/ e.by # Run(q, s) => SameOwn(q, t)
         /\ \A q \in Requests : e.by = Run(q, s) => OneMore(q, s, e, Len(logs[s]) + 1)
<1> DEFINE N == Len(logs[s]) + 1
<1>1. /\ DOMAIN logs' = DOMAIN logs /\ N \in Nat /\ N >= 1
      /\ \A t \in DOMAIN logs : t # s => logs'[t] = logs[t]
      /\ DOMAIN logs[s] = 1..N - 1 /\ DOMAIN logs'[s] = 1..N
      /\ \A n \in 1..N - 1 : logs'[s][n] = logs[s][n]
      /\ logs'[s][N] = e
  BY StoredLog
<1> HIDE DEF N
<1>2. ASSUME NEW q \in Requests, NEW t \in DOMAIN logs, t # s
      PROVE  SameOwn(q, t)
  BY <1>1, <1>2 DEF SameOwn, Own
<1>3. ASSUME NEW q \in Requests
      PROVE  /\ Own(q, s) \subseteq 1..N - 1
             /\ \A n \in Own(q, s) : logs'[s][n] = logs[s][n]
             /\ Own(q, s)' = Own(q, s) \cup (IF e.by = Run(q, s) THEN {N} ELSE {})
  <2>1. 1..N = (1..N - 1) \cup {N}
    BY <1>1
  <2>2. \A n \in 1..N : n \in Own(q, s)' <=> logs'[s][n].by = Run(q, s)
    BY <1>1 DEF Own
  <2>3. \A n \in 1..N - 1 : n \in Own(q, s) <=> logs[s][n].by = Run(q, s)
    BY <1>1 DEF Own
  <2>4. Own(q, s) \subseteq 1..N - 1 /\ Own(q, s)' \subseteq 1..N /\ N \notin 1..N - 1
    BY <1>1 DEF Own
  <2>5. ASSUME NEW n \in 1..N
        PROVE  n \in Own(q, s)' <=> n \in Own(q, s) \/ (n = N /\ e.by = Run(q, s))
    <3>1. CASE n = N
      BY <1>1, <2>2, <2>4, <3>1
    <3>2. CASE n # N
      <4>1. n \in 1..N - 1
        BY <2>1, <3>2
      <4> QED
        BY <1>1, <2>2, <2>3, <3>2, <4>1
    <3> QED
      BY <3>1, <3>2
  <2>6. \A n \in Own(q, s) : logs'[s][n] = logs[s][n]
    BY <1>1, <2>4
  <2> QED
    BY <1>1, <2>1, <2>4, <2>5, <2>6
<1>4. ASSUME NEW q \in Requests, e.by # Run(q, s)
      PROVE  SameOwn(q, s)
  BY <1>3, <1>4 DEF SameOwn
<1>5. ASSUME NEW q \in Requests, e.by = Run(q, s)
      PROVE  OneMore(q, s, e, N)
  <2>1. \A m \in 1..N - 1 : m \in Nat /\ m < N
    BY <1>1
  <2> QED
    BY <1>1, <1>3, <1>5, <2>1 DEF OneMore
<1> QED
  BY <1>2, <1>4, <1>5 DEF N

-----------------------------------------------------------------------------
(* What the logs say of a run *)

\* The stored sessions stay as they are.
KeepsSessions ==
  Len(sessions) <= Len(sessions)' /\ \A c \in DOMAIN sessions : sessions'[c] = sessions[c]

\* What the clients were told of a subtask, they are not told again.
KeepsTold ==
  \A c \in Children : EventsOf(c) # {} =>
    EventsOf(c)' = EventsOf(c) /\ \A n \in EventsOf(c) : n \in DOMAIN told' /\ told'[n] = told[n]

\* Whose places do not change.
LEMMA PlacesKept ==
  ASSUME NEW q, NEW s, SameOwn(q, s)
  PROVE  /\ \A n : LastOwn(q, s, n)' <=> LastOwn(q, s, n)
         /\ CallLast(q, s) => CallLast(q, s)'
         /\ \A c : ReportLast(q, s, c) => ReportLast(q, s, c)'
         /\ \A m, n : Neighbours(q, s, m, n)' <=> Neighbours(q, s, m, n)
<1>1. Own(q, s)' = Own(q, s) /\ \A n \in Own(q, s) : logs'[s][n] = logs[s][n]
  BY DEF SameOwn
<1>2. \A n : LastOwn(q, s, n)' <=> LastOwn(q, s, n)
  BY <1>1 DEF LastOwn
<1>3. \A m, n : Neighbours(q, s, m, n)' <=> Neighbours(q, s, m, n)
  BY <1>1 DEF Neighbours
<1>4. CallLast(q, s) => CallLast(q, s)'
  BY <1>1, <1>2 DEF CallLast
<1>5. ASSUME NEW c, ReportLast(q, s, c)
      PROVE  ReportLast(q, s, c)'
  BY <1>1, <1>2, <1>5 DEF ReportLast
<1> QED
  BY <1>2, <1>3, <1>4, <1>5

\* A report in the log is about a session that is stored.
LEMMA ReportedIsStored ==
  ASSUME RecordsOK, SubtaskTypes, NEW q, NEW s \in DOMAIN logs, NEW n \in Own(q, s)
  PROVE  /\ logs[s][n].child \in Children \cup {0}
         /\ logs[s][n].kind = "report" => logs[s][n].child \in Children
<1>1. n \in DOMAIN logs[s]
  BY DEF Own
<1> QED
  BY <1>1 DEF RecordsOK, EntryOK

\* A run whose last message is no report of a call still has none there.
LEMMA NoReportLastKept ==
  ASSUME RecordsOK, SubtaskTypes, KeepsSessions,
         NEW q, NEW s \in DOMAIN logs, SameOwn(q, s), NoReportLast(q, s)
  PROVE  NoReportLast(q, s)'
<1> SUFFICES ASSUME NEW n \in Own(q, s)', LastOwn(q, s, n)'
             PROVE  ~ToolReport(s, n)'
  BY DEF NoReportLast
<1>1. n \in Own(q, s) /\ LastOwn(q, s, n) /\ logs'[s][n] = logs[s][n]
  BY PlacesKept DEF SameOwn
<1>2. ~ToolReport(s, n)
  BY <1>1 DEF NoReportLast
<1>3. logs[s][n].kind = "report" => logs[s][n].child \in DOMAIN sessions
  <2>1. Children \subseteq DOMAIN sessions
    BY DEF Children, SubtaskTypes
  <2> QED
    BY <1>1, <2>1, ReportedIsStored
<1> QED
  BY <1>1, <1>2, <1>3 DEF ToolReport, KeepsSessions

\* What the clients were told stays true.
LEMMA ToldKept ==
  ASSUME KeepsSessions, KeepsTold, SubtaskTypes, NEW c \in Children, NEW ok, ToldOf(c, ok)
  PROVE  c \in Children' /\ ToldOf(c, ok)'
<1>1. PICK n \in DOMAIN told : EventsOf(c) = {n} /\ (ok <=> told[n].status = "subtask_completed")
  BY DEF ToldOf
<1>2. EventsOf(c)' = {n} /\ n \in DOMAIN told' /\ told'[n] = told[n]
  BY <1>1 DEF KeepsTold
<1>3. c \in Children'
  <2>1. Len(sessions) \in Nat /\ c \in 2..Len(sessions)
    BY DEF Children, SubtaskTypes
  <2>2. CASE Len(sessions)' \in Nat
    BY <2>1, <2>2 DEF KeepsSessions, Children
  <2> QED
    BY <2>1, <2>2 DEF KeepsSessions, Children
<1> QED
  BY <1>1, <1>2, <1>3 DEF ToldOf

\* A run that does nothing, and whose subtask does not begin to report, is as it
\* was.
LEMMA RunKept ==
  ASSUME RecordsOK, SubtaskTypes, KeepsSessions, KeepsTold, inMongo' = inMongo,
         NEW q \in Requests, NEW i \in DOMAIN stack[q],
         stack'[q][i] = stack[q][i], ViaOK(stack[q][i]),
         Sess(q, i) # 0 => SameOwn(q, Sess(q, i)),
         Reporting(q, i)' <=> Reporting(q, i),
         Reporting(q, i) => Sess(q, i + 1)' = Sess(q, i + 1),
         OwnOK(q, i)
  PROVE  OwnOK(q, i)'
<1> SUFFICES ASSUME NEW f, f = stack[q][i], NEW s, s = f.session
             PROVE  OwnOK(q, i)'
  OBVIOUS
<1>1. f.pc \in {"prompting", "thinking", "texting", "resulting"} => s # 0
  BY DEF ViaOK
<1>2. s # 0 => s \in DOMAIN logs
  BY DEF SubtaskTypes, SubtasksTypeOK, FrameOK
<1>3. s # 0 => SameOwn(q, s)
  BY DEF Sess
<1>4. f.pc = "prompting" => Own(q, s)' = {}
  BY <1>1, <1>3 DEF OwnOK, SameOwn
<1>5. f.pc \in {"thinking", "texting"} => NoReportLast(q, s)'
  BY <1>1, <1>2, <1>3, NoReportLastKept DEF OwnOK
<1>6. f.pc = "creating" /\ f.via # "tool" /\ s # 0 => NoReportLast(q, s)'
  BY <1>2, <1>3, NoReportLastKept DEF OwnOK
<1>7. ASSUME f.pc = "creating" /\ f.via = "tool"
      PROVE  AwaitsChild(q, i)'
  <2>1. AwaitsChild(q, i) /\ s # 0
    BY <1>7 DEF OwnOK, ViaOK
  <2>2. Sess(q, i) = s /\ Sess(q, i)' = s
    BY DEF Sess
  <2>3. (CallLast(q, s) => CallLast(q, s)') /\ \A c : ReportLast(q, s, c) => ReportLast(q, s, c)'
    BY <1>3, <2>1, PlacesKept
  <2>4. CASE Reporting(q, i)
    BY <2>1, <2>2, <2>3, <2>4 DEF AwaitsChild
  <2>5. CASE ~Reporting(q, i)
    BY <2>1, <2>2, <2>3, <2>5 DEF AwaitsChild
  <2> QED
    BY <2>4, <2>5
<1>8. ASSUME f.pc = "resulting"
      PROVE  HasOutcome(q, f)'
  <2>1. HasOutcome(q, f) /\ s # 0
    BY <1>1, <1>8 DEF OwnOK
  <2>2. (CallLast(q, s) => CallLast(q, s)') /\ \A c : ReportLast(q, s, c) => ReportLast(q, s, c)'
    BY <1>3, <2>1, PlacesKept
  <2>3. f.child \in Children /\ ToldOf(f.child, f.ok) => f.child \in Children' /\ ToldOf(f.child, f.ok)'
    BY ToldKept
  <2> QED
    BY <2>1, <2>2, <2>3 DEF HasOutcome
<1> QED
  BY <1>4, <1>5, <1>6, <1>7, <1>8 DEF OwnOK

\* A message of a run is in its place.
PlaceOK(q, s, n) ==
  /\ ToolReport(s, n) => ReportPlaced(q, s, n)
  /\ logs[s][n].kind = "result" /\ logs[s][n].child # 0 => ResultTold(q, s, n)

AllPlaced(q, s) == \A n \in Own(q, s) : PlaceOK(q, s, n)

LEMMA PlacedMeans == ReportInPlace <=> \A s \in DOMAIN logs, q \in Requests : AllPlaced(q, s)
  BY DEF ReportInPlace, AllPlaced, PlaceOK, ToolReport

\* What a message that a run adds has to do with the one before.
FitsAfter(q, s, e) ==
  /\ NoReportLast(q, s) \/ (e.kind = "result" /\ ReportLast(q, s, e.child))
  /\ e.kind = "report" /\ sessions[e.child].run # NoRun => CallLast(q, s)
  /\ e.kind = "result" /\ e.child # 0 =>
       /\ ToldOf(e.child, e.ok)
       /\ e.ok /\ ~inMongo => ReportLast(q, s, e.child)

\* A run's messages keep their places while others write.
LEMMA AllPlacedKept ==
  ASSUME RecordsOK, SubtaskTypes, KeepsSessions, KeepsTold, inMongo' = inMongo,
         NEW q, NEW s \in DOMAIN logs, SameOwn(q, s), AllPlaced(q, s)
  PROVE  AllPlaced(q, s)'
<1> SUFFICES ASSUME NEW n \in Own(q, s)
             PROVE  PlaceOK(q, s, n)'
  BY DEF SameOwn, AllPlaced
<1>1. /\ Own(q, s)' = Own(q, s) /\ \A m \in Own(q, s) : logs'[s][m] = logs[s][m]
      /\ \A m, k : Neighbours(q, s, m, k)' <=> Neighbours(q, s, m, k)
  BY PlacesKept DEF SameOwn
<1>2. logs[s][n].kind = "report" => logs[s][n].child \in DOMAIN sessions
  BY ReportedIsStored DEF Children, SubtaskTypes
<1>3. PlaceOK(q, s, n)
  BY DEF AllPlaced
<1>4. ASSUME ToolReport(s, n)'
      PROVE  ReportPlaced(q, s, n)'
  <2>1. ReportPlaced(q, s, n)
    BY <1>1, <1>2, <1>3, <1>4 DEF PlaceOK, ToolReport, KeepsSessions
  <2> QED
    BY <1>1, <2>1 DEF ReportPlaced
<1>5. ASSUME logs'[s][n].kind = "result", logs'[s][n].child # 0
      PROVE  ResultTold(q, s, n)'
  <2> DEFINE e == logs[s][n]
  <2>1. ResultTold(q, s, n) /\ e.child \in Children /\ logs'[s][n] = e
    BY <1>1, <1>3, <1>5, ReportedIsStored DEF PlaceOK
  <2>2. ToldOf(e.child, e.ok)
    BY <2>1 DEF ResultTold
  <2>3. ToldOf(e.child, e.ok)'
    BY <2>1, <2>2, ToldKept
  <2>4. e.ok /\ ~inMongo =>
          \E m \in Own(q, s) : Neighbours(q, s, m, n) /\ logs[s][m].kind = "report"
    BY <2>1 DEF ResultTold
  <2> QED
    BY <1>1, <2>1, <2>3, <2>4 DEF ResultTold
<1> QED
  BY <1>4, <1>5 DEF PlaceOK

\* A run that adds what fits keeps its messages in their places.
LEMMA AllPlacedAppended ==
  ASSUME RecordsOK, SubtaskTypes, KeepsSessions, KeepsTold, inMongo' = inMongo,
         NEW q, NEW s \in DOMAIN logs, AllPlaced(q, s),
         NEW e \in Entries, NEW N, OneMore(q, s, e, N), EntryOK(e), FitsAfter(q, s, e)
  PROVE  AllPlaced(q, s)'
<1>1. /\ Own(q, s)' = Own(q, s) \cup {N} /\ N \in Nat /\ logs'[s][N] = e
      /\ \A m \in Own(q, s) : m \in Nat /\ m < N /\ logs'[s][m] = logs[s][m]
  BY DEF OneMore
<1>2. Children \subseteq DOMAIN sessions
  BY DEF Children, SubtaskTypes
<1>3. \A m, n \in Own(q, s) : Neighbours(q, s, m, n)' <=> Neighbours(q, s, m, n)
  BY <1>1 DEF Neighbours
<1>4. \A m \in Own(q, s) : Neighbours(q, s, m, N)' <=> LastOwn(q, s, m)
  BY <1>1 DEF Neighbours, LastOwn
<1>5. \A m, n \in Own(q, s) : LastOwn(q, s, m) /\ LastOwn(q, s, n) => m = n
  BY <1>1 DEF LastOwn
<1>6. ASSUME NEW n \in Own(q, s), ToolReport(s, n)'
      PROVE  ReportPlaced(q, s, n)'
  <2>1. ToolReport(s, n) /\ logs'[s][n] = logs[s][n]
    <3>1. logs[s][n].kind = "report" => logs[s][n].child \in DOMAIN sessions
      BY <1>2, ReportedIsStored
    <3> QED
      BY <1>1, <1>6, <3>1 DEF ToolReport, KeepsSessions
  <2>2. ReportPlaced(q, s, n)
    BY <2>1 DEF AllPlaced, PlaceOK
  <2>3. \E m \in Own(q, s)' : Neighbours(q, s, m, n)' /\ logs'[s][m].kind \in {"call", "result"}
    BY <1>1, <1>3, <2>2 DEF ReportPlaced
  <2>4. ASSUME NEW m \in Own(q, s)', Neighbours(q, s, n, m)'
        PROVE  logs'[s][m].kind = "result" /\ logs'[s][m].child = logs'[s][n].child
    <3>1. CASE m \in Own(q, s)
      BY <1>1, <1>3, <2>1, <2>2, <2>4, <3>1 DEF ReportPlaced
    <3>2. CASE m = N
      <4>1. LastOwn(q, s, n)
        BY <1>4, <2>4, <3>2
      <4>2. e.kind = "result" /\ ReportLast(q, s, e.child)
        BY <2>1, <4>1 DEF FitsAfter, NoReportLast
      <4>3. logs[s][n].child = e.child
        BY <1>5, <4>1, <4>2 DEF ReportLast
      <4> QED
        BY <1>1, <2>1, <3>2, <4>2, <4>3
    <3> QED
      BY <1>1, <3>1, <3>2
  <2> QED
    BY <2>3, <2>4 DEF ReportPlaced
<1>7. ASSUME NEW n \in Own(q, s), logs'[s][n].kind = "result", logs'[s][n].child # 0
      PROVE  ResultTold(q, s, n)'
  <2> DEFINE d == logs[s][n]
  <2>1. logs'[s][n] = d
    BY <1>1
  <2>2. ResultTold(q, s, n) /\ d.child \in Children
    BY <1>7, <2>1, ReportedIsStored DEF AllPlaced, PlaceOK
  <2>3. ToldOf(d.child, d.ok)
    BY <2>2 DEF ResultTold
  <2>4. ToldOf(d.child, d.ok)'
    BY <2>1, <2>2, <2>3, ToldKept
  <2>5. d.ok /\ ~inMongo =>
          \E m \in Own(q, s) : Neighbours(q, s, m, n) /\ logs[s][m].kind = "report"
    BY <2>2 DEF ResultTold
  <2>6. d.ok /\ ~inMongo =>
          \E m \in Own(q, s)' : Neighbours(q, s, m, n)' /\ logs'[s][m].kind = "report"
    BY <1>1, <1>3, <2>5
  <2> QED
    BY <2>1, <2>4, <2>6 DEF ResultTold
<1>8. ASSUME ToolReport(s, N)'
      PROVE  ReportPlaced(q, s, N)'
  <2>1. CallLast(q, s)
    BY <1>1, <1>2, <1>8 DEF ToolReport, KeepsSessions, FitsAfter, EntryOK
  <2>2. \E m \in Own(q, s)' : Neighbours(q, s, m, N)' /\ logs'[s][m].kind \in {"call", "result"}
    BY <1>1, <1>4, <2>1 DEF CallLast
  <2>3. \A m \in Own(q, s)' : ~Neighbours(q, s, N, m)'
    BY <1>1 DEF Neighbours
  <2> QED
    BY <2>2, <2>3 DEF ReportPlaced
<1>9. ASSUME e.kind = "result", e.child # 0
      PROVE  ResultTold(q, s, N)'
  <2>1. ToldOf(e.child, e.ok) /\ (e.ok /\ ~inMongo => ReportLast(q, s, e.child))
    BY <1>9 DEF FitsAfter
  <2>2. ToldOf(e.child, e.ok)'
    BY <1>9, <2>1, ToldKept DEF EntryOK
  <2>3. e.ok /\ ~inMongo =>
          \E m \in Own(q, s)' : Neighbours(q, s, m, N)' /\ logs'[s][m].kind = "report"
    BY <1>1, <1>4, <2>1 DEF ReportLast
  <2> QED
    BY <1>1, <2>2, <2>3 DEF ResultTold
<1> QED
  BY <1>1, <1>6, <1>7, <1>8, <1>9 DEF AllPlaced, PlaceOK
-----------------------------------------------------------------------------
(* The stack *)

StoreTypes ==
  /\ sessions \in Seq([parent : Nat, run : (Requests \X Nat) \cup {NoRun}])
  /\ Len(sessions) >= 1 /\ Len(sessions) <= SessionBound
  /\ \A c \in 2..Len(sessions) : sessions[c].parent \in 0..c - 1
  /\ logs \in Seq(Seq(Entries)) /\ Len(logs) = Len(sessions)
  /\ told \in Seq(Tellings)
  /\ inMongo \in BOOLEAN

WaitsOn(q, i) ==
  /\ stack[q][i - 1].pc = "creating"
  /\ sessions[Sess(q, i)].parent = Sess(q, i - 1)

StackTypes ==
  /\ stack \in [Requests -> Seq(Frames)]
  /\ \A q \in Requests : \A i \in DOMAIN stack[q] : FrameOK(stack[q][i]) /\ (i > 1 => WaitsOn(q, i))

\* The types are those of the store and those of the stack.
LEMMA TypesSplit == SubtaskTypes <=> StoreTypes /\ StackTypes
  BY DEF SubtaskTypes, SubtasksTypeOK, StoreTypes, StackTypes, WaitsOn, Sess

\* The innermost run of a request changes, and no other.
LEMMA BecomesStack ==
  ASSUME stack \in [Requests -> Seq(Frames)], NEW q \in Requests, Begun(q),
         NEW g \in Frames, TopBecomes(q, g)
  PROVE  /\ stack' \in [Requests -> Seq(Frames)]
         /\ \A p \in Requests : p # q => stack'[p] = stack[p]
         /\ Len(stack[q]) \in Nat /\ Len(stack[q]) >= 1
         /\ DOMAIN stack[q] = 1..Len(stack[q]) /\ Len(stack'[q]) = Len(stack[q])
         /\ DOMAIN stack'[q] = 1..Len(stack[q])
         /\ \A i \in 1..Len(stack[q]) : i # Len(stack[q]) => stack'[q][i] = stack[q][i]
         /\ stack'[q][Len(stack[q])] = g
         /\ Len(stack[q]) \in DOMAIN stack[q]
<1>1. stack[q] \in Seq(Frames) /\ stack[q] # <<>>
  BY DEF Begun
<1>2. /\ Len(stack[q]) \in Nat /\ Len(stack[q]) >= 1
      /\ DOMAIN stack[q] = 1..Len(stack[q]) /\ Len(stack[q]) \in DOMAIN stack[q]
  BY <1>1, EmptySeq, LenProperties
<1> DEFINE t == [stack[q] EXCEPT ![Len(stack[q])] = g]
<1>3. t \in Seq(Frames) /\ Len(t) = Len(stack[q])
  BY <1>1, <1>2, ExceptSeq
<1>4. /\ stack' \in [Requests -> Seq(Frames)] /\ stack'[q] = t
      /\ \A p \in Requests : p # q => stack'[p] = stack[p]
  BY <1>3 DEF TopBecomes
<1> QED
  BY <1>1, <1>2, <1>3, <1>4

\* What every step does to the store: nothing that is in it is changed.
LEMMA StoredChildren ==
  ASSUME StoreTypes, StoreTypes', KeepsSessions
  PROVE  /\ Children \subseteq Children' /\ 1..Len(sessions) \subseteq 1..Len(sessions)'
         /\ \A c \in 1..Len(sessions) : sessions'[c] = sessions[c]
         /\ \A n \in Nat : n <= Len(sessions) => n <= Len(sessions)'
         /\ \A f \in Frames : FrameOK(f) => FrameOK(f)'
<1>1. /\ Len(sessions) \in Nat /\ Len(sessions)' \in Nat /\ Len(sessions) <= Len(sessions)'
      /\ DOMAIN sessions = 1..Len(sessions)
  BY DEF StoreTypes, KeepsSessions
<1>2. 0..Len(sessions) \subseteq 0..Len(sessions)'
  BY <1>1
<1>3. ASSUME NEW f \in Frames, FrameOK(f)
      PROVE  FrameOK(f)'
  BY <1>2, <1>3 DEF FrameOK
<1> QED
  BY <1>1, <1>3 DEF Children, KeepsSessions

\* A run that goes on in its session keeps the types.
LEMMA BecomesTypes ==
  ASSUME SubtasksInv, NEW q \in Requests, Begun(q), NEW g \in Frames, FrameOK(g),
         g.session = Top(q).session, TopBecomes(q, g), StoreTypes', KeepsSessions
  PROVE  SubtaskTypes'
<1>1. StoreTypes /\ StackTypes
  BY TypesSplit DEF SubtasksInv
<1>2. stack \in [Requests -> Seq(Frames)]
  BY <1>1 DEF StackTypes
<1> DEFINE L == Len(stack[q])
<1>3. /\ stack' \in [Requests -> Seq(Frames)]
      /\ \A p \in Requests : p # q => stack'[p] = stack[p]
      /\ L \in Nat /\ L >= 1 /\ DOMAIN stack[q] = 1..L
      /\ DOMAIN stack'[q] = 1..L
      /\ \A i \in 1..L : i # L => stack'[q][i] = stack[q][i]
      /\ stack'[q][L] = g /\ Top(q) = stack[q][L]
  BY <1>2, BecomesStack DEF Top
<1> HIDE DEF L
<1>4. /\ \A f \in Frames : FrameOK(f) => FrameOK(f)'
      /\ \A c \in 1..Len(sessions) : sessions'[c] = sessions[c]
      /\ \A p \in Requests : \A i \in DOMAIN stack[p] : stack[p][i] \in Frames
  BY <1>1, <1>2, StoredChildren
<1>5. ASSUME NEW p \in Requests, NEW i \in DOMAIN stack'[p]
      PROVE  FrameOK(stack[p][i])' /\ (i > 1 => WaitsOn(p, i)')
  <2>1. i \in DOMAIN stack[p]
    BY <1>3
  <2>2. FrameOK(stack[p][i]) /\ (i > 1 => WaitsOn(p, i)) /\ FrameOK(g)'
    BY <1>1, <1>4, <2>1 DEF StackTypes
  <2>3. Sess(p, i)' = Sess(p, i) /\ (stack'[p][i] = stack[p][i] \/ stack'[p][i] = g)
    BY <1>3, <2>1 DEF Sess
  <2>4. FrameOK(stack[p][i])'
    <3> SUFFICES ASSUME NEW f, f = stack'[p][i]
                 PROVE  FrameOK(f)'
      BY DEF FrameOK
    <3> QED
      BY <1>4, <2>1, <2>2, <2>3
  <2>5. ASSUME i > 1
        PROVE  WaitsOn(p, i)'
    <3>1. i \in Nat /\ i - 1 \in DOMAIN stack[p] /\ stack'[p][i - 1] = stack[p][i - 1]
      <4>1. stack[p] \in Seq(Frames)
        BY <1>2
      <4>2. i - 1 \in DOMAIN stack[p] /\ i \in Nat
        BY <2>1, <2>5, <4>1
      <4> QED
        BY <1>3, <2>1, <4>2
    <3>2. Sess(p, i - 1)' = Sess(p, i - 1)
      BY <3>1 DEF Sess
    <3>3. ChildOf(p, i) /\ WaitsOn(p, i)
      BY <2>1, <2>2, <2>5 DEF SubtasksInv, StackOK
    <3>4. Sess(p, i) \in 1..Len(sessions)
      BY <1>1, <3>3 DEF ChildOf, Children, StoreTypes
    <3> QED
      BY <1>4, <2>3, <3>1, <3>2, <3>3, <3>4 DEF WaitsOn
  <2> QED
    BY <2>4, <2>5
<1>6. StackTypes'
  BY <1>3, <1>5, Zenon DEF StackTypes
<1> QED
  BY <1>6, TypesSplit, PTL
-----------------------------------------------------------------------------
(* A run goes on in its session *)

SameRun(q, g) ==
  /\ Begun(q) /\ g \in Frames /\ FrameOK(g) /\ ViaOK(g)
  /\ g.session = Top(q).session /\ (g.via = "http" => Top(q).via = "http")
  /\ g.pc = "reporting" => InSubtask(q)

NextFrame(q, g) ==
  SameRun(q, g) /\ Top(q).pc # "reporting" /\ g.pc \notin {"prompting", "reporting"}

\* What a step writes, if anything, it writes as a message of this run.
OnlyHere(q, s) ==
  /\ \A p \in Requests, t \in DOMAIN logs : p # q \/ t # s => SameOwn(p, t)
  /\ \A t \in DOMAIN logs : t # s => logs'[t] = logs[t]

\* Sessions, stack and log of a run that is in the stack.
LEMMA InStack ==
  ASSUME SubtasksInv, NEW p \in Requests, NEW i \in DOMAIN stack[p]
  PROVE  /\ i \in Nat /\ i >= 1 /\ i <= Len(stack[p]) /\ Len(stack[p]) \in Nat
         /\ stack[p][i] \in Frames /\ FrameOK(stack[p][i]) /\ ViaOK(stack[p][i])
         /\ i > 1 => i - 1 \in DOMAIN stack[p] /\ ChildOf(p, i) /\ WaitsOn(p, i)
         /\ i = 1 => Sess(p, i) \in {0, 1} /\ stack[p][i].pc # "reporting"
         /\ i < Len(stack[p]) => i + 1 \in DOMAIN stack[p] /\ stack[p][i].pc = "creating"
         /\ Sess(p, i) # 0 => Sess(p, i) \in DOMAIN logs
         /\ OwnOK(p, i) /\ (i > 1 => TextOK(p, i))
         /\ i < Len(stack[p]) => ChildOf(p, i + 1) /\ WaitsOn(p, i + 1)
<1>1. StackTypes /\ StackOK(p) /\ StoreTypes
  BY TypesSplit DEF SubtasksInv
<1>2. stack[p] \in Seq(Frames) /\ Len(stack[p]) \in Nat /\ DOMAIN stack[p] = 1..Len(stack[p])
  BY <1>1, LenProperties DEF StackTypes
<1>3. /\ i \in Nat /\ i >= 1 /\ i <= Len(stack[p]) /\ Len(stack[p]) \in Nat
      /\ stack[p][i] \in Frames
      /\ i > 1 => i - 1 \in DOMAIN stack[p]
      /\ i < Len(stack[p]) => i + 1 \in DOMAIN stack[p] /\ i + 1 > 1 /\ (i + 1) - 1 = i
  <2>1. stack[p][i] \in Frames
    BY <1>2
  <2> QED
    BY <1>2, <2>1
<1>4. FrameOK(stack[p][i]) /\ \A j \in DOMAIN stack[p] : j > 1 => WaitsOn(p, j)
  BY <1>1 DEF StackTypes
<1>5. /\ ViaOK(stack[p][i]) /\ \A j \in DOMAIN stack[p] : j > 1 => ChildOf(p, j)
      /\ i = 1 => Sess(p, i) \in {0, 1} /\ stack[p][i].pc # "reporting"
  BY <1>1 DEF StackOK
<1>6. OwnOK(p, i) /\ (i > 1 => TextOK(p, i))
  BY DEF SubtasksInv, RunsOK
<1>7. Sess(p, i) # 0 => Sess(p, i) \in DOMAIN logs
  BY <1>1, <1>4 DEF FrameOK, Sess, StoreTypes
<1>8. i < Len(stack[p]) => stack[p][i].pc = "creating"
  BY <1>3, <1>4 DEF WaitsOn
<1> QED
  BY <1>3, <1>4, <1>5, <1>6, <1>7, <1>8

\* Two runs in the stacks have sessions of their own, but for the one the
\* clients talk in.
LEMMA OtherSession ==
  ASSUME SubtasksInv, NEW p \in Requests, NEW i \in DOMAIN stack[p],
         NEW q \in Requests, NEW j \in DOMAIN stack[q], Sess(p, i) = Sess(q, j), Sess(q, j) # 0
  PROVE  p = q => i = j
<1> SUFFICES ASSUME p = q, i # j
             PROVE  FALSE
  OBVIOUS
<1>1. i > 1 \/ j > 1
  BY InStack
<1>2. Sess(q, j) \in Children
  BY <1>1, InStack DEF ChildOf
<1> QED
  BY <1>2 DEF SubtasksInv, Apart

\* The stacks are in order when a run goes on in its session.
LEMMA BecomesStackOK ==
  ASSUME SubtasksInv, SubtaskTypes', KeepsSessions,
         NEW q \in Requests, NEW g, SameRun(q, g), TopBecomes(q, g)
  PROVE  (\A p \in Requests : StackOK(p)') /\ Apart'
<1> SUFFICES ASSUME NEW L, L = Len(stack[q])
             PROVE  (\A p \in Requests : StackOK(p)') /\ Apart'
  OBVIOUS
<1>1. /\ SubtaskTypes /\ RecordsOK /\ StoreTypes /\ StoreTypes' /\ StackTypes /\ Apart
      /\ \A p \in Requests : StackOK(p)
  <2>1. SubtaskTypes' => StoreTypes'
    BY TypesSplit, PTL
  <2> QED
    BY <2>1, TypesSplit DEF SubtasksInv
<1>2. /\ \A p \in Requests : p # q => stack'[p] = stack[p]
      /\ L \in DOMAIN stack[q] /\ L \in Nat /\ L >= 1
      /\ DOMAIN stack[q] = 1..L /\ Len(stack'[q]) = L /\ DOMAIN stack'[q] = 1..L
      /\ \A i \in 1..L : i # L => stack'[q][i] = stack[q][i]
      /\ stack'[q][L] = g /\ Top(q) = stack[q][L]
  BY <1>1, BecomesStack DEF Top, SameRun, StackTypes
<1>3. /\ \A p \in Requests : DOMAIN stack'[p] = DOMAIN stack[p] /\ Len(stack'[p]) = Len(stack[p])
      /\ \A p \in Requests : \A i \in DOMAIN stack[p] : Sess(p, i)' = Sess(p, i)
      /\ \A p \in Requests : \A i \in DOMAIN stack[p] : p # q \/ i # L => stack'[p][i] = stack[p][i]
  BY <1>2 DEF Sess, SameRun
<1>4. /\ Children \subseteq Children'
      /\ \A c \in Children : sessions'[c] = sessions[c]
      /\ Len(logs) \in Nat /\ DOMAIN logs = 1..Len(logs) /\ Len(logs) = Len(sessions)
  BY <1>1, StoredChildren DEF Children, StoreTypes
<1>5. ASSUME NEW p \in Requests, NEW i \in DOMAIN stack'[p]
      PROVE  /\ ViaOK(stack'[p][i])
             /\ i = 1 => Sess(p, i)' \in {0, 1} /\ stack'[p][i].pc # "reporting"
             /\ i > 1 => ChildOf(p, i)'
  <2>1. i \in DOMAIN stack[p]
    BY <1>3
  <2>2. ViaOK(stack'[p][i])
    BY <1>2, <1>3, <2>1, InStack DEF SameRun, InSubtask
  <2>3. i = 1 => Sess(p, i)' \in {0, 1} /\ stack'[p][i].pc # "reporting"
    BY <1>2, <1>3, <2>1, InStack DEF SameRun, InSubtask
  <2>4. ASSUME i > 1
        PROVE  ChildOf(p, i)'
    <3>1. ChildOf(p, i) /\ i - 1 \in DOMAIN stack[p] /\ i - 1 \in Nat /\ i \in Nat
      BY <2>1, <2>4, InStack
    <3>2. i - 1 # L \/ p # q
      BY <1>2, <2>1, <3>1
    <3>3. stack'[p][i - 1] = stack[p][i - 1] /\ Sess(p, i - 1)' = Sess(p, i - 1) /\ Sess(p, i)' = Sess(p, i)
      BY <1>3, <2>1, <3>1, <3>2
    <3>4. stack'[p][i].via # "http"
      BY <1>2, <1>3, <2>1, <3>1 DEF ChildOf, SameRun, InSubtask
    <3>5. Sess(p, i) \in Children' /\ sessions'[Sess(p, i)] = sessions[Sess(p, i)]
      BY <1>4, <3>1 DEF ChildOf
    <3> QED
      BY <3>1, <3>3, <3>4, <3>5 DEF ChildOf
  <2> QED
    BY <2>2, <2>3, <2>4
<1>6. ASSUME NEW p \in Requests
      PROVE  StackOK(p)'
  <2> SUFFICES ASSUME NEW i \in DOMAIN stack'[p], NEW f, f = stack'[p][i]
               PROVE  /\ ViaOK(f)
                      /\ i = 1 => Sess(p, i)' \in {0, 1} /\ f.pc # "reporting"
                      /\ i > 1 => ChildOf(p, i)'
    BY DEF StackOK, ViaOK
  <2> QED
    BY <1>5
<1>7. Apart'
  <2> SUFFICES ASSUME NEW o \in Requests, NEW p \in Requests,
                      NEW i \in DOMAIN stack'[o], NEW j \in DOMAIN stack'[p],
                      Sess(o, i)' = Sess(p, j)', Sess(o, i)' \in Children'
               PROVE  o = p /\ i = j
    BY DEF Apart
  <2>1. i \in DOMAIN stack[o] /\ j \in DOMAIN stack[p] /\ Sess(o, i) = Sess(p, j)
    BY <1>3
  <2>2. Sess(o, i) \in 0..Len(sessions) /\ Sess(o, i)' = Sess(o, i)
    BY <1>3, <2>1, InStack DEF FrameOK, Sess
  <2>3. Sess(o, i) \in Children
    BY <1>1, <2>2 DEF Children, StoreTypes
  <2> QED
    BY <1>1, <2>1, <2>3 DEF Apart
<1> QED
  BY <1>6, <1>7

\* The other runs stay as they were.
LEMMA OthersKept ==
  ASSUME SubtasksInv, SubtaskTypes', KeepsSessions, KeepsTold, inMongo' = inMongo,
         NEW q \in Requests, NEW g, NextFrame(q, g), TopBecomes(q, g),
         NEW L, L = Len(stack[q]), OnlyHere(q, g.session),
         OwnOK(q, L)', L > 1 => TextOK(q, L)'
  PROVE  RunsOK'
<1>1. /\ SubtaskTypes /\ RecordsOK /\ StoreTypes /\ StoreTypes' /\ StackTypes /\ Apart
      /\ \A p \in Requests : StackOK(p)
  <2>1. SubtaskTypes' => StoreTypes'
    BY TypesSplit, PTL
  <2> QED
    BY <2>1, TypesSplit DEF SubtasksInv
<1>2. /\ \A p \in Requests : p # q => stack'[p] = stack[p]
      /\ L \in DOMAIN stack[q] /\ L \in Nat /\ L >= 1
      /\ DOMAIN stack[q] = 1..L /\ Len(stack'[q]) = L /\ DOMAIN stack'[q] = 1..L
      /\ \A i \in 1..L : i # L => stack'[q][i] = stack[q][i]
      /\ stack'[q][L] = g /\ Top(q) = stack[q][L]
  BY <1>1, BecomesStack DEF Top, NextFrame, SameRun, StackTypes
<1>3. /\ \A p \in Requests : DOMAIN stack'[p] = DOMAIN stack[p] /\ Len(stack'[p]) = Len(stack[p])
      /\ \A p \in Requests : \A i \in DOMAIN stack[p] : Sess(p, i)' = Sess(p, i)
      /\ \A p \in Requests : \A i \in DOMAIN stack[p] : p # q \/ i # L => stack'[p][i] = stack[p][i]
  BY <1>2 DEF Sess, NextFrame, SameRun
<1>4. /\ Children \subseteq Children'
      /\ \A c \in Children : sessions'[c] = sessions[c]
      /\ Len(logs) \in Nat /\ DOMAIN logs = 1..Len(logs) /\ Len(logs) = Len(sessions)
  BY <1>1, StoredChildren DEF Children, StoreTypes
<1>5. ASSUME NEW p \in Requests, NEW i \in DOMAIN stack'[p], p # q \/ i # L
      PROVE  OwnOK(p, i)'
  <2>1. i \in DOMAIN stack[p] /\ stack'[p][i] = stack[p][i]
    BY <1>3, <1>5
  <2>2. ViaOK(stack[p][i]) /\ OwnOK(p, i) /\ i \in Nat /\ Len(stack[p]) \in Nat
    BY <2>1, InStack
  <2>3. Sess(p, i) # 0 => SameOwn(p, Sess(p, i))
    <3> SUFFICES ASSUME Sess(p, i) # 0
                 PROVE  SameOwn(p, Sess(p, i))
      OBVIOUS
    <3>1. Sess(p, i) \in DOMAIN logs
      BY <2>1, InStack
    <3>2. p # q \/ Sess(p, i) # g.session
      BY <1>2, <1>5, <2>1, OtherSession DEF NextFrame, SameRun, Sess
    <3> QED
      BY <3>1, <3>2 DEF OnlyHere
  <2>4. (Reporting(p, i)' <=> Reporting(p, i)) /\ (Reporting(p, i) => Sess(p, i + 1)' = Sess(p, i + 1))
    <3>1. i < Len(stack[p]) => i + 1 \in DOMAIN stack[p]
      BY <2>1, InStack
    <3>2. Len(stack'[p]) = Len(stack[p])
      BY <1>3
    <3>3. i < Len(stack[p]) => (stack'[p][i + 1].pc = "reporting" <=> stack[p][i + 1].pc = "reporting")
      BY <1>2, <1>3, <3>1 DEF NextFrame, SameRun
    <3> QED
      BY <1>3, <3>1, <3>2, <3>3 DEF Reporting
  <2> QED
    BY <1>1, <2>1, <2>2, <2>3, <2>4, RunKept
<1>6. ASSUME NEW p \in Requests, NEW i \in DOMAIN stack'[p], p # q \/ i # L, i > 1
      PROVE  TextOK(p, i)'
  <2>1. i \in DOMAIN stack[p] /\ stack'[p][i] = stack[p][i] /\ Sess(p, i)' = Sess(p, i)
    BY <1>3, <1>6
  <2>2. TextOK(p, i) /\ Sess(p, i) \in Children /\ Sess(p, i) \in DOMAIN logs
    BY <1>4, <1>6, <2>1, InStack DEF ChildOf, Children
  <2>3. Sess(p, i) # g.session
    BY <1>1, <1>2, <1>6, <2>1, <2>2 DEF NextFrame, SameRun, Sess, Apart
  <2>4. logs'[Sess(p, i)] = logs[Sess(p, i)]
    BY <2>2, <2>3 DEF OnlyHere
  <2> QED
    BY <2>1, <2>2, <2>4 DEF TextOK, EndsWithText
<1> QED
  BY <1>5, <1>6 DEF RunsOK

-----------------------------------------------------------------------------
(* The records of a step that creates no session and tells nobody *)

Writes(q, s, e) ==
  /\ s \in DOMAIN logs /\ e \in Entries /\ Stores(s, e)
  /\ e.by = Run(q, s) /\ EntryOK(e) /\ FitsAfter(q, s, e)

StacksGoOn ==
  /\ \A c \in Children : Running(c)' <=> Running(c)
  /\ \A p \in Requests : stack'[p] = <<>> => stack[p] = <<>>

\* A subtask that the clients were told of is no longer run.
LEMMA ToldIsOver ==
  ASSUME SubtasksInv, NEW n \in DOMAIN told
  PROVE  /\ told[n].child \in Children /\ told[n].child \in DOMAIN logs /\ told[n].child \in Nat
         /\ n \in EventsOf(told[n].child) /\ ~Running(told[n].child)
<1>1. told[n].child \in Children /\ n \in EventsOf(told[n].child)
  BY DEF SubtasksInv, RecordsOK, EventsOf
<1>2. ~Running(told[n].child)
  BY <1>1 DEF SubtasksInv, SubtasksAccounted, ToldOnce
<1>3. told[n].child \in DOMAIN logs /\ told[n].child \in Nat
  BY <1>1, TypesSplit DEF SubtasksInv, StoreTypes, Children
<1> QED
  BY <1>1, <1>2, <1>3

\* A run that adds what fits to the log of a run in its stack.
LEMMA OwnWriteKeeps ==
  ASSUME SubtasksInv, NEW q \in Requests, NEW j \in DOMAIN stack[q],
         NEW s, s = Sess(q, j), NEW e, Writes(q, s, e),
         UNCHANGED <<sessions, told, inMongo>>, StacksGoOn
  PROVE  /\ StoreTypes' /\ KeepsSessions /\ KeepsTold /\ OnlyHere(q, s)
         /\ RecordsOK' /\ NotBegunYet' /\ SubtasksAccounted'
         /\ OneMore(q, s, e, Len(logs[s]) + 1)
         /\ EndsWithText(s)' <=> e.kind = "text"
<1>1. /\ SubtaskTypes /\ RecordsOK /\ StoreTypes /\ NotBegunYet
      /\ ToldOnce /\ ToldTruly /\ ReportInPlace
  BY TypesSplit DEF SubtasksInv, SubtasksAccounted
<1>2. /\ logs \in Seq(Seq(Entries)) /\ s \in DOMAIN logs /\ e \in Entries /\ Stores(s, e)
      /\ e.by = Run(q, s) /\ EntryOK(e) /\ FitsAfter(q, s, e)
  BY <1>1 DEF Writes, StoreTypes
<1>3. KeepsSessions /\ KeepsTold
  BY <1>1 DEF KeepsSessions, KeepsTold, EventsOf, StoreTypes
<1>4. /\ logs' \in Seq(Seq(Entries)) /\ Len(logs') = Len(logs) /\ DOMAIN logs' = DOMAIN logs
      /\ \A t \in DOMAIN logs : t # s => logs'[t] = logs[t]
      /\ Len(logs[s]) \in Nat /\ DOMAIN logs[s] = 1..Len(logs[s])
      /\ Len(logs'[s]) = Len(logs[s]) + 1 /\ DOMAIN logs'[s] = 1..Len(logs[s]) + 1
      /\ \A n \in 1..Len(logs[s]) : logs'[s][n] = logs[s][n]
      /\ logs'[s][Len(logs[s]) + 1] = e
      /\ logs'[s] # <<>>
  BY <1>2, StoredLog
<1>5. /\ \A p \in Requests, t \in DOMAIN logs : t # s \/ e.by # Run(p, s) => SameOwn(p, t)
      /\ OneMore(q, s, e, Len(logs[s]) + 1)
  BY <1>2, StoredOwn
<1>6. OnlyHere(q, s)
  <2>1. \A p \in Requests : p # q => e.by # Run(p, s)
    BY <1>2 DEF Run
  <2> QED
    BY <1>4, <1>5, <2>1 DEF OnlyHere
<1>7. StoreTypes'
  BY <1>1, <1>4 DEF StoreTypes
<1>8. RecordsOK'
  <2>1. /\ \A t \in DOMAIN logs : \A n \in DOMAIN logs[t] : EntryOK(logs[t][n])
        /\ \A n \in DOMAIN told : told[n].child \in Children
    BY <1>1 DEF RecordsOK
  <2>2. ASSUME NEW t \in DOMAIN logs', NEW n \in DOMAIN logs'[t], NEW d, d = logs'[t][n]
        PROVE  EntryOK(d)
    <3>1. CASE t # s
      BY <1>4, <2>1, <2>2, <3>1
    <3>2. CASE t = s /\ n = Len(logs[s]) + 1
      BY <1>2, <1>4, <2>2, <3>2
    <3>3. CASE t = s /\ n # Len(logs[s]) + 1
      <4> DEFINE L == Len(logs[s])
      <4>1. L \in Nat /\ DOMAIN logs'[s] = 1..L + 1 /\ s \in DOMAIN logs
        BY <1>2, <1>4
      <4> HIDE DEF L
      <4>2. n \in 1..L
        BY <3>3, <4>1 DEF L
      <4>3. n \in 1..Len(logs[s]) /\ s \in DOMAIN logs
        BY <4>1, <4>2 DEF L
      <4>4. n \in DOMAIN logs[s] /\ d = logs[s][n]
        BY <1>4, <2>2, <3>3, <4>3
      <4> QED
        BY <2>1, <4>3, <4>4
    <3> QED
      BY <3>1, <3>2, <3>3
  <2>3. \A t \in DOMAIN logs' : \A n \in DOMAIN logs'[t] : EntryOK(logs[t][n])'
    BY <2>2 DEF EntryOK, Children
  <2> QED
    BY <2>1, <2>3 DEF RecordsOK, Children
<1>9. NotBegunYet'
  <2> SUFFICES ASSUME NEW p \in Requests, stack'[p] = <<>>, NEW t \in DOMAIN logs'
               PROVE  Own(p, t)' = {}
    BY DEF NotBegunYet
  <2>1. stack[p] = <<>> /\ p # q
    BY DEF StacksGoOn
  <2>2. SameOwn(p, t)
    BY <1>4, <1>6, <2>1 DEF OnlyHere
  <2> QED
    BY <1>1, <1>4, <2>1, <2>2 DEF NotBegunYet, SameOwn
<1>10. Running(s)
  BY DEF Running, Sess
<1>11. ToldOnce'
  <2> SUFFICES ASSUME NEW c \in Children
               PROVE  IF Running(c)' THEN EventsOf(c)' = {}
                      ELSE \/ \E i \in DOMAIN told : EventsOf(c)' = {i}
                           \/ inMongo /\ EventsOf(c)' = {} /\ logs'[c] = <<>>
    BY DEF ToldOnce, Children
  <2>1. EventsOf(c)' = EventsOf(c) /\ (Running(c)' <=> Running(c)) /\ c \in DOMAIN logs
    BY <1>1 DEF EventsOf, StacksGoOn, Children, StoreTypes
  <2>2. ~Running(c) => logs'[c] = logs[c]
    BY <1>4, <1>10, <2>1
  <2> QED
    BY <1>1, <2>1, <2>2 DEF ToldOnce
<1>12. ToldTruly'
  <2> SUFFICES ASSUME NEW n \in DOMAIN told, NEW c, c = told[n].child
               PROVE  EndsWithText(c)' <=> EndsWithText(c)
    BY <1>1 DEF ToldTruly, EndsWithText
  <2>1. ~Running(c) /\ c \in DOMAIN logs
    BY ToldIsOver
  <2>2. logs'[c] = logs[c]
    BY <1>4, <1>10, <2>1
  <2> QED
    BY <2>2 DEF EndsWithText
<1>13. ReportInPlace'
  <2>1. \A t \in DOMAIN logs, p \in Requests : AllPlaced(p, t)
    BY <1>1, PlacedMeans
  <2>2. ASSUME NEW t \in DOMAIN logs, NEW p \in Requests
        PROVE  AllPlaced(p, t)'
    <3>1. CASE SameOwn(p, t)
      BY <1>1, <1>3, <2>1, <3>1, AllPlacedKept
    <3>2. CASE p = q /\ t = s
      BY <1>1, <1>2, <1>3, <1>5, <2>1, <3>2, AllPlacedAppended
    <3> QED
      BY <1>6, <3>1, <3>2 DEF OnlyHere
  <2>3. (\A t \in DOMAIN logs, p \in Requests : AllPlaced(p, t))'
    BY <1>4, <2>2
  <2> QED
    BY <2>3 DEF ReportInPlace, AllPlaced, PlaceOK, ToolReport
<1>14. EndsWithText(s)' <=> e.kind = "text"
  BY <1>4 DEF EndsWithText
<1> QED
  BY <1>3, <1>5, <1>6, <1>7, <1>8, <1>9, <1>11, <1>12, <1>13, <1>14 DEF SubtasksAccounted

\* A step that writes nothing.
LEMMA NoWriteKeeps ==
  ASSUME SubtasksInv, UNCHANGED <<sessions, logs, told, inMongo>>, StacksGoOn
  PROVE  /\ StoreTypes' /\ KeepsSessions /\ KeepsTold
         /\ \A q \in Requests, t \in Nat : SameOwn(q, t)
         /\ RecordsOK' /\ NotBegunYet' /\ SubtasksAccounted'
         /\ \A c \in Nat : EndsWithText(c)' <=> EndsWithText(c)
<1>1. /\ RecordsOK /\ StoreTypes /\ NotBegunYet /\ ToldOnce /\ ToldTruly /\ ReportInPlace
  BY TypesSplit DEF SubtasksInv, SubtasksAccounted
<1>2. KeepsSessions /\ KeepsTold /\ StoreTypes'
  BY <1>1 DEF KeepsSessions, KeepsTold, EventsOf, StoreTypes
<1>3. \A q, t : Own(q, t)' = Own(q, t)
  BY DEF Own
<1>4. RecordsOK' /\ NotBegunYet'
  BY <1>1, <1>3 DEF RecordsOK, EntryOK, Children, NotBegunYet, StacksGoOn
<1>5. \A c \in Children : (Running(c)' <=> Running(c)) /\ EventsOf(c)' = EventsOf(c)
  BY DEF StacksGoOn, EventsOf
<1>6. ToldOnce'
  <2>1. Children' = Children
    BY DEF Children
  <2> QED
    BY <1>1, <1>5, <2>1 DEF ToldOnce
<1>7. ToldTruly'
  BY <1>1 DEF ToldTruly, EndsWithText
<1>8. ReportInPlace'
  BY <1>1 DEF ReportInPlace, ReportPlaced, ResultTold, ToldOf, EventsOf, Neighbours, Own
<1>9. \A c \in Nat : EndsWithText(c)' <=> EndsWithText(c)
  BY DEF EndsWithText
<1> QED
  BY <1>2, <1>3, <1>4, <1>6, <1>7, <1>8, <1>9 DEF SameOwn, SubtasksAccounted
-----------------------------------------------------------------------------
(* The steps of one run *)

\* A run that goes on stays in its stack.
LEMMA BecomesGoesOn ==
  ASSUME SubtasksInv, NEW q \in Requests, NEW g, SameRun(q, g), TopBecomes(q, g)
  PROVE  StacksGoOn
<1>1. stack \in [Requests -> Seq(Frames)] /\ g \in Frames /\ Begun(q) /\ g.session = Top(q).session
  BY TypesSplit DEF SubtasksInv, StackTypes, SameRun
<1>2. /\ \A p \in Requests : DOMAIN stack'[p] = DOMAIN stack[p] /\ (stack'[p] = <<>> => stack[p] = <<>>)
      /\ \A p \in Requests : \A i \in DOMAIN stack[p] : stack'[p][i].session = stack[p][i].session
  BY <1>1, BecomesStack DEF Top
<1> QED
  BY <1>2 DEF StacksGoOn, Running

\* What a run added last is what it has added last.
LEMMA LastAdded ==
  ASSUME NEW q, NEW s, NEW e, NEW n, OneMore(q, s, e, n)
  PROVE  /\ ~(e.kind = "report" /\ sessions'[e.child].run # NoRun) => NoReportLast(q, s)'
         /\ e.kind \in {"call", "result"} => CallLast(q, s)'
         /\ e.kind = "report" => ReportLast(q, s, e.child)'
<1>1. /\ Own(q, s)' = Own(q, s) \cup {n} /\ n \in Nat /\ logs'[s][n] = e
      /\ \A m \in Own(q, s) : m \in Nat /\ m < n
  BY DEF OneMore
<1>2. LastOwn(q, s, n)' /\ \A m \in Own(q, s)' : LastOwn(q, s, m)' => m = n
  BY <1>1 DEF LastOwn
<1>3. e.kind \in {"call", "result"} => CallLast(q, s)'
  BY <1>1, <1>2 DEF CallLast
<1>4. ~(e.kind = "report" /\ sessions'[e.child].run # NoRun) => NoReportLast(q, s)'
  BY <1>1, <1>2 DEF NoReportLast, ToolReport
<1>5. ASSUME NEW c, c = e.child, e.kind = "report"
      PROVE  ReportLast(q, s, c)'
  BY <1>1, <1>2, <1>5 DEF ReportLast
<1> QED
  BY <1>3, <1>4, <1>5

\* The innermost run of a request.
LEMMA InTop ==
  ASSUME SubtasksInv, NEW q \in Requests, Begun(q), NEW L, L = Len(stack[q])
  PROVE  /\ L \in DOMAIN stack[q] /\ L >= 1 /\ L \in Nat
         /\ Top(q) = stack[q][L] /\ Sess(q, L) = Top(q).session
         /\ Top(q) \in Frames /\ FrameOK(Top(q)) /\ ViaOK(Top(q)) /\ OwnOK(q, L)
         /\ ~Reporting(q, L)
         /\ Top(q).session # 0 => Top(q).session \in DOMAIN logs
         /\ L > 1 => TextOK(q, L) /\ ChildOf(q, L)
<1>1. stack[q] \in Seq(Frames) /\ stack[q] # <<>>
  BY TypesSplit DEF SubtasksInv, StackTypes, Begun
<1>2. L \in DOMAIN stack[q] /\ L >= 1 /\ L \in Nat
  BY <1>1, EmptySeq, LenProperties
<1>3. Top(q) = stack[q][L] /\ Sess(q, L) = Top(q).session /\ ~Reporting(q, L)
  BY <1>2 DEF Top, Sess, Reporting
<1> QED
  BY <1>2, <1>3, InStack

\* A run stores a message and goes on.
LEMMA StoringStep ==
  ASSUME SubtasksInv, NEW q \in Requests, NEW g, NextFrame(q, g), TopBecomes(q, g),
         UNCHANGED <<sessions, told, inMongo>>,
         NEW s, s = Top(q).session, s # 0,
         NEW e \in Entries, Stores(s, e), e.by = Run(q, s), e.kind # "report",
         EntryOK(e), FitsAfter(q, s, e),
         g.pc \in {"thinking", "texting", "creating", "answered", "failed"},
         g.pc = "creating" /\ g.via = "tool" => e.kind \in {"call", "result"},
         g.pc = "answered" => e.kind = "text",
         g.pc # "answered" /\ ~inMongo => e.kind # "text"
  PROVE  SubtasksInv'
<1> SUFFICES ASSUME NEW L, L = Len(stack[q])
             PROVE  SubtasksInv'
  OBVIOUS
<1>1. Begun(q) /\ g \in Frames /\ FrameOK(g) /\ g.session = s /\ stack \in [Requests -> Seq(Frames)]
  BY TypesSplit DEF NextFrame, SameRun, SubtasksInv, StackTypes
<1>2. L \in DOMAIN stack[q] /\ Sess(q, L) = s /\ s \in DOMAIN logs /\ L \in Nat
  BY <1>1, InTop
<1>3. StacksGoOn
  BY BecomesGoesOn DEF NextFrame
<1>4. /\ StoreTypes' /\ KeepsSessions /\ KeepsTold /\ OnlyHere(q, s)
      /\ RecordsOK' /\ NotBegunYet' /\ SubtasksAccounted'
      /\ OneMore(q, s, e, Len(logs[s]) + 1)
      /\ EndsWithText(s)' <=> e.kind = "text"
  BY <1>2, <1>3, OwnWriteKeeps DEF Writes
<1>5. SubtaskTypes'
  BY <1>1, <1>4, BecomesTypes
<1>6. stack'[q][L] = g /\ Len(stack'[q]) = L /\ Sess(q, L)' = s
  BY <1>1, BecomesStack DEF Sess
<1>7. /\ NoReportLast(q, s)' /\ (e.kind \in {"call", "result"} => CallLast(q, s)')
  BY <1>4, LastAdded
<1>8. g.pc = "creating" /\ g.via = "tool" => AwaitsChild(q, L)'
  BY <1>2, <1>6, <1>7 DEF AwaitsChild, Reporting
<1>9. OwnOK(q, L)'
  BY <1>1, <1>6, <1>7, <1>8 DEF OwnOK
<1>10. TextOK(q, L)'
  BY <1>4, <1>6 DEF TextOK
<1>11. (\A p \in Requests : StackOK(p)') /\ Apart' /\ RunsOK'
  BY <1>1, <1>4, <1>5, <1>9, <1>10, BecomesStackOK, OthersKept DEF NextFrame
<1> QED
  BY <1>4, <1>5, <1>11 DEF SubtasksInv

\* A run goes on and stores nothing.
LEMMA SilentStep ==
  ASSUME SubtasksInv, NEW q \in Requests, NEW g, NextFrame(q, g), TopBecomes(q, g),
         UNCHANGED <<sessions, logs, told, inMongo>>, Top(q).pc # "answered",
         g.pc \in {"texting", "resulting", "failed"},
         g.pc = "texting" => NoReportLast(q, g.session),
         g.pc = "resulting" => g.child = 0 /\ CallLast(q, g.session)
  PROVE  SubtasksInv'
<1> SUFFICES ASSUME NEW L, L = Len(stack[q]), NEW s, s = g.session
             PROVE  SubtasksInv'
  OBVIOUS
<1>1. /\ Begun(q) /\ g \in Frames /\ FrameOK(g) /\ s = Top(q).session
      /\ stack \in [Requests -> Seq(Frames)] /\ Top(q).pc # "reporting"
  BY TypesSplit DEF NextFrame, SameRun, SubtasksInv, StackTypes
<1>2. /\ L \in DOMAIN stack[q] /\ L \in Nat /\ s \in Nat /\ Top(q) = stack[q][L] /\ Sess(q, L) = s
      /\ L > 1 => TextOK(q, L)
  BY <1>1, InTop DEF FrameOK, Frames
<1>3. StacksGoOn
  BY BecomesGoesOn DEF NextFrame
<1>4. /\ StoreTypes' /\ KeepsSessions /\ KeepsTold
      /\ \A p \in Requests, t \in Nat : SameOwn(p, t)
      /\ RecordsOK' /\ NotBegunYet' /\ SubtasksAccounted'
      /\ EndsWithText(s)' <=> EndsWithText(s)
  BY <1>2, <1>3, NoWriteKeeps
<1>5. SubtaskTypes'
  BY <1>1, <1>4, BecomesTypes
<1>6. stack'[q][L] = g /\ Len(stack'[q]) = L /\ Sess(q, L)' = s
  BY <1>1, BecomesStack DEF Sess
<1>7. OnlyHere(q, s)
  <2>1. DOMAIN logs \subseteq Nat
    BY TypesSplit DEF SubtasksInv, StoreTypes
  <2> QED
    BY <1>4, <2>1 DEF OnlyHere
<1>8. (g.pc = "texting" => NoReportLast(q, s)') /\ (g.pc = "resulting" => CallLast(q, s)')
  BY <1>2, <1>4 DEF NoReportLast, CallLast, LastOwn, ToolReport, SameOwn
<1>9. OwnOK(q, L)'
  BY <1>1, <1>6, <1>8 DEF OwnOK, HasOutcome
<1>10. L > 1 => TextOK(q, L)'
  BY <1>1, <1>2, <1>4, <1>6 DEF TextOK
<1>11. (\A p \in Requests : StackOK(p)') /\ Apart' /\ RunsOK'
  BY <1>1, <1>4, <1>5, <1>7, <1>9, <1>10, BecomesStackOK, OthersKept DEF NextFrame
<1> QED
  BY <1>4, <1>5, <1>11 DEF SubtasksInv
\* What a run waits for tells what it added last.
LEMMA TopOwn ==
  ASSUME SubtasksInv, NEW q \in Requests, Begun(q), NEW f, f = Top(q), NEW s, s = f.session
  PROVE  /\ f.pc \in {"prompting", "thinking", "texting"} => s # 0 /\ NoReportLast(q, s)
         /\ f.pc = "creating" /\ f.via = "task" => s # 0 /\ NoReportLast(q, s)
         /\ f.pc = "creating" /\ f.via = "tool" => s # 0 /\ CallLast(q, s)
         /\ f.pc = "resulting" => s # 0 /\ HasOutcome(q, f)
<1> SUFFICES ASSUME NEW L, L = Len(stack[q])
             PROVE  /\ f.pc \in {"prompting", "thinking", "texting"} => s # 0 /\ NoReportLast(q, s)
                    /\ f.pc = "creating" /\ f.via = "task" => s # 0 /\ NoReportLast(q, s)
                    /\ f.pc = "creating" /\ f.via = "tool" => s # 0 /\ CallLast(q, s)
                    /\ f.pc = "resulting" => s # 0 /\ HasOutcome(q, f)
  OBVIOUS
<1>1. f = stack[q][L] /\ Sess(q, L) = s /\ ~Reporting(q, L) /\ ViaOK(f) /\ OwnOK(q, L)
  BY InTop
<1>2. f.pc = "prompting" => NoReportLast(q, s)
  BY <1>1 DEF OwnOK, NoReportLast
<1> QED
  BY <1>1, <1>2 DEF OwnOK, ViaOK, AwaitsChild

\* The call a run added last is no report.
LEMMA CallIsNoReport ==
  ASSUME SubtasksInv, NEW q, NEW s \in DOMAIN logs, CallLast(q, s)
  PROVE  NoReportLast(q, s)
<1>1. logs[s] \in Seq(Entries)
  BY TypesSplit DEF SubtasksInv, StoreTypes
<1>2. Own(q, s) \subseteq Nat
  BY <1>1 DEF Own
<1> QED
  BY <1>2 DEF CallLast, NoReportLast, LastOwn, ToolReport

\* SavePrompt keeps the invariant.
LEMMA SavePromptKeeps ==
  ASSUME SubtasksInv, NEW q \in Requests, SavePrompt(q) \/ SavePromptFails(q)
  PROVE  SubtasksInv'
<1> SUFFICES ASSUME NEW f, f = Top(q), NEW s, s = f.session,
                    NEW e, e = Entry(Me(q), "prompt", 0, TRUE)
             PROVE  SubtasksInv'
  OBVIOUS
<1>1. Begun(q) /\ f.pc = "prompting" /\ UNCHANGED <<sessions, told, inMongo>>
  BY DEF SavePrompt, SavePromptFails, RunAt
<1>2. f \in Frames /\ FrameOK(f) /\ ViaOK(f) /\ s # 0 /\ NoReportLast(q, s)
  BY <1>1, InTop, TopOwn
<1>3. e \in Entries /\ e.by = Run(q, s) /\ e.kind = "prompt" /\ e.child = 0
  BY <1>2 DEF Entry, Entries, Me, Run, Frames
<1>4. EntryOK(e) /\ FitsAfter(q, s, e)
  BY <1>2, <1>3 DEF EntryOK, FitsAfter
<1>5. ASSUME NEW g, TopBecomes(q, g), Stores(s, e), g.pc \in {"thinking", "texting", "creating", "failed"},
             g = [f EXCEPT !.pc = g.pc, !.via = g.via],
             g.via = IF g.pc = "creating" THEN "task" ELSE f.via
      PROVE  SubtasksInv'
  <2>1. NextFrame(q, g)
    BY <1>1, <1>2, <1>5 DEF NextFrame, SameRun, Frames, FrameOK, ViaOK
  <2> QED
    BY <1>1, <1>2, <1>3, <1>4, <1>5, <2>1, StoringStep
<1>6. CASE SavePrompt(q)
  <2>1. Stores(s, e)
    BY <1>6 DEF SavePrompt
  <2>2. CASE TopBecomes(q, [f EXCEPT !.pc = "creating", !.via = "task"])
    BY <1>2, <1>5, <2>1, <2>2 DEF Frames
  <2>3. ASSUME NEW pc \in {"thinking", "texting"}, TopBecomes(q, [f EXCEPT !.pc = pc])
        PROVE  SubtasksInv'
    BY <1>2, <1>5, <2>1, <2>3 DEF Frames
  <2> QED
    BY <1>6, <2>2, <2>3 DEF SavePrompt, Goes
<1>7. CASE SavePromptFails(q)
  <2>1. StoreFails(s, e) /\ TopBecomes(q, [f EXCEPT !.pc = "failed"])
    BY <1>7 DEF SavePromptFails, Goes
  <2>2. CASE Stores(s, e)
    BY <1>2, <1>5, <2>1, <2>2 DEF Frames
  <2>3. CASE UNCHANGED logs
    <3>1. NextFrame(q, [f EXCEPT !.pc = "failed"])
      BY <1>1, <1>2 DEF NextFrame, SameRun, Frames, FrameOK, ViaOK
    <3> QED
      BY <1>1, <1>2, <2>1, <2>3, <3>1, SilentStep DEF Frames
  <2> QED
    BY <2>1, <2>2, <2>3 DEF StoreFails
<1> QED
  BY <1>6, <1>7

\* RunFails keeps the invariant.
LEMMA RunFailsKeeps ==
  ASSUME SubtasksInv, NEW q \in Requests, RunFails(q)
  PROVE  SubtasksInv'
<1> SUFFICES ASSUME NEW f, f = Top(q), NEW g, g = [f EXCEPT !.pc = "failed"]
             PROVE  SubtasksInv'
  OBVIOUS
<1>1. /\ Begun(q) /\ f.pc \in {"thinking", "texting"} /\ TopBecomes(q, g)
      /\ UNCHANGED <<sessions, logs, told, inMongo>>
  BY DEF RunFails, RunAt, Goes
<1>2. f \in Frames /\ FrameOK(f) /\ ViaOK(f)
  BY <1>1, InTop
<1>3. NextFrame(q, g) /\ g.pc = "failed"
  BY <1>1, <1>2 DEF NextFrame, SameRun, Frames, FrameOK, ViaOK
<1> QED
  BY <1>1, <1>3, SilentStep

\* AsksForTools keeps the invariant.
LEMMA AsksForToolsKeeps ==
  ASSUME SubtasksInv, NEW q \in Requests, AsksForTools(q)
  PROVE  SubtasksInv'
<1> SUFFICES ASSUME NEW f, f = Top(q), NEW s, s = f.session,
                    NEW e, e = Entry(Me(q), "call", 0, TRUE)
             PROVE  SubtasksInv'
  OBVIOUS
<1>1. /\ Begun(q) /\ f.pc = "thinking" /\ f.loops < MaxLoops /\ Stores(s, e)
      /\ UNCHANGED <<sessions, told, inMongo>>
  BY DEF AsksForTools, RunAt
<1>2. PICK n \in 1..MaxCalls :
        TopBecomes(q, [f EXCEPT !.pc = "creating", !.via = "tool", !.left = n, !.loops = @ + 1])
  BY DEF AsksForTools
<1> SUFFICES ASSUME NEW g, g = [f EXCEPT !.pc = "creating", !.via = "tool", !.left = n, !.loops = @ + 1]
             PROVE  SubtasksInv'
  OBVIOUS
<1>3. f \in Frames /\ FrameOK(f) /\ ViaOK(f) /\ s # 0 /\ NoReportLast(q, s)
  BY <1>1, InTop, TopOwn
<1>4. e \in Entries /\ e.by = Run(q, s) /\ e.kind = "call" /\ e.child = 0
  BY <1>3 DEF Entry, Entries, Me, Run, Frames
<1>5. EntryOK(e) /\ FitsAfter(q, s, e)
  BY <1>3, <1>4 DEF EntryOK, FitsAfter
<1>6. g \in Frames /\ g.pc = "creating" /\ g.session = f.session /\ g.via = "tool" /\ g.left = n
  <2>1. n \in Nat /\ f.loops + 1 \in Nat
    BY <1>3, SubtasksAssumption DEF Frames
  <2> QED
    BY <1>3, <2>1 DEF Frames
<1>7. FrameOK(g)
  <2>1. f.loops + 1 \in 0..MaxLoops /\ n \in 0..MaxCalls
    BY <1>1, <1>3, SubtasksAssumption DEF FrameOK
  <2> QED
    BY <1>3, <2>1 DEF FrameOK, Frames
<1>8. NextFrame(q, g)
  BY <1>1, <1>3, <1>6, <1>7 DEF NextFrame, SameRun, ViaOK
<1> QED
  BY <1>1, <1>2, <1>3, <1>4, <1>5, <1>6, <1>8, StoringStep

\* SaveText keeps the invariant.
LEMMA SaveTextKeeps ==
  ASSUME SubtasksInv, NEW q \in Requests, SaveText(q) \/ SaveTextFails(q)
  PROVE  SubtasksInv'
<1> SUFFICES ASSUME NEW f, f = Top(q), NEW s, s = f.session
             PROVE  SubtasksInv'
  OBVIOUS
<1>1. Begun(q) /\ f.pc \in {"thinking", "texting"} /\ UNCHANGED <<sessions, told, inMongo>>
  BY DEF SaveText, SaveTextFails, RunAt
<1>2. f \in Frames /\ FrameOK(f) /\ ViaOK(f) /\ s # 0 /\ NoReportLast(q, s)
  BY <1>1, InTop, TopOwn
<1>3. ASSUME NEW kind \in {"call", "text"}, NEW e, e = Entry(Me(q), kind, 0, TRUE),
             NEW g, NEW pc \in {"answered", "failed"}, g = [f EXCEPT !.pc = pc],
             TopBecomes(q, g), Stores(s, e),
             pc = "answered" => kind = "text", pc = "failed" => inMongo
      PROVE  SubtasksInv'
  <2>1. e \in Entries /\ e.by = Run(q, s) /\ e.kind = kind /\ e.child = 0
    BY <1>2, <1>3 DEF Entry, Entries, Me, Run, Frames
  <2>2. EntryOK(e) /\ FitsAfter(q, s, e)
    BY <1>2, <2>1 DEF EntryOK, FitsAfter
  <2>3. NextFrame(q, g) /\ g.pc = pc
    BY <1>1, <1>2, <1>3 DEF NextFrame, SameRun, Frames, FrameOK, ViaOK
  <2> QED
    BY <1>1, <1>2, <1>3, <2>1, <2>2, <2>3, StoringStep
<1>4. CASE SaveText(q)
  BY <1>3, <1>4 DEF SaveText, Goes
<1>5. CASE SaveTextFails(q)
  <2>1. PICK kind \in {"call", "text"} : StoreFails(s, Entry(Me(q), kind, 0, TRUE))
    BY <1>5 DEF SaveTextFails
  <2>2. TopBecomes(q, [f EXCEPT !.pc = "failed"]) /\ inMongo
    BY <1>5, <2>1 DEF SaveTextFails, Goes, StoreFails
  <2>3. CASE Stores(s, Entry(Me(q), kind, 0, TRUE))
    BY <1>3, <2>2, <2>3
  <2>4. CASE UNCHANGED logs
    <3>1. NextFrame(q, [f EXCEPT !.pc = "failed"])
      BY <1>1, <1>2 DEF NextFrame, SameRun, Frames, FrameOK, ViaOK
    <3> QED
      BY <1>1, <1>2, <2>2, <2>4, <3>1, SilentStep DEF Frames
  <2> QED
    BY <2>1, <2>3, <2>4 DEF StoreFails
<1> QED
  BY <1>4, <1>5

\* OtherTool keeps the invariant.
LEMMA OtherToolKeeps ==
  ASSUME SubtasksInv, NEW q \in Requests, OtherTool(q)
  PROVE  SubtasksInv'
<1> SUFFICES ASSUME NEW f, f = Top(q)
             PROVE  SubtasksInv'
  OBVIOUS
<1>1. /\ Begun(q) /\ f.pc = "creating" /\ f.via = "tool"
      /\ UNCHANGED <<sessions, logs, told, inMongo>>
  BY DEF OtherTool, RunAt
<1>2. PICK ok \in BOOLEAN : TopBecomes(q, [f EXCEPT !.pc = "resulting", !.child = 0, !.ok = ok])
  BY DEF OtherTool
<1> SUFFICES ASSUME NEW g, g = [f EXCEPT !.pc = "resulting", !.child = 0, !.ok = ok]
             PROVE  SubtasksInv'
  OBVIOUS
<1>3. f \in Frames /\ FrameOK(f) /\ ViaOK(f) /\ CallLast(q, f.session)
  BY <1>1, InTop, TopOwn
<1>4. NextFrame(q, g) /\ g.pc = "resulting" /\ g.child = 0 /\ g.session = f.session
  <2>1. 0 \in 0..Len(sessions)
    BY TypesSplit DEF SubtasksInv, StoreTypes
  <2> QED
    BY <1>1, <1>3, <2>1 DEF NextFrame, SameRun, Frames, FrameOK, ViaOK
<1> QED
  BY <1>1, <1>2, <1>3, <1>4, SilentStep

\* SaveResult keeps the invariant.
LEMMA SaveResultKeeps ==
  ASSUME SubtasksInv, NEW q \in Requests, SaveResult(q) \/ SaveResultFails(q)
  PROVE  SubtasksInv'
<1> SUFFICES ASSUME NEW f, f = Top(q), NEW s, s = f.session,
                    NEW e, e = Entry(Me(q), "result", f.child, f.ok)
             PROVE  SubtasksInv'
  OBVIOUS
<1>1. Begun(q) /\ f.pc = "resulting" /\ UNCHANGED <<sessions, told, inMongo>>
  BY DEF SaveResult, SaveResultFails, RunAt
<1>2. f \in Frames /\ FrameOK(f) /\ ViaOK(f) /\ s # 0 /\ HasOutcome(q, f) /\ s \in DOMAIN logs
  BY <1>1, InTop, TopOwn
<1>3. e \in Entries /\ e.by = Run(q, s) /\ e.kind = "result" /\ e.child = f.child /\ e.ok = f.ok
  BY <1>2 DEF Entry, Entries, Me, Run, Frames
<1>4. EntryOK(e)
  BY <1>2, <1>3 DEF EntryOK, HasOutcome
<1>5. FitsAfter(q, s, e)
  BY <1>2, <1>3, CallIsNoReport DEF FitsAfter, HasOutcome
<1>6. CASE SaveResult(q)
  <2> SUFFICES ASSUME NEW g, g = AfterResult(f)
               PROVE  SubtasksInv'
    OBVIOUS
  <2>1. Stores(s, e) /\ TopBecomes(q, g)
    BY <1>6 DEF SaveResult
  <2>2. f.left >= 1 /\ f.left \in 0..MaxCalls /\ f.via = "tool"
    BY <1>1, <1>2 DEF ViaOK, FrameOK
  <2>3. /\ g \in Frames /\ g.session = f.session /\ g.via = "tool" /\ g.left = f.left - 1
        /\ g.child = 0 /\ g.loops = f.loops /\ g.ok = TRUE
        /\ g.pc = IF f.left > 1 THEN "creating" ELSE "thinking"
    <3>1. f.left - 1 \in Nat
      BY <2>2, SubtasksAssumption
    <3> QED
      BY <1>2, <2>2, <3>1 DEF AfterResult, Frames
  <2>4. 0 \in 0..Len(sessions) /\ f.left - 1 \in 0..MaxCalls
    BY <2>2, TypesSplit, SubtasksAssumption DEF SubtasksInv, StoreTypes
  <2>5. FrameOK(g)
    BY <1>2, <2>3, <2>4 DEF FrameOK
  <2>6. ViaOK(g)
    <3>1. g.pc = "creating" => g.left >= 1
      BY <2>2, <2>3, SubtasksAssumption
    <3> QED
      BY <1>2, <2>2, <2>3, <3>1 DEF ViaOK
  <2>7. NextFrame(q, g)
    BY <1>1, <2>2, <2>3, <2>5, <2>6 DEF NextFrame, SameRun
  <2> QED
    BY <1>1, <1>2, <1>3, <1>4, <1>5, <2>1, <2>3, <2>7, StoringStep
<1>7. CASE SaveResultFails(q)
  <2> SUFFICES ASSUME NEW g, g = [f EXCEPT !.pc = "failed"]
               PROVE  SubtasksInv'
    OBVIOUS
  <2>1. TopBecomes(q, g) /\ inMongo /\ (UNCHANGED logs \/ Stores(s, e))
    BY <1>7 DEF SaveResultFails, Goes, StoreFails
  <2>2. NextFrame(q, g) /\ g.pc = "failed"
    BY <1>1, <1>2 DEF NextFrame, SameRun, Frames, FrameOK, ViaOK
  <2>3. CASE Stores(s, e)
    BY <1>1, <1>2, <1>3, <1>4, <1>5, <2>1, <2>2, <2>3, StoringStep
  <2>4. CASE UNCHANGED logs
    BY <1>1, <2>1, <2>2, <2>4, SilentStep
  <2> QED
    BY <2>1, <2>3, <2>4
<1> QED
  BY <1>6, <1>7
-----------------------------------------------------------------------------
(* A request begins *)

\* The first run of a request, in no session or in the one the clients talk in.
LEMMA RequestKeeps ==
  ASSUME SubtasksInv, NEW q \in Requests, Chat(q) \/ PostSubtask(q)
  PROVE  SubtasksInv'
<1>1. stack[q] = <<>> /\ UNCHANGED <<sessions, logs, told, inMongo>>
  BY DEF Chat, PostSubtask, Begun
<1>2. PICK g \in {Frame(1, "prompting", "none"), Frame(0, "creating", "http"), Frame(1, "creating", "http")} :
        stack' = [stack EXCEPT ![q] = <<g>>]
  BY DEF Chat, PostSubtask
<1> SUFFICES ASSUME NEW s, s = g.session
             PROVE  SubtasksInv'
  OBVIOUS
<1>3. /\ SubtaskTypes /\ RecordsOK /\ StoreTypes /\ StackTypes /\ Apart /\ NotBegunYet
      /\ \A p \in Requests : StackOK(p)
  BY TypesSplit DEF SubtasksInv
<1>4. /\ g \in Frames /\ s \in {0, 1} /\ FrameOK(g) /\ ViaOK(g)
      /\ \/ g.pc = "prompting" /\ s = 1
         \/ g.pc = "creating" /\ g.via = "http"
  <2>1. {0, 1} \subseteq 0..Len(sessions)
    BY <1>3 DEF StoreTypes
  <2>2. /\ s \in {0, 1} /\ g = Frame(s, g.pc, g.via)
        /\ \/ g.pc = "prompting" /\ g.via = "none" /\ s = 1
           \/ g.pc = "creating" /\ g.via = "http"
    BY <1>2 DEF Frame
  <2>3. g \in Frames /\ ViaOK(g)
    <3>1. \A t \in Nat : /\ Frame(t, "prompting", "none") \in Frames
                         /\ Frame(t, "creating", "http") \in Frames
      BY DEF Frame, Frames
    <3> QED
      BY <1>2, <2>2, <3>1 DEF ViaOK
  <2>4. g.child = 0 /\ g.left = 0 /\ g.loops = 0 /\ g.ok = TRUE
    BY <2>2 DEF Frame
  <2>5. FrameOK(g)
    BY <2>1, <2>2, <2>3, <2>4, SubtasksAssumption DEF FrameOK, Frames
  <2> QED
    BY <2>2, <2>3, <2>5
<1>5. /\ stack \in [Requests -> Seq(Frames)] /\ stack' \in [Requests -> Seq(Frames)]
      /\ stack'[q] = <<g>> /\ \A p \in Requests : p # q => stack'[p] = stack[p]
  BY <1>2, <1>3, <1>4 DEF StackTypes
<1>6. /\ DOMAIN stack'[q] = {1} /\ stack'[q][1] = g /\ Len(stack'[q]) = 1
      /\ Sess(q, 1)' = s /\ s \notin Children
  <2>1. DOMAIN stack'[q] = {1} /\ stack'[q][1] = g /\ Len(stack'[q]) = 1
    BY <1>5
  <2>2. s \notin Children
    BY <1>3, <1>4 DEF Children, StoreTypes
  <2> QED
    BY <1>4, <2>1, <2>2 DEF Sess
<1>7. \A p \in Requests : p # q => \A i \in DOMAIN stack[p] :
        stack'[p][i] = stack[p][i] /\ Sess(p, i)' = Sess(p, i)
  BY <1>5 DEF Sess
<1>8. StacksGoOn
  <2>1. ASSUME NEW c \in Children, NEW p \in Requests
        PROVE  /\ \A i \in DOMAIN stack'[p] : stack'[p][i].session = c => i \in DOMAIN stack[p] /\ stack[p][i].session = c
               /\ \A i \in DOMAIN stack[p] : stack[p][i].session = c => i \in DOMAIN stack'[p] /\ stack'[p][i].session = c
    <3>1. CASE p = q
      <4>1. DOMAIN stack[q] = {} /\ stack'[q][1].session # c
        BY <1>1, <1>6 DEF Sess
      <4> QED
        BY <1>6, <3>1, <4>1
    <3>2. CASE p # q
      BY <1>5, <3>2
    <3> QED
      BY <3>1, <3>2
  <2>2. \A p \in Requests : stack'[p] = <<>> => stack[p] = <<>>
    BY <1>1, <1>5
  <2> QED
    BY <2>1, <2>2 DEF StacksGoOn, Running
<1>9. /\ StoreTypes' /\ KeepsSessions /\ KeepsTold
      /\ \A p \in Requests, t \in Nat : SameOwn(p, t)
      /\ RecordsOK' /\ NotBegunYet' /\ SubtasksAccounted'
      /\ \A c \in Nat : EndsWithText(c)' <=> EndsWithText(c)
  BY <1>1, <1>8, NoWriteKeeps
<1>10. StackTypes'
  <2>1. ASSUME NEW p \in Requests, NEW i \in DOMAIN stack'[p]
        PROVE  FrameOK(stack[p][i])' /\ (i > 1 => WaitsOn(p, i)')
    <3>1. CASE p = q
      BY <1>1, <1>4, <1>6, <2>1, <3>1 DEF FrameOK
    <3>2. CASE p # q
      <4>1. stack'[p] = stack[p] /\ FrameOK(stack[p][i]) /\ (i > 1 => WaitsOn(p, i))
        BY <1>3, <1>5, <2>1, <3>2 DEF StackTypes
      <4> QED
        BY <1>1, <4>1 DEF FrameOK, WaitsOn, Sess
    <3> QED
      BY <3>1, <3>2
  <2> QED
    BY <1>5, <2>1, Zenon DEF StackTypes
<1>11. \A p \in Requests : StackOK(p)'
  <2> SUFFICES ASSUME NEW p \in Requests, NEW i \in DOMAIN stack'[p], NEW f, f = stack'[p][i]
               PROVE  /\ ViaOK(f)
                      /\ i = 1 => Sess(p, i)' \in {0, 1} /\ f.pc # "reporting"
                      /\ i > 1 => ChildOf(p, i)'
    BY DEF StackOK, ViaOK
  <2>1. CASE p = q
    BY <1>4, <1>6, <2>1
  <2>2. CASE p # q
    <3>1. /\ stack'[p] = stack[p] /\ ViaOK(f) /\ (i > 1 => ChildOf(p, i))
          /\ i = 1 => Sess(p, i) \in {0, 1} /\ f.pc # "reporting"
      BY <1>3, <1>5, <2>2 DEF StackOK
    <3> QED
      BY <1>1, <3>1 DEF ChildOf, Sess, Children
  <2> QED
    BY <2>1, <2>2
<1>12. Apart'
  <2> SUFFICES ASSUME NEW o \in Requests, NEW p \in Requests,
                      NEW i \in DOMAIN stack'[o], NEW j \in DOMAIN stack'[p],
                      Sess(o, i)' = Sess(p, j)', Sess(o, i)' \in Children
               PROVE  o = p /\ i = j
    BY <1>1 DEF Apart, Children
  <2>1. o # q /\ p # q
    BY <1>6
  <2>2. /\ i \in DOMAIN stack[o] /\ j \in DOMAIN stack[p]
        /\ Sess(o, i) = Sess(o, i)' /\ Sess(p, j) = Sess(p, j)'
    BY <1>5, <1>7, <2>1
  <2> QED
    BY <1>3, <2>2 DEF Apart
<1>13. RunsOK'
  <2>1. ASSUME NEW p \in Requests, p # q, NEW i \in DOMAIN stack'[p]
        PROVE  OwnOK(p, i)' /\ (i > 1 => TextOK(p, i)')
    <3>1. stack'[p] = stack[p] /\ i \in DOMAIN stack[p]
      BY <1>5, <2>1
    <3>2. ViaOK(stack[p][i]) /\ OwnOK(p, i) /\ (i > 1 => TextOK(p, i)) /\ Sess(p, i) \in Nat
      BY <3>1, InStack DEF Sess, Frames
    <3>3. (Reporting(p, i)' <=> Reporting(p, i)) /\ Sess(p, i + 1)' = Sess(p, i + 1) /\ Sess(p, i)' = Sess(p, i)
      BY <3>1 DEF Reporting, Sess
    <3>4. OwnOK(p, i)'
      BY <1>1, <1>3, <1>9, <3>1, <3>2, <3>3, RunKept
    <3>5. i > 1 => TextOK(p, i)'
      BY <1>1, <1>9, <3>1, <3>2, <3>3 DEF TextOK
    <3> QED
      BY <3>4, <3>5
  <2>2. OwnOK(q, 1)'
    <3>1. s # 0 => Own(q, s)' = {}
      <4>1. s # 0 => s \in DOMAIN logs
        BY <1>3, <1>4 DEF StoreTypes
      <4> QED
        BY <1>1, <1>3, <4>1 DEF NotBegunYet, Own
    <3> QED
      BY <1>2, <1>4, <1>6, <3>1 DEF OwnOK, NoReportLast
  <2>3. \A p \in Requests : \A i \in DOMAIN stack'[p] : OwnOK(p, i)' /\ (i > 1 => TextOK(p, i)')
    BY <1>6, <2>1, <2>2
  <2> QED
    BY <2>3 DEF RunsOK
<1>14. SubtaskTypes'
  BY <1>9, <1>10, TypesSplit, PTL
<1> QED
  BY <1>9, <1>11, <1>12, <1>13, <1>14 DEF SubtasksInv
-----------------------------------------------------------------------------
(* A subtask begins *)

\* The run that starts a subtask is stored with it.
LEMMA ChildRecord ==
  ASSUME SubtasksInv, NEW q \in Requests, Begun(q)
  PROVE  /\ Child(q) \in [parent : Nat, run : (Requests \X Nat) \cup {NoRun}]
         /\ Child(q).parent = Top(q).session /\ Child(q).parent \in 0..Len(sessions)
         /\ Child(q).run = IF Top(q).via = "tool" THEN Run(q, Top(q).session) ELSE NoRun
<1>1. Top(q) \in Frames /\ FrameOK(Top(q))
  BY InTop
<1>2. Top(q).session \in Nat /\ Top(q).session \in 0..Len(sessions)
  BY <1>1 DEF Frames, FrameOK
<1> QED
  BY <1>2 DEF Child, Me, Run

\* A session that is stored is empty, and every other record is as it was.
LEMMA NewChildSession ==
  ASSUME SubtasksInv, NEW q \in Requests, Begun(q), Len(sessions) < SessionBound,
         sessions' = Append(sessions, Child(q)), logs' = Append(logs, <<>>),
         UNCHANGED <<told, inMongo>>, StacksGoOn,
         NEW c, c = Len(sessions) + 1, Running(c)' \/ inMongo
  PROVE  /\ StoreTypes' /\ KeepsSessions /\ KeepsTold
         /\ \A p \in Requests, t \in DOMAIN logs : SameOwn(p, t)
         /\ \A t \in DOMAIN logs : logs'[t] = logs[t]
         /\ RecordsOK' /\ NotBegunYet' /\ SubtasksAccounted'
         /\ sessions'[c] = Child(q) /\ logs'[c] = <<>> /\ c \in Children' /\ c \notin Children
         /\ c \notin DOMAIN logs /\ c \in Nat /\ Children' = Children \cup {c}
         /\ \A p : Own(p, c)' = {}
<1>1. /\ SubtaskTypes /\ RecordsOK /\ StoreTypes /\ NotBegunYet
      /\ ToldOnce /\ ToldTruly /\ ReportInPlace
  BY TypesSplit DEF SubtasksInv, SubtasksAccounted
<1>2. /\ Len(sessions) \in Nat /\ Len(sessions) >= 1 /\ Len(sessions)' = c /\ c \in Nat
      /\ DOMAIN sessions = 1..c - 1 /\ DOMAIN logs = 1..c - 1
      /\ DOMAIN sessions' = 1..c /\ DOMAIN logs' = 1..c /\ Len(logs)' = c
      /\ \A t \in 1..c - 1 : sessions'[t] = sessions[t] /\ logs'[t] = logs[t]
      /\ sessions'[c] = Child(q) /\ logs'[c] = <<>>
      /\ sessions' \in Seq([parent : Nat, run : (Requests \X Nat) \cup {NoRun}])
      /\ logs' \in Seq(Seq(Entries)) /\ c \notin 1..c - 1
  <2>1. <<>> \in Seq(Entries)
    OBVIOUS
  <2> QED
    BY <1>1, <2>1, ChildRecord, AppendProperties DEF StoreTypes
<1>3. Children = 2..c - 1 /\ Children' = 2..c
  BY <1>2 DEF Children
<1>4. /\ Children' = Children \cup {c} /\ c \notin Children /\ c \in Children'
      /\ 1..c = (1..c - 1) \cup {c} /\ Children \subseteq 1..c - 1
  <2>1. c >= 2 /\ c \in Nat
    BY <1>2
  <2>2. 2..c = (2..c - 1) \cup {c} /\ 1..c = (1..c - 1) \cup {c}
    BY <2>1
  <2>3. c \notin 2..c - 1 /\ 2..c - 1 \subseteq 1..c - 1
    BY <2>1
  <2> QED
    BY <1>3, <2>2, <2>3
<1>5. KeepsSessions /\ KeepsTold
  BY <1>1, <1>2 DEF KeepsSessions, KeepsTold, EventsOf, StoreTypes
<1>6. StoreTypes'
  <2>1. \A d \in 2..Len(sessions)' : sessions'[d].parent \in 0..d - 1
    <3> SUFFICES ASSUME NEW d \in Children'
                 PROVE  sessions'[d].parent \in 0..d - 1
      BY <1>2, <1>3
    <3>1. CASE d \in Children
      BY <1>1, <1>2, <1>4, <3>1 DEF StoreTypes, Children
    <3>2. CASE d = c
      BY <1>2, <3>2, ChildRecord
    <3> QED
      BY <1>4, <3>1, <3>2
  <2>2. c >= 1 /\ c <= SessionBound
    BY <1>2, SubtasksAssumption
  <2> QED
    BY <1>1, <1>2, <2>1, <2>2 DEF StoreTypes
<1>7. \A p : Own(p, c)' = {} /\ \A t \in DOMAIN logs : SameOwn(p, t)
  BY <1>2, <1>4 DEF Own, SameOwn
<1>8. RecordsOK'
  <2>1. \A e : EntryOK(e) => EntryOK(e)'
    BY <1>4 DEF EntryOK
  <2>2. \A t \in DOMAIN logs' : \A n \in DOMAIN logs'[t] : EntryOK(logs'[t][n])
    BY <1>1, <1>2, <1>4 DEF RecordsOK
  <2>3. ASSUME NEW t \in DOMAIN logs', NEW n \in DOMAIN logs'[t]
        PROVE  EntryOK(logs[t][n])'
    BY <1>4, <2>2 DEF EntryOK
  <2>4. \A n \in DOMAIN told' : told'[n].child \in Children'
    BY <1>1, <1>4 DEF RecordsOK
  <2> QED
    BY <2>3, <2>4, Zenon DEF RecordsOK
<1>9. NotBegunYet'
  <2> SUFFICES ASSUME NEW p \in Requests, stack'[p] = <<>>, NEW t \in DOMAIN logs'
               PROVE  Own(p, t)' = {}
    BY DEF NotBegunYet
  <2>1. CASE t = c
    BY <1>7, <2>1
  <2>2. CASE t # c
    <3>1. t \in DOMAIN logs
      BY <1>2, <1>4, <2>2
    <3>2. stack[p] = <<>>
      BY <1>1, <1>2 DEF StacksGoOn
    <3>3. Own(p, t) = {}
      BY <1>1, <3>1, <3>2 DEF NotBegunYet
    <3> QED
      BY <1>7, <3>1, <3>3 DEF SameOwn
  <2> QED
    BY <2>1, <2>2
<1>10. ToldOnce'
  <2> SUFFICES ASSUME NEW d \in Children'
               PROVE  IF Running(d)' THEN EventsOf(d)' = {}
                      ELSE \/ \E i \in DOMAIN told' : EventsOf(d)' = {i}
                           \/ inMongo' /\ EventsOf(d)' = {} /\ logs'[d] = <<>>
    BY DEF ToldOnce
  <2>1. EventsOf(d)' = EventsOf(d)
    BY DEF EventsOf
  <2>2. CASE d \in Children
    BY <1>1, <1>2, <1>4, <2>1, <2>2 DEF ToldOnce, StacksGoOn
  <2>3. CASE d = c
    <3>1. EventsOf(c) = {}
      BY <1>1, <1>4 DEF EventsOf, RecordsOK
    <3> QED
      BY <1>2, <2>1, <2>3, <3>1
  <2> QED
    BY <1>4, <2>2, <2>3
<1>11. ToldTruly'
  <2> SUFFICES ASSUME NEW n \in DOMAIN told, NEW d, d = told[n].child
               PROVE  EndsWithText(d)' <=> EndsWithText(d)
    BY <1>1 DEF ToldTruly, EndsWithText
  <2>1. logs'[d] = logs[d]
    BY <1>2, ToldIsOver
  <2> QED
    BY <2>1 DEF EndsWithText
<1>12. ReportInPlace'
  <2>1. \A t \in DOMAIN logs, p \in Requests : AllPlaced(p, t)
    BY <1>1, PlacedMeans
  <2>2. ASSUME NEW t \in DOMAIN logs', NEW p \in Requests
        PROVE  AllPlaced(p, t)'
    <3>1. CASE t = c
      BY <1>7, <3>1 DEF AllPlaced
    <3>2. CASE t \in DOMAIN logs
      BY <1>1, <1>5, <1>7, <2>1, <3>2, AllPlacedKept
    <3> QED
      BY <1>2, <1>4, <3>1, <3>2
  <2>3. (\A t \in DOMAIN logs, p \in Requests : AllPlaced(p, t))'
    BY <2>2
  <2> QED
    BY <2>3 DEF ReportInPlace, AllPlaced, PlaceOK, ToolReport
<1> QED
  BY <1>2, <1>4, <1>5, <1>6, <1>7, <1>8, <1>9, <1>10, <1>11, <1>12 DEF SubtasksAccounted
\* What a caller makes of an outcome.
LEMMA ResumedFrame ==
  ASSUME NEW f \in Frames, NEW c \in Nat, NEW ok \in BOOLEAN, NEW g, g = Resumed(f, c, ok)
  PROVE  /\ g \in Frames /\ g.session = f.session /\ g.via = f.via
         /\ g.left = f.left /\ g.loops = f.loops
         /\ f.via = "tool" => g.pc = "resulting" /\ g.child = c /\ g.ok = ok
         /\ f.via = "task" => g.pc = "texting" /\ g.child = f.child
         /\ f.via \notin {"tool", "task"} => g.pc \in {"answered", "failed"} /\ g.child = f.child
         /\ f.via \notin {"tool", "task"} /\ ~ok => g.pc = "failed"
<1>1. CASE f.via = "tool"
  <2>1. g = [f EXCEPT !.pc = "resulting", !.child = c, !.ok = ok]
    BY <1>1 DEF Resumed
  <2> QED
    BY <1>1, <2>1 DEF Frames
<1>2. CASE f.via = "task"
  <2>1. g = [f EXCEPT !.pc = "texting"]
    BY <1>2 DEF Resumed
  <2> QED
    BY <1>2, <2>1 DEF Frames
<1>3. CASE f.via \notin {"tool", "task"}
  <2>1. g = [f EXCEPT !.pc = IF ok THEN "answered" ELSE "failed"]
    BY <1>3 DEF Resumed
  <2> QED
    BY <1>3, <2>1 DEF Frames
<1> QED
  BY <1>1, <1>2, <1>3

\* It goes on, with a text or with a result.
LEMMA ResumedOK ==
  ASSUME SubtasksInv, NEW f \in Frames, FrameOK(f), ViaOK(f), f.pc = "creating",
         NEW c \in 0..Len(sessions), NEW ok \in BOOLEAN, NEW g, g = Resumed(f, c, ok)
  PROVE  FrameOK(g) /\ ViaOK(g)
<1>1. c \in Nat
  BY TypesSplit DEF SubtasksInv, StoreTypes
<1>2. /\ g \in Frames /\ g.session = f.session /\ g.via = f.via
      /\ g.left = f.left /\ g.loops = f.loops
      /\ f.via = "tool" => g.pc = "resulting" /\ g.child = c
      /\ f.via = "task" => g.pc = "texting" /\ g.child = f.child
      /\ f.via \notin {"tool", "task"} => g.pc \in {"answered", "failed"} /\ g.child = f.child
  BY <1>1, ResumedFrame
<1>3. FrameOK(g)
  BY <1>2 DEF FrameOK, Frames
<1>4. ViaOK(g)
  BY <1>2 DEF ViaOK
<1> QED
  BY <1>3, <1>4

\* What a caller makes of an outcome that is no subtask's.
LEMMA ResumedTop ==
  ASSUME SubtasksInv, NEW q \in Requests, RunAt(q, "creating"),
         NEW f, f = Top(q), NEW ok \in BOOLEAN, ~ok, NEW g, g = Resumed(f, 0, ok),
         NEW s, s = f.session
  PROVE  /\ NextFrame(q, g) /\ g.pc \in {"texting", "resulting", "failed"}
         /\ g.pc = "texting" => s # 0 /\ NoReportLast(q, s)
         /\ g.pc = "resulting" => s # 0 /\ g.child = 0 /\ CallLast(q, s)
<1>1. Begun(q) /\ f.pc = "creating"
  BY DEF RunAt
<1>2. f \in Frames /\ FrameOK(f) /\ ViaOK(f) /\ 0 \in 0..Len(sessions)
  <2>1. 0 \in 0..Len(sessions)
    BY TypesSplit DEF SubtasksInv, StoreTypes
  <2> QED
    BY <1>1, <2>1, InTop
<1>3. /\ g \in Frames /\ g.session = f.session /\ g.via = f.via
      /\ f.via = "tool" => g.pc = "resulting" /\ g.child = 0
      /\ f.via = "task" => g.pc = "texting"
      /\ f.via \notin {"tool", "task"} => g.pc = "failed"
  BY <1>2, ResumedFrame
<1>4. NextFrame(q, g)
  BY <1>1, <1>2, <1>3, ResumedOK DEF NextFrame, SameRun
<1> QED
  BY <1>1, <1>3, <1>4, TopOwn

\* CreateFails keeps the invariant.
LEMMA CreateFailsKeeps ==
  ASSUME SubtasksInv, NEW q \in Requests, CreateFails(q)
  PROVE  SubtasksInv'
<1> SUFFICES ASSUME NEW f, f = Top(q), NEW ok \in BOOLEAN, ok = FALSE, NEW g, g = Resumed(f, 0, ok),
                    NEW s, s = f.session, NEW L, L = Len(stack[q])
             PROVE  SubtasksInv'
  OBVIOUS
<1>1. /\ RunAt(q, "creating") /\ Begun(q) /\ f.pc = "creating" /\ inMongo /\ TopBecomes(q, g)
      /\ UNCHANGED <<told, inMongo>>
  BY DEF CreateFails, RunAt
<1>2. /\ NextFrame(q, g) /\ g.pc \in {"texting", "resulting", "failed"} /\ g.session = s
      /\ g.pc = "texting" => s # 0 /\ NoReportLast(q, s)
      /\ g.pc = "resulting" => s # 0 /\ g.child = 0 /\ CallLast(q, s)
  BY <1>1, ResumedTop DEF NextFrame, SameRun
<1>3. CASE UNCHANGED <<sessions, logs>>
  BY <1>1, <1>2, <1>3, SilentStep
<1>4. CASE /\ Len(sessions) < SessionBound
           /\ sessions' = Append(sessions, Child(q))
           /\ logs' = Append(logs, <<>>)
  <2>1. g \in Frames /\ FrameOK(g) /\ g.session = Top(q).session /\ SameRun(q, g)
    BY <1>2 DEF NextFrame, SameRun
  <2>2. StacksGoOn
    BY <1>1, <2>1, BecomesGoesOn
  <2>3. /\ StoreTypes' /\ KeepsSessions /\ KeepsTold
        /\ \A p \in Requests, t \in DOMAIN logs : SameOwn(p, t)
        /\ \A t \in DOMAIN logs : logs'[t] = logs[t]
        /\ RecordsOK' /\ NotBegunYet' /\ SubtasksAccounted'
    BY <1>1, <1>4, <2>2, NewChildSession
  <2>4. SubtaskTypes'
    BY <1>1, <2>1, <2>3, BecomesTypes
  <2>5. OnlyHere(q, s)
    BY <2>3 DEF OnlyHere
  <2>6. stack'[q][L] = g /\ Sess(q, L)' = s
    BY <1>1, <1>2, <2>1, BecomesStack, TypesSplit DEF Sess, SubtasksInv, StackTypes
  <2>7. s # 0 => s \in DOMAIN logs
    BY <1>1, InTop
  <2>8. (g.pc = "texting" => NoReportLast(q, s)') /\ (g.pc = "resulting" => CallLast(q, s)')
    BY <1>2, <2>3, <2>7, NoReportLastKept, PlacesKept DEF SubtasksInv
  <2>9. OwnOK(q, L)'
    BY <1>2, <2>6, <2>8 DEF OwnOK, HasOutcome
  <2>10. L > 1 => TextOK(q, L)'
    BY <1>1, <1>2, <2>6 DEF TextOK
  <2>11. (\A p \in Requests : StackOK(p)') /\ Apart' /\ RunsOK'
    BY <1>1, <1>2, <2>1, <2>3, <2>4, <2>5, <2>9, <2>10, BecomesStackOK, OthersKept
  <2> QED
    BY <2>3, <2>4, <2>11 DEF SubtasksInv
<1> QED
  BY <1>3, <1>4 DEF CreateFails

\* CreateChild keeps the invariant.
LEMMA CreateChildKeeps ==
  ASSUME SubtasksInv, NEW q \in Requests, CreateChild(q)
  PROVE  SubtasksInv'
<1> SUFFICES ASSUME NEW f, f = Top(q), NEW c, c = Len(sessions) + 1,
                    NEW L, L = Len(stack[q]), NEW g, g = Frame(c, "prompting", "none")
             PROVE  SubtasksInv'
  OBVIOUS
<1>1. /\ Begun(q) /\ f.pc = "creating" /\ UNCHANGED <<told, inMongo>>
      /\ Len(sessions) < SessionBound /\ sessions' = Append(sessions, Child(q))
      /\ logs' = Append(logs, <<>>) /\ stack' = [stack EXCEPT ![q] = Append(@, g)]
  BY DEF CreateChild, RunAt
<1>2. /\ SubtaskTypes /\ RecordsOK /\ StoreTypes /\ StackTypes /\ Apart
      /\ stack \in [Requests -> Seq(Frames)] /\ c \in Nat /\ c >= 2
  BY TypesSplit DEF SubtasksInv, StackTypes, StoreTypes
<1>3. /\ g \in Frames /\ g.session = c /\ g.pc = "prompting" /\ g.via = "none"
      /\ g.child = 0 /\ g.left = 0 /\ g.loops = 0 /\ g.ok = TRUE
  BY <1>2 DEF Frame, Frames
<1>4. /\ L \in DOMAIN stack[q] /\ L >= 1 /\ L \in Nat /\ f = stack[q][L]
      /\ FrameOK(f) /\ ViaOK(f) /\ Sess(q, L) = f.session /\ f.session \in Nat
  BY <1>1, InTop DEF Frames
<1>5. /\ stack' \in [Requests -> Seq(Frames)]
      /\ \A p \in Requests : p # q => stack'[p] = stack[p]
      /\ DOMAIN stack[q] = 1..L /\ Len(stack'[q]) = L + 1 /\ DOMAIN stack'[q] = 1..L + 1
      /\ \A i \in 1..L : stack'[q][i] = stack[q][i]
      /\ stack'[q][L + 1] = g
  <2>1. stack[q] \in Seq(Frames)
    BY <1>2
  <2>2. Append(stack[q], g) \in Seq(Frames) /\ stack'[q] = Append(stack[q], g)
    BY <1>1, <1>2, <1>3, <2>1, AppendProperties
  <2>3. stack' \in [Requests -> Seq(Frames)] /\ \A p \in Requests : p # q => stack'[p] = stack[p]
    BY <1>1, <1>2, <2>2
  <2> QED
    BY <1>3, <2>1, <2>2, <2>3, AppendProperties
<1>6. /\ \A p \in Requests : \A i \in DOMAIN stack[p] :
           i \in DOMAIN stack'[p] /\ stack'[p][i] = stack[p][i] /\ Sess(p, i)' = Sess(p, i)
      /\ \A p \in Requests : \A i \in DOMAIN stack'[p] : i \in DOMAIN stack[p] \/ (p = q /\ i = L + 1)
      /\ L + 1 \in DOMAIN stack'[q] /\ Sess(q, L + 1)' = c /\ L + 1 \notin DOMAIN stack[q]
      /\ (L + 1) - 1 = L
  <2>1. 1..L + 1 = (1..L) \cup {L + 1} /\ L + 1 \notin 1..L /\ (L + 1) - 1 = L
    BY <1>4
  <2> QED
    BY <1>3, <1>5, <2>1 DEF Sess
<1>7. c \notin Children
  BY <1>2 DEF Children
<1>8. StacksGoOn
  <2>1. \A d \in Children : Running(d)' <=> Running(d)
    BY <1>3, <1>5, <1>6, <1>7 DEF Running
  <2>2. \A p \in Requests : stack'[p] = <<>> => stack[p] = <<>>
    BY <1>4, <1>5
  <2> QED
    BY <2>1, <2>2 DEF StacksGoOn
<1>9. Running(c)'
  BY <1>6 DEF Running, Sess
<1>10. /\ StoreTypes' /\ KeepsSessions /\ KeepsTold
       /\ \A p \in Requests, t \in DOMAIN logs : SameOwn(p, t)
       /\ \A t \in DOMAIN logs : logs'[t] = logs[t]
       /\ RecordsOK' /\ NotBegunYet' /\ SubtasksAccounted'
       /\ sessions'[c] = Child(q) /\ logs'[c] = <<>> /\ c \in Children'
       /\ Children' = Children \cup {c} /\ Own(q, c)' = {}
  BY <1>1, <1>8, <1>9, NewChildSession
<1>11. /\ \A d \in 1..Len(sessions) : sessions'[d] = sessions[d]
       /\ \A h \in Frames : FrameOK(h) => FrameOK(h)'
       /\ Len(sessions)' = c /\ Children \subseteq 1..Len(sessions)
       /\ \A p \in Requests : \A i \in DOMAIN stack[p] : Sess(p, i) # c
  <2>1. Len(sessions)' = c /\ Children \subseteq 1..Len(sessions) /\ c \notin 0..Len(sessions)
    BY <1>1, <1>2 DEF StoreTypes, Children
  <2> QED
    BY <1>2, <1>10, <2>1, StoredChildren, InStack DEF FrameOK, Sess
<1>12. StackTypes'
  <2>1. ASSUME NEW p \in Requests, NEW i \in DOMAIN stack[p]
        PROVE  FrameOK(stack[p][i])' /\ (i > 1 => WaitsOn(p, i)')
    <3>1. FrameOK(stack[p][i])'
      <4> SUFFICES ASSUME NEW h, h = stack'[p][i]
                   PROVE  FrameOK(h)'
        BY DEF FrameOK
      <4> QED
        BY <1>6, <1>11, InStack
    <3>2. i > 1 => WaitsOn(p, i)'
      <4> SUFFICES ASSUME i > 1
                   PROVE  WaitsOn(p, i)'
        OBVIOUS
      <4>1. i - 1 \in DOMAIN stack[p] /\ ChildOf(p, i) /\ WaitsOn(p, i)
        BY InStack
      <4> QED
        BY <1>6, <1>11, <4>1 DEF WaitsOn, ChildOf
    <3> QED
      BY <3>1, <3>2
  <2>2. FrameOK(g)'
    <3>1. c \in 0..Len(sessions)' /\ 0 \in 0..Len(sessions)'
      BY <1>2, <1>11
    <3>2. 0 \in 0..MaxCalls /\ 0 \in 0..MaxLoops
      BY SubtasksAssumption
    <3> QED
      BY <1>3, <3>1, <3>2 DEF FrameOK
  <2>3. FrameOK(stack[q][L + 1])'
    BY <1>5, <2>2 DEF FrameOK
  <2>4. WaitsOn(q, L + 1)'
    <3>1. stack'[q][(L + 1) - 1].pc = "creating" /\ Sess(q, (L + 1) - 1)' = f.session
      BY <1>1, <1>4, <1>6
    <3>2. sessions'[Sess(q, L + 1)'].parent = f.session
      BY <1>1, <1>6, <1>10, ChildRecord
    <3> QED
      BY <3>1, <3>2 DEF WaitsOn
  <2>5. \A p \in Requests : \A i \in DOMAIN stack'[p] : FrameOK(stack[p][i])' /\ (i > 1 => WaitsOn(p, i)')
    BY <1>6, <2>1, <2>3, <2>4
  <2> QED
    BY <1>5, <2>5, Zenon DEF StackTypes
<1>13. SubtaskTypes'
  BY <1>10, <1>12, TypesSplit, PTL
<1>14. \A p \in Requests : StackOK(p)'
  <2> SUFFICES ASSUME NEW p \in Requests, NEW i \in DOMAIN stack'[p], NEW h, h = stack'[p][i]
               PROVE  /\ ViaOK(h)
                      /\ i = 1 => Sess(p, i)' \in {0, 1} /\ h.pc # "reporting"
                      /\ i > 1 => ChildOf(p, i)'
    BY DEF StackOK, ViaOK
  <2>1. CASE i \in DOMAIN stack[p]
    <3>1. ViaOK(h) /\ (i = 1 => Sess(p, i)' \in {0, 1} /\ h.pc # "reporting")
      BY <1>6, <2>1, InStack
    <3>2. i > 1 => ChildOf(p, i)'
      <4> SUFFICES ASSUME i > 1
                   PROVE  ChildOf(p, i)'
        OBVIOUS
      <4>1. i - 1 \in DOMAIN stack[p] /\ ChildOf(p, i)
        BY <2>1, InStack
      <4>2. /\ stack'[p][i] = stack[p][i] /\ Sess(p, i)' = Sess(p, i)
            /\ stack'[p][i - 1] = stack[p][i - 1] /\ Sess(p, i - 1)' = Sess(p, i - 1)
        BY <1>6, <2>1, <4>1
      <4>3. Sess(p, i) \in Children' /\ sessions'[Sess(p, i)] = sessions[Sess(p, i)]
        BY <1>10, <1>11, <4>1 DEF ChildOf
      <4> QED
        BY <4>1, <4>2, <4>3 DEF ChildOf
    <3> QED
      BY <3>1, <3>2
  <2>2. CASE p = q /\ i = L + 1
    <3>1. ViaOK(h)
      BY <1>2, <1>3, <1>5, <2>2 DEF ViaOK
    <3>2. ChildOf(q, L + 1)'
      <4>1. stack'[q][(L + 1) - 1].via = f.via /\ Sess(q, (L + 1) - 1)' = f.session
        BY <1>4, <1>6
      <4>2. stack'[q][L + 1].via # "http" /\ Sess(q, L + 1)' = c /\ c \in Children'
        BY <1>3, <1>5, <1>6, <1>10
      <4> QED
        BY <1>1, <1>10, <4>1, <4>2, ChildRecord DEF ChildOf
    <3> QED
      BY <1>4, <2>2, <3>1, <3>2
  <2> QED
    BY <1>6, <2>1, <2>2
<1>15. Apart'
  <2> SUFFICES ASSUME NEW o \in Requests, NEW p \in Requests,
                      NEW i \in DOMAIN stack'[o], NEW j \in DOMAIN stack'[p],
                      Sess(o, i)' = Sess(p, j)', Sess(o, i)' \in Children'
               PROVE  o = p /\ i = j
    BY DEF Apart
  <2>1. CASE i \in DOMAIN stack[o] /\ j \in DOMAIN stack[p]
    BY <1>2, <1>6, <1>10, <1>11, <2>1 DEF Apart
  <2>2. CASE i \notin DOMAIN stack[o] \/ j \notin DOMAIN stack[p]
    BY <1>6, <1>11, <2>2
  <2> QED
    BY <2>1, <2>2
<1>16. RunsOK'
  <2>1. ASSUME NEW p \in Requests, NEW i \in DOMAIN stack[p]
        PROVE  OwnOK(p, i)' /\ (i > 1 => TextOK(p, i)')
    <3>1. /\ ViaOK(stack[p][i]) /\ OwnOK(p, i) /\ (i > 1 => TextOK(p, i) /\ ChildOf(p, i))
          /\ i \in Nat /\ Len(stack[p]) \in Nat /\ i <= Len(stack[p])
          /\ i < Len(stack[p]) => i + 1 \in DOMAIN stack[p]
          /\ Sess(p, i) # 0 => Sess(p, i) \in DOMAIN logs
      BY InStack
    <3>2. (Reporting(p, i)' <=> Reporting(p, i)) /\ (Reporting(p, i) => Sess(p, i + 1)' = Sess(p, i + 1))
      <4>1. CASE i < Len(stack[p])
        <5>1. i < Len(stack'[p])
          BY <1>4, <1>5, <4>1
        <5> QED
          BY <1>6, <3>1, <4>1, <5>1 DEF Reporting
      <4>2. CASE i = Len(stack[p])
        <5>1. ~(i < Len(stack[p])) /\ (i < Len(stack'[p]) => stack'[p][i + 1].pc = "prompting")
          BY <1>3, <1>4, <1>5, <4>2, <3>1
        <5> QED
          BY <5>1 DEF Reporting
      <4> QED
        BY <3>1, <4>1, <4>2
    <3>3. OwnOK(p, i)'
      BY <1>1, <1>2, <1>6, <1>10, <3>1, <3>2, RunKept
    <3>4. i > 1 => TextOK(p, i)'
      <4> SUFFICES ASSUME i > 1, NEW d, d = Sess(p, i)
                   PROVE  TextOK(p, i)'
        OBVIOUS
      <4>1. d \in DOMAIN logs /\ TextOK(p, i)
        BY <1>2, <3>1 DEF ChildOf, Children, StoreTypes
      <4>2. EndsWithText(d)' <=> EndsWithText(d)
        BY <1>10, <4>1 DEF EndsWithText
      <4> QED
        BY <1>1, <1>6, <4>1, <4>2 DEF TextOK
    <3> QED
      BY <3>3, <3>4
  <2>2. OwnOK(q, L + 1)' /\ TextOK(q, L + 1)'
    BY <1>3, <1>5, <1>6, <1>10 DEF OwnOK, TextOK, EndsWithText
  <2>3. \A p \in Requests : \A i \in DOMAIN stack'[p] : OwnOK(p, i)' /\ (i > 1 => TextOK(p, i)')
    BY <1>6, <2>1, <2>2
  <2> QED
    BY <2>3 DEF RunsOK
<1> QED
  BY <1>10, <1>13, <1>14, <1>15, <1>16 DEF SubtasksInv
-----------------------------------------------------------------------------
(* A subtask ends *)

\* A run of a subtask and its caller.
LEMMA InChild ==
  ASSUME SubtasksInv, NEW q \in Requests, Begun(q), InSubtask(q),
         NEW L, L = Len(stack[q]), NEW f, f = Top(q), NEW h, h = Caller(q), NEW s, s = h.session
  PROVE  /\ L \in Nat /\ L >= 2 /\ L \in DOMAIN stack[q] /\ L - 1 \in DOMAIN stack[q]
         /\ f = stack[q][L] /\ h = stack[q][L - 1] /\ Sess(q, L) = f.session /\ Sess(q, L - 1) = s
         /\ f \in Frames /\ h \in Frames /\ FrameOK(f) /\ FrameOK(h) /\ ViaOK(f) /\ ViaOK(h)
         /\ h.pc = "creating" /\ Parent(q) = s /\ f.session \in Children /\ f.via # "http"
         /\ sessions[f.session].run = IF h.via = "tool" THEN Run(q, s) ELSE NoRun
         /\ f.session \in DOMAIN logs /\ (s # 0 => s \in DOMAIN logs) /\ f.session # s
         /\ TextOK(q, L) /\ OwnOK(q, L - 1) /\ (L - 1 > 1 => TextOK(q, L - 1) /\ h.via # "http")
         /\ L - 1 < Len(stack[q]) /\ (L - 1) + 1 = L
<1>1. L \in DOMAIN stack[q] /\ L >= 1 /\ L \in Nat /\ L >= 2 /\ (L - 1) + 1 = L /\ L - 1 < L
  BY InTop DEF InSubtask
<1>2. L - 1 \in DOMAIN stack[q] /\ ChildOf(q, L) /\ WaitsOn(q, L) /\ TextOK(q, L)
  BY <1>1, InStack
<1>3. /\ f = stack[q][L] /\ h = stack[q][L - 1] /\ Sess(q, L) = f.session /\ Sess(q, L - 1) = s
      /\ f \in Frames /\ h \in Frames /\ FrameOK(f) /\ FrameOK(h) /\ ViaOK(f) /\ ViaOK(h)
      /\ OwnOK(q, L - 1) /\ (L - 1 > 1 => TextOK(q, L - 1) /\ h.via # "http")
      /\ s # 0 => s \in DOMAIN logs
  BY <1>1, <1>2, InStack DEF Top, Caller, Sess, ChildOf
<1>4. /\ h.pc = "creating" /\ Parent(q) = s /\ f.session \in Children /\ f.via # "http"
      /\ sessions[f.session].run = IF h.via = "tool" THEN Run(q, s) ELSE NoRun
  BY <1>2, <1>3 DEF WaitsOn, ChildOf, Parent
<1>5. f.session # 0 /\ f.session \in DOMAIN logs
  <2>1. f.session \in 2..Len(sessions)
    BY <1>4 DEF Children
  <2>2. Len(logs) = Len(sessions) /\ DOMAIN logs = 1..Len(logs) /\ Len(sessions) \in Nat
    BY TypesSplit, LenProperties DEF SubtasksInv, StoreTypes
  <2> QED
    BY <2>1, <2>2
<1>6. f.session # s
  BY <1>1, <1>2, <1>3, <1>5, OtherSession
<1> QED
  BY <1>1, <1>2, <1>3, <1>4, <1>5, <1>6

\* A report fits the log of the caller, and its place is after the call.
LEMMA ReportFits ==
  ASSUME SubtasksInv, NEW q \in Requests, RunAt(q, "answered"), InSubtask(q),
         NEW s, s = Caller(q).session, s # 0, NEW c, c = Top(q).session,
         NEW e \in Entries, e.kind = "report", e.child = c
  PROVE  /\ EntryOK(e) /\ FitsAfter(q, s, e)
         /\ Caller(q).via = "tool" => CallLast(q, s)
         /\ Caller(q).via # "tool" => sessions[c].run = NoRun /\ NoReportLast(q, s)
<1> SUFFICES ASSUME NEW L, L = Len(stack[q]), NEW h, h = Caller(q)
             PROVE  /\ EntryOK(e) /\ FitsAfter(q, s, e)
                    /\ h.via = "tool" => CallLast(q, s)
                    /\ h.via # "tool" => sessions[c].run = NoRun /\ NoReportLast(q, s)
  OBVIOUS
<1>1. Begun(q) /\ Top(q).pc = "answered"
  BY DEF RunAt
<1>2. /\ h = stack[q][L - 1] /\ Sess(q, L - 1) = s /\ h.pc = "creating" /\ c \in Children
      /\ s \in Nat /\ c \in Nat /\ s \in DOMAIN logs /\ OwnOK(q, L - 1) /\ Top(q) = stack[q][L]
      /\ sessions[c].run = IF h.via = "tool" THEN Run(q, s) ELSE NoRun
      /\ (L - 1) + 1 = L
  <2>1. /\ h = stack[q][L - 1] /\ Sess(q, L - 1) = s /\ h.pc = "creating" /\ c \in Children
        /\ s \in DOMAIN logs /\ OwnOK(q, L - 1) /\ Top(q) = stack[q][L]
        /\ sessions[c].run = IF h.via = "tool" THEN Run(q, s) ELSE NoRun
        /\ (L - 1) + 1 = L /\ h \in Frames /\ Top(q) \in Frames
    BY <1>1, InChild
  <2> QED
    BY <2>1 DEF Frames
<1>3. EntryOK(e)
  BY <1>2 DEF EntryOK
<1>4. ~Reporting(q, L - 1)
  BY <1>1, <1>2 DEF Reporting
<1>5. h.via = "tool" => CallLast(q, s)
  BY <1>2, <1>4 DEF OwnOK, AwaitsChild
<1>6. h.via # "tool" => sessions[c].run = NoRun /\ NoReportLast(q, s)
  BY <1>2 DEF OwnOK
<1>7. NoReportLast(q, s)
  BY <1>2, <1>5, <1>6, CallIsNoReport
<1>8. FitsAfter(q, s, e)
  BY <1>3, <1>5, <1>6, <1>7 DEF FitsAfter
<1> QED
  BY <1>3, <1>5, <1>6, <1>8

\* What the report leaves: it stands last in the caller's log, or the store
\* failed.
ReportLeft(q, s, c) ==
  \/ UNCHANGED logs /\ (s = 0 \/ inMongo)
  \/ s # 0 /\ \E e, n : OneMore(q, s, e, n) /\ e.kind = "report" /\ e.child = c

\* Report keeps the records.
LEMMA ReportRecords ==
  ASSUME SubtasksInv, NEW q \in Requests, Report(q),
         NEW s, s = Caller(q).session, NEW c, c = Top(q).session
  PROVE  /\ StoreTypes' /\ KeepsSessions /\ KeepsTold /\ OnlyHere(q, s)
         /\ RecordsOK' /\ NotBegunYet' /\ SubtasksAccounted' /\ ReportLeft(q, s, c)
         /\ s # 0 /\ ~inMongo => ~EndsWithText(s)'
<1> SUFFICES ASSUME NEW g, g = [Top(q) EXCEPT !.pc = "reporting"],
                    NEW e, e = Entry(Run(q, s), "report", c, TRUE), NEW L, L = Len(stack[q])
             PROVE  /\ StoreTypes' /\ KeepsSessions /\ KeepsTold /\ OnlyHere(q, s)
                    /\ RecordsOK' /\ NotBegunYet' /\ SubtasksAccounted' /\ ReportLeft(q, s, c)
                    /\ s # 0 /\ ~inMongo => ~EndsWithText(s)'
  OBVIOUS
<1>1. /\ Begun(q) /\ RunAt(q, "answered") /\ InSubtask(q) /\ TopBecomes(q, g)
      /\ UNCHANGED <<sessions, told, inMongo>>
  BY DEF Report, RunAt, Goes
<1>2. /\ L - 1 \in DOMAIN stack[q] /\ Sess(q, L - 1) = s /\ Parent(q) = s
      /\ Top(q) \in Frames /\ FrameOK(Top(q)) /\ ViaOK(Top(q)) /\ Top(q).via # "http"
      /\ s # 0 => s \in DOMAIN logs
      /\ Top(q).session \in Children
  BY <1>1, InChild
<1>3. SameRun(q, g)
  BY <1>1, <1>2, TypesSplit DEF SameRun, Frames, FrameOK, ViaOK, Children, SubtasksInv, StoreTypes
<1>4. StacksGoOn
  BY <1>1, <1>3, BecomesGoesOn
<1>5. CASE UNCHANGED logs /\ (s = 0 \/ inMongo)
  <2>1. /\ StoreTypes' /\ KeepsSessions /\ KeepsTold
        /\ \A p \in Requests, t \in Nat : SameOwn(p, t)
        /\ RecordsOK' /\ NotBegunYet' /\ SubtasksAccounted'
    BY <1>1, <1>4, <1>5, NoWriteKeeps
  <2>2. DOMAIN logs \subseteq Nat
    BY TypesSplit DEF SubtasksInv, StoreTypes
  <2> QED
    BY <1>5, <2>1, <2>2 DEF OnlyHere, ReportLeft
<1>6. CASE s # 0 /\ Stores(s, e)
  <2>1. /\ e \in Entries /\ e.by = Run(q, s) /\ e.kind = "report" /\ e.child = c
        /\ EntryOK(e) /\ FitsAfter(q, s, e)
    <3>1. s \in Nat /\ c \in Nat
      BY <1>1, <1>2, InChild DEF Frames
    <3>2. e \in Entries /\ e.by = Run(q, s) /\ e.kind = "report" /\ e.child = c
      BY <3>1 DEF Entry, Entries, Run
    <3> QED
      BY <1>1, <1>6, <3>2, ReportFits
  <2>2. Writes(q, s, e)
    BY <1>2, <1>6, <2>1 DEF Writes
  <2>3. /\ StoreTypes' /\ KeepsSessions /\ KeepsTold /\ OnlyHere(q, s)
        /\ RecordsOK' /\ NotBegunYet' /\ SubtasksAccounted'
        /\ OneMore(q, s, e, Len(logs[s]) + 1)
        /\ EndsWithText(s)' <=> e.kind = "text"
    BY <1>1, <1>2, <1>4, <2>2, OwnWriteKeeps
  <2> QED
    BY <1>6, <2>1, <2>3 DEF ReportLeft
<1> QED
  BY <1>2, <1>5, <1>6 DEF Report, StoreFails
\* Report keeps the invariant.
LEMMA ReportKeeps ==
  ASSUME SubtasksInv, NEW q \in Requests, Report(q)
  PROVE  SubtasksInv'
<1> SUFFICES ASSUME NEW f, f = Top(q), NEW g, g = [f EXCEPT !.pc = "reporting"],
                    NEW h, h = Caller(q), NEW s, s = h.session, NEW c, c = f.session,
                    NEW L, L = Len(stack[q])
             PROVE  SubtasksInv'
  OBVIOUS
<1>1. /\ Begun(q) /\ f.pc = "answered" /\ InSubtask(q) /\ TopBecomes(q, g)
      /\ UNCHANGED <<sessions, told, inMongo>>
  BY DEF Report, RunAt, Goes
<1>2. /\ L \in Nat /\ L >= 2 /\ L \in DOMAIN stack[q] /\ L - 1 \in DOMAIN stack[q]
      /\ f = stack[q][L] /\ h = stack[q][L - 1] /\ Sess(q, L) = c /\ Sess(q, L - 1) = s
      /\ f \in Frames /\ h \in Frames /\ FrameOK(f) /\ ViaOK(f) /\ ViaOK(h)
      /\ h.pc = "creating" /\ c \in Children /\ f.via # "http"
      /\ c \in DOMAIN logs /\ (s # 0 => s \in DOMAIN logs) /\ c # s
      /\ TextOK(q, L) /\ OwnOK(q, L - 1) /\ (L - 1 > 1 => TextOK(q, L - 1) /\ h.via # "http")
      /\ (L - 1) + 1 = L
  BY <1>1, InChild
<1>3. g \in Frames /\ g.session = c /\ g.via = f.via /\ g.pc = "reporting" /\ FrameOK(g) /\ ViaOK(g)
  BY <1>2, TypesSplit DEF Frames, FrameOK, ViaOK, Children, SubtasksInv, StoreTypes
<1>4. SameRun(q, g)
  BY <1>1, <1>2, <1>3 DEF SameRun
<1>5. /\ StoreTypes' /\ KeepsSessions /\ KeepsTold /\ OnlyHere(q, s)
      /\ RecordsOK' /\ NotBegunYet' /\ SubtasksAccounted' /\ ReportLeft(q, s, c)
      /\ s # 0 /\ ~inMongo => ~EndsWithText(s)'
  BY <1>1, <1>2, ReportRecords
<1>6. SubtaskTypes'
  BY <1>1, <1>3, <1>5, BecomesTypes
<1>7. (\A p \in Requests : StackOK(p)') /\ Apart'
  BY <1>1, <1>4, <1>5, <1>6, BecomesStackOK
<1>8. /\ SubtaskTypes /\ RecordsOK /\ StoreTypes /\ Apart /\ stack \in [Requests -> Seq(Frames)]
  BY TypesSplit DEF SubtasksInv, StackTypes
<1>9. /\ \A p \in Requests : p # q => stack'[p] = stack[p]
      /\ DOMAIN stack[q] = 1..L /\ Len(stack'[q]) = L /\ DOMAIN stack'[q] = 1..L
      /\ \A i \in 1..L : i # L => stack'[q][i] = stack[q][i]
      /\ stack'[q][L] = g
  BY <1>1, <1>3, <1>8, BecomesStack
<1>10. \A p \in Requests : \A i \in DOMAIN stack[p] : Sess(p, i)' = Sess(p, i)
  BY <1>2, <1>3, <1>9 DEF Sess
<1>11. ASSUME NEW p \in Requests, NEW i \in DOMAIN stack[p], ~(p = q /\ i \in {L, L - 1})
       PROVE  OwnOK(p, i)' /\ (i > 1 => TextOK(p, i)')
  <2>1. /\ stack'[p][i] = stack[p][i] /\ Sess(p, i)' = Sess(p, i)
        /\ p = q => i + 1 # L /\ i + 1 \in DOMAIN stack[q] /\ stack'[p][i + 1] = stack[p][i + 1]
        /\ p = q => Sess(p, i + 1)' = Sess(p, i + 1)
        /\ p # q => Sess(p, i + 1)' = Sess(p, i + 1)
    <3>1. p = q => i \in 1..L /\ i + 1 \in 1..L /\ i + 1 # L
      BY <1>2, <1>9, <1>11
    <3> QED
      BY <1>2, <1>9, <1>10, <1>11, <3>1 DEF Sess
  <2>2. ViaOK(stack[p][i]) /\ OwnOK(p, i) /\ (i > 1 => TextOK(p, i) /\ ChildOf(p, i))
    BY InStack
  <2>3. Sess(p, i) # 0 => SameOwn(p, Sess(p, i))
    <3> SUFFICES ASSUME Sess(p, i) # 0
                 PROVE  SameOwn(p, Sess(p, i))
      OBVIOUS
    <3>1. Sess(p, i) \in DOMAIN logs
      BY InStack
    <3>2. p # q \/ Sess(p, i) # s
      BY <1>2, <1>11, OtherSession
    <3> QED
      BY <1>5, <3>1, <3>2 DEF OnlyHere
  <2>4. Reporting(p, i)' <=> Reporting(p, i)
    BY <1>9, <2>1 DEF Reporting
  <2>5. OwnOK(p, i)'
    BY <1>1, <1>5, <1>8, <2>1, <2>2, <2>3, <2>4, RunKept
  <2>6. i > 1 => TextOK(p, i)'
    <3> SUFFICES ASSUME i > 1, NEW d, d = Sess(p, i)
                 PROVE  TextOK(p, i)'
      OBVIOUS
    <3>1. d \in Children /\ d \in DOMAIN logs
      BY <1>8, <2>2 DEF ChildOf, Children, StoreTypes
    <3>2. d # s
      BY <1>2, <1>8, <1>11, <3>1 DEF Apart
    <3>3. EndsWithText(d)' <=> EndsWithText(d)
      BY <1>5, <3>1, <3>2 DEF OnlyHere, EndsWithText
    <3> QED
      BY <1>1, <2>1, <2>2, <3>3 DEF TextOK
  <2> QED
    BY <2>5, <2>6
<1>12. stack'[q][L - 1] = h /\ Sess(q, L - 1)' = s /\ Sess(q, L)' = c /\ Len(stack'[q]) = L /\ L - 1 < L
  <2>1. L - 1 \in 1..L /\ L - 1 # L /\ L - 1 < L
    BY <1>2
  <2> QED
    BY <1>2, <1>3, <1>9, <2>1 DEF Sess
<1>13. Reporting(q, L - 1)' /\ ~Reporting(q, L - 1)
  BY <1>1, <1>2, <1>3, <1>9, <1>12 DEF Reporting
<1>14. h.via = "tool" => AwaitsChild(q, L - 1)'
  <2> SUFFICES ASSUME h.via = "tool"
               PROVE  ReportLast(q, s, c)' \/ (inMongo' /\ CallLast(q, s)')
    BY <1>2, <1>12, <1>13 DEF AwaitsChild
  <2>1. CallLast(q, s) /\ s # 0
    BY <1>2, <1>13 DEF OwnOK, AwaitsChild, ViaOK
  <2>2. CASE UNCHANGED logs /\ inMongo
    BY <1>1, <2>1, <2>2 DEF CallLast, LastOwn, Own
  <2>3. CASE \E e, n : OneMore(q, s, e, n) /\ e.kind = "report" /\ e.child = c
    BY <2>3, LastAdded
  <2> QED
    BY <1>5, <2>1, <2>2, <2>3 DEF ReportLeft
<1>15. h.via # "tool" /\ s # 0 => NoReportLast(q, s)'
  <2> SUFFICES ASSUME h.via # "tool", s # 0
               PROVE  NoReportLast(q, s)'
    OBVIOUS
  <2>1. NoReportLast(q, s) /\ sessions[c].run = NoRun
    <3>1. sessions[c].run = NoRun
      BY <1>1, <1>2, InChild
    <3> QED
      BY <1>2, <3>1 DEF OwnOK
  <2>2. CASE UNCHANGED logs
    BY <1>1, <2>1, <2>2 DEF NoReportLast, ToolReport, LastOwn, Own
  <2>3. CASE \E e, n : OneMore(q, s, e, n) /\ e.kind = "report" /\ e.child = c
    BY <1>1, <2>1, <2>3, LastAdded
  <2> QED
    BY <1>5, <2>2, <2>3 DEF ReportLeft
<1>16. OwnOK(q, L - 1)'
  BY <1>2, <1>12, <1>14, <1>15 DEF OwnOK
<1>17. L - 1 > 1 => TextOK(q, L - 1)'
  BY <1>1, <1>2, <1>5, <1>12 DEF TextOK, ViaOK
<1>18. OwnOK(q, L)' /\ TextOK(q, L)'
  <2>1. EndsWithText(c)
    BY <1>1, <1>2 DEF TextOK
  <2>2. EndsWithText(c)'
    BY <1>2, <1>5, <2>1 DEF OnlyHere, EndsWithText
  <2> QED
    BY <1>3, <1>9, <1>12, <2>2 DEF OwnOK, TextOK
<1>19. RunsOK'
  <2>1. \A p \in Requests : DOMAIN stack'[p] = DOMAIN stack[p]
    BY <1>9
  <2>2. \A p \in Requests : \A i \in DOMAIN stack'[p] : OwnOK(p, i)' /\ (i > 1 => TextOK(p, i)')
    BY <1>11, <1>16, <1>17, <1>18, <2>1
  <2> QED
    BY <2>2 DEF RunsOK
<1> QED
  BY <1>5, <1>6, <1>7, <1>19 DEF SubtasksInv
\* What the caller makes of the outcome of a subtask.
Outcome(q, g, c, status) ==
  /\ g \in Frames /\ g.session = Caller(q).session /\ g.via = Caller(q).via
  /\ FrameOK(g) /\ ViaOK(g)
  /\ g.pc \in {"resulting", "texting", "answered", "failed"}
  /\ g.via = "tool" => g.pc = "resulting" /\ g.child = c /\ (g.ok <=> status = "subtask_completed")
  /\ g.via = "task" => g.pc = "texting"
  /\ g.via \notin {"tool", "task"} => g.pc \in {"answered", "failed"}

RunEnded(f, status) ==
  \/ status = "subtask_completed" /\ f.pc = "reporting"
  \/ status = "tool_failed" /\ f.pc = "failed"

ToldAndGone(q, g, status) ==
  /\ told' = Append(told, Event(q, status))
  /\ stack' = [stack EXCEPT ![q] = Append(SubSeq(@, 1, Len(@) - 2), g)]

\* What the clients are told.
LEMMA EventRecord ==
  ASSUME SubtasksInv, NEW q \in Requests, Begun(q), InSubtask(q),
         NEW status \in {"subtask_completed", "tool_failed"}, NEW e, e = Event(q, status)
  PROVE  e \in Tellings /\ e.child = Top(q).session /\ e.status = status
<1> DEFINE Runs == (Requests \X Nat) \cup {NoRun}
           Records == [parent : Nat, run : Runs]
<1> SUFFICES ASSUME NEW f, f = Top(q), NEW h, h = Caller(q), NEW s, s = h.session,
                    NEW c, c = f.session, NEW L, L = Len(stack[q])
             PROVE  e \in Tellings /\ e.child = c /\ e.status = status
  OBVIOUS
<1>1. c \in Children /\ Parent(q) = s /\ h \in Frames
  BY InChild
<1>2. Parent(q) \in Nat /\ c \in Nat /\ sessions \in Seq(Records) /\ c \in DOMAIN sessions
  <2>1. Parent(q) \in Nat
    BY <1>1 DEF Frames
  <2>2. sessions \in Seq(Records)
    BY TypesSplit DEF SubtasksInv, StoreTypes
  <2>3. c \in Nat /\ c \in DOMAIN sessions
    BY <1>1, <2>2 DEF Children
  <2> QED
    BY <2>1, <2>2, <2>3
<1>3. sessions[c] \in Records
  <2> HIDE DEF Records
  <2> QED
    BY <1>2
<1>4. sessions[c].run \in Runs
  <2> HIDE DEF Runs
  <2> QED
    BY <1>3
<1> QED
  BY <1>2, <1>4 DEF Event, Tellings, Runs

\* A subtask returns to its caller, and the clients are told.
LEMMA ReturnKeeps ==
  ASSUME SubtasksInv, NEW q \in Requests, Begun(q), InSubtask(q), NEW f, f = Top(q),
         NEW status, RunEnded(f, status), NEW g, Outcome(q, g, f.session, status),
         ToldAndGone(q, g, status), UNCHANGED <<sessions, logs, inMongo>>
  PROVE  SubtasksInv'
<1> SUFFICES ASSUME NEW h, h = Caller(q), NEW s, s = h.session, NEW c, c = f.session,
                    NEW L, L = Len(stack[q]), NEW N, N = Len(told) + 1
             PROVE  SubtasksInv'
  OBVIOUS
<1>1. /\ L \in Nat /\ L >= 2 /\ L \in DOMAIN stack[q] /\ L - 1 \in DOMAIN stack[q]
      /\ f = stack[q][L] /\ h = stack[q][L - 1] /\ Sess(q, L) = c /\ Sess(q, L - 1) = s
      /\ f \in Frames /\ h \in Frames /\ FrameOK(f) /\ FrameOK(h) /\ ViaOK(f) /\ ViaOK(h)
      /\ h.pc = "creating" /\ c \in Children /\ Parent(q) = s
      /\ c \in DOMAIN logs /\ (s # 0 => s \in DOMAIN logs) /\ c # s
      /\ TextOK(q, L) /\ OwnOK(q, L - 1) /\ (L - 1 > 1 => TextOK(q, L - 1) /\ h.via # "http")
      /\ (L - 1) + 1 = L /\ L - 1 < Len(stack[q]) /\ f.pc \in {"reporting", "failed"}
  <2>1. /\ L \in Nat /\ L >= 2 /\ L \in DOMAIN stack[q] /\ L - 1 \in DOMAIN stack[q]
        /\ f = stack[q][L] /\ h = stack[q][L - 1] /\ Sess(q, L) = c /\ Sess(q, L - 1) = s
    BY InChild
  <2>2. f \in Frames /\ h \in Frames /\ FrameOK(f) /\ FrameOK(h) /\ ViaOK(f) /\ ViaOK(h)
    BY InChild
  <2>3. /\ h.pc = "creating" /\ c \in Children /\ Parent(q) = s
        /\ c \in DOMAIN logs /\ (s # 0 => s \in DOMAIN logs) /\ c # s
    BY InChild
  <2>4. TextOK(q, L) /\ OwnOK(q, L - 1) /\ (L - 1 > 1 => TextOK(q, L - 1) /\ h.via # "http")
    BY InChild
  <2>5. (L - 1) + 1 = L /\ L - 1 < Len(stack[q])
    BY <2>1
  <2> QED
    BY <2>1, <2>2, <2>3, <2>4, <2>5 DEF RunEnded
<1>2. /\ SubtaskTypes /\ RecordsOK /\ StoreTypes /\ StackTypes /\ Apart /\ stack \in [Requests -> Seq(Frames)]
      /\ NotBegunYet /\ ToldOnce /\ ToldTruly /\ ReportInPlace
      /\ \A p \in Requests : StackOK(p)
  BY TypesSplit DEF SubtasksInv, StackTypes, SubtasksAccounted
<1>3. c \in Nat /\ c # 0 /\ c \in 0..Len(sessions)
  BY <1>1, <1>2 DEF FrameOK, Frames, Children, StoreTypes
<1>4. /\ g \in Frames /\ g.session = s /\ g.via = h.via /\ FrameOK(g) /\ ViaOK(g)
      /\ g.pc \in {"resulting", "texting", "answered", "failed"}
      /\ h.via = "tool" => g.pc = "resulting" /\ g.child = c /\ (g.ok <=> status = "subtask_completed")
      /\ h.via = "task" => g.pc = "texting"
      /\ h.via \notin {"tool", "task"} => g.pc \in {"answered", "failed"}
  <2>1. h.via = g.via
    BY DEF Outcome
  <2>2. /\ g \in Frames /\ g.session = s /\ FrameOK(g) /\ ViaOK(g)
        /\ g.pc \in {"resulting", "texting", "answered", "failed"}
    BY DEF Outcome
  <2>3. g.via = "tool" => g.pc = "resulting" /\ g.child = c /\ (g.ok <=> status = "subtask_completed")
    BY DEF Outcome
  <2>4. /\ g.via = "task" => g.pc = "texting"
        /\ g.via \notin {"tool", "task"} => g.pc \in {"answered", "failed"}
    BY DEF Outcome
  <2> QED
    BY <2>1, <2>2, <2>3, <2>4
<1>5. /\ stack' \in [Requests -> Seq(Frames)]
      /\ \A p \in Requests : p # q => stack'[p] = stack[p]
      /\ DOMAIN stack[q] = 1..L /\ Len(stack'[q]) = L - 1 /\ DOMAIN stack'[q] = 1..L - 1
      /\ \A i \in 1..L - 2 : stack'[q][i] = stack[q][i]
      /\ stack'[q][L - 1] = g
  <2>1. stack[q] \in Seq(Frames) /\ L - 2 \in Nat /\ 1 <= L - 1 /\ L - 2 <= Len(stack[q])
    BY <1>1, <1>2
  <2> DEFINE b == SubSeq(stack[q], 1, L - 2)
  <2>2. b \in Seq(Frames) /\ Len(b) = L - 2 /\ \A i \in 1..L - 2 : b[i] = stack[q][i]
    BY <2>1, SubSeqProperties
  <2>3. /\ Append(b, g) \in Seq(Frames) /\ Len(Append(b, g)) = L - 1
        /\ \A i \in 1..L - 2 : Append(b, g)[i] = b[i]
        /\ Append(b, g)[L - 1] = g
    <3> HIDE DEF b
    <3> QED
      BY <1>1, <1>4, <2>1, <2>2, AppendProperties
  <2>4. /\ stack'[q] = Append(b, g) /\ stack' \in [Requests -> Seq(Frames)]
        /\ \A p \in Requests : p # q => stack'[p] = stack[p]
    BY <1>2, <2>3 DEF ToldAndGone
  <2>5. DOMAIN stack[q] = 1..L
    BY <2>1
  <2>6. DOMAIN stack'[q] = 1..L - 1
    BY <2>3, <2>4
  <2> HIDE DEF b
  <2> QED
    BY <2>2, <2>3, <2>4, <2>5, <2>6
<1>6. /\ \A p \in Requests : \A i \in DOMAIN stack'[p] :
           /\ i \in DOMAIN stack[p] /\ Sess(p, i)' = Sess(p, i)
           /\ ~(p = q /\ i = L - 1) => stack'[p][i] = stack[p][i]
      /\ \A p \in Requests : \A i \in DOMAIN stack[p] : ~(p = q /\ i = L) => i \in DOMAIN stack'[p]
      /\ L - 1 \in DOMAIN stack'[q]
  <2>1. 1..L = (1..L - 1) \cup {L} /\ 1..L - 1 = (1..L - 2) \cup {L - 1}
    BY <1>1
  <2> QED
    BY <1>1, <1>4, <1>5, <2>1 DEF Sess
<1>7. \A p \in Requests : \A i \in DOMAIN stack'[p] : Sess(p, i) # c
  <2>1. L \notin DOMAIN stack'[q]
    BY <1>1, <1>5
  <2> QED
    BY <1>1, <1>2, <1>6, <2>1 DEF Apart
<1>8. ~Running(c)' /\ Running(c) /\ \A d \in Children : d # c => (Running(d)' <=> Running(d))
  <2>1. \A d : Running(d) <=> \E p \in Requests : \E i \in DOMAIN stack[p] : Sess(p, i) = d
    BY DEF Running, Sess
  <2>2. \A d : Running(d)' <=> \E p \in Requests : \E i \in DOMAIN stack'[p] : Sess(p, i)' = d
    BY DEF Running, Sess
  <2> QED
    BY <1>1, <1>6, <1>7, <2>1, <2>2
<1>9. EventsOf(c) = {}
  BY <1>1, <1>2, <1>8 DEF ToldOnce
<1>10. /\ told' \in Seq(Tellings) /\ N \in Nat /\ DOMAIN told = 1..N - 1 /\ DOMAIN told' = 1..N
       /\ \A i \in 1..N - 1 : told'[i] = told[i]
       /\ told'[N].child = c /\ told'[N].status = status
       /\ 1..N = (1..N - 1) \cup {N} /\ N \notin 1..N - 1
  <2>1. Event(q, status) \in Tellings /\ Event(q, status).child = c /\ Event(q, status).status = status
    BY EventRecord DEF RunEnded
  <2>2. told \in Seq(Tellings) /\ Len(told) \in Nat
    BY <1>2 DEF StoreTypes
  <2> QED
    BY <2>1, <2>2, AppendProperties DEF ToldAndGone
<1>11. EventsOf(c)' = {N} /\ \A d : d # c => EventsOf(d)' = EventsOf(d)
  BY <1>9, <1>10 DEF EventsOf
<1>12. KeepsSessions /\ KeepsTold /\ StoreTypes' /\ Children' = Children
  <2>1. KeepsTold
    BY <1>9, <1>10, <1>11 DEF KeepsTold, EventsOf
  <2> QED
    BY <1>2, <1>10, <2>1 DEF KeepsSessions, StoreTypes, Children
<1>13. /\ \A p, t : SameOwn(p, t)
       /\ \A d : EndsWithText(d)' <=> EndsWithText(d)
  BY DEF SameOwn, Own, EndsWithText
<1>14. RecordsOK' /\ NotBegunYet'
  <2>1. \A p \in Requests : stack'[p] = <<>> => stack[p] = <<>>
    BY <1>1, <1>5, <1>6
  <2>2. NotBegunYet'
    BY <1>2, <1>13, <2>1 DEF NotBegunYet, SameOwn
  <2>3. RecordsOK'
    BY <1>1, <1>2, <1>10, <1>12 DEF RecordsOK, EntryOK
  <2> QED
    BY <2>2, <2>3
<1>15. ToldOnce'
  <2>1. ASSUME NEW d \in Children
        PROVE  IF Running(d)' THEN EventsOf(d)' = {}
               ELSE \/ \E i \in DOMAIN told' : EventsOf(d)' = {i}
                    \/ inMongo /\ EventsOf(d)' = {} /\ logs[d] = <<>>
    <3>1. CASE d = c
      BY <1>8, <1>10, <1>11, <3>1
    <3>2. CASE d # c
      BY <1>2, <1>8, <1>10, <1>11, <3>2 DEF ToldOnce
    <3> QED
      BY <3>1, <3>2
  <2> QED
    BY <1>12, <2>1 DEF ToldOnce
<1>16. ToldTruly'
  <2> SUFFICES ASSUME NEW i \in DOMAIN told', NEW d, d = told'[i].child
               PROVE  /\ told'[i].status = "subtask_completed" => EndsWithText(d)
                      /\ told'[i].status = "tool_failed" /\ ~inMongo => ~EndsWithText(d)
    BY <1>13 DEF ToldTruly, EndsWithText
  <2>1. CASE i = N
    <3>1. d = c /\ told'[i].status = status
      BY <1>10, <2>1
    <3>2. /\ status = "subtask_completed" => EndsWithText(c)
          /\ status = "tool_failed" /\ ~inMongo => ~EndsWithText(c)
      BY <1>1 DEF TextOK, RunEnded
    <3> QED
      BY <3>1, <3>2
  <2>2. CASE i \in DOMAIN told
    BY <1>2, <1>10, <2>2 DEF ToldTruly
  <2> QED
    BY <1>10, <2>1, <2>2
<1>17. ReportInPlace'
  <2>1. \A t \in DOMAIN logs, p \in Requests : AllPlaced(p, t)
    BY <1>2, PlacedMeans
  <2>2. (\A t \in DOMAIN logs, p \in Requests : AllPlaced(p, t))'
    BY <1>2, <1>12, <1>13, <2>1, AllPlacedKept
  <2> QED
    BY <2>2 DEF ReportInPlace, AllPlaced, PlaceOK, ToolReport
<1>18. StackTypes'
  <2>1. ASSUME NEW p \in Requests, NEW i \in DOMAIN stack'[p]
        PROVE  FrameOK(stack[p][i])' /\ (i > 1 => WaitsOn(p, i)')
    <3>1. FrameOK(stack[p][i])'
      <4> SUFFICES ASSUME NEW k, k = stack'[p][i]
                   PROVE  FrameOK(k)
        BY DEF FrameOK
      <4> QED
        BY <1>4, <1>5, <1>6, InStack
    <3>2. i > 1 => WaitsOn(p, i)'
      <4> SUFFICES ASSUME i > 1
                   PROVE  WaitsOn(p, i)'
        OBVIOUS
      <4>1. i - 1 \in DOMAIN stack[p] /\ WaitsOn(p, i) /\ i \in Nat
        BY <1>6, InStack
      <4>2. ~(p = q /\ i - 1 \in {L, L - 1})
        BY <1>1, <1>5, <4>1
      <4>3. i - 1 \in DOMAIN stack'[p] /\ stack'[p][i - 1] = stack[p][i - 1] /\ Sess(p, i - 1)' = Sess(p, i - 1)
        BY <1>6, <4>1, <4>2
      <4> QED
        BY <1>6, <4>1, <4>3 DEF WaitsOn
    <3> QED
      BY <3>1, <3>2
  <2> QED
    BY <1>5, <2>1, Zenon DEF StackTypes
<1>19. SubtaskTypes'
  BY <1>12, <1>18, TypesSplit, PTL
<1>20. \A p \in Requests : StackOK(p)'
  <2> SUFFICES ASSUME NEW p \in Requests, NEW i \in DOMAIN stack'[p], NEW k, k = stack'[p][i]
               PROVE  /\ ViaOK(k)
                      /\ i = 1 => Sess(p, i)' \in {0, 1} /\ k.pc # "reporting"
                      /\ i > 1 => ChildOf(p, i)'
    BY DEF StackOK, ViaOK
  <2>1. /\ i \in DOMAIN stack[p] /\ Sess(p, i)' = Sess(p, i)
        /\ k = stack[p][i] \/ (p = q /\ i = L - 1 /\ k = g)
    BY <1>5, <1>6
  <2>2. ViaOK(k) /\ (i = 1 => Sess(p, i)' \in {0, 1} /\ k.pc # "reporting")
    BY <1>4, <2>1, InStack
  <2>3. i > 1 => ChildOf(p, i)'
    <3> SUFFICES ASSUME i > 1
                 PROVE  ChildOf(p, i)'
      OBVIOUS
    <3>1. i - 1 \in DOMAIN stack[p] /\ ChildOf(p, i) /\ i \in Nat
      BY <2>1, InStack
    <3>2. ~(p = q /\ i - 1 \in {L, L - 1})
      BY <1>1, <1>5, <3>1
    <3>3. stack'[p][i - 1] = stack[p][i - 1] /\ Sess(p, i - 1)' = Sess(p, i - 1)
      BY <1>6, <3>1, <3>2
    <3>4. k.via # "http"
      BY <1>1, <1>4, <2>1, <3>1 DEF ChildOf
    <3> QED
      BY <1>12, <2>1, <3>1, <3>3, <3>4 DEF ChildOf
  <2> QED
    BY <2>2, <2>3
<1>21. Apart'
  BY <1>2, <1>6, <1>12 DEF Apart
<1>22. ASSUME NEW p \in Requests, NEW i \in DOMAIN stack'[p], ~(p = q /\ i = L - 1)
       PROVE  OwnOK(p, i)' /\ (i > 1 => TextOK(p, i)')
  <2>1. i \in DOMAIN stack[p] /\ stack'[p][i] = stack[p][i] /\ Sess(p, i)' = Sess(p, i)
    BY <1>6, <1>22
  <2>2. /\ ViaOK(stack[p][i]) /\ OwnOK(p, i) /\ (i > 1 => TextOK(p, i))
        /\ i \in Nat /\ Len(stack[p]) \in Nat
    BY <2>1, InStack
  <2>3. (Reporting(p, i)' <=> Reporting(p, i)) /\ (Reporting(p, i) => Sess(p, i + 1)' = Sess(p, i + 1))
    <3>1. CASE p # q
      BY <1>5, <3>1 DEF Reporting, Sess
    <3>2. CASE p = q
      <4>1. i \in 1..L - 2 /\ i + 1 \in 1..L - 1 /\ i < L - 1 /\ i < L
        BY <1>1, <1>5, <1>22, <3>2
      <4>2. stack'[q][i + 1].pc # "reporting" /\ stack[q][i + 1].pc # "reporting"
        <5>1. CASE i + 1 = L - 1
          BY <1>1, <1>4, <1>5, <5>1
        <5>2. CASE i + 1 # L - 1
          <6>1. stack'[q][i + 1] = stack[q][i + 1] /\ i + 1 \in DOMAIN stack[q] /\ i + 1 < Len(stack[q])
            BY <1>1, <1>5, <1>6, <4>1, <5>2
          <6> QED
            BY <6>1, InStack
        <5> QED
          BY <5>1, <5>2
      <4> QED
        BY <3>2, <4>2 DEF Reporting
    <3> QED
      BY <3>1, <3>2
  <2>4. OwnOK(p, i)'
    BY <1>2, <1>12, <1>13, <2>1, <2>2, <2>3, RunKept
  <2>5. i > 1 => TextOK(p, i)'
    <3> SUFFICES ASSUME i > 1, NEW d, d = Sess(p, i)
                 PROVE  TextOK(p, i)'
      OBVIOUS
    <3>1. EndsWithText(d)' <=> EndsWithText(d)
      BY <1>13
    <3> QED
      BY <2>1, <2>2, <3>1 DEF TextOK
  <2> QED
    BY <2>4, <2>5
<1>23. OwnOK(q, L - 1)'
  <2>1. g.pc = "resulting" => HasOutcome(q, g)'
    <3> SUFFICES ASSUME g.pc = "resulting"
                 PROVE  HasOutcome(q, g)'
      OBVIOUS
    <3>1. h.via = "tool" /\ g.child = c /\ (g.ok <=> status = "subtask_completed") /\ s # 0
      BY <1>1, <1>4 DEF ViaOK
    <3>2. AwaitsChild(q, L - 1)
      BY <1>1, <3>1 DEF OwnOK
    <3>3. Reporting(q, L - 1) <=> status = "subtask_completed"
      BY <1>1 DEF Reporting, RunEnded
    <3>4. ReportLast(q, s, c) \/ ((~g.ok \/ inMongo) /\ CallLast(q, s))
      BY <1>1, <3>1, <3>2, <3>3 DEF AwaitsChild
    <3>5. ReportLast(q, s, c)' \/ ((~g.ok \/ inMongo') /\ CallLast(q, s)')
      BY <1>13, <3>4, PlacesKept
    <3>6. ToldOf(c, g.ok)'
      BY <1>10, <1>11, <3>1 DEF ToldOf
    <3> QED
      BY <1>1, <1>3, <1>4, <1>12, <3>1, <3>5, <3>6 DEF HasOutcome
  <2>2. g.pc = "texting" => NoReportLast(q, s)'
    <3> SUFFICES ASSUME g.pc = "texting"
                 PROVE  NoReportLast(q, s)'
      OBVIOUS
    <3>1. h.via = "task" /\ s # 0
      BY <1>1, <1>4 DEF ViaOK, Frames
    <3>2. NoReportLast(q, s)
      BY <1>1, <3>1 DEF OwnOK
    <3> QED
      BY <1>1, <1>2, <1>12, <1>13, <3>1, <3>2, NoReportLastKept
  <2> QED
    BY <1>4, <1>5, <2>1, <2>2 DEF OwnOK
<1>24. L - 1 > 1 => TextOK(q, L - 1)'
  <2> SUFFICES ASSUME L - 1 > 1
               PROVE  TextOK(q, L - 1)'
    OBVIOUS
  <2>1. h.via \in {"tool", "task"}
    BY <1>1 DEF ViaOK, Frames
  <2>2. g.pc \notin {"answered", "reporting"} /\ (~inMongo => ~EndsWithText(s))
    BY <1>1, <1>4, <2>1 DEF TextOK
  <2>3. Sess(q, L - 1)' = s
    BY <1>4, <1>5 DEF Sess
  <2> QED
    BY <1>5, <1>13, <2>2, <2>3 DEF TextOK
<1>25. RunsOK'
  <2>1. \A p \in Requests : \A i \in DOMAIN stack'[p] : OwnOK(p, i)' /\ (i > 1 => TextOK(p, i)')
    BY <1>22, <1>23, <1>24
  <2> QED
    BY <2>1 DEF RunsOK
<1> QED
  BY <1>14, <1>15, <1>16, <1>17, <1>19, <1>20, <1>21, <1>25 DEF SubtasksInv, SubtasksAccounted
\* ChildCompleted and ChildFailed keep the invariant.
LEMMA ChildEndsKeeps ==
  ASSUME SubtasksInv, NEW q \in Requests, ChildCompleted(q) \/ ChildFailed(q)
  PROVE  SubtasksInv'
<1>1. Begun(q) /\ InSubtask(q) /\ UNCHANGED <<sessions, logs, inMongo>>
  <2>1. CASE ChildFailed(q)
    BY <2>1 DEF ChildFailed, RunAt
  <2>2. CASE ChildCompleted(q)
    <3> SUFFICES ASSUME NEW L, L = Len(stack[q])
                 PROVE  L > 1
      BY <2>2 DEF ChildCompleted, RunAt, InSubtask
    <3>1. Begun(q) /\ Top(q).pc = "reporting"
      BY <2>2 DEF ChildCompleted, RunAt
    <3>2. L \in DOMAIN stack[q] /\ L >= 1 /\ L \in Nat /\ stack[q][L].pc = "reporting"
      BY <3>1, InTop
    <3>3. L = 1 => stack[q][L].pc # "reporting"
      BY <3>2, InStack
    <3>4. L # 1
      BY <3>2, <3>3
    <3>5. L \in Nat /\ L >= 1
      BY <3>2
    <3> HIDE <3>2
    <3>6. \A n \in Nat : n >= 1 /\ n # 1 => n > 1
      OBVIOUS
    <3> QED
      BY <3>4, <3>5, <3>6
  <2> QED
    BY <2>1, <2>2
<1> SUFFICES ASSUME NEW f, f = Top(q), NEW h, h = Caller(q), NEW s, s = h.session,
                    NEW c, c = f.session, NEW L, L = Len(stack[q])
             PROVE  SubtasksInv'
  OBVIOUS
<1>2. h \in Frames /\ FrameOK(h) /\ ViaOK(h) /\ h.pc = "creating" /\ c \in Children /\ f \in Frames /\ FrameOK(f)
  BY <1>1, InChild
<1>3. c \in 0..Len(sessions) /\ c \in Nat
  BY <1>2 DEF FrameOK, Frames
<1>4. ASSUME NEW status, RunEnded(f, status), NEW g, ToldAndGone(q, g, status),
             \/ status = "subtask_completed" /\ g = Resumed(h, c, TRUE)
             \/ status = "tool_failed" /\ g = Resumed(h, c, FALSE)
      PROVE  SubtasksInv'
  <2>1. /\ g \in Frames /\ g.session = h.session /\ g.via = h.via
        /\ g.left = h.left /\ g.loops = h.loops
        /\ h.via = "tool" => g.pc = "resulting" /\ g.child = c
        /\ h.via = "tool" => (g.ok <=> status = "subtask_completed")
        /\ h.via = "task" => g.pc = "texting" /\ g.child = h.child
        /\ h.via \notin {"tool", "task"} => g.pc \in {"answered", "failed"} /\ g.child = h.child
    <3>1. CASE h.via = "tool"
      <4>1. \/ g = [h EXCEPT !.pc = "resulting", !.child = c, !.ok = TRUE]
               /\ status = "subtask_completed"
            \/ g = [h EXCEPT !.pc = "resulting", !.child = c, !.ok = FALSE]
               /\ status = "tool_failed"
        BY <1>4, <3>1 DEF Resumed
      <4> QED
        BY <1>2, <1>3, <3>1, <4>1 DEF Frames
    <3>2. CASE h.via = "task"
      <4>1. g = [h EXCEPT !.pc = "texting"]
        BY <1>4, <3>2 DEF Resumed
      <4> QED
        BY <1>2, <3>2, <4>1 DEF Frames
    <3>3. CASE h.via \notin {"tool", "task"}
      <4>1. g = [h EXCEPT !.pc = "answered"] \/ g = [h EXCEPT !.pc = "failed"]
        BY <1>4, <3>3 DEF Resumed
      <4> QED
        BY <1>2, <3>3, <4>1 DEF Frames
    <3> QED
      BY <3>1, <3>2, <3>3
  <2>2. FrameOK(g)
    BY <1>2, <1>3, <2>1 DEF FrameOK, Frames
  <2>3. ViaOK(g)
    BY <1>2, <2>1 DEF ViaOK
  <2>4. Outcome(q, g, c, status)
    BY <1>2, <2>1, <2>2, <2>3 DEF Outcome
  <2> QED
    BY <1>1, <1>4, <2>4, ReturnKeeps
<1>5. CASE ChildCompleted(q)
  <2>1. RunEnded(f, "subtask_completed")
    BY <1>5 DEF ChildCompleted, RunAt, RunEnded
  <2>2. ToldAndGone(q, Resumed(h, c, TRUE), "subtask_completed")
    BY <1>5 DEF ChildCompleted, Returns, ToldAndGone
  <2> QED
    BY <1>4, <2>1, <2>2
<1>6. CASE ChildFailed(q)
  <2>1. RunEnded(f, "tool_failed")
    BY <1>6 DEF ChildFailed, RunAt, RunEnded
  <2>2. ToldAndGone(q, Resumed(h, c, FALSE), "tool_failed")
    BY <1>6 DEF ChildFailed, Returns, ToldAndGone
  <2> QED
    BY <1>4, <2>1, <2>2
<1> QED
  BY <1>5, <1>6

-----------------------------------------------------------------------------
(* The theorems *)

\* At startup there is the session the clients talk in, and nothing in it.
LEMMA SubtasksInvInit == SubtasksInit => SubtasksInv
<1> SUFFICES ASSUME SubtasksInit
             PROVE  SubtasksInv
  OBVIOUS
<1>1. /\ Len(sessions) = 1 /\ DOMAIN sessions = {1} /\ Len(logs) = 1 /\ DOMAIN logs = {1}
      /\ logs[1] = <<>> /\ told = <<>> /\ \A q \in Requests : stack[q] = <<>>
      /\ Children = {}
  BY DEF SubtasksInit, Children
<1>2. StoreTypes
  <2>1. sessions \in Seq([parent : Nat, run : (Requests \X Nat) \cup {NoRun}])
    BY DEF SubtasksInit
  <2>2. logs \in Seq(Seq(Entries)) /\ told \in Seq(Tellings) /\ inMongo \in BOOLEAN
    BY DEF SubtasksInit
  <2>3. 2..Len(sessions) = {} /\ 1 <= SessionBound
    BY <1>1, SubtasksAssumption
  <2>4. \A c \in 2..Len(sessions) : sessions[c].parent \in 0..c - 1
    BY <2>3
  <2>5. Len(logs) = Len(sessions) /\ Len(sessions) <= SessionBound /\ Len(sessions) >= 1
    <3>1. 1 >= 1
      OBVIOUS
    <3> QED
      BY <1>1, <2>3, <3>1
  <2> QED
    BY <2>1, <2>2, <2>4, <2>5, Zenon DEF StoreTypes
<1>3. \A q \in Requests : DOMAIN stack[q] = {}
  <2>1. DOMAIN <<>> = {}
    OBVIOUS
  <2>2. \A q \in Requests : stack[q] = <<>>
    BY <1>1
  <2> QED
    BY <2>1, <2>2, Zenon
<1>4. StackTypes
  BY <1>3 DEF StackTypes, SubtasksInit
<1>5. SubtaskTypes /\ \A q \in Requests : StackOK(q)
  BY <1>2, <1>3, <1>4, TypesSplit DEF StackOK
<1>6. Apart /\ RunsOK
  BY <1>3 DEF Apart, RunsOK
<1>7. DOMAIN logs[1] = {} /\ DOMAIN told = {}
  BY <1>1
<1>8. \A q \in Requests, s \in DOMAIN logs : Own(q, s) = {}
  BY <1>1, <1>7 DEF Own
<1>9. RecordsOK /\ NotBegunYet
  BY <1>1, <1>7, <1>8 DEF RecordsOK, NotBegunYet
<1>10. SubtasksAccounted
  BY <1>1, <1>7, <1>8 DEF SubtasksAccounted, ToldOnce, ToldTruly, ReportInPlace
<1> QED
  BY <1>5, <1>6, <1>9, <1>10 DEF SubtasksInv

\* A step that is none leaves everything as it is.
LEMMA SubtasksStutter ==
  ASSUME SubtasksInv, UNCHANGED subtaskVars
  PROVE  SubtasksInv'
<1> USE DEF subtaskVars
<1>1. /\ StoreTypes /\ StackTypes /\ (\A q \in Requests : StackOK(q)) /\ Apart /\ NotBegunYet
      /\ RecordsOK /\ RunsOK /\ ToldOnce
  BY TypesSplit DEF SubtasksInv, SubtasksAccounted
<1>2. StacksGoOn
  BY DEF StacksGoOn, Running
<1>3. /\ StoreTypes' /\ KeepsSessions /\ KeepsTold
      /\ \A q \in Requests, t \in Nat : SameOwn(q, t)
      /\ RecordsOK' /\ NotBegunYet' /\ SubtasksAccounted'
  BY <1>2, NoWriteKeeps
<1>4. StackTypes'
  BY <1>1 DEF StackTypes, FrameOK, WaitsOn, Sess
<1>5. (\A q \in Requests : StackOK(q)') /\ Apart'
  BY <1>1 DEF StackOK, ViaOK, ChildOf, Apart, Sess, Children
<1>6. RunsOK'
  <2>1. ASSUME NEW q \in Requests, NEW i \in DOMAIN stack[q]
        PROVE  OwnOK(q, i)' /\ (i > 1 => TextOK(q, i)')
    <3>1. /\ ViaOK(stack[q][i]) /\ OwnOK(q, i) /\ (i > 1 => TextOK(q, i)) /\ stack[q][i] \in Frames
      BY InStack
    <3>2. Sess(q, i) \in Nat /\ (Reporting(q, i)' <=> Reporting(q, i)) /\ Sess(q, i + 1)' = Sess(q, i + 1)
      BY <3>1 DEF Sess, Frames, Reporting
    <3>3. OwnOK(q, i)'
      BY <1>3, <3>1, <3>2, RunKept DEF SubtasksInv
    <3>4. i > 1 => TextOK(q, i)'
      BY <3>1 DEF TextOK, EndsWithText, Sess
    <3> QED
      BY <3>3, <3>4
  <2>2. \A q \in Requests : \A i \in DOMAIN stack'[q] : OwnOK(q, i)' /\ (i > 1 => TextOK(q, i)')
    BY <2>1
  <2> QED
    BY <2>2 DEF RunsOK
<1>7. SubtaskTypes'
  BY <1>3, <1>4, TypesSplit, PTL
<1> QED
  BY <1>3, <1>5, <1>6, <1>7 DEF SubtasksInv

\* Every step keeps the invariant.
LEMMA SubtasksInvStep == SubtasksInv /\ [SubtasksNext]_subtaskVars => SubtasksInv'
<1> SUFFICES ASSUME SubtasksInv, SubtasksNext
             PROVE  SubtasksInv'
  BY SubtasksStutter
<1>1. PICK q \in Requests : SubtasksStep(q)
  BY DEF SubtasksNext
<1>2. CASE Chat(q) \/ PostSubtask(q)
  BY <1>2, RequestKeeps
<1>3. CASE SavePrompt(q) \/ SavePromptFails(q)
  BY <1>3, SavePromptKeeps
<1>4. CASE RunFails(q)
  BY <1>4, RunFailsKeeps
<1>5. CASE AsksForTools(q)
  BY <1>5, AsksForToolsKeeps
<1>6. CASE SaveText(q) \/ SaveTextFails(q)
  BY <1>6, SaveTextKeeps
<1>7. CASE OtherTool(q)
  BY <1>7, OtherToolKeeps
<1>8. CASE SaveResult(q) \/ SaveResultFails(q)
  BY <1>8, SaveResultKeeps
<1>9. CASE CreateChild(q)
  BY <1>9, CreateChildKeeps
<1>10. CASE CreateFails(q)
  BY <1>10, CreateFailsKeeps
<1>11. CASE Report(q)
  BY <1>11, ReportKeeps
<1>12. CASE ChildCompleted(q) \/ ChildFailed(q)
  BY <1>12, ChildEndsKeeps
<1> QED
  BY <1>1, <1>2, <1>3, <1>4, <1>5, <1>6, <1>7, <1>8, <1>9, <1>10, <1>11, <1>12 DEF SubtasksStep

\* The invariant holds in every reachable state.
LEMMA SubtasksAlwaysInv == SubtasksSpec => []SubtasksInv
  BY SubtasksInvInit, SubtasksInvStep, PTL DEF SubtasksSpec

\* Every variable has its type, and the runs of a request form a stack in which
\* each waits for the run of a child of its own session (RunSubtask and its
\* callers), however many requests there are and however deep they go.
THEOREM SubtasksTypesKept == SubtasksSpec => []SubtasksTypeOK
<1>1. SubtasksInv => SubtasksTypeOK
  BY DEF SubtasksInv, SubtaskTypes
<1> QED
  BY <1>1, SubtasksAlwaysInv, PTL

\* The account of the subtasks is complete, true and in order: the clients hear
\* of each that is over, once, and of none that is not; what they hear agrees
\* with its log; and the report about a subtask of a tool call stands in the
\* parent's log between the call and its result.
THEOREM SubtasksAlwaysAccounted == SubtasksSpec => []SubtasksAccounted
<1>1. SubtasksInv => SubtasksAccounted
  BY DEF SubtasksInv
<1> QED
  BY <1>1, SubtasksAlwaysInv, PTL
===============================================================================
