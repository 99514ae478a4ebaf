--------------------------- MODULE CompactionProofs ---------------------------
(***************************************************************************)
(* What compaction keeps, for every number of runs of a session, every     *)
(* CompactLimit and CompactKeep, and a log of any length.                  *)
(***************************************************************************)
EXTENDS Compaction, SequenceTheorems, FiniteSetTheorems, WellFoundedInduction, TLAPS

Updating == {"updating", "writing"}

\* Where run r is, but for an updateSession under way.
Place(r) == IF pc[r] \in Updating THEN next[r] ELSE pc[r]

\* What summarising has lost: passed over, or without a text.
Gone(i) == PassedOver(i) \/ LeftOut(i)

\* A summary speaks of all the messages up to log[s].to, but those that are gone.
SummaryOK(s) ==
  /\ log[s].to < s
  /\ \A i \in 1..log[s].to : i \in log[s].covers \/ Gone(i)

LogOK == \A s \in SummariesOf(Len(log)) : SummaryOK(s)

PointsAt(p) == p # 0 => p \in SummariesOf(Len(log))

\* A run decides to summarise only what is longer than Keep; it has a context
\* as soon as its pass is over.
PassOK(r) ==
  /\ Place(r) \in {"listing", "choosing", "summarising"} => outcome[r] = "none"
  /\ Place(r) \in {"chatting", "replying"} => outcome[r] # "none"
  /\ pc[r] \in Updating => next[r] \in {"idle", "listing", "chatting", "replying"}
  /\ pc[r] = "summarising" =>
       /\ head[r] <= hist[r] /\ PointsAt(head[r])
       /\ WorkingSize(head[r], hist[r]) > Keep

RecordOK(r) == Describes(copy[r]) /\ PointsAt(patch[r])

ContextOK(r) ==
  outcome[r] # "none" =>
    \A i \in 1..hist[r] : i \in Known(context[r]) \/ Gone(i)

FreshOK(r) ==
  outcome[r] = "fresh" =>
    /\ WithText(Working(head[r], hist[r])) \subseteq Known(context[r])
    /\ Recent(hist[r]) \subseteq context[r]

SizeOK(r) ==
  AutoCompact /\ outcome[r] \notin {"none", "failed"} =>
    Cardinality(context[r]) <= Bound

RunOK(r) == PassOK(r) /\ RecordOK(r) /\ ContextOK(r) /\ FreshOK(r) /\ SizeOK(r)

\* What the model is given is right because each summary in the log is, and
\* because each copy of the session describes a summary of the log.
CompInv ==
  /\ TypeOK
  /\ LogOK
  /\ Describes(session)
  /\ \A r \in Runs : RunOK(r)

-----------------------------------------------------------------------------
(* The log *)

\* No step changes a stored message.
Grows ==
  /\ log' \in Seq(Messages)
  /\ Len(log') >= Len(log)
  /\ \A i \in 1..Len(log) : log'[i] = log[i]

\* Saving a message puts it behind the others.
LEMMA AppendGrows ==
  ASSUME log \in Seq(Messages), NEW m \in Messages, log' = Append(log, m)
  PROVE  Grows /\ Len(log') = Len(log) + 1 /\ log'[Len(log) + 1] = m
  BY DEF Grows

\* A log that does not change grows by nothing.
LEMMA StayGrows ==
  ASSUME log \in Seq(Messages), log' = log
  PROVE  Grows
  BY DEF Grows

\* The places of the messages are natural numbers and their fields have types.
LEMMA MessageTypes ==
  ASSUME log \in Seq(Messages), NEW i \in 1..Len(log)
  PROVE  /\ log[i] \in Messages /\ log[i].to \in Nat /\ log[i].from \in Nat
         /\ log[i].parent \in Nat /\ log[i].covers \subseteq Nat
<1>1. log[i] \in Messages
  OBVIOUS
<1> QED
  BY <1>1 DEF Messages

\* Summaries stay summaries.
LEMMA SummariesKept ==
  ASSUME log \in Seq(Messages), Grows
  PROVE  SummariesOf(Len(log)) \subseteq SummariesOf(Len(log))'
  BY DEF Grows, SummariesOf

\* What has been passed over stays so.
LEMMA PassedKept ==
  ASSUME log \in Seq(Messages), Grows, NEW i, PassedOver(i)
  PROVE  PassedOver(i)'
<1>1. PICK s \in SummariesOf(Len(log)) : log[s].to < i /\ i < s
  BY DEF PassedOver
<1>2. s \in 1..Len(log)
  BY <1>1 DEF SummariesOf
<1>3. s \in SummariesOf(Len(log))'
  BY SummariesKept
<1>4. log'[s] = log[s]
  BY <1>2 DEF Grows
<1> QED
  BY <1>1, <1>3, <1>4 DEF PassedOver

\* What is gone stays so.
LEMMA GoneKept ==
  ASSUME log \in Seq(Messages), Grows, NEW i \in 1..Len(log), Gone(i)
  PROVE  Gone(i)'
<1>1. CASE PassedOver(i)
  BY <1>1, PassedKept DEF Gone
<1>2. CASE LeftOut(i)
  <2>1. PICK s \in SummariesOf(Len(log)) : log[s].from <= i /\ i <= log[s].to
    BY <1>2 DEF LeftOut
  <2>2. s \in 1..Len(log)
    BY <2>1 DEF SummariesOf
  <2>3. s \in SummariesOf(Len(log))'
    BY SummariesKept
  <2>4. log'[s] = log[s] /\ log'[i] = log[i]
    BY <2>2 DEF Grows
  <2>5. LeftOut(i)'
    BY <1>2, <2>1, <2>3, <2>4 DEF LeftOut
  <2> QED
    BY <2>5 DEF Gone
<1> QED
  BY <1>1, <1>2 DEF Gone

\* What a set of stored messages stands for never changes.
LEMMA SourcesKept ==
  ASSUME log \in Seq(Messages), Grows, NEW S, S \subseteq 1..Len(log)
  PROVE  Sources(S)' = Sources(S)
<1>1. \A i \in S : log'[i].covers = log[i].covers
  BY DEF Grows
<1> QED
  BY <1>1, Zenon DEF Sources

\* A record that describes a stored summary goes on to describe it.
LEMMA DescribesKept ==
  ASSUME log \in Seq(Messages), Grows, NEW s, Describes(s)
  PROVE  Describes(s)'
<1> SUFFICES ASSUME s.head # 0
             PROVE  Describes(s)'
  BY DEF Describes
<1>1. s.head \in SummariesOf(Len(log))
  BY DEF Describes
<1>2. s.head \in 1..Len(log)
  BY <1>1 DEF SummariesOf
<1>3. log'[s.head] = log[s.head]
  BY <1>2 DEF Grows
<1>4. s.head \in SummariesOf(Len(log))'
  BY <1>1, SummariesKept
<1> QED
  BY <1>3, <1>4 DEF Describes

\* A summary that is right stays right.
LEMMA SummaryKept ==
  ASSUME log \in Seq(Messages), Grows, NEW s \in SummariesOf(Len(log)), SummaryOK(s)
  PROVE  SummaryOK(s)'
<1>1. s \in 1..Len(log)
  BY DEF SummariesOf
<1>2. log'[s] = log[s]
  BY <1>1 DEF Grows
<1>3. \A i \in 1..Len(log) : Gone(i) => Gone(i)'
  BY GoneKept
<1>4. 1..log[s].to \subseteq 1..Len(log)
  BY <1>1, MessageTypes DEF SummaryOK
<1> QED
  BY <1>2, <1>3, <1>4 DEF SummaryOK

\* A turn adds no summary.
LEMMA TurnKeepsLog ==
  ASSUME log \in Seq(Messages), LogOK, NEW m \in {Silent, Turn}, log' = Append(log, m)
  PROVE  Grows /\ LogOK'
<1>1. m \in Messages /\ m.kind # "summary"
  BY DEF Turn, Silent, Plain, Messages
<1>2. Grows /\ Len(log') = Len(log) + 1 /\ log'[Len(log) + 1] = m
  BY <1>1, AppendGrows
<1>3. ASSUME NEW s \in SummariesOf(Len(log))'
      PROVE  s \in SummariesOf(Len(log))
  BY <1>1, <1>2, <1>3 DEF SummariesOf, Grows
<1>4. ASSUME NEW s \in SummariesOf(Len(log))'
      PROVE  SummaryOK(s)'
  BY <1>2, <1>3, <1>4, SummaryKept DEF LogOK
<1> QED
  BY <1>2, <1>4 DEF LogOK

\* The log as it is.
LEMMA StillKeepsLog ==
  ASSUME log \in Seq(Messages), LogOK, log' = log
  PROVE  Grows /\ LogOK'
  BY StayGrows DEF LogOK, SummaryOK, SummariesOf, Gone, PassedOver, LeftOut

-----------------------------------------------------------------------------
(* The active summary and what a text made from a history stands for *)

\* A set of natural numbers with a bound has a greatest element.
LEMMA Greatest ==
  ASSUME NEW n \in Nat, NEW S \in SUBSET (1..n), S # {}
  PROVE  \E i \in S : \A j \in S : j <= i
<1> DEFINE T == {n - i : i \in S}
<1>1. T \subseteq Nat /\ T # {}
  <2>1. \A i \in S : n - i \in Nat
    OBVIOUS
  <2> QED
    BY <2>1, Zenon
<1>2. PICK x \in T : \A y \in T : ~ (<<y, x>> \in OpToRel(<, Nat))
  BY <1>1, NatLessThanWellFounded, WFMin
<1>3. ASSUME NEW y \in T
      PROVE  x <= y
  <2>1. x \in Nat /\ y \in Nat
    BY <1>1
  <2>2. <<y, x>> \notin OpToRel(<, Nat)
    BY <1>2
  <2> HIDE DEF T
  <2>3. ~(y < x)
    BY <2>1, <2>2 DEF OpToRel
  <2> QED
    BY <2>1, <2>3
<1>4. PICK i \in S : x = n - i
  OBVIOUS
<1>5. ASSUME NEW j \in S
      PROVE  j <= i
  <2>1. n - j \in T
    OBVIOUS
  <2> HIDE DEF T
  <2>2. n - i <= n - j
    BY <2>1, <1>3, <1>4
  <2>3. i \in Int /\ j \in Int
    OBVIOUS
  <2> QED
    BY <2>2, <2>3
<1> QED
  BY <1>5

\* latestSummaryIndex finds a summary, if there is one.
LEMMA LatestFound ==
  ASSUME NEW n \in Nat
  PROVE  LatestSummary(n) = 0 \/ LatestSummary(n) \in SummariesOf(n)
<1>1. SummariesOf(n) \in SUBSET (1..n)
  BY DEF SummariesOf
<1>2. CASE SummariesOf(n) = {}
  BY <1>2 DEF LatestSummary
<1>3. CASE SummariesOf(n) # {}
  <2>1. \E i \in SummariesOf(n) : \A j \in SummariesOf(n) : j <= i
    BY <1>1, <1>3, Greatest
  <2> QED
    BY <1>3, <2>1 DEF LatestSummary
<1> QED
  BY <1>2, <1>3

\* The active summary of a run is a summary of its history, whichever record
\* the run has found, as long as that record describes a stored summary.
LEMMA ActiveIsASummary ==
  ASSUME log \in Seq(Messages), NEW n \in 0..Len(log), NEW s \in Records, Describes(s)
  PROVE  /\ ActiveSummary(s, n) \in 0..n
         /\ PointsAt(ActiveSummary(s, n))
<1>1. n \in Nat /\ Len(log) \in Nat /\ n <= Len(log)
  OBVIOUS
<1>2. CASE s.head \in 1..n
  BY <1>1, <1>2 DEF ActiveSummary, Describes, PointsAt
<1>3. CASE s.head \notin 1..n
  <2>1. LatestSummary(n) = 0 \/ LatestSummary(n) \in SummariesOf(n)
    BY <1>1, LatestFound
  <2>2. ActiveSummary(s, n) = LatestSummary(n)
    BY <1>3 DEF ActiveSummary
  <2>3. SummariesOf(n) \subseteq SummariesOf(Len(log)) /\ SummariesOf(n) \subseteq 0..n
    BY <1>1 DEF SummariesOf
  <2> HIDE DEF SummariesOf
  <2>4. 0 \in 0..n
    BY <1>1
  <2> QED
    BY <2>1, <2>2, <2>3, <2>4 DEF PointsAt
<1> QED
  BY <1>2, <1>3

\* The empty record that is left when the session cannot be read.
LEMMA NoSummaryDescribes ==
  NoSummary \in Records /\ Describes(NoSummary)
  BY DEF NoSummary, Records, Describes

\* A set stands for its members and for the sources of the summaries in it.
LEMMA SourcesOf ==
  ASSUME NEW S, NEW k \in S
  PROVE  k \in Sources(S) /\ log[k].covers \subseteq Sources(S)
  BY Zenon DEF Sources

\* More messages stand for no less.
LEMMA SourcesGrow ==
  ASSUME NEW S, NEW T, S \subseteq T
  PROVE  Sources(S) \subseteq Sources(T)
  BY Zenon DEF Sources

\* Sources are messages.
LEMMA SourcesAreNumbers ==
  ASSUME log \in Seq(Messages), NEW S, S \subseteq 1..Len(log)
  PROVE  Sources(S) \subseteq Nat
<1>1. \A i \in S : log[i].covers \subseteq Nat
  BY MessageTypes
<1>2. 1..Len(log) \subseteq Nat
  OBVIOUS
<1> QED
  BY <1>1, <1>2, Zenon DEF Sources

\* A summary among the messages S speaks of what comes before it, but for what
\* is gone.
LEMMA SummarySpeaks ==
  ASSUME log \in Seq(Messages), LogOK, NEW k \in SummariesOf(Len(log)),
         NEW S, k \in S, NEW i \in 1..Len(log), i <= k
  PROVE  i \in Sources(S) \/ Gone(i)
<1>1. SummaryOK(k) /\ k \in 1..Len(log) /\ log[k].to \in Nat
  BY MessageTypes DEF LogOK, SummariesOf
<1>2. CASE i = k
  BY <1>2, SourcesOf
<1>3. CASE i <= log[k].to
  <2>1. i \in 1..log[k].to
    BY <1>1, <1>3
  <2>2. i \in log[k].covers \/ Gone(i)
    BY <1>1, <2>1 DEF SummaryOK
  <2>3. log[k].covers \subseteq Sources(S)
    BY SourcesOf
  <2> QED
    BY <2>2, <2>3
<1>4. CASE i < k /\ log[k].to < i
  BY <1>1, <1>4 DEF PassedOver, Gone
<1> QED
  BY <1>1, <1>2, <1>3, <1>4

\* The summary k and the messages after it stand for the history, but for what
\* is gone.
LEMMA HistoryKnown ==
  ASSUME log \in Seq(Messages), LogOK, NEW n \in 0..Len(log), NEW k \in 0..n, PointsAt(k),
         NEW i \in 1..n
  PROVE  i \in Sources(Working(k, n) \cup ({k} \ {0})) \/ Gone(i)
<1> DEFINE S == Working(k, n) \cup ({k} \ {0})
<1>1. i \in Nat /\ i >= 1 /\ i <= n /\ k \in Nat /\ n \in Nat /\ i \in 1..Len(log)
  OBVIOUS
<1>2. CASE i > Base(k, n)
  <2>1. i \in S
    BY <1>1, <1>2 DEF Base, Working
  <2> QED
    BY <2>1, SourcesOf
<1>3. CASE ~(i > Base(k, n))
  <2>1. k # 0 /\ i <= k
    BY <1>1, <1>3 DEF Base
  <2>2. k \in SummariesOf(Len(log)) /\ k \in S
    BY <2>1 DEF PointsAt
  <2> HIDE DEF S
  <2>3. i \in Sources(S) \/ Gone(i)
    BY <1>1, <2>1, <2>2, SummarySpeaks
  <2> QED
    BY <2>3 DEF S
<1> QED
  BY <1>2, <1>3

\* The new summary is a message, and right wherever it is saved.
LEMMA SummaryKeepsLog ==
  ASSUME CompactionAssumption, log \in Seq(Messages), LogOK,
         NEW n \in 0..Len(log), NEW k \in 0..n, PointsAt(k),
         WorkingSize(k, n) > Keep, log' = Append(log, Summary(k, n))
  PROVE  /\ Grows /\ LogOK' /\ Len(log') = Len(log) + 1
         /\ Len(log') \in SummariesOf(Len(log))'
         /\ log'[Len(log) + 1] = Summary(k, n)
<1> DEFINE S == WithText(Older(k, n)) \cup ({k} \ {0})
           m == n - Keep
<1>1. /\ n \in Nat /\ k \in Nat /\ Len(log) \in Nat /\ n <= Len(log) /\ k <= n
      /\ Keep \in Nat \ {0} /\ Base(k, n) \in Nat /\ m \in Nat /\ Base(k, n) < m /\ m < n
  BY DEF CompactionAssumption, WorkingSize, Base
<1>2. S \subseteq 1..Len(log) /\ Older(k, n) \subseteq 1..Len(log)
  BY <1>1 DEF Older, WithText
<1>3. Summary(k, n) \in Messages /\ Summary(k, n).to = m
      /\ Summary(k, n).covers = Sources(S) /\ Summary(k, n).kind = "summary"
  <2>1. Sources(S) \subseteq Nat
    BY <1>2, SourcesAreNumbers
  <2> HIDE DEF S
  <2>2. Summary(k, n) = [kind |-> "summary", parent |-> k, from |-> Base(k, n) + 1,
                         to |-> m, covers |-> Sources(S)]
    BY DEF Summary, S
  <2>3. k \in Nat /\ Base(k, n) + 1 \in Nat /\ m \in Nat
    BY <1>1
  <2> HIDE DEF m
  <2>4. Summary(k, n) \in Messages
    BY <2>1, <2>2, <2>3 DEF Messages
  <2> QED
    BY <2>2, <2>4
<1>4. Grows /\ Len(log') = Len(log) + 1 /\ log'[Len(log) + 1] = Summary(k, n)
  BY <1>3, AppendGrows
<1>5. Len(log') \in SummariesOf(Len(log))'
  BY <1>1, <1>3, <1>4 DEF SummariesOf
<1>6. SummaryOK(Len(log))'
  <2>1. ASSUME NEW i \in 1..m
        PROVE  i \in Sources(S) \/ Gone(i)'
    <3>1. i \in 1..Len(log)
      BY <1>1
    <3>2. CASE i \in Older(k, n)
      <4>1. CASE i \in WithText(Older(k, n))
        BY <4>1, SourcesOf
      <4>2. CASE i \notin WithText(Older(k, n))
        <5>1. log'[i].kind = "silent"
          BY <3>1, <3>2, <4>2, <1>4 DEF WithText, Grows
        <5>2. log'[Len(log')].from <= i /\ i <= log'[Len(log')].to
          <6>1. Summary(k, n).from = Base(k, n) + 1
            BY DEF Summary
          <6>2. Base(k, n) + 1 <= i /\ i <= m
            BY <3>2, <1>1 DEF Older
          <6> QED
            BY <1>3, <1>4, <6>1, <6>2
        <5> QED
          BY <5>1, <5>2, <1>5 DEF Gone, LeftOut
      <4> QED
        BY <4>1, <4>2
    <3>3. CASE i \notin Older(k, n)
      <4>1. k \in SummariesOf(Len(log)) /\ i <= k /\ k # 0
        BY <1>1, <3>3 DEF Older, Base, PointsAt
      <4>2. i \in Sources(S) \/ Gone(i)
        BY <4>1, <3>1, SummarySpeaks
      <4> QED
        BY <4>2, <3>1, <1>4, GoneKept
    <3> QED
      BY <3>2, <3>3
  <2> HIDE DEF S
  <2>3. m < Len(log')
    BY <1>1, <1>4
  <2> HIDE DEF m
  <2> QED
    BY <1>3, <1>4, <2>1, <2>3 DEF SummaryOK
<1>7. ASSUME NEW s \in SummariesOf(Len(log))'
      PROVE  SummaryOK(s)'
  <2>1. CASE s = Len(log) + 1
    BY <2>1, <1>6, <1>4
  <2>2. CASE s # Len(log) + 1
    <3>1. s \in SummariesOf(Len(log))
      BY <2>2, <1>1, <1>4 DEF SummariesOf, Grows
    <3> QED
      BY <3>1, <1>4, SummaryKept DEF LogOK
  <2> QED
    BY <2>1, <2>2
<1> QED
  BY <1>4, <1>5, <1>7 DEF LogOK

-----------------------------------------------------------------------------
(* What a step leaves alone *)

\* The state of run q.
Mine(q) ==
  <<pc[q], mode[q], hist[q], head[q], outcome[q], context[q], patch[q], copy[q], next[q]>>

\* A step of a run changes no other run's state: they share the log and the
\* session.
LEMMA OthersKeep ==
  ASSUME TypeOK, NEW r \in Runs, NEW q \in Runs, q # r, Step(r)
  PROVE  UNCHANGED Mine(q)
<1> USE DEF TypeOK, Mine, Set, Goto, Update, Finish, update
<1>1. ASSUME NEW m \in {"chat", "compact"}, Prompt(r, m)
      PROVE  UNCHANGED Mine(q)
  BY <1>1 DEF Prompt
<1>2. CASE ListMessages(r) \/ ListMessagesFails(r)
  BY <1>2 DEF ListMessages, ListMessagesFails
<1>3. CASE Choose(r)
  BY <1>3 DEF Choose
<1>4. CASE SummariseFails(r)
  BY <1>4 DEF SummariseFails
<1>5. CASE SaveSummary(r)
  BY <1>5 DEF SaveSummary
<1>6. CASE SaveSummaryFails(r)
  BY <1>6 DEF SaveSummaryFails
<1>7. CASE ReadSession(r) \/ WriteSession(r)
  BY <1>7 DEF ReadSession, WriteSession
<1>8. CASE UpdateFails(r)
  BY <1>8 DEF UpdateFails
<1>9. CASE Continue(r) \/ Answer(r) \/ Abandon(r)
  BY <1>9 DEF Continue, Answer, Abandon
<1> QED
  BY <1>1, <1>2, <1>3, <1>4, <1>5, <1>6, <1>7, <1>8, <1>9 DEF Step

\* What a run knows, it knows of a longer log.
LEMMA KnowledgeKept ==
  ASSUME TypeOK, Grows, NEW r \in Runs, ContextOK(r), FreshOK(r), SizeOK(r),
         UNCHANGED <<hist[r], head[r], outcome[r], context[r]>>
  PROVE  ContextOK(r)' /\ FreshOK(r)' /\ SizeOK(r)'
<1>1. context[r] \subseteq 1..Len(log) /\ log \in Seq(Messages)
  BY DEF TypeOK
<1>2. Known(context[r])' = Known(context[r])
  <2>1. \A i \in context[r] : log'[i].covers = log[i].covers
    BY <1>1 DEF Grows
  <2> QED
    BY <2>1, Zenon DEF Known, Sources
<1>3. \A i \in 1..hist[r] : Gone(i) => Gone(i)'
  <2>1. 1..hist[r] \subseteq 1..Len(log)
    BY DEF TypeOK
  <2> QED
    BY <1>1, <2>1, GoneKept
<1>4. ContextOK(r)'
  BY <1>2, <1>3 DEF ContextOK
<1>5. FreshOK(r)'
  <2>1. outcome[r] = "fresh" =>
          WithText(Working(head[r], hist[r]))' = WithText(Working(head[r], hist[r]))
    <3>1. Working(head[r], hist[r])' = Working(head[r], hist[r])
          /\ Working(head[r], hist[r]) \subseteq 1..Len(log)
      BY DEF TypeOK, Working, Base
    <3> DEFINE W == Working(head[r], hist[r])
    <3>2. WithText(W)' = {i \in W' : log'[i].kind # "silent"}
      BY DEF WithText
    <3>3. \A i \in W : log'[i].kind = log[i].kind
      BY <3>1 DEF Grows
    <3> HIDE DEF W
    <3>4. W' = W
      BY <3>1 DEF W
    <3>5. WithText(W)' = WithText(W)
      BY <3>2, <3>3, <3>4 DEF WithText
    <3> QED
      BY <3>5 DEF W
  <2>2. Recent(hist[r])' = Recent(hist[r])
    BY DEF Recent
  <2> QED
    BY <1>2, <2>1, <2>2 DEF FreshOK
<1>6. SizeOK(r)'
  BY DEF SizeOK, Bound
<1> QED
  BY <1>4, <1>5, <1>6

\* The copies and the pointers of a run stay those of stored summaries.
LEMMA RecordKept ==
  ASSUME TypeOK, Grows, NEW r \in Runs, RecordOK(r), Describes(session),
         copy'[r] \in {copy[r], session}, patch'[r] \in {patch[r], 0}
  PROVE  RecordOK(r)'
<1>1. log \in Seq(Messages)
  BY DEF TypeOK
<1>2. Describes(copy'[r])
  BY DEF RecordOK
<1>3. \A s : Describes(s) => Describes(s)'
  BY <1>1, DescribesKept
<1>4. Describes(copy[r])'
  BY <1>2, <1>3
<1>5. PointsAt(patch[r])'
  BY <1>1, SummariesKept DEF RecordOK, PointsAt
<1> QED
  BY <1>4, <1>5 DEF RecordOK

\* The invariant of a run whose state does not change.
LEMMA OtherOK ==
  ASSUME TypeOK, Grows, NEW r \in Runs, RunOK(r), Describes(session), UNCHANGED Mine(r)
  PROVE  RunOK(r)'
<1>1. ContextOK(r)' /\ FreshOK(r)' /\ SizeOK(r)'
  BY KnowledgeKept DEF RunOK, Mine
<1>2. RecordOK(r)'
  BY RecordKept DEF RunOK, Mine
<1>3. PassOK(r)'
  BY SummariesKept DEF TypeOK, RunOK, Mine, PassOK, Place, Updating, PointsAt, WorkingSize, Base
<1> QED
  BY <1>1, <1>2, <1>3 DEF RunOK

\* The end of a pass that did not save a summary.
LEMMA PassEnds ==
  ASSUME TypeOK, Grows, NEW r \in Runs, RunOK(r), Describes(session),
         NEW from \in {"listing", "choosing", "summarising"},
         NEW o \in OutcomeKinds \ {"none", "fresh"}, NEW c \in SUBSET (1..Len(log)),
         Finish(r, from, o, c),
         hist'[r] \in 0..Len(log), \A i \in 1..hist'[r] : i \in Known(c) \/ Gone(i),
         AutoCompact /\ o # "failed" => Cardinality(c) <= Bound
  PROVE  RunOK(r)'
<1>1. outcome'[r] = o /\ context'[r] = c
  BY DEF TypeOK, Finish, Set
<1>2. log \in Seq(Messages)
  BY DEF TypeOK
<1>3. ContextOK(r)'
  <2>1. \A i \in c : log'[i].covers = log[i].covers
    BY <1>2 DEF Grows
  <2>2. Known(context[r])' = Known(c)
    BY <1>1, <2>1, Zenon DEF Known, Sources
  <2>3. \A i \in 1..Len(log) : Gone(i) => Gone(i)'
    BY <1>2, GoneKept
  <2>4. 1..hist'[r] \subseteq 1..Len(log)
    OBVIOUS
  <2> QED
    BY <2>2, <2>3, <2>4 DEF ContextOK
<1>4. FreshOK(r)'
  BY <1>1 DEF FreshOK
<1>5. SizeOK(r)'
  BY <1>1 DEF SizeOK, Bound
<1>6. RecordOK(r)'
  <2>1. copy'[r] = copy[r] /\ patch'[r] \in {patch[r], 0}
    BY DEF TypeOK, Finish, Update, Set, update
  <2> QED
    BY <2>1, RecordKept DEF RunOK
<1>7. PassOK(r)'
  BY <1>1 DEF TypeOK, PassOK, Place, Updating, Finish, Update, Goto, Set, update
<1> QED
  BY <1>3, <1>4, <1>5, <1>6, <1>7 DEF RunOK

-----------------------------------------------------------------------------
(* The steps *)

\* A run that begins.
LEMMA PromptKeeps ==
  ASSUME CompInv, NEW r \in Runs, NEW m \in {"chat", "compact"}, Prompt(r, m)
  PROVE  TypeOK' /\ Grows /\ LogOK' /\ Describes(session)' /\ RunOK(r)'
<1>1. Grows /\ LogOK'
  BY TurnKeepsLog DEF CompInv, TypeOK, Prompt
<1>2. TypeOK'
  <2>1. 0..Len(log) \subseteq 0..Len(log') /\ 1..Len(log) \subseteq 1..Len(log')
        /\ log' \in Seq(Messages) /\ 0 \in 0..Len(log')
    BY <1>1 DEF CompInv, TypeOK, Grows
  <2> HIDE DEF Messages, Records
  <2>2. session' = session /\ hist' = hist /\ head' = head
    BY DEF Prompt
  <2>3. mode' \in [Runs -> {"chat", "compact"}] /\ outcome' \in [Runs -> OutcomeKinds]
        /\ context' \in [Runs -> SUBSET (1..Len(log'))]
    BY <2>1 DEF CompInv, TypeOK, Prompt, Set, OutcomeKinds
  <2>4. pc' \in [Runs -> Pcs] /\ next' \in [Runs -> Pcs] /\ copy' = copy
        /\ patch' \in [Runs -> 0..Len(log')]
    <3>1. CASE Update(r, "idle", 0, "listing")
      BY <2>1, <3>1 DEF CompInv, TypeOK, Goto, Update, Set, Pcs
    <3>2. CASE Goto(r, "idle", "listing") /\ UNCHANGED update
      BY <2>1, <3>2 DEF CompInv, TypeOK, Goto, Pcs, update
    <3> QED
      BY <3>1, <3>2 DEF Prompt
  <2> QED
    BY <2>1, <2>2, <2>3, <2>4 DEF CompInv, TypeOK
<1>3. Describes(session)'
  BY <1>1, DescribesKept DEF CompInv, TypeOK, Prompt
<1>4. RecordOK(r)'
  <2>1. copy'[r] = copy[r] /\ patch'[r] \in {patch[r], 0}
    BY DEF CompInv, TypeOK, Prompt, Update, Set, update
  <2> QED
    BY <1>1, <2>1, RecordKept DEF CompInv, RunOK
<1>5. outcome'[r] = "none"
  BY DEF CompInv, TypeOK, Prompt, Set
<1>6. ContextOK(r)' /\ FreshOK(r)' /\ SizeOK(r)'
  BY <1>5 DEF ContextOK, FreshOK, SizeOK
<1>7. PassOK(r)'
  BY <1>5 DEF CompInv, TypeOK, Prompt, PassOK, Place, Updating, Goto, Update, Set, update
<1> QED
  BY <1>1, <1>2, <1>3, <1>4, <1>6, <1>7 DEF RunOK

\* The state of a run that a step of the pass leaves alone stays as typed.
LEMMA FinishTypes ==
  ASSUME TypeOK, Grows, NEW r \in Runs, NEW from \in Pcs,
         NEW o \in OutcomeKinds, NEW c \in SUBSET (1..Len(log)), Finish(r, from, o, c)
  PROVE  /\ pc' \in [Runs -> Pcs] /\ next' \in [Runs -> Pcs]
         /\ outcome' \in [Runs -> OutcomeKinds] /\ context' \in [Runs -> SUBSET (1..Len(log'))]
         /\ patch' \in [Runs -> 0..Len(log')] /\ copy' \in [Runs -> Records]
<1>1. 0..Len(log) \subseteq 0..Len(log') /\ 1..Len(log) \subseteq 1..Len(log')
  BY DEF TypeOK, Grows
<1>2. outcome' \in [Runs -> OutcomeKinds] /\ context' \in [Runs -> SUBSET (1..Len(log'))]
  BY <1>1 DEF TypeOK, Finish, Set
<1>3. /\ pc' \in [Runs -> Pcs] /\ next' \in [Runs -> Pcs]
      /\ copy' \in [Runs -> Records]
  BY DEF TypeOK, Finish, Update, Goto, Set, update, Pcs
<1>4. patch' \in [Runs -> 0..Len(log')]
  BY <1>1 DEF TypeOK, Finish, Update, Goto, Set, update, Pcs
<1> QED
  BY <1>2, <1>3, <1>4

\* How many messages a stretch of the log has.
LEMMA Stretch ==
  ASSUME NEW a \in Nat, NEW b \in Nat, a <= b + 1
  PROVE  IsFiniteSet(a..b) /\ Cardinality(a..b) = b - a + 1
<1>1. IsFiniteSet(a..b) /\ Cardinality(a..b) = IF a > b THEN 0 ELSE b - a + 1
  BY FS_Interval
<1> QED
  BY <1>1

\* And with a summary before it.
LEMMA StretchAndOne ==
  ASSUME NEW a \in Nat, NEW b \in Nat, a <= b + 1, NEW k
  PROVE  Cardinality({k} \cup (a..b)) \in Nat /\ Cardinality({k} \cup (a..b)) <= b - a + 2
<1> DEFINE W == a..b
<1>1. IsFiniteSet(W) /\ Cardinality(W) = b - a + 1
  BY Stretch
<1> HIDE DEF W
<1>2. /\ IsFiniteSet(W \cup {k})
      /\ Cardinality(W \cup {k}) = IF k \in W THEN Cardinality(W) ELSE Cardinality(W) + 1
  BY <1>1, FS_AddElement, Zenon
<1>3. Cardinality(W \cup {k}) \in Nat
  BY <1>2, FS_CardinalityType, Zenon
<1>4. {k} \cup W = W \cup {k}
  BY Zenon
<1>5. Cardinality(W \cup {k}) <= b - a + 2
  BY <1>1, <1>2
<1>6. Cardinality({k} \cup W) \in Nat /\ Cardinality({k} \cup W) <= b - a + 2
  BY <1>3, <1>4, <1>5
<1> QED
  BY <1>6 DEF W

\* The log as it is listed: the whole of it stands for itself.
LEMMA WholeKnown ==
  ASSUME NEW n \in Nat, NEW i \in 1..n
  PROVE  i \in Known(1..n)
  BY SourcesOf DEF Known

\* The history is read.
LEMMA ListMessagesKeeps ==
  ASSUME CompactionAssumption, CompInv, NEW r \in Runs, ListMessages(r)
  PROVE  TypeOK' /\ Grows /\ LogOK' /\ Describes(session)' /\ RunOK(r)'
<1> DEFINE n == Len(log)
<1>1. Grows /\ LogOK'
  BY StillKeepsLog DEF CompInv, TypeOK, ListMessages
<1>2. n \in Nat /\ hist' = [hist EXCEPT ![r] = n] /\ hist'[r] = n /\ hist' \in [Runs -> 0..n]
      /\ log' = log /\ session' = session /\ mode' = mode /\ head' = head
  BY DEF CompInv, TypeOK, ListMessages, Set
<1>3. Describes(session)'
  BY <1>1, <1>2, DescribesKept DEF CompInv, TypeOK
<1>4. CASE AutoCompact /\ n > Limit
  <2>1. Goto(r, "listing", "choosing") /\ UNCHANGED <<outcome, context, update>>
    BY <1>4 DEF ListMessages
  <2>2. TypeOK'
    BY <1>2, <2>1 DEF CompInv, TypeOK, Goto, Pcs, update
  <2>3. pc'[r] = "choosing" /\ outcome'[r] = "none"
    BY <2>1 DEF CompInv, TypeOK, Goto, RunOK, PassOK, Place, Updating
  <2>4. PassOK(r)' /\ ContextOK(r)' /\ FreshOK(r)' /\ SizeOK(r)'
    BY <2>3 DEF PassOK, Place, Updating, ContextOK, FreshOK, SizeOK
  <2>5. RecordOK(r)'
    <3>1. copy'[r] = copy[r] /\ patch'[r] = patch[r]
      BY <2>1 DEF update
    <3> QED
      BY <1>1, <3>1, RecordKept DEF CompInv, RunOK
  <2> QED
    BY <1>1, <1>3, <2>2, <2>4, <2>5 DEF RunOK
<1>5. CASE ~(AutoCompact /\ n > Limit)
  <2>1. Finish(r, "listing", "whole", 1..n)
    BY <1>5 DEF ListMessages
  <2>2. TypeOK'
    <3>1. "whole" \in OutcomeKinds /\ "listing" \in Pcs
      BY DEF OutcomeKinds, Pcs
    <3> QED
      BY <1>1, <1>2, <2>1, <3>1, FinishTypes DEF CompInv, TypeOK
  <2>3. \A i \in 1..hist'[r] : i \in Known(1..n) \/ Gone(i)
    BY <1>2, WholeKnown
  <2>4. AutoCompact => Cardinality(1..n) <= Bound
    <3>1. Cardinality(1..n) = n
      BY <1>2, Stretch
    <3> QED
      BY <1>2, <1>5, <3>1 DEF Bound, CompactionAssumption
  <2>5. hist'[r] \in 0..Len(log)
    BY <1>2
  <2>6. RunOK(r)'
    BY <1>1, <1>2, <2>1, <2>3, <2>4, <2>5, PassEnds DEF CompInv, OutcomeKinds
  <2> QED
    BY <1>1, <1>3, <2>2, <2>6
<1> QED
  BY <1>4, <1>5

\* A failure to read it ends the run.
LEMMA ListMessagesFailsKeeps ==
  ASSUME CompInv, NEW r \in Runs, ListMessagesFails(r)
  PROVE  TypeOK' /\ Grows /\ LogOK' /\ Describes(session)' /\ RunOK(r)'
<1>1. Grows /\ LogOK'
  BY StillKeepsLog DEF CompInv, TypeOK, ListMessagesFails
<1>2. TypeOK' /\ Describes(session)'
  BY <1>1, DescribesKept DEF CompInv, TypeOK, ListMessagesFails, Goto, Pcs, update
<1>3. ContextOK(r)' /\ FreshOK(r)' /\ SizeOK(r)'
  BY <1>1, KnowledgeKept DEF CompInv, RunOK, ListMessagesFails
<1>4. RecordOK(r)'
  BY <1>1, RecordKept DEF CompInv, RunOK, ListMessagesFails, update
<1>5. PassOK(r)'
  BY DEF CompInv, TypeOK, RunOK, PassOK, Place, Updating, ListMessagesFails, Goto, update
<1> QED
  BY <1>1, <1>2, <1>3, <1>4, <1>5 DEF RunOK

\* The choice with record s.
ChooseWith(r, s) ==
  LET n == hist[r]
      k == ActiveSummary(s, n)
  IN /\ head' = Set(head, r, k)
     /\ IF WorkingSize(k, n) > Limit /\ WorkingSize(k, n) > Keep
        THEN /\ Goto(r, "choosing", "summarising")
             /\ UNCHANGED <<outcome, context, update>>
        ELSE IF k > 0 THEN Finish(r, "choosing", "reused", {k} \cup Working(k, n))
                      ELSE Finish(r, "choosing", "whole", 1..n)
     /\ UNCHANGED <<log, session, mode, hist>>

\* Only such a choice is made, and with a record that describes a summary.
LEMMA ChooseUses ==
  ASSUME CompInv, NEW r \in Runs, Choose(r)
  PROVE  \E s \in Records : Describes(s) /\ ChooseWith(r, s)
<1>1. PICK s \in {session} \cup (IF MongoEnabled THEN {NoSummary} ELSE {}) : ChooseWith(r, s)
  BY DEF Choose, ChooseWith
<1>2. s \in Records /\ Describes(s)
  BY NoSummaryDescribes DEF CompInv, TypeOK
<1> QED
  BY <1>1, <1>2

\* The active summary and what follows it is what the model knows.
LEMMA ChooseKeeps ==
  ASSUME CompactionAssumption, CompInv, NEW r \in Runs, Choose(r)
  PROVE  TypeOK' /\ Grows /\ LogOK' /\ Describes(session)' /\ RunOK(r)'
<1>1. PICK s \in Records : Describes(s) /\ ChooseWith(r, s)
  BY ChooseUses
<1> DEFINE n == hist[r]
           k == ActiveSummary(s, n)
<1>2. log \in Seq(Messages) /\ n \in 0..Len(log) /\ n \in Nat
  BY DEF CompInv, TypeOK
<1>3. k \in 0..n /\ PointsAt(k)
  BY <1>1, <1>2, ActiveIsASummary
<1>4. UNCHANGED <<log, session, mode, hist>> /\ head' = [head EXCEPT ![r] = k] /\ k \in 0..Len(log)
  BY <1>1, <1>2, <1>3 DEF ChooseWith, Set
<1>5. Grows /\ LogOK'
  BY <1>2, <1>4, StillKeepsLog DEF CompInv
<1>6. Describes(session)'
  BY <1>2, <1>4, <1>5, DescribesKept DEF CompInv
<1>7. hist'[r] = n /\ head'[r] = k /\ head' \in [Runs -> 0..Len(log)]
  BY <1>4 DEF CompInv, TypeOK
<1>8. CASE WorkingSize(k, n) > Limit /\ WorkingSize(k, n) > Keep
  <2>1. Goto(r, "choosing", "summarising") /\ UNCHANGED <<outcome, context, update>>
    BY <1>1, <1>8 DEF ChooseWith
  <2>2. TypeOK'
    <3> HIDE DEF k, n
    <3> QED
      BY <1>4, <1>7, <2>1 DEF CompInv, TypeOK, Goto, Pcs, update
  <2>3. pc'[r] = "summarising" /\ outcome'[r] = "none"
    BY <2>1 DEF CompInv, TypeOK, Goto, RunOK, PassOK, Place, Updating
  <2>4. ContextOK(r)' /\ FreshOK(r)' /\ SizeOK(r)'
    BY <2>3 DEF ContextOK, FreshOK, SizeOK
  <2>5. PassOK(r)'
    <3>1. k <= n
      BY <1>2, <1>3
    <3>2. WorkingSize(k, n) = WorkingSize(head[r], hist[r])'
      BY <1>7 DEF WorkingSize, Base
    <3>3. PointsAt(head[r])'
      BY <3>1, <1>7, <1>4, <1>3 DEF PointsAt, SummariesOf
    <3> HIDE DEF k, n
    <3> QED
      BY <2>3, <1>7, <1>8, <3>1, <3>2, <3>3 DEF PassOK, Place, Updating
  <2>6. RecordOK(r)'
    BY <1>5, <2>1, RecordKept DEF CompInv, RunOK, update
  <2> QED
    BY <1>5, <1>6, <2>2, <2>4, <2>5, <2>6 DEF RunOK
<1>9. CASE ~(WorkingSize(k, n) > Limit /\ WorkingSize(k, n) > Keep)
  <2>1. n - Base(k, n) + 1 <= Bound /\ Base(k, n) \in Nat /\ Base(k, n) <= n
    BY <1>2, <1>3, <1>9 DEF WorkingSize, Base, Bound, CompactionAssumption
  <2>2. CASE k > 0
    <3> DEFINE c == {k} \cup Working(k, n)
    <3>1. Finish(r, "choosing", "reused", c)
      BY <1>1, <1>9, <2>2 DEF ChooseWith
    <3>2. c \in SUBSET (1..Len(log))
      BY <1>2, <1>3, <2>1, <2>2 DEF Working
    <3>3. ASSUME NEW i \in 1..hist'[r]
          PROVE  i \in Known(c) \/ Gone(i)
      <4>1. c = Working(k, n) \cup ({k} \ {0})
        BY <1>3, <2>2
      <4>2. i \in 1..n
        BY <3>3, <1>7, <1>2
      <4> HIDE DEF c, k, n
      <4>3. i \in Sources(Working(k, n) \cup ({k} \ {0})) \/ Gone(i)
        BY <1>2, <1>3, <4>2, HistoryKnown DEF CompInv
      <4> QED
        BY <4>1, <4>3 DEF Known
    <3>4. Cardinality(c) <= Bound
      <4> DEFINE a == Base(k, n) + 1
      <4>1. a \in Nat /\ a <= n + 1 /\ n - a + 2 <= Bound /\ Bound \in Int
        BY <1>2, <2>1 DEF Bound, CompactionAssumption
      <4>2. c = {k} \cup (a..n)
        BY DEF Working
      <4> HIDE DEF c, k, a, n
      <4>3. Cardinality({k} \cup (a..n)) \in Nat /\ Cardinality({k} \cup (a..n)) <= n - a + 2
        BY <1>2, <4>1, StretchAndOne
      <4> QED
        BY <1>2, <4>1, <4>2, <4>3
    <3> HIDE DEF c, k, n
    <3>5. TypeOK'
      <4>1. "reused" \in OutcomeKinds /\ "choosing" \in Pcs
        BY DEF OutcomeKinds, Pcs
      <4> QED
        BY <1>4, <1>5, <1>7, <3>1, <3>2, <4>1, FinishTypes DEF CompInv, TypeOK
    <3>6. RunOK(r)'
      BY <1>2, <1>5, <1>7, <3>1, <3>2, <3>3, <3>4, PassEnds DEF CompInv, OutcomeKinds
    <3> QED
      BY <1>5, <1>6, <3>5, <3>6
  <2>3. CASE ~(k > 0)
    <3>1. k = 0 /\ Base(k, n) = 0
      BY <1>2, <1>3, <2>3 DEF Base
    <3>2. Finish(r, "choosing", "whole", 1..n)
      BY <1>1, <1>9, <2>3 DEF ChooseWith
    <3>3. \A i \in 1..hist'[r] : i \in Known(1..n) \/ Gone(i)
      BY <1>2, <1>7, WholeKnown
    <3>4. Cardinality(1..n) <= Bound
      <4>1. Cardinality(1..n) = n
        BY <1>2, Stretch
      <4> HIDE DEF k, n
      <4>2. Bound \in Int
        BY DEF Bound, CompactionAssumption
      <4> QED
        BY <1>2, <2>1, <3>1, <4>1, <4>2
    <3>5. (1..n) \in SUBSET (1..Len(log))
      BY <1>2
    <3> HIDE DEF k, n
    <3>6. TypeOK'
      <4>1. "whole" \in OutcomeKinds /\ "choosing" \in Pcs
        BY DEF OutcomeKinds, Pcs
      <4> QED
        BY <1>4, <1>5, <1>7, <3>2, <3>5, <4>1, FinishTypes DEF CompInv, TypeOK
    <3>7. RunOK(r)'
      BY <1>2, <1>5, <1>7, <3>2, <3>3, <3>4, <3>5, PassEnds DEF CompInv, OutcomeKinds
    <3> QED
      BY <1>5, <1>6, <3>6, <3>7
  <2> QED
    BY <2>2, <2>3
<1> QED
  BY <1>8, <1>9

\* A failed pass leaves the whole history.
LEMMA FailureKeeps ==
  ASSUME CompInv, Grows, LogOK', NEW r \in Runs,
         Finish(r, "summarising", "failed", 1..hist[r]),
         UNCHANGED <<session, mode, hist, head>>
  PROVE  TypeOK' /\ Describes(session)' /\ RunOK(r)'
<1> DEFINE n == hist[r]
<1>1. log \in Seq(Messages) /\ n \in Nat /\ n <= Len(log) /\ hist'[r] = n
  BY DEF CompInv, TypeOK
<1>2. (1..n) \in SUBSET (1..Len(log))
  BY <1>1
<1>3. Describes(session)'
  BY <1>1, DescribesKept DEF CompInv
<1> HIDE DEF n
<1>4. Finish(r, "summarising", "failed", 1..n)
  BY DEF n
<1>5. TypeOK'
  <2>1. 0..Len(log) \subseteq 0..Len(log') /\ log' \in Seq(Messages)
    BY <1>1 DEF Grows
  <2>2. "failed" \in OutcomeKinds /\ "summarising" \in Pcs
    BY DEF OutcomeKinds, Pcs
  <2>3. /\ pc' \in [Runs -> Pcs] /\ next' \in [Runs -> Pcs]
        /\ outcome' \in [Runs -> OutcomeKinds] /\ context' \in [Runs -> SUBSET (1..Len(log'))]
        /\ patch' \in [Runs -> 0..Len(log')] /\ copy' \in [Runs -> Records]
    BY <1>2, <1>4, <2>2, FinishTypes DEF CompInv
  <2>4. hist' \in [Runs -> 0..Len(log')] /\ head' \in [Runs -> 0..Len(log')]
    BY <2>1 DEF CompInv, TypeOK
  <2> QED
    BY <2>1, <2>3, <2>4 DEF CompInv, TypeOK
<1>6. RunOK(r)'
  <2>1. \A i \in 1..hist'[r] : i \in Known(1..n) \/ Gone(i)
    BY <1>1, WholeKnown
  <2>2. hist'[r] \in 0..Len(log)
    BY <1>1
  <2> QED
    BY <1>1, <1>2, <1>4, <2>1, <2>2, PassEnds DEF CompInv, OutcomeKinds
<1> QED
  BY <1>3, <1>5, <1>6

\* The model fails.
LEMMA SummariseFailsKeeps ==
  ASSUME CompInv, NEW r \in Runs, SummariseFails(r)
  PROVE  TypeOK' /\ Grows /\ LogOK' /\ Describes(session)' /\ RunOK(r)'
<1>1. Grows /\ LogOK'
  BY StillKeepsLog DEF CompInv, TypeOK, SummariseFails
<1> QED
  BY <1>1, FailureKeeps DEF SummariseFails

\* Where a run is about to save its summary, the history is longer than what
\* the summary leaves out.
LEMMA ReadyToSummarise ==
  ASSUME CompInv, NEW r \in Runs, pc[r] = "summarising"
  PROVE  /\ log \in Seq(Messages) /\ LogOK
         /\ hist[r] \in 0..Len(log) /\ head[r] \in 0..hist[r] /\ PointsAt(head[r])
         /\ WorkingSize(head[r], hist[r]) > Keep
  BY DEF CompInv, TypeOK, RunOK, PassOK

\* The save may have been done although it reports an error.
LEMMA SaveSummaryFailsKeeps ==
  ASSUME CompactionAssumption, CompInv, NEW r \in Runs, SaveSummaryFails(r)
  PROVE  TypeOK' /\ Grows /\ LogOK' /\ Describes(session)' /\ RunOK(r)'
<1>1. pc[r] = "summarising"
  BY DEF SaveSummaryFails, Finish, Update, Goto
<1>2. Grows /\ LogOK'
  <2>1. CASE log' = log
    BY <2>1, StillKeepsLog DEF CompInv, TypeOK
  <2>2. CASE log' = Append(log, Summary(head[r], hist[r]))
    BY <1>1, <2>2, ReadyToSummarise, SummaryKeepsLog
  <2> QED
    BY <2>1, <2>2 DEF SaveSummaryFails
<1> QED
  BY <1>2, FailureKeeps DEF SaveSummaryFails

\* The new summary and the newest Keep messages are what the model knows, and
\* they lack nothing of the working part of the history.
LEMMA SaveSummaryKeeps ==
  ASSUME CompactionAssumption, CompInv, NEW r \in Runs, SaveSummary(r)
  PROVE  TypeOK' /\ Grows /\ LogOK' /\ Describes(session)' /\ RunOK(r)'
<1> DEFINE n == hist[r]
           k == head[r]
           new == Len(log) + 1
           c == {new} \cup Recent(n)
           going == IF mode[r] = "chat" THEN "chatting" ELSE "replying"
<1>1. pc[r] = "summarising"
  BY DEF SaveSummary, Update, Goto
<1>2. /\ log \in Seq(Messages) /\ LogOK /\ n \in 0..Len(log) /\ k \in 0..n /\ PointsAt(k)
      /\ WorkingSize(k, n) > Keep
  BY <1>1, ReadyToSummarise
<1>3. log' = Append(log, Summary(k, n))
  BY DEF SaveSummary
<1>4. /\ Grows /\ LogOK' /\ Len(log') = new /\ new \in SummariesOf(Len(log))'
      /\ log'[new] = Summary(k, n)
  BY <1>2, <1>3, SummaryKeepsLog
<1>5. /\ n \in Nat /\ Len(log) \in Nat /\ n < new /\ new \in Nat /\ Keep \in Nat \ {0}
      /\ Base(k, n) \in Nat /\ n - Keep \in Nat /\ Base(k, n) < n - Keep
  BY <1>2 DEF WorkingSize, Base, CompactionAssumption
<1>6. /\ outcome' = [outcome EXCEPT ![r] = "fresh"] /\ context' = [context EXCEPT ![r] = c]
      /\ pc' = [pc EXCEPT ![r] = "updating"] /\ next' = [next EXCEPT ![r] = going]
      /\ patch' = [patch EXCEPT ![r] = new] /\ copy' = copy
      /\ session' = session /\ mode' = mode /\ hist' = hist /\ head' = head
  BY DEF SaveSummary, Update, Goto, Set
<1>7. c \subseteq 1..new
  BY <1>5 DEF Recent
<1>8. going \in {"chatting", "replying"} /\ going \in Pcs
  BY DEF Pcs
<1> HIDE DEF going
<1>9. /\ outcome'[r] = "fresh" /\ context'[r] = c /\ pc'[r] = "updating"
      /\ next'[r] = going /\ patch'[r] = new /\ hist'[r] = n /\ head'[r] = k
      /\ copy'[r] = copy[r]
  BY <1>6 DEF CompInv, TypeOK
<1>10. TypeOK'
  <2>1. 0..Len(log) \subseteq 0..new /\ 1..Len(log) \subseteq 1..new /\ new \in 0..new
    BY <1>5
  <2>2. log' \in Seq(Messages)
    BY <1>4 DEF Grows
  <2>3. "fresh" \in OutcomeKinds /\ "updating" \in Pcs
    BY DEF OutcomeKinds, Pcs
  <2> HIDE DEF c, new
  <2>4. context' \in [Runs -> SUBSET (1..new)] /\ patch' \in [Runs -> 0..new]
        /\ hist' \in [Runs -> 0..new] /\ head' \in [Runs -> 0..new]
    BY <1>6, <1>7, <2>1 DEF CompInv, TypeOK
  <2>5. pc' \in [Runs -> Pcs] /\ next' \in [Runs -> Pcs] /\ outcome' \in [Runs -> OutcomeKinds]
    BY <1>6, <1>8, <2>3 DEF CompInv, TypeOK
  <2> QED
    BY <1>4, <1>6, <2>2, <2>4, <2>5 DEF CompInv, TypeOK
<1>11. Describes(session)'
  BY <1>4, <1>6, <1>2, DescribesKept DEF CompInv
<1>12. Summary(k, n).to = n - Keep /\ Summary(k, n).covers = Sources(WithText(Older(k, n)) \cup ({k} \ {0}))
  BY DEF Summary
<1>13. Summary(k, n).covers \subseteq Known(context[r])' /\ Recent(n) \subseteq Known(context[r])'
  <2>1. new \in c /\ Recent(n) \subseteq c
    OBVIOUS
  <2> HIDE DEF c, new
  <2>2. Known(context[r])' = c \cup UNION {log'[i].covers : i \in c}
    BY <1>9, Zenon DEF Known, Sources
  <2>3. log'[new].covers \subseteq UNION {log'[i].covers : i \in c}
    BY <2>1, Zenon
  <2> QED
    BY <1>4, <2>1, <2>2, <2>3, Zenon
<1>14. ContextOK(r)'
  <2>1. ASSUME NEW i \in 1..n
        PROVE  i \in Known(context[r])' \/ Gone(i)'
    <3>1. CASE i > n - Keep
      <4>1. i \in Recent(n)
        BY <1>5, <3>1 DEF Recent
      <4> QED
        BY <4>1, <1>13
    <3>2. CASE i <= n - Keep
      <4>1. i \in 1..log'[Len(log')].to
        BY <1>4, <1>5, <1>12, <3>2
      <4>2. i \in log'[Len(log')].covers \/ Gone(i)'
        <5>1. SummaryOK(Len(log))'
          BY <1>4 DEF LogOK
        <5> QED
          BY <4>1, <5>1 DEF SummaryOK
      <4> QED
        BY <4>2, <1>4, <1>13
    <3> QED
      BY <1>5, <3>1, <3>2
  <2> HIDE DEF n, k, c, new
  <2> QED
    BY <1>9, <2>1 DEF ContextOK
<1>15. FreshOK(r)'
  <2>1. WithText(Working(k, n)) \subseteq Known(context[r])'
    <3>1. ASSUME NEW i \in WithText(Working(k, n))
          PROVE  i \in WithText(Older(k, n)) \/ i \in Recent(n)
      BY <1>5, <3>1 DEF WithText, Working, Older, Recent
    <3>2. WithText(Older(k, n)) \subseteq Summary(k, n).covers
      BY <1>12, Zenon DEF Sources
    <3> HIDE DEF n, k, c, new
    <3> QED
      BY <3>1, <3>2, <1>13
  <2>2. Recent(n) \subseteq c
    OBVIOUS
  <2>3. WithText(Working(head[r], hist[r]))' = WithText(Working(k, n))
        /\ Recent(hist[r])' = Recent(n)
    <3>1. Working(k, n) \subseteq 1..Len(log)
      BY <1>5, <1>2 DEF Working
    <3>2. \A i \in Working(k, n) : log'[i].kind = log[i].kind
      BY <3>1, <1>4 DEF Grows
    <3>3. Working(head[r], hist[r])' = Working(k, n) /\ Recent(hist[r])' = Recent(n)
      BY <1>9 DEF Working, Recent, Base
    <3>4. WithText(Working(head[r], hist[r]))' =
            {i \in Working(head[r], hist[r])' : log'[i].kind # "silent"}
      BY DEF WithText
    <3> HIDE DEF n, k, c, new
    <3> QED
      BY <3>2, <3>3, <3>4 DEF WithText
  <2> HIDE DEF n, k, c, new
  <2> QED
    BY <1>9, <2>1, <2>2, <2>3 DEF FreshOK
<1>16. SizeOK(r)'
  <2> DEFINE a == n - Keep + 1
  <2>1. a \in Nat /\ a <= n + 1 /\ n - a + 2 = Keep + 1 /\ n \in Nat
    BY <1>5
  <2>5. Keep + 1 <= Bound /\ Bound \in Int /\ Keep \in Int
    BY DEF Bound, CompactionAssumption
  <2>2. c = {new} \cup (a..n)
    BY DEF Recent
  <2> HIDE DEF a, c, n, k, new
  <2>3. Cardinality({new} \cup (a..n)) \in Nat /\ Cardinality({new} \cup (a..n)) <= n - a + 2
    BY <2>1, StretchAndOne
  <2>4. Cardinality(c) <= Bound
    BY <2>1, <2>2, <2>3, <2>5
  <2> QED
    BY <1>9, <2>4 DEF SizeOK, Bound
<1>17. PassOK(r)'
  <2> HIDE DEF n, k, c, new
  <2> QED
    BY <1>8, <1>9 DEF PassOK, Place, Updating
<1>18. RecordOK(r)'
  <2>1. PointsAt(patch[r])'
    BY <1>4, <1>9 DEF PointsAt
  <2>2. Describes(copy[r])'
    <3>1. Describes(copy[r]) /\ copy[r] \in Records
      BY DEF CompInv, RunOK, RecordOK, TypeOK
    <3>2. \A s : Describes(s) => Describes(s)'
      BY <1>2, <1>4, DescribesKept
    <3> QED
      BY <1>9, <3>1, <3>2
  <2> QED
    BY <2>1, <2>2 DEF RecordOK
<1> QED
  BY <1>4, <1>10, <1>11, <1>14, <1>15, <1>16, <1>17, <1>18 DEF RunOK

\* The first half of updateSession.
LEMMA ReadSessionKeeps ==
  ASSUME CompInv, NEW r \in Runs, ReadSession(r)
  PROVE  TypeOK' /\ Grows /\ LogOK' /\ Describes(session)' /\ RunOK(r)'
<1>1. Grows /\ LogOK'
  BY StillKeepsLog DEF CompInv, TypeOK, ReadSession
<1>2. TypeOK' /\ Describes(session)'
  BY <1>1, DescribesKept DEF CompInv, TypeOK, ReadSession, Goto, Set, Pcs
<1>3. ContextOK(r)' /\ FreshOK(r)' /\ SizeOK(r)'
  BY <1>1, KnowledgeKept DEF CompInv, RunOK, ReadSession
<1>4. RecordOK(r)'
  <2>1. copy'[r] = session /\ patch' = patch
    BY DEF CompInv, TypeOK, ReadSession, Set
  <2> QED
    BY <1>1, <2>1, RecordKept DEF CompInv, RunOK
<1>5. PassOK(r)'
  BY DEF CompInv, TypeOK, RunOK, PassOK, Place, Updating, ReadSession, Goto
<1> QED
  BY <1>1, <1>2, <1>3, <1>4, <1>5 DEF RunOK

\* The record that is written describes one summary, whole.
LEMMA DescribedDescribes ==
  ASSUME log \in Seq(Messages), NEW c \in Records, Describes(c), NEW p, PointsAt(p)
  PROVE  Described(c, p) \in Records /\ Describes(Described(c, p))
<1>1. CASE p = 0
  BY <1>1 DEF Described
<1>2. CASE p # 0
  <2>1. p \in SummariesOf(Len(log)) /\ p \in 1..Len(log) /\ p \in Nat
    BY <1>2 DEF PointsAt, SummariesOf
  <2>2. log[p].to \in Nat /\ log[p].from \in Nat /\ log[p].parent \in Nat
    BY <2>1, MessageTypes
  <2>3. Described(c, p)
          = [head |-> p, parent |-> log[p].parent, from |-> log[p].from, to |-> log[p].to]
    BY <1>2 DEF Described
  <2> QED
    BY <2>1, <2>2, <2>3 DEF Records, Describes
<1> QED
  BY <1>1, <1>2

\* An update that is over, or that goes on to record the continuation.
Onwards(r, from) ==
  IF patch[r] > 0 /\ mode[r] = "chat" THEN Update(r, from, 0, next[r])
                                      ELSE Goto(r, from, next[r]) /\ UNCHANGED update

\* The run goes on where updateSession returns to.
LEMMA OnwardsKeeps ==
  ASSUME CompInv, NEW r \in Runs, NEW from \in Updating, Onwards(r, from),
         UNCHANGED <<log, mode, hist, head, outcome, context>>
  PROVE  /\ pc' \in [Runs -> Pcs] /\ patch' \in [Runs -> 0..Len(log')]
         /\ copy' \in [Runs -> Records] /\ next' \in [Runs -> Pcs]
         /\ Grows /\ LogOK' /\ RunOK(r)'
<1>1. Grows /\ LogOK'
  BY StillKeepsLog DEF CompInv, TypeOK
<1>2. /\ pc' \in [Runs -> Pcs] /\ patch' \in [Runs -> 0..Len(log')]
      /\ copy' \in [Runs -> Records] /\ next' \in [Runs -> Pcs]
  <2>1. next[r] \in Pcs /\ "updating" \in Pcs /\ 0 \in 0..Len(log)
    BY DEF CompInv, TypeOK, Pcs
  <2> HIDE DEF Pcs
  <2>2. CASE Update(r, from, 0, next[r])
    BY <2>1, <2>2 DEF CompInv, TypeOK, Goto, Update, Set
  <2>3. CASE Goto(r, from, next[r]) /\ UNCHANGED update
    BY <2>1, <2>3 DEF CompInv, TypeOK, Goto, update
  <2> QED
    BY <2>2, <2>3 DEF Onwards
<1>3. ContextOK(r)' /\ FreshOK(r)' /\ SizeOK(r)'
  BY <1>1, KnowledgeKept DEF CompInv, RunOK
<1>4. RecordOK(r)'
  <2>1. copy'[r] = copy[r] /\ patch'[r] \in {patch[r], 0}
    BY DEF CompInv, TypeOK, Onwards, Update, Set, update
  <2> QED
    BY <1>1, <2>1, RecordKept DEF CompInv, RunOK
<1>5. PassOK(r)'
  BY DEF CompInv, TypeOK, RunOK, PassOK, Place, Updating, Onwards, Goto, Update, Set, update
<1> QED
  BY <1>1, <1>2, <1>3, <1>4, <1>5 DEF RunOK

\* The second half of updateSession.
LEMMA WriteSessionKeeps ==
  ASSUME CompInv, NEW r \in Runs, WriteSession(r)
  PROVE  TypeOK' /\ Grows /\ LogOK' /\ Describes(session)' /\ RunOK(r)'
<1>1. Onwards(r, "writing") /\ "writing" \in Updating
      /\ UNCHANGED <<log, mode, hist, head, outcome, context>>
  BY DEF WriteSession, Onwards, Updating
<1>2. /\ pc' \in [Runs -> Pcs] /\ patch' \in [Runs -> 0..Len(log')]
      /\ copy' \in [Runs -> Records] /\ next' \in [Runs -> Pcs]
      /\ Grows /\ LogOK' /\ RunOK(r)'
  BY <1>1, OnwardsKeeps
<1>3. session' \in Records /\ Describes(session')
  BY DescribedDescribes DEF CompInv, RunOK, RecordOK, TypeOK, WriteSession
<1>4. Describes(session)'
  BY <1>1, <1>3 DEF Describes, SummariesOf
<1>5. TypeOK'
  BY <1>1, <1>2, <1>3 DEF CompInv, TypeOK
<1> QED
  BY <1>2, <1>4, <1>5

\* Either half of it fails.
LEMMA UpdateFailsKeeps ==
  ASSUME CompInv, NEW r \in Runs, UpdateFails(r)
  PROVE  TypeOK' /\ Grows /\ LogOK' /\ Describes(session)' /\ RunOK(r)'
<1>1. PICK from \in Updating : Onwards(r, from)
  BY DEF UpdateFails, Onwards, Updating
<1>2. UNCHANGED <<log, session, mode, hist, head, outcome, context>>
  BY DEF UpdateFails
<1>3. /\ pc' \in [Runs -> Pcs] /\ patch' \in [Runs -> 0..Len(log')]
      /\ copy' \in [Runs -> Records] /\ next' \in [Runs -> Pcs]
      /\ Grows /\ LogOK' /\ RunOK(r)'
  BY <1>1, <1>2, OnwardsKeeps
<1>4. Describes(session)'
  BY <1>2, <1>3, DescribesKept DEF CompInv, TypeOK
<1>5. TypeOK'
  BY <1>2, <1>3 DEF CompInv, TypeOK
<1> QED
  BY <1>3, <1>4, <1>5

\* A run that stores a turn, or gives up.
LEMMA TurnKeeps ==
  ASSUME CompInv, NEW r \in Runs, Continue(r) \/ Answer(r) \/ Abandon(r)
  PROVE  TypeOK' /\ Grows /\ LogOK' /\ Describes(session)' /\ RunOK(r)'
<1>1. Grows /\ LogOK'
  <2>1. log' = log \/ \E m \in {Silent, Turn} : log' = Append(log, m)
    BY DEF Continue, Answer, Abandon
  <2> QED
    BY <2>1, TurnKeepsLog, StillKeepsLog DEF CompInv, TypeOK
<1>2. UNCHANGED <<session, mode, hist, head, outcome, context>>
  BY DEF Continue, Answer, Abandon
<1>3. /\ pc' \in [Runs -> Pcs] /\ copy' = copy /\ next' \in [Runs -> Pcs]
      /\ patch'[r] \in {patch[r], 0} /\ patch' \in [Runs -> 0..Len(log)]
  <2>1. CASE Continue(r) \/ Abandon(r)
    BY <2>1 DEF CompInv, TypeOK, Continue, Abandon, Goto, Pcs, update
  <2>2. CASE Answer(r)
    <3>1. CASE Update(r, "chatting", 0, "idle")
      BY <3>1 DEF CompInv, TypeOK, Update, Goto, Set, Pcs
    <3>2. CASE Goto(r, "replying", "idle") /\ UNCHANGED update
      BY <3>2 DEF CompInv, TypeOK, Goto, Pcs, update
    <3> QED
      BY <2>2, <3>1, <3>2 DEF Answer
  <2> QED
    BY <2>1, <2>2
<1>4. TypeOK'
  <2>1. 0..Len(log) \subseteq 0..Len(log') /\ 1..Len(log) \subseteq 1..Len(log')
        /\ log' \in Seq(Messages)
    BY <1>1 DEF CompInv, TypeOK, Grows
  <2>2. /\ hist' \in [Runs -> 0..Len(log')] /\ head' \in [Runs -> 0..Len(log')]
        /\ patch' \in [Runs -> 0..Len(log')] /\ context' \in [Runs -> SUBSET (1..Len(log'))]
    BY <1>2, <1>3, <2>1 DEF CompInv, TypeOK
  <2> QED
    BY <1>2, <1>3, <2>1, <2>2 DEF CompInv, TypeOK
<1>5. Describes(session)'
  BY <1>1, <1>2, DescribesKept DEF CompInv, TypeOK
<1>6. ContextOK(r)' /\ FreshOK(r)' /\ SizeOK(r)'
  BY <1>1, <1>2, KnowledgeKept DEF CompInv, RunOK
<1>7. RecordOK(r)'
  BY <1>1, <1>3, RecordKept DEF CompInv, RunOK
<1>8. PassOK(r)'
  BY <1>2 DEF CompInv, TypeOK, RunOK, PassOK, Place, Updating, Continue, Answer, Abandon,
              Goto, Update, Set, update
<1> QED
  BY <1>1, <1>4, <1>5, <1>6, <1>7, <1>8 DEF RunOK

-----------------------------------------------------------------------------
(* The theorems *)

\* At the start there is nothing to forget.
LEMMA CompInit == Init => CompInv
<1> SUFFICES ASSUME Init
             PROVE  CompInv
  OBVIOUS
<1>1. Len(log) = 0 /\ log \in Seq(Messages) /\ SummariesOf(Len(log)) = {}
  BY DEF Init, SummariesOf
<1>2. TypeOK
  BY <1>1 DEF Init, TypeOK, Pcs, OutcomeKinds, Records, NoSummary
<1>3. ASSUME NEW r \in Runs
      PROVE  RunOK(r)
  <2>1. pc[r] = "idle" /\ outcome[r] = "none" /\ patch[r] = 0 /\ copy[r] = NoSummary
    BY DEF Init
  <2> QED
    BY <2>1, NoSummaryDescribes
       DEF RunOK, PassOK, Place, Updating, RecordOK, PointsAt, ContextOK, FreshOK, SizeOK
<1> QED
  BY <1>1, <1>2, <1>3, NoSummaryDescribes DEF CompInv, LogOK, Init

\* Every step keeps the invariant: the log and the session by the step's own
\* lemma, the other runs because the log only grows.
LEMMA StepKeeps ==
  ASSUME CompInv, NEW r \in Runs, Step(r)
  PROVE  TypeOK' /\ Grows /\ LogOK' /\ Describes(session)' /\ RunOK(r)'
<1>1. ASSUME NEW m \in {"chat", "compact"}, Prompt(r, m)
      PROVE  TypeOK' /\ Grows /\ LogOK' /\ Describes(session)' /\ RunOK(r)'
  BY <1>1, PromptKeeps
<1>2. CASE ListMessages(r) \/ ListMessagesFails(r)
  BY <1>2, ListMessagesKeeps, ListMessagesFailsKeeps, CompactionAssumption
<1>3. CASE Choose(r)
  BY <1>3, ChooseKeeps, CompactionAssumption
<1>4. CASE SummariseFails(r) \/ SaveSummary(r) \/ SaveSummaryFails(r)
  BY <1>4, SummariseFailsKeeps, SaveSummaryKeeps, SaveSummaryFailsKeeps, CompactionAssumption
<1>5. CASE ReadSession(r) \/ WriteSession(r) \/ UpdateFails(r)
  BY <1>5, ReadSessionKeeps, WriteSessionKeeps, UpdateFailsKeeps
<1>6. CASE Continue(r) \/ Answer(r) \/ Abandon(r)
  BY <1>6, TurnKeeps
<1> QED
  BY <1>1, <1>2, <1>3, <1>4, <1>5, <1>6 DEF Step

\* The invariant is inductive.
LEMMA CompNext == CompInv /\ [Next]_vars => CompInv'
<1> SUFFICES ASSUME CompInv, [Next]_vars
             PROVE  CompInv'
  OBVIOUS
<1>1. CASE Next
  <2>1. PICK r \in Runs : Step(r)
    BY <1>1 DEF Next
  <2>2. TypeOK' /\ Grows /\ LogOK' /\ Describes(session)' /\ RunOK(r)'
    BY <2>1, StepKeeps
  <2>3. ASSUME NEW q \in Runs, q # r
        PROVE  RunOK(q)'
    <3>1. UNCHANGED Mine(q)
      BY <2>1, <2>3, OthersKeep DEF CompInv
    <3> QED
      BY <2>2, <3>1, OtherOK DEF CompInv
  <2>4. \A q \in Runs : RunOK(q)'
    BY <2>2, <2>3
  <2> QED
    BY <2>2, <2>4 DEF CompInv
<1>2. CASE UNCHANGED vars
  <2>1. Grows /\ LogOK'
    BY <1>2, StillKeepsLog DEF CompInv, TypeOK, vars
  <2>2. \A q \in Runs : RunOK(q)'
    BY <1>2, <2>1, OtherOK DEF CompInv, Mine, vars, update
  <2>3. TypeOK'
    BY <1>2 DEF CompInv, TypeOK, vars, update
  <2>4. Describes(session)'
    BY <1>2, <2>1, DescribesKept DEF CompInv, TypeOK, vars
  <2> QED
    BY <2>1, <2>2, <2>3, <2>4 DEF CompInv
<1> QED
  BY <1>1, <1>2

\* It holds of every behaviour.
THEOREM CompactionInvariant == Spec => []CompInv
  BY CompInit, CompNext, PTL DEF Spec

\* Every variable keeps its type, and no run reads beyond the log.
THEOREM TypesKept == Spec => []TypeOK
<1>1. CompInv => TypeOK
  BY DEF CompInv
<1> QED
  BY <1>1, CompactionInvariant, PTL

\* The stored session never mixes the fields of two summaries and never points at a
\* message that is not stored, whichever runs write it and whichever halves of
\* an update fail.
THEOREM SessionDescribesOneSummary == Spec => []HeadDescribed
<1>1. CompInv => HeadDescribed
  BY DEF CompInv, HeadDescribed
<1> QED
  BY <1>1, CompactionInvariant, PTL

\* Compaction forgets nothing but what a summary has passed over and older
\* messages without a text (tool calls), for any number of runs at once and any
\* chain of summaries; and a pass that summarises loses no text.
THEOREM CompactionForgetsNothingElse == Spec => []NothingElseForgotten
<1>1. ASSUME CompInv
      PROVE  OnlyPassedOverForgotten
  BY <1>1 DEF CompInv, RunOK, PassOK, Place, Updating, ContextOK, Gone, OnlyPassedOverForgotten
<1>2. ASSUME CompInv
      PROVE  PassLosesNoText
  BY <1>2 DEF CompInv, RunOK, FreshOK, PassLosesNoText
<1>3. CompInv => NothingElseForgotten
  BY <1>1, <1>2 DEF NothingElseForgotten
<1> QED
  BY <1>3, CompactionInvariant, PTL

\* What is given to the model is bounded by the larger of CompactLimit and
\* CompactKeep, and one summary.
THEOREM ModelInputBounded == Spec => []ContextBounded
<1>1. ASSUME CompInv
      PROVE  ContextBounded
  BY <1>1 DEF CompInv, RunOK, PassOK, Place, Updating, SizeOK, ContextBounded
<1>2. CompInv => ContextBounded
  BY <1>1
<1> QED
  BY <1>2, CompactionInvariant, PTL

-----------------------------------------------------------------------------
(* A run that is alone *)

\* It writes back what it has read, and the summary it records is newer than
\* the one the session points at.
SoleOK(r) ==
  /\ pc[r] = "writing" => copy[r] = session
  /\ pc[r] \in Updating => patch[r] = 0 \/ patch[r] >= session.head

\* The session points at a stored message, or at none.
LEMMA HeadIsStored ==
  ASSUME CompInv
  PROVE  session.head \in Nat /\ session.head <= Len(log)
  BY DEF CompInv, TypeOK, Records, Describes, SummariesOf

\* A step of it keeps that, and the session does not turn back.
LEMMA SoleStep ==
  ASSUME CompInv, NEW r \in Runs, SoleOK(r), Step(r)
  PROVE  SoleOK(r)' /\ session'.head >= session.head
<1>1. session.head \in Nat /\ session.head <= Len(log) /\ Len(log) \in Nat
  BY HeadIsStored DEF CompInv, TypeOK
<1>2. CASE session' = session /\ pc'[r] \notin Updating
  BY <1>1, <1>2 DEF SoleOK, Updating
<1>3. CASE session' = session /\ pc'[r] = "updating" /\ patch'[r] = 0
  BY <1>1, <1>3 DEF SoleOK, Updating
<1>4. ASSUME NEW m \in {"chat", "compact"}, Prompt(r, m)
      PROVE  SoleOK(r)' /\ session'.head >= session.head
  BY <1>2, <1>3, <1>4 DEF CompInv, TypeOK, Prompt, Goto, Update, Set, Updating
<1>5. CASE ListMessages(r) \/ ListMessagesFails(r)
  BY <1>2, <1>3, <1>5 DEF CompInv, TypeOK, ListMessages, ListMessagesFails, Finish, Goto,
                          Update, Set, Updating
<1>6. CASE Choose(r)
  <2>1. PICK s \in Records : ChooseWith(r, s)
    BY <1>6, ChooseUses
  <2> QED
    BY <1>2, <1>3, <2>1 DEF CompInv, TypeOK, ChooseWith, Finish, Goto, Update, Set, Updating
<1>7. CASE SummariseFails(r) \/ SaveSummaryFails(r)
  BY <1>2, <1>3, <1>7 DEF CompInv, TypeOK, SummariseFails, SaveSummaryFails, Finish, Goto,
                          Update, Set, Updating
<1>8. CASE SaveSummary(r)
  <2>1. session' = session /\ pc'[r] = "updating" /\ patch'[r] = Len(log) + 1
    BY <1>8 DEF CompInv, TypeOK, SaveSummary, Update, Goto, Set
  <2> QED
    BY <1>1, <2>1 DEF SoleOK, Updating
<1>9. CASE ReadSession(r)
  <2>1. session' = session /\ patch' = patch /\ copy'[r] = session /\ pc[r] = "updating"
    BY <1>9 DEF CompInv, TypeOK, ReadSession, Goto, Set
  <2> QED
    BY <1>1, <2>1 DEF SoleOK, Updating
<1>10. CASE WriteSession(r)
  <2>1. pc[r] = "writing" /\ copy[r] = session
    BY <1>10 DEF WriteSession, Update, Goto, SoleOK
  <2>2. session'.head >= session.head
    BY <1>1, <1>10, <2>1 DEF WriteSession, Described, SoleOK, Updating
  <2>3. (pc'[r] = "updating" /\ patch'[r] = 0) \/ pc'[r] \notin Updating
    BY <1>10, <2>1 DEF CompInv, TypeOK, RunOK, PassOK, WriteSession, Update, Goto, Set, Updating
  <2> QED
    BY <2>2, <2>3 DEF SoleOK, Updating
<1>11. CASE UpdateFails(r)
  BY <1>2, <1>3, <1>11 DEF CompInv, TypeOK, RunOK, PassOK, UpdateFails, Update, Goto, Set,
                           Updating
<1>12. CASE Continue(r)
  <2>1. UNCHANGED <<session, pc, patch, copy>> /\ pc[r] = "chatting"
    BY <1>12 DEF Continue, update
  <2> QED
    BY <1>2, <2>1 DEF Updating
<1>13. CASE Answer(r) \/ Abandon(r)
  BY <1>2, <1>3, <1>13 DEF CompInv, TypeOK, Answer, Abandon, Goto, Update, Set, Updating
<1> QED
  BY <1>4, <1>5, <1>6, <1>7, <1>8, <1>9, <1>10, <1>11, <1>12, <1>13 DEF Step

\* With one place for runs, the session only moves on to newer summaries. (With
\* two it turns back: a copy read before the other's write is written after.)
THEOREM SoleRunAdvances ==
  ASSUME NEW r, Runs = {r}
  PROVE  Spec => HeadAdvances
<1>1. Init => SoleOK(r)
  BY DEF Init, SoleOK, Updating
<1>2. ASSUME CompInv, SoleOK(r), [Next]_vars
      PROVE  SoleOK(r)' /\ (session'.head >= session.head)
  <2>1. CASE Next
    <3>1. Step(r) /\ r \in Runs
      BY <2>1 DEF Next
    <3> QED
      BY <1>2, <3>1, SoleStep
  <2>2. CASE UNCHANGED vars
    <3>1. session.head \in Nat
      BY <1>2, HeadIsStored
    <3> QED
      BY <1>2, <2>2, <3>1 DEF SoleOK, vars, update
  <2> QED
    BY <1>2, <2>1, <2>2
<1>3. CompInv /\ SoleOK(r) /\ [Next]_vars => SoleOK(r)'
  BY <1>2
<1>4. CompInv /\ SoleOK(r) /\ [Next]_vars => [session'.head >= session.head]_vars
  BY <1>2
<1> QED
  BY <1>1, <1>3, <1>4, CompactionInvariant, PTL DEF Spec, HeadAdvances
===============================================================================
