------------------------------ MODULE ClientProofs ------------------------------
(***************************************************************************)
(* What holds of the programs in front of the user: of the prompt for      *)
(* permissions, for every number of runs and requests; of the messages     *)
(* that are shown, for every number of sessions, messages and requests     *)
(* under way; of the event socket and the status loops; and of the start   *)
(* of the desktop shell.                                                   *)
(***************************************************************************)
EXTENDS WebPrompt, WebChat, WebStatus, Desktop, SequenceTheorems, TLAPS

-----------------------------------------------------------------------------
(* The prompt for permissions *)

PromptFrames == ({"request"} \X PromptNumbers) \cup ({"ok", "error"} \X Clicks)

Progress == {"no", "sent", "resolved", "failed", "answered", "over"}

PromptTypeOK ==
  /\ numbered \in 0..MaxRequests
  /\ waiting \in [Runs -> 0..numbered]
  /\ socket \in Seq(PromptFrames)
  /\ prompt \in 0..numbered
  /\ deciding \in [Clicks -> Progress]
  /\ clicked \in [Clicks -> 0..numbered]

\* A request on its way to the client is newer than the prompt, than those
\* before it and than those the user has decided on; it is open or has timed
\* out.
RequestsAhead ==
  \A i \in 1..Len(socket) : socket[i][1] = "request" =>
    /\ prompt < socket[i][2] /\ socket[i][2] <= numbered
    /\ \A c \in Clicks : clicked[c] < socket[i][2]
    /\ Waits(socket[i][2]) \/ socket[i][2] \in late
    /\ \A j \in 1..Len(socket) :
         socket[j][1] = "request" /\ j < i => socket[j][2] < socket[i][2]

\* A decision has one answer on its way, once the handler has written it.
AnswersOnce ==
  \A i \in 1..Len(socket) : socket[i][1] # "request" =>
    /\ deciding[socket[i][2]] = "answered"
    /\ \A j \in 1..Len(socket) :
         socket[j][1] # "request" /\ socket[j][2] = socket[i][2] => i = j

\* Nobody waits for a request that a decision has resolved.
Settled ==
  /\ \A c \in Clicks : deciding[c] # "no" => clicked[c] # 0
  /\ \A c \in Clicks : deciding[c] = "resolved" => ~Waits(clicked[c])
  /\ \A i \in 1..Len(socket) : socket[i][1] = "ok" => ~Waits(clicked[socket[i][2]])

\* Click c has resolved its request, and the client has not been told so.
Unheard(c) ==
  deciding[c] = "resolved" \/ \E i \in 1..Len(socket) : socket[i] = <<"ok", c>>

\* The client has not yet been told that the request of its prompt is resolved.
PromptKept ==
  prompt # 0 => \/ Waits(prompt) \/ prompt \in late
                \/ \E c \in Clicks : clicked[c] = prompt /\ Unheard(c)

\* PromptIsLive is not inductive: that a failed decision leaves the request open,
\* and that the client is told once of each decision, are needed for it.
PromptInv == PromptTypeOK /\ RequestsAhead /\ AnswersOnce /\ Settled /\ PromptKept

-----------------------------------------------------------------------------
(* The socket *)

IsFrame(f) ==
  \/ f[1] = "request" /\ f[2] \in PromptNumbers
  \/ f[1] \in {"ok", "error"} /\ f[2] \in Clicks

\* What is on its way is made up of frames.
LEMMA SocketOfFrames ==
  ASSUME socket \in Seq(PromptFrames)
  PROVE  Len(socket) \in Nat /\ \A i \in 1..Len(socket) : IsFrame(socket[i])
<1>1. \A i \in 1..Len(socket) : socket[i] \in PromptFrames
  BY ElementOfSeq
<1>2. \A f \in PromptFrames : IsFrame(f)
  BY DEF PromptFrames, IsFrame
<1> QED BY <1>1, <1>2, LenProperties

\* What the service writes comes last.
LEMMA Written ==
  ASSUME socket \in Seq(PromptFrames), NEW f \in PromptFrames, socket' = Append(socket, f)
  PROVE  /\ socket' \in Seq(PromptFrames) /\ Len(socket) \in Nat
         /\ Len(socket') = Len(socket) + 1
         /\ socket'[Len(socket) + 1] = f
         /\ \A i \in 1..Len(socket) : socket'[i] = socket[i] /\ IsFrame(socket[i])
         /\ \A i \in 1..Len(socket') : i \in 1..Len(socket) \/ i = Len(socket) + 1
  BY AppendProperties, LenProperties, SocketOfFrames

\* What the client takes came first, and the rest moves up.
LEMMA FrameTaken ==
  ASSUME socket \in Seq(PromptFrames), NEW kind, Receives(kind)
  PROVE  /\ socket' \in Seq(PromptFrames) /\ Len(socket) \in Nat \ {0}
         /\ Head(socket) = socket[1] /\ IsFrame(socket[1]) /\ socket[1][1] = kind
         /\ Len(socket') = Len(socket) - 1
         /\ \A i \in 1..Len(socket') : /\ socket'[i] = socket[i + 1] /\ IsFrame(socket[i + 1])
                                        /\ i + 1 \in 1..Len(socket)
<1>1. socket # <<>> /\ Head(socket)[1] = kind /\ socket' = Tail(socket)
  BY DEF Receives
<1>2. Len(socket) \in Nat \ {0}
  BY <1>1, EmptySeq
<1>3. Head(socket) = socket[1] /\ IsFrame(socket[1])
  BY <1>1, <1>2, SocketOfFrames
<1>4. /\ socket' \in Seq(PromptFrames) /\ Len(socket') = Len(socket) - 1
      /\ \A i \in 1..Len(socket') : socket'[i] = socket[i + 1]
  BY <1>1, HeadTailProperties
<1>5. \A i \in 1..Len(socket') : i + 1 \in 1..Len(socket) /\ IsFrame(socket[i + 1])
  BY <1>2, <1>4, SocketOfFrames
<1> QED BY <1>1, <1>2, <1>3, <1>4, <1>5

-----------------------------------------------------------------------------
(* Steps *)

\* At first nothing is asked, shown or on its way.
LEMMA InitPromptInv == PromptInit => PromptInv
<1> SUFFICES ASSUME PromptInit PROVE PromptInv
  OBVIOUS
<1> USE WebPromptAssumption DEF PromptInit
<1>1. socket \in Seq(PromptFrames) /\ Len(socket) = 0
  BY EmptySeq
<1>2. PromptTypeOK
  BY <1>1 DEF PromptTypeOK, Progress
<1>3. RequestsAhead /\ AnswersOnce /\ PromptKept
  BY <1>1 DEF RequestsAhead, AnswersOnce, PromptKept
<1>4. Settled
  BY <1>1 DEF Settled
<1> QED BY <1>2, <1>3, <1>4 DEF PromptInv

\* A run that waits for nothing asks: its request is the newest.
LEMMA AsksKeeps ==
  ASSUME PromptInv, NEW r \in Runs, Asks(r)
  PROVE  PromptInv'
<1> USE WebPromptAssumption DEF PromptNumbers
<1> DEFINE q == numbered + 1
<1>1. /\ q \in PromptNumbers /\ numbered' = q /\ numbered \in Nat /\ waiting[r] = 0
      /\ waiting' = [waiting EXCEPT ![r] = q]
      /\ UNCHANGED <<prompt, deciding, clicked, late>>
      /\ prompt \in 0..numbered /\ clicked \in [Clicks -> 0..numbered]
  BY DEF Asks, PromptInv, PromptTypeOK
<1>2. <<"request", q>> \in PromptFrames
  BY <1>1 DEF PromptFrames
<1>3. /\ socket' \in Seq(PromptFrames) /\ Len(socket) \in Nat
      /\ Len(socket') = Len(socket) + 1
      /\ socket'[Len(socket) + 1] = <<"request", q>>
      /\ \A i \in 1..Len(socket) : socket'[i] = socket[i] /\ IsFrame(socket[i])
      /\ \A i \in 1..Len(socket') : i \in 1..Len(socket) \/ i = Len(socket) + 1
  BY <1>2, Written DEF Asks, PromptInv, PromptTypeOK
<1>4. \A k \in PromptNumbers : Waits(k)' <=> Waits(k) \/ k = q
  BY <1>1 DEF Waits, PromptInv, PromptTypeOK
<1>5. /\ \A c \in Clicks : clicked[c] \in 0..numbered /\ clicked[c] < q
      /\ \A c \in Clicks : deciding[c] # "no" => (Waits(clicked[c])' <=> Waits(clicked[c]))
  <2>1. \A c \in Clicks : clicked[c] \in 0..numbered /\ clicked[c] < q
    BY <1>1
  <2>2. \A c \in Clicks : deciding[c] # "no" => clicked[c] \in PromptNumbers /\ clicked[c] # q
    BY <1>1, <2>1 DEF PromptInv, Settled
  <2>3. ASSUME NEW c \in Clicks, deciding[c] # "no"
        PROVE  Waits(clicked[c])' <=> Waits(clicked[c])
    <3>1. clicked'[c] = clicked[c] /\ clicked[c] \in PromptNumbers /\ clicked[c] # q
      BY <1>1, <2>2, <2>3
    <3> HIDE DEF q
    <3> QED BY <1>4, <3>1 DEF Waits
  <2> QED BY <2>1, <2>3
<1>6. PromptTypeOK'
  BY <1>1, <1>3 DEF PromptInv, PromptTypeOK
<1>7. RequestsAhead'
  <2>1. ASSUME NEW i \in 1..Len(socket), socket[i][1] = "request"
        PROVE  socket[i][2] < q
    BY <2>1, <1>1, <1>3 DEF PromptInv, RequestsAhead, IsFrame
  <2>2. ASSUME NEW i \in 1..Len(socket'), socket'[i][1] = "request"
        PROVE  /\ prompt' < socket'[i][2] /\ socket'[i][2] <= numbered'
               /\ \A c \in Clicks : clicked'[c] < socket'[i][2]
               /\ Waits(socket[i][2])' \/ socket'[i][2] \in late'
    <3>1. CASE i \in 1..Len(socket)
      <4>1. /\ socket'[i] = socket[i] /\ socket[i][1] = "request" /\ socket[i][2] \in PromptNumbers
            /\ prompt < socket[i][2] /\ socket[i][2] <= numbered
            /\ \A c \in Clicks : clicked[c] < socket[i][2]
            /\ Waits(socket[i][2]) \/ socket[i][2] \in late
        BY <2>2, <3>1, <1>3 DEF PromptInv, RequestsAhead, IsFrame
      <4>2. Waits(socket[i][2])' \/ socket'[i][2] \in late'
        BY <4>1, <1>1, <1>4 DEF Waits
      <4>3. prompt' < socket'[i][2] /\ socket'[i][2] <= numbered'
        BY <4>1, <1>1
      <4>4. \A c \in Clicks : clicked'[c] < socket'[i][2]
        BY <4>1, <1>1
      <4> QED BY <4>2, <4>3, <4>4
    <3>2. CASE i = Len(socket) + 1
      BY <3>2, <1>1, <1>3, <1>4, <1>5
    <3> QED BY <3>1, <3>2, <1>3
  <2>3. ASSUME NEW i \in 1..Len(socket'), NEW j \in 1..Len(socket'), j < i,
               socket'[i][1] = "request", socket'[j][1] = "request"
        PROVE  socket'[j][2] < socket'[i][2]
    <3>1. j \in 1..Len(socket) /\ socket'[j] = socket[j]
      BY <2>3, <1>3
    <3> QED BY <2>1, <2>3, <3>1, <1>3 DEF PromptInv, RequestsAhead
  <2> QED BY <2>2, <2>3 DEF RequestsAhead, Waits
<1>8. \A i \in 1..Len(socket') : socket'[i][1] # "request" =>
        i \in 1..Len(socket) /\ socket'[i] = socket[i]
  BY <1>3
<1>9. AnswersOnce'
  BY <1>1, <1>8 DEF PromptInv, AnswersOnce
<1>10. Settled'
  <2>1. ASSUME NEW i \in 1..Len(socket'), socket'[i][1] = "ok"
        PROVE  ~Waits(clicked[socket[i][2]])'
    <3>1. i \in 1..Len(socket) /\ socket'[i] = socket[i] /\ socket[i][2] \in Clicks
      BY <2>1, <1>3, <1>8 DEF IsFrame
    <3>2. deciding[socket[i][2]] = "answered" /\ ~Waits(clicked[socket[i][2]])
      BY <2>1, <3>1 DEF PromptInv, AnswersOnce, Settled
    <3> QED BY <3>1, <3>2, <1>1, <1>5
  <2>2. \A c \in Clicks : deciding'[c] = "resolved" => ~Waits(clicked[c])'
    BY <1>1, <1>5 DEF PromptInv, Settled
  <2>3. \A i \in 1..Len(socket') : socket'[i][1] = "ok" => socket'[i] = socket[i]
    BY <1>8
  <2> QED BY <1>1, <2>1, <2>2, <2>3 DEF PromptInv, Settled, Waits
<1>11. PromptKept'
  <2>1. prompt # 0 => prompt \in PromptNumbers
    BY <1>1
  <2>2. ASSUME NEW c \in Clicks, Unheard(c)
        PROVE  Unheard(c)'
    <3>1. ASSUME NEW i \in 1..Len(socket), socket[i] = <<"ok", c>>
          PROVE  i \in 1..Len(socket') /\ socket'[i] = <<"ok", c>>
      BY <3>1, <1>3
    <3> QED BY <2>2, <3>1, <1>1 DEF Unheard
  <2> QED BY <2>1, <2>2, <1>1, <1>4 DEF PromptInv, PromptKept
<1> QED BY <1>6, <1>7, <1>9, <1>10, <1>11 DEF PromptInv

\* A request that is no longer waited for has timed out.
LEMMA TimesOutKeeps ==
  ASSUME PromptInv, NEW r \in Runs, TimesOut(r)
  PROVE  PromptInv'
<1> USE WebPromptAssumption DEF PromptNumbers
<1>1. /\ UNCHANGED <<numbered, socket, prompt, deciding, clicked>>
      /\ late' = late \cup {waiting[r]}
      /\ waiting' = [waiting EXCEPT ![r] = 0]
  BY DEF TimesOut
<1>2. \A k \in PromptNumbers : Waits(k) => Waits(k)' \/ k \in late'
  BY <1>1 DEF Waits, PromptInv, PromptTypeOK
<1>3. \A k \in PromptNumbers : Waits(k)' => Waits(k)
  BY <1>1 DEF Waits, PromptInv, PromptTypeOK
<1>4. \A i \in 1..Len(socket) : IsFrame(socket[i])
  BY SocketOfFrames DEF PromptInv, PromptTypeOK
<1>5. PromptTypeOK'
  BY <1>1 DEF PromptInv, PromptTypeOK
<1>6. RequestsAhead'
  BY <1>1, <1>2, <1>4 DEF PromptInv, RequestsAhead, IsFrame
<1>7. AnswersOnce'
  BY <1>1 DEF PromptInv, AnswersOnce
<1>8. Settled'
  <2>1. \A c \in Clicks : deciding[c] # "no" => clicked[c] \in PromptNumbers
    BY DEF PromptInv, PromptTypeOK, Settled
  <2>2. \A i \in 1..Len(socket) : socket[i][1] = "ok" => clicked[socket[i][2]] \in PromptNumbers
    BY <2>1, <1>4 DEF PromptInv, AnswersOnce, IsFrame
  <2> QED BY <2>1, <2>2, <1>1, <1>3 DEF PromptInv, Settled
<1>9. PromptKept'
  <2>1. prompt # 0 => prompt \in PromptNumbers
    BY DEF PromptInv, PromptTypeOK
  <2> QED BY <2>1, <1>1, <1>2 DEF PromptInv, PromptKept, Unheard
<1> QED BY <1>5, <1>6, <1>7, <1>8, <1>9 DEF PromptInv

\* The handler's steps but its answer.  A request that is decided on is no
\* longer on its way to the client.
LEMMA ResolveKeeps ==
  ASSUME PromptInv, NEW c \in Clicks, Resolves(c) \/ ResolveFails(c)
  PROVE  PromptInv'
<1> USE WebPromptAssumption DEF PromptNumbers
<1> DEFINE how == deciding'[c]
           q == clicked[c]
<1>1. /\ UNCHANGED <<numbered, socket, prompt, clicked, late>>
      /\ deciding[c] = "sent" /\ deciding' = [deciding EXCEPT ![c] = how]
      /\ how \in {"resolved", "failed"}
  BY DEF Resolves, ResolveFails, Decided, PromptInv, PromptTypeOK
<1>2. q \in PromptNumbers
  BY <1>1 DEF PromptInv, PromptTypeOK, Settled
<1>3. waiting' \in [Runs -> 0..numbered]
  BY DEF Resolves, ResolveFails, PromptInv, PromptTypeOK
<1>4. \A k \in PromptNumbers : Waits(k)' => Waits(k)
  BY DEF Resolves, ResolveFails, Waits, PromptInv, PromptTypeOK
<1>5. \A k \in PromptNumbers : k # q /\ Waits(k) => Waits(k)'
  BY DEF Resolves, ResolveFails, Waits, PromptInv, PromptTypeOK
<1>6. IF how = "resolved" THEN ~Waits(q)' ELSE Waits(q)' <=> Waits(q)
  BY <1>1, <1>2 DEF Resolves, ResolveFails, Decided, Waits, PromptInv, PromptTypeOK
<1>7. \A i \in 1..Len(socket) : IsFrame(socket[i])
  BY SocketOfFrames DEF PromptInv, PromptTypeOK
<1>8. \A k \in Clicks : deciding'[k] = IF k = c THEN how ELSE deciding[k]
  BY <1>1 DEF PromptInv, PromptTypeOK
<1>9. \A i \in 1..Len(socket) : socket[i][1] # "request" => socket[i][2] \in Clicks \ {c}
  BY <1>1, <1>7 DEF PromptInv, AnswersOnce, IsFrame
<1>10. PromptTypeOK'
  BY <1>1, <1>3 DEF PromptInv, PromptTypeOK, Progress
<1>11. RequestsAhead'
  <2>1. \A i \in 1..Len(socket) : socket[i][1] = "request" =>
          socket[i][2] \in PromptNumbers /\ socket[i][2] # q
    BY <1>2, <1>7 DEF PromptInv, RequestsAhead, IsFrame
  <2> QED BY <2>1, <1>1, <1>5 DEF PromptInv, RequestsAhead
<1>12. AnswersOnce'
  BY <1>1, <1>8, <1>9 DEF PromptInv, AnswersOnce
<1>13. Settled'
  <2>1. \A k \in Clicks : deciding[k] # "no" => clicked[k] \in PromptNumbers
    BY DEF PromptInv, PromptTypeOK, Settled
  <2>2. \A k \in Clicks : deciding'[k] # "no" => clicked'[k] # 0
    BY <1>1, <1>8 DEF PromptInv, Settled
  <2>3. \A k \in Clicks : deciding'[k] = "resolved" => ~Waits(clicked[k])'
    <3>1. CASE how = "resolved"
      BY <3>1, <2>1, <1>1, <1>4, <1>6, <1>8 DEF PromptInv, Settled
    <3>2. CASE how = "failed"
      BY <3>2, <2>1, <1>1, <1>4, <1>8 DEF PromptInv, Settled
    <3> QED BY <3>1, <3>2, <1>1
  <2>4. ASSUME NEW i \in 1..Len(socket'), socket'[i][1] = "ok"
        PROVE  ~Waits(clicked[socket[i][2]])' /\ socket'[i] = socket[i]
    <3>1. /\ socket'[i] = socket[i] /\ i \in 1..Len(socket) /\ socket[i][2] \in Clicks
          /\ deciding[socket[i][2]] = "answered"
      BY <2>4, <1>1, <1>9 DEF PromptInv, AnswersOnce
    <3>2. clicked[socket[i][2]] \in PromptNumbers /\ ~Waits(clicked[socket[i][2]])
      BY <2>1, <2>4, <3>1 DEF PromptInv, Settled
    <3> QED BY <3>1, <3>2, <1>1, <1>4
  <2> QED BY <2>2, <2>3, <2>4, <1>1 DEF Settled, Waits
<1>14. PromptKept'
  <2>1. prompt # 0 => prompt \in PromptNumbers
    BY DEF PromptInv, PromptTypeOK
  <2>2. \A k \in Clicks : Unheard(k) => Unheard(k)'
    BY <1>1, <1>8 DEF Unheard
  <2>3. CASE prompt = q /\ how = "resolved"
    BY <2>3, <1>1 DEF PromptKept, Unheard
  <2>4. CASE ~(prompt = q /\ how = "resolved")
    BY <2>1, <2>2, <2>4, <1>1, <1>5, <1>6 DEF PromptInv, PromptKept
  <2> QED BY <2>3, <2>4
<1> QED BY <1>10, <1>11, <1>12, <1>13, <1>14 DEF PromptInv

\* The answer is written: it is the only one of the decision, and a good one
\* means that nobody waits for the request.
LEMMA HandlerAnswersKeeps ==
  ASSUME PromptInv, NEW c \in Clicks, HandlerAnswers(c)
  PROVE  PromptInv'
<1> USE WebPromptAssumption DEF PromptNumbers
<1> DEFINE f == <<IF deciding[c] = "resolved" THEN "ok" ELSE "error", c>>
<1>1. /\ UNCHANGED <<waiting, numbered, prompt, clicked, late>>
      /\ deciding[c] \in {"resolved", "failed"}
      /\ deciding' = [deciding EXCEPT ![c] = "answered"]
      /\ socket' = Append(socket, f)
  BY DEF HandlerAnswers, Decided
<1>2. /\ f \in PromptFrames /\ f[1] # "request" /\ f[2] = c
      /\ f[1] = "ok" <=> deciding[c] = "resolved"
      /\ deciding[c] = "resolved" => f = <<"ok", c>>
  BY DEF PromptFrames
<1>3. /\ socket' \in Seq(PromptFrames) /\ Len(socket) \in Nat
      /\ Len(socket') = Len(socket) + 1
      /\ socket'[Len(socket) + 1] = f
      /\ \A i \in 1..Len(socket) : socket'[i] = socket[i] /\ IsFrame(socket[i])
      /\ \A i \in 1..Len(socket') : i \in 1..Len(socket) \/ i = Len(socket) + 1
  BY <1>1, <1>2, Written DEF PromptInv, PromptTypeOK
<1>4. \A k \in Clicks : deciding'[k] = IF k = c THEN "answered" ELSE deciding[k]
  BY <1>1 DEF PromptInv, PromptTypeOK
<1>5. \A i \in 1..Len(socket) : socket[i][1] # "request" => socket[i][2] \in Clicks \ {c}
  BY <1>1, <1>3 DEF PromptInv, AnswersOnce, IsFrame
<1> HIDE DEF f
<1>6. PromptTypeOK'
  BY <1>1, <1>3 DEF PromptInv, PromptTypeOK, Progress
<1>7. RequestsAhead'
  <2>1. \A i \in 1..Len(socket') : socket'[i][1] = "request" =>
          i \in 1..Len(socket) /\ socket'[i] = socket[i]
    BY <1>2, <1>3
  <2> SUFFICES ASSUME NEW i \in 1..Len(socket'), socket'[i][1] = "request"
               PROVE  /\ prompt < socket'[i][2] /\ socket'[i][2] <= numbered
                      /\ \A k \in Clicks : clicked[k] < socket'[i][2]
                      /\ Waits(socket'[i][2]) \/ socket'[i][2] \in late
                      /\ \A j \in 1..Len(socket') :
                           socket'[j][1] = "request" /\ j < i => socket'[j][2] < socket'[i][2]
    BY <1>1 DEF RequestsAhead, Waits
  <2>3. i \in 1..Len(socket) /\ socket'[i] = socket[i]
    BY <2>1
  <2>4. /\ prompt < socket[i][2] /\ socket[i][2] <= numbered
        /\ \A k \in Clicks : clicked[k] < socket[i][2]
        /\ Waits(socket[i][2]) \/ socket[i][2] \in late
        /\ \A j \in 1..Len(socket) :
             socket[j][1] = "request" /\ j < i => socket[j][2] < socket[i][2]
    BY <2>3 DEF PromptInv, RequestsAhead
  <2> HIDE DEF Waits
  <2> QED
    BY <2>1, <2>3, <2>4
<1>8. AnswersOnce'
  <2>1. ASSUME NEW i \in 1..Len(socket'), socket'[i][1] # "request"
        PROVE  deciding'[socket'[i][2]] = "answered"
    BY <2>1, <1>2, <1>3, <1>4, <1>5 DEF PromptInv, AnswersOnce
  <2>2. ASSUME NEW i \in 1..Len(socket'), NEW j \in 1..Len(socket'),
               socket'[i][1] # "request", socket'[j][1] # "request",
               socket'[j][2] = socket'[i][2]
        PROVE  i = j
    <3>1. CASE i \in 1..Len(socket) /\ j \in 1..Len(socket)
      BY <2>2, <3>1, <1>3 DEF PromptInv, AnswersOnce
    <3>2. CASE ~(i \in 1..Len(socket) /\ j \in 1..Len(socket))
      BY <2>2, <3>2, <1>2, <1>3, <1>5
    <3> QED BY <3>1, <3>2
  <2> QED BY <2>1, <2>2 DEF AnswersOnce
<1>9. Settled'
  <2>1. \A k \in Clicks : deciding'[k] # "no" => clicked'[k] # 0
    BY <1>1, <1>4 DEF PromptInv, Settled
  <2>2. \A k \in Clicks : deciding'[k] = "resolved" => ~Waits(clicked[k])'
    BY <1>1, <1>4 DEF PromptInv, Settled, Waits
  <2>3. ASSUME NEW i \in 1..Len(socket'), socket'[i][1] = "ok",
               NEW r \in Runs
        PROVE  waiting'[r] # clicked'[socket'[i][2]]
    <3>1. CASE i \in 1..Len(socket)
      BY <2>3, <3>1, <1>1, <1>3 DEF PromptInv, Settled, Waits
    <3>2. CASE i = Len(socket) + 1
      <4>1. deciding[c] = "resolved"
        BY <2>3, <3>2, <1>2, <1>3
      <4> QED BY <4>1, <3>2, <1>1, <1>2, <1>3 DEF PromptInv, Settled, Waits
    <3> QED BY <3>1, <3>2, <1>3
  <2> QED BY <2>1, <2>2, <2>3 DEF Settled, Waits
<1>10. PromptKept'
  <2>1. ASSUME NEW k \in Clicks, Unheard(k)
        PROVE  Unheard(k)'
    <3>1. CASE deciding[k] = "resolved" /\ k = c
      <4>1. Len(socket) + 1 \in 1..Len(socket') /\ socket'[Len(socket) + 1] = <<"ok", k>>
        BY <3>1, <1>2, <1>3
      <4> QED BY <4>1 DEF Unheard
    <3>2. CASE deciding[k] = "resolved" /\ k # c
      BY <3>2, <1>4 DEF Unheard
    <3>3. ASSUME NEW i \in 1..Len(socket), socket[i] = <<"ok", k>>
          PROVE  Unheard(k)'
      BY <3>3, <1>3 DEF Unheard
    <3> QED BY <2>1, <3>1, <3>2, <3>3 DEF Unheard
  <2> QED BY <2>1, <1>1 DEF PromptInv, PromptKept, Waits
<1> QED BY <1>6, <1>7, <1>8, <1>9, <1>10 DEF PromptInv

\* What is behind the first frame keeps its place among the others.
LEMMA RestOfSocket ==
  ASSUME PromptInv, NEW kind, Receives(kind), UNCHANGED <<waiting, numbered, clicked, late>>,
         kind = "request" => prompt' = socket[1][2] /\ deciding' = deciding,
         kind # "request" => /\ prompt' \in {0, prompt}
                             /\ deciding' = [deciding EXCEPT ![socket[1][2]] = "over"]
  PROVE  RequestsAhead' /\ AnswersOnce' /\ Settled'
<1> USE WebPromptAssumption DEF PromptNumbers
<1>1. /\ Len(socket) \in Nat \ {0} /\ IsFrame(socket[1]) /\ socket[1][1] = kind
      /\ Len(socket') = Len(socket) - 1
      /\ \A i \in 1..Len(socket') : /\ socket'[i] = socket[i + 1] /\ IsFrame(socket[i + 1])
                                     /\ i + 1 \in 1..Len(socket)
  BY FrameTaken DEF PromptInv, PromptTypeOK
<1>2. RequestsAhead'
  <2>1. ASSUME NEW i \in 1..Len(socket'), socket'[i][1] = "request"
        PROVE  prompt' < socket'[i][2]
    <3>1. /\ i + 1 \in 1..Len(socket) /\ socket[i + 1] = socket'[i] /\ socket[i + 1][2] \in Nat \ {0}
      BY <1>1, <2>1 DEF IsFrame
    <3>2. prompt < socket'[i][2] /\ (kind = "request" => socket[1][2] < socket'[i][2])
      BY <2>1, <3>1, <1>1 DEF PromptInv, RequestsAhead
    <3> QED BY <3>1, <3>2
  <2>2. ASSUME NEW i \in 1..Len(socket'), NEW j \in 1..Len(socket'),
               socket'[i][1] = "request", socket'[j][1] = "request" /\ j < i
        PROVE  socket'[j][2] < socket'[i][2]
    <3>1. /\ i + 1 \in 1..Len(socket) /\ socket[i + 1] = socket'[i]
          /\ j + 1 \in 1..Len(socket) /\ socket[j + 1] = socket'[j]
      BY <1>1
    <3>2. j + 1 < i + 1
      BY <2>2
    <3> QED BY <2>2, <3>1, <3>2 DEF PromptInv, RequestsAhead
  <2>3. ASSUME NEW i \in 1..Len(socket'), socket'[i][1] = "request"
        PROVE  /\ socket'[i][2] <= numbered'
               /\ \A c \in Clicks : clicked'[c] < socket'[i][2]
               /\ Waits(socket[i][2])' \/ socket'[i][2] \in late'
    BY <2>3, <1>1 DEF PromptInv, RequestsAhead, Waits
  <2>4. ASSUME NEW i \in 1..Len(socket'), socket'[i][1] = "request"
        PROVE  /\ prompt' < socket'[i][2] /\ socket'[i][2] <= numbered'
               /\ \A c \in Clicks : clicked'[c] < socket'[i][2]
               /\ Waits(socket[i][2])' \/ socket'[i][2] \in late'
               /\ \A j \in 1..Len(socket') :
                    socket'[j][1] = "request" /\ j < i => socket'[j][2] < socket'[i][2]
    BY <2>1, <2>2, <2>3, <2>4, Zenon
  <2> QED BY <2>4, Zenon DEF RequestsAhead
<1>3. ASSUME NEW i \in 1..Len(socket'), socket'[i][1] # "request"
      PROVE  /\ i + 1 \in 1..Len(socket) /\ socket[i + 1] = socket'[i] /\ socket'[i][2] \in Clicks
             /\ deciding[socket'[i][2]] = "answered"
             /\ deciding'[socket'[i][2]] = "answered"
  <2>1. /\ i + 1 \in 1..Len(socket) /\ socket[i + 1] = socket'[i] /\ socket'[i][2] \in Clicks
        /\ i + 1 # 1
    BY <1>1, <1>3 DEF IsFrame
  <2>2. deciding[socket'[i][2]] = "answered"
    BY <1>3, <2>1 DEF PromptInv, AnswersOnce
  <2>3. kind # "request" => socket[1][2] # socket'[i][2]
    BY <1>1, <1>3, <2>1 DEF PromptInv, AnswersOnce
  <2> QED BY <2>1, <2>2, <2>3 DEF PromptInv, PromptTypeOK
<1>4. AnswersOnce'
  <2>1. ASSUME NEW i \in 1..Len(socket'), socket'[i][1] # "request"
        PROVE  /\ deciding'[socket'[i][2]] = "answered"
               /\ \A j \in 1..Len(socket') :
                    socket'[j][1] # "request" /\ socket'[j][2] = socket'[i][2] => i = j
    <3>1. /\ i + 1 \in 1..Len(socket) /\ socket[i + 1] = socket'[i]
          /\ \A j \in 1..Len(socket') : j + 1 \in 1..Len(socket) /\ socket[j + 1] = socket'[j]
      BY <1>1
    <3>2. \A j \in 1..Len(socket') :
            socket'[j][1] # "request" /\ socket'[j][2] = socket'[i][2] => i + 1 = j + 1
      <4>1. \A k \in 1..Len(socket) :
              socket[k][1] # "request" /\ socket[k][2] = socket[i + 1][2] => i + 1 = k
        BY <2>1, <3>1 DEF PromptInv, AnswersOnce
      <4> QED
        BY <3>1, <4>1
    <3> QED BY <2>1, <1>3, <3>2
  <2> QED BY <2>1, Zenon DEF AnswersOnce
<1>5. Settled'
  <2>1. \A c \in Clicks : deciding'[c] # "no" => deciding[c] # "no"
    <3>1. CASE kind = "request"
      BY <3>1
    <3>2. CASE kind # "request"
      <4>1. socket[1][2] \in Clicks /\ deciding[socket[1][2]] = "answered"
        BY <3>2, <1>1 DEF PromptInv, AnswersOnce, IsFrame
      <4> QED BY <3>2, <4>1 DEF PromptInv, PromptTypeOK
    <3> QED BY <3>1, <3>2
  <2>2. \A c \in Clicks : deciding'[c] = "resolved" => deciding[c] = "resolved"
    BY <1>1 DEF PromptInv, PromptTypeOK, IsFrame
  <2>3. ASSUME NEW i \in 1..Len(socket'), socket'[i][1] = "ok"
        PROVE  ~Waits(clicked[socket[i][2]])'
    BY <2>3, <1>3 DEF PromptInv, Settled, Waits
  <2> QED BY <2>1, <2>2, <2>3 DEF PromptInv, Settled, Waits
<1> QED BY <1>2, <1>4, <1>5

\* The newest request is shown.
LEMMA ReceiveRequestKeeps ==
  ASSUME PromptInv, ReceiveRequest
  PROVE  PromptInv'
<1> USE WebPromptAssumption DEF PromptNumbers
<1>1. /\ socket' \in Seq(PromptFrames) /\ Len(socket) \in Nat \ {0}
      /\ Head(socket) = socket[1] /\ IsFrame(socket[1]) /\ socket[1][1] = "request"
  BY FrameTaken DEF ReceiveRequest, PromptInv, PromptTypeOK
<1>2. /\ prompt' = socket[1][2] /\ Receives("request")
      /\ UNCHANGED <<waiting, numbered, deciding, clicked, late>>
  BY <1>1 DEF ReceiveRequest
<1>3. socket[1][2] <= numbered /\ (Waits(socket[1][2]) \/ socket[1][2] \in late)
  BY <1>1 DEF PromptInv, RequestsAhead
<1>4. PromptTypeOK'
  BY <1>1, <1>2, <1>3 DEF PromptInv, PromptTypeOK, IsFrame
<1>5. RequestsAhead' /\ AnswersOnce' /\ Settled'
  BY <1>2, RestOfSocket
<1>6. PromptKept'
  BY <1>2, <1>3 DEF PromptKept, Waits
<1> QED BY <1>4, <1>5, <1>6 DEF PromptInv

\* The user decides, once or once more: there is no answer to it yet.
LEMMA DecideKeeps ==
  ASSUME PromptInv, NEW c \in Clicks, Decide(c)
  PROVE  PromptInv'
<1> USE WebPromptAssumption DEF PromptNumbers
<1>1. /\ UNCHANGED <<waiting, numbered, prompt, late, socket>>
      /\ deciding[c] = "no" /\ prompt \in PromptNumbers /\ prompt <= numbered
      /\ deciding' = [deciding EXCEPT ![c] = "sent"]
      /\ clicked' = [clicked EXCEPT ![c] = prompt]
  BY DEF Decide, Decided, PromptInv, PromptTypeOK
<1>2. \A k \in Clicks : /\ deciding'[k] = IF k = c THEN "sent" ELSE deciding[k]
                        /\ clicked'[k] = IF k = c THEN prompt ELSE clicked[k]
  BY <1>1 DEF PromptInv, PromptTypeOK
<1>3. Len(socket) \in Nat /\ \A i \in 1..Len(socket) : IsFrame(socket[i])
  BY SocketOfFrames DEF PromptInv, PromptTypeOK
<1>4. \A i \in 1..Len(socket) : socket[i][1] # "request" => socket[i][2] \in Clicks \ {c}
  BY <1>1, <1>3 DEF PromptInv, AnswersOnce, IsFrame
<1>5. PromptTypeOK'
  BY <1>1 DEF PromptInv, PromptTypeOK, Progress
<1>6. RequestsAhead'
  BY <1>1, <1>2 DEF PromptInv, RequestsAhead, Waits
<1>7. AnswersOnce'
  BY <1>1, <1>2, <1>4 DEF PromptInv, AnswersOnce
<1>8. Settled'
  <2>1. \A i \in 1..Len(socket) : socket[i][1] = "ok" =>
          clicked'[socket[i][2]] = clicked[socket[i][2]]
    BY <1>2, <1>4
  <2> QED BY <2>1, <1>1, <1>2 DEF PromptInv, Settled, Waits
<1>9. PromptKept'
  <2>1. \A k \in Clicks : Unheard(k) => k # c /\ Unheard(k)'
    BY <1>1, <1>2, <1>4 DEF Unheard
  <2> QED BY <2>1, <1>1, <1>2 DEF PromptInv, PromptKept, Waits
<1> QED BY <1>5, <1>6, <1>7, <1>8, <1>9 DEF PromptInv

\* The answer of a decision is taken.
LEMMA ReceiveAnswerKeeps ==
  ASSUME PromptInv, ReceiveOK \/ ReceiveError
  PROVE  PromptInv'
<1> USE WebPromptAssumption DEF PromptNumbers
<1> DEFINE c == socket[1][2]
<1>1. PICK kind \in {"ok", "error"} :
        /\ Receives(kind) /\ Decided(Head(socket)[2], "over")
        /\ prompt' = IF kind = "ok" THEN 0 ELSE prompt
        /\ UNCHANGED <<waiting, numbered, clicked, late>>
  BY DEF ReceiveOK, ReceiveError
<1>2. /\ socket' \in Seq(PromptFrames) /\ Len(socket) \in Nat \ {0}
      /\ Head(socket) = socket[1] /\ IsFrame(socket[1]) /\ socket[1][1] = kind
      /\ Len(socket') = Len(socket) - 1
      /\ \A i \in 1..Len(socket') : /\ socket'[i] = socket[i + 1] /\ IsFrame(socket[i + 1])
                                     /\ i + 1 \in 1..Len(socket)
  BY <1>1, FrameTaken DEF PromptInv, PromptTypeOK
<1>3. c \in Clicks /\ deciding' = [deciding EXCEPT ![c] = "over"] /\ deciding[c] = "answered"
  <2>1. c \in Clicks /\ socket[1][1] # "request" /\ 1 \in 1..Len(socket)
    BY <1>2 DEF IsFrame
  <2>2. deciding[c] = "answered"
    BY <2>1 DEF PromptInv, AnswersOnce
  <2> QED BY <1>1, <1>2, <2>1, <2>2 DEF Decided
<1>4. PromptTypeOK'
  BY <1>1, <1>2, <1>3 DEF PromptInv, PromptTypeOK, Progress
<1>5. RequestsAhead' /\ AnswersOnce' /\ Settled'
  BY <1>1, <1>3, RestOfSocket
<1>6. PromptKept'
  <2> SUFFICES ASSUME prompt' # 0 PROVE PromptKept'
    BY DEF PromptKept
  <2>1. kind = "error" /\ prompt' = prompt
    BY <1>1
  <2>2. ASSUME NEW k \in Clicks, Unheard(k)
        PROVE  Unheard(k)'
    <3>1. CASE deciding[k] = "resolved"
      BY <3>1, <1>3 DEF Unheard, PromptInv, PromptTypeOK
    <3>2. ASSUME NEW i \in 1..Len(socket), socket[i] = <<"ok", k>>
          PROVE  Unheard(k)'
      <4>1. i # 1
        BY <2>1, <3>2, <1>2
      <4>2. i - 1 \in 1..Len(socket') /\ socket'[i - 1] = socket[i]
        BY <4>1, <1>2
      <4> QED BY <3>2, <4>2 DEF Unheard
    <3> QED BY <2>2, <3>1, <3>2 DEF Unheard
  <2> QED BY <2>1, <2>2, <1>1 DEF PromptInv, PromptKept, Waits
<1> QED BY <1>4, <1>5, <1>6 DEF PromptInv

\* Every step keeps the invariant.
LEMMA NextPromptInv == PromptInv /\ [PromptNext]_promptVars => PromptInv'
<1> SUFFICES ASSUME PromptInv, [PromptNext]_promptVars PROVE PromptInv'
  OBVIOUS
<1>1. CASE \E r \in Runs : Asks(r) \/ TimesOut(r)
  BY <1>1, AsksKeeps, TimesOutKeeps
<1>2. CASE \E c \in Clicks : Decide(c) \/ Resolves(c) \/ ResolveFails(c) \/ HandlerAnswers(c)
  BY <1>2, DecideKeeps, ResolveKeeps, HandlerAnswersKeeps
<1>3. CASE ReceiveRequest
  BY <1>3, ReceiveRequestKeeps
<1>4. CASE ReceiveOK \/ ReceiveError
  BY <1>4, ReceiveAnswerKeeps
<1>5. CASE UNCHANGED promptVars
  BY <1>5 DEF promptVars, PromptInv, PromptTypeOK, RequestsAhead, AnswersOnce, Settled,
              PromptKept, Unheard, Waits
<1> QED BY <1>1, <1>2, <1>3, <1>4, <1>5 DEF PromptNext

\* The invariant holds in every state.
LEMMA PromptInvHolds == PromptSpec => []PromptInv
  BY InitPromptInv, NextPromptInv, PTL DEF PromptSpec

-----------------------------------------------------------------------------
(* Theorems *)

\* A prompt is for a request that is open, or timed out, or being decided.
LEMMA InvPromptIsLive == PromptInv => PromptIsLive
<1> SUFFICES ASSUME PromptInv PROVE PromptIsLive
  OBVIOUS
<1> USE WebPromptAssumption DEF PromptNumbers
<1>1. prompt \in 0..MaxRequests
  BY DEF PromptInv, PromptTypeOK
<1>2. ASSUME NEW c \in Clicks, Unheard(c)
      PROVE  c \in OnTheirWay
  <2>1. ASSUME NEW i \in 1..Len(socket), socket[i] = <<"ok", c>>
        PROVE  deciding[c] = "answered"
    BY <2>1 DEF PromptInv, AnswersOnce
  <2> QED BY <1>2, <2>1 DEF Unheard, OnTheirWay
<1> QED BY <1>1, <1>2 DEF PromptIsLive, PromptInv, PromptKept

\* However many runs ask for permissions, however many requests they make and
\* however often the user decides: no prompt is for a request that the client
\* knows was decided.
THEOREM PromptLive == PromptSpec => []PromptIsLive
  BY PromptInvHolds, InvPromptIsLive, PTL

\* A step that takes away the prompt of an open request shows a newer one, or
\* is the answer of a decision that was made.
LEMMA StepHides ==
  ASSUME PromptInv, [PromptNext]_promptVars,
         prompt # 0, prompt' # prompt, Waits(prompt)
  PROVE  \/ prompt' > prompt
         \/ \E c \in Clicks :
              deciding[c] = "answered" /\ deciding'[c] = "over" /\ ~Waits(clicked[c])
<1> USE WebPromptAssumption DEF PromptNumbers
<1>1. ReceiveRequest \/ ReceiveOK
  BY DEF PromptNext, promptVars, Asks, TimesOut, Resolves, ResolveFails, HandlerAnswers,
         Decide, ReceiveError
<1>2. CASE ReceiveRequest
  <2>1. Len(socket) \in Nat \ {0} /\ Head(socket) = socket[1] /\ socket[1][1] = "request"
        /\ IsFrame(socket[1])
    BY <1>2, FrameTaken DEF ReceiveRequest, PromptInv, PromptTypeOK
  <2>2. prompt' = socket[1][2] /\ prompt < socket[1][2]
    BY <1>2, <2>1 DEF ReceiveRequest, PromptInv, RequestsAhead
  <2> QED BY <2>1, <2>2 DEF PromptInv, PromptTypeOK, IsFrame
<1>3. CASE ReceiveOK
  <2> DEFINE c == socket[1][2]
  <2>1. Len(socket) \in Nat \ {0} /\ Head(socket) = socket[1] /\ socket[1][1] = "ok"
        /\ IsFrame(socket[1])
    BY <1>3, FrameTaken DEF ReceiveOK, PromptInv, PromptTypeOK
  <2>2. c \in Clicks /\ deciding[c] = "answered" /\ ~Waits(clicked[c])
    BY <2>1 DEF PromptInv, AnswersOnce, Settled, IsFrame
  <2>3. deciding'[c] = "over"
    BY <1>3, <2>1, <2>2 DEF ReceiveOK, Decided, PromptInv, PromptTypeOK
  <2> QED BY <2>2, <2>3
<1> QED BY <1>1, <1>2, <1>3

\* The prompt follows the requests, for all runs, requests and decisions: what
\* handlePermission and the event permission.requested may do to it.
THEOREM PromptFollows == PromptSpec => PromptFollowsRequests
<1>1. PromptInv /\ [PromptNext]_promptVars =>
        [prompt # 0 /\ prompt' # prompt /\ Waits(prompt) =>
           \/ prompt' > prompt
           \/ \E c \in Clicks :
                deciding[c] = "answered" /\ deciding'[c] = "over" /\ ~Waits(clicked[c])]_promptVars
  BY StepHides
<1>2. PromptSpec => OnlyRivalsHide
  BY <1>1, PromptInvHolds, PTL DEF PromptSpec, OnlyRivalsHide
<1> QED BY <1>2, PromptLive, PTL DEF PromptFollowsRequests

-----------------------------------------------------------------------------
(* The messages that are shown *)

\* What is on the wire to the client, and the requests for messages under way.
Packets == [kind : {"message", "ran", "listed", "refreshed"}, session : Sessions,
            send : Sends \cup {NoSend}, n : Nat, ok : BOOLEAN, revs : Seq(Revisions)]
FetchStates == [state : {"free", "sent", "read"}, session : Sessions \cup {0},
                send : Sends \cup {NoSend}, revs : Seq(Revisions)]

ChatWireTypes ==
  /\ inbox \in Seq(Packets)
  /\ \A i \in 1..Len(inbox) : inbox[i].kind = "message" => Len(inbox[i].revs) = 1
  /\ fetches \in [Fetches -> FetchStates]
  /\ \A f \in Fetches : fetches[f].state # "free" => fetches[f].session # 0
  /\ \A k \in Sends :
       untold[k] # 0 => k \in running /\ untold[k] <= Len(log[into[k]])

Ended == {i \in 1..Len(inbox) : inbox[i].kind \in {"ran", "refreshed"}}
Pending == {f \in Fetches : fetches[f].state # "free"}
Refreshing == {f \in Pending : fetches[f].send # NoSend}

\* A send is over once: it runs, or its end is on the wire, or its messages are
\* fetched again, or they are on the wire.
OneEnd ==
  /\ running \subseteq sending
  /\ \A k \in sending : into[k] # 0
  /\ \A i \in Ended : /\ inbox[i].send \in sending \ running
                      /\ inbox[i].session = into[inbox[i].send]
  /\ \A f \in Refreshing : /\ fetches[f].send \in sending \ running
                           /\ fetches[f].session = into[fetches[f].send]
  /\ \A i, j \in Ended : inbox[i].send = inbox[j].send => i = j
  /\ \A f, g \in Refreshing : fetches[f].send = fetches[g].send => f = g
  /\ \A i \in Ended, f \in Refreshing : inbox[i].send # fetches[f].send

\* Beside a send that is alone there is none in its session.
NoneBeside == \A k \in alone \cap sending, j \in sending : into[j] = into[k] => j = k

\* What is fetched at the end of send k has what its run has stored, and is the
\* whole log if no other send may write it.
Holds(k, s, revs) ==
  /\ \A n \in DOMAIN log[s] : log[s][n][1] = k => n \in DOMAIN revs /\ revs[n] = log[s][n]
  /\ k \in alone => revs = log[s]

RefreshIsLog ==
  /\ \A i \in 1..Len(inbox) :
       inbox[i].kind = "refreshed" => Holds(inbox[i].send, inbox[i].session, inbox[i].revs)
  /\ \A f \in Refreshing :
       fetches[f].state = "read" => Holds(fetches[f].send, fetches[f].session, fetches[f].revs)

\* A user who does one thing at a time waits for one of these.
Quiet == ~Busy /\ (selected # 0 => shown = View(selected, log[selected]))

Fetching ==
  /\ inbox = <<>> /\ running = {}
  /\ \E f \in Fetches :
       /\ Pending = {f} /\ fetches[f].session = selected
       /\ sending = {fetches[f].send} \ {NoSend}
       /\ fetches[f].state = "read" => fetches[f].revs = log[selected]

Arrived ==
  /\ Pending = {} /\ Len(inbox) = 1 /\ running = {}
  /\ inbox[1].kind \in {"listed", "refreshed"} /\ inbox[1].session = selected
  /\ inbox[1].revs = log[selected]
  /\ sending = IF inbox[1].kind = "refreshed" THEN {inbox[1].send} ELSE {}

GoesOn(k) ==
  /\ Pending = {} /\ sending = {k} /\ into[k] = selected
  /\ \A i \in 1..Len(inbox) :
       i < Len(inbox) \/ k \in running => inbox[i].kind = "message"
  /\ k \notin running => Len(inbox) # 0 /\ inbox[Len(inbox)].kind = "ran"

UnderWay == \E k \in Sends : GoesOn(k)

Waiting == Quiet \/ Fetching \/ Arrived \/ UnderWay

ChatInv ==
  WebChatTypeOK /\ ChatWireTypes /\ OneEnd /\ NoneBeside /\ RefreshIsLog /\ (calm => Waiting)

\* The types of what is on the wire, and of what is stored.
LEMMA ChatTypes ==
  ASSUME ChatInv
  PROVE  /\ inbox \in Seq(Packets) /\ Len(inbox) \in Nat
         /\ \A i \in 1..Len(inbox) :
              /\ inbox[i] \in Packets /\ inbox[i].session \in Sessions
              /\ inbox[i].send \in Sends \cup {NoSend}
              /\ inbox[i].n \in Nat /\ inbox[i].ok \in BOOLEAN /\ inbox[i].revs \in Seq(Revisions)
         /\ \A f \in Fetches :
              /\ fetches[f] \in FetchStates /\ fetches[f].revs \in Seq(Revisions)
              /\ fetches[f].state \in {"free", "sent", "read"}
              /\ fetches[f].send \in Sends \cup {NoSend}
              /\ fetches[f].state # "free" => fetches[f].session \in Sessions
         /\ \A s \in Sessions : log[s] \in Seq(Revisions) /\ Len(log[s]) \in Nat
         /\ {MaxSessions, MaxActs, MaxWire} \subseteq Nat
<1>1. inbox \in Seq(Packets) /\ fetches \in [Fetches -> FetchStates]
  BY DEF ChatInv, ChatWireTypes
<1>2. \A p \in Packets : p.session \in Sessions /\ p.n \in Nat /\ p.ok \in BOOLEAN
                         /\ p.revs \in Seq(Revisions) /\ p.send \in Sends \cup {NoSend}
  BY DEF Packets
<1>3. \A g \in FetchStates : /\ g.revs \in Seq(Revisions) /\ g.state \in {"free", "sent", "read"}
                             /\ g.send \in Sends \cup {NoSend} /\ g.session \in Sessions \cup {0}
  BY DEF FetchStates
<1> HIDE DEF Packets, FetchStates
<1>4. \A i \in 1..Len(inbox) : inbox[i] \in Packets
  BY <1>1
<1>5. \A f \in Fetches : fetches[f].state # "free" => fetches[f].session # 0
  BY DEF ChatInv, ChatWireTypes
<1>6. \A s \in Sessions : log[s] \in Seq(Revisions)
  BY DEF ChatInv, WebChatTypeOK
<1>7. {MaxSessions, MaxActs, MaxWire} \subseteq Nat
  BY WebChatAssumption DEF WebChatAssumption
<1> QED
  BY <1>1, <1>2, <1>3, <1>4, <1>5, <1>6, <1>7

\* A frame is written at the end of the wire.
LEMMA PushesOne ==
  ASSUME inbox \in Seq(Packets), NEW frame \in Packets, inbox' = Append(inbox, frame)
  PROVE  /\ inbox' \in Seq(Packets) /\ Len(inbox') = Len(inbox) + 1 /\ Len(inbox) \in Nat
         /\ \A i \in 1..Len(inbox) : inbox'[i] = inbox[i]
         /\ inbox'[Len(inbox) + 1] = frame
<1> HIDE DEF Packets
<1> QED
  OBVIOUS

\* And read at its beginning.
LEMMA TakesOne ==
  ASSUME inbox \in Seq(Packets), inbox # <<>>, inbox' = Tail(inbox)
  PROVE  /\ inbox' \in Seq(Packets) /\ Len(inbox') = Len(inbox) - 1 /\ Len(inbox') \in Nat
         /\ 1 \in 1..Len(inbox) /\ Head(inbox) = inbox[1] /\ Head(inbox) \in Packets
         /\ \A i \in 1..Len(inbox') : i + 1 \in 1..Len(inbox) /\ inbox'[i] = inbox[i + 1]
<1> HIDE DEF Packets
<1> QED
  OBVIOUS

\* A frame is what it was made of.
LEMMA PacketIs ==
  ASSUME NEW kind \in {"message", "ran", "listed", "refreshed"}, NEW s \in Sessions,
         NEW k \in Sends \cup {NoSend}, NEW n \in Nat, NEW ok \in BOOLEAN,
         NEW revs \in Seq(Revisions), NEW p, p = Packet(kind, s, k, n, ok, revs)
  PROVE  /\ p \in Packets /\ p.kind = kind /\ p.session = s /\ p.send = k
         /\ p.n = n /\ p.ok = ok /\ p.revs = revs
  BY DEF Packet, Packets

\* A request for messages takes a free place and leaves the others alone.
LEMMA FetchBegins ==
  ASSUME ChatInv, NEW s \in Sessions, NEW k \in Sends \cup {NoSend}, Fetch(s, k)
  PROVE  \E f \in Fetches :
           /\ f \notin Pending /\ fetches' \in [Fetches -> FetchStates]
           /\ fetches'[f].state = "sent" /\ fetches'[f].session = s
           /\ fetches'[f].send = k
           /\ \A g \in Fetches : g # f => fetches'[g] = fetches[g]
           /\ Pending' = Pending \cup {f}
           /\ Refreshing' = IF k # NoSend THEN Refreshing \cup {f} ELSE Refreshing
<1> DEFINE new == [state |-> "sent", session |-> s, send |-> k, revs |-> <<>>]
           free == {f \in Fetches : fetches[f].state = "free"}
           f == CHOOSE g \in free : TRUE
<1>1. f \in Fetches /\ fetches[f].state = "free" /\ fetches' = [fetches EXCEPT ![f] = new]
  <2>1. free # {} /\ fetches' = [fetches EXCEPT ![f] = new]
    BY DEF Fetch
  <2>2. f \in free
    BY <2>1
  <2> QED
    BY <2>1, <2>2
<1> HIDE DEF f
<1>2. /\ new \in FetchStates /\ new.state = "sent" /\ new.session = s /\ new.send = k
  BY DEF FetchStates
<1> HIDE DEF new
<1>3. fetches \in [Fetches -> FetchStates]
  BY DEF ChatInv, ChatWireTypes
<1> HIDE DEF FetchStates
<1>4. /\ fetches' \in [Fetches -> FetchStates] /\ fetches'[f] = new
      /\ \A g \in Fetches : g # f => fetches'[g] = fetches[g]
  BY <1>1, <1>2, <1>3
<1>5. fetches'[f].state = "sent" /\ fetches'[f].send = k /\ fetches'[f].session = s
  BY <1>2, <1>4
<1>6. f \notin Pending /\ Pending' = Pending \cup {f}
  BY <1>1, <1>4, <1>5 DEF Pending
<1>7. Refreshing' = IF k # NoSend THEN Refreshing \cup {f} ELSE Refreshing
  <2>1. ASSUME NEW g \in Fetches, g # f
        PROVE  g \in Refreshing' <=> g \in Refreshing
    BY <1>4, <1>6, <2>1 DEF Refreshing
  <2>2. f \notin Refreshing /\ (f \in Refreshing' <=> k # NoSend)
    BY <1>5, <1>6 DEF Refreshing
  <2>3. Refreshing \subseteq Fetches /\ Refreshing' \subseteq Fetches
    BY DEF Refreshing, Pending
  <2> QED
    BY <1>1, <2>1, <2>2, <2>3
<1> QED
  BY <1>1, <1>4, <1>5, <1>6, <1>7

\* When nothing is under way, it is not.
LEMMA NotBusy ==
  ASSUME ChatInv
  PROVE  ~Busy <=> inbox = <<>> /\ sending = {} /\ Pending = {}
  BY DEF Busy, Pending

\* Nothing is put on the wire or taken from it: who waits for an end still does.
LEMMA EndsKept ==
  ASSUME OneEnd, inbox' = inbox, Refreshing' = Refreshing,
         \A f \in Refreshing :
           fetches'[f].session = fetches[f].session /\ fetches'[f].send = fetches[f].send,
         running' \subseteq sending', sending \ running \subseteq sending' \ running',
         \A k \in sending' : into'[k] # 0, \A k \in sending : into'[k] = into[k]
  PROVE  OneEnd'
<1>1. Ended' = Ended
  BY DEF Ended
<1>2. \A i \in Ended : /\ inbox'[i].send \in sending' \ running'
                       /\ inbox'[i].session = into'[inbox'[i].send]
  BY DEF OneEnd
<1>3. \A f \in Refreshing : /\ fetches'[f].send \in sending' \ running'
                            /\ fetches'[f].session = into'[fetches'[f].send]
  BY DEF OneEnd
<1>4. /\ \A i, j \in Ended : inbox'[i].send = inbox'[j].send => i = j
      /\ \A f, g \in Refreshing : fetches'[f].send = fetches'[g].send => f = g
      /\ \A i \in Ended, f \in Refreshing : inbox'[i].send # fetches'[f].send
  BY DEF OneEnd
<1> QED
  BY <1>1, <1>2, <1>3, <1>4 DEF OneEnd

\* Send j alone has written the log of session s, and no other log is written.
WrittenBy(j, s) ==
  /\ \A t \in Sessions : t # s => log'[t] = log[t]
  /\ \A n \in DOMAIN log'[s] :
       log'[s][n][1] # j => n \in DOMAIN log[s] /\ log'[s][n] = log[s][n]

\* What is fetched at the end of a send stays what it is when another send
\* writes, which is not beside it if it is alone.
LEMMA LogsKept ==
  ASSUME ChatInv, inbox' = inbox, Refreshing' = Refreshing,
         \A f \in Refreshing : fetches'[f] = fetches[f],
         NEW s \in Sessions, NEW j, j \notin sending \ running, WrittenBy(j, s),
         \A k \in (sending \ running) \cap alone' : k \in alone /\ into[k] # s
  PROVE  RefreshIsLog'
<1>1. ASSUME NEW k \in sending \ running, NEW revs, Holds(k, into[k], revs), into[k] \in Sessions
      PROVE  /\ \A n \in DOMAIN log'[into[k]] : log'[into[k]][n][1] = k =>
                  n \in DOMAIN revs /\ revs[n] = log'[into[k]][n]
             /\ k \in alone' => revs = log'[into[k]]
  <2>1. k # j
    OBVIOUS
  <2>2. CASE into[k] # s
    <3>1. log'[into[k]] = log[into[k]]
      BY <1>1, <2>2 DEF WrittenBy
    <3> QED
      BY <1>1, <3>1 DEF Holds
  <2>3. CASE into[k] = s
    <3>1. k \notin alone'
      BY <2>3
    <3>2. \A n \in DOMAIN log'[s] : log'[s][n][1] = k =>
            n \in DOMAIN log[s] /\ log'[s][n] = log[s][n] /\ log[s][n][1] = k
      BY <2>1 DEF WrittenBy
    <3>3. \A n \in DOMAIN log[s] : log[s][n][1] = k => n \in DOMAIN revs /\ revs[n] = log[s][n]
      BY <1>1, <2>3 DEF Holds
    <3> QED
      BY <2>3, <3>1, <3>2, <3>3
  <2> QED
    BY <2>2, <2>3
<1>2. ASSUME NEW i \in 1..Len(inbox), inbox[i].kind = "refreshed"
      PROVE  Holds(inbox[i].send, inbox[i].session, inbox[i].revs)'
  <2>1. /\ inbox[i].send \in sending \ running /\ inbox[i].session = into[inbox[i].send]
        /\ inbox[i].session \in Sessions
    BY <1>2, ChatTypes DEF ChatInv, OneEnd, Ended
  <2>2. Holds(inbox[i].send, into[inbox[i].send], inbox[i].revs)
    BY <1>2, <2>1 DEF ChatInv, RefreshIsLog
  <2> QED
    BY <1>1, <2>1, <2>2 DEF Holds
<1>3. ASSUME NEW f \in Refreshing, fetches[f].state = "read"
      PROVE  Holds(fetches[f].send, fetches[f].session, fetches[f].revs)'
  <2>1. /\ fetches[f].send \in sending \ running /\ fetches[f].session = into[fetches[f].send]
        /\ fetches[f].session \in Sessions /\ fetches'[f] = fetches[f]
    BY ChatTypes DEF ChatInv, OneEnd, Refreshing, Pending
  <2>2. Holds(fetches[f].send, into[fetches[f].send], fetches[f].revs)
    BY <1>3, <2>1 DEF ChatInv, RefreshIsLog
  <2> QED
    BY <1>1, <2>1, <2>2 DEF Holds
<1> QED
  BY <1>2, <1>3 DEF RefreshIsLog

\* A request for the messages of a session that is not a fetch at the end of a
\* send.
LEMMA PlainFetch ==
  ASSUME ChatInv, NEW s \in Sessions, Fetch(s, NoSend), inbox' = inbox
  PROVE  /\ \E f \in Fetches :
              /\ Pending' = Pending \cup {f} /\ fetches'[f].session = s
              /\ fetches'[f].state = "sent" /\ fetches'[f].send = NoSend
         /\ Refreshing' = Refreshing /\ \A f \in Refreshing : fetches'[f] = fetches[f]
         /\ fetches' \in [Fetches -> FetchStates]
         /\ \A f \in Fetches : fetches'[f].state # "free" => fetches'[f].session # 0
         /\ \A f \in Fetches : fetches'[f].state \in {"free", "sent", "read"}
<1>1. PICK f \in Fetches :
        /\ f \notin Pending /\ fetches' \in [Fetches -> FetchStates]
        /\ fetches'[f].state = "sent" /\ fetches'[f].session = s
        /\ fetches'[f].send = NoSend
        /\ \A g \in Fetches : g # f => fetches'[g] = fetches[g]
        /\ Pending' = Pending \cup {f} /\ Refreshing' = Refreshing
  <2>1. NoSend \in Sends \cup {NoSend}
    OBVIOUS
  <2> QED
    BY <2>1, FetchBegins
<1>2. \A g \in Fetches : g # f => /\ fetches'[g].state # "free" => fetches'[g].session # 0
                                  /\ fetches'[g].state \in {"free", "sent", "read"}
  BY <1>1, ChatTypes DEF ChatInv, ChatWireTypes
<1>3. s # 0
  BY ChatTypes DEF Sessions
<1>4. \A g \in Refreshing : g \in Fetches /\ g # f
  BY <1>1 DEF Refreshing, Pending
<1> HIDE DEF FetchStates
<1> QED
  BY <1>1, <1>2, <1>3, <1>4

\* The numbers of the sessions and of the sends.
LEMMA ChatCounts ==
  ASSUME ChatInv
  PROVE  /\ created \in Nat /\ created <= MaxSessions /\ MaxSessions \in Nat /\ MaxActs \in Nat
         /\ acts \in Nat /\ acts <= MaxActs /\ 1..acts \subseteq Sends
         /\ running \subseteq 1..acts /\ sending \subseteq 1..acts /\ alone \subseteq 1..acts
         /\ into \in [Sends -> 0..created] /\ untold \in [Sends -> Nat]
         /\ selected \in 0..created /\ acts \in 0..MaxActs /\ calm \in BOOLEAN
         /\ \A s \in Sessions : s \in Nat /\ s # 0 /\ s \in 1..MaxSessions
         /\ 1..created \subseteq Sessions
         /\ \A k \in sending : k \in Sends /\ k # NoSend /\ into[k] \in Sessions
         /\ NoSend \notin Sends
<1>1. /\ created \in 0..MaxSessions /\ running \subseteq 1..acts
      /\ sending \subseteq 1..acts /\ alone \subseteq 1..acts /\ selected \in 0..created
      /\ acts \in 0..MaxActs /\ calm \in BOOLEAN
      /\ into \in [Sends -> 0..created] /\ untold \in [Sends -> Nat]
  BY DEF ChatInv, WebChatTypeOK
<1>2. MaxSessions \in Nat /\ MaxActs \in Nat
  BY ChatTypes
<1>3. /\ 1..acts \subseteq Sends /\ 1..created \subseteq Sessions /\ NoSend \notin Sends
      /\ \A s \in Sessions : s \in Nat /\ s # 0 /\ s \in 1..MaxSessions
  BY <1>1, <1>2 DEF Sends, Sessions, NoSend
<1>4. \A k \in sending : k \in Sends /\ k # NoSend /\ into[k] \in Sessions
  <2> SUFFICES ASSUME NEW k \in sending
               PROVE  k \in Sends /\ k # NoSend /\ into[k] \in Sessions
    OBVIOUS
  <2>1. k \in Sends /\ into[k] # 0 /\ into[k] \in 0..created
    BY <1>1, <1>3 DEF ChatInv, OneEnd
  <2> QED
    BY <1>1, <1>2, <1>3, <2>1
<1> QED
  BY <1>1, <1>2, <1>3, <1>4

\* What the user does: the types it leaves to show.
LEMMA ActTypes ==
  ASSUME ChatInv, log' \in [Sessions -> Seq(Revisions)], untold' = untold,
         \A f \in Fetches : fetches'[f].state \in {"free", "sent", "read"},
         created' \in 0..MaxSessions, created <= created', selected' \in 0..created',
         into' \in [Sends -> 0..created'],
         running' \subseteq 1..(acts + 1), sending' \subseteq 1..(acts + 1),
         alone' \subseteq 1..(acts + 1),
         shown' = shown \/ shown' = <<>>,
         acts < MaxActs, acts' = acts + 1, NEW peace \in BOOLEAN, calm' = (calm /\ peace)
  PROVE  WebChatTypeOK'
<1>1. acts' \in 0..MaxActs
  BY ChatCounts
<1>2. calm' \in BOOLEAN
  BY DEF ChatInv, WebChatTypeOK
<1>3. /\ shown' \in Seq(Sessions \X Nat \X Revisions)
      /\ \A i, j \in DOMAIN shown' :
           shown'[i][1] = shown'[j][1] /\ shown'[i][2] = shown'[j][2] => i = j
  <2>1. CASE shown' = shown
    BY <2>1 DEF ChatInv, WebChatTypeOK
  <2>2. CASE shown' = <<>>
    BY <2>2
  <2> QED
    BY <2>1, <2>2
<1>4. untold' \in [Sends -> Nat]
  BY ChatCounts
<1> QED
  BY <1>1, <1>2, <1>3, <1>4 DEF WebChatTypeOK

\* Another session is shown, or a new one.
LEMMA SelectKeeps ==
  ASSUME ChatInv, NEW s \in Sessions, Select(s) \/ NewSession(s)
  PROVE  ChatInv'
<1>1. /\ UNCHANGED <<log, running, into, untold, inbox, sending, alone>>
      /\ Fetch(s, NoSend) /\ selected' = s
      /\ created' \in 0..MaxSessions /\ created <= created' /\ s \in 1..created'
      /\ shown' = shown \/ shown' = <<>>
      /\ acts < MaxActs /\ acts' = acts + 1 /\ calm' = (calm /\ ~Busy)
  <2>1. /\ created \in Nat /\ MaxSessions \in Nat /\ s \in Nat /\ s # 0
        /\ s <= MaxSessions /\ created <= MaxSessions
    BY ChatCounts
  <2>2. CASE Select(s)
    <3>1. s <= created /\ created' = created
      BY <2>2 DEF Select
    <3>2. created' \in 0..MaxSessions /\ created <= created' /\ s \in 1..created'
      BY <2>1, <3>1
    <3> QED
      BY <2>2, <3>2, Zenon DEF Select, Act, service
  <2>3. CASE NewSession(s)
    <3>1. s = created + 1 /\ created' = s
      BY <2>3 DEF NewSession, Created
    <3>2. created' \in 0..MaxSessions /\ created <= created' /\ s \in 1..created'
      BY <2>1, <3>1
    <3> QED
      BY <2>3, <3>2, Zenon DEF NewSession, Created, Act, service
  <2> QED
    BY <2>2, <2>3
<1>2. PICK f \in Fetches :
        /\ Pending' = Pending \cup {f} /\ fetches'[f].session = s
        /\ fetches'[f].state = "sent" /\ fetches'[f].send = NoSend
  BY <1>1, PlainFetch
<1>3. /\ Refreshing' = Refreshing /\ \A g \in Refreshing : fetches'[g] = fetches[g]
      /\ fetches' \in [Fetches -> FetchStates]
      /\ \A g \in Fetches : fetches'[g].state # "free" => fetches'[g].session # 0
      /\ \A g \in Fetches : fetches'[g].state \in {"free", "sent", "read"}
  BY <1>1, PlainFetch
<1>4. WebChatTypeOK'
  <2>1. Busy \in BOOLEAN /\ log' \in [Sessions -> Seq(Revisions)] /\ selected' \in 0..created'
    BY <1>1 DEF Busy, ChatInv, WebChatTypeOK
  <2>2. /\ into' \in [Sends -> 0..created'] /\ 1..acts \subseteq 1..(acts + 1)
        /\ running \subseteq 1..acts /\ sending \subseteq 1..acts /\ alone \subseteq 1..acts
    <3>1. 0..created \subseteq 0..created' /\ into' = into /\ into \in [Sends -> 0..created]
      BY <1>1, ChatCounts
    <3>2. into' \in [Sends -> 0..created']
      BY <3>1
    <3> QED
      BY <3>2, ChatCounts
  <2>3. /\ running' \subseteq 1..(acts + 1) /\ sending' \subseteq 1..(acts + 1)
        /\ alone' \subseteq 1..(acts + 1)
    BY <1>1, <2>2
  <2> QED
    BY <1>1, <1>3, <2>1, <2>2, <2>3, ActTypes
<1>5. ChatWireTypes'
  BY <1>1, <1>3 DEF ChatInv, ChatWireTypes
<1>6. OneEnd' /\ NoneBeside'
  <2>1. OneEnd /\ NoneBeside
    BY DEF ChatInv
  <2>2. OneEnd'
    BY <1>1, <1>3, <2>1, EndsKept DEF OneEnd
  <2> QED
    BY <1>1, <2>1, <2>2 DEF NoneBeside
<1>7. RefreshIsLog'
  BY <1>1, <1>3 DEF ChatInv, RefreshIsLog, Holds
<1>8. calm' => Fetching'
  <2> SUFFICES ASSUME calm' PROVE Fetching'
    OBVIOUS
  <2>1. inbox = <<>> /\ sending = {} /\ Pending = {}
    BY <1>1, NotBusy
  <2>2. running' = {}
    BY <1>1, <2>1 DEF ChatInv, OneEnd
  <2> QED
    BY <1>1, <1>2, <2>1, <2>2 DEF Fetching
<1> QED
  BY <1>4, <1>5, <1>6, <1>7, <1>8 DEF ChatInv, Waiting

\* A message of send j is written at the end of log l.
LEMMA AppendedOnly ==
  ASSUME NEW l \in Seq(Revisions), NEW j \in Sends, NEW rev \in {0, 1}
  PROVE  /\ Append(l, <<j, rev>>) \in Seq(Revisions)
         /\ Len(Append(l, <<j, rev>>)) = Len(l) + 1 /\ Len(l) \in Nat
         /\ \A n \in DOMAIN Append(l, <<j, rev>>) :
              Append(l, <<j, rev>>)[n][1] # j => n \in DOMAIN l /\ Append(l, <<j, rev>>)[n] = l[n]
<1>1. <<j, rev>> \in Revisions /\ <<j, rev>>[1] = j
  BY DEF Revisions
<1> DEFINE x == <<j, rev>>
           a == Append(l, x)
<1> HIDE DEF x
<1>2. x \in Revisions /\ x[1] = j
  BY <1>1 DEF x
<1> HIDE DEF Revisions
<1>3. /\ a \in Seq(Revisions) /\ Len(a) = Len(l) + 1 /\ Len(l) \in Nat
      /\ \A n \in 1..Len(l) : a[n] = l[n]
      /\ a[Len(l) + 1] = x
  BY <1>2
<1>4. DOMAIN a = 1..(Len(l) + 1) /\ DOMAIN l = 1..Len(l)
  BY <1>3
<1> HIDE DEF a
<1>5. \A n \in DOMAIN a : a[n][1] # j => n \in DOMAIN l /\ a[n] = l[n]
  BY <1>2, <1>3, <1>4
<1> QED
  BY <1>3, <1>5 DEF a, x

\* A prompt is stored and its run begins.
LEMMA StartKeeps ==
  ASSUME ChatInv, NEW s \in Sessions, Starts(s), acts < MaxActs, Refreshing' = Refreshing,
         \A f \in Refreshing : fetches'[f] = fetches[f]
  PROVE  /\ log' \in [Sessions -> Seq(Revisions)]
         /\ OneEnd' /\ NoneBeside' /\ RefreshIsLog'
         /\ into' = [into EXCEPT ![acts + 1] = s] /\ acts + 1 \in Sends /\ into'[acts + 1] = s
         /\ running' = running \cup {acts + 1} /\ sending' = sending \cup {acts + 1}
         /\ running' \subseteq 1..(acts + 1) /\ sending' \subseteq 1..(acts + 1)
         /\ alone' \subseteq 1..(acts + 1)
         /\ \A k \in Sends : untold'[k] # 0 => k \in running' /\ untold'[k] <= Len(log'[into'[k]])
<1> DEFINE k == acts + 1
<1>1. /\ log \in [Sessions -> Seq(Revisions)] /\ log' = [log EXCEPT ![s] = Append(log[s], <<k, 1>>)]
      /\ running' = running \cup {k} /\ sending' = sending \cup {k}
      /\ into' = [into EXCEPT ![k] = s]
      /\ alone' = IF Beside(s) = {} THEN alone \cup {k} ELSE alone \ Beside(s)
      /\ untold' = untold /\ inbox' = inbox
  BY DEF Starts, ChatInv, WebChatTypeOK
<1>2. /\ k \in Sends /\ acts \in Nat /\ into \in [Sends -> 0..created] /\ untold \in [Sends -> Nat]
      /\ running \subseteq 1..acts /\ sending \subseteq 1..acts /\ alone \subseteq 1..acts
      /\ \A j \in 1..acts : j # k /\ j \in 1..(acts + 1) /\ j \in Sends
      /\ k \in 1..(acts + 1) /\ s # 0
  <2>1. acts \in Nat /\ MaxActs \in Nat /\ acts + 1 \in 1..MaxActs
    BY ChatCounts
  <2>2. \A j \in 1..acts : j # acts + 1 /\ j \in 1..(acts + 1)
    BY <2>1
  <2> QED
    BY <2>1, <2>2, ChatCounts DEF Sends
<1> HIDE DEF k
<1>3. /\ log' \in [Sessions -> Seq(Revisions)] /\ Len(log'[s]) = Len(log[s]) + 1
      /\ Len(log[s]) \in Nat /\ WrittenBy(k, s)
  <2>1. log[s] \in Seq(Revisions)
    BY <1>1
  <2>2. /\ Append(log[s], <<k, 1>>) \in Seq(Revisions)
        /\ Len(Append(log[s], <<k, 1>>)) = Len(log[s]) + 1 /\ Len(log[s]) \in Nat
        /\ \A n \in DOMAIN Append(log[s], <<k, 1>>) :
             Append(log[s], <<k, 1>>)[n][1] # k =>
               n \in DOMAIN log[s] /\ Append(log[s], <<k, 1>>)[n] = log[s][n]
    BY <1>2, <2>1, AppendedOnly
  <2>3. log'[s] = Append(log[s], <<k, 1>>) /\ \A t \in Sessions : t # s => log'[t] = log[t]
    BY <1>1
  <2>4. log' \in [Sessions -> Seq(Revisions)]
    BY <1>1, <2>2
  <2> QED
    BY <2>2, <2>3, <2>4 DEF WrittenBy
<1>4. /\ into'[k] = s /\ k \notin sending /\ k \notin running /\ k \notin alone
      /\ \A j \in Sends : j # k => into'[j] = into[j]
      /\ \A j \in sending : into'[j] = into[j] /\ j # k
  <2>1. \A j \in sending \cup running \cup alone : j \in Sends /\ j # k
    BY <1>2
  <2>2. into'[k] = s /\ \A j \in Sends : j # k => into'[j] = into[j]
    BY <1>1, <1>2
  <2> QED
    BY <2>1, <2>2
<1>5. OneEnd'
  <2>1. OneEnd
    BY DEF ChatInv
  <2>2. running' \subseteq sending' /\ sending \ running \subseteq sending' \ running'
    BY <1>1, <1>4, <2>1 DEF OneEnd
  <2>3. \A j \in sending' : into'[j] # 0
    BY <1>1, <1>2, <1>4, <2>1 DEF OneEnd
  <2> QED
    BY <1>1, <1>4, <2>1, <2>2, <2>3, EndsKept
<1>6. \A j \in alone' \cap sending : j \in alone /\ into[j] # s
  <2>1. CASE Beside(s) = {}
    BY <1>1, <1>4, <2>1 DEF Beside
  <2>2. CASE Beside(s) # {}
    BY <1>1, <2>2 DEF Beside
  <2> QED
    BY <2>1, <2>2
<1>7. NoneBeside'
  <2> SUFFICES ASSUME NEW a \in alone' \cap sending', NEW j \in sending', into'[j] = into'[a]
               PROVE  j = a
    BY DEF NoneBeside
  <2>1. CASE a = k
    <3>1. Beside(s) = {}
      BY <1>1, <1>4, <2>1
    <3> QED
      BY <1>1, <1>4, <2>1, <3>1 DEF Beside
  <2>2. CASE a # k
    <3>1. a \in alone \cap sending /\ into[a] # s /\ into'[a] = into[a]
      BY <1>1, <1>4, <1>6, <2>2
    <3>2. j # k /\ j \in sending /\ into[j] = into[a]
      BY <1>1, <1>4, <3>1
    <3> QED
      BY <3>1, <3>2 DEF ChatInv, NoneBeside
  <2> QED
    BY <2>1, <2>2
<1>8. RefreshIsLog'
  <2>1. k \notin sending \ running
    BY <1>4
  <2>2. \A j \in (sending \ running) \cap alone' : j \in alone /\ into[j] # s
    BY <1>6
  <2> QED
    BY <1>1, <1>3, <2>1, <2>2, LogsKept
<1>9. ASSUME NEW j \in Sends, untold'[j] # 0
      PROVE  j \in running' /\ untold'[j] <= Len(log'[into'[j]])
  <2>1. j \in running /\ untold[j] <= Len(log[into[j]]) /\ j \in sending
    BY <1>1, <1>9 DEF ChatInv, ChatWireTypes, OneEnd
  <2>2. into'[j] = into[j] /\ into[j] \in Sessions
    BY <1>4, <2>1, ChatCounts
  <2>3. CASE into[j] # s
    BY <1>1, <1>3, <2>1, <2>2, <2>3 DEF WrittenBy
  <2>4. CASE into[j] = s
    <3>1. untold[j] \in Nat
      BY <1>2
    <3> QED
      BY <1>1, <1>3, <2>1, <2>2, <2>4, <3>1
  <2> QED
    BY <2>3, <2>4
<1>10. /\ running' \subseteq 1..(acts + 1) /\ sending' \subseteq 1..(acts + 1)
       /\ alone' \subseteq 1..(acts + 1)
  BY <1>1, <1>2
<1> QED
  BY <1>1, <1>2, <1>3, <1>4, <1>5, <1>7, <1>8, <1>9, <1>10 DEF k

\* The user sends in the selected session.
LEMMA SendKeeps ==
  ASSUME ChatInv, NEW s \in Sessions, Send(s)
  PROVE  ChatInv'
<1>1. /\ Starts(s) /\ selected = s /\ UNCHANGED <<fetches, created, selected, shown, untold, inbox>>
      /\ acts < MaxActs /\ acts' = acts + 1 /\ calm' = (calm /\ ~Busy)
      /\ s \in 1..created
  BY DEF Send, Act, Starts, ChatInv, WebChatTypeOK, Sessions
<1>2. Pending' = Pending /\ Refreshing' = Refreshing
  BY <1>1 DEF Pending, Refreshing
<1>3. /\ log' \in [Sessions -> Seq(Revisions)] /\ OneEnd' /\ NoneBeside' /\ RefreshIsLog'
      /\ into' = [into EXCEPT ![acts + 1] = s] /\ acts + 1 \in Sends /\ into'[acts + 1] = s
      /\ running' = running \cup {acts + 1} /\ sending' = sending \cup {acts + 1}
      /\ running' \subseteq 1..(acts + 1) /\ sending' \subseteq 1..(acts + 1)
      /\ alone' \subseteq 1..(acts + 1)
      /\ \A k \in Sends : untold'[k] # 0 => k \in running' /\ untold'[k] <= Len(log'[into'[k]])
  BY <1>1, <1>2, StartKeeps
<1>4. WebChatTypeOK'
  <2>1. /\ Busy \in BOOLEAN /\ created' \in 0..MaxSessions /\ created <= created'
        /\ selected' \in 0..created'
        /\ \A f \in Fetches : fetches'[f].state \in {"free", "sent", "read"}
    BY <1>1 DEF Busy, ChatInv, WebChatTypeOK
  <2>2. into' \in [Sends -> 0..created']
    BY <1>1, <1>3, ChatCounts
  <2> QED
    BY <1>1, <1>3, <2>1, <2>2, ActTypes
<1>5. ChatWireTypes'
  BY <1>1, <1>3 DEF ChatInv, ChatWireTypes
<1>6. calm' => UnderWay'
  <2> SUFFICES ASSUME calm' PROVE UnderWay'
    OBVIOUS
  <2>1. PICK k \in Sends : k = acts + 1
    BY <1>3
  <2>2. /\ Len(inbox') = 0 /\ sending' = {k} /\ Pending' = {} /\ k \in running'
        /\ into'[k] = selected'
    BY <1>1, <1>2, <1>3, <2>1, NotBusy
  <2>3. GoesOn(k)'
    BY <2>2 DEF GoesOn
  <2> QED
    BY <2>3 DEF UnderWay
<1> QED
  BY <1>3, <1>4, <1>5, <1>6 DEF ChatInv, Waiting

\* Or in a session of its own.
LEMMA SendNewKeeps ==
  ASSUME ChatInv, NEW s \in Sessions, SendNew(s)
  PROVE  ChatInv'
<1>1. /\ Starts(s) /\ Fetch(s, NoSend) /\ selected' = s /\ shown' = <<>>
      /\ created' = s /\ s = created + 1 /\ UNCHANGED <<untold, inbox>>
      /\ acts < MaxActs /\ acts' = acts + 1 /\ calm' = FALSE
      /\ created' \in 0..MaxSessions /\ created <= created' /\ s \in 1..created'
  <2>1. /\ created \in Nat /\ MaxSessions \in Nat /\ s \in Nat /\ s # 0
        /\ s <= MaxSessions /\ created <= MaxSessions
    BY ChatCounts
  <2>2. s = created + 1 /\ created' = s
    BY DEF SendNew, Created
  <2>3. created' \in 0..MaxSessions /\ created <= created' /\ s \in 1..created'
    BY <2>1, <2>2
  <2>4. acts < MaxActs /\ acts' = acts + 1 /\ calm' = FALSE
    BY DEF SendNew, Act
  <2> QED
    BY <2>2, <2>3, <2>4, Zenon DEF SendNew, Starts, Created
<1>2. /\ Refreshing' = Refreshing /\ \A g \in Refreshing : fetches'[g] = fetches[g]
      /\ fetches' \in [Fetches -> FetchStates]
      /\ \A g \in Fetches : fetches'[g].state # "free" => fetches'[g].session # 0
      /\ \A g \in Fetches : fetches'[g].state \in {"free", "sent", "read"}
  BY <1>1, PlainFetch
<1>3. /\ log' \in [Sessions -> Seq(Revisions)] /\ OneEnd' /\ NoneBeside' /\ RefreshIsLog'
      /\ into' = [into EXCEPT ![acts + 1] = s] /\ acts + 1 \in Sends
      /\ running' \subseteq 1..(acts + 1) /\ sending' \subseteq 1..(acts + 1)
      /\ alone' \subseteq 1..(acts + 1)
      /\ \A k \in Sends : untold'[k] # 0 => k \in running' /\ untold'[k] <= Len(log'[into'[k]])
  BY <1>1, <1>2, StartKeeps
<1>4. WebChatTypeOK'
  <2>1. selected' \in 0..created' /\ calm' = (calm /\ FALSE)
    <3>1. 1..created' \subseteq 0..created'
      OBVIOUS
    <3> QED
      BY <1>1, <3>1
  <2>2. into' \in [Sends -> 0..created']
    <3>1. 0..created \subseteq 0..created' /\ s \in 0..created'
      BY <1>1, ChatCounts
    <3>2. into \in [Sends -> 0..created]
      BY ChatCounts
    <3> QED
      BY <1>3, <3>1, <3>2
  <2> QED
    BY <1>1, <1>2, <1>3, <2>1, <2>2, ActTypes
<1>5. ChatWireTypes'
  BY <1>1, <1>2, <1>3 DEF ChatInv, ChatWireTypes
<1> QED
  BY <1>1, <1>3, <1>4, <1>5 DEF ChatInv

\* What the service does: the types it leaves to show.
LEMMA ServiceTypes ==
  ASSUME ChatInv, UNCHANGED <<client, calm, alone, into>>,
         log' \in [Sessions -> Seq(Revisions)], untold' \in [Sends -> Nat],
         running' \subseteq running,
         \A f \in Fetches : fetches'[f].state \in {"free", "sent", "read"}
  PROVE  WebChatTypeOK'
  BY DEF ChatInv, WebChatTypeOK, client

\* One run at a time, if the user does one thing at a time.
LEMMA RunIsUnderWay ==
  ASSUME ChatInv, calm, NEW k \in running
  PROVE  GoesOn(k)
<1>1. k \in sending
  BY DEF ChatInv, OneEnd
<1>2. ~Quiet
  BY <1>1 DEF Quiet, Busy
<1>3. ~Fetching
  BY DEF Fetching
<1>4. ~Arrived
  BY DEF Arrived
<1>5. UnderWay
  BY <1>2, <1>3, <1>4 DEF ChatInv, Waiting
<1>6. PICK j \in Sends : GoesOn(j)
  BY <1>5 DEF UnderWay
<1>7. j = k
  BY <1>1, <1>6 DEF GoesOn
<1> QED
  BY <1>6, <1>7

\* The ends that are on the wire, when one more frame is.
LEMMA EndsPushed ==
  ASSUME inbox \in Seq(Packets), NEW frame \in Packets, inbox' = Append(inbox, frame)
  PROVE  /\ Ended' = IF frame.kind \in {"ran", "refreshed"}
                     THEN Ended \cup {Len(inbox) + 1} ELSE Ended
         /\ \A i \in Ended : inbox'[i] = inbox[i]
         /\ Len(inbox) + 1 \notin Ended
<1>1. /\ Len(inbox') = Len(inbox) + 1 /\ Len(inbox) \in Nat
      /\ \A i \in 1..Len(inbox) : inbox'[i] = inbox[i]
      /\ inbox'[Len(inbox) + 1] = frame
  BY PushesOne
<1>2. \A i \in 1..Len(inbox) : i \in Ended' <=> i \in Ended
  BY <1>1 DEF Ended
<1>3. Len(inbox) + 1 \in Ended' <=> frame.kind \in {"ran", "refreshed"}
  BY <1>1 DEF Ended
<1>4. Ended \subseteq 1..Len(inbox) /\ Ended' \subseteq 1..(Len(inbox) + 1)
  BY <1>1 DEF Ended
<1>5. Len(inbox) + 1 \notin Ended /\ Len(inbox) + 1 \notin 1..Len(inbox)
  BY <1>1, <1>4
<1>6. \A i : i \in Ended' => i \in Ended \/ i = Len(inbox) + 1
  <2>1. 1..(Len(inbox) + 1) = 1..Len(inbox) \cup {Len(inbox) + 1}
    BY <1>1
  <2> QED
    BY <1>2, <1>4, <2>1
<1>7. \A i : i \in Ended => i \in Ended'
  BY <1>2, <1>4
<1>8. Ended' = IF frame.kind \in {"ran", "refreshed"} THEN Ended \cup {Len(inbox) + 1} ELSE Ended
  <2>1. CASE frame.kind \in {"ran", "refreshed"}
    <3>1. Len(inbox) + 1 \in Ended'
      BY <1>3, <2>1
    <3>2. Ended' = Ended \cup {Len(inbox) + 1}
      BY <1>6, <1>7, <3>1
    <3> QED
      BY <2>1, <3>2
  <2>2. CASE frame.kind \notin {"ran", "refreshed"}
    <3>1. Len(inbox) + 1 \notin Ended'
      BY <1>3, <2>2
    <3>2. Ended' = Ended
      BY <1>6, <1>7, <3>1
    <3> QED
      BY <2>2, <3>2
  <2> QED
    BY <2>1, <2>2
<1> QED
  BY <1>1, <1>4, <1>5, <1>8

\* A run writes the log of its session: what is fetched at the end of a send
\* stays what it is, since a send that is alone has no run beside it.
LEMMA RunWrites ==
  ASSUME ChatInv, NEW k \in running, WrittenBy(k, into[k]),
         UNCHANGED <<inbox, fetches, running, sending, into, alone>>
  PROVE  OneEnd' /\ NoneBeside' /\ RefreshIsLog'
<1>1. Pending' = Pending /\ Refreshing' = Refreshing
  BY DEF Pending, Refreshing
<1>2. k \in sending /\ into[k] \in Sessions /\ OneEnd /\ NoneBeside /\ k \in Sends
  BY ChatCounts DEF ChatInv, OneEnd
<1>3. OneEnd' /\ NoneBeside'
  BY <1>1, <1>2, EndsKept DEF OneEnd, NoneBeside
<1>4. \A j \in (sending \ running) \cap alone' : j \in alone /\ into[j] # into[k]
  BY <1>2 DEF NoneBeside
<1>5. RefreshIsLog'
  <2>1. inbox' = inbox /\ k \notin sending \ running /\ \A f \in Refreshing : fetches'[f] = fetches[f]
    OBVIOUS
  <2> QED
    BY <1>1, <1>2, <1>4, <2>1, LogsKept
<1> QED
  BY <1>3, <1>5

\* A message is stored.
LEMMA SaveKeeps ==
  ASSUME ChatInv, NEW k \in Sends, NEW rev \in {0, 1}, Saves(k, rev)
  PROVE  ChatInv'
<1> DEFINE s == into[k]
<1>1. /\ k \in running
      /\ log' = [log EXCEPT ![s] = Append(log[s], <<k, rev>>)]
      /\ untold' = [untold EXCEPT ![k] = Len(log[s]) + 1]
      /\ UNCHANGED <<client, calm, alone, into, running, fetches, inbox, selected, sending>>
  BY DEF Saves, AtWork, client
<1>2. /\ s \in Sessions /\ untold \in [Sends -> Nat] /\ log \in [Sessions -> Seq(Revisions)]
      /\ \A f \in Fetches : fetches[f].state \in {"free", "sent", "read"}
      /\ \A j \in Sends : untold[j] # 0 => j \in running /\ untold[j] <= Len(log[into[j]])
  BY <1>1, ChatCounts DEF ChatInv, WebChatTypeOK, ChatWireTypes, OneEnd
<1> HIDE DEF s
<1>3. /\ Append(log[s], <<k, rev>>) \in Seq(Revisions)
      /\ Len(Append(log[s], <<k, rev>>)) = Len(log[s]) + 1 /\ Len(log[s]) \in Nat
      /\ \A n \in DOMAIN Append(log[s], <<k, rev>>) :
           Append(log[s], <<k, rev>>)[n][1] # k =>
             n \in DOMAIN log[s] /\ Append(log[s], <<k, rev>>)[n] = log[s][n]
  <2>1. log[s] \in Seq(Revisions)
    BY <1>2
  <2> QED
    BY <2>1, AppendedOnly
<1>4. /\ log' \in [Sessions -> Seq(Revisions)] /\ untold' \in [Sends -> Nat]
      /\ log'[s] = Append(log[s], <<k, rev>>) /\ Len(log'[s]) = Len(log[s]) + 1
      /\ untold'[k] = Len(log[s]) + 1
      /\ \A t \in Sessions : t # s => log'[t] = log[t]
      /\ \A j \in Sends : j # k => untold'[j] = untold[j]
  BY <1>1, <1>2, <1>3
<1>5. WebChatTypeOK'
  BY <1>1, <1>2, <1>4, ServiceTypes
<1>6. ChatWireTypes'
  <2>1. ASSUME NEW j \in Sends, untold'[j] # 0
        PROVE  j \in running' /\ untold'[j] <= Len(log'[into'[j]])
    <3>1. CASE j = k
      BY <1>1, <1>3, <1>4, <3>1 DEF s
    <3>2. CASE j # k
      <4>1. untold'[j] = untold[j] /\ j \in running /\ untold[j] <= Len(log[into[j]])
        BY <1>2, <1>4, <2>1, <3>2
      <4>2. into[j] \in Sessions /\ untold[j] \in Nat
        BY <4>1, <1>2, ChatCounts DEF ChatInv, OneEnd
      <4>3. Len(log[into[j]]) <= Len(log'[into[j]])
        <5>1. CASE into[j] = s
          BY <1>3, <1>4, <5>1
        <5>2. CASE into[j] # s
          <6>1. log'[into[j]] = log[into[j]] /\ Len(log[into[j]]) \in Nat
            BY <1>4, <4>2, <5>2, ChatTypes
          <6> QED
            BY <6>1
        <5> QED
          BY <5>1, <5>2
      <4>4. Len(log[into[j]]) \in Nat /\ Len(log'[into[j]]) \in Nat
        BY <1>4, <4>2, ChatTypes
      <4> QED
        BY <1>1, <4>1, <4>2, <4>3, <4>4
    <3> QED
      BY <3>1, <3>2
  <2> QED
    BY <1>1, <2>1 DEF ChatInv, ChatWireTypes
<1>7. WrittenBy(k, into[k])
  BY <1>3, <1>4 DEF WrittenBy, s
<1>8. OneEnd' /\ NoneBeside' /\ RefreshIsLog'
  BY <1>1, <1>7, RunWrites
<1>9. calm' => UnderWay'
  <2> SUFFICES ASSUME calm PROVE UnderWay'
    BY <1>1
  <2>1. GoesOn(k)
    BY <1>1, RunIsUnderWay
  <2>2. GoesOn(k)'
    BY <1>1, <2>1 DEF GoesOn, Pending
  <2> QED
    BY <2>2 DEF UnderWay
<1> QED
  BY <1>5, <1>6, <1>8, <1>9 DEF ChatInv, Waiting

\* The statuses of its calls are stored.
LEMMA ReviseKeeps ==
  ASSUME ChatInv, NEW k \in Sends, Revises(k)
  PROVE  ChatInv'
<1> DEFINE s == into[k]
<1>1. PICK n \in DOMAIN log[s] :
        log[s][n] = <<k, 0>> /\ log' = [log EXCEPT ![s] = [log[s] EXCEPT ![n] = <<k, 1>>]]
  BY DEF Revises
<1>2. /\ k \in running
      /\ UNCHANGED <<client, calm, alone, into, running, untold, fetches, inbox, selected, sending>>
  BY DEF Revises, AtWork, client
<1>3. /\ s \in Sessions /\ untold \in [Sends -> Nat] /\ log \in [Sessions -> Seq(Revisions)]
      /\ log[s] \in Seq(Revisions)
      /\ \A f \in Fetches : fetches[f].state \in {"free", "sent", "read"}
      /\ \A j \in Sends : untold[j] # 0 => j \in running /\ untold[j] <= Len(log[into[j]])
  BY <1>2, ChatCounts DEF ChatInv, WebChatTypeOK, ChatWireTypes, OneEnd
<1> HIDE DEF s
<1> DEFINE x == <<k, 1>>
           revised == [log[s] EXCEPT ![n] = x]
<1>4. x \in Revisions /\ x[1] = k /\ log[s][n][1] = k
  BY <1>1 DEF Revisions
<1> HIDE DEF x, Revisions
<1>5. /\ revised \in Seq(Revisions) /\ Len(revised) = Len(log[s])
      /\ DOMAIN revised = DOMAIN log[s]
      /\ \A i \in DOMAIN log[s] : revised[i] = IF i = n THEN x ELSE log[s][i]
  BY <1>3, <1>4
<1>6. log' = [log EXCEPT ![s] = revised]
  BY <1>1 DEF x
<1> HIDE DEF revised
<1>7. /\ log' \in [Sessions -> Seq(Revisions)] /\ log'[s] = revised
      /\ \A t \in Sessions : t # s => log'[t] = log[t]
      /\ \A t \in Sessions : Len(log'[t]) = Len(log[t])
  BY <1>3, <1>5, <1>6
<1>8. WebChatTypeOK'
  BY <1>2, <1>3, <1>7, ServiceTypes
<1>9. ChatWireTypes'
  <2>1. ASSUME NEW j \in Sends, untold[j] # 0
        PROVE  j \in running /\ untold[j] <= Len(log'[into[j]])
    <3>1. j \in running /\ untold[j] <= Len(log[into[j]])
      BY <1>3, <2>1
    <3>2. into[j] \in Sessions
      BY <3>1, ChatCounts DEF ChatInv, OneEnd
    <3> QED
      BY <1>7, <3>1, <3>2
  <2> QED
    BY <1>2, <2>1 DEF ChatInv, ChatWireTypes
<1>10. WrittenBy(k, into[k])
  BY <1>4, <1>5, <1>7 DEF WrittenBy, s
<1>11. OneEnd' /\ NoneBeside' /\ RefreshIsLog'
  BY <1>2, <1>10, RunWrites
<1>12. calm' => UnderWay'
  <2> SUFFICES ASSUME calm PROVE UnderWay'
    BY <1>2
  <2>1. GoesOn(k)
    BY <1>2, RunIsUnderWay
  <2>2. GoesOn(k)'
    BY <1>2, <2>1 DEF GoesOn, Pending
  <2> QED
    BY <2>2 DEF UnderWay
<1> QED
  BY <1>8, <1>9, <1>11, <1>12 DEF ChatInv, Waiting

\* A message is broadcast.
LEMMA BroadcastKeeps ==
  ASSUME ChatInv, NEW k \in Sends, Broadcasts(k)
  PROVE  ChatInv'
<1> DEFINE s == into[k]
           frame == Packet("message", s, k, untold[k], TRUE, <<log[s][untold[k]]>>)
<1>1. /\ untold[k] # 0 /\ untold' = [untold EXCEPT ![k] = 0] /\ inbox' = Append(inbox, frame)
      /\ UNCHANGED <<client, calm, alone, into, running, log, fetches, selected, sending>>
  BY DEF Broadcasts, Pushes, client
<1>2. /\ log \in [Sessions -> Seq(Revisions)] /\ untold \in [Sends -> Nat]
      /\ \A f \in Fetches : fetches[f].state \in {"free", "sent", "read"}
      /\ k \in running /\ k \in sending /\ untold[k] <= Len(log[s]) /\ s \in Sessions
  BY <1>1, ChatCounts DEF ChatInv, WebChatTypeOK, ChatWireTypes, OneEnd
<1>3. untold[k] \in 1..Len(log[s]) /\ untold[k] \in Nat
  <2>1. untold[k] \in Nat /\ Len(log[s]) \in Nat
    BY <1>2, ChatTypes
  <2> QED
    BY <1>1, <1>2, <2>1
<1> HIDE DEF s
<1>4. <<log[s][untold[k]]>> \in Seq(Revisions) /\ Len(<<log[s][untold[k]]>>) = 1
  <2>1. log[s][untold[k]] \in Revisions
    BY <1>2, <1>3, ElementOfSeq
  <2> QED
    BY <2>1
<1>5. frame \in Packets /\ frame.kind = "message" /\ Len(frame.revs) = 1
  <2> DEFINE revs == <<log[s][untold[k]]>>
  <2> HIDE DEF revs
  <2>1. revs \in Seq(Revisions) /\ Len(revs) = 1 /\ frame = Packet("message", s, k, untold[k], TRUE, revs)
    BY <1>4 DEF revs
  <2> HIDE DEF frame
  <2> QED
    BY <1>2, <1>3, <2>1 DEF Packet, Packets
<1> HIDE DEF frame
<1>6. /\ inbox' \in Seq(Packets) /\ Len(inbox') = Len(inbox) + 1 /\ Len(inbox) \in Nat
      /\ \A i \in 1..Len(inbox) : inbox'[i] = inbox[i]
      /\ inbox'[Len(inbox) + 1] = frame
  BY <1>1, <1>5, PushesOne, ChatTypes
<1>7. Ended' = Ended /\ \A i \in Ended : inbox'[i] = inbox[i]
  BY <1>1, <1>5, EndsPushed, ChatTypes
<1>8. Pending' = Pending /\ Refreshing' = Refreshing
  BY <1>1 DEF Pending, Refreshing
<1>9. /\ untold' \in [Sends -> Nat] /\ untold'[k] = 0
      /\ \A j \in Sends : j # k => untold'[j] = untold[j]
  BY <1>1, <1>2
<1>10. WebChatTypeOK'
  BY <1>1, <1>2, <1>9, ServiceTypes
<1>11. ChatWireTypes'
  <2>1. \A j \in Sends : untold'[j] # 0 => j \in running' /\ untold'[j] <= Len(log'[into'[j]])
    BY <1>1, <1>9 DEF ChatInv, ChatWireTypes
  <2>2. \A i \in 1..Len(inbox') : inbox'[i].kind = "message" => Len(inbox'[i].revs) = 1
    BY <1>5, <1>6 DEF ChatInv, ChatWireTypes
  <2> QED
    BY <1>1, <1>6, <2>1, <2>2 DEF ChatInv, ChatWireTypes
<1>12. OneEnd' /\ NoneBeside'
  <2>1. OneEnd /\ NoneBeside
    BY DEF ChatInv
  <2>2. \A i \in Ended' : i \in Ended /\ inbox'[i] = inbox[i]
    BY <1>7
  <2>3. \A i \in Ended' : /\ inbox'[i].send \in sending' \ running'
                          /\ inbox'[i].session = into'[inbox'[i].send]
    BY <1>1, <2>1, <2>2 DEF OneEnd
  <2>4. \A i, j \in Ended' : inbox'[i].send = inbox'[j].send => i = j
    BY <2>1, <2>2 DEF OneEnd
  <2>5. \A i \in Ended', f \in Refreshing' : inbox'[i].send # fetches'[f].send
    <3>1. fetches' = fetches /\ Refreshing' = Refreshing
      BY <1>1, <1>8
    <3>2. \A i \in Ended, f \in Refreshing : inbox[i].send # fetches[f].send
      BY <2>1 DEF OneEnd
    <3> QED
      BY <2>2, <3>1, <3>2, Zenon
  <2>6. OneEnd'
    BY <1>1, <1>8, <2>1, <2>3, <2>4, <2>5 DEF OneEnd
  <2> QED
    BY <1>1, <2>1, <2>6 DEF NoneBeside
<1>13. RefreshIsLog'
  BY <1>1, <1>5, <1>6, <1>8 DEF ChatInv, RefreshIsLog, Holds
<1>14. calm' => UnderWay'
  <2> SUFFICES ASSUME calm PROVE UnderWay'
    BY <1>1
  <2>1. GoesOn(k)
    BY <1>2, RunIsUnderWay
  <2>2. \A i \in 1..Len(inbox') : inbox'[i].kind = "message"
    BY <1>2, <1>5, <1>6, <2>1 DEF GoesOn
  <2>3. GoesOn(k)'
    BY <1>1, <1>2, <1>8, <2>1, <2>2 DEF GoesOn
  <2> QED
    BY <2>3 DEF UnderWay
<1> QED
  BY <1>10, <1>11, <1>12, <1>13, <1>14 DEF ChatInv, Waiting

\* The run ends.
LEMMA RunEndKeeps ==
  ASSUME ChatInv, NEW k \in Sends, NEW ok \in BOOLEAN, Ends(k, ok)
  PROVE  ChatInv'
<1> DEFINE s == into[k]
           frame == Packet("ran", s, k, 0, ok, <<>>)
<1>1. /\ k \in running /\ untold[k] = 0 /\ running' = running \ {k}
      /\ inbox' = Append(inbox, frame)
      /\ UNCHANGED <<client, calm, alone, into, untold, log, fetches, selected, sending>>
  BY DEF Ends, AtWork, Pushes, client
<1>2. /\ log \in [Sessions -> Seq(Revisions)] /\ untold \in [Sends -> Nat]
      /\ \A f \in Fetches : fetches[f].state \in {"free", "sent", "read"}
      /\ k \in sending /\ s \in Sessions
  BY <1>1, ChatCounts DEF ChatInv, WebChatTypeOK, OneEnd
<1>3. frame \in Packets /\ frame.kind = "ran" /\ frame.send = k /\ frame.session = s
  <2> DEFINE revs == <<>>
  <2>1. revs \in Seq(Revisions) /\ frame = Packet("ran", s, k, 0, ok, revs)
    OBVIOUS
  <2> HIDE DEF frame, revs
  <2> QED
    BY <1>2, <2>1 DEF Packet, Packets
<1> HIDE DEF frame
<1>4. /\ inbox' \in Seq(Packets) /\ Len(inbox') = Len(inbox) + 1 /\ Len(inbox) \in Nat
      /\ \A i \in 1..Len(inbox) : inbox'[i] = inbox[i]
      /\ inbox'[Len(inbox) + 1] = frame
  BY <1>1, <1>3, PushesOne, ChatTypes
<1>5. /\ Ended' = Ended \cup {Len(inbox) + 1} /\ Len(inbox) + 1 \notin Ended
      /\ \A i \in Ended : inbox'[i] = inbox[i]
  BY <1>1, <1>3, EndsPushed, ChatTypes
<1>6. Pending' = Pending /\ Refreshing' = Refreshing
  BY <1>1 DEF Pending, Refreshing
<1>7. WebChatTypeOK'
  BY <1>1, <1>2, ServiceTypes
<1>8. ChatWireTypes'
  <2>1. \A j \in Sends : untold'[j] # 0 => j \in running' /\ untold'[j] <= Len(log'[into'[j]])
    BY <1>1 DEF ChatInv, ChatWireTypes
  <2>2. \A i \in 1..Len(inbox') : inbox'[i].kind = "message" => Len(inbox'[i].revs) = 1
    BY <1>3, <1>4 DEF ChatInv, ChatWireTypes
  <2> QED
    BY <1>1, <1>4, <2>1, <2>2 DEF ChatInv, ChatWireTypes
<1>9. OneEnd'
  <2>1. OneEnd
    BY DEF ChatInv
  <2>2. \A i \in Ended : inbox'[i] = inbox[i] /\ inbox[i].send # k
    BY <1>1, <1>5, <2>1 DEF OneEnd
  <2>3. \A f \in Refreshing : fetches[f].send # k
    BY <1>1, <2>1 DEF OneEnd
  <2>4. /\ inbox'[Len(inbox) + 1].send = k /\ inbox'[Len(inbox) + 1].session = s
        /\ k \in sending' \ running'
    BY <1>1, <1>2, <1>3, <1>4
  <2>5. \A i \in Ended' : /\ inbox'[i].send \in sending' \ running'
                          /\ inbox'[i].session = into'[inbox'[i].send]
    BY <1>1, <1>5, <2>1, <2>2, <2>4 DEF OneEnd
  <2>6. \A f \in Refreshing' : /\ fetches'[f].send \in sending' \ running'
                               /\ fetches'[f].session = into'[fetches'[f].send]
    BY <1>1, <1>6, <2>1, <2>3 DEF OneEnd
  <2>7. \A i, j \in Ended' : inbox'[i].send = inbox'[j].send => i = j
    BY <1>5, <2>1, <2>2, <2>4 DEF OneEnd
  <2>8. \A f, g \in Refreshing' : fetches'[f].send = fetches'[g].send => f = g
    BY <1>1, <1>6, <2>1 DEF OneEnd
  <2>9. \A i \in Ended', f \in Refreshing' : inbox'[i].send # fetches'[f].send
    <3>1. \A i \in Ended, f \in Refreshing : inbox'[i].send # fetches[f].send
      BY <2>1, <2>2 DEF OneEnd
    <3>2. \A f \in Refreshing : inbox'[Len(inbox) + 1].send # fetches[f].send
      BY <2>3, <2>4
    <3> QED
      BY <1>1, <1>5, <1>6, <3>1, <3>2
  <2>10. running' \subseteq sending' /\ \A j \in sending' : into'[j] # 0
    BY <1>1, <2>1 DEF OneEnd
  <2> QED
    BY <2>5, <2>6, <2>7, <2>8, <2>9, <2>10 DEF OneEnd
<1>10. NoneBeside' /\ RefreshIsLog'
  BY <1>1, <1>3, <1>4, <1>6 DEF ChatInv, NoneBeside, RefreshIsLog, Holds
<1>11. calm' => UnderWay'
  <2> SUFFICES ASSUME calm PROVE UnderWay'
    BY <1>1
  <2>1. GoesOn(k)
    BY <1>1, RunIsUnderWay
  <2>2. \A i \in 1..Len(inbox') : i < Len(inbox') => inbox'[i].kind = "message"
    BY <1>1, <1>4, <2>1 DEF GoesOn
  <2>3. Len(inbox') # 0 /\ inbox'[Len(inbox')].kind = "ran"
    BY <1>3, <1>4
  <2>4. GoesOn(k)'
    BY <1>1, <1>6, <2>1, <2>2, <2>3 DEF GoesOn
  <2> QED
    BY <2>4 DEF UnderWay
<1> QED
  BY <1>7, <1>8, <1>9, <1>10, <1>11 DEF ChatInv, Waiting

\* What a user who does one thing at a time waits for, while messages are
\* fetched.
LEMMA FetchIsWaited ==
  ASSUME ChatInv, calm, NEW f \in Pending
  PROVE  /\ inbox = <<>> /\ running = {} /\ Pending = {f}
         /\ fetches[f].session = selected
         /\ sending = {fetches[f].send} \ {NoSend}
         /\ fetches[f].state = "read" => fetches[f].revs = log[selected]
<1>1. ~Quiet
  BY DEF Quiet, Busy, Pending
<1>2. ~Arrived /\ ~UnderWay
  BY DEF Arrived, UnderWay, GoesOn
<1>3. Fetching
  BY <1>1, <1>2 DEF ChatInv, Waiting
<1> QED
  BY <1>3 DEF Fetching

\* The service reads the messages of a session.
LEMMA FetchReadKeeps ==
  ASSUME ChatInv, NEW f \in Fetches, Reads(f)
  PROVE  ChatInv'
<1> DEFINE read == log[fetches[f].session]
<1>1. /\ fetches[f].state = "sent"
      /\ fetches' = [fetches EXCEPT ![f] = [fetches[f] EXCEPT !.state = "read", !.revs = read]]
      /\ UNCHANGED <<client, calm, alone, into, running, untold, log, inbox, selected, sending>>
  BY DEF Reads, client, service
<1>2. /\ log \in [Sessions -> Seq(Revisions)] /\ untold \in [Sends -> Nat]
      /\ fetches \in [Fetches -> FetchStates] /\ read \in Seq(Revisions)
      /\ fetches[f].session \in Sessions /\ fetches[f] \in FetchStates
      /\ \A g \in Fetches : fetches[g].state \in {"free", "sent", "read"}
  BY <1>1, ChatTypes DEF ChatInv, WebChatTypeOK, ChatWireTypes
<1> HIDE DEF read
<1>3. ASSUME NEW x \in FetchStates
      PROVE  LET y == [x EXCEPT !.state = "read", !.revs = read]
             IN y \in FetchStates /\ y.state = "read" /\ y.revs = read
                /\ y.session = x.session /\ y.send = x.send
  BY <1>2 DEF FetchStates
<1> HIDE DEF FetchStates
<1>4. /\ fetches' \in [Fetches -> FetchStates]
      /\ fetches'[f].state = "read" /\ fetches'[f].revs = read
      /\ fetches'[f].session = fetches[f].session /\ fetches'[f].send = fetches[f].send
      /\ \A g \in Fetches : g # f => fetches'[g] = fetches[g]
  BY <1>1, <1>2, <1>3
<1>5. Pending' = Pending /\ f \in Pending
  BY <1>1, <1>4 DEF Pending
<1>6. /\ Refreshing' = Refreshing
      /\ \A g \in Refreshing :
           fetches'[g].session = fetches[g].session /\ fetches'[g].send = fetches[g].send
  BY <1>4, <1>5 DEF Refreshing, Pending
<1>7. \A g \in Fetches : /\ fetches'[g].state \in {"free", "sent", "read"}
                         /\ fetches'[g].state # "free" => fetches'[g].session # 0
  <2>1. fetches[f].session # 0
    BY <1>2, ChatCounts
  <2> QED
    BY <1>2, <1>4, <2>1 DEF ChatInv, ChatWireTypes
<1>8. WebChatTypeOK'
  BY <1>1, <1>2, <1>7, ServiceTypes
<1>9. ChatWireTypes'
  BY <1>1, <1>4, <1>7 DEF ChatInv, ChatWireTypes
<1>10. OneEnd' /\ NoneBeside'
  <2>1. OneEnd /\ NoneBeside
    BY DEF ChatInv
  <2> QED
    BY <1>1, <1>6, <2>1, EndsKept DEF OneEnd, NoneBeside
<1>11. RefreshIsLog'
  <2>1. Holds(fetches[f].send, fetches[f].session, read)
    BY <1>2 DEF Holds, read
  <2>2. \A g \in Refreshing : fetches'[g].state = "read" =>
          Holds(fetches'[g].send, fetches'[g].session, fetches'[g].revs)
    BY <1>4, <2>1 DEF ChatInv, RefreshIsLog, Refreshing, Pending
  <2> QED
    BY <1>1, <1>6, <2>2 DEF ChatInv, RefreshIsLog, Holds
<1>12. calm' => Fetching'
  <2> SUFFICES ASSUME calm PROVE Fetching'
    BY <1>1
  <2>1. /\ inbox = <<>> /\ running = {} /\ Pending = {f}
        /\ fetches[f].session = selected
        /\ sending = {fetches[f].send} \ {NoSend}
    BY <1>5, FetchIsWaited
  <2> QED
    BY <1>1, <1>4, <1>5, <2>1 DEF Fetching, read
<1> QED
  BY <1>8, <1>9, <1>10, <1>11, <1>12 DEF ChatInv, Waiting


\* And answers with them.
LEMMA FetchAnswerKeeps ==
  ASSUME ChatInv, NEW f \in Fetches, NEW ok \in BOOLEAN, AnswersFetch(f, ok)
  PROVE  ChatInv'
<1> DEFINE k == fetches[f].send
           kind == IF k = NoSend THEN "listed" ELSE "refreshed"
           frame == Packet(kind, fetches[f].session, k, 0, ok, fetches[f].revs)
<1>1. /\ fetches[f].state = "read" /\ fetches' = [fetches EXCEPT ![f] = Idle]
      /\ inbox' = Append(inbox, frame)
      /\ UNCHANGED <<client, calm, alone, into, running, untold, log, selected, sending>>
  BY DEF AnswersFetch, Pushes, client, service
<1>2. /\ log \in [Sessions -> Seq(Revisions)] /\ untold \in [Sends -> Nat]
      /\ fetches \in [Fetches -> FetchStates] /\ fetches[f].revs \in Seq(Revisions)
      /\ fetches[f].session \in Sessions /\ k \in Sends \cup {NoSend}
      /\ \A g \in Fetches : fetches[g].state \in {"free", "sent", "read"}
  BY <1>1, ChatTypes DEF ChatInv, WebChatTypeOK, ChatWireTypes
<1> HIDE DEF k
<1>3. /\ kind \in {"refreshed", "listed"}
      /\ kind = "refreshed" <=> k # NoSend
  OBVIOUS
<1> HIDE DEF kind
<1>4. /\ frame \in Packets /\ frame.kind = kind /\ frame.session = fetches[f].session
      /\ frame.send = k /\ frame.revs = fetches[f].revs
  BY <1>2, <1>3 DEF Packet, Packets
<1> HIDE DEF frame
<1>5. Idle \in FetchStates /\ Idle.state = "free"
  <2>1. <<>> \in Seq(Revisions)
    OBVIOUS
  <2> QED
    BY <2>1 DEF Idle, FetchStates
<1> HIDE DEF FetchStates
<1>6. /\ fetches' \in [Fetches -> FetchStates] /\ fetches'[f].state = "free"
      /\ \A g \in Fetches : g # f => fetches'[g] = fetches[g]
  BY <1>1, <1>2, <1>5
<1>7. /\ inbox' \in Seq(Packets) /\ Len(inbox') = Len(inbox) + 1 /\ Len(inbox) \in Nat
      /\ \A i \in 1..Len(inbox) : inbox'[i] = inbox[i]
      /\ inbox'[Len(inbox) + 1] = frame
  BY <1>1, <1>4, PushesOne, ChatTypes
<1>8. /\ Ended' = IF kind = "refreshed" THEN Ended \cup {Len(inbox) + 1} ELSE Ended
      /\ Len(inbox) + 1 \notin Ended
      /\ \A i \in Ended : inbox'[i] = inbox[i]
  BY <1>1, <1>3, <1>4, EndsPushed, ChatTypes
<1>9. f \in Pending /\ Pending' = Pending \ {f}
  BY <1>1, <1>6 DEF Pending
<1>10. /\ Refreshing' = Refreshing \ {f} /\ (f \in Refreshing <=> kind = "refreshed")
       /\ \A g \in Refreshing' : g \in Refreshing /\ g # f /\ fetches'[g] = fetches[g]
  <2>1. Refreshing' \subseteq Fetches /\ Refreshing \subseteq Fetches
    BY DEF Refreshing, Pending
  <2>2. f \notin Refreshing'
    BY <1>9 DEF Refreshing
  <2>3. \A g \in Fetches : g # f => (g \in Refreshing' <=> g \in Refreshing)
    BY <1>6, <1>9 DEF Refreshing
  <2>4. f \in Refreshing <=> kind = "refreshed"
    BY <1>3, <1>9 DEF Refreshing, k
  <2> QED
    BY <1>6, <2>1, <2>2, <2>3, <2>4
<1>11. WebChatTypeOK'
  <2>1. \A g \in Fetches : fetches'[g].state \in {"free", "sent", "read"}
    BY <1>2, <1>6
  <2> QED
    BY <1>1, <1>2, <2>1, ServiceTypes
<1>12. ChatWireTypes'
  <2>1. \A i \in 1..Len(inbox') : inbox'[i].kind = "message" => Len(inbox'[i].revs) = 1
    BY <1>3, <1>4, <1>7 DEF ChatInv, ChatWireTypes
  <2>2. \A g \in Fetches : fetches'[g].state # "free" => fetches'[g].session # 0
    BY <1>6 DEF ChatInv, ChatWireTypes
  <2> QED
    BY <1>1, <1>6, <1>7, <2>1, <2>2 DEF ChatInv, ChatWireTypes
<1>13. OneEnd'
  <2>1. OneEnd
    BY DEF ChatInv
  <2>2. \A i \in Ended : inbox'[i].send = inbox[i].send /\ inbox'[i].session = inbox[i].session
    BY <1>8
  <2>3. \A g \in Refreshing' : /\ g \in Refreshing /\ g # f
                               /\ fetches'[g].send = fetches[g].send
                               /\ fetches'[g].session = fetches[g].session
    BY <1>10
  <2>4. \A g \in Refreshing' : /\ fetches'[g].send \in sending' \ running'
                               /\ fetches'[g].session = into'[fetches'[g].send]
    BY <1>1, <2>1, <2>3 DEF OneEnd
  <2>5. \A g, h \in Refreshing' : fetches'[g].send = fetches'[h].send => g = h
    BY <2>1, <2>3 DEF OneEnd
  <2>6. \A i \in Ended : /\ inbox'[i].send \in sending' \ running'
                         /\ inbox'[i].session = into'[inbox'[i].send]
    BY <1>1, <2>1, <2>2 DEF OneEnd
  <2>7. \A i, j \in Ended : inbox'[i].send = inbox'[j].send => i = j
    BY <2>1, <2>2 DEF OneEnd
  <2>8. \A i \in Ended, g \in Refreshing' : inbox'[i].send # fetches'[g].send
    <3>1. \A i \in Ended, g \in Refreshing : inbox[i].send # fetches[g].send
      BY <2>1 DEF OneEnd
    <3> QED
      BY <2>2, <2>3, <3>1
  <2>9. running' \subseteq sending' /\ \A j \in sending' : into'[j] # 0
    BY <1>1, <2>1 DEF OneEnd
  <2>10. CASE kind # "refreshed"
    <3>1. Ended' = Ended
      BY <1>8, <2>10
    <3> QED
      BY <2>4, <2>5, <2>6, <2>7, <2>8, <2>9, <3>1 DEF OneEnd
  <2>11. CASE kind = "refreshed"
    <3>1. /\ f \in Refreshing /\ k \in sending' \ running'
          /\ fetches[f].session = into'[k]
      BY <1>1, <1>10, <2>1, <2>11 DEF OneEnd, k
    <3>2. \A i \in Ended : inbox'[i].send # k
      BY <2>1, <2>2, <3>1 DEF OneEnd, k
    <3>3. \A g \in Refreshing' : fetches'[g].send # k
      BY <2>1, <2>3, <3>1 DEF OneEnd, k
    <3>4. /\ inbox'[Len(inbox) + 1].send = k
          /\ inbox'[Len(inbox) + 1].session = fetches[f].session
      BY <1>4, <1>7
    <3>5. Ended' = Ended \cup {Len(inbox) + 1}
      BY <1>8, <2>11
    <3>6. \A i \in Ended' : /\ inbox'[i].send \in sending' \ running'
                            /\ inbox'[i].session = into'[inbox'[i].send]
      BY <2>6, <3>1, <3>4, <3>5
    <3>7. \A i, j \in Ended' : inbox'[i].send = inbox'[j].send => i = j
      BY <2>7, <3>2, <3>4, <3>5
    <3>8. \A i \in Ended', g \in Refreshing' : inbox'[i].send # fetches'[g].send
      BY <2>8, <3>3, <3>4, <3>5
    <3> QED
      BY <2>4, <2>5, <2>9, <3>6, <3>7, <3>8 DEF OneEnd
  <2> QED
    BY <2>10, <2>11
<1>14. NoneBeside'
  BY <1>1 DEF ChatInv, NoneBeside
<1>15. RefreshIsLog'
  <2>0. \A j, s, revs : Holds(j, s, revs)' <=> Holds(j, s, revs)
    BY <1>1 DEF Holds
  <2>1. \A i \in 1..Len(inbox) : inbox[i].kind = "refreshed" =>
          Holds(inbox[i].send, inbox[i].session, inbox[i].revs)
    BY DEF ChatInv, RefreshIsLog
  <2>2. kind = "refreshed" => Holds(frame.send, frame.session, frame.revs)
    <3> SUFFICES ASSUME kind = "refreshed"
                 PROVE  Holds(frame.send, frame.session, frame.revs)
      OBVIOUS
    <3>1. Holds(fetches[f].send, fetches[f].session, fetches[f].revs)
      BY <1>1, <1>10 DEF ChatInv, RefreshIsLog
    <3> QED
      BY <1>4, <3>1 DEF k
  <2>3. \A g \in Refreshing : fetches[g].state = "read" =>
          Holds(fetches[g].send, fetches[g].session, fetches[g].revs)
    BY DEF ChatInv, RefreshIsLog
  <2> HIDE DEF Holds
  <2>4. \A i \in 1..Len(inbox') : inbox'[i].kind = "refreshed" =>
          Holds(inbox'[i].send, inbox'[i].session, inbox'[i].revs)
    <3> SUFFICES ASSUME NEW i \in 1..Len(inbox'), inbox'[i].kind = "refreshed"
                 PROVE  Holds(inbox'[i].send, inbox'[i].session, inbox'[i].revs)
      OBVIOUS
    <3>1. i \in 1..Len(inbox) \/ i = Len(inbox) + 1
      BY <1>7
    <3>2. CASE i \in 1..Len(inbox)
      BY <1>7, <2>1, <3>2
    <3>3. CASE i = Len(inbox) + 1
      BY <1>4, <1>7, <2>2, <3>3
    <3> QED
      BY <3>1, <3>2, <3>3
  <2>5. \A g \in Refreshing' : fetches'[g].state = "read" =>
          Holds(fetches'[g].send, fetches'[g].session, fetches'[g].revs)
    BY <1>10, <2>3
  <2>6. \A i \in 1..Len(inbox') : inbox'[i].kind = "refreshed" =>
          Holds(inbox[i].send, inbox[i].session, inbox[i].revs)'
    BY <1>1, <2>4 DEF Holds
  <2>7. \A g \in Refreshing' : fetches'[g].state = "read" =>
          Holds(fetches[g].send, fetches[g].session, fetches[g].revs)'
    BY <1>1, <2>5 DEF Holds
  <2> QED
    BY <2>6, <2>7 DEF RefreshIsLog
<1>16. calm' => Arrived'
  <2> SUFFICES ASSUME calm PROVE Arrived'
    BY <1>1
  <2>1. /\ inbox = <<>> /\ running = {} /\ Pending = {f}
        /\ fetches[f].session = selected
        /\ sending = {k} \ {NoSend}
        /\ fetches[f].revs = log[selected]
    BY <1>1, <1>9, FetchIsWaited DEF k
  <2>2. Len(inbox) = 0 /\ Len(inbox') = 1 /\ inbox'[1] = frame /\ Pending' = {}
    BY <1>7, <1>9, <2>1
  <2>3. sending = IF kind = "refreshed" THEN {k} ELSE {}
    BY <1>3, <2>1
  <2> QED
    BY <1>1, <1>3, <1>4, <2>1, <2>2, <2>3 DEF Arrived
<1> QED
  BY <1>11, <1>12, <1>13, <1>14, <1>15, <1>16 DEF ChatInv, Waiting

\* The ends that are on the wire, when the client has taken a frame from it.
LEMMA EndsTaken ==
  ASSUME inbox \in Seq(Packets), inbox # <<>>, inbox' = Tail(inbox)
  PROVE  /\ \A i \in Ended' : i + 1 \in Ended /\ i \in Nat /\ i # 0 /\ inbox'[i] = inbox[i + 1]
         /\ 1 \in Ended <=> Head(inbox).kind \in {"ran", "refreshed"}
<1>1. /\ Len(inbox') \in Nat /\ 1 \in 1..Len(inbox) /\ Head(inbox) = inbox[1]
      /\ \A i \in 1..Len(inbox') : i + 1 \in 1..Len(inbox) /\ inbox'[i] = inbox[i + 1]
  BY TakesOne
<1>2. \A i \in Ended' : i \in 1..Len(inbox')
  BY DEF Ended
<1>3. \A i \in Ended' : i + 1 \in Ended
  BY <1>1, <1>2 DEF Ended
<1> QED
  BY <1>1, <1>2, <1>3 DEF Ended

\* What is left on the wire keeps its form, and what it answers; the ends on it
\* are of other sends than the one whose end was taken.
LEMMA TakeWire ==
  ASSUME ChatInv, inbox # <<>>, inbox' = Tail(inbox), UNCHANGED <<service, alone>>
  PROVE  /\ inbox' \in Seq(Packets)
         /\ \A i \in 1..Len(inbox') : inbox'[i].kind = "message" => Len(inbox'[i].revs) = 1
         /\ \A i \in 1..Len(inbox') : inbox'[i].kind = "refreshed" =>
              Holds(inbox[i].send, inbox[i].session, inbox[i].revs)'
         /\ \A k \in Sends :
              untold'[k] # 0 => k \in running' /\ untold'[k] <= Len(log'[into'[k]])
         /\ \A i \in Ended' : /\ inbox'[i].send \in sending \ running
                              /\ inbox'[i].session = into[inbox'[i].send]
                              /\ 1 \in Ended => inbox'[i].send # Head(inbox).send
                              /\ \A f \in Refreshing : inbox'[i].send # fetches[f].send
         /\ \A i, j \in Ended' : inbox'[i].send = inbox'[j].send => i = j
<1>1. /\ inbox' \in Seq(Packets)
      /\ \A i \in 1..Len(inbox') : i + 1 \in 1..Len(inbox) /\ inbox'[i] = inbox[i + 1]
      /\ Head(inbox) = inbox[1]
  BY TakesOne, ChatTypes
<1>2. UNCHANGED <<log, untold, running, into, alone>>
  BY DEF service
<1>3. \A i \in 1..Len(inbox) :
        /\ inbox[i].kind = "message" => Len(inbox[i].revs) = 1
        /\ inbox[i].kind = "refreshed" => Holds(inbox[i].send, inbox[i].session, inbox[i].revs)
  BY DEF ChatInv, ChatWireTypes, RefreshIsLog
<1>4. \A k \in Sends : untold[k] # 0 => k \in running /\ untold[k] <= Len(log[into[k]])
  BY DEF ChatInv, ChatWireTypes
<1>5. \A i \in 1..Len(inbox') : inbox'[i].kind = "refreshed" =>
        Holds(inbox[i].send, inbox[i].session, inbox[i].revs)'
  BY <1>1, <1>2, <1>3 DEF Holds
<1>6. \A i \in Ended' : /\ i + 1 \in Ended /\ i + 1 # 1 /\ i \in Nat
                        /\ inbox'[i] = inbox[i + 1]
  <2>1. \A i \in Ended' : i + 1 \in Ended /\ i \in Nat /\ i # 0 /\ inbox'[i] = inbox[i + 1]
    BY EndsTaken, ChatTypes
  <2>2. \A i \in Nat : i # 0 => i + 1 # 1
    OBVIOUS
  <2> QED
    BY <2>1, <2>2, Zenon
<1>7. OneEnd
  BY DEF ChatInv
<1>8. ASSUME NEW i \in Ended'
      PROVE  /\ inbox'[i].send \in sending \ running
             /\ inbox'[i].session = into[inbox'[i].send]
             /\ 1 \in Ended => inbox'[i].send # Head(inbox).send
             /\ \A f \in Refreshing : inbox'[i].send # fetches[f].send
  <2> DEFINE j == i + 1
  <2>1. j \in Ended /\ j # 1 /\ inbox'[i] = inbox[j]
    BY <1>6, Zenon
  <2> HIDE DEF j
  <2>2. /\ inbox[j].send \in sending \ running
        /\ inbox[j].session = into[inbox[j].send]
        /\ 1 \in Ended => inbox[j].send # inbox[1].send
        /\ \A f \in Refreshing : inbox[j].send # fetches[f].send
    BY <1>7, <2>1, Zenon DEF OneEnd
  <2> QED
    BY <1>1, <2>1, <2>2, Zenon
<1>9. \A i, j \in Ended' : inbox'[i].send = inbox'[j].send => i = j
  <2> SUFFICES ASSUME NEW i \in Ended', NEW j \in Ended', inbox'[i].send = inbox'[j].send
               PROVE  i = j
    OBVIOUS
  <2> DEFINE p == i + 1
             q == j + 1
  <2>0. p \in Ended /\ q \in Ended /\ inbox[p].send = inbox[q].send
    <3>1. p \in Ended /\ inbox'[i] = inbox[p]
      BY <1>6, Zenon
    <3>2. q \in Ended /\ inbox'[j] = inbox[q]
      BY <1>6, Zenon
    <3> HIDE DEF p, q
    <3> QED
      BY <3>1, <3>2
  <2> HIDE DEF p, q
  <2>01. p = q
    BY <1>7, <2>0 DEF OneEnd
  <2>1. i + 1 = j + 1
    BY <2>01 DEF p, q
  <2>2. i \in Nat /\ j \in Nat
    BY <1>6, Zenon
  <2>3. \A m, n \in Nat : m + 1 = n + 1 => m = n
    OBVIOUS
  <2> QED
    BY <2>1, <2>2, <2>3, Zenon
<1>10. /\ inbox' \in Seq(Packets)
       /\ \A i \in 1..Len(inbox') : inbox'[i].kind = "message" => Len(inbox'[i].revs) = 1
       /\ \A k \in Sends :
            untold'[k] # 0 => k \in running' /\ untold'[k] <= Len(log'[into'[k]])
  BY <1>1, <1>2, <1>3, <1>4
<1> QED
  BY <1>5, <1>8, <1>9, <1>10, Zenon

\* What the client does: the types it leaves to show.
LEMMA ClientTypes ==
  ASSUME ChatInv, UNCHANGED <<service, created, selected, acts, alone>>,
         sending' \subseteq sending, calm' \in BOOLEAN,
         shown' \in Seq(Sessions \X Nat \X Revisions),
         \A i, j \in DOMAIN shown' :
           shown'[i][1] = shown'[j][1] /\ shown'[i][2] = shown'[j][2] => i = j,
         \A f \in Fetches : fetches'[f].state \in {"free", "sent", "read"}
  PROVE  WebChatTypeOK'
  BY DEF ChatInv, WebChatTypeOK, service

\* The messages that are shown and that m is a revision of.
Earlier(m) == {i \in DOMAIN shown : shown[i][1] = m[1] /\ shown[i][2] = m[2]}

\* The client takes a message.
LEMMA TakeMessageTypes ==
  ASSUME shown \in Seq(Sessions \X Nat \X Revisions),
         \A i, j \in DOMAIN shown :
           shown[i][1] = shown[j][1] /\ shown[i][2] = shown[j][2] => i = j,
         NEW m \in Sessions \X Nat \X Revisions,
         shown' = IF Earlier(m) = {} THEN Append(shown, m)
                  ELSE [i \in DOMAIN shown |-> IF i \in Earlier(m) THEN m ELSE shown[i]]
  PROVE  /\ shown' \in Seq(Sessions \X Nat \X Revisions)
         /\ \A i, j \in DOMAIN shown' :
              shown'[i][1] = shown'[j][1] /\ shown'[i][2] = shown'[j][2] => i = j
<1> DEFINE same == Earlier(m)
           Messages == Sessions \X Nat \X Revisions
<1>1. shown \in Seq(Messages) /\ m \in Messages
  OBVIOUS
<1> HIDE DEF Messages
<1>2. DOMAIN shown = 1..Len(shown) /\ Len(shown) \in Nat
  BY <1>1
<1>0. same = {i \in DOMAIN shown : shown[i][1] = m[1] /\ shown[i][2] = m[2]}
  BY DEF Earlier
<1> HIDE DEF same
<1>3. CASE same = {}
  <2>1. shown' = Append(shown, m)
    BY <1>3 DEF same
  <2>2. /\ shown' \in Seq(Messages) /\ DOMAIN shown' = 1..(Len(shown) + 1)
        /\ \A i \in 1..Len(shown) : shown'[i] = shown[i]
        /\ shown'[Len(shown) + 1] = m
    BY <1>1, <2>1
  <2>3. \A i \in 1..Len(shown) : ~(shown[i][1] = m[1] /\ shown[i][2] = m[2])
    BY <1>0, <1>2, <1>3
  <2>4. \A i \in DOMAIN shown' : i \in 1..Len(shown) \/ i = Len(shown) + 1
    BY <1>2, <2>2
  <2>5. \A i, j \in DOMAIN shown' :
          shown'[i][1] = shown'[j][1] /\ shown'[i][2] = shown'[j][2] => i = j
    BY <1>2, <2>2, <2>3, <2>4
  <2> QED
    BY <2>2, <2>5 DEF Messages
<1>4. CASE same # {}
  <2>1. shown' = [i \in DOMAIN shown |-> IF i \in same THEN m ELSE shown[i]]
    BY <1>4 DEF same
  <2>2. \A i \in 1..Len(shown) : shown[i] \in Messages
    BY <1>1
  <2>3. shown' \in [1..Len(shown) -> Messages] /\ DOMAIN shown' = DOMAIN shown
    <3>1. \A i \in DOMAIN shown : (IF i \in same THEN m ELSE shown[i]) \in Messages
      BY <1>1, <1>2, <2>2
    <3>2. DOMAIN shown' = DOMAIN shown
      BY <2>1
    <3>3. \A i \in DOMAIN shown : shown'[i] \in Messages
      BY <2>1, <3>1
    <3>4. shown' = [i \in DOMAIN shown' |-> shown'[i]]
      BY <2>1, <3>2
    <3> QED
      BY <1>2, <3>2, <3>3, <3>4
  <2>4. shown' \in Seq(Messages)
    <3>1. \E n \in Nat : shown' \in [1..n -> Messages]
      BY <1>2, <2>3
    <3>2. Seq(Messages) = UNION {[1..n -> Messages] : n \in Nat}
      BY SeqDef, Zenon
    <3> QED
      BY <3>1, <3>2, Zenon
  <2>5. \A i \in DOMAIN shown : shown'[i][1] = shown[i][1] /\ shown'[i][2] = shown[i][2]
    BY <1>0, <2>1
  <2>6. \A i, j \in DOMAIN shown' :
          shown'[i][1] = shown'[j][1] /\ shown'[i][2] = shown'[j][2] => i = j
    BY <2>3, <2>5
  <2> QED
    BY <2>4, <2>6 DEF Messages
<1> QED
  BY <1>3, <1>4

\* message.completed.
LEMMA MessageKeeps ==
  ASSUME ChatInv, TakesMessage
  PROVE  ChatInv'
<1> DEFINE m == <<Head(inbox).session, Head(inbox).n, Head(inbox).revs[1]>>
           same == {i \in DOMAIN shown : shown[i][1] = m[1] /\ shown[i][2] = m[2]}
<1>1. /\ inbox # <<>> /\ inbox' = Tail(inbox) /\ Head(inbox).kind = "message"
      /\ shown' = IF same = {} THEN Append(shown, m)
                  ELSE [i \in DOMAIN shown |-> IF i \in same THEN m ELSE shown[i]]
      /\ UNCHANGED <<service, created, acts, alone, into, running>>
      /\ fetches' = fetches /\ sending' = sending /\ calm' = calm /\ selected' = selected
  BY DEF TakesMessage, Takes, service
<1>2. /\ Head(inbox) = inbox[1] /\ 1 \in 1..Len(inbox) /\ Len(inbox') = Len(inbox) - 1
      /\ \A i \in 1..Len(inbox') : i + 1 \in 1..Len(inbox) /\ inbox'[i] = inbox[i + 1]
  BY <1>1, TakesOne, ChatTypes
<1>3. m \in Sessions \X Nat \X Revisions
  <2>1. /\ Head(inbox).session \in Sessions /\ Head(inbox).n \in Nat
        /\ Head(inbox).revs \in Seq(Revisions)
    BY <1>2, ChatTypes
  <2>2. Len(Head(inbox).revs) = 1
    BY <1>1, <1>2 DEF ChatInv, ChatWireTypes
  <2>3. Head(inbox).revs[1] \in Revisions
    BY <2>1, <2>2, ElementOfSeq
  <2> QED
    BY <2>1, <2>3
<1>4. /\ shown' \in Seq(Sessions \X Nat \X Revisions)
      /\ \A i, j \in DOMAIN shown' :
           shown'[i][1] = shown'[j][1] /\ shown'[i][2] = shown'[j][2] => i = j
  <2>1. /\ shown \in Seq(Sessions \X Nat \X Revisions)
        /\ \A i, j \in DOMAIN shown :
             shown[i][1] = shown[j][1] /\ shown[i][2] = shown[j][2] => i = j
    BY DEF ChatInv, WebChatTypeOK
  <2> HIDE DEF m
  <2>2. shown' = IF Earlier(m) = {} THEN Append(shown, m)
                 ELSE [i \in DOMAIN shown |-> IF i \in Earlier(m) THEN m ELSE shown[i]]
    BY <1>1 DEF Earlier
  <2> QED
    BY <1>3, <2>1, <2>2, TakeMessageTypes
<1>5. Pending' = Pending /\ Refreshing' = Refreshing
  BY <1>1 DEF Pending, Refreshing
<1>6. WebChatTypeOK'
  <2>1. /\ calm \in BOOLEAN /\ sending' \subseteq sending
        /\ \A f \in Fetches : fetches'[f].state \in {"free", "sent", "read"}
    BY <1>1 DEF ChatInv, WebChatTypeOK
  <2> QED
    BY <1>1, <1>4, <2>1, ClientTypes
<1>7. ChatWireTypes'
  BY <1>1, TakeWire DEF ChatInv, ChatWireTypes
<1>8. OneEnd' /\ NoneBeside'
  <2>1. OneEnd /\ NoneBeside
    BY DEF ChatInv
  <2>2. /\ \A i \in Ended' : /\ inbox'[i].send \in sending' \ running'
                             /\ inbox'[i].session = into'[inbox'[i].send]
                             /\ \A f \in Refreshing' : inbox'[i].send # fetches'[f].send
        /\ \A i, j \in Ended' : inbox'[i].send = inbox'[j].send => i = j
    BY <1>1, <1>5, TakeWire
  <2>3. OneEnd'
    BY <1>1, <1>5, <2>1, <2>2 DEF OneEnd
  <2> QED
    BY <1>1, <2>1, <2>3 DEF NoneBeside
<1>9. RefreshIsLog'
  BY <1>1, <1>5, TakeWire DEF ChatInv, RefreshIsLog, service, Holds
<1>10. calm' => UnderWay'
  <2> SUFFICES ASSUME calm PROVE UnderWay'
    BY <1>1
  <2>1. ~Quiet /\ ~Fetching /\ ~Arrived
    BY <1>1, <1>2 DEF Quiet, Busy, Fetching, Arrived
  <2>2. UnderWay
    BY <2>1 DEF ChatInv, Waiting
  <2>3. PICK k \in Sends : GoesOn(k)
    BY <2>2 DEF UnderWay
  <2>4. \A i \in 1..Len(inbox') : i < Len(inbox') \/ k \in running => inbox'[i].kind = "message"
    BY <1>2, <2>3, ChatTypes DEF GoesOn
  <2>5. ASSUME k \notin running
        PROVE  Len(inbox') # 0 /\ inbox'[Len(inbox')].kind = "ran"
    <3>1. inbox[Len(inbox)].kind = "ran"
      BY <2>3, <2>5 DEF GoesOn
    <3>2. Len(inbox) # 1 /\ Len(inbox) \in Nat /\ Len(inbox) # 0
      BY <1>1, <1>2, <3>1, ChatTypes
    <3>3. Len(inbox') \in 1..Len(inbox') /\ Len(inbox') + 1 = Len(inbox)
      BY <1>2, <3>2
    <3> QED
      BY <1>2, <3>1, <3>3
  <2>6. GoesOn(k)'
    BY <1>1, <1>5, <2>3, <2>4, <2>5 DEF GoesOn
  <2> QED
    BY <2>6 DEF UnderWay
<1> QED
  BY <1>6, <1>7, <1>8, <1>9, <1>10 DEF ChatInv, Waiting

\* The continuation of handleSend when its run failed: it ends there.
LEMMA FailedRunKeeps ==
  ASSUME ChatInv, TakesRun, ~Head(inbox).ok
  PROVE  ChatInv'
<1> DEFINE k == Head(inbox).send
<1>1. /\ inbox # <<>> /\ inbox' = Tail(inbox) /\ Head(inbox).kind = "ran"
      /\ UNCHANGED <<service, created, selected, acts, alone, into, running, fetches, shown>>
      /\ sending' = sending \ {k} /\ calm' = FALSE
  BY DEF TakesRun, Takes, service
<1>2. Head(inbox) = inbox[1] /\ 1 \in Ended
  BY <1>1, TakesOne, EndsTaken, ChatTypes
<1>3. Pending' = Pending /\ Refreshing' = Refreshing
  BY <1>1 DEF Pending, Refreshing
<1>4. WebChatTypeOK'
  <2>1. /\ \A f \in Fetches : fetches'[f].state \in {"free", "sent", "read"}
        /\ shown' \in Seq(Sessions \X Nat \X Revisions)
        /\ \A i, j \in DOMAIN shown' :
             shown'[i][1] = shown'[j][1] /\ shown'[i][2] = shown'[j][2] => i = j
    BY <1>1 DEF ChatInv, WebChatTypeOK
  <2>2. calm' \in BOOLEAN /\ sending' \subseteq sending
    BY <1>1
  <2> QED
    BY <1>1, <2>1, <2>2, ClientTypes
<1>5. ChatWireTypes'
  BY <1>1, TakeWire DEF ChatInv, ChatWireTypes
<1>6. OneEnd' /\ NoneBeside'
  <2>1. OneEnd /\ NoneBeside /\ k \in sending \ running /\ \A f \in Refreshing : fetches[f].send # k
    BY <1>2 DEF ChatInv, OneEnd
  <2>2. \A i \in Ended' : /\ inbox'[i].send \in sending \ running
                          /\ inbox'[i].session = into[inbox'[i].send]
                          /\ inbox'[i].send # k
                          /\ \A f \in Refreshing : inbox'[i].send # fetches[f].send
    BY <1>1, <1>2, TakeWire
  <2>3. \A i, j \in Ended' : inbox'[i].send = inbox'[j].send => i = j
    BY <1>1, TakeWire
  <2> HIDE DEF k
  <2>4. \A i \in Ended' : /\ inbox'[i].send \in sending' \ running'
                          /\ inbox'[i].session = into'[inbox'[i].send]
                          /\ \A f \in Refreshing' : inbox'[i].send # fetches'[f].send
    BY <1>1, <1>3, <2>2
  <2>5. \A f \in Refreshing' : /\ fetches'[f].send \in sending' \ running'
                               /\ fetches'[f].session = into'[fetches'[f].send]
    BY <1>1, <1>3, <2>1 DEF OneEnd
  <2>6. \A f, g \in Refreshing' : fetches'[f].send = fetches'[g].send => f = g
    BY <1>1, <1>3, <2>1 DEF OneEnd
  <2>7. running' \subseteq sending' /\ \A j \in sending' : into'[j] # 0
    BY <1>1, <2>1 DEF OneEnd
  <2>8. OneEnd'
    BY <2>3, <2>4, <2>5, <2>6, <2>7 DEF OneEnd
  <2>9. NoneBeside'
    BY <1>1, <2>1 DEF NoneBeside
  <2> QED
    BY <2>8, <2>9
<1>7. RefreshIsLog'
  BY <1>1, <1>3, TakeWire DEF ChatInv, RefreshIsLog, service, Holds
<1> QED
  BY <1>1, <1>4, <1>5, <1>6, <1>7 DEF ChatInv

\* And when it succeeded: the messages are fetched again.
LEMMA RunKeeps ==
  ASSUME ChatInv, TakesRun, Head(inbox).ok
  PROVE  ChatInv'
<1> DEFINE s == Head(inbox).session
           k == Head(inbox).send
<1>1. /\ inbox # <<>> /\ inbox' = Tail(inbox) /\ Head(inbox).kind = "ran"
      /\ UNCHANGED <<service, created, selected, acts, alone, into, log, running, shown>>
      /\ Fetch(s, k) /\ sending' = sending /\ calm' = calm
  BY DEF TakesRun, Takes, service
<1>2. /\ Head(inbox) = inbox[1] /\ 1 \in 1..Len(inbox) /\ 1 \in Ended /\ Len(inbox) \in Nat
      /\ Len(inbox') = Len(inbox) - 1 /\ s \in Sessions /\ s # 0
  BY <1>1, TakesOne, EndsTaken, ChatTypes, ChatCounts
<1>0. /\ OneEnd /\ NoneBeside /\ k \in sending \ running /\ s = into[k]
      /\ \A f \in Refreshing : fetches[f].send # k
  BY <1>2 DEF ChatInv, OneEnd
<1>01. k \in Sends \cup {NoSend} /\ k # NoSend
  BY <1>0, ChatCounts
<1> HIDE DEF s, k
<1>3. PICK f \in Fetches :
        /\ f \notin Pending /\ fetches' \in [Fetches -> FetchStates]
        /\ fetches'[f].state = "sent" /\ fetches'[f].session = s
        /\ fetches'[f].send = k
        /\ \A g \in Fetches : g # f => fetches'[g] = fetches[g]
        /\ Pending' = Pending \cup {f} /\ Refreshing' = Refreshing \cup {f}
  BY <1>01, <1>1, <1>2, FetchBegins
<1>4. \A g \in Refreshing : g \in Fetches /\ g # f /\ fetches'[g] = fetches[g]
  BY <1>3 DEF Refreshing, Pending
<1>5. \A g \in Fetches : /\ fetches'[g].state # "free" => fetches'[g].session # 0
                         /\ fetches'[g].state \in {"free", "sent", "read"}
  BY <1>2, <1>3, ChatTypes DEF ChatInv, ChatWireTypes
<1> HIDE DEF FetchStates
<1>6. WebChatTypeOK'
  <2>1. /\ shown' \in Seq(Sessions \X Nat \X Revisions)
        /\ \A i, j \in DOMAIN shown' :
             shown'[i][1] = shown'[j][1] /\ shown'[i][2] = shown'[j][2] => i = j
    BY <1>1 DEF ChatInv, WebChatTypeOK
  <2>2. calm' \in BOOLEAN /\ sending' \subseteq sending
    BY <1>1, ChatCounts
  <2> QED
    BY <1>1, <1>5, <2>1, <2>2, ClientTypes
<1>7. ChatWireTypes'
  BY <1>1, <1>3, <1>5, TakeWire DEF ChatWireTypes
<1>8. OneEnd' /\ NoneBeside'
  <2>1. \A i \in Ended' : /\ inbox'[i].send \in sending \ running
                          /\ inbox'[i].session = into[inbox'[i].send]
                          /\ inbox'[i].send # k
                          /\ \A g \in Refreshing : inbox'[i].send # fetches[g].send
    BY <1>1, <1>2, TakeWire DEF k
  <2>2. \A i, j \in Ended' : inbox'[i].send = inbox'[j].send => i = j
    BY <1>1, TakeWire
  <2>3. \A g \in Refreshing : /\ fetches'[g].send = fetches[g].send
                              /\ fetches'[g].session = fetches[g].session
                              /\ fetches[g].send # k
                              /\ fetches[g].send \in sending \ running
                              /\ fetches[g].session = into[fetches[g].send]
    BY <1>0, <1>4 DEF OneEnd
  <2>4. \A i \in Ended', g \in Refreshing' : inbox'[i].send # fetches'[g].send
    BY <1>3, <2>1, <2>3
  <2>5. \A g, h \in Refreshing' : fetches'[g].send = fetches'[h].send => g = h
    <3>1. \A g, h \in Refreshing : fetches'[g].send = fetches'[h].send => g = h
      BY <1>0, <2>3 DEF OneEnd
    <3> QED
      BY <1>3, <2>3, <3>1
  <2>6. \A g \in Refreshing' : /\ fetches'[g].send \in sending' \ running'
                               /\ fetches'[g].session = into'[fetches'[g].send]
    BY <1>0, <1>1, <1>3, <2>3
  <2>7. \A i \in Ended' : /\ inbox'[i].send \in sending' \ running'
                          /\ inbox'[i].session = into'[inbox'[i].send]
    BY <1>1, <2>1
  <2>8. running' \subseteq sending' /\ \A j \in sending' : into'[j] # 0
    BY <1>0, <1>1 DEF OneEnd
  <2> QED
    BY <1>0, <1>1, <2>2, <2>4, <2>5, <2>6, <2>7, <2>8 DEF OneEnd, NoneBeside
<1>9. RefreshIsLog'
  <2>1. \A i \in 1..Len(inbox') : inbox'[i].kind = "refreshed" =>
          Holds(inbox[i].send, inbox[i].session, inbox[i].revs)'
    BY <1>1, TakeWire
  <2>2. \A g \in Refreshing' : fetches'[g].state = "read" =>
          Holds(fetches[g].send, fetches[g].session, fetches[g].revs)'
    BY <1>1, <1>3, <1>4 DEF ChatInv, RefreshIsLog, Holds
  <2> QED
    BY <2>1, <2>2 DEF RefreshIsLog
<1>10. calm' => Fetching'
  <2> SUFFICES ASSUME calm PROVE Fetching'
    BY <1>1
  <2>1. ~Quiet /\ ~Fetching /\ ~Arrived
    BY <1>1, <1>2 DEF Quiet, Busy, Fetching, Arrived
  <2>2. PICK j \in Sends : GoesOn(j)
    BY <2>1 DEF ChatInv, Waiting, UnderWay
  <2>3. j = k
    BY <1>0, <2>2 DEF GoesOn
  <2>4. Len(inbox) = 1 /\ sending = {k} /\ s = selected /\ Pending = {}
    BY <1>0, <1>1, <1>2, <2>2, <2>3 DEF GoesOn
  <2>5. running = {}
    BY <1>0, <2>4 DEF OneEnd
  <2>6. inbox' = <<>>
    BY <1>1, <1>2, <2>4, TakesOne, ChatTypes
  <2>7. Pending' = {f} /\ sending' = {k} \ {NoSend}
    BY <1>01, <1>1, <1>3, <2>4
  <2> QED
    BY <1>1, <1>3, <2>4, <2>5, <2>6, <2>7 DEF Fetching
<1> QED
  BY <1>6, <1>7, <1>8, <1>9, <1>10 DEF ChatInv, Waiting

\* What listMessages gives can be shown.
LEMMA ViewTypes ==
  ASSUME NEW s \in Sessions, NEW revs \in Seq(Revisions)
  PROVE  /\ View(s, revs) \in Seq(Sessions \X Nat \X Revisions)
         /\ \A i, j \in DOMAIN View(s, revs) :
              /\ View(s, revs)[i][1] = View(s, revs)[j][1]
              /\ View(s, revs)[i][2] = View(s, revs)[j][2]
              => i = j
<1> HIDE DEF Revisions
<1> DEFINE v == [n \in DOMAIN revs |-> <<s, n, revs[n]>>]
<1>1. DOMAIN revs = 1..Len(revs) /\ Len(revs) \in Nat
  OBVIOUS
<1>2. DOMAIN v = DOMAIN revs /\ \A n \in DOMAIN revs : v[n] \in Sessions \X Nat \X Revisions
  BY <1>1
<1>3. v \in Seq(Sessions \X Nat \X Revisions)
  <2>1. v \in [1..Len(revs) -> Sessions \X Nat \X Revisions]
    BY <1>1, <1>2
  <2>2. \E n \in Nat : v \in [1..n -> Sessions \X Nat \X Revisions]
    BY <1>1, <2>1
  <2>3. Seq(Sessions \X Nat \X Revisions)
          = UNION {[1..n -> Sessions \X Nat \X Revisions] : n \in Nat}
    BY SeqDef, Zenon
  <2> QED
    BY <2>2, <2>3, Zenon
<1>4. \A i, j \in DOMAIN v : v[i][1] = v[j][1] /\ v[i][2] = v[j][2] => i = j
  OBVIOUS
<1>5. View(s, revs) = v
  BY DEF View
<1> QED
  BY <1>3, <1>4, <1>5

\* setMessages: what was asked for is shown, and a send is over.
LEMMA MessagesKeep ==
  ASSUME ChatInv, NEW kind \in {"listed", "refreshed"}, TakesMessages(kind)
  PROVE  ChatInv'
<1> DEFINE s == Head(inbox).session
           k == Head(inbox).send
<1>1. /\ inbox # <<>> /\ inbox' = Tail(inbox) /\ Head(inbox).kind = kind
      /\ UNCHANGED <<service, created, acts, alone, into, running, log, selected, fetches>>
      /\ shown' = IF Head(inbox).ok THEN View(s, Head(inbox).revs) ELSE shown
      /\ sending' = IF kind = "refreshed" THEN sending \ {k} ELSE sending
      /\ calm' = (calm /\ Head(inbox).ok)
  BY DEF TakesMessages, Takes, service, Replaced
<1>2. /\ Head(inbox) = inbox[1] /\ 1 \in 1..Len(inbox) /\ Len(inbox) \in Nat
      /\ Len(inbox') = Len(inbox) - 1 /\ s \in Sessions /\ Head(inbox).ok \in BOOLEAN
      /\ Head(inbox).revs \in Seq(Revisions)
      /\ 1 \in Ended <=> kind = "refreshed"
  BY <1>1, TakesOne, EndsTaken, ChatTypes
<1>3. s = inbox[1].session
  BY <1>2
<1> HIDE DEF s
<1>4. Pending' = Pending /\ Refreshing' = Refreshing
  BY <1>1 DEF Pending, Refreshing
<1>5. WebChatTypeOK'
  <2>1. /\ shown' \in Seq(Sessions \X Nat \X Revisions)
        /\ \A i, j \in DOMAIN shown' :
             shown'[i][1] = shown'[j][1] /\ shown'[i][2] = shown'[j][2] => i = j
    <3>1. CASE Head(inbox).ok
      <4>1. shown' = View(s, Head(inbox).revs)
        BY <1>1, <3>1
      <4> QED
        BY <1>2, <4>1, ViewTypes
    <3>2. CASE ~Head(inbox).ok
      BY <1>1, <3>2 DEF ChatInv, WebChatTypeOK
    <3> QED
      BY <3>1, <3>2
  <2>2. /\ calm' \in BOOLEAN /\ sending' \subseteq sending
        /\ \A f \in Fetches : fetches'[f].state \in {"free", "sent", "read"}
    BY <1>1, ChatCounts, ChatTypes
  <2> QED
    BY <1>1, <2>1, <2>2, ClientTypes
<1>6. ChatWireTypes'
  BY <1>1, TakeWire DEF ChatInv, ChatWireTypes
<1>7. OneEnd' /\ NoneBeside'
  <2>1. /\ OneEnd /\ NoneBeside
        /\ kind = "refreshed" => k \notin running /\ \A f \in Refreshing : fetches[f].send # k
    BY <1>2 DEF ChatInv, OneEnd
  <2>2. \A i \in Ended' : /\ inbox'[i].send \in sending \ running
                          /\ inbox'[i].session = into[inbox'[i].send]
                          /\ kind = "refreshed" => inbox'[i].send # k
                          /\ \A f \in Refreshing : inbox'[i].send # fetches[f].send
    BY <1>1, <1>2, TakeWire
  <2>3. \A i, j \in Ended' : inbox'[i].send = inbox'[j].send => i = j
    BY <1>1, TakeWire
  <2> HIDE DEF k
  <2>4. \A i \in Ended' : /\ inbox'[i].send \in sending' \ running'
                          /\ inbox'[i].session = into'[inbox'[i].send]
                          /\ \A f \in Refreshing' : inbox'[i].send # fetches'[f].send
    BY <1>1, <1>4, <2>2
  <2>5. \A f \in Refreshing' : /\ fetches'[f].send \in sending' \ running'
                               /\ fetches'[f].session = into'[fetches'[f].send]
    BY <1>1, <1>4, <2>1 DEF OneEnd
  <2>6. \A f, g \in Refreshing' : fetches'[f].send = fetches'[g].send => f = g
    BY <1>1, <1>4, <2>1 DEF OneEnd
  <2>7. running' \subseteq sending' /\ \A j \in sending' : into'[j] # 0
    BY <1>1, <2>1 DEF OneEnd
  <2>8. OneEnd'
    BY <2>3, <2>4, <2>5, <2>6, <2>7 DEF OneEnd
  <2>9. NoneBeside'
    BY <1>1, <2>1 DEF NoneBeside
  <2> QED
    BY <2>8, <2>9
<1>8. RefreshIsLog'
  BY <1>1, <1>4, TakeWire DEF ChatInv, RefreshIsLog, service, Holds
<1>9. calm' => Quiet'
  <2> SUFFICES ASSUME calm' PROVE Quiet'
    OBVIOUS
  <2>1. ~Quiet /\ ~Fetching
    BY <1>1, <1>2 DEF Quiet, Busy, Fetching
  <2>2. ~UnderWay
    BY <1>1, <1>2 DEF UnderWay, GoesOn
  <2>3. Arrived
    BY <1>1, <2>1, <2>2 DEF ChatInv, Waiting
  <2>4. s = selected /\ Head(inbox).revs = log[selected] /\ Pending = {} /\ Len(inbox) = 1
    BY <1>2, <1>3, <2>3 DEF Arrived
  <2>5. inbox' = <<>>
    BY <1>1, <1>2, <2>4, TakesOne, ChatTypes
  <2>6. sending' = {}
    BY <1>1, <1>2, <2>3, <2>4 DEF Arrived
  <2>7. shown' = View(selected', log'[selected'])
    BY <1>1, <2>4
  <2> QED
    BY <1>4, <2>4, <2>5, <2>6, <2>7 DEF Quiet, Busy, Pending
<1> QED
  BY <1>5, <1>6, <1>7, <1>8, <1>9 DEF ChatInv, Waiting

\* Nothing is on the wire and nothing is shown when the page opens.
LEMMA ChatInvInit == WebChatInit => ChatInv
<1> SUFFICES ASSUME WebChatInit PROVE ChatInv
  OBVIOUS
<1>1. /\ log = [s \in Sessions |-> <<>>] /\ running = {} /\ untold = [k \in Sends |-> 0]
      /\ into = [k \in Sends |-> 0] /\ alone = {}
      /\ fetches = [f \in Fetches |-> Idle] /\ inbox = <<>>
      /\ created = 0 /\ selected = 0 /\ sending = {} /\ shown = <<>> /\ acts = 0 /\ calm = TRUE
  BY DEF WebChatInit
<1>2. {MaxSessions, MaxActs, MaxWire} \subseteq Nat
  BY WebChatAssumption DEF WebChatAssumption
<1>3. <<>> \in Seq(Revisions) /\ Len(<<>>) = 0
  OBVIOUS
<1>4. Idle \in FetchStates /\ Idle.state = "free"
  BY <1>3 DEF Idle, FetchStates
<1> HIDE DEF FetchStates
<1>5. fetches \in [Fetches -> FetchStates] /\ \A f \in Fetches : fetches[f].state = "free"
  BY <1>1, <1>4
<1>6. Pending = {} /\ Refreshing = {} /\ Ended = {}
  BY <1>1, <1>3, <1>5 DEF Pending, Refreshing, Ended
<1>7. WebChatTypeOK
  <2>1. /\ log \in [Sessions -> Seq(Revisions)] /\ untold \in [Sends -> Nat]
        /\ into \in [Sends -> 0..created]
    BY <1>1, <1>2, <1>3
  <2>2. /\ shown \in Seq(Sessions \X Nat \X Revisions) /\ DOMAIN shown = {}
    BY <1>1
  <2>3. created \in 0..MaxSessions /\ selected \in 0..created /\ acts \in 0..MaxActs
    BY <1>1, <1>2
  <2> QED
    BY <1>1, <1>5, <2>1, <2>2, <2>3 DEF WebChatTypeOK
<1>8. ChatWireTypes
  <2>1. inbox \in Seq(Packets)
    BY <1>1
  <2>2. \A k \in Sends : untold[k] = 0
    BY <1>1
  <2> QED
    BY <1>1, <1>3, <1>5, <2>1, <2>2 DEF ChatWireTypes
<1>9. OneEnd /\ NoneBeside
  BY <1>1, <1>6 DEF OneEnd, NoneBeside
<1>10. RefreshIsLog
  BY <1>1, <1>3, <1>6 DEF RefreshIsLog
<1>11. Quiet
  BY <1>1, <1>5 DEF Quiet, Busy
<1> QED
  BY <1>7, <1>8, <1>9, <1>10, <1>11 DEF ChatInv, Waiting

\* Every step of the service, of the user and of the answers keeps ChatInv.
LEMMA ChatInvNext == ChatInv /\ [WebChatNext]_chatVars => ChatInv'
<1> SUFFICES ASSUME ChatInv, [WebChatNext]_chatVars PROVE ChatInv'
  OBVIOUS
<1>1. ASSUME NEW s \in Sessions, Select(s) \/ NewSession(s)
      PROVE  ChatInv'
  BY <1>1, SelectKeeps
<1>2. ASSUME NEW s \in Sessions, Send(s)
      PROVE  ChatInv'
  BY <1>2, SendKeeps
<1>3. ASSUME NEW s \in Sessions, SendNew(s)
      PROVE  ChatInv'
  BY <1>3, SendNewKeeps
<1>4. ASSUME NEW k \in Sends, Broadcasts(k)
      PROVE  ChatInv'
  BY <1>4, BroadcastKeeps
<1>5. ASSUME NEW k \in Sends, Revises(k)
      PROVE  ChatInv'
  BY <1>5, ReviseKeeps
<1>6. ASSUME NEW k \in Sends, NEW rev \in {0, 1}, Saves(k, rev)
      PROVE  ChatInv'
  BY <1>6, SaveKeeps
<1>7. ASSUME NEW k \in Sends, NEW ok \in BOOLEAN, Ends(k, ok)
      PROVE  ChatInv'
  BY <1>7, RunEndKeeps
<1>8. ASSUME NEW f \in Fetches, Reads(f)
      PROVE  ChatInv'
  BY <1>8, FetchReadKeeps
<1>9. ASSUME NEW f \in Fetches, NEW ok \in BOOLEAN, AnswersFetch(f, ok)
      PROVE  ChatInv'
  BY <1>9, FetchAnswerKeeps
<1>10. CASE TakesMessage
  BY <1>10, MessageKeeps
<1>11. CASE TakesRun
  BY <1>11, RunKeeps, FailedRunKeeps
<1>12. CASE TakesMessages("listed")
  BY <1>12, MessagesKeep
<1>13. CASE TakesMessages("refreshed")
  BY <1>13, MessagesKeep
<1>14. CASE UNCHANGED chatVars
  <2>1. /\ UNCHANGED <<log, running, into, untold, fetches, inbox, created, selected, sending>>
        /\ UNCHANGED <<shown, acts, calm, alone>>
    BY <1>14 DEF chatVars, service
  <2>2. Ended' = Ended /\ Pending' = Pending /\ Refreshing' = Refreshing
    BY <2>1 DEF Ended, Pending, Refreshing
  <2>3. WebChatTypeOK' /\ ChatWireTypes'
    BY <2>1 DEF ChatInv, WebChatTypeOK, ChatWireTypes
  <2>4. OneEnd' /\ NoneBeside'
    BY <2>1, <2>2 DEF ChatInv, OneEnd, NoneBeside
  <2>5. RefreshIsLog'
    BY <2>1, <2>2 DEF ChatInv, RefreshIsLog, Holds
  <2>6. (Quiet => Quiet') /\ (Fetching => Fetching')
    BY <2>1, <2>2 DEF Quiet, Busy, Fetching
  <2>7. (Arrived => Arrived') /\ (UnderWay => UnderWay')
    BY <2>1, <2>2 DEF Arrived, UnderWay, GoesOn
  <2> QED
    BY <2>1, <2>3, <2>4, <2>5, <2>6, <2>7 DEF ChatInv, Waiting
<1> QED
  BY <1>1, <1>2, <1>3, <1>4, <1>5, <1>6, <1>7, <1>8, <1>9, <1>10, <1>11, <1>12, <1>13, <1>14
  DEF WebChatNext

\* The invariant holds of every behaviour.
LEMMA ChatInvariant == WebChatSpec => []ChatInv
<1> QED
  BY ChatInvInit, ChatInvNext, PTL DEF WebChatSpec

\* Every variable keeps its type, and no message is shown twice.
THEOREM ShownOnce == WebChatSpec => []WebChatTypeOK
<1>1. ChatInv => WebChatTypeOK
  BY DEF ChatInv
<1> QED
  BY <1>1, ChatInvariant, PTL

\* Whenever nothing is under way, a user who does one thing at a time waits for
\* nothing, and so sees what is stored.
LEMMA QuietIsLog == ChatInv => QuietViewIsLog
<1> SUFFICES ASSUME ChatInv, calm, ~Busy, selected # 0
             PROVE  shown = View(selected, log[selected])
  BY DEF QuietViewIsLog
<1>1. inbox = <<>> /\ sending = {} /\ Pending = {}
  BY NotBusy
<1>2. ~Fetching
  BY <1>1 DEF Fetching
<1>3. ~Arrived
  <2>1. Len(inbox) # 1
    BY <1>1
  <2> QED
    BY <2>1 DEF Arrived
<1>4. ~UnderWay
  BY <1>1 DEF UnderWay, GoesOn
<1>5. Quiet
  BY <1>2, <1>3, <1>4 DEF ChatInv, Waiting
<1> QED
  BY <1>5 DEF Quiet

\* A step that takes the messages fetched at the end of a send shows them: all
\* that the run of the send stored, and the whole log if no other send was
\* beside it in its session.
LEMMA RefreshIsShown ==
  ASSUME ChatInv, [WebChatNext]_chatVars,
         inbox # <<>>, Head(inbox).kind = "refreshed", Head(inbox).ok, inbox' = Tail(inbox),
         NEW s, s = Head(inbox).session, NEW k, k = Head(inbox).send
  PROVE  /\ \A n \in DOMAIN log[s] :
              log[s][n][1] = k => n \in DOMAIN shown' /\ shown'[n] = <<s, n, log[s][n]>>
         /\ k \in alone => shown' = View(s, log[s])
<1>1. Head(inbox) = inbox[1] /\ 1 \in 1..Len(inbox) /\ Len(inbox) \in Nat
      /\ Len(inbox') = Len(inbox) - 1
  BY TakesOne, ChatTypes
<1>2. Holds(k, s, Head(inbox).revs)
  BY <1>1 DEF ChatInv, RefreshIsLog
<1>3. inbox' # inbox /\ \A frame : inbox' # Append(inbox, frame)
  <2>1. Len(inbox') # Len(inbox) /\ Len(inbox') # Len(inbox) + 1
    <3>1. \A n \in Nat : n - 1 # n /\ n - 1 # n + 1
      OBVIOUS
    <3> QED
      BY <1>1, <3>1, Zenon
  <2>2. ASSUME NEW frame, inbox' = Append(inbox, frame)
        PROVE  FALSE
    <3>1. inbox \in Seq(Packets)
      BY ChatTypes
    <3> HIDE DEF Packets
    <3>2. Len(Append(inbox, frame)) = Len(inbox) + 1
      BY <3>1
    <3> QED
      BY <2>1, <2>2, <3>2, Zenon
  <2> QED
    BY <2>1, <2>2, Zenon
<1>4. ~TakesMessage /\ ~TakesRun /\ ~TakesMessages("listed")
  BY DEF TakesMessage, TakesRun, TakesMessages, Takes
<1>5. \A t \in Sessions : ~Select(t) /\ ~NewSession(t) /\ ~Send(t) /\ ~SendNew(t)
  BY <1>3 DEF Select, NewSession, Send, SendNew, Starts
<1>6. \A j \in Sends : ~Broadcasts(j) /\ ~Revises(j) /\ \A rev \in {0, 1} : ~Saves(j, rev)
  BY <1>3 DEF Broadcasts, Revises, Saves, Pushes
<1>7. \A j \in Sends, ok \in BOOLEAN : ~Ends(j, ok)
  BY <1>3 DEF Ends, Pushes
<1>8. \A f \in Fetches : ~Reads(f) /\ \A ok \in BOOLEAN : ~AnswersFetch(f, ok)
  BY <1>3 DEF Reads, AnswersFetch, Pushes
<1>9. ~UNCHANGED chatVars
  BY <1>3 DEF chatVars
<1>10. TakesMessages("refreshed")
  BY <1>4, <1>5, <1>6, <1>7, <1>8, <1>9 DEF WebChatNext
<1>11. shown' = View(s, Head(inbox).revs)
  BY <1>10 DEF TakesMessages, Replaced
<1>12. \A n \in DOMAIN Head(inbox).revs :
         n \in DOMAIN shown' /\ shown'[n] = <<s, n, Head(inbox).revs[n]>>
  BY <1>11 DEF View
<1> QED
  BY <1>2, <1>11, <1>12 DEF Holds

\* A user who does one thing at a time is shown, whenever nothing is under way,
\* the stored log of the selected session; and whatever a user does, the fetch at
\* the end of a send shows all that its run stored, and the whole log of its
\* session if no other send went on beside it there.
THEOREM ViewIsTheLog == WebChatSpec => ViewFollowsLog
<1>1. ChatInv /\ [WebChatNext]_chatVars
      => [inbox # <<>> /\ Head(inbox).kind = "refreshed" /\ Head(inbox).ok /\ inbox' = Tail(inbox) =>
            LET s == Head(inbox).session
                k == Head(inbox).send
            IN /\ \A n \in DOMAIN log[s] :
                    log[s][n][1] = k => n \in DOMAIN shown' /\ shown'[n] = <<s, n, log[s][n]>>
               /\ k \in alone => shown' = View(s, log[s])]_chatVars
  BY RefreshIsShown
<1>2. WebChatSpec => []QuietViewIsLog
  BY QuietIsLog, ChatInvariant, PTL
<1>3. WebChatSpec => RefreshShowsRun
  BY <1>1, ChatInvariant, PTL DEF WebChatSpec, RefreshShowsRun
<1> QED
  BY <1>2, <1>3 DEF ViewFollowsLog

-----------------------------------------------------------------------------
(* The status of the service, and the event socket *)

LoopStates == [does : {"nothing", "asking", "loading"}, try : 0..Tries,
               saw : {"down", "bare", "degraded", "healthy"}]

\* LiveSocketIsCurrent is not inductive: the effect closes the socket it owns,
\* so the live one must be that too.
StatusInv ==
  /\ StatusTypeOK /\ loops \in [Loops -> LoopStates]
  /\ backend \in {"down", "bare", "degraded", "healthy"}
  /\ \A k \in Sockets : sockets[k] = "live" => k = current /\ k = owned

\* The effect closes the socket it owns before it opens another.
LEMMA BecomesKeeps ==
  ASSUME StatusInv, NEW b \in {"loading", "healthy", "degraded", "offline"},
         NEW a \in {"unknown", "ready", "invalid"}, Becomes(b, a)
  PROVE  /\ boot' = b /\ auth' = a
         /\ sockets' \in [Sockets -> {"none", "live", "lost", "closing"}]
         /\ {current', owned'} \subseteq Sockets \cup {NoSocket}
         /\ \A k \in Sockets : sockets'[k] = "live" => k = current' /\ k = owned'
<1> DEFINE States == {"none", "live", "lost", "closing"}
<1>1. /\ sockets \in [Sockets -> States] /\ {current, owned} \subseteq Sockets \cup {NoSocket}
      /\ \A k \in Sockets : sockets[k] = "live" => k = current /\ k = owned
  BY DEF StatusInv, StatusTypeOK
<1>2. boot' = b /\ auth' = a
  BY DEF Becomes
<1>3. /\ Cleaned(sockets) \in [Sockets -> States]
      /\ \A k \in Sockets : Cleaned(sockets)[k] # "live"
  BY <1>1 DEF Cleaned
<1>4. CASE UNCHANGED <<sockets, current, owned>>
  BY <1>1, <1>2, <1>4
<1>5. ASSUME NEW k \in Sockets, NEW how \in {"live", "lost"},
             sockets' = [Cleaned(sockets) EXCEPT ![k] = how], current' = k, owned' = k
      PROVE  /\ sockets' \in [Sockets -> States] /\ {current', owned'} \subseteq Sockets
             /\ \A j \in Sockets : sockets'[j] = "live" => j = current' /\ j = owned'
  BY <1>3, <1>5
<1>6. CASE sockets' = Cleaned(sockets) /\ current' = NoSocket /\ owned' = NoSocket
  BY <1>2, <1>3, <1>6
<1>7. \/ UNCHANGED <<sockets, current, owned>>
      \/ \E k \in Sockets, how \in {"live", "lost"} :
           sockets' = [Cleaned(sockets) EXCEPT ![k] = how] /\ current' = k /\ owned' = k
      \/ sockets' = Cleaned(sockets) /\ current' = NoSocket /\ owned' = NoSocket
  BY DEF Becomes
<1> QED
  BY <1>2, <1>4, <1>5, <1>6, <1>7

\* The page opens without a socket.
LEMMA StatusInvInit == StatusInit => StatusInv
<1> SUFFICES ASSUME StatusInit PROVE StatusInv
  OBVIOUS
<1>1. Tries \in Nat \ {0} /\ MaxFlips \in Nat /\ NoSocket \notin Sockets
  BY WebStatusAssumption DEF WebStatusAssumption
<1>2. NewLoop \in LoopStates /\ NoLoop \in LoopStates
  BY <1>1 DEF NewLoop, NoLoop, LoopStates
<1>3. loops \in [Loops -> LoopStates]
  BY <1>2 DEF StatusInit
<1>4. \A l \in Loops : loops[l].try \in 0..Tries
  BY <1>3 DEF LoopStates
<1>5. /\ sockets = [k \in Sockets |-> "none"] /\ current = NoSocket /\ owned = NoSocket
      /\ flips = 0 /\ cutOff = FALSE /\ token \in BOOLEAN /\ auth = "unknown"
      /\ boot \in {"loading", "degraded", "healthy"}
      /\ backend \in {"down", "bare", "degraded", "healthy"}
  BY DEF StatusInit
<1>6. {token, cutOff} \subseteq BOOLEAN /\ flips \in 0..MaxFlips
  <2>1. token \in BOOLEAN /\ cutOff \in BOOLEAN
    BY <1>5, Zenon
  <2>2. {token, cutOff} \subseteq BOOLEAN
    BY <2>1, Zenon
  <2>3. flips \in 0..MaxFlips
    BY <1>1, <1>5
  <2> QED
    BY <2>2, <2>3
<1>7. {current, owned} \subseteq Sockets \cup {NoSocket}
  BY <1>5
<1>8. sockets \in [Sockets -> {"none", "live", "lost", "closing"}]
  BY <1>5
<1>9. StatusTypeOK
  BY <1>4, <1>5, <1>6, <1>7, <1>8 DEF StatusTypeOK
<1> QED
  BY <1>3, <1>5, <1>9 DEF StatusInv

\* What a step leaves, if it was a change of the effect and of the loops.
LEMMA LoopsKeep ==
  ASSUME StatusInv, loops' \in [Loops -> LoopStates], flips' \in 0..MaxFlips,
         UNCHANGED <<backend, token, cutOff>>,
         NEW b \in {"loading", "healthy", "degraded", "offline"},
         NEW a \in {"unknown", "ready", "invalid"}, Becomes(b, a)
  PROVE  StatusInv'
<1>1. /\ boot' = b /\ auth' = a
      /\ sockets' \in [Sockets -> {"none", "live", "lost", "closing"}]
      /\ {current', owned'} \subseteq Sockets \cup {NoSocket}
      /\ \A k \in Sockets : sockets'[k] = "live" => k = current' /\ k = owned'
  BY BecomesKeeps
<1>2. \A l \in Loops : loops'[l].try \in 0..Tries
  BY DEF LoopStates
<1>3. StatusTypeOK'
  BY <1>1, <1>2 DEF StatusInv, StatusTypeOK
<1> QED
  BY <1>1, <1>3 DEF StatusInv

\* The loops there can be.
LEMMA LoopTypes ==
  ASSUME StatusInv
  PROVE  /\ NewLoop \in LoopStates /\ NoLoop \in LoopStates
         /\ loops \in [Loops -> LoopStates] /\ flips \in 0..MaxFlips /\ MaxFlips \in Nat
         /\ \A l \in Loops : loops[l].try \in 0..Tries
         /\ boot \in {"loading", "healthy", "degraded", "offline"}
         /\ Loading \in {"loading", "healthy", "degraded", "offline"}
         /\ auth \in {"unknown", "ready", "invalid"} /\ Tries \in Nat
<1>1. Tries \in Nat \ {0} /\ MaxFlips \in Nat
  BY WebStatusAssumption DEF WebStatusAssumption
<1>2. NewLoop \in LoopStates /\ NoLoop \in LoopStates
  BY <1>1 DEF NewLoop, NoLoop, LoopStates
<1> QED
  BY <1>1, <1>2 DEF StatusInv, StatusTypeOK, Loading

\* Every poll, effect and late close keeps StatusInv.
LEMMA StatusInvNext == StatusInv /\ [StatusNext]_statusVars => StatusInv'
<1> SUFFICES ASSUME StatusInv, [StatusNext]_statusVars PROVE StatusInv'
  OBVIOUS
<1>1. CASE Polls
  <2>1. PICK l \in Loops : loops' = [loops EXCEPT ![l] = NewLoop]
    BY <1>1 DEF Polls
  <2>2. loops' \in [Loops -> LoopStates]
    BY <2>1, LoopTypes
  <2>3. flips' \in 0..MaxFlips /\ UNCHANGED <<backend, token, cutOff>> /\ Becomes(Loading, auth)
    BY <1>1, LoopTypes DEF Polls
  <2> QED
    BY <2>2, <2>3, LoopTypes, LoopsKeep
<1>2. CASE PicksRepo
  <2>1. PICK l \in Loops : loops' = [k \in Loops |-> IF k = l THEN NewLoop ELSE NoLoop]
    BY <1>2 DEF PicksRepo
  <2>2. loops' \in [Loops -> LoopStates]
    BY <2>1, LoopTypes
  <2>3. flips < MaxFlips /\ flips' = flips + 1
        /\ UNCHANGED <<backend, token, cutOff>> /\ Becomes(Loading, auth)
    BY <1>2 DEF PicksRepo
  <2>4. flips' \in 0..MaxFlips
    BY <2>3, LoopTypes
  <2> QED
    BY <2>2, <2>3, <2>4, LoopTypes, LoopsKeep
<1>3. CASE Flips
  <2>1. /\ flips < MaxFlips /\ flips' = flips + 1
        /\ backend' \in {"down", "bare", "degraded", "healthy"}
        /\ cutOff' = (boot = "offline")
        /\ sockets' = [k \in Sockets |-> IF backend' = "down" /\ sockets[k] = "live"
                                         THEN "lost" ELSE sockets[k]]
        /\ UNCHANGED <<token, loops, boot, auth, current, owned>>
    BY <1>3 DEF Flips
  <2>2. flips' \in 0..MaxFlips /\ cutOff' \in BOOLEAN
    BY <2>1, LoopTypes
  <2>3. /\ sockets' \in [Sockets -> {"none", "live", "lost", "closing"}]
        /\ \A k \in Sockets : sockets'[k] = "live" => k = current' /\ k = owned'
    BY <2>1 DEF StatusInv, StatusTypeOK
  <2>4. StatusTypeOK'
    BY <2>1, <2>2, <2>3 DEF StatusInv, StatusTypeOK
  <2> QED
    BY <2>1, <2>3, <2>4 DEF StatusInv
<1>4. ASSUME NEW l \in Loops, StatusOK(l)
      PROVE  StatusInv'
  <2>1. /\ loops' = [loops EXCEPT ![l] = [does |-> "loading", try |-> loops[l].try, saw |-> backend]]
        /\ UNCHANGED <<backend, token, flips, cutOff>>
        /\ Becomes(IF backend = "healthy" THEN "healthy" ELSE "degraded", auth)
    BY <1>4 DEF StatusOK, Loop
  <2>2. [does |-> "loading", try |-> loops[l].try, saw |-> backend] \in LoopStates
    BY LoopTypes DEF StatusInv, LoopStates
  <2>3. loops' \in [Loops -> LoopStates] /\ flips' \in 0..MaxFlips
    BY <2>1, <2>2, LoopTypes
  <2> QED
    BY <2>1, <2>3, LoopTypes, LoopsKeep
<1>5. ASSUME NEW l \in Loops, StatusFails(l)
      PROVE  StatusInv'
  <2>1. UNCHANGED <<backend, token, flips, cutOff>>
    BY <1>5 DEF StatusFails
  <2>2. CASE loops[l].try < Tries
    <3>1. /\ loops' = [loops EXCEPT ![l] = [does |-> "asking", try |-> loops[l].try + 1, saw |-> "down"]]
          /\ Becomes(boot, auth)
      BY <1>5, <2>2 DEF StatusFails, Loop
    <3>2. loops[l].try + 1 \in 0..Tries
      BY <2>2, LoopTypes
    <3>3. [does |-> "asking", try |-> loops[l].try + 1, saw |-> "down"] \in LoopStates
      BY <3>2 DEF LoopStates
    <3>4. loops' \in [Loops -> LoopStates] /\ flips' \in 0..MaxFlips
      BY <2>1, <3>1, <3>3, LoopTypes
    <3> QED
      BY <2>1, <3>1, <3>4, LoopTypes, LoopsKeep
  <2>3. CASE ~(loops[l].try < Tries)
    <3>1. loops' = [loops EXCEPT ![l] = NoLoop] /\ Becomes("offline", auth)
      BY <1>5, <2>3 DEF StatusFails
    <3>2. loops' \in [Loops -> LoopStates] /\ flips' \in 0..MaxFlips
      BY <2>1, <3>1, LoopTypes
    <3> QED
      BY <2>1, <3>1, <3>2, LoopTypes, LoopsKeep
  <2> QED
    BY <2>2, <2>3
<1>6. ASSUME NEW l \in Loops, Loaded(l)
      PROVE  StatusInv'
  <2> DEFINE a == IF token THEN "ready" ELSE "invalid"
             b == IF a = auth THEN boot ELSE Loading
  <2>1. /\ loops' = IF a = auth THEN [loops EXCEPT ![l] = NoLoop]
                    ELSE [k \in Loops |-> IF k = l THEN NewLoop ELSE NoLoop]
        /\ Becomes(b, a) /\ UNCHANGED <<backend, token, flips, cutOff>>
    BY <1>6 DEF Loaded
  <2>2. /\ a \in {"unknown", "ready", "invalid"}
        /\ b \in {"loading", "healthy", "degraded", "offline"}
    BY LoopTypes
  <2> HIDE DEF a, b
  <2>3. loops' \in [Loops -> LoopStates] /\ flips' \in 0..MaxFlips
    BY <2>1, LoopTypes
  <2> QED
    BY <2>1, <2>2, <2>3, LoopsKeep
<1>7. ASSUME NEW l \in Loops, NotLoaded(l)
      PROVE  StatusInv'
  <2>1. /\ loops' = [loops EXCEPT ![l] = NoLoop]
        /\ UNCHANGED <<backend, token, flips, cutOff, boot, auth, sockets, current, owned>>
    BY <1>7 DEF NotLoaded
  <2>2. loops' \in [Loops -> LoopStates]
    BY <2>1, LoopTypes
  <2>3. \A k \in Loops : loops'[k].try \in 0..Tries
    BY <2>2 DEF LoopStates
  <2> QED
    BY <2>1, <2>2, <2>3 DEF StatusInv, StatusTypeOK
<1>8. ASSUME NEW k \in Sockets, Closed(k)
      PROVE  StatusInv'
  <2>1. /\ sockets[k] \in {"lost", "closing"} /\ sockets' = [sockets EXCEPT ![k] = "none"]
        /\ current' = IF current = k THEN NoSocket ELSE current
        /\ owned' = IF owned = k THEN NoSocket ELSE owned
        /\ UNCHANGED <<backend, token, flips, cutOff, loops, boot, auth>>
    BY <1>8 DEF Closed
  <2>2. /\ sockets' \in [Sockets -> {"none", "live", "lost", "closing"}]
        /\ \A j \in Sockets : sockets'[j] = "live" => j = current' /\ j = owned'
    BY <2>1 DEF StatusInv, StatusTypeOK
  <2>3. StatusTypeOK'
    BY <2>1, <2>2 DEF StatusInv, StatusTypeOK
  <2> QED
    BY <2>1, <2>2, <2>3 DEF StatusInv
<1>9. CASE UNCHANGED statusVars
  BY <1>9 DEF statusVars, StatusInv, StatusTypeOK
<1> QED
  BY <1>1, <1>2, <1>3, <1>4, <1>5, <1>6, <1>7, <1>8, <1>9 DEF StatusNext, LoopSteps

\* The invariant holds of every behaviour.
LEMMA StatusInvariant == StatusSpec => []StatusInv
  BY StatusInvInit, StatusInvNext, PTL DEF StatusSpec

\* Every variable keeps its type, and no loop asks more than Tries times.
THEOREM StatusTypesKept == StatusSpec => []StatusTypeOK
<1>1. StatusInv => StatusTypeOK
  BY DEF StatusInv
<1> QED
  BY <1>1, StatusInvariant, PTL

\* Only the current socket delivers events, however the changes of the service,
\* the polls and the late closes of old sockets come about.
THEOREM OneLiveSocket == StatusSpec => []LiveSocketIsCurrent
<1>1. StatusInv => LiveSocketIsCurrent
  BY DEF StatusInv, LiveSocketIsCurrent
<1> QED
  BY <1>1, StatusInvariant, PTL

-----------------------------------------------------------------------------
(* The desktop shell *)

Early == {"probing", "waiting", "pausing"}

\* ShownAsItIs is not inductive: while nothing has changed, the answer under way
\* is that of what serves, and a helper is started for want of a service only.
DeskInv ==
  /\ DesktopTypeOK /\ turns \in Nat /\ since \in {"probing", "waiting", "pausing", "asking",
                                                   "opening", "open", "quit"}
  /\ managed \in BOOLEAN /\ serves \in Answering \cup {"nothing", "silence"}
  /\ request \in Answering \cup {"broken"} => desk \in {"asking"}
  /\ desk = "asking" /\ since \in Early => request \in {"sent", serves}
  /\ turns = 0 /\ serves \in Modes => helper = "none"
  /\ desk = "probing" => helper = "none"
  /\ helper = "up" => serviceProcess /\ desk # "quit"
  /\ ShownAsItIs

\* The shell begins with a probe and no helper.
LEMMA DeskInvInit == DesktopInit => DeskInv
<1>1. 0 \in 0..Attempts /\ 0 \in Nat
  BY DesktopAssumption DEF DesktopAssumption
<1> QED
  BY <1>1 DEF DesktopInit, DeskInv, DesktopTypeOK, ShownAsItIs, Answering, Modes, Early

\* Every callback of the shell and every change of the service keeps DeskInv.
LEMMA DeskInvNext == DeskInv /\ [DesktopNext]_deskVars => DeskInv'
<1> SUFFICES ASSUME DeskInv, [DesktopNext]_deskVars PROVE DeskInv'
  OBVIOUS
<1>1. attempts \in 0..Attempts /\ Attempts \in Nat \ {0} /\ 1 \in 0..Attempts
  BY DesktopAssumption DEF DesktopAssumption, DeskInv, DesktopTypeOK
<1> USE DEF DeskInv, DesktopTypeOK, ShownAsItIs, Answering, Modes, Early
<1>2. CASE FirstProbe
  BY <1>1, <1>2 DEF FirstProbe, Probed, StartService
<1>3. CASE Reached
  BY <1>3 DEF Reached, Probed
<1>4. CASE Refused
  BY <1>4 DEF Refused, Probed
<1>5. CASE Paused
  BY <1>1, <1>5 DEF Paused
<1>6. CASE StatusBegins
  BY <1>6 DEF StatusBegins
<1>7. CASE StatusUnknown
  BY <1>7 DEF StatusUnknown, Told
<1>8. CASE StatusEnds
  BY <1>8 DEF StatusEnds, Told
<1>9. CASE Opens
  BY <1>9 DEF Opens
<1>10. CASE HelperEnds
  <2>1. /\ helper = "up" /\ helper' = "ended" /\ serviceProcess' \in BOOLEAN
        /\ UNCHANGED <<managed, desk, request, attempts, serves, turns, since, bootStatus>>
    BY <1>10 DEF HelperEnds
  <2> QED
    BY <2>1
<1>11. CASE Quits
  <2>1. /\ desk' = "quit" /\ request' = "none" /\ serviceProcess' \in BOOLEAN
        /\ helper' \in {helper, "killed"} /\ UNCHANGED <<managed, attempts, serves, turns, since, bootStatus>>
    BY <1>11 DEF Quits
  <2>2. helper' # "up"
    BY <1>11 DEF Quits
  <2>3. helper' = "none" <=> helper = "none"
    BY <1>11 DEF Quits
  <2> QED
    BY <2>1, <2>2, <2>3
<1>12. CASE Turns
  BY <1>12 DEF Turns
<1>13. CASE UNCHANGED deskVars
  BY <1>13 DEF deskVars
<1> QED
  BY <1>2, <1>3, <1>4, <1>5, <1>6, <1>7, <1>8, <1>9, <1>10, <1>11, <1>12, <1>13
  DEF DesktopNext, DesktopSteps

\* The invariant holds of every behaviour.
LEMMA DeskInvariant == DesktopSpec => []DeskInv
  BY DeskInvInit, DeskInvNext, PTL DEF DesktopSpec

\* Every variable keeps its type, and no more attempts are made than Attempts.
THEOREM DesktopTypesKept == DesktopSpec => []DesktopTypeOK
<1>1. DeskInv => DesktopTypeOK
  BY DEF DeskInv
<1> QED
  BY <1>1, DeskInvariant, PTL

\* The window shows the service as it is, if it has come while the shell looked
\* for it, and no helper is started beside it; and the helper does not outlive
\* the shell.
THEOREM ShellShowsService == DesktopSpec => []ShownAsItIs /\ []NoneLeft
<1>1. DeskInv => ShownAsItIs /\ NoneLeft
  BY DEF DeskInv, NoneLeft
<1> QED
  BY <1>1, DeskInvariant, PTL
=============================================================================
