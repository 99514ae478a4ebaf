------------------------------ MODULE LspClient ------------------------------
(***************************************************************************)
(* One call of the language server client, service/internal/lsp/client.go: *)
(* Diagnostics, or one of the requests (DocumentSymbols, Definition,       *)
(* References).                                                            *)
(*                                                                         *)
(* startSession starts the server, greets it and opens the file.  A        *)
(* request then reads messages until one has its id.  Diagnostics has no   *)
(* request: a goroutine reads until the server publishes something, while  *)
(* the caller waits for it, for an error, for two seconds or for the end   *)
(* of its context.  Both hand over through channels of one place.          *)
(*                                                                         *)
(* External: the server, which answers in order, publishes diagnostics for *)
(* any file once one is open, talks of other things, falls silent and      *)
(* exits.  Its stderr is drained by a goroutine and left out.              *)
(***************************************************************************)
EXTENDS Naturals, Sequences

CONSTANTS
  Files,       \* files of the workspace
  Asked,       \* the one the call is about
  StdinCap,    \* what the pipe to the server holds before a write blocks
  MaxSpoken    \* bound on what the server says that is not an answer

ASSUME LspAssumption ==
  Asked \in Files /\ StdinCap \in Nat \ {0} /\ MaxSpoken \in Nat

VARIABLES
  op,          \* "diagnostics" or "request"
  context,     \* of the caller: "live" or "done"
  lsp,         \* where the caller is
  reader,      \* the goroutine: "none", "reading", "ended"
  diagnosticsCh, errCh,   \* the channels, as the messages they hold
  stdin, stdout,          \* the pipes
  process,     \* the server: "down", "up", "silent" or "gone"
  opened,      \* history: the server has heard didOpen
  spoken,      \* history: how often the server spoke of its own accord
  published,   \* history: the files it published diagnostics for
  got,         \* the message the call returns
  result       \* "open", "items", "empty" or "error"

channels == <<diagnosticsCh, errCh>>
pipes == <<stdin, stdout>>
serverVars == <<process, opened, spoken, published>>
lspVars == <<op, context, lsp, reader, channels, pipes, serverVars, got, result>>

LspPcs == {"start", "initialize", "initializing", "initialized", "open",
           "ready", "requested", "waiting", "closing", "done"}

Frame(what, n, f) == [says |-> what, id |-> n, file |-> f]
NoFrame == Frame("nothing", 0, Asked)
Spoken == {Frame("diagnostics", 0, f) : f \in Files}
            \cup {Frame("nothing", n, Asked) : n \in 0..2} \cup {Frame("broken", 0, Asked)}
Frames == Spoken \cup {Frame(what, n, Asked) : what \in {"initialize", "request", "error"}, n \in {1, 2}}
Heard == {"initialize", "initialized", "didOpen", "request"}

LspInit ==
  /\ op \in {"diagnostics", "request"}
  /\ context = "live"
  /\ lsp = "start"
  /\ reader = "none"
  /\ diagnosticsCh = <<>> /\ errCh = <<>>
  /\ stdin = <<>> /\ stdout = <<>>
  /\ process = "down"
  /\ opened = FALSE /\ spoken = 0 /\ published = {}
  /\ got = NoFrame
  /\ result = "open"

-----------------------------------------------------------------------------
(* The end of a call: session.close says goodbye, kills and waits.  The     *)
(* goodbye (taken as one message) is a write like any other: when the pipe  *)
(* is full it waits for a server that may never read again.                 *)

HasRoom == Len(stdin) < StdinCap

Close(r, m) ==
  /\ lsp' = "closing"
  /\ result' = r /\ got' = m
  /\ UNCHANGED <<op, context, stdin, serverVars>>

Goodbye ==
  /\ lsp = "closing"
  /\ HasRoom \/ process = "gone"
  /\ lsp' = "done"
  /\ process' = "gone"
  /\ UNCHANGED <<op, context, reader, channels, pipes, opened, spoken, published, got, result>>

\* Mutated form of CloseAfterError: the error path of startSession forgets
\* the process.
ErrorWithoutClose ==
  /\ lsp' = "done"
  /\ result' = "error"
  /\ UNCHANGED <<op, context, stdin, serverVars, got>>

CloseAfterError == Close("error", NoFrame)

-----------------------------------------------------------------------------
(* startSession *)

StartProcess ==
  /\ lsp = "start" /\ context = "live"
  /\ lsp' = "initialize"
  /\ process' = "up"
  /\ UNCHANGED <<op, context, reader, channels, pipes, opened, spoken, published, got, result>>

\* No mapping, no command, no such file, or the process does not start.
NoSession ==
  /\ lsp = "start"
  /\ lsp' = "done" /\ result' = "error"
  /\ UNCHANGED <<op, context, reader, channels, pipes, serverVars, got>>

\* What is written next, and where the caller is then.
Message == [initialize |-> "initialize", initialized |-> "initialized",
            open |-> "didOpen", ready |-> "request"]

Then == [initialize |-> "initializing", initialized |-> "open",
         open |-> "ready", ready |-> "requested"]

Writing == lsp \in DOMAIN Message /\ (lsp = "ready" => op = "request")

WriteToServer ==
  /\ Writing /\ process # "gone" /\ HasRoom
  /\ stdin' = Append(stdin, Message[lsp])
  /\ lsp' = Then[lsp]
  /\ UNCHANGED <<op, context, reader, channels, stdout, serverVars, got, result>>

WriteToServerFails ==
  /\ Writing /\ process = "gone"
  /\ CloseAfterError
  /\ UNCHANGED <<reader, channels, stdout>>

\* The end of the stream.  readMessage takes a header without a length for one,
\* too: a broken frame is that, or one with bad JSON.
AtEnd == stdout = <<>> /\ process = "gone"

\* Mutated form of ReadGreeting: didOpen is given an answer to wait for, too.
ReadsTwice ==
  /\ lsp \in {"initializing", "ready"} /\ stdout # <<>>
  /\ stdout' = Tail(stdout)
  /\ lsp' = IF lsp = "initializing" THEN "initialized" ELSE "ready"
  /\ UNCHANGED <<op, context, reader, channels, stdin, serverVars, got, result>>

\* The first message passes for the answer to "initialize"; its content is
\* not even decoded.
ReadGreeting ==
  /\ lsp = "initializing" /\ stdout # <<>>
  /\ stdout' = Tail(stdout)
  /\ lsp' = "initialized"
  /\ UNCHANGED <<op, context, reader, channels, stdin, serverVars, got, result>>

ReadGreetingFails ==
  /\ lsp = "initializing"
  /\ AtEnd \/ (stdout # <<>> /\ Head(stdout).says = "broken")
  /\ CloseAfterError
  /\ UNCHANGED <<reader, channels, stdout>>

-----------------------------------------------------------------------------
(* session.request *)

\* Mutated form of IsAnswer: ids are not compared.
IsAnyAnswer(m) == m.says # "broken"

IsAnswer(m) == m.says # "broken" /\ m.id = 2

\* The context is looked at between two reads only.
ReadAnswer ==
  /\ lsp = "requested" /\ stdout # <<>>
  /\ stdout' = Tail(stdout)
  /\ UNCHANGED <<reader, channels>>
  /\ LET m == Head(stdout)
     IN \/ /\ context = "done" \/ m.says = "broken"
           /\ CloseAfterError
        \/ /\ IsAnswer(m) /\ m.says = "error"
           /\ CloseAfterError
        \/ /\ IsAnswer(m) /\ m.says # "error"
           /\ Close(IF m.says = "nothing" THEN "error" ELSE "items", m)
        \/ /\ m.says # "broken" /\ ~IsAnswer(m)
           /\ UNCHANGED <<op, context, lsp, stdin, serverVars, got, result>>

ReadAnswerFails ==
  /\ lsp = "requested" /\ AtEnd
  /\ CloseAfterError
  /\ UNCHANGED <<reader, channels, stdout>>

-----------------------------------------------------------------------------
(* Diagnostics *)

SpawnReader ==
  /\ lsp = "ready" /\ op = "diagnostics"
  /\ lsp' = "waiting"
  /\ reader' = "reading"
  /\ UNCHANGED <<op, context, channels, pipes, serverVars, got, result>>

\* Mutated form of HandOver: the channel has no place of its own.
HandOverUnbuffered(m) ==
  /\ lsp = "waiting"
  /\ diagnosticsCh' = Append(diagnosticsCh, m)

\* The reader hands m over: the channel has a place for it.
HandOver(m) == diagnosticsCh' = Append(diagnosticsCh, m)

\* Mutated form of ReaderReads: it goes on after the first publication.
ReaderReadsOn ==
  /\ reader = "reading" /\ stdout # <<>>
  /\ stdout' = Tail(stdout)
  /\ diagnosticsCh' = IF Head(stdout).says = "diagnostics"
                      THEN Append(diagnosticsCh, Head(stdout)) ELSE diagnosticsCh
  /\ UNCHANGED <<op, context, lsp, reader, errCh, stdin, serverVars, got, result>>

ReaderReads ==
  /\ reader = "reading" /\ stdout # <<>>
  /\ stdout' = Tail(stdout)
  /\ LET m == Head(stdout)
     IN \/ /\ m.says = "diagnostics"
           /\ HandOver(m)
           /\ reader' = "ended"
           /\ UNCHANGED errCh
        \/ /\ m.says = "broken"
           /\ errCh' = Append(errCh, m)
           /\ reader' = "ended"
           /\ UNCHANGED diagnosticsCh
        \/ /\ m.says \notin {"diagnostics", "broken"}
           /\ UNCHANGED <<reader, channels>>
  /\ UNCHANGED <<op, context, lsp, stdin, serverVars, got, result>>

\* The end of the stream, and a frame without a length, end the reader
\* without a word; a pipe that close has closed is an error.
ReaderEnds ==
  /\ reader = "reading"
  /\ AtEnd \/ (stdout # <<>> /\ Head(stdout).says = "broken")
  /\ reader' = "ended"
  /\ \/ UNCHANGED errCh
     \/ lsp = "done" /\ errCh' = Append(errCh, NoFrame)
  /\ UNCHANGED <<op, context, lsp, diagnosticsCh, pipes, serverVars, got, result>>

TakeDiagnostics ==
  /\ lsp = "waiting" /\ diagnosticsCh # <<>>
  /\ diagnosticsCh' = Tail(diagnosticsCh)
  /\ Close("items", Head(diagnosticsCh))
  /\ UNCHANGED <<reader, errCh, stdout>>

TakeError ==
  /\ lsp = "waiting" /\ errCh # <<>>
  /\ errCh' = Tail(errCh)
  /\ CloseAfterError
  /\ UNCHANGED <<reader, diagnosticsCh, stdout>>

\* Mutated form of TwoSeconds: the wait has no timer.
WithoutTimer == FALSE /\ UNCHANGED lspVars

TwoSeconds ==
  /\ lsp = "waiting"
  /\ Close("empty", NoFrame)
  /\ UNCHANGED <<reader, channels, stdout>>

WaitCancelled ==
  /\ lsp = "waiting" /\ context = "done"
  /\ CloseAfterError
  /\ UNCHANGED <<reader, channels, stdout>>

-----------------------------------------------------------------------------
(* The caller's context and the server *)

\* exec.CommandContext kills the process.
CallerGoes ==
  /\ context = "live" /\ lsp # "done"
  /\ context' = "done"
  /\ process' = IF lsp = "start" THEN process ELSE "gone"
  /\ UNCHANGED <<op, lsp, reader, channels, pipes, opened, spoken, published, got, result>>

ServerHears ==
  /\ process = "up" /\ stdin # <<>>
  /\ stdin' = Tail(stdin)
  /\ opened' = (opened \/ Head(stdin) = "didOpen")
  /\ IF Head(stdin) \in {"initialize", "request"}
     THEN \E what \in {Head(stdin), "error"} :
            stdout' = Append(stdout, Frame(what, IF Head(stdin) = "initialize" THEN 1 ELSE 2, Asked))
     ELSE UNCHANGED stdout
  /\ UNCHANGED <<op, context, lsp, reader, channels, process, spoken, published, got, result>>

ServerSpeaks ==
  /\ process = "up" /\ spoken < MaxSpoken
  /\ spoken' = spoken + 1
  /\ \E m \in Spoken :
       /\ m.says = "diagnostics" => opened
       /\ stdout' = Append(stdout, m)
       /\ published' = IF m.says = "diagnostics" THEN published \cup {m.file} ELSE published
  /\ UNCHANGED <<op, context, lsp, reader, channels, stdin, process, opened, got, result>>

ServerLeaves ==
  /\ process = "up"
  /\ \E s \in {"silent", "gone"} : process' = s
  /\ UNCHANGED <<op, context, lsp, reader, channels, pipes, opened, spoken, published, got, result>>

LspCaller ==
  \/ StartProcess \/ NoSession \/ WriteToServer \/ WriteToServerFails
  \/ ReadGreeting \/ ReadGreetingFails \/ ReadAnswer \/ ReadAnswerFails
  \/ SpawnReader \/ TakeDiagnostics \/ TakeError \/ TwoSeconds \/ WaitCancelled
  \/ Goodbye

LspReader == ReaderReads \/ ReaderEnds

LspNext ==
  LspCaller \/ LspReader \/ CallerGoes \/ ServerHears \/ ServerSpeaks \/ ServerLeaves

\* Goroutines run, the timer fires, and a server that is up answers.
LspFairness == WF_lspVars(LspCaller) /\ WF_lspVars(LspReader) /\ WF_lspVars(ServerHears)

LspSpec == LspInit /\ [][LspNext]_lspVars /\ LspFairness

-----------------------------------------------------------------------------
(* Properties *)

\* Every variable keeps its type; no channel ever holds more than its place,
\* so that the reader cannot block on one; and a call has a result when it is
\* over.
LspTypeOK ==
  /\ op \in {"diagnostics", "request"} /\ context \in {"live", "done"}
  /\ lsp \in LspPcs /\ reader \in {"none", "reading", "ended"}
  /\ diagnosticsCh \in Seq(Frames) /\ errCh \in Seq(Frames)
  /\ Len(diagnosticsCh) + Len(errCh) <= 1
  /\ stdin \in Seq(Heard) /\ stdout \in Seq(Frames)
  /\ process \in {"down", "up", "silent", "gone"}
  /\ opened \in BOOLEAN /\ spoken \in 0..MaxSpoken /\ published \subseteq Files
  /\ got \in Frames /\ result \in {"open", "items", "empty", "error"}
  /\ Len(stdin) <= StdinCap
  /\ (result = "open") <=> (lsp \notin {"closing", "done"})

\* What a call returns is what it was made for: a request returns the answer
\* to itself, whatever else arrives before; Diagnostics returns what was
\* published for its file, unless the server published for another file,
\* whose diagnostics it then labels with the path it was asked for.
ReturnsWhatWasAsked ==
  result = "items" =>
    IF op = "request" THEN got = Frame("request", 2, Asked)
    ELSE got.says = "diagnostics" /\ (got.file = Asked \/ published # {Asked})

\* No publication for the asked file is lost on its way to the reader: as
\* long as Diagnostics has read nothing else it took for an end, what was
\* published is in the pipe, in the channel or returned.
PublicationsReachReader ==
  op = "diagnostics" /\ Asked \in published /\ reader # "ended" =>
    \E i \in DOMAIN stdout : stdout[i] = Frame("diagnostics", 0, Asked)

\* A call that is over leaves no process behind, whichever way it ended.
NoServerLeft == lsp = "done" => process \in {"down", "gone"}

\* Every call ends, Diagnostics two seconds after the file is open.  What has
\* no deadline is the greeting, a request, and any write to a full pipe, the
\* goodbye of a call that has its result among them: each waits for as long
\* as the server is silent and the context goes on.
LspCallEnds ==
  <>[](\/ lsp = "done"
       \/ /\ process = "silent" /\ context = "live"
          /\ lsp \in {"initializing", "requested"}
             \/ (~HasRoom /\ (Writing \/ lsp = "closing")))

\* The reader of a call that is over ends: no goroutine is left behind.
NoReaderLeft == <>[](lsp = "done" => reader # "reading")

\* Together: what the server says of the file reaches the caller, and only that.
AnswersAsAsked == ReturnsWhatWasAsked /\ PublicationsReachReader

\* Together: every call ends, and leaves neither a process nor a goroutine.
LspEndsClean == LspCallEnds /\ NoReaderLeft /\ []NoServerLeft
=============================================================================
