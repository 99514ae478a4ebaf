# TLA+ verification of the Agentra service

Agentra is a local coding assistant. A Go service (`src/service`) runs agents: it
sends a conversation to a model served by Ollama, executes the tools the model
calls, asks the user for permission, and stores sessions, messages and permission
requests in MongoDB or, in *degraded mode*, in memory. A web client (`src/web`),
shown in a browser or in an Electron shell (`src/desktop`), talks to it over HTTP
and one WebSocket. This directory models the logic of all three in TLA+, checks
the models with TLC and proves theorems about them with TLAPS.

Contents: [inventory](#inventory), [modules](#modules-and-how-they-correspond-to-the-code),
[runs](#runs-and-what-they-show), [fairness](#fairness), [proofs](#proofs),
[findings](#disagreements-with-the-documents), [what the code
does that a reader may not expect](#behaviours-the-models-show), [what is not
modelled](#what-is-not-modelled), [plan](#plan).

## Inventory

Paths are relative to `src/service/internal` unless they begin with `src/`.

| Part | State it keeps | Operations | What is hard | What makes it correct |
| --- | --- | --- | --- | --- |
| Permission broker (`app/app.go:1006-1109`) | `pendingReq` (request id to channel), `allowRules`, stored requests | `requestPermission` (inside every tool), `ResolvePermission` (one HTTP handler per decision) | the two run in different goroutines; timer, cancellation, decision and store failure race; a second decision; a restart forgets half of the state | no tool runs without consent; every request ends; the record agrees with the answer |
| Agent run (`app/app.go:224-610`) | the session record, the message log, counters of the loop | `RunAgent`, `runLLMFlow`, `executeToolCall`, `updateSession` | several runs of one session; a store that fails between two writes that belong together; a client that goes away | the run returns; the log stays well formed for the next question to the model; the session shows how it ended |
| History compaction (`app/integrations.go:587-722`) | summary messages in the log, five summary fields of the session | `maybeCompactHistory`, `activeSummaryIndex`, `latestSummaryIndex` | the summary is appended to a log other runs append to; the pointer is saved after it and may be overwritten | no text is forgotten but what a summary passed over; the pointer and its fields speak of one stored summary |
| File tools (`app/app.go:1130-1325`, `tools/edit.go`) | the files of the repository | `WriteFile`, `EditFile`, `ApplyPatch`, `ReplaceExact`, `ApplyPatchBlocks` | read, wait for a person, write; several files without a transaction | an undisturbed call does its plan; a refused one touches nothing; a failed one stops there |
| Patch text parser (`tools/edit.go:82-267`) | none | `ParsePatchTargets`, `parsePatchBlocks`, `parseAddFileContent` | the text is a language model's: noise between the blocks, cut off behind or inside a line | the targets are the ones the text spells; a cut text means less, and something else only if it is cut inside the name of a file to add or delete |
| Subtasks (`app/app.go:301-383`) | child sessions, a message in the parent's log | `RunSubtask` from the tool, `/task` and `POST /api/subtasks` | a run inside a run of another session, at any depth; the report comes between a call and its result | every subtask that ends is told of once, truly, and in the place the log has for it |
| Sessions and messages (`app/app.go:150-223`, `store/mongo.go`) | sessions, messages | `CreateSession`, `getSession`, `updateSession`, `SaveMessage`, `ListMessages` | read-modify-write without a lock over the two; degraded mode hands out its own slices | see agent run and compaction |
| Event hub (`events/hub.go`, `httpserver/server.go`) | the set of WebSocket connections | `Add`, `Remove`, `Broadcast` | many goroutines write to one connection under a read lock; a client that does not read | a broken client costs the others nothing; no write after `Remove`; broadcasts end |
| MCP client (`mcp/client.go`) | a child process or an HTTP session per call | handshake, `tools/list`, `tools/call` over stdio, HTTP, SSE | over stdio answers are not matched to requests; the error pipe is read last; names of tools are resolved against a new listing | an answer is the answer to its request; every call ends and leaves no process; what was offered is what is called |
| LSP client (`lsp/client.go`) | one process per workspace and server | start, requests, diagnostics | notifications race answers and deadlines | diagnostics are those of the file asked about; every call ends and leaves neither process nor goroutine |
| Configuration (`config/config.go`) | none after start | `Load`, overlays, `getenvInt` | order of the sources; a switch that is off and one that is not there; an overflow | the last source that gives a value wins; a number that fits is taken as it is; the limit is positive |
| Slash commands and templates (`app/commands.go`) | none | parsing, rendering, dispatch | flags that take the next word; replacement in the random order of a map | the rendered text is the template read at once |
| Repository index, graph (`app/app.go:1700-2045`, `store/neo4j.go`) | nodes and edges in Neo4j | `IndexRepository`, queries | two indexers at once | the graph is that of the last complete pass |
| Retrieval ranking (`app/integrations.go`) | none | `mergeRankedFileMatches` and siblings | random order of a map, ties, limits | the best by their total scores, each once |
| HTTP server (`httpserver/server.go`) | none | a decoder around each `App` method | - | - |
| Ollama client (`ollama/client.go`) | none | `Chat` and fallbacks | - | - |
| Shell tool (`tools/exec.go`) | none | one child process | - | - |
| Web client (`src/web`) | messages, sessions, the pending permission | reducer of events, requests, status loops, the event socket | events of other sessions; several sends in one; late answers; one slot for permissions; loops that overlap | what is shown is what is stored; a prompt is for a request that waits; the client comes back after an outage |
| Desktop shell (`src/desktop`) | the service's process | probe, start, stop | a service that comes, goes and falls silent meanwhile | the window opens, with the service as it is |

How they interact: an HTTP handler calls one method of `App` in a goroutine of its
own. `RunAgent` calls the model, and for each tool call a tool method, which calls
`requestPermission` and blocks there. Another HTTP handler, `ResolvePermission`,
unblocks it through a channel. All of them write to the store and broadcast events
to the hub. Nothing else connects the goroutines: there is no lock per session, per
file or per request.

`PROJECT.json` lists every component with its status, and under `hazards` each place
where the code is hard to test, with the properties aimed at it.

## Modules and how they correspond to the code

Names are the code's where TLA+ allows it. Each module has a section *Mutated forms*
or mutated operators next to the original: plausible slips in the code, each of which
breaks a property of a run. The specifications never use them.

### ApprovalPromise, PermissionBroker, PermissionBrokerProofs

`ApprovalPromise` is the abstract specification: users submit votes; a call becomes
`allowed` only on a vote that consents to it, `denied` only on a vote that denies it,
may be `aborted` at any time, and never changes its verdict; a restart aborts open
calls and forgets the votes.

`PermissionBroker` is the code. One element of `Calls` is one execution of a tool
with its `requestPermission`; one element of `Handlers` is one
`POST /api/permissions/decide` with its `ResolvePermission`.

| Code | Model |
| --- | --- |
| `pendingReq`, the channel of capacity one | `registered`, `channel` |
| `allowRules` keyed by session, tool, action, path | `allowRules`, `KeyOf` |
| the status of the stored request | `stored` |
| `requestPermission`: rule test, save, register and broadcast, select, deferred delete | `AllowedByRule`/`NoRule`, `Save`/`SaveFails`, `Announce`, `Receive`/`TimerFires`/`ContextDone`, `WriteTimeout`, `Leave` |
| the tool's test `decision == "deny"` | `Approved`, `ToolRuns`, `ToolDenied`, `ToolFails` |
| `ResolvePermission`: look-up, update of the status, rule, send | `Decide`, `Record`/`RecordFails`, `AddRule`, `Send`/`NothingToSend` |
| a stop and a start of the service | `Restart` |

Each lock section is one step, and so is each store call; everything between two of
them can be interleaved. A failed store call may or may not have been applied. Any
decision string other than `deny` lets a tool run, as in the code, where the server
does not validate it. `submitted` is a history variable: the votes since the last start.

The refinement mapping sends the votes to `submitted` and the phases `ran`, `denied`,
`failed`/`dead` to `allowed`, `denied`, `aborted` (`Verdict`).

### AgentRun, AgentRunProofs

`RunAgent` and `runLLMFlow` for prompts that reach the model, with `updateSession` as
its two store calls (`ReadSession`, `WriteSession`, or `UpdateFails`, whose error the
code ignores). `pc` names the place in the function: `listing`, `compacting`,
`chatting` (the call to the model), `answering` (a text came), `storing` (an answer
with tool calls is saved), `executing`, `reporting` (a tool result is saved),
`restoring` (the answer is saved again with the statuses), `stopping`, `exhausted`.
Before each question the tools of the MCP servers are listed (`offering`), without the
context of the run. `unanswered` and `open` are the two facts about the log the next question depends on:
stored calls without a stored result, and stored calls whose stored status is still
`running`. In degraded mode the log holds the same slice of parts as the run, so
`ExecuteCall` changes the stored status at once. `storeFailed` and `yield` are history
variables. The client may leave at any time (`Cancel`): the context ends, and store
calls to MongoDB and the model fail from then on.

Abstracted: texts, the retrieval prompt, the tools (four outcomes) and compaction (a
choice, see the next module).

### Compaction, CompactionProofs

The log is a sequence of messages, named by their place; a summary is a message that
remembers what its text was made from (`covers`, transitively through the previous
summary). A message without a text (`Silent`: of tool calls only, or the result of a tool
that says nothing) is passed to the model as it is, but is no part of a summary. A run reads the log (`hist`), chooses the active summary (`Choose`), and
either uses the history as it is or has the older part summarised, appends the summary
where the log ends *then*, and records it with `updateSession`. `context` is what the
model is given. Runs are reused, so a run slot stands for any number of runs in a row,
and both users of the pass are there: a chat (`runLLMFlow`) and `/compact`.

### FileTools, ToolboxProofs

A call works through the targets of a plan: `ComputeTarget` for each, then permission,
then `Write` or `Remove` for each. `WriteFile` is a plan with one `add`, `EditFile` one
`update` with one block, `ApplyPatch` any plan. A file is a sequence of pieces of text
and a search text is one piece, so that "found", "found twice" and "replaced" mean what
`ReplaceExact` means, for search texts that do not overlap themselves. The user's editor
(`EditorSaves`) changes files in between. `before` and `interfered` are history variables
for the properties. `os.WriteFile` is one step when it succeeds; when it fails it may
leave the file unchanged, empty or written.

### EventHub, ConnectionsProofs

One element of `Conns` is a WebSocket with its `handleWS`, one of `Casters` a goroutine
that broadcasts. The read-write lock is `readers` and `announced` (a writer that waits
keeps new readers out, as `sync.RWMutex` does). `WriteMessage` is two steps, for the
library sets a flag, writes, and clears it, and the flag is all that two writers share:
`StartWrite` may miss the other's flag, `Collide` is the panic when it does not, and
`EndWrite` panics when the flag is clear already. A peer is there, has `left` (the
handler's read ends) or is `lost` (only a write notices). The wire to it holds `Cap`
frames; a write to a full one waits. An event that cannot be marshalled is no step.

### Subtasks, SubtasksProofs

What `RunSubtask` adds to a run. One HTTP request is one `stack` of runs, the innermost
last; a run is seen from outside (its prompt, its calls and their results, its text), so
that runs can nest and requests can interleave in one log. `SavePrompt` is `RunAgent`'s
dispatch to a command, a path or the model. `CreateChild`, `Report` and
`ChildCompleted`/`ChildFailed` are `RunSubtask`; `Resumed` is what each of its three
callers makes of the outcome. `told` is the sequence of events the clients got.

### PatchText, ToolboxProofs

`ParsePatchTargets` and what it calls, as functions over lines. The state machine is the
one who writes the text, a section, block or line at a time, with the noise a language
model adds; `wanted` is what it means. `FileTools` carries out what this module parses.
`Reading` is how the parser goes through lines: `Parts`, `Added` and the state of
`ParsePatchTargets` are each what one reader makes of a text.

Noise is the envelope, talk, and blank lines outside the sections of new files: inside one a
blank line is content, as in the code, and `WriteAdded` writes it. The answer of a model ends
at its length limit, behind a line (`CutMeansLess`) or inside one (`RestMeansLess`). `Rests`
says what may be left of a line: of a header the same with any path of `PatchPaths`, which is
more than the writer names, or with none, or ordinary text; of a marker ordinary text; of a
line of a new file a shorter one. `LeftOf` states the two ways in which such a rest is more
than a beginning of what was meant: the last line added is shorter, and the header of a file
to be added or deleted names another path.

### RuntimeConfig, ToolboxProofs

`Load` reads a number digit by digit (`getenvInt`) with an int that wraps: `HalfInts` is half
the number of ints, 2^63 in the program and 16 in the run. `Runtime` lays the user's file and then the repository's over the environment (`Overlaid`) and
merges the directories. A text setting is modelled by the layer it comes from. The number
ends (`EndOfNumber`) or meets another character (`OtherCharacter`), and `AUTO_COMPACT` turns
compaction off if it says so (`AutoCompact`, which is `getenvBool`). `NumberIsExact` says what
each of these comes to; of a number too long for an int, which wraps, only that the limit is
positive.

### CommandText, ToolboxProofs

`parseCommandArguments`, `inferTemplateArguments` and `renderCommandTemplate`. A template
is a sequence of pieces; `ReplaceName` takes the names in any order, as the range over a
Go map does, and replaces them in the whole text, what earlier replacements put there
included.

### Ranking, ToolboxProofs

The merging of ranked matches, which `mergeRankedFileMatches`, `mergeRankedMemoryMatches`
and `mergeRankedSymbolMatches` share: `MergeNext` puts one match into the map, `Rank` is
every result the stable sort can make of the map's random order (`Orders`), cut off.

### McpClient, McpTools, ConnectionsProofs

`McpClient` is one call over stdio, SSE or HTTP: the process or the connection, the
greeting, the request, the matching of answers, the deadline and the clean-up. The server
is external: it answers in order, speaks unasked, fills stderr, falls silent or exits.
`McpTools` is how a tool gets to the model and back: the listing over all servers, the
name made for it, and the second listing in which a called name is looked up, between
which servers, tools and configuration may change.

### LspClient, ConnectionsProofs

One call: `startSession`, then a request that reads until its id comes, or `Diagnostics`
with its reader goroutine, its two channels and its two-second timer, then `close` with
the goodbye it writes before it kills. The pipe to the server holds `StdinCap` messages.

### WebChat, WebPrompt, WebStatus, ClientProofs

The web client, `src/web/src/ui/App.tsx`, as far as it keeps state that several
continuations write. `WebChat`: the messages of the selected session, written by events of
any session and by the answers of `handleSend` and `listMessages`. Nothing in `handleSend`
or at its button waits for a send that goes on, so there may be several in one session: a
send and its run are named by the act of the user that began them (`Starts`, `sending`,
`into`), each ends with a refresh of its own, and `alone` remembers those that had no other
beside them in their session. `WebPrompt`: the slot for the pending permission; the buttons
stay enabled while a decision is on its way, so each click is a decision of its own
(`Clicks`), on whatever request is shown. `WebStatus`: the status loops, the phases they set and the
effect that opens and closes the event socket. The three share no state but the selected
session, which only `WebChat` needs.

### Desktop

`src/desktop/src/main.ts`: the first probe, the helper that is started, twelve attempts
with a pause after each, the request for the status and the window. Each step is a
callback. What serves at the address is external and may change at any time. Its proofs are
in `ClientProofs`.

## Runs and what they show

Every run is exhaustive within its bounds. Deadlock is not checked: in all models the
system may stop, when every call, run or handler there is has ended.

`workspace` and `connections` each check several modules that share no state, one at a
time: the variable `part`, chosen in the initial state, says which module makes steps, and
the others stay as they began. What a run of its own would check of a module is checked
here, with fewer starts of TLC.

| Run | Instance | Shows |
| --- | --- | --- |
| `broker_mongo` | 2 calls with one key, 2 handlers, 3 decisions, 1 restart, MongoDB | the safety properties and the refinement |
| `broker_live` | the same with a key per call, degraded mode | a rule for one key never opens another; requests end; a sole handler returns |
| `run_one` | 1 run, 4 answers of up to 2 calls, MongoDB, any failure | the log is settled whenever the model is asked again, whatever failed; a run stops, and returns unless it waits for a silent server |
| `run_two` | 2 runs of one session, degraded mode | lost updates of the session record never leave it `started` for good |
| `run_statuses` | 1 run | *violation*: an event status the shared type lacks |
| `compaction_one` | 1 slot, limit 3, keep 2, log of up to 12 and what runs in progress add | several compactions in a row |
| `compaction_two` | 2 slots (symmetric), limit 2, keep 1, log of up to 6 | two runs that compact at once |
| `compaction_recent` | 1 slot, limit 4, keep 3 | *violation*: preserved messages are forgotten by the next chat |
| `compaction_forced` | 1 slot, limit 3, keep 2 | *violation*: `/compact` that compacts nothing |
| `workspace` | `FileTools`: 2 calls, 3 files, 6 plans, 1 save by the editor. `PatchText`: 2 sections, 2 pieces, 1 line of noise, 1 path named and 1 more that is left of a cut header. `RuntimeConfig`: 2 digits, an int of 5 bits, 2 directories. `WebChat`: 2 sessions of 3 and 1 messages, 3 acts of the user. `WebPrompt`: 2 runs, 3 requests, 2 clicks. `Subtasks`: 2 requests, 3 sessions (degraded), and 1 request with a store that fails. `CommandText`: 2 names, every spelling, templates of 2 pieces, 3 arguments. `Ranking`: 4 matches of 3 keys, limit 2 | what a run works on and what its user sees of it |
| `connections` | `EventHub`: 2 connections, 2 broadcasters with 1 event each, a wire of 1 frame. `McpClient`: 2 messages unasked, a stderr pipe of 1. `McpTools`: 2 servers, 2 tools that share a name, 1 change. `LspClient`: 2 files, 3 messages unasked, a pipe of 2. `WebStatus`: 2 attempts, 2 loops at once, 3 sockets, 3 changes. `Desktop`: 3 attempts, 3 changes | what holds a connection, each under the fairness of its module |
| `web_prompt` | `WebPrompt` with 1 run, 2 requests and 2 clicks | *violation*: the prompt of a request that waits is cleared |

The properties, with the reason each could fail in this code:

- `ConsentBeforeReturn`, `RulesWereVoted`, `KeepsPromise`: timer, cancellation, rule and
  decision compete, a rule may come from a request an earlier process stored, and a
  tool looks at two return values.
- `BlockedByRival`, `RegisteredWhileOpen`, `EveryoneReturns`: the channel is used after
  the lock is released and after its owner may have gone, and a call waits for a person.
- `SoleDecisionOnRecord`: the status is written by two goroutines.
- `RunReturns`: everything waits on something that may not answer. A run returns, or stays
  for ever in a listing of tools or in a tool call.
- `CallsSettled`, `AnnouncedResultsStored`: a message, its results and its statuses are
  three kinds of writes, and any may fail.
- `StopsWhenStalled`: the count must reset, and the stop must come at the second answer.
- `SessionSettles`, `OutcomeOnSession`, `DegradedFailureShown`: read-modify-write of the
  session by several runs.
- `HeadDescribed`, `NothingElseForgotten`, `ContextBounded`, `HeadAdvances`: slices by limit, keep and the place of a summary, in a log that grows
  while the pass runs.
- `CallsKeepTheirPlan`: two passes over the targets with a wait between them. An
  undisturbed call does its plan, a refused one touches nothing, a failed one stops there.
- `PatchUnderstood`: nested markers, in a text that may be cut off behind any line or inside it.
- `SettingsLayered`: "not set" and "set to off" or "0" look alike in a file.
- `SubtasksAccounted`: nested runs, each of which may fail at any step, in logs that
  several requests write to. Told once, told truly, reported in place.
- `CommandRead`: the words of the user are split between flags and positions, and names
  are replaced one after the other in a text that grows.
- `TopRanked`: what is merged comes out of a map in any order, and is then cut off.
- `ViewFollowsLog`: two streams into one list, with revisions that come without an event, and
  late refreshes of several sends.
- `PromptFollowsRequests`: one slot, several runs, several decisions under way.
- `WritesToClients`: the handler changes the map that the loops of others walk over.
- `EveryClientServed`, `BreaksStayLocal`: a failed write is noticed in one goroutine
  and acted upon in another; readers of the lock wait for a writer that waits for readers
  that write.
- `AnswersFit`, `AnswersAsAsked`: what a server says comes in an order of its own.
- `CallsEnd`: pipes fill, servers fall silent, and clean-up has writes of its own.
- `CallsAsOffered`: the name is resolved again, later.
- `ClientComesBack`: loops that overlap set the phase the socket depends on.
- `DesktopOpens`: three ways to settle each request, and a service that changes meanwhile.

Several properties are conjunctions of two or three named ones; the comment at each part
says what it is for.

### Why the bounds are enough

- Two calls and two handlers give every pairing the broker has: two decisions about one
  request, one about each, a rule of one call used by the other. The theorems below hold
  for any number. Three decisions are `allow_once`, `allow_session`, `deny`; any other
  string behaves as `allow_once`. One restart separates "before" from "after".
- The loop of a run repeats the same steps; four answers are two more than the stop
  needs, two calls per answer are the least that can fail in the middle.
- Two runs of a session suffice for a lost update. They have two answers of one call
  each: what is interleaved is the session's read and write, of which each run has at
  least two pairs.
- `compaction_one` allows twelve messages, enough for a second pass over what followed a
  first summary, with failures in between, at limit 3;
  `MaxLog` stops prompts and tool messages, never a summary or an answer, so a pass that
  began can end. `compaction_two` has room for a pass of each run after a first
  one, at limit 2.
- Two broadcasters are the least that overlap, and a wire of one frame makes the second
  wait for the peer; two connections let one break while the other is good.
- Three files are one to update, one that exists and one that does not; the plans are
  one of each tool, an ambiguous edit, patches of three targets that can fail at the
  last one, and a patch that names a file twice.
- Three sessions are a subtask within a subtask, or two beside each other. The part with a
  store that fails has one request: a failure concerns the stack it happens in.
- Two sections of a patch with two pieces give every pair of neighbours the parser has to tell
  apart; a second path is what a header that is cut may name. Two digits in five bits wrap.
- Three messages in a session are the prompts of two sends and a message of one of their
  runs: the least with which a late refresh can take something away. When the second
  session is selected, they are the messages of another. Two clicks are two on one
  request, or one on each of two.
- Two names, one of which begins the other, are what the order of the map is about. Three keys,
  two of one label, with a limit of two, cut between equals.
- A server that speaks unasked twice can put a message before and after each answer; two
  files tell the asked one from another. One change of the tools falls into each step
  between the offer and the call.
- Two loops at once are the least that overlap; a third socket can be opened while two
  wait for their `onclose`. Three changes are an outage, a return and one more.
- Three attempts stand for twelve: the last differs from the others, and so does the first.

## Fairness

`PermissionBroker!Fairness` is weak fairness of every step the Go runtime runs once the
goroutine is runnable, and of the permission timer. Not assumed: that anybody decides,
that a context ends, that a decision is received before the timer fires. The store's
calls end in success or failure. `AgentRun!FairSpec` is weak fairness of what a started run
does between its waits for servers (`Works`): the store answers or fails, and a request to
Ollama carries the run's context and a time limit of its own. Not assumed: that the listing of
tools (`OfferTools`, made with `context.Background()`) or a tool call (`ExecuteCall`) ends,
since both may wait for a silent MCP or language server. `RunReturns` names the two.

`EventHub!FairSpec` is weak fairness of handlers and broadcasters, and of `Receive`: a
peer that stays connected reads what it is sent.

`McpSpec`: the client's next step, the deadline of a remote call, and a server that answers
unless it is silent or gone. `LspSpec`: the caller, the reader, and a server that reads its
input unless it is silent. `StatusSpec`: the interval fires, requests are answered or fail,
a close is told of. `DesktopSpec`: every request and every pause of the shell has a timer;
a service that does not answer in 1.5 seconds is called silent. Servers, services and users
are never assumed to do anything else.

The first two also assume that `Broadcast` returns. It writes to every WebSocket without a
deadline, so a client that stays connected and stops reading is outside all liveness
properties here: it stops the broadcaster and, behind the next `Add` or `Remove`, every
other. They also leave out the panic of two writes that collide (`EventHub!Collide`), which
ends the handler that broadcast.

## Proofs

`PermissionBrokerProofs` proves, for all values of the constants that satisfy
`BrokerAssumption` (any calls, handlers, keys, key assignment, decisions, restarts, either
mode):

| Theorem | Statement |
| --- | --- |
| `TypeCorrect` | `Spec => []TypeOK` |
| `Consented` | `Spec => []ConsentBeforeReturn` |
| `RulesVoted` | `Spec => []RulesWereVoted` |
| `BlockingNeedsRival` | `Spec => []BlockedByRival` |
| `RegistrationExact` | `Spec => []RegisteredWhileOpen` |
| `SoleDecisionRecorded` | `Spec => []SoleDecisionOnRecord` |
| `Refinement` | `Spec => KeepsPromise` |

None of the properties is inductive by itself. `IInv` strengthens them: besides the
properties it says that what a handler carries was voted for while it is on its way,
that what is in a channel was voted for, that a full channel was filled by a handler
that is done, that a call's answer other than an error comes from a vote or a rule, and
that the entry of `pendingReq` follows the phase of the call. The proof has a *frame* lemma per
actor (what a step of a call, of a handler, of a restart cannot change), a lemma for
each group of conjuncts an actor can disturb, and one theorem that combines them
(`Invariance`). `SoleDecisionOnRecord` needs more (`RecordInv`): a stored status exists
for every announced request, a handler that can send has stored its decision, and the
buffer and the answer agree with the stored status unless a second handler decided the
same request. `Refinement` uses `Invariance` in each step: a call that runs has consent
*in the votes of that state*.

`ConnectionsProofs` proves of the event hub, for all values that satisfy `HubAssumption`, `HubTypeCorrect`
(`Spec => []TypeOK`), `NoWriteAfterRemove` (`Spec => []WritesToClients`) and
`ServesEveryClient` (`Spec => EveryClientServed`). The invariant
`HubInv` adds `LockHeld`: the broadcasters in the loop are those that hold the read lock,
also after a panic, since the unlock is deferred. That is why `Add` and `Remove`, which wait
for `readers = {}`, find nobody in the loop. For the third, `Accounted` says where every connection of the hub
is while a loop runs: on its list, being written to, served, or failed. There is one lemma per actor, and
`EndWriteKeeps` for what the two ways to end a write share.

`AgentRunProofs` proves, for every number of runs of a session, of answers (`LoopLimit`),
of calls in one (`MaxCalls`) and every `StallLimit`, with MongoDB and without, from
`RunAssumption` (the limits are positive, there is a run) and `NoneAssumption` (`None` is
neither a run nor a status):

| Theorem | Statement |
| --- | --- |
| `TypesCorrect` | `Spec => []TypeOK` |
| `CallsAlwaysSettled` | `Spec => []CallsSettled` |
| `StopsOnlyWhenStalled` | `Spec => []StopsWhenStalled` |
| `ResultsAreStored` | `Spec => []AnnouncedResultsStored` |
| `SessionAlwaysSettles` | `Spec => []SessionSettles` |
| `OutcomeIsOnSession` | `Spec => []OutcomeOnSession` |
| `DegradedFailureIsShown` | `Spec => []DegradedFailureShown` |

Even `TypeOK` is not inductive: that `stalled` and `loop` stay within their limits rests on
where the run is. `AgentInv` speaks of the *place* of a run, which is `pc` or, during an
`updateSession`, where it goes afterwards. `CallsOK` says which calls the log still owes at
each place (the ones after `index`), `AnnouncedOK` that nothing of an answer is broadcast
before it is stored, `StallOK` that `stalled` counts the answers without a success at the
end of `yield`, `ResumesRight` which status each of the five uses of `updateSession`
writes, and `SoleOK` what a run that is alone finds in the session. Steps are split into
those that leave the calls alone (`Moves`, of which `MovesLead` says where they lead) and
those about the calls (`Handles`, one lemma each). `OthersKeep` is the frame: runs share
nothing but the session, and `StepsSettle` is about that.

`CompactionProofs` proves, for any number of runs, any limit and any number of messages that
are kept (`CompactionAssumption`):

| Theorem | Statement |
| --- | --- |
| `TypesKept` | `Spec => []TypeOK` |
| `SessionDescribesOneSummary` | `Spec => []HeadDescribed` |
| `CompactionForgetsNothingElse` | `Spec => []NothingElseForgotten` |
| `ModelInputBounded` | `Spec => []ContextBounded` |
| `SoleRunAdvances` | `Spec => HeadAdvances`, if there is one place for runs |

`CompInv` says of the log that each summary covers everything up to where its pass ended but
what was passed over or has no text (`Gone`, `LogOK`), and of the session and of each run's copy of it that they
describe one summary (`Describes`, `RecordOK`); for each run, what its context covers
(`ContextOK`, `FreshOK`) and how large it can be (`SizeOK`). That the log only grows (`Grows`)
is what lets a fact about one run survive the steps of another. `SoleRunAdvances` has its
hypothesis because the statement is false without it: with two places a copy of the session
read before the other's write is written after it, as TLC shows.

`ToolboxProofs` proves of the file tools, for any calls, plans, files and texts (`FileAssumption`),
`CallsDoTheirPlan` (`Spec => CallsKeepTheirPlan`), from one theorem for each of its parts, and
`FileTypesKept`. The properties speak of the last step of a call; `FileInv` speaks of those
before: what a call has computed is what its targets mean for the files it began with
(`ResultsOK`), what it has written is there and the rest is as it was (`WrittenOK`, for plans
that name a file once). What blocks do to a text, however many there are, is
`UpdatesMeanTheirBlocks`, by a least counterexample: the set of the numbers of blocks after
which it fails has no least member, so it is empty.

Of the MCP client, `ConnectionsProofs` proves `AnswersAlwaysFit` (`McpSpec => []AnswersFit`) and `McpTypeCorrect`
for all transports, any number of unasked messages and any capacity of stderr. `McpInv` adds
what is on its way: `WireForm` ties ids to methods, `InTime` says that a server which never
speaks unasked never makes the stdio client one message late, `GreetedFirst` that the request
waits for the answer to the greeting. `NoServerOutlivesCall` (`McpSpec => []NoProcessLeft`)
needs none of it. Of the tools it proves `CalledAsOffered`
(`ToolsSpec => CallsAsOffered`) and `ToolsTypeCorrect`, for any servers, finite set of tools
and naming. `ToolsInv`: while nothing has changed since the offer (`Steady`), the list holds
the tools of the servers asked so far, the offer those of all, and what is called is among
those offered under the name.

Of the LSP client, it proves `CallsReturnWhatWasAsked` (`LspSpec => []AnswersAsAsked`),
`LspTypesKept` and `NoProcessOutlivesCall` (`LspSpec => []NoServerLeft`, the safety half of
`LspEndsClean`) for any files, messages unasked and capacity of the pipe. `LspInv` follows a
publication from the server to the wire, the reader and the channels (`LspWireForm`,
`PublicationsReachReader`), says which places of caller and reader go together (`Phases`) and
that nothing is published before the file is open (`NothingEarly`).

Of the configuration, `ToolboxProofs` proves `SettingsTypesKept` (`ConfigSpec => []ConfigTypeOK`)
and `SettingsAlwaysLayered` (`ConfigSpec => SettingsLayered`), from `ConfigAssumption`. While a
number is read, `ConfigInv` says that what has been read of it is the value of the digits so far,
if that fits an int: `OneDigitMore` and `Wraps` are the arithmetic of it, modulo any even number
of ints, and `NumberCounts` is what it comes to at the end, or at another character. While the settings are
built, it says of each layer read so far what it has settled (`LayersCount`), and that the
directories are the user's and then the repository's, as they were given; that `Unique` makes of
them each once, in the order of the first places, is `UniqueKeepsFirsts`. `Kept` and `ValuesOf`
are recursive functions: `StepsExist` shows, by a least counterexample, that such a function
exists, so that its definition holds of it, and `UpTo` is the induction over its arguments.

Of the ranking, it proves `TopAlwaysRanked` (`RankSpec => []TopRanked`), from `RankAssumption`.
`RankInv` says of each key what the map holds of it (`MergedIs`): nothing, or one match with the
total of the scores merged so far and with reasons given for it. At the end there is one merged
match for each key found (`MergedCount`), so that any order of them is one of the keys, and where
a key stands in it is a matter of counting: those that are better are before it, and nothing is
before it but those and its rivals (`PlaceBounds`).

Of the text of a command, it proves `CommandAlwaysRead` (`TextSpec => []CommandRead`), from
`TextAssumption`, for any templates, declarations and arguments. `TextInv` says of the arguments
parsed so far what `CommandRead` says of all of them (`ParsedSoFar`: words keep their order by
counting, the last naming of each name counts). Of the text, it says that it is the template with
each piece replaced on its own by what has been replaced so far (`RenderedSoFar`): the
spellings are functions from a piece to a text, two of them one after the other are one
(`MappedTwice`), and plain text stays (`PlainStays`). So the order of the names does not matter.

Of the text of a patch, it proves `PatchAlwaysUnderstood` (`PatchSpec => []PatchUnderstood`) for
any paths, words and number of sections, pieces and lines of noise. The readers are recursive functions over a
text; `ReadersGrow` says what they make of one line more, and `LineByLine` is the induction over
the lines. `PatchInv` says that the parser *follows* the writer (`Understood`): the targets it has
closed are what the writer means by them, and what is left is what the lines of the open section
say (`OpenTarget`); or an update without a block is behind it, the patch is refused, and what the
writer means has such an update. Without a header all blocks are for the path of the call
(`HeadlessOk`). There is a lemma for each thing the writer does (`HeaderUnderstood`,
`BlockUnderstood`, `AddedUnderstood`, `NoiseUnderstood`). Two more conjuncts speak of cuts. Behind
a line (`Cuts`): a text cut inside a block has an update that is not whole, or one without a path,
which does not matter (`CutInBlock`); and what is wanted only grows (`WantsMore`), so what an
earlier cut may mean it still may (`CutGoesOn`). Inside a line (`RestsOf`): what is left of it is
text or the envelope, and then the cut means what one behind the line before it does, or one inside
the block (`RestInBlock`); or it is a shorter line of a new file (`AddedRest`) or the same header
with another path (`HeaderRest`), which are the two exceptions of `LeftOf`.

`SubtasksProofs` proves, for any requests, sessions, calls, answers and depth of subtasks
(`SubtasksAssumption`), with a store that may fail and in degraded mode:

| Theorem | Statement |
| --- | --- |
| `SubtasksTypesKept` | `SubtasksSpec => []SubtasksTypeOK` |
| `SubtasksAlwaysAccounted` | `SubtasksSpec => []SubtasksAccounted` |

`SubtasksAccounted` looks at what is over; `SubtasksInv` at what goes on. A stack is a chain of
runs, each in a child of the session below it (`StackOK`), and no session is run twice at once
(`Apart`): so the events about a child are written by one run. For each run of a stack it says what
stands last among its *own* entries of the log (`OwnOK`), other requests' entries left out: while a
subtask of a tool call is under way that is the call, or the report that has just been saved
(`AwaitsChild`); before a result is saved, the outcome is one the clients were told (`HasOutcome`).
`TextOK` ties a subtask's text to what will be told of it. Steps are lemmas of their own, over a
few lemmas about appending to one log (`StoredLog` and what follows it) and to one stack.

`ClientProofs` is about the browser and the shell around it:

| Theorem | Statement |
| --- | --- |
| `PromptLive`, `PromptFollows` | `PromptSpec => []PromptIsLive`, `PromptSpec => PromptFollowsRequests` |
| `ShownOnce`, `ViewIsTheLog` | `WebChatSpec => []WebChatTypeOK`, `WebChatSpec => ViewFollowsLog` |
| `StatusTypesKept`, `OneLiveSocket` | `StatusSpec => []StatusTypeOK`, `StatusSpec => []LiveSocketIsCurrent` |
| `DesktopTypesKept`, `ShellShowsService` | `DesktopSpec => []DesktopTypeOK`, `DesktopSpec => []ShownAsItIs /\ []NoneLeft` |

They hold for any runs, requests, clicks, sessions, messages, sends, fetches, sockets, loops and
attempts. `PromptInv` is about the socket: requests on it are in order and newer than the prompt
and than all that have been decided on (`RequestsAhead`); a click has one answer on it
(`AnswersOnce`); nobody waits for a request that a click has resolved (`Settled`); and a prompt
whose request was resolved has an answer to that click still to come (`PromptKept`, `Unheard`),
whatever other clicks on it failed. `ChatInv` says that each send ends once (`OneEnd`: its run
goes on, or its end is on the wire, or its messages are being fetched, or they are on the wire);
that a send which is `alone` has no other beside it in its session (`NoneBeside`); that the
messages fetched at the end of a send have all that its run stored, which nobody but that run
writes, and are the whole log if the send is alone (`Holds`, `RefreshIsLog`); and which four
things a user who does one at a time can be waiting for (`Waiting`): with nothing under way only
the first is left, and the view is the log.
`StatusInv`: a live socket is the current one *and* the one the effect owns, which the effect's
clean-up closes first. `DeskInv`: an answer under way is that of what serves, as long as
nothing has changed, and a helper is only started where nothing served.

The runs `workspace` and `connections` put modules side by side. `WorkspaceProofs` shows that
this is no more than it seems: a behaviour of the composition is one of each part it proves about
(`PartsAlone`), and so `WorkspaceTypesKept` (`MCSpec => []WorkspaceTypeOK`) follows from the
theorems of the parts: the file tools, the configuration, the messages shown and the subtasks,
which are those `WorkspaceTypeOK` names. In `MCConnections` the parts that are not chosen are *over*, which is no
initial state of theirs; `IdleParts` shows that their invariants hold there, and
`ConnectionsTypesKept` (`MCSpec => []ConnectionsTypeOK`) follows from what keeps them. Both rest on
`MCAssumption`, that an instance has the request, or the name, that the composition mentions.

### What is only model-checked

- All liveness: `EveryoneReturns`, `RunReturns`, `BreaksStayLocal`, and the parts of
  `CallsEnd`, `ClientComesBack` and `DesktopOpens` that say something happens. Of their safety
  parts, `NoProcessLeft`, `NoServerLeft`, `LiveSocketIsCurrent`, `ShownAsItIs` and `NoneLeft`
  are proved.

## Disagreements with the documents

Four runs end in a counterexample on purpose; `PROJECT.json` quotes the lines.

- `compaction_recent`: README.md:76 says that `AUTO_COMPACT_PRESERVE_RECENT` recent
  messages stay uncompressed. They do in the chat that compacts. The summary is appended
  *after* them, and every later chat reads only what follows the summary.
- `compaction_forced`: README.md:110 says that `/compact` forces a pass. It is subject to
  `AUTO_COMPACT` and to the message limit.
- `run_statuses`: `run.status` carries `tool_malformed`, and also
  `stopped_after_tool_failures`, which `AgentEvent` in `src/shared` does not have.
- `web_prompt`: PARITY.md:23 has the permission flow "Implemented", with tools that prompt
  for approval. `handlePermission` clears the prompt when the answer to its decision comes,
  and the next request of the same run may be shown by then: it waits, unseen, until it
  times out.

## Behaviours the models show

No document contradicts these; they are recorded because properties had to be stated
around them.

- A decision that arrives after the timer fired overwrites the stored `timeout` (the call
  has failed all the same). `SoleDecisionOnRecord` therefore speaks of answered calls.
- The second of two decisions about one request may block for ever in the send: no timer,
  no context. `EveryoneReturns` excludes it and `BlockedByRival` says it is the only case.
- The tool calls of older messages are in no summary: only texts and results are summarised.
  A failed run's calls without results are given to the model by the next run of the session.
- When the store fails in `ListMessages`, in the first save of an answer or in the save of
  the final text, the session says `started` for good. `OutcomeOnSession` and
  `SessionSettles` therefore speak of runs whose store calls succeeded.
- After a lost update, `LastRunID` and `LastRunStatus` can belong to different runs.
- `EditFile` and `ApplyPatch` overwrite what an editor or another call wrote while the
  permission was pending. The properties of `FileTools` speak of undisturbed calls.
- In degraded mode `ListMessages` copies the messages but not their parts, so a reader of
  the log sees a status change before it is saved, and reads it while the run writes it.
- Two broadcasts can write to one connection at once; the library then panics in one of
  the goroutines. `BreaksStayLocal` therefore says "returns or panics".
- An `add` in a patch overwrites a file that exists; a patch that names a file twice
  loses the first change.
- The text of a patch that ends inside `*** Delete File: path` or `*** Add File: path` names
  the path that begins so: that file is deleted, or written empty, if the user allows it.
- Of a new file in a patch, lines without `+` are dropped, but blank ones count, and the last
  line end is not written. Text before the first header, and a section without a path, are dropped silently;
  a line that looks like a marker cuts the text it stands in.
- The report of a subtask stands in the parent's log, as the assistant's, between a tool call
  and its result. Subtasks nest without limit. A subtask that fails yields two
  `tool_failed` events, its own and that of the call, and a permission denied inside it
  counts as a denial of the call. A `/task` whose subtask fails ends well for its own
  caller. A session whose `SaveSession` reported an error may be left, empty and unheard of.
- The rendering of a template depends on the map's order when a value holds a placeholder
  or one name begins another (`$file`, `$file_name`); `$10` is `$1` and a zero. A
  positional word fills the definition at its place even if earlier ones were given by name.
- Memories and symbols of one score and one label change places from run to run.
- Over stdio a server that speaks unasked makes the MCP client one message late; a silent
  one stops the call for as long as its context lives, which is for ever in `availableTools`.
  Two tools whose names sanitise to one are told apart by the order of a Go map.
- `Diagnostics` gives what was published for another file under the path it was asked for,
  and an empty list when the server ends. `close` says goodbye in a blocking write before it
  kills.
- README.md:78 lists the environment first and the repository's file third under "Config
  precedence"; in the code the repository's file wins over the user's, and that over the
  environment. The list can be read either way, and the text below it calls the files overlays
  that "can override", so this is no disagreement the project counts.
- A long number in the environment wraps and may come out as any positive limit.
- After a failed run the web client does not show the user's own prompt. In degraded mode
  every poll clears the selected session. Answers that come after the user has selected
  another session overwrite the view until the next refresh. A second send into a session whose
  run goes on is possible; the refresh at the end of the first may have been read before messages
  of the second that its events have already shown, and takes them away until the next refresh.
  Each click on a prompt is a decision of its own, and its answer clears whatever prompt is shown
  by then. A second request replaces the prompt of the first; one that timed out stays. A service
  that restarts between two polls leaves the client without a socket until the next change of its
  phase.
- A connection that breaks in the middle of the status answer leaves the desktop shell
  without a window: no callback settles the request. A helper that is not the first to bind
  the port ends, and the shell goes on with the service that is there.

## What is not modelled

- The HTTP decoding, the Ollama client, the shell tool, the entry points and the audit
  scripts: I/O around one call, without state of their own. Their outcomes are choices in
  the models that use them.
- The repository index and the graph store: queries to Neo4j, whose errors the code ignores;
  nothing here decides on what they left behind. Retrieval is modelled from the point where
  its matches are merged.
- The inside of built-in commands besides `/task` and `/compact`, each of which calls one
  operation and prints; the side panels of the web client, each one request and one
  assignment; formatting, wording and previews.
- The torn read of a message's status in degraded mode, and the order of a MongoDB log by
  `createdAt` instead of by the saves.
- `LoadConfig` of the MCP and LSP clients, one read of a file. (The wrapped form
  `{"servers": ...}` of `.opencode/mcp.json.example` reads as one server of that name.)
- `src/upstream`: more than nine tenths of the repository's lines, the source of two other
  programs kept for comparison. Nothing builds it or calls it.

## Plan

Done: all modules above, and proofs about all of them.

What is left, the most useful first:

1. `AgentRun` composed with `PermissionBroker`: a tool call of a run as one of `Calls`, with
   a broadcast that panics (`EventHub`) as one more way for a run to end.
2. Abstract specifications: a log that only grows with a pointer into it (`Compaction`), a
   file set under whole-plan updates (`FileTools`), one answer per request (`McpClient`).
3. The order of the stored log by `createdAt`, with clocks of milliseconds.
