--------------------------- MODULE ConnectionsProofs ---------------------------
(***************************************************************************)
(* What holds of the service's ends of its connections: of the event hub   *)
(* for every number of sockets, broadcasting goroutines and events; of a   *)
(* call to an MCP server, and of the tools that are offered, for every     *)
(* server however much it says unasked; of a call to a language server for *)
(* every number of files and every pipe.                                   *)
(***************************************************************************)
EXTENDS MCConnections, ClientProofs, FiniteSetTheorems, WellFoundedInduction

-----------------------------------------------------------------------------
(* The event hub *)

\* The casters in the loop are those that hold the read lock: RUnlock is
\* deferred, so a broadcast that panics gives it up too.
LockHeld == readers = {b \in Casters : bpc[b] \in {"iterating", "writing"}}

\* WritesToClients is not inductive alone: that Add and Remove find nobody in
\* the loop follows from LockHeld.
HubInv == TypeOK /\ LockHeld /\ WritesToClients

\* The hub starts without connections and with the lock free.
LEMMA InitHubInv == Init => HubInv
<1> SUFFICES ASSUME Init PROVE HubInv
  OBVIOUS
<1> USE HubAssumption DEF Init
<1>1. TypeOK
  BY DEF TypeOK, HandlerPcs, CasterPcs
<1>2. LockHeld /\ WritesToClients
  BY DEF LockHeld, WritesToClients
<1> QED BY <1>1, <1>2 DEF HubInv

\* A handler's step preserves the invariant: the connections change under the
\* write lock only.
LEMMA HandlerKeepsHubInv ==
  ASSUME HubInv, NEW c \in Conns, Connect(c) \/ Handler(c)
  PROVE  HubInv'
<1> USE HubAssumption DEF HubInv, lock, network, library, caster, Set, HandlerMoves
<1>1. CASE Connect(c)
  BY <1>1 DEF Connect, TypeOK, LockHeld, WritesToClients, HandlerPcs, CasterPcs
<1>2. CASE AnnounceWriter(c)
  BY <1>2 DEF AnnounceWriter, TypeOK, LockHeld, WritesToClients, HandlerPcs, CasterPcs
<1>3. CASE Add(c) \/ Remove(c)
  <2>1. readers = {} /\ bpc' = bpc /\ todo' = todo /\ at' = at /\ readers' = readers
    BY <1>3 DEF Add, Remove, HasLock
  <2>2. \A b \in Casters : bpc[b] \notin {"iterating", "writing"}
    BY <2>1 DEF LockHeld
  <2>3. TypeOK'
    BY <1>3 DEF Add, Remove, HasLock, TypeOK, HandlerPcs, CasterPcs
  <2>4. LockHeld' /\ WritesToClients'
    BY <2>1, <2>2 DEF LockHeld, WritesToClients
  <2> QED BY <2>3, <2>4
<1>4. CASE ReadEnds(c)
  BY <1>4 DEF ReadEnds, TypeOK, LockHeld, WritesToClients, HandlerPcs, CasterPcs
<1>5. CASE CloseConn(c)
  BY <1>5 DEF CloseConn, TypeOK, LockHeld, WritesToClients, HandlerPcs, CasterPcs
<1> QED BY <1>1, <1>2, <1>3, <1>4, <1>5 DEF Handler

\* The step of EndWrite, which ends a write well or badly, on the lock and the
\* place of the caster.
LEMMA EndWriteKeeps ==
  ASSUME HubInv, NEW b \in Casters, EndWrite(b, "iterating"),
         UNCHANGED <<clients, todo, at>>
  PROVE  /\ at[b] \in Conns
         /\ readers' \subseteq Casters /\ isWriting' \subseteq Conns
         /\ bpc' \in [Casters -> CasterPcs]
         /\ LockHeld' /\ WritesToClients'
<1> USE DEF HubInv, EndWrite, CasterMoves, Set
<1>1. at[b] \in Conns
  BY DEF TypeOK, WritesToClients
<1>2. readers' \subseteq Casters /\ isWriting' \subseteq Conns /\ bpc' \in [Casters -> CasterPcs]
  BY DEF TypeOK, CasterPcs
<1>3. LockHeld'
  BY DEF TypeOK, LockHeld
<1>4. WritesToClients'
  BY DEF TypeOK, WritesToClients
<1> QED BY <1>1, <1>2, <1>3, <1>4

\* A broadcaster's step preserves the invariant: what it has still to write to
\* was taken from the hub under the read lock it holds.
LEMMA CasterKeepsHubInv ==
  ASSUME HubInv, NEW b \in Casters, Broadcast(b) \/ Casting(b)
  PROVE  HubInv'
<1> USE HubAssumption DEF HubInv, lock, network, library, caster, Set
<1>1. CASE Broadcast(b)
  BY <1>1 DEF Broadcast, CasterMoves, TypeOK, LockHeld, WritesToClients, HandlerPcs, CasterPcs
<1>2. CASE Enter(b)
  <2>1. TypeOK'
    BY <1>2 DEF Enter, CasterMoves, TypeOK, HandlerPcs, CasterPcs
  <2>2. LockHeld' /\ WritesToClients'
    BY <1>2 DEF Enter, CasterMoves, TypeOK, LockHeld, WritesToClients
  <2> QED BY <2>1, <2>2
<1>3. ASSUME NEW c \in Conns, StartWrite(b, c) PROVE HubInv'
  <2>1. TypeOK'
    BY <1>3 DEF StartWrite, CasterMoves, TypeOK, HandlerPcs, CasterPcs
  <2>2. LockHeld' /\ WritesToClients'
    BY <1>3 DEF StartWrite, CasterMoves, TypeOK, LockHeld, WritesToClients
  <2> QED BY <2>1, <2>2
<1>4. ASSUME NEW c \in Conns, Collide(b, c) PROVE HubInv'
  <2>1. TypeOK'
    BY <1>4 DEF Collide, CasterMoves, TypeOK, HandlerPcs, CasterPcs
  <2>2. LockHeld' /\ WritesToClients'
    BY <1>4 DEF Collide, CasterMoves, TypeOK, LockHeld, WritesToClients
  <2> QED BY <2>1, <2>2
<1>5. CASE FinishWrite(b)
  <2>1. EndWrite(b, "iterating") /\ UNCHANGED <<clients, todo, at>>
    BY <1>5 DEF FinishWrite
  <2>2. /\ at[b] \in Conns /\ readers' \subseteq Casters /\ isWriting' \subseteq Conns
        /\ bpc' \in [Casters -> CasterPcs] /\ LockHeld' /\ WritesToClients'
    BY <2>1, EndWriteKeeps
  <2>3. wire' \in [Conns -> 0..Cap]
    BY <1>5, <2>2 DEF FinishWrite, TypeOK
  <2>4. TypeOK'
    BY <1>5, <2>2, <2>3 DEF FinishWrite, TypeOK
  <2> QED BY <2>2, <2>4
<1>6. CASE WriteFails(b)
  <2>1. EndWrite(b, "iterating") /\ UNCHANGED <<clients, todo, at>>
    BY <1>6 DEF WriteFails
  <2>2. /\ at[b] \in Conns /\ readers' \subseteq Casters /\ isWriting' \subseteq Conns
        /\ bpc' \in [Casters -> CasterPcs] /\ LockHeld' /\ WritesToClients'
    BY <2>1, EndWriteKeeps
  <2>3. TypeOK'
    BY <1>6, <2>2 DEF WriteFails, TypeOK
  <2> QED BY <2>2, <2>3
<1>7. CASE Leave(b)
  BY <1>7 DEF Leave, CasterMoves, TypeOK, LockHeld, WritesToClients, HandlerPcs, CasterPcs
<1> QED BY <1>1, <1>2, <1>3, <1>4, <1>5, <1>6, <1>7 DEF Casting

\* The peers change nothing the invariant relates.
LEMMA PeerKeepsHubInv ==
  ASSUME HubInv, NEW c \in Conns, NEW how \in {"left", "lost"},
         Receive(c) \/ PeerGoes(c, how)
  PROVE  HubInv'
<1> USE HubAssumption DEF HubInv, lock, network, library, caster, Set
<1>1. CASE Receive(c)
  BY <1>1 DEF Receive, TypeOK, LockHeld, WritesToClients
<1>2. CASE PeerGoes(c, how)
  BY <1>2 DEF PeerGoes, TypeOK, LockHeld, WritesToClients
<1> QED BY <1>1, <1>2

\* Every step, or none, preserves the invariant.
LEMMA NextKeepsHubInv == HubInv /\ [Next]_vars => HubInv'
<1> SUFFICES ASSUME HubInv, [Next]_vars PROVE HubInv'
  OBVIOUS
<1>1. CASE UNCHANGED vars
  BY <1>1 DEF HubInv, vars, lock, network, library, caster, TypeOK, LockHeld, WritesToClients
<1>2. ASSUME NEW c \in Conns, Connect(c) \/ Handler(c) PROVE HubInv'
  BY <1>2, HandlerKeepsHubInv
<1>3. ASSUME NEW b \in Casters, Broadcast(b) \/ Casting(b) PROVE HubInv'
  BY <1>3, CasterKeepsHubInv
<1>4. ASSUME NEW c \in Conns, NEW how \in {"left", "lost"}, Receive(c) \/ PeerGoes(c, how)
      PROVE HubInv'
  BY <1>4, PeerKeepsHubInv
<1> QED BY <1>1, <1>2, <1>3, <1>4 DEF Next

\* The invariant holds in every state.
LEMMA HubInvAlways == Spec => []HubInv
<1> QED BY InitHubInv, NextKeepsHubInv, PTL DEF Spec

\* Every variable of the hub keeps its type.
THEOREM HubTypeCorrect == Spec => []TypeOK
<1>1. HubInv => TypeOK
  BY DEF HubInv
<1> QED BY <1>1, HubInvAlways, PTL

\* No broadcast writes to a connection that has been removed from the hub.
THEOREM NoWriteAfterRemove == Spec => []WritesToClients
<1>1. HubInv => WritesToClients
  BY DEF HubInv
<1> QED BY <1>1, HubInvAlways, PTL

\* While a caster is in the loop, a connection of the hub is still on its list,
\* is the one it writes to, got the event, or has failed a write.
Accounted ==
  \A b \in readers : \A c \in clients :
    \/ c \in todo[b] \cup delivered[b] \cup failed
    \/ bpc[b] = "writing" /\ c = at[b]

\* No step loses a connection from a loop: the hub has the same connections from
\* RLock to RUnlock.
LEMMA NextKeepsAccounted == HubInv /\ Accounted /\ [Next]_vars => Accounted'
<1> SUFFICES ASSUME HubInv, Accounted, [Next]_vars PROVE Accounted'
  OBVIOUS
<1> USE DEF HubInv, lock, network, library, caster, Set
<1>1. CASE UNCHANGED vars
  BY <1>1 DEF vars, Accounted
<1>2. ASSUME NEW c \in Conns, Connect(c) \/ Handler(c) PROVE Accounted'
  <2>1. CASE Add(c) \/ Remove(c)
    BY <2>1 DEF Add, Remove, HasLock, Accounted
  <2>2. CASE ~(Add(c) \/ Remove(c))
    BY <1>2, <2>2 DEF Handler, Connect, AnnounceWriter, ReadEnds, CloseConn, Accounted
  <2> QED BY <2>1, <2>2
<1>3. ASSUME NEW b \in Casters, Broadcast(b) \/ Enter(b) PROVE Accounted'
  BY <1>3 DEF Broadcast, Enter, CasterMoves, TypeOK, LockHeld, Accounted
<1>4. ASSUME NEW b \in Casters, NEW c \in Conns, StartWrite(b, c) \/ Collide(b, c)
      PROVE Accounted'
  BY <1>4 DEF StartWrite, Collide, CasterMoves, TypeOK, LockHeld, Accounted
<1>5. ASSUME NEW b \in Casters, FinishWrite(b) PROVE Accounted'
  BY <1>5 DEF FinishWrite, EndWrite, CasterMoves, TypeOK, LockHeld, Accounted
<1>6. ASSUME NEW b \in Casters, WriteFails(b) PROVE Accounted'
  BY <1>6 DEF WriteFails, EndWrite, CasterMoves, TypeOK, LockHeld, Accounted
<1>7. ASSUME NEW b \in Casters, Leave(b) PROVE Accounted'
  BY <1>7 DEF Leave, CasterMoves, TypeOK, LockHeld, Accounted
<1>8. ASSUME NEW c \in Conns, NEW how \in {"left", "lost"}, Receive(c) \/ PeerGoes(c, how)
      PROVE Accounted'
  BY <1>8 DEF Receive, PeerGoes, Accounted
<1> QED BY <1>1, <1>2, <1>3, <1>4, <1>5, <1>6, <1>7, <1>8 DEF Next, Casting

\* A caster goes from the loop to "idle" by Leave only, with nothing left to write.
LEMMA OnlyLeaveEnds ==
  ASSUME TypeOK, [Next]_vars, NEW b \in Casters, bpc[b] = "iterating", bpc'[b] = "idle"
  PROVE  todo[b] = {}
<1> USE DEF lock, network, library, caster, Set
<1>1. CASE UNCHANGED vars
  BY <1>1 DEF vars
<1>2. ASSUME NEW c \in Conns, Connect(c) \/ Handler(c) \/ Receive(c) PROVE FALSE
  BY <1>2 DEF Connect, Handler, AnnounceWriter, Add, ReadEnds, Remove, CloseConn, Receive
<1>3. ASSUME NEW c \in Conns, NEW how \in {"left", "lost"}, PeerGoes(c, how) PROVE FALSE
  BY <1>3 DEF PeerGoes
<1>4. ASSUME NEW o \in Casters, Broadcast(o) \/ Casting(o) PROVE todo[b] = {}
  <2>1. CASE Leave(o)
    BY <2>1 DEF Leave, CasterMoves, TypeOK
  <2>2. CASE ~Leave(o)
    <3>1. bpc' = [bpc EXCEPT ![o] = bpc'[o]] /\ bpc'[o] # "idle"
      BY <1>4, <2>2 DEF Broadcast, Casting, Enter, StartWrite, Collide, FinishWrite,
                        WriteFails, EndWrite, CasterMoves, TypeOK
    <3> QED BY <3>1 DEF TypeOK
  <2> QED BY <2>1, <2>2
<1> QED BY <1>1, <1>2, <1>3, <1>4 DEF Next

\* A broadcast that ends has served every connection that is still good.
THEOREM ServesEveryClient == Spec => EveryClientServed
<1>1. Init => HubInv /\ Accounted
  BY InitHubInv DEF Init, Accounted
<1>2. HubInv /\ Accounted /\ [Next]_vars => (HubInv /\ Accounted)'
  BY NextKeepsHubInv, NextKeepsAccounted
<1>3. ASSUME HubInv, Accounted, [Next]_vars
      PROVE \A b \in Casters :
              bpc[b] = "iterating" /\ bpc'[b] = "idle" =>
                \A c \in clients : c \in delivered[b] \/ c \in failed
  <2> SUFFICES ASSUME NEW b \in Casters, bpc[b] = "iterating", bpc'[b] = "idle",
                      NEW c \in clients
               PROVE  c \in delivered[b] \/ c \in failed
    OBVIOUS
  <2>1. todo[b] = {}
    BY <1>3, OnlyLeaveEnds DEF HubInv
  <2>2. b \in readers
    BY <1>3 DEF HubInv, LockHeld
  <2> QED BY <1>3, <2>1, <2>2 DEF Accounted
<1>4. HubInv /\ Accounted /\ [Next]_vars =>
        [\A b \in Casters :
           bpc[b] = "iterating" /\ bpc'[b] = "idle" =>
             \A c \in clients : c \in delivered[b] \/ c \in failed]_vars
  BY <1>3
<1> QED BY <1>1, <1>2, <1>4, PTL DEF Spec, EveryClientServed

-----------------------------------------------------------------------------
(* Calls to MCP servers, and their tools *)

\* What is on its way says what its id stands for; http has no greeting.
WireForm ==
  /\ \A i \in 1..Len(toClient) :
       /\ toClient[i].says = "initialize" => toClient[i].id = 1 /\ transport # "http"
       /\ toClient[i].says = "call" => toClient[i].id = 2
  /\ \A i \in 1..Len(toServer) : transport = "http" => toServer[i].method = "call"
  /\ transport = "http" => call \notin {"greet", "greeted", "confirm"}
  /\ call = "discover" => transport = "sse"

\* Over stdio, a server that speaks only when asked never makes the client late:
\* one message at a time is under way in the greeting, and none of it after it.
InTime ==
  unasked = 0 /\ transport = "stdio" =>
    /\ call \in {"start", "greet"} => Len(toServer) = 0 /\ Len(toClient) = 0
    /\ call = "greeted" =>
         /\ Len(toServer) + Len(toClient) <= 1
         /\ \A i \in 1..Len(toServer) : toServer[i].id = 1
         /\ \A i \in 1..Len(toClient) : toClient[i].id = 1
    /\ call \in {"confirm", "request", "requested"} =>
         /\ \A i \in 1..Len(toServer) : toServer[i].id # 1
         /\ \A i \in 1..Len(toClient) : toClient[i].id # 1

\* The request is not sent before the greeting is over, which a server that
\* speaks only when asked has then answered.
GreetedFirst ==
  /\ call \in {"start", "discover", "greet", "greeted", "confirm"} /\ transport # "http" =>
       \A i \in 1..Len(toServer) : toServer[i].method # "call"
  /\ unasked = 0 =>
       /\ \A i \in 1..Len(toClient) :
            /\ toClient[i].says \in {"initialize", "call", "error"}
            /\ toClient[i].says = "initialize" => "initialize" \in answered
       /\ call \in {"confirm", "request", "requested"} /\ transport # "http" =>
            "initialize" \in answered

\* AnswersFit is not inductive: what the client returns depends on what is still
\* on its way when it asks.
McpInv == McpTypeOK /\ WireForm /\ InTime /\ GreetedFirst /\ AnswersFit

-----------------------------------------------------------------------------
(* Messages *)

IsSent(m) ==
  /\ m.method \in {"initialize", "initialized", "call"}
  /\ m.id = CASE m.method = "initialize" -> 1 [] m.method = "call" -> 2 [] OTHER -> 0

IsSaid(m) ==
  /\ m = Says(m.says, m.id)
  /\ m.says \in {"initialize", "call", "error", "nothing", "broken", "endpoint"}
  /\ m.id \in 0..2

\* What the two sides may say.
LEMMA SentForm == \A m \in Requests : IsSent(m)
  BY DEF Requests, Sent, IsSent

\* And the server.
LEMMA SaidForm == \A m \in Answers \cup Unasked : IsSaid(m)
  BY DEF Answers, Unasked, Says, IsSaid

\* The wires hold nothing else.
LEMMA WireTypes ==
  ASSUME McpTypeOK
  PROVE  /\ Len(toServer) \in Nat /\ Len(toClient) \in Nat
         /\ \A i \in 1..Len(toServer) : toServer[i] \in Requests /\ IsSent(toServer[i])
         /\ \A i \in 1..Len(toClient) : toClient[i] \in Answers \cup Unasked /\ IsSaid(toClient[i])
  BY LenProperties, ElementOfSeq, SentForm, SaidForm DEF McpTypeOK

\* What the client takes from the wire came first, and the rest moves up.
LEMMA ClientTakes ==
  ASSUME McpTypeOK, toClient # <<>>, toClient' = Tail(toClient)
  PROVE  /\ toClient' \in Seq(Answers \cup Unasked)
         /\ Len(toClient') = Len(toClient) - 1
         /\ \A i \in 1..Len(toClient') : i + 1 \in 1..Len(toClient) /\ toClient'[i] = toClient[i + 1]
<1>1. toClient \in Seq(Answers \cup Unasked) /\ Len(toClient) \in Nat
  BY WireTypes DEF McpTypeOK
<1>2. /\ toClient' \in Seq(Answers \cup Unasked)
      /\ Len(toClient') = Len(toClient) - 1
      /\ \A i \in 1..Len(toClient') : toClient'[i] = toClient[i + 1]
  BY <1>1, HeadTailProperties
<1> QED BY <1>1, <1>2

\* What the client reads comes first, and is something the server said.
LEMMA ClientSees ==
  ASSUME McpTypeOK, toClient # <<>>
  PROVE  /\ 1 \in 1..Len(toClient) /\ Head(toClient) = toClient[1]
         /\ Head(toClient) \in Answers \cup Unasked /\ IsSaid(Head(toClient))
<1>1. toClient \in Seq(Answers \cup Unasked)
  BY DEF McpTypeOK
<1>2. Len(toClient) \in Nat \ {0}
  BY <1>1, EmptySeq
<1> QED BY <1>1, <1>2, WireTypes, HeadTailProperties

\* So does the server.
LEMMA ServerTakes ==
  ASSUME McpTypeOK, toServer # <<>>, toServer' = Tail(toServer)
  PROVE  /\ 1 \in 1..Len(toServer) /\ Head(toServer) = toServer[1]
         /\ Head(toServer) \in Requests /\ IsSent(Head(toServer))
         /\ toServer' \in Seq(Requests)
         /\ Len(toServer') = Len(toServer) - 1
         /\ \A i \in 1..Len(toServer') : i + 1 \in 1..Len(toServer) /\ toServer'[i] = toServer[i + 1]
<1>1. toServer \in Seq(Requests)
  BY DEF McpTypeOK
<1>2. Len(toServer) \in Nat \ {0}
  BY <1>1, EmptySeq
<1>3. /\ Head(toServer) \in Requests /\ toServer' \in Seq(Requests)
      /\ Len(toServer') = Len(toServer) - 1
      /\ \A i \in 1..Len(toServer') : toServer'[i] = toServer[i + 1]
  BY <1>1, HeadTailProperties
<1>4. Head(toServer) = toServer[1]
  BY <1>1, <1>2
<1> QED BY <1>2, <1>3, <1>4, SentForm

\* What is said comes last.
LEMMA ServerSays ==
  ASSUME McpTypeOK, NEW m \in Answers \cup Unasked, toClient' = Append(toClient, m)
  PROVE  /\ toClient' \in Seq(Answers \cup Unasked)
         /\ Len(toClient') = Len(toClient) + 1
         /\ \A i \in 1..Len(toClient') :
              (i \in 1..Len(toClient) /\ toClient'[i] = toClient[i]) \/ toClient'[i] = m
  BY WireTypes, AppendProperties DEF McpTypeOK

\* The same for what the client writes.
LEMMA ClientSays ==
  ASSUME McpTypeOK, NEW m \in Requests, toServer' = Append(toServer, m)
  PROVE  /\ toServer' \in Seq(Requests)
         /\ Len(toServer') = Len(toServer) + 1
         /\ \A i \in 1..Len(toServer') :
              (i \in 1..Len(toServer) /\ toServer'[i] = toServer[i]) \/ toServer'[i] = m
  BY WireTypes, AppendProperties DEF McpTypeOK

\* What the client writes, and where it goes on.
LEMMA WritesForm ==
  ASSUME call \in DOMAIN Writes
  PROVE  /\ call \in {"greet", "confirm", "request"}
         /\ Writes[call] \in Requests
         /\ call = "greet" => Writes[call].method = "initialize" /\ AfterWrite[call] = "greeted"
         /\ call = "confirm" => Writes[call].method = "initialized" /\ AfterWrite[call] = "request"
         /\ call = "request" => Writes[call].method = "call" /\ AfterWrite[call] = "requested"
  BY DEF Writes, AfterWrite, Requests, Sent

-----------------------------------------------------------------------------
(* Steps *)

\* Nothing has been said.
LEMMA InitMcpInv == McpInit => McpInv
<1> SUFFICES ASSUME McpInit PROVE McpInv
  OBVIOUS
<1> USE McpAssumption DEF McpInit
<1>1. /\ toServer \in Seq(Requests) /\ toClient \in Seq(Answers \cup Unasked)
      /\ Len(toServer) = 0 /\ Len(toClient) = 0
  BY EmptySeq
<1>2. Nothing \in Answers \cup Unasked
  BY DEF Nothing, Unasked
<1>3. McpTypeOK
  BY <1>1, <1>2 DEF McpTypeOK, Transports, CallPcs
<1>4. WireForm /\ InTime
  BY <1>1 DEF WireForm, InTime
<1>5. GreetedFirst /\ AnswersFit
  BY <1>1 DEF GreetedFirst, AnswersFit, OkIsAnswered, GreetsFirst
<1> QED BY <1>3, <1>4, <1>5 DEF McpInv

\* A call may end without an answer at any place.
LEMMA FailsKeeps ==
  ASSUME McpInv, call # "done", Fails
  PROVE  McpInv'
<1>1. /\ call' = "done" /\ verdict' = "error" /\ server' \in {"gone", server}
      /\ transport' = transport /\ messageURL' = messageURL /\ endless' = endless
      /\ ctx' = ctx /\ toServer' = toServer /\ toClient' = toClient /\ stderr' = stderr
      /\ answered' = answered /\ unasked' = unasked /\ taken' = taken
  BY DEF Fails, Return, Killed, settings, wires
<1>2. McpTypeOK'
  BY <1>1 DEF McpInv, McpTypeOK, CallPcs
<1>3. WireForm' /\ InTime'
  BY <1>1 DEF McpInv, WireForm, InTime
<1>4. GreetedFirst' /\ AnswersFit'
  BY <1>1 DEF McpInv, GreetedFirst, AnswersFit, OkIsAnswered, GreetsFirst
<1> QED BY <1>2, <1>3, <1>4 DEF McpInv

\* It may take the message that comes next for its answer; over sse, where ids
\* are compared, only one with the id of the request.
LEMMA AcceptKeeps ==
  ASSUME McpInv, call = "requested", toClient # <<>>,
         transport = "sse" => Head(toClient).id = 2,
         Accept(Head(toClient))
  PROVE  McpInv'
<1> DEFINE m == Head(toClient)
<1>1. /\ call' = "done" /\ verdict' = (IF Parses(m) THEN "ok" ELSE "error")
      /\ server' \in {"gone", server}
      /\ transport' = transport /\ messageURL' = messageURL /\ endless' = endless
      /\ ctx' = ctx /\ toServer' = toServer /\ toClient' = toClient /\ stderr' = stderr
      /\ answered' = answered /\ unasked' = unasked /\ taken' = m
  BY DEF Accept, Return, Killed, settings, wires
<1>2. /\ 1 \in 1..Len(toClient) /\ m = toClient[1]
      /\ m \in Answers \cup Unasked /\ IsSaid(m)
  BY ClientSees DEF McpInv
<1>3. McpTypeOK'
  BY <1>1, <1>2 DEF McpInv, McpTypeOK, CallPcs
<1>4. WireForm' /\ InTime'
  BY <1>1 DEF McpInv, WireForm, InTime
<1>5. GreetedFirst' /\ GreetsFirst'
  BY <1>1 DEF McpInv, GreetedFirst, AnswersFit, GreetsFirst
<1>6. OkIsAnswered'
  <2>1. CASE m.says = "call"
    <3>1. m = Says("call", 2)
      BY <2>1, <1>2 DEF McpInv, WireForm, IsSaid
    <3> QED BY <3>1, <1>1 DEF OkIsAnswered
  <2>2. CASE m.says = "initialize"
    <3>1. m = Says("initialize", 1) /\ m.id = 1 /\ transport # "http"
      BY <2>2, <1>2 DEF McpInv, WireForm, IsSaid
    <3>2. transport = "stdio"
      BY <3>1 DEF McpInv, McpTypeOK, Transports
    <3>3. unasked # 0 /\ unasked \in Nat
      BY <3>1, <3>2, <1>2, McpAssumption DEF McpInv, InTime, McpTypeOK
    <3> QED BY <3>1, <3>2, <3>3, <1>1 DEF OkIsAnswered
  <2>3. CASE ~Parses(m)
    BY <2>3, <1>1 DEF OkIsAnswered
  <2> QED BY <2>1, <2>2, <2>3 DEF Parses
<1> QED BY <1>3, <1>4, <1>5, <1>6 DEF McpInv, AnswersFit

\* Steps that leave the wires alone.
LEMMA QuietKeeps ==
  ASSUME McpInv, Start \/ Open \/ Deadline \/ ContextEnds \/ Log \/ ServerStops
  PROVE  McpInv'
<1> USE McpAssumption DEF settings, wires, mcpServer
<1>1. /\ transport' = transport /\ toServer' = toServer /\ toClient' = toClient
      /\ answered' = answered /\ unasked' = unasked /\ taken' = taken /\ verdict' = verdict
  BY DEF Start, Open, Deadline, ContextEnds, Log, ServerStops
<1>2. \/ call' = call
      \/ call = "start" /\ transport = "stdio" /\ call' = "greet"
      \/ call = "start" /\ transport = "http" /\ call' = "request"
      \/ call = "start" /\ transport = "sse" /\ call' \in {"discover", "greet"}
  BY DEF Start, Open, Remote, Deadline, ContextEnds, Log, ServerStops
<1>3. McpTypeOK'
  <2>1. /\ messageURL' = messageURL /\ endless' = endless
        /\ ctx' \in {"live", "done"}
        /\ server' \in {"down", "up", "silent", "gone"} /\ stderr' \in 0..StderrCap
    BY DEF Start, Open, Deadline, ContextEnds, Log, ServerStops, Killed, Able, McpInv, McpTypeOK
  <2> QED BY <2>1, <1>1, <1>2 DEF McpInv, McpTypeOK, CallPcs
<1>4. WireForm' /\ InTime'
  BY <1>1, <1>2 DEF McpInv, WireForm, InTime
<1>5. GreetedFirst' /\ AnswersFit'
  BY <1>1, <1>2 DEF McpInv, GreetedFirst, AnswersFit, OkIsAnswered, GreetsFirst
<1> QED BY <1>3, <1>4, <1>5 DEF McpInv

\* A message is written, or posted.
LEMMA WriteKeeps ==
  ASSUME McpInv, WriteMessage \/ Post
  PROVE  McpInv'
<1> USE McpAssumption DEF settings, wires, mcpServer
<1> DEFINE m == Writes[call]
<1>1. /\ call \in DOMAIN Writes
      /\ toServer' = Append(toServer, m) /\ call' = AfterWrite[call]
      /\ transport' = transport /\ messageURL' = messageURL /\ endless' = endless
      /\ ctx' = ctx /\ toClient' = toClient /\ server' = server /\ stderr' = stderr
      /\ answered' = answered /\ unasked' = unasked /\ taken' = taken /\ verdict' = verdict
  BY DEF WriteMessage, Post
<1>2. /\ call \in {"greet", "confirm", "request"} /\ m \in Requests
      /\ call = "greet" => m.method = "initialize" /\ call' = "greeted"
      /\ call = "confirm" => m.method = "initialized" /\ call' = "request"
      /\ call = "request" => m.method = "call" /\ call' = "requested"
  BY <1>1, WritesForm
<1>3. IsSent(m)
  BY <1>2, SentForm
<1>4. /\ toServer' \in Seq(Requests)
      /\ Len(toServer') = Len(toServer) + 1
      /\ \A i \in 1..Len(toServer') :
           (i \in 1..Len(toServer) /\ toServer'[i] = toServer[i]) \/ toServer'[i] = m
  BY <1>1, <1>2, ClientSays DEF McpInv
<1>5. Len(toServer) \in Nat /\ Len(toClient) \in Nat
  BY WireTypes DEF McpInv
<1> HIDE DEF m
<1>6. McpTypeOK'
  BY <1>1, <1>2, <1>4 DEF McpInv, McpTypeOK, CallPcs
<1>7. WireForm'
  BY <1>1, <1>2, <1>4 DEF McpInv, WireForm
<1>8. InTime'
  <2> SUFFICES ASSUME unasked = 0, transport = "stdio" PROVE InTime'
    BY <1>1 DEF InTime
  <2>1. CASE call = "greet"
    BY <2>1, <1>1, <1>2, <1>3, <1>4, <1>5 DEF McpInv, InTime, IsSent
  <2>2. CASE call \in {"confirm", "request"}
    BY <2>2, <1>1, <1>2, <1>3, <1>4 DEF McpInv, InTime, IsSent
  <2> QED BY <2>1, <2>2, <1>2
<1>9. GreetedFirst'
  BY <1>1, <1>2, <1>4 DEF McpInv, GreetedFirst
<1>10. GreetsFirst'
  <2> SUFFICES ASSUME NEW i \in 1..Len(toServer'), toServer'[i].method = "call"
               PROVE  transport = "http" \/ unasked > 0 \/ "initialize" \in answered
    BY <1>1, <1>4, LenProperties DEF GreetsFirst
  <2>1. CASE i \in 1..Len(toServer) /\ toServer'[i] = toServer[i]
    BY <2>1, LenProperties DEF McpInv, AnswersFit, GreetsFirst, McpTypeOK
  <2>2. CASE toServer'[i] = m
    BY <2>2, <1>2 DEF McpInv, GreetedFirst, McpTypeOK
  <2> QED BY <2>1, <2>2, <1>4
<1>11. OkIsAnswered'
  BY <1>1 DEF McpInv, AnswersFit, OkIsAnswered
<1> QED BY <1>6, <1>7, <1>8, <1>9, <1>10, <1>11 DEF McpInv, AnswersFit

\* A message is taken and the call goes on, or stays where it is.
LEMMA TakeKeeps ==
  ASSUME McpInv, toClient # <<>>, toClient' = Tail(toClient),
         toServer' = toServer, UNCHANGED <<settings, ctx, mcpServer, verdict>>,
         \/ /\ call \in {"discover", "greeted", "requested"}
            /\ call' = call /\ taken' = taken /\ transport = "sse"
         \/ /\ call = "discover" /\ call' = "greet" /\ taken' = taken /\ transport = "sse"
         \/ /\ call = "greeted" /\ call' = "confirm" /\ taken' = Head(toClient)
            /\ transport = "sse" => Head(toClient).id = 1
            /\ Head(toClient).says # "error"
  PROVE  McpInv'
<1> USE McpAssumption DEF settings, mcpServer
<1>1. /\ transport' = transport /\ messageURL' = messageURL /\ endless' = endless
      /\ ctx' = ctx /\ server' = server /\ stderr' = stderr
      /\ answered' = answered /\ unasked' = unasked /\ verdict' = verdict
  OBVIOUS
<1>2. /\ toClient' \in Seq(Answers \cup Unasked)
      /\ Len(toClient') = Len(toClient) - 1
      /\ \A i \in 1..Len(toClient') : i + 1 \in 1..Len(toClient) /\ toClient'[i] = toClient[i + 1]
  BY ClientTakes DEF McpInv
<1>3. /\ 1 \in 1..Len(toClient) /\ Head(toClient) = toClient[1]
      /\ Head(toClient) \in Answers \cup Unasked /\ IsSaid(Head(toClient))
  BY ClientSees DEF McpInv
<1>4. Len(toServer) \in Nat /\ Len(toClient) \in Nat
  BY WireTypes DEF McpInv
<1>5. call' = call \/ (call = "discover" /\ call' = "greet") \/ (call = "greeted" /\ call' = "confirm")
  OBVIOUS
<1>6. McpTypeOK'
  BY <1>1, <1>2, <1>3, <1>5 DEF McpInv, McpTypeOK, CallPcs
<1>7. WireForm'
  BY <1>1, <1>2, <1>5 DEF McpInv, WireForm
<1>8. InTime'
  <2> SUFFICES ASSUME unasked = 0, transport = "stdio" PROVE InTime'
    BY <1>1 DEF InTime
  <2>1. call = "greeted" /\ call' = "confirm"
    OBVIOUS
  <2>2. Len(toServer) = 0 /\ Len(toClient') = 0
    BY <2>1, <1>2, <1>3, <1>4 DEF McpInv, InTime
  <2>3. Len(toServer') = 0
    BY <2>2
  <2>4. 1..Len(toServer') = {} /\ 1..Len(toClient') = {}
    <3>1. 1..0 = {}
      OBVIOUS
    <3> QED BY <2>2, <2>3, <3>1, Zenon
  <2> QED BY <2>1, <2>4 DEF InTime
<1>9. GreetedFirst'
  <2>1. call' \in {"start", "discover", "greet", "greeted", "confirm"} /\ transport # "http" =>
          \A i \in 1..Len(toServer) : toServer[i].method # "call"
    BY <1>5 DEF McpInv, GreetedFirst
  <2>2. ASSUME unasked = 0, NEW i \in 1..Len(toClient')
        PROVE  /\ toClient'[i].says \in {"initialize", "call", "error"}
               /\ toClient'[i].says = "initialize" => "initialize" \in answered
    BY <2>2, <1>2 DEF McpInv, GreetedFirst
  <2>3. ASSUME unasked = 0, transport # "http",
               call' \in {"confirm", "request", "requested"}
        PROVE  "initialize" \in answered
    <3>1. CASE call' = call
      BY <2>3, <3>1 DEF McpInv, GreetedFirst
    <3>2. CASE call = "greeted" /\ call' = "confirm"
      <4>1. Head(toClient).id = 1 /\ Head(toClient).says # "error"
        BY <2>3, <3>2, <1>3 DEF McpInv, InTime, McpTypeOK, Transports
      <4>2. Head(toClient).says = "initialize"
        BY <4>1, <2>3, <1>3 DEF McpInv, GreetedFirst, WireForm
      <4> QED BY <4>2, <2>3, <1>3 DEF McpInv, GreetedFirst
    <3> QED BY <3>1, <3>2, <2>3, <1>5
  <2> QED BY <2>1, <2>2, <2>3, <1>1 DEF GreetedFirst
<1>10. OkIsAnswered' /\ GreetsFirst'
  <2>1. call # "done"
    OBVIOUS
  <2>2. verdict' = "open"
    BY <2>1, <1>1 DEF McpInv, McpTypeOK
  <2> QED BY <2>2, <1>1 DEF McpInv, AnswersFit, OkIsAnswered, GreetsFirst
<1> QED BY <1>6, <1>7, <1>8, <1>9, <1>10 DEF McpInv, AnswersFit

\* The stream ends before it has named a place to post to.
LEMMA NothingDiscoveredKeeps ==
  ASSUME McpInv, Discover, toClient = <<>>
  PROVE  McpInv'
<1>1. /\ call = "discover" /\ call' = "greet"
      /\ transport' = transport /\ messageURL' = messageURL /\ endless' = endless
      /\ ctx' = ctx /\ toServer' = toServer /\ toClient' = toClient
      /\ server' = server /\ stderr' = stderr
      /\ answered' = answered /\ unasked' = unasked /\ taken' = taken /\ verdict' = verdict
  BY DEF Discover, settings, mcpServer
<1>2. transport = "sse"
  BY <1>1 DEF McpInv, WireForm
<1>3. McpTypeOK'
  BY <1>1 DEF McpInv, McpTypeOK, CallPcs
<1>4. WireForm' /\ InTime'
  BY <1>1, <1>2 DEF McpInv, WireForm, InTime
<1>5. GreetedFirst' /\ AnswersFit'
  BY <1>1 DEF McpInv, GreetedFirst, AnswersFit, OkIsAnswered, GreetsFirst
<1> QED BY <1>3, <1>4, <1>5 DEF McpInv

\* The client reads: stdio, sse and http.
LEMMA ReadKeeps ==
  ASSUME McpInv, ReadNext \/ ReadEvent \/ ReadResponse \/ Discover
  PROVE  McpInv'
<1> DEFINE m == Head(toClient)
<1>1. CASE ReadNext
  <2>1. /\ transport = "stdio" /\ call \in {"greeted", "requested"} /\ toClient # <<>>
        /\ \/ Fails
           \/ /\ m.says # "error" /\ call = "greeted" /\ Greeted(m)
              /\ toClient' = Tail(toClient) /\ UNCHANGED toServer
           \/ call = "requested" /\ Accept(m)
    BY <1>1 DEF ReadNext
  <2>2. CASE Fails
    BY <2>1, <2>2, FailsKeeps
  <2>3. CASE /\ m.says # "error" /\ call = "greeted" /\ Greeted(m)
             /\ toClient' = Tail(toClient) /\ UNCHANGED toServer
    BY <2>1, <2>3, TakeKeeps DEF Greeted
  <2>4. CASE call = "requested" /\ Accept(m)
    BY <2>1, <2>4, AcceptKeeps
  <2> QED BY <2>1, <2>2, <2>3, <2>4
<1>2. CASE ReadEvent
  <2>1. /\ transport = "sse" /\ call \in {"greeted", "requested"} /\ toClient # <<>>
        /\ \/ Fails
           \/ /\ m.says # "error" /\ Matches(m) /\ call = "greeted" /\ Greeted(m)
              /\ toClient' = Tail(toClient) /\ UNCHANGED toServer
           \/ Matches(m) /\ call = "requested" /\ Accept(m)
           \/ /\ toClient' = Tail(toClient)
              /\ UNCHANGED <<settings, ctx, call, toServer, mcpServer, taken, verdict>>
    BY <1>2 DEF ReadEvent
  <2>2. CASE Fails
    BY <2>1, <2>2, FailsKeeps
  <2>3. CASE /\ m.says # "error" /\ Matches(m) /\ call = "greeted" /\ Greeted(m)
             /\ toClient' = Tail(toClient) /\ UNCHANGED toServer
    <3>1. m.id = 1
      BY <2>3 DEF Matches, Expected
    <3> QED BY <2>1, <2>3, <3>1, TakeKeeps DEF Greeted
  <2>4. CASE Matches(m) /\ call = "requested" /\ Accept(m)
    <3>1. m.id = 2
      BY <2>4 DEF Matches, Expected
    <3> QED BY <2>1, <2>4, <3>1, AcceptKeeps
  <2>5. CASE /\ toClient' = Tail(toClient)
             /\ UNCHANGED <<settings, ctx, call, toServer, mcpServer, taken, verdict>>
    BY <2>1, <2>5, TakeKeeps
  <2> QED BY <2>1, <2>2, <2>3, <2>4, <2>5
<1>3. CASE ReadResponse
  <2>1. /\ transport = "http" /\ call = "requested" /\ toClient # <<>>
        /\ Fails \/ Accept(m)
    BY <1>3 DEF ReadResponse
  <2> QED BY <2>1, FailsKeeps, AcceptKeeps
<1>4. CASE Discover /\ toClient # <<>>
  <2>1. /\ call = "discover" /\ call' \in {"discover", "greet"}
        /\ toClient' = Tail(toClient) /\ toServer' = toServer /\ taken' = taken
        /\ UNCHANGED <<settings, ctx, mcpServer, verdict>>
    BY <1>4 DEF Discover
  <2>2. transport = "sse"
    BY <2>1 DEF McpInv, WireForm
  <2> QED BY <1>4, <2>1, <2>2, TakeKeeps
<1> QED BY <1>1, <1>2, <1>3, <1>4, NothingDiscoveredKeeps

\* The server answers what comes next on its wire.
LEMMA AnswerKeeps ==
  ASSUME McpInv, Answer
  PROVE  McpInv'
<1> USE McpAssumption DEF settings
<1> DEFINE r == Head(toServer)
<1>1. /\ toServer # <<>> /\ toServer' = Tail(toServer)
      /\ call' = call /\ transport' = transport /\ messageURL' = messageURL
      /\ endless' = endless /\ ctx' = ctx /\ server' = server /\ stderr' = stderr
      /\ unasked' = unasked /\ taken' = taken /\ verdict' = verdict
  BY DEF Answer
<1>2. /\ 1 \in 1..Len(toServer) /\ r = toServer[1] /\ r \in Requests /\ IsSent(r)
      /\ toServer' \in Seq(Requests) /\ Len(toServer') = Len(toServer) - 1
      /\ \A i \in 1..Len(toServer') : i + 1 \in 1..Len(toServer) /\ toServer'[i] = toServer[i + 1]
  BY <1>1, ServerTakes DEF McpInv
<1>3. Len(toServer) \in Nat /\ Len(toClient) \in Nat
      /\ \A i \in 1..Len(toServer) : IsSent(toServer[i])
  BY WireTypes DEF McpInv
<1>4. OkIsAnswered' /\ GreetsFirst'
  <2>1. answered \subseteq answered'
    BY DEF Answer
  <2>2. ASSUME NEW i \in DOMAIN toServer', toServer'[i].method = "call"
        PROVE  \E j \in DOMAIN toServer : toServer[j].method = "call"
    <3>1. i \in 1..Len(toServer')
      BY <1>2, LenProperties
    <3>2. DOMAIN toServer = 1..Len(toServer)
      BY LenProperties DEF McpInv, McpTypeOK
    <3> QED BY <2>2, <3>1, <3>2, <1>2
  <2>3. GreetsFirst'
    BY <2>1, <2>2, <1>1 DEF McpInv, AnswersFit, GreetsFirst
  <2> QED BY <2>3, <1>1 DEF McpInv, AnswersFit, OkIsAnswered
<1>5. CASE toClient' = toClient /\ answered' = answered /\ r.id = 0
  <2>1. McpTypeOK'
    BY <1>1, <1>2, <1>5 DEF McpInv, McpTypeOK
  <2>2. WireForm' /\ GreetedFirst'
    BY <1>1, <1>2, <1>5 DEF McpInv, WireForm, GreetedFirst
  <2>3. InTime'
    BY <1>1, <1>2, <1>3, <1>5 DEF McpInv, InTime
  <2> QED BY <1>4, <2>1, <2>2, <2>3 DEF McpInv, AnswersFit
<1>6. ASSUME NEW what \in {r.method, "error"}, r.id # 0,
             toClient' = Append(toClient, Says(what, r.id)),
             answered' = answered \cup {r.method}
      PROVE  McpInv'
  <2> DEFINE m == Says(what, r.id)
  <2>1. /\ r.method \in {"initialize", "call"} /\ r.id \in {1, 2}
        /\ r.method = "initialize" <=> r.id = 1
        /\ m.says = what /\ m.id = r.id
    BY <1>2, <1>6 DEF IsSent, Says
  <2>2. m \in Answers \cup Unasked
    BY <2>1 DEF Answers
  <2>3. /\ toClient' \in Seq(Answers \cup Unasked) /\ Len(toClient') = Len(toClient) + 1
        /\ \A i \in 1..Len(toClient') :
             (i \in 1..Len(toClient) /\ toClient'[i] = toClient[i]) \/ toClient'[i] = m
    BY <1>6, <2>2, ServerSays DEF McpInv
  <2>4. r.method = "initialize" => transport # "http"
    BY <1>2 DEF McpInv, WireForm
  <2> HIDE DEF m
  <2>5. McpTypeOK'
    BY <1>1, <1>2, <1>6, <2>1, <2>3 DEF McpInv, McpTypeOK
  <2>6. WireForm'
    BY <1>1, <1>2, <2>1, <2>3, <2>4 DEF McpInv, WireForm
  <2>7. InTime'
    <3> SUFFICES ASSUME unasked = 0, transport = "stdio" PROVE InTime'
      BY <1>1 DEF InTime
    <3>1. CASE call \in {"start", "greet"}
      BY <3>1, <1>2 DEF McpInv, InTime
    <3>2. CASE call = "greeted"
      BY <3>2, <1>1, <1>2, <1>3, <2>1, <2>3 DEF McpInv, InTime
    <3>3. CASE call \in {"confirm", "request", "requested"}
      <4>1. r.id # 1
        BY <3>3, <1>2 DEF McpInv, InTime
      <4> QED BY <3>3, <4>1, <1>1, <1>2, <2>1, <2>3 DEF McpInv, InTime
    <3>4. CASE call \in {"discover", "done"}
      BY <3>4, <1>1 DEF InTime
    <3> QED BY <3>1, <3>2, <3>3, <3>4 DEF McpInv, McpTypeOK, CallPcs
  <2>8. GreetedFirst'
    BY <1>1, <1>2, <1>6, <2>1, <2>3 DEF McpInv, GreetedFirst
  <2> QED BY <1>4, <2>5, <2>6, <2>7, <2>8 DEF McpInv, AnswersFit
<1> QED BY <1>5, <1>6 DEF Answer

\* It may say anything unasked; then nothing is promised over stdio.
LEMMA SpeakKeeps ==
  ASSUME McpInv, Speak
  PROVE  McpInv'
<1> USE McpAssumption DEF settings
<1>1. PICK m \in Unasked :
        /\ toClient' = Append(toClient, m)
        /\ unasked' = unasked + 1 /\ unasked < MaxUnasked
        /\ call' = call /\ transport' = transport /\ messageURL' = messageURL
        /\ endless' = endless /\ ctx' = ctx /\ toServer' = toServer
        /\ server' = server /\ stderr' = stderr /\ answered' = answered
        /\ taken' = taken /\ verdict' = verdict
  BY DEF Speak
<1>2. m.says \in {"nothing", "broken", "endpoint"}
  BY DEF Unasked, Says
<1>3. /\ toClient' \in Seq(Answers \cup Unasked)
      /\ \A i \in 1..Len(toClient') :
           (i \in 1..Len(toClient) /\ toClient'[i] = toClient[i]) \/ toClient'[i] = m
  BY <1>1, ServerSays DEF McpInv
<1>4. unasked \in Nat /\ unasked' # 0 /\ unasked' > 0
  BY <1>1 DEF McpInv, McpTypeOK
<1>5. McpTypeOK'
  BY <1>1, <1>3 DEF McpInv, McpTypeOK
<1>6. WireForm'
  BY <1>1, <1>2, <1>3 DEF McpInv, WireForm
<1>7. InTime' /\ GreetedFirst'
  BY <1>1, <1>4 DEF McpInv, InTime, GreetedFirst
<1>8. AnswersFit'
  BY <1>1, <1>4 DEF McpInv, AnswersFit, OkIsAnswered, GreetsFirst
<1> QED BY <1>5, <1>6, <1>7, <1>8 DEF McpInv

\* Every step keeps the invariant.
LEMMA NextMcpInv == McpInv /\ [McpNext]_mcpVars => McpInv'
<1> SUFFICES ASSUME McpInv, [McpNext]_mcpVars PROVE McpInv'
  OBVIOUS
<1>1. CASE StartFails \/ WriteBreaks \/ ReadNothing \/ RequestFails \/ StreamEnds
  <2>1. Fails /\ call # "done"
    BY <1>1 DEF StartFails, WriteBreaks, ReadNothing, RequestFails, StreamEnds, Writes
  <2> QED BY <2>1, FailsKeeps
<1>2. CASE Start \/ Open \/ Deadline \/ ContextEnds \/ Log \/ ServerStops
  BY <1>2, QuietKeeps
<1>3. CASE WriteMessage \/ Post
  BY <1>3, WriteKeeps
<1>4. CASE ReadNext \/ ReadEvent \/ ReadResponse \/ Discover
  BY <1>4, ReadKeeps
<1>5. CASE Answer
  BY <1>5, AnswerKeeps
<1>6. CASE Speak
  BY <1>6, SpeakKeeps
<1>7. CASE UNCHANGED mcpVars
  BY <1>7 DEF mcpVars, settings, wires, mcpServer, McpInv, McpTypeOK, WireForm, InTime, GreetedFirst,
              AnswersFit, OkIsAnswered, GreetsFirst
<1> QED BY <1>1, <1>2, <1>3, <1>4, <1>5, <1>6, <1>7 DEF McpNext, McpStep

-----------------------------------------------------------------------------
(* Theorems *)

\* The invariant holds in every state.
LEMMA McpInvHolds == McpSpec => []McpInv
  BY InitMcpInv, NextMcpInv, PTL DEF McpSpec

\* For every server and every pipe: a call of ListTools or CallTool that returns
\* without an error returns the answer to its request, or, over stdio, to its
\* greeting, and that only if the server spoke unasked; and the request comes
\* after the answer to the greeting.
THEOREM AnswersAlwaysFit == McpSpec => []AnswersFit
<1>1. McpInv => AnswersFit
  BY DEF McpInv
<1> QED BY <1>1, McpInvHolds, PTL

\* The variables keep their types, and a call that has ended has a verdict.
THEOREM McpTypeCorrect == McpSpec => []McpTypeOK
<1>1. McpInv => McpTypeOK
  BY DEF McpInv
<1> QED BY <1>1, McpInvHolds, PTL

\* A process that serves a call which is over was killed on the way out, or was
\* gone; nothing brings it back.
LEMMA ProcessEnds == NoProcessLeft /\ [McpNext]_mcpVars => NoProcessLeft'
<1> SUFFICES ASSUME NoProcessLeft, [McpNext]_mcpVars PROVE NoProcessLeft'
  OBVIOUS
<1> USE DEF NoProcessLeft, settings, mcpServer
<1>1. ASSUME NEW v, Return(v)
      PROVE  NoProcessLeft'
  BY <1>1 DEF Return, Killed
<1>2. CASE StartFails \/ WriteBreaks \/ ReadNothing \/ RequestFails \/ StreamEnds
  BY <1>1, <1>2 DEF StartFails, WriteBreaks, ReadNothing, RequestFails, StreamEnds, Fails
<1>3. ASSUME NEW m, Accept(m) \/ Fails
      PROVE  NoProcessLeft'
  BY <1>1, <1>3 DEF Accept, Fails
<1>4. CASE ReadNext
  BY <1>3, <1>4 DEF ReadNext, Greeted
<1>5. CASE ReadEvent
  BY <1>3, <1>5 DEF ReadEvent, Greeted
<1>6. CASE ReadResponse
  BY <1>3, <1>6 DEF ReadResponse
<1>7. CASE WriteMessage \/ Post
  BY <1>7 DEF WriteMessage, Post, AfterWrite, Writes
<1>8. CASE Start \/ Open \/ Discover \/ Deadline \/ ContextEnds
  BY <1>8 DEF Start, Open, Discover, Deadline, ContextEnds, Remote
<1>9. CASE Answer \/ Speak \/ Log \/ ServerStops
  BY <1>9 DEF Answer, Speak, Log, ServerStops
<1>10. CASE UNCHANGED mcpVars
  BY <1>10 DEF mcpVars
<1> QED
  BY <1>2, <1>4, <1>5, <1>6, <1>7, <1>8, <1>9, <1>10 DEF McpNext, McpStep

\* A call over stdio that has returned, by whichever way, has ended its process.
THEOREM NoServerOutlivesCall == McpSpec => []NoProcessLeft
<1>1. McpInit => NoProcessLeft
  BY DEF McpInit, NoProcessLeft
<1> QED BY <1>1, ProcessEnds, PTL DEF McpSpec

-----------------------------------------------------------------------------
(* The tools that are offered and called *)

\* The tools there are.
There == {p \in Pairs : p[1] \in configured /\ p[2] \in tools[p[1]]}

\* Those of the servers that were asked.
SoFar == {p \in There : p[1] \notin unlisted}

Steady == changes = offeredAt

ToolsInv ==
  /\ ToolsTypeOK
  /\ offeredAt = Never \/ offeredAt <= changes
  /\ Listing => called = {}
  /\ Steady =>
       /\ Listing => unlisted \subseteq configured /\ Range(listed) = SoFar
       /\ listing # "offering" => offered = There
       /\ called \subseteq Named(offered, asked)

\* A set of natural numbers has a least element.
LEMMA Least ==
  ASSUME NEW S \in SUBSET Nat, S # {}
  PROVE  \E n \in S : \A m \in S : n <= m
<1>1. PICK n \in S : \A m \in S : ~ (<<m, n>> \in OpToRel(<, Nat))
  BY NatLessThanWellFounded, WFMin
<1>2. ASSUME NEW m \in S
      PROVE  n <= m
  <2>1. m \in Nat /\ n \in Nat
    OBVIOUS
  <2>2. <<m, n>> \notin OpToRel(<, Nat)
    BY <1>1
  <2>3. ~(m < n)
    BY <2>1, <2>2 DEF OpToRel
  <2> QED
    BY <2>1, <2>3
<1> QED
  BY <1>2

\* A server's list, in whatever order, has its tools and no others.
LEMMA OrderHasAll ==
  ASSUME NEW S, IsFiniteSet(S), NEW order \in InSomeOrder(S)
  PROVE  order \in Seq(S) /\ Range(order) = S
<1> DEFINE n == Cardinality(S)
<1>1. n \in Nat
  BY FS_CardinalityType
<1>2. order \in [1..n -> S] /\ \A t \in S : \E i \in 1..n : order[i] = t
  BY DEF InSomeOrder, Bijection, Injection, Surjection
<1> HIDE DEF n
<1> QED
  BY <1>1, <1>2 DEF Range

\* A list is what was listed before and what a server adds.
LEMMA ListsAdd ==
  ASSUME NEW T, NEW a \in Seq(T), NEW b \in Seq(T)
  PROVE  a \o b \in Seq(T) /\ Range(a \o b) = Range(a) \cup Range(b)
<1>1. /\ a \o b \in Seq(T) /\ Len(a \o b) = Len(a) + Len(b) /\ Len(a) \in Nat /\ Len(b) \in Nat
      /\ \A i \in 1..Len(a) : (a \o b)[i] = a[i]
      /\ \A i \in 1..Len(b) : (a \o b)[Len(a) + i] = b[i]
  OBVIOUS
<1>2. /\ DOMAIN a = 1..Len(a) /\ DOMAIN b = 1..Len(b)
      /\ DOMAIN (a \o b) = 1..(Len(a) + Len(b))
  BY <1>1
<1> DEFINE c == a \o b
           m == Len(a)
           n == Len(b)
<1> HIDE DEF c, m, n
<1>3. ASSUME NEW x \in Range(c)
      PROVE  x \in Range(a) \cup Range(b)
  <2>1. PICK i \in 1..(m + n) : x = c[i]
    BY <1>2, <1>3 DEF Range, c, m, n
  <2>2. CASE i \in 1..m
    BY <1>1, <1>2, <2>1, <2>2 DEF Range, c, m
  <2>3. CASE i \notin 1..m
    <3>1. i - m \in 1..n /\ m + (i - m) = i
      BY <1>1, <2>1, <2>3 DEF m, n
    <3>2. c[m + (i - m)] = b[i - m]
      BY <1>1, <3>1 DEF c, m, n
    <3> QED
      BY <1>2, <2>1, <3>1, <3>2 DEF Range, n
  <2> QED
    BY <2>2, <2>3
<1>4. ASSUME NEW x \in Range(a)
      PROVE  x \in Range(c)
  <2>1. PICK i \in 1..m : x = a[i]
    BY <1>2, <1>4 DEF Range, m
  <2>2. i \in 1..(m + n)
    BY <1>1, <2>1 DEF m, n
  <2> QED
    BY <1>1, <1>2, <2>1, <2>2 DEF Range, c, m, n
<1>5. ASSUME NEW x \in Range(b)
      PROVE  x \in Range(c)
  <2>1. PICK i \in 1..n : x = b[i]
    BY <1>2, <1>5 DEF Range, n
  <2>2. m + i \in 1..(m + n)
    BY <1>1, <2>1 DEF m, n
  <2> QED
    BY <1>1, <1>2, <2>1, <2>2 DEF Range, c, m, n
<1>6. Range(c) = Range(a) \cup Range(b)
  BY <1>3, <1>4, <1>5
<1> QED
  BY <1>1, <1>6 DEF c

\* A name stands for a pair or for none.
LEMMA Pairing ==
  /\ \A s \in Servers, ts \in SUBSET Tools : {s} \X ts \subseteq Pairs
  /\ \A p \in Pairs : p[1] \in Servers /\ p[2] \in Tools /\ p = <<p[1], p[2]>>
  BY DEF Pairs

\* The list grows by the tools of the server that is asked.
LEMMA ListServerKeeps ==
  ASSUME ToolsAssumption, ToolsInv, NEW s \in Servers, ListServer(s)
  PROVE  ToolsInv'
<1>1. tools[s] \in SUBSET Tools /\ IsFiniteSet(tools[s])
  BY FS_Subset DEF ToolsAssumption, ToolsInv, ToolsTypeOK
<1>2. IsFiniteSet({s} \X tools[s])
  BY <1>1, FS_Singleton, FS_Product
<1>3. PICK order \in InSomeOrder({s} \X tools[s]) : listed' = listed \o order
  BY DEF ListServer
<1>4. order \in Seq({s} \X tools[s]) /\ Range(order) = {s} \X tools[s]
  BY <1>2, OrderHasAll
<1>5. order \in Seq(Pairs)
  BY <1>1, <1>4, Pairing
<1>6. listed' \in Seq(Pairs) /\ Range(listed') = Range(listed) \cup ({s} \X tools[s])
  BY <1>3, <1>4, <1>5, ListsAdd DEF ToolsInv, ToolsTypeOK
<1>7. /\ Listing /\ s \in unlisted /\ unlisted' = unlisted \ {s}
      /\ UNCHANGED <<configured, tools, changes, listing, offered, asked, called, offeredAt>>
  BY DEF ListServer, surroundings
<1>8. Listing'
  BY <1>7 DEF Listing
<1>9. \A i \in DOMAIN listed' : listed'[i][1] \notin unlisted'
  <2>1. ASSUME NEW p \in Range(listed')
        PROVE  p[1] \notin unlisted'
    <3>1. CASE p \in {s} \X tools[s]
      BY <1>7, <3>1
    <3>2. CASE p \in Range(listed)
      BY <1>7, <3>2 DEF ToolsInv, ToolsTypeOK, Range
    <3> QED
      BY <1>6, <2>1, <3>1, <3>2
  <2> QED
    BY <2>1 DEF Range
<1>10. ToolsTypeOK'
  BY <1>6, <1>7, <1>9 DEF ToolsInv, ToolsTypeOK, Never, Names, Pairs
<1>11. ASSUME Steady
       PROVE  unlisted' \subseteq configured' /\ Range(listed)' = SoFar'
  <2>1. unlisted \subseteq configured /\ Range(listed) = SoFar
    BY <1>7, <1>11 DEF ToolsInv
  <2>2. Range(listed') = SoFar \cup ({s} \X tools[s])
    BY <1>6, <2>1
  <2>3. There' = There
    BY <1>7 DEF There, Pairs
  <2>4. {s} \X tools[s] = {p \in There : p[1] = s}
    <3>1. s \in configured
      BY <1>7, <2>1
    <3>2. ASSUME NEW p \in {s} \X tools[s]
          PROVE  p \in There /\ p[1] = s
      BY <1>1, <3>1, <3>2, Pairing DEF There
    <3>3. ASSUME NEW p \in There, p[1] = s
          PROVE  p \in {s} \X tools[s]
      <4>1. p = <<s, p[2]>> /\ p[2] \in tools[s]
        BY <3>3, Pairing DEF There
      <4> QED
        BY <4>1
    <3> QED
      BY <3>2, <3>3
  <2>5. SoFar' = SoFar \cup {p \in There : p[1] = s}
    BY <1>7, <2>3 DEF SoFar
  <2>6. Range(listed)' = Range(listed')
    BY DEF Range
  <2> QED
    BY <1>7, <2>1, <2>2, <2>4, <2>5, <2>6
<1>12. There' = There /\ (Steady' <=> Steady) /\ Never' = Never
  BY <1>7 DEF There, Pairs, Steady, Never
<1> QED
  BY <1>7, <1>8, <1>10, <1>11, <1>12 DEF ToolsInv, Named

\* Every other step.
LEMMA OtherToolsKeep ==
  ASSUME ToolsAssumption, ToolsInv,
         BeginOffer \/ BeginCall \/ Offer \/ Resolve \/ Dial \/ SomethingChanges
  PROVE  ToolsInv'
<1> USE DEF surroundings
<1>1. /\ MaxChanges \in Nat /\ Never \in Nat /\ Never = MaxChanges + 1 /\ Never' = Never
      /\ Pairs' = Pairs /\ Names' = Names
  BY DEF ToolsAssumption, Never, Pairs, Names
<1>2. /\ <<>> \in Seq(Pairs) /\ Range(<<>>) = {} /\ DOMAIN <<>> = {}
  BY DEF Range
<1> HIDE DEF Pairs, Names, Never
<1>3. CASE BeginOffer
  <2>1. /\ listing' = "offering" /\ unlisted' = configured /\ listed' = <<>> /\ called' = {}
        /\ offeredAt' = changes /\ UNCHANGED <<configured, tools, changes, offered, asked>>
    BY <1>3 DEF BeginOffer
  <2>2. ToolsTypeOK'
    BY <1>1, <1>2, <2>1 DEF ToolsInv, ToolsTypeOK
  <2>3. SoFar' = {}
    BY <2>1 DEF SoFar, There
  <2>4. changes \in Nat /\ Range(listed)' = {}
    BY <1>2, <2>1 DEF ToolsInv, ToolsTypeOK, Range
  <2> QED
    BY <1>1, <2>1, <2>2, <2>3, <2>4 DEF ToolsInv, Listing
<1>4. CASE BeginCall
  <2>1. /\ listing' = "resolving" /\ unlisted' = configured /\ listed' = <<>> /\ called' = {}
        /\ asked' \in Names /\ listing = "idle"
        /\ UNCHANGED <<configured, tools, changes, offered, offeredAt>>
    BY <1>4 DEF BeginCall
  <2>2. ToolsTypeOK'
    BY <1>1, <1>2, <2>1 DEF ToolsInv, ToolsTypeOK
  <2>3. SoFar' = {} /\ There' = There /\ (Steady' <=> Steady)
    BY <1>1, <2>1 DEF SoFar, There, Steady
  <2>4. Range(listed)' = {}
    BY <1>2, <2>1 DEF Range
  <2> QED
    BY <1>1, <2>1, <2>2, <2>3, <2>4 DEF ToolsInv, Listing
<1>5. CASE Offer
  <2>1. /\ listing = "offering" /\ unlisted = {} /\ offered' = Range(listed) /\ listing' = "idle"
        /\ UNCHANGED <<configured, tools, changes, unlisted, listed, asked, called, offeredAt>>
    BY <1>5 DEF Offer
  <2>2. Range(listed) \subseteq Pairs
    BY DEF ToolsInv, ToolsTypeOK, Range
  <2>3. ToolsTypeOK'
    BY <1>1, <2>1, <2>2 DEF ToolsInv, ToolsTypeOK, Listing
  <2>4. Steady => Range(listed) = There
    BY <2>1 DEF ToolsInv, SoFar, Listing
  <2>5. There' = There /\ (Steady' <=> Steady)
    BY <1>1, <2>1 DEF There, Steady
  <2>6. called = {}
    BY <2>1 DEF ToolsInv, Listing
  <2> QED
    BY <1>1, <2>1, <2>3, <2>4, <2>5, <2>6 DEF ToolsInv, Listing
<1>6. CASE Resolve
  <2>1. /\ listing = "resolving" /\ listing' \in {"idle", "calling"}
        /\ UNCHANGED <<configured, tools, changes, unlisted, listed, offered, asked, offeredAt>>
        /\ unlisted = {}
    BY <1>6 DEF Resolve
  <2>2. called' \subseteq {p \in Range(listed) : NameOf(p[1], p[2]) = asked}
    <3> DEFINE matches == {i \in DOMAIN listed : Match(i)}
               i == CHOOSE j \in matches : \A k \in matches : j <= k
    <3>1. CASE matches = {}
      BY <1>6, <3>1 DEF Resolve
    <3>2. CASE matches # {}
      <4>1. called' = {listed[i]}
        BY <1>6, <3>2 DEF Resolve
      <4>2. \E j \in matches : \A k \in matches : j <= k
        <5>1. matches \in SUBSET Nat
          BY DEF ToolsInv, ToolsTypeOK
        <5> QED
          BY <3>2, <5>1, Least
      <4>3. i \in matches
        BY <4>2
      <4> QED
        BY <4>1, <4>3 DEF Match, Range
    <3> QED
      BY <3>1, <3>2
  <2>3. Range(listed) \subseteq Pairs
    BY DEF ToolsInv, ToolsTypeOK, Range
  <2>4. ToolsTypeOK'
    BY <1>1, <2>1, <2>2, <2>3 DEF ToolsInv, ToolsTypeOK, Listing
  <2>5. Steady => Range(listed) = There /\ offered = There
    BY <2>1 DEF ToolsInv, SoFar, Listing
  <2>6. There' = There /\ (Steady' <=> Steady)
    BY <1>1, <2>1 DEF There, Steady
  <2> QED
    BY <1>1, <2>1, <2>2, <2>4, <2>5, <2>6 DEF ToolsInv, Listing, Named
<1>7. CASE Dial
  <2>1. /\ listing = "calling" /\ listing' = "idle" /\ called' \subseteq called
        /\ UNCHANGED <<configured, tools, changes, unlisted, listed, offered, asked, offeredAt>>
    BY <1>7 DEF Dial
  <2>2. ToolsTypeOK'
    BY <1>1, <2>1 DEF ToolsInv, ToolsTypeOK, Listing
  <2>3. There' = There /\ (Steady' <=> Steady)
    BY <1>1, <2>1 DEF There, Steady
  <2> QED
    BY <1>1, <2>1, <2>2, <2>3 DEF ToolsInv, Listing, Named
<1>8. CASE SomethingChanges
  <2>1. /\ changes < MaxChanges /\ changes' = changes + 1
        /\ UNCHANGED <<listing, unlisted, listed, offered, asked, called, offeredAt>>
    BY <1>8 DEF SomethingChanges
  <2>2. configured' \subseteq Servers /\ tools' \in [Servers -> SUBSET Tools]
    BY <1>8 DEF SomethingChanges, ToolsInv, ToolsTypeOK
  <2>3. changes \in Nat
    BY DEF ToolsInv, ToolsTypeOK
  <2>4. ToolsTypeOK'
    BY <1>1, <2>1, <2>2, <2>3 DEF ToolsInv, ToolsTypeOK, Listing
  <2>5. ~Steady' /\ (offeredAt = Never \/ offeredAt <= changes')
    BY <1>1, <2>1, <2>3 DEF ToolsInv, ToolsTypeOK, Steady
  <2> QED
    BY <1>1, <2>1, <2>4, <2>5 DEF ToolsInv, Listing
<1> QED
  BY <1>3, <1>4, <1>5, <1>6, <1>7, <1>8
\* Nothing was offered at the beginning.
LEMMA InitToolsInv == ToolsInit => ToolsInv
<1> SUFFICES ASSUME ToolsInit
             PROVE  ToolsInv
  OBVIOUS
<1>1. MaxChanges \in Nat /\ Never \in Nat /\ Never # 0
  BY ToolsAssumption DEF ToolsAssumption, Never
<1> HIDE DEF Names, Pairs, Never
<1>2. ToolsTypeOK
  BY <1>1 DEF ToolsInit, ToolsTypeOK
<1>3. ~Listing /\ ~Steady
  BY <1>1 DEF ToolsInit, Listing, Steady
<1> QED
  BY <1>2, <1>3 DEF ToolsInv, ToolsInit

\* Every step keeps the invariant.
LEMMA NextToolsInv == ToolsInv /\ [ToolsNext]_toolsVars => ToolsInv'
<1> SUFFICES ASSUME ToolsInv, [ToolsNext]_toolsVars
             PROVE  ToolsInv'
  OBVIOUS
<1>1. CASE BeginOffer \/ BeginCall \/ Offer \/ Resolve \/ Dial \/ SomethingChanges
  BY <1>1, ToolsAssumption, OtherToolsKeep
<1>2. ASSUME NEW s \in Servers, ListServer(s)
      PROVE  ToolsInv'
  BY <1>2, ToolsAssumption, ListServerKeeps
<1>3. CASE UNCHANGED toolsVars
  BY <1>3 DEF toolsVars, surroundings, ToolsInv, ToolsTypeOK, Listing, Steady, SoFar, There,
              Pairs, Names, Named, Never, Range
<1> QED
  BY <1>1, <1>2, <1>3 DEF ToolsNext

\* What the listings have found, and what was offered and called.
LEMMA ToolsInvHolds == ToolsSpec => []ToolsInv
  BY InitToolsInv, NextToolsInv, PTL DEF ToolsSpec

\* Every variable keeps its type, and no listing asks a server twice.
THEOREM ToolsTypeCorrect == ToolsSpec => []ToolsTypeOK
<1>1. ToolsInv => ToolsTypeOK
  BY DEF ToolsInv
<1> QED
  BY <1>1, ToolsInvHolds, PTL

\* While nothing changes around it, a called name reaches a tool that was offered
\* under it, and finds one if and only if one was offered, whatever order
\* the servers are asked in.
THEOREM CalledAsOffered == ToolsSpec => CallsAsOffered
<1>1. ToolsInv => CallsWhatWasOffered
  BY DEF ToolsInv, CallsWhatWasOffered, Steady
<1>2. ASSUME ToolsInv, [ToolsNext]_toolsVars, listing = "resolving", listing' # "resolving",
             changes = offeredAt
      PROVE  (called' # {}) = (Named(offered, asked) # {})
  <2>1. Resolve
    BY <1>2 DEF ToolsNext, toolsVars, BeginOffer, BeginCall, Offer, Dial, SomethingChanges, ListServer
  <2>2. offered = Range(listed)
    BY <1>2, <2>1 DEF Resolve, ToolsInv, SoFar, Listing, Steady
  <2> DEFINE matches == {i \in DOMAIN listed : Match(i)}
  <2>3. called' # {} <=> matches # {}
    BY <2>1 DEF Resolve
  <2>4. matches # {} <=> Named(offered, asked) # {}
    BY <2>2 DEF Named, Match, Range
  <2> QED
    BY <2>3, <2>4
<1>3. ToolsInv /\ [ToolsNext]_toolsVars =>
        [listing = "resolving" /\ listing' # "resolving" /\ changes = offeredAt =>
           (called' # {}) = (Named(offered, asked) # {})]_toolsVars
  BY <1>2
<1> QED
  BY <1>1, <1>3, ToolsInvHolds, PTL DEF ToolsSpec, CallsAsOffered, OfferedIsFound

-----------------------------------------------------------------------------
(* Calls to language servers *)

\* What can be on its way from the server: the answers have the ids of what
\* they answer.
Said ==
  Spoken \cup {Frame("initialize", 1, Asked), Frame("request", 2, Asked)}
    \cup {Frame("error", n, Asked) : n \in {1, 2}}

\* Until the file is open, the server does not know of it.
Opening == {"start", "initialize", "initializing", "initialized", "open"}

Published(m) == m.says = "diagnostics" /\ m.file \in published

LspWireForm ==
  /\ \A i \in 1..Len(stdout) :
       stdout[i] \in Said /\ (stdout[i].says = "diagnostics" => Published(stdout[i]))
  /\ \A i \in 1..Len(diagnosticsCh) : Published(diagnosticsCh[i])

Phases ==
  /\ lsp = "start" => process = "down"
  /\ lsp = "requested" => op = "request"
  /\ lsp = "waiting" => op = "diagnostics"
  /\ lsp \notin {"waiting", "closing", "done"} => reader = "none"
  /\ reader # "ended" => diagnosticsCh = <<>> /\ errCh = <<>>

NothingEarly ==
  /\ lsp \in Opening => ~opened /\ \A i \in 1..Len(stdin) : stdin[i] # "didOpen"
  /\ ~opened => published = {}

ResultOK ==
  result = "items" =>
    IF op = "request" THEN got = Frame("request", 2, Asked) ELSE Published(got)

\* What is returned is right because of what is on the wire and in the channels,
\* and nothing is published to a client that still reads its greeting.
LspInv ==
  /\ LspTypeOK /\ LspWireForm /\ Phases /\ NothingEarly /\ ResultOK
  /\ PublicationsReachReader /\ NoServerLeft

-----------------------------------------------------------------------------
(* Messages and pipes *)

\* What the server says of its own accord.
LEMMA SpokenForm ==
  ASSUME NEW m \in Spoken
  PROVE  /\ m.says \in {"diagnostics", "nothing", "broken"}
         /\ m.says = "diagnostics" => m.file \in Files /\ m.id = 0
  BY DEF Spoken, Frame

\* What has id 2 and no trouble is the answer to the request.
LEMMA AnswerForm ==
  ASSUME NEW m \in Said, m.says \notin {"broken", "error", "nothing"}, m.id = 2
  PROVE  m = Frame("request", 2, Asked)
  BY SpokenForm DEF Said, Frame

\* Diagnostics for a file have no other part.
LEMMA PublicationForm ==
  ASSUME NEW m \in Said, m.says = "diagnostics"
  PROVE  m = Frame("diagnostics", 0, m.file)
<1>1. m \in Spoken
  BY DEF Said, Frame
<1> QED
  BY <1>1 DEF Spoken, Frame

\* All of it is a frame.
LEMMA SaidAreFrames == Said \subseteq Frames /\ NoFrame \in Frames
<1>1. Spoken \subseteq Frames
  BY DEF Frames
<1>2. NoFrame \in Spoken
  BY DEF NoFrame, Spoken
<1>3. ASSUME NEW what \in {"initialize", "request", "error"}, NEW n \in {1, 2}
      PROVE  Frame(what, n, Asked) \in Frames
  BY <1>3 DEF Frames
<1>4. ASSUME NEW m \in Said
      PROVE  m \in Frames
  <2>1. CASE m \in Spoken
    BY <1>1, <2>1
  <2>2. CASE m = Frame("initialize", 1, Asked) \/ m = Frame("request", 2, Asked)
    BY <1>3, <2>2
  <2>3. CASE m \in {Frame("error", n, Asked) : n \in {1, 2}}
    BY <1>3, <2>3
  <2> QED
    BY <2>1, <2>2, <2>3, <1>4 DEF Said
<1> QED
  BY <1>1, <1>2, <1>4

\* A channel that holds one message, or none.
LEMMA OneMessage ==
  ASSUME NEW S, NEW m \in S
  PROVE  /\ <<m>> \in Seq(S) /\ Len(<<m>>) = 1
         /\ Append(<<>>, m) \in Seq(S) /\ Len(Append(<<>>, m)) = 1
         /\ <<>> \in Seq(S) /\ Len(<<>>) = 0
  OBVIOUS

\* Two channels with one message between them.
LEMMA AtMostOne ==
  ASSUME NEW S, NEW one \in Seq(S), NEW none \in Seq(S), Len(one) = 1, Len(none) = 0,
         NEW a \in {one, none}, NEW b \in {one, none}, a = none \/ b = none
  PROVE  a \in Seq(S) /\ b \in Seq(S) /\ Len(a) + Len(b) <= 1
<1>1. CASE a = none /\ b = none
  BY <1>1
<1>2. CASE a = one /\ b = none
  BY <1>2
<1>3. CASE a = none /\ b = one
  BY <1>3
<1> QED
  BY <1>1, <1>2, <1>3

\* What is read came first, and the rest moves up.
LEMMA LspReads ==
  ASSUME NEW S, NEW s \in Seq(S), s # <<>>
  PROVE  /\ Tail(s) \in Seq(S) /\ Len(Tail(s)) = Len(s) - 1 /\ Len(Tail(s)) \in Nat
         /\ 1 \in 1..Len(s) /\ Head(s) = s[1] /\ Head(s) \in S
         /\ \A i \in 1..Len(Tail(s)) : i + 1 \in 1..Len(s) /\ Tail(s)[i] = s[i + 1]
  OBVIOUS

\* What is written comes last.
LEMMA LspWrites ==
  ASSUME NEW S, NEW s \in Seq(S), NEW m \in S
  PROVE  /\ Append(s, m) \in Seq(S) /\ Len(Append(s, m)) = Len(s) + 1 /\ Len(s) \in Nat
         /\ \A i \in 1..Len(s) : Append(s, m)[i] = s[i]
         /\ Append(s, m)[Len(s) + 1] = m
  OBVIOUS

\* The invariant but for the wire and the channels.
LEMMA WireStays ==
  ASSUME LspWireForm, UNCHANGED <<stdout, diagnosticsCh, published>>
  PROVE  LspWireForm'
  BY DEF LspWireForm, Published

\* A step that neither reads, publishes nor ends the reader loses nothing.
LEMMA PublicationsStay ==
  ASSUME PublicationsReachReader, UNCHANGED <<op, stdout, published>>,
         reader = "ended" => reader' = "ended"
  PROVE  PublicationsReachReader'
  BY DEF PublicationsReachReader

\* What is read from the wire was right, and so is what is left on it.
LEMMA WireRead ==
  ASSUME LspTypeOK, LspWireForm, stdout # <<>>, stdout' = Tail(stdout),
         UNCHANGED <<diagnosticsCh, published>>
  PROVE  /\ stdout' \in Seq(Frames) /\ LspWireForm'
         /\ Head(stdout) \in Said
         /\ Head(stdout).says = "diagnostics" => Published(Head(stdout))
<1>1. stdout \in Seq(Frames)
  BY DEF LspTypeOK
<1> HIDE DEF Said, Frames
<1>2. /\ stdout' \in Seq(Frames) /\ 1 \in 1..Len(stdout) /\ Head(stdout) = stdout[1]
      /\ \A i \in 1..Len(stdout') : i + 1 \in 1..Len(stdout) /\ stdout'[i] = stdout[i + 1]
  BY <1>1, LspReads
<1> QED
  BY <1>2 DEF LspWireForm, Published

\* Reading anything but a publication for the file loses none.
LEMMA PublicationsPassed ==
  ASSUME LspTypeOK, PublicationsReachReader, stdout # <<>>, stdout' = Tail(stdout),
         UNCHANGED <<op, published, reader>>,
         Head(stdout) # Frame("diagnostics", 0, Asked)
  PROVE  PublicationsReachReader'
<1> SUFFICES ASSUME op = "diagnostics", Asked \in published, reader # "ended"
             PROVE  \E i \in DOMAIN stdout' : stdout'[i] = Frame("diagnostics", 0, Asked)
  BY DEF PublicationsReachReader
<1>1. stdout \in Seq(Frames)
  BY DEF LspTypeOK
<1>2. /\ stdout' \in Seq(Frames) /\ Head(stdout) = stdout[1]
      /\ Len(stdout') = Len(stdout) - 1 /\ Len(stdout) \in Nat /\ DOMAIN stdout' = 1..Len(stdout')
      /\ DOMAIN stdout = 1..Len(stdout)
      /\ \A i \in 1..Len(stdout') : stdout'[i] = stdout[i + 1]
  BY <1>1, LspReads, LenProperties
<1>3. PICK i \in 1..Len(stdout) : stdout[i] = Frame("diagnostics", 0, Asked)
  BY <1>2 DEF PublicationsReachReader
<1>4. i # 1
  BY <1>2, <1>3
<1>5. i - 1 \in 1..Len(stdout') /\ (i - 1) + 1 = i
  BY <1>2, <1>4
<1>6. stdout'[i - 1] = Frame("diagnostics", 0, Asked)
  BY <1>2, <1>3, <1>5
<1> QED
  BY <1>2, <1>5, <1>6

-----------------------------------------------------------------------------
(* The steps *)

\* A call that ends without an answer, or goes on without a message.
Moves ==
  \/ StartProcess \/ NoSession \/ WriteToServerFails \/ ReadGreetingFails \/ ReadAnswerFails
  \/ SpawnReader \/ TwoSeconds \/ WaitCancelled \/ Goodbye
  \/ CallerGoes \/ ServerLeaves

\* They leave the wires and the channels alone.
LEMMA MovesKeep ==
  ASSUME LspInv, Moves
  PROVE  LspInv'
<1> HIDE DEF Said, Frames, Heard
<1>1. UNCHANGED <<op, stdin, stdout, diagnosticsCh, errCh, opened, spoken, published>>
  BY DEF Moves, StartProcess, NoSession, WriteToServerFails, ReadGreetingFails, ReadAnswerFails,
         SpawnReader, TwoSeconds, WaitCancelled, Goodbye, CallerGoes, ServerLeaves,
         CloseAfterError, Close, channels, pipes, serverVars
<1>2. LspWireForm'
  BY <1>1, WireStays DEF LspInv
<1>3. LspTypeOK'
  <2>1. CASE StartProcess \/ Goodbye
    BY <1>1, <2>1 DEF LspInv, LspTypeOK, LspPcs, StartProcess, Goodbye
  <2>5. CASE NoSession
    BY <1>1, <2>5 DEF LspInv, LspTypeOK, LspPcs, NoSession, serverVars
  <2>3. CASE SpawnReader
    BY <1>1, <2>3 DEF LspInv, LspTypeOK, LspPcs, SpawnReader, serverVars
  <2>4. CASE CallerGoes \/ ServerLeaves
    BY <1>1, <2>4 DEF LspInv, LspTypeOK, CallerGoes, ServerLeaves
  <2>2. CASE WriteToServerFails \/ ReadGreetingFails \/ ReadAnswerFails \/ WaitCancelled \/ TwoSeconds
    BY <1>1, <2>2, SaidAreFrames
       DEF LspInv, LspTypeOK, LspPcs, WriteToServerFails, Writing, Message, ReadGreetingFails,
           ReadAnswerFails, WaitCancelled, TwoSeconds, CloseAfterError, Close, serverVars
  <2> QED
    BY <2>1, <2>2, <2>3, <2>4, <2>5 DEF Moves
<1>4. Phases' /\ NothingEarly'
  BY <1>1 DEF LspInv, Phases, NothingEarly, Opening, Moves, StartProcess, NoSession,
              WriteToServerFails, ReadGreetingFails, ReadAnswerFails, SpawnReader, TwoSeconds,
              WaitCancelled, Goodbye, CallerGoes, ServerLeaves, CloseAfterError, Close, serverVars
<1>5. ResultOK'
  BY <1>1 DEF LspInv, ResultOK, Published, Moves, StartProcess, NoSession,
              WriteToServerFails, ReadGreetingFails, ReadAnswerFails, SpawnReader, TwoSeconds,
              WaitCancelled, Goodbye, CallerGoes, ServerLeaves, CloseAfterError, Close, serverVars
<1>6. PublicationsReachReader'
  <2>1. reader = "ended" => reader' = "ended"
    BY DEF LspInv, Phases, Moves, StartProcess, NoSession, WriteToServerFails, ReadGreetingFails,
           ReadAnswerFails, SpawnReader, TwoSeconds, WaitCancelled, Goodbye, CallerGoes,
           ServerLeaves
  <2> QED
    BY <1>1, <2>1, PublicationsStay DEF LspInv
<1>7. NoServerLeft'
  BY DEF LspInv, Phases, NoServerLeft, Moves, StartProcess, NoSession,
         WriteToServerFails, ReadGreetingFails, ReadAnswerFails, SpawnReader, TwoSeconds,
         WaitCancelled, Goodbye, CallerGoes, ServerLeaves, CloseAfterError, Close, serverVars
<1> QED
  BY <1>2, <1>3, <1>4, <1>5, <1>6, <1>7 DEF LspInv

\* didOpen is the last of what startSession writes.
LEMMA LspWriteKeeps ==
  ASSUME LspInv, WriteToServer
  PROVE  LspInv'
<1> HIDE DEF Said, Frames
<1>1. /\ UNCHANGED <<op, context, reader, diagnosticsCh, errCh, stdout, process, opened, spoken,
                     published, got, result>>
      /\ lsp \in {"initialize", "initialized", "open", "ready"} /\ process # "gone" /\ HasRoom
      /\ stdin' = Append(stdin, Message[lsp]) /\ lsp' = Then[lsp]
      /\ lsp = "ready" => op = "request"
  BY DEF WriteToServer, Writing, Message, channels, serverVars
<1>2. /\ Message[lsp] \in Heard /\ (Message[lsp] = "didOpen" => lsp = "open")
      /\ Then[lsp] \in {"initializing", "open", "ready", "requested"}
      /\ (Then[lsp] \in Opening => lsp \in {"initialize", "initialized"})
      /\ (Then[lsp] = "requested" => lsp = "ready")
  BY <1>1 DEF Message, Then, Heard, Opening
<1>3. LspWireForm'
  BY <1>1, WireStays DEF LspInv
<1>4. /\ stdin' \in Seq(Heard) /\ Len(stdin') = Len(stdin) + 1 /\ Len(stdin) \in Nat
      /\ \A i \in 1..Len(stdin) : stdin'[i] = stdin[i]
      /\ stdin'[Len(stdin) + 1] = Message[lsp]
  BY <1>1, <1>2, LspWrites DEF LspInv, LspTypeOK
<1>5. LspTypeOK'
  <2>1. Len(stdin') <= StdinCap
    BY <1>1, <1>4, LspAssumption DEF HasRoom
  <2>2. lsp' \in LspPcs /\ lsp' \notin {"closing", "done"} /\ lsp \notin {"closing", "done"}
    BY <1>1, <1>2 DEF LspPcs
  <2> HIDE DEF Heard
  <2> QED
    BY <1>1, <1>4, <2>1, <2>2 DEF LspInv, LspTypeOK
<1>6. Phases'
  BY <1>1, <1>2 DEF LspInv, Phases
<1>7. NothingEarly'
  <2> SUFFICES ASSUME lsp' \in Opening
               PROVE  ~opened /\ \A i \in 1..Len(stdin') : stdin'[i] # "didOpen"
    BY <1>1 DEF LspInv, NothingEarly
  <2>1. lsp \in Opening /\ Message[lsp] # "didOpen"
    BY <1>1, <1>2 DEF Opening
  <2> QED
    BY <1>4, <2>1 DEF LspInv, NothingEarly
<1>8. ResultOK' /\ NoServerLeft'
  BY <1>1, <1>2 DEF LspInv, ResultOK, Published, NoServerLeft
<1>9. PublicationsReachReader'
  BY <1>1, PublicationsStay DEF LspInv
<1> QED
  BY <1>3, <1>5, <1>6, <1>7, <1>8, <1>9 DEF LspInv

\* The greeting is read before the file is open: it is no publication.
LEMMA GreetingKeeps ==
  ASSUME LspInv, ReadGreeting
  PROVE  LspInv'
<1> HIDE DEF Said, Frames, Heard
<1>1. /\ UNCHANGED <<op, context, reader, diagnosticsCh, errCh, stdin, process, opened, spoken,
                     published, got, result>>
      /\ lsp = "initializing" /\ lsp' = "initialized" /\ stdout # <<>> /\ stdout' = Tail(stdout)
  BY DEF ReadGreeting, channels, serverVars
<1>2. /\ stdout' \in Seq(Frames) /\ LspWireForm'
      /\ Head(stdout).says = "diagnostics" => Published(Head(stdout))
  BY <1>1, WireRead DEF LspInv
<1>3. published = {}
  BY <1>1 DEF LspInv, NothingEarly, Opening
<1>4. Head(stdout) # Frame("diagnostics", 0, Asked)
  BY <1>2, <1>3 DEF Frame, Published
<1>5. PublicationsReachReader'
  BY <1>1, <1>4, PublicationsPassed DEF LspInv
<1>6. LspTypeOK' /\ Phases' /\ NothingEarly' /\ ResultOK' /\ NoServerLeft'
  BY <1>1, <1>2 DEF LspInv, LspTypeOK, LspPcs, Phases, NothingEarly, Opening, ResultOK, Published,
                    NoServerLeft
<1> QED
  BY <1>2, <1>5, <1>6 DEF LspInv

\* A request takes its own answer only.
LEMMA LspAnswerKeeps ==
  ASSUME LspInv, ReadAnswer
  PROVE  LspInv'
<1> DEFINE m == Head(stdout)
<1> HIDE DEF Said, Frames, Heard
<1>1. /\ UNCHANGED <<op, context, reader, diagnosticsCh, errCh, stdin, process, opened, spoken,
                     published>>
      /\ lsp = "requested" /\ stdout # <<>> /\ stdout' = Tail(stdout)
  BY DEF ReadAnswer, CloseAfterError, Close, channels, serverVars
<1>2. stdout' \in Seq(Frames) /\ LspWireForm' /\ m \in Said /\ m \in Frames
  BY <1>1, WireRead, SaidAreFrames DEF LspInv
<1>3. op = "request"
  BY <1>1 DEF LspInv, Phases
<1>4. \/ UNCHANGED <<lsp, result, got>>
      \/ lsp' = "closing" /\ result' = "error" /\ got' \in Frames
      \/ lsp' = "closing" /\ result' = "items" /\ got' = m /\ IsAnswer(m)
         /\ m.says \notin {"broken", "error", "nothing"}
  BY <1>2, SaidAreFrames DEF ReadAnswer, CloseAfterError, Close, IsAnswer
<1>5. result' = "items" => got' = Frame("request", 2, Asked)
  <2>1. result = "open"
    BY <1>1 DEF LspInv, LspTypeOK
  <2> HIDE DEF m
  <2> QED
    BY <1>2, <1>4, <2>1, AnswerForm DEF IsAnswer
<1>6. ResultOK' /\ PublicationsReachReader'
  BY <1>1, <1>3, <1>5 DEF ResultOK, PublicationsReachReader
<1>7. LspTypeOK' /\ Phases' /\ NothingEarly' /\ NoServerLeft'
  BY <1>1, <1>2, <1>4 DEF LspInv, LspTypeOK, LspPcs, Phases, NothingEarly, Opening, NoServerLeft
<1> QED
  BY <1>2, <1>6, <1>7 DEF LspInv

\* The reader hands over what it stops at, and the channels are empty before.
LEMMA ReaderReadsKeeps ==
  ASSUME LspInv, ReaderReads
  PROVE  LspInv'
<1> DEFINE m == Head(stdout)
<1> HIDE DEF Said, Frames, Heard
<1>1. /\ UNCHANGED <<op, context, lsp, stdin, process, opened, spoken, published, got, result>>
      /\ reader = "reading" /\ stdout # <<>> /\ stdout' = Tail(stdout)
  BY DEF ReaderReads, serverVars
<1>2. stdout' \in Seq(Frames) /\ m \in Said /\ m \in Frames
      /\ (m.says = "diagnostics" => Published(m))
      /\ \A i \in 1..Len(stdout') : i + 1 \in 1..Len(stdout) /\ stdout'[i] = stdout[i + 1]
  <2>1. stdout \in Seq(Frames)
    BY DEF LspInv, LspTypeOK
  <2>2. /\ stdout' \in Seq(Frames) /\ 1 \in 1..Len(stdout) /\ m = stdout[1] /\ m \in Frames
        /\ \A i \in 1..Len(stdout') : i + 1 \in 1..Len(stdout) /\ stdout'[i] = stdout[i + 1]
    BY <1>1, <2>1, LspReads
  <2> QED
    BY <2>2 DEF LspInv, LspWireForm
<1>3. diagnosticsCh = <<>> /\ errCh = <<>>
  BY <1>1 DEF LspInv, Phases
<1>4. \/ m.says = "diagnostics" /\ diagnosticsCh' = <<m>> /\ errCh' = <<>> /\ reader' = "ended"
      \/ m.says = "broken" /\ diagnosticsCh' = <<>> /\ errCh' = <<m>> /\ reader' = "ended"
      \/ m.says \notin {"diagnostics", "broken"} /\ diagnosticsCh' = <<>> /\ errCh' = <<>>
         /\ reader' = reader
  <2>1. \A x : Append(<<>>, x) = <<x>>
    OBVIOUS
  <2> QED
    BY <1>3, <2>1 DEF ReaderReads, HandOver, channels
<1>5. LspWireForm'
  <2>1. \A i \in 1..Len(stdout') :
          stdout'[i] \in Said /\ (stdout'[i].says = "diagnostics" => Published(stdout'[i]))
    BY <1>2 DEF LspInv, LspWireForm
  <2>2. \A i \in 1..Len(diagnosticsCh') : Published(diagnosticsCh'[i])
    BY <1>2, <1>4
  <2> HIDE DEF m
  <2> QED
    BY <1>1, <2>1, <2>2 DEF LspWireForm, Published
<1>6. LspTypeOK'
  <2>1. diagnosticsCh' \in Seq(Frames) /\ errCh' \in Seq(Frames)
        /\ Len(diagnosticsCh') + Len(errCh') <= 1
    <3>1. <<m>> \in Seq(Frames) /\ Len(<<m>>) = 1 /\ <<>> \in Seq(Frames) /\ Len(<<>>) = 0
      BY <1>2, OneMessage
    <3> DEFINE one == <<m>>
               none == <<>>
    <3>2. one \in Seq(Frames) /\ Len(one) = 1 /\ none \in Seq(Frames) /\ Len(none) = 0
      BY <3>1
    <3>3. diagnosticsCh' \in {one, none} /\ errCh' \in {one, none}
          /\ (diagnosticsCh' = none \/ errCh' = none)
      BY <1>4
    <3> HIDE DEF one, none, m
    <3> QED
      BY <3>2, <3>3, AtMostOne
  <2>2. reader' \in {"none", "reading", "ended"}
    BY <1>1, <1>4
  <2> HIDE DEF m
  <2> QED
    BY <1>1, <1>2, <2>1, <2>2 DEF LspInv, LspTypeOK
<1>7. Phases'
  <2> HIDE DEF m
  <2> QED
    BY <1>1, <1>4 DEF LspInv, Phases
<1>8. NothingEarly' /\ ResultOK' /\ NoServerLeft'
  BY <1>1 DEF LspInv, NothingEarly, ResultOK, Published, NoServerLeft
<1>9. PublicationsReachReader'
  <2>1. CASE reader' = "ended"
    BY <2>1 DEF PublicationsReachReader
  <2>2. CASE m.says # "diagnostics" /\ reader' = reader
    <3>1. m # Frame("diagnostics", 0, Asked)
      BY <2>2 DEF Frame
    <3> QED
      BY <1>1, <2>2, <3>1, PublicationsPassed DEF LspInv
  <2> HIDE DEF m
  <2> QED
    BY <1>4, <2>1, <2>2
<1> QED
  BY <1>5, <1>6, <1>7, <1>8, <1>9 DEF LspInv

\* Or it ends without a word.
LEMMA ReaderEndsKeeps ==
  ASSUME LspInv, ReaderEnds
  PROVE  LspInv'
<1> HIDE DEF Said, Frames, Heard
<1>1. /\ UNCHANGED <<op, context, lsp, diagnosticsCh, stdin, stdout, process, opened, spoken,
                     published, got, result>>
      /\ reader = "reading" /\ reader' = "ended"
      /\ errCh' = errCh \/ errCh' = Append(errCh, NoFrame)
  BY DEF ReaderEnds, pipes, serverVars
<1>2. diagnosticsCh = <<>> /\ errCh = <<>>
  BY <1>1 DEF LspInv, Phases
<1>3. errCh' \in Seq(Frames) /\ Len(diagnosticsCh') + Len(errCh') <= 1
  <2>1. /\ Append(<<>>, NoFrame) \in Seq(Frames) /\ Len(Append(<<>>, NoFrame)) = 1
        /\ <<>> \in Seq(Frames) /\ Len(<<>>) = 0
    BY SaidAreFrames, OneMessage
  <2> DEFINE one == Append(<<>>, NoFrame)
             none == <<>>
  <2>2. one \in Seq(Frames) /\ Len(one) = 1 /\ none \in Seq(Frames) /\ Len(none) = 0
    BY <2>1
  <2>3. diagnosticsCh' = none /\ errCh' \in {one, none}
    BY <1>1, <1>2
  <2> HIDE DEF one, none
  <2> QED
    BY <2>2, <2>3, AtMostOne
<1>4. LspWireForm'
  BY <1>1, WireStays DEF LspInv
<1>5. LspTypeOK'
  BY <1>1, <1>3 DEF LspInv, LspTypeOK
<1>6. Phases' /\ NothingEarly' /\ ResultOK' /\ PublicationsReachReader' /\ NoServerLeft'
  BY <1>1 DEF LspInv, Phases, NothingEarly, ResultOK, Published, PublicationsReachReader,
              NoServerLeft
<1> QED
  BY <1>4, <1>5, <1>6 DEF LspInv

\* The caller takes what is in the channel.
LEMMA LspTakeKeeps ==
  ASSUME LspInv, TakeDiagnostics \/ TakeError
  PROVE  LspInv'
<1> HIDE DEF Said, Frames, Heard
<1>1. /\ UNCHANGED <<op, context, reader, stdin, stdout, process, opened, spoken, published>>
      /\ lsp = "waiting" /\ lsp' = "closing"
      /\ \/ /\ diagnosticsCh # <<>> /\ diagnosticsCh' = Tail(diagnosticsCh) /\ errCh' = errCh
            /\ result' = "items" /\ got' = Head(diagnosticsCh)
         \/ /\ errCh # <<>> /\ errCh' = Tail(errCh) /\ diagnosticsCh' = diagnosticsCh
            /\ result' = "error" /\ got' = NoFrame
  BY DEF TakeDiagnostics, TakeError, CloseAfterError, Close, serverVars
<1>2. op = "diagnostics" /\ reader = "ended"
  BY <1>1 DEF LspInv, Phases
<1>3. diagnosticsCh \in Seq(Frames) /\ errCh \in Seq(Frames)
      /\ Len(diagnosticsCh) + Len(errCh) <= 1 /\ Len(diagnosticsCh) \in Nat /\ Len(errCh) \in Nat
  BY DEF LspInv, LspTypeOK
<1>4. /\ diagnosticsCh' \in Seq(Frames) /\ errCh' \in Seq(Frames)
      /\ Len(diagnosticsCh') + Len(errCh') <= 1
      /\ got' \in Frames
      /\ result' = "items" => Published(got')
      /\ \A i \in 1..Len(diagnosticsCh') : Published(diagnosticsCh'[i])
  <2>1. CASE diagnosticsCh # <<>> /\ diagnosticsCh' = Tail(diagnosticsCh) /\ errCh' = errCh
             /\ got' = Head(diagnosticsCh)
    <3>1. /\ diagnosticsCh' \in Seq(Frames) /\ Len(diagnosticsCh') = Len(diagnosticsCh) - 1
          /\ 1 \in 1..Len(diagnosticsCh) /\ got' = diagnosticsCh[1] /\ got' \in Frames
          /\ \A i \in 1..Len(diagnosticsCh') :
               i + 1 \in 1..Len(diagnosticsCh) /\ diagnosticsCh'[i] = diagnosticsCh[i + 1]
      BY <1>3, <2>1, LspReads
    <3> QED
      BY <1>3, <2>1, <3>1 DEF LspInv, LspWireForm
  <2>2. CASE errCh # <<>> /\ errCh' = Tail(errCh) /\ diagnosticsCh' = diagnosticsCh
             /\ got' = NoFrame /\ result' = "error"
    <3>1. errCh' \in Seq(Frames) /\ Len(errCh') = Len(errCh) - 1
      BY <1>3, <2>2, LspReads
    <3> QED
      BY <1>3, <2>2, <3>1, SaidAreFrames DEF LspInv, LspWireForm
  <2> QED
    BY <1>1, <2>1, <2>2
<1>5. LspWireForm'
  BY <1>1, <1>4 DEF LspInv, LspWireForm, Published
<1>6. LspTypeOK'
  BY <1>1, <1>4 DEF LspInv, LspTypeOK, LspPcs
<1>7. ResultOK'
  BY <1>1, <1>2, <1>4 DEF ResultOK, Published
<1>8. Phases' /\ NothingEarly' /\ PublicationsReachReader' /\ NoServerLeft'
  BY <1>1, <1>2 DEF LspInv, Phases, NothingEarly, Opening, PublicationsReachReader, NoServerLeft
<1> QED
  BY <1>5, <1>6, <1>7, <1>8 DEF LspInv

\* What the server writes comes last on the wire.
LEMMA WireWritten ==
  ASSUME LspTypeOK, LspWireForm, NEW m \in Said, stdout' = Append(stdout, m),
         UNCHANGED diagnosticsCh, published \subseteq published',
         m.says = "diagnostics" => m.file \in published'
  PROVE  /\ stdout' \in Seq(Frames) /\ LspWireForm'
         /\ \A i \in DOMAIN stdout : i \in DOMAIN stdout' /\ stdout'[i] = stdout[i]
         /\ \E i \in DOMAIN stdout' : stdout'[i] = m
<1> HIDE DEF Said, Frames
<1>1. stdout \in Seq(Frames) /\ m \in Frames
  BY SaidAreFrames DEF LspTypeOK
<1>2. /\ stdout' \in Seq(Frames) /\ Len(stdout') = Len(stdout) + 1 /\ Len(stdout) \in Nat
      /\ \A i \in 1..Len(stdout) : stdout'[i] = stdout[i]
      /\ stdout'[Len(stdout) + 1] = m
  BY <1>1, LspWrites
<1>3. DOMAIN stdout = 1..Len(stdout) /\ DOMAIN stdout' = 1..Len(stdout')
  BY <1>1, <1>2, LenProperties
<1>4. ASSUME NEW i \in 1..Len(stdout')
      PROVE  stdout'[i] \in Said /\ (stdout'[i].says = "diagnostics" => Published(stdout[i])')
  <2>1. CASE i \in 1..Len(stdout)
    BY <1>2, <2>1 DEF LspWireForm, Published
  <2>2. CASE i = Len(stdout) + 1
    BY <1>2, <2>2 DEF Published
  <2> QED
    BY <1>2, <2>1, <2>2
<1>5. \A i \in 1..Len(diagnosticsCh') : Published(diagnosticsCh[i])'
  BY DEF LspWireForm, Published
<1>6. Len(stdout) + 1 \in DOMAIN stdout'
  BY <1>2, <1>3
<1> QED
  BY <1>2, <1>3, <1>4, <1>5, <1>6 DEF LspWireForm, Published

\* The server answers what it hears, and hears of the file last.
LEMMA HearsKeeps ==
  ASSUME LspInv, ServerHears
  PROVE  LspInv'
<1> HIDE DEF Frames
<1>1. /\ UNCHANGED <<op, context, lsp, reader, diagnosticsCh, errCh, process, spoken, published,
                     got, result>>
      /\ process = "up" /\ stdin # <<>> /\ stdin' = Tail(stdin)
      /\ opened' = (opened \/ Head(stdin) = "didOpen")
  BY DEF ServerHears, channels
<1>2. /\ stdin' \in Seq(Heard) /\ Len(stdin') = Len(stdin) - 1
      /\ 1 \in 1..Len(stdin) /\ Head(stdin) = stdin[1]
      /\ \A i \in 1..Len(stdin') : i + 1 \in 1..Len(stdin) /\ stdin'[i] = stdin[i + 1]
  <2> HIDE DEF Heard
  <2> QED
    BY <1>1, LspReads DEF LspInv, LspTypeOK
<1>3. \/ stdout' = stdout
      \/ \E m \in Said : stdout' = Append(stdout, m) /\ m.says \in {"initialize", "request", "error"}
  <2>1. CASE ~(Head(stdin) \in {"initialize", "request"})
    BY <2>1 DEF ServerHears
  <2>2. CASE Head(stdin) \in {"initialize", "request"}
    <3> DEFINE id == IF Head(stdin) = "initialize" THEN 1 ELSE 2
    <3>1. PICK what \in {Head(stdin), "error"} : stdout' = Append(stdout, Frame(what, id, Asked))
      BY <2>2 DEF ServerHears
    <3>2. Frame(what, id, Asked) \in Said
      BY <2>2, <3>1 DEF Said
    <3>3. Frame(what, id, Asked).says = what
      BY DEF Frame
    <3> HIDE DEF id
    <3> QED
      BY <2>2, <3>1, <3>2, <3>3
  <2> QED
    BY <2>1, <2>2
<1> HIDE DEF Said, Heard
<1>4. /\ stdout' \in Seq(Frames) /\ LspWireForm'
      /\ \A i \in DOMAIN stdout : i \in DOMAIN stdout' /\ stdout'[i] = stdout[i]
  <2>1. CASE stdout' = stdout
    BY <1>1, <2>1, WireStays DEF LspInv, LspTypeOK
  <2>2. ASSUME NEW m \in Said, stdout' = Append(stdout, m), m.says \in {"initialize", "request", "error"}
        PROVE  /\ stdout' \in Seq(Frames) /\ LspWireForm'
               /\ \A i \in DOMAIN stdout : i \in DOMAIN stdout' /\ stdout'[i] = stdout[i]
    BY <1>1, <2>2, WireWritten DEF LspInv
  <2> QED
    BY <1>3, <2>1, <2>2
<1>5. LspTypeOK'
  <2>1. opened' \in BOOLEAN
    BY <1>1 DEF LspInv, LspTypeOK
  <2>2. Len(stdin') <= StdinCap
    BY <1>2, LspAssumption, LenProperties DEF LspInv, LspTypeOK
  <2> QED
    BY <1>1, <1>2, <1>4, <2>1, <2>2 DEF LspInv, LspTypeOK
<1>6. Phases' /\ ResultOK' /\ NoServerLeft'
  BY <1>1 DEF LspInv, Phases, ResultOK, Published, NoServerLeft
<1>7. NothingEarly'
  <2>1. lsp' \in Opening => ~opened' /\ \A i \in 1..Len(stdin') : stdin'[i] # "didOpen"
    BY <1>1, <1>2 DEF LspInv, NothingEarly
  <2>2. ~opened' => published' = {}
    BY <1>1 DEF LspInv, NothingEarly, LspTypeOK
  <2> QED
    BY <2>1, <2>2 DEF NothingEarly
<1>8. PublicationsReachReader'
  BY <1>1, <1>4 DEF LspInv, PublicationsReachReader
<1> QED
  BY <1>4, <1>5, <1>6, <1>7, <1>8 DEF LspInv

\* What it publishes is on the wire.
LEMMA SpeaksKeeps ==
  ASSUME LspInv, ServerSpeaks
  PROVE  LspInv'
<1> HIDE DEF Frames
<1>1. PICK m \in Spoken :
        /\ m.says = "diagnostics" => opened
        /\ stdout' = Append(stdout, m)
        /\ published' = IF m.says = "diagnostics" THEN published \cup {m.file} ELSE published
  BY DEF ServerSpeaks
<1>2. /\ UNCHANGED <<op, context, lsp, reader, diagnosticsCh, errCh, stdin, process, opened, got,
                     result>>
      /\ process = "up" /\ spoken < MaxSpoken /\ spoken' = spoken + 1
  BY DEF ServerSpeaks, channels
<1>3. m \in Said
  BY DEF Said
<1> HIDE DEF Said, Spoken, Heard
<1>4. published \subseteq published' /\ published' \subseteq Files
      /\ (m.says = "diagnostics" => m.file \in published')
  BY <1>1, SpokenForm DEF LspInv, LspTypeOK
<1>5. /\ stdout' \in Seq(Frames) /\ LspWireForm'
      /\ \A i \in DOMAIN stdout : i \in DOMAIN stdout' /\ stdout'[i] = stdout[i]
      /\ \E i \in DOMAIN stdout' : stdout'[i] = m
  BY <1>1, <1>2, <1>3, <1>4, WireWritten DEF LspInv
<1>6. spoken' \in 0..MaxSpoken
  BY <1>2, LspAssumption DEF LspInv, LspTypeOK
<1>7. LspTypeOK'
  BY <1>2, <1>4, <1>5, <1>6 DEF LspInv, LspTypeOK
<1>8. Phases' /\ NoServerLeft'
  BY <1>2 DEF LspInv, Phases, NoServerLeft
<1>9. NothingEarly'
  BY <1>1, <1>2 DEF LspInv, NothingEarly
<1>10. ResultOK'
  BY <1>2, <1>4 DEF LspInv, ResultOK, Published
<1>11. PublicationsReachReader'
  <2> SUFFICES ASSUME op = "diagnostics", Asked \in published', reader # "ended"
               PROVE  \E i \in DOMAIN stdout' : stdout'[i] = Frame("diagnostics", 0, Asked)
    BY <1>2 DEF PublicationsReachReader
  <2>1. CASE Asked \in published
    BY <1>5, <2>1 DEF LspInv, PublicationsReachReader
  <2>2. CASE Asked \notin published
    <3>1. m.says = "diagnostics" /\ m.file = Asked
      BY <1>1, <2>2
    <3>2. m = Frame("diagnostics", 0, Asked)
      BY <1>3, <3>1, PublicationForm
    <3> QED
      BY <1>5, <3>2
  <2> QED
    BY <2>1, <2>2
<1> QED
  BY <1>5, <1>7, <1>8, <1>9, <1>10, <1>11 DEF LspInv

-----------------------------------------------------------------------------
(* The theorems *)

\* At the start nothing has been said.
LEMMA LspStarts == LspInit => LspInv
<1> SUFFICES ASSUME LspInit
             PROVE  LspInv
  OBVIOUS
<1> HIDE DEF Frames, Heard, Said
<1>1. NoFrame \in Frames
  BY SaidAreFrames
<1>2. LspTypeOK
  <2>1. /\ diagnosticsCh \in Seq(Frames) /\ errCh \in Seq(Frames) /\ stdout \in Seq(Frames)
        /\ stdin \in Seq(Heard)
    BY DEF LspInit
  <2>2. Len(diagnosticsCh) + Len(errCh) <= 1 /\ Len(stdin) <= StdinCap
    BY LspAssumption DEF LspInit
  <2>3. spoken \in 0..MaxSpoken /\ got \in Frames
    BY <1>1, LspAssumption DEF LspInit
  <2>4. /\ op \in {"diagnostics", "request"} /\ context \in {"live", "done"}
        /\ lsp \in LspPcs /\ reader \in {"none", "reading", "ended"}
        /\ process \in {"down", "up", "silent", "gone"}
        /\ opened \in BOOLEAN /\ published \subseteq Files
        /\ result \in {"open", "items", "empty", "error"}
        /\ (result = "open") <=> (lsp \notin {"closing", "done"})
    BY DEF LspInit, LspPcs
  <2> QED
    BY <2>1, <2>2, <2>3, <2>4 DEF LspTypeOK
<1>3. LspWireForm /\ Phases /\ NothingEarly
  BY DEF LspInit, LspWireForm, Phases, NothingEarly
<1>4. ResultOK /\ PublicationsReachReader /\ NoServerLeft
  BY DEF LspInit, ResultOK, PublicationsReachReader, NoServerLeft
<1> QED
  BY <1>2, <1>3, <1>4 DEF LspInv

\* The invariant is inductive.
LEMMA LspSteps == LspInv /\ [LspNext]_lspVars => LspInv'
<1> SUFFICES ASSUME LspInv, [LspNext]_lspVars
             PROVE  LspInv'
  OBVIOUS
<1>1. CASE Moves
  BY <1>1, MovesKeep
<1>2. CASE WriteToServer \/ ReadGreeting \/ ReadAnswer
  BY <1>2, LspWriteKeeps, GreetingKeeps, LspAnswerKeeps
<1>3. CASE ReaderReads \/ ReaderEnds \/ TakeDiagnostics \/ TakeError
  BY <1>3, ReaderReadsKeeps, ReaderEndsKeeps, LspTakeKeeps
<1>4. CASE ServerHears \/ ServerSpeaks
  BY <1>4, HearsKeeps, SpeaksKeeps
<1>5. CASE UNCHANGED lspVars
  BY <1>5 DEF lspVars, channels, pipes, serverVars, LspInv, LspTypeOK, LspWireForm, Published, Phases,
              NothingEarly, ResultOK, PublicationsReachReader, NoServerLeft, HasRoom
<1> QED
  BY <1>1, <1>2, <1>3, <1>4, <1>5 DEF LspNext, LspCaller, LspReader, Moves

\* It holds of every call.
THEOREM LspInvariant == LspSpec => []LspInv
  BY LspStarts, LspSteps, PTL DEF LspSpec

\* Every variable keeps its type and every channel its one place: the reader can
\* always hand over what it has read, so that it never blocks on a caller who is gone.
THEOREM LspTypesKept == LspSpec => []LspTypeOK
<1>1. LspInv => LspTypeOK
  BY DEF LspInv
<1> QED
  BY <1>1, LspInvariant, PTL

\* A request returns the answer to itself, whatever arrives before; Diagnostics
\* returns a publication, and what was published for its file is not lost on
\* the way to the reader.
THEOREM CallsReturnWhatWasAsked == LspSpec => []AnswersAsAsked
<1>1. ASSUME LspInv
      PROVE  ReturnsWhatWasAsked
  BY <1>1 DEF LspInv, ResultOK, Published, ReturnsWhatWasAsked
<1>2. LspInv => AnswersAsAsked
  BY <1>1 DEF LspInv, AnswersAsAsked
<1> QED
  BY <1>2, LspInvariant, PTL

\* No way out of a call leaves the server's process behind.
THEOREM NoProcessOutlivesCall == LspSpec => []NoServerLeft
<1>1. LspInv => NoServerLeft
  BY DEF LspInv
<1> QED
  BY <1>1, LspInvariant, PTL

-----------------------------------------------------------------------------
(* The parts together *)

\* The parts that have not begun, or are over, have the invariants of the others.
LEMMA IdleParts ==
  /\ McpOver => McpInv
  /\ LspOver => LspInv
  /\ DesktopOver => DeskInv
<1>1. ASSUME McpOver
      PROVE  McpInv
  <2>1. /\ toServer \in Seq(Requests) /\ toClient \in Seq(Answers \cup Unasked)
        /\ Len(toServer) = 0 /\ Len(toClient) = 0
    BY <1>1, EmptySeq DEF McpOver
  <2>2. taken \in Answers \cup Unasked
    BY <1>1 DEF McpOver, Nothing, Unasked
  <2>3. stderr \in 0..StderrCap /\ unasked \in 0..MaxUnasked
    BY <1>1, McpAssumption DEF McpOver
  <2>4. McpTypeOK
    BY <1>1, <2>1, <2>2, <2>3 DEF McpOver, McpTypeOK, Transports, CallPcs
  <2>5. WireForm /\ InTime
    BY <1>1, <2>1 DEF McpOver, WireForm, InTime
  <2>6. GreetedFirst /\ AnswersFit
    BY <1>1, <2>1 DEF McpOver, GreetedFirst, AnswersFit, OkIsAnswered, GreetsFirst
  <2> QED
    BY <2>4, <2>5, <2>6 DEF McpInv
<1>2. ASSUME LspOver
      PROVE  LspInv
  <2>1. /\ diagnosticsCh \in Seq(Frames) /\ errCh \in Seq(Frames) /\ stdout \in Seq(Frames)
        /\ stdin \in Seq(Heard)
    BY <1>2 DEF LspOver
  <2>2. Len(diagnosticsCh) + Len(errCh) <= 1 /\ Len(stdin) <= StdinCap
    BY <1>2, LspAssumption DEF LspOver
  <2>3. spoken \in 0..MaxSpoken /\ got \in Frames
    BY <1>2, SaidAreFrames, LspAssumption DEF LspOver
  <2>4. /\ op \in {"diagnostics", "request"} /\ context \in {"live", "done"}
        /\ lsp \in LspPcs /\ reader \in {"none", "reading", "ended"}
        /\ process \in {"down", "up", "silent", "gone"}
        /\ opened \in BOOLEAN /\ published \subseteq Files
        /\ result \in {"open", "items", "empty", "error"}
        /\ (result = "open") <=> (lsp \notin {"closing", "done"})
    BY <1>2 DEF LspOver, LspPcs
  <2>5. LspTypeOK
    BY <2>1, <2>2, <2>3, <2>4 DEF LspTypeOK
  <2>6. LspWireForm /\ Phases /\ NothingEarly
    BY <1>2 DEF LspOver, LspWireForm, Phases, NothingEarly, Opening
  <2>7. ResultOK /\ PublicationsReachReader /\ NoServerLeft
    BY <1>2 DEF LspOver, ResultOK, PublicationsReachReader, NoServerLeft
  <2> QED
    BY <2>5, <2>6, <2>7 DEF LspInv
<1>3. ASSUME DesktopOver
      PROVE  DeskInv
  <2>1. attempts \in 0..Attempts /\ turns \in Nat
    BY <1>3, DesktopAssumption DEF DesktopOver
  <2>2. DesktopTypeOK
    BY <1>3, <2>1 DEF DesktopOver, DesktopTypeOK, Answering, Modes
  <2> QED
    BY <1>3, <2>1, <2>2 DEF DesktopOver, DeskInv, ShownAsItIs, Answering, Modes, Early
<1> QED
  BY <1>1, <1>2, <1>3

\* Every module's variables keep their types, whichever part holds a connection.
THEOREM ConnectionsTypesKept == MCSpec => []ConnectionsTypeOK
<1> DEFINE all == <<part, vars, mcpVars, toolsVars, lspVars, statusVars, deskVars>>
           Inv == HubInv /\ McpInv /\ ToolsInv /\ LspInv /\ StatusInv /\ DeskInv
<1>1. MCInit => Inv
  <2> SUFFICES ASSUME MCInit
               PROVE  Inv
    OBVIOUS
  <2>1. HubInv
    BY InitHubInv DEF MCInit
  <2>2. McpInv
    BY InitMcpInv, IdleParts DEF MCInit
  <2>3. ToolsInv
    BY InitToolsInv DEF MCInit, ToolsIdle
  <2>4. LspInv
    BY LspStarts, IdleParts DEF MCInit
  <2>5. StatusInv
    BY StatusInvInit DEF MCInit, StatusIdle
  <2>6. DeskInv
    BY DeskInvInit, IdleParts DEF MCInit
  <2> QED
    BY <2>1, <2>2, <2>3, <2>4, <2>5, <2>6
<1>2. [MCNext]_all =>
        /\ [Next]_vars /\ [McpNext]_mcpVars /\ [ToolsNext]_toolsVars /\ [LspNext]_lspVars
        /\ [StatusNext]_statusVars /\ [DesktopNext]_deskVars
  BY DEF MCNext, In
<1>3. Inv /\ [MCNext]_all => Inv'
  BY <1>2, NextKeepsHubInv, NextMcpInv, NextToolsInv, LspSteps, StatusInvNext, DeskInvNext
<1>4. Inv => ConnectionsTypeOK
  BY DEF HubInv, McpInv, ToolsInv, LspInv, StatusInv, DeskInv, ConnectionsTypeOK
<1> QED
  BY <1>1, <1>3, <1>4, PTL DEF MCSpec
===============================================================================
