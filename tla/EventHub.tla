------------------------------- MODULE EventHub -------------------------------
(***************************************************************************)
(* The event hub of service/internal/events/hub.go and the handler of its  *)
(* WebSocket connections, handleWS of service/internal/httpserver.         *)
(*                                                                         *)
(* Every goroutine that has something to tell broadcasts: it takes the     *)
(* READ lock of the hub and writes to one connection after the other.  The *)
(* handler of a connection takes the write lock to add and to remove it.   *)
(* Two broadcasts can thus write to the same connection, which the         *)
(* WebSocket library does not allow: it keeps a flag that a write is under *)
(* way, set and tested without a lock, and panics when it finds the flag   *)
(* in the wrong state.  net/http recovers a panic in a handler; that one   *)
(* in the background indexer would end the process is left out.            *)
(*                                                                         *)
(* External, as the code uses them: sync.RWMutex (a writer that waits      *)
(* keeps new readers out), WriteMessage and Close of the library, and the  *)
(* peers.  The wire to a peer holds Cap frames; a write to a full one      *)
(* blocks, for there is no deadline.                                       *)
(***************************************************************************)
EXTENDS Naturals

CONSTANTS
  Conns,      \* connections, one handler each
  Casters,    \* goroutines that broadcast
  MaxEvents,  \* bound on the events of each
  Cap,        \* frames the wire to a peer holds
  None

ASSUME HubAssumption ==
  /\ MaxEvents \in Nat /\ Cap \in Nat \ {0}
  /\ None \notin Conns

VARIABLES
  readers,    \* casters that hold the read lock
  announced,  \* the connection whose handler waits for the write lock
  clients,    \* the connections of the hub
  hpc,        \* where each handler is
  closed,     \* connections that were closed on this side
  peer,       \* "here", "left" (the handler's read notices), "lost" (it does not)
  wire,       \* frames under way to each peer
  isWriting,  \* the library's flag of each connection
  bpc,        \* where each caster is in Broadcast
  todo,       \* connections it has still to write to
  at,         \* the connection it writes to
  sent,       \* events it has begun to broadcast
  delivered,  \* history: connections the current event of a caster was written to
  failed      \* history: connections a write has failed on

lock == <<readers, announced>>
network == <<peer, wire>>
library == <<closed, isWriting>>
caster == <<bpc, todo, at, sent, delivered>>
vars == <<lock, clients, hpc, library, network, caster, failed>>

HandlerPcs == {"idle", "adding", "reading", "removing", "closing", "gone"}
CasterPcs == {"idle", "waiting", "iterating", "writing", "panicked"}

Init ==
  /\ readers = {} /\ announced = None
  /\ clients = {}
  /\ hpc = [c \in Conns |-> "idle"]
  /\ closed = {}
  /\ peer = [c \in Conns |-> "here"]
  /\ wire = [c \in Conns |-> 0]
  /\ isWriting = {}
  /\ bpc = [b \in Casters |-> "idle"]
  /\ todo = [b \in Casters |-> {}]
  /\ at = [b \in Casters |-> None]
  /\ sent = [b \in Casters |-> 0]
  /\ delivered = [b \in Casters |-> {}]
  /\ failed = {}

-----------------------------------------------------------------------------
(* Helpers *)

Set(f, x, v) == [f EXCEPT ![x] = v]

HandlerMoves(c, from, to) ==
  /\ hpc[c] = from
  /\ hpc' = Set(hpc, c, to)

CasterMoves(b, from, to) ==
  /\ bpc[b] = from
  /\ bpc' = Set(bpc, b, to)

Broken(c) == c \in closed \/ peer[c] # "here"

-----------------------------------------------------------------------------
(* handleWS *)

\* The connection is upgraded and the handler calls Add.
Connect(c) ==
  /\ HandlerMoves(c, "idle", "adding")
  /\ UNCHANGED <<lock, clients, library, network, caster, failed>>

\* Lock: one handler at a time waits for the readers, and keeps new ones out.
AnnounceWriter(c) ==
  /\ hpc[c] \in {"adding", "removing"}
  /\ announced = None
  /\ announced' = c
  /\ UNCHANGED <<readers, clients, hpc, library, network, caster, failed>>

\* What the handler of c does once the readers have gone.
HasLock(c) == announced = c /\ readers = {}

Add(c) ==
  /\ HasLock(c)
  /\ HandlerMoves(c, "adding", "reading")
  /\ clients' = clients \cup {c}
  /\ announced' = None
  /\ UNCHANGED <<readers, library, network, caster, failed>>

\* ReadMessage returns an error: the peer has left, or Close was called.
ReadEnds(c) ==
  /\ HandlerMoves(c, "reading", "removing")
  /\ peer[c] = "left" \/ c \in closed
  /\ UNCHANGED <<lock, clients, library, network, caster, failed>>

\* Mutated form of Remove: the map is changed without the lock.
RemoveUnlocked(c) ==
  /\ HandlerMoves(c, "removing", "closing")
  /\ clients' = clients \ {c}
  /\ announced' = IF announced = c THEN None ELSE announced
  /\ UNCHANGED <<readers, library, network, caster, failed>>

Remove(c) ==
  /\ HasLock(c)
  /\ HandlerMoves(c, "removing", "closing")
  /\ clients' = clients \ {c}
  /\ announced' = None
  /\ UNCHANGED <<readers, library, network, caster, failed>>

CloseConn(c) ==
  /\ HandlerMoves(c, "closing", "gone")
  /\ closed' = closed \cup {c}
  /\ UNCHANGED <<lock, clients, isWriting, network, caster, failed>>

-----------------------------------------------------------------------------
(* Broadcast *)

\* The event is marshalled; one that cannot be is dropped and changes nothing.
Broadcast(b) ==
  /\ CasterMoves(b, "idle", "waiting")
  /\ sent[b] < MaxEvents
  /\ sent' = Set(sent, b, sent[b] + 1)
  /\ UNCHANGED <<lock, clients, hpc, library, network, todo, at, delivered, failed>>

\* RLock
Enter(b) ==
  /\ CasterMoves(b, "waiting", "iterating")
  /\ announced = None
  /\ readers' = readers \cup {b}
  /\ todo' = Set(todo, b, clients)
  /\ delivered' = Set(delivered, b, {})
  /\ UNCHANGED <<announced, clients, hpc, library, network, at, sent, failed>>

\* WriteMessage begins.  The flag may be set by another caster that is not seen.
StartWrite(b, c) ==
  /\ CasterMoves(b, "iterating", "writing")
  /\ c \in todo[b]
  /\ todo' = Set(todo, b, todo[b] \ {c})
  /\ at' = Set(at, b, c)
  /\ isWriting' = isWriting \cup {c}
  /\ UNCHANGED <<lock, clients, hpc, closed, network, sent, delivered, failed>>

\* The flag is seen: the library panics.  RUnlock is deferred and runs.
Collide(b, c) ==
  /\ CasterMoves(b, "iterating", "panicked")
  /\ c \in todo[b] \cap isWriting
  /\ readers' = readers \ {b}
  /\ UNCHANGED <<announced, clients, hpc, library, network, todo, at, sent, delivered,
                 failed>>

\* After the frame, or the error, the flag is cleared; when it is clear already
\* the library panics too.
EndWrite(b, to) ==
  LET c == at[b]
  IN \/ /\ c \in isWriting
        /\ isWriting' = isWriting \ {c}
        /\ CasterMoves(b, "writing", to)
        /\ UNCHANGED readers
     \/ /\ c \notin isWriting
        /\ CasterMoves(b, "writing", "panicked")
        /\ readers' = readers \ {b}
        /\ UNCHANGED isWriting

\* Mutated form of FinishWrite: the write does not wait for room on the wire.
FinishWriteUnbounded(b) ==
  /\ EndWrite(b, "iterating")
  /\ ~Broken(at[b])
  /\ wire' = Set(wire, at[b], wire[at[b]] + 1)
  /\ delivered' = Set(delivered, b, delivered[b] \cup {at[b]})
  /\ UNCHANGED <<announced, clients, hpc, closed, peer, todo, at, sent, failed>>

\* WriteMessage returns nil.
FinishWrite(b) ==
  /\ EndWrite(b, "iterating")
  /\ ~Broken(at[b])
  /\ wire[at[b]] < Cap
  /\ wire' = Set(wire, at[b], wire[at[b]] + 1)
  /\ delivered' = Set(delivered, b, delivered[b] \cup {at[b]})
  /\ UNCHANGED <<announced, clients, hpc, closed, peer, todo, at, sent, failed>>

\* Mutated forms of WriteFails: the broadcast ends at the first error; the
\* connection is not closed; it is removed from the map, under the read lock.
WriteFailsAndReturns(b) ==
  /\ EndWrite(b, "iterating")
  /\ Broken(at[b])
  /\ closed' = closed \cup {at[b]}
  /\ failed' = failed \cup {at[b]}
  /\ todo' = Set(todo, b, {})
  /\ UNCHANGED <<announced, clients, hpc, network, at, sent, delivered>>

WriteFailsUnclosed(b) ==
  /\ EndWrite(b, "iterating")
  /\ Broken(at[b])
  /\ failed' = failed \cup {at[b]}
  /\ UNCHANGED <<announced, clients, hpc, closed, network, todo, at, sent, delivered>>

RemoveInBroadcast(b) ==
  /\ EndWrite(b, "iterating")
  /\ Broken(at[b])
  /\ readers = {}
  /\ clients' = clients \ {at[b]}
  /\ failed' = failed \cup {at[b]}
  /\ UNCHANGED <<announced, hpc, closed, network, todo, at, sent, delivered>>

\* The connection is closed, which its handler will notice, and the loop goes on.
WriteFails(b) ==
  /\ EndWrite(b, "iterating")
  /\ Broken(at[b])
  /\ closed' = closed \cup {at[b]}
  /\ failed' = failed \cup {at[b]}
  /\ UNCHANGED <<announced, clients, hpc, network, todo, at, sent, delivered>>

\* RUnlock
Leave(b) ==
  /\ CasterMoves(b, "iterating", "idle")
  /\ todo[b] = {}
  /\ readers' = readers \ {b}
  /\ UNCHANGED <<announced, clients, hpc, library, network, todo, at, sent, delivered,
                 failed>>

-----------------------------------------------------------------------------
(* The peers *)

Receive(c) ==
  /\ peer[c] = "here" /\ wire[c] > 0
  /\ wire' = Set(wire, c, wire[c] - 1)
  /\ UNCHANGED <<lock, clients, hpc, library, peer, caster, failed>>

PeerGoes(c, how) ==
  /\ peer[c] = "here" /\ hpc[c] # "idle"
  /\ peer' = Set(peer, c, how)
  /\ UNCHANGED <<lock, clients, hpc, library, wire, caster, failed>>

-----------------------------------------------------------------------------
Handler(c) ==
  AnnounceWriter(c) \/ Add(c) \/ ReadEnds(c) \/ Remove(c) \/ CloseConn(c)

Casting(b) ==
  \/ Enter(b)
  \/ \E c \in Conns : StartWrite(b, c) \/ Collide(b, c)
  \/ FinishWrite(b) \/ WriteFails(b) \/ Leave(b)

Next ==
  \/ \E c \in Conns : Connect(c) \/ Handler(c) \/ Receive(c)
  \/ \E c \in Conns, how \in {"left", "lost"} : PeerGoes(c, how)
  \/ \E b \in Casters : Broadcast(b) \/ Casting(b)

Spec == Init /\ [][Next]_vars

\* Goroutines that can run do, and a peer that is there reads what it is sent:
\* a client that stays connected and stops reading would block the hub.
FairSpec ==
  /\ Spec
  /\ \A c \in Conns : WF_vars(Handler(c)) /\ WF_vars(Receive(c))
  /\ \A b \in Casters : WF_vars(Casting(b))

-----------------------------------------------------------------------------
(* Properties *)

\* Every variable has its type.
TypeOK ==
  /\ readers \subseteq Casters
  /\ announced \in Conns \cup {None}
  /\ clients \subseteq Conns
  /\ hpc \in [Conns -> HandlerPcs]
  /\ closed \subseteq Conns
  /\ peer \in [Conns -> {"here", "left", "lost"}]
  /\ wire \in [Conns -> 0..Cap]
  /\ isWriting \subseteq Conns
  /\ bpc \in [Casters -> CasterPcs]
  /\ todo \in [Casters -> SUBSET Conns]
  /\ at \in [Casters -> Conns \cup {None}]
  /\ sent \in [Casters -> 0..MaxEvents]
  /\ delivered \in [Casters -> SUBSET Conns]
  /\ failed \subseteq Conns

\* Broadcast writes to connections of the hub only: the handler of a connection
\* does not get past Remove, and so does not close it, while a broadcast that
\* still has it on its list is under way.
WritesToClients ==
  \A b \in Casters :
    /\ bpc[b] \in {"iterating", "writing"} => todo[b] \subseteq clients
    /\ bpc[b] = "writing" => at[b] \in clients

\* A broadcast that ends has written its event to every connection of the hub
\* that is still good: one that is broken costs the others nothing.
EveryClientServed ==
  [][\A b \in Casters :
       bpc[b] = "iterating" /\ bpc'[b] = "idle" =>
         \A c \in clients : c \in delivered[b] \/ c \in failed]_vars

\* A broadcast returns, or panics: neither the lock nor a broken connection
\* holds it for ever.
BroadcastReturns ==
  \A b \in Casters : []<>(bpc[b] \in {"idle", "panicked"})

\* A connection a write has failed on leaves the hub, though its peer vanished
\* without a word.
FailedClientRemoved == \A c \in Conns : []<>(c \in failed => c \notin clients)

\* Together: one broken connection stops neither the broadcasts nor the hub.
BreaksStayLocal == BroadcastReturns /\ FailedClientRemoved
===============================================================================
