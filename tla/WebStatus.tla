------------------------------- MODULE WebStatus -------------------------------
(***************************************************************************)
(* When the web client takes the service to be there, and when it listens  *)
(* to its events: refreshStatusLoop, the loading of sessions and models    *)
(* and the effect that owns the event socket, web/src/ui/App.tsx.          *)
(*                                                                         *)
(* A status loop asks for the status, again after a while when it fails,   *)
(* and gives up after Tries; every ten seconds another loop begins,        *)
(* whatever has become of those before.  The socket is opened, or opened   *)
(* anew, when boot or auth changes, and at no other time: one the service  *)
(* has closed is forgotten until then.                                     *)
(*                                                                         *)
(* An effect runs, with the cleanup of the one before, in the step that    *)
(* changes what it depends on.  A loop of an effect that was cleaned up    *)
(* does nothing any more and is gone.                                      *)
(*                                                                         *)
(* External: the service, how its status is, and the token it wants.       *)
(***************************************************************************)
EXTENDS Naturals, FiniteSets

CONSTANTS
  Tries,     \* STATUS_RETRY_DELAYS.length, 5 in the program
  Loops,     \* places for status loops under way
  Sockets,   \* places for sockets that have not gone yet
  NoSocket,
  MaxFlips   \* bound on the changes of the service, and of the repository

ASSUME WebStatusAssumption ==
  Tries \in Nat \ {0} /\ MaxFlips \in Nat /\ NoSocket \notin Sockets

VARIABLES
  backend,  \* "down", "bare" (neither MongoDB nor Ollama), "degraded", "healthy"
  token,    \* whether the client has the token the service wants
  flips,    \* changes so far
  cutOff,   \* history: boot was "offline" at the last change of the service
  loops,    \* each status loop: what it does, its attempt, the status it saw
  boot,     \* bootPhase
  auth,     \* authPhase
  sockets,  \* "none", "live", "lost" (onclose is due), "closing" (likewise)
  current,  \* eventSocketRef.current
  owned     \* the socket the cleanup of the effect will close

statusVars == <<backend, token, flips, cutOff, loops, boot, auth, sockets, current, owned>>

NoLoop == [does |-> "nothing", try |-> 0, saw |-> "down"]
NewLoop == [does |-> "asking", try |-> 1, saw |-> "down"]

StatusInit ==
  /\ backend \in {"down", "bare", "degraded", "healthy"} /\ token \in BOOLEAN
  /\ flips = 0 /\ cutOff = FALSE
  /\ \E l \in Loops : loops = [k \in Loops |-> IF k = l THEN NewLoop ELSE NoLoop]
  /\ boot \in {"loading", "degraded", "healthy"}  \* as the desktop shell found it
  /\ auth = "unknown"
  /\ sockets = [k \in Sockets |-> "none"]
  /\ current = NoSocket /\ owned = NoSocket

-----------------------------------------------------------------------------
(* The effect on boot and auth *)

Usable(b, a) == b \in {"healthy", "degraded"} /\ a = "ready"

\* Its cleanup closes the socket it has opened.
Cleaned(old) ==
  [k \in Sockets |-> IF k = owned /\ old[k] = "live" THEN "closing" ELSE old[k]]

\* Mutated form of Becomes: the effect depends on auth alone.
BecomesByAuth(b, a) ==
  /\ boot' = b /\ auth' = a
  /\ IF a = auth THEN UNCHANGED <<sockets, current, owned>>
     ELSE IF Usable(b, a)
     THEN \E k \in Sockets :
            /\ sockets[k] = "none"
            /\ sockets' = [Cleaned(sockets) EXCEPT ![k] =
                             IF backend # "down" /\ token THEN "live" ELSE "lost"]
            /\ current' = k /\ owned' = k
     ELSE /\ sockets' = Cleaned(sockets)
          /\ current' = NoSocket /\ owned' = NoSocket

\* Boot and auth become b and a.  A socket to a service that is not there, or
\* that wants another token, is lost at once.
Becomes(b, a) ==
  /\ boot' = b /\ auth' = a
  /\ IF <<b, a>> = <<boot, auth>> THEN UNCHANGED <<sockets, current, owned>>
     ELSE IF Usable(b, a)
     THEN \E k \in Sockets :
            /\ sockets[k] = "none"
            /\ sockets' = [Cleaned(sockets) EXCEPT ![k] =
                             IF backend # "down" /\ token THEN "live" ELSE "lost"]
            /\ current' = k /\ owned' = k
     ELSE /\ sockets' = Cleaned(sockets)
          /\ current' = NoSocket /\ owned' = NoSocket

\* Mutated form of Closed: whichever socket has gone, there is none.
ClosedAny(k) ==
  /\ sockets[k] \in {"lost", "closing"}
  /\ sockets' = [sockets EXCEPT ![k] = "none"]
  /\ current' = NoSocket
  /\ UNCHANGED <<backend, token, flips, cutOff, loops, boot, auth, owned>>

\* onclose
Closed(k) ==
  /\ sockets[k] \in {"lost", "closing"}
  /\ sockets' = [sockets EXCEPT ![k] = "none"]
  /\ current' = IF current = k THEN NoSocket ELSE current
  /\ owned' = IF owned = k THEN NoSocket ELSE owned
  /\ UNCHANGED <<backend, token, flips, cutOff, loops, boot, auth>>

-----------------------------------------------------------------------------
(* refreshStatusLoop *)

Loop(l, does, try, saw) == loops' = [loops EXCEPT ![l] = [does |-> does, try |-> try, saw |-> saw]]

\* Mutated form of Polls: no more loops once the client is offline.
PollsUnlessOffline ==
  /\ boot # "offline"
  /\ \E l \in Loops : loops[l].does = "nothing" /\ loops' = [loops EXCEPT ![l] = NewLoop]
  /\ UNCHANGED <<backend, token, flips, cutOff, boot, auth, sockets, current, owned>>

\* A loop begins: a client that is offline is loading again.
Loading == IF boot = "offline" THEN "loading" ELSE boot

\* The interval.
Polls ==
  /\ \E l \in Loops : loops[l].does = "nothing" /\ loops' = [loops EXCEPT ![l] = NewLoop]
  /\ Becomes(Loading, auth)
  /\ UNCHANGED <<backend, token, flips, cutOff>>

\* The user picks another repository: the loops begin anew.
PicksRepo ==
  /\ flips < MaxFlips /\ flips' = flips + 1
  /\ \E l \in Loops : loops' = [k \in Loops |-> IF k = l THEN NewLoop ELSE NoLoop]
  /\ Becomes(Loading, auth)
  /\ UNCHANGED <<backend, token, cutOff>>

\* getServiceStatus answers; sessions and models are asked for.
StatusOK(l) ==
  /\ loops[l].does = "asking" /\ backend # "down"
  /\ Loop(l, "loading", loops[l].try, backend)
  /\ Becomes(IF backend = "healthy" THEN "healthy" ELSE "degraded", auth)
  /\ UNCHANGED <<backend, token, flips, cutOff>>

\* Mutated form of StatusFails: the last attempt is not the last.
StatusFailsOnceMore(l) ==
  /\ loops[l].does = "asking" /\ backend = "down"
  /\ IF loops[l].try <= Tries
     THEN Loop(l, "asking", loops[l].try + 1, "down") /\ Becomes(boot, auth)
     ELSE loops' = [loops EXCEPT ![l] = NoLoop] /\ Becomes("offline", auth)
  /\ UNCHANGED <<backend, token, flips, cutOff>>

StatusFails(l) ==
  /\ loops[l].does = "asking" /\ backend = "down"
  /\ IF loops[l].try < Tries
     THEN Loop(l, "asking", loops[l].try + 1, "down") /\ Becomes(boot, auth)
     ELSE loops' = [loops EXCEPT ![l] = NoLoop] /\ Becomes("offline", auth)
  /\ UNCHANGED <<backend, token, flips, cutOff>>

\* Sessions or models were loaded, or refused for the token: auth changes, and
\* the loops begin anew.
Loaded(l) ==
  LET a == IF token THEN "ready" ELSE "invalid"
  IN /\ loops[l].does = "loading" /\ loops[l].saw # "bare"
     /\ backend \in {"degraded", "healthy"}
     /\ loops' = IF a = auth THEN [loops EXCEPT ![l] = NoLoop]
                 ELSE [k \in Loops |-> IF k = l THEN NewLoop ELSE NoLoop]
     /\ Becomes(IF a = auth THEN boot ELSE Loading, a)
     /\ UNCHANGED <<backend, token, flips, cutOff>>

\* Nothing to load, or it cannot be: a line in the log.
NotLoaded(l) ==
  /\ loops[l].does = "loading"
  /\ loops[l].saw = "bare" \/ backend \in {"down", "bare"} \/ loops[l].saw # backend
  /\ loops' = [loops EXCEPT ![l] = NoLoop]
  /\ UNCHANGED <<backend, token, flips, cutOff, boot, auth, sockets, current, owned>>

-----------------------------------------------------------------------------
\* The service goes, comes, or loses or finds a dependency.
Flips ==
  /\ flips < MaxFlips /\ flips' = flips + 1
  /\ backend' \in {"down", "bare", "degraded", "healthy"} \ {backend}
  /\ cutOff' = (boot = "offline")
  /\ sockets' = [k \in Sockets |-> IF backend' = "down" /\ sockets[k] = "live"
                                   THEN "lost" ELSE sockets[k]]
  /\ UNCHANGED <<token, loops, boot, auth, current, owned>>

LoopSteps(l) == StatusOK(l) \/ StatusFails(l) \/ Loaded(l) \/ NotLoaded(l)

StatusNext ==
  \/ Polls \/ PicksRepo \/ Flips
  \/ \E l \in Loops : LoopSteps(l)
  \/ \E k \in Sockets : Closed(k)

\* Requests are answered or fail, the interval fires, and a close is told of.
StatusSpec ==
  /\ StatusInit /\ [][StatusNext]_statusVars
  /\ WF_statusVars(Polls)
  /\ \A l \in Loops : WF_statusVars(LoopSteps(l))
  /\ \A k \in Sockets : WF_statusVars(Closed(k))

-----------------------------------------------------------------------------
(* Properties *)

\* Every variable keeps its type, and a loop does not ask more than Tries times.
StatusTypeOK ==
  /\ flips \in 0..MaxFlips /\ {token, cutOff} \subseteq BOOLEAN
  /\ \A l \in Loops : loops[l].try \in 0..Tries
  /\ boot \in {"loading", "healthy", "degraded", "offline"}
  /\ auth \in {"unknown", "ready", "invalid"}
  /\ sockets \in [Sockets -> {"none", "live", "lost", "closing"}]
  /\ {current, owned} \subseteq Sockets \cup {NoSocket}

\* Only the current socket delivers events: none is handled twice, and the
\* late onclose of an old one does not make the client forget the new one.
LiveSocketIsCurrent == \A k \in Sockets : sockets[k] = "live" => k = current

\* The client comes back by itself (README.md, "UI shows offline mode"): with a
\* healthy service, and its token, it is in the end healthy and ready for good.
Recovers ==
  <>[](backend = "healthy" /\ token) => <>[](boot = "healthy" /\ auth = "ready")

\* And a client that was offline listens to the events again, once the service
\* stays up.  (One that misses a restart, between two polls, does not.)
Listening == current # NoSocket /\ sockets[current] = "live"

ListensAgain ==
  <>[](backend = "healthy" /\ token /\ cutOff) => <>[]Listening

\* Together: after an outage the client is back, with one socket to listen on.
ClientComesBack == []LiveSocketIsCurrent /\ Recovers /\ ListensAgain
=============================================================================
