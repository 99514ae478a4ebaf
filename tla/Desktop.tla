-------------------------------- MODULE Desktop --------------------------------
(***************************************************************************)
(* The start of the desktop shell, desktop/src/main.ts: it asks once       *)
(* whether a service is there, starts one if not, waits for it for a       *)
(* while, asks for its status and opens the window with it.                *)
(*                                                                         *)
(* Each step is a callback of the event loop.  A request is settled by the *)
(* first of its answer, its error and its timer.  The request for the      *)
(* status is settled at the end of the answer only: when the connection    *)
(* breaks in the middle of one, no callback of the code runs any more.     *)
(*                                                                         *)
(* External: what answers at the address of the service, the helper or     *)
(* any other; one that does not answer in time is silent.                  *)
(***************************************************************************)
EXTENDS Naturals

CONSTANTS
  Attempts,  \* of waitForServiceHealth, 12 in the program
  MaxTurns   \* bound on the changes of what answers

ASSUME DesktopAssumption == Attempts \in Nat \ {0} /\ MaxTurns \in Nat

VARIABLES
  managed,        \* managedService
  desk,           \* where the shell is
  request,        \* "none", "sent", what the answer under way says, or "broken"
  attempts,       \* attempts begun
  serves,         \* what is at the address
  turns,          \* how often that has changed
  since,          \* history: where the shell was when it changed last
  helper,         \* the process: "none", "up", "ended", "unborn" or "killed"
  serviceProcess, \* TRUE: the variable holds the helper
  bootStatus      \* what the window is told

deskVars == <<managed, desk, request, attempts, serves, turns, since, helper,
              serviceProcess, bootStatus>>

Modes == {"degraded", "healthy"}
Answering == Modes \cup {"errors"}

DesktopInit ==
  /\ managed \in BOOLEAN
  /\ desk = "probing" /\ request = "sent" /\ attempts = 0
  /\ serves \in Answering \cup {"nothing", "silence"}
  /\ turns = 0 /\ since = "probing"
  /\ helper = "none" /\ serviceProcess = FALSE
  /\ bootStatus = "unknown"

-----------------------------------------------------------------------------
(* Starting and waiting *)

\* startService
StartService ==
  /\ helper' \in {"up", "unborn"}
  /\ serviceProcess' = TRUE

\* The request of isHTTPReachable is settled, as ok.
Probed(ok) ==
  /\ request = "sent"
  /\ IF ok THEN serves \in Modes ELSE serves \notin Modes

FirstProbe ==
  /\ desk = "probing"
  /\ \E ok \in BOOLEAN :
       /\ Probed(ok)
       /\ IF ok \/ managed
          THEN /\ desk' = "asking"
               /\ UNCHANGED <<attempts, helper, serviceProcess>>
          ELSE /\ StartService
               /\ desk' = "waiting" /\ attempts' = 1
  /\ request' = "sent"
  /\ UNCHANGED <<managed, serves, turns, since, bootStatus>>

Reached ==
  /\ desk = "waiting" /\ Probed(TRUE)
  /\ desk' = "asking" /\ request' = "sent"
  /\ UNCHANGED <<managed, attempts, serves, turns, since, helper, serviceProcess, bootStatus>>

Refused ==
  /\ desk = "waiting" /\ Probed(FALSE)
  /\ desk' = "pausing" /\ request' = "none"
  /\ UNCHANGED <<managed, attempts, serves, turns, since, helper, serviceProcess, bootStatus>>

\* Mutated form of Paused: the attempts are not counted.
PausedUncounted ==
  /\ desk = "pausing"
  /\ desk' = "waiting" /\ UNCHANGED attempts
  /\ request' = "sent"
  /\ UNCHANGED <<managed, serves, turns, since, helper, serviceProcess, bootStatus>>

Paused ==
  /\ desk = "pausing"
  /\ IF attempts < Attempts
     THEN desk' = "waiting" /\ attempts' = attempts + 1
     ELSE desk' = "asking" /\ UNCHANGED attempts
  /\ request' = "sent"
  /\ UNCHANGED <<managed, serves, turns, since, helper, serviceProcess, bootStatus>>

-----------------------------------------------------------------------------
(* The status and the window *)

\* getServiceBootStatus: the answer begins.
StatusBegins ==
  /\ desk = "asking" /\ request = "sent" /\ serves \in Answering
  /\ request' = serves
  /\ UNCHANGED <<managed, desk, attempts, serves, turns, since, helper, serviceProcess,
                 bootStatus>>

Told(status) == desk' = "opening" /\ request' = "none" /\ bootStatus' = status

\* Mutated form of StatusUnknown: an answer that stops has no timer.
StatusUnknownAtFirst ==
  /\ desk = "asking" /\ request = "sent"
  /\ serves \in {"nothing", "silence"}
  /\ Told("offline")
  /\ UNCHANGED <<managed, attempts, serves, turns, since, helper, serviceProcess>>

\* An error, or the timer.
StatusUnknown ==
  /\ desk = "asking" /\ request \in Answering \cup {"sent"}
  /\ serves \in {"nothing", "silence"}
  /\ Told("offline")
  /\ UNCHANGED <<managed, attempts, serves, turns, since, helper, serviceProcess>>

StatusEnds ==
  /\ desk = "asking" /\ request \in Answering /\ serves \in Answering
  /\ Told(IF request = "errors" THEN "offline" ELSE request)
  /\ UNCHANGED <<managed, attempts, serves, turns, since, helper, serviceProcess>>

\* createWindow: the page, or a notice that there is none.
Opens ==
  /\ desk = "opening" /\ desk' = "open"
  /\ UNCHANGED <<managed, request, attempts, serves, turns, since, helper, serviceProcess,
                 bootStatus>>

-----------------------------------------------------------------------------
(* The helper, the end, and the surroundings *)

HelperEnds ==
  /\ helper = "up" /\ helper' = "ended"
  /\ serviceProcess' = FALSE
  /\ UNCHANGED <<managed, desk, request, attempts, serves, turns, since, bootStatus>>

\* before-quit, stopService
Quits ==
  /\ desk # "quit" /\ desk' = "quit" /\ request' = "none"
  /\ helper' = IF serviceProcess /\ helper = "up" THEN "killed" ELSE helper
  /\ serviceProcess' = FALSE
  /\ UNCHANGED <<managed, attempts, serves, turns, since, bootStatus>>

Turns ==
  /\ turns < MaxTurns /\ turns' = turns + 1
  /\ serves' \in (Answering \cup {"nothing", "silence"}) \ {serves}
  /\ since' = desk
  /\ request' = IF request \in Answering /\ serves' = "nothing" THEN "broken" ELSE request
  /\ UNCHANGED <<managed, desk, attempts, helper, serviceProcess, bootStatus>>

DesktopSteps ==
  \/ FirstProbe \/ Reached \/ Refused \/ Paused
  \/ StatusBegins \/ StatusUnknown \/ StatusEnds \/ Opens

DesktopNext == DesktopSteps \/ HelperEnds \/ Quits \/ Turns

\* Every request has a timer, and so has every pause.
DesktopSpec ==
  DesktopInit /\ [][DesktopNext]_deskVars /\ WF_deskVars(DesktopSteps)

-----------------------------------------------------------------------------
(* Properties *)

\* Every variable keeps its type, and no more attempts are made than Attempts.
DesktopTypeOK ==
  /\ desk \in {"probing", "waiting", "pausing", "asking", "opening", "open", "quit"}
  /\ request \in Answering \cup {"none", "sent", "broken"}
  /\ attempts \in 0..Attempts
  /\ helper \in {"none", "up", "ended", "unborn", "killed"} /\ serviceProcess \in BOOLEAN
  /\ bootStatus \in Modes \cup {"unknown", "offline"}

\* The window opens whatever the service does ("The desktop app still opens",
\* README.md), unless the user quits first or the status breaks off half-way.
OpensAnyway == <>(desk \in {"open", "quit"} \/ request = "broken")

\* A service that has come while the shell still looked for one, and stays, is
\* shown as it is; and the helper is not started beside one that was there.
ShownAsItIs ==
  desk \in {"opening", "open"} /\ since \in {"probing", "waiting", "pausing"} =>
    /\ bootStatus = IF serves \in Modes THEN serves ELSE "offline"
    /\ turns = 0 /\ serves \in Modes => helper = "none"

\* The helper does not outlive the shell.
NoneLeft == desk = "quit" => helper # "up"

DesktopOpens == OpensAnyway /\ []ShownAsItIs /\ []NoneLeft
=============================================================================
