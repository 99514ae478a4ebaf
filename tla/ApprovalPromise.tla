--------------------------- MODULE ApprovalPromise ---------------------------
(***************************************************************************)
(* What the permission broker of the service promises to the tools, apart  *)
(* from how it keeps the promise.  A user submits votes; a tool call is    *)
(* allowed only on a vote that consents to it, denied only on a vote that  *)
(* denies it, and may be aborted at any time (timeout, cancellation, a     *)
(* failing store, a restart of the service).  A verdict is final.          *)
(*                                                                         *)
(* PermissionBroker implements this specification (Promise!Spec there).    *)
(***************************************************************************)

CONSTANTS
  Calls,      \* the tool calls that ask for permission
  Keys,       \* the allow-rule keys (session, tool, action, path)
  KeyOf,      \* the key of each call
  Decisions   \* the decision strings a client may send

VARIABLES
  votes,      \* <<call, decision>> pairs submitted to the running service
  verdict     \* what became of each call

apVars == <<votes, verdict>>

Verdicts == {"open", "allowed", "denied", "aborted"}

\* A vote consents to a call when it names the call and is not "deny", or when
\* it allows the session for a call with the same key.
ConsentIn(vs, c) ==
  \/ \E d \in Decisions \ {"deny"} : <<c, d>> \in vs
  \/ \E b \in Calls : KeyOf[b] = KeyOf[c] /\ <<b, "allow_session">> \in vs

Init ==
  /\ votes = {}
  /\ verdict = [c \in Calls |-> "open"]

Vote(c, d) ==
  /\ votes' = votes \cup {<<c, d>>}
  /\ UNCHANGED verdict

Close(c, v) ==
  /\ verdict[c] = "open"
  /\ verdict' = [verdict EXCEPT ![c] = v]
  /\ UNCHANGED votes

Allow(c) == ConsentIn(votes, c) /\ Close(c, "allowed")
Deny(c)  == <<c, "deny">> \in votes /\ Close(c, "denied")
Abort(c) == Close(c, "aborted")

\* The service restarts: calls in flight are lost, and so are the votes, so
\* that consent given before a restart never counts after it.
Forget ==
  /\ \E lost \in SUBSET {c \in Calls : verdict[c] = "open"} :
       verdict' = [c \in Calls |-> IF c \in lost THEN "aborted" ELSE verdict[c]]
  /\ votes' = {}

Next ==
  \/ \E c \in Calls, d \in Decisions : Vote(c, d)
  \/ \E c \in Calls : Allow(c) \/ Deny(c) \/ Abort(c)
  \/ Forget

Spec == Init /\ [][Next]_apVars
=============================================================================
