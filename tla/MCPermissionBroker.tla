-------------------------- MODULE MCPermissionBroker --------------------------
(* Instances of PermissionBroker for TLC. *)
EXTENDS PermissionBroker

\* Two calls share the key "k1": a session rule of one covers the other.
MCCalls == {"c1", "c2"}
MCKeys == {"k1", "k2"}
MCSharedKey == [c \in MCCalls |-> "k1"]
MCOwnKeys == [c \in MCCalls |-> IF c = "c1" THEN "k1" ELSE "k2"]

MCDecisions == {"allow_once", "allow_session", "deny"}
=============================================================================
