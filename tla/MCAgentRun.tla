------------------------------ MODULE MCAgentRun ------------------------------
(* Instances of AgentRun for TLC. *)
EXTENDS AgentRun

\* A single run with the limits of the code; two runs of one session with
\* smaller ones, the loop being the same.
MCOne == {"run1"}
MCTwo == {"run1", "run2"}
=============================================================================
