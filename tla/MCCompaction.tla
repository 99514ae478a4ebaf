----------------------------- MODULE MCCompaction -----------------------------
(* Instances of Compaction for TLC. *)
EXTENDS Compaction, TLC

CONSTANTS run1, run2  \* places for runs

MCOne == {run1}
MCTwo == {run1, run2}

\* The specification never compares two runs and the two checked properties of
\* the instance with two are invariants, so the runs may be exchanged.
Symmetry == Permutations(MCTwo)
=============================================================================
