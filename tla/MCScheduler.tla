----------------------------- MODULE MCScheduler -----------------------------
(* Instances of Scheduler for TLC. *)
EXTENDS Scheduler

CONSTANTS p1, p2

\* The first pipeline has two periods to choose from, the second one.
TwoAndOne == [p \in Pipelines |-> IF p = p1 THEN {0, 5, 15} ELSE {0, 5}]
=============================================================================
