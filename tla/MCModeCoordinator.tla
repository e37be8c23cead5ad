-------------------------- MODULE MCModeCoordinator --------------------------
(* Instances of ModeCoordinator for TLC. *)
EXTENDS ModeCoordinator, TLC

CONSTANTS op1, op2, op3

\* The three kinds of operations of Store: normalMode, as the flushers,
\* normalMode|inspectionMode, as the readers, and anyMode.
OneOfEachKind ==
  [op \in Operations |-> CASE op = op1 -> {0}
                           [] op = op2 -> {0, 1}
                           [] OTHER    -> {0, 1, 2}]
=============================================================================
