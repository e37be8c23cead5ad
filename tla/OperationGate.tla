---------------------------- MODULE OperationGate ----------------------------
(***************************************************************************)
(* What modeCoordinator promises to the operations of a store: the         *)
(* warehouse has a mode, an operation runs only in the modes it allows,    *)
(* and the mode changes only to one that every running operation allows.   *)
(***************************************************************************)
CONSTANTS
  Modes,        \* the warehouse modes
  Operations,   \* the operations that may run
  AllowedModes, \* the modes each operation is compatible with
  InitialMode   \* the mode the coordinator is created with

VARIABLES
  mode,     \* the warehouse mode
  running   \* the operations that run

Init == mode = InitialMode /\ running = {}

Start(op) ==
  /\ op \notin running
  /\ mode \in AllowedModes[op]
  /\ running' = running \cup {op}
  /\ UNCHANGED mode

Finish(op) ==
  /\ op \in running
  /\ running' = running \ {op}
  /\ UNCHANGED mode

Change(m) ==
  /\ \A op \in running : m \in AllowedModes[op]
  /\ mode' = m
  /\ UNCHANGED running

Next ==
  \/ \E op \in Operations : Start(op) \/ Finish(op)
  \/ \E m \in Modes : Change(m)

Spec == Init /\ [][Next]_<<mode, running>>
=============================================================================
