--------------------------- MODULE ModeCoordinator ---------------------------
(***************************************************************************)
(* modeCoordinator (core/internal/datastore/modecoordinator.go): it        *)
(* coordinates the changes of the mode of a warehouse with the operations  *)
(* of its store.                                                           *)
(*                                                                         *)
(* Each critical section of mc.mu is one action. What the code does        *)
(* outside of it (the Wait and the Done of the WaitGroups, the Broadcast)  *)
(* is an action of its own.                                                *)
(*                                                                         *)
(* ChangeMode is called by the listeners of the state only                 *)
(* (Datastore.onUpdateWarehouse, onUpdateWarehouseMode), one at a time:    *)
(* there is one changer, and the branch of ChangeMode that waits for a     *)
(* change in progress is never taken.                                      *)
(***************************************************************************)
EXTENDS Integers

CONSTANTS
  Operations,   \* callers of StartOperation, each with one call at a time
  AllowedModes, \* the allowedMode each of them passes, as a set of modes
  InitialMode,  \* the mode newModeCoordinator is called with
  None

\* Normal, Inspection and Maintenance.
Modes == 0 .. 2

ASSUME ModeAssumption ==
  /\ AllowedModes \in [Operations -> SUBSET Modes]
  /\ InitialMode \in Modes
  /\ None \notin Modes

VARIABLES
  currentMode,  \* modeCoordinator.currentMode
  changingTo,   \* modeCoordinator.changingTo
  operations,   \* modeCoordinator.operations
  incompatible, \* the operations that each WaitGroup counts
  opState,      \* what each caller of StartOperation is doing, see OpStates
  canceled,     \* the running operations whose context was cancelled
  err,          \* the mode whose error StartOperation returned last, or None
  changer       \* what the caller of ChangeMode is doing

vars == <<currentMode, changingTo, operations, incompatible, opState, canceled,
          err, changer>>

\* waiting: asleep on mc.change; woken: awake, without the mutex yet;
\* running: between StartOperation and done; ending: inside done.
OpStates == {"idle", "waiting", "woken", "running", "ending"}

Init ==
  /\ currentMode = InitialMode
  /\ changingTo = InitialMode
  /\ operations = {}
  /\ incompatible = [m \in Modes |-> {}]
  /\ opState = [op \in Operations |-> "idle"]
  /\ canceled = {}
  /\ err = [op \in Operations |-> None]
  /\ changer = "idle"

compatibleMode(op, m) == m \in AllowedModes[op]

-----------------------------------------------------------------------------
(* ChangeMode.                                                             *)

\* ChangeMode(m, cancelIncompatibleOperations), up to the first Unlock. With
\* the current mode it does nothing.
ChangeMode(m, cancelIncompatible) ==
  /\ changer = "idle"
  /\ m # currentMode
  /\ changingTo' = m
  /\ canceled' = IF cancelIncompatible
                 THEN canceled \cup {op \in operations : ~compatibleMode(op, m)}
                 ELSE canceled
  /\ changer' = "draining"
  /\ UNCHANGED <<currentMode, operations, incompatible, opState, err>>

\* Mutant: the WaitGroup of the mode that is left is waited for.
DrainedOld == incompatible[currentMode] = {}

\* mc.incompatible[mode].Wait() returns.
Drained == incompatible[changingTo] = {}

WaitReturns ==
  /\ changer = "draining"
  /\ Drained
  /\ changer' = "settling"
  /\ UNCHANGED <<currentMode, changingTo, operations, incompatible, opState,
                 canceled, err>>

\* mc.currentMode = mode
Settle ==
  /\ changer = "settling"
  /\ currentMode' = changingTo
  /\ changer' = "broadcasting"
  /\ UNCHANGED <<changingTo, operations, incompatible, opState, canceled, err>>

\* Mutant: Signal instead of Broadcast.
WokenOne ==
  {op \in Operations :
     /\ opState[op] = "waiting"
     /\ op = CHOOSE p \in Operations : opState[p] = "waiting"}

\* The goroutines that mc.change.Broadcast() wakes.
Woken == {op \in Operations : opState[op] = "waiting"}

\* The last step of ChangeMode.
Broadcast ==
  /\ changer = "broadcasting"
  /\ opState' = [op \in Operations |->
                   IF op \in Woken THEN "woken" ELSE opState[op]]
  /\ changer' = "idle"
  /\ UNCHANGED <<currentMode, changingTo, operations, incompatible, canceled,
                 err>>

-----------------------------------------------------------------------------
(* StartOperation and done.                                                *)

\* The operation is not compatible with the current mode.
Refuse(op) ==
  /\ opState[op] = "idle"
  /\ ~compatibleMode(op, currentMode)
  /\ err' = [err EXCEPT ![op] = currentMode]
  /\ UNCHANGED <<currentMode, changingTo, operations, incompatible, opState,
                 canceled, changer>>

\* Mutant: the mode that is coming is not looked at.
AdmittedNow(op) == compatibleMode(op, currentMode)

\* StartOperation goes on: both checks pass.
Admitted(op) ==
  compatibleMode(op, currentMode) /\ compatibleMode(op, changingTo)

\* It is compatible with the current mode, not with the coming one:
\* mc.change.Wait().
AwaitChange(op) ==
  /\ opState[op] = "idle"
  /\ compatibleMode(op, currentMode) /\ ~Admitted(op)
  /\ opState' = [opState EXCEPT ![op] = "waiting"]
  /\ UNCHANGED <<currentMode, changingTo, operations, incompatible, canceled,
                 err, changer>>

\* The waiter has the mutex again and returns the error of changingTo.
ReturnError(op) ==
  /\ opState[op] = "woken"
  /\ opState' = [opState EXCEPT ![op] = "idle"]
  /\ err' = [err EXCEPT ![op] = changingTo]
  /\ UNCHANGED <<currentMode, changingTo, operations, incompatible, canceled,
                 changer>>

\* The operation starts.
StartOperation(op) ==
  /\ opState[op] = "idle"
  /\ Admitted(op)
  /\ opState' = [opState EXCEPT ![op] = "running"]
  /\ operations' = operations \cup {op}
  /\ incompatible' = [m \in Modes |->
                        IF compatibleMode(op, m) THEN incompatible[m]
                        ELSE incompatible[m] \cup {op}]
  /\ canceled' = canceled \ {op}
  /\ err' = [err EXCEPT ![op] = None]
  /\ UNCHANGED <<currentMode, changingTo, changer>>

\* The caller calls done.
Done(op) ==
  /\ opState[op] = "running"
  /\ opState' = [opState EXCEPT ![op] = "ending"]
  /\ UNCHANGED <<currentMode, changingTo, operations, incompatible, canceled,
                 err, changer>>

\* Mutant: done releases the first WaitGroup only.
DoneModesFirst(op) == {m \in Modes : op \in incompatible[m] /\ m < 2}

\* The WaitGroups that done has still to decrement.
DoneModes(op) == {m \in Modes : op \in incompatible[m]}

\* done decrements the next WaitGroup, without the mutex.
DoneMode(op) ==
  /\ opState[op] = "ending"
  /\ \E m \in DoneModes(op) :
       /\ \A n \in DoneModes(op) : m <= n
       /\ incompatible' = [incompatible EXCEPT ![m] = @ \ {op}]
  /\ UNCHANGED <<currentMode, changingTo, operations, opState, canceled, err,
                 changer>>

\* done deletes the operation and returns.
DeleteOperation(op) ==
  /\ opState[op] = "ending"
  /\ DoneModes(op) = {}
  /\ operations' = operations \ {op}
  /\ opState' = [opState EXCEPT ![op] = "idle"]
  /\ UNCHANGED <<currentMode, changingTo, incompatible, canceled, err, changer>>

-----------------------------------------------------------------------------
Next ==
  \/ \E m \in Modes, cancelIncompatible \in BOOLEAN :
       ChangeMode(m, cancelIncompatible)
  \/ WaitReturns \/ Settle \/ Broadcast
  \/ \E op \in Operations :
       \/ Refuse(op) \/ AwaitChange(op) \/ ReturnError(op) \/ StartOperation(op)
       \/ Done(op) \/ DoneMode(op) \/ DeleteOperation(op)

Spec == Init /\ [][Next]_vars

\* Running goroutines proceed, and every operation ends: its caller calls
\* done in a defer, after work that its context or the warehouse bounds.
Fairness ==
  /\ WF_vars(WaitReturns) /\ WF_vars(Settle) /\ WF_vars(Broadcast)
  /\ \A op \in Operations :
       /\ WF_vars(ReturnError(op))
       /\ WF_vars(Done(op))
       /\ WF_vars(DoneMode(op))
       /\ WF_vars(DeleteOperation(op))

FairSpec == Spec /\ Fairness

-----------------------------------------------------------------------------
(* Properties.                                                             *)

\* The state has the types of the code's fields.
TypeOK ==
  /\ currentMode \in Modes
  /\ changingTo \in Modes
  /\ operations \subseteq Operations
  /\ incompatible \in [Modes -> SUBSET Operations]
  /\ opState \in [Operations -> OpStates]
  /\ canceled \subseteq Operations
  /\ err \in [Operations -> Modes \cup {None}]
  /\ changer \in {"idle", "draining", "settling", "broadcasting"}

\* The operations between StartOperation and the call of done.
Running == {op \in Operations : opState[op] = "running"}

\* Each WaitGroup counts the operations that run and are not compatible with
\* its mode, and none that has ended: the Add calls of StartOperation and the
\* Done calls of done, made without the mutex, match.
CountersMatch ==
  \A op \in Operations, m \in Modes :
    /\ op \in incompatible[m] =>
         opState[op] \in {"running", "ending"} /\ ~compatibleMode(op, m)
    /\ opState[op] = "running" /\ ~compatibleMode(op, m) =>
         op \in incompatible[m]

\* An operation never runs in a mode it is not compatible with, although it
\* may start while the mode is changing and the mode is written after the
\* wait for the incompatible operations, in another critical section.
RunsInAllowedMode ==
  \A op \in Running : compatibleMode(op, currentMode)

\* While ChangeMode waits for a WaitGroup nobody adds to it, so that the wait
\* ends and no WaitGroup is reused before its Wait returned.
DrainOnlyShrinks ==
  [][changer = "draining"
       => incompatible'[changingTo] \subseteq incompatible[changingTo]]_vars

\* The coordinator implements OperationGate.
Gate == INSTANCE OperationGate WITH mode <- currentMode, running <- Running
ImplementsGate == Gate!Spec

\* A change of mode ends, with or without cancelling the operations.
ChangeEnds == changer = "draining" ~> changer = "idle"

\* A call of StartOperation that waits for a change returns.
WaiterReturns ==
  \A op \in Operations : opState[op] = "waiting" ~> opState[op] = "idle"
=============================================================================
