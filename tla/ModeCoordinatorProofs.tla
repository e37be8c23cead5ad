------------------------ MODULE ModeCoordinatorProofs ------------------------
(***************************************************************************)
(* Proofs about ModeCoordinator, for every set of operations and every     *)
(* choice of the modes they allow.                                         *)
(***************************************************************************)
EXTENDS ModeCoordinator, TLAPS

\* A change is in progress only while its caller is between its first and its
\* last critical section, and once it has stopped waiting nothing that is
\* incompatible with the new mode can start.
ChangerInv ==
  /\ changer \in {"idle", "broadcasting"} => currentMode = changingTo
  /\ changer = "settling" => incompatible[changingTo] = {}

\* The inductive invariant.
IndInv == TypeOK /\ CountersMatch /\ ChangerInv /\ RunsInAllowedMode

\* The initial state.
LEMMA InitInd == Init => IndInv
BY ModeAssumption DEF Init, IndInv, TypeOK, CountersMatch, ChangerInv,
   RunsInAllowedMode, Running, OpStates, Modes

\* The types are kept.
LEMMA TypeStep == ASSUME TypeOK, [Next]_vars PROVE TypeOK'
<1> USE ModeAssumption DEF TypeOK, OpStates
<1>1. CASE UNCHANGED vars
  BY <1>1 DEF vars
<1>2. ASSUME NEW m \in Modes, NEW c \in BOOLEAN, ChangeMode(m, c)
      PROVE  TypeOK'
  BY <1>2 DEF ChangeMode
<1>3. CASE WaitReturns \/ Settle \/ Broadcast
  BY <1>3 DEF WaitReturns, Settle, Broadcast
<1>4. ASSUME NEW op \in Operations, Refuse(op) \/ AwaitChange(op) \/ ReturnError(op)
      PROVE  TypeOK'
  BY <1>4 DEF Refuse, AwaitChange, ReturnError
<1>5. ASSUME NEW op \in Operations, StartOperation(op)
      PROVE  TypeOK'
  BY <1>5 DEF StartOperation
<1>6. ASSUME NEW op \in Operations, Done(op) \/ DoneMode(op) \/ DeleteOperation(op)
      PROVE  TypeOK'
  BY <1>6 DEF Done, DoneMode, DeleteOperation
<1>7. QED
  BY <1>1, <1>2, <1>3, <1>4, <1>5, <1>6 DEF Next

\* The rest of the invariant is kept.
LEMMA IndStep == ASSUME IndInv, [Next]_vars PROVE IndInv'
<1> USE ModeAssumption
<1>1. TypeOK /\ TypeOK'
  BY TypeStep DEF IndInv
<1> USE DEF IndInv, CountersMatch, ChangerInv, RunsInAllowedMode, Running,
            compatibleMode
<1>2. CASE UNCHANGED vars
  BY <1>1, <1>2 DEF vars
<1>3. ASSUME NEW m \in Modes, NEW c \in BOOLEAN, ChangeMode(m, c)
      PROVE  IndInv'
  BY <1>1, <1>3 DEF ChangeMode
<1>4. CASE WaitReturns
  BY <1>1, <1>4 DEF WaitReturns, Drained
<1>5. CASE Settle
  <2>1. CountersMatch' /\ ChangerInv'
    BY <1>1, <1>5 DEF Settle
  <2>2. \A op \in Operations :
          opState[op] = "running" => changingTo \in AllowedModes[op]
    BY <1>1, <1>5 DEF Settle, TypeOK
  <2>3. QED
    BY <1>1, <1>5, <2>1, <2>2 DEF Settle
<1>6. CASE Broadcast
  <2>1. /\ UNCHANGED <<currentMode, changingTo, incompatible>>
        /\ changer = "broadcasting" /\ changer' = "idle"
        /\ \A op \in Operations :
             /\ opState'[op] = "running" <=> opState[op] = "running"
             /\ opState'[op] = "ending" <=> opState[op] = "ending"
    BY <1>1, <1>6 DEF Broadcast, Woken, TypeOK
  <2>2. QED
    BY <1>1, <2>1
<1>7. ASSUME NEW op \in Operations, Refuse(op)
      PROVE  IndInv'
  BY <1>1, <1>7 DEF Refuse
<1>8. ASSUME NEW op \in Operations, AwaitChange(op) \/ ReturnError(op)
      PROVE  IndInv'
  <2>1. /\ UNCHANGED <<currentMode, changingTo, incompatible, changer>>
        /\ opState[op] \in {"idle", "woken"}
        /\ opState'[op] \in {"idle", "waiting"}
        /\ \A p \in Operations \ {op} : opState'[p] = opState[p]
    BY <1>1, <1>8 DEF AwaitChange, ReturnError, TypeOK
  <2>2. QED
    BY <1>1, <2>1
<1>9. ASSUME NEW op \in Operations, StartOperation(op)
      PROVE  IndInv'
  <2>1. /\ UNCHANGED <<currentMode, changingTo, changer>>
        /\ currentMode \in AllowedModes[op] /\ changingTo \in AllowedModes[op]
        /\ opState[op] = "idle" /\ opState'[op] = "running"
        /\ \A p \in Operations \ {op} : opState'[p] = opState[p]
        /\ \A m \in Modes : incompatible'[m] =
             IF m \in AllowedModes[op] THEN incompatible[m]
                                       ELSE incompatible[m] \cup {op}
    BY <1>1, <1>9 DEF StartOperation, Admitted, TypeOK
  <2>2. CountersMatch'
    BY <1>1, <2>1 DEF TypeOK
  <2>3. ChangerInv'
    BY <1>1, <2>1 DEF TypeOK
  <2>4. RunsInAllowedMode'
    BY <1>1, <2>1 DEF TypeOK
  <2>5. QED
    BY <1>1, <2>2, <2>3, <2>4
<1>10. ASSUME NEW op \in Operations, Done(op)
       PROVE  IndInv'
  BY <1>1, <1>10 DEF Done, TypeOK
<1>11. ASSUME NEW op \in Operations, DoneMode(op)
       PROVE  IndInv'
  <2>1. PICK n \in Modes : incompatible' = [incompatible EXCEPT ![n] = @ \ {op}]
    BY <1>11 DEF DoneMode, DoneModes
  <2>2. /\ UNCHANGED <<currentMode, changingTo, changer, opState>>
        /\ opState[op] = "ending"
        /\ \A m \in Modes : incompatible'[m] =
             IF m = n THEN incompatible[m] \ {op} ELSE incompatible[m]
    BY <1>1, <1>11, <2>1 DEF DoneMode, TypeOK
  <2>3. CountersMatch' /\ RunsInAllowedMode'
    BY <1>1, <2>2
  <2>4. ChangerInv'
    BY <1>1, <2>2 DEF TypeOK
  <2>5. QED
    BY <1>1, <2>3, <2>4
<1>12. ASSUME NEW op \in Operations, DeleteOperation(op)
       PROVE  IndInv'
  <2>1. /\ UNCHANGED <<currentMode, changingTo, changer, incompatible>>
        /\ opState[op] = "ending" /\ opState'[op] = "idle"
        /\ \A p \in Operations \ {op} : opState'[p] = opState[p]
        /\ \A m \in Modes : op \notin incompatible[m]
    BY <1>1, <1>12 DEF DeleteOperation, DoneModes, TypeOK
  <2>2. QED
    BY <1>1, <2>1
<1>13. QED
  BY <1>2, <1>3, <1>4, <1>5, <1>6, <1>7, <1>8, <1>9, <1>10, <1>11, <1>12 DEF Next

\* The invariant holds in every reachable state.
THEOREM Invariance == Spec => []IndInv
BY InitInd, IndStep, PTL DEF Spec

\* RunsInAllowedMode is an invariant: whatever starts, ends and is cancelled
\* while ChangeMode is in progress, no operation runs in a mode it excludes.
THEOREM OperationsAllowed == Spec => []RunsInAllowedMode
<1>1. IndInv => RunsInAllowedMode
  BY DEF IndInv
<1>2. QED
  BY <1>1, Invariance, PTL

\* CountersMatch is an invariant: the WaitGroups count what they should.
THEOREM CountersCorrect == Spec => []CountersMatch
<1>1. IndInv => CountersMatch
  BY DEF IndInv
<1>2. QED
  BY <1>1, Invariance, PTL

\* DrainOnlyShrinks: StartOperation never adds to the WaitGroup that
\* ChangeMode waits for.
THEOREM DrainShrinks == Spec => DrainOnlyShrinks
<1>1. ASSUME IndInv, [Next]_vars, changer = "draining"
      PROVE  incompatible'[changingTo] \subseteq incompatible[changingTo]
  <2>1. changingTo \in Modes /\ incompatible \in [Modes -> SUBSET Operations]
    BY <1>1 DEF IndInv, TypeOK
  <2>2. ASSUME NEW op \in Operations, StartOperation(op)
        PROVE  incompatible'[changingTo] = incompatible[changingTo]
    BY <2>1, <2>2 DEF StartOperation, Admitted
  <2>3. ASSUME NEW op \in Operations, DoneMode(op)
        PROVE  incompatible'[changingTo] \subseteq incompatible[changingTo]
    BY <2>1, <2>3 DEF DoneMode, DoneModes
  <2>4. QED
    BY <1>1, <2>1, <2>2, <2>3 DEF Next, vars, ChangeMode, WaitReturns, Settle,
       Broadcast, Refuse, AwaitChange, ReturnError, Done, DeleteOperation
<1>2. IndInv /\ [Next]_vars =>
        [changer = "draining"
           => incompatible'[changingTo] \subseteq incompatible[changingTo]]_vars
  BY <1>1
<1>3. QED
  BY <1>2, Invariance, PTL DEF Spec, DrainOnlyShrinks

\* The coordinator implements OperationGate: the mode and the operations
\* change as if each change of mode were one atomic step, taken when no
\* incompatible operation runs.
THEOREM GateImplemented == Spec => ImplementsGate
<1>1. Init => Gate!Init
  BY DEF Init, Gate!Init, Running
<1>2. ASSUME IndInv, [Next]_vars
      PROVE  [Gate!Next]_<<currentMode, Running>>
  <2> USE ModeAssumption
  <2>1. TypeOK
    BY <1>2 DEF IndInv
  <2>2. ASSUME UNCHANGED opState, UNCHANGED currentMode
        PROVE  UNCHANGED <<currentMode, Running>>
    BY <2>2 DEF Running
  <2>3. CASE UNCHANGED vars
    BY <2>2, <2>3 DEF vars
  <2>4. ASSUME NEW m \in Modes, NEW c \in BOOLEAN, ChangeMode(m, c)
        PROVE  UNCHANGED <<currentMode, Running>>
    BY <2>2, <2>4 DEF ChangeMode
  <2>5. CASE WaitReturns
    BY <2>2, <2>5 DEF WaitReturns
  <2>6. CASE Settle
    <3>1. changingTo \in Modes /\ UNCHANGED Running /\ currentMode' = changingTo
      BY <2>1, <2>6 DEF Settle, TypeOK, Running
    <3>2. \A op \in Running : changingTo \in AllowedModes[op]
      BY <1>2, <2>1, <2>6 DEF Settle, IndInv, ChangerInv, CountersMatch, Running,
         compatibleMode, TypeOK
    <3>3. QED
      BY <3>1, <3>2 DEF Gate!Next, Gate!Change
  <2>7. CASE Broadcast
    BY <2>1, <2>7 DEF Broadcast, Woken, Running, TypeOK
  <2>8. ASSUME NEW op \in Operations,
               Refuse(op) \/ AwaitChange(op) \/ ReturnError(op)
        PROVE  UNCHANGED <<currentMode, Running>>
    BY <2>1, <2>8 DEF Refuse, AwaitChange, ReturnError, Running, TypeOK
  <2>9. ASSUME NEW op \in Operations, StartOperation(op)
        PROVE  Gate!Start(op)
    <3>1. op \notin Running /\ Running' = Running \cup {op}
      BY <2>1, <2>9 DEF StartOperation, Running, TypeOK
    <3>2. QED
      BY <2>9, <3>1 DEF StartOperation, Admitted, compatibleMode, Gate!Start
  <2>10. ASSUME NEW op \in Operations, Done(op)
         PROVE  Gate!Finish(op)
    <3>1. op \in Running /\ Running' = Running \ {op}
      BY <2>1, <2>10 DEF Done, Running, TypeOK
    <3>2. QED
      BY <2>10, <3>1 DEF Done, Gate!Finish
  <2>11. ASSUME NEW op \in Operations, DoneMode(op) \/ DeleteOperation(op)
         PROVE  UNCHANGED <<currentMode, Running>>
    BY <2>1, <2>11 DEF DoneMode, DeleteOperation, Running, TypeOK
  <2>12. QED
    BY <1>2, <2>3, <2>4, <2>5, <2>6, <2>7, <2>8, <2>9, <2>10, <2>11
       DEF Next, Gate!Next
<1>3. QED
  BY <1>1, <1>2, Invariance, PTL DEF Spec, ImplementsGate, Gate!Spec
=============================================================================
