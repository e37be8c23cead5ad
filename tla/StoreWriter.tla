----------------------------- MODULE StoreWriter -----------------------------
(***************************************************************************)
(* A writer of a store (core/internal/datastore/eventwriter.go and the     *)
(* identity writers): a flusher whose flushes are operations of the mode   *)
(* coordinator of the store. Flusher lets an operation be refused, started *)
(* and cancelled at any point; here that is what StartOperation, done and  *)
(* ChangeMode do. The other operations of a store are in ModeCoordinator:  *)
(* here they would only make a change take longer.                         *)
(*                                                                         *)
(* The goroutine of the loop is the caller of StartOperation and of done:  *)
(* it is asleep in StartOperation while a mode change ends, whatever       *)
(* happens to the context of Close, and it calls done after flush has kept *)
(* or acknowledged the rows and before it goes on.                         *)
(***************************************************************************)
EXTENDS Flusher

CONSTANTS
  flushOp,     \* the operation of the flusher
  InitialMode, \* of ModeCoordinator
  MaxChanges   \* bound: how many times the mode changes to another than Normal

VARIABLES
  currentMode, changingTo, operations, incompatible, opState,
  operationsCanceled,  \* canceled of ModeCoordinator
  err, changer,
  changes              \* how many of the changes that MaxChanges bounds there were

coordVars == <<currentMode, changingTo, operations, incompatible, opState,
               operationsCanceled, err, changer>>
allVars == <<vars, coordVars, changes>>

Normal == 0

mc == INSTANCE ModeCoordinator
        WITH Operations <- {flushOp}, canceled <- operationsCanceled,
             AllowedModes <- [op \in {flushOp} |-> {Normal}]  \* normalMode

ASSUME StoreWriterAssumption ==
  InitialMode \in mc!Modes /\ None \notin mc!Modes /\ MaxChanges \in Nat

WriterInit == Init /\ mc!Init /\ changes = 0

-----------------------------------------------------------------------------
(* The loop, as long as it is not in StartOperation or in done.            *)

InLoop == opState[flushOp] = "idle"

\* A step of the flusher that the coordinator has no part in.
Alone(step) == step /\ UNCHANGED <<coordVars, changes>>

Loop == InLoop /\ (LoopStep \/ TimerFires \/ StartAborted)

\* startOperation fails at once, ...
Refused ==
  /\ StartRefused
  /\ mc!Refuse(flushOp)
  /\ UNCHANGED changes

\* ... waits for the change of mode (the first attempt of a flush does not look
\* at the context), ...
Awaits ==
  /\ pc = "start"
  /\ mc!AwaitChange(flushOp)
  /\ UNCHANGED <<vars, changes>>

\* ... and fails after it, maybe with a cancelled context, ...
RefusedLater ==
  /\ StartRefused \/ (canceled /\ UNCHANGED vars)
  /\ mc!ReturnError(flushOp)
  /\ UNCHANGED changes

\* ... starts the flush, ...
Starts ==
  /\ StartOperation
  /\ mc!StartOperation(flushOp)
  /\ UNCHANGED changes

\* ... or starts with a context that is cancelled already: flush returns.
StartsCanceled ==
  /\ StartAborted
  /\ mc!StartOperation(flushOp)
  /\ UNCHANGED changes

\* flush returns, which calls done.
Returns ==
  /\ FlushReturns
  /\ mc!Done(flushOp)
  /\ UNCHANGED changes

\* The deferred done, before the loop goes on.
InDone ==
  /\ \/ mc!Done(flushOp) /\ pc \notin {"write", "ended"}
     \/ mc!DoneMode(flushOp) \/ mc!DeleteOperation(flushOp)
  /\ UNCHANGED <<vars, changes>>

-----------------------------------------------------------------------------
(* The mode.                                                               *)

\* ChangeMode begins; it may cancel the flush.
ChangeMode(m, cancelIncompatible) ==
  /\ IF m = Normal THEN UNCHANGED changes
     ELSE changes < MaxChanges /\ changes' = changes + 1
  /\ mc!ChangeMode(m, cancelIncompatible)
  /\ IF pc \in {"write", "ended"} /\ flushOp \in operationsCanceled'
     THEN CancelOperation ELSE UNCHANGED vars

Changing ==
  /\ mc!WaitReturns \/ mc!Settle \/ mc!Broadcast
  /\ UNCHANGED <<vars, changes>>

-----------------------------------------------------------------------------
\* The goroutine of the loop, as long as the warehouse does not fail.
Goroutine ==
  \/ Alone(Loop) \/ Alone(InnerFlush /\ pc' = "ended") \/ Alone(InnerFlushAborted)
  \/ RefusedLater \/ Starts \/ StartsCanceled \/ Returns \/ InDone

\* The goroutine that calls Close or Stop, once it did.
Closer == Alone(CloseRows) \/ Alone(InLoop /\ StopReturns)

WriterNext ==
  \/ Alone(Send) \/ Alone(ContextDone)
  \/ \E how \in {"Close", "Stop"} : Alone(AskStop(how))
  \/ Closer
  \/ Refused \/ Awaits \/ Alone(InnerFlush) \/ Goroutine
  \/ \E m \in mc!Modes, cancelIncompatible \in BOOLEAN :
       ChangeMode(m, cancelIncompatible)
  \/ Changing

WriterSpec == WriterInit /\ [][WriterNext]_allVars

BackToNormal == \E cancelIncompatible \in BOOLEAN : ChangeMode(Normal, cancelIncompatible)

\* The goroutines proceed, armed timers fire, the warehouse does not fail for
\* ever and somebody sets it to Normal again. A refused attempt to start is no
\* progress, so that it is not listed: a flush starts when the mode stays Normal.
WriterFairness ==
  /\ WF_allVars(Goroutine) /\ WF_allVars(Closer)
  /\ WF_allVars(Changing \/ BackToNormal)

WriterFairSpec == WriterSpec /\ WriterFairness

-----------------------------------------------------------------------------
(* Properties.                                                             *)

\* The rows are written to the warehouse in Normal mode only, also when they
\* wait through a change of mode, or the flush starts as one begins: ChangeMode
\* settles on the new mode only after the last write.
WrittenInNormalMode ==
  [][written' # written => currentMode = Normal]_allVars

\* A change of mode ends: the flush it waits for returns, cancelled or not, and
\* calls done.
ModeChangeEnds == mc!ChangeEnds
=============================================================================
