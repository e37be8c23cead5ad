------------------------------- MODULE Flusher -------------------------------
(***************************************************************************)
(* flusher (core/internal/datastore/flusher.go): it buffers the rows of a  *)
(* writer, writes them to the warehouse in batches and acknowledges them.  *)
(*                                                                         *)
(* The loop goroutine is modelled from select to select, with the steps of *)
(* flush where another goroutine may interfere: the coordinator that       *)
(* refuses, starts or cancels the operation (ModeCoordinator, with which   *)
(* StoreWriter composes this module), the warehouse, the caller of Close   *)
(* or Stop and its context.                                                *)
(*                                                                         *)
(* Abstracted: time (a timer is armed or not, and an armed timer may fire),*)
(* the value of the rate, metrics, logging and the back-off.               *)
(***************************************************************************)
EXTENDS Integers, Sequences, SequencesExt

CONSTANTS
  MaxRows,      \* bound: how many rows are sent, the rows being 1 .. MaxRows
  KeyOf,        \* the deduplication key of each row, or None
  QueueSize,    \* flusherOptions.QueueSize
  MaxBatchSize, \* flusherOptions.MaxBatchSize
  MaxCancels,   \* bound: how many operations a mode change cancels
  None

ASSUME FlusherAssumption ==
  /\ MaxRows \in Nat /\ MaxCancels \in Nat
  /\ QueueSize \in Nat \ {0} /\ MaxBatchSize \in Nat \ {0}
  /\ DOMAIN KeyOf = 1 .. MaxRows
  /\ None \notin BOOLEAN /\ None \notin {"Close", "Stop", "nil", "ctx.Err"}

VARIABLES
  sent,        \* how many rows were sent to the channel
  ch,          \* the channel of rows
  rows, acks,  \* the buffered rows and the acknowledgements due
  acked,       \* the rows that were acknowledged
  written,     \* the rows that the warehouse has merged
  pc,          \* where the loop goroutine is
  ret,         \* where flush returns to
  duplicated,  \* the local of the row being added
  idleTimer, adaptiveTimer, maxTimer,  \* whether each timer is armed
  firstBuffered, lastArrival, rate,    \* whether each one is not zero
  stop, drain,    \* the locals of the loop
  stopCh,         \* the value in close.stop, or None
  chClosed,       \* whether the channel of rows is closed
  canceled,       \* whether close.ctx is cancelled
  opCanceled,     \* whether the context of the operation is cancelled
  cancels,        \* how many operations were cancelled
  asked,          \* "Close" or "Stop" once one was called, else None
  result          \* what it returned, or None

bufVars   == <<rows, acks, acked, written>>
timerVars == <<idleTimer, adaptiveTimer, maxTimer, firstBuffered>>
rateVars  == <<lastArrival, rate, duplicated>>
stopVars  == <<stop, drain, stopCh, chClosed, canceled, asked, result>>
opVars    == <<opCanceled, cancels>>
vars == <<sent, ch, bufVars, pc, ret, timerVars, rateVars, stopVars, opVars>>

Rows == 1 .. MaxRows

\* select: in the select of the loop; arm: a row was added, before the timers
\* are scheduled; start: flush asks for the operation; write: flush calls
\* innerFlush; ended: after the loop around it; exit: the loop has returned.
Places == {"select", "arm", "start", "write", "ended", "exit"}

Init ==
  /\ sent = 0 /\ ch = <<>>
  /\ rows = <<>> /\ acks = {} /\ acked = {} /\ written = {}
  /\ pc = "select" /\ ret = "select" /\ duplicated = FALSE
  /\ idleTimer = FALSE /\ adaptiveTimer = FALSE /\ maxTimer = FALSE
  /\ firstBuffered = FALSE /\ lastArrival = FALSE /\ rate = FALSE
  /\ stop = FALSE /\ drain = FALSE /\ stopCh = None /\ chClosed = FALSE
  /\ canceled = FALSE /\ opCanceled = FALSE /\ cancels = 0
  /\ asked = None /\ result = None

-----------------------------------------------------------------------------
(* The users of the flusher.                                               *)

\* A writer sends a row, if the channel has a free place.
Send ==
  /\ sent < MaxRows
  /\ asked = None
  /\ Len(ch) < QueueSize
  /\ sent' = sent + 1
  /\ ch' = Append(ch, sent + 1)
  /\ UNCHANGED <<bufVars, pc, ret, timerVars, rateVars, stopVars, opVars>>

\* Close or Stop tells the loop to stop, ...
AskStop(how) ==
  /\ asked = None
  /\ asked' = how
  /\ stopCh' = (how = "Close")
  /\ UNCHANGED <<sent, ch, bufVars, pc, ret, timerVars, rateVars, stop, drain,
                 chClosed, canceled, result, opVars>>

\* ... closes the channels, ...
CloseRows ==
  /\ asked # None /\ ~chClosed
  /\ chClosed' = TRUE
  /\ UNCHANGED <<sent, ch, bufVars, pc, ret, timerVars, rateVars, stop, drain,
                 stopCh, canceled, asked, result, opVars>>

\* ... and returns once the loop has, ...
StopReturns ==
  /\ chClosed /\ result = None
  /\ pc = "exit"
  /\ result' = IF canceled THEN "ctx.Err" ELSE "nil"
  /\ canceled' = TRUE
  /\ UNCHANGED <<sent, ch, bufVars, pc, ret, timerVars, rateVars, stop, drain,
                 stopCh, chClosed, asked, opVars>>

\* ... unless its context ends first: then the flush is aborted.
ContextDone ==
  /\ chClosed /\ result = None
  /\ ~canceled
  /\ canceled' = TRUE
  /\ UNCHANGED <<sent, ch, bufVars, pc, ret, timerVars, rateVars, stop, drain,
                 stopCh, chClosed, asked, result, opVars>>

\* A change of mode cancels the running operation: ModeCoordinator.
CancelOperation ==
  /\ pc \in {"write", "ended"}
  /\ ~opCanceled
  /\ cancels < MaxCancels
  /\ opCanceled' = TRUE
  /\ cancels' = cancels + 1
  /\ UNCHANGED <<sent, ch, bufVars, pc, ret, timerVars, rateVars, stopVars>>

-----------------------------------------------------------------------------
(* flush.                                                                  *)

\* flush is called, to return to `back'.
CallFlush(back) ==
  /\ idleTimer' = FALSE /\ adaptiveTimer' = FALSE /\ maxTimer' = FALSE
  /\ firstBuffered' = FALSE
  /\ pc' = IF rows' = <<>> THEN back ELSE "start"
  /\ ret' = back

\* Mutant: a refused flush is given up.
AfterRefusalReturn == ret

\* Where a refused flush goes on: it asks again.
AfterRefusal == "start"

\* startOperation: refused, because the warehouse is not in normal mode, ...
StartRefused ==
  /\ pc = "start"
  /\ ~canceled
  /\ pc' = AfterRefusal
  /\ UNCHANGED <<sent, ch, bufVars, ret, timerVars, rateVars, stopVars, opVars>>

\* ... or started, ...
StartOperation ==
  /\ pc = "start"
  /\ ~canceled
  /\ pc' = "write"
  /\ opCanceled' = FALSE
  /\ UNCHANGED <<sent, ch, bufVars, ret, timerVars, rateVars, stopVars, cancels>>

\* ... or close.ctx is cancelled: flush returns.
StartAborted ==
  /\ pc = "start"
  /\ canceled
  /\ pc' = ret
  /\ UNCHANGED <<sent, ch, bufVars, ret, timerVars, rateVars, stopVars, opVars>>

\* The error of flushCtx, which derives from close.ctx.
FlushCtxErr == opCanceled \/ canceled

\* innerFlush merges the rows. It may fail after the warehouse merged them.
InnerFlush ==
  /\ pc = "write"
  /\ written' = written \cup ToSet(rows)
  /\ pc' \in {"write", "ended"}
  /\ UNCHANGED <<sent, ch, rows, acks, acked, ret, timerVars, rateVars,
                 stopVars, opVars>>

\* The back-off is interrupted.
InnerFlushAborted ==
  /\ pc = "write"
  /\ FlushCtxErr
  /\ pc' = "ended"
  /\ UNCHANGED <<sent, ch, bufVars, ret, timerVars, rateVars, stopVars, opVars>>

\* Mutant: the error of the context is not looked at.
InterruptedNever == FALSE

\* flushCtx.Err() != nil, once innerFlush is over.
Interrupted == FlushCtxErr

\* flush returns and keeps the rows, or acknowledges and forgets them.
FlushReturns ==
  /\ pc = "ended"
  /\ \/ Interrupted /\ UNCHANGED <<rows, acks, acked>>
     \/ /\ ~Interrupted
        /\ acked' = acked \cup acks
        /\ rows' = <<>> /\ acks' = {}
  /\ pc' = ret
  /\ UNCHANGED <<sent, ch, written, ret, timerVars, rateVars, stopVars, opVars>>

-----------------------------------------------------------------------------
(* The loop.                                                               *)

\* Mutant: rows without a key are deduplicated too.
SameKeyNil(r) == {k \in DOMAIN rows : KeyOf[rows[k]] = KeyOf[r]}

\* The places of the buffered rows that have the key of r.
SameKey(r) ==
  {k \in DOMAIN rows : KeyOf[r] # None /\ KeyOf[rows[k]] = KeyOf[r]}

\* Mutant: off by one.
FullLate(n) == n = MaxBatchSize + 1

\* len(rows) == opts.MaxBatchSize
Full(n) == n = MaxBatchSize

\* A row is received while the flusher is stopping without draining: return.
ReceiveStopped ==
  /\ pc = "select"
  /\ ch # <<>>
  /\ stop /\ ~drain
  /\ ch' = Tail(ch)
  /\ pc' = "exit"
  /\ UNCHANGED <<sent, bufVars, ret, timerVars, rateVars, stopVars, opVars>>

\* A row is received and replaces the one with its key, or is appended.
ReceiveRow ==
  LET r == Head(ch)
      dup == SameKey(r) # {}
  IN
  /\ pc = "select"
  /\ ch # <<>>
  /\ ~stop \/ drain
  /\ ch' = Tail(ch)
  /\ acks' = acks \cup {r}
  /\ duplicated' = dup
  /\ rows' = IF dup THEN [k \in DOMAIN rows |->
                            IF k \in SameKey(r) THEN r ELSE rows[k]]
                    ELSE Append(rows, r)
  /\ IF ~dup /\ Full(Len(rows'))
     THEN CallFlush("arm")
     ELSE pc' = "arm" /\ UNCHANGED <<ret, timerVars>>
  /\ UNCHANGED <<sent, acked, written, lastArrival, rate, stopVars, opVars>>

\* The row is the first one of the buffer.
FirstRow == ~duplicated /\ Len(rows) = 1

\* After the row: update the rate and schedule the timers.
ArmTimers ==
  /\ pc = "arm"
  /\ ~stop
  /\ rate' \in IF lastArrival THEN {rate, TRUE} ELSE {rate}
  /\ \/ /\ rows = <<>>
        /\ pc' = "select"
        /\ UNCHANGED <<rows, ret, timerVars, lastArrival>>
     \/ /\ rows # <<>>
        /\ lastArrival' = TRUE
        /\ rows' = rows
        /\ \/ /\ firstBuffered' = (firstBuffered \/ FirstRow)
              /\ maxTimer' = (maxTimer \/ FirstRow)
              /\ idleTimer' = TRUE
              /\ adaptiveTimer' = (adaptiveTimer \/ rate')
              /\ pc' = "select"
              /\ UNCHANGED ret
           \/ /\ rate'
              /\ firstBuffered \/ FirstRow  \* and the deadline has passed
              /\ CallFlush("select")
  /\ UNCHANGED <<sent, ch, acks, acked, written, duplicated, stopVars, opVars>>

\* After the row, while stopping: no timer is scheduled.
ArmStopped ==
  /\ pc = "arm"
  /\ stop
  /\ pc' = "select"
  /\ UNCHANGED <<sent, ch, bufVars, ret, timerVars, rateVars, stopVars, opVars>>

\* One of the timers fires.
TimerFires ==
  /\ pc = "select"
  /\ idleTimer \/ adaptiveTimer \/ maxTimer
  /\ rows' = rows
  /\ CallFlush("select")
  /\ UNCHANGED <<sent, ch, acks, acked, written, rateVars, stopVars, opVars>>

\* The loop receives from close.stop.
ReceiveStop ==
  /\ pc = "select"
  /\ stopCh # None
  /\ stop' = TRUE
  /\ drain' = stopCh
  /\ stopCh' = None
  /\ UNCHANGED <<sent, ch, bufVars, pc, ret, timerVars, rateVars, chClosed,
                 canceled, asked, result, opVars>>

\* Mutant: the value in close.stop is not received.
DrainsReceived == drain

\* drain || <-f.close.stop
Drains == drain \/ stopCh = TRUE

\* Mutant: the loop goes on after the last flush.
AfterDrainLoop == "select"

\* Where the loop goes after the flush of the last rows.
AfterDrain == "exit"

\* The channel is closed and empty: flush what is left and return.
NoMoreRows ==
  /\ pc = "select"
  /\ ch = <<>> /\ chClosed
  /\ IF Drains
     THEN rows' = rows /\ CallFlush(AfterDrain)
     ELSE pc' = "exit" /\ UNCHANGED <<rows, ret, timerVars>>
  /\ stopCh' = IF drain THEN stopCh ELSE None
  /\ UNCHANGED <<sent, ch, acks, acked, written, rateVars, stop, drain,
                 chClosed, canceled, asked, result, opVars>>

-----------------------------------------------------------------------------
FlushStep == \/ StartOperation \/ StartAborted \/ InnerFlushAborted
             \/ FlushReturns

LoopStep == \/ ReceiveStopped \/ ReceiveRow \/ ArmTimers \/ ArmStopped
            \/ ReceiveStop \/ NoMoreRows

Next ==
  \/ Send \/ CloseRows \/ StopReturns \/ ContextDone \/ CancelOperation
  \/ \E how \in {"Close", "Stop"} : AskStop(how)
  \/ StartRefused \/ InnerFlush \/ TimerFires \/ FlushStep \/ LoopStep

Spec == Init /\ [][Next]_vars

-----------------------------------------------------------------------------
(* Properties.                                                             *)

\* s is r, or a row with the same key that was sent later.
Covers(s, r) == s = r \/ (KeyOf[r] # None /\ KeyOf[s] = KeyOf[r] /\ s > r)

\* A row is acknowledged only once the warehouse has it, or has a later row
\* with its key, also when the flush is interrupted, retried or overtaken by
\* Close: an event that is lost is delivered again.
AckedAfterWritten ==
  \A r \in acked : \E s \in written : Covers(s, r)

\* A row that was received and not acknowledged is still in the buffer, as
\* itself or as the later row that replaced it: an interrupted flush forgets
\* nothing.
NothingForgotten ==
  \A r \in acks : \E s \in ToSet(rows) : Covers(s, r)

\* A mode change has interrupted the last flush, which kept its rows with every
\* timer stopped. It is over when the next flush starts.
FlushInterrupted == opCanceled

\* "maxTimer guarantees the oldest buffered row waits at most
\* opts.MaxFlushLatency": while the loop waits, it is armed if there are rows,
\* unless the last flush was interrupted.
LatencyGuarded ==
  pc = "select" /\ asked = None /\ rows # <<>> /\ ~FlushInterrupted => maxTimer

\* "When the buffer reaches this size, EventWriter flushes immediately": the
\* loop never waits for more rows with a full buffer, unless the last flush was
\* interrupted: the size is compared with =.
BatchForced ==
  pc = "select" /\ asked = None /\ ~FlushInterrupted => Len(rows) < MaxBatchSize

\* The loop never waits with rows that are due: neither the age of the oldest row
\* nor a full buffer is left to the next row. An interrupted flush suspends this
\* until the next one succeeds, and no longer.
FlushDue == LatencyGuarded /\ BatchForced

\* "Close closes the flusher and waits for all pending rows to be flushed": if
\* it returns nil, the warehouse has every row that was sent, or a later one
\* with its key, also those that an interrupted flush had kept, unless the last
\* flush was interrupted itself: it is not repeated.
CloseDrains ==
  asked = "Close" /\ result = "nil" /\ ~FlushInterrupted
    => \A r \in 1 .. sent : \E s \in written : Covers(s, r)

\* Every row that was sent is acknowledged, unless the flusher is closed or a
\* mode change interrupts a flush: then it is after the next flush that is not.
\* As finitely many rows are sent, there is a moment at which all of them are.
EventuallyAcked ==
  acked # 1 .. sent ~> (acked = 1 .. sent \/ asked # None \/ FlushInterrupted)

\* Close and Stop return.
StopEnds == asked # None ~> result # None
=============================================================================
