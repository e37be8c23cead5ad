---------------------------- MODULE Destinations ----------------------------
(***************************************************************************)
(* destinations and destinationPipeline (core/internal/collector), with    *)
(* the acknowledgements of a stream message by its destinations            *)
(* (core/internal/streams/nats).                                           *)
(*                                                                         *)
(* The worker of one connection takes messages from the stream and queues  *)
(* an event for each destination pipeline; events are transformed in       *)
(* batches and passed to the sender (module Sender), while notifications   *)
(* of the state enable, update and disable the pipelines.                  *)
(*                                                                         *)
(* Abstracted: the content of the events, time (a timer is armed or not),  *)
(* metrics and the causes of errors.                                       *)
(***************************************************************************)
EXTENDS Integers, Sequences, SequencesExt

CONSTANTS
  Pipelines,           \* the pipelines of the connection
  MaxMessages,         \* bound: the messages are 1 .. MaxMessages
  DestinationsOf,      \* the destinations of each message, in order
  MinQueuedEventSize,
  MaxQueues,           \* bound: how many queues are created
  MaxUpdates,          \* bound: how many times a pipeline is updated
  Transforms,          \* bound: the goroutines that run transform
  None

Messages == 1 .. MaxMessages
Queues   == 1 .. MaxQueues
MaxQueuedEventSize == 2 * MinQueuedEventSize

ASSUME DestinationsAssumption ==
  /\ MaxMessages \in Nat /\ MaxQueues \in Nat /\ MaxUpdates \in Nat
  /\ MinQueuedEventSize \in Nat \ {0}
  /\ DestinationsOf \in [Messages -> Seq(Pipelines) \ {<<>>}]
  /\ \A m \in Messages : IsInjective(DestinationsOf[m])

\* The event of message m for pipeline p.
Events == {e \in Messages \X Pipelines : e[2] \in ToSet(DestinationsOf[e[1]])}

VARIABLES
  pipelines,     \* d.pipelines: the instance of each pipeline, or None
  pipelineOf,    \* the pipeline each queue was created for, in order
  events,        \* queue.events
  closed,        \* the queues with close.closed
  timer,         \* the queues whose timer is armed
  toClose,       \* the queues whose Close is about to run
  detached,      \* the events each Close has still to discard
  updates,       \* how many updates there were
  next,          \* the next message of the stream
  left,          \* the destinations that the worker has still to serve
  snapshot,      \* the pipelines the worker has read
  worker,        \* what the worker is doing
  phase, instance, batch,  \* of each goroutine that runs transform
  status,        \* what the sender knows of each event
  done,          \* destinationAck.done
  remaining,     \* ack.remaining
  ackDone,       \* the messages with ack.done, acknowledged to NATS
  panicked       \* whether the process has panicked

stateVars  == <<pipelines, pipelineOf, updates>>
queueVars  == <<events, timer>>
closeVars  == <<closed, toClose, detached>>
workerVars == <<next, left, snapshot, worker>>
batchVars  == <<phase, instance, batch>>
ackVars    == <<done, remaining, ackDone>>
vars == <<stateVars, queueVars, closeVars, workerVars, batchVars, status,
          ackVars, panicked>>

Instances == [queue : Queues, transformer : BOOLEAN]

\* Of a transform goroutine: none, started, calls Transform, passes the
\* transformed records on, discards the batch.
Phases == {"none", "started", "transform", "deliver", "discard"}

\* Of an event: not created, created, passed to SendEvent, acknowledged by the
\* sender, passed to DiscardEvent.
Statuses == {"none", "created", "sent", "finalized", "discarded"}

NoPipelines == [p \in Pipelines |-> None]

\* Mutant: the number of destinations is not set and Track's 1 is kept.
RemainingOne(m) == 1

\* ack.remaining, as destinationsForMessage sets it.
Remaining(m) == Len(DestinationsOf[m])

\* The pipelines are enabled by notifications, see Enable.
Init ==
  /\ pipelines = NoPipelines /\ pipelineOf = <<>>
  /\ updates = 0
  /\ events = [q \in Queues |-> <<>>] /\ timer = {}
  /\ closed = {} /\ toClose = {} /\ detached = [q \in Queues |-> <<>>]
  /\ next = 1 /\ left = <<>> /\ worker = "select"
  /\ snapshot = NoPipelines
  /\ phase = [g \in Transforms |-> "none"]
  /\ instance = [g \in Transforms |-> None]
  /\ batch = [g \in Transforms |-> <<>>]
  /\ status = [e \in Events |-> "none"]
  /\ done = {} /\ ackDone = {}
  /\ remaining = [m \in Messages |-> Remaining(m)]
  /\ panicked = FALSE

-----------------------------------------------------------------------------
(* Calls.                                                                  *)

\* destinationAck.Acknowledge: the last destination acknowledges the message.
Acknowledge(e) ==
  LET m == e[1] IN
  IF e \in done \/ m \in ackDone
  THEN UNCHANGED ackVars
  ELSE /\ done' = done \cup {e}
       /\ remaining' = [remaining EXCEPT ![m] = @ - 1]
       /\ ackDone' = IF remaining[m] = 1 THEN ackDone \cup {m} ELSE ackDone

\* Sender.CreateEvent and Sender.SendEvent: module Sender.
CreateEvent(e) == status' = [status EXCEPT ![e] = "created"]
SendEvent(e) == status' = [status EXCEPT ![e] = "sent"]

\* Mutant: the event is discarded and its destination not acknowledged.
discardEventOnly(e) ==
  /\ status' = [status EXCEPT ![e] = "discarded"]
  /\ UNCHANGED ackVars

\* destinationPipelineQueue.discardEvent: DiscardEvent, then Acknowledge.
discardEvent(e) ==
  /\ status' = [status EXCEPT ![e] = "discarded"]
  /\ Acknowledge(e)

\* resetTimerLocked, when the queue has the events evs.
ResetTimer(q, evs) == IF evs = <<>> THEN timer \ {q} ELSE timer \cup {q}

\* cond.Broadcast: the worker wakes up if it sleeps on the queue.
Broadcast(q) ==
  IF worker = "wait" /\ snapshot[Head(left)].queue = q THEN "queue" ELSE worker

-----------------------------------------------------------------------------
(* Notifications of the state.                                             *)

\* A pipeline is created or enabled, alone or with its connection: a new
\* instance with a new queue.
Enable(p, transformer) ==
  /\ pipelines[p] = None
  /\ Len(pipelineOf) < MaxQueues
  /\ pipelineOf' = Append(pipelineOf, p)
  /\ pipelines' = [pipelines EXCEPT ![p] =
                     [queue |-> Len(pipelineOf'), transformer |-> transformer]]
  /\ UNCHANGED <<updates, queueVars, closeVars, workerVars, batchVars, status,
                 ackVars>>

\* An update replaces the instance with a copy that has the same queue. One
\* that leaves the transformer as it is changes nothing that is modelled.
Update(p) ==
  /\ pipelines[p] # None
  /\ updates < MaxUpdates
  /\ updates' = updates + 1
  /\ pipelines' = [pipelines EXCEPT ![p].transformer = ~@]
  /\ UNCHANGED <<pipelineOf, queueVars, closeVars, workerVars, batchVars,
                 status, ackVars>>

\* The pipelines ps are removed, because they, or all those of the
\* connection, are disabled or deleted, and closed in another goroutine.
RemovePipelines(ps) ==
  /\ ps # {}
  /\ \A p \in ps : pipelines[p] # None
  /\ pipelines' = [p \in Pipelines |-> IF p \in ps THEN None ELSE pipelines[p]]
  /\ toClose' = toClose \cup {pipelines[p].queue : p \in ps}
  /\ UNCHANGED <<pipelineOf, updates, queueVars, closed, detached, workerVars,
                 batchVars, status, ackVars>>

\* destinationPipeline.Close: the queued events are detached, ...
Close(q) ==
  /\ q \in toClose
  /\ toClose' = toClose \ {q}
  /\ closed' = closed \cup {q}
  /\ detached' = [detached EXCEPT ![q] = events[q]]
  /\ events' = [events EXCEPT ![q] = <<>>]
  /\ timer' = ResetTimer(q, <<>>)
  /\ worker' = Broadcast(q)
  /\ UNCHANGED <<stateVars, next, left, snapshot, batchVars, status, ackVars>>

\* ... and discarded.
CloseDiscard(q) ==
  /\ detached[q] # <<>>
  /\ discardEvent(Head(detached[q]))
  /\ detached' = [detached EXCEPT ![q] = Tail(@)]
  /\ UNCHANGED <<stateVars, queueVars, closed, toClose, workerVars, batchVars>>

-----------------------------------------------------------------------------
(* The worker: processForwardedEvents and destinations.QueueEvent.         *)

\* A message is received; QueueEvent reads the pipelines of the connection.
Receive ==
  /\ worker = "select"
  /\ next \in Messages
  /\ worker' = "queue"
  /\ left' = DestinationsOf[next]
  /\ snapshot' = pipelines
  /\ UNCHANGED <<stateVars, queueVars, closeVars, next, batchVars, status,
                 ackVars>>

\* The event the worker is at.
Current == <<next, Head(left)>>

\* The worker is done with an event, perhaps with the message, and then with
\* the pipelines it read.
Advance ==
  /\ left' = Tail(left)
  /\ snapshot' = IF Len(left) = 1 THEN NoPipelines ELSE snapshot
  /\ worker' = IF Len(left) = 1 THEN "select" ELSE "queue"
  /\ next' = IF Len(left) = 1 THEN next + 1 ELSE next

\* The pipeline is not found, or its queue is closed, also after waiting:
\* the event is acknowledged.
Refuse ==
  /\ worker = "queue"
  /\ LET dp == snapshot[Head(left)] IN dp # None => dp.queue \in closed
  /\ Acknowledge(Current)
  /\ Advance
  /\ UNCHANGED <<stateVars, queueVars, closeVars, batchVars, status>>

\* The instance of the current event, whose queue is open.
Open(dp) ==
  /\ worker = "queue"
  /\ snapshot[Head(left)] # None
  /\ dp = snapshot[Head(left)]
  /\ dp.queue \notin closed

\* There is no transformation: the event is created ...
CreateDirect ==
  /\ \E dp \in Instances : Open(dp) /\ ~dp.transformer
  /\ CreateEvent(Current)
  /\ worker' = "send"
  /\ UNCHANGED <<stateVars, queueVars, closeVars, next, left, snapshot,
                 batchVars, ackVars>>

\* ... and sent, without the mutex of the queue.
SendDirect ==
  /\ worker = "send"
  /\ SendEvent(Current)
  /\ Advance
  /\ UNCHANGED <<stateVars, queueVars, closeVars, batchVars, ackVars>>

\* The queue is full: cond.Wait.
Wait ==
  /\ \E dp \in Instances : /\ Open(dp) /\ dp.transformer
                           /\ Len(events[dp.queue]) >= MaxQueuedEventSize
  /\ worker' = "wait"
  /\ UNCHANGED <<stateVars, queueVars, closeVars, next, left, snapshot,
                 batchVars, status, ackVars>>

\* The event is created and queued.
QueueEvent ==
  \E dp \in Instances :
    LET q == dp.queue
        n == Len(events[q]) + 1
    IN
    /\ Open(dp) /\ dp.transformer
    /\ Len(events[q]) < MaxQueuedEventSize
    /\ CreateEvent(Current)
    /\ events' = [events EXCEPT ![q] = Append(@, Current)]
    /\ timer' = IF n \in {1, MinQueuedEventSize}
                THEN ResetTimer(q, events'[q]) ELSE timer
    /\ Advance
    /\ UNCHANGED <<stateVars, closeVars, batchVars, ackVars>>

-----------------------------------------------------------------------------
(* The transformation of the queued events.                                *)

\* The goroutines that can be started, which are interchangeable.
Idle == {g \in Transforms : phase[g] = "none"}

\* The timer fires. Its goroutine starts transform on the current instance of
\* the pipeline, which may have another queue, or does nothing. The receipt
\* from timer.C and the look-up are one step: between them the timer could only
\* be armed again, for one more call of transform.
TimerFires(q) ==
  LET dp == pipelines[pipelineOf[q]] IN
  /\ q \in timer
  /\ timer' = timer \ {q}
  /\ \/ dp = None /\ UNCHANGED batchVars
     \/ /\ dp # None
        /\ Idle # {}
        /\ LET g == CHOOSE g \in Idle : TRUE IN
             /\ phase' = [phase EXCEPT ![g] = "started"]
             /\ instance' = [instance EXCEPT ![g] = dp]
        /\ UNCHANGED batch
  /\ UNCHANGED <<stateVars, events, closeVars, workerVars, status, ackVars>>

\* How many events transform takes from evs.
BatchLen(evs) ==
  IF Len(evs) < MinQueuedEventSize THEN Len(evs) ELSE MinQueuedEventSize

\* Mutant: the last event of the batch stays in the queue.
RestOneMore(evs) == SubSeq(evs, BatchLen(evs), Len(evs))

\* slices.Delete(dp.queue.events, 0, n)
Rest(evs) == SubSeq(evs, BatchLen(evs) + 1, Len(evs))

\* transform takes a batch from the queue, if there is one.
TakeBatch(g) ==
  LET q == instance[g].queue IN
  /\ phase[g] = "started"
  /\ \/ /\ q \in closed \/ events[q] = <<>>
        /\ phase' = [phase EXCEPT ![g] = "none"]
        /\ instance' = [instance EXCEPT ![g] = None]
        /\ UNCHANGED <<batch, queueVars, worker>>
     \/ /\ q \notin closed /\ events[q] # <<>>
        /\ batch' = [batch EXCEPT ![g] = SubSeq(events[q], 1, BatchLen(events[q]))]
        /\ events' = [events EXCEPT ![q] = Rest(@)]
        /\ timer' = ResetTimer(q, events'[q])
        /\ worker' = IF Len(events'[q]) < MaxQueuedEventSize THEN Broadcast(q)
                                                             ELSE worker
        /\ phase' = [phase EXCEPT ![g] = "transform"]
        /\ UNCHANGED instance
  /\ UNCHANGED <<stateVars, closeVars, next, left, snapshot, status, ackVars>>

\* Transform returns, with an error or not. Closing the queue cancels it.
TransformReturns(g) ==
  /\ phase[g] = "transform"
  /\ instance[g].transformer
  /\ \E ph \in {"deliver", "discard"} : phase' = [phase EXCEPT ![g] = ph]
  /\ UNCHANGED <<stateVars, queueVars, closeVars, workerVars, instance, batch,
                 status, ackVars>>

\* dp.transformer is nil.
TransformPanics(g) ==
  /\ phase[g] = "transform"
  /\ ~instance[g].transformer
  /\ panicked' = TRUE
  /\ UNCHANGED <<stateVars, queueVars, closeVars, workerVars, batchVars,
                 status, ackVars>>

\* The next event of the batch is sent, or it is discarded, because of an
\* error of its record or of the whole transformation.
FinishEvent(g) ==
  LET e == Head(batch[g]) IN
  /\ phase[g] \in {"deliver", "discard"}
  /\ \/ phase[g] = "deliver" /\ SendEvent(e) /\ UNCHANGED ackVars
     \/ discardEvent(e)
  /\ batch' = [batch EXCEPT ![g] = Tail(@)]
  /\ IF Len(batch[g]) = 1
     THEN /\ phase' = [phase EXCEPT ![g] = "none"]
          /\ instance' = [instance EXCEPT ![g] = None]
     ELSE UNCHANGED <<phase, instance>>
  /\ UNCHANGED <<stateVars, queueVars, closeVars, workerVars>>

\* The sender has finished with an event and acknowledges it: module Sender.
SenderAcknowledges(e) ==
  /\ status[e] = "sent"
  /\ status' = [status EXCEPT ![e] = "finalized"]
  /\ Acknowledge(e)
  /\ UNCHANGED <<stateVars, queueVars, closeVars, workerVars, batchVars>>

-----------------------------------------------------------------------------
WorkerStep == Receive \/ Refuse \/ CreateDirect \/ SendDirect \/ Wait \/ QueueEvent

Notification ==
  \/ \E p \in Pipelines : Update(p) \/ \E t \in BOOLEAN : Enable(p, t)
  \/ \E ps \in SUBSET Pipelines : RemovePipelines(ps)

TransformStep(g) == TakeBatch(g) \/ TransformReturns(g) \/ FinishEvent(g)

CloseStep == \E q \in Queues : Close(q) \/ CloseDiscard(q)

TimerStep == \E q \in DOMAIN pipelineOf : TimerFires(q)

SenderStep == \E e \in Events : SenderAcknowledges(e)

\* A step of the goroutines; a panic ends the process.
Goroutine(A) == A /\ ~panicked /\ UNCHANGED panicked
Panic == ~panicked /\ \E g \in Transforms : TransformPanics(g)

Next ==
  \/ Goroutine(Notification)
  \/ Goroutine(WorkerStep)
  \/ Goroutine(CloseStep)
  \/ Goroutine(TimerStep)
  \/ Goroutine(\E g \in Transforms : TransformStep(g))
  \/ Goroutine(SenderStep)
  \/ Panic

Spec == Init /\ [][Next]_vars

\* The goroutines run, an armed timer fires, transformations return, and the
\* sender finishes with the events it is sent (Sender!EventuallyFinalized;
\* those that a connector discards, which it never acknowledges, are left out).
\* Notifications need not come.
Fairness ==
  /\ WF_vars(Goroutine(WorkerStep))
  /\ WF_vars(Goroutine(CloseStep))
  /\ WF_vars(Goroutine(TimerStep))
  /\ WF_vars(Goroutine(\E g \in Transforms : TransformStep(g)))
  /\ WF_vars(Goroutine(SenderStep))
  /\ WF_vars(Panic)

FairSpec == Spec /\ Fairness

-----------------------------------------------------------------------------
(* Properties.                                                             *)

\* The state has the types of the code's fields; the count of the destinations
\* that have not acknowledged a message never goes below zero.
TypeOK ==
  /\ pipelines \in [Pipelines -> Instances \cup {None}]
  /\ pipelineOf \in Seq(Pipelines) /\ Len(pipelineOf) <= MaxQueues
  /\ events \in [Queues -> Seq(Events)] /\ detached \in [Queues -> Seq(Events)]
  /\ closed \subseteq Queues /\ timer \subseteq Queues /\ toClose \subseteq Queues
  /\ snapshot \in [Pipelines -> Instances \cup {None}]
  /\ worker \in {"select", "queue", "wait", "send"}
  /\ next \in Nat /\ left \in Seq(Pipelines)
  /\ phase \in [Transforms -> Phases]
  /\ instance \in [Transforms -> Instances \cup {None}]
  /\ batch \in [Transforms -> Seq(Events)]
  /\ status \in [Events -> Statuses]
  /\ done \subseteq Events /\ ackDone \subseteq Messages
  /\ remaining \in [Messages -> Nat]
  /\ panicked \in BOOLEAN

\* The sender gets each event that was created for it exactly once, by
\* SendEvent or by DiscardEvent, whether its queue is transformed, closed or
\* taken over by another instance of the pipeline meanwhile.
ProcessedOnce ==
  [][\A e \in Events :
       status'[e] # status[e] =>
         \/ status[e] = "none" /\ status'[e] = "created"
         \/ status[e] = "created" /\ status'[e] \in {"sent", "discarded"}
         \/ status[e] = "sent" /\ status'[e] = "finalized"]_vars

\* A message is acknowledged to NATS only when the worker is past it and no
\* destination has an event of it to send: what is lost after that is not
\* delivered again.
AckedAfterProcessed ==
  \A m \in ackDone :
    \A e \in Events :
      e[1] = m => /\ status[e] \in {"none", "finalized", "discarded"}
                  /\ status[e] = "none" => m < next \/ e[2] \notin ToSet(left)

\* "events already in the queue are still transformed before being passed to
\* the sender": a batch always has a transformer.
StillTransformed ==
  \A g \in Transforms : phase[g] = "transform" => instance[g].transformer

\* The messages that the worker has taken from the stream.
Taken == {m \in Messages : m < next \/ (m = next /\ worker # "select")}

\* Whenever messages stop coming, every message taken is acknowledged in the
\* end: no event of it stays with a closed queue, a stopped timer or a
\* sleeping worker. If the process dies the stream delivers it again.
MessagesAcknowledged == []<>(Taken \subseteq ackDone \/ panicked)
=============================================================================
