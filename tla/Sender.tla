------------------------------- MODULE Sender -------------------------------
(***************************************************************************)
(* The event sender of one application destination                         *)
(* (core/internal/collector/sender).                                       *)
(*                                                                         *)
(* Events are created in an order (CreateEvent), processed in any order    *)
(* and from any goroutine (SendEvent, DiscardEvent), put back in creation  *)
(* order by one orderingQueue per ordering key, appended to a bounded      *)
(* queue, and read by iterators that the sender's loop hands to the        *)
(* connector's SendEvents. Only one iterator reads at a time; several may  *)
(* be waiting for the answer of the application.                           *)
(*                                                                         *)
(* Every method of the code is one critical section of Sender.mu, so every *)
(* action below is one too, with one exception: orderingQueue.enqueue may  *)
(* sleep on queue.cond in the middle. It is modelled one forwarded event   *)
(* at a time, with `lock' naming the goroutine that holds the mutex.       *)
(*                                                                         *)
(* Abstracted: wall-clock time (the timer is armed or not), minBatchSize,  *)
(* metrics, error values, event contents and the wrap-around of 64-bit     *)
(* sequence numbers.                                                       *)
(***************************************************************************)
EXTENDS Integers, Sequences, FiniteSets, SequencesExt

CONSTANTS
  Events,           \* every event that may be created
  Orderings,        \* ordering keys (ordering group, anonymous ID)
  Users,            \* anonymous IDs
  OrderingOf,       \* the ordering key of each event
  UserOf,           \* the anonymous ID of each ordering key
  Iterators,        \* iterator identities; bounds how many coexist
  MaxQueuedEvents,  \* KRENALIS_MAX_QUEUED_EVENTS_PER_DESTINATION
  Marker,           \* postponeMarker
  None              \* nil

ASSUME DataAssumption ==
  /\ IsFiniteSet(Events)
  /\ OrderingOf \in [Events -> Orderings]
  /\ UserOf \in [Orderings -> Users]
ASSUME MaxAssumption == MaxQueuedEvents \in Nat \ {0}
ASSUME NilAssumption ==
  /\ None \notin Events \cup Orderings \cup Users \cup Iterators
  /\ Marker \notin Iterators \cup {None}

VARIABLES
  \* Event
  status,      \* where each event is in its life, see Statuses
  sequence,    \* Event.sequence
  discarded,   \* the events with Event.discarded set
  evIter,      \* Event.iterator
  acked,       \* the events whose ack was acknowledged by the sender
  \* ordering and its orderingQueue
  orderings,   \* the keys of Sender.orderings
  nextSeq,     \* orderingQueue.sequence.next
  expected,    \* orderingQueue.sequence.expected
  buf,         \* orderingQueue.events, newest first
  ordIter,     \* ordering.iterator
  consumed,    \* ordering.consumed
  \* the goroutine that is inside orderingQueue.enqueue of an ordering
  fwd,         \* the event it is forwarding, None when there is none
  last,        \* its local `last', 1-based; 0 for the event it was called with
  lock,        \* the ordering whose goroutine holds Sender.mu, or None
  waiters,     \* the goroutines asleep on queue.cond, oldest first
  \* Sender
  queue,       \* queue.events, with None for the holes
  releasable,  \* Sender.releasableOrderings
  cur,         \* Sender.iterator
  it,          \* the fields of the current iterator
  phase,       \* what each iterator's send goroutine is doing, see Phases
  available,   \* Sender.available
  schedule,    \* whether the timer is armed, or has a value to receive
  closed,      \* Sender.close.closed
  loop         \* what the loop goroutine is doing

evVars   == <<status, sequence, discarded, evIter, acked>>
ordVars  == <<orderings, nextSeq, expected, buf, ordIter, consumed>>
fwdVars  == <<fwd, last, lock, waiters>>
iterVars == <<cur, it, phase>>
vars == <<evVars, ordVars, fwdVars, queue, releasable, iterVars, available,
          schedule, closed, loop>>

(***************************************************************************)
(* new: not created; created: returned by CreateEvent; buffered: in an     *)
(* orderingQueue; forwarding: in the hands of the goroutine that processes *)
(* it; queued: in the sender queue; sent: SendEvents returned for it;      *)
(* rejected: discarded by the connector; dropped: processed by             *)
(* DiscardEvent; abandoned: given up because the sender is closed.         *)
(***************************************************************************)
Statuses == {"new", "created", "buffered", "forwarding", "queued", "sent",
             "rejected", "dropped", "abandoned"}
Final    == {"sent", "rejected", "dropped", "abandoned"}

(***************************************************************************)
(* paused: the loop sleeps before handing the iterator to send; ready: in  *)
(* SendEvents, nothing read; yielded: an event is in the connector's hands *)
(* ; ending: about to call Sender.iterated; done: iteration completed,     *)
(* SendEvents still running; compacting: SendEvents returned.              *)
(***************************************************************************)
Phases == {"free", "paused", "ready", "yielded", "ending", "done",
           "compacting"}

NoIteration == [index |-> 1, numConsumed |-> 0, sameUser |-> FALSE,
                user |-> None, first |-> FALSE, mark |-> "none"]

Init ==
  /\ status = [e \in Events |-> "new"]
  /\ sequence = [e \in Events |-> 0]
  /\ discarded = {}
  /\ evIter = [e \in Events |-> None]
  /\ acked = {}
  /\ orderings = {}
  /\ nextSeq = [o \in Orderings |-> 0]
  /\ expected = [o \in Orderings |-> 0]
  /\ buf = [o \in Orderings |-> <<>>]
  /\ ordIter = [o \in Orderings |-> None]
  /\ consumed = [o \in Orderings |-> 0]
  /\ fwd = [o \in Orderings |-> None]
  /\ last = [o \in Orderings |-> 0]
  /\ lock = None
  /\ waiters = <<>>
  /\ queue = <<>>
  /\ releasable = {}
  /\ cur = None
  /\ it = NoIteration
  /\ phase = [i \in Iterators |-> "free"]
  /\ available = 0
  /\ schedule = FALSE
  /\ closed = FALSE
  /\ loop = "select"

-----------------------------------------------------------------------------
(* Helpers of the code.                                                    *)

EventsOf(o) == {e \in Events : OrderingOf[e] = o}

\* ordering.total and queue.total, under the statuses st.
QueuedOf(st, o) == {e \in EventsOf(o) : st[e] = "queued"}
Total(st, o) == Cardinality(QueuedOf(st, o))
QueueTotal == Cardinality({e \in Events : status[e] = "queued"})

\* Mutant: nobody is woken.
SignalNone(n) == waiters' = waiters

\* sync.Cond.Signal called n times: wakes the n oldest sleepers.
Signal(n) == waiters' = SubSeq(waiters, n + 1, Len(waiters))

\* scheduleIteration, for the availability and the current iterator it finds.
ScheduleIteration(avail, iter) ==
  schedule' = CASE avail = 0 -> FALSE
                [] avail # 0 /\ iter # None -> schedule
                [] OTHER -> TRUE

\* disposeOrdering of every ordering in D. The reset that orderingPool.Get
\* does when the ordering is taken again is done here.
DisposeOrderings(D) ==
  /\ orderings' = orderings \ D
  /\ nextSeq' = [o \in Orderings |-> IF o \in D THEN 0 ELSE nextSeq[o]]
  /\ expected' = [o \in Orderings |-> IF o \in D THEN 0 ELSE expected[o]]
  /\ buf' = [o \in Orderings |-> IF o \in D THEN <<>> ELSE buf[o]]

\* ordering.disposable, for the values its fields have at the call.
Disposable(o, exp, st, con) ==
  exp = nextSeq[o] /\ Total(st, o) = 0 /\ con = 0

\* releaseOrderings of the orderings R, with the statuses st.
ReleaseOrderings(R, st) ==
  LET D == {o \in R : Disposable(o, expected[o], st, 0)}
      freed == {e \in Events : st[e] = "queued" /\ OrderingOf[e] \in R}
  IN /\ ordIter' = [o \in Orderings |-> IF o \in R THEN None ELSE ordIter[o]]
     /\ consumed' = [o \in Orderings |-> IF o \in R THEN 0 ELSE consumed[o]]
     /\ available' = available + Cardinality(freed)
     /\ releasable' = {}
     /\ DisposeOrderings(D)

\* Mutant: read does not look at the iterator that holds the ordering.
CandidatesShared(i) ==
  {k \in it.index .. Len(queue) :
     /\ queue[k] # None
     /\ evIter[queue[k]] = None
     /\ it.user # None => UserOf[OrderingOf[queue[k]]] = it.user}

\* Mutant: read does not look at the selected user.
CandidatesAnyUser(i) ==
  {k \in it.index .. Len(queue) :
     /\ queue[k] # None
     /\ evIter[queue[k]] = None
     /\ ordIter[OrderingOf[queue[k]]] \in {None, i}}

\* The positions at or after the read index that the iterator i may read.
Candidates(i) ==
  {k \in it.index .. Len(queue) :
     /\ queue[k] # None
     /\ evIter[queue[k]] = None
     /\ ordIter[OrderingOf[queue[k]]] \in {None, i}
     /\ it.user # None => UserOf[OrderingOf[queue[k]]] = it.user}

\* The position read(true) and read(false) stop at.
FirstCandidate(i, k) ==
  k \in Candidates(i) /\ \A j \in Candidates(i) : k <= j

\* The position of the event most recently read by i: discard and postpone
\* walk back from the read index.
LastRead(i, k) ==
  LET mine == {j \in DOMAIN queue : j < it.index /\ queue[j] # None
                                    /\ evIter[queue[j]] = i}
  IN k \in mine /\ \A j \in mine : j <= k

-----------------------------------------------------------------------------
(* Creating and processing events.                                         *)

CreateEvent(e) ==
  LET o == OrderingOf[e] IN
  /\ lock = None
  /\ status[e] = "new"
  /\ orderings' = orderings \cup {o}
  /\ sequence' = [sequence EXCEPT ![e] = nextSeq[o]]
  /\ nextSeq' = [nextSeq EXCEPT ![o] = @ + 1]
  /\ status' = [status EXCEPT ![e] = "created"]
  /\ UNCHANGED <<discarded, evIter, acked, expected, buf, ordIter, consumed,
                 fwdVars, queue, releasable, iterVars, available, schedule,
                 closed, loop>>

\* slices.BinarySearchFunc: e goes at position p of the buffer, newest first.
InsertPos(e, o, p) ==
  \A k \in DOMAIN buf[o] : IF k < p THEN sequence[buf[o][k]] > sequence[e]
                                     ELSE sequence[buf[o][k]] < sequence[e]

\* Mutant: enqueue does not wait for the events created earlier.
InOrderAlways(e) == TRUE

\* event.sequence == q.sequence.expected
InOrder(e) == sequence[e] = expected[OrderingOf[e]]

\* processEvent of an event that is out of order: orderingQueue.enqueue
\* inserts it and returns. The ordering is not disposable, e being expected.
BufferEvent(e) ==
  LET o == OrderingOf[e] IN
  /\ ~InOrder(e)
  /\ \E p \in 1 .. Len(buf[o]) + 1 :
       /\ InsertPos(e, o, p)
       /\ buf' = [buf EXCEPT ![o] = InsertAt(@, p, e)]
  /\ status' = [status EXCEPT ![e] = "buffered"]
  /\ UNCHANGED fwdVars

\* processEvent of the expected event: the goroutine keeps the mutex and
\* forwards it and the events that it unblocks, see Forward.
StartForwarding(e) ==
  LET o == OrderingOf[e] IN
  /\ InOrder(e)
  /\ fwd' = [fwd EXCEPT ![o] = e]
  /\ last' = [last EXCEPT ![o] = 0]
  /\ lock' = o
  /\ status' = [status EXCEPT ![e] = "forwarding"]
  /\ UNCHANGED <<buf, waiters>>

\* SendEvent (drop = FALSE) and DiscardEvent (drop = TRUE).
ProcessEvent(e, drop) ==
  /\ lock = None
  /\ status[e] = "created"
  /\ discarded' = IF drop THEN discarded \cup {e} ELSE discarded
  /\ BufferEvent(e) \/ StartForwarding(e)
  /\ UNCHANGED <<sequence, evIter, acked, orderings, nextSeq, expected,
                 ordIter, consumed, queue, releasable, iterVars, available,
                 schedule, closed, loop>>

\* The forward closure finds the queue full: cond.Wait.
ForwardWait(o) ==
  /\ lock = o
  /\ fwd[o] \notin discarded
  /\ ~closed
  /\ QueueTotal >= MaxQueuedEvents
  /\ waiters' = Append(waiters, o)
  /\ lock' = None
  /\ UNCHANGED <<evVars, ordVars, fwd, last, queue, releasable, iterVars,
                 available, schedule, closed, loop>>

\* The forward closure returns false: the sender is closed. The event that
\* processEvent was called with is given up, a buffered one stays buffered.
ForwardAbort(o) ==
  /\ lock = o
  /\ fwd[o] \notin discarded
  /\ closed
  /\ status' = IF last[o] = 0 THEN [status EXCEPT ![fwd[o]] = "abandoned"]
                              ELSE status
  /\ fwd' = [fwd EXCEPT ![o] = None]
  /\ last' = [last EXCEPT ![o] = 0]
  /\ lock' = None
  /\ UNCHANGED <<sequence, discarded, evIter, acked, ordVars, waiters, queue,
                 releasable, iterVars, available, schedule, closed, loop>>

\* Mutant: the buffer is popped although the forwarded event was not in it.
PoppedAlways(o) == SubSeq(buf[o], 1, Len(buf[o]) - 1)

\* What is left of the buffer once the forwarded event is popped with the
\* index computed before forward was called: q.events = q.events[:last].
Popped(o) == IF last[o] = 0 THEN buf[o] ELSE SubSeq(buf[o], 1, last[o] - 1)

\* addAvailable(1), unless the ordering is held.
AvailableWith(o) == IF ordIter[o] = None THEN available + 1 ELSE available

\* queue.enqueue and the rest of the forward closure.
Enqueue(e, o) ==
  /\ queue' = Append(queue, e)
  /\ status' = [status EXCEPT ![e] = "queued"]
  /\ available' = AvailableWith(o)
  /\ IF ordIter[o] = None /\ cur = None
     THEN ScheduleIteration(available + 1, None)
     ELSE UNCHANGED schedule

\* A discarded event is not forwarded but it advances the sequence.
Skip(e) ==
  /\ status' = [status EXCEPT ![e] = "dropped"]
  /\ UNCHANGED <<queue, available, schedule>>

\* One turn of orderingQueue.enqueue: forward (or skip) the event, pop it,
\* then take the next one if it is the expected one. At the end write
\* sequence.expected and dispose of the ordering if nothing is left of it.
Forward(o) ==
  LET e  == fwd[o]
      nb == Popped(o)
  IN
  /\ lock = o
  /\ \/ e \in discarded /\ Skip(e)
     \/ e \notin discarded /\ ~closed /\ QueueTotal < MaxQueuedEvents
        /\ Enqueue(e, o)
  /\ IF nb # <<>> /\ sequence[Last(nb)] = sequence[e] + 1
     THEN /\ fwd' = [fwd EXCEPT ![o] = Last(nb)]
          /\ last' = [last EXCEPT ![o] = Len(nb)]
          /\ buf' = [buf EXCEPT ![o] = nb]
          /\ UNCHANGED <<lock, orderings, nextSeq, expected>>
     ELSE /\ fwd' = [fwd EXCEPT ![o] = None]
          /\ last' = [last EXCEPT ![o] = 0]
          /\ lock' = None
          /\ IF Disposable(o, sequence[e] + 1, status', consumed[o])
             THEN DisposeOrderings({o})
             ELSE /\ expected' = [expected EXCEPT ![o] = sequence[e] + 1]
                  /\ buf' = [buf EXCEPT ![o] = nb]
                  /\ UNCHANGED <<orderings, nextSeq>>
  /\ UNCHANGED <<sequence, discarded, evIter, acked, ordIter, consumed,
                 waiters, releasable, iterVars, closed, loop>>

\* A goroutine woken from cond.Wait takes the mutex again.
Wake(o) ==
  /\ lock = None
  /\ fwd[o] # None
  /\ \A k \in DOMAIN waiters : waiters[k] # o
  /\ lock' = o
  /\ UNCHANGED <<evVars, ordVars, fwd, last, waiters, queue, releasable,
                 iterVars, available, schedule, closed, loop>>

-----------------------------------------------------------------------------
(* The loop goroutine.                                                     *)

\* The loop receives from the timer, which is not armed any more. It does not
\* hold the mutex yet, and others may arm it again.
TimerFires ==
  /\ loop = "select"
  /\ schedule
  /\ schedule' = FALSE
  /\ loop' = "fired"
  /\ UNCHANGED <<evVars, ordVars, fwdVars, queue, releasable, iterVars,
                 available, closed>>

\* The loop has the mutex and finds an iteration in progress, because the timer
\* was armed again before that one began, or nothing available.
LoopIdle ==
  /\ lock = None
  /\ loop = "fired"
  /\ cur # None \/ available = 0
  /\ ScheduleIteration(available, cur)
  /\ loop' = "select"
  /\ UNCHANGED <<evVars, ordVars, fwdVars, queue, releasable, iterVars,
                 available, closed>>

\* The loop has the mutex and starts an iteration. A timer that was armed since
\* it fired stays armed. The loop may have to wait for the rate limiter before
\* it hands the iterator to send.
LoopTick(i, pause) ==
  /\ lock = None
  /\ loop = "fired"
  /\ cur = None /\ available > 0
  /\ phase[i] = "free"
  /\ ReleaseOrderings(releasable, status)
  /\ i \notin {ordIter'[o] : o \in Orderings}  \* a fresh iterator
  /\ cur' = i
  /\ it' = NoIteration
  /\ phase' = [phase EXCEPT ![i] = IF pause THEN "paused" ELSE "ready"]
  /\ ScheduleIteration(available', i)
  /\ loop' = IF pause THEN "pause" ELSE "select"
  /\ UNCHANGED <<evVars, fwdVars, queue, closed>>

\* The wait for the rate limiter is over: senders.Go.
PauseEnd ==
  /\ loop = "pause"
  /\ loop' = "select"
  /\ phase' = [phase EXCEPT ![cur] = "ready"]
  /\ UNCHANGED <<evVars, ordVars, fwdVars, queue, releasable, cur, it,
                 available, schedule, closed>>

\* Close marks the sender closed and wakes every sleeping goroutine.
Close ==
  /\ lock = None
  /\ ~closed
  /\ closed' = TRUE
  /\ waiters' = <<>>
  /\ UNCHANGED <<evVars, ordVars, fwd, last, lock, queue, releasable, iterVars,
                 available, schedule, loop>>

\* The loop receives from close.stop, in either of its two selects, ...
LoopStop ==
  /\ closed
  /\ loop \in {"select", "pause"}
  /\ loop' = "drain"
  /\ UNCHANGED <<evVars, ordVars, fwdVars, queue, releasable, iterVars,
                 available, schedule, closed>>

\* Mutant: the loop waits for an iterator it never handed to send.
SendingAny == {i \in Iterators : phase[i] # "free"}

\* The iterators with a send goroutine: senders.Wait waits for them. An
\* iterator whose pause was cut short has none.
Sending == {i \in Iterators : phase[i] \notin {"free", "paused"}}

\* ... then waits for the send goroutines and terminates.
LoopDone ==
  /\ loop = "drain"
  /\ Sending = {}
  /\ loop' = "done"
  /\ UNCHANGED <<evVars, ordVars, fwdVars, queue, releasable, iterVars,
                 available, schedule, closed>>

-----------------------------------------------------------------------------
(* The iteration: what a connector's SendEvents does with its Events.      *)

\* read(true) of the event at position k.
Consume(i, k, fields) ==
  LET e == queue[k]
      o == OrderingOf[e]
      same == fields.sameUser
  IN /\ evIter' = [evIter EXCEPT ![e] = i]
     /\ ordIter' = [ordIter EXCEPT ![o] = IF consumed[o] = 0 THEN i ELSE @]
     /\ available' = IF consumed[o] = 0 THEN available - Total(status, o)
                                        ELSE available
     /\ consumed' = [consumed EXCEPT ![o] = @ + 1]
     /\ it' = [fields EXCEPT !.index = k + 1, !.numConsumed = @ + 1,
                             !.user = IF same THEN UserOf[o] ELSE None,
                             !.mark = "none"]

\* read(true) when nothing can be read.
ReadNothing(fields) ==
  /\ it' = [fields EXCEPT !.index = Len(queue) + 1]
  /\ UNCHANGED <<evIter, ordIter, available, consumed>>

\* One turn of the loop of seq: read an event and yield it, or end.
ReadNext(i, fields) ==
  \/ /\ \E k \in DOMAIN queue :
          FirstCandidate(i, k) /\ Consume(i, k, fields)
     /\ phase' = [phase EXCEPT ![i] = "yielded"]
  \/ /\ Candidates(i) = {}
     /\ ReadNothing(fields)
     /\ phase' = [phase EXCEPT ![i] = "ending"]

\* Events.All (same = FALSE) and Events.SameUser (same = TRUE) are ranged
\* over.
StartIteration(i, same) ==
  /\ lock = None
  /\ phase[i] = "ready"
  /\ ReadNext(i, [it EXCEPT !.sameUser = same, !.first = TRUE])
  /\ UNCHANGED <<status, sequence, discarded, acked, orderings, nextSeq,
                 expected, buf, fwdVars, queue, releasable, cur, schedule,
                 closed, loop>>

\* The loop body ends and seq reads the next event, unless an event was
\* postponed while iterating over the same user.
NextEvent(i) ==
  /\ lock = None
  /\ phase[i] = "yielded"
  /\ ~(it.mark = "postponed" /\ it.sameUser)
  /\ ReadNext(i, [it EXCEPT !.first = FALSE])
  /\ UNCHANGED <<status, sequence, discarded, acked, orderings, nextSeq,
                 expected, buf, fwdVars, queue, releasable, cur, schedule,
                 closed, loop>>

\* The connector breaks out of the loop, or seq does.
BreakIteration(i) ==
  /\ phase[i] = "yielded"
  /\ phase' = [phase EXCEPT ![i] = "ending"]
  /\ UNCHANGED <<evVars, ordVars, fwdVars, queue, releasable, cur, it,
                 available, schedule, closed, loop>>

\* Events.First: one event is read and the iteration ends. It panics when
\* nothing can be read: FirstFindsEvent.
First(i) ==
  /\ lock = None
  /\ phase[i] = "ready"
  /\ \E k \in DOMAIN queue : FirstCandidate(i, k) /\ Consume(i, k, it)
  /\ phase' = [phase EXCEPT ![i] = "ending"]
  /\ UNCHANGED <<status, sequence, discarded, acked, orderings, nextSeq,
                 expected, buf, fwdVars, queue, releasable, cur, schedule,
                 closed, loop>>

\* Events.Peek, that is read(false): the read index moves to the event, and
\* with SameUser the event's user may become the selected one.
Peek(i) ==
  /\ lock = None
  /\ phase[i] \in {"ready", "yielded"}
  /\ \/ /\ Candidates(i) = {}
        /\ it' = [it EXCEPT !.index = Len(queue) + 1]
     \/ \E k \in DOMAIN queue :
          /\ FirstCandidate(i, k)
          /\ it' = [it EXCEPT !.index = k,
                             !.user = IF it.sameUser
                                      THEN UserOf[OrderingOf[queue[k]]]
                                      ELSE None]
  /\ UNCHANGED <<evVars, ordVars, fwdVars, queue, releasable, cur, phase,
                 available, schedule, closed, loop>>

\* Events.Discard: the event read last, at k, leaves the queue. Its ordering
\* is available again if the iterator holds nothing else of it.
DiscardAt(i, k) ==
  LET e == queue[k]
      o == OrderingOf[e]
      st == [status EXCEPT ![e] = "rejected"]
      freed == consumed[o] = 1
  IN
  /\ lock = None
  /\ phase[i] = "yielded"
  /\ it.mark = "none"
  /\ queue' = [queue EXCEPT ![k] = None]
  /\ Signal(1)
  /\ status' = st
  /\ evIter' = [evIter EXCEPT ![e] = None]
  /\ consumed' = [consumed EXCEPT ![o] = @ - 1]
  /\ ordIter' = [ordIter EXCEPT ![o] = IF freed THEN None ELSE @]
  /\ available' = IF freed THEN available + Total(st, o) ELSE available
  /\ IF Disposable(o, expected[o], st, consumed[o] - 1)
     THEN DisposeOrderings({o})
     ELSE UNCHANGED <<orderings, nextSeq, buf, expected>>
  /\ it' = [it EXCEPT !.mark = "discarded", !.numConsumed = @ - 1,
                      !.user = IF it.numConsumed = 1 THEN None ELSE @,
                      !.index = IF it.numConsumed = 1 THEN k + 1 ELSE @]
  /\ UNCHANGED <<sequence, discarded, acked, fwd, last, lock, releasable, cur,
                 phase, schedule, closed, loop>>

Discard(i) == \E k \in DOMAIN queue : LastRead(i, k) /\ DiscardAt(i, k)

\* Mutant: the ordering stays with the iterator.
PostponeHolderKept(o) == ordIter[o]

\* Who holds the ordering of a postponed event.
PostponeHolder(o) == Marker

\* Mutant: the ordering is not marked.
PostponeReleasableNot(o) == releasable

\* The ordering is releasable if nothing of it is in flight.
PostponeReleasable(o) ==
  IF consumed[o] = 1 THEN releasable \cup {o} ELSE releasable

\* Events.Postpone: the event read last, at k, is left unread and its
\* ordering is barred from every iterator until it is released.
PostponeAt(i, k) ==
  LET e == queue[k]
      o == OrderingOf[e]
  IN
  /\ lock = None
  /\ phase[i] = "yielded"
  /\ it.mark = "none" /\ ~it.first
  /\ evIter' = [evIter EXCEPT ![e] = None]
  /\ ordIter' = [ordIter EXCEPT ![o] = PostponeHolder(o)]
  /\ consumed' = [consumed EXCEPT ![o] = @ - 1]
  /\ releasable' = PostponeReleasable(o)
  /\ it' = [it EXCEPT !.mark = "postponed", !.numConsumed = @ - 1]
  /\ UNCHANGED <<status, sequence, discarded, acked, orderings, nextSeq,
                 expected, buf, fwdVars, queue, cur, phase, available,
                 schedule, closed, loop>>

Postpone(i) == \E k \in DOMAIN queue : LastRead(i, k) /\ PostponeAt(i, k)

\* The body of Sender.iterated: another iterator may be started.
Iterated ==
  /\ cur' = None
  /\ it' = NoIteration
  /\ ReleaseOrderings(releasable, status)
  /\ ScheduleIteration(available', None)

\* seq and First call Sender.iterated.
EndIteration(i) ==
  /\ lock = None
  /\ phase[i] = "ending"
  /\ Iterated
  /\ phase' = [phase EXCEPT ![i] = "done"]
  /\ UNCHANGED <<evVars, fwdVars, queue, closed, loop>>

\* SendEvents returns without having read any event: send calls iterated.
ReturnUnread(i) ==
  /\ lock = None
  /\ phase[i] = "ready"
  /\ Iterated
  /\ phase' = [phase EXCEPT ![i] = "compacting"]
  /\ UNCHANGED <<evVars, fwdVars, queue, closed, loop>>

\* SendEvents returns after its iteration, with or without errors: the events
\* it read leave the queue and are acknowledged, and their orderings become
\* releasable, at once if no iteration is in progress.
SendReturn(i) ==
  LET mine == {e \in Events : evIter[e] = i}
      st == [e \in Events |-> IF e \in mine THEN "sent" ELSE status[e]]
      rel == releasable \cup {OrderingOf[e] : e \in mine}
  IN
  /\ lock = None
  /\ phase[i] = "done"
  /\ status' = st
  /\ evIter' = [e \in Events |-> IF e \in mine THEN None ELSE evIter[e]]
  /\ acked' = acked \cup mine
  /\ queue' = [k \in DOMAIN queue |->
                 IF queue[k] \in mine THEN None ELSE queue[k]]
  /\ Signal(Cardinality(mine))
  /\ \/ /\ cur = None
        /\ ReleaseOrderings(rel, st)
        /\ ScheduleIteration(available', None)
     \/ /\ cur # None
        /\ releasable' = rel
        /\ UNCHANGED <<ordVars, available, schedule>>
  /\ phase' = [phase EXCEPT ![i] = "compacting"]
  /\ UNCHANGED <<sequence, discarded, fwd, last, lock, cur, it, closed, loop>>

\* There are n holes at the head of the queue, and no more.
LeadingHoles(n) ==
  /\ \A j \in 1 .. n : queue[j] = None
  /\ n < Len(queue) => queue[n + 1] # None

\* Mutant: the read index is not clamped.
ShiftedUnclamped(index, n) == index - n

\* The read index once the n leading holes are gone.
Shifted(index, n) == IF index > n THEN index - n ELSE 1

\* Sender.compact, the last step of send.
Compact(i) ==
  /\ lock = None
  /\ phase[i] = "compacting"
  /\ \/ closed /\ UNCHANGED <<queue, it>>
     \/ /\ ~closed
        /\ \E n \in 0 .. Len(queue) :
             /\ LeadingHoles(n)
             /\ queue' = SubSeq(queue, n + 1, Len(queue))
             /\ it' = IF cur = None THEN it
                      ELSE [it EXCEPT !.index = Shifted(@, n)]
  /\ phase' = [phase EXCEPT ![i] = "free"]
  /\ UNCHANGED <<evVars, ordVars, fwdVars, releasable, cur, available,
                 schedule, closed, loop>>

-----------------------------------------------------------------------------
Next ==
  \/ \E e \in Events :
       \/ CreateEvent(e)
       \/ \E drop \in BOOLEAN : ProcessEvent(e, drop)
  \/ \E o \in Orderings :
       ForwardWait(o) \/ ForwardAbort(o) \/ Forward(o) \/ Wake(o)
  \/ \E i \in Iterators :
       \/ \E pause \in BOOLEAN : LoopTick(i, pause)
       \/ \E same \in BOOLEAN : StartIteration(i, same)
       \/ NextEvent(i) \/ BreakIteration(i) \/ First(i) \/ Peek(i)
       \/ Discard(i) \/ Postpone(i) \/ EndIteration(i)
       \/ ReturnUnread(i) \/ SendReturn(i) \/ Compact(i)
  \/ TimerFires \/ LoopIdle \/ PauseEnd \/ Close \/ LoopStop \/ LoopDone

Spec == Init /\ [][Next]_vars

\* What runs by itself: the goroutines the Go scheduler resumes (the mutex is
\* starvation free), the timer, callers that process every event they
\* created, as CreateEvent requires, connectors whose SendEvents ends.
\* A connector may return without reading now and then, not for ever.
Fairness ==
  /\ \A e \in Events : WF_vars(\E drop \in BOOLEAN : ProcessEvent(e, drop))
  /\ \A o \in Orderings :
       WF_vars(ForwardWait(o) \/ ForwardAbort(o) \/ Forward(o) \/ Wake(o))
  /\ WF_vars(TimerFires) /\ WF_vars(LoopIdle)
  /\ WF_vars(\E i \in Iterators, pause \in BOOLEAN : LoopTick(i, pause))
  /\ WF_vars(PauseEnd) /\ WF_vars(LoopStop) /\ WF_vars(LoopDone)
  /\ \A i \in Iterators :
       /\ SF_vars(First(i) \/ \E same \in BOOLEAN : StartIteration(i, same))
       /\ WF_vars(NextEvent(i) \/ BreakIteration(i))
       /\ WF_vars(EndIteration(i))
       /\ WF_vars(SendReturn(i))
       /\ WF_vars(Compact(i))

FairSpec == Spec /\ Fairness

-----------------------------------------------------------------------------
(* Properties.                                                             *)

EventTypes ==
  /\ status \in [Events -> Statuses]
  /\ sequence \in [Events -> Nat]
  /\ discarded \subseteq Events
  /\ evIter \in [Events -> Iterators \cup {None}]
  /\ acked \subseteq Events

OrderingTypes ==
  /\ orderings \subseteq Orderings
  /\ nextSeq \in [Orderings -> Nat]
  /\ expected \in [Orderings -> Nat]
  /\ buf \in [Orderings -> Seq(Events)]
  /\ ordIter \in [Orderings -> Iterators \cup {Marker, None}]
  /\ consumed \in [Orderings -> Int]

ForwarderTypes ==
  /\ fwd \in [Orderings -> Events \cup {None}]
  /\ last \in [Orderings -> Nat]
  /\ lock \in Orderings \cup {None}
  /\ waiters \in Seq(Orderings)

Iteration == [index : Nat \ {0}, numConsumed : Int, sameUser : BOOLEAN,
              user : Users \cup {None}, first : BOOLEAN,
              mark : {"none", "postponed", "discarded"}]

IterTypes ==
  /\ cur \in Iterators \cup {None}
  /\ it \in Iteration
  /\ phase \in [Iterators -> Phases]

QueueTypes ==
  /\ queue \in Seq(Events \cup {None})
  /\ releasable \subseteq Orderings
  /\ available \in Int
  /\ schedule \in BOOLEAN
  /\ closed \in BOOLEAN
  /\ loop \in {"select", "fired", "pause", "drain", "done"}

\* The state has the types of the code's fields. In particular the read index
\* stays inside the queue's indexes and a buffer never holds a nil event,
\* although both are moved by other goroutines than the one that uses them.
TypeOK ==
  EventTypes /\ OrderingTypes /\ ForwarderTypes /\ IterTypes /\ QueueTypes

Taken(o) == {e \in EventsOf(o) : evIter[e] # None}

\* The events of an ordering that are in flight are all in the hands of the
\* same iterator: no two requests to the application carry events of the
\* same user and ordering group at the same time.
ExclusiveInFlight ==
  \A e, f \in Events :
    OrderingOf[e] = OrderingOf[f] /\ evIter[e] # None /\ evIter[f] # None
      => evIter[e] = evIter[f]

Pending == {"created", "buffered", "forwarding", "queued"}

Before(e, f) == OrderingOf[e] = OrderingOf[f] /\ sequence[e] < sequence[f]

\* Delivery order: an event is handed to a connector only if every event of
\* its ordering created earlier is finished, or is in the same batch. It is
\* what the comment on Sender promises, through buffering, postponing,
\* discarding and concurrent sends.
TakenInOrder ==
  \A e, f \in Events :
    /\ Before(e, f)
    /\ status[e] \in Pending
    /\ evIter[f] # None
    => evIter[e] = evIter[f]

\* Whether an event was created and is not finished yet.
Stage ==
  [e \in Events |-> CASE status[e] = "new" -> "new"
                     [] status[e] \in Pending -> "pending"
                     [] OTHER -> "finished"]

\* The sender implements OrderedDelivery: seen from its callers and from the
\* application, the buffers, the queue with its two indexes, the postponed and
\* released orderings and the concurrent sends are a set of events that are
\* taken in order, given back, finished once and acknowledged if sent.
Delivery == INSTANCE OrderedDelivery WITH
              stage <- Stage, number <- sequence, holder <- evIter
ImplementsDelivery == Delivery!Spec

\* The events a SameUser iteration takes are all of one user, also when the
\* events taken first were discarded and another user was selected.
SameUserBatch ==
  it.sameUser =>
    \A e, f \in Events :
      cur # None /\ evIter[e] = cur /\ evIter[f] = cur
        => UserOf[OrderingOf[e]] = UserOf[OrderingOf[f]]

\* The queue holds the queued events, each once, and those of one ordering
\* in creation order with none missing before them.
QueueInOrder ==
  /\ \A e \in Events :
       status[e] = "queued" <=> \E k \in DOMAIN queue : queue[k] = e
  /\ \A j, k \in DOMAIN queue :
       j < k /\ queue[j] # None /\ queue[k] # None
         => queue[j] # queue[k] /\ ~Before(queue[k], queue[j])
  /\ \A e, f \in Events :
       Before(e, f) /\ status[e] \in Pending /\ status[f] = "queued"
         => status[e] = "queued"

\* _assertAvailable: the counter that decides whether an iteration is due
\* equals the number of queued events of the orderings no iterator holds.
AvailableCorrect ==
  available = Cardinality({e \in Events : /\ status[e] = "queued"
                                          /\ ordIter[OrderingOf[e]] = None})

\* While there is something to read and nobody reads it, the timer is armed or
\* the loop has just received from it: an available event is never forgotten.
\* An armed timer may be left over from before the iteration in progress began,
\* but without one it is not armed for nothing.
IterationDue ==
  cur = None => /\ available > 0 => schedule \/ loop = "fired"
                /\ schedule => available > 0

\* An ordering that is barred from the iterators has an event in flight or is
\* about to be released, and nothing waits to be released when no iteration
\* is in progress: a postponed event is always read again.
NoStuckOrdering ==
  /\ \A o \in Orderings :
       ordIter[o] # None => o \in releasable \/ Taken(o) # {}
  /\ cur = None => releasable = {}

\* A goroutine sleeps on queue.cond only while the queue is full, unless
\* another one, already woken, is about to fill the free place.
NoLostWakeup ==
  waiters # <<>> /\ QueueTotal < MaxQueuedEvents
    => \E o \in Orderings : fwd[o] # None /\ o \notin ToSet(waiters)

\* An iterator that has read nothing yet finds an event, whatever the other
\* goroutines do meanwhile: Events.First does not panic.
FirstFindsEvent ==
  \A i \in Iterators : phase[i] \in {"paused", "ready"} => Candidates(i) # {}

\* An ordering goes back to the pool, where any sender may take it, only when
\* no event and no release refers to it any more.
DisposedUnreferenced ==
  /\ \A e \in Events : status[e] \in Pending => OrderingOf[e] \in orderings
  /\ releasable \subseteq orderings

\* What the loop and the iterators rely on: the counter, the timer, the
\* orderings, the wake-ups, the read index and the pool agree with the queue
\* after every step of any goroutine, so that the next step finds what it
\* expects.
QueueAccounting ==
  /\ AvailableCorrect
  /\ IterationDue
  /\ NoStuckOrdering
  /\ NoLostWakeup
  /\ FirstFindsEvent
  /\ DisposedUnreferenced

\* A buffered event stays in its orderingQueue, and only as long as an event
\* created earlier is still to be processed or is being forwarded: "An event
\* is buffered until all earlier-created events have been processed. It is
\* then either appended to the sender queue or discarded".
NoEventLost ==
  \A e \in Events :
    status[e] = "buffered" =>
      /\ e \in ToSet(buf[OrderingOf[e]])
      /\ \/ \E f \in Events : Before(f, e) /\ status[f] = "created"
         \/ fwd[OrderingOf[e]] # None
         \/ closed

\* Whether e, or an event of its ordering created before it, was cut off from the
\* buffer: enqueue pops with an index that is stale when forward slept.
CutOff(e) ==
  \E f \in EventsOf(OrderingOf[e]) :
    /\ sequence[f] <= sequence[e]
    /\ status[f] = "buffered" /\ f \notin ToSet(buf[OrderingOf[f]])

\* Every event that is created is finished in the end, unless the sender is
\* closed. The one way an event stays behind is that enqueue cuts it off while
\* it sleeps on the full queue, or an event of its ordering created before it:
\* the events created before that one and the other orderings go on, through
\* wake-ups, postponed events and releases. Events is finite, so "in the end"
\* may be said of all of them together.
EventuallyFinalized ==
  <>[](\A e \in Events : status[e] \in Pending => closed \/ CutOff(e))

\* Close returns: the loop drains the send goroutines and terminates, and the
\* goroutines asleep in SendEvent are let go.
CloseTerminates ==
  closed ~> (loop = "done" /\ \A o \in Orderings : fwd[o] = None)
=============================================================================
