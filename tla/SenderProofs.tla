---------------------------- MODULE SenderProofs ----------------------------
(***************************************************************************)
(* Proofs about Sender, for every set of events, orderings and iterators   *)
(* and every capacity of the queue, in three parts. Each has an inductive  *)
(* invariant of its own, relative to those before it:                      *)
(*                                                                         *)
(*   ReorderInv    from CreateEvent to the queue: the numbers of an        *)
(*                 ordering, its buffer and the goroutine in enqueue;      *)
(*   DeliveryInv   what the iterators take of the queue, in which order;   *)
(*   AccountInv    the counters, flags and sets that the code keeps beside *)
(*                 the queue, and the goroutines asleep on its condition.  *)
(***************************************************************************)
EXTENDS Sender, FiniteSetTheorems, SequenceTheorems, TLAPS

\* The events that were created and not forwarded or dropped yet.
Waiting == {"created", "buffered", "forwarding"}

\* The sequence numbers of the waiting events of an ordering are distinct and
\* lie between the expected one and the next one.
SequenceInv ==
  /\ \A o \in Orderings : expected[o] <= nextSeq[o]
  /\ \A e \in Events : status[e] \in Waiting =>
       /\ expected[OrderingOf[e]] <= sequence[e]
       /\ sequence[e] < nextSeq[OrderingOf[e]]
  /\ \A e, f \in Events :
       /\ status[e] \in Waiting /\ status[f] \in Waiting
       /\ OrderingOf[e] = OrderingOf[f]
       /\ sequence[e] = sequence[f]
       => e = f

\* A buffer holds buffered events of its ordering, newest first.
BufferInv ==
  \A o \in Orderings :
    /\ \A k \in DOMAIN buf[o] :
         status[buf[o][k]] = "buffered" /\ OrderingOf[buf[o][k]] = o
    /\ \A j, k \in DOMAIN buf[o] :
         j < k => sequence[buf[o][j]] > sequence[buf[o][k]]

\* The goroutine inside enqueue forwards the oldest waiting event of its
\* ordering, which is the last one of the buffer or the one it was given.
ForwarderInv ==
  /\ lock # None => fwd[lock] # None
  /\ \A o \in Orderings : fwd[o] # None =>
       /\ OrderingOf[fwd[o]] = o
       /\ status[fwd[o]] \in Waiting
       /\ \A e \in EventsOf(o) :
            status[e] \in Waiting /\ e # fwd[o]
              => sequence[e] > sequence[fwd[o]]
       /\ last[o] = 0 => status[fwd[o]] = "forwarding"
       /\ last[o] # 0 => /\ last[o] <= Len(buf[o])
                         /\ buf[o][Len(buf[o])] = fwd[o]

\* The queue holds the queued events, those of one ordering in creation
\* order, before every waiting one. Only queued events are taken.
QueueInv ==
  /\ \A k \in DOMAIN queue : queue[k] # None => status[queue[k]] = "queued"
  /\ \A e \in Events :
       status[e] = "queued" => \E k \in DOMAIN queue : queue[k] = e
  /\ \A j, k \in DOMAIN queue :
       j < k /\ queue[j] # None /\ queue[k] # None =>
         /\ queue[j] # queue[k]
         /\ OrderingOf[queue[j]] = OrderingOf[queue[k]]
              => sequence[queue[j]] < sequence[queue[k]]
  /\ \A e \in Events : evIter[e] # None => status[e] = "queued"
  /\ \A e \in Events :
       status[e] = "queued" => sequence[e] < nextSeq[OrderingOf[e]]
  /\ \A e, f \in Events :
       /\ status[e] = "queued" /\ status[f] \in Waiting
       /\ OrderingOf[e] = OrderingOf[f]
       => sequence[e] < sequence[f]

ReorderInv == SequenceInv /\ BufferInv /\ ForwarderInv /\ QueueInv

-----------------------------------------------------------------------------
(* Sequences and cardinalities.                                            *)

\* An element between two sequences.
LEMMA ConcatThree ==
  ASSUME NEW S, NEW a \in Seq(S), NEW e \in S, NEW b \in Seq(S)
  PROVE  /\ (a \o <<e>>) \o b \in Seq(S)
         /\ Len((a \o <<e>>) \o b) = Len(a) + 1 + Len(b)
         /\ \A k \in 1 .. Len(a) + 1 + Len(b) :
              ((a \o <<e>>) \o b)[k] =
                IF k <= Len(a) THEN a[k]
                ELSE IF k = Len(a) + 1 THEN e ELSE b[k - Len(a) - 1]
<1>1. <<e>> \in Seq(S) /\ Len(<<e>>) = 1 /\ <<e>>[1] = e
  OBVIOUS
<1>2. SUFFICES ASSUME NEW c \in Seq(S), Len(c) = Len(a) + 1,
                      \A k \in 1 .. Len(a) + 1 :
                        c[k] = IF k <= Len(a) THEN a[k] ELSE e
               PROVE  /\ c \o b \in Seq(S)
                      /\ Len(c \o b) = Len(a) + 1 + Len(b)
                      /\ \A k \in 1 .. Len(a) + 1 + Len(b) :
                           (c \o b)[k] =
                             IF k <= Len(a) THEN a[k]
                             ELSE IF k = Len(a) + 1 THEN e
                                  ELSE b[k - Len(a) - 1]
  <2>1. /\ a \o <<e>> \in Seq(S)
        /\ Len(a \o <<e>>) = Len(a) + 1
        /\ \A k \in 1 .. Len(a) + 1 :
             (a \o <<e>>)[k] = IF k <= Len(a) THEN a[k] ELSE e
    BY <1>1, ConcatProperties
  <2>2. QED
    BY <2>1
<1>3. /\ c \o b \in Seq(S)
      /\ Len(c \o b) = Len(c) + Len(b)
      /\ \A k \in 1 .. Len(c) + Len(b) :
           (c \o b)[k] = IF k <= Len(c) THEN c[k] ELSE b[k - Len(c)]
  BY ConcatProperties
<1>4. Len(c \o b) = Len(a) + 1 + Len(b)
  BY <1>2, <1>3
<1>5. ASSUME NEW k \in 1 .. Len(a) + 1 + Len(b)
      PROVE  (c \o b)[k] = IF k <= Len(a) THEN a[k]
                           ELSE IF k = Len(a) + 1 THEN e ELSE b[k - Len(a) - 1]
  <2>1. (c \o b)[k] = IF k <= Len(a) + 1 THEN c[k] ELSE b[k - (Len(a) + 1)]
    BY <1>2, <1>3
  <2>2. k <= Len(a) + 1 => c[k] = IF k <= Len(a) THEN a[k] ELSE e
    BY <1>2
  <2>3. k - (Len(a) + 1) = k - Len(a) - 1 /\ Len(a) \in Nat
    OBVIOUS
  <2>4. QED
    BY <2>1, <2>2, <2>3
<1>6. QED
  BY <1>3, <1>4, <1>5

\* What slices.Insert returns.
LEMMA InsertAtLemma ==
  ASSUME NEW S, NEW s \in Seq(S), NEW e \in S, NEW p \in 1 .. Len(s) + 1
  PROVE  /\ InsertAt(s, p, e) \in Seq(S)
         /\ Len(InsertAt(s, p, e)) = Len(s) + 1
         /\ \A k \in 1 .. Len(s) + 1 :
              InsertAt(s, p, e)[k] = IF k < p THEN s[k]
                                     ELSE IF k = p THEN e ELSE s[k - 1]
<1>1. /\ SubSeq(s, 1, p - 1) \in Seq(S)
      /\ Len(SubSeq(s, 1, p - 1)) = p - 1
      /\ \A k \in 1 .. p - 1 : SubSeq(s, 1, p - 1)[k] = s[k]
  BY SubSeqProperties
<1>2. /\ SubSeq(s, p, Len(s)) \in Seq(S)
      /\ Len(SubSeq(s, p, Len(s))) = Len(s) - p + 1
      /\ \A k \in 1 .. Len(s) - p + 1 : SubSeq(s, p, Len(s))[k] = s[p + k - 1]
  BY SubSeqProperties
<1>3. SUFFICES ASSUME NEW a \in Seq(S), NEW b \in Seq(S),
                      Len(a) = p - 1, Len(b) = Len(s) - p + 1,
                      \A k \in 1 .. p - 1 : a[k] = s[k],
                      \A k \in 1 .. Len(s) - p + 1 : b[k] = s[p + k - 1]
               PROVE  /\ (a \o <<e>>) \o b \in Seq(S)
                      /\ Len((a \o <<e>>) \o b) = Len(s) + 1
                      /\ \A k \in 1 .. Len(s) + 1 :
                           ((a \o <<e>>) \o b)[k] =
                             IF k < p THEN s[k]
                             ELSE IF k = p THEN e ELSE s[k - 1]
  BY <1>1, <1>2 DEF InsertAt
<1>4. /\ (a \o <<e>>) \o b \in Seq(S)
      /\ Len((a \o <<e>>) \o b) = Len(a) + 1 + Len(b)
      /\ \A k \in 1 .. Len(a) + 1 + Len(b) :
              ((a \o <<e>>) \o b)[k] =
                IF k <= Len(a) THEN a[k]
                ELSE IF k = Len(a) + 1 THEN e ELSE b[k - Len(a) - 1]
  BY ConcatThree
<1>5. Len(a) + 1 + Len(b) = Len(s) + 1
  BY <1>3
<1>6. ASSUME NEW k \in 1 .. Len(s) + 1
      PROVE  ((a \o <<e>>) \o b)[k] = IF k < p THEN s[k]
                                     ELSE IF k = p THEN e ELSE s[k - 1]
  <2>1. CASE k < p
    BY <1>3, <1>4, <1>5, <2>1
  <2>2. CASE k = p
    BY <1>3, <1>4, <1>5, <2>2
  <2>3. CASE k > p
    <3>1. k - Len(a) - 1 \in 1 .. Len(s) - p + 1 /\ k > Len(a) + 1
      BY <1>3, <2>3
    <3>2. ((a \o <<e>>) \o b)[k] = b[k - Len(a) - 1]
      BY <1>4, <1>5, <3>1
    <3>3. b[k - Len(a) - 1] = s[p + (k - Len(a) - 1) - 1]
      BY <1>3, <3>1
    <3>4. p + (k - Len(a) - 1) - 1 = k - 1
      BY <1>3
    <3>5. ((a \o <<e>>) \o b)[k] = s[k - 1]
      BY <3>2, <3>3, <3>4, Zenon
    <3>6. ~(k < p) /\ k # p
      BY <2>3
    <3>7. QED
      BY <3>5, <3>6, Zenon
  <2>4. k < p \/ k = p \/ k > p
    OBVIOUS
  <2>5. QED
    BY <2>1, <2>2, <2>3, <2>4, Zenon
<1>7. QED
  BY <1>4, <1>5, <1>6

\* What is left of a sequence without its first n elements.
LEMMA SuffixType ==
  ASSUME NEW S, NEW s \in Seq(S), NEW n \in Nat
  PROVE  SubSeq(s, n + 1, Len(s)) \in Seq(S)
<1>1. \A k \in n + 1 .. Len(s) : s[k] \in S
  OBVIOUS
<1>2. n + 1 \in Int /\ Len(s) \in Int
  OBVIOUS
<1>3. QED
  BY <1>1, <1>2, SubSeqProperties

\* The number of queued events of an ordering is a number.
LEMMA TotalType ==
  ASSUME NEW st, NEW o
  PROVE  IsFiniteSet(QueuedOf(st, o)) /\ Total(st, o) \in Nat
<1>1. QueuedOf(st, o) \subseteq Events
  BY DEF QueuedOf, EventsOf
<1>2. QED
  BY <1>1, DataAssumption, FS_Subset, FS_CardinalityType DEF Total

\* Releasing orderings and disposing of some keeps the types.
LEMMA ReleaseType ==
  ASSUME TypeOK, NEW R \in SUBSET Orderings, NEW st, ReleaseOrderings(R, st)
  PROVE  OrderingTypes' /\ releasable' = {} /\ available' \in Int
<1>1. Cardinality({e \in Events : st[e] = "queued" /\ OrderingOf[e] \in R}) \in Nat
  BY DataAssumption, FS_Subset, FS_CardinalityType
<1>2. OrderingTypes'
  BY DEF ReleaseOrderings, DisposeOrderings, TypeOK, OrderingTypes
<1>3. releasable' = {} /\ available' \in Int
  BY <1>1 DEF ReleaseOrderings, TypeOK, QueueTypes
<1>4. QED
  BY <1>2, <1>3

\* What a position of the queue holds.
LEMMA QueueElement ==
  ASSUME TypeOK, NEW k \in DOMAIN queue, queue[k] # None
  PROVE  /\ k \in Nat \ {0} /\ k <= Len(queue)
         /\ queue[k] \in Events
         /\ OrderingOf[queue[k]] \in Orderings
         /\ UserOf[OrderingOf[queue[k]]] \in Users
<1>1. queue \in Seq(Events \cup {None})
  BY DEF TypeOK, QueueTypes
<1>2. k \in Nat \ {0} /\ k <= Len(queue) /\ queue[k] \in Events
  BY <1>1
<1>3. QED
  BY <1>2, DataAssumption

\* Updating the fields of the current iterator.
LEMMA IterationUpdate ==
  ASSUME NEW r \in Iteration, NEW ix \in Nat \ {0}, NEW n \in Int,
         NEW u \in Users \cup {None},
         NEW m \in {"none", "postponed", "discarded"}
  PROVE  /\ [r EXCEPT !.index = ix, !.numConsumed = n, !.user = u, !.mark = m]
              \in Iteration
         /\ [r EXCEPT !.mark = m, !.numConsumed = n, !.user = u, !.index = ix]
              \in Iteration
         /\ [r EXCEPT !.mark = m, !.numConsumed = n] \in Iteration
BY DEF Iteration

\* Disposing of orderings keeps the types.
LEMMA DisposeType ==
  ASSUME OrderingTypes, NEW D, DisposeOrderings(D)
  PROVE  /\ orderings' \subseteq Orderings
         /\ nextSeq' \in [Orderings -> Nat]
         /\ expected' \in [Orderings -> Nat]
         /\ buf' \in [Orderings -> Seq(Events)]
BY DEF DisposeOrderings, OrderingTypes

\* Reading an event keeps the types.
LEMMA ConsumeType ==
  ASSUME TypeOK, NEW i \in Iterators, NEW k \in DOMAIN queue, queue[k] # None,
         NEW fields \in Iteration, Consume(i, k, fields)
  PROVE  /\ evIter' \in [Events -> Iterators \cup {None}]
         /\ ordIter' \in [Orderings -> Iterators \cup {Marker, None}]
         /\ consumed' \in [Orderings -> Int]
         /\ available' \in Int
         /\ it' \in Iteration
<1> DEFINE o == OrderingOf[queue[k]]
<1>1. /\ k \in Nat /\ queue[k] \in Events
      /\ o \in Orderings /\ UserOf[o] \in Users
  BY QueueElement
<1>2. Total(status, o) \in Nat
  BY TotalType
<1>3. evIter' \in [Events -> Iterators \cup {None}]
  BY <1>1 DEF Consume, TypeOK, EventTypes
<1>4. ordIter' \in [Orderings -> Iterators \cup {Marker, None}]
  BY <1>1 DEF Consume, TypeOK, OrderingTypes
<1>5. consumed' \in [Orderings -> Int]
  BY <1>1 DEF Consume, TypeOK, OrderingTypes
<1>6. available' \in Int
  BY <1>2 DEF Consume, TypeOK, QueueTypes
<1>7. it' \in Iteration
  <2>1. it' = [fields EXCEPT !.index = k + 1, !.numConsumed = @ + 1,
                             !.user = IF fields.sameUser THEN UserOf[o]
                                                         ELSE None,
                             !.mark = "none"]
    BY DEF Consume
  <2>2. /\ fields.numConsumed + 1 \in Int /\ k + 1 \in Nat \ {0}
        /\ (IF fields.sameUser THEN UserOf[o] ELSE None) \in Users \cup {None}
    BY <1>1 DEF Iteration
  <2>3. QED
    BY <2>1, <2>2, IterationUpdate
<1>8. QED
  BY <1>3, <1>4, <1>5, <1>6, <1>7

\* One turn of seq keeps the types.
LEMMA ReadNextType ==
  ASSUME TypeOK, NEW i \in Iterators, NEW fields \in Iteration,
         ReadNext(i, fields)
  PROVE  /\ evIter' \in [Events -> Iterators \cup {None}]
         /\ ordIter' \in [Orderings -> Iterators \cup {Marker, None}]
         /\ consumed' \in [Orderings -> Int]
         /\ available' \in Int
         /\ it' \in Iteration
         /\ phase' \in [Iterators -> Phases]
<1>1. phase' \in [Iterators -> Phases]
  BY DEF ReadNext, TypeOK, IterTypes, Phases
<1>2. CASE \E k \in DOMAIN queue :
             FirstCandidate(i, k) /\ Consume(i, k, fields)
  <2>1. PICK k \in DOMAIN queue : FirstCandidate(i, k) /\ Consume(i, k, fields)
    BY <1>2
  <2>2. queue[k] # None
    BY <2>1 DEF FirstCandidate, Candidates
  <2>3. QED
    BY <1>1, <2>1, <2>2, ConsumeType
<1>3. CASE ReadNothing(fields)
  <2>1. Len(queue) + 1 \in Nat \ {0}
    BY DEF TypeOK, QueueTypes
  <2>2. it' \in Iteration
    BY <1>3, <2>1 DEF ReadNothing, Iteration
  <2>3. QED
    BY <1>1, <1>3, <2>2
    DEF ReadNothing, TypeOK, EventTypes, OrderingTypes, QueueTypes
<1>4. QED
  BY <1>2, <1>3 DEF ReadNext

\* What is left of a buffer once its last part is cut off, with the index
\* computed before the goroutine slept, is a part of the buffer.
LEMMA PoppedLemma ==
  ASSUME TypeOK, ReorderInv, NEW o \in Orderings, fwd[o] # None
  PROVE  /\ Popped(o) \in Seq(Events)
         /\ Len(Popped(o)) <= Len(buf[o])
         /\ last[o] # 0 => Len(Popped(o)) < Len(buf[o])
         /\ \A k \in DOMAIN Popped(o) : /\ k \in DOMAIN buf[o]
                                        /\ Popped(o)[k] = buf[o][k]
<1>1. buf[o] \in Seq(Events) /\ last[o] \in Nat
  BY DEF TypeOK, OrderingTypes, ForwarderTypes
<1>2. CASE last[o] = 0
  BY <1>1, <1>2 DEF Popped
<1>3. CASE last[o] # 0
  <2>1. last[o] <= Len(buf[o])
    BY <1>3 DEF ReorderInv, ForwarderInv
  <2>2. Popped(o) = SubSeq(buf[o], 1, last[o] - 1)
    BY <1>3 DEF Popped
  <2>3. /\ SubSeq(buf[o], 1, last[o] - 1) \in Seq(Events)
        /\ Len(SubSeq(buf[o], 1, last[o] - 1)) = last[o] - 1
        /\ \A k \in 1 .. last[o] - 1 :
             SubSeq(buf[o], 1, last[o] - 1)[k] = buf[o][k]
    BY <1>1, <1>3, <2>1, SubSeqProperties
  <2>4. QED
    BY <1>1, <1>3, <2>1, <2>2, <2>3
<1>4. QED
  BY <1>2, <1>3

-----------------------------------------------------------------------------
(* The types.                                                              *)

\* The types hold in the initial states and every step keeps them. The one
\* step that needs more than the types is Forward, which cuts the buffer at
\* an index computed before it slept.
LEMMA TypeStep ==
  ASSUME TypeOK, ReorderInv, [Next]_vars
  PROVE  TypeOK'
<1> USE NilAssumption, DataAssumption
<1> USE DEF vars, evVars, ordVars, fwdVars, iterVars
<1>a. EventTypes /\ OrderingTypes /\ ForwarderTypes /\ IterTypes /\ QueueTypes
  BY DEF TypeOK
<1>b. ASSUME UNCHANGED evVars PROVE EventTypes'
  BY <1>a, <1>b DEF EventTypes
<1>c. ASSUME UNCHANGED ordVars PROVE OrderingTypes'
  BY <1>a, <1>c DEF OrderingTypes
<1>d. ASSUME UNCHANGED fwdVars PROVE ForwarderTypes'
  BY <1>a, <1>d DEF ForwarderTypes
<1>e. ASSUME UNCHANGED iterVars PROVE IterTypes'
  BY <1>a, <1>e DEF IterTypes
<1>f. ASSUME UNCHANGED <<queue, releasable, available, schedule, closed, loop>>
      PROVE  QueueTypes'
  BY <1>a, <1>f DEF QueueTypes
<1>1. ASSUME NEW e \in Events, CreateEvent(e) PROVE TypeOK'
  <2>1. EventTypes'
    BY <1>a, <1>1 DEF CreateEvent, EventTypes, OrderingTypes, Statuses
  <2>2. OrderingTypes'
    BY <1>a, <1>1 DEF CreateEvent, OrderingTypes
  <2>3. ForwarderTypes'
    BY <1>d, <1>1 DEF CreateEvent
  <2>4. IterTypes'
    BY <1>e, <1>1 DEF CreateEvent
  <2>5. QueueTypes'
    BY <1>f, <1>1 DEF CreateEvent
  <2>6. QED
    BY <2>1, <2>2, <2>3, <2>4, <2>5 DEF TypeOK
<1>2. ASSUME NEW e \in Events, NEW drop \in BOOLEAN, ProcessEvent(e, drop)
      PROVE  TypeOK'
  <2> DEFINE o == OrderingOf[e]
  <2>1. o \in Orderings /\ buf[o] \in Seq(Events)
    BY <1>a DEF OrderingTypes
  <2>2. /\ discarded' \subseteq Events
        /\ UNCHANGED <<sequence, evIter, acked, orderings, nextSeq, expected,
                       ordIter, consumed>>
    BY <1>a, <1>2 DEF ProcessEvent, EventTypes
  <2>3. IterTypes' /\ QueueTypes'
    BY <1>e, <1>f, <1>2 DEF ProcessEvent
  <2>4. CASE BufferEvent(e)
    <3>1. PICK p \in 1 .. Len(buf[o]) + 1 :
                 buf' = [buf EXCEPT ![o] = InsertAt(@, p, e)]
      BY <2>4 DEF BufferEvent
    <3>2. InsertAt(buf[o], p, e) \in Seq(Events)
      BY <2>1, InsertAtLemma
    <3>3. OrderingTypes'
      BY <1>a, <2>2, <3>1, <3>2 DEF OrderingTypes
    <3>4. EventTypes'
      BY <1>a, <2>2, <2>4 DEF BufferEvent, EventTypes, Statuses
    <3>5. ForwarderTypes'
      BY <1>d, <2>4 DEF BufferEvent
    <3>6. QED
      BY <2>3, <3>3, <3>4, <3>5 DEF TypeOK
  <2>5. CASE StartForwarding(e)
    <3>1. EventTypes'
      BY <1>a, <2>2, <2>5 DEF StartForwarding, EventTypes, Statuses
    <3>2. OrderingTypes'
      BY <1>a, <2>2, <2>5 DEF StartForwarding, OrderingTypes
    <3>3. ForwarderTypes'
      BY <1>a, <2>1, <2>5 DEF StartForwarding, ForwarderTypes
    <3>4. QED
      BY <2>3, <3>1, <3>2, <3>3 DEF TypeOK
  <2>6. QED
    BY <1>2, <2>4, <2>5 DEF ProcessEvent
<1>3. ASSUME NEW o \in Orderings, ForwardWait(o) PROVE TypeOK'
  <2>1. EventTypes'
    BY <1>b, <1>3 DEF ForwardWait
  <2>2. OrderingTypes'
    BY <1>c, <1>3 DEF ForwardWait
  <2>3. ForwarderTypes'
    BY <1>a, <1>3 DEF ForwardWait, ForwarderTypes
  <2>4. IterTypes'
    BY <1>e, <1>3 DEF ForwardWait
  <2>5. QueueTypes'
    BY <1>f, <1>3 DEF ForwardWait
  <2>6. QED
    BY <2>1, <2>2, <2>3, <2>4, <2>5 DEF TypeOK
<1>4. ASSUME NEW o \in Orderings, ForwardAbort(o) PROVE TypeOK'
  <2>1. EventTypes'
    BY <1>a, <1>4 DEF ForwardAbort, EventTypes, Statuses
  <2>2. OrderingTypes'
    BY <1>c, <1>4 DEF ForwardAbort
  <2>3. ForwarderTypes'
    BY <1>a, <1>4 DEF ForwardAbort, ForwarderTypes
  <2>4. IterTypes'
    BY <1>e, <1>4 DEF ForwardAbort
  <2>5. QueueTypes'
    BY <1>f, <1>4 DEF ForwardAbort
  <2>6. QED
    BY <2>1, <2>2, <2>3, <2>4, <2>5 DEF TypeOK
<1>5. ASSUME NEW o \in Orderings, Forward(o) PROVE TypeOK'
  <2> DEFINE e  == fwd[o]
             nb == Popped(o)
  <2>1. e \in Events /\ lock = o
    BY <1>a, <1>5 DEF Forward, ReorderInv, ForwarderInv, ForwarderTypes
  <2>2. e # None
    BY <2>1
  <2>3. nb \in Seq(Events)
    BY <2>2, PoppedLemma
  <2>4. nb # <<>> => Last(nb) \in Events /\ Len(nb) \in Nat
    BY <2>3 DEF Last
  <2>5. sequence[e] + 1 \in Nat
    BY <1>a, <2>1 DEF EventTypes
  <2>6. /\ status' \in [Events -> Statuses]
        /\ queue' \in Seq(Events \cup {None})
        /\ available' \in Int /\ schedule' \in BOOLEAN
    <3>1. CASE Skip(e)
      BY <1>a, <2>1, <3>1 DEF Skip, EventTypes, QueueTypes, Statuses
    <3>2. CASE Enqueue(e, o)
      <4>1. status' \in [Events -> Statuses]
        BY <1>a, <2>1, <3>2 DEF Enqueue, EventTypes, Statuses
      <4>2. queue' \in Seq(Events \cup {None})
        BY <1>a, <2>1, <3>2 DEF Enqueue, QueueTypes
      <4>3. available' \in Int
        BY <1>a, <3>2 DEF Enqueue, AvailableWith, QueueTypes
      <4>4. schedule' \in BOOLEAN
        BY <1>a, <3>2 DEF Enqueue, ScheduleIteration, QueueTypes
      <4>5. QED
        BY <4>1, <4>2, <4>3, <4>4
    <3>3. QED
      BY <1>5, <3>1, <3>2 DEF Forward
  <2>7. UNCHANGED <<sequence, discarded, evIter, acked, ordIter, consumed,
                    waiters, releasable, cur, it, phase, closed, loop>>
    BY <1>5 DEF Forward
  <2>8. /\ fwd' \in [Orderings -> Events \cup {None}]
        /\ last' \in [Orderings -> Nat]
        /\ lock' \in Orderings \cup {None}
    <3>1. \/ /\ nb # <<>>
             /\ fwd' = [fwd EXCEPT ![o] = Last(nb)]
             /\ last' = [last EXCEPT ![o] = Len(nb)]
             /\ lock' = lock
          \/ /\ fwd' = [fwd EXCEPT ![o] = None]
             /\ last' = [last EXCEPT ![o] = 0]
             /\ lock' = None
      BY <1>5 DEF Forward
    <3>2. /\ fwd \in [Orderings -> Events \cup {None}]
          /\ last \in [Orderings -> Nat]
          /\ lock \in Orderings \cup {None}
      BY <1>a DEF ForwarderTypes
    <3>3. CASE /\ nb # <<>>
               /\ fwd' = [fwd EXCEPT ![o] = Last(nb)]
               /\ last' = [last EXCEPT ![o] = Len(nb)]
               /\ lock' = lock
      BY <2>4, <3>2, <3>3
    <3>4. CASE /\ fwd' = [fwd EXCEPT ![o] = None]
               /\ last' = [last EXCEPT ![o] = 0]
               /\ lock' = None
      BY <3>2, <3>4
    <3>5. QED
      BY <3>1, <3>3, <3>4
  <2>9. /\ orderings' \subseteq Orderings
        /\ nextSeq' \in [Orderings -> Nat]
        /\ expected' \in [Orderings -> Nat]
        /\ buf' \in [Orderings -> Seq(Events)]
    <3>1. CASE nb # <<>> /\ sequence[Last(nb)] = sequence[e] + 1
      <4>1. /\ buf' = [buf EXCEPT ![o] = nb]
            /\ UNCHANGED <<orderings, nextSeq, expected>>
        BY <1>5, <3>1 DEF Forward
      <4>2. QED
        BY <1>a, <2>3, <4>1 DEF OrderingTypes
    <3>2. CASE ~(nb # <<>> /\ sequence[Last(nb)] = sequence[e] + 1)
      <4>1. \/ DisposeOrderings({o})
            \/ /\ expected' = [expected EXCEPT ![o] = sequence[e] + 1]
               /\ buf' = [buf EXCEPT ![o] = nb]
               /\ UNCHANGED <<orderings, nextSeq>>
        BY <1>5, <3>2 DEF Forward
      <4>2. CASE DisposeOrderings({o})
        BY <1>a, <4>2, DisposeType
      <4>3. CASE /\ expected' = [expected EXCEPT ![o] = sequence[e] + 1]
                 /\ buf' = [buf EXCEPT ![o] = nb]
                 /\ UNCHANGED <<orderings, nextSeq>>
        BY <1>a, <2>3, <2>5, <4>3 DEF OrderingTypes
      <4>4. QED
        BY <4>1, <4>2, <4>3
    <3>3. QED
      BY <3>1, <3>2
  <2>10. EventTypes' /\ OrderingTypes' /\ ForwarderTypes' /\ QueueTypes'
    BY <1>a, <2>6, <2>7, <2>8, <2>9
    DEF EventTypes, OrderingTypes, ForwarderTypes, QueueTypes
  <2>11. IterTypes'
    BY <1>e, <2>7
  <2>12. QED
    BY <2>10, <2>11 DEF TypeOK
<1>6. ASSUME NEW o \in Orderings, Wake(o) PROVE TypeOK'
  <2>1. EventTypes'
    BY <1>b, <1>6 DEF Wake
  <2>2. OrderingTypes'
    BY <1>c, <1>6 DEF Wake
  <2>3. ForwarderTypes'
    BY <1>a, <1>6 DEF Wake, ForwarderTypes
  <2>4. IterTypes'
    BY <1>e, <1>6 DEF Wake
  <2>5. QueueTypes'
    BY <1>f, <1>6 DEF Wake
  <2>6. QED
    BY <2>1, <2>2, <2>3, <2>4, <2>5 DEF TypeOK
<1>7. ASSUME NEW i \in Iterators, NEW pause \in BOOLEAN, LoopTick(i, pause) PROVE TypeOK'
  <2>1. releasable \in SUBSET Orderings /\ ReleaseOrderings(releasable, status)
    BY <1>a, <1>7 DEF LoopTick, QueueTypes
  <2>2. OrderingTypes' /\ releasable' = {} /\ available' \in Int
    BY <2>1, ReleaseType
  <2>3. EventTypes' /\ ForwarderTypes'
    BY <1>b, <1>d, <1>7 DEF LoopTick
  <2>4. IterTypes'
    BY <1>a, <1>7 DEF LoopTick, IterTypes, NoIteration, Iteration, Phases
  <2>5. QueueTypes'
    <3>1. schedule' \in BOOLEAN
      BY <1>a, <1>7 DEF LoopTick, QueueTypes, ScheduleIteration
    <3>2. /\ loop' \in {"pause", "select"}
          /\ UNCHANGED <<queue, closed>>
      BY <1>7 DEF LoopTick
    <3>3. QED
      BY <1>a, <2>2, <3>1, <3>2 DEF QueueTypes
  <2>6. QED
    BY <2>2, <2>3, <2>4, <2>5 DEF TypeOK
<1>8. ASSUME NEW i \in Iterators, NEW same \in BOOLEAN, StartIteration(i, same) PROVE TypeOK'
  <2> DEFINE fields == [it EXCEPT !.sameUser = same, !.first = TRUE]
  <2>1. fields \in Iteration
    BY <1>a DEF IterTypes, Iteration
  <2>2. ReadNext(i, fields)
    BY <1>8 DEF StartIteration
  <2> HIDE DEF fields
  <2>3. /\ evIter' \in [Events -> Iterators \cup {None}]
        /\ ordIter' \in [Orderings -> Iterators \cup {Marker, None}]
        /\ consumed' \in [Orderings -> Int]
        /\ available' \in Int
        /\ it' \in Iteration
        /\ phase' \in [Iterators -> Phases]
    BY <2>1, <2>2, ReadNextType
  <2>4. UNCHANGED <<status, sequence, discarded, acked, orderings, nextSeq,
                    expected, buf, fwdVars, queue, releasable, cur, schedule,
                    closed, loop>>
    BY <1>8 DEF StartIteration
  <2>5. EventTypes' /\ OrderingTypes' /\ IterTypes' /\ QueueTypes'
    BY <1>a, <2>3, <2>4 DEF EventTypes, OrderingTypes, IterTypes, QueueTypes
  <2>6. ForwarderTypes'
    BY <1>d, <2>4
  <2>7. QED
    BY <2>5, <2>6 DEF TypeOK
<1>9. ASSUME NEW i \in Iterators, NextEvent(i) PROVE TypeOK'
  <2> DEFINE fields == [it EXCEPT !.first = FALSE]
  <2>1. fields \in Iteration
    BY <1>a DEF IterTypes, Iteration
  <2>2. ReadNext(i, fields)
    BY <1>9 DEF NextEvent
  <2> HIDE DEF fields
  <2>3. /\ evIter' \in [Events -> Iterators \cup {None}]
        /\ ordIter' \in [Orderings -> Iterators \cup {Marker, None}]
        /\ consumed' \in [Orderings -> Int]
        /\ available' \in Int
        /\ it' \in Iteration
        /\ phase' \in [Iterators -> Phases]
    BY <2>1, <2>2, ReadNextType
  <2>4. UNCHANGED <<status, sequence, discarded, acked, orderings, nextSeq,
                    expected, buf, fwdVars, queue, releasable, cur, schedule,
                    closed, loop>>
    BY <1>9 DEF NextEvent
  <2>5. EventTypes' /\ OrderingTypes' /\ IterTypes' /\ QueueTypes'
    BY <1>a, <2>3, <2>4 DEF EventTypes, OrderingTypes, IterTypes, QueueTypes
  <2>6. ForwarderTypes'
    BY <1>d, <2>4
  <2>7. QED
    BY <2>5, <2>6 DEF TypeOK
<1>10. ASSUME NEW i \in Iterators, BreakIteration(i) PROVE TypeOK'
  <2>1. EventTypes'
    BY <1>b, <1>10 DEF BreakIteration
  <2>2. OrderingTypes'
    BY <1>c, <1>10 DEF BreakIteration
  <2>3. ForwarderTypes'
    BY <1>d, <1>10 DEF BreakIteration
  <2>4. IterTypes'
    BY <1>a, <1>10 DEF BreakIteration, IterTypes, Phases
  <2>5. QueueTypes'
    BY <1>f, <1>10 DEF BreakIteration
  <2>6. QED
    BY <2>1, <2>2, <2>3, <2>4, <2>5 DEF TypeOK
<1>11. ASSUME NEW i \in Iterators, First(i) PROVE TypeOK'
  <2>1. PICK k \in DOMAIN queue : FirstCandidate(i, k) /\ Consume(i, k, it)
    BY <1>11 DEF First
  <2>2. queue[k] # None /\ it \in Iteration
    BY <1>a, <2>1 DEF FirstCandidate, Candidates, IterTypes
  <2>3. /\ evIter' \in [Events -> Iterators \cup {None}]
        /\ ordIter' \in [Orderings -> Iterators \cup {Marker, None}]
        /\ consumed' \in [Orderings -> Int]
        /\ available' \in Int
        /\ it' \in Iteration
    BY <2>1, <2>2, ConsumeType
  <2>4. UNCHANGED <<status, sequence, discarded, acked, orderings, nextSeq,
                    expected, buf, fwdVars, queue, releasable, cur, schedule,
                    closed, loop>>
    BY <1>11 DEF First
  <2>5. EventTypes' /\ OrderingTypes' /\ QueueTypes'
    BY <1>a, <2>3, <2>4 DEF EventTypes, OrderingTypes, QueueTypes
  <2>6. IterTypes'
    BY <1>a, <1>11, <2>3, <2>4 DEF First, IterTypes, Phases
  <2>7. ForwarderTypes'
    BY <1>d, <2>4
  <2>8. QED
    BY <2>5, <2>6, <2>7 DEF TypeOK
<1>12. ASSUME NEW i \in Iterators, Peek(i) PROVE TypeOK'
  <2>1. it' \in Iteration
    <3>1. CASE it' = [it EXCEPT !.index = Len(queue) + 1]
      <4>1. Len(queue) + 1 \in Nat \ {0}
        BY <1>a DEF QueueTypes
      <4>2. QED
        BY <1>a, <3>1, <4>1 DEF IterTypes, Iteration
    <3>2. ASSUME NEW k \in DOMAIN queue, FirstCandidate(i, k),
                 it' = [it EXCEPT !.index = k,
                                  !.user = IF it.sameUser
                                           THEN UserOf[OrderingOf[queue[k]]]
                                           ELSE None]
          PROVE  it' \in Iteration
      <4>1. queue[k] # None
        BY <3>2 DEF FirstCandidate, Candidates
      <4>2. k \in Nat \ {0} /\ UserOf[OrderingOf[queue[k]]] \in Users
        BY <4>1, QueueElement
      <4>3. QED
        BY <1>a, <3>2, <4>2 DEF IterTypes, Iteration
    <3>3. QED
      BY <1>12, <3>1, <3>2 DEF Peek
  <2>2. UNCHANGED <<evVars, ordVars, fwdVars, queue, releasable, cur, phase,
                    available, schedule, closed, loop>>
    BY <1>12 DEF Peek
  <2>3. IterTypes'
    BY <1>a, <2>1, <2>2 DEF IterTypes
  <2>4. QED
    BY <1>b, <1>c, <1>d, <1>f, <2>2, <2>3 DEF TypeOK
<1>13. ASSUME NEW i \in Iterators, Discard(i) PROVE TypeOK'
  <2>1. PICK k \in DOMAIN queue : LastRead(i, k) /\ DiscardAt(i, k)
    BY <1>13 DEF Discard
  <2> DEFINE e == queue[k]
             o == OrderingOf[e]
             st == [status EXCEPT ![e] = "rejected"]
  <2>2. e # None
    BY <2>1 DEF LastRead
  <2>3. k \in Nat /\ k <= Len(queue) /\ e \in Events /\ o \in Orderings
    BY <2>2, QueueElement
  <2>4. Total(st, o) \in Nat
    BY TotalType
  <2>5. EventTypes'
    BY <1>a, <2>1, <2>3 DEF DiscardAt, EventTypes, Statuses
  <2>6. OrderingTypes'
    <3>1. /\ consumed' = [consumed EXCEPT ![o] = @ - 1]
          /\ ordIter' \in {ordIter, [ordIter EXCEPT ![o] = None]}
          /\ \/ DisposeOrderings({o})
             \/ UNCHANGED <<orderings, nextSeq, buf, expected>>
      BY <1>a, <2>1 DEF DiscardAt, OrderingTypes
    <3>2. /\ orderings' \subseteq Orderings
          /\ nextSeq' \in [Orderings -> Nat]
          /\ expected' \in [Orderings -> Nat]
          /\ buf' \in [Orderings -> Seq(Events)]
      <4>1. CASE DisposeOrderings({o})
        BY <1>a, <4>1, DisposeType
      <4>2. CASE UNCHANGED <<orderings, nextSeq, buf, expected>>
        BY <1>a, <4>2 DEF OrderingTypes
      <4>3. QED
        BY <3>1, <4>1, <4>2
    <3>3. consumed' \in [Orderings -> Int]
      BY <1>a, <2>3, <3>1 DEF OrderingTypes
    <3>4. ordIter' \in [Orderings -> Iterators \cup {Marker, None}]
      BY <1>a, <2>3, <3>1 DEF OrderingTypes
    <3>5. QED
      BY <3>2, <3>3, <3>4 DEF OrderingTypes
  <2>7. ForwarderTypes'
    BY <1>a, <2>1 DEF DiscardAt, Signal, ForwarderTypes
  <2>8. IterTypes'
    <3>1. it' = [it EXCEPT !.mark = "discarded", !.numConsumed = @ - 1,
                      !.user = IF it.numConsumed = 1 THEN None ELSE @,
                      !.index = IF it.numConsumed = 1 THEN k + 1 ELSE @]
      BY <2>1 DEF DiscardAt
    <3>2. /\ it.numConsumed - 1 \in Int
          /\ (IF it.numConsumed = 1 THEN None ELSE it.user) \in Users \cup {None}
          /\ (IF it.numConsumed = 1 THEN k + 1 ELSE it.index) \in Nat \ {0}
      BY <1>a, <2>3 DEF IterTypes, Iteration
    <3>3. it \in Iteration
      BY <1>a DEF IterTypes
    <3>4. it' \in Iteration
      BY <3>1, <3>2, <3>3, IterationUpdate
    <3>5. QED
      BY <1>a, <2>1, <3>4 DEF DiscardAt, IterTypes
  <2>9. QueueTypes'
    <3>1. queue' = [queue EXCEPT ![k] = None]
      BY <2>1 DEF DiscardAt
    <3>2. queue' \in Seq(Events \cup {None})
      BY <1>a, <3>1 DEF QueueTypes
    <3>3. available' \in Int
      BY <1>a, <2>1, <2>4 DEF DiscardAt, QueueTypes
    <3>4. QED
      BY <1>a, <2>1, <3>2, <3>3 DEF DiscardAt, QueueTypes
  <2>10. QED
    BY <2>5, <2>6, <2>7, <2>8, <2>9 DEF TypeOK
<1>14. ASSUME NEW i \in Iterators, Postpone(i) PROVE TypeOK'
  <2>1. PICK k \in DOMAIN queue : LastRead(i, k) /\ PostponeAt(i, k)
    BY <1>14 DEF Postpone
  <2>2. queue[k] # None
    BY <2>1 DEF LastRead
  <2>3. queue[k] \in Events /\ OrderingOf[queue[k]] \in Orderings
    BY <2>2, QueueElement
  <2>4. EventTypes'
    BY <1>a, <2>1, <2>3 DEF PostponeAt, EventTypes
  <2>5. OrderingTypes'
    BY <1>a, <2>1, <2>3 DEF PostponeAt, PostponeHolder, OrderingTypes
  <2>6. ForwarderTypes'
    BY <1>d, <2>1 DEF PostponeAt
  <2>7. IterTypes'
    <3>1. it' = [it EXCEPT !.mark = "postponed", !.numConsumed = @ - 1]
      BY <2>1 DEF PostponeAt
    <3>2. it.numConsumed - 1 \in Int /\ it \in Iteration
      BY <1>a DEF IterTypes, Iteration
    <3>3. it.index \in Nat \ {0} /\ it.user \in Users \cup {None}
      BY <3>2 DEF Iteration
    <3>4. it' \in Iteration
      BY <3>1, <3>2, <3>3, IterationUpdate
    <3>5. QED
      BY <1>a, <2>1, <3>4 DEF PostponeAt, IterTypes
  <2>8. QueueTypes'
    BY <1>a, <2>1, <2>3 DEF PostponeAt, PostponeReleasable, QueueTypes
  <2>9. QED
    BY <2>4, <2>5, <2>6, <2>7, <2>8 DEF TypeOK
<1>15. ASSUME NEW i \in Iterators, EndIteration(i) PROVE TypeOK'
  <2>1. releasable \in SUBSET Orderings /\ ReleaseOrderings(releasable, status)
    BY <1>a, <1>15 DEF EndIteration, Iterated, QueueTypes
  <2>2. OrderingTypes' /\ releasable' = {} /\ available' \in Int
    BY <2>1, ReleaseType
  <2>3. EventTypes' /\ ForwarderTypes'
    BY <1>b, <1>d, <1>15 DEF EndIteration
  <2>4. IterTypes'
    BY <1>a, <1>15 DEF EndIteration, Iterated, IterTypes, NoIteration, Iteration, Phases
  <2>5. QueueTypes'
    BY <1>a, <1>15, <2>2 DEF EndIteration, Iterated, ScheduleIteration, QueueTypes
  <2>6. QED
    BY <2>2, <2>3, <2>4, <2>5 DEF TypeOK
<1>16. ASSUME NEW i \in Iterators, ReturnUnread(i) PROVE TypeOK'
  <2>1. releasable \in SUBSET Orderings /\ ReleaseOrderings(releasable, status)
    BY <1>a, <1>16 DEF ReturnUnread, Iterated, QueueTypes
  <2>2. OrderingTypes' /\ releasable' = {} /\ available' \in Int
    BY <2>1, ReleaseType
  <2>3. EventTypes' /\ ForwarderTypes'
    BY <1>b, <1>d, <1>16 DEF ReturnUnread
  <2>4. IterTypes'
    BY <1>a, <1>16 DEF ReturnUnread, Iterated, IterTypes, NoIteration, Iteration, Phases
  <2>5. QueueTypes'
    BY <1>a, <1>16, <2>2 DEF ReturnUnread, Iterated, ScheduleIteration, QueueTypes
  <2>6. QED
    BY <2>2, <2>3, <2>4, <2>5 DEF TypeOK
<1>17. ASSUME NEW i \in Iterators, SendReturn(i) PROVE TypeOK'
  <2> DEFINE mine == {e \in Events : evIter[e] = i}
             st == [e \in Events |-> IF e \in mine THEN "sent" ELSE status[e]]
             rel == releasable \cup {OrderingOf[e] : e \in mine}
  <2>1. rel \in SUBSET Orderings /\ Cardinality(mine) \in Nat
    <3>1. IsFiniteSet(mine)
      BY FS_Subset
    <3>2. QED
      BY <1>a, <3>1, FS_CardinalityType DEF QueueTypes
  <2>2. EventTypes'
    BY <1>a, <1>17 DEF SendReturn, EventTypes, Statuses
  <2>3. ForwarderTypes'
    <3>1. waiters' = SubSeq(waiters, Cardinality(mine) + 1, Len(waiters))
      BY <1>17 DEF SendReturn, Signal
    <3>2. waiters' \in Seq(Orderings)
      BY <1>a, <2>1, <3>1, SuffixType DEF ForwarderTypes
    <3>3. QED
      BY <1>a, <1>17, <3>2 DEF SendReturn, ForwarderTypes
  <2>4. IterTypes'
    BY <1>a, <1>17 DEF SendReturn, IterTypes, Phases
  <2>5. queue' \in Seq(Events \cup {None})
    <3>1. queue' = [k \in DOMAIN queue |->
                      IF queue[k] \in mine THEN None ELSE queue[k]]
      BY <1>17 DEF SendReturn
    <3>2. QED
      BY <1>a, <3>1 DEF QueueTypes
  <2>6. CASE /\ ReleaseOrderings(rel, st)
             /\ ScheduleIteration(available', None)
    <3>1. OrderingTypes' /\ releasable' = {} /\ available' \in Int
      BY <2>1, <2>6, ReleaseType
    <3>2. QueueTypes'
      BY <1>a, <1>17, <2>5, <2>6, <3>1
      DEF SendReturn, ScheduleIteration, QueueTypes
    <3>3. QED
      BY <2>2, <2>3, <2>4, <3>1, <3>2 DEF TypeOK
  <2>7. CASE releasable' = rel /\ UNCHANGED <<ordVars, available, schedule>>
    <3>1. QueueTypes'
      BY <1>a, <1>17, <2>1, <2>5, <2>7 DEF SendReturn, QueueTypes
    <3>2. QED
      BY <1>c, <2>2, <2>3, <2>4, <2>7, <3>1 DEF TypeOK
  <2>8. QED
    BY <1>17, <2>6, <2>7 DEF SendReturn
<1>18. ASSUME NEW i \in Iterators, Compact(i) PROVE TypeOK'
  <2>1. queue' \in Seq(Events \cup {None}) /\ it' \in Iteration
    <3>1. CASE UNCHANGED <<queue, it>>
      BY <1>a, <3>1 DEF QueueTypes, IterTypes
    <3>2. ASSUME NEW m \in 0 .. Len(queue),
                 queue' = SubSeq(queue, m + 1, Len(queue)),
                 it' = IF cur = None THEN it
                       ELSE [it EXCEPT !.index = Shifted(@, m)]
          PROVE  queue' \in Seq(Events \cup {None}) /\ it' \in Iteration
      <4>1. queue' \in Seq(Events \cup {None})
        BY <1>a, <3>2 DEF QueueTypes
      <4>2. Shifted(it.index, m) \in Nat \ {0}
        BY <1>a DEF QueueTypes, IterTypes, Iteration, Shifted
      <4>3. it' \in Iteration
        BY <1>a, <3>2, <4>2 DEF IterTypes, Iteration
      <4>4. QED
        BY <4>1, <4>3
    <3>3. QED
      BY <1>18, <3>1, <3>2 DEF Compact
  <2>2. /\ phase' = [phase EXCEPT ![i] = "free"]
        /\ UNCHANGED <<evVars, ordVars, fwdVars, releasable, cur, available,
                       schedule, closed, loop>>
    BY <1>18 DEF Compact
  <2>3. IterTypes' /\ QueueTypes'
    BY <1>a, <2>1, <2>2 DEF IterTypes, QueueTypes, Phases
  <2>4. QED
    BY <1>b, <1>c, <1>d, <2>2, <2>3 DEF TypeOK
<1>19. CASE PauseEnd
  <2>1. EventTypes'
    BY <1>b, <1>19 DEF PauseEnd
  <2>2. OrderingTypes'
    BY <1>c, <1>19 DEF PauseEnd
  <2>3. ForwarderTypes'
    BY <1>d, <1>19 DEF PauseEnd
  <2>4. IterTypes'
    BY <1>a, <1>19 DEF PauseEnd, IterTypes, Phases
  <2>5. QueueTypes'
    BY <1>a, <1>19 DEF PauseEnd, QueueTypes
  <2>6. QED
    BY <2>1, <2>2, <2>3, <2>4, <2>5 DEF TypeOK
<1>20. CASE Close
  <2>1. EventTypes'
    BY <1>b, <1>20 DEF Close
  <2>2. OrderingTypes'
    BY <1>c, <1>20 DEF Close
  <2>3. ForwarderTypes'
    BY <1>a, <1>20 DEF Close, ForwarderTypes
  <2>4. IterTypes'
    BY <1>e, <1>20 DEF Close
  <2>5. QueueTypes'
    BY <1>a, <1>20 DEF Close, QueueTypes
  <2>6. QED
    BY <2>1, <2>2, <2>3, <2>4, <2>5 DEF TypeOK
<1>21. CASE LoopStop
  <2>1. EventTypes'
    BY <1>b, <1>21 DEF LoopStop
  <2>2. OrderingTypes'
    BY <1>c, <1>21 DEF LoopStop
  <2>3. ForwarderTypes'
    BY <1>d, <1>21 DEF LoopStop
  <2>4. IterTypes'
    BY <1>e, <1>21 DEF LoopStop
  <2>5. QueueTypes'
    BY <1>a, <1>21 DEF LoopStop, QueueTypes
  <2>6. QED
    BY <2>1, <2>2, <2>3, <2>4, <2>5 DEF TypeOK
<1>22. CASE LoopDone
  <2>1. EventTypes'
    BY <1>b, <1>22 DEF LoopDone
  <2>2. OrderingTypes'
    BY <1>c, <1>22 DEF LoopDone
  <2>3. ForwarderTypes'
    BY <1>d, <1>22 DEF LoopDone
  <2>4. IterTypes'
    BY <1>e, <1>22 DEF LoopDone
  <2>5. QueueTypes'
    BY <1>a, <1>22 DEF LoopDone, QueueTypes
  <2>6. QED
    BY <2>1, <2>2, <2>3, <2>4, <2>5 DEF TypeOK
<1>23. CASE UNCHANGED vars
  BY <1>b, <1>c, <1>d, <1>e, <1>f, <1>23 DEF TypeOK
<1>24. CASE TimerFires \/ LoopIdle
  <2>1. UNCHANGED <<evVars, ordVars, fwdVars, iterVars>>
    BY <1>24 DEF TimerFires, LoopIdle
  <2>2. /\ schedule' \in BOOLEAN /\ loop' \in {"fired", "select"}
        /\ UNCHANGED <<queue, releasable, available, closed>>
    BY <1>a, <1>24 DEF TimerFires, LoopIdle, ScheduleIteration, QueueTypes
  <2>3. QueueTypes'
    BY <1>a, <2>2 DEF QueueTypes
  <2>4. QED
    BY <1>b, <1>c, <1>d, <1>e, <2>1, <2>3 DEF TypeOK
<1>25. QED
  BY <1>1, <1>2, <1>3, <1>4, <1>5, <1>6, <1>7, <1>8, <1>9, <1>10, <1>11,
     <1>12, <1>13, <1>14, <1>15, <1>16, <1>17, <1>18, <1>19, <1>20, <1>21,
     <1>22, <1>23, <1>24 DEF Next

-----------------------------------------------------------------------------
(* The order.                                                              *)

\* Steps that leave the events, the buffers and the queue alone, except for
\* taking queued events.
LEMMA ReorderFrame ==
  ASSUME TypeOK, ReorderInv,
         UNCHANGED <<status, sequence, nextSeq, expected, buf, fwd, last,
                     queue>>,
         \A e \in Events : evIter'[e] # None => status[e] = "queued",
         lock' # None => fwd[lock'] # None
  PROVE  ReorderInv'
<1>1. SequenceInv'
  BY DEF ReorderInv, SequenceInv
<1>2. BufferInv'
  BY DEF ReorderInv, BufferInv
<1>3. ForwarderInv'
  BY DEF ReorderInv, ForwarderInv, EventsOf
<1>4. QueueInv'
  BY DEF ReorderInv, QueueInv
<1>5. QED
  BY <1>1, <1>2, <1>3, <1>4 DEF ReorderInv

\* An ordering with nothing queued.
LEMMA NothingQueued ==
  ASSUME NEW st, NEW o, Total(st, o) = 0, NEW e \in Events, OrderingOf[e] = o
  PROVE  st[e] # "queued"
<1>1. QueuedOf(st, o) = {}
  BY TotalType, FS_EmptySet DEF Total
<1>2. QED
  BY <1>1 DEF QueuedOf, EventsOf

\* Disposing of orderings that have no outstanding event, while some queued
\* events may leave the queue.
LEMMA ReorderDispose ==
  ASSUME TypeOK, ReorderInv, NEW D \in SUBSET Orderings,
         DisposeOrderings(D),
         UNCHANGED <<sequence, fwd, last, lock>>,
         QueueTypes',
         \A o \in D : expected[o] = nextSeq[o],
         \A e \in Events : OrderingOf[e] \in D => status'[e] # "queued",
         \A e \in Events : \/ status'[e] = status[e]
                           \/ status[e] = "queued" /\ status'[e] \in Final,
         DOMAIN queue' = DOMAIN queue,
         \A k \in DOMAIN queue :
           \/ queue'[k] = queue[k] /\ (queue[k] # None => status'[queue[k]] = status[queue[k]])
           \/ queue'[k] = None /\ (queue[k] # None => status'[queue[k]] # "queued"),
         \A e \in Events : evIter'[e] # None => status'[e] = "queued"
  PROVE  ReorderInv'
<1> USE DataAssumption, NilAssumption
<1>1. \A e \in Events : status'[e] \in Waiting => status[e] = status'[e]
  BY DEF Waiting, Final
<1>2. \A e \in Events : status[e] \in Waiting =>
        status'[e] = status[e] /\ OrderingOf[e] \notin D
  BY DEF ReorderInv, SequenceInv, TypeOK, EventTypes, OrderingTypes, Waiting
<1>3. \A e \in Events : status'[e] = "queued" => status[e] = "queued"
  BY DEF Final
<1>4. \A o \in Orderings \ D : /\ nextSeq'[o] = nextSeq[o]
                               /\ expected'[o] = expected[o]
                               /\ buf'[o] = buf[o]
  BY DEF DisposeOrderings
<1>5. \A o \in D : buf'[o] = <<>>
  BY DEF DisposeOrderings
<1>6. \A o \in Orderings : fwd[o] # None => fwd[o] \in Events /\ o \notin D
  BY <1>2 DEF ReorderInv, ForwarderInv, TypeOK, ForwarderTypes
<1>7. SequenceInv'
  <2>1. \A o \in Orderings : expected'[o] <= nextSeq'[o]
    BY <1>4 DEF ReorderInv, SequenceInv, DisposeOrderings
  <2>2. QED
    BY <1>1, <1>2, <1>4, <2>1 DEF ReorderInv, SequenceInv
<1>8. BufferInv'
  <2>1. ASSUME NEW o \in Orderings \ D, NEW k \in DOMAIN buf[o]
        PROVE  status'[buf[o][k]] = "buffered"
    <3>1. buf[o][k] \in Events /\ status[buf[o][k]] = "buffered"
      BY DEF ReorderInv, BufferInv, TypeOK, OrderingTypes
    <3>2. QED
      BY <1>2, <3>1 DEF Waiting
  <2>2. ASSUME NEW o \in Orderings
        PROVE  /\ \A k \in DOMAIN buf'[o] :
                    status'[buf'[o][k]] = "buffered" /\ OrderingOf[buf'[o][k]] = o
               /\ \A j, k \in DOMAIN buf'[o] :
                    j < k => sequence[buf'[o][j]] > sequence[buf'[o][k]]
    <3>1. CASE o \in D
      BY <1>5, <3>1
    <3>2. CASE o \notin D
      BY <1>4, <2>1, <3>2 DEF ReorderInv, BufferInv
    <3>3. QED
      BY <3>1, <3>2
  <2>3. QED
    BY <2>2 DEF BufferInv
<1>9. ForwarderInv'
  <2>1. lock' # None => fwd'[lock'] # None
    BY DEF ReorderInv, ForwarderInv
  <2>2. ASSUME NEW o \in Orderings, fwd[o] # None
        PROVE  /\ OrderingOf[fwd[o]] = o
               /\ status'[fwd[o]] \in Waiting
               /\ \A e \in EventsOf(o) :
                    status'[e] \in Waiting /\ e # fwd[o]
                      => sequence[e] > sequence[fwd[o]]
               /\ last[o] = 0 => status'[fwd[o]] = "forwarding"
               /\ last[o] # 0 => /\ last[o] <= Len(buf'[o])
                                 /\ buf'[o][Len(buf'[o])] = fwd[o]
    <3>1. /\ OrderingOf[fwd[o]] = o /\ status[fwd[o]] \in Waiting
          /\ status'[fwd[o]] = status[fwd[o]] /\ buf'[o] = buf[o]
      BY <1>2, <1>4, <1>6, <2>2 DEF ReorderInv, ForwarderInv
    <3>2. QED
      BY <1>1, <2>2, <3>1 DEF ReorderInv, ForwarderInv, EventsOf
  <2>3. QED
    BY <2>1, <2>2 DEF ForwarderInv, EventsOf
<1>10. QueueInv'
  <2>1. \A k \in DOMAIN queue : queue'[k] # None =>
          queue'[k] = queue[k] /\ status'[queue[k]] = "queued"
    BY DEF ReorderInv, QueueInv
  <2>2. \A e \in Events : status'[e] = "queued" =>
          \E k \in DOMAIN queue : queue'[k] = e
    <3>1. SUFFICES ASSUME NEW e \in Events, status'[e] = "queued"
                   PROVE  \E k \in DOMAIN queue : queue'[k] = e
      OBVIOUS
    <3>2. PICK k \in DOMAIN queue : queue[k] = e
      BY <1>3, <3>1 DEF ReorderInv, QueueInv
    <3>3. queue'[k] = e
      BY <3>1, <3>2
    <3>4. QED
      BY <3>3
  <2>3. \A e \in Events : status'[e] = "queued" =>
          nextSeq'[OrderingOf[e]] = nextSeq[OrderingOf[e]]
    BY <1>4
  <2>4. QED
    BY <1>1, <1>3, <2>1, <2>2, <2>3 DEF ReorderInv, QueueInv
<1>11. QED
  BY <1>7, <1>8, <1>9, <1>10 DEF ReorderInv

\* A new event gets the next sequence number of its ordering.
LEMMA ReorderCreate ==
  ASSUME TypeOK, ReorderInv, NEW e \in Events, CreateEvent(e)
  PROVE  ReorderInv'
<1> USE DataAssumption, NilAssumption
<1> USE DEF fwdVars, iterVars
<1> DEFINE o == OrderingOf[e]
<1>1. /\ status[e] = "new"
      /\ status' = [status EXCEPT ![e] = "created"]
      /\ sequence' = [sequence EXCEPT ![e] = nextSeq[o]]
      /\ nextSeq' = [nextSeq EXCEPT ![o] = @ + 1]
      /\ UNCHANGED <<evIter, expected, buf, fwd, last, lock, queue>>
  BY DEF CreateEvent
<1>2. /\ status \in [Events -> Statuses] /\ sequence \in [Events -> Nat]
      /\ nextSeq \in [Orderings -> Nat] /\ expected \in [Orderings -> Nat]
      /\ o \in Orderings
  BY DEF TypeOK, EventTypes, OrderingTypes
<1>3. \A f \in Events \ {e} : status'[f] = status[f] /\ sequence'[f] = sequence[f]
  BY <1>1, <1>2
<1>4. status'[e] = "created" /\ sequence'[e] = nextSeq[o]
  BY <1>1, <1>2
<1>5. \A q \in Orderings : nextSeq'[q] >= nextSeq[q]
  BY <1>1, <1>2
<1>6. nextSeq'[o] = nextSeq[o] + 1
  BY <1>1, <1>2
<1>7. expected[o] <= nextSeq[o]
  BY <1>2 DEF ReorderInv, SequenceInv
<1>8. SequenceInv'
  BY <1>1, <1>2, <1>3, <1>4, <1>5, <1>6, <1>7 DEF ReorderInv, SequenceInv, Waiting
<1>9. BufferInv'
  <2>1. \A q \in Orderings : \A k \in DOMAIN buf[q] :
          buf[q][k] \in Events \ {e}
    BY <1>1 DEF ReorderInv, BufferInv, TypeOK, OrderingTypes
  <2>2. QED
    BY <1>1, <1>3, <2>1 DEF ReorderInv, BufferInv
<1>10. ForwarderInv'
  <2>1. \A q \in Orderings : fwd[q] # None => fwd[q] \in Events \ {e}
    BY <1>1 DEF ReorderInv, ForwarderInv, TypeOK, ForwarderTypes, Waiting
  <2>2. \A q \in Orderings : fwd[q] # None => sequence[fwd[q]] < nextSeq[q]
    BY <2>1 DEF ReorderInv, ForwarderInv, SequenceInv
  <2>3. QED
    BY <1>1, <1>3, <1>4, <2>1, <2>2 DEF ReorderInv, ForwarderInv, EventsOf
<1>11. QueueInv'
  <2>1. \A k \in DOMAIN queue : queue[k] # None => queue[k] \in Events \ {e}
    BY <1>1, QueueElement DEF ReorderInv, QueueInv
  <2>2. \A f \in Events : evIter[f] # None => f # e
    BY <1>1 DEF ReorderInv, QueueInv
  <2>3. \A f \in Events : status'[f] = "queued" => f # e /\ status[f] = "queued"
    BY <1>3, <1>4
  <2>4. \A k \in DOMAIN queue : queue[k] # None => status'[queue[k]] = "queued"
    BY <1>3, <2>1 DEF ReorderInv, QueueInv
  <2>5. \A f \in Events :
          status'[f] = "queued" => \E k \in DOMAIN queue : queue[k] = f
    BY <2>3 DEF ReorderInv, QueueInv
  <2>6. \A j, k \in DOMAIN queue :
          j < k /\ queue[j] # None /\ queue[k] # None =>
            /\ queue[j] # queue[k]
            /\ OrderingOf[queue[j]] = OrderingOf[queue[k]]
                 => sequence'[queue[j]] < sequence'[queue[k]]
    BY <1>3, <2>1 DEF ReorderInv, QueueInv
  <2>7. \A f \in Events : evIter[f] # None => status'[f] = "queued"
    BY <1>3, <2>2 DEF ReorderInv, QueueInv
  <2>8. \A f \in Events :
          status'[f] = "queued" => sequence'[f] < nextSeq'[OrderingOf[f]]
    <3>1. SUFFICES ASSUME NEW f \in Events, status'[f] = "queued"
                   PROVE  sequence'[f] < nextSeq'[OrderingOf[f]]
      OBVIOUS
    <3>2. sequence'[f] = sequence[f] /\ sequence[f] < nextSeq[OrderingOf[f]]
      BY <1>3, <2>3, <3>1 DEF ReorderInv, QueueInv
    <3>3. nextSeq'[OrderingOf[f]] \in Nat /\ nextSeq[OrderingOf[f]] \in Nat
      BY <1>1, <1>2
    <3>4. QED
      BY <1>2, <1>5, <3>2, <3>3
  <2>9. \A f, g \in Events :
          /\ status'[f] = "queued" /\ status'[g] \in Waiting
          /\ OrderingOf[f] = OrderingOf[g]
          => sequence'[f] < sequence'[g]
    <3>1. SUFFICES ASSUME NEW f \in Events, NEW g \in Events,
                          status'[f] = "queued", status'[g] \in Waiting,
                          OrderingOf[f] = OrderingOf[g]
                   PROVE  sequence'[f] < sequence'[g]
      OBVIOUS
    <3>2. f # e /\ status[f] = "queued" /\ sequence'[f] = sequence[f]
      BY <1>3, <2>3, <3>1
    <3>3. CASE g = e
      BY <1>4, <3>1, <3>2, <3>3 DEF ReorderInv, QueueInv
    <3>4. CASE g # e
      BY <1>3, <3>1, <3>2, <3>4 DEF ReorderInv, QueueInv
    <3>5. QED
      BY <3>3, <3>4
  <2>10. QED
    BY <1>1, <2>4, <2>5, <2>6, <2>7, <2>8, <2>9 DEF QueueInv
<1>12. QED
  BY <1>8, <1>9, <1>10, <1>11 DEF ReorderInv

\* An event that is out of order goes to its place in the buffer. If the
\* goroutine inside enqueue forwards a buffered event, that one stays last.
LEMMA ReorderBuffer ==
  ASSUME TypeOK, ReorderInv, NEW e \in Events, NEW drop \in BOOLEAN,
         ProcessEvent(e, drop), BufferEvent(e)
  PROVE  ReorderInv'
<1> USE DataAssumption, NilAssumption
<1> USE DEF fwdVars, iterVars
<1> DEFINE o == OrderingOf[e]
<1>1. PICK p \in 1 .. Len(buf[o]) + 1 :
             InsertPos(e, o, p) /\ buf' = [buf EXCEPT ![o] = InsertAt(@, p, e)]
  BY DEF BufferEvent
<1>2. /\ status[e] = "created"
      /\ status' = [status EXCEPT ![e] = "buffered"]
      /\ UNCHANGED <<sequence, nextSeq, evIter, expected, fwd, last, lock, queue>>
  BY DEF ProcessEvent, BufferEvent
<1>3. /\ status \in [Events -> Statuses] /\ sequence \in [Events -> Nat]
      /\ o \in Orderings /\ buf \in [Orderings -> Seq(Events)]
      /\ buf[o] \in Seq(Events)
  BY DEF TypeOK, EventTypes, OrderingTypes
<1>4. /\ \A f \in Events \ {e} : status'[f] = status[f]
      /\ status'[e] = "buffered"
  BY <1>2, <1>3
<1>5. /\ buf'[o] \in Seq(Events)
      /\ Len(buf'[o]) = Len(buf[o]) + 1
      /\ \A k \in 1 .. Len(buf[o]) + 1 :
           buf'[o][k] = IF k < p THEN buf[o][k]
                        ELSE IF k = p THEN e ELSE buf[o][k - 1]
  <2>1. buf'[o] = InsertAt(buf[o], p, e)
    BY <1>1, <1>3
  <2>2. /\ InsertAt(buf[o], p, e) \in Seq(Events)
        /\ Len(InsertAt(buf[o], p, e)) = Len(buf[o]) + 1
        /\ \A k \in 1 .. Len(buf[o]) + 1 :
             InsertAt(buf[o], p, e)[k] = IF k < p THEN buf[o][k]
                                         ELSE IF k = p THEN e ELSE buf[o][k - 1]
    <3>1. buf[o] \in Seq(Events) /\ p \in 1 .. Len(buf[o]) + 1 /\ e \in Events
      BY <1>1, <1>3
    <3>2. QED
      BY <3>1, InsertAtLemma, SMTT(60)
  <2>3. QED
    BY <2>1, <2>2, Zenon
<1>6. \A q \in Orderings \ {o} : buf'[q] = buf[q]
  BY <1>1, <1>3
<1>7. \A f \in Events : status'[f] \in Waiting <=> status[f] \in Waiting
  BY <1>2, <1>4 DEF Waiting
<1>8. SequenceInv'
  BY <1>2, <1>7 DEF ReorderInv, SequenceInv
<1>9. BufferInv'
  <2>1. \A q \in Orderings : \A k \in DOMAIN buf[q] : buf[q][k] \in Events \ {e}
    BY <1>2 DEF ReorderInv, BufferInv, TypeOK, OrderingTypes
  <2>2. ASSUME NEW q \in Orderings \ {o}
        PROVE  /\ \A k \in DOMAIN buf'[q] :
                    status'[buf'[q][k]] = "buffered" /\ OrderingOf[buf'[q][k]] = q
               /\ \A j, k \in DOMAIN buf'[q] :
                    j < k => sequence'[buf'[q][j]] > sequence'[buf'[q][k]]
    BY <1>2, <1>4, <1>6, <2>1 DEF ReorderInv, BufferInv
  <2>3. DOMAIN buf[o] = 1 .. Len(buf[o]) /\ DOMAIN buf'[o] = 1 .. Len(buf[o]) + 1
    BY <1>3, <1>5
  <2>4. \A k \in DOMAIN buf[o] :
          /\ status'[buf[o][k]] = "buffered" /\ OrderingOf[buf[o][k]] = o
          /\ IF k < p THEN sequence[buf[o][k]] > sequence[e]
                      ELSE sequence[buf[o][k]] < sequence[e]
    BY <1>1, <1>3, <1>4, <2>1 DEF ReorderInv, BufferInv, InsertPos
  <2>5. \A k \in DOMAIN buf'[o] :
          status'[buf'[o][k]] = "buffered" /\ OrderingOf[buf'[o][k]] = o
    <3>1. SUFFICES ASSUME NEW k \in 1 .. Len(buf[o]) + 1
                   PROVE  /\ status'[buf'[o][k]] = "buffered"
                          /\ OrderingOf[buf'[o][k]] = o
      BY <2>3
    <3>2. Len(buf[o]) \in Nat
      BY <1>3
    <3>3. CASE k < p
      <4>1. k \in DOMAIN buf[o] /\ buf'[o][k] = buf[o][k]
        BY <1>1, <1>5, <2>3, <3>2, <3>3
      <4>2. QED
        BY <2>4, <4>1
    <3>4. CASE k = p
      <4>1. buf'[o][k] = e
        BY <1>5, <3>4
      <4>2. QED
        BY <1>4, <4>1
    <3>5. CASE k > p
      <4>1. k - 1 \in DOMAIN buf[o] /\ ~(k < p) /\ k # p
        BY <1>1, <2>3, <3>2, <3>5
      <4>2. buf'[o][k] = buf[o][k - 1]
        BY <1>5, <4>1
      <4>3. QED
        BY <2>4, <4>1, <4>2
    <3>6. QED
      BY <3>3, <3>4, <3>5
  <2>6. ASSUME NEW j \in DOMAIN buf'[o], NEW k \in DOMAIN buf'[o], j < k
        PROVE  sequence[buf'[o][j]] > sequence[buf'[o][k]]
    <3>1. \A a, b \in DOMAIN buf[o] :
            a < b => sequence[buf[o][a]] > sequence[buf[o][b]]
      BY <1>3 DEF ReorderInv, BufferInv
    <3>2. /\ j \in 1 .. Len(buf[o]) + 1 /\ k \in 1 .. Len(buf[o]) + 1
          /\ Len(buf[o]) \in Nat
      BY <1>3, <2>3
    <3>3. CASE k < p
      BY <1>5, <2>3, <2>6, <3>1, <3>2, <3>3
    <3>4. CASE k = p
      BY <1>5, <2>3, <2>4, <2>6, <3>2, <3>4
    <3>5. CASE k > p /\ j < p
      <4>1. j \in DOMAIN buf[o] /\ k - 1 \in DOMAIN buf[o] /\ j < k - 1
        BY <2>3, <3>2, <3>5
      <4>2. buf'[o][j] = buf[o][j] /\ buf'[o][k] = buf[o][k - 1]
        BY <1>5, <3>2, <3>5
      <4>3. QED
        BY <3>1, <4>1, <4>2
    <3>6. CASE k > p /\ j = p
      <4>1. k - 1 \in DOMAIN buf[o] /\ ~(k - 1 < p)
        BY <2>3, <3>2, <3>6
      <4>2. buf'[o][j] = e /\ buf'[o][k] = buf[o][k - 1]
        BY <1>5, <3>2, <3>6
      <4>3. sequence[buf[o][k - 1]] < sequence[e]
        BY <2>4, <4>1
      <4>4. sequence[buf[o][k - 1]] \in Nat /\ sequence[e] \in Nat
        BY <1>3, <2>1, <4>1
      <4>5. QED
        BY <4>2, <4>3, <4>4
    <3>7. CASE k > p /\ j > p
      <4>1. j - 1 \in DOMAIN buf[o] /\ k - 1 \in DOMAIN buf[o] /\ j - 1 < k - 1
        BY <2>3, <2>6, <3>2, <3>7
      <4>2. ~(j < p) /\ j # p /\ ~(k < p) /\ k # p
        BY <3>2, <3>7
      <4>3. buf'[o][j] = buf[o][j - 1] /\ buf'[o][k] = buf[o][k - 1]
        BY <1>5, <3>2, <4>2
      <4>4. QED
        BY <3>1, <4>1, <4>3
    <3>8. QED
      BY <3>2, <3>3, <3>4, <3>5, <3>6, <3>7
  <2>7. QED
    BY <1>2, <2>2, <2>5, <2>6 DEF BufferInv
<1>10. ForwarderInv'
  <2>1. lock' # None => fwd'[lock'] # None
    BY <1>2 DEF ReorderInv, ForwarderInv
  <2>2. ASSUME NEW q \in Orderings, fwd[q] # None
        PROVE  /\ OrderingOf[fwd[q]] = q
               /\ status'[fwd[q]] \in Waiting
               /\ \A f \in EventsOf(q) :
                    status'[f] \in Waiting /\ f # fwd[q]
                      => sequence[f] > sequence[fwd[q]]
               /\ last[q] = 0 => status'[fwd[q]] = "forwarding"
               /\ last[q] # 0 => /\ last[q] <= Len(buf'[q])
                                 /\ buf'[q][Len(buf'[q])] = fwd[q]
    <3>1. fwd[q] \in Events /\ last[q] \in Nat
      BY <2>2 DEF TypeOK, ForwarderTypes
    <3>2. /\ OrderingOf[fwd[q]] = q /\ status[fwd[q]] \in Waiting
          /\ last[q] = 0 => status[fwd[q]] = "forwarding"
          /\ last[q] # 0 => /\ last[q] <= Len(buf[q])
                            /\ buf[q][Len(buf[q])] = fwd[q]
          /\ \A f \in EventsOf(q) : status[f] \in Waiting /\ f # fwd[q]
               => sequence[f] > sequence[fwd[q]]
      BY <2>2 DEF ReorderInv, ForwarderInv
    <3>3. buf[q] \in Seq(Events)
      BY DEF TypeOK, OrderingTypes
    <3>4. fwd[q] # e
      <4>1. CASE last[q] = 0
        BY <1>2, <3>2, <4>1
      <4>2. CASE last[q] # 0
        <5>1. Len(buf[q]) \in DOMAIN buf[q]
          BY <3>1, <3>2, <3>3, <4>2
        <5>2. status[fwd[q]] = "buffered"
          BY <3>2, <4>2, <5>1 DEF ReorderInv, BufferInv
        <5>3. QED
          BY <1>2, <5>2
      <4>3. QED
        BY <4>1, <4>2
    <3>5. status'[fwd[q]] = status[fwd[q]]
      BY <1>4, <3>1, <3>4
    <3>6. ASSUME last[q] # 0
          PROVE  last[q] <= Len(buf'[q]) /\ buf'[q][Len(buf'[q])] = fwd[q]
      <4>1. CASE q # o
        BY <1>6, <3>2, <3>6, <4>1
      <4>2. CASE q = o
        <5>1. sequence[e] > sequence[fwd[o]]
          BY <1>2, <3>2, <3>4, <4>2 DEF EventsOf, Waiting
        <5>2. /\ Len(buf[o]) \in DOMAIN buf[o] /\ buf[o][Len(buf[o])] = fwd[o]
              /\ Len(buf[o]) \in Nat /\ last[o] <= Len(buf[o])
          BY <3>1, <3>2, <3>3, <3>6, <4>2
        <5>3. ~(Len(buf[o]) < p)
          <6>1. SUFFICES ASSUME Len(buf[o]) < p PROVE FALSE
            OBVIOUS
          <6>2. sequence[fwd[o]] > sequence[e]
            BY <1>1, <5>2, <6>1 DEF InsertPos
          <6>3. sequence[fwd[o]] \in Nat /\ sequence[e] \in Nat
            BY <1>3, <3>1, <4>2
          <6>4. QED
            BY <5>1, <6>2, <6>3
        <5>4. Len(buf[o]) + 1 > p /\ Len(buf[o]) + 1 \in 1 .. Len(buf[o]) + 1
          BY <5>2, <5>3
        <5>5. buf'[o][Len(buf[o]) + 1] = buf[o][(Len(buf[o]) + 1) - 1]
          BY <1>5, <5>4
        <5>6. (Len(buf[o]) + 1) - 1 = Len(buf[o])
          BY <5>2
        <5>7. QED
          BY <1>5, <3>1, <4>2, <5>2, <5>5, <5>6
      <4>3. QED
        BY <4>1, <4>2
    <3>7. QED
      BY <1>7, <3>2, <3>5, <3>6 DEF EventsOf
  <2>3. QED
    BY <1>2, <2>1, <2>2 DEF ForwarderInv, EventsOf
<1>11. QueueInv'
  <2>1. \A f \in Events : status'[f] = "queued" <=> status[f] = "queued"
    BY <1>2, <1>4
  <2>2. \A k \in DOMAIN queue : queue[k] # None => queue[k] \in Events
    BY QueueElement
  <2>3. QED
    BY <1>2, <1>7, <2>1, <2>2 DEF ReorderInv, QueueInv
<1>12. QED
  BY <1>8, <1>9, <1>10, <1>11 DEF ReorderInv

\* The event that the goroutine inside enqueue forwards.
LEMMA ForwardedEvent ==
  ASSUME TypeOK, ReorderInv, NEW o \in Orderings, fwd[o] # None
  PROVE  /\ fwd[o] \in Events /\ OrderingOf[fwd[o]] = o
         /\ status[fwd[o]] = IF last[o] = 0 THEN "forwarding" ELSE "buffered"
         /\ \A f \in Events :
              status[f] \in Waiting /\ f # fwd[o] /\ OrderingOf[f] = o
                => sequence[f] > sequence[fwd[o]]
<1>1. fwd[o] \in Events /\ last[o] \in Nat /\ buf[o] \in Seq(Events)
  BY DEF TypeOK, ForwarderTypes, OrderingTypes
<1>2. /\ OrderingOf[fwd[o]] = o
      /\ last[o] = 0 => status[fwd[o]] = "forwarding"
      /\ last[o] # 0 => /\ last[o] <= Len(buf[o])
                        /\ buf[o][Len(buf[o])] = fwd[o]
      /\ \A f \in EventsOf(o) : status[f] \in Waiting /\ f # fwd[o]
           => sequence[f] > sequence[fwd[o]]
  BY DEF ReorderInv, ForwarderInv
<1>3. last[o] # 0 => status[fwd[o]] = "buffered"
  <2>1. SUFFICES ASSUME last[o] # 0 PROVE status[fwd[o]] = "buffered"
    OBVIOUS
  <2>2. Len(buf[o]) \in DOMAIN buf[o]
    BY <1>1, <1>2, <2>1
  <2>3. QED
    BY <1>2, <2>1, <2>2 DEF ReorderInv, BufferInv
<1>4. QED
  BY <1>1, <1>2, <1>3 DEF EventsOf

\* The expected event starts to be forwarded: it is the oldest waiting one,
\* and no other goroutine forwards an event of its ordering.
LEMMA ReorderStart ==
  ASSUME TypeOK, ReorderInv, NEW e \in Events, NEW drop \in BOOLEAN,
         ProcessEvent(e, drop), StartForwarding(e)
  PROVE  ReorderInv'
<1> USE DataAssumption, NilAssumption
<1> USE DEF fwdVars, iterVars
<1> DEFINE o == OrderingOf[e]
<1>1. /\ status[e] = "created" /\ sequence[e] = expected[o]
      /\ status' = [status EXCEPT ![e] = "forwarding"]
      /\ fwd' = [fwd EXCEPT ![o] = e] /\ last' = [last EXCEPT ![o] = 0]
      /\ lock' = o
      /\ UNCHANGED <<sequence, nextSeq, evIter, expected, buf, queue>>
  BY DEF ProcessEvent, StartForwarding, InOrder
<1>2. /\ status \in [Events -> Statuses] /\ sequence \in [Events -> Nat]
      /\ fwd \in [Orderings -> Events \cup {None}] /\ last \in [Orderings -> Nat]
      /\ o \in Orderings
  BY DEF TypeOK, EventTypes, ForwarderTypes
<1>3. /\ \A f \in Events \ {e} : status'[f] = status[f]
      /\ status'[e] = "forwarding"
      /\ fwd'[o] = e /\ last'[o] = 0
      /\ \A q \in Orderings \ {o} : fwd'[q] = fwd[q] /\ last'[q] = last[q]
  BY <1>1, <1>2
<1>4. \A f \in Events : status'[f] \in Waiting <=> status[f] \in Waiting
  BY <1>1, <1>3 DEF Waiting
<1>5. \A f \in Events : /\ status[f] \in Waiting /\ f # e /\ OrderingOf[f] = o
                        => sequence[f] > sequence[e]
  <2>1. SUFFICES ASSUME NEW f \in Events, status[f] \in Waiting, f # e,
                        OrderingOf[f] = o
                 PROVE  sequence[f] > sequence[e]
    OBVIOUS
  <2>2. expected[o] <= sequence[f] /\ sequence[f] # sequence[e]
    BY <1>1, <2>1 DEF ReorderInv, SequenceInv, Waiting
  <2>3. QED
    BY <1>1, <1>2, <2>2
<1>6. SequenceInv'
  BY <1>1, <1>4 DEF ReorderInv, SequenceInv
<1>7. BufferInv'
  <2>1. \A q \in Orderings : \A k \in DOMAIN buf[q] : buf[q][k] \in Events \ {e}
    BY <1>1 DEF ReorderInv, BufferInv, TypeOK, OrderingTypes
  <2>2. QED
    BY <1>1, <1>3, <2>1 DEF ReorderInv, BufferInv
<1>8. ForwarderInv'
  <2>1. lock' # None => fwd'[lock'] # None
    BY <1>1, <1>3
  <2>2. ASSUME NEW q \in Orderings, fwd'[q] # None, q # o
        PROVE  /\ OrderingOf[fwd'[q]] = q
               /\ status'[fwd'[q]] \in Waiting
               /\ \A f \in EventsOf(q) :
                    status'[f] \in Waiting /\ f # fwd'[q]
                      => sequence'[f] > sequence'[fwd'[q]]
               /\ last'[q] = 0 => status'[fwd'[q]] = "forwarding"
               /\ last'[q] # 0 => /\ last'[q] <= Len(buf'[q])
                                  /\ buf'[q][Len(buf'[q])] = fwd'[q]
    <3>1. fwd'[q] = fwd[q] /\ last'[q] = last[q] /\ fwd[q] # None
      BY <1>3, <2>2
    <3>2. fwd[q] \in Events /\ OrderingOf[fwd[q]] = q
      BY <3>1, ForwardedEvent
    <3>3. fwd[q] # e
      BY <2>2, <3>2
    <3>4. status'[fwd[q]] = status[fwd[q]]
      BY <1>3, <3>2, <3>3
    <3>5. QED
      BY <1>1, <1>4, <3>1, <3>2, <3>4 DEF ReorderInv, ForwarderInv, EventsOf
  <2>3. /\ OrderingOf[fwd'[o]] = o
        /\ status'[fwd'[o]] = "forwarding" /\ status'[fwd'[o]] \in Waiting
        /\ \A f \in EventsOf(o) :
             status'[f] \in Waiting /\ f # fwd'[o]
               => sequence'[f] > sequence'[fwd'[o]]
    BY <1>1, <1>3, <1>4, <1>5 DEF EventsOf, Waiting
  <2>4. QED
    BY <1>3, <2>1, <2>2, <2>3 DEF ForwarderInv, EventsOf
<1>9. QueueInv'
  <2>1. \A f \in Events : status'[f] = "queued" <=> status[f] = "queued"
    BY <1>1, <1>3
  <2>2. \A k \in DOMAIN queue : queue[k] # None => queue[k] \in Events
    BY QueueElement
  <2>3. QED
    BY <1>1, <1>4, <2>1, <2>2 DEF ReorderInv, QueueInv
<1>10. QED
  BY <1>6, <1>7, <1>8, <1>9 DEF ReorderInv

\* The sender is closed: the goroutine leaves enqueue.
LEMMA ReorderAbort ==
  ASSUME TypeOK, ReorderInv, NEW o \in Orderings, ForwardAbort(o)
  PROVE  ReorderInv'
<1> USE DataAssumption, NilAssumption
<1> USE DEF ordVars, iterVars
<1>1. /\ lock = o
      /\ fwd' = [fwd EXCEPT ![o] = None] /\ last' = [last EXCEPT ![o] = 0]
      /\ lock' = None
      /\ status' = IF last[o] = 0 THEN [status EXCEPT ![fwd[o]] = "abandoned"]
                                  ELSE status
      /\ UNCHANGED <<sequence, nextSeq, evIter, expected, buf, queue>>
  BY DEF ForwardAbort
<1>2. /\ status \in [Events -> Statuses] /\ sequence \in [Events -> Nat]
      /\ fwd \in [Orderings -> Events \cup {None}] /\ last \in [Orderings -> Nat]
  BY DEF TypeOK, EventTypes, ForwarderTypes
<1>3. fwd[o] # None
  BY <1>1 DEF ReorderInv, ForwarderInv
<1>4. /\ fwd[o] \in Events /\ OrderingOf[fwd[o]] = o
      /\ last[o] = 0 => status[fwd[o]] = "forwarding"
  BY <1>3, ForwardedEvent
<1>5. \A f \in Events :
        \/ status'[f] = status[f]
        \/ f = fwd[o] /\ status[f] = "forwarding" /\ status'[f] = "abandoned"
  BY <1>1, <1>2, <1>4
<1>6. /\ \A f \in Events : status'[f] \in Waiting => status[f] \in Waiting
      /\ \A f \in Events : status'[f] = "queued" <=> status[f] = "queued"
      /\ \A f \in Events : status[f] = "buffered" => status'[f] = "buffered"
  BY <1>5 DEF Waiting
<1>7. /\ fwd'[o] = None
      /\ \A q \in Orderings \ {o} : fwd'[q] = fwd[q] /\ last'[q] = last[q]
  BY <1>1, <1>2
<1>8. SequenceInv'
  BY <1>1, <1>6 DEF ReorderInv, SequenceInv
<1>9. BufferInv'
  <2>1. \A q \in Orderings : \A k \in DOMAIN buf[q] : buf[q][k] \in Events
    BY DEF TypeOK, OrderingTypes
  <2>2. QED
    BY <1>1, <1>6, <2>1 DEF ReorderInv, BufferInv
<1>10. ForwarderInv'
  <2>1. ASSUME NEW q \in Orderings, fwd'[q] # None
        PROVE  /\ OrderingOf[fwd'[q]] = q
               /\ status'[fwd'[q]] \in Waiting
               /\ \A f \in EventsOf(q) :
                    status'[f] \in Waiting /\ f # fwd'[q]
                      => sequence'[f] > sequence'[fwd'[q]]
               /\ last'[q] = 0 => status'[fwd'[q]] = "forwarding"
               /\ last'[q] # 0 => /\ last'[q] <= Len(buf'[q])
                                  /\ buf'[q][Len(buf'[q])] = fwd'[q]
    <3>1. q # o /\ fwd'[q] = fwd[q] /\ last'[q] = last[q] /\ fwd[q] # None
      BY <1>7, <2>1
    <3>2. fwd[q] \in Events /\ OrderingOf[fwd[q]] = q
      BY <3>1, ForwardedEvent
    <3>3. status'[fwd[q]] = status[fwd[q]]
      BY <1>4, <1>5, <3>1, <3>2
    <3>4. QED
      BY <1>1, <1>6, <3>1, <3>2, <3>3 DEF ReorderInv, ForwarderInv, EventsOf
  <2>2. QED
    BY <1>1, <2>1 DEF ForwarderInv, EventsOf
<1>11. QueueInv'
  <2>1. \A k \in DOMAIN queue : queue[k] # None => queue[k] \in Events
    BY QueueElement
  <2>2. QED
    BY <1>1, <1>6, <2>1 DEF ReorderInv, QueueInv
<1>12. QED
  BY <1>8, <1>9, <1>10, <1>11 DEF ReorderInv

\* What one turn of enqueue does, apart from the queue.
LEMMA ForwardCases ==
  ASSUME TypeOK, ReorderInv, NEW o \in Orderings, Forward(o)
  PROVE  /\ lock = o /\ fwd[o] # None
         /\ UNCHANGED <<sequence, evIter>>
         /\ \A f \in Events \ {fwd[o]} : status'[f] = status[f]
         /\ \/ status'[fwd[o]] = "dropped" /\ queue' = queue
            \/ status'[fwd[o]] = "queued" /\ queue' = Append(queue, fwd[o])
         /\ \A q \in Orderings \ {o} :
              /\ fwd'[q] = fwd[q] /\ last'[q] = last[q] /\ buf'[q] = buf[q]
              /\ expected'[q] = expected[q] /\ nextSeq'[q] = nextSeq[q]
         /\ \/ /\ Popped(o) # <<>>
               /\ sequence[Last(Popped(o))] = sequence[fwd[o]] + 1
               /\ fwd'[o] = Last(Popped(o)) /\ last'[o] = Len(Popped(o))
               /\ buf'[o] = Popped(o) /\ lock' = o
               /\ nextSeq'[o] = nextSeq[o] /\ expected'[o] = expected[o]
            \/ /\ fwd'[o] = None /\ lock' = None /\ buf'[o] = Popped(o)
               /\ nextSeq'[o] = nextSeq[o]
               /\ expected'[o] = sequence[fwd[o]] + 1
            \/ /\ fwd'[o] = None /\ lock' = None /\ buf'[o] = <<>>
               /\ nextSeq'[o] = 0 /\ expected'[o] = 0
               /\ sequence[fwd[o]] + 1 = nextSeq[o]
               /\ \A f \in Events : OrderingOf[f] = o => status'[f] # "queued"
<1> USE NilAssumption
<1> USE DEF iterVars
<1>1. /\ status \in [Events -> Statuses]
      /\ fwd \in [Orderings -> Events \cup {None}] /\ last \in [Orderings -> Nat]
      /\ buf \in [Orderings -> Seq(Events)]
      /\ nextSeq \in [Orderings -> Nat] /\ expected \in [Orderings -> Nat]
  BY DEF TypeOK, EventTypes, ForwarderTypes, OrderingTypes
<1>2. lock = o /\ fwd[o] # None /\ UNCHANGED <<sequence, evIter>>
  BY DEF Forward, ReorderInv, ForwarderInv
<1>3. fwd[o] \in Events
  BY <1>1, <1>2
<1>4. \/ status' = [status EXCEPT ![fwd[o]] = "dropped"] /\ queue' = queue
      \/ /\ status' = [status EXCEPT ![fwd[o]] = "queued"]
         /\ queue' = Append(queue, fwd[o])
  BY DEF Forward, Skip, Enqueue
<1>5. /\ \A f \in Events \ {fwd[o]} : status'[f] = status[f]
      /\ \/ status'[fwd[o]] = "dropped" /\ queue' = queue
         \/ status'[fwd[o]] = "queued" /\ queue' = Append(queue, fwd[o])
  BY <1>1, <1>3, <1>4
<1>6. CASE /\ Popped(o) # <<>>
           /\ sequence[Last(Popped(o))] = sequence[fwd[o]] + 1
  <2>1. /\ fwd' = [fwd EXCEPT ![o] = Last(Popped(o))]
        /\ last' = [last EXCEPT ![o] = Len(Popped(o))]
        /\ buf' = [buf EXCEPT ![o] = Popped(o)]
        /\ UNCHANGED <<lock, nextSeq, expected>>
    BY <1>6 DEF Forward
  <2>2. QED
    BY <1>1, <1>2, <1>5, <1>6, <2>1
<1>7. CASE ~(/\ Popped(o) # <<>>
             /\ sequence[Last(Popped(o))] = sequence[fwd[o]] + 1)
  <2>1. /\ fwd' = [fwd EXCEPT ![o] = None] /\ last' = [last EXCEPT ![o] = 0]
        /\ lock' = None
        /\ IF Disposable(o, sequence[fwd[o]] + 1, status', consumed[o])
           THEN DisposeOrderings({o})
           ELSE /\ expected' = [expected EXCEPT ![o] = sequence[fwd[o]] + 1]
                /\ buf' = [buf EXCEPT ![o] = Popped(o)]
                /\ UNCHANGED <<orderings, nextSeq>>
    BY <1>7 DEF Forward
  <2>2. CASE Disposable(o, sequence[fwd[o]] + 1, status', consumed[o])
    <3>1. sequence[fwd[o]] + 1 = nextSeq[o] /\ Total(status', o) = 0
      BY <2>2 DEF Disposable
    <3>2. \A f \in Events : OrderingOf[f] = o => status'[f] # "queued"
      BY <3>1, NothingQueued
    <3>3. /\ nextSeq' = [q \in Orderings |-> IF q \in {o} THEN 0 ELSE nextSeq[q]]
          /\ expected' = [q \in Orderings |-> IF q \in {o} THEN 0 ELSE expected[q]]
          /\ buf' = [q \in Orderings |-> IF q \in {o} THEN <<>> ELSE buf[q]]
      BY <2>1, <2>2 DEF DisposeOrderings
    <3>4. QED
      BY <1>1, <1>2, <1>5, <2>1, <3>1, <3>2, <3>3
  <2>3. CASE ~Disposable(o, sequence[fwd[o]] + 1, status', consumed[o])
    BY <1>1, <1>2, <1>5, <2>1, <2>3
  <2>4. QED
    BY <2>2, <2>3
<1>8. QED
  BY <1>6, <1>7

\* What is left in the buffer once the forwarded event is popped.
LEMMA PoppedInv ==
  ASSUME TypeOK, ReorderInv, NEW o \in Orderings, fwd[o] # None
  PROVE  /\ \A k \in DOMAIN Popped(o) :
              /\ Popped(o)[k] \in Events /\ Popped(o)[k] # fwd[o]
              /\ status[Popped(o)[k]] = "buffered"
              /\ OrderingOf[Popped(o)[k]] = o
         /\ \A j, k \in DOMAIN Popped(o) :
              j < k => sequence[Popped(o)[j]] > sequence[Popped(o)[k]]
<1>1. /\ Popped(o) \in Seq(Events) /\ buf[o] \in Seq(Events)
      /\ last[o] # 0 => Len(Popped(o)) < Len(buf[o])
      /\ \A k \in DOMAIN Popped(o) : k \in DOMAIN buf[o] /\ Popped(o)[k] = buf[o][k]
  BY PoppedLemma DEF TypeOK, OrderingTypes
<1>2. /\ fwd[o] \in Events
      /\ status[fwd[o]] = IF last[o] = 0 THEN "forwarding" ELSE "buffered"
  BY ForwardedEvent
<1>3. /\ \A k \in DOMAIN buf[o] :
           status[buf[o][k]] = "buffered" /\ OrderingOf[buf[o][k]] = o
      /\ \A j, k \in DOMAIN buf[o] :
           j < k => sequence[buf[o][j]] > sequence[buf[o][k]]
  BY DEF ReorderInv, BufferInv
<1>4. ASSUME NEW k \in DOMAIN Popped(o)
      PROVE  Popped(o)[k] # fwd[o]
  <2>1. CASE last[o] = 0
    BY <1>1, <1>2, <1>3, <2>1
  <2>2. CASE last[o] # 0
    <3>1. Len(buf[o]) \in DOMAIN buf[o] /\ k < Len(buf[o])
      BY <1>1, <2>2
    <3>2. buf[o][Len(buf[o])] = fwd[o]
      BY <2>2 DEF ReorderInv, ForwarderInv
    <3>3. sequence[buf[o][k]] > sequence[fwd[o]]
      BY <1>1, <1>3, <3>1, <3>2
    <3>4. sequence[fwd[o]] \in Nat
      BY <1>2 DEF TypeOK, EventTypes
    <3>5. QED
      BY <1>1, <3>3, <3>4
  <2>3. QED
    BY <2>1, <2>2
<1>5. QED
  BY <1>1, <1>3, <1>4

\* The forwarded event is appended to the queue, or dropped.
LEMMA ForwardQueue ==
  ASSUME TypeOK, ReorderInv, NEW o \in Orderings, Forward(o)
  PROVE  QueueInv'
<1> USE DataAssumption, NilAssumption
<1> DEFINE e == fwd[o]
<1>1. /\ e # None /\ UNCHANGED <<sequence, evIter>>
      /\ \A f \in Events \ {e} : status'[f] = status[f]
      /\ \/ status'[e] = "dropped" /\ queue' = queue
         \/ status'[e] = "queued" /\ queue' = Append(queue, e)
      /\ \A q \in Orderings \ {o} : nextSeq'[q] = nextSeq[q]
      /\ \/ nextSeq'[o] = nextSeq[o]
         \/ \A f \in Events : OrderingOf[f] = o => status'[f] # "queued"
  BY ForwardCases
<1>2. /\ e \in Events /\ OrderingOf[e] = o
      /\ status[e] \in Waiting
      /\ \A f \in Events :
           status[f] \in Waiting /\ f # e /\ OrderingOf[f] = o
             => sequence[f] > sequence[e]
  BY <1>1, ForwardedEvent DEF Waiting
<1>3. queue \in Seq(Events \cup {None}) /\ sequence \in [Events -> Nat]
  BY DEF TypeOK, QueueTypes, EventTypes
<1>4. \A k \in DOMAIN queue : queue[k] # None =>
        /\ queue[k] \in Events /\ status[queue[k]] = "queued" /\ queue[k] # e
        /\ OrderingOf[queue[k]] = o => sequence[queue[k]] < sequence[e]
  BY <1>2, QueueElement DEF ReorderInv, QueueInv, Waiting
<1>5. \A f \in Events : evIter'[f] # None => f # e /\ status'[f] = "queued"
  BY <1>1, <1>2 DEF ReorderInv, QueueInv, Waiting
<1>6. \A f \in Events :
        status'[f] = "queued" => sequence'[f] < nextSeq'[OrderingOf[f]]
  <2>1. SUFFICES ASSUME NEW f \in Events, status'[f] = "queued"
                 PROVE  sequence[f] < nextSeq'[OrderingOf[f]]
    BY <1>1
  <2>2. nextSeq'[OrderingOf[f]] = nextSeq[OrderingOf[f]]
    BY <1>1, <2>1
  <2>3. CASE f = e
    BY <1>2, <2>2, <2>3 DEF ReorderInv, SequenceInv
  <2>4. CASE f # e
    BY <1>1, <2>1, <2>2, <2>4 DEF ReorderInv, QueueInv
  <2>5. QED
    BY <2>3, <2>4
<1>7. \A f, g \in Events :
        /\ status'[f] = "queued" /\ status'[g] \in Waiting
        /\ OrderingOf[f] = OrderingOf[g]
        => sequence'[f] < sequence'[g]
  <2>1. SUFFICES ASSUME NEW f \in Events, NEW g \in Events,
                        status'[f] = "queued", status'[g] \in Waiting,
                        OrderingOf[f] = OrderingOf[g]
                 PROVE  sequence[f] < sequence[g]
    BY <1>1
  <2>2. g # e /\ status[g] \in Waiting
    BY <1>1, <2>1 DEF Waiting
  <2>3. CASE f = e
    <3>1. sequence[g] > sequence[e]
      BY <1>2, <2>1, <2>2, <2>3
    <3>2. QED
      BY <1>2, <1>3, <2>3, <3>1
  <2>4. CASE f # e
    BY <1>1, <2>1, <2>2, <2>4 DEF ReorderInv, QueueInv
  <2>5. QED
    BY <2>3, <2>4
<1>8. CASE status'[e] = "dropped" /\ queue' = queue
  <2>1. \A f \in Events : status'[f] = "queued" => f # e /\ status[f] = "queued"
    BY <1>1, <1>8
  <2>2. /\ \A k \in DOMAIN queue : queue[k] # None => status'[queue[k]] = "queued"
        /\ \A f \in Events :
             status'[f] = "queued" => \E k \in DOMAIN queue : queue[k] = f
        /\ \A j, k \in DOMAIN queue :
             j < k /\ queue[j] # None /\ queue[k] # None =>
               /\ queue[j] # queue[k]
               /\ OrderingOf[queue[j]] = OrderingOf[queue[k]]
                    => sequence[queue[j]] < sequence[queue[k]]
    BY <1>1, <1>4, <2>1 DEF ReorderInv, QueueInv
  <2>3. QED
    BY <1>1, <1>5, <1>6, <1>7, <1>8, <2>2 DEF QueueInv
<1>9. CASE status'[e] = "queued" /\ queue' = Append(queue, e)
  <2>1. /\ Len(queue) \in Nat
        /\ DOMAIN queue = 1 .. Len(queue)
        /\ DOMAIN queue' = 1 .. Len(queue) + 1
        /\ \A k \in DOMAIN queue : queue'[k] = queue[k]
        /\ queue'[Len(queue) + 1] = e
    BY <1>2, <1>3, <1>9
  <2>2. \A k \in DOMAIN queue' : k \in DOMAIN queue \/ k = Len(queue) + 1
    BY <2>1
  <2>3. \A k \in DOMAIN queue' : queue'[k] # None => status'[queue'[k]] = "queued"
    BY <1>1, <1>4, <1>9, <2>1, <2>2
  <2>4. \A f \in Events :
          status'[f] = "queued" => \E k \in DOMAIN queue' : queue'[k] = f
    <3>1. SUFFICES ASSUME NEW f \in Events, status'[f] = "queued"
                   PROVE  \E k \in DOMAIN queue' : queue'[k] = f
      OBVIOUS
    <3>2. CASE f = e
      BY <2>1, <3>2
    <3>3. CASE f # e
      <4>1. PICK k \in DOMAIN queue : queue[k] = f
        BY <1>1, <3>1, <3>3 DEF ReorderInv, QueueInv
      <4>2. k \in DOMAIN queue' /\ queue'[k] = f
        BY <2>1, <4>1
      <4>3. QED
        BY <4>2
    <3>4. QED
      BY <3>2, <3>3
  <2>5. ASSUME NEW j \in DOMAIN queue', NEW k \in DOMAIN queue', j < k,
               queue'[j] # None, queue'[k] # None
        PROVE  /\ queue'[j] # queue'[k]
               /\ OrderingOf[queue'[j]] = OrderingOf[queue'[k]]
                    => sequence[queue'[j]] < sequence[queue'[k]]
    <3>1. j \in DOMAIN queue /\ queue'[j] = queue[j]
      BY <2>1, <2>2, <2>5
    <3>2. CASE k \in DOMAIN queue
      BY <2>1, <2>5, <3>1, <3>2 DEF ReorderInv, QueueInv
    <3>3. CASE k = Len(queue) + 1
      BY <1>2, <1>4, <2>1, <2>5, <3>1, <3>3
    <3>4. QED
      BY <2>2, <3>2, <3>3
  <2>6. QED
    BY <1>1, <1>5, <1>6, <1>7, <2>3, <2>4, <2>5 DEF QueueInv
<1>10. QED
  BY <1>1, <1>8, <1>9

\* One turn of enqueue. The next event it takes is the oldest waiting one,
\* and an ordering it disposes of has no waiting event.
LEMMA ReorderForward ==
  ASSUME TypeOK, ReorderInv, NEW o \in Orderings, Forward(o)
  PROVE  ReorderInv'
<1> USE DataAssumption, NilAssumption
<1> DEFINE e == fwd[o]
<1> DEFINE nb == Popped(o)
<1> DEFINE Takes == /\ nb # <<>> /\ sequence[Last(nb)] = sequence[e] + 1
                    /\ fwd'[o] = Last(nb) /\ last'[o] = Len(nb)
                    /\ buf'[o] = nb /\ lock' = o
                    /\ nextSeq'[o] = nextSeq[o] /\ expected'[o] = expected[o]
<1> DEFINE Ends == /\ fwd'[o] = None /\ lock' = None /\ buf'[o] = nb
                   /\ nextSeq'[o] = nextSeq[o]
                   /\ expected'[o] = sequence[e] + 1
<1> DEFINE Disposes == /\ fwd'[o] = None /\ lock' = None /\ buf'[o] = <<>>
                       /\ nextSeq'[o] = 0 /\ expected'[o] = 0
                       /\ sequence[e] + 1 = nextSeq[o]
<1>1. /\ lock = o /\ e # None /\ UNCHANGED <<sequence, evIter>>
      /\ \A f \in Events \ {e} : status'[f] = status[f]
      /\ status'[e] \in {"dropped", "queued"}
      /\ \A q \in Orderings \ {o} :
           /\ fwd'[q] = fwd[q] /\ last'[q] = last[q] /\ buf'[q] = buf[q]
           /\ expected'[q] = expected[q] /\ nextSeq'[q] = nextSeq[q]
      /\ Takes \/ Ends \/ Disposes
  BY ForwardCases
<1>2. /\ e \in Events /\ OrderingOf[e] = o
      /\ status[e] \in Waiting
      /\ \A f \in Events :
           status[f] \in Waiting /\ f # e /\ OrderingOf[f] = o
             => sequence[f] > sequence[e]
  BY <1>1, ForwardedEvent DEF Waiting
<1>3. /\ sequence \in [Events -> Nat] /\ sequence[e] \in Nat
      /\ nextSeq[o] \in Nat /\ expected[o] \in Nat
  BY <1>2 DEF TypeOK, EventTypes, OrderingTypes
<1>4. \A f \in Events : status'[f] \in Waiting <=> f # e /\ status[f] \in Waiting
  BY <1>1 DEF Waiting
<1>5. /\ \A k \in DOMAIN nb :
           /\ nb[k] \in Events /\ nb[k] # e
           /\ status[nb[k]] = "buffered" /\ OrderingOf[nb[k]] = o
      /\ \A j, k \in DOMAIN nb : j < k => sequence[nb[j]] > sequence[nb[k]]
      /\ nb \in Seq(Events)
  BY <1>1, PoppedInv, PoppedLemma
<1>6. sequence[e] < nextSeq[o]
  BY <1>2 DEF ReorderInv, SequenceInv
<1>7. SequenceInv'
  <2>1. \A q \in Orderings : expected'[q] <= nextSeq'[q]
    <3>1. expected[o] <= nextSeq[o]
      BY DEF ReorderInv, SequenceInv
    <3>2. expected'[o] <= nextSeq'[o]
      BY <1>1, <1>3, <1>6, <3>1
    <3>3. QED
      BY <1>1, <3>2 DEF ReorderInv, SequenceInv
  <2>2. ASSUME NEW f \in Events, status'[f] \in Waiting
        PROVE  /\ expected'[OrderingOf[f]] <= sequence[f]
               /\ sequence[f] < nextSeq'[OrderingOf[f]]
    <3>1. /\ f # e /\ status[f] \in Waiting
          /\ expected[OrderingOf[f]] <= sequence[f]
          /\ sequence[f] < nextSeq[OrderingOf[f]]
      BY <1>4, <2>2 DEF ReorderInv, SequenceInv
    <3>2. CASE OrderingOf[f] # o
      <4>1. OrderingOf[f] \in Orderings \ {o}
        BY <3>2
      <4>2. QED
        BY <1>1, <3>1, <4>1
    <3>3. CASE OrderingOf[f] = o
      <4>1. sequence[f] > sequence[e] /\ sequence[f] \in Nat
        BY <1>2, <1>3, <3>1, <3>3
      <4>2. CASE Takes
        BY <3>1, <3>3, <4>2
      <4>3. CASE Ends
        BY <1>3, <3>1, <3>3, <4>1, <4>3
      <4>4. CASE Disposes
        BY <1>3, <3>1, <3>3, <4>1, <4>4
      <4>5. QED
        BY <1>1, <4>2, <4>3, <4>4
    <3>4. QED
      BY <3>2, <3>3
  <2>3. QED
    BY <1>1, <1>4, <2>1, <2>2 DEF ReorderInv, SequenceInv
<1>8. BufferInv'
  <2>1. ASSUME NEW q \in Orderings
        PROVE  /\ \A k \in DOMAIN buf'[q] :
                    status'[buf'[q][k]] = "buffered" /\ OrderingOf[buf'[q][k]] = q
               /\ \A j, k \in DOMAIN buf'[q] :
                    j < k => sequence[buf'[q][j]] > sequence[buf'[q][k]]
    <3>1. CASE q # o
      <4>1. buf'[q] = buf[q]
        BY <1>1, <3>1
      <4>2. \A k \in DOMAIN buf[q] : buf[q][k] \in Events /\ OrderingOf[buf[q][k]] = q
        BY DEF TypeOK, OrderingTypes, ReorderInv, BufferInv
      <4>3. \A k \in DOMAIN buf[q] : buf[q][k] \in Events \ {e}
        BY <1>2, <3>1, <4>2
      <4>4. QED
        BY <1>1, <4>1, <4>2, <4>3 DEF ReorderInv, BufferInv
    <3>2. CASE q = o /\ buf'[o] = nb
      BY <1>1, <1>5, <3>2
    <3>3. CASE q = o /\ buf'[o] = <<>>
      BY <3>3
    <3>4. QED
      BY <1>1, <3>1, <3>2, <3>3
  <2>2. QED
    BY <1>1, <2>1 DEF BufferInv
<1>9. ForwarderInv'
  <2>1. ASSUME NEW q \in Orderings, fwd'[q] # None, q # o
        PROVE  /\ OrderingOf[fwd'[q]] = q
               /\ status'[fwd'[q]] \in Waiting
               /\ \A f \in EventsOf(q) :
                    status'[f] \in Waiting /\ f # fwd'[q]
                      => sequence[f] > sequence[fwd'[q]]
               /\ last'[q] = 0 => status'[fwd'[q]] = "forwarding"
               /\ last'[q] # 0 => /\ last'[q] <= Len(buf'[q])
                                  /\ buf'[q][Len(buf'[q])] = fwd'[q]
    <3>1. /\ fwd'[q] = fwd[q] /\ last'[q] = last[q] /\ buf'[q] = buf[q]
          /\ fwd[q] # None
      BY <1>1, <2>1
    <3>2. fwd[q] \in Events /\ OrderingOf[fwd[q]] = q
      BY <3>1, ForwardedEvent
    <3>3. status'[fwd[q]] = status[fwd[q]]
      BY <1>1, <1>2, <2>1, <3>2
    <3>4. QED
      BY <1>4, <3>1, <3>2, <3>3 DEF ReorderInv, ForwarderInv, EventsOf
  <2>2. ASSUME fwd'[o] # None
        PROVE  /\ OrderingOf[fwd'[o]] = o
               /\ status'[fwd'[o]] \in Waiting
               /\ \A f \in EventsOf(o) :
                    status'[f] \in Waiting /\ f # fwd'[o]
                      => sequence[f] > sequence[fwd'[o]]
               /\ last'[o] # 0
               /\ last'[o] <= Len(buf'[o])
               /\ buf'[o][Len(buf'[o])] = fwd'[o]
    <3>1. Takes
      BY <1>1, <2>2
    <3>2. Len(nb) \in DOMAIN nb /\ Last(nb) = nb[Len(nb)] /\ Len(nb) # 0
      BY <1>5, <3>1 DEF Last
    <3>3. /\ Last(nb) \in Events /\ Last(nb) # e
          /\ status[Last(nb)] = "buffered" /\ OrderingOf[Last(nb)] = o
      BY <1>5, <3>2
    <3>4. status'[Last(nb)] = "buffered"
      BY <1>1, <3>3
    <3>5. ASSUME NEW f \in EventsOf(o), status'[f] \in Waiting, f # Last(nb)
          PROVE  sequence[f] > sequence[Last(nb)]
      <4>1. /\ f \in Events /\ OrderingOf[f] = o /\ f # e
            /\ status[f] \in Waiting
        BY <1>4, <3>5 DEF EventsOf
      <4>2. sequence[f] > sequence[e]
        BY <1>2, <4>1
      <4>3. sequence[f] # sequence[Last(nb)]
        BY <3>3, <3>5, <4>1 DEF ReorderInv, SequenceInv, Waiting
      <4>4. sequence[f] \in Nat
        BY <1>3, <4>1
      <4>5. QED
        BY <1>3, <3>1, <4>2, <4>3, <4>4
    <3>6. QED
      BY <3>1, <3>2, <3>3, <3>4, <3>5 DEF Waiting
  <2>3. lock' # None => fwd'[lock'] # None
    <3>1. SUFFICES ASSUME lock' # None PROVE fwd'[lock'] # None
      OBVIOUS
    <3>2. Takes
      BY <1>1, <3>1
    <3>3. Len(nb) \in DOMAIN nb /\ Last(nb) = nb[Len(nb)]
      BY <1>5, <3>2 DEF Last
    <3>4. QED
      BY <1>5, <3>2, <3>3
  <2>4. QED
    BY <1>1, <2>1, <2>2, <2>3 DEF ForwarderInv, EventsOf
<1>10. QueueInv'
  BY ForwardQueue
<1>11. QED
  BY <1>7, <1>8, <1>9, <1>10 DEF ReorderInv

\* The holes at the head of the queue are removed.
LEMMA ReorderCompact ==
  ASSUME TypeOK, ReorderInv, NEW i \in Iterators, Compact(i)
  PROVE  ReorderInv'
<1> USE DataAssumption, NilAssumption
<1> USE DEF evVars, ordVars, fwdVars, iterVars
<1>1. UNCHANGED <<status, sequence, evIter, nextSeq, expected, buf, fwd, last,
                  lock>>
  BY DEF Compact
<1>2. CASE queue' = queue
  BY <1>1, <1>2, ReorderFrame DEF ReorderInv, ForwarderInv, QueueInv
<1>3. CASE \E n \in 0 .. Len(queue) :
             LeadingHoles(n) /\ queue' = SubSeq(queue, n + 1, Len(queue))
  <2>1. PICK n \in 0 .. Len(queue) :
               LeadingHoles(n) /\ queue' = SubSeq(queue, n + 1, Len(queue))
    BY <1>3
  <2>2. queue \in Seq(Events \cup {None}) /\ Len(queue) \in Nat /\ n \in Nat
    BY DEF TypeOK, QueueTypes
  <2>3. /\ DOMAIN queue = 1 .. Len(queue)
        /\ DOMAIN queue' = 1 .. Len(queue) - n
        /\ \A k \in 1 .. Len(queue) - n : queue'[k] = queue[n + k]
    <3>1. \A k \in n + 1 .. Len(queue) : queue[k] \in Events \cup {None}
      BY <2>2
    <3>2. QED
      BY <2>1, <2>2, <3>1, SubSeqProperties
  <2>4. \A k \in DOMAIN queue' : n + k \in DOMAIN queue /\ queue'[k] = queue[n + k]
    BY <2>2, <2>3
  <2>5. \A k \in DOMAIN queue : queue[k] # None =>
          k - n \in DOMAIN queue' /\ queue'[k - n] = queue[k]
    <3>1. SUFFICES ASSUME NEW k \in DOMAIN queue, queue[k] # None
                   PROVE  k - n \in DOMAIN queue' /\ queue'[k - n] = queue[k]
      OBVIOUS
    <3>2. k \in 1 .. Len(queue) /\ ~(k \in 1 .. n)
      BY <2>1, <2>3, <3>1 DEF LeadingHoles
    <3>3. k - n \in 1 .. Len(queue) - n /\ n + (k - n) = k
      BY <2>2, <3>2
    <3>4. QED
      BY <2>3, <3>3
  <2>6. \A k \in DOMAIN queue' : queue'[k] # None => status'[queue'[k]] = "queued"
    BY <1>1, <2>4 DEF ReorderInv, QueueInv
  <2>7. \A f \in Events :
          status'[f] = "queued" => \E k \in DOMAIN queue' : queue'[k] = f
    <3>1. SUFFICES ASSUME NEW f \in Events, status[f] = "queued"
                   PROVE  \E k \in DOMAIN queue' : queue'[k] = f
      BY <1>1
    <3>2. PICK k \in DOMAIN queue : queue[k] = f
      BY <3>1 DEF ReorderInv, QueueInv
    <3>3. k - n \in DOMAIN queue' /\ queue'[k - n] = f
      BY <2>5, <3>2
    <3>4. QED
      BY <3>3
  <2>8. ASSUME NEW j \in DOMAIN queue', NEW k \in DOMAIN queue', j < k,
               queue'[j] # None, queue'[k] # None
        PROVE  /\ queue'[j] # queue'[k]
               /\ OrderingOf[queue'[j]] = OrderingOf[queue'[k]]
                    => sequence[queue'[j]] < sequence[queue'[k]]
    <3>1. /\ n + j \in DOMAIN queue /\ queue'[j] = queue[n + j]
          /\ n + k \in DOMAIN queue /\ queue'[k] = queue[n + k]
      BY <2>4
    <3>2. n + j < n + k
      BY <2>2, <2>3, <2>8
    <3>3. QED
      BY <2>8, <3>1, <3>2 DEF ReorderInv, QueueInv
  <2>9. QueueInv'
    BY <1>1, <2>6, <2>7, <2>8 DEF ReorderInv, QueueInv
  <2>10. SequenceInv' /\ BufferInv' /\ ForwarderInv'
    BY <1>1 DEF ReorderInv, SequenceInv, BufferInv, ForwarderInv, EventsOf
  <2>11. QED
    BY <2>9, <2>10 DEF ReorderInv
<1>4. QED
  BY <1>2, <1>3 DEF Compact

\* Nothing is disposed of.
LEMMA DisposeNone ==
  ASSUME TypeOK, UNCHANGED <<orderings, nextSeq, expected, buf>>
  PROVE  DisposeOrderings({})
BY DEF DisposeOrderings, TypeOK, OrderingTypes

\* The orderings that a release disposes of are not referred to.
LEMMA ReleaseDisposes ==
  ASSUME NEW R \in SUBSET Orderings, NEW st, ReleaseOrderings(R, st)
  PROVE  \E D \in SUBSET Orderings :
           /\ DisposeOrderings(D)
           /\ \A o \in D : expected[o] = nextSeq[o]
           /\ \A e \in Events : OrderingOf[e] \in D => st[e] # "queued"
<1> DEFINE D == {o \in R : Disposable(o, expected[o], st, 0)}
<1>1. D \in SUBSET Orderings /\ DisposeOrderings(D)
  BY DEF ReleaseOrderings
<1>2. \A o \in D : expected[o] = nextSeq[o] /\ Total(st, o) = 0
  BY DEF Disposable
<1>3. \A e \in Events : OrderingOf[e] \in D => st[e] # "queued"
  BY <1>2, NothingQueued
<1>4. QED
  BY <1>1, <1>2, <1>3

\* An iteration begins or ends: postponed orderings are released.
LEMMA ReorderRelease ==
  ASSUME TypeOK, ReorderInv, TypeOK',
         UNCHANGED <<evVars, fwdVars, queue>>,
         ReleaseOrderings(releasable, status)
  PROVE  ReorderInv'
<1> USE DEF evVars, fwdVars
<1>1. PICK D \in SUBSET Orderings :
             /\ DisposeOrderings(D)
             /\ \A o \in D : expected[o] = nextSeq[o]
             /\ \A e \in Events : OrderingOf[e] \in D => status[e] # "queued"
  BY ReleaseDisposes DEF TypeOK, QueueTypes
<1>2. QueueTypes'
  BY DEF TypeOK
<1>3. \A e \in Events : evIter'[e] # None => status'[e] = "queued"
  BY DEF ReorderInv, QueueInv
<1>4. QED
  BY <1>1, <1>2, <1>3, ReorderDispose

\* SendEvents returns: the events it read are finished.
LEMMA ReorderSendReturn ==
  ASSUME TypeOK, ReorderInv, TypeOK', NEW i \in Iterators, SendReturn(i)
  PROVE  ReorderInv'
<1> USE DataAssumption, NilAssumption
<1> DEFINE mine == {e \in Events : evIter[e] = i}
<1> DEFINE st == [e \in Events |-> IF e \in mine THEN "sent" ELSE status[e]]
<1> DEFINE rel == releasable \cup {OrderingOf[e] : e \in mine}
<1>1. /\ status' = st
      /\ evIter' = [e \in Events |-> IF e \in mine THEN None ELSE evIter[e]]
      /\ queue' = [k \in DOMAIN queue |->
                     IF queue[k] \in mine THEN None ELSE queue[k]]
      /\ UNCHANGED <<sequence, fwd, last, lock>>
      /\ \/ ReleaseOrderings(rel, st)
         \/ UNCHANGED <<orderings, nextSeq, expected, buf>>
  BY DEF SendReturn, ordVars
<1>2. \A e \in mine : status[e] = "queued"
  BY DEF ReorderInv, QueueInv
<1>3. rel \in SUBSET Orderings
  BY DEF TypeOK, QueueTypes
<1>4. PICK D \in SUBSET Orderings :
             /\ DisposeOrderings(D)
             /\ \A o \in D : expected[o] = nextSeq[o]
             /\ \A e \in Events : OrderingOf[e] \in D => st[e] # "queued"
  <2>1. CASE ReleaseOrderings(rel, st)
    BY <1>3, <2>1, ReleaseDisposes
  <2>2. CASE UNCHANGED <<orderings, nextSeq, expected, buf>>
    <3>1. DisposeOrderings({})
      BY <2>2, DisposeNone
    <3>2. QED
      BY <3>1
  <2>3. QED
    BY <1>1, <2>1, <2>2
<1>5. QueueTypes'
  BY DEF TypeOK
<1>6. \A e \in Events : \/ status'[e] = status[e]
                        \/ status[e] = "queued" /\ status'[e] \in Final
  BY <1>1, <1>2 DEF Final
<1>7. \A e \in Events : OrderingOf[e] \in D => status'[e] # "queued"
  BY <1>1, <1>4
<1>8. DOMAIN queue' = DOMAIN queue
  BY <1>1
<1>9. \A k \in DOMAIN queue :
        \/ /\ queue'[k] = queue[k]
           /\ queue[k] # None => status'[queue[k]] = status[queue[k]]
        \/ /\ queue'[k] = None
           /\ queue[k] # None => status'[queue[k]] # "queued"
  <2>1. SUFFICES ASSUME NEW k \in DOMAIN queue
                 PROVE  \/ /\ queue'[k] = queue[k]
                           /\ queue[k] # None => status'[queue[k]] = status[queue[k]]
                        \/ /\ queue'[k] = None
                           /\ queue[k] # None => status'[queue[k]] # "queued"
    OBVIOUS
  <2>2. CASE queue[k] \in mine
    BY <1>1, <2>2
  <2>3. CASE queue[k] \notin mine
    <3>1. queue'[k] = queue[k]
      BY <1>1, <2>3
    <3>2. queue[k] # None => queue[k] \in Events
      BY QueueElement
    <3>3. QED
      BY <1>1, <2>3, <3>1, <3>2
  <2>4. QED
    BY <2>2, <2>3
<1>10. \A e \in Events : evIter'[e] # None => status'[e] = "queued"
  BY <1>1 DEF ReorderInv, QueueInv
<1>11. QED
  BY <1>1, <1>4, <1>5, <1>6, <1>7, <1>8, <1>9, <1>10, ReorderDispose

\* The connector discards an event.
LEMMA ReorderDiscard ==
  ASSUME TypeOK, ReorderInv, TypeOK', NEW i \in Iterators, Discard(i)
  PROVE  ReorderInv'
<1> USE DataAssumption, NilAssumption
<1>1. PICK k \in DOMAIN queue : LastRead(i, k) /\ DiscardAt(i, k)
  BY DEF Discard
<1> DEFINE e == queue[k]
<1> DEFINE o == OrderingOf[e]
<1> DEFINE st == [status EXCEPT ![e] = "rejected"]
<1>2. /\ queue' = [queue EXCEPT ![k] = None]
      /\ status' = st
      /\ evIter' = [evIter EXCEPT ![e] = None]
      /\ UNCHANGED <<sequence, fwd, last, lock>>
      /\ \/ /\ Disposable(o, expected[o], st, consumed[o] - 1)
            /\ DisposeOrderings({o})
         \/ UNCHANGED <<orderings, nextSeq, expected, buf>>
  BY <1>1 DEF DiscardAt
<1>3. /\ e # None /\ e \in Events /\ o \in Orderings
      /\ status \in [Events -> Statuses]
      /\ evIter \in [Events -> Iterators \cup {None}]
  BY <1>1, QueueElement DEF LastRead, TypeOK, EventTypes
<1>4. status[e] = "queued"
  BY <1>3 DEF ReorderInv, QueueInv
<1>5. PICK D \in SUBSET Orderings :
             /\ DisposeOrderings(D)
             /\ \A q \in D : expected[q] = nextSeq[q]
             /\ \A f \in Events : OrderingOf[f] \in D => st[f] # "queued"
  <2>1. CASE /\ Disposable(o, expected[o], st, consumed[o] - 1)
             /\ DisposeOrderings({o})
    <3>1. expected[o] = nextSeq[o] /\ Total(st, o) = 0
      BY <2>1 DEF Disposable
    <3>2. \A f \in Events : OrderingOf[f] = o => st[f] # "queued"
      BY <3>1, NothingQueued
    <3>3. {o} \in SUBSET Orderings
      BY <1>3
    <3>4. QED
      BY <2>1, <3>1, <3>2, <3>3
  <2>2. CASE UNCHANGED <<orderings, nextSeq, expected, buf>>
    <3>1. DisposeOrderings({})
      BY <2>2, DisposeNone
    <3>2. QED
      BY <3>1
  <2>3. QED
    BY <1>2, <2>1, <2>2
<1>6. QueueTypes'
  BY DEF TypeOK
<1>7. /\ \A f \in Events \ {e} : status'[f] = status[f]
      /\ status'[e] = "rejected"
  BY <1>2, <1>3
<1>8. \A f \in Events : \/ status'[f] = status[f]
                        \/ status[f] = "queued" /\ status'[f] \in Final
  BY <1>4, <1>7 DEF Final
<1>9. \A f \in Events : OrderingOf[f] \in D => status'[f] # "queued"
  BY <1>2, <1>5
<1>10. DOMAIN queue' = DOMAIN queue
  BY <1>2
<1>11. \A j \in DOMAIN queue :
        \/ /\ queue'[j] = queue[j]
           /\ queue[j] # None => status'[queue[j]] = status[queue[j]]
        \/ /\ queue'[j] = None
           /\ queue[j] # None => status'[queue[j]] # "queued"
  <2>1. SUFFICES ASSUME NEW j \in DOMAIN queue
                 PROVE  \/ /\ queue'[j] = queue[j]
                           /\ queue[j] # None => status'[queue[j]] = status[queue[j]]
                        \/ /\ queue'[j] = None
                           /\ queue[j] # None => status'[queue[j]] # "queued"
    OBVIOUS
  <2>2. CASE j = k
    BY <1>2, <1>7, <2>2
  <2>3. CASE j # k
    <3>1. queue'[j] = queue[j]
      BY <1>2, <2>3
    <3>2. queue[j] # None => queue[j] \in Events /\ queue[j] # e
      <4>1. SUFFICES ASSUME queue[j] # None
                     PROVE  queue[j] \in Events /\ queue[j] # e
        OBVIOUS
      <4>2. queue[j] \in Events /\ j \in Nat /\ k \in Nat
        BY <1>3, <4>1, QueueElement
      <4>3. j < k \/ k < j
        BY <2>3, <4>2
      <4>4. QED
        BY <1>3, <4>1, <4>2, <4>3 DEF ReorderInv, QueueInv
    <3>3. QED
      BY <1>7, <3>1, <3>2
  <2>4. QED
    BY <2>2, <2>3
<1>12. \A f \in Events : evIter'[f] # None => status'[f] = "queued"
  <2>1. \A f \in Events : evIter'[f] # None => f # e /\ evIter[f] # None
    BY <1>2, <1>3
  <2>2. QED
    BY <1>7, <2>1 DEF ReorderInv, QueueInv
<1>13. QED
  BY <1>2, <1>5, <1>6, <1>8, <1>9, <1>10, <1>11, <1>12, ReorderDispose

\* Reading takes queued events only.
LEMMA ReadTakesQueued ==
  ASSUME TypeOK, ReorderInv, NEW i \in Iterators, NEW fields,
         \/ \E k \in DOMAIN queue : FirstCandidate(i, k) /\ Consume(i, k, fields)
         \/ evIter' = evIter
  PROVE  \A e \in Events : evIter'[e] # None => status[e] = "queued"
<1>1. \A e \in Events : evIter[e] # None => status[e] = "queued"
  BY DEF ReorderInv, QueueInv
<1>2. CASE \E k \in DOMAIN queue : FirstCandidate(i, k) /\ Consume(i, k, fields)
  <2>1. PICK k \in DOMAIN queue : FirstCandidate(i, k) /\ Consume(i, k, fields)
    BY <1>2
  <2>2. queue[k] # None /\ evIter' = [evIter EXCEPT ![queue[k]] = i]
    BY <2>1 DEF FirstCandidate, Candidates, Consume
  <2>3. queue[k] \in Events /\ status[queue[k]] = "queued"
    BY <2>2, QueueElement DEF ReorderInv, QueueInv
  <2>4. evIter \in [Events -> Iterators \cup {None}]
    BY DEF TypeOK, EventTypes
  <2>5. QED
    BY <1>1, <2>2, <2>3, <2>4
<1>3. CASE evIter' = evIter
  BY <1>1, <1>3
<1>4. QED
  BY <1>2, <1>3

\* Every step keeps ReorderInv.
LEMMA ReorderStep ==
  ASSUME TypeOK, ReorderInv, TypeOK', [Next]_vars
  PROVE  ReorderInv'
<1> USE DataAssumption, NilAssumption
<1> USE DEF evVars, ordVars, fwdVars, iterVars
<1>1. \A e \in Events : evIter[e] # None => status[e] = "queued"
  BY DEF ReorderInv, QueueInv
<1>2. lock # None => fwd[lock] # None
  BY DEF ReorderInv, ForwarderInv
<1>3. CASE UNCHANGED vars
  BY <1>1, <1>2, <1>3, ReorderFrame DEF vars
<1>4. ASSUME NEW e \in Events, CreateEvent(e)
      PROVE  ReorderInv'
  BY <1>4, ReorderCreate
<1>5. ASSUME NEW e \in Events, NEW drop \in BOOLEAN, ProcessEvent(e, drop)
      PROVE  ReorderInv'
  BY <1>5, ReorderBuffer, ReorderStart DEF ProcessEvent
<1>6. ASSUME NEW o \in Orderings, ForwardWait(o)
      PROVE  ReorderInv'
  BY <1>1, <1>6, ReorderFrame DEF ForwardWait
<1>7. ASSUME NEW o \in Orderings, ForwardAbort(o)
      PROVE  ReorderInv'
  BY <1>7, ReorderAbort
<1>8. ASSUME NEW o \in Orderings, Forward(o)
      PROVE  ReorderInv'
  BY <1>8, ReorderForward
<1>9. ASSUME NEW o \in Orderings, Wake(o)
      PROVE  ReorderInv'
  BY <1>1, <1>9, ReorderFrame DEF Wake
<1>10. ASSUME NEW i \in Iterators, NEW pause \in BOOLEAN, LoopTick(i, pause)
       PROVE  ReorderInv'
  BY <1>10, ReorderRelease DEF LoopTick
<1>11. ASSUME NEW i \in Iterators, NEW same \in BOOLEAN, StartIteration(i, same)
       PROVE  ReorderInv'
  <2>1. \A e \in Events : evIter'[e] # None => status[e] = "queued"
    BY <1>11, ReadTakesQueued DEF StartIteration, ReadNext, ReadNothing
  <2>2. QED
    BY <1>2, <1>11, <2>1, ReorderFrame DEF StartIteration
<1>12. ASSUME NEW i \in Iterators, NextEvent(i)
       PROVE  ReorderInv'
  <2>1. \A e \in Events : evIter'[e] # None => status[e] = "queued"
    BY <1>12, ReadTakesQueued DEF NextEvent, ReadNext, ReadNothing
  <2>2. QED
    BY <1>2, <1>12, <2>1, ReorderFrame DEF NextEvent
<1>13. ASSUME NEW i \in Iterators, BreakIteration(i)
       PROVE  ReorderInv'
  BY <1>1, <1>2, <1>13, ReorderFrame DEF BreakIteration
<1>14. ASSUME NEW i \in Iterators, First(i)
       PROVE  ReorderInv'
  <2>1. \A e \in Events : evIter'[e] # None => status[e] = "queued"
    BY <1>14, ReadTakesQueued DEF First
  <2>2. QED
    BY <1>2, <1>14, <2>1, ReorderFrame DEF First
<1>15. ASSUME NEW i \in Iterators, Peek(i)
       PROVE  ReorderInv'
  BY <1>1, <1>2, <1>15, ReorderFrame DEF Peek
<1>16. ASSUME NEW i \in Iterators, Discard(i)
       PROVE  ReorderInv'
  BY <1>16, ReorderDiscard
<1>17. ASSUME NEW i \in Iterators, Postpone(i)
       PROVE  ReorderInv'
  <2>1. PICK k \in DOMAIN queue : LastRead(i, k) /\ PostponeAt(i, k)
    BY <1>17 DEF Postpone
  <2>2. evIter' = [evIter EXCEPT ![queue[k]] = None]
    BY <2>1 DEF PostponeAt
  <2>3. \A e \in Events : evIter'[e] # None => evIter[e] # None
    BY <2>2 DEF TypeOK, EventTypes
  <2>4. QED
    BY <1>1, <1>2, <2>1, <2>3, ReorderFrame DEF PostponeAt
<1>18. ASSUME NEW i \in Iterators, EndIteration(i)
       PROVE  ReorderInv'
  BY <1>18, ReorderRelease DEF EndIteration, Iterated
<1>19. ASSUME NEW i \in Iterators, ReturnUnread(i)
       PROVE  ReorderInv'
  BY <1>19, ReorderRelease DEF ReturnUnread, Iterated
<1>20. ASSUME NEW i \in Iterators, SendReturn(i)
       PROVE  ReorderInv'
  BY <1>20, ReorderSendReturn
<1>21. ASSUME NEW i \in Iterators, Compact(i)
       PROVE  ReorderInv'
  BY <1>21, ReorderCompact
<1>22. CASE TimerFires \/ LoopIdle \/ PauseEnd \/ Close \/ LoopStop \/ LoopDone
  BY <1>1, <1>2, <1>22, ReorderFrame
  DEF TimerFires, LoopIdle, PauseEnd, Close, LoopStop, LoopDone
<1>23. QED
  BY <1>3, <1>4, <1>5, <1>6, <1>7, <1>8, <1>9, <1>10, <1>11, <1>12, <1>13,
     <1>14, <1>15, <1>16, <1>17, <1>18, <1>19, <1>20, <1>21, <1>22 DEF Next

-----------------------------------------------------------------------------
(* The theorems.                                                           *)

\* The initial state.
LEMMA InitInv ==
  ASSUME Init
  PROVE  TypeOK /\ ReorderInv
<1> USE DataAssumption, NilAssumption
<1>1. EventTypes /\ OrderingTypes /\ ForwarderTypes
  BY DEF Init, EventTypes, OrderingTypes, ForwarderTypes, Statuses
<1>2. IterTypes /\ QueueTypes
  <2>1. NoIteration \in Iteration
    BY DEF NoIteration, Iteration
  <2>2. it = NoIteration /\ cur = None /\ phase = [i \in Iterators |-> "free"]
    BY DEF Init
  <2>3. IterTypes
    BY <2>1, <2>2 DEF IterTypes, Phases
  <2>4. QueueTypes
    <3>1. queue \in Seq(Events \cup {None}) /\ available \in Int
      BY DEF Init
    <3>2. releasable \subseteq Orderings
      BY Zenon DEF Init
    <3>3. schedule \in BOOLEAN /\ closed \in BOOLEAN
      BY Zenon DEF Init
    <3>4. loop \in {"select", "pause", "drain", "done"}
      BY Zenon DEF Init
    <3>5. QED
      BY <3>1, <3>2, <3>3, <3>4, Zenon DEF QueueTypes
  <2>5. QED
    BY <2>3, <2>4
<1>3. SequenceInv /\ BufferInv
  BY DEF Init, SequenceInv, BufferInv, Waiting
<1>4. ForwarderInv /\ QueueInv
  BY DEF Init, ForwarderInv, QueueInv, Waiting
<1>5. QED
  BY <1>1, <1>2, <1>3, <1>4 DEF TypeOK, ReorderInv

\* Both are invariants of the sender.
THEOREM Invariance == Spec => [](TypeOK /\ ReorderInv)
<1>1. Init => TypeOK /\ ReorderInv
  BY InitInv
<1>2. TypeOK /\ ReorderInv /\ [Next]_vars => TypeOK' /\ ReorderInv'
  BY TypeStep, ReorderStep
<1>3. QED
  BY <1>1, <1>2, PTL DEF Spec

\* TypeOK is an invariant: the goroutines that share the sender's queue, read
\* index and buffers never leave a nil event or an index out of range.
THEOREM TypeCorrect == Spec => []TypeOK
BY Invariance, PTL

\* QueueInOrder is an invariant: whatever the order in which events are
\* processed, each one is in the queue at most once, and the events of an
\* ordering are there in creation order with none missing.
THEOREM QueueOrdered == Spec => []QueueInOrder
<1>1. TypeOK /\ ReorderInv => QueueInOrder
  <2>1. SUFFICES ASSUME TypeOK, ReorderInv PROVE QueueInOrder
    OBVIOUS
  <2>2. \A k \in DOMAIN queue : queue[k] # None => queue[k] \in Events
    BY <2>1, QueueElement
  <2>3. \A e \in Events :
          status[e] = "queued" <=> \E k \in DOMAIN queue : queue[k] = e
    BY <2>1, NilAssumption DEF ReorderInv, QueueInv
  <2>4. \A j, k \in DOMAIN queue :
          j < k /\ queue[j] # None /\ queue[k] # None
            => queue[j] # queue[k] /\ ~Before(queue[k], queue[j])
    <3>1. SUFFICES ASSUME NEW j \in DOMAIN queue, NEW k \in DOMAIN queue,
                          j < k, queue[j] # None, queue[k] # None
                   PROVE  queue[j] # queue[k] /\ ~Before(queue[k], queue[j])
      OBVIOUS
    <3>2. /\ queue[j] # queue[k]
          /\ OrderingOf[queue[j]] = OrderingOf[queue[k]]
               => sequence[queue[j]] < sequence[queue[k]]
      BY <2>1, <3>1 DEF ReorderInv, QueueInv
    <3>3. sequence[queue[j]] \in Nat /\ sequence[queue[k]] \in Nat
      BY <2>1, <2>2, <3>1 DEF TypeOK, EventTypes
    <3>4. QED
      BY <3>2, <3>3 DEF Before
  <2>5. \A e, f \in Events :
          Before(e, f) /\ status[e] \in Pending /\ status[f] = "queued"
            => status[e] = "queued"
    <3>1. SUFFICES ASSUME NEW e \in Events, NEW f \in Events, Before(e, f),
                          status[e] \in Waiting, status[f] = "queued"
                   PROVE  FALSE
      BY DEF Pending, Waiting
    <3>2. sequence[f] < sequence[e]
      BY <2>1, <3>1 DEF ReorderInv, QueueInv, Before
    <3>3. sequence[e] \in Nat /\ sequence[f] \in Nat
      BY <2>1 DEF TypeOK, EventTypes
    <3>4. QED
      BY <3>1, <3>2, <3>3 DEF Before
  <2>6. QED
    BY <2>3, <2>4, <2>5 DEF QueueInOrder
<1>2. QED
  BY <1>1, Invariance, PTL

-----------------------------------------------------------------------------
(***************************************************************************)
(* Part two: what the iterators do with the queue.                         *)
(***************************************************************************)

\* The phases of the current iterator, and those in which it may read.
Reading == {"paused", "ready", "yielded", "ending"}
MayRead == {"ready", "yielded"}

\* There is one iterator that reads, the current one.
CurrentInv ==
  /\ \A i \in Iterators : phase[i] \in Reading <=> cur = i
  /\ loop = "pause" => cur # None /\ phase[cur] = "paused"
  /\ cur = None => it = NoIteration
  /\ cur # None /\ phase[cur] \in {"paused", "ready"} =>
       ~it.sameUser /\ it.mark = "none"
  /\ cur # None /\ phase[cur] = "paused" => it.index = 1

\* The ordering of an event that is in flight is held by the iterator that has
\* the event, or barred, and a releasable one has no event in flight and is not
\* held by the current iterator.
HoldInv ==
  /\ \A e \in Events : evIter[e] # None =>
       /\ ordIter[OrderingOf[e]] \in {evIter[e], Marker}
       /\ phase[evIter[e]] \in {"yielded", "ending", "done"}
  /\ ExclusiveInFlight
  /\ \A o \in Orderings \ releasable : consumed[o] = Cardinality(Taken(o))
  /\ \A o \in releasable : Taken(o) = {} /\ ordIter[o] \notin {None, cur}

\* The current iterator counts the events it has read, which are all before its
\* read index.
Mine == {e \in Events : evIter[e] = cur}
MineInv ==
  /\ it.index <= Len(queue) + 1
  /\ cur # None =>
       /\ it.numConsumed = Cardinality(Mine)
       /\ \A k \in DOMAIN queue :
            queue[k] # None /\ evIter[queue[k]] = cur => k < it.index

\* With SameUser they are of the selected user.
UserInv ==
  /\ it.user # None => it.sameUser
  /\ it.sameUser /\ cur # None => \A e \in Mine : UserOf[OrderingOf[e]] = it.user

\* The current iterator holds the ordering of the event it has just read.
LastInv ==
  cur # None /\ phase[cur] = "yielded" /\ it.mark = "none" =>
    \A k \in DOMAIN queue : LastRead(cur, k) => ordIter[OrderingOf[queue[k]]] = cur

\* A user was selected because an event of it was read or is the next one.
PeekInv ==
  /\ cur # None /\ phase[cur] \in MayRead
  /\ it.user # None /\ it.mark # "postponed"
  => Mine # {} \/ it.index \in Candidates(cur)

\* An event that was passed over, at k, is of an ordering that was held then and
\* is still held, or of another user than the selected one.
PassedFor(k) ==
  LET o == OrderingOf[queue[k]] IN
  \/ ordIter[o] \notin {None, cur}
  \/ /\ it.user # None /\ UserOf[o] # it.user
     /\ \E j \in DOMAIN queue : j < k /\ queue[j] # None /\ evIter[queue[j]] = cur
  \/ it.mark = "postponed" /\ it.sameUser
PassInv ==
  cur # None /\ phase[cur] \in MayRead =>
    \A k \in DOMAIN queue :
      k < it.index /\ queue[k] # None /\ evIter[queue[k]] = None => PassedFor(k)

\* In an ordering, an event that is in flight has no unread event before it in
\* the queue. With ReorderInv it says what TakenInOrder says.
FlightInv ==
  \A e, f \in Events :
    Before(e, f) /\ status[e] = "queued" /\ evIter[f] # None => evIter[e] = evIter[f]

\* The inductive invariant, with TypeOK and ReorderInv.
DeliveryInv ==
  /\ CurrentInv /\ HoldInv /\ MineInv /\ UserInv /\ LastInv /\ PeekInv /\ PassInv
  /\ FlightInv

-----------------------------------------------------------------------------
(* Facts about the state.                                                  *)

\* The types that the proofs use most.
LEMMA Types ==
  ASSUME TypeOK
  PROVE  /\ queue \in Seq(Events \cup {None}) /\ Len(queue) \in Nat
         /\ DOMAIN queue = 1 .. Len(queue)
         /\ \A k \in DOMAIN queue : queue[k] \in Events \cup {None}
         /\ evIter \in [Events -> Iterators \cup {None}]
         /\ ordIter \in [Orderings -> Iterators \cup {Marker, None}]
         /\ consumed \in [Orderings -> Int] /\ releasable \subseteq Orderings
         /\ status \in [Events -> Statuses] /\ sequence \in [Events -> Nat]
         /\ cur \in Iterators \cup {None} /\ phase \in [Iterators -> Phases]
         /\ it \in Iteration /\ it.index \in Nat \ {0} /\ it.numConsumed \in Int
         /\ it.user \in Users \cup {None} /\ it.sameUser \in BOOLEAN
         /\ it.mark \in {"none", "postponed", "discarded"}
<1>1. /\ queue \in Seq(Events \cup {None}) /\ it \in Iteration
      /\ evIter \in [Events -> Iterators \cup {None}]
      /\ ordIter \in [Orderings -> Iterators \cup {Marker, None}]
      /\ consumed \in [Orderings -> Int] /\ releasable \subseteq Orderings
      /\ status \in [Events -> Statuses] /\ sequence \in [Events -> Nat]
      /\ cur \in Iterators \cup {None} /\ phase \in [Iterators -> Phases]
  BY DEF TypeOK, EventTypes, OrderingTypes, IterTypes, QueueTypes
<1>2. /\ Len(queue) \in Nat /\ DOMAIN queue = 1 .. Len(queue)
      /\ \A k \in DOMAIN queue : queue[k] \in Events \cup {None}
  BY <1>1
<1>3. /\ it.index \in Nat \ {0} /\ it.numConsumed \in Int
      /\ it.user \in Users \cup {None} /\ it.sameUser \in BOOLEAN
      /\ it.mark \in {"none", "postponed", "discarded"}
  BY <1>1 DEF Iteration
<1>4. QED
  BY <1>1, <1>2, <1>3

\* An event of the queue is queued, in one place.
LEMMA Position ==
  ASSUME TypeOK, ReorderInv, NEW k \in DOMAIN queue, queue[k] # None
  PROVE  /\ queue[k] \in Events /\ status[queue[k]] = "queued"
         /\ OrderingOf[queue[k]] \in Orderings
         /\ \A j \in DOMAIN queue : queue[j] = queue[k] => j = k
         /\ \A j \in DOMAIN queue :
              /\ queue[j] # None /\ OrderingOf[queue[j]] = OrderingOf[queue[k]]
              /\ sequence[queue[j]] < sequence[queue[k]]
              => j < k
<1>1. /\ queue[k] \in Events /\ OrderingOf[queue[k]] \in Orderings
      /\ DOMAIN queue \subseteq Nat
  BY Types, DataAssumption
<1>2. status[queue[k]] = "queued"
  BY DEF ReorderInv, QueueInv
<1>3. ASSUME NEW j \in DOMAIN queue, queue[j] = queue[k] PROVE j = k
  <2>1. ~(j < k) /\ ~(k < j)
    BY <1>3 DEF ReorderInv, QueueInv
  <2>2. QED
    BY <1>1, <2>1
<1>4. ASSUME NEW j \in DOMAIN queue, queue[j] # None,
             OrderingOf[queue[j]] = OrderingOf[queue[k]],
             sequence[queue[j]] < sequence[queue[k]]
      PROVE  j < k
  <2>1. sequence[queue[j]] \in Nat /\ sequence[queue[k]] \in Nat
    BY <1>1, <1>4, Types
  <2>2. ~(k < j) /\ j # k
    BY <1>4, <2>1 DEF ReorderInv, QueueInv
  <2>3. QED
    BY <1>1, <2>2
<1>5. QED
  BY <1>1, <1>2, <1>3, <1>4

\* The event and its place.
LEMMA Place ==
  ASSUME TypeOK, ReorderInv, NEW e \in Events, status[e] = "queued"
  PROVE  \E k \in DOMAIN queue : queue[k] = e /\ queue[k] # None
BY NilAssumption DEF ReorderInv, QueueInv

\* An event that is in flight is queued.
LEMMA InFlight ==
  ASSUME ReorderInv, NEW e \in Events, evIter[e] # None
  PROVE  status[e] = "queued"
BY DEF ReorderInv, QueueInv

-----------------------------------------------------------------------------
(* Steps of the loop, and of the goroutines that process events.           *)

\* Steps that leave the iterators and the queue alone.
LEMMA DeliveryFrame ==
  ASSUME DeliveryInv, UNCHANGED <<cur, it, phase, evIter, ordIter, consumed, releasable, queue>>,
         loop' = "pause" => loop = "pause", FlightInv'
  PROVE  DeliveryInv'
<1>1. CurrentInv'
  BY DEF DeliveryInv, CurrentInv
<1>2. HoldInv'
  BY DEF DeliveryInv, HoldInv, ExclusiveInFlight, Taken, EventsOf
<1>3. MineInv' /\ UserInv'
  BY DEF DeliveryInv, MineInv, UserInv, Mine
<1>4. LastInv' /\ PeekInv'
  BY DEF DeliveryInv, LastInv, PeekInv, LastRead, Candidates, Mine
<1>5. PassInv'
  BY DEF DeliveryInv, PassInv, PassedFor
<1>6. QED
  BY <1>1, <1>2, <1>3, <1>4, <1>5 DEF DeliveryInv

\* FlightInv looks at the queued events only, and an event that comes to the
\* queue is the newest of its ordering there.
LEMMA FlightKept ==
  ASSUME TypeOK, ReorderInv, ReorderInv', TypeOK', FlightInv, evIter' = evIter,
         \A e \in Events : status[e] = "queued" => sequence'[e] = sequence[e],
         \A e \in Events : status[e] = "queued" /\ evIter[e] # None => status'[e] = "queued",
         \A e \in Events : status'[e] = "queued" => status[e] \in {"queued"} \cup Waiting
                                                    /\ sequence'[e] = sequence[e]
  PROVE  FlightInv'
<1> SUFFICES ASSUME NEW e \in Events, NEW f \in Events, Before(e, f)',
                    status'[e] = "queued", evIter[f] # None
             PROVE  evIter[e] = evIter[f]
  BY DEF FlightInv
<1>1. status[f] = "queued" /\ sequence[e] \in Nat /\ sequence[f] \in Nat
  BY InFlight, Types
<1>2. Before(e, f)
  BY <1>1 DEF Before
<1>3. status[e] = "queued"
  <2>1. status[e] \in Waiting => sequence[f] < sequence[e]
    BY <1>1, <1>2 DEF ReorderInv, QueueInv, Before
  <2>2. QED
    BY <1>1, <1>2, <2>1 DEF Before
<1>4. QED
  BY <1>2, <1>3 DEF FlightInv

\* An event is appended to the queue.
LEMMA DeliveryAppend ==
  ASSUME TypeOK, DeliveryInv, NEW x \in Events, evIter[x] = None, queue' = Append(queue, x),
         UNCHANGED <<cur, it, phase, evIter, ordIter, consumed, releasable, loop>>, FlightInv'
  PROVE  DeliveryInv'
<1> DEFINE n == Len(queue)
<1>0. CurrentInv /\ HoldInv /\ MineInv /\ UserInv /\ LastInv /\ PeekInv /\ PassInv
  BY DEF DeliveryInv
<1>1. /\ n \in Nat /\ DOMAIN queue = 1 .. n /\ queue \in Seq(Events \cup {None})
      /\ it.index \in Nat \ {0} /\ it.index <= n + 1
  BY <1>0, Types DEF MineInv
<1>2. /\ Len(queue') = n + 1 /\ DOMAIN queue' = 1 .. n + 1
      /\ \A k \in DOMAIN queue : queue'[k] = queue[k] /\ k \in DOMAIN queue'
      /\ queue'[n + 1] = x
      /\ \A k \in DOMAIN queue' : k \in DOMAIN queue \/ k = n + 1
  BY <1>1, AppendProperties
<1>3. \A k \in DOMAIN queue' : k < it.index => k \in DOMAIN queue /\ queue'[k] = queue[k]
  BY <1>1, <1>2
<1>4. cur # None => evIter[x] # cur
  OBVIOUS
<1> HIDE DEF n
<1>5. CurrentInv' /\ HoldInv'
  BY <1>0 DEF CurrentInv, HoldInv, ExclusiveInFlight, Taken, EventsOf
<1>6. MineInv' /\ UserInv'
  BY <1>0, <1>1, <1>2, <1>4 DEF MineInv, UserInv, Mine
<1>7. LastInv'
  <2>1. ASSUME NEW k \in DOMAIN queue', LastRead(cur, k)'
        PROVE  k \in DOMAIN queue /\ queue'[k] = queue[k] /\ LastRead(cur, k)
    BY <1>2, <1>3, <2>1 DEF LastRead
  <2>2. QED
    BY <1>0, <2>1 DEF LastInv
<1>8. PeekInv'
  <2>1. it.index \in Candidates(cur) => it.index \in Candidates(cur)'
    BY <1>1, <1>2 DEF Candidates
  <2>2. QED
    BY <1>0, <2>1 DEF PeekInv, Mine
<1>9. PassInv'
  <2>1. ASSUME NEW k \in DOMAIN queue', k < it.index, queue'[k] # None, evIter[queue'[k]] = None,
               cur # None, phase[cur] \in MayRead
        PROVE  PassedFor(k)'
    <3>1. k \in DOMAIN queue /\ queue'[k] = queue[k] /\ PassedFor(k)
      BY <1>0, <1>3, <2>1 DEF PassInv
    <3>2. QED
      BY <1>2, <3>1 DEF PassedFor
  <2>2. QED
    BY <2>1 DEF PassInv
<1>10. QED
  BY <1>5, <1>6, <1>7, <1>8, <1>9 DEF DeliveryInv

\* The loop hands the iterator to send.
LEMMA DeliveryPauseEnd ==
  ASSUME TypeOK, DeliveryInv, FlightInv', PauseEnd
  PROVE  DeliveryInv'
<1>0. CurrentInv /\ HoldInv /\ MineInv /\ UserInv /\ LastInv /\ PeekInv /\ PassInv
  BY DEF DeliveryInv
<1>1. /\ loop = "pause" /\ loop' = "select" /\ phase' = [phase EXCEPT ![cur] = "ready"]
      /\ UNCHANGED <<cur, it, evIter, ordIter, consumed, releasable, queue>>
  BY DEF PauseEnd, evVars, ordVars
<1>2. /\ cur \in Iterators /\ cur # None /\ phase[cur] = "paused"
      /\ phase'[cur] = "ready" /\ \A i \in Iterators : i # cur => phase'[i] = phase[i]
      /\ evIter \in [Events -> Iterators \cup {None}]
  BY <1>0, <1>1, Types DEF CurrentInv
<1>3. ~it.sameUser /\ it.mark = "none" /\ it.user = None
  BY <1>0, <1>2 DEF CurrentInv, UserInv
<1>4. CurrentInv'
  BY <1>0, <1>1, <1>2, <1>3 DEF CurrentInv, Reading
<1>5. HoldInv'
  <2>1. \A e \in Events : evIter[e] # None => evIter[e] \in Iterators /\ evIter[e] # cur
    BY <1>0, <1>2 DEF HoldInv
  <2>2. QED
    BY <1>0, <1>1, <1>2, <2>1 DEF HoldInv, ExclusiveInFlight, Taken, EventsOf
<1>6. MineInv' /\ UserInv'
  BY <1>0, <1>1 DEF MineInv, UserInv, Mine
<1>7. LastInv' /\ PeekInv'
  BY <1>1, <1>2, <1>3 DEF LastInv, PeekInv
<1>8. PassInv'
  <2>1. it.index = 1 /\ DOMAIN queue \subseteq Nat \ {0}
    BY <1>0, <1>2, Types DEF CurrentInv
  <2>2. QED
    BY <1>1, <2>1 DEF PassInv
<1>9. QED
  BY <1>4, <1>5, <1>6, <1>7, <1>8 DEF DeliveryInv

\* The iteration is broken off.
LEMMA DeliveryBreak ==
  ASSUME TypeOK, DeliveryInv, FlightInv', NEW i \in Iterators, BreakIteration(i)
  PROVE  DeliveryInv'
<1>0. CurrentInv /\ HoldInv /\ MineInv /\ UserInv
  BY DEF DeliveryInv
<1>1. /\ phase[i] = "yielded" /\ phase' = [phase EXCEPT ![i] = "ending"]
      /\ UNCHANGED <<cur, it, evIter, ordIter, consumed, releasable, queue, loop>>
  BY DEF BreakIteration, evVars, ordVars
<1>2. /\ cur = i /\ i # None /\ evIter \in [Events -> Iterators \cup {None}]
      /\ phase'[i] = "ending" /\ \A j \in Iterators : j # i => phase'[j] = phase[j]
  BY <1>0, <1>1, Types, NilAssumption DEF CurrentInv, Reading
<1>3. CurrentInv'
  BY <1>0, <1>1, <1>2 DEF CurrentInv, Reading
<1>4. HoldInv'
  BY <1>0, <1>1, <1>2 DEF HoldInv, ExclusiveInFlight, Taken, EventsOf
<1>5. MineInv' /\ UserInv'
  BY <1>0, <1>1 DEF MineInv, UserInv, Mine
<1>6. LastInv' /\ PeekInv' /\ PassInv'
  BY <1>1, <1>2 DEF LastInv, PeekInv, PassInv, MayRead
<1>7. QED
  BY <1>3, <1>4, <1>5, <1>6 DEF DeliveryInv

-----------------------------------------------------------------------------
(* Reading.                                                                *)

\* The events in flight of an ordering are finitely many.
LEMMA TakenFinite ==
  ASSUME NEW o
  PROVE  /\ IsFiniteSet(Taken(o)) /\ Cardinality(Taken(o)) \in Nat
         /\ Cardinality(Taken(o)) = 0 <=> Taken(o) = {}
<1>1. Taken(o) \subseteq Events
  BY DEF Taken, EventsOf
<1>2. IsFiniteSet(Taken(o))
  BY <1>1, DataAssumption, FS_Subset
<1>3. QED
  BY <1>2, FS_CardinalityType, FS_EmptySet

\* And so are those that the current iterator has.
LEMMA MineFinite ==
  /\ IsFiniteSet(Mine) /\ Cardinality(Mine) \in Nat
  /\ Cardinality(Mine) = 0 <=> Mine = {}
<1>1. Mine \subseteq Events
  BY DEF Mine
<1>2. IsFiniteSet(Mine)
  BY <1>1, DataAssumption, FS_Subset
<1>3. QED
  BY <1>2, FS_CardinalityType, FS_EmptySet

\* What the current iterator has read is in the queue, before the read index.
LEMMA MinePlaces ==
  ASSUME TypeOK, ReorderInv, MineInv, cur # None, NEW e \in Mine
  PROVE  \E j \in DOMAIN queue :
           queue[j] = e /\ queue[j] # None /\ evIter[queue[j]] = cur /\ j < it.index
<1>1. e \in Events /\ evIter[e] = cur
  BY DEF Mine
<1>2. status[e] = "queued"
  BY <1>1, InFlight
<1>3. PICK j \in DOMAIN queue : queue[j] = e /\ queue[j] # None
  BY <1>1, <1>2, Place
<1>4. QED
  BY <1>1, <1>3 DEF MineInv

\* An event of an ordering that is free, or held by the current iterator, and
\* of the selected user has not been passed over.
LEMMA NotPassed ==
  ASSUME TypeOK, ReorderInv, DeliveryInv, cur # None, phase[cur] \in MayRead,
         it.mark = "postponed" => ~it.sameUser,
         NEW k, FirstCandidate(cur, k), NEW j \in DOMAIN queue, j < k, queue[j] # None,
         OrderingOf[queue[j]] = OrderingOf[queue[k]]
  PROVE  evIter[queue[j]] # None
<1>1. /\ k \in it.index .. Len(queue) /\ ordIter[OrderingOf[queue[k]]] \in {None, cur}
      /\ it.user # None => UserOf[OrderingOf[queue[k]]] = it.user
      /\ \A x \in Candidates(cur) : k <= x
  BY DEF FirstCandidate, Candidates
<1>2. j \in Nat /\ it.index \in Nat /\ Len(queue) \in Nat /\ j <= Len(queue) /\ k \in Nat
  BY <1>1, Types
<1>3. SUFFICES ASSUME evIter[queue[j]] = None PROVE FALSE
  OBVIOUS
<1>4. CASE j < it.index
  <2>1. PassedFor(j)
    BY <1>3, <1>4 DEF DeliveryInv, PassInv
  <2>2. QED
    BY <1>1, <2>1 DEF PassedFor
<1>5. CASE ~(j < it.index)
  <2>1. j \in Candidates(cur)
    BY <1>1, <1>2, <1>3, <1>5 DEF Candidates
  <2>2. QED
    BY <1>1, <1>2, <2>1
<1>6. QED
  BY <1>4, <1>5

\* What is taken of an ordering from which the current iterator may read is
\* with the current iterator.
LEMMA SharedNever ==
  ASSUME TypeOK, DeliveryInv, cur # None, NEW o \in Orderings, ordIter[o] \in {None, cur}
  PROVE  /\ \A f \in Events : OrderingOf[f] = o /\ evIter[f] # None => evIter[f] = cur
         /\ Taken(o) # {} => ordIter[o] = cur
         /\ o \notin releasable /\ consumed[o] = Cardinality(Taken(o))
<1>1. cur \in Iterators /\ cur # Marker
  BY Types, NilAssumption
<1>2. o \notin releasable /\ consumed[o] = Cardinality(Taken(o))
  BY DEF DeliveryInv, HoldInv
<1>3. \A f \in Events : OrderingOf[f] = o /\ evIter[f] # None => ordIter[o] \in {evIter[f], Marker}
  BY DEF DeliveryInv, HoldInv
<1>4. \A f \in Events : OrderingOf[f] = o /\ evIter[f] # None => evIter[f] = cur /\ ordIter[o] = cur
  BY <1>1, <1>3, NilAssumption
<1>5. QED
  BY <1>2, <1>4 DEF Taken, EventsOf

\* The event at k is read.
LEMMA DeliveryConsume ==
  ASSUME TypeOK, ReorderInv, DeliveryInv, NEW i \in Iterators, cur = i, phase[i] \in MayRead,
         NEW fields \in Iteration, fields.index = it.index, fields.numConsumed = it.numConsumed,
         fields.user = it.user,
         fields.sameUser = it.sameUser \/ (Mine = {} /\ it.user = None),
         it.mark = "postponed" => ~it.sameUser,
         NEW k \in DOMAIN queue, FirstCandidate(i, k), Consume(i, k, fields),
         NEW ph \in {"yielded", "ending"}, phase' = [phase EXCEPT ![i] = ph],
         UNCHANGED <<cur, queue, releasable, status, sequence, loop>>
  PROVE  DeliveryInv'
<1>c. PICK e : e = queue[k]
  OBVIOUS
<1>d. PICK o : o = OrderingOf[e]
  OBVIOUS
<1>0. CurrentInv /\ HoldInv /\ MineInv /\ UserInv /\ PeekInv /\ PassInv /\ FlightInv
  BY DEF DeliveryInv
<1>a. /\ DOMAIN queue = 1 .. Len(queue) /\ Len(queue) \in Nat /\ it.index \in Nat
      /\ it.numConsumed \in Int /\ it.user \in Users \cup {None}
      /\ evIter \in [Events -> Iterators \cup {None}]
      /\ ordIter \in [Orderings -> Iterators \cup {Marker, None}]
      /\ consumed \in [Orderings -> Int] /\ releasable \subseteq Orderings
      /\ phase \in [Iterators -> Phases]
  BY Types
<1>b. i # None /\ cur # None /\ i # Marker
  BY NilAssumption
<1>1. /\ e # None /\ evIter[e] = None /\ ordIter[o] \in {None, i}
      /\ it.user # None => UserOf[o] = it.user
      /\ it.index <= k /\ k \in Nat
      /\ \A j \in Candidates(i) : k <= j
  BY <1>a, <1>c, <1>d DEF FirstCandidate, Candidates
<1>2. /\ e \in Events /\ o \in Orderings /\ UserOf[o] \in Users /\ UserOf[o] # None
      /\ \A j \in DOMAIN queue : queue[j] = e => j = k
  BY <1>c, <1>d, <1>1, Position, DataAssumption, NilAssumption
<1>3. /\ evIter' = [evIter EXCEPT ![e] = i]
      /\ ordIter' = [ordIter EXCEPT ![o] = IF consumed[o] = 0 THEN i ELSE @]
      /\ consumed' = [consumed EXCEPT ![o] = @ + 1]
      /\ it' = [fields EXCEPT !.index = k + 1, !.numConsumed = @ + 1,
                              !.user = IF fields.sameUser THEN UserOf[o] ELSE None,
                              !.mark = "none"]
  BY <1>c, <1>d DEF Consume
<1>4. /\ it'.index = k + 1 /\ it'.numConsumed = it.numConsumed + 1 /\ it'.mark = "none"
      /\ it'.user = IF fields.sameUser THEN UserOf[o] ELSE None
      /\ it'.sameUser = fields.sameUser
  BY <1>3 DEF Iteration
<1>5. /\ \A f \in Events : OrderingOf[f] = o /\ evIter[f] # None => evIter[f] = i
      /\ Taken(o) # {} => ordIter[o] = i
      /\ o \notin releasable /\ consumed[o] = Cardinality(Taken(o))
  BY <1>b, <1>1, <1>2, SharedNever
<1>6. /\ evIter'[e] = i /\ \A f \in Events : f # e => evIter'[f] = evIter[f]
      /\ ordIter'[o] = i /\ \A p \in Orderings : p # o => ordIter'[p] = ordIter[p]
      /\ consumed'[o] = consumed[o] + 1
      /\ \A p \in Orderings : p # o => consumed'[p] = consumed[p]
      /\ phase'[i] = ph /\ \A j \in Iterators : j # i => phase'[j] = phase[j]
  <2>1. ordIter'[o] = i
    <3>1. consumed[o] # 0 => ordIter[o] = i
      BY <1>5, TakenFinite
    <3>2. QED
      BY <1>a, <1>2, <1>3, <3>1
  <2>2. QED
    BY <1>a, <1>2, <1>3, <2>1
<1>7. Mine' = Mine \cup {e} /\ e \notin Mine
  BY <1>b, <1>1, <1>2, <1>6 DEF Mine
<1>u. it.user # None => it'.user = it.user /\ fields.sameUser /\ it.sameUser
  BY <1>0, <1>1, <1>4 DEF UserInv
<1>8. CurrentInv'
  BY <1>0, <1>b, <1>6 DEF CurrentInv, Reading, MayRead
<1>9. HoldInv'
  <2>1. ASSUME NEW f \in Events, evIter'[f] # None
        PROVE  /\ ordIter'[OrderingOf[f]] \in {evIter'[f], Marker}
               /\ phase'[evIter'[f]] \in {"yielded", "ending", "done"}
    <3>1. CASE f = e
      BY <1>6, <3>1, <1>d
    <3>2. CASE f # e
      <4>1. /\ evIter'[f] = evIter[f] /\ evIter[f] \in Iterators /\ OrderingOf[f] \in Orderings
            /\ ordIter[OrderingOf[f]] \in {evIter[f], Marker}
            /\ phase[evIter[f]] \in {"yielded", "ending", "done"}
        BY <1>0, <1>a, <1>6, <2>1, <3>2, DataAssumption DEF HoldInv
      <4>2. ordIter'[OrderingOf[f]] \in {evIter[f], Marker}
        BY <1>5, <1>6, <2>1, <4>1
      <4>3. phase'[evIter[f]] \in {"yielded", "ending", "done"}
        BY <1>6, <4>1
      <4>4. QED
        BY <4>1, <4>2, <4>3
    <3>3. QED
      BY <3>1, <3>2
  <2>2. ExclusiveInFlight'
    <3>1. ASSUME NEW f \in Events, NEW g \in Events, OrderingOf[f] = OrderingOf[g],
                 evIter'[f] # None, evIter'[g] # None
          PROVE  evIter'[f] = evIter'[g]
      <4>1. CASE OrderingOf[f] = o
        BY <1>5, <1>6, <3>1, <4>1
      <4>2. CASE OrderingOf[f] # o
        <5>1. f # e /\ g # e
          BY <3>1, <4>2, <1>d
        <5>2. QED
          BY <1>0, <1>6, <3>1, <5>1 DEF HoldInv, ExclusiveInFlight
      <4>3. QED
        BY <4>1, <4>2
    <3>2. QED
      BY <3>1 DEF ExclusiveInFlight
  <2>3. Taken(o)' = Taken(o) \cup {e} /\ e \notin Taken(o)
    BY <1>b, <1>1, <1>2, <1>6, <1>d DEF Taken, EventsOf
  <2>4. Cardinality(Taken(o)') = Cardinality(Taken(o)) + 1
    BY <2>3, TakenFinite, FS_AddElement
  <2>5. ASSUME NEW p \in Orderings, p # o PROVE Taken(p)' = Taken(p)
    <3>1. \A f \in EventsOf(p) : f # e /\ evIter'[f] = evIter[f]
      BY <1>6, <2>5, <1>d DEF EventsOf
    <3>2. QED
      BY <3>1 DEF Taken, EventsOf
  <2>6. ASSUME NEW p \in Orderings \ releasable PROVE consumed'[p] = Cardinality(Taken(p)')
    <3>1. CASE p = o
      BY <1>5, <1>6, <2>4, <3>1
    <3>2. CASE p # o
      BY <1>0, <1>6, <2>5, <3>2 DEF HoldInv
    <3>3. QED
      BY <3>1, <3>2
  <2>7. \A p \in releasable : Taken(p)' = {} /\ ordIter'[p] \notin {None, cur'}
    BY <1>0, <1>a, <1>5, <1>6, <2>5 DEF HoldInv
  <2>8. QED
    BY <2>1, <2>2, <2>6, <2>7 DEF HoldInv
<1>10. MineInv'
  <2>1. Cardinality(Mine') = Cardinality(Mine) + 1
    BY <1>7, MineFinite, FS_AddElement
  <2>2. it'.numConsumed = Cardinality(Mine')
    BY <1>0, <1>b, <1>4, <2>1 DEF MineInv
  <2>3. ASSUME NEW j \in DOMAIN queue, queue[j] # None, evIter'[queue[j]] = i PROVE j < it'.index
    <3>1. CASE queue[j] = e
      BY <1>1, <1>2, <1>4, <3>1
    <3>2. CASE queue[j] # e
      <4>1. evIter[queue[j]] = i
        BY <1>6, <2>3, <3>2, Position
      <4>2. j < it.index
        BY <1>0, <1>b, <2>3, <4>1 DEF MineInv
      <4>3. QED
        BY <1>a, <1>1, <1>4, <4>2
    <3>3. QED
      BY <3>1, <3>2
  <2>4. it'.index <= Len(queue) + 1
    BY <1>a, <1>4
  <2>5. QED
    BY <2>2, <2>3, <2>4 DEF MineInv
<1>11. UserInv'
  <2>1. it'.user # None => it'.sameUser
    BY <1>4
  <2>2. ASSUME it'.sameUser, NEW f \in Mine' PROVE UserOf[OrderingOf[f]] = it'.user
    <3>1. it'.user = UserOf[o]
      BY <1>4, <2>2
    <3>2. CASE f = e
      BY <3>1, <3>2, <1>d
    <3>3. CASE f # e
      <4>1. f \in Mine /\ f \in Events
        BY <1>7, <3>3 DEF Mine
      <4>2. UserOf[OrderingOf[f]] = it.user
        BY <1>0, <1>b, <1>4, <2>2, <4>1 DEF UserInv
      <4>3. it.user # None
        BY <4>1, <4>2, DataAssumption, NilAssumption
      <4>4. QED
        BY <1>u, <4>2, <4>3
    <3>4. QED
      BY <3>2, <3>3
  <2>3. QED
    BY <2>1, <2>2 DEF UserInv
<1>12. LastInv'
  <2>1. ASSUME NEW j \in DOMAIN queue', LastRead(cur, j)' PROVE j = k
    <3>1. j < k + 1 /\ k <= j /\ j \in Nat
      BY <1>a, <1>1, <1>2, <1>4, <1>6, <2>1, <1>c DEF LastRead
    <3>2. QED
      BY <1>1, <3>1
  <2>2. QED
    BY <1>6, <2>1, <1>c, <1>d DEF LastInv
<1>13. PeekInv'
  BY <1>7 DEF PeekInv
<1>14. PassInv'
  <2>1. SUFFICES ASSUME NEW j \in DOMAIN queue, j < k + 1, queue[j] # None, evIter'[queue[j]] = None
                 PROVE  PassedFor(j)'
    BY <1>4 DEF PassInv
  <2> DEFINE p == OrderingOf[queue[j]]
  <2>2. /\ j < k /\ queue[j] # e /\ queue[j] \in Events /\ p \in Orderings
        /\ evIter[queue[j]] = None /\ j \in Nat
    <3>1. queue[j] \in Events /\ p \in Orderings /\ j \in Nat
      BY <1>a, <2>1, Position
    <3>2. queue[j] # e
      BY <1>b, <1>6, <2>1
    <3>3. j # k
      BY <3>2, <1>c
    <3>4. QED
      BY <1>1, <1>6, <2>1, <3>1, <3>2, <3>3
  <2>3. p # o
    <3>1. p = o => evIter[queue[j]] # None
      BY <1>b, <2>1, <2>2, NotPassed, <1>c, <1>d
    <3>2. QED
      BY <2>2, <3>1
  <2>4. CASE ordIter[p] \notin {None, cur}
    BY <1>6, <2>2, <2>3, <2>4 DEF PassedFor
  <2>5. CASE /\ it.user # None /\ UserOf[p] # it.user
             /\ \E x \in DOMAIN queue : x < j /\ queue[x] # None /\ evIter[queue[x]] = cur
    <3>1. PICK x \in DOMAIN queue : x < j /\ queue[x] # None /\ evIter[queue[x]] = cur
      BY <2>5
    <3>2. evIter'[queue[x]] = cur
      BY <1>6, <3>1, Position
    <3>3. QED
      BY <1>u, <2>5, <3>1, <3>2 DEF PassedFor
  <2>6. CASE j < it.index
    <3>1. PassedFor(j)
      BY <1>0, <1>b, <2>1, <2>2, <2>6 DEF PassInv
    <3>2. QED
      BY <2>4, <2>5, <3>1 DEF PassedFor
  <2>7. CASE ~(j < it.index)
    <3>1. j \notin Candidates(i)
      BY <1>1, <2>2
    <3>2. ordIter[p] \notin {None, i} \/ (it.user # None /\ UserOf[p] # it.user)
      BY <1>a, <2>1, <2>2, <2>7, <3>1 DEF Candidates
    <3>3. ASSUME it.user # None, UserOf[p] # it.user
          PROVE  \E x \in DOMAIN queue : x < j /\ queue[x] # None /\ evIter[queue[x]] = cur
      <4>1. Mine # {} \/ it.index \in Candidates(cur)
        BY <1>0, <1>b, <1>u, <3>3 DEF PeekInv
      <4>2. it.index \notin Candidates(cur)
        BY <1>a, <1>1, <2>2, <2>7
      <4>3. PICK m \in Mine : TRUE
        BY <4>1, <4>2
      <4>4. PICK x \in DOMAIN queue : queue[x] # None /\ evIter[queue[x]] = cur /\ x < it.index
        BY <1>0, <1>b, MinePlaces
      <4>5. QED
        BY <1>a, <2>2, <2>7, <4>4
    <3>4. QED
      BY <2>4, <2>5, <3>2, <3>3
  <2>8. QED
    BY <2>6, <2>7
<1>15. FlightInv'
  <2>1. SUFFICES ASSUME NEW g \in Events, NEW f \in Events, Before(g, f), status[g] = "queued",
                        evIter'[f] # None
                 PROVE  evIter'[g] = evIter'[f]
    BY DEF FlightInv, Before
  <2>2. CASE f = e
    <3>1. PICK j \in DOMAIN queue : queue[j] = g /\ queue[j] # None
      BY <2>1, Place
    <3>2. OrderingOf[g] = o /\ g # e /\ sequence[g] < sequence[e]
      BY <2>1, <2>2, <1>2, Types, <1>d DEF Before
    <3>3. j < k
      BY <1>1, <3>1, <3>2, Position, <1>c, <1>d
    <3>4. evIter[g] # None
      BY <1>b, <3>1, <3>2, <3>3, NotPassed, <1>c, <1>d
    <3>5. QED
      BY <1>5, <1>6, <2>2, <3>2, <3>4
  <2>3. CASE f # e
    <3>1. evIter[g] = evIter[f] /\ evIter[f] # None
      BY <1>0, <1>6, <2>1, <2>3 DEF FlightInv
    <3>2. g # e
      BY <1>1, <3>1
    <3>3. QED
      BY <1>6, <2>3, <3>1, <3>2
  <2>4. QED
    BY <2>2, <2>3
<1>16. QED
  BY <1>8, <1>9, <1>10, <1>11, <1>12, <1>13, <1>14, <1>15 DEF DeliveryInv

\* There is nothing to read.
LEMMA DeliveryReadNothing ==
  ASSUME TypeOK, DeliveryInv, NEW i \in Iterators, cur = i, phase[i] \in MayRead,
         NEW fields \in Iteration, fields.numConsumed = it.numConsumed, fields.user = it.user,
         fields.sameUser = it.sameUser \/ (Mine = {} /\ it.user = None),
         ReadNothing(fields), phase' = [phase EXCEPT ![i] = "ending"],
         UNCHANGED <<cur, queue, releasable, status, sequence, loop>>
  PROVE  DeliveryInv'
<1>0. CurrentInv /\ HoldInv /\ MineInv /\ UserInv /\ FlightInv
  BY DEF DeliveryInv
<1>1. /\ it' = [fields EXCEPT !.index = Len(queue) + 1]
      /\ UNCHANGED <<evIter, ordIter, consumed>>
  BY DEF ReadNothing
<1>2. /\ it'.index = Len(queue) + 1 /\ it'.numConsumed = it.numConsumed
      /\ it'.user = it.user /\ it'.sameUser = fields.sameUser
  BY <1>1 DEF Iteration
<1>3. /\ DOMAIN queue = 1 .. Len(queue) /\ Len(queue) \in Nat
      /\ evIter \in [Events -> Iterators \cup {None}]
      /\ phase'[i] = "ending" /\ \A j \in Iterators : j # i => phase'[j] = phase[j]
      /\ i # None
  BY Types, NilAssumption
<1>4. CurrentInv'
  BY <1>0, <1>3 DEF CurrentInv, Reading, MayRead
<1>5. HoldInv'
  BY <1>0, <1>1, <1>3 DEF HoldInv, ExclusiveInFlight, Taken, EventsOf
<1>6. MineInv'
  BY <1>0, <1>1, <1>2, <1>3 DEF MineInv, Mine
<1>7. UserInv'
  BY <1>0, <1>1, <1>2 DEF UserInv, Mine
<1>8. LastInv' /\ PeekInv' /\ PassInv'
  BY <1>3 DEF LastInv, PeekInv, PassInv, MayRead
<1>9. FlightInv'
  BY <1>0, <1>1 DEF FlightInv, Before
<1>10. QED
  BY <1>4, <1>5, <1>6, <1>7, <1>8, <1>9 DEF DeliveryInv

\* The events are read one by one.
LEMMA DeliveryRead ==
  ASSUME TypeOK, ReorderInv, DeliveryInv, NEW i \in Iterators,
         \/ \E same \in BOOLEAN : StartIteration(i, same)
         \/ NextEvent(i) \/ First(i)
  PROVE  DeliveryInv'
<1>0. CurrentInv /\ HoldInv /\ UserInv /\ it \in Iteration
  BY Types DEF DeliveryInv
<1>1. phase[i] \in MayRead => cur = i
  BY <1>0 DEF CurrentInv, Reading, MayRead
<1>2. phase[i] = "ready" => Mine = {} /\ it.user = None /\ it.mark = "none"
  BY <1>0, <1>1, NilAssumption DEF MayRead, HoldInv, Mine, CurrentInv, UserInv
<1>3. ASSUME NEW fields \in Iteration, fields.index = it.index,
             fields.numConsumed = it.numConsumed, fields.user = it.user,
             fields.sameUser = it.sameUser \/ (Mine = {} /\ it.user = None),
             it.mark = "postponed" => ~it.sameUser, phase[i] \in MayRead,
             \/ ReadNext(i, fields)
             \/ /\ \E k \in DOMAIN queue : FirstCandidate(i, k) /\ Consume(i, k, fields)
                /\ phase' = [phase EXCEPT ![i] = "ending"],
             UNCHANGED <<cur, queue, releasable, status, sequence, loop>>
      PROVE  DeliveryInv'
  <2>1. CASE \E k \in DOMAIN queue : FirstCandidate(i, k) /\ Consume(i, k, fields)
    <3>1. PICK k \in DOMAIN queue : FirstCandidate(i, k) /\ Consume(i, k, fields)
      BY <2>1
    <3>2. PICK ph \in {"yielded", "ending"} : phase' = [phase EXCEPT ![i] = ph]
      BY <1>3 DEF ReadNext
    <3>3. QED
      BY <1>1, <1>3, <3>1, <3>2, DeliveryConsume
  <2>2. CASE ReadNothing(fields) /\ phase' = [phase EXCEPT ![i] = "ending"]
    BY <1>1, <1>3, <2>2, DeliveryReadNothing
  <2>3. QED
    BY <1>3, <2>1, <2>2 DEF ReadNext
<1>4. ASSUME NEW same \in BOOLEAN, StartIteration(i, same) PROVE DeliveryInv'
  <2> DEFINE fields == [it EXCEPT !.sameUser = same, !.first = TRUE]
  <2>1. /\ fields \in Iteration /\ fields.index = it.index
        /\ fields.numConsumed = it.numConsumed /\ fields.user = it.user
    BY <1>0 DEF Iteration
  <2>2. phase[i] = "ready" /\ ReadNext(i, fields)
    BY <1>4 DEF StartIteration
  <2>3. UNCHANGED <<cur, queue, releasable, status, sequence, loop>>
    BY <1>4 DEF StartIteration
  <2> HIDE DEF fields
  <2>4. QED
    BY <1>2, <1>3, <2>1, <2>2, <2>3 DEF MayRead
<1>5. ASSUME NextEvent(i) PROVE DeliveryInv'
  <2> DEFINE fields == [it EXCEPT !.first = FALSE]
  <2>1. /\ fields \in Iteration /\ fields.index = it.index
        /\ fields.numConsumed = it.numConsumed /\ fields.user = it.user
        /\ fields.sameUser = it.sameUser
    BY <1>0 DEF Iteration
  <2>2. phase[i] = "yielded" /\ ReadNext(i, fields) /\ (it.mark = "postponed" => ~it.sameUser)
    BY <1>5 DEF NextEvent
  <2>3. UNCHANGED <<cur, queue, releasable, status, sequence, loop>>
    BY <1>5 DEF NextEvent
  <2> HIDE DEF fields
  <2>4. QED
    BY <1>3, <2>1, <2>2, <2>3 DEF MayRead
<1>6. ASSUME First(i) PROVE DeliveryInv'
  <2>1. /\ phase[i] = "ready"
        /\ \E k \in DOMAIN queue : FirstCandidate(i, k) /\ Consume(i, k, it)
        /\ phase' = [phase EXCEPT ![i] = "ending"]
        /\ UNCHANGED <<cur, queue, releasable, status, sequence, loop>>
    BY <1>6 DEF First
  <2>2. QED
    BY <1>0, <1>2, <1>3, <2>1 DEF MayRead
<1>7. QED
  BY <1>4, <1>5, <1>6

\* The read index moves to the next event that can be read.
LEMMA DeliveryPeek ==
  ASSUME TypeOK, ReorderInv, DeliveryInv, NEW i \in Iterators, Peek(i)
  PROVE  DeliveryInv'
<1>0. CurrentInv /\ HoldInv /\ MineInv /\ UserInv /\ LastInv /\ PeekInv /\ PassInv /\ FlightInv
  BY DEF DeliveryInv
<1>a. /\ DOMAIN queue = 1 .. Len(queue) /\ Len(queue) \in Nat /\ it.index \in Nat \ {0}
      /\ it \in Iteration /\ it.user \in Users \cup {None}
      /\ evIter \in [Events -> Iterators \cup {None}]
  BY Types
<1>b. phase[i] \in MayRead /\ cur = i /\ i # None
  BY <1>0, NilAssumption DEF Peek, CurrentInv, Reading, MayRead
<1>c. UNCHANGED <<cur, phase, evIter, ordIter, consumed, releasable, queue, status, sequence, loop>>
  BY DEF Peek, evVars, ordVars
<1>1. PICK x \in it.index .. Len(queue) + 1 :
        /\ it'.index = x /\ it'.numConsumed = it.numConsumed
        /\ it'.sameUser = it.sameUser /\ it'.mark = it.mark
        /\ \A j \in Candidates(i) : x <= j
        /\ \/ it'.user = it.user
           \/ /\ it.user = None /\ it.sameUser /\ x \in Candidates(i)
              /\ it'.user = UserOf[OrderingOf[queue[x]]]
  <2>1. CASE Candidates(i) = {} /\ it' = [it EXCEPT !.index = Len(queue) + 1]
    <3>1. Len(queue) + 1 \in it.index .. Len(queue) + 1
      BY <1>0, <1>a DEF MineInv
    <3>2. /\ it'.index = Len(queue) + 1 /\ it'.numConsumed = it.numConsumed
          /\ it'.sameUser = it.sameUser /\ it'.mark = it.mark /\ it'.user = it.user
      BY <1>a, <2>1 DEF Iteration
    <3>3. QED
      BY <2>1, <3>1, <3>2
  <2>2. CASE \E k \in DOMAIN queue :
               /\ FirstCandidate(i, k)
               /\ it' = [it EXCEPT !.index = k,
                                   !.user = IF it.sameUser THEN UserOf[OrderingOf[queue[k]]]
                                            ELSE None]
    <3>1. PICK k \in DOMAIN queue :
               /\ FirstCandidate(i, k)
               /\ it' = [it EXCEPT !.index = k,
                                   !.user = IF it.sameUser THEN UserOf[OrderingOf[queue[k]]]
                                            ELSE None]
      BY <2>2
    <3>2. /\ it'.index = k /\ it'.numConsumed = it.numConsumed
          /\ it'.sameUser = it.sameUser /\ it'.mark = it.mark
          /\ it'.user = IF it.sameUser THEN UserOf[OrderingOf[queue[k]]] ELSE None
      BY <1>a, <3>1 DEF Iteration
    <3>3. /\ k \in it.index .. Len(queue) + 1 /\ k \in Candidates(i)
          /\ \A j \in Candidates(i) : k <= j
          /\ it.user # None => UserOf[OrderingOf[queue[k]]] = it.user
      BY <1>a, <3>1 DEF FirstCandidate, Candidates
    <3>4. it.user # None => it.sameUser
      BY <1>0 DEF UserInv
    <3>5. QED
      BY <3>2, <3>3, <3>4
  <2>3. QED
    BY <2>1, <2>2 DEF Peek
<1>2. x \in Nat \ {0} /\ it.index <= x /\ x <= Len(queue) + 1
  BY <1>a, <1>1
<1>3. Mine' = Mine
  BY <1>c DEF Mine
<1>4. CurrentInv'
  BY <1>0, <1>b, <1>c, <1>1 DEF CurrentInv, MayRead
<1>5. HoldInv'
  BY <1>0, <1>c DEF HoldInv, ExclusiveInFlight, Taken, EventsOf
<1>6. MineInv'
  BY <1>0, <1>a, <1>c, <1>1, <1>2, <1>3 DEF MineInv
<1>7. UserInv'
  <2>1. it'.user # None => it'.sameUser
    BY <1>0, <1>1 DEF UserInv
  <2>2. ASSUME it.sameUser, it.user = None PROVE Mine = {}
    <3>1. \A e \in Mine : UserOf[OrderingOf[e]] = None /\ e \in Events
      BY <1>0, <1>b, <2>2 DEF UserInv, Mine
    <3>2. QED
      BY <3>1, DataAssumption, NilAssumption
  <2>3. QED
    BY <1>0, <1>c, <1>1, <1>3, <2>1, <2>2 DEF UserInv
<1>8. LastInv'
  <2>1. ASSUME NEW k \in DOMAIN queue, LastRead(cur, k)' PROVE LastRead(cur, k)
    BY <1>0, <1>a, <1>b, <1>c, <1>1, <1>2, <2>1 DEF LastRead, MineInv
  <2>2. QED
    BY <1>0, <1>c, <1>1, <2>1 DEF LastInv
<1>9. PeekInv'
  <2>1. ASSUME it'.user # None, it'.mark # "postponed", Mine = {} PROVE x \in Candidates(cur)'
    <3>1. CASE it'.user = it.user
      <4>1. it.index \in Candidates(cur)
        BY <1>0, <1>b, <1>1, <2>1, <3>1 DEF PeekInv
      <4>2. x = it.index
        BY <1>a, <1>b, <1>1, <1>2, <4>1
      <4>3. QED
        BY <1>c, <1>1, <3>1, <4>1, <4>2 DEF Candidates
    <3>2. CASE it.user = None /\ it'.user = UserOf[OrderingOf[queue[x]]] /\ x \in Candidates(i)
      <4>1. x \in x .. Len(queue)
        BY <1>a, <1>2, <3>2 DEF Candidates
      <4>2. QED
        BY <1>b, <1>c, <1>1, <3>2, <4>1 DEF Candidates
    <3>3. QED
      BY <1>1, <3>1, <3>2
  <2>2. QED
    BY <1>1, <1>3, <2>1 DEF PeekInv
<1>10. PassInv'
  <2>1. SUFFICES ASSUME NEW j \in DOMAIN queue, j < x, queue[j] # None, evIter[queue[j]] = None
                 PROVE  PassedFor(j)'
    BY <1>c, <1>1 DEF PassInv
  <2> DEFINE p == OrderingOf[queue[j]]
  <2>2. CASE ordIter[p] \notin {None, cur}
    BY <1>c, <2>2 DEF PassedFor
  <2>3. CASE it.mark = "postponed" /\ it.sameUser
    BY <1>1, <2>3 DEF PassedFor
  <2>4. CASE /\ it.user # None /\ UserOf[p] # it.user
             /\ \E y \in DOMAIN queue : y < j /\ queue[y] # None /\ evIter[queue[y]] = cur
    BY <1>c, <1>1, <2>4 DEF PassedFor
  <2>5. CASE j < it.index
    <3>1. PassedFor(j)
      BY <1>0, <1>b, <2>1, <2>5 DEF PassInv
    <3>2. QED
      BY <2>2, <2>3, <2>4, <3>1 DEF PassedFor
  <2>6. CASE ~(j < it.index)
    <3>1. j \notin Candidates(i) /\ j \in it.index .. Len(queue)
      BY <1>a, <1>1, <1>2, <2>1, <2>6
    <3>2. ordIter[p] \notin {None, i} \/ (it.user # None /\ UserOf[p] # it.user)
      BY <2>1, <3>1 DEF Candidates
    <3>3. ASSUME it.user # None, UserOf[p] # it.user, ~(it.mark = "postponed" /\ it.sameUser)
          PROVE  \E y \in DOMAIN queue : y < j /\ queue[y] # None /\ evIter[queue[y]] = cur
      <4>1. it.sameUser
        BY <1>0, <3>3 DEF UserInv
      <4>2. Mine # {} \/ it.index \in Candidates(cur)
        BY <1>0, <1>b, <3>3, <4>1 DEF PeekInv
      <4>3. it.index \notin Candidates(cur)
        BY <1>a, <1>b, <1>1, <1>2, <2>1, <2>6
      <4>4. PICK m \in Mine : TRUE
        BY <4>2, <4>3
      <4>5. PICK y \in DOMAIN queue : queue[y] # None /\ evIter[queue[y]] = cur /\ y < it.index
        BY <1>0, <1>b, MinePlaces
      <4>6. QED
        BY <1>a, <2>6, <4>5
    <3>4. QED
      BY <1>b, <2>2, <2>3, <2>4, <3>2, <3>3
  <2>7. QED
    BY <2>5, <2>6
<1>11. FlightInv'
  BY <1>0, <1>c DEF FlightInv, Before
<1>12. QED
  BY <1>4, <1>5, <1>6, <1>7, <1>8, <1>9, <1>10, <1>11 DEF DeliveryInv

-----------------------------------------------------------------------------
(* The event read last is given back.                                      *)

\* The event read last is the last one of the iterator in the queue.
LEMMA ReadLast ==
  ASSUME TypeOK, ReorderInv, DeliveryInv, NEW i \in Iterators, phase[i] = "yielded",
         NEW k \in DOMAIN queue, LastRead(i, k)
  PROVE  /\ cur = i /\ i # None /\ k \in Nat /\ k < it.index
         /\ queue[k] # None /\ queue[k] \in Events /\ evIter[queue[k]] = i
         /\ OrderingOf[queue[k]] \in Orderings /\ OrderingOf[queue[k]] \notin releasable
         /\ \A j \in DOMAIN queue : queue[j] = queue[k] => j = k
         /\ \A j \in DOMAIN queue : queue[j] # None /\ evIter[queue[j]] = i => j <= k
<1>1. cur = i /\ i # None
  BY NilAssumption DEF DeliveryInv, CurrentInv, Reading
<1>2. /\ k < it.index /\ queue[k] # None /\ evIter[queue[k]] = i
      /\ \A j \in DOMAIN queue :
           j < it.index /\ queue[j] # None /\ evIter[queue[j]] = i => j <= k
  BY DEF LastRead
<1>3. /\ queue[k] \in Events /\ OrderingOf[queue[k]] \in Orderings /\ k \in Nat
      /\ \A j \in DOMAIN queue : queue[j] = queue[k] => j = k
  BY <1>2, Position, Types
<1>4. OrderingOf[queue[k]] \notin releasable
  BY <1>1, <1>2, <1>3 DEF DeliveryInv, HoldInv, Taken, EventsOf
<1>5. \A j \in DOMAIN queue : queue[j] # None /\ evIter[queue[j]] = i => j <= k
  BY <1>1, <1>2 DEF DeliveryInv, MineInv
<1>6. QED
  BY <1>1, <1>2, <1>3, <1>4, <1>5

\* An event that was in flight is not any more.
LEMMA GivenBack ==
  ASSUME TypeOK, cur # None, NEW e \in Events, evIter[e] = cur,
         evIter' = [evIter EXCEPT ![e] = None], UNCHANGED cur, NEW o, o = OrderingOf[e]
  PROVE  /\ evIter'[e] = None /\ \A f \in Events : f # e => evIter'[f] = evIter[f]
         /\ Taken(o)' = Taken(o) \ {e} /\ e \in Taken(o)
         /\ Cardinality(Taken(o)') = Cardinality(Taken(o)) - 1
         /\ Cardinality(Taken(o)) \in Nat /\ (Cardinality(Taken(o)) = 1 <=> Taken(o)' = {})
         /\ \A p : p # o => Taken(p)' = Taken(p)
         /\ Mine' = Mine \ {e} /\ e \in Mine
         /\ Cardinality(Mine') = Cardinality(Mine) - 1
         /\ Cardinality(Mine) \in Nat /\ (Cardinality(Mine) = 1 <=> Mine' = {})
<1>1. evIter'[e] = None /\ \A f \in Events : f # e => evIter'[f] = evIter[f]
  BY Types
<1>2. Taken(o)' = Taken(o) \ {e} /\ e \in Taken(o)
  BY <1>1 DEF Taken, EventsOf
<1>3. ASSUME NEW p, p # o PROVE Taken(p)' = Taken(p)
  <2>1. \A f \in EventsOf(p) : f \in Events /\ f # e
    BY <1>3 DEF EventsOf
  <2>2. QED
    BY <1>1, <2>1 DEF Taken, EventsOf
<1>4. Mine' = Mine \ {e} /\ e \in Mine
  BY <1>1 DEF Mine
<1>5. ASSUME NEW S, IsFiniteSet(S), e \in S
      PROVE  /\ Cardinality(S \ {e}) = Cardinality(S) - 1 /\ Cardinality(S) \in Nat
             /\ Cardinality(S) = 1 <=> S \ {e} = {}
  <2>1. Cardinality(S \ {e}) = Cardinality(S) - 1 /\ IsFiniteSet(S \ {e})
    BY <1>5, FS_RemoveElement
  <2>2. Cardinality(S) \in Nat /\ (Cardinality(S \ {e}) = 0 <=> S \ {e} = {})
    BY <1>5, <2>1, FS_CardinalityType, FS_EmptySet
  <2>3. QED
    BY <2>1, <2>2
<1>6. /\ Cardinality(Taken(o)') = Cardinality(Taken(o)) - 1 /\ Cardinality(Taken(o)) \in Nat
      /\ Cardinality(Taken(o)) = 1 <=> Taken(o)' = {}
  BY <1>2, <1>5, TakenFinite
<1>7. /\ Cardinality(Mine') = Cardinality(Mine) - 1 /\ Cardinality(Mine) \in Nat
      /\ Cardinality(Mine) = 1 <=> Mine' = {}
  BY <1>4, <1>5, MineFinite
<1>8. QED
  BY <1>1, <1>2, <1>3, <1>4, <1>6, <1>7

\* The event is postponed and its ordering barred.
LEMMA DeliveryPostpone ==
  ASSUME TypeOK, ReorderInv, DeliveryInv, NEW i \in Iterators, Postpone(i)
  PROVE  DeliveryInv'
<1>0. CurrentInv /\ HoldInv /\ MineInv /\ UserInv /\ PassInv /\ FlightInv
  BY DEF DeliveryInv
<1>a. /\ DOMAIN queue = 1 .. Len(queue) /\ Len(queue) \in Nat
      /\ it \in Iteration /\ it.numConsumed \in Int
      /\ evIter \in [Events -> Iterators \cup {None}]
      /\ ordIter \in [Orderings -> Iterators \cup {Marker, None}]
      /\ consumed \in [Orderings -> Int] /\ releasable \subseteq Orderings
  BY Types
<1>1. PICK k \in DOMAIN queue : LastRead(i, k) /\ PostponeAt(i, k)
  BY DEF Postpone
<1>b. PICK e : e = queue[k]
  OBVIOUS
<1>c. PICK o : o = OrderingOf[e]
  OBVIOUS
<1>2. /\ phase[i] = "yielded" /\ it.mark = "none"
      /\ evIter' = [evIter EXCEPT ![e] = None]
      /\ ordIter' = [ordIter EXCEPT ![o] = Marker]
      /\ consumed' = [consumed EXCEPT ![o] = @ - 1]
      /\ releasable' = IF consumed[o] = 1 THEN releasable \cup {o} ELSE releasable
      /\ it' = [it EXCEPT !.mark = "postponed", !.numConsumed = @ - 1]
      /\ UNCHANGED <<status, sequence, queue, cur, phase, loop>>
  BY <1>b, <1>c, <1>1 DEF PostponeAt, PostponeHolder, PostponeReleasable
<1>3. /\ cur = i /\ i # None /\ k \in Nat /\ k < it.index
      /\ e # None /\ e \in Events /\ evIter[e] = i /\ o \in Orderings /\ o \notin releasable
      /\ \A j \in DOMAIN queue : queue[j] = e => j = k
      /\ \A j \in DOMAIN queue : queue[j] # None /\ evIter[queue[j]] = i => j <= k
  BY <1>b, <1>c, <1>1, <1>2, ReadLast
<1>4. /\ it'.mark = "postponed" /\ it'.numConsumed = it.numConsumed - 1
      /\ it'.index = it.index /\ it'.user = it.user /\ it'.sameUser = it.sameUser
  BY <1>a, <1>2 DEF Iteration
<1>5. /\ ordIter'[o] = Marker /\ \A p \in Orderings : p # o => ordIter'[p] = ordIter[p]
      /\ consumed'[o] = consumed[o] - 1
      /\ \A p \in Orderings : p # o => consumed'[p] = consumed[p]
      /\ Marker # None /\ Marker # i
  BY <1>a, <1>2, <1>3, NilAssumption
<1>6. /\ evIter'[e] = None /\ \A f \in Events : f # e => evIter'[f] = evIter[f]
      /\ Taken(o)' = Taken(o) \ {e}
      /\ Cardinality(Taken(o)') = Cardinality(Taken(o)) - 1
      /\ Cardinality(Taken(o)) = 1 <=> Taken(o)' = {}
      /\ \A p : p # o => Taken(p)' = Taken(p)
      /\ Mine' = Mine \ {e} /\ Cardinality(Mine') = Cardinality(Mine) - 1
  <2>1. /\ cur # None /\ e \in Events /\ evIter[e] = cur /\ UNCHANGED cur
        /\ evIter' = [evIter EXCEPT ![e] = None]
    BY <1>2, <1>3
  <2>2. evIter'[e] = None /\ \A f \in Events : f # e => evIter'[f] = evIter[f]
    BY <1>c, <2>1, GivenBack
  <2>3. /\ Taken(o)' = Taken(o) \ {e} /\ Cardinality(Taken(o)') = Cardinality(Taken(o)) - 1
        /\ Cardinality(Taken(o)) = 1 <=> Taken(o)' = {}
    BY <1>c, <2>1, GivenBack
  <2>4. \A p : p # o => Taken(p)' = Taken(p)
    BY <1>c, <2>1, GivenBack, ZenonT(30)
  <2>5. /\ Mine' = Mine \ {e} /\ Cardinality(Mine') = Cardinality(Mine) - 1
        /\ Cardinality(Mine) = 1 <=> Mine' = {}
    BY <1>c, <2>1, GivenBack
  <2>6. QED
    BY <2>2, <2>3, <2>4, <2>5
<1>7. CurrentInv'
  BY <1>0, <1>2, <1>3 DEF CurrentInv
<1>8. HoldInv'
  <2>1. ASSUME NEW f \in Events, evIter'[f] # None
        PROVE  /\ ordIter'[OrderingOf[f]] \in {evIter'[f], Marker}
               /\ phase'[evIter'[f]] \in {"yielded", "ending", "done"}
    <3>1. f # e /\ evIter'[f] = evIter[f] /\ OrderingOf[f] \in Orderings
      BY <1>6, <2>1, DataAssumption
    <3>2. QED
      BY <1>0, <1>2, <1>5, <2>1, <3>1 DEF HoldInv
  <2>2. ExclusiveInFlight'
    BY <1>0, <1>6 DEF HoldInv, ExclusiveInFlight
  <2>3. consumed[o] = Cardinality(Taken(o))
    BY <1>0, <1>3 DEF HoldInv
  <2>4. ASSUME NEW p \in Orderings \ releasable' PROVE consumed'[p] = Cardinality(Taken(p)')
    <3>1. CASE p = o
      BY <1>5, <1>6, <2>3, <3>1
    <3>2. CASE p # o
      BY <1>0, <1>2, <1>5, <1>6, <3>2 DEF HoldInv
    <3>3. QED
      BY <3>1, <3>2
  <2>5. ASSUME NEW p \in releasable' PROVE Taken(p)' = {} /\ ordIter'[p] \notin {None, cur'}
    <3>1. CASE p = o
      BY <1>2, <1>3, <1>5, <1>6, <2>3, <2>5, <3>1
    <3>2. CASE p # o
      BY <1>0, <1>a, <1>2, <1>5, <1>6, <2>5, <3>2 DEF HoldInv
    <3>3. QED
      BY <3>1, <3>2
  <2>6. QED
    BY <2>1, <2>2, <2>4, <2>5 DEF HoldInv
<1>9. MineInv'
  <2>1. it'.numConsumed = Cardinality(Mine')
    BY <1>0, <1>3, <1>4, <1>6 DEF MineInv
  <2>2. ASSUME NEW j \in DOMAIN queue, queue[j] # None, evIter'[queue[j]] = i PROVE j < it.index
    <3>1. evIter[queue[j]] = i
      BY <1>3, <1>6, <2>2, Position
    <3>2. QED
      BY <1>0, <1>3, <2>2, <3>1 DEF MineInv
  <2>3. QED
    BY <1>0, <1>2, <1>3, <1>4, <2>1, <2>2 DEF MineInv
<1>10. UserInv'
  BY <1>0, <1>2, <1>4, <1>6 DEF UserInv
<1>11. LastInv' /\ PeekInv'
  BY <1>4 DEF LastInv, PeekInv
<1>12. PassInv'
  <2>1. SUFFICES ASSUME NEW j \in DOMAIN queue, j < it.index, queue[j] # None,
                        evIter'[queue[j]] = None
                 PROVE  PassedFor(j)'
    BY <1>2, <1>4 DEF PassInv
  <2>2. queue[j] \in Events /\ OrderingOf[queue[j]] \in Orderings
    BY <2>1, Position
  <2>3. CASE OrderingOf[queue[j]] = o
    BY <1>2, <1>3, <1>5, <2>3 DEF PassedFor
  <2>4. CASE OrderingOf[queue[j]] # o
    <3>1. queue[j] # e /\ evIter[queue[j]] = None
      BY <1>c, <1>6, <2>1, <2>2, <2>4
    <3>2. PassedFor(j)
      BY <1>0, <1>2, <1>3, <2>1, <3>1 DEF PassInv, MayRead
    <3>3. it.user # None => it.sameUser
      BY <1>0 DEF UserInv
    <3>4. QED
      BY <1>2, <1>4, <1>5, <2>2, <2>4, <3>2, <3>3 DEF PassedFor
  <2>5. QED
    BY <2>3, <2>4
<1>13. FlightInv'
  <2>1. SUFFICES ASSUME NEW g \in Events, NEW f \in Events, Before(g, f), status[g] = "queued",
                        evIter'[f] # None
                 PROVE  evIter'[g] = evIter'[f]
    BY <1>2 DEF FlightInv, Before
  <2>2. f # e /\ evIter'[f] = evIter[f] /\ evIter[g] = evIter[f]
    BY <1>0, <1>6, <2>1 DEF FlightInv
  <2>3. g # e
    <3>1. SUFFICES ASSUME g = e PROVE FALSE
      OBVIOUS
    <3>2. evIter[f] = i /\ OrderingOf[f] = o /\ sequence[e] < sequence[f]
      BY <1>c, <1>3, <2>1, <2>2, <3>1 DEF Before
    <3>3. PICK j \in DOMAIN queue : queue[j] = f /\ queue[j] # None
      BY <1>3, <3>2, InFlight, Place
    <3>4. k < j
      BY <1>b, <1>c, <1>3, <3>2, <3>3, Position
    <3>5. j <= k
      BY <1>3, <3>2, <3>3
    <3>6. QED
      BY <1>a, <1>3, <3>4, <3>5
  <2>4. QED
    BY <1>6, <2>2, <2>3
<1>14. QED
  BY <1>7, <1>8, <1>9, <1>10, <1>11, <1>12, <1>13 DEF DeliveryInv

\* The event leaves the queue.
LEMMA DeliveryDiscard ==
  ASSUME TypeOK, ReorderInv, DeliveryInv, NEW i \in Iterators, Discard(i)
  PROVE  DeliveryInv'
<1>0. CurrentInv /\ HoldInv /\ MineInv /\ UserInv /\ LastInv /\ PassInv /\ FlightInv
  BY DEF DeliveryInv
<1>a. /\ DOMAIN queue = 1 .. Len(queue) /\ Len(queue) \in Nat
      /\ it \in Iteration /\ it.numConsumed \in Int /\ it.index \in Nat
      /\ evIter \in [Events -> Iterators \cup {None}]
      /\ ordIter \in [Orderings -> Iterators \cup {Marker, None}]
      /\ consumed \in [Orderings -> Int] /\ releasable \subseteq Orderings
      /\ status \in [Events -> Statuses]
  BY Types
<1>1. PICK k \in DOMAIN queue : LastRead(i, k) /\ DiscardAt(i, k)
  BY DEF Discard
<1>b. PICK e : e = queue[k]
  OBVIOUS
<1>c. PICK o : o = OrderingOf[e]
  OBVIOUS
<1>2. /\ phase[i] = "yielded" /\ it.mark = "none"
      /\ queue' = [queue EXCEPT ![k] = None]
      /\ status' = [status EXCEPT ![e] = "rejected"]
      /\ evIter' = [evIter EXCEPT ![e] = None]
      /\ consumed' = [consumed EXCEPT ![o] = @ - 1]
      /\ ordIter' = [ordIter EXCEPT ![o] = IF consumed[o] = 1 THEN None ELSE @]
      /\ it' = [it EXCEPT !.mark = "discarded", !.numConsumed = @ - 1,
                          !.user = IF it.numConsumed = 1 THEN None ELSE @,
                          !.index = IF it.numConsumed = 1 THEN k + 1 ELSE @]
      /\ UNCHANGED <<sequence, releasable, cur, phase, loop>>
  BY <1>b, <1>c, <1>1 DEF DiscardAt
<1>3. /\ cur = i /\ i # None /\ k \in Nat /\ k < it.index
      /\ e # None /\ e \in Events /\ evIter[e] = i /\ o \in Orderings /\ o \notin releasable
      /\ \A j \in DOMAIN queue : queue[j] = e => j = k
      /\ \A j \in DOMAIN queue : queue[j] # None /\ evIter[queue[j]] = i => j <= k
  BY <1>b, <1>c, <1>1, <1>2, ReadLast
<1>4. /\ it'.mark = "discarded" /\ it'.numConsumed = it.numConsumed - 1
      /\ it'.index = IF it.numConsumed = 1 THEN k + 1 ELSE it.index
      /\ it'.user = IF it.numConsumed = 1 THEN None ELSE it.user
      /\ it'.sameUser = it.sameUser
  BY <1>a, <1>2 DEF Iteration
<1>5. /\ \A p \in Orderings : p # o => ordIter'[p] = ordIter[p] /\ consumed'[p] = consumed[p]
      /\ ordIter'[o] = IF consumed[o] = 1 THEN None ELSE ordIter[o]
      /\ consumed'[o] = consumed[o] - 1
  BY <1>a, <1>2, <1>3
<1>6. /\ evIter'[e] = None /\ \A f \in Events : f # e => evIter'[f] = evIter[f]
      /\ Taken(o)' = Taken(o) \ {e}
      /\ Cardinality(Taken(o)') = Cardinality(Taken(o)) - 1
      /\ Cardinality(Taken(o)) = 1 <=> Taken(o)' = {}
      /\ \A p : p # o => Taken(p)' = Taken(p)
      /\ Mine' = Mine \ {e} /\ Cardinality(Mine') = Cardinality(Mine) - 1
      /\ Cardinality(Mine) = 1 <=> Mine' = {}
  <2>1. /\ cur # None /\ e \in Events /\ evIter[e] = cur /\ UNCHANGED cur
        /\ evIter' = [evIter EXCEPT ![e] = None]
    BY <1>2, <1>3
  <2>2. evIter'[e] = None /\ \A f \in Events : f # e => evIter'[f] = evIter[f]
    BY <1>c, <2>1, GivenBack
  <2>3. /\ Taken(o)' = Taken(o) \ {e} /\ Cardinality(Taken(o)') = Cardinality(Taken(o)) - 1
        /\ Cardinality(Taken(o)) = 1 <=> Taken(o)' = {}
    BY <1>c, <2>1, GivenBack
  <2>4. \A p : p # o => Taken(p)' = Taken(p)
    BY <1>c, <2>1, GivenBack, ZenonT(30)
  <2>5. /\ Mine' = Mine \ {e} /\ Cardinality(Mine') = Cardinality(Mine) - 1
        /\ Cardinality(Mine) = 1 <=> Mine' = {}
    BY <1>c, <2>1, GivenBack
  <2>6. QED
    BY <2>2, <2>3, <2>4, <2>5
<1>d. /\ Len(queue') = Len(queue) /\ DOMAIN queue' = DOMAIN queue /\ queue'[k] = None
      /\ \A j \in DOMAIN queue : j # k => queue'[j] = queue[j]
  BY <1>a, <1>2, Types
<1>e. consumed[o] = Cardinality(Taken(o)) /\ it.numConsumed = Cardinality(Mine)
  BY <1>0, <1>3 DEF HoldInv, MineInv
<1>f. ordIter[o] = i
  BY <1>0, <1>b, <1>c, <1>1, <1>2, <1>3 DEF LastInv
<1>7. CurrentInv'
  BY <1>0, <1>2, <1>3 DEF CurrentInv
<1>8. HoldInv'
  <2>1. ASSUME NEW f \in Events, evIter'[f] # None
        PROVE  /\ ordIter'[OrderingOf[f]] \in {evIter'[f], Marker}
               /\ phase'[evIter'[f]] \in {"yielded", "ending", "done"}
    <3>1. f # e /\ evIter'[f] = evIter[f] /\ OrderingOf[f] \in Orderings
      BY <1>6, <2>1, DataAssumption
    <3>2. /\ ordIter[OrderingOf[f]] \in {evIter[f], Marker}
          /\ phase[evIter[f]] \in {"yielded", "ending", "done"}
      BY <1>0, <2>1, <3>1 DEF HoldInv
    <3>3. OrderingOf[f] = o => Taken(o)' # {}
      BY <2>1 DEF Taken, EventsOf
    <3>4. ordIter'[OrderingOf[f]] = ordIter[OrderingOf[f]]
      BY <1>5, <1>6, <1>e, <3>1, <3>3
    <3>5. QED
      BY <1>2, <3>1, <3>2, <3>4
  <2>2. ExclusiveInFlight'
    BY <1>0, <1>6 DEF HoldInv, ExclusiveInFlight
  <2>3. ASSUME NEW p \in Orderings \ releasable PROVE consumed'[p] = Cardinality(Taken(p)')
    <3>1. CASE p = o
      BY <1>5, <1>6, <1>e, <3>1
    <3>2. CASE p # o
      BY <1>0, <1>5, <1>6, <3>2 DEF HoldInv
    <3>3. QED
      BY <3>1, <3>2
  <2>4. \A p \in releasable : Taken(p)' = {} /\ ordIter'[p] \notin {None, cur'}
    BY <1>0, <1>a, <1>2, <1>3, <1>5, <1>6 DEF HoldInv
  <2>5. QED
    BY <1>2, <2>1, <2>2, <2>3, <2>4 DEF HoldInv
<1>9. MineInv'
  <2>1. it'.numConsumed = Cardinality(Mine')
    BY <1>4, <1>6, <1>e
  <2>2. ASSUME NEW j \in DOMAIN queue', queue'[j] # None, evIter'[queue'[j]] = i
        PROVE  j < it'.index
    <3>1. j \in DOMAIN queue /\ j # k /\ queue'[j] = queue[j]
      BY <1>d, <2>2
    <3>2. queue[j] \in Events /\ queue[j] # e
      BY <1>3, <2>2, <3>1, Position
    <3>3. evIter[queue[j]] = i
      BY <1>6, <2>2, <3>1, <3>2
    <3>4. queue[j] \in Mine'
      BY <1>2, <1>3, <2>2, <3>1, <3>2 DEF Mine
    <3>5. it'.index = it.index
      BY <1>4, <1>6, <1>e, <3>4
    <3>6. QED
      BY <1>0, <1>3, <2>2, <3>1, <3>3, <3>5 DEF MineInv
  <2>3. it'.index <= Len(queue) + 1
    BY <1>0, <1>a, <1>4 DEF MineInv
  <2>4. QED
    BY <1>2, <1>3, <1>d, <2>1, <2>2, <2>3 DEF MineInv
<1>10. UserInv'
  <2>1. it.numConsumed = 1 => Mine' = {}
    BY <1>6, <1>e
  <2>2. QED
    BY <1>0, <1>2, <1>4, <1>6, <2>1 DEF UserInv
<1>11. LastInv' /\ PeekInv'
  <2>1. it'.user # None => Mine' # {}
    BY <1>4, <1>6, <1>e
  <2>2. QED
    BY <1>4, <2>1 DEF LastInv, PeekInv
<1>12. PassInv'
  <2>1. SUFFICES ASSUME NEW j \in DOMAIN queue', j < it'.index, queue'[j] # None,
                        evIter'[queue'[j]] = None
                 PROVE  PassedFor(j)'
    BY DEF PassInv
  <2>2. j \in DOMAIN queue /\ j # k /\ queue'[j] = queue[j] /\ queue[j] # e /\ j \in Nat
    BY <1>a, <1>3, <1>d, <2>1
  <2>3. queue[j] \in Events /\ OrderingOf[queue[j]] \in Orderings /\ evIter[queue[j]] = None
    BY <1>6, <2>1, <2>2, Position
  <2>4. j < it.index
    BY <1>a, <1>3, <1>4, <2>1, <2>2
  <2>5. PassedFor(j)
    BY <1>0, <1>2, <1>3, <2>1, <2>2, <2>3, <2>4 DEF PassInv, MayRead
  <2> DEFINE p == OrderingOf[queue[j]]
  <2>6. CASE ordIter[p] \notin {None, cur}
    <3>1. p # o
      BY <1>3, <1>f, <2>6
    <3>2. QED
      BY <1>2, <1>5, <2>2, <2>3, <2>6, <3>1 DEF PassedFor
  <2>7. CASE /\ it.user # None /\ UserOf[p] # it.user
             /\ \E y \in DOMAIN queue : y < j /\ queue[y] # None /\ evIter[queue[y]] = cur
    <3>1. PICK y \in DOMAIN queue : y < j /\ queue[y] # None /\ evIter[queue[y]] = cur
      BY <2>7
    <3>2. y <= k /\ y \in Nat
      BY <1>a, <1>3, <3>1
    <3>3. queue[y] \in Mine
      BY <3>1, Position DEF Mine
    <3>4. Mine' # {}
      <4>1. SUFFICES ASSUME Mine' = {} PROVE FALSE
        OBVIOUS
      <4>2. queue[y] = e /\ y = k
        BY <1>3, <1>6, <3>3, <4>1
      <4>3. it'.index = k + 1
        BY <1>4, <1>6, <1>e, <4>1
      <4>4. QED
        BY <1>3, <2>1, <2>2, <3>1, <4>2, <4>3
    <3>5. it'.user = it.user
      BY <1>4, <1>6, <1>e, <3>4
    <3>6. \E z \in DOMAIN queue' : z < j /\ queue'[z] # None /\ evIter'[queue'[z]] = cur
      <4>1. PICK m \in Mine' : TRUE
        BY <3>4
      <4>2. m \in Mine /\ m # e
        BY <1>6
      <4>3. PICK z \in DOMAIN queue : queue[z] = m /\ queue[z] # None /\ evIter[queue[z]] = cur
        BY <1>0, <1>3, <4>2, MinePlaces
      <4>4. z <= k /\ z # k /\ z \in Nat
        BY <1>a, <1>b, <1>3, <4>2, <4>3
      <4>5. CASE y = k
        <5>1. z < j
          BY <2>2, <3>1, <3>2, <4>4, <4>5
        <5>2. queue'[z] = m /\ evIter'[m] = cur
          BY <1>6, <1>d, <4>2, <4>3, <4>4 DEF Mine
        <5>3. QED
          BY <1>d, <4>3, <5>1, <5>2
      <4>6. CASE y # k
        <5>1. queue'[y] = queue[y] /\ queue[y] # e
          BY <1>3, <1>d, <3>1, <4>6
        <5>2. evIter'[queue[y]] = cur
          BY <1>6, <3>1, <5>1, Position
        <5>3. QED
          BY <1>d, <3>1, <5>1, <5>2
      <4>7. QED
        BY <4>5, <4>6
    <3>7. QED
      BY <1>2, <2>2, <2>7, <3>5, <3>6 DEF PassedFor
  <2>8. QED
    BY <1>2, <2>5, <2>6, <2>7 DEF PassedFor
<1>13. FlightInv'
  <2>1. SUFFICES ASSUME NEW g \in Events, NEW f \in Events, Before(g, f), status'[g] = "queued",
                        evIter'[f] # None
                 PROVE  evIter'[g] = evIter'[f]
    BY <1>2 DEF FlightInv, Before
  <2>2. f # e /\ g # e /\ status[g] = "queued"
    BY <1>a, <1>2, <1>6, <2>1
  <2>3. QED
    BY <1>0, <1>6, <2>1, <2>2 DEF FlightInv
<1>14. QED
  BY <1>7, <1>8, <1>9, <1>10, <1>11, <1>12, <1>13 DEF DeliveryInv

-----------------------------------------------------------------------------
(* Ending an iteration and starting another.                               *)

\* What releaseOrderings leaves: no event in flight is of an ordering that is
\* released, so its ordering stays held, and the counts are exact.
LEMMA DeliveryRelease ==
  ASSUME TypeOK, HoldInv, ReleaseOrderings(releasable, status), UNCHANGED evIter
  PROVE  /\ releasable' = {} /\ \A o : Taken(o)' = Taken(o)
         /\ ExclusiveInFlight'
         /\ \A o \in Orderings : consumed'[o] = Cardinality(Taken(o))
         /\ \A e \in Events : evIter[e] # None => ordIter'[OrderingOf[e]] \in {evIter[e], Marker}
<1>1. /\ ordIter' = [o \in Orderings |-> IF o \in releasable THEN None ELSE ordIter[o]]
      /\ consumed' = [o \in Orderings |-> IF o \in releasable THEN 0 ELSE consumed[o]]
      /\ releasable' = {}
  BY DEF ReleaseOrderings
<1>2. (\A o : Taken(o)' = Taken(o)) /\ ExclusiveInFlight'
  BY DEF Taken, EventsOf, HoldInv, ExclusiveInFlight
<1>3. ASSUME NEW o \in Orderings PROVE consumed'[o] = Cardinality(Taken(o))
  <2>1. CASE o \in releasable
    BY <1>1, <2>1, TakenFinite DEF HoldInv
  <2>2. CASE o \notin releasable
    BY <1>1, <2>2 DEF HoldInv
  <2>3. QED
    BY <2>1, <2>2
<1>4. ASSUME NEW e \in Events, evIter[e] # None
      PROVE  ordIter'[OrderingOf[e]] \in {evIter[e], Marker}
  <2>1. OrderingOf[e] \in Orderings /\ e \in Taken(OrderingOf[e])
    BY <1>4, DataAssumption DEF Taken, EventsOf
  <2>2. OrderingOf[e] \notin releasable
    BY <2>1 DEF HoldInv
  <2>3. QED
    BY <1>1, <1>4, <2>1, <2>2 DEF HoldInv
<1>5. QED
  BY <1>1, <1>2, <1>3, <1>4

\* The loop starts an iterator.
LEMMA DeliveryTick ==
  ASSUME TypeOK, DeliveryInv, FlightInv', NEW i \in Iterators, NEW pause \in BOOLEAN,
         LoopTick(i, pause)
  PROVE  DeliveryInv'
<1>0. CurrentInv /\ HoldInv
  BY DEF DeliveryInv
<1>1. /\ cur = None /\ cur' = i /\ it' = NoIteration /\ phase[i] = "free"
      /\ phase' = [phase EXCEPT ![i] = IF pause THEN "paused" ELSE "ready"]
      /\ loop' = IF pause THEN "pause" ELSE "select"
      /\ ReleaseOrderings(releasable, status) /\ UNCHANGED <<evIter, queue>>
  BY DEF LoopTick, evVars
<1>2. /\ phase'[i] = IF pause THEN "paused" ELSE "ready"
      /\ \A j \in Iterators : j # i => phase'[j] = phase[j]
      /\ i # None /\ evIter \in [Events -> Iterators \cup {None}]
  BY <1>1, Types, NilAssumption
<1>3. /\ it'.index = 1 /\ it'.numConsumed = 0 /\ it'.sameUser = FALSE /\ it'.user = None
      /\ it'.mark = "none"
  BY <1>1 DEF NoIteration
<1>4. \A e \in Events : evIter[e] # None => evIter[e] \in Iterators /\ evIter[e] # i
  BY <1>0, <1>1, <1>2 DEF HoldInv
<1>5. CurrentInv'
  BY <1>0, <1>1, <1>2, <1>3, NilAssumption DEF CurrentInv, Reading
<1>6. HoldInv'
  BY <1>0, <1>1, <1>2, <1>4, DeliveryRelease DEF HoldInv
<1>7. Mine' = {}
  BY <1>1, <1>2, <1>4 DEF Mine
<1>8. MineInv'
  <2>1. \A k \in DOMAIN queue : queue[k] # None => queue[k] \in Events
    BY Types
  <2>2. Cardinality(Mine') = 0
    BY <1>7, FS_EmptySet
  <2>3. Len(queue') \in Nat
    BY <1>1, Types
  <2>4. it'.index <= Len(queue') + 1
    BY <1>3, <2>3
  <2>5. QED
    BY <1>1, <1>2, <1>3, <1>4, <2>1, <2>2, <2>4 DEF MineInv
<1>9. UserInv' /\ LastInv' /\ PeekInv'
  BY <1>1, <1>2, <1>3 DEF UserInv, LastInv, PeekInv
<1>10. PassInv'
  <2>1. DOMAIN queue \subseteq Nat \ {0}
    BY Types
  <2>2. \A k \in DOMAIN queue : ~(k < 1)
    BY <2>1
  <2>3. QED
    BY <1>1, <1>3, <2>2 DEF PassInv
<1>11. QED
  BY <1>5, <1>6, <1>8, <1>9, <1>10 DEF DeliveryInv

\* The iteration ends, after events were read or none.
LEMMA DeliveryEnd ==
  ASSUME TypeOK, DeliveryInv, FlightInv', NEW i \in Iterators,
         EndIteration(i) \/ ReturnUnread(i)
  PROVE  DeliveryInv'
<1>0. CurrentInv /\ HoldInv
  BY DEF DeliveryInv
<1>1. /\ cur' = None /\ it' = NoIteration
      /\ \/ phase[i] = "ending" /\ phase' = [phase EXCEPT ![i] = "done"]
         \/ phase[i] = "ready" /\ phase' = [phase EXCEPT ![i] = "compacting"]
      /\ ReleaseOrderings(releasable, status) /\ UNCHANGED <<evIter, queue, loop>>
  BY DEF EndIteration, ReturnUnread, Iterated, evVars
<1>2. /\ cur = i /\ \A j \in Iterators : j # i => phase'[j] = phase[j]
      /\ phase'[i] = IF phase[i] = "ending" THEN "done" ELSE "compacting"
      /\ i # None /\ evIter \in [Events -> Iterators \cup {None}]
  BY <1>0, <1>1, Types, NilAssumption DEF CurrentInv, Reading
<1>3. it'.index = 1 /\ it'.sameUser = FALSE /\ it'.user = None
  BY <1>1 DEF NoIteration
<1>4. \A e \in Events : evIter[e] # None => phase'[evIter[e]] \in {"yielded", "ending", "done"}
  BY <1>0, <1>1, <1>2 DEF HoldInv
<1>5. CurrentInv'
  BY <1>0, <1>1, <1>2, <1>3, NilAssumption DEF CurrentInv, Reading
<1>6. HoldInv'
  BY <1>0, <1>1, <1>4, DeliveryRelease DEF HoldInv
<1>7. MineInv'
  <2>1. Len(queue') \in Nat
    BY <1>1, Types
  <2>2. it'.index <= Len(queue') + 1
    BY <1>3, <2>1
  <2>3. QED
    BY <1>1, <2>2 DEF MineInv
<1>8. UserInv' /\ LastInv' /\ PeekInv' /\ PassInv'
  BY <1>1, <1>3 DEF UserInv, LastInv, PeekInv, PassInv
<1>9. QED
  BY <1>5, <1>6, <1>7, <1>8 DEF DeliveryInv

-----------------------------------------------------------------------------
(* The end of a send.                                                      *)

\* The events that the iterator has are finished. The current iterator is
\* another one, and it does not look at them.
LEMMA DeliverySendReturn ==
  ASSUME TypeOK, ReorderInv, DeliveryInv, NEW i \in Iterators, SendReturn(i)
  PROVE  DeliveryInv'
<1>0. /\ CurrentInv /\ HoldInv /\ MineInv /\ UserInv /\ LastInv /\ PeekInv /\ PassInv
      /\ FlightInv
  BY DEF DeliveryInv
<1>a. PICK mine : mine = {e \in Events : evIter[e] = i}
  OBVIOUS
<1>b. PICK rel : rel = releasable \cup {OrderingOf[e] : e \in mine}
  OBVIOUS
<1>1. /\ phase[i] = "done" /\ phase' = [phase EXCEPT ![i] = "compacting"]
      /\ status' = [e \in Events |-> IF e \in mine THEN "sent" ELSE status[e]]
      /\ evIter' = [e \in Events |-> IF e \in mine THEN None ELSE evIter[e]]
      /\ queue' = [k \in DOMAIN queue |-> IF queue[k] \in mine THEN None ELSE queue[k]]
      /\ UNCHANGED <<sequence, cur, it, loop>>
  BY <1>a DEF SendReturn
<1>2. \/ cur = None /\ ReleaseOrderings(rel, status')
      \/ cur # None /\ releasable' = rel /\ UNCHANGED <<ordIter, consumed>>
  BY <1>a, <1>b DEF SendReturn, ordVars
<1>3. /\ DOMAIN queue = 1 .. Len(queue) /\ Len(queue) \in Nat
      /\ \A k \in DOMAIN queue : queue[k] \in Events \cup {None}
      /\ evIter \in [Events -> Iterators \cup {None}]
      /\ ordIter \in [Orderings -> Iterators \cup {Marker, None}]
      /\ consumed \in [Orderings -> Int] /\ releasable \subseteq Orderings
      /\ status \in [Events -> Statuses] /\ cur \in Iterators \cup {None}
      /\ phase \in [Iterators -> Phases]
  BY Types
<1>4. /\ cur # i /\ phase'[i] = "compacting" /\ i # None
      /\ \A j \in Iterators : j # i => phase'[j] = phase[j]
  BY <1>0, <1>1, <1>3, NilAssumption DEF CurrentInv, Reading
<1>5. /\ \A e \in Events : evIter[e] = i => evIter'[e] = None /\ status'[e] = "sent"
      /\ \A e \in Events : evIter[e] # i => evIter'[e] = evIter[e] /\ status'[e] = status[e]
      /\ \A e \in Events : evIter'[e] # None => evIter'[e] = evIter[e] /\ evIter[e] # i
  BY <1>a, <1>1, <1>4
<1>6. DOMAIN queue' = DOMAIN queue /\ Len(queue') = Len(queue)
  <2>1. DOMAIN queue' = 1 .. Len(queue)
    BY <1>1, <1>3
  <2>2. queue' \in Seq(Events \cup {None})
    BY <1>1, <1>3
  <2>3. QED
    BY <1>3, <2>1, <2>2
<1>7. ASSUME NEW k \in DOMAIN queue, queue'[k] # None
      PROVE  /\ queue'[k] = queue[k] /\ queue[k] \in Events /\ evIter[queue[k]] # i
             /\ evIter'[queue[k]] = evIter[queue[k]] /\ OrderingOf[queue[k]] \in Orderings
  BY <1>a, <1>1, <1>3, <1>5, <1>7, DataAssumption
<1>8. ASSUME NEW k \in DOMAIN queue, queue[k] # None, evIter[queue[k]] # i
      PROVE  queue'[k] = queue[k] /\ evIter'[queue[k]] = evIter[queue[k]]
  BY <1>a, <1>1, <1>3, <1>5, <1>8
<1>9. /\ rel \subseteq Orderings /\ releasable \subseteq rel
      /\ \A o \in rel : o \in releasable \/ \E e \in Events : evIter[e] = i /\ OrderingOf[e] = o
      /\ \A e \in Events : evIter[e] = i => OrderingOf[e] \in rel
  BY <1>a, <1>b, <1>3, DataAssumption
<1>10. \A o : Taken(o)' = {e \in Taken(o) : evIter[e] # i}
  BY <1>4, <1>5 DEF Taken, EventsOf
<1>11. ASSUME NEW o \in rel PROVE Taken(o)' = {} /\ ordIter[o] \notin {None, cur}
  <2>1. CASE o \in releasable
    BY <1>0, <1>10, <2>1 DEF HoldInv
  <2>2. CASE \E e \in Events : evIter[e] = i /\ OrderingOf[e] = o
    <3>1. PICK e \in Events : evIter[e] = i /\ OrderingOf[e] = o
      BY <2>2
    <3>2. Taken(o)' = {}
      BY <1>0, <1>4, <1>10, <3>1 DEF HoldInv, ExclusiveInFlight, Taken, EventsOf
    <3>3. ordIter[o] \in {i, Marker}
      BY <1>0, <1>4, <3>1 DEF HoldInv
    <3>4. QED
      BY <1>3, <1>4, <3>2, <3>3, NilAssumption
  <2>3. QED
    BY <1>9, <2>1, <2>2
<1>12. ASSUME NEW o \in Orderings, o \notin rel PROVE Taken(o)' = Taken(o)
  BY <1>9, <1>10, <1>12 DEF Taken, EventsOf
<1>13. CurrentInv'
  BY <1>0, <1>1, <1>3, <1>4 DEF CurrentInv, Reading
<1>14. HoldInv'
  <2>1. ASSUME NEW e \in Events, evIter'[e] # None
        PROVE  /\ evIter'[e] = evIter[e] /\ OrderingOf[e] \in Orderings /\ OrderingOf[e] \notin rel
               /\ ordIter[OrderingOf[e]] \in {evIter'[e], Marker}
               /\ phase'[evIter'[e]] \in {"yielded", "ending", "done"}
    <3>1. evIter'[e] = evIter[e] /\ evIter[e] # i /\ evIter[e] \in Iterators
      BY <1>3, <1>5, <2>1
    <3>2. /\ ordIter[OrderingOf[e]] \in {evIter[e], Marker}
          /\ phase[evIter[e]] \in {"yielded", "ending", "done"}
      BY <1>0, <2>1, <3>1 DEF HoldInv
    <3>3. OrderingOf[e] \in Orderings /\ e \in Taken(OrderingOf[e])'
      BY <2>1, DataAssumption DEF Taken, EventsOf
    <3>4. OrderingOf[e] \notin rel
      BY <1>11, <3>3
    <3>5. QED
      BY <1>4, <3>1, <3>2, <3>3, <3>4
  <2>2. ExclusiveInFlight'
    BY <1>0, <1>5 DEF HoldInv, ExclusiveInFlight
  <2>3. ASSUME NEW o \in Orderings, o \notin rel
        PROVE  consumed[o] = Cardinality(Taken(o)')
    BY <1>0, <1>9, <1>12, <2>3 DEF HoldInv
  <2>4. CASE cur = None /\ ReleaseOrderings(rel, status')
    <3>1. /\ ordIter' = [o \in Orderings |-> IF o \in rel THEN None ELSE ordIter[o]]
          /\ consumed' = [o \in Orderings |-> IF o \in rel THEN 0 ELSE consumed[o]]
          /\ releasable' = {}
      BY <2>4 DEF ReleaseOrderings
    <3>2. ASSUME NEW o \in Orderings PROVE consumed'[o] = Cardinality(Taken(o)')
      <4>1. CASE o \in rel
        <5>1. Taken(o)' = {} /\ consumed'[o] = 0
          BY <1>11, <3>1, <4>1
        <5>2. QED
          BY <5>1, FS_EmptySet
      <4>2. CASE o \notin rel
        BY <2>3, <3>1, <4>2
      <4>3. QED
        BY <4>1, <4>2
    <3>3. \A e \in Events : evIter'[e] # None =>
            /\ ordIter'[OrderingOf[e]] \in {evIter'[e], Marker}
            /\ phase'[evIter'[e]] \in {"yielded", "ending", "done"}
      BY <2>1, <3>1
    <3>4. QED
      BY <2>2, <3>1, <3>2, <3>3 DEF HoldInv
  <2>5. CASE cur # None /\ releasable' = rel /\ UNCHANGED <<ordIter, consumed>>
    <3>1. \A e \in Events : evIter'[e] # None =>
            /\ ordIter'[OrderingOf[e]] \in {evIter'[e], Marker}
            /\ phase'[evIter'[e]] \in {"yielded", "ending", "done"}
      BY <2>1, <2>5
    <3>2. \A o \in Orderings \ rel : consumed'[o] = Cardinality(Taken(o)')
      BY <2>3, <2>5
    <3>3. \A o \in rel : Taken(o)' = {} /\ ordIter'[o] \notin {None, cur'}
      BY <1>1, <1>11, <2>5
    <3>4. QED
      BY <2>2, <2>5, <3>1, <3>2, <3>3 DEF HoldInv
  <2>6. QED
    BY <1>2, <2>4, <2>5
<1>15. cur # None => Mine' = Mine /\ UNCHANGED <<ordIter, consumed>>
  <2>1. cur # None => \A e \in Events : evIter'[e] = cur <=> evIter[e] = cur
    BY <1>4, <1>5
  <2>2. QED
    BY <1>1, <1>2, <2>1 DEF Mine
<1>16. MineInv' /\ UserInv'
  <2>1. MineInv'
    BY <1>0, <1>1, <1>6, <1>7, <1>15 DEF MineInv
  <2>2. UserInv'
    BY <1>0, <1>1, <1>15 DEF UserInv
  <2>3. QED
    BY <2>1, <2>2
<1>17. LastInv'
  <2>1. SUFFICES ASSUME cur # None, phase'[cur] = "yielded", it.mark = "none",
                        NEW k \in DOMAIN queue, LastRead(cur, k)'
                 PROVE  ordIter[OrderingOf[queue'[k]]] = cur
    BY <1>1, <1>6, <1>15 DEF LastInv
  <2>2. /\ k < it.index /\ queue'[k] # None /\ evIter'[queue'[k]] = cur
        /\ \A j \in DOMAIN queue : j < it.index /\ queue'[j] # None /\ evIter'[queue'[j]] = cur
                                     => j <= k
    BY <1>1, <1>6, <2>1 DEF LastRead
  <2>3. \A j \in DOMAIN queue : j < it.index /\ queue[j] # None /\ evIter[queue[j]] = cur
                                  => j <= k
    BY <1>4, <1>8, <2>2
  <2>4. LastRead(cur, k) /\ queue'[k] = queue[k]
    BY <1>7, <2>2, <2>3 DEF LastRead
  <2>5. phase[cur] = "yielded"
    BY <1>3, <1>4, <2>1
  <2>6. QED
    BY <1>0, <2>1, <2>4, <2>5 DEF LastInv
<1>18. PeekInv'
  <2>1. SUFFICES ASSUME cur # None, phase'[cur] \in MayRead, it.user # None,
                        it.mark # "postponed"
                 PROVE  Mine' # {} \/ it.index \in Candidates(cur)'
    BY <1>1 DEF PeekInv
  <2>2. Mine # {} \/ it.index \in Candidates(cur)
    BY <1>0, <1>3, <1>4, <2>1 DEF PeekInv
  <2>3. ASSUME it.index \in Candidates(cur) PROVE it.index \in Candidates(cur)'
    <3>1. /\ it.index \in it.index .. Len(queue) /\ queue[it.index] # None
          /\ evIter[queue[it.index]] = None
          /\ ordIter[OrderingOf[queue[it.index]]] \in {None, cur}
          /\ it.user # None => UserOf[OrderingOf[queue[it.index]]] = it.user
      BY <2>3 DEF Candidates
    <3>2. it.index \in DOMAIN queue
      BY <1>3, <3>1, Types
    <3>3. queue'[it.index] = queue[it.index] /\ evIter'[queue[it.index]] = None
      BY <1>4, <1>8, <3>1, <3>2
    <3>4. QED
      BY <1>1, <1>6, <1>15, <2>1, <3>1, <3>3 DEF Candidates
  <2>4. QED
    BY <1>15, <2>1, <2>2, <2>3
<1>19. PassInv'
  <2>1. SUFFICES ASSUME cur # None, phase'[cur] \in MayRead, NEW k \in DOMAIN queue,
                        k < it.index, queue'[k] # None, evIter'[queue'[k]] = None
                 PROVE  PassedFor(k)'
    BY <1>1, <1>6 DEF PassInv
  <2>2. queue'[k] = queue[k] /\ evIter[queue[k]] = None
    BY <1>7, <2>1
  <2>3. PassedFor(k)
    BY <1>0, <1>3, <1>4, <2>1, <2>2 DEF PassInv
  <2>4. (\E j \in DOMAIN queue : j < k /\ queue[j] # None /\ evIter[queue[j]] = cur)
        => \E j \in DOMAIN queue' : j < k /\ queue'[j] # None /\ evIter'[queue'[j]] = cur
    BY <1>4, <1>6, <1>8
  <2>5. QED
    BY <1>1, <1>15, <2>1, <2>2, <2>3, <2>4 DEF PassedFor
<1>20. FlightInv'
  <2>1. SUFFICES ASSUME NEW e \in Events, NEW f \in Events, Before(e, f), status'[e] = "queued",
                        evIter'[f] # None
                 PROVE  evIter'[e] = evIter'[f]
    BY <1>1 DEF FlightInv, Before
  <2>2. evIter[e] # i /\ status[e] = "queued" /\ evIter'[e] = evIter[e]
    BY <1>5, <2>1
  <2>3. evIter'[f] = evIter[f]
    BY <1>5, <2>1
  <2>4. QED
    BY <1>0, <2>1, <2>2, <2>3 DEF FlightInv
<1>21. QED
  BY <1>13, <1>14, <1>16, <1>17, <1>18, <1>19, <1>20 DEF DeliveryInv

\* The queue is compacted under the current iterator: the read index moves with
\* the events.
LEMMA DeliveryCompact ==
  ASSUME TypeOK, ReorderInv, DeliveryInv, FlightInv', NEW i \in Iterators, Compact(i)
  PROVE  DeliveryInv'
<1>0. CurrentInv /\ HoldInv /\ MineInv /\ UserInv /\ LastInv /\ PeekInv /\ PassInv
  BY DEF DeliveryInv
<1>1. /\ phase[i] = "compacting" /\ phase' = [phase EXCEPT ![i] = "free"]
      /\ UNCHANGED <<evIter, ordIter, consumed, releasable, cur, loop>>
  BY DEF Compact, evVars, ordVars
<1>2. /\ queue \in Seq(Events \cup {None}) /\ DOMAIN queue = 1 .. Len(queue)
      /\ Len(queue) \in Nat /\ evIter \in [Events -> Iterators \cup {None}]
      /\ cur \in Iterators \cup {None} /\ phase \in [Iterators -> Phases]
      /\ it \in Iteration /\ it.index \in Nat \ {0} /\ it.index <= Len(queue) + 1
  BY <1>0, Types DEF MineInv
<1>3. PICK n \in 0 .. Len(queue) :
        /\ \A k \in 1 .. n : queue[k] = None
        /\ queue' = SubSeq(queue, n + 1, Len(queue))
        /\ it' = IF cur = None THEN it ELSE [it EXCEPT !.index = Shifted(@, n)]
  <2>1. CASE closed /\ UNCHANGED <<queue, it>>
    <3>1. SubSeq(queue, 1, Len(queue)) = queue
      BY <1>2, SubSeqProperties
    <3>2. Shifted(it.index, 0) = it.index
      BY <1>2 DEF Shifted
    <3>3. [it EXCEPT !.index = Shifted(@, 0)] = it
      BY <1>2, <3>2 DEF Iteration
    <3>4. 0 \in 0 .. Len(queue) /\ 0 + 1 = 1 /\ 1 .. 0 = {}
      BY <1>2
    <3>5. QED
      BY <2>1, <3>1, <3>3, <3>4
  <2>2. CASE ~closed
    BY <2>2 DEF Compact, LeadingHoles
  <2>3. QED
    BY <2>1, <2>2 DEF Compact
<1>4. /\ DOMAIN queue' = 1 .. Len(queue) - n /\ Len(queue') = Len(queue) - n
      /\ \A k \in 1 .. Len(queue) - n : queue'[k] = queue[n + k]
  <2>1. \A k \in n + 1 .. Len(queue) : queue[k] \in Events \cup {None}
    BY <1>2
  <2>2. QED
    BY <1>2, <1>3, <2>1, SubSeqProperties
<1>5. \A k \in DOMAIN queue' : k \in Nat \ {0} /\ n + k \in DOMAIN queue /\ queue'[k] = queue[n + k]
  BY <1>2, <1>4
<1>6. ASSUME NEW k \in DOMAIN queue, queue[k] # None
      PROVE  k \in Nat /\ n < k /\ k - n \in DOMAIN queue' /\ queue'[k - n] = queue[k]
  <2>1. k \in 1 .. Len(queue) /\ ~(k \in 1 .. n)
    BY <1>2, <1>3, <1>6
  <2>2. k - n \in 1 .. Len(queue) - n /\ n + (k - n) = k /\ n < k
    BY <1>2, <2>1
  <2>3. QED
    BY <1>4, <2>1, <2>2
<1>7. /\ cur # i /\ i # None /\ \A j \in Iterators : j # i => phase'[j] = phase[j]
      /\ phase'[i] = "free"
      /\ cur # None => phase'[cur] = phase[cur]
  BY <1>0, <1>1, <1>2, NilAssumption DEF CurrentInv, Reading
<1>8. /\ it'.index = IF cur = None THEN it.index ELSE Shifted(it.index, n)
      /\ it'.numConsumed = it.numConsumed /\ it'.sameUser = it.sameUser
      /\ it'.user = it.user /\ it'.mark = it.mark
      /\ cur = None => it' = it
  BY <1>2, <1>3 DEF Iteration
<1>9. ASSUME cur # None
      PROVE  /\ it'.index <= Len(queue') + 1 /\ it'.index \in Nat \ {0}
             /\ \A k \in Nat \ {0} : k < it'.index <=> n + k < it.index
             /\ n < it.index => it'.index = it.index - n
             /\ it.index = 1 => it'.index = 1
  <2>1. it'.index = IF it.index > n THEN it.index - n ELSE 1
    BY <1>8, <1>9 DEF Shifted
  <2>2. QED
    BY <1>2, <1>4, <2>1
<1>10. CurrentInv'
  BY <1>0, <1>1, <1>7, <1>8, <1>9 DEF CurrentInv, Reading
<1>11. HoldInv'
  <2>1. \A e \in Events : evIter[e] # None => evIter[e] \in Iterators /\ evIter[e] # i
    BY <1>0, <1>1, <1>2 DEF HoldInv
  <2>2. QED
    BY <1>0, <1>1, <1>7, <2>1 DEF HoldInv, ExclusiveInFlight, Taken, EventsOf
<1>12. MineInv' /\ UserInv'
  <2>1. Mine' = Mine
    BY <1>1 DEF Mine
  <2>2. it'.index <= Len(queue') + 1
    <3>1. cur = None => it'.index = 1
      BY <1>0, <1>8 DEF CurrentInv, NoIteration
    <3>2. QED
      BY <1>2, <1>4, <1>9, <3>1
  <2>3. MineInv'
    <3>1. SUFFICES ASSUME cur # None, NEW k \in DOMAIN queue', queue'[k] # None,
                          evIter[queue'[k]] = cur
                   PROVE  k < it'.index
      BY <1>0, <1>1, <1>8, <2>1, <2>2 DEF MineInv
    <3>2. n + k < it.index
      BY <1>0, <1>5, <3>1 DEF MineInv
    <3>3. QED
      BY <1>5, <1>9, <3>1, <3>2
  <2>4. UserInv'
    BY <1>0, <1>1, <1>8, <2>1 DEF UserInv
  <2>5. QED
    BY <2>3, <2>4
<1>13. LastInv'
  <2>1. SUFFICES ASSUME cur # None, phase[cur] = "yielded", it.mark = "none",
                        NEW k \in DOMAIN queue', LastRead(cur, k)'
                 PROVE  ordIter[OrderingOf[queue'[k]]] = cur
    BY <1>1, <1>7, <1>8 DEF LastInv
  <2>2. /\ k < it'.index /\ queue'[k] # None /\ evIter[queue'[k]] = cur
        /\ \A j \in DOMAIN queue' : j < it'.index /\ queue'[j] # None /\ evIter[queue'[j]] = cur
                                      => j <= k
    BY <1>1, <2>1 DEF LastRead
  <2>3. ASSUME NEW j \in DOMAIN queue, j < it.index, queue[j] # None, evIter[queue[j]] = cur
        PROVE  j <= n + k
    <3>1. j - n \in DOMAIN queue' /\ queue'[j - n] = queue[j] /\ j \in Nat /\ n + (j - n) = j
      BY <1>6, <2>3
    <3>2. j - n \in Nat \ {0} /\ k \in Nat
      BY <1>5, <3>1
    <3>3. j - n < it'.index
      BY <1>9, <2>1, <2>3, <3>1, <3>2
    <3>4. j - n <= k
      BY <2>2, <2>3, <3>1, <3>3
    <3>5. QED
      BY <3>1, <3>2, <3>4
  <2>4. n + k \in DOMAIN queue /\ n + k < it.index /\ queue'[k] = queue[n + k]
    BY <1>5, <1>9, <2>1, <2>2
  <2>5. LastRead(cur, n + k)
    BY <2>2, <2>3, <2>4 DEF LastRead
  <2>6. QED
    BY <1>0, <2>1, <2>4, <2>5 DEF LastInv
<1>14. PeekInv'
  <2>1. SUFFICES ASSUME cur # None, phase[cur] \in MayRead, it.user # None,
                        it.mark # "postponed", it.index \in Candidates(cur)
                 PROVE  it'.index \in Candidates(cur)'
    BY <1>0, <1>1, <1>7, <1>8 DEF PeekInv, Mine
  <2>2. /\ it.index \in it.index .. Len(queue) /\ queue[it.index] # None
        /\ evIter[queue[it.index]] = None
        /\ ordIter[OrderingOf[queue[it.index]]] \in {None, cur}
        /\ it.user # None => UserOf[OrderingOf[queue[it.index]]] = it.user
    BY <2>1 DEF Candidates
  <2>3. it.index \in DOMAIN queue
    BY <1>2, <2>2
  <2>4. n < it.index /\ it'.index \in DOMAIN queue' /\ queue'[it'.index] = queue[it.index]
    BY <1>6, <1>9, <2>1, <2>2, <2>3
  <2>5. it'.index \in it'.index .. Len(queue')
    BY <1>2, <1>4, <2>4
  <2>6. QED
    BY <1>1, <1>8, <2>2, <2>4, <2>5 DEF Candidates
<1>15. PassInv'
  <2>1. SUFFICES ASSUME cur # None, phase[cur] \in MayRead, NEW k \in DOMAIN queue',
                        k < it'.index, queue'[k] # None, evIter[queue'[k]] = None
                 PROVE  PassedFor(k)'
    BY <1>1, <1>7 DEF PassInv
  <2>2. n + k \in DOMAIN queue /\ n + k < it.index /\ queue'[k] = queue[n + k] /\ k \in Nat
    BY <1>5, <1>9, <2>1
  <2>3. PassedFor(n + k)
    BY <1>0, <2>1, <2>2 DEF PassInv
  <2>4. ASSUME NEW j \in DOMAIN queue, j < n + k, queue[j] # None, evIter[queue[j]] = cur
        PROVE  \E z \in DOMAIN queue' : z < k /\ queue'[z] # None /\ evIter[queue'[z]] = cur
    <3>1. j - n \in DOMAIN queue' /\ queue'[j - n] = queue[j] /\ j \in Nat
      BY <1>6, <2>4
    <3>2. j - n < k
      BY <2>2, <2>4, <3>1
    <3>3. QED
      BY <2>4, <3>1, <3>2
  <2>5. QED
    BY <1>1, <1>8, <2>2, <2>3, <2>4 DEF PassedFor
<1>16. QED
  BY <1>10, <1>11, <1>12, <1>13, <1>14, <1>15 DEF DeliveryInv

-----------------------------------------------------------------------------
(* The invariant.                                                          *)

\* Creating and processing events, up to the sender queue.
LEMMA DeliveryProcess ==
  ASSUME TypeOK, ReorderInv, DeliveryInv, TypeOK', ReorderInv', NEW e \in Events,
         CreateEvent(e) \/ \E drop \in BOOLEAN : ProcessEvent(e, drop)
  PROVE  DeliveryInv'
<1>1. /\ UNCHANGED <<cur, it, phase, evIter, ordIter, consumed, releasable, queue, loop>>
      /\ \/ /\ status[e] = "new" /\ status' = [status EXCEPT ![e] = "created"]
            /\ sequence' = [sequence EXCEPT ![e] = nextSeq[OrderingOf[e]]]
         \/ /\ status[e] = "created" /\ sequence' = sequence
            /\ \/ status' = [status EXCEPT ![e] = "buffered"]
               \/ status' = [status EXCEPT ![e] = "forwarding"]
  BY DEF CreateEvent, ProcessEvent, BufferEvent, StartForwarding, iterVars
<1>2. status \in [Events -> Statuses] /\ sequence \in [Events -> Nat]
  BY Types
<1>3. \A f \in Events :
        /\ status[f] = "queued" <=> status'[f] = "queued"
        /\ status[f] = "queued" => sequence'[f] = sequence[f]
  BY <1>1, <1>2
<1>4. FlightInv
  BY DEF DeliveryInv
<1>5. evIter' = evIter
  BY <1>1
<1>6. FlightInv'
  BY <1>3, <1>4, <1>5, FlightKept
<1>7. QED
  BY <1>1, <1>6, DeliveryFrame

\* One turn of enqueue.
LEMMA DeliveryForward ==
  ASSUME TypeOK, ReorderInv, DeliveryInv, TypeOK', ReorderInv', NEW o \in Orderings, Forward(o)
  PROVE  DeliveryInv'
<1>1. UNCHANGED <<cur, it, phase, evIter, ordIter, consumed, releasable, loop>>
  BY DEF Forward, iterVars
<1>2. PICK e : e = fwd[o]
  OBVIOUS
<1>3. /\ e \in Events /\ status[e] \in Waiting
      /\ sequence' = sequence /\ \A f \in Events \ {e} : status'[f] = status[f]
      /\ \/ status'[e] = "dropped" /\ queue' = queue
         \/ status'[e] = "queued" /\ queue' = Append(queue, e)
  BY <1>2, ForwardCases, ForwardedEvent DEF Waiting
<1>4. FlightInv /\ status[e] # "queued" /\ evIter[e] = None
  BY <1>3, InFlight DEF DeliveryInv, Waiting
<1>5. evIter' = evIter
  BY <1>1
<1>6. FlightInv'
  BY <1>3, <1>4, <1>5, FlightKept
<1>7. CASE queue' = queue
  BY <1>1, <1>6, <1>7, DeliveryFrame
<1>8. CASE queue' = Append(queue, e)
  BY <1>1, <1>3, <1>4, <1>6, <1>8, DeliveryAppend
<1>9. QED
  BY <1>3, <1>7, <1>8

\* Every step preserves the invariant.
LEMMA DeliveryStep ==
  ASSUME TypeOK, ReorderInv, DeliveryInv, TypeOK', ReorderInv', [Next]_vars
  PROVE  DeliveryInv'
<1> USE DEF evVars, ordVars, iterVars
<1>0. UNCHANGED <<status, sequence, evIter>> => FlightInv'
  BY DEF DeliveryInv, FlightInv, Before
<1>1. CASE UNCHANGED vars
  BY <1>0, <1>1, DeliveryFrame DEF vars
<1>2. ASSUME NEW e \in Events,
             CreateEvent(e) \/ \E drop \in BOOLEAN : ProcessEvent(e, drop)
      PROVE  DeliveryInv'
  BY <1>2, DeliveryProcess
<1>3. ASSUME NEW o \in Orderings, ForwardWait(o) \/ Wake(o)
      PROVE  DeliveryInv'
  BY <1>0, <1>3, DeliveryFrame DEF ForwardWait, Wake
<1>4. ASSUME NEW o \in Orderings, ForwardAbort(o)
      PROVE  DeliveryInv'
  <2>1. /\ UNCHANGED <<cur, it, phase, evIter, ordIter, consumed, releasable, queue, loop>>
        /\ sequence' = sequence /\ lock = o
        /\ status' = status \/ status' = [status EXCEPT ![fwd[o]] = "abandoned"]
    BY <1>4 DEF ForwardAbort
  <2>2. fwd[o] # None
    BY <2>1, NilAssumption DEF ReorderInv, ForwarderInv
  <2>3. /\ fwd[o] \in Events /\ status[fwd[o]] # "queued"
        /\ status \in [Events -> Statuses] /\ FlightInv
    BY <2>2, ForwardedEvent, Types DEF DeliveryInv
  <2>4. evIter' = evIter /\ \A f \in Events : status[f] = "queued" <=> status'[f] = "queued"
    BY <2>1, <2>3
  <2>5. FlightInv'
    BY <2>1, <2>3, <2>4, FlightKept
  <2>6. QED
    BY <2>1, <2>5, DeliveryFrame
<1>5. ASSUME NEW o \in Orderings, Forward(o)
      PROVE  DeliveryInv'
  BY <1>5, DeliveryForward
<1>6. ASSUME NEW i \in Iterators, NEW pause \in BOOLEAN, LoopTick(i, pause)
      PROVE  DeliveryInv'
  <2>1. FlightInv'
    BY <1>0, <1>6 DEF LoopTick
  <2>2. QED
    BY <1>6, <2>1, DeliveryTick
<1>7. ASSUME NEW i \in Iterators, NEW same \in BOOLEAN, StartIteration(i, same)
      PROVE  DeliveryInv'
  BY <1>7, DeliveryRead
<1>8. ASSUME NEW i \in Iterators, NextEvent(i) \/ First(i)
      PROVE  DeliveryInv'
  BY <1>8, DeliveryRead
<1>9. ASSUME NEW i \in Iterators, BreakIteration(i)
      PROVE  DeliveryInv'
  <2>1. FlightInv'
    BY <1>0, <1>9 DEF BreakIteration
  <2>2. QED
    BY <1>9, <2>1, DeliveryBreak
<1>10. ASSUME NEW i \in Iterators, Peek(i)
       PROVE  DeliveryInv'
  BY <1>10, DeliveryPeek
<1>11. ASSUME NEW i \in Iterators, Discard(i)
       PROVE  DeliveryInv'
  BY <1>11, DeliveryDiscard
<1>12. ASSUME NEW i \in Iterators, Postpone(i)
       PROVE  DeliveryInv'
  BY <1>12, DeliveryPostpone
<1>13. ASSUME NEW i \in Iterators, EndIteration(i) \/ ReturnUnread(i)
       PROVE  DeliveryInv'
  <2>1. FlightInv'
    BY <1>0, <1>13 DEF EndIteration, ReturnUnread
  <2>2. QED
    BY <1>13, <2>1, DeliveryEnd
<1>14. ASSUME NEW i \in Iterators, SendReturn(i)
       PROVE  DeliveryInv'
  BY <1>14, DeliverySendReturn
<1>15. ASSUME NEW i \in Iterators, Compact(i)
       PROVE  DeliveryInv'
  <2>1. FlightInv'
    BY <1>0, <1>15 DEF Compact
  <2>2. QED
    BY <1>15, <2>1, DeliveryCompact
<1>16. CASE PauseEnd
  <2>1. FlightInv'
    BY <1>0, <1>16 DEF PauseEnd
  <2>2. QED
    BY <1>16, <2>1, DeliveryPauseEnd
<1>17. CASE TimerFires \/ LoopIdle \/ Close \/ LoopStop \/ LoopDone
  BY <1>0, <1>17, DeliveryFrame DEF TimerFires, LoopIdle, Close, LoopStop, LoopDone
<1>18. QED
  BY <1>1, <1>2, <1>3, <1>4, <1>5, <1>6, <1>7, <1>8, <1>9, <1>10, <1>11, <1>12, <1>13, <1>14,
     <1>15, <1>16, <1>17 DEF Next

\* The initial state.
LEMMA DeliveryInit ==
  ASSUME Init
  PROVE  DeliveryInv
<1>1. /\ cur = None /\ it = NoIteration /\ phase = [i \in Iterators |-> "free"]
      /\ evIter = [e \in Events |-> None] /\ ordIter = [o \in Orderings |-> None]
      /\ consumed = [o \in Orderings |-> 0] /\ releasable = {} /\ queue = <<>> /\ loop = "select"
  BY DEF Init
<1>2. it.index = 1 /\ it.user = None /\ it.sameUser = FALSE
  BY <1>1 DEF NoIteration
<1>3. CurrentInv
  BY <1>1, NilAssumption DEF CurrentInv, Reading
<1>4. HoldInv
  <2>1. \A o : Taken(o) = {}
    BY <1>1 DEF Taken, EventsOf
  <2>2. QED
    BY <1>1, <2>1, FS_EmptySet DEF HoldInv, ExclusiveInFlight
<1>5. MineInv
  BY <1>1, <1>2 DEF MineInv
<1>6. UserInv /\ LastInv /\ PeekInv /\ PassInv /\ FlightInv
  BY <1>1, <1>2 DEF UserInv, LastInv, PeekInv, PassInv, FlightInv
<1>7. QED
  BY <1>3, <1>4, <1>5, <1>6 DEF DeliveryInv

\* The invariant of the iterators, with the one of the reordering.
THEOREM DeliveryInvariance == Spec => [](TypeOK /\ ReorderInv /\ DeliveryInv)
<1>1. Init => DeliveryInv
  BY DeliveryInit
<1>2. /\ TypeOK /\ ReorderInv /\ DeliveryInv /\ TypeOK' /\ ReorderInv'
      /\ [Next]_vars
      => DeliveryInv'
  BY DeliveryStep
<1>3. QED
  BY <1>1, <1>2, Invariance, PTL DEF Spec

\* ExclusiveInFlight is an invariant: however the iterations, the sends that are
\* waiting for an answer and the returns of events interleave, the events of an
\* ordering that are in flight are in the hands of one iterator.
THEOREM InFlightExclusive == Spec => []ExclusiveInFlight
<1>1. DeliveryInv => ExclusiveInFlight
  BY DEF DeliveryInv, HoldInv
<1>2. QED
  BY <1>1, DeliveryInvariance, PTL

\* An earlier pending event goes with the same iterator.
LEMMA OrderOfFlight ==
  ASSUME TypeOK, ReorderInv, DeliveryInv
  PROVE  TakenInOrder
<1>1. SUFFICES ASSUME NEW e \in Events, NEW f \in Events,
                      Before(e, f), status[e] \in Pending, evIter[f] # None
               PROVE  evIter[e] = evIter[f]
  BY DEF TakenInOrder
<1>2. status[f] = "queued" /\ sequence[e] \in Nat /\ sequence[f] \in Nat
  BY <1>1, InFlight, Types
<1>3. status[e] = "queued" \/ status[e] \in Waiting
  BY <1>1 DEF Pending, Waiting
<1>4. status[e] \in Waiting => sequence[f] < sequence[e]
  BY <1>1, <1>2 DEF ReorderInv, QueueInv, Before
<1>5. status[e] = "queued"
  BY <1>1, <1>2, <1>3, <1>4 DEF Before
<1>6. QED
  BY <1>1, <1>5 DEF DeliveryInv, FlightInv

\* TakenInOrder is an invariant: an event is never in flight while an earlier
\* one of its ordering is pending elsewhere, in a buffer, in the queue or with
\* another iterator.
THEOREM DeliveredInOrder == Spec => []TakenInOrder
<1>1. TypeOK /\ ReorderInv /\ DeliveryInv => TakenInOrder
  BY OrderOfFlight
<1>2. QED
  BY <1>1, DeliveryInvariance, PTL

\* SameUserBatch is an invariant: a SameUser iteration holds events of one user,
\* also after Peek selected the user, or all its events were discarded and it
\* selected another.
THEOREM OneUserPerBatch == Spec => []SameUserBatch
<1>1. DeliveryInv => SameUserBatch
  BY DEF DeliveryInv, UserInv, Mine, SameUserBatch
<1>2. QED
  BY <1>1, DeliveryInvariance, PTL

-----------------------------------------------------------------------------
(* The sender implements OrderedDelivery.                                  *)

\* What a status says of the stage of an event.
LEMMA StageOf ==
  ASSUME TypeOK, NEW e \in Events
  PROVE  /\ Stage[e] = "new" <=> status[e] = "new"
         /\ Stage[e] = "pending" <=> status[e] \in Pending
         /\ Stage[e] = "finished" <=> status[e] \in Final
<1>1. status[e] \in Statuses
  BY Types
<1>2. Stage[e] = CASE status[e] = "new" -> "new"
                   [] status[e] \in Pending -> "pending"
                   [] OTHER -> "finished"
  BY DEF Stage
<1>3. QED
  BY <1>1, <1>2 DEF Statuses, Pending, Final

\* Events that go on in the buffers and the queue are of no concern here.
LEMMA StageKept ==
  ASSUME \A e \in Events :
           status'[e] = status[e] \/ {status[e], status'[e]} \subseteq Pending
  PROVE  Stage' = Stage
<1>1. \A e \in Events : Stage'[e] = Stage[e]
  <2>1. SUFFICES ASSUME NEW e \in Events
                 PROVE  Stage'[e] = Stage[e]
    OBVIOUS
  <2>2. CASE status'[e] = status[e]
    BY <2>2 DEF Stage
  <2>3. CASE {status[e], status'[e]} \subseteq Pending
    <3>1. status[e] # "new" /\ status'[e] # "new" /\ status[e] \in Pending /\ status'[e] \in Pending
      BY <2>3 DEF Pending
    <3>2. QED
      BY <3>1 DEF Stage
  <2>4. QED
    BY <2>2, <2>3
<1>2. QED
  BY <1>1 DEF Stage

\* The events F are finished and the others go on.
LEMMA FinishAll ==
  ASSUME TypeOK, TypeOK', NEW F \in SUBSET Events, sequence' = sequence,
         \A e \in F : status[e] \in Pending /\ status'[e] \in Final,
         \A e \in Events \ F :
           status'[e] = status[e] \/ {status[e], status'[e]} \subseteq Pending,
         evIter' = [e \in Events |-> IF e \in F THEN None ELSE evIter[e]]
  PROVE  Delivery!Finish(F)
<1>1. \A e \in F : Stage[e] = "pending" /\ Stage'[e] = "finished"
  <2>1. SUFFICES ASSUME NEW e \in F
                 PROVE  Stage[e] = "pending" /\ Stage'[e] = "finished"
    OBVIOUS
  <2>2. status'[e] # "new" /\ status'[e] \notin Pending /\ status[e] # "new"
    BY DEF Pending, Final
  <2>3. QED
    BY <2>2 DEF Stage
<1>2. \A e \in Events \ F : Stage'[e] = Stage[e]
  <2>1. SUFFICES ASSUME NEW e \in Events \ F
                 PROVE  Stage'[e] = Stage[e]
    OBVIOUS
  <2>2. CASE status'[e] = status[e]
    BY <2>2 DEF Stage
  <2>3. CASE {status[e], status'[e]} \subseteq Pending
    <3>1. status[e] # "new" /\ status'[e] # "new" /\ status[e] \in Pending /\ status'[e] \in Pending
      BY <2>3 DEF Pending
    <3>2. QED
      BY <3>1 DEF Stage
  <2>4. QED
    BY <2>2, <2>3
<1>3. Stage' = [e \in Events |-> IF e \in F THEN "finished" ELSE Stage[e]]
  <2>1. Stage' = [e \in Events |-> Stage'[e]]
    BY DEF Stage
  <2>2. QED
    BY <1>1, <1>2, <2>1
<1>4. QED
  BY <1>1, <1>3 DEF Delivery!Finish

\* CreateEvent gives the event a number above those of the pending ones,
\* although the pool starts the numbers of a disposed ordering again.
LEMMA ImplementsCreate ==
  ASSUME TypeOK, TypeOK', ReorderInv, NEW e \in Events, CreateEvent(e)
  PROVE  Delivery!Create(e)
<1>1. /\ status[e] = "new" /\ status' = [status EXCEPT ![e] = "created"]
      /\ sequence' = [sequence EXCEPT ![e] = nextSeq[OrderingOf[e]]]
      /\ evIter' = evIter /\ acked' = acked
  BY DEF CreateEvent
<1>2. status \in [Events -> Statuses] /\ sequence \in [Events -> Nat]
  BY Types
<1>3. Stage[e] = "new" /\ Stage' = [Stage EXCEPT ![e] = "pending"]
  <2>1. \A f \in Events \ {e} : Stage'[f] = Stage[f]
    BY <1>1, <1>2 DEF Stage
  <2>2. Stage[e] = "new" /\ Stage'[e] = "pending"
    BY <1>1, <1>2 DEF Stage, Pending
  <2>3. Stage' = [f \in Events |-> Stage'[f]] /\ Stage = [f \in Events |-> Stage[f]]
    BY DEF Stage
  <2>4. QED
    BY <2>1, <2>2, <2>3
<1>4. /\ sequence' \in [Events -> Nat] /\ sequence'[e] = nextSeq[OrderingOf[e]]
      /\ \A f \in Events \ {e} : sequence'[f] = sequence[f]
  BY <1>1, <1>2 DEF TypeOK, EventTypes
<1>5. \A f \in Delivery!Companions(e) : sequence[f] < sequence'[e]
  <2>1. SUFFICES ASSUME NEW f \in Events, Stage[f] = "pending", OrderingOf[f] = OrderingOf[e]
                 PROVE  sequence[f] < nextSeq[OrderingOf[f]]
    BY <1>4 DEF Delivery!Companions
  <2>2. status[f] = "queued" \/ status[f] \in Waiting
    BY <2>1, StageOf DEF Pending, Waiting
  <2>3. QED
    BY <2>2 DEF ReorderInv, QueueInv, SequenceInv
<1>6. QED
  BY <1>1, <1>3, <1>4, <1>5 DEF Delivery!Create

\* read(true) takes an event in order.
LEMMA ImplementsTake ==
  ASSUME TypeOK, TypeOK', ReorderInv, TakenInOrder', NEW i \in Iterators, NEW fields,
         NEW k \in DOMAIN queue, FirstCandidate(i, k), Consume(i, k, fields),
         UNCHANGED <<status, sequence, acked>>
  PROVE  \E e \in Events : Delivery!Take(e, i)
<1>1. PICK e : e = queue[k]
  OBVIOUS
<1>2. e # None /\ evIter[e] = None /\ evIter' = [evIter EXCEPT ![e] = i]
  BY <1>1 DEF FirstCandidate, Candidates, Consume
<1>3. e \in Events /\ status[e] = "queued"
  BY <1>1, <1>2, QueueElement DEF ReorderInv, QueueInv
<1>4. evIter'[e] = i /\ i # None /\ \A f \in Events \ {e} : evIter'[f] = evIter[f]
  BY <1>2, <1>3, Types, NilAssumption
<1>5. Stage' = Stage /\ Stage[e] = "pending"
  BY <1>3, StageOf DEF Stage, Pending
<1>6. ASSUME NEW f \in Delivery!Companions(e), Delivery!Follows(e, f)
      PROVE  evIter[f] = i
  <2>1. /\ f \in Events /\ Stage[f] = "pending" /\ OrderingOf[f] = OrderingOf[e]
        /\ sequence[f] < sequence[e]
    BY <1>6 DEF Delivery!Companions, Delivery!Follows
  <2>2. status'[f] \in Pending /\ Before(f, e)' /\ f # e
    BY <1>3, <2>1, StageOf, Types DEF Before
  <2>3. evIter'[f] = i
    BY <1>3, <1>4, <2>1, <2>2 DEF TakenInOrder
  <2>4. QED
    BY <1>4, <2>1, <2>2, <2>3
<1>7. Delivery!Take(e, i)
  BY <1>2, <1>5, <1>6 DEF Delivery!Take
<1>8. QED
  BY <1>3, <1>7

\* Postpone gives back the event that was read last, before those that follow
\* it.
LEMMA ImplementsGiveBack ==
  ASSUME TypeOK, TypeOK', ReorderInv, DeliveryInv, TakenInOrder', NEW i \in Iterators, Postpone(i)
  PROVE  \E e \in Events : Delivery!GiveBack(e)
<1>1. PICK k \in DOMAIN queue : LastRead(i, k) /\ PostponeAt(i, k)
  BY DEF Postpone
<1>2. PICK e : e = queue[k]
  OBVIOUS
<1>3. /\ evIter' = [evIter EXCEPT ![e] = None]
      /\ UNCHANGED <<status, sequence, acked>> /\ phase[i] = "yielded"
  BY <1>1, <1>2 DEF PostponeAt
<1>4. e \in Events /\ evIter[e] = i /\ i # None
  BY <1>1, <1>2, <1>3, ReadLast
<1>5. status[e] = "queued"
  BY <1>4 DEF ReorderInv, QueueInv
<1>6. evIter'[e] = None /\ \A f \in Events \ {e} : evIter'[f] = evIter[f]
  BY <1>3, <1>4, Types
<1>7. Stage' = Stage
  BY <1>3 DEF Stage
<1>8. ASSUME NEW f \in Delivery!Companions(e), Delivery!Follows(f, e)
      PROVE  evIter[f] = None
  <2>1. f \in Events /\ OrderingOf[f] = OrderingOf[e] /\ sequence[e] < sequence[f]
    BY <1>8 DEF Delivery!Companions, Delivery!Follows
  <2>2. status'[e] \in Pending /\ Before(e, f)' /\ f # e
    BY <1>3, <1>4, <1>5, <2>1, Types DEF Before, Pending
  <2>3. evIter'[f] = None
    BY <1>4, <1>6, <2>1, <2>2 DEF TakenInOrder
  <2>4. QED
    BY <1>6, <2>1, <2>2, <2>3
<1>9. Delivery!GiveBack(e)
  BY <1>3, <1>4, <1>7, <1>8 DEF Delivery!GiveBack
<1>10. QED
  BY <1>4, <1>9

\* An event leaves the sender without having been sent: its caller discards
\* it, the connector does, or Close comes first.
LEMMA ImplementsDrop ==
  ASSUME TypeOK, TypeOK', NEW e \in Events, status[e] \in Pending, NEW s \in Final,
         status' = [status EXCEPT ![e] = s], evIter' = [evIter EXCEPT ![e] = None],
         UNCHANGED <<sequence, acked>>
  PROVE  Delivery!Drop(e)
<1>1. status'[e] = s /\ \A f \in Events \ {e} : status'[f] = status[f]
  BY Types
<1>2. evIter' = [f \in Events |-> IF f \in {e} THEN None ELSE evIter[f]]
  BY Types
<1>3. Delivery!Finish({e})
  BY <1>1, <1>2, FinishAll
<1>4. QED
  BY <1>3 DEF Delivery!Drop

\* One turn of orderingQueue.enqueue drops the event or moves it to the queue.
LEMMA ImplementsForward ==
  ASSUME TypeOK, TypeOK', ReorderInv, NEW o \in Orderings, Forward(o) \/ ForwardAbort(o)
  PROVE  \/ \E e \in Events : Delivery!Drop(e)
         \/ UNCHANGED <<Stage, sequence, evIter, acked>>
<1>1. PICK e : e = fwd[o]
  OBVIOUS
<1>2. lock = o /\ UNCHANGED <<sequence, evIter, acked>>
  BY DEF Forward, ForwardAbort
<1>3. e # None /\ e \in Events
  BY <1>1, <1>2, NilAssumption DEF ReorderInv, ForwarderInv, TypeOK, ForwarderTypes
<1>4. status[e] \in Waiting /\ (last[o] = 0 => status[e] = "forwarding")
  BY <1>1, <1>3 DEF ReorderInv, ForwarderInv
<1>5. evIter[e] = None
  BY <1>3, <1>4 DEF ReorderInv, QueueInv, Waiting
<1>6. evIter' = [evIter EXCEPT ![e] = None]
  BY <1>2, <1>3, <1>5, Types
<1>7. \/ status' = status
      \/ status' = [status EXCEPT ![e] = "queued"]
      \/ \E s \in Final : status' = [status EXCEPT ![e] = s]
  BY <1>1 DEF Forward, ForwardAbort, Enqueue, Skip, Final
<1>8. CASE \E s \in Final : status' = [status EXCEPT ![e] = s]
  BY <1>2, <1>3, <1>4, <1>6, <1>8, ImplementsDrop DEF Waiting, Pending
<1>9. CASE status' = status
  BY <1>2, <1>9 DEF Stage
<1>10. CASE status' = [status EXCEPT ![e] = "queued"]
  <2>1. \A f \in Events : status'[f] = status[f] \/ {status[f], status'[f]} \subseteq Pending
    BY <1>3, <1>4, <1>10, Types DEF Waiting, Pending
  <2>2. QED
    BY <1>2, <2>1, StageKept
<1>11. QED
  BY <1>7, <1>8, <1>9, <1>10

\* SendEvents returns: what its iterator took is finished and acknowledged.
LEMMA ImplementsSend ==
  ASSUME TypeOK, TypeOK', ReorderInv, NEW i \in Iterators, SendReturn(i)
  PROVE  Delivery!Send(i)
<1>1. PICK mine : mine = {e \in Events : evIter[e] = i}
  OBVIOUS
<1>2. /\ status' = [e \in Events |-> IF e \in mine THEN "sent" ELSE status[e]]
      /\ evIter' = [e \in Events |-> IF e \in mine THEN None ELSE evIter[e]]
      /\ acked' = acked \cup mine /\ sequence' = sequence
  BY <1>1 DEF SendReturn
<1>3. mine \in SUBSET Events /\ mine = Delivery!HeldBy(i)
  BY <1>1 DEF Delivery!HeldBy
<1>4. \A e \in mine : status[e] \in Pending /\ status'[e] \in Final
  BY <1>1, <1>2, NilAssumption DEF ReorderInv, QueueInv, Pending, Final
<1>5. \A e \in Events \ mine : status'[e] = status[e]
  BY <1>2
<1>6. Delivery!Finish(mine)
  BY <1>2, <1>3, <1>4, <1>5, FinishAll
<1>7. QED
  BY <1>2, <1>3, <1>6 DEF Delivery!Send

\* The connector discards an event that it has read.
LEMMA ImplementsReject ==
  ASSUME TypeOK, TypeOK', ReorderInv, NEW i \in Iterators, Discard(i)
  PROVE  \E e \in Events : Delivery!Drop(e)
<1>1. PICK k \in DOMAIN queue : LastRead(i, k) /\ DiscardAt(i, k)
  BY DEF Discard
<1>2. PICK e : e = queue[k]
  OBVIOUS
<1>3. e \in Events /\ status[e] = "queued"
  BY <1>1, <1>2, Position DEF LastRead
<1>4. /\ status' = [status EXCEPT ![e] = "rejected"] /\ evIter' = [evIter EXCEPT ![e] = None]
      /\ UNCHANGED <<sequence, acked>>
  BY <1>1, <1>2 DEF DiscardAt
<1>5. QED
  BY <1>3, <1>4, ImplementsDrop DEF Pending, Final

\* Every step of the sender is one of OrderedDelivery, or leaves its state alone.
LEMMA ImplementsStep ==
  ASSUME TypeOK, TypeOK', ReorderInv, DeliveryInv, TakenInOrder', [Next]_vars
  PROVE  [Delivery!Next]_<<Stage, sequence, evIter, acked>>
<1> DEFINE Quiet == UNCHANGED <<Stage, sequence, evIter, acked>>
<1> USE DEF evVars, ordVars, fwdVars, iterVars
<1>1. ASSUME UNCHANGED <<status, sequence, evIter, acked>>
      PROVE  Quiet
  BY <1>1 DEF Stage
<1>2. CASE UNCHANGED vars
  BY <1>1, <1>2 DEF vars
<1>3. ASSUME NEW e \in Events, CreateEvent(e)
      PROVE  Delivery!Next
  BY <1>3, ImplementsCreate DEF Delivery!Next
<1>4. ASSUME NEW e \in Events, NEW drop \in BOOLEAN, ProcessEvent(e, drop)
      PROVE  Quiet
  <2>1. /\ status[e] = "created" /\ UNCHANGED <<sequence, evIter, acked>>
        /\ \/ status' = [status EXCEPT ![e] = "buffered"]
           \/ status' = [status EXCEPT ![e] = "forwarding"]
    BY <1>4 DEF ProcessEvent, BufferEvent, StartForwarding
  <2>2. \A f \in Events : status'[f] = status[f] \/ {status[f], status'[f]} \subseteq Pending
    BY <2>1, Types DEF Pending
  <2>3. QED
    BY <2>1, <2>2, StageKept
<1>5. ASSUME NEW o \in Orderings, ForwardWait(o) \/ Wake(o)
      PROVE  Quiet
  BY <1>1, <1>5 DEF ForwardWait, Wake
<1>6. ASSUME NEW o \in Orderings, ForwardAbort(o) \/ Forward(o)
      PROVE  Delivery!Next \/ Quiet
  BY <1>6, ImplementsForward DEF Delivery!Next
<1>7. ASSUME NEW i \in Iterators, NEW pause \in BOOLEAN, LoopTick(i, pause)
      PROVE  Quiet
  BY <1>1, <1>7 DEF LoopTick
<1>8. ASSUME NEW i \in Iterators, NEW fields, ReadNext(i, fields),
             UNCHANGED <<status, sequence, acked>>
      PROVE  Delivery!Next \/ Quiet
  <2>1. CASE \E k \in DOMAIN queue : FirstCandidate(i, k) /\ Consume(i, k, fields)
    BY <1>8, <2>1, ImplementsTake DEF Delivery!Next
  <2>2. CASE ReadNothing(fields)
    BY <1>1, <1>8, <2>2 DEF ReadNothing
  <2>3. QED
    BY <1>8, <2>1, <2>2 DEF ReadNext
<1>9. ASSUME NEW i \in Iterators, NEW same \in BOOLEAN, StartIteration(i, same)
      PROVE  Delivery!Next \/ Quiet
  BY <1>8, <1>9 DEF StartIteration
<1>10. ASSUME NEW i \in Iterators, NextEvent(i)
       PROVE  Delivery!Next \/ Quiet
  BY <1>8, <1>10 DEF NextEvent
<1>11. ASSUME NEW i \in Iterators, First(i)
       PROVE  Delivery!Next
  BY <1>11, ImplementsTake DEF First, Delivery!Next
<1>12. ASSUME NEW i \in Iterators, Peek(i)
       PROVE  Quiet
  <2>1. UNCHANGED <<status, sequence, evIter, acked>>
    BY <1>12, Zenon DEF Peek
  <2>2. QED
    BY <1>1, <2>1
<1>13. ASSUME NEW i \in Iterators,
              BreakIteration(i) \/ EndIteration(i) \/ ReturnUnread(i) \/ Compact(i)
       PROVE  Quiet
  BY <1>1, <1>13 DEF BreakIteration, EndIteration, ReturnUnread, Compact
<1>14. ASSUME NEW i \in Iterators, Discard(i)
       PROVE  Delivery!Next
  BY <1>14, ImplementsReject DEF Delivery!Next
<1>15. ASSUME NEW i \in Iterators, Postpone(i)
       PROVE  Delivery!Next
  BY <1>15, ImplementsGiveBack DEF Delivery!Next
<1>16. ASSUME NEW i \in Iterators, SendReturn(i)
       PROVE  Delivery!Next
  BY <1>16, ImplementsSend DEF Delivery!Next
<1>17. CASE TimerFires \/ LoopIdle \/ PauseEnd \/ Close \/ LoopStop \/ LoopDone
  BY <1>1, <1>17 DEF TimerFires, LoopIdle, PauseEnd, Close, LoopStop, LoopDone
<1>18. QED
  BY <1>2, <1>3, <1>4, <1>5, <1>6, <1>7, <1>9, <1>10, <1>11, <1>12, <1>13, <1>14, <1>15,
     <1>16, <1>17 DEF Next

\* The sender implements OrderedDelivery: for its callers and the application
\* every method, by any goroutine, is one step of the ordered delivery or none.
THEOREM DeliveryImplemented == Spec => ImplementsDelivery
<1>1. ASSUME Init
      PROVE  Delivery!Init
  <2>1. status = [e \in Events |-> "new"]
    BY <1>1 DEF Init
  <2>2. Stage = [e \in Events |-> "new"]
    BY <2>1 DEF Stage, Pending
  <2>3. QED
    BY <1>1, <2>2 DEF Init, Delivery!Init
<1>2. TypeOK /\ ReorderInv /\ DeliveryInv => TakenInOrder
  BY OrderOfFlight
<1>3. /\ TypeOK /\ ReorderInv /\ DeliveryInv /\ TypeOK' /\ TakenInOrder' /\ [Next]_vars
      => [Delivery!Next]_<<Stage, sequence, evIter, acked>>
  BY ImplementsStep
<1>4. QED
  BY <1>1, <1>2, <1>3, DeliveryInvariance, PTL DEF Spec, ImplementsDelivery, Delivery!Spec

-----------------------------------------------------------------------------
(* Nothing is lost on the way to the queue, as long as nobody has to wait  *)
(* for room in it. When somebody has to, an event may be lost: the index   *)
(* `last' is stale once the buffer changed, see NoEventLost.               *)

\* The sequence number that is forwarded or expected in an ordering.
Lowest(o) == IF fwd[o] # None THEN sequence[fwd[o]] ELSE expected[o]

\* Every sequence number from that one on belongs to a waiting event, and a
\* buffered event that is expected is being forwarded.
GapInv ==
  \A o \in Orderings :
    /\ \A s \in Nat : Lowest(o) <= s /\ s < nextSeq[o] =>
         \E e \in EventsOf(o) : status[e] \in Waiting /\ sequence[e] = s
    /\ fwd[o] = None =>
         \A e \in EventsOf(o) : status[e] = "buffered" => sequence[e] # expected[o]

\* The goroutine in enqueue keeps the mutex, its index is the length of the
\* buffer, and a buffered event is in the buffer.
BufferedInv ==
  /\ \A o \in Orderings : fwd[o] # None => lock = o
  /\ \A o \in Orderings : fwd[o] # None /\ last[o] # 0 => last[o] = Len(buf[o])
  /\ \A e \in Events : status[e] = "forwarding" => fwd[OrderingOf[e]] = e
  /\ \A e \in Events : status[e] = "buffered" =>
       \E k \in DOMAIN buf[OrderingOf[e]] : buf[OrderingOf[e]][k] = e
  /\ closed \/ GapInv

\* Queued events leave the queue, and orderings without outstanding events are
\* disposed of.
LEMMA BufferedDispose ==
  ASSUME TypeOK, ReorderInv, BufferedInv, NEW D \in SUBSET Orderings, DisposeOrderings(D),
         UNCHANGED <<sequence, fwd, last, lock>>, closed => closed',
         \A o \in D : expected[o] = nextSeq[o],
         \A e \in Events : \/ status'[e] = status[e]
                           \/ status[e] = "queued" /\ status'[e] \in Final
  PROVE  BufferedInv'
<1>1. \A e \in Events : /\ status'[e] \in Waiting <=> status[e] \in Waiting
                        /\ status'[e] = "buffered" <=> status[e] = "buffered"
                        /\ status'[e] = "forwarding" <=> status[e] = "forwarding"
  BY DEF Waiting, Final
<1>2. /\ nextSeq \in [Orderings -> Nat] /\ expected \in [Orderings -> Nat]
      /\ sequence \in [Events -> Nat] /\ fwd \in [Orderings -> Events \cup {None}]
  BY DEF TypeOK, OrderingTypes, EventTypes, ForwarderTypes
<1>3. \A o \in Orderings :
        /\ nextSeq'[o] = IF o \in D THEN 0 ELSE nextSeq[o]
        /\ expected'[o] = IF o \in D THEN 0 ELSE expected[o]
        /\ buf'[o] = IF o \in D THEN <<>> ELSE buf[o]
  BY DEF DisposeOrderings
<1>4. ASSUME NEW e \in Events, status[e] \in Waiting PROVE OrderingOf[e] \notin D
  <2>1. /\ OrderingOf[e] \in Orderings /\ expected[OrderingOf[e]] <= sequence[e]
        /\ sequence[e] < nextSeq[OrderingOf[e]]
    BY <1>4, DataAssumption DEF ReorderInv, SequenceInv
  <2>2. expected[OrderingOf[e]] # nextSeq[OrderingOf[e]]
    BY <1>2, <2>1
  <2>3. QED
    BY <2>2
<1>5. ASSUME NEW o \in Orderings, fwd[o] # None PROVE o \notin D
  <2>1. fwd[o] \in Events /\ OrderingOf[fwd[o]] = o /\ status[fwd[o]] \in Waiting
    BY <1>2, <1>5 DEF ReorderInv, ForwarderInv
  <2>2. QED
    BY <1>4, <2>1
<1>6. /\ \A o \in Orderings : fwd'[o] # None => lock' = o
      /\ \A o \in Orderings : fwd'[o] # None /\ last'[o] # 0 => last'[o] = Len(buf'[o])
      /\ \A e \in Events : status'[e] = "forwarding" => fwd'[OrderingOf[e]] = e
  BY <1>1, <1>3, <1>5 DEF BufferedInv
<1>7. ASSUME NEW e \in Events, status'[e] = "buffered"
      PROVE  \E k \in DOMAIN buf'[OrderingOf[e]] : buf'[OrderingOf[e]][k] = e
  <2>1. status[e] = "buffered" /\ OrderingOf[e] \notin D /\ OrderingOf[e] \in Orderings
    BY <1>1, <1>4, <1>7, DataAssumption DEF Waiting
  <2>2. QED
    BY <1>3, <2>1 DEF BufferedInv
<1>8. ASSUME GapInv, NEW o \in Orderings
      PROVE  /\ \A s \in Nat : Lowest(o)' <= s /\ s < nextSeq'[o] =>
                  \E e \in EventsOf(o) : status'[e] \in Waiting /\ sequence'[e] = s
             /\ fwd'[o] = None =>
                  \A e \in EventsOf(o) : status'[e] = "buffered" => sequence'[e] # expected'[o]
  <2>1. CASE o \in D
    <3>1. fwd[o] = None /\ nextSeq'[o] = 0
      BY <1>3, <1>5, <2>1
    <3>2. \A e \in EventsOf(o) : status'[e] # "buffered"
      BY <1>1, <1>4, <2>1 DEF EventsOf, Waiting
    <3>3. \A s \in Nat : ~(s < 0)
      OBVIOUS
    <3>4. QED
      BY <3>1, <3>2, <3>3
  <2>2. CASE o \notin D
    <3>1. Lowest(o)' = Lowest(o) /\ nextSeq'[o] = nextSeq[o] /\ expected'[o] = expected[o]
      BY <1>3, <2>2 DEF Lowest
    <3>2. QED
      BY <1>1, <1>8, <3>1 DEF GapInv, EventsOf
  <2>3. QED
    BY <2>1, <2>2
<1>9. closed' \/ GapInv'
  BY <1>8 DEF BufferedInv, GapInv, EventsOf
<1>10. QED
  BY <1>6, <1>7, <1>9 DEF BufferedInv

\* Steps that only concern the queue and the iterators.
LEMMA BufferedFrame ==
  ASSUME TypeOK, ReorderInv, BufferedInv,
         UNCHANGED <<status, sequence, fwd, last, lock, orderings, nextSeq, expected, buf>>,
         closed => closed'
  PROVE  BufferedInv'
<1>1. DisposeOrderings({})
  BY DisposeNone
<1>2. QED
  BY <1>1, BufferedDispose

\* An event is created.
LEMMA BufferedCreate ==
  ASSUME TypeOK, ReorderInv, BufferedInv, NEW x \in Events, CreateEvent(x)
  PROVE  BufferedInv'
<1>1. /\ status[x] = "new" /\ status' = [status EXCEPT ![x] = "created"]
      /\ sequence' = [sequence EXCEPT ![x] = nextSeq[OrderingOf[x]]]
      /\ nextSeq' = [nextSeq EXCEPT ![OrderingOf[x]] = @ + 1]
      /\ UNCHANGED <<expected, buf, fwd, last, lock, closed>>
  BY DEF CreateEvent, fwdVars
<1>2. /\ status \in [Events -> Statuses] /\ sequence \in [Events -> Nat]
      /\ nextSeq \in [Orderings -> Nat] /\ expected \in [Orderings -> Nat]
      /\ fwd \in [Orderings -> Events \cup {None}] /\ OrderingOf[x] \in Orderings
  BY DataAssumption DEF TypeOK, OrderingTypes, EventTypes, ForwarderTypes
<1>3. /\ status'[x] = "created" /\ sequence'[x] = nextSeq[OrderingOf[x]]
      /\ \A e \in Events : e # x => status'[e] = status[e] /\ sequence'[e] = sequence[e]
      /\ nextSeq'[OrderingOf[x]] = nextSeq[OrderingOf[x]] + 1
      /\ \A o \in Orderings : o # OrderingOf[x] => nextSeq'[o] = nextSeq[o]
  BY <1>1, <1>2
<1>4. ASSUME NEW o \in Orderings PROVE Lowest(o)' = Lowest(o)
  <2>1. fwd[o] # None => fwd[o] \in Events /\ fwd[o] # x
    <3>1. fwd[o] # None => status[fwd[o]] \in Waiting
      BY DEF ReorderInv, ForwarderInv
    <3>2. QED
      BY <1>1, <1>2, <3>1 DEF Waiting
  <2>2. QED
    BY <1>1, <1>3, <2>1 DEF Lowest
<1>5. ASSUME GapInv, NEW o \in Orderings, NEW s \in Nat, Lowest(o)' <= s, s < nextSeq'[o]
      PROVE  \E e \in EventsOf(o) : status'[e] \in Waiting /\ sequence'[e] = s
  <2>1. CASE s < nextSeq[o]
    <3>1. PICK e \in EventsOf(o) : status[e] \in Waiting /\ sequence[e] = s
      BY <1>4, <1>5, <2>1 DEF GapInv
    <3>2. QED
      BY <1>1, <1>3, <3>1 DEF EventsOf, Waiting
  <2>2. CASE ~(s < nextSeq[o])
    <3>1. o = OrderingOf[x] /\ s = nextSeq[o]
      BY <1>2, <1>3, <1>5, <2>2
    <3>2. QED
      BY <1>3, <3>1 DEF EventsOf, Waiting
  <2>3. QED
    BY <2>1, <2>2
<1>6. ASSUME GapInv, NEW o \in Orderings, fwd'[o] = None, NEW e \in EventsOf(o),
             status'[e] = "buffered"
      PROVE  sequence'[e] # expected'[o]
  BY <1>1, <1>3, <1>6 DEF GapInv, EventsOf
<1>7. closed' \/ GapInv'
  BY <1>1, <1>5, <1>6 DEF BufferedInv, GapInv, EventsOf
<1>8. QED
  BY <1>1, <1>3, <1>7 DEF BufferedInv

\* An event that is out of order goes to the buffer.
LEMMA BufferedBuffer ==
  ASSUME TypeOK, ReorderInv, BufferedInv, NEW x \in Events, NEW drop \in BOOLEAN,
         ProcessEvent(x, drop), BufferEvent(x)
  PROVE  BufferedInv'
<1> USE DEF fwdVars
<1>a. PICK o : o = OrderingOf[x]
  OBVIOUS
<1>1. PICK p \in 1 .. Len(buf[o]) + 1 : buf' = [buf EXCEPT ![o] = InsertAt(@, p, x)]
  BY <1>a DEF BufferEvent
<1>2. /\ status[x] = "created" /\ status' = [status EXCEPT ![x] = "buffered"]
      /\ lock = None /\ sequence[x] # expected[o]
      /\ UNCHANGED <<sequence, nextSeq, expected, fwd, last, lock, closed>>
  BY <1>a DEF ProcessEvent, BufferEvent, InOrder
<1>3. /\ status \in [Events -> Statuses] /\ o \in Orderings
      /\ buf \in [Orderings -> Seq(Events)] /\ buf[o] \in Seq(Events)
  BY <1>a, DataAssumption DEF TypeOK, EventTypes, OrderingTypes
<1>4. /\ \A e \in Events : e # x => status'[e] = status[e]
      /\ status'[x] = "buffered" /\ \A q \in Orderings : q # o => buf'[q] = buf[q]
      /\ \A q \in Orderings : fwd[q] = None
  BY <1>1, <1>2, <1>3, NilAssumption DEF BufferedInv
<1>5. /\ DOMAIN buf'[o] = 1 .. Len(buf[o]) + 1 /\ buf'[o][p] = x
      /\ \A k \in DOMAIN buf[o] :
           IF k < p THEN buf'[o][k] = buf[o][k]
           ELSE k + 1 \in 1 .. Len(buf[o]) + 1 /\ buf'[o][k + 1] = buf[o][k]
  <2>1. PICK s : s = buf[o]
    OBVIOUS
  <2>2. PICK t : t = InsertAt(s, p, x)
    OBVIOUS
  <2>3. s \in Seq(Events) /\ p \in 1 .. Len(s) + 1 /\ buf'[o] = t
    BY <1>1, <1>3, <2>1, <2>2
  <2>4. /\ t \in Seq(Events) /\ Len(t) = Len(s) + 1
        /\ \A k \in 1 .. Len(s) + 1 :
             t[k] = IF k < p THEN s[k] ELSE IF k = p THEN x ELSE s[k - 1]
    <3>1. /\ InsertAt(s, p, x) \in Seq(Events) /\ Len(InsertAt(s, p, x)) = Len(s) + 1
          /\ \A k \in 1 .. Len(s) + 1 :
               InsertAt(s, p, x)[k] =
                 IF k < p THEN s[k] ELSE IF k = p THEN x ELSE s[k - 1]
      BY <2>3, InsertAtLemma, SMTT(60)
    <3>2. QED
      BY <2>2, <3>1, Zenon
  <2>5. DOMAIN t = 1 .. Len(s) + 1 /\ DOMAIN s = 1 .. Len(s) /\ Len(s) \in Nat
    BY <2>3, <2>4
  <2>6. \A k \in DOMAIN s : k \in 1 .. Len(s) + 1 /\ k + 1 \in 1 .. Len(s) + 1
    BY <2>3, <2>5
  <2>7. t[p] = x
    BY <2>3, <2>4
  <2>8. \A k \in DOMAIN s : k < p => t[k] = s[k]
    BY <2>4, <2>5
  <2>9. \A k \in DOMAIN s : ~(k < p) => t[k + 1] = s[k]
    BY <2>3, <2>4, <2>5
  <2>10. QED
    BY <2>1, <2>3, <2>5, <2>6, <2>7, <2>8, <2>9
<1>6. ASSUME NEW e \in Events, status'[e] = "buffered"
      PROVE  \E k \in DOMAIN buf'[OrderingOf[e]] : buf'[OrderingOf[e]][k] = e
  <2>1. CASE e = x
    BY <1>a, <1>1, <1>5, <2>1
  <2>2. CASE e # x
    <3>1. OrderingOf[e] \in Orderings /\ status[e] = "buffered"
      BY <1>4, <1>6, <2>2, DataAssumption
    <3>2. PICK k \in DOMAIN buf[OrderingOf[e]] : buf[OrderingOf[e]][k] = e
      BY <3>1 DEF BufferedInv
    <3>3. CASE OrderingOf[e] = o
      <4>1. k \in DOMAIN buf'[o]
        BY <1>3, <1>5, <3>2, <3>3
      <4>2. QED
        BY <1>5, <3>2, <3>3, <4>1
    <3>4. CASE OrderingOf[e] # o
      BY <1>4, <3>1, <3>2, <3>4
    <3>5. QED
      BY <3>3, <3>4
  <2>3. QED
    BY <2>1, <2>2
<1>7. closed' \/ GapInv'
  <2>1. SUFFICES ASSUME GapInv PROVE GapInv'
    BY <1>2 DEF BufferedInv
  <2>2. \A q \in Orderings : Lowest(q)' = Lowest(q)
    BY <1>2 DEF Lowest
  <2>3. \A e \in Events : status'[e] \in Waiting <=> status[e] \in Waiting
    BY <1>2, <1>4 DEF Waiting
  <2>4. ASSUME NEW q \in Orderings, NEW e \in EventsOf(q), status'[e] = "buffered"
        PROVE  sequence[e] # expected[q]
    BY <1>a, <1>2, <1>4, <2>1, <2>4 DEF GapInv, EventsOf
  <2>5. QED
    BY <1>2, <2>1, <2>2, <2>3, <2>4 DEF GapInv, EventsOf
<1>8. \A e \in Events : status'[e] = "forwarding" => fwd'[OrderingOf[e]] = e
  BY <1>2, <1>4 DEF BufferedInv
<1>9. QED
  BY <1>2, <1>4, <1>6, <1>7, <1>8 DEF BufferedInv

\* The expected event starts to be forwarded.
LEMMA BufferedStart ==
  ASSUME TypeOK, ReorderInv, BufferedInv, NEW x \in Events, NEW drop \in BOOLEAN,
         ProcessEvent(x, drop), StartForwarding(x)
  PROVE  BufferedInv'
<1>a. PICK o : o = OrderingOf[x]
  OBVIOUS
<1>1. /\ status[x] = "created" /\ status' = [status EXCEPT ![x] = "forwarding"]
      /\ lock = None /\ sequence[x] = expected[o] /\ lock' = o
      /\ fwd' = [fwd EXCEPT ![o] = x] /\ last' = [last EXCEPT ![o] = 0]
      /\ UNCHANGED <<sequence, nextSeq, expected, buf, closed>>
  BY <1>a DEF ProcessEvent, StartForwarding, InOrder
<1>2. /\ status \in [Events -> Statuses] /\ o \in Orderings
      /\ fwd \in [Orderings -> Events \cup {None}] /\ last \in [Orderings -> Nat]
  BY <1>a, DataAssumption DEF TypeOK, EventTypes, ForwarderTypes
<1>3. /\ \A e \in Events : e # x => status'[e] = status[e]
      /\ status'[x] = "forwarding" /\ fwd'[o] = x /\ last'[o] = 0 /\ x # None
      /\ \A q \in Orderings : fwd[q] = None
      /\ \A q \in Orderings : q # o => fwd'[q] = None
  BY <1>1, <1>2, NilAssumption DEF BufferedInv
<1>4. \A e \in Events : status[e] # "forwarding"
  BY <1>3, DataAssumption, NilAssumption DEF BufferedInv
<1>5. closed' \/ GapInv'
  <2>1. SUFFICES ASSUME GapInv PROVE GapInv'
    BY <1>1 DEF BufferedInv
  <2>2. \A q \in Orderings : Lowest(q)' = Lowest(q)
    BY <1>1, <1>3 DEF Lowest
  <2>3. \A e \in Events : status'[e] \in Waiting <=> status[e] \in Waiting
    BY <1>1, <1>3 DEF Waiting
  <2>4. ASSUME NEW q \in Orderings, fwd'[q] = None, NEW e \in EventsOf(q), status'[e] = "buffered"
        PROVE  sequence[e] # expected[q]
    BY <1>3, <2>1, <2>4 DEF GapInv, EventsOf
  <2>5. QED
    BY <1>1, <2>1, <2>2, <2>3, <2>4 DEF GapInv, EventsOf
<1>6. QED
  BY <1>a, <1>1, <1>3, <1>4, <1>5 DEF BufferedInv

\* The sender is closed and the forwarded event is given up.
LEMMA BufferedAbort ==
  ASSUME TypeOK, ReorderInv, BufferedInv, NEW o \in Orderings, ForwardAbort(o)
  PROVE  BufferedInv'
<1>1. /\ lock = o /\ closed /\ fwd' = [fwd EXCEPT ![o] = None]
      /\ status' = IF last[o] = 0 THEN [status EXCEPT ![fwd[o]] = "abandoned"] ELSE status
      /\ UNCHANGED <<buf, closed>>
  BY DEF ForwardAbort, ordVars
<1>2. fwd[o] # None
  BY <1>1, NilAssumption DEF ReorderInv, ForwarderInv
<1>3. /\ fwd[o] \in Events /\ OrderingOf[fwd[o]] = o
      /\ status[fwd[o]] = IF last[o] = 0 THEN "forwarding" ELSE "buffered"
  BY <1>2, ForwardedEvent
<1>4. /\ status \in [Events -> Statuses] /\ fwd \in [Orderings -> Events \cup {None}]
  BY DEF TypeOK, EventTypes, ForwarderTypes
<1>5. \A q \in Orderings : fwd'[q] = None
  BY <1>1, <1>4 DEF BufferedInv
<1>6. /\ \A e \in Events : status'[e] = "buffered" => status[e] = "buffered"
      /\ \A e \in Events : status'[e] = "forwarding" => status[e] = "forwarding" /\ e # fwd[o]
  BY <1>1, <1>3, <1>4
<1>7. ASSUME NEW e \in Events, status'[e] = "forwarding" PROVE FALSE
  <2>1. fwd[OrderingOf[e]] = e /\ e # fwd[o] /\ OrderingOf[e] \in Orderings /\ e # None
    BY <1>6, <1>7, DataAssumption, NilAssumption DEF BufferedInv
  <2>2. lock = OrderingOf[e]
    BY <2>1 DEF BufferedInv
  <2>3. QED
    BY <1>1, <2>1, <2>2
<1>8. QED
  BY <1>1, <1>5, <1>6, <1>7 DEF BufferedInv

\* The events that are left of a buffer are all the other buffered events of
\* the ordering.
LEMMA PoppedHas ==
  ASSUME TypeOK, ReorderInv, BufferedInv, NEW o \in Orderings, fwd[o] # None,
         NEW f \in EventsOf(o), f # fwd[o], status[f] = "buffered"
  PROVE  \E k \in DOMAIN Popped(o) : Popped(o)[k] = f
<1>1. buf[o] \in Seq(Events) /\ OrderingOf[f] = o /\ f \in Events
  BY DEF TypeOK, OrderingTypes, EventsOf
<1>2. PICK k \in DOMAIN buf[o] : buf[o][k] = f
  BY <1>1 DEF BufferedInv
<1>3. CASE last[o] = 0
  BY <1>2, <1>3 DEF Popped
<1>4. CASE last[o] # 0
  <2>1. last[o] = Len(buf[o]) /\ buf[o][Len(buf[o])] = fwd[o]
    BY <1>4 DEF BufferedInv, ReorderInv, ForwarderInv
  <2>2. k \in 1 .. Len(buf[o]) - 1 /\ Len(buf[o]) \in Nat
    BY <1>1, <1>2, <2>1
  <2>3. Popped(o) = SubSeq(buf[o], 1, Len(buf[o]) - 1)
    BY <1>4, <2>1 DEF Popped
  <2>4. /\ DOMAIN SubSeq(buf[o], 1, Len(buf[o]) - 1) = 1 .. Len(buf[o]) - 1
        /\ SubSeq(buf[o], 1, Len(buf[o]) - 1)[k] = buf[o][k]
    BY <1>1, <2>2, SubSeqProperties
  <2>5. QED
    BY <1>2, <2>2, <2>3, <2>4
<1>5. QED
  BY <1>3, <1>4

\* One turn of enqueue: the sequence advances over the forwarded event.
LEMMA BufferedForward ==
  ASSUME TypeOK, ReorderInv, BufferedInv, NEW o \in Orderings, Forward(o)
  PROVE  BufferedInv'
<1>a. PICK x : x = fwd[o]
  OBVIOUS
<1>b. PICK nb : nb = Popped(o)
  OBVIOUS
<1>1. /\ lock = o /\ x # None /\ sequence' = sequence /\ closed' = closed
      /\ \A f \in Events \ {x} : status'[f] = status[f]
      /\ status'[x] \in {"dropped", "queued"}
      /\ \A q \in Orderings \ {o} :
           /\ fwd'[q] = fwd[q] /\ last'[q] = last[q] /\ buf'[q] = buf[q]
           /\ expected'[q] = expected[q] /\ nextSeq'[q] = nextSeq[q]
  BY <1>a, ForwardCases DEF Forward
<1>2. \/ /\ nb # <<>> /\ sequence[Last(nb)] = sequence[x] + 1
         /\ fwd'[o] = Last(nb) /\ last'[o] = Len(nb) /\ buf'[o] = nb /\ lock' = o
         /\ nextSeq'[o] = nextSeq[o] /\ expected'[o] = expected[o]
      \/ /\ fwd'[o] = None /\ lock' = None /\ buf'[o] = nb
         /\ ~(nb # <<>> /\ sequence[Last(nb)] = sequence[x] + 1)
         /\ nextSeq'[o] = nextSeq[o] /\ expected'[o] = sequence[x] + 1
      \/ /\ fwd'[o] = None /\ lock' = None
         /\ nextSeq'[o] = 0 /\ expected'[o] = 0 /\ sequence[x] + 1 = nextSeq[o]
  <2>1. CASE nb # <<>> /\ sequence[Last(nb)] = sequence[x] + 1
    <3>1. /\ fwd' = [fwd EXCEPT ![o] = Last(nb)] /\ last' = [last EXCEPT ![o] = Len(nb)]
          /\ buf' = [buf EXCEPT ![o] = nb] /\ UNCHANGED <<lock, nextSeq, expected>>
      BY <1>a, <1>b, <2>1 DEF Forward
    <3>2. QED
      BY <1>1, <2>1, <3>1 DEF TypeOK, ForwarderTypes, OrderingTypes
  <2>2. CASE ~(nb # <<>> /\ sequence[Last(nb)] = sequence[x] + 1)
    BY <1>a, <1>b, <2>2, ForwardCases
  <2>3. QED
    BY <2>1, <2>2
<1>3. /\ x \in Events /\ OrderingOf[x] = o /\ status[x] \in Waiting
      /\ \A f \in Events : status[f] \in Waiting /\ f # x /\ OrderingOf[f] = o
                             => sequence[f] > sequence[x]
  BY <1>a, <1>1, ForwardedEvent DEF Waiting
<1>4. /\ sequence \in [Events -> Nat] /\ nextSeq \in [Orderings -> Nat]
      /\ fwd \in [Orderings -> Events \cup {None}]
      /\ nb \in Seq(Events) /\ Len(nb) \in Nat /\ DOMAIN nb = 1 .. Len(nb)
  BY <1>a, <1>b, <1>1, PoppedLemma DEF TypeOK, EventTypes, OrderingTypes, ForwarderTypes
<1>5. /\ \A k \in DOMAIN nb : /\ nb[k] \in Events /\ nb[k] # x /\ status[nb[k]] = "buffered"
                              /\ OrderingOf[nb[k]] = o
      /\ \A j, k \in DOMAIN nb : j < k => sequence[nb[j]] > sequence[nb[k]]
  BY <1>a, <1>b, <1>1, PoppedInv
<1>6. /\ \A q \in Orderings : q # o => fwd[q] = None /\ fwd'[q] = None
      /\ \A f \in Events : status'[f] \in Waiting => f # x /\ status'[f] = status[f]
  BY <1>1 DEF BufferedInv, Waiting
<1>7. ASSUME NEW f \in Events, status'[f] = "buffered", OrderingOf[f] = o
      PROVE  \E k \in DOMAIN nb : nb[k] = f
  <2>1. f \in EventsOf(o) /\ f # x /\ status[f] = "buffered"
    BY <1>6, <1>7 DEF EventsOf, Waiting
  <2>2. QED
    BY <1>a, <1>b, <1>1, <2>1, PoppedHas
<1>8. ASSUME NEW f \in Events, status'[f] = "forwarding" PROVE FALSE
  <2>1. f # x /\ status[f] = "forwarding"
    BY <1>6, <1>8 DEF Waiting
  <2>2. fwd[OrderingOf[f]] = f /\ OrderingOf[f] \in Orderings /\ f # None
    BY <2>1, DataAssumption, NilAssumption DEF BufferedInv
  <2>3. lock = OrderingOf[f]
    BY <2>2 DEF BufferedInv
  <2>4. QED
    BY <1>a, <1>1, <2>1, <2>2, <2>3
<1>9. \A s \in Nat : Lowest(o) <= s <=> sequence[x] <= s
  BY <1>a, <1>1 DEF Lowest
<1>10. sequence[x] + 1 = nextSeq[o] => \A f \in Events : OrderingOf[f] = o => status'[f] \notin Waiting
  <2>1. SUFFICES ASSUME sequence[x] + 1 = nextSeq[o], NEW f \in Events, OrderingOf[f] = o,
                        status'[f] \in Waiting
                 PROVE  FALSE
    OBVIOUS
  <2>2. sequence[f] > sequence[x] /\ sequence[f] < nextSeq[o]
    BY <1>3, <1>6, <2>1 DEF ReorderInv, SequenceInv
  <2>3. QED
    BY <1>3, <1>4, <2>1, <2>2
<1>11. /\ \A q \in Orderings : fwd'[q] # None => lock' = q
       /\ \A q \in Orderings : fwd'[q] # None /\ last'[q] # 0 => last'[q] = Len(buf'[q])
  BY <1>2, <1>6
<1>12. ASSUME NEW f \in Events, status'[f] = "buffered"
       PROVE  \E k \in DOMAIN buf'[OrderingOf[f]] : buf'[OrderingOf[f]][k] = f
  <2>1. CASE OrderingOf[f] = o
    <3>1. buf'[o] = nb
      BY <1>2, <1>10, <1>12, <2>1 DEF Waiting
    <3>2. QED
      BY <1>7, <1>12, <2>1, <3>1
  <2>2. CASE OrderingOf[f] # o
    <3>1. OrderingOf[f] \in Orderings \ {o} /\ status[f] = "buffered"
      BY <1>6, <1>12, <2>2, DataAssumption DEF Waiting
    <3>2. buf'[OrderingOf[f]] = buf[OrderingOf[f]]
      BY <1>1, <3>1
    <3>3. QED
      BY <3>1, <3>2 DEF BufferedInv
  <2>3. QED
    BY <2>1, <2>2
<1>13. ASSUME GapInv, NEW s \in Nat, sequence[x] + 1 <= s, s < nextSeq[o]
       PROVE  \E e \in EventsOf(o) : status'[e] \in Waiting /\ sequence[e] = s
  <2>1. Lowest(o) <= s /\ s # sequence[x]
    BY <1>3, <1>4, <1>9, <1>13
  <2>2. PICK e \in EventsOf(o) : status[e] \in Waiting /\ sequence[e] = s
    BY <1>13, <2>1 DEF GapInv
  <2>3. QED
    BY <1>1, <2>1, <2>2 DEF EventsOf
<1>14. ASSUME GapInv, NEW q \in Orderings, NEW s \in Nat, Lowest(q)' <= s, s < nextSeq'[q]
       PROVE  \E e \in EventsOf(q) : status'[e] \in Waiting /\ sequence'[e] = s
  <2>1. CASE q # o
    <3>1. Lowest(q)' = Lowest(q) /\ nextSeq'[q] = nextSeq[q]
      BY <1>1, <1>6, <2>1 DEF Lowest
    <3>2. PICK e \in EventsOf(q) : status[e] \in Waiting /\ sequence[e] = s
      BY <1>14, <3>1 DEF GapInv
    <3>3. e # x
      BY <1>3, <2>1 DEF EventsOf
    <3>4. QED
      BY <1>1, <3>2, <3>3 DEF EventsOf
  <2>2. CASE q = o
    <3>1. CASE nextSeq'[o] = 0
      BY <1>14, <2>2, <3>1
    <3>2. CASE nextSeq'[o] # 0
      <4>1. nextSeq'[o] = nextSeq[o] /\ Lowest(o)' = sequence[x] + 1
        <5>1. CASE /\ nb # <<>> /\ sequence[Last(nb)] = sequence[x] + 1
                   /\ fwd'[o] = Last(nb) /\ nextSeq'[o] = nextSeq[o]
          <6>1. Len(nb) \in DOMAIN nb /\ Last(nb) = nb[Len(nb)]
            BY <1>4, <5>1, EmptySeq DEF Last
          <6>2. Last(nb) # None
            BY <1>5, <6>1, NilAssumption
          <6>3. QED
            BY <1>1, <5>1, <6>2 DEF Lowest
        <5>2. CASE fwd'[o] = None /\ nextSeq'[o] = nextSeq[o] /\ expected'[o] = sequence[x] + 1
          BY <5>2 DEF Lowest
        <5>3. QED
          BY <1>2, <3>2, <5>1, <5>2
      <4>2. QED
        BY <1>1, <1>13, <1>14, <2>2, <4>1
    <3>3. QED
      BY <3>1, <3>2
  <2>3. QED
    BY <2>1, <2>2
<1>15. ASSUME GapInv, NEW q \in Orderings, fwd'[q] = None, NEW f \in EventsOf(q),
              status'[f] = "buffered"
       PROVE  sequence'[f] # expected'[q]
  <2>1. f \in Events /\ OrderingOf[f] = q /\ status[f] = "buffered" /\ f # x
    BY <1>6, <1>15 DEF EventsOf, Waiting
  <2>2. CASE q # o
    <3>1. expected'[q] = expected[q] /\ fwd[q] = None
      BY <1>1, <1>6, <2>2
    <3>2. QED
      BY <1>1, <1>15, <2>1, <3>1 DEF GapInv
  <2>3. CASE q = o
    <3>1. SUFFICES ASSUME sequence[f] = expected'[o] PROVE FALSE
      BY <1>1, <2>3
    <3>2. PICK k \in DOMAIN nb : nb[k] = f
      BY <1>7, <1>15, <2>1, <2>3
    <3>3. Len(nb) \in DOMAIN nb /\ nb # <<>> /\ Last(nb) = nb[Len(nb)]
      BY <1>4, <3>2 DEF Last
    <3>4. PICK l : l = Last(nb)
      OBVIOUS
    <3>5. l \in Events /\ l # x /\ status[l] \in Waiting /\ OrderingOf[l] = o
      BY <1>5, <3>3, <3>4 DEF Waiting
    <3>6. sequence[l] > sequence[x] /\ sequence[l] <= sequence[f]
      <4>1. sequence[l] > sequence[x]
        BY <1>3, <3>5
      <4>2. k = Len(nb) \/ k < Len(nb)
        BY <1>4, <3>2
      <4>3. sequence[l] <= sequence[f]
        BY <1>4, <1>5, <2>1, <3>2, <3>3, <3>4, <3>5, <4>2
      <4>4. QED
        BY <4>1, <4>3
    <3>7. sequence[x] + 1 # nextSeq[o]
      BY <1>10, <1>15, <2>1, <2>3 DEF Waiting
    <3>8. fwd'[o] # Last(nb)
      BY <1>15, <2>3, <3>4, <3>5, NilAssumption
    <3>9. /\ ~(nb # <<>> /\ sequence[Last(nb)] = sequence[x] + 1)
          /\ expected'[o] = sequence[x] + 1
      BY <1>2, <3>7, <3>8
    <3>10. QED
      BY <1>3, <1>4, <2>1, <3>1, <3>3, <3>4, <3>5, <3>6, <3>9
  <2>4. QED
    BY <2>2, <2>3
<1>16. closed' \/ GapInv'
  BY <1>1, <1>14, <1>15 DEF BufferedInv, GapInv, EventsOf
<1>17. QED
  BY <1>8, <1>11, <1>12, <1>16 DEF BufferedInv

\* Orderings are released while an iteration begins or ends.
LEMMA BufferedRelease ==
  ASSUME TypeOK, ReorderInv, BufferedInv, ReleaseOrderings(releasable, status),
         UNCHANGED <<status, sequence, fwd, last, lock, closed>>
  PROVE  BufferedInv'
<1>1. PICK D \in SUBSET Orderings :
             DisposeOrderings(D) /\ \A o \in D : expected[o] = nextSeq[o]
  BY ReleaseDisposes DEF TypeOK, QueueTypes
<1>2. QED
  BY <1>1, BufferedDispose

\* Events leave the queue, sent or discarded.
LEMMA BufferedLeave ==
  ASSUME TypeOK, ReorderInv, BufferedInv, NEW i \in Iterators, SendReturn(i) \/ Discard(i)
  PROVE  BufferedInv'
<1>1. CASE SendReturn(i)
  <2>1. PICK mine : mine = {e \in Events : evIter[e] = i}
    OBVIOUS
  <2>2. PICK rel : rel = releasable \cup {OrderingOf[e] : e \in mine}
    OBVIOUS
  <2>3. /\ status' = [e \in Events |-> IF e \in mine THEN "sent" ELSE status[e]]
        /\ UNCHANGED <<sequence, fwd, last, lock, closed>>
        /\ ReleaseOrderings(rel, status') \/ UNCHANGED <<orderings, nextSeq, expected, buf>>
    BY <1>1, <2>1, <2>2 DEF SendReturn, ordVars
  <2>4. \A e \in Events : \/ status'[e] = status[e]
                          \/ status[e] = "queued" /\ status'[e] \in Final
    BY <2>1, <2>3, NilAssumption DEF Final, ReorderInv, QueueInv
  <2>5. PICK D \in SUBSET Orderings :
               DisposeOrderings(D) /\ \A o \in D : expected[o] = nextSeq[o]
    <3>1. CASE ReleaseOrderings(rel, status')
      <4>1. rel \in SUBSET Orderings
        BY <2>1, <2>2, DataAssumption DEF TypeOK, QueueTypes
      <4>2. QED
        BY <3>1, <4>1, ReleaseDisposes
    <3>2. CASE UNCHANGED <<orderings, nextSeq, expected, buf>>
      <4>1. DisposeOrderings({})
        BY <3>2, DisposeNone
      <4>2. QED
        BY <4>1
    <3>3. QED
      BY <2>3, <3>1, <3>2
  <2>6. UNCHANGED <<sequence, fwd, last, lock>> /\ (closed => closed')
    BY <2>3
  <2>7. QED
    BY <2>4, <2>5, <2>6, BufferedDispose
<1>2. CASE Discard(i)
  <2>1. PICK k \in DOMAIN queue : LastRead(i, k) /\ DiscardAt(i, k)
    BY <1>2 DEF Discard
  <2>2. PICK e : e = queue[k]
    OBVIOUS
  <2>3. e # None /\ e \in Events /\ status[e] = "queued" /\ OrderingOf[e] \in Orderings
    BY <2>1, <2>2, Position DEF LastRead
  <2>4. /\ status' = [status EXCEPT ![e] = "rejected"]
        /\ UNCHANGED <<sequence, fwd, last, lock, closed>>
        /\ \/ /\ Disposable(OrderingOf[e], expected[OrderingOf[e]], status', consumed[OrderingOf[e]] - 1)
              /\ DisposeOrderings({OrderingOf[e]})
           \/ UNCHANGED <<orderings, nextSeq, expected, buf>>
    BY <2>1, <2>2 DEF DiscardAt
  <2>5. \A f \in Events : \/ status'[f] = status[f]
                          \/ status[f] = "queued" /\ status'[f] \in Final
    BY <2>3, <2>4 DEF Final, TypeOK, EventTypes
  <2>6. PICK D \in SUBSET Orderings :
               DisposeOrderings(D) /\ \A o \in D : expected[o] = nextSeq[o]
    <3>1. CASE UNCHANGED <<orderings, nextSeq, expected, buf>>
      <4>1. DisposeOrderings({})
        BY <3>1, DisposeNone
      <4>2. QED
        BY <4>1
    <3>2. CASE /\ Disposable(OrderingOf[e], expected[OrderingOf[e]], status', consumed[OrderingOf[e]] - 1)
               /\ DisposeOrderings({OrderingOf[e]})
      <4>1. expected[OrderingOf[e]] = nextSeq[OrderingOf[e]]
        BY <3>2 DEF Disposable
      <4>2. QED
        BY <2>3, <3>2, <4>1
    <3>3. QED
      BY <2>4, <3>1, <3>2
  <2>7. UNCHANGED <<sequence, fwd, last, lock>> /\ (closed => closed')
    BY <2>4
  <2>8. QED
    BY <2>5, <2>6, <2>7, BufferedDispose
<1>3. QED
  BY <1>1, <1>2

\* Every step that does not put a goroutine to sleep preserves the invariant.
LEMMA BufferedStep ==
  ASSUME TypeOK, ReorderInv, BufferedInv, [Next]_vars, waiters' = <<>>
  PROVE  BufferedInv'
<1> USE DEF evVars, ordVars, fwdVars, iterVars
<1>1. CASE UNCHANGED vars
  BY <1>1, BufferedFrame DEF vars
<1>2. ASSUME NEW e \in Events, CreateEvent(e)
      PROVE  BufferedInv'
  BY <1>2, BufferedCreate
<1>3. ASSUME NEW e \in Events, NEW drop \in BOOLEAN, ProcessEvent(e, drop)
      PROVE  BufferedInv'
  BY <1>3, BufferedBuffer, BufferedStart DEF ProcessEvent
<1>4. ASSUME NEW o \in Orderings, ForwardWait(o)
      PROVE  BufferedInv'
  <2>1. waiters' = Append(waiters, o) /\ waiters \in Seq(Orderings)
    BY <1>4 DEF ForwardWait, TypeOK, ForwarderTypes
  <2>2. waiters' # <<>>
    BY <2>1, AppendProperties
  <2>3. QED
    BY <2>2
<1>5. ASSUME NEW o \in Orderings, ForwardAbort(o)
      PROVE  BufferedInv'
  BY <1>5, BufferedAbort
<1>6. ASSUME NEW o \in Orderings, Forward(o)
      PROVE  BufferedInv'
  BY <1>6, BufferedForward
<1>7. ASSUME NEW o \in Orderings, Wake(o)
      PROVE  BufferedInv'
  BY <1>7, NilAssumption DEF Wake, BufferedInv
<1>8. ASSUME NEW i \in Iterators, NEW pause \in BOOLEAN, LoopTick(i, pause)
      PROVE  BufferedInv'
  BY <1>8, BufferedRelease DEF LoopTick
<1>9. ASSUME NEW i \in Iterators, NEW same \in BOOLEAN, StartIteration(i, same)
      PROVE  BufferedInv'
  BY <1>9, BufferedFrame DEF StartIteration
<1>10. ASSUME NEW i \in Iterators, NextEvent(i) \/ First(i) \/ Peek(i) \/ BreakIteration(i)
       PROVE  BufferedInv'
  <2>1. UNCHANGED <<status, sequence, fwd, last, lock, orderings, nextSeq, expected, buf, closed>>
    <3>1. CASE NextEvent(i)
      BY <3>1 DEF NextEvent
    <3>2. CASE First(i)
      BY <3>2 DEF First
    <3>3. CASE Peek(i)
      BY <3>3, Zenon DEF Peek
    <3>4. CASE BreakIteration(i)
      BY <3>4 DEF BreakIteration
    <3>5. QED
      BY <1>10, <3>1, <3>2, <3>3, <3>4
  <2>2. QED
    BY <2>1, BufferedFrame
<1>11. ASSUME NEW i \in Iterators, Discard(i) \/ SendReturn(i)
       PROVE  BufferedInv'
  BY <1>11, BufferedLeave
<1>12. ASSUME NEW i \in Iterators, Postpone(i) \/ Compact(i)
       PROVE  BufferedInv'
  BY <1>12, BufferedFrame DEF Postpone, PostponeAt, Compact
<1>13. ASSUME NEW i \in Iterators, EndIteration(i) \/ ReturnUnread(i)
       PROVE  BufferedInv'
  BY <1>13, BufferedRelease DEF EndIteration, ReturnUnread, Iterated
<1>14. CASE TimerFires \/ LoopIdle \/ PauseEnd \/ Close \/ LoopStop \/ LoopDone
  BY <1>14, BufferedFrame DEF TimerFires, LoopIdle, PauseEnd, Close, LoopStop, LoopDone
<1>15. QED
  BY <1>1, <1>2, <1>3, <1>4, <1>5, <1>6, <1>7, <1>8, <1>9, <1>10, <1>11, <1>12, <1>13, <1>14
  DEF Next

\* A buffered event waits for an event that is still to be processed.
LEMMA BufferedKept ==
  ASSUME TypeOK, ReorderInv, BufferedInv
  PROVE  NoEventLost
<1> SUFFICES ASSUME NEW e \in Events, status[e] = "buffered"
             PROVE  /\ e \in ToSet(buf[OrderingOf[e]])
                    /\ \/ \E f \in Events : Before(f, e) /\ status[f] = "created"
                       \/ fwd[OrderingOf[e]] # None
                       \/ closed
  BY DEF NoEventLost
<1>a. PICK o : o = OrderingOf[e]
  OBVIOUS
<1>1. e \in ToSet(buf[o])
  BY <1>a DEF BufferedInv, ToSet
<1>2. ASSUME fwd[o] = None, ~closed
      PROVE  \E f \in Events : Before(f, e) /\ status[f] = "created"
  <2>1. /\ o \in Orderings /\ e \in EventsOf(o) /\ GapInv
        /\ sequence \in [Events -> Nat] /\ expected[o] \in Nat /\ nextSeq[o] \in Nat
    BY <1>a, <1>2, DataAssumption DEF BufferedInv, EventsOf, TypeOK, EventTypes, OrderingTypes
  <2>2. expected[o] <= sequence[e] /\ sequence[e] < nextSeq[o]
    BY <1>a DEF ReorderInv, SequenceInv, Waiting
  <2>3. sequence[e] # expected[o]
    BY <1>2, <2>1 DEF GapInv
  <2>4. Lowest(o) <= expected[o] /\ expected[o] < nextSeq[o] /\ expected[o] < sequence[e]
    BY <1>2, <2>1, <2>2, <2>3 DEF Lowest
  <2>5. PICK f \in EventsOf(o) : status[f] \in Waiting /\ sequence[f] = expected[o]
    BY <2>1, <2>4 DEF GapInv
  <2>6. status[f] # "buffered"
    BY <1>2, <2>1, <2>5 DEF GapInv
  <2>7. f \in Events /\ OrderingOf[f] = o /\ f # None
    BY <2>5, NilAssumption DEF EventsOf
  <2>8. status[f] # "forwarding"
    BY <1>2, <2>7 DEF BufferedInv
  <2>9. QED
    BY <1>a, <2>4, <2>5, <2>6, <2>7, <2>8 DEF Before, Waiting
<1>3. QED
  BY <1>a, <1>1, <1>2

\* NoEventLost holds as long as no goroutine sleeps for room in the queue: the
\* order in which events are created, processed and discarded, concurrent sends,
\* disposed orderings and Close do not make the sender lose one. Sleeping does,
\* as the run sender_backpressure shows.
THEOREM NothingLostUnlessWaiting == Spec /\ [](waiters = <<>>) => []NoEventLost
<1>1. Init => BufferedInv
  BY DEF Init, BufferedInv, GapInv, Lowest, EventsOf
<1>2. /\ TypeOK /\ ReorderInv /\ BufferedInv /\ [Next]_vars /\ (waiters = <<>>)'
      => BufferedInv'
  BY BufferedStep
<1>3. TypeOK /\ ReorderInv /\ BufferedInv => NoEventLost
  BY BufferedKept
<1>4. QED
  BY <1>1, <1>2, <1>3, Invariance, PTL DEF Spec

\* Nobody sleeps while there is room for every event.
LEMMA RoomForAll ==
  ASSUME TypeOK, ReorderInv, Cardinality(Events) <= MaxQueuedEvents, waiters = <<>>, [Next]_vars
  PROVE  waiters' = <<>>
<1> USE DEF fwdVars
<1>1. ASSUME NEW o \in Orderings, ForwardWait(o) PROVE FALSE
  <2>1. lock = o /\ QueueTotal >= MaxQueuedEvents
    BY <1>1 DEF ForwardWait
  <2>2. fwd[o] # None
    BY <2>1, NilAssumption DEF ReorderInv, ForwarderInv
  <2>3. fwd[o] \in Events /\ status[fwd[o]] # "queued"
    BY <2>2, ForwardedEvent
  <2>4. PICK Q : Q = {e \in Events : status[e] = "queued"}
    OBVIOUS
  <2>5. Q \subseteq Events /\ Q # Events
    BY <2>3, <2>4
  <2>6. Cardinality(Q) < Cardinality(Events) /\ Cardinality(Q) \in Nat /\ Cardinality(Events) \in Nat
    BY <2>5, DataAssumption, FS_Subset, FS_CardinalityType
  <2>7. QED
    BY <2>1, <2>4, <2>6, MaxAssumption DEF QueueTotal
<1>2. ASSUME NEW n \in Nat, Signal(n) PROVE waiters' = <<>>
  <2>1. waiters' = SubSeq(<<>>, n + 1, 0)
    BY <1>2 DEF Signal
  <2>2. QED
    BY <2>1
<1>3. ASSUME NEW i \in Iterators, SendReturn(i) PROVE waiters' = <<>>
  <2>1. Signal(Cardinality({e \in Events : evIter[e] = i}))
    BY <1>3 DEF SendReturn
  <2>2. {e \in Events : evIter[e] = i} \subseteq Events
    OBVIOUS
  <2>3. Cardinality({e \in Events : evIter[e] = i}) \in Nat
    BY <2>2, DataAssumption, FS_Subset, FS_CardinalityType
  <2>4. QED
    BY <1>2, <2>1, <2>3
<1>4. ASSUME NEW i \in Iterators, Discard(i) PROVE waiters' = <<>>
  <2>1. Signal(1)
    BY <1>4 DEF Discard, DiscardAt
  <2>2. QED
    BY <1>2, <2>1
<1>5. ASSUME NEW e \in Events, CreateEvent(e) \/ \E drop \in BOOLEAN : ProcessEvent(e, drop)
      PROVE  waiters' = <<>>
  BY <1>5 DEF CreateEvent, ProcessEvent, BufferEvent, StartForwarding
<1>6. ASSUME NEW o \in Orderings, ForwardAbort(o) \/ Forward(o) \/ Wake(o)
      PROVE  waiters' = <<>>
  BY <1>6 DEF ForwardAbort, Forward, Wake
<1>7. ASSUME NEW i \in Iterators,
             \/ \E pause \in BOOLEAN : LoopTick(i, pause)
             \/ \E same \in BOOLEAN : StartIteration(i, same)
             \/ NextEvent(i) \/ BreakIteration(i) \/ First(i) \/ Peek(i)
             \/ Postpone(i) \/ EndIteration(i) \/ ReturnUnread(i) \/ Compact(i)
      PROVE  waiters' = <<>>
  <2>1. CASE \E pause \in BOOLEAN : LoopTick(i, pause)
    BY <2>1 DEF LoopTick
  <2>2. CASE \E same \in BOOLEAN : StartIteration(i, same)
    BY <2>2 DEF StartIteration
  <2>3. CASE NextEvent(i)
    BY <2>3 DEF NextEvent
  <2>4. CASE First(i)
    BY <2>4 DEF First
  <2>5. CASE Peek(i)
    BY <2>5, Zenon DEF Peek
  <2>6. CASE BreakIteration(i) \/ Postpone(i)
    BY <2>6 DEF BreakIteration, Postpone, PostponeAt
  <2>7. CASE EndIteration(i) \/ ReturnUnread(i) \/ Compact(i)
    BY <2>7 DEF EndIteration, ReturnUnread, Compact
  <2>8. QED
    BY <1>7, <2>1, <2>2, <2>3, <2>4, <2>5, <2>6, <2>7
<1>8. CASE TimerFires \/ LoopIdle \/ PauseEnd \/ Close \/ LoopStop \/ LoopDone
  BY <1>8 DEF TimerFires, LoopIdle, PauseEnd, Close, LoopStop, LoopDone
<1>9. CASE UNCHANGED vars
  BY <1>9 DEF vars
<1>10. QED
  BY <1>1, <1>3, <1>4, <1>5, <1>6, <1>7, <1>8, <1>9 DEF Next

\* In particular NoEventLost is an invariant of a sender whose queue has room
\* for every event.
THEOREM NothingLostWithRoom ==
  ASSUME Cardinality(Events) <= MaxQueuedEvents
  PROVE  Spec => []NoEventLost
<1>1. Init => waiters = <<>>
  BY DEF Init
<1>2. TypeOK /\ ReorderInv /\ waiters = <<>> /\ [Next]_vars => (waiters = <<>>)'
  BY RoomForAll
<1>3. Spec => [](waiters = <<>>)
  BY <1>1, <1>2, Invariance, PTL DEF Spec
<1>4. QED
  BY <1>3, NothingLostUnlessWaiting, PTL

-----------------------------------------------------------------------------
(***************************************************************************)
(* Part three: the accounts of the queue agree with it after every step.   *)
(***************************************************************************)

\* The goroutines asleep on queue.cond forward an event that is not discarded,
\* none of them holds the mutex or sleeps twice, and Close wakes them all.
WaiterInv ==
  /\ closed => waiters = <<>>
  /\ \A k \in DOMAIN waiters :
       fwd[waiters[k]] # None /\ fwd[waiters[k]] \notin discarded /\ waiters[k] # lock
  /\ \A j, k \in DOMAIN waiters : waiters[j] = waiters[k] => j = k
  /\ \A o \in Orderings : fwd[o] # None => status[fwd[o]] # "created"

\* The goroutines that are awake and about to append an event to the queue.
Filling == {o \in Orderings : /\ fwd[o] # None /\ fwd[o] \notin discarded
                              /\ \A k \in DOMAIN waiters : waiters[k] # o}

\* While a goroutine sleeps, those that are awake suffice to fill the queue.
WakeInv == waiters # <<>> => QueueTotal + Cardinality(Filling) >= MaxQueuedEvents

\* A releasable ordering of which nothing was read since it was postponed has the
\* postponed event in the queue.
ReleaseInv == \A o \in releasable : consumed[o] = 0 => QueuedOf(status, o) # {}

\* The inductive invariant, with TypeOK, ReorderInv and DeliveryInv.
AccountInv ==
  /\ AvailableCorrect /\ IterationDue /\ NoStuckOrdering /\ WaiterInv /\ WakeInv
  /\ FirstFindsEvent /\ DisposedUnreferenced /\ ReleaseInv

-----------------------------------------------------------------------------
(* Facts about the counts.                                                 *)

\* The types that the accounting adds.
LEMMA AccountTypes ==
  ASSUME TypeOK
  PROVE  /\ fwd \in [Orderings -> Events \cup {None}]
         /\ lock \in Orderings \cup {None} /\ waiters \in Seq(Orderings)
         /\ Len(waiters) \in Nat /\ DOMAIN waiters = 1 .. Len(waiters)
         /\ \A k \in DOMAIN waiters : waiters[k] \in Orderings
         /\ available \in Int /\ schedule \in BOOLEAN /\ closed \in BOOLEAN
         /\ discarded \subseteq Events /\ orderings \subseteq Orderings
         /\ nextSeq \in [Orderings -> Nat] /\ expected \in [Orderings -> Nat]
BY DEF TypeOK, EventTypes, OrderingTypes, ForwarderTypes, QueueTypes

\* Sets of events are finite.
LEMMA EventsFinite ==
  ASSUME NEW S \in SUBSET Events
  PROVE  /\ IsFiniteSet(S) /\ Cardinality(S) \in Nat
         /\ Cardinality(S) = 0 <=> S = {}
<1>1. IsFiniteSet(S)
  BY DataAssumption, FS_Subset
<1>2. QED
  BY <1>1, FS_CardinalityType, FS_EmptySet

\* What two disjoint sets have together.
LEMMA DisjointUnion ==
  ASSUME NEW S, NEW T, IsFiniteSet(S), IsFiniteSet(T), S \cap T = {}
  PROVE  Cardinality(S \cup T) = Cardinality(S) + Cardinality(T)
<1>1. Cardinality(S) \in Nat /\ Cardinality(T) \in Nat
  BY FS_CardinalityType
<1>2. Cardinality(S \cap T) = 0
  BY FS_EmptySet
<1>3. Cardinality(S \cup T) = Cardinality(S) + Cardinality(T) - Cardinality(S \cap T)
  BY FS_Union
<1>4. QED
  BY <1>1, <1>2, <1>3

\* The forwarders are finitely many.
LEMMA FillingFinite ==
  ASSUME TypeOK, ReorderInv
  PROVE  IsFiniteSet(Filling) /\ Cardinality(Filling) \in Nat
<1> DEFINE T == {OrderingOf[e] : e \in Events}
<1>1. OrderingOf \in Surjection(Events, T)
  BY DataAssumption DEF Surjection
<1>2. IsFiniteSet(T)
  BY <1>1, DataAssumption, FS_Surjection
<1>3. Filling \subseteq T
  BY ForwardedEvent DEF Filling
<1>4. IsFiniteSet(Filling)
  BY <1>2, <1>3, FS_Subset
<1>5. QED
  BY <1>4, FS_CardinalityType

\* The number of queued events.
LEMMA QueueTotalType == QueueTotal \in Nat
BY EventsFinite DEF QueueTotal

-----------------------------------------------------------------------------
(* Steps that leave a part alone.                                          *)

\* The available events stay the same.
LEMMA AvailableFrame ==
  ASSUME AvailableCorrect, available' = available,
         \A e \in Events : status[e] = "queued" /\ ordIter[OrderingOf[e]] = None
                             <=> status'[e] = "queued" /\ ordIter'[OrderingOf[e]] = None
  PROVE  AvailableCorrect'
<1>1. {e \in Events : status'[e] = "queued" /\ ordIter'[OrderingOf[e]] = None}
        = {e \in Events : status[e] = "queued" /\ ordIter[OrderingOf[e]] = None}
  OBVIOUS
<1>2. QED
  BY <1>1 DEF AvailableCorrect

\* The goroutines inside enqueue do nothing and the queue keeps its events, or
\* fewer goroutines are asleep and none is left.
LEMMA WakeFrame ==
  ASSUME WaiterInv, WakeInv, UNCHANGED <<fwd, discarded, waiters>>,
         \A e \in Events : status'[e] = "queued" <=> status[e] = "queued"
  PROVE  WakeInv'
<1>1. QueueTotal' = QueueTotal
  BY DEF QueueTotal
<1>2. Filling' = Filling
  BY DEF Filling
<1>3. QED
  BY <1>1, <1>2 DEF WakeInv

\* The timer, the counter and the current iterator stay the same, and the loop
\* does not go past a timer that has fired.
LEMMA DueFrame ==
  ASSUME AccountInv, UNCHANGED <<available, cur, schedule>>, loop = "fired" => loop' = "fired"
  PROVE  IterationDue'
BY DEF AccountInv, IterationDue

\* The iterators and the queue stay the same.
LEMMA FirstFrame ==
  ASSUME FirstFindsEvent, UNCHANGED <<it, queue, evIter, ordIter>>,
         \A i \in Iterators : phase'[i] \in {"paused", "ready"} => phase[i] \in {"paused", "ready"}
  PROVE  FirstFindsEvent'
BY DEF FirstFindsEvent, Candidates

\* Steps that leave the queued events, the iterator and the holders alone.
LEMMA AccountQuiet ==
  ASSUME AccountInv, UNCHANGED <<available, ordIter, evIter, consumed, releasable, cur>>,
         IterationDue',
         \A e \in Events : status'[e] = "queued" <=> status[e] = "queued",
         WaiterInv', WakeInv', FirstFindsEvent', DisposedUnreferenced'
  PROVE  AccountInv'
<1>1. AvailableCorrect'
  BY AvailableFrame DEF AccountInv
<1>2. NoStuckOrdering'
  BY DEF AccountInv, NoStuckOrdering, Taken, EventsOf
<1>3. ReleaseInv'
  <2>1. \A o : QueuedOf(status', o) = QueuedOf(status, o)
    BY DEF QueuedOf, EventsOf
  <2>2. QED
    BY <2>1 DEF AccountInv, ReleaseInv
<1>4. QED
  BY <1>1, <1>2, <1>3 DEF AccountInv

-----------------------------------------------------------------------------
(* Creating and processing events.                                         *)

\* An event is created.
LEMMA AccountCreate ==
  ASSUME TypeOK, ReorderInv, AccountInv, NEW e \in Events, CreateEvent(e)
  PROVE  AccountInv'
<1>1. /\ status[e] = "new" /\ status' = [status EXCEPT ![e] = "created"]
      /\ orderings' = orderings \cup {OrderingOf[e]}
      /\ UNCHANGED <<available, ordIter, evIter, consumed, releasable, cur, schedule, it, queue,
                     phase, fwd, lock, waiters, discarded, closed, loop>>
  BY DEF CreateEvent, fwdVars, iterVars
<1>2. status \in [Events -> Statuses]
  BY Types
<1>3. /\ \A f \in Events : f # e => status'[f] = status[f]
      /\ status'[e] = "created"
  BY <1>1, <1>2
<1>4. \A f \in Events : status'[f] = "queued" <=> status[f] = "queued"
  BY <1>1, <1>3
<1>5. WaiterInv'
  <2>1. \A o \in Orderings : fwd[o] # None => fwd[o] \in Events /\ fwd[o] # e
    BY <1>1, ForwardedEvent
  <2>2. QED
    BY <1>1, <1>3, <2>1 DEF AccountInv, WaiterInv
<1>6. WakeInv'
  BY <1>1, <1>4, WakeFrame DEF AccountInv
<1>7. FirstFindsEvent'
  BY <1>1, FirstFrame DEF AccountInv
<1>8. DisposedUnreferenced'
  BY <1>1, <1>3 DEF AccountInv, DisposedUnreferenced
<1>9. QED
  BY <1>1, <1>4, <1>5, <1>6, <1>7, <1>8, DueFrame, AccountQuiet

\* An event is processed: buffered, or started to be forwarded.
LEMMA AccountProcess ==
  ASSUME TypeOK, ReorderInv, AccountInv, NEW e \in Events, NEW drop \in BOOLEAN,
         ProcessEvent(e, drop)
  PROVE  AccountInv'
<1> DEFINE o == OrderingOf[e]
<1>1. /\ status[e] = "created" /\ lock = None
      /\ discarded' \in {discarded, discarded \cup {e}}
      /\ waiters' = waiters
      /\ \/ status' = [status EXCEPT ![e] = "buffered"] /\ UNCHANGED <<fwd, lock>>
         \/ /\ status' = [status EXCEPT ![e] = "forwarding"]
            /\ sequence[e] = expected[o] /\ fwd' = [fwd EXCEPT ![o] = e] /\ lock' = o
      /\ UNCHANGED <<available, ordIter, evIter, consumed, releasable, cur, schedule, it, queue,
                     phase, closed, orderings, loop>>
  BY DEF ProcessEvent, BufferEvent, StartForwarding, InOrder, fwdVars, iterVars
<1>2. /\ status \in [Events -> Statuses] /\ sequence \in [Events -> Nat] /\ o \in Orderings
      /\ fwd \in [Orderings -> Events \cup {None}] /\ expected \in [Orderings -> Nat]
      /\ \A k \in DOMAIN waiters : waiters[k] \in Orderings
  BY Types, AccountTypes, DataAssumption
<1>3. /\ \A f \in Events : f # e => status'[f] = status[f]
      /\ status'[e] \in {"buffered", "forwarding"}
  BY <1>1, <1>2
<1>4. \A f \in Events : status'[f] = "queued" <=> status[f] = "queued"
  BY <1>1, <1>3
<1>5. \A p \in Orderings : fwd[p] # None => fwd[p] \in Events /\ fwd[p] # e
  BY <1>1, ForwardedEvent DEF AccountInv, WaiterInv
<1>6. sequence[e] = expected[o] => fwd[o] = None
  <2>1. SUFFICES ASSUME fwd[o] # None PROVE sequence[e] # expected[o]
    OBVIOUS
  <2>2. fwd[o] \in Events /\ sequence[e] > sequence[fwd[o]] /\ OrderingOf[fwd[o]] = o
        /\ status[fwd[o]] \in Waiting
    BY <1>1, <1>2, <1>5, <2>1, ForwardedEvent DEF Waiting
  <2>3. expected[o] <= sequence[fwd[o]]
    BY <2>2 DEF ReorderInv, SequenceInv
  <2>4. QED
    BY <1>2, <2>2, <2>3
<1>7. /\ \A p \in Orderings : fwd[p] # None => fwd'[p] = fwd[p]
      /\ \A p \in Orderings : fwd'[p] # fwd[p] => p = lock' /\ fwd'[p] = e /\ fwd[p] = None
      /\ lock' # None => lock' \in Orderings /\ fwd[lock'] = None
  BY <1>1, <1>2, <1>6
<1> HIDE DEF o
<1>8. WaiterInv'
  <2>1. \A k \in DOMAIN waiters : waiters[k] \in Orderings /\ fwd[waiters[k]] # None
                                  /\ fwd[waiters[k]] \notin discarded
    BY <1>2 DEF AccountInv, WaiterInv
  <2>2. \A k \in DOMAIN waiters : fwd'[waiters[k]] # None /\ fwd'[waiters[k]] \notin discarded'
                                  /\ waiters[k] # lock'
    <3>1. \A k \in DOMAIN waiters : fwd'[waiters[k]] = fwd[waiters[k]] /\ fwd[waiters[k]] # e
      BY <1>5, <1>7, <2>1
    <3>2. \A k \in DOMAIN waiters : waiters[k] # lock'
      BY <1>2, <1>7, <2>1, NilAssumption
    <3>3. QED
      BY <1>1, <2>1, <3>1, <3>2
  <2>3. \A p \in Orderings : fwd'[p] # None => status'[fwd'[p]] # "created"
    BY <1>3, <1>5, <1>7 DEF AccountInv, WaiterInv
  <2>4. QED
    BY <1>1, <2>2, <2>3 DEF AccountInv, WaiterInv
<1>9. WakeInv'
  <2>1. Filling \subseteq Filling'
    BY <1>1, <1>5, <1>7 DEF Filling
  <2>2. IsFiniteSet(Filling')
    <3>1. Filling' \subseteq Filling \cup {o}
      BY <1>1, <1>2, <1>7 DEF Filling
    <3>2. IsFiniteSet(Filling \cup {o})
      BY FillingFinite, FS_AddElement
    <3>3. QED
      BY <3>1, <3>2, FS_Subset
  <2>3. Cardinality(Filling) <= Cardinality(Filling')
    BY <2>1, <2>2, FS_Subset
  <2>4. Cardinality(Filling) \in Nat /\ Cardinality(Filling') \in Nat
    BY <2>2, FillingFinite, FS_CardinalityType
  <2>5. QueueTotal' = QueueTotal /\ QueueTotal \in Nat
    BY <1>4, QueueTotalType DEF QueueTotal
  <2>6. QED
    BY <1>1, <2>3, <2>4, <2>5, MaxAssumption DEF AccountInv, WakeInv
<1>10. FirstFindsEvent'
  BY <1>1, FirstFrame DEF AccountInv
<1>11. DisposedUnreferenced'
  BY <1>1, <1>3 DEF AccountInv, DisposedUnreferenced, Pending
<1>12. QED
  BY <1>1, <1>4, <1>8, <1>9, <1>10, <1>11, DueFrame, AccountQuiet

\* The goroutine inside enqueue goes to sleep, or takes the mutex again.
LEMMA AccountSleep ==
  ASSUME TypeOK, ReorderInv, AccountInv, NEW o \in Orderings, ForwardWait(o) \/ Wake(o)
  PROVE  AccountInv'
<1>1. UNCHANGED <<available, ordIter, evIter, consumed, releasable, cur, schedule, it, queue, phase,
                  status, fwd, discarded, closed, orderings, loop>>
  BY DEF ForwardWait, Wake, evVars, ordVars, iterVars
<1>2. FirstFindsEvent' /\ DisposedUnreferenced' /\ IterationDue'
  BY <1>1, FirstFrame, DueFrame DEF AccountInv, DisposedUnreferenced
<1>3. WaiterInv
  BY DEF AccountInv
<1>4. CASE Wake(o)
  <2>1. waiters' = waiters /\ lock' = o /\ \A k \in DOMAIN waiters : waiters[k] # o
    BY <1>4 DEF Wake
  <2>2. WaiterInv'
    BY <1>1, <1>3, <2>1 DEF WaiterInv
  <2>3. WakeInv'
    BY <1>1, <1>3, <2>1, WakeFrame DEF AccountInv
  <2>4. QED
    BY <1>1, <1>2, <2>2, <2>3, AccountQuiet
<1>5. CASE ForwardWait(o)
  <2>1. /\ lock = o /\ fwd[o] \notin discarded /\ ~closed /\ QueueTotal >= MaxQueuedEvents
        /\ waiters' = Append(waiters, o) /\ lock' = None
    BY <1>5 DEF ForwardWait
  <2>2. o # None /\ fwd[o] # None
    BY <2>1, NilAssumption DEF ReorderInv, ForwarderInv
  <2>3. /\ Len(waiters) \in Nat /\ waiters \in Seq(Orderings) /\ DOMAIN waiters = 1 .. Len(waiters)
        /\ \A k \in DOMAIN waiters : waiters[k] \in Orderings
    BY AccountTypes
  <2>4. /\ DOMAIN waiters' = 1 .. Len(waiters) + 1 /\ waiters'[Len(waiters) + 1] = o
        /\ \A k \in DOMAIN waiters : waiters'[k] = waiters[k]
    BY <2>1, <2>3, AppendProperties
  <2>5. \A k \in DOMAIN waiters' : k \in DOMAIN waiters \/ k = Len(waiters) + 1
    BY <2>3, <2>4
  <2>6. \A k \in DOMAIN waiters' : /\ waiters'[k] \in Orderings /\ fwd[waiters'[k]] # None
                                   /\ fwd[waiters'[k]] \notin discarded
    BY <1>3, <2>1, <2>2, <2>3, <2>4, <2>5 DEF WaiterInv
  <2>7. \A j, k \in DOMAIN waiters' : waiters'[j] = waiters'[k] => j = k
    BY <1>3, <2>1, <2>4, <2>5 DEF WaiterInv
  <2>8. WaiterInv'
    BY <1>1, <1>3, <2>1, <2>6, <2>7, NilAssumption DEF WaiterInv
  <2>9. WakeInv'
    <3>1. QueueTotal' = QueueTotal
      BY <1>1 DEF QueueTotal
    <3>2. Cardinality(Filling') \in Nat
      <4>1. Filling' \subseteq Filling
        BY <1>1, <2>3, <2>4, <2>5 DEF Filling
      <4>2. QED
        BY <4>1, FillingFinite, FS_Subset, FS_CardinalityType
    <3>3. QED
      BY <2>1, <3>1, <3>2, QueueTotalType, MaxAssumption DEF WakeInv
  <2>10. QED
    BY <1>1, <1>2, <2>8, <2>9, AccountQuiet
<1>6. QED
  BY <1>4, <1>5

\* The sender is closed and the event is given up.
LEMMA AccountAbort ==
  ASSUME TypeOK, ReorderInv, AccountInv, NEW o \in Orderings, ForwardAbort(o)
  PROVE  AccountInv'
<1>1. /\ lock = o /\ closed /\ closed' = closed /\ waiters' = waiters
      /\ status' \in {status, [status EXCEPT ![fwd[o]] = "abandoned"]}
      /\ fwd' = [fwd EXCEPT ![o] = None]
      /\ UNCHANGED <<available, ordIter, evIter, consumed, releasable, cur, schedule, it, queue, phase,
                     discarded, orderings, loop>>
  BY DEF ForwardAbort, ordVars, iterVars
<1>2. fwd[o] # None /\ status \in [Events -> Statuses]
  BY <1>1, NilAssumption, Types DEF ReorderInv, ForwarderInv
<1>3. fwd[o] \in Events /\ status[fwd[o]] \in {"forwarding", "buffered"}
  BY <1>2, ForwardedEvent
<1>4. /\ \A f \in Events : status'[f] \in {status[f], "abandoned"}
      /\ \A f \in Events : status'[f] = "queued" <=> status[f] = "queued"
  BY <1>1, <1>2, <1>3
<1>5. waiters' = <<>>
  BY <1>1 DEF AccountInv, WaiterInv
<1>6. WaiterInv'
  <2>1. \A p \in Orderings : fwd'[p] # None => fwd'[p] = fwd[p] /\ fwd[p] \in Events
    BY <1>1, ForwardedEvent, AccountTypes
  <2>2. \A p \in Orderings : fwd'[p] # None => status'[fwd'[p]] # "created"
    BY <1>4, <2>1 DEF AccountInv, WaiterInv
  <2>3. QED
    BY <1>5, <2>2 DEF WaiterInv
<1>7. WakeInv'
  BY <1>5 DEF WakeInv
<1>8. FirstFindsEvent'
  BY <1>1, FirstFrame DEF AccountInv
<1>9. DisposedUnreferenced'
  BY <1>1, <1>4 DEF AccountInv, DisposedUnreferenced, Pending
<1>10. QED
  BY <1>1, <1>4, <1>6, <1>7, <1>8, <1>9, DueFrame, AccountQuiet

\* The timer fires, and the loop finds nothing to do.
LEMMA AccountTimer ==
  ASSUME TypeOK, AccountInv, TimerFires \/ LoopIdle
  PROVE  AccountInv'
<1>1. UNCHANGED <<available, ordIter, evIter, consumed, releasable, cur, it, queue, phase, status,
                  fwd, lock, waiters, discarded, closed, orderings>>
  BY DEF TimerFires, LoopIdle, evVars, ordVars, fwdVars, iterVars
<1>2. IterationDue'
  <2>1. CASE TimerFires
    BY <1>1, <2>1 DEF TimerFires, AccountInv, IterationDue
  <2>2. CASE LoopIdle
    <3>1. cur = None => available = 0 /\ schedule' = FALSE
      BY <2>2 DEF LoopIdle, ScheduleIteration
    <3>2. QED
      BY <1>1, <3>1 DEF IterationDue
  <2>3. QED
    BY <2>1, <2>2
<1>3. WaiterInv' /\ WakeInv'
  BY <1>1, WakeFrame DEF AccountInv, WaiterInv
<1>4. FirstFindsEvent' /\ DisposedUnreferenced'
  BY <1>1, FirstFrame DEF AccountInv, DisposedUnreferenced
<1>5. QED
  BY <1>1, <1>2, <1>3, <1>4, AccountQuiet

\* The loop and the iterator take steps that leave the queue alone.
LEMMA AccountIdle ==
  ASSUME TypeOK, AccountInv, CurrentInv,
         UNCHANGED vars \/ PauseEnd \/ LoopStop \/ LoopDone \/ Close
           \/ \E i \in Iterators : BreakIteration(i)
  PROVE  AccountInv'
<1>1. /\ UNCHANGED <<available, ordIter, evIter, consumed, releasable, cur, schedule, it, queue,
                     status, fwd, discarded, orderings>>
      /\ loop = "fired" => loop' = "fired"
  BY DEF vars, PauseEnd, LoopStop, LoopDone, Close, BreakIteration, evVars, ordVars, fwdVars, iterVars
<1>2. \/ /\ UNCHANGED <<waiters, lock, closed>>
         /\ \/ phase' = phase
            \/ phase' = [phase EXCEPT ![cur] = "ready"] /\ loop = "pause"
            \/ \E i \in Iterators : phase' = [phase EXCEPT ![i] = "ending"]
      \/ waiters' = <<>> /\ phase' = phase
  BY DEF vars, PauseEnd, LoopStop, LoopDone, Close, BreakIteration, fwdVars, iterVars
<1>3. \A i \in Iterators : phase'[i] \in {"paused", "ready"} => phase[i] \in {"paused", "ready"}
  <2>1. phase \in [Iterators -> Phases]
    BY Types
  <2>2. CASE phase' = [phase EXCEPT ![cur] = "ready"] /\ loop = "pause"
    BY <2>1, <2>2 DEF CurrentInv
  <2>3. ASSUME NEW j \in Iterators, phase' = [phase EXCEPT ![j] = "ending"]
        PROVE  \A i \in Iterators : phase'[i] \in {"paused", "ready"} => phase'[i] = phase[i]
    BY <2>1, <2>3
  <2>4. QED
    BY <1>2, <2>2, <2>3
<1>4. WaiterInv'
  BY <1>1, <1>2 DEF AccountInv, WaiterInv
<1>5. WakeInv'
  <2>1. CASE waiters' = waiters
    BY <1>1, <2>1, WakeFrame DEF AccountInv
  <2>2. CASE waiters' = <<>>
    BY <2>2 DEF WakeInv
  <2>3. QED
    BY <1>2, <2>1, <2>2
<1>6. FirstFindsEvent' /\ DisposedUnreferenced'
  BY <1>1, <1>3, FirstFrame DEF AccountInv, DisposedUnreferenced
<1>7. QED
  BY <1>1, <1>4, <1>5, <1>6, DueFrame, AccountQuiet

\* A goroutine that is awake fills a place of the queue, or takes another event.
LEMMA WakeForward ==
  ASSUME TypeOK, ReorderInv, WaiterInv, WakeInv, NEW o \in Orderings, lock = o,
         NEW e, e = fwd[o], e \in Events, status[e] # "queued",
         waiters' = waiters, discarded' = discarded,
         \A p \in Orderings \ {o} : fwd'[p] = fwd[p],
         \A f \in Events \ {e} : status'[f] = status[f],
         \/ e \in discarded /\ status'[e] # "queued"
         \/ status'[e] = "queued"
  PROVE  WakeInv'
<1>1. IsFiniteSet(Filling) /\ Cardinality(Filling) \in Nat /\ QueueTotal \in Nat
  BY FillingFinite, QueueTotalType
<1>2. Filling \ {o} \subseteq Filling' /\ Filling' \subseteq Filling \cup {o}
  BY DEF Filling
<1>3. IsFiniteSet(Filling') /\ Cardinality(Filling') \in Nat
  <2>1. IsFiniteSet(Filling \cup {o})
    BY <1>1, FS_AddElement
  <2>2. QED
    BY <1>2, <2>1, FS_Subset, FS_CardinalityType
<1>4. CASE e \in discarded /\ status'[e] # "queued"
  <2>1. Filling \subseteq Filling'
    BY <1>2, <1>4 DEF Filling
  <2>2. Cardinality(Filling) <= Cardinality(Filling')
    BY <1>3, <2>1, FS_Subset
  <2>3. QueueTotal' = QueueTotal
    <3>1. \A f \in Events : status'[f] = "queued" <=> status[f] = "queued"
      BY <1>4
    <3>2. QED
      BY <3>1 DEF QueueTotal
  <2>4. QED
    BY <1>1, <1>3, <2>2, <2>3, MaxAssumption DEF WakeInv
<1>5. CASE status'[e] = "queued"
  <2>1. Cardinality(Filling \ {o}) >= Cardinality(Filling) - 1
    <3>1. Cardinality(Filling \ {o})
            = IF o \in Filling THEN Cardinality(Filling) - 1 ELSE Cardinality(Filling)
      BY <1>1, FS_RemoveElement
    <3>2. QED
      BY <1>1, <3>1
  <2>2. Cardinality(Filling \ {o}) <= Cardinality(Filling')
    BY <1>2, <1>3, FS_Subset
  <2>3. Cardinality(Filling \ {o}) \in Nat
    BY <1>1, FS_RemoveElement, FS_CardinalityType
  <2>4. QueueTotal' = QueueTotal + 1
    <3>1. {f \in Events : status'[f] = "queued"} = {f \in Events : status[f] = "queued"} \cup {e}
      BY <1>5
    <3>2. IsFiniteSet({f \in Events : status[f] = "queued"})
      BY EventsFinite
    <3>3. QED
      BY <3>1, <3>2, FS_AddElement DEF QueueTotal
  <2>5. QED
    BY <1>1, <1>3, <2>1, <2>2, <2>3, <2>4, MaxAssumption DEF WakeInv
<1>6. QED
  BY <1>4, <1>5

\* One turn of enqueue.
LEMMA AccountForward ==
  ASSUME TypeOK, ReorderInv, AccountInv, NEW o \in Orderings, Forward(o)
  PROVE  AccountInv'
<1>a. PICK e : e = fwd[o]
  OBVIOUS
<1>0. /\ AvailableCorrect /\ IterationDue /\ NoStuckOrdering /\ WaiterInv /\ WakeInv
      /\ FirstFindsEvent /\ DisposedUnreferenced /\ ReleaseInv
  BY DEF AccountInv
<1>1. /\ lock = o /\ e # None /\ e \in Events /\ OrderingOf[e] = o
      /\ status[e] \in {"forwarding", "buffered"}
      /\ \A f \in Events : status[f] \in Waiting /\ f # e /\ OrderingOf[f] = o
                             => sequence[f] > sequence[e]
      /\ \A f \in Events \ {e} : status'[f] = status[f]
  BY <1>a, ForwardCases, ForwardedEvent
<1>2. /\ UNCHANGED <<sequence, discarded, evIter, ordIter, consumed, waiters, releasable, cur, it,
                     phase, closed, loop>>
      /\ \/ /\ e \in discarded /\ status' = [status EXCEPT ![e] = "dropped"]
            /\ UNCHANGED <<queue, available, schedule>>
         \/ /\ status' = [status EXCEPT ![e] = "queued"] /\ queue' = Append(queue, e)
            /\ available' = IF ordIter[o] = None THEN available + 1 ELSE available
            /\ IF ordIter[o] = None /\ cur = None
               THEN ScheduleIteration(available + 1, None)
               ELSE schedule' = schedule
  BY <1>a DEF Forward, Skip, Enqueue, AvailableWith, iterVars
<1>3. /\ status \in [Events -> Statuses] /\ sequence \in [Events -> Nat]
      /\ nextSeq \in [Orderings -> Nat] /\ queue \in Seq(Events \cup {None})
      /\ DOMAIN queue = 1 .. Len(queue) /\ Len(queue) \in Nat
      /\ fwd \in [Orderings -> Events \cup {None}] /\ available \in Int
  BY Types, AccountTypes
<1>4. /\ \/ e \in discarded /\ status'[e] = "dropped" /\ available' = available
            /\ UNCHANGED <<queue, schedule>>
         \/ status'[e] = "queued" /\ queue' = Append(queue, e)
      /\ status'[e] # "created"
      /\ \A f \in Events : status[f] = "queued" => status'[f] = "queued"
  BY <1>1, <1>2, <1>3
<1>5. Cardinality({f \in Events : status[f] = "queued" /\ ordIter[OrderingOf[f]] = None}) \in Nat
  BY EventsFinite
<1>6. available \in Nat
  BY <1>0, <1>5 DEF AvailableCorrect
<1>7. AvailableCorrect'
  <2>1. CASE available' = available /\ ~(status'[e] = "queued" /\ ordIter[o] = None)
    BY <1>0, <1>1, <1>2, <2>1, AvailableFrame
  <2>2. CASE status'[e] = "queued" /\ ordIter[o] = None /\ available' = available + 1
    <3>1. {f \in Events : status'[f] = "queued" /\ ordIter'[OrderingOf[f]] = None}
            = {f \in Events : status[f] = "queued" /\ ordIter[OrderingOf[f]] = None} \cup {e}
      BY <1>1, <1>2, <2>2
    <3>2. IsFiniteSet({f \in Events : status[f] = "queued" /\ ordIter[OrderingOf[f]] = None})
      BY EventsFinite
    <3>3. e \notin {f \in Events : status[f] = "queued" /\ ordIter[OrderingOf[f]] = None}
      BY <1>1
    <3>4. QED
      BY <1>0, <2>2, <3>1, <3>2, <3>3, <1>5, FS_AddElement DEF AvailableCorrect
  <2>3. QED
    BY <1>2, <1>3, <1>1, <2>1, <2>2
<1>8. IterationDue'
  <2>1. CASE schedule' = schedule /\ available' = available
    BY <1>0, <1>2, <2>1 DEF IterationDue
  <2>2. CASE /\ available' = available + 1 /\ ordIter[o] = None
             /\ IF cur = None THEN ScheduleIteration(available + 1, None) ELSE schedule' = schedule
    <3>1. available + 1 # 0 /\ available' > 0
      BY <1>6, <2>2
    <3>2. cur = None => schedule' = TRUE
      BY <2>2, <3>1 DEF ScheduleIteration
    <3>3. QED
      BY <1>2, <3>1, <3>2 DEF IterationDue
  <2>3. QED
    BY <1>2, <2>1, <2>2
<1>9. NoStuckOrdering'
  BY <1>0, <1>2 DEF NoStuckOrdering, Taken, EventsOf
<1>10. /\ fwd'[o] # None => fwd'[o] \in Events /\ status'[fwd'[o]] # "created"
       /\ \A p \in Orderings \ {o} : fwd'[p] = fwd[p]
       /\ lock' \in {o, None}
  <2>1. /\ \A p \in Orderings \ {o} : fwd'[p] = fwd[p]
        /\ \/ fwd'[o] = None /\ lock' = None
           \/ /\ Popped(o) # <<>> /\ fwd'[o] = Last(Popped(o)) /\ lock' = o
    BY ForwardCases
  <2>2. ASSUME Popped(o) # <<>>
        PROVE  Last(Popped(o)) \in Events /\ Last(Popped(o)) # e
               /\ status[Last(Popped(o))] = "buffered"
    <3>1. Popped(o) \in Seq(Events)
      BY <1>a, <1>1, PoppedLemma
    <3>2. Len(Popped(o)) \in DOMAIN Popped(o) /\ Last(Popped(o)) = Popped(o)[Len(Popped(o))]
      BY <2>2, <3>1 DEF Last
    <3>3. QED
      BY <1>a, <1>1, <3>2, PoppedInv
  <2>3. QED
    BY <1>1, <2>1, <2>2
<1>11. WaiterInv'
  <2>1. \A k \in DOMAIN waiters : waiters[k] \in Orderings /\ waiters[k] # o
    BY <1>0, <1>1, AccountTypes DEF WaiterInv
  <2>2. \A k \in DOMAIN waiters : /\ fwd'[waiters[k]] # None /\ fwd'[waiters[k]] \notin discarded
                                  /\ waiters[k] # lock'
    BY <1>0, <1>10, <2>1, NilAssumption DEF WaiterInv
  <2>3. \A p \in Orderings : fwd'[p] # None => status'[fwd'[p]] # "created"
    <3>1. \A p \in Orderings \ {o} : fwd[p] # None => fwd[p] \in Events /\ fwd[p] # e
      BY <1>1, ForwardedEvent
    <3>2. \A p \in Orderings \ {o} : fwd'[p] # None => status'[fwd'[p]] # "created"
      BY <1>0, <1>1, <1>10, <3>1 DEF WaiterInv
    <3>3. QED
      BY <1>10, <3>2
  <2>4. QED
    BY <1>0, <1>2, <2>2, <2>3 DEF WaiterInv
<1>12. WakeInv'
  BY <1>a, <1>0, <1>1, <1>2, <1>4, <1>10, WakeForward
<1>13. FirstFindsEvent'
  <2>1. /\ Len(queue') \in Nat /\ Len(queue') >= Len(queue) /\ DOMAIN queue' = 1 .. Len(queue')
        /\ \A k \in DOMAIN queue : queue'[k] = queue[k]
    BY <1>1, <1>3, <1>4, AppendProperties
  <2>2. ASSUME NEW i \in Iterators PROVE Candidates(i) \subseteq Candidates(i)'
    <3>1. it.index \in Nat \ {0}
      BY Types
    <3>2. ASSUME NEW k \in Candidates(i) PROVE k \in Candidates(i)'
      <4>1. k \in it.index .. Len(queue) /\ k \in DOMAIN queue
        BY <1>3, <3>1 DEF Candidates
      <4>2. k \in it.index .. Len(queue') /\ queue'[k] = queue[k]
        BY <1>3, <2>1, <3>1, <4>1
      <4>3. QED
        BY <1>2, <4>2 DEF Candidates
    <3>3. QED
      BY <3>2
  <2>3. QED
    BY <1>0, <1>2, <2>2 DEF FirstFindsEvent
<1>14. ReleaseInv'
  <2>1. \A p : QueuedOf(status, p) \subseteq QueuedOf(status', p)
    BY <1>4 DEF QueuedOf, EventsOf
  <2>2. QED
    BY <1>0, <1>2, <2>1 DEF ReleaseInv
<1>15. DisposedUnreferenced'
  <2>1. \A f \in Events : status'[f] \in Pending => status[f] \in Pending
    BY <1>1 DEF Pending
  <2>2. CASE orderings' = orderings
    BY <1>0, <1>2, <2>1, <2>2 DEF DisposedUnreferenced
  <2>3. CASE /\ Disposable(o, sequence[e] + 1, status', consumed[o])
             /\ orderings' = orderings \ {o}
    <3>1. sequence[e] + 1 = nextSeq[o] /\ Total(status', o) = 0 /\ consumed[o] = 0
      BY <2>3 DEF Disposable
    <3>2. \A f \in Events : OrderingOf[f] = o => status'[f] # "queued"
      BY <3>1, NothingQueued
    <3>3. QueuedOf(status, o) = {}
      BY <1>4, <3>2 DEF QueuedOf, EventsOf
    <3>4. o \notin releasable
      BY <1>0, <3>1, <3>3 DEF ReleaseInv
    <3>5. ASSUME NEW f \in Events, OrderingOf[f] = o, status'[f] \in Pending PROVE FALSE
      <4>1. status'[f] \in Waiting
        BY <3>2, <3>5 DEF Waiting, Pending
      <4>2. f # e
        BY <1>4, <3>2, <4>1 DEF Waiting
      <4>3. status[f] \in Waiting /\ sequence[f] > sequence[e]
        BY <1>1, <3>5, <4>1, <4>2
      <4>4. sequence[f] < nextSeq[o]
        BY <3>5, <4>3 DEF ReorderInv, SequenceInv
      <4>5. QED
        BY <1>1, <1>3, <3>1, <4>3, <4>4
    <3>6. QED
      BY <1>0, <1>2, <2>1, <2>3, <3>4, <3>5 DEF DisposedUnreferenced
  <2>4. QED
    BY <1>a, <2>2, <2>3 DEF Forward, DisposeOrderings
<1>16. QED
  BY <1>7, <1>8, <1>9, <1>11, <1>12, <1>13, <1>14, <1>15 DEF AccountInv

-----------------------------------------------------------------------------
(* Events that leave the queue.                                            *)

\* As many goroutines are woken as places are freed: the sleepers that are left
\* still find enough goroutines awake.
LEMMA WakeSignal ==
  ASSUME TypeOK, ReorderInv, WaiterInv, WakeInv, NEW M \in SUBSET Events,
         Signal(Cardinality(M)), UNCHANGED <<fwd, discarded, lock, closed>>,
         \A e \in Events : status'[e] = "created" => status[e] = "created",
         \A e \in M : status[e] = "queued",
         \A e \in Events : status'[e] = "queued" <=> status[e] = "queued" /\ e \notin M
  PROVE  WaiterInv' /\ WakeInv'
<1> DEFINE n == Cardinality(M)
           w == waiters
           S == {w[k] : k \in 1 .. n}
<1>1. /\ w \in Seq(Orderings) /\ Len(w) \in Nat /\ DOMAIN w = 1 .. Len(w)
      /\ \A k \in DOMAIN w : w[k] \in Orderings
      /\ n \in Nat /\ waiters' = SubSeq(w, n + 1, Len(w))
  BY AccountTypes, EventsFinite DEF Signal
<1>2. /\ DOMAIN waiters' = 1 .. IF n < Len(w) THEN Len(w) - n ELSE 0
      /\ \A k \in DOMAIN waiters' : k + n \in DOMAIN w /\ waiters'[k] = w[k + n]
  <2>1. n + 1 \in Int /\ Len(w) \in Int /\ \A k \in n + 1 .. Len(w) : w[k] \in Orderings
    BY <1>1
  <2>2. /\ SubSeq(w, n + 1, Len(w)) \in Seq(Orderings)
        /\ Len(SubSeq(w, n + 1, Len(w))) = IF n + 1 <= Len(w) THEN Len(w) - (n + 1) + 1 ELSE 0
        /\ \A k \in 1 .. Len(w) - (n + 1) + 1 : SubSeq(w, n + 1, Len(w))[k] = w[n + 1 + k - 1]
    BY <2>1, SubSeqProperties
  <2>3. DOMAIN waiters' = 1 .. IF n < Len(w) THEN Len(w) - n ELSE 0
    BY <1>1, <2>2
  <2>4. ASSUME NEW k \in DOMAIN waiters' PROVE k + n \in DOMAIN w /\ waiters'[k] = w[k + n]
    <3>1. k \in Nat /\ n < Len(w) /\ k >= 1 /\ k <= Len(w) - n
      BY <1>1, <2>3
    <3>2. k \in 1 .. Len(w) - (n + 1) + 1 /\ n + 1 + k - 1 = k + n
      BY <1>1, <3>1
    <3>3. QED
      BY <1>1, <2>2, <3>1, <3>2
  <2>5. QED
    BY <2>3, <2>4
<1>3. /\ \A k \in DOMAIN w : fwd[w[k]] # None /\ fwd[w[k]] \notin discarded /\ w[k] # lock
      /\ \A j, k \in DOMAIN w : w[j] = w[k] => j = k
      /\ closed => w = <<>>
      /\ \A o \in Orderings : fwd[o] # None => fwd[o] \in Events /\ status[fwd[o]] # "created"
  BY ForwardedEvent DEF WaiterInv
<1>4. WaiterInv'
  <2>1. closed => waiters' = <<>>
    BY <1>1, <1>2, <1>3
  <2>2. \A k \in DOMAIN waiters' : /\ fwd[waiters'[k]] # None /\ fwd[waiters'[k]] \notin discarded
                                   /\ waiters'[k] # lock
    BY <1>2, <1>3
  <2>3. ASSUME NEW j \in DOMAIN waiters', NEW k \in DOMAIN waiters', waiters'[j] = waiters'[k]
        PROVE  j = k
    <3>1. j + n = k + n
      BY <1>2, <1>3, <2>3
    <3>2. j \in Nat /\ k \in Nat
      BY <1>2
    <3>3. QED
      BY <1>1, <3>1, <3>2
  <2>4. QED
    BY <1>3, <2>1, <2>2, <2>3 DEF WaiterInv
<1>5. WakeInv'
  <2>1. SUFFICES ASSUME waiters' # <<>>
                 PROVE  QueueTotal' + Cardinality(Filling') >= MaxQueuedEvents
    BY DEF WakeInv
  <2>2. n < Len(w) /\ w # <<>>
    BY <1>1, <1>2, <2>1
  <2>3. /\ 1 .. n \subseteq DOMAIN w /\ \A k \in 1 .. n : w[k] \in Orderings
        /\ \A j, k \in 1 .. n : w[j] = w[k] => j = k
    <3>1. 1 .. n \subseteq DOMAIN w
      BY <1>1, <2>2
    <3>2. QED
      BY <1>1, <1>3, <3>1
  <2>4. IsFiniteSet(S) /\ Cardinality(S) = n
    <3>1. [k \in 1 .. n |-> w[k]] \in Bijection(1 .. n, S)
      BY <2>3 DEF Bijection, Injection, Surjection, IsInjective
    <3>2. ExistsBijection(1 .. n, S)
      BY <3>1 DEF ExistsBijection
    <3>3. IsFiniteSet(1 .. n) /\ Cardinality(1 .. n) = n
      BY <1>1, FS_Interval
    <3>4. QED
      BY <3>2, <3>3, FS_Bijection
  <2>5. Filling' = Filling \cup S /\ Filling \cap S = {}
    <3>1. ASSUME NEW p \in S
          PROVE  p \notin Filling /\ p \in Filling'
      <4>1. PICK j \in 1 .. n : p = w[j]
        OBVIOUS
      <4>2. j \in DOMAIN w /\ p \in Orderings /\ fwd[p] # None /\ fwd[p] \notin discarded
        BY <1>3, <2>3, <4>1
      <4>3. ASSUME NEW k \in DOMAIN waiters' PROVE waiters'[k] # p
        <5>1. k + n \in DOMAIN w /\ k \in Nat \ {0} /\ waiters'[k] = w[k + n]
          BY <1>2
        <5>2. k + n # j
          BY <1>1, <5>1
        <5>3. QED
          BY <1>3, <4>1, <4>2, <5>1, <5>2
      <4>4. QED
        BY <4>1, <4>2, <4>3 DEF Filling
    <3>2. ASSUME NEW p \in Filling PROVE p \in Filling'
      BY <1>2, <3>2 DEF Filling
    <3>3. ASSUME NEW p \in Filling', p \notin S PROVE p \in Filling
      <4>1. ASSUME NEW k \in DOMAIN w, w[k] = p PROVE FALSE
        <5>1. k \in 1 .. Len(w) /\ ~(k \in 1 .. n)
          BY <1>1, <3>3, <4>1
        <5>2. k - n \in DOMAIN waiters' /\ (k - n) + n = k
          BY <1>1, <1>2, <2>2, <5>1
        <5>3. waiters'[k - n] = p
          BY <1>2, <4>1, <5>2
        <5>4. QED
          BY <3>3, <5>2, <5>3 DEF Filling
      <4>2. QED
        BY <3>3, <4>1 DEF Filling
    <3>4. QED
      BY <3>1, <3>2, <3>3
  <2> HIDE DEF S
  <2>6. Cardinality(Filling') = Cardinality(Filling) + n
    BY <2>4, <2>5, FillingFinite, DisjointUnion
  <2>7. QueueTotal = QueueTotal' + n
    <3>1. {e \in Events : status[e] = "queued"} = {e \in Events : status'[e] = "queued"} \cup M
      OBVIOUS
    <3>2. {e \in Events : status'[e] = "queued"} \cap M = {}
      OBVIOUS
    <3>3. IsFiniteSet({e \in Events : status'[e] = "queued"}) /\ IsFiniteSet(M)
      BY EventsFinite
    <3>4. QED
      BY <3>1, <3>2, <3>3, DisjointUnion DEF QueueTotal
  <2>8. Cardinality(Filling) \in Nat /\ QueueTotal \in Nat /\ QueueTotal' \in Nat
    BY FillingFinite, EventsFinite DEF QueueTotal
  <2>9. QED
    BY <1>1, <2>2, <2>6, <2>7, <2>8, MaxAssumption DEF WakeInv
<1>6. QED
  BY <1>4, <1>5

\* The orderings that are disposed of are not referred to.
LEMMA DisposedKept ==
  ASSUME TypeOK, ReorderInv, DisposedUnreferenced, NEW D \in SUBSET Orderings,
         orderings' = orderings \ D, \A o \in D : expected[o] = nextSeq[o] /\ o \notin releasable',
         \A e \in Events : OrderingOf[e] \in D => status'[e] # "queued",
         \A e \in Events : status'[e] \in Pending => status'[e] = status[e],
         releasable' \subseteq orderings
  PROVE  DisposedUnreferenced'
<1>1. ASSUME NEW e \in Events, status'[e] \in Pending, OrderingOf[e] \in D PROVE FALSE
  <2>1. status[e] \in Waiting
    BY <1>1 DEF Waiting, Pending
  <2>2. expected[OrderingOf[e]] <= sequence[e] /\ sequence[e] < nextSeq[OrderingOf[e]]
    BY <2>1 DEF ReorderInv, SequenceInv
  <2>3. expected[OrderingOf[e]] = nextSeq[OrderingOf[e]]
    BY <1>1
  <2>4. sequence[e] \in Nat /\ nextSeq[OrderingOf[e]] \in Nat
    BY <1>1, Types, AccountTypes
  <2>5. QED
    BY <2>2, <2>3, <2>4
<1>2. QED
  BY <1>1 DEF DisposedUnreferenced

\* The orderings that are released are held, and what is queued of them becomes
\* available.
LEMMA AvailableRelease ==
  ASSUME AvailableCorrect, NEW R \in SUBSET Orderings, ReleaseOrderings(R, status'),
         \A o \in R : ordIter[o] # None,
         \A e \in Events : status'[e] = "queued" => status[e] = "queued",
         \A e \in Events : status[e] = "queued" /\ status'[e] # "queued"
                             => ordIter[OrderingOf[e]] # None
  PROVE  AvailableCorrect'
<1> DEFINE A == {e \in Events : status[e] = "queued" /\ ordIter[OrderingOf[e]] = None}
           F == {e \in Events : status'[e] = "queued" /\ OrderingOf[e] \in R}
<1>1. /\ ordIter' = [o \in Orderings |-> IF o \in R THEN None ELSE ordIter[o]]
      /\ available' = available + Cardinality(F)
  BY DEF ReleaseOrderings
<1>2. \A e \in Events : ordIter'[OrderingOf[e]]
                          = IF OrderingOf[e] \in R THEN None ELSE ordIter[OrderingOf[e]]
  BY <1>1, DataAssumption
<1>3. {e \in Events : status'[e] = "queued" /\ ordIter'[OrderingOf[e]] = None} = A \cup F
  BY <1>2
<1>4. A \cap F = {} /\ IsFiniteSet(A) /\ IsFiniteSet(F)
  BY EventsFinite
<1>5. available = Cardinality(A)
  BY DEF AvailableCorrect
<1> HIDE DEF A, F
<1>6. Cardinality(A \cup F) = Cardinality(A) + Cardinality(F)
  BY <1>4, DisjointUnion
<1>7. QED
  BY <1>1, <1>3, <1>5, <1>6 DEF AvailableCorrect

-----------------------------------------------------------------------------
(* Reading.                                                                *)

\* The current iterator reads, or finds nothing to read.
LEMMA AccountRead ==
  ASSUME TypeOK, ReorderInv, DeliveryInv, AccountInv, NEW i \in Iterators, phase[i] \in MayRead,
         NEW fields,
         \/ \E k \in DOMAIN queue : FirstCandidate(i, k) /\ Consume(i, k, fields)
         \/ ReadNothing(fields),
         NEW ph \in {"yielded", "ending"}, phase' = [phase EXCEPT ![i] = ph],
         UNCHANGED <<status, discarded, orderings, fwdVars, queue, releasable, cur, schedule, closed>>
  PROVE  AccountInv'
<1>0. /\ AvailableCorrect /\ IterationDue /\ NoStuckOrdering /\ WaiterInv /\ WakeInv
      /\ FirstFindsEvent /\ DisposedUnreferenced /\ ReleaseInv
  BY DEF AccountInv
<1>1. UNCHANGED <<fwd, lock, waiters>>
  BY DEF fwdVars
<1>2. cur = i /\ cur # None
  BY NilAssumption DEF DeliveryInv, CurrentInv, Reading, MayRead
<1>3. WaiterInv' /\ DisposedUnreferenced'
  BY <1>0, <1>1 DEF WaiterInv, DisposedUnreferenced
<1>4. WakeInv'
  BY <1>0, <1>1, WakeFrame
<1>5. IterationDue'
  BY <1>0, <1>2 DEF IterationDue
<1>6. FirstFindsEvent'
  <2>1. phase \in [Iterators -> Phases]
    BY Types
  <2>2. \A j \in Iterators : phase'[j] \notin {"paused", "ready"}
    BY <1>2, <2>1 DEF DeliveryInv, CurrentInv, Reading
  <2>3. QED
    BY <2>2 DEF FirstFindsEvent
<1>7. CASE ReadNothing(fields)
  <2>1. UNCHANGED <<evIter, ordIter, available, consumed>>
    BY <1>7 DEF ReadNothing
  <2>2. AvailableCorrect' /\ ReleaseInv'
    BY <1>0, <2>1 DEF AvailableCorrect, ReleaseInv, QueuedOf, EventsOf
  <2>3. NoStuckOrdering'
    BY <1>0, <2>1 DEF NoStuckOrdering, Taken, EventsOf
  <2>4. QED
    BY <1>3, <1>4, <1>5, <1>6, <2>2, <2>3 DEF AccountInv
<1>8. CASE \E k \in DOMAIN queue : FirstCandidate(i, k) /\ Consume(i, k, fields)
  <2>1. PICK k \in DOMAIN queue : FirstCandidate(i, k) /\ Consume(i, k, fields)
    BY <1>8, SMTT(30)
  <2>2. PICK e, o : e = queue[k] /\ o = OrderingOf[e]
    OBVIOUS
  <2>3. /\ e # None /\ evIter[e] = None /\ ordIter[o] \in {None, i}
        /\ evIter' = [evIter EXCEPT ![e] = i]
        /\ ordIter' = [ordIter EXCEPT ![o] = IF consumed[o] = 0 THEN i ELSE @]
        /\ available' = IF consumed[o] = 0 THEN available - Total(status, o) ELSE available
        /\ consumed' = [consumed EXCEPT ![o] = @ + 1]
    BY <2>1, <2>2 DEF FirstCandidate, Candidates, Consume
  <2>4. e \in Events /\ o \in Orderings /\ status[e] = "queued"
    BY <2>2, <2>3, Position
  <2>5. /\ evIter'[e] = i /\ \A f \in Events : f # e => evIter'[f] = evIter[f]
        /\ \A p \in Orderings : p # o => ordIter'[p] = ordIter[p] /\ consumed'[p] = consumed[p]
        /\ ordIter'[o] = IF consumed[o] = 0 THEN i ELSE ordIter[o]
    BY <2>3, <2>4, Types
  <2>6. /\ o \notin releasable /\ consumed[o] = Cardinality(Taken(o))
        /\ Taken(o) # {} => ordIter[o] = i
    BY <1>2, <2>3, <2>4, SharedNever
  <2>7. consumed[o] = 0 <=> ordIter[o] = None
    <3>1. Taken(o) = {} => ordIter[o] = None
      BY <1>0, <2>4, <2>6 DEF NoStuckOrdering
    <3>2. QED
      BY <1>2, <2>6, <3>1, TakenFinite
  <2>8. AvailableCorrect'
    <3>1. CASE consumed[o] # 0
      <4>1. available' = available /\ \A p \in Orderings : ordIter'[p] = ordIter[p]
        BY <2>3, <2>5, <3>1
      <4>2. QED
        BY <1>0, <4>1, AvailableFrame, DataAssumption
    <3>2. CASE consumed[o] = 0
      <4> DEFINE A == {f \in Events : status[f] = "queued" /\ ordIter[OrderingOf[f]] = None}
                 B == {f \in Events : status'[f] = "queued" /\ ordIter'[OrderingOf[f]] = None}
      <4>1. \A f \in Events : OrderingOf[f] \in Orderings
        BY DataAssumption
      <4>2. ordIter[o] = None /\ ordIter'[o] # None
        BY <1>2, <2>5, <2>7, <3>2
      <4>3. A = B \cup QueuedOf(status, o)
        BY <2>5, <4>1, <4>2 DEF QueuedOf, EventsOf
      <4>4. B \cap QueuedOf(status, o) = {}
        BY <4>2 DEF QueuedOf, EventsOf
      <4>5. IsFiniteSet(A) /\ IsFiniteSet(B) /\ IsFiniteSet(QueuedOf(status, o))
        BY EventsFinite, TotalType
      <4>6. Cardinality(A) = Cardinality(B) + Total(status, o)
        BY <4>3, <4>4, <4>5, DisjointUnion DEF Total
      <4>7. available = Cardinality(A)
        BY <1>0 DEF AvailableCorrect
      <4>8. Cardinality(A) \in Nat /\ Cardinality(B) \in Nat /\ Total(status, o) \in Nat
        BY EventsFinite, TotalType
      <4>9. available' = Cardinality(B)
        BY <2>3, <3>2, <4>6, <4>7, <4>8
      <4>10. QED
        BY <4>9 DEF AvailableCorrect
    <3>3. QED
      BY <3>1, <3>2
  <2>9. NoStuckOrdering'
    <3>1. ASSUME NEW p \in Orderings, ordIter'[p] # None
          PROVE  p \in releasable \/ Taken(p)' # {}
      <4>1. CASE p = o
        BY <1>2, <2>2, <2>4, <2>5, <4>1 DEF Taken, EventsOf
      <4>2. CASE p # o
        <5>1. p \in releasable \/ Taken(p) # {}
          BY <1>0, <2>5, <3>1, <4>2 DEF NoStuckOrdering
        <5>2. Taken(p) \subseteq Taken(p)'
          BY <2>2, <2>5, <4>2 DEF Taken, EventsOf
        <5>3. QED
          BY <5>1, <5>2
      <4>3. QED
        BY <4>1, <4>2
    <3>2. QED
      BY <1>2, <3>1 DEF NoStuckOrdering
  <2>10. ReleaseInv'
    <3>1. \A p \in releasable : p \in Orderings /\ p # o
      BY <2>6, Types
    <3>2. \A p : QueuedOf(status', p) = QueuedOf(status, p)
      BY DEF QueuedOf, EventsOf
    <3>3. QED
      BY <1>0, <2>5, <3>1, <3>2 DEF ReleaseInv
  <2>11. QED
    BY <1>3, <1>4, <1>5, <1>6, <2>8, <2>9, <2>10 DEF AccountInv
<1>9. QED
  BY <1>7, <1>8

\* Looking at the next event without reading it.
LEMMA AccountPeek ==
  ASSUME TypeOK, ReorderInv, DeliveryInv, AccountInv, NEW i \in Iterators, Peek(i)
  PROVE  AccountInv'
<1>1. /\ phase[i] \in {"ready", "yielded"}
      /\ UNCHANGED <<available, ordIter, evIter, consumed, releasable, cur, schedule, status, fwd,
                     lock, waiters, discarded, closed, orderings, queue, phase, loop>>
      /\ \/ Candidates(i) = {}
         \/ \E k \in DOMAIN queue :
              /\ FirstCandidate(i, k)
              /\ it' = [it EXCEPT !.index = k,
                                  !.user = IF it.sameUser THEN UserOf[OrderingOf[queue[k]]] ELSE None]
  BY DEF Peek, evVars, ordVars, fwdVars
<1>2. WaiterInv' /\ DisposedUnreferenced'
  BY <1>1 DEF AccountInv, WaiterInv, DisposedUnreferenced
<1>3. WakeInv'
  BY <1>1, WakeFrame DEF AccountInv
<1>4. FirstFindsEvent'
  <2>1. SUFFICES ASSUME NEW j \in Iterators, phase'[j] \in {"paused", "ready"}
                 PROVE  Candidates(j)' # {}
    BY DEF FirstFindsEvent
  <2>2. j = i /\ cur = i /\ phase[i] = "ready" /\ i # None
    BY <1>1, <2>1, NilAssumption DEF DeliveryInv, CurrentInv, Reading
  <2>3. Candidates(i) # {}
    BY <1>1, <2>1, <2>2 DEF AccountInv, FirstFindsEvent
  <2>4. PICK k \in DOMAIN queue :
               /\ FirstCandidate(i, k)
               /\ it' = [it EXCEPT !.index = k,
                                   !.user = IF it.sameUser THEN UserOf[OrderingOf[queue[k]]] ELSE None]
    BY <1>1, <2>3
  <2>5. ~it.sameUser
    BY <2>2 DEF DeliveryInv, CurrentInv
  <2>6. it'.index = k /\ it'.user = None
    BY <2>4, <2>5, Types DEF Iteration
  <2>7. k \in 1 .. Len(queue) /\ Len(queue) \in Nat
    BY Types
  <2>8. k \in it'.index .. Len(queue)
    BY <2>6, <2>7
  <2>9. k \in Candidates(i)'
    BY <1>1, <2>4, <2>6, <2>8 DEF FirstCandidate, Candidates
  <2>10. QED
    BY <2>2, <2>9
<1>5. QED
  BY <1>1, <1>2, <1>3, <1>4, DueFrame, AccountQuiet

-----------------------------------------------------------------------------
(* The event read last is given back.                                      *)

\* Nothing is to be read by an iterator that has an event in its hands.
LEMMA FirstYielded ==
  ASSUME DeliveryInv, NEW i \in Iterators, phase[i] = "yielded", phase' = phase
  PROVE  FirstFindsEvent'
BY DEF DeliveryInv, CurrentInv, Reading, FirstFindsEvent

\* The event is postponed.
LEMMA AccountPostpone ==
  ASSUME TypeOK, ReorderInv, DeliveryInv, AccountInv, NEW i \in Iterators, Postpone(i)
  PROVE  AccountInv'
<1>0. /\ AvailableCorrect /\ IterationDue /\ NoStuckOrdering /\ WaiterInv /\ WakeInv
      /\ FirstFindsEvent /\ DisposedUnreferenced /\ ReleaseInv
  BY DEF AccountInv
<1>1. PICK k \in DOMAIN queue : LastRead(i, k) /\ PostponeAt(i, k)
  BY DEF Postpone
<1>2. PICK e, o : e = queue[k] /\ o = OrderingOf[e]
  OBVIOUS
<1>3. /\ phase[i] = "yielded"
      /\ evIter' = [evIter EXCEPT ![e] = None]
      /\ ordIter' = [ordIter EXCEPT ![o] = Marker]
      /\ consumed' = [consumed EXCEPT ![o] = @ - 1]
      /\ releasable' = IF consumed[o] = 1 THEN releasable \cup {o} ELSE releasable
      /\ UNCHANGED <<status, queue, cur, phase, discarded, orderings, fwd, lock, waiters, available,
                     schedule, closed>>
  BY <1>1, <1>2 DEF PostponeAt, PostponeHolder, PostponeReleasable, fwdVars
<1>4. /\ cur = i /\ i # None /\ e \in Events /\ evIter[e] = i /\ o \in Orderings /\ o \notin releasable
  BY <1>1, <1>2, <1>3, ReadLast
<1>5. /\ e \in Taken(o) /\ Cardinality(Taken(o)) \in Nat
      /\ (Cardinality(Taken(o)) = 1 <=> Taken(o)' = {})
      /\ \A p : p # o => Taken(p)' = Taken(p)
  <2>1. /\ cur # None /\ evIter[e] = cur /\ UNCHANGED cur
        /\ evIter' = [evIter EXCEPT ![e] = None] /\ e \in Events
    BY <1>3, <1>4
  <2>a. o = OrderingOf[e]
    BY <1>2
  <2>2. /\ e \in Taken(o) /\ Cardinality(Taken(o)) \in Nat
        /\ (Cardinality(Taken(o)) = 1 <=> Taken(o)' = {})
    BY <2>a, <2>1, GivenBack
  <2>3. \A p : p # o => Taken(p)' = Taken(p)
    BY <2>a, <2>1, GivenBack, ZenonT(40)
  <2>4. QED
    BY <2>2, <2>3
<1>6. /\ consumed[o] = Cardinality(Taken(o)) /\ ordIter[o] # None
      /\ status[e] = "queued"
  BY <1>2, <1>4, InFlight, NilAssumption DEF DeliveryInv, HoldInv
<1>7. /\ \A p \in Orderings : p # o => ordIter'[p] = ordIter[p] /\ consumed'[p] = consumed[p]
      /\ ordIter'[o] = Marker /\ Marker # None
  BY <1>3, <1>4, Types, NilAssumption
<1>8. AvailableCorrect'
  <2>1. \A f \in Events : /\ OrderingOf[f] \in Orderings
                          /\ ordIter[OrderingOf[f]] = None <=> ordIter'[OrderingOf[f]] = None
    BY <1>6, <1>7, DataAssumption
  <2>2. QED
    BY <1>0, <1>3, <2>1, AvailableFrame
<1>9. IterationDue' /\ WaiterInv' /\ FirstFindsEvent'
  <2>1. IterationDue' /\ WaiterInv'
    BY <1>0, <1>3, <1>4 DEF IterationDue, WaiterInv
  <2>2. QED
    BY <1>3, <2>1, FirstYielded
<1>10. WakeInv'
  BY <1>0, <1>3, WakeFrame
<1>11. NoStuckOrdering'
  <2>1. \A p \in Orderings : ordIter'[p] # None => p \in releasable' \/ Taken(p)' # {}
    BY <1>0, <1>3, <1>5, <1>6, <1>7 DEF NoStuckOrdering
  <2>2. QED
    BY <1>3, <1>4, <2>1 DEF NoStuckOrdering
<1>12. ReleaseInv'
  <2>1. \A p : QueuedOf(status', p) = QueuedOf(status, p)
    BY <1>3 DEF QueuedOf, EventsOf
  <2>2. e \in QueuedOf(status, o)
    BY <1>2, <1>4, <1>6 DEF QueuedOf, EventsOf
  <2>3. \A p \in releasable' : p = o \/ (p \in releasable /\ p \in Orderings /\ p # o)
    BY <1>3, <1>4, Types
  <2>4. QED
    BY <1>0, <1>7, <2>1, <2>2, <2>3 DEF ReleaseInv
<1>13. DisposedUnreferenced'
  BY <1>0, <1>2, <1>3, <1>4, <1>6 DEF DisposedUnreferenced, Pending
<1>14. QED
  BY <1>8, <1>9, <1>10, <1>11, <1>12, <1>13 DEF AccountInv

\* The event leaves the queue, and its ordering is free if it was the last one.
LEMMA AccountDiscard ==
  ASSUME TypeOK, ReorderInv, DeliveryInv, AccountInv, NEW i \in Iterators, Discard(i)
  PROVE  AccountInv'
<1>0. /\ AvailableCorrect /\ IterationDue /\ NoStuckOrdering /\ WaiterInv /\ WakeInv
      /\ FirstFindsEvent /\ DisposedUnreferenced /\ ReleaseInv
  BY DEF AccountInv
<1>1. PICK k \in DOMAIN queue : LastRead(i, k) /\ DiscardAt(i, k)
  BY DEF Discard
<1>2. PICK e : e = queue[k]
  OBVIOUS
<1>3. PICK o : o = OrderingOf[e]
  OBVIOUS
<1>4. /\ phase[i] = "yielded" /\ Signal(1)
      /\ status' = [status EXCEPT ![e] = "rejected"]
      /\ evIter' = [evIter EXCEPT ![e] = None]
      /\ consumed' = [consumed EXCEPT ![o] = @ - 1]
      /\ ordIter' = [ordIter EXCEPT ![o] = IF consumed[o] = 1 THEN None ELSE @]
      /\ available' = IF consumed[o] = 1 THEN available + Total(status', o) ELSE available
      /\ IF Disposable(o, expected[o], status', consumed[o] - 1)
         THEN DisposeOrderings({o}) ELSE orderings' = orderings
      /\ UNCHANGED <<cur, phase, discarded, fwd, lock, releasable, schedule, closed>>
  BY <1>1, <1>2, <1>3 DEF DiscardAt
<1>5. /\ cur = i /\ i # None /\ e \in Events /\ evIter[e] = i /\ o \in Orderings /\ o \notin releasable
  BY <1>1, <1>2, <1>3, <1>4, ReadLast
<1>6. /\ e \in Taken(o) /\ Cardinality(Taken(o)) \in Nat
      /\ (Cardinality(Taken(o)) = 1 <=> Taken(o)' = {})
      /\ \A p : p # o => Taken(p)' = Taken(p)
  <2>1. /\ cur # None /\ evIter[e] = cur /\ UNCHANGED cur
        /\ evIter' = [evIter EXCEPT ![e] = None] /\ e \in Events
    BY <1>4, <1>5
  <2>2. /\ e \in Taken(o) /\ Cardinality(Taken(o)) \in Nat
        /\ (Cardinality(Taken(o)) = 1 <=> Taken(o)' = {})
    BY <1>3, <2>1, GivenBack
  <2>3. \A p : p # o => Taken(p)' = Taken(p)
    BY <1>3, <2>1, GivenBack, ZenonT(40)
  <2>4. QED
    BY <2>2, <2>3
<1>7. consumed[o] = Cardinality(Taken(o)) /\ ordIter[o] # None /\ status[e] = "queued"
  BY <1>3, <1>5, InFlight, NilAssumption DEF DeliveryInv, HoldInv
<1>8. /\ \A p \in Orderings : p # o => ordIter'[p] = ordIter[p] /\ consumed'[p] = consumed[p]
      /\ ordIter'[o] = IF consumed[o] = 1 THEN None ELSE ordIter[o]
      /\ status'[e] = "rejected" /\ \A f \in Events : f # e => status'[f] = status[f]
  BY <1>4, <1>5, Types
<1>9. AvailableCorrect'
  <2>1. \A f \in Events : OrderingOf[f] \in Orderings
    BY DataAssumption
  <2>2. CASE consumed[o] # 1
    <3>1. available' = available /\ \A p \in Orderings : ordIter'[p] = ordIter[p]
      BY <1>4, <1>8, <2>2
    <3>2. QED
      BY <1>0, <1>3, <1>5, <1>7, <1>8, <2>1, <3>1, AvailableFrame
  <2>3. CASE consumed[o] = 1
    <3> DEFINE A == {f \in Events : status[f] = "queued" /\ ordIter[OrderingOf[f]] = None}
               B == {f \in Events : status'[f] = "queued" /\ ordIter'[OrderingOf[f]] = None}
               Q == QueuedOf(status', o)
    <3>1. B = A \cup Q
      BY <1>3, <1>7, <1>8, <2>1, <2>3 DEF QueuedOf, EventsOf
    <3>2. A \cap Q = {}
      BY <1>7 DEF QueuedOf, EventsOf
    <3>3. IsFiniteSet(A) /\ IsFiniteSet(Q)
      BY EventsFinite, TotalType
    <3>4. available = Cardinality(A)
      BY <1>0 DEF AvailableCorrect
    <3>5. available' = available + Cardinality(Q)
      BY <1>4, <2>3 DEF Total
    <3> HIDE DEF A, Q
    <3>6. Cardinality(A \cup Q) = Cardinality(A) + Cardinality(Q)
      BY <3>2, <3>3, DisjointUnion
    <3>7. QED
      BY <3>1, <3>4, <3>5, <3>6 DEF AvailableCorrect
  <2>4. QED
    BY <2>2, <2>3
<1>10. IterationDue' /\ FirstFindsEvent'
  <2>1. IterationDue'
    BY <1>0, <1>4, <1>5 DEF IterationDue
  <2>2. QED
    BY <1>4, <2>1, FirstYielded
<1>11. WaiterInv' /\ WakeInv'
  <2>1. {e} \in SUBSET Events /\ Cardinality({e}) = 1
    BY <1>5, FS_Singleton
  <2>2. Signal(Cardinality({e}))
    BY <1>4, <2>1
  <2>3. /\ \A f \in Events : status'[f] = "created" => status[f] = "created"
        /\ \A f \in {e} : status[f] = "queued"
        /\ \A f \in Events : status'[f] = "queued" <=> status[f] = "queued" /\ f \notin {e}
    BY <1>7, <1>8
  <2>4. UNCHANGED <<fwd, discarded, lock, closed>>
    BY <1>4
  <2>5. QED
    BY <1>0, <2>1, <2>2, <2>3, <2>4, WakeSignal
<1>12. NoStuckOrdering'
  <2>1. ASSUME NEW p \in Orderings, ordIter'[p] # None
        PROVE  p \in releasable' \/ Taken(p)' # {}
    <3>1. CASE p = o
      BY <1>6, <1>7, <1>8, <2>1, <3>1
    <3>2. CASE p # o
      BY <1>0, <1>4, <1>6, <1>8, <2>1, <3>2 DEF NoStuckOrdering
    <3>3. QED
      BY <3>1, <3>2
  <2>2. QED
    BY <1>4, <1>5, <2>1 DEF NoStuckOrdering
<1>13. ReleaseInv'
  <2>1. \A p \in releasable : p \in Orderings /\ p # o
    BY <1>5, Types
  <2>2. \A p : p # o => QueuedOf(status', p) = QueuedOf(status, p)
    BY <1>3, <1>8 DEF QueuedOf, EventsOf
  <2>3. QED
    BY <1>0, <1>4, <1>8, <2>1, <2>2 DEF ReleaseInv
<1>14. DisposedUnreferenced'
  <2>1. /\ \A f \in Events : status'[f] \in Pending => status'[f] = status[f]
        /\ releasable' \subseteq orderings
    BY <1>0, <1>4, <1>8 DEF Pending, DisposedUnreferenced
  <2>2. CASE orderings' = orderings
    BY <1>0, <1>4, <2>1, <2>2 DEF DisposedUnreferenced
  <2>3. CASE Disposable(o, expected[o], status', consumed[o] - 1) /\ DisposeOrderings({o})
    <3>1. /\ orderings' = orderings \ {o} /\ expected[o] = nextSeq[o]
          /\ \A f \in Events : OrderingOf[f] = o => status'[f] # "queued"
      BY <2>3, NothingQueued DEF Disposable, DisposeOrderings
    <3>2. {o} \in SUBSET Orderings /\ \A p \in {o} : expected[p] = nextSeq[p] /\ p \notin releasable'
      BY <1>4, <1>5, <3>1
    <3>3. \A f \in Events : OrderingOf[f] \in {o} => status'[f] # "queued"
      BY <3>1
    <3>4. QED
      BY <1>0, <2>1, <3>1, <3>2, <3>3, DisposedKept
  <2>4. QED
    BY <1>4, <2>2, <2>3
<1>15. QED
  BY <1>9, <1>10, <1>11, <1>12, <1>13, <1>14 DEF AccountInv

-----------------------------------------------------------------------------
(* Orderings are released.                                                 *)

\* What releaseOrderings of the releasable orderings does for every caller.
LEMMA AccountRelease ==
  ASSUME TypeOK, ReorderInv, DeliveryInv, AccountInv, ReleaseOrderings(releasable, status),
         UNCHANGED <<evVars, fwdVars, closed>>
  PROVE  /\ AvailableCorrect' /\ WaiterInv' /\ WakeInv' /\ DisposedUnreferenced' /\ ReleaseInv'
         /\ releasable' = {} /\ available' \in Nat
         /\ \A o \in Orderings : ordIter'[o] # None => Taken(o)' # {}
<1>0. /\ AvailableCorrect /\ IterationDue /\ NoStuckOrdering /\ WaiterInv /\ WakeInv
      /\ FirstFindsEvent /\ DisposedUnreferenced /\ ReleaseInv
  BY DEF AccountInv
<1>1. UNCHANGED <<status, discarded, evIter, fwd, lock, waiters, closed>>
  BY DEF evVars, fwdVars
<1>2. releasable \in SUBSET Orderings /\ \A o \in releasable : ordIter[o] # None
  BY Types DEF DeliveryInv, HoldInv
<1>3. AvailableCorrect'
  BY <1>0, <1>1, <1>2, AvailableRelease
<1>4. available' \in Nat
  <2>1. Cardinality({e \in Events : status'[e] = "queued" /\ ordIter'[OrderingOf[e]] = None}) \in Nat
    BY EventsFinite
  <2>2. QED
    BY <1>3, <2>1 DEF AvailableCorrect
<1>5. WaiterInv' /\ WakeInv'
  <2>1. WaiterInv'
    BY <1>0, <1>1 DEF WaiterInv
  <2>2. QED
    BY <1>0, <1>1, <2>1, WakeFrame
<1>6. /\ releasable' = {}
      /\ ordIter' = [o \in Orderings |-> IF o \in releasable THEN None ELSE ordIter[o]]
  BY DEF ReleaseOrderings
<1>7. ASSUME NEW o \in Orderings, ordIter'[o] # None PROVE Taken(o)' # {}
  <2>1. Taken(o) # {}
    BY <1>0, <1>6, <1>7 DEF NoStuckOrdering
  <2>2. QED
    BY <1>1, <2>1 DEF Taken, EventsOf
<1>8. DisposedUnreferenced'
  <2> DEFINE D == {o \in releasable : Disposable(o, expected[o], status, 0)}
  <2>1. D \in SUBSET Orderings /\ orderings' = orderings \ D
    BY <1>2 DEF ReleaseOrderings, DisposeOrderings
  <2>2. \A o \in D : expected[o] = nextSeq[o] /\ o \notin releasable'
    BY <1>6 DEF Disposable
  <2>3. \A e \in Events : OrderingOf[e] \in D => status'[e] # "queued"
    BY <1>1, NothingQueued DEF Disposable
  <2>4. \A e \in Events : status'[e] \in Pending => status'[e] = status[e]
    BY <1>1
  <2> HIDE DEF D
  <2>5. QED
    BY <1>0, <1>6, <2>1, <2>2, <2>3, <2>4, DisposedKept
<1>9. QED
  BY <1>3, <1>4, <1>5, <1>6, <1>7, <1>8 DEF ReleaseInv

\* The loop starts an iterator: something can be read.
LEMMA AccountTick ==
  ASSUME TypeOK, ReorderInv, DeliveryInv, AccountInv, NEW i \in Iterators, NEW pause \in BOOLEAN,
         LoopTick(i, pause)
  PROVE  AccountInv'
<1>1. /\ cur = None /\ available > 0 /\ cur' = i /\ it' = NoIteration /\ phase[i] = "free"
      /\ phase' = [phase EXCEPT ![i] = IF pause THEN "paused" ELSE "ready"]
      /\ ReleaseOrderings(releasable, status)
      /\ UNCHANGED <<evVars, fwdVars, queue, closed>>
  BY DEF LoopTick
<1>2. /\ AvailableCorrect' /\ WaiterInv' /\ WakeInv' /\ DisposedUnreferenced' /\ ReleaseInv'
      /\ releasable' = {} /\ \A o \in Orderings : ordIter'[o] # None => Taken(o)' # {}
  BY <1>1, AccountRelease
<1>3. i # None
  BY NilAssumption
<1>4. IterationDue' /\ NoStuckOrdering'
  BY <1>1, <1>2, <1>3 DEF IterationDue, NoStuckOrdering
<1>5. FirstFindsEvent'
  <2>1. SUFFICES ASSUME NEW j \in Iterators, phase'[j] \in {"paused", "ready"}
                 PROVE  Candidates(j)' # {}
    BY DEF FirstFindsEvent
  <2>2. j = i
    <3>1. j # None /\ phase[j] \notin Reading /\ phase \in [Iterators -> Phases]
      BY <1>1, Types, NilAssumption DEF DeliveryInv, CurrentInv
    <3>2. QED
      BY <1>1, <2>1, <3>1 DEF Reading
  <2>3. releasable = {}
    BY <1>1 DEF AccountInv, NoStuckOrdering
  <2>4. \E e \in Events : status[e] = "queued" /\ ordIter[OrderingOf[e]] = None
    <3>1. available = Cardinality({e \in Events : status[e] = "queued" /\ ordIter[OrderingOf[e]] = None})
      BY DEF AccountInv, AvailableCorrect
    <3>2. {e \in Events : status[e] = "queued" /\ ordIter[OrderingOf[e]] = None} # {}
      BY <1>1, <3>1, FS_EmptySet
    <3>3. QED
      BY <3>2
  <2>5. PICK e \in Events : status[e] = "queued" /\ ordIter[OrderingOf[e]] = None
    BY <2>4
  <2>6. PICK k \in DOMAIN queue : queue[k] = e /\ queue[k] # None
    BY <2>5, Place
  <2>7. evIter[e] = None
    BY <2>5, NilAssumption DEF DeliveryInv, HoldInv
  <2>8. ordIter'[OrderingOf[e]] = None
    BY <1>1, <2>3, <2>5, DataAssumption DEF ReleaseOrderings
  <2>9. it'.index = 1 /\ it'.user = None /\ k \in 1 .. Len(queue)
    BY <1>1, Types DEF NoIteration
  <2>10. queue' = queue /\ evIter' = evIter
    BY <1>1 DEF evVars
  <2>11. k \in Candidates(j)'
    BY <2>6, <2>7, <2>8, <2>9, <2>10 DEF Candidates
  <2>12. QED
    BY <2>11
<1>6. QED
  BY <1>2, <1>4, <1>5 DEF AccountInv

\* The iteration ends.
LEMMA AccountEnd ==
  ASSUME TypeOK, ReorderInv, DeliveryInv, AccountInv, NEW i \in Iterators,
         EndIteration(i) \/ ReturnUnread(i)
  PROVE  AccountInv'
<1>1. /\ cur' = None /\ ReleaseOrderings(releasable, status) /\ ScheduleIteration(available', None)
      /\ \/ phase[i] = "ending" /\ phase' = [phase EXCEPT ![i] = "done"]
         \/ phase[i] = "ready" /\ phase' = [phase EXCEPT ![i] = "compacting"]
      /\ UNCHANGED <<evVars, fwdVars, queue, closed>>
  BY DEF EndIteration, ReturnUnread, Iterated
<1>2. /\ AvailableCorrect' /\ WaiterInv' /\ WakeInv' /\ DisposedUnreferenced' /\ ReleaseInv'
      /\ releasable' = {} /\ available' \in Nat
      /\ \A o \in Orderings : ordIter'[o] # None => Taken(o)' # {}
  BY <1>1, AccountRelease
<1>3. IterationDue'
  BY <1>1, <1>2 DEF IterationDue, ScheduleIteration
<1>4. NoStuckOrdering'
  BY <1>2 DEF NoStuckOrdering
<1>5. FirstFindsEvent'
  <2>1. cur = i /\ phase \in [Iterators -> Phases]
    BY <1>1, Types DEF DeliveryInv, CurrentInv, Reading
  <2>2. \A j \in Iterators : phase'[j] \notin {"paused", "ready"}
    BY <1>1, <2>1 DEF DeliveryInv, CurrentInv, Reading
  <2>3. QED
    BY <2>2 DEF FirstFindsEvent
<1>6. QED
  BY <1>2, <1>3, <1>4, <1>5 DEF AccountInv

\* SendEvents returns: its events leave the queue, and its orderings are
\* released, at once if no iteration is in progress.
LEMMA AccountSendReturn ==
  ASSUME TypeOK, ReorderInv, DeliveryInv, AccountInv, NEW i \in Iterators, SendReturn(i)
  PROVE  AccountInv'
<1>0. /\ AvailableCorrect /\ IterationDue /\ NoStuckOrdering /\ WaiterInv /\ WakeInv
      /\ FirstFindsEvent /\ DisposedUnreferenced /\ ReleaseInv
  BY DEF AccountInv
<1>a. PICK mine : mine = {e \in Events : evIter[e] = i}
  OBVIOUS
<1>b. PICK rel : rel = releasable \cup {OrderingOf[e] : e \in mine}
  OBVIOUS
<1>1. /\ phase[i] = "done" /\ phase' = [phase EXCEPT ![i] = "compacting"]
      /\ status' = [e \in Events |-> IF e \in mine THEN "sent" ELSE status[e]]
      /\ evIter' = [e \in Events |-> IF e \in mine THEN None ELSE evIter[e]]
      /\ queue' = [k \in DOMAIN queue |-> IF queue[k] \in mine THEN None ELSE queue[k]]
      /\ Signal(Cardinality(mine))
      /\ \/ /\ cur = None /\ ReleaseOrderings(rel, status') /\ ScheduleIteration(available', None)
         \/ /\ cur # None /\ releasable' = rel /\ UNCHANGED <<ordVars, available, schedule>>
      /\ UNCHANGED <<discarded, fwd, lock, cur, it, closed>>
  BY <1>a, <1>b DEF SendReturn
<1>2. /\ i # None /\ cur # i /\ mine \in SUBSET Events
      /\ \A e \in mine : /\ status[e] = "queued" /\ OrderingOf[e] \in Orderings
                         /\ ordIter[OrderingOf[e]] # None /\ e \in Taken(OrderingOf[e])
      /\ releasable \subseteq Orderings /\ rel \subseteq Orderings
  <2>1. i # None /\ cur # i /\ mine \in SUBSET Events
    BY <1>a, <1>1, NilAssumption DEF DeliveryInv, CurrentInv, Reading
  <2>2. ASSUME NEW e \in mine
        PROVE  /\ status[e] = "queued" /\ OrderingOf[e] \in Orderings
               /\ ordIter[OrderingOf[e]] # None /\ e \in Taken(OrderingOf[e])
    <3>1. e \in Events /\ evIter[e] = i
      BY <1>a
    <3>2. status[e] = "queued" /\ OrderingOf[e] \in Orderings
      BY <2>1, <3>1, InFlight, DataAssumption
    <3>3. ordIter[OrderingOf[e]] # None
      BY <2>1, <3>1, NilAssumption DEF DeliveryInv, HoldInv
    <3>4. QED
      BY <2>1, <3>1, <3>2, <3>3 DEF Taken, EventsOf
  <2>3. QED
    BY <1>b, <2>1, <2>2, Types
<1>3. /\ \A e \in Events : status'[e] = IF e \in mine THEN "sent" ELSE status[e]
      /\ \A e \in Events : evIter'[e] = IF e \in mine THEN None ELSE evIter[e]
  BY <1>1
<1>4. \A o \in Orderings \ rel : Taken(o) \subseteq Taken(o)'
  BY <1>b, <1>3 DEF Taken, EventsOf
<1>5. \A o \in rel : ordIter[o] # None
  BY <1>b, <1>2 DEF DeliveryInv, HoldInv
<1>6. AvailableCorrect'
  <2>1. CASE cur = None /\ ReleaseOrderings(rel, status')
    <3>1. /\ \A e \in Events : status'[e] = "queued" => status[e] = "queued"
          /\ \A e \in Events : status[e] = "queued" /\ status'[e] # "queued"
                                 => ordIter[OrderingOf[e]] # None
      BY <1>2, <1>3
    <3>2. QED
      BY <1>0, <1>2, <1>5, <2>1, <3>1, AvailableRelease
  <2>2. CASE cur # None /\ UNCHANGED <<ordVars, available, schedule>>
    <3>1. ordIter' = ordIter /\ available' = available
      BY <2>2 DEF ordVars
    <3>2. QED
      BY <1>0, <1>2, <1>3, <3>1, AvailableFrame
  <2>3. QED
    BY <1>1, <2>1, <2>2
<1>7. available' \in Nat
  <2>1. Cardinality({e \in Events : status'[e] = "queued" /\ ordIter'[OrderingOf[e]] = None}) \in Nat
    BY EventsFinite
  <2>2. QED
    BY <1>6, <2>1 DEF AvailableCorrect
<1>8. IterationDue'
  <2>1. CASE cur = None /\ ScheduleIteration(available', None)
    BY <1>1, <1>7, <2>1 DEF IterationDue, ScheduleIteration
  <2>2. CASE cur # None /\ UNCHANGED <<available, schedule>>
    BY <1>0, <1>1, <2>2 DEF IterationDue
  <2>3. QED
    BY <1>1, <2>1, <2>2
<1>9. WaiterInv' /\ WakeInv'
  <2>1. \A e \in mine : status[e] = "queued"
    BY <1>2
  <2>2. \A e \in Events : status'[e] = "created" => status[e] = "created"
    BY <1>3
  <2>3. \A e \in Events : status'[e] = "queued" <=> status[e] = "queued" /\ e \notin mine
    BY <1>3
  <2>4. mine \in SUBSET Events /\ Signal(Cardinality(mine)) /\ UNCHANGED <<fwd, discarded, lock, closed>>
    BY <1>1, <1>2
  <2>5. QED
    BY <1>0, <2>1, <2>2, <2>3, <2>4, WakeSignal
<1>10. NoStuckOrdering'
  <2>1. CASE cur = None /\ ReleaseOrderings(rel, status')
    <3>1. /\ ordIter' = [o \in Orderings |-> IF o \in rel THEN None ELSE ordIter[o]]
          /\ releasable' = {}
      BY <2>1 DEF ReleaseOrderings
    <3>2. ASSUME NEW o \in Orderings, ordIter'[o] # None PROVE Taken(o)' # {}
      <4>1. o \notin rel /\ o \notin releasable /\ ordIter[o] # None
        BY <1>b, <3>1, <3>2
      <4>2. QED
        BY <1>0, <1>4, <4>1 DEF NoStuckOrdering
    <3>3. QED
      BY <3>1, <3>2 DEF NoStuckOrdering
  <2>2. CASE cur # None /\ releasable' = rel /\ UNCHANGED <<ordVars, available, schedule>>
    <3>1. ordIter' = ordIter /\ cur' # None
      BY <1>1, <2>2 DEF ordVars
    <3>2. \A o \in Orderings : ordIter[o] # None => o \in rel \/ Taken(o)' # {}
      BY <1>0, <1>b, <1>4 DEF NoStuckOrdering
    <3>3. QED
      BY <2>2, <3>1, <3>2 DEF NoStuckOrdering
  <2>3. QED
    BY <1>1, <2>1, <2>2
<1>11. FirstFindsEvent'
  <2>1. SUFFICES ASSUME NEW j \in Iterators, phase'[j] \in {"paused", "ready"}
                 PROVE  Candidates(j)' # {}
    BY DEF FirstFindsEvent
  <2>2. phase[j] \in {"paused", "ready"} /\ cur = j /\ cur # None
    <3>1. phase[j] \in {"paused", "ready"}
      BY <1>1, <2>1, Types
    <3>2. QED
      BY <3>1, NilAssumption DEF DeliveryInv, CurrentInv, Reading
  <2>3. UNCHANGED <<ordIter, it>>
    BY <1>1, <2>2 DEF ordVars
  <2>4. PICK k : k \in Candidates(j)
    BY <1>0, <2>2 DEF FirstFindsEvent
  <2>5. /\ k \in it.index .. Len(queue) /\ queue[k] # None /\ evIter[queue[k]] = None
        /\ it.index \in Nat \ {0} /\ Len(queue) \in Nat /\ DOMAIN queue = 1 .. Len(queue)
        /\ queue \in Seq(Events \cup {None})
    BY <2>4, Types DEF Candidates
  <2>6. k \in DOMAIN queue
    BY <2>5
  <2>7. queue[k] \in Events /\ queue[k] \notin mine
    BY <1>a, <1>2, <2>5, <2>6
  <2>8. queue'[k] = queue[k] /\ evIter'[queue[k]] = None
    BY <1>1, <1>3, <2>5, <2>6, <2>7
  <2>9. Len(queue') = Len(queue)
    BY <1>1, <2>5
  <2>10. k \in Candidates(j)'
    BY <2>3, <2>4, <2>5, <2>8, <2>9 DEF Candidates
  <2>11. QED
    BY <2>10
<1>12. ReleaseInv'
  <2>1. CASE cur = None /\ ReleaseOrderings(rel, status')
    BY <2>1 DEF ReleaseOrderings, ReleaseInv
  <2>2. CASE cur # None /\ releasable' = rel /\ UNCHANGED <<ordVars, available, schedule>>
    <3>1. consumed' = consumed
      BY <2>2 DEF ordVars
    <3>2. ASSUME NEW o \in rel, consumed[o] = 0 PROVE QueuedOf(status', o) # {}
      <4>1. CASE o \in releasable
        <5>1. QueuedOf(status, o) # {} /\ Taken(o) = {}
          BY <1>0, <3>2, <4>1 DEF ReleaseInv, DeliveryInv, HoldInv
        <5>2. \A e \in QueuedOf(status, o) : e \in Events /\ e \notin mine
          BY <1>2, <5>1 DEF QueuedOf, EventsOf
        <5>3. QueuedOf(status, o) \subseteq QueuedOf(status', o)
          BY <1>3, <5>2 DEF QueuedOf, EventsOf
        <5>4. QED
          BY <5>1, <5>3
      <4>2. CASE o \notin releasable
        <5>1. Taken(o) # {} /\ o \in Orderings
          BY <1>b, <1>2, <4>2
        <5>2. consumed[o] = Cardinality(Taken(o))
          BY <4>2, <5>1 DEF DeliveryInv, HoldInv
        <5>3. QED
          BY <3>2, <5>1, <5>2, TakenFinite
      <4>3. QED
        BY <4>1, <4>2
    <3>3. QED
      BY <2>2, <3>1, <3>2 DEF ReleaseInv
  <2>3. QED
    BY <1>1, <2>1, <2>2
<1>13. DisposedUnreferenced'
  <2>1. rel \subseteq orderings
    BY <1>0, <1>b, <1>2 DEF DisposedUnreferenced, Pending
  <2>2. \A e \in Events : status'[e] \in Pending => status'[e] = status[e]
    BY <1>3 DEF Pending
  <2>3. CASE cur = None /\ ReleaseOrderings(rel, status')
    <3> DEFINE D == {o \in rel : Disposable(o, expected[o], status', 0)}
    <3>1. D \in SUBSET Orderings /\ orderings' = orderings \ D /\ releasable' = {}
      BY <1>2, <2>3 DEF ReleaseOrderings, DisposeOrderings
    <3>2. \A o \in D : expected[o] = nextSeq[o] /\ o \notin releasable'
      BY <3>1 DEF Disposable
    <3>3. \A e \in Events : OrderingOf[e] \in D => status'[e] # "queued"
      BY NothingQueued DEF Disposable
    <3> HIDE DEF D
    <3>4. QED
      BY <1>0, <2>2, <3>1, <3>2, <3>3, DisposedKept
  <2>4. CASE cur # None /\ releasable' = rel /\ UNCHANGED <<ordVars, available, schedule>>
    BY <1>0, <2>1, <2>2, <2>4 DEF ordVars, DisposedUnreferenced
  <2>5. QED
    BY <1>1, <2>3, <2>4
<1>14. QED
  BY <1>6, <1>8, <1>9, <1>10, <1>11, <1>12, <1>13 DEF AccountInv

\* The queue is compacted.
LEMMA AccountCompact ==
  ASSUME TypeOK, ReorderInv, DeliveryInv, AccountInv, NEW i \in Iterators, Compact(i)
  PROVE  AccountInv'
<1>1. /\ phase[i] = "compacting" /\ phase' = [phase EXCEPT ![i] = "free"]
      /\ \/ UNCHANGED <<queue, it>>
         \/ \E n \in 0 .. Len(queue) :
              /\ LeadingHoles(n)
              /\ queue' = SubSeq(queue, n + 1, Len(queue))
              /\ it' = IF cur = None THEN it ELSE [it EXCEPT !.index = Shifted(@, n)]
      /\ UNCHANGED <<available, ordIter, evIter, consumed, releasable, cur, schedule, status, fwd,
                     lock, waiters, discarded, closed, orderings, loop>>
  BY DEF Compact, evVars, ordVars, fwdVars
<1>2. WaiterInv' /\ DisposedUnreferenced'
  BY <1>1 DEF AccountInv, WaiterInv, DisposedUnreferenced
<1>3. WakeInv'
  BY <1>1, WakeFrame DEF AccountInv
<1>4. \A j \in Iterators : phase'[j] \in {"paused", "ready"} => phase[j] \in {"paused", "ready"}
  BY <1>1, Types
<1>5. FirstFindsEvent'
  <2>1. CASE UNCHANGED <<queue, it>>
    BY <1>1, <1>4, <2>1, FirstFrame DEF AccountInv
  <2>2. ASSUME NEW n \in 0 .. Len(queue), LeadingHoles(n),
               queue' = SubSeq(queue, n + 1, Len(queue)),
               it' = IF cur = None THEN it ELSE [it EXCEPT !.index = Shifted(@, n)],
               NEW j \in Iterators, phase'[j] \in {"paused", "ready"}
        PROVE  Candidates(j)' # {}
    <3>1. phase[j] \in {"paused", "ready"} /\ cur # None
      BY <1>4, <2>2, NilAssumption DEF DeliveryInv, CurrentInv, Reading
    <3>2. PICK k : k \in Candidates(j)
      BY <3>1 DEF AccountInv, FirstFindsEvent
    <3>3. /\ queue \in Seq(Events \cup {None}) /\ Len(queue) \in Nat /\ DOMAIN queue = 1 .. Len(queue)
          /\ it.index \in Nat \ {0} /\ n \in Nat /\ n <= Len(queue)
      BY Types
    <3>4. k \in it.index .. Len(queue) /\ queue[k] # None
      BY <3>2 DEF Candidates
    <3>5. k > n /\ k \in Nat
      BY <2>2, <3>3, <3>4 DEF LeadingHoles
    <3>6. /\ Len(queue') = Len(queue) - n /\ k - n \in 1 .. Len(queue) - n
          /\ queue'[k - n] = queue[k]
      <4>1. n + 1 \in Int /\ \A m \in n + 1 .. Len(queue) : queue[m] \in Events \cup {None}
        BY <3>3
      <4>2. /\ Len(SubSeq(queue, n + 1, Len(queue)))
                 = IF n + 1 <= Len(queue) THEN Len(queue) - (n + 1) + 1 ELSE 0
            /\ \A m \in 1 .. Len(queue) - (n + 1) + 1 :
                 SubSeq(queue, n + 1, Len(queue))[m] = queue[n + 1 + m - 1]
        BY <3>3, <4>1, SubSeqProperties
      <4>3. /\ k - n \in 1 .. Len(queue) - (n + 1) + 1 /\ n + 1 + (k - n) - 1 = k
            /\ n + 1 <= Len(queue)
        BY <3>3, <3>4, <3>5
      <4>4. SubSeq(queue, n + 1, Len(queue))[k - n] = queue[k]
        BY <4>2, <4>3
      <4>5. Len(SubSeq(queue, n + 1, Len(queue))) = Len(queue) - n
        BY <3>3, <4>2, <4>3
      <4>6. k - n \in 1 .. Len(queue) - n
        BY <3>3, <3>4, <3>5
      <4>7. QED
        BY <2>2, <4>4, <4>5, <4>6
    <3>7. it'.index = Shifted(it.index, n) /\ it'.user = it.user
      BY <2>2, <3>1, Types DEF Iteration
    <3>8. k - n \in it'.index .. Len(queue')
      BY <3>3, <3>4, <3>5, <3>6, <3>7 DEF Shifted
    <3>9. k - n \in Candidates(j)'
      BY <1>1, <3>2, <3>6, <3>7, <3>8 DEF Candidates
    <3>10. QED
      BY <3>9
  <2>3. QED
    BY <1>1, <2>1, <2>2 DEF FirstFindsEvent
<1>6. QED
  BY <1>1, <1>2, <1>3, <1>5, DueFrame, AccountQuiet

-----------------------------------------------------------------------------
(* The invariant.                                                          *)

\* Every step preserves the invariant.
LEMMA AccountStep ==
  ASSUME TypeOK, ReorderInv, DeliveryInv, AccountInv, [Next]_vars
  PROVE  AccountInv'
<1>1. CurrentInv
  BY DEF DeliveryInv
<1>2. CASE \/ UNCHANGED vars \/ PauseEnd \/ LoopStop \/ LoopDone \/ Close
           \/ \E i \in Iterators : BreakIteration(i)
  BY <1>1, <1>2, AccountIdle
<1>3. ASSUME NEW e \in Events, CreateEvent(e)
      PROVE  AccountInv'
  BY <1>3, AccountCreate
<1>4. ASSUME NEW e \in Events, NEW drop \in BOOLEAN, ProcessEvent(e, drop)
      PROVE  AccountInv'
  BY <1>4, AccountProcess
<1>5. ASSUME NEW o \in Orderings, ForwardWait(o) \/ Wake(o)
      PROVE  AccountInv'
  BY <1>5, AccountSleep
<1>6. ASSUME NEW o \in Orderings, ForwardAbort(o)
      PROVE  AccountInv'
  BY <1>6, AccountAbort
<1>7. ASSUME NEW o \in Orderings, Forward(o)
      PROVE  AccountInv'
  BY <1>7, AccountForward
<1>8. ASSUME NEW i \in Iterators, NEW pause \in BOOLEAN, LoopTick(i, pause)
      PROVE  AccountInv'
  BY <1>8, AccountTick
<1>9. ASSUME NEW i \in Iterators, (\E same \in BOOLEAN : StartIteration(i, same)) \/ NextEvent(i)
      PROVE  AccountInv'
  <2>1. PICK fields :
          /\ phase[i] \in MayRead /\ ReadNext(i, fields)
          /\ UNCHANGED <<status, discarded, orderings, fwdVars, queue, releasable, cur, schedule,
                         closed>>
    BY <1>9 DEF StartIteration, NextEvent, MayRead
  <2>2. PICK ph \in {"yielded", "ending"} :
          /\ phase' = [phase EXCEPT ![i] = ph]
          /\ \/ \E k \in DOMAIN queue : FirstCandidate(i, k) /\ Consume(i, k, fields)
             \/ ReadNothing(fields)
    BY <2>1 DEF ReadNext
  <2>3. QED
    BY <2>1, <2>2, AccountRead
<1>10. ASSUME NEW i \in Iterators, First(i)
       PROVE  AccountInv'
  <2>1. /\ phase[i] \in MayRead /\ phase' = [phase EXCEPT ![i] = "ending"]
        /\ \E k \in DOMAIN queue : FirstCandidate(i, k) /\ Consume(i, k, it)
        /\ UNCHANGED <<status, discarded, orderings, fwdVars, queue, releasable, cur, schedule, closed>>
    BY <1>10 DEF First, MayRead
  <2>2. QED
    BY <2>1, AccountRead
<1>11. ASSUME NEW i \in Iterators, Peek(i)
       PROVE  AccountInv'
  BY <1>11, AccountPeek
<1>12. ASSUME NEW i \in Iterators, Discard(i)
       PROVE  AccountInv'
  BY <1>12, AccountDiscard
<1>13. ASSUME NEW i \in Iterators, Postpone(i)
       PROVE  AccountInv'
  BY <1>13, AccountPostpone
<1>14. ASSUME NEW i \in Iterators, EndIteration(i) \/ ReturnUnread(i)
       PROVE  AccountInv'
  BY <1>14, AccountEnd
<1>15. ASSUME NEW i \in Iterators, SendReturn(i)
       PROVE  AccountInv'
  BY <1>15, AccountSendReturn
<1>16. ASSUME NEW i \in Iterators, Compact(i)
       PROVE  AccountInv'
  BY <1>16, AccountCompact
<1>17. CASE TimerFires \/ LoopIdle
  BY <1>17, AccountTimer
<1>18. QED
  BY <1>2, <1>3, <1>4, <1>5, <1>6, <1>7, <1>8, <1>9, <1>10, <1>11, <1>12, <1>13, <1>14, <1>15,
     <1>16, <1>17 DEF Next

\* The initial state.
LEMMA AccountInit ==
  ASSUME Init
  PROVE  AccountInv
<1>1. /\ status = [e \in Events |-> "new"] /\ ordIter = [o \in Orderings |-> None]
      /\ releasable = {} /\ available = 0 /\ cur = None /\ schedule = FALSE /\ waiters = <<>>
      /\ phase = [i \in Iterators |-> "free"] /\ fwd = [o \in Orderings |-> None]
  BY DEF Init
<1>2. AvailableCorrect
  <2>1. {e \in Events : status[e] = "queued" /\ ordIter[OrderingOf[e]] = None} = {}
    BY <1>1
  <2>2. QED
    BY <1>1, <2>1, FS_EmptySet DEF AvailableCorrect
<1>3. IterationDue /\ NoStuckOrdering /\ ReleaseInv
  BY <1>1 DEF IterationDue, NoStuckOrdering, ReleaseInv
<1>4. WaiterInv /\ WakeInv
  BY <1>1 DEF WaiterInv, WakeInv
<1>5. FirstFindsEvent /\ DisposedUnreferenced
  BY <1>1 DEF FirstFindsEvent, DisposedUnreferenced, Pending
<1>6. QED
  BY <1>2, <1>3, <1>4, <1>5 DEF AccountInv

\* The invariant of the accounting, with those it rests on.
THEOREM AccountInvariance == Spec => [](TypeOK /\ ReorderInv /\ DeliveryInv /\ AccountInv)
<1>1. Init => AccountInv
  BY AccountInit
<1>2. TypeOK /\ ReorderInv /\ DeliveryInv /\ AccountInv /\ [Next]_vars => AccountInv'
  BY AccountStep
<1>3. QED
  BY <1>1, <1>2, DeliveryInvariance, PTL DEF Spec

\* While a goroutine sleeps and the queue is not full, another one is awake.
LEMMA SleeperNotAlone ==
  ASSUME TypeOK, ReorderInv, AccountInv
  PROVE  NoLostWakeup
<1>1. SUFFICES ASSUME waiters # <<>>, QueueTotal < MaxQueuedEvents
               PROVE  \E o \in Orderings : fwd[o] # None /\ o \notin ToSet(waiters)
  BY DEF NoLostWakeup
<1>2. QueueTotal + Cardinality(Filling) >= MaxQueuedEvents /\ QueueTotal \in Nat
  BY <1>1, QueueTotalType DEF AccountInv, WakeInv
<1>3. Cardinality(Filling) # 0
  BY <1>1, <1>2, MaxAssumption
<1>4. PICK o : o \in Filling
  BY <1>3, FS_EmptySet
<1>5. QED
  BY <1>4 DEF Filling, ToSet

\* QueueAccounting is an invariant: the counter of the available events, the
\* timer, the orderings that are barred, the sleeping goroutines, the read index
\* and the pool agree with the queue after every step of any goroutine, for every
\* number of events, orderings and iterators and every capacity.
THEOREM AccountingCorrect == Spec => []QueueAccounting
<1>1. TypeOK /\ ReorderInv /\ DeliveryInv /\ AccountInv => QueueAccounting
  BY SleeperNotAlone DEF AccountInv, QueueAccounting
<1>2. QED
  BY <1>1, AccountInvariance, PTL
=============================================================================
