------------------------- MODULE DestinationsProofs --------------------------
(***************************************************************************)
(* Proofs about Destinations, for every set of pipelines, every number of  *)
(* messages with any destinations, queues of any size and any number of    *)
(* goroutines that transform.                                              *)
(***************************************************************************)
EXTENDS Destinations, FiniteSets, SequenceTheorems, FiniteSetTheorems,
        FunctionTheorems, TLAPS

\* The types of TypeOK; that remaining does not go below zero is CountInv.
TypeInv ==
  /\ pipelines \in [Pipelines -> Instances \cup {None}]
  /\ pipelineOf \in Seq(Pipelines) /\ Len(pipelineOf) <= MaxQueues
  /\ events \in [Queues -> Seq(Events)] /\ detached \in [Queues -> Seq(Events)]
  /\ closed \subseteq Queues /\ timer \subseteq Queues /\ toClose \subseteq Queues
  /\ snapshot \in [Pipelines -> Instances \cup {None}]
  /\ worker \in {"select", "queue", "wait", "send"}
  /\ next \in Nat /\ left \in Seq(Pipelines)
  /\ phase \in [Transforms -> Phases]
  /\ instance \in [Transforms -> Instances \cup {None}]
  /\ batch \in [Transforms -> Seq(Events)]
  /\ status \in [Events -> Statuses]
  /\ done \subseteq Events /\ ackDone \subseteq Messages
  /\ remaining \in [Messages -> Int]
  /\ panicked \in BOOLEAN

\* A queue belongs to one pipeline, is closed once and empty from then on.
QueueInv ==
  /\ \A p \in Pipelines : pipelines[p] # None =>
       /\ pipelines[p].queue <= Len(pipelineOf)
       /\ pipelineOf[pipelines[p].queue] = p
       /\ pipelines[p].queue \notin closed \cup toClose
  /\ \A q \in closed \cup toClose : q <= Len(pipelineOf)
  /\ closed \cap toClose = {}
  /\ \A q \in Queues : q \notin closed => detached[q] = <<>>
  /\ \A q \in closed : events[q] = <<>>

\* A goroutine has a batch from the moment when it took one until it has
\* finished with it.
BatchInv ==
  \A g \in Transforms :
    /\ phase[g] \in {"none", "started"} <=> batch[g] = <<>>
    /\ phase[g] # "none" => instance[g] # None

\* The worker serves the destinations of a message one by one, and nothing is
\* known of the events that it has not come to.
WorkerInv ==
  /\ next # 0
  /\ worker = "select" <=> left = <<>>
  /\ worker # "select" =>
       /\ next \in Messages
       /\ \A k \in DOMAIN left : left[k] \in ToSet(DestinationsOf[next])
       /\ \A j, k \in DOMAIN left : left[j] = left[k] => j = k
       /\ \A k \in DOMAIN left :
            status[<<next, left[k]>>] =
              IF k = 1 /\ worker = "send" THEN "created" ELSE "none"
  /\ \A e \in Events : e[1] > next => status[e] = "none"
  /\ worker = "select" => \A e \in Events : e[1] = next => status[e] = "none"

\* Where an event can be between its creation and its end: in a queue, with
\* the Close of a queue, or in a batch.
Slots == ({"queue", "closing"} \X Queues) \cup ({"batch"} \X Transforms)
At(s) == IF s[1] = "queue" THEN events[s[2]]
         ELSE IF s[1] = "closing" THEN detached[s[2]] ELSE batch[s[2]]

\* It is in one place only, once, and the sender has not got it yet.
HeldInv ==
  /\ \A s \in Slots : \A k \in DOMAIN At(s) : status[At(s)[k]] = "created"
  /\ \A s, t \in Slots : \A k \in DOMAIN At(s) : \A l \in DOMAIN At(t) :
       At(s)[k] = At(t)[l] => s = t /\ k = l
  /\ worker = "send" =>
       \A s \in Slots : \A k \in DOMAIN At(s) : At(s)[k] # Current

\* The worker is past the event.
Past(e) == \/ e[1] < next
           \/ e[1] = next /\ worker # "select" /\ e[2] \notin ToSet(left)

\* A destination is done with an event when the sender is, or when the worker
\* has refused it.
DoneInv ==
  \A e \in done : \/ status[e] \in {"finalized", "discarded"}
                  \/ status[e] = "none" /\ Past(e)

\* The events of a message that are done.
DoneOf(m) == {e \in done : e[1] = m}

\* remaining counts the others, and the message is acknowledged after the last.
CountInv ==
  /\ \A m \in Messages :
       remaining[m] + Cardinality(DoneOf(m)) = Len(DestinationsOf[m])
  /\ \A m \in ackDone : \A e \in Events : e[1] = m => e \in done

\* The inductive invariant.
IndInv ==
  TypeInv /\ QueueInv /\ BatchInv /\ WorkerInv /\ HeldInv /\ DoneInv /\ CountInv

-----------------------------------------------------------------------------
(* Data.                                                                   *)

\* The elements of a sequence.
LEMMA Elements ==
  ASSUME NEW S, NEW q \in Seq(S)
  PROVE  /\ DOMAIN q = 1 .. Len(q) /\ Len(q) \in Nat
         /\ \A k \in DOMAIN q : q[k] \in S
         /\ q = <<>> <=> Len(q) = 0
         /\ q = <<>> <=> DOMAIN q = {}
         /\ q # <<>> <=> 1 \in DOMAIN q
BY EmptySeq, LenProperties, ElementOfSeq

\* The elements after Append.
LEMMA Appended ==
  ASSUME NEW S, NEW q \in Seq(S), NEW x \in S
  PROVE  /\ Append(q, x) \in Seq(S) /\ Len(Append(q, x)) = Len(q) + 1
         /\ DOMAIN Append(q, x) = DOMAIN q \cup {Len(q) + 1}
         /\ \A k \in DOMAIN q : k # Len(q) + 1 /\ Append(q, x)[k] = q[k]
         /\ Append(q, x)[Len(q) + 1] = x
BY AppendProperties, Elements

\* The elements after Tail.
LEMMA Behind ==
  ASSUME NEW S, NEW q \in Seq(S), q # <<>>
  PROVE  /\ Tail(q) \in Seq(S) /\ Head(q) \in S /\ Head(q) = q[1] /\ 1 \in DOMAIN q
         /\ Len(Tail(q)) = Len(q) - 1 /\ Len(q) \in Nat \ {0}
         /\ \A k \in DOMAIN Tail(q) :
              k + 1 \in DOMAIN q /\ 1 # k + 1 /\ k \in Nat /\ Tail(q)[k] = q[k + 1]
         /\ \A k \in DOMAIN q : k = 1 \/ (k - 1 \in DOMAIN Tail(q) /\ q[k] = Tail(q)[k - 1])
<1>1. Len(q) \in Nat /\ Len(q) # 0 /\ DOMAIN q = 1 .. Len(q)
  BY Elements
<1>2. Tail(q) \in Seq(S) /\ Len(Tail(q)) = Len(q) - 1 /\ DOMAIN Tail(q) = 1 .. Len(q) - 1
  BY <1>1, HeadTailProperties, Elements
<1>3. QED
  BY <1>1, <1>2, HeadTailProperties, ElementOfSeq

\* An event is a message and one of its destinations.
LEMMA EventType ==
  /\ \A e \in Events : /\ e[1] \in Messages /\ e[2] \in Pipelines
                       /\ e[2] \in ToSet(DestinationsOf[e[1]]) /\ e = <<e[1], e[2]>>
  /\ \A m \in Messages, p \in Pipelines :
       p \in ToSet(DestinationsOf[m]) => <<m, p>> \in Events
  /\ Messages \subseteq Nat \ {0}
BY DestinationsAssumption DEF Events, Messages

\* The destinations of a message are distinct, and there is one at least.
LEMMA DestinationsType ==
  ASSUME NEW m \in Messages
  PROVE  /\ DestinationsOf[m] \in Seq(Pipelines) /\ DestinationsOf[m] # <<>>
         /\ \A j, k \in DOMAIN DestinationsOf[m] :
              DestinationsOf[m][j] = DestinationsOf[m][k] => j = k
         /\ \A p : p \in ToSet(DestinationsOf[m]) <=>
                     \E k \in DOMAIN DestinationsOf[m] : DestinationsOf[m][k] = p
<1>1. /\ DestinationsOf[m] \in Seq(Pipelines) /\ DestinationsOf[m] # <<>>
      /\ IsInjective(DestinationsOf[m])
  BY DestinationsAssumption
<1>2. QED
  BY <1>1 DEF IsInjective, ToSet

\* The events of a message.
EventsOf(m) == {e \in Events : e[1] = m}

\* There are as many as it has destinations.
LEMMA EventsCounted ==
  ASSUME NEW m \in Messages
  PROVE  IsFiniteSet(EventsOf(m)) /\ Cardinality(EventsOf(m)) = Len(DestinationsOf[m])
<1> DEFINE d == DestinationsOf[m]
           f == [k \in 1 .. Len(d) |-> <<m, d[k]>>]
<1>1. d \in Seq(Pipelines) /\ Len(d) \in Nat /\ DOMAIN d = 1 .. Len(d)
  BY DestinationsType, Elements
<1>2. \A k \in 1 .. Len(d) : <<m, d[k]>> \in EventsOf(m)
  <2>1. ASSUME NEW k \in 1 .. Len(d) PROVE <<m, d[k]>> \in EventsOf(m)
    <3>1. d[k] \in Pipelines /\ d[k] \in ToSet(DestinationsOf[m])
      BY <1>1, DestinationsType, Elements
    <3>2. QED
      BY <3>1, EventType DEF EventsOf
  <2>2. QED
    BY <2>1
<1>3. \A e \in EventsOf(m) : \E k \in 1 .. Len(d) : f[k] = e
  <2>1. ASSUME NEW e \in EventsOf(m) PROVE \E k \in 1 .. Len(d) : f[k] = e
    <3>1. e = <<m, e[2]>> /\ e[2] \in ToSet(DestinationsOf[m])
      BY EventType DEF EventsOf
    <3>2. PICK k \in DOMAIN d : d[k] = e[2]
      BY <3>1, DestinationsType
    <3>3. QED
      BY <1>1, <3>1, <3>2
  <2>2. QED
    BY <2>1
<1>4. f \in Bijection(1 .. Len(d), EventsOf(m))
  <2>1. f \in [1 .. Len(d) -> EventsOf(m)]
    BY <1>2
  <2>2. \A j, k \in 1 .. Len(d) : d[j] = d[k] => j = k
    BY <1>1, DestinationsType
  <2>3. \A j, k \in 1 .. Len(d) : f[j] = f[k] => j = k
    BY <2>2
  <2> HIDE DEF f, d
  <2>4. QED
    BY <1>3, <2>1, <2>3, Fun_IsBij
<1>5. QED
  BY <1>1, <1>4, FS_CountingElements, FS_NatBijection DEF ExistsBijection

-----------------------------------------------------------------------------
(* Parts of the steps.                                                     *)

\* An acknowledgement is counted once, and the last one acknowledges the
\* message.
LEMMA Acknowledged ==
  ASSUME TypeInv, CountInv, NEW e \in Events, Acknowledge(e)
  PROVE  /\ done' = done \cup {e} /\ done' \subseteq Events /\ ackDone' \subseteq Messages
         /\ remaining' \in [Messages -> Int]
         /\ CountInv'
<1> DEFINE m == e[1]
<1>1. /\ m \in Messages /\ done \subseteq Events /\ ackDone \subseteq Messages
      /\ remaining \in [Messages -> Int]
  BY EventType DEF TypeInv
<1>2. CASE e \in done \/ m \in ackDone
  <2>1. e \in done /\ UNCHANGED <<done, remaining, ackDone>>
    BY <1>2 DEF Acknowledge, CountInv, ackVars
  <2>2. QED
    BY <1>1, <2>1 DEF CountInv, DoneOf
<1>3. CASE ~(e \in done \/ m \in ackDone)
  <2>1. /\ done' = done \cup {e}
        /\ remaining' = [remaining EXCEPT ![m] = @ - 1]
        /\ ackDone' = IF remaining[m] = 1 THEN ackDone \cup {m} ELSE ackDone
    BY <1>3 DEF Acknowledge
  <2>2. /\ IsFiniteSet(EventsOf(m)) /\ Cardinality(EventsOf(m)) = Len(DestinationsOf[m])
        /\ DoneOf(m) \subseteq EventsOf(m)
    BY <1>1, EventsCounted DEF DoneOf, EventsOf
  <2>3. IsFiniteSet(DoneOf(m)) /\ Cardinality(DoneOf(m)) \in Nat
    BY <2>2, FS_Subset, FS_CardinalityType
  <2>4. DoneOf(m)' = DoneOf(m) \cup {e} /\ e \notin DoneOf(m)
    BY <1>3, <2>1 DEF DoneOf
  <2>5. Cardinality(DoneOf(m)') = Cardinality(DoneOf(m)) + 1
    BY <2>3, <2>4, FS_AddElement
  <2>6. ASSUME NEW n \in Messages
        PROVE  (remaining[n] + Cardinality(DoneOf(n)) = Len(DestinationsOf[n]))'
    <3>1. CASE n = m
      <4>1. remaining'[m] = remaining[m] - 1 /\ remaining[m] \in Int
        BY <1>1, <2>1
      <4>2. QED
        BY <1>1, <2>3, <2>5, <3>1, <4>1 DEF CountInv
    <3>2. CASE n # m
      <4>1. DoneOf(n)' = DoneOf(n) /\ remaining'[n] = remaining[n]
        BY <1>1, <2>1, <3>2 DEF DoneOf
      <4>2. QED
        BY <4>1 DEF CountInv
    <3>3. QED
      BY <3>1, <3>2
  <2>7. ASSUME NEW n \in ackDone', NEW x \in Events, x[1] = n PROVE x \in done'
    <3>1. CASE n \in ackDone
      BY <2>1, <2>7, <3>1 DEF CountInv
    <3>2. CASE n \notin ackDone
      <4>1. n = m /\ remaining[m] = 1
        BY <2>1, <3>2
      <4>2. remaining[m] + Cardinality(DoneOf(m)) = Cardinality(EventsOf(m))
        BY <1>1, <2>2 DEF CountInv
      <4>3. Cardinality(DoneOf(m)') = Cardinality(EventsOf(m))
        BY <2>3, <2>5, <4>1, <4>2
      <4>4. DoneOf(m)' \subseteq EventsOf(m)
        BY <2>2, <2>4 DEF EventsOf
      <4>5. DoneOf(m)' = EventsOf(m)
        BY <2>2, <4>3, <4>4, FS_Subset
      <4>6. x \in EventsOf(m)
        BY <2>7, <4>1 DEF EventsOf
      <4>7. x \in DoneOf(m)'
        BY <4>5, <4>6
      <4>8. QED
        BY <4>7 DEF DoneOf
    <3>3. QED
      BY <3>1, <3>2
  <2>8. CountInv'
    BY <2>6, <2>7 DEF CountInv
  <2>9. ackDone' \subseteq Messages /\ remaining' \in [Messages -> Int] /\ done' \subseteq Events
    BY <1>1, <2>1
  <2>10. QED
    BY <2>1, <2>8, <2>9
<1>4. QED
  BY <1>2, <1>3

\* The event the worker is at.
LEMMA CurrentEvent ==
  ASSUME TypeInv, WorkerInv, worker # "select"
  PROVE  /\ Current \in Events /\ left # <<>> /\ Head(left) = left[1] /\ 1 \in DOMAIN left
         /\ next \in Messages /\ Head(left) \in Pipelines
         /\ status[Current] = IF worker = "send" THEN "created" ELSE "none"
<1>1. left \in Seq(Pipelines) /\ left # <<>> /\ next \in Messages
  BY DEF TypeInv, WorkerInv
<1>2. Head(left) = left[1] /\ 1 \in DOMAIN left /\ Head(left) \in Pipelines
  BY <1>1, Behind
<1>3. Head(left) \in ToSet(DestinationsOf[next])
  BY <1>2 DEF WorkerInv
<1>4. QED
  BY <1>1, <1>2, <1>3, EventType DEF Current, WorkerInv

\* It is not done, as the worker is not past it.
LEMMA CurrentNotDone ==
  ASSUME TypeInv, WorkerInv, DoneInv, worker # "select"
  PROVE  Current \notin done
<1> DEFINE c == Current
<1>1. c = <<next, left[1]>> /\ left[1] \in ToSet(left) /\ next \in Nat
  BY CurrentEvent DEF Current, ToSet, TypeInv
<1>2. ~Past(c)
  BY <1>1 DEF Past
<1>3. status[c] \in {"created", "none"}
  BY CurrentEvent
<1>4. QED
  BY <1>2, <1>3 DEF DoneInv

\* The worker goes on to the next event.
LEMMA Advanced ==
  ASSUME TypeInv, WorkerInv, worker # "select", Advance,
         \A e \in Events : e # Current => status'[e] = status[e]
  PROVE  /\ WorkerInv'
         /\ snapshot' \in [Pipelines -> Instances \cup {None}]
         /\ worker' \in {"select", "queue"}
         /\ next' \in Nat /\ left' \in Seq(Pipelines)
         /\ \A e \in Events : Past(e) \/ e = Current => Past(e)'
<1>1. /\ left \in Seq(Pipelines) /\ left # <<>> /\ next \in Messages /\ next \in Nat
      /\ snapshot \in [Pipelines -> Instances \cup {None}]
  BY DEF TypeInv, WorkerInv
<1>2. /\ left' = Tail(left)
      /\ snapshot' = IF Len(left) = 1 THEN NoPipelines ELSE snapshot
      /\ worker' = IF Len(left) = 1 THEN "select" ELSE "queue"
      /\ next' = IF Len(left) = 1 THEN next + 1 ELSE next
  BY DEF Advance
<1>3. /\ left' \in Seq(Pipelines) /\ Head(left) = left[1] /\ 1 \in DOMAIN left
      /\ Len(left') = Len(left) - 1 /\ Len(left) \in Nat \ {0}
      /\ \A k \in DOMAIN left' :
           k + 1 \in DOMAIN left /\ 1 # k + 1 /\ k \in Nat /\ left'[k] = left[k + 1]
      /\ \A k \in DOMAIN left : k = 1 \/ (k - 1 \in DOMAIN left' /\ left[k] = left'[k - 1])
  BY <1>1, <1>2, Behind
<1>4. left' = <<>> <=> Len(left) = 1
  <2>1. ASSUME NEW x \in Seq(Pipelines) PROVE x = <<>> <=> Len(x) = 0
    BY Elements
  <2>2. left' = <<>> <=> Len(left') = 0
    BY <1>3, <2>1
  <2>3. QED
    BY <1>3, <2>2
<1>5. snapshot' \in [Pipelines -> Instances \cup {None}]
  BY <1>1, <1>2 DEF NoPipelines
<1>6. /\ next # 0
      /\ \A k \in DOMAIN left : left[k] \in ToSet(DestinationsOf[next])
      /\ \A j, k \in DOMAIN left : left[j] = left[k] => j = k
      /\ \A k \in DOMAIN left :
            status[<<next, left[k]>>] =
              IF k = 1 /\ worker = "send" THEN "created" ELSE "none"
      /\ \A e \in Events : e[1] > next => status[e] = "none"
  BY DEF WorkerInv
<1>7. Current = <<next, left[1]>>
  BY <1>3 DEF Current
<1>8. CASE Len(left) = 1
  <2>1. worker' = "select" /\ next' = next + 1 /\ left' = <<>>
    BY <1>2, <1>4, <1>8
  <2>2. \A e \in Events : e[1] > next => status'[e] = "none"
    BY <1>1, <1>6, <1>7
  <2>3. \A e \in Events : e[1] \in Nat
    BY EventType
  <2>4. WorkerInv'
    BY <1>1, <2>1, <2>2, <2>3 DEF WorkerInv
  <2>5. \A e \in Events : Past(e) \/ e = Current => Past(e)'
    BY <1>1, <1>7, <2>1, <2>3 DEF Past
  <2>6. QED
    BY <1>1, <1>3, <1>5, <2>1, <2>4, <2>5
<1>9. CASE Len(left) # 1
  <2>1. worker' = "queue" /\ next' = next /\ left' # <<>>
    BY <1>2, <1>4, <1>9
  <2>2. ASSUME NEW k \in DOMAIN left' PROVE status'[<<next, left'[k]>>] = "none"
    <3>1. k + 1 \in DOMAIN left /\ 1 # k + 1 /\ left'[k] = left[k + 1]
      BY <1>3
    <3>2. left[k + 1] # left[1]
      BY <1>3, <1>6, <3>1
    <3>3. status[<<next, left[k + 1]>>] = "none"
      BY <1>6, <3>1
    <3>4. <<next, left[k + 1]>> \in Events
      BY <1>1, <1>6, <3>1, Elements, EventType
    <3>5. QED
      BY <1>7, <3>1, <3>2, <3>3, <3>4
  <2>3. \A e \in Events : e[1] > next => status'[e] = "none"
    BY <1>1, <1>6, <1>7
  <2>4. \A j, k \in DOMAIN left' : left'[j] = left'[k] => j = k
    BY <1>3, <1>6
  <2>5. \A k \in DOMAIN left' : left'[k] \in ToSet(DestinationsOf[next])
    BY <1>3, <1>6
  <2>6. WorkerInv'
    BY <1>1, <1>6, <2>1, <2>2, <2>3, <2>4, <2>5 DEF WorkerInv
  <2>7. ASSUME NEW p \in ToSet(left') PROVE p \in ToSet(left) /\ p # left[1]
    <3>1. PICK k \in DOMAIN left' : left'[k] = p
      BY DEF ToSet
    <3>2. k + 1 \in DOMAIN left /\ 1 # k + 1 /\ left[k + 1] = p
      BY <1>3, <3>1
    <3>3. QED
      BY <1>3, <1>6, <3>2 DEF ToSet
  <2>8. \A e \in Events : Past(e) \/ e = Current => Past(e)'
    BY <1>7, <2>1, <2>7 DEF Past
  <2>9. QED
    BY <1>1, <1>3, <1>5, <2>1, <2>6, <2>8
<1>10. QED
  BY <1>8, <1>9

\* The worker stays where it is, whether it sleeps or not, and only events that
\* it is past change.
LEMMA WorkerKept ==
  ASSUME TypeInv, WorkerInv, UNCHANGED <<next, left>>,
         \/ worker' = worker
         \/ worker \in {"queue", "wait"} /\ worker' \in {"queue", "wait"},
         \A e \in Events : \/ status'[e] = status[e]
                           \/ status[e] # "none" /\ (worker = "send" => e # Current)
  PROVE  WorkerInv' /\ \A e \in Events : Past(e) => Past(e)'
<1>1. CASE worker = "select"
  BY <1>1 DEF WorkerInv, Past
<1>2. CASE worker # "select"
  <2>1. /\ worker' # "select" /\ left # <<>> /\ next \in Messages
        /\ worker' = "send" <=> worker = "send"
    BY <1>2 DEF WorkerInv
  <2>2. Current = <<next, left[1]>> /\ left \in Seq(Pipelines)
    BY <1>2, CurrentEvent DEF Current, TypeInv
  <2>3. ASSUME NEW k \in DOMAIN left
        PROVE  status'[<<next, left[k]>>] =
                 IF k = 1 /\ worker = "send" THEN "created" ELSE "none"
    <3>1. <<next, left[k]>> \in Events
      BY <1>2, <2>1, <2>2, Elements, EventType DEF WorkerInv
    <3>2. status[<<next, left[k]>>] = IF k = 1 /\ worker = "send" THEN "created" ELSE "none"
      BY <1>2 DEF WorkerInv
    <3>3. QED
      BY <2>2, <3>1, <3>2
  <2>4. \A e \in Events : e[1] > next => status'[e] = "none"
    BY DEF WorkerInv
  <2>5. WorkerInv'
    BY <1>2, <2>1, <2>3, <2>4 DEF WorkerInv
  <2>6. QED
    BY <1>2, <2>1, <2>5 DEF Past
<1>3. QED
  BY <1>1, <1>2

\* No event moves, and those that are held do not change.
LEMMA HeldKept ==
  ASSUME HeldInv, UNCHANGED <<events, detached, batch>>,
         \A s \in Slots : \A k \in DOMAIN At(s) :
           /\ status'[At(s)[k]] = status[At(s)[k]]
           /\ worker' = "send" => At(s)[k] # Current'
  PROVE  HeldInv'
<1>1. \A s : At(s)' = At(s)
  BY DEF At
<1>2. QED
  BY <1>1 DEF HeldInv

\* Events move: what is held at k in s was at k + n[s] in O[s].
LEMMA HeldMoved ==
  ASSUME HeldInv, NEW O \in [Slots -> Slots], NEW n \in [Slots -> Nat],
         \A s \in Slots : \A k \in DOMAIN At(s)' :
           /\ k + n[s] \in DOMAIN At(O[s]) /\ At(s)'[k] = At(O[s])[k + n[s]]
           /\ status'[At(s)'[k]] = "created",
         \A s, t \in Slots : \A k \in DOMAIN At(s)' : \A l \in DOMAIN At(t)' :
           O[s] = O[t] /\ k + n[s] = l + n[t] => s = t /\ k = l,
         worker' = "send" => worker = "send" /\ Current' = Current
  PROVE  HeldInv'
<1>1. ASSUME NEW s \in Slots, NEW t \in Slots, NEW k \in DOMAIN At(s)', NEW l \in DOMAIN At(t)',
             At(s)'[k] = At(t)'[l]
      PROVE  s = t /\ k = l
  <2>1. At(O[s])[k + n[s]] = At(O[t])[l + n[t]]
    BY <1>1
  <2>2. O[s] = O[t] /\ k + n[s] = l + n[t]
    BY <2>1 DEF HeldInv
  <2>3. QED
    BY <2>2
<1>2. ASSUME NEW s \in Slots, NEW k \in DOMAIN At(s)', worker' = "send"
      PROVE  At(s)'[k] # Current'
  BY <1>2 DEF HeldInv
<1>3. QED
  BY <1>1, <1>2 DEF HeldInv

\* What was done stays done.
LEMMA DoneKept ==
  ASSUME TypeInv, DoneInv, NEW D, done' = done \cup D, D \subseteq Events,
         \A e \in Events : Past(e) => Past(e)',
         \A e \in done : status'[e] = status[e],
         \A e \in D : \/ status'[e] \in {"finalized", "discarded"}
                      \/ status'[e] = "none" /\ Past(e)'
  PROVE  DoneInv'
BY DEF TypeInv, DoneInv

\* No acknowledgement.
LEMMA CountKept == ASSUME CountInv, UNCHANGED <<done, remaining, ackDone>> PROVE CountInv'
BY DEF CountInv, DoneOf

\* No queue is changed.
LEMMA QueueKept ==
  ASSUME QueueInv, UNCHANGED <<pipelines, pipelineOf, closed, toClose, detached, events>>
  PROVE  QueueInv'
BY DEF QueueInv

\* What is held is an event, created and not done.
LEMMA HeldEvent ==
  ASSUME IndInv, NEW s \in Slots, NEW k \in DOMAIN At(s)
  PROVE  /\ At(s) \in Seq(Events) /\ At(s)[k] \in Events
         /\ status[At(s)[k]] = "created" /\ At(s)[k] \notin done
         /\ worker = "send" => At(s)[k] # Current
<1>1. /\ events \in [Queues -> Seq(Events)] /\ detached \in [Queues -> Seq(Events)]
      /\ batch \in [Transforms -> Seq(Events)]
  BY DEF IndInv, TypeInv
<1>2. At(s) \in Seq(Events)
  BY <1>1 DEF Slots, At
<1>3. At(s)[k] \in Events
  BY <1>2, Elements
<1>4. status[At(s)[k]] = "created" /\ (worker = "send" => At(s)[k] # Current)
  BY DEF IndInv, HeldInv
<1>5. At(s)[k] \notin done
  BY <1>4 DEF IndInv, DoneInv
<1>6. QED
  BY <1>2, <1>3, <1>4, <1>5

-----------------------------------------------------------------------------
(* The notifications.                                                      *)

\* A step that leaves alone everything but the pipelines, the transformations
\* that are to start and the timers.
LEMMA Aside ==
  ASSUME IndInv, TypeInv', QueueInv', BatchInv',
         UNCHANGED <<events, detached, batch, workerVars, status, ackVars>>
  PROVE  IndInv'
<1>1. TypeInv /\ WorkerInv /\ HeldInv /\ DoneInv /\ CountInv
  BY DEF IndInv
<1>2. UNCHANGED <<next, left, worker, done, remaining, ackDone>> /\ Current' = Current
  BY DEF workerVars, ackVars, Current
<1>3. WorkerInv' /\ \A e \in Events : Past(e) => Past(e)'
  BY <1>1, <1>2, WorkerKept
<1>4. HeldInv'
  BY <1>1, <1>2, HeldKept DEF HeldInv
<1>5. DoneInv'
  BY <1>1, <1>2, <1>3 DEF DoneInv, TypeInv
<1>6. QED
  BY <1>1, <1>2, <1>3, <1>4, <1>5, CountKept DEF IndInv

\* A new queue has a new number.
LEMMA EnableInd ==
  ASSUME IndInv, UNCHANGED panicked, NEW p \in Pipelines, NEW t \in BOOLEAN, Enable(p, t)
  PROVE  IndInv'
<1>0. TypeInv /\ QueueInv /\ BatchInv
  BY DEF IndInv
<1>1. /\ pipelines \in [Pipelines -> Instances \cup {None}] /\ pipelineOf \in Seq(Pipelines)
      /\ Len(pipelineOf) \in Nat /\ Len(pipelineOf) < MaxQueues
      /\ closed \subseteq Queues /\ toClose \subseteq Queues
  BY <1>0, Elements DEF TypeInv, Enable
<1> DEFINE n == Len(pipelineOf) + 1
<1>2. /\ pipelineOf' = Append(pipelineOf, p)
      /\ pipelineOf' \in Seq(Pipelines) /\ Len(pipelineOf') = n /\ n \in Queues
      /\ \A q \in 1 .. Len(pipelineOf) : q \in DOMAIN pipelineOf /\ pipelineOf'[q] = pipelineOf[q]
      /\ pipelineOf'[n] = p
  BY <1>1, Appended, Elements, DestinationsAssumption DEF Enable, Queues
<1>3. pipelines' = [pipelines EXCEPT ![p] = [queue |-> n, transformer |-> t]]
  BY <1>2 DEF Enable
<1> HIDE DEF n
<1>4. pipelines' \in [Pipelines -> Instances \cup {None}]
  BY <1>1, <1>2, <1>3 DEF Instances
<1>5. UNCHANGED <<events, detached, closed, toClose, phase, instance, batch, timer, workerVars,
                  status, ackVars>>
  BY DEF Enable, queueVars, closeVars, batchVars
<1>6. TypeInv'
  BY <1>0, <1>1, <1>2, <1>4, <1>5, DestinationsAssumption, SMTT(30)
     DEF TypeInv, workerVars, ackVars, Queues
<1>7. QueueInv'
  <2>1. ASSUME NEW x \in Pipelines, pipelines'[x] # None
        PROVE  /\ pipelines'[x].queue <= Len(pipelineOf')
               /\ pipelineOf'[pipelines'[x].queue] = x
               /\ pipelines'[x].queue \notin closed \cup toClose
    <3>1. CASE x = p
      <4>1. pipelines'[x].queue = n
        BY <1>1, <1>3, <3>1
      <4>2. n \notin closed \cup toClose
        BY <1>0, <1>1 DEF QueueInv, n
      <4>3. QED
        BY <1>2, <3>1, <4>1, <4>2 DEF Queues
    <3>2. CASE x # p
      <4>1. pipelines'[x] = pipelines[x] /\ pipelines[x] # None /\ pipelines[x] \in Instances
        BY <1>1, <1>3, <2>1, <3>2
      <4>2. pipelines[x].queue \in 1 .. Len(pipelineOf)
        BY <1>0, <1>1, <4>1 DEF QueueInv, Instances, Queues
      <4>3. QED
        BY <1>0, <1>1, <1>2, <4>1, <4>2 DEF QueueInv, n
    <3>3. QED
      BY <3>1, <3>2
  <2>2. \A q \in closed \cup toClose : q <= Len(pipelineOf')
    BY <1>0, <1>1, <1>2 DEF QueueInv, Queues, n
  <2>3. QED
    BY <1>0, <1>5, <2>1, <2>2 DEF QueueInv
<1>8. BatchInv'
  BY <1>0, <1>5 DEF BatchInv
<1>9. QED
  BY <1>5, <1>6, <1>7, <1>8, Aside

\* An update keeps the queue.
LEMMA UpdateInd ==
  ASSUME IndInv, UNCHANGED panicked, NEW p \in Pipelines, Update(p)
  PROVE  IndInv'
<1>0. TypeInv /\ QueueInv /\ BatchInv
  BY DEF IndInv
<1>1. /\ pipelines \in [Pipelines -> Instances \cup {None}] /\ pipelines[p] \in Instances
  BY <1>0 DEF TypeInv, Update
<1>2. /\ pipelines' = [pipelines EXCEPT ![p].transformer = ~@] /\ pipelines[p] # None
      /\ UNCHANGED <<events, detached, closed, toClose, pipelineOf, phase, instance, batch, timer,
                     workerVars, status, ackVars>>
  BY DEF Update, queueVars, closeVars, batchVars
<1>3. /\ pipelines'[p] \in Instances /\ pipelines'[p].queue = pipelines[p].queue
      /\ \A x \in Pipelines : x # p => pipelines'[x] = pipelines[x]
      /\ pipelines' \in [Pipelines -> Instances \cup {None}]
  <2>1. pipelines'[p] = [pipelines[p] EXCEPT !.transformer = ~@]
    BY <1>1, <1>2
  <2>2. pipelines'[p] \in Instances /\ pipelines'[p].queue = pipelines[p].queue
    BY <1>1, <2>1 DEF Instances
  <2>3. QED
    BY <1>1, <1>2, <2>2
<1>4. TypeInv'
  BY <1>0, <1>2, <1>3 DEF TypeInv, workerVars, ackVars
<1>5. QueueInv'
  BY <1>0, <1>2, <1>3 DEF QueueInv
<1>6. BatchInv'
  BY <1>0, <1>2 DEF BatchInv
<1>7. QED
  BY <1>2, <1>4, <1>5, <1>6, Aside

\* Only the queues of the removed pipelines are to be closed.
LEMMA RemoveInd ==
  ASSUME IndInv, UNCHANGED panicked, NEW ps \in SUBSET Pipelines, RemovePipelines(ps)
  PROVE  IndInv'
<1>0. TypeInv /\ QueueInv /\ BatchInv
  BY DEF IndInv
<1>1. /\ pipelines' = [p \in Pipelines |-> IF p \in ps THEN None ELSE pipelines[p]]
      /\ toClose' = toClose \cup {pipelines[p].queue : p \in ps}
      /\ \A p \in ps : pipelines[p] # None
      /\ UNCHANGED <<events, detached, closed, pipelineOf, phase, instance, batch, timer,
                     workerVars, status, ackVars>>
  BY DEF RemovePipelines, queueVars, batchVars
<1>2. pipelines \in [Pipelines -> Instances \cup {None}] /\ toClose \subseteq Queues
  BY <1>0 DEF TypeInv
<1>3. /\ pipelines' \in [Pipelines -> Instances \cup {None}] /\ toClose' \subseteq Queues
      /\ \A p \in Pipelines : pipelines'[p] # None => p \notin ps /\ pipelines'[p] = pipelines[p]
  BY <1>1, <1>2 DEF Instances
<1>4. TypeInv'
  BY <1>0, <1>1, <1>3 DEF TypeInv, workerVars, ackVars
<1>5. QueueInv'
  <2>1. ASSUME NEW q \in toClose' PROVE q \in toClose \/ \E p \in ps : q = pipelines[p].queue
    BY <1>1
  <2>2. ASSUME NEW q \in toClose' PROVE q <= Len(pipelineOf) /\ q \notin closed
    BY <1>0, <1>1, <2>1 DEF QueueInv
  <2>3. ASSUME NEW p \in Pipelines, pipelines'[p] # None
        PROVE  pipelines'[p].queue \notin toClose'
    BY <1>0, <1>1, <1>3, <2>1, <2>3 DEF QueueInv
  <2>4. QED
    BY <1>0, <1>1, <1>3, <2>2, <2>3 DEF QueueInv
<1>6. BatchInv'
  BY <1>0, <1>1 DEF BatchInv
<1>7. QED
  BY <1>1, <1>4, <1>5, <1>6, Aside

-----------------------------------------------------------------------------
(* Close.                                                                  *)

\* The worker that sleeps on a queue wakes up.
LEMMA Woken ==
  ASSUME TypeInv, NEW q, worker' = Broadcast(q)
  PROVE  /\ worker' = worker \/ (worker = "wait" /\ worker' = "queue")
         /\ worker' \in {"select", "queue", "wait", "send"}
BY DEF Broadcast, TypeInv

\* Close takes the events of the queue.
LEMMA CloseInd ==
  ASSUME IndInv, UNCHANGED panicked, NEW q \in Queues, Close(q)
  PROVE  IndInv'
<1>0. TypeInv /\ QueueInv /\ BatchInv /\ WorkerInv /\ HeldInv /\ DoneInv /\ CountInv
  BY DEF IndInv
<1>1. /\ q \in toClose /\ toClose' = toClose \ {q} /\ closed' = closed \cup {q}
      /\ detached' = [detached EXCEPT ![q] = events[q]]
      /\ events' = [events EXCEPT ![q] = <<>>]
      /\ timer' = timer \ {q} /\ worker' = Broadcast(q)
      /\ UNCHANGED <<pipelines, pipelineOf, updates, next, left, snapshot, phase, instance, batch,
                     status, done, remaining, ackDone>>
  BY DEF Close, ResetTimer, stateVars, batchVars, ackVars
<1>2. /\ events \in [Queues -> Seq(Events)] /\ detached \in [Queues -> Seq(Events)]
      /\ batch \in [Transforms -> Seq(Events)]
  BY <1>0 DEF TypeInv
<1>3. /\ worker' = worker \/ (worker = "wait" /\ worker' = "queue")
      /\ worker' \in {"select", "queue", "wait", "send"}
  BY <1>0, <1>1, Woken
<1>4. /\ events' \in [Queues -> Seq(Events)] /\ detached' \in [Queues -> Seq(Events)]
      /\ events'[q] = <<>> /\ detached'[q] = events[q]
      /\ \A x \in Queues : x # q => events'[x] = events[x] /\ detached'[x] = detached[x]
  BY <1>1, <1>2, EmptySeq
<1>5. TypeInv'
  BY <1>0, <1>1, <1>3, <1>4 DEF TypeInv
<1>6. QueueInv'
  BY <1>0, <1>1, <1>4 DEF QueueInv
<1>7. BatchInv'
  BY <1>0, <1>1 DEF BatchInv
<1>8. WorkerInv' /\ \A e \in Events : Past(e) => Past(e)'
  BY <1>0, <1>1, <1>3, WorkerKept
<1>9. HeldInv'
  <2> DEFINE a == <<"queue", q>>
             b == <<"closing", q>>
             O == [s \in Slots |-> IF s = b THEN a ELSE s]
             n == [s \in Slots |-> 0]
  <2>1. a \in Slots /\ b \in Slots /\ a # b
    BY DEF Slots
  <2>2. At(a)' = <<>> /\ At(b)' = At(a)
    BY <1>4 DEF At
  <2>3. ASSUME NEW s \in Slots, s # a, s # b PROVE At(s)' = At(s)
    BY <1>1, <1>4, <2>3 DEF At, Slots
  <2>4. /\ O \in [Slots -> Slots] /\ n \in [Slots -> Nat]
        /\ \A s \in Slots : n[s] = 0 /\ O[s] = IF s = b THEN a ELSE s
    BY <2>1
  <2>5. ASSUME NEW s \in Slots, NEW k \in DOMAIN At(s)'
        PROVE  s # a /\ At(s)' = At(O[s]) /\ k \in Nat
    <3>1. s # a /\ At(s)' = At(O[s])
      BY <2>1, <2>2, <2>3, <2>4
    <3>2. O[s] \in Slots /\ k \in DOMAIN At(O[s])
      BY <2>4, <3>1
    <3>3. At(O[s]) \in Seq(Events)
      BY <3>2, HeldEvent
    <3>4. k \in Nat
      BY <3>2, <3>3, Elements
    <3>5. QED
      BY <3>1, <3>4
  <2>6. Current' = Current /\ (worker' = "send" => worker = "send")
    BY <1>1, <1>3 DEF Current
  <2> HIDE DEF O, n, a, b
  <2>7. \A s \in Slots : \A k \in DOMAIN At(s)' :
           /\ k + n[s] \in DOMAIN At(O[s]) /\ At(s)'[k] = At(O[s])[k + n[s]]
           /\ status'[At(s)'[k]] = "created"
    BY <1>0, <1>1, <2>4, <2>5 DEF HeldInv
  <2>8. \A s, t \in Slots : \A k \in DOMAIN At(s)' : \A l \in DOMAIN At(t)' :
           O[s] = O[t] /\ k + n[s] = l + n[t] => s = t /\ k = l
    BY <2>4, <2>5
  <2>9. QED
    BY <1>0, <2>4, <2>6, <2>7, <2>8, HeldMoved
<1>10. DoneInv'
  BY <1>0, <1>1, <1>8 DEF DoneInv, TypeInv
<1>11. QED
  BY <1>0, <1>1, <1>5, <1>6, <1>7, <1>8, <1>9, <1>10, CountKept DEF IndInv

\* The first event that is held in x is passed to the sender.
LEMMA HeadLeaves ==
  ASSUME IndInv, NEW x \in Slots, At(x) # <<>>, At(x)' = Tail(At(x)),
         \A s \in Slots : s # x => At(s)' = At(s),
         NEW v \in {"sent", "discarded"}, status' = [status EXCEPT ![Head(At(x))] = v],
         UNCHANGED <<next, left, worker>>
  PROVE  /\ HeldInv' /\ WorkerInv' /\ \A e \in Events : Past(e) => Past(e)'
         /\ Head(At(x)) \in Events /\ status[Head(At(x))] = "created" /\ Head(At(x)) \notin done
         /\ status' \in [Events -> Statuses] /\ status'[Head(At(x))] = v
         /\ \A e \in Events : e # Head(At(x)) => status'[e] = status[e]
<1>0. TypeInv /\ WorkerInv /\ HeldInv /\ status \in [Events -> Statuses]
  BY DEF IndInv, TypeInv
<1>1. At(x) \in Seq(Events)
  BY DEF IndInv, TypeInv, Slots, At
<1> DEFINE h == Head(At(x))
<1>2. /\ h = At(x)[1] /\ 1 \in DOMAIN At(x)
      /\ \A k \in DOMAIN Tail(At(x)) :
           /\ k + 1 \in DOMAIN At(x) /\ 1 # k + 1 /\ k \in Nat
           /\ Tail(At(x))[k] = At(x)[k + 1]
  BY <1>1, Behind
<1>3. /\ h \in Events /\ status[h] = "created" /\ h \notin done
      /\ worker = "send" => h # Current
  BY <1>2, HeldEvent
<1>4. /\ status' \in [Events -> Statuses] /\ status'[h] = v
      /\ \A e \in Events : e # h => status'[e] = status[e]
  BY <1>0, <1>3 DEF Statuses
<1> HIDE DEF h
<1>5. WorkerInv' /\ \A e \in Events : Past(e) => Past(e)'
  BY <1>0, <1>3, <1>4, WorkerKept
<1>6. HeldInv'
  <2> DEFINE O == [s \in Slots |-> s]
             n == [s \in Slots |-> IF s = x THEN 1 ELSE 0]
  <2>1. /\ O \in [Slots -> Slots] /\ n \in [Slots -> Nat]
        /\ \A s \in Slots : O[s] = s /\ n[s] = IF s = x THEN 1 ELSE 0
    OBVIOUS
  <2> HIDE DEF O, n
  <2>2. ASSUME NEW s \in Slots, NEW k \in DOMAIN At(s)'
        PROVE  /\ k + n[s] \in DOMAIN At(s) /\ At(s)'[k] = At(s)[k + n[s]] /\ k \in Nat
               /\ At(s)[k + n[s]] # h /\ At(s)[k + n[s]] \in Events
               /\ status[At(s)[k + n[s]]] = "created"
    <3>1. CASE s = x
      <4>1. k + 1 \in DOMAIN At(x) /\ 1 # k + 1 /\ k \in Nat /\ At(x)'[k] = At(x)[k + 1]
        BY <1>2, <3>1
      <4>2. At(x)[k + 1] # At(x)[1]
        BY <1>0, <1>2, <4>1 DEF HeldInv
      <4>3. n[s] = 1
        BY <2>1, <3>1
      <4>4. At(x)[k + 1] \in Events /\ status[At(x)[k + 1]] = "created"
        BY <4>1, HeldEvent
      <4>5. QED
        BY <1>2, <3>1, <4>1, <4>2, <4>3, <4>4
    <3>2. CASE s # x
      <4>1. k \in DOMAIN At(s) /\ At(s)' = At(s) /\ n[s] = 0
        BY <2>1, <3>2
      <4>2. At(s) \in Seq(Events) /\ At(s)[k] \in Events /\ status[At(s)[k]] = "created"
        BY <4>1, HeldEvent
      <4>3. k \in Nat
        BY <4>1, <4>2, Elements
      <4>4. At(s)[k] # h
        BY <1>0, <1>2, <3>2, <4>1 DEF HeldInv
      <4>5. QED
        BY <4>1, <4>2, <4>3, <4>4
    <3>3. QED
      BY <3>1, <3>2
  <2>3. \A s \in Slots : \A k \in DOMAIN At(s)' :
           /\ k + n[s] \in DOMAIN At(O[s]) /\ At(s)'[k] = At(O[s])[k + n[s]]
           /\ status'[At(s)'[k]] = "created"
    BY <1>4, <2>1, <2>2
  <2>4. \A s, t \in Slots : \A k \in DOMAIN At(s)' : \A l \in DOMAIN At(t)' :
           O[s] = O[t] /\ k + n[s] = l + n[t] => s = t /\ k = l
    BY <2>1, <2>2
  <2>5. Current' = Current
    BY DEF Current
  <2>6. QED
    BY <1>0, <2>1, <2>3, <2>4, <2>5, HeldMoved
<1>7. QED
  BY <1>3, <1>4, <1>5, <1>6 DEF h

\* Close discards the next event.
LEMMA CloseDiscardInd ==
  ASSUME IndInv, UNCHANGED panicked, NEW q \in Queues, CloseDiscard(q)
  PROVE  IndInv'
<1>0. TypeInv /\ QueueInv /\ BatchInv /\ DoneInv /\ CountInv
  BY DEF IndInv
<1> DEFINE x == <<"closing", q>>
           h == Head(detached[q])
<1>1. /\ detached[q] # <<>> /\ detached' = [detached EXCEPT ![q] = Tail(@)]
      /\ status' = [status EXCEPT ![h] = "discarded"] /\ Acknowledge(h)
      /\ UNCHANGED <<pipelines, pipelineOf, updates, events, timer, closed, toClose,
                     next, left, snapshot, worker, phase, instance, batch>>
  BY DEF CloseDiscard, discardEvent, stateVars, queueVars, workerVars, batchVars
<1>2. /\ detached \in [Queues -> Seq(Events)]
      /\ detached'[q] = Tail(detached[q])
      /\ \A y \in Queues : y # q => detached'[y] = detached[y]
  BY <1>0, <1>1 DEF TypeInv
<1>3. detached' \in [Queues -> Seq(Events)]
  <2>1. Tail(detached[q]) \in Seq(Events)
    BY <1>1, <1>2, Behind
  <2>2. QED
    BY <1>1, <1>2, <2>1
<1>4. /\ x \in Slots /\ At(x) = detached[q] /\ At(x)' = Tail(detached[q])
      /\ \A s \in Slots : s # x => At(s)' = At(s)
  BY <1>1, <1>2 DEF At, Slots
<1>5. /\ HeldInv' /\ WorkerInv' /\ \A e \in Events : Past(e) => Past(e)'
      /\ h \in Events /\ status[h] = "created" /\ h \notin done
      /\ status' \in [Events -> Statuses] /\ status'[h] = "discarded"
      /\ \A e \in Events : e # h => status'[e] = status[e]
  BY <1>1, <1>4, HeadLeaves
<1> HIDE DEF h, x
<1>6. /\ done' = done \cup {h} /\ done' \subseteq Events /\ ackDone' \subseteq Messages
      /\ remaining' \in [Messages -> Int] /\ CountInv'
  BY <1>0, <1>1, <1>5, Acknowledged
<1>7. TypeInv'
  BY <1>0, <1>1, <1>3, <1>5, <1>6 DEF TypeInv
<1>8. QueueInv'
  <2>1. q \in closed
    BY <1>0, <1>1 DEF QueueInv
  <2>2. QED
    BY <1>0, <1>1, <1>2, <2>1 DEF QueueInv
<1>9. BatchInv'
  BY <1>0, <1>1 DEF BatchInv
<1>10. DoneInv'
  BY <1>0, <1>5, <1>6 DEF DoneInv, TypeInv
<1>11. QED
  BY <1>5, <1>6, <1>7, <1>8, <1>9, <1>10 DEF IndInv

\* An event of the batch is sent or discarded.
LEMMA FinishEventInd ==
  ASSUME IndInv, UNCHANGED panicked, NEW g \in Transforms, FinishEvent(g)
  PROVE  IndInv'
<1>0. TypeInv /\ QueueInv /\ BatchInv /\ DoneInv /\ CountInv
  BY DEF IndInv
<1> DEFINE x == <<"batch", g>>
           h == Head(batch[g])
<1>1. /\ phase[g] \in {"deliver", "discard"}
      /\ \/ status' = [status EXCEPT ![h] = "sent"] /\ UNCHANGED <<done, remaining, ackDone>>
         \/ status' = [status EXCEPT ![h] = "discarded"] /\ Acknowledge(h)
      /\ batch' = [batch EXCEPT ![g] = Tail(@)]
      /\ IF Len(batch[g]) = 1
         THEN /\ phase' = [phase EXCEPT ![g] = "none"]
              /\ instance' = [instance EXCEPT ![g] = None]
         ELSE UNCHANGED <<phase, instance>>
      /\ UNCHANGED <<pipelines, pipelineOf, updates, events, timer, closed, toClose, detached,
                     next, left, snapshot, worker>>
  BY DEF FinishEvent, SendEvent, discardEvent, stateVars, queueVars, closeVars, workerVars, ackVars
<1>2. /\ batch \in [Transforms -> Seq(Events)] /\ phase \in [Transforms -> Phases]
      /\ instance \in [Transforms -> Instances \cup {None}]
      /\ batch[g] # <<>>
      /\ batch'[g] = Tail(batch[g])
      /\ \A y \in Transforms : y # g => batch'[y] = batch[y]
  BY <1>0, <1>1 DEF TypeInv, BatchInv
<1>3. /\ Tail(batch[g]) \in Seq(Events) /\ Len(Tail(batch[g])) = Len(batch[g]) - 1
      /\ Len(batch[g]) \in Nat \ {0}
  BY <1>2, Behind
<1>4. /\ x \in Slots /\ At(x) = batch[g] /\ At(x)' = Tail(batch[g])
      /\ \A s \in Slots : s # x => At(s)' = At(s)
  BY <1>1, <1>2 DEF At, Slots
<1>5. ASSUME NEW v \in {"sent", "discarded"}, status' = [status EXCEPT ![h] = v]
      PROVE  /\ HeldInv' /\ WorkerInv' /\ \A e \in Events : Past(e) => Past(e)'
             /\ h \in Events /\ status[h] = "created" /\ h \notin done
             /\ status' \in [Events -> Statuses] /\ status'[h] = v
             /\ \A e \in Events : e # h => status'[e] = status[e]
  BY <1>1, <1>2, <1>4, <1>5, HeadLeaves
<1> HIDE DEF h, x
<1>6. batch' \in [Transforms -> Seq(Events)] /\ phase' \in [Transforms -> Phases]
      /\ instance' \in [Transforms -> Instances \cup {None}]
  BY <1>1, <1>2, <1>3 DEF Phases
<1>7. QueueInv'
  BY <1>0, <1>1, QueueKept
<1>8. BatchInv'
  <2>1. Tail(batch[g]) = <<>> <=> Len(batch[g]) = 1
    <3>1. ASSUME NEW y \in Seq(Events) PROVE y = <<>> <=> Len(y) = 0
      BY Elements
    <3>2. Tail(batch[g]) = <<>> <=> Len(Tail(batch[g])) = 0
      BY <1>3, <3>1
    <3>3. QED
      BY <1>3, <3>2
  <2>2. CASE Len(batch[g]) = 1
    BY <1>0, <1>1, <1>2, <2>1, <2>2 DEF BatchInv
  <2>3. CASE Len(batch[g]) # 1
    BY <1>0, <1>1, <1>2, <2>1, <2>3 DEF BatchInv
  <2>4. QED
    BY <2>2, <2>3
<1>9. CASE status' = [status EXCEPT ![h] = "sent"] /\ UNCHANGED <<done, remaining, ackDone>>
  <2>1. TypeInv'
    BY <1>0, <1>1, <1>5, <1>6, <1>9 DEF TypeInv
  <2>2. DoneInv'
    BY <1>0, <1>5, <1>9 DEF DoneInv, TypeInv
  <2>3. QED
    BY <1>0, <1>5, <1>7, <1>8, <1>9, <2>1, <2>2, CountKept DEF IndInv
<1>10. CASE status' = [status EXCEPT ![h] = "discarded"] /\ Acknowledge(h)
  <2>1. h \in Events /\ status'[h] = "discarded"
    BY <1>5, <1>10
  <2>2. /\ done' = done \cup {h} /\ done' \subseteq Events /\ ackDone' \subseteq Messages
        /\ remaining' \in [Messages -> Int] /\ CountInv'
    BY <1>0, <1>10, <2>1, Acknowledged
  <2>3. TypeInv'
    BY <1>0, <1>1, <1>5, <1>6, <1>10, <2>2 DEF TypeInv
  <2>4. DoneInv'
    BY <1>0, <1>5, <1>10, <2>1, <2>2 DEF DoneInv, TypeInv
  <2>5. QED
    BY <1>5, <1>7, <1>8, <1>10, <2>2, <2>3, <2>4 DEF IndInv
<1>11. QED
  BY <1>1, <1>9, <1>10

\* The sender acknowledges an event that it was sent.
LEMMA SenderInd ==
  ASSUME IndInv, UNCHANGED panicked, NEW e \in Events, SenderAcknowledges(e)
  PROVE  IndInv'
<1>0. TypeInv /\ QueueInv /\ BatchInv /\ WorkerInv /\ HeldInv /\ DoneInv /\ CountInv
  BY DEF IndInv
<1>1. /\ status[e] = "sent" /\ status' = [status EXCEPT ![e] = "finalized"] /\ Acknowledge(e)
      /\ UNCHANGED <<pipelines, pipelineOf, updates, events, timer, closed, toClose, detached,
                     next, left, snapshot, worker, phase, instance, batch>>
  BY DEF SenderAcknowledges, stateVars, queueVars, closeVars, workerVars, batchVars
<1>2. /\ status \in [Events -> Statuses] /\ status' \in [Events -> Statuses]
      /\ status'[e] = "finalized" /\ \A x \in Events : x # e => status'[x] = status[x]
  BY <1>0, <1>1 DEF TypeInv, Statuses
<1>3. e \notin done
  BY <1>0, <1>1 DEF DoneInv
<1>4. /\ done' = done \cup {e} /\ done' \subseteq Events /\ ackDone' \subseteq Messages
      /\ remaining' \in [Messages -> Int] /\ CountInv'
  BY <1>0, <1>1, Acknowledged
<1>5. WorkerInv' /\ \A x \in Events : Past(x) => Past(x)'
  <2>1. worker = "send" => e # Current
    BY <1>0, <1>1, CurrentEvent
  <2>2. QED
    BY <1>0, <1>1, <1>2, <2>1, WorkerKept
<1>6. HeldInv'
  <2>1. ASSUME NEW s \in Slots, NEW k \in DOMAIN At(s)
        PROVE  status'[At(s)[k]] = status[At(s)[k]] /\ (worker' = "send" => At(s)[k] # Current')
    <3>1. /\ At(s)[k] \in Events /\ status[At(s)[k]] = "created"
          /\ worker = "send" => At(s)[k] # Current
      BY HeldEvent
    <3>2. QED
      BY <1>1, <1>2, <3>1 DEF Current
  <2>2. QED
    BY <1>0, <1>1, <2>1, HeldKept
<1>7. TypeInv' /\ QueueInv' /\ BatchInv'
  BY <1>0, <1>1, <1>2, <1>4, QueueKept DEF TypeInv, BatchInv
<1>8. DoneInv'
  BY <1>0, <1>2, <1>3, <1>4, <1>5 DEF DoneInv, TypeInv
<1>9. QED
  BY <1>4, <1>5, <1>6, <1>7, <1>8 DEF IndInv

-----------------------------------------------------------------------------
(* The worker.                                                             *)

\* The destinations of the next message.
LEMMA ReceiveInd ==
  ASSUME IndInv, UNCHANGED panicked, Receive
  PROVE  IndInv'
<1>0. TypeInv /\ QueueInv /\ BatchInv /\ WorkerInv /\ HeldInv /\ DoneInv /\ CountInv
  BY DEF IndInv
<1>1. /\ worker = "select" /\ next \in Messages /\ worker' = "queue"
      /\ left' = DestinationsOf[next] /\ snapshot' = pipelines
      /\ UNCHANGED <<pipelines, pipelineOf, updates, events, timer, closed, toClose, detached,
                     next, phase, instance, batch, status, done, remaining, ackDone>>
  BY DEF Receive, stateVars, queueVars, closeVars, batchVars, ackVars
<1>2. /\ left' \in Seq(Pipelines) /\ left' # <<>>
      /\ \A j, k \in DOMAIN left' : left'[j] = left'[k] => j = k
      /\ \A k \in DOMAIN left' : left'[k] \in ToSet(DestinationsOf[next])
  BY <1>1, DestinationsType
<1>3. TypeInv' /\ QueueInv' /\ BatchInv'
  BY <1>0, <1>1, <1>2, QueueKept DEF TypeInv, BatchInv
<1>4. WorkerInv'
  <2>1. ASSUME NEW k \in DOMAIN left' PROVE status[<<next, left'[k]>>] = "none"
    <3>1. left'[k] \in Pipelines
      BY <1>1, DestinationsType, Elements
    <3>2. <<next, left'[k]>> \in Events
      BY <1>1, <1>2, <3>1, EventType
    <3>3. QED
      BY <1>0, <1>1, <3>2 DEF WorkerInv
  <2>2. QED
    BY <1>0, <1>1, <1>2, <2>1 DEF WorkerInv
<1>5. HeldInv'
  <2>1. worker' # "send"
    BY <1>1
  <2>2. QED
    BY <1>0, <1>1, <2>1, HeldKept
<1>6. DoneInv'
  BY <1>0, <1>1 DEF DoneInv, Past
<1>7. QED
  BY <1>0, <1>1, <1>3, <1>4, <1>5, <1>6, CountKept DEF IndInv

\* A refused event is done without having been created.
LEMMA RefuseInd ==
  ASSUME IndInv, UNCHANGED panicked, Refuse
  PROVE  IndInv'
<1>0. TypeInv /\ QueueInv /\ BatchInv /\ WorkerInv /\ HeldInv /\ DoneInv /\ CountInv
  BY DEF IndInv
<1>1. /\ worker = "queue" /\ Acknowledge(Current) /\ Advance
      /\ UNCHANGED <<pipelines, pipelineOf, updates, events, timer, closed, toClose, detached,
                     phase, instance, batch, status>>
  BY DEF Refuse, stateVars, queueVars, closeVars, batchVars
<1> DEFINE c == Current
<1>2. c \in Events /\ status[c] = "none"
  BY <1>0, <1>1, CurrentEvent
<1>3. /\ done' = done \cup {c} /\ done' \subseteq Events /\ ackDone' \subseteq Messages
      /\ remaining' \in [Messages -> Int] /\ CountInv'
  BY <1>0, <1>1, <1>2, Acknowledged
<1>4. /\ WorkerInv'
      /\ snapshot' \in [Pipelines -> Instances \cup {None}]
      /\ worker' \in {"select", "queue"}
      /\ next' \in Nat /\ left' \in Seq(Pipelines)
      /\ \A e \in Events : Past(e) \/ e = c => Past(e)'
  BY <1>0, <1>1, Advanced
<1> HIDE DEF c
<1>5. TypeInv' /\ QueueInv' /\ BatchInv'
  BY <1>0, <1>1, <1>3, <1>4, QueueKept DEF TypeInv, BatchInv
<1>6. HeldInv'
  BY <1>0, <1>1, <1>4, HeldKept
<1>7. DoneInv'
  BY <1>0, <1>1, <1>2, <1>3, <1>4 DEF DoneInv, TypeInv
<1>8. QED
  BY <1>3, <1>4, <1>5, <1>6, <1>7 DEF IndInv

\* The event is created for the sender.
LEMMA CreateDirectInd ==
  ASSUME IndInv, UNCHANGED panicked, CreateDirect
  PROVE  IndInv'
<1>0. TypeInv /\ QueueInv /\ BatchInv /\ WorkerInv /\ HeldInv /\ DoneInv /\ CountInv
  BY DEF IndInv
<1> DEFINE c == Current
<1>1. /\ worker = "queue" /\ status' = [status EXCEPT ![c] = "created"] /\ worker' = "send"
      /\ UNCHANGED <<pipelines, pipelineOf, updates, events, timer, closed, toClose, detached,
                     next, left, snapshot, phase, instance, batch, done, remaining, ackDone>>
  BY DEF CreateDirect, Open, CreateEvent, stateVars, queueVars, closeVars, batchVars, ackVars
<1>2. c \in Events /\ status[c] = "none" /\ c = <<next, left[1]>>
  BY <1>0, <1>1, CurrentEvent DEF Current
<1>3. /\ status' \in [Events -> Statuses] /\ status'[c] = "created" /\ status \in [Events -> Statuses]
      /\ \A e \in Events : e # c => status'[e] = status[e]
  BY <1>0, <1>1, <1>2 DEF TypeInv, Statuses
<1>4. Current' = c
  BY <1>1 DEF Current
<1> HIDE DEF c
<1>5. TypeInv' /\ QueueInv' /\ BatchInv'
  BY <1>0, <1>1, <1>3, QueueKept DEF TypeInv, BatchInv
<1>6. WorkerInv'
  <2>1. /\ left # <<>> /\ next \in Messages /\ left \in Seq(Pipelines)
        /\ \A j, k \in DOMAIN left : left[j] = left[k] => j = k
        /\ 1 \in DOMAIN left /\ next \in Nat
        /\ \A k \in DOMAIN left : left[k] \in ToSet(DestinationsOf[next])
    BY <1>0, <1>1, CurrentEvent DEF WorkerInv, TypeInv
  <2>2. ASSUME NEW k \in DOMAIN left, k # 1 PROVE status'[<<next, left[k]>>] = "none"
    <3>1. <<next, left[k]>> \in Events
      BY <2>1, Elements, EventType
    <3>2. <<next, left[k]>> # c
      BY <1>2, <2>1, <2>2
    <3>3. QED
      BY <1>0, <1>1, <1>3, <3>1, <3>2 DEF WorkerInv
  <2>3. \A e \in Events : e[1] > next => status'[e] = "none"
    BY <1>0, <1>2, <1>3, <2>1 DEF WorkerInv
  <2>4. QED
    BY <1>0, <1>1, <1>2, <1>3, <2>1, <2>2, <2>3 DEF WorkerInv
<1>7. HeldInv'
  <2>1. ASSUME NEW s \in Slots, NEW k \in DOMAIN At(s)
        PROVE  status'[At(s)[k]] = status[At(s)[k]] /\ At(s)[k] # c
    <3>1. At(s)[k] \in Events /\ status[At(s)[k]] = "created"
      BY HeldEvent
    <3>2. QED
      BY <1>2, <1>3, <3>1
  <2>2. QED
    BY <1>0, <1>1, <1>4, <2>1, HeldKept
<1>8. DoneInv'
  <2>1. c \notin done
    BY <1>0, <1>1, CurrentNotDone DEF c
  <2>2. \A e \in Events : Past(e) => Past(e)'
    BY <1>1 DEF Past
  <2>3. QED
    BY <1>0, <1>1, <1>3, <2>1, <2>2 DEF DoneInv, TypeInv
<1>9. QED
  BY <1>0, <1>1, <1>5, <1>6, <1>7, <1>8, CountKept DEF IndInv

\* The event is sent; it was held by the worker only.
LEMMA SendDirectInd ==
  ASSUME IndInv, UNCHANGED panicked, SendDirect
  PROVE  IndInv'
<1>0. TypeInv /\ QueueInv /\ BatchInv /\ WorkerInv /\ HeldInv /\ DoneInv /\ CountInv
  BY DEF IndInv
<1> DEFINE c == Current
<1>1. /\ worker = "send" /\ status' = [status EXCEPT ![c] = "sent"] /\ Advance
      /\ UNCHANGED <<pipelines, pipelineOf, updates, events, timer, closed, toClose, detached,
                     phase, instance, batch, done, remaining, ackDone>>
  BY DEF SendDirect, SendEvent, stateVars, queueVars, closeVars, batchVars, ackVars
<1>2. c \in Events /\ status[c] = "created" /\ c \notin done
  BY <1>0, <1>1, CurrentEvent, CurrentNotDone
<1>3. /\ status' \in [Events -> Statuses] /\ status'[c] = "sent" /\ status \in [Events -> Statuses]
      /\ \A e \in Events : e # c => status'[e] = status[e]
  BY <1>0, <1>1, <1>2 DEF TypeInv, Statuses
<1>4. /\ WorkerInv'
      /\ snapshot' \in [Pipelines -> Instances \cup {None}]
      /\ worker' \in {"select", "queue"}
      /\ next' \in Nat /\ left' \in Seq(Pipelines)
      /\ \A e \in Events : Past(e) \/ e = c => Past(e)'
  BY <1>0, <1>1, <1>3, Advanced
<1> HIDE DEF c
<1>5. TypeInv' /\ QueueInv' /\ BatchInv'
  BY <1>0, <1>1, <1>3, <1>4, QueueKept DEF TypeInv, BatchInv
<1>6. HeldInv'
  <2>1. ASSUME NEW s \in Slots, NEW k \in DOMAIN At(s)
        PROVE  status'[At(s)[k]] = status[At(s)[k]]
    <3>1. At(s)[k] \in Events /\ At(s)[k] # c
      BY <1>1, HeldEvent DEF c
    <3>2. QED
      BY <1>3, <3>1
  <2>2. worker' # "send"
    BY <1>4
  <2>3. QED
    BY <1>0, <1>1, <2>1, <2>2, HeldKept
<1>7. DoneInv'
  BY <1>0, <1>1, <1>2, <1>3, <1>4 DEF DoneInv, TypeInv
<1>8. QED
  BY <1>0, <1>1, <1>4, <1>5, <1>6, <1>7, CountKept DEF IndInv

\* The worker falls asleep.
LEMMA WaitInd ==
  ASSUME IndInv, UNCHANGED panicked, Wait
  PROVE  IndInv'
<1>0. TypeInv /\ QueueInv /\ BatchInv /\ WorkerInv /\ HeldInv /\ DoneInv /\ CountInv
  BY DEF IndInv
<1>1. /\ worker = "queue" /\ worker' = "wait"
      /\ UNCHANGED <<pipelines, pipelineOf, updates, events, timer, closed, toClose, detached,
                     next, left, snapshot, phase, instance, batch, status, done, remaining, ackDone>>
  BY DEF Wait, Open, stateVars, queueVars, closeVars, batchVars, ackVars
<1>2. TypeInv' /\ QueueInv' /\ BatchInv'
  BY <1>0, <1>1, QueueKept DEF TypeInv, BatchInv
<1>3. WorkerInv' /\ \A e \in Events : Past(e) => Past(e)'
  BY <1>0, <1>1, WorkerKept
<1>4. HeldInv'
  <2>1. worker' # "send"
    BY <1>1
  <2>2. QED
    BY <1>0, <1>1, <2>1, HeldKept
<1>5. DoneInv'
  BY <1>0, <1>1, <1>3 DEF DoneInv, TypeInv
<1>6. QED
  BY <1>0, <1>1, <1>2, <1>3, <1>4, <1>5, CountKept DEF IndInv

\* The event is queued: it is new, and held nowhere else.
LEMMA QueueEventInd ==
  ASSUME IndInv, UNCHANGED panicked, QueueEvent
  PROVE  IndInv'
<1>0. TypeInv /\ QueueInv /\ BatchInv /\ WorkerInv /\ HeldInv /\ DoneInv /\ CountInv
  BY DEF IndInv
<1> DEFINE c == Current
<1>1. PICK q \in Queues :
        /\ worker = "queue" /\ q \notin closed
        /\ status' = [status EXCEPT ![c] = "created"]
        /\ events' = [events EXCEPT ![q] = Append(@, c)]
        /\ timer' \in {timer, timer \ {q}, timer \cup {q}}
        /\ Advance
        /\ UNCHANGED <<pipelines, pipelineOf, updates, closed, toClose, detached,
                       phase, instance, batch, done, remaining, ackDone>>
  <2>1. PICK dp \in Instances :
          /\ Open(dp) /\ CreateEvent(Current)
          /\ events' = [events EXCEPT ![dp.queue] = Append(@, Current)]
          /\ timer' \in {timer, timer \ {dp.queue}, timer \cup {dp.queue}}
          /\ Advance
          /\ UNCHANGED <<stateVars, closeVars, batchVars, ackVars>>
    BY DEF QueueEvent, ResetTimer
  <2>2. dp.queue \in Queues
    BY DEF Instances
  <2>3. QED
    BY <2>1, <2>2 DEF Open, CreateEvent, stateVars, closeVars, batchVars, ackVars
<1>2. c \in Events /\ status[c] = "none" /\ c \notin done
  BY <1>0, <1>1, CurrentEvent, CurrentNotDone
<1>3. /\ status' \in [Events -> Statuses] /\ status'[c] = "created" /\ status \in [Events -> Statuses]
      /\ \A e \in Events : e # c => status'[e] = status[e]
  BY <1>0, <1>1, <1>2 DEF TypeInv, Statuses
<1>4. /\ WorkerInv'
      /\ snapshot' \in [Pipelines -> Instances \cup {None}]
      /\ worker' \in {"select", "queue"}
      /\ next' \in Nat /\ left' \in Seq(Pipelines)
      /\ \A e \in Events : Past(e) \/ e = c => Past(e)'
  BY <1>0, <1>1, <1>3, Advanced
<1> HIDE DEF c
<1>5. /\ events \in [Queues -> Seq(Events)] /\ events'[q] = Append(events[q], c)
      /\ events[q] \in Seq(Events)
      /\ \A x \in Queues : x # q => events'[x] = events[x]
  BY <1>0, <1>1 DEF TypeInv
<1>6. /\ Append(events[q], c) \in Seq(Events)
      /\ DOMAIN Append(events[q], c) = DOMAIN events[q] \cup {Len(events[q]) + 1}
      /\ \A k \in DOMAIN events[q] :
           k # Len(events[q]) + 1 /\ Append(events[q], c)[k] = events[q][k]
      /\ Append(events[q], c)[Len(events[q]) + 1] = c
  BY <1>2, <1>5, Appended
<1>7. events' \in [Queues -> Seq(Events)]
  BY <1>1, <1>5, <1>6
<1>8. TypeInv' /\ BatchInv'
  BY <1>0, <1>1, <1>3, <1>4, <1>7 DEF TypeInv, BatchInv
<1>9. QueueInv'
  BY <1>0, <1>1, <1>5 DEF QueueInv
<1>10. HeldInv'
  <2> DEFINE x == <<"queue", q>>
             N == Len(events[q]) + 1
  <2>1. x \in Slots /\ At(x) = events[q] /\ At(x)' = Append(events[q], c)
    BY <1>5 DEF Slots, At
  <2>2. ASSUME NEW s \in Slots, s # x PROVE At(s)' = At(s)
    BY <1>1, <1>5, <2>2 DEF At, Slots
  <2>3. DOMAIN At(x)' = DOMAIN At(x) \cup {N} /\ At(x)'[N] = c
    BY <1>6, <2>1
  <2>4. \A k \in DOMAIN At(x) : k # N /\ At(x)'[k] = At(x)[k]
    BY <1>6, <2>1
  <2> HIDE DEF x, N
  <2>5. ASSUME NEW s \in Slots, NEW k \in DOMAIN At(s)'
        PROVE  \/ k \in DOMAIN At(s) /\ At(s)'[k] = At(s)[k]
               \/ s = x /\ k = N /\ At(s)'[k] = c
    BY <2>1, <2>2, <2>3, <2>4
  <2>6. ASSUME NEW s \in Slots, NEW k \in DOMAIN At(s)
        PROVE  At(s)[k] # c /\ status'[At(s)[k]] = "created"
    <3>1. At(s)[k] \in Events /\ status[At(s)[k]] = "created"
      BY HeldEvent
    <3>2. QED
      BY <1>2, <1>3, <3>1
  <2>7. ASSUME NEW s \in Slots, NEW k \in DOMAIN At(s)' PROVE status'[At(s)'[k]] = "created"
    BY <1>3, <2>5, <2>6
  <2>8. ASSUME NEW s \in Slots, NEW t \in Slots,
               NEW k \in DOMAIN At(s)', NEW l \in DOMAIN At(t)', At(s)'[k] = At(t)'[l]
        PROVE  s = t /\ k = l
    BY <1>0, <2>5, <2>6, <2>8 DEF HeldInv
  <2>9. worker' # "send"
    BY <1>4
  <2>10. QED
    BY <2>7, <2>8, <2>9 DEF HeldInv
<1>11. DoneInv'
  BY <1>0, <1>1, <1>2, <1>3, <1>4 DEF DoneInv, TypeInv
<1>12. QED
  BY <1>0, <1>1, <1>4, <1>8, <1>9, <1>10, <1>11, CountKept DEF IndInv

-----------------------------------------------------------------------------
(* The transformation.                                                     *)

\* A goroutine starts, without a batch.
LEMMA TimerFiresInd ==
  ASSUME IndInv, UNCHANGED panicked, NEW q \in DOMAIN pipelineOf, TimerFires(q)
  PROVE  IndInv'
<1>0. TypeInv /\ QueueInv /\ BatchInv
  BY DEF IndInv
<1>1. /\ timer' = timer \ {q}
      /\ UNCHANGED <<pipelines, pipelineOf, updates, events, closed, toClose, detached, batch,
                     workerVars, status, ackVars>>
  BY DEF TimerFires, stateVars, closeVars, batchVars
<1>2. /\ pipelines \in [Pipelines -> Instances \cup {None}] /\ pipelineOf[q] \in Pipelines
      /\ phase \in [Transforms -> Phases] /\ instance \in [Transforms -> Instances \cup {None}]
  BY <1>0, Elements DEF TypeInv
<1>3. \/ UNCHANGED <<phase, instance>>
      \/ \E g \in Idle : /\ phase' = [phase EXCEPT ![g] = "started"]
                         /\ instance' = [instance EXCEPT ![g] = pipelines[pipelineOf[q]]]
                         /\ pipelines[pipelineOf[q]] # None
  <2>1. CASE pipelines[pipelineOf[q]] = None
    BY <2>1 DEF TimerFires, batchVars
  <2>2. CASE pipelines[pipelineOf[q]] # None
    <3>1. Idle # {} => (CHOOSE g \in Idle : TRUE) \in Idle
      OBVIOUS
    <3>2. QED
      BY <2>2, <3>1 DEF TimerFires
  <2>3. QED
    BY <2>1, <2>2
<1>4. /\ phase' \in [Transforms -> Phases] /\ instance' \in [Transforms -> Instances \cup {None}]
      /\ BatchInv'
  <2>1. CASE UNCHANGED <<phase, instance>>
    BY <1>0, <1>1, <1>2, <2>1 DEF BatchInv
  <2>2. ASSUME NEW g \in Idle, phase' = [phase EXCEPT ![g] = "started"],
               instance' = [instance EXCEPT ![g] = pipelines[pipelineOf[q]]],
               pipelines[pipelineOf[q]] # None
        PROVE  /\ phase' \in [Transforms -> Phases]
               /\ instance' \in [Transforms -> Instances \cup {None}]
               /\ BatchInv'
    <3>1. g \in Transforms /\ phase[g] = "none"
      BY DEF Idle
    <3>2. /\ phase' \in [Transforms -> Phases]
          /\ instance' \in [Transforms -> Instances \cup {None}]
      BY <1>2, <2>2, <3>1 DEF Phases
    <3>3. BatchInv'
      BY <1>0, <1>1, <1>2, <2>2, <3>1 DEF BatchInv
    <3>4. QED
      BY <3>2, <3>3
  <2>3. QED
    BY <1>3, <2>1, <2>2
<1>5. TypeInv'
  BY <1>0, <1>1, <1>4 DEF TypeInv, workerVars, ackVars
<1>6. QueueInv'
  BY <1>0, <1>1, QueueKept
<1>7. QED
  BY <1>1, <1>4, <1>5, <1>6, Aside

\* A transformation returns.
LEMMA TransformReturnsInd ==
  ASSUME IndInv, UNCHANGED panicked, NEW g \in Transforms, TransformReturns(g)
  PROVE  IndInv'
<1>0. TypeInv /\ QueueInv /\ BatchInv
  BY DEF IndInv
<1>1. PICK ph \in {"deliver", "discard"} :
        /\ phase[g] = "transform" /\ phase' = [phase EXCEPT ![g] = ph]
        /\ UNCHANGED <<pipelines, pipelineOf, updates, events, timer, closed, toClose, detached,
                       instance, batch, workerVars, status, ackVars>>
  BY DEF TransformReturns, stateVars, queueVars, closeVars
<1>2. phase \in [Transforms -> Phases] /\ phase' \in [Transforms -> Phases]
  BY <1>0, <1>1 DEF TypeInv, Phases
<1>3. TypeInv'
  BY <1>0, <1>1, <1>2 DEF TypeInv, workerVars, ackVars
<1>4. BatchInv'
  BY <1>0, <1>1, <1>2 DEF BatchInv
<1>5. QueueInv'
  BY <1>0, <1>1, QueueKept
<1>6. QED
  BY <1>1, <1>3, <1>4, <1>5, Aside

\* A batch and the rest of its queue.
LEMMA Split ==
  ASSUME NEW S, NEW evs \in Seq(S), evs # <<>>, NEW n, n = BatchLen(evs)
  PROVE  /\ n \in Nat \ {0}
         /\ SubSeq(evs, 1, n) \in Seq(S) /\ SubSeq(evs, 1, n) # <<>>
         /\ Rest(evs) \in Seq(S)
         /\ \A k \in DOMAIN SubSeq(evs, 1, n) :
              k \in DOMAIN evs /\ k \in Nat /\ k <= n /\ SubSeq(evs, 1, n)[k] = evs[k]
         /\ \A k \in DOMAIN Rest(evs) :
              k + n \in DOMAIN evs /\ k \in Nat /\ 0 < k /\ Rest(evs)[k] = evs[k + n]
<1>1. Len(evs) \in Nat \ {0} /\ DOMAIN evs = 1 .. Len(evs) /\ \A k \in DOMAIN evs : evs[k] \in S
  BY Elements
<1>2. n \in Nat \ {0} /\ n <= Len(evs)
  BY <1>1, DestinationsAssumption DEF BatchLen
<1>3. SubSeq(evs, 1, n) = [k \in 1 .. n |-> evs[k]]
  BY <1>1, <1>2
<1>4. Rest(evs) = [k \in 1 .. Len(evs) - n |-> evs[k + n]]
  BY <1>1, <1>2 DEF Rest
<1>5. SubSeq(evs, 1, n) \in Seq(S) /\ Rest(evs) \in Seq(S)
  <2>1. SubSeq(evs, 1, n) \in Seq(S)
    BY <1>1, <1>2, SubSeqProperties
  <2>2. Rest(evs) \in Seq(S)
    BY <1>1, <1>2, SubSeqProperties DEF Rest
  <2>3. QED
    BY <2>1, <2>2
<1>6. SubSeq(evs, 1, n) # <<>>
  <2>1. 1 \in DOMAIN SubSeq(evs, 1, n)
    BY <1>2, <1>3
  <2>2. QED
    BY <1>5, <2>1, Elements
<1>7. QED
  BY <1>1, <1>2, <1>3, <1>4, <1>5, <1>6

\* The first events of the queue become the batch, the others stay.
LEMMA TakeBatchInd ==
  ASSUME IndInv, UNCHANGED panicked, NEW g \in Transforms, TakeBatch(g)
  PROVE  IndInv'
<1>0. TypeInv /\ QueueInv /\ BatchInv /\ WorkerInv /\ HeldInv /\ DoneInv /\ CountInv
  BY DEF IndInv
<1>1. /\ phase[g] = "started"
      /\ UNCHANGED <<pipelines, pipelineOf, updates, closed, toClose, detached,
                     next, left, snapshot, status, done, remaining, ackDone>>
  BY DEF TakeBatch, stateVars, closeVars, ackVars
<1>2. /\ phase \in [Transforms -> Phases] /\ instance \in [Transforms -> Instances \cup {None}]
      /\ batch \in [Transforms -> Seq(Events)] /\ events \in [Queues -> Seq(Events)]
      /\ timer \subseteq Queues
  BY <1>0 DEF TypeInv
<1>3. PICK q \in Queues : q = instance[g].queue
  BY <1>0, <1>1, <1>2 DEF BatchInv, Instances
<1>a. batch[g] = <<>> /\ instance[g] # None
  BY <1>0, <1>1 DEF BatchInv
<1>4. CASE q \in closed \/ events[q] = <<>>
  <2>1. /\ phase' = [phase EXCEPT ![g] = "none"]
        /\ instance' = [instance EXCEPT ![g] = None]
        /\ UNCHANGED <<batch, events, timer, worker>>
    BY <1>3, <1>4 DEF TakeBatch, queueVars
  <2>2. TypeInv' /\ BatchInv'
    BY <1>0, <1>1, <1>2, <1>a, <2>1 DEF TypeInv, BatchInv, Phases
  <2>3. QueueInv'
    BY <1>0, <1>1, <2>1, QueueKept
  <2>4. UNCHANGED <<events, detached, batch, workerVars, status, ackVars>>
    BY <1>1, <2>1 DEF workerVars, ackVars
  <2>5. QED
    BY <2>2, <2>3, <2>4, Aside
<1>5. CASE ~(q \in closed \/ events[q] = <<>>)
  <2> DEFINE evs == events[q]
             N == BatchLen(evs)
  <2>1. /\ batch' = [batch EXCEPT ![g] = SubSeq(evs, 1, N)]
        /\ events' = [events EXCEPT ![q] = Rest(@)]
        /\ timer' \in {timer \ {q}, timer \cup {q}}
        /\ worker' = worker \/ worker' = Broadcast(q)
        /\ phase' = [phase EXCEPT ![g] = "transform"]
        /\ UNCHANGED instance
    BY <1>3, <1>5 DEF TakeBatch, ResetTimer
  <2>2. evs \in Seq(Events) /\ evs # <<>> /\ q \notin closed
    BY <1>2, <1>5
  <2>a. N = BatchLen(evs)
    OBVIOUS
  <2> HIDE DEF N, evs
  <2>3. /\ N \in Nat \ {0}
        /\ SubSeq(evs, 1, N) \in Seq(Events) /\ SubSeq(evs, 1, N) # <<>>
        /\ Rest(evs) \in Seq(Events)
        /\ \A k \in DOMAIN SubSeq(evs, 1, N) :
             k \in DOMAIN evs /\ k \in Nat /\ k <= N /\ SubSeq(evs, 1, N)[k] = evs[k]
        /\ \A k \in DOMAIN Rest(evs) :
             k + N \in DOMAIN evs /\ k \in Nat /\ 0 < k /\ Rest(evs)[k] = evs[k + N]
    BY <2>2, <2>a, Split
  <2>4. /\ batch'[g] = SubSeq(evs, 1, N) /\ events'[q] = Rest(evs)
        /\ \A y \in Transforms : y # g => batch'[y] = batch[y]
        /\ \A y \in Queues : y # q => events'[y] = events[y]
        /\ batch' \in [Transforms -> Seq(Events)] /\ events' \in [Queues -> Seq(Events)]
    BY <1>2, <2>1, <2>3 DEF evs
  <2>5. /\ worker' = worker \/ (worker = "wait" /\ worker' = "queue")
        /\ worker' \in {"select", "queue", "wait", "send"}
    BY <1>0, <2>1, Woken DEF TypeInv
  <2>6. TypeInv'
    BY <1>0, <1>1, <1>2, <2>1, <2>4, <2>5 DEF TypeInv, Phases
  <2>7. QueueInv'
    <3>1. ASSUME NEW y \in closed PROVE events'[y] = <<>>
      <4>1. y \in Queues /\ y # q /\ events[y] = <<>>
        BY <1>0, <2>2 DEF TypeInv, QueueInv
      <4>2. QED
        BY <2>4, <4>1
    <3>2. QED
      BY <1>0, <1>1, <3>1 DEF QueueInv
  <2>8. BatchInv'
    BY <1>0, <1>1, <1>2, <2>1, <2>3, <2>4 DEF BatchInv
  <2>9. WorkerInv' /\ \A e \in Events : Past(e) => Past(e)'
    BY <1>0, <1>1, <2>5, WorkerKept
  <2>10. HeldInv'
    <3> DEFINE a == <<"queue", q>>
               b == <<"batch", g>>
               O == [s \in Slots |-> IF s = b THEN a ELSE s]
               n == [s \in Slots |-> IF s = a THEN N ELSE 0]
    <3>1. a \in Slots /\ b \in Slots /\ a # b /\ At(a) = evs
      BY DEF Slots, At, evs
    <3>2. At(a)' = Rest(evs) /\ At(b)' = SubSeq(evs, 1, N)
      BY <2>4 DEF At
    <3>3. ASSUME NEW s \in Slots, s # a, s # b PROVE At(s)' = At(s)
      BY <1>1, <2>4, <3>3 DEF At, Slots
    <3>4. /\ O \in [Slots -> Slots] /\ n \in [Slots -> Nat]
          /\ \A s \in Slots : /\ O[s] = IF s = b THEN a ELSE s
                              /\ n[s] = IF s = a THEN N ELSE 0
      BY <2>3, <3>1
    <3> HIDE DEF O, n, a, b
    <3>5. ASSUME NEW s \in Slots, NEW k \in DOMAIN At(s)'
          PROVE  /\ k + n[s] \in DOMAIN At(O[s]) /\ At(s)'[k] = At(O[s])[k + n[s]]
                 /\ k \in Nat
                 /\ s = a => 0 < k
                 /\ s = b => k <= N
      <4>1. CASE s = a
        BY <2>3, <3>1, <3>2, <3>4, <4>1
      <4>2. CASE s = b
        <5>1. O[s] = a /\ n[s] = 0 /\ s # a
          BY <3>1, <3>4, <4>2
        <5>2. k \in DOMAIN evs /\ k \in Nat /\ k <= N /\ At(s)'[k] = evs[k]
          BY <2>3, <3>2, <4>2
        <5>3. k + 0 = k
          BY <5>2
        <5>4. QED
          BY <3>1, <5>1, <5>2, <5>3
      <4>3. CASE s # a /\ s # b
        <5>1. At(s)' = At(s) /\ O[s] = s /\ n[s] = 0 /\ k \in DOMAIN At(s)
          BY <3>3, <3>4, <4>3
        <5>2. At(s) \in Seq(Events)
          BY <5>1, HeldEvent
        <5>3. k \in Nat
          BY <5>1, <5>2, Elements
        <5>4. QED
          BY <4>3, <5>1, <5>3
      <4>4. QED
        BY <4>1, <4>2, <4>3
    <3>6. \A s \in Slots : \A k \in DOMAIN At(s)' :
             /\ k + n[s] \in DOMAIN At(O[s]) /\ At(s)'[k] = At(O[s])[k + n[s]]
             /\ status'[At(s)'[k]] = "created"
      BY <1>0, <1>1, <3>4, <3>5 DEF HeldInv
    <3>7. \A s, t \in Slots : \A k \in DOMAIN At(s)' : \A l \in DOMAIN At(t)' :
             O[s] = O[t] /\ k + n[s] = l + n[t] => s = t /\ k = l
      <4>1. ASSUME NEW s \in Slots, NEW t \in Slots,
                   NEW k \in DOMAIN At(s)', NEW l \in DOMAIN At(t)',
                   O[s] = O[t], k + n[s] = l + n[t]
            PROVE  s = t /\ k = l
        <5>1. /\ k \in Nat /\ l \in Nat /\ N \in Nat
              /\ s = a => 0 < k
              /\ s = b => k <= N
              /\ t = a => 0 < l
              /\ t = b => l <= N
          BY <2>3, <3>5
        <5>2. CASE s = t
          BY <3>4, <4>1, <5>1, <5>2
        <5>3. CASE s = a /\ t = b
          BY <3>1, <3>4, <4>1, <5>1, <5>3
        <5>4. CASE s = b /\ t = a
          BY <3>1, <3>4, <4>1, <5>1, <5>4
        <5>5. CASE s # t /\ ~(s = a /\ t = b) /\ ~(s = b /\ t = a)
          BY <3>4, <4>1, <5>5
        <5>6. QED
          BY <5>2, <5>3, <5>4, <5>5
      <4>2. QED
        BY <4>1
    <3>8. worker' = "send" => worker = "send" /\ Current' = Current
      BY <1>1, <2>5 DEF Current
    <3>9. QED
      BY <1>0, <3>4, <3>6, <3>7, <3>8, HeldMoved
  <2>11. DoneInv'
    BY <1>0, <1>1, <2>9 DEF DoneInv, TypeInv
  <2>12. QED
    BY <1>0, <1>1, <2>6, <2>7, <2>8, <2>9, <2>10, <2>11, CountKept DEF IndInv
<1>6. QED
  BY <1>4, <1>5

-----------------------------------------------------------------------------
(* Results.                                                                *)

\* No pipeline is enabled and no message taken.
LEMMA InitInd == Init => IndInv
<1> SUFFICES ASSUME Init PROVE IndInv
  OBVIOUS
<1>1. TypeInv
  <2>1. \A m \in Messages : Remaining(m) \in Int
    BY DestinationsType, Elements DEF Remaining
  <2>2. <<>> \in Seq(Pipelines) /\ <<>> \in Seq(Events) /\ Len(<<>>) = 0 /\ MaxQueues \in Nat
    BY EmptySeq, DestinationsAssumption
  <2>3. QED
    <3> USE <2>1, <2>2 DEF Init
    <3>1. /\ pipelines \in [Pipelines -> Instances \cup {None}]
          /\ snapshot \in [Pipelines -> Instances \cup {None}]
          /\ pipelineOf \in Seq(Pipelines) /\ Len(pipelineOf) <= MaxQueues
      BY DEF NoPipelines
    <3>2. /\ events \in [Queues -> Seq(Events)] /\ detached \in [Queues -> Seq(Events)]
          /\ closed \subseteq Queues /\ timer \subseteq Queues /\ toClose \subseteq Queues
      OBVIOUS
    <3>3. /\ phase \in [Transforms -> Phases] /\ status \in [Events -> Statuses]
          /\ instance \in [Transforms -> Instances \cup {None}]
          /\ batch \in [Transforms -> Seq(Events)]
      BY DEF Phases, Statuses
    <3>4. remaining \in [Messages -> Int]
      OBVIOUS
    <3>5. QED
      BY <3>1, <3>2, <3>3, <3>4 DEF TypeInv
<1>2. QueueInv /\ BatchInv
  BY DEF Init, QueueInv, BatchInv, NoPipelines
<1>3. WorkerInv /\ DoneInv
  BY DEF Init, WorkerInv, DoneInv
<1>4. HeldInv
  <2>1. \A s \in Slots : At(s) = <<>>
    BY DEF Init, Slots, At
  <2>2. \A s \in Slots : DOMAIN At(s) = {}
    BY <2>1
  <2>3. QED
    BY <2>2 DEF HeldInv, Init
<1>5. CountInv
  <2>1. \A m \in Messages : DoneOf(m) = {}
    BY DEF Init, DoneOf
  <2>2. \A m \in Messages : Len(DestinationsOf[m]) \in Nat
    BY DestinationsType, Elements
  <2>3. Cardinality({}) = 0
    BY FS_EmptySet
  <2>4. \A m \in Messages : remaining[m] = Len(DestinationsOf[m])
    BY DEF Init, Remaining
  <2>5. ASSUME NEW m \in Messages
        PROVE  remaining[m] + Cardinality(DoneOf(m)) = Len(DestinationsOf[m])
    <3>1. Cardinality(DoneOf(m)) = 0
      BY <2>1, <2>3
    <3>2. QED
      BY <2>2, <2>4, <3>1
  <2>6. ackDone = {}
    BY DEF Init
  <2>7. QED
    BY <2>5, <2>6 DEF CountInv
<1>6. QED
  BY <1>1, <1>2, <1>3, <1>4, <1>5 DEF IndInv

\* Every step keeps the inductive invariant.
LEMMA NextInd == ASSUME IndInv, [Next]_vars PROVE IndInv'
<1>1. CASE UNCHANGED vars
  <2>1. UNCHANGED <<pipelines, pipelineOf, updates, events, timer, closed, toClose, detached,
                    phase, instance, batch, panicked, status, workerVars, ackVars>>
    BY <1>1 DEF vars, stateVars, queueVars, closeVars, batchVars
  <2>2. TypeInv' /\ QueueInv' /\ BatchInv'
    BY <2>1, QueueKept DEF IndInv, TypeInv, BatchInv, workerVars, ackVars
  <2>3. QED
    BY <2>1, <2>2, Aside
<1>2. CASE Panic
  <2>1. /\ UNCHANGED <<pipelines, pipelineOf, updates, events, timer, closed, toClose, detached,
                       phase, instance, batch, status, workerVars, ackVars>>
        /\ panicked' = TRUE
    BY <1>2 DEF Panic, TransformPanics, stateVars, queueVars, closeVars, batchVars
  <2>2. TypeInv' /\ QueueInv' /\ BatchInv'
    BY <2>1, QueueKept DEF IndInv, TypeInv, BatchInv, workerVars, ackVars
  <2>3. QED
    BY <2>1, <2>2, Aside
<1>3. CASE Goroutine(Notification)
  BY <1>3, EnableInd, UpdateInd, RemoveInd, Zenon DEF Goroutine, Notification
<1>4. CASE Goroutine(WorkerStep)
  BY <1>4, ReceiveInd, RefuseInd, CreateDirectInd, SendDirectInd, WaitInd, QueueEventInd, Zenon
     DEF Goroutine, WorkerStep
<1>5. CASE Goroutine(CloseStep)
  BY <1>5, CloseInd, CloseDiscardInd, Zenon DEF Goroutine, CloseStep
<1>6. CASE Goroutine(TimerStep)
  BY <1>6, TimerFiresInd, Zenon DEF Goroutine, TimerStep
<1>7. CASE Goroutine(\E g \in Transforms : TransformStep(g))
  BY <1>7, TakeBatchInd, TransformReturnsInd, FinishEventInd, Zenon DEF Goroutine, TransformStep
<1>8. CASE Goroutine(SenderStep)
  BY <1>8, SenderInd, Zenon DEF Goroutine, SenderStep
<1>9. QED
  BY <1>1, <1>2, <1>3, <1>4, <1>5, <1>6, <1>7, <1>8, Zenon DEF Next

\* The inductive invariant holds in every reachable state.
THEOREM Invariance == Spec => []IndInv
BY InitInd, NextInd, PTL DEF Spec

\* TypeOK is an invariant: the count of a message's destinations never goes
\* below zero.
THEOREM TypeCorrect == Spec => []TypeOK
<1>1. IndInv => TypeOK
  <2>1. ASSUME IndInv, NEW m \in Messages PROVE remaining[m] \in Nat
    <3>1. done \subseteq Events /\ remaining[m] \in Int
      BY <2>1 DEF IndInv, TypeInv
    <3>2. /\ IsFiniteSet(EventsOf(m)) /\ Cardinality(EventsOf(m)) = Len(DestinationsOf[m])
          /\ DoneOf(m) \subseteq EventsOf(m)
      BY <3>1, EventsCounted DEF DoneOf, EventsOf
    <3>3. /\ Cardinality(DoneOf(m)) \in Nat /\ Cardinality(EventsOf(m)) \in Nat
          /\ Cardinality(DoneOf(m)) <= Cardinality(EventsOf(m))
      BY <3>2, FS_Subset, FS_CardinalityType
    <3>4. remaining[m] + Cardinality(DoneOf(m)) = Cardinality(EventsOf(m))
      BY <2>1, <3>2 DEF IndInv, CountInv
    <3>5. QED
      BY <3>1, <3>3, <3>4
  <2>2. QED
    BY <2>1 DEF IndInv, TypeInv, TypeOK
<1>2. QED
  BY <1>1, Invariance, PTL

\* AckedAfterProcessed is an invariant: a message is acknowledged to the stream
\* only when none of its destinations has anything left to do with it.
THEOREM AcknowledgedLast == Spec => []AckedAfterProcessed
<1>1. IndInv => AckedAfterProcessed
  <2>1. ASSUME IndInv, NEW m \in ackDone, NEW e \in Events, e[1] = m
        PROVE  /\ status[e] \in {"none", "finalized", "discarded"}
               /\ status[e] = "none" => m < next \/ e[2] \notin ToSet(left)
    <3>1. e \in done
      BY <2>1 DEF IndInv, CountInv
    <3>2. QED
      BY <2>1, <3>1 DEF IndInv, DoneInv, Past
  <2>2. QED
    BY <2>1 DEF AckedAfterProcessed
<1>2. QED
  BY <1>1, Invariance, PTL

\* ProcessedOnce holds: an event is created once, passed to the sender once, by
\* SendEvent or by DiscardEvent, and acknowledged by it once. It is held in one
\* place, where it is still to be sent (HeldInv), and the worker comes to an
\* event of which nothing is known (WorkerInv).
THEOREM SentOnce == Spec => ProcessedOnce
<1> DEFINE Goes(e) ==
      status'[e] # status[e] =>
        \/ status[e] = "none" /\ status'[e] = "created"
        \/ status[e] = "created" /\ status'[e] \in {"sent", "discarded"}
        \/ status[e] = "sent" /\ status'[e] = "finalized"
<1>1. ASSUME IndInv, [Next]_vars, NEW e \in Events PROVE Goes(e)
  <2>0. TypeInv /\ WorkerInv /\ BatchInv /\ status \in [Events -> Statuses]
    BY <1>1 DEF IndInv, TypeInv
  <2>1. ASSUME NEW h, NEW v, status' = [status EXCEPT ![h] = v],
               \/ status[h] = "none" /\ v = "created"
               \/ status[h] = "created" /\ v \in {"sent", "discarded"}
               \/ status[h] = "sent" /\ v = "finalized"
        PROVE  Goes(e)
    <3>1. CASE e = h
      BY <2>0, <2>1, <3>1
    <3>2. CASE e # h
      BY <2>0, <2>1, <3>2
    <3>3. QED
      BY <3>1, <3>2
  <2>2. CASE UNCHANGED status
    BY <2>2
  <2> HIDE DEF Goes
  <2>3. CASE UNCHANGED vars \/ Panic
    BY <2>2, <2>3 DEF vars, Panic, TransformPanics
  <2>4. CASE Goroutine(Notification)
    BY <2>2, <2>4 DEF Goroutine, Notification, Enable, Update, RemovePipelines
  <2>5. CASE Goroutine(WorkerStep)
    <3>1. CASE Receive \/ Refuse \/ Wait
      BY <2>2, <3>1 DEF Receive, Refuse, Wait
    <3>2. CASE CreateDirect \/ QueueEvent
      <4>1. worker = "queue" /\ status' = [status EXCEPT ![Current] = "created"]
        BY <3>2 DEF CreateDirect, QueueEvent, CreateEvent, Open
      <4>2. status[Current] = "none"
        BY <2>0, <4>1, CurrentEvent
      <4>3. QED
        BY <2>1, <4>1, <4>2
    <3>3. CASE SendDirect
      <4>1. worker = "send" /\ status' = [status EXCEPT ![Current] = "sent"]
        BY <3>3 DEF SendDirect, SendEvent
      <4>2. status[Current] = "created"
        BY <2>0, <4>1, CurrentEvent
      <4>3. QED
        BY <2>1, <4>1, <4>2
    <3>4. QED
      BY <2>5, <3>1, <3>2, <3>3 DEF Goroutine, WorkerStep
  <2>6. CASE Goroutine(CloseStep)
    <3>1. PICK q \in Queues : Close(q) \/ CloseDiscard(q)
      BY <2>6 DEF Goroutine, CloseStep
    <3>2. CASE Close(q)
      BY <2>2, <3>2 DEF Close
    <3>3. CASE CloseDiscard(q)
      <4>1. <<"closing", q>> \in Slots /\ At(<<"closing", q>>) = detached[q]
        BY DEF Slots, At
      <4>2. /\ detached[q] # <<>> /\ detached[q] \in Seq(Events)
            /\ status' = [status EXCEPT ![Head(detached[q])] = "discarded"]
        BY <2>0, <3>3 DEF CloseDiscard, discardEvent, TypeInv
      <4>3. Head(detached[q]) = detached[q][1] /\ 1 \in DOMAIN detached[q]
        BY <4>2, Behind
      <4>4. status[Head(detached[q])] = "created"
        BY <1>1, <4>1, <4>3 DEF IndInv, HeldInv
      <4>5. QED
        BY <2>1, <4>2, <4>4
    <3>4. QED
      BY <3>1, <3>2, <3>3
  <2>7. CASE Goroutine(TimerStep)
    BY <2>2, <2>7 DEF Goroutine, TimerStep, TimerFires
  <2>8. CASE Goroutine(\E g \in Transforms : TransformStep(g))
    <3>1. PICK g \in Transforms : TransformStep(g)
      BY <2>8 DEF Goroutine
    <3>2. CASE TakeBatch(g) \/ TransformReturns(g)
      BY <2>2, <3>2 DEF TakeBatch, TransformReturns
    <3>3. CASE FinishEvent(g)
      <4>1. <<"batch", g>> \in Slots /\ At(<<"batch", g>>) = batch[g]
        BY DEF Slots, At
      <4>2. batch[g] # <<>> /\ batch[g] \in Seq(Events)
        BY <2>0, <3>3 DEF FinishEvent, TypeInv, BatchInv
      <4>3. PICK v \in {"sent", "discarded"} : status' = [status EXCEPT ![Head(batch[g])] = v]
        BY <3>3 DEF FinishEvent, SendEvent, discardEvent
      <4>4. Head(batch[g]) = batch[g][1] /\ 1 \in DOMAIN batch[g]
        BY <4>2, Behind
      <4>5. status[Head(batch[g])] = "created"
        BY <1>1, <4>1, <4>4 DEF IndInv, HeldInv
      <4>6. QED
        BY <2>1, <4>3, <4>5
    <3>4. QED
      BY <3>1, <3>2, <3>3 DEF TransformStep
  <2>9. CASE Goroutine(SenderStep)
    <3>1. PICK x \in Events : SenderAcknowledges(x)
      BY <2>9 DEF Goroutine, SenderStep
    <3>2. QED
      BY <2>1, <3>1 DEF SenderAcknowledges
  <2>10. QED
    BY <1>1, <2>3, <2>4, <2>5, <2>6, <2>7, <2>8, <2>9 DEF Next
<1>2. IndInv /\ [Next]_vars => [\A e \in Events : Goes(e)]_vars
  BY <1>1
<1>3. QED
  BY <1>2, Invariance, PTL DEF Spec, ProcessedOnce
====
