--------------------------- MODULE OrderedDelivery ---------------------------
(***************************************************************************)
(* What a Sender promises to its callers and to the application: an event  *)
(* is created once and finished once, it is handed over only when every    *)
(* earlier event of its ordering is finished or goes in the same request,  *)
(* and only a request that carried it acknowledges it. There are no        *)
(* buffers, queue, counters, locks or timers here.                         *)
(***************************************************************************)
EXTENDS Naturals

CONSTANTS
  Events,      \* the events
  Iterators,   \* the requests that may be in progress
  OrderingOf,  \* the ordering of each event
  None         \* nil

VARIABLES
  stage,   \* of each event: new, pending or finished
  number,  \* the place of each created event among those of its ordering
  holder,  \* the request that carries each event, or None
  acked    \* the events that were acknowledged

Init ==
  /\ stage = [e \in Events |-> "new"]
  /\ number = [e \in Events |-> 0]
  /\ holder = [e \in Events |-> None]
  /\ acked = {}

HeldBy(i) == {e \in Events : holder[e] = i}

\* The pending events of the ordering of e.
Companions(e) ==
  {f \in Events : stage[f] = "pending" /\ OrderingOf[f] = OrderingOf[e]}

Follows(e, f) == number[f] < number[e]

\* An event is created after the pending events of its ordering. Numbers may
\* be used again once nothing is pending.
Create(e) ==
  /\ stage[e] = "new"
  /\ stage' = [stage EXCEPT ![e] = "pending"]
  /\ number' \in [Events -> Nat]
  /\ \A f \in Events \ {e} : number'[f] = number[f]
  /\ \A f \in Companions(e) : number[f] < number'[e]
  /\ UNCHANGED <<holder, acked>>

\* A request takes an event, in order.
Take(e, i) ==
  /\ stage[e] = "pending"
  /\ holder[e] = None
  /\ \A f \in Companions(e) : Follows(e, f) => holder[f] = i
  /\ holder' = [holder EXCEPT ![e] = i]
  /\ UNCHANGED <<stage, number, acked>>

\* A request puts an event back, for a later request, with no event that
\* follows it in flight.
GiveBack(e) ==
  /\ holder[e] # None
  /\ \A f \in Companions(e) : Follows(f, e) => holder[f] = None
  /\ holder' = [holder EXCEPT ![e] = None]
  /\ UNCHANGED <<stage, number, acked>>

\* The pending events F are finished, for good.
Finish(F) ==
  /\ \A e \in F : stage[e] = "pending"
  /\ holder' = [e \in Events |-> IF e \in F THEN None ELSE holder[e]]
  /\ stage' = [e \in Events |-> IF e \in F THEN "finished" ELSE stage[e]]
  /\ UNCHANGED number

\* An event is finished without an acknowledgement of the application: its
\* caller drops it or finds the sender closed, or the connector rejects it.
Drop(e) == Finish({e}) /\ UNCHANGED acked

\* A request ends: the events it carries are finished, and acknowledged.
Send(i) == acked' = acked \cup HeldBy(i) /\ Finish(HeldBy(i))

Next ==
  \/ \E e \in Events :
       Create(e) \/ GiveBack(e) \/ Drop(e) \/ \E i \in Iterators : Take(e, i)
  \/ \E i \in Iterators : Send(i)

Spec == Init /\ [][Next]_<<stage, number, holder, acked>>
=============================================================================
