------------------------------ MODULE MCSender ------------------------------
(* Instances of Sender for TLC. *)
EXTENDS Sender

CONSTANTS e1, e2, e3, e4, o1, o2, o3, u1, u2

\* Two users with one ordering each.
TwoUsers == [o \in Orderings |-> IF o = o1 THEN u1 ELSE u2]
\* Three orderings, the first two of the same user.
TwoGroups == [o \in Orderings |-> IF o = o3 THEN u2 ELSE u1]
OneUser == [o \in Orderings |-> u1]

\* Three events of one ordering and one of another one.
ThreeAndOne == [e \in Events |-> IF e = e4 THEN o2 ELSE o1]
\* One event of each ordering, two of the third one.
OneEach == [e \in Events |-> CASE e = e1 -> o1 [] e = e2 -> o2 [] OTHER -> o3]
\* Every event of the same ordering.
OneOrdering == [e \in Events |-> o1]

\* Of OneEach and TwoGroups: iterators are interchangeable, and so are the two
\* events of the third ordering, and the first two orderings with their events.
Swapped == (e1 :> e2) @@ (e2 :> e1) @@ (o1 :> o2) @@ (o2 :> o1)
Unchanged == [x \in DOMAIN Swapped |-> x]
Symmetric ==
  {p @@ q @@ r : p \in Permutations(Iterators), q \in {Swapped, Unchanged},
                 r \in Permutations({e3, e4})}

\* Of ThreeAndOne: the events of an ordering differ only by name, so that it is
\* enough to create them in one order. Symmetry for a liveness property.
CreatedInTurn ==
  /\ status'[e2] # "new" => status'[e1] # "new"
  /\ status'[e3] # "new" => status'[e2] # "new"

\* Bound: once every event is created the sender is not closed, nor the last
\* event created once it is. Two events fill the queue, a third one sleeps on
\* it when Close comes.
ClosedBeforeLast == closed' => \E e \in Events : status'[e] = "new"
=============================================================================
