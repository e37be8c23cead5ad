---------------------------- MODULE MCDestinations ---------------------------
(* Instances of Destinations for TLC. *)
EXTENDS Destinations

CONSTANTS p1, p2

\* The first message has two destinations, the others one.
FirstForBoth == [m \in Messages |-> IF m = 1 THEN <<p1, p2>> ELSE <<p1>>]
=============================================================================
