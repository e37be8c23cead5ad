---------------------------- MODULE MCStoreWriter ----------------------------
(* Instances of StoreWriter for TLC. *)
EXTENDS StoreWriter

CONSTANTS k1

\* The odd rows have the same key, the others none.
OddRowsSameKey == [r \in Rows |-> IF r % 2 = 1 THEN k1 ELSE None]
=============================================================================
