--------------------------- MODULE MCMatchmaking ---------------------------
(* Matchmaking on small instances. *)
EXTENDS Matchmaking

CONSTANTS u1, u2, u3

TwoUsers == {u1, u2}
ThreeUsers == {u1, u2, u3}
Pair == [u \in Users |-> IF u = u1 THEN u1 ELSE u2]
=============================================================================
