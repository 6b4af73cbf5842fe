------------------------------ MODULE MCCache ------------------------------
(* Cache on small instances. *)
EXTENDS Cache

CONSTANTS p1, p2, p3, n1, n2

OneApart == [p \in Procs |-> IF p = p1 THEN n1 ELSE n2]
AllOnOne == [p \in Procs |-> n1]
=============================================================================
