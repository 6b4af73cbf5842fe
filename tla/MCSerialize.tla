---------------------------- MODULE MCSerialize ----------------------------
(* Serialize on small instances. *)
EXTENDS Serialize, TLC

CONSTANTS p1, p2, p3, n1, n2, a, b

TwoProcs == {p1, p2}
OneNode == {n1}
TwoNodes == {n1, n2}
TwoKeys == {a, b}
AllOnOne == {[p \in Procs |-> n1]}
Anywhere == {[p \in Procs |-> n1], [p \in Procs |-> IF p = p1 THEN n1 ELSE n2]}
Outward == {<<a, b>>}
Jobs == {"serialize", "exclusive"}

ProcSymmetry == Permutations(Procs)
=============================================================================
