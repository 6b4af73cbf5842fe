----------------------------- MODULE MCSession ------------------------------
(* Session on small instances. *)
EXTENDS Session, TLC

CONSTANTS u1, u2, c1, c2, k1

TwoUsers == {u1, u2}
TwoCalls == {c1, c2}
OneSocket == {k1}

Symmetry == Permutations(Users) \cup Permutations(Calls)
=============================================================================
