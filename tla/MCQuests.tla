------------------------------ MODULE MCQuests ------------------------------
(* Quests on small instances. *)
EXTENDS Quests, TLC

CONSTANTS p1, p2

TwoProcs == {p1, p2}

ProcSymmetry == Permutations(Procs)
=============================================================================
