---------------------------- MODULE MCTournament ----------------------------
(* Tournament on small instances. *)
EXTENDS Tournament

CONSTANTS e1, e2, e3, e4, w1, w2

FourPlayers == <<e1, e2, e3, e4>>
TwoWorkers == {w1, w2}

WorkerSymmetry == Permutations(Workers)
=============================================================================
