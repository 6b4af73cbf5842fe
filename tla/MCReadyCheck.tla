---------------------------- MODULE MCReadyCheck ----------------------------
(* ReadyCheck on small instances. *)
EXTENDS ReadyCheck

CONSTANTS u1, u2, lobby

TwoUsers == {u1, u2}
Lobby == {lobby}
Nobody == {}
Either == {TRUE, FALSE}
AnyMatch == SUBSET Users \ {{}}

BeforeTheSeat == {"answer", "open", "quiet", "insert", "leaving", "cancel"}
=============================================================================
