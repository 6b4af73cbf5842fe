------------------------------ MODULE MCMatcher ------------------------------
(* Matcher on small buckets, in which each unit asks for a match of its own. *)
EXTENDS Matcher

Unit(n, size, capacity, min, max) ==
  [tickets |-> n, size |-> size, capacity |-> capacity, min |-> min, max |-> max]
Duel     == Unit(1, 1, 0, 2, 2)
Player   == Unit(1, 1, 0, 2, 3)
Four     == Unit(1, 1, 0, 4, 4)
Duo      == Unit(2, 1, 0, 2, 3)
Lonely   == Unit(1, 1, 4, 2, 3)
Hosting  == Unit(1, 2, 3, 3, 4)
Crowd    == Unit(1, 4, 8, 2, 3)
AllKinds == {Duel, Player, Four, Duo, Lonely, Hosting, Crowd}
=============================================================================
