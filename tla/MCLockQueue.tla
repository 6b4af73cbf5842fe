---------------------------- MODULE MCLockQueue ----------------------------
(***************************************************************************)
(* Small instances of LockQueue: model values for processes and keys.      *)
(***************************************************************************)
EXTENDS LockQueue

CONSTANTS p1, p2, p3, key

NoNesting  == {}
=============================================================================
