------------------------------- MODULE Mutex -------------------------------
(***************************************************************************)
(* What Gamend.Lock.Local promises its callers on one node: a caller asks  *)
(* for a key, is given it when nobody has it, and gives it back, or dies.  *)
(* How the line is kept is LockQueue's business; LockQueue is shown to     *)
(* implement this module.                                                  *)
(***************************************************************************)
CONSTANTS Callers,  \* who asks: one caller per call
          Keys,     \* the keys
          Nobody    \* no caller

VARIABLES owner,    \* the caller that owns each key, or Nobody
          asking    \* the callers waiting for each key

mutexVars == <<owner, asking>>


MutexInit == /\ owner = [k \in Keys |-> Nobody]
             /\ asking = [k \in Keys |-> {}]

\* c gets the free key at once.
Obtain(c, k) == /\ owner[k] = Nobody
                /\ owner' = [owner EXCEPT ![k] = c]
                /\ UNCHANGED asking

\* c waits for a key somebody has.
Wait(c, k) == /\ owner[k] # Nobody
              /\ c \notin asking[k] \cup {owner[k]}
              /\ asking' = [asking EXCEPT ![k] = @ \cup {c}]
              /\ UNCHANGED owner

\* The owner is done, or died, and nobody waits.
GiveUp(k) == /\ owner[k] # Nobody
             /\ asking[k] = {}
             /\ owner' = [owner EXCEPT ![k] = Nobody]
             /\ UNCHANGED asking

\* The owner is done, or died: one of those waiting has the key, never nobody.
HandOver(c, k) == /\ owner[k] # Nobody
                  /\ c \in asking[k]
                  /\ owner' = [owner EXCEPT ![k] = c]
                  /\ asking' = [asking EXCEPT ![k] = @ \ {c}]

\* A caller that died stops waiting.
Withdraw(c, k) == /\ c \in asking[k]
                  /\ asking' = [asking EXCEPT ![k] = @ \ {c}]
                  /\ UNCHANGED owner

MutexNext == \E k \in Keys : \/ GiveUp(k)
                             \/ \E c \in Callers : \/ Obtain(c, k) \/ Wait(c, k)
                                                   \/ HandOver(c, k) \/ Withdraw(c, k)

MutexSpec == MutexInit /\ [][MutexNext]_mutexVars
=============================================================================
