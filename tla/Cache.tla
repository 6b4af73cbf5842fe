------------------------------- MODULE Cache -------------------------------
(***************************************************************************)
(* Gamend.Cache: one row of the database, read through the local cache of  *)
(* each node.  A read that misses queries the row and puts what it found;  *)
(* a write evicts it, here and by a broadcast everywhere.  What a put must *)
(* not do is outlive a write it did not see, so every eviction moves the   *)
(* key's generation, and a fill looks at it again after its put.           *)
(*                                                                         *)
(* A row is its version.  One step is one call to the database, to a cache *)
(* or to the PubSub server: anything may run between two of them.          *)
(***************************************************************************)
EXTENDS Integers

CONSTANTS
  Procs,
  Nodes,
  NodeOf,       \* the node each process runs on
  NoProc,
  NoVersion,    \* what a cache without the key holds
  OneAtATime,   \* whether a write that stores its row overlaps no other write
  MaxWrites     \* bound: how many writes are ever begun

ASSUME NodeOfAssumption    == NodeOf \in [Procs -> Nodes]
ASSUME NoProcAssumption    == NoProc \notin Procs
ASSUME NoVersionAssumption == NoVersion \notin Nat
ASSUME OneAssumption       == OneAtATime \in BOOLEAN
ASSUME WritesAssumption    == MaxWrites \in Nat

VARIABLES
  row,          \* the committed version
  writer,       \* the process whose open transaction has written the row
  writes,       \* how many writes were begun
  local,        \* the entry of each node's cache
  gen,          \* the key's generation on each node; 0 when it has none
  inbox,        \* invalidations broadcast to the node, not yet taken up
  syncing,      \* whether its Sync process is between its two calls
  pc,           \* what each process does next
  held,         \* the generation it read before its query
  got           \* the version it queried, or wrote and will store

vars == <<row, writer, writes, local, gen, inbox, syncing, pc, held, got>>
dbVars == <<row, writer, writes>>
syncVars == <<inbox, syncing>>

Versions == 0..MaxWrites
Filling == {"generation", "query", "put", "compare", "drop"}
Evicting == {"bump", "delete", "publish"}
Steps == Filling \cup Evicting \cup {"idle", "open", "store"}

TypeOK ==
  /\ row \in Versions
  /\ writer \in Procs \cup {NoProc}
  /\ writes \in Versions
  /\ local \in [Nodes -> Versions \cup {NoVersion}]
  /\ gen \in [Nodes -> Nat]
  /\ inbox \in [Nodes -> Nat]
  /\ syncing \in [Nodes -> BOOLEAN]
  /\ pc \in [Procs -> Steps]
  /\ held \in [Procs -> Nat]
  /\ got \in [Procs -> Versions \cup {NoVersion}]

Init ==
  /\ row = 0 /\ writer = NoProc /\ writes = 0
  /\ local = [n \in Nodes |-> NoVersion]
  /\ gen = [n \in Nodes |-> 0]
  /\ inbox = [n \in Nodes |-> 0]
  /\ syncing = [n \in Nodes |-> FALSE]
  /\ pc = [p \in Procs |-> "idle"]
  /\ held = [p \in Procs |-> 0]
  /\ got = [p \in Procs |-> NoVersion]

-----------------------------------------------------------------------------
\* Repo.in_transaction?/0, of a process whose transaction wrote the row.
Inside(p) == writer = p

\* What a query of the row returns.
Visible(p) == IF writer = p THEN row + 1 ELSE row

Home(p) == IF writer = p THEN "open" ELSE "idle"
Goto(p, step) == pc' = [pc EXCEPT ![p] = step]

\* The process returns, and forgets what it held.
Return(p) ==
  /\ Goto(p, Home(p))
  /\ held' = [held EXCEPT ![p] = 0]
  /\ got' = [got EXCEPT ![p] = NoVersion]

Entry(n, v) == local' = [local EXCEPT ![n] = v]

-----------------------------------------------------------------------------
\* Reading: cached/3 and fill/4.  A hit changes nothing, and a read inside a
\* transaction goes to the database and leaves the cache alone.

Fetch(p) ==
  /\ pc[p] \in {"idle", "open"} /\ ~Inside(p)
  /\ local[NodeOf[p]] = NoVersion
  /\ Goto(p, "generation")
  /\ UNCHANGED <<dbVars, syncVars, local, gen, held, got>>

ReadGeneration(p) ==
  /\ pc[p] = "generation"
  /\ held' = [held EXCEPT ![p] = gen[NodeOf[p]]]
  /\ Goto(p, "query")
  /\ UNCHANGED <<dbVars, syncVars, local, gen, got>>

Query(p) ==
  /\ pc[p] = "query"
  /\ got' = [got EXCEPT ![p] = Visible(p)]
  /\ Goto(p, "put")
  /\ UNCHANGED <<dbVars, syncVars, local, gen, held>>

Put(p) ==
  /\ pc[p] = "put"
  /\ Entry(NodeOf[p], got[p])
  /\ got' = [got EXCEPT ![p] = NoVersion]
  /\ Goto(p, "compare")
  /\ UNCHANGED <<dbVars, syncVars, gen, held>>

NeverMoved(p) == FALSE                                  \* a mutant
Moved(p) == gen[NodeOf[p]] # held[p]

Compare(p) ==
  /\ pc[p] = "compare"
  /\ Goto(p, IF Moved(p) THEN "drop" ELSE "idle")
  /\ held' = [held EXCEPT ![p] = 0]
  /\ UNCHANGED <<dbVars, syncVars, local, gen, got>>

Drop(p) ==
  /\ pc[p] = "drop"
  /\ Entry(NodeOf[p], NoVersion)
  /\ Return(p)
  /\ UNCHANGED <<dbVars, syncVars, gen>>

-----------------------------------------------------------------------------
\* Writing: the row, then invalidate/1.

Writing(q) == pc[q] \in Evicting \cup {"open", "store"}
Clear(p, store) ==
  OneAtATime => \A q \in Procs \ {p} : Writing(q) => ~store /\ got[q] = NoVersion

MayWrite(p) == pc[p] = "idle" /\ writer = NoProc /\ writes < MaxWrites

\* A statement of its own, committed when it returns.  One that stores is
\* followed by cache_user/1, which evicts and then puts the row it wrote.
Update(p, store) ==
  /\ MayWrite(p) /\ Clear(p, store)
  /\ row' = row + 1 /\ writes' = writes + 1
  /\ got' = [got EXCEPT ![p] = IF store THEN row + 1 ELSE NoVersion]
  /\ Goto(p, "bump")
  /\ UNCHANGED <<writer, syncVars, local, gen, held>>

\* A statement of an open transaction, which holds the row until it ends.
Begin(p) ==
  /\ MayWrite(p) /\ Clear(p, FALSE)
  /\ writer' = p /\ writes' = writes + 1
  /\ Goto(p, "bump")
  /\ UNCHANGED <<row, syncVars, local, gen, held, got>>

\* evict/1: the generation, the entry, the broadcast.
Bump(p) ==
  /\ pc[p] = "bump"
  /\ gen' = [gen EXCEPT ![NodeOf[p]] = @ + 1]
  /\ Goto(p, "delete")
  /\ UNCHANGED <<dbVars, syncVars, local, held, got>>

Delete(p) ==
  /\ pc[p] = "delete"
  /\ Entry(NodeOf[p], NoVersion)
  /\ Goto(p, "publish")
  /\ UNCHANGED <<dbVars, syncVars, gen, held, got>>

Publish(p) ==
  /\ pc[p] = "publish"
  /\ inbox' = [n \in Nodes |-> IF n = NodeOf[p] THEN inbox[n] ELSE inbox[n] + 1]
  /\ Goto(p, IF got[p] # NoVersion THEN "store" ELSE Home(p))
  /\ UNCHANGED <<dbVars, syncing, local, gen, held, got>>

\* The put of cache_user/1: no generation is looked at.
Store(p) ==
  /\ pc[p] = "store"
  /\ Entry(NodeOf[p], got[p])
  /\ Return(p)
  /\ UNCHANGED <<dbVars, syncVars, gen>>

\* again_after_commit/1: the deferred eviction, the first thing after the commit.
NotAgain == "idle"                                      \* a mutant
AgainAfterCommit == "bump"

Commit(p) ==
  /\ pc[p] = "open"
  /\ row' = row + 1 /\ writer' = NoProc
  /\ Goto(p, AgainAfterCommit)
  /\ UNCHANGED <<writes, syncVars, local, gen, held, got>>

Rollback(p) ==
  /\ pc[p] = "open"
  /\ writer' = NoProc
  /\ Goto(p, "idle")
  /\ UNCHANGED <<row, writes, syncVars, local, gen, held, got>>

-----------------------------------------------------------------------------
\* Gamend.Cache.Sync: a broadcast of another node.

Receive(n) ==
  /\ inbox[n] > 0 /\ ~syncing[n]
  /\ inbox' = [inbox EXCEPT ![n] = @ - 1]
  /\ gen' = [gen EXCEPT ![n] = @ + 1]
  /\ syncing' = [syncing EXCEPT ![n] = TRUE]
  /\ UNCHANGED <<dbVars, local, pc, held, got>>

EvictLocal(n) ==
  /\ syncing[n]
  /\ Entry(n, NoVersion)
  /\ syncing' = [syncing EXCEPT ![n] = FALSE]
  /\ UNCHANGED <<dbVars, inbox, gen, pc, held, got>>

-----------------------------------------------------------------------------
\* The entry's time is up, or the cache is full; a generation outlives every
\* fill that has read it.

Expire(n) ==
  /\ local[n] # NoVersion
  /\ Entry(n, NoVersion)
  /\ UNCHANGED <<dbVars, syncVars, gen, pc, held, got>>

Forget(n) ==
  /\ \A p \in Procs : NodeOf[p] = n => pc[p] \notin Filling
  /\ gen[n] # 0
  /\ gen' = [gen EXCEPT ![n] = 0]
  /\ UNCHANGED <<dbVars, syncVars, local, pc, held, got>>

-----------------------------------------------------------------------------
Fill(p) == ReadGeneration(p) \/ Query(p) \/ Put(p) \/ Compare(p) \/ Drop(p)
Write(p) == Bump(p) \/ Delete(p) \/ Publish(p) \/ Store(p) \/ Commit(p) \/ Rollback(p)
Sync(n) == Receive(n) \/ EvictLocal(n)

Next ==
  \/ \E p \in Procs : \/ Fetch(p) \/ Fill(p) \/ Write(p) \/ Begin(p)
                      \/ \E store \in BOOLEAN : Update(p, store)
  \/ \E n \in Nodes : Sync(n) \/ Expire(n) \/ Forget(n)

Spec == Init /\ [][Next]_vars

\* A process that has begun goes on, and so does each node's Sync.
FairSpec == /\ Spec
            /\ \A p \in Procs : WF_vars(Fill(p) \/ Write(p))
            /\ \A n \in Nodes : WF_vars(Sync(n))

-----------------------------------------------------------------------------
\* Properties.

Stale(n) == local[n] \notin {NoVersion, row}

\* A write has committed and its eviction on node n is still to begin: here, or
\* by a broadcast on its way.
Committed(q) == pc[q] \in Evicting /\ writer # q
Coming(n) ==
  \/ inbox[n] > 0
  \/ \E q \in Procs : /\ Committed(q)
                      /\ IF NodeOf[q] = n THEN pc[q] = "bump" ELSE pc[q] \in Evicting

\* Somebody will take the entry of node n out: an eviction, or the fill that
\* put it and is about to see the generation moved.
Doomed(n) ==
  \/ Coming(n) \/ syncing[n]
  \/ \E q \in Procs : /\ NodeOf[q] = n
                      /\ \/ Committed(q) /\ pc[q] = "delete"
                         \/ pc[q] = "compare" /\ gen[n] # held[q]
                         \/ pc[q] = "drop"

\* A node never keeps an entry older than the row, nor one a rollback took back:
\* a stale entry is about to be deleted, whatever fills, writes and broadcasts
\* overlap, and never has to wait for its TTL (cache.ex:31-38, sync.ex:5-9).
StaleDoomed == \A n \in Nodes : Stale(n) => Doomed(n)

\* All nodes converge: a stale entry goes, without its TTL (sync.ex:6-8).
StaleGoes == \A n \in Nodes : Stale(n) ~> ~Stale(n)
=============================================================================
