---------------------------- MODULE CacheProofs ----------------------------
(***************************************************************************)
(* That no stale entry is ever kept, for any number of processes, nodes    *)
(* and writes.  The argument: what a fill is about to put is the row, or   *)
(* the generation it holds has moved, or an eviction that will move it is  *)
(* on its way; and what cache_user/1 puts is the row as long as no other   *)
(* write overlaps it.                                                      *)
(***************************************************************************)
EXTENDS Cache, TLAPS

\* The row's versions are counted by the writes, the one of an open transaction too.
Counted == /\ row <= writes
           /\ writer # NoProc => row + 1 <= writes

\* A transaction's writer is in it or evicting; whoever neither fills nor stores
\* holds no version, and a store holds one.
Placed ==
  \A p \in Procs :
    /\ writer = p => pc[p] \in Evicting \cup {"open"} /\ got[p] = NoVersion
    /\ pc[p] = "open" => writer = p
    /\ pc[p] \in {"idle", "open", "generation", "query", "compare", "drop"} => got[p] = NoVersion
    /\ pc[p] \in {"put", "store"} => got[p] # NoVersion

\* A generation only grows under a fill that holds one.
Held == \A p \in Procs : pc[p] \in {"query", "put", "compare"} => held[p] <= gen[NodeOf[p]]

\* What a fill is about to put is the row, or it will see its generation moved.
FillsSound ==
  \A p \in Procs : pc[p] = "put" =>
    got[p] = row \/ gen[NodeOf[p]] # held[p] \/ Coming(NodeOf[p])

\* A write that will store its row is alone, and holds the row.
Storing(p) == pc[p] \in Evicting \cup {"store"} /\ got[p] # NoVersion
StoresAlone ==
  OneAtATime => \A p \in Procs : Storing(p) =>
    got[p] = row /\ \A q \in Procs \ {p} : ~Writing(q)

IInv == TypeOK /\ Counted /\ Placed /\ Held /\ FillsSound /\ StoresAlone

-----------------------------------------------------------------------------
LEMMA InitIInv == Init => IInv
BY NodeOfAssumption, NoProcAssumption, NoVersionAssumption, WritesAssumption
   DEF Init, IInv, TypeOK, Counted, Placed, Held, FillsSound, StoresAlone, Storing,
       Versions, Steps, Filling, Evicting

\* The step of a process or of a node that Next takes.
LEMMA StepCases ==
  ASSUME Next
  PROVE  \/ \E p \in Procs : \/ Fetch(p) \/ ReadGeneration(p) \/ Query(p) \/ Put(p)
                             \/ Compare(p) \/ Drop(p)
         \/ \E p \in Procs, store \in BOOLEAN : Update(p, store)
         \/ \E p \in Procs : \/ Begin(p) \/ Bump(p) \/ Delete(p) \/ Publish(p)
                             \/ Store(p) \/ Commit(p) \/ Rollback(p)
         \/ \E n \in Nodes : Receive(n) \/ EvictLocal(n) \/ Expire(n) \/ Forget(n)
BY DEF Next, Fill, Write, Sync

-----------------------------------------------------------------------------
\* The types, and the bound on the row's versions.
LEMMA TypeStep ==
  ASSUME IInv, Next
  PROVE  TypeOK' /\ Counted'
<1> USE NodeOfAssumption, NoProcAssumption, NoVersionAssumption, WritesAssumption
    DEF Versions, Steps, Filling, Evicting, dbVars, syncVars, Goto, Entry
<1>0. TypeOK /\ Counted /\ Placed
  BY DEF IInv
<1>1. ASSUME NEW p \in Procs, Fetch(p) PROVE TypeOK' /\ Counted'
  BY <1>0, <1>1 DEF Fetch, TypeOK, Counted
<1>2. ASSUME NEW p \in Procs, ReadGeneration(p) PROVE TypeOK' /\ Counted'
  BY <1>0, <1>2 DEF ReadGeneration, TypeOK, Counted
<1>3. ASSUME NEW p \in Procs, Query(p) PROVE TypeOK' /\ Counted'
  BY <1>0, <1>3 DEF Query, Visible, TypeOK, Counted
<1>4. ASSUME NEW p \in Procs, Put(p) PROVE TypeOK' /\ Counted'
  BY <1>0, <1>4 DEF Put, TypeOK, Counted
<1>5. ASSUME NEW p \in Procs, Compare(p) PROVE TypeOK' /\ Counted'
  BY <1>0, <1>5 DEF Compare, TypeOK, Counted
<1>6. ASSUME NEW p \in Procs, Drop(p) PROVE TypeOK' /\ Counted'
  BY <1>0, <1>6 DEF Drop, Return, Home, TypeOK, Counted
<1>7. ASSUME NEW p \in Procs, NEW store \in BOOLEAN, Update(p, store) PROVE TypeOK' /\ Counted'
  BY <1>0, <1>7 DEF Update, MayWrite, TypeOK, Counted
<1>8. ASSUME NEW p \in Procs, Begin(p) PROVE TypeOK' /\ Counted'
  BY <1>0, <1>8 DEF Begin, MayWrite, TypeOK, Counted
<1>9. ASSUME NEW p \in Procs, Bump(p) PROVE TypeOK' /\ Counted'
  BY <1>0, <1>9 DEF Bump, TypeOK, Counted
<1>10. ASSUME NEW p \in Procs, Delete(p) PROVE TypeOK' /\ Counted'
  BY <1>0, <1>10 DEF Delete, TypeOK, Counted
<1>11. ASSUME NEW p \in Procs, Publish(p) PROVE TypeOK' /\ Counted'
  BY <1>0, <1>11 DEF Publish, Home, TypeOK, Counted
<1>12. ASSUME NEW p \in Procs, Store(p) PROVE TypeOK' /\ Counted'
  BY <1>0, <1>12 DEF Store, Return, Home, TypeOK, Counted
<1>13. ASSUME NEW p \in Procs, Commit(p) PROVE TypeOK' /\ Counted'
  BY <1>0, <1>13 DEF Commit, AgainAfterCommit, TypeOK, Counted, Placed
<1>14. ASSUME NEW p \in Procs, Rollback(p) PROVE TypeOK' /\ Counted'
  BY <1>0, <1>14 DEF Rollback, TypeOK, Counted
<1>15. ASSUME NEW n \in Nodes, Receive(n) PROVE TypeOK' /\ Counted'
  BY <1>0, <1>15 DEF Receive, TypeOK, Counted
<1>16. ASSUME NEW n \in Nodes, EvictLocal(n) PROVE TypeOK' /\ Counted'
  BY <1>0, <1>16 DEF EvictLocal, TypeOK, Counted
<1>17. ASSUME NEW n \in Nodes, Expire(n) PROVE TypeOK' /\ Counted'
  BY <1>0, <1>17 DEF Expire, TypeOK, Counted
<1>18. ASSUME NEW n \in Nodes, Forget(n) PROVE TypeOK' /\ Counted'
  BY <1>0, <1>18 DEF Forget, TypeOK, Counted
<1>19. QED
  BY <1>1, <1>2, <1>3, <1>4, <1>5, <1>6, <1>7, <1>8, <1>9, <1>10, <1>11, <1>12, <1>13,
     <1>14, <1>15, <1>16, <1>17, <1>18, StepCases

-----------------------------------------------------------------------------
\* Who may be where, and hold what.
LEMMA PlacedStep ==
  ASSUME IInv, Next
  PROVE  Placed'
<1> USE NodeOfAssumption, NoProcAssumption, NoVersionAssumption, WritesAssumption
    DEF Versions, Steps, Filling, Evicting, dbVars, syncVars, Goto
<1>0. TypeOK /\ Placed /\ TypeOK'
  BY TypeStep DEF IInv
<1>1. ASSUME NEW p \in Procs, Fetch(p) PROVE Placed'
  BY <1>0, <1>1 DEF Fetch, Inside, TypeOK, Placed
<1>2. ASSUME NEW p \in Procs, ReadGeneration(p) PROVE Placed'
  BY <1>0, <1>2 DEF ReadGeneration, TypeOK, Placed
<1>3. ASSUME NEW p \in Procs, Query(p) PROVE Placed'
  BY <1>0, <1>3 DEF Query, Visible, TypeOK, Placed
<1>4. ASSUME NEW p \in Procs, Put(p) PROVE Placed'
  BY <1>0, <1>4 DEF Put, Entry, TypeOK, Placed
<1>5. ASSUME NEW p \in Procs, Compare(p) PROVE Placed'
  BY <1>0, <1>5 DEF Compare, Moved, TypeOK, Placed
<1>6. ASSUME NEW p \in Procs, Drop(p) PROVE Placed'
  BY <1>0, <1>6 DEF Drop, Return, Home, Entry, TypeOK, Placed
<1>7. ASSUME NEW p \in Procs, NEW store \in BOOLEAN, Update(p, store) PROVE Placed'
  BY <1>0, <1>7 DEF Update, MayWrite, Clear, Writing, TypeOK, Placed
<1>8. ASSUME NEW p \in Procs, Begin(p) PROVE Placed'
  BY <1>0, <1>8 DEF Begin, MayWrite, Clear, Writing, TypeOK, Placed
<1>9. ASSUME NEW p \in Procs, Bump(p) PROVE Placed'
  BY <1>0, <1>9 DEF Bump, TypeOK, Placed
<1>10. ASSUME NEW p \in Procs, Delete(p) PROVE Placed'
  BY <1>0, <1>10 DEF Delete, Entry, TypeOK, Placed
<1>11. ASSUME NEW p \in Procs, Publish(p) PROVE Placed'
  BY <1>0, <1>11 DEF Publish, Home, TypeOK, Placed
<1>12. ASSUME NEW p \in Procs, Store(p) PROVE Placed'
  BY <1>0, <1>12 DEF Store, Return, Home, Entry, TypeOK, Placed
<1>13. ASSUME NEW p \in Procs, Commit(p) PROVE Placed'
  BY <1>0, <1>13 DEF Commit, AgainAfterCommit, TypeOK, Placed
<1>14. ASSUME NEW p \in Procs, Rollback(p) PROVE Placed'
  BY <1>0, <1>14 DEF Rollback, TypeOK, Placed
<1>15. ASSUME NEW n \in Nodes, Receive(n) PROVE Placed'
  BY <1>0, <1>15 DEF Receive, TypeOK, Placed
<1>16. ASSUME NEW n \in Nodes, EvictLocal(n) PROVE Placed'
  BY <1>0, <1>16 DEF EvictLocal, Entry, TypeOK, Placed
<1>17. ASSUME NEW n \in Nodes, Expire(n) PROVE Placed'
  BY <1>0, <1>17 DEF Expire, Entry, TypeOK, Placed
<1>18. ASSUME NEW n \in Nodes, Forget(n) PROVE Placed'
  BY <1>0, <1>18 DEF Forget, TypeOK, Placed
<1>19. QED
  BY <1>1, <1>2, <1>3, <1>4, <1>5, <1>6, <1>7, <1>8, <1>9, <1>10, <1>11, <1>12,
     <1>13, <1>14, <1>15, <1>16, <1>17, <1>18, StepCases

\* A generation is forgotten only when no fill of its node is under way.
LEMMA HeldStep ==
  ASSUME IInv, Next
  PROVE  Held'
<1> USE NodeOfAssumption, NoProcAssumption, NoVersionAssumption, WritesAssumption
    DEF Versions, Steps, Filling, Evicting, dbVars, syncVars, Goto
<1>0. TypeOK /\ Held /\ TypeOK'
  BY TypeStep DEF IInv
<1>1. ASSUME NEW p \in Procs, Fetch(p) PROVE Held'
  BY <1>0, <1>1 DEF Fetch, TypeOK, Held
<1>2. ASSUME NEW p \in Procs, ReadGeneration(p) PROVE Held'
  BY <1>0, <1>2 DEF ReadGeneration, TypeOK, Held
<1>3. ASSUME NEW p \in Procs, Query(p) PROVE Held'
  BY <1>0, <1>3 DEF Query, Visible, TypeOK, Held
<1>4. ASSUME NEW p \in Procs, Put(p) PROVE Held'
  BY <1>0, <1>4 DEF Put, Entry, TypeOK, Held
<1>5. ASSUME NEW p \in Procs, Compare(p) PROVE Held'
  BY <1>0, <1>5 DEF Compare, Moved, TypeOK, Held
<1>6. ASSUME NEW p \in Procs, Drop(p) PROVE Held'
  BY <1>0, <1>6 DEF Drop, Return, Home, Entry, TypeOK, Held
<1>7. ASSUME NEW p \in Procs, NEW store \in BOOLEAN, Update(p, store) PROVE Held'
  BY <1>0, <1>7 DEF Update, MayWrite, Clear, Writing, TypeOK, Held
<1>8. ASSUME NEW p \in Procs, Begin(p) PROVE Held'
  BY <1>0, <1>8 DEF Begin, MayWrite, Clear, Writing, TypeOK, Held
<1>9. ASSUME NEW p \in Procs, Bump(p) PROVE Held'
  BY <1>0, <1>9 DEF Bump, TypeOK, Held
<1>10. ASSUME NEW p \in Procs, Delete(p) PROVE Held'
  BY <1>0, <1>10 DEF Delete, Entry, TypeOK, Held
<1>11. ASSUME NEW p \in Procs, Publish(p) PROVE Held'
  BY <1>0, <1>11 DEF Publish, Home, TypeOK, Held
<1>12. ASSUME NEW p \in Procs, Store(p) PROVE Held'
  BY <1>0, <1>12 DEF Store, Return, Home, Entry, TypeOK, Held
<1>13. ASSUME NEW p \in Procs, Commit(p) PROVE Held'
  BY <1>0, <1>13 DEF Commit, AgainAfterCommit, TypeOK, Held
<1>14. ASSUME NEW p \in Procs, Rollback(p) PROVE Held'
  BY <1>0, <1>14 DEF Rollback, TypeOK, Held
<1>15. ASSUME NEW n \in Nodes, Receive(n) PROVE Held'
  BY <1>0, <1>15 DEF Receive, TypeOK, Held
<1>16. ASSUME NEW n \in Nodes, EvictLocal(n) PROVE Held'
  BY <1>0, <1>16 DEF EvictLocal, Entry, TypeOK, Held
<1>17. ASSUME NEW n \in Nodes, Expire(n) PROVE Held'
  BY <1>0, <1>17 DEF Expire, Entry, TypeOK, Held
<1>18. ASSUME NEW n \in Nodes, Forget(n) PROVE Held'
  BY <1>0, <1>18 DEF Forget, TypeOK, Held
<1>19. QED
  BY <1>1, <1>2, <1>3, <1>4, <1>5, <1>6, <1>7, <1>8, <1>9, <1>10, <1>11, <1>12,
     <1>13, <1>14, <1>15, <1>16, <1>17, <1>18, StepCases

\* A write that makes a fill stale is still to evict where it will be put, and when it
\* does the generation moves.
LEMMA FillsStep ==
  ASSUME IInv, Next
  PROVE  FillsSound'
<1> USE NodeOfAssumption, NoProcAssumption, NoVersionAssumption, WritesAssumption
    DEF Versions, Steps, Filling, Evicting, dbVars, syncVars, Goto
<1>0. TypeOK /\ Placed /\ Held /\ FillsSound /\ TypeOK'
  BY TypeStep, PlacedStep, HeldStep DEF IInv
<1>1. ASSUME NEW p \in Procs, Fetch(p) PROVE FillsSound'
  BY <1>0, <1>1 DEF Fetch, Inside, TypeOK, Placed, Held, FillsSound, Coming, Committed
<1>2. ASSUME NEW p \in Procs, ReadGeneration(p) PROVE FillsSound'
  BY <1>0, <1>2 DEF ReadGeneration, TypeOK, Placed, Held, FillsSound, Coming, Committed
<1>3. ASSUME NEW p \in Procs, Query(p) PROVE FillsSound'
  BY <1>0, <1>3 DEF Query, Visible, TypeOK, Placed, Held, FillsSound, Coming, Committed
<1>4. ASSUME NEW p \in Procs, Put(p) PROVE FillsSound'
  BY <1>0, <1>4 DEF Put, Entry, TypeOK, Placed, Held, FillsSound, Coming, Committed
<1>5. ASSUME NEW p \in Procs, Compare(p) PROVE FillsSound'
  BY <1>0, <1>5 DEF Compare, Moved, TypeOK, Placed, Held, FillsSound, Coming, Committed
<1>6. ASSUME NEW p \in Procs, Drop(p) PROVE FillsSound'
  BY <1>0, <1>6 DEF Drop, Return, Home, Entry, TypeOK, Placed, Held, FillsSound, Coming,
                    Committed
<1>7. ASSUME NEW p \in Procs, NEW store \in BOOLEAN, Update(p, store) PROVE FillsSound'
  BY <1>0, <1>7 DEF Update, MayWrite, Clear, Writing, TypeOK, Placed, Held, FillsSound,
                    Coming, Committed
<1>8. ASSUME NEW p \in Procs, Begin(p) PROVE FillsSound'
  BY <1>0, <1>8 DEF Begin, MayWrite, Clear, Writing, TypeOK, Placed, Held, FillsSound,
                    Coming, Committed
<1>9. ASSUME NEW p \in Procs, Bump(p) PROVE FillsSound'
  BY <1>0, <1>9 DEF Bump, TypeOK, Placed, Held, FillsSound, Coming, Committed
<1>10. ASSUME NEW p \in Procs, Delete(p) PROVE FillsSound'
  BY <1>0, <1>10 DEF Delete, Entry, TypeOK, Placed, Held, FillsSound, Coming, Committed
<1>11. ASSUME NEW p \in Procs, Publish(p) PROVE FillsSound'
  BY <1>0, <1>11 DEF Publish, Home, TypeOK, Placed, Held, FillsSound, Coming, Committed
<1>12. ASSUME NEW p \in Procs, Store(p) PROVE FillsSound'
  BY <1>0, <1>12 DEF Store, Return, Home, Entry, TypeOK, Placed, Held, FillsSound, Coming,
                     Committed
<1>13. ASSUME NEW p \in Procs, Commit(p) PROVE FillsSound'
  BY <1>0, <1>13 DEF Commit, AgainAfterCommit, TypeOK, Placed, Held, FillsSound, Coming,
                     Committed
<1>14. ASSUME NEW p \in Procs, Rollback(p) PROVE FillsSound'
  BY <1>0, <1>14 DEF Rollback, TypeOK, Placed, Held, FillsSound, Coming, Committed
<1>15. ASSUME NEW n \in Nodes, Receive(n) PROVE FillsSound'
  BY <1>0, <1>15 DEF Receive, TypeOK, Placed, Held, FillsSound, Coming, Committed
<1>16. ASSUME NEW n \in Nodes, EvictLocal(n) PROVE FillsSound'
  BY <1>0, <1>16 DEF EvictLocal, Entry, TypeOK, Placed, Held, FillsSound, Coming, Committed
<1>17. ASSUME NEW n \in Nodes, Expire(n) PROVE FillsSound'
  BY <1>0, <1>17 DEF Expire, Entry, TypeOK, Placed, Held, FillsSound, Coming, Committed
<1>18. ASSUME NEW n \in Nodes, Forget(n) PROVE FillsSound'
  BY <1>0, <1>18 DEF Forget, TypeOK, Placed, Held, FillsSound, Coming, Committed
<1>19. QED
  BY <1>1, <1>2, <1>3, <1>4, <1>5, <1>6, <1>7, <1>8, <1>9, <1>10, <1>11, <1>12,
     <1>13, <1>14, <1>15, <1>16, <1>17, <1>18, StepCases

\* No other write begins while one will store its row, nor one that will store it
\* beside others.
LEMMA StoresStep ==
  ASSUME IInv, Next
  PROVE  StoresAlone'
<1> USE OneAssumption, NodeOfAssumption, NoProcAssumption, NoVersionAssumption, WritesAssumption
    DEF Versions, Steps, Filling, Evicting, dbVars, syncVars, Goto
<1>0. TypeOK /\ Placed /\ StoresAlone /\ TypeOK'
  BY TypeStep, PlacedStep, HeldStep DEF IInv
<1>1. ASSUME NEW p \in Procs, Fetch(p) PROVE StoresAlone'
  BY <1>0, <1>1 DEF Fetch, Inside, TypeOK, Placed, StoresAlone, Storing, Writing
<1>2. ASSUME NEW p \in Procs, ReadGeneration(p) PROVE StoresAlone'
  BY <1>0, <1>2 DEF ReadGeneration, TypeOK, Placed, StoresAlone, Storing, Writing
<1>3. ASSUME NEW p \in Procs, Query(p) PROVE StoresAlone'
  BY <1>0, <1>3 DEF Query, Visible, TypeOK, Placed, StoresAlone, Storing, Writing
<1>4. ASSUME NEW p \in Procs, Put(p) PROVE StoresAlone'
  BY <1>0, <1>4 DEF Put, Entry, TypeOK, Placed, StoresAlone, Storing, Writing
<1>5. ASSUME NEW p \in Procs, Compare(p) PROVE StoresAlone'
  BY <1>0, <1>5 DEF Compare, Moved, TypeOK, Placed, StoresAlone, Storing, Writing
<1>6. ASSUME NEW p \in Procs, Drop(p) PROVE StoresAlone'
  BY <1>0, <1>6 DEF Drop, Return, Home, Entry, TypeOK, Placed, StoresAlone, Storing, Writing
<1>7. ASSUME NEW p \in Procs, NEW store \in BOOLEAN, Update(p, store) PROVE StoresAlone'
  BY <1>0, <1>7 DEF Update, MayWrite, Clear, TypeOK, Placed, StoresAlone, Storing, Writing
<1>8. ASSUME NEW p \in Procs, Begin(p) PROVE StoresAlone'
  BY <1>0, <1>8 DEF Begin, MayWrite, Clear, TypeOK, Placed, StoresAlone, Storing, Writing
<1>9. ASSUME NEW p \in Procs, Bump(p) PROVE StoresAlone'
  BY <1>0, <1>9 DEF Bump, TypeOK, Placed, StoresAlone, Storing, Writing
<1>10. ASSUME NEW p \in Procs, Delete(p) PROVE StoresAlone'
  BY <1>0, <1>10 DEF Delete, Entry, TypeOK, Placed, StoresAlone, Storing, Writing
<1>11. ASSUME NEW p \in Procs, Publish(p) PROVE StoresAlone'
  BY <1>0, <1>11 DEF Publish, Home, TypeOK, Placed, StoresAlone, Storing, Writing
<1>12. ASSUME NEW p \in Procs, Store(p) PROVE StoresAlone'
  BY <1>0, <1>12 DEF Store, Return, Home, Entry, TypeOK, Placed, StoresAlone, Storing,
                     Writing
<1>13. ASSUME NEW p \in Procs, Commit(p) PROVE StoresAlone'
  BY <1>0, <1>13 DEF Commit, AgainAfterCommit, TypeOK, Placed, StoresAlone, Storing, Writing
<1>14. ASSUME NEW p \in Procs, Rollback(p) PROVE StoresAlone'
  BY <1>0, <1>14 DEF Rollback, TypeOK, Placed, StoresAlone, Storing, Writing
<1>15. ASSUME NEW n \in Nodes, Receive(n) PROVE StoresAlone'
  BY <1>0, <1>15 DEF Receive, TypeOK, Placed, StoresAlone, Storing, Writing
<1>16. ASSUME NEW n \in Nodes, EvictLocal(n) PROVE StoresAlone'
  BY <1>0, <1>16 DEF EvictLocal, Entry, TypeOK, Placed, StoresAlone, Storing, Writing
<1>17. ASSUME NEW n \in Nodes, Expire(n) PROVE StoresAlone'
  BY <1>0, <1>17 DEF Expire, Entry, TypeOK, Placed, StoresAlone, Storing, Writing
<1>18. ASSUME NEW n \in Nodes, Forget(n) PROVE StoresAlone'
  BY <1>0, <1>18 DEF Forget, TypeOK, Placed, StoresAlone, Storing, Writing
<1>19. QED
  BY <1>1, <1>2, <1>3, <1>4, <1>5, <1>6, <1>7, <1>8, <1>9, <1>10, <1>11, <1>12,
     <1>13, <1>14, <1>15, <1>16, <1>17, <1>18, StepCases

-----------------------------------------------------------------------------
\* A stale entry stays doomed until it is gone.
LEMMA DoomedStep ==
  ASSUME OneAtATime, IInv, StaleDoomed, Next
  PROVE  StaleDoomed'
<1> USE NodeOfAssumption, NoProcAssumption, NoVersionAssumption, WritesAssumption
    DEF Versions, Steps, Filling, Evicting, dbVars, syncVars, Goto
<1>0. TypeOK /\ Placed /\ Held /\ FillsSound /\ StoresAlone /\ TypeOK'
  BY TypeStep, PlacedStep, HeldStep DEF IInv
<1>1. ASSUME NEW p \in Procs, Fetch(p) PROVE StaleDoomed'
  BY <1>0, <1>1 DEF Fetch, Inside, TypeOK, Stale, StaleDoomed, Doomed, Coming, Committed
<1>2. ASSUME NEW p \in Procs, ReadGeneration(p) PROVE StaleDoomed'
  BY <1>0, <1>2 DEF ReadGeneration, TypeOK, Stale, StaleDoomed, Doomed, Coming, Committed
<1>3. ASSUME NEW p \in Procs, Query(p) PROVE StaleDoomed'
  BY <1>0, <1>3 DEF Query, Visible, TypeOK, Stale, StaleDoomed, Doomed, Coming, Committed
<1>4. ASSUME NEW p \in Procs, Put(p) PROVE StaleDoomed'
  BY <1>0, <1>4 DEF Put, Entry, FillsSound, TypeOK, Stale, StaleDoomed, Doomed, Coming,
                    Committed
<1>5. ASSUME NEW p \in Procs, Compare(p) PROVE StaleDoomed'
  BY <1>0, <1>5 DEF Compare, Moved, TypeOK, Stale, StaleDoomed, Doomed, Coming, Committed
<1>6. ASSUME NEW p \in Procs, Drop(p) PROVE StaleDoomed'
  BY <1>0, <1>6 DEF Drop, Return, Home, Entry, TypeOK, Stale, StaleDoomed, Doomed, Coming,
                    Committed
<1>7. ASSUME NEW p \in Procs, NEW store \in BOOLEAN, Update(p, store) PROVE StaleDoomed'
  BY <1>0, <1>7 DEF Update, MayWrite, Clear, Writing, TypeOK, Stale, StaleDoomed, Doomed,
                    Coming, Committed
<1>8. ASSUME NEW p \in Procs, Begin(p) PROVE StaleDoomed'
  BY <1>0, <1>8 DEF Begin, MayWrite, Clear, Writing, TypeOK, Stale, StaleDoomed, Doomed,
                    Coming, Committed
<1>9. ASSUME NEW p \in Procs, Bump(p) PROVE StaleDoomed'
  BY <1>0, <1>9 DEF Bump, Held, TypeOK, Stale, StaleDoomed, Doomed, Coming, Committed
<1>10. ASSUME NEW p \in Procs, Delete(p) PROVE StaleDoomed'
  BY <1>0, <1>10 DEF Delete, Entry, TypeOK, Stale, StaleDoomed, Doomed, Coming, Committed
<1>11. ASSUME NEW p \in Procs, Publish(p) PROVE StaleDoomed'
  BY <1>0, <1>11 DEF Publish, Home, TypeOK, Stale, StaleDoomed, Doomed, Coming, Committed
<1>12. ASSUME NEW p \in Procs, Store(p) PROVE StaleDoomed'
  BY <1>0, <1>12 DEF Store, Return, Home, Entry, StoresAlone, Storing, Placed, TypeOK,
                     Stale, StaleDoomed, Doomed, Coming, Committed
<1>13. ASSUME NEW p \in Procs, Commit(p) PROVE StaleDoomed'
  BY <1>0, <1>13 DEF Commit, AgainAfterCommit, TypeOK, Stale, StaleDoomed, Doomed, Coming,
                     Committed
<1>14. ASSUME NEW p \in Procs, Rollback(p) PROVE StaleDoomed'
  BY <1>0, <1>14 DEF Rollback, TypeOK, Stale, StaleDoomed, Doomed, Coming, Committed
<1>15. ASSUME NEW n \in Nodes, Receive(n) PROVE StaleDoomed'
  BY <1>0, <1>15 DEF Receive, TypeOK, Stale, StaleDoomed, Doomed, Coming, Committed
<1>16. ASSUME NEW n \in Nodes, EvictLocal(n) PROVE StaleDoomed'
  BY <1>0, <1>16 DEF EvictLocal, Entry, TypeOK, Stale, StaleDoomed, Doomed, Coming,
                     Committed
<1>17. ASSUME NEW n \in Nodes, Expire(n) PROVE StaleDoomed'
  BY <1>0, <1>17 DEF Expire, Entry, TypeOK, Stale, StaleDoomed, Doomed, Coming, Committed
<1>18. ASSUME NEW n \in Nodes, Forget(n) PROVE StaleDoomed'
  BY <1>0, <1>18 DEF Forget, TypeOK, Stale, StaleDoomed, Doomed, Coming, Committed
<1>19. QED
  BY <1>1, <1>2, <1>3, <1>4, <1>5, <1>6, <1>7, <1>8, <1>9, <1>10, <1>11, <1>12,
     <1>13, <1>14, <1>15, <1>16, <1>17, <1>18, StepCases

-----------------------------------------------------------------------------
LEMMA IInvStutter == IInv /\ UNCHANGED vars => IInv'
BY DEF vars, IInv, TypeOK, Counted, Placed, Held, FillsSound, StoresAlone, Storing, Writing,
       Coming, Committed

LEMMA DoomedStutter == StaleDoomed /\ UNCHANGED vars => StaleDoomed'
BY DEF vars, Coming, Committed, Stale, StaleDoomed, Doomed

LEMMA IInvStep == IInv /\ [Next]_vars => IInv'
BY IInvStutter, TypeStep, PlacedStep, HeldStep, FillsStep, StoresStep DEF IInv

\* The state keeps its type.
THEOREM TypeCorrect == Spec => []TypeOK
<1>1. IInv => TypeOK
  BY DEF IInv
<1>2. QED
  BY InitIInv, IInvStep, <1>1, PTL DEF Spec

\* With no write beside one that stores its row, no node keeps a stale entry: it is
\* about to be deleted, whatever fills, writes and broadcasts overlap.
THEOREM StaleDoomedHolds == ASSUME OneAtATime PROVE Spec => []StaleDoomed
<1>1. Init => StaleDoomed
  BY DEF Init, StaleDoomed, Stale
<1>2. IInv /\ StaleDoomed /\ [Next]_vars => StaleDoomed'
  BY DoomedStep, DoomedStutter
<1>3. QED
  BY InitIInv, IInvStep, <1>1, <1>2, PTL DEF Spec
=============================================================================
