------------------------------ MODULE Serialize ------------------------------
(***************************************************************************)
(* Gamend.Lock, Gamend.AfterCommit and Gamend.Lock.Local.in_turn/2: how a  *)
(* process takes the lock of a key and a transaction, in which order, what *)
(* it leaves out when it is already inside one, and when the effects it    *)
(* deferred run.  One module for both databases:                           *)
(*                                                                         *)
(*   SQLite    one node, one writer; the node's mutex is the lock;         *)
(*   Postgres  several nodes, a pool of connections on each; the advisory  *)
(*             lock is the lock, the node's mutex only spares the pool.    *)
(*                                                                         *)
(* A process is a stack of calls, innermost last.  The mutexes are the     *)
(* lines of LockQueue, seen as Mutex sees them.                            *)
(***************************************************************************)
EXTENDS Integers, Sequences, SequencesExt, FiniteSets

CONSTANTS
  Procs, Nodes, Keys,
  Places,       \* the ways to put the processes on the nodes
  Postgres,     \* which of the two databases
  PoolSize,     \* connections of a node
  Ops,          \* the calls made, out of AllOps
  Nests,        \* <<k, l>>: l may be asked for while inside k
  NoKey,        \* of a call that locks nothing
  MaxDepth,     \* bound: how deep calls nest
  MaxTx,        \* bound: how many transactions are ever opened
  MaxQueue,     \* bound: how many effects a scope defers
  Crashes       \* whether a process may die or raise

AllOps == {"serialize", "exclusive", "transaction", "turn"}

ASSUME PlacesAssumption   == Places \subseteq [Procs -> Nodes]
ASSUME DatabaseAssumption == Postgres \in BOOLEAN /\ (~Postgres => Cardinality(Nodes) = 1)
ASSUME PoolAssumption     == PoolSize \in Nat \ {0}
ASSUME OpsAssumption      == Ops \subseteq AllOps
ASSUME NestsAssumption    == Nests \subseteq Keys \X Keys
ASSUME NoKeyAssumption    == NoKey \notin Keys
ASSUME BoundsAssumption   == MaxDepth \in Nat /\ MaxTx \in Nat /\ MaxQueue \in Nat
ASSUME CrashesAssumption  == Crashes \in BOOLEAN

VARIABLES
  node,         \* the node of each process, where it started
  stack,        \* the calls each process is inside of
  todo,         \* what the innermost one has still to take
  closing,      \* whether it has returned, and what
  held,         \* the advisory locks of each process's transaction
  queue,        \* the effects its scope has deferred, by transaction
  tx,           \* its transaction, 0 when it is in none
  fate,         \* what became of each transaction
  ran           \* the transactions of the effects that ran; 0 for none

vars == <<node, stack, todo, closing, held, queue, tx, fate, ran>>

Tx == 1..MaxTx
Parts == {"scope", "mutex", "connection", "session", "transaction"}
Steps == (Parts \ {"scope"}) \cup {"advisory"}
Frames == [op : AllOps \cup {"after"}, key : Keys \cup {NoKey}, has : SUBSET Parts,
           effects : Seq(Tx)]

TypeOK ==
  /\ node \in Places
  /\ stack \in [Procs -> Seq(Frames)]
  /\ \A p \in Procs : Len(stack[p]) <= MaxDepth
  /\ todo \in [Procs -> Seq(Steps)]
  /\ closing \in [Procs -> {"no", "ok", "error"}]
  /\ held \in [Procs -> SUBSET Keys]
  /\ queue \in [Procs -> Seq(Tx)]
  /\ tx \in [Procs -> 0..MaxTx]
  /\ fate \in [Tx -> {"unused", "open", "doomed", "committed", "rolled back"}]
  /\ ran \subseteq 0..MaxTx

Init ==
  /\ node \in Places
  /\ stack = [p \in Procs |-> <<>>]
  /\ todo = [p \in Procs |-> <<>>]
  /\ closing = [p \in Procs |-> "no"]
  /\ held = [p \in Procs |-> {}]
  /\ queue = [p \in Procs |-> <<>>]
  /\ tx = [p \in Procs |-> 0]
  /\ fate = [t \in Tx |-> "unused"]
  /\ ran = {}

-----------------------------------------------------------------------------
\* What a process holds.

Top(p) == Last(stack[p])
Calls(p) == Range(stack[p])
Has(p, part, k) == \E f \in Calls(p) : part \in f.has /\ f.key = k
InTx(p) == tx[p] # 0
InScope(p) == \E f \in Calls(p) : "scope" \in f.has

\* Program code runs: nothing is being taken or given back.
Running(p) == stack[p] # <<>> /\ todo[p] = <<>> /\ closing[p] = "no"

\* A checked-out connection serves the transactions inside it.
Connected(p) == InTx(p) \/ \E f \in Calls(p) : "connection" \in f.has
OwnLocksOnly(p, k) == k \in held[p]                      \* a mutant
Locks(p, k) == k \in held[p] \/ Has(p, "session", k)

\* Whom p has to wait for to take its next step.
Needs(p) == IF todo[p] = <<>> THEN "nothing" ELSE Head(todo[p])
Others(p) == Procs \ {p}
OnNode(p) == {q \in Others(p) : node[q] = node[p]}
DeferredTransactions(p) ==                              \* a mutant
  IF Needs(p) = "mutex" /\ ~Has(p, "mutex", Top(p).key)
  THEN {q \in OnNode(p) : Has(q, "mutex", Top(p).key)} ELSE {}
Blockers(p) ==
  CASE Needs(p) = "mutex" /\ ~Has(p, "mutex", Top(p).key) ->
         {q \in OnNode(p) : Has(q, "mutex", Top(p).key)}
    [] Needs(p) \in {"advisory", "session"} -> {q \in Others(p) : Locks(q, Top(p).key)}
    [] Needs(p) = "transaction" /\ ~Postgres -> {q \in Others(p) : InTx(q)}
    [] Needs(p) \in {"transaction", "connection"} /\ Postgres /\ ~Connected(p) ->
         LET users == {q \in OnNode(p) : Connected(q)}
         IN  IF Cardinality(users) < PoolSize THEN {} ELSE users
    [] OTHER -> {}

-----------------------------------------------------------------------------
\* Calling in.

\* What a call takes, in order: serialize/3, exclusive/3, AfterCommit's
\* transaction and in_turn/2.  Inside a transaction no call takes a mutex.
SerializePlan(inTx) ==
  IF Postgres THEN (IF inTx THEN <<"advisory">> ELSE <<"mutex", "transaction", "advisory">>)
  ELSE IF inTx THEN <<>> ELSE <<"mutex", "transaction">>
AlwaysQueues(op, inTx) ==                               \* a mutant
  IF inTx THEN (IF op = "serialize" THEN <<"mutex">> ELSE <<>>)
  ELSE IF op = "transaction" THEN <<"transaction">> ELSE <<"mutex", "transaction">>
NoQueueOnPostgres(op, inTx) ==                          \* a mutant
  IF inTx THEN <<"advisory">> ELSE <<"transaction", "advisory">>
Plan(op, inTx) ==
  CASE op = "serialize" -> SerializePlan(inTx)
    [] op = "exclusive" -> IF inTx THEN SerializePlan(inTx)
                           ELSE IF Postgres THEN <<"mutex", "connection", "session">>
                           ELSE <<"mutex">>
    [] op = "transaction" -> IF inTx THEN <<>> ELSE <<"transaction">>
    [] op = "turn" -> IF inTx THEN <<>> ELSE <<"mutex">>

\* collect/1: the outermost call that opens a transaction is the scope.
EveryCallIsAScope(p, op) == op \in {"serialize", "transaction"}  \* a mutant
NewScope(p, op) == op \in {"serialize", "transaction"} /\ ~InScope(p) /\ ~InTx(p)

Unused == {t \in Tx : fate[t] = "unused"}
\* Transactions still to come out of the bound.
Promised == {q \in Procs : "transaction" \in Range(todo[q])}

Call(p, op, k) ==
  /\ stack[p] = <<>> \/ Running(p)
  /\ Len(stack[p]) < MaxDepth
  /\ (op = "transaction") = (k = NoKey)
  /\ \A f \in Calls(p) : f.key \in Keys /\ k \in Keys => f.key = k \/ <<f.key, k>> \in Nests
  /\ Cardinality(Unused) > Cardinality(Promised)
  /\ stack' = [stack EXCEPT ![p] =
       Append(@, [op |-> op, key |-> k, effects |-> <<>>,
                  has |-> IF NewScope(p, op) THEN {"scope"} ELSE {}])]
  /\ todo' = [todo EXCEPT ![p] = Plan(op, InTx(p))]
  /\ queue' = [queue EXCEPT ![p] = IF NewScope(p, op) THEN <<>> ELSE @]
  /\ UNCHANGED <<closing, held, tx, fate, ran>>

WithPart(p, part) == [stack EXCEPT ![p][Len(stack[p])].has = @ \cup {part}]

\* The next thing is taken, once nobody is in the way.  A mutex held already is
\* not taken again; a transaction-scoped advisory lock is the transaction's, and
\* not the call's.
Take(p) ==
  /\ todo[p] # <<>> /\ Blockers(p) = {}
  /\ todo' = [todo EXCEPT ![p] = Tail(@)]
  /\ \/ /\ Needs(p) = "mutex"
        /\ stack' = IF Has(p, "mutex", Top(p).key) THEN stack ELSE WithPart(p, "mutex")
        /\ UNCHANGED <<held, tx, fate>>
     \/ /\ Needs(p) \in {"connection", "session"}
        /\ stack' = WithPart(p, Needs(p))
        /\ UNCHANGED <<held, tx, fate>>
     \/ /\ Needs(p) = "advisory"
        /\ held' = [held EXCEPT ![p] = @ \cup {Top(p).key}]
        /\ UNCHANGED <<stack, tx, fate>>
     \/ /\ Needs(p) = "transaction"
        /\ \E t \in Unused : /\ \A other \in Unused : t <= other
                             /\ tx' = [tx EXCEPT ![p] = t]
                             /\ fate' = [fate EXCEPT ![t] = "open"]
        /\ stack' = WithPart(p, "transaction")
        /\ UNCHANGED held
  /\ UNCHANGED <<closing, queue, ran>>

\* The database finds processes waiting for one another and gives up on one;
\* maybe_advisory_lock/2 logs it and goes on without the lock.
InCycle(p) ==
  \E S \in SUBSET Procs : p \in S /\ \A q \in S : /\ Needs(q) = "advisory"
                                                  /\ Blockers(q) \cap S # {}
GoOnUnlocked(p) ==
  /\ Postgres /\ InCycle(p)
  /\ todo' = [todo EXCEPT ![p] = Tail(@)]
  /\ UNCHANGED <<stack, closing, held, queue, tx, fate, ran>>

-----------------------------------------------------------------------------
\* Inside, and out again.

\* defer/1: into the scope, or at once when there is none.
Defer(p) ==
  /\ Running(p) /\ Len(queue[p]) < MaxQueue
  /\ IF InScope(p)
     THEN queue' = [queue EXCEPT ![p] = Append(@, tx[p])] /\ UNCHANGED ran
     ELSE ran' = ran \cup {tx[p]} /\ UNCHANGED queue
  /\ UNCHANGED <<stack, todo, closing, held, tx, fate>>

\* A call returns.  The one that opened the transaction commits it or rolls it
\* back, and with it go its locks and its connection; an error of one inside
\* dooms the transaction.
CanCommit(p) == fate[tx[p]] = "open"
SessionLock(p) == held[p]                               \* a mutant
KeptAfter(p) == {}
Return(p, ok) ==
  /\ Running(p) /\ Top(p).op # "after"
  /\ LET owner == "transaction" \in Top(p).has
         good == ok /\ (owner => CanCommit(p))
         inner == InTx(p) /\ ~owner /\ Top(p).op # "turn"
     IN  /\ closing' = [closing EXCEPT ![p] = IF good THEN "ok" ELSE "error"]
         /\ fate' = IF owner THEN [fate EXCEPT ![tx[p]] = IF good THEN "committed" ELSE "rolled back"]
                    ELSE IF inner /\ ~ok THEN [fate EXCEPT ![tx[p]] = "doomed"]
                    ELSE fate
         /\ tx' = IF owner THEN [tx EXCEPT ![p] = 0] ELSE tx
         /\ held' = IF owner THEN [held EXCEPT ![p] = KeptAfter(p)] ELSE held
         /\ stack' = [stack EXCEPT ![p][Len(stack[p])].has = @ \ {"transaction"}]
  /\ UNCHANGED <<todo, queue, ran>>

\* The mutex, the session lock and the connection are given back, and then the
\* effects of a scope that committed are run; of another they are dropped.
AfterFrame(p) == [op |-> "after", key |-> NoKey, has |-> {}, effects |-> queue[p]]
EffectsLost(p) == [AfterFrame(p) EXCEPT !.effects = <<>>]  \* a mutant
Effects(p) == AfterFrame(p)
Unlock(p) ==
  /\ closing[p] # "no"
  /\ closing' = [closing EXCEPT ![p] = "no"]
  /\ IF "scope" \in Top(p).has
     THEN /\ stack' = [stack EXCEPT ![p] =
                         IF closing[p] = "ok" THEN Append(Front(@), Effects(p)) ELSE Front(@)]
          /\ queue' = [queue EXCEPT ![p] = <<>>]
     ELSE stack' = [stack EXCEPT ![p] = Front(@)] /\ UNCHANGED queue
  /\ UNCHANGED <<todo, held, tx, fate, ran>>

\* The effects in order; each may call in again.
RunEffect(p) ==
  /\ Running(p) /\ Top(p).op = "after"
  /\ IF Top(p).effects = <<>>
     THEN stack' = [stack EXCEPT ![p] = Front(@)] /\ UNCHANGED ran
     ELSE /\ stack' = [stack EXCEPT ![p][Len(stack[p])].effects = Tail(@)]
          /\ ran' = ran \cup {Head(Top(p).effects)}
  /\ UNCHANGED <<todo, closing, held, queue, tx, fate>>

\* An exception, a timeout of the database, or the death of the process: every
\* call is left, the transaction is rolled back, the effects are dropped.
Abort(p) ==
  /\ Crashes /\ stack[p] # <<>>
  /\ stack' = [stack EXCEPT ![p] = <<>>]
  /\ todo' = [todo EXCEPT ![p] = <<>>]
  /\ closing' = [closing EXCEPT ![p] = "no"]
  /\ held' = [held EXCEPT ![p] = {}]
  /\ queue' = [queue EXCEPT ![p] = <<>>]
  /\ tx' = [tx EXCEPT ![p] = 0]
  /\ fate' = IF InTx(p) THEN [fate EXCEPT ![tx[p]] = "rolled back"] ELSE fate
  /\ UNCHANGED ran

Leave(p) == (\E ok \in BOOLEAN : Return(p, ok)) \/ Unlock(p) \/ RunEffect(p)

Next == UNCHANGED node /\ \E p \in Procs :
  \/ \E op \in Ops, k \in Keys \cup {NoKey} : Call(p, op, k)
  \/ Take(p) \/ GoOnUnlocked(p) \/ Defer(p) \/ Leave(p) \/ Abort(p)

Spec == Init /\ [][Next]_vars

\* The code of every section ends, however often it calls in meanwhile; who is
\* first in a line gets in (LockQueue), and so does who waits for the database
\* while it is free again and again.
FairSpec ==
  /\ Spec
  /\ \A p \in Procs : /\ SF_vars(Take(p) /\ UNCHANGED node)
                       /\ \A d \in 1..MaxDepth : SF_vars(Len(stack[p]) = d /\ Leave(p) /\ UNCHANGED node)

-----------------------------------------------------------------------------
\* Properties.

\* The sections of key k a process runs in, by the calls that open them.
Inside(p, k, ops) ==
  \E i \in 1..Len(stack[p]) : /\ stack[p][i].key = k /\ stack[p][i].op \in ops
                              /\ i < Len(stack[p]) \/ Running(p)

\* One process at a time is in a serialized section of a key, on any node, nested
\* in a transaction or not (lock.ex:92-95, 136-140).
SerializedAlone ==
  \A p, q \in Procs, k \in Keys : p # q =>
    ~(Inside(p, k, {"serialize"}) /\ Inside(q, k, {"serialize"}))

\* On Postgres the lock of a job that commits as it goes is the same lock: no
\* section of a key runs beside another, nested or not (lock.ex:169-173).
OneHolder ==
  \A p, q \in Procs, k \in Keys : p # q =>
    ~(Inside(p, k, {"serialize", "exclusive"}) /\ Inside(q, k, {"serialize", "exclusive"}))

\* Nobody waits for one another in a circle of mutexes, transactions, advisory
\* locks and connections, but for circles of advisory locks alone, which the
\* database breaks (lock.ex:124-140).
Deadlocked(S) == \A p \in S : Blockers(p) # {} /\ Blockers(p) \subseteq S /\ ~InCycle(p)
NoDeadlock == \A S \in SUBSET Procs : S # {} => ~Deadlocked(S)

\* A process that checked out a connection to wait for the lock of a key waits
\* for no other of its node that did the same: those line up at the mutex first,
\* and only sections nested in a transaction are waited for with a connection in
\* hand (lock.ex:124-131).
Outermost(f) == f.has \cap {"transaction", "connection"} # {}
PoolSpared ==
  \A p \in Procs : (Needs(p) \in {"advisory", "session"} /\ Outermost(Top(p))) =>
    \A q \in Blockers(p) \cap OnNode(p) :
      ~\E f \in Calls(q) : f.key = Top(p).key /\ Outermost(f)

\* No effect runs before its transaction has committed, and none of one that was
\* rolled back, by whichever call; while effects run the process is in no
\* transaction, and holds nothing but what it had taken outside the scope: they may
\* call back in (after_commit.ex:47-65).
Unlocked(p) ==
  /\ ~InTx(p) /\ held[p] = {}
  /\ \A f \in Calls(p) : f.has # {} => f.op \in {"exclusive", "turn"}
EffectsFollowCommit ==
  /\ \A t \in ran : t # 0 => fate[t] = "committed"
  /\ \A p \in Procs : (Running(p) /\ Top(p).op = "after") => Unlocked(p)

\* What a process deferred in a transaction that commits stays due until it has run,
\* through every return, unless the process dies with it (after_commit.ex:84-116).
Due(p, t) == t \in Range(queue[p]) \/ \E f \in Calls(p) : t \in Range(f.effects)
EffectsKept ==
  [][\A p \in Procs, t \in Tx :
       (Due(p, t) /\ fate[t]' = "committed" /\ ~Abort(p)) => Due(p, t)' \/ t \in ran']_vars

\* Every call gets what it takes, or its process dies.
CallsGetIn == \A p \in Procs : todo[p] # <<>> ~> todo[p] = <<>>
=============================================================================
