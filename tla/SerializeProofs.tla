--------------------------- MODULE SerializeProofs ---------------------------
(***************************************************************************)
(* Theorems of Serialize, for any number of processes, nodes, keys and     *)
(* connections, and calls nested to any depth.  The argument: a stack has  *)
(* one scope, the outermost call that opens a transaction, which owns the  *)
(* transaction while it runs and is the innermost call before and after    *)
(* (Nested, Staged); a connection taken for a key is taken under the mutex *)
(* of that key on its node (MutexFirst); what is deferred is of the        *)
(* process's own transaction, until the scope has closed it (Queued); and  *)
(* on Postgres a section has its session's lock or its transaction's       *)
(* (LocksKept), unless the database refused it.  On SQLite a stack climbs  *)
(* the order in which keys nest, and there is nothing to take in a         *)
(* transaction (CircleInv), so nobody waits in a circle.                   *)
(***************************************************************************)
EXTENDS Serialize, SequenceTheorems, TLAPS

\* The calls that open a transaction, or run in the one that is open.
Opens == {"serialize", "transaction"}
Jobs == {"serialize", "exclusive"}
HasScope(f) == "scope" \in f.has
HasTx(f) == "transaction" \in f.has

\* What may still have to be taken, by what it leads to.
ToOpen == {<<"mutex", "transaction", "advisory">>, <<"transaction", "advisory">>,
           <<"mutex", "transaction">>, <<"transaction">>}
ToHold == {<<"mutex", "connection", "session">>, <<"connection", "session">>, <<"session">>}
Todos == ToOpen \cup ToHold \cup {<<>>, <<"mutex">>, <<"advisory">>}

\* There is one scope, the outermost of the calls that open a transaction; only
\* it owns one, and effects run outside it.
Nested(S) ==
  \A i \in 1..Len(S) :
    /\ HasTx(S[i]) => HasScope(S[i])
    /\ HasScope(S[i]) => S[i].op \in Opens /\ \A j \in 1..(i-1) : S[j].op \notin Opens
    /\ S[i].op \in Opens => HasScope(S[i]) \/ \E j \in 1..(i-1) : HasScope(S[j])
    /\ S[i].op = "after" => S[i].has = {} /\ \A j \in 1..(i-1) : ~HasScope(S[j])
    /\ S[i].op # "after" => S[i].effects = <<>>

\* What is still to take, what has returned, and the transaction fit the calls: a
\* scope without one is the innermost call, and opens it or has closed it.
Staged(S, td, cl, t) ==
  /\ td \in Todos
  /\ td # <<>> => S # <<>> /\ cl = "no" /\ S[Len(S)].op # "after"
  /\ td \notin {<<>>, <<"transaction">>} => S[Len(S)].key \in Keys
  /\ cl # "no" => S # <<>> /\ S[Len(S)].op # "after" /\ ~HasTx(S[Len(S)])
  /\ td \in ToOpen => HasScope(S[Len(S)]) /\ t = 0
  /\ td = <<"advisory">> => t # 0
  /\ td \in ToHold => S[Len(S)].op = "exclusive"
  /\ t # 0 <=> \E i \in 1..Len(S) : HasTx(S[i])
  /\ \A i \in 1..Len(S) :
       HasScope(S[i]) => HasTx(S[i]) \/ (i = Len(S) /\ (cl # "no" \/ td \in ToOpen))

\* A transaction or a connection of a key is taken under the mutex of the key.
UnderMutex == {<<"transaction", "advisory">>, <<"transaction">>, <<"connection", "session">>, <<"session">>}
MutexFirst(S, td) ==
  /\ \A i \in 1..Len(S) : Outermost(S[i]) /\ S[i].key \in Keys =>
       \E j \in 1..i : "mutex" \in S[j].has /\ S[j].key = S[i].key
  /\ td \in UnderMutex /\ S[Len(S)].key \in Keys =>
       \E j \in 1..Len(S) : "mutex" \in S[j].has /\ S[j].key = S[Len(S)].key

\* What is deferred waits for the transaction of the process, or for the scope that
\* has closed it; what waits in the frame of the effects is of committed ones.
Queued(S, cl, qu, t, ft) ==
  \A i \in 1..Len(qu) :
    \/ t # 0 /\ qu[i] = t
    \/ /\ t = 0 /\ S # <<>> /\ HasScope(S[Len(S)])
       /\ \/ cl = "ok" /\ ft[qu[i]] = "committed"
          \/ cl = "error" /\ ft[qu[i]] = "rolled back"
Committed(f, ft) == \A j \in 1..Len(f.effects) : ft[f.effects[j]] = "committed"
DueCommitted(S, ft) == \A i \in 1..Len(S) : Committed(S[i], ft)

\* A section entered on Postgres has its lock: its session's, or its transaction's.
LocksKept(S, td, cl, h) ==
  /\ \A i \in 1..Len(S) :
       /\ S[i].op \in Jobs =>
            \/ "session" \in S[i].has \/ S[i].key \in h
            \/ i = Len(S) /\ (cl # "no" \/ td # <<>>)
       /\ S[i].op = "exclusive" =>
            \/ "session" \in S[i].has \/ \E j \in 1..(i-1) : HasScope(S[j])
            \/ i = Len(S) /\ td \in ToHold
  /\ td \in {<<"mutex">>, <<"transaction">>, <<"mutex", "transaction">>} => S[Len(S)].op \notin Jobs

\* One process at a time has the mutex of a key on a node, and the writer of SQLite.
MutexesHeld ==
  \A p, q \in Procs, k \in Keys :
    node[p] = node[q] /\ Has(p, "mutex", k) /\ Has(q, "mutex", k) => p = q
OneWriter == ~Postgres => \A p, q \in Procs : InTx(p) /\ InTx(q) => p = q
OneLocker == \A p, q \in Procs, k \in Keys : Locks(p, k) /\ Locks(q, k) => p = q

\* A transaction is of one process, and undecided.
TxSound ==
  /\ \A p \in Procs : InTx(p) => fate[tx[p]] \in {"open", "doomed"}
  /\ \A p, q \in Procs : InTx(p) /\ tx[p] = tx[q] => p = q

LocksOfTx == \A p \in Procs : held[p] # {} => InTx(p)
StacksSound == \A p \in Procs : Nested(stack[p]) /\ Staged(stack[p], todo[p], closing[p], tx[p])
MutexesFirst == \A p \in Procs : MutexFirst(stack[p], todo[p])
QueuesSound ==
  /\ \A p \in Procs : /\ Queued(stack[p], closing[p], queue[p], tx[p], fate)
                     /\ DueCommitted(stack[p], fate)
  /\ \A t \in ran : t # 0 => fate[t] = "committed"
LocksSound == Postgres => \A p \in Procs : LocksKept(stack[p], todo[p], closing[p], held[p])

IInv == /\ TypeOK /\ StacksSound /\ MutexesFirst /\ MutexesHeld /\ OneWriter /\ OneLocker
        /\ TxSound /\ LocksOfTx /\ QueuesSound

-----------------------------------------------------------------------------
\* Stacks.  A call goes on top, the top is changed, the top is left.
LEMMA Pushed ==
  ASSUME NEW S \in Seq(Frames), NEW f \in Frames
  PROVE  /\ Append(S, f) \in Seq(Frames)
         /\ Len(Append(S, f)) = Len(S) + 1
         /\ Append(S, f)[Len(S) + 1] = f
         /\ \A i \in 1..Len(S) : Append(S, f)[i] = S[i]
BY SMT

LEMMA TopSet ==
  ASSUME NEW S \in Seq(Frames), S # <<>>, NEW f \in Frames
  PROVE  /\ [S EXCEPT ![Len(S)] = f] \in Seq(Frames)
         /\ Len([S EXCEPT ![Len(S)] = f]) = Len(S)
         /\ [S EXCEPT ![Len(S)] = f][Len(S)] = f
         /\ \A i \in 1..(Len(S) - 1) : [S EXCEPT ![Len(S)] = f][i] = S[i]
BY SMT

LEMMA Popped ==
  ASSUME NEW S \in Seq(Frames), S # <<>>
  PROVE  /\ Front(S) \in Seq(Frames)
         /\ Len(Front(S)) = Len(S) - 1
         /\ Len(S) \in Nat \ {0}
         /\ S[Len(S)] \in Frames
         /\ \A i \in 1..(Len(S) - 1) : Front(S)[i] = S[i]
<1>1. Len(S) \in Nat \ {0} /\ S[Len(S)] \in Frames
  BY EmptySeq, SMT
<1>2. 1 \in Int /\ Len(S) - 1 \in Int /\ \A i \in 1..(Len(S) - 1) : S[i] \in Frames
  BY <1>1, SMT
<1>3. /\ SubSeq(S, 1, Len(S) - 1) \in Seq(Frames)
      /\ Len(SubSeq(S, 1, Len(S) - 1)) = Len(S) - 1
      /\ \A i \in 1..(Len(S) - 1) : SubSeq(S, 1, Len(S) - 1)[i] = S[i]
  <2>. DEFINE n == Len(S) - 1  T == SubSeq(S, 1, n)
  <2>1. /\ T \in Seq(Frames)
        /\ Len(T) = IF 1 <= n THEN n - 1 + 1 ELSE 0
        /\ \A i \in 1..(n - 1 + 1) : T[i] = S[1 + i - 1]
    BY <1>1, <1>2, SubSeqProperties, SMT
  <2>. HIDE DEF T
  <2>2. \A i \in 1..n : 1 + i - 1 = i
    BY <1>1, SMT
  <2>3. n - 1 + 1 = n /\ n >= 0
    BY <1>1, SMT
  <2>4. n \in Nat
    BY <1>1, SMT
  <2>. HIDE DEF n
  <2>5. Len(T) = n
    BY <2>1, <2>3, <2>4, SMT
  <2>6. ASSUME NEW i \in 1..n PROVE T[i] = S[i]
    BY <2>1, <2>3, <2>2, <2>4, SMT
  <2> QED  BY <2>1, <2>5, <2>6 DEF T, n
<1> QED  BY <1>1, <1>3 DEF Front

\* The next thing of what is to take, and the rest.
LEMMA TodoSteps ==
  ASSUME NEW td \in Todos, td # <<>>
  PROVE  /\ Tail(td) \in Todos
         /\ Head(td) \in {"mutex", "connection", "session", "transaction", "advisory"}
         /\ Head(td) = "mutex" =>
              /\ Tail(td) \in ToOpen => td \in ToOpen
              /\ Tail(td) \in ToHold => td \in ToHold
              /\ td \in ToOpen => Tail(td) \in {<<"transaction", "advisory">>, <<"transaction">>}
              /\ td \in ToHold => Tail(td) = <<"connection", "session">>
              /\ Tail(td) # <<"advisory">>
         /\ Head(td) = "connection" => td = <<"connection", "session">> /\ Tail(td) = <<"session">>
         /\ Head(td) = "session" => td = <<"session">> /\ Tail(td) = <<>>
         /\ Head(td) = "transaction" =>
              \/ td = <<"transaction">> /\ Tail(td) = <<>>
              \/ td = <<"transaction", "advisory">> /\ Tail(td) = <<"advisory">>
         /\ Head(td) = "advisory" => td = <<"advisory">> /\ Tail(td) = <<>>
<1>1. CASE td = <<"mutex", "transaction", "advisory">>  BY <1>1, SMT DEF Todos, ToOpen, ToHold
<1>2. CASE td = <<"transaction", "advisory">>  BY <1>2, SMT DEF Todos, ToOpen, ToHold
<1>3. CASE td = <<"mutex", "transaction">>  BY <1>3, SMT DEF Todos, ToOpen, ToHold
<1>4. CASE td = <<"transaction">>  BY <1>4, SMT DEF Todos, ToOpen, ToHold
<1>5. CASE td = <<"mutex", "connection", "session">>  BY <1>5, SMT DEF Todos, ToOpen, ToHold
<1>6. CASE td = <<"connection", "session">>  BY <1>6, SMT DEF Todos, ToOpen, ToHold
<1>7. CASE td = <<"session">>  BY <1>7, SMT DEF Todos, ToOpen, ToHold
<1>8. CASE td = <<"mutex">>  BY <1>8, SMT DEF Todos, ToOpen, ToHold
<1>9. CASE td = <<"advisory">>  BY <1>9, SMT DEF Todos, ToOpen, ToHold
<1> QED  BY <1>1, <1>2, <1>3, <1>4, <1>5, <1>6, <1>7, <1>8, <1>9, Zenon DEF Todos, ToOpen, ToHold

-----------------------------------------------------------------------------
\* What each step does to the stack of its process.
LEMMA Functions ==
  ASSUME TypeOK
  PROVE  /\ stack \in [Procs -> Seq(Frames)] /\ todo \in [Procs -> Seq(Steps)]
         /\ closing \in [Procs -> {"no", "ok", "error"}] /\ held \in [Procs -> SUBSET Keys]
         /\ queue \in [Procs -> Seq(Tx)] /\ tx \in [Procs -> 0..MaxTx]
BY DEF TypeOK

LEMMA StackFacts ==
  ASSUME TypeOK, NEW p \in Procs, stack[p] # <<>>
  PROVE  /\ stack[p] \in Seq(Frames) /\ Len(stack[p]) \in Nat \ {0}
         /\ Top(p) = stack[p][Len(stack[p])] /\ Top(p) \in Frames
<1>1. stack[p] \in Seq(Frames)
  BY DEF TypeOK
<1> QED  BY <1>1, Popped, Zenon DEF Top, Last

LEMMA FrameChanged ==
  ASSUME NEW f \in Frames
  PROVE  /\ f.has \in SUBSET Parts /\ f.effects \in Seq(Tx)
         /\ \A h \in SUBSET Parts : [f EXCEPT !.has = h] \in Frames
         /\ \A e \in Seq(Tx) : [f EXCEPT !.effects = e] \in Frames
BY SMTT(30) DEF Frames

NewFrame(p, op, k) ==
  [op |-> op, key |-> k, effects |-> <<>>, has |-> IF NewScope(p, op) THEN {"scope"} ELSE {}]
LEMMA CallStack ==
  ASSUME TypeOK, NEW p \in Procs, NEW op \in Ops, NEW k \in Keys \cup {NoKey}, Call(p, op, k)
  PROVE  /\ NewFrame(p, op, k) \in Frames
         /\ stack' = [stack EXCEPT ![p] = Append(@, NewFrame(p, op, k))]
<1>1. <<>> \in Seq(Tx)
  BY EmptySeq
<1>2. op \in AllOps
  BY OpsAssumption
<1>3. NewFrame(p, op, k) \in Frames
  BY <1>1, <1>2, SMT DEF NewFrame, Frames, Parts, AllOps
<1> QED  BY <1>3 DEF Call, NewFrame

Given(p, part) == [Top(p) EXCEPT !.has = @ \cup {part}]
LEMMA WithPartStack ==
  ASSUME TypeOK, NEW p \in Procs, stack[p] # <<>>, NEW part \in Parts
  PROVE  /\ Given(p, part) \in Frames
         /\ WithPart(p, part) = [stack EXCEPT ![p] = [@ EXCEPT ![Len(stack[p])] = Given(p, part)]]
<1>1. /\ stack[p] \in Seq(Frames) /\ Len(stack[p]) \in Nat \ {0}
      /\ Top(p) = stack[p][Len(stack[p])] /\ Top(p) \in Frames
  BY StackFacts
<1>2. Given(p, part) \in Frames
  BY <1>1, FrameChanged, Zenon DEF Given
<1> QED  BY <1>1, <1>2, SMT DEF WithPart, Given

Taken(p) == [Top(p) EXCEPT !.has = @ \ {"transaction"}]
LEMMA ReturnStack ==
  ASSUME TypeOK, NEW p \in Procs, NEW ok \in BOOLEAN, Return(p, ok)
  PROVE  /\ stack[p] # <<>> /\ Taken(p) \in Frames
         /\ stack' = [stack EXCEPT ![p] = [@ EXCEPT ![Len(stack[p])] = Taken(p)]]
<1>1. stack[p] # <<>>
  BY DEF Return, Running
<1>2. /\ stack[p] \in Seq(Frames) /\ Len(stack[p]) \in Nat \ {0}
      /\ Top(p) = stack[p][Len(stack[p])] /\ Top(p) \in Frames
  BY <1>1, StackFacts
<1>3. Taken(p) \in Frames
  BY <1>2, FrameChanged, Zenon DEF Taken
<1>4. stack' = [stack EXCEPT ![p][Len(stack[p])].has = @ \ {"transaction"}]
  BY DEF Return
<1> QED  BY <1>1, <1>2, <1>3, <1>4, SMT DEF Taken

LEMMA UnlockStack ==
  ASSUME TypeOK, StacksSound, NEW p \in Procs, Unlock(p)
  PROVE  /\ stack[p] # <<>> /\ Effects(p) \in Frames
         /\ \/ /\ HasScope(Top(p)) /\ closing[p] = "ok"
               /\ stack' = [stack EXCEPT ![p] = Append(Front(@), Effects(p))]
            \/ /\ HasScope(Top(p)) => closing[p] = "error"
               /\ stack' = [stack EXCEPT ![p] = Front(@)]
<1>1. stack[p] # <<>>
  BY DEF StacksSound, Staged, Unlock
<1>2. Effects(p) \in Frames
  <2>1. queue[p] \in Seq(Tx)
    BY DEF TypeOK
  <2> QED  BY <2>1, SMT DEF Effects, AfterFrame, Frames
<1>3. CASE HasScope(Top(p)) /\ closing[p] = "ok"
  BY <1>1, <1>2, <1>3 DEF Unlock, HasScope
<1>4. CASE HasScope(Top(p)) /\ closing[p] # "ok"
  <2>1. closing[p] = "error"
    BY <1>4 DEF Unlock, TypeOK
  <2> QED  BY <1>1, <1>2, <1>4, <2>1 DEF Unlock, HasScope
<1>5. CASE ~HasScope(Top(p))
  BY <1>1, <1>2, <1>5 DEF Unlock, HasScope
<1> QED  BY <1>3, <1>4, <1>5

Later(p) == [Top(p) EXCEPT !.effects = Tail(@)]
LEMMA RunEffectStack ==
  ASSUME TypeOK, NEW p \in Procs, RunEffect(p)
  PROVE  /\ stack[p] # <<>>
         /\ \/ /\ Top(p).effects # <<>> /\ Later(p) \in Frames
               /\ stack' = [stack EXCEPT ![p] = [@ EXCEPT ![Len(stack[p])] = Later(p)]]
            \/ Top(p).effects = <<>> /\ stack' = [stack EXCEPT ![p] = Front(@)]
<1>1. stack[p] # <<>>
  BY DEF RunEffect, Running
<1>2. /\ stack[p] \in Seq(Frames) /\ Len(stack[p]) \in Nat \ {0}
      /\ Top(p) = stack[p][Len(stack[p])] /\ Top(p) \in Frames
  BY <1>1, StackFacts
<1>3. CASE Top(p).effects # <<>>
  <2>1. Tail(Top(p).effects) \in Seq(Tx)
    BY <1>2, <1>3, FrameChanged, HeadTailProperties, Zenon
  <2>2. Later(p) \in Frames
    BY <1>2, <2>1, FrameChanged, Zenon DEF Later
  <2>3. stack' = [stack EXCEPT ![p][Len(stack[p])].effects = Tail(@)]
    BY <1>3 DEF RunEffect
  <2> QED  BY <1>1, <1>2, <1>3, <2>2, <2>3, SMT DEF Later
<1> QED  BY <1>1, <1>3 DEF RunEffect

-----------------------------------------------------------------------------
\* The nesting of calls.
LEMMA NestedPush ==
  ASSUME NEW S \in Seq(Frames), Nested(S), NEW f \in Frames, ~HasTx(f),
         f.op # "after", f.effects = <<>>,
         HasScope(f) => f.op \in Opens /\ \A i \in 1..Len(S) : ~HasScope(S[i]),
         f.op \in Opens => HasScope(f) \/ \E i \in 1..Len(S) : HasScope(S[i])
  PROVE  Nested(Append(S, f))
<1>. DEFINE R == Append(S, f)
<1>1. /\ R \in Seq(Frames) /\ Len(R) = Len(S) + 1 /\ R[Len(S) + 1] = f
      /\ \A i \in 1..Len(S) : R[i] = S[i]
      /\ Len(S) \in Nat
  BY Pushed, SMT
<1>2. HasScope(f) => \A i \in 1..Len(S) : S[i].op \notin Opens
  BY <1>1, SMT DEF Nested
<1>. HIDE DEF R
<1>3. ASSUME NEW i \in 1..Len(R)
      PROVE  /\ HasTx(R[i]) => HasScope(R[i])
             /\ HasScope(R[i]) => R[i].op \in Opens /\ \A j \in 1..(i-1) : R[j].op \notin Opens
             /\ R[i].op \in Opens => HasScope(R[i]) \/ \E j \in 1..(i-1) : HasScope(R[j])
             /\ R[i].op = "after" => R[i].has = {} /\ \A j \in 1..(i-1) : ~HasScope(R[j])
             /\ R[i].op # "after" => R[i].effects = <<>>
  <2>1. CASE i = Len(S) + 1
    BY <1>1, <1>2, <2>1, SMT
  <2>2. CASE i \in 1..Len(S)
    BY <1>1, <2>2, SMT DEF Nested
  <2> QED  BY <1>1, <2>1, <2>2, SMT
<1> QED  BY <1>3 DEF Nested, R

LEMMA NestedTop ==
  ASSUME NEW S \in Seq(Frames), S # <<>>, Nested(S), NEW f \in Frames,
         HasTx(f) => HasScope(f), HasScope(f) <=> HasScope(S[Len(S)]),
         f.op = S[Len(S)].op, f.op = "after" => f.has = {}, f.op # "after" => f.effects = <<>>
  PROVE  Nested([S EXCEPT ![Len(S)] = f])
<1>. DEFINE R == [S EXCEPT ![Len(S)] = f]
<1>1. /\ R \in Seq(Frames) /\ Len(R) = Len(S) /\ R[Len(S)] = f
      /\ \A i \in 1..(Len(S) - 1) : R[i] = S[i]
  BY TopSet
<1>2. Len(S) \in Nat \ {0}
  BY Popped
<1>. HIDE DEF R
<1>3. ASSUME NEW i \in 1..Len(R)
      PROVE  /\ HasTx(R[i]) => HasScope(R[i])
             /\ HasScope(R[i]) => R[i].op \in Opens /\ \A j \in 1..(i-1) : R[j].op \notin Opens
             /\ R[i].op \in Opens => HasScope(R[i]) \/ \E j \in 1..(i-1) : HasScope(R[j])
             /\ R[i].op = "after" => R[i].has = {} /\ \A j \in 1..(i-1) : ~HasScope(R[j])
             /\ R[i].op # "after" => R[i].effects = <<>>
  <2>1. CASE i = Len(S)
    BY <1>1, <1>2, <2>1, SMT DEF Nested
  <2>2. CASE i \in 1..(Len(S) - 1)
    <3>1. i \in 1..Len(S) /\ R[i] = S[i] /\ \A j \in 1..(i-1) : R[j] = S[j]
      BY <1>1, <1>2, <2>2, SMT
    <3> QED  BY <3>1, Zenon DEF Nested
  <2> QED  BY <1>1, <1>2, <2>1, <2>2, SMT
<1> QED  BY <1>3 DEF Nested, R

LEMMA NestedPop ==
  ASSUME NEW S \in Seq(Frames), S # <<>>, Nested(S)
  PROVE  Nested(Front(S))
<1>. DEFINE n == Len(S) - 1  R == Front(S)
<1>1. /\ R \in Seq(Frames) /\ Len(R) = n /\ n \in Nat /\ Len(S) = n + 1
      /\ \A i \in 1..n : R[i] = S[i]
  BY Popped, SMT
<1>. HIDE DEF R, n
<1> QED  BY <1>1, SMT DEF Nested, R

\* The scope and its own calls are left; its effects take their place.
LEMMA NestedAfter ==
  ASSUME NEW S \in Seq(Frames), S # <<>>, Nested(S), HasScope(S[Len(S)]),
         NEW f \in Frames, f.op = "after", f.has = {}
  PROVE  Nested(Append(Front(S), f))
<1>. DEFINE n == Len(S) - 1  R == Append(Front(S), f)
<1>1. /\ Front(S) \in Seq(Frames) /\ Len(Front(S)) = n /\ n \in Nat
      /\ \A i \in 1..n : Front(S)[i] = S[i]
  BY Popped, SMT
<1>2. R \in Seq(Frames) /\ Len(R) = n + 1 /\ R[n + 1] = f /\ \A i \in 1..n : R[i] = S[i]
  BY <1>1, Pushed, SMT
<1>3. \A i \in 1..n : ~HasScope(S[i])
  <2>1. \A i \in 1..n : S[i].op \notin Opens
    BY <1>1, SMT DEF Nested
  <2> QED  BY <1>1, <2>1, SMT DEF Nested
<1>4. n + 1 = Len(S)
  BY <1>1, SMT
<1>. HIDE DEF R, n
<1>5. ASSUME NEW i \in 1..Len(R)
      PROVE  /\ HasTx(R[i]) => HasScope(R[i])
             /\ HasScope(R[i]) => R[i].op \in Opens /\ \A j \in 1..(i-1) : R[j].op \notin Opens
             /\ R[i].op \in Opens => HasScope(R[i]) \/ \E j \in 1..(i-1) : HasScope(R[j])
             /\ R[i].op = "after" => R[i].has = {} /\ \A j \in 1..(i-1) : ~HasScope(R[j])
             /\ R[i].op # "after" => R[i].effects = <<>>
  <2>1. CASE i = n + 1
    <3>1. R[i] = f /\ \A j \in 1..(i-1) : j \in 1..n /\ R[j] = S[j]
      BY <1>1, <1>2, <2>1, SMT
    <3>2. ~HasTx(f) /\ ~HasScope(f) /\ f.op \notin Opens
      BY SMT DEF HasTx, HasScope, Opens
    <3> QED  BY <1>3, <3>1, <3>2, Zenon
  <2>2. CASE i \in 1..n
    <3>1. i \in 1..Len(S) /\ R[i] = S[i] /\ \A j \in 1..(i-1) : R[j] = S[j]
      BY <1>1, <1>2, <1>4, <2>2, SMT
    <3> QED  BY <3>1, Zenon DEF Nested
  <2> QED  BY <1>1, <1>2, <2>1, <2>2, SMT
<1> QED  BY <1>5 DEF Nested, R

-----------------------------------------------------------------------------
\* A step is of one process, and leaves the others what they have.
Step(p) ==
  \/ \E op \in Ops, k \in Keys \cup {NoKey} : Call(p, op, k)
  \/ Take(p) \/ GoOnUnlocked(p) \/ Defer(p) \/ (\E ok \in BOOLEAN : Return(p, ok))
  \/ Unlock(p) \/ RunEffect(p) \/ Abort(p)
LEMMA StepCases ==
  ASSUME Next
  PROVE  node' = node /\ \E p \in Procs : Step(p)
BY Zenon DEF Next, Step, Leave

LEMMA OthersUntouched ==
  ASSUME TypeOK, NEW p \in Procs, Step(p), NEW q \in Procs, q # p
  PROVE  /\ stack'[q] = stack[q] /\ todo'[q] = todo[q] /\ closing'[q] = closing[q]
         /\ held'[q] = held[q] /\ queue'[q] = queue[q] /\ tx'[q] = tx[q]
<1>1. ASSUME NEW op \in Ops, NEW k \in Keys \cup {NoKey}, Call(p, op, k)
      PROVE  /\ stack'[q] = stack[q] /\ todo'[q] = todo[q] /\ closing'[q] = closing[q]
             /\ held'[q] = held[q] /\ queue'[q] = queue[q] /\ tx'[q] = tx[q]
  BY Functions, <1>1, SMT DEF Call
<1>2. CASE Take(p)
  BY Functions, <1>2, SMT DEF Take, WithPart
<1>3. CASE GoOnUnlocked(p)
  BY Functions, <1>3, SMT DEF GoOnUnlocked
<1>4. CASE Defer(p)
  BY Functions, <1>4, SMT DEF Defer
<1>5. ASSUME NEW ok \in BOOLEAN, Return(p, ok)
      PROVE  /\ stack'[q] = stack[q] /\ todo'[q] = todo[q] /\ closing'[q] = closing[q]
             /\ held'[q] = held[q] /\ queue'[q] = queue[q] /\ tx'[q] = tx[q]
  <2>1. /\ stack' = [stack EXCEPT ![p][Len(stack[p])].has = @ \ {"transaction"}]
        /\ tx' = tx \/ tx' = [tx EXCEPT ![p] = 0]
        /\ held' = held \/ held' = [held EXCEPT ![p] = KeptAfter(p)]
        /\ todo' = todo /\ queue' = queue
        /\ \E w \in {"ok", "error"} : closing' = [closing EXCEPT ![p] = w]
    BY <1>5, Zenon DEF Return
  <2> QED  BY Functions, <2>1, SMT
<1>6. CASE Unlock(p)
  BY Functions, <1>6, SMT DEF Unlock
<1>7. CASE RunEffect(p)
  BY Functions, <1>7, SMT DEF RunEffect
<1>8. CASE Abort(p)
  <2>1. /\ stack' = [stack EXCEPT ![p] = <<>>] /\ tx' = [tx EXCEPT ![p] = 0]
        /\ todo' = [todo EXCEPT ![p] = <<>>] /\ queue' = [queue EXCEPT ![p] = <<>>]
        /\ held' = [held EXCEPT ![p] = {}] /\ closing' = [closing EXCEPT ![p] = "no"]
    BY <1>8 DEF Abort
  <2> QED  BY Functions, <2>1, SMT
<1> QED  BY <1>1, <1>2, <1>3, <1>4, <1>5, <1>6, <1>7, <1>8 DEF Step

-----------------------------------------------------------------------------
\* What a call takes.
LEMMA PlanFacts ==
  ASSUME NEW op \in AllOps, NEW b \in BOOLEAN
  PROVE  /\ Plan(op, b) \in Todos
         /\ Plan(op, b) \in ToOpen <=> op \in Opens /\ ~b
         /\ Plan(op, b) \in ToHold => op = "exclusive"
         /\ Plan(op, b) = <<"advisory">> => b
         /\ Plan(op, b) \notin {<<>>, <<"transaction">>} => op # "transaction"
         /\ op = "exclusive" /\ Plan(op, b) \notin ToHold /\ Postgres => b
         /\ op \in Jobs /\ Postgres =>
              Plan(op, b) \notin {<<>>, <<"mutex">>, <<"transaction">>, <<"mutex", "transaction">>}
         /\ Plan(op, b) = <<"transaction">> => op = "transaction"
         /\ Plan(op, b) \notin {<<"transaction", "advisory">>, <<"connection", "session">>, <<"session">>}
<1>. USE DEF Plan, SerializePlan, Todos, ToOpen, ToHold, Opens, Jobs
<1>0. Postgres \in BOOLEAN
  BY DatabaseAssumption
<1>1. CASE op = "serialize"  BY <1>0, <1>1, SMT
<1>2. CASE op = "exclusive"  BY <1>0, <1>2, SMT
<1>3. CASE op = "transaction"  BY <1>0, <1>3, SMT
<1>4. CASE op = "turn"  BY <1>0, <1>4, SMT
<1> QED  BY <1>1, <1>2, <1>3, <1>4 DEF AllOps

LEMMA InScopeFacts ==
  ASSUME TypeOK, StacksSound, NEW p \in Procs
  PROVE  /\ InScope(p) <=> \E i \in 1..Len(stack[p]) : HasScope(stack[p][i])
         /\ InTx(p) => InScope(p)
         /\ (stack[p] = <<>> \/ Running(p)) =>
              /\ closing[p] = "no" /\ todo[p] = <<>>
              /\ InScope(p) => InTx(p)
<1>. DEFINE S == stack[p]
<1>1. S \in Seq(Frames) /\ Nested(S) /\ Staged(S, todo[p], closing[p], tx[p])
  BY DEF TypeOK, StacksSound
<1>2. InScope(p) <=> \E i \in 1..Len(S) : HasScope(S[i])
  BY <1>1, SMT DEF InScope, Calls, Range, HasScope
<1>3. InTx(p) => InScope(p)
  BY <1>1, <1>2, SMT DEF InTx, Staged, Nested
<1>4. ASSUME S = <<>> \/ Running(p)
      PROVE  closing[p] = "no" /\ todo[p] = <<>> /\ <<>> \notin ToOpen
  BY <1>1, <1>4, SMT DEF Staged, Running, ToOpen
<1>5. ASSUME S = <<>> \/ Running(p), InScope(p)
      PROVE  InTx(p)
  BY <1>1, <1>2, <1>4, <1>5, SMT DEF Staged, InTx
<1> QED  BY <1>2, <1>3, <1>4, <1>5

LEMMA CallStacks ==
  ASSUME TypeOK, StacksSound, NEW p \in Procs, NEW op \in Ops, NEW k \in Keys \cup {NoKey},
         Call(p, op, k)
  PROVE  Nested(stack'[p]) /\ Staged(stack'[p], todo'[p], closing'[p], tx'[p])
<1>. DEFINE S == stack[p]  f == NewFrame(p, op, k)  R == Append(S, f)  td == Plan(op, InTx(p))
<1>1. S \in Seq(Frames) /\ Nested(S) /\ Staged(S, todo[p], closing[p], tx[p])
  BY DEF TypeOK, StacksSound
<1>2. stack[p] = <<>> \/ Running(p)
  BY DEF Call
<1>3. /\ InScope(p) <=> \E i \in 1..Len(S) : HasScope(S[i])
      /\ InScope(p) <=> InTx(p)
      /\ closing[p] = "no" /\ todo[p] = <<>>
  BY <1>2, InScopeFacts
<1>4. op \in AllOps /\ InTx(p) \in BOOLEAN
  BY OpsAssumption DEF InTx
<1>5. /\ td \in Todos
      /\ td \in ToOpen <=> op \in Opens /\ ~InTx(p)
      /\ td \in ToHold => op = "exclusive"
      /\ td = <<"advisory">> => InTx(p)
      /\ td \notin {<<>>, <<"transaction">>} => op # "transaction"
  BY <1>4, PlanFacts, Zenon
<1>6. /\ f.op = op /\ f.key = k /\ f.effects = <<>> /\ ~HasTx(f) /\ op # "after"
      /\ HasScope(f) <=> NewScope(p, op)
  BY <1>4, SMT DEF NewFrame, HasTx, HasScope, AllOps
<1>7. NewScope(p, op) <=> op \in Opens /\ ~InTx(p)
  BY <1>3, SMT DEF NewScope, Opens
<1>8. /\ f \in Frames /\ stack'[p] = R /\ todo'[p] = td
      /\ closing'[p] = closing[p] /\ tx'[p] = tx[p]
  <2>1. f \in Frames /\ stack' = [stack EXCEPT ![p] = Append(@, f)]
    BY CallStack
  <2>2. todo' = [todo EXCEPT ![p] = td] /\ closing' = closing /\ tx' = tx
    BY DEF Call
  <2> QED  BY <2>1, <2>2, Functions, SMT
<1>9. op # "transaction" => k \in Keys
  <2>1. (op = "transaction") = (k = NoKey)
    BY DEF Call
  <2> QED  BY <2>1, Zenon
<1>10. /\ R \in Seq(Frames) /\ Len(R) = Len(S) + 1 /\ R[Len(S) + 1] = f
       /\ \A i \in 1..Len(S) : R[i] = S[i]
       /\ Len(S) \in Nat
  BY <1>1, <1>8, Pushed, SMT
<1>11. Nested(R)
  BY <1>1, <1>3, <1>6, <1>7, <1>8, NestedPush, Zenon
<1>. HIDE DEF S, f, R, td
<1>12. R # <<>> /\ Len(R) \in Nat \ {0}
  BY <1>10, SMT
<1>13. tx[p] # 0 <=> \E i \in 1..Len(R) : HasTx(R[i])
  BY <1>1, <1>6, <1>10, SMT DEF Staged
<1>14. ASSUME NEW i \in 1..Len(R), HasScope(R[i])
       PROVE  HasTx(R[i]) \/ (i = Len(R) /\ td \in ToOpen)
  <2>1. CASE i = Len(S) + 1
    BY <1>5, <1>6, <1>7, <1>10, <1>14, <2>1, SMT
  <2>2. CASE i \in 1..Len(S)
    BY <1>1, <1>3, <1>10, <1>14, <2>2, SMT DEF Staged, ToOpen
  <2> QED  BY <1>10, <2>1, <2>2, SMT
<1>15. td \in ToOpen => HasScope(f) /\ tx[p] = 0
  BY <1>5, <1>6, <1>7 DEF InTx
<1>16. R[Len(R)] = f
  BY <1>10, SMT
<1>17. Staged(R, td, "no", tx[p])
  BY <1>5, <1>6, <1>9, <1>12, <1>13, <1>14, <1>15, <1>16, Zenon DEF Staged, InTx
<1> QED  BY <1>3, <1>8, <1>11, <1>17

LEMMA TakeFacts ==
  ASSUME TypeOK, StacksSound, NEW p \in Procs, Take(p)
  PROVE  /\ stack[p] # <<>> /\ todo[p] \in Todos /\ todo[p] # <<>> /\ closing[p] = "no"
         /\ Needs(p) = Head(todo[p]) /\ Blockers(p) = {}
         /\ todo'[p] = Tail(todo[p]) /\ closing' = closing /\ queue' = queue /\ ran' = ran
         /\ \/ /\ Needs(p) = "mutex" /\ Has(p, "mutex", Top(p).key)
               /\ stack' = stack
            \/ /\ Needs(p) \in {"mutex", "connection", "session", "transaction"}
               /\ Needs(p) = "mutex" => ~Has(p, "mutex", Top(p).key)
               /\ Given(p, Needs(p)) \in Frames
               /\ stack' = [stack EXCEPT ![p] = [@ EXCEPT ![Len(stack[p])] = Given(p, Needs(p))]]
            \/ Needs(p) = "advisory" /\ stack' = stack
         /\ IF Needs(p) = "advisory" THEN held' = [held EXCEPT ![p] = @ \cup {Top(p).key}]
                                     ELSE held' = held
         /\ IF Needs(p) = "transaction"
            THEN \E t \in Tx : /\ fate[t] = "unused" /\ tx' = [tx EXCEPT ![p] = t]
                               /\ fate' = [fate EXCEPT ![t] = "open"]
            ELSE tx' = tx /\ fate' = fate
<1>1. todo[p] # <<>> /\ Blockers(p) = {} /\ closing' = closing /\ queue' = queue /\ ran' = ran
  BY DEF Take
<1>2. stack[p] # <<>> /\ todo[p] \in Todos /\ closing[p] = "no"
  BY <1>1 DEF StacksSound, Staged
<1>3. Needs(p) = Head(todo[p])
  BY <1>1 DEF Needs
<1>4. todo'[p] = Tail(todo[p])
  BY Functions, SMT DEF Take
<1>5. ASSUME NEW part \in {"mutex", "connection", "session", "transaction"}
      PROVE  /\ Given(p, part) \in Frames
             /\ WithPart(p, part) = [stack EXCEPT ![p] = [@ EXCEPT ![Len(stack[p])] = Given(p, part)]]
  BY <1>2, WithPartStack, Zenon DEF Parts
<1>6. CASE Needs(p) = "mutex"
  <2>1. /\ stack' = IF Has(p, "mutex", Top(p).key) THEN stack ELSE WithPart(p, "mutex")
        /\ held' = held /\ tx' = tx /\ fate' = fate
    BY <1>6 DEF Take
  <2>. HIDE DEF Top, Given
  <2> QED  BY <1>1, <1>2, <1>3, <1>4, <1>5, <1>6, <2>1, Zenon
<1>7. CASE Needs(p) \in {"connection", "session"}
  <2>1. stack' = WithPart(p, Needs(p)) /\ held' = held /\ tx' = tx /\ fate' = fate
    BY <1>7 DEF Take
  <2> QED  BY <1>1, <1>2, <1>3, <1>4, <1>5, <1>7, <2>1, Zenon
<1>8. CASE Needs(p) = "advisory"
  <2>1. /\ held' = [held EXCEPT ![p] = @ \cup {Top(p).key}]
        /\ stack' = stack /\ tx' = tx /\ fate' = fate
    BY <1>8 DEF Take
  <2> QED  BY <1>1, <1>2, <1>3, <1>4, <1>8, <2>1, Zenon
<1>9. CASE Needs(p) = "transaction"
  <2>1. /\ \E t \in Unused : tx' = [tx EXCEPT ![p] = t] /\ fate' = [fate EXCEPT ![t] = "open"]
        /\ stack' = WithPart(p, "transaction") /\ held' = held
    BY <1>9 DEF Take
  <2> QED  BY <1>1, <1>2, <1>3, <1>4, <1>5, <1>9, <2>1, Zenon DEF Unused
<1> QED  BY <1>6, <1>7, <1>8, <1>9 DEF Take

\* A top that is the same call as before leaves what the calls own as it was.
LEMMA StagedTop ==
  ASSUME NEW S \in Seq(Frames), S # <<>>, Nested(S), NEW f \in Frames, NEW td, NEW cl, NEW t,
         f.op = S[Len(S)].op, f.key = S[Len(S)].key, HasScope(f) <=> HasScope(S[Len(S)]),
         td \in Todos, td # <<>> => cl = "no" /\ f.op # "after",
         td \notin {<<>>, <<"transaction">>} => f.key \in Keys,
         cl # "no" => f.op # "after" /\ ~HasTx(f),
         td \in ToOpen => HasScope(f) /\ t = 0,
         td = <<"advisory">> => t # 0,
         td \in ToHold => f.op = "exclusive",
         HasTx(f) => HasScope(f),
         t # 0 <=> HasTx(f) \/ \E i \in 1..(Len(S) - 1) : HasTx(S[i]),
         HasScope(f) => HasTx(f) \/ cl # "no" \/ td \in ToOpen,
         \A i \in 1..(Len(S) - 1) : HasScope(S[i]) => HasTx(S[i])
  PROVE  Staged([S EXCEPT ![Len(S)] = f], td, cl, t)
<1>. DEFINE R == [S EXCEPT ![Len(S)] = f]  n == Len(S)
<1>1. /\ R \in Seq(Frames) /\ Len(R) = n /\ R[n] = f
      /\ \A i \in 1..(n - 1) : R[i] = S[i]
      /\ n \in Nat \ {0}
  BY TopSet, Popped, Zenon
<1>2. S[n] = S[Len(S)]
  OBVIOUS
<1>. HIDE DEF R, n
<1>3. R # <<>>
  BY <1>1, SMT
<1>4. \A i \in 1..n : i = n \/ i \in 1..(n - 1)
  BY <1>1, SMT
<1>5. t # 0 <=> \E i \in 1..n : HasTx(R[i])
  <2>1. t # 0 <=> HasTx(f) \/ \E i \in 1..(n - 1) : HasTx(S[i])
    BY DEF n
  <2> QED  BY <1>1, <2>1, SMT
<1>6. \A i \in 1..n : HasScope(R[i]) => HasTx(R[i]) \/ (i = n /\ (cl # "no" \/ td \in ToOpen))
  <2>1. \A i \in 1..(n - 1) : HasScope(S[i]) => HasTx(S[i])
    BY DEF n
  <2> QED  BY <1>1, <1>4, <2>1, Zenon
<1>7. Staged(R, td, cl, t)
  BY <1>1, <1>3, <1>5, <1>6, Zenon DEF Staged
<1> QED  BY <1>7 DEF R

\* Below the top every scope owns the transaction, and no two calls do.
LEMMA BelowTop ==
  ASSUME NEW S \in Seq(Frames), S # <<>>, Nested(S), NEW td, NEW cl, NEW t, Staged(S, td, cl, t)
  PROVE  /\ \A i \in 1..(Len(S) - 1) : HasScope(S[i]) => HasTx(S[i])
         /\ t # 0 <=> HasTx(S[Len(S)]) \/ \E i \in 1..(Len(S) - 1) : HasTx(S[i])
         /\ HasScope(S[Len(S)]) => \A i \in 1..(Len(S) - 1) : ~HasScope(S[i]) /\ ~HasTx(S[i])
<1>1. Len(S) \in Nat \ {0}
  BY Popped
<1>2. \A i \in 1..(Len(S) - 1) : HasScope(S[i]) => HasTx(S[i])
  BY <1>1, SMT DEF Staged
<1>3. t # 0 <=> HasTx(S[Len(S)]) \/ \E i \in 1..(Len(S) - 1) : HasTx(S[i])
  BY <1>1, SMT DEF Staged
<1>4. ASSUME HasScope(S[Len(S)]), NEW i \in 1..(Len(S) - 1)
      PROVE  ~HasScope(S[i]) /\ ~HasTx(S[i])
  BY <1>1, <1>4, SMT DEF Nested
<1> QED  BY <1>2, <1>3, <1>4

LEMMA TakeTodo ==
  ASSUME NEW td \in Todos, td # <<>>
  PROVE  /\ Tail(td) \in Todos
         /\ Head(td) \in {"mutex", "connection", "session", "transaction", "advisory"}
         /\ Head(td) # "transaction" => (Tail(td) \in ToOpen <=> td \in ToOpen)
         /\ Tail(td) \in ToHold => td \in ToHold
         /\ Tail(td) = <<"advisory">> => Head(td) = "transaction"
         /\ Tail(td) \notin {<<>>, <<"transaction">>} => td \notin {<<>>, <<"transaction">>}
         /\ Head(td) = "transaction" => td \in ToOpen /\ Tail(td) \notin ToOpen \cup ToHold
         /\ Head(td) # "mutex" => Tail(td) \notin ToOpen
<1>. USE DEF Todos, ToOpen, ToHold
<1>1. CASE td = <<"mutex", "transaction", "advisory">>  BY <1>1, SMT
<1>2. CASE td = <<"transaction", "advisory">>  BY <1>2, SMT
<1>3. CASE td = <<"mutex", "transaction">>  BY <1>3, SMT
<1>4. CASE td = <<"transaction">>  BY <1>4, SMT
<1>5. CASE td = <<"mutex", "connection", "session">>  BY <1>5, SMT
<1>6. CASE td = <<"connection", "session">>  BY <1>6, SMT
<1>7. CASE td = <<"session">>  BY <1>7, SMT
<1>8. CASE td = <<"mutex">>  BY <1>8, SMT
<1>9. CASE td = <<"advisory">>  BY <1>9, SMT
<1> QED  BY <1>1, <1>2, <1>3, <1>4, <1>5, <1>6, <1>7, <1>8, <1>9, Zenon

LEMMA TakeStacks ==
  ASSUME TypeOK, StacksSound, NEW p \in Procs, Take(p)
  PROVE  Nested(stack'[p]) /\ Staged(stack'[p], todo'[p], closing'[p], tx'[p])
<1>. DEFINE S == stack[p]  n == Len(S)  td == todo[p]
<1>1. S \in Seq(Frames) /\ Nested(S) /\ Staged(S, td, closing[p], tx[p])
  BY DEF TypeOK, StacksSound
<1>2. /\ S # <<>> /\ td \in Todos /\ td # <<>> /\ closing[p] = "no"
      /\ Needs(p) = Head(td) /\ todo'[p] = Tail(td) /\ closing' = closing
  BY TakeFacts
<1>3. n \in Nat \ {0} /\ S[n] \in Frames /\ Top(p) = S[n]
  BY <1>1, <1>2, StackFacts
<1>4. /\ \A i \in 1..(n - 1) : HasScope(S[i]) => HasTx(S[i])
      /\ tx[p] # 0 <=> HasTx(S[n]) \/ \E i \in 1..(n - 1) : HasTx(S[i])
      /\ HasScope(S[n]) => \A i \in 1..(n - 1) : ~HasScope(S[i]) /\ ~HasTx(S[i])
  BY <1>1, <1>2, BelowTop
<1>5. /\ S[n].op # "after"
      /\ td \in ToOpen => HasScope(S[n]) /\ tx[p] = 0
      /\ td \notin {<<>>, <<"transaction">>} => S[n].key \in Keys
      /\ td \in ToHold => S[n].op = "exclusive"
      /\ td = <<"advisory">> => tx[p] # 0
      /\ HasTx(S[n]) => HasScope(S[n])
      /\ HasScope(S[n]) => HasTx(S[n]) \/ td \in ToOpen
      /\ S[n].effects = <<>>
  BY <1>1, <1>2, <1>3, SMT DEF Staged, Nested
<1>6. ASSUME NEW part \in {"mutex", "connection", "session", "transaction"}
      PROVE  LET f == Given(p, part)
             IN  /\ f.op = S[n].op /\ f.key = S[n].key /\ f.effects = S[n].effects
                 /\ HasScope(f) <=> HasScope(S[n])
                 /\ HasTx(f) <=> HasTx(S[n]) \/ part = "transaction"
  BY <1>3, SMT DEF Given, HasScope, HasTx, Frames
<1>7. /\ Tail(td) \in Todos
      /\ Needs(p) \in {"mutex", "connection", "session", "transaction", "advisory"}
      /\ Needs(p) # "transaction" => (Tail(td) \in ToOpen <=> td \in ToOpen)
      /\ Tail(td) \in ToHold => td \in ToHold
      /\ Tail(td) = <<"advisory">> => Needs(p) = "transaction"
      /\ Tail(td) \notin {<<>>, <<"transaction">>} => td \notin {<<>>, <<"transaction">>}
      /\ Needs(p) = "transaction" => td \in ToOpen /\ Tail(td) \notin ToOpen \cup ToHold
      /\ Needs(p) # "mutex" => Tail(td) \notin ToOpen
  BY <1>2, TakeTodo
<1>8. CASE stack' = stack /\ Needs(p) # "transaction"
  <2>1. tx' = tx /\ stack'[p] = S
    BY <1>8, TakeFacts, Zenon
  <2>2. td \in ToOpen => Tail(td) \in ToOpen
    BY <1>7, <1>8
  <2>3. Staged(S, Tail(td), "no", tx[p])
    BY <1>1, <1>2, <1>5, <1>7, <1>8, <2>2, Zenon DEF Staged
  <2> QED  BY <1>1, <1>2, <2>1, <2>3, Zenon
<1>9. CASE /\ Needs(p) \in {"mutex", "connection", "session", "transaction"}
           /\ Given(p, Needs(p)) \in Frames
           /\ stack' = [stack EXCEPT ![p] = [@ EXCEPT ![Len(stack[p])] = Given(p, Needs(p))]]
  <2>. DEFINE f == Given(p, Needs(p))
  <2>1. /\ f.op = S[n].op /\ f.key = S[n].key /\ f.effects = S[n].effects
        /\ HasScope(f) <=> HasScope(S[n])
        /\ HasTx(f) <=> HasTx(S[n]) \/ Needs(p) = "transaction"
    BY <1>6, <1>9
  <2>2. f \in Frames /\ stack'[p] = [S EXCEPT ![n] = f]
    BY <1>9, Functions, SMT
  <2>. HIDE DEF f
  <2>3. HasTx(f) => HasScope(f)
    BY <1>5, <1>7, <2>1
  <2>4. Nested([S EXCEPT ![n] = f])
    BY <1>1, <1>2, <1>5, <2>1, <2>2, <2>3, NestedTop, Zenon
  <2>5. tx'[p] # 0 <=> HasTx(f) \/ \E i \in 1..(n - 1) : HasTx(S[i])
    <3>1. CASE Needs(p) = "transaction"
      <4>1. PICK t \in Tx : tx' = [tx EXCEPT ![p] = t]
        BY <3>1, TakeFacts, Zenon
      <4>2. tx'[p] # 0
        BY <4>1, Functions, BoundsAssumption, SMT DEF Tx
      <4> QED  BY <2>1, <3>1, <4>2
    <3>2. CASE Needs(p) # "transaction"
      <4>1. tx' = tx
        BY <3>2, TakeFacts, Zenon
      <4> QED  BY <1>4, <2>1, <3>2, <4>1
    <3> QED  BY <3>1, <3>2
  <2>6. Tail(td) \in ToOpen => HasScope(f) /\ tx'[p] = 0
    <3>1. ASSUME Tail(td) \in ToOpen PROVE Needs(p) # "transaction" /\ td \in ToOpen
      BY <1>7, <3>1
    <3>2. ASSUME Needs(p) # "transaction" PROVE tx' = tx
      BY <3>2, TakeFacts, Zenon
    <3> QED  BY <1>5, <2>1, <3>1, <3>2
  <2>7. Tail(td) = <<"advisory">> => tx'[p] # 0
    BY <1>7, <2>1, <2>5
  <2>8. HasScope(f) => HasTx(f) \/ Tail(td) \in ToOpen
    BY <1>5, <1>7, <2>1
  <2>9. Staged([S EXCEPT ![n] = f], Tail(td), "no", tx'[p])
    BY <1>1, <1>2, <1>4, <1>5, <1>7, <2>1, <2>2, <2>3, <2>5, <2>6, <2>7, <2>8, StagedTop, Zenon
  <2> QED  BY <1>2, <2>2, <2>4, <2>9, Zenon
<1>10. \/ Needs(p) # "transaction" /\ stack' = stack
       \/ /\ Needs(p) \in {"mutex", "connection", "session", "transaction"}
          /\ Given(p, Needs(p)) \in Frames
          /\ stack' = [stack EXCEPT ![p] = [@ EXCEPT ![Len(stack[p])] = Given(p, Needs(p))]]
  <2>1. \/ Needs(p) = "mutex" /\ stack' = stack
        \/ /\ Needs(p) \in {"mutex", "connection", "session", "transaction"}
           /\ Given(p, Needs(p)) \in Frames
           /\ stack' = [stack EXCEPT ![p] = [@ EXCEPT ![Len(stack[p])] = Given(p, Needs(p))]]
        \/ Needs(p) = "advisory" /\ stack' = stack
    BY TakeFacts, Zenon
  <2> QED  BY <2>1
<1> QED  BY <1>8, <1>9, <1>10

LEMMA ReturnStacks ==
  ASSUME TypeOK, StacksSound, NEW p \in Procs, NEW ok \in BOOLEAN, Return(p, ok)
  PROVE  Nested(stack'[p]) /\ Staged(stack'[p], todo'[p], closing'[p], tx'[p])
<1>. DEFINE S == stack[p]  n == Len(S)  f == Taken(p)
<1>1. S \in Seq(Frames) /\ Nested(S) /\ Staged(S, todo[p], closing[p], tx[p])
  BY DEF TypeOK, StacksSound
<1>2. /\ S # <<>> /\ f \in Frames /\ todo[p] = <<>> /\ Top(p).op # "after"
      /\ stack' = [stack EXCEPT ![p] = [@ EXCEPT ![Len(stack[p])] = f]]
  BY ReturnStack DEF Return, Running
<1>3. n \in Nat \ {0} /\ S[n] \in Frames /\ Top(p) = S[n]
  BY <1>1, <1>2, StackFacts
<1>4. /\ f.op = S[n].op /\ f.key = S[n].key /\ f.effects = S[n].effects
      /\ HasScope(f) <=> HasScope(S[n])
      /\ ~HasTx(f)
  BY <1>3, SMT DEF Taken, HasScope, HasTx, Frames
<1>5. stack'[p] = [S EXCEPT ![n] = f] /\ todo'[p] = <<>> /\ closing'[p] \in {"ok", "error"}
  <2>1. todo' = todo /\ \E w \in {"ok", "error"} : closing' = [closing EXCEPT ![p] = w]
    BY Zenon DEF Return
  <2> QED  BY <1>2, <2>1, Functions, SMT
<1>6. tx'[p] = IF HasTx(S[n]) THEN 0 ELSE tx[p]
  <2>1. tx' = IF HasTx(S[n]) THEN [tx EXCEPT ![p] = 0] ELSE tx
    BY <1>3 DEF Return, HasTx
  <2> QED  BY <2>1, Functions, SMT
<1>7. /\ \A i \in 1..(n - 1) : HasScope(S[i]) => HasTx(S[i])
      /\ tx[p] # 0 <=> HasTx(S[n]) \/ \E i \in 1..(n - 1) : HasTx(S[i])
      /\ HasScope(S[n]) => \A i \in 1..(n - 1) : ~HasScope(S[i]) /\ ~HasTx(S[i])
  BY <1>1, <1>2, BelowTop
<1>8. S[n].op # "after" /\ S[n].effects = <<>> /\ (HasTx(S[n]) => HasScope(S[n]))
  BY <1>1, <1>2, <1>3, SMT DEF Nested
<1>9. <<>> \in Todos /\ <<>> \notin ToOpen /\ <<>> \notin ToHold /\ <<>> # <<"advisory">>
  BY SMT DEF Todos, ToOpen, ToHold
<1>10. tx'[p] # 0 <=> \E i \in 1..(n - 1) : HasTx(S[i])
  BY <1>6, <1>7, <1>8
<1>. HIDE DEF f
<1>11. Nested([S EXCEPT ![n] = f])
  BY <1>1, <1>2, <1>4, <1>8, NestedTop, Zenon
<1>12. Staged([S EXCEPT ![n] = f], <<>>, closing'[p], tx'[p])
  BY <1>1, <1>2, <1>4, <1>5, <1>7, <1>8, <1>9, <1>10, StagedTop, Zenon
<1> QED  BY <1>5, <1>11, <1>12

\* A top that is left, and perhaps one with no part in its place.
LEMMA StagedPop ==
  ASSUME NEW S \in Seq(Frames), S # <<>>, Nested(S), NEW cl, NEW t, Staged(S, <<>>, cl, t),
         ~HasTx(S[Len(S)])
  PROVE  /\ Staged(Front(S), <<>>, "no", t)
         /\ \A f \in Frames : f.has = {} => Staged(Append(Front(S), f), <<>>, "no", t)
<1>. DEFINE n == Len(S) - 1  T == Front(S)
<1>1. T \in Seq(Frames) /\ Len(T) = n /\ n \in Nat /\ \A i \in 1..n : T[i] = S[i]
  BY Popped, SMT
<1>2. /\ \A i \in 1..n : HasScope(S[i]) => HasTx(S[i])
      /\ t # 0 <=> \E i \in 1..n : HasTx(S[i])
  BY BelowTop
<1>3. <<>> \in Todos /\ <<>> \notin ToOpen /\ <<>> \notin ToHold /\ <<>> # <<"advisory">>
  BY SMT DEF Todos, ToOpen, ToHold
<1>. HIDE DEF n, T
<1>4. Staged(T, <<>>, "no", t)
  <2>1. t # 0 <=> \E i \in 1..Len(T) : HasTx(T[i])
    BY <1>1, <1>2, SMT
  <2>2. \A i \in 1..Len(T) : HasScope(T[i]) => HasTx(T[i])
    BY <1>1, <1>2, SMT
  <2> QED  BY <1>3, <2>1, <2>2, Zenon DEF Staged
<1>5. ASSUME NEW f \in Frames, f.has = {}
      PROVE  Staged(Append(T, f), <<>>, "no", t)
  <2>. DEFINE R == Append(T, f)
  <2>1. Len(R) = n + 1 /\ R[n + 1] = f /\ \A i \in 1..n : R[i] = S[i]
    BY <1>1, Pushed, SMT
  <2>2. ~HasTx(f) /\ ~HasScope(f)
    BY <1>5 DEF HasTx, HasScope
  <2>. HIDE DEF R
  <2>3. t # 0 <=> \E i \in 1..Len(R) : HasTx(R[i])
    BY <1>1, <1>2, <2>1, <2>2, SMT
  <2>4. \A i \in 1..Len(R) : HasScope(R[i]) => HasTx(R[i])
    BY <1>1, <1>2, <2>1, <2>2, SMT
  <2> QED  BY <1>3, <2>3, <2>4, Zenon DEF Staged, R
<1> QED  BY <1>4, <1>5 DEF T

LEMMA UnlockStacks ==
  ASSUME TypeOK, StacksSound, NEW p \in Procs, Unlock(p)
  PROVE  Nested(stack'[p]) /\ Staged(stack'[p], todo'[p], closing'[p], tx'[p])
<1>. DEFINE S == stack[p]
<1>1. S \in Seq(Frames) /\ Nested(S) /\ Staged(S, todo[p], closing[p], tx[p])
  BY DEF TypeOK, StacksSound
<1>2. /\ S # <<>> /\ closing[p] # "no" /\ Effects(p) \in Frames
      /\ closing' = [closing EXCEPT ![p] = "no"] /\ todo' = todo /\ tx' = tx
      /\ \/ /\ HasScope(Top(p))
            /\ stack' = [stack EXCEPT ![p] = Append(Front(@), Effects(p))]
         \/ stack' = [stack EXCEPT ![p] = Front(@)]
  BY UnlockStack DEF Unlock
<1>3. Top(p) = S[Len(S)]
  BY <1>2, StackFacts
<1>4. todo[p] = <<>> /\ ~HasTx(S[Len(S)])
  BY <1>1, <1>2 DEF Staged
<1>5. closing'[p] = "no" /\ todo'[p] = <<>> /\ tx'[p] = tx[p]
  BY <1>2, <1>4, Functions, SMT
<1>6. /\ Staged(Front(S), <<>>, "no", tx[p])
      /\ \A f \in Frames : f.has = {} => Staged(Append(Front(S), f), <<>>, "no", tx[p])
  BY <1>1, <1>2, <1>4, StagedPop
<1>7. Effects(p).op = "after" /\ Effects(p).has = {}
  BY DEF Effects, AfterFrame
<1>8. CASE HasScope(Top(p)) /\ stack' = [stack EXCEPT ![p] = Append(Front(@), Effects(p))]
  <2>1. stack'[p] = Append(Front(S), Effects(p))
    BY <1>8, Functions, SMT
  <2>2. Nested(Append(Front(S), Effects(p)))
    BY <1>1, <1>2, <1>3, <1>7, <1>8, NestedAfter, Zenon
  <2> QED  BY <1>2, <1>5, <1>6, <1>7, <2>1, <2>2, Zenon
<1>9. CASE stack' = [stack EXCEPT ![p] = Front(@)]
  <2>1. stack'[p] = Front(S)
    BY <1>9, Functions, SMT
  <2> QED  BY <1>1, <1>2, <1>5, <1>6, <2>1, NestedPop, Zenon
<1> QED  BY <1>2, <1>8, <1>9

LEMMA RunEffectStacks ==
  ASSUME TypeOK, StacksSound, NEW p \in Procs, RunEffect(p)
  PROVE  Nested(stack'[p]) /\ Staged(stack'[p], todo'[p], closing'[p], tx'[p])
<1>. DEFINE S == stack[p]  n == Len(S)
<1>1. S \in Seq(Frames) /\ Nested(S) /\ Staged(S, todo[p], closing[p], tx[p])
  BY DEF TypeOK, StacksSound
<1>2. /\ S # <<>> /\ todo[p] = <<>> /\ closing[p] = "no" /\ Top(p).op = "after"
      /\ closing' = closing /\ todo' = todo /\ tx' = tx
  BY DEF RunEffect, Running
<1>3. n \in Nat \ {0} /\ S[n] \in Frames /\ Top(p) = S[n]
  BY <1>1, <1>2, StackFacts
<1>4. S[n].has = {} /\ ~HasTx(S[n]) /\ ~HasScope(S[n])
  BY <1>1, <1>2, <1>3, SMT DEF Nested, HasTx, HasScope
<1>5. CASE /\ Later(p) \in Frames
           /\ stack' = [stack EXCEPT ![p] = [@ EXCEPT ![Len(stack[p])] = Later(p)]]
  <2>. DEFINE f == Later(p)
  <2>1. stack'[p] = [S EXCEPT ![n] = f]
    BY <1>5, Functions, SMT
  <2>2. f.op = "after" /\ f.key = S[n].key /\ f.has = {}
    BY <1>2, <1>3, <1>4, SMT DEF Later, Frames
  <2>3. ~HasTx(f) /\ ~HasScope(f)
    BY <2>2 DEF HasTx, HasScope
  <2>4. <<>> \in Todos /\ <<>> \notin ToOpen /\ <<>> \notin ToHold /\ <<>> # <<"advisory">>
    BY SMT DEF Todos, ToOpen, ToHold
  <2>. HIDE DEF f
  <2>5. f \in Frames
    BY <1>5 DEF f
  <2>6. Nested([S EXCEPT ![n] = f])
    BY <1>1, <1>2, <1>3, <1>4, <2>2, <2>3, <2>5, NestedTop, Zenon
  <2>7. /\ \A i \in 1..(n - 1) : HasScope(S[i]) => HasTx(S[i])
        /\ tx[p] # 0 <=> \E i \in 1..(n - 1) : HasTx(S[i])
    BY <1>1, <1>2, <1>4, BelowTop
  <2>8. Staged([S EXCEPT ![n] = f], <<>>, "no", tx[p])
    BY <1>1, <1>2, <1>3, <1>4, <2>2, <2>3, <2>4, <2>5, <2>7, StagedTop, Zenon
  <2> QED  BY <1>2, <2>1, <2>6, <2>8
<1>6. CASE stack' = [stack EXCEPT ![p] = Front(@)]
  <2>1. stack'[p] = Front(S)
    BY <1>6, Functions, SMT
  <2>2. Staged(Front(S), <<>>, "no", tx[p])
    BY <1>1, <1>2, <1>4, StagedPop
  <2> QED  BY <1>1, <1>2, <2>1, <2>2, NestedPop
<1>7. \/ /\ Later(p) \in Frames
         /\ stack' = [stack EXCEPT ![p] = [@ EXCEPT ![Len(stack[p])] = Later(p)]]
      \/ stack' = [stack EXCEPT ![p] = Front(@)]
  BY RunEffectStack
<1> QED  BY <1>5, <1>6, <1>7

LEMMA StacksStep ==
  ASSUME TypeOK, StacksSound, NEW p \in Procs, Step(p)
  PROVE  StacksSound'
<1>1. Nested(stack'[p]) /\ Staged(stack'[p], todo'[p], closing'[p], tx'[p])
  <2>0. Nested(stack[p]) /\ Staged(stack[p], todo[p], closing[p], tx[p])
    BY DEF StacksSound
  <2>1. ASSUME NEW op \in Ops, NEW k \in Keys \cup {NoKey}, Call(p, op, k)
        PROVE  Nested(stack'[p]) /\ Staged(stack'[p], todo'[p], closing'[p], tx'[p])
    BY <2>1, CallStacks
  <2>2. CASE Take(p)
    BY <2>2, TakeStacks
  <2>3. CASE GoOnUnlocked(p)
    <3>1. \E S \in SUBSET Procs : p \in S /\ \A q \in S : Needs(q) = "advisory"
      BY <2>3 DEF GoOnUnlocked, InCycle
    <3>2. Needs(p) = "advisory" /\ todo[p] \in Todos
      BY <2>0, <3>1 DEF Staged
    <3>3. todo[p] = <<"advisory">> /\ Tail(todo[p]) = <<>>
      BY <3>2, TodoSteps, Zenon DEF Needs
    <3>4. stack' = stack /\ closing' = closing /\ tx' = tx /\ todo'[p] = <<>>
      BY <2>3, <3>3, Functions, SMT DEF GoOnUnlocked
    <3>5. /\ <<>> \in Todos /\ <<>> \notin ToOpen /\ <<>> \notin ToHold /\ <<>> # <<"advisory">>
          /\ <<"advisory">> \notin ToOpen
      BY SMT DEF Todos, ToOpen, ToHold
    <3>6. Staged(stack[p], <<>>, closing[p], tx[p])
      BY <2>0, <3>3, <3>5, Zenon DEF Staged
    <3> QED  BY <2>0, <3>4, <3>6
  <2>4. CASE Defer(p)
    BY <2>0, <2>4 DEF Defer
  <2>5. ASSUME NEW ok \in BOOLEAN, Return(p, ok)
        PROVE  Nested(stack'[p]) /\ Staged(stack'[p], todo'[p], closing'[p], tx'[p])
    BY <2>5, ReturnStacks
  <2>6. CASE Unlock(p)
    BY <2>6, UnlockStacks
  <2>7. CASE RunEffect(p)
    BY <2>7, RunEffectStacks
  <2>8. CASE Abort(p)
    <3>1. stack'[p] = <<>> /\ todo'[p] = <<>> /\ closing'[p] = "no" /\ tx'[p] = 0
      <4>1. /\ stack' = [stack EXCEPT ![p] = <<>>] /\ todo' = [todo EXCEPT ![p] = <<>>]
            /\ closing' = [closing EXCEPT ![p] = "no"] /\ tx' = [tx EXCEPT ![p] = 0]
        BY <2>8 DEF Abort
      <4> QED  BY <4>1, Functions, SMT
    <3>2. <<>> \in Todos /\ <<>> \notin ToOpen /\ <<>> \notin ToHold /\ <<>> # <<"advisory">>
      BY SMT DEF Todos, ToOpen, ToHold
    <3>3. 1..Len(<<>>) = {}
      BY SMT
    <3> QED  BY <3>1, <3>2, <3>3, Zenon DEF Nested, Staged
  <2> QED  BY <2>1, <2>2, <2>3, <2>4, <2>5, <2>6, <2>7, <2>8 DEF Step
<1>2. ASSUME NEW q \in Procs, q # p
      PROVE  Nested(stack'[q]) /\ Staged(stack'[q], todo'[q], closing'[q], tx'[q])
  BY <1>2, OthersUntouched DEF StacksSound
<1> QED  BY <1>1, <1>2 DEF StacksSound

-----------------------------------------------------------------------------
\* Types.
LEMMA TodosTyped == Todos \subseteq Seq(Steps)
<1>. DEFINE five == {"mutex", "connection", "session", "transaction", "advisory"}
<1>1. five \subseteq Steps
  BY SMT DEF Steps, Parts
<1>. HIDE DEF five
<1>2. ASSUME NEW td \in Todos PROVE td \in Seq(five)
  <2>1. {"mutex", "connection", "session", "transaction", "advisory"} \subseteq five
    BY DEF five
  <2>2. <<>> \in Seq(five)
    BY EmptySeq
  <2>3. \A x \in five : <<x>> \in Seq(five)
    BY SMT
  <2>4. \A x, y \in five : <<x, y>> \in Seq(five)
    BY SMT
  <2>5. \A x, y, z \in five : <<x, y, z>> \in Seq(five)
    BY SMT
  <2> QED  BY <2>1, <2>2, <2>3, <2>4, <2>5, ZenonT(30) DEF Todos, ToOpen, ToHold
<1> QED  BY <1>1, <1>2, SeqMonotonic

LEMMA Updated ==
  ASSUME NEW D, NEW R, NEW f \in [D -> R], NEW d, NEW v \in R, NEW g,
         g = f \/ g = [f EXCEPT ![d] = v]
  PROVE  g \in [D -> R]
OBVIOUS

LEMMA ExceptAt ==
  ASSUME NEW D, NEW R, NEW f \in [D -> R], NEW d \in D, NEW v, NEW g, g = [f EXCEPT ![d] = v]
  PROVE  g[d] = v /\ \A x \in D : x # d => g[x] = f[x]
OBVIOUS

\* The same of the stack of the process that takes the step.
LEMMA ReturnTop ==
  ASSUME TypeOK, NEW p \in Procs, NEW ok \in BOOLEAN, Return(p, ok)
  PROVE  /\ stack[p] # <<>> /\ Taken(p) \in Frames
         /\ stack'[p] = [stack[p] EXCEPT ![Len(stack[p])] = Taken(p)]
<1>. DEFINE R == [stack[p] EXCEPT ![Len(stack[p])] = Taken(p)]
<1>1. stack[p] # <<>> /\ Taken(p) \in Frames /\ stack' = [stack EXCEPT ![p] = R]
  BY ReturnStack
<1>. HIDE DEF R
<1>2. stack'[p] = R
  BY <1>1, Functions, ExceptAt, Zenon
<1> QED  BY <1>1, <1>2 DEF R

LEMMA UnlockTop ==
  ASSUME TypeOK, StacksSound, NEW p \in Procs, Unlock(p)
  PROVE  /\ stack[p] # <<>> /\ Effects(p) \in Frames
         /\ \/ HasScope(Top(p)) /\ closing[p] = "ok" /\ stack'[p] = Append(Front(stack[p]), Effects(p))
            \/ (HasScope(Top(p)) => closing[p] = "error") /\ stack'[p] = Front(stack[p])
<1>. DEFINE R == Append(Front(stack[p]), Effects(p))  T == Front(stack[p])
<1>1. /\ stack[p] # <<>> /\ Effects(p) \in Frames
      /\ \/ HasScope(Top(p)) /\ closing[p] = "ok" /\ stack' = [stack EXCEPT ![p] = R]
         \/ (HasScope(Top(p)) => closing[p] = "error") /\ stack' = [stack EXCEPT ![p] = T]
  BY UnlockStack
<1>. HIDE DEF R, T
<1>2. stack' = [stack EXCEPT ![p] = R] => stack'[p] = R
  BY Functions, ExceptAt, Zenon
<1>3. stack' = [stack EXCEPT ![p] = T] => stack'[p] = T
  BY Functions, ExceptAt, Zenon
<1> QED  BY <1>1, <1>2, <1>3 DEF R, T

LEMMA RunEffectTop ==
  ASSUME TypeOK, NEW p \in Procs, RunEffect(p)
  PROVE  /\ stack[p] # <<>>
         /\ \/ /\ Top(p).effects # <<>> /\ Later(p) \in Frames
               /\ stack'[p] = [stack[p] EXCEPT ![Len(stack[p])] = Later(p)]
            \/ Top(p).effects = <<>> /\ stack'[p] = Front(stack[p])
<1>. DEFINE R == [stack[p] EXCEPT ![Len(stack[p])] = Later(p)]  T == Front(stack[p])
<1>1. /\ stack[p] # <<>>
      /\ \/ Top(p).effects # <<>> /\ Later(p) \in Frames /\ stack' = [stack EXCEPT ![p] = R]
         \/ Top(p).effects = <<>> /\ stack' = [stack EXCEPT ![p] = T]
  BY RunEffectStack
<1>. HIDE DEF R, T
<1>2. stack' = [stack EXCEPT ![p] = R] => stack'[p] = R
  BY Functions, ExceptAt, Zenon
<1>3. stack' = [stack EXCEPT ![p] = T] => stack'[p] = T
  BY Functions, ExceptAt, Zenon
<1> QED  BY <1>1, <1>2, <1>3 DEF R, T

\* The stacks of a step are stacks again, no deeper than they may be.
LEMMA StackTyped ==
  ASSUME TypeOK, StacksSound, NEW p \in Procs, Step(p)
  PROVE  /\ stack' \in [Procs -> Seq(Frames)]
         /\ \A q \in Procs : Len(stack'[q]) <= MaxDepth
<1>. DEFINE S == stack[p]
<1>0. S \in Seq(Frames) /\ Len(S) \in Nat /\ Len(S) <= MaxDepth
  BY LenProperties DEF TypeOK
<1>1. ASSUME NEW R \in Seq(Frames), Len(R) <= MaxDepth, stack' = [stack EXCEPT ![p] = R]
      PROVE  stack' \in [Procs -> Seq(Frames)] /\ \A q \in Procs : Len(stack'[q]) <= MaxDepth
  <2>1. stack' \in [Procs -> Seq(Frames)] /\ stack'[p] = R
        /\ \A q \in Procs : q # p => stack'[q] = stack[q]
    BY <1>1, Functions, SMT
  <2> QED  BY <1>1, <2>1 DEF TypeOK
<1>2. ASSUME stack' = stack
      PROVE  stack' \in [Procs -> Seq(Frames)] /\ \A q \in Procs : Len(stack'[q]) <= MaxDepth
  BY <1>2 DEF TypeOK
<1>3. ASSUME S # <<>>, NEW f \in Frames
      PROVE  [S EXCEPT ![Len(S)] = f] \in Seq(Frames) /\ Len([S EXCEPT ![Len(S)] = f]) <= MaxDepth
  BY <1>0, <1>3, TopSet, SMT
<1>4. ASSUME S # <<>>
      PROVE  /\ Front(S) \in Seq(Frames) /\ Len(Front(S)) <= MaxDepth
             /\ \A f \in Frames : Append(Front(S), f) \in Seq(Frames)
                                  /\ Len(Append(Front(S), f)) <= MaxDepth
  <2>1. Front(S) \in Seq(Frames) /\ Len(Front(S)) = Len(S) - 1
    BY <1>0, <1>4, Popped
  <2> QED  BY <1>0, <2>1, Pushed, BoundsAssumption, SMT
<1>5. ASSUME NEW op \in Ops, NEW k \in Keys \cup {NoKey}, Call(p, op, k)
      PROVE  stack' \in [Procs -> Seq(Frames)] /\ \A q \in Procs : Len(stack'[q]) <= MaxDepth
  <2>1. NewFrame(p, op, k) \in Frames /\ stack' = [stack EXCEPT ![p] = Append(S, NewFrame(p, op, k))]
    BY <1>5, CallStack
  <2>2. Len(S) < MaxDepth
    BY <1>5 DEF Call
  <2>3. /\ Append(S, NewFrame(p, op, k)) \in Seq(Frames)
        /\ Len(Append(S, NewFrame(p, op, k))) <= MaxDepth
    BY <1>0, <2>1, <2>2, Pushed, BoundsAssumption, SMT
  <2> QED  BY <1>1, <2>1, <2>3
<1>6. CASE Take(p)
  <2>1. \/ stack' = stack
        \/ \E f \in Frames : S # <<>> /\ stack' = [stack EXCEPT ![p] = [S EXCEPT ![Len(S)] = f]]
    BY <1>6, TakeFacts, Zenon
  <2> QED  BY <1>1, <1>2, <1>3, <2>1
<1>7. CASE GoOnUnlocked(p) \/ Defer(p)
  BY <1>2, <1>7 DEF GoOnUnlocked, Defer
<1>8. ASSUME NEW ok \in BOOLEAN, Return(p, ok)
      PROVE  stack' \in [Procs -> Seq(Frames)] /\ \A q \in Procs : Len(stack'[q]) <= MaxDepth
  BY <1>1, <1>3, <1>8, ReturnStack
<1>9. CASE Unlock(p)
  BY <1>1, <1>4, <1>9, UnlockStack
<1>10. CASE RunEffect(p)
  BY <1>1, <1>3, <1>4, <1>10, RunEffectStack
<1>11. CASE Abort(p)
  <2>1. stack' = [stack EXCEPT ![p] = <<>>]
    BY <1>11 DEF Abort
  <2>2. <<>> \in Seq(Frames) /\ Len(<<>>) <= MaxDepth
    BY EmptySeq, BoundsAssumption, SMT
  <2> QED  BY <1>1, <2>1, <2>2
<1> QED  BY <1>5, <1>6, <1>7, <1>8, <1>9, <1>10, <1>11 DEF Step

\* What a step does to the transactions: it opens one, ends or dooms that of its
\* process, or leaves them.
LEMMA TxStep ==
  ASSUME TypeOK, StacksSound, NEW p \in Procs, Step(p)
  PROVE  \/ tx' = tx /\ fate' = fate
         \/ /\ Take(p) /\ Needs(p) = "transaction" /\ tx[p] = 0
            /\ \E t \in Tx : /\ fate[t] = "unused" /\ tx' = [tx EXCEPT ![p] = t]
                             /\ fate' = [fate EXCEPT ![t] = "open"]
         \/ /\ InTx(p) /\ tx' = [tx EXCEPT ![p] = 0] /\ held' = [held EXCEPT ![p] = {}]
            /\ \E w \in {"committed", "rolled back"} : fate' = [fate EXCEPT ![tx[p]] = w]
         \/ InTx(p) /\ tx' = tx /\ fate' = [fate EXCEPT ![tx[p]] = "doomed"]
<1>1. CASE \E op \in Ops, k \in Keys \cup {NoKey} : Call(p, op, k)
  BY <1>1 DEF Call
<1>2. CASE Take(p)
  <2>1. CASE Needs(p) # "transaction"
    BY <1>2, <2>1, TakeFacts, Zenon
  <2>2. CASE Needs(p) = "transaction"
    <3>1. todo[p] \in Todos /\ todo[p] # <<>> /\ Head(todo[p]) = "transaction"
      BY <1>2, <2>2, TakeFacts
    <3>2. todo[p] \in ToOpen
      BY <3>1, TakeTodo
    <3>3. tx[p] = 0
      BY <3>2 DEF StacksSound, Staged
    <3> QED  BY <1>2, <2>2, <3>3, TakeFacts, Zenon
  <2> QED  BY <2>1, <2>2
<1>3. CASE GoOnUnlocked(p) \/ Defer(p) \/ Unlock(p) \/ RunEffect(p)
  BY <1>3 DEF GoOnUnlocked, Defer, Unlock, RunEffect
<1>4. ASSUME NEW ok \in BOOLEAN, Return(p, ok)
      PROVE  \/ tx' = tx /\ fate' = fate
             \/ /\ InTx(p) /\ tx' = [tx EXCEPT ![p] = 0] /\ held' = [held EXCEPT ![p] = {}]
                /\ \E w \in {"committed", "rolled back"} : fate' = [fate EXCEPT ![tx[p]] = w]
             \/ InTx(p) /\ tx' = tx /\ fate' = [fate EXCEPT ![tx[p]] = "doomed"]
  <2>0. stack[p] # <<>>
    BY <1>4 DEF Return, Running
  <2>1. CASE "transaction" \in Top(p).has
    <3>1. InTx(p)
      <4>1. Top(p) = stack[p][Len(stack[p])] /\ Len(stack[p]) \in Nat \ {0}
        BY <2>0, StackFacts
      <4>2. \E i \in 1..Len(stack[p]) : HasTx(stack[p][i])
        BY <2>1, <4>1, SMT DEF HasTx
      <4> QED  BY <4>2 DEF StacksSound, Staged, InTx
    <3>2. /\ tx' = [tx EXCEPT ![p] = 0] /\ held' = [held EXCEPT ![p] = {}]
          /\ \E w \in {"committed", "rolled back"} : fate' = [fate EXCEPT ![tx[p]] = w]
      BY <1>4, <2>1, Zenon DEF Return, KeptAfter
    <3> QED  BY <3>1, <3>2
  <2>2. CASE "transaction" \notin Top(p).has
    BY <1>4, <2>2, Zenon DEF Return
  <2> QED  BY <2>1, <2>2
<1>5. CASE Abort(p)
  <2>1. CASE InTx(p)
    BY <1>5, <2>1, Zenon DEF Abort
  <2>2. CASE ~InTx(p)
    <3>1. tx' = [tx EXCEPT ![p] = 0] /\ fate' = fate /\ tx[p] = 0
      BY <1>5, <2>2 DEF Abort, InTx
    <3>2. tx' = tx
      BY <3>1, Functions, Zenon
    <3> QED  BY <3>1, <3>2
  <2> QED  BY <2>1, <2>2
<1> QED  BY <1>1, <1>2, <1>3, <1>4, <1>5 DEF Step

LEMMA TypeStep ==
  ASSUME TypeOK, StacksSound, node' = node, NEW p \in Procs, Step(p)
  PROVE  TypeOK'
<1>1. node' \in Places
  BY DEF TypeOK
<1>2. stack' \in [Procs -> Seq(Frames)] /\ \A q \in Procs : Len(stack'[q]) <= MaxDepth
  BY StackTyped
<1>3. todo' \in [Procs -> Seq(Steps)]
  <2>1. StacksSound'
    BY StacksStep
  <2>2. \A q \in Procs : todo'[q] \in Seq(Steps)
    BY <2>1, TodosTyped DEF StacksSound, Staged
  <2>3. todo' = todo \/ \E v : todo' = [todo EXCEPT ![p] = v]
    BY Zenon DEF Step, Call, Take, GoOnUnlocked, Defer, Return, Unlock, RunEffect, Abort
  <2>4. DOMAIN todo' = Procs /\ todo' = [q \in DOMAIN todo' |-> todo'[q]]
    BY <2>3, Functions, SMT
  <2> QED  BY <2>2, <2>4, SMT
<1>4. closing' \in [Procs -> {"no", "ok", "error"}]
  <2>1. \E v \in {"no", "ok", "error"} : closing' = closing \/ closing' = [closing EXCEPT ![p] = v]
    BY Zenon DEF Step, Call, Take, GoOnUnlocked, Defer, Return, Unlock, RunEffect, Abort
  <2> QED  BY <2>1, Functions, Updated, Zenon
<1>5. held' \in [Procs -> SUBSET Keys]
  <2>1. \E h \in SUBSET Keys : held' = held \/ held' = [held EXCEPT ![p] = h]
    <3>1. ASSUME Take(p), Needs(p) = "advisory" PROVE Top(p).key \in Keys
      <4>1. todo[p] = <<"advisory">> /\ stack[p] # <<>>
        BY <3>1, TakeFacts, TodoSteps, Zenon
      <4>2. <<"advisory">> # <<>> /\ <<"advisory">> # <<"transaction">>
        BY SMT
      <4> QED  BY <4>1, <4>2, StackFacts DEF StacksSound, Staged
    <3>2. held[p] \subseteq Keys
      BY Functions, SMT
    <3>3. CASE Take(p)
      <4>1. CASE Needs(p) = "advisory"
        <5>1. held' = [held EXCEPT ![p] = held[p] \cup {Top(p).key}]
          BY <3>3, <4>1, TakeFacts, Zenon
        <5>2. held[p] \cup {Top(p).key} \in SUBSET Keys
          BY <3>1, <3>2, <3>3, <4>1
        <5> QED  BY <5>1, <5>2
      <4>2. CASE Needs(p) # "advisory"
        BY <3>3, <4>2, TakeFacts, Zenon
      <4> QED  BY <4>1, <4>2
    <3>4. CASE ~Take(p)
      BY <3>4, Zenon DEF Step, Call, GoOnUnlocked, Defer, Return, KeptAfter, Unlock, RunEffect, Abort
    <3> QED  BY <3>3, <3>4
  <2> QED  BY <2>1, Functions, Updated, Zenon
<1>6. queue' \in [Procs -> Seq(Tx)]
  <2>1. \E s \in Seq(Tx) : queue' = queue \/ queue' = [queue EXCEPT ![p] = s]
    <3>1. <<>> \in Seq(Tx) /\ queue[p] \in Seq(Tx)
      BY EmptySeq, Functions, SMT
    <3>2. ASSUME Defer(p), InScope(p)
          PROVE  Append(queue[p], tx[p]) \in Seq(Tx)
      <4>1. tx[p] \in 0..MaxTx /\ tx[p] # 0
        BY <3>2, InScopeFacts, Functions, SMT DEF Defer, InTx
      <4>2. tx[p] \in Tx
        BY <4>1, BoundsAssumption, SMT DEF Tx
      <4> QED  BY <3>1, <4>2, SMT
    <3>3. CASE Defer(p)
      BY <3>1, <3>2, <3>3, Zenon DEF Defer
    <3>4. CASE \E op \in Ops, k \in Keys \cup {NoKey} : Call(p, op, k)
      BY <3>1, <3>4, Zenon DEF Call
    <3>5. CASE ~Defer(p) /\ ~\E op \in Ops, k \in Keys \cup {NoKey} : Call(p, op, k)
      BY <3>1, <3>5, Zenon DEF Step, Take, GoOnUnlocked, Return, Unlock, RunEffect, Abort
    <3> QED  BY <3>3, <3>4, <3>5
  <2> QED  BY <2>1, Functions, Updated, Zenon
<1>7. /\ tx' \in [Procs -> 0..MaxTx]
      /\ fate' \in [Tx -> {"unused", "open", "doomed", "committed", "rolled back"}]
  <2>1. fate \in [Tx -> {"unused", "open", "doomed", "committed", "rolled back"}]
    BY DEF TypeOK
  <2>2. \/ tx' = tx
        \/ \E t \in 0..MaxTx : tx' = [tx EXCEPT ![p] = t]
    <3>1. Tx \subseteq 0..MaxTx /\ 0 \in 0..MaxTx
      BY BoundsAssumption, SMT DEF Tx
    <3> QED  BY <3>1, TxStep, Zenon
  <2>3. \/ fate' = fate
        \/ \E t, w : /\ w \in {"unused", "open", "doomed", "committed", "rolled back"}
                     /\ fate' = [fate EXCEPT ![t] = w]
    BY TxStep, Zenon
  <2>4. tx' \in [Procs -> 0..MaxTx]
    <3>1. tx \in [Procs -> 0..MaxTx]
      BY DEF TypeOK
    <3>2. CASE tx' = tx
      BY <3>1, <3>2
    <3>3. CASE \E t \in 0..MaxTx : tx' = [tx EXCEPT ![p] = t]
      BY <3>1, <3>3, Updated, Zenon
    <3> QED  BY <2>2, <3>2, <3>3
  <2>5. fate' \in [Tx -> {"unused", "open", "doomed", "committed", "rolled back"}]
    <3>1. CASE fate' = fate
      BY <2>1, <3>1
    <3>2. CASE \E t, w : /\ w \in {"unused", "open", "doomed", "committed", "rolled back"}
                         /\ fate' = [fate EXCEPT ![t] = w]
      BY <2>1, <3>2, Updated, Zenon
    <3> QED  BY <2>3, <3>1, <3>2
  <2> QED  BY <2>4, <2>5
<1>8. ran' \subseteq 0..MaxTx
  <2>1. ran \subseteq 0..MaxTx /\ tx[p] \in 0..MaxTx
    BY DEF TypeOK
  <2>2. ASSUME RunEffect(p), Top(p).effects # <<>>
        PROVE  Head(Top(p).effects) \in 0..MaxTx
    <3>1. stack[p] # <<>>
      BY <2>2 DEF RunEffect, Running
    <3>2. Top(p) \in Frames
      BY <3>1, StackFacts
    <3>3. Head(Top(p).effects) \in Tx
      BY <2>2, <3>2, FrameChanged, HeadTailProperties, Zenon
    <3> QED  BY <3>3, BoundsAssumption, SMT DEF Tx
  <2>3. CASE RunEffect(p)
    BY <2>1, <2>2, <2>3, Zenon DEF RunEffect
  <2>4. CASE ~RunEffect(p)
    <3>1. ran' = ran \/ ran' = ran \cup {tx[p]}
      BY <2>4, Zenon DEF Step, Call, Take, GoOnUnlocked, Defer, Return, Unlock, Abort
    <3> QED  BY <2>1, <3>1
  <2> QED  BY <2>3, <2>4
<1> QED  BY <1>1, <1>2, <1>3, <1>4, <1>5, <1>6, <1>7, <1>8 DEF TypeOK

-----------------------------------------------------------------------------
\* Transactions, and what waits for them.
LEMMA TxSoundStep ==
  ASSUME TypeOK, StacksSound, TxSound, NEW p \in Procs, Step(p)
  PROVE  /\ TxSound'
         /\ \A t \in Tx : fate[t] \in {"committed", "rolled back"} => fate'[t] = fate[t]
<1>0. /\ fate \in [Tx -> {"unused", "open", "doomed", "committed", "rolled back"}]
      /\ tx \in [Procs -> 0..MaxTx]
      /\ \A q \in Procs : InTx(q) => tx[q] \in Tx
  <2>1. \A n \in 0..MaxTx : n # 0 => n \in 1..MaxTx
    BY BoundsAssumption, SMT
  <2> QED  BY <2>1, Zenon DEF TypeOK, Tx, InTx
<1>1. CASE tx' = tx /\ fate' = fate
  BY <1>1 DEF TxSound, InTx
<1>2. ASSUME NEW t \in Tx, fate[t] = "unused", tx[p] = 0, tx' = [tx EXCEPT ![p] = t],
             fate' = [fate EXCEPT ![t] = "open"]
      PROVE  /\ TxSound'
             /\ \A u \in Tx : fate[u] \in {"committed", "rolled back"} => fate'[u] = fate[u]
  <2>1. tx'[p] = t /\ \A q \in Procs : q # p => tx'[q] = tx[q]
    BY <1>0, <1>2, ExceptAt, Zenon
  <2>2. fate'[t] = "open" /\ \A u \in Tx : u # t => fate'[u] = fate[u]
    BY <1>0, <1>2, ExceptAt, Zenon
  <2>3. \A q \in Procs : InTx(q) => tx[q] \in Tx /\ tx[q] # t /\ fate[tx[q]] \in {"open", "doomed"}
    BY <1>0, <1>2, Zenon DEF TxSound
  <2>4. t # 0
    BY BoundsAssumption, SMT DEF Tx
  <2>5. \A q \in Procs : InTx(q)' => fate'[tx'[q]] \in {"open", "doomed"}
    BY <2>1, <2>2, <2>3, Zenon DEF InTx
  <2>6. \A q, r \in Procs : InTx(q)' /\ tx'[q] = tx'[r] => q = r
    BY <2>1, <2>3, <2>4, Zenon DEF InTx, TxSound
  <2> QED  BY <1>2, <2>2, <2>5, <2>6, Zenon DEF TxSound
<1>3. ASSUME InTx(p), tx' = [tx EXCEPT ![p] = 0],
             NEW w, fate' = [fate EXCEPT ![tx[p]] = w]
      PROVE  /\ TxSound'
             /\ \A u \in Tx : fate[u] \in {"committed", "rolled back"} => fate'[u] = fate[u]
  <2>1. tx'[p] = 0 /\ \A q \in Procs : q # p => tx'[q] = tx[q]
    BY <1>0, <1>3, ExceptAt, Zenon
  <2>2. \A u \in Tx : u # tx[p] => fate'[u] = fate[u]
    BY <1>0, <1>3, ExceptAt, Zenon
  <2>3. \A q \in Procs : InTx(q) => tx[q] \in Tx /\ fate[tx[q]] \in {"open", "doomed"}
                                    /\ (q # p => tx[q] # tx[p])
    BY <1>0, <1>3, Zenon DEF TxSound
  <2>4. \A q \in Procs : InTx(q)' => fate'[tx'[q]] \in {"open", "doomed"}
    BY <2>1, <2>2, <2>3, Zenon DEF InTx
  <2>5. \A q, r \in Procs : InTx(q)' /\ tx'[q] = tx'[r] => q = r
    BY <2>1, Zenon DEF InTx, TxSound
  <2>6. \A u \in Tx : fate[u] \in {"committed", "rolled back"} => u # tx[p]
    BY <1>3, <2>3, Zenon
  <2> QED  BY <2>2, <2>4, <2>5, <2>6, Zenon DEF TxSound
<1>4. CASE InTx(p) /\ tx' = tx /\ fate' = [fate EXCEPT ![tx[p]] = "doomed"]
  <2>1. fate[tx[p]] \in {"open", "doomed"} /\ tx[p] \in Tx
    BY <1>0, <1>4 DEF TxSound
  <2>2. fate'[tx[p]] = "doomed" /\ \A u \in Tx : u # tx[p] => fate'[u] = fate[u]
    BY <1>0, <1>4, <2>1, ExceptAt, Zenon
  <2>3. \A q \in Procs : InTx(q)' => fate'[tx'[q]] \in {"open", "doomed"}
    BY <1>0, <1>4, <2>2, Zenon DEF InTx, TxSound
  <2>4. \A u \in Tx : fate[u] \in {"committed", "rolled back"} => u # tx[p]
    BY <2>1, Zenon
  <2> QED  BY <1>4, <2>2, <2>3, <2>4, Zenon DEF TxSound, InTx
<1> QED  BY <1>1, <1>2, <1>3, <1>4, TxStep, Zenon

LEMMA OneWriterStep ==
  ASSUME TypeOK, StacksSound, OneWriter, NEW p \in Procs, Step(p)
  PROVE  OneWriter'
<1>1. ASSUME ~Postgres, NEW t, tx' = [tx EXCEPT ![p] = t], Take(p), Needs(p) = "transaction",
             NEW q \in Procs, NEW r \in Procs, InTx(q)', InTx(r)'
      PROVE  q = r
  <2>1. Blockers(p) = {}
    BY <1>1, TakeFacts
  <2>2. Blockers(p) = {s \in Others(p) : InTx(s)}
    BY <1>1, Zenon DEF Blockers
  <2>3. \A s \in Procs : s # p => ~InTx(s) /\ tx'[s] = tx[s]
    BY <1>1, <2>1, <2>2, Functions, SMT DEF Others
  <2> QED  BY <1>1, <2>3 DEF InTx
<1>2. ASSUME ~Postgres, \A s \in Procs : tx'[s] = tx[s] \/ tx'[s] = 0,
             NEW q \in Procs, NEW r \in Procs, InTx(q)', InTx(r)'
      PROVE  q = r
  BY <1>2 DEF OneWriter, InTx
<1>3. \/ \A s \in Procs : tx'[s] = tx[s] \/ tx'[s] = 0
      \/ Take(p) /\ Needs(p) = "transaction" /\ \E t : tx' = [tx EXCEPT ![p] = t]
  <2>1. ASSUME tx' = [tx EXCEPT ![p] = 0] PROVE \A s \in Procs : tx'[s] = tx[s] \/ tx'[s] = 0
    BY <2>1, Functions, SMT
  <2> QED  BY <2>1, TxStep, Zenon
<1> QED  BY <1>1, <1>2, <1>3 DEF OneWriter

LEMMA LocksOfTxStep ==
  ASSUME TypeOK, StacksSound, LocksOfTx, NEW p \in Procs, Step(p)
  PROVE  LocksOfTx'
<1>1. ASSUME NEW q \in Procs, q # p, held'[q] # {}
      PROVE  InTx(q)'
  BY <1>1, OthersUntouched DEF LocksOfTx, InTx
<1>2. ASSUME held'[p] # {}
      PROVE  InTx(p)'
  <2>1. CASE tx' = [tx EXCEPT ![p] = 0] /\ held' = [held EXCEPT ![p] = {}]
    BY <1>2, <2>1, Functions, SMT
  <2>2. CASE Take(p) /\ Needs(p) = "advisory"
    <3>1. todo[p] = <<"advisory">> /\ tx' = tx
      BY <2>2, TakeFacts, TodoSteps, Zenon
    <3> QED  BY <3>1 DEF StacksSound, Staged, InTx
  <2>3. CASE tx'[p] = tx[p] /\ held'[p] = held[p]
    BY <1>2, <2>3 DEF LocksOfTx, InTx
  <2>4. CASE Take(p) /\ Needs(p) = "transaction"
    <3>1. PICK t \in Tx : tx' = [tx EXCEPT ![p] = t]
      BY <2>4, TakeFacts, Zenon
    <3> QED  BY <3>1, Functions, BoundsAssumption, SMT DEF Tx, InTx
  <2>5. held' = held \/ held' = [held EXCEPT ![p] = {}] \/ (Take(p) /\ Needs(p) = "advisory")
    <3>1. CASE Take(p)
      BY <3>1, TakeFacts, Zenon
    <3>2. CASE ~Take(p)
      BY <3>2, Zenon DEF Step, Call, GoOnUnlocked, Defer, Return, KeptAfter, Unlock, RunEffect, Abort
    <3> QED  BY <3>1, <3>2
  <2>6. held' # [held EXCEPT ![p] = {}]
    BY <1>2, Functions, SMT
  <2> QED  BY <2>1, <2>2, <2>3, <2>4, <2>5, <2>6, TxStep, Zenon
<1> QED  BY <1>1, <1>2 DEF LocksOfTx

\* The calls of a stack keep their effects when one goes on top, the top is changed,
\* or left.
LEMMA CommittedStacks ==
  ASSUME NEW S \in Seq(Frames), NEW ft, DueCommitted(S, ft)
  PROVE  /\ \A f \in Frames : Committed(f, ft) => DueCommitted(Append(S, f), ft)
         /\ S # <<>> =>
              /\ Committed(S[Len(S)], ft)
              /\ DueCommitted(Front(S), ft)
              /\ \A f \in Frames : Committed(f, ft) =>
                   /\ DueCommitted([S EXCEPT ![Len(S)] = f], ft)
                   /\ DueCommitted(Append(Front(S), f), ft)
<1>0. Len(S) \in Nat
  BY LenProperties
<1>1. ASSUME NEW T \in Seq(Frames), DueCommitted(T, ft), NEW f \in Frames, Committed(f, ft)
      PROVE  DueCommitted(Append(T, f), ft)
  <2>. DEFINE R == Append(T, f)
  <2>1. /\ Len(R) = Len(T) + 1 /\ R[Len(T) + 1] = f /\ Len(T) \in Nat
        /\ \A i \in 1..Len(T) : R[i] = T[i]
    BY Pushed, LenProperties
  <2>. HIDE DEF R
  <2>2. ASSUME NEW i \in 1..Len(R) PROVE Committed(R[i], ft)
    <3>1. i = Len(T) + 1 \/ i \in 1..Len(T)
      BY <2>1, SMT
    <3> QED  BY <1>1, <2>1, <3>1, Zenon DEF DueCommitted
  <2> QED  BY <2>2 DEF DueCommitted, R
<1>2. ASSUME S # <<>>
      PROVE  /\ Front(S) \in Seq(Frames) /\ Committed(S[Len(S)], ft) /\ DueCommitted(Front(S), ft)
             /\ \A f \in Frames : Committed(f, ft) => DueCommitted([S EXCEPT ![Len(S)] = f], ft)
  <2>1. /\ Len(S) \in Nat \ {0} /\ Front(S) \in Seq(Frames) /\ Len(Front(S)) = Len(S) - 1
        /\ \A i \in 1..(Len(S) - 1) : Front(S)[i] = S[i]
    BY <1>2, Popped
  <2>2. Len(S) \in 1..Len(S) /\ 1..(Len(S) - 1) \subseteq 1..Len(S)
    BY <2>1, SMT
  <2>3. Committed(S[Len(S)], ft) /\ DueCommitted(Front(S), ft)
    BY <2>1, <2>2, Zenon DEF DueCommitted
  <2>4. ASSUME NEW f \in Frames, Committed(f, ft) PROVE DueCommitted([S EXCEPT ![Len(S)] = f], ft)
    <3>. DEFINE R == [S EXCEPT ![Len(S)] = f]
    <3>1. Len(R) = Len(S) /\ R[Len(S)] = f /\ \A i \in 1..(Len(S) - 1) : R[i] = S[i]
      BY <1>2, TopSet
    <3>2. \A i \in 1..Len(S) : i = Len(S) \/ i \in 1..(Len(S) - 1)
      BY <2>1, SMT
    <3>. HIDE DEF R
    <3>3. DueCommitted(R, ft)
      BY <2>2, <2>4, <3>1, <3>2, Zenon DEF DueCommitted
    <3> QED  BY <3>3 DEF R
  <2> QED  BY <2>1, <2>3, <2>4
<1> QED  BY <1>1, <1>2

\* A decided transaction stays as it is, and what waits for it with it.
LEMMA QueuesOf ==
  ASSUME TypeOK, NEW ft, \A t \in Tx : fate[t] \in {"committed", "rolled back"} => ft[t] = fate[t],
         NEW p \in Procs
  PROVE  /\ Queued(stack[p], closing[p], queue[p], tx[p], fate)
              => Queued(stack[p], closing[p], queue[p], tx[p], ft)
         /\ DueCommitted(stack[p], fate) => DueCommitted(stack[p], ft)
<1>1. queue[p] \in Seq(Tx) /\ stack[p] \in Seq(Frames)
  BY DEF TypeOK
<1>2. \A i \in 1..Len(queue[p]) : queue[p][i] \in Tx
  BY <1>1, ElementOfSeq, Zenon
<1>3. \A i \in 1..Len(stack[p]) : \A j \in 1..Len(stack[p][i].effects) : stack[p][i].effects[j] \in Tx
  <2>1. ASSUME NEW i \in 1..Len(stack[p]) PROVE stack[p][i].effects \in Seq(Tx)
    BY <1>1, ElementOfSeq, FrameChanged, Zenon
  <2> QED  BY <2>1, ElementOfSeq, Zenon
<1> QED  BY <1>2, <1>3, Zenon DEF Queued, DueCommitted, Committed

\* While nothing has returned, everything deferred is of the transaction at hand.
LEMMA QueueOpen ==
  ASSUME NEW p \in Procs, closing[p] = "no", Queued(stack[p], closing[p], queue[p], tx[p], fate)
  PROVE  \A i \in 1..Len(queue[p]) : tx[p] # 0 /\ queue[p][i] = tx[p]
BY Zenon DEF Queued

LEMMA NoEffects ==
  ASSUME NEW f, NEW ft, f.effects = <<>>
  PROVE  Committed(f, ft)
<1>1. 1..Len(f.effects) = {}
  BY SMT
<1> QED  BY <1>1, Zenon DEF Committed

\* A transaction number is a transaction but for 0.
LEMMA TxNumbers ==
  ASSUME TypeOK, NEW t \in 0..MaxTx, t # 0
  PROVE  t \in Tx
BY BoundsAssumption, SMT DEF Tx

Waiting(S, cl, qu, t, ft) == Queued(S, cl, qu, t, ft) /\ DueCommitted(S, ft)
Ran(ft) == \A t \in ran' : t # 0 => ft[t] = "committed"
LEMMA QueuesStep ==
  ASSUME TypeOK, StacksSound, TxSound, QueuesSound, NEW p \in Procs, Step(p)
  PROVE  QueuesSound'
<1>. DEFINE S == stack[p]
            GoodNow == Waiting(stack'[p], closing'[p], queue'[p], tx'[p], fate')
<1>a. \A t \in Tx : fate[t] \in {"committed", "rolled back"} => fate'[t] = fate[t]
  BY TxSoundStep
<1>b. S \in Seq(Frames) /\ Nested(S) /\ Staged(S, todo[p], closing[p], tx[p])
  BY DEF TypeOK, StacksSound
<1>c. queue[p] \in Seq(Tx) /\ tx[p] \in 0..MaxTx /\ (tx[p] # 0 => tx[p] \in Tx)
  BY TxNumbers DEF TypeOK
<1>1. /\ Waiting(S, closing[p], queue[p], tx[p], fate)
      /\ Waiting(S, closing[p], queue[p], tx[p], fate')
  BY <1>a, QueuesOf, Zenon DEF QueuesSound, Waiting
<1>2. ASSUME NEW q \in Procs, q # p
      PROVE  Waiting(stack'[q], closing'[q], queue'[q], tx'[q], fate')
  <2>1. Waiting(stack[q], closing[q], queue[q], tx[q], fate')
    BY <1>a, QueuesOf, Zenon DEF QueuesSound, Waiting
  <2> QED  BY <1>2, <2>1, OthersUntouched, Zenon
<1>3. ASSUME closing[p] = "no"
      PROVE  \A i \in 1..Len(queue[p]) : tx[p] # 0 /\ queue[p][i] = tx[p]
  BY <1>1, <1>3, QueueOpen, Zenon DEF Waiting
<1>4. ASSUME S # <<>>
      PROVE  Top(p) = S[Len(S)] /\ Top(p) \in Frames /\ Len(S) \in Nat \ {0}
  BY <1>4, StackFacts
<1>e. DueCommitted(S, fate')
  BY <1>1 DEF Waiting
<1>5. \A t \in ran : t # 0 => fate'[t] = "committed"
  <2>1. \A t \in ran : t # 0 => t \in Tx
    BY TxNumbers, Zenon DEF TypeOK
  <2> QED  BY <1>a, <2>1, Zenon DEF QueuesSound
<1>6. 1..Len(<<>>) = {}
  BY SMT
<1>d. SUFFICES GoodNow /\ Ran(fate')
  BY <1>2, Zenon DEF QueuesSound, Waiting, Ran
<1>f. ASSUME ran' = ran
      PROVE  Ran(fate')
  BY <1>5, <1>f DEF Ran
<1>g. ASSUME Queued(stack'[p], closing'[p], queue'[p], tx'[p], fate'), DueCommitted(stack'[p], fate')
      PROVE  GoodNow
  BY <1>g DEF Waiting
<1>7. ASSUME NEW op \in Ops, NEW k \in Keys \cup {NoKey}, Call(p, op, k)
      PROVE  GoodNow /\ Ran(fate')
  <2>1. /\ NewFrame(p, op, k) \in Frames /\ stack'[p] = Append(S, NewFrame(p, op, k))
        /\ closing' = closing /\ tx' = tx /\ ran' = ran
        /\ queue'[p] = queue[p] \/ queue'[p] = <<>>
    <3>1. /\ NewFrame(p, op, k) \in Frames
          /\ stack' = [stack EXCEPT ![p] = Append(S, NewFrame(p, op, k))]
      BY <1>7, CallStack
    <3>2. queue' = [queue EXCEPT ![p] = IF NewScope(p, op) THEN <<>> ELSE queue[p]]
          /\ closing' = closing /\ tx' = tx /\ ran' = ran
      BY <1>7 DEF Call
    <3> QED  BY <3>1, <3>2, Functions, SMT
  <2>2. closing[p] = "no"
    BY <1>7, InScopeFacts DEF Call
  <2>3. DueCommitted(Append(S, NewFrame(p, op, k)), fate')
    <3>1. Committed(NewFrame(p, op, k), fate')
      BY NoEffects DEF NewFrame
    <3> QED  BY <1>b, <1>e, <2>1, <3>1, CommittedStacks, Zenon
  <2>4. Queued(stack'[p], closing'[p], queue'[p], tx'[p], fate')
    BY <1>3, <1>6, <2>1, <2>2, Zenon DEF Queued
  <2> QED  BY <1>f, <1>g, <2>1, <2>3, <2>4
<1>8. CASE Take(p)
  <2>1. /\ S # <<>> /\ closing[p] = "no" /\ closing' = closing /\ queue' = queue /\ ran' = ran
        /\ \/ stack'[p] = S
           \/ \E part \in Parts : /\ Given(p, part) \in Frames
                                  /\ stack'[p] = [S EXCEPT ![Len(S)] = Given(p, part)]
    <3>1. \/ stack' = stack
          \/ \E part \in Parts : /\ Given(p, part) \in Frames
                                 /\ stack' = [stack EXCEPT ![p] = [S EXCEPT ![Len(S)] = Given(p, part)]]
      BY <1>8, TakeFacts, Zenon DEF Parts
    <3> QED  BY <1>8, <3>1, TakeFacts, Functions, ExceptAt, Zenon
  <2>2. DueCommitted(stack'[p], fate')
    <3>1. ASSUME NEW part \in Parts, Given(p, part) \in Frames
          PROVE  DueCommitted([S EXCEPT ![Len(S)] = Given(p, part)], fate')
      <4>1. Given(p, part).effects = S[Len(S)].effects
        BY <1>4, <2>1, SMT DEF Given, Frames
      <4>2. Committed(S[Len(S)], fate')
        BY <1>b, <1>e, <2>1, CommittedStacks, Zenon
      <4>3. Committed(Given(p, part), fate')
        BY <4>1, <4>2 DEF Committed
      <4> QED  BY <1>b, <1>e, <2>1, <3>1, <4>3, CommittedStacks, Zenon
    <3> QED  BY <1>e, <2>1, <3>1, Zenon
  <2>3. tx'[p] = tx[p] \/ tx[p] = 0
    <3>1. ASSUME Needs(p) = "transaction" PROVE tx[p] = 0
      <4>1. todo[p] \in ToOpen
        BY <1>8, <3>1, TakeFacts, TakeTodo, Zenon
      <4> QED  BY <4>1 DEF StacksSound, Staged
    <3> QED  BY <1>8, <3>1, TakeFacts, Zenon
  <2>4. \A i \in 1..Len(queue[p]) : tx'[p] # 0 /\ queue[p][i] = tx'[p]
    BY <1>3, <2>1, <2>3, Zenon
  <2>5. Queued(stack'[p], closing'[p], queue'[p], tx'[p], fate')
    BY <2>1, <2>4, Zenon DEF Queued
  <2> QED  BY <1>f, <1>g, <2>1, <2>2, <2>5
<1>9. CASE GoOnUnlocked(p)
  <2>1. stack' = stack /\ closing' = closing /\ queue' = queue /\ tx' = tx /\ ran' = ran
    BY <1>9 DEF GoOnUnlocked
  <2> QED  BY <1>1, <1>f, <2>1
<1>10. CASE Defer(p)
  <2>1. closing[p] = "no" /\ closing' = closing /\ stack' = stack /\ tx' = tx
    BY <1>10, InScopeFacts DEF Defer
  <2>2. CASE InScope(p)
    <3>1. tx[p] # 0 /\ ran' = ran
      BY <1>10, <2>2, InScopeFacts DEF Defer, InTx
    <3>2. tx[p] \in Tx
      BY <1>c, <3>1
    <3>3. queue'[p] = Append(queue[p], tx[p])
      <4>1. queue' = [queue EXCEPT ![p] = Append(queue[p], tx[p])]
        BY <1>10, <2>2 DEF Defer
      <4> QED  BY <4>1, Functions, SMT
    <3>4. \A i \in 1..Len(queue'[p]) : queue'[p][i] = tx[p]
      <4>1. \A i \in 1..Len(queue[p]) : queue[p][i] = tx[p]
        BY <1>3, <2>1
      <4>2. /\ Len(Append(queue[p], tx[p])) = Len(queue[p]) + 1
            /\ \A i \in 1..Len(queue[p]) : Append(queue[p], tx[p])[i] = queue[p][i]
            /\ Append(queue[p], tx[p])[Len(queue[p]) + 1] = tx[p]
            /\ \A i \in 1..(Len(queue[p]) + 1) : i = Len(queue[p]) + 1 \/ i \in 1..Len(queue[p])
        BY <1>c, <3>2, AppendProperties, LenProperties, SMT
      <4> QED  BY <3>3, <4>1, <4>2, Zenon
    <3>5. Queued(stack'[p], closing'[p], queue'[p], tx'[p], fate')
      BY <2>1, <3>1, <3>4, Zenon DEF Queued
    <3> QED  BY <1>e, <1>f, <1>g, <2>1, <3>1, <3>5
  <2>3. CASE ~InScope(p)
    <3>1. tx[p] = 0 /\ ran' = ran \cup {tx[p]} /\ queue' = queue
      BY <1>10, <2>3, InScopeFacts DEF Defer, InTx
    <3>2. Ran(fate')
      BY <1>5, <3>1, Zenon DEF Ran
    <3> QED  BY <1>1, <2>1, <3>1, <3>2
  <2> QED  BY <2>2, <2>3
<1>11. ASSUME NEW ok \in BOOLEAN, Return(p, ok)
       PROVE  GoodNow /\ Ran(fate')
  <2>1. /\ S # <<>> /\ Taken(p) \in Frames /\ closing[p] = "no" /\ queue' = queue /\ ran' = ran
        /\ stack'[p] = [S EXCEPT ![Len(S)] = Taken(p)]
    <3>1. stack' = [stack EXCEPT ![p] = [S EXCEPT ![Len(S)] = Taken(p)]]
      BY <1>11, ReturnStack
    <3> QED  BY <1>11, <3>1, ReturnTop DEF Return, Running
  <2>2. DueCommitted(stack'[p], fate')
    <3>1. Taken(p).effects = S[Len(S)].effects
      BY <1>4, <2>1, SMT DEF Taken, Frames
    <3>2. Committed(S[Len(S)], fate')
      BY <1>b, <1>e, <2>1, CommittedStacks, Zenon
    <3>3. Committed(Taken(p), fate')
      BY <3>1, <3>2 DEF Committed
    <3>4. DueCommitted([S EXCEPT ![Len(S)] = Taken(p)], fate')
      BY <1>b, <1>e, <2>1, <3>3, CommittedStacks, Zenon
    <3> QED  BY <2>1, <3>4
  <2>3. CASE "transaction" \notin Top(p).has
    <3>1. tx' = tx
      BY <1>11, <2>3 DEF Return
    <3>2. Queued(stack'[p], closing'[p], queue'[p], tx'[p], fate')
      BY <1>3, <2>1, <3>1, Zenon DEF Queued
    <3> QED  BY <1>f, <1>g, <2>1, <2>2, <3>2
  <2>4. CASE "transaction" \in Top(p).has
    <3>1. PICK good \in BOOLEAN :
            /\ closing' = [closing EXCEPT ![p] = IF good THEN "ok" ELSE "error"]
            /\ fate' = [fate EXCEPT ![tx[p]] = IF good THEN "committed" ELSE "rolled back"]
            /\ tx' = [tx EXCEPT ![p] = 0]
      BY <1>11, <2>4, Zenon DEF Return
    <3>2. HasTx(S[Len(S)])
      BY <1>4, <2>1, <2>4 DEF HasTx
    <3>3. tx[p] \in Tx
      <4>1. tx[p] # 0
        BY <1>b, <1>4, <2>1, <3>2, SMT DEF Staged
      <4> QED  BY <1>c, <4>1
    <3>4. /\ closing'[p] = IF good THEN "ok" ELSE "error"
          /\ fate'[tx[p]] = IF good THEN "committed" ELSE "rolled back"
          /\ tx'[p] = 0
      <4>1. fate \in [Tx -> {"unused", "open", "doomed", "committed", "rolled back"}]
        BY DEF TypeOK
      <4> QED  BY <3>1, <3>3, <4>1, Functions, ExceptAt, Zenon
    <3>5. stack'[p] # <<>> /\ HasScope(stack'[p][Len(stack'[p])])
      <4>1. HasScope(S[Len(S)])
        BY <1>b, <1>4, <2>1, <3>2, SMT DEF Nested
      <4>2. HasScope(Taken(p))
        BY <1>4, <2>1, <4>1, SMT DEF Taken, HasScope, Frames
      <4>3. /\ [S EXCEPT ![Len(S)] = Taken(p)] \in Seq(Frames)
            /\ Len([S EXCEPT ![Len(S)] = Taken(p)]) = Len(S)
            /\ [S EXCEPT ![Len(S)] = Taken(p)][Len(S)] = Taken(p)
        BY <1>b, <2>1, TopSet
      <4>4. Len(<<>>) = 0 /\ Len(S) # 0
        BY <1>4, <2>1, SMT
      <4> QED  BY <2>1, <4>2, <4>3, <4>4, Zenon
    <3>6. Queued(stack'[p], closing'[p], queue'[p], tx'[p], fate')
      BY <1>3, <2>1, <3>4, <3>5, Zenon DEF Queued
    <3> QED  BY <1>f, <1>g, <2>1, <2>2, <3>6
  <2> QED  BY <2>3, <2>4
<1>12. CASE Unlock(p)
  <2>1. S # <<>> /\ closing[p] # "no" /\ tx' = tx /\ ran' = ran
    BY <1>12, UnlockStack DEF Unlock
  <2>2. ~HasTx(S[Len(S)])
    BY <1>b, <2>1 DEF Staged
  <2>3. HasScope(Top(p)) => tx[p] = 0
    BY <1>b, <1>4, <2>1, <2>2, BelowTop, Zenon
  <2>4. queue'[p] = IF HasScope(Top(p)) THEN <<>> ELSE queue[p]
    <3>1. queue' = IF HasScope(Top(p)) THEN [queue EXCEPT ![p] = <<>>] ELSE queue
      BY <1>12 DEF Unlock, HasScope
    <3> QED  BY <3>1, Functions, ExceptAt, Zenon
  <2>5. Queued(stack'[p], closing'[p], queue'[p], tx'[p], fate')
    <3>1. CASE HasScope(Top(p))
      BY <1>6, <2>4, <3>1, Zenon DEF Queued, Waiting
    <3>2. CASE ~HasScope(Top(p))
      BY <1>1, <1>4, <2>1, <2>4, <3>2, Zenon DEF Queued, Waiting
    <3> QED  BY <3>1, <3>2
  <2>6. HasScope(Top(p)) /\ closing[p] = "ok" => Committed(Effects(p), fate')
    <3>1. Effects(p).effects = queue[p]
      BY DEF Effects, AfterFrame
    <3> QED  BY <1>1, <2>3, <3>1, Zenon DEF Queued, Committed, Waiting
  <2>7. \/ /\ HasScope(Top(p)) /\ closing[p] = "ok" /\ Effects(p) \in Frames
           /\ stack'[p] = Append(Front(S), Effects(p))
        \/ stack'[p] = Front(S)
    BY <1>12, UnlockTop
  <2>8. DueCommitted(stack'[p], fate')
    BY <1>b, <1>e, <2>1, <2>6, <2>7, CommittedStacks, Zenon
  <2> QED  BY <1>f, <1>g, <2>1, <2>5, <2>8
<1>13. CASE RunEffect(p)
  <2>1. /\ S # <<>> /\ closing[p] = "no" /\ closing' = closing /\ queue' = queue /\ tx' = tx
        /\ fate' = fate
    BY <1>13 DEF RunEffect, Running
  <2>2. Top(p) = S[Len(S)] /\ Top(p) \in Frames
    BY <1>4, <2>1
  <2>3. Committed(Top(p), fate')
    BY <1>b, <1>e, <2>1, <2>2, CommittedStacks, Zenon
  <2>4. CASE Top(p).effects # <<>>
    <3>1. /\ Later(p) \in Frames /\ stack'[p] = [S EXCEPT ![Len(S)] = Later(p)]
          /\ ran' = ran \cup {Head(Top(p).effects)}
      <4>1. /\ Later(p) \in Frames
            /\ stack' = [stack EXCEPT ![p] = [S EXCEPT ![Len(S)] = Later(p)]]
        BY <1>13, <2>4, RunEffectStack, Zenon
      <4>2. ran' = ran \cup {Head(Top(p).effects)}
        BY <1>13, <2>4 DEF RunEffect
      <4> QED  BY <4>1, <4>2, Functions, ExceptAt, Zenon
    <3>2. /\ Len(Tail(Top(p).effects)) = Len(Top(p).effects) - 1
          /\ \A i \in 1..Len(Tail(Top(p).effects)) : Tail(Top(p).effects)[i] = Top(p).effects[i + 1]
          /\ Len(Top(p).effects) \in Nat \ {0}
          /\ Head(Top(p).effects) = Top(p).effects[1]
      BY <2>2, <2>4, FrameChanged, HeadTailProperties, EmptySeq, SMT
    <3>3. Later(p).effects = Tail(Top(p).effects)
      BY <2>2, SMT DEF Later, Frames
    <3>4. Committed(Later(p), fate') /\ fate'[Head(Top(p).effects)] = "committed"
      <4>1. \A i \in 1..Len(Later(p).effects) : i + 1 \in 1..Len(Top(p).effects)
        BY <3>2, <3>3, SMT
      <4>2. 1 \in 1..Len(Top(p).effects)
        BY <3>2, SMT
      <4> QED  BY <2>3, <3>2, <3>3, <4>1, <4>2, ZenonT(30) DEF Committed
    <3>5. DueCommitted(stack'[p], fate')
      BY <1>b, <1>e, <2>1, <3>1, <3>4, CommittedStacks, Zenon
    <3>6. Queued(stack'[p], closing'[p], queue'[p], tx'[p], fate')
      BY <1>3, <2>1, Zenon DEF Queued, Waiting
    <3>7. Ran(fate')
      BY <1>5, <3>1, <3>4, Zenon DEF Ran
    <3> QED  BY <1>g, <3>5, <3>6, <3>7
  <2>5. CASE Top(p).effects = <<>>
    <3>1. stack'[p] = Front(S) /\ ran' = ran
      <4>1. stack' = [stack EXCEPT ![p] = Front(S)] /\ ran' = ran
        BY <1>13, <2>5 DEF RunEffect
      <4> QED  BY <4>1, Functions, ExceptAt, Zenon
    <3>2. DueCommitted(stack'[p], fate')
      BY <1>b, <1>e, <2>1, <3>1, CommittedStacks, Zenon
    <3>3. Queued(stack'[p], closing'[p], queue'[p], tx'[p], fate')
      BY <1>3, <2>1, Zenon DEF Queued, Waiting
    <3> QED  BY <1>f, <1>g, <3>1, <3>2, <3>3
  <2> QED  BY <2>4, <2>5
<1>14. CASE Abort(p)
  <2>1. stack'[p] = <<>> /\ queue'[p] = <<>> /\ ran' = ran
    <3>1. stack' = [stack EXCEPT ![p] = <<>>] /\ queue' = [queue EXCEPT ![p] = <<>>] /\ ran' = ran
      BY <1>14 DEF Abort
    <3> QED  BY <3>1, Functions, SMT
  <2>2. Queued(stack'[p], closing'[p], queue'[p], tx'[p], fate') /\ DueCommitted(stack'[p], fate')
    BY <1>6, <2>1, Zenon DEF Queued, DueCommitted
  <2> QED  BY <1>f, <1>g, <2>1, <2>2
<1> QED  BY <1>7, <1>8, <1>9, <1>10, <1>11, <1>12, <1>13, <1>14, Zenon DEF Step

-----------------------------------------------------------------------------
\* Mutexes.
LEMMA MutexFirstTop ==
  ASSUME NEW S \in Seq(Frames), S # <<>>, NEW td, MutexFirst(S, td), NEW f \in Frames, NEW rest,
         f.key = S[Len(S)].key, "mutex" \in S[Len(S)].has => "mutex" \in f.has,
         Outermost(f) /\ f.key \in Keys => Outermost(S[Len(S)]) \/ "mutex" \in f.has \/ td \in UnderMutex,
         rest \in UnderMutex => td \in UnderMutex \/ "mutex" \in f.has
  PROVE  MutexFirst([S EXCEPT ![Len(S)] = f], rest)
<1>. DEFINE R == [S EXCEPT ![Len(S)] = f]  n == Len(S)
<1>1. /\ R \in Seq(Frames) /\ Len(R) = n /\ R[n] = f
      /\ \A i \in 1..(n - 1) : R[i] = S[i]
      /\ n \in Nat \ {0}
  <2>1. n \in Nat \ {0}
    BY Popped
  <2> QED  BY <2>1, TopSet
<1>2. f.key = S[n].key /\ ("mutex" \in S[n].has => "mutex" \in f.has)
  OBVIOUS
<1>. HIDE DEF R
<1>3. \A i \in 1..n : R[i].key = S[i].key /\ ("mutex" \in S[i].has => "mutex" \in R[i].has)
  <2>1. \A i \in 1..n : i = n \/ i \in 1..(n - 1)
    BY <1>1, SMT
  <2> QED  BY <1>1, <1>2, <2>1, Zenon
<1>4. \A i \in 1..n : 1..i \subseteq 1..n
  BY <1>1, SMT
<1>5. n \in 1..n
  BY <1>1, SMT
<1>6. ASSUME td \in UnderMutex, f.key \in Keys
      PROVE  \E j \in 1..n : "mutex" \in R[j].has /\ R[j].key = f.key
  BY <1>1, <1>2, <1>3, <1>6, Zenon DEF MutexFirst
<1>7. ASSUME "mutex" \in f.has
      PROVE  \E j \in 1..n : "mutex" \in R[j].has /\ R[j].key = f.key
  BY <1>1, <1>5, <1>7, Zenon
<1>8. ASSUME NEW i \in 1..n, Outermost(R[i]), R[i].key \in Keys
      PROVE  \E j \in 1..i : "mutex" \in R[j].has /\ R[j].key = R[i].key
  <2>1. CASE i = n
    <3>1. CASE Outermost(S[n])
      <4>1. \E j \in 1..n : "mutex" \in S[j].has /\ S[j].key = S[n].key
        BY <1>1, <1>2, <1>5, <1>8, <2>1, <3>1, Zenon DEF MutexFirst
      <4> QED  BY <1>3, <1>5, <2>1, <4>1, Zenon
    <3>2. CASE ~Outermost(S[n])
      BY <1>1, <1>6, <1>7, <1>8, <2>1, <3>2
    <3> QED  BY <3>1, <3>2
  <2>2. CASE i \in 1..(n - 1)
    <3>1. R[i] = S[i]
      BY <1>1, <2>2
    <3>2. \E j \in 1..i : "mutex" \in S[j].has /\ S[j].key = S[i].key
      BY <1>8, <3>1, Zenon DEF MutexFirst
    <3> QED  BY <1>3, <1>4, <1>8, <3>2, Zenon
  <2>3. i = n \/ i \in 1..(n - 1)
    BY <1>1, SMT
  <2> QED  BY <2>1, <2>2, <2>3
<1>9. rest \in UnderMutex /\ f.key \in Keys => \E j \in 1..n : "mutex" \in R[j].has /\ R[j].key = f.key
  BY <1>6, <1>7
<1>10. MutexFirst(R, rest)
  BY <1>1, <1>8, <1>9, Zenon DEF MutexFirst
<1> QED  BY <1>10 DEF R

LEMMA MutexFirstRest ==
  ASSUME NEW S \in Seq(Frames), NEW td, MutexFirst(S, td), NEW rest,
         NEW f \in Frames, ~Outermost(f), rest \in UnderMutex => f.key \notin Keys
  PROVE  /\ MutexFirst(Append(S, f), rest)
         /\ S # <<>> => MutexFirst(Front(S), <<>>) /\ MutexFirst(Append(Front(S), f), rest)
<1>1. ASSUME NEW T \in Seq(Frames), NEW u, MutexFirst(T, u)
      PROVE  MutexFirst(Append(T, f), rest)
  <2>. DEFINE R == Append(T, f)  n == Len(T)
  <2>1. Len(R) = n + 1 /\ R[n + 1] = f /\ n \in Nat /\ \A i \in 1..n : R[i] = T[i]
    BY Pushed, LenProperties
  <2>. HIDE DEF R
  <2>2. \A i \in 1..(n + 1) : i = n + 1 \/ i \in 1..n
    BY <2>1, SMT
  <2>3. \A i \in 1..n : 1..i \subseteq 1..n
    BY <2>1, SMT
  <2>4. \A i \in 1..n : Outermost(T[i]) /\ T[i].key \in Keys =>
          \E j \in 1..i : "mutex" \in T[j].has /\ T[j].key = T[i].key
    BY <1>1 DEF MutexFirst
  <2>5. \A i \in 1..Len(R) : Outermost(R[i]) /\ R[i].key \in Keys =>
          \E j \in 1..i : "mutex" \in R[j].has /\ R[j].key = R[i].key
    BY <2>1, <2>2, <2>3, <2>4, Zenon
  <2>6. R[Len(R)] = f
    BY <2>1
  <2> QED  BY <2>5, <2>6, Zenon DEF MutexFirst, R
<1>2. ASSUME S # <<>> PROVE Front(S) \in Seq(Frames) /\ MutexFirst(Front(S), <<>>)
  <2>. DEFINE n == Len(S) - 1  R == Front(S)
  <2>1. R \in Seq(Frames) /\ Len(R) = n /\ n \in Nat /\ Len(S) = n + 1 /\ \A i \in 1..n : R[i] = S[i]
    BY <1>2, Popped, SMT
  <2>. HIDE DEF R, n
  <2>2. \A i \in 1..n : 1..i \subseteq 1..n /\ i \in 1..(n + 1)
    BY <2>1, SMT
  <2>3. <<>> \notin UnderMutex
    BY SMT DEF UnderMutex
  <2>4. \A i \in 1..(n + 1) : Outermost(S[i]) /\ S[i].key \in Keys =>
          \E j \in 1..i : "mutex" \in S[j].has /\ S[j].key = S[i].key
    BY <2>1 DEF MutexFirst
  <2>5. \A i \in 1..n : Outermost(R[i]) /\ R[i].key \in Keys =>
          \E j \in 1..i : "mutex" \in R[j].has /\ R[j].key = R[i].key
    BY <2>1, <2>2, <2>4, ZenonT(30)
  <2> QED  BY <2>1, <2>3, <2>5, Zenon DEF MutexFirst, R
<1> QED  BY <1>1, <1>2

LEMMA MutexesFirstStep ==
  ASSUME TypeOK, StacksSound, MutexesFirst, NEW p \in Procs, Step(p)
  PROVE  MutexesFirst'
<1>. DEFINE S == stack[p]
<1>1. S \in Seq(Frames) /\ Nested(S) /\ Staged(S, todo[p], closing[p], tx[p]) /\ MutexFirst(S, todo[p])
  BY DEF TypeOK, StacksSound, MutexesFirst
<1>2. ASSUME NEW q \in Procs, q # p PROVE MutexFirst(stack'[q], todo'[q])
  BY <1>2, OthersUntouched DEF MutexesFirst
<1>3. SUFFICES MutexFirst(stack'[p], todo'[p])
  BY <1>2, Zenon DEF MutexesFirst
<1>4. ASSUME S # <<>>
      PROVE  Top(p) = S[Len(S)] /\ Top(p) \in Frames /\ Len(S) \in Nat \ {0}
  BY <1>4, StackFacts
<1>5. <<>> \notin UnderMutex
  BY SMT DEF UnderMutex
<1>6. ASSUME NEW op \in Ops, NEW k \in Keys \cup {NoKey}, Call(p, op, k)
      PROVE  MutexFirst(stack'[p], todo'[p])
  <2>. DEFINE f == NewFrame(p, op, k)  td == Plan(op, InTx(p))
  <2>1. f \in Frames /\ stack'[p] = Append(S, f) /\ todo'[p] = td
    <3>1. f \in Frames /\ stack' = [stack EXCEPT ![p] = Append(S, f)]
      BY <1>6, CallStack
    <3>2. todo' = [todo EXCEPT ![p] = td]
      BY <1>6 DEF Call
    <3> QED  BY <3>1, <3>2, Functions, ExceptAt, Zenon
  <2>2. ~Outermost(f) /\ f.key = k
    BY SMT DEF Outermost, NewFrame
  <2>3. td \in UnderMutex => td = <<"transaction">>
    <3>1. op \in AllOps /\ InTx(p) \in BOOLEAN
      BY OpsAssumption DEF InTx
    <3> QED  BY <3>1, PlanFacts, Zenon DEF UnderMutex
  <2>4. td = <<"transaction">> => k \notin Keys
    <3>1. op \in AllOps /\ InTx(p) \in BOOLEAN
      BY OpsAssumption DEF InTx
    <3>2. td = <<"transaction">> => op = "transaction"
      BY <3>1, PlanFacts, Zenon
    <3>3. (op = "transaction") = (k = NoKey)
      BY <1>6 DEF Call
    <3> QED  BY <3>2, <3>3, NoKeyAssumption, Zenon
  <2>. HIDE DEF f, td
  <2> QED  BY <1>1, <2>1, <2>2, <2>3, <2>4, MutexFirstRest, Zenon
<1>7. CASE Take(p)
  <2>. DEFINE td == todo[p]
  <2>1. S # <<>> /\ td \in Todos /\ td # <<>> /\ Needs(p) = Head(td) /\ todo'[p] = Tail(td)
    BY <1>7, TakeFacts
  <2>2. /\ Needs(p) = "advisory" => Tail(td) = <<>>
        /\ Needs(p) \in {"connection", "session", "transaction"} => td \in UnderMutex
    BY <2>1, TodoSteps, Zenon DEF UnderMutex
  <2>3. CASE Needs(p) = "mutex" /\ Has(p, "mutex", Top(p).key) /\ stack' = stack
    <3>1. \E j \in 1..Len(S) : "mutex" \in S[j].has /\ S[j].key = S[Len(S)].key
      BY <1>1, <1>4, <2>1, <2>3, SMT DEF Has, Calls, Range
    <3> QED  BY <1>1, <2>1, <2>3, <3>1, Zenon DEF MutexFirst
  <2>4. CASE Needs(p) = "advisory" /\ stack' = stack
    BY <1>1, <1>5, <2>1, <2>2, <2>4, Zenon DEF MutexFirst
  <2>5. CASE /\ Needs(p) \in {"mutex", "connection", "session", "transaction"}
             /\ Given(p, Needs(p)) \in Frames
             /\ stack' = [stack EXCEPT ![p] = [@ EXCEPT ![Len(stack[p])] = Given(p, Needs(p))]]
    <3>. DEFINE f == Given(p, Needs(p))
    <3>1. f.key = S[Len(S)].key /\ f.has = S[Len(S)].has \cup {Needs(p)}
      BY <1>4, <2>1, SMT DEF Given, Frames
    <3>2. Outermost(f) => Outermost(S[Len(S)]) \/ Needs(p) # "mutex"
      BY <3>1, SMT DEF Outermost
    <3>3. f \in Frames /\ stack'[p] = [S EXCEPT ![Len(S)] = f]
      BY <2>5, Functions, ExceptAt, Zenon
    <3>4. Needs(p) = "mutex" => "mutex" \in f.has
      BY <3>1, Zenon
    <3>5. "mutex" \in S[Len(S)].has => "mutex" \in f.has
      BY <3>1, Zenon
    <3>. HIDE DEF f
    <3>6. Outermost(f) => Outermost(S[Len(S)]) \/ td \in UnderMutex
      BY <2>2, <2>5, <3>2, Zenon
    <3>7. td \in UnderMutex \/ "mutex" \in f.has
      BY <2>2, <2>5, <3>4, Zenon
    <3>8. /\ Outermost(f) /\ f.key \in Keys => Outermost(S[Len(S)]) \/ "mutex" \in f.has \/ td \in UnderMutex
          /\ Tail(td) \in UnderMutex => td \in UnderMutex \/ "mutex" \in f.has
          /\ f.key = S[Len(S)].key
      BY <3>1, <3>6, <3>7
    <3>9. MutexFirst([S EXCEPT ![Len(S)] = f], Tail(td))
      BY <1>1, <2>1, <3>3, <3>5, <3>8, MutexFirstTop
    <3> QED  BY <2>1, <3>3, <3>9
  <2> QED  BY <1>7, <2>3, <2>4, <2>5, TakeFacts, Zenon
<1>8. CASE GoOnUnlocked(p)
  <2>1. todo[p] = <<"advisory">>
    <3>1. \E Q \in SUBSET Procs : p \in Q /\ \A q \in Q : Needs(q) = "advisory"
      BY <1>8 DEF GoOnUnlocked, InCycle
    <3>2. Needs(p) = "advisory" /\ todo[p] \in Todos
      BY <1>1, <3>1 DEF Staged
    <3> QED  BY <3>2, TodoSteps, Zenon DEF Needs
  <2>2. stack' = stack /\ todo'[p] = <<>>
    BY <1>8, <2>1, Functions, SMT DEF GoOnUnlocked
  <2> QED  BY <1>1, <1>5, <2>2, Zenon DEF MutexFirst
<1>9. CASE Defer(p)
  BY <1>1, <1>9 DEF Defer
<1>10. ASSUME NEW ok \in BOOLEAN, Return(p, ok)
       PROVE  MutexFirst(stack'[p], todo'[p])
  <2>. DEFINE f == Taken(p)
  <2>1. S # <<>> /\ f \in Frames /\ stack'[p] = [S EXCEPT ![Len(S)] = f] /\ todo'[p] = <<>>
    <3>1. S # <<>> /\ f \in Frames /\ stack' = [stack EXCEPT ![p] = [S EXCEPT ![Len(S)] = f]]
      BY <1>10, ReturnStack
    <3>2. todo' = todo /\ todo[p] = <<>>
      BY <1>10 DEF Return, Running
    <3> QED  BY <3>1, <3>2, Functions, ExceptAt, Zenon
  <2>2. f.key = S[Len(S)].key /\ f.has = S[Len(S)].has \ {"transaction"}
    BY <1>4, <2>1, SMT DEF Taken, Frames
  <2>3. Outermost(f) => Outermost(S[Len(S)])
    BY <2>2, SMT DEF Outermost
  <2>4. "mutex" \in S[Len(S)].has => "mutex" \in f.has
    BY <2>2, SMT
  <2>. HIDE DEF f
  <2>5. /\ Outermost(f) /\ f.key \in Keys => Outermost(S[Len(S)]) \/ "mutex" \in f.has \/ todo[p] \in UnderMutex
        /\ <<>> \in UnderMutex => todo[p] \in UnderMutex \/ "mutex" \in f.has
        /\ f.key = S[Len(S)].key
    BY <1>5, <2>2, <2>3
  <2>6. MutexFirst([S EXCEPT ![Len(S)] = f], <<>>)
    BY <1>1, <2>1, <2>4, <2>5, MutexFirstTop
  <2> QED  BY <2>1, <2>6
<1>11. CASE Unlock(p)
  <2>1. todo'[p] = <<>> /\ S # <<>> /\ Effects(p) \in Frames
    <3>1. todo' = todo /\ closing[p] # "no"
      BY <1>11 DEF Unlock
    <3> QED  BY <1>1, <1>11, <3>1, UnlockStack DEF Staged
  <2>2. ~Outermost(Effects(p))
    BY SMT DEF Effects, AfterFrame, Outermost
  <2>3. stack'[p] = Append(Front(S), Effects(p)) \/ stack'[p] = Front(S)
    BY <1>11, UnlockTop
  <2> QED  BY <1>1, <1>5, <2>1, <2>2, <2>3, MutexFirstRest, Zenon
<1>12. CASE RunEffect(p)
  <2>1. S # <<>> /\ todo'[p] = <<>> /\ Top(p).op = "after"
    BY <1>12 DEF RunEffect, Running
  <2>2. S[Len(S)].has = {}
    BY <1>1, <1>4, <2>1, SMT DEF Nested
  <2>3. ~Outermost(S[Len(S)])
    BY <2>2, SMT DEF Outermost
  <2>4. CASE /\ Later(p) \in Frames
             /\ stack' = [stack EXCEPT ![p] = [@ EXCEPT ![Len(stack[p])] = Later(p)]]
    <3>. DEFINE f == Later(p)
    <3>1. f \in Frames /\ stack'[p] = [S EXCEPT ![Len(S)] = f]
      BY <2>4, Functions, ExceptAt, Zenon
    <3>2. f.key = S[Len(S)].key /\ f.has = S[Len(S)].has
      BY <1>4, <2>1, SMT DEF Later, Frames
    <3>3. ~Outermost(f) /\ ("mutex" \in S[Len(S)].has => "mutex" \in f.has)
      BY <2>3, <3>2 DEF Outermost
    <3>. HIDE DEF f
    <3>4. /\ Outermost(f) /\ f.key \in Keys => Outermost(S[Len(S)]) \/ "mutex" \in f.has \/ todo[p] \in UnderMutex
          /\ <<>> \in UnderMutex => todo[p] \in UnderMutex \/ "mutex" \in f.has
          /\ f.key = S[Len(S)].key
      BY <1>5, <3>2, <3>3
    <3>5. MutexFirst([S EXCEPT ![Len(S)] = f], <<>>)
      BY <1>1, <2>1, <3>1, <3>3, <3>4, MutexFirstTop
    <3> QED  BY <2>1, <3>1, <3>5
  <2>5. CASE stack' = [stack EXCEPT ![p] = Front(@)]
    <3>1. stack'[p] = Front(S)
      BY <2>5, Functions, ExceptAt, Zenon
    <3>2. Top(p) \in Frames /\ ~Outermost(Top(p))
      BY <1>4, <2>1, <2>3
    <3> QED  BY <1>1, <1>5, <2>1, <3>1, <3>2, MutexFirstRest, Zenon
  <2> QED  BY <1>12, <2>4, <2>5, RunEffectStack
<1>13. CASE Abort(p)
  <2>1. stack'[p] = <<>> /\ todo'[p] = <<>>
    <3>1. stack' = [stack EXCEPT ![p] = <<>>] /\ todo' = [todo EXCEPT ![p] = <<>>]
      BY <1>13 DEF Abort
    <3> QED  BY <3>1, Functions, SMT
  <2>2. 1..Len(<<>>) = {}
    BY SMT
  <2> QED  BY <1>5, <2>1, <2>2, Zenon DEF MutexFirst
<1> QED  BY <1>6, <1>7, <1>8, <1>9, <1>10, <1>11, <1>12, <1>13, Zenon DEF Step

-----------------------------------------------------------------------------
\* What is held exclusively: a step takes only what nobody has.
Holds(S, part, k) == \E i \in 1..Len(S) : part \in S[i].has /\ S[i].key = k
Adds(f, part, k) == part \in f.has /\ f.key = k

LEMMA HoldsStacks ==
  ASSUME NEW S \in Seq(Frames), NEW part, NEW k
  PROVE  /\ (\E f \in Range(S) : part \in f.has /\ f.key = k) <=> Holds(S, part, k)
         /\ \A f \in Frames : Holds(Append(S, f), part, k) => Holds(S, part, k) \/ Adds(f, part, k)
         /\ S # <<>> =>
              /\ Adds(S[Len(S)], part, k) => Holds(S, part, k)
              /\ Holds(Front(S), part, k) => Holds(S, part, k)
              /\ \A f \in Frames :
                   /\ Holds(Append(Front(S), f), part, k) => Holds(S, part, k) \/ Adds(f, part, k)
                   /\ Holds([S EXCEPT ![Len(S)] = f], part, k) => Holds(S, part, k) \/ Adds(f, part, k)
<1>0. Len(S) \in Nat
  BY LenProperties
<1>1. (\E f \in Range(S) : part \in f.has /\ f.key = k) <=> Holds(S, part, k)
  BY SMT DEF Range, Holds
<1>2. ASSUME NEW T \in Seq(Frames), NEW f \in Frames, Holds(Append(T, f), part, k)
      PROVE  Holds(T, part, k) \/ Adds(f, part, k)
  <2>. DEFINE R == Append(T, f)
  <2>1. Len(R) = Len(T) + 1 /\ R[Len(T) + 1] = f /\ Len(T) \in Nat /\ \A i \in 1..Len(T) : R[i] = T[i]
    BY Pushed, LenProperties
  <2>2. Holds(R, part, k)
    BY <1>2
  <2>. HIDE DEF R
  <2>3. \A i \in 1..(Len(T) + 1) : i = Len(T) + 1 \/ i \in 1..Len(T)
    BY <2>1, SMT
  <2> QED  BY <2>1, <2>2, <2>3, Zenon DEF Holds, Adds
<1>3. ASSUME S # <<>>
      PROVE  /\ Adds(S[Len(S)], part, k) => Holds(S, part, k)
             /\ Front(S) \in Seq(Frames) /\ (Holds(Front(S), part, k) => Holds(S, part, k))
             /\ \A f \in Frames :
                  Holds([S EXCEPT ![Len(S)] = f], part, k) => Holds(S, part, k) \/ Adds(f, part, k)
  <2>1. /\ Len(S) \in Nat \ {0} /\ Front(S) \in Seq(Frames) /\ Len(Front(S)) = Len(S) - 1
        /\ \A i \in 1..(Len(S) - 1) : Front(S)[i] = S[i]
    BY <1>3, Popped
  <2>2. /\ Len(S) \in 1..Len(S) /\ 1..(Len(S) - 1) \subseteq 1..Len(S)
        /\ \A i \in 1..Len(S) : i = Len(S) \/ i \in 1..(Len(S) - 1)
    BY <2>1, SMT
  <2>3. /\ Adds(S[Len(S)], part, k) => Holds(S, part, k)
        /\ Holds(Front(S), part, k) => Holds(S, part, k)
    BY <2>1, <2>2, Zenon DEF Holds, Adds
  <2>4. ASSUME NEW f \in Frames, Holds([S EXCEPT ![Len(S)] = f], part, k)
        PROVE  Holds(S, part, k) \/ Adds(f, part, k)
    <3>. DEFINE R == [S EXCEPT ![Len(S)] = f]
    <3>1. Len(R) = Len(S) /\ R[Len(S)] = f /\ \A i \in 1..(Len(S) - 1) : R[i] = S[i]
      BY <1>3, TopSet
    <3>2. Holds(R, part, k)
      BY <2>4
    <3>. HIDE DEF R
    <3> QED  BY <2>2, <3>1, <3>2, Zenon DEF Holds, Adds
  <2> QED  BY <2>1, <2>3, <2>4
<1> QED  BY <1>1, <1>2, <1>3, Zenon

LEMMA HasStep ==
  ASSUME TypeOK, StacksSound, NEW p \in Procs, Step(p), NEW q \in Procs,
         NEW part \in {"mutex", "session"}, NEW k, Has(q, part, k)'
  PROVE  \/ Has(q, part, k)
         \/ q = p /\ Take(p) /\ Needs(p) = part /\ Top(p).key = k
            /\ (part = "mutex" => ~Has(p, part, k))
<1>. DEFINE S == stack[p]
<1>1. \A r \in Procs : /\ stack[r] \in Seq(Frames) /\ stack'[r] \in Seq(Frames)
                       /\ Has(r, part, k) <=> Holds(stack[r], part, k)
                       /\ Has(r, part, k)' <=> Holds(stack'[r], part, k)
  <2>1. \A r \in Procs : stack[r] \in Seq(Frames) /\ stack'[r] \in Seq(Frames)
    BY StackTyped, Functions, SMT
  <2> QED  BY <2>1, HoldsStacks, Zenon DEF Has, Calls
<1>2. CASE q # p
  BY <1>1, <1>2, OthersUntouched
<1>3. CASE q = p
  <2>0. Holds(stack'[p], part, k)
    BY <1>1, <1>3
  <2>a. /\ \A f \in Frames : Holds(Append(S, f), part, k) => Holds(S, part, k) \/ Adds(f, part, k)
        /\ S # <<>> =>
             /\ Adds(S[Len(S)], part, k) => Holds(S, part, k)
             /\ Holds(Front(S), part, k) => Holds(S, part, k)
             /\ \A f \in Frames :
                  /\ Holds(Append(Front(S), f), part, k) => Holds(S, part, k) \/ Adds(f, part, k)
                  /\ Holds([S EXCEPT ![Len(S)] = f], part, k) => Holds(S, part, k) \/ Adds(f, part, k)
    <3>1. S \in Seq(Frames)
      BY DEF TypeOK
    <3> QED  BY <3>1, HoldsStacks
  <2>1. SUFFICES \/ Holds(S, part, k)
                 \/ Take(p) /\ Needs(p) = part /\ Top(p).key = k /\ (part = "mutex" => ~Has(p, part, k))
    BY <1>1, <1>3
  <2>2. ASSUME S # <<>> PROVE Top(p) = S[Len(S)] /\ Top(p) \in Frames
    BY <2>2, StackFacts
  <2>3. ASSUME NEW op \in Ops, NEW c \in Keys \cup {NoKey}, Call(p, op, c)
        PROVE  Holds(S, part, k)
    <3>1. NewFrame(p, op, c) \in Frames /\ stack'[p] = Append(S, NewFrame(p, op, c))
      <4>1. /\ NewFrame(p, op, c) \in Frames
            /\ stack' = [stack EXCEPT ![p] = Append(S, NewFrame(p, op, c))]
        BY <2>3, CallStack
      <4> QED  BY <4>1, Functions, ExceptAt, Zenon
    <3>2. ~Adds(NewFrame(p, op, c), part, k)
      BY SMT DEF Adds, NewFrame
    <3> QED  BY <2>0, <2>a, <3>1, <3>2, Zenon
  <2>4. CASE Take(p)
    <3>1. S # <<>>
      BY <2>4, TakeFacts
    <3>2. CASE stack' = stack
      BY <2>0, <3>2
    <3>3. CASE /\ Needs(p) \in {"mutex", "connection", "session", "transaction"}
               /\ Needs(p) = "mutex" => ~Has(p, "mutex", Top(p).key)
               /\ Given(p, Needs(p)) \in Frames
               /\ stack' = [stack EXCEPT ![p] = [@ EXCEPT ![Len(stack[p])] = Given(p, Needs(p))]]
      <4>. DEFINE f == Given(p, Needs(p))
      <4>1. f \in Frames /\ stack'[p] = [S EXCEPT ![Len(S)] = f]
        BY <3>3, Functions, ExceptAt, Zenon
      <4>2. f.key = Top(p).key /\ f.has = Top(p).has \cup {Needs(p)}
        BY <2>2, <3>1, SMT DEF Given, Frames
      <4>. HIDE DEF f
      <4>3. Holds(S, part, k) \/ Adds(f, part, k)
        BY <2>0, <2>a, <3>1, <4>1, Zenon
      <4>4. CASE Adds(f, part, k)
        <5>1. Top(p).key = k /\ (part \in Top(p).has \/ Needs(p) = part)
          BY <4>2, <4>4, Zenon DEF Adds
        <5>2. part \in Top(p).has => Holds(S, part, k)
          BY <2>2, <2>a, <3>1, <5>1, Zenon DEF Adds
        <5> QED  BY <2>4, <3>3, <5>1, <5>2
      <4> QED  BY <4>3, <4>4
    <3> QED  BY <2>4, <3>2, <3>3, TakeFacts, Zenon
  <2>5. CASE GoOnUnlocked(p) \/ Defer(p)
    BY <2>0, <2>5 DEF GoOnUnlocked, Defer
  <2>6. ASSUME NEW ok \in BOOLEAN, Return(p, ok)
        PROVE  Holds(S, part, k)
    <3>1. S # <<>> /\ Taken(p) \in Frames /\ stack'[p] = [S EXCEPT ![Len(S)] = Taken(p)]
      BY <2>6, ReturnTop
    <3>2. Taken(p).key = Top(p).key /\ Taken(p).has \subseteq Top(p).has
      BY <2>2, <3>1, SMT DEF Taken, Frames
    <3>3. Adds(Taken(p), part, k) => Adds(Top(p), part, k)
      BY <3>2 DEF Adds
    <3> QED  BY <2>0, <2>2, <2>a, <3>1, <3>3, Zenon
  <2>7. CASE Unlock(p)
    <3>1. /\ S # <<>> /\ Effects(p) \in Frames
          /\ stack'[p] = Append(Front(S), Effects(p)) \/ stack'[p] = Front(S)
      BY <2>7, UnlockTop
    <3>2. ~Adds(Effects(p), part, k)
      BY DEF Adds, Effects, AfterFrame
    <3> QED  BY <2>0, <2>a, <3>1, <3>2, Zenon
  <2>8. CASE RunEffect(p)
    <3>1. /\ S # <<>>
          /\ \/ Later(p) \in Frames /\ stack'[p] = [S EXCEPT ![Len(S)] = Later(p)]
             \/ stack'[p] = Front(S)
      BY <2>8, RunEffectTop
    <3>2. Adds(Later(p), part, k) => Adds(Top(p), part, k)
      BY <2>2, <3>1, SMT DEF Adds, Later, Frames
    <3> QED  BY <2>0, <2>2, <2>a, <3>1, <3>2, Zenon
  <2>9. CASE Abort(p)
    <3>1. stack' = [stack EXCEPT ![p] = <<>>]
      BY <2>9 DEF Abort
    <3>2. stack'[p] = <<>> /\ 1..Len(<<>>) = {}
      BY <3>1, Functions, SMT
    <3> QED  BY <2>0, <3>2, Zenon DEF Holds
  <2> QED  BY <2>3, <2>4, <2>5, <2>6, <2>7, <2>8, <2>9, Zenon DEF Step
<1> QED  BY <1>2, <1>3

LEMMA MutexesHeldStep ==
  ASSUME TypeOK, StacksSound, MutexesHeld, node' = node, NEW p \in Procs, Step(p)
  PROVE  MutexesHeld'
<1>1. ASSUME NEW k, Take(p), Needs(p) = "mutex", Top(p).key = k, ~Has(p, "mutex", k),
             NEW q \in Procs, node[q] = node[p], Has(q, "mutex", k)
      PROVE  q = p
  <2>1. Blockers(p) = {r \in OnNode(p) : Has(r, "mutex", Top(p).key)}
    BY <1>1, Zenon DEF Blockers
  <2>2. Blockers(p) = {}
    BY <1>1, TakeFacts
  <2> QED  BY <1>1, <2>1, <2>2, Zenon DEF OnNode, Others
<1>2. ASSUME NEW q \in Procs, NEW r \in Procs, NEW k \in Keys, node[q] = node[r],
             Has(q, "mutex", k)', Has(r, "mutex", k)'
      PROVE  q = r
  <2>1. \/ Has(q, "mutex", k)
        \/ q = p /\ Take(p) /\ Needs(p) = "mutex" /\ Top(p).key = k /\ ~Has(p, "mutex", k)
    BY <1>2, HasStep
  <2>2. \/ Has(r, "mutex", k)
        \/ r = p /\ Take(p) /\ Needs(p) = "mutex" /\ Top(p).key = k /\ ~Has(p, "mutex", k)
    BY <1>2, HasStep
  <2> QED  BY <1>1, <1>2, <2>1, <2>2, Zenon DEF MutexesHeld
<1> QED  BY <1>2, Zenon DEF MutexesHeld

LEMMA HeldStep ==
  ASSUME TypeOK, StacksSound, NEW p \in Procs, Step(p), NEW q \in Procs, NEW k, k \in held'[q]
  PROVE  k \in held[q] \/ (q = p /\ Take(p) /\ Needs(p) = "advisory" /\ Top(p).key = k)
<1>1. CASE q # p
  BY <1>1, OthersUntouched
<1>2. CASE Take(p)
  <2>1. IF Needs(p) = "advisory" THEN held' = [held EXCEPT ![p] = @ \cup {Top(p).key}]
                                 ELSE held' = held
    BY <1>2, TakeFacts
  <2>2. CASE Needs(p) = "advisory" /\ q = p
    <3>1. held' = [held EXCEPT ![p] = held[p] \cup {Top(p).key}]
      BY <2>1, <2>2
    <3>2. held'[p] = held[p] \cup {Top(p).key}
      BY <3>1, Functions, ExceptAt, Zenon
    <3> QED  BY <1>2, <2>2, <3>2
  <2>3. CASE Needs(p) # "advisory"
    BY <2>1, <2>3
  <2> QED  BY <1>1, <2>2, <2>3
<1>3. CASE q = p /\ ~Take(p)
  <2>1. held' = held \/ held' = [held EXCEPT ![p] = {}]
    BY <1>3, Zenon DEF Step, Call, GoOnUnlocked, Defer, Return, KeptAfter, Unlock, RunEffect, Abort
  <2>2. held' = [held EXCEPT ![p] = {}] => held'[p] = {}
    BY Functions, SMT
  <2> QED  BY <1>3, <2>1, <2>2
<1> QED  BY <1>1, <1>2, <1>3

LEMMA OneLockerStep ==
  ASSUME TypeOK, StacksSound, OneLocker, NEW p \in Procs, Step(p)
  PROVE  OneLocker'
<1>1. ASSUME NEW k, Take(p), Needs(p) \in {"advisory", "session"}, Top(p).key = k,
             NEW q \in Procs, Locks(q, k)
      PROVE  q = p
  <2>1. Blockers(p) = {r \in Others(p) : Locks(r, Top(p).key)}
    BY <1>1, Zenon DEF Blockers
  <2>2. Blockers(p) = {}
    BY <1>1, TakeFacts
  <2> QED  BY <1>1, <2>1, <2>2, Zenon DEF Others
<1>2. ASSUME NEW q \in Procs, NEW k \in Keys, Locks(q, k)'
      PROVE  \/ Locks(q, k)
             \/ q = p /\ Take(p) /\ Needs(p) \in {"advisory", "session"} /\ Top(p).key = k
  <2>1. k \in held'[q] \/ Has(q, "session", k)'
    BY <1>2 DEF Locks
  <2>2. CASE k \in held'[q]
    BY <2>2, HeldStep, Zenon DEF Locks
  <2>3. CASE Has(q, "session", k)'
    BY <2>3, HasStep, Zenon DEF Locks
  <2> QED  BY <2>1, <2>2, <2>3
<1>3. ASSUME NEW q \in Procs, NEW r \in Procs, NEW k \in Keys, Locks(q, k)', Locks(r, k)'
      PROVE  q = r
  BY <1>1, <1>2, <1>3, Zenon DEF OneLocker
<1> QED  BY <1>3, Zenon DEF OneLocker

-----------------------------------------------------------------------------
\* The locks of Postgres.
LEMMA LockTodo ==
  ASSUME NEW td \in Todos, td # <<>>
  PROVE  /\ Tail(td) = <<>> => td \in {<<"mutex">>, <<"transaction">>} \/ Head(td) \in {"session", "advisory"}
         /\ Tail(td) \in {<<"mutex">>, <<"transaction">>, <<"mutex", "transaction">>} =>
              td = <<"mutex", "transaction">>
         /\ td \in ToHold => Tail(td) \in ToHold \/ Head(td) = "session"
<1>. USE DEF Todos, ToOpen, ToHold
<1>1. CASE td = <<"mutex", "transaction", "advisory">>  BY <1>1, SMT
<1>2. CASE td = <<"transaction", "advisory">>  BY <1>2, SMT
<1>3. CASE td = <<"mutex", "transaction">>  BY <1>3, SMT
<1>4. CASE td = <<"transaction">>  BY <1>4, SMT
<1>5. CASE td = <<"mutex", "connection", "session">>  BY <1>5, SMT
<1>6. CASE td = <<"connection", "session">>  BY <1>6, SMT
<1>7. CASE td = <<"session">>  BY <1>7, SMT
<1>8. CASE td = <<"mutex">>  BY <1>8, SMT
<1>9. CASE td = <<"advisory">>  BY <1>9, SMT
<1> QED  BY <1>1, <1>2, <1>3, <1>4, <1>5, <1>6, <1>7, <1>8, <1>9, Zenon

\* The calls below the top are secured for good, and the top once it has everything.
Secured(S, i, h) ==
  /\ S[i].op \in Jobs => "session" \in S[i].has \/ S[i].key \in h
  /\ S[i].op = "exclusive" => "session" \in S[i].has \/ \E j \in 1..(i-1) : HasScope(S[j])
LEMMA SecuredBelow ==
  ASSUME NEW S \in Seq(Frames), S # <<>>, NEW td, NEW cl, NEW h, LocksKept(S, td, cl, h)
  PROVE  /\ \A i \in 1..(Len(S) - 1) : Secured(S, i, h)
         /\ td = <<>> /\ cl = "no" => Secured(S, Len(S), h)
<1>1. Len(S) \in Nat \ {0}
  BY Popped
<1>2. /\ \A i \in 1..(Len(S) - 1) : i # Len(S) /\ i \in 1..Len(S)
      /\ Len(S) \in 1..Len(S)
  BY <1>1, SMT
<1>3. <<>> \notin ToHold
  BY SMT DEF ToHold
<1> QED  BY <1>2, <1>3, Zenon DEF LocksKept, Secured

LEMMA SecuredSame ==
  ASSUME NEW S, NEW R, NEW n \in Nat, \A i \in 1..n : R[i] = S[i], NEW h, NEW g, h \subseteq g,
         \A i \in 1..n : Secured(S, i, h)
  PROVE  \A i \in 1..n : Secured(R, i, g)
<1>1. \A i \in 1..n : 1..(i-1) \subseteq 1..n
  BY SMT
<1> QED  BY <1>1, Zenon DEF Secured

LEMMA LocksFromSecured ==
  ASSUME NEW R \in Seq(Frames), NEW td, NEW cl, NEW h,
         \A i \in 1..(Len(R) - 1) : Secured(R, i, h),
         R # <<>> =>
           /\ R[Len(R)].op \in Jobs => "session" \in R[Len(R)].has \/ R[Len(R)].key \in h
                                       \/ cl # "no" \/ td # <<>>
           /\ R[Len(R)].op = "exclusive" =>
                "session" \in R[Len(R)].has \/ (\E j \in 1..(Len(R) - 1) : HasScope(R[j])) \/ td \in ToHold,
         td \in {<<"mutex">>, <<"transaction">>, <<"mutex", "transaction">>} => R[Len(R)].op \notin Jobs
  PROVE  LocksKept(R, td, cl, h)
<1>1. \A i \in 1..Len(R) : R # <<>> /\ (i = Len(R) \/ i \in 1..(Len(R) - 1))
  BY LenProperties, SMT
<1> QED  BY <1>1, Zenon DEF LocksKept, Secured

LEMMA LocksStep ==
  ASSUME TypeOK, StacksSound, Postgres, LocksSound, NEW p \in Procs, Step(p), ~GoOnUnlocked(p)
  PROVE  LocksSound'
<1>. DEFINE S == stack[p]  n == Len(S)  h == held[p]
<1>1. /\ S \in Seq(Frames) /\ Nested(S) /\ Staged(S, todo[p], closing[p], tx[p])
      /\ LocksKept(S, todo[p], closing[p], h)
      /\ n \in Nat
  BY LenProperties DEF TypeOK, StacksSound, LocksSound
<1>2. ASSUME NEW q \in Procs, q # p
      PROVE  LocksKept(stack'[q], todo'[q], closing'[q], held'[q])
  BY <1>2, OthersUntouched DEF LocksSound
<1>3. SUFFICES LocksKept(stack'[p], todo'[p], closing'[p], held'[p])
  BY <1>2, Zenon DEF LocksSound
<1>4. ASSUME S # <<>>
      PROVE  /\ Top(p) = S[n] /\ S[n] \in Frames /\ n \in Nat \ {0} /\ n - 1 \in Nat
             /\ \A i \in 1..(n - 1) : Secured(S, i, h)
             /\ todo[p] = <<>> /\ closing[p] = "no" => Secured(S, n, h)
             /\ HasScope(S[n]) => \A i \in 1..(n - 1) : ~HasScope(S[i]) /\ S[i].op \notin Opens
  <2>1. Top(p) = S[n] /\ S[n] \in Frames /\ n \in Nat \ {0} /\ n - 1 \in Nat
    BY <1>4, StackFacts, SMT
  <2>2. HasScope(S[n]) => \A i \in 1..(n - 1) : S[i].op \notin Opens
    BY <1>1, <2>1, SMT DEF Nested
  <2>3. HasScope(S[n]) => \A i \in 1..(n - 1) : ~HasScope(S[i])
    BY <1>1, <1>4, BelowTop, Zenon
  <2>4. /\ \A i \in 1..(n - 1) : Secured(S, i, h)
        /\ todo[p] = <<>> /\ closing[p] = "no" => Secured(S, n, h)
    BY <1>1, <1>4, SecuredBelow
  <2> QED  BY <2>1, <2>2, <2>3, <2>4
<1>5. <<>> \notin {<<"mutex">>, <<"transaction">>, <<"mutex", "transaction">>} /\ <<>> \notin ToHold
  BY SMT DEF ToHold
<1>6. ASSUME NEW op \in Ops, NEW k \in Keys \cup {NoKey}, Call(p, op, k)
      PROVE  LocksKept(stack'[p], todo'[p], closing'[p], held'[p])
  <2>. DEFINE f == NewFrame(p, op, k)  td == Plan(op, InTx(p))  R == Append(S, f)
  <2>1. f \in Frames /\ stack'[p] = R /\ todo'[p] = td /\ held'[p] = h /\ closing' = closing
    <3>1. f \in Frames /\ stack' = [stack EXCEPT ![p] = R]
      BY <1>6, CallStack
    <3>2. todo' = [todo EXCEPT ![p] = td] /\ held' = held /\ closing' = closing
      BY <1>6 DEF Call
    <3> QED  BY <3>1, <3>2, Functions, ExceptAt, Zenon
  <2>2. /\ op \in AllOps /\ InTx(p) \in BOOLEAN /\ f.op = op /\ f.key = k
    BY OpsAssumption DEF InTx, NewFrame
  <2>3. /\ op \in Jobs => td \notin {<<>>, <<"mutex">>, <<"transaction">>, <<"mutex", "transaction">>}
        /\ op = "exclusive" => td \in ToHold \/ InTx(p)
    BY <2>2, PlanFacts, Zenon
  <2>4. /\ R \in Seq(Frames) /\ Len(R) = n + 1 /\ R[n + 1] = f /\ \A i \in 1..n : R[i] = S[i]
        /\ n + 1 - 1 = n
    BY <1>1, <2>1, Pushed, SMT
  <2>5. closing[p] = "no" /\ todo[p] = <<>> /\ (InTx(p) => \E i \in 1..n : HasScope(S[i]))
    BY <1>6, InScopeFacts DEF Call
  <2>6. \A i \in 1..n : Secured(S, i, h)
    <3>1. CASE S = <<>>
      <4>1. 1..Len(<<>>) = {}
        BY SMT
      <4> QED  BY <3>1, <4>1
    <3>2. CASE S # <<>>
      <4>1. \A i \in 1..n : i = n \/ i \in 1..(n - 1)
        BY <1>1, SMT
      <4> QED  BY <1>4, <2>5, <3>2, <4>1, Zenon
    <3> QED  BY <3>1, <3>2
  <2>7. \A i \in 1..n : Secured(R, i, h)
    <3>1. h \subseteq h
      OBVIOUS
    <3>. HIDE DEF R
    <3> QED  BY <1>1, <2>4, <2>6, <3>1, SecuredSame
  <2>8. InTx(p) => \E j \in 1..n : HasScope(R[j])
    BY <2>4, <2>5, Zenon
  <2>. HIDE DEF R, f, td
  <2>9. \A i \in 1..(Len(R) - 1) : Secured(R, i, h)
    BY <2>4, <2>7
  <2>10. \/ op \in Jobs /\ td # <<>> /\ (op = "exclusive" => td \in ToHold \/ \E j \in 1..(Len(R) - 1) : HasScope(R[j]))
         \/ op \notin Jobs /\ op # "exclusive"
    BY <2>3, <2>4, <2>8, SMT DEF Jobs
  <2>11. R[Len(R)].op = op
    BY <2>2, <2>4
  <2>12. LocksKept(R, td, "no", h)
    BY <2>3, <2>4, <2>9, <2>10, <2>11, LocksFromSecured, Zenon
  <2> QED  BY <2>1, <2>5, <2>12
<1>7. CASE Take(p)
  <2>. DEFINE td == todo[p]  g == held'[p]  R == stack'[p]
  <2>1. /\ S # <<>> /\ td \in Todos /\ td # <<>> /\ Needs(p) = Head(td) /\ todo'[p] = Tail(td)
        /\ closing[p] = "no" /\ closing' = closing
    BY <1>7, TakeFacts
  <2>2. h \subseteq g /\ (Needs(p) = "advisory" => S[n].key \in g)
    <3>1. IF Needs(p) = "advisory" THEN held' = [held EXCEPT ![p] = @ \cup {Top(p).key}]
                                   ELSE held' = held
      BY <1>7, TakeFacts
    <3>2. CASE Needs(p) = "advisory"
      <4>1. held' = [held EXCEPT ![p] = held[p] \cup {Top(p).key}]
        BY <3>1, <3>2
      <4>2. held'[p] = held[p] \cup {Top(p).key}
        BY <4>1, Functions, ExceptAt, Zenon
      <4> QED  BY <1>4, <2>1, <4>2
    <3>3. CASE Needs(p) # "advisory"
      BY <3>1, <3>3
    <3> QED  BY <3>2, <3>3
  <2>3. /\ R \in Seq(Frames) /\ Len(R) = n /\ \A i \in 1..(n - 1) : R[i] = S[i]
        /\ R[n].op = S[n].op /\ R[n].key = S[n].key /\ S[n].has \subseteq R[n].has
        /\ Needs(p) = "session" => "session" \in R[n].has
    <3>1. CASE stack' = stack /\ Needs(p) # "session"
      BY <1>1, <3>1
    <3>2. CASE /\ Needs(p) \in {"mutex", "connection", "session", "transaction"}
               /\ Given(p, Needs(p)) \in Frames
               /\ stack' = [stack EXCEPT ![p] = [@ EXCEPT ![Len(stack[p])] = Given(p, Needs(p))]]
      <4>. DEFINE f == Given(p, Needs(p))
      <4>1. f \in Frames /\ stack'[p] = [S EXCEPT ![n] = f]
        BY <3>2, Functions, ExceptAt, Zenon
      <4>2. f.op = S[n].op /\ f.key = S[n].key /\ f.has = S[n].has \cup {Needs(p)}
        BY <1>4, <2>1, SMT DEF Given, Frames
      <4>. HIDE DEF f
      <4>3. /\ R \in Seq(Frames) /\ Len(R) = n /\ R[n] = f /\ \A i \in 1..(n - 1) : R[i] = S[i]
        BY <1>1, <2>1, <4>1, TopSet
      <4>. HIDE DEF R
      <4> QED  BY <4>2, <4>3
    <3>3. \/ stack' = stack /\ Needs(p) # "session"
          \/ /\ Needs(p) \in {"mutex", "connection", "session", "transaction"}
             /\ Given(p, Needs(p)) \in Frames
             /\ stack' = [stack EXCEPT ![p] = [@ EXCEPT ![Len(stack[p])] = Given(p, Needs(p))]]
      <4>1. \/ Needs(p) = "mutex" /\ stack' = stack
            \/ /\ Needs(p) \in {"mutex", "connection", "session", "transaction"}
               /\ Given(p, Needs(p)) \in Frames
               /\ stack' = [stack EXCEPT ![p] = [@ EXCEPT ![Len(stack[p])] = Given(p, Needs(p))]]
            \/ Needs(p) = "advisory" /\ stack' = stack
        BY <1>7, TakeFacts, Zenon
      <4> QED  BY <4>1
    <3> QED  BY <3>1, <3>2, <3>3
  <2>4. /\ Tail(td) = <<>> => td \in {<<"mutex">>, <<"transaction">>} \/ Needs(p) \in {"session", "advisory"}
        /\ Tail(td) \in {<<"mutex">>, <<"transaction">>, <<"mutex", "transaction">>} =>
             td = <<"mutex", "transaction">>
        /\ td \in ToHold => Tail(td) \in ToHold \/ Needs(p) = "session"
    BY <2>1, LockTodo
  <2>5. td \in {<<"mutex">>, <<"transaction">>, <<"mutex", "transaction">>} => S[n].op \notin Jobs
    BY <1>1, Zenon DEF LocksKept
  <2>6. S[n].op = "exclusive" => \/ "session" \in S[n].has
                                 \/ \E j \in 1..(n - 1) : HasScope(S[j])
                                 \/ td \in ToHold
    <3>1. n \in 1..n
      BY <1>4, <2>1, SMT
    <3> QED  BY <1>1, <3>1, Zenon DEF LocksKept
  <2>. HIDE DEF R, g, td
  <2>7. \A i \in 1..(n - 1) : Secured(R, i, g)
    BY <1>4, <2>1, <2>2, <2>3, SecuredSame, Zenon
  <2>8. R[n].op \in Jobs => "session" \in R[n].has \/ R[n].key \in g \/ Tail(td) # <<>>
    BY <2>2, <2>3, <2>4, <2>5, Zenon
  <2>9. R[n].op = "exclusive" => \/ "session" \in R[n].has
                                 \/ \E j \in 1..(n - 1) : HasScope(R[j])
                                 \/ Tail(td) \in ToHold
    BY <2>3, <2>4, <2>6, Zenon
  <2>10. Tail(td) \in {<<"mutex">>, <<"transaction">>, <<"mutex", "transaction">>} => R[n].op \notin Jobs
    BY <2>3, <2>4, <2>5, Zenon
  <2>11. LocksKept(R, Tail(td), "no", g)
    BY <2>3, <2>7, <2>8, <2>9, <2>10, LocksFromSecured, Zenon
  <2> QED  BY <2>1, <2>11 DEF R, g
<1>8. CASE Defer(p)
  BY <1>1, <1>8 DEF Defer
<1>9. ASSUME NEW ok \in BOOLEAN, Return(p, ok)
      PROVE  LocksKept(stack'[p], todo'[p], closing'[p], held'[p])
  <2>. DEFINE f == Taken(p)  g == held'[p]  R == [S EXCEPT ![n] = f]
  <2>1. /\ S # <<>> /\ f \in Frames /\ stack'[p] = R /\ todo'[p] = <<>>
        /\ todo[p] = <<>> /\ closing[p] = "no" /\ closing'[p] # "no"
    <3>1. S # <<>> /\ f \in Frames /\ stack' = [stack EXCEPT ![p] = R]
      BY <1>9, ReturnStack
    <3>2. todo' = todo /\ todo[p] = <<>> /\ closing[p] = "no"
      BY <1>9 DEF Return, Running
    <3>3. \E w \in {"ok", "error"} : closing' = [closing EXCEPT ![p] = w]
      BY <1>9, Zenon DEF Return
    <3>4. closing'[p] # "no"
      BY <3>3, Functions, ExceptAt, Zenon
    <3> QED  BY <3>1, <3>2, <3>4, Functions, ExceptAt, Zenon
  <2>2. f.op = S[n].op /\ f.has = S[n].has \ {"transaction"} /\ (HasTx(S[n]) <=> "transaction" \in Top(p).has)
    BY <1>4, <2>1, SMT DEF Taken, Frames, HasTx
  <2>3. /\ R \in Seq(Frames) /\ Len(R) = n /\ R[n] = f /\ \A i \in 1..(n - 1) : R[i] = S[i]
    BY <1>1, <2>1, TopSet
  <2>4. \A i \in 1..(n - 1) : Secured(S, i, g)
    <3>1. CASE ~HasTx(S[n])
      <4>1. held' = held
        BY <1>9, <2>2, <3>1 DEF Return
      <4> QED  BY <1>4, <2>1, <4>1
    <3>2. CASE HasTx(S[n])
      <4>1. HasScope(S[n])
        BY <1>1, <1>4, <2>1, <3>2, SMT DEF Nested
      <4>2. \A i \in 1..(n - 1) : Secured(S, i, h) /\ S[i].op \notin Opens /\ 1..(i-1) \subseteq 1..(n - 1)
        BY <1>4, <2>1, <4>1, SMT
      <4>3. \A i \in 1..(n - 1) : S[i].op \in Jobs => S[i].op = "exclusive"
        BY <4>2, Zenon DEF Jobs, Opens
      <4>4. \A i \in 1..(n - 1) : ~HasScope(S[i])
        BY <1>4, <2>1, <4>1
      <4> QED  BY <4>2, <4>3, <4>4, Zenon DEF Secured
    <3> QED  BY <3>1, <3>2
  <2>5. \A i \in 1..(n - 1) : Secured(R, i, g)
    <3>1. g \subseteq g
      OBVIOUS
    <3>. HIDE DEF R, g
    <3>2. n - 1 \in Nat /\ \A i \in 1..(n - 1) : R[i] = S[i]
      BY <1>4, <2>1, <2>3
    <3> QED  BY <2>4, <3>1, <3>2, SecuredSame, Zenon
  <2>6. f.op = "exclusive" => "session" \in f.has \/ \E j \in 1..(n - 1) : HasScope(R[j])
    <3>1. S[n].op = "exclusive" => "session" \in S[n].has \/ \E j \in 1..(n - 1) : HasScope(S[j])
      BY <1>4, <2>1 DEF Secured
    <3>2. "session" \in S[n].has => "session" \in f.has
      BY <2>2, SMT
    <3> QED  BY <2>2, <2>3, <3>1, <3>2, Zenon
  <2>. HIDE DEF R, f, g
  <2>7. LocksKept(R, <<>>, closing'[p], g)
    BY <1>5, <2>1, <2>3, <2>5, <2>6, LocksFromSecured, Zenon
  <2> QED  BY <2>1, <2>7 DEF g
\* What replaces or follows the top is no section.
<1>10. ASSUME NEW R \in Seq(Frames), S # <<>>, stack'[p] = R, todo'[p] = <<>>, held'[p] = h,
              \/ Len(R) = n - 1 /\ \A i \in 1..(n - 1) : R[i] = S[i]
              \/ Len(R) = n /\ R[n].op = "after" /\ \A i \in 1..(n - 1) : R[i] = S[i]
       PROVE  LocksKept(stack'[p], todo'[p], closing'[p], held'[p])
  <2>1. \A i \in 1..(n - 1) : Secured(R, i, h)
    <3>1. h \subseteq h
      OBVIOUS
    <3>2. /\ n - 1 \in Nat
          /\ \A i \in 1..(n - 1) : R[i] = S[i]
          /\ \A i \in 1..(n - 1) : Secured(S, i, h)
      BY <1>4, <1>10, Zenon
    <3>. HIDE DEF S, n, h
    <3> QED  BY <3>1, <3>2, SecuredSame
  <2>2. \A i \in 1..Len(R) : i \in 1..(n - 1) \/ (i = n /\ R[i].op = "after")
    BY <1>1, <1>10, SMT
  <2>3. "after" # "exclusive" /\ "after" \notin Jobs
    BY SMT DEF Jobs
  <2> QED  BY <1>5, <1>10, <2>1, <2>2, <2>3, Zenon DEF LocksKept, Secured
<1>11. CASE Unlock(p)
  <2>1. todo'[p] = <<>> /\ S # <<>> /\ Effects(p) \in Frames /\ held' = held
    <3>1. todo' = todo /\ closing[p] # "no" /\ held' = held
      BY <1>11 DEF Unlock
    <3> QED  BY <1>1, <1>11, <3>1, UnlockStack DEF Staged
  <2>2. stack'[p] = Append(Front(S), Effects(p)) \/ stack'[p] = Front(S)
    BY <1>11, UnlockTop
  <2>3. /\ Front(S) \in Seq(Frames) /\ Len(Front(S)) = n - 1
        /\ \A i \in 1..(n - 1) : Front(S)[i] = S[i]
    BY <1>1, <2>1, Popped
  <2>4. CASE stack'[p] = Front(S)
    BY <1>10, <2>1, <2>3, <2>4
  <2>5. CASE stack'[p] = Append(Front(S), Effects(p))
    <3>. DEFINE R == Append(Front(S), Effects(p))
    <3>1. /\ R \in Seq(Frames) /\ Len(R) = n - 1 + 1 /\ R[n - 1 + 1] = Effects(p)
          /\ \A i \in 1..(n - 1) : R[i] = Front(S)[i]
      BY <2>1, <2>3, Pushed
    <3>2. n - 1 + 1 = n /\ Effects(p).op = "after"
      BY <1>1, SMT DEF Effects, AfterFrame
    <3>. HIDE DEF R
    <3>3. stack'[p] = R
      BY <2>5 DEF R
    <3> QED  BY <1>10, <2>1, <2>3, <3>1, <3>2, <3>3
  <2> QED  BY <2>2, <2>4, <2>5
<1>12. CASE RunEffect(p)
  <2>1. todo'[p] = <<>> /\ S # <<>> /\ Top(p).op = "after" /\ held' = held
    BY <1>12 DEF RunEffect, Running
  <2>2. \/ Later(p) \in Frames /\ stack'[p] = [S EXCEPT ![n] = Later(p)]
        \/ stack'[p] = Front(S)
    BY <1>12, RunEffectTop
  <2>3. CASE stack'[p] = Front(S)
    <3>1. /\ Front(S) \in Seq(Frames) /\ Len(Front(S)) = n - 1
          /\ \A i \in 1..(n - 1) : Front(S)[i] = S[i]
      BY <1>1, <2>1, Popped
    <3> QED  BY <1>10, <2>1, <2>3, <3>1
  <2>4. CASE Later(p) \in Frames /\ stack'[p] = [S EXCEPT ![n] = Later(p)]
    <3>. DEFINE R == [S EXCEPT ![n] = Later(p)]
    <3>1. /\ R \in Seq(Frames) /\ Len(R) = n /\ R[n] = Later(p) /\ \A i \in 1..(n - 1) : R[i] = S[i]
      BY <1>1, <2>1, <2>4, TopSet
    <3>2. Later(p).op = "after"
      BY <1>4, <2>1, SMT DEF Later, Frames
    <3>. HIDE DEF R
    <3>3. stack'[p] = R
      BY <2>4 DEF R
    <3> QED  BY <1>10, <2>1, <3>1, <3>2, <3>3
  <2> QED  BY <2>2, <2>3, <2>4
<1>13. CASE Abort(p)
  <2>1. stack'[p] = <<>> /\ todo'[p] = <<>>
    <3>1. stack' = [stack EXCEPT ![p] = <<>>] /\ todo' = [todo EXCEPT ![p] = <<>>]
      BY <1>13 DEF Abort
    <3> QED  BY <3>1, Functions, SMT
  <2>2. 1..Len(<<>>) = {}
    BY SMT
  <2> QED  BY <1>5, <2>1, <2>2, Zenon DEF LocksKept
<1> QED  BY <1>6, <1>7, <1>8, <1>9, <1>11, <1>12, <1>13, Zenon DEF Step

-----------------------------------------------------------------------------
\* The invariant holds at the start and is kept by every step.
LEMMA AtStart ==
  ASSUME Init
  PROVE  IInv /\ LocksSound
<1>1. \A p \in Procs : /\ stack[p] = <<>> /\ todo[p] = <<>> /\ closing[p] = "no" /\ held[p] = {}
                       /\ queue[p] = <<>> /\ tx[p] = 0
  BY DEF Init
<1>2. 1..Len(<<>>) = {} /\ Len(<<>>) = 0
  BY SMT
<1>3. <<>> \in Todos /\ <<>> \notin ToOpen /\ <<>> \notin ToHold /\ <<>> \notin UnderMutex
  BY SMT DEF Todos, ToOpen, ToHold, UnderMutex
<1>4. TypeOK
  <2>1. /\ <<>> \in Seq(Frames) /\ <<>> \in Seq(Steps) /\ <<>> \in Seq(Tx)
        /\ 0 \in 0..MaxTx /\ 0 <= MaxDepth
    BY BoundsAssumption, SMT
  <2>2. /\ node \in Places /\ ran \subseteq 0..MaxTx
        /\ fate \in [Tx -> {"unused", "open", "doomed", "committed", "rolled back"}]
    BY SMT DEF Init
  <2>3. /\ stack \in [Procs -> Seq(Frames)] /\ todo \in [Procs -> Seq(Steps)]
        /\ closing \in [Procs -> {"no", "ok", "error"}] /\ held \in [Procs -> SUBSET Keys]
        /\ queue \in [Procs -> Seq(Tx)] /\ tx \in [Procs -> 0..MaxTx]
    BY <2>1, Zenon DEF Init
  <2>4. \A p \in Procs : Len(stack[p]) <= MaxDepth
    BY <1>1, <1>2, <2>1
  <2> QED  BY <2>2, <2>3, <2>4 DEF TypeOK
<1>5. StacksSound
  <2>1. Nested(<<>>)
    BY <1>2, Zenon DEF Nested
  <2>2. Staged(<<>>, <<>>, "no", 0)
    <3>1. "no" = "no" /\ <<>> \in {<<>>, <<"transaction">>} /\ <<>> # <<"advisory">>
      BY SMT
    <3> QED  BY <1>2, <1>3, <3>1, Zenon DEF Staged
  <2> QED  BY <1>1, <2>1, <2>2 DEF StacksSound
<1>6. MutexesFirst
  BY <1>1, <1>2, <1>3, Zenon DEF MutexesFirst, MutexFirst
<1>7. \A p \in Procs : ~InTx(p) /\ Calls(p) = {}
  <2>1. Range(<<>>) = {}
    BY SMT DEF Range
  <2> QED  BY <1>1, <2>1 DEF InTx, Calls
<1>8. MutexesHeld /\ OneWriter /\ OneLocker /\ TxSound /\ LocksOfTx
  <2>1. \A p \in Procs : \A part, k : ~Has(p, part, k)
    BY <1>7, Zenon DEF Has
  <2> QED  BY <1>1, <1>7, <2>1, Zenon DEF MutexesHeld, OneWriter, OneLocker, Locks, TxSound, LocksOfTx
<1>9. QueuesSound
  <2>1. ran = {}
    BY DEF Init
  <2> QED  BY <1>1, <1>2, <2>1, Zenon DEF QueuesSound, Queued, DueCommitted
<1>10. LocksSound
  <2>1. <<>> \notin {<<"mutex">>, <<"transaction">>, <<"mutex", "transaction">>}
    BY SMT
  <2> QED  BY <1>1, <1>2, <2>1, Zenon DEF LocksSound, LocksKept
<1> QED  BY <1>4, <1>5, <1>6, <1>8, <1>9, <1>10 DEF IInv

LEMMA Unchanged ==
  ASSUME UNCHANGED vars
  PROVE  (IInv => IInv') /\ (LocksSound => LocksSound')
<1>1. /\ node' = node /\ stack' = stack /\ todo' = todo /\ closing' = closing /\ held' = held
      /\ queue' = queue /\ tx' = tx /\ fate' = fate /\ ran' = ran
  BY DEF vars
<1>2. /\ \A p : (InTx(p) <=> InTx(p)') /\ \A part, k : Has(p, part, k)' <=> Has(p, part, k)
      /\ \A p, k : Locks(p, k)' <=> Locks(p, k)
  BY <1>1 DEF InTx, Has, Calls, Locks
<1>3. (TypeOK => TypeOK') /\ (StacksSound => StacksSound') /\ (MutexesFirst => MutexesFirst')
  BY <1>1 DEF TypeOK, StacksSound, MutexesFirst
<1>4. (MutexesHeld => MutexesHeld') /\ (OneWriter => OneWriter') /\ (OneLocker => OneLocker')
  BY <1>1, <1>2, Zenon DEF MutexesHeld, OneWriter, OneLocker
<1>5. (TxSound => TxSound') /\ (LocksOfTx => LocksOfTx') /\ (QueuesSound => QueuesSound')
      /\ (LocksSound => LocksSound')
  BY <1>1 DEF TxSound, LocksOfTx, QueuesSound, LocksSound, InTx
<1> QED  BY <1>3, <1>4, <1>5 DEF IInv

LEMMA Kept ==
  ASSUME IInv, [Next]_vars
  PROVE  IInv'
<1>1. CASE UNCHANGED vars
  BY <1>1, Unchanged
<1>2. CASE Next
  <2>1. PICK p \in Procs : Step(p) /\ node' = node
    BY <1>2, StepCases
  <2>. USE DEF IInv
  <2>2. TypeOK' /\ StacksSound' /\ MutexesFirst' /\ MutexesHeld'
    BY <2>1, TypeStep, StacksStep, MutexesFirstStep, MutexesHeldStep
  <2>3. OneWriter' /\ OneLocker' /\ TxSound' /\ LocksOfTx' /\ QueuesSound'
    BY <2>1, OneWriterStep, OneLockerStep, TxSoundStep, LocksOfTxStep, QueuesStep
  <2> QED  BY <2>2, <2>3
<1> QED  BY <1>1, <1>2

LEMMA Invariant == Spec => []IInv
<1>1. Init => IInv
  BY AtStart
<1>2. IInv /\ [Next]_vars => IInv'
  BY Kept
<1> QED  BY <1>1, <1>2, PTL DEF Spec

\* Every process is a stack of calls, with what it holds and what it has deferred.
THEOREM TypeCorrect == Spec => []TypeOK
<1>1. IInv => TypeOK
  BY DEF IInv
<1> QED  BY <1>1, Invariant, PTL

-----------------------------------------------------------------------------
\* What the invariant says of a section, of a call and of the effects.
LEMMA StackOf ==
  ASSUME IInv, NEW p \in Procs
  PROVE  /\ stack[p] \in Seq(Frames) /\ Len(stack[p]) \in Nat
         /\ \A i \in 1..Len(stack[p]) : stack[p][i] \in Frames
         /\ Calls(p) = {stack[p][i] : i \in 1..Len(stack[p])}
<1>1. stack[p] \in Seq(Frames)
  BY DEF IInv, TypeOK
<1> QED  BY <1>1, SMT DEF Calls, Range

LEMMA SectionOwns ==
  ASSUME IInv, NEW p \in Procs, NEW k \in Keys, Inside(p, k, {"serialize"})
  PROVE  InTx(p)
<1>. DEFINE S == stack[p]  n == Len(S)
<1>1. n \in Nat /\ Nested(S) /\ Staged(S, todo[p], closing[p], tx[p])
  BY StackOf DEF IInv, StacksSound
<1>2. PICK i \in 1..n : S[i].op = "serialize" /\ (i < n \/ Running(p))
  BY Zenon DEF Inside
<1>3. PICK j \in 1..n : j <= i /\ HasScope(S[j])
  <2>1. i \in 1..n /\ i <= i /\ \A j \in 1..(i - 1) : j \in 1..n /\ j <= i
    BY <1>1, <1>2, SMT
  <2>2. HasScope(S[i]) \/ \E j \in 1..(i - 1) : HasScope(S[j])
    BY <1>1, <1>2, Zenon DEF Nested, Opens
  <2> QED  BY <2>1, <2>2, Zenon
<1>4. j = n => Running(p)
  BY <1>1, <1>2, <1>3, SMT
<1>5. HasTx(S[j])
  <2>1. <<>> \notin ToOpen
    BY SMT DEF ToOpen
  <2> QED  BY <1>1, <1>3, <1>4, <2>1, Zenon DEF Staged, Running
<1> QED  BY <1>1, <1>3, <1>5, Zenon DEF Staged, InTx

\* On SQLite a serialized section owns the one transaction, so two processes are in
\* no two sections, of the same key or of others.
THEOREM SerializedAloneHolds ==
  ASSUME ~Postgres
  PROVE  Spec => []SerializedAlone
<1>1. IInv => SerializedAlone
  <2>1. SUFFICES ASSUME IInv, NEW p \in Procs, NEW q \in Procs, NEW k \in Keys, p # q,
                        Inside(p, k, {"serialize"}), Inside(q, k, {"serialize"})
                 PROVE  FALSE
    BY Zenon DEF SerializedAlone
  <2>2. InTx(p) /\ InTx(q)
    BY <2>1, SectionOwns
  <2> QED  BY <2>1, <2>2 DEF IInv, OneWriter
<1> QED  BY <1>1, Invariant, PTL

\* Effects run after the commit and outside of every transaction, on both databases.
THEOREM EffectsFollowCommitHolds == Spec => []EffectsFollowCommit
<1>1. IInv => EffectsFollowCommit
  <2>1. SUFFICES ASSUME IInv, NEW p \in Procs, Running(p), Top(p).op = "after"
                 PROVE  Unlocked(p)
    BY DEF IInv, QueuesSound, EffectsFollowCommit
  <2>. DEFINE S == stack[p]  n == Len(S)
  <2>2. n \in 1..n /\ Top(p) = S[n] /\ Nested(S) /\ n \in Nat
    <3>1. S # <<>> /\ TypeOK /\ Nested(S)
      BY <2>1 DEF Running, IInv, StacksSound
    <3> QED  BY <3>1, StackFacts, SMT
  <2>3. \A j \in 1..n : ~HasScope(S[j])
    <3>1. S[n].has = {} /\ \A j \in 1..(n - 1) : ~HasScope(S[j])
      BY <2>1, <2>2, Zenon DEF Nested
    <3>2. \A j \in 1..n : j = n \/ j \in 1..(n - 1)
      BY <2>2, SMT
    <3> QED  BY <3>1, <3>2, Zenon DEF HasScope
  <2>4. ~InTx(p)
    BY <2>1, <2>3, InScopeFacts DEF IInv
  <2>5. held[p] = {}
    BY <2>1, <2>4 DEF IInv, LocksOfTx
  <2>6. ASSUME NEW i \in 1..n, S[i].has # {}
        PROVE  S[i].op \in {"exclusive", "turn"}
    <3>1. \A j \in 1..(i - 1) : j \in 1..n
      BY <2>2, <2>6, SMT
    <3>2. S[i].op \notin Opens
      BY <2>2, <2>3, <2>6, <3>1, Zenon DEF Nested
    <3>3. S[i].op # "after"
      BY <2>2, <2>6, Zenon DEF Nested
    <3>4. S[i].op \in AllOps \cup {"after"}
      BY <2>1, <2>6, StackOf, SMT DEF Frames
    <3> QED  BY <3>2, <3>3, <3>4, SMT DEF AllOps, Opens
  <2>7. \A f \in Calls(p) : f.has # {} => f.op \in {"exclusive", "turn"}
    <3>1. Calls(p) = {S[i] : i \in 1..n}
      BY <2>1, StackOf
    <3>2. \A f \in Calls(p) : \E i \in 1..n : f = S[i]
      BY <3>1, Zenon
    <3> QED  BY <2>6, <3>2
  <2> QED  BY <2>4, <2>5, <2>7 DEF Unlocked
<1> QED  BY <1>1, Invariant, PTL

LEMMA OutermostQueued ==
  ASSUME IInv, NEW p \in Procs, NEW f \in Calls(p), Outermost(f), f.key \in Keys
  PROVE  Has(p, "mutex", f.key)
<1>. DEFINE S == stack[p]
<1>1. PICK i \in 1..Len(S) : f = S[i]
  BY StackOf, Zenon
<1>2. PICK j \in 1..i : "mutex" \in S[j].has /\ S[j].key = f.key
  BY <1>1, Zenon DEF IInv, MutexesFirst, MutexFirst
<1>3. S[j] \in Calls(p)
  <2>1. j \in 1..Len(S)
    BY <1>1, <1>2, StackOf, SMT
  <2> QED  BY <2>1, StackOf, Zenon
<1> QED  BY <1>2, <1>3, Zenon DEF Has

\* Who waits for a lock with a connection of its own waits for nobody of its node
\* that took one to wait for the same lock, however many processes there are.
THEOREM PoolSparedHolds == Spec => []PoolSpared
<1>1. IInv => PoolSpared
  <2>1. SUFFICES ASSUME IInv, NEW p \in Procs, Needs(p) \in {"advisory", "session"}, Outermost(Top(p)),
                        NEW q \in OnNode(p), NEW f \in Calls(q), f.key = Top(p).key, Outermost(f)
                 PROVE  FALSE
    BY Zenon DEF PoolSpared
  <2>2. q \in Procs /\ q # p /\ node[q] = node[p]
    BY <2>1, Zenon DEF OnNode, Others
  <2>3. /\ todo[p] # <<>> /\ todo[p] # <<"transaction">>
        /\ Staged(stack[p], todo[p], closing[p], tx[p])
    <3>1. todo[p] # <<>>
      BY <2>1, SMT DEF Needs
    <3>2. Head(todo[p]) # "transaction"
      BY <2>1, <3>1, SMT DEF Needs
    <3>3. Head(<<"transaction">>) = "transaction"
      BY SMT
    <3> QED  BY <2>1, <3>1, <3>2, <3>3, Zenon DEF IInv, StacksSound
  <2>4. stack[p] # <<>> /\ stack[p][Len(stack[p])].key \in Keys
    BY <2>3, Zenon DEF Staged
  <2>5. Top(p) \in Calls(p) /\ Top(p).key \in Keys
    <3>1. Top(p) = stack[p][Len(stack[p])] /\ Len(stack[p]) \in 1..Len(stack[p])
      BY <2>1, <2>4, StackFacts, SMT DEF IInv
    <3> QED  BY <2>1, <2>4, <3>1, StackOf, Zenon
  <2>6. Has(p, "mutex", Top(p).key) /\ Has(q, "mutex", Top(p).key)
    BY <2>1, <2>2, <2>5, OutermostQueued
  <2> QED  BY <2>1, <2>2, <2>5, <2>6 DEF IInv, MutexesHeld
<1> QED  BY <1>1, Invariant, PTL

\* While Postgres grants every advisory lock it is asked for, and so breaks no
\* circle of them, no section of a key runs beside another on any node.
NeverUnlocked == [][\A p \in Procs : ~GoOnUnlocked(p)]_vars
THEOREM OneHolderHolds ==
  ASSUME Postgres
  PROVE  Spec /\ NeverUnlocked => []OneHolder
<1>1. Init => LocksSound
  BY AtStart
<1>2. IInv /\ LocksSound /\ [Next]_vars /\ [\A p \in Procs : ~GoOnUnlocked(p)]_vars => LocksSound'
  <2>1. SUFFICES ASSUME IInv, LocksSound, [Next]_vars, [\A p \in Procs : ~GoOnUnlocked(p)]_vars
                 PROVE  LocksSound'
    OBVIOUS
  <2>2. CASE UNCHANGED vars
    BY <2>1, <2>2, Unchanged
  <2>3. CASE Next /\ \A p \in Procs : ~GoOnUnlocked(p)
    <3>1. PICK p \in Procs : Step(p)
      BY <2>3, StepCases
    <3> QED  BY <2>1, <2>3, <3>1, LocksStep DEF IInv
  <2> QED  BY <2>1, <2>2, <2>3
<1>3. ASSUME IInv, LocksSound, NEW p \in Procs, NEW k \in Keys, Inside(p, k, {"serialize", "exclusive"})
      PROVE  Locks(p, k)
  <2>. DEFINE S == stack[p]  n == Len(S)
  <2>1. PICK i \in 1..n : S[i].key = k /\ S[i].op \in Jobs /\ (i < n \/ Running(p))
    BY <1>3, Zenon DEF Inside, Jobs
  <2>2. i = n => Running(p)
    BY <1>3, <2>1, StackOf, SMT
  <2>3. "session" \in S[i].has \/ k \in held[p]
    BY <1>3, <2>1, <2>2, Zenon DEF LocksSound, LocksKept, Running
  <2>4. S[i] \in Calls(p)
    BY <1>3, StackOf, Zenon
  <2> QED  BY <2>1, <2>3, <2>4, Zenon DEF Locks, Has
<1>4. IInv /\ LocksSound => OneHolder
  BY <1>3, Zenon DEF OneHolder, IInv, OneLocker
<1> QED  BY <1>1, <1>2, <1>4, Invariant, PTL DEF Spec, NeverUnlocked

-----------------------------------------------------------------------------
\* What a process owes: the effects it has queued, and those in its frames.
OwedBy(f, t) == \E j \in 1..Len(f.effects) : f.effects[j] = t
Owes(S, t) == \E i \in 1..Len(S) : OwedBy(S[i], t)
Queues(qu, t) == \E i \in 1..Len(qu) : qu[i] = t

LEMMA OwesBelow ==
  ASSUME NEW S \in Seq(Frames), S # <<>>, NEW R \in Seq(Frames), NEW t, Owes(S, t),
         Len(R) >= Len(S) - 1, \A i \in 1..(Len(S) - 1) : R[i] = S[i]
  PROVE  Owes(R, t) \/ OwedBy(S[Len(S)], t)
<1>1. Len(S) \in Nat \ {0} /\ Len(R) \in Nat
  BY Popped, LenProperties
<1>2. /\ \A i \in 1..Len(S) : i = Len(S) \/ i \in 1..(Len(S) - 1)
      /\ \A i \in 1..(Len(S) - 1) : i \in 1..Len(R)
  BY <1>1, SMT
<1> QED  BY <1>2, Zenon DEF Owes

LEMMA OwesTop ==
  ASSUME NEW R \in Seq(Frames), NEW n, n \in 1..Len(R), NEW t, OwedBy(R[n], t)
  PROVE  Owes(R, t)
BY Zenon DEF Owes

LEMMA OwedStacks ==
  ASSUME NEW S \in Seq(Frames), NEW qu \in Seq(Tx), NEW t
  PROVE  /\ t \in Range(qu) <=> Queues(qu, t)
         /\ (\E f \in Range(S) : t \in Range(f.effects)) <=> Owes(S, t)
<1>1. t \in Range(qu) <=> Queues(qu, t)
  BY SMT DEF Range, Queues
<1>2. \A f \in Frames : t \in Range(f.effects) <=> OwedBy(f, t)
  BY SMTT(30) DEF Range, OwedBy, Frames
<1>3. \A i \in 1..Len(S) : S[i] \in Frames
  BY SMT
<1>4. \A f : f \in Range(S) <=> \E i \in 1..Len(S) : f = S[i]
  BY SMT DEF Range
<1>5. (\E f \in Range(S) : t \in Range(f.effects)) <=> Owes(S, t)
  BY <1>2, <1>3, <1>4, Zenon DEF Owes
<1> QED  BY <1>1, <1>5

\* What is owed of a transaction that commits is owed after the step, or has run.
LEMMA OwedStep ==
  ASSUME IInv, NEW p \in Procs, Step(p), ~Abort(p), NEW t \in Tx, fate'[t] = "committed",
         Queues(queue[p], t) \/ Owes(stack[p], t)
  PROVE  Queues(queue'[p], t) \/ Owes(stack'[p], t) \/ t \in ran'
<1>. DEFINE S == stack[p]  n == Len(S)  R == stack'[p]
<1>1. /\ S \in Seq(Frames) /\ Nested(S) /\ Staged(S, todo[p], closing[p], tx[p])
      /\ Queued(S, closing[p], queue[p], tx[p], fate)
      /\ R \in Seq(Frames) /\ queue[p] \in Seq(Tx)
  <2>1. stack' \in [Procs -> Seq(Frames)]
    BY StackTyped DEF IInv
  <2> QED  BY <2>1 DEF IInv, TypeOK, StacksSound, QueuesSound
<1>2. ASSUME S # <<>>
      PROVE  /\ Top(p) = S[n] /\ S[n] \in Frames /\ n \in Nat \ {0} /\ n \in 1..n
             /\ S[n].op # "after" => ~OwedBy(S[n], t)
  <2>1. Top(p) = S[n] /\ S[n] \in Frames /\ n \in Nat \ {0}
    BY <1>2, StackFacts DEF IInv
  <2>2. n \in 1..n
    BY <2>1, SMT
  <2>3. S[n].op # "after" => S[n].effects = <<>>
    BY <1>1, <2>2, Zenon DEF Nested
  <2>4. 1..Len(<<>>) = {}
    BY SMT
  <2> QED  BY <2>1, <2>2, <2>3, <2>4, Zenon DEF OwedBy
\* The top keeps its effects.
<1>3. ASSUME S # <<>>, NEW f \in Frames, R = [S EXCEPT ![n] = f], f.effects = S[n].effects,
             Owes(S, t)
      PROVE  Owes(R, t)
  <2>1. Len(R) = n /\ R[n] = f /\ \A i \in 1..(n - 1) : R[i] = S[i]
    BY <1>1, <1>3, TopSet
  <2>. HIDE DEF R
  <2>2. Len(R) >= n - 1
    BY <1>2, <1>3, <2>1, SMT
  <2>3. Owes(R, t) \/ OwedBy(S[n], t)
    BY <1>1, <1>3, <2>1, <2>2, OwesBelow
  <2>4. OwedBy(S[n], t) => OwedBy(R[n], t)
    BY <1>3, <2>1, Zenon DEF OwedBy
  <2> QED  BY <1>1, <1>2, <1>3, <2>1, <2>3, <2>4, OwesTop
<1>4. ASSUME NEW op \in Ops, NEW k \in Keys \cup {NoKey}, Call(p, op, k)
      PROVE  Queues(queue'[p], t) \/ Owes(R, t)
  <2>1. Owes(S, t) => Owes(R, t)
    <3>1. NewFrame(p, op, k) \in Frames /\ R = Append(S, NewFrame(p, op, k))
      <4>1. /\ NewFrame(p, op, k) \in Frames
            /\ stack' = [stack EXCEPT ![p] = Append(S, NewFrame(p, op, k))]
        BY <1>4, CallStack DEF IInv
      <4> QED  BY <4>1, Functions, ExceptAt, Zenon DEF IInv
    <3>2. Len(R) = n + 1 /\ n \in Nat /\ \A i \in 1..n : R[i] = S[i]
      BY <1>1, <3>1, Pushed, LenProperties
    <3>. HIDE DEF R
    <3>3. \A i \in 1..n : i \in 1..Len(R)
      BY <3>2, SMT
    <3> QED  BY <3>2, <3>3, Zenon DEF Owes
  <2>2. Queues(queue[p], t) => queue'[p] = queue[p]
    <3>1. closing[p] = "no"
      BY <1>1, <1>4, InScopeFacts DEF Call, IInv
    <3>2. Queues(queue[p], t) => InTx(p)
      BY <1>1, <3>1, QueueOpen, Zenon DEF Queues, InTx
    <3>3. InTx(p) => queue' = [queue EXCEPT ![p] = queue[p]]
      BY <1>4, SMT DEF Call, NewScope
    <3> QED  BY <3>2, <3>3, Functions, ExceptAt, Zenon DEF IInv
  <2> QED  BY <2>1, <2>2
<1>5. CASE Take(p)
  <2>1. S # <<>> /\ queue' = queue
    BY <1>5, TakeFacts DEF IInv
  <2>2. \/ stack' = stack
        \/ Given(p, Needs(p)) \in Frames /\ R = [S EXCEPT ![n] = Given(p, Needs(p))]
    <3>1. \/ stack' = stack
          \/ /\ Given(p, Needs(p)) \in Frames
             /\ stack' = [stack EXCEPT ![p] = [@ EXCEPT ![Len(stack[p])] = Given(p, Needs(p))]]
      BY <1>5, TakeFacts, Zenon DEF IInv
    <3> QED  BY <3>1, Functions, ExceptAt, Zenon DEF IInv
  <2>3. Given(p, Needs(p)).effects = S[n].effects
    BY <1>2, <2>1, SMT DEF Given, Frames
  <2> QED  BY <1>3, <2>1, <2>2, <2>3
<1>6. CASE GoOnUnlocked(p)
  BY <1>6 DEF GoOnUnlocked
<1>7. CASE Defer(p)
  <2>1. stack' = stack /\ (queue' = queue \/ queue' = [queue EXCEPT ![p] = Append(queue[p], tx[p])])
    BY <1>7, SMT DEF Defer
  <2>2. CASE queue' = queue
    BY <2>1, <2>2
  <2>3. CASE queue' = [queue EXCEPT ![p] = Append(queue[p], tx[p])]
    <3>. DEFINE qu == queue[p]
    <3>1. queue'[p] = Append(qu, tx[p])
      BY <2>3, Functions, ExceptAt, Zenon DEF IInv
    <3>. HIDE DEF qu
    <3>2. /\ \A i \in 1..Len(qu) : Append(qu, tx[p])[i] = qu[i]
          /\ \A i \in 1..Len(qu) : i \in 1..Len(Append(qu, tx[p]))
      <4>1. qu \in Seq(Tx)
        BY <1>1 DEF qu
      <4> QED  BY <4>1, SMT
    <3>3. Queues(qu, t) => Queues(queue'[p], t)
      BY <3>1, <3>2, Zenon DEF Queues
    <3> QED  BY <2>1, <3>3 DEF qu
  <2> QED  BY <2>1, <2>2, <2>3
<1>8. ASSUME NEW ok \in BOOLEAN, Return(p, ok)
      PROVE  Queues(queue'[p], t) \/ Owes(R, t)
  <2>1. S # <<>> /\ Taken(p) \in Frames /\ R = [S EXCEPT ![n] = Taken(p)]
    BY <1>8, ReturnTop DEF IInv
  <2>2. Taken(p).effects = S[n].effects
    BY <1>2, <2>1, SMT DEF Taken, Frames
  <2>3. queue' = queue
    BY <1>8 DEF Return
  <2> QED  BY <1>3, <2>1, <2>2, <2>3
<1>9. CASE Unlock(p)
  <2>1. S # <<>> /\ Effects(p) \in Frames
    BY <1>9, UnlockStack DEF IInv
  <2>2. \/ HasScope(S[n]) /\ closing[p] = "ok" /\ R = Append(Front(S), Effects(p))
        \/ (HasScope(S[n]) => closing[p] = "error") /\ R = Front(S)
    <3>1. Top(p) = S[n]
      BY <1>2, <2>1
    <3> QED  BY <1>9, <3>1, UnlockTop DEF IInv
  <2>3. /\ Front(S) \in Seq(Frames) /\ Len(Front(S)) = n - 1
        /\ \A i \in 1..(n - 1) : Front(S)[i] = S[i]
    BY <1>1, <2>1, Popped
  <2>4. /\ Append(Front(S), Effects(p)) \in Seq(Frames)
        /\ Len(Append(Front(S), Effects(p))) = n
        /\ Append(Front(S), Effects(p))[n] = Effects(p)
        /\ \A i \in 1..(n - 1) : Append(Front(S), Effects(p))[i] = S[i]
    <3>1. n - 1 + 1 = n
      BY <1>2, <2>1, SMT
    <3> QED  BY <2>1, <2>3, <3>1, Pushed
  <2>5. ~OwedBy(S[n], t) /\ closing[p] # "no"
    BY <1>1, <1>2, <1>9, <2>1 DEF Staged, Unlock
  <2>6. Owes(S, t) => Owes(R, t)
    <3>1. Len(R) >= n - 1 /\ \A i \in 1..(n - 1) : R[i] = S[i]
      <4>1. n >= n - 1 /\ n - 1 >= n - 1
        BY <1>2, <2>1, SMT
      <4> QED  BY <2>2, <2>3, <2>4, <4>1
    <3> QED  BY <1>1, <2>1, <2>5, <3>1, OwesBelow
  <2>7. CASE ~HasScope(S[n])
    <3>1. queue' = queue
      BY <1>2, <1>9, <2>1, <2>7 DEF Unlock, HasScope
    <3> QED  BY <2>6, <3>1
  <2>8. CASE HasScope(S[n]) /\ Queues(queue[p], t)
    <3>1. tx[p] = 0
      <4>1. /\ tx[p] # 0 <=> HasTx(S[n]) \/ \E i \in 1..(n - 1) : HasTx(S[i])
            /\ HasScope(S[n]) => \A i \in 1..(n - 1) : ~HasScope(S[i]) /\ ~HasTx(S[i])
        BY <1>1, <2>1, BelowTop
      <4>2. ~HasTx(S[n])
        BY <1>1, <2>5, Zenon DEF Staged
      <4> QED  BY <2>8, <4>1, <4>2, Zenon
    <3>2. closing[p] = "ok"
      <4>1. fate' = fate
        BY <1>9 DEF Unlock
      <4>2. fate[t] = "committed"
        BY <4>1
      <4>3. \E i \in 1..Len(queue[p]) : queue[p][i] = t
        BY <2>8 DEF Queues
      <4> QED  BY <1>1, <3>1, <4>2, <4>3, Zenon DEF Queued
    <3>3. R = Append(Front(S), Effects(p))
      BY <2>2, <2>8, <3>2
    <3>4. OwedBy(R[n], t)
      <4>1. R[n] = Effects(p)
        BY <2>4, <3>3
      <4>2. Effects(p).effects = queue[p]
        BY SMT DEF Effects, AfterFrame
      <4>. HIDE DEF R
      <4> QED  BY <2>8, <4>1, <4>2, Zenon DEF OwedBy, Queues
    <3>5. n \in 1..Len(R)
      BY <1>2, <2>1, <2>4, <3>3
    <3> QED  BY <1>1, <3>4, <3>5, OwesTop
  <2> QED  BY <2>6, <2>7, <2>8
<1>10. CASE RunEffect(p)
  <2>1. queue' = queue /\ S # <<>>
    BY <1>10, RunEffectStack DEF RunEffect, IInv
  <2>2. \/ S[n].effects # <<>> /\ Later(p) \in Frames /\ R = [S EXCEPT ![n] = Later(p)]
        \/ S[n].effects = <<>> /\ R = Front(S)
    <3>1. Top(p) = S[n]
      BY <1>2, <2>1
    <3> QED  BY <1>10, <3>1, RunEffectTop DEF IInv
  <2>3. CASE S[n].effects = <<>> /\ R = Front(S)
    <3>1. Len(R) = n - 1 /\ \A i \in 1..(n - 1) : R[i] = S[i]
      BY <1>1, <2>1, <2>3, Popped
    <3>2. Len(R) >= n - 1
      BY <1>2, <2>1, <3>1, SMT
    <3>3. ~OwedBy(S[n], t)
      <4>1. 1..Len(<<>>) = {}
        BY SMT
      <4> QED  BY <2>3, <4>1, Zenon DEF OwedBy
    <3> QED  BY <1>1, <2>1, <3>1, <3>2, <3>3, OwesBelow
  <2>4. CASE S[n].effects # <<>> /\ Later(p) \in Frames /\ R = [S EXCEPT ![n] = Later(p)]
    <3>. DEFINE e == S[n].effects
    <3>1. e \in Seq(Tx) /\ e # <<>> /\ Later(p).effects = Tail(e)
      BY <1>2, <2>1, <2>4, SMT DEF Later, Frames
    <3>2. ran' = ran \cup {Head(e)}
      BY <1>2, <1>10, <2>1, <2>4 DEF RunEffect
    <3>3. Len(R) = n /\ R[n] = Later(p) /\ \A i \in 1..(n - 1) : R[i] = S[i]
      BY <1>1, <2>1, <2>4, TopSet
    <3>4. ASSUME OwedBy(S[n], t)
          PROVE  OwedBy(R[n], t) \/ t = Head(e)
      <4>1. PICK j \in 1..Len(e) : e[j] = t
        BY <3>4, Zenon DEF OwedBy
      <4>. HIDE DEF e
      <4>2. CASE j = 1
        BY <3>1, <4>1, <4>2, SMT
      <4>3. CASE j # 1
        <5>1. j - 1 \in 1..Len(Tail(e)) /\ Tail(e)[j - 1] = e[j]
          BY <3>1, <4>1, <4>3, SMT
        <5> QED  BY <3>1, <3>3, <4>1, <5>1, Zenon DEF OwedBy
      <4> QED  BY <4>2, <4>3
    <3>5. Len(R) >= n - 1 /\ n \in 1..Len(R)
      BY <1>2, <2>1, <3>3, SMT
    <3>6. Owes(S, t) => Owes(R, t) \/ OwedBy(S[n], t)
      BY <1>1, <2>1, <3>3, <3>5, OwesBelow
    <3> QED  BY <1>1, <2>1, <3>2, <3>4, <3>5, <3>6, OwesTop
  <2> QED  BY <2>2, <2>3, <2>4
<1> QED  BY <1>4, <1>5, <1>6, <1>7, <1>8, <1>9, <1>10, Zenon DEF Step

\* No return, nested or not, loses an effect of a transaction that commits.
THEOREM EffectsKeptHolds == Spec => EffectsKept
<1>1. ASSUME IInv, [Next]_vars, NEW p \in Procs, NEW t \in Tx,
             Due(p, t), fate[t]' = "committed", ~Abort(p)
      PROVE  Due(p, t)' \/ t \in ran'
  <2>1. Queues(queue[p], t) \/ Owes(stack[p], t)
    <3>1. stack[p] \in Seq(Frames) /\ queue[p] \in Seq(Tx)
      BY <1>1, Functions, SMT DEF IInv
    <3> QED  BY <1>1, <3>1, OwedStacks, Zenon DEF Due, Calls
  <2>2. Due(p, t)' <=> Queues(queue'[p], t) \/ Owes(stack'[p], t)
    <3>1. TypeOK'
      BY <1>1, Kept DEF IInv
    <3>2. stack'[p] \in Seq(Frames) /\ queue'[p] \in Seq(Tx)
      BY <3>1, Zenon DEF TypeOK
    <3>3. /\ t \in Range(queue'[p]) <=> Queues(queue'[p], t)
          /\ (\E f \in Range(stack'[p]) : t \in Range(f.effects)) <=> Owes(stack'[p], t)
      BY <3>2, OwedStacks
    <3> QED  BY <3>3, Zenon DEF Due, Calls
  <2>3. CASE UNCHANGED vars
    BY <2>1, <2>2, <2>3 DEF vars
  <2>4. CASE Next
    <3>1. PICK r \in Procs : Step(r)
      BY <2>4, StepCases
    <3>2. CASE r = p
      BY <1>1, <2>1, <2>2, <3>1, <3>2, OwedStep
    <3>3. CASE r # p
      BY <1>1, <2>1, <2>2, <3>1, <3>3, OthersUntouched DEF IInv
    <3> QED  BY <3>2, <3>3
  <2> QED  BY <1>1, <2>3, <2>4
<1>2. IInv /\ [Next]_vars =>
        [\A p \in Procs, t \in Tx :
           (Due(p, t) /\ fate[t]' = "committed" /\ ~Abort(p)) => Due(p, t)' \/ t \in ran']_vars
  BY <1>1, Zenon
<1> QED  BY <1>2, Invariant, PTL DEF Spec, EffectsKept

-----------------------------------------------------------------------------
\* Nobody waits in a circle on SQLite.  The keys nest in an order: some key of
\* every set of them has no other of the set inside it.
Ordered == \A T \in SUBSET Keys : T # {} => \E k \in T : \A l \in T \ {k} : <<k, l>> \notin Nests

\* So the calls of a stack climb, and in a transaction there is nothing to take.
Climbs(S) ==
  \A i, j \in 1..Len(S) : i < j /\ S[i].key \in Keys /\ S[j].key \in Keys =>
    S[i].key = S[j].key \/ <<S[i].key, S[j].key>> \in Nests
ToWrite == {<<>>, <<"mutex">>, <<"mutex", "transaction">>, <<"transaction">>}
NothingInTx(td, t) == td \in ToWrite /\ (td # <<>> => t = 0)
CircleInv ==
  IInv /\ \A p \in Procs : Climbs(stack[p]) /\ NothingInTx(todo[p], tx[p])

LEMMA ClimbsPush ==
  ASSUME NEW S \in Seq(Frames), Climbs(S), NEW f \in Frames,
         \A i \in 1..Len(S) : S[i].key \in Keys /\ f.key \in Keys =>
           S[i].key = f.key \/ <<S[i].key, f.key>> \in Nests
  PROVE  Climbs(Append(S, f))
<1>. DEFINE R == Append(S, f)
<1>1. /\ Len(S) \in Nat /\ Len(R) = Len(S) + 1 /\ R[Len(S) + 1] = f
      /\ \A i \in 1..Len(S) : R[i] = S[i]
  BY Pushed, SMT
<1>. HIDE DEF R
<1>2. SUFFICES ASSUME NEW i \in 1..Len(R), NEW j \in 1..Len(R), i < j,
                      R[i].key \in Keys, R[j].key \in Keys
               PROVE  R[i].key = R[j].key \/ <<R[i].key, R[j].key>> \in Nests
  BY Zenon DEF Climbs, R
<1>3. i \in 1..Len(S) /\ R[i] = S[i]
  BY <1>1, <1>2, SMT
<1>4. CASE j = Len(S) + 1
  BY <1>1, <1>2, <1>3, <1>4, Zenon
<1>5. CASE j \in 1..Len(S)
  BY <1>1, <1>2, <1>3, <1>5, Zenon DEF Climbs
<1> QED  BY <1>1, <1>4, <1>5, SMT

LEMMA ClimbsTop ==
  ASSUME NEW S \in Seq(Frames), S # <<>>, Climbs(S), NEW f \in Frames, f.key = S[Len(S)].key
  PROVE  Climbs([S EXCEPT ![Len(S)] = f])
<1>. DEFINE R == [S EXCEPT ![Len(S)] = f]
<1>1. /\ Len(R) = Len(S) /\ R[Len(S)] = f /\ \A i \in 1..(Len(S) - 1) : R[i] = S[i]
  BY TopSet
<1>. HIDE DEF R
<1>2. Len(S) \in Nat \ {0}
  BY Popped
<1>3. \A i \in 1..Len(S) : R[i].key = S[i].key
  <2>1. \A i \in 1..Len(S) : i = Len(S) \/ i \in 1..(Len(S) - 1)
    BY <1>2, SMT
  <2> QED  BY <1>1, <2>1, Zenon
<1> QED  BY <1>1, <1>3, Zenon DEF Climbs, R

LEMMA ClimbsPop ==
  ASSUME NEW S \in Seq(Frames), S # <<>>, Climbs(S)
  PROVE  Climbs(Front(S))
<1>. DEFINE R == Front(S)
<1>1. /\ Len(S) \in Nat \ {0} /\ Len(R) = Len(S) - 1 /\ \A i \in 1..(Len(S) - 1) : R[i] = S[i]
  BY Popped
<1>. HIDE DEF R
<1>2. \A i \in 1..Len(R) : i \in 1..Len(S) /\ R[i] = S[i]
  BY <1>1, SMT
<1> QED  BY <1>2, Zenon DEF Climbs, R

LEMMA ClimbsStep ==
  ASSUME TypeOK, StacksSound, NEW p \in Procs, Step(p), Climbs(stack[p])
  PROVE  Climbs(stack'[p])
<1>. DEFINE S == stack[p]  n == Len(S)
<1>2. S \in Seq(Frames)
  BY Functions
<1>4. ASSUME S # <<>>, NEW f \in Frames, f.key = Top(p).key,
             stack' = [stack EXCEPT ![p] = [@ EXCEPT ![n] = f]]
      PROVE  Climbs(stack'[p])
  <2>1. stack'[p] = [S EXCEPT ![n] = f]
    BY <1>4, Functions, Zenon
  <2>2. Top(p) = S[n]
    BY <1>4, StackFacts
  <2> QED  BY <1>2, <1>4, <2>1, <2>2, ClimbsTop, Zenon
<1>5. ASSUME S # <<>>, stack' = [stack EXCEPT ![p] = Front(@)]
      PROVE  Climbs(stack'[p])
  BY <1>2, <1>5, Functions, ClimbsPop, Zenon
<1>6. CASE stack' = stack
  BY <1>6
<1>7. ASSUME NEW op \in Ops, NEW k \in Keys \cup {NoKey}, Call(p, op, k)
      PROVE  Climbs(stack'[p])
  <2>. DEFINE f == NewFrame(p, op, k)
  <2>1. f \in Frames /\ stack' = [stack EXCEPT ![p] = Append(@, f)]
    BY <1>7, CallStack
  <2>2. f.key = k
    BY DEF NewFrame
  <2>. HIDE DEF f
  <2>3. \A g \in Calls(p) : g.key \in Keys /\ k \in Keys => g.key = k \/ <<g.key, k>> \in Nests
    BY <1>7 DEF Call
  <2>4. \A i \in 1..n : S[i] \in Calls(p)
    BY <1>2, SMT DEF Calls, Range
  <2>5. Climbs(Append(S, f))
    BY <1>2, <2>1, <2>2, <2>3, <2>4, ClimbsPush, Zenon
  <2> QED  BY <2>1, <2>5, Functions, Zenon
<1>8. CASE Take(p)
  <2>1. \A part : Given(p, part).key = Top(p).key
    <3>1. Top(p) \in Frames
      BY <1>8, TakeFacts, StackFacts
    <3> QED  BY <3>1, SMTT(30) DEF Given, Frames
  <2> QED  BY <1>4, <1>6, <1>8, <2>1, TakeFacts, Zenon
<1>9. CASE GoOnUnlocked(p) \/ Defer(p)
  BY <1>6, <1>9 DEF GoOnUnlocked, Defer
<1>10. ASSUME NEW ok \in BOOLEAN, Return(p, ok)
       PROVE  Climbs(stack'[p])
  <2>1. /\ S # <<>> /\ Taken(p) \in Frames
        /\ stack' = [stack EXCEPT ![p] = [@ EXCEPT ![n] = Taken(p)]]
    BY <1>10, ReturnStack
  <2>2. Taken(p).key = Top(p).key
    <3>1. Top(p) \in Frames
      BY <2>1, StackFacts
    <3> QED  BY <3>1, SMTT(30) DEF Taken, Frames
  <2> QED  BY <1>4, <2>1, <2>2
<1>11. CASE Unlock(p)
  <2>1. S # <<>> /\ Effects(p) \in Frames
    BY <1>11, UnlockStack
  <2>2. CASE stack' = [stack EXCEPT ![p] = Append(Front(@), Effects(p))]
    <3>1. Effects(p).key \notin Keys
      BY NoKeyAssumption DEF Effects, AfterFrame
    <3>2. Front(S) \in Seq(Frames) /\ Climbs(Front(S))
      BY <1>2, <2>1, Popped, ClimbsPop
    <3>3. Climbs(Append(Front(S), Effects(p)))
      BY <2>1, <3>1, <3>2, ClimbsPush, Zenon
    <3> QED  BY <2>2, <3>3, Functions, Zenon
  <2> QED  BY <1>5, <1>11, <2>1, <2>2, UnlockStack, Zenon
<1>12. CASE RunEffect(p)
  <2>1. Top(p).effects # <<>> => Later(p).key = Top(p).key
    <3>1. Top(p) \in Frames
      BY <1>12, RunEffectStack, StackFacts
    <3> QED  BY <3>1, SMTT(30) DEF Later, Frames
  <2> QED  BY <1>4, <1>5, <1>12, <2>1, RunEffectStack, Zenon
<1>13. CASE Abort(p)
  <2>1. stack'[p] = <<>>
    <3>1. stack' = [stack EXCEPT ![p] = <<>>]
      BY <1>13 DEF Abort
    <3> QED  BY <3>1, Functions, Zenon
  <2>2. 1..Len(<<>>) = {}
    BY SMT
  <2> QED  BY <2>1, <2>2, Zenon DEF Climbs
<1> QED  BY <1>7, <1>8, <1>9, <1>10, <1>11, <1>12, <1>13 DEF Step

LEMMA WritesStep ==
  ASSUME TypeOK, StacksSound, ~Postgres, NEW p \in Procs, Step(p), NothingInTx(todo[p], tx[p])
  PROVE  NothingInTx(todo'[p], tx'[p])
<1>1. CASE todo' = todo /\ (todo[p] = <<>> \/ tx' = tx)
  BY <1>1, Zenon DEF NothingInTx
<1>2. ASSUME NEW op \in Ops, NEW k \in Keys \cup {NoKey}, Call(p, op, k)
      PROVE  NothingInTx(todo'[p], tx'[p])
  <2>1. todo'[p] = Plan(op, InTx(p)) /\ tx' = tx
    BY <1>2, Functions, SMT DEF Call
  <2>2. op \in AllOps
    BY OpsAssumption
  <2>3. Plan(op, InTx(p)) \in ToWrite /\ (InTx(p) => Plan(op, InTx(p)) = <<>>)
    BY <2>2, SMT DEF Plan, SerializePlan, ToWrite, AllOps
  <2> QED  BY <2>1, <2>3, Zenon DEF NothingInTx, InTx
<1>3. CASE Take(p)
  <2>1. /\ todo[p] # <<>> /\ todo'[p] = Tail(todo[p]) /\ Needs(p) = Head(todo[p])
        /\ Needs(p) # "transaction" => tx' = tx
    BY <1>3, TakeFacts, Zenon
  <2>2. ASSUME NEW td \in ToWrite, td # <<>>
        PROVE  Tail(td) \in ToWrite /\ (Head(td) = "transaction" => Tail(td) = <<>>)
    <3>1. CASE td = <<"mutex">>  BY <3>1, SMT DEF ToWrite
    <3>2. CASE td = <<"mutex", "transaction">>  BY <3>2, SMT DEF ToWrite
    <3>3. CASE td = <<"transaction">>  BY <3>3, SMT DEF ToWrite
    <3> QED  BY <2>2, <3>1, <3>2, <3>3, Zenon DEF ToWrite
  <2> QED  BY <2>1, <2>2, Zenon DEF NothingInTx
<1>4. CASE GoOnUnlocked(p)
  BY <1>4 DEF GoOnUnlocked
<1>5. CASE Defer(p) \/ Unlock(p) \/ RunEffect(p)
  BY <1>1, <1>5, Zenon DEF Defer, Unlock, RunEffect
<1>6. ASSUME NEW ok \in BOOLEAN, Return(p, ok)
      PROVE  NothingInTx(todo'[p], tx'[p])
  BY <1>1, <1>6, Zenon DEF Return, Running
<1>7. CASE Abort(p)
  <2>1. todo'[p] = <<>>
    <3>1. todo' = [todo EXCEPT ![p] = <<>>]
      BY <1>7 DEF Abort
    <3> QED  BY <3>1, Functions, Zenon
  <2> QED  BY <2>1, Zenon DEF NothingInTx, ToWrite
<1> QED  BY <1>2, <1>3, <1>4, <1>5, <1>6, <1>7 DEF Step

LEMMA CircleInvariant ==
  ASSUME ~Postgres
  PROVE  Spec => []CircleInv
<1>1. Init => CircleInv
  <2>1. SUFFICES ASSUME Init  PROVE CircleInv
    OBVIOUS
  <2>2. IInv /\ \A p \in Procs : stack[p] = <<>> /\ todo[p] = <<>>
    BY <2>1, AtStart DEF Init
  <2>3. Climbs(<<>>) /\ \A t : NothingInTx(<<>>, t)
    <3>1. 1..Len(<<>>) = {}
      BY SMT
    <3> QED  BY <3>1, Zenon DEF Climbs, NothingInTx, ToWrite
  <2> QED  BY <2>2, <2>3, Zenon DEF CircleInv
<1>2. CircleInv /\ [Next]_vars => CircleInv'
  <2>1. SUFFICES ASSUME CircleInv, [Next]_vars  PROVE CircleInv'
    OBVIOUS
  <2>2. IInv' /\ TypeOK /\ StacksSound
    BY <2>1, Kept DEF CircleInv, IInv
  <2>3. \A q \in Procs : Climbs(stack[q]) /\ NothingInTx(todo[q], tx[q])
    BY <2>1 DEF CircleInv
  <2>4. CASE UNCHANGED vars
    BY <2>2, <2>3, <2>4 DEF CircleInv, vars
  <2>5. ASSUME NEW p \in Procs, Step(p), NEW q \in Procs
        PROVE  Climbs(stack'[q]) /\ NothingInTx(todo'[q], tx'[q])
    <3>1. CASE q = p
      BY <2>2, <2>3, <2>5, <3>1, ClimbsStep, WritesStep
    <3>2. CASE q # p
      BY <2>2, <2>3, <2>5, <3>2, OthersUntouched
    <3> QED  BY <3>1, <3>2
  <2>6. CASE Next
    <3>1. \E p \in Procs : Step(p)
      BY <2>6, StepCases
    <3> QED  BY <2>2, <2>5, <3>1 DEF CircleInv
  <2> QED  BY <2>1, <2>4, <2>6
<1> QED  BY <1>1, <1>2, PTL DEF Spec

\* Who waits, waits for the mutex of a key or for the writer; the writer waits for
\* nobody; and who has a mutex and waits, waits for a key that may be inside it.
LEMMA WhoWaits ==
  ASSUME CircleInv, ~Postgres, NEW p \in Procs, Blockers(p) # {}
  PROVE  /\ todo[p] # <<>> /\ ~InTx(p)
         /\ \/ Needs(p) = "transaction" /\ \A q \in Blockers(p) : InTx(q)
            \/ /\ Needs(p) = "mutex" /\ ~Has(p, "mutex", Top(p).key) /\ Top(p).key \in Keys
               /\ stack[p] # <<>>
               /\ \A q \in Blockers(p) : Has(q, "mutex", Top(p).key)
<1>1. /\ todo[p] \in ToWrite /\ (todo[p] # <<>> => tx[p] = 0)
      /\ Staged(stack[p], todo[p], closing[p], tx[p])
  BY Zenon DEF CircleInv, NothingInTx, IInv, StacksSound
<1>2. todo[p] # <<>>
  BY SMT DEF Blockers, Needs
<1>3. \/ Needs(p) = "mutex" /\ todo[p] \notin {<<>>, <<"transaction">>}
      \/ Needs(p) = "transaction"
  BY <1>1, <1>2, SMT DEF ToWrite, Needs
<1>4. CASE Needs(p) = "mutex" /\ todo[p] \notin {<<>>, <<"transaction">>}
  <2>1. stack[p] # <<>> /\ stack[p][Len(stack[p])].key \in Keys
    BY <1>1, <1>4, Zenon DEF Staged
  <2>2. Top(p).key \in Keys
    BY <2>1, StackFacts DEF CircleInv, IInv
  <2>3. ~Has(p, "mutex", Top(p).key) /\ \A q \in Blockers(p) : Has(q, "mutex", Top(p).key)
    BY <1>4, SMT DEF Blockers
  <2> QED  BY <1>1, <1>2, <1>4, <2>1, <2>2, <2>3 DEF InTx
<1>5. CASE Needs(p) = "transaction"
  <2>1. \A q \in Blockers(p) : InTx(q)
    BY <1>5, SMT DEF Blockers
  <2> QED  BY <1>1, <1>2, <1>5, <2>1 DEF InTx
<1> QED  BY <1>3, <1>4, <1>5

LEMMA Inwards ==
  ASSUME CircleInv, NEW q \in Procs, stack[q] # <<>>, NEW k \in Keys, Has(q, "mutex", k),
         ~Has(q, "mutex", Top(q).key), Top(q).key \in Keys
  PROVE  k # Top(q).key /\ <<k, Top(q).key>> \in Nests
<1>. DEFINE S == stack[q]  n == Len(S)
<1>0. Calls(q) = {S[i] : i \in 1..n}
  BY StackOf DEF CircleInv
<1>1. PICK i \in 1..n : "mutex" \in S[i].has /\ S[i].key = k
  BY <1>0, Zenon DEF Has
<1>2. k # Top(q).key
  OBVIOUS
<1>3. Top(q) = S[n] /\ n \in Nat \ {0}
  BY StackFacts DEF CircleInv, IInv
<1>4. i # n
  BY <1>1, <1>2, <1>3
<1>5. i < n /\ n \in 1..n
  BY <1>1, <1>3, <1>4, SMT
<1>6. Climbs(S)
  BY DEF CircleInv
<1> QED  BY <1>1, <1>2, <1>3, <1>5, <1>6, Zenon DEF Climbs

\* Nobody waits in a circle on SQLite, of mutexes and the writer, however many
\* processes and keys there are and however deep calls nest, when keys nest in an
\* order: the waiter for the innermost key is waited for by nobody who waits.
THEOREM NoDeadlockHolds ==
  ASSUME ~Postgres, Ordered
  PROVE  Spec => []NoDeadlock
<1>1. CircleInv => NoDeadlock
  <2>1. SUFFICES ASSUME CircleInv, NEW S \in SUBSET Procs, S # {},
                        \A p \in S : Blockers(p) # {} /\ Blockers(p) \subseteq S
                 PROVE  FALSE
    BY Zenon DEF NoDeadlock, Deadlocked
  <2>2. \A p \in S : /\ ~InTx(p) /\ stack[p] # <<>> /\ Top(p).key \in Keys
                     /\ ~Has(p, "mutex", Top(p).key)
                     /\ \A q \in Blockers(p) : Has(q, "mutex", Top(p).key)
    <3>1. TAKE p \in S
    <3>2. p \in Procs /\ Blockers(p) # {} /\ Blockers(p) \subseteq S
      BY <2>1
    <3>3. \A q \in Blockers(p) : ~InTx(q)
      BY <2>1, <3>2, WhoWaits, Zenon
    <3> QED  BY <2>1, <3>2, <3>3, WhoWaits, Zenon
  <2>. DEFINE T == {Top(p).key : p \in S}
  <2>3. T \in SUBSET Keys /\ T # {}
    BY <2>1, <2>2
  <2>4. PICK k \in T : \A l \in T \ {k} : <<k, l>> \notin Nests
    BY <2>3, Zenon DEF Ordered
  <2>5. PICK p \in S : k = Top(p).key
    OBVIOUS
  <2>6. PICK q \in Blockers(p) : q \in S
    BY <2>1
  <2>7. q \in Procs /\ Top(q).key \in T /\ Has(q, "mutex", k) /\ k \in Keys
    BY <2>1, <2>2, <2>3, <2>5, <2>6
  <2>8. k # Top(q).key /\ <<k, Top(q).key>> \in Nests
    BY <2>1, <2>2, <2>6, <2>7, Inwards, Zenon
  <2> QED  BY <2>4, <2>7, <2>8
<1> QED  BY <1>1, CircleInvariant, PTL
=============================================================================
