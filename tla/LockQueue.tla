----------------------------- MODULE LockQueue -----------------------------
(***************************************************************************)
(* Gamend.Lock.Local and the GenServer behind it, Gamend.Lock.Queue: a     *)
(* keyed mutex among the processes of one node, reentrant, served in the   *)
(* order the server hears of the callers, that survives the death of a     *)
(* holder or of a waiter.                                                  *)
(*                                                                         *)
(* A process and the server talk by messages: an `acquire` call, a         *)
(* `release` cast, the reply to the call, and the runtime's :DOWN for a    *)
(* monitored process.  The messages of one process about one key arrive in *)
(* the order sent and before its :DOWN; nothing else is ordered (two keys  *)
(* may live in two partitions).                                            *)
(***************************************************************************)
EXTENDS Integers, Sequences

CONSTANTS
  Procs,      \* the processes of the node
  Keys,       \* the keys they lock
  Nesting,    \* the pairs <<outer, inner>> of distinct keys a caller nests
  MaxCalls,   \* bound: how many times a process asks the server
  MaxDepth,   \* bound: how deep sections nest
  NoRef,      \* no monitor reference
  NoKey       \* no key

ASSUME MaxCallsAssumption == MaxCalls \in Nat
ASSUME MaxDepthAssumption == MaxDepth \in Nat
ASSUME NestingAssumption  == Nesting \subseteq Keys \X Keys
ASSUME NoKeyAssumption    == NoKey \notin Keys

\* Process.monitor/1 answers a fresh reference: the caller and which of its
\* calls this is.
Refs == Procs \X (1..MaxCalls)

ASSUME NoRefAssumption == NoRef \notin Refs

VARIABLES
  alive,      \* the processes still running
  calls,      \* how many acquires each process has sent
  sections,   \* the sections each process is in, innermost first:
              \* the key, and whether this section took it (`hold`, branch 2)
  held,       \* Lock.Local's process dictionary: the keys the process holds
  blocked,    \* the key whose acquire call the process is blocked in
  mailbox,    \* what each process sent the partition of each key
  replies,    \* the acquires answered :ok, the reply not yet received
  holder,     \* locks[key]: the holder's reference
  waiting,    \* locks[key]: the line behind it
  monitors    \* the server's `refs`, by key

clientVars == <<alive, calls, sections, held, blocked>>
serverVars == <<holder, waiting, monitors>>
vars == <<clientVars, mailbox, replies, serverVars>>

Message == [op : {"acquire"}, ref : Refs] \cup [op : {"release"}]
Section == [key : Keys, took : BOOLEAN]

TypeOK ==
  /\ alive \in SUBSET Procs
  /\ calls \in [Procs -> 0..MaxCalls]
  /\ sections \in [Procs -> Seq(Section)]
  /\ held \in [Procs -> SUBSET Keys]
  /\ blocked \in [Procs -> Keys \cup {NoKey}]
  /\ mailbox \in [Procs -> [Keys -> Seq(Message)]]
  /\ replies \in SUBSET Refs
  /\ holder \in [Keys -> Refs \cup {NoRef}]
  /\ waiting \in [Keys -> Seq(Refs)]
  /\ monitors \in [Keys -> SUBSET Refs]

Init ==
  /\ alive = Procs
  /\ calls = [p \in Procs |-> 0]
  /\ sections = [p \in Procs |-> << >>]
  /\ held = [p \in Procs |-> {}]
  /\ blocked = [p \in Procs |-> NoKey]
  /\ mailbox = [p \in Procs |-> [k \in Keys |-> << >>]]
  /\ replies = {}
  /\ holder = [k \in Keys |-> NoRef]
  /\ waiting = [k \in Keys |-> << >>]
  /\ monitors = [k \in Keys |-> {}]

-----------------------------------------------------------------------------
\* Lock.Local.hold/3, run by the caller.

Running(p) == p \in alive /\ blocked[p] = NoKey

\* The key is not in the process dictionary: call the server and block.
Ask(p, k) ==
  /\ Running(p)
  /\ k \notin held[p]
  /\ \A h \in held[p] : <<h, k>> \in Nesting
  /\ calls[p] < MaxCalls /\ Len(sections[p]) < MaxDepth
  /\ calls' = [calls EXCEPT ![p] = @ + 1]
  /\ blocked' = [blocked EXCEPT ![p] = k]
  /\ mailbox' = [mailbox EXCEPT ![p][k] =
                   Append(@, [op |-> "acquire", ref |-> <<p, calls[p] + 1>>])]
  /\ UNCHANGED <<alive, sections, held, replies, serverVars>>

\* The key is in the process dictionary: run the section at once.
InnerReleases(k) == [key |-> k, took |-> TRUE]          \* a mutant
Inner(k) == [key |-> k, took |-> FALSE]
Reenter(p, k) ==
  /\ Running(p)
  /\ k \in held[p]
  /\ Len(sections[p]) < MaxDepth
  /\ sections' = [sections EXCEPT ![p] = <<Inner(k)>> \o @]
  /\ UNCHANGED <<alive, calls, held, blocked, mailbox, replies, serverVars>>

\* The call returns: the process holds the key and enters the section.
Enter(p) ==
  /\ p \in alive
  /\ blocked[p] # NoKey
  /\ <<p, calls[p]>> \in replies
  /\ replies' = replies \ {<<p, calls[p]>>}
  /\ held' = [held EXCEPT ![p] = @ \cup {blocked[p]}]
  /\ sections' = [sections EXCEPT ![p] = <<[key |-> blocked[p], took |-> TRUE]>> \o @]
  /\ blocked' = [blocked EXCEPT ![p] = NoKey]
  /\ UNCHANGED <<alive, calls, mailbox, serverVars>>

\* The innermost section ends, by return or by exception: only the section
\* that took the key forgets it and casts the release.
Leave(p) ==
  /\ Running(p)
  /\ sections[p] # << >>
  /\ sections' = [sections EXCEPT ![p] = Tail(@)]
  /\ LET s == Head(sections[p]) IN
       IF s.took
       THEN /\ held' = [held EXCEPT ![p] = @ \ {s.key}]
            /\ mailbox' = [mailbox EXCEPT ![p][s.key] = Append(@, [op |-> "release"])]
       ELSE UNCHANGED <<held, mailbox>>
  /\ UNCHANGED <<alive, calls, blocked, replies, serverVars>>

\* The process is killed, wherever it is; its `after` block does not run.
Die(p) ==
  /\ p \in alive
  /\ alive' = alive \ {p}
  /\ UNCHANGED <<calls, sections, held, blocked, mailbox, replies, serverVars>>

-----------------------------------------------------------------------------
\* Lock.Queue, the server.

Owner(ref) == ref[1]
AlwaysFree(k) == TRUE                                   \* a mutant
Free(k) == holder[k] = NoRef

\* next/3: the key goes to the head of the line, who is answered, or is free.
HandOn(k) ==
  IF waiting[k] = << >>
  THEN /\ holder' = [holder EXCEPT ![k] = NoRef]
       /\ UNCHANGED <<waiting, replies>>
  ELSE /\ holder' = [holder EXCEPT ![k] = Head(waiting[k])]
       /\ waiting' = [waiting EXCEPT ![k] = Tail(@)]
       /\ replies' = replies \cup {Head(waiting[k])}

\* Process.demonitor/2 with the deletion from `refs`.
Forget(k, ref) == monitors' = [monitors EXCEPT ![k] = @ \ {ref}]

\* A waiter leaves the line (its reference is there once: MonitorsExact).
StaysInLine(line, i) == line                            \* a mutant
OutOfLine(line, i) == [j \in 1..(Len(line) - 1) |-> IF j < i THEN line[j] ELSE line[j + 1]]

Receive(p, k, op) ==
  /\ mailbox[p][k] # << >>
  /\ Head(mailbox[p][k]).op = op
  /\ mailbox' = [mailbox EXCEPT ![p][k] = Tail(@)]
  /\ UNCHANGED clientVars

\* handle_call({:acquire, key}): monitor the caller; take the free key or join
\* the end of the line.
JoinedInFront(line, ref) == <<ref>> \o line             \* a mutant
JoinedByPid(line, ref) == Append(line, Owner(ref))      \* a mutant
Joined(line, ref) == Append(line, ref)
HandleAcquire(p, k) ==
  /\ Receive(p, k, "acquire")
  /\ LET ref == Head(mailbox[p][k]).ref IN
       /\ monitors' = [monitors EXCEPT ![k] = @ \cup {ref}]
       /\ IF Free(k)
          THEN /\ holder' = [holder EXCEPT ![k] = ref]
               /\ replies' = replies \cup {ref}
               /\ UNCHANGED waiting
          ELSE /\ waiting' = [waiting EXCEPT ![k] = Joined(@, ref)]
               /\ UNCHANGED <<holder, replies>>

\* handle_cast({:release, key, pid}): ignored unless pid is the holder.
HandleRelease(p, k) ==
  /\ Receive(p, k, "release")
  /\ IF ~Free(k) /\ Owner(holder[k]) = p
     THEN Forget(k, holder[k]) /\ HandOn(k)
     ELSE UNCHANGED <<replies, serverVars>>

\* handle_info({:DOWN, ref, ...}): the holder died inside its section, a
\* waiter died in line, or the reference is nobody's.
HolderDied(ref, k) == holder[k] = ref
HandleDown(ref, k) ==
  /\ ref \in monitors[k]
  /\ Owner(ref) \notin alive
  /\ mailbox[Owner(ref)][k] = << >>
  /\ Forget(k, ref)
  /\ \/ HolderDied(ref, k) /\ HandOn(k)
     \/ /\ ~HolderDied(ref, k)
        /\ \E i \in DOMAIN waiting[k] :
             /\ waiting[k][i] = ref
             /\ waiting' = [waiting EXCEPT ![k] = OutOfLine(@, i)]
        /\ UNCHANGED <<holder, replies>>
     \/ /\ ~HolderDied(ref, k)
        /\ \A i \in DOMAIN waiting[k] : waiting[k][i] # ref
        /\ UNCHANGED <<holder, waiting, replies>>
  /\ UNCHANGED <<clientVars, mailbox>>

Client(p) == \/ \E k \in Keys : Ask(p, k) \/ Reenter(p, k)
             \/ Enter(p)
             \/ Leave(p)

Server == \E k \in Keys :
  \/ \E p \in Procs : HandleAcquire(p, k) \/ HandleRelease(p, k)
  \/ \E ref \in monitors[k] : HandleDown(ref, k)

\* The system stands still when nobody waits, nobody is inside, and the
\* server has nothing left to do.
Next == Server \/ \E p \in Procs : Client(p) \/ Die(p)

Spec == Init /\ [][Next]_vars

\* The section that took a key ends.
Finish(p) == sections[p] # << >> /\ Head(sections[p]).took /\ Leave(p)

\* The scheduler runs every process and the server.  A section is finite code:
\* however often it re-enters keys it holds, it ends (SF: re-entries may
\* disable the end for a while), unless its process dies.
Fairness == /\ WF_vars(Server)
            /\ \A p \in Procs : /\ WF_vars(Enter(p))
                                /\ WF_vars(Leave(p))
                                /\ SF_vars(Finish(p))

FairSpec == Spec /\ Fairness

-----------------------------------------------------------------------------
\* Properties.

\* The processes running a section of k.
Inside(k) == {p \in alive : \E i \in DOMAIN sections[p] : sections[p][i].key = k}

\* Local.trans/2 is a mutex: no two live processes are inside sections of one
\* key, whatever was released, killed or is still in flight (lock/local.ex:26).
MutualExclusion == \A k \in Keys : \A p, q \in Inside(k) : p = q

\* The server monitors exactly the holder and the line of a key, each once: a
\* reference it forgot would leave a dead process holding the key, a reference
\* it kept would be a leak (lock/queue.ex:6-9).
LineRefs(k) == {waiting[k][i] : i \in DOMAIN waiting[k]}
MonitorsExact ==
  \A k \in Keys :
    /\ monitors[k] = LineRefs(k) \cup ({holder[k]} \ {NoRef})
    /\ \A i, j \in DOMAIN waiting[k] : waiting[k][i] = waiting[k][j] => i = j
    /\ holder[k] \notin LineRefs(k)
    /\ holder[k] = NoRef => waiting[k] = << >>

\* A process inside a section, or told it may enter one, is the key's holder:
\* a release that arrives late never takes the key from a later section of the
\* same process (release carries the pid, not the reference).
HolderInside ==
  \A p \in alive, k \in Keys :
    (p \in Inside(k) \/ (blocked[p] = k /\ <<p, calls[p]>> \in replies))
      => holder[k] # NoRef /\ Owner(holder[k]) = p

\* Served in the order they asked: a live waiter is overtaken neither by those
\* behind it nor by those who ask later, until it is given the key; the deaths
\* of others do not shuffle the line (lock/queue.ex:3-4).
Ahead(line, a, b) == \E i, j \in DOMAIN line : i < j /\ line[i] = a /\ line[j] = b
Earlier(k, i) == {holder[k]} \cup {waiting[k][n] : n \in 1..i}
FirstComeFirstServed ==
  [][\A k \in Keys : \A i \in DOMAIN waiting[k] : \A b \in Refs \ Earlier(k, i) :
       LET a == waiting[k][i] IN
       Owner(a) \in alive =>
         \/ holder'[k] = a
         \/ holder'[k] # b /\ (b \in LineRefs(k)' => Ahead(waiting'[k], a, b))]_vars

\* A caller that asked gets the key or dies: nobody is forgotten in line, no
\* dead process keeps a key (lock/local.ex:7).
EveryCallerServed ==
  \A p \in Procs, k \in Keys :
    (blocked[p] = k /\ p \in alive) ~> (k \in held[p] \/ p \notin alive)

\* The server implements the abstract mutex: whoever it answers had asked, a
\* key is never taken from its owner for a caller who did not wait, and never
\* lies free while somebody waits.
M == INSTANCE Mutex WITH
  Callers <- Refs, Nobody <- NoRef,
  owner <- holder, asking <- [k \in Keys |-> LineRefs(k)]
ImplementsMutex == M!MutexSpec
=============================================================================
