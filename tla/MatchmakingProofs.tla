-------------------------- MODULE MatchmakingProofs --------------------------
(***************************************************************************)
(* The matchmaking queue, for any users, parties, callers and bounds: that *)
(* a claim is in one pair of hands, that a match is whole, and, while a     *)
(* client waits for one join to end (OneJoin), that nobody waits twice but *)
(* past a ticket too old for the guard.                                    *)
(*                                                                         *)
(* The invariant is about who holds what.  A check that is pending counts  *)
(* as the settlement it will spawn: with the tasks, these are the holders. *)
(***************************************************************************)
EXTENDS Matchmaking, Matcher, SequenceTheorems, FiniteSetTheorems, WellFoundedInduction, TLAPS

\* Who will still decide on a claimed ticket.
Settlement(c) == [op |-> "settle", check |-> c]
Holders == tasks \cup {Settlement(c) : c \in {d \in 1..MaxChecks : Pending(d)}}

\* What the columns of a ticket say of each other.
Rows ==
  \A t \in Tickets :
    /\ t \notin Made => status[t] = "none"
    /\ t \in Made => status[t] # "none"
    /\ status[t] \in {"none", "queued"} => mark[t] = 0
    /\ mark[t] = 0 => match[t] = 0
    /\ status[t] = "matched" => mark[t] # 0

\* What is held still has the mark of its claim; it is held by one, and all of it
\* that no process died with is.
Mine(h) ==
  /\ status[h[1]] = "matched" /\ mark[h[1]] = h[2] /\ match[h[1]] = 0
  /\ h \notin lost
HoldTheirs == \A x \in Holders : \A h \in Held(x) : Mine(h)
HoldAlone == \A x, y \in Holders : \A h \in Held(x) : h \in Held(y) => x = y
AllHeld ==
  \A t \in Made : Undecided(t) /\ ~Lost(t) => \E x \in Holders : <<t, mark[t]>> \in Held(x)
\* Nothing is lost before it is claimed.
LostOnce == \A h \in lost : h[2] <= claims

\* The checks, and what the tasks know of them.
CheckOK(k) ==
  /\ k.status = "none" => k = NoCheck
  /\ k.status = "passed" => \A t \in TicketsIn(k.asked) : k.answer[t] = "ready"
AskedMade == \A c \in 1..MaxChecks : TicketsIn(checks[c].asked) \subseteq Made
ChecksOK == \A c \in 1..MaxChecks : CheckOK(checks[c])
TaskOK(x) ==
  /\ x.op = "settle" => checks[x.check].status \in {"passed", "failed"}
  /\ x.op = "discard" => x.out \cap x.held = {}
  /\ x.op = "join" => \E u \in Users : x.users = Unit(u)
  /\ x.op = "seat" => x.lobby \in 1..lobbies
TasksOK == \A x \in tasks : TaskOK(x)

\* A live ticket has not said no, but to the check that is about to settle.
StaysIn(t, c) == checks[c].answer[t] \in In
QueuedIn == \A t \in Queued : \A c \in Asking(t) : StaysIn(t, c)
HeldIn ==
  \A x \in Holders : \A h \in Held(x) : \A c \in Asking(h[1]) :
    StaysIn(h[1], c) \/ x = Settlement(c) \/ (x.op = "discard" /\ h \in x.out)

\* While a client waits for one join to end, no two joins are of the same players,
\* and none of them waits on a ticket but one too old for the guard.
Joins == {x \in tasks : x.op = "join"}
JoinsApart == \A x, y \in Joins : x # y => x.users \cap y.users = {}
JoinsClear == \A x \in Joins : \A t \in TicketsOf(x.users) : ~Waiting(t) \/ t \in slipped
Alone == JoinsApart /\ JoinsClear /\ OneTicketEach

\* Who may yet seat a claim holds all of it: that of a match is never a part.
Seats(x) == x.op \in {"start", "create", "seat", "settle"}
HoldsAll(x) == \A h \in Held(x) : \A s \in Made : mark[s] = h[2] => <<s, mark[s]>> \in Held(x)
Whole == \A x \in Holders : Seats(x) => HoldsAll(x)

\* Whoever a task has no more to seat has been in its lobby; whoever sits in a lobby
\* is being seated there, or was.
PlacesIn(x) == {holder[t] : t \in TicketsIn(x.held)}
SeatOK(x) ==
  /\ x.todo \cup x.failed \subseteq PlacesIn(x)
  /\ \A u \in PlacesIn(x) : u \in x.todo \cup x.failed \/ <<u, x.lobby>> \in been
SeatsOK == \A x \in tasks : x.op = "seat" => SeatOK(x)
Seated(u) ==
  \/ \E t \in TicketsOf({u}) : match[t] = seat[u] \/ Lost(t)
  \/ \E x \in tasks : x.op = "seat" /\ x.lobby = seat[u] /\ u \in PlacesIn(x)
SeatedOK ==
  \A u \in Users : seat[u] \in Lobbies =>
    seat[u] \in standing /\ (seat[u] \notin kept => Seated(u))

\* The four parts, and the invariant.
Local == TypeOK /\ Rows /\ LostOnce /\ ChecksOK /\ AskedMade /\ TasksOK
Ownership == HoldTheirs /\ HoldAlone /\ AllHeld
Waits == QueuedIn /\ HeldIn /\ (OneJoin => Alone)
Matches == Whole /\ SeatsOK /\ SeatedOK /\ MatchesWhole

IInv == Local /\ Ownership /\ Waits /\ Matches

-----------------------------------------------------------------------------
(* Tasks, and what they hold. *)

\* The bounds are numbers.
LEMMA Bounds ==
  /\ MaxPlayers \in Nat /\ MaxTickets \in Nat /\ MaxClaims \in Nat
  /\ MaxChecks \in Nat /\ MaxLobbies \in Nat /\ MaxTasks \in Nat
BY BoundsAssumption

\* A ticket that was made is a row of the table.
LEMMA MadeTickets == TypeOK => Made \subseteq Tickets
BY Bounds DEF TypeOK, Made, Tickets

\* What kind a task is, by its op.
LEMMA TaskKinds ==
  ASSUME NEW x \in Tasks
  PROVE  /\ x.op \in {"join", "claim", "start", "create", "requeue", "settle", "seat", "discard"}
         /\ x.op = "join" => x \in Joining
         /\ x.op = "claim" => x \in Forming
         /\ x.op \in {"start", "create", "requeue"} => x \in Holding
         /\ x.op = "settle" => x \in Settling
         /\ x.op = "seat" => x \in Seating
         /\ x.op = "discard" => x \in Dropping
BY DEF Tasks, Joining, Forming, Holding, Settling, Seating, Dropping

\* What a task holds, before a step.
LEMMA HeldNow ==
  ASSUME NEW x
  PROVE  /\ x.op \in {"start", "create", "requeue", "seat"} => Held(x) = x.held
         /\ x.op = "discard" => Held(x) = x.held \cup x.out
         /\ x.op = "settle" => Held(x) = checks[x.check].asked
         /\ x.op \in {"join", "claim"} => Held(x) = {}
BY DEF Held

\* The same, after it.
LEMMA HeldNext ==
  ASSUME NEW x
  PROVE  /\ x.op \in {"start", "create", "requeue", "seat"} => Held(x)' = x.held
         /\ x.op = "discard" => Held(x)' = x.held \cup x.out
         /\ x.op = "settle" => Held(x)' = checks'[x.check].asked
         /\ x.op \in {"join", "claim"} => Held(x)' = {}
BY DEF Held

\* A settlement to come is a task like any other.
LEMMA HoldersTyped ==
  ASSUME TypeOK, NEW x \in Holders
  PROVE  /\ x \in Tasks
         /\ Held(x) \in Claimed
         /\ x.op = "settle" => x.check \in 1..MaxChecks /\ x = Settlement(x.check)
<1>1. x \in Tasks
  BY DEF TypeOK, Holders, Settlement, Tasks, Settling
<1>2. x.op = "settle" => x.check \in 1..MaxChecks /\ x = Settlement(x.check)
  BY <1>1, TaskKinds DEF Settling, Settlement
<1>3. Held(x) \in Claimed
  <2>1. CASE x.op \in {"start", "create", "requeue"}
    BY <2>1, <1>1, TaskKinds, HeldNow DEF Holding
  <2>2. CASE x.op = "seat"
    BY <2>2, <1>1, TaskKinds, HeldNow DEF Seating
  <2>3. CASE x.op = "discard"
    BY <2>3, <1>1, TaskKinds, HeldNow DEF Dropping, Claimed
  <2>4. CASE x.op = "settle"
    BY <2>4, <1>2, HeldNow DEF TypeOK, Checks
  <2>5. CASE x.op \in {"join", "claim"}
    BY <2>5, HeldNow DEF Claimed
  <2> QED BY <2>1, <2>2, <2>3, <2>4, <2>5, <1>1, TaskKinds
<1> QED BY <1>1, <1>2, <1>3

\* What is held is a ticket and the mark of its claim.
LEMMA Pairs ==
  ASSUME NEW s \in Claimed, NEW h \in s
  PROVE  h = <<h[1], h[2]>> /\ h[1] \in Tickets /\ h[2] \in 1..MaxClaims /\ h[1] \in TicketsIn(s)
BY DEF Claimed, TicketsIn

\* What a holder holds is such a pair.
LEMMA HeldPairs ==
  ASSUME TypeOK, NEW x \in Holders, NEW h \in Held(x)
  PROVE  h = <<h[1], h[2]>> /\ h[1] \in Tickets /\ h[2] \in 1..MaxClaims
BY HoldersTyped, Pairs

\* A task that goes on, or ends, leaves the other holders as they were.
LEMMA Continued ==
  ASSUME IInv, NEW t \in tasks, NEW ts, Continue(t, ts), checks' = checks
  PROVE  /\ Holders' = (Holders \ {t}) \cup ts
         /\ \A x : Held(x)' = Held(x)
<1>1. \A c \in 1..MaxChecks : Pending(c) => Settlement(c) # t
  BY DEF IInv, Local, TasksOK, TaskOK, Pending, Settlement
<1>2. \A c : Pending(c)' <=> Pending(c)
  BY DEF Pending
<1>3. Holders' = (Holders \ {t}) \cup ts
  BY <1>1, <1>2 DEF Holders, Continue
<1> QED BY <1>3 DEF Held

\* New tasks leave the other holders as they were.
LEMMA Spawned ==
  ASSUME NEW ts, tasks' = tasks \cup ts, checks' = checks
  PROVE  /\ Holders' = Holders \cup ts
         /\ \A x : Held(x)' = Held(x)
<1>1. \A c : Pending(c)' <=> Pending(c)
  BY DEF Pending
<1> QED BY <1>1 DEF Holders, Held

\* What two hold is of different tickets; none of it is queued, or lost.
LEMMA Apart ==
  ASSUME IInv, NEW x \in Holders, NEW y \in Holders, x # y, NEW h \in Held(x)
  PROVE  h \notin Held(y) /\ h[1] \notin TicketsIn(Held(y))
<1>1. h \notin Held(y)
  BY DEF IInv, Ownership, HoldAlone
<1>2. ASSUME NEW g \in Held(y), g[1] = h[1] PROVE FALSE
  <2>1. g[2] = h[2]
    BY <1>2 DEF IInv, Ownership, HoldTheirs, Mine
  <2>2. g = h
    BY <1>2, <2>1, HeldPairs DEF IInv, Local
  <2> QED BY <2>2, <1>1
<1> QED BY <1>1, <1>2 DEF TicketsIn

\* Whatever is held is a claimed ticket, with its claim's mark, that nobody has decided on.
LEMMA HeldRow ==
  ASSUME IInv, NEW x \in Holders, NEW h \in Held(x)
  PROVE  /\ h[1] \in Made /\ h[1] \in Tickets /\ h = <<h[1], mark[h[1]]>>
         /\ Mine(h) /\ h[1] \notin Queued /\ Undecided(h[1]) /\ ~Lost(h[1])
<1>1. Mine(h) /\ h = <<h[1], h[2]>> /\ h[1] \in Tickets
  BY HeldPairs DEF IInv, Local, Ownership, HoldTheirs
<1>2. h[1] \in Made
  BY <1>1 DEF IInv, Local, Rows, Mine
<1> QED BY <1>1, <1>2 DEF Mine, Queued, Undecided, Lost

\* So a claim still holds all its tickets when its task acts.
LEMMA StillHeld ==
  ASSUME IInv, NEW x \in Holders, NEW s, s \subseteq Held(x)
  PROVE  HeldByClaim(s) = TicketsIn(s)
<1>1. \A h \in s : status[h[1]] = "matched" /\ mark[h[1]] = h[2] /\ Unnamed(h[1])
  BY HeldRow DEF Mine, Unnamed
<1> QED BY <1>1 DEF HeldByClaim, TicketsIn

-----------------------------------------------------------------------------
(* Steps that only hand on what is held. *)

\* The tickets keep their rows; what names a lobby goes on naming one, or a gone one.
KeepsRows ==
  /\ UNCHANGED <<made, holder, status, mark>>
  /\ \A s \in Tickets : match'[s] = 0 <=> match[s] = 0

\* A task, or a settlement to come, is replaced by one that holds the same, or is
\* the same; the tickets keep their rows.
LEMMA HandedOn ==
  ASSUME IInv, NEW t \in Holders, NEW r,
         Holders' \subseteq (Holders \ {t}) \cup {r}, (Holders \ {t}) \cup {r} \subseteq Holders',
         Held(r)' = Held(t), \A x \in Holders : Held(x)' = Held(x),
         KeepsRows, UNCHANGED lost
  PROVE  Ownership'
<1>1. \A x \in Holders : \A h \in Held(x) : Mine(h)'
  BY HeldRow DEF Mine, KeepsRows
<1>2. HoldTheirs'
  BY <1>1 DEF HoldTheirs
<1>3. HoldAlone'
  <2>1. ASSUME NEW y \in Holders \ {t}, NEW h \in Held(t) PROVE h \notin Held(y)
    BY DEF IInv, Ownership, HoldAlone
  <2>2. ASSUME NEW x \in Holders', NEW y \in Holders', NEW h \in Held(x)', h \in Held(y)'
        PROVE  x = y
    <3>1. CASE x = r /\ y = r
      BY <3>1
    <3>2. CASE x = r /\ y # r
      BY <2>1, <2>2, <3>2
    <3>3. CASE x # r /\ y = r
      BY <2>1, <2>2, <3>3
    <3>4. CASE x # r /\ y # r
      BY <2>2, <3>4 DEF IInv, Ownership, HoldAlone
    <3> QED BY <3>1, <3>2, <3>3, <3>4
  <2> QED BY <2>2 DEF HoldAlone
<1>4. AllHeld'
  <2>1. ASSUME NEW s \in Made, Undecided(s), ~Lost(s)
        PROVE  \E x \in Holders' : <<s, mark[s]>> \in Held(x)'
    BY <2>1 DEF IInv, Ownership, AllHeld
  <2>2. Made \subseteq Tickets
    BY Bounds DEF IInv, Local, TypeOK, Made, Tickets
  <2> QED BY <2>1, <2>2 DEF AllHeld, Undecided, Lost, Made, KeepsRows
<1> QED BY <1>2, <1>3, <1>4 DEF Ownership

\* One that holds nothing comes or goes.
LEMMA HandsFree ==
  ASSUME Ownership, NEW idle, \A x \in idle : Held(x)' = {} /\ (x \in Holders => Held(x) = {}),
         Holders' \subseteq Holders \cup idle, Holders \ idle \subseteq Holders',
         \A x \in Holders : Held(x)' = Held(x),
         UNCHANGED <<ticketVars, lost>>
  PROVE  Ownership'
<1> USE DEF ticketVars
<1>1. HoldTheirs'
  BY DEF Ownership, HoldTheirs, Mine
<1>2. HoldAlone'
  BY DEF Ownership, HoldAlone
<1>3. AllHeld'
  <2>1. ASSUME NEW s \in Made, Undecided(s), ~Lost(s)
        PROVE  \E x \in Holders' : <<s, mark[s]>> \in Held(x)'
    BY <2>1 DEF Ownership, AllHeld
  <2> QED BY <2>1 DEF AllHeld, Undecided, Lost, Made
<1> QED BY <1>1, <1>2, <1>3 DEF Ownership

\* What waited no longer waits, or waits as before: nobody waits on more tickets.
LEMMA WaitsShrink ==
  ASSUME OneJoin => Alone, UNCHANGED <<made, holder>>, slipped \subseteq slipped',
         Joins' \subseteq Joins, \A s \in Made : Waiting(s)' => Waiting(s)
  PROVE  OneJoin => Alone'
<1> SUFFICES ASSUME OneJoin PROVE Alone'
  OBVIOUS
<1>1. OneTicketEach'
  BY DEF Alone, OneTicketEach, Made
<1>2. JoinsClear'
  BY DEF Alone, JoinsClear, TicketsOf, Made
<1>3. JoinsApart'
  BY DEF Alone, JoinsApart
<1> QED BY <1>1, <1>2, <1>3 DEF Alone

\* While the tickets, the checks and the losses stay, a new holder holds what was held.
LEMMA WaitsSame ==
  ASSUME IInv, KeepsRows, UNCHANGED <<checks, lost, slipped>>, Joins' \subseteq Joins,
         \A x \in Holders' \ Holders : \A h \in Held(x)' : \A c \in Asking(h[1]) :
           StaysIn(h[1], c) \/ x = Settlement(c) \/ (x.op = "discard" /\ h \in x.out)
  PROVE  Waits'
<1> USE DEF KeepsRows
<1>1. \A s : (Asking(s)' = Asking(s)) /\ (\A c : StaysIn(s, c)' <=> StaysIn(s, c))
  BY DEF Asking, StaysIn
<1>2. Made \subseteq Tickets
  BY Bounds DEF IInv, Local, TypeOK, Made, Tickets
<1>3. \A s \in Made : Waiting(s)' => Waiting(s)
  BY <1>1, <1>2 DEF Waiting, Undecided, Lost
<1>4. QueuedIn'
  BY <1>1 DEF IInv, Waits, QueuedIn, Queued, Made
<1>5. HeldIn'
  <2>1. \A x : Held(x)' = Held(x)
    BY DEF Held
  <2> QED BY <1>1, <2>1 DEF IInv, Waits, HeldIn
<1> QED BY <1>3, <1>4, <1>5, WaitsShrink DEF IInv, Waits

\* No ticket or seat changes: matches stand as they did, if who seats them goes on.
LEMMA MatchesSame ==
  ASSUME Matches, UNCHANGED <<made, holder, mark, match, seat, been>>,
         lost \subseteq lost', standing \subseteq standing', kept \subseteq kept',
         \A x \in Holders : Held(x)' = Held(x),
         \A x \in Holders' \ Holders : Seats(x) => HoldsAll(x)',
         \A x \in tasks : x.op = "seat" => x \in tasks' \/ x.lobby \notin standing \ kept',
         \A x \in tasks' \ tasks : x.op = "seat" => SeatOK(x)
  PROVE  Matches'
<1>1. Whole'
  BY DEF Matches, Whole, Seats, HoldsAll, Made
<1>2. SeatsOK'
  BY DEF Matches, SeatsOK, SeatOK, PlacesIn, TicketsIn
<1>3. SeatedOK'
  <2>1. ASSUME NEW u \in Users, Seated(u), seat[u] \in standing \ kept' PROVE Seated(u)'
    <3>1. CASE \E s \in TicketsOf({u}) : match[s] = seat[u] \/ Lost(s)
      BY <3>1 DEF Seated, TicketsOf, Made, Lost
    <3>2. CASE \E x \in tasks : x.op = "seat" /\ x.lobby = seat[u] /\ u \in PlacesIn(x)
      BY <2>1, <3>2 DEF Seated, PlacesIn, TicketsIn
    <3> QED BY <2>1, <3>1, <3>2 DEF Seated
  <2> QED BY <2>1 DEF Matches, SeatedOK
<1>4. MatchesWhole'
  BY DEF Matches, MatchesWhole, Made
<1> QED BY <1>1, <1>2, <1>3, <1>4 DEF Matches

\* Nothing but the tasks changes, and they are good ones.
LEMMA LocalSame ==
  ASSUME Local, UNCHANGED <<ticketVars, claims, lobbyVars, checks, lost, aged, stale>>,
         slipped' \subseteq slipped \cup Tickets,
         \A x \in tasks' \ tasks : x \in Tasks /\ TaskOK(x)
  PROVE  Local'
<1> USE DEF ticketVars, lobbyVars
<1>1. TypeOK'
  BY DEF Local, TypeOK
<1>2. Rows' /\ LostOnce' /\ ChecksOK' /\ AskedMade'
  BY DEF Local, Rows, Made, LostOnce, ChecksOK, AskedMade
<1>3. TasksOK'
  BY DEF Local, TasksOK, TaskOK
<1> QED BY <1>1, <1>2, <1>3 DEF Local

\* Units are equal or apart.
LEMMA UnitsApart ==
  ASSUME NEW u \in Users, NEW v \in Users, Unit(u) # Unit(v)
  PROVE  Unit(u) \cap Unit(v) = {}
BY DEF Unit

\* Who may join waits on nothing, but what is too old for the guard.
LEMMA NobodyWaits ==
  ASSUME IInv, NEW us \in SUBSET Users, NoneQueued(us), NEW s \in TicketsOf(us), Waiting(s)
  PROVE  Undecided(s) /\ ~Lost(s) /\ TooOld(s)
<1>1. s \in Tickets /\ s \in Made /\ status[s] # "queued"
  BY MadeTickets DEF NoneQueued, Counts, TicketsOf, IInv, Local
<1>2. /\ Undecided(s) /\ ~Lost(s) /\ Unnamed(s) /\ status[s] = "matched"
      /\ \A c \in Asking(s) : checks[c].answer[s] \in In
  BY <1>1 DEF Waiting, Undecided, Unnamed
<1>3. ~Asked(s) /\ (Asking(s) = {} => ~(mark[s] > aged))
  BY <1>2 DEF NoneQueued, Counts
<1>4. Asking(s) \subseteq stale
  BY <1>2, <1>3 DEF Asked
<1>5. mark[s] \in Int /\ aged \in Int
  BY <1>1 DEF IInv, Local, TypeOK
<1> QED BY <1>2, <1>3, <1>4, <1>5 DEF TooOld

-----------------------------------------------------------------------------
(* Joining and sweeping. *)

\* A join that passes the guard waits on nothing newer, nor does another of the party's.
LEMMA JoinStep ==
  ASSUME IInv, NEW u \in Users, NEW by \in Callers, Join(u, by)
  PROVE  IInv'
<1> DEFINE t == [op |-> "join", by |-> by, users |-> Unit(u)]
<1>1. tasks' = tasks \cup {t}
  BY DEF Join, Spawn
<1>2. UNCHANGED <<ticketVars, claims, lobbyVars, checks, lost, aged, stale>>
  BY DEF Join, clockVars
<1>3. t \in Tasks /\ TaskOK(t) /\ Unit(u) \in SUBSET Users
  BY DEF Tasks, Joining, TaskOK, Unit
<1>4. Held(t) = {} /\ Held(t)' = {} /\ \A x : Held(x)' = Held(x)
  BY <1>2, HeldNow, HeldNext DEF Held
<1>5. Holders' = Holders \cup {t}
  BY <1>1, <1>2, Spawned DEF Spawn
<1>6. slipped' = slipped \cup {s \in TicketsOf(Unit(u)) : Undecided(s) /\ ~Lost(s) /\ TooOld(s)}
  BY DEF Join
<1> HIDE DEF t
<1>7. Local'
  <2>1. slipped' \subseteq slipped \cup Tickets
    BY <1>6, MadeTickets DEF TicketsOf, IInv, Local
  <2> QED BY <1>1, <1>2, <1>3, <2>1, LocalSame DEF IInv
<1>8. Ownership'
  BY <1>2, <1>4, <1>5, HandsFree DEF IInv
<1>9. Matches'
  <2>1. Seats(t) => HoldsAll(t)'
    BY <1>4 DEF HoldsAll
  <2>2. t.op = "join"
    BY DEF t
  <2> QED BY <1>1, <1>2, <1>4, <1>5, <2>1, <2>2, MatchesSame DEF IInv, lobbyVars, ticketVars
<1>10. Waits'
  <2> USE <1>2 DEF ticketVars
  <2>1. \A s : (Asking(s)' = Asking(s)) /\ (\A c : StaysIn(s, c)' <=> StaysIn(s, c))
    BY DEF Asking, StaysIn
  <2>2. \A s : Waiting(s)' <=> Waiting(s)
    BY <2>1 DEF Waiting, Undecided, Lost
  <2>3. QueuedIn'
    BY <2>1 DEF IInv, Waits, QueuedIn, Queued, Made
  <2>4. HeldIn'
    BY <2>1, <1>4, <1>5 DEF IInv, Waits, HeldIn
  <2>5. ASSUME OneJoin PROVE Alone'
    <3>1. Alone
      BY <2>5 DEF IInv, Waits
    <3>2. Joins' \subseteq Joins \cup {t} /\ t.users = Unit(u)
      BY <1>1 DEF Joins, t
    <3>3. \A x \in Joins : x.users \cap t.users = {}
      <4>1. \A x \in Joins : x.users # Unit(u)
        BY <2>5 DEF Join, Joins
      <4>2. \A x \in Joins : \E v \in Users : x.users = Unit(v)
        BY DEF IInv, Local, TasksOK, TaskOK, Joins
      <4> QED BY <4>1, <4>2, <3>2, UnitsApart
    <3>4. JoinsApart'
      BY <3>1, <3>2, <3>3 DEF Alone, JoinsApart
    <3>5. \A s \in TicketsOf(t.users) : ~Waiting(s) \/ s \in slipped'
      BY <1>3, <1>6, <3>2, NobodyWaits DEF Join
    <3>6. JoinsClear'
      <4>1. \A x \in Joins : \A s \in TicketsOf(x.users) : ~Waiting(s) \/ s \in slipped'
        BY <1>6, <3>1 DEF Alone, JoinsClear
      <4> QED BY <2>2, <3>2, <3>5, <4>1 DEF JoinsClear, TicketsOf, Made
    <3>7. OneTicketEach'
      BY <1>6, <2>2, <3>1 DEF Alone, OneTicketEach, Made
    <3> QED BY <3>4, <3>6, <3>7 DEF Alone
  <2> QED BY <2>3, <2>4, <2>5 DEF Waits
<1> QED BY <1>7, <1>8, <1>9, <1>10 DEF IInv

\* A sweep proposes a group, and holds nothing yet.
LEMMA ProposeStep ==
  ASSUME IInv, NEW group \in SUBSET Queued, NEW by \in Callers, Propose(group, by)
  PROVE  IInv'
<1> DEFINE t == [op |-> "claim", by |-> by, group |-> group]
<1>1. tasks' = tasks \cup {t}
  BY DEF Propose, Spawn
<1>2. UNCHANGED <<ticketVars, claims, lobbyVars, checks, lost, aged, stale, slipped>>
  BY DEF Propose, otherVars, clockVars
<1>3. t \in Tasks /\ TaskOK(t)
  <2>1. group \in SUBSET Tickets
    BY Bounds DEF Queued, Made, Tickets, IInv, Local, TypeOK
  <2> QED BY <2>1 DEF Tasks, Forming, TaskOK
<1>4. Held(t) = {} /\ Held(t)' = {} /\ \A x : Held(x)' = Held(x)
  BY <1>2, HeldNow, HeldNext DEF Held
<1>5. Holders' = Holders \cup {t}
  BY <1>1, <1>2, Spawned DEF Spawn
<1>0. t.op = "claim"
  OBVIOUS
<1> HIDE DEF t
<1>6. Local'
  BY <1>1, <1>2, <1>3, LocalSame DEF IInv
<1>7. Ownership'
  BY <1>2, <1>4, <1>5, HandsFree DEF IInv
<1>8. Matches'
  <2>1. Seats(t) => HoldsAll(t)'
    BY <1>4 DEF HoldsAll
  <2> QED BY <1>0, <1>1, <1>2, <1>4, <1>5, <2>1, MatchesSame DEF IInv, lobbyVars, ticketVars
<1>9. Waits'
  <2>1. Joins' \subseteq Joins
    BY <1>0, <1>1 DEF Joins
  <2> QED BY <1>2, <1>4, <1>5, <2>1, WaitsSame DEF KeepsRows, ticketVars
<1> QED BY <1>6, <1>7, <1>8, <1>9 DEF IInv

-----------------------------------------------------------------------------
(* Asking for an accept, and what comes of it. *)

\* A task that goes on under another name, with what it held.
LEMMA Renamed ==
  ASSUME IInv, NEW t \in tasks, t.op \in {"start", "create"}, NEW r,
         r = "requeue" \/ (r = "create" /\ t.op = "start"),
         Continue(t, {[t EXCEPT !.op = r]}),
         UNCHANGED <<ticketVars, claims, lobbyVars, checks, lost, aged, stale, slipped>>
  PROVE  IInv'
<1> DEFINE n == [t EXCEPT !.op = r]
<1>1. t \in Holders /\ t \in Holding
  BY HoldersTyped, TaskKinds DEF Holders, IInv, Local
<1>2. n \in Holding /\ n.op = r /\ n.held = t.held
  BY <1>1 DEF Holding
<1>3. n \in Tasks /\ TaskOK(n)
  BY <1>2 DEF Tasks, TaskOK
<1>4. Holders' = (Holders \ {t}) \cup {n} /\ \A x : Held(x)' = Held(x)
  BY Continued
<1>5. Held(t) = t.held /\ Held(n)' = t.held /\ Held(n) = t.held
  BY <1>2, HeldNow, HeldNext
<1>6. tasks' = (tasks \ {t}) \cup {n}
  BY DEF Continue
<1> HIDE DEF n
<1>7. Local'
  BY <1>3, <1>6, LocalSame DEF IInv
<1>8. Ownership'
  BY <1>1, <1>4, <1>5, HandedOn DEF KeepsRows, ticketVars
<1>9. Matches'
  <2>1. Seats(n) => HoldsAll(n)'
    BY <1>1, <1>2, <1>5 DEF IInv, Matches, Whole, Seats, HoldsAll, ticketVars, Made
  <2> QED BY <1>2, <1>4, <1>6, <2>1, MatchesSame DEF IInv, lobbyVars, ticketVars
<1>10. Waits'
  <2>1. \A h \in Held(n)' : \A c \in Asking(h[1]) : StaysIn(h[1], c)
    BY <1>1, <1>5 DEF IInv, Waits, HeldIn, Settlement
  <2>2. Joins' \subseteq Joins
    BY <1>2, <1>6 DEF Joins
  <2> QED BY <1>4, <2>1, <2>2, WaitsSame DEF KeepsRows, ticketVars
<1> QED BY <1>7, <1>8, <1>9, <1>10 DEF IInv

\* What an update leaves of a check.
LEMMA CheckUpdated ==
  ASSUME NEW k \in Checks, NEW a, NEW s
  PROVE  [k EXCEPT !.status = s, !.asked = a] = [asked |-> a, answer |-> k.answer, status |-> s]
<1>1. PICK m : m = [k EXCEPT !.status = s]
  OBVIOUS
<1>2. m = [asked |-> k.asked, answer |-> k.answer, status |-> s]
  BY <1>1 DEF Checks
<1>3. [m EXCEPT !.asked = a] = [asked |-> a, answer |-> k.answer, status |-> s]
  BY <1>2
<1> QED BY <1>1, <1>3

\* What answers leave of it.
LEMMA Answered ==
  ASSUME NEW k \in Checks, NEW a, NEW s
  PROVE  [k EXCEPT !.answer = a, !.status = s] = [asked |-> k.asked, answer |-> a, status |-> s]
<1>1. PICK m : m = [k EXCEPT !.answer = a]
  OBVIOUS
<1>2. m = [asked |-> k.asked, answer |-> a, status |-> k.status]
  BY <1>1 DEF Checks
<1>3. [m EXCEPT !.status = s] = [asked |-> k.asked, answer |-> a, status |-> s]
  BY <1>2
<1> QED BY <1>1, <1>3

\* A check is asked for, in the first free place.
AskedFor(c, held) ==
  /\ checks[c].status = "none"
  /\ checks' = [checks EXCEPT ![c].status = "pending", ![c].asked = held]

\* An accept is asked: the claim waits in the check, for its settlement.
LEMMA AskStep ==
  ASSUME IInv, NEW t \in tasks, t.op = "start", NEW c \in 1..MaxChecks, AskedFor(c, t.held),
         Continue(t, {}), UNCHANGED <<ticketVars, claims, lobbyVars, lost, aged, stale, slipped>>
  PROVE  IInv'
<1> DEFINE n == Settlement(c)
<1>1. t \in Holders /\ t \in Holding /\ TypeOK /\ checks[c] = NoCheck /\ checks[c].status = "none"
  BY HoldersTyped, TaskKinds DEF Holders, IInv, Local, ChecksOK, CheckOK, AskedFor
<1>2. tasks' = tasks \ {t}
  BY DEF Continue
<1>3. /\ checks' = [d \in 1..MaxChecks |-> checks'[d]]
      /\ \A d \in 1..MaxChecks : d # c => checks'[d] = checks[d]
  BY <1>1 DEF TypeOK, AskedFor
<1>4. checks'[c] = [asked |-> t.held, answer |-> [s \in Tickets |-> "pending"], status |-> "pending"]
  <2>1. checks[c] \in Checks
    BY <1>1 DEF TypeOK
  <2>2. checks'[c] = [checks[c] EXCEPT !.status = "pending", !.asked = t.held]
    BY <1>1 DEF TypeOK, AskedFor
  <2>3. checks'[c] = [asked |-> t.held, answer |-> checks[c].answer, status |-> "pending"]
    BY <2>1, <2>2, CheckUpdated
  <2>4. checks[c].answer = [s \in Tickets |-> "pending"]
    BY <1>1 DEF NoCheck
  <2> QED BY <2>3, <2>4
<1>5. Holders' = (Holders \ {t}) \cup {n}
  <2>1. Pending(c)' /\ ~Pending(c)
    BY <1>1, <1>4 DEF Pending
  <2>2. \A d \in 1..MaxChecks : d # c => (Pending(d)' <=> Pending(d))
    BY <1>3 DEF Pending
  <2>3. \A d : Settlement(d) # t
    BY DEF Settlement
  <2> QED BY <1>2, <2>1, <2>2, <2>3 DEF Holders
<1>6. \A x \in Holders : x.op = "settle" => x.check # c
  BY DEF Holders, IInv, Local, TasksOK, TaskOK, Settlement, Pending, AskedFor
<1>7. \A x \in Holders : Held(x)' = Held(x)
  <2>1. ASSUME NEW x \in Holders PROVE Held(x)' = Held(x)
    <3>1. CASE x.op = "settle"
      BY <3>1, <1>1, <1>3, <1>6, HeldNow, HeldNext, HoldersTyped
    <3>2. CASE x.op # "settle"
      BY <3>2, <1>1, HeldNow, HeldNext, HoldersTyped, TaskKinds
    <3> QED BY <3>1, <3>2
  <2> QED BY <2>1
<1>8. Held(t) = t.held /\ Held(n)' = t.held /\ n.op = "settle" /\ n.check = c
  BY <1>4, HeldNow, HeldNext DEF Settlement
<1>9. Local'
  <2>1. checks'[c] \in Checks
    BY <1>1, <1>4 DEF Checks, Holding, Answers
  <2>2. TypeOK'
    <3>1. checks' \in [1..MaxChecks -> Checks]
      BY <1>1, <1>3, <2>1 DEF TypeOK
    <3> QED BY <1>1, <1>2, <3>1 DEF TypeOK, ticketVars, lobbyVars
  <2>3. Rows' /\ LostOnce'
    BY DEF IInv, Local, Rows, LostOnce, ticketVars, Made
  <2>4. ChecksOK'
    BY <1>3, <1>4 DEF IInv, Local, ChecksOK, CheckOK
  <2>5. AskedMade'
    <3>1. TicketsIn(t.held) \subseteq Made
      BY <1>1, <1>8, HeldRow DEF TicketsIn
    <3> QED BY <1>3, <1>4, <3>1 DEF IInv, Local, AskedMade, ticketVars, Made
  <2>6. TasksOK'
    <3>1. ASSUME NEW x \in tasks \ {t} PROVE TaskOK(x)'
      <4>1. x \in Holders /\ TaskOK(x)
        BY DEF Holders, IInv, Local, TasksOK
      <4> QED BY <1>1, <1>3, <1>6, <4>1, HoldersTyped DEF TaskOK, lobbyVars
    <3> QED BY <1>2, <3>1 DEF TasksOK
  <2> QED BY <2>2, <2>3, <2>4, <2>5, <2>6 DEF Local
<1> HIDE DEF n
<1>10. Ownership'
  BY <1>1, <1>5, <1>7, <1>8, HandedOn DEF KeepsRows, ticketVars
<1>11. Matches'
  <2>1. HoldsAll(n)'
    BY <1>1, <1>8 DEF IInv, Matches, Whole, Seats, HoldsAll, ticketVars, Made
  <2> QED BY <1>2, <1>5, <1>7, <2>1, MatchesSame DEF IInv, lobbyVars, ticketVars
<1>12. Waits'
  <2> USE DEF ticketVars
  <2>1. ASSUME NEW s \in Tickets PROVE Asking(s) \subseteq Asking(s)' /\ Asking(s)' \subseteq Asking(s) \cup {c}
    BY <1>1, <1>3, <1>4 DEF Asking, NoCheck, TicketsIn
  <2>2. ASSUME NEW s \in Tickets, NEW d \in 1..MaxChecks PROVE StaysIn(s, d)' <=> StaysIn(s, d)
    <3>1. CASE d = c
      BY <1>1, <1>4, <3>1 DEF StaysIn, NoCheck
    <3>2. CASE d # c
      BY <1>3, <3>2 DEF StaysIn
    <3> QED BY <3>1, <3>2
  <2>3. StaysIn(1, c)' \in BOOLEAN /\ \A s \in Tickets : StaysIn(s, c)
    BY <1>1 DEF StaysIn, NoCheck, In
  <2>4. Made \subseteq Tickets
    BY Bounds, <1>1 DEF TypeOK, Made, Tickets
  <2>5. \A s \in Made : Waiting(s)' => Waiting(s)
    <3>1. ASSUME NEW s \in Made, NEW d \in Asking(s)
          PROVE  d # c /\ d \in 1..MaxChecks /\ d \in Asking(s)' /\ checks'[d] = checks[d]
      BY <1>1, <1>3, <2>1, <2>4 DEF Asking, NoCheck
    <3> QED BY <3>1 DEF Waiting, Undecided, Lost
  <2>6. QueuedIn'
    <3>1. ASSUME NEW s \in Queued, NEW d \in Asking(s)' PROVE StaysIn(s, d)'
      <4>1. s \in Tickets /\ d \in 1..MaxChecks
        BY <2>4 DEF Queued, Asking
      <4>2. d = c \/ d \in Asking(s)
        BY <4>1, <2>1
      <4> QED BY <4>1, <4>2, <2>2, <2>3 DEF IInv, Waits, QueuedIn
    <3> QED BY <3>1 DEF QueuedIn, Queued, Made
  <2>7. HeldIn'
    <3>1. ASSUME NEW x \in Holders, NEW h \in Held(x), NEW d \in Asking(h[1])'
          PROVE  StaysIn(h[1], d)' \/ (x # t /\ x = Settlement(d)) \/ (x.op = "discard" /\ h \in x.out)
      <4>1. h[1] \in Tickets /\ d \in 1..MaxChecks
        BY <1>1, HeldPairs DEF Asking
      <4>2. CASE d = c
        BY <2>2, <2>3, <4>1, <4>2
      <4>3. CASE d # c
        <5>1. d \in Asking(h[1])
          BY <4>1, <4>3, <2>1
        <5>2. t # Settlement(d)
          BY DEF Settlement
        <5> QED BY <5>1, <5>2, <4>1, <2>2 DEF IInv, Waits, HeldIn
      <4> QED BY <4>2, <4>3
    <3>2. \A h \in Held(n)' : \A d \in Asking(h[1])' : StaysIn(h[1], d)'
      BY <1>1, <1>8, <3>1
    <3> QED BY <1>5, <1>7, <3>1, <3>2 DEF HeldIn
  <2>8. Joins' \subseteq Joins
    BY <1>2 DEF Joins
  <2> QED BY <2>5, <2>6, <2>7, <2>8, WaitsShrink DEF IInv, Waits
<1> QED BY <1>9, <1>10, <1>11, <1>12 DEF IInv

\* An accept is asked for, refused, or not needed.
LEMMA StartStep ==
  ASSUME IInv, NEW t \in tasks, NEW asks \in Asks, Start(t, asks)
  PROVE  IInv'
<1> USE DEF otherVars
<1>0. /\ t.op = "start" /\ UNCHANGED <<ticketVars, claims, lobbyVars, lost, aged, stale, slipped>>
      /\ \/ \E r \in {"create", "requeue"} : checks' = checks /\ Continue(t, {[t EXCEPT !.op = r]})
         \/ \E c \in 1..MaxChecks :
              AskedFor(c, t.held) /\ Continue(t, {})
  BY DEF Start, AskedFor, clockVars
<1>1. CASE \E r \in {"create", "requeue"} : checks' = checks /\ Continue(t, {[t EXCEPT !.op = r]})
  BY <1>0, <1>1, Renamed
<1>2. CASE \E c \in 1..MaxChecks :
             AskedFor(c, t.held) /\ Continue(t, {})
  BY <1>0, <1>2, AskStep
<1> QED BY <1>0, <1>1, <1>2

\* An answer, or the deadline: those who said nothing but yes before are no more in.
LEMMA ResolvedStep ==
  ASSUME IInv, NEW c \in 1..MaxChecks, Pending(c), NEW answer \in [Tickets -> Answers],
         NEW to \in {"pending", "passed", "failed"}, Resolved(c, answer, to),
         \A s \in Tickets : answer[s] \in In => checks[c].answer[s] \in In,
         to = "passed" => \A s \in TicketsIn(checks[c].asked) : answer[s] = "ready"
  PROVE  IInv'
<1> DEFINE n == Settlement(c)
<1>1. TypeOK /\ checks[c] \in Checks /\ checks[c].status = "pending"
  BY DEF IInv, Local, TypeOK, Pending
<1>2. /\ checks' = [d \in 1..MaxChecks |-> checks'[d]]
      /\ \A d \in 1..MaxChecks : d # c => checks'[d] = checks[d]
      /\ UNCHANGED <<ticketVars, claims, lobbyVars, lost, aged, stale, slipped>>
      /\ tasks' = IF to = "pending" THEN tasks ELSE tasks \cup {n}
  <2>1. /\ checks' = [d \in 1..MaxChecks |-> checks'[d]]
        /\ \A d \in 1..MaxChecks : d # c => checks'[d] = checks[d]
    BY <1>1 DEF TypeOK, Resolved
  <2>2. UNCHANGED <<ticketVars, claims, lobbyVars, lost, aged, stale, slipped>>
    BY DEF Resolved, clockVars
  <2>3. tasks' = IF to = "pending" THEN tasks ELSE tasks \cup {n}
    BY DEF Resolved, Settlement
  <2> QED BY <2>1, <2>2, <2>3
<1>3. checks'[c] = [asked |-> checks[c].asked, answer |-> answer, status |-> to]
  <2>1. checks'[c] = [checks[c] EXCEPT !.answer = answer, !.status = to]
    <3>1. checks' = [checks EXCEPT ![c].answer = answer, ![c].status = to]
      BY DEF Resolved
    <3> QED BY <1>1, <3>1 DEF TypeOK
  <2>2. checks[c] \in Checks
    BY <1>1
  <2>3. [checks[c] EXCEPT !.answer = answer, !.status = to]
          = [asked |-> checks[c].asked, answer |-> answer, status |-> to]
    BY ONLY <2>2, Answered
  <2> QED BY <2>1, <2>3
<1>4. checks'[c].asked = checks[c].asked /\ checks'[c].answer = answer /\ checks'[c].status = to
  BY <1>3
<1>5. n \in Holders /\ n \in Tasks /\ n.op = "settle" /\ n.check = c
  BY DEF Holders, Settlement, Tasks, Settling
<1>6. Held(n) = checks[c].asked
  BY <1>5, HeldNow
<1>7. Holders' = Holders
  <2>1. \A d \in 1..MaxChecks : d # c => (Pending(d)' <=> Pending(d))
    BY <1>2 DEF Pending
  <2>2. Pending(c)' <=> to = "pending"
    BY <1>4 DEF Pending
  <2> QED BY <1>2, <2>1, <2>2 DEF Holders
<1>8. \A x \in Holders : Held(x)' = Held(x)
  <2>1. ASSUME NEW x \in Holders PROVE Held(x)' = Held(x)
    <3>1. CASE x.op = "settle"
      BY <3>1, <1>1, <1>2, <1>4, HeldNow, HeldNext, HoldersTyped
    <3>2. CASE x.op # "settle"
      BY <3>2, <1>1, HeldNow, HeldNext, HoldersTyped, TaskKinds
    <3> QED BY <3>1, <3>2
  <2> QED BY <2>1
<1>9. Local'
  <2>1. checks'[c] \in Checks
    BY <1>1, <1>3 DEF Checks
  <2>2. checks' \in [1..MaxChecks -> Checks]
    BY <1>1, <1>2, <2>1 DEF TypeOK
  <2>3. TypeOK'
    BY <1>1, <1>2, <1>5, <2>2 DEF TypeOK, ticketVars, lobbyVars
  <2>4. Rows' /\ LostOnce'
    BY <1>2 DEF IInv, Local, Rows, LostOnce, ticketVars, Made
  <2>5. ChecksOK'
    BY <1>2, <1>4 DEF IInv, Local, ChecksOK, CheckOK
  <2>6. AskedMade'
    BY <1>2, <1>4 DEF IInv, Local, AskedMade, ticketVars, Made
  <2>7. TasksOK'
    <3>1. ASSUME NEW x \in tasks PROVE TaskOK(x)'
      <4>1. x \in Holders /\ TaskOK(x)
        BY DEF Holders, IInv, Local, TasksOK
      <4>2. x.op = "settle" => x.check \in 1..MaxChecks /\ x.check # c
        BY <1>1, <4>1, HoldersTyped DEF TaskOK
      <4> QED BY <1>2, <4>1, <4>2 DEF TaskOK, lobbyVars
    <3>2. to # "pending" => TaskOK(n)'
      BY <1>4, <1>5 DEF TaskOK
    <3> QED BY <1>2, <3>1, <3>2 DEF TasksOK
  <2> QED BY <2>3, <2>4, <2>5, <2>6, <2>7 DEF Local
<1> HIDE DEF n
<1>10. Ownership'
  BY <1>2, <1>5, <1>7, <1>8, HandedOn DEF KeepsRows, ticketVars
<1>11. Matches'
  <2>1. \A x \in tasks' \ tasks : x.op # "seat"
    BY <1>2, <1>5
  <2>2. tasks \subseteq tasks'
    BY <1>2
  <2> QED BY <1>2, <1>7, <1>8, <2>1, <2>2, MatchesSame DEF IInv, lobbyVars, ticketVars
<1>12. Waits'
  <2> USE <1>2 DEF ticketVars
  <2>1. \A s : Asking(s)' = Asking(s)
    <3>1. \A d \in 1..MaxChecks : checks'[d].asked = checks[d].asked
                                  /\ (checks'[d].status = "none" <=> checks[d].status = "none")
      BY <1>1, <1>4
    <3> QED BY <3>1 DEF Asking
  <2>2. ASSUME NEW s \in Tickets, NEW d \in 1..MaxChecks
        PROVE  /\ StaysIn(s, d)' => StaysIn(s, d)
               /\ d # c => (StaysIn(s, d)' <=> StaysIn(s, d))
    BY <1>4 DEF StaysIn
  <2>3. Made \subseteq Tickets
    BY Bounds, <1>1 DEF TypeOK, Made, Tickets
  <2>4. \A s \in Made : Waiting(s)' => Waiting(s)
    <3>1. ASSUME NEW s \in Made, NEW d \in Asking(s), checks'[d].answer[s] \in In
          PROVE  checks[d].answer[s] \in In
      <4>1. d \in 1..MaxChecks /\ s \in Tickets
        BY <2>3 DEF Asking
      <4> QED BY <2>2, <3>1, <4>1 DEF StaysIn
    <3> QED BY <2>1, <3>1 DEF Waiting, Undecided, Lost
  <2>5. \A s \in TicketsIn(checks[c].asked) : s \notin Queued
    BY <1>5, <1>6, HeldRow DEF TicketsIn
  <2>6. QueuedIn'
    <3>1. ASSUME NEW s \in Queued, NEW d \in Asking(s) PROVE StaysIn(s, d)'
      <4>1. s \in Tickets /\ d \in 1..MaxChecks /\ d # c
        BY <2>3, <2>5 DEF Queued, Asking
      <4> QED BY <4>1, <2>2 DEF IInv, Waits, QueuedIn
    <3> QED BY <2>1, <3>1 DEF QueuedIn, Queued, Made
  <2>7. HeldIn'
    <3>1. ASSUME NEW x \in Holders, NEW h \in Held(x), NEW d \in Asking(h[1])
          PROVE  StaysIn(h[1], d)' \/ x = Settlement(d) \/ (x.op = "discard" /\ h \in x.out)
      <4>1. h[1] \in Tickets /\ d \in 1..MaxChecks
        BY <1>1, HeldPairs DEF Asking
      <4>2. CASE d = c
        <5>1. h[1] \in TicketsIn(Held(n))
          BY <1>6, <4>2 DEF Asking
        <5>2. x = n
          BY <1>5, <5>1, Apart
        <5> QED BY <4>2, <5>2 DEF n
      <4>3. CASE d # c
        BY <4>1, <4>3, <2>2 DEF IInv, Waits, HeldIn
      <4> QED BY <4>2, <4>3
    <3> QED BY <1>7, <1>8, <2>1, <3>1 DEF HeldIn
  <2>8. Joins' \subseteq Joins
    BY <1>5 DEF Joins
  <2> QED BY <2>4, <2>6, <2>7, <2>8, WaitsShrink DEF IInv, Waits
<1> QED BY <1>9, <1>10, <1>11, <1>12 DEF IInv

\* An answer settles its check, or leaves it to the others.
LEMMA AnswerStep ==
  ASSUME IInv, NEW c \in 1..MaxChecks, NEW t \in Tickets, NEW yes \in BOOLEAN, Answer(c, t, yes)
  PROVE  IInv'
<1> DEFINE answer == [checks[c].answer EXCEPT ![t] = IF yes THEN "ready" ELSE "declined"]
           asked == TicketsIn(checks[c].asked)
           to == IF ~yes THEN "failed"
                 ELSE IF \A s \in asked : answer[s] = "ready" THEN "passed" ELSE "pending"
<1>1. checks[c].answer \in [Tickets -> Answers] /\ checks[c].answer[t] = "pending"
  BY DEF IInv, Local, TypeOK, Checks, Answer
<1>2. answer \in [Tickets -> Answers]
  BY <1>1 DEF Answers
<1>3. \A s \in Tickets : answer[s] \in In => checks[c].answer[s] \in In
  BY <1>1 DEF In
<1>4. to \in {"pending", "passed", "failed"} /\ (to = "passed" => \A s \in asked : answer[s] = "ready")
  OBVIOUS
<1>5. Pending(c) /\ Resolved(c, answer, to)
  BY DEF Answer
<1> HIDE DEF answer, to
<1> QED BY <1>2, <1>3, <1>4, <1>5, ResolvedStep

\* A deadline fails its check.
LEMMA ExpireStep ==
  ASSUME IInv, NEW c \in 1..MaxChecks, Expire(c)
  PROVE  IInv'
<1> DEFINE answer == [s \in Tickets |-> IF s \in TicketsIn(checks[c].asked)
                                           /\ checks[c].answer[s] = "pending"
                                        THEN "timed_out" ELSE checks[c].answer[s]]
<1>1. checks[c].answer \in [Tickets -> Answers]
  BY DEF IInv, Local, TypeOK, Checks
<1>2. answer \in [Tickets -> Answers]
  BY <1>1 DEF Answers
<1>3. \A s \in Tickets : answer[s] \in In => checks[c].answer[s] \in In
  BY <1>1 DEF In
<1>4. Pending(c) /\ Resolved(c, answer, "failed")
  BY DEF Expire
<1> HIDE DEF answer
<1> QED BY <1>2, <1>3, <1>4, ResolvedStep

\* The settlement of an accept finds what was asked as it was, all of it.
LEMMA SettleStep ==
  ASSUME IInv, NEW t \in tasks, Settle(t)
  PROVE  IInv'
<1> DEFINE c == t.check
           asked == checks[c].asked
           held == AsRead({s \in TicketsIn(asked) : status[s] = "matched" /\ Unnamed(s)})
<1>1. t \in Holders /\ t.op = "settle" /\ c \in 1..MaxChecks /\ t = Settlement(c)
      /\ TaskOK(t) /\ TypeOK
  BY HoldersTyped DEF Holders, IInv, Local, TasksOK, Settle
<1>2. Held(t) = asked /\ asked \in Claimed
  BY <1>1, HeldNow DEF TypeOK, Checks
<1>3. held = asked
  <2>1. \A h \in asked : /\ status[h[1]] = "matched" /\ Unnamed(h[1]) /\ h = <<h[1], mark[h[1]]>>
    BY <1>1, <1>2, HeldRow DEF Mine, Unnamed
  <2>2. \A s \in TicketsIn(asked) : \E h \in asked : h[1] = s
    BY DEF TicketsIn
  <2>3. held = {<<s, mark[s]>> : s \in TicketsIn(asked)}
    BY <2>1, <2>2 DEF AsRead
  <2>4. held \subseteq asked
    BY <2>1, <2>2, <2>3
  <2>5. asked \subseteq held
    BY <2>1, <2>3 DEF TicketsIn
  <2> QED BY <2>4, <2>5
<1>0. PICK n : n = IF Unanimous(c, held) THEN [op |-> "create", held |-> held]
                   ELSE [op |-> "discard", out |-> Out(c, held), held |-> StillIn(c, held)]
  OBVIOUS
<1>4. Continue(t, {n}) /\ UNCHANGED <<ticketVars, claims, lobbyVars, checks, lost, aged, stale, slipped>>
  BY <1>0 DEF Settle, otherVars, clockVars
<1> HIDE DEF held
<1>5. /\ n \in Tasks /\ TaskOK(n) /\ n.op \in {"create", "discard"}
      /\ n.op = "create" => n.held = asked /\ checks[c].status = "passed"
      /\ n.op = "discard" => /\ n.held = StillIn(c, asked) /\ n.out = Out(c, asked)
                             /\ n.held \cup n.out = asked
  <2>1. CASE Unanimous(c, held)
    BY <1>0, <1>2, <1>3, <2>1 DEF Tasks, Holding, TaskOK, Unanimous
  <2>2. CASE ~Unanimous(c, held)
    <3>1. n = [op |-> "discard", out |-> Out(c, asked), held |-> StillIn(c, asked)]
      BY <1>0, <1>3, <2>2
    <3>2. /\ Out(c, asked) \cup StillIn(c, asked) = asked
          /\ Out(c, asked) \cap StillIn(c, asked) = {}
      BY DEF Out, StillIn
    <3>3. Out(c, asked) \in Claimed /\ StillIn(c, asked) \in Claimed
      BY <1>2, <3>2 DEF Claimed
    <3> QED BY <3>1, <3>2, <3>3 DEF Tasks, Dropping, TaskOK
  <2> QED BY <2>1, <2>2
<1>6. Holders' = (Holders \ {t}) \cup {n} /\ \A x : Held(x)' = Held(x)
  BY <1>4, Continued
<1>7. Held(n)' = asked /\ Held(n) = asked
  BY <1>5, HeldNow, HeldNext
<1>8. tasks' = (tasks \ {t}) \cup {n}
  BY <1>4 DEF Continue
<1>9. Local'
  BY <1>4, <1>5, <1>8, LocalSame DEF IInv
<1>10. Ownership'
  BY <1>1, <1>2, <1>4, <1>6, <1>7, HandedOn DEF KeepsRows, ticketVars
<1>11. Matches'
  <2>1. HoldsAll(n)'
    BY <1>1, <1>2, <1>4, <1>7 DEF IInv, Matches, Whole, Seats, HoldsAll, ticketVars, Made
  <2> QED BY <1>1, <1>4, <1>5, <1>6, <1>8, <2>1, MatchesSame DEF IInv, lobbyVars, ticketVars
<1>12. Waits'
  <2>1. ASSUME NEW h \in asked, NEW d \in Asking(h[1])
        PROVE  StaysIn(h[1], d) \/ (n.op = "discard" /\ h \in n.out)
    <3>1. CASE d = c
      <4>1. CASE n.op = "create"
        <5>1. checks[c].answer[h[1]] = "ready"
          BY <1>1, <1>5, <4>1 DEF IInv, Local, ChecksOK, CheckOK, TicketsIn
        <5> QED BY <3>1, <5>1 DEF StaysIn, In
      <4>2. CASE n.op = "discard"
        BY <1>5, <3>1, <4>2 DEF StaysIn, Out
      <4> QED BY <1>5, <4>1, <4>2
    <3>2. CASE d # c
      <4>1. t # Settlement(d)
        BY <3>2 DEF Settlement
      <4> QED BY <1>1, <1>2, <4>1 DEF IInv, Waits, HeldIn
    <3> QED BY <3>1, <3>2
  <2>2. Joins' \subseteq Joins
    BY <1>5, <1>8 DEF Joins
  <2> QED BY <1>4, <1>6, <1>7, <2>1, <2>2, WaitsSame DEF KeepsRows, ticketVars
<1> QED BY <1>9, <1>10, <1>11, <1>12 DEF IInv

\* What a task held is lost, and held by nobody.
LEMMA Dropped ==
  ASSUME IInv, NEW t \in tasks, Continue(t, {}), lost' = lost \cup Held(t),
         UNCHANGED <<ticketVars, claims, lobbyVars, checks, aged, stale, slipped>>
  PROVE  IInv'
<1>1. t \in Holders /\ TypeOK /\ Held(t) \in Claimed
  BY HoldersTyped DEF Holders, IInv, Local
<1>2. Holders' = Holders \ {t} /\ \A x : Held(x)' = Held(x)
  BY Continued
<1>3. tasks' = tasks \ {t}
  BY DEF Continue
<1> USE DEF ticketVars, lobbyVars
<1>4. Local'
  <2>1. TypeOK'
    BY <1>1, <1>3 DEF TypeOK, Claimed
  <2>2. Rows' /\ ChecksOK' /\ AskedMade' /\ TasksOK'
    BY <1>3 DEF IInv, Local, Rows, Made, ChecksOK, AskedMade, TasksOK, TaskOK
  <2>3. LostOnce'
    <3>1. \A h \in Held(t) : h[2] <= claims
      <4>1. \A h \in Held(t) : h[1] \in Tickets /\ mark[h[1]] = h[2]
        BY <1>1, HeldRow DEF Mine
      <4>2. \A s \in Tickets : mark[s] <= claims
        BY <1>1 DEF TypeOK
      <4> QED BY <4>1, <4>2
    <3> QED BY <3>1 DEF IInv, Local, LostOnce
  <2> QED BY <2>1, <2>2, <2>3 DEF Local
<1>5. Ownership'
  <2>1. HoldTheirs'
    <3>1. ASSUME NEW x \in Holders \ {t}, NEW h \in Held(x) PROVE Mine(h)'
      <4>1. Mine(h) /\ h \notin Held(t)
        BY <1>1, <3>1, Apart, HeldRow
      <4> QED BY <4>1 DEF Mine
    <3> QED BY <1>2, <3>1 DEF HoldTheirs
  <2>2. HoldAlone'
    BY <1>2 DEF IInv, Ownership, HoldAlone
  <2>3. AllHeld'
    BY <1>2 DEF IInv, Ownership, AllHeld, Undecided, Lost, Made
  <2> QED BY <2>1, <2>2, <2>3 DEF Ownership
<1>6. Matches'
  <2>1. Whole'
    BY <1>2 DEF IInv, Matches, Whole, Seats, HoldsAll, Made
  <2>2. SeatsOK' /\ MatchesWhole'
    BY <1>3 DEF IInv, Matches, SeatsOK, SeatOK, PlacesIn, TicketsIn, MatchesWhole, Made
  <2>3. ASSUME NEW u \in Users, Seated(u) PROVE Seated(u)'
    <3>1. CASE \E s \in TicketsOf({u}) : match[s] = seat[u] \/ Lost(s)
      BY <3>1 DEF Seated, TicketsOf, Made, Lost
    <3>2. CASE \E x \in tasks \ {t} : x.op = "seat" /\ x.lobby = seat[u] /\ u \in PlacesIn(x)
      BY <1>3, <3>2 DEF Seated, PlacesIn, TicketsIn
    <3>3. CASE t.op = "seat" /\ t.lobby = seat[u] /\ u \in PlacesIn(t)
      <4>1. PICK h \in Held(t) : holder[h[1]] = u
        BY <3>3, HeldNow DEF PlacesIn, TicketsIn
      <4>2. h[1] \in Made /\ <<h[1], mark[h[1]]>> \in Held(t)
        BY <1>1, HeldRow
      <4> QED BY <4>1, <4>2 DEF Seated, TicketsOf, Made, Lost
    <3> QED BY <2>3, <3>1, <3>2, <3>3 DEF Seated
  <2>4. SeatedOK'
    BY <2>3 DEF IInv, Matches, SeatedOK
  <2> QED BY <2>1, <2>2, <2>4 DEF Matches
<1>7. Waits'
  <2>1. \A s : (Asking(s)' = Asking(s)) /\ (\A c : StaysIn(s, c)' <=> StaysIn(s, c))
    BY DEF Asking, StaysIn
  <2>2. \A s \in Made : Waiting(s)' => Waiting(s)
    BY <2>1 DEF Waiting, Undecided, Lost
  <2>3. QueuedIn' /\ HeldIn'
    BY <1>2, <2>1 DEF IInv, Waits, QueuedIn, Queued, Made, HeldIn
  <2>4. Joins' \subseteq Joins
    BY <1>3 DEF Joins
  <2> QED BY <2>2, <2>3, <2>4, WaitsShrink DEF IInv, Waits
<1> QED BY <1>4, <1>5, <1>6, <1>7 DEF IInv

\* A process dies.
LEMMA CrashStep ==
  ASSUME IInv, NEW t \in tasks, Crash(t)
  PROVE  IInv'
<1>1. t \in Holders
  BY DEF Holders
<1>2. UNCHANGED <<ticketVars, claims, lobbyVars, checks, aged, stale, slipped>> /\ Continue(t, {})
  BY DEF Crash, clockVars
<1>3. lost' = lost \cup Held(t)
  <2>1. \A h \in Held(t) : status[h[1]] = "matched" /\ mark[h[1]] = h[2] /\ match[h[1]] = 0
    BY <1>1, HeldRow DEF Mine
  <2> QED BY <2>1 DEF Crash
<1> QED BY <1>2, <1>3, Dropped

-----------------------------------------------------------------------------
(* Seating. *)

\* A lobby is made, or refused.
LEMMA CreateStep ==
  ASSUME IInv, NEW t \in tasks, Create(t)
  PROVE  IInv'
<1>1. t \in Holders /\ t.op = "create" /\ t \in Holding /\ TypeOK
  BY HoldersTyped, TaskKinds DEF Holders, IInv, Local, Create
<1>2. UNCHANGED <<ticketVars, claims, kept, seat, been, checks, lost, aged, stale, slipped>>
  BY DEF Create, clockVars
<1>3. CASE UNCHANGED <<lobbies, standing>> /\ Continue(t, {[t EXCEPT !.op = "requeue"]})
  BY <1>1, <1>2, <1>3, Renamed DEF lobbyVars
<1>4. ASSUME NEW n,
             n = [op |-> "seat", held |-> t.held, lobby |-> lobbies + 1, failed |-> {},
                  todo |-> {holder[s] : s \in TicketsIn(t.held)}],
             lobbies < MaxLobbies, lobbies' = lobbies + 1,
             standing' = standing \cup {lobbies + 1}, Continue(t, {n})
      PROVE  IInv'
  <2>1. Held(t) = t.held /\ t.held \in Claimed
    BY <1>1, HeldNow DEF Holding
  <2>2. n.op = "seat" /\ n.held = t.held /\ n.failed = {} /\ n.todo = PlacesIn(n)
    BY <1>4 DEF PlacesIn
  <2>3. Held(n) = t.held /\ Held(n)' = t.held
    BY <2>2, HeldNow, HeldNext
  <2>4. Holders' = (Holders \ {t}) \cup {n} /\ \A x : Held(x)' = Held(x)
    BY <1>2, <1>4, Continued
  <2>5. tasks' = (tasks \ {t}) \cup {n}
    BY <1>4 DEF Continue
  <2>6. n \in Tasks
    <3>1. \A s \in TicketsIn(t.held) : holder[s] \in Users
      BY <1>1, <2>1, HeldRow DEF TypeOK, TicketsIn, Made
    <3>2. {holder[s] : s \in TicketsIn(t.held)} \in SUBSET Users
      BY <3>1
    <3>3. lobbies + 1 \in Lobbies
      BY <1>1, <1>4, Bounds DEF TypeOK, Lobbies
    <3> QED BY <1>4, <2>1, <3>2, <3>3 DEF Tasks, Seating
  <2>7. Local'
    <3>1. lobbies' \in 0..MaxLobbies /\ standing' \subseteq 1..lobbies' /\ kept' \subseteq 1..lobbies'
      <4>1. lobbies \in 0..MaxLobbies /\ standing \subseteq 1..lobbies /\ kept \subseteq 1..lobbies
        BY <1>1 DEF TypeOK
      <4>2. lobbies' \in 0..MaxLobbies /\ lobbies + 1 \in 1..lobbies' /\ 1..lobbies \subseteq 1..lobbies'
        BY <1>4, <4>1, Bounds
      <4> QED BY <1>2, <1>4, <4>1, <4>2
    <3>0. 1..lobbies \subseteq 1..lobbies' /\ n.lobby \in 1..lobbies'
      BY <1>1, <1>4, Bounds DEF TypeOK
    <3>2. TypeOK'
      BY <1>1, <1>2, <2>5, <2>6, <3>1 DEF TypeOK, ticketVars
    <3>3. Rows' /\ LostOnce' /\ ChecksOK' /\ AskedMade'
      BY <1>2 DEF IInv, Local, Rows, Made, LostOnce, ChecksOK, AskedMade, ticketVars
    <3>4. TasksOK'
      BY <1>2, <2>2, <2>5, <3>0 DEF IInv, Local, TasksOK, TaskOK
    <3> QED BY <3>2, <3>3, <3>4 DEF Local
  <2>8. Ownership'
    BY <1>1, <1>2, <2>1, <2>3, <2>4, HandedOn DEF KeepsRows, ticketVars
  <2>9. Matches'
    <3>1. HoldsAll(n)'
      BY <1>1, <1>2, <2>1, <2>3 DEF IInv, Matches, Whole, Seats, HoldsAll, ticketVars, Made
    <3>2. SeatOK(n)
      BY <2>2 DEF SeatOK
    <3> QED BY <1>1, <1>2, <1>4, <2>4, <2>5, <3>1, <3>2, MatchesSame DEF IInv, ticketVars
  <2>10. Waits'
    <3>1. \A h \in Held(n)' : \A c \in Asking(h[1]) : StaysIn(h[1], c)
      BY <1>1, <2>1, <2>3 DEF IInv, Waits, HeldIn, Settlement
    <3>2. Joins' \subseteq Joins
      BY <2>2, <2>5 DEF Joins
    <3> QED BY <1>2, <2>4, <3>1, <3>2, WaitsSame DEF KeepsRows, ticketVars
  <2> QED BY <2>7, <2>8, <2>9, <2>10 DEF IInv
<1>5. CASE \E n : /\ n = [op |-> "seat", held |-> t.held, lobby |-> lobbies + 1, failed |-> {},
                          todo |-> {holder[s] : s \in TicketsIn(t.held)}]
                  /\ lobbies < MaxLobbies /\ lobbies' = lobbies + 1
                  /\ standing' = standing \cup {lobbies + 1} /\ Continue(t, {n})
  BY <1>4, <1>5
<1> QED BY <1>3, <1>5 DEF Create

\* One player is seated, or refused.
LEMMA SeatStep ==
  ASSUME IInv, NEW t \in tasks, Seat(t)
  PROVE  IInv'
<1>1. t \in Holders /\ t.op = "seat" /\ t \in Seating /\ TypeOK
  BY HoldersTyped, TaskKinds DEF Holders, IInv, Local, Seat
<1>2. UNCHANGED <<ticketVars, claims, lobbies, standing, kept, checks, lost, aged, stale, slipped>>
  BY DEF Seat, clockVars
<1>3. PICK u \in t.todo, n \in Seating :
        /\ n.op = "seat" /\ n.held = t.held /\ n.lobby = t.lobby
        /\ n.todo = t.todo \ {u}
        /\ Continue(t, {n})
        /\ \/ /\ t.lobby \in standing /\ seat' = [seat EXCEPT ![u] = t.lobby]
              /\ been' = been \cup {<<u, t.lobby>>} /\ n.failed = t.failed
           \/ UNCHANGED <<seat, been>> /\ n.failed = t.failed \cup {u}
  <2>1. PICK u \in t.todo :
          \/ /\ seat[u] = 0 /\ t.lobby \in standing
             /\ seat' = [seat EXCEPT ![u] = t.lobby]
             /\ been' = been \cup {<<u, t.lobby>>}
             /\ Continue(t, {[t EXCEPT !.todo = @ \ {u}]})
          \/ /\ UNCHANGED <<seat, been>>
             /\ Continue(t, {[t EXCEPT !.todo = @ \ {u}, !.failed = @ \cup {u}]})
    BY DEF Seat
  <2>2. CASE Continue(t, {[t EXCEPT !.todo = @ \ {u}]}) /\ t.lobby \in standing
             /\ seat' = [seat EXCEPT ![u] = t.lobby] /\ been' = been \cup {<<u, t.lobby>>}
    <3>1. PICK n : n = [t EXCEPT !.todo = @ \ {u}]
      OBVIOUS
    <3>2. n \in Seating /\ n.op = "seat" /\ n.held = t.held /\ n.lobby = t.lobby
          /\ n.todo = t.todo \ {u} /\ n.failed = t.failed
      BY <1>1, <3>1 DEF Seating
    <3> QED BY <2>2, <3>1, <3>2
  <2>3. CASE UNCHANGED <<seat, been>>
             /\ Continue(t, {[t EXCEPT !.todo = @ \ {u}, !.failed = @ \cup {u}]})
    <3>1. PICK m : m = [t EXCEPT !.todo = @ \ {u}]
      OBVIOUS
    <3>2. m \in Seating /\ m.op = "seat" /\ m.held = t.held /\ m.lobby = t.lobby
          /\ m.todo = t.todo \ {u} /\ m.failed = t.failed
      BY <1>1, <3>1 DEF Seating
    <3>3. PICK n : n = [m EXCEPT !.failed = @ \cup {u}]
      OBVIOUS
    <3>4. u \in Users
      BY <1>1 DEF Seating
    <3>5. n \in Seating /\ n.op = "seat" /\ n.held = t.held /\ n.lobby = t.lobby
          /\ n.todo = t.todo \ {u} /\ n.failed = t.failed \cup {u}
      BY <3>2, <3>3, <3>4 DEF Seating
    <3> QED BY <2>3, <3>1, <3>3, <3>5
  <2> QED BY <2>1, <2>2, <2>3
<1>4. u \in Users /\ t.lobby \in Lobbies /\ t.held \in Claimed
  BY <1>1 DEF Seating
<1>5. Held(t) = t.held /\ Held(n) = t.held /\ Held(n)' = t.held
  BY <1>1, <1>3, HeldNow, HeldNext
<1>6. Holders' = (Holders \ {t}) \cup {n} /\ \A x : Held(x)' = Held(x)
  BY <1>2, <1>3, Continued
<1>7. tasks' = (tasks \ {t}) \cup {n}
  BY <1>3 DEF Continue
<1>8. been \subseteq been' /\ been' \subseteq Users \X Lobbies /\ seat' \in [Users -> 0..MaxLobbies]
  BY <1>1, <1>3, <1>4 DEF TypeOK, Lobbies
<1>9. Local'
  <2>1. TypeOK'
    <3>1. \A x \in tasks' : x \in Tasks
      BY <1>1, <1>3, <1>7 DEF TypeOK, Tasks
    <3> QED BY <1>1, <1>2, <1>8, <3>1 DEF TypeOK, ticketVars
  <2>2. Rows' /\ LostOnce' /\ ChecksOK' /\ AskedMade'
    BY <1>2 DEF IInv, Local, Rows, Made, LostOnce, ChecksOK, AskedMade, ticketVars
  <2>3. TasksOK'
    <3>1. ASSUME NEW x \in tasks PROVE TaskOK(x)'
      BY <1>2 DEF IInv, Local, TasksOK, TaskOK
    <3>2. TaskOK(n)'
      BY <1>1, <1>2, <1>3 DEF IInv, Local, TasksOK, TaskOK
    <3> QED BY <1>7, <3>1, <3>2 DEF TasksOK
  <2> QED BY <2>1, <2>2, <2>3 DEF Local
<1>10. Ownership'
  BY <1>1, <1>2, <1>5, <1>6, HandedOn DEF KeepsRows, ticketVars
<1>11. Waits'
  <2>1. \A h \in Held(n)' : \A c \in Asking(h[1]) : StaysIn(h[1], c)
    BY <1>1, <1>5 DEF IInv, Waits, HeldIn, Settlement
  <2>2. Joins' \subseteq Joins
    BY <1>3, <1>7 DEF Joins
  <2> QED BY <1>2, <1>6, <2>1, <2>2, WaitsSame DEF KeepsRows, ticketVars
<1>12. Matches'
  <2> USE <1>2 DEF ticketVars
  <2>1. Whole'
    BY <1>1, <1>3, <1>5, <1>6 DEF IInv, Matches, Whole, Seats, HoldsAll, Made
  <2>2. SeatsOK'
    <3>1. ASSUME NEW x \in tasks, x.op = "seat" PROVE SeatOK(x)'
      BY <1>8, <3>1 DEF IInv, Matches, SeatsOK, SeatOK, PlacesIn, TicketsIn
    <3>2. PlacesIn(n)' = PlacesIn(t) /\ SeatOK(t)
      BY <1>1, <1>3 DEF IInv, Matches, SeatsOK, PlacesIn, TicketsIn
    <3>3. n.todo \cup n.failed \subseteq PlacesIn(t)
      BY <1>3, <3>2 DEF SeatOK
    <3>4. \A v \in PlacesIn(t) : v \in n.todo \cup n.failed \/ <<v, n.lobby>> \in been'
      BY <1>3, <1>8, <3>2 DEF SeatOK
    <3>5. SeatOK(n)'
      BY <3>2, <3>3, <3>4 DEF SeatOK
    <3> QED BY <1>7, <3>1, <3>5 DEF SeatsOK
  <2>3. MatchesWhole'
    BY <1>8 DEF IInv, Matches, MatchesWhole, Made
  <2>4. PlacesIn(n)' = PlacesIn(t) /\ u \in PlacesIn(t)
    BY <1>1, <1>3 DEF IInv, Matches, SeatsOK, SeatOK, PlacesIn, TicketsIn
  <2>5. ASSUME NEW v \in Users, seat'[v] = seat[v], Seated(v) PROVE Seated(v)'
    <3>1. CASE \E s \in TicketsOf({v}) : match[s] = seat[v] \/ Lost(s)
      BY <2>5, <3>1 DEF Seated, TicketsOf, Made, Lost
    <3>2. CASE \E x \in tasks \ {t} : x.op = "seat" /\ x.lobby = seat[v] /\ v \in PlacesIn(x)
      BY <1>7, <2>5, <3>2 DEF Seated, PlacesIn, TicketsIn
    <3>3. CASE t.lobby = seat[v] /\ v \in PlacesIn(t)
      BY <1>3, <1>7, <2>4, <2>5, <3>3 DEF Seated
    <3> QED BY <2>5, <3>1, <3>2, <3>3 DEF Seated
  <2>6. SeatedOK'
    <3>1. ASSUME NEW v \in Users, seat'[v] \in Lobbies
          PROVE  seat'[v] \in standing' /\ (seat'[v] \notin kept' => Seated(v)')
      <4>1. CASE seat'[v] = seat[v]
        BY <2>5, <3>1, <4>1 DEF IInv, Matches, SeatedOK
      <4>2. CASE seat'[v] # seat[v]
        <5>1. v = u /\ t.lobby \in standing /\ seat'[v] = t.lobby
          BY <1>1, <1>3, <1>4, <4>2 DEF TypeOK
        <5> QED BY <1>3, <1>7, <2>4, <5>1 DEF Seated
      <4> QED BY <4>1, <4>2
    <3> QED BY <3>1 DEF SeatedOK
  <2> QED BY <2>1, <2>2, <2>3, <2>6 DEF Matches
<1> QED BY <1>9, <1>10, <1>11, <1>12 DEF IInv

\* A lobby goes; who may have sat in it no longer does.
LEMMA Demolition ==
  ASSUME IInv, NEW l \in Lobbies, Demolish(l),
         UNCHANGED <<made, holder, status, mark, lobbies, kept, lost, been>>,
         \A x \in Holders : Held(x)' = Held(x),
         \A x \in Holders' \ Holders : ~Seats(x),
         \A x \in tasks : x.op = "seat" => x \in tasks' \/ x.lobby = l,
         \A x \in tasks' \ tasks : x.op # "seat"
  PROVE  /\ Matches' /\ KeepsRows /\ Rows'
         /\ match' \in [Tickets -> 0..Gone] /\ standing' \subseteq 1..lobbies'
         /\ seat' \in [Users -> 0..MaxLobbies]
<1>1. TypeOK /\ Made \subseteq Tickets
  BY MadeTickets DEF IInv, Local
<1>2. l \in 1..MaxLobbies /\ l # 0 /\ Gone # 0 /\ Gone \in 0..Gone /\ Gone \notin Lobbies
  BY Bounds DEF Lobbies, Gone
<1>3. \A s \in Tickets : match'[s] = IF match[s] = l THEN Gone ELSE match[s]
  BY DEF Demolish
<1>4. \A u \in Users : seat'[u] = IF seat[u] = l THEN 0 ELSE seat[u]
  BY DEF Demolish
<1>5. /\ match' \in [Tickets -> 0..Gone] /\ standing' \subseteq 1..lobbies'
      /\ seat' \in [Users -> 0..MaxLobbies]
  BY <1>1, <1>2, Bounds DEF Demolish, TypeOK
<1>6. KeepsRows
  BY <1>2, <1>3 DEF KeepsRows
<1>7. Rows'
  BY <1>6 DEF IInv, Local, Rows, Made, KeepsRows
<1>8. Whole'
  BY DEF IInv, Matches, Whole, Seats, HoldsAll, Made
<1>9. SeatsOK'
  BY DEF IInv, Matches, SeatsOK, SeatOK, PlacesIn, TicketsIn
<1>10. SeatedOK'
  <2>1. ASSUME NEW u \in Users, seat'[u] \in Lobbies
        PROVE  seat'[u] \in standing' /\ (seat'[u] \notin kept' => Seated(u)')
    <3>1. seat'[u] = seat[u] /\ seat[u] # l
      BY <1>4, <2>1 DEF Lobbies
    <3>2. seat[u] \in standing /\ (seat[u] \notin kept => Seated(u))
      BY <2>1, <3>1 DEF IInv, Matches, SeatedOK
    <3>0. seat'[u] \in standing'
      BY <3>1, <3>2 DEF Demolish
    <3>5. CASE seat[u] \in kept
      BY <3>0, <3>1, <3>5
    <3>3. CASE \E s \in TicketsOf({u}) : match[s] = seat[u] \/ Lost(s)
      <4>1. PICK s \in TicketsOf({u}) : match[s] = seat[u] \/ Lost(s)
        BY <3>3
      <4>2. s \in Tickets /\ s \in TicketsOf({u})' /\ (Lost(s) => Lost(s)')
        BY <1>1 DEF TicketsOf, Made, Lost
      <4>3. match'[s] = seat'[u] \/ Lost(s)'
        BY <1>3, <3>1, <4>1, <4>2
      <4> QED BY <3>0, <4>2, <4>3 DEF Seated
    <3>4. CASE \E x \in tasks : x.op = "seat" /\ x.lobby = seat[u] /\ u \in PlacesIn(x)
      <4>1. PICK x \in tasks : x.op = "seat" /\ x.lobby = seat[u] /\ u \in PlacesIn(x)
        BY <3>4
      <4>2. x \in tasks' /\ PlacesIn(x)' = PlacesIn(x)
        BY <3>1, <4>1 DEF PlacesIn, TicketsIn
      <4> QED BY <3>0, <3>1, <4>1, <4>2 DEF Seated
    <3> QED BY <3>2, <3>3, <3>4, <3>5 DEF Seated
  <2> QED BY <2>1 DEF SeatedOK
<1>11. MatchesWhole'
  <2>1. ASSUME NEW t \in Made, NEW s \in Made, match'[t] \in Lobbies, mark[s] = mark[t]
        PROVE  match'[s] = match'[t] /\ <<holder[s], match'[t]>> \in been
    <3>1. match'[t] = match[t] /\ match[t] # l
      BY <1>1, <1>2, <1>3, <2>1
    <3>2. match[s] = match[t] /\ <<holder[s], match[t]>> \in been
      BY <2>1, <3>1 DEF IInv, Matches, MatchesWhole
    <3> QED BY <1>1, <1>3, <3>1, <3>2
  <2> QED BY <2>1 DEF MatchesWhole, Made
<1> QED BY <1>5, <1>6, <1>7, <1>8, <1>9, <1>10, <1>11 DEF Matches

\* A lobby that is deleted takes no claim along.
LEMMA DeleteLobbyStep ==
  ASSUME IInv, NEW l \in Lobbies, DeleteLobby(l)
  PROVE  IInv'
<1>1. Demolish(l) /\ UNCHANGED <<made, holder, status, mark, claims, lobbies, kept, been, checks,
                                 tasks, lost, aged, stale, slipped>>
  BY DEF DeleteLobby, clockVars
<1>2. Holders' = Holders /\ \A x : Held(x)' = Held(x)
  BY <1>1 DEF Holders, Pending, Held
<1>3. /\ Matches' /\ KeepsRows /\ Rows'
      /\ match' \in [Tickets -> 0..Gone] /\ standing' \subseteq 1..lobbies'
      /\ seat' \in [Users -> 0..MaxLobbies]
  BY <1>1, <1>2, Demolition
<1>4. Local'
  BY <1>1, <1>3 DEF IInv, Local, TypeOK, LostOnce, ChecksOK, AskedMade, Made, TasksOK, TaskOK
<1>5. Ownership'
  <2>1. CASE Holders = {}
    <3>1. AllHeld'
      BY <1>1, <1>2, <1>3, <2>1, MadeTickets
         DEF IInv, Local, Ownership, AllHeld, Undecided, Lost, Made, KeepsRows
    <3> QED BY <1>2, <2>1, <3>1 DEF Ownership, HoldTheirs, HoldAlone
  <2>2. CASE Holders # {}
    BY <1>1, <1>2, <1>3, <2>2, HandedOn
  <2> QED BY <2>1, <2>2
<1>6. Waits'
  BY <1>1, <1>2, <1>3, WaitsSame DEF Joins
<1> QED BY <1>3, <1>4, <1>5, <1>6 DEF IInv

\* A lobby that is dropped, or that the game keeps, leaves its claim to be discarded.
LEMMA DropLobbyStep ==
  ASSUME IInv, NEW t \in tasks, DropLobby(t)
  PROVE  IInv'
<1>1. t \in Holders /\ t.op = "seat" /\ t \in Seating /\ TypeOK
  BY HoldersTyped, TaskKinds DEF Holders, IInv, Local, DropLobby
<1>2. t.lobby \in Lobbies /\ t.held \in Claimed
  BY <1>1 DEF Seating
<1>3. PICK n : n = [op |-> "discard", out |-> {h \in t.held : holder[h[1]] \in t.failed},
                    held |-> t.held \ {h \in t.held : holder[h[1]] \in t.failed}]
  OBVIOUS
<1>4. n.op = "discard" /\ n.out \cap n.held = {} /\ n.held \cup n.out = t.held
      /\ n.out \in Claimed /\ n.held \in Claimed /\ n \in Tasks
  <2>1. {h \in t.held : holder[h[1]] \in t.failed} \in Claimed
        /\ t.held \ {h \in t.held : holder[h[1]] \in t.failed} \in Claimed
    BY <1>2 DEF Claimed
  <2> QED BY <1>3, <2>1 DEF Tasks, Dropping
<1>5. /\ Continue(t, {n})
      /\ UNCHANGED <<made, holder, status, mark, claims, lobbies, been, checks, lost, aged, stale,
                     slipped>>
  BY <1>3 DEF DropLobby, clockVars
<1>6. Holders' = (Holders \ {t}) \cup {n} /\ \A x : Held(x)' = Held(x)
  BY <1>5, Continued
<1>7. tasks' = (tasks \ {t}) \cup {n}
  BY <1>5 DEF Continue
<1>8. Held(t) = t.held /\ Held(n)' = t.held
  BY <1>1, <1>4, HeldNow, HeldNext
<1>9. /\ Matches' /\ KeepsRows /\ Rows'
      /\ match' \in [Tickets -> 0..Gone] /\ standing' \subseteq 1..lobbies'
      /\ kept' \subseteq 1..lobbies' /\ seat' \in [Users -> 0..MaxLobbies]
  <2>1. CASE Demolish(t.lobby) /\ UNCHANGED kept
    <3>1. kept' \subseteq 1..lobbies'
      BY <1>1, <1>5, <2>1 DEF TypeOK
    <3> QED BY <1>1, <1>2, <1>4, <1>5, <1>6, <1>7, <2>1, <3>1, Demolition DEF Seats
  <2>2. CASE kept' = kept \cup {t.lobby} /\ UNCHANGED <<standing, seat, match>>
    <3>1. KeepsRows
      BY <1>5, <2>2 DEF KeepsRows
    <3>2. Rows'
      BY <1>5, <2>2 DEF IInv, Local, Rows, Made
    <3>3. /\ match' \in [Tickets -> 0..Gone] /\ standing' \subseteq 1..lobbies'
          /\ seat' \in [Users -> 0..MaxLobbies]
      BY <1>1, <1>5, <2>2 DEF TypeOK
    <3>4. t.lobby \in 1..lobbies
      BY <1>1 DEF IInv, Local, TasksOK, TaskOK
    <3>5. kept' \subseteq 1..lobbies'
      BY <1>1, <1>5, <2>2, <3>4 DEF TypeOK
    <3>6. Matches'
      BY <1>4, <1>5, <1>6, <1>7, <2>2, MatchesSame DEF IInv, Seats
    <3> QED BY <3>1, <3>2, <3>3, <3>5, <3>6
  <2> QED BY <2>1, <2>2 DEF DropLobby
<1>10. Local'
  BY <1>4, <1>5, <1>7, <1>9 DEF IInv, Local, TypeOK, LostOnce, ChecksOK, AskedMade, Made, TasksOK, TaskOK
<1>11. Ownership'
  BY <1>1, <1>5, <1>6, <1>8, <1>9, HandedOn
<1>12. Waits'
  <2>1. \A h \in Held(n)' : \A c \in Asking(h[1]) : StaysIn(h[1], c)
    BY <1>1, <1>8 DEF IInv, Waits, HeldIn, Settlement
  <2>2. Joins' \subseteq Joins
    BY <1>4, <1>7 DEF Joins
  <2> QED BY <1>5, <1>6, <1>9, <2>1, <2>2, WaitsSame
<1> QED BY <1>9, <1>10, <1>11, <1>12 DEF IInv

\* Who leaves a match's lobby has a ticket that names it still.
LEMMA DepartStep ==
  ASSUME IInv, NEW u \in Users, Depart(u)
  PROVE  IInv'
<1> USE DEF ticketVars
<1>1. /\ seat' = [seat EXCEPT ![u] = 0]
      /\ UNCHANGED <<ticketVars, claims, lobbies, standing, kept, been, checks, tasks, lost, aged,
                     stale, slipped>>
  BY DEF Depart, clockVars
<1>2. Holders' = Holders /\ \A x : Held(x)' = Held(x)
  BY <1>1 DEF Holders, Pending, Held
<1>3. Local'
  BY <1>1, Bounds
     DEF IInv, Local, TypeOK, Rows, Made, LostOnce, ChecksOK, AskedMade, TasksOK, TaskOK
<1>4. Ownership'
  BY <1>1, <1>2 DEF IInv, Ownership, HoldTheirs, Mine, HoldAlone, AllHeld, Undecided, Lost, Made
<1>5. Waits'
  BY <1>1, <1>2, WaitsSame DEF KeepsRows, Joins
<1>6. Matches'
  <2>1. Whole'
    BY <1>1, <1>2 DEF IInv, Matches, Whole, Seats, HoldsAll, Made
  <2>2. SeatsOK' /\ MatchesWhole'
    BY <1>1 DEF IInv, Matches, SeatsOK, SeatOK, PlacesIn, TicketsIn, MatchesWhole, Made
  <2>3. ASSUME NEW v \in Users, seat'[v] \in Lobbies
        PROVE  seat'[v] \in standing' /\ (seat'[v] \notin kept' => Seated(v)')
    <3>1. seat'[v] = seat[v]
      BY <1>1, <2>3 DEF IInv, Local, TypeOK, Lobbies
    <3>2. seat[v] \in standing /\ (seat[v] \notin kept => Seated(v))
      BY <2>3, <3>1 DEF IInv, Matches, SeatedOK
    <3>3. \A x : PlacesIn(x)' = PlacesIn(x)
      BY <1>1 DEF PlacesIn, TicketsIn
    <3>4. TicketsOf({v})' = TicketsOf({v}) /\ \A s : match'[s] = match[s] /\ (Lost(s)' <=> Lost(s))
      BY <1>1 DEF TicketsOf, Made, Lost
    <3>5. Seated(v) => Seated(v)'
      BY <1>1, <3>1, <3>3, <3>4 DEF Seated
    <3> QED BY <1>1, <3>1, <3>2, <3>5
  <2> QED BY <2>1, <2>2, <2>3 DEF Matches, SeatedOK
<1> QED BY <1>3, <1>4, <1>5, <1>6 DEF IInv

\* Some holders go, and what they held is decided.
LetsGo(gone) ==
  /\ Holders' = Holders \ gone
  /\ \A x \in Holders : Held(x)' = Held(x)
  /\ \A x \in Holders \ gone : \A h \in Held(x) : Mine(h)'
  /\ \A s \in Made' : Undecided(s)' /\ ~Lost(s)' =>
       /\ s \in Made /\ Undecided(s) /\ ~Lost(s) /\ mark'[s] = mark[s]
       /\ \A x \in gone : <<s, mark[s]>> \notin Held(x)

\* What they let go of is nobody's, and the others' stays theirs.
LEMMA LetGo ==
  ASSUME IInv, NEW gone, LetsGo(gone)
  PROVE  Ownership'
<1>1. HoldTheirs' /\ HoldAlone'
  BY DEF LetsGo, HoldTheirs, IInv, Ownership, HoldAlone
<1>2. AllHeld'
  <2>1. ASSUME NEW s \in Made', Undecided(s)', ~Lost(s)'
        PROVE  \E x \in Holders' : <<s, mark'[s]>> \in Held(x)'
    <3>1. /\ s \in Made /\ Undecided(s) /\ ~Lost(s) /\ mark'[s] = mark[s]
          /\ \A x \in gone : <<s, mark[s]>> \notin Held(x)
      BY <2>1 DEF LetsGo
    <3>2. PICK x \in Holders : <<s, mark[s]>> \in Held(x)
      BY <3>1 DEF IInv, Ownership, AllHeld
    <3> QED BY <3>1, <3>2 DEF LetsGo
  <2> QED BY <2>1 DEF AllHeld
<1> QED BY <1>1, <1>2 DEF Ownership

\* A seated claim is announced, or goes back: its lobby has gone.
LEMMA AnnounceStep ==
  ASSUME IInv, NEW t \in tasks, Announce(t)
  PROVE  IInv'
<1> DEFINE held == t.held
<1>1. t \in Holders /\ t.op = "seat" /\ t \in Seating /\ TypeOK /\ Made \subseteq Tickets
  BY HoldersTyped, TaskKinds, MadeTickets DEF Holders, IInv, Local, Announce
<1>2. t.lobby \in Lobbies /\ held \in Claimed /\ Held(t) = held /\ t.todo = {} /\ t.failed = {}
  BY <1>1, HeldNow DEF Seating, Announce, AllSeated
<1>3. UNCHANGED <<made, holder, status, mark, claims, lobbies, standing, kept, seat, been, checks,
                     lost, aged, stale, slipped>>
  BY DEF Announce, otherVars, lobbyVars, clockVars
<1>4. HeldByClaim(held) = TicketsIn(held)
  BY <1>1, <1>2, StillHeld
<1> HIDE DEF held
<1>5. CASE t.lobby \notin standing
  <2>1. PICK n : n = [op |-> "requeue", held |-> held]
    OBVIOUS
  <2>2. n.op = "requeue" /\ n.held = held /\ n \in Tasks
    BY <1>2, <2>1 DEF Tasks, Holding
  <2>3. UNCHANGED match /\ Continue(t, {n})
    BY <1>5, <2>1 DEF Announce, held
  <2>4. Holders' = (Holders \ {t}) \cup {n} /\ \A x : Held(x)' = Held(x)
    BY <1>3, <2>3, Continued
  <2>5. tasks' = (tasks \ {t}) \cup {n}
    BY <2>3 DEF Continue
  <2>6. Held(n)' = held
    BY <2>2, HeldNext
  <2>7. Local'
    <3>1. TaskOK(n)
      BY <2>2 DEF TaskOK
    <3> QED BY <1>3, <2>2, <2>3, <2>5, <3>1, LocalSame DEF IInv, ticketVars, lobbyVars
  <2>8. Ownership'
    BY <1>1, <1>2, <1>3, <2>3, <2>4, <2>6, HandedOn DEF KeepsRows
  <2>9. Matches'
    BY <1>3, <1>5, <2>2, <2>3, <2>4, <2>5, MatchesSame DEF IInv, Seats
  <2>10. Waits'
    <3>1. \A h \in Held(n)' : \A c \in Asking(h[1]) : StaysIn(h[1], c)
      BY <1>1, <1>2, <2>6 DEF IInv, Waits, HeldIn, Settlement
    <3>2. Joins' \subseteq Joins
      BY <2>2, <2>5 DEF Joins
    <3> QED BY <1>3, <2>3, <2>4, <3>1, <3>2, WaitsSame DEF KeepsRows
  <2> QED BY <2>7, <2>8, <2>9, <2>10 DEF IInv
<1>6. CASE t.lobby \in standing
  <2>1. /\ match' = [s \in Tickets |-> IF s \in TicketsIn(held) THEN t.lobby ELSE match[s]]
        /\ Continue(t, {})
    BY <1>4, <1>6 DEF Announce, held
  <2>2. Holders' = Holders \ {t} /\ \A x : Held(x)' = Held(x)
    BY <1>3, <2>1, Continued
  <2>3. tasks' = tasks \ {t}
    BY <2>1 DEF Continue
  <2>4. t.lobby # 0 /\ t.lobby \in 0..Gone
    BY <1>2, Bounds DEF Lobbies, Gone
  <2>5. ASSUME NEW h \in held
        PROVE  /\ h[1] \in Made /\ h[1] \in Tickets /\ h = <<h[1], mark[h[1]]>> /\ h[1] \in TicketsIn(held)
               /\ mark[h[1]] # 0 /\ match[h[1]] = 0 /\ h \notin lost /\ status[h[1]] = "matched"
    BY <1>1, <1>2, HeldRow, HeldPairs DEF Mine, TicketsIn, IInv, Local, Rows
  <2>6. ASSUME NEW s \in Tickets PROVE match'[s] = 0 => match[s] = 0 /\ s \notin TicketsIn(held)
    BY <2>1, <2>4
  <2>7. Local'
    <3>1. TypeOK'
      BY <1>1, <1>3, <2>1, <2>3, <2>4 DEF TypeOK
    <3>2. \A s \in TicketsIn(held) : mark[s] # 0 /\ s \in Made
      BY <2>5 DEF TicketsIn
    <3>3. Rows'
      BY <1>3, <2>1, <3>2 DEF IInv, Local, Rows, Made
    <3> QED BY <1>3, <2>3, <3>1, <3>3
            DEF IInv, Local, LostOnce, ChecksOK, AskedMade, Made, TasksOK, TaskOK
  <2>8. Ownership'
    <3>1. ASSUME NEW x \in Holders \ {t}, NEW h \in Held(x) PROVE Mine(h)'
      <4>1. h[1] \in Tickets /\ Mine(h) /\ h[1] \notin TicketsIn(held)
        BY <1>1, <1>2, <3>1, Apart, HeldRow
      <4> QED BY <1>3, <2>1, <4>1 DEF Mine
    <3>2. ASSUME NEW s \in Made', Undecided(s)', ~Lost(s)'
          PROVE  /\ s \in Made /\ Undecided(s) /\ ~Lost(s) /\ mark'[s] = mark[s]
                 /\ <<s, mark[s]>> \notin Held(t)
      <4>1. s \in Tickets /\ s \in Made /\ match[s] = 0 /\ s \notin TicketsIn(held)
        BY <1>1, <1>3, <2>6, <3>2 DEF Undecided, Made
      <4> QED BY <1>2, <1>3, <3>2, <4>1 DEF Undecided, Lost, TicketsIn
    <3>3. LetsGo({t})
      BY <2>2, <3>1, <3>2 DEF LetsGo
    <3> QED BY <3>3, LetGo
  <2>9. Waits'
    <3>1. \A s : (Asking(s)' = Asking(s)) /\ (\A c : StaysIn(s, c)' <=> StaysIn(s, c))
      BY <1>3 DEF Asking, StaysIn
    <3>2. \A s \in Made : Waiting(s)' => Waiting(s)
      BY <1>1, <1>3, <2>6, <3>1 DEF Waiting, Undecided, Lost
    <3>3. QueuedIn' /\ HeldIn'
      BY <1>3, <2>2, <3>1 DEF IInv, Waits, QueuedIn, Queued, Made, HeldIn
    <3>4. Joins' \subseteq Joins
      BY <2>3 DEF Joins
    <3> QED BY <1>3, <3>2, <3>3, <3>4, WaitsShrink DEF IInv, Waits
  <2>10. Matches'
    <3>1. Whole'
      BY <1>3, <2>2 DEF IInv, Matches, Whole, Seats, HoldsAll, Made
    <3>2. SeatsOK'
      BY <1>3, <2>3 DEF IInv, Matches, SeatsOK, SeatOK, PlacesIn, TicketsIn
    <3>3. ASSUME NEW v \in Users, seat[v] \in Lobbies, Seated(v) PROVE Seated(v)'
      <4>1. CASE \E s \in TicketsOf({v}) : match[s] = seat[v] \/ Lost(s)
        <5>1. PICK s \in TicketsOf({v}) : match[s] = seat[v] \/ Lost(s)
          BY <4>1
        <5>2. s \in Tickets /\ s \in TicketsOf({v})' /\ (Lost(s) => Lost(s)')
          BY <1>1, <1>3 DEF TicketsOf, Made, Lost
        <5>3. match[s] = seat[v] => s \notin TicketsIn(held)
          BY <2>5, <3>3 DEF TicketsIn, Lobbies
        <5>4. match'[s] = seat'[v] \/ Lost(s)'
          BY <1>3, <2>1, <5>1, <5>2, <5>3
        <5> QED BY <5>2, <5>4 DEF Seated
      <4>2. CASE \E x \in tasks \ {t} : x.op = "seat" /\ x.lobby = seat[v] /\ v \in PlacesIn(x)
        <5>1. PICK x \in tasks \ {t} : x.op = "seat" /\ x.lobby = seat[v] /\ v \in PlacesIn(x)
          BY <4>2
        <5>2. x \in tasks' /\ PlacesIn(x)' = PlacesIn(x)
          BY <1>3, <2>3 DEF PlacesIn, TicketsIn
        <5> QED BY <1>3, <5>1, <5>2 DEF Seated
      <4>3. CASE t.lobby = seat[v] /\ v \in PlacesIn(t)
        <5>1. PICK h \in held : holder[h[1]] = v
          BY <4>3 DEF PlacesIn, TicketsIn, held
        <5>2. h[1] \in TicketsOf({v})' /\ match'[h[1]] = seat'[v]
          BY <1>3, <2>1, <2>5, <4>3, <5>1 DEF TicketsOf, Made
        <5> QED BY <5>2 DEF Seated
      <4> QED BY <3>3, <4>1, <4>2, <4>3 DEF Seated
    <3>4. SeatedOK'
      BY <1>3, <3>3 DEF IInv, Matches, SeatedOK
    <3>5. ASSUME NEW a \in Made, NEW s \in Made, match'[a] \in Lobbies, mark[s] = mark[a]
          PROVE  match'[s] = match'[a] /\ <<holder[s], match'[a]>> \in been
      <4>1. \A g \in held : \A r \in Made : mark[r] = g[2] => <<r, mark[r]>> \in held
        BY <1>1, <1>2 DEF IInv, Matches, Whole, Seats, HoldsAll
      <4>2. a \in Tickets /\ s \in Tickets
        BY <1>1
      <4>3. a \in TicketsIn(held) <=> s \in TicketsIn(held)
        <5>1. ASSUME NEW p \in Made, NEW q \in Made, mark[p] = mark[q], p \in TicketsIn(held)
              PROVE  q \in TicketsIn(held)
          <6>1. PICK g \in held : g[1] = p
            BY <5>1 DEF TicketsIn
          <6>2. g = <<p, mark[p]>>
            BY <2>5, <6>1
          <6>3. <<q, mark[q]>> \in held
            BY <4>1, <5>1, <6>2
          <6> QED BY <6>3 DEF TicketsIn
        <5> QED BY <3>5, <5>1
      <4>4. CASE a \in TicketsIn(held)
        <5>1. holder[s] \in PlacesIn(t)
          BY <4>3, <4>4 DEF PlacesIn, held
        <5>2. <<holder[s], t.lobby>> \in been
          BY <1>1, <1>2, <5>1 DEF IInv, Matches, SeatsOK, SeatOK
        <5> QED BY <2>1, <4>2, <4>3, <4>4, <5>2
      <4>5. CASE a \notin TicketsIn(held)
        BY <2>1, <3>5, <4>2, <4>3, <4>5 DEF IInv, Matches, MatchesWhole
      <4> QED BY <4>4, <4>5
    <3>6. MatchesWhole'
      BY <1>3, <3>5 DEF MatchesWhole, Made
    <3> QED BY <3>1, <3>2, <3>4, <3>6 DEF Matches
  <2> QED BY <2>7, <2>8, <2>9, <2>10 DEF IInv
<1> QED BY <1>5, <1>6

-----------------------------------------------------------------------------
(* Cancelling, undoing a claim and claiming. *)

\* Queued tickets are cancelled.
LEMMA CancelThem ==
  ASSUME IInv, NEW ts \in SUBSET Queued, CancelThese(ts),
         UNCHANGED <<made, holder, mark, match, claims, lobbies, standing, kept, seat, been, checks,
                     lost, tasks, aged, stale, slipped>>
  PROVE  IInv'
<1>1. TypeOK /\ Made \subseteq Tickets
  BY MadeTickets DEF IInv, Local
<1>2. Holders' = Holders /\ \A x : Held(x)' = Held(x)
  BY DEF Holders, Pending, Held
<1>3. status' = [s \in Tickets |-> IF s \in ts THEN "cancelled" ELSE status[s]]
  BY DEF CancelThese
<1>4. Local'
  <2>1. TypeOK'
    BY <1>1, <1>3 DEF TypeOK
  <2>2. Rows'
    BY <1>1, <1>3 DEF IInv, Local, Rows, Made, Queued
  <2> QED BY <2>1, <2>2 DEF IInv, Local, LostOnce, ChecksOK, AskedMade, Made, TasksOK, TaskOK
<1>5. Ownership'
  <2>1. ASSUME NEW x \in Holders, NEW h \in Held(x) PROVE Mine(h)'
    BY <1>3, HeldRow DEF Mine
  <2>2. LetsGo({})
    BY <1>1, <1>2, <1>3, <2>1 DEF LetsGo, Undecided, Lost, Made
  <2> QED BY <2>2, LetGo
<1>6. Waits'
  <2>1. \A s : (Asking(s)' = Asking(s)) /\ (\A c : StaysIn(s, c)' <=> StaysIn(s, c))
    BY DEF Asking, StaysIn
  <2>2. \A s \in Made : Waiting(s)' => Waiting(s)
    BY <1>1, <1>3, <2>1 DEF Waiting, Undecided, Lost
  <2>3. Queued' \subseteq Queued
    BY <1>1, <1>3 DEF Queued, Made
  <2>4. QueuedIn' /\ HeldIn'
    BY <1>2, <2>1, <2>3 DEF IInv, Waits, QueuedIn, HeldIn
  <2>5. Joins' \subseteq Joins
    BY DEF Joins
  <2> QED BY <2>2, <2>4, <2>5, WaitsShrink DEF IInv, Waits
<1>7. Matches'
  BY <1>2, MatchesSame DEF IInv
<1> QED BY <1>4, <1>5, <1>6, <1>7 DEF IInv

\* A player, and his party, leave the queue.
LEMMA CancelUnitStep ==
  ASSUME IInv, NEW u \in Users, CancelUnit(u)
  PROVE  IInv'
<1>1. CancelThese(TicketsOf(Unit(u)) \cap Queued)
      /\ UNCHANGED <<made, holder, mark, match, claims, lobbies, standing, kept, seat, been, checks,
                     lost, tasks, aged, stale, slipped>>
  BY DEF CancelUnit, otherVars, lobbyVars, clockVars
<1>2. PICK ts \in SUBSET Queued : ts = TicketsOf(Unit(u)) \cap Queued
  OBVIOUS
<1> QED BY <1>1, <1>2, CancelThem

\* An admin cancels a ticket.
LEMMA CancelTicketStep ==
  ASSUME IInv, NEW t \in Made, CancelTicket(t)
  PROVE  IInv'
<1>1. t \in Queued /\ CancelThese({t})
      /\ UNCHANGED <<made, holder, mark, match, claims, lobbies, standing, kept, seat, been, checks,
                     lost, tasks, aged, stale, slipped>>
  BY DEF CancelTicket, otherVars, lobbyVars, clockVars
<1>2. PICK ts \in SUBSET Queued : ts = {t}
  BY <1>1
<1> QED BY <1>1, <1>2, CancelThem

\* Those who are out are cancelled; the others are still held, to go back.
LEMMA DiscardStep ==
  ASSUME IInv, NEW t \in tasks, Discard(t)
  PROVE  IInv'
<1>1. t \in Holders /\ t.op = "discard" /\ t \in Dropping /\ TaskOK(t) /\ TypeOK
      /\ Made \subseteq Tickets
  BY HoldersTyped, TaskKinds, MadeTickets DEF Holders, IInv, Local, TasksOK, Discard
<1>2. Held(t) = t.held \cup t.out /\ t.held \in Claimed /\ t.held \cap t.out = {}
  BY <1>1, HeldNow DEF Dropping, TaskOK
<1>3. PICK n : n = [op |-> "requeue", held |-> t.held]
  OBVIOUS
<1>4. n.op = "requeue" /\ n.held = t.held /\ n \in Tasks /\ TaskOK(n)
  BY <1>2, <1>3 DEF Tasks, Holding, TaskOK
<1>5. /\ Continue(t, {n})
      /\ UNCHANGED <<made, holder, mark, match, claims, lobbies, standing, kept, seat, been, checks,
                     lost, aged, stale, slipped>>
  BY <1>3 DEF Discard, otherVars, lobbyVars, clockVars
<1>6. HeldByClaim(t.out) = TicketsIn(t.out)
  BY <1>1, <1>2, StillHeld
<1>7. status' = [s \in Tickets |-> IF s \in TicketsIn(t.out) THEN "cancelled" ELSE status[s]]
  BY <1>6 DEF Discard, CancelThese
<1>8. Holders' = (Holders \ {t}) \cup {n} /\ \A x : Held(x)' = Held(x)
  BY <1>5, Continued
<1>9. tasks' = (tasks \ {t}) \cup {n}
  BY <1>5 DEF Continue
<1>10. Held(n)' = t.held /\ Held(n) = t.held
  BY <1>4, HeldNow, HeldNext
<1>11. ASSUME NEW h \in Held(t)
       PROVE  /\ h[1] \in Made /\ h[1] \in Tickets /\ h = <<h[1], mark[h[1]]>> /\ Mine(h)
              /\ mark[h[1]] # 0
  BY <1>1, HeldRow DEF Mine, IInv, Local, Rows
<1>12. \A h \in t.held : h[1] \notin TicketsIn(t.out)
  <2>1. ASSUME NEW h \in t.held, NEW g \in t.out, g[1] = h[1] PROVE FALSE
    <3>1. g = h
      BY <1>2, <1>11, <2>1
    <3> QED BY <1>2, <3>1
  <2> QED BY <2>1 DEF TicketsIn
<1>13. Local'
  <2>1. TypeOK'
    BY <1>1, <1>4, <1>5, <1>7, <1>9 DEF TypeOK
  <2>2. \A s \in TicketsIn(t.out) : mark[s] # 0 /\ s \in Made
    BY <1>2, <1>11 DEF TicketsIn
  <2>3. Rows'
    BY <1>5, <1>7, <2>2 DEF IInv, Local, Rows, Made
  <2> QED BY <1>4, <1>5, <1>9, <2>1, <2>3
          DEF IInv, Local, LostOnce, ChecksOK, AskedMade, Made, TasksOK, TaskOK
<1>14. Ownership'
  <2>1. ASSUME NEW x \in Holders \ {t}, NEW h \in Held(x) PROVE Mine(h)'
    <3>1. h[1] \in Tickets /\ Mine(h) /\ h[1] \notin TicketsIn(Held(t))
      BY <1>1, <2>1, Apart, HeldRow
    <3>2. h[1] \notin TicketsIn(t.out)
      BY <1>2, <3>1 DEF TicketsIn
    <3> QED BY <1>5, <1>7, <3>1, <3>2 DEF Mine
  <2>2. ASSUME NEW h \in Held(n)' PROVE Mine(h)' /\ h \in Held(t)
    BY <1>2, <1>5, <1>7, <1>10, <1>11, <1>12 DEF Mine
  <2>3. HoldTheirs'
    BY <1>8, <2>1, <2>2 DEF HoldTheirs
  <2>4. HoldAlone'
    <3>1. ASSUME NEW x \in Holders \ {t}, NEW h \in Held(x) PROVE h \notin Held(n)'
      BY <1>1, <2>2, <3>1 DEF IInv, Ownership, HoldAlone
    <3>2. ASSUME NEW x \in Holders', NEW y \in Holders', NEW h \in Held(x)', h \in Held(y)'
          PROVE  x = y
      <4>1. CASE x = n \/ y = n
        BY <1>8, <3>1, <3>2, <4>1
      <4>2. CASE x # n /\ y # n
        BY <1>8, <3>2, <4>2 DEF IInv, Ownership, HoldAlone
      <4> QED BY <4>1, <4>2
    <3> QED BY <3>2 DEF HoldAlone
  <2>5. AllHeld'
    <3>1. ASSUME NEW s \in Made', Undecided(s)', ~Lost(s)'
          PROVE  \E x \in Holders' : <<s, mark'[s]>> \in Held(x)'
      <4>1. s \in Made /\ s \in Tickets /\ s \notin TicketsIn(t.out) /\ Undecided(s) /\ ~Lost(s)
        BY <1>1, <1>5, <1>7, <3>1 DEF Undecided, Lost, Made
      <4>2. PICK x \in Holders : <<s, mark[s]>> \in Held(x)
        BY <4>1 DEF IInv, Ownership, AllHeld
      <4>3. CASE x = t
        <5>1. <<s, mark[s]>> \in t.held
          BY <1>2, <4>1, <4>2, <4>3 DEF TicketsIn
        <5> QED BY <1>5, <1>8, <1>10, <5>1
      <4>4. CASE x # t
        BY <1>5, <1>8, <4>2, <4>4
      <4> QED BY <4>3, <4>4
    <3> QED BY <3>1 DEF AllHeld
  <2> QED BY <2>3, <2>4, <2>5 DEF Ownership
<1>15. Waits'
  <2>1. \A s : (Asking(s)' = Asking(s)) /\ (\A c : StaysIn(s, c)' <=> StaysIn(s, c))
    BY <1>5 DEF Asking, StaysIn
  <2>2. \A s \in Made : Waiting(s)' => Waiting(s)
    BY <1>1, <1>5, <1>7, <2>1 DEF Waiting, Undecided, Lost
  <2>3. Queued' \subseteq Queued
    BY <1>1, <1>5, <1>7 DEF Queued, Made
  <2>4. \A h \in Held(n)' : \A c \in Asking(h[1]) : StaysIn(h[1], c)
    BY <1>1, <1>2, <1>10 DEF IInv, Waits, HeldIn, Settlement
  <2>5. QueuedIn' /\ HeldIn'
    BY <1>8, <2>1, <2>3, <2>4 DEF IInv, Waits, QueuedIn, HeldIn
  <2>6. Joins' \subseteq Joins
    BY <1>4, <1>9 DEF Joins
  <2> QED BY <1>5, <2>2, <2>5, <2>6, WaitsShrink DEF IInv, Waits
<1>16. Matches'
  BY <1>1, <1>4, <1>5, <1>8, <1>9, MatchesSame DEF IInv, Seats
<1> QED BY <1>13, <1>14, <1>15, <1>16 DEF IInv

\* All of a claim goes back, or the unique index refuses one, and all of it is lost.
LEMMA RequeueStep ==
  ASSUME IInv, NEW t \in tasks, Requeue(t)
  PROVE  IInv'
<1> DEFINE back == TicketsIn(t.held)
<1>1. t \in Holders /\ t.op = "requeue" /\ t \in Holding /\ TypeOK /\ Made \subseteq Tickets
  BY HoldersTyped, TaskKinds, MadeTickets DEF Holders, IInv, Local, Requeue
<1>2. Held(t) = t.held /\ t.held \in Claimed
  BY <1>1, HeldNow DEF Holding
<1>3. HeldByClaim(t.held) = back
  BY <1>1, <1>2, StillHeld
<1>4. ASSUME NEW h \in Held(t)
      PROVE  /\ h[1] \in Made /\ h[1] \in Tickets /\ h = <<h[1], mark[h[1]]>> /\ Mine(h)
             /\ mark[h[1]] # 0 /\ match[h[1]] = 0 /\ Undecided(h[1]) /\ ~Lost(h[1])
             /\ \A c \in Asking(h[1]) : StaysIn(h[1], c)
  BY <1>1, HeldRow DEF Mine, IInv, Local, Rows, Waits, HeldIn, Settlement
<1>5. ASSUME NEW s \in back
      PROVE  /\ s \in Made /\ s \in Tickets /\ mark[s] # 0 /\ match[s] = 0 /\ Waiting(s) /\ ~Lost(s)
             /\ <<s, mark[s]>> \in Held(t) /\ \A c \in Asking(s) : StaysIn(s, c)
  <2>1. PICK h \in Held(t) : h[1] = s
    BY <1>2, <1>5 DEF TicketsIn
  <2> QED BY <1>4, <2>1 DEF Waiting, StaysIn, In
<1> HIDE DEF back
<1>6. CASE ~OneQueuedEach(back)
  <2>1. /\ lost' = lost \cup Held(t) /\ Continue(t, {})
        /\ UNCHANGED <<ticketVars, claims, lobbyVars, checks, aged, stale, slipped>>
    BY <1>2, <1>3, <1>6 DEF Requeue, ticketVars, clockVars
  <2> QED BY <2>1, Dropped
<1> SUFFICES ASSUME OneQueuedEach(back) PROVE IInv'
  BY <1>6
<1>7. /\ status' = [s \in Tickets |-> IF s \in back THEN "queued" ELSE status[s]]
      /\ mark' = [s \in Tickets |-> IF s \in back THEN 0 ELSE mark[s]]
      /\ match' = [s \in Tickets |-> IF s \in back THEN 0 ELSE match[s]]
      /\ Continue(t, {})
      /\ UNCHANGED <<made, holder, claims, lobbies, standing, kept, seat, been, checks,
                     lost, aged, stale, slipped>>
  BY <1>3 DEF Requeue, lobbyVars, clockVars
<1>8. Holders' = Holders \ {t} /\ \A x : Held(x)' = Held(x)
  BY <1>7, Continued
<1>9. tasks' = tasks \ {t}
  BY <1>7 DEF Continue
<1>10. Local'
  <2>1. TypeOK'
    BY <1>1, <1>7, <1>9, Bounds DEF TypeOK, Gone
  <2>2. Rows'
    BY <1>5, <1>7 DEF IInv, Local, Rows, Made
  <2> QED BY <1>7, <1>9, <2>1, <2>2
          DEF IInv, Local, LostOnce, ChecksOK, AskedMade, Made, TasksOK, TaskOK
<1>11. Ownership'
  <2>1. ASSUME NEW x \in Holders \ {t}, NEW h \in Held(x) PROVE Mine(h)'
    <3>1. h[1] \in Tickets /\ Mine(h) /\ h[1] \notin back
      BY <1>1, <1>2, <2>1, Apart, HeldRow DEF back
    <3> QED BY <1>7, <3>1 DEF Mine
  <2>2. ASSUME NEW s \in Made', Undecided(s)', ~Lost(s)'
        PROVE  /\ s \in Made /\ Undecided(s) /\ ~Lost(s) /\ mark'[s] = mark[s]
               /\ <<s, mark[s]>> \notin Held(t)
    <3>1. s \in Made /\ s \in Tickets /\ s \notin back
      BY <1>1, <1>7, <2>2 DEF Undecided, Made
    <3>2. <<s, mark[s]>> \notin Held(t)
      BY <1>2, <3>1 DEF TicketsIn, back
    <3> QED BY <1>7, <2>2, <3>1, <3>2 DEF Undecided, Lost
  <2>3. LetsGo({t})
    BY <1>8, <2>1, <2>2 DEF LetsGo
  <2> QED BY <2>3, LetGo
<1>12. Waits'
  <2>1. \A s : (Asking(s)' = Asking(s)) /\ (\A c : StaysIn(s, c)' <=> StaysIn(s, c))
    BY <1>7 DEF Asking, StaysIn
  <2>2. \A s \in Made : Waiting(s)' => Waiting(s)
    <3>1. ASSUME NEW s \in Made, s \notin back PROVE Waiting(s)' => Waiting(s)
      BY <1>1, <1>7, <2>1, <3>1 DEF Waiting, Undecided, Lost
    <3> QED BY <1>5, <3>1
  <2>3. Queued' \subseteq Queued \cup back
    BY <1>1, <1>7 DEF Queued, Made
  <2>4. QueuedIn'
    BY <1>5, <2>1, <2>3 DEF IInv, Waits, QueuedIn
  <2>5. HeldIn'
    BY <1>8, <2>1 DEF IInv, Waits, HeldIn
  <2>6. Joins' \subseteq Joins
    BY <1>9 DEF Joins
  <2> QED BY <1>7, <2>2, <2>4, <2>5, <2>6, WaitsShrink DEF IInv, Waits
<1>13. Matches'
  <2>1. ASSUME NEW s \in Made, mark'[s] # 0 PROVE s \notin back /\ mark'[s] = mark[s] /\ match'[s] = match[s]
    BY <1>1, <1>7, <2>1
  <2>2. Whole'
    <3>1. ASSUME NEW x \in Holders \ {t}, Seats(x), NEW h \in Held(x), NEW s \in Made, mark'[s] = h[2]
          PROVE  <<s, mark'[s]>> \in Held(x)
      <4>1. h[2] # 0
        BY <1>1, HeldPairs, Bounds
      <4>2. mark'[s] = mark[s]
        BY <2>1, <3>1, <4>1
      <4> QED BY <3>1, <4>2 DEF IInv, Matches, Whole, HoldsAll
    <3> QED BY <1>7, <1>8, <3>1 DEF Whole, Seats, HoldsAll, Made
  <2>3. SeatsOK'
    BY <1>7, <1>9 DEF IInv, Matches, SeatsOK, SeatOK, PlacesIn, TicketsIn
  <2>4. ASSUME NEW v \in Users, seat[v] \in Lobbies, Seated(v) PROVE Seated(v)'
    <3>1. CASE \E s \in TicketsOf({v}) : match[s] = seat[v] \/ Lost(s)
      <4>1. PICK s \in TicketsOf({v}) : match[s] = seat[v] \/ Lost(s)
        BY <3>1
      <4>2. s \in Tickets /\ s \in TicketsOf({v})'
        BY <1>1, <1>7 DEF TicketsOf, Made
      <4>3. s \notin back
        <5>1. seat[v] # 0
          BY <2>4, Bounds DEF Lobbies
        <5> QED BY <1>5, <4>1, <5>1
      <4>4. match'[s] = seat'[v] \/ Lost(s)'
        BY <1>7, <4>1, <4>2, <4>3 DEF Lost
      <4> QED BY <4>2, <4>4 DEF Seated
    <3>2. CASE \E x \in tasks : x.op = "seat" /\ x.lobby = seat[v] /\ v \in PlacesIn(x)
      <4>1. PICK x \in tasks : x.op = "seat" /\ x.lobby = seat[v] /\ v \in PlacesIn(x)
        BY <3>2
      <4>2. x \in tasks' /\ PlacesIn(x)' = PlacesIn(x)
        BY <1>1, <1>7, <1>9, <4>1 DEF PlacesIn, TicketsIn
      <4> QED BY <1>7, <4>1, <4>2 DEF Seated
    <3> QED BY <2>4, <3>1, <3>2 DEF Seated
  <2>5. SeatedOK'
    BY <1>7, <2>4 DEF IInv, Matches, SeatedOK
  <2>6. ASSUME NEW a \in Made, NEW s \in Made, match'[a] \in Lobbies, mark'[s] = mark'[a]
        PROVE  match'[s] = match'[a] /\ <<holder[s], match'[a]>> \in been
    <3>1. a \notin back /\ match'[a] = match[a] /\ mark'[a] = mark[a]
      BY <1>1, <1>7, <2>6 DEF Lobbies
    <3>2. mark[a] # 0
      BY <1>1, <2>6, <3>1 DEF IInv, Local, Rows, Lobbies
    <3>3. mark'[s] = mark[s] /\ match'[s] = match[s]
      BY <2>1, <2>6, <3>1, <3>2
    <3> QED BY <2>6, <3>1, <3>3 DEF IInv, Matches, MatchesWhole
  <2>7. MatchesWhole'
    BY <1>7, <2>6 DEF MatchesWhole, Made
  <2> QED BY <2>2, <2>3, <2>5, <2>7 DEF Matches
<1> QED BY <1>10, <1>11, <1>12, <1>13 DEF IInv

\* A claim that finds a ticket taken changes no ticket.
LEMMA NoClaim ==
  ASSUME IInv, NEW t \in tasks, Claim(t), ~(t.group \subseteq Queued /\ claims < MaxClaims)
  PROVE  IInv'
<1>1. t \in Holders /\ t.op = "claim" /\ TypeOK /\ Held(t) = {}
  BY HoldersTyped, HeldNow DEF Holders, IInv, Local, Claim
<1>2. /\ Continue(t, {}) /\ UNCHANGED <<made, holder, match, claims, lobbies, standing, kept, seat, been, checks,
                     lost, aged, stale, slipped>>
      /\ status' = [s \in Tickets |-> IF s \in PutBack(t.group) THEN "queued" ELSE status[s]]
      /\ mark' = [s \in Tickets |-> IF s \in PutBack(t.group) THEN 0 ELSE mark[s]]
  BY DEF Claim, lobbyVars, clockVars
<1>3. \A s \in Tickets : s \in PutBack(t.group) => status[s] = "queued" /\ mark[s] = 0
  BY DEF PutBack, Queued, IInv, Local, Rows
<1>4. status' = status /\ mark' = mark
  BY <1>1, <1>2, <1>3 DEF TypeOK
<1>5. Holders' = Holders \ {t} /\ \A x : Held(x)' = Held(x)
  BY <1>2, Continued
<1>6. tasks' = tasks \ {t}
  BY <1>2 DEF Continue
<1> USE DEF ticketVars, lobbyVars
<1>7. Local'
  BY <1>2, <1>4, <1>6, LocalSame DEF IInv
<1>8. Ownership'
  BY <1>1, <1>2, <1>4, <1>5, HandsFree DEF IInv
<1>9. Waits'
  BY <1>2, <1>4, <1>5, <1>6, WaitsSame DEF KeepsRows, Joins
<1>10. Matches'
  BY <1>1, <1>2, <1>4, <1>5, <1>6, MatchesSame DEF IInv
<1> QED BY <1>7, <1>8, <1>9, <1>10 DEF IInv

\* A group is claimed: its tickets carry a mark nobody has had.
LEMMA ClaimStep ==
  ASSUME IInv, NEW t \in tasks, Claim(t), t.group \subseteq Queued, claims < MaxClaims
  PROVE  IInv'
<1> DEFINE group == t.group
<1>1. t \in Holders /\ t.op = "claim" /\ t \in Forming /\ TypeOK /\ Held(t) = {}
      /\ Made \subseteq Tickets
  BY HoldersTyped, HeldNow, TaskKinds, MadeTickets DEF Holders, IInv, Local, Claim
<1>2. PICK new : new = claims + 1
  OBVIOUS
<1>3. new \in 1..MaxClaims /\ new > claims /\ claims \in Nat
  BY <1>1, <1>2, Bounds DEF TypeOK
<1>4. PICK n : n = [op |-> "start", held |-> group \X {new}]
  OBVIOUS
<1>5. /\ Continue(t, {n}) /\ claims' = new
      /\ UNCHANGED <<made, holder, match, lobbies, standing, kept, seat, been, checks,
                     lost, aged, stale, slipped>>
      /\ status' = [s \in Tickets |-> IF s \in group THEN "matched" ELSE status[s]]
      /\ mark' = [s \in Tickets |-> IF s \in group THEN new ELSE mark[s]]
  BY <1>2, <1>4 DEF Claim, lobbyVars, clockVars
<1>6. group \subseteq Tickets /\ \A s \in group : /\ s \in Made /\ s \in Queued /\ status[s] = "queued"
                                                  /\ mark[s] = 0 /\ match[s] = 0
  BY <1>1 DEF Queued, IInv, Local, Rows
<1> HIDE DEF group
<1>7. n.op = "start" /\ n.held = group \X {new} /\ n.held \in Claimed
  BY <1>3, <1>4, <1>6 DEF Claimed
<1>8. n \in Tasks /\ TaskOK(n)
  BY <1>4, <1>7 DEF Tasks, Holding, TaskOK
<1>9. Holders' = (Holders \ {t}) \cup {n} /\ \A x : Held(x)' = Held(x)
  BY <1>5, Continued
<1>10. tasks' = (tasks \ {t}) \cup {n}
  BY <1>5 DEF Continue
<1>11. Held(n) = group \X {new} /\ Held(n)' = group \X {new}
  BY <1>7, HeldNow, HeldNext
<1>12. \A s \in Tickets : mark[s] <= claims /\ mark[s] # new
  BY <1>1, <1>3 DEF TypeOK
<1>13. ASSUME NEW x \in Holders, NEW h \in Held(x)
       PROVE  /\ h[1] \in Tickets /\ h[1] \notin group /\ Mine(h) /\ h[2] # new /\ h[2] = mark[h[1]]
              /\ h[2] # 0
  BY <1>1, <1>6, <1>12, HeldRow, HeldPairs DEF Mine, IInv, Local, Rows
<1>14. Local'
  <2>1. mark' \in [Tickets -> 0..new]
    BY <1>1, <1>3, <1>5 DEF TypeOK
  <2>2. TypeOK'
    BY <1>1, <1>3, <1>5, <1>8, <1>10, <2>1 DEF TypeOK
  <2>3. Rows'
    BY <1>3, <1>5, <1>6 DEF IInv, Local, Rows, Made
  <2>4. LostOnce'
    <3>1. \A h \in lost : h[2] \in 1..MaxClaims
      BY <1>1 DEF TypeOK, Claimed
    <3> QED BY <1>3, <1>5, <3>1, Bounds DEF IInv, Local, LostOnce
  <2> QED BY <1>5, <1>8, <1>10, <2>2, <2>3, <2>4
          DEF IInv, Local, ChecksOK, AskedMade, Made, TasksOK, TaskOK
<1>15. Ownership'
  <2>1. ASSUME NEW x \in Holders, NEW h \in Held(x) PROVE Mine(h)'
    BY <1>5, <1>13 DEF Mine
  <2>2. ASSUME NEW h \in Held(n)' PROVE Mine(h)' /\ h[2] = new
    <3>1. h[1] \in group /\ h[2] = new
      BY <1>11, <2>2
    <3>2. h \notin lost
      BY <1>1, <1>3, <3>1 DEF IInv, Local, LostOnce, TypeOK, Claimed
    <3> QED BY <1>5, <1>6, <3>1, <3>2 DEF Mine
  <2>3. HoldTheirs'
    BY <1>9, <2>1, <2>2 DEF HoldTheirs
  <2>4. HoldAlone'
    <3>1. ASSUME NEW x \in Holders, NEW h \in Held(x) PROVE h \notin Held(n)'
      BY <1>13, <2>2
    <3>2. ASSUME NEW x \in Holders', NEW y \in Holders', NEW h \in Held(x)', h \in Held(y)'
          PROVE  x = y
      <4>1. CASE x = n \/ y = n
        BY <1>9, <3>1, <3>2, <4>1
      <4>2. CASE x # n /\ y # n
        BY <1>9, <3>2, <4>2 DEF IInv, Ownership, HoldAlone
      <4> QED BY <4>1, <4>2
    <3> QED BY <3>2 DEF HoldAlone
  <2>5. AllHeld'
    <3>1. ASSUME NEW s \in Made', Undecided(s)', ~Lost(s)'
          PROVE  \E x \in Holders' : <<s, mark'[s]>> \in Held(x)'
      <4>1. s \in Made /\ s \in Tickets
        BY <1>1, <1>5 DEF Made
      <4>2. CASE s \in group
        BY <1>5, <1>9, <1>11, <4>1, <4>2
      <4>3. CASE s \notin group
        <5>1. Undecided(s) /\ ~Lost(s) /\ mark'[s] = mark[s]
          BY <1>5, <3>1, <4>1, <4>3 DEF Undecided, Lost
        <5>2. PICK x \in Holders : <<s, mark[s]>> \in Held(x)
          BY <4>1, <5>1 DEF IInv, Ownership, AllHeld
        <5> QED BY <1>1, <1>9, <5>1, <5>2
      <4> QED BY <4>2, <4>3
    <3> QED BY <3>1 DEF AllHeld
  <2> QED BY <2>3, <2>4, <2>5 DEF Ownership
<1>16. Waits'
  <2>1. \A s : (Asking(s)' = Asking(s)) /\ (\A c : StaysIn(s, c)' <=> StaysIn(s, c))
    BY <1>5 DEF Asking, StaysIn
  <2>2. \A s \in Made : Waiting(s)' => Waiting(s)
    <3>1. ASSUME NEW s \in Made, s \notin group PROVE Waiting(s)' => Waiting(s)
      BY <1>1, <1>5, <2>1, <3>1 DEF Waiting, Undecided, Lost
    <3> QED BY <1>6, <3>1 DEF Waiting
  <2>3. Queued' \subseteq Queued
    BY <1>1, <1>5 DEF Queued, Made
  <2>4. \A h \in Held(n)' : \A c \in Asking(h[1]) : StaysIn(h[1], c)
    <3>1. \A h \in Held(n)' : h[1] \in Queued
      BY <1>6, <1>11
    <3> QED BY <3>1 DEF IInv, Waits, QueuedIn
  <2>5. QueuedIn' /\ HeldIn'
    BY <1>9, <2>1, <2>3, <2>4 DEF IInv, Waits, QueuedIn, HeldIn
  <2>6. Joins' \subseteq Joins
    BY <1>7, <1>10 DEF Joins
  <2> QED BY <1>5, <2>2, <2>5, <2>6, WaitsShrink DEF IInv, Waits
<1>17. Matches'
  <2>1. ASSUME NEW s \in Made PROVE /\ mark'[s] = new => s \in group
                                    /\ mark'[s] # new => mark'[s] = mark[s] /\ s \notin group
    BY <1>1, <1>5, <1>12
  <2>2. HoldsAll(n)'
    BY <1>5, <1>11, <2>1 DEF HoldsAll, Made
  <2>3. Whole'
    <3>1. ASSUME NEW x \in Holders, Seats(x), NEW h \in Held(x), NEW s \in Made, mark'[s] = h[2]
          PROVE  <<s, mark'[s]>> \in Held(x)
      <4>1. mark'[s] = mark[s]
        BY <1>13, <2>1, <3>1
      <4> QED BY <3>1, <4>1 DEF IInv, Matches, Whole, HoldsAll
    <3>2. \A x \in Holders : Seats(x) => HoldsAll(x)'
      BY <1>5, <1>9, <3>1 DEF HoldsAll, Made
    <3> QED BY <1>9, <2>2, <3>2 DEF Whole, Seats
  <2>4. SeatsOK'
    BY <1>5, <1>7, <1>10 DEF IInv, Matches, SeatsOK, SeatOK, PlacesIn, TicketsIn
  <2>5. ASSUME NEW v \in Users, seat[v] \in Lobbies, Seated(v) PROVE Seated(v)'
    <3>1. CASE \E s \in TicketsOf({v}) : match[s] = seat[v] \/ Lost(s)
      <4>1. PICK s \in TicketsOf({v}) : match[s] = seat[v] \/ Lost(s)
        BY <3>1
      <4>2. s \in Tickets /\ s \in TicketsOf({v})'
        BY <1>1, <1>5 DEF TicketsOf, Made
      <4>3. Lost(s) => s \notin group
        BY <1>1, <1>6 DEF Lost, TypeOK, Claimed
      <4>4. match'[s] = seat'[v] \/ Lost(s)'
        BY <1>5, <4>1, <4>2, <4>3 DEF Lost
      <4> QED BY <4>2, <4>4 DEF Seated
    <3>2. CASE \E x \in tasks : x.op = "seat" /\ x.lobby = seat[v] /\ v \in PlacesIn(x)
      <4>1. PICK x \in tasks : x.op = "seat" /\ x.lobby = seat[v] /\ v \in PlacesIn(x)
        BY <3>2
      <4>2. x \in tasks' /\ PlacesIn(x)' = PlacesIn(x)
        BY <1>1, <1>5, <1>10, <4>1 DEF PlacesIn, TicketsIn
      <4> QED BY <1>5, <4>1, <4>2 DEF Seated
    <3> QED BY <2>5, <3>1, <3>2 DEF Seated
  <2>6. SeatedOK'
    BY <1>5, <2>5 DEF IInv, Matches, SeatedOK
  <2>7. ASSUME NEW a \in Made, NEW s \in Made, match[a] \in Lobbies, mark'[s] = mark'[a]
        PROVE  match[s] = match[a] /\ <<holder[s], match[a]>> \in been
    <3>1. a \notin group
      BY <1>6, <2>7, Bounds DEF Lobbies
    <3>2. mark'[a] = mark[a] /\ mark'[s] = mark[s]
      BY <1>1, <1>5, <1>12, <2>1, <2>7, <3>1
    <3> QED BY <2>7, <3>2 DEF IInv, Matches, MatchesWhole
  <2>8. MatchesWhole'
    BY <1>5, <2>7 DEF MatchesWhole, Made
  <2> QED BY <2>3, <2>4, <2>6, <2>8 DEF Matches
<1> QED BY <1>14, <1>15, <1>16, <1>17 DEF IInv

\* What the transaction inserts is a ticket for each of the party, and only one.
Seating1to1(m, of, us) ==
  /\ of \in [m + 1 .. m + Cardinality(us) -> us]
  /\ \A u \in us : \E i \in DOMAIN of : of[i] = u

\* There is a ticket for each of them, ...
LEMMA SeatingExists ==
  ASSUME NEW m \in Nat, NEW us, IsFiniteSet(us)
  PROVE  \E of : Seating1to1(m, of, us)
<1> DEFINE n == Cardinality(us)
<1>1. n \in Nat /\ ExistsBijection(1..n, us)
  BY FS_CardinalityType
<1> HIDE DEF n
<1>2. PICK f \in Bijection(1..n, us) : TRUE
  BY <1>1 DEF ExistsBijection
<1>3. f \in [1..n -> us] /\ \A u \in us : \E i \in 1..n : f[i] = u
  BY <1>2 DEF Bijection, Surjection, Injection
<1> DEFINE of == [i \in m + 1 .. m + n |-> f[i - m]]
<1>4. \A i \in m + 1 .. m + n : i - m \in 1..n
  BY <1>1
<1>5. of \in [m + 1 .. m + n -> us]
  BY <1>3, <1>4
<1>6. ASSUME NEW u \in us PROVE \E i \in DOMAIN of : of[i] = u
  <2>1. PICK j \in 1..n : f[j] = u
    BY <1>3
  <2>2. j + m \in m + 1 .. m + n /\ (j + m) - m = j
    BY <1>1
  <2>3. of[j + m] = f[j]
    BY <2>2
  <2> QED BY <1>5, <2>1, <2>2, <2>3
<1> QED BY <1>5, <1>6 DEF Seating1to1, n

\* ... and never two.
LEMMA SeatingInjective ==
  ASSUME NEW m \in Nat, NEW us, IsFiniteSet(us), NEW of, Seating1to1(m, of, us)
  PROVE  \A i, j \in m + 1 .. m + Cardinality(us) : of[i] = of[j] => i = j
<1>1. Cardinality(us) \in Nat
  BY FS_CardinalityType
<1>2. IsFiniteSet(m + 1 .. m + Cardinality(us))
      /\ Cardinality(m + 1 .. m + Cardinality(us)) = Cardinality(us)
  <2>1. PICK n \in Nat : n = Cardinality(us)
    BY <1>1
  <2>2. m + 1 \in Int /\ m + n \in Int /\ (IF m + 1 > m + n THEN 0 ELSE (m + n) - (m + 1) + 1) = n
    OBVIOUS
  <2>3. IsFiniteSet(m + 1 .. m + n) /\ Cardinality(m + 1 .. m + n) = n
    BY <2>2, FS_Interval
  <2> QED BY <2>1, <2>3
<1>3. of \in Surjection(m + 1 .. m + Cardinality(us), us)
  BY DEF Seating1to1, Surjection
<1>4. of \in Injection(m + 1 .. m + Cardinality(us), us)
  BY <1>2, <1>3, FS_Surjection
<1>5. \A i \in m + 1 .. m + Cardinality(us) : \A j \in m + 1 .. m + Cardinality(us) :
        of[i] = of[j] => i = j
  BY <1>4 DEF Injection, IsInjective
<1> QED BY <1>5

\* The new tickets are queued, by players who waited on nothing.
LEMMA InsertSome ==
  ASSUME IInv, NEW t \in tasks, t.op = "join", NEW n, n = Cardinality(t.users),
         NEW of, Seating1to1(made, of, t.users), made + n <= MaxTickets,
         made' = made + n,
         holder' = [i \in 1..made + n |-> IF i <= made THEN holder[i] ELSE of[i]],
         status' = [i \in Tickets |-> IF i \in DOMAIN of THEN "queued" ELSE status[i]],
         UNCHANGED <<mark, match, claims, lobbies, standing, kept, seat, been, checks,
                     lost, aged, stale, slipped>>,
         Continue(t, {})
  PROVE  IInv'
<1> DEFINE new == made + 1 .. made + n
<1>1. t \in Holders /\ t \in Joining /\ TypeOK /\ Held(t) = {} /\ Made \subseteq Tickets /\ made \in Nat
  <2>1. TypeOK /\ t \in Holders
    BY DEF IInv, Local, Holders
  <2>2. t \in Joining
    BY <2>1, HoldersTyped, TaskKinds
  <2>3. Held(t) = {}
    BY HeldNow
  <2>4. Made \subseteq Tickets /\ made \in Nat
    BY <2>1, MadeTickets DEF TypeOK
  <2> QED BY <2>1, <2>2, <2>3, <2>4
<1>2. IsFiniteSet(t.users) /\ t.users \subseteq Users /\ n \in Nat
  BY <1>1, UsersAssumption, FS_Subset, FS_CardinalityType DEF Joining
<1>3. /\ of \in [new -> t.users] /\ DOMAIN of = new
      /\ \A i \in new : \A j \in new : of[i] = of[j] => i = j
  <2>1. of \in [new -> t.users] /\ DOMAIN of = new
    BY DEF Seating1to1
  <2>2. \A i, j \in made + 1 .. made + Cardinality(t.users) : of[i] = of[j] => i = j
    BY <1>1, <1>2, SeatingInjective
  <2> QED BY <2>1, <2>2
<1>4. /\ new \subseteq Tickets /\ Made' = Made \cup new
      /\ \A s \in Made : s \notin new /\ s <= made
      /\ \A s \in new : ~(s <= made)
  BY <1>1, <1>2, Bounds DEF Made, Tickets
<1> HIDE DEF new
<1>5. /\ \A s \in Made : holder'[s] = holder[s] /\ status'[s] = status[s]
      /\ \A s \in new : /\ holder'[s] = of[s] /\ holder'[s] \in t.users /\ status'[s] = "queued"
                        /\ mark[s] = 0 /\ match[s] = 0 /\ status[s] = "none"
  <2>1. \A s \in Made' : holder'[s] = IF s <= made THEN holder[s] ELSE of[s]
    BY DEF Made
  <2>2. \A s \in new : status[s] = "none" /\ mark[s] = 0 /\ match[s] = 0
    BY <1>4 DEF IInv, Local, Rows, Made
  <2> QED BY <1>1, <1>3, <1>4, <2>1, <2>2
<1>6. Holders' = Holders \ {t} /\ \A x : Held(x)' = Held(x)
  BY Continued
<1>7. tasks' = tasks \ {t}
  BY DEF Continue
<1>8. ASSUME NEW x \in Holders, NEW h \in Held(x)
      PROVE  /\ h[1] \in Made /\ h[1] \in Tickets /\ Mine(h) /\ h[2] # 0 /\ h[2] = mark[h[1]]
  BY <1>1, HeldRow, HeldPairs DEF Mine, IInv, Local, Rows
<1>9. \A s : (Asking(s)' = Asking(s)) /\ (\A c : StaysIn(s, c)' <=> StaysIn(s, c))
  BY DEF Asking, StaysIn
<1>10. \A s \in new : Asking(s) = {}
  <2>1. \A c \in 1..MaxChecks : TicketsIn(checks[c].asked) \subseteq Made
    BY DEF IInv, Local, AskedMade
  <2> QED BY <1>4, <2>1 DEF Asking
<1>11. \A s \in Made : Waiting(s)' => Waiting(s)
  BY <1>1, <1>5, <1>9 DEF Waiting, Undecided, Lost
<1>12. Local'
  <2>1. holder' \in [1..made' -> Users]
    <3>1. DOMAIN holder' = 1..made' /\ 1..made' = Made \cup new
      BY <1>4 DEF Made
    <3>2. \A s \in 1..made' : holder'[s] \in Users
      BY <1>1, <1>2, <1>5, <3>1 DEF TypeOK, Made
    <3> QED BY <3>1, <3>2
  <2>2. status' \in [Tickets -> {"none", "queued", "matched", "cancelled"}]
    BY <1>1 DEF TypeOK
  <2>3. made' \in 0..MaxTickets
    BY <1>1, <1>2, Bounds
  <2>4. TypeOK'
    BY <1>1, <1>7, <2>1, <2>2, <2>3 DEF TypeOK
  <2>5. Rows'
    <3>1. ASSUME NEW s \in Tickets PROVE s \in new \/ (status'[s] = status[s] /\ (s \in Made' <=> s \in Made))
      BY <1>3, <1>4
    <3> QED BY <1>4, <1>5, <3>1 DEF IInv, Local, Rows
  <2>6. AskedMade'
    BY <1>4 DEF IInv, Local, AskedMade
  <2> QED BY <1>7, <2>4, <2>5, <2>6 DEF IInv, Local, LostOnce, ChecksOK, TasksOK, TaskOK
<1>13. Ownership'
  <2>1. ASSUME NEW x \in Holders, NEW h \in Held(x) PROVE Mine(h)'
    BY <1>5, <1>8 DEF Mine
  <2>2. ASSUME NEW s \in Made', Undecided(s)', ~Lost(s)'
        PROVE  s \in Made /\ Undecided(s) /\ ~Lost(s) /\ mark'[s] = mark[s]
    BY <1>4, <1>5, <2>2 DEF Undecided, Lost
  <2>3. LetsGo({t})
    BY <1>1, <1>6, <2>1, <2>2 DEF LetsGo
  <2> QED BY <2>3, LetGo
<1>14. Waits'
  <2>1. Queued' \subseteq Queued \cup new
    BY <1>4, <1>5 DEF Queued
  <2>2. QueuedIn'
    BY <1>9, <1>10, <2>1 DEF IInv, Waits, QueuedIn
  <2>3. HeldIn'
    BY <1>6, <1>9 DEF IInv, Waits, HeldIn
  <2>4. Joins' = Joins \ {t} /\ t \in Joins
    BY <1>7 DEF Joins
  <2>5. ASSUME OneJoin PROVE Alone'
    <3>1. Alone
      BY <2>5 DEF IInv, Waits
    <3>2. JoinsApart'
      BY <2>4, <3>1 DEF Alone, JoinsApart
    <3>3. JoinsClear'
      <4>1. ASSUME NEW x \in Joins \ {t}, NEW s \in Made', holder'[s] \in x.users
            PROVE  ~Waiting(s)' \/ s \in slipped'
        <5>1. x.users \cap t.users = {}
          BY <2>4, <3>1 DEF Alone, JoinsApart
        <5>2. s \in Made /\ holder[s] \in x.users
          BY <1>4, <1>5, <4>1, <5>1
        <5>3. ~Waiting(s) \/ s \in slipped
          BY <3>1, <5>2 DEF Alone, JoinsClear, TicketsOf
        <5> QED BY <1>11, <5>2, <5>3
      <4> QED BY <2>4, <4>1 DEF JoinsClear, TicketsOf
    <3>4. OneTicketEach'
      <4>1. ASSUME NEW a \in Made, NEW s \in new, holder'[a] = holder'[s]
            PROVE  ~Waiting(a)' \/ a \in slipped'
        <5>1. a \in TicketsOf(t.users)
          BY <1>5, <4>1 DEF TicketsOf
        <5>2. ~Waiting(a) \/ a \in slipped
          BY <2>4, <3>1, <5>1 DEF Alone, JoinsClear
        <5> QED BY <1>11, <5>2
      <4>2. ASSUME NEW a \in new, NEW s \in new, holder'[a] = holder'[s] PROVE a = s
        <5>1. holder'[a] = of[a] /\ holder'[s] = of[s]
          BY <1>5
        <5>2. of[a] = of[s]
          BY <4>2, <5>1
        <5> QED BY <1>3, <5>2
      <4>3. ASSUME NEW a \in Made, NEW s \in Made, a # s, holder'[a] = holder'[s],
                   Waiting(a)', Waiting(s)'
            PROVE  a \in slipped' \/ s \in slipped'
        <5>1. holder[a] = holder[s]
          BY <1>5, <4>3
        <5>2. Waiting(a) /\ Waiting(s)
          BY <1>11, <4>3
        <5> QED BY <3>1, <4>3, <5>1, <5>2 DEF Alone, OneTicketEach
      <4> QED BY <1>4, <4>1, <4>2, <4>3 DEF OneTicketEach
    <3> QED BY <3>2, <3>3, <3>4 DEF Alone
  <2> QED BY <2>2, <2>3, <2>5 DEF Waits
<1>15. Matches'
  <2>1. Whole'
    <3>1. ASSUME NEW x \in Holders, Seats(x), NEW h \in Held(x), NEW s \in Made', mark[s] = h[2]
          PROVE  <<s, mark[s]>> \in Held(x)
      <4>1. h[2] # 0 /\ s \in Made \cup new
        BY <1>4, <1>8, <3>1
      <4>2. s \notin new
        BY <1>5, <3>1, <4>1
      <4> QED BY <3>1, <4>1, <4>2 DEF IInv, Matches, Whole, HoldsAll
    <3> QED BY <1>6, <3>1 DEF Whole, Seats, HoldsAll
  <2>2. ASSUME NEW x \in tasks, x.op = "seat" PROVE PlacesIn(x)' = PlacesIn(x)
    <3>1. Held(x) = x.held /\ x \in Holders
      BY <2>2, HeldNow DEF Holders
    <3>2. ASSUME NEW s \in TicketsIn(x.held) PROVE holder'[s] = holder[s]
      <4>1. PICK h \in Held(x) : s = h[1]
        BY <3>1, <3>2 DEF TicketsIn
      <4>2. s \in Made
        BY <1>8, <3>1, <4>1
      <4> QED BY <1>5, <4>2
    <3> QED BY <3>2 DEF PlacesIn, TicketsIn
  <2>3. SeatsOK'
    BY <1>7, <2>2 DEF IInv, Matches, SeatsOK, SeatOK
  <2>4. ASSUME NEW v \in Users, seat[v] \in Lobbies, Seated(v) PROVE Seated(v)'
    <3>1. CASE \E s \in TicketsOf({v}) : match[s] = seat[v] \/ Lost(s)
      <4>1. PICK s \in TicketsOf({v}) : match[s] = seat[v] \/ Lost(s)
        BY <3>1
      <4>2. s \in TicketsOf({v})'
        BY <1>4, <1>5 DEF TicketsOf
      <4> QED BY <4>1, <4>2 DEF Seated, Lost
    <3>2. CASE \E x \in tasks : x.op = "seat" /\ x.lobby = seat[v] /\ v \in PlacesIn(x)
      BY <1>7, <2>2, <3>2 DEF Seated
    <3> QED BY <2>4, <3>1, <3>2 DEF Seated
  <2>5. SeatedOK'
    BY <2>4 DEF IInv, Matches, SeatedOK
  <2>6. ASSUME NEW a \in Made', NEW s \in Made', match[a] \in Lobbies, mark[s] = mark[a]
        PROVE  match[s] = match[a] /\ <<holder'[s], match[a]>> \in been
    <3>1. a \in Made
      BY <1>4, <1>5, <2>6, Bounds DEF Lobbies
    <3>2. mark[a] # 0
      BY <1>1, <2>6, <3>1, Bounds DEF IInv, Local, Rows, Lobbies
    <3>3. s \in Made
      BY <1>4, <1>5, <2>6, <3>2
    <3> QED BY <1>5, <2>6, <3>1, <3>3 DEF IInv, Matches, MatchesWhole
  <2>7. match' = match /\ mark' = mark /\ been' = been
    OBVIOUS
  <2>8. \A a, s \in Made' : match'[a] \in Lobbies /\ mark'[s] = mark'[a] =>
          match'[s] = match'[a] /\ <<holder'[s], match'[a]>> \in been'
    BY <2>6, <2>7
  <2>9. MatchesWhole'
    BY <2>8 DEF MatchesWhole, Lobbies
  <2> QED BY <2>1, <2>3, <2>5, <2>9 DEF Matches
<1> QED BY <1>12, <1>13, <1>14, <1>15 DEF IInv

\* The transaction writes the tickets of the party, or none.
LEMMA InsertStep ==
  ASSUME IInv, NEW t \in tasks, InsertTickets(t)
  PROVE  IInv'
<1> DEFINE n == Cardinality(t.users)
           fits == TicketsOf(t.users) \cap Queued = {} /\ made + n <= MaxTickets
<1>1. t \in Holders /\ t.op = "join" /\ t \in Joining /\ TypeOK /\ Held(t) = {}
  BY HoldersTyped, HeldNow, TaskKinds DEF Holders, IInv, Local, InsertTickets
<1>2. Continue(t, {}) /\ UNCHANGED <<claims, lobbies, standing, kept, seat, been, checks,
                     lost, aged, stale, slipped>>
  BY DEF InsertTickets, otherVars, lobbyVars, clockVars
<1>3. CASE fits
  <2>1. IsFiniteSet(t.users) /\ made \in Nat
    BY <1>1, UsersAssumption, FS_Subset DEF Joining, TypeOK
  <2>2. PICK of : of = CHOOSE f \in [made + 1 .. made + n -> t.users] :
                         \A u \in t.users : \E i \in DOMAIN f : f[i] = u
    OBVIOUS
  <2>3. Seating1to1(made, of, t.users)
    <3>1. \E g : Seating1to1(made, g, t.users)
      BY <2>1, SeatingExists
    <3>2. PICK g : Seating1to1(made, g, t.users)
      BY <3>1
    <3>3. g \in [made + 1 .. made + n -> t.users] /\ \A u \in t.users : \E i \in DOMAIN g : g[i] = u
      BY <3>2 DEF Seating1to1
    <3>4. \E f \in [made + 1 .. made + n -> t.users] : \A u \in t.users : \E i \in DOMAIN f : f[i] = u
      BY <3>3
    <3> QED BY <2>2, <3>4 DEF Seating1to1
  <2>4. /\ made' = made + n
        /\ holder' = [i \in 1..made + n |-> IF i <= made THEN holder[i] ELSE of[i]]
        /\ status' = [i \in Tickets |-> IF i \in DOMAIN of THEN "queued" ELSE status[i]]
        /\ UNCHANGED <<mark, match>>
    BY <1>3, <2>2 DEF InsertTickets
  <2> QED BY <1>1, <1>2, <1>3, <2>3, <2>4, InsertSome
<1>4. CASE ~fits
  <2>1. UNCHANGED ticketVars
    BY <1>4 DEF InsertTickets
  <2>2. Holders' = Holders \ {t} /\ \A x : Held(x)' = Held(x)
    BY <1>2, Continued
  <2>3. tasks' = tasks \ {t}
    BY <1>2 DEF Continue
  <2> USE DEF ticketVars, lobbyVars
  <2>4. Local'
    BY <1>2, <2>1, <2>3, LocalSame DEF IInv
  <2>5. Ownership'
    BY <1>1, <1>2, <2>1, <2>2, HandsFree DEF IInv
  <2>6. Waits'
    BY <1>2, <2>1, <2>2, <2>3, WaitsSame DEF KeepsRows, Joins
  <2>7. Matches'
    BY <1>1, <1>2, <2>1, <2>2, <2>3, MatchesSame DEF IInv
  <2> QED BY <2>4, <2>5, <2>6, <2>7 DEF IInv
<1> QED BY <1>3, <1>4

-----------------------------------------------------------------------------
(* The invariant holds at first, and every step keeps it. *)

\* At first nothing is queued, held, asked or seated.
LEMMA InitIInv == Init => IInv
<1> SUFFICES ASSUME Init PROVE IInv
  OBVIOUS
<1>1. Made = {} /\ tasks = {} /\ lost = {} /\ \A c \in 1..MaxChecks : checks[c] = NoCheck
  BY DEF Init, Made
<1>2. NoCheck \in Checks /\ NoCheck.status = "none" /\ NoCheck.asked = {}
  BY DEF NoCheck, Checks, Answers, Claimed
<1>3. Holders = {}
  BY <1>1, <1>2 DEF Holders, Pending
<1>4. TypeOK
  <2>1. holder \in [1..made -> Users]
    BY DEF Init
  <2>2. /\ made \in 0..MaxTickets /\ claims \in 0..MaxClaims /\ lobbies \in 0..MaxLobbies
        /\ match \in [Tickets -> 0..Gone] /\ mark \in [Tickets -> 0..claims]
        /\ seat \in [Users -> 0..MaxLobbies]
    BY Bounds DEF Init, Gone
  <2>3. /\ status \in [Tickets -> {"none", "queued", "matched", "cancelled"}]
        /\ standing \subseteq 1..lobbies /\ lost \in Claimed /\ been \subseteq Users \X Lobbies
    BY DEF Init, Claimed
  <2>4. checks \in [1..MaxChecks -> Checks] /\ \A t \in tasks : t \in Tasks
    BY <1>2 DEF Init
  <2>5. /\ aged \in 0..claims /\ stale \subseteq 1..MaxChecks /\ kept \subseteq 1..lobbies
        /\ slipped \subseteq Tickets
    BY DEF Init
  <2> QED BY <2>1, <2>2, <2>3, <2>4, <2>5 DEF TypeOK
<1>5. Local
  <2>1. Rows /\ LostOnce /\ TasksOK
    BY <1>1 DEF Init, Rows, LostOnce, TasksOK
  <2>2. ChecksOK /\ AskedMade
    BY <1>1, <1>2 DEF ChecksOK, CheckOK, AskedMade, TicketsIn
  <2> QED BY <1>4, <2>1, <2>2 DEF Local
<1>6. Ownership
  BY <1>1, <1>3 DEF Ownership, HoldTheirs, HoldAlone, AllHeld
<1>7. Waits
  BY <1>1, <1>3 DEF Waits, Alone, QueuedIn, Queued, HeldIn, JoinsApart, JoinsClear, Joins, OneTicketEach
<1>8. Matches
  <2>1. \A u \in Users : seat[u] \notin Lobbies
    BY Bounds DEF Init, Lobbies
  <2> QED BY <1>1, <1>3, <2>1 DEF Matches, Whole, SeatsOK, SeatedOK, MatchesWhole
<1> QED BY <1>5, <1>6, <1>7, <1>8 DEF IInv

\* A step that moves at most the clock keeps it.
LEMMA OnlyClock ==
  ASSUME IInv, aged' \in 0..claims, stale' \subseteq 1..MaxChecks,
         UNCHANGED <<ticketVars, claims, lobbyVars, checks, lost, slipped, tasks>>
  PROVE  IInv'
<1> USE DEF ticketVars, lobbyVars
<1>1. Holders' = Holders /\ \A x : Held(x)' = Held(x)
  BY DEF Holders, Pending, Held
<1>2. Local'
  <2>1. TypeOK'
    BY DEF IInv, Local, TypeOK
  <2>2. Rows' /\ LostOnce' /\ ChecksOK' /\ AskedMade' /\ TasksOK'
    BY DEF IInv, Local, Rows, Made, LostOnce, ChecksOK, AskedMade, TasksOK, TaskOK
  <2> QED BY <2>1, <2>2 DEF Local
<1>3. Ownership'
  <2>1. PICK idle : idle = {}
    OBVIOUS
  <2>2. \A x \in idle : Held(x)' = {} /\ (x \in Holders => Held(x) = {})
    BY <2>1
  <2> QED BY <1>1, <2>1, <2>2, HandsFree DEF IInv
<1>4. Waits'
  BY <1>1, WaitsSame DEF KeepsRows, Joins
<1>5. Matches'
  BY <1>1, MatchesSame DEF IInv
<1> QED BY <1>2, <1>3, <1>4, <1>5 DEF IInv

\* A minute goes by.
LEMMA MinuteStep ==
  ASSUME IInv, Minute
  PROVE  IInv'
<1>1. claims \in 0..claims
  BY Bounds DEF IInv, Local, TypeOK
<1>2. aged' \in 0..claims /\ stale' \subseteq 1..MaxChecks
  BY <1>1 DEF Minute, Settled
<1> QED BY <1>2, OnlyClock DEF Minute

\* A step that changes nothing.
LEMMA StutterStep == IInv /\ UNCHANGED vars => IInv'
<1> SUFFICES ASSUME IInv, UNCHANGED vars PROVE IInv'
  OBVIOUS
<1>1. UNCHANGED <<ticketVars, claims, lobbyVars, checks, lost, slipped, tasks, aged, stale>>
  BY DEF vars, otherVars, clockVars
<1>2. aged' \in 0..claims /\ stale' \subseteq 1..MaxChecks
  BY <1>1 DEF IInv, Local, TypeOK
<1> QED BY <1>1, <1>2, OnlyClock

\* A task goes on.
LEMMA TaskStep ==
  ASSUME IInv, NEW t \in tasks, Step(t)
  PROVE  IInv'
<1>1. CASE InsertTickets(t)
  BY <1>1, InsertStep
<1>2. CASE Claim(t)
  BY <1>2, ClaimStep, NoClaim
<1>3. CASE \E asks \in Asks : Start(t, asks)
  BY <1>3, StartStep
<1>4. CASE Settle(t)
  BY <1>4, SettleStep
<1>5. CASE Create(t)
  BY <1>5, CreateStep
<1>6. CASE Seat(t)
  BY <1>6, SeatStep
<1>7. CASE DropLobby(t)
  BY <1>7, DropLobbyStep
<1>8. CASE Announce(t)
  BY <1>8, AnnounceStep
<1>9. CASE Discard(t)
  BY <1>9, DiscardStep
<1>10. CASE Requeue(t)
  BY <1>10, RequeueStep
<1> QED BY <1>1, <1>2, <1>3, <1>4, <1>5, <1>6, <1>7, <1>8, <1>9, <1>10 DEF Step

\* Any step of the system.
LEMMA NextStep ==
  ASSUME IInv, [Next]_vars
  PROVE  IInv'
<1>1. CASE \E t \in tasks : Step(t) \/ Crash(t)
  BY <1>1, TaskStep, CrashStep
<1>2. CASE \E u \in Users : CancelUnit(u) \/ Depart(u) \/ \E by \in Callers : Join(u, by)
  BY <1>2, CancelUnitStep, DepartStep, JoinStep
<1>3. CASE \E t \in Made : CancelTicket(t)
  BY <1>3, CancelTicketStep
<1>4. CASE \E group \in SUBSET Queued, by \in Callers : Propose(group, by)
  BY <1>4, ProposeStep
<1>5. CASE \E c \in 1..MaxChecks : \/ Expire(c)
                                   \/ \E t \in Tickets, yes \in BOOLEAN : Answer(c, t, yes)
  BY <1>5, ExpireStep, AnswerStep
<1>6. CASE \E l \in Lobbies : DeleteLobby(l)
  BY <1>6, DeleteLobbyStep
<1>7. CASE Minute
  BY <1>7, MinuteStep
<1>8. CASE UNCHANGED vars
  BY <1>8, StutterStep
<1> QED BY <1>1, <1>2, <1>3, <1>4, <1>5, <1>6, <1>7, <1>8 DEF Next

\* The invariant always holds.
THEOREM Invariant == Spec => []IInv
<1>1. IInv /\ [Next]_vars => IInv'
  BY NextStep
<1> QED BY InitIInv, <1>1, PTL DEF Spec

-----------------------------------------------------------------------------
(* What follows. *)

\* One holder, counted among the tasks or among the checks, for each claimed ticket
\* that is not lost.
LEMMA OneHolder == IInv => ClaimsAreHeld
<1> SUFFICES ASSUME IInv, NEW t \in Made, Undecided(t)
             PROVE  Cardinality(HoldingTasks(t)) + Cardinality(HoldingChecks(t))
                      = (IF Lost(t) THEN 0 ELSE 1)
  BY DEF ClaimsAreHeld
<1> DEFINE h == <<t, mark[t]>>
<1>1. ASSUME NEW x \in HoldingTasks(t) PROVE x \in tasks /\ x \in Holders /\ h \in Held(x)
  BY DEF HoldingTasks, Holders
<1>2. ASSUME NEW c \in HoldingChecks(t)
      PROVE  /\ c \in 1..MaxChecks /\ Pending(c)
             /\ Settlement(c) \in Holders /\ h \in Held(Settlement(c))
  BY HeldNow DEF HoldingChecks, Holders, Settlement
<1>3. ASSUME NEW c \in 1..MaxChecks, Pending(c) PROVE Settlement(c) \notin tasks
  BY <1>3 DEF IInv, Local, TasksOK, TaskOK, Pending, Settlement
<1>4. ASSUME NEW x \in Holders, NEW y \in Holders, h \in Held(x), h \in Held(y) PROVE x = y
  BY <1>4 DEF IInv, Ownership, HoldAlone
<1>5. CASE Lost(t)
  <2>1. ASSUME NEW x \in Holders, h \in Held(x) PROVE FALSE
    BY <1>5, <2>1, HeldRow
  <2>2. HoldingTasks(t) = {} /\ HoldingChecks(t) = {}
    BY <1>1, <1>2, <2>1
  <2> QED BY <1>5, <2>2, FS_EmptySet
<1>6. CASE ~Lost(t)
  <2>1. PICK x \in Holders : h \in Held(x)
    BY <1>6 DEF IInv, Ownership, AllHeld
  <2>2. CASE x \in tasks
    <3>1. HoldingTasks(t) = {x}
      BY <1>1, <1>4, <2>1, <2>2 DEF HoldingTasks
    <3>2. HoldingChecks(t) = {}
      BY <1>2, <1>3, <1>4, <2>1, <2>2
    <3> QED BY <1>6, <3>1, <3>2, FS_EmptySet, FS_Singleton
  <2>3. CASE x \notin tasks
    <3>1. PICK c \in 1..MaxChecks : Pending(c) /\ x = Settlement(c)
      BY <2>3 DEF Holders
    <3>2. HoldingTasks(t) = {}
      BY <1>1, <1>4, <2>1, <2>3
    <3>3. c \in HoldingChecks(t)
      BY <2>1, <3>1, HeldNow DEF HoldingChecks, Settlement
    <3>4. \A d \in HoldingChecks(t) : d = c
      BY <1>2, <1>4, <2>1, <3>1 DEF Settlement
    <3>5. HoldingChecks(t) = {c}
      BY <3>3, <3>4
    <3>6. Cardinality(HoldingTasks(t)) = 0
      BY <3>2, FS_EmptySet
    <3>7. Cardinality(HoldingChecks(t)) = 1
      BY <3>5, FS_Singleton
    <3> QED BY <1>6, <3>6, <3>7
  <2> QED BY <2>2, <2>3
<1> QED BY <1>5, <1>6

\* The seats that nobody's ticket names are those a task is giving out, or kept.
LEMMA NoneBehind == IInv => NobodyLeftBehind
<1> SUFFICES ASSUME IInv, NEW u \in Users, seat[u] \in Lobbies \ kept
             PROVE  \/ \E t \in TicketsOf({u}) : match[t] = seat[u] \/ Lost(t)
                    \/ \E x \in tasks : x.op = "seat" /\ x.lobby = seat[u]
  BY DEF NobodyLeftBehind
<1> QED BY DEF IInv, Matches, SeatedOK, Seated

\* The rows, the claims, the checks and the tasks stay what the code makes them.
THEOREM TypeCorrect == Spec => []TypeOK
<1>1. IInv => TypeOK
  BY DEF IInv, Local
<1> QED BY Invariant, <1>1, PTL

\* However many joins, sweeps, accepts and settlements overlap, on however many
\* nodes, a claimed ticket is in the hands of one claim only, and only the death of
\* its process, or a requeue that raises, drops it (matchmaking.ex:511-531, 583-590).
THEOREM ClaimsAreHeldHolds == Spec => []ClaimsAreHeld
BY Invariant, OneHolder, PTL

\* A match names its lobby on every ticket of its claim or on none, and on none whose
\* player never had a seat there (matchmaking.ex:589-613, match.ex:184-217).
THEOREM MatchesWholeHolds == Spec => []MatchesWhole
<1>1. IInv => MatchesWhole
  BY DEF IInv, Matches
<1> QED BY Invariant, <1>1, PTL

\* Whoever sits in a match's lobby has a match there, or is being seated, but for the
\* death of who seats him and for a lobby the game would not let go of
\* (match.ex:200-217, 229-245).
THEOREM NobodyLeftBehindHolds == Spec => []NobodyLeftBehind
BY Invariant, NoneBehind, PTL

\* A player whose client waits for one join to end never waits on two tickets at once,
\* unless he joined again past one claimed, or asked, over a minute before
\* (matchmaking.ex:174-190).
THEOREM OneTicketEachHolds ==
  ASSUME OneJoin
  PROVE  Spec => []OneTicketEach
<1>1. IInv => OneTicketEach
  BY DEF IInv, Waits, Alone
<1> QED BY Invariant, <1>1, PTL

-----------------------------------------------------------------------------
(***************************************************************************)
(* The matcher.  What is packed is told by induction over the places of the*)
(* queue, through the set of the places where it holds; the players of some*)
(* tickets are counted as a set of them.                                   *)
(***************************************************************************)

\* A set of numbers has a least one.
LEMMA Least == ASSUME NEW T \in SUBSET Nat, T # {} PROVE \E x \in T : \A y \in T : x <= y
  <1>1. \E x \in T : \A y \in T : ~ (<<y, x>> \in OpToRel(<, Nat))
    BY WFMin, NatLessThanWellFounded, Zenon
  <1>2. PICK x \in T : \A y \in T : ~ (<<y, x>> \in OpToRel(<, Nat))
    BY <1>1, Zenon
  <1>3. ASSUME NEW y \in T, y < x PROVE FALSE
    <2>1. y \in Nat /\ x \in Nat OBVIOUS
    <2>2. <<y, x>> \in {ss \in Nat \X Nat : ss[1] < ss[2]} BY <1>3, <2>1
    <2>3. <<y, x>> \in OpToRel(<, Nat) BY <2>2 DEF OpToRel
    <2> QED BY <2>3, <1>2, Zenon
  <1>4. x \in Nat /\ \A y \in T : y \in Nat OBVIOUS
  <1>5. \A y \in T : x <= y BY <1>3, <1>4
  <1> QED BY <1>5, Zenon

\* Induction over the rounds, for a set of them.
LEMMA Climb ==
  ASSUME NEW n \in Nat, NEW T, 0 \in T, \A k \in 1..n : k - 1 \in T => k \in T
  PROVE  \A k \in 0..n : k \in T
  <1> DEFINE U == {k \in 0..n : k \notin T}
  <1> SUFFICES ASSUME U # {} PROVE FALSE OBVIOUS
  <1>1. U \in SUBSET Nat OBVIOUS
  <1>2. PICK x \in U : \A y \in U : x <= y BY <1>1, Least
  <1>3. x \in 1..n /\ x \notin T BY <1>2
  <1>4. x - 1 \notin U
    <2> SUFFICES ASSUME x - 1 \in U PROVE FALSE OBVIOUS
    <2>1. x <= x - 1 BY <1>2
    <2> QED BY <2>1, <1>3
  <1>5. x - 1 \in T BY <1>3, <1>4
  <1> QED BY <1>3, <1>5

\* A step a number at a time defines a function.
Steps(h, N, a, F) == h[0] = a /\ \A n \in 1..N : h[n] = F[n][h[n - 1]]
LEMMA Recursion ==
  ASSUME NEW N \in Nat, NEW S, NEW a \in S, NEW F \in [1..N -> [S -> S]]
  PROVE  \E h \in [0..N -> S] : Steps(h, N, a, F)
  <1> DEFINE G(h, n) == h \in [0..n -> S] /\ h = [k \in 0..n |-> IF k = 0 THEN a ELSE F[k][h[k - 1]]]
             E(n) == \E h : G(h, n)
             T == {n \in 0..N : E(n)}
  <1>1. 0 \in T
    <2> DEFINE g == [k \in 0..0 |-> a]
    <2>1. G(g, 0) OBVIOUS
    <2>2. E(0) BY <2>1
    <2> HIDE DEF E
    <2> QED BY <2>2
  <1>2. ASSUME NEW n \in 1..N, n - 1 \in T PROVE n \in T
    <2>0. E(n - 1) BY <1>2 DEF T
    <2>1. PICK h : G(h, n - 1) BY <2>0
    <2> DEFINE g == [k \in 0..n |-> IF k = n THEN F[n][h[n - 1]] ELSE h[k]]
    <2>a. h \in [0..(n - 1) -> S] BY <2>1
    <2>b. h = [k \in 0..(n - 1) |-> IF k = 0 THEN a ELSE F[k][h[k - 1]]] BY <2>1
    <2>2. n - 1 \in 0..(n - 1) /\ h[n - 1] \in S BY <2>a
    <2>3. F[n][h[n - 1]] \in S BY <2>2
    <2>4. g \in [0..n -> S]
      <3>1. ASSUME NEW k \in 0..n, k # n PROVE h[k] \in S
        <4>1. k \in 0..(n - 1) BY <3>1
        <4> QED BY <4>1, <2>a
      <3> QED BY <3>1, <2>3
    <2>5. ASSUME NEW k \in 0..n PROVE g[k] = IF k = 0 THEN a ELSE F[k][g[k - 1]]
      <3>1. CASE k = n
        <4>1. n - 1 \in 0..n /\ n - 1 # n OBVIOUS
        <4>2. g[n - 1] = h[n - 1] BY <4>1
        <4> QED BY <3>1, <4>2
      <3>2. CASE k # n
        <4>1. k \in 0..(n - 1) BY <3>2
        <4>2. h[k] = IF k = 0 THEN a ELSE F[k][h[k - 1]] BY <4>1, <2>b, Zenon
        <4>3. k # 0 => k - 1 \in 0..n /\ k - 1 # n OBVIOUS
        <4> QED BY <4>2, <4>3, <3>2
      <3> QED BY <3>1, <3>2
    <2>6. G(g, n) BY <2>4, <2>5
    <2> HIDE DEF g, G
    <2>7. E(n) BY <2>6
    <2> HIDE DEF E
    <2> QED BY <2>7
  <1> HIDE DEF T
  <1>3. \A n \in 0..N : n \in T BY <1>1, <1>2, Climb
  <1>4. E(N) BY <1>3 DEF T
  <1>5. PICK h : G(h, N) BY <1>4
  <1>6. h \in [0..N -> S] BY <1>5
  <1>7. h = [n \in 0..N |-> IF n = 0 THEN a ELSE F[n][h[n - 1]]] BY <1>5
  <1>8. \A n \in 0..N : h[n] = IF n = 0 THEN a ELSE F[n][h[n - 1]] BY <1>7, Zenon
  <1>9. Steps(h, N, a, F) BY <1>8 DEF Steps
  <1> QED BY <1>6, <1>9, Zenon

-----------------------------------------------------------------------------
\* Pack takes the groups one place in the queue after another.
TakenBy(t, gs, max) ==
  t = [n \in 0..Len(tickets) |-> IF n = 0 THEN {} ELSE Take(GroupAt(gs, n), t[n - 1], max)]
Taken(t, gs, max) ==
  /\ t[0] = {}
  /\ \A n \in 1..Len(tickets) : t[n] = Take(GroupAt(gs, n), t[n - 1], max)

LEMMA PackTaken ==
  ASSUME NEW gs, NEW max, Len(tickets) \in Nat
  PROVE  \E t : Taken(t, gs, max) /\ Pack(gs, max) = t[Len(tickets)]
  <1> DEFINE S == SUBSET (UNION gs)
             N == Len(tickets)
             F == [n \in 1..N |-> [s \in S |-> Take(GroupAt(gs, n), s, max)]]
  <1>1. ASSUME NEW n \in 1..N, NEW s \in S PROVE Take(GroupAt(gs, n), s, max) \in S
    <2>1. GroupAt(gs, n) \subseteq UNION gs BY DEF GroupAt
    <2> QED BY <2>1 DEF Take
  <1>2. F \in [1..N -> [S -> S]] BY <1>1
  <1>3. {} \in S OBVIOUS
  <1>n. N \in Nat OBVIOUS
  <1> HIDE DEF F, N, S
  <1>4. \E h \in [0..N -> S] : Steps(h, N, {}, F) BY <1>2, <1>3, <1>n, Recursion, Zenon
  <1>5. PICK h \in [0..N -> S] : Steps(h, N, {}, F) BY <1>4
  <1>6. ASSUME NEW n \in 1..N PROVE h[n] = Take(GroupAt(gs, n), h[n - 1], max)
    <2>1. n - 1 \in 0..N BY <1>n
    <2>2. h[n - 1] \in S BY <2>1, <1>5
    <2>3. h[n] = F[n][h[n - 1]] BY <1>5 DEF Steps
    <2> QED BY <2>2, <2>3 DEF F
  <1>7. TakenBy(h, gs, max)
    <2>1. \A n \in 0..N : h[n] = IF n = 0 THEN {} ELSE Take(GroupAt(gs, n), h[n - 1], max)
      BY <1>5, <1>6, <1>n DEF Steps
    <2>2. h = [n \in 0..N |-> h[n]] BY <1>5
    <2>3. h = [n \in 0..N |-> IF n = 0 THEN {} ELSE Take(GroupAt(gs, n), h[n - 1], max)]
      BY <2>1, <2>2
    <2> QED BY <2>3 DEF TakenBy, N
  <1>8. \E t : TakenBy(t, gs, max) /\ Pack(gs, max) = t[N]
    BY <1>7 DEF TakenBy, Pack, N
  <1>9. ASSUME NEW t, TakenBy(t, gs, max) PROVE Taken(t, gs, max)
    <2>1. \A n \in 0..N : t[n] = IF n = 0 THEN {} ELSE Take(GroupAt(gs, n), t[n - 1], max)
      BY <1>9, Zenon DEF TakenBy, N
    <2>2. 0 \in 0..N /\ \A n \in 1..N : n \in 0..N /\ n # 0 BY <1>n
    <2>3. t[0] = {} BY <2>1, <2>2
    <2>4. ASSUME NEW n \in 1..N PROVE t[n] = Take(GroupAt(gs, n), t[n - 1], max)
      BY <2>1, <2>2, Zenon
    <2> QED BY <2>3, <2>4 DEF Taken, N
  <1> QED BY <1>8, <1>9, Zenon DEF N

-----------------------------------------------------------------------------
\* What holds of the bucket, which stays as it is.
Ticket == [unit : Nat, size : Nat \ {0}, capacity : Nat, min : Nat \ {0}, max : Nat]
InOrder == \A i, j \in DOMAIN tickets : i <= j => tickets[i].unit <= tickets[j].unit
PartyFriends ==
  \A i, j \in DOMAIN tickets : tickets[i].unit = tickets[j].unit => {i, j} \notin blocked
BucketOK ==
  /\ tickets \in Seq(Ticket)
  /\ InOrder
  /\ PartyFriends
  /\ overdue \in 0..Len(tickets)

\* Who the tickets bring: as many as Players counts.
Heads(S) == UNION {{i} \X (1..tickets[i].size) : i \in S}

LEMMA HeadsFinite ==
  ASSUME tickets \in Seq(Ticket), NEW S \in SUBSET DOMAIN tickets
  PROVE  IsFiniteSet(Heads(S)) /\ Players(S) = Cardinality(Heads(S)) /\ Players(S) \in Nat
  <1> DEFINE part(i) == {i} \X (1..tickets[i].size)
             parts == {part(i) : i \in S}
  <1>1. Len(tickets) \in Nat /\ DOMAIN tickets = 1..Len(tickets) OBVIOUS
  <1>2. IsFiniteSet(S)
    <2>1. IsFiniteSet(1..Len(tickets)) BY <1>1, FS_Interval
    <2> QED BY <2>1, <1>1, FS_Subset
  <1>3. ASSUME NEW i \in S PROVE IsFiniteSet(part(i))
    <2>1. tickets[i] \in Ticket BY <1>1
    <2>2. tickets[i].size \in Int BY <2>1 DEF Ticket
    <2>3. IsFiniteSet({i}) BY FS_Singleton
    <2>4. IsFiniteSet(1..tickets[i].size) BY <2>2, FS_Interval
    <2> QED BY <2>3, <2>4, FS_Product
  <1>4. IsFiniteSet(parts)
    <2> DEFINE f == [i \in S |-> part(i)]
    <2>1. f \in Surjection(S, parts) BY DEF Surjection
    <2> QED BY <2>1, <1>2, FS_Surjection
  <1>5. \A T \in parts : IsFiniteSet(T) BY <1>3
  <1>6. IsFiniteSet(UNION parts)
    <2> HIDE DEF parts
    <2> QED BY <1>4, <1>5, FS_UNION
  <1>7. UNION parts = Heads(S) BY DEF Heads
  <1>8. Players(S) = Cardinality(Heads(S)) BY DEF Players, Heads
  <1> QED BY <1>6, <1>7, <1>8, FS_CardinalityType

LEMMA PlayersNone == Players({}) = 0
  <1>1. UNION {{i} \X (1..tickets[i].size) : i \in {}} = {} OBVIOUS
  <1> QED BY <1>1, FS_EmptySet DEF Players

LEMMA PlayersMore ==
  ASSUME tickets \in Seq(Ticket), NEW S \in SUBSET DOMAIN tickets, NEW T \in SUBSET S
  PROVE  Players(T) <= Players(S)
  <1>1. T \in SUBSET DOMAIN tickets OBVIOUS
  <1>2. Heads(T) \subseteq Heads(S) BY DEF Heads
  <1> QED BY <1>1, <1>2, HeadsFinite, FS_Subset

LEMMA PlayersSum ==
  ASSUME tickets \in Seq(Ticket), NEW S \in SUBSET DOMAIN tickets,
         NEW T \in SUBSET DOMAIN tickets, S \cap T = {}
  PROVE  Players(S \cup T) = Players(S) + Players(T)
  <1>1. S \cup T \in SUBSET DOMAIN tickets OBVIOUS
  <1>2. Heads(S \cup T) = Heads(S) \cup Heads(T) BY DEF Heads
  <1>3. Heads(S) \cap Heads(T) = {} BY DEF Heads
  <1>4. IsFiniteSet(Heads(S)) /\ IsFiniteSet(Heads(T)) BY HeadsFinite
  <1>5. Cardinality(Heads(S) \cup Heads(T)) = Cardinality(Heads(S)) + Cardinality(Heads(T)) - Cardinality({})
    BY <1>3, <1>4, FS_Union
  <1>6. Cardinality({}) = 0 BY FS_EmptySet
  <1>7. Players(S) = Cardinality(Heads(S)) /\ Players(S) \in Nat BY HeadsFinite
  <1>8. Players(T) = Cardinality(Heads(T)) /\ Players(T) \in Nat BY HeadsFinite
  <1>9. Players(S \cup T) = Cardinality(Heads(S \cup T)) BY <1>1, HeadsFinite
  <1>10. Players(S \cup T) = Players(S) + Players(T) - 0
    BY <1>2, <1>5, <1>6, <1>7, <1>8, <1>9, Zenon
  <1> QED BY <1>7, <1>8, <1>10

LEMMA PlayersSome ==
  ASSUME tickets \in Seq(Ticket), NEW S \in SUBSET DOMAIN tickets, S # {}
  PROVE  Players(S) >= 1
  <1>1. PICK i \in S : TRUE OBVIOUS
  <1>2. tickets[i] \in Ticket OBVIOUS
  <1>3. <<i, 1>> \in Heads(S)
    <2>1. 1 \in 1..tickets[i].size BY <1>2 DEF Ticket
    <2>2. <<i, 1>> \in {i} \X (1..tickets[i].size) BY <2>1
    <2> QED BY <2>2 DEF Heads
  <1>4. Heads(S) # {} BY <1>3
  <1>5. Cardinality(Heads(S)) # 0 BY <1>4, HeadsFinite, FS_EmptySet
  <1> QED BY <1>5, HeadsFinite

-----------------------------------------------------------------------------
\* The groups are the units, each with an oldest of its own.
LEMMA MinLeast ==
  ASSUME NEW T \in SUBSET Nat, T # {}
  PROVE  Min(T) \in T /\ \A y \in T : Min(T) <= y
  <1>1. \E x \in T : \A y \in T : x <= y BY Least
  <1> QED BY <1>1 DEF Min

GroupsOK(gs) == \A g \in gs : \E i \in DOMAIN tickets : g = UnitOf(i)

LEMMA GroupShape ==
  ASSUME tickets \in Seq(Ticket), NEW gs, GroupsOK(gs), NEW g \in gs
  PROVE  /\ g \subseteq DOMAIN tickets
         /\ g \subseteq Nat
         /\ Oldest(g) \in g
         /\ \A i \in g : Oldest(g) <= i
         /\ \A i \in g : g = UnitOf(i)
  <1>1. PICK i \in DOMAIN tickets : g = UnitOf(i) BY DEF GroupsOK
  <1>2. g \subseteq DOMAIN tickets /\ i \in g BY <1>1 DEF UnitOf
  <1>3. g \subseteq Nat BY <1>2
  <1>4. g # {} BY <1>2
  <1>5. \A j \in g : g = UnitOf(j) BY <1>1 DEF UnitOf
  <1> QED BY <1>2, <1>3, <1>4, <1>5, MinLeast DEF Oldest

LEMMA GroupsApart ==
  ASSUME tickets \in Seq(Ticket), NEW gs, GroupsOK(gs), NEW g \in gs, NEW h \in gs,
         NEW i, i \in g, i \in h
  PROVE  g = h
  <1>1. \A j \in g : g = UnitOf(j) BY GroupShape
  <1>2. \A j \in h : h = UnitOf(j) BY GroupShape
  <1> QED BY <1>1, <1>2, Zenon

LEMMA GroupAtIs ==
  ASSUME tickets \in Seq(Ticket), NEW gs, GroupsOK(gs)
  PROVE  /\ \A g \in gs : GroupAt(gs, Oldest(g)) = g
         /\ \A n : GroupAt(gs, n) # {} => GroupAt(gs, n) \in gs /\ Oldest(GroupAt(gs, n)) = n
  <1>1. ASSUME NEW g \in gs PROVE GroupAt(gs, Oldest(g)) = g
    <2>1. ASSUME NEW h \in gs, Oldest(h) = Oldest(g) PROVE h = g
      <3>1. Oldest(g) \in g /\ Oldest(g) \in h BY <2>1, GroupShape, Zenon
      <3> QED BY <3>1, GroupsApart, Zenon
    <2>2. {h \in gs : Oldest(h) = Oldest(g)} = {g} BY <2>1
    <2> QED BY <2>2 DEF GroupAt
  <1>2. ASSUME NEW n, GroupAt(gs, n) # {} PROVE GroupAt(gs, n) \in gs /\ Oldest(GroupAt(gs, n)) = n
    <2>1. PICK g \in gs : Oldest(g) = n BY <1>2 DEF GroupAt
    <2>2. GroupAt(gs, n) = g BY <2>1, <1>1
    <2> QED BY <2>1, <2>2
  <1> QED BY <1>1, <1>2

-----------------------------------------------------------------------------
\* A packing is of whole groups, of which no two are apart, and has its seats.
Sits(S, gs, max) ==
  /\ S \subseteq UNION gs
  /\ \A g \in gs : g \subseteq S \/ g \cap S = {}
  /\ Players(S) <= max
  /\ \A i, j \in S : {i, j} \notin blocked
  /\ Seatable(S)
UpTo(S, gs, n) == \A g \in gs : g \subseteq S => Oldest(g) <= n

LEMMA NobodySits ==
  ASSUME tickets \in Seq(Ticket), NEW gs, GroupsOK(gs), NEW max \in Nat
  PROVE  Sits({}, gs, max) /\ UpTo({}, gs, 0)
  <1>1. Players({}) <= max BY PlayersNone
  <1>2. Backfill({}) = {} /\ Crowded({}) = {} BY DEF Backfill, Crowded
  <1>3. Seatable({}) BY <1>2, FS_EmptySet DEF Seatable
  <1>4. \A g \in gs : ~ (g \subseteq {}) BY GroupShape
  <1> QED BY <1>1, <1>3, <1>4 DEF Sits, UpTo

LEMMA TakeSits ==
  ASSUME BucketOK, NEW gs, GroupsOK(gs), NEW max \in Nat, NEW n \in Nat \ {0},
         NEW S, Sits(S, gs, max), UpTo(S, gs, n - 1)
  PROVE  /\ Sits(Take(GroupAt(gs, n), S, max), gs, max)
         /\ UpTo(Take(GroupAt(gs, n), S, max), gs, n)
  <1>0. tickets \in Seq(Ticket) BY DEF BucketOK
  <1>g. gs \subseteq SUBSET Nat /\ \A g \in gs : Oldest(g) \in Nat BY <1>0, GroupShape
  <1> DEFINE g == GroupAt(gs, n)
             T == Take(g, S, max)
  <1>1. CASE T = S
    <2>1. UpTo(S, gs, n) BY <1>g DEF UpTo
    <2> QED BY <1>1, <2>1
  <1>2. CASE T # S
    <2>1. T = S \cup g /\ Fits(g, S, max) /\ g # {} BY <1>2 DEF Take
    <2>2. g \in gs /\ Oldest(g) = n BY <2>1, <1>0, GroupAtIs
    <2> HIDE DEF g, T
    <2>3. g \cap S = {}
      <3>1. ~ (g \subseteq S) BY <2>2 DEF UpTo
      <3> QED BY <3>1, <2>2 DEF Sits
    <2>4. S \in SUBSET DOMAIN tickets /\ g \in SUBSET DOMAIN tickets
      BY <1>0, <2>2, GroupShape DEF Sits
    <2>5. T \subseteq UNION gs BY <2>1, <2>2 DEF Sits
    <2>6. ASSUME NEW h \in gs PROVE h \subseteq T \/ h \cap T = {}
      <3>1. h \subseteq S \/ h \cap S = {} BY DEF Sits
      <3>2. h = g \/ h \cap g = {} BY <2>2, <1>0, GroupsApart
      <3> QED BY <3>1, <3>2, <2>1
    <2>7. Players(T) <= max
      <3>1. Players(T) = Players(S) + Players(g) BY <2>1, <2>3, <2>4, <1>0, PlayersSum
      <3> QED BY <3>1, <2>1 DEF Fits
    <2>8. ASSUME NEW i \in T, NEW j \in T PROVE {i, j} \notin blocked
      <3>1. CASE i \in S /\ j \in S BY <3>1 DEF Sits
      <3>2. CASE i \in g /\ j \in S BY <3>2, <2>1 DEF Fits, Compatible
      <3>3. CASE i \in S /\ j \in g
        <4>1. {j, i} \notin blocked BY <3>3, <2>1 DEF Fits, Compatible
        <4>2. {j, i} = {i, j} OBVIOUS
        <4> QED BY <4>1, <4>2
      <3>4. CASE i \in g /\ j \in g
        <4>1. j \in UnitOf(i) BY <3>4, <1>0, <2>2, GroupShape
        <4>2. i \in DOMAIN tickets /\ j \in DOMAIN tickets BY <3>4, <2>4
        <4>3. tickets[i].unit = tickets[j].unit BY <4>1 DEF UnitOf
        <4> QED BY <4>2, <4>3 DEF BucketOK, PartyFriends
      <3> QED BY <2>1, <3>1, <3>2, <3>3, <3>4
    <2>9. Seatable(T) BY <2>1 DEF Fits
    <2>10. Sits(T, gs, max) BY <2>5, <2>6, <2>7, <2>8, <2>9, Zenon DEF Sits
    <2>11. ASSUME NEW h \in gs, h \subseteq T PROVE Oldest(h) <= n
      <3>1. h = g \/ h \cap g = {} BY <2>2, <1>0, GroupsApart
      <3>2. CASE h = g BY <3>2, <2>2
      <3>3. CASE h \cap g = {}
        <4>1. h \subseteq S BY <3>3, <2>11, <2>1
        <4>2. Oldest(h) <= n - 1 BY <4>1 DEF UpTo
        <4> QED BY <4>2, <1>g
      <3> QED BY <3>1, <3>2, <3>3
    <2>12. UpTo(T, gs, n) BY <2>11 DEF UpTo
    <2> QED BY <2>10, <2>12 DEF g, T
  <1> QED BY <1>1, <1>2

LEMMA PackSits ==
  ASSUME BucketOK, NEW gs, GroupsOK(gs), NEW max \in Nat, NEW t, Taken(t, gs, max)
  PROVE  \A n \in 0..Len(tickets) : Sits(t[n], gs, max) /\ UpTo(t[n], gs, n)
  <1>0. tickets \in Seq(Ticket) BY DEF BucketOK
  <1>n. Len(tickets) \in Nat BY <1>0
  <1> DEFINE T == {n \in 0..Len(tickets) : Sits(t[n], gs, max) /\ UpTo(t[n], gs, n)}
  <1>1. 0 \in T
    <2>1. t[0] = {} BY DEF Taken
    <2>2. Sits(t[0], gs, max) /\ UpTo(t[0], gs, 0) BY <2>1, <1>0, NobodySits
    <2> QED BY <2>2, <1>n
  <1>2. ASSUME NEW n \in 1..Len(tickets), n - 1 \in T PROVE n \in T
    <2>1. Sits(t[n - 1], gs, max) /\ UpTo(t[n - 1], gs, n - 1) BY <1>2
    <2>2. n \in Nat \ {0} /\ n \in 0..Len(tickets) BY <1>n
    <2>3. t[n] = Take(GroupAt(gs, n), t[n - 1], max) BY DEF Taken
    <2>4. Sits(t[n], gs, max) /\ UpTo(t[n], gs, n) BY <2>1, <2>2, <2>3, TakeSits
    <2> QED BY <2>4, <2>2
  <1> HIDE DEF T
  <1>3. \A n \in 0..Len(tickets) : n \in T BY <1>1, <1>2, <1>n, Climb
  <1> QED BY <1>3 DEF T

\* Nobody is taken and then left.
LEMMA TakenGrows ==
  ASSUME tickets \in Seq(Ticket), NEW gs, NEW max, NEW t, Taken(t, gs, max),
         NEW k \in 0..Len(tickets)
  PROVE  \A n \in 0..Len(tickets) : n >= k => t[k] \subseteq t[n]
  <1>n. Len(tickets) \in Nat OBVIOUS
  <1> DEFINE T == {n \in 0..Len(tickets) : n >= k => t[k] \subseteq t[n]}
  <1>1. 0 \in T BY <1>n
  <1>2. ASSUME NEW n \in 1..Len(tickets), n - 1 \in T PROVE n \in T
    <2>1. n \in 0..Len(tickets) BY <1>n
    <2>2. t[n] = Take(GroupAt(gs, n), t[n - 1], max) BY DEF Taken
    <2>3. t[n - 1] \subseteq t[n] BY <2>2 DEF Take
    <2>4. CASE n - 1 >= k BY <2>4, <2>1, <2>3, <1>2
    <2>5. CASE n - 1 < k
      <3>1. n >= k => n = k BY <2>5, <1>n
      <3> QED BY <3>1, <2>1
    <2> QED BY <2>4, <2>5
  <1> HIDE DEF T
  <1>3. \A n \in 0..Len(tickets) : n \in T BY <1>1, <1>2, <1>n, Climb
  <1> QED BY <1>3 DEF T

\* The groups from an anchor on: nobody before it is taken.
LEMMA FromOK ==
  ASSUME NEW gs, GroupsOK(gs), NEW a
  PROVE  GroupsOK(From(gs, a)) /\ From(gs, a) \subseteq gs
  BY DEF GroupsOK, From

LEMMA NobodyBefore ==
  ASSUME BucketOK, NEW gs, GroupsOK(gs), NEW a \in DOMAIN tickets, NEW max \in Nat,
         NEW t, Taken(t, From(gs, a), max)
  PROVE  t[a - 1] = {}
  <1>0. tickets \in Seq(Ticket) BY DEF BucketOK
  <1>1. a - 1 \in 0..Len(tickets) BY <1>0
  <1>2. GroupsOK(From(gs, a)) BY FromOK
  <1>3. Sits(t[a - 1], From(gs, a), max) /\ UpTo(t[a - 1], From(gs, a), a - 1)
    BY <1>1, <1>2, PackSits
  <1>4. ASSUME NEW i \in t[a - 1] PROVE FALSE
    <2>1. PICK g \in From(gs, a) : i \in g BY <1>3 DEF Sits
    <2>2. g \subseteq t[a - 1] BY <2>1, <1>3 DEF Sits
    <2>3. Oldest(g) <= a - 1 BY <2>2, <2>1, <1>3 DEF UpTo
    <2>4. Oldest(g) >= a BY <2>1 DEF From
    <2>5. Oldest(g) \in Nat BY <2>1, <1>0, <1>2, GroupShape
    <2> QED BY <2>3, <2>4, <2>5, <1>0
  <1> QED BY <1>4

\* What a packing from an anchor is.
LEMMA PackedSits ==
  ASSUME BucketOK, NEW gs, GroupsOK(gs), NEW a \in Anchors(gs)
  PROVE  /\ a \in DOMAIN tickets
         /\ tickets[a] \in Ticket
         /\ Sits(Packed(gs, a), From(gs, a), tickets[a].max)
         /\ Packed(gs, a) \in SUBSET DOMAIN tickets
         /\ \A i \in Packed(gs, a) : a <= i
         /\ a \in Packed(gs, a) \/ ~Fits(UnitOf(a), {}, tickets[a].max)
  <1>0. tickets \in Seq(Ticket) BY DEF BucketOK
  <1>1. PICK g \in gs : a = Oldest(g) BY DEF Anchors
  <1>2. a \in g /\ g \subseteq DOMAIN tickets /\ g = UnitOf(a) BY <1>1, <1>0, GroupShape
  <1>3. a \in DOMAIN tickets BY <1>2
  <1>4. tickets[a] \in Ticket BY <1>0, <1>3
  <1> DEFINE fs == From(gs, a)
             max == tickets[a].max
  <1>5. max \in Nat BY <1>4 DEF Ticket
  <1>6. GroupsOK(fs) /\ fs \subseteq gs BY FromOK
  <1>7. Len(tickets) \in Nat /\ DOMAIN tickets = 1..Len(tickets) BY <1>0
  <1>8. PICK t : Taken(t, fs, max) /\ Pack(fs, max) = t[Len(tickets)] BY <1>7, PackTaken
  <1>9. Packed(gs, a) = t[Len(tickets)] BY <1>8 DEF Packed
  <1> HIDE DEF fs, max
  <1>10. Sits(Packed(gs, a), fs, max) BY <1>5, <1>6, <1>7, <1>8, <1>9, PackSits
  <1>11. ASSUME NEW i \in Packed(gs, a) PROVE i \in DOMAIN tickets /\ a <= i
    <2>1. PICK h \in fs : i \in h BY <1>10 DEF Sits
    <2>2. h \subseteq DOMAIN tickets /\ Oldest(h) \in h /\ Oldest(h) <= i
      BY <2>1, <1>0, <1>6, GroupShape
    <2>3. Oldest(h) >= a BY <2>1 DEF fs, From
    <2> QED BY <2>1, <2>2, <2>3, <1>7, <1>3
  <1>12. ASSUME Fits(UnitOf(a), {}, max) PROVE a \in Packed(gs, a)
    <2>1. g \in fs
      <3>1. a >= a BY <1>3, <1>7
      <3> QED BY <1>1, <3>1 DEF fs, From
    <2>2. GroupAt(fs, a) = g BY <2>1, <1>1, <1>0, <1>6, GroupAtIs
    <2>3. t[a - 1] = {} BY <1>3, <1>5, <1>8, NobodyBefore DEF fs
    <2>4. t[a] = Take(g, {}, max) BY <2>2, <2>3, <1>8, <1>3, <1>7 DEF Taken
    <2>5. Take(g, {}, max) = {} \cup g BY <1>12, <1>2 DEF Take
    <2>6. a \in t[a] BY <2>4, <2>5, <1>2
    <2>7. a \in 0..Len(tickets) /\ Len(tickets) \in 0..Len(tickets) /\ Len(tickets) >= a
      BY <1>3, <1>7
    <2>8. t[a] \subseteq t[Len(tickets)] BY <2>7, <1>0, <1>8, TakenGrows
    <2> QED BY <2>6, <2>8, <1>9
  <1> QED BY <1>3, <1>4, <1>10, <1>11, <1>12 DEF fs, max

-----------------------------------------------------------------------------
\* The invariant, but for who is seated first and for what is left at the end.
MatchSeats(m) ==
  /\ \A i, j \in m : {i, j} \notin blocked
  /\ Backfill(m) # {} =>
       \E i \in Backfill(m) : Crowded(m) \subseteq {i} /\ Players(m) <= tickets[i].capacity
MatchesOK == matches \in Seq(SUBSET DOMAIN tickets)
PackedInv == BucketOK /\ GroupsOK(groups) /\ MatchesOK /\ PartiesWhole

\* A step forms the match of the first anchor that makes one.
Forms(a) ==
  /\ a \in Anchors(groups)
  /\ Makes(groups, a)
  /\ \A b \in Anchors(groups) : b < a => ~Makes(groups, b) /\ ~GivesUp(groups, b)
FormedFrom(a) ==
  /\ matches' = Append(matches, Packed(groups, a))
  /\ groups' = Rest(groups, Packed(groups, a))
  /\ done' = done

LEMMA AnchorsNat ==
  ASSUME BucketOK, NEW gs, GroupsOK(gs)
  PROVE  Anchors(gs) \in SUBSET Nat
  <1>1. tickets \in Seq(Ticket) BY DEF BucketOK
  <1>2. \A g \in gs : Oldest(g) \in Nat BY <1>1, GroupShape
  <1> QED BY <1>2 DEF Anchors

LEMMA MatcherStep ==
  ASSUME BucketOK, GroupsOK(groups), BucketNext
  PROVE  /\ UNCHANGED <<tickets, blocked, overdue>> /\ ~done
         /\ \/ \E a : Forms(a) /\ FormedFrom(a)
            \/ FindMatch(groups) = {} /\ done' = TRUE /\ UNCHANGED <<groups, matches>>
  <1>1. UNCHANGED <<tickets, blocked, overdue>> /\ ~done BY DEF BucketNext, FormMatch
  <1>2. CASE FindMatch(groups) = {}
    BY <1>1, <1>2 DEF BucketNext, FormMatch
  <1>3. CASE FindMatch(groups) # {}
    <2> DEFINE stops == {a \in Anchors(groups) : Makes(groups, a) \/ GivesUp(groups, a)}
               a == Min(stops)
    <2>1. stops # {} /\ Makes(groups, a) /\ FindMatch(groups) = Packed(groups, a)
      BY <1>3 DEF FindMatch
    <2>2. stops \in SUBSET Nat BY AnchorsNat
    <2>3. a \in stops /\ \A b \in stops : a <= b
      <3> HIDE DEF stops
      <3> QED BY <2>1, <2>2, MinLeast
    <2>4. \A b \in Anchors(groups) : b < a => b \notin stops
      <3> SUFFICES ASSUME NEW b \in Anchors(groups), b < a, b \in stops PROVE FALSE OBVIOUS
      <3>1. a <= b /\ a \in Nat /\ b \in Nat BY <2>2, <2>3
      <3> HIDE DEF a
      <3> QED BY <3>1
    <2>5. Forms(a) BY <2>1, <2>3, <2>4 DEF Forms
    <2>6. FormedFrom(a)
      BY <1>3, <2>1 DEF BucketNext, FormMatch, FormedFrom
    <2> QED BY <1>1, <2>5, <2>6
  <1> QED BY <1>2, <1>3

\* What is said of the bucket alone stays true.
LEMMA BucketStays ==
  ASSUME UNCHANGED <<tickets, blocked, overdue>>
  PROVE  /\ BucketOK' <=> BucketOK
         /\ \A i : UnitOf(i)' = UnitOf(i)
         /\ \A S : Players(S)' = Players(S)
         /\ \A S : Backfill(S)' = Backfill(S) /\ Crowded(S)' = Crowded(S)
         /\ \A S : MatchSeats(S)' <=> MatchSeats(S)
         /\ \A gs : GroupsOK(gs)' <=> GroupsOK(gs)
  <1>1. \A i : UnitOf(i)' = UnitOf(i) BY DEF UnitOf
  <1>2. \A S : Players(S)' = Players(S) BY DEF Players
  <1>3. \A S : Backfill(S)' = Backfill(S) BY DEF Backfill
  <1>4. \A S : Crowded(S)' = Crowded(S) BY <1>3 DEF Crowded
  <1>5. BucketOK' <=> BucketOK BY DEF BucketOK, InOrder, PartyFriends
  <1>6. \A S : MatchSeats(S)' <=> MatchSeats(S) BY <1>2, <1>3, <1>4 DEF MatchSeats
  <1>7. \A gs : GroupsOK(gs)' <=> GroupsOK(gs) BY <1>1 DEF GroupsOK
  <1> QED BY <1>1, <1>2, <1>3, <1>4, <1>5, <1>6, <1>7

\* So does what a packing is, which is told by its steps.
PackDef ==
  \A gs, max : Len(tickets) \in Nat =>
    \E t : Taken(t, gs, max) /\ Pack(gs, max) = t[Len(tickets)]
LEMMA PackAlways == []PackDef
  <1>1. PackDef BY PackTaken, Zenon DEF PackDef
  <1> QED BY <1>1, PTL

LEMMA TakenOne ==
  ASSUME NEW gs, NEW max, Len(tickets) \in Nat, NEW t, Taken(t, gs, max),
         NEW u, Taken(u, gs, max)
  PROVE  t[Len(tickets)] = u[Len(tickets)]
  <1> DEFINE T == {n \in 0..Len(tickets) : t[n] = u[n]}
  <1>1. 0 \in T
    <2>1. t[0] = {} /\ u[0] = {} BY Zenon DEF Taken
    <2>2. 0 \in 0..Len(tickets) OBVIOUS
    <2> QED BY <2>1, <2>2
  <1>2. ASSUME NEW n \in 1..Len(tickets), n - 1 \in T PROVE n \in T
    <2>1. t[n] = Take(GroupAt(gs, n), t[n - 1], max) /\ u[n] = Take(GroupAt(gs, n), u[n - 1], max)
      BY DEF Taken
    <2>2. t[n - 1] = u[n - 1] /\ n \in 0..Len(tickets) BY <1>2
    <2> QED BY <2>1, <2>2
  <1> HIDE DEF T
  <1>3. \A n \in 0..Len(tickets) : n \in T BY <1>1, <1>2, Climb
  <1> QED BY <1>3 DEF T

LEMMA MakesStays ==
  ASSUME tickets \in Seq(Ticket), UNCHANGED <<tickets, blocked, overdue>>
  PROVE  /\ \A gs, a : (Makes(gs, a)' <=> Makes(gs, a)) /\ (GivesUp(gs, a)' <=> GivesUp(gs, a))
         /\ \A g, S, max : Fits(g, S, max)' <=> Fits(g, S, max)
  <1>n. Len(tickets) \in Nat /\ Len(tickets)' = Len(tickets) OBVIOUS
  <1>1. \A S : Players(S)' = Players(S) /\ Backfill(S)' = Backfill(S) /\ Crowded(S)' = Crowded(S)
    BY BucketStays
  <1>2. \A S : Target(S)' = Target(S) BY <1>1 DEF Target
  <1>3. \A S : Seatable(S)' <=> Seatable(S) BY <1>1, <1>2 DEF Seatable
  <1>4. \A g, S : Compatible(g, S)' <=> Compatible(g, S) BY DEF Compatible
  <1>5. \A g, S, max : Fits(g, S, max)' <=> Fits(g, S, max) BY <1>1, <1>3, <1>4 DEF Fits
  <1>6. \A g, S, max : Take(g, S, max)' = Take(g, S, max) BY <1>5 DEF Take
  <1>7. \A t, gs, max : Taken(t, gs, max)' <=> Taken(t, gs, max) BY <1>6, <1>n DEF Taken, GroupAt
  <1>8. PackDef /\ PackDef' BY PackAlways, PTL
  <1>9. ASSUME NEW gs, NEW max PROVE Pack(gs, max)' = Pack(gs, max)
    <2>1. PICK t : Taken(t, gs, max) /\ Pack(gs, max) = t[Len(tickets)] BY <1>8, <1>n DEF PackDef
    <2>2. PICK u : Taken(u, gs, max)' /\ Pack(gs, max)' = u[Len(tickets)]
      BY <1>8, <1>n DEF PackDef
    <2>3. Taken(u, gs, max) BY <2>2, <1>7
    <2> QED BY <2>1, <2>2, <2>3, <1>n, TakenOne
  <1>10. \A gs, a : Packed(gs, a)' = Packed(gs, a) BY <1>9 DEF Packed, From
  <1>11. ASSUME NEW gs, NEW a
         PROVE  (Makes(gs, a)' <=> Makes(gs, a)) /\ (GivesUp(gs, a)' <=> GivesUp(gs, a))
    <2>1. Players(Packed(gs, a))' = Players(Packed(gs, a)) BY <1>10 DEF Players
    <2>2. Makes(gs, a)' <=> Makes(gs, a) BY <2>1 DEF Makes
    <2>3. GivesUp(gs, a)' <=> GivesUp(gs, a) BY <2>1, <1>10 DEF GivesUp, From
    <2> QED BY <2>2, <2>3
  <1> QED BY <1>5, <1>11

LEMMA AppendRange ==
  ASSUME NEW S, NEW s \in Seq(S), NEW x \in S
  PROVE  /\ Append(s, x) \in Seq(S)
         /\ Range(Append(s, x)) = Range(s) \cup {x}
         /\ DOMAIN Append(s, x) = DOMAIN s \cup {Len(s) + 1}
         /\ \A n \in DOMAIN s : Append(s, x)[n] = s[n] /\ n # Len(s) + 1 /\ n < Len(s) + 1
         /\ Append(s, x)[Len(s) + 1] = x
  <1>1. DOMAIN s = 1..Len(s) /\ Len(s) \in Nat OBVIOUS
  <1>2. DOMAIN Append(s, x) = DOMAIN s \cup {Len(s) + 1} BY <1>1
  <1>3. \A n \in DOMAIN s : Append(s, x)[n] = s[n] /\ n # Len(s) + 1 /\ n < Len(s) + 1 BY <1>1
  <1>4. Append(s, x)[Len(s) + 1] = x BY <1>1
  <1>5. Range(Append(s, x)) = Range(s) \cup {x} BY <1>2, <1>3, <1>4 DEF Range
  <1> QED BY <1>2, <1>3, <1>4, <1>5

\* The parties stay whole: those of the match are in it, the others are left.
LEMMA PackedStep ==
  ASSUME PackedInv, BucketNext
  PROVE  PackedInv'
  <1>1. BucketOK /\ GroupsOK(groups) /\ MatchesOK /\ PartiesWhole BY DEF PackedInv
  <1>2. UNCHANGED <<tickets, blocked, overdue>> BY <1>1, MatcherStep
  <1>3. BucketOK' BY <1>1, <1>2, BucketStays
  <1>4. CASE UNCHANGED <<groups, matches>>
    <2>1. GroupsOK(groups)' BY <1>1, <1>2, <1>4 DEF GroupsOK, UnitOf
    <2>2. MatchesOK' BY <1>1, <1>2, <1>4 DEF MatchesOK
    <2>3. PartiesWhole' BY <1>1, <1>2, <1>4 DEF PartiesWhole, Everybody, UnitOf
    <2> QED BY <1>3, <2>1, <2>2, <2>3 DEF PackedInv
  <1>5. ASSUME NEW a, Forms(a), FormedFrom(a) PROVE PackedInv'
    <2> DEFINE m == Packed(groups, a)
               n == Len(matches) + 1
    <2>1. a \in Anchors(groups) BY <1>5 DEF Forms
    <2>2. Sits(m, From(groups, a), tickets[a].max) /\ m \in SUBSET DOMAIN tickets
      BY <1>1, <2>1, PackedSits
    <2>3. From(groups, a) \subseteq groups BY DEF From
    <2>0. tickets \in Seq(Ticket) BY <1>1 DEF BucketOK
    <2>4. matches' = Append(matches, m) /\ groups' = Rest(groups, m) BY <1>5 DEF FormedFrom
    <2> HIDE DEF m
    <2>5. \A g \in groups : g \subseteq m \/ g \cap m = {}
      <3> SUFFICES ASSUME NEW g \in groups, NEW i \in g, i \in m PROVE g \subseteq m OBVIOUS
      <3>1. PICK h \in From(groups, a) : i \in h BY <2>2 DEF Sits
      <3>2. h = g BY <3>1, <2>3, <2>0, <1>1, GroupsApart
      <3> QED BY <3>1, <3>2, <2>2 DEF Sits
    <2>6. m \subseteq UNION groups BY <2>2, <2>3 DEF Sits
    <2>7. \A g \in groups' : g \in groups /\ g \cap m = {} BY <2>4, <2>5 DEF Rest
    <2>8. \A g \in groups : g \in groups' \/ g \subseteq m BY <2>4 DEF Rest
    <2>9. GroupsOK(groups)'
      <3>1. \A g \in groups' : \E i \in DOMAIN tickets : g = UnitOf(i) BY <2>7, <1>1 DEF GroupsOK
      <3> QED BY <3>1, <1>2 DEF GroupsOK, UnitOf
    <2>10. /\ matches' \in Seq(SUBSET DOMAIN tickets)
           /\ Range(matches') = Range(matches) \cup {m}
           /\ DOMAIN matches' = DOMAIN matches \cup {n}
           /\ \A k \in DOMAIN matches : matches'[k] = matches[k] /\ k # n
           /\ matches'[n] = m
      <3>1. matches \in Seq(SUBSET DOMAIN tickets) BY <1>1 DEF MatchesOK
      <3> QED BY <3>1, <2>2, <2>4, AppendRange
    <2> HIDE DEF n
    <2>11. MatchesOK' BY <2>10, <1>2 DEF MatchesOK
    <2>12. PartiesWhole'
      <3> DEFINE all == groups \cup Range(matches)
                 new == groups' \cup Range(matches')
      <3>1. /\ UNION all = DOMAIN tickets
            /\ \A A \in all, i \in DOMAIN tickets : i \in A => UnitOf(i) \subseteq A
            /\ \A k, l \in DOMAIN matches : k # l => matches[k] \cap matches[l] = {}
            /\ \A k \in DOMAIN matches, g \in groups : matches[k] \cap g = {}
        BY <1>1 DEF PartiesWhole, Everybody
      <3>2. UNION new = DOMAIN tickets
        <4>1. UNION new \subseteq DOMAIN tickets BY <3>1, <2>2, <2>7, <2>10
        <4>2. ASSUME NEW i \in DOMAIN tickets PROVE i \in UNION new
          <5>1. PICK A \in all : i \in A BY <3>1
          <5>2. CASE A \in Range(matches) BY <5>1, <5>2, <2>10
          <5>3. CASE A \in groups BY <5>1, <5>3, <2>8, <2>10
          <5> QED BY <5>1, <5>2, <5>3
        <4> QED BY <4>1, <4>2
      <3>3. ASSUME NEW A \in new, NEW i \in DOMAIN tickets, i \in A PROVE UnitOf(i) \subseteq A
        <4>1. CASE A \in all BY <4>1, <3>1, <3>3
        <4>2. CASE A = m
          <5>1. PICK g \in groups : i \in g BY <4>2, <3>3, <2>6
          <5>2. g = UnitOf(i) /\ g \subseteq m BY <5>1, <4>2, <3>3, <2>5, <2>0, <1>1, GroupShape
          <5> QED BY <5>2, <4>2
        <4> QED BY <4>1, <4>2, <2>7, <2>10
      <3>4. ASSUME NEW k \in DOMAIN matches', NEW l \in DOMAIN matches', k # l
            PROVE  matches'[k] \cap matches'[l] = {}
        <4>1. \A j \in DOMAIN matches : matches[j] \cap m = {} BY <3>1, <2>6
        <4>2. CASE k \in DOMAIN matches /\ l \in DOMAIN matches BY <4>2, <3>1, <3>4, <2>10
        <4>3. CASE k = n /\ l \in DOMAIN matches BY <4>3, <4>1, <2>10
        <4>4. CASE l = n /\ k \in DOMAIN matches BY <4>4, <4>1, <2>10
        <4> QED BY <4>2, <4>3, <4>4, <3>4, <2>10
      <3>5. ASSUME NEW k \in DOMAIN matches', NEW g \in groups' PROVE matches'[k] \cap g = {}
        <4>1. CASE k \in DOMAIN matches BY <4>1, <2>7, <2>10, <3>1
        <4>2. CASE k = n BY <4>2, <2>7, <2>10
        <4> QED BY <4>1, <4>2, <2>10
      <3> HIDE DEF new
      <3>6. \A A \in new, i \in DOMAIN tickets : i \in A => UnitOf(i) \subseteq A BY <3>3
      <3>7. Everybody' = new BY DEF Everybody, new
      <3>8. \A i : UnitOf(i)' = UnitOf(i) BY <1>2, BucketStays
      <3> QED BY <3>2, <3>4, <3>5, <3>6, <3>7, <3>8, <1>2 DEF PartiesWhole
    <2> QED BY <1>3, <2>9, <2>11, <2>12 DEF PackedInv
  <1> QED BY <1>1, <1>4, <1>5, MatcherStep

\* A packing finds its seats.
LEMMA SitsSeats ==
  ASSUME BucketOK, NEW a \in DOMAIN tickets, NEW gs,
         NEW m \in SUBSET DOMAIN tickets, Sits(m, gs, tickets[a].max)
  PROVE  MatchSeats(m)
  <1>0. tickets \in Seq(Ticket) BY DEF BucketOK
  <1>2. \A i, j \in m : {i, j} \notin blocked BY DEF Sits
  <1>3. ASSUME Backfill(m) # {}
        PROVE  \E i \in Backfill(m) : Crowded(m) \subseteq {i} /\ Players(m) <= tickets[i].capacity
    <2>1. Cardinality(Crowded(m)) <= 1 /\ Players(m) <= tickets[Target(m)].capacity
      BY <1>3 DEF Sits, Seatable
    <2>2. Crowded(m) \subseteq Backfill(m) /\ Backfill(m) \subseteq m BY DEF Crowded, Backfill
    <2>3. m \subseteq 1..Len(tickets) /\ Len(tickets) \in Nat BY <1>0
    <2>4. CASE Crowded(m) = {}
      <3>1. Target(m) = Min(Backfill(m)) BY <2>4 DEF Target
      <3>2. Backfill(m) \in SUBSET Nat BY <2>2, <2>3
      <3>3. Target(m) \in Backfill(m) BY <3>1, <3>2, <1>3, MinLeast
      <3> QED BY <3>3, <2>1, <2>4
    <2>5. CASE Crowded(m) # {}
      <3>1. Target(m) = Min(Crowded(m)) BY <2>5 DEF Target
      <3>2. Crowded(m) \in SUBSET Nat BY <2>2, <2>3
      <3>3. Target(m) \in Crowded(m) BY <3>1, <3>2, <2>5, MinLeast
      <3>4. IsFiniteSet(Crowded(m))
        <4>1. IsFiniteSet(1..Len(tickets)) BY <2>3, FS_Interval
        <4>2. Crowded(m) \in SUBSET (1..Len(tickets)) BY <2>2, <2>3
        <4> QED BY <4>1, <4>2, FS_Subset
      <3>5. Cardinality(Crowded(m)) = 1
        <4>1. Cardinality(Crowded(m)) \in Nat /\ Cardinality(Crowded(m)) # 0
          BY <3>4, <2>5, FS_CardinalityType, FS_EmptySet
        <4> QED BY <4>1, <2>1
      <3>6. \E x : Crowded(m) = {x} BY <3>4, <3>5, FS_Singleton
      <3>7. Crowded(m) \subseteq {Target(m)} BY <3>3, <3>6
      <3> QED BY <3>3, <3>7, <2>1, <2>2
    <2> QED BY <2>4, <2>5
  <1> QED BY <1>2, <1>3 DEF MatchSeats

EachSeats == \A m \in Range(matches) : MatchSeats(m)
LEMMA SeatedStep ==
  ASSUME PackedInv, EachSeats, BucketNext
  PROVE  EachSeats'
  <1>1. BucketOK /\ GroupsOK(groups) /\ matches \in Seq(SUBSET DOMAIN tickets)
    BY DEF PackedInv, MatchesOK
  <1>2. UNCHANGED <<tickets, blocked, overdue>> BY <1>1, MatcherStep
  <1>3. \A m : MatchSeats(m)' <=> MatchSeats(m) BY <1>2, BucketStays
  <1>4. \A m \in Range(matches') : MatchSeats(m)
    <2>1. CASE UNCHANGED <<groups, matches>> BY <2>1 DEF EachSeats
    <2>2. ASSUME NEW a, Forms(a), FormedFrom(a) PROVE \A m \in Range(matches') : MatchSeats(m)
      <3>1. a \in Anchors(groups) BY <2>2 DEF Forms
      <3> DEFINE p == Packed(groups, a)
      <3>2. /\ a \in DOMAIN tickets /\ p \in SUBSET DOMAIN tickets
            /\ Sits(p, From(groups, a), tickets[a].max)
        BY <3>1, <1>1, PackedSits
      <3>3. MatchSeats(p) BY <3>2, <1>1, SitsSeats
      <3>4. matches' = Append(matches, p) BY <2>2 DEF FormedFrom
      <3> HIDE DEF p
      <3>5. Range(matches') = Range(matches) \cup {p} BY <3>2, <3>4, <1>1, AppendRange
      <3> QED BY <3>3, <3>5 DEF EachSeats
    <2> QED BY <2>1, <2>2, <1>1, MatcherStep
  <1> QED BY <1>3, <1>4 DEF EachSeats

\* When an anchor gives up, a later one packs no more than it did: enough only for
\* one that asks for less.
LEMMA GivesUpForMost ==
  ASSUME BucketOK, GroupsOK(groups), NEW a \in Anchors(groups), GivesUp(groups, a),
         NEW b \in Anchors(groups), a <= b, Makes(groups, b)
  PROVE  tickets[a].min > tickets[b].min
  <1>0. tickets \in Seq(Ticket) BY DEF BucketOK
  <1> DEFINE p == Packed(groups, a)
             q == Packed(groups, b)
  <1>1. /\ a \in DOMAIN tickets /\ b \in DOMAIN tickets
        /\ tickets[a] \in Ticket /\ tickets[b] \in Ticket
        /\ p \in SUBSET DOMAIN tickets /\ q \in SUBSET DOMAIN tickets
        /\ Sits(q, From(groups, b), tickets[b].max)
    BY PackedSits
  <1>2. q \subseteq p
    <2>1. q \subseteq UNION From(groups, b) BY <1>1 DEF Sits
    <2>2. From(groups, b) \subseteq From(groups, a)
      <3>1. \A g \in groups : Oldest(g) \in Nat BY <1>0, GroupShape
      <3>2. a \in Nat /\ b \in Nat BY <1>0, <1>1
      <3> QED BY <3>1, <3>2 DEF From
    <2>3. UNION From(groups, a) \subseteq p BY DEF GivesUp
    <2> QED BY <2>1, <2>2, <2>3
  <1>3. Players(q) <= Players(p) BY <1>0, <1>1, <1>2, PlayersMore
  <1>4. Players(p) < tickets[a].min BY DEF GivesUp
  <1>5. Players(q) >= tickets[b].min BY DEF Makes
  <1>6. Players(p) \in Nat /\ Players(q) \in Nat BY <1>0, <1>1, HeadsFinite
  <1>7. tickets[a].min \in Nat /\ tickets[b].min \in Nat BY <1>1 DEF Ticket
  <1> HIDE DEF p, q
  <1> QED BY <1>3, <1>4, <1>5, <1>6, <1>7

LEMMA NothingLeftStep ==
  ASSUME PackedInv, BucketNext
  PROVE  NothingLeft'
  <1>1. BucketOK /\ GroupsOK(groups) BY DEF PackedInv
  <1>2. UNCHANGED <<tickets, blocked, overdue>> /\ ~done BY <1>1, MatcherStep
  <1>3. CASE FindMatch(groups) = {} /\ done' = TRUE /\ UNCHANGED <<groups, matches>>
    <2> DEFINE Yields(x, y) == x < y /\ GivesUp(groups, x) /\ tickets[x].min > tickets[y].min
    <2> SUFFICES ASSUME NEW b \in Anchors(groups), Makes(groups, b)
                 PROVE  \E x \in Anchors(groups) : Yields(x, b)
      <3>1. tickets \in Seq(Ticket) BY <1>1 DEF BucketOK
      <3>2. \A gs, x : (Makes(gs, x)' <=> Makes(gs, x)) /\ (GivesUp(gs, x)' <=> GivesUp(gs, x))
        BY <3>1, <1>2, MakesStays
      <3> QED BY <3>2, <1>2, <1>3 DEF NothingLeft, Anchors
    <2> DEFINE stops == {a \in Anchors(groups) : Makes(groups, a) \/ GivesUp(groups, a)}
               a == Min(stops)
    <2>1. b \in stops /\ stops \in SUBSET Nat BY <1>1, AnchorsNat
    <2>2. a \in stops /\ \A x \in stops : a <= x
      <3> HIDE DEF stops
      <3> QED BY <2>1, MinLeast
    <2>3. ~Makes(groups, a)
      <3> SUFFICES ASSUME Makes(groups, a) PROVE FALSE OBVIOUS
      <3>1. Packed(groups, a) = {} BY <1>3, <2>1 DEF FindMatch
      <3>2. tickets[a] \in Ticket BY <2>2, <1>1, PackedSits
      <3>3. Players({}) >= tickets[a].min BY <3>1 DEF Makes
      <3>4. tickets[a].min \in Nat \ {0} BY <3>2 DEF Ticket
      <3> HIDE DEF a
      <3> QED BY <3>3, <3>4, PlayersNone
    <2>4. a \in Anchors(groups) /\ GivesUp(groups, a) /\ a \in Nat /\ b \in Nat /\ a <= b
      BY <2>1, <2>2, <2>3
    <2> HIDE DEF a, stops
    <2>5. a # b BY <2>3
    <2>6. tickets[a].min > tickets[b].min BY <2>4, <1>1, GivesUpForMost
    <2>7. Yields(a, b) BY <2>4, <2>5, <2>6
    <2> QED BY <2>4, <2>7
  <1>4. ASSUME NEW a, FormedFrom(a) PROVE NothingLeft'
    <2>1. ~done' BY <1>2, <1>4 DEF FormedFrom
    <2> QED BY <2>1 DEF NothingLeft
  <1> QED BY <1>1, <1>3, <1>4, MatcherStep

-----------------------------------------------------------------------------
\* Among groups of one size, c, that ask for the same and may all meet, a packing is a multiple of c, leaves
\* nobody out while there is room for c, and takes no group before an older one.
Even(S, c) == \E k \in Nat : Players(S) = k * c
Full(S, gs, n, c, max) == \A g \in gs : Oldest(g) <= n => g \subseteq S \/ Players(S) + c > max
OlderFirst(S, gs) == \A g, h \in gs : h \subseteq S /\ Oldest(g) < Oldest(h) => g \subseteq S
AllOf(c) ==
  /\ blocked = {} /\ Backfill(DOMAIN tickets) = {}
  /\ \A i \in DOMAIN tickets : Players(UnitOf(i)) = c
  /\ \A i, j \in DOMAIN tickets :
       tickets[i].min = tickets[j].min /\ tickets[i].max = tickets[j].max

LEMMA AlikeFits ==
  ASSUME tickets \in Seq(Ticket), NEW c, AllOf(c), NEW gs, GroupsOK(gs), NEW g \in gs,
         NEW S \in SUBSET DOMAIN tickets, NEW max
  PROVE  Players(g) = c /\ (Fits(g, S, max) <=> Players(S) + c <= max)
  <1>1. g \subseteq DOMAIN tickets /\ Oldest(g) \in g /\ g = UnitOf(Oldest(g)) BY GroupShape
  <1>2. Players(g) = c BY <1>1 DEF AllOf
  <1>3. Compatible(g, S) BY DEF Compatible, AllOf
  <1>4. Backfill(S \cup g) = {} /\ Crowded(S \cup g) = {} BY <1>1 DEF AllOf, Backfill, Crowded
  <1>5. Seatable(S \cup g)
    <2>1. Cardinality(Crowded(S \cup g)) = 0 BY <1>4, FS_EmptySet, Zenon
    <2>2. Cardinality(Crowded(S \cup g)) <= 1 BY <2>1
    <2> QED BY <1>4, <2>2, Zenon DEF Seatable
  <1> QED BY <1>2, <1>3, <1>5 DEF Fits

LEMMA AlikeTake ==
  ASSUME BucketOK, NEW c \in Nat, AllOf(c), NEW gs, GroupsOK(gs), NEW max \in Nat,
         NEW n \in Nat \ {0}, NEW S, Sits(S, gs, max), UpTo(S, gs, n - 1),
         Even(S, c), Full(S, gs, n - 1, c, max), OlderFirst(S, gs),
         NEW T, T = Take(GroupAt(gs, n), S, max)
  PROVE  Even(T, c) /\ Full(T, gs, n, c, max) /\ OlderFirst(T, gs)
  <1>0. tickets \in Seq(Ticket) BY DEF BucketOK
  <1>g. \A g \in gs : Oldest(g) \in Nat BY <1>0, GroupShape
  <1> DEFINE g == GroupAt(gs, n)
  <1>s. S \in SUBSET DOMAIN tickets BY <1>0, GroupShape DEF Sits
  <1>p. Players(S) \in Nat BY <1>0, <1>s, HeadsFinite
  <1>1. CASE g = {}
    <2>1. T = S BY <1>1 DEF Take
    <2>2. \A h \in gs : Oldest(h) # n
      <3>1. \A h \in gs : GroupAt(gs, Oldest(h)) = h /\ h # {} BY <1>0, GroupAtIs, GroupShape
      <3> QED BY <3>1, <1>1
    <2>3. Full(T, gs, n, c, max) BY <2>1, <2>2, <1>g DEF Full
    <2> QED BY <2>1, <2>3
  <1>2. CASE g # {}
    <2>1. g \in gs /\ Oldest(g) = n BY <1>2, <1>0, GroupAtIs
    <2>e. \A h \in gs : Oldest(h) = n => h = g
      <3>1. \A h \in gs : GroupAt(gs, Oldest(h)) = h BY <1>0, GroupAtIs
      <3> QED BY <3>1
    <2> HIDE DEF g
    <2>2. Players(g) = c /\ (Fits(g, S, max) <=> Players(S) + c <= max)
      BY <2>1, <1>0, <1>s, AlikeFits
    <2>3. CASE Fits(g, S, max)
      <3>1. T = S \cup g BY <2>3 DEF Take, g
      <3>2. g \cap S = {}
        <4>1. ~ (g \subseteq S) BY <2>1 DEF UpTo
        <4> QED BY <4>1, <2>1 DEF Sits
      <3>3. g \in SUBSET DOMAIN tickets BY <1>0, <2>1, GroupShape
      <3>4. Players(T) = Players(S) + c BY <3>1, <3>2, <3>3, <2>2, <1>0, <1>s, PlayersSum
      <3>5. Even(T, c)
        <4>1. PICK k \in Nat : Players(S) = k * c BY DEF Even
        <4>2. (k + 1) * c = k * c + c OBVIOUS
        <4>3. Players(T) = (k + 1) * c /\ k + 1 \in Nat BY <3>4, <4>1, <4>2
        <4> QED BY <4>3 DEF Even
      <3>6. ASSUME NEW h \in gs, Oldest(h) < n PROVE h \subseteq S
        <4>1. Oldest(h) <= n - 1 BY <3>6, <1>g
        <4>2. ~ (Players(S) + c > max) BY <2>2, <2>3, <1>p
        <4> QED BY <4>1, <4>2 DEF Full
      <3>7. \A h \in gs : Oldest(h) <= n => h \subseteq T BY <3>1, <3>6, <2>e, <1>g
      <3>8. Full(T, gs, n, c, max) BY <3>7 DEF Full
      <3>9. ASSUME NEW f \in gs, NEW h \in gs, h \subseteq T, Oldest(f) < Oldest(h)
            PROVE  f \subseteq T
        <4>1. CASE h \subseteq S BY <4>1, <3>9, <3>1 DEF OlderFirst
        <4>2. CASE ~ (h \subseteq S)
          <5>1. h \cap g # {} BY <4>2, <3>1, <3>9
          <5>2. h = g BY <5>1, <2>1, <1>0, GroupsApart
          <5> QED BY <5>2, <2>1, <3>9, <3>6, <3>1
        <4> QED BY <4>1, <4>2
      <3>10. OlderFirst(T, gs) BY <3>9 DEF OlderFirst
      <3> QED BY <3>5, <3>8, <3>10
    <2>4. CASE ~Fits(g, S, max)
      <3>1. T = S BY <2>4 DEF Take, g
      <3>2. Players(S) + c > max BY <2>2, <2>4, <1>p
      <3>3. Full(T, gs, n, c, max) BY <3>1, <3>2 DEF Full
      <3> QED BY <3>1, <3>3
    <2> QED BY <2>3, <2>4
  <1> QED BY <1>1, <1>2

LEMMA AlikePack ==
  ASSUME BucketOK, NEW c \in Nat, AllOf(c), NEW gs, GroupsOK(gs), NEW max \in Nat,
         NEW t, Taken(t, gs, max)
  PROVE  \A n \in 0..Len(tickets) :
           Even(t[n], c) /\ Full(t[n], gs, n, c, max) /\ OlderFirst(t[n], gs)
  <1>0. tickets \in Seq(Ticket) BY DEF BucketOK
  <1>n. Len(tickets) \in Nat /\ DOMAIN tickets = 1..Len(tickets) BY <1>0
  <1> DEFINE P(n) == Even(t[n], c) /\ Full(t[n], gs, n, c, max) /\ OlderFirst(t[n], gs)
             T == {n \in 0..Len(tickets) : P(n)}
  <1>1. 0 \in T
    <2>1. t[0] = {} BY DEF Taken
    <2>2. \A g \in gs : Oldest(g) >= 1 /\ Oldest(g) \in Nat /\ ~ (g \subseteq {})
      BY <1>0, <1>n, GroupShape
    <2>3. Full(t[0], gs, 0, c, max) BY <2>2 DEF Full
    <2>4. OlderFirst(t[0], gs) BY <2>1, <2>2 DEF OlderFirst
    <2>5. Players(t[0]) = 0 * c /\ 0 \in Nat BY <2>1, PlayersNone
    <2>6. Even(t[0], c) BY <2>5 DEF Even
    <2> QED BY <2>3, <2>4, <2>6, <1>n
  <1>2. ASSUME NEW n \in 1..Len(tickets), n - 1 \in T PROVE n \in T
    <2>0. n - 1 \in 0..Len(tickets) /\ n \in 0..Len(tickets) /\ n \in Nat \ {0} BY <1>n
    <2>1. P(n - 1) BY <1>2
    <2>2. Sits(t[n - 1], gs, max) /\ UpTo(t[n - 1], gs, n - 1) BY <2>0, PackSits
    <2>3. t[n] = Take(GroupAt(gs, n), t[n - 1], max) BY DEF Taken
    <2>4. P(n) BY <2>0, <2>1, <2>2, <2>3, AlikeTake
    <2> QED BY <2>4, <2>0
  <1> HIDE DEF T
  <1>3. \A n \in 0..Len(tickets) : n \in T BY <1>1, <1>2, <1>n, Climb
  <1> QED BY <1>3 DEF T

LEMMA AlikePacked ==
  ASSUME BucketOK, NEW c \in Nat, AllOf(c), NEW gs, GroupsOK(gs), NEW a \in Anchors(gs)
  PROVE  /\ Even(Packed(gs, a), c)
         /\ \A g \in From(gs, a) : g \subseteq Packed(gs, a) \/ Players(Packed(gs, a)) + c > tickets[a].max
         /\ OlderFirst(Packed(gs, a), From(gs, a))
  <1>0. tickets \in Seq(Ticket) BY DEF BucketOK
  <1> DEFINE fs == From(gs, a)
             max == tickets[a].max
             N == Len(tickets)
  <1>1. tickets[a] \in Ticket BY PackedSits
  <1>2. max \in Nat BY <1>1 DEF Ticket
  <1>3. GroupsOK(fs) BY FromOK
  <1>4. N \in Nat /\ DOMAIN tickets = 1..N BY <1>0
  <1>5. PICK t : Taken(t, fs, max) /\ Pack(fs, max) = t[N] BY <1>4, PackTaken
  <1>6. Packed(gs, a) = t[N] BY <1>5 DEF Packed
  <1>g. \A g \in fs : Oldest(g) <= N
    <2>1. \A g \in fs : Oldest(g) \in DOMAIN tickets BY <1>0, <1>3, GroupShape
    <2> QED BY <2>1, <1>4
  <1> HIDE DEF fs, max
  <1>7. Even(t[N], c) /\ Full(t[N], fs, N, c, max) /\ OlderFirst(t[N], fs)
    BY <1>2, <1>3, <1>4, <1>5, AlikePack
  <1>8. \A g \in fs : g \subseteq t[N] \/ Players(t[N]) + c > max BY <1>7, <1>g DEF Full
  <1> QED BY <1>6, <1>7, <1>8 DEF fs, max

\* Of two multiples of c, the one less than c more is no more.
LEMMA Multiples ==
  ASSUME NEW c \in Nat, NEW k \in Nat, NEW l \in Nat, k * c < l * c + c
  PROVE  k * c <= l * c
  <1>0. k * c \in Nat /\ l * c \in Nat OBVIOUS
  <1>1. CASE k <= l
    <2>1. l - k \in Nat BY <1>1
    <2>2. PICK d \in Nat : l = k + d BY <2>1
    <2>3. l * c = k * c + d * c BY <2>2
    <2>4. d * c \in Nat OBVIOUS
    <2> QED BY <2>3, <2>4, <1>0
  <1>2. CASE k > l
    <2>1. k - l - 1 \in Nat BY <1>2
    <2>2. PICK d \in Nat : k = l + 1 + d BY <2>1
    <2>3. k * c = l * c + c + d * c BY <2>2
    <2>4. d * c \in Nat OBVIOUS
    <2> QED BY <2>3, <2>4, <1>0
  <1> QED BY <1>1, <1>2

\* So only the oldest group anchors a match.
LEMMA AlikeOldest ==
  ASSUME BucketOK, GroupsOK(groups), NEW c \in Nat, AllOf(c), NEW a, Forms(a),
         NEW b \in Anchors(groups)
  PROVE  a <= b
  <1>0. tickets \in Seq(Ticket) /\ overdue \in Nat BY DEF BucketOK
  <1>a. a \in Anchors(groups) /\ Makes(groups, a) BY DEF Forms
  <1>n. a \in Nat /\ b \in Nat BY <1>a, AnchorsNat
  <1> SUFFICES ASSUME b < a PROVE FALSE BY <1>n
  <1>1. ~Makes(groups, b) /\ ~GivesUp(groups, b) BY DEF Forms
  <1> DEFINE p == Packed(groups, b)
             q == Packed(groups, a)
             max == tickets[a].max
             min == tickets[a].min
  <1>2. /\ tickets[a] \in Ticket
        /\ p \in SUBSET DOMAIN tickets /\ q \in SUBSET DOMAIN tickets
        /\ Sits(p, From(groups, b), tickets[b].max) /\ Sits(q, From(groups, a), max)
        /\ a \in DOMAIN tickets /\ b \in DOMAIN tickets
    BY <1>a, PackedSits
  <1>3. max \in Nat /\ min \in Nat BY <1>2 DEF Ticket
  <1>4. tickets[b].max = max /\ tickets[b].min = min BY <1>2 DEF AllOf
  <1>5. Players(p) \in Nat /\ Players(q) \in Nat BY <1>0, <1>2, HeadsFinite
  <1>6. Players(p) <= max /\ Players(q) <= max BY <1>2, <1>4 DEF Sits
  <1>7. Players(q) >= min /\ (Players(q) = max \/ a <= overdue) BY <1>a DEF Makes
  <1>8. ~ (Players(p) >= min /\ (Players(p) = max \/ b <= overdue)) BY <1>1, <1>4 DEF Makes
  <1>9. From(groups, a) \subseteq From(groups, b)
    <2>1. \A g \in groups : Oldest(g) \in Nat BY <1>0, GroupShape
    <2> QED BY <2>1, <1>n DEF From
  <1>10. Players(q) <= Players(p) /\ Players(p) >= min
    <2>1. CASE UNION From(groups, b) \subseteq p
      <3>1. q \subseteq p BY <2>1, <1>2, <1>9 DEF Sits
      <3>2. Players(q) <= Players(p) BY <3>1, <1>0, <1>2, PlayersMore
      <3>3. ~ (Players(p) < min) BY <2>1, <1>1, <1>4 DEF GivesUp
      <3> HIDE DEF p, q, min, max
      <3> QED BY <3>2, <3>3, <1>3, <1>5
    <2>2. CASE ~ (UNION From(groups, b) \subseteq p)
      <3>1. PICK g \in From(groups, b) : ~ (g \subseteq p) BY <2>2
      <3>2. Players(p) + c > max BY <3>1, <1>4, AlikePacked
      <3>3. Even(p, c) /\ Even(q, c) BY <1>a, AlikePacked
      <3> HIDE DEF p, q, min, max
      <3>4. PICK l \in Nat : Players(p) = l * c BY <3>3 DEF Even
      <3>5. PICK k \in Nat : Players(q) = k * c BY <3>3 DEF Even
      <3>6. Players(q) < Players(p) + c BY <3>2, <1>3, <1>5, <1>6
      <3>7. k * c < l * c + c BY <3>4, <3>5, <3>6
      <3>8. k * c <= l * c BY <3>7, Multiples
      <3>9. Players(q) <= Players(p) BY <3>4, <3>5, <3>8
      <3> QED BY <3>9, <1>3, <1>5, <1>7
    <2> QED BY <2>1, <2>2
  <1> HIDE DEF p, q, min, max
  <1> QED BY <1>0, <1>n, <1>3, <1>5, <1>6, <1>7, <1>8, <1>10

\* What is earned, by one match and in the order of them all.
Anchorer(n) == \E a \in DOMAIN tickets : Anchored(n, a)
InTurn(n) == Alike => \A i \in matches[n] : 1..i \subseteq UNION {matches[l] : l \in 1..n}
Earned == \A n \in DOMAIN matches : Anchorer(n) /\ InTurn(n)

LEMMA EarnedIs == Earned <=> MatchesEarned
  BY DEF Earned, Anchorer, InTurn, MatchesEarned

\* What an anchor's match is, of itself and beside the matches before it.
Worth(m, a) ==
  /\ \A i \in m : a <= i
  /\ a \in m \/ ~Fits(UnitOf(a), {}, tickets[a].max)
  /\ Players(m) \in tickets[a].min..tickets[a].max
  /\ Players(m) < tickets[a].max => a <= overdue

LEMMA AnchoredIs ==
  ASSUME NEW n, NEW a
  PROVE  Anchored(n, a) <=> Worth(matches[n], a) /\ a \notin UNION {matches[l] : l \in 1..n - 1}
  BY DEF Anchored, Worth

LEMMA FormsWorth ==
  ASSUME PackedInv, NEW a, Forms(a)
  PROVE  /\ a \in DOMAIN tickets /\ Worth(Packed(groups, a), a)
         /\ \A l \in DOMAIN matches : a \notin matches[l]
  <1>i. BucketOK /\ GroupsOK(groups) /\ PartiesWhole BY DEF PackedInv
  <1>0. tickets \in Seq(Ticket) /\ overdue \in Nat BY <1>i DEF BucketOK
  <1>a. a \in Anchors(groups) /\ Makes(groups, a) BY DEF Forms
  <1> DEFINE m == Packed(groups, a)
  <1>1. /\ a \in DOMAIN tickets /\ tickets[a] \in Ticket /\ m \in SUBSET DOMAIN tickets
        /\ \A i \in m : a <= i
        /\ a \in m \/ ~Fits(UnitOf(a), {}, tickets[a].max)
        /\ Sits(m, From(groups, a), tickets[a].max)
    BY <1>i, <1>a, PackedSits
  <1>2. Players(m) >= tickets[a].min /\ (Players(m) = tickets[a].max \/ a <= overdue)
    BY <1>a DEF Makes
  <1>3. tickets[a].min \in Nat \ {0} /\ tickets[a].max \in Nat BY <1>1 DEF Ticket
  <1>4. Players(m) \in Nat /\ Players(m) <= tickets[a].max BY <1>0, <1>1, HeadsFinite DEF Sits
  <1> HIDE DEF m
  <1>5. Players(m) \in tickets[a].min..tickets[a].max /\ (Players(m) < tickets[a].max => a <= overdue)
    BY <1>2, <1>3, <1>4
  <1>6. Worth(m, a) BY <1>1, <1>5 DEF Worth
  <1>7. PICK g \in groups : a = Oldest(g) BY <1>a DEF Anchors
  <1>8. a \in g BY <1>0, <1>i, <1>7, GroupShape
  <1>9. \A l \in DOMAIN matches : matches[l] \cap g = {} BY <1>i DEF PartiesWhole
  <1> QED BY <1>1, <1>6, <1>8, <1>9 DEF m

\* Among the like, all who are older than a member are in it, or in an earlier match.
LEMMA FormsInTurn ==
  ASSUME PackedInv, Alike, NEW a, Forms(a),
         NEW i \in Packed(groups, a), NEW j \in 1..i
  PROVE  j \in Packed(groups, a) \/ \E l \in DOMAIN matches : j \in matches[l]
  <1>i. BucketOK /\ GroupsOK(groups) /\ PartiesWhole BY DEF PackedInv
  <1>0. tickets \in Seq(Ticket) /\ InOrder BY <1>i DEF BucketOK
  <1>a. a \in Anchors(groups) BY DEF Forms
  <1> DEFINE m == Packed(groups, a)
             c == Players(UnitOf(i))
  <1>1. Sits(m, From(groups, a), tickets[a].max) /\ m \in SUBSET DOMAIN tickets BY <1>i, <1>a, PackedSits
  <1>2. i \in DOMAIN tickets BY <1>1
  <1>3. j \in DOMAIN tickets /\ j <= i /\ i \in Nat /\ j \in Nat BY <1>2, <1>0
  <1>4. UnitOf(i) \in SUBSET DOMAIN tickets BY DEF UnitOf
  <1>5. c \in Nat BY <1>0, <1>4, HeadsFinite
  <1>6. AllOf(c) BY <1>2 DEF AllOf, Alike
  <1> HIDE DEF c
  <1>7. PICK A \in Everybody : j \in A BY <1>i, <1>3 DEF PartiesWhole
  <1>8. CASE A \in Range(matches) BY <1>7, <1>8 DEF Range
  <1>9. CASE A \in groups
    <2>1. PICK h \in From(groups, a) : i \in h BY <1>1 DEF Sits
    <2>2. h \in groups /\ h \subseteq m BY <2>1, <1>1 DEF Sits, From
    <2>3. A = UnitOf(j) /\ Oldest(A) \in A /\ h = UnitOf(i) /\ Oldest(h) \in h
          /\ A \subseteq DOMAIN tickets /\ h \subseteq DOMAIN tickets
      BY <1>0, <1>i, <1>7, <1>9, <2>1, <2>2, GroupShape
    <2>4. CASE A = h BY <2>4, <2>2, <1>7
    <2>5. CASE A # h
      <3>1. tickets[j].unit # tickets[i].unit BY <2>3, <2>5 DEF UnitOf
      <3>2. tickets[j].unit <= tickets[i].unit BY <1>0, <1>2, <1>3 DEF InOrder
      <3>3. tickets[Oldest(A)].unit = tickets[j].unit /\ tickets[Oldest(h)].unit = tickets[i].unit
        BY <2>3 DEF UnitOf
      <3>4. Oldest(A) \in DOMAIN tickets /\ Oldest(h) \in DOMAIN tickets BY <2>3
      <3>5. ~ (Oldest(h) <= Oldest(A))
        <4> SUFFICES ASSUME Oldest(h) <= Oldest(A) PROVE FALSE OBVIOUS
        <4>1. tickets[i].unit <= tickets[j].unit BY <1>0, <3>3, <3>4 DEF InOrder
        <4>2. tickets[i].unit \in Nat /\ tickets[j].unit \in Nat
          <5>1. tickets[i] \in Ticket /\ tickets[j] \in Ticket BY <1>0, <1>2, <1>3
          <5> QED BY <5>1 DEF Ticket
        <4> QED BY <4>1, <4>2, <3>1, <3>2
      <3>6. Oldest(A) \in Nat /\ Oldest(h) \in Nat BY <3>4, <1>0
      <3>7. Oldest(A) < Oldest(h) BY <3>5, <3>6
      <3>8. A \in From(groups, a)
        <4>1. Oldest(A) \in Anchors(groups) BY <1>9 DEF Anchors
        <4>2. a <= Oldest(A) BY <4>1, <1>i, <1>5, <1>6, AlikeOldest
        <4>3. a \in Nat BY <1>a, <1>i, AnchorsNat
        <4> QED BY <4>2, <4>3, <1>9, <3>6 DEF From
      <3>9. OlderFirst(m, From(groups, a)) BY <1>a, <1>i, <1>5, <1>6, AlikePacked
      <3>10. A \subseteq m BY <2>1, <2>2, <3>7, <3>8, <3>9 DEF OlderFirst
      <3> QED BY <3>10, <1>7
    <2> QED BY <2>4, <2>5
  <1> QED BY <1>7, <1>8, <1>9 DEF Everybody

LEMMA EarnedStays ==
  ASSUME tickets \in Seq(Ticket), UNCHANGED <<tickets, blocked, overdue>>
  PROVE  (\A m, a : Worth(m, a)' <=> Worth(m, a)) /\ (Alike' <=> Alike)
  <1>1. \A i : UnitOf(i)' = UnitOf(i) BY BucketStays
  <1>2. \A S : Players(S)' = Players(S) /\ Backfill(S)' = Backfill(S) BY BucketStays
  <1>3. \A g, S, max : Fits(g, S, max)' <=> Fits(g, S, max) BY MakesStays
  <1>4. \A m, a : Worth(m, a)' <=> Worth(m, a)
    <2>1. \A i : Fits(UnitOf(i), {}, tickets[i].max)' <=> Fits(UnitOf(i), {}, tickets[i].max)
      BY <1>1, <1>3
    <2> QED BY <1>2, <2>1 DEF Worth
  <1>5. Alike' <=> Alike
    <2>1. \A i : Players(UnitOf(i))' = Players(UnitOf(i)) BY <1>1, <1>2
    <2>2. Backfill(DOMAIN tickets)' = Backfill(DOMAIN tickets) BY <1>2
    <2> QED BY <2>1, <2>2 DEF Alike
  <1> QED BY <1>4, <1>5

\* A match that stays where it is, behind the same ones, stays earned.
LEMMA AnchorerStays ==
  ASSUME tickets \in Seq(Ticket), UNCHANGED <<tickets, blocked, overdue>>, NEW n,
         matches'[n] = matches[n],
         {matches'[l] : l \in 1..n - 1} = {matches[l] : l \in 1..n - 1},
         Anchorer(n)
  PROVE  Anchorer(n)'
  <1>1. PICK a \in DOMAIN tickets : Anchored(n, a) BY DEF Anchorer
  <1>2. PICK m : m = matches[n] OBVIOUS
  <1>3. Worth(m, a)' BY <1>1, <1>2, AnchoredIs, EarnedStays
  <1>4. a \notin UNION {matches'[l] : l \in 1..n - 1} BY <1>1, AnchoredIs
  <1>5. Anchored(n, a)' BY <1>2, <1>3, <1>4 DEF Anchored, Worth
  <1> QED BY <1>5 DEF Anchorer

LEMMA EarnedKept ==
  ASSUME BucketOK, Earned, UNCHANGED <<tickets, blocked, overdue>>, UNCHANGED matches
  PROVE  Earned'
  <1>1. tickets \in Seq(Ticket) BY DEF BucketOK
  <1>2. Alike' <=> Alike BY <1>1, EarnedStays
  <1>3. ASSUME NEW n \in DOMAIN matches PROVE Anchorer(n)'
    BY <1>1, <1>3, AnchorerStays DEF Earned
  <1>4. \A n \in DOMAIN matches' : InTurn(n)' BY <1>2 DEF Earned, InTurn
  <1> QED BY <1>3, <1>4 DEF Earned

LEMMA EarnedStep ==
  ASSUME PackedInv, Earned, BucketNext
  PROVE  Earned'
  <1>i. BucketOK /\ GroupsOK(groups) /\ matches \in Seq(SUBSET DOMAIN tickets)
    BY DEF PackedInv, MatchesOK
  <1>0. tickets \in Seq(Ticket) BY <1>i DEF BucketOK
  <1>1. UNCHANGED <<tickets, blocked, overdue>> BY <1>i, MatcherStep
  <1>5. \A m, a : Worth(m, a)' <=> Worth(m, a) BY <1>0, <1>1, EarnedStays
  <1>6. Alike' <=> Alike BY <1>0, <1>1, EarnedStays
  <1>7. CASE UNCHANGED <<groups, matches>> BY <1>i, <1>1, <1>7, EarnedKept
  <1>8. ASSUME NEW a, Forms(a), FormedFrom(a) PROVE Earned'
    <2> DEFINE m == Packed(groups, a)
               n == Len(matches) + 1
    <2>0. m \in SUBSET DOMAIN tickets BY <1>i, <1>8, PackedSits DEF Forms
    <2>1. /\ DOMAIN matches' = DOMAIN matches \cup {n}
          /\ \A k \in DOMAIN matches : matches'[k] = matches[k] /\ k # n /\ k < n
          /\ matches'[n] = m
      <3>1. matches' = Append(matches, m) BY <1>8 DEF FormedFrom
      <3> HIDE DEF m
      <3> QED BY <2>0, <3>1, <1>i, AppendRange
    <2>2. DOMAIN matches = 1..Len(matches) /\ Len(matches) \in Nat BY <1>i
    <2>3. /\ a \in DOMAIN tickets /\ Worth(m, a)
          /\ \A l \in DOMAIN matches : a \notin matches[l]
      BY <1>8, FormsWorth
    <2>4. Alike => \A i \in m : \A j \in 1..i : j \in m \/ \E l \in DOMAIN matches : j \in matches[l]
      BY <1>8, FormsInTurn
    <2> HIDE DEF m
    <2>5. ASSUME NEW k \in DOMAIN matches
          PROVE  {matches'[l] : l \in 1..k} = {matches[l] : l \in 1..k}
      <3>1. \A l \in 1..k : l \in DOMAIN matches BY <2>2
      <3> QED BY <3>1, <2>1
    <2>6. ASSUME NEW k \in DOMAIN matches', Alike, NEW i \in matches'[k]
          PROVE  1..i \subseteq UNION {matches'[l] : l \in 1..k}
      <3>1. CASE k \in DOMAIN matches
        <4>1. 1..i \subseteq UNION {matches[l] : l \in 1..k} BY <3>1, <2>1, <2>6 DEF Earned, InTurn
        <4> QED BY <4>1, <3>1, <2>5
      <3>2. CASE k = n
        <4>1. i \in m BY <3>2, <2>1, <2>6
        <4>2. ASSUME NEW j \in 1..i PROVE \E l \in 1..n : j \in matches'[l]
          <5>1. CASE j \in m
            <6>1. n \in 1..n BY <2>2
            <6> QED BY <5>1, <6>1, <2>1
          <5>2. CASE \E l \in DOMAIN matches : j \in matches[l]
            <6>1. PICK l \in DOMAIN matches : j \in matches[l] BY <5>2
            <6>2. l \in 1..n BY <2>2
            <6> QED BY <6>1, <6>2, <2>1
          <5> QED BY <5>1, <5>2, <4>1, <2>4, <2>6
        <4> QED BY <4>2, <3>2
      <3> QED BY <3>1, <3>2, <2>1
    <2>7. ASSUME NEW k \in DOMAIN matches PROVE Anchorer(k)'
      <3>1. \A l \in 1..k - 1 : l \in DOMAIN matches BY <2>2
      <3>2. {matches'[l] : l \in 1..k - 1} = {matches[l] : l \in 1..k - 1} BY <3>1, <2>1
      <3>3. Anchorer(k) BY DEF Earned
      <3> QED BY <3>2, <3>3, <2>1, <1>0, <1>1, AnchorerStays
    <2>8. ASSUME NEW k, k = n PROVE Anchorer(k)'
      <3>1. PICK q : q = m OBVIOUS
      <3>2. Worth(q, a)' BY <3>1, <2>3, <1>5
      <3>3. \A l \in 1..k - 1 : l \in DOMAIN matches BY <2>2, <2>8
      <3>4. a \notin UNION {matches'[l] : l \in 1..k - 1} BY <3>3, <2>1, <2>3
      <3>5. matches'[k] = q BY <3>1, <2>1, <2>8
      <3>6. Anchored(k, a)' BY <3>2, <3>4, <3>5 DEF Anchored, Worth
      <3> QED BY <3>6, <2>3, <1>1 DEF Anchorer
    <2>9. \A k \in DOMAIN matches' : InTurn(k)' BY <2>6, <1>6 DEF InTurn
    <2> QED BY <2>1, <2>7, <2>8, <2>9 DEF Earned
  <1> QED BY <1>i, <1>7, <1>8, MatcherStep

-----------------------------------------------------------------------------
\* A bucket is its units' tickets, one unit after the other.
Entry(units, u) ==
  [unit |-> u, size |-> units[u].size, capacity |-> units[u].capacity,
   min |-> units[u].min, max |-> units[u].max]
Parts(units) ==
  [u \in DOMAIN units |-> [i \in 1..units[u].tickets |-> Entry(units, u)]]
\* The tickets of the first units, up to k of them.
EntriesUpTo(s, units, k) ==
  /\ s \in Seq(Ticket)
  /\ \A i \in DOMAIN s : \E u \in 1..k : s[i] = Entry(units, u)
  /\ \A i, j \in DOMAIN s : i <= j => s[i].unit <= s[j].unit
Flat(f, seqs) == f = [i \in 1..Len(seqs) |-> IF i = 1 THEN seqs[i] ELSE f[i - 1] \o seqs[i]]

LEMMA Flattened ==
  ASSUME NEW S, NEW seqs \in Seq(Seq(S)), seqs # <<>>
  PROVE  \E f : Flat(f, seqs) /\ FlattenSeq(seqs) = f[Len(seqs)]
  <1> DEFINE N == Len(seqs)
             M == N - 1
             F == [k \in 1..M |-> [s \in Seq(S) |-> s \o seqs[k + 1]]]
  <1>1. N \in Nat \ {0} /\ M \in Nat /\ DOMAIN seqs = 1..N OBVIOUS
  <1>2. \A k \in 1..N : seqs[k] \in Seq(S) BY <1>1
  <1> HIDE DEF N
  <1>3. F \in [1..M -> [Seq(S) -> Seq(S)]]
    <2>1. \A k \in 1..M : k + 1 \in 1..N BY <1>1
    <2>2. ASSUME NEW k \in 1..M, NEW s \in Seq(S) PROVE s \o seqs[k + 1] \in Seq(S)
      <3>1. seqs[k + 1] \in Seq(S) BY <2>1, <1>2
      <3> QED BY <3>1
    <2> QED BY <2>2
  <1>4. seqs[1] \in Seq(S) BY <1>1, <1>2
  <1>m. M = N - 1 OBVIOUS
  <1> HIDE DEF F, M
  <1>5. \E h \in [0..M -> Seq(S)] : Steps(h, M, seqs[1], F) BY <1>1, <1>3, <1>4, Recursion, Zenon
  <1>6. PICK h \in [0..M -> Seq(S)] : Steps(h, M, seqs[1], F) BY <1>5
  <1> DEFINE g == [i \in 1..N |-> h[i - 1]]
  <1>7. ASSUME NEW i \in 1..N PROVE g[i] = IF i = 1 THEN seqs[i] ELSE g[i - 1] \o seqs[i]
    <2>1. CASE i = 1 BY <2>1, <1>6 DEF Steps
    <2>2. CASE i # 1
      <3>1. i - 1 \in 1..M /\ i - 1 \in 1..N /\ (i - 1) - 1 \in 0..M /\ (i - 1) + 1 = i
        BY <2>2, <1>1, <1>m
      <3>2. h[i - 1] = F[i - 1][h[(i - 1) - 1]] BY <3>1, <1>6 DEF Steps
      <3>3. h[(i - 1) - 1] \in Seq(S) BY <3>1, <1>6
      <3>4. h[i - 1] = h[(i - 1) - 1] \o seqs[i] BY <3>1, <3>2, <3>3 DEF F
      <3>5. g[i] = h[i - 1] /\ g[i - 1] = h[(i - 1) - 1] BY <3>1
      <3> QED BY <2>2, <3>4, <3>5
    <2> QED BY <2>1, <2>2
  <1>8. g = [i \in 1..N |-> IF i = 1 THEN seqs[i] ELSE g[i - 1] \o seqs[i]]
    <2>1. g = [i \in 1..N |-> g[i]] OBVIOUS
    <2> HIDE DEF g
    <2> QED BY <2>1, <1>7
  <1>9. Flat(g, seqs) BY <1>8 DEF Flat, N
  <1> HIDE DEF g
  <1>10. N # 0 BY <1>1
  <1> QED BY <1>9, <1>10 DEF FlattenSeq, Flat, N

LEMMA EntryOK ==
  ASSUME NEW n \in Nat, NEW units \in [1..n -> Kinds], NEW u \in 1..n
  PROVE  /\ Entry(units, u) \in Ticket
         /\ Entry(units, u).unit = u
         /\ units[u].tickets \in Nat
  <1>1. units[u] \in Kinds OBVIOUS
  <1>2. /\ units[u].tickets \in Nat \ {0} /\ units[u].size \in Nat \ {0} /\ units[u].capacity \in Nat
        /\ units[u].min \in Nat \ {0} /\ units[u].max \in Nat
    BY <1>1, KindsAssumption, Zenon
  <1> QED BY <1>2 DEF Entry, Ticket

LEMMA BucketEntries ==
  ASSUME NEW n \in Nat \ {0}, NEW units \in [1..n -> Kinds]
  PROVE  EntriesUpTo(Bucket(units), units, n)
  <1> DEFINE seqs == Parts(units)
  <1>0. \A u \in 1..n : Entry(units, u) \in Ticket /\ units[u].tickets \in Nat
    BY EntryOK
  <1>1. DOMAIN seqs = 1..n /\ Len(seqs) = n BY DEF Parts
  <1>2. ASSUME NEW u \in 1..n
        PROVE  /\ seqs[u] \in Seq(Ticket)
               /\ \A i \in DOMAIN seqs[u] : seqs[u][i] = Entry(units, u)
    <2>1. seqs[u] = [i \in 1..units[u].tickets |-> Entry(units, u)] BY DEF Parts
    <2>2. PICK x, k : x = Entry(units, u) /\ k = units[u].tickets OBVIOUS
    <2>3. x \in Ticket /\ k \in Nat BY <1>0, <2>2
    <2>4. seqs[u] = [i \in 1..k |-> x] BY <2>1, <2>2
    <2>5. [i \in 1..k |-> x] \in Seq(Ticket) BY <2>3
    <2>6. seqs[u] \in Seq(Ticket) /\ \A i \in DOMAIN seqs[u] : seqs[u][i] = x
      BY <2>4, <2>5, Zenon
    <2> QED BY <2>2, <2>6
  <1>3. seqs \in Seq(Seq(Ticket)) /\ seqs # <<>>
    <2>1. seqs = [u \in 1..n |-> seqs[u]] BY DEF Parts
    <2> HIDE DEF seqs
    <2>2. seqs \in Seq(Seq(Ticket)) BY <2>1, <1>2
    <2> QED BY <2>2, <1>1
  <1>4. Bucket(units) = FlattenSeq(seqs) BY DEF Bucket, Parts, Entry
  <1> HIDE DEF seqs
  <1>5. PICK f : Flat(f, seqs) /\ FlattenSeq(seqs) = f[n] BY <1>1, <1>3, Flattened
  <1>6. \A i \in 1..n : f[i] = IF i = 1 THEN seqs[i] ELSE f[i - 1] \o seqs[i]
    BY <1>5, <1>1, Zenon DEF Flat
  <1> DEFINE P(k) == EntriesUpTo(f[k + 1], units, k + 1)
             T == {k \in 0..(n - 1) : P(k)}
  <1>u. \A u \in 1..n : Entry(units, u).unit = u BY EntryOK
  <1>7. 0 \in T
    <2>1. f[1] = seqs[1] /\ 1 \in 1..n /\ 1 \in 1..1 BY <1>6
    <2>2. EntriesUpTo(f[1], units, 1)
      <3>1. \A i \in DOMAIN f[1] : f[1][i] = Entry(units, 1) BY <2>1, <1>2
      <3>2. Entry(units, 1).unit <= Entry(units, 1).unit BY <1>u, <2>1
      <3>3. \A i, j \in DOMAIN f[1] : f[1][i].unit <= f[1][j].unit BY <3>1, <3>2
      <3> QED BY <2>1, <1>2, <3>1, <3>3 DEF EntriesUpTo
    <2> QED BY <2>2
  <1>8. ASSUME NEW k \in 1..(n - 1), k - 1 \in T PROVE k \in T
    <2> DEFINE s == f[k]
               r == seqs[k + 1]
    <2>1. EntriesUpTo(s, units, k) BY <1>8
    <2>2. k + 1 \in 1..n /\ k + 1 # 1 /\ (k + 1) - 1 = k /\ k \in 1..n OBVIOUS
    <2>3. f[k + 1] = s \o r BY <2>2, <1>6
    <2>4. /\ r \in Seq(Ticket) /\ s \in Seq(Ticket)
          /\ \A i \in DOMAIN r : r[i] = Entry(units, k + 1)
      BY <1>2, <2>1, <2>2 DEF EntriesUpTo
    <2>5. EntriesUpTo(s \o r, units, k + 1)
      <3> HIDE DEF s, r
      <3> DEFINE q == s \o r
      <3>1. q \in Seq(Ticket) /\ Len(q) = Len(s) + Len(r) /\ Len(s) \in Nat /\ Len(r) \in Nat
            /\ DOMAIN q = 1..Len(q) /\ DOMAIN s = 1..Len(s) /\ DOMAIN r = 1..Len(r)
        BY <2>4
      <3>2. ASSUME NEW i \in DOMAIN q
            PROVE  \/ i \in DOMAIN s /\ q[i] = s[i]
                   \/ i > Len(s) /\ q[i] = Entry(units, k + 1)
        <4>1. CASE i <= Len(s) BY <4>1, <2>4, <3>1
        <4>2. CASE i > Len(s)
          <5>1. q[i] = r[i - Len(s)] /\ i - Len(s) \in DOMAIN r BY <4>2, <2>4, <3>1
          <5> QED BY <5>1, <4>2, <2>4
        <4> QED BY <4>1, <4>2, <3>1
      <3>3. \A i \in DOMAIN s : \E u \in 1..k : s[i] = Entry(units, u) BY <2>1 DEF EntriesUpTo
      <3>4. ASSUME NEW i \in DOMAIN q PROVE \E u \in 1..(k + 1) : q[i] = Entry(units, u)
        <4>1. CASE i \in DOMAIN s /\ q[i] = s[i]
          <5>1. PICK u \in 1..k : s[i] = Entry(units, u) BY <4>1, <3>3
          <5>2. u \in 1..(k + 1) OBVIOUS
          <5> QED BY <4>1, <5>1, <5>2
        <4>2. CASE q[i] = Entry(units, k + 1)
          <5>1. k + 1 \in 1..(k + 1) OBVIOUS
          <5> QED BY <4>2, <5>1
        <4> QED BY <4>1, <4>2, <3>2
      <3>5. ASSUME NEW i \in DOMAIN q, NEW j \in DOMAIN q, i <= j PROVE q[i].unit <= q[j].unit
        <4>0. Entry(units, k + 1).unit = k + 1 BY <1>u, <2>2
        <4>1. CASE i \in DOMAIN s /\ q[i] = s[i]
          <5>1. CASE j \in DOMAIN s /\ q[j] = s[j] BY <5>1, <4>1, <3>5, <2>1 DEF EntriesUpTo
          <5>2. CASE j > Len(s) /\ q[j] = Entry(units, k + 1)
            <6>1. PICK u \in 1..k : s[i] = Entry(units, u) BY <4>1, <3>3
            <6>2. Entry(units, u).unit = u BY <1>u
            <6> QED BY <6>1, <6>2, <5>2, <4>0, <4>1
          <5> QED BY <5>1, <5>2, <3>2
        <4>2. CASE i > Len(s) /\ q[i] = Entry(units, k + 1)
          <5>1. j > Len(s) BY <4>2, <3>1, <3>5
          <5>2. q[j] = Entry(units, k + 1) BY <5>1, <3>1, <3>2
          <5> QED BY <5>2, <4>0, <4>2
        <4> QED BY <4>1, <4>2, <3>2
      <3> QED BY <3>1, <3>4, <3>5 DEF EntriesUpTo
    <2>6. P(k) BY <2>3, <2>5, Zenon
    <2>7. k \in 0..(n - 1) OBVIOUS
    <2> HIDE DEF P
    <2> QED BY <2>6, <2>7
  <1> HIDE DEF T
  <1>9. \A k \in 0..(n - 1) : k \in T
    <2>1. n - 1 \in Nat OBVIOUS
    <2> QED BY <2>1, <1>7, <1>8, Climb, Zenon
  <1>10. n - 1 \in 0..(n - 1) /\ (n - 1) + 1 = n OBVIOUS
  <1>11. P(n - 1) BY <1>9, <1>10 DEF T
  <1> HIDE DEF P
  <1>12. EntriesUpTo(f[n], units, n) BY <1>10, <1>11 DEF P
  <1> QED BY <1>4, <1>5, <1>12

\* So what is said of the bucket holds from the start.
LEMMA BucketStart == BucketInit => BucketOK /\ GroupsOK(groups)
  <1> SUFFICES ASSUME BucketInit PROVE BucketOK /\ GroupsOK(groups) OBVIOUS
  <1>1. PICK n \in 1..MaxUnits : \E units \in [1..n -> Kinds] : tickets = Bucket(units)
    BY DEF BucketInit
  <1>2. PICK units \in [1..n -> Kinds] : tickets = Bucket(units)
    BY <1>1
  <1>3. n \in Nat \ {0} BY BucketAssumption
  <1>4. EntriesUpTo(tickets, units, n) BY <1>2, <1>3, BucketEntries
  <1>5. tickets \in Seq(Ticket) /\ InOrder BY <1>4 DEF EntriesUpTo, InOrder
  <1>7. PartyFriends
    <2> SUFFICES ASSUME NEW i \in DOMAIN tickets, NEW j \in DOMAIN tickets,
                        tickets[i].unit = tickets[j].unit, {i, j} \in blocked
                 PROVE  FALSE
      BY DEF PartyFriends
    <2>1. {i, j} \in kSubset(2, DOMAIN tickets)
          /\ \A x, y \in {i, j} : x # y => tickets[x].unit # tickets[y].unit
      BY DEF BucketInit, kSubset
    <2>2. i = j BY <2>1
    <2>3. {i, j} = {i} BY <2>2
    <2>4. Cardinality({i}) = 2 BY <2>1, <2>3 DEF kSubset
    <2>5. Cardinality({i}) = 1 BY FS_Singleton, Zenon
    <2> QED BY <2>4, <2>5
  <1>8. overdue \in 0..Len(tickets) BY DEF BucketInit
  <1>9. GroupsOK(groups)
    <2>1. groups = {UnitOf(i) : i \in DOMAIN tickets} BY DEF BucketInit, GroupTickets, UnitOf
    <2> QED BY <2>1 DEF GroupsOK
  <1> QED BY <1>5, <1>7, <1>8, <1>9 DEF BucketOK

LEMMA MatcherStart == BucketInit => PackedInv /\ EachSeats /\ Earned /\ NothingLeft
  <1> SUFFICES ASSUME BucketInit PROVE PackedInv /\ EachSeats /\ Earned /\ NothingLeft OBVIOUS
  <1>1. BucketOK /\ GroupsOK(groups) BY BucketStart
  <1>2. matches = <<>> /\ done = FALSE /\ groups = {UnitOf(i) : i \in DOMAIN tickets}
    BY DEF BucketInit, GroupTickets, UnitOf
  <1>3. matches \in Seq(SUBSET DOMAIN tickets) /\ DOMAIN matches = {} /\ Range(matches) = {}
    BY <1>2 DEF Range
  <1>4. PartiesWhole
    <2>1. UNION groups = DOMAIN tickets
      <3>1. \A i \in DOMAIN tickets : i \in UnitOf(i) /\ UnitOf(i) \subseteq DOMAIN tickets
        BY DEF UnitOf
      <3> QED BY <1>2, <3>1
    <2>2. \A A \in groups, i \in DOMAIN tickets : i \in A => UnitOf(i) \subseteq A BY <1>2 DEF UnitOf
    <2>3. Everybody = groups BY <1>3 DEF Everybody
    <2> QED BY <2>1, <2>2, <2>3, <1>3 DEF PartiesWhole
  <1>5. PackedInv BY <1>1, <1>3, <1>4 DEF PackedInv, MatchesOK
  <1> QED BY <1>2, <1>3, <1>5 DEF EachSeats, Earned, NothingLeft

-----------------------------------------------------------------------------
\* The invariant of the matcher.
MatcherInv == PackedInv /\ EachSeats /\ Earned /\ NothingLeft

LEMMA PackedStutter ==
  ASSUME PackedInv, UNCHANGED bucketVars
  PROVE  PackedInv'
  <1>1. UNCHANGED <<tickets, blocked, overdue>> /\ UNCHANGED <<groups, matches, done>>
    BY DEF bucketVars
  <1>2. BucketOK /\ GroupsOK(groups) /\ MatchesOK /\ PartiesWhole BY DEF PackedInv
  <1>3. BucketOK' BY <1>1, <1>2, BucketStays
  <1>4. GroupsOK(groups)' BY <1>1, <1>2 DEF GroupsOK, UnitOf
  <1>5. MatchesOK' BY <1>1, <1>2 DEF MatchesOK
  <1>6. PartiesWhole' BY <1>1, <1>2 DEF PartiesWhole, Everybody, UnitOf
  <1> QED BY <1>3, <1>4, <1>5, <1>6 DEF PackedInv

LEMMA MatcherStutter ==
  ASSUME MatcherInv, UNCHANGED bucketVars
  PROVE  MatcherInv'
  <1>1. UNCHANGED <<tickets, blocked, overdue>> /\ UNCHANGED <<groups, matches, done>>
    BY DEF bucketVars
  <1>2. PackedInv /\ BucketOK BY DEF MatcherInv, PackedInv
  <1>0. tickets \in Seq(Ticket) BY <1>2 DEF BucketOK
  <1>3. PackedInv' BY <1>2, PackedStutter
  <1>4. EachSeats'
    <2>1. \A m : MatchSeats(m)' <=> MatchSeats(m) BY <1>1, BucketStays
    <2> QED BY <2>1, <1>1 DEF EachSeats, MatcherInv
  <1>5. NothingLeft'
    <2>1. \A gs, a : (Makes(gs, a)' <=> Makes(gs, a)) /\ (GivesUp(gs, a)' <=> GivesUp(gs, a))
      BY <1>0, <1>1, MakesStays
    <2> QED BY <2>1, <1>1 DEF NothingLeft, Anchors, MatcherInv
  <1>6. Earned' BY <1>1, <1>2, EarnedKept DEF MatcherInv
  <1> QED BY <1>3, <1>4, <1>5, <1>6 DEF MatcherInv

LEMMA MatcherInduction == BucketSpec => []MatcherInv
  <1>1. BucketInit => MatcherInv BY MatcherStart DEF MatcherInv
  <1>2. ASSUME MatcherInv, [BucketNext]_bucketVars PROVE MatcherInv'
    <2>1. CASE BucketNext
      BY <1>2, <2>1, PackedStep, SeatedStep, EarnedStep, NothingLeftStep DEF MatcherInv
    <2>2. CASE UNCHANGED bucketVars BY <1>2, <2>2, MatcherStutter
    <2> QED BY <1>2, <2>1, <2>2
  <1> QED BY <1>1, <1>2, PTL DEF BucketSpec

\* Whatever the limits, parties stay whole and nobody is seated twice, or lost.
THEOREM MatcherWhole == BucketSpec => []PartiesWhole
  <1>1. BucketInit => PackedInv BY MatcherStart
  <1>2. PackedInv /\ [BucketNext]_bucketVars => PackedInv'
    <2> SUFFICES ASSUME PackedInv, [BucketNext]_bucketVars PROVE PackedInv' OBVIOUS
    <2>1. CASE BucketNext BY <2>1, PackedStep
    <2>2. CASE UNCHANGED bucketVars BY <2>2, PackedStutter
    <2> QED BY <2>1, <2>2
  <1>3. PackedInv => PartiesWhole BY DEF PackedInv
  <1> QED BY <1>1, <1>2, <1>3, PTL DEF BucketSpec

\* However many queue, in parties, alone or with their lobbies, whatever they ask for and
\* whoever has blocked whom: a match is of whole parties that may meet, and it finds its seats.
THEOREM MatcherSeats == BucketSpec => []MatchesSeat
  <1>1. MatcherInv => MatchesSeat
    BY Zenon DEF MatcherInv, PackedInv, EachSeats, MatchSeats, MatchesSeat
  <1> QED BY <1>1, MatcherInduction, PTL

\* Whatever each asks for, a match has an anchor that asked for so many players, or has
\* waited; and among the like nobody is seated before an older ticket.
THEOREM MatcherEarns == BucketSpec => []MatchesEarned
  <1>1. MatcherInv => MatchesEarned BY EarnedIs DEF MatcherInv
  <1> QED BY <1>1, MatcherInduction, PTL

\* The matcher stops only where no group left could anchor a match, but one that asks
\* for fewer players than an older one that gave up.
THEOREM MatcherExhausts == BucketSpec => []NothingLeft
  <1>1. MatcherInv => NothingLeft BY DEF MatcherInv
  <1> QED BY <1>1, MatcherInduction, PTL

=============================================================================
