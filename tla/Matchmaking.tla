----------------------------- MODULE Matchmaking -----------------------------
(***************************************************************************)
(* Gamend.Matchmaking, its Worker and its Match: tickets are queued, swept *)
(* into groups, claimed, and each claim either becomes a match, its tickets*)
(* naming the lobby their players were seated in, or is undone.            *)
(*                                                                         *)
(* Sweeps run on every node and read the queue without a lock; only the    *)
(* claim is locked.  Who seats a claimed match, settles an accept or undoes*)
(* a claim is a task, one statement or call a step.  Which groups a sweep  *)
(* may form is left open (Matcher), and so is who may enter a lobby, but   *)
(* that a player is in one lobby at most.                                  *)
(***************************************************************************)
EXTENDS Integers, FiniteSets

CONSTANTS
  Users,
  PartyOf,      \* the party of each user, or the user alone
  MaxPlayers,   \* of a match
  Asks,         \* whether a match may ask, and need not ask, for an accept
  OneJoin,      \* whether a player's client waits for one join to end
  Callers,      \* numbers for the like requests, and sweeps, that may overlap
  MaxTickets, MaxClaims, MaxChecks, MaxLobbies, MaxTasks, \* bounds on what is ever made
  MaxAged,      \* bound: how many claims there may be when a minute goes by
  Crashes       \* whether a process may die between two steps

ASSUME UsersAssumption   == IsFiniteSet(Users)
ASSUME PartyOfAssumption == DOMAIN PartyOf = Users
ASSUME AsksAssumption    == Asks \subseteq BOOLEAN
ASSUME CallersAssumption == Callers \subseteq Nat
ASSUME FlagsAssumption   == OneJoin \in BOOLEAN /\ Crashes \in BOOLEAN
ASSUME BoundsAssumption  ==
  {MaxPlayers, MaxTickets, MaxClaims, MaxChecks, MaxLobbies, MaxTasks, MaxAged} \subseteq Nat

VARIABLES
  made,         \* how many tickets there are; the older one is the smaller
  holder,       \* the user of each ticket
  status,       \* "none", "queued", "matched" or "cancelled"
  mark,         \* matched_at: which claim matched it, 0 for none
  match,        \* match_id; Gone when its lobby was deleted, which is null too
  claims,       \* how many claims were made
  lobbies,      \* how many match lobbies were made, ...
  standing,     \* ... and those not deleted since
  kept,         \* history: those the game would not let a failed match delete
  seat,         \* users.lobby_id, when it is a match's; 0 for any other, or none
  checks,       \* the accept checks, as ReadyCheck keeps them
  aged, stale,  \* the claims made, and the checks settled, over a minute ago
  tasks,
  lost,         \* history: the claimed tickets whose process died, or raised
  slipped,      \* history: those an admitted join passed over for their age
  been          \* history: who took a seat in which match's lobby

ticketVars == <<made, holder, status, mark, match>>
lobbyVars == <<lobbies, standing, kept, seat, been>>
clockVars == <<aged, stale>>
otherVars == <<claims, lobbyVars, checks, clockVars, lost, slipped>>
vars == <<ticketVars, otherVars, tasks>>

Tickets == 1..MaxTickets
Lobbies == 1..MaxLobbies
Gone == MaxLobbies + 1
Claimed == SUBSET (Tickets \X (1..MaxClaims))      \* tickets, with the mark of the claim
Answers == {"pending", "ready", "declined", "timed_out"}

NoCheck == [asked |-> {}, answer |-> [t \in Tickets |-> "pending"], status |-> "none"]
Checks == [asked : Claimed, answer : [Tickets -> Answers],
           status : {"none", "pending", "passed", "failed"}]

Joining == [op : {"join"}, by : Callers, users : SUBSET Users]
Forming == [op : {"claim"}, by : Callers, group : SUBSET Tickets]
Holding == [op : {"start", "create", "requeue"}, held : Claimed]
Settling == [op : {"settle"}, check : 1..MaxChecks]
Seating == [op : {"seat"}, held : Claimed, lobby : Lobbies, todo : SUBSET Users,
            failed : SUBSET Users]
Dropping == [op : {"discard"}, out : Claimed, held : Claimed]
Tasks == Joining \cup Forming \cup Holding \cup Settling \cup Seating \cup Dropping

TypeOK ==
  /\ made \in 0..MaxTickets /\ claims \in 0..MaxClaims /\ lobbies \in 0..MaxLobbies
  /\ holder \in [1..made -> Users]
  /\ status \in [Tickets -> {"none", "queued", "matched", "cancelled"}]
  /\ mark \in [Tickets -> 0..claims]
  /\ match \in [Tickets -> 0..Gone]
  /\ standing \subseteq 1..lobbies /\ kept \subseteq 1..lobbies
  /\ seat \in [Users -> 0..MaxLobbies]
  /\ checks \in [1..MaxChecks -> Checks]
  /\ aged \in 0..claims /\ stale \subseteq 1..MaxChecks
  /\ \A t \in tasks : t \in Tasks
  /\ lost \in Claimed /\ slipped \subseteq Tickets /\ been \subseteq Users \X Lobbies

Init ==
  /\ made = 0 /\ claims = 0 /\ lobbies = 0
  /\ holder = <<>>
  /\ status = [t \in Tickets |-> "none"]
  /\ mark = [t \in Tickets |-> 0]
  /\ match = [t \in Tickets |-> 0]
  /\ standing = {} /\ kept = {}
  /\ seat = [u \in Users |-> 0]
  /\ checks = [c \in 1..MaxChecks |-> NoCheck]
  /\ aged = 0 /\ stale = {}
  /\ tasks = {} /\ lost = {} /\ slipped = {} /\ been = {}

-----------------------------------------------------------------------------
\* What the queries see.

Made == 1..made
Queued == {t \in Made : status[t] = "queued"}
Unit(u) == {v \in Users : PartyOf[v] = PartyOf[u]}
TicketsOf(us) == {t \in Made : holder[t] \in us}
TicketsIn(held) == {h[1] : h \in held}
Unnamed(t) == match[t] \in {0, Gone}
AsRead(ts) == {<<t, mark[t]>> : t \in ts}

\* held_by_claim/1: only tickets that still carry the mark of the claim.
HeldByClaim(held) == {h[1] : h \in {g \in held : /\ status[g[1]] = "matched"
                                                 /\ mark[g[1]] = g[2] /\ Unnamed(g[1])}}

Undecided(t) == status[t] = "matched" /\ match[t] = 0
Lost(t) == <<t, mark[t]>> \in lost
Pending(c) == checks[c].status = "pending"
In == {"ready", "pending"}

\* ensure_none_queued/1: a ticket counts while it is queued, and while it is claimed
\* and its check is pending, or settled within the minute with its holder in, or,
\* if no check ever asked it, it was claimed within the minute.
Asking(t) == {c \in 1..MaxChecks : checks[c].status # "none" /\ t \in TicketsIn(checks[c].asked)}
Asked(t) == \E c \in Asking(t) : Pending(c) \/ (c \notin stale /\ checks[c].answer[t] \in In)
Counts(t) ==
  \/ status[t] = "queued"
  \/ /\ status[t] = "matched" /\ Unnamed(t)
     /\ Asked(t) \/ (Asking(t) = {} /\ mark[t] > aged)
OnlyQueued(us) == TicketsOf(us) \cap Queued = {}         \* a mutant
NoneQueued(us) == \A t \in TicketsOf(us) : ~Counts(t)

\* The guard no longer sees a claim, or a settlement, this old.
TooOld(t) == IF Asking(t) = {} THEN mark[t] <= aged ELSE Asking(t) \subseteq stale

Spawn(t) == Cardinality(tasks) < MaxTasks /\ tasks' = tasks \cup {t}
\* Alike tasks are told apart by a number.
Numbered(t) == \A i \in Callers : i < t.by => [t EXCEPT !.by = i] \in tasks
Continue(t, ts) == tasks' = (tasks \ {t}) \cup ts

-----------------------------------------------------------------------------
\* Joining the queue and leaving it.

\* join/5: a party's leader joins for all; the guard is read, ...
Join(u, by) ==
  /\ NoneQueued(Unit(u))
  /\ OneJoin => \A t \in tasks : t.op = "join" => t.users # Unit(u)
  /\ made + Cardinality(Unit(u)) <= MaxTickets
  /\ LET t == [op |-> "join", by |-> by, users |-> Unit(u)] IN Numbered(t) /\ Spawn(t)
  /\ slipped' = slipped \cup {t \in TicketsOf(Unit(u)) : Undecided(t) /\ ~Lost(t) /\ TooOld(t)}
  /\ UNCHANGED <<ticketVars, claims, lobbyVars, checks, clockVars, lost>>

\* ... and the tickets are written in one transaction, which the unique index
\* on queued tickets refuses if one of them is queued by now.
InsertTickets(t) ==
  /\ t.op = "join"
  /\ LET n == Cardinality(t.users) IN
     IF TicketsOf(t.users) \cap Queued = {} /\ made + n <= MaxTickets
     THEN LET of == CHOOSE of \in [made + 1 .. made + n -> t.users] :
                      \A u \in t.users : \E i \in DOMAIN of : of[i] = u
          IN
            /\ made' = made + n
            /\ holder' = [i \in 1..made + n |-> IF i <= made THEN holder[i] ELSE of[i]]
            /\ status' = [i \in Tickets |-> IF i \in DOMAIN of THEN "queued" ELSE status[i]]
            /\ UNCHANGED <<mark, match>>
     ELSE UNCHANGED ticketVars
  /\ Continue(t, {})
  /\ UNCHANGED otherVars

CancelThese(ts) ==
  status' = [t \in Tickets |-> IF t \in ts THEN "cancelled" ELSE status[t]]

\* cancel/1 after its decline, which is Answer, and prune_offline/0: a queued
\* ticket goes, and the queued tickets of its party.
CancelUnit(u) ==
  /\ TicketsOf({u}) \cap Queued # {}
  /\ CancelThese(TicketsOf(Unit(u)) \cap Queued)
  /\ UNCHANGED <<made, holder, mark, match, otherVars, tasks>>

\* cancel_ticket/1, for admins
CancelTicket(t) ==
  /\ t \in Queued
  /\ CancelThese({t})
  /\ UNCHANGED <<made, holder, mark, match, otherVars, tasks>>

-----------------------------------------------------------------------------
\* The sweep.

\* A sweep reads the queue and forms a group: whole units, as Matcher packs them.
Propose(group, by) ==
  /\ group \subseteq Queued
  /\ Cardinality(group) \in 1..MaxPlayers
  /\ \A t \in group, s \in Queued : holder[s] \in Unit(holder[t]) => s \in group
  /\ claims < MaxClaims
  /\ LET t == [op |-> "claim", by |-> by, group |-> group] IN Numbered(t) /\ Spawn(t)
  /\ UNCHANGED <<ticketVars, otherVars>>

\* claim/1, under the sweep's lock: all of them, or what it flipped is put back,
\* which leaves them queued.
PutBack(group) == group \cap Queued
Claim(t) ==
  /\ t.op = "claim"
  /\ IF t.group \subseteq Queued /\ claims < MaxClaims
     THEN /\ claims' = claims + 1
          /\ status' = [s \in Tickets |-> IF s \in t.group THEN "matched" ELSE status[s]]
          /\ mark' = [s \in Tickets |-> IF s \in t.group THEN claims + 1 ELSE mark[s]]
          /\ Continue(t, {[op |-> "start", held |-> t.group \X {claims + 1}]})
     ELSE /\ status' = [s \in Tickets |-> IF s \in PutBack(t.group) THEN "queued" ELSE status[s]]
          /\ mark' = [s \in Tickets |-> IF s \in PutBack(t.group) THEN 0 ELSE mark[s]]
          /\ UNCHANGED claims
          /\ Continue(t, {})
  /\ UNCHANGED <<made, holder, match, lobbyVars, checks, clockVars, lost, slipped>>

\* Match.start/1 asks for an accept, if the tickets do.  The check is refused
\* while a player is on another; then the claim is undone.
Start(t, asks) ==
  /\ t.op = "start"
  /\ IF ~asks THEN checks' = checks /\ Continue(t, {[t EXCEPT !.op = "create"]})
     ELSE \/ checks' = checks /\ Continue(t, {[t EXCEPT !.op = "requeue"]})
          \/ \E c \in 1..MaxChecks :
               /\ \A d \in 1..c - 1 : checks[d].status # "none"
               /\ checks[c].status = "none"
               /\ checks' = [checks EXCEPT ![c].status = "pending", ![c].asked = t.held]
               /\ Continue(t, {})
  /\ UNCHANGED <<ticketVars, claims, lobbyVars, clockVars, lost, slipped>>

-----------------------------------------------------------------------------
\* The accept check, as ReadyCheck has it: the last yes passes it, the first no
\* or the deadline fails it, once; what follows runs after the commit.

Resolved(c, answer, to) ==
  /\ checks' = [checks EXCEPT ![c].answer = answer, ![c].status = to]
  /\ IF to = "pending" THEN UNCHANGED tasks
     ELSE tasks' = tasks \cup {[op |-> "settle", check |-> c]}
  /\ UNCHANGED <<ticketVars, claims, lobbyVars, clockVars, lost, slipped>>

Answer(c, t, yes) ==
  /\ Pending(c) /\ t \in TicketsIn(checks[c].asked) /\ checks[c].answer[t] = "pending"
  /\ LET answer == [checks[c].answer EXCEPT ![t] = IF yes THEN "ready" ELSE "declined"]
     IN  Resolved(c, answer,
           IF ~yes THEN "failed"
           ELSE IF \A s \in TicketsIn(checks[c].asked) : answer[s] = "ready" THEN "passed"
           ELSE "pending")

ExpiresUnanswered(c) ==                                 \* a mutant
  /\ Pending(c) /\ \A t \in TicketsIn(checks[c].asked) : checks[c].answer[t] = "pending"
  /\ Resolved(c, [t \in Tickets |-> IF t \in TicketsIn(checks[c].asked)
                                    THEN "timed_out" ELSE checks[c].answer[t]], "failed")
Expire(c) ==
  /\ Pending(c)
  /\ Resolved(c, [t \in Tickets |-> IF t \in TicketsIn(checks[c].asked)
                                       /\ checks[c].answer[t] = "pending"
                                    THEN "timed_out" ELSE checks[c].answer[t]], "failed")

\* accept_resolved/1: the tickets still matched and unnamed are read, and seated if
\* all of them accepted; else who was in goes back, and the others are out.
Unanimous(c, held) == checks[c].status = "passed" /\ TicketsIn(held) = TicketsIn(checks[c].asked)
OnlyReady(c, held) == {h \in held : checks[c].answer[h[1]] = "ready"}     \* a mutant
StillIn(c, held) == {h \in held : checks[c].answer[h[1]] \in In}
Out(c, held) == {h \in held : checks[c].answer[h[1]] \notin In}
Settle(t) ==
  /\ t.op = "settle"
  /\ LET held == AsRead({s \in TicketsIn(checks[t.check].asked) :
                           status[s] = "matched" /\ Unnamed(s)})
     IN  Continue(t, {IF Unanimous(t.check, held)
                      THEN [op |-> "create", held |-> held]
                      ELSE [op |-> "discard", out |-> Out(t.check, held),
                            held |-> StillIn(t.check, held)]})
  /\ UNCHANGED <<ticketVars, otherVars>>

-----------------------------------------------------------------------------
\* Seating a claimed match.

\* create_lobby/1 may be refused; the claim is undone.
Create(t) ==
  /\ t.op = "create"
  /\ \/ UNCHANGED <<lobbies, standing>> /\ Continue(t, {[t EXCEPT !.op = "requeue"]})
     \/ /\ lobbies < MaxLobbies
        /\ lobbies' = lobbies + 1
        /\ standing' = standing \cup {lobbies + 1}
        /\ Continue(t, {[op |-> "seat", held |-> t.held, lobby |-> lobbies + 1, failed |-> {},
                         todo |-> {holder[s] : s \in TicketsIn(t.held)}]})
  /\ UNCHANGED <<ticketVars, claims, kept, seat, been, checks, clockVars, lost, slipped>>

\* join_lobby/3, player by player: refused to who is in a lobby already, this
\* one or any other, if it is gone, or by the game.
Seat(t) ==
  /\ t.op = "seat"
  /\ \E u \in t.todo :
       \/ /\ seat[u] = 0 /\ t.lobby \in standing
          /\ seat' = [seat EXCEPT ![u] = t.lobby]
          /\ been' = been \cup {<<u, t.lobby>>}
          /\ Continue(t, {[t EXCEPT !.todo = @ \ {u}]})
       \/ /\ UNCHANGED <<seat, been>>
          /\ Continue(t, {[t EXCEPT !.todo = @ \ {u}, !.failed = @ \cup {u}]})
  /\ UNCHANGED <<ticketVars, claims, lobbies, standing, kept, checks, clockVars, lost,
                 slipped>>

\* A lobby goes: its players are out, and tickets that name it name none.
RowsOnly(l) == standing' = standing \ {l} /\ UNCHANGED <<seat, match>>     \* a mutant
Demolish(l) ==
  /\ standing' = standing \ {l}
  /\ seat' = [u \in Users |-> IF seat[u] = l THEN 0 ELSE seat[u]]
  /\ match' = [t \in Tickets |-> IF match[t] = l THEN Gone ELSE match[t]]

\* Somebody was refused: the lobby is dropped, unless the game refuses that, which
\* nobody looks at; then who was refused is out and the others go back.
AnySeated(t) == t.failed # {holder[s] : s \in TicketsIn(t.held)}  \* a mutant
AllSeated(t) == t.failed = {}
DropLobby(t) ==
  /\ t.op = "seat" /\ t.todo = {} /\ ~AllSeated(t)
  /\ \/ Demolish(t.lobby) /\ UNCHANGED kept
     \/ kept' = kept \cup {t.lobby} /\ UNCHANGED <<standing, seat, match>>
  /\ LET out == {h \in t.held : holder[h[1]] \in t.failed}
     IN  Continue(t, {[op |-> "discard", out |-> out, held |-> t.held \ out]})
  /\ UNCHANGED <<made, holder, status, mark, claims, lobbies, been, checks, clockVars, lost,
                 slipped>>

\* announce_match/2: assign_lobby/2 names the lobby on all tickets, if it stands and
\* the claim holds them all; or the claim is undone.
Announce(t) ==
  /\ t.op = "seat" /\ t.todo = {} /\ AllSeated(t)
  /\ IF t.lobby \in standing /\ HeldByClaim(t.held) = TicketsIn(t.held)
     THEN /\ match' = [s \in Tickets |-> IF s \in TicketsIn(t.held) THEN t.lobby ELSE match[s]]
          /\ Continue(t, {})
     ELSE UNCHANGED match /\ Continue(t, {[op |-> "requeue", held |-> t.held]})
  /\ UNCHANGED <<made, holder, status, mark, otherVars>>

\* discard/2, then requeue/2 of the others.
Discard(t) ==
  /\ t.op = "discard"
  /\ CancelThese(HeldByClaim(t.out))
  /\ Continue(t, {[op |-> "requeue", held |-> t.held]})
  /\ UNCHANGED <<made, holder, mark, match, otherVars>>

\* requeue/2, one statement: if the unique index refuses one ticket it raises, and
\* none goes back.
OneQueuedEach(ts) ==
  \A t, s \in ts \cup Queued : holder[t] = holder[s] => t = s
Requeue(t) ==
  /\ t.op = "requeue"
  /\ LET back == HeldByClaim(t.held) IN
     IF OneQueuedEach(back)
     THEN /\ status' = [s \in Tickets |-> IF s \in back THEN "queued" ELSE status[s]]
          /\ mark' = [s \in Tickets |-> IF s \in back THEN 0 ELSE mark[s]]
          /\ match' = [s \in Tickets |-> IF s \in back THEN 0 ELSE match[s]]
          /\ UNCHANGED lost
     ELSE lost' = lost \cup t.held /\ UNCHANGED <<status, mark, match>>
  /\ Continue(t, {})
  /\ UNCHANGED <<made, holder, claims, lobbyVars, checks, clockVars, slipped>>

-----------------------------------------------------------------------------
\* The rest of the game: a player leaves the lobby he is in; an admin or the
\* retention deletes a match's lobby.
Depart(u) ==
  /\ seat[u] # 0
  /\ seat' = [seat EXCEPT ![u] = 0]
  /\ UNCHANGED <<ticketVars, claims, lobbies, standing, kept, been, checks, clockVars, tasks,
                 lost, slipped>>

DeleteLobby(l) ==
  /\ l \in standing
  /\ Demolish(l)
  /\ UNCHANGED <<made, holder, status, mark, claims, lobbies, kept, been, checks, clockVars,
                 tasks, lost, slipped>>

\* What a task, or the check it settles, will still decide on.
Held(t) == CASE t.op \in {"start", "create", "requeue", "seat"} -> t.held
             [] t.op = "discard" -> t.held \cup t.out
             [] t.op = "settle" -> checks[t.check].asked
             [] OTHER -> {}

\* A process dies between two steps; nothing takes up what it held.
Crash(t) ==
  /\ Crashes
  /\ Continue(t, {})
  /\ lost' = lost \cup {h \in Held(t) : status[h[1]] = "matched" /\ mark[h[1]] = h[2]
                                      /\ match[h[1]] = 0}
  /\ UNCHANGED <<ticketVars, claims, lobbyVars, checks, clockVars, slipped>>

\* A minute goes by.  Only joins look at the clock, and age only admits them, so
\* that minutes which begin at any moment show all there is to see.
Settled == {c \in 1..MaxChecks : checks[c].status \in {"passed", "failed"}}
Minute ==
  /\ aged' = claims /\ stale' = Settled /\ clockVars' # clockVars
  /\ claims <= MaxAged
  /\ UNCHANGED <<ticketVars, claims, lobbyVars, checks, lost, slipped, tasks>>

-----------------------------------------------------------------------------
Step(t) ==
  \/ InsertTickets(t) \/ Claim(t) \/ (\E asks \in Asks : Start(t, asks)) \/ Settle(t)
  \/ Create(t) \/ Seat(t) \/ DropLobby(t) \/ Announce(t) \/ Discard(t) \/ Requeue(t)

Next ==
  \/ \E t \in tasks : Step(t) \/ Crash(t)
  \/ \E u \in Users : CancelUnit(u) \/ Depart(u) \/ \E by \in Callers : Join(u, by)
  \/ \E t \in Made : CancelTicket(t)
  \/ \E group \in SUBSET Queued, by \in Callers : Propose(group, by)
  \/ \E c \in 1..MaxChecks : \/ Expire(c)
                            \/ \E t \in Tickets, yes \in BOOLEAN : Answer(c, t, yes)
  \/ \E l \in Lobbies : DeleteLobby(l)
  \/ Minute

Spec == Init /\ [][Next]_vars

\* Who holds ticket t: the tasks and the checks that will still decide on it.
HoldingTasks(t) == {x \in tasks : <<t, mark[t]>> \in Held(x)}
HoldingChecks(t) == {c \in 1..MaxChecks : Pending(c) /\ <<t, mark[t]>> \in checks[c].asked}

\* The tickets of claim n that nobody has decided on, and who will.
OpenIn(n) == {t \in Made : Undecided(t) /\ mark[t] = n /\ ~Lost(t)}
DecidesOn(x, n) == \E h \in Held(x) : h[2] = n

\* A task goes on; the deadline of an accept comes (ReadyCheck, DeadlinesEnd).
FairSpec ==
  /\ Spec
  /\ \A n \in 1..MaxClaims : WF_vars(\E x \in tasks : DecidesOn(x, n) /\ Step(x))
  /\ \A c \in 1..MaxChecks : WF_vars(Expire(c))

-----------------------------------------------------------------------------
\* Properties.

\* A claimed ticket is in the hands of one claim, and of one only: overlapping
\* sweeps, accepts and their settlements never undo or seat each other's tickets.
\* Only a process that dies, or a requeue that raises, drops any
\* (matchmaking.ex:511-531, 583-590).
ClaimsAreHeld ==
  \A t \in Made : Undecided(t) =>
    Cardinality(HoldingTasks(t)) + Cardinality(HoldingChecks(t)) = (IF Lost(t) THEN 0 ELSE 1)

\* While no process dies, a claimed ticket stays in the hands of its claim: on
\* failure it goes back to the queue (match.ex:8-9, 11-12).
NoneStranded ==
  \A t \in Made : Undecided(t) => HoldingTasks(t) \cup HoldingChecks(t) # {}

\* A match names its lobby on every ticket of its claim or on none, and on none
\* whose player never had a seat there (matchmaking.ex:589-613, match.ex:184-217).
MatchesWhole ==
  \A t, s \in Made : (match[t] \in Lobbies /\ mark[s] = mark[t]) =>
    match[s] = match[t] /\ <<holder[s], match[t]>> \in been

\* Nobody sits in a match's lobby without a match: whoever does has a ticket that
\* names it, or is being seated, but for the death of who seats him and for a lobby
\* the game would not let go of (match.ex:200-217, 229-245).
NobodyLeftBehind ==
  \A u \in Users : seat[u] \in Lobbies \ kept =>
    \/ \E t \in TicketsOf({u}) : match[t] = seat[u] \/ Lost(t)
    \/ \E x \in tasks : x.op = "seat" /\ x.lobby = seat[u]

\* A player whose client waits for one join to end never waits on two tickets at
\* once, one of which could seat him while the other is seated or asked, unless he
\* joined again past one that had been claimed, or asked, over a minute before
\* (matchmaking.ex:174-190).
Waiting(t) ==
  \/ status[t] = "queued"
  \/ Undecided(t) /\ ~Lost(t) /\ \A c \in Asking(t) : checks[c].answer[t] \in In
OneTicketEach ==
  \A t, s \in Made : (t # s /\ holder[t] = holder[s] /\ Waiting(t) /\ Waiting(s)) =>
    t \in slipped \/ s \in slipped

\* Every claim ends: each of its tickets is seated, goes back in the queue, or is
\* cancelled, but for the death of who holds it and the requeue that raises.
ClaimsEnd == \A n \in 1..MaxClaims : OpenIn(n) # {} ~> OpenIn(n) = {}
=============================================================================
