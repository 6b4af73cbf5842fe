----------------------------- MODULE ReadyCheck -----------------------------
(***************************************************************************)
(* Gamend.ReadyChecks: a set of players must each answer before something  *)
(* proceeds.  A lobby or a party has a board over its members (kind        *)
(* "ready", a toggle); matchmaking asks each player of a match to accept   *)
(* (kind "accept", one answer, a deadline, the first no ends it).          *)
(*                                                                         *)
(* Whatever the code does under the lock of one check, or of one lobby or  *)
(* party, in one transaction, is one step here.  What it read before the   *)
(* lock, and what it still has to do after the commit, is a task: between  *)
(* two steps of one request any other request may run, and the process     *)
(* may die.                                                                *)
(***************************************************************************)
EXTENDS Integers, FiniteSets

CONSTANTS
  Users,
  Rooms,        \* the lobbies and parties a board may be about
  Parties,      \* the rooms that are parties: the party lane
  Hosted,       \* the rooms deleted when their last member leaves
  Bots,         \* the users the game answers for (answer_for/3)
  Matches,      \* the groups of players matchmaking may ask
  Timed,        \* whether a room's board may, and need, have a deadline
  NoRoom,       \* the subject of a matchmaking check
  NoUser,
  MaxChecks,    \* bound: how many checks are ever opened
  MaxTasks,     \* bound: how many requests are between two steps
  Mortal        \* the steps before which a process may die

ASSUME MaxChecksAssumption == MaxChecks \in Nat
ASSUME PartiesAssumption   == Parties \subseteq Rooms
ASSUME BotsAssumption      == Bots \subseteq Users
ASSUME MatchesAssumption   == Matches \subseteq SUBSET Users
ASSUME TimedAssumption     == Timed \subseteq BOOLEAN
ASSUME NoRoomAssumption    == NoRoom \notin Rooms
ASSUME NoUserAssumption    == NoUser \notin Users
ASSUME MortalAssumption    == Mortal \subseteq {"answer", "open", "quiet", "insert",
                                            "leaving", "left", "drop", "cancel"}

VARIABLES
  standing,     \* the rooms that exist
  members,      \* users.lobby_id and users.party_id, by room
  made,         \* how many checks were opened: their ids grow with time
  room,         \* the subject of each check
  status,       \* its status, with the reason of the resolved ones
  answer,       \* each participant's state; "none" for who is not on it
  deadline,     \* whether it has one
  tasks         \* requests between two steps

vars == <<standing, members, made, room, status, answer, deadline, tasks>>
seatVars  == <<standing, members>>
checkVars == <<made, room, status, answer, deadline>>

Ids == 1..MaxChecks
Subjects == Rooms \cup {NoRoom}

\* "timeout" and "declined" are failed checks, "reset" and "cancelled"
\* cancelled ones; "gone" went with its room.
Statuses == {"none", "pending", "passed", "timeout", "declined", "cancelled", "reset", "gone"}
States   == {"none", "pending", "ready", "declined", "timed_out"}

Answering == [op : {"answer"}, check : Ids, user : Users, yes : BOOLEAN]
Opening   == [op : {"open"}, room : Subjects, roster : SUBSET Users,
              opener : Users \cup {NoUser}, timed : BOOLEAN]
Resetting == [op : {"quiet"}, check : Ids, open : Opening]
Inserting == [op : {"insert"}, open : Opening, roster : SUBSET Users]
Removing  == [op : {"leaving", "left"}, room : Rooms, user : Users]
               \cup [op : {"drop"}, check : Ids, user : Users]
Ending    == [op : {"cancel"}, check : Ids]
Tasks == Answering \cup Opening \cup Resetting \cup Inserting \cup Removing \cup Ending

TypeOK ==
  /\ standing \in SUBSET Rooms
  /\ members \in [Rooms -> SUBSET Users]
  /\ made \in 0..MaxChecks
  /\ room \in [Ids -> Subjects]
  /\ status \in [Ids -> Statuses]
  /\ answer \in [Ids -> [Users -> States]]
  /\ deadline \in [Ids -> BOOLEAN]
  /\ tasks \in SUBSET Tasks

Init ==
  /\ standing = Rooms
  /\ members = [r \in Rooms |-> {}]
  /\ made = 0
  /\ room = [c \in Ids |-> NoRoom]
  /\ status = [c \in Ids |-> "none"]
  /\ answer = [c \in Ids |-> [u \in Users |-> "none"]]
  /\ deadline = [c \in Ids |-> FALSE]
  /\ tasks = {}

-----------------------------------------------------------------------------
\* What the queries see.

On(c) == {u \in Users : answer[c][u] # "none"}
Pending(c) == status[c] = "pending"
Accept(c) == room[c] = NoRoom

\* lane/1 and scope_filter/2: a party's board is the party lane, all else the
\* match lane.
InPartyLane(subject) == subject \in Parties
SameLane(c, subject) == InPartyLane(room[c]) = InPartyLane(subject)

\* pending_for_subject/1; a matchmaking check is never found again by subject.
PendingFor(subject) == {c \in Ids : Pending(c) /\ room[c] = subject /\ subject # NoRoom}

\* ensure_none_pending/2
LaneFree(subject, roster) ==
  \A c \in Ids : Pending(c) /\ SameLane(c, subject) => On(c) \cap roster = {}

\* roster/2: the members, or the players of the tickets.
RosterOf(t) == IF t.room = NoRoom THEN t.roster ELSE members[t.room]

\* reload_answerable/1: a pending check, or a ready board that timed out.
Answerable(c) == Pending(c) \/ (status[c] = "timeout" /\ ~Accept(c))

\* answerable_for_user/2: the newest check of the lane the user is on.
Newest(c, u, subject) ==
  /\ u \in On(c) /\ status[c] # "gone" /\ SameLane(c, subject)
  /\ \A d \in Ids : (d > c /\ u \in On(d) /\ status[d] # "gone") => ~SameLane(d, subject)

\* The lock of a lobby or party, held from the reads of an open to its insert.
NoLock(r) == TRUE                                       \* a mutant
Unlocked(r) == \A t \in tasks : t.op = "insert" => t.open.room # r

Spawn(t) == Cardinality(tasks) < MaxTasks /\ tasks' = tasks \cup {t}
Continue(t, ts) == tasks' = (tasks \ {t}) \cup ts

-----------------------------------------------------------------------------
\* Resolving.

\* evaluate/1: what the answers ans make of check c.
AnyYesPasses(c, ans) ==                                 \* a mutant
  IF \E u \in Users : ans[u] = "ready" THEN "passed" ELSE status[c]
Evaluate(c, ans) ==
  IF \A u \in Users : ans[u] \in {"none", "ready"} THEN "passed"
  ELSE IF Accept(c) /\ \E u \in Users : ans[u] = "declined" THEN "declined"
  ELSE status[c]

Resolve(c, to, ans) ==
  /\ status' = [status EXCEPT ![c] = to]
  /\ answer' = [answer EXCEPT ![c] = ans]
  /\ UNCHANGED <<seatVars, made, room, deadline>>

Refuse == UNCHANGED <<seatVars, checkVars>>

\* quiet_cancel/1 and cancel/2, under the check's lock.
Cancelled(c, to) ==
  IF Pending(c) THEN Resolve(c, to, answer[c]) ELSE Refuse

\* expire/1, under the check's lock.
SkipsAnswered(c) ==                                     \* a mutant
  IF Pending(c) /\ \A u \in Users : answer[c][u] \in {"none", "pending"}
  THEN Resolve(c, "timeout", [u \in Users |-> IF answer[c][u] = "pending" THEN "timed_out"
                                                                          ELSE answer[c][u]])
  ELSE Refuse
Expired(c) ==
  IF Pending(c)
  THEN Resolve(c, "timeout", [u \in Users |-> IF answer[c][u] = "pending" THEN "timed_out"
                                                                          ELSE answer[c][u]])
  ELSE Refuse

-----------------------------------------------------------------------------
\* Answering: respond/3 reads the check, write_answer/3 locks it and writes.

Respond(u, yes, subject) ==
  \E c \in Ids : /\ Newest(c, u, subject)
                 /\ Answerable(c)
                 /\ Spawn([op |-> "answer", check |-> c, user |-> u, yes |-> yes])
                 /\ UNCHANGED <<seatVars, checkVars>>

\* answer_for/3: the game names the check it was handed.
AnswerFor(u, c, yes) ==
  /\ u \in Bots /\ c <= made
  /\ Spawn([op |-> "answer", check |-> c, user |-> u, yes |-> yes])
  /\ UNCHANGED <<seatVars, checkVars>>

\* ensure_revocable/2
AlwaysRevocable(c, u) == TRUE                           \* a mutant
Revocable(c, u) == Accept(c) => answer[c][u] = "pending"

WriteAnswer(t) ==
  /\ t.op = "answer"
  /\ LET c == t.check
         ans == [answer[c] EXCEPT ![t.user] = IF t.yes THEN "ready" ELSE "declined"]
     IN  IF Answerable(c) /\ t.user \in On(c) /\ Revocable(c, t.user)
         THEN Resolve(c, Evaluate(c, ans), ans)
         ELSE Refuse
  /\ Continue(t, {})

-----------------------------------------------------------------------------
\* Opening.

\* reset/3 of a room's board: cancel the pending one quietly, then open.
Reset(r, opener, timed) ==
  LET open == [op |-> "open", room |-> r, roster |-> {}, opener |-> opener, timed |-> timed]
  IN  /\ \/ \E c \in PendingFor(r) : Spawn([op |-> "quiet", check |-> c, open |-> open])
         \/ PendingFor(r) = {} /\ Spawn(open)
      /\ UNCHANGED <<seatVars, checkVars>>

QuietCancel(t) ==
  /\ t.op = "quiet"
  /\ Cancelled(t.check, "reset")
  /\ Continue(t, {t.open})

\* Match.start/2: the players of a match are asked, with a deadline.
AskPlayers(roster) ==
  /\ Spawn([op |-> "open", room |-> NoRoom, roster |-> roster, opener |-> NoUser,
            timed |-> TRUE])
  /\ UNCHANGED <<seatVars, checkVars>>

\* open/3: after the hook, and early refusals that change nothing, the reads
\* of insert_check/5, inside the transaction and, for a room, under its lock; a
\* room deleted since is refused by the foreign key.
OpenRead(t) ==
  /\ t.op = "open"
  /\ t.room \in Rooms => Unlocked(t.room)
  /\ IF /\ t.room = NoRoom \/ t.room \in standing
        /\ RosterOf(t) # {}
        /\ PendingFor(t.room) = {}
        /\ LaneFree(t.room, RosterOf(t))
     THEN Continue(t, {[op |-> "insert", open |-> t, roster |-> RosterOf(t)]})
     ELSE Continue(t, {})
  /\ UNCHANGED <<seatVars, checkVars>>

\* The check and its participants, the opener's answer given; the commit.
Insert(t) ==
  /\ t.op = "insert"
  /\ IF PendingFor(t.open.room) = {} /\ made < MaxChecks
     THEN LET c == made + 1 IN
          /\ made' = c
          /\ room' = [room EXCEPT ![c] = t.open.room]
          /\ status' = [status EXCEPT ![c] = "pending"]
          /\ answer' = [answer EXCEPT ![c] =
                          [u \in Users |-> IF u \notin t.roster THEN "none"
                                           ELSE IF u = t.open.opener THEN "ready"
                                           ELSE "pending"]]
          /\ deadline' = [deadline EXCEPT ![c] = t.open.timed]
          /\ UNCHANGED seatVars
     ELSE UNCHANGED <<seatVars, checkVars>>
  /\ Continue(t, {})

-----------------------------------------------------------------------------
\* Cancelling and expiry.

Cancel(c) ==
  /\ Pending(c)
  /\ Spawn([op |-> "cancel", check |-> c])
  /\ UNCHANGED <<seatVars, checkVars>>

WriteCancel(t) ==
  /\ t.op = "cancel"
  /\ Cancelled(t.check, "cancelled")
  /\ Continue(t, {})

\* The deadline comes: the check's durable job (ExpiryWorker.perform/1) or the
\* sweep's backstop (expire_due/1), whichever is first; the other finds nothing
\* to do.
Expire(c) ==
  /\ c <= made /\ deadline[c]
  /\ Expired(c)
  /\ UNCHANGED tasks

-----------------------------------------------------------------------------
\* Membership, as Lobbies and Parties call in.

\* A seat is claimed, and the member put on the room's pending board, in one
\* transaction under the room's lock (do_join_with_lock/4, add_member/2).
SeatOnly(u, r) == UNCHANGED answer                      \* a mutant
AddMember(u, r) ==
  answer' = [c \in Ids |-> IF c \in PendingFor(r) /\ u \notin On(c)
                           THEN [answer[c] EXCEPT ![u] = "pending"] ELSE answer[c]]

Join(u, r) ==
  /\ r \in standing /\ Unlocked(r)
  /\ \A s \in Rooms : InPartyLane(s) = InPartyLane(r) => u \notin members[s]
  /\ members' = [members EXCEPT ![r] = @ \cup {u}]
  /\ AddMember(u, r)
  /\ UNCHANGED <<standing, made, room, status, deadline, tasks>>

\* The room is deleted, and its checks with it.
Demolish(r) ==
  /\ standing' = standing \ {r}
  /\ members' = [members EXCEPT ![r] = {}]
  /\ status' = [c \in Ids |-> IF c <= made /\ room[c] = r THEN "gone" ELSE status[c]]

\* The seat is cleared, under the room's lock; the last member of a hosted room
\* takes it with him.
Vacate(u, r) ==
  IF members[r] = {u} /\ r \in Hosted
  THEN Demolish(r)
  ELSE /\ members' = [members EXCEPT ![r] = @ \ {u}]
       /\ UNCHANGED <<standing, status>>

\* leave_lobby/1, leave_party/1: the membership is read, ...
Leave(u, r) ==
  /\ u \in members[r]
  /\ Spawn([op |-> "leaving", room |-> r, user |-> u])
  /\ UNCHANGED <<seatVars, checkVars>>

\* ... then the seat is cleared if it is still held.  The board comes after the
\* commit; a lobby's is visited whether or not there was a seat to clear.
Unseat(t) ==
  /\ t.op = "leaving" /\ Unlocked(t.room)
  /\ IF t.user \in members[t.room]
     THEN Vacate(t.user, t.room)
     ELSE UNCHANGED <<seatVars, status>>
  /\ Continue(t, IF t.user \in members[t.room] \/ ~InPartyLane(t.room)
                 THEN {[t EXCEPT !.op = "left"]} ELSE {})
  /\ UNCHANGED <<made, room, answer, deadline>>

\* kick_user/3, kick_member/2
Kick(u, r) ==
  /\ u \in members[r] /\ members[r] # {u} /\ Unlocked(r)
  /\ Spawn([op |-> "left", room |-> r, user |-> u])
  /\ Vacate(u, r)
  /\ UNCHANGED <<made, room, answer, deadline>>

\* remove_member/2 reads the pending board, ...
RemoveMember(t) ==
  /\ t.op = "left"
  /\ Continue(t, {[op |-> "drop", check |-> c, user |-> t.user] : c \in PendingFor(t.room)})
  /\ UNCHANGED <<seatVars, checkVars>>

\* ... locks it, reads it again, and drops the leaver.
Without(ans, u) == [ans EXCEPT ![u] = "none"]
UsesStaleRead(c) == TRUE                                \* a mutant
StillPending(c) == Pending(c)
Drop(t) ==
  /\ t.op = "drop"
  /\ LET c == t.check
         ans == Without(answer[c], t.user)
     IN  IF StillPending(c)
         THEN Resolve(c, IF \A u \in Users : ans[u] = "none" THEN "cancelled"
                                                             ELSE Evaluate(c, ans), ans)
         ELSE Refuse
  /\ Continue(t, {})

\* delete_lobby/1, disband_party/1
DeleteRoom(r) ==
  /\ r \in standing /\ Unlocked(r)
  /\ Demolish(r)
  /\ UNCHANGED <<made, room, answer, deadline, tasks>>

\* A process dies between two steps; a transaction it was in rolls back.
Crash(t) ==
  /\ t.op \in Mortal
  /\ Continue(t, {})
  /\ UNCHANGED <<seatVars, checkVars>>

-----------------------------------------------------------------------------
\* The steps of the requests under way.
Step(t) == \/ WriteAnswer(t) \/ QuietCancel(t) \/ OpenRead(t)
           \/ Insert(t) \/ WriteCancel(t) \/ Unseat(t) \/ RemoveMember(t) \/ Drop(t)

Next ==
  \/ \E t \in tasks : Step(t) \/ Crash(t)
  \/ \E u \in Users, yes \in BOOLEAN :
       \/ \E s \in Subjects : Respond(u, yes, s)
       \/ \E c \in Ids : AnswerFor(u, c, yes)
  \/ \E r \in Rooms :
       \/ \E u \in members[r], timed \in Timed : Reset(r, u, timed)
       \/ DeleteRoom(r)
       \/ \E u \in Users : Join(u, r) \/ Leave(u, r) \/ Kick(u, r)
  \/ \E roster \in Matches : AskPlayers(roster)
  \/ \E c \in Ids : Cancel(c) \/ Expire(c)

Spec == Init /\ [][Next]_vars

\* The requests that take a user off a board.
Removal(t, u) == t.op \in {"left", "drop"} /\ t.user = u

\* A deadline comes, and the sweep of some node looks every few seconds.
FairSpec == /\ Spec
            /\ \A c \in Ids : WF_vars(Expire(c))

-----------------------------------------------------------------------------
\* Properties.

\* A check that passed was passed by everyone on it, and by someone: no answer
\* is counted twice, taken back after the verdict, or added to a verdict
\* already given (ready_checks.ex:40-45, 541-546).
PassedUnanimously ==
  \A c \in Ids : status[c] = "passed" => On(c) # {} /\ \A u \in On(c) : answer[c][u] = "ready"

\* The first no ends an accept check at once, whichever answers race; one that
\* ran out of time names everybody who had not answered (ready_checks.ex:8-13).
VerdictsFit ==
  \A c \in Ids :
    /\ Pending(c) /\ Accept(c) => \A u \in On(c) : answer[c][u] # "declined"
    /\ status[c] = "declined" => Accept(c) /\ \E u \in On(c) : answer[c][u] = "declined"
    /\ status[c] = "timeout" => \A u \in On(c) : answer[c][u] # "pending"
    /\ Pending(c) => On(c) # {} /\ \A u \in On(c) : answer[c][u] # "timed_out"

\* A verdict is final, whatever answer, removal, expiry or cancel was on its way
\* when it fell: only a ready board that ran out of time can still pass
\* (ready_checks.ex:396-406).
VerdictsStand ==
  [][\A c \in Ids : \/ status'[c] \in {status[c], "gone"}
                    \/ status[c] \in {"none", "pending"}
                    \/ status[c] = "timeout" /\ status'[c] = "passed" /\ ~Accept(c)]_vars

\* An accept is a commitment: an answer to an accept check never changes, nor
\* does anyone leave or enter it once it is resolved (ready_checks.ex:418-424).
AcceptsStand ==
  [][\A c \in Ids, u \in Users :
       (c <= made /\ Accept(c) /\ answer[c][u] # "pending") => answer'[c][u] = answer[c][u]]_vars

\* Nobody slips in unasked: when a seat is taken or a board is opened, however
\* the two race, every member of the room is on its pending board afterwards
\* unless a removal took them off it before (ready_checks.ex:70-73, 233-239).
NobodyUnasked ==
  [][\A c \in Ids : (status'[c] = "pending" /\ room'[c] \in Rooms) =>
       \A u \in members'[room'[c]] :
         answer'[c][u] = "none" =>
           /\ Pending(c)
           /\ \/ u \in On(c)
              \/ u \in members[room[c]]]_vars

\* Who is on a pending board without a seat is about to be taken off it, as long as
\* no process dies after it gave the seat up: a board never waits for someone who
\* left (ready_checks.ex:517-522, 233-239).
Leaving(c, u) ==
  \E t \in tasks : Removal(t, u) /\ (t.op = "left" => t.room = room[c]) /\ (t.op = "drop" => t.check = c)
Ghost(c, u) ==
  Pending(c) /\ room[c] \in Rooms /\ u \in On(c) /\ u \notin members[room[c]]
GhostsLeave ==
  Mortal \cap {"left", "drop"} = {} => \A c \in Ids, u \in Users : Ghost(c, u) => Leaving(c, u)

\* An accept check ends, and so does every board with a deadline, even if its
\* expiry job is lost (ready_checks/expiry_worker.ex:5-9).
DeadlinesEnd ==
  \A c \in Ids : (Pending(c) /\ deadline[c]) ~> ~Pending(c)
=============================================================================
