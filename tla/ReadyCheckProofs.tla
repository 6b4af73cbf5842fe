--------------------------- MODULE ReadyCheckProofs ---------------------------
(***************************************************************************)
(* What ReadyCheck does to one check in one step, and what follows: its    *)
(* verdicts are earned, they fit the kind of the check, and they stand, for*)
(* any number of users, rooms, checks and requests under way.  Then what a *)
(* step does to the seats of a room, and what follows for its board: over  *)
(* everyone who sits there, and nobody who left for good.                  *)
(***************************************************************************)
EXTENDS ReadyCheck, TLAPS

-----------------------------------------------------------------------------
\* The inductive invariant.

\* The ids opened are the first ones.
Counted == \A c \in Ids : status[c] = "none" <=> c > made

\* A board is opened over somebody, and only members of a room are dropped.
Sane(t) ==
  /\ t.op = "insert" => t.roster # {}
  /\ t.op = "drop" => t.check <= made /\ ~Accept(t.check)
TasksSane == \A t \in tasks : Sane(t)

\* A verdict s of the answers a is right, for an accept check or another.
Sound(s, a, accept) ==
  /\ s = "passed" => (\E u \in Users : a[u] # "none") /\ (\A u \in Users : a[u] \in {"none", "ready"})
  /\ s = "pending" => (\E u \in Users : a[u] # "none") /\ (\A u \in Users : a[u] # "timed_out")
  /\ (s = "pending" /\ accept) => (\A u \in Users : a[u] # "declined")
  /\ s = "declined" => accept /\ (\E u \in Users : a[u] = "declined")
  /\ s = "timeout" => (\A u \in Users : a[u] # "pending")

VerdictsSound == \A c \in Ids : Sound(status[c], answer[c], Accept(c))

IInv == TypeOK /\ Counted /\ TasksSane /\ VerdictsSound

-----------------------------------------------------------------------------
\* What a step may do to check c.

Same(c)  == status'[c] = status[c] /\ answer'[c] = answer[c] /\ room'[c] = room[c]
Buried(c) == c <= made /\ status'[c] = "gone" /\ answer'[c] = answer[c] /\ room'[c] = room[c]
Born(c) ==
  /\ status[c] = "none" /\ c > made /\ c <= made' /\ status'[c] = "pending"
  /\ \E u \in Users : answer'[c][u] # "none"
  /\ \A u \in Users : answer'[c][u] \in {"none", "pending", "ready"}
Answered(c) ==
  \E u \in On(c), yes \in BOOLEAN :
    /\ Answerable(c) /\ Revocable(c, u) /\ room'[c] = room[c]
    /\ answer'[c] = [answer[c] EXCEPT ![u] = IF yes THEN "ready" ELSE "declined"]
    /\ status'[c] = Evaluate(c, answer'[c])
Dropped(c) ==
  \E u \in Users :
    /\ Pending(c) /\ ~Accept(c) /\ room'[c] = room[c]
    /\ answer'[c] = [answer[c] EXCEPT ![u] = "none"]
    /\ status'[c] = IF \A v \in Users : answer'[c][v] = "none" THEN "cancelled"
                    ELSE Evaluate(c, answer'[c])
Seated(c) ==
  \E u \in Users :
    /\ Pending(c) /\ ~Accept(c) /\ status'[c] = status[c] /\ room'[c] = room[c]
    /\ answer'[c] = [answer[c] EXCEPT ![u] = "pending"]
Withdrawn(c) ==
  /\ Pending(c) /\ status'[c] \in {"cancelled", "reset"}
  /\ answer'[c] = answer[c] /\ room'[c] = room[c]
RanOut(c) ==
  /\ Pending(c) /\ status'[c] = "timeout" /\ room'[c] = room[c]
  /\ answer'[c] = [u \in Users |-> IF answer[c][u] = "pending" THEN "timed_out" ELSE answer[c][u]]

CheckStep(c) ==
  \/ Same(c) \/ Buried(c) \/ Born(c) \/ Answered(c)
  \/ Dropped(c) \/ Seated(c) \/ Withdrawn(c) \/ RanOut(c)

\* What a step does: to the types, to the ids, to each check, to the requests.
SeatsTyped == standing \in SUBSET Rooms /\ members \in [Rooms -> SUBSET Users]
ChecksTyped ==
  /\ made \in 0..MaxChecks
  /\ room \in [Ids -> Subjects]
  /\ status \in [Ids -> Statuses]
  /\ answer \in [Ids -> [Users -> States]]
  /\ deadline \in [Ids -> BOOLEAN]
Growth == \/ made' = made
          \/ made' = made + 1 /\ made' \in Ids /\ status'[made'] = "pending"
Requests == tasks' \subseteq Tasks /\ \A t \in tasks' \ tasks : Sane(t)
Outcome ==
  /\ SeatsTyped' /\ ChecksTyped' /\ Growth /\ Requests
  /\ \A c \in Ids : CheckStep(c)

-----------------------------------------------------------------------------
\* Lemmas about the operators of the module.

\* A task is of the kind its op names.
LEMMA TaskKinds ==
  ASSUME NEW t \in Tasks
  PROVE  /\ t.op = "answer" => t \in Answering
         /\ t.op = "open" => t \in Opening
         /\ t.op = "quiet" => t \in Resetting
         /\ t.op = "insert" => t \in Inserting
         /\ t.op \in {"leaving", "left"} => t.room \in Rooms /\ t.user \in Users
                                            /\ t \in [op : {"leaving", "left"}, room : Rooms, user : Users]
         /\ t.op = "drop" => t.check \in Ids /\ t.user \in Users
         /\ t.op = "cancel" => t.check \in Ids
  BY DEF Tasks, Answering, Opening, Resetting, Inserting, Removing, Ending

\* Resolving writes one check and leaves the others.
LEMMA ResolveOne ==
  ASSUME TypeOK, NEW c \in Ids, NEW to \in Statuses, NEW ans \in [Users -> States],
         Resolve(c, to, ans)
  PROVE  /\ status' \in [Ids -> Statuses] /\ answer' \in [Ids -> [Users -> States]]
         /\ UNCHANGED <<standing, members, made, room, deadline>>
         /\ status'[c] = to /\ answer'[c] = ans
         /\ \A d \in Ids : d # c => status'[d] = status[d] /\ answer'[d] = answer[d]
  BY DEF TypeOK, Resolve, seatVars

\* The verdict on the answers is a status.
LEMMA EvaluateTyped ==
  ASSUME TypeOK, NEW c \in Ids, NEW ans
  PROVE  Evaluate(c, ans) \in Statuses
  BY DEF TypeOK, Evaluate, Statuses

LEMMA TypeParts == TypeOK <=> SeatsTyped /\ ChecksTyped /\ tasks \in SUBSET Tasks
  BY DEF TypeOK, SeatsTyped, ChecksTyped

\* The requests of a step that starts or continues one.
LEMMA SpawnRequests ==
  ASSUME TypeOK, NEW t \in Tasks, Sane(t), Spawn(t)
  PROVE  Requests
  BY DEF TypeOK, Spawn, Requests

LEMMA ContinueRequests ==
  ASSUME TypeOK, NEW t, NEW ts \in SUBSET Tasks, \A x \in ts : Sane(x), Continue(t, ts)
  PROVE  Requests
  BY DEF TypeOK, Continue, Requests

\* A step that leaves seats and checks alone.
LEMMA IdleOutcome ==
  ASSUME TypeOK, UNCHANGED <<seatVars, checkVars>>, Requests
  PROVE  Outcome
<1>1. SeatsTyped' /\ ChecksTyped'
  BY TypeParts DEF SeatsTyped, ChecksTyped, seatVars, checkVars
<1>2. Growth /\ \A c \in Ids : Same(c)
  BY DEF Growth, Same, checkVars
<1> QED
  BY <1>1, <1>2 DEF Outcome, CheckStep

\* A step that resolves one check.
LEMMA ResolveOutcome ==
  ASSUME TypeOK, NEW c \in Ids, NEW to \in Statuses, NEW ans \in [Users -> States],
         Resolve(c, to, ans), CheckStep(c), Requests
  PROVE  Outcome
<1>1. SeatsTyped' /\ ChecksTyped'
  BY ResolveOne, TypeParts DEF SeatsTyped, ChecksTyped
<1>2. Growth
  BY ResolveOne DEF Growth
<1>3. \A d \in Ids : d # c => Same(d)
  BY ResolveOne DEF Same
<1> QED
  BY <1>1, <1>2, <1>3 DEF Outcome, CheckStep
-----------------------------------------------------------------------------
\* The steps that change no seat and no check.

LEMMA RespondOutcome ==
  ASSUME TypeOK, NEW u \in Users, NEW yes \in BOOLEAN, NEW s \in Subjects, Respond(u, yes, s)
  PROVE  Outcome
<1>1. PICK c \in Ids : /\ Spawn([op |-> "answer", check |-> c, user |-> u, yes |-> yes])
                       /\ UNCHANGED <<seatVars, checkVars>>
  BY DEF Respond
<1> DEFINE t == [op |-> "answer", check |-> c, user |-> u, yes |-> yes]
<1>2. t \in Tasks /\ Sane(t)
  BY DEF Tasks, Answering, Sane
<1> QED
  BY <1>1, <1>2, SpawnRequests, IdleOutcome

LEMMA AnswerForOutcome ==
  ASSUME TypeOK, NEW u \in Users, NEW yes \in BOOLEAN, NEW c \in Ids, AnswerFor(u, c, yes)
  PROVE  Outcome
<1> DEFINE t == [op |-> "answer", check |-> c, user |-> u, yes |-> yes]
<1>1. Spawn(t) /\ UNCHANGED <<seatVars, checkVars>>
  BY DEF AnswerFor
<1>2. t \in Tasks /\ Sane(t)
  BY DEF Tasks, Answering, Sane
<1> QED
  BY <1>1, <1>2, SpawnRequests, IdleOutcome

LEMMA ResetOutcome ==
  ASSUME TypeOK, NEW r \in Rooms, NEW u \in Users, NEW timed \in BOOLEAN, Reset(r, u, timed)
  PROVE  Outcome
<1> DEFINE open == [op |-> "open", room |-> r, roster |-> {}, opener |-> u, timed |-> timed]
<1> DEFINE quiet(c) == [op |-> "quiet", check |-> c, open |-> open]
<1>1. UNCHANGED <<seatVars, checkVars>>
  BY DEF Reset
<1>2. open \in Opening /\ open \in Tasks /\ Sane(open)
  BY DEF Opening, Tasks, Subjects, Sane
<1>3. ASSUME NEW c \in Ids PROVE quiet(c) \in Tasks /\ Sane(quiet(c))
  BY <1>2 DEF Tasks, Resetting, Sane
<1>4. (\E c \in Ids : Spawn(quiet(c))) \/ Spawn(open)
  BY DEF Reset, PendingFor
<1>5. Requests
  <2>1. CASE Spawn(open)
    BY <1>2, <2>1, SpawnRequests
  <2>2. ASSUME NEW c \in Ids, Spawn(quiet(c)) PROVE Requests
    BY <1>3, <2>2, SpawnRequests
  <2> QED
    BY <1>4, <2>1, <2>2
<1> QED
  BY <1>1, <1>5, IdleOutcome

LEMMA AskPlayersOutcome ==
  ASSUME TypeOK, NEW roster \in Matches, AskPlayers(roster)
  PROVE  Outcome
<1> DEFINE t == [op |-> "open", room |-> NoRoom, roster |-> roster, opener |-> NoUser,
                 timed |-> TRUE]
<1>1. Spawn(t) /\ UNCHANGED <<seatVars, checkVars>>
  BY DEF AskPlayers
<1>2. t \in Tasks /\ Sane(t)
  BY MatchesAssumption DEF Tasks, Opening, Subjects, Sane
<1> QED
  BY <1>1, <1>2, SpawnRequests, IdleOutcome

LEMMA CancelOutcome ==
  ASSUME TypeOK, NEW c \in Ids, Cancel(c)
  PROVE  Outcome
<1> DEFINE t == [op |-> "cancel", check |-> c]
<1>1. Spawn(t) /\ UNCHANGED <<seatVars, checkVars>>
  BY DEF Cancel
<1>2. t \in Tasks /\ Sane(t)
  BY DEF Tasks, Ending, Sane
<1> QED
  BY <1>1, <1>2, SpawnRequests, IdleOutcome

LEMMA LeaveOutcome ==
  ASSUME TypeOK, NEW u \in Users, NEW r \in Rooms, Leave(u, r)
  PROVE  Outcome
<1> DEFINE t == [op |-> "leaving", room |-> r, user |-> u]
<1>1. Spawn(t) /\ UNCHANGED <<seatVars, checkVars>>
  BY DEF Leave
<1>2. t \in Tasks /\ Sane(t)
  BY DEF Tasks, Removing, Sane
<1> QED
  BY <1>1, <1>2, SpawnRequests, IdleOutcome

LEMMA OpenReadOutcome ==
  ASSUME TypeOK, NEW t \in tasks, OpenRead(t)
  PROVE  Outcome
<1> DEFINE insert == [op |-> "insert", open |-> t, roster |-> RosterOf(t)]
<1>1. t \in Opening
  BY TaskKinds DEF OpenRead, TypeOK
<1>2. RosterOf(t) \in SUBSET Users
  <2>1. CASE t.room = NoRoom
    BY <1>1, <2>1 DEF RosterOf, Opening
  <2>2. CASE t.room \in Rooms
    BY <1>1, <2>2, NoRoomAssumption DEF RosterOf, TypeOK
  <2> QED
    BY <1>1, <2>1, <2>2 DEF Opening, Subjects
<1>3. insert \in Tasks
  BY <1>1, <1>2 DEF Tasks, Inserting
<1>4. \/ Continue(t, {insert}) /\ RosterOf(t) # {}
      \/ Continue(t, {})
  BY DEF OpenRead
<1>5. RosterOf(t) # {} => Sane(insert)
  BY DEF Sane
<1>6. CASE Continue(t, {insert}) /\ RosterOf(t) # {}
  BY <1>3, <1>5, <1>6, ContinueRequests, IdleOutcome DEF OpenRead
<1>7. CASE Continue(t, {})
  BY <1>7, ContinueRequests, IdleOutcome DEF OpenRead
<1> QED
  BY <1>4, <1>6, <1>7

LEMMA RemoveMemberOutcome ==
  ASSUME TypeOK, Counted, NEW t \in tasks, RemoveMember(t)
  PROVE  Outcome
<1> DEFINE drop(c) == [op |-> "drop", check |-> c, user |-> t.user]
<1> DEFINE ts == {drop(c) : c \in PendingFor(t.room)}
<1>1. t.room \in Rooms /\ t.user \in Users
  BY TaskKinds DEF RemoveMember, TypeOK
<1>2. ASSUME NEW c \in PendingFor(t.room)
      PROVE  drop(c) \in Tasks /\ Sane(drop(c))
  <2>1. c \in Ids /\ Pending(c) /\ room[c] = t.room
    BY DEF PendingFor
  <2>2. ~(c > made)
    BY <2>1 DEF Counted, Pending
  <2>3. c <= made
    BY <2>1, <2>2 DEF TypeOK, Ids
  <2>4. ~Accept(c)
    BY <1>1, <2>1, NoRoomAssumption DEF Accept
  <2>5. drop(c) \in Removing
    BY <1>1, <2>1 DEF Removing
  <2> QED
    BY <2>3, <2>4, <2>5 DEF Tasks, Sane
<1>3. ts \in SUBSET Tasks /\ \A x \in ts : Sane(x)
  BY <1>2
<1>4. Continue(t, ts) /\ UNCHANGED <<seatVars, checkVars>>
  BY DEF RemoveMember
<1> QED
  BY <1>3, <1>4, ContinueRequests, IdleOutcome

LEMMA CrashOutcome ==
  ASSUME TypeOK, NEW t \in tasks, Crash(t)
  PROVE  Outcome
  BY ContinueRequests, IdleOutcome DEF Crash
-----------------------------------------------------------------------------
\* The steps that resolve a check.

\* A check that is not pending is left alone, with its request done.
LEMMA RefuseOutcome ==
  ASSUME TypeOK, Refuse, Requests
  PROVE  Outcome
  BY IdleOutcome DEF Refuse

LEMMA CancelledOutcome ==
  ASSUME TypeOK, NEW c \in Ids, NEW to \in {"cancelled", "reset"}, Cancelled(c, to), Requests
  PROVE  Outcome
<1>1. CASE Pending(c)
  <2>1. Resolve(c, to, answer[c])
    BY <1>1 DEF Cancelled
  <2>2. to \in Statuses /\ answer[c] \in [Users -> States]
    BY DEF Statuses, TypeOK
  <2>3. Withdrawn(c)
    BY <1>1, <2>1, <2>2, ResolveOne DEF Withdrawn
  <2> QED
    BY <2>1, <2>2, <2>3, ResolveOutcome DEF CheckStep
<1>2. CASE ~Pending(c)
  BY <1>2, RefuseOutcome DEF Cancelled
<1> QED
  BY <1>1, <1>2

LEMMA QuietCancelOutcome ==
  ASSUME TypeOK, NEW t \in tasks, QuietCancel(t)
  PROVE  Outcome
<1>1. t \in Resetting
  BY TaskKinds DEF QuietCancel, TypeOK
<1>2. t.check \in Ids /\ t.open \in Opening
  BY <1>1 DEF Resetting
<1>3. t.open \in Tasks /\ Sane(t.open)
  BY <1>2 DEF Tasks, Opening, Sane
<1>4. Requests
  BY <1>3, ContinueRequests DEF QuietCancel
<1> QED
  BY <1>2, <1>4, CancelledOutcome DEF QuietCancel

LEMMA WriteCancelOutcome ==
  ASSUME TypeOK, NEW t \in tasks, WriteCancel(t)
  PROVE  Outcome
<1>1. t.check \in Ids
  BY TaskKinds DEF WriteCancel, TypeOK
<1>2. Requests
  BY ContinueRequests DEF WriteCancel
<1> QED
  BY <1>1, <1>2, CancelledOutcome DEF WriteCancel

LEMMA ExpireOutcome ==
  ASSUME TypeOK, NEW c \in Ids, Expire(c)
  PROVE  Outcome
<1>1. Requests /\ Expired(c)
  BY DEF Expire, Requests, TypeOK
<1> DEFINE ans == [u \in Users |-> IF answer[c][u] = "pending" THEN "timed_out"
                                                              ELSE answer[c][u]]
<1>2. CASE Pending(c)
  <2>1. Resolve(c, "timeout", ans)
    BY <1>1, <1>2 DEF Expired
  <2>2. answer[c] \in [Users -> States]
    BY DEF TypeOK
  <2>3. "timeout" \in Statuses /\ ans \in [Users -> States]
    BY <2>2 DEF Statuses, States
  <2>4. RanOut(c)
    BY <1>2, <2>1, <2>3, ResolveOne DEF RanOut
  <2> QED
    BY <1>1, <2>1, <2>3, <2>4, ResolveOutcome DEF CheckStep
<1>3. CASE ~Pending(c)
  BY <1>1, <1>3, RefuseOutcome DEF Expired
<1> QED
  BY <1>2, <1>3

LEMMA WriteAnswerOutcome ==
  ASSUME TypeOK, NEW t \in tasks, WriteAnswer(t)
  PROVE  Outcome
<1>1. t \in Answering
  BY TaskKinds DEF WriteAnswer, TypeOK
<1>2. t.check \in Ids /\ t.user \in Users /\ t.yes \in BOOLEAN
  BY <1>1 DEF Answering
<1>3. Requests
  BY ContinueRequests DEF WriteAnswer
<1> DEFINE c == t.check
           ans == [answer[c] EXCEPT ![t.user] = IF t.yes THEN "ready" ELSE "declined"]
<1>4. CASE Answerable(c) /\ t.user \in On(c) /\ Revocable(c, t.user)
  <2>1. Resolve(c, Evaluate(c, ans), ans)
    BY <1>4 DEF WriteAnswer
  <2>2. answer[c] \in [Users -> States]
    BY <1>2 DEF TypeOK
  <2>3. ans \in [Users -> States]
    BY <1>2, <2>2 DEF States
  <2>4. Evaluate(c, ans) \in Statuses
    BY <1>2, EvaluateTyped
  <2>5. status'[c] = Evaluate(c, ans) /\ answer'[c] = ans /\ room'[c] = room[c]
    BY <1>2, <2>1, <2>3, <2>4, ResolveOne
  <2> HIDE DEF ans
  <2>6. Answered(c)
    <3>1. answer'[c] = [answer[c] EXCEPT ![t.user] = IF t.yes THEN "ready" ELSE "declined"]
      BY <2>5 DEF ans
    <3> QED
      BY <1>2, <1>4, <2>5, <3>1 DEF Answered
  <2> QED
    BY <1>2, <1>3, <2>1, <2>3, <2>4, <2>6, ResolveOutcome DEF CheckStep
<1>5. CASE ~(Answerable(c) /\ t.user \in On(c) /\ Revocable(c, t.user))
  BY <1>3, <1>5, RefuseOutcome DEF WriteAnswer
<1> QED
  BY <1>4, <1>5

LEMMA DropOutcome ==
  ASSUME TypeOK, TasksSane, NEW t \in tasks, Drop(t)
  PROVE  Outcome
<1>1. t.check \in Ids /\ t.user \in Users
  BY TaskKinds DEF Drop, TypeOK
<1>2. ~Accept(t.check)
  BY DEF TasksSane, Sane, Drop
<1>3. Requests
  BY ContinueRequests DEF Drop
<1> DEFINE c == t.check
           ans == [answer[c] EXCEPT ![t.user] = "none"]
           to == IF \A u \in Users : ans[u] = "none" THEN "cancelled" ELSE Evaluate(c, ans)
<1>4. CASE Pending(c)
  <2>1. Resolve(c, to, ans)
    BY <1>4 DEF Drop, StillPending, Without
  <2>2. answer[c] \in [Users -> States]
    BY <1>1 DEF TypeOK
  <2>3. ans \in [Users -> States]
    BY <1>1, <2>2 DEF States
  <2>4. to \in Statuses
    BY <1>1, EvaluateTyped DEF Statuses
  <2>5. status'[c] = to /\ answer'[c] = ans /\ room'[c] = room[c]
    BY <1>1, <2>1, <2>3, <2>4, ResolveOne
  <2>6. Dropped(c)
    BY <1>1, <1>2, <1>4, <2>5 DEF Dropped
  <2> QED
    BY <1>1, <1>3, <2>1, <2>3, <2>4, <2>6, ResolveOutcome DEF CheckStep
<1>5. CASE ~Pending(c)
  BY <1>3, <1>5, RefuseOutcome DEF Drop, StillPending
<1> QED
  BY <1>4, <1>5
-----------------------------------------------------------------------------
\* The steps that open a check, or change the seats of a room.

LEMMA InsertOutcome ==
  ASSUME TypeOK, Counted, TasksSane, NEW t \in tasks, Insert(t)
  PROVE  Outcome
<1>1. t \in Inserting
  BY TaskKinds DEF Insert, TypeOK
<1>2. /\ t.open.room \in Subjects /\ t.open.timed \in BOOLEAN
      /\ t.roster \in SUBSET Users /\ t.roster # {}
  BY <1>1 DEF Inserting, Opening, TasksSane, Sane, Insert
<1>3. Requests
  BY ContinueRequests DEF Insert
<1> DEFINE c == made + 1
           ans == [u \in Users |-> IF u \notin t.roster THEN "none"
                                  ELSE IF u = t.open.opener THEN "ready" ELSE "pending"]
<1>4. CASE PendingFor(t.open.room) = {} /\ made < MaxChecks
  <2>1. /\ made' = c /\ room' = [room EXCEPT ![c] = t.open.room]
        /\ status' = [status EXCEPT ![c] = "pending"]
        /\ answer' = [answer EXCEPT ![c] = ans]
        /\ deadline' = [deadline EXCEPT ![c] = t.open.timed]
        /\ UNCHANGED seatVars
    BY <1>4 DEF Insert
  <2>2. made \in Nat /\ c \in Ids /\ c > made /\ c \in 0..MaxChecks
    BY <1>4, MaxChecksAssumption DEF TypeOK, Ids
  <2>3. ans \in [Users -> States]
    BY DEF States
  <2> HIDE DEF ans
  <2>4. ChecksTyped'
    <3>1. made' \in 0..MaxChecks
      BY <2>1, <2>2
    <3>2. room' \in [Ids -> Subjects]
      BY <1>2, <2>1 DEF TypeOK
    <3>3. status' \in [Ids -> Statuses]
      BY <2>1 DEF TypeOK, Statuses
    <3>4. answer' \in [Ids -> [Users -> States]]
      BY <2>1, <2>3 DEF TypeOK
    <3>5. deadline' \in [Ids -> BOOLEAN]
      BY <1>2, <2>1 DEF TypeOK
    <3> QED
      BY <3>1, <3>2, <3>3, <3>4, <3>5 DEF ChecksTyped
  <2>5. SeatsTyped'
    BY <2>1 DEF SeatsTyped, TypeOK, seatVars
  <2>6. Growth
    BY <2>1, <2>2 DEF Growth, TypeOK
  <2>7. Born(c)
    <3>1. status[c] = "none"
      BY <2>2 DEF Counted
    <3>2. status'[c] = "pending" /\ answer'[c] = ans
      BY <2>1, <2>2 DEF TypeOK
    <3>3. \E u \in Users : ans[u] # "none"
      BY <1>2 DEF ans
    <3>4. \A u \in Users : ans[u] \in {"none", "pending", "ready"}
      BY DEF ans
    <3> QED
      BY <2>1, <2>2, <3>1, <3>2, <3>3, <3>4 DEF Born
  <2>8. \A d \in Ids : d # c => Same(d)
    BY <2>1 DEF Same, TypeOK
  <2> QED
    BY <1>3, <2>4, <2>5, <2>6, <2>7, <2>8 DEF Outcome, CheckStep
<1>5. CASE ~(PendingFor(t.open.room) = {} /\ made < MaxChecks)
  BY <1>3, <1>5, IdleOutcome DEF Insert
<1> QED
  BY <1>4, <1>5

\* A room's end buries its checks and changes nothing else of any check.
LEMMA DemolishOutcome ==
  ASSUME TypeOK, NEW r \in Rooms, Demolish(r), UNCHANGED <<made, room, answer, deadline>>,
         Requests
  PROVE  Outcome
<1>1. SeatsTyped'
  BY DEF Demolish, SeatsTyped, TypeOK
<1>2. status' \in [Ids -> Statuses]
  BY DEF Demolish, TypeOK, Statuses
<1>3. ChecksTyped'
  BY <1>2 DEF ChecksTyped, TypeOK
<1>4. \A c \in Ids : Same(c) \/ Buried(c)
  BY DEF Demolish, Same, Buried, TypeOK
<1> QED
  BY <1>1, <1>3, <1>4 DEF Outcome, CheckStep, Growth

LEMMA VacateOutcome ==
  ASSUME TypeOK, NEW u \in Users, NEW r \in Rooms, Vacate(u, r),
         UNCHANGED <<made, room, answer, deadline>>, Requests
  PROVE  Outcome
<1>1. CASE Demolish(r)
  BY <1>1, DemolishOutcome
<1>2. CASE members' = [members EXCEPT ![r] = @ \ {u}] /\ UNCHANGED <<standing, status>>
  <2>1. SeatsTyped'
    BY <1>2 DEF SeatsTyped, TypeOK
  <2>2. ChecksTyped' /\ Growth /\ \A c \in Ids : Same(c)
    BY <1>2 DEF ChecksTyped, TypeOK, Growth, Same
  <2> QED
    BY <2>1, <2>2 DEF Outcome, CheckStep
<1> QED
  BY <1>1, <1>2 DEF Vacate

LEMMA DeleteRoomOutcome ==
  ASSUME TypeOK, NEW r \in Rooms, DeleteRoom(r)
  PROVE  Outcome
<1>1. Requests
  BY DEF DeleteRoom, Requests, TypeOK
<1> QED
  BY <1>1, DemolishOutcome DEF DeleteRoom

LEMMA KickOutcome ==
  ASSUME TypeOK, NEW u \in Users, NEW r \in Rooms, Kick(u, r)
  PROVE  Outcome
<1> DEFINE t == [op |-> "left", room |-> r, user |-> u]
<1>1. t \in Tasks /\ Sane(t)
  BY DEF Tasks, Removing, Sane
<1>2. Requests
  BY <1>1, SpawnRequests DEF Kick
<1> QED
  BY <1>2, VacateOutcome DEF Kick

LEMMA UnseatOutcome ==
  ASSUME TypeOK, NEW t \in tasks, Unseat(t)
  PROVE  Outcome
<1> DEFINE left == [t EXCEPT !.op = "left"]
           ts == IF t.user \in members[t.room] \/ ~InPartyLane(t.room) THEN {left} ELSE {}
<1>1. /\ t.room \in Rooms /\ t.user \in Users
      /\ t \in [op : {"leaving", "left"}, room : Rooms, user : Users]
  BY TaskKinds DEF Unseat, TypeOK
<1>2. left \in Removing /\ left.op = "left"
  BY <1>1 DEF Removing
<1>3. left \in Tasks /\ Sane(left)
  BY <1>2 DEF Tasks, Sane
<1>4. Continue(t, ts) /\ UNCHANGED <<made, room, answer, deadline>>
  BY DEF Unseat
<1>5. Requests
  BY <1>3, <1>4, ContinueRequests
<1>6. CASE t.user \in members[t.room]
  BY <1>1, <1>4, <1>5, <1>6, VacateOutcome DEF Unseat
<1>7. CASE t.user \notin members[t.room]
  <2>1. UNCHANGED <<seatVars, checkVars>>
    BY <1>4, <1>7 DEF Unseat, seatVars, checkVars
  <2> QED
    BY <1>5, <2>1, IdleOutcome
<1> QED
  BY <1>6, <1>7

LEMMA JoinOutcome ==
  ASSUME TypeOK, NEW u \in Users, NEW r \in Rooms, Join(u, r)
  PROVE  Outcome
<1>1. /\ members' = [members EXCEPT ![r] = @ \cup {u}]
      /\ UNCHANGED <<standing, made, room, status, deadline, tasks>>
      /\ answer' = [c \in Ids |-> IF c \in PendingFor(r) /\ u \notin On(c)
                                  THEN [answer[c] EXCEPT ![u] = "pending"] ELSE answer[c]]
  BY DEF Join, AddMember
<1>2. SeatsTyped'
  BY <1>1 DEF SeatsTyped, TypeOK
<1>3. \A c \in Ids : answer[c] \in [Users -> States]
                     /\ [answer[c] EXCEPT ![u] = "pending"] \in [Users -> States]
  BY DEF TypeOK, States
<1>4. answer' \in [Ids -> [Users -> States]]
  BY <1>1, <1>3
<1>5. ChecksTyped'
  BY <1>1, <1>4 DEF ChecksTyped, TypeOK
<1>6. Growth /\ Requests
  BY <1>1 DEF Growth, Requests, TypeOK
<1>7. ASSUME NEW c \in Ids PROVE Same(c) \/ Seated(c)
  <2>1. CASE c \in PendingFor(r) /\ u \notin On(c)
    <3>1. Pending(c) /\ ~Accept(c)
      BY <2>1, NoRoomAssumption DEF PendingFor, Accept
    <3>2. answer'[c] = [answer[c] EXCEPT ![u] = "pending"]
      BY <1>1, <2>1
    <3> QED
      BY <1>1, <3>1, <3>2 DEF Seated
  <2>2. CASE ~(c \in PendingFor(r) /\ u \notin On(c))
    BY <1>1, <2>2 DEF Same
  <2> QED
    BY <2>1, <2>2
<1> QED
  BY <1>2, <1>5, <1>6, <1>7 DEF Outcome, CheckStep
-----------------------------------------------------------------------------
\* Every step, and the invariant.

LEMMA NextOutcome ==
  ASSUME TypeOK, Counted, TasksSane, Next
  PROVE  Outcome
<1>1. ASSUME NEW t \in tasks, Step(t) PROVE Outcome
  BY <1>1, WriteAnswerOutcome, QuietCancelOutcome, OpenReadOutcome, InsertOutcome,
     WriteCancelOutcome, UnseatOutcome, RemoveMemberOutcome, DropOutcome DEF Step
<1>2. ASSUME NEW t \in tasks, Crash(t) PROVE Outcome
  BY <1>2, CrashOutcome
<1>3. ASSUME NEW u \in Users, NEW yes \in BOOLEAN, NEW s \in Subjects, Respond(u, yes, s)
      PROVE  Outcome
  BY <1>3, RespondOutcome
<1>4. ASSUME NEW u \in Users, NEW yes \in BOOLEAN, NEW c \in Ids, AnswerFor(u, c, yes)
      PROVE  Outcome
  BY <1>4, AnswerForOutcome
<1>5. ASSUME NEW r \in Rooms, NEW u \in members[r], NEW timed \in Timed, Reset(r, u, timed)
      PROVE  Outcome
  <2>1. u \in Users /\ timed \in BOOLEAN
    BY TimedAssumption DEF TypeOK
  <2> QED
    BY <1>5, <2>1, ResetOutcome
<1>6. ASSUME NEW r \in Rooms, DeleteRoom(r) PROVE Outcome
  BY <1>6, DeleteRoomOutcome
<1>7. ASSUME NEW r \in Rooms, NEW u \in Users, Join(u, r) \/ Leave(u, r) \/ Kick(u, r)
      PROVE  Outcome
  BY <1>7, JoinOutcome, LeaveOutcome, KickOutcome
<1>8. ASSUME NEW roster \in Matches, AskPlayers(roster) PROVE Outcome
  BY <1>8, AskPlayersOutcome
<1>9. ASSUME NEW c \in Ids, Cancel(c) \/ Expire(c) PROVE Outcome
  BY <1>9, CancelOutcome, ExpireOutcome
<1> QED
  BY <1>1, <1>2, <1>3, <1>4, <1>5, <1>6, <1>7, <1>8, <1>9 DEF Next

LEMMA StepOutcome ==
  ASSUME IInv, [Next]_vars
  PROVE  Outcome
<1>1. CASE Next
  BY <1>1, NextOutcome DEF IInv
<1>2. CASE UNCHANGED vars
  <2>1. UNCHANGED <<seatVars, checkVars>> /\ Requests
    BY <1>2 DEF vars, seatVars, checkVars, Requests, IInv, TypeOK
  <2> QED
    BY <2>1, IdleOutcome DEF IInv
<1> QED
  BY <1>1, <1>2

\* An opened check keeps its subject.
LEMMA SubjectKept ==
  ASSUME NEW c \in Ids, CheckStep(c), c <= made, TypeOK
  PROVE  room'[c] = room[c]
<1>1. ~Born(c)
  BY DEF Born, TypeOK, Ids
<1> QED
  BY <1>1 DEF CheckStep, Same, Buried, Answered, Dropped, Seated, Withdrawn, RanOut

LEMMA CountedStep ==
  ASSUME TypeOK, Counted, Outcome
  PROVE  Counted'
<1> SUFFICES ASSUME NEW c \in Ids PROVE status'[c] = "none" <=> c > made'
  BY DEF Counted, Ids
<1>1. CheckStep(c) /\ made \in Nat /\ c \in Nat
  BY MaxChecksAssumption DEF Outcome, TypeOK, Ids
<1>2. status[c] = "none" <=> c > made
  BY DEF Counted
<1>3. CASE made' = made
  <2>1. Evaluate(c, answer'[c]) \in {"passed", "declined", status[c]}
    BY DEF Evaluate
  <2>2. ~Born(c)
    BY <1>1, <1>3 DEF Born
  <2>3. Answerable(c) => status[c] # "none"
    BY DEF Answerable, Pending
  <2>4. CASE Buried(c)
    BY <1>1, <1>2, <1>3, <2>4 DEF Buried
  <2>5. CASE Same(c)
    BY <1>2, <1>3, <2>5 DEF Same
  <2>6. CASE Answered(c)
    BY <1>2, <1>3, <2>1, <2>3, <2>6 DEF Answered
  <2>7. CASE Dropped(c)
    BY <1>2, <1>3, <2>1, <2>7 DEF Dropped, Pending
  <2>8. CASE Seated(c) \/ Withdrawn(c) \/ RanOut(c)
    BY <1>2, <1>3, <2>8 DEF Seated, Withdrawn, RanOut, Pending
  <2> QED
    BY <1>1, <2>2, <2>4, <2>5, <2>6, <2>7, <2>8 DEF CheckStep
<1>4. CASE made' = made + 1 /\ made' \in Ids /\ status'[made'] = "pending"
  <2>1. CASE c = made'
    BY <1>1, <1>4, <2>1
  <2>2. CASE c # made'
    <3>1. ~Born(c)
      BY <1>1, <1>4, <2>2 DEF Born
    <3>2. c > made <=> c > made'
      BY <1>1, <1>4, <2>2
    <3>3. Evaluate(c, answer'[c]) \in {"passed", "declined", status[c]}
      BY DEF Evaluate
    <3>4. Answerable(c) => status[c] # "none"
      BY DEF Answerable, Pending
    <3>5. CASE Buried(c)
      BY <1>1, <1>2, <3>2, <3>5 DEF Buried
    <3>6. CASE Same(c)
      BY <1>2, <3>2, <3>6 DEF Same
    <3>7. CASE Answered(c)
      BY <1>2, <3>2, <3>3, <3>4, <3>7 DEF Answered
    <3>8. CASE Dropped(c)
      BY <1>2, <3>2, <3>3, <3>8 DEF Dropped, Pending
    <3>9. CASE Seated(c) \/ Withdrawn(c) \/ RanOut(c)
      BY <1>2, <3>2, <3>9 DEF Seated, Withdrawn, RanOut, Pending
    <3> QED
      BY <1>1, <3>1, <3>5, <3>6, <3>7, <3>8, <3>9 DEF CheckStep
  <2> QED
    BY <2>1, <2>2
<1> QED
  BY <1>3, <1>4 DEF Outcome, Growth

LEMMA TasksSaneStep ==
  ASSUME TypeOK, TasksSane, Outcome
  PROVE  TasksSane'
<1> SUFFICES ASSUME NEW t \in tasks' PROVE Sane(t)'
  BY DEF TasksSane
<1>1. t \in Tasks /\ Sane(t)
  BY DEF TasksSane, Outcome, Requests
<1>2. made \in Nat /\ made' \in Nat /\ made <= made'
  BY MaxChecksAssumption DEF Outcome, Growth, TypeOK, Ids
<1>3. CASE t.op = "drop"
  <2>1. t.check \in Ids /\ t.check <= made /\ ~Accept(t.check)
    BY <1>1, <1>3, TaskKinds DEF Sane
  <2>2. room'[t.check] = room[t.check]
    BY <2>1, SubjectKept DEF Outcome
  <2> QED
    BY <1>2, <1>3, <2>1, <2>2 DEF Sane, Accept, Ids
<1>4. CASE t.op # "drop"
  BY <1>1, <1>4 DEF Sane
<1> QED
  BY <1>3, <1>4

\* A verdict is sound after each thing that may happen to its check.
LEMMA SoundStep ==
  ASSUME TypeOK, Outcome, VerdictsSound
  PROVE  VerdictsSound'
<1> SUFFICES ASSUME NEW c \in Ids PROVE Sound(status'[c], answer'[c], Accept(c)')
  BY DEF VerdictsSound
<1> DEFINE a == answer[c]
           b == answer'[c]
<1>1. CheckStep(c) /\ Sound(status[c], a, Accept(c))
  BY DEF Outcome, VerdictsSound
<1>2. a \in [Users -> States] /\ b \in [Users -> States]
  BY DEF TypeOK, Outcome, ChecksTyped
<1>3. room'[c] = room[c] => Accept(c)' = Accept(c)
  BY DEF Accept
<1>4. CASE Same(c)
  BY <1>1, <1>3, <1>4 DEF Same
<1>5. CASE Buried(c)
  BY <1>5 DEF Buried, Sound
<1>6. CASE Born(c)
  <2>1. status'[c] = "pending" /\ (\E u \in Users : b[u] # "none")
        /\ \A u \in Users : b[u] \in {"none", "pending", "ready"}
    BY <1>6 DEF Born
  <2> QED
    BY <2>1 DEF Sound
<1>7. CASE Answered(c)
  <2>1. PICK u \in On(c), yes \in BOOLEAN :
          /\ Answerable(c) /\ room'[c] = room[c]
          /\ b = [a EXCEPT ![u] = IF yes THEN "ready" ELSE "declined"]
          /\ status'[c] = Evaluate(c, b)
    BY <1>7 DEF Answered
  <2>2. u \in Users /\ b[u] \in {"ready", "declined"}
        /\ \A v \in Users : v # u => b[v] = a[v]
    BY <1>2, <2>1 DEF On
  <2>3. status[c] \in {"pending", "timeout"} /\ (status[c] = "timeout" => ~Accept(c))
    BY <2>1 DEF Answerable, Pending
  <2>4. status'[c] = Evaluate(c, b) /\ Accept(c)' = Accept(c)
    BY <1>3, <2>1
  <2> QED
    BY <1>1, <2>2, <2>3, <2>4 DEF Evaluate, Sound
<1>8. CASE Dropped(c)
  <2>1. PICK u \in Users :
          /\ Pending(c) /\ ~Accept(c) /\ room'[c] = room[c]
          /\ b = [a EXCEPT ![u] = "none"]
          /\ status'[c] = IF \A v \in Users : b[v] = "none" THEN "cancelled" ELSE Evaluate(c, b)
    BY <1>8 DEF Dropped
  <2>2. b[u] = "none" /\ \A v \in Users : v # u => b[v] = a[v]
    BY <1>2, <2>1
  <2>3. /\ status[c] = "pending" /\ ~Accept(c) /\ Accept(c)' = Accept(c)
        /\ status'[c] = IF \A v \in Users : b[v] = "none" THEN "cancelled" ELSE Evaluate(c, b)
    BY <1>3, <2>1 DEF Pending
  <2> QED
    BY <1>1, <2>2, <2>3 DEF Evaluate, Sound
<1>9. CASE Seated(c)
  <2>1. PICK u \in Users : /\ Pending(c) /\ status'[c] = status[c] /\ room'[c] = room[c]
                           /\ b = [a EXCEPT ![u] = "pending"]
    BY <1>9 DEF Seated
  <2>2. b[u] = "pending" /\ \A v \in Users : v # u => b[v] = a[v]
    BY <1>2, <2>1
  <2>3. status'[c] = "pending" /\ status[c] = "pending" /\ Accept(c)' = Accept(c)
    BY <1>3, <2>1 DEF Pending
  <2> QED
    BY <1>1, <2>2, <2>3 DEF Sound
<1>10. CASE Withdrawn(c)
  BY <1>10 DEF Withdrawn, Sound
<1>11. CASE RanOut(c)
  BY <1>11 DEF RanOut, Sound
<1> QED
  BY <1>1, <1>4, <1>5, <1>6, <1>7, <1>8, <1>9, <1>10, <1>11 DEF CheckStep

LEMMA InitInv ==
  ASSUME Init
  PROVE  IInv
<1>1. TypeOK
  BY MaxChecksAssumption DEF Init, TypeOK, Ids, Subjects, Statuses, States
<1>2. Counted
  BY DEF Init, Counted, Ids
<1>3. TasksSane /\ VerdictsSound
  BY DEF Init, TasksSane, VerdictsSound, Sound
<1> QED
  BY <1>1, <1>2, <1>3 DEF IInv

LEMMA StepInv ==
  ASSUME IInv, [Next]_vars
  PROVE  IInv'
<1>1. TypeOK /\ Counted /\ TasksSane /\ VerdictsSound
  BY DEF IInv
<1>2. Outcome
  BY StepOutcome
<1>3. TypeOK'
  BY <1>2 DEF Outcome, Requests, SeatsTyped, ChecksTyped, TypeOK
<1> QED
  BY <1>1, <1>2, <1>3, CountedStep, TasksSaneStep, SoundStep DEF IInv

LEMMA Invariance == Spec => []IInv
  BY InitInv, StepInv, PTL DEF Spec
-----------------------------------------------------------------------------
\* Seats and boards: a board is opened over the members its room has.

\* A room's seats stay as an open read them until its insert: the lock is held.
RostersRead ==
  \A t \in tasks : (t.op = "insert" /\ t.open.room \in Rooms) => t.roster = members[t.open.room]

SInv == IInv /\ RostersRead

\* A request leaves only by its own step.
LEMMA TaskStays ==
  ASSUME Next, NEW t \in tasks, t \notin tasks'
  PROVE  Step(t) \/ Crash(t)
<1>1. ASSUME NEW x \in tasks, Step(x) PROVE tasks \ {x} \subseteq tasks'
  BY <1>1 DEF Step, Continue, WriteAnswer, QuietCancel, OpenRead, Insert, WriteCancel, Unseat,
              RemoveMember, Drop
<1>2. ASSUME NEW x \in tasks, Crash(x) PROVE tasks \ {x} \subseteq tasks'
  BY <1>2 DEF Crash, Continue
<1>3. ASSUME NEW u, NEW yes, NEW c, NEW r, NEW timed, NEW roster,
             \/ Respond(u, yes, r) \/ AnswerFor(u, c, yes) \/ Reset(r, u, timed)
             \/ AskPlayers(roster) \/ Cancel(c) \/ Expire(c)
      PROVE  tasks \subseteq tasks'
  BY <1>3 DEF Spawn, Respond, AnswerFor, Reset, AskPlayers, Cancel, Expire
<1>4. ASSUME NEW u, NEW r, Join(u, r) \/ Leave(u, r) \/ Kick(u, r) \/ DeleteRoom(r)
      PROVE  tasks \subseteq tasks'
  BY <1>4 DEF Spawn, Join, Leave, Kick, DeleteRoom
<1> QED BY <1>1, <1>2, <1>3, <1>4 DEF Next

\* What a step may do to the seats of a room: nobody moves; or, with the room's lock
\* free, one takes a seat, one gives it up and is to be dropped, or the room ends.
Seats(r) ==
  \/ members'[r] = members[r]
  \/ \E u \in Users : Join(u, r)
  \/ /\ Unlocked(r)
     /\ \E t \in tasks' : t.op = "left" /\ t.room = r /\ members'[r] = members[r] \ {t.user}
  \/ /\ Unlocked(r) /\ members'[r] = {}
     /\ \A c \in Ids : (c <= made /\ room[c] = r) => status'[c] = "gone"

\* Giving up a seat leaves a request to be dropped, or ends the room.
LEMMA VacateSeats ==
  ASSUME TypeOK, NEW u \in Users, NEW r \in Rooms, NEW s \in Rooms, Vacate(u, r), Unlocked(r),
         NEW t \in tasks', t.op = "left", t.room = r, t.user = u
  PROVE  Seats(s)
<1>1. CASE Demolish(r)
  BY <1>1 DEF Demolish, Seats, TypeOK
<1>2. CASE members' = [members EXCEPT ![r] = @ \ {u}]
  <2>1. CASE s = r
    <3>1. members'[s] = members[s] \ {t.user}
      BY <1>2, <2>1 DEF TypeOK
    <3> QED BY <2>1, <3>1 DEF Seats
  <2>2. CASE s # r
    BY <1>2, <2>2 DEF Seats, TypeOK
  <2> QED BY <2>1, <2>2
<1> QED BY <1>1, <1>2 DEF Vacate

LEMMA SeatCases ==
  ASSUME TypeOK, Next, NEW s \in Rooms
  PROVE  Seats(s)
<1>1. CASE UNCHANGED members
  BY <1>1 DEF Seats
<1>2. ASSUME NEW r \in Rooms, NEW u \in Users, Join(u, r) PROVE Seats(s)
  BY <1>2 DEF Join, Seats, TypeOK
<1>3. ASSUME NEW r \in Rooms, DeleteRoom(r) PROVE Seats(s)
  BY <1>3 DEF DeleteRoom, Demolish, Seats, TypeOK
<1>4. ASSUME NEW r \in Rooms, NEW u \in Users, Kick(u, r) PROVE Seats(s)
  <2> DEFINE t == [op |-> "left", room |-> r, user |-> u]
  <2>1. t \in tasks' /\ t.op = "left" /\ t.room = r /\ t.user = u
    BY <1>4 DEF Kick, Spawn
  <2> HIDE DEF t
  <2> QED BY <1>4, <2>1, VacateSeats DEF Kick
<1>5. ASSUME NEW t \in tasks, Unseat(t) PROVE Seats(s)
  <2>1. /\ t.room \in Rooms /\ t.user \in Users
        /\ t \in [op : {"leaving", "left"}, room : Rooms, user : Users]
    BY <1>5, TaskKinds DEF Unseat, TypeOK
  <2> DEFINE left == [t EXCEPT !.op = "left"]
  <2>2. left.op = "left" /\ left.room = t.room /\ left.user = t.user
    BY <2>1
  <2>3. CASE t.user \in members[t.room]
    <3>1. left \in tasks'
      BY <1>5, <2>3 DEF Unseat, Continue
    <3> HIDE DEF left
    <3> QED BY <1>5, <2>1, <2>2, <2>3, <3>1, VacateSeats DEF Unseat
  <2>4. CASE t.user \notin members[t.room]
    BY <1>1, <1>5, <2>4 DEF Unseat, seatVars
  <2> QED BY <2>3, <2>4
<1>6. ASSUME NEW t \in tasks, Step(t), ~Unseat(t) PROVE UNCHANGED members
  BY <1>6 DEF Step, WriteAnswer, QuietCancel, OpenRead, Insert, WriteCancel, RemoveMember, Drop,
              Cancelled, Resolve, Refuse, seatVars
<1>7. ASSUME NEW t \in tasks, Crash(t) PROVE UNCHANGED members
  BY <1>7 DEF Crash, seatVars
<1>8. ASSUME NEW u, NEW yes, NEW c, NEW r, NEW timed, NEW roster,
             \/ Respond(u, yes, r) \/ AnswerFor(u, c, yes) \/ Reset(r, u, timed) \/ Leave(u, r)
             \/ AskPlayers(roster) \/ Cancel(c) \/ Expire(c)
      PROVE  UNCHANGED members
  BY <1>8 DEF Respond, AnswerFor, Reset, Leave, AskPlayers, Cancel, Expire, Expired, Resolve,
              Refuse, seatVars
<1> QED BY <1>1, <1>2, <1>3, <1>4, <1>5, <1>6, <1>7, <1>8 DEF Next

\* Who a step puts on a board took a seat, or was read with its roster.
Opens(c, t) ==
  /\ t \in tasks /\ t.op = "insert" /\ UNCHANGED members
  /\ c = made + 1 /\ room'[c] = t.open.room
  /\ \A u \in Users : answer'[c][u] # "none" <=> u \in t.roster
Enters(c, u) ==
  \/ answer[c][u] # "none"
  \/ \E r \in Rooms : Join(u, r) /\ c \in PendingFor(r)
  \/ \E t \in tasks : Opens(c, t)

LEMMA ResolveEnters ==
  ASSUME TypeOK, NEW d \in Ids, NEW to, NEW ans, Resolve(d, to, ans), NEW c \in Ids, NEW u \in Users,
         ans[u] # "none" => answer[d][u] # "none"
  PROVE  answer'[c][u] # "none" => Enters(c, u)
BY DEF Resolve, TypeOK, Enters

LEMMA InsertOpens ==
  ASSUME TypeOK, NEW t \in tasks, Insert(t), NEW c \in Ids
  PROVE  \/ made' = made /\ UNCHANGED <<members, answer>>
         \/ made' = made + 1 /\ Opens(made + 1, t) /\ (c # made + 1 => answer'[c] = answer[c])
<1>1. CASE PendingFor(t.open.room) = {} /\ made < MaxChecks
  <2>1. made + 1 \in Ids
    BY <1>1, MaxChecksAssumption DEF TypeOK, Ids
  <2>2. /\ made' = made + 1 /\ room' = [room EXCEPT ![made + 1] = t.open.room]
        /\ answer' = [answer EXCEPT ![made + 1] =
                        [u \in Users |-> IF u \notin t.roster THEN "none"
                                         ELSE IF u = t.open.opener THEN "ready"
                                         ELSE "pending"]]
        /\ UNCHANGED members /\ t.op = "insert"
    BY <1>1 DEF Insert, seatVars
  <2>3. room'[made + 1] = t.open.room /\ (c # made + 1 => answer'[c] = answer[c])
    BY <2>1, <2>2 DEF TypeOK
  <2>4. answer'[made + 1] = [u \in Users |-> IF u \notin t.roster THEN "none"
                                             ELSE IF u = t.open.opener THEN "ready"
                                             ELSE "pending"]
    BY <2>1, <2>2 DEF TypeOK
  <2>5. \A u \in Users : answer'[made + 1][u] # "none" <=> u \in t.roster
    BY <2>4
  <2> QED BY <2>2, <2>3, <2>5 DEF Opens
<1>2. CASE ~(PendingFor(t.open.room) = {} /\ made < MaxChecks)
  BY <1>2 DEF Insert, seatVars, checkVars
<1> QED BY <1>1, <1>2

LEMMA EnterCases ==
  ASSUME TypeOK, Next, NEW c \in Ids, NEW u \in Users, answer'[c][u] # "none"
  PROVE  Enters(c, u)
<1>1. CASE UNCHANGED answer
  BY <1>1 DEF Enters
<1>2. ASSUME NEW r \in Rooms, NEW v \in Users, Join(v, r) PROVE Enters(c, u)
  <2>1. CASE c \in PendingFor(r) /\ v \notin On(c)
    <3>1. answer'[c] = [answer[c] EXCEPT ![v] = "pending"]
      BY <1>2, <2>1 DEF Join, AddMember
    <3>2. CASE u = v
      BY <1>2, <2>1, <3>2 DEF Enters
    <3>3. CASE u # v
      BY <3>1, <3>3 DEF Enters, TypeOK
    <3> QED BY <3>2, <3>3
  <2>2. CASE ~(c \in PendingFor(r) /\ v \notin On(c))
    BY <1>2, <2>2 DEF Join, AddMember, Enters
  <2> QED BY <2>1, <2>2
<1>3. ASSUME NEW t \in tasks, Insert(t) PROVE Enters(c, u)
  <2>1. CASE made' = made /\ UNCHANGED <<members, answer>>
    BY <2>1, <1>1
  <2>2. CASE Opens(made + 1, t) /\ (c # made + 1 => answer'[c] = answer[c])
    BY <2>2 DEF Enters
  <2> QED BY <1>3, <2>1, <2>2, InsertOpens
<1>4. ASSUME NEW t \in tasks, WriteAnswer(t) PROVE Enters(c, u)
  <2> DEFINE d == t.check
             ans == [answer[d] EXCEPT ![t.user] = IF t.yes THEN "ready" ELSE "declined"]
  <2>1. t \in Answering
    BY <1>4, TaskKinds DEF WriteAnswer, TypeOK
  <2>2. d \in Ids /\ t.user \in Users
    BY <2>1 DEF Answering
  <2>3. CASE t.user \in On(d) /\ Resolve(d, Evaluate(d, ans), ans)
    <3>1. ans[u] # "none" => answer[d][u] # "none"
      BY <2>2, <2>3 DEF On, TypeOK
    <3> HIDE DEF ans, d
    <3> QED BY <2>2, <2>3, <3>1, ResolveEnters
  <2>4. CASE Refuse
    BY <1>1, <2>4 DEF Refuse, checkVars
  <2> QED BY <1>4, <2>3, <2>4 DEF WriteAnswer
<1>5. ASSUME NEW t \in tasks, Drop(t) PROVE Enters(c, u)
  <2> DEFINE d == t.check
             ans == Without(answer[d], t.user)
             to == IF \A v \in Users : ans[v] = "none" THEN "cancelled" ELSE Evaluate(d, ans)
  <2>1. d \in Ids /\ t.user \in Users
    BY <1>5, TaskKinds DEF Drop, TypeOK
  <2>2. CASE Resolve(d, to, ans)
    <3>1. ans[u] # "none" => answer[d][u] # "none"
      BY <2>1 DEF Without, TypeOK
    <3> HIDE DEF ans, d, to
    <3> QED BY <2>1, <2>2, <3>1, ResolveEnters
  <2>3. CASE Refuse
    BY <1>1, <2>3 DEF Refuse, checkVars
  <2> QED BY <1>5, <2>2, <2>3 DEF Drop
<1>6. ASSUME NEW d \in Ids, NEW to, Cancelled(d, to) PROVE Enters(c, u)
  BY <1>1, <1>6, ResolveEnters DEF Cancelled, Refuse, checkVars
<1>7. ASSUME NEW t \in tasks, QuietCancel(t) \/ WriteCancel(t) PROVE Enters(c, u)
  <2>1. t.check \in Ids
    BY <1>7, TaskKinds DEF QuietCancel, WriteCancel, TypeOK, Resetting
  <2> QED BY <1>6, <1>7, <2>1 DEF QuietCancel, WriteCancel
<1>8. ASSUME NEW d \in Ids, Expire(d) PROVE Enters(c, u)
  <2> DEFINE ans == [v \in Users |-> IF answer[d][v] = "pending" THEN "timed_out" ELSE answer[d][v]]
  <2>1. ans[u] # "none" => answer[d][u] # "none"
    OBVIOUS
  <2>2. CASE Resolve(d, "timeout", ans)
    <3> HIDE DEF ans
    <3> QED BY <2>1, <2>2, ResolveEnters
  <2>3. CASE Refuse
    BY <1>1, <2>3 DEF Refuse, checkVars
  <2> QED BY <1>8, <2>2, <2>3 DEF Expire, Expired
<1>9. ASSUME NEW t \in tasks, OpenRead(t) \/ Unseat(t) \/ RemoveMember(t) \/ Crash(t)
      PROVE  UNCHANGED answer
  BY <1>9 DEF OpenRead, Unseat, RemoveMember, Crash, checkVars
<1>10. ASSUME NEW v, NEW yes, NEW d, NEW r, NEW timed, NEW roster,
             \/ Respond(v, yes, r) \/ AnswerFor(v, d, yes) \/ Reset(r, v, timed) \/ Leave(v, r)
             \/ AskPlayers(roster) \/ Cancel(d) \/ DeleteRoom(r) \/ Kick(v, r)
       PROVE  UNCHANGED answer
  BY <1>10 DEF Respond, AnswerFor, Reset, Leave, AskPlayers, Cancel, DeleteRoom, Kick, checkVars
<1> QED
  BY <1>1, <1>2, <1>3, <1>4, <1>5, <1>7, <1>8, <1>9, <1>10 DEF Next, Step

\* The reads of an open hold until its insert.
LEMMA RostersStep ==
  ASSUME TypeOK, RostersRead, Next
  PROVE  RostersRead'
<1> SUFFICES ASSUME NEW t \in tasks', t.op = "insert", t.open.room \in Rooms
             PROVE  t.roster = members'[t.open.room]
  BY DEF RostersRead
<1>1. CASE t \in tasks
  <2>1. t.roster = members[t.open.room] /\ ~Unlocked(t.open.room)
    BY <1>1 DEF RostersRead, Unlocked
  <2>2. Seats(t.open.room)
    BY SeatCases
  <2>3. ASSUME NEW u \in Users, NEW r \in Rooms, Join(u, r)
        PROVE  members'[t.open.room] = members[t.open.room]
    BY <2>1, <2>3 DEF Join, TypeOK
  <2>4. ASSUME NEW u \in Users, Join(u, t.open.room) PROVE FALSE
    BY <2>1, <2>4 DEF Join
  <2> QED BY <2>1, <2>2, <2>4 DEF Seats
<1>2. CASE t \notin tasks
  <2>1. PICK x \in tasks : /\ OpenRead(x) /\ t.open = x /\ t.roster = RosterOf(x)
    <3>1. ASSUME NEW x \in tasks, OpenRead(x), t.open # x \/ t.roster # RosterOf(x) PROVE FALSE
      <4> DEFINE new == [op |-> "insert", open |-> x, roster |-> RosterOf(x)]
      <4>1. new.open = x /\ new.roster = RosterOf(x)
        OBVIOUS
      <4>2. t = new
        BY <1>2, <3>1 DEF OpenRead, Continue
      <4> QED BY <3>1, <4>1, <4>2
    <3>2. ASSUME NEW x \in tasks, WriteAnswer(x) \/ Insert(x) \/ WriteCancel(x) \/ Drop(x) \/ Crash(x)
          PROVE  FALSE
      BY <1>2, <3>2 DEF WriteAnswer, Insert, WriteCancel, Drop, Crash, Continue
    <3>3. ASSUME NEW x \in tasks, QuietCancel(x) PROVE FALSE
      <4>1. x \in Resetting
        BY <3>3, TaskKinds DEF QuietCancel, TypeOK
      <4>2. x.open.op = "open"
        BY <4>1 DEF Resetting, Opening
      <4> QED BY <1>2, <3>3, <4>2 DEF QuietCancel, Continue
    <3>4. ASSUME NEW x \in tasks, Unseat(x) PROVE FALSE
      <4> DEFINE left == [x EXCEPT !.op = "left"]
      <4>1. x \in [op : {"leaving", "left"}, room : Rooms, user : Users]
        BY <3>4, TaskKinds DEF Unseat, TypeOK
      <4>2. left.op = "left"
        BY <4>1
      <4> HIDE DEF left
      <4>3. t = left
        BY <1>2, <3>4 DEF Unseat, Continue, left
      <4> QED BY <4>2, <4>3
    <3>5. ASSUME NEW x \in tasks, RemoveMember(x) PROVE FALSE
      <4> DEFINE drop(c) == [op |-> "drop", check |-> c, user |-> x.user]
      <4>1. \A c : drop(c).op = "drop"
        OBVIOUS
      <4> HIDE DEF drop
      <4>2. \E c : t = drop(c)
        BY <1>2, <3>5 DEF RemoveMember, Continue, drop
      <4> QED BY <4>1, <4>2
    <3>6. ASSUME NEW u, NEW yes, NEW c, NEW r, NEW roster,
                 \/ Respond(u, yes, r) \/ AnswerFor(u, c, yes) \/ AskPlayers(roster)
                 \/ Cancel(c) \/ Leave(u, r) \/ Kick(u, r)
          PROVE  FALSE
      BY <1>2, <3>6 DEF Respond, AnswerFor, AskPlayers, Cancel, Leave, Kick, Spawn
    <3>7. ASSUME NEW r, NEW u, NEW timed, Reset(r, u, timed) PROVE FALSE
      BY <1>2, <3>7 DEF Reset, Spawn
    <3>8. ASSUME NEW u, NEW r, NEW c, Join(u, r) \/ DeleteRoom(r) \/ Expire(c) PROVE FALSE
      BY <1>2, <3>8 DEF Join, DeleteRoom, Expire
    <3> QED BY <3>1, <3>2, <3>3, <3>4, <3>5, <3>6, <3>7, <3>8 DEF Next, Step
  <2> QED BY <2>1, NoRoomAssumption DEF OpenRead, RosterOf, seatVars
<1> QED BY <1>1, <1>2

LEMMA InvarianceS == Spec => []SInv
<1>1. Init => SInv
  BY InitInv DEF SInv, Init, RostersRead
<1>2. SInv /\ [Next]_vars => SInv'
  <2> SUFFICES ASSUME SInv, [Next]_vars PROVE SInv'
    OBVIOUS
  <2>1. IInv /\ IInv' /\ TypeOK
    BY StepInv DEF SInv, IInv
  <2>2. CASE Next
    BY <2>1, <2>2, RostersStep DEF SInv
  <2>3. CASE UNCHANGED vars
    BY <2>1, <2>3 DEF SInv, RostersRead, vars
  <2> QED BY <2>2, <2>3
<1> QED BY <1>1, <1>2, PTL DEF Spec


\* A new check is one that an open inserted.
LEMMA GrowthOpens ==
  ASSUME TypeOK, Next, made' # made
  PROVE  made' = made + 1 /\ \E t \in tasks : Opens(made + 1, t)
<1>1. ASSUME NEW t \in tasks, Insert(t) PROVE made' = made + 1 /\ Opens(made + 1, t)
  <2>1. made \in Nat
    BY MaxChecksAssumption DEF TypeOK
  <2>2. CASE 1 \in Ids
    BY <1>1, <2>2, InsertOpens
  <2>3. CASE 1 \notin Ids
    <3>1. ~(made < MaxChecks)
      BY <2>1, <2>3, MaxChecksAssumption DEF Ids
    <3> QED BY <1>1, <3>1 DEF Insert, checkVars
  <2> QED BY <2>2, <2>3
<1>2. ASSUME NEW t \in tasks, Step(t), ~Insert(t) PROVE FALSE
  <2>1. CASE WriteAnswer(t) \/ Drop(t)
    BY <2>1 DEF WriteAnswer, Drop, Resolve, Refuse, checkVars
  <2>2. CASE QuietCancel(t) \/ WriteCancel(t)
    BY <2>2 DEF QuietCancel, WriteCancel, Cancelled, Resolve, Refuse, checkVars
  <2>3. CASE OpenRead(t) \/ Unseat(t) \/ RemoveMember(t)
    BY <2>3 DEF OpenRead, Unseat, RemoveMember, checkVars
  <2> QED BY <1>2, <2>1, <2>2, <2>3 DEF Step
<1>3. ASSUME NEW t \in tasks, Crash(t) PROVE FALSE
  BY <1>3 DEF Crash, checkVars
<1>4. ASSUME NEW u, NEW yes, NEW c, NEW r, NEW timed, NEW roster,
             \/ Respond(u, yes, r) \/ AnswerFor(u, c, yes) \/ Reset(r, u, timed)
             \/ AskPlayers(roster) \/ Cancel(c) \/ Expire(c)
      PROVE  FALSE
  BY <1>4 DEF Respond, AnswerFor, Reset, AskPlayers, Cancel, Expire, Expired, Resolve, Refuse,
              checkVars
<1>5. ASSUME NEW u, NEW r, Join(u, r) \/ Leave(u, r) \/ Kick(u, r) \/ DeleteRoom(r) PROVE FALSE
  BY <1>5 DEF Join, Leave, Kick, DeleteRoom, checkVars
<1> QED BY <1>1, <1>2, <1>3, <1>4, <1>5 DEF Next

\* A check that is pending after a step was so before, or has just been opened.
LEMMA PendingBefore ==
  ASSUME IInv, Next, NEW c \in Ids, Pending(c)'
  PROVE  \/ Pending(c) /\ room'[c] = room[c] /\ c <= made
         \/ \E t \in tasks : Opens(c, t)
<1>1. /\ TypeOK /\ CheckStep(c) /\ Counted /\ made \in Nat /\ c \in Nat /\ status'[c] = "pending"
  BY StepOutcome, MaxChecksAssumption DEF IInv, TypeOK, Ids, Outcome, Pending
<1>2. CASE Born(c)
  <2>1. c > made /\ c <= made'
    BY <1>2 DEF Born
  <2>2. made' = made + 1 /\ \E t \in tasks : Opens(made + 1, t)
    BY <1>1, <2>1, GrowthOpens
  <2>3. c = made + 1
    BY <1>1, <2>1, <2>2
  <2> QED BY <2>2, <2>3
<1>a. Pending(c) => c <= made
  BY <1>1 DEF Counted, Pending
<1>b. Evaluate(c, answer'[c]) \in {"passed", "declined", status[c]}
  BY DEF Evaluate
<1>3. CASE Answered(c)
  BY <1>1, <1>a, <1>b, <1>3 DEF Answered, Pending
<1>4. CASE Same(c) \/ Dropped(c) \/ Seated(c)
  BY <1>1, <1>a, <1>4 DEF Same, Dropped, Seated, Pending
<1>5. ~Buried(c) /\ ~Withdrawn(c) /\ ~RanOut(c)
  BY <1>1 DEF Buried, Withdrawn, RanOut
<1> QED BY <1>1, <1>2, <1>3, <1>4, <1>5 DEF CheckStep

\* Who is on a pending board without a seat was so, or has just given his seat up: a
\* board is opened over those who sit, and a seat comes with its place on the board.
LEMMA GhostBefore ==
  ASSUME SInv, Next, NEW c \in Ids, NEW u \in Users, Ghost(c, u)'
  PROVE  Ghost(c, u) \/ Leaving(c, u)'
<1>1. /\ TypeOK /\ IInv /\ Pending(c)' /\ status'[c] = "pending" /\ answer'[c][u] # "none"
      /\ room'[c] \in Rooms /\ u \notin members'[room'[c]]
  BY DEF SInv, IInv, Ghost, Pending, On
<1>2. ASSUME NEW t \in tasks, Opens(c, t) PROVE FALSE
  <2>1. t.roster = members[t.open.room]
    BY <1>1, <1>2 DEF Opens, SInv, RostersRead
  <2> QED BY <1>1, <1>2, <2>1 DEF Opens
<1>3. Pending(c) /\ room'[c] = room[c] /\ c <= made
  BY <1>1, <1>2, PendingBefore
<1>4. ASSUME NEW r \in Rooms, Join(u, r), c \in PendingFor(r) PROVE FALSE
  <2>1. room[c] = r /\ u \in members'[r]
    BY <1>1, <1>4 DEF Join, PendingFor, TypeOK
  <2> QED BY <1>1, <1>3, <2>1
<1>5. u \in On(c)
  BY <1>1, <1>2, <1>4, EnterCases DEF Enters, On
<1> SUFFICES ASSUME u \in members[room[c]] PROVE Leaving(c, u)'
  BY <1>1, <1>3, <1>5 DEF Ghost
<1>6. Seats(room[c])
  BY <1>1, <1>3, SeatCases
<1>7. ASSUME NEW v \in Users, Join(v, room[c]) PROVE FALSE
  BY <1>1, <1>3, <1>7 DEF Join, TypeOK
<1>8. PICK t \in tasks' : /\ t.op = "left" /\ t.room = room[c]
                          /\ members'[room[c]] = members[room[c]] \ {t.user}
  BY <1>1, <1>3, <1>6, <1>7 DEF Seats
<1>9. t.user = u
  BY <1>1, <1>3, <1>8
<1> QED BY <1>3, <1>8, <1>9 DEF Leaving, Removal

\* A request that is to take someone off a board stays until it has, if it does not die.
LEMMA LeavingStays ==
  ASSUME SInv, Next, Mortal \cap {"left", "drop"} = {}, NEW c \in Ids, NEW u \in Users,
         Leaving(c, u), Ghost(c, u), Ghost(c, u)'
  PROVE  Leaving(c, u)'
<1>1. TypeOK /\ IInv /\ Pending(c) /\ room[c] \in Rooms /\ Pending(c)' /\ answer'[c][u] # "none"
  BY DEF SInv, IInv, Ghost, On
<1>2. PICK t \in tasks : /\ Removal(t, u) /\ (t.op = "left" => t.room = room[c])
                         /\ (t.op = "drop" => t.check = c)
  BY DEF Leaving
<1>3. room'[c] = room[c]
  <2>1. ASSUME NEW x, Opens(c, x) PROVE FALSE
    <3>1. status[c] # "none" /\ c = made + 1 /\ made \in Nat
      BY <1>1, <2>1, MaxChecksAssumption DEF Pending, Opens, TypeOK
    <3> QED BY <1>1, <3>1 DEF IInv, Counted
  <2> QED BY <1>1, <2>1, PendingBefore
<1>4. CASE t \in tasks'
  BY <1>2, <1>3, <1>4 DEF Leaving, Removal
<1>5. CASE RemoveMember(t)
  <2> DEFINE drop == [op |-> "drop", check |-> c, user |-> t.user]
  <2>1. drop.op = "drop" /\ drop.check = c /\ drop.user = t.user
    OBVIOUS
  <2>2. c \in PendingFor(t.room)
    BY <1>1, <1>2, <1>5, NoRoomAssumption DEF RemoveMember, PendingFor
  <2>3. drop \in tasks'
    BY <1>5, <2>2 DEF RemoveMember, Continue
  <2> HIDE DEF drop
  <2> QED BY <1>2, <2>1, <2>3 DEF Leaving, Removal
<1>6. CASE Drop(t)
  <2>1. t.check = c /\ t.user = u
    BY <1>2, <1>6 DEF Drop, Removal
  <2>2. answer' = [answer EXCEPT ![c] = Without(answer[c], u)]
    BY <1>1, <1>6, <2>1 DEF Drop, StillPending, Resolve
  <2>3. answer'[c][u] = "none"
    BY <1>1, <2>2 DEF Without, TypeOK
  <2> QED BY <1>1, <2>3
<1>7. CASE t \notin tasks' /\ ~RemoveMember(t) /\ ~Drop(t)
  <2>1. Step(t) \/ Crash(t)
    BY <1>7, TaskStays
  <2> QED
    BY <1>2, <1>7, <2>1
       DEF Removal, Step, Crash, WriteAnswer, QuietCancel, OpenRead, Insert, WriteCancel, Unseat
<1> QED BY <1>4, <1>5, <1>6, <1>7
-----------------------------------------------------------------------------
\* The theorems.

\* Seats, checks, answers and requests keep their types: every answer a player
\* has is one of the code's states, of a check that was opened with an id the
\* database gave out.
THEOREM TypeCorrect == Spec => []TypeOK
  BY Invariance, PTL DEF IInv

\* A check that passed has somebody on it, and everybody on it is ready:
\* evaluate/1 under the check's lock never counts an answer of an earlier read.
THEOREM PassedUnanimouslyHolds == Spec => []PassedUnanimously
<1>1. IInv => PassedUnanimously
  <2> SUFFICES ASSUME IInv, NEW c \in Ids, status[c] = "passed"
               PROVE  On(c) # {} /\ \A u \in On(c) : answer[c][u] = "ready"
    BY DEF PassedUnanimously
  <2>1. (\E u \in Users : answer[c][u] # "none")
        /\ \A u \in Users : answer[c][u] \in {"none", "ready"}
    BY DEF IInv, VerdictsSound, Sound
  <2> QED
    BY <2>1 DEF On
<1> QED
  BY <1>1, Invariance, PTL

\* A verdict fits its kind and its answers: a no ends an accept check at once
\* and only an accept check, a timeout leaves nobody waiting, and an open board
\* has somebody on it.
THEOREM VerdictsFitHolds == Spec => []VerdictsFit
<1>1. IInv => VerdictsFit
  <2> SUFFICES ASSUME IInv, NEW c \in Ids
               PROVE
                 /\ Pending(c) /\ Accept(c) => \A u \in On(c) : answer[c][u] # "declined"
                 /\ status[c] = "declined" => Accept(c) /\ \E u \in On(c) : answer[c][u] = "declined"
                 /\ status[c] = "timeout" => \A u \in On(c) : answer[c][u] # "pending"
                 /\ Pending(c) => On(c) # {} /\ \A u \in On(c) : answer[c][u] # "timed_out"
    BY DEF VerdictsFit
  <2>1. Sound(status[c], answer[c], Accept(c))
    BY DEF IInv, VerdictsSound
  <2> QED
    BY <2>1 DEF Sound, On, Pending
<1> QED
  BY <1>1, Invariance, PTL

\* A verdict stands: an answer, removal, expiry or cancel that reaches a
\* resolved check leaves its verdict, but for a board that timed out and is then
\* passed by its last answer, or goes with its room.
THEOREM VerdictsStandHolds == Spec => VerdictsStand
<1> DEFINE Stands(c) == \/ status'[c] \in {status[c], "gone"}
                        \/ status[c] \in {"none", "pending"}
                        \/ status[c] = "timeout" /\ status'[c] = "passed" /\ ~Accept(c)
<1>1. IInv /\ [Next]_vars => [\A c \in Ids : Stands(c)]_vars
  <2> SUFFICES ASSUME IInv, [Next]_vars, NEW c \in Ids PROVE Stands(c)
    OBVIOUS
  <2>1. CheckStep(c)
    BY StepOutcome DEF Outcome
  <2>2. CASE Answered(c)
    <3>1. status'[c] = Evaluate(c, answer'[c]) /\ Answerable(c)
      BY <2>2 DEF Answered
    <3> QED
      BY <3>1 DEF Evaluate, Answerable, Pending
  <2>3. CASE Same(c) \/ Buried(c) \/ Born(c)
    BY <2>3 DEF Same, Buried, Born
  <2>4. CASE Dropped(c) \/ Seated(c) \/ Withdrawn(c) \/ RanOut(c)
    BY <2>4 DEF Dropped, Seated, Withdrawn, RanOut, Pending
  <2> QED
    BY <2>1, <2>2, <2>3, <2>4 DEF CheckStep
<1> QED
  BY <1>1, Invariance, PTL DEF Spec, VerdictsStand

\* An accept is a commitment: whatever a player answered to an accept check, or
\* that he was not on it, stays so: no later answer, join, leave or expiry
\* rewrites it.
THEOREM AcceptsStandHolds == Spec => AcceptsStand
<1> DEFINE Stands(c, u) == (c <= made /\ Accept(c) /\ answer[c][u] # "pending")
                              => answer'[c][u] = answer[c][u]
<1>1. IInv /\ [Next]_vars => [\A c \in Ids, u \in Users : Stands(c, u)]_vars
  <2> SUFFICES ASSUME IInv, [Next]_vars, NEW c \in Ids, NEW u \in Users, c <= made,
                      Accept(c), answer[c][u] # "pending"
               PROVE  answer'[c][u] = answer[c][u]
    OBVIOUS
  <2>1. CheckStep(c) /\ TypeOK
    BY StepOutcome DEF Outcome, IInv
  <2>2. answer[c] \in [Users -> States]
    BY <2>1 DEF TypeOK
  <2>3. CASE Answered(c)
    <3>1. PICK v \in On(c), yes \in BOOLEAN :
            /\ Revocable(c, v)
            /\ answer'[c] = [answer[c] EXCEPT ![v] = IF yes THEN "ready" ELSE "declined"]
      BY <2>3 DEF Answered
    <3>2. v # u
      BY <3>1 DEF Revocable
    <3> QED
      BY <2>2, <3>1, <3>2
  <2>4. ~Born(c)
    BY <2>1 DEF Born, TypeOK, Ids
  <2>5. CASE RanOut(c)
    BY <2>5 DEF RanOut
  <2>6. CASE Same(c) \/ Buried(c) \/ Withdrawn(c)
    BY <2>6 DEF Same, Buried, Withdrawn
  <2>7. ~Dropped(c) /\ ~Seated(c)
    BY DEF Dropped, Seated
  <2> QED
    BY <2>1, <2>3, <2>4, <2>5, <2>6, <2>7 DEF CheckStep
<1> QED
  BY <1>1, Invariance, PTL DEF Spec, AcceptsStand

\* A board never waits for someone who left, unless a process died after it gave the
\* seat up: a removal is on its way, whichever joins, opens and kicks race with it.
THEOREM GhostsLeaveHolds == Spec => []GhostsLeave
<1>1. Init => GhostsLeave
  BY DEF Init, GhostsLeave, Ghost, Pending
<1>2. SInv /\ GhostsLeave /\ [Next]_vars => GhostsLeave'
  <2> SUFFICES ASSUME SInv, GhostsLeave, [Next]_vars, Mortal \cap {"left", "drop"} = {},
                      NEW c \in Ids, NEW u \in Users, Ghost(c, u)'
               PROVE  Leaving(c, u)'
    BY DEF GhostsLeave
  <2>1. CASE Next
    <3>1. Ghost(c, u) => Leaving(c, u)
      BY DEF GhostsLeave
    <3> QED BY <2>1, <3>1, GhostBefore, LeavingStays
  <2>2. CASE UNCHANGED vars
    <3>1. Ghost(c, u)
      BY <2>2 DEF vars, Ghost, Pending, On
    <3>2. Leaving(c, u)
      BY <3>1 DEF GhostsLeave
    <3> QED BY <2>2, <3>2 DEF vars, Leaving, Removal
  <2> QED BY <2>1, <2>2
<1> QED BY <1>1, <1>2, InvarianceS, PTL DEF Spec

\* Nobody slips in unasked: a board is opened over every member there is, and who takes
\* a seat is put on the pending board in the same transaction.
THEOREM NobodyUnaskedHolds == Spec => NobodyUnasked
<1> DEFINE Asked == \A c \in Ids : (status'[c] = "pending" /\ room'[c] \in Rooms) =>
                      \A u \in members'[room'[c]] :
                        answer'[c][u] = "none" =>
                          /\ Pending(c)
                          /\ \/ u \in On(c)
                             \/ u \in members[room[c]]
<1>1. SInv /\ [Next]_vars => [Asked]_vars
  <2> SUFFICES ASSUME SInv, Next, NEW c \in Ids, status'[c] = "pending", room'[c] \in Rooms,
                      NEW u \in members'[room'[c]], answer'[c][u] = "none"
               PROVE  Pending(c) /\ (u \in On(c) \/ u \in members[room[c]])
    OBVIOUS
  <2>1. TypeOK /\ IInv /\ Pending(c)' /\ u \in Users
    BY StepOutcome DEF SInv, IInv, Pending, Outcome, SeatsTyped
  <2>2. ASSUME NEW t \in tasks, Opens(c, t) PROVE FALSE
    <3>1. t.roster = members[t.open.room]
      BY <2>2 DEF Opens, SInv, RostersRead
    <3> QED BY <2>1, <2>2, <3>1 DEF Opens
  <2>3. Pending(c) /\ room'[c] = room[c] /\ c <= made
    BY <2>1, <2>2, PendingBefore
  <2> SUFFICES ASSUME u \notin members[room[c]] PROVE u \in On(c)
    BY <2>3
  <2>4. Seats(room[c])
    BY <2>1, <2>3, SeatCases
  <2>5. PICK v \in Users : Join(v, room[c])
    BY <2>3, <2>4 DEF Seats
  <2>6. v = u
    BY <2>1, <2>3, <2>5 DEF Join, TypeOK
  <2>7. c \in PendingFor(room[c])
    BY <2>3, NoRoomAssumption DEF PendingFor
  <2>8. CASE u \notin On(c)
    <3>1. answer'[c] = [answer[c] EXCEPT ![u] = "pending"]
      BY <2>5, <2>6, <2>7, <2>8 DEF Join, AddMember
    <3>2. answer'[c][u] = "pending"
      BY <2>1, <3>1 DEF TypeOK
    <3> QED BY <3>2
  <2> QED BY <2>8
<1> QED BY <1>1, InvarianceS, PTL DEF Spec, NobodyUnasked
=============================================================================
