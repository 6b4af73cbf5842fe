----------------------------- MODULE Tournament -----------------------------
(***************************************************************************)
(* Gamend.Tournaments on Postgres: one tournament of one bracket, from its *)
(* registration to its champion.                                           *)
(*                                                                         *)
(* A verdict is written in one transaction, under the advisory lock of its *)
(* match: the match, its entries, the winner's seat in the next round and, *)
(* when that makes a bye of the next match, that one's verdict too.  The   *)
(* transactions of several processes interleave statement by statement:    *)
(* each reads what is committed and what it wrote itself, waits for a row  *)
(* another has written, and holds rows and locks until it commits.         *)
(* A match is <<round, slot>>; side 0 of it is seat a, side 1 seat b.      *)
(***************************************************************************)
EXTENDS Integers, Sequences, SequencesExt, FiniteSets, TLC

CONSTANTS
  Arrivals,       \* the players, in the order they come to register
  NoOne,
  Workers,        \* processes of games and of registrations
  Ticker,         \* the process of the periodic tick
  Rounds,         \* bracket_size is Width[Rounds]
  Policy,         \* deadline_policy
  Ends,           \* how many rounds' deadlines are past at ends_at
  EarlyVerdicts,  \* whether games report matches that are not ready yet
  Downtime,       \* whether the tick may come a round's window late
  MaxMishaps      \* bound: refusals, crashes and cancels, between them

Players == Range(Arrivals)
\* 1 <<< k.
Width[k \in 0..Rounds] == IF k = 0 THEN 1 ELSE 2 * Width[k - 1]

ASSUME NoOneAssumption  == NoOne \notin Players
ASSUME TickerAssumption == Ticker \notin Workers
ASSUME ArrivalsAssumption == Arrivals \in Seq(Players) /\ IsInjective(Arrivals)
ASSUME RoundsAssumption == Rounds \in Nat \ {0} /\ Len(Arrivals) <= Width[Rounds]
ASSUME PolicyAssumption == Policy \in {"forfeit_both", "advance_first_slot", "random"}
ASSUME BoundsAssumption == {Ends, MaxMishaps} \subseteq Nat

VARIABLES
  \* the database
  tstate,         \* the tournament's state
  entrants,       \* the registered entries, in their order; once drawn, the drawn
  fate,           \* the state of each player's entry
  rows,           \* the committed matches of the bracket, none before the draw
  clock,          \* how many rounds' deadlines are past
  \* the processes
  hooked,         \* the players whose before_tournament_register is to refuse them
  job,            \* what each process is doing
  locks,          \* the advisory locks of its transaction
  dirty, marks,   \* the matches and the entries its transaction has written
  list,           \* the open matches past their deadline, as the tick read them
  \* history
  came,           \* how many players came
  refused,        \* whom before_tournament_register refused
  told,           \* how often the effects of the end ran, opening by opening
  crashes, cancels

vars == <<tstate, entrants, fate, rows, clock, hooked, job, locks, dirty, marks, list,
          came, refused, told, crashes, cancels>>
database == <<tstate, entrants, fate, rows>>
transaction == <<locks, dirty, marks>>
history == <<came, refused, told, crashes, cancels>>

Procs == Workers \cup {Ticker}
Sides == {0, 1}
Someone == Players \cup {NoOne}
Matches == UNION {{<<r, s>> : s \in 0..(Width[Rounds - r] - 1)} : r \in 1..Rounds}

Row == [seat : [Sides -> Someone], winner : Someone,
        resolved : BOOLEAN, bye : BOOLEAN, expired : BOOLEAN]
EmptyRow == [seat |-> [i \in Sides |-> NoOne], winner |-> NoOne,
             resolved |-> FALSE, bye |-> FALSE, expired |-> FALSE]
Idle == [pc |-> "idle", match |-> <<1, 0>>, verdict |-> NoOne, bye |-> FALSE,
         entry |-> NoOne, row |-> EmptyRow]

TypeOK ==
  /\ tstate \in {"registration", "running", "finished", "cancelled"}
  /\ Range(entrants) \subseteq Players
  /\ fate \in [Players -> {"none", "registered", "active", "eliminated", "winner"}]
  /\ DOMAIN rows \subseteq Matches /\ \A m \in DOMAIN rows : rows[m] \in Row
  /\ clock \in 0..Rounds
  /\ job \in [Procs -> [pc : {"idle", "lock", "write", "seat", "bye",
                              "finish", "forfeit", "unseat", "oust"},
                        match : Matches, verdict : Someone, bye : BOOLEAN,
                        entry : Someone, row : Row]]
  /\ \A p \in Procs : /\ DOMAIN dirty[p] \subseteq DOMAIN rows
                      /\ job[p].pc \in {"write", "seat"} => locks[p] # {}
                      /\ dirty[p] # <<>> => locks[p] # {}
  /\ \A x \in list : x.match \in DOMAIN rows /\ x.row \in Row

Init ==
  /\ tstate = "registration" /\ entrants = <<>>
  /\ fate = [e \in Players |-> "none"]
  /\ rows = <<>> /\ clock = 0 /\ hooked = {}
  /\ job = [p \in Procs |-> Idle]
  /\ locks = [p \in Procs |-> {}]
  /\ dirty = [p \in Procs |-> <<>>]
  /\ marks = [p \in Procs |-> <<>>]
  /\ list = {} /\ refused = {} /\ told = <<0>> /\ crashes = 0 /\ cancels = 0
  /\ came = 0

-----------------------------------------------------------------------------
\* The bracket.

Upper(m) == <<m[1] + 1, m[2] \div 2>>
AlwaysA(m) == 0                                         \* a mutant
Side(m) == m[2] % 2
Feeder(m, i) == <<m[1] - 1, 2 * m[2] + i>>
Final(m) == Upper(m) \notin DOMAIN rows
Present(row) == {row.seat[i] : i \in Sides} \ {NoOne}

\* The rank that starts in each slot: 1, 4, 2, 3.
SeedOrder[r \in 0..Rounds] ==
  IF r = 0 THEN [i \in {0} |-> 1]
  ELSE [i \in 0..(Width[r] - 1) |-> IF i % 2 = 0 THEN SeedOrder[r - 1][i \div 2]
                                   ELSE Width[r] + 1 - SeedOrder[r - 1][i \div 2]]
RoundsFor(n) == CHOOSE r \in 1..Rounds : n <= Width[r] /\ \A k \in 1..(r - 1) : n > Width[k]

Settles(row) == [row EXCEPT !.resolved = TRUE, !.bye = TRUE,
                            !.winner = IF row.seat[0] # NoOne THEN row.seat[0] ELSE row.seat[1]]
FirstRound(s) ==
  LET depth == RoundsFor(Len(entrants))
      occupant(i) == LET rank == SeedOrder[depth][2 * s + i]
                     IN  IF rank \in DOMAIN entrants THEN entrants[rank] ELSE NoOne
      row == [EmptyRow EXCEPT !.seat = [i \in Sides |-> occupant(i)]]
  IN  IF Cardinality(Present(row)) = 2 THEN row ELSE Settles(row)

\* The first round as the seeds have it, its byes settled, their winners seated.
Bracket ==
  LET depth == RoundsFor(Len(entrants))
      drawn == UNION {{<<r, s>> : s \in 0..(Width[depth - r] - 1)} : r \in 1..depth}
  IN  [m \in drawn |->
         CASE m[1] = 1 -> FirstRound(m[2])
           [] m[1] = 2 -> [EmptyRow EXCEPT !.seat = [i \in Sides |-> FirstRound(2 * m[2] + i).winner]]
           [] OTHER -> EmptyRow]

Mishaps == Cardinality(refused \cup hooked) + crashes + cancels

Decided == rows # <<>> /\ \A m \in DOMAIN rows : rows[m].resolved

-----------------------------------------------------------------------------
\* Registration and the draw.  Joins and withdrawals share the tournament's row
\* lock, the draw excludes them: each is one step.

\* A hook that accepts changes nothing: only those about to refuse are kept.
Join ==
  /\ tstate = "registration" /\ came < Len(Arrivals) /\ came' = came + 1
  /\ LET e == Arrivals[came'] IN
     /\ entrants' = Append(entrants, e)
     /\ fate' = [fate EXCEPT ![e] = "registered"]
     /\ \/ UNCHANGED hooked
        \/ Mishaps < MaxMishaps /\ hooked' = hooked \cup {e}
  /\ UNCHANGED <<tstate, rows, clock, job, transaction, list, refused, told, crashes, cancels>>

Withdrawn(e) ==
  /\ entrants' = IF e \notin Range(entrants) THEN entrants
                 ELSE RemoveAt(entrants, CHOOSE i \in DOMAIN entrants : entrants[i] = e)
  /\ fate' = [fate EXCEPT ![e] = "none"]

\* Any entry may be withdrawn, the winner's of an earlier opening too.
Leave(e) ==
  /\ tstate = "registration" /\ fate[e] # "none"
  /\ Withdrawn(e)
  /\ UNCHANGED <<tstate, rows, clock, hooked, job, transaction, list, history>>

\* release_entry_seat/2: before the draw the seat is given back, after it the
\* entry forfeits.
NeverForfeits == FALSE                                  \* a mutant
Forfeits == tstate = "running"
HookRefuses(p, e) ==
  /\ job[p].pc = "idle" /\ e \in hooked
  /\ hooked' = hooked \ {e} /\ refused' = refused \cup {e}
  /\ IF tstate = "registration" THEN Withdrawn(e) ELSE UNCHANGED <<entrants, fate>>
  /\ job' = IF Forfeits THEN [job EXCEPT ![p].pc = "forfeit", ![p].entry = e] ELSE job
  /\ UNCHANGED <<tstate, rows, clock, transaction, list, came, told, crashes, cancels>>

\* The effects of the end, of the opening the tournament is in.
Effects == told' = [told EXCEPT ![Len(told)] = @ + 1]

\* draw/2, with after_draw/2 in the same transaction: the registered are drawn.  A
\* lone one is the winner, and registered no longer: no later draw takes him.
Draw ==
  /\ tstate = "registration"
  /\ IF Len(entrants) < 2
     THEN /\ tstate' = "finished" /\ Effects
          /\ fate' = [e \in Players |-> IF e \in Range(entrants) THEN "winner" ELSE fate[e]]
          /\ entrants' = <<>>
          /\ UNCHANGED rows
     ELSE /\ tstate' = "running" /\ rows' = Bracket
          /\ fate' = [e \in Players |-> IF e \in Range(entrants) THEN "active" ELSE fate[e]]
          /\ UNCHANGED <<entrants, told>>
  /\ UNCHANGED <<clock, hooked, job, transaction, list, came, refused, crashes, cancels>>

\* A cancel moves from any state, and a reopened tournament may be drawn, or
\* finish, again.
Cancel ==
  /\ tstate # "cancelled" /\ Mishaps < MaxMishaps
  /\ tstate' = "cancelled" /\ cancels' = cancels + 1
  /\ UNCHANGED <<entrants, fate, rows, clock, hooked, job, transaction, list,
                 came, refused, told, crashes>>

Reopen ==
  /\ tstate = "cancelled"
  /\ tstate' = IF rows = <<>> THEN "registration" ELSE "running"
  /\ told' = Append(told, 0)
  /\ UNCHANGED <<entrants, fate, rows, clock, hooked, job, transaction, list,
                 came, refused, crashes, cancels>>

-----------------------------------------------------------------------------
\* What a transaction sees, and whom it waits for.

Over(f, g) == [x \in DOMAIN f \cup DOMAIN g |-> IF x \in DOMAIN f THEN f[x] ELSE g[x]]
Put(f, m, v) == [x \in DOMAIN f \cup {m} |-> IF x = m THEN v ELSE f[x]]
Others(p) == Procs \ {p}
Seen(p, m) == IF m \in DOMAIN dirty[p] THEN dirty[p][m] ELSE rows[m]
RowFree(p, m) == \A q \in Others(p) : m \notin DOMAIN dirty[q]
LockFree(p, m) == \A q \in Others(p) : m \notin locks[q]
InTransaction(p) == locks[p] # {}

WaitsFor(p) ==
  {q \in Others(p) : \/ job[p].pc = "lock" /\ job[p].match \in locks[q]
                     \/ job[p].pc = "write" /\ job[p].match \in DOMAIN dirty[q]
                     \/ job[p].pc = "seat" /\ Upper(job[p].match) \in DOMAIN dirty[q]}
InCycle(p) == \E S \in SUBSET Procs : p \in S /\ \A q \in S : WaitsFor(q) \cap S # {}

Goto(p, pc) == job' = [job EXCEPT ![p].pc = pc]
Done(p) == job' = [job EXCEPT ![p] = Idle]
Gone(p) ==
  /\ locks' = [locks EXCEPT ![p] = {}]
  /\ dirty' = [dirty EXCEPT ![p] = <<>>]
  /\ marks' = [marks EXCEPT ![p] = <<>>]

\* The commit, one step with the last statement, since nothing that one reads can
\* change while the rows are held: the locks go, and the deferred effect looks
\* whether that was the last match.
Commit(p, written, marked) ==
  /\ rows' = Over(written, rows) /\ fate' = Over(marked, fate)
  /\ job' = [job EXCEPT ![p] = [Idle EXCEPT !.pc = IF Decided' THEN "finish" ELSE "idle"]]
  /\ Gone(p)

\* A verdict is on its way to internal_resolve/4.
Resolve(p, m, verdict, bye, entry) ==
  job' = [job EXCEPT ![p] = [pc |-> "lock", match |-> m, verdict |-> verdict, bye |-> bye,
                             entry |-> entry, row |-> EmptyRow]]

-----------------------------------------------------------------------------
\* resolve_match/2: validated against the row read before the hook.

Report(p, m, verdict) ==
  /\ job[p].pc = "idle" /\ m \in DOMAIN rows /\ ~rows[m].resolved
  /\ verdict \in Present(rows[m]) \cup {NoOne}
  /\ EarlyVerdicts \/ Cardinality(Present(rows[m])) = 2
  /\ Resolve(p, m, verdict, FALSE, NoOne)
  /\ UNCHANGED <<database, clock, hooked, transaction, list, history>>

\* The match is read again under its lock.  One resolved meanwhile is left alone;
\* a forfeit looks for the entry's next match.
AsValidated(row) == TRUE                                \* a mutant
StillOpen(row) == ~row.resolved
Lock(p) ==
  LET m == job[p].match IN
  /\ job[p].pc = "lock" /\ LockFree(p, m)
  /\ CASE StillOpen(Seen(p, m)) ->
            /\ job' = [job EXCEPT ![p].pc = "write", ![p].row = Seen(p, m)]
            /\ locks' = [locks EXCEPT ![p] = @ \cup {m}]
            /\ UNCHANGED <<rows, fate, dirty, marks>>
       [] ~StillOpen(Seen(p, m)) /\ InTransaction(p) -> Commit(p, dirty[p], marks[p])
       [] OTHER ->
            /\ job' = [job EXCEPT ![p] = [Idle EXCEPT !.entry = job[p].entry,
                         !.pc = IF job[p].entry = NoOne THEN "idle" ELSE "forfeit"]]
            /\ UNCHANGED <<rows, fate, transaction>>
  /\ UNCHANGED <<tstate, entrants, clock, hooked, list, history>>

\* The verdict is written over the row as it is now; the entries are those of the
\* row as it was read.
LosersOnly(p) == [e \in Present(job[p].row) \ {job[p].verdict} |-> "eliminated"]  \* a mutant
EntriesOf(p) ==
  [e \in {x \in Present(job[p].row) : x # job[p].verdict \/ Final(job[p].match)} |->
     IF e = job[p].verdict THEN "winner" ELSE "eliminated"]
Write(p) ==
  LET m == job[p].match
      verdict == job[p].verdict
      written == Put(dirty[p], m,
                   [Seen(p, m) EXCEPT !.resolved = TRUE, !.bye = job[p].bye,
                      !.winner = IF verdict = NoOne THEN @ ELSE verdict])
      marked == Over(EntriesOf(p), marks[p])
  IN  /\ job[p].pc = "write" /\ RowFree(p, m)
      /\ IF Final(m) THEN Commit(p, written, marked)
         ELSE /\ dirty' = [dirty EXCEPT ![p] = written]
              /\ marks' = [marks EXCEPT ![p] = marked]
              /\ job' = [job EXCEPT ![p].pc = "seat", ![p].row = EmptyRow]
              /\ UNCHANGED <<rows, fate, locks>>
      /\ UNCHANGED <<tstate, entrants, clock, hooked, list, history>>

\* advance_winner/2: one conditional update, which answers the row it made.
AsFirstRead(p, m, row) ==                               \* a mutant
  [row EXCEPT !.seat = [EmptyRow.seat EXCEPT ![Side(m)] = job[p].verdict]]
Answered(p, m, row) == row
Seat(p) ==
  LET m == job[p].match
      next == Upper(m)
      row == [Seen(p, next) EXCEPT !.seat[Side(m)] = job[p].verdict]
  IN  /\ job[p].pc = "seat" /\ RowFree(p, next)
      /\ IF Seen(p, next).resolved THEN Commit(p, dirty[p], marks[p])
         ELSE /\ dirty' = [dirty EXCEPT ![p] = Put(@, next, row)]
              /\ job' = [job EXCEPT ![p].pc = "bye", ![p].match = next,
                                    ![p].row = Answered(p, m, row)]
              /\ UNCHANGED <<rows, fate, locks, marks>>
      /\ UNCHANGED <<tstate, entrants, clock, hooked, list, history>>

\* maybe_bye_resolve/2: inside the transaction of a verdict, or after an unseating.
Settled(p, m, row, i) ==
  row.seat[i] # NoOne \/ m[1] = 1 \/ Seen(p, Feeder(m, i)).resolved
EitherSettled(p, m, row) == \E i \in Sides : Settled(p, m, row, i)  \* a mutant
NeverSettled(p, m, row) == FALSE                        \* a mutant
BothSettled(p, m, row) == \A i \in Sides : Settled(p, m, row, i)
Bye(p) ==
  LET m == job[p].match
      row == job[p].row
      bye == BothSettled(p, m, row) /\ Cardinality(Present(row)) < 2
  IN  /\ job[p].pc = "bye"
      /\ IF ~bye /\ InTransaction(p) THEN Commit(p, dirty[p], marks[p])
         ELSE /\ IF bye THEN Resolve(p, m, Settles(row).winner, TRUE, job[p].entry) ELSE Done(p)
              /\ UNCHANGED <<rows, fate, transaction>>
      /\ UNCHANGED <<tstate, entrants, clock, hooked, list, history>>

-----------------------------------------------------------------------------
\* finish_tournament/1: a compare-and-set, then the effects.
Unconditional == TRUE                                   \* a mutant
StillRunning == tstate = "running"
Finish(p) ==
  /\ job[p].pc = "finish" /\ Done(p)
  /\ IF StillRunning THEN tstate' = "finished" /\ Effects ELSE UNCHANGED <<tstate, told>>
  /\ UNCHANGED <<entrants, fate, rows, clock, hooked, transaction, list,
                 came, refused, crashes, cancels>>

-----------------------------------------------------------------------------
\* forfeit_entry/2.

OpenFor(e) == {m \in DOMAIN rows : ~rows[m].resolved /\ e \in Present(rows[m])}
Forfeit(p) ==
  LET e == job[p].entry IN
  /\ job[p].pc = "forfeit"
  /\ IF OpenFor(e) = {} THEN Done(p)
     ELSE LET m == CHOOSE m \in OpenFor(e) : \A k \in OpenFor(e) : k[1] <= m[1]
              rivals == Present(rows[m]) \ {e}
          IN  IF rivals = {}
              THEN job' = [job EXCEPT ![p].pc = "unseat", ![p].match = m]
              ELSE Resolve(p, m, CHOOSE o \in rivals : TRUE, FALSE, e)
  /\ UNCHANGED <<database, clock, hooked, transaction, list, history>>

\* The side is emptied on condition that the entry still sits there, the entry is
\* out, and the bye is looked for: three statements, and no transaction.
Unseat(p) ==
  LET m == job[p].match
      e == job[p].entry
      side == CHOOSE i \in Sides : e = rows[m].seat[i]
      row == [rows[m] EXCEPT !.seat[side] = NoOne]
  IN  /\ job[p].pc = "unseat" /\ RowFree(p, m)
      /\ IF rows[m].resolved \/ e \notin Present(rows[m])
         THEN /\ job' = [job EXCEPT ![p] = [Idle EXCEPT !.pc = "forfeit", !.entry = e]]
              /\ UNCHANGED rows
         ELSE rows' = [rows EXCEPT ![m] = row] /\ job' = [job EXCEPT ![p].pc = "oust", ![p].row = row]
      /\ UNCHANGED <<tstate, entrants, fate, clock, hooked, transaction, list, history>>

Oust(p) ==
  /\ job[p].pc = "oust" /\ fate' = [fate EXCEPT ![job[p].entry] = "eliminated"]
  /\ job' = [job EXCEPT ![p].pc = "bye", ![p].entry = NoOne]
  /\ UNCHANGED <<tstate, entrants, rows, clock, hooked, transaction, list, history>>

-----------------------------------------------------------------------------
\* The tick.

Due(m) == m[1] <= clock
Tick ==
  /\ job[Ticker].pc = "idle" /\ list = {} /\ tstate = "running"
  /\ IF Decided \/ clock >= Ends THEN Goto(Ticker, "finish") /\ UNCHANGED list
     ELSE /\ list' = {[match |-> m, row |-> rows[m]] :
                        m \in {k \in DOMAIN rows : Due(k) /\ ~rows[k].resolved}}
          /\ list' # {} /\ UNCHANGED job
  /\ UNCHANGED <<database, clock, hooked, transaction, history>>

\* apply_deadline_policy/2, on the row the tick has read.
Verdicts(row) ==
  IF Present(row) = {} \/ Policy = "forfeit_both" THEN {NoOne}
  ELSE IF Policy = "random" THEN Present(row)
  ELSE {IF row.seat[0] # NoOne THEN row.seat[0] ELSE row.seat[1]}

Sweep(x) ==
  /\ job[Ticker].pc = "idle" /\ x \in list /\ list' = list \ {x}
  /\ IF x.row.expired
     THEN /\ \E w \in Verdicts(x.row) : Resolve(Ticker, x.match, w, FALSE, NoOne)
          /\ UNCHANGED rows
     ELSE /\ RowFree(Ticker, x.match)
          /\ rows' = [rows EXCEPT ![x.match].expired = TRUE] /\ UNCHANGED job
  /\ UNCHANGED <<tstate, entrants, fate, clock, hooked, transaction, history>>

\* A round's deadline passes.  A tick that keeps up has settled the rounds before.
Clock ==
  /\ tstate = "running" /\ clock < Rounds
  /\ Downtime \/ (list = {} /\ \A m \in DOMAIN rows : Due(m) => rows[m].resolved)
  /\ clock' = clock + 1
  /\ UNCHANGED <<database, hooked, job, transaction, list, history>>

\* A process dies; its transaction is rolled back.
Crash(p) ==
  /\ Mishaps < MaxMishaps /\ (job[p].pc # "idle" \/ (p = Ticker /\ list # {}))
  /\ crashes' = crashes + 1
  /\ Done(p) /\ Gone(p) /\ list' = IF p = Ticker THEN {} ELSE list
  /\ UNCHANGED <<database, clock, hooked, came, refused, told, cancels>>

-----------------------------------------------------------------------------
Step(p) == \/ Lock(p) \/ Write(p) \/ Seat(p) \/ Bye(p)
           \/ Finish(p) \/ Forfeit(p) \/ Unseat(p) \/ Oust(p)
Sweeping == \E x \in list : Sweep(x)

Next ==
  \/ Join \/ \E e \in Players : Leave(e)
  \/ \E p \in Workers : \/ \E e \in Players : HookRefuses(p, e)
                        \/ \E m \in DOMAIN rows, w \in Someone : Report(p, m, w)
  \/ Draw \/ Cancel \/ Reopen \/ Clock \/ Tick \/ Sweeping
  \/ \E p \in Procs : Step(p) \/ Crash(p)

Spec == Init /\ [][Next]_vars

-----------------------------------------------------------------------------
\* Properties.

\* Whoever won a match sits in the next one, unless his entry was taken back; and a
\* bye is handed out only over a side that nobody can reach any more.  No winner is
\* lost between two feeders that resolve at once, and none is passed over by a bye
\* (tournaments.ex:997-1003, 1026-1028).
Reachable(m, i) ==
  m[1] > 1 /\ LET f == rows[Feeder(m, i)]
              IN  ~f.resolved \/ (f.winner # NoOne /\ f.winner \notin refused)
NobodyPassedOver ==
  \A m \in DOMAIN rows :
    /\ (rows[m].resolved /\ ~Final(m) /\ rows[m].winner \notin refused) =>
         rows[Upper(m)].seat[Side(m)] = rows[m].winner
    /\ rows[m].bye => /\ rows[m].resolved /\ Present(rows[m]) \subseteq {rows[m].winner}
                      /\ \A i \in Sides : rows[m].seat[i] = NoOne => ~Reachable(m, i)

\* An open match with one empty side and nobody left to reach it is being settled
\* by someone, unless a process died in between: its two feeders never leave it to
\* each other (tournaments.ex:1026-1049).
Settling(p) == job[p].pc \in {"oust", "bye", "lock", "write", "seat"}
ByesHandedOut ==
  crashes = 0 => \A m \in DOMAIN rows :
    (~rows[m].resolved /\ Cardinality(Present(rows[m])) < 2) =>
      (\E i \in Sides : rows[m].seat[i] = NoOne /\ Reachable(m, i)) \/ \E p \in Procs : Settling(p)

\* When every match is decided nobody is left over: the final's winner is the
\* champion, and everyone else is out, or being put out by his refused call.  Of a
\* final that a refused player has won, by a verdict already on its way, it says
\* nothing.  There is a second winner only if a tournament that a lone player had
\* won was reopened: he keeps his place beside the bracket (tournaments.ex:720-729).
Champion(e) == \E m \in DOMAIN rows : Final(m) /\ rows[m].winner = e
ChampionCrowned ==
  (Decided /\ crashes = 0 /\ ~\E e \in refused : Champion(e)) =>
    \A e \in Players \ {job[p].entry : p \in Procs} :
      IF e \in Range(entrants) THEN fate[e] = IF Champion(e) THEN "winner" ELSE "eliminated"
      ELSE fate[e] = "none" \/ (fate[e] = "winner" /\ cancels > 0)

\* The effects of the end, prizes among them, run once an opening, and never for a
\* tournament with matches to play, unless ends_at is past.  One that finished, was
\* cancelled and reopened runs them a second time when it finishes again, which
\* "exactly once" does not say (tournaments.ex:97-106, 1168-1187).
FinishedOnce ==
  /\ \A n \in DOMAIN told : told[n] <= 1
  /\ (tstate = "finished" /\ rows # <<>> /\ clock < Ends) => Decided

\* Transactions never wait for one another in a circle of match locks and match rows,
\* which a bye in the next round takes in the other order, as long as verdicts are
\* for matches that are ready (tournaments.ex:921, 1033).
NoCircle == \A p \in Procs : ~InCycle(p)

\* A player the game refused leaves the bracket, whatever round he has reached by
\* then: while he waits in a match and is not out, the call that refused him is at
\* it (tournaments.ex:302-315).  Of one who is out, and whom a verdict on its way
\* seats again, it says nothing; nor of one refused after an ends_at that came
\* before the last match, who has nothing left to forfeit (tournaments.ex:358).
RefusedLeave ==
  (crashes = 0 /\ cancels = 0 /\ (tstate = "running" \/ clock < Ends)) =>
    \A e \in refused : (OpenFor(e) # {} /\ fate[e] # "eliminated") => \E p \in Procs : job[p].entry = e
=============================================================================
