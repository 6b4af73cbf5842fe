# Verification of gamend's core

gamend is a game backend in Elixir: users, lobbies, parties, matchmaking, tournaments, quests,
economies and more, on SQLite (one node, one writer) or Postgres (several nodes, a pool of
connections on each), with a JavaScript client.  A request is a BEAM process that calls into the
contexts of `src/apps/gamend_core/lib/gamend`; nothing else orders two requests than the database,
the locks of `lock.ex`, and what a context reads again under them.  In the client nothing orders two
calls but what each reads again after an `await`.  This directory holds TLA+ models of the parts
where that order decides whether the system is right, TLC configurations that check them on small
instances, and proofs for every instance.

Paths below are relative to `src/apps/gamend_core/lib/gamend`, those of the client to `src/clients`.

## Inventory

| component | state | operations | talks to | what is hard |
|---|---|---|---|---|
| Keyed locks: `lock/local.ex`, `lock/queue.ex` | one holder and one line per key, a monitor per caller, the keys in each caller's process dictionary | `trans/2`, `trans_on_node/2`, `in_turn/2`; `acquire`, `release`, `:DOWN` | messages between callers and a GenServer per partition | a release names a process and not a hold; holders and waiters die; sections nest |
| Locks and transactions: `lock.ex`, `after_commit.ex`, `repo/advisory_lock.ex` | mutexes, advisory locks, transactions, pooled connections, deferred effects | `serialize/3`, `exclusive/3`, `transaction/2`, `transact/2`, `defer/1` | every context | lock order of mutex and transaction; nested calls; effects of what rolls back; an emptied pool |
| Ready checks: `ready_checks.ex` | checks with participants, a deadline and a verdict | open, respond, answer for a bot, add and remove members, cancel, expire, reset | lobbies and parties (membership under their lock), matchmaking (accepts), jobs (expiry) | answers race each other, the deadline and membership; a seat and its place on the board change in two transactions |
| Lobby membership: `lobbies.ex` | `users.lobby_id`, host, capacity, settings | create, join, leave, kick, delete, transfer of host | ready checks, matchmaking, cache | the same, and capacity under concurrent joins |
| Matchmaking: `matchmaking.ex`, `matchmaking/worker.ex`, `match.ex` | tickets (queued, matched with a mark, cancelled), match lobbies | join, cancel, sweep, claim, ask, settle, seat, announce, requeue, discard | ready checks, lobbies | overlapping sweeps, claims undone half way, deletions and departures meanwhile |
| Matcher: `matchmaking/matcher.ex` | none (pure) | `form_matches/2` | called by the sweep | greedy packing with parties, lobbies, blocks and waiting times |
| Cache: `cache.ex`, `cache/sync.ex`, `Accounts.cache_user/1` | an entry and a generation per key and node | `cached/3`, `fill/4`, `invalidate/1`, `cache_user/1`, the broadcast | every read of a user, a balance, a member list | a fill that overlaps a write, on this node or another; evictions before the commit |
| Tournaments: `tournaments.ex`, `tournaments/` | entries, the rows of a bracket, the lifecycle | register, withdraw, draw, report, forfeit, sweep deadlines, finish, cancel, reopen | locks, row locks, hooks, the ticker | two feeders of a match resolve at once, each seats its winner and looks for a bye; a forfeit, a deadline or a refused hook beside them |
| Quests: `quests.ex`, `quests/` | one progress row per player and quest, with a version and a count of claims | report an event, claim, re-arm, recover, admin completion and reset | ledger, hooks, cache | merges that lose a version race; a claim that dies half way; a recovery beside a live claim |
| Ledgered balances: `ledger.ex`, `economy.ex`, `inventory.ex` | wallets, stacks, ledger rows with idempotency keys | grant, spend, replay | cache, hooks, quests, payments | a replay that loses its race inside a caller's transaction |
| JavaScript client: `session.js`, `realtime.js` | the session and its generation, one refresh in flight, sockets | sign in, sign out, restore, call, refresh, open and close sockets | the server's tokens | what a call read before an `await` is another user's after it; one refresh shared by all; sockets that reconnect by themselves |
| Parties, groups, friends | memberships, invitations, requests | join, leave, kick, promote, block | locks, ready checks, chat | requests that cross; the last leader leaves |
| Payments: `payments.ex`, `payments/` | purchases, provider events | checkout, webhook, fulfilment, refund | ledger, providers | events repeated and out of order |
| Accounts, presence, bans, lockouts, tokens | users, tokens, online flags | sign in, revoke, merge, delete | cache, web | a merge of two accounts; a coalesced write |
| Leaderboards, key-value store, results | scores, entries with versions | submit, archive, compare-and-set | locks, cache | a submission beside the end of a season |
| Jobs, schedule, retention, hooks, chat, notifications, push, content, storage, settings, containers, signaling, analytics, reports | rows, ETS tables, external services | one write each | everything | little: single guards, bulk deletions, foreign code |
| Web, generated API classes, other SDKs, addons, load tests | sockets | translation | contexts | outside the core |

What makes each of the modelled ones right:

* locks: one process at a time inside a key, in the order they asked, none forgotten, no dead
  holder kept; no circle of waiters that the code itself could have avoided; effects only of what
  committed, none of those lost, and with the locks given back;
* ready checks: a verdict is earned by the answers it was given on, is given once, and nobody on
  the board is waited for without a seat;
* matchmaking: a claimed ticket is in one claim's hands until it is seated, requeued or
  cancelled, and a match is all of its players in one standing lobby;
* cache: no node keeps an entry that a committed write has made stale;
* tournaments: who wins a match sits in the next, a bye is handed out exactly where nobody can come
  any more, and the end is declared once an opening;
* quests: no increment is lost, no run is paid twice or unearned, and none is forgotten;
* client: nothing of an earlier session, an answer or a socket, reaches into the next.

## Modules

```
Mutex  <--implements--  LockQueue            LockQueueProofs
                            |  (its lines are the mutexes of)
                        Serialize            SerializeProofs
                            |  (one locked section is one step of)
     ReadyCheck        Matchmaking         Cache            Tournament     Quests
     ReadyCheckProofs  MatchmakingProofs   CacheProofs   TournamentProofs  QuestsProofs
                            |
                         Matcher                            Session        SessionProofs
                    (MatchmakingProofs)
```

The composition is by assume and guarantee.  LockQueue is shown to implement Mutex; Serialize takes
mutexes as Mutex has them and shows that a section of a key excludes every other; ReadyCheck,
Matchmaking and Cache therefore take what the code does under one lock or in one transaction as one
step, and everything the code reads before the lock or does after the commit as steps of their own.
Tournament and Quests do not: there the statements of transactions that hold different locks, or
none, interleave on the same rows.  Matchmaking takes an accept check for what ReadyCheck shows it
to be (one verdict, earned, and by its deadline at the latest), and lets a sweep propose any group
of whole parties; which groups the sweep forms is Matcher.  Session is the client alone, with the
server's tokens as it sees them.

* **Mutex** (abstract): a caller obtains a free key, waits for a taken one, gives it up or hands it
  to one of those waiting.
* **LockQueue**: one action per half of a message exchange.  `Ask`, `Enter`, `Reenter`, `Leave` are
  `Local.hold/3` before its call, after it, in the branch for a key already held, and its `after`;
  `HandleAcquire`, `HandleRelease`, `HandleDown` are the callbacks of the server, each with the
  `next/3` it calls; `Die` kills a process anywhere.  Messages of one process about one key stay in
  order, other messages do not.
* **Serialize**: a process is a stack of calls.  `Plan` is the order in which each kind of call
  takes a mutex, a connection, a session lock, a transaction and an advisory lock, in or outside a
  transaction and on either database; `Take` takes the next of them once `Blockers` is empty;
  `Return`, `Unlock`, `RunEffect` are the way out: commit or rollback, then the locks, then the
  deferred effects; `Abort` is an exception or a death.  `Blockers` and `InCycle` are the database:
  one writer or a pool, advisory locks, deadlock detection.
* **ReadyCheck**: seats (`members`) and checks.  A request that reads before its lock (`Respond`,
  `OpenRead`, `Cancel`, `Reset`, `Leave`) leaves a task behind, which the locked step takes up
  (`WriteAnswer`, `Insert`, `WriteCancel`, `QuietCancel`, `Unseat`, `RemoveMember`, `Drop`).
  `Join`, `Kick`, `Expire`, `DeleteRoom` and `AnswerFor` are one transaction each.  Hooks and
  broadcasts are left out, and an expiry job is the deadline itself.
* **Matchmaking**: two tables and the lobbies; a task per claim, whose steps are the statements of
  `Match.start/1`, `seat_players/2`, `announce_match/2`, `accept_resolved/1`, `requeue/2` and
  `discard/2`.  `mark` is `matched_at`, unique to a claim as its time is to a sweep under the lock.
  A null `match_id` is told apart as never named and as named and then nullified with its lobby
  (`Gone`), which the code tells apart by neither.  `cancel/1` is `Answer` with a no, then
  `CancelUnit`.  `NoneQueued` is the guard of a join, clause by clause: what it looks at is
  `Counts`, and `Minute` is time as it sees it, which makes the claims and the settlements there
  are too old to count.  `DropLobby` may leave the lobby standing, since a hook may refuse its
  deletion and `match.ex:236` does not look.  A requeue that breaks the unique index raises, and
  none of its tickets goes back.
* **Matcher**: the tickets of a bucket in the order of their age, each asking for numbers of its own;
  a step is one `find_match/3`.
* **Cache**: one row, an entry and a generation on each node.  A step is one call: `Fetch`,
  `ReadGeneration`, `Query`, `Put`, `Compare`, `Drop` are a miss through `cached/3` and `fill/4`;
  `Update` and `Begin` write the row outside and inside a transaction; `Bump`, `Delete`, `Publish`
  are `evict/1`, run again after `Commit`; `Store` is the put of `cache_user/1`; `Receive` and
  `EvictLocal` are `Cache.Sync` on the other nodes; `Expire` and `Forget` are the cache dropping an
  entry, and a generation no fill holds.
* **Tournament**: one bracket on Postgres, a step per statement.  `Report`, `Lock`, `Write`, `Seat`,
  `Bye` are `resolve_match/2` and `internal_resolve/4`: validated on a row read before, written under
  the advisory lock of the match, the winner seated by one conditional update of the next match, and
  a bye of that one resolved in the same transaction, with its lock.  `Seen` is what a transaction
  reads, `RowFree` and `LockFree` what it waits for, `Commit` its end.  `Forfeit`, `Unseat`, `Oust`
  are `forfeit_entry/2`; `Tick`, `Sweep`, `Clock` the deadlines; `Join`, `Leave`, `HookRefuses`,
  `Draw`, `Finish`, `Cancel`, `Reopen` the life of the tournament; `Crash` is a death anywhere.
  `entrants` is the registered entries in their order, and from the draw on those drawn: a lone one
  wins at once, is registered no longer, and stays beside the bracket of a later draw.  `told` counts
  how often the effects of the end ran, opening by opening.
* **Quests**: one row, what it pays and what was paid, a step per statement.  `Merge` is the
  versioned write of an event or of an administrator, `Take` the transition to claimed, `Check`,
  `Credit`, `Record` one reward through `Ledger.change/3` with its key, `Mark`, `Rearm`, `Spend` the
  end of a run, `Heal` the recoveries that start with a list of quests or in the night, `Reset` the
  administrator's.
* **Session**: an action runs from one `await` to the next.  `HandOver` is `_set` from outside;
  `Join`, `ServeRefresh`, `Settle` the shared refresh; `Begin`, `Send`, `Serve`, `Recover` a call
  with its one retry; `Login`, `Logout`, `Return` sign-ins and sign-outs; `Open`, `Ask`, `Connect`,
  `ConnectFails`, `Drop`, `Disconnect` a GameRealtime; `NearEnd` and `End` a token's time.

`MC*` modules name the small sets; `PROJECT.json` maps every definition to its lines.

## Runs

| run | instance | shows |
|---|---|---|
| LockQueue | 3 processes, 1 key, 2 calls each, nesting 2, deaths | TypeOK, HolderInside, FirstComeFirstServed, EveryCallerServed, and that it implements Mutex (ImplementsMutex) |
| SerializeSQLite | 2 processes, 2 keys, all calls nested 3 deep, exceptions | sections exclude each other (SerializedAlone), no circle of waiters (NoDeadlock), effects follow the outermost commit with the locks given back (EffectsFollowCommit), none is dropped (EffectsKept) |
| SerializePostgres | 2 processes on one node or on two, jobs and sections nested 2 deep, a pool of 2 | the advisory lock excludes across nodes (OneHolder); who waits for a key with a connection in hand never waits for another of its node that did (PoolSpared); every call gets in (CallsGetIn) |
| ReadyCheck | 2 users, a lobby and matchmaking, 1 check, 2 requests under way, deaths | verdicts are earned and stand (PassedUnanimously, VerdictsStand); accepts are kept (AcceptsStand); nobody slips in unasked or is waited for without a seat (NobodyUnasked, GhostsLeave); deadlines end checks (DeadlinesEnd) |
| Matchmaking | a solo player and a party of two, 3 tickets, 2 claims, 1 accept, 1 lobby, 2 tasks, a minute gone by once a claim was made or none, deaths | ClaimsAreHeld, MatchesWhole, NobodyLeftBehind, OneTicketEach, ClaimsEnd |
| Matcher | every bucket of up to 4 units of 7 kinds (players who ask for 2, for 2 to 3 or for 4, a party, a lobby alone, with company, and one larger than a match), mixed in any way, any number overdue, at most 1 blocked pair | a match may meet and finds its seats (MatchesSeat), has the players its anchor asked for, and nobody plays short before his time or out of turn (MatchesEarned), and the matcher stops only when nothing is left to match, but behind an older ticket that asks for more (NothingLeft) |
| Cache | 3 processes on 2 nodes, one write, in a transaction or not | StaleDoomed, StaleGoes |
| Tournament | up to 4 players, 2 processes of games and the ticker, one refusal, death or cancel | winners reach their seats (NobodyPassedOver) and byes their owners (ByesHandedOut), the last match makes the champion (ChampionCrowned), the end comes once an opening (FinishedOnce), a refused player leaves the bracket (RefusedLeave), and no transactions wait in a circle (NoCircle) |
| Quests | 2 processes, once or repeating, claimed by hand or by itself, 4 events, 2 rewards, 1 reset, 2 mishaps | ProgressKept, PaidAsEarned, RunsRemembered |
| Session | 2 users, 2 calls, 1 socket, 2 tokens, 2 changes of hands, 1 mishap | no socket of an earlier session (SocketsFollow), no answer to one (SessionIsLast), and an expired token costs a retry, not the call (RefusedOnlyWhenOver) |

and two runs that end in a counterexample, each a finding of `PROJECT.json`:

| run | the code does | a comment says |
|---|---|---|
| MatchmakingStranded | two joins of one player pass the guard; the requeue of the ticket claimed first breaks the unique index and raises, and its group stays claimed by nobody (NoneStranded, deaths left out) | "on failure they are requeued and retried on the next tick" (`matchmaking/match.ex:8-9`) |
| CacheStored | `cache_user/1` puts the row it wrote without looking at the generation: a write that evicts in between is hidden until the TTL | "warm and consistent instead of serving the pre-write struct" (`accounts.ex:626-627`) |

### Bounds

Two contending processes show a race, a third shows overtaking and handing on (LockQueue). Two keys
are what a circle needs, and three calls deep is the deepest nesting of the code: a tick, the draw in
it, the section in that. On Postgres a pool of two leaves both processes their own connection and so
shows what they wait for beside it; smaller pools empty, which is the hazard at `lock.ex:190`. A race
of ready checks is between two requests, or between one and the deadline; more users only lengthen
the roll, which the proofs take at any length. A second check would be the successor of a first: the
proofs take that in too, the run leaves it out for its size. Three tickets, one a party's, are two
claims that overlap; a third claim would meet tickets decided by the first two. Sweeps overlap with
different groups of these (`Callers` tells apart like requests, which the MatchmakingStranded run
needs two of and the other does without); one claim old enough to be forgotten (`MaxAged`) lets a
second join in beside it. Four units of mixed wishes are a match, an older ticket before it that
takes in everybody, and one left over. One write already meets fills before, during and after it on
its node and on another; overlapping writes are in the proof, whose inductive invariant was checked
with two writes as well. Four players make two feeders of one final, and with three or two of them
byes; two processes of games resolve both feeders while the ticker sweeps. Four events over a target
of two bank a second run, a reset makes a second row, two rewards let a grant stop between them. Two
changes of hands are a sign-out and the next sign-in, two tokens an old one and its successor.

Every bound is a constant: `MaxCalls`, `MaxDepth`, `MaxTx`, `MaxQueue`, `MaxChecks`, `MaxTasks`,
`MaxTickets`, `MaxClaims`, `MaxAged`, `MaxLobbies`, `MaxUnits`, `MaxBlocks`, `MaxWrites`, `Rounds`,
`MaxEvents`, `MaxResets`, `MaxMishaps`, `MaxTokens`, `MaxSpells`; the proofs hold for any value of
those of their modules. Symmetry is used where only safety is checked and the processes, workers,
users or calls are interchangeable. Deadlock is not checked in the runs: with the bounds used up, or
nothing asked for, these systems may stop; that nobody waits for ever is stated as liveness or as
NoDeadlock and NoCircle.

### Assumptions of the runs

Each names a case in which a property fails for a reason given here, and is a constant or a guard
of its module.

* `Mortal` (ReadyCheck): a process may die before any step but those that follow a seat given up.  A
  death there leaves a board waiting for who left, for which the code has no remedy but the deadline
  or a reset.  The proofs cover deaths everywhere.  GhostsLeave excepts a removal under way: one that
  runs after a rejoin drops the member who is back, which `ready_checks.ex:72` does not say.
* `OneJoin` (Matchmaking): a player's client waits for one join to end before the next.  Only
  OneTicketEach rests on it; without it, MatchmakingStranded.  Three histories name what the code
  gives up, and the properties except exactly that.  `lost`: the tickets whose process died while it
  held them, or whose requeue raised; nothing in the code takes them up.  `slipped`: those a join was
  let past because they had been claimed, or their accept settled, over a minute before, or because
  an old accept hides a new claim (`matchmaking.ex:190-214`); their player waits on two tickets then.
  `kept`: the lobbies of failed matches that a hook refused to delete, in which the players who got a
  seat stay, while their tickets go back in the queue.
* Nothing is assumed of the limits in a bucket (Matcher): `join/5` lets each ticket bring its own,
  and only the anchor's are looked at, so a match may have fewer or more players than another of its
  tickets asks for.  Nor can a later anchor never do better, as `matchmaking/matcher.ex:104-105`
  says: an old ticket that wants four players stops the matcher before two younger ones that want
  two.  NothingLeft excepts this case, and the run contains it.  How long a ticket waits is one
  number of the server's settings, so the overdue are the oldest.  A lobby of more than `max_players`
  is matched by nobody, and MatchesEarned says what it does all the same: once it has waited its
  time, its anchor packs those behind it into a match short of players
  (`matchmaking/matcher.ex:87-102`), whose own time has not come.
* `OneAtATime` (Cache): no write overlaps one that stores its row; without it, CacheStored.
* `EarlyVerdicts`, `Downtime`, `Ends` (Tournament): games report matches that have both players, a
  tick comes before the next round's deadline has passed, and `ends_at` does not cut the last round
  short.  Otherwise a verdict on a match with one seat, or a policy applied to a match whose feeder
  is open, takes two locks in the opposite order of a feeder's own verdict (NoCircle; the database
  then aborts one of the two) and passes over a winner still to come.  RefusedLeave does not speak of
  a player refused after an `ends_at` that came before the last match: only a running tournament is
  forfeited in (`tournaments.ex:358`), and his matches stay open with him in them.  It excepts a verdict
  validated before the refusal, which still makes the refused player win his match, against
  `tournaments.ex:308-311`, and what a cancel leaves.  Nor does it speak of one who is
  out already: a forfeit that read him alone frees his seat even when his opponent has come since
  and a report is validated for him (the update is conditional on his own side and an open match,
  `tournaments.ex:374-378`, though the comment at `tournaments.ex:387` counts on the opponent as
  well), and the verdict then seats him again.  Nothing is assumed of cancelling and reopening, so
  FinishedOnce says what is true of it: the effects of the end, prizes among them, run once an
  opening.  A tournament that finished, was cancelled and reopened runs them again when it finishes
  again (`tournaments.ex:97-106`, `1177-1187`), though `tournaments.ex:1168` says exactly once.  And
  if a lone player had won it, the next draw leaves him out as he is registered no longer
  (`tournaments.ex:721`): ChampionCrowned allows for this one second winner.
* `Prompt` (Quests): a live claim pays within the grace period after which a recovery takes it for
  dead.  RunsRemembered is stated up to one mishap: after a second, a late recovery marks the row as
  paid whatever run it holds by then, against `quests.ex:1317-1319`.
* `Quiet`, `OlderOut` (Session): JavaScript runs its queued continuations before the next event, and
  no call is out as long as a token lives.  Left open by the code and by the properties: a late
  logout drops the session of a sign-in that came after it (`session.js:251`), a retry goes out with
  the token of whoever is signed in by then (`session.js:178`), and a call that shares the refresh of
  an earlier session is refused with it (against `session.js:113-118`); RefusedOnlyWhenOver speaks of
  calls of the session that stands.

### Fairness

Weak fairness of the server and of `Enter` (LockQueue), of the tasks that hold tickets of a claim
(Matchmaking), of a fill, a write and `Cache.Sync` (Cache): a BEAM scheduler runs every runnable
process, and a mailbox is read. Weak fairness of `Expire`: the job queue retries, and a sweep expires
what it lost. Strong fairness where code in between may disable a step for a while: a section ends
however often it re-enters or calls in meanwhile (`Finish`, `Leave` at each depth), and a process
gets what it waits for if that is free again and again (`Take`: the mutex is a fair line by
LockQueue, SQLite's writer and the pool retry and queue). Nothing is assumed of users: joining,
answering, leaving and opening are never fair.

## Proofs

`LockQueueProofs` (any processes, keys, nesting and calls): TypeOK, MutualExclusion, MonitorsExact,
HolderInside, FirstComeFirstServed, and that LockQueue implements Mutex.  MutualExclusion is not
inductive: what makes it so is where each reference is.  The invariant `IInv` says that a process's
last acquire is in its mailbox, in line, the holder's, or answered, and in one of these only; that a
release still in a mailbox is the only thing behind which its process can be the holder without
being inside; and that what the server monitors is exactly its holder and its line.  `NestInv` adds
that the keys a process holds are those of the sections that took them.  From these, one inside a
section is the holder, and there is one holder.  The refinement maps the line to the set of those in
it: a message in flight is a stutter.

`SerializeProofs` (any processes, nodes, keys, places, pool and depth, both databases, exceptions
anywhere): TypeOK, SerializedAlone on SQLite, OneHolder on Postgres, PoolSpared,
EffectsFollowCommit, EffectsKept, and on SQLite NoDeadlock.  None is inductive.  `IInv` says how a
stack may look: one call of it is the scope, the outermost that opens a transaction; that one owns
the transaction while it runs, and before and after is the innermost (`Nested`, `Staged`, with what
is still to take); a connection or a transaction taken for a key was taken under the key's mutex
(`MutexFirst`); one process has a mutex of a node, the writer, an advisory lock (`MutexesHeld`,
`OneWriter`, `OneLocker`); what is deferred is of the process's own transaction until the scope has
closed it, and then of a committed one or of none (`Queued`, `DueCommitted`).  So a serialized
section on SQLite owns the one transaction there is, an effect runs outside of all of them, and two
that wait with a connection for one key would both have its mutex.  OneHolder rests on `LocksKept`,
that a section has its session's lock or its transaction's, which the code gives up in one place:
`NeverUnlocked`, the hypothesis of the theorem, says that the database refuses no advisory lock
(`maybe_advisory_lock/2` logs a refusal and goes on, a hazard of the list).  EffectsKept follows
what is owed through each step that changes a stack.  NoDeadlock assumes that callers nest keys in
an order: every set of keys has one that has no other of the set inside it (`Ordered`; `Outward`,
the run's nesting of its two keys, is such an order).  The code checks no order; its own callers
keep one (the lock of a tick outside that of a draw, a turn at metadata outside the section of its
user or lobby), and hooks, the game's code, have to.  With the two keys nested both ways TLC finds
the circle of two mutexes.  `CircleInv` adds to `IInv` that a stack climbs that order (`Climbs`) and
that inside a transaction nothing is left to take (`NothingInTx`, the reason `serialize/3` takes no
mutex there). So the writer waits for nobody; who waits for a mutex waits for one whose own key lies
further in; and the waiter for the innermost of them all waits for nobody who waits.

`ReadyCheckProofs` (any users, rooms, checks and requests under way, deaths anywhere): TypeOK,
PassedUnanimously, VerdictsFit, VerdictsStand, AcceptsStand, NobodyUnasked, and where nobody dies
after a seat is given up GhostsLeave.  Every action is first shown to do one
of eight things to each check (`CheckStep`: left alone, born, answered, joined, dropped from,
withdrawn, run out, gone with its room), and to write what it says (`Outcome`); the invariants are
then shown of these eight, not of the twenty-odd actions.  `IInv` adds to the types that ids are
given out in order (`Counted`), that requests name checks that were opened (`TasksSane`), and that
the answers of a check bear out its status (`VerdictsSound`).  The other two are about seats, which
change in three ways (`Seats`): one is taken, together with its place on the board; one is given up
and leaves a removal behind; or the room ends, and its checks with it.  The first two need the
room's lock, so what an open has read it opens over (`RostersRead`).

`MatchmakingProofs` (any finite set of users, parties, callers, flags and bounds, deaths anywhere):
TypeOK, ClaimsAreHeld, MatchesWhole, NobodyLeftBehind, and where a client waits for one join to end
OneTicketEach.  The invariant is about ownership.  A pending accept counts as the settlement it will
spawn, and these with the tasks are the holders: what a holder holds still carries the mark of its
claim and no match (`HoldTheirs`), no two hold the same (`HoldAlone`), and what no process died or
raised with is held by one (`AllHeld`).  So `held_by_claim/1`, which reads the tickets anew before
each write, finds all that its caller claimed (`StillHeld`), through cancellations, deletions and
deaths.  MatchesWhole needs that whoever may yet seat a claim holds every ticket of it (`Whole`), and
that a seating has seated whom it has no more to seat (`SeatOK`).  OneTicketEach needs that who said
no to a check is not held but by that check's settlement, or to be discarded (`HeldIn`), that no two
joins are of one player (`JoinsApart`), and that who is joining waits on nothing that had not slipped
by the guard (`JoinsClear`): what the guard lets by is undecided and either out of its accept, or too
old.  These last two, with OneTicketEach, are the part of the invariant that says something only
under OneJoin (`Alone`).

`CacheProofs` (any processes, nodes and writes): TypeOK, and StaleDoomed where no write overlaps one
that stores its row.  A stale entry is doomed because of what the fills under way may still put:
`FillsSound` says that what a fill is about to put is the row, or the generation it holds has moved,
or an eviction of its node is still to come; `Held`, that a generation only grows under who holds
it, so that an eviction is always seen; `StoresAlone`, that what `cache_user/1` is about to put is
the row.

`QuestsProofs` (any processes, target, rewards, events, resets and mishaps, prompt or not): TypeOK,
ProgressKept, PaidAsEarned, and where live claims are `Prompt` RunsRemembered.  The invariant ties a
row's count and claims to what was answered as made, and the ledger to the runs: an entry is of a run
that was claimed, a run is claimed once and only when its row held the target, and no two processes
are between the credit and the entry of one wallet.  A run's key is then written once, and each entry
of a row stands for a target of progress. RunsRemembered says something up to one mishap, and for a
reason on either side of it.  Before any (`Spotless`), a run is paid by who claimed it and by nobody
else, and its row shows it as unpaid until he is done.  The mishap may be of a claim, which leaves its
row for a recovery, or of a recovery, which may be late and mark a row that has another run by then;
but then nobody fails any more, and that run's own claim pays it (`Survived`).

The second part of `MatchmakingProofs` is about Matcher, for any kinds of units, any number of them,
any limits of each and any pairs blocked: PartiesWhole, MatchesSeat, MatchesEarned and NothingLeft.
`Pack` is a function that calls itself over the places of the queue. That it has the value its
equation says is `Recursion`: functions that solve it up to a place exist and agree (`Climb`, from
the least place where that would fail). What every packing satisfies is shown by the same climb,
through the set of places up to which it holds: those taken are whole groups, may meet and find seats
(`PackSits`), and each was taken because it fitted with those before it, or was left because it did
not (`TakenGrows`). Players are counted as pairs of a ticket and a number, so that disjoint groups
add up (`PlayersSum`). MatchesEarned takes the anchor of each match as its witness: it is in a group
that is left, and so in no match before. NothingLeft rests on `GivesUpForMost`: if an anchor takes in
everybody and is short, a later one packs a part of the same, which is enough only if it asks for
fewer. The order of MatchesEarned among groups of one size that ask for the same needs that a packing
of such groups is a multiple of that size and skips nobody while there is room (`AlikePack`), so that
each match is the oldest who are left (`AlikeOldest`).

`TournamentProofs` (any players, workers, rounds, policy and mishaps, deaths anywhere): TypeOK,
FinishedOnce, and that no step writes over a match that is decided (VerdictStands); and where games
report matches that are ready and the tick keeps up (`Punctual`): NobodyPassedOver, NoCircle,
ByesHandedOut, ChampionCrowned and RefusedLeave.  Without that hypothesis the first three are false,
as said under `EarlyVerdicts`.  There are five invariants, each on top of those before.  `IInv` adds
to the types that what a transaction has written was open and is open still for everyone else (`Tx`),
and that no two of them hold the same match (`Apart`): the condition of each update and the lock of
each match make one writer of a verdict.  `PInv` says that the bracket is in order (`InOrder`): nobody
sits, and nothing is decided, before the match below is; whoever won sits above, unless he was
refused; a bye leaves nobody behind.  It says so of the bracket as it is committed *and as each
transaction sees it*, with the one seat it is about to fill left out: READ COMMITTED lets every
statement see another bracket, and a commit lays one of them over the rest.  What a transaction has
written is a run of matches one above the other (`Chain`), and what it leaves alone is as committed
(`Untouched`), so two of them meet in one match only, from its two sides; that is why each step of one
keeps the view of the others in order (`Beside`).  `HInv` adds that a match which is owed a bye is in
somebody's hands (`LookedAfter`): of two feeders that resolve at once, the one that seats second waits
for the row and sees the first's verdict.  NoCircle goes down the steps of a transaction: one that
writes a verdict waits for nobody, one that locks the next match at most for its writer, one that
seats a winner for one of these, and who is outside of a transaction holds nothing.

The other two follow the players.  `CInv` says where every entrant is while nobody has died: in an
open match, out, being put out, or the winner, and then he has won the final (`Standing`).  A verdict
closes a match before it marks the loser and seats the winner, so `Handled` says of each transaction
that whoever sits in a match it has decided is marked, or about to be seated, or sits in the open
match it has written; and `Backed`, that a verdict is for one who sits there or has been refused
since, and that nobody takes a seat between the reading of a row and the writing of its verdict, whose
losers are those of the row as read.  That the draw gives every entrant an open match rests on the
seed order being onto (`SeedOnto`, by the climb over the rounds), and that a decided final leaves no
match open on the bracket being a tree (`Tree`, `FinalIsLast`).  Seats change in two ways (`SeatsMove`):
a winner comes from a match that was open, or a refused player loses his and is being put out.  `BInv`
is about the calls that forfeit: one that forfeits for a player has him out, or marked in its
transaction, or decides his match against him, or is still to look for it (`Forfeiting`), so it never
ends with him in play; and while the tournament runs, each refused entrant has such a call or is out
of play (`Called`).

`SessionProofs` (any users, calls, sockets, tokens and changes of hands): TypeOK, SocketsFollow,
SessionIsLast, RefusedOnlyWhenOver.  While the generation a refresh began with stands, the session
is the one it was asked for (`RefreshSound`), so its answer can only renew it; and a socket that is
not closed is of the session's user, since `_set` closes the others in the same turn.
RefusedOnlyWhenOver needs to know why the second try of a call is not refused as the first was.
`TInv` numbers the tokens: the answer of a refresh of this session is one nobody has used
(`RefreshNew`), and while a call is out the session's token is the one it sent or a later good one
(`CallsBegun`), since a token does not end while a call that sent an earlier one is still out
(`OlderOut`, an assumption above).  The second try therefore sends a good token, and a call that is
refused otherwise has its session over.

Only model-checked: liveness (EveryCallerServed, CallsGetIn, DeadlinesEnd, ClaimsEnd, StaleGoes), which
the prover does not reach, and the two runs that end in a counterexample.  Every invariant of the other
runs is a theorem.  Where a proof needs induction over numbers (the rounds of a bracket, the places of a
queue), it takes the least counterexample in a set, from the well-foundedness of `<` (`Least`, `Climb`),
since the induction theorems over a predicate are beyond the installed provers.

## Not modelled

`PROJECT.json` gives the reason for each part.  Hooks are the game's code; effects that only inform
(broadcasts, pushes, notifications) are left out everywhere, and when they run is Serialize.  Of
matchmaking: seating into the lobby a host queued from, parties that change while queued, and the
debounce of the worker.  Of the cache: the shared second level, whose stale fills `Cache.Sync` does
not reach (a hazard of the list), and the version counters of list caches.  Of the locks: the retry
of a refused session lock.  Of tournaments: several brackets of
one tournament, prizes, recurring editions, editing and deleting.  Of quests: several objectives and
periods, prerequisites and caps, the cached done marker, hooks; of the ledger: spending, item stacks,
a change inside a caller's transaction.  Of the client: channels, GameWebRTC (one peer
connection over the browser's own), the generated codec and API classes, polled provider sign-ins.

## Plan

Done, in this order: Mutex and LockQueue with proofs, Serialize, ReadyCheck with proofs, Matchmaking
and Matcher, Cache with proofs, Tournament, Quests over the ledger with proofs, Session with proofs,
the proofs of Serialize and of Matchmaking, those of Tournament, of the seats and the remembered
runs in ReadyCheck and Quests, of the refusals in Session and the circles of Serialize, of Matcher,
and of the champion and the refused in Tournament.  Next:

1. **Lobby**: capacity, host and spectators as a module, abstractly a set of at most so many seats
   with a host among them; shown to be what Matchmaking and ReadyCheck assume of a seat.
2. **Account** (abstract): balance and entries agree and a key is applied once; the grants of Quests
   shown to implement it, then spending and changes inside a transaction that rolls back.
3. **Party** and **Group** membership, **Friends** with requests that cross, **Payments** as the
   states of a purchase, **Leaderboard** seasons, **KV** compare-and-set.
4. Proofs of the new modules, their refinements first.
