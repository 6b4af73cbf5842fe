------------------------------- MODULE Quests -------------------------------
(***************************************************************************)
(* Gamend.Quests over Gamend.Ledger: one player's row of one quest, and    *)
(* what it pays.                                                           *)
(*                                                                         *)
(* Events, an administrator, claims, and the healing of what a dead claim  *)
(* left, each a process, meet on the row.  No lock holds them apart: an    *)
(* update names the version it read, a claim the run it read, and a grant  *)
(* has an idempotency key made of the row, the run and the reward.  A step *)
(* is one statement of the database, or one transaction of a single one.   *)
(***************************************************************************)
EXTENDS Integers, FiniteSets

CONSTANTS
  Procs,
  Target,       \* of the quest's one objective
  Rewards,      \* how many rewards a run pays
  Prompt,       \* whether a live claim pays within the grace of a recovery
  MaxEvents,    \* bound: events and completions by an administrator
  MaxResets,    \* bound: resets by an administrator
  MaxMishaps    \* bound: deaths of processes and grants that fail

ASSUME TargetAssumption  == Target \in Nat \ {0}
ASSUME RewardsAssumption == Rewards \in Nat \ {0}
ASSUME PromptAssumption  == Prompt \in BOOLEAN
ASSUME BoundsAssumption  == MaxEvents \in Nat /\ MaxResets \in Nat /\ MaxMishaps \in Nat

VARIABLES
  quest,        \* whether it repeats, and whether it claims by itself
  row,          \* the player's progress
  wallet,       \* the balance of each reward's currency
  ledger,       \* the keys of the entries written
  job,          \* what each process is doing
  \* history
  events,
  landed,       \* the progress that was answered as made, by row
  claimed,      \* the runs that were claimed
  wiped,        \* those of them whose row was reset
  resets, mishaps

vars == <<quest, row, wallet, ledger, job, events, landed, claimed, wiped, resets, mishaps>>
history == <<events, landed, claimed, wiped, resets, mishaps>>

Ids == 1..(MaxResets + 1)
Runs == Ids \X Nat                      \* a row, and how often it was claimed before
Prizes == 1..Rewards

Row == [id : 0..(MaxResets + 1), status : {"none", "active", "completed", "claimed"}, count : Nat,
        paid : BOOLEAN, claims : Nat, version : Nat]
NoRow == [id |-> 0, status |-> "none", count |-> 0, paid |-> FALSE, claims |-> 0, version |-> 0]
Granting == {"check", "credit", "record"}
Idle == [pc |-> "idle", op |-> "event", seen |-> NoRow, run |-> <<1, 0>>, next |-> 1,
         failed |-> FALSE]
Job == [pc : {"idle", "merge", "target", "take", "mark", "rearm", "spend"} \cup Granting,
        op : {"event", "admin", "claim", "heal", "retention"},
        seen : Row, run : Runs, next : 1..(Rewards + 1), failed : BOOLEAN]

TypeOK ==
  /\ quest \in [repeat : BOOLEAN, auto : BOOLEAN]
  /\ row \in Row
  /\ wallet \in [Prizes -> Nat]
  /\ ledger \subseteq Runs \X Prizes
  /\ job \in [Procs -> Job]
  /\ landed \in [Ids -> Nat]
  /\ claimed \subseteq Runs /\ wiped \subseteq Runs
  /\ {events, resets, mishaps} \subseteq Nat

Init ==
  /\ quest \in [repeat : BOOLEAN, auto : BOOLEAN]
  /\ row = NoRow
  /\ wallet = [i \in Prizes |-> 0] /\ ledger = {}
  /\ job = [p \in Procs |-> Idle]
  /\ landed = [id \in Ids |-> 0]
  /\ claimed = {} /\ wiped = {}
  /\ events = 0 /\ resets = 0 /\ mishaps = 0

-----------------------------------------------------------------------------
Exists(r) == r.status # "none"
Finished(r) == r.status \in {"completed", "claimed"}
RunOf(r) == <<r.id, r.claims>>
\* The row is still the one that was read.
AnyVersion(seen) == row.id = seen.id                    \* a mutant
Unmoved(seen) == row.id = seen.id /\ row.version = seen.version

Done(p) == job' = [job EXCEPT ![p] = Idle]
Goto(p, pc) == job' = [job EXCEPT ![p].pc = pc]
\* A version race was lost: read again, or give up when the attempts are used.
Again(p, pc) == Done(p) \/ job' = [job EXCEPT ![p].pc = pc, ![p].seen = row]

-----------------------------------------------------------------------------
\* Progress.

Report(p, op) ==
  /\ job[p].pc = "idle" /\ events < MaxEvents /\ op \in {"event", "admin"}
  /\ events' = events + 1
  /\ job' = [job EXCEPT ![p] = [Idle EXCEPT !.pc = "merge", !.op = op, !.seen = row]]
  /\ UNCHANGED <<quest, row, wallet, ledger, landed, claimed, wiped, resets, mishaps>>

\* A repeat run waiting for its claim, or mid-claim, keeps counting.
Counted(seen, op) == IF op = "admin" THEN Target ELSE seen.count + 1
MergedStatus(seen, count) ==
  IF seen.status = "claimed" THEN "claimed" ELSE IF count >= Target THEN "completed" ELSE "active"
Merged(seen, op) ==
  [seen EXCEPT !.count = Counted(seen, op), !.version = @ + 1,
               !.status = MergedStatus(seen, Counted(seen, op))]
NothingToMerge(seen, op) == Finished(seen) /\ (op = "admin" \/ ~quest.repeat)
NewRun(before, after) == after.count \div Target > before.count \div Target

\* do_advance/7 and do_admin_complete/6 write, on_completed/3 may claim.
Merge(p) ==
  LET seen == job[p].seen
      new == [Merged(seen, job[p].op) EXCEPT !.id = IF Exists(seen) THEN @ ELSE resets + 1]
  IN  /\ job[p].pc = "merge"
      /\ \/ NothingToMerge(seen, job[p].op) /\ Done(p) /\ UNCHANGED <<row, landed>>
         \/ /\ ~NothingToMerge(seen, job[p].op) /\ ~Unmoved(seen)
            /\ Again(p, "merge") /\ UNCHANGED <<row, landed>>
         \/ /\ ~NothingToMerge(seen, job[p].op) /\ Unmoved(seen)
            /\ row' = new
            /\ landed' = [landed EXCEPT ![new.id] = @ + new.count - seen.count]
            /\ IF quest.auto /\ NewRun(seen, new) /\ new.status = "completed"
               THEN job' = [job EXCEPT ![p] = [Idle EXCEPT !.pc = "target", !.op = "claim"]]
               ELSE Done(p)
      /\ UNCHANGED <<quest, wallet, ledger, events, claimed, wiped, resets, mishaps>>

\* admin_reset/2: the row goes, whatever is under way on it.
Reset ==
  /\ Exists(row) /\ resets < MaxResets /\ resets' = resets + 1
  /\ row' = NoRow
  /\ wiped' = IF row.status = "claimed" THEN wiped \cup {RunOf(row)} ELSE wiped
  /\ UNCHANGED <<quest, wallet, ledger, job, events, landed, claimed, mishaps>>

-----------------------------------------------------------------------------
\* Claims.

\* claim/3 reads the row it is to pay; what is not completed is refused.
ClaimTarget(p) ==
  IF row.status = "completed"
  THEN job' = [job EXCEPT ![p] = [Idle EXCEPT !.pc = "take", !.op = "claim", !.run = RunOf(row)]]
  ELSE Done(p)
Claim(p) ==
  /\ job[p].pc = "idle" /\ row.status = "completed"
  /\ ClaimTarget(p)
  /\ UNCHANGED <<quest, row, wallet, ledger, history>>
AutoClaim(p) ==
  /\ job[p].pc = "target" /\ ClaimTarget(p)
  /\ UNCHANGED <<quest, row, wallet, ledger, history>>

\* transition_to_claimed/2: the run that was read, and no other.
WhicheverRun(run) == row.status = "completed" /\ row.id = run[1]  \* a mutant
StillOwed(run) == row.status = "completed" /\ RunOf(row) = run
Take(p) ==
  /\ job[p].pc = "take"
  /\ IF StillOwed(job[p].run)
     THEN /\ row' = [row EXCEPT !.status = "claimed", !.version = @ + 1]
          /\ claimed' = claimed \cup {RunOf(row)}
          /\ Goto(p, "check")
     ELSE Done(p) /\ UNCHANGED <<row, claimed>>
  /\ UNCHANGED <<quest, wallet, ledger, events, landed, wiped, resets, mishaps>>

\* grant_rewards/3, reward by reward.
WithoutRun(p) == <<<<job[p].run[1], 0>>, job[p].next>>   \* a mutant
Key(p) == <<job[p].run, job[p].next>>
Afterwards == IF quest.repeat THEN "rearm" ELSE "idle"
Granted(p, failed) ==
  job' = [job EXCEPT ![p].next = @ + 1, ![p].failed = failed,
                     ![p].pc = IF job[p].next < Rewards THEN "check"
                               ELSE IF ~failed THEN "mark"
                               ELSE IF job[p].op = "retention" THEN "idle" ELSE Afterwards]

\* idem_applied?/1
Check(p) ==
  /\ job[p].pc = "check"
  /\ IF Key(p) \in ledger THEN Granted(p, job[p].failed) ELSE Goto(p, "credit")
  /\ UNCHANGED <<quest, row, wallet, ledger, history>>

\* Ledger.change/3: the wallet's row is written and held, then the ledger's; a key
\* that is there already takes the credit back.
Credit(p) ==
  /\ job[p].pc = "credit"
  /\ \A q \in Procs \ {p} : job[q].pc = "record" => job[q].next # job[p].next
  /\ Goto(p, "record")
  /\ UNCHANGED <<quest, row, wallet, ledger, history>>
KeptCredit(p) == TRUE                                   \* a mutant
Applied(p) == Key(p) \notin ledger
Record(p) ==
  /\ job[p].pc = "record"
  /\ wallet' = IF Applied(p) THEN [wallet EXCEPT ![job[p].next] = @ + 1] ELSE wallet
  /\ ledger' = ledger \cup {Key(p)}
  /\ Granted(p, job[p].failed)
  /\ UNCHANGED <<quest, row, history>>

Fail(p) ==
  /\ job[p].pc = "check" /\ mishaps < MaxMishaps /\ mishaps' = mishaps + 1
  /\ Granted(p, TRUE)
  /\ UNCHANGED <<quest, row, wallet, ledger, events, landed, claimed, wiped, resets>>

\* The row is marked by its id, whatever it holds by now.
Mark(p) ==
  /\ job[p].pc = "mark"
  /\ row' = IF row.id = job[p].run[1] THEN [row EXCEPT !.paid = TRUE, !.version = @ + 1] ELSE row
  /\ IF job[p].op = "retention" THEN Done(p) ELSE Goto(p, Afterwards)
  /\ UNCHANGED <<quest, wallet, ledger, history>>

-----------------------------------------------------------------------------
\* rearm/4: a repeat quest is available again once its run is paid.

Rearm(p) ==
  /\ job[p].pc = "rearm"
  /\ IF row.status = "claimed" /\ row.paid /\ row.id = job[p].run[1]
     THEN job' = [job EXCEPT ![p].pc = "spend", ![p].seen = row]
     ELSE Done(p)
  /\ UNCHANGED <<quest, row, wallet, ledger, history>>

WipedOut(seen) == 0                                     \* a mutant
Left(seen) == IF seen.count > Target THEN seen.count - Target ELSE 0
Spend(p) ==
  LET seen == job[p].seen
      banked == Left(seen) >= Target
  IN  /\ job[p].pc = "spend"
      /\ \/ /\ Unmoved(seen)
            /\ row' = [row EXCEPT !.status = IF banked THEN "completed" ELSE "active",
                                  !.count = Left(seen), !.paid = FALSE,
                                  !.claims = @ + 1, !.version = @ + 1]
            /\ IF quest.auto /\ banked /\ job[p].op = "claim" THEN Goto(p, "target") ELSE Done(p)
         \/ /\ ~Unmoved(seen) /\ UNCHANGED row
            /\ Done(p) \/ Goto(p, "rearm")
      /\ UNCHANGED <<quest, wallet, ledger, history>>

-----------------------------------------------------------------------------
\* recover_pending_rewards/1 and rearm_repeat_quests/1, when the player lists the
\* quests; the first alone in the nightly retention.

Claiming(run) == \E q \in Procs : job[q].op = "claim" /\ job[q].run = run
                                  /\ job[q].pc \in Granting \cup {"mark"}
Overdue == row.status = "claimed" /\ ~row.paid /\ (Prompt => ~Claiming(RunOf(row)))
Heal(p, op) ==
  /\ job[p].pc = "idle" /\ op \in {"heal", "retention"}
  /\ \/ /\ Overdue
        /\ job' = [job EXCEPT ![p] = [Idle EXCEPT !.pc = "check", !.op = op, !.run = RunOf(row)]]
     \/ /\ row.status = "claimed" /\ row.paid /\ quest.repeat /\ op = "heal"
        /\ job' = [job EXCEPT ![p] = [Idle EXCEPT !.pc = "rearm", !.op = op, !.run = RunOf(row)]]
  /\ UNCHANGED <<quest, row, wallet, ledger, history>>

Crash(p) ==
  /\ job[p].pc # "idle" /\ mishaps < MaxMishaps /\ mishaps' = mishaps + 1
  /\ Done(p)
  /\ UNCHANGED <<quest, row, wallet, ledger, events, landed, claimed, wiped, resets>>

-----------------------------------------------------------------------------
Step(p) == \/ Merge(p) \/ AutoClaim(p) \/ Take(p) \/ Check(p) \/ Credit(p) \/ Record(p)
           \/ Mark(p) \/ Rearm(p) \/ Spend(p)

Next ==
  \/ \E p \in Procs : \/ \E op \in {"event", "admin"} : Report(p, op)
                      \/ \E op \in {"heal", "retention"} : Heal(p, op)
                      \/ Claim(p) \/ Step(p) \/ Fail(p) \/ Crash(p)
  \/ Reset

Spec == Init /\ [][Next]_vars

-----------------------------------------------------------------------------
\* Properties.

\* No increment is lost or counted twice, whichever events, claims and re-armings
\* race: what was answered as made is on the row, or was spent on a run
\* (quests.ex:509-524, 988-998).
ProgressKept ==
  Exists(row) => row.count + Target * row.claims = landed[row.id]

\* A run pays each reward once, and no run pays that was not earned: balances are
\* the sums of their entries, replays by claims and recoveries included, and a row
\* never pays for more runs than its progress holds (ledger.ex:9-21, quests.ex:1199-1206).
EntriesOf(id, i) == {k \in ledger : k[1][1] = id /\ k[2] = i}
PaidAsEarned ==
  /\ \A i \in Prizes : wallet[i] = Cardinality({k \in ledger : k[2] = i})
  /\ \A i \in Prizes, id \in Ids : Cardinality(EntriesOf(id, i)) * Target <= landed[id]

\* A claimed run is never forgotten: it is paid, or someone is paying it, or its row
\* still says that it is not, so that a recovery finds it (quests.ex:1262-1265).  After a
\* second mishap this is not so: a late recovery marks whatever run its row holds.
Paid(run) == \A i \in Prizes : <<run, i>> \in ledger
Paying(run) == \E p \in Procs : job[p].pc \in Granting /\ job[p].run = run
Recoverable(run) == row.status = "claimed" /\ RunOf(row) = run /\ ~row.paid
RunsRemembered ==
  mishaps <= 1 => \A run \in claimed \ wiped : Paid(run) \/ Paying(run) \/ Recoverable(run)

=============================================================================
