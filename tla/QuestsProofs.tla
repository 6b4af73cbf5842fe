--------------------------- MODULE QuestsProofs ---------------------------
(***************************************************************************)
(* That no progress is lost and no run paid twice or unearned, for any     *)
(* number of processes, rewards and resets, whatever the target.  The      *)
(* argument: a snapshot whose version still stands is the row, so a write  *)
(* that names it adds to the counts it read; a claim names its run, whose  *)
(* worth is then in the progress that landed; and the ledger holds entries *)
(* of claimed runs alone, each once.  Last, that no claimed run is         *)
(* forgotten while live claims pay promptly and one mishap at most has     *)
(* happened: before it, the claim pays and nobody else marks the row;      *)
(* after it, nobody fails any more.                                        *)
(***************************************************************************)
EXTENDS Quests, FiniteSetTheorems, TLAPS

\* Who grants, or is about to, has a reward left to grant.
Begun == Granting \cup {"take"}
Ongoing == \A p \in Procs : job[p].pc \in Begun => job[p].next \in Prizes

\* One row at a time has the newest identity, and what its status says of its count.
RowSound ==
  /\ resets <= MaxResets
  /\ ~Exists(row) => row = NoRow /\ landed[resets + 1] = 0
  /\ Exists(row) => row.id = resets + 1
  /\ Finished(row) => row.count >= Target
  /\ row.status = "active" => row.count < Target
  /\ \A id \in Ids : id > resets + 1 => landed[id] = 0

\* A snapshot that is to be written over is the row, if the version still stands.
SnapshotsSound ==
  \A p \in Procs : job[p].pc \in {"merge", "spend"} =>
    /\ job[p].seen.id <= resets + 1
    /\ ~Exists(row) => job[p].seen.id # resets + 1
    /\ job[p].seen.id = 0 => job[p].seen = NoRow
    /\ job[p].seen.id = row.id => job[p].seen.version <= row.version
    /\ Unmoved(job[p].seen) => job[p].seen = row
    /\ job[p].pc = "spend" => job[p].seen.status = "claimed"

\* Entries and grants are of claimed runs, whose worth has landed.
ClaimsSound ==
  /\ row.status = "claimed" => RunOf(row) \in claimed
  /\ \A p \in Procs : job[p].pc \in Granting => job[p].run \in claimed
  /\ \A k \in ledger : k[1] \in claimed
  /\ \A run \in claimed : (run[2] + 1) * Target <= landed[run[1]]

\* A wallet is the sum of its entries.
Summed ==
  /\ IsFiniteSet(ledger)
  /\ \A i \in Prizes : wallet[i] = Cardinality({k \in ledger : k[2] = i})

IInv == TypeOK /\ Ongoing /\ RowSound /\ ProgressKept /\ SnapshotsSound /\ ClaimsSound /\ Summed

-----------------------------------------------------------------------------
\* The step of a process, or of an administrator, that Next takes.
LEMMA StepCases ==
  ASSUME Next
  PROVE  \/ \E p \in Procs, op \in {"event", "admin"} : Report(p, op)
         \/ \E p \in Procs, op \in {"heal", "retention"} : Heal(p, op)
         \/ \E p \in Procs : \/ Claim(p) \/ Merge(p) \/ AutoClaim(p) \/ Take(p) \/ Check(p)
                             \/ Credit(p) \/ Record(p) \/ Mark(p) \/ Rearm(p) \/ Spend(p)
                             \/ Fail(p) \/ Crash(p)
         \/ Reset
BY DEF Next, Step

\* The run of a row there is.
LEMMA RunTyped ==
  ASSUME TypeOK, RowSound, Exists(row)
  PROVE  RunOf(row) \in Runs
BY BoundsAssumption DEF TypeOK, Row, RowSound, RunOf, Runs, Ids

\* Nothing is a row, and a process at rest is one.
LEMMA IdleTyped == NoRow \in Row /\ Idle \in Job /\ Idle.next \in Prizes
<1>1. NoRow \in Row
  BY BoundsAssumption DEF NoRow, Row
<1>2. <<1, 0>> \in Runs /\ 1 \in 1..(Rewards + 1) /\ 1 \in Prizes
  BY BoundsAssumption, RewardsAssumption DEF Runs, Ids, Prizes
<1>3. Idle \in Job
  BY <1>1, <1>2 DEF Idle, Job
<1> QED BY <1>1, <1>2, <1>3 DEF Idle

\* A row that is written over stays one.
LEMMA RowWritten ==
  ASSUME NEW r \in Row, NEW status \in {"none", "active", "completed", "claimed"},
         NEW count \in Nat, NEW claims \in Nat, NEW version \in Nat
  PROVE  /\ [r EXCEPT !.status = status, !.version = version] \in Row
         /\ [r EXCEPT !.paid = TRUE, !.version = version] \in Row
         /\ [r EXCEPT !.count = count, !.version = version, !.status = status] \in Row
         /\ [r EXCEPT !.status = status, !.count = count, !.paid = FALSE,
                      !.claims = claims, !.version = version] \in Row
BY Zenon DEF Row

\* What a grant leaves its process to do.
LEMMA GrantedTyped ==
  ASSUME TypeOK, Ongoing, NEW p \in Procs, NEW failed \in BOOLEAN,
         job[p].pc \in Granting, Granted(p, failed)
  PROVE  job' \in [Procs -> Job] /\ Ongoing'
<1> USE RewardsAssumption
<1>1. job[p].next \in Prizes /\ job[p].next \in Nat /\ job[p] \in Job
  BY DEF Ongoing, Begun, TypeOK, Prizes
<1> DEFINE pc == IF job[p].next < Rewards THEN "check"
                 ELSE IF ~failed THEN "mark"
                 ELSE IF job[p].op = "retention" THEN "idle" ELSE Afterwards
           new == [job[p] EXCEPT !.next = @ + 1, !.failed = failed, !.pc = pc]
<1>2. pc \in {"idle", "check", "mark", "rearm"}
  BY DEF Afterwards
<1>3. pc \in Begun => job[p].next < Rewards
  BY DEF Afterwards, Granting, Begun
<1>4. job[p].next + 1 \in 1..(Rewards + 1)
  BY <1>1 DEF Prizes
<1> HIDE DEF pc
<1>5. new \in Job
  BY <1>1, <1>2, <1>4 DEF Job, Granting
<1>6. job' = [job EXCEPT ![p] = new]
  BY <1>1 DEF Granted, pc, TypeOK, Job
<1>7. new.pc = pc /\ new.next = job[p].next + 1
  BY <1>1 DEF Job
<1> HIDE DEF new
<1>8. job' \in [Procs -> Job]
  BY <1>5, <1>6 DEF TypeOK
<1>9. Ongoing'
  BY <1>1, <1>3, <1>4, <1>6, <1>7 DEF Ongoing, Prizes, TypeOK
<1> QED BY <1>8, <1>9

\* What any other step of a process leaves it at.
LEMMA MovedTyped ==
  ASSUME TypeOK, Ongoing, NEW p \in Procs,
         NEW pc \in {"merge", "target", "mark", "rearm", "spend", "idle"},
         \/ Goto(p, pc) \/ Done(p) \/ job' = [job EXCEPT ![p].pc = pc, ![p].seen = row]
         \/ job' = [job EXCEPT ![p] = [Idle EXCEPT !.pc = pc, !.op = "claim"]]
  PROVE  job' \in [Procs -> Job] /\ Ongoing'
<1> USE TargetAssumption, RewardsAssumption, BoundsAssumption
<1>0. Idle \in Job /\ row \in Row /\ job \in [Procs -> Job]
  BY IdleTyped DEF TypeOK
<1>1. ASSUME NEW new \in Job, new.pc \notin Begun, job' = [job EXCEPT ![p] = new]
      PROVE  job' \in [Procs -> Job] /\ Ongoing'
  BY <1>0, <1>1 DEF Ongoing
<1>2. /\ [job[p] EXCEPT !.pc = pc] \in Job
      /\ [job[p] EXCEPT !.pc = pc].pc = pc
  BY <1>0 DEF Job, Granting
<1>3. /\ [job[p] EXCEPT !.pc = pc, !.seen = row] \in Job
      /\ [job[p] EXCEPT !.pc = pc, !.seen = row].pc = pc
  BY <1>0 DEF Job, Granting
<1>4. /\ [Idle EXCEPT !.pc = pc, !.op = "claim"] \in Job
      /\ [Idle EXCEPT !.pc = pc, !.op = "claim"].pc = pc
  BY <1>0 DEF Job, Granting
<1>5. Idle.pc \notin Begun /\ pc \notin Begun
  BY DEF Idle, Granting, Begun
<1>6. CASE Goto(p, pc)
  BY <1>0, <1>1, <1>2, <1>5, <1>6 DEF Goto
<1>7. CASE Done(p)
  BY <1>0, <1>1, <1>5, <1>7 DEF Done
<1>8. CASE job' = [job EXCEPT ![p].pc = pc, ![p].seen = row]
  BY <1>0, <1>1, <1>3, <1>5, <1>8
<1>9. CASE job' = [job EXCEPT ![p] = [Idle EXCEPT !.pc = pc, !.op = "claim"]]
  BY <1>0, <1>1, <1>4, <1>5, <1>9
<1> QED BY <1>6, <1>7, <1>8, <1>9

\* Who starts on a grant, or nears one, has a reward left.
LEMMA EnteredTyped ==
  ASSUME TypeOK, Ongoing, NEW p \in Procs, NEW new \in Job, job' = [job EXCEPT ![p] = new],
         new.pc \in Begun => new.next \in Prizes
  PROVE  job' \in [Procs -> Job] /\ Ongoing'
BY DEF TypeOK, Ongoing

\* Where claim/3 goes from the row it reads.
LEMMA ClaimTyped ==
  ASSUME TypeOK, Ongoing, RowSound, NEW p \in Procs, ClaimTarget(p)
  PROVE  job' \in [Procs -> Job] /\ Ongoing'
<1> DEFINE new == [Idle EXCEPT !.pc = "take", !.op = "claim", !.run = RunOf(row)]
<1>1. CASE row.status = "completed"
  <2>1. RunOf(row) \in Runs
    BY <1>1, RunTyped DEF Exists
  <2>2. new \in Job /\ new.next \in Prizes
    BY <2>1, IdleTyped DEF Job
  <2> HIDE DEF new
  <2>3. job' = [job EXCEPT ![p] = new]
    BY <1>1 DEF ClaimTarget, new
  <2> QED BY <2>2, <2>3, EnteredTyped
<1>2. CASE row.status # "completed"
  BY <1>2, MovedTyped DEF ClaimTarget
<1> QED BY <1>1, <1>2

-----------------------------------------------------------------------------
\* What a merge writes, if it writes: the row it read, counted on.
LEMMA MergeWrites ==
  ASSUME IInv, NEW p \in Procs, Merge(p)
  PROVE  \/ UNCHANGED <<row, landed>>
         \/ /\ row' \in Row /\ row'.id = resets + 1 /\ resets + 1 \in Ids
            /\ row'.version = row.version + 1 /\ row'.claims = row.claims
            /\ row'.paid = row.paid
            /\ row.count <= row'.count
            /\ landed' = [landed EXCEPT ![resets + 1] = @ + (row'.count - row.count)]
            /\ row'.status = MergedStatus(row, row'.count)
            /\ Unmoved(job[p].seen)
<1> DEFINE seen == job[p].seen
           op == job[p].op
           new == [Merged(seen, op) EXCEPT !.id = IF Exists(seen) THEN @ ELSE resets + 1]
<1> SUFFICES ASSUME ~UNCHANGED <<row, landed>>
             PROVE  /\ row' \in Row /\ row'.id = resets + 1 /\ resets + 1 \in Ids
                    /\ row'.version = row.version + 1 /\ row'.claims = row.claims
                    /\ row'.paid = row.paid
                    /\ row.count <= row'.count
                    /\ landed' = [landed EXCEPT ![resets + 1] = @ + (row'.count - row.count)]
                    /\ row'.status = MergedStatus(row, row'.count)
                    /\ Unmoved(job[p].seen)
  OBVIOUS
<1>1. /\ ~NothingToMerge(seen, op) /\ Unmoved(seen) /\ row' = new
      /\ landed' = [landed EXCEPT ![new.id] = @ + new.count - seen.count]
  BY DEF Merge
<1>2. seen = row /\ row \in Row /\ RowSound /\ landed \in [Ids -> Nat] /\ resets \in Nat
  BY <1>1 DEF IInv, SnapshotsSound, Merge, TypeOK
<1>3. Counted(row, op) \in Nat /\ row.count <= Counted(row, op)
  <2>1. row.count \in Nat /\ ~(Finished(row) /\ op = "admin") /\ (~Exists(row) => row.count = 0)
    BY <1>1, <1>2 DEF NothingToMerge, Row, RowSound, NoRow
  <2>2. row.status \in {"none", "active", "completed", "claimed"}
    BY <1>2 DEF Row
  <2> QED BY <1>2, <2>1, <2>2, TargetAssumption DEF Counted, Finished, RowSound, Exists
<1>4. resets + 1 \in Ids /\ (Exists(row) => row.id = resets + 1)
  BY <1>2, BoundsAssumption DEF RowSound, Ids
<1>5. Merged(row, op) \in Row
  <2> DEFINE count == Counted(row, op)
             version == row.version + 1
             status == MergedStatus(row, count)
  <2>1. version \in Nat /\ count \in Nat
    BY <1>2, <1>3 DEF Row
  <2>2. status \in {"none", "active", "completed", "claimed"}
    BY DEF MergedStatus
  <2>3. Merged(row, op) = [row EXCEPT !.count = count, !.version = version, !.status = status]
    BY <1>2 DEF Merged, Row
  <2> HIDE DEF count, version, status
  <2>4. [row EXCEPT !.count = count, !.version = version, !.status = status] \in Row
    BY <1>2, <2>1, <2>2, RowWritten, Zenon
  <2> QED BY <2>3, <2>4
<1>6. /\ new.id = resets + 1 /\ new.count = Counted(row, op) /\ new \in Row
      /\ new.version = row.version + 1 /\ new.claims = row.claims
      /\ new.paid = row.paid
      /\ new.status = MergedStatus(row, Counted(row, op))
  <2> DEFINE merged == Merged(row, op)
             id == IF Exists(row) THEN merged.id ELSE resets + 1
  <2>1. /\ merged.id = row.id /\ merged.count = Counted(row, op) /\ merged.claims = row.claims
        /\ merged.version = row.version + 1 /\ merged.paid = row.paid
        /\ merged.status = MergedStatus(row, Counted(row, op))
    BY <1>2 DEF Merged, Row
  <2>2. id = resets + 1 /\ id \in 0..(MaxResets + 1)
    BY <1>2, <1>4, <2>1 DEF Ids
  <2>3. new = [merged EXCEPT !.id = id]
    BY <1>2
  <2> HIDE DEF merged, id
  <2>4. merged \in Row
    BY <1>5 DEF merged
  <2>5. new \in Row
    BY <2>2, <2>3, <2>4 DEF Row
  <2>6. /\ new.id = id /\ new.count = merged.count /\ new.claims = merged.claims
        /\ new.version = merged.version /\ new.status = merged.status /\ new.paid = merged.paid
    BY <2>3, <2>4 DEF Row
  <2> QED BY <2>1, <2>2, <2>5, <2>6 DEF merged
<1> HIDE DEF new
<1>7. landed' = [landed EXCEPT ![resets + 1] = @ + (new.count - row.count)]
  BY <1>1, <1>2, <1>3, <1>4, <1>6 DEF Row
<1> QED BY <1>1, <1>2, <1>3, <1>4, <1>6, <1>7

\* What a re-arming writes, if it writes: the row it read, less a run's worth.
LEMMA SpendWrites ==
  ASSUME IInv, NEW p \in Procs, Spend(p)
  PROVE  \/ UNCHANGED row
         \/ /\ row' \in Row /\ row'.id = row.id /\ row.status = "claimed"
            /\ row'.version = row.version + 1 /\ row'.claims = row.claims + 1 /\ ~row'.paid
            /\ row.count >= Target /\ row'.count = row.count - Target
            /\ row'.status = IF row'.count >= Target THEN "completed" ELSE "active"
<1> DEFINE seen == job[p].seen
           new == [row EXCEPT !.status = IF Left(seen) >= Target THEN "completed" ELSE "active",
                              !.count = Left(seen), !.paid = FALSE,
                              !.claims = @ + 1, !.version = @ + 1]
<1> SUFFICES ASSUME ~UNCHANGED row
             PROVE  /\ row' \in Row /\ row'.id = row.id /\ row.status = "claimed"
                    /\ row'.version = row.version + 1 /\ row'.claims = row.claims + 1 /\ ~row'.paid
                    /\ row.count >= Target /\ row'.count = row.count - Target
                    /\ row'.status = IF row'.count >= Target THEN "completed" ELSE "active"
  OBVIOUS
<1>1. Unmoved(seen) /\ row' = new
  BY DEF Spend
<1>2. seen = row /\ row.status = "claimed" /\ row \in Row /\ RowSound
  BY <1>1 DEF IInv, SnapshotsSound, Spend, TypeOK
<1>3. row.count >= Target /\ row.count \in Nat
  BY <1>2 DEF RowSound, Finished, Row
<1>4. Left(row) = row.count - Target /\ Left(row) \in Nat
  BY <1>3, TargetAssumption DEF Left
<1>5. /\ new.id = row.id /\ new.count = Left(row) /\ new \in Row
      /\ new.version = row.version + 1 /\ new.claims = row.claims + 1 /\ ~new.paid
      /\ new.status = IF Left(row) >= Target THEN "completed" ELSE "active"
  <2> DEFINE status == IF Left(row) >= Target THEN "completed" ELSE "active"
             version == row.version + 1
             claims == row.claims + 1
             count == Left(row)
  <2>1. version \in Nat /\ claims \in Nat /\ count \in Nat
    BY <1>2, <1>4 DEF Row
  <2>2. status \in {"none", "active", "completed", "claimed"}
    OBVIOUS
  <2>3. new = [row EXCEPT !.status = status, !.count = count, !.paid = FALSE,
                          !.claims = claims, !.version = version]
    BY <1>2
  <2> HIDE DEF status, version, claims, count, new
  <2>4. new \in Row
    BY <1>2, <2>1, <2>2, <2>3, RowWritten, Zenon
  <2>5. /\ new.id = row.id /\ new.count = count /\ new.status = status
        /\ new.version = version /\ new.claims = claims /\ ~new.paid
    BY <1>2, <2>3 DEF Row
  <2> QED BY <2>4, <2>5 DEF status, version, claims, count
<1> HIDE DEF new
<1> QED BY <1>1, <1>2, <1>3, <1>4, <1>5

-----------------------------------------------------------------------------
\* The types, and that who grants has a reward left.
LEMMA TypeStep ==
  ASSUME IInv, Next
  PROVE  TypeOK' /\ Ongoing'
<1> USE TargetAssumption, RewardsAssumption, BoundsAssumption
<1>0. /\ TypeOK /\ Ongoing /\ RowSound
      /\ Idle \in Job /\ row \in Row /\ job \in [Procs -> Job]
  BY IdleTyped DEF IInv, TypeOK
<1>1. ASSUME NEW p \in Procs, NEW op \in {"event", "admin"}, Report(p, op)
      PROVE  TypeOK' /\ Ongoing'
  <2> DEFINE new == [Idle EXCEPT !.pc = "merge", !.op = op, !.seen = row]
  <2>1. new \in Job /\ new.pc = "merge"
    BY <1>0 DEF Job, Granting
  <2> HIDE DEF new
  <2>2. job' = [job EXCEPT ![p] = new]
    BY <1>1 DEF Report, new
  <2>3. job' \in [Procs -> Job] /\ Ongoing'
    BY <1>0, <2>1, <2>2, EnteredTyped DEF Granting, Begun
  <2> QED BY <1>0, <1>1, <2>3 DEF Report, TypeOK
<1>2. ASSUME NEW p \in Procs, NEW op \in {"heal", "retention"}, Heal(p, op)
      PROVE  TypeOK' /\ Ongoing'
  <2> DEFINE new(pc) == [Idle EXCEPT !.pc = pc, !.op = op, !.run = RunOf(row)]
  <2>1. RunOf(row) \in Runs
    BY <1>0, <1>2, RunTyped DEF Heal, Overdue, Exists
  <2>2. \A pc \in {"check", "rearm"} : new(pc) \in Job /\ new(pc).next \in Prizes
    BY <1>0, <2>1, IdleTyped DEF Job, Granting
  <2> HIDE DEF new
  <2>3. PICK pc \in {"check", "rearm"} : job' = [job EXCEPT ![p] = new(pc)]
    BY <1>2 DEF Heal, new
  <2>4. job' \in [Procs -> Job] /\ Ongoing'
    BY <1>0, <2>2, <2>3, EnteredTyped
  <2> QED BY <1>0, <1>2, <2>4 DEF Heal, history, TypeOK
<1>3. ASSUME NEW p \in Procs, Claim(p) \/ AutoClaim(p) PROVE TypeOK' /\ Ongoing'
  BY <1>0, <1>3, ClaimTyped DEF Claim, AutoClaim, history, TypeOK
<1>4. ASSUME NEW p \in Procs, Merge(p) PROVE TypeOK' /\ Ongoing'
  <2>1. job' \in [Procs -> Job] /\ Ongoing'
    BY <1>0, <1>4, MovedTyped DEF Merge, Again
  <2>2. row' \in Row /\ landed' \in [Ids -> Nat]
    BY <1>0, <1>4, MergeWrites DEF TypeOK, Row
  <2> QED BY <1>0, <1>4, <2>1, <2>2 DEF Merge, TypeOK
<1>5. ASSUME NEW p \in Procs, Take(p) PROVE TypeOK' /\ Ongoing'
  <2> DEFINE new == [job[p] EXCEPT !.pc = "check"]
  <2>1. CASE StillOwed(job[p].run)
    <3>1. RunOf(row) \in Runs /\ [row EXCEPT !.status = "claimed", !.version = @ + 1] \in Row
      <4>1. row.version + 1 \in Nat
        BY <1>0 DEF Row
      <4> QED BY <1>0, <2>1, <4>1, RunTyped, RowWritten DEF StillOwed, Exists
    <3>2. new \in Job /\ new.next \in Prizes
      BY <1>0, <1>5 DEF Job, Granting, Begun, Take, Ongoing
    <3> HIDE DEF new
    <3>3. job' = [job EXCEPT ![p] = new]
      BY <1>5, <2>1 DEF Take, Goto, new
    <3> QED BY <1>0, <1>5, <2>1, <3>1, <3>2, <3>3, EnteredTyped DEF Take, TypeOK
  <2>2. CASE ~StillOwed(job[p].run)
    BY <1>0, <1>5, <2>2, MovedTyped DEF Take, TypeOK
  <2> QED BY <2>1, <2>2
<1>6. ASSUME NEW p \in Procs, Check(p) PROVE TypeOK' /\ Ongoing'
  <2>1. job' \in [Procs -> Job] /\ Ongoing'
    <3>1. CASE Key(p) \in ledger
      <4>1. job[p].failed \in BOOLEAN
        BY <1>0 DEF Job
      <4> QED BY <1>0, <1>6, <3>1, <4>1, GrantedTyped DEF Check, Granting
    <3>2. CASE Key(p) \notin ledger
      <4> DEFINE new == [job[p] EXCEPT !.pc = "credit"]
      <4>1. new \in Job /\ new.next \in Prizes
        BY <1>0, <1>6 DEF Job, Granting, Begun, Check, Ongoing
      <4> HIDE DEF new
      <4>2. job' = [job EXCEPT ![p] = new]
        BY <1>6, <3>2 DEF Check, Goto, new
      <4> QED BY <1>0, <4>1, <4>2, EnteredTyped
    <3> QED BY <3>1, <3>2
  <2> QED BY <1>0, <1>6, <2>1 DEF Check, history, TypeOK
<1>7. ASSUME NEW p \in Procs, Credit(p) PROVE TypeOK' /\ Ongoing'
  <2> DEFINE new == [job[p] EXCEPT !.pc = "record"]
  <2>1. new \in Job /\ new.next \in Prizes
    BY <1>0, <1>7 DEF Job, Granting, Begun, Credit, Ongoing
  <2> HIDE DEF new
  <2>2. job' = [job EXCEPT ![p] = new]
    BY <1>7 DEF Credit, Goto, new
  <2> QED BY <1>0, <1>7, <2>1, <2>2, EnteredTyped DEF Credit, history, TypeOK
<1>8. ASSUME NEW p \in Procs, Record(p) PROVE TypeOK' /\ Ongoing'
  <2>1. job[p].failed \in BOOLEAN /\ job[p].next \in Prizes /\ Key(p) \in Runs \X Prizes
    BY <1>0, <1>8 DEF Job, Record, Ongoing, Granting, Begun, Key
  <2>2. job' \in [Procs -> Job] /\ Ongoing'
    BY <1>0, <1>8, <2>1, GrantedTyped DEF Record, Granting
  <2>3. wallet' \in [Prizes -> Nat] /\ ledger' \subseteq Runs \X Prizes
    BY <1>0, <1>8, <2>1 DEF Record, TypeOK
  <2> QED BY <1>0, <1>8, <2>2, <2>3 DEF Record, history, TypeOK
<1>9. ASSUME NEW p \in Procs, Mark(p) PROVE TypeOK' /\ Ongoing'
  <2>1. job' \in [Procs -> Job] /\ Ongoing'
    <3>1. Done(p) \/ Goto(p, "rearm") \/ Goto(p, "idle")
      BY <1>9 DEF Mark, Afterwards
    <3> QED BY <1>0, <3>1, MovedTyped
  <2>2. [row EXCEPT !.paid = TRUE, !.version = @ + 1] \in Row
    <3>1. row.version + 1 \in Nat
      BY <1>0 DEF Row
    <3> QED BY <1>0, <3>1, RowWritten
  <2>3. row' \in Row
    BY <1>0, <1>9, <2>2 DEF Mark
  <2> QED BY <1>0, <1>9, <2>1, <2>3 DEF Mark, history, TypeOK
<1>10. ASSUME NEW p \in Procs, Rearm(p) PROVE TypeOK' /\ Ongoing'
  BY <1>0, <1>10, MovedTyped DEF Rearm, history, TypeOK
<1>11. ASSUME NEW p \in Procs, Spend(p) PROVE TypeOK' /\ Ongoing'
  <2>1. job' \in [Procs -> Job] /\ Ongoing'
    BY <1>0, <1>11, MovedTyped DEF Spend
  <2>2. row' \in Row
    BY <1>0, <1>11, SpendWrites
  <2> QED BY <1>0, <1>11, <2>1, <2>2 DEF Spend, history, TypeOK
<1>12. ASSUME NEW p \in Procs, Fail(p) PROVE TypeOK' /\ Ongoing'
  <2>1. job' \in [Procs -> Job] /\ Ongoing'
    BY <1>0, <1>12, GrantedTyped DEF Fail, Granting
  <2> QED BY <1>0, <1>12, <2>1 DEF Fail, TypeOK
<1>13. ASSUME NEW p \in Procs, Crash(p) PROVE TypeOK' /\ Ongoing'
  <2>1. job' \in [Procs -> Job] /\ Ongoing'
    BY <1>0, <1>13, MovedTyped DEF Crash
  <2> QED BY <1>0, <1>13, <2>1 DEF Crash, TypeOK
<1>14. ASSUME Reset PROVE TypeOK' /\ Ongoing'
  <2>1. row.status = "claimed" => RunOf(row) \in Runs
    BY <1>0, RunTyped DEF Exists
  <2> QED BY <1>0, <1>14, <2>1 DEF Reset, TypeOK, Ongoing, NoRow, Row
<1> QED
  BY <1>1, <1>2, <1>3, <1>4, <1>5, <1>6, <1>7, <1>8, <1>9, <1>10, <1>11, <1>12, <1>13, <1>14,
     StepCases

-----------------------------------------------------------------------------
\* What a step makes of the row and of what landed: nothing, or one of four writes.
Untouched == UNCHANGED <<row, landed, resets>>
CountedOn ==
  /\ row'.id = resets + 1 /\ resets + 1 \in Ids
  /\ row'.version = row.version + 1 /\ row'.claims = row.claims
  /\ row.count <= row'.count
  /\ landed' = [landed EXCEPT ![resets + 1] = @ + (row'.count - row.count)]
  /\ row'.status = MergedStatus(row, row'.count)
  /\ resets' = resets
Flagged ==
  /\ Exists(row) /\ row'.id = row.id /\ row'.count = row.count /\ row'.claims = row.claims
  /\ row'.version = row.version + 1
  /\ \/ row'.status = row.status
     \/ row.status = "completed" /\ row'.status = "claimed" /\ RunOf(row) \in claimed'
  /\ landed' = landed /\ resets' = resets
Spent ==
  /\ row'.id = row.id /\ row.status = "claimed"
  /\ row'.version = row.version + 1 /\ row'.claims = row.claims + 1
  /\ row.count >= Target /\ row'.count = row.count - Target
  /\ row'.status = IF row'.count >= Target THEN "completed" ELSE "active"
  /\ landed' = landed /\ resets' = resets
Removed ==
  /\ Exists(row) /\ row' = NoRow /\ resets' = resets + 1 /\ resets < MaxResets
  /\ landed' = landed

LEMMA RowCases ==
  ASSUME IInv, Next
  PROVE  Untouched \/ CountedOn \/ Flagged \/ Spent \/ Removed
<1>0. TypeOK /\ RowSound /\ row \in Row /\ job \in [Procs -> Job]
  BY DEF IInv, TypeOK
<1>1. ASSUME NEW p \in Procs, NEW op \in {"event", "admin"}, Report(p, op) PROVE Untouched
  BY <1>1 DEF Report, Untouched
<1>2. ASSUME NEW p \in Procs, NEW op \in {"heal", "retention"}, Heal(p, op) PROVE Untouched
  BY <1>2 DEF Heal, history, Untouched
<1>3. ASSUME NEW p \in Procs,
             \/ Claim(p) \/ AutoClaim(p) \/ Check(p) \/ Credit(p) \/ Record(p) \/ Rearm(p)
             \/ Fail(p) \/ Crash(p)
      PROVE  Untouched
  BY <1>3 DEF Claim, AutoClaim, Check, Credit, Record, Rearm, Fail, Crash, history, Untouched
<1>4. ASSUME NEW p \in Procs, Merge(p) PROVE Untouched \/ CountedOn
  <2>1. resets' = resets
    BY <1>4 DEF Merge
  <2> QED BY <1>4, <2>1, MergeWrites DEF Untouched, CountedOn
<1>5. ASSUME NEW p \in Procs, Take(p) PROVE Untouched \/ Flagged
  <2>1. CASE StillOwed(job[p].run)
    <3>1. row' = [row EXCEPT !.status = "claimed", !.version = @ + 1] /\ row.status = "completed"
      BY <1>5, <2>1 DEF Take, StillOwed
    <3>2. /\ row'.id = row.id /\ row'.count = row.count /\ row'.claims = row.claims
          /\ row'.version = row.version + 1 /\ row'.status = "claimed"
      BY <1>0, <3>1 DEF Row
    <3> QED BY <1>5, <3>1, <3>2 DEF Take, Flagged, Exists
  <2>2. CASE ~StillOwed(job[p].run)
    BY <1>5, <2>2 DEF Take, Untouched
  <2> QED BY <2>1, <2>2
<1>6. ASSUME NEW p \in Procs, Mark(p) PROVE Untouched \/ Flagged
  <2>1. CASE row.id = job[p].run[1]
    <3>1. row' = [row EXCEPT !.paid = TRUE, !.version = @ + 1]
      BY <1>6, <2>1 DEF Mark
    <3>2. /\ row'.id = row.id /\ row'.count = row.count /\ row'.claims = row.claims
          /\ row'.version = row.version + 1 /\ row'.status = row.status
      BY <1>0, <3>1 DEF Row
    <3>3. Exists(row)
      <4>1. job[p].run[1] \in Ids
        BY <1>0 DEF Job, Runs
      <4> QED BY <1>0, <2>1, <4>1, BoundsAssumption DEF RowSound, NoRow, Ids
    <3> QED BY <1>6, <3>2, <3>3 DEF Mark, history, Flagged
  <2>2. CASE row.id # job[p].run[1]
    BY <1>6, <2>2 DEF Mark, history, Untouched
  <2> QED BY <2>1, <2>2
<1>7. ASSUME NEW p \in Procs, Spend(p) PROVE Untouched \/ Spent
  <2>1. resets' = resets /\ landed' = landed
    BY <1>7 DEF Spend, history
  <2> QED BY <1>7, <2>1, SpendWrites DEF Untouched, Spent
<1>8. ASSUME Reset PROVE Removed
  BY <1>8 DEF Reset, Removed
<1> QED BY <1>1, <1>2, <1>3, <1>4, <1>5, <1>6, <1>7, <1>8, StepCases

\* One run's worth more of runs.
LEMMA OneMoreRun ==
  ASSUME NEW c \in Nat
  PROVE  Target * (c + 1) = Target * c + Target /\ Target * c \in Nat
BY TargetAssumption

\* The row keeps its identity, and its counts what landed.
LEMMA RowStep ==
  ASSUME IInv, Next
  PROVE  RowSound' /\ ProgressKept'
<1> USE TargetAssumption, BoundsAssumption
<1>0. /\ TypeOK /\ RowSound /\ ProgressKept /\ TypeOK'
      /\ row \in Row /\ row' \in Row /\ landed \in [Ids -> Nat] /\ resets \in Nat
  BY TypeStep DEF IInv, TypeOK
<1>1. /\ row.claims \in Nat /\ row.count \in Nat /\ row'.count \in Nat
      /\ row.status \in {"none", "active", "completed", "claimed"}
  BY <1>0 DEF Row
<1>2. Target * (row.claims + 1) = Target * row.claims + Target /\ Target * row.claims \in Nat
  BY <1>1, OneMoreRun
<1>3. CASE Untouched
  BY <1>0, <1>3 DEF Untouched, RowSound, ProgressKept, Exists, Finished
<1>4. CASE CountedOn
  <2>1. RowSound'
    BY <1>0, <1>1, <1>4
       DEF CountedOn, RowSound, Exists, Finished, MergedStatus, NoRow, Ids
  <2>2. landed'[resets + 1] = landed[resets + 1] + (row'.count - row.count)
    BY <1>0, <1>4 DEF CountedOn
  <2>3. row.count + Target * row.claims = landed[resets + 1]
    <3>1. CASE Exists(row)
      BY <1>0, <3>1 DEF RowSound, ProgressKept
    <3>2. CASE ~Exists(row)
      <4>1. row.count = 0 /\ row.claims = 0 /\ landed[resets + 1] = 0
        BY <1>0, <3>2 DEF RowSound, NoRow
      <4>2. Target * row.claims = 0
        BY <4>1
      <4> QED BY <4>1, <4>2
    <3> QED BY <3>1, <3>2
  <2>4. landed[resets + 1] \in Nat
    BY <1>0, <1>4 DEF CountedOn
  <2>5. row'.count + Target * row'.claims = landed'[row'.id]
    BY <1>1, <1>2, <1>4, <2>2, <2>3, <2>4 DEF CountedOn
  <2> QED BY <2>1, <2>5 DEF ProgressKept
<1>5. CASE Flagged
  <2>1. RowSound'
    BY <1>0, <1>1, <1>5 DEF Flagged, RowSound, Exists, Finished
  <2>2. row.count + Target * row.claims = landed[row.id]
    BY <1>0, <1>5 DEF Flagged, ProgressKept
  <2> QED BY <1>5, <2>1, <2>2 DEF Flagged, ProgressKept
<1>6. CASE Spent
  <2>1. RowSound'
    BY <1>0, <1>1, <1>6 DEF Spent, RowSound, Exists, Finished
  <2>2. row.count + Target * row.claims = landed[row.id]
    BY <1>0, <1>6 DEF Spent, ProgressKept, Exists
  <2>3. row'.count + Target * row'.claims = landed'[row'.id]
    BY <1>1, <1>2, <1>6, <2>2 DEF Spent
  <2> QED BY <2>1, <2>3 DEF ProgressKept
<1>7. CASE Removed
  BY <1>0, <1>7 DEF Removed, RowSound, ProgressKept, Exists, Finished, NoRow, Ids
<1> QED BY <1>3, <1>4, <1>5, <1>6, <1>7, RowCases

-----------------------------------------------------------------------------
\* A snapshot a process may yet write over is an old one, or has just been read.
LEMMA SnapshotCases ==
  ASSUME IInv, Next, NEW q \in Procs, job'[q].pc \in {"merge", "spend"}
  PROVE  \/ job'[q].pc = job[q].pc /\ job'[q].seen = job[q].seen
         \/ /\ Untouched /\ job'[q].seen = row
            /\ job'[q].pc = "spend" => row.status = "claimed"
<1>0. TypeOK /\ job \in [Procs -> Job]
  BY DEF IInv, TypeOK
<1> USE <1>0 DEF Untouched, Job
<1>1. ASSUME NEW p \in Procs, NEW op \in {"event", "admin"}, Report(p, op)
      PROVE  \/ job'[q] = job[q]
             \/ Untouched /\ job'[q].seen = row /\ job'[q].pc = "merge"
  BY <1>1 DEF Report, Idle
<1>2. ASSUME NEW p \in Procs, NEW op \in {"heal", "retention"}, Heal(p, op)
      PROVE  job'[q] = job[q]
  BY <1>2 DEF Heal, Idle
<1>3. ASSUME NEW p \in Procs, ClaimTarget(p) PROVE job'[q] = job[q]
  <2> DEFINE new == [Idle EXCEPT !.pc = "take", !.op = "claim", !.run = RunOf(row)]
  <2>1. new.pc = "take" /\ Idle.pc = "idle"
    BY IdleTyped DEF Idle
  <2> HIDE DEF new
  <2>2. job' = [job EXCEPT ![p] = new] \/ job' = [job EXCEPT ![p] = Idle]
    BY <1>3 DEF ClaimTarget, Done, new
  <2> QED BY <2>1, <2>2
<1>4. ASSUME NEW p \in Procs, Merge(p)
      PROVE  \/ job'[q] = job[q]
             \/ Untouched /\ job'[q].seen = row /\ job'[q].pc = "merge"
  <2>1. CASE q # p
    BY <1>4, <2>1 DEF Merge, Again, Done
  <2>2. CASE q = p
    <3>1. ASSUME Done(p) \/ job' = [job EXCEPT ![p] = [Idle EXCEPT !.pc = "target", !.op = "claim"]]
          PROVE  FALSE
      <4> DEFINE new == [Idle EXCEPT !.pc = "target", !.op = "claim"]
      <4>1. new.pc = "target" /\ Idle.pc = "idle"
        BY IdleTyped DEF Idle
      <4> HIDE DEF new
      <4>2. job' = [job EXCEPT ![p] = new] \/ job' = [job EXCEPT ![p] = Idle]
        BY <3>1 DEF Done, new
      <4> QED BY <2>2, <4>1, <4>2
    <3>2. UNCHANGED <<row, landed>> /\ job' = [job EXCEPT ![p].pc = "merge", ![p].seen = row]
      BY <1>4, <3>1 DEF Merge, Again
    <3> QED BY <1>4, <2>2, <3>2 DEF Merge
  <2> QED BY <2>1, <2>2
<1>5. ASSUME NEW p \in Procs, NEW pc \in {"idle", "check", "credit", "record", "mark", "rearm", "target"},
             Done(p) \/ Goto(p, pc)
      PROVE  job'[q] = job[q]
  BY <1>5 DEF Done, Goto, Idle
<1>6. ASSUME NEW p \in Procs, NEW failed \in BOOLEAN, Granted(p, failed)
      PROVE  job'[q] = job[q]
  <2> DEFINE pc == IF job[p].next < Rewards THEN "check"
                   ELSE IF ~failed THEN "mark"
                   ELSE IF job[p].op = "retention" THEN "idle" ELSE Afterwards
  <2>1. pc \in {"idle", "check", "mark", "rearm"}
    BY DEF Afterwards
  <2> HIDE DEF pc
  <2>2. job' = [job EXCEPT ![p].next = @ + 1, ![p].failed = failed, ![p].pc = pc]
    BY <1>6 DEF Granted, pc
  <2> QED BY <2>1, <2>2
<1>7. ASSUME NEW p \in Procs, Check(p) \/ Record(p) \/ Fail(p) PROVE job'[q] = job[q]
  <2>1. job[p].failed \in BOOLEAN
    OBVIOUS
  <2> QED BY <1>5, <1>6, <1>7, <2>1 DEF Check, Record, Fail
<1>8. ASSUME NEW p \in Procs, Take(p) \/ Credit(p) \/ Crash(p) PROVE job'[q] = job[q]
  BY <1>5, <1>8 DEF Take, Credit, Crash
<1>9. ASSUME NEW p \in Procs, Mark(p) PROVE job'[q] = job[q]
  BY <1>5, <1>9 DEF Mark, Afterwards
<1>10. ASSUME NEW p \in Procs, Rearm(p)
       PROVE  \/ job'[q] = job[q]
              \/ /\ Untouched /\ job'[q].seen = row /\ row.status = "claimed"
  BY <1>5, <1>10 DEF Rearm, history
<1>11. ASSUME NEW p \in Procs, Spend(p) PROVE job'[q] = job[q]
  BY <1>5, <1>11 DEF Spend
<1>12. ASSUME Reset PROVE job'[q] = job[q]
  BY <1>12 DEF Reset
<1> QED
  BY <1>1, <1>2, <1>3, <1>4, <1>7, <1>8, <1>9, <1>10, <1>11, <1>12, StepCases
     DEF Claim, AutoClaim

LEMMA SnapshotsStep ==
  ASSUME IInv, Next
  PROVE  SnapshotsSound'
<1>0. /\ TypeOK /\ RowSound /\ SnapshotsSound /\ RowSound'
      /\ row \in Row /\ row' \in Row /\ resets \in Nat /\ resets' \in Nat
  BY TypeStep, RowStep DEF IInv, TypeOK
<1> SUFFICES ASSUME NEW q \in Procs, job'[q].pc \in {"merge", "spend"}
             PROVE  /\ job'[q].seen.id <= resets' + 1
                    /\ ~Exists(row') => job'[q].seen.id # resets' + 1
                    /\ job'[q].seen.id = 0 => job'[q].seen = NoRow
                    /\ job'[q].seen.id = row'.id => job'[q].seen.version <= row'.version
                    /\ (job'[q].seen.id = row'.id /\ row'.version = job'[q].seen.version)
                         => job'[q].seen = row'
                    /\ job'[q].pc = "spend" => job'[q].seen.status = "claimed"
  BY DEF SnapshotsSound, Unmoved
<1>1. CASE Untouched /\ job'[q].seen = row /\ (job'[q].pc = "spend" => row.status = "claimed")
  BY <1>0, <1>1 DEF Untouched, RowSound, NoRow, Row, Exists
<1>2. CASE job'[q].pc = job[q].pc /\ job'[q].seen = job[q].seen
  <2> DEFINE seen == job[q].seen
  <2>1. /\ seen.id <= resets + 1
        /\ ~Exists(row) => seen.id # resets + 1
        /\ seen.id = 0 => seen = NoRow
        /\ seen.id = row.id => seen.version <= row.version
        /\ (seen.id = row.id /\ row.version = seen.version) => seen = row
        /\ job'[q].pc = "spend" => seen.status = "claimed"
    BY <1>0, <1>2 DEF SnapshotsSound, Unmoved
  <2>2. seen \in Row /\ row.version \in Nat /\ seen.version \in Nat /\ seen.id \in Nat
    BY <1>0 DEF TypeOK, Job, Row
  <2> HIDE DEF seen
  <2>3. CASE Untouched
    BY <1>2, <2>1, <2>3 DEF Untouched, seen
  <2>4. CASE row'.version = row.version + 1 /\ row'.id = row.id /\ resets' = resets /\ Exists(row)
    BY <1>0, <1>2, <2>1, <2>2, <2>4 DEF seen, RowSound, Exists, NoRow
  <2>5. CASE CountedOn /\ ~Exists(row)
    BY <1>0, <1>2, <2>1, <2>2, <2>5 DEF seen, CountedOn, RowSound, Exists, NoRow
  <2>6. CASE Removed
    BY <1>0, <1>2, <2>1, <2>2, <2>6 DEF seen, Removed, RowSound, Exists, NoRow
  <2>7. CountedOn /\ Exists(row) => row'.version = row.version + 1 /\ row'.id = row.id /\ resets' = resets
    BY <1>0 DEF CountedOn, RowSound
  <2> QED BY <2>3, <2>4, <2>5, <2>6, <2>7, RowCases DEF Flagged, Spent, Exists
<1> QED BY <1>1, <1>2, SnapshotCases

-----------------------------------------------------------------------------
\* What is claimed was finished, and what is granted was claimed.
LEMMA ClaimedKept ==
  ASSUME IInv, Next
  PROVE  claimed \subseteq claimed'
BY StepCases
   DEF Report, Heal, Claim, Merge, AutoClaim, Take, Check, Credit, Record, Mark, Rearm, Spend,
       Fail, Crash, Reset, history

\* What landed stays.
LEMMA LandedGrows ==
  ASSUME IInv, Next, NEW id \in Ids
  PROVE  landed[id] \in Nat /\ landed'[id] \in Nat /\ landed[id] <= landed'[id]
<1>0. /\ landed \in [Ids -> Nat] /\ landed' \in [Ids -> Nat] /\ resets \in Nat
      /\ row.count \in Nat /\ row'.count \in Nat
  BY TypeStep DEF IInv, TypeOK, Row
<1>1. landed' = landed \/ (row.count <= row'.count
                           /\ landed' = [landed EXCEPT ![resets + 1] = @ + (row'.count - row.count)])
  BY RowCases DEF Untouched, CountedOn, Flagged, Spent, Removed
<1> QED BY <1>0, <1>1

\* A run that is claimed now was finished, and its row is counted with it.
LEMMA RunClaimed ==
  ASSUME IInv, Next, NEW run \in claimed' \ claimed
  PROVE  /\ Exists(row) /\ run = RunOf(row) /\ row.status = "completed"
         /\ landed' = landed
<1>1. PICK p \in Procs : Take(p) /\ StillOwed(job[p].run)
  BY StepCases
     DEF Report, Heal, Claim, Merge, AutoClaim, Take, Check, Credit, Record, Mark, Rearm, Spend,
         Fail, Crash, Reset, history
<1> QED BY <1>1 DEF Take, StillOwed, Exists

LEMMA WorthStep ==
  ASSUME IInv, Next
  PROVE  \A run \in claimed' : (run[2] + 1) * Target <= landed'[run[1]]
<1> USE TargetAssumption
<1>0. TypeOK /\ RowSound /\ ProgressKept /\ ClaimsSound /\ row \in Row /\ claimed \subseteq Runs
  BY DEF IInv, TypeOK
<1> SUFFICES ASSUME NEW run \in claimed'
             PROVE  (run[2] + 1) * Target <= landed'[run[1]]
  OBVIOUS
<1>1. CASE run \in claimed
  <2>1. run[1] \in Ids /\ run[2] \in Nat /\ (run[2] + 1) * Target <= landed[run[1]]
    BY <1>0, <1>1 DEF ClaimsSound, Runs
  <2>2. (run[2] + 1) * Target \in Nat
    BY <2>1
  <2> QED BY <2>1, <2>2, LandedGrows
<1>2. CASE run \notin claimed
  <2>1. Exists(row) /\ run = RunOf(row) /\ row.status = "completed" /\ landed' = landed
    BY <1>2, RunClaimed
  <2>2. run[1] = row.id /\ run[2] = row.claims
    BY <2>1 DEF RunOf
  <2>3. row.count >= Target /\ row.count + Target * row.claims = landed[row.id]
    BY <1>0, <2>1 DEF RowSound, Finished, ProgressKept
  <2>4. row.claims \in Nat /\ row.count \in Nat
    BY <1>0 DEF Row
  <2>5. (row.claims + 1) * Target = Target * row.claims + Target /\ Target * row.claims \in Nat
    BY <2>4
  <2> QED BY <2>1, <2>2, <2>3, <2>4, <2>5
<1> QED BY <1>1, <1>2

\* Who grants was granting the same run, or has just claimed it, or found it claimed.
LEMMA GrantCases ==
  ASSUME IInv, Next, NEW q \in Procs, job'[q].pc \in Granting
  PROVE  \/ job[q].pc \in Granting /\ job'[q].run = job[q].run
         \/ job'[q].run \in claimed'
<1>0. TypeOK /\ ClaimsSound /\ job \in [Procs -> Job]
  BY DEF IInv, TypeOK
<1>a. Idle.pc = "idle"
  BY DEF Idle
<1> USE <1>0, <1>a DEF Job, Granting
<1>1. ASSUME NEW p \in Procs, NEW op \in {"event", "admin"}, Report(p, op) PROVE job'[q] = job[q]
  <2> DEFINE new == [Idle EXCEPT !.pc = "merge", !.op = op, !.seen = row]
  <2>1. new.pc = "merge"
    BY IdleTyped
  <2> HIDE DEF new
  <2>2. job' = [job EXCEPT ![p] = new]
    BY <1>1 DEF Report, new
  <2> QED BY <2>1, <2>2
<1>2. ASSUME NEW p \in Procs, NEW op \in {"heal", "retention"}, Heal(p, op)
      PROVE  job'[q] = job[q] \/ job'[q].run \in claimed'
  <2> DEFINE new(pc) == [Idle EXCEPT !.pc = pc, !.op = op, !.run = RunOf(row)]
  <2>1. RunOf(row) \in claimed'
    BY <1>2, ClaimedKept DEF Heal, Overdue, ClaimsSound
  <2>2. \A pc \in {"check", "rearm"} : new(pc).run = RunOf(row)
    BY IdleTyped
  <2> HIDE DEF new
  <2>3. PICK pc \in {"check", "rearm"} : job' = [job EXCEPT ![p] = new(pc)]
    BY <1>2 DEF Heal, new
  <2> QED BY <2>1, <2>2, <2>3
<1>3. ASSUME NEW p \in Procs, ClaimTarget(p) PROVE job'[q] = job[q]
  <2> DEFINE new == [Idle EXCEPT !.pc = "take", !.op = "claim", !.run = RunOf(row)]
  <2>1. new.pc = "take"
    BY IdleTyped
  <2> HIDE DEF new
  <2>2. job' = [job EXCEPT ![p] = new] \/ job' = [job EXCEPT ![p] = Idle]
    BY <1>3 DEF ClaimTarget, Done, new
  <2> QED BY <2>1, <2>2
<1>4. ASSUME NEW p \in Procs, Merge(p) PROVE job'[q] = job[q]
  <2> DEFINE new == [Idle EXCEPT !.pc = "target", !.op = "claim"]
             again == [job[p] EXCEPT !.pc = "merge", !.seen = row]
  <2>1. new.pc = "target" /\ again.pc = "merge"
    BY IdleTyped
  <2>2. \/ job' = [job EXCEPT ![p] = new] \/ job' = [job EXCEPT ![p] = Idle]
        \/ job' = [job EXCEPT ![p] = again]
    BY <1>4 DEF Merge, Again, Done
  <2> HIDE DEF new, again
  <2> QED BY <2>1, <2>2
<1>5. ASSUME NEW p \in Procs, NEW pc, Goto(p, pc)
      PROVE  \/ job'[q] = job[q]
             \/ q = p /\ job'[q].pc = pc /\ job'[q].run = job[q].run
  BY <1>5 DEF Goto
<1>6. ASSUME NEW p \in Procs, Done(p) PROVE job'[q] = job[q]
  BY <1>6 DEF Done
<1>7. ASSUME NEW p \in Procs, NEW failed \in BOOLEAN, Granted(p, failed)
      PROVE  job'[q].run = job[q].run /\ (q = p \/ job'[q] = job[q])
  BY <1>7 DEF Granted
<1>8. ASSUME NEW p \in Procs, Take(p)
      PROVE  job'[q] = job[q] \/ job'[q].run \in claimed'
  <2>1. CASE StillOwed(job[p].run)
    <3>1. job[p].run \in claimed' /\ Goto(p, "check")
      BY <1>8, <2>1 DEF Take, StillOwed
    <3> QED BY <1>5, <3>1
  <2>2. CASE ~StillOwed(job[p].run)
    BY <1>6, <1>8, <2>2 DEF Take
  <2> QED BY <2>1, <2>2
<1>9. ASSUME NEW p \in Procs, Check(p) \/ Credit(p) \/ Record(p) \/ Fail(p)
      PROVE  job[q].pc \in Granting /\ job'[q].run = job[q].run
  <2>1. job[p].failed \in BOOLEAN /\ job[p].pc \in Granting
    BY <1>9 DEF Check, Credit, Record, Fail
  <2>2. \/ \E failed \in BOOLEAN : Granted(p, failed)
        \/ \E pc \in Granting : Goto(p, pc)
    BY <1>9, <2>1 DEF Check, Credit, Record, Fail
  <2> QED BY <1>5, <1>7, <2>1, <2>2
<1>10. ASSUME NEW p \in Procs, Mark(p) PROVE job'[q] = job[q]
  <2>1. Done(p) \/ Goto(p, "rearm") \/ Goto(p, "idle")
    BY <1>10 DEF Mark, Afterwards
  <2> QED BY <1>5, <1>6, <2>1
<1>11. ASSUME NEW p \in Procs, Rearm(p) PROVE job'[q] = job[q]
  <2> DEFINE again == [job[p] EXCEPT !.pc = "spend", !.seen = row]
  <2>1. again.pc = "spend"
    OBVIOUS
  <2>2. job' = [job EXCEPT ![p] = Idle] \/ job' = [job EXCEPT ![p] = again]
    BY <1>11 DEF Rearm, Done
  <2> HIDE DEF again
  <2> QED BY <2>1, <2>2
<1>12. ASSUME NEW p \in Procs, Spend(p) PROVE job'[q] = job[q]
  BY <1>5, <1>6, <1>12 DEF Spend
<1>13. ASSUME NEW p \in Procs, Crash(p) PROVE job'[q] = job[q]
  BY <1>6, <1>13 DEF Crash
<1>14. ASSUME Reset PROVE job'[q] = job[q]
  BY <1>14 DEF Reset
<1> QED
  BY <1>1, <1>2, <1>3, <1>4, <1>8, <1>9, <1>10, <1>11, <1>12, <1>13, <1>14, StepCases
     DEF Claim, AutoClaim

\* The ledger and the wallet change together, by an entry of who records.
LEMMA LedgerCases ==
  ASSUME IInv, Next
  PROVE  \/ UNCHANGED <<wallet, ledger>>
         \/ \E p \in Procs :
              /\ job[p].pc = "record" /\ ledger' = ledger \cup {Key(p)}
              /\ wallet' = IF Applied(p) THEN [wallet EXCEPT ![job[p].next] = @ + 1] ELSE wallet
BY StepCases
   DEF Report, Heal, Claim, Merge, AutoClaim, Take, Check, Credit, Record, Mark, Rearm, Spend,
       Fail, Crash, Reset, history

LEMMA ClaimsStep ==
  ASSUME IInv, Next
  PROVE  ClaimsSound'
<1>0. TypeOK /\ ClaimsSound /\ RowSound /\ claimed \subseteq claimed'
  BY ClaimedKept DEF IInv
<1>1. row'.status = "claimed" => RunOf(row') \in claimed'
  <2>1. CASE Untouched
    BY <1>0, <2>1 DEF Untouched, ClaimsSound, RunOf
  <2>2. CASE CountedOn
    BY <1>0, <2>2 DEF CountedOn, ClaimsSound, RunOf, RowSound, Exists, MergedStatus
  <2>3. CASE Flagged
    BY <1>0, <2>3 DEF Flagged, ClaimsSound, RunOf
  <2>4. CASE Spent
    BY <2>4 DEF Spent
  <2>5. CASE Removed
    BY <2>5 DEF Removed, NoRow
  <2> QED BY <2>1, <2>2, <2>3, <2>4, <2>5, RowCases
<1>2. \A q \in Procs : job'[q].pc \in Granting => job'[q].run \in claimed'
  BY <1>0, GrantCases DEF ClaimsSound
<1>3. \A k \in ledger' : k[1] \in claimed'
  BY <1>0, LedgerCases DEF ClaimsSound, Key, Granting
<1> QED BY <1>1, <1>2, <1>3, WorthStep DEF ClaimsSound

\* An entry that was not there is one more of its wallet's.
LEMMA SumStep ==
  ASSUME IInv, Next
  PROVE  Summed'
<1>0. TypeOK /\ Ongoing /\ Summed /\ wallet \in [Prizes -> Nat]
  BY DEF IInv, TypeOK
<1>1. CASE UNCHANGED <<wallet, ledger>>
  BY <1>0, <1>1 DEF Summed
<1>2. ASSUME NEW p \in Procs, job[p].pc = "record", ledger' = ledger \cup {Key(p)},
             wallet' = IF Applied(p) THEN [wallet EXCEPT ![job[p].next] = @ + 1] ELSE wallet
      PROVE  Summed'
  <2>1. IsFiniteSet(ledger')
    BY <1>0, <1>2, FS_AddElement DEF Summed
  <2> SUFFICES ASSUME NEW i \in Prizes
               PROVE  wallet'[i] = Cardinality({k \in ledger' : k[2] = i})
    BY <2>1 DEF Summed
  <2> DEFINE old == {k \in ledger : k[2] = i}
             new == {k \in ledger' : k[2] = i}
             n == job[p].next
  <2>2. wallet[i] = Cardinality(old) /\ IsFiniteSet(old)
    BY <1>0, FS_Subset DEF Summed
  <2>3. n \in Prizes /\ Key(p)[2] = n
    BY <1>0, <1>2 DEF Ongoing, Begun, Granting, Key
  <2>4. CASE ~Applied(p)
    BY <1>2, <2>2, <2>4 DEF Applied
  <2>5. CASE Applied(p) /\ n # i
    <3>1. new = old
      BY <1>2, <2>3, <2>5
    <3> QED BY <1>0, <1>2, <2>2, <2>3, <2>5, <3>1
  <2>6. CASE Applied(p) /\ n = i
    <3>1. new = old \cup {Key(p)} /\ Key(p) \notin old
      BY <1>2, <2>3, <2>6 DEF Applied
    <3>2. Cardinality(new) = Cardinality(old) + 1
      BY <2>2, <3>1, FS_AddElement
    <3> QED BY <1>0, <1>2, <2>2, <2>6, <3>2
  <2> QED BY <2>4, <2>5, <2>6
<1> QED BY <1>1, <1>2, LedgerCases

-----------------------------------------------------------------------------
LEMMA InitIInv == Init => IInv
<1> USE TargetAssumption, RewardsAssumption, BoundsAssumption
<1> SUFFICES ASSUME Init PROVE IInv
  OBVIOUS
<1>1. TypeOK
  <2>1. \A p \in Procs : job[p] = Idle
    BY DEF Init
  <2> QED BY <2>1, IdleTyped DEF Init, TypeOK
<1>2. ~Exists(row) /\ ~Finished(row) /\ row.status = "none" /\ row = NoRow
  BY DEF Init, NoRow, Exists, Finished
<1>3. RowSound /\ ProgressKept
  BY <1>2 DEF Init, RowSound, ProgressKept, Ids
<1>4. \A p \in Procs : job[p].pc = "idle"
  BY DEF Init, Idle
<1>5. Ongoing /\ SnapshotsSound
  BY <1>4 DEF Ongoing, Begun, Granting, SnapshotsSound
<1>6. ClaimsSound
  BY <1>2, <1>4 DEF Init, ClaimsSound, Granting
<1>7. Summed
  <2>1. \A i \in Prizes : {k \in {} : k[2] = i} = {}
    OBVIOUS
  <2> QED BY <2>1, FS_EmptySet DEF Init, Summed
<1> QED BY <1>1, <1>3, <1>5, <1>6, <1>7 DEF IInv

LEMMA NextIInv == IInv /\ [Next]_vars => IInv'
<1> SUFFICES ASSUME IInv, [Next]_vars PROVE IInv'
  OBVIOUS
<1>1. CASE Next
  BY <1>1, TypeStep, RowStep, SnapshotsStep, ClaimsStep, SumStep DEF IInv
<1>2. CASE UNCHANGED vars
  BY <1>2
     DEF vars, IInv, TypeOK, Ongoing, RowSound, ProgressKept, SnapshotsSound, Unmoved,
         ClaimsSound, RunOf, Summed
<1> QED BY <1>1, <1>2

LEMMA Invariant == Spec => []IInv
BY InitIInv, NextIInv, PTL DEF Spec

-----------------------------------------------------------------------------
\* Who pays a run to its end, unless something happens to him.
Active == Granting \cup {"mark"}
Sure(p, run) == job[p].pc \in Granting /\ job[p].run = run /\ ~job[p].failed
Kept(run) == Paid(run) \/ \E p \in Procs : Sure(p, run)

\* A process pays a claimed run, reward by reward, and marks what is paid.
JobsSound ==
  \A p \in Procs :
    /\ job[p].pc = "take" => job[p].op = "claim" /\ ~job[p].failed /\ job[p].next = 1
    /\ job[p].pc \in Active => job[p].run \in claimed
    /\ (job[p].pc \in Granting /\ ~job[p].failed) =>
         \A i \in Prizes : i < job[p].next => <<job[p].run, i>> \in ledger
    /\ job[p].pc = "mark" => Paid(job[p].run)
    /\ job[p].pc = "spend" => job[p].seen.paid

\* A run is claimed once: what was claimed is the row's run, or behind it.
RunsPast ==
  /\ \A run \in claimed :
       /\ run[1] <= resets + 1
       /\ run[1] = resets + 1 =>
            /\ Exists(row)
            /\ run[2] < row.claims \/ (run[2] = row.claims /\ row.status = "claimed")
  /\ \A run \in wiped : run[1] <= resets

\* As long as nothing has happened, a run is paid by who claimed it, and by nobody else.
Spotless ==
  /\ \A p \in Procs : job[p].pc \in Active =>
       /\ job[p].op = "claim" /\ ~job[p].failed
       /\ Recoverable(job[p].run) \/ job[p].run \in wiped
  /\ \A p, q \in Procs :
       (job[p].pc \in Active /\ job[q].pc \in Active /\ job[p].run = job[q].run) => p = q
  /\ row.status = "claimed" /\ ~row.paid => Claiming(RunOf(row))
  /\ row.paid => row.status = "claimed" /\ Paid(RunOf(row))
  /\ \A run \in claimed \ wiped : Paid(run) \/ Recoverable(run)

\* After a mishap nobody fails any more: one that may yet mark the row of a run that
\* is not his leaves its claim to a process that will pay it.
Survived ==
  /\ \A run \in claimed \ wiped : Kept(run) \/ Recoverable(run)
  /\ \A q \in Procs : (/\ job[q].pc \in Active /\ job[q].run[1] = row.id
                       /\ job[q].run # RunOf(row) /\ row.status = "claimed") => Kept(RunOf(row))

Remembered ==
  /\ JobsSound /\ RunsPast
  /\ mishaps = 0 => Spotless
  /\ mishaps = 1 => Survived

-----------------------------------------------------------------------------
\* What a step is to the runs: nothing, or a payment, a recovery, a claim, a mark,
\* a re-arming, a mishap, or a reset.
Held(p) == \A q \in Procs \ {p} : job'[q] = job[q]
Harmless(p) ==
  /\ job'[p].pc \notin Active
  /\ job'[p].pc = "take" => job'[p].op = "claim" /\ ~job'[p].failed /\ job'[p].next = 1
  /\ job'[p].pc = "spend" => job'[p].seen.paid
RowStands ==
  \/ UNCHANGED row
  \/ /\ row'.paid = row.paid /\ row'.claims = row.claims /\ row'.id = resets + 1
     /\ Exists(row') /\ (row'.status = "claimed" <=> row.status = "claimed")
Quiet(p) ==
  /\ Held(p) /\ job[p].pc \notin Active /\ Harmless(p) /\ RowStands
  /\ UNCHANGED <<ledger, claimed, wiped, resets, mishaps>>
Pays(p) ==
  /\ Held(p) /\ job[p].pc \in Granting /\ ledger \subseteq ledger'
  /\ job'[p].run = job[p].run /\ job'[p].op = job[p].op
  /\ \/ /\ job'[p].pc \in Granting /\ job'[p].failed = job[p].failed
        /\ \/ job'[p].next = job[p].next
           \/ job'[p].next = job[p].next + 1 /\ Key(p) \in ledger'
     \/ /\ job'[p].pc = "mark" /\ job'[p].failed = job[p].failed /\ ~job[p].failed
        /\ job[p].next = Rewards /\ Key(p) \in ledger'
     \/ job'[p].pc \in {"idle", "rearm"} /\ job[p].failed
  /\ UNCHANGED <<row, claimed, wiped, resets, mishaps>>
Recovers(p) ==
  /\ Held(p) /\ job[p].pc = "idle" /\ Overdue
  /\ job'[p].pc = "check" /\ job'[p].run = RunOf(row) /\ ~job'[p].failed /\ job'[p].next = 1
  /\ UNCHANGED <<row, ledger, claimed, wiped, resets, mishaps>>
Takes(p) ==
  /\ Held(p) /\ job[p].pc = "take" /\ row.status = "completed"
  /\ job'[p].pc = "check" /\ job'[p].run = RunOf(row)
  /\ job'[p].op = job[p].op /\ job'[p].failed = job[p].failed /\ job'[p].next = job[p].next
  /\ row'.status = "claimed" /\ row'.id = row.id /\ row'.claims = row.claims /\ row'.paid = row.paid
  /\ claimed' = claimed \cup {RunOf(row)}
  /\ UNCHANGED <<ledger, wiped, resets, mishaps>>
Marks(p) ==
  /\ Held(p) /\ job[p].pc = "mark" /\ job'[p].pc \in {"idle", "rearm"}
  /\ row'.status = row.status /\ row'.id = row.id /\ row'.claims = row.claims
  /\ row'.paid = (row.paid \/ row.id = job[p].run[1])
  /\ UNCHANGED <<ledger, claimed, wiped, resets, mishaps>>
Spends(p) ==
  /\ Held(p) /\ job[p].pc = "spend" /\ job'[p].pc \in {"idle", "target"}
  /\ job[p].seen = row /\ row.status = "claimed"
  /\ row'.status \in {"completed", "active"} /\ row'.id = row.id /\ row'.claims = row.claims + 1
  /\ ~row'.paid
  /\ UNCHANGED <<ledger, claimed, wiped, resets, mishaps>>
Mishap(p) ==
  /\ Held(p) /\ mishaps' = mishaps + 1
  /\ \/ job'[p].pc \in {"idle", "rearm"}
     \/ /\ job'[p].pc = "check" /\ job'[p].failed
        /\ job[p].pc \in Granting /\ job'[p].run = job[p].run
  /\ UNCHANGED <<row, ledger, claimed, wiped, resets>>

\* A claim goes for the row's run, or nowhere.
LEMMA TargetHarmless ==
  ASSUME IInv, NEW p \in Procs, ClaimTarget(p)
  PROVE  Held(p) /\ Harmless(p)
<1> DEFINE new == [Idle EXCEPT !.pc = "take", !.op = "claim", !.run = RunOf(row)]
<1>1. new.pc = "take" /\ new.op = "claim" /\ ~new.failed /\ new.next = 1
  BY DEF Idle
<1>2. Idle.pc = "idle"
  BY DEF Idle
<1> HIDE DEF new
<1>3. job' = [job EXCEPT ![p] = new] \/ job' = [job EXCEPT ![p] = Idle]
  BY DEF ClaimTarget, Done, new
<1> QED BY <1>1, <1>2, <1>3 DEF IInv, TypeOK, Held, Harmless, Active, Granting

\* Where a process goes to from one point of its job to another, and who else moves.
LEMMA GoesTo ==
  ASSUME IInv, NEW p \in Procs, NEW pc, Goto(p, pc)
  PROVE  /\ Held(p) /\ job'[p].pc = pc /\ job'[p].run = job[p].run /\ job'[p].op = job[p].op
         /\ job'[p].failed = job[p].failed /\ job'[p].next = job[p].next
BY DEF IInv, TypeOK, Job, Goto, Held

LEMMA Rests ==
  ASSUME IInv, NEW p \in Procs, Done(p)
  PROVE  Held(p) /\ job'[p].pc = "idle"
BY DEF IInv, TypeOK, Done, Held, Idle

\* Where a grant leads, made or failed.
LEMMA GrantLeads ==
  ASSUME IInv, NEW p \in Procs, NEW failed \in BOOLEAN, Granted(p, failed),
         job[p].pc \in Granting
  PROVE  /\ Held(p) /\ job'[p].run = job[p].run /\ job'[p].op = job[p].op
         /\ job'[p].failed = failed /\ job'[p].next = job[p].next + 1
         /\ \/ job'[p].pc = "check"
            \/ job'[p].pc = "mark" /\ ~failed /\ job[p].next = Rewards
            \/ job'[p].pc \in {"idle", "rearm"} /\ failed
<1> DEFINE pc == IF job[p].next < Rewards THEN "check"
                 ELSE IF ~failed THEN "mark"
                 ELSE IF job[p].op = "retention" THEN "idle" ELSE Afterwards
<1>1. \/ pc = "check"
      \/ pc = "mark" /\ ~failed /\ job[p].next = Rewards
      \/ pc \in {"idle", "rearm"} /\ failed
  <2>1. job[p].next \in 1..Rewards
    BY DEF IInv, Ongoing, Begun, Prizes
  <2> QED BY <2>1, RewardsAssumption DEF Afterwards
<1> HIDE DEF pc
<1>2. job' = [job EXCEPT ![p].next = @ + 1, ![p].failed = failed, ![p].pc = pc]
  BY DEF Granted, pc
<1>3. /\ Held(p) /\ job'[p].run = job[p].run /\ job'[p].op = job[p].op
      /\ job'[p].failed = failed /\ job'[p].next = job[p].next + 1 /\ job'[p].pc = pc
  BY <1>2 DEF IInv, TypeOK, Job, Held
<1> QED BY <1>1, <1>3

\* Every step is of one of the kinds.
LEMMA StepKinds ==
  ASSUME IInv, Next
  PROVE  \/ \E p \in Procs : \/ Quiet(p) \/ Pays(p) \/ Recovers(p) \/ Takes(p) \/ Marks(p)
                             \/ Spends(p) \/ Mishap(p)
         \/ Reset
<1>0. TypeOK /\ RowSound /\ row \in Row /\ job \in [Procs -> Job] /\ Idle.pc = "idle"
  BY DEF IInv, TypeOK, Idle
<1>1. ASSUME NEW p \in Procs, NEW op \in {"event", "admin"}, Report(p, op) PROVE Quiet(p)
  <2> DEFINE new == [Idle EXCEPT !.pc = "merge", !.op = op, !.seen = row]
  <2>1. new.pc = "merge"
    BY IdleTyped DEF Job
  <2> HIDE DEF new
  <2>2. job' = [job EXCEPT ![p] = new] /\ job[p].pc = "idle"
    BY <1>1 DEF Report, new
  <2> QED
    BY <1>0, <1>1, <2>1, <2>2 DEF Report, Quiet, Held, Harmless, Active, Granting, RowStands
<1>2. ASSUME NEW p \in Procs, NEW op \in {"heal", "retention"}, Heal(p, op)
      PROVE  Quiet(p) \/ Recovers(p)
  <2> DEFINE new(pc) == [Idle EXCEPT !.pc = pc, !.op = op, !.run = RunOf(row)]
  <2>1. \A pc \in {"check", "rearm"} :
          new(pc).pc = pc /\ new(pc).run = RunOf(row) /\ ~new(pc).failed /\ new(pc).next = 1
    BY DEF Idle
  <2> HIDE DEF new
  <2>2. CASE job' = [job EXCEPT ![p] = new("check")] /\ Overdue
    BY <1>0, <1>2, <2>1, <2>2 DEF Heal, Recovers, Held, history
  <2>3. CASE job' = [job EXCEPT ![p] = new("rearm")]
    BY <1>0, <1>2, <2>1, <2>3
       DEF Heal, Quiet, Held, Harmless, Active, Granting, RowStands, history
  <2> QED BY <1>2, <2>2, <2>3 DEF Heal, new
<1>3. ASSUME NEW p \in Procs, Claim(p) \/ AutoClaim(p) PROVE Quiet(p)
  <2>1. Held(p) /\ Harmless(p)
    BY <1>3, TargetHarmless DEF Claim, AutoClaim
  <2> QED BY <1>3, <2>1 DEF Claim, AutoClaim, Quiet, Active, Granting, RowStands, history
<1>4. ASSUME NEW p \in Procs, Merge(p) PROVE Quiet(p)
  <2> DEFINE new == [Idle EXCEPT !.pc = "target", !.op = "claim"]
             again == [job[p] EXCEPT !.pc = "merge", !.seen = row]
  <2>1. new.pc = "target" /\ again.pc = "merge"
    BY <1>0, IdleTyped DEF Job
  <2>2. \/ job' = [job EXCEPT ![p] = new] \/ job' = [job EXCEPT ![p] = Idle]
        \/ job' = [job EXCEPT ![p] = again]
    BY <1>4 DEF Merge, Again, Done
  <2> HIDE DEF new, again
  <2>3. Held(p) /\ job'[p].pc \in {"target", "idle", "merge"}
    BY <1>0, <2>1, <2>2 DEF Held
  <2>4. RowStands
    <3>1. CASE UNCHANGED row
      BY <3>1 DEF RowStands
    <3>2. CASE row' # row
      <4>1. /\ row'.id = resets + 1 /\ row'.paid = row.paid /\ row'.claims = row.claims
            /\ row'.status = MergedStatus(row, row'.count)
        BY <1>4, <3>2, MergeWrites
      <4> QED BY <4>1 DEF RowStands, MergedStatus, Exists
    <3> QED BY <3>1, <3>2
  <2> QED BY <1>4, <2>3, <2>4 DEF Merge, Quiet, Harmless, Active, Granting
<1>5. ASSUME NEW p \in Procs, Take(p) PROVE Quiet(p) \/ Takes(p)
  <2>1. CASE StillOwed(job[p].run)
    <3>1. row' = [row EXCEPT !.status = "claimed", !.version = @ + 1] /\ Goto(p, "check")
      BY <1>5, <2>1 DEF Take
    <3>2. /\ row'.status = "claimed" /\ row'.id = row.id /\ row'.claims = row.claims
          /\ row'.paid = row.paid
      BY <1>0, <3>1 DEF Row
    <3> QED BY <1>5, <2>1, <3>1, <3>2, GoesTo DEF Take, Takes, StillOwed
  <2>2. CASE ~StillOwed(job[p].run)
    <3>1. Held(p) /\ job'[p].pc = "idle"
      BY <1>5, <2>2, Rests DEF Take
    <3> QED BY <1>5, <2>2, <3>1 DEF Take, Quiet, Harmless, Active, Granting, RowStands
  <2> QED BY <2>1, <2>2
<1>6. ASSUME NEW p \in Procs, Check(p) \/ Credit(p) \/ Record(p) PROVE Pays(p)
  <2>1. /\ ledger \subseteq ledger' /\ job[p].pc \in Granting /\ job[p].failed \in BOOLEAN
        /\ UNCHANGED <<row, claimed, wiped, resets, mishaps>>
    BY <1>0, <1>6 DEF Check, Credit, Record, Granting, history, Job
  <2>2. CASE Granted(p, job[p].failed) /\ Key(p) \in ledger'
    BY <2>1, <2>2, GrantLeads DEF Pays, Granting
  <2>3. CASE \E pc \in Granting : Goto(p, pc)
    BY <2>1, <2>3, GoesTo DEF Pays
  <2> QED BY <1>6, <2>2, <2>3 DEF Check, Credit, Record, Granting
<1>7. ASSUME NEW p \in Procs, Mark(p) PROVE Marks(p)
  <2>1. Held(p) /\ job'[p].pc \in {"idle", "rearm"}
    BY <1>7, GoesTo, Rests DEF Mark, Afterwards
  <2>2. /\ row'.status = row.status /\ row'.id = row.id /\ row'.claims = row.claims
        /\ row'.paid = (row.paid \/ row.id = job[p].run[1])
    <3>1. CASE row.id = job[p].run[1]
      <4>1. row' = [row EXCEPT !.paid = TRUE, !.version = @ + 1]
        BY <1>7, <3>1 DEF Mark
      <4> QED BY <1>0, <3>1, <4>1 DEF Row
    <3>2. CASE row.id # job[p].run[1]
      BY <1>0, <1>7, <3>2 DEF Mark, Row
    <3> QED BY <3>1, <3>2
  <2> QED BY <1>7, <2>1, <2>2 DEF Mark, Marks, history
<1>8. ASSUME NEW p \in Procs, Rearm(p) PROVE Quiet(p)
  <2> DEFINE again == [job[p] EXCEPT !.pc = "spend", !.seen = row]
  <2>1. again.pc = "spend" /\ again.seen = row
    BY <1>0 DEF Job
  <2>2. job' = [job EXCEPT ![p] = Idle] \/ (job' = [job EXCEPT ![p] = again] /\ row.paid)
    BY <1>8 DEF Rearm, Done
  <2> HIDE DEF again
  <2> QED
    BY <1>0, <1>8, <2>1, <2>2
       DEF Rearm, Quiet, Held, Harmless, Active, Granting, RowStands, history
<1>9. ASSUME NEW p \in Procs, Spend(p) PROVE Quiet(p) \/ Spends(p)
  <2>1. Held(p) /\ job'[p].pc \in {"idle", "target", "rearm"}
    BY <1>9, GoesTo, Rests DEF Spend
  <2>2. job[p].pc = "spend" /\ UNCHANGED <<ledger, claimed, wiped, resets, mishaps>>
    BY <1>9 DEF Spend, history
  <2>3. CASE UNCHANGED row
    BY <2>1, <2>2, <2>3 DEF Quiet, Harmless, Active, Granting, RowStands
  <2>4. CASE row' # row
    <3>1. Unmoved(job[p].seen) /\ job'[p].pc \in {"idle", "target"}
      BY <1>9, <2>4, GoesTo, Rests DEF Spend
    <3>2. job[p].seen = row
      BY <2>2, <3>1 DEF IInv, SnapshotsSound
    <3> QED BY <1>9, <2>1, <2>2, <2>4, <3>1, <3>2, SpendWrites DEF Spends
  <2> QED BY <2>3, <2>4
<1>10. ASSUME NEW p \in Procs, Fail(p) PROVE Mishap(p)
  <2>1. job[p].pc \in Granting
    BY <1>10 DEF Fail, Granting
  <2> QED BY <1>10, <2>1, GrantLeads DEF Fail, Mishap
<1>11. ASSUME NEW p \in Procs, Crash(p) PROVE Mishap(p)
  BY <1>11, Rests DEF Crash, Mishap
<1> QED BY <1>1, <1>2, <1>3, <1>4, <1>5, <1>6, <1>7, <1>8, <1>9, <1>10, <1>11, StepCases

-----------------------------------------------------------------------------
\* What the runs are counted by.
LEMMA RunsTyped ==
  ASSUME IInv
  PROVE  /\ resets \in Nat /\ mishaps \in Nat /\ row.claims \in Nat /\ row.id \in Nat
         /\ Exists(row) => row.id = resets + 1
         /\ row.id # 0 => Exists(row)
         /\ \A run \in claimed : run[1] \in Nat /\ run[2] \in Nat /\ run = <<run[1], run[2]>>
         /\ \A p \in Procs : job[p].run[1] \in Nat /\ job[p].run[1] # 0
<1> USE BoundsAssumption
<1>1. TypeOK /\ RowSound
  BY DEF IInv
<1>2. \A run \in Runs : run[1] \in Nat /\ run[1] # 0 /\ run[2] \in Nat /\ run = <<run[1], run[2]>>
  BY DEF Runs, Ids
<1>3. resets \in Nat /\ mishaps \in Nat /\ row.claims \in Nat /\ row.id \in Nat
  BY <1>1 DEF TypeOK, Row
<1>4. \A p \in Procs : job[p].run \in Runs
  BY <1>1 DEF TypeOK, Job
<1> QED BY <1>1, <1>2, <1>3, <1>4 DEF TypeOK, RowSound, NoRow

\* The three parts, of the state a step leads to, run by run.
LEMMA JobsSoundNext ==
  ASSUME \A run : \A q \in Procs : job'[q].run = run =>
           /\ job'[q].pc = "take" => job'[q].op = "claim" /\ ~job'[q].failed /\ job'[q].next = 1
           /\ job'[q].pc \in Active => run \in claimed'
           /\ (job'[q].pc \in Granting /\ ~job'[q].failed) =>
                \A i \in Prizes : i < job'[q].next => <<run, i>> \in ledger'
           /\ job'[q].pc = "mark" => Paid(run)'
           /\ job'[q].pc = "spend" => job'[q].seen.paid
  PROVE  JobsSound'
BY Zenon DEF JobsSound, Paid

LEMMA SpotlessNext ==
  ASSUME \A run : \A q \in Procs : (job'[q].run = run /\ job'[q].pc \in Active) =>
           /\ job'[q].op = "claim" /\ ~job'[q].failed
           /\ Recoverable(run)' \/ run \in wiped',
         \A p, q \in Procs :
           (job'[p].pc \in Active /\ job'[q].pc \in Active /\ job'[p].run = job'[q].run) => p = q,
         \A run : Recoverable(run)' => Claiming(run)',
         \A run : (row'.paid /\ RunOf(row') = run) => row'.status = "claimed" /\ Paid(run)',
         \A run \in claimed' \ wiped' : Paid(run)' \/ Recoverable(run)'
  PROVE  Spotless'
BY Zenon DEF Spotless, Recoverable, Claiming, Paid

LEMMA SurvivedNext ==
  ASSUME \A run \in claimed' \ wiped' : Kept(run)' \/ Recoverable(run)',
         \A run : \A q \in Procs :
           (/\ job'[q].pc \in Active /\ job'[q].run[1] = row'.id /\ row'.status = "claimed"
            /\ RunOf(row') = run /\ job'[q].run # run) => Kept(run)'
  PROVE  Survived'
BY Zenon DEF Survived, Recoverable, Kept, Paid, Sure

\* A run that is paid, or surely will be, stays so under who leaves its payers alone.
LEMMA KeptStays ==
  ASSUME ledger \subseteq ledger', NEW run, Kept(run),
         \A q \in Procs : Sure(q, run) => job'[q] = job[q]
  PROVE  Kept(run)'
<1>1. CASE Paid(run)
  BY <1>1 DEF Paid, Kept
<1>2. ASSUME NEW q \in Procs, Sure(q, run) PROVE Sure(q, run)'
  BY <1>2 DEF Sure
<1> QED BY <1>1, <1>2 DEF Kept

\* Steps that touch no claimed run.
LEMMA QuietStep ==
  ASSUME IInv, Remembered, NEW p \in Procs, Quiet(p)
  PROVE  Remembered'
<1>1. \A q \in Procs : q # p => job'[q] = job[q]
  BY DEF Quiet, Held
<1>2. \A q \in Procs : job'[q].pc \in Active => job[q].pc \in Active /\ job'[q] = job[q]
  BY <1>1 DEF Quiet, Harmless
<1>3. \A q \in Procs : job[q].pc \in Active => job'[q] = job[q]
  BY <1>1 DEF Quiet
<1>4. \A run : Paid(run)' <=> Paid(run)
  BY DEF Quiet, Paid
<1>5. /\ row'.status = "claimed" <=> row.status = "claimed"
      /\ row'.paid = row.paid /\ row'.claims = row.claims
      /\ Exists(row) => Exists(row') /\ row'.id = row.id
  BY RunsTyped DEF Quiet, RowStands
<1>6. row.status = "claimed" => RunOf(row') = RunOf(row) /\ row'.id = row.id
  BY <1>5 DEF RunOf, Exists
<1>7. \A run : Recoverable(run)' <=> Recoverable(run)
  BY <1>5, <1>6 DEF Recoverable
<1>8. \A run : Claiming(run) => Claiming(run)'
  BY <1>3 DEF Claiming, Active
<1>9. \A run : Kept(run) => Kept(run)'
  BY <1>3, KeptStays DEF Sure, Active, Quiet
<1>10. JobsSound'
  <2>1. ASSUME NEW q \in Procs, NEW run, job'[q].run = run
        PROVE  /\ job'[q].pc = "take" => job'[q].op = "claim" /\ ~job'[q].failed /\ job'[q].next = 1
               /\ job'[q].pc \in Active => run \in claimed'
               /\ (job'[q].pc \in Granting /\ ~job'[q].failed) =>
                    \A i \in Prizes : i < job'[q].next => <<run, i>> \in ledger'
               /\ job'[q].pc = "mark" => Paid(run)'
               /\ job'[q].pc = "spend" => job'[q].seen.paid
    <3>1. CASE q = p
      BY <3>1 DEF Quiet, Harmless, Active
    <3>2. CASE q # p
      BY <1>1, <1>4, <2>1, <3>2 DEF Quiet, Remembered, JobsSound
    <3> QED BY <3>1, <3>2
  <2> QED BY <2>1, JobsSoundNext
<1>11. RunsPast'
  BY <1>5 DEF Quiet, Remembered, RunsPast
<1>12. Spotless => Spotless'
  <2> SUFFICES ASSUME Spotless PROVE Spotless'
    OBVIOUS
  <2>1. ASSUME NEW q \in Procs, NEW run, job'[q].run = run, job'[q].pc \in Active
        PROVE  /\ job'[q].op = "claim" /\ ~job'[q].failed
               /\ Recoverable(run)' \/ run \in wiped'
    BY <1>2, <1>7, <2>1 DEF Spotless, Quiet
  <2>2. \A r, q \in Procs :
          (job'[r].pc \in Active /\ job'[q].pc \in Active /\ job'[r].run = job'[q].run) => r = q
    BY <1>2 DEF Spotless
  <2>3. \A run : Recoverable(run)' => Claiming(run)'
    BY <1>7, <1>8 DEF Spotless, Recoverable
  <2>4. \A run : (row'.paid /\ RunOf(row') = run) => row'.status = "claimed" /\ Paid(run)'
    BY <1>4, <1>5, <1>6 DEF Spotless
  <2>5. \A run \in claimed' \ wiped' : Paid(run)' \/ Recoverable(run)'
    BY <1>4, <1>7 DEF Spotless, Quiet
  <2> QED BY <2>1, <2>2, <2>3, <2>4, <2>5, SpotlessNext
<1>13. Survived => Survived'
  <2> SUFFICES ASSUME Survived PROVE Survived'
    OBVIOUS
  <2>1. \A run \in claimed' \ wiped' : Kept(run)' \/ Recoverable(run)'
    BY <1>7, <1>9 DEF Survived, Quiet
  <2>2. ASSUME NEW q \in Procs, NEW run, job'[q].pc \in Active, job'[q].run[1] = row'.id,
               job'[q].run # run, row'.status = "claimed", RunOf(row') = run
        PROVE  Kept(run)'
    BY <1>2, <1>5, <1>6, <1>9, <2>2 DEF Survived
  <2> QED BY <2>1, <2>2, SurvivedNext
<1> QED BY <1>10, <1>11, <1>12, <1>13 DEF Quiet, Remembered

\* A payment pays, and what was granted to the end is paid.
LEMMA PaysStep ==
  ASSUME IInv, Remembered, NEW p \in Procs, Pays(p)
  PROVE  Remembered'
<1> DEFINE run0 == job[p].run
<1>1. \A q \in Procs : q # p => job'[q] = job[q]
  BY DEF Pays, Held
<1>2. /\ job[p].pc \in Granting /\ job'[p].run = job[p].run /\ job'[p].op = job[p].op
      /\ ledger \subseteq ledger'
      /\ UNCHANGED <<row, claimed, wiped, resets, mishaps>>
  BY DEF Pays
<1>3. job[p].next \in Nat /\ job[p].next \in Prizes /\ Key(p) = <<job[p].run, job[p].next>>
  BY <1>2, RewardsAssumption DEF IInv, Ongoing, Begun, Prizes, Key
<1>4. \A run : Paid(run) => Paid(run)'
  BY <1>2 DEF Paid
<1>5. \A i \in Prizes : (~job[p].failed /\ i < job[p].next) => <<job[p].run, i>> \in ledger'
  BY <1>2 DEF Remembered, JobsSound
<1>6. (job'[p].pc \in Granting /\ ~job'[p].failed) =>
        \A i \in Prizes : i < job'[p].next => <<job[p].run, i>> \in ledger'
  <2> SUFFICES ASSUME job'[p].pc \in Granting, ~job'[p].failed, NEW i \in Prizes, i < job'[p].next
               PROVE  <<job[p].run, i>> \in ledger'
    OBVIOUS
  <2>1. ~job[p].failed
    BY DEF Pays, Granting
  <2>2. CASE i = job[p].next /\ Key(p) \in ledger'
    BY <1>3, <2>2
  <2>3. CASE i < job[p].next
    BY <1>5, <2>1, <2>3
  <2> QED BY <1>3, <2>2, <2>3 DEF Pays, Granting, Prizes
<1>7. ASSUME NEW run, run = job[p].run, job'[p].pc = "mark" PROVE Paid(run)'
  <2>1. ~job[p].failed /\ job[p].next = Rewards /\ Key(p) \in ledger'
    BY <1>7 DEF Pays, Granting
  <2>2. ASSUME NEW i \in Prizes PROVE <<run, i>> \in ledger'
    <3>1. i < Rewards \/ i = Rewards
      BY RewardsAssumption DEF Prizes
    <3> QED BY <1>3, <1>5, <1>7, <2>1, <3>1
  <2> QED BY <2>2 DEF Paid
<1>8. job'[p].pc \in Active \/ job[p].failed
  BY DEF Pays, Active
<1>9. job'[p].pc \in {"check", "credit", "record", "mark", "idle", "rearm"}
  BY DEF Pays, Granting
<1>10. JobsSound'
  <2>1. ASSUME NEW q \in Procs, NEW run, job'[q].run = run
        PROVE  /\ job'[q].pc = "take" => job'[q].op = "claim" /\ ~job'[q].failed /\ job'[q].next = 1
               /\ job'[q].pc \in Active => run \in claimed'
               /\ (job'[q].pc \in Granting /\ ~job'[q].failed) =>
                    \A i \in Prizes : i < job'[q].next => <<run, i>> \in ledger'
               /\ job'[q].pc = "mark" => Paid(run)'
               /\ job'[q].pc = "spend" => job'[q].seen.paid
    <3>1. CASE q = p
      <4>1. run = job[p].run /\ run \in claimed'
        BY <1>2, <2>1, <3>1 DEF Remembered, JobsSound, Active
      <4>2. job'[p].pc = "mark" => Paid(run)'
        BY <1>7, <4>1
      <4> QED BY <1>6, <1>9, <3>1, <4>1, <4>2
    <3>2. CASE q # p
      BY <1>1, <1>2, <1>4, <2>1, <3>2 DEF Remembered, JobsSound
    <3> QED BY <3>1, <3>2
  <2> QED BY <2>1, JobsSoundNext
<1>11. RunsPast'
  BY <1>2 DEF Remembered, RunsPast
<1>12. \A run : Recoverable(run)' <=> Recoverable(run)
  BY <1>2 DEF Recoverable
<1>13. Spotless => Spotless'
  <2> SUFFICES ASSUME Spotless PROVE Spotless'
    OBVIOUS
  <2>0. ~job[p].failed /\ job[p].pc \in Active /\ job'[p].pc \in Active
    BY <1>2, <1>8 DEF Spotless, Active
  <2>1. \A q \in Procs : /\ job'[q].pc \in Active => job[q].pc \in Active
                         /\ job[q].pc \in Active => job'[q].pc \in Active
                         /\ job'[q].run = job[q].run /\ job'[q].op = job[q].op
                         /\ job'[q].pc \in Active => job'[q].failed = job[q].failed
    BY <1>1, <1>2, <2>0 DEF Pays
  <2>2. ASSUME NEW q \in Procs, NEW run, job'[q].run = run, job'[q].pc \in Active
        PROVE  /\ job'[q].op = "claim" /\ ~job'[q].failed
               /\ Recoverable(run)' \/ run \in wiped'
    BY <1>2, <1>12, <2>1, <2>2 DEF Spotless
  <2>3. \A r, q \in Procs :
          (job'[r].pc \in Active /\ job'[q].pc \in Active /\ job'[r].run = job'[q].run) => r = q
    BY <2>1 DEF Spotless
  <2>4. ASSUME NEW run, Recoverable(run)' PROVE Claiming(run)'
    <3>1. Claiming(run)
      BY <1>12, <2>4 DEF Spotless, Recoverable
    <3> QED BY <2>1, <3>1 DEF Claiming, Active
  <2>5. \A run : (row'.paid /\ RunOf(row') = run) => row'.status = "claimed" /\ Paid(run)'
    BY <1>2, <1>4 DEF Spotless
  <2>6. \A run \in claimed' \ wiped' : Paid(run)' \/ Recoverable(run)'
    BY <1>2, <1>4, <1>12 DEF Spotless
  <2> QED BY <2>2, <2>3, <2>4, <2>5, <2>6, SpotlessNext
<1>14. Survived => Survived'
  <2> SUFFICES ASSUME Survived PROVE Survived'
    OBVIOUS
  <2>1. ASSUME NEW run, Kept(run) PROVE Kept(run)'
    <3>1. CASE Paid(run)
      BY <1>4, <3>1 DEF Kept
    <3>2. ASSUME NEW q \in Procs, Sure(q, run) PROVE Kept(run)'
      <4>1. CASE q # p
        BY <1>1, <3>2, <4>1 DEF Kept, Sure
      <4>2. CASE q = p /\ job'[p].pc = "mark"
        <5>1. run = job[p].run
          BY <3>2, <4>2 DEF Sure
        <5> QED BY <1>7, <4>2, <5>1 DEF Kept
      <4>3. CASE q = p /\ job'[p].pc # "mark"
        BY <1>2, <3>2, <4>3 DEF Pays, Sure, Kept
      <4> QED BY <4>1, <4>2, <4>3
    <3> QED BY <2>1, <3>1, <3>2 DEF Kept
  <2>2. \A run \in claimed' \ wiped' : Kept(run)' \/ Recoverable(run)'
    BY <1>2, <1>12, <2>1 DEF Survived
  <2>3. ASSUME NEW q \in Procs, NEW run, job'[q].pc \in Active, job'[q].run[1] = row'.id,
               job'[q].run # run, row'.status = "claimed", RunOf(row') = run
        PROVE  Kept(run)'
    <3>1. job[q].pc \in Active /\ job[q].run = job'[q].run
      BY <1>1, <1>2, <2>3 DEF Active
    <3> QED BY <1>2, <2>1, <2>3, <3>1 DEF Survived
  <2> QED BY <2>2, <2>3, SurvivedNext
<1> QED BY <1>2, <1>10, <1>11, <1>13, <1>14 DEF Remembered

\* A recovery of a run whose claim is alive and prompt does not begin.
LEMMA RecoversStep ==
  ASSUME IInv, Remembered, NEW p \in Procs, Recovers(p), Prompt
  PROVE  Remembered'
<1>1. \A q \in Procs : q # p => job'[q] = job[q]
  BY DEF Recovers, Held
<1>2. /\ UNCHANGED <<row, ledger, claimed, wiped, resets, mishaps>>
      /\ job[p].pc = "idle" /\ job'[p].pc = "check" /\ job'[p].run = RunOf(row)
      /\ ~job'[p].failed /\ job'[p].next = 1 /\ row.status = "claimed" /\ ~row.paid
  BY DEF Recovers, Overdue
<1>3. JobsSound'
  <2>1. ASSUME NEW q \in Procs, NEW run, job'[q].run = run
        PROVE  /\ job'[q].pc = "take" => job'[q].op = "claim" /\ ~job'[q].failed /\ job'[q].next = 1
               /\ job'[q].pc \in Active => run \in claimed'
               /\ (job'[q].pc \in Granting /\ ~job'[q].failed) =>
                    \A i \in Prizes : i < job'[q].next => <<run, i>> \in ledger'
               /\ job'[q].pc = "mark" => Paid(run)'
               /\ job'[q].pc = "spend" => job'[q].seen.paid
    <3>1. CASE q = p
      <4>1. run \in claimed'
        BY <1>2, <2>1, <3>1 DEF IInv, ClaimsSound
      <4>2. \A i \in Prizes : ~(i < job'[q].next)
        BY <1>2, <3>1 DEF Prizes
      <4> QED BY <1>2, <3>1, <4>1, <4>2
    <3>2. CASE q # p
      BY <1>1, <1>2, <2>1, <3>2 DEF Remembered, JobsSound, Paid
    <3> QED BY <3>1, <3>2
  <2> QED BY <2>1, JobsSoundNext
<1>4. RunsPast'
  BY <1>2 DEF Remembered, RunsPast
<1>5. ~Spotless
  BY <1>2 DEF Spotless, Recovers, Overdue
<1>6. Survived => Survived'
  <2> SUFFICES ASSUME Survived PROVE Survived'
    OBVIOUS
  <2>1. \A run : Kept(run) => Kept(run)'
    BY <1>1, <1>2, KeptStays DEF Sure, Granting
  <2>2. \A run \in claimed' \ wiped' : Kept(run)' \/ Recoverable(run)'
    BY <1>2, <2>1 DEF Survived, Recoverable
  <2>3. ASSUME NEW q \in Procs, NEW run, job'[q].pc \in Active, job'[q].run[1] = row'.id,
               job'[q].run # run, row'.status = "claimed", RunOf(row') = run
        PROVE  Kept(run)'
    <3>1. q # p /\ job[q] = job'[q]
      BY <1>1, <1>2, <2>3
    <3> QED BY <1>2, <2>1, <2>3, <3>1 DEF Survived
  <2> QED BY <2>2, <2>3, SurvivedNext
<1> QED BY <1>2, <1>3, <1>4, <1>5, <1>6 DEF Remembered

\* A claim takes a run that nobody claimed, of a row that is not paid.
LEMMA TakesStep ==
  ASSUME IInv, Remembered, NEW p \in Procs, Takes(p)
  PROVE  Remembered'
<1>0. PICK new : new = RunOf(row)
  OBVIOUS
<1>1. \A q \in Procs : q # p => job'[q] = job[q]
  BY DEF Takes, Held
<1>2. /\ UNCHANGED <<ledger, wiped, resets, mishaps>>
      /\ job[p].pc = "take" /\ job'[p].pc = "check" /\ job'[p].run = new
      /\ job'[p].op = "claim" /\ ~job'[p].failed /\ job'[p].next = 1
      /\ row.status = "completed" /\ row'.status = "claimed" /\ row'.id = row.id
      /\ row'.claims = row.claims /\ row'.paid = row.paid
      /\ claimed' = claimed \cup {new}
  BY <1>0 DEF Takes, Remembered, JobsSound
<1>3. /\ new[1] = row.id /\ new[2] = row.claims /\ row.id = resets + 1 /\ resets \in Nat
      /\ row.claims \in Nat /\ RunOf(row') = new /\ Exists(row')
  BY <1>0, <1>2, RunsTyped DEF RunOf, Exists
<1>4. new \notin claimed
  BY <1>2, <1>3 DEF Remembered, RunsPast
<1>5. \A run : ~Recoverable(run)
  BY <1>2 DEF Recoverable
<1>6. \A run : Paid(run)' <=> Paid(run)
  BY <1>2 DEF Paid
<1>7. Sure(p, new)' /\ Claiming(new)'
  BY <1>2 DEF Sure, Claiming, Granting
<1>8. Kept(new)'
  BY <1>7 DEF Kept
<1>9. JobsSound'
  <2>1. ASSUME NEW q \in Procs, NEW run, job'[q].run = run
        PROVE  /\ job'[q].pc = "take" => job'[q].op = "claim" /\ ~job'[q].failed /\ job'[q].next = 1
               /\ job'[q].pc \in Active => run \in claimed'
               /\ (job'[q].pc \in Granting /\ ~job'[q].failed) =>
                    \A i \in Prizes : i < job'[q].next => <<run, i>> \in ledger'
               /\ job'[q].pc = "mark" => Paid(run)'
               /\ job'[q].pc = "spend" => job'[q].seen.paid
    <3>1. CASE q = p
      <4>1. \A i \in Prizes : ~(i < job'[q].next)
        BY <1>2, <3>1 DEF Prizes
      <4> QED BY <1>2, <2>1, <3>1, <4>1
    <3>2. CASE q # p
      BY <1>1, <1>2, <1>6, <2>1, <3>2 DEF Remembered, JobsSound
    <3> QED BY <3>1, <3>2
  <2> QED BY <2>1, JobsSoundNext
<1>10. RunsPast'
  <2>1. ASSUME NEW run \in claimed'
        PROVE  /\ run[1] <= resets' + 1
               /\ run[1] = resets' + 1 =>
                    /\ Exists(row')
                    /\ run[2] < row'.claims \/ (run[2] = row'.claims /\ row'.status = "claimed")
    <3>1. CASE run = new
      BY <1>2, <1>3, <3>1
    <3>2. CASE run \in claimed
      BY <1>2, <1>3, <3>2 DEF Remembered, RunsPast
    <3> QED BY <1>2, <3>1, <3>2
  <2>2. \A run \in wiped' : run[1] <= resets'
    BY <1>2 DEF Remembered, RunsPast
  <2> QED BY <2>1, <2>2 DEF RunsPast
<1>11. Spotless => Spotless'
  <2> SUFFICES ASSUME Spotless PROVE Spotless'
    OBVIOUS
  <2>0. ~row.paid
    BY <1>2 DEF Spotless
  <2>1. \A q \in Procs : (q # p /\ job'[q].pc \in Active) => job[q].pc \in Active /\ job[q].run \in claimed
    BY <1>1 DEF Remembered, JobsSound
  <2>2. ASSUME NEW q \in Procs, NEW run, job'[q].run = run, job'[q].pc \in Active
        PROVE  /\ job'[q].op = "claim" /\ ~job'[q].failed
               /\ Recoverable(run)' \/ run \in wiped'
    <3>1. CASE q = p
      BY <1>2, <1>3, <2>0, <2>2, <3>1 DEF Recoverable
    <3>2. CASE q # p
      BY <1>1, <1>2, <1>5, <2>1, <2>2, <3>2 DEF Spotless
    <3> QED BY <3>1, <3>2
  <2>3. \A r, q \in Procs :
          (job'[r].pc \in Active /\ job'[q].pc \in Active /\ job'[r].run = job'[q].run) => r = q
    BY <1>1, <1>2, <1>4, <2>1 DEF Spotless
  <2>4. \A run : Recoverable(run)' => Claiming(run)'
    BY <1>3, <1>7 DEF Recoverable
  <2>5. \A run : (row'.paid /\ RunOf(row') = run) => row'.status = "claimed" /\ Paid(run)'
    BY <1>2, <2>0
  <2>6. \A run \in claimed' \ wiped' : Paid(run)' \/ Recoverable(run)'
    <3>1. Recoverable(new)'
      BY <1>2, <1>3, <2>0 DEF Recoverable
    <3> QED BY <1>2, <1>5, <1>6, <3>1 DEF Spotless
  <2> QED BY <2>2, <2>3, <2>4, <2>5, <2>6, SpotlessNext
<1>12. Survived => Survived'
  <2> SUFFICES ASSUME Survived PROVE Survived'
    OBVIOUS
  <2>1. \A run : Kept(run) => Kept(run)'
    BY <1>1, <1>2, KeptStays DEF Sure, Granting
  <2>2. \A run \in claimed' \ wiped' : Kept(run)' \/ Recoverable(run)'
    BY <1>2, <1>5, <1>8, <2>1 DEF Survived
  <2>3. ASSUME NEW q \in Procs, NEW run, job'[q].pc \in Active, job'[q].run[1] = row'.id,
               job'[q].run # run, row'.status = "claimed", RunOf(row') = run
        PROVE  Kept(run)'
    BY <1>3, <1>8, <2>3
  <2> QED BY <2>2, <2>3, SurvivedNext
<1> QED BY <1>2, <1>9, <1>10, <1>11, <1>12 DEF Remembered

\* A mark is of a paid run, and while nothing has happened of the row's own.
LEMMA MarksStep ==
  ASSUME IInv, Remembered, NEW p \in Procs, Marks(p)
  PROVE  Remembered'
<1>1. \A q \in Procs : q # p => job'[q] = job[q]
  BY DEF Marks, Held
<1>2. /\ UNCHANGED <<ledger, claimed, wiped, resets, mishaps>>
      /\ job[p].pc = "mark" /\ job'[p].pc \in {"idle", "rearm"}
      /\ row'.status = row.status /\ row'.id = row.id /\ row'.claims = row.claims
      /\ row'.paid = (row.paid \/ row.id = job[p].run[1])
  BY DEF Marks
<1>3. /\ RunOf(row') = RunOf(row) /\ RunOf(row)[1] = row.id /\ (Exists(row') <=> Exists(row))
      /\ resets \in Nat
      /\ row.id = job[p].run[1] => row.id = resets + 1
  BY <1>2, RunsTyped DEF RunOf, Exists
<1>4. job'[p].pc \notin Active /\ job[p].pc \in Active
  BY <1>2 DEF Active, Granting
<1>5. \A run : Paid(run)' <=> Paid(run)
  BY <1>2 DEF Paid
<1>6. \A run : run = job[p].run => Paid(run)
  BY <1>2 DEF Remembered, JobsSound
<1>7. \A q \in Procs : job'[q].pc \in Active => q # p /\ job[q].pc \in Active /\ job'[q] = job[q]
  BY <1>1, <1>4
<1>8. JobsSound'
  <2>1. ASSUME NEW q \in Procs, NEW run, job'[q].run = run
        PROVE  /\ job'[q].pc = "take" => job'[q].op = "claim" /\ ~job'[q].failed /\ job'[q].next = 1
               /\ job'[q].pc \in Active => run \in claimed'
               /\ (job'[q].pc \in Granting /\ ~job'[q].failed) =>
                    \A i \in Prizes : i < job'[q].next => <<run, i>> \in ledger'
               /\ job'[q].pc = "mark" => Paid(run)'
               /\ job'[q].pc = "spend" => job'[q].seen.paid
    <3>1. CASE q = p
      BY <1>2, <3>1 DEF Active, Granting
    <3>2. CASE q # p
      BY <1>1, <1>2, <1>5, <2>1, <3>2 DEF Remembered, JobsSound
    <3> QED BY <3>1, <3>2
  <2> QED BY <2>1, JobsSoundNext
<1>9. RunsPast'
  BY <1>2, <1>3 DEF Remembered, RunsPast
<1>10. \A run : Recoverable(run)' <=> Recoverable(run) /\ row.id # job[p].run[1]
  BY <1>2, <1>3 DEF Recoverable
<1>11. Spotless => Spotless'
  <2> SUFFICES ASSUME Spotless PROVE Spotless'
    OBVIOUS
  <2>1. row.id = job[p].run[1] => Recoverable(job[p].run)
    BY <1>2, <1>3, <1>4 DEF Spotless, Remembered, RunsPast
  <2>2. ASSUME NEW run, Recoverable(run) PROVE Recoverable(run)' \/ Paid(run)
    BY <1>6, <1>10, <2>1, <2>2 DEF Recoverable
  <2>3. ASSUME NEW q \in Procs, NEW run, job'[q].run = run, job'[q].pc \in Active
        PROVE  /\ job'[q].op = "claim" /\ ~job'[q].failed
               /\ Recoverable(run)' \/ run \in wiped'
    <3>1. job[q].pc \in Active /\ job[q].run = run /\ q # p
      BY <1>7, <2>3
    <3>2. run # job[p].run
      BY <1>4, <3>1 DEF Spotless
    <3>3. Recoverable(run) => row.id # job[p].run[1]
      BY <2>1, <3>2 DEF Recoverable
    <3> QED BY <1>2, <1>7, <1>10, <2>3, <3>1, <3>3 DEF Spotless
  <2>4. \A r, q \in Procs :
          (job'[r].pc \in Active /\ job'[q].pc \in Active /\ job'[r].run = job'[q].run) => r = q
    BY <1>7 DEF Spotless
  <2>5. ASSUME NEW run, Recoverable(run)' PROVE Claiming(run)'
    <3>1. Claiming(run) /\ run[1] # job[p].run[1]
      BY <1>3, <1>10, <2>5 DEF Spotless, Recoverable
    <3> QED BY <1>1, <3>1 DEF Claiming
  <2>6. ASSUME NEW run, row'.paid, RunOf(row') = run
        PROVE  row'.status = "claimed" /\ Paid(run)'
    <3>1. CASE row.paid
      BY <1>2, <1>3, <1>5, <2>6, <3>1 DEF Spotless
    <3>2. CASE row.id = job[p].run[1]
      BY <1>2, <1>3, <1>5, <1>6, <2>1, <2>6, <3>2 DEF Recoverable
    <3> QED BY <1>2, <2>6, <3>1, <3>2
  <2>7. \A run \in claimed' \ wiped' : Paid(run)' \/ Recoverable(run)'
    BY <1>2, <1>5, <2>2 DEF Spotless
  <2> QED BY <2>3, <2>4, <2>5, <2>6, <2>7, SpotlessNext
<1>12. Survived => Survived'
  <2> SUFFICES ASSUME Survived PROVE Survived'
    OBVIOUS
  <2>1. \A run : Kept(run) => Kept(run)'
    BY <1>1, <1>2, KeptStays DEF Sure, Granting
  <2>2. ASSUME NEW run, Recoverable(run), row.id = job[p].run[1] PROVE Kept(run)
    <3>1. row.status = "claimed" /\ run = RunOf(row)
      BY <2>2 DEF Recoverable
    <3>2. CASE job[p].run = run
      BY <1>6, <3>2 DEF Kept
    <3>3. CASE job[p].run # run
      BY <1>4, <2>2, <3>1, <3>3 DEF Survived
    <3> QED BY <3>2, <3>3
  <2>3. \A run \in claimed' \ wiped' : Kept(run)' \/ Recoverable(run)'
    BY <1>2, <1>10, <2>1, <2>2 DEF Survived
  <2>4. ASSUME NEW q \in Procs, NEW run, job'[q].pc \in Active, job'[q].run[1] = row'.id,
               job'[q].run # run, row'.status = "claimed", RunOf(row') = run
        PROVE  Kept(run)'
    BY <1>2, <1>3, <1>7, <2>1, <2>4 DEF Survived
  <2> QED BY <2>3, <2>4, SurvivedNext
<1> QED BY <1>2, <1>8, <1>9, <1>11, <1>12 DEF Remembered

\* A re-arming spends a run that its row said was paid.
LEMMA SpendsStep ==
  ASSUME IInv, Remembered, NEW p \in Procs, Spends(p)
  PROVE  Remembered'
<1>1. \A q \in Procs : q # p => job'[q] = job[q]
  BY DEF Spends, Held
<1>2. /\ UNCHANGED <<ledger, claimed, wiped, resets, mishaps>>
      /\ job[p].pc = "spend" /\ job'[p].pc \in {"idle", "target"}
      /\ row.paid /\ row.status = "claimed" /\ ~row'.paid
      /\ row'.status \in {"completed", "active"} /\ row'.id = row.id
      /\ row'.claims = row.claims + 1
  BY DEF Spends, Remembered, JobsSound
<1>3. job'[p].pc \notin Active /\ job[p].pc \notin Active /\ Exists(row) /\ Exists(row')
  BY <1>2 DEF Active, Granting, Exists
<1>4. \A run : Paid(run)' <=> Paid(run)
  BY <1>2 DEF Paid
<1>5. \A run : ~Recoverable(run) /\ ~Recoverable(run)'
  BY <1>2 DEF Recoverable
<1>6. \A q \in Procs : job'[q].pc \in Active => job[q].pc \in Active /\ job'[q] = job[q]
  BY <1>1, <1>3
<1>7. JobsSound'
  <2>1. ASSUME NEW q \in Procs, NEW run, job'[q].run = run
        PROVE  /\ job'[q].pc = "take" => job'[q].op = "claim" /\ ~job'[q].failed /\ job'[q].next = 1
               /\ job'[q].pc \in Active => run \in claimed'
               /\ (job'[q].pc \in Granting /\ ~job'[q].failed) =>
                    \A i \in Prizes : i < job'[q].next => <<run, i>> \in ledger'
               /\ job'[q].pc = "mark" => Paid(run)'
               /\ job'[q].pc = "spend" => job'[q].seen.paid
    <3>1. CASE q = p
      BY <1>2, <3>1 DEF Active, Granting
    <3>2. CASE q # p
      BY <1>1, <1>2, <1>4, <2>1, <3>2 DEF Remembered, JobsSound
    <3> QED BY <3>1, <3>2
  <2> QED BY <2>1, JobsSoundNext
<1>8. RunsPast'
  BY <1>2, <1>3, RunsTyped DEF Remembered, RunsPast
<1>9. Spotless => Spotless'
  <2> SUFFICES ASSUME Spotless PROVE Spotless'
    OBVIOUS
  <2>1. \A run : \A q \in Procs : (job'[q].run = run /\ job'[q].pc \in Active) =>
               /\ job'[q].op = "claim" /\ ~job'[q].failed
               /\ Recoverable(run)' \/ run \in wiped'
    BY <1>2, <1>5, <1>6 DEF Spotless
  <2>2. \A r, q \in Procs :
          (job'[r].pc \in Active /\ job'[q].pc \in Active /\ job'[r].run = job'[q].run) => r = q
    BY <1>6 DEF Spotless
  <2>3. \A run \in claimed' \ wiped' : Paid(run)' \/ Recoverable(run)'
    BY <1>2, <1>4, <1>5 DEF Spotless
  <2> QED BY <1>2, <1>5, <2>1, <2>2, <2>3, SpotlessNext
<1>10. Survived => Survived'
  <2> SUFFICES ASSUME Survived PROVE Survived'
    OBVIOUS
  <2>1. \A run : Kept(run) => Kept(run)'
    BY <1>1, <1>2, <1>3, KeptStays DEF Sure, Active
  <2>2. \A run \in claimed' \ wiped' : Kept(run)' \/ Recoverable(run)'
    BY <1>2, <1>5, <2>1 DEF Survived
  <2> QED BY <1>2, <2>2, SurvivedNext
<1> QED BY <1>2, <1>7, <1>8, <1>9, <1>10 DEF Remembered

\* A reset takes the row's run with it, and what is claimed later has a newer row.
LEMMA ResetStep ==
  ASSUME IInv, Remembered, Reset
  PROVE  Remembered'
<1>1. /\ Exists(row) /\ row' = NoRow /\ resets' = resets + 1
      /\ UNCHANGED <<job, ledger, claimed, mishaps>>
      /\ wiped \subseteq wiped'
      /\ \A run \in wiped' : run \in wiped \/ (row.status = "claimed" /\ run = RunOf(row))
      /\ row.status = "claimed" => RunOf(row) \in wiped'
  BY DEF Reset
<1>2. /\ row.id = resets + 1 /\ resets \in Nat /\ RunOf(row)[1] = row.id
      /\ row'.status = "none" /\ ~row'.paid
      /\ \A run \in claimed : run[1] \in Nat
  BY <1>1, RunsTyped DEF RunOf, NoRow
<1>3. \A run : Paid(run)' <=> Paid(run)
  BY <1>1 DEF Paid
<1>4. \A run : /\ ~Recoverable(run)'
               /\ Recoverable(run) => run \in wiped'
  BY <1>1, <1>2 DEF Recoverable
<1>5. JobsSound'
  BY <1>1 DEF Remembered, JobsSound, Paid
<1>6. RunsPast'
  <2>1. \A run \in claimed' : run[1] <= resets' /\ run[1] # resets' + 1
    BY <1>1, <1>2 DEF Remembered, RunsPast
  <2>2. ASSUME NEW run \in wiped' PROVE run[1] <= resets'
    <3>1. CASE run \in wiped
      <4>1. run[1] \in Nat
        BY <3>1 DEF IInv, TypeOK, Runs, Ids
      <4> QED BY <1>1, <1>2, <3>1, <4>1 DEF Remembered, RunsPast
    <3>2. CASE run = RunOf(row)
      BY <1>1, <1>2, <3>2
    <3> QED BY <1>1, <3>1, <3>2
  <2>3. \A run \in claimed' : run[1] <= resets' + 1
    BY <1>1, <1>2, <2>1
  <2> QED BY <2>1, <2>2, <2>3 DEF RunsPast
<1>7. Spotless => Spotless'
  <2> SUFFICES ASSUME Spotless PROVE Spotless'
    OBVIOUS
  <2>1. \A run : \A q \in Procs : (job'[q].run = run /\ job'[q].pc \in Active) =>
               /\ job'[q].op = "claim" /\ ~job'[q].failed
               /\ Recoverable(run)' \/ run \in wiped'
    BY <1>1, <1>4 DEF Spotless
  <2>2. \A r, q \in Procs :
          (job'[r].pc \in Active /\ job'[q].pc \in Active /\ job'[r].run = job'[q].run) => r = q
    BY <1>1 DEF Spotless
  <2>3. \A run \in claimed' \ wiped' : Paid(run)' \/ Recoverable(run)'
    BY <1>1, <1>3, <1>4 DEF Spotless
  <2> QED BY <1>2, <1>4, <2>1, <2>2, <2>3, SpotlessNext
<1>8. Survived => Survived'
  <2> SUFFICES ASSUME Survived PROVE Survived'
    OBVIOUS
  <2>1. \A run : Kept(run) => Kept(run)'
    BY <1>1, KeptStays
  <2>2. \A run \in claimed' \ wiped' : Kept(run)' \/ Recoverable(run)'
    BY <1>1, <1>4, <2>1 DEF Survived
  <2> QED BY <1>2, <2>2, SurvivedNext
<1> QED BY <1>1, <1>5, <1>6, <1>7, <1>8 DEF Remembered

\* The first mishap leaves what its process did not pay to a recovery.
LEMMA MishapStep ==
  ASSUME IInv, Remembered, NEW p \in Procs, Mishap(p)
  PROVE  Remembered'
<1>1. \A q \in Procs : q # p => job'[q] = job[q]
  BY DEF Mishap, Held
<1>2. /\ UNCHANGED <<row, ledger, claimed, wiped, resets>> /\ mishaps' = mishaps + 1
      /\ mishaps \in Nat
  BY RunsTyped DEF Mishap
<1>3. \/ job'[p].pc \in {"idle", "rearm"}
      \/ /\ job'[p].pc = "check" /\ job'[p].failed
         /\ job[p].pc \in Granting /\ job'[p].run = job[p].run
  BY DEF Mishap
<1>4. \A q \in Procs : job'[q].pc \in Active => job[q].pc \in Active /\ job'[q].run = job[q].run
  BY <1>1, <1>3 DEF Active, Granting
<1>5. JobsSound'
  <2>1. ASSUME NEW q \in Procs, NEW run, job'[q].run = run
        PROVE  /\ job'[q].pc = "take" => job'[q].op = "claim" /\ ~job'[q].failed /\ job'[q].next = 1
               /\ job'[q].pc \in Active => run \in claimed'
               /\ (job'[q].pc \in Granting /\ ~job'[q].failed) =>
                    \A i \in Prizes : i < job'[q].next => <<run, i>> \in ledger'
               /\ job'[q].pc = "mark" => Paid(run)'
               /\ job'[q].pc = "spend" => job'[q].seen.paid
    <3>1. CASE q = p
      <4>1. job'[q].pc \in Active => run \in claimed'
        BY <1>2, <1>4, <2>1 DEF Remembered, JobsSound
      <4> QED BY <1>3, <3>1, <4>1 DEF Granting
    <3>2. CASE q # p
      BY <1>1, <1>2, <2>1, <3>2 DEF Remembered, JobsSound, Paid
    <3> QED BY <3>1, <3>2
  <2> QED BY <2>1, JobsSoundNext
<1>6. RunsPast'
  BY <1>2 DEF Remembered, RunsPast
<1>7. ASSUME mishaps = 0 PROVE Survived'
  <2>0. Spotless /\ RunsPast
    BY <1>7 DEF Remembered
  <2>1. \A run \in claimed' \ wiped' : Kept(run)' \/ Recoverable(run)'
    BY <1>2, <2>0 DEF Spotless, Recoverable, Kept, Paid
  <2>2. ASSUME NEW q \in Procs, NEW run, job'[q].pc \in Active, job'[q].run[1] = row'.id,
               job'[q].run # run, row'.status = "claimed", RunOf(row') = run
        PROVE  Kept(run)'
    <3>1. job[q].pc \in Active /\ job[q].run[1] = row.id /\ job[q].run # RunOf(row)
      BY <1>2, <1>4, <2>2
    <3>2. job[q].run \in wiped
      BY <2>0, <3>1 DEF Spotless, Recoverable
    <3>3. row.id <= resets
      BY <2>0, <3>1, <3>2 DEF RunsPast
    <3>4. row.id = resets + 1 /\ resets \in Nat
      BY <1>2, <2>2, RunsTyped DEF Exists
    <3> QED BY <3>3, <3>4
  <2> QED BY <2>1, <2>2, SurvivedNext
<1> QED BY <1>2, <1>5, <1>6, <1>7 DEF Remembered

-----------------------------------------------------------------------------
LEMMA InitRemembered == Init => Remembered
<1> SUFFICES ASSUME Init PROVE Remembered
  OBVIOUS
<1>1. \A p \in Procs : job[p].pc = "idle" /\ job[p].pc \notin Active
  BY DEF Init, Idle, Active, Granting
<1>2. row.status = "none" /\ ~row.paid /\ claimed = {} /\ wiped = {}
  BY DEF Init, NoRow
<1>3. JobsSound
  BY <1>1 DEF JobsSound, Active
<1> QED BY <1>1, <1>2, <1>3 DEF Init, Remembered, RunsPast, Spotless

LEMMA NextRemembered ==
  ASSUME Prompt
  PROVE  IInv /\ Remembered /\ [Next]_vars => Remembered'
<1> SUFFICES ASSUME IInv, Remembered, [Next]_vars PROVE Remembered'
  OBVIOUS
<1>1. CASE Next
  BY <1>1, StepKinds, QuietStep, PaysStep, RecoversStep, TakesStep, MarksStep, SpendsStep,
     MishapStep, ResetStep
<1>2. CASE UNCHANGED vars
  <2>1. UNCHANGED <<row, ledger, job, claimed, wiped, resets, mishaps>>
    BY <1>2 DEF vars
  <2>2. JobsSound' /\ RunsPast'
    BY <2>1 DEF Remembered, JobsSound, RunsPast, Paid
  <2>3. Spotless => Spotless'
    BY <2>1 DEF Spotless, Paid, Recoverable, Claiming
  <2>4. Survived => Survived'
    BY <2>1 DEF Survived, Recoverable, Kept, Paid, Sure
  <2> QED BY <2>1, <2>2, <2>3, <2>4 DEF Remembered
<1> QED BY <1>1, <1>2

\* A run is kept if it is remembered.
LEMMA RememberedAll == IInv /\ Remembered => RunsRemembered
<1> SUFFICES ASSUME IInv, Remembered, mishaps <= 1, NEW run \in claimed \ wiped
             PROVE  Paid(run) \/ Paying(run) \/ Recoverable(run)
  BY DEF RunsRemembered
<1>1. CASE mishaps = 0
  BY <1>1 DEF Remembered, Spotless
<1>2. CASE mishaps = 1
  BY <1>2 DEF Remembered, Survived, Kept, Sure, Paying
<1> QED BY <1>1, <1>2, RunsTyped

-----------------------------------------------------------------------------

\* A product grows with its factor.
LEMMA Longer ==
  ASSUME NEW m \in Nat, NEW n \in Nat, m >= n
  PROVE  m * Target >= n * Target
<1>1. PICK d \in Nat : m = n + d
  <2>1. m - n \in Nat /\ m = n + (m - n)
    OBVIOUS
  <2> QED BY <2>1
<1>2. m * Target = n * Target + d * Target
  BY <1>1, TargetAssumption
<1>3. d * Target \in Nat /\ n * Target \in Nat
  BY TargetAssumption
<1> QED BY <1>2, <1>3

\* No row pays for more runs than its progress holds: entries are of distinct claimed
\* runs, and the latest one's worth has landed.
LEMMA EarnedBound ==
  ASSUME IInv, NEW i \in Prizes, NEW id \in Ids
  PROVE  Cardinality(EntriesOf(id, i)) * Target <= landed[id]
<1> DEFINE S == EntriesOf(id, i)
           n == Cardinality(S)
<1>1. /\ IsFiniteSet(ledger) /\ ledger \subseteq Runs \X Prizes /\ landed[id] \in Nat
      /\ ClaimsSound
  BY DEF IInv, Summed, TypeOK
<1>2. IsFiniteSet(S) /\ n \in Nat
  BY <1>1, FS_Subset, FS_CardinalityType DEF EntriesOf
<1> SUFFICES ASSUME n * Target > landed[id] PROVE FALSE
  BY <1>1, <1>2, TargetAssumption
<1>3. ASSUME NEW k \in S
      PROVE  k[1][2] \in Nat /\ k[1][2] + 1 < n
  <2>1. /\ k[1] \in claimed /\ k[1][1] = id /\ k[1][2] \in Nat
    BY <1>1, <1>3 DEF EntriesOf, ClaimsSound, Runs
  <2>2. (k[1][2] + 1) * Target <= landed[id]
    BY <1>1, <2>1 DEF ClaimsSound
  <2>3. CASE k[1][2] + 1 >= n
    <3> DEFINE m == k[1][2] + 1
    <3>1. m \in Nat /\ m >= n
      BY <2>1, <2>3
    <3> HIDE DEF n
    <3>2. m * Target >= n * Target
      BY <1>2, <3>1, Longer
    <3>3. m * Target \in Nat /\ n * Target \in Nat
      BY <1>2, <3>1, TargetAssumption
    <3> QED BY <1>1, <2>2, <3>2, <3>3
  <2> QED BY <1>2, <2>1, <2>3
<1> DEFINE f == [k \in S |-> k[1][2] + 1]
           B == 1..(n - 1)
<1>4. f \in Injection(S, B)
  <2>1. f \in [S -> B]
    BY <1>2, <1>3
  <2>2. \A j, k \in S : f[j] = f[k] => j = k
    <3> SUFFICES ASSUME NEW j \in S, NEW k \in S, f[j] = f[k] PROVE j = k
      OBVIOUS
    <3>1. j[1][2] = k[1][2]
      BY <1>3
    <3>2. /\ j \in Runs \X Prizes /\ j[1][1] = id /\ j[2] = i
          /\ k \in Runs \X Prizes /\ k[1][1] = id /\ k[2] = i
      BY <1>1 DEF EntriesOf
    <3> QED BY <3>1, <3>2 DEF Runs
  <2> QED BY <2>1, <2>2 DEF Injection, IsInjective
<1>5. IsFiniteSet(B) /\ Cardinality(B) = IF 1 > n - 1 THEN 0 ELSE n - 1
  <2> HIDE DEF n
  <2>1. n - 1 \in Int /\ 1 \in Int /\ (n - 1) - 1 + 1 = n - 1
    BY <1>2
  <2>2. IsFiniteSet(B) /\ Cardinality(B) = IF 1 > n - 1 THEN 0 ELSE (n - 1) - 1 + 1
    BY <2>1, FS_Interval, Zenon
  <2> QED BY <2>1, <2>2
<1> HIDE DEF S, f, B
<1>6. Cardinality(S) <= Cardinality(B)
  BY <1>4, <1>5, FS_Injection
<1>7. n = 0
  BY <1>2, <1>5, <1>6
<1> QED BY <1>1, <1>7, TargetAssumption

-----------------------------------------------------------------------------
\* The row, the wallet, the ledger and what each process holds keep their types.
THEOREM TypeCorrect == Spec => []TypeOK
BY Invariant, PTL DEF IInv

\* No increment of progress is lost or counted twice, whichever events, claims and
\* re-armings race on the row without a lock.
THEOREM ProgressKeptHolds == Spec => []ProgressKept
BY Invariant, PTL DEF IInv

\* A run pays each reward once, and no row pays for more runs than its progress holds.
THEOREM PaidAsEarnedHolds == Spec => []PaidAsEarned
<1>1. IInv => PaidAsEarned
  BY EarnedBound DEF PaidAsEarned, IInv, Summed
<1> QED BY <1>1, Invariant, PTL

\* If live claims pay within the grace of a recovery, a claimed run is never forgotten,
\* for any number of processes and rewards: until a second mishap it is paid, or being
\* paid, or its row shows a recovery that it is not (quests.ex:1262-1265).
THEOREM RunsRememberedHolds ==
  ASSUME Prompt
  PROVE  Spec => []RunsRemembered
<1>1. IInv /\ Remembered /\ [Next]_vars => Remembered'
  BY NextRemembered
<1> QED BY <1>1, Invariant, InitRemembered, RememberedAll, PTL DEF Spec
=============================================================================
