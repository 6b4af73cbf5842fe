------------------------------- MODULE Matcher -------------------------------
(***************************************************************************)
(* Gamend.Matchmaking.Matcher, and seatable?/1 of Gamend.Matchmaking: how a*)
(* sweep packs the queued tickets of one bucket into matches.  A ticket is *)
(* its place in the queue, a group or a match a set of tickets, and a list *)
(* of groups a set, for it is kept in the order of their oldest.  A step is*)
(* one find_match/3; form_matches/2 is the whole behaviour.                *)
(***************************************************************************)
EXTENDS Integers, Sequences, SequencesExt, FiniteSets, FiniteSetsExt

CONSTANTS
  Kinds,        \* the units that queue: a player, a party, the host of a lobby
  MaxUnits,     \* bound: how many units are queued
  MaxBlocks     \* bound: how many pairs have blocked each other

\* A unit has so many tickets, each bringing size players (a lobby's members)
\* and, if it fills a lobby, the lobby's capacity, else 0.  It asks for a match of
\* min to max players, whatever the others ask for.
ASSUME KindsAssumption ==
  \A k \in Kinds : /\ k.tickets \in Nat \ {0} /\ k.size \in Nat \ {0} /\ k.capacity \in Nat
                  /\ k.min \in Nat \ {0} /\ k.max \in Nat /\ k.min <= k.max
ASSUME BucketAssumption == MaxUnits \in Nat /\ MaxBlocks \in Nat

VARIABLES
  tickets,      \* of the bucket, oldest first
  blocked,      \* the pairs of tickets whose players have blocked each other
  overdue,      \* how many of the oldest have waited their timeout
  groups,       \* the groups left to match
  matches,      \* the matches formed
  done

bucketVars == <<tickets, blocked, overdue, groups, matches, done>>

-----------------------------------------------------------------------------
\* What a bucket is.

Bucket(units) ==
  FlattenSeq([u \in DOMAIN units |->
    [i \in 1..units[u].tickets |->
       [unit |-> u, size |-> units[u].size, capacity |-> units[u].capacity,
        min |-> units[u].min, max |-> units[u].max]]])

\* group_tickets/1: the tickets of a party are one group, and its place in the queue
\* that of its oldest.
Singles(ts) == {{i} : i \in DOMAIN ts}                    \* a mutant
GroupTickets(ts) ==
  LET unit(i) == {j \in DOMAIN ts : ts[j].unit = ts[i].unit}
  IN  {unit(i) : i \in DOMAIN ts}
Oldest(g) == Min(g)
NewestFirst(gs, n) == UNION {g \in gs : Oldest(g) = Len(tickets) + 1 - n}  \* a mutant
GroupAt(gs, n) == UNION {g \in gs : Oldest(g) = n}

BucketInit ==
  \E n \in 1..MaxUnits : \E units \in [1..n -> Kinds] :
    /\ tickets = Bucket(units)
    /\ LET strangers == {p \in kSubset(2, DOMAIN tickets) :
                           \A i, j \in p : i # j => tickets[i].unit # tickets[j].unit}
       IN  \E b \in 0..MaxBlocks : blocked \in kSubset(b, strangers)
    /\ overdue \in 0..Len(tickets)
    /\ groups = GroupTickets(tickets)
    /\ matches = <<>>
    /\ done = FALSE

-----------------------------------------------------------------------------
\* Whether tickets go together.

\* size/1, count/1: each player is one of those a ticket brings.
Players(S) == Cardinality(UNION {{i} \X (1..tickets[i].size) : i \in S})

\* target_ticket/1 and seatable?/1: the lobby with others in it, else the oldest.
Backfill(S) == {i \in S : tickets[i].capacity # 0}
Crowded(S) == {i \in Backfill(S) : tickets[i].size > 1}
OldestLobby(S) == Min(Backfill(S))                       \* a mutant
Target(S) == IF Crowded(S) # {} THEN Min(Crowded(S)) ELSE Min(Backfill(S))
Seatable(S) ==
  /\ Cardinality(Crowded(S)) <= 1
  /\ Backfill(S) # {} => Players(S) <= tickets[Target(S)].capacity

Compatible(g, S) == \A i \in g, j \in S : {i, j} \notin blocked

\* pack/3: each group in turn, if it still fits with those taken.
Fits(g, S, max) == Players(S) + Players(g) <= max /\ Compatible(g, S) /\ Seatable(S \cup g)
Take(g, S, max) == IF Fits(g, S, max) THEN S \cup g ELSE S
Pack(gs, max) ==
  LET taken[n \in 0..Len(tickets)] ==
        IF n = 0 THEN {} ELSE Take(GroupAt(gs, n), taken[n - 1], max)
  IN  taken[Len(tickets)]

-----------------------------------------------------------------------------
\* find_match/3: the first anchor that makes a match, the oldest of a group, ...

Anchors(gs) == {Oldest(g) : g \in gs}
From(gs, a) == {g \in gs : Oldest(g) >= a}
Packed(gs, a) == Pack(From(gs, a), tickets[a].max)
FullOnly(gs, a) ==                                       \* a mutant
  LET size == Players(Packed(gs, a)) IN size = tickets[a].max \/ a <= overdue
Makes(gs, a) ==
  LET size == Players(Packed(gs, a))
  IN  size >= tickets[a].min /\ (size = tickets[a].max \/ a <= overdue)

\* ... unless an earlier one takes in everybody and is still short.
TooFew(gs, a) == Players(Packed(gs, a)) < tickets[a].min   \* a mutant
GivesUp(gs, a) ==
  /\ Players(Packed(gs, a)) < tickets[a].min
  /\ UNION From(gs, a) \subseteq Packed(gs, a)

FindMatch(gs) ==
  LET stops == {a \in Anchors(gs) : Makes(gs, a) \/ GivesUp(gs, a)}
  IN  IF stops # {} /\ Makes(gs, Min(stops)) THEN Packed(gs, Min(stops)) ELSE {}

\* The groups not in the match, as they were.
Rest(gs, m) == {g \in gs : ~(g \subseteq m)}

\* do_form_matches/3
FormMatch ==
  /\ ~done
  /\ LET m == FindMatch(groups) IN
     IF m = {} THEN done' = TRUE /\ UNCHANGED <<groups, matches>>
     ELSE /\ matches' = Append(matches, m)
          /\ groups' = Rest(groups, m)
          /\ UNCHANGED done
  /\ UNCHANGED <<tickets, blocked, overdue>>

BucketNext == FormMatch
BucketSpec == BucketInit /\ [][BucketNext]_bucketVars

-----------------------------------------------------------------------------
\* Properties.

\* A party is seated together or stays queued together, nobody is seated twice, and
\* nobody gets lost (matcher.ex:6-9).
UnitOf(i) == {j \in DOMAIN tickets : tickets[j].unit = tickets[i].unit}
Everybody == groups \cup Range(matches)
PartiesWhole ==
  /\ UNION Everybody = DOMAIN tickets
  /\ \A A \in Everybody, i \in DOMAIN tickets : i \in A => UnitOf(i) \subseteq A
  /\ \A m, n \in DOMAIN matches : m # n => matches[m] \cap matches[n] = {}
  /\ \A m \in DOMAIN matches, g \in groups : matches[m] \cap g = {}

\* A match is of whole parties, none of whom blocked another, and it finds its seats:
\* all in a lobby that holds them, no other of which has players who would have to
\* leave it (matcher.ex:19-24).
MatchesSeat ==
  /\ PartiesWhole
  /\ \A m \in Range(matches) :
       /\ \A i, j \in m : {i, j} \notin blocked
       /\ Backfill(m) # {} =>
            \E i \in Backfill(m) : Crowded(m) \subseteq {i} /\ Players(m) <= tickets[i].capacity

\* The ticket that anchored a match is no younger than any in it, is in no match before
\* it, and is in this one unless no match of its own can hold it, such as a lobby of
\* more than max_players; the match has from its min_players to its max_players, and
\* fewer than these only if it has waited long enough (matcher.ex:11-14, 58-65).
\* What the others ask for is not looked at.
Anchored(n, a) ==
  LET m == matches[n] IN
    /\ \A i \in m : a <= i
    /\ a \notin UNION {matches[l] : l \in 1..n - 1}
    /\ a \in m \/ ~Fits(UnitOf(a), {}, tickets[a].max)
    /\ Players(m) \in tickets[a].min..tickets[a].max
    /\ Players(m) < tickets[a].max => a <= overdue

\* Every match is earned by its anchor; and among groups of one size that ask for the
\* same and may all meet, nobody is seated before an older ticket (matcher.ex:16-17).
Alike ==
  /\ blocked = {} /\ Backfill(DOMAIN tickets) = {}
  /\ \A i, j \in DOMAIN tickets : /\ tickets[i].min = tickets[j].min
                                  /\ tickets[i].max = tickets[j].max
                                  /\ Players(UnitOf(i)) = Players(UnitOf(j))
MatchesEarned ==
  \A n \in DOMAIN matches :
    /\ \E a \in DOMAIN tickets : Anchored(n, a)
    /\ Alike => \A i \in matches[n] : 1..i \subseteq UNION {matches[l] : l \in 1..n}

\* When the matcher stops, no group left could have anchored a match, but for those
\* that ask for fewer players than an older one that took in everybody and gave up,
\* which a later anchor could do better than (matcher.ex:104-105); nor does one that
\* fits nowhere stall those behind it (matcher.ex:87-89).
NothingLeft ==
  done => \A b \in Anchors(groups) : Makes(groups, b) =>
    \E a \in Anchors(groups) : a < b /\ GivesUp(groups, a) /\ tickets[a].min > tickets[b].min
=============================================================================
