-------------------------- MODULE TournamentProofs --------------------------
(***************************************************************************)
(* Theorems about Tournament, for every list of players, set of workers    *)
(* and number of rounds.  Five inductive invariants, each resting on those *)
(* before it:                                                              *)
(*   IInv  the types; what a transaction holds is open for everyone else,  *)
(*         and no two hold the same;                                       *)
(*   PInv  the bracket is in order, as it is committed and as every        *)
(*         transaction sees it, while games report matches that are ready  *)
(*         and the tick keeps up (Punctual);                               *)
(*   HInv  a match that is owed a bye is looked after by some process;     *)
(*   CInv  where every entrant is: in an open match, out, the winner, or   *)
(*         in the hands of the transaction that decided his match;         *)
(*   BInv  a call that forfeits for a refused player goes on until he is   *)
(*         out of play.                                                    *)
(* From IInv: verdicts stand, and the tournament finishes once.  From PInv:*)
(* nobody is passed over, and no circle of transactions waits for itself.  *)
(* From HInv: byes are handed out.  From CInv: the champion is crowned, and*)
(* nobody is left over.  From BInv: the refused leave.                     *)
(***************************************************************************)
EXTENDS Tournament, SequenceTheorems, FiniteSetTheorems, WellFoundedInduction, TLAPS

-----------------------------------------------------------------------------
\* Numbers.

\* A set of naturals that is not empty has a least member.
LEMMA Least == ASSUME NEW T \in SUBSET Nat, T # {} PROVE \E x \in T : \A y \in T : x <= y
  <1>1. \E x \in T : \A y \in T : ~ (<<y, x>> \in OpToRel(<, Nat))
    BY WFMin, NatLessThanWellFounded, Zenon
  <1>2. PICK x \in T : \A y \in T : ~ (<<y, x>> \in OpToRel(<, Nat))
    BY <1>1, Zenon
  <1>3. ASSUME NEW y \in T, y < x PROVE FALSE
    <2>1. y \in Nat /\ x \in Nat OBVIOUS
    <2>2. <<y, x>> \in {ss \in Nat \X Nat : ss[1] < ss[2]} BY <1>3, <2>1
    <2>3. <<y, x>> \in OpToRel(<, Nat) BY <2>2 DEF OpToRel
    <2> QED BY <2>3, <1>2, Zenon
  <1>4. x \in Nat /\ \A y \in T : y \in Nat OBVIOUS
  <1>5. \A y \in T : x <= y BY <1>3, <1>4
  <1> QED BY <1>5, Zenon

\* Induction over the rounds, for a set of them.
LEMMA Climb ==
  ASSUME NEW n \in Nat, NEW T, 0 \in T, \A k \in 1..n : k - 1 \in T => k \in T
  PROVE  \A k \in 0..n : k \in T
  <1> DEFINE U == {k \in 0..n : k \notin T}
  <1> SUFFICES ASSUME U # {} PROVE FALSE OBVIOUS
  <1>1. U \in SUBSET Nat OBVIOUS
  <1>2. PICK x \in U : \A y \in U : x <= y BY <1>1, Least
  <1>3. x \in 1..n /\ x \notin T BY <1>2
  <1>4. x - 1 \notin U
    <2> SUFFICES ASSUME x - 1 \in U PROVE FALSE OBVIOUS
    <2>1. x <= x - 1 BY <1>2
    <2> QED BY <2>1, <1>3
  <1>5. x - 1 \in T BY <1>3, <1>4
  <1> QED BY <1>3, <1>5

RoundsOK == Rounds \in Nat /\ Rounds >= 1
\* There is a round.
LEMMA RoundsLemma == RoundsOK
  BY RoundsAssumption DEF RoundsOK

\* The shifts double from one.
WidthFcn == Width = [k \in 0..Rounds |-> IF k = 0 THEN 1 ELSE 2 * Width[k - 1]]
\* The equation that defines Width has a solution, so Width solves it.
LEMMA WidthDef == WidthFcn
  <1> DEFINE F(h, n) == h = [k \in 0..n |-> IF k = 0 THEN 1 ELSE 2 * h[k - 1]]
             E(n) == \E h : F(h, n)
             T == {n \in 0..Rounds : E(n)}
  <1>1. 0 \in T
    <2> DEFINE g == [k \in 0..0 |-> 1]
    <2>1. F(g, 0) OBVIOUS
    <2>2. E(0) BY <2>1
    <2> HIDE DEF E
    <2> QED BY <2>2, RoundsLemma DEF RoundsOK
  <1>2. ASSUME NEW n \in 1..Rounds, n - 1 \in T PROVE n \in T
    <2>0. E(n - 1) BY <1>2 DEF T
    <2>1. PICK h : F(h, n - 1) BY <2>0
    <2> DEFINE g == [k \in 0..n |-> IF k = n THEN 2 * h[n - 1] ELSE h[k]]
    <2>2. ASSUME NEW k \in 0..n PROVE g[k] = IF k = 0 THEN 1 ELSE 2 * g[k - 1]
      <3>1. CASE k = n
        <4>1. n - 1 \in 0..n /\ n - 1 # n BY RoundsLemma DEF RoundsOK
        <4>2. g[n - 1] = h[n - 1] BY <4>1
        <4> QED BY <3>1, <4>2
      <3>2. CASE k # n
        <4>1. k \in 0..(n - 1) BY <3>2
        <4>2. h[k] = IF k = 0 THEN 1 ELSE 2 * h[k - 1] BY <4>1, <2>1
        <4>3. k # 0 => k - 1 \in 0..n /\ k - 1 # n OBVIOUS
        <4> QED BY <4>2, <4>3, <3>2
      <3> QED BY <3>1, <3>2
    <2>3. F(g, n) BY <2>2
    <2> HIDE DEF g, F
    <2>4. E(n) BY <2>3
    <2> HIDE DEF E
    <2> QED BY <2>4
  <1> HIDE DEF T
  <1>3. \A n \in 0..Rounds : n \in T BY <1>1, <1>2, Climb, RoundsLemma DEF RoundsOK
  <1> HIDE DEF E
  <1>4. E(Rounds) BY <1>3, RoundsLemma DEF RoundsOK, T
  <1> USE DEF E
  <1> QED BY <1>4 DEF Width, WidthFcn

\* Twice as many matches, one round earlier.
LEMMA WidthDoubles == \A k \in 1..Rounds : Width[k] = 2 * Width[k - 1]
  BY WidthDef, RoundsLemma DEF WidthFcn, RoundsOK

\* The final is one match.
LEMMA WidthZero == Width[0] = 1
  BY WidthDef, RoundsLemma DEF WidthFcn, RoundsOK

\* A round has a match.
LEMMA WidthNat == \A k \in 0..Rounds : Width[k] \in Nat /\ Width[k] >= 1
  <1> DEFINE T == {k \in Nat : Width[k] \in Nat /\ Width[k] >= 1}
  <1>1. 0 \in T BY WidthZero
  <1>2. \A k \in 1..Rounds : k - 1 \in T => k \in T BY WidthDoubles
  <1> HIDE DEF T
  <1>3. \A k \in 0..Rounds : k \in T BY <1>1, <1>2, Climb, RoundsLemma DEF RoundsOK
  <1> QED BY <1>3 DEF T

\* The ranks of the slots are drawn from the ranks of half as many.
Half(r) == IF r = 0 THEN [i \in {0} |-> 1]
           ELSE [i \in 0..(Width[r] - 1) |-> IF i % 2 = 0 THEN SeedOrder[r - 1][i \div 2]
                                            ELSE Width[r] + 1 - SeedOrder[r - 1][i \div 2]]
\* The equation that defines SeedOrder has a solution, so SeedOrder solves it.
LEMMA SeedDef == \A r \in 0..Rounds : SeedOrder[r] = Half(r)
  <1> DEFINE G(h, r) == IF r = 0 THEN [i \in {0} |-> 1]
                        ELSE [i \in 0..(Width[r] - 1) |-> IF i % 2 = 0 THEN h[r - 1][i \div 2]
                                            ELSE Width[r] + 1 - h[r - 1][i \div 2]]
             F(h, n) == h = [r \in 0..n |-> G(h, r)]
             E(n) == \E h : F(h, n)
             T == {n \in 0..Rounds : E(n)}
  <1>0. ASSUME NEW g, NEW h, NEW r \in Nat, r # 0 => g[r - 1] = h[r - 1] PROVE G(g, r) = G(h, r)
    BY <1>0
  <1> HIDE DEF G
  <1>1. 0 \in T
    <2> DEFINE g == [r \in 0..0 |-> G(<<>>, 0)]
    <2>1. F(g, 0) BY <1>0
    <2>2. E(0) BY <2>1
    <2> HIDE DEF E
    <2> QED BY <2>2, RoundsLemma DEF RoundsOK
  <1>2. ASSUME NEW n \in 1..Rounds, n - 1 \in T PROVE n \in T
    <2>0. E(n - 1) BY <1>2 DEF T
    <2>1. PICK h : F(h, n - 1) BY <2>0
    <2> DEFINE g == [k \in 0..n |-> IF k = n THEN G(h, n) ELSE h[k]]
    <2>2. ASSUME NEW k \in 0..n PROVE g[k] = G(g, k)
      <3>1. k # 0 => g[k - 1] = h[k - 1] OBVIOUS
      <3>2. G(g, k) = G(h, k) BY <3>1, <1>0
      <3>3. k # n => h[k] = G(h, k) BY <2>1
      <3> QED BY <3>2, <3>3
    <2>3. F(g, n) BY <2>2
    <2> HIDE DEF g, F
    <2>4. E(n) BY <2>3
    <2> HIDE DEF E
    <2> QED BY <2>4
  <1> HIDE DEF T
  <1>3. \A n \in 0..Rounds : n \in T BY <1>1, <1>2, Climb, RoundsLemma DEF RoundsOK
  <1> HIDE DEF E
  <1>4. E(Rounds) BY <1>3, RoundsLemma DEF RoundsOK, T
  <1> USE DEF E
  <1>5. SeedOrder = CHOOSE h : F(h, Rounds) BY DEF SeedOrder, G
  <1>6. F(SeedOrder, Rounds) BY <1>4, <1>5
  <1>7. \A r \in 0..Rounds : SeedOrder[r] = G(SeedOrder, r) BY <1>6
  <1> QED BY <1>7 DEF G, Half

\* Wider, the earlier the round.
LEMMA WidthMono == ASSUME NEW a \in 0..Rounds, NEW b \in 0..Rounds, a <= b PROVE Width[a] <= Width[b]
  <1> DEFINE T == {k \in Nat : a <= k => Width[a] <= Width[k]}
  <1>1. 0 \in T BY WidthNat, RoundsLemma DEF RoundsOK
  <1>2. ASSUME NEW k \in 1..Rounds, k - 1 \in T PROVE k \in T
    <2>1. Width[k] = 2 * Width[k - 1] /\ Width[k - 1] \in Nat /\ Width[a] \in Nat
      BY WidthDoubles, WidthNat, RoundsLemma DEF RoundsOK
    <2> QED BY <1>2, <2>1
  <1> HIDE DEF T
  <1>3. \A k \in 0..Rounds : k \in T BY <1>1, <1>2, Climb, RoundsLemma DEF RoundsOK
  <1> QED BY <1>3 DEF T

\* Every rank is one of as many as there are slots, and each pair of slots has
\* one of the upper half.
LEMMA SeedRange == \A r \in 0..Rounds : \A i \in 0..(Width[r] - 1) : SeedOrder[r][i] \in 1..Width[r]
  <1> DEFINE T == {r \in Nat : \A i \in 0..(Width[r] - 1) : SeedOrder[r][i] \in 1..Width[r]}
  <1>1. 0 \in T
    <2>1. SeedOrder[0] = Half(0) BY SeedDef, RoundsLemma DEF RoundsOK
    <2> QED BY <2>1, WidthZero DEF Half
  <1>2. ASSUME NEW r \in 1..Rounds, r - 1 \in T PROVE r \in T
    <2>1. Width[r] = 2 * Width[r - 1] /\ Width[r - 1] \in Nat /\ Width[r] \in Nat
      BY WidthDoubles, WidthNat, RoundsLemma DEF RoundsOK
    <2>2. SeedOrder[r] = Half(r) BY SeedDef
    <2>3. ASSUME NEW i \in 0..(Width[r] - 1) PROVE SeedOrder[r][i] \in 1..Width[r]
      <3>1. i \div 2 \in 0..(Width[r - 1] - 1) BY <2>1
      <3>2. SeedOrder[r - 1][i \div 2] \in 1..Width[r - 1] BY <3>1, <1>2
      <3>3. SeedOrder[r][i] = IF i % 2 = 0 THEN SeedOrder[r - 1][i \div 2]
                                           ELSE Width[r] + 1 - SeedOrder[r - 1][i \div 2]
        BY <2>2 DEF Half
      <3> QED BY <3>2, <3>3, <2>1
    <2> QED BY <2>3
  <1> HIDE DEF T
  <1>3. \A k \in 0..Rounds : k \in T BY <1>1, <1>2, Climb, RoundsLemma DEF RoundsOK
  <1> QED BY <1>3 DEF T

\* The two ranks of a first-round match: the upper half's order, and its mirror.
LEMMA SeedPairs ==
  ASSUME NEW r \in 1..Rounds, NEW s \in 0..(Width[r - 1] - 1)
  PROVE  /\ SeedOrder[r][2 * s] = SeedOrder[r - 1][s] /\ SeedOrder[r][2 * s] \in 1..Width[r - 1]
         /\ SeedOrder[r][2 * s + 1] = Width[r] + 1 - SeedOrder[r][2 * s]
  <1>1. Width[r] = 2 * Width[r - 1] /\ Width[r - 1] \in Nat /\ Width[r] \in Nat
    BY WidthDoubles, WidthNat, RoundsLemma DEF RoundsOK
  <1>2. SeedOrder[r] = Half(r) BY SeedDef
  <1>3. SeedOrder[r - 1][s] \in 1..Width[r - 1] BY SeedRange, RoundsLemma DEF RoundsOK
  <1>4. s \in Nat /\ 2 * s \in 0..(Width[r] - 1) /\ 2 * s + 1 \in 0..(Width[r] - 1) BY <1>1
  <1>5. (2 * s) % 2 = 0 /\ (2 * s) \div 2 = s /\ (2 * s + 1) % 2 = 1 /\ (2 * s + 1) \div 2 = s BY <1>4
  <1>6. SeedOrder[r][2 * s] = SeedOrder[r - 1][s] BY <1>2, <1>4, <1>5 DEF Half
  <1>7. SeedOrder[r][2 * s + 1] = Width[r] + 1 - SeedOrder[r - 1][s] BY <1>2, <1>4, <1>5 DEF Half
  <1> QED BY <1>3, <1>6, <1>7

\* The bracket is the smallest that seats everyone.
LEMMA RoundsForFits ==
  ASSUME NEW n \in Nat, n <= Width[Rounds]
  PROVE  /\ RoundsFor(n) \in 1..Rounds
         /\ n <= Width[RoundsFor(n)]
         /\ \A k \in 1..(RoundsFor(n) - 1) : n > Width[k]
  <1> DEFINE T == {r \in 1..Rounds : n <= Width[r]}
  <1>1. T \in SUBSET Nat /\ Rounds \in T BY RoundsLemma DEF RoundsOK
  <1>2. PICK d \in T : \A y \in T : d <= y BY <1>1, Least
  <1>3. d \in 1..Rounds /\ n <= Width[d] BY <1>2
  <1>4. ASSUME NEW k \in 1..(d - 1) PROVE n > Width[k]
    <2>1. k \in 1..Rounds /\ k < d BY <1>3, RoundsLemma DEF RoundsOK
    <2>2. k \notin T
      <3> SUFFICES ASSUME k \in T PROVE FALSE OBVIOUS
      <3>1. d <= k BY <1>2
      <3> QED BY <2>1, <3>1, <1>3
    <2>3. Width[k] \in Nat BY <2>1, WidthNat
    <2> QED BY <2>1, <2>2, <2>3
  <1>5. \E r \in 1..Rounds : n <= Width[r] /\ \A k \in 1..(r - 1) : n > Width[k] BY <1>3, <1>4
  <1> QED BY <1>5 DEF RoundsFor

-----------------------------------------------------------------------------
\* The draw.

\* Both sides of a match are taken, by two.
Two(row) == row.seat[0] # NoOne /\ row.seat[1] # NoOne /\ row.seat[0] # row.seat[1]
SeatsOK(row) == row.seat \in [Sides -> Someone]

\* Who is present, counted.
LEMMA PresentTwo ==
  ASSUME NEW row, SeatsOK(row)
  PROVE  /\ Cardinality(Present(row)) = 2 <=> Two(row)
         /\ Cardinality(Present(row)) < 2 <=> ~Two(row)
         /\ ~Two(row) => \E o \in Someone : Present(row) \subseteq {o}
  <1> DEFINE a == row.seat[0]
             b == row.seat[1]
  <1>1. Present(row) = {a, b} \ {NoOne} BY DEF Present, Sides
  <1>2. a \in Someone /\ b \in Someone BY DEF SeatsOK, Sides
  <1>3. CASE Two(row)
    <2>1. Present(row) = {a, b} /\ a # b BY <1>1, <1>3 DEF Two
    <2>2. IsFiniteSet({a}) /\ Cardinality({a}) = 1 BY FS_Singleton
    <2>3. {a, b} = {a} \cup {b} /\ b \notin {a} BY <2>1
    <2>4. Cardinality({a, b}) = 2 BY <2>2, <2>3, FS_AddElement
    <2> QED BY <2>1, <2>4, <1>3
  <1>4. CASE ~Two(row)
    <2>1. PICK o \in Someone : Present(row) \subseteq {o} BY <1>1, <1>2, <1>4 DEF Two
    <2>2. Present(row) = {} \/ Present(row) = {o} BY <2>1
    <2>3. Cardinality({}) = 0 /\ Cardinality({o}) = 1 BY FS_Singleton, FS_EmptySet
    <2>4. Cardinality(Present(row)) \in {0, 1} BY <2>2, <2>3
    <2> QED BY <2>4, <1>4, <2>1
  <1> QED BY <1>3, <1>4

\* A row's columns agree: an open match has no winner and is nobody's bye.
RowOK(row) == row \in Row /\ (~row.resolved => row.winner = NoOne /\ ~row.bye)

\* A row has a seat on each side.
LEMMA RowSeats == ASSUME NEW row \in Row PROVE SeatsOK(row)
  BY DEF Row, SeatsOK

\* The row nobody has touched.
LEMMA EmptyOK == RowOK(EmptyRow) /\ \A i \in Sides : EmptyRow.seat[i] = NoOne
  BY DEF RowOK, EmptyRow, Row, Someone, Sides

\* One side at most is taken: whoever is there wins.
LEMMA SettlesAlone ==
  ASSUME NEW row \in Row, ~Two(row)
  PROVE  /\ Settles(row).winner \in Someone
         /\ Present(row) \subseteq {Settles(row).winner}
         /\ row.seat[0] # NoOne => Settles(row).winner = row.seat[0]
  BY DEF Settles, Two, Row, Present, Sides, Someone

Enough == entrants \in Seq(Players) /\ Len(entrants) >= 2 /\ Len(entrants) <= Width[Rounds]
Depth == RoundsFor(Len(entrants))
\* The depth of a bracket fits its entrants: fewer would not do.
LEMMA DepthOK ==
  ASSUME Enough
  PROVE  /\ Depth \in 1..Rounds
         /\ Width[Depth - 1] \in Nat /\ Len(entrants) >= Width[Depth - 1]
  <1>1. Len(entrants) \in Nat BY DEF Enough
  <1>2. Depth \in 1..Rounds /\ \A k \in 1..(Depth - 1) : Len(entrants) > Width[k]
    BY <1>1, RoundsForFits DEF Enough, Depth
  <1>3. Width[Depth - 1] \in Nat BY <1>2, WidthNat, RoundsLemma DEF RoundsOK
  <1>4. CASE Depth = 1
    <2>1. Width[Depth - 1] = 1 BY <1>4, WidthZero
    <2> QED BY <1>2, <2>1, <1>1 DEF Enough
  <1>5. CASE Depth # 1
    <2>1. Depth - 1 \in 1..(Depth - 1) BY <1>2, <1>5
    <2>2. Len(entrants) > Width[Depth - 1] BY <2>1, <1>2
    <2> QED BY <1>2, <1>3, <2>2, <1>1
  <1> QED BY <1>4, <1>5

\* A first match has somebody on its first side; it is open when it has two players,
\* and a bye otherwise.
Slots == 0..(Width[Depth - 1] - 1)
Drawn(row) ==
  /\ RowOK(row) /\ row.seat[0] # NoOne
  /\ ~row.resolved => Two(row)
  /\ row.resolved => row.bye /\ row.winner # NoOne /\ Present(row) \subseteq {row.winner}
\* A match of the first round has its upper side taken; alone there is a bye.
LEMMA FirstRoundOK ==
  ASSUME Enough, NEW s \in Slots
  PROVE  /\ Drawn(FirstRound(s))
         /\ FirstRound(s).resolved => FirstRound(s).winner = entrants[SeedOrder[Depth][2 * s]]
  <1> DEFINE occupant(i) == LET rank == SeedOrder[Depth][2 * s + i]
                            IN  IF rank \in DOMAIN entrants THEN entrants[rank] ELSE NoOne
             row == [EmptyRow EXCEPT !.seat = [i \in Sides |-> occupant(i)]]
  <1>1. Depth \in 1..Rounds /\ Width[Depth - 1] \in Nat /\ Len(entrants) >= Width[Depth - 1] BY DepthOK
  <1>2. SeedOrder[Depth][2 * s] \in 1..Width[Depth - 1] BY <1>1, SeedPairs DEF Slots
  <1>3. 2 * s + 0 = 2 * s BY <1>1 DEF Slots
  <1>4. Len(entrants) \in Nat /\ DOMAIN entrants = 1..Len(entrants) /\ \A k \in DOMAIN entrants : entrants[k] \in Players
    BY DEF Enough
  <1>5. occupant(0) \in Players /\ occupant(0) = entrants[SeedOrder[Depth][2 * s]] BY <1>1, <1>2, <1>3, <1>4
  <1>6. \A i \in Sides : occupant(i) \in Someone BY <1>4 DEF Someone
  <1> HIDE DEF occupant
  <1>7. row \in Row /\ RowOK(row) /\ row.seat = [i \in Sides |-> occupant(i)] /\ ~row.resolved
    BY <1>6, EmptyOK DEF EmptyRow, Row, RowOK
  <1>8. row.seat[0] = occupant(0) BY <1>7 DEF Sides
  <1>9. row.seat[0] # NoOne BY <1>8, <1>5, NoOneAssumption
  <1>10. FirstRound(s) = IF Cardinality(Present(row)) = 2 THEN row ELSE Settles(row)
    BY DEF FirstRound, occupant, Depth
  <1> HIDE DEF row
  <1>11. Cardinality(Present(row)) = 2 <=> Two(row) BY <1>7, RowSeats, PresentTwo
  <1>12. CASE Two(row) BY <1>12, <1>10, <1>11, <1>7, <1>9 DEF Drawn
  <1>13. CASE ~Two(row)
    <2>1. FirstRound(s) = Settles(row) BY <1>13, <1>10, <1>11
    <2>2. Settles(row).winner = row.seat[0] /\ Present(row) \subseteq {row.seat[0]} BY <1>7, <1>9, <1>13, SettlesAlone
    <2>3. /\ Settles(row) \in Row /\ Settles(row).resolved /\ Settles(row).bye
          /\ Settles(row).seat = row.seat
      BY <1>7, <1>9 DEF Settles, Row, RowOK, Sides
    <2>4. Present(Settles(row)) = Present(row) BY <2>3 DEF Present
    <2> HIDE DEF Drawn
    <2>5. Drawn(Settles(row)) BY <2>2, <2>3, <2>4, <1>9 DEF Drawn, RowOK
    <2>6. Settles(row).winner = entrants[SeedOrder[Depth][2 * s]] BY <2>2, <1>8, <1>5
    <2> QED BY <2>1, <2>5, <2>6
  <1> QED BY <1>12, <1>13

\* The names of matches.
IsMatch(m) == m = <<m[1], m[2]>> /\ m[1] \in 1..Rounds /\ m[2] \in Nat
\* A match is a round and a slot.
LEMMA MatchNames == \A m \in Matches : IsMatch(m)
  <1> SUFFICES ASSUME NEW m \in Matches PROVE IsMatch(m) OBVIOUS
  <1>1. PICK r \in 1..Rounds : m \in {<<r, s>> : s \in 0..(Width[Rounds - r] - 1)} BY DEF Matches
  <1>2. PICK s \in 0..(Width[Rounds - r] - 1) : m = <<r, s>> BY <1>1
  <1>3. Width[Rounds - r] \in Nat BY WidthNat, RoundsLemma DEF RoundsOK
  <1> QED BY <1>2, <1>3 DEF IsMatch

\* The tree: a match above the first round has its two feeders in the bracket.
Fed(S) == \A m \in S : m[1] > 1 => \A i \in Sides : Feeder(m, i) \in S

\* There is a first match.
LEMMA FirstMatch == <<1, 0>> \in Matches
  <1>1. Width[Rounds - 1] >= 1 /\ Width[Rounds - 1] \in Nat BY WidthNat, RoundsLemma DEF RoundsOK
  <1>2. 0 \in 0..(Width[Rounds - 1] - 1) BY <1>1
  <1> QED BY <1>2, RoundsLemma DEF RoundsOK, Matches

\* What draw/2 inserts (tournaments.ex:846-901): the first round with its byes
\* settled, their winners in the second, and nobody beyond it.
LEMMA BracketOK ==
  ASSUME Enough
  PROVE  /\ Bracket = [m \in DOMAIN Bracket |-> Bracket[m]]
         /\ DOMAIN Bracket \subseteq Matches /\ DOMAIN Bracket # {} /\ Fed(DOMAIN Bracket)
         /\ \A m \in DOMAIN Bracket :
              /\ RowOK(Bracket[m])
              /\ m[1] = 1 => Drawn(Bracket[m])
              /\ m[1] = 1 /\ Bracket[m].resolved =>
                   m[2] \in Slots /\ Bracket[m].winner = entrants[SeedOrder[Depth][2 * m[2]]]
              /\ m[1] # 1 => ~Bracket[m].resolved
              /\ m[1] = 2 => \A i \in Sides : Bracket[m].seat[i] = Bracket[Feeder(m, i)].winner
              /\ m[1] > 2 => \A i \in Sides : Bracket[m].seat[i] = NoOne
  <1> DEFINE drawn == UNION {{<<r, s>> : s \in 0..(Width[Depth - r] - 1)} : r \in 1..Depth}
             R(m) == CASE m[1] = 1 -> FirstRound(m[2])
                       [] m[1] = 2 -> [EmptyRow EXCEPT !.seat = [i \in Sides |-> FirstRound(2 * m[2] + i).winner]]
                       [] OTHER -> EmptyRow
  <1>1. Bracket = [m \in drawn |-> R(m)] BY DEF Bracket, Depth
  <1> HIDE DEF R
  <1>2. Depth \in 1..Rounds BY DepthOK
  <1>3. \A m : m \in drawn <=> \E r \in 1..Depth : \E s \in 0..(Width[Depth - r] - 1) : m = <<r, s>>
    OBVIOUS
  <1> HIDE DEF drawn
  <1>4. \A r \in 1..Depth : Width[Depth - r] \in Nat /\ Width[Depth - r] >= 1
                           /\ Width[Rounds - r] \in Nat /\ Width[Depth - r] <= Width[Rounds - r]
    <2> TAKE r \in 1..Depth
    <2>1. Depth - r \in 0..Rounds /\ Rounds - r \in 0..Rounds /\ Depth - r <= Rounds - r
      BY <1>2, RoundsLemma DEF RoundsOK
    <2> QED BY <2>1, WidthNat, WidthMono
  <1>5. \A m \in drawn : /\ m = <<m[1], m[2]>> /\ m[1] \in 1..Depth /\ m[2] \in Nat
                         /\ m[2] \in 0..(Width[Depth - m[1]] - 1)
    <2> TAKE m \in drawn
    <2>0. PICK r \in 1..Depth : \E s \in 0..(Width[Depth - r] - 1) : m = <<r, s>> BY <1>3
    <2>1. PICK s \in 0..(Width[Depth - r] - 1) : m = <<r, s>> BY <2>0
    <2> QED BY <2>1, <1>4
  <1>6. drawn \subseteq Matches
    <2> SUFFICES ASSUME NEW m \in drawn PROVE m \in Matches OBVIOUS
    <2>0. PICK r \in 1..Depth : \E s \in 0..(Width[Depth - r] - 1) : m = <<r, s>> BY <1>3
    <2>1. PICK s \in 0..(Width[Depth - r] - 1) : m = <<r, s>> BY <2>0
    <2>2. r \in 1..Rounds /\ s \in 0..(Width[Rounds - r] - 1) BY <1>2, <1>4, RoundsLemma DEF RoundsOK
    <2> QED BY <2>1, <2>2 DEF Matches
  <1>7. <<1, 0>> \in drawn
    <2>1. 1 \in 1..Depth BY <1>2
    <2>2. 0 \in 0..(Width[Depth - 1] - 1) BY <2>1, <1>4
    <2> QED BY <2>1, <2>2, <1>3
  <1>8. ASSUME NEW m \in drawn, m[1] > 1, NEW i \in Sides PROVE Feeder(m, i) \in drawn
    <2>1. m[1] \in 1..Depth /\ m[2] \in 0..(Width[Depth - m[1]] - 1) BY <1>5
    <2>2. m[1] - 1 \in 1..Depth BY <2>1, <1>8, <1>2
    <2>3. Depth - m[1] + 1 \in 1..Rounds BY <2>1, <1>2, <1>8, RoundsLemma DEF RoundsOK
    <2>4. Width[Depth - (m[1] - 1)] = 2 * Width[Depth - m[1]]
      <3>1. Depth - (m[1] - 1) = Depth - m[1] + 1 /\ Depth - m[1] + 1 - 1 = Depth - m[1] BY <2>1, <1>2
      <3>2. PICK k \in 1..Rounds : k = Depth - m[1] + 1 BY <2>3
      <3>3. k = Depth - (m[1] - 1) /\ k - 1 = Depth - m[1] BY <3>2, <2>1, <1>2
      <3>4. Width[k] = 2 * Width[k - 1] BY WidthDoubles
      <3> QED BY <3>3, <3>4, Zenon
    <2>5. 2 * m[2] + i \in 0..(Width[Depth - (m[1] - 1)] - 1) BY <2>1, <2>4, <1>4 DEF Sides
    <2> QED BY <2>2, <2>5, <1>3 DEF Feeder
  <1>9. \A m \in drawn : m[1] = 1 => m[2] \in Slots BY <1>5 DEF Slots
  <1>10. \A m \in drawn : m[1] = 1 => Bracket[m] = FirstRound(m[2]) BY <1>1 DEF R
  <1>11. \A m \in drawn : m[1] = 1 => Drawn(Bracket[m]) /\ RowOK(Bracket[m]) BY <1>9, <1>10, FirstRoundOK DEF Drawn
  <1>12. \A m \in drawn : (m[1] = 1 /\ Bracket[m].resolved) => Bracket[m].winner = entrants[SeedOrder[Depth][2 * m[2]]]
    BY <1>9, <1>10, FirstRoundOK
  <1>13. ASSUME NEW m \in drawn, m[1] = 2
         PROVE  /\ RowOK(Bracket[m]) /\ ~Bracket[m].resolved
                /\ \A i \in Sides : Bracket[m].seat[i] = Bracket[Feeder(m, i)].winner
    <2>1. Bracket[m] = [EmptyRow EXCEPT !.seat = [i \in Sides |-> FirstRound(2 * m[2] + i).winner]] BY <1>1, <1>13 DEF R
    <2>2. \A i \in Sides : Feeder(m, i) \in drawn /\ Feeder(m, i)[1] = 1 /\ Feeder(m, i)[2] = 2 * m[2] + i
      BY <1>8, <1>13 DEF Feeder
    <2>3. \A i \in Sides : FirstRound(2 * m[2] + i) = Bracket[Feeder(m, i)] BY <2>2, <1>10
    <2>4. \A i \in Sides : Bracket[Feeder(m, i)].winner \in Someone BY <2>2, <1>11 DEF RowOK, Row
    <2>5. Bracket[m] = [EmptyRow EXCEPT !.seat = [i \in Sides |-> Bracket[Feeder(m, i)].winner]] BY <2>1, <2>3
    <2> DEFINE seats == [i \in Sides |-> Bracket[Feeder(m, i)].winner]
    <2>6. seats \in [Sides -> Someone] /\ \A i \in Sides : seats[i] = Bracket[Feeder(m, i)].winner BY <2>4
    <2> HIDE DEF seats
    <2>7. Bracket[m] = [EmptyRow EXCEPT !.seat = seats] BY <2>5 DEF seats
    <2>8. RowOK(Bracket[m]) BY <2>6, <2>7, EmptyOK DEF EmptyRow, Row, RowOK
    <2>9. ~Bracket[m].resolved /\ Bracket[m].seat = seats BY <2>7 DEF EmptyRow
    <2> QED BY <2>6, <2>8, <2>9
  <1>14. \A m \in drawn : m[1] > 2 => Bracket[m] = EmptyRow BY <1>1, <1>5 DEF R
  <1>15. \A m \in drawn : m[1] > 2 => RowOK(Bracket[m]) /\ ~Bracket[m].resolved /\ \A i \in Sides : Bracket[m].seat[i] = NoOne
    BY <1>14, EmptyOK DEF EmptyRow
  <1>16. DOMAIN Bracket = drawn /\ Bracket = [m \in DOMAIN Bracket |-> Bracket[m]] BY <1>1
  <1>17. \A m \in drawn : m[1] = 1 \/ m[1] = 2 \/ m[1] > 2 BY <1>5
  <1>18. Fed(drawn) BY <1>8 DEF Fed
  <1>19. \A m \in drawn :
              /\ RowOK(Bracket[m])
              /\ m[1] = 1 => Drawn(Bracket[m])
              /\ m[1] = 1 /\ Bracket[m].resolved =>
                   m[2] \in Slots /\ Bracket[m].winner = entrants[SeedOrder[Depth][2 * m[2]]]
              /\ m[1] # 1 => ~Bracket[m].resolved
              /\ m[1] = 2 => \A i \in Sides : Bracket[m].seat[i] = Bracket[Feeder(m, i)].winner
              /\ m[1] > 2 => \A i \in Sides : Bracket[m].seat[i] = NoOne
    BY <1>9, <1>11, <1>12, <1>13, <1>15, <1>17
  <1> QED BY <1>6, <1>7, <1>16, <1>18, <1>19

\* Two byes meet as two different players.
EntrantsOnce == \A i, j \in DOMAIN entrants : entrants[i] = entrants[j] => i = j
\* Two byes that meet seat two entrants, so no bye of the first round makes one in
\* the second.
LEMMA ByesMeet ==
  ASSUME Enough, EntrantsOnce, NEW m \in DOMAIN Bracket, m[1] = 2,
         \A i \in Sides : Bracket[Feeder(m, i)].resolved
  PROVE  Two(Bracket[m])
  <1> DEFINE f == Feeder(m, 0)
             g == Feeder(m, 1)
             x == SeedOrder[Depth][2 * f[2]]
             y == SeedOrder[Depth][2 * g[2]]
  <1>1. f \in DOMAIN Bracket /\ g \in DOMAIN Bracket /\ Bracket[f].resolved /\ Bracket[g].resolved
    BY BracketOK DEF Fed, Sides
  <1>2. f[1] = 1 /\ g[1] = 1 /\ f[2] = 2 * m[2] + 0 /\ g[2] = 2 * m[2] + 1
    BY DEF Feeder
  <1>3. f[2] \in Slots /\ g[2] \in Slots /\ Bracket[f].winner = entrants[x] /\ Bracket[g].winner = entrants[y]
        /\ Bracket[f].winner # NoOne /\ Bracket[g].winner # NoOne
    BY <1>1, <1>2, BracketOK DEF Drawn
  <1>4. Bracket[m].seat[0] = Bracket[f].winner /\ Bracket[m].seat[1] = Bracket[g].winner
    BY BracketOK DEF Sides
  <1>5. m[2] \in Nat BY BracketOK, MatchNames DEF IsMatch
  <1>6. Depth \in 1..Rounds /\ Width[Depth - 1] \in Nat /\ Len(entrants) >= Width[Depth - 1] BY DepthOK
  <1>7. /\ x = SeedOrder[Depth - 1][f[2]] /\ y = SeedOrder[Depth - 1][g[2]]
        /\ x \in 1..Width[Depth - 1] /\ y \in 1..Width[Depth - 1]
    BY <1>3, <1>6, SeedPairs DEF Slots
  <1>8. Depth # 1
    <2> SUFFICES ASSUME Depth = 1 PROVE FALSE OBVIOUS
    <2>1. Width[Depth - 1] = 1 BY WidthZero
    <2> QED BY <2>1, <1>2, <1>3, <1>5 DEF Slots
  <1>9. PICK d \in 1..Rounds : d = Depth - 1 BY <1>6, <1>8, RoundsLemma DEF RoundsOK
  <1>10. Width[d] = 2 * Width[d - 1] /\ Width[d - 1] \in Nat BY WidthDoubles, WidthNat, RoundsLemma DEF RoundsOK
  <1>11. m[2] \in 0..(Width[d - 1] - 1) BY <1>2, <1>3, <1>5, <1>9, <1>10 DEF Slots
  <1>12. SeedOrder[d][2 * m[2] + 1] = Width[d] + 1 - SeedOrder[d][2 * m[2]] BY <1>11, SeedPairs
  <1>13. x = SeedOrder[d][2 * m[2]] /\ y = SeedOrder[d][2 * m[2] + 1] BY <1>2, <1>5, <1>7, <1>9
  <1>14. x \in Nat /\ y = Width[d] + 1 - x BY <1>7, <1>12, <1>13, <1>6
  <1>15. x # y
    <2>1. \A h \in Nat, k \in Nat : k # 2 * h + 1 - k OBVIOUS
    <2>2. y = 2 * Width[d - 1] + 1 - x BY <1>14, <1>10
    <2> QED BY <2>1, <2>2, <1>10, <1>14
  <1>16. x \in DOMAIN entrants /\ y \in DOMAIN entrants BY <1>6, <1>7 DEF Enough
  <1>17. entrants[x] # entrants[y] BY <1>15, <1>16 DEF EntrantsOnce
  <1> QED BY <1>3, <1>4, <1>17 DEF Two

-----------------------------------------------------------------------------
\* Registration.

\* Whoever is entered came, and is entered once.
Registered ==
  /\ entrants \in Seq(Players) /\ came \in Nat /\ came <= Len(Arrivals) /\ Len(entrants) <= came
  /\ EntrantsOnce
  /\ \A i \in DOMAIN entrants : \E k \in 1..came : entrants[i] = Arrivals[k]

\* A sequence without its i-th element.
LEMMA Removed ==
  ASSUME NEW S, NEW s \in Seq(S), NEW i \in DOMAIN s
  PROVE  /\ RemoveAt(s, i) \in Seq(S) /\ Len(RemoveAt(s, i)) = Len(s) - 1
         /\ \A k \in 1..(Len(s) - 1) : RemoveAt(s, i)[k] = IF k < i THEN s[k] ELSE s[k + 1]
  <1> DEFINE a == SubSeq(s, 1, i - 1)
             b == SubSeq(s, i + 1, Len(s))
  <1>1. Len(s) \in Nat /\ i \in 1..Len(s) OBVIOUS
  <1>2. a \in Seq(S) /\ Len(a) = i - 1 /\ \A k \in 1..(i - 1) : a[k] = s[k] BY <1>1
  <1>3. b \in Seq(S) /\ Len(b) = Len(s) - i /\ \A k \in 1..(Len(s) - i) : b[k] = s[i + k] BY <1>1
  <1> HIDE DEF a, b
  <1>4. a \o b \in Seq(S) /\ Len(a \o b) = Len(s) - 1 BY <1>1, <1>2, <1>3
  <1>5. \A k \in 1..(Len(a) + Len(b)) : (a \o b)[k] = IF k <= Len(a) THEN a[k] ELSE b[k - Len(a)]
    BY <1>2, <1>3, ConcatProperties
  <1>6. ASSUME NEW k \in 1..(Len(s) - 1) PROVE (a \o b)[k] = IF k < i THEN s[k] ELSE s[k + 1]
    <2>1. k \in 1..(Len(a) + Len(b)) /\ (k <= Len(a) <=> k < i) BY <1>1, <1>2, <1>3
    <2>2. CASE k < i
      <3>1. (a \o b)[k] = a[k] BY <1>5, <2>1, <2>2
      <3> QED BY <3>1, <1>1, <1>2, <2>2
    <2>3. CASE ~(k < i)
      <3>1. PICK j \in 1..(Len(s) - i) : j = k - Len(a) BY <1>1, <1>2, <2>3
      <3>2. (a \o b)[k] = b[j] BY <1>5, <2>1, <2>3, <3>1
      <3>3. b[j] = s[i + j] BY <1>3
      <3>4. i + j = k + 1 BY <1>1, <1>2, <3>1
      <3> QED BY <3>2, <3>3, <3>4, <2>3
    <2> QED BY <2>2, <2>3
  <1> QED BY <1>4, <1>6 DEF RemoveAt, a, b

\* Who withdraws leaves the others in their order.
LEMMA WithdrawnOK == ASSUME Registered, NEW e, Withdrawn(e), came' = came PROVE Registered'
  <1>1. CASE e \notin Range(entrants)
    <2>1. entrants' = entrants BY <1>1 DEF Withdrawn
    <2> QED BY <2>1 DEF Registered, EntrantsOnce
  <1>2. CASE e \in Range(entrants)
    <2> DEFINE i == CHOOSE i \in DOMAIN entrants : entrants[i] = e
    <2>1. i \in DOMAIN entrants BY <1>2 DEF Range
    <2>2. entrants' = RemoveAt(entrants, i) BY <1>2 DEF Withdrawn
    <2> HIDE DEF i
    <2>3. entrants \in Seq(Players) /\ Len(entrants) \in Nat BY DEF Registered
    <2>4. /\ entrants' \in Seq(Players) /\ Len(entrants') = Len(entrants) - 1
          /\ \A k \in 1..(Len(entrants) - 1) : entrants'[k] = IF k < i THEN entrants[k] ELSE entrants[k + 1]
      BY <2>1, <2>2, <2>3, Removed
    <2>5. DOMAIN entrants' = 1..(Len(entrants) - 1) /\ DOMAIN entrants = 1..Len(entrants) BY <2>3, <2>4
    <2>6. \A k \in DOMAIN entrants' : k \in DOMAIN entrants /\ k + 1 \in DOMAIN entrants BY <2>5, <2>3
    <2>7. \A j, k \in DOMAIN entrants' : entrants'[j] = entrants'[k] => j = k
      <3> DEFINE from(k) == IF k < i THEN k ELSE k + 1
      <3>1. \A k \in DOMAIN entrants' : from(k) \in DOMAIN entrants /\ entrants'[k] = entrants[from(k)]
        BY <2>4, <2>5, <2>6
      <3>2. \A j, k \in DOMAIN entrants' : from(j) = from(k) => j = k BY <2>1, <2>3, <2>5
      <3> HIDE DEF from
      <3> QED BY <3>1, <3>2 DEF Registered, EntrantsOnce
    <2>8. \A j \in DOMAIN entrants' : \E k \in 1..came : entrants'[j] = Arrivals[k]
      BY <2>4, <2>5, <2>6 DEF Registered
    <2> QED BY <2>3, <2>4, <2>7, <2>8 DEF Registered, EntrantsOnce
  <1> QED BY <1>1, <1>2

\* Whoever joins has not come before.
LEMMA JoinOK == ASSUME Registered, Join PROVE Registered'
  <1> DEFINE e == Arrivals[came + 1]
  <1>1. came' = came + 1 /\ came < Len(Arrivals) /\ entrants' = Append(entrants, e) BY DEF Join
  <1>2. Arrivals \in Seq(Players) /\ \A i, j \in DOMAIN Arrivals : Arrivals[i] = Arrivals[j] => i = j
    BY ArrivalsAssumption DEF IsInjective
  <1>3. came + 1 \in DOMAIN Arrivals /\ e \in Players /\ \A k \in 1..came : k \in DOMAIN Arrivals
    BY <1>1, <1>2 DEF Registered
  <1>4. \A k \in 1..came : Arrivals[k] # e BY <1>2, <1>3 DEF Registered
  <1> HIDE DEF e
  <1>5. /\ entrants' \in Seq(Players) /\ Len(entrants') = Len(entrants) + 1
        /\ DOMAIN entrants' = 1..(Len(entrants) + 1) /\ DOMAIN entrants = 1..Len(entrants) /\ Len(entrants) \in Nat
        /\ \A k \in DOMAIN entrants : entrants'[k] = entrants[k]
        /\ entrants'[Len(entrants) + 1] = e
    BY <1>1, <1>3 DEF Registered
  <1>6. \A k \in DOMAIN entrants : entrants[k] # e BY <1>4 DEF Registered
  <1>7. \A j, k \in DOMAIN entrants' : entrants'[j] = entrants'[k] => j = k
    BY <1>5, <1>6 DEF Registered, EntrantsOnce
  <1>8. \A j \in DOMAIN entrants' : \E k \in 1..(came + 1) : entrants'[j] = Arrivals[k]
    <2> SUFFICES ASSUME NEW j \in DOMAIN entrants' PROVE \E k \in 1..(came + 1) : entrants'[j] = Arrivals[k]
      OBVIOUS
    <2>1. CASE j \in DOMAIN entrants
      <3>1. PICK k \in 1..came : entrants[j] = Arrivals[k] BY <2>1 DEF Registered
      <3>2. came \in Nat BY DEF Registered
      <3>3. entrants'[j] = entrants[j] BY <2>1, <1>5
      <3>4. k \in 1..(came + 1) BY <3>2
      <3> QED BY <3>1, <3>3, <3>4
    <2>2. CASE j = Len(entrants) + 1 BY <2>2, <1>5 DEF Registered, e
    <2> QED BY <2>1, <2>2, <1>5
  <1> QED BY <1>1, <1>5, <1>7, <1>8 DEF Registered, EntrantsOnce

-----------------------------------------------------------------------------
\* Types.

IsFcn(f) == f = [x \in DOMAIN f |-> f[x]]
Fates == {"none", "registered", "active", "eliminated", "winner"}
Job == [pc : {"idle", "lock", "write", "seat", "bye", "finish", "forfeit", "unseat", "oust"},
        match : Matches, verdict : Someone, bye : BOOLEAN, entry : Someone, row : Row]

\* The committed bracket.
RowsTyped ==
  /\ IsFcn(rows) /\ DOMAIN rows \subseteq Matches /\ Fed(DOMAIN rows)
  /\ \A m \in DOMAIN rows : RowOK(rows[m])

\* Who is at a match is at one of the bracket; who puts a player out was refused him.
InMatch == {"lock", "write", "seat", "bye", "unseat", "oust"}
Putting == {"forfeit", "unseat", "oust"}
JobOK(p) ==
  /\ job[p] \in Job
  /\ job[p].pc \in InMatch => job[p].match \in DOMAIN rows
  /\ job[p].pc = "seat" => ~Final(job[p].match)
  /\ job[p].entry \in refused \cup {NoOne}
  /\ job[p].pc \in Putting => job[p].entry # NoOne
JobsTyped == IsFcn(job) /\ DOMAIN job = Procs /\ \A p \in Procs : JobOK(p)

\* A transaction: what it holds is open for everyone else, and what it has written
\* it holds.
Outside == {"idle", "finish", "forfeit", "unseat", "oust"}
Tx(p) ==
  /\ job[p].pc \in {"write", "seat"} => job[p].match \in locks[p]
  /\ job[p].pc \in Outside => locks[p] = {}
  /\ locks[p] = {} => DOMAIN dirty[p] = {} /\ DOMAIN marks[p] = {}
  /\ \A m \in locks[p] : m \in DOMAIN rows /\ ~rows[m].resolved
  /\ \A m \in DOMAIN dirty[p] :
       /\ m \in DOMAIN rows /\ ~rows[m].resolved
       /\ RowOK(dirty[p][m]) /\ (dirty[p][m].resolved => m \in locks[p])
  /\ job[p].pc = "write" => ~Seen(p, job[p].match).resolved
Marked(p) == \A e \in DOMAIN marks[p] : e \in Players /\ marks[p][e] \in Fates
Apart(p, q) == locks[p] \cap locks[q] = {} /\ DOMAIN dirty[p] \cap DOMAIN dirty[q] = {}
TxTyped ==
  /\ IsFcn(locks) /\ DOMAIN locks = Procs
  /\ IsFcn(dirty) /\ DOMAIN dirty = Procs
  /\ IsFcn(marks) /\ DOMAIN marks = Procs
  /\ \A p \in Procs : Tx(p) /\ IsFcn(dirty[p]) /\ Marked(p)
  /\ \A p, q \in Procs : p # q => Apart(p, q)

ListTyped == \A x \in list : x.match \in DOMAIN rows /\ x.row \in Row
FateTyped == fate \in [Players -> Fates]

\* The tournament begins without a bracket and has one while it runs.
Phases ==
  /\ tstate \in {"registration", "running", "finished", "cancelled"}
  /\ tstate = "registration" => rows = <<>>
  /\ tstate = "running" => rows # <<>>
  /\ clock \in 0..Rounds /\ (rows = <<>> => clock = 0)
  /\ refused \subseteq Players /\ hooked \subseteq Players
  /\ crashes \in Nat /\ cancels \in Nat

IInv == Registered /\ RowsTyped /\ JobsTyped /\ TxTyped /\ ListTyped /\ FateTyped /\ Phases

\* The tick is a process, and so is every worker.
LEMMA ProcsFacts == Ticker \in Procs /\ \A w \in Workers : w \in Procs
  BY DEF Procs

\* Nobody is not a player.
LEMMA NoneIsNobody == \A e \in Players : e # NoOne
  BY NoOneAssumption

\* The tournament begins well typed.
LEMMA InitIInv == Init => IInv
  <1> SUFFICES ASSUME Init PROVE IInv OBVIOUS
  <1> USE DEF Init
  <1>1. Registered
    <2>1. entrants \in Seq(Players) /\ Len(entrants) = 0 /\ DOMAIN entrants = {} OBVIOUS
    <2>2. Len(Arrivals) \in Nat BY ArrivalsAssumption
    <2> QED BY <2>1, <2>2 DEF Registered, EntrantsOnce
  <1>2. DOMAIN rows = {} OBVIOUS
  <1>3. RowsTyped BY <1>2 DEF RowsTyped, IsFcn, Fed
  <1>4. Idle \in Job BY FirstMatch, EmptyOK DEF Idle, Job, Someone, RowOK
  <1>5. JobsTyped BY <1>4 DEF JobsTyped, JobOK, IsFcn, Idle, InMatch, Putting
  <1>6. TxTyped BY DEF TxTyped, Tx, Marked, Apart, IsFcn, Idle
  <1>7. ListTyped /\ FateTyped BY DEF ListTyped, FateTyped, Fates
  <1>8. Phases BY RoundsLemma DEF Phases, RoundsOK
  <1> QED BY <1>1, <1>3, <1>5, <1>6, <1>7, <1>8 DEF IInv

-----------------------------------------------------------------------------
\* What a step does to the transactions.

\* One function laid over another.
LEMMA OverFacts ==
  ASSUME NEW f, NEW g
  PROVE  /\ IsFcn(Over(f, g)) /\ DOMAIN Over(f, g) = DOMAIN f \cup DOMAIN g
         /\ \A x \in DOMAIN f : Over(f, g)[x] = f[x]
         /\ \A x \in DOMAIN g : x \notin DOMAIN f => Over(f, g)[x] = g[x]
  BY DEF Over, IsFcn

\* The step is p's: the others are where they were.
OthersStay(p) ==
  /\ IsFcn(job') /\ DOMAIN job' = Procs
  /\ IsFcn(locks') /\ DOMAIN locks' = Procs
  /\ IsFcn(dirty') /\ DOMAIN dirty' = Procs
  /\ IsFcn(marks') /\ DOMAIN marks' = Procs
  /\ \A q \in Others(p) : /\ job'[q] = job[q] /\ locks'[q] = locks[q]
                         /\ dirty'[q] = dirty[q] /\ marks'[q] = marks[q]

\* A step of p keeps the types of the others' transactions, if what they hold stays
\* open and p takes none of it.
LEMMA StepTyped ==
  ASSUME IInv, NEW p \in Procs, OthersStay(p), refused \subseteq refused',
         DOMAIN rows' = DOMAIN rows,
         \A q \in Others(p) : \A m \in locks[q] \cup DOMAIN dirty[q] : ~rows'[m].resolved,
         \A q \in Others(p) : Apart(p, q)',
         JobOK(p)', Tx(p)', IsFcn(dirty[p])', Marked(p)'
  PROVE  JobsTyped' /\ TxTyped'
  <1>1. ASSUME NEW q \in Others(p) PROVE JobOK(q)'
    <2>1. JobOK(q) /\ job'[q] = job[q] BY DEF Others, IInv, JobsTyped, OthersStay
    <2> QED BY <2>1 DEF JobOK, Final
  <1>2. ASSUME NEW q \in Others(p) PROVE Tx(q)' /\ IsFcn(dirty[q])' /\ Marked(q)'
    <2>1. /\ Tx(q) /\ IsFcn(dirty[q]) /\ Marked(q)
          /\ job'[q] = job[q] /\ locks'[q] = locks[q] /\ dirty'[q] = dirty[q] /\ marks'[q] = marks[q]
      BY DEF Others, IInv, TxTyped, OthersStay
    <2>2. \A m \in locks[q] \cup DOMAIN dirty[q] : ~rows'[m].resolved OBVIOUS
    <2>3. job[q].pc = "write" => job[q].match \in locks[q] /\ ~Seen(q, job[q].match)' .resolved
      BY <2>1, <2>2 DEF Tx, Seen
    <2>4. Tx(q)' BY <2>1, <2>2, <2>3 DEF Tx
    <2> QED BY <2>1, <2>4 DEF IsFcn, Marked
  <1>3. \A q \in Procs : q = p \/ q \in Others(p) BY DEF Others
  <1>4. ASSUME NEW q \in Procs, NEW r \in Procs, q # r PROVE Apart(q, r)'
    <2>1. CASE q = p BY <2>1, <1>4, <1>3
    <2>2. CASE r = p
      <3>1. Apart(p, q)' BY <2>2, <1>4, <1>3
      <3> QED BY <3>1, <2>2 DEF Apart
    <2>3. CASE q # p /\ r # p
      <3>1. /\ locks'[q] = locks[q] /\ dirty'[q] = dirty[q]
            /\ locks'[r] = locks[r] /\ dirty'[r] = dirty[r] BY <2>3 DEF Others, OthersStay
      <3>2. Apart(q, r) BY <1>4 DEF IInv, TxTyped
      <3> QED BY <3>1, <3>2 DEF Apart
    <2> QED BY <2>1, <2>2, <2>3
  <1>5. JobsTyped' BY <1>1, <1>3 DEF JobsTyped, OthersStay
  <1>6. TxTyped' BY <1>2, <1>3, <1>4 DEF TxTyped, OthersStay
  <1> QED BY <1>5, <1>6

\* What a job must be for the transaction it is in.
Fits(p, j) ==
  /\ j \in Job
  /\ j.pc \in InMatch => j.match \in DOMAIN rows
  /\ j.pc = "seat" => ~Final(j.match)
  /\ j.pc \in Putting => j.entry # NoOne
  /\ j.pc \in {"write", "seat"} => j.match \in locks[p]
  /\ j.pc \in Outside => locks[p] = {}
  /\ j.pc = "write" => ~Seen(p, j.match).resolved

\* No match is resolved or reopened, and no transaction changes.
Open == {m \in DOMAIN rows : ~rows[m].resolved}
SameOpen == DOMAIN rows' = DOMAIN rows /\ \A m \in DOMAIN rows : rows'[m].resolved = rows[m].resolved

\* p moves on, and takes and writes nothing.
LEMMA JobStep ==
  ASSUME IInv, NEW p \in Procs, NEW j, job' = [job EXCEPT ![p] = j],
         Fits(p, j), j.entry \in refused' \cup {NoOne}, refused \subseteq refused',
         SameOpen, UNCHANGED transaction
  PROVE  JobsTyped' /\ TxTyped'
  <1> USE DEF transaction
  <1>1. /\ IsFcn(job) /\ DOMAIN job = Procs /\ IsFcn(locks) /\ DOMAIN locks = Procs
        /\ IsFcn(dirty) /\ DOMAIN dirty = Procs /\ IsFcn(marks) /\ DOMAIN marks = Procs
    BY DEF IInv, JobsTyped, TxTyped
  <1>2. job'[p] = j /\ IsFcn(job') /\ DOMAIN job' = Procs /\ \A q \in Others(p) : job'[q] = job[q]
    BY <1>1 DEF IsFcn, Others
  <1>3. OthersStay(p) BY <1>1, <1>2 DEF OthersStay, IsFcn
  <1>4. Tx(p) /\ IsFcn(dirty[p]) /\ Marked(p) /\ \A q \in Others(p) : Tx(q) /\ Apart(p, q)
    BY DEF IInv, TxTyped, Others
  <1>5. \A m \in DOMAIN rows : rows'[m].resolved = rows[m].resolved BY DEF SameOpen
  <1>6. \A q \in Others(p) : \A m \in locks[q] \cup DOMAIN dirty[q] : ~rows'[m].resolved
    BY <1>4, <1>5 DEF Tx
  <1>7. \A q \in Others(p) : Apart(p, q)' BY <1>4 DEF Apart
  <1>8. JobOK(p)' BY <1>2 DEF JobOK, Fits, SameOpen, Final
  <1>9. j.pc = "write" => ~(Seen(p, j.match)').resolved
    <2>1. j.pc = "write" => j.match \in DOMAIN rows BY DEF Fits, InMatch
    <2> QED BY <2>1, <1>5 DEF Fits, Seen
  <1>10. Tx(p)' BY <1>2, <1>4, <1>5, <1>9 DEF Tx, Fits, SameOpen
  <1>11. IsFcn(dirty[p])' /\ Marked(p)' BY <1>4 DEF IsFcn, Marked
  <1>12. DOMAIN rows' = DOMAIN rows BY DEF SameOpen
  <1> QED BY <1>3, <1>6, <1>7, <1>8, <1>10, <1>11, <1>12, StepTyped

\* p's transaction writes one more match.
LEMMA WriteStep ==
  ASSUME IInv, NEW p \in Procs, NEW j, NEW m \in DOMAIN rows, NEW row, NEW mk,
         job' = [job EXCEPT ![p] = j], Fits(p, j), j.entry \in refused \cup {NoOne},
         j.pc \notin Outside \cup {"write"},
         dirty' = [dirty EXCEPT ![p] = Put(@, m, row)], marks' = [marks EXCEPT ![p] = mk],
         locks[p] # {}, ~rows[m].resolved, RowOK(row), row.resolved => m \in locks[p], RowFree(p, m),
         \A e \in DOMAIN mk : e \in Players /\ mk[e] \in Fates,
         UNCHANGED <<rows, locks, refused>>
  PROVE  JobsTyped' /\ TxTyped'
  <1>1. /\ IsFcn(job) /\ DOMAIN job = Procs /\ IsFcn(locks) /\ DOMAIN locks = Procs
        /\ IsFcn(dirty) /\ DOMAIN dirty = Procs /\ IsFcn(marks) /\ DOMAIN marks = Procs
    BY DEF IInv, JobsTyped, TxTyped
  <1> DEFINE d == Put(dirty[p], m, row)
  <1>2. /\ job'[p] = j /\ IsFcn(job') /\ DOMAIN job' = Procs /\ \A q \in Others(p) : job'[q] = job[q]
        /\ dirty'[p] = d /\ IsFcn(dirty') /\ DOMAIN dirty' = Procs /\ \A q \in Others(p) : dirty'[q] = dirty[q]
        /\ marks'[p] = mk /\ IsFcn(marks') /\ DOMAIN marks' = Procs /\ \A q \in Others(p) : marks'[q] = marks[q]
    BY <1>1 DEF IsFcn, Others
  <1>3. /\ IsFcn(d) /\ DOMAIN d = DOMAIN dirty[p] \cup {m} /\ d[m] = row
        /\ \A x \in DOMAIN dirty[p] : x # m => d[x] = dirty[p][x]
    BY DEF Put, IsFcn
  <1> HIDE DEF d
  <1>4. OthersStay(p) BY <1>1, <1>2 DEF OthersStay, IsFcn
  <1>5. Tx(p) /\ \A q \in Others(p) : Tx(q) /\ Apart(p, q)
    BY DEF IInv, TxTyped, Others
  <1>6. \A q \in Others(p) : \A k \in locks[q] \cup DOMAIN dirty[q] : ~rows'[k].resolved
    BY <1>5 DEF Tx
  <1>7. ASSUME NEW q \in Others(p) PROVE Apart(p, q)'
    <2>1. Apart(p, q) /\ m \notin DOMAIN dirty[q] BY <1>5 DEF RowFree
    <2> QED BY <2>1, <1>2, <1>3 DEF Apart
  <1>8. JobOK(p)' BY <1>2 DEF JobOK, Fits, Final
  <1>9. ASSUME NEW x \in DOMAIN d
        PROVE x \in DOMAIN rows /\ ~rows[x].resolved /\ RowOK(d[x]) /\ (d[x].resolved => x \in locks[p])
    BY <1>3, <1>5 DEF Tx
  <1>10. Tx(p)' BY <1>2, <1>5, <1>9 DEF Tx, Fits
  <1>11. IsFcn(dirty[p])' /\ Marked(p)' BY <1>2, <1>3 DEF IsFcn, Marked
  <1> QED BY <1>4, <1>6, <1>7, <1>8, <1>10, <1>11, StepTyped

\* p takes the lock of the match it is at.
LEMMA GrabStep ==
  ASSUME IInv, NEW p \in Procs, NEW j, NEW m \in DOMAIN rows,
         job' = [job EXCEPT ![p] = j], j \in Job, j.match = m, j.pc = "write",
         j.entry \in refused \cup {NoOne},
         locks' = [locks EXCEPT ![p] = @ \cup {m}],
         ~Seen(p, m).resolved, LockFree(p, m),
         UNCHANGED <<rows, dirty, marks, refused>>
  PROVE  JobsTyped' /\ TxTyped'
  <1>1. /\ IsFcn(job) /\ DOMAIN job = Procs /\ IsFcn(locks) /\ DOMAIN locks = Procs
        /\ IsFcn(dirty) /\ DOMAIN dirty = Procs /\ IsFcn(marks) /\ DOMAIN marks = Procs
    BY DEF IInv, JobsTyped, TxTyped
  <1>2. /\ job'[p] = j /\ IsFcn(job') /\ DOMAIN job' = Procs /\ \A q \in Others(p) : job'[q] = job[q]
        /\ locks'[p] = locks[p] \cup {m} /\ IsFcn(locks') /\ DOMAIN locks' = Procs
        /\ \A q \in Others(p) : locks'[q] = locks[q]
    BY <1>1 DEF IsFcn, Others
  <1>4. OthersStay(p) BY <1>1, <1>2 DEF OthersStay, IsFcn
  <1>5. Tx(p) /\ IsFcn(dirty[p]) /\ Marked(p) /\ \A q \in Others(p) : Tx(q) /\ Apart(p, q)
    BY DEF IInv, TxTyped, Others
  <1>6. \A q \in Others(p) : \A k \in locks[q] \cup DOMAIN dirty[q] : ~rows'[k].resolved
    BY <1>5 DEF Tx
  <1>7. ASSUME NEW q \in Others(p) PROVE Apart(p, q)'
    <2>1. Apart(p, q) /\ m \notin locks[q] BY <1>5 DEF LockFree
    <2> QED BY <2>1, <1>2 DEF Apart
  <1>8. JobOK(p)' BY <1>2 DEF JobOK, InMatch, Putting
  <1>9. ~rows[m].resolved BY <1>5 DEF Seen, Tx
  <1>10. Tx(p)'
    <2>1. ~(Seen(p, m)').resolved BY DEF Seen
    <2> QED BY <2>1, <1>2, <1>5, <1>9 DEF Tx, Outside
  <1>11. IsFcn(dirty[p])' /\ Marked(p)' BY <1>5 DEF IsFcn, Marked
  <1> QED BY <1>4, <1>6, <1>7, <1>8, <1>10, <1>11, StepTyped

\* The transaction is over: what p held is nobody's.
LEMMA EndStep ==
  ASSUME IInv, NEW p \in Procs, NEW j, job' = [job EXCEPT ![p] = j], Gone(p),
         j \in Job, j.pc \in {"idle", "finish"}, j.entry = NoOne,
         refused' = refused, DOMAIN rows' = DOMAIN rows,
         \A q \in Others(p) : \A k \in locks[q] \cup DOMAIN dirty[q] : ~rows'[k].resolved
  PROVE  JobsTyped' /\ TxTyped'
  <1>1. /\ IsFcn(job) /\ DOMAIN job = Procs /\ IsFcn(locks) /\ DOMAIN locks = Procs
        /\ IsFcn(dirty) /\ DOMAIN dirty = Procs /\ IsFcn(marks) /\ DOMAIN marks = Procs
    BY DEF IInv, JobsTyped, TxTyped
  <1>2. /\ job'[p] = j /\ IsFcn(job') /\ DOMAIN job' = Procs /\ \A q \in Others(p) : job'[q] = job[q]
        /\ locks'[p] = {} /\ IsFcn(locks') /\ DOMAIN locks' = Procs
        /\ \A q \in Others(p) : locks'[q] = locks[q]
        /\ dirty'[p] = <<>> /\ IsFcn(dirty') /\ DOMAIN dirty' = Procs /\ \A q \in Others(p) : dirty'[q] = dirty[q]
        /\ marks'[p] = <<>> /\ IsFcn(marks') /\ DOMAIN marks' = Procs /\ \A q \in Others(p) : marks'[q] = marks[q]
    BY <1>1 DEF IsFcn, Others, Gone
  <1>3. OthersStay(p) BY <1>2 DEF OthersStay
  <1>4. \A q \in Others(p) : Apart(p, q)' BY <1>2 DEF Apart
  <1>5. JobOK(p)' BY <1>2 DEF JobOK, InMatch, Putting
  <1>6. Tx(p)' BY <1>2 DEF Tx
  <1>7. IsFcn(dirty[p])' /\ Marked(p)' BY <1>2 DEF IsFcn, Marked
  <1> QED BY <1>3, <1>4, <1>5, <1>6, <1>7, StepTyped

\* Who is done is well typed.
LEMMA IdleOK ==
  /\ Idle \in Job /\ Idle.pc = "idle" /\ Idle.entry = NoOne
  /\ \A pc \in {"idle", "finish"} : LET j == [Idle EXCEPT !.pc = pc] IN j \in Job /\ j.pc = pc /\ j.entry = NoOne
  BY FirstMatch, EmptyOK DEF Idle, Job, Someone, RowOK

\* A commit: what the transaction wrote is there.
LEMMA CommitStep ==
  ASSUME IInv, NEW p \in Procs, NEW W, NEW mk, Commit(p, W, mk), refused' = refused,
         DOMAIN W \subseteq DOMAIN rows,
         \A m \in DOMAIN W : RowOK(W[m]) /\ RowFree(p, m) /\ (W[m].resolved => m \in locks[p]),
         \A e \in DOMAIN mk : e \in Players /\ mk[e] \in Fates
  PROVE  JobsTyped' /\ TxTyped' /\ RowsTyped' /\ FateTyped' /\ DOMAIN rows' = DOMAIN rows
  <1>1. /\ rows' = Over(W, rows) /\ fate' = Over(mk, fate) /\ Gone(p)
        /\ job' = [job EXCEPT ![p] = [Idle EXCEPT !.pc = IF Decided' THEN "finish" ELSE "idle"]]
    BY DEF Commit
  <1>2. /\ IsFcn(rows') /\ DOMAIN rows' = DOMAIN rows
        /\ \A m \in DOMAIN W : rows'[m] = W[m]
        /\ \A m \in DOMAIN rows : m \notin DOMAIN W => rows'[m] = rows[m]
    <2> HIDE DEF Commit
    <2>1. /\ IsFcn(Over(W, rows)) /\ DOMAIN Over(W, rows) = DOMAIN W \cup DOMAIN rows
          /\ \A x \in DOMAIN W : Over(W, rows)[x] = W[x]
          /\ \A x \in DOMAIN rows : x \notin DOMAIN W => Over(W, rows)[x] = rows[x]
      BY OverFacts
    <2> QED BY <2>1, <1>1
  <1>3. RowsTyped' BY <1>2 DEF IInv, RowsTyped
  <1>4. FateTyped'
    <2>1. /\ IsFcn(Over(mk, fate)) /\ DOMAIN Over(mk, fate) = DOMAIN mk \cup DOMAIN fate
          /\ \A x \in DOMAIN mk : Over(mk, fate)[x] = mk[x]
          /\ \A x \in DOMAIN fate : x \notin DOMAIN mk => Over(mk, fate)[x] = fate[x]
      BY OverFacts
    <2>2. fate \in [Players -> Fates] BY DEF IInv, FateTyped
    <2>3. DOMAIN fate' = Players /\ fate' = [x \in Players |-> fate'[x]]
      BY <2>1, <2>2, <1>1 DEF IsFcn
    <2>4. \A x \in Players : fate'[x] \in Fates BY <2>1, <2>2, <1>1
    <2> QED BY <2>3, <2>4 DEF FateTyped
  <1>5. ASSUME NEW q \in Others(p), NEW k \in locks[q] \cup DOMAIN dirty[q] PROVE ~rows'[k].resolved
    <2>1. Tx(q) /\ Apart(p, q) BY DEF IInv, TxTyped, Others
    <2>2. k \in DOMAIN rows /\ ~rows[k].resolved BY <2>1 DEF Tx
    <2>3. CASE k \in DOMAIN W
      <3>1. k \notin DOMAIN dirty[q] BY <2>3 DEF RowFree
      <3>2. k \notin locks[p] BY <3>1, <2>1 DEF Apart
      <3> QED BY <3>2, <2>3, <1>2
    <2>4. CASE k \notin DOMAIN W BY <2>2, <2>4, <1>2
    <2> QED BY <2>3, <2>4
  <1> DEFINE j == [Idle EXCEPT !.pc = IF Decided' THEN "finish" ELSE "idle"]
  <1>6. j \in Job /\ j.pc \in {"idle", "finish"} /\ j.entry = NoOne BY IdleOK
  <1>7. job' = [job EXCEPT ![p] = j] BY <1>1
  <1> HIDE DEF j
  <1>8. JobsTyped' /\ TxTyped' BY <1>1, <1>2, <1>5, <1>6, <1>7, EndStep
  <1> QED BY <1>2, <1>3, <1>4, <1>8

-----------------------------------------------------------------------------
\* The type invariant, action by action.

\* Nobody moves and nothing is written.
LEMMA Same ==
  ASSUME IInv, UNCHANGED <<rows, job, locks, dirty, marks, refused>>
  PROVE  RowsTyped' /\ JobsTyped' /\ TxTyped'
  <1>1. RowsTyped' BY DEF IInv, RowsTyped, IsFcn
  <1>2. JobsTyped' BY DEF IInv, JobsTyped, JobOK, IsFcn, Final
  <1>3. \A p \in Procs : Tx(p)'
    <2> TAKE p \in Procs
    <2>1. Tx(p) BY DEF IInv, TxTyped
    <2> QED BY <2>1 DEF Tx, Seen
  <1>4. TxTyped' BY <1>3 DEF IInv, TxTyped, Marked, Apart, IsFcn
  <1> QED BY <1>1, <1>2, <1>4

\* What a step of the bracket leaves alone.
LEMMA InBracket ==
  ASSUME IInv, NEW m \in DOMAIN rows, DOMAIN rows' = DOMAIN rows, list' \subseteq list,
         UNCHANGED <<tstate, entrants, came, clock, refused, hooked, crashes, cancels>>
  PROVE  Registered' /\ ListTyped' /\ Phases'
  <1>1. Registered' BY DEF IInv, Registered, EntrantsOnce
  <1>2. ListTyped' BY DEF IInv, ListTyped
  <1>3. rows # <<>> /\ rows' # <<>> BY DEF IInv
  <1>4. Phases' BY <1>3 DEF IInv, Phases
  <1> QED BY <1>1, <1>2, <1>4

\* What a transaction sees of a match is a row, and one that is open to it is open
\* to everyone.
LEMMA SeenOK ==
  ASSUME IInv, NEW p \in Procs, NEW m \in DOMAIN rows
  PROVE  /\ RowOK(Seen(p, m)) /\ SeatsOK(Seen(p, m))
         /\ ~Seen(p, m).resolved => ~rows[m].resolved
  <1>1. Tx(p) /\ RowOK(rows[m]) BY DEF IInv, TxTyped, RowsTyped
  <1>2. RowOK(Seen(p, m)) BY <1>1 DEF Tx, Seen
  <1>3. ~Seen(p, m).resolved => ~rows[m].resolved BY <1>1 DEF Tx, Seen
  <1> QED BY <1>2, <1>3, RowSeats DEF RowOK

\* What the type invariant says of one process.
LEMMA JobIs == ASSUME IInv, NEW p \in Procs PROVE JobOK(p) /\ Tx(p) /\ Marked(p) /\ job[p] \in Job
  BY DEF IInv, JobsTyped, TxTyped, JobOK

\* The actions, one by one: a registration and what becomes of it.
LEMMA JoinKeeps == ASSUME IInv, Join PROVE IInv'
  <1>1. Registered' BY JoinOK DEF IInv
  <1>2. RowsTyped' /\ JobsTyped' /\ TxTyped' BY Same DEF Join, transaction
  <1>3. Arrivals[came'] \in Players
    <2>1. came' \in 1..Len(Arrivals) BY DEF IInv, Registered, Join
    <2> QED BY <2>1, ArrivalsAssumption
  <1>4. FateTyped' BY <1>3 DEF Join, IInv, FateTyped, Fates
  <1>5. Phases' /\ ListTyped' BY <1>3 DEF Join, IInv, Phases, ListTyped
  <1> QED BY <1>1, <1>2, <1>4, <1>5 DEF IInv

\* A withdrawal.
LEMMA LeaveKeeps == ASSUME IInv, NEW e \in Players, Leave(e) PROVE IInv'
  <1>1. Registered' BY WithdrawnOK DEF IInv, Leave, history
  <1>2. RowsTyped' /\ JobsTyped' /\ TxTyped' BY Same DEF Leave, transaction, history
  <1>4. FateTyped' BY DEF Leave, Withdrawn, IInv, FateTyped, Fates
  <1>5. Phases' /\ ListTyped' BY DEF Leave, IInv, Phases, ListTyped, history
  <1> QED BY <1>1, <1>2, <1>4, <1>5 DEF IInv

\* A refusal by the game.
LEMMA HookRefusesKeeps == ASSUME IInv, NEW p \in Procs, NEW e \in Players, HookRefuses(p, e) PROVE IInv'
  <1> USE DEF HookRefuses
  <1>1. Registered' /\ FateTyped'
    <2>1. CASE Withdrawn(e)
      <3>1. Registered' BY <2>1, WithdrawnOK DEF IInv
      <3>2. FateTyped' BY <2>1 DEF Withdrawn, IInv, FateTyped, Fates
      <3> QED BY <3>1, <3>2
    <2>2. CASE UNCHANGED <<entrants, fate>> BY <2>2 DEF IInv, Registered, EntrantsOnce, FateTyped
    <2> QED BY <2>1, <2>2
  <1>2. JobsTyped' /\ TxTyped'
    <2> DEFINE j == IF Forfeits THEN [job[p] EXCEPT !.pc = "forfeit", !.entry = e] ELSE job[p]
    <2>1. job' = [job EXCEPT ![p] = j] BY DEF IInv, JobsTyped, IsFcn
    <2>2. job[p] \in Job /\ job[p].pc = "idle" /\ locks[p] = {} /\ job[p].entry \in refused \cup {NoOne}
      BY JobIs DEF JobOK, Tx, Outside
    <2>3. Fits(p, j) /\ j.entry \in refused' \cup {NoOne}
      BY <2>2, NoneIsNobody DEF Fits, Job, InMatch, Putting, Outside, Someone
    <2> HIDE DEF j
    <2>4. SameOpen /\ refused \subseteq refused' /\ UNCHANGED transaction BY DEF SameOpen
    <2> QED BY <2>1, <2>3, <2>4, JobStep
  <1>3. RowsTyped' BY DEF IInv, RowsTyped, IsFcn
  <1>4. Phases' /\ ListTyped' BY DEF IInv, Phases, ListTyped
  <1> QED BY <1>1, <1>2, <1>3, <1>4 DEF IInv

\* Nobody is at a match before there is a bracket.
LEMMA NoBracket ==
  ASSUME IInv, DOMAIN rows = {}
  PROVE  /\ list = {} /\ \A p \in Procs : /\ job[p].pc \notin InMatch
                                         /\ locks[p] = {} /\ DOMAIN dirty[p] = {} /\ DOMAIN marks[p] = {}
  BY DEF IInv, ListTyped, TxTyped, Tx, JobsTyped, JobOK

\* Two came, and no more than the bracket has room for.
LEMMA DrawIsEnough == ASSUME IInv, ~(Len(entrants) < 2) PROVE Enough
  <1>1. Len(Arrivals) <= Width[Rounds] /\ Len(Arrivals) \in Nat /\ Width[Rounds] \in Nat
    BY ArrivalsAssumption, RoundsAssumption, WidthNat
  <1> QED BY <1>1 DEF IInv, Registered, Enough

\* The draw.
LEMMA DrawKeeps == ASSUME IInv, Draw PROVE IInv'
  <1>1. Registered'
    <2>1. CASE entrants' = entrants /\ came' = came BY <2>1 DEF IInv, Registered, EntrantsOnce
    <2>2. CASE entrants' = <<>> /\ came' = came BY <2>2 DEF IInv, Registered, EntrantsOnce
    <2> QED BY <2>1, <2>2 DEF Draw
  <1>2. FateTyped' BY DEF IInv, Draw, FateTyped, Fates
  <1>3. CASE Len(entrants) < 2
    <2>1. RowsTyped' /\ JobsTyped' /\ TxTyped' BY <1>3, Same DEF Draw, transaction
    <2>2. Phases' /\ ListTyped' BY <1>3 DEF Draw, IInv, Phases, ListTyped
    <2> QED BY <1>1, <1>2, <2>1, <2>2 DEF IInv
  <1>4. CASE ~(Len(entrants) < 2)
    <2>1. Enough BY <1>4, DrawIsEnough
    <2>2. rows = <<>> /\ DOMAIN rows = {} BY DEF IInv, Phases, Draw
    <2>3. rows' = Bracket BY <1>4 DEF Draw
    <2>4. RowsTyped' BY <2>1, <2>3, BracketOK DEF RowsTyped, IsFcn
    <2>5. JobsTyped' BY <2>2, NoBracket DEF IInv, JobsTyped, JobOK, IsFcn, Draw, InMatch
    <2>6. \A p \in Procs : Tx(p)'
      BY <2>2, NoBracket DEF Tx, Draw, transaction, InMatch
    <2>7. TxTyped' BY <2>6 DEF IInv, TxTyped, Marked, Apart, IsFcn, Draw, transaction
    <2>8. ListTyped' BY <2>2, NoBracket DEF ListTyped, Draw
    <2>9. Phases' BY <1>4, <2>1, <2>3, BracketOK DEF IInv, Phases, Draw
    <2> QED BY <1>1, <1>2, <2>4, <2>5, <2>7, <2>8, <2>9 DEF IInv
  <1> QED BY <1>3, <1>4

\* A cancel.
LEMMA CancelKeeps == ASSUME IInv, Cancel PROVE IInv'
  <1> USE DEF Cancel
  <1>1. RowsTyped' /\ JobsTyped' /\ TxTyped' BY Same DEF transaction
  <1>2. Registered' /\ FateTyped' BY DEF IInv, Registered, EntrantsOnce, FateTyped
  <1>3. Phases' /\ ListTyped' BY DEF IInv, Phases, ListTyped
  <1> QED BY <1>1, <1>2, <1>3 DEF IInv

\* A reopening.
LEMMA ReopenKeeps == ASSUME IInv, Reopen PROVE IInv'
  <1> USE DEF Reopen
  <1>1. RowsTyped' /\ JobsTyped' /\ TxTyped' BY Same DEF transaction
  <1>2. Registered' /\ FateTyped' BY DEF IInv, Registered, EntrantsOnce, FateTyped
  <1>3. Phases' /\ ListTyped' BY DEF IInv, Phases, ListTyped
  <1> QED BY <1>1, <1>2, <1>3 DEF IInv

\* A deadline.
LEMMA ClockKeeps == ASSUME IInv, Clock PROVE IInv'
  <1> USE DEF Clock, database, history
  <1>1. RowsTyped' /\ JobsTyped' /\ TxTyped' BY Same DEF transaction
  <1>2. Registered' /\ FateTyped' BY DEF IInv, Registered, EntrantsOnce, FateTyped
  <1>3. Phases' /\ ListTyped' BY RoundsLemma DEF IInv, Phases, ListTyped, RoundsOK
  <1> QED BY <1>1, <1>2, <1>3 DEF IInv

\* A process dies with its transaction.
LEMMA CrashKeeps == ASSUME IInv, NEW p \in Procs, Crash(p) PROVE IInv'
  <1> USE DEF Crash, database
  <1>1. \A q \in Others(p) : \A k \in locks[q] \cup DOMAIN dirty[q] : ~rows'[k].resolved
    BY DEF IInv, TxTyped, Tx, Others
  <1>2. JobsTyped' /\ TxTyped' BY <1>1, IdleOK, EndStep DEF Done
  <1>3. RowsTyped' /\ Registered' /\ FateTyped'
    BY DEF IInv, Registered, EntrantsOnce, FateTyped, RowsTyped, IsFcn
  <1>4. Phases' /\ ListTyped' BY DEF IInv, Phases, ListTyped
  <1> QED BY <1>2, <1>3, <1>4 DEF IInv

\* A step that only moves p to another place.
LEMMA MoveKeeps ==
  ASSUME IInv, NEW p \in Procs, NEW j, job' = [job EXCEPT ![p] = j],
         Fits(p, j), j.entry \in refused \cup {NoOne}, list' \subseteq list,
         UNCHANGED <<entrants, rows, clock, hooked, transaction, came, refused, crashes, cancels>>,
         FateTyped',
         tstate' = tstate \/ (tstate = "running" /\ tstate' = "finished")
  PROVE  IInv'
  <1>1. SameOpen BY DEF SameOpen
  <1>2. JobsTyped' /\ TxTyped' BY <1>1, JobStep
  <1>3. RowsTyped' /\ Registered'
    BY DEF IInv, Registered, EntrantsOnce, RowsTyped, IsFcn
  <1>4. Phases' /\ ListTyped' BY DEF IInv, Phases, ListTyped
  <1> QED BY <1>2, <1>3, <1>4 DEF IInv

\* A game's verdict.
LEMMA ReportKeeps ==
  ASSUME IInv, NEW p \in Procs, NEW m \in DOMAIN rows, NEW w \in Someone, Report(p, m, w)
  PROVE  IInv'
  <1> USE DEF Report, database, history
  <1> DEFINE j == [pc |-> "lock", match |-> m, verdict |-> w, bye |-> FALSE,
                   entry |-> NoOne, row |-> EmptyRow]
  <1>1. job' = [job EXCEPT ![p] = j] BY DEF Resolve
  <1>2. m \in Matches BY DEF IInv, RowsTyped
  <1>3. Fits(p, j) BY <1>2, EmptyOK DEF Fits, Job, Someone, RowOK, InMatch, Putting, Outside
  <1>4. FateTyped' BY DEF IInv, FateTyped
  <1>5. j.entry \in refused \cup {NoOne} OBVIOUS
  <1> HIDE DEF j
  <1> QED BY <1>1, <1>3, <1>4, <1>5, MoveKeeps

\* A match is locked and read again.
LEMMA LockKeeps == ASSUME IInv, NEW p \in Procs, Lock(p) PROVE IInv'
  <1> USE DEF Lock, history
  <1> DEFINE m == job[p].match
  <1>0. JobOK(p) /\ Tx(p) /\ Marked(p) /\ job[p] \in Job /\ m \in DOMAIN rows /\ m \in Matches
    BY JobIs DEF JobOK, InMatch, Job
  <1>1. CASE StillOpen(Seen(p, m))
    <2> DEFINE j == [job[p] EXCEPT !.pc = "write", !.row = Seen(p, m)]
    <2>1. job' = [job EXCEPT ![p] = j] BY <1>1 DEF IInv, JobsTyped, IsFcn
    <2>2. Seen(p, m) \in Row /\ ~Seen(p, m).resolved BY <1>0, <1>1, SeenOK DEF RowOK, StillOpen
    <2>3. j \in Job /\ j.match = m /\ j.pc = "write" /\ j.entry \in refused \cup {NoOne}
      BY <1>0, <2>2 DEF Job, JobOK
    <2> HIDE DEF j
    <2>4. locks' = [locks EXCEPT ![p] = @ \cup {m}] /\ UNCHANGED <<rows, dirty, marks, refused>>
      BY <1>1 DEF StillOpen
    <2>5. LockFree(p, m) OBVIOUS
    <2> HIDE DEF m, Lock
    <2>6. JobsTyped' /\ TxTyped' BY <1>0, <2>1, <2>2, <2>3, <2>4, <2>5, GrabStep
    <2>7. Registered' /\ ListTyped' /\ Phases' BY <1>0, <2>4, InBracket DEF Lock
    <2>8. RowsTyped' /\ FateTyped' BY <1>1 DEF IInv, RowsTyped, FateTyped, IsFcn, Lock, m
    <2> QED BY <2>6, <2>7, <2>8 DEF IInv
  <1>2. CASE ~StillOpen(Seen(p, m)) /\ InTransaction(p)
    <2>1. Commit(p, dirty[p], marks[p]) BY <1>2
    <2>2. \A k \in DOMAIN dirty[p] : RowFree(p, k) BY DEF IInv, TxTyped, Apart, RowFree, Others
    <2>3. JobsTyped' /\ TxTyped' /\ RowsTyped' /\ FateTyped' /\ DOMAIN rows' = DOMAIN rows
      BY <1>0, <2>1, <2>2, CommitStep DEF Tx, Marked
    <2>4. Registered' /\ ListTyped' /\ Phases' BY <1>0, <2>3, InBracket
    <2> QED BY <2>3, <2>4 DEF IInv
  <1>3. CASE ~StillOpen(Seen(p, m)) /\ ~InTransaction(p)
    <2> DEFINE j == [Idle EXCEPT !.entry = job[p].entry,
                       !.pc = IF job[p].entry = NoOne THEN "idle" ELSE "forfeit"]
    <2>1. job' = [job EXCEPT ![p] = j] /\ UNCHANGED <<rows, fate, transaction>> BY <1>3
    <2>2. Fits(p, j) /\ j.entry \in refused \cup {NoOne}
      BY <1>0, <1>3, IdleOK DEF Fits, JobOK, Job, Idle, InMatch, Putting, InTransaction
    <2>3. FateTyped' BY <2>1 DEF IInv, FateTyped
    <2> HIDE DEF j
    <2> QED BY <2>1, <2>2, <2>3, MoveKeeps
  <1> QED BY <1>1, <1>2, <1>3

\* What a verdict says of the entries.
LEMMA Marks ==
  ASSUME IInv, NEW p \in Procs
  PROVE  /\ \A e \in DOMAIN EntriesOf(p) : e \in Players /\ EntriesOf(p)[e] \in Fates
         /\ \A e \in DOMAIN Over(EntriesOf(p), marks[p]) :
              e \in Players /\ Over(EntriesOf(p), marks[p])[e] \in Fates
  <1>1. job[p].row \in Row BY JobIs DEF Job
  <1>2. Present(job[p].row) \subseteq Players BY <1>1 DEF Present, Row, Someone
  <1>3. \A e \in DOMAIN EntriesOf(p) : e \in Players /\ EntriesOf(p)[e] \in Fates
    BY <1>2 DEF EntriesOf, Fates
  <1>4. Marked(p) BY JobIs
  <1> QED BY <1>3, <1>4 DEF Marked, Over

\* A verdict is written.
LEMMA WriteKeeps == ASSUME IInv, NEW p \in Procs, Write(p) PROVE IInv'
  <1> DEFINE m == job[p].match
             verdict == job[p].verdict
             row == [Seen(p, m) EXCEPT !.resolved = TRUE, !.bye = job[p].bye,
                      !.winner = IF verdict = NoOne THEN @ ELSE verdict]
             mk == Over(EntriesOf(p), marks[p])
  <1>0. /\ JobOK(p) /\ Tx(p) /\ job[p] \in Job /\ m \in DOMAIN rows
        /\ m \in locks[p] /\ locks[p] # {} /\ ~Seen(p, m).resolved
    BY JobIs DEF JobOK, InMatch, Tx, Write
  <1>1. RowOK(Seen(p, m)) /\ ~rows[m].resolved BY <1>0, SeenOK
  <1>2. RowOK(row) /\ row.resolved BY <1>0, <1>1 DEF RowOK, Row, Job
  <1>3. \A e \in DOMAIN mk : e \in Players /\ mk[e] \in Fates BY Marks
  <1>4. RowFree(p, m) /\ UNCHANGED <<tstate, entrants, clock, hooked, list, history>> BY DEF Write
  <1>5. CASE Final(m)
    <2>1. Commit(p, Put(dirty[p], m, row), mk) BY <1>5 DEF Write
    <2> HIDE DEF row, mk, m
    <2>2. /\ DOMAIN Put(dirty[p], m, row) = DOMAIN dirty[p] \cup {m}
          /\ Put(dirty[p], m, row)[m] = row
          /\ \A x \in DOMAIN dirty[p] : x # m => Put(dirty[p], m, row)[x] = dirty[p][x]
      BY DEF Put
    <2>3. \A k \in DOMAIN dirty[p] : /\ k \in DOMAIN rows /\ RowOK(dirty[p][k]) /\ RowFree(p, k)
                                     /\ dirty[p][k].resolved => k \in locks[p]
      BY <1>0 DEF IInv, TxTyped, Tx, Apart, RowFree, Others
    <2>4. /\ DOMAIN Put(dirty[p], m, row) \subseteq DOMAIN rows
          /\ \A k \in DOMAIN Put(dirty[p], m, row) :
               /\ RowOK(Put(dirty[p], m, row)[k]) /\ RowFree(p, k)
               /\ Put(dirty[p], m, row)[k].resolved => k \in locks[p]
      BY <1>0, <1>2, <1>4, <2>2, <2>3
    <2>5. refused' = refused BY <1>4 DEF history
    <2>6. JobsTyped' /\ TxTyped' /\ RowsTyped' /\ FateTyped' /\ DOMAIN rows' = DOMAIN rows
      BY <1>3, <2>1, <2>4, <2>5, CommitStep
    <2>7. Registered' /\ ListTyped' /\ Phases' BY <1>0, <1>4, <2>6, InBracket DEF history
    <2> QED BY <2>6, <2>7 DEF IInv
  <1>6. CASE ~Final(m)
    <2> DEFINE j == [job[p] EXCEPT !.pc = "seat", !.row = EmptyRow]
    <2>1. /\ job' = [job EXCEPT ![p] = j]
          /\ dirty' = [dirty EXCEPT ![p] = Put(@, m, row)] /\ marks' = [marks EXCEPT ![p] = mk]
          /\ UNCHANGED <<rows, fate, locks>>
      BY <1>6 DEF Write, IInv, JobsTyped, IsFcn
    <2>2. Fits(p, j) /\ j.entry \in refused \cup {NoOne} /\ j.pc \notin Outside \cup {"write"}
      BY <1>0, <1>6, EmptyOK DEF Fits, JobOK, Job, InMatch, Putting, Outside, RowOK
    <2> HIDE DEF row, mk, m, j
    <2>3. JobsTyped' /\ TxTyped' BY <1>0, <1>1, <1>2, <1>3, <1>4, <2>1, <2>2, WriteStep DEF history
    <2>4. RowsTyped' /\ FateTyped' BY <2>1 DEF IInv, RowsTyped, FateTyped, IsFcn
    <2>5. Registered' /\ ListTyped' /\ Phases' BY <1>0, <1>4, <2>1, InBracket DEF history
    <2> QED BY <2>3, <2>4, <2>5 DEF IInv
  <1> QED BY <1>5, <1>6

\* Whatever p has written may be committed.
LEMMA OwnWrites ==
  ASSUME IInv, NEW p \in Procs
  PROVE  /\ DOMAIN dirty[p] \subseteq DOMAIN rows
         /\ \A m \in DOMAIN dirty[p] :
              RowOK(dirty[p][m]) /\ RowFree(p, m) /\ (dirty[p][m].resolved => m \in locks[p])
         /\ \A e \in DOMAIN marks[p] : e \in Players /\ marks[p][e] \in Fates
  BY DEF IInv, TxTyped, Tx, Marked, Apart, RowFree, Others

\* A commit of what the transaction has written.
LEMMA CommitKeeps ==
  ASSUME IInv, NEW p \in Procs, NEW m \in DOMAIN rows, Commit(p, dirty[p], marks[p]),
         UNCHANGED <<tstate, entrants, clock, hooked, list, history>>
  PROVE  IInv'
  <1>1. refused' = refused BY DEF history
  <1>2. JobsTyped' /\ TxTyped' /\ RowsTyped' /\ FateTyped' /\ DOMAIN rows' = DOMAIN rows
    BY <1>1, OwnWrites, CommitStep
  <1>3. Registered' /\ ListTyped' /\ Phases' BY <1>2, InBracket DEF history
  <1> QED BY <1>2, <1>3 DEF IInv

\* A winner is seated.
LEMMA SeatKeeps == ASSUME IInv, NEW p \in Procs, Seat(p) PROVE IInv'
  <1> DEFINE m == job[p].match
             next == Upper(m)
             row == [Seen(p, next) EXCEPT !.seat[Side(m)] = job[p].verdict]
  <1>0. /\ JobOK(p) /\ Tx(p) /\ Marked(p) /\ job[p] \in Job /\ m \in DOMAIN rows /\ locks[p] # {}
        /\ next \in DOMAIN rows /\ next \in Matches
    BY JobIs DEF JobOK, InMatch, Tx, Seat, Final, IInv, RowsTyped
  <1>1. RowFree(p, next) /\ UNCHANGED <<tstate, entrants, clock, hooked, list, history>> BY DEF Seat
  <1>2. CASE Seen(p, next).resolved
    <2>1. Commit(p, dirty[p], marks[p]) BY <1>2 DEF Seat
    <2> QED BY <1>0, <1>1, <2>1, CommitKeeps
  <1>3. CASE ~Seen(p, next).resolved
    <2> DEFINE j == [job[p] EXCEPT !.pc = "bye", !.match = next, !.row = row]
    <2>1. /\ job' = [job EXCEPT ![p] = j]
          /\ dirty' = [dirty EXCEPT ![p] = Put(@, next, row)]
          /\ UNCHANGED <<rows, fate, locks, marks>>
      BY <1>3 DEF Seat, IInv, JobsTyped, IsFcn, Answered
    <2>2. RowOK(Seen(p, next)) /\ ~rows[next].resolved BY <1>0, <1>3, SeenOK
    <2>3. m[2] \in Nat BY <1>0, MatchNames DEF IsMatch, IInv, RowsTyped
    <2>4. Side(m) \in Sides BY <2>3 DEF Side, Sides
    <2>5. RowOK(row) /\ ~row.resolved BY <1>0, <1>3, <2>2, <2>4 DEF RowOK, Row, Job
    <2>6. Fits(p, j) /\ j.entry \in refused \cup {NoOne} /\ j.pc \notin Outside \cup {"write"}
      BY <1>0, <2>5 DEF Fits, JobOK, Job, InMatch, Putting, Outside, RowOK
    <2>7. \A e \in DOMAIN marks[p] : e \in Players /\ marks[p][e] \in Fates BY OwnWrites
    <2>8. marks' = [marks EXCEPT ![p] = marks[p]] BY <2>1 DEF IInv, TxTyped, IsFcn
    <2> HIDE DEF row, j, next, m
    <2>9. JobsTyped' /\ TxTyped'
      BY <1>0, <1>1, <2>1, <2>2, <2>5, <2>6, <2>7, <2>8, WriteStep DEF history
    <2>10. RowsTyped' /\ FateTyped' BY <2>1 DEF IInv, RowsTyped, FateTyped, IsFcn
    <2>11. Registered' /\ ListTyped' /\ Phases' BY <1>0, <1>1, <2>1, InBracket DEF history
    <2> QED BY <2>9, <2>10, <2>11 DEF IInv
  <1> QED BY <1>2, <1>3

\* A bye is looked for.
LEMMA ByeKeeps == ASSUME IInv, NEW p \in Procs, Bye(p) PROVE IInv'
  <1> DEFINE m == job[p].match
             row == job[p].row
             bye == BothSettled(p, m, row) /\ Cardinality(Present(row)) < 2
  <1>0. JobOK(p) /\ Tx(p) /\ Marked(p) /\ job[p] \in Job /\ m \in DOMAIN rows /\ row \in Row
    BY JobIs DEF JobOK, InMatch, Bye, Job
  <1>1. UNCHANGED <<tstate, entrants, clock, hooked, list, history>> BY DEF Bye
  <1>2. CASE ~bye /\ InTransaction(p)
    <2>1. Commit(p, dirty[p], marks[p]) BY <1>2 DEF Bye
    <2> QED BY <1>0, <1>1, <2>1, CommitKeeps
  <1>3. CASE ~(~bye /\ InTransaction(p))
    <2>1. /\ IF bye THEN Resolve(p, m, Settles(row).winner, TRUE, job[p].entry) ELSE Done(p)
          /\ UNCHANGED <<rows, fate, transaction>>
      BY <1>3 DEF Bye
    <2>2. FateTyped' BY <2>1 DEF IInv, FateTyped
    <2>3. CASE bye
      <3> DEFINE j == [pc |-> "lock", match |-> m, verdict |-> Settles(row).winner, bye |-> TRUE,
                       entry |-> job[p].entry, row |-> EmptyRow]
      <3>1. job' = [job EXCEPT ![p] = j] BY <2>1, <2>3 DEF Resolve
      <3>2. ~Two(row) BY <1>0, <2>3, RowSeats, PresentTwo
      <3>3. Settles(row).winner \in Someone BY <1>0, <3>2, SettlesAlone
      <3>4. Fits(p, j) /\ j.entry \in refused \cup {NoOne}
        BY <1>0, <3>3, EmptyOK DEF Fits, JobOK, Job, InMatch, Putting, Outside, RowOK
      <3> HIDE DEF j
      <3> QED BY <1>1, <2>1, <2>2, <3>1, <3>4, MoveKeeps DEF history
    <2>4. CASE ~bye
      <3>1. job' = [job EXCEPT ![p] = Idle] BY <2>1, <2>4 DEF Done
      <3>2. Fits(p, Idle) BY <1>3, <2>4, IdleOK DEF Fits, InMatch, Putting, Outside, InTransaction
      <3> QED BY <1>1, <2>1, <2>2, <3>1, <3>2, IdleOK, MoveKeeps DEF history
    <2> QED BY <2>3, <2>4
  <1> QED BY <1>2, <1>3

\* The tournament is finished.
LEMMA FinishKeeps == ASSUME IInv, NEW p \in Procs, Finish(p) PROVE IInv'
  <1> USE DEF Finish
  <1>1. Fits(p, Idle) /\ job' = [job EXCEPT ![p] = Idle]
    BY IdleOK, JobIs DEF Done, Fits, InMatch, Putting, Outside, Tx
  <1>2. FateTyped' BY DEF IInv, FateTyped
  <1> QED BY <1>1, <1>2, IdleOK, MoveKeeps DEF StillRunning

\* Where an entry is still to be found.
LEMMA OpenForOK ==
  ASSUME IInv, NEW e, NEW m \in OpenFor(e)
  PROVE  m \in DOMAIN rows /\ m \in Matches /\ ~rows[m].resolved /\ e \in Present(rows[m])
  BY DEF OpenFor, IInv, RowsTyped

\* Of the open matches of an entry, one of the highest round.
Highest(T, m) == m \in T /\ \A k \in T : k[1] <= m[1]
\* A set of matches has one of the highest round.
LEMMA HighestIs == ASSUME NEW T \in SUBSET Matches, T # {} PROVE \E m \in T : Highest(T, m)
  <1> DEFINE U == {Rounds - k[1] : k \in T}
  <1>1. \A k \in T : k[1] \in 1..Rounds BY MatchNames DEF IsMatch
  <1>2. U \in SUBSET Nat /\ U # {} BY <1>1, RoundsLemma DEF RoundsOK
  <1>3. PICK x \in U : \A y \in U : x <= y BY <1>2, Least
  <1>4. PICK m \in T : x = Rounds - m[1] BY <1>3
  <1>5. ASSUME NEW k \in T PROVE k[1] <= m[1]
    <2>1. x <= Rounds - k[1] BY <1>3
    <2> QED BY <2>1, <1>1, <1>4, RoundsLemma DEF RoundsOK
  <1> QED BY <1>5 DEF Highest

\* What forfeit_entry/2 does with the match it finds.
LEMMA ForfeitFinds ==
  ASSUME IInv, NEW p \in Procs, Forfeit(p), OpenFor(job[p].entry) # {}
  PROVE  \E m \in OpenFor(job[p].entry) :
           \/ /\ Present(rows[m]) \subseteq {job[p].entry}
              /\ job' = [job EXCEPT ![p].pc = "unseat", ![p].match = m]
           \/ \E o \in Present(rows[m]) \ {job[p].entry} : Resolve(p, m, o, FALSE, job[p].entry)
  <1> DEFINE e == job[p].entry
             m == CHOOSE m \in OpenFor(e) : \A k \in OpenFor(e) : k[1] <= m[1]
             rivals == Present(rows[m]) \ {e}
  <1>1. OpenFor(e) \in SUBSET Matches BY OpenForOK
  <1>2. \E k \in OpenFor(e) : Highest(OpenFor(e), k) BY <1>1, HighestIs
  <1>3. m \in OpenFor(e) BY <1>2 DEF Highest
  <1>4. IF rivals = {} THEN job' = [job EXCEPT ![p].pc = "unseat", ![p].match = m]
        ELSE Resolve(p, m, CHOOSE o \in rivals : TRUE, FALSE, e)
    BY DEF Forfeit
  <1> HIDE DEF m
  <1>5. CASE rivals = {} BY <1>3, <1>4, <1>5
  <1>6. CASE rivals # {}
    <2> DEFINE o == CHOOSE o \in rivals : TRUE
    <2>1. o \in rivals BY <1>6
    <2> HIDE DEF o
    <2>2. Resolve(p, m, o, FALSE, e) BY <1>4, <1>6 DEF o
    <2> QED BY <1>3, <2>1, <2>2
  <1> QED BY <1>5, <1>6

\* The entry's match is looked for.
LEMMA ForfeitKeeps == ASSUME IInv, NEW p \in Procs, Forfeit(p) PROVE IInv'
  <1> DEFINE e == job[p].entry
  <1>0. JobOK(p) /\ Tx(p) /\ job[p] \in Job /\ locks[p] = {} /\ e # NoOne
    BY JobIs DEF JobOK, Forfeit, Tx, Putting, Outside
  <1>1. UNCHANGED <<database, clock, hooked, transaction, list, history>> BY DEF Forfeit
  <1>2. FateTyped' BY <1>1 DEF IInv, FateTyped, database
  <1>3. CASE OpenFor(e) = {}
    <2>1. job' = [job EXCEPT ![p] = Idle] BY <1>3 DEF Forfeit, Done
    <2>2. Fits(p, Idle) BY <1>0, IdleOK DEF Fits, InMatch, Putting
    <2> QED BY <1>1, <1>2, <2>1, <2>2, IdleOK, MoveKeeps DEF database, history
  <1>4. CASE OpenFor(e) # {}
    <2>1. PICK m \in OpenFor(e) :
            \/ job' = [job EXCEPT ![p].pc = "unseat", ![p].match = m]
            \/ \E o \in Present(rows[m]) \ {e} : Resolve(p, m, o, FALSE, e)
      BY <1>4, ForfeitFinds
    <2>2. m \in DOMAIN rows /\ m \in Matches /\ rows[m] \in Row BY OpenForOK DEF IInv, RowsTyped, RowOK
    <2>3. CASE job' = [job EXCEPT ![p].pc = "unseat", ![p].match = m]
      <3> DEFINE j == [job[p] EXCEPT !.pc = "unseat", !.match = m]
      <3>1. job' = [job EXCEPT ![p] = j] BY <2>3 DEF IInv, JobsTyped, IsFcn
      <3>2. Fits(p, j) /\ j.entry \in refused \cup {NoOne}
        BY <1>0, <2>2 DEF Fits, JobOK, Job, InMatch, Putting, Outside
      <3> HIDE DEF j
      <3> QED BY <1>1, <1>2, <3>1, <3>2, MoveKeeps DEF database, history
    <2>4. CASE \E o \in Present(rows[m]) \ {e} : Resolve(p, m, o, FALSE, e)
      <3>1. PICK o \in Present(rows[m]) : Resolve(p, m, o, FALSE, e) BY <2>4
      <3>2. o \in Someone BY <2>2 DEF Present, Row
      <3> DEFINE j == [pc |-> "lock", match |-> m, verdict |-> o, bye |-> FALSE, entry |-> e, row |-> EmptyRow]
      <3>3. job' = [job EXCEPT ![p] = j] BY <3>1 DEF Resolve
      <3>4. Fits(p, j) /\ j.entry \in refused \cup {NoOne}
        BY <1>0, <2>2, <3>2, EmptyOK DEF Fits, JobOK, Job, InMatch, Putting, Outside, RowOK
      <3> HIDE DEF j
      <3> QED BY <1>1, <1>2, <3>3, <3>4, MoveKeeps DEF database, history
    <2> QED BY <2>1, <2>3, <2>4
  <1> QED BY <1>3, <1>4

\* One row changes outside of a transaction.
LEMMA EditKeeps ==
  ASSUME IInv, NEW p \in Procs, NEW j, job' = [job EXCEPT ![p] = j],
         Fits(p, j), j.entry \in refused \cup {NoOne}, list' \subseteq list,
         NEW m \in DOMAIN rows, NEW row, rows' = [rows EXCEPT ![m] = row],
         RowOK(row), row.resolved = rows[m].resolved,
         UNCHANGED <<tstate, entrants, fate, clock, hooked, transaction, history>>
  PROVE  IInv'
  <1>1. /\ IsFcn(rows') /\ DOMAIN rows' = DOMAIN rows /\ rows'[m] = row
        /\ \A k \in DOMAIN rows : k # m => rows'[k] = rows[k]
    BY DEF IInv, RowsTyped, IsFcn
  <1>2. SameOpen BY <1>1 DEF SameOpen
  <1>3. JobsTyped' /\ TxTyped' BY <1>2, JobStep DEF history
  <1>4. RowsTyped' BY <1>1 DEF IInv, RowsTyped
  <1>5. FateTyped' BY DEF IInv, FateTyped
  <1>6. Registered' /\ ListTyped' /\ Phases' BY <1>1, InBracket DEF history
  <1> QED BY <1>3, <1>4, <1>5, <1>6 DEF IInv

\* A side is emptied.
LEMMA UnseatKeeps == ASSUME IInv, NEW p \in Procs, Unseat(p) PROVE IInv'
  <1> DEFINE m == job[p].match
             e == job[p].entry
             side == CHOOSE i \in Sides : e = rows[m].seat[i]
             row == [rows[m] EXCEPT !.seat[side] = NoOne]
  <1>0. JobOK(p) /\ Tx(p) /\ job[p] \in Job /\ locks[p] = {} /\ e # NoOne /\ m \in DOMAIN rows /\ RowOK(rows[m])
    BY JobIs DEF JobOK, Unseat, Tx, Putting, Outside, InMatch, IInv, RowsTyped
  <1>1. UNCHANGED <<tstate, entrants, fate, clock, hooked, transaction, list, history>> BY DEF Unseat
  <1>2. CASE rows[m].resolved \/ e \notin Present(rows[m])
    <2> DEFINE j == [Idle EXCEPT !.pc = "forfeit", !.entry = e]
    <2>1. job' = [job EXCEPT ![p] = j] /\ rows' = rows BY <1>2 DEF Unseat
    <2>2. Fits(p, j) /\ j.entry \in refused \cup {NoOne}
      BY <1>0, IdleOK DEF Fits, JobOK, Job, Idle, InMatch, Putting
    <2>3. FateTyped' BY <1>1 DEF IInv, FateTyped
    <2> HIDE DEF j
    <2> QED BY <1>1, <2>1, <2>2, <2>3, MoveKeeps DEF history
  <1>3. CASE ~(rows[m].resolved \/ e \notin Present(rows[m]))
    <2> DEFINE j == [job[p] EXCEPT !.pc = "oust", !.row = row]
    <2>1. job' = [job EXCEPT ![p] = j] /\ rows' = [rows EXCEPT ![m] = row]
      BY <1>3 DEF Unseat, IInv, JobsTyped, IsFcn
    <2>2. side \in Sides BY <1>3 DEF Present
    <2> HIDE DEF side
    <2>3. RowOK(row) /\ row.resolved = rows[m].resolved BY <1>0, <2>2 DEF RowOK, Row, Someone
    <2>4. Fits(p, j) /\ j.entry \in refused \cup {NoOne}
      BY <1>0, <2>3 DEF Fits, JobOK, Job, InMatch, Putting, Outside, RowOK
    <2> HIDE DEF j, row, m
    <2> QED BY <1>0, <1>1, <2>1, <2>3, <2>4, EditKeeps
  <1> QED BY <1>2, <1>3

\* The entry is out.
LEMMA OustKeeps == ASSUME IInv, NEW p \in Procs, Oust(p) PROVE IInv'
  <1> DEFINE j == [job[p] EXCEPT !.pc = "bye", !.entry = NoOne]
  <1>0. JobOK(p) /\ Tx(p) /\ job[p] \in Job BY JobIs
  <1>1. job' = [job EXCEPT ![p] = j] BY DEF Oust, IInv, JobsTyped, IsFcn
  <1>2. Fits(p, j) /\ j.entry \in refused \cup {NoOne}
    BY <1>0 DEF Oust, Fits, JobOK, Job, InMatch, Putting, Outside, Someone
  <1>3. FateTyped'
    <2>1. job[p].entry \in Players BY <1>0 DEF Oust, JobOK, Putting, Job, Someone
    <2> QED BY <2>1 DEF Oust, IInv, FateTyped, Fates
  <1> HIDE DEF j
  <1> QED BY <1>1, <1>2, <1>3, MoveKeeps DEF Oust, history

\* The tick reads what is due.
LEMMA TickKeeps == ASSUME IInv, Tick PROVE IInv'
  <1>1. UNCHANGED <<database, clock, hooked, transaction, history>> /\ job[Ticker].pc = "idle" BY DEF Tick
  <1>2. FateTyped' BY <1>1 DEF IInv, FateTyped, database
  <1>3. CASE Decided \/ clock >= Ends
    <2> DEFINE j == [job[Ticker] EXCEPT !.pc = "finish"]
    <2>1. job' = [job EXCEPT ![Ticker] = j] /\ list' = list
      BY <1>3, ProcsFacts DEF Tick, Goto, IInv, JobsTyped, IsFcn
    <2>2. Fits(Ticker, j) /\ j.entry \in refused \cup {NoOne}
      BY <1>1, ProcsFacts, JobIs DEF Fits, JobOK, Job, Tx, InMatch, Putting, Outside
    <2> HIDE DEF j
    <2> QED BY <1>1, <1>2, <2>1, <2>2, ProcsFacts, MoveKeeps DEF database, history
  <1>4. CASE ~(Decided \/ clock >= Ends)
    <2>1. /\ list' = {[match |-> m, row |-> rows[m]] : m \in {k \in DOMAIN rows : Due(k) /\ ~rows[k].resolved}}
          /\ UNCHANGED job
      BY <1>4 DEF Tick
    <2>2. RowsTyped' /\ JobsTyped' /\ TxTyped' BY <1>1, <2>1, Same DEF database, transaction, history
    <2>3. ListTyped' BY <1>1, <2>1 DEF database, ListTyped, IInv, RowsTyped, RowOK
    <2>4. Registered' /\ Phases' BY <1>1 DEF database, history, IInv, Registered, EntrantsOnce, Phases
    <2> QED BY <1>2, <2>2, <2>3, <2>4 DEF IInv
  <1> QED BY <1>3, <1>4

\* The deadline policy picks a player or nobody.
LEMMA VerdictsOK == ASSUME NEW row \in Row, NEW w \in Verdicts(row) PROVE w \in Someone
  BY DEF Verdicts, Row, Present, Someone, Sides

\* A match past its deadline is decided or marked.
LEMMA SweepKeeps == ASSUME IInv, NEW x \in list, Sweep(x) PROVE IInv'
  <1> DEFINE m == x.match
  <1>0. m \in DOMAIN rows /\ m \in Matches /\ x.row \in Row /\ RowOK(rows[m])
    BY DEF IInv, ListTyped, RowsTyped
  <1>1. /\ UNCHANGED <<tstate, entrants, fate, clock, hooked, transaction, history>> /\ job[Ticker].pc = "idle"
        /\ list' \subseteq list
    BY DEF Sweep
  <1>2. Ticker \in Procs /\ job[Ticker] \in Job /\ JobOK(Ticker) /\ Tx(Ticker) BY ProcsFacts, JobIs
  <1>3. CASE x.row.expired
    <2>1. PICK w \in Verdicts(x.row) : Resolve(Ticker, m, w, FALSE, NoOne) BY <1>3 DEF Sweep
    <2>2. w \in Someone BY <1>0, VerdictsOK
    <2> DEFINE j == [pc |-> "lock", match |-> m, verdict |-> w, bye |-> FALSE, entry |-> NoOne, row |-> EmptyRow]
    <2>3. job' = [job EXCEPT ![Ticker] = j] /\ rows' = rows BY <1>3, <2>1 DEF Resolve, Sweep
    <2>4. Fits(Ticker, j) /\ j.entry \in refused \cup {NoOne}
      BY <1>0, <2>2, EmptyOK DEF Fits, JobOK, Job, InMatch, Putting, Outside, RowOK, Someone
    <2>5. FateTyped' BY <1>1 DEF IInv, FateTyped
    <2> HIDE DEF j
    <2> QED BY <1>1, <1>2, <2>3, <2>4, <2>5, MoveKeeps DEF history
  <1>4. CASE ~x.row.expired
    <2> DEFINE row == [rows[m] EXCEPT !.expired = TRUE]
    <2>1. rows' = [rows EXCEPT ![m] = row] /\ job' = job BY <1>4 DEF Sweep, IInv, RowsTyped, IsFcn
    <2>2. RowOK(row) /\ row.resolved = rows[m].resolved BY <1>0 DEF RowOK, Row
    <2>3. job' = [job EXCEPT ![Ticker] = job[Ticker]] BY <2>1 DEF IInv, JobsTyped, IsFcn
    <2>4. Fits(Ticker, job[Ticker]) /\ job[Ticker].entry \in refused \cup {NoOne}
      BY <1>1, <1>2 DEF Fits, JobOK, Job, Tx, InMatch, Putting, Outside
    <2> HIDE DEF row, m
    <2> QED BY <1>0, <1>1, <1>2, <2>1, <2>2, <2>3, <2>4, EditKeeps
  <1> QED BY <1>3, <1>4

\* Every step keeps the types.
LEMMA IInvInductive == IInv /\ [Next]_vars => IInv'
  <1> SUFFICES ASSUME IInv, [Next]_vars PROVE IInv' OBVIOUS
  <1>1. CASE Join BY <1>1, JoinKeeps
  <1>2. CASE \E e \in Players : Leave(e) BY <1>2, LeaveKeeps
  <1>3. CASE \E p \in Workers : \E e \in Players : HookRefuses(p, e) BY <1>3, HookRefusesKeeps, ProcsFacts
  <1>4. CASE \E p \in Workers : \E m \in DOMAIN rows, w \in Someone : Report(p, m, w) BY <1>4, ReportKeeps, ProcsFacts
  <1>5. CASE Draw BY <1>5, DrawKeeps
  <1>6. CASE Cancel BY <1>6, CancelKeeps
  <1>7. CASE Reopen BY <1>7, ReopenKeeps
  <1>8. CASE Clock BY <1>8, ClockKeeps
  <1>9. CASE Tick BY <1>9, TickKeeps
  <1>10. CASE Sweeping BY <1>10, SweepKeeps DEF Sweeping
  <1>11. ASSUME NEW p \in Procs, Step(p) PROVE IInv'
    BY <1>11, LockKeeps, WriteKeeps, SeatKeeps, ByeKeeps, FinishKeeps, ForfeitKeeps, UnseatKeeps, OustKeeps DEF Step
  <1>12. ASSUME NEW p \in Procs, Crash(p) PROVE IInv' BY <1>12, CrashKeeps
  <1>13. CASE UNCHANGED vars
    <2> USE <1>13 DEF vars
    <2>1. RowsTyped' /\ JobsTyped' /\ TxTyped' BY Same DEF transaction, history
    <2>2. Registered' /\ FateTyped' /\ ListTyped' /\ Phases'
      BY DEF IInv, Registered, EntrantsOnce, FateTyped, ListTyped, Phases
    <2> QED BY <2>1, <2>2 DEF IInv
  <1> QED BY <1>1, <1>2, <1>3, <1>4, <1>5, <1>6, <1>7, <1>8, <1>9, <1>10, <1>11, <1>12, <1>13 DEF Next

\* The type invariant.
LEMMA IInvHolds == Spec => []IInv
  BY InitIInv, IInvInductive, PTL DEF Spec

\* The state is always of its types; nobody writes without a lock, or what is not a
\* match (the columns of tournaments/match.ex and entry.ex, tournaments.ex:921-933).
THEOREM TypeCorrect == Spec => []TypeOK
  <1>1. ASSUME IInv PROVE TypeOK
    <2>1. Range(entrants) \subseteq Players BY <1>1 DEF IInv, Registered, Range
    <2>2. /\ DOMAIN rows \subseteq Matches /\ \A m \in DOMAIN rows : rows[m] \in Row
          /\ \A x \in list : x.match \in DOMAIN rows /\ x.row \in Row
          /\ fate \in [Players -> {"none", "registered", "active", "eliminated", "winner"}]
      BY <1>1 DEF IInv, RowsTyped, RowOK, ListTyped, FateTyped, Fates
    <2>3. job \in [Procs -> Job]
      <3>1. job = [p \in Procs |-> job[p]] /\ \A p \in Procs : job[p] \in Job BY <1>1, JobIs DEF IInv, JobsTyped, IsFcn
      <3> QED BY <3>1
    <2>4. ASSUME NEW p \in Procs
          PROVE  /\ DOMAIN dirty[p] \subseteq DOMAIN rows
                 /\ job[p].pc \in {"write", "seat"} => locks[p] # {}
                 /\ dirty[p] # <<>> => locks[p] # {}
      <3>1. Tx(p) /\ IsFcn(dirty[p]) BY <1>1 DEF IInv, TxTyped
      <3>2. DOMAIN dirty[p] = {} => dirty[p] = <<>>
        <4>1. DOMAIN dirty[p] = {} => dirty[p] = [x \in {} |-> dirty[p][x]] BY <3>1 DEF IsFcn
        <4>2. [x \in {} |-> dirty[p][x]] = <<>> OBVIOUS
        <4> QED BY <4>1, <4>2
      <3> QED BY <3>1, <3>2 DEF Tx
    <2> QED BY <1>1, <2>1, <2>2, <2>3, <2>4 DEF TypeOK, IInv, Phases, Job
  <1> QED BY <1>1, IInvHolds, PTL

-----------------------------------------------------------------------------
\* The end.

\* A resolved match keeps its players and its verdict.
Stands(m) ==
  /\ m \in DOMAIN rows' /\ rows'[m].resolved
  /\ rows'[m].seat = rows[m].seat /\ rows'[m].winner = rows[m].winner /\ rows'[m].bye = rows[m].bye
VerdictStands == \A m \in DOMAIN rows : rows[m].resolved => Stands(m)
SameMatches == rows # <<>> => DOMAIN rows' = DOMAIN rows

\* A commit writes over no match that was decided.
LEMMA CommitStands ==
  ASSUME IInv, NEW p \in Procs, NEW W, NEW mk, Commit(p, W, mk),
         \A m \in DOMAIN W : m \in DOMAIN rows => ~rows[m].resolved
  PROVE  DOMAIN W \subseteq DOMAIN rows => VerdictStands /\ SameMatches
  BY DEF Commit, Over, VerdictStands, Stands, SameMatches

\* What a transaction has written is open to everyone else.
LEMMA OwnOpen == ASSUME IInv, NEW p \in Procs 
  PROVE  DOMAIN dirty[p] \subseteq DOMAIN rows /\ \A m \in DOMAIN dirty[p] : ~rows[m].resolved
  BY DEF IInv, TxTyped, Tx

\* No step touches a decided match, or adds or drops one.
LEMMA VerdictStandsStep == ASSUME IInv, [Next]_vars PROVE VerdictStands /\ SameMatches
  <1>0. UNCHANGED rows => VerdictStands /\ SameMatches BY DEF VerdictStands, Stands, SameMatches
  <1>1. CASE Join BY <1>0, <1>1 DEF Join
  <1>2. CASE \E e \in Players : Leave(e) BY <1>0, <1>2 DEF Leave
  <1>3. CASE \E p \in Workers : \E e \in Players : HookRefuses(p, e) BY <1>0, <1>3 DEF HookRefuses
  <1>4. CASE \E p \in Workers : \E m \in DOMAIN rows, w \in Someone : Report(p, m, w)
    BY <1>0, <1>4 DEF Report, database
  <1>5. CASE Draw
    <2>1. DOMAIN rows = {} BY <1>5 DEF IInv, Phases, Draw
    <2> QED BY <2>1, <1>5 DEF VerdictStands, SameMatches, Draw, IInv, Phases
  <1>6. CASE Cancel \/ Reopen \/ Clock \/ Tick
    BY <1>0, <1>6 DEF Cancel, Reopen, Clock, Tick, database
  <1>7. CASE Sweeping
    <2>1. PICK x \in list : Sweep(x) BY <1>7 DEF Sweeping
    <2>2. x.match \in DOMAIN rows /\ RowOK(rows[x.match]) BY DEF IInv, ListTyped, RowsTyped
    <2>3. CASE UNCHANGED rows BY <2>3, <1>0
    <2>4. CASE rows' = [rows EXCEPT ![x.match].expired = TRUE]
      <3> DEFINE row == [rows[x.match] EXCEPT !.expired = TRUE]
      <3>1. /\ row.resolved = rows[x.match].resolved /\ row.seat = rows[x.match].seat
            /\ row.winner = rows[x.match].winner /\ row.bye = rows[x.match].bye
        BY <2>2 DEF RowOK, Row
      <3>2. rows' = [rows EXCEPT ![x.match] = row] BY <2>4
      <3> HIDE DEF row
      <3> QED BY <3>1, <3>2, <2>2 DEF VerdictStands, SameMatches, Stands
    <2> QED BY <2>1, <2>3, <2>4 DEF Sweep
  <1>8. ASSUME NEW p \in Procs, Lock(p) PROVE VerdictStands /\ SameMatches
    <2>1. CASE Commit(p, dirty[p], marks[p]) BY <2>1, OwnOpen, CommitStands
    <2>2. CASE UNCHANGED rows BY <2>2, <1>0
    <2> QED BY <1>8, <2>1, <2>2 DEF Lock
  <1>9. ASSUME NEW p \in Procs, Write(p) PROVE VerdictStands /\ SameMatches
    <2> DEFINE m == job[p].match
               verdict == job[p].verdict
               row == [Seen(p, m) EXCEPT !.resolved = TRUE, !.bye = job[p].bye,
                         !.winner = IF verdict = NoOne THEN @ ELSE verdict]
    <2>1. CASE Commit(p, Put(dirty[p], m, row), Over(EntriesOf(p), marks[p]))
      <3>0. JobOK(p) /\ Tx(p) /\ job[p].pc = "write" BY <1>9, JobIs DEF Write
      <3>1. m \in DOMAIN rows /\ ~rows[m].resolved BY <3>0, SeenOK DEF JobOK, InMatch, Tx
      <3>2. DOMAIN Put(dirty[p], m, row) = DOMAIN dirty[p] \cup {m} BY DEF Put
      <3> HIDE DEF row, m
      <3> QED BY <2>1, <3>1, <3>2, OwnOpen, CommitStands
    <2>2. CASE UNCHANGED rows BY <2>2, <1>0
    <2> QED BY <1>9, <2>1, <2>2 DEF Write
  <1>10. ASSUME NEW p \in Procs, Seat(p) PROVE VerdictStands /\ SameMatches
    <2>1. CASE Commit(p, dirty[p], marks[p]) BY <2>1, OwnOpen, CommitStands
    <2>2. CASE UNCHANGED rows BY <2>2, <1>0
    <2> QED BY <1>10, <2>1, <2>2 DEF Seat
  <1>11. ASSUME NEW p \in Procs, Bye(p) PROVE VerdictStands /\ SameMatches
    <2>1. CASE Commit(p, dirty[p], marks[p]) BY <2>1, OwnOpen, CommitStands
    <2>2. CASE UNCHANGED rows BY <2>2, <1>0
    <2> QED BY <1>11, <2>1, <2>2 DEF Bye
  <1>12. ASSUME NEW p \in Procs, Finish(p) \/ Forfeit(p) \/ Oust(p) \/ Crash(p) PROVE VerdictStands /\ SameMatches
    BY <1>0, <1>12 DEF Finish, Forfeit, Oust, Crash, database
  <1>13. ASSUME NEW p \in Procs, Unseat(p) PROVE VerdictStands /\ SameMatches
    <2>1. job[p].match \in DOMAIN rows BY <1>13, JobIs DEF JobOK, InMatch, Unseat
    <2> QED BY <1>13, <2>1 DEF Unseat, VerdictStands, SameMatches, Stands
  <1>14. CASE UNCHANGED vars BY <1>0, <1>14 DEF vars
  <1> QED BY <1>1, <1>2, <1>3, <1>4, <1>5, <1>6, <1>7, <1>8, <1>9, <1>10, <1>11, <1>12, <1>13, <1>14
          DEF Next, Step

\* A match that is decided stays as it was decided: no verdict that comes later, no
\* seat and no forfeit is written over it (tournaments.ex:1003, 937-939).
THEOREM VerdictsStand == Spec => [][VerdictStands]_vars
  <1>1. IInv /\ [Next]_vars => [VerdictStands]_vars BY VerdictStandsStep
  <1> QED BY <1>1, IInvHolds, PTL DEF Spec

\* The end is declared for a decided bracket or one whose time is up, and once an opening.
Opening ==
  /\ told \in Seq(Nat) /\ Len(told) > 0 /\ \A n \in DOMAIN told : told[n] <= 1
  /\ tstate \in {"registration", "running"} => told[Len(told)] = 0
Ended ==
  /\ Opening
  /\ \A p \in Procs : job[p].pc = "finish" => Decided \/ clock >= Ends
  /\ tstate = "finished" /\ rows # <<>> => Decided \/ clock >= Ends

\* Once decided, always decided.
LEMMA DecidedStays == ASSUME IInv, [Next]_vars, Decided PROVE Decided'
  <1>1. rows # <<>> /\ \A m \in DOMAIN rows : Stands(m) BY VerdictStandsStep DEF VerdictStands, Decided
  <1>2. DOMAIN rows' = DOMAIN rows BY <1>1, VerdictStandsStep DEF SameMatches
  <1>3. DOMAIN rows # {} BY <1>1 DEF IInv, RowsTyped, IsFcn
  <1>4. rows' # <<>> BY <1>2, <1>3
  <1> QED BY <1>1, <1>2, <1>4 DEF Decided, Stands

Late == Decided \/ clock >= Ends
\* An end once reached is not taken back.
LEMMA LateStays == ASSUME IInv, [Next]_vars, Late PROVE Late'
  <1>1. clock \in Nat /\ Ends \in Nat BY BoundsAssumption DEF IInv, Phases
  <1>2. clock' = clock \/ clock' = clock + 1
    <2>1. \A e \in Players : Leave(e) => clock' = clock BY DEF Leave
    <2>2. \A p \in Workers : \A e \in Players : HookRefuses(p, e) => clock' = clock BY DEF HookRefuses
    <2>3. \A p \in Workers : \A m \in DOMAIN rows, w \in Someone : Report(p, m, w) => clock' = clock BY DEF Report
    <2>4. Join \/ Draw \/ Cancel \/ Reopen \/ Tick => clock' = clock BY DEF Join, Draw, Cancel, Reopen, Tick
    <2>5. Sweeping => clock' = clock BY DEF Sweeping, Sweep
    <2>6. \A p \in Procs : Lock(p) \/ Write(p) \/ Seat(p) \/ Bye(p) => clock' = clock BY DEF Lock, Write, Seat, Bye
    <2>7. \A p \in Procs : Finish(p) \/ Forfeit(p) \/ Unseat(p) \/ Oust(p) \/ Crash(p) => clock' = clock
      BY DEF Finish, Forfeit, Unseat, Oust, Crash
    <2>8. Clock => clock' = clock + 1 BY DEF Clock
    <2>9. UNCHANGED vars => clock' = clock BY DEF vars
    <2> QED BY <2>1, <2>2, <2>3, <2>4, <2>5, <2>6, <2>7, <2>8, <2>9 DEF Next, Step
  <1>3. clock' \in Nat BY IInvInductive DEF IInv, Phases
  <1>4. Decided => Decided' BY DecidedStays
  <1> QED BY <1>1, <1>2, <1>3, <1>4 DEF Late

\* Nobody comes to the end early.
Arrives(p) == job'[p].pc = "finish" /\ job[p].pc # "finish" => Late'

\* Who runs the effects of an opening that had none leaves it with one.
LEMMA EffectsOnce ==
  ASSUME Opening, Effects, tstate \in {"registration", "running"}, tstate' = "finished" PROVE Opening'
  <1> DEFINE n == Len(told)
  <1>1. n \in Nat /\ n \in DOMAIN told /\ DOMAIN told = 1..n /\ \A k \in DOMAIN told : told[k] \in Nat BY DEF Opening
  <1>2. told' = [told EXCEPT ![n] = 1]
    <2>1. told[n] = 0 BY DEF Opening
    <2>2. told' = [told EXCEPT ![n] = told[n] + 1] BY DEF Effects
    <2> QED BY <2>1, <2>2
  <1>3. told' \in Seq(Nat) /\ Len(told') = n BY <1>1, <1>2 DEF Opening
  <1>4. \A k \in DOMAIN told' : told'[k] <= 1 BY <1>1, <1>2 DEF Opening
  <1> QED BY <1>1, <1>3, <1>4 DEF Opening

\* A new opening has had none.
LEMMA OpenedAnew == ASSUME Opening, told' = Append(told, 0) PROVE Opening'
  <1>1. told' \in Seq(Nat) /\ Len(told') = Len(told) + 1 /\ told'[Len(told) + 1] = 0 BY DEF Opening
  <1>2. \A k \in DOMAIN told' : k = Len(told) + 1 \/ (k \in DOMAIN told /\ told'[k] = told[k]) BY DEF Opening
  <1>3. \A k \in DOMAIN told' : told'[k] <= 1 BY <1>1, <1>2 DEF Opening
  <1>4. Len(told') > 0 /\ told'[Len(told')] = 0 BY <1>1 DEF Opening
  <1> QED BY <1>1, <1>3, <1>4 DEF Opening

\* The end stays an end while nobody finishes or reopens anything.
LEMMA EndedKeeps ==
  ASSUME IInv, [Next]_vars, Ended, told' = told, tstate' = tstate, rows' = <<>> \/ rows # <<>>,
         \A p \in Procs : Arrives(p)
  PROVE  Ended'
  <1>1. Late => Late' BY LateStays
  <1> QED BY <1>1 DEF Ended, Opening, Arrives, Late

\* A step of p puts only p elsewhere.
LEMMA Alone ==
  ASSUME IInv, NEW p \in Procs, NEW j, job' = [job EXCEPT ![p] = j], j.pc # "finish" \/ Late'
  PROVE  \A q \in Procs : Arrives(q)
  <1>1. ASSUME NEW q \in Procs PROVE Arrives(q)
    <2>1. job'[q] = IF q = p THEN j ELSE job[q] BY DEF IInv, JobsTyped, IsFcn
    <2> QED BY <2>1 DEF Arrives
  <1> QED BY <1>1

\* A commit goes on to the end only when all is decided.
LEMMA CommitArrives ==
  ASSUME IInv, NEW p \in Procs, NEW W, NEW mk, Commit(p, W, mk)
  PROVE  \A q \in Procs : Arrives(q)
  <1> DEFINE j == [Idle EXCEPT !.pc = IF Decided' THEN "finish" ELSE "idle"]
  <1>1. job' = [job EXCEPT ![p] = j] BY DEF Commit
  <1>2. j.pc # "finish" \/ Late' BY DEF Idle, Late
  <1> HIDE DEF j
  <1> QED BY <1>1, <1>2, Alone

\* A verdict on its way is not at the end.
LEMMA ResolveArrives ==
  ASSUME IInv, NEW p \in Procs, NEW m, NEW w, NEW b, NEW e, Resolve(p, m, w, b, e)
  PROVE  \A q \in Procs : Arrives(q)
  BY Alone DEF Resolve

\* Every step keeps what is known of the end.
LEMMA EndedStep == ASSUME IInv, Ended, [Next]_vars PROVE Ended'
  <1> DEFINE Quiet == told' = told /\ tstate' = tstate /\ (rows' = <<>> \/ rows # <<>>)
             Nobody == \A p \in Procs : Arrives(p)
  <1>0. Quiet /\ Nobody => Ended' BY EndedKeeps
  <1>1. UNCHANGED job => Nobody BY DEF Arrives
  <1>2. Late => Late' BY LateStays
  <1>3. \A m \in DOMAIN rows : rows # <<>> OBVIOUS
  <1> HIDE DEF Nobody
  <1>4. CASE Join \/ (\E e \in Players : Leave(e)) \/ Clock
    BY <1>0, <1>1, <1>4 DEF Join, Leave, Clock, database, history
  <1>5. CASE \E p \in Workers : \E e \in Players : HookRefuses(p, e)
    <2>1. PICK p \in Workers, e \in Players : HookRefuses(p, e) BY <1>5
    <2> DEFINE j == [job[p] EXCEPT !.pc = "forfeit", !.entry = e]
    <2>2. job' = job \/ job' = [job EXCEPT ![p] = j]
      BY <2>1, ProcsFacts DEF HookRefuses, IInv, JobsTyped, IsFcn
    <2>3. j.pc # "finish" BY <2>1, ProcsFacts, JobIs DEF Job
    <2> HIDE DEF j
    <2>4. Nobody BY <2>2, <2>3, <1>1, ProcsFacts, Alone DEF Nobody
    <2> QED BY <2>1, <2>4, <1>0 DEF HookRefuses
  <1>6. CASE \E p \in Workers : \E m \in DOMAIN rows, w \in Someone : Report(p, m, w)
    <2>1. PICK p \in Workers, m \in DOMAIN rows, w \in Someone : Report(p, m, w) BY <1>6
    <2>2. Nobody BY <2>1, ProcsFacts, ResolveArrives DEF Report, Nobody
    <2> QED BY <2>1, <2>2, <1>0 DEF Report, database, history
  <1>7. CASE Draw
    <2>1. tstate = "registration" /\ rows = <<>> /\ UNCHANGED <<job, clock>> BY <1>7 DEF Draw, IInv, Phases
    <2>2. \A p \in Procs : job'[p].pc = "finish" => Late'
      BY <1>2, <2>1 DEF Ended, Late
    <2>3. CASE Len(entrants) < 2
      <3>1. tstate' = "finished" /\ Effects /\ rows' = rows BY <1>7, <2>3 DEF Draw
      <3>2. Opening' BY <2>1, <3>1, EffectsOnce DEF Ended
      <3> QED BY <2>1, <2>2, <3>1, <3>2 DEF Ended, Late
    <2>4. CASE ~(Len(entrants) < 2)
      <3>1. tstate' = "running" /\ told' = told BY <1>7, <2>4 DEF Draw
      <3>2. Opening' BY <2>1, <3>1 DEF Ended, Opening
      <3> QED BY <2>2, <3>1, <3>2 DEF Ended, Late
    <2> QED BY <2>3, <2>4
  <1>8. CASE Cancel
    <2>1. UNCHANGED <<job, clock, rows, told>> /\ tstate' = "cancelled" BY <1>8 DEF Cancel
    <2> QED BY <2>1 DEF Ended, Opening, Decided
  <1>9. CASE Reopen
    <2>1. UNCHANGED <<job, clock, rows>> /\ told' = Append(told, 0) /\ tstate' # "finished" BY <1>9 DEF Reopen
    <2>2. Opening' BY <2>1, OpenedAnew DEF Ended
    <2> QED BY <2>1, <2>2 DEF Ended, Decided
  <1>10. CASE Tick
    <2> DEFINE j == [job[Ticker] EXCEPT !.pc = "finish"]
    <2>1. CASE Decided \/ clock >= Ends
      <3>1. job' = [job EXCEPT ![Ticker] = j]
        BY <2>1, <1>10, ProcsFacts DEF Tick, Goto, IInv, JobsTyped, IsFcn
      <3>2. Late' BY <2>1, <1>2 DEF Late
      <3> HIDE DEF j
      <3>3. Nobody BY <3>1, <3>2, ProcsFacts, Alone DEF Nobody
      <3> QED BY <3>3, <1>0, <1>10 DEF Tick, database, history
    <2>2. CASE ~(Decided \/ clock >= Ends) BY <2>2, <1>0, <1>1, <1>10 DEF Tick, database, history
    <2> QED BY <2>1, <2>2
  <1>11. CASE Sweeping
    <2>1. PICK x \in list : Sweep(x) BY <1>11 DEF Sweeping
    <2>2. Nobody BY <2>1, <1>1, ProcsFacts, ResolveArrives DEF Sweep, Nobody
    <2>3. rows # <<>> BY <1>3 DEF IInv, ListTyped
    <2> QED BY <2>1, <2>2, <2>3, <1>0 DEF Sweep, history
  <1>12. ASSUME NEW p \in Procs, Lock(p) \/ Write(p) \/ Seat(p) \/ Bye(p) PROVE Ended'
    <2>1. job[p].match \in DOMAIN rows BY <1>12, JobIs DEF JobOK, InMatch, Lock, Write, Seat, Bye
    <2>2. Quiet BY <2>1, <1>3, <1>12 DEF Lock, Write, Seat, Bye, history
    <2>3. job[p].pc # "finish" /\ job[p] \in Job /\ IsFcn(job) /\ DOMAIN job = Procs
      BY <1>12, JobIs DEF Lock, Write, Seat, Bye, IInv, JobsTyped
    <2>4. ASSUME NEW j, job' = [job EXCEPT ![p] = j], j.pc # "finish" PROVE Nobody
      BY <2>4, Alone DEF Nobody
    <2>5. CASE Lock(p)
      <3>1. CASE StillOpen(Seen(p, job[p].match))
        <4>1. job' = [job EXCEPT ![p] = [job[p] EXCEPT !.pc = "write", !.row = Seen(p, job[p].match)]]
          BY <3>1, <2>5, <2>3 DEF Lock, IsFcn
        <4>2. [job[p] EXCEPT !.pc = "write", !.row = Seen(p, job[p].match)].pc = "write" BY <2>3 DEF Job
        <4> QED BY <4>1, <4>2, <2>4, <2>2, <1>0
      <3>2. CASE Commit(p, dirty[p], marks[p]) BY <3>2, CommitArrives, <2>2, <1>0 DEF Nobody
      <3>3. CASE job' = [job EXCEPT ![p] = [Idle EXCEPT !.entry = job[p].entry,
                           !.pc = IF job[p].entry = NoOne THEN "idle" ELSE "forfeit"]]
        <4> DEFINE j == [Idle EXCEPT !.entry = job[p].entry,
                           !.pc = IF job[p].entry = NoOne THEN "idle" ELSE "forfeit"]
        <4>1. job' = [job EXCEPT ![p] = j] /\ j.pc # "finish" BY <3>3 DEF Idle
        <4> HIDE DEF j
        <4> QED BY <4>1, <2>4, <2>2, <1>0
      <3> QED BY <2>5, <3>1, <3>2, <3>3 DEF Lock
    <2>6. CASE Write(p)
      <3>1. CASE Final(job[p].match)
        BY <3>1, <2>6, CommitArrives, <2>2, <1>0 DEF Nobody, Write
      <3>2. CASE ~Final(job[p].match)
        <4>1. job' = [job EXCEPT ![p] = [job[p] EXCEPT !.pc = "seat", !.row = EmptyRow]]
          BY <3>2, <2>6, <2>3 DEF Write, IsFcn
        <4>2. [job[p] EXCEPT !.pc = "seat", !.row = EmptyRow].pc = "seat" BY <2>3 DEF Job
        <4> QED BY <4>1, <4>2, <2>4, <2>2, <1>0
      <3> QED BY <3>1, <3>2
    <2>7. CASE Seat(p)
      <3>1. CASE Commit(p, dirty[p], marks[p]) BY <3>1, CommitArrives, <2>2, <1>0 DEF Nobody
      <3>2. CASE ~Commit(p, dirty[p], marks[p])
        <4>1. PICK row : job' = [job EXCEPT ![p].pc = "bye", ![p].match = Upper(job[p].match), ![p].row = row]
          BY <3>2, <2>7 DEF Seat
        <4> DEFINE j == [job[p] EXCEPT !.pc = "bye", !.match = Upper(job[p].match), !.row = row]
        <4>2. job' = [job EXCEPT ![p] = j] BY <4>1, <2>3 DEF IsFcn
        <4>3. j.pc = "bye" BY <2>3 DEF Job
        <4> HIDE DEF j
        <4> QED BY <4>2, <4>3, <2>4, <2>2, <1>0
      <3> QED BY <3>1, <3>2
    <2>8. CASE Bye(p)
      <3>1. CASE Commit(p, dirty[p], marks[p]) BY <3>1, CommitArrives, <2>2, <1>0 DEF Nobody
      <3>2. CASE Done(p) BY <3>2, <2>4, <2>2, <1>0, IdleOK DEF Done
      <3>3. CASE Resolve(p, job[p].match, Settles(job[p].row).winner, TRUE, job[p].entry)
        BY <3>3, ResolveArrives, <2>2, <1>0 DEF Nobody
      <3> QED BY <2>8, <3>1, <3>2, <3>3 DEF Bye
    <2> QED BY <1>12, <2>5, <2>6, <2>7, <2>8
  <1>13. ASSUME NEW p \in Procs, Finish(p) PROVE Ended'
    <2>1. job' = [job EXCEPT ![p] = Idle] /\ UNCHANGED <<rows, clock>> BY <1>13 DEF Finish, Done
    <2>2. Late /\ Late' BY <1>13, <1>2 DEF Finish, Ended, Late
    <2>3. Nobody BY <2>1, <2>2, Alone DEF Nobody
    <2>4. CASE StillRunning
      <3>1. tstate = "running" /\ tstate' = "finished" /\ Effects BY <2>4, <1>13 DEF Finish, StillRunning
      <3>2. Opening' BY <3>1, EffectsOnce DEF Ended
      <3> QED BY <2>2, <3>1, <3>2 DEF Ended, Late
    <2>5. CASE ~StillRunning BY <2>1, <2>3, <2>5, <1>0, <1>13 DEF Finish
    <2> QED BY <2>4, <2>5
  <1>14. ASSUME NEW p \in Procs, Forfeit(p) PROVE Ended'
    <2>1. CASE OpenFor(job[p].entry) = {}
      <3>1. Nobody BY <2>1, <1>14, IdleOK, Alone DEF Forfeit, Done, Nobody
      <3> QED BY <3>1, <1>0, <1>14 DEF Forfeit, database, history
    <2>2. CASE OpenFor(job[p].entry) # {}
      <3>1. PICK m : \/ job' = [job EXCEPT ![p].pc = "unseat", ![p].match = m]
                     \/ \E o : Resolve(p, m, o, FALSE, job[p].entry)
        BY <2>2, <1>14, ForfeitFinds
      <3> DEFINE j == [job[p] EXCEPT !.pc = "unseat", !.match = m]
      <3>2. CASE job' = [job EXCEPT ![p].pc = "unseat", ![p].match = m]
        <4>1. job' = [job EXCEPT ![p] = j] /\ j.pc = "unseat"
          BY <3>2, JobIs DEF IInv, JobsTyped, IsFcn, Job
        <4> HIDE DEF j
        <4>2. Nobody BY <4>1, Alone DEF Nobody
        <4> QED BY <4>2, <1>0, <1>14 DEF Forfeit, database, history
      <3>3. CASE \E o : Resolve(p, m, o, FALSE, job[p].entry)
        <4>1. Nobody BY <3>3, ResolveArrives DEF Nobody
        <4> QED BY <4>1, <1>0, <1>14 DEF Forfeit, database, history
      <3> QED BY <3>1, <3>2, <3>3
    <2> QED BY <2>1, <2>2
  <1>15. ASSUME NEW p \in Procs, Unseat(p) PROVE Ended'
    <2>1. PICK row : \/ job' = [job EXCEPT ![p] = [Idle EXCEPT !.pc = "forfeit", !.entry = job[p].entry]]
                     \/ job' = [job EXCEPT ![p].pc = "oust", ![p].row = row]
      BY <1>15 DEF Unseat
    <2> DEFINE j == [job[p] EXCEPT !.pc = "oust", !.row = row]
    <2>2. j.pc = "oust" /\ [Idle EXCEPT !.pc = "forfeit", !.entry = job[p].entry].pc = "forfeit"
      BY JobIs DEF Job, Idle
    <2>3. \/ job' = [job EXCEPT ![p] = [Idle EXCEPT !.pc = "forfeit", !.entry = job[p].entry]]
          \/ job' = [job EXCEPT ![p] = j]
      BY <2>1 DEF IInv, JobsTyped, IsFcn
    <2> HIDE DEF j
    <2>4. Nobody BY <2>2, <2>3, Alone DEF Nobody
    <2>5. rows # <<>> BY <1>15, <1>3, JobIs DEF JobOK, InMatch, Unseat
    <2> QED BY <2>4, <2>5, <1>0, <1>15 DEF Unseat, history
  <1>16. ASSUME NEW p \in Procs, Oust(p) PROVE Ended'
    <2> DEFINE j == [job[p] EXCEPT !.pc = "bye", !.entry = NoOne]
    <2>1. job' = [job EXCEPT ![p] = j] /\ j.pc = "bye" BY <1>16, JobIs DEF Oust, IInv, JobsTyped, IsFcn, Job
    <2> HIDE DEF j
    <2>2. Nobody BY <2>1, Alone DEF Nobody
    <2> QED BY <2>2, <1>0, <1>16 DEF Oust, history
  <1>17. ASSUME NEW p \in Procs, Crash(p) PROVE Ended'
    <2>1. Nobody BY <1>17, IdleOK, Alone DEF Crash, Done, Nobody
    <2> QED BY <2>1, <1>0, <1>17 DEF Crash, database
  <1>18. CASE UNCHANGED vars BY <1>18, <1>0, <1>1 DEF vars, history
  <1> QED BY <1>4, <1>5, <1>6, <1>7, <1>8, <1>9, <1>10, <1>11, <1>12, <1>13, <1>14, <1>15, <1>16, <1>17, <1>18
          DEF Next, Step

\* FinishedOnce: the effects of the end run once an opening, and never while there
\* are matches to play, unless ends_at is past (finish_tournament/1,
\* tournaments.ex:1177-1187).
THEOREM FinishedOnceHolds == Spec => []FinishedOnce
  <1>1. Init => Ended
    <2> SUFFICES ASSUME Init PROVE Ended OBVIOUS
    <2>1. Opening BY DEF Init, Opening
    <2>2. rows = <<>> /\ \A p \in Procs : job[p].pc = "idle" BY DEF Init, Idle
    <2> QED BY <2>1, <2>2 DEF Ended
  <1>2. IInv /\ Ended /\ [Next]_vars => Ended' BY EndedStep
  <1>3. IInv /\ Ended => FinishedOnce
    <2> SUFFICES ASSUME IInv, Ended PROVE FinishedOnce OBVIOUS
    <2>1. clock \in Nat /\ Ends \in Nat BY BoundsAssumption DEF IInv, Phases
    <2> QED BY <2>1 DEF Ended, Opening, FinishedOnce
  <1> QED BY <1>1, <1>2, <1>3, IInvHolds, PTL DEF Spec

-----------------------------------------------------------------------------
\* The bracket, while games report matches that are ready and the tick keeps up.

Punctual == ~EarlyVerdicts /\ ~Downtime

\* The bracket as p's transaction sees it.
View(p) == [m \in DOMAIN rows |-> Seen(p, m)]

\* A bracket R in order.  Nobody sits in a match, and no match is decided, before
\* the match that feeds it; whoever won sits in the next match, unless he was
\* refused or his seat is being taken now; a bye leaves nobody behind.
FedIn(R, m) == m[1] > 1 => \A i \in Sides : R[Feeder(m, i)].resolved
Climbs(R) == \A m \in DOMAIN R : m[1] > 1 => \A i \in Sides :
               (R[m].resolved \/ R[m].seat[i] # NoOne) => R[Feeder(m, i)].resolved
SeatedAt(R, m) == (R[m].resolved /\ Upper(m) \in DOMAIN R /\ R[m].winner \notin refused) =>
                    R[Upper(m)].seat[Side(m)] = R[m].winner
ByeFits(R) == \A m \in DOMAIN R : R[m].bye => Present(R[m]) \subseteq {R[m].winner}
Pending(p) == IF job[p].pc = "seat" THEN {job[p].match} ELSE {}
InOrder(R, out) == Climbs(R) /\ (\A m \in DOMAIN R \ out : SeatedAt(R, m)) /\ ByeFits(R)

\* A verdict is for a match that both feeders have settled, a bye for one in which
\* nobody else sits.
Ready(p) ==
  /\ job[p].pc \in {"lock", "write"} => FedIn(View(p), job[p].match)
  /\ \A m \in locks[p] : FedIn(View(p), m)
  /\ job[p].pc \in {"lock", "write"} /\ job[p].bye =>
       \/ Seen(p, job[p].match).resolved
       \/ Present(Seen(p, job[p].match)) \subseteq {job[p].verdict}

\* What a transaction writes is a run of matches, one above the other: all are
\* decided but the last, which one of them feeds.
Fresh(p, m) ==
  /\ m = job[p].match /\ job[p].pc \in {"bye", "lock", "write"} /\ m[1] > 1
  /\ \E i \in Sides : Feeder(m, i) \in DOMAIN dirty[p] /\ dirty[p][Feeder(m, i)].resolved
Chain(p) ==
  /\ \A m \in DOMAIN dirty[p] :
       IF dirty[p][m].resolved
       THEN Upper(m) \in DOMAIN rows => Upper(m) \in DOMAIN dirty[p] \/ m \in Pending(p)
       ELSE Fresh(p, m)
  /\ \A m \in locks[p] : \/ m \in DOMAIN dirty[p] /\ dirty[p][m].resolved
                         \/ m = job[p].match /\ job[p].pc = "write"
  /\ job[p].pc = "seat" => /\ job[p].match \in DOMAIN dirty[p]
                           /\ dirty[p][job[p].match].winner = job[p].verdict
                           /\ ~Seen(p, Upper(job[p].match)).resolved
  /\ job[p].pc \in {"bye", "lock"} /\ locks[p] # {} =>
       /\ job[p].match \in DOMAIN dirty[p] /\ ~dirty[p][job[p].match].resolved
       /\ job[p].pc = "bye" => job[p].row = dirty[p][job[p].match]

\* A seat that no verdict of a transaction fills is as it is committed.
Untouched(p) == \A m \in DOMAIN dirty[p], i \in Sides :
  m[1] = 1 \/ Feeder(m, i) \notin DOMAIN dirty[p] => dirty[p][m].seat[i] = rows[m].seat[i]

\* A side that is looked at for a bye was settled when it was read, and after an
\* unseating the match still has an empty side that nobody can reach.
Emptied(p, i) ==
  LET m == job[p].match
  IN  rows[m].seat[i] = NoOne /\ job[p].row.seat[i] = NoOne /\ (m[1] > 1 => rows[Feeder(m, i)].resolved)
Unseating(p) == job[p].pc \in {"oust", "bye"} /\ locks[p] = {}
Looking(p) ==
  /\ job[p].pc \in {"oust", "bye"} => \A i \in Sides :
       job[p].match[1] > 1 /\ job[p].row.seat[i] # NoOne => Seen(p, Feeder(job[p].match, i)).resolved
  /\ Unseating(p) /\ ~rows[job[p].match].resolved =>
       /\ \E i \in Sides : Emptied(p, i)
       /\ \A i \in Sides : rows[job[p].match].seat[i] \in {NoOne, job[p].row.seat[i]}

\* The tick keeps up.
OnTime ==
  /\ \A m \in DOMAIN rows : m[1] < clock => rows[m].resolved
  /\ \A x \in list : FedIn(rows, x.match)

Orderly(p) == InOrder(View(p), Pending(p)) /\ Ready(p) /\ Chain(p) /\ Looking(p) /\ Untouched(p)
PInv == InOrder(rows, {}) /\ OnTime /\ \A p \in Procs : Orderly(p)

\* A match that is due a bye is being looked after.
FirstFull == \A m \in DOMAIN rows : m[1] = 1 /\ ~rows[m].resolved => Two(rows[m])
UnseatLater == \A p \in Procs : job[p].pc = "unseat" => job[p].match[1] > 1
OwedBye(m) == ~rows[m].resolved /\ m[1] > 1 /\ FedIn(rows, m) /\ ~Two(rows[m])
LookedBy(p, m) == \/ m \in locks[p]
                  \/ job[p].match = m /\ job[p].pc \in {"oust", "bye", "lock"} /\ locks[p] = {}
LookedAfter(m) == \E p \in Procs : LookedBy(p, m)
HInv == FirstFull /\ UnseatLater /\ (crashes = 0 => \A m \in DOMAIN rows : OwedBye(m) => LookedAfter(m))

\* The bracket is a tree: the match above, the side one comes up on, the matches below.
LEMMA Geometry ==
  ASSUME NEW m \in Matches
  PROVE  /\ Side(m) \in Sides /\ Feeder(Upper(m), Side(m)) = m /\ Upper(m)[1] = m[1] + 1 /\ Upper(m)[1] > 1
         /\ m[1] >= 1 /\ m[1] \in Nat
         /\ \A i \in Sides : Upper(Feeder(m, i)) = m /\ Side(Feeder(m, i)) = i /\ Feeder(m, i)[1] = m[1] - 1
  <1>1. m = <<m[1], m[2]>> /\ m[1] \in Nat /\ m[1] >= 1 /\ m[2] \in Nat
    BY MatchNames, RoundsLemma DEF IsMatch, RoundsOK
  <1>2. PICK r \in Nat, s \in Nat : m = <<r, s>> /\ r >= 1 BY <1>1
  <1>3. Upper(m) = <<r + 1, s \div 2>> /\ Side(m) = s % 2 BY <1>2 DEF Upper, Side
  <1>4. s % 2 \in {0, 1} /\ s = 2 * (s \div 2) + (s % 2) /\ s \div 2 \in Nat BY <1>2
  <1>5. Feeder(Upper(m), Side(m)) = <<r + 1 - 1, 2 * (s \div 2) + (s % 2)>> BY <1>3 DEF Feeder
  <1>6. ASSUME NEW i \in Sides
        PROVE  Upper(Feeder(m, i)) = m /\ Side(Feeder(m, i)) = i /\ Feeder(m, i)[1] = m[1] - 1
    <2>1. Feeder(m, i) = <<r - 1, 2 * s + i>> BY <1>2 DEF Feeder
    <2>2. (2 * s + i) \div 2 = s /\ (2 * s + i) % 2 = i BY <1>2 DEF Sides
    <2>3. Upper(Feeder(m, i)) = <<r - 1 + 1, (2 * s + i) \div 2>> /\ Side(Feeder(m, i)) = (2 * s + i) % 2
      BY <2>1 DEF Upper, Side
    <2> QED BY <1>2, <2>1, <2>2, <2>3
  <1> QED BY <1>2, <1>3, <1>4, <1>5, <1>6 DEF Sides

\* A match of the bracket is a match.
LEMMA InMatches == ASSUME IInv, NEW m \in DOMAIN rows PROVE m \in Matches
  BY DEF IInv, RowsTyped

\* The bracket has the matches that feed its matches.
LEMMA Feeders == ASSUME IInv, NEW m \in DOMAIN rows, m[1] > 1, NEW i \in Sides PROVE Feeder(m, i) \in DOMAIN rows
  BY DEF IInv, RowsTyped, Fed

\* A transaction sees what it wrote, and else what is committed.
LEMMA ViewFacts ==
  ASSUME IInv, NEW p \in Procs
  PROVE  /\ DOMAIN View(p) = DOMAIN rows /\ DOMAIN dirty[p] \subseteq DOMAIN rows
         /\ \A m \in DOMAIN rows : /\ RowOK(View(p)[m]) /\ View(p)[m] = Seen(p, m)
                                   /\ m \in DOMAIN dirty[p] => View(p)[m] = dirty[p][m] /\ ~rows[m].resolved
                                   /\ m \notin DOMAIN dirty[p] => View(p)[m] = rows[m]
                                   /\ rows[m].resolved => View(p)[m] = rows[m]
  <1>1. \A m \in DOMAIN rows : RowOK(Seen(p, m)) BY SeenOK
  <1>2. DOMAIN dirty[p] \subseteq DOMAIN rows /\ \A m \in DOMAIN dirty[p] : ~rows[m].resolved BY OwnOpen
  <1> QED BY <1>1, <1>2 DEF View, Seen

\* What p cannot see of another's writing it holds to be open.
LEMMA Hidden ==
  ASSUME IInv, NEW p \in Procs, NEW q \in Procs, p # q, NEW m \in DOMAIN dirty[q]
  PROVE  m \in DOMAIN rows /\ m \notin DOMAIN dirty[p] /\ ~View(p)[m].resolved
  <1>1. m \in DOMAIN rows /\ ~rows[m].resolved BY OwnOpen
  <1>2. m \notin DOMAIN dirty[p] BY DEF IInv, TxTyped, Apart
  <1> QED BY <1>1, <1>2, ViewFacts

\* What a step may do to the committed bracket beside the transaction of q: decide
\* matches none of which feeds one q has written, and seat winners of matches that
\* were open, in matches that are then due no bye; what q has written stays for q.
Came(m, i) == ~rows'[m].resolved /\ rows'[m].seat[i] \notin {NoOne, rows[m].seat[i]}
Beside(q) ==
  /\ DOMAIN rows' = DOMAIN rows /\ refused \subseteq refused' /\ VerdictStands
  /\ \A m \in DOMAIN dirty[q] : rows'[m].seat = rows[m].seat
  /\ \A m \in DOMAIN rows : ~rows[m].resolved /\ rows'[m].resolved =>
       (Upper(m) \in DOMAIN rows => Upper(m) \notin DOMAIN dirty[q])
  /\ \A m \in DOMAIN rows, i \in Sides : Came(m, i) =>
       /\ m[1] > 1 /\ ~rows[Feeder(m, i)].resolved /\ Feeder(m, i) \notin DOMAIN dirty[q]
       /\ \A k \in Sides : rows'[m].seat[k] = NoOne => ~rows'[Feeder(m, k)].resolved
Stays(q) == job'[q] = job[q] /\ dirty'[q] = dirty[q] /\ locks'[q] = locks[q]

\* Beside the transaction of q its view only gains verdicts.
LEMMA OtherView ==
  ASSUME IInv, IInv', NEW q \in Procs, Stays(q), Beside(q)
  PROVE  /\ DOMAIN (View(q)') = DOMAIN rows
         /\ \A m \in DOMAIN rows : /\ View(q)'[m] = IF m \in DOMAIN dirty[q] THEN dirty[q][m] ELSE rows'[m]
                                   /\ View(q)'[m] = Seen(q, m)'
                                   /\ View(q)[m].resolved => View(q)'[m].resolved
                                   /\ rows'[m].resolved => m \notin DOMAIN dirty[q]
  <1>1. DOMAIN (View(q)') = DOMAIN rows /\ \A m \in DOMAIN rows : View(q)'[m] = Seen(q, m)'
    BY DEF View, Beside
  <1>2. \A m \in DOMAIN rows : Seen(q, m)' = IF m \in DOMAIN dirty[q] THEN dirty[q][m] ELSE rows'[m]
    BY DEF Seen, Stays
  <1>3. \A m \in DOMAIN dirty[q] : ~rows'[m].resolved BY DEF IInv, TxTyped, Tx, Stays
  <1>4. \A m \in DOMAIN rows : rows[m].resolved => rows'[m].resolved BY DEF Beside, VerdictStands, Stands
  <1> QED BY <1>1, <1>2, <1>3, <1>4, ViewFacts

\* Beside it, the bracket q sees stays in order.
LEMMA OtherInOrder ==
  ASSUME IInv, IInv', NEW q \in Procs, Stays(q), Beside(q), Orderly(q), InOrder(rows, {})'
  PROVE  InOrder(View(q), Pending(q))'
  <1> DEFINE R == View(q)
             V == View(q)'
             D == DOMAIN rows
  <1>1. /\ DOMAIN V = D /\ DOMAIN R = D /\ DOMAIN rows' = D /\ DOMAIN dirty[q] \subseteq D
        /\ \A m \in D : /\ V[m] = IF m \in DOMAIN dirty[q] THEN dirty[q][m] ELSE rows'[m]
                        /\ R[m] = IF m \in DOMAIN dirty[q] THEN dirty[q][m] ELSE rows[m]
                        /\ R[m].resolved => V[m].resolved
                        /\ rows'[m].resolved => m \notin DOMAIN dirty[q]
    BY OtherView, ViewFacts DEF Beside
  <1>2. Pending(q)' = Pending(q) BY DEF Pending, Stays
  <1>3. /\ Climbs(R) /\ ByeFits(R) /\ \A m \in D \ Pending(q) : SeatedAt(R, m)
        /\ Climbs(rows)' /\ ByeFits(rows)' /\ \A m \in D : SeatedAt(rows, m)'
    BY <1>1 DEF Orderly, InOrder
  <1>4. \A m \in D : m[1] > 1 => \A i \in Sides : Feeder(m, i) \in D BY Feeders
  <1> HIDE DEF R, V
  <1>5. Climbs(V)
    <2> SUFFICES ASSUME NEW m \in D, m[1] > 1, NEW i \in Sides, V[m].resolved \/ V[m].seat[i] # NoOne
                 PROVE  V[Feeder(m, i)].resolved
      BY <1>1 DEF Climbs
    <2>1. Feeder(m, i) \in D BY <1>4
    <2>2. CASE m \in DOMAIN dirty[q] BY <2>1, <2>2, <1>1, <1>3 DEF Climbs
    <2>3. CASE m \notin DOMAIN dirty[q]
      <3>1. rows'[Feeder(m, i)].resolved BY <2>1, <2>3, <1>1, <1>3 DEF Climbs
      <3> QED BY <2>1, <3>1, <1>1
    <2> QED BY <2>2, <2>3
  <1>6. ByeFits(V) BY <1>1, <1>3 DEF ByeFits
  <1>7. ASSUME NEW m \in D \ Pending(q),
               V[m].resolved /\ Upper(m) \in D /\ V[m].winner \notin refused'
        PROVE  V[Upper(m)].seat[Side(m)] = V[m].winner
    <2>1. V[m].winner \notin refused BY <1>7 DEF Beside
    <2>2. CASE m \in DOMAIN dirty[q]
      <3>1. Upper(m) \in DOMAIN dirty[q] BY <2>2, <1>1, <1>7 DEF Orderly, Chain
      <3>2. V[m] = R[m] /\ V[Upper(m)] = R[Upper(m)] BY <2>2, <3>1, <1>1
      <3> QED BY <3>2, <2>1, <1>1, <1>3, <1>7 DEF SeatedAt
    <2>3. CASE m \notin DOMAIN dirty[q] /\ Upper(m) \notin DOMAIN dirty[q]
      <3>1. V[m] = rows'[m] /\ V[Upper(m)] = rows'[Upper(m)] BY <2>3, <1>1, <1>7
      <3> QED BY <3>1, <1>1, <1>3, <1>7 DEF SeatedAt
    <2>4. CASE m \notin DOMAIN dirty[q] /\ Upper(m) \in DOMAIN dirty[q]
      <3>1. rows'[m].resolved /\ V[m] = rows'[m] BY <2>4, <1>1, <1>7
      <3>2. rows[m].resolved BY <3>1, <2>4, <1>7 DEF Beside
      <3>3. R[m].resolved /\ R[m].winner = V[m].winner BY <3>1, <3>2, <2>4, <1>1 DEF Beside, VerdictStands, Stands
      <3>4. R[Upper(m)] = V[Upper(m)] BY <2>4, <1>1
      <3> QED BY <3>3, <3>4, <2>1, <1>1, <1>3, <1>7 DEF SeatedAt
    <2> QED BY <2>2, <2>3, <2>4
  <1>8. \A m \in D \ Pending(q) : (V[m].resolved /\ Upper(m) \in D /\ V[m].winner \notin refused') =>
                                    V[Upper(m)].seat[Side(m)] = V[m].winner BY <1>7
  <1> QED BY <1>1, <1>2, <1>5, <1>6, <1>8 DEF InOrder, SeatedAt, Climbs, ByeFits, V

\* A row that q sees loses players only, unless a feeder was open to q.
LEMMA OtherSeats ==
  ASSUME IInv, IInv', NEW q \in Procs, Stays(q), Beside(q), NEW m \in DOMAIN rows,
         FedIn(View(q), m), ~View(q)'[m].resolved
  PROVE  ~View(q)[m].resolved /\ Present(View(q)'[m]) \subseteq Present(View(q)[m])
  <1> DEFINE R == View(q)
             V == View(q)'
  <1>1. /\ V[m] = IF m \in DOMAIN dirty[q] THEN dirty[q][m] ELSE rows'[m]
        /\ R[m] = IF m \in DOMAIN dirty[q] THEN dirty[q][m] ELSE rows[m]
        /\ R[m].resolved => V[m].resolved
    BY OtherView, ViewFacts
  <1>2. \A i \in Sides : m[1] > 1 => /\ R[Feeder(m, i)].resolved
                                     /\ Feeder(m, i) \in DOMAIN dirty[q] \/ rows[Feeder(m, i)].resolved
    BY ViewFacts, Feeders DEF FedIn
  <1> HIDE DEF R, V
  <1>3. CASE m \in DOMAIN dirty[q] BY <1>1, <1>3 DEF R, V
  <1>4. CASE m \notin DOMAIN dirty[q]
    <2>1. ~rows'[m].resolved /\ V[m] = rows'[m] /\ R[m] = rows[m] BY <1>1, <1>4 DEF V
    <2>2. \A i \in Sides : ~Came(m, i) BY <1>2 DEF Beside
    <2>3. \A i \in Sides : rows'[m].seat[i] \in {NoOne, rows[m].seat[i]} BY <2>1, <2>2 DEF Came
    <2>4. Present(rows'[m]) \subseteq Present(rows[m]) BY <2>3 DEF Present
    <2> QED BY <2>1, <2>4, <1>1 DEF R, V
  <1> QED BY <1>3, <1>4

\* A match that was ready for q's verdict stays ready.
LEMMA OtherReady ==
  ASSUME IInv, IInv', NEW q \in Procs, Stays(q), Beside(q), Orderly(q)
  PROVE  Ready(q)'
  <1>1. /\ \A m \in DOMAIN rows : View(q)[m].resolved => View(q)'[m].resolved
        /\ \A m \in DOMAIN rows : View(q)'[m] = Seen(q, m)' /\ View(q)[m] = Seen(q, m)
    BY OtherView, ViewFacts
  <1>2. \A m \in DOMAIN rows : FedIn(View(q), m) => FedIn(View(q), m)'
    BY <1>1, Feeders DEF FedIn
  <1>3. Ready(q) /\ job'[q] = job[q] /\ locks'[q] = locks[q] BY DEF Orderly, Stays
  <1>4. locks[q] \subseteq DOMAIN rows BY DEF IInv, TxTyped, Tx
  <1>5. job[q].pc \in {"lock", "write"} => job[q].match \in DOMAIN rows BY JobIs DEF JobOK, InMatch
  <1>6. job[q].pc \in {"lock", "write"} => FedIn(View(q), job[q].match)' BY <1>2, <1>3, <1>5 DEF Ready
  <1>7. \A m \in locks[q] : FedIn(View(q), m)' BY <1>2, <1>3, <1>4 DEF Ready
  <1>8. ASSUME NEW m \in DOMAIN rows, m = job[q].match, job[q].pc \in {"lock", "write"}, job[q].bye,
               ~(Seen(q, m)').resolved
        PROVE  Present(Seen(q, m)') \subseteq {job[q].verdict}
    <2>1. FedIn(View(q), m) /\ ~View(q)'[m].resolved BY <1>1, <1>3, <1>8 DEF Ready
    <2>2. ~View(q)[m].resolved /\ Present(View(q)'[m]) \subseteq Present(View(q)[m]) BY <2>1, OtherSeats
    <2>3. Present(Seen(q, m)) \subseteq {job[q].verdict} BY <2>1, <2>2, <1>1, <1>3, <1>8 DEF Ready
    <2> QED BY <2>1, <2>2, <2>3, <1>1
  <1>9. job[q].pc \in {"lock", "write"} /\ job[q].bye =>
          (Seen(q, job[q].match).resolved \/ Present(Seen(q, job[q].match)) \subseteq {job[q].verdict})'
    BY <1>3, <1>5, <1>8 DEF Seen, Present
  <1> QED BY <1>3, <1>6, <1>7, <1>9 DEF Ready

\* The run of matches that q has written stays a run.
LEMMA OtherChain ==
  ASSUME IInv, IInv', NEW q \in Procs, Stays(q), Beside(q), Orderly(q), Climbs(rows)'
  PROVE  Chain(q)'
  <1>1. Chain(q) /\ job'[q] = job[q] /\ locks'[q] = locks[q] /\ dirty'[q] = dirty[q] /\ DOMAIN rows' = DOMAIN rows
    BY DEF Orderly, Stays, Beside
  <1>2. Pending(q)' = Pending(q) /\ \A m : Fresh(q, m)' = Fresh(q, m) BY <1>1 DEF Pending, Fresh
  <1>3. ASSUME job[q].pc = "seat" PROVE ~(Seen(q, Upper(job[q].match))').resolved
    <2> DEFINE m == job[q].match
    <2>1. m \in DOMAIN rows /\ Upper(m) \in DOMAIN rows BY <1>3, JobIs DEF JobOK, InMatch, Final
    <2>2. m \in DOMAIN dirty[q] /\ ~Seen(q, Upper(m)).resolved BY <1>1, <1>3 DEF Chain
    <2>3. CASE Upper(m) \in DOMAIN dirty[q] BY <2>2, <2>3, <1>1 DEF Seen
    <2>4. CASE Upper(m) \notin DOMAIN dirty[q]
      <3>1. ~rows'[m].resolved BY <2>1, <2>2, OtherView
      <3>2. Upper(m)[1] > 1 /\ Side(m) \in Sides /\ Feeder(Upper(m), Side(m)) = m BY <2>1, InMatches, Geometry
      <3>3. ~rows'[Upper(m)].resolved BY <2>1, <3>1, <3>2, <1>1 DEF Climbs
      <3> QED BY <2>4, <3>3, <1>1 DEF Seen
    <2> QED BY <2>3, <2>4
  <1> QED BY <1>1, <1>2, <1>3 DEF Chain

\* A side that q saw settled stays settled.
LEMMA OtherLooking ==
  ASSUME IInv, IInv', NEW q \in Procs, Stays(q), Beside(q), Orderly(q)
  PROVE  Looking(q)'
  <1>1. Looking(q) /\ job'[q] = job[q] /\ locks'[q] = locks[q] /\ dirty'[q] = dirty[q] /\ DOMAIN rows' = DOMAIN rows
    BY DEF Orderly, Stays, Beside
  <1> DEFINE m == job[q].match
  <1>2. job[q].pc \in {"oust", "bye"} => m \in DOMAIN rows BY JobIs DEF JobOK, InMatch
  <1>3. ASSUME job[q].pc \in {"oust", "bye"}, NEW i \in Sides, m[1] > 1, job[q].row.seat[i] # NoOne
        PROVE  (Seen(q, Feeder(m, i))').resolved
    <2>1. PICK f \in DOMAIN rows : f = Feeder(m, i) BY <1>2, <1>3, Feeders
    <2>2. Seen(q, f).resolved BY <2>1, <1>1, <1>3 DEF Looking
    <2>3. (Seen(q, f)').resolved BY <2>2, OtherView, ViewFacts
    <2> QED BY <2>1, <2>3, <1>1 DEF Seen, Feeder
  <1>4. ASSUME Unseating(q), ~rows'[m].resolved
        PROVE  /\ \E i \in Sides : Emptied(q, i)'
               /\ \A i \in Sides : rows'[m].seat[i] \in {NoOne, job[q].row.seat[i]}
    <2>1. m \in DOMAIN rows BY <1>2, <1>4 DEF Unseating
    <2>2. \A k \in DOMAIN rows : rows[k].resolved => rows'[k].resolved BY DEF Beside, VerdictStands, Stands
    <2>3. /\ \E i \in Sides : Emptied(q, i)
          /\ \A i \in Sides : rows[m].seat[i] \in {NoOne, job[q].row.seat[i]}
      BY <1>1, <1>4, <2>1, <2>2 DEF Looking
    <2>4. PICK i \in Sides : Emptied(q, i) BY <2>3
    <2>5. rows[m].seat[i] = NoOne /\ job[q].row.seat[i] = NoOne /\ (m[1] > 1 => rows[Feeder(m, i)].resolved)
      BY <2>4 DEF Emptied
    <2>6. m[1] > 1 => Feeder(m, i) \in DOMAIN rows /\ rows'[Feeder(m, i)].resolved BY <2>1, <2>2, <2>5, Feeders
    <2>7. ASSUME NEW k \in Sides PROVE ~Came(m, k)
      <3> SUFFICES ASSUME Came(m, k) PROVE FALSE OBVIOUS
      <3>1. /\ m[1] > 1 /\ \A j \in Sides : rows'[m].seat[j] = NoOne => ~rows'[Feeder(m, j)].resolved
        BY <2>1 DEF Beside
      <3>2. rows'[m].seat[i] # NoOne BY <3>1, <2>6
      <3>3. Came(m, i) BY <3>2, <2>5, <1>4 DEF Came
      <3>4. ~rows[Feeder(m, i)].resolved BY <3>3, <2>1 DEF Beside
      <3> QED BY <3>1, <3>4, <2>5
    <2>8. \A k \in Sides : rows'[m].seat[k] \in {NoOne, rows[m].seat[k]} BY <2>7, <1>4 DEF Came
    <2>9. Emptied(q, i)' BY <2>5, <2>6, <2>8, <1>1 DEF Emptied
    <2> QED BY <2>3, <2>8, <2>9
  <1>5. Unseating(q)' = Unseating(q) BY <1>1 DEF Unseating
  <1> QED BY <1>1, <1>3, <1>4, <1>5 DEF Looking

\* A step beside q leaves q in order.
LEMMA OtherOrderly ==
  ASSUME IInv, IInv', NEW q \in Procs, Stays(q), Beside(q), Orderly(q), InOrder(rows, {})'
  PROVE  Orderly(q)'
  <1>1. Climbs(rows)' BY DEF InOrder
  <1>2. Untouched(q)' BY DEF Orderly, Untouched, Stays, Beside
  <1> QED BY <1>1, <1>2, OtherInOrder, OtherReady, OtherChain, OtherLooking DEF Orderly

\* A step that leaves the matches alone.
LEMMA StillBeside ==
  ASSUME IInv, rows' = rows, refused \subseteq refused', NEW q \in Procs
  PROVE  Beside(q)
  BY DEF Beside, VerdictStands, Stands, Came

\* The bracket stays in order where its rows stay.
LEMMA StillInOrder ==
  ASSUME rows' = rows, refused \subseteq refused', InOrder(rows, {})
  PROVE  InOrder(rows, {})'
  BY DEF InOrder, Climbs, SeatedAt, ByeFits

\* Who is in no transaction sees what is committed.
LEMMA FreeView ==
  ASSUME IInv, NEW p \in Procs, locks[p] = {}
  PROVE  View(p) = rows /\ DOMAIN dirty[p] = {} /\ \A m \in DOMAIN rows : Seen(p, m) = rows[m]
  <1>1. DOMAIN dirty[p] = {} BY DEF IInv, TxTyped, Tx
  <1> QED BY <1>1 DEF View, Seen, IInv, RowsTyped, IsFcn

\* Who is in no transaction has nothing written.
LEMMA FreeChain ==
  ASSUME IInv', NEW p \in Procs, locks'[p] = {}
  PROVE  Chain(p)' /\ Untouched(p)' /\ DOMAIN dirty'[p] = {} /\ View(p)' = rows'
  <1>1. DOMAIN dirty'[p] = {} /\ job'[p].pc \notin {"write", "seat"} BY DEF IInv, TxTyped, Tx
  <1>2. \A m \in DOMAIN rows' : Seen(p, m)' = rows'[m] BY <1>1 DEF Seen
  <1>3. View(p)' = rows' BY <1>2 DEF View, IInv, RowsTyped, IsFcn
  <1> QED BY <1>1, <1>3 DEF Chain, Untouched

\* p moves, outside of any transaction.
Moved(p, j) ==
  /\ j.pc = "lock" => /\ FedIn(rows, j.match)
                      /\ j.bye => rows[j.match].resolved \/ Present(rows[j.match]) \subseteq {j.verdict}
  /\ j.pc \in {"oust", "bye"} =>
       /\ job[p].pc \in {"oust", "bye"} /\ j.match = job[p].match /\ j.row = job[p].row
       /\ dirty' = dirty /\ locks' = locks

\* A step of p outside of any transaction leaves all in order.
LEMMA FreeMove ==
  ASSUME IInv, IInv', PInv, NEW p \in Procs, NEW j, job' = [job EXCEPT ![p] = j], locks'[p] = {},
         rows' = rows, refused \subseteq refused', OnTime', Moved(p, j),
         \A q \in Others(p) : dirty'[q] = dirty[q] /\ locks'[q] = locks[q]
  PROVE  PInv'
  <1>1. job'[p] = j /\ \A q \in Others(p) : Stays(q) BY DEF IInv, JobsTyped, Others, Stays
  <1>2. InOrder(rows, {})' BY StillInOrder DEF PInv
  <1>3. \A q \in Others(p) : Orderly(q)' BY <1>1, <1>2, StillBeside, OtherOrderly DEF PInv, Others
  <1>4. Chain(p)' /\ Untouched(p)' /\ DOMAIN dirty'[p] = {} /\ View(p)' = rows' BY FreeChain
  <1>5. job'[p].pc \notin {"write", "seat"} BY DEF IInv, TxTyped, Tx
  <1>6. j.pc = "lock" => j.match \in DOMAIN rows BY <1>1 DEF IInv, JobsTyped, JobOK, InMatch
  <1>7. Ready(p)'
    <2>1. job'[p].pc = "lock" => FedIn(View(p), job[p].match)' BY <1>1, <1>4, <1>6 DEF Moved, FedIn
    <2>2. job'[p].pc = "lock" /\ job'[p].bye =>
            (Seen(p, job[p].match).resolved \/ Present(Seen(p, job[p].match)) \subseteq {job[p].verdict})'
      BY <1>1, <1>4, <1>6 DEF Moved, Seen, Present
    <2> QED BY <2>1, <2>2, <1>5 DEF Ready
  <1>8. Looking(p)'
    <2>1. CASE j.pc \in {"oust", "bye"}
      <3>1. /\ Looking(p) /\ j.match = job[p].match /\ j.row = job[p].row /\ job[p].pc \in {"oust", "bye"}
            /\ dirty' = dirty /\ locks' = locks
        BY <2>1 DEF PInv, Orderly, Moved
      <3>2. /\ j.match = job[p].match /\ j.row = job[p].row /\ job'[p] = j
            /\ dirty'[p] = dirty[p] /\ locks'[p] = locks[p] /\ rows' = rows
        BY <3>1, <1>1
      <3>3. \A m : Seen(p, m)' = Seen(p, m) BY <3>2 DEF Seen
      <3>4. job'[p].match = job[p].match /\ job'[p].row = job[p].row BY <3>2
      <3>5. \A i : Emptied(p, i)' = Emptied(p, i) BY <3>2, <3>4 DEF Emptied, Feeder
      <3>6. \A i : Feeder(job[p].match, i)' = Feeder(job[p].match, i) BY <3>4 DEF Feeder
      <3>7. \A i \in Sides : (job[p].match[1] > 1 /\ job[p].row.seat[i] # NoOne =>
                               Seen(p, Feeder(job[p].match, i)).resolved)'
        BY <3>1, <3>3, <3>4, <3>6 DEF Looking
      <3>8. (Unseating(p) /\ ~rows[job[p].match].resolved =>
               /\ \E i \in Sides : Emptied(p, i)
               /\ \A i \in Sides : rows[job[p].match].seat[i] \in {NoOne, job[p].row.seat[i]})'
        <4>1. Unseating(p)' => Unseating(p) BY <3>1, <3>2 DEF Unseating
        <4> QED BY <3>1, <3>2, <3>4, <3>5, <4>1 DEF Looking
      <3> QED BY <3>7, <3>8 DEF Looking
    <2>2. CASE j.pc \notin {"oust", "bye"} BY <2>2, <1>1 DEF Looking, Unseating
    <2> QED BY <2>1, <2>2
  <1>9. InOrder(View(p), Pending(p))'
    <2>1. Pending(p)' = {} BY <1>5 DEF Pending
    <2> QED BY <2>1, <1>2, <1>4 DEF InOrder, Climbs, SeatedAt, ByeFits
  <1>10. Orderly(p)' BY <1>4, <1>7, <1>8, <1>9 DEF Orderly
  <1> QED BY <1>2, <1>3, <1>10 DEF PInv, Others

\* Nobody moves.
LEMMA NoMove ==
  ASSUME IInv, IInv', PInv, UNCHANGED <<rows, job, transaction>>, refused \subseteq refused', OnTime'
  PROVE  PInv'
  <1>1. \A q \in Procs : Stays(q) BY DEF Stays, transaction
  <1>2. InOrder(rows, {})' BY StillInOrder DEF PInv
  <1>3. \A q \in Procs : Orderly(q)' BY <1>1, <1>2, StillBeside, OtherOrderly DEF PInv
  <1> QED BY <1>2, <1>3 DEF PInv

\* The tick still keeps up where rows and clock stay.
LEMMA StillOnTime ==
  ASSUME PInv, rows' = rows, clock' = clock, list' \subseteq list
  PROVE  OnTime'
  BY DEF PInv, OnTime, FedIn

\* A match both of whose sides are taken has been fed.
LEMMA TakenIsFed ==
  ASSUME NEW R, Climbs(R), NEW m \in DOMAIN R, R[m].seat[0] # NoOne, R[m].seat[1] # NoOne
  PROVE  FedIn(R, m)
  BY DEF Climbs, FedIn, Sides

\* Action by action: registration, cancel and reopening leave the bracket alone.
LEMMA RegistrationOrderly ==
  ASSUME IInv, IInv', PInv, Join \/ (\E e \in Players : Leave(e)) \/ Cancel \/ Reopen PROVE PInv'
  <1>1. UNCHANGED <<rows, job, transaction, clock, list, refused>>
    BY DEF Join, Leave, Cancel, Reopen, history
  <1> QED BY <1>1, StillOnTime, NoMove

\* A refusal makes a winner's seat due to nobody.
LEMMA HookRefusesOrderly ==
  ASSUME IInv, IInv', PInv, NEW p \in Procs, NEW e \in Players, HookRefuses(p, e) PROVE PInv'
  <1> USE DEF HookRefuses
  <1>1. OnTime' BY StillOnTime
  <1>2. refused \subseteq refused' /\ rows' = rows OBVIOUS
  <1>3. CASE ~Forfeits BY <1>1, <1>2, <1>3, NoMove
  <1>4. CASE Forfeits
    <2> DEFINE j == [job[p] EXCEPT !.pc = "forfeit", !.entry = e]
    <2>1. job' = [job EXCEPT ![p] = j] BY <1>4 DEF IInv, JobsTyped, IsFcn
    <2>2. j.pc = "forfeit" BY JobIs DEF Job
    <2>3. locks'[p] = {} BY JobIs DEF Tx, Outside, transaction
    <2> HIDE DEF j
    <2> QED BY <1>1, <1>2, <2>1, <2>2, <2>3, FreeMove DEF Moved, transaction
  <1> QED BY <1>3, <1>4

\* A deadline passes when the rounds before are settled.
LEMMA ClockOrderly == ASSUME IInv, IInv', PInv, Punctual, Clock PROVE PInv'
  <1> USE DEF Clock, database, history
  <1>1. \A m \in DOMAIN rows : m[1] \in Nat BY InMatches, Geometry
  <1>2. list = {} /\ \A m \in DOMAIN rows : m[1] <= clock => rows[m].resolved BY DEF Punctual, Due
  <1>3. clock \in Nat BY DEF IInv, Phases
  <1>4. OnTime' BY <1>1, <1>2, <1>3 DEF OnTime
  <1> QED BY <1>4, NoMove

\* What the tick reads as due has been fed.
LEMMA TickOrderly == ASSUME IInv, IInv', PInv, Tick PROVE PInv'
  <1> USE DEF Tick, database, history
  <1>1. refused \subseteq refused' /\ rows' = rows OBVIOUS
  <1>2. CASE Decided \/ clock >= Ends
    <2> DEFINE j == [job[Ticker] EXCEPT !.pc = "finish"]
    <2>1. job' = [job EXCEPT ![Ticker] = j] BY <1>2, ProcsFacts DEF Goto, IInv, JobsTyped, IsFcn
    <2>2. j.pc = "finish" BY ProcsFacts, JobIs DEF Job
    <2>3. locks'[Ticker] = {} BY ProcsFacts, JobIs DEF Tx, Outside, transaction
    <2>4. OnTime' BY <1>2, StillOnTime
    <2> HIDE DEF j
    <2> QED BY <1>1, <2>1, <2>2, <2>3, <2>4, ProcsFacts, FreeMove DEF Moved, transaction
  <1>3. CASE ~(Decided \/ clock >= Ends)
    <2>1. /\ list' = {[match |-> m, row |-> rows[m]] : m \in {k \in DOMAIN rows : Due(k) /\ ~rows[k].resolved}}
          /\ UNCHANGED job
      BY <1>3
    <2>2. ASSUME NEW m \in DOMAIN rows, m[1] <= clock PROVE FedIn(rows, m)
      <3>1. m[1] \in Nat /\ clock \in Nat BY InMatches, Geometry DEF IInv, Phases
      <3>2. ASSUME m[1] > 1, NEW i \in Sides PROVE rows[Feeder(m, i)].resolved
        <4>1. Feeder(m, i) \in DOMAIN rows /\ Feeder(m, i)[1] = m[1] - 1 BY <3>2, Feeders, InMatches, Geometry
        <4>2. m[1] - 1 < clock BY <2>2, <3>1
        <4> QED BY <4>1, <4>2 DEF PInv, OnTime
      <3> QED BY <3>2 DEF FedIn
    <2>3. \A x \in list' : FedIn(rows, x.match) BY <2>1, <2>2 DEF Due
    <2>4. OnTime' BY <2>3 DEF PInv, OnTime, FedIn
    <2> QED BY <1>1, <2>1, <2>4, NoMove
  <1> QED BY <1>2, <1>3

\* A match that a game reports has both its players, so both its feeders are settled.
LEMMA ReportOrderly ==
  ASSUME IInv, IInv', PInv, Punctual, NEW p \in Procs, NEW m \in DOMAIN rows, NEW w \in Someone, Report(p, m, w)
  PROVE  PInv'
  <1> USE DEF Report, database, history
  <1> DEFINE j == [pc |-> "lock", match |-> m, verdict |-> w, bye |-> FALSE,
                   entry |-> NoOne, row |-> EmptyRow]
  <1>1. job' = [job EXCEPT ![p] = j] BY DEF Resolve
  <1>2. Cardinality(Present(rows[m])) = 2 /\ SeatsOK(rows[m]) BY RowSeats DEF Punctual, IInv, RowsTyped, RowOK
  <1>3. Two(rows[m]) BY <1>2, PresentTwo
  <1>4. FedIn(rows, m) BY <1>3, TakenIsFed DEF Two, PInv, InOrder
  <1>5. locks'[p] = {} BY JobIs DEF Tx, Outside, transaction
  <1>6. OnTime' BY StillOnTime
  <1>7. Moved(p, j) BY <1>4 DEF Moved
  <1> HIDE DEF j
  <1> QED BY <1>1, <1>5, <1>6, <1>7, FreeMove DEF transaction

\* The end leaves the bracket alone.
LEMMA FinishOrderly == ASSUME IInv, IInv', PInv, NEW p \in Procs, Finish(p) PROVE PInv'
  <1> USE DEF Finish
  <1>1. job' = [job EXCEPT ![p] = Idle] /\ locks'[p] = {} BY JobIs DEF Done, Tx, Outside, transaction
  <1>2. Moved(p, Idle) BY IdleOK DEF Moved
  <1> QED BY <1>1, <1>2, StillOnTime, FreeMove DEF transaction

\* A transaction that is rolled back leaves the bracket as it was.
LEMMA CrashOrderly == ASSUME IInv, IInv', PInv, NEW p \in Procs, Crash(p) PROVE PInv'
  <1> USE DEF Crash, database
  <1>1. job' = [job EXCEPT ![p] = Idle] BY DEF Done
  <1>2. locks'[p] = {} /\ \A q \in Others(p) : dirty'[q] = dirty[q] /\ locks'[q] = locks[q]
    BY DEF Gone, IInv, TxTyped, Others
  <1>3. Moved(p, Idle) BY IdleOK DEF Moved
  <1>4. OnTime' BY StillOnTime
  <1> QED BY <1>1, <1>2, <1>3, <1>4, FreeMove

\* The entry is out, its match is still looked at.
LEMMA OustOrderly == ASSUME IInv, IInv', PInv, NEW p \in Procs, Oust(p) PROVE PInv'
  <1> USE DEF Oust, history, transaction
  <1> DEFINE j == [job[p] EXCEPT !.pc = "bye", !.entry = NoOne]
  <1>1. job' = [job EXCEPT ![p] = j] BY DEF IInv, JobsTyped, IsFcn
  <1>2. j.pc = "bye" /\ j.match = job[p].match /\ j.row = job[p].row BY JobIs DEF Job
  <1> HIDE DEF j
  <1>3. Moved(p, j) BY <1>2 DEF Moved
  <1>4. locks'[p] = {} BY JobIs DEF Tx, Outside
  <1> QED BY <1>1, <1>3, <1>4, StillOnTime, FreeMove

\* A forfeit is for a match with an opponent, so a fed one.
LEMMA ForfeitOrderly == ASSUME IInv, IInv', PInv, NEW p \in Procs, Forfeit(p) PROVE PInv'
  <1> DEFINE e == job[p].entry
  <1>0. UNCHANGED <<rows, transaction, clock, list, refused>> BY DEF Forfeit, database, history
  <1>1. locks'[p] = {} /\ OnTime' BY <1>0, StillOnTime, JobIs DEF Forfeit, Tx, Outside, transaction
  <1>2. CASE OpenFor(e) = {}
    <2>1. job' = [job EXCEPT ![p] = Idle] BY <1>2 DEF Forfeit, Done
    <2>2. Moved(p, Idle) BY IdleOK DEF Moved
    <2> QED BY <1>0, <1>1, <2>1, <2>2, FreeMove DEF transaction
  <1>3. CASE OpenFor(e) # {}
    <2>1. PICK m \in OpenFor(e) :
            \/ job' = [job EXCEPT ![p].pc = "unseat", ![p].match = m]
            \/ \E o \in Present(rows[m]) \ {e} : Resolve(p, m, o, FALSE, e)
      BY <1>3, ForfeitFinds
    <2>2. CASE job' = [job EXCEPT ![p].pc = "unseat", ![p].match = m]
      <3> DEFINE j == [job[p] EXCEPT !.pc = "unseat", !.match = m]
      <3>1. job' = [job EXCEPT ![p] = j] BY <2>2 DEF IInv, JobsTyped, IsFcn
      <3>2. j.pc = "unseat" BY JobIs DEF Job
      <3> HIDE DEF j
      <3> QED BY <1>0, <1>1, <3>1, <3>2, FreeMove DEF Moved, transaction
    <2>3. CASE \E o \in Present(rows[m]) \ {e} : Resolve(p, m, o, FALSE, e)
      <3>1. PICK o \in Present(rows[m]) \ {e} : Resolve(p, m, o, FALSE, e) BY <2>3
      <3> DEFINE j == [pc |-> "lock", match |-> m, verdict |-> o, bye |-> FALSE, entry |-> e, row |-> EmptyRow]
      <3>2. job' = [job EXCEPT ![p] = j] BY <3>1 DEF Resolve
      <3>3. m \in DOMAIN rows /\ e \in Present(rows[m]) BY OpenForOK
      <3>4. rows[m].seat[0] # NoOne /\ rows[m].seat[1] # NoOne BY <3>1, <3>3 DEF Present, Sides
      <3>5. FedIn(rows, m) BY <3>3, <3>4, TakenIsFed DEF PInv, InOrder
      <3>6. Moved(p, j) BY <3>5 DEF Moved
      <3> HIDE DEF j
      <3> QED BY <1>0, <1>1, <3>2, <3>6, FreeMove DEF transaction
    <2> QED BY <2>1, <2>2, <2>3
  <1> QED BY <1>2, <1>3

\* p moves, the others are beside it: all stay in order.
LEMMA Together ==
  ASSUME IInv, IInv', PInv, NEW p \in Procs, \A q \in Others(p) : Stays(q) /\ Beside(q),
         InOrder(rows, {})', OnTime', Orderly(p)'
  PROVE  PInv'
  <1>1. \A q \in Others(p) : Orderly(q)' BY OtherOrderly DEF PInv, Others
  <1> QED BY <1>1 DEF PInv, Others

\* The tick still keeps up when verdicts come.
LEMMA LaterOnTime ==
  ASSUME IInv, PInv, DOMAIN rows' = DOMAIN rows, VerdictStands, clock' = clock, list' \subseteq list
  PROVE  OnTime'
  <1>1. \A m \in DOMAIN rows : rows[m].resolved => rows'[m].resolved BY DEF VerdictStands, Stands
  <1>2. \A m \in DOMAIN rows : m[1] < clock => rows'[m].resolved BY <1>1 DEF PInv, OnTime
  <1>3. ASSUME NEW x \in list PROVE FedIn(rows, x.match)'
    <2>1. PICK m \in DOMAIN rows : m = x.match BY DEF IInv, ListTyped
    <2>2. FedIn(rows, m) BY <2>1 DEF PInv, OnTime
    <2>3. FedIn(rows, m)' BY <2>2, <1>1, Feeders DEF FedIn
    <2> QED BY <2>1, <2>3 DEF FedIn
  <1> QED BY <1>2, <1>3 DEF OnTime

\* Only what is left alone here says where a bracket is in order.
LEMMA SameBracket ==
  ASSUME IInv, InOrder(rows, {}), DOMAIN rows' = DOMAIN rows, refused \subseteq refused',
         \A m \in DOMAIN rows : /\ rows'[m].seat = rows[m].seat /\ rows'[m].resolved = rows[m].resolved
                                /\ rows'[m].winner = rows[m].winner /\ rows'[m].bye = rows[m].bye
  PROVE  InOrder(rows, {})'
  <1>1. Climbs(rows)' BY Feeders DEF InOrder, Climbs
  <1>2. \A m \in DOMAIN rows : SeatedAt(rows, m)' BY DEF InOrder, SeatedAt
  <1>3. ByeFits(rows)' BY DEF InOrder, ByeFits, Present
  <1> QED BY <1>1, <1>2, <1>3 DEF InOrder

\* A verdict by the deadline policy is for a fed match.
LEMMA SweepOrderly == ASSUME IInv, IInv', PInv, NEW x \in list, Sweep(x) PROVE PInv'
  <1> DEFINE m == x.match
  <1>0. m \in DOMAIN rows /\ RowOK(rows[m]) BY DEF IInv, ListTyped, RowsTyped
  <1>1. UNCHANGED <<transaction, clock, refused>> /\ list' \subseteq list /\ job[Ticker].pc = "idle"
    BY DEF Sweep, history
  <1>2. CASE x.row.expired
    <2>1. PICK w \in Verdicts(x.row) : Resolve(Ticker, m, w, FALSE, NoOne) BY <1>2 DEF Sweep
    <2> DEFINE j == [pc |-> "lock", match |-> m, verdict |-> w, bye |-> FALSE, entry |-> NoOne, row |-> EmptyRow]
    <2>2. job' = [job EXCEPT ![Ticker] = j] /\ rows' = rows BY <1>2, <2>1 DEF Resolve, Sweep
    <2>3. Moved(Ticker, j) BY DEF Moved, PInv, OnTime
    <2>4. locks'[Ticker] = {} BY <1>1, ProcsFacts, JobIs DEF Tx, Outside, transaction
    <2>5. OnTime' BY <1>1, <2>2, StillOnTime
    <2> HIDE DEF j
    <2> QED BY <1>1, <2>2, <2>3, <2>4, <2>5, ProcsFacts, FreeMove DEF transaction
  <1>3. CASE ~x.row.expired
    <2> DEFINE row == [rows[m] EXCEPT !.expired = TRUE]
    <2>1. rows' = [rows EXCEPT ![m] = row] /\ job' = job BY <1>3 DEF Sweep
    <2>2. /\ row.resolved = rows[m].resolved /\ row.seat = rows[m].seat
          /\ row.winner = rows[m].winner /\ row.bye = rows[m].bye
      BY <1>0 DEF RowOK, Row
    <2> HIDE DEF row, m
    <2>3. /\ DOMAIN rows' = DOMAIN rows
          /\ \A k \in DOMAIN rows : /\ rows'[k].seat = rows[k].seat /\ rows'[k].resolved = rows[k].resolved
                                    /\ rows'[k].winner = rows[k].winner /\ rows'[k].bye = rows[k].bye
      BY <1>0, <2>1, <2>2
    <2>4. InOrder(rows, {})' BY <1>1, <2>3, SameBracket DEF PInv
    <2>5. VerdictStands BY <2>3 DEF VerdictStands, Stands
    <2>6. \A q \in Procs : Stays(q) /\ Beside(q)
      BY <1>1, <2>1, <2>3, <2>5, OwnOpen DEF Stays, Beside, Came, transaction
    <2>7. OnTime' BY <1>1, <2>3, <2>5, LaterOnTime
    <2>8. \A q \in Procs : Orderly(q)' BY <2>4, <2>6, OtherOrderly DEF PInv
    <2> QED BY <2>4, <2>7, <2>8 DEF PInv
  <1> QED BY <1>2, <1>3

\* The draw leaves the bracket in order.
LEMMA BracketInOrder == ASSUME Enough PROVE InOrder(Bracket, {})
  <1> DEFINE B == Bracket
             D == DOMAIN Bracket
  <1>1. /\ D \subseteq Matches /\ \A m \in D : m[1] > 1 => \A i \in Sides : Feeder(m, i) \in D
        /\ \A m \in D :
             /\ RowOK(B[m])
             /\ m[1] = 1 => Drawn(B[m])
             /\ m[1] # 1 => ~B[m].resolved
             /\ m[1] = 2 => \A i \in Sides : B[m].seat[i] = B[Feeder(m, i)].winner
             /\ m[1] > 2 => \A i \in Sides : B[m].seat[i] = NoOne
    BY BracketOK DEF Fed
  <1> HIDE DEF B
  <1>2. ASSUME NEW m \in D, m[1] > 1, NEW i \in Sides, B[m].resolved \/ B[m].seat[i] # NoOne
        PROVE  B[Feeder(m, i)].resolved
    <2>1. m[1] \in Nat BY <1>1, Geometry
    <2>2. ~B[m].resolved /\ m[1] = 2 BY <1>1, <1>2, <2>1
    <2> QED BY <1>1, <1>2, <2>2 DEF RowOK
  <1>3. ASSUME NEW m \in D, B[m].resolved, Upper(m) \in D PROVE B[Upper(m)].seat[Side(m)] = B[m].winner
    <2>1. m[1] = 1 BY <1>1, <1>3
    <2>2. Upper(m)[1] = 2 /\ Side(m) \in Sides /\ Feeder(Upper(m), Side(m)) = m BY <2>1, <1>1, Geometry
    <2> QED BY <1>1, <1>3, <2>2
  <1>4. ASSUME NEW m \in D, B[m].bye PROVE Present(B[m]) \subseteq {B[m].winner}
    <2>1. m[1] = 1 BY <1>1, <1>4 DEF RowOK
    <2> QED BY <1>1, <1>4, <2>1 DEF Drawn, RowOK
  <1>5. Climbs(B)
    <2> SUFFICES ASSUME NEW m \in D, m[1] > 1, NEW i \in Sides, B[m].resolved \/ B[m].seat[i] # NoOne
                 PROVE  B[Feeder(m, i)].resolved
      BY DEF Climbs, B
    <2> QED BY <1>2
  <1>6. ByeFits(B) BY <1>4 DEF ByeFits, B
  <1>7. \A m \in D : SeatedAt(B, m) BY <1>3 DEF SeatedAt, B
  <1> QED BY <1>5, <1>6, <1>7 DEF InOrder, B

\* The draw.
LEMMA DrawOrderly == ASSUME IInv, IInv', PInv, Draw PROVE PInv'
  <1>1. UNCHANGED <<job, transaction, clock, list, refused>> /\ tstate = "registration" BY DEF Draw
  <1>2. rows = <<>> /\ DOMAIN rows = {} /\ clock = 0 BY <1>1 DEF IInv, Phases
  <1>3. CASE Len(entrants) < 2 BY <1>1, <1>3, StillOnTime, NoMove DEF Draw
  <1>4. CASE ~(Len(entrants) < 2)
    <2>1. rows' = Bracket /\ Enough BY <1>4, DrawIsEnough DEF Draw
    <2>2. InOrder(rows, {})' BY <1>1, <2>1, BracketInOrder DEF InOrder, Climbs, SeatedAt, ByeFits
    <2>3. list' = {} /\ \A p \in Procs : job'[p].pc \notin InMatch /\ locks'[p] = {}
      BY <1>1, <1>2, NoBracket DEF transaction
    <2>4. OnTime'
      <3>1. \A m \in DOMAIN rows' : m[1] >= 1 /\ m[1] \in Nat BY Geometry DEF IInv, RowsTyped
      <3> QED BY <1>1, <1>2, <2>3, <3>1 DEF OnTime
    <2>5. ASSUME NEW p \in Procs PROVE Orderly(p)'
      <3>1. Chain(p)' /\ Untouched(p)' /\ View(p)' = rows' BY <2>3, FreeChain
      <3>2. Ready(p)' /\ Looking(p)' BY <2>3 DEF Ready, Looking, Unseating, InMatch
      <3>3. Pending(p)' = {} BY <2>3 DEF Pending, InMatch
      <3>4. InOrder(View(p), Pending(p))' BY <2>2, <3>1, <3>3 DEF InOrder, Climbs, SeatedAt, ByeFits
      <3> QED BY <3>1, <3>2, <3>4 DEF Orderly
    <2> QED BY <2>2, <2>4, <2>5 DEF PInv
  <1> QED BY <1>3, <1>4

-----------------------------------------------------------------------------
\* The steps of a transaction.

\* Nobody but p moves, and nothing is committed.
LEMMA OwnMove ==
  ASSUME IInv, IInv', PInv, NEW p \in Procs, rows' = rows, refused' = refused, clock' = clock, list' = list,
         \A q \in Others(p) : Stays(q), Orderly(p)'
  PROVE  PInv'
  <1>1. InOrder(rows, {})' /\ OnTime' BY StillInOrder, StillOnTime DEF PInv
  <1>2. \A q \in Others(p) : Beside(q) BY StillBeside DEF Others
  <1> QED BY <1>1, <1>2, Together

\* A lock taken; one found resolved outside of a transaction ends the matter.
LEMMA LockOrderly == ASSUME IInv, IInv', PInv, NEW p \in Procs, Lock(p) PROVE PInv'
  <1> DEFINE m == job[p].match
  <1>0. /\ UNCHANGED <<clock, list, refused>> /\ job[p].pc = "lock" /\ m \in DOMAIN rows
        /\ Chain(p) /\ Ready(p) /\ Untouched(p) /\ InOrder(View(p), Pending(p))
    BY JobIs DEF Lock, history, JobOK, InMatch, PInv, Orderly
  <1>1. CASE StillOpen(Seen(p, m))
    <2> DEFINE j == [job[p] EXCEPT !.pc = "write", !.row = Seen(p, m)]
    <2>1. /\ job' = [job EXCEPT ![p] = j] /\ locks' = [locks EXCEPT ![p] = @ \cup {m}]
          /\ UNCHANGED <<rows, dirty>>
      BY <1>1 DEF Lock, IInv, JobsTyped, IsFcn
    <2>2. j.pc = "write" /\ j.match = m /\ j.verdict = job[p].verdict /\ j.bye = job[p].bye BY JobIs DEF Job
    <2> HIDE DEF j
    <2>3. job'[p] = j /\ locks'[p] = locks[p] \cup {m} /\ dirty'[p] = dirty[p] /\ \A q \in Others(p) : Stays(q)
      BY <2>1 DEF IInv, JobsTyped, TxTyped, Stays, Others
    <2>4. View(p)' = View(p) /\ \A k \in DOMAIN rows : Seen(p, k)' = Seen(p, k) BY <2>1 DEF View, Seen
    <2>5. Pending(p)' = {} /\ Pending(p) = {} BY <1>0, <2>2, <2>3 DEF Pending
    <2>6. InOrder(View(p), Pending(p))'
      BY <1>0, <2>1, <2>4, <2>5 DEF InOrder, Climbs, SeatedAt, ByeFits
    <2>7. Ready(p)' BY <1>0, <2>2, <2>3, <2>4 DEF Ready, FedIn, Seen
    <2>8. Chain(p)'
      <3>1. \A k : Fresh(p, k)' = Fresh(p, k) BY <1>0, <2>2, <2>3 DEF Fresh
      <3> QED BY <1>0, <2>1, <2>2, <2>3, <2>5, <3>1 DEF Chain
    <2>9. Looking(p)' /\ Untouched(p)' BY <1>0, <2>1, <2>2, <2>3 DEF Looking, Unseating, Untouched
    <2>10. Orderly(p)' BY <2>6, <2>7, <2>8, <2>9 DEF Orderly
    <2> QED BY <1>0, <2>1, <2>3, <2>10, OwnMove
  <1>2. CASE ~StillOpen(Seen(p, m))
    <2>1. locks[p] = {} BY <1>0, <1>2 DEF StillOpen, Chain, Seen
    <2> DEFINE j == [Idle EXCEPT !.entry = job[p].entry,
                                 !.pc = IF job[p].entry = NoOne THEN "idle" ELSE "forfeit"]
    <2>2. job' = [job EXCEPT ![p] = j] /\ UNCHANGED <<rows, transaction>>
      BY <1>2, <2>1 DEF Lock, InTransaction
    <2>3. Moved(p, j) BY IdleOK DEF Moved, Idle
    <2> HIDE DEF j
    <2> QED BY <1>0, <2>1, <2>2, <2>3, StillOnTime, FreeMove DEF transaction
  <1> QED BY <1>1, <1>2

\* A bracket in order is in order for p, once it is what p sees.
LEMMA AsSeen ==
  ASSUME NEW p, NEW V, NEW out, InOrder(V, out), View(p)' = V, Pending(p)' = out, refused' = refused
  PROVE  InOrder(View(p), Pending(p))'
  BY DEF InOrder, Climbs, SeatedAt, ByeFits

\* A match is decided: in the bracket so far he who won it may have no seat yet.
LEMMA DecideInOrder ==
  ASSUME NEW R, NEW m \in DOMAIN R, NEW v, DOMAIN R \subseteq Matches, InOrder(R, {}),
         \A k \in DOMAIN R : k[1] > 1 => \A i \in Sides : Feeder(k, i) \in DOMAIN R,
         ~R[m].resolved, v.resolved, v.seat = R[m].seat, FedIn(R, m),
         v.bye => Present(R[m]) \subseteq {v.winner}
  PROVE  InOrder([k \in DOMAIN R |-> IF k = m THEN v ELSE R[k]], {m})
  <1> DEFINE V == [k \in DOMAIN R |-> IF k = m THEN v ELSE R[k]]
  <1>1. /\ DOMAIN V = DOMAIN R /\ V[m] = v /\ \A k \in DOMAIN R : k # m => V[k] = R[k]
        /\ \A k \in DOMAIN R : V[k].seat = R[k].seat /\ (R[k].resolved => V[k].resolved)
    OBVIOUS
  <1> HIDE DEF V
  <1>2. Climbs(R) /\ ByeFits(R) /\ \A k \in DOMAIN R : SeatedAt(R, k) BY DEF InOrder
  <1>3. Climbs(V)
    <2> SUFFICES ASSUME NEW k \in DOMAIN R, k[1] > 1, NEW i \in Sides, V[k].resolved \/ V[k].seat[i] # NoOne
                 PROVE  V[Feeder(k, i)].resolved
      BY <1>1 DEF Climbs
    <2>1. Feeder(k, i) \in DOMAIN R OBVIOUS
    <2>2. R[Feeder(k, i)].resolved
      <3>1. CASE k = m BY <3>1 DEF FedIn
      <3>2. CASE k # m BY <3>2, <1>1, <1>2 DEF Climbs
      <3> QED BY <3>1, <3>2
    <2> QED BY <2>1, <2>2, <1>1
  <1>4. \A k \in DOMAIN R \ {m} : SeatedAt(V, k) BY <1>1, <1>2 DEF SeatedAt
  <1>5. ByeFits(V) BY <1>1, <1>2 DEF ByeFits, Present
  <1>6. InOrder(V, {m}) BY <1>1, <1>3, <1>4, <1>5 DEF InOrder
  <1> QED BY <1>6 DEF V

\* The verdict p writes.
Written(p) == [Seen(p, job[p].match) EXCEPT
                 !.resolved = TRUE, !.bye = job[p].bye,
                 !.winner = IF job[p].verdict = NoOne THEN @ ELSE job[p].verdict]
\* The verdict as it is written is for an open match that has been fed.
LEMMA WrittenOK ==
  ASSUME IInv, PInv, NEW p \in Procs, job[p].pc = "write"
  PROVE  /\ job[p].match \in DOMAIN rows
         /\ Written(p).resolved /\ Written(p).seat = Seen(p, job[p].match).seat
         /\ Written(p).winner = job[p].verdict
         /\ ~View(p)[job[p].match].resolved
         /\ InOrder([k \in DOMAIN rows |-> IF k = job[p].match THEN Written(p) ELSE View(p)[k]], {job[p].match})
         /\ \A k \in DOMAIN dirty[p] : k # job[p].match => dirty[p][k].resolved
  <1> DEFINE m == job[p].match
             v == Written(p)
             R == View(p)
  <1>1. m \in DOMAIN rows BY JobIs DEF JobOK, InMatch
  <1>2. RowOK(Seen(p, m)) /\ ~Seen(p, m).resolved BY <1>1, SeenOK, JobIs DEF Tx
  <1>3. v.resolved /\ v.seat = Seen(p, m).seat /\ v.winner = job[p].verdict /\ v.bye = job[p].bye
    BY <1>2 DEF Written, RowOK, Row
  <1> HIDE DEF v
  <1>4. /\ DOMAIN R = DOMAIN rows /\ R[m] = Seen(p, m) /\ Ready(p) /\ Chain(p) /\ InOrder(R, Pending(p))
        /\ Pending(p) = {}
    BY <1>1, ViewFacts DEF PInv, Orderly, Pending
  <1>5. FedIn(R, m) /\ (v.bye => Present(R[m]) \subseteq {v.winner}) BY <1>2, <1>3, <1>4 DEF Ready
  <1>6. DOMAIN R \subseteq Matches /\ \A k \in DOMAIN R : k[1] > 1 => \A i \in Sides : Feeder(k, i) \in DOMAIN R
    BY <1>4, InMatches, Feeders
  <1>7. \A k \in DOMAIN dirty[p] : k # m => dirty[p][k].resolved BY <1>4 DEF Chain, Fresh
  <1> HIDE DEF R, m
  <1>8. InOrder([k \in DOMAIN R |-> IF k = m THEN v ELSE R[k]], {m})
    BY <1>1, <1>2, <1>3, <1>4, <1>5, <1>6, DecideInOrder
  <1> QED BY <1>1, <1>2, <1>3, <1>4, <1>7, <1>8 DEF R, m, v

\* The commit of p beside q: what it decides feeds nothing that q has written.
LEMMA CommitBeside ==
  ASSUME IInv, IInv', NEW p \in Procs, NEW W, rows' = Over(W, rows), DOMAIN W \subseteq DOMAIN rows,
         refused' = refused, VerdictStands,
         \A m \in DOMAIN W : W[m].resolved /\ Upper(m) \in DOMAIN rows => Upper(m) \in DOMAIN dirty[p],
         \A m \in DOMAIN W : RowFree(p, m),
         \A m \in DOMAIN W, i \in Sides : ~W[m].resolved /\ W[m].seat[i] \notin {NoOne, rows[m].seat[i]} =>
           /\ m[1] > 1 /\ Feeder(m, i) \in DOMAIN dirty[p]
           /\ \A k \in Sides : W[m].seat[k] = NoOne => ~rows'[Feeder(m, k)].resolved
  PROVE  \A q \in Others(p) : Beside(q)
  <1>1. /\ DOMAIN rows' = DOMAIN rows /\ \A m \in DOMAIN W : rows'[m] = W[m]
        /\ \A m \in DOMAIN rows : m \notin DOMAIN W => rows'[m] = rows[m]
    BY DEF Over
  <1> SUFFICES ASSUME NEW q \in Others(p) PROVE Beside(q) OBVIOUS
  <1>2. DOMAIN dirty[p] \cap DOMAIN dirty[q] = {} BY DEF Others, IInv, TxTyped, Apart
  <1>3. DOMAIN W \cap DOMAIN dirty[q] = {} BY DEF RowFree
  <1>4. \A m \in DOMAIN dirty[q] : rows'[m].seat = rows[m].seat BY <1>1, <1>3, OwnOpen DEF Others
  <1>5. ASSUME NEW m \in DOMAIN rows, ~rows[m].resolved, rows'[m].resolved, Upper(m) \in DOMAIN rows
        PROVE  Upper(m) \notin DOMAIN dirty[q]
    <2>1. m \in DOMAIN W BY <1>1, <1>5
    <2>2. W[m].resolved BY <1>1, <1>5, <2>1
    <2> QED BY <1>2, <1>5, <2>1, <2>2
  <1>6. ASSUME NEW m \in DOMAIN rows, NEW i \in Sides, Came(m, i)
        PROVE  /\ m[1] > 1 /\ ~rows[Feeder(m, i)].resolved /\ Feeder(m, i) \notin DOMAIN dirty[q]
               /\ \A k \in Sides : rows'[m].seat[k] = NoOne => ~rows'[Feeder(m, k)].resolved
    <2>1. m \in DOMAIN W /\ rows'[m] = W[m] BY <1>1, <1>6 DEF Came
    <2>2. /\ m[1] > 1 /\ Feeder(m, i) \in DOMAIN dirty[p]
          /\ \A k \in Sides : W[m].seat[k] = NoOne => ~rows'[Feeder(m, k)].resolved
      BY <2>1, <1>6 DEF Came
    <2>3. ~rows[Feeder(m, i)].resolved BY <2>2, OwnOpen
    <2> QED BY <1>2, <2>1, <2>2, <2>3
  <1> QED BY <1>1, <1>4, <1>5, <1>6 DEF Beside

\* After its commit p is in no transaction, and at no match.
LEMMA CommittedOrderly ==
  ASSUME IInv, IInv', PInv, NEW p \in Procs, NEW W, NEW mk, Commit(p, W, mk), DOMAIN W \subseteq DOMAIN rows,
         UNCHANGED <<clock, list, refused>>, VerdictStands, \A q \in Others(p) : Beside(q), InOrder(rows, {})'
  PROVE  PInv'
  <1>1. locks'[p] = {} /\ job'[p].pc \in {"idle", "finish"} /\ \A q \in Others(p) : Stays(q)
    BY DEF Commit, Gone, IInv, JobsTyped, TxTyped, Idle, Stays, Others
  <1>2. DOMAIN rows' = DOMAIN rows BY DEF Commit, Over
  <1>3. OnTime' BY <1>2, LaterOnTime
  <1>4. Chain(p)' /\ Untouched(p)' /\ View(p)' = rows' BY <1>1, FreeChain
  <1>5. Pending(p)' = {} BY <1>1 DEF Pending
  <1>6. InOrder(View(p), Pending(p))' BY <1>4, <1>5 DEF InOrder, Climbs, SeatedAt, ByeFits
  <1>7. Ready(p)' /\ Looking(p)' BY <1>1 DEF Ready, Looking, Unseating
  <1>8. Orderly(p)' BY <1>4, <1>6, <1>7 DEF Orderly
  <1> QED BY <1>1, <1>3, <1>8, Together

\* A verdict written: that of the final is committed.
LEMMA WriteOrderly == ASSUME IInv, IInv', PInv, NEW p \in Procs, Write(p), VerdictStands PROVE PInv'
  <1> DEFINE m == job[p].match
             v == Written(p)
             W == Put(dirty[p], m, v)
             R == View(p)
             V == [k \in DOMAIN rows |-> IF k = m THEN v ELSE R[k]]
  <1>0. job[p].pc = "write" /\ RowFree(p, m) /\ UNCHANGED <<clock, list, refused>> BY DEF Write, history
  <1>1. /\ m \in DOMAIN rows /\ v.resolved /\ v.seat = Seen(p, m).seat /\ v.winner = job[p].verdict
        /\ ~R[m].resolved /\ InOrder(V, {m}) /\ \A k \in DOMAIN dirty[p] : k # m => dirty[p][k].resolved
    BY <1>0, WrittenOK
  <1>2. /\ Ready(p) /\ Chain(p) /\ Untouched(p) /\ InOrder(R, {}) /\ Pending(p) = {} /\ m \in locks[p]
    BY <1>0, JobIs DEF PInv, Orderly, Pending, Tx
  <1>3. /\ DOMAIN R = DOMAIN rows /\ DOMAIN dirty[p] \subseteq DOMAIN rows
        /\ \A k \in DOMAIN rows : /\ R[k] = Seen(p, k)
                                  /\ k \in DOMAIN dirty[p] => R[k] = dirty[p][k]
                                  /\ k \notin DOMAIN dirty[p] => R[k] = rows[k]
    BY ViewFacts
  <1>4. \A k \in DOMAIN dirty[p] : Upper(k) \in DOMAIN rows /\ dirty[p][k].resolved => Upper(k) \in DOMAIN dirty[p]
    BY <1>2 DEF Chain
  <1>5. CASE Final(m)
    <2>1. Commit(p, W, Over(EntriesOf(p), marks[p])) BY <1>5 DEF Write, Written
    <2> HIDE DEF v, R
    <2>2. /\ DOMAIN W = DOMAIN dirty[p] \cup {m} /\ W[m] = v
          /\ \A k \in DOMAIN dirty[p] : k # m => W[k] = dirty[p][k]
      BY DEF Put
    <2> HIDE DEF W
    <2>3. rows' = Over(W, rows) BY <2>1 DEF Commit
    <2>4. DOMAIN W \subseteq DOMAIN rows /\ \A k \in DOMAIN W : W[k].resolved BY <1>1, <1>3, <2>2
    <2>5. \A k \in DOMAIN W : Upper(k) \in DOMAIN rows => Upper(k) \in DOMAIN dirty[p]
      BY <1>1, <1>4, <1>5, <2>2 DEF Final
    <2>6. \A k \in DOMAIN W : RowFree(p, k)
      <3>1. \A k \in DOMAIN dirty[p] : RowFree(p, k) BY DEF RowFree, Others, IInv, TxTyped, Apart
      <3> QED BY <3>1, <1>0, <2>2
    <2>7. \A q \in Others(p) : Beside(q) BY <1>0, <2>3, <2>4, <2>5, <2>6, CommitBeside
    <2>8. /\ DOMAIN rows' = DOMAIN V /\ \A k \in DOMAIN V : rows'[k] = V[k] BY <1>3, <2>2, <2>3, <2>4 DEF Over
    <2>9. InOrder(rows, {})'
      <3>1. /\ \A k \in DOMAIN V : k[1] > 1 => \A i \in Sides : Feeder(k, i) \in DOMAIN V
        BY Feeders
      <3>2. SeatedAt(V, m) BY <1>5 DEF SeatedAt, Final
      <3>3. Climbs(V) /\ ByeFits(V) /\ \A k \in DOMAIN V : SeatedAt(V, k) BY <1>1, <3>2 DEF InOrder
      <3> HIDE DEF V
      <3>4. Climbs(rows)' BY <2>8, <3>1, <3>3 DEF Climbs
      <3>5. ByeFits(rows)' BY <2>8, <3>3 DEF ByeFits
      <3>6. \A k \in DOMAIN rows' : SeatedAt(rows, k)' BY <2>8, <3>3, <1>0 DEF SeatedAt
      <3> QED BY <3>4, <3>5, <3>6 DEF InOrder
    <2> QED BY <1>0, <2>1, <2>4, <2>7, <2>9, CommittedOrderly
  <1>6. CASE ~Final(m)
    <2> DEFINE j == [job[p] EXCEPT !.pc = "seat", !.row = EmptyRow]
    <2>1. /\ job' = [job EXCEPT ![p] = j] /\ dirty' = [dirty EXCEPT ![p] = W] /\ UNCHANGED <<rows, locks>>
      BY <1>6 DEF Write, Written, IInv, JobsTyped, IsFcn
    <2>2. j.pc = "seat" /\ j.match = m /\ j.verdict = job[p].verdict BY JobIs DEF Job
    <2> HIDE DEF j
    <2>3. job'[p] = j /\ dirty'[p] = W /\ locks'[p] = locks[p] /\ \A q \in Others(p) : Stays(q)
      BY <2>1 DEF IInv, JobsTyped, TxTyped, Stays, Others
    <2> HIDE DEF v
    <2>4. /\ DOMAIN dirty'[p] = DOMAIN dirty[p] \cup {m} /\ dirty'[p][m] = v
          /\ \A k \in DOMAIN dirty[p] : k # m => dirty'[p][k] = dirty[p][k]
      BY <2>3 DEF Put
    <2> HIDE DEF W
    <2>12. View(p)' = V
      <3>1. \A k \in DOMAIN rows : Seen(p, k)' = IF k = m THEN v ELSE Seen(p, k) BY <2>1, <2>4 DEF Seen
      <3> QED BY <2>1, <3>1 DEF View
    <2> HIDE DEF R
    <2>5. Pending(p)' = {m} BY <2>2, <2>3 DEF Pending
    <2>6. InOrder(View(p), Pending(p))'
      <3> HIDE DEF V
      <3> QED BY <1>0, <1>1, <2>5, <2>12, AsSeen
    <2>7. Ready(p)'
      <3>1. \A k \in locks[p] : FedIn(R, k) /\ k \in DOMAIN rows
        BY <1>2, JobIs DEF Ready, Tx, R
      <3>2. \A k \in locks[p] : FedIn(V, k)
        BY <3>1, <1>1, <1>3, Feeders DEF FedIn
      <3>3. \A k \in locks[p] : FedIn(View(p), k)' BY <2>12, <3>2 DEF FedIn
      <3> QED BY <2>2, <2>3, <3>3 DEF Ready
    <2>8. Chain(p)'
      <3>1. Upper(m) \in DOMAIN rows /\ Upper(m) # m /\ ~R[Upper(m)].resolved
        <4>1. /\ Upper(m) \in DOMAIN rows /\ Side(m) \in Sides /\ Feeder(Upper(m), Side(m)) = m
              /\ Upper(m)[1] > 1 /\ Upper(m)[1] = m[1] + 1 /\ m[1] \in Nat
          BY <1>1, <1>6, InMatches, Geometry DEF Final
        <4>2. Upper(m) # m
          <5>1. ASSUME NEW u, u = Upper(m), u = m PROVE FALSE BY <5>1, <4>1
          <5> QED BY <5>1
        <4> QED BY <4>1, <4>2, <1>1, <1>2, <1>3 DEF InOrder, Climbs
      <3>2. \A k \in DOMAIN dirty'[p] : /\ dirty'[p][k].resolved
                                        /\ Upper(k) \in DOMAIN rows => Upper(k) \in DOMAIN dirty'[p] \/ k \in {m}
        BY <1>1, <1>4, <2>4
      <3>3. \A k \in locks'[p] : k \in DOMAIN dirty'[p] /\ dirty'[p][k].resolved
        BY <1>1, <1>2, <2>3, <2>4 DEF Chain
      <3>4. PICK u \in DOMAIN rows : u = Upper(m) BY <3>1
      <3>5. ~(Seen(p, u)').resolved
        <4>1. Seen(p, u)' = V[u] BY <2>1, <2>12 DEF View
        <4> QED BY <4>1, <3>1, <3>4
      <3>6. Upper(job[p].match)' = u BY <2>2, <2>3, <3>4 DEF Upper
      <3> QED BY <1>1, <2>1, <2>2, <2>3, <2>4, <2>5, <3>2, <3>3, <3>5, <3>6 DEF Chain, Seen
    <2>9. Looking(p)' BY <2>2, <2>3 DEF Looking, Unseating
    <2>10. Untouched(p)'
      <3>1. m \in DOMAIN dirty[p] => v.seat = dirty[p][m].seat BY <1>1 DEF Seen
      <3>2. m \notin DOMAIN dirty[p] => v.seat = rows[m].seat BY <1>1 DEF Seen
      <3> QED BY <1>2, <2>1, <2>4, <3>1, <3>2 DEF Untouched
    <2>11. Orderly(p)' BY <2>6, <2>7, <2>8, <2>9, <2>10 DEF Orderly
    <2> QED BY <1>0, <2>1, <2>3, <2>11, OwnMove
  <1> QED BY <1>5, <1>6

\* The winner seated: the next match is open, for one of its feeders was.
LEMMA SeatOrderly == ASSUME IInv, IInv', PInv, NEW p \in Procs, Seat(p) PROVE PInv'
  <1> DEFINE m == job[p].match
             n == Upper(m)
             row == [Seen(p, n) EXCEPT !.seat[Side(m)] = job[p].verdict]
             W == Put(dirty[p], n, row)
             R == View(p)
             V == [k \in DOMAIN rows |-> IF k = n THEN row ELSE R[k]]
  <1>0. job[p].pc = "seat" /\ RowFree(p, n) /\ UNCHANGED <<clock, list, refused>> BY DEF Seat, history
  <1>1. /\ Ready(p) /\ Chain(p) /\ Untouched(p) /\ InOrder(R, {m}) /\ Pending(p) = {m} /\ m \in locks[p]
        /\ locks[p] \subseteq DOMAIN rows
    BY <1>0, JobIs DEF PInv, Orderly, Pending, Tx
  <1>2. /\ DOMAIN R = DOMAIN rows /\ DOMAIN dirty[p] \subseteq DOMAIN rows
        /\ \A k \in DOMAIN rows : /\ R[k] = Seen(p, k) /\ RowOK(R[k])
                                  /\ k \in DOMAIN dirty[p] => R[k] = dirty[p][k]
                                  /\ k \notin DOMAIN dirty[p] => R[k] = rows[k]
    BY ViewFacts
  <1>3. PICK u \in DOMAIN rows : u = n BY <1>0, JobIs DEF JobOK, Final
  <1>4. PICK w \in DOMAIN rows : w = m BY <1>1
  <1>5. Side(w) \in Sides /\ Feeder(u, Side(w)) = w /\ u[1] > 1 /\ u # w
    <2>1. Side(w) \in Sides /\ Feeder(u, Side(w)) = w /\ u[1] > 1 /\ u[1] = w[1] + 1 /\ w[1] \in Nat
      BY <1>3, <1>4, InMatches, Geometry
    <2> QED BY <2>1
  <1>6. /\ w \in DOMAIN dirty[p] /\ dirty[p][w].resolved /\ dirty[p][w].winner = job[p].verdict
        /\ R[w] = dirty[p][w] /\ ~R[u].resolved /\ ~Seen(p, u).resolved /\ Seen(p, u) = R[u]
    BY <1>0, <1>1, <1>2, <1>3, <1>4 DEF Chain
  <1>7. /\ row.resolved = R[u].resolved /\ row.bye = R[u].bye /\ row.winner = R[u].winner
        /\ row.seat = [R[u].seat EXCEPT ![Side(w)] = job[p].verdict]
        /\ row.seat[Side(w)] = job[p].verdict
        /\ \A i \in Sides : i # Side(w) => row.seat[i] = R[u].seat[i]
    BY <1>2, <1>3, <1>4, <1>5, <1>6 DEF RowOK, Row
  <1>8. ~row.bye /\ ~row.resolved BY <1>2, <1>6, <1>7 DEF RowOK
  <1> DEFINE j == [job[p] EXCEPT !.pc = "bye", !.match = u, !.row = row]
  <1>9. /\ job' = [job EXCEPT ![p] = j] /\ dirty' = [dirty EXCEPT ![p] = W] /\ UNCHANGED <<rows, locks>>
    BY <1>3, <1>6 DEF Seat, Answered, IInv, JobsTyped, IsFcn
  <1>10. j.pc = "bye" /\ j.match = u /\ j.row = row BY JobIs DEF Job
  <1> HIDE DEF j, row
  <1>11. job'[p] = j /\ dirty'[p] = W /\ locks'[p] = locks[p] /\ \A q \in Others(p) : Stays(q)
    BY <1>9 DEF IInv, JobsTyped, TxTyped, Stays, Others
  <1>12. /\ DOMAIN dirty'[p] = DOMAIN dirty[p] \cup {u} /\ dirty'[p][u] = row
         /\ \A k \in DOMAIN dirty[p] : k # u => dirty'[p][k] = dirty[p][k]
    BY <1>3, <1>11 DEF Put
  <1> HIDE DEF W
  <1>13. View(p)' = V
    <2>1. \A k \in DOMAIN rows : Seen(p, k)' = IF k = u THEN row ELSE Seen(p, k) BY <1>9, <1>12 DEF Seen
    <2> QED BY <1>3, <1>9, <2>1 DEF View
  <1>14. /\ DOMAIN V = DOMAIN rows /\ V[u] = row /\ \A k \in DOMAIN rows : k # u => V[k] = R[k]
         /\ \A k \in DOMAIN rows : V[k].resolved = R[k].resolved
    BY <1>3, <1>7
  <1> HIDE DEF V, R, m, n
  <1>15. Pending(p)' = {} BY <1>10, <1>11 DEF Pending
  <1>16. \A k \in DOMAIN rows : k[1] > 1 => \A i \in Sides : Feeder(k, i) \in DOMAIN rows BY Feeders
  <1>17. Climbs(V)
    <2> SUFFICES ASSUME NEW k \in DOMAIN rows, k[1] > 1, NEW i \in Sides, V[k].resolved \/ V[k].seat[i] # NoOne
                 PROVE  V[Feeder(k, i)].resolved
      BY <1>14 DEF Climbs
    <2>1. CASE k = u /\ i = Side(w) BY <2>1, <1>5, <1>6, <1>14
    <2>2. CASE ~(k = u /\ i = Side(w))
      <3>1. R[k].resolved \/ R[k].seat[i] # NoOne BY <2>2, <1>7, <1>14
      <3>2. R[Feeder(k, i)].resolved BY <3>1, <1>1, <1>2 DEF InOrder, Climbs
      <3> QED BY <3>2, <1>14, <1>16
    <2> QED BY <2>1, <2>2
  <1>18. InOrder(V, {})
    <2>1. ByeFits(V) BY <1>1, <1>2, <1>8, <1>14 DEF InOrder, ByeFits
    <2>2. ASSUME NEW k \in DOMAIN rows PROVE SeatedAt(V, k)
      <3>1. CASE k = u BY <3>1, <1>8, <1>14 DEF SeatedAt
      <3>2. CASE k = w
        <4>1. Upper(k) = u BY <3>2, <1>3, <1>4 DEF n
        <4>2. V[w] = R[w] /\ R[w].winner = job[p].verdict BY <1>5, <1>6, <1>14
        <4>3. V[u].seat[Side(w)] = job[p].verdict BY <1>7, <1>14
        <4> QED BY <3>2, <4>1, <4>2, <4>3 DEF SeatedAt
      <3>3. CASE k # u /\ k # w /\ Upper(k) # u
        <4>1. SeatedAt(R, k) /\ V[k] = R[k] BY <3>3, <1>1, <1>2, <1>4, <1>14 DEF InOrder
        <4> QED BY <4>1, <3>3, <1>2, <1>14 DEF SeatedAt
      <3>4. CASE k # u /\ k # w /\ Upper(k) = u
        <4>1. Side(k) \in Sides /\ Feeder(u, Side(k)) = k BY <3>4, InMatches, Geometry
        <4>2. Side(k) # Side(w) BY <4>1, <3>4, <1>5
        <4>3. SeatedAt(R, k) /\ V[k] = R[k] /\ V[u].seat[Side(k)] = R[u].seat[Side(k)]
          BY <4>1, <4>2, <3>4, <1>1, <1>2, <1>4, <1>7, <1>14 DEF InOrder
        <4> QED BY <4>3, <3>4, <1>2, <1>14 DEF SeatedAt
      <3> QED BY <3>1, <3>2, <3>3, <3>4
    <2> QED BY <1>14, <1>17, <2>1, <2>2 DEF InOrder
  <1>19. InOrder(View(p), Pending(p))' BY <1>0, <1>13, <1>15, <1>18, AsSeen
  <1>20. Ready(p)'
    <2>1. \A k \in locks[p] : FedIn(R, k) BY <1>1 DEF Ready, R
    <2>2. \A k \in locks[p] : FedIn(V, k) BY <2>1, <1>1, <1>14, <1>16 DEF FedIn
    <2>3. \A k \in locks[p] : FedIn(View(p), k)' BY <1>13, <2>2 DEF FedIn
    <2> QED BY <1>10, <1>11, <2>3 DEF Ready
  <1>21. Chain(p)'
    <2>1. \A k \in DOMAIN dirty[p] : dirty[p][k].resolved BY <1>0, <1>1 DEF Chain, Fresh
    <2>2. ASSUME NEW k \in DOMAIN dirty'[p], k # u, Upper(k) \in DOMAIN rows PROVE Upper(k) \in DOMAIN dirty'[p]
      <3>1. Upper(k) \in DOMAIN dirty[p] \/ k = w BY <2>1, <2>2, <1>1, <1>4, <1>12 DEF Chain
      <3> QED BY <3>1, <1>3, <1>4, <1>12 DEF n
    <2>3. Fresh(p, u)' BY <1>5, <1>6, <1>10, <1>11, <1>12 DEF Fresh
    <2>4. \A k \in locks[p] : k \in DOMAIN dirty'[p] /\ dirty'[p][k].resolved
      BY <1>0, <1>1, <1>2, <1>6, <1>12 DEF Chain
    <2> QED BY <1>8, <1>9, <1>10, <1>11, <1>12, <2>1, <2>2, <2>3, <2>4 DEF Chain
  <1>22. Looking(p)'
    <2>1. ASSUME NEW i \in Sides, row.seat[i] # NoOne PROVE (Seen(p, Feeder(u, i))').resolved
      <3>1. PICK f \in DOMAIN rows : f = Feeder(u, i) BY <1>5, Feeders
      <3>2. V[f].resolved BY <3>1, <2>1, <1>5, <1>14, <1>17 DEF Climbs
      <3>3. Seen(p, f)' = V[f] BY <1>9, <1>13 DEF View
      <3> QED BY <3>1, <3>2, <3>3
    <2>2. locks'[p] # {} BY <1>1, <1>11
    <2> QED BY <1>10, <1>11, <2>1, <2>2 DEF Looking, Unseating, Seen
  <1>23. Untouched(p)'
    <2>1. ASSUME NEW i \in Sides, Feeder(u, i) \notin DOMAIN dirty'[p] PROVE row.seat[i] = rows[u].seat[i]
      <3>1. i # Side(w) /\ Feeder(u, i) \notin DOMAIN dirty[p] BY <2>1, <1>5, <1>6, <1>12
      <3> QED BY <3>1, <1>1, <1>2, <1>7 DEF Untouched
    <2> QED BY <1>1, <1>5, <1>9, <1>12, <2>1 DEF Untouched
  <1>24. Orderly(p)' BY <1>19, <1>20, <1>21, <1>22, <1>23 DEF Orderly
  <1> QED BY <1>0, <1>9, <1>11, <1>24, OwnMove

\* A bye found goes on to the next match; none found commits.
LEMMA ByeOrderly == ASSUME IInv, IInv', PInv, NEW p \in Procs, Bye(p), VerdictStands PROVE PInv'
  <1> DEFINE m == job[p].match
             row == job[p].row
             bye == BothSettled(p, m, row) /\ Cardinality(Present(row)) < 2
             R == View(p)
  <1>0. /\ job[p].pc = "bye" /\ UNCHANGED <<clock, list, refused>> /\ m \in DOMAIN rows /\ row \in Row
    BY JobIs DEF Bye, history, JobOK, InMatch, Job
  <1>1. /\ Ready(p) /\ Chain(p) /\ Untouched(p) /\ Looking(p) /\ InOrder(R, {}) /\ Pending(p) = {}
    BY <1>0 DEF PInv, Orderly, Pending
  <1>2. /\ DOMAIN R = DOMAIN rows /\ DOMAIN dirty[p] \subseteq DOMAIN rows
        /\ \A k \in DOMAIN rows : /\ R[k] = Seen(p, k)
                                  /\ k \in DOMAIN dirty[p] => R[k] = dirty[p][k]
                                  /\ k \notin DOMAIN dirty[p] => R[k] = rows[k]
    BY ViewFacts
  <1>3. \A i \in Sides : m[1] > 1 => Feeder(m, i) \in DOMAIN rows BY <1>0, Feeders
  <1>4. \A i \in Sides : row.seat[i] # NoOne /\ m[1] > 1 => Seen(p, Feeder(m, i)).resolved BY <1>0, <1>1 DEF Looking
  <1>5. Cardinality(Present(row)) < 2 <=> ~Two(row) BY <1>0, PresentTwo, RowSeats
  <1>6. bye => /\ FedIn(R, m)
               /\ Settles(row).winner \in Someone /\ Present(row) \subseteq {Settles(row).winner}
    <2>1. bye => FedIn(R, m) BY <1>2, <1>3, <1>4 DEF BothSettled, Settled, FedIn
    <2> QED BY <2>1, <1>0, <1>5, SettlesAlone
  <1>7. CASE bye
    <2> DEFINE j == [pc |-> "lock", match |-> m, verdict |-> Settles(row).winner, bye |-> TRUE,
                     entry |-> job[p].entry, row |-> EmptyRow]
    <2>1. job' = [job EXCEPT ![p] = j] /\ UNCHANGED <<rows, transaction>> BY <1>7 DEF Bye, Resolve
    <2>2. j.pc = "lock" /\ j.match = m /\ j.bye /\ j.verdict = Settles(row).winner OBVIOUS
    <2> HIDE DEF j
    <2>3. CASE locks[p] = {}
      <3>1. R = rows BY <2>3, FreeView
      <3>2. FedIn(rows, m) BY <1>6, <1>7, <3>1
      <3>3. ~rows[m].resolved => Present(rows[m]) \subseteq Present(row)
        BY <1>0, <1>1, <2>3 DEF Looking, Unseating, Present
      <3>4. Moved(p, j) BY <1>6, <1>7, <2>2, <3>2, <3>3 DEF Moved
      <3> QED BY <1>0, <2>1, <2>3, <3>4, StillOnTime, FreeMove DEF transaction
    <2>4. CASE locks[p] # {}
      <3>1. m \in DOMAIN dirty[p] /\ row = dirty[p][m] BY <1>0, <1>1, <2>4 DEF Chain
      <3>2. Seen(p, m) = row BY <3>1 DEF Seen
      <3>3. job'[p] = j /\ locks' = locks /\ dirty' = dirty /\ \A q \in Others(p) : Stays(q)
        BY <2>1 DEF IInv, JobsTyped, Stays, Others, transaction
      <3>4. View(p)' = R BY <2>1, <3>3 DEF View, Seen
      <3> HIDE DEF R
      <3>5. Pending(p)' = {} BY <2>2, <3>3 DEF Pending
      <3>6. InOrder(View(p), Pending(p))' BY <1>0, <1>1, <3>4, <3>5, AsSeen
      <3>7. Ready(p)'
        <4>6. PICK u \in DOMAIN rows : u = m BY <1>0
        <4>1. FedIn(View(p), u)' BY <1>6, <1>7, <3>4, <4>6 DEF FedIn
        <4>2. \A k \in locks[p] : FedIn(R, k) BY <1>1 DEF Ready, R
        <4>3. \A k \in locks[p] : FedIn(View(p), k)' BY <4>2, <3>4 DEF FedIn
        <4>4. Present(row) \subseteq {job'[p].verdict} /\ job'[p].match = m BY <1>6, <1>7, <2>2, <3>3
        <4>5. Seen(p, job[p].match)' = row BY <2>1, <2>2, <3>2, <3>3 DEF Seen
        <4> QED BY <2>2, <3>3, <4>1, <4>3, <4>4, <4>5, <4>6 DEF Ready, FedIn, Present
      <3>8. Chain(p)'
        <4>1. \A k : Fresh(p, k)' = Fresh(p, k) BY <1>0, <2>2, <3>3 DEF Fresh
        <4> QED BY <1>0, <1>1, <2>1, <2>2, <3>3, <3>5, <4>1 DEF Chain
      <3>9. Looking(p)' /\ Untouched(p)' BY <1>1, <2>1, <2>2, <3>3 DEF Looking, Unseating, Untouched
      <3>10. Orderly(p)' BY <3>6, <3>7, <3>8, <3>9 DEF Orderly
      <3> QED BY <1>0, <2>1, <3>3, <3>10, OwnMove
    <2> QED BY <2>3, <2>4
  <1>8. CASE ~bye /\ locks[p] = {}
    <2>1. job' = [job EXCEPT ![p] = Idle] /\ UNCHANGED <<rows, transaction>>
      BY <1>8 DEF Bye, Done, InTransaction
    <2>2. Moved(p, Idle) BY IdleOK DEF Moved
    <2> QED BY <1>0, <1>8, <2>1, <2>2, StillOnTime, FreeMove DEF transaction
  <1>9. CASE ~bye /\ locks[p] # {}
    <2>1. Commit(p, dirty[p], marks[p]) BY <1>9 DEF Bye, InTransaction
    <2>2. m \in DOMAIN dirty[p] /\ ~dirty[p][m].resolved /\ row = dirty[p][m] BY <1>0, <1>1, <1>9 DEF Chain
    <2>3. /\ rows' = Over(dirty[p], rows) BY <2>1 DEF Commit
    <2>4. DOMAIN rows' = DOMAIN R /\ \A k \in DOMAIN R : rows'[k] = R[k] BY <1>2, <2>3 DEF Over
    <2>5. InOrder(rows, {})'
      <3>1. \A k \in DOMAIN R : k[1] > 1 => \A i \in Sides : Feeder(k, i) \in DOMAIN R BY <1>2, Feeders
      <3>2. Climbs(R) /\ ByeFits(R) /\ \A k \in DOMAIN R : SeatedAt(R, k) BY <1>1 DEF InOrder
      <3> HIDE DEF R
      <3>3. Climbs(rows)' BY <2>4, <3>1, <3>2 DEF Climbs
      <3>4. ByeFits(rows)' BY <2>4, <3>2 DEF ByeFits
      <3>5. \A k \in DOMAIN rows' : SeatedAt(rows, k)' BY <2>4, <3>2, <1>0 DEF SeatedAt
      <3> QED BY <3>3, <3>4, <3>5 DEF InOrder
    <2>6. \A k \in DOMAIN dirty[p] : RowFree(p, k) BY DEF RowFree, Others, IInv, TxTyped, Apart
    <2>7. \A k \in DOMAIN dirty[p] : dirty[p][k].resolved /\ Upper(k) \in DOMAIN rows => Upper(k) \in DOMAIN dirty[p]
      BY <1>1 DEF Chain
    <2>8. ASSUME NEW k \in DOMAIN dirty[p], NEW i \in Sides, ~dirty[p][k].resolved,
                 dirty[p][k].seat[i] \notin {NoOne, rows[k].seat[i]}
          PROVE  /\ k[1] > 1 /\ Feeder(k, i) \in DOMAIN dirty[p]
                 /\ \A n \in Sides : dirty[p][k].seat[n] = NoOne => ~rows'[Feeder(k, n)].resolved
      <3>1. k = m /\ m[1] > 1 BY <2>8, <1>1 DEF Chain, Fresh
      <3>2. k[1] > 1 /\ m[1] # 1
        <4>1. m[1] \in Nat BY <1>0, InMatches, Geometry
        <4> QED BY <3>1, <4>1
      <3>3. Feeder(k, i) \in DOMAIN dirty[p] BY <3>1, <3>2, <2>8, <1>1 DEF Untouched
      <3>4. ASSUME NEW n \in Sides, row.seat[n] = NoOne, rows'[Feeder(m, n)].resolved PROVE FALSE
        <4>1. ~Two(row) BY <3>4 DEF Two, Sides
        <4>2. PICK o \in Sides : ~Settled(p, m, row, o) BY <4>1, <1>5, <1>9 DEF BothSettled
        <4>3. row.seat[o] = NoOne /\ ~Seen(p, Feeder(m, o)).resolved BY <4>2 DEF Settled
        <4>4. Seen(p, Feeder(m, n)).resolved BY <3>4, <1>2, <1>3, <2>4, <3>1
        <4>5. o # n BY <4>3, <4>4
        <4>6. row.seat[i] = NoOne BY <4>3, <4>5, <3>4 DEF Sides
        <4> QED BY <4>6, <2>8, <3>1, <2>2
      <3> QED BY <3>1, <3>2, <3>3, <3>4, <2>2
    <2>9. \A q \in Others(p) : Beside(q) BY <1>0, <1>2, <2>3, <2>6, <2>7, <2>8, CommitBeside
    <2> QED BY <1>0, <1>2, <2>1, <2>5, <2>9, CommittedOrderly
  <1> QED BY <1>7, <1>8, <1>9

\* A side emptied was that of a refused player.
LEMMA UnseatOrderly == ASSUME IInv, IInv', PInv, NEW p \in Procs, Unseat(p), VerdictStands PROVE PInv'
  <1> DEFINE m == job[p].match
             e == job[p].entry
             side == CHOOSE i \in Sides : e = rows[m].seat[i]
             row == [rows[m] EXCEPT !.seat[side] = NoOne]
  <1>0. /\ job[p].pc = "unseat" /\ RowFree(p, m) /\ UNCHANGED <<clock, list, refused, transaction>>
        /\ m \in DOMAIN rows /\ e \in refused /\ e # NoOne /\ locks[p] = {}
    BY JobIs DEF Unseat, history, JobOK, InMatch, Putting, Tx, Outside
  <1>1. CASE rows[m].resolved \/ e \notin Present(rows[m])
    <2> DEFINE j == [Idle EXCEPT !.pc = "forfeit", !.entry = e]
    <2>1. job' = [job EXCEPT ![p] = j] /\ rows' = rows BY <1>1 DEF Unseat
    <2>2. Moved(p, j) BY DEF Moved, Idle
    <2> HIDE DEF j
    <2> QED BY <1>0, <2>1, <2>2, StillOnTime, FreeMove DEF transaction
  <1>2. CASE ~(rows[m].resolved \/ e \notin Present(rows[m]))
    <2> DEFINE j == [job[p] EXCEPT !.pc = "oust", !.row = row]
    <2>1. job' = [job EXCEPT ![p] = j] /\ rows' = [rows EXCEPT ![m] = row]
      BY <1>2 DEF Unseat, IInv, JobsTyped, IsFcn
    <2>2. j.pc = "oust" /\ j.match = m /\ j.row = row BY JobIs DEF Job
    <2> HIDE DEF j
    <2>3. side \in Sides /\ rows[m].seat[side] = e BY <1>2 DEF Present
    <2> HIDE DEF side
    <2>4. RowOK(rows[m]) /\ ~rows[m].resolved BY <1>0, <1>2 DEF IInv, RowsTyped
    <2>5. /\ row.resolved = rows[m].resolved /\ row.bye = rows[m].bye /\ row.winner = rows[m].winner
          /\ row.seat[side] = NoOne /\ \A i \in Sides : i # side => row.seat[i] = rows[m].seat[i]
      BY <2>3, <2>4 DEF RowOK, Row
    <2> HIDE DEF row, m, e
    <2>6. /\ DOMAIN rows' = DOMAIN rows /\ rows'[m] = row /\ \A k \in DOMAIN rows : k # m => rows'[k] = rows[k]
          /\ \A k \in DOMAIN rows : rows'[k].resolved = rows[k].resolved
      BY <1>0, <2>1, <2>5
    <2>7. Climbs(rows) /\ ByeFits(rows) /\ \A k \in DOMAIN rows : SeatedAt(rows, k) BY DEF PInv, InOrder
    <2>8. Climbs(rows)' BY <2>5, <2>6, <2>7, Feeders DEF Climbs
    <2>9. ByeFits(rows)' BY <2>4, <2>5, <2>6, <2>7 DEF ByeFits, RowOK
    <2>10. ASSUME NEW k \in DOMAIN rows, rows'[k].resolved, Upper(k) \in DOMAIN rows, rows'[k].winner \notin refused
           PROVE  rows'[Upper(k)].seat[Side(k)] = rows'[k].winner
      <3>1. k # m /\ rows'[k] = rows[k] BY <2>4, <2>6, <2>10
      <3>2. rows[Upper(k)].seat[Side(k)] = rows[k].winner BY <3>1, <2>7, <2>10 DEF SeatedAt
      <3>3. Upper(k) = m => Side(k) # side BY <3>1, <3>2, <2>3, <2>10, <1>0
      <3>4. Side(k) \in Sides BY InMatches, Geometry
      <3> QED BY <3>1, <3>2, <3>3, <3>4, <2>5, <2>6, <2>10
    <2>11. InOrder(rows, {})' BY <1>0, <2>6, <2>8, <2>9, <2>10 DEF InOrder, SeatedAt
    <2>12. ASSUME NEW q \in Others(p) PROVE Beside(q) /\ Stays(q)
      <3>1. Stays(q) BY <1>0, <2>1 DEF Others, Stays, transaction, IInv, JobsTyped
      <3>2. m \notin DOMAIN dirty[q] BY <1>0 DEF RowFree, m
      <3>3. \A k \in DOMAIN dirty[q] : rows'[k].seat = rows[k].seat BY <3>2, <2>6, OwnOpen DEF Others
      <3>4. \A k \in DOMAIN rows, i \in Sides : ~Came(k, i) BY <2>5, <2>6 DEF Came
      <3> QED BY <1>0, <2>6, <3>1, <3>3, <3>4 DEF Beside
    <2>13. job'[p] = j /\ locks'[p] = {} /\ dirty' = dirty BY <1>0, <2>1 DEF transaction, IInv, JobsTyped
    <2>14. OnTime' BY <1>0, <2>6, LaterOnTime
    <2>15. Orderly(p)'
      <3>1. Chain(p)' /\ Untouched(p)' /\ View(p)' = rows' /\ DOMAIN dirty'[p] = {} BY <2>13, FreeChain
      <3>2. Pending(p)' = {} BY <2>2, <2>13 DEF Pending
      <3>3. InOrder(View(p), Pending(p))' BY <2>11, <3>1, <3>2 DEF InOrder, Climbs, SeatedAt, ByeFits
      <3>4. Ready(p)' BY <2>2, <2>13 DEF Ready
      <3>5. PICK u \in DOMAIN rows : u = m BY <1>0 DEF m
      <3>6. PICK o \in Sides : o = side BY <2>3
      <3>7. ASSUME NEW i \in Sides, u[1] > 1, rows[u].seat[i] # NoOne
            PROVE  /\ Feeder(u, i) \in DOMAIN rows /\ rows'[Feeder(u, i)].resolved
                   /\ (Seen(p, Feeder(u, i))').resolved
        <4>1. rows[Feeder(u, i)].resolved BY <3>7, <2>7 DEF Climbs
        <4>2. PICK f \in DOMAIN rows : f = Feeder(u, i) BY <3>7, Feeders
        <4>3. rows'[f].resolved BY <4>1, <4>2, <2>6
        <4>4. Seen(p, f)' = rows'[f] BY <3>1 DEF Seen
        <4> QED BY <4>2, <4>3, <4>4
      <3>8. rows'[u].seat = row.seat /\ row.seat[o] = NoOne /\ rows[u].seat[o] # NoOne
            /\ \A i \in Sides : row.seat[i] # NoOne => rows[u].seat[i] # NoOne
        BY <1>0, <2>3, <2>5, <2>6, <3>5, <3>6 DEF e
      <3>9. job'[p].match = u /\ job'[p].row = row /\ job'[p].pc = "oust" BY <2>2, <2>13, <3>5
      <3>10. Emptied(p, o)' BY <3>7, <3>8, <3>9 DEF Emptied
      <3>11. \A i \in Sides : rows'[u].seat[i] \in {NoOne, row.seat[i]} BY <3>8
      <3>12. Looking(p)' BY <3>7, <3>8, <3>9, <3>10, <3>11 DEF Looking, Unseating, Seen
      <3> QED BY <3>1, <3>3, <3>4, <3>12 DEF Orderly
    <2> QED BY <2>11, <2>12, <2>14, <2>15, Together
  <1> QED BY <1>1, <1>2

\* Every step keeps the bracket in order, for everyone who sees it.
LEMMA PInvStep == ASSUME IInv, IInv', PInv, Punctual, VerdictStands, [Next]_vars PROVE PInv'
  <1> USE DEF vars
  <1>1. CASE Join \/ (\E e \in Players : Leave(e)) \/ Cancel \/ Reopen BY <1>1, RegistrationOrderly
  <1>2. CASE \E p \in Workers : \/ \E e \in Players : HookRefuses(p, e)
                                \/ \E m \in DOMAIN rows, w \in Someone : Report(p, m, w)
    <2>1. PICK p \in Workers : \/ \E e \in Players : HookRefuses(p, e)
                               \/ \E m \in DOMAIN rows, w \in Someone : Report(p, m, w)
      BY <1>2
    <2>2. p \in Procs BY ProcsFacts
    <2>3. CASE \E e \in Players : HookRefuses(p, e) BY <2>2, <2>3, HookRefusesOrderly
    <2>4. CASE \E m \in DOMAIN rows, w \in Someone : Report(p, m, w) BY <2>2, <2>4, ReportOrderly
    <2> QED BY <2>1, <2>3, <2>4
  <1>3. CASE Draw BY <1>3, DrawOrderly
  <1>4. CASE Clock BY <1>4, ClockOrderly
  <1>5. CASE Tick BY <1>5, TickOrderly
  <1>6. CASE Sweeping BY <1>6, SweepOrderly DEF Sweeping
  <1>7. CASE \E p \in Procs : Step(p) \/ Crash(p)
    <2>1. PICK p \in Procs : Step(p) \/ Crash(p) BY <1>7
    <2> QED BY <2>1, LockOrderly, WriteOrderly, SeatOrderly, ByeOrderly, FinishOrderly, ForfeitOrderly,
               UnseatOrderly, OustOrderly, CrashOrderly DEF Step
  <1>8. CASE UNCHANGED vars BY <1>8, StillOnTime, NoMove DEF transaction
  <1> QED BY <1>1, <1>2, <1>3, <1>4, <1>5, <1>6, <1>7, <1>8 DEF Next

\* The bracket is always in order, for everyone who sees it.
LEMMA PInvHolds == ASSUME Punctual PROVE Spec => []PInv
  <1>1. Init => PInv
    <2> SUFFICES ASSUME Init PROVE PInv OBVIOUS
    <2>1. /\ DOMAIN rows = {} /\ list = {}
          /\ \A p \in Procs : job[p].pc = "idle" /\ locks[p] = {} /\ DOMAIN dirty[p] = {}
      BY DEF Init, Idle
    <2>2. InOrder(rows, {}) BY <2>1 DEF InOrder, Climbs, SeatedAt, ByeFits
    <2>3. ASSUME NEW p \in Procs PROVE Orderly(p)
      <3>1. DOMAIN View(p) = {} BY <2>1 DEF View
      <3>2. InOrder(View(p), Pending(p)) BY <3>1 DEF InOrder, Climbs, SeatedAt, ByeFits
      <3> QED BY <2>1, <3>2 DEF Orderly, Ready, Chain, Looking, Unseating, Untouched
    <2> QED BY <2>1, <2>2, <2>3 DEF PInv, OnTime
  <1>2. IInv /\ IInv' /\ PInv /\ [Next]_vars => PInv' BY PInvStep, VerdictStandsStep
  <1> QED BY <1>1, <1>2, IInvHolds, PTL DEF Spec

\* No winner is lost between two matches that resolve at once, and no bye is handed
\* out over someone who may still come (advance_winner/2 and maybe_bye_resolve/2,
\* tournaments.ex:997-1003, 1026-1028).
THEOREM NobodyPassedOverHolds == ASSUME Punctual PROVE Spec => []NobodyPassedOver
  <1>1. ASSUME IInv, PInv PROVE NobodyPassedOver
    <2>1. Climbs(rows) /\ ByeFits(rows) /\ \A m \in DOMAIN rows : SeatedAt(rows, m) BY <1>1 DEF PInv, InOrder
    <2> SUFFICES ASSUME NEW m \in DOMAIN rows
                 PROVE  /\ (rows[m].resolved /\ ~Final(m) /\ rows[m].winner \notin refused) =>
                             rows[Upper(m)].seat[Side(m)] = rows[m].winner
                        /\ rows[m].bye =>
                             /\ rows[m].resolved /\ Present(rows[m]) \subseteq {rows[m].winner}
                             /\ \A i \in Sides : rows[m].seat[i] = NoOne => ~Reachable(m, i)
      BY DEF NobodyPassedOver
    <2>2. rows[m].bye => rows[m].resolved BY <1>1 DEF IInv, RowsTyped, RowOK
    <2>3. ASSUME rows[m].bye, NEW i \in Sides, rows[m].seat[i] = NoOne, Reachable(m, i) PROVE FALSE
      <3> DEFINE f == Feeder(m, i)
      <3>1. m[1] > 1 /\ f \in DOMAIN rows /\ Upper(f) = m /\ Side(f) = i
        BY <1>1, <2>3, Feeders, InMatches, Geometry DEF Reachable
      <3>2. rows[f].resolved BY <3>1, <2>1, <2>2, <2>3 DEF Climbs
      <3>3. rows[f].winner # NoOne /\ rows[f].winner \notin refused BY <3>2, <2>3 DEF Reachable
      <3> QED BY <3>1, <3>2, <3>3, <2>1, <2>3 DEF SeatedAt
    <2> QED BY <2>1, <2>2, <2>3 DEF SeatedAt, ByeFits, Final
  <1> QED BY <1>1, IInvHolds, PInvHolds, PTL

\* The transactions wait for one another in no circle: one that is to write waits
\* for nobody; one that locks the next match waits for its writer at most; one that
\* seats a winner, for one of those; and who is outside of a transaction holds
\* nothing (tournaments.ex:921, 1033).
THEOREM NoCircleHolds == ASSUME Punctual PROVE Spec => []NoCircle
  <1>1. ASSUME IInv, PInv PROVE NoCircle
    <2> SUFFICES ASSUME NEW S \in SUBSET Procs, S # {}, \A q \in S : WaitsFor(q) \cap S # {} PROVE FALSE
      BY DEF NoCircle, InCycle
    <2>1. \A q \in Procs : Ready(q) /\ Chain(q) /\ Tx(q) BY <1>1, JobIs DEF PInv, Orderly
    <2>2. \A q, r \in Procs : q # r => Apart(q, r) BY <1>1 DEF IInv, TxTyped
    <2>3. ASSUME NEW q \in Procs, NEW r \in Procs, q # r, NEW m \in DOMAIN rows, FedIn(View(q), m), m \in DOMAIN dirty[r]
          PROVE  dirty[r][m].resolved
      <3> SUFFICES ASSUME ~dirty[r][m].resolved PROVE FALSE OBVIOUS
      <3>1. PICK i \in Sides : m[1] > 1 /\ Feeder(m, i) \in DOMAIN dirty[r] BY <2>1, <2>3 DEF Chain, Fresh
      <3>2. ~View(q)[Feeder(m, i)].resolved BY <1>1, <2>3, <3>1, Hidden
      <3> QED BY <2>3, <3>1, <3>2 DEF FedIn
    <2>4. ASSUME NEW q \in S PROVE job[q].pc # "write"
      <3> SUFFICES ASSUME job[q].pc = "write" PROVE FALSE OBVIOUS
      <3>1. PICK r \in S : r # q /\ job[q].match \in DOMAIN dirty[r] BY <2>4 DEF WaitsFor, Others
      <3>2. job[q].match \in locks[q] /\ job[q].match \in DOMAIN rows /\ FedIn(View(q), job[q].match)
        BY <2>1 DEF Tx, Ready
      <3>3. dirty[r][job[q].match].resolved BY <2>3, <3>1, <3>2
      <3>4. job[q].match \in locks[r] BY <2>1, <3>1, <3>3 DEF Tx
      <3> QED BY <2>2, <3>1, <3>2, <3>4 DEF Apart
    <2>5. ASSUME NEW q \in S, job[q].pc = "lock", locks[q] # {} PROVE FALSE
      <3>1. PICK r \in S : r # q /\ job[q].match \in locks[r] BY <2>5 DEF WaitsFor, Others
      <3>2. job[q].match \in DOMAIN dirty[q] BY <2>1, <2>5 DEF Chain
      <3>3. job[q].match \in DOMAIN dirty[r] BY <2>1, <2>4, <3>1 DEF Chain
      <3> QED BY <2>2, <3>1, <3>2, <3>3 DEF Apart
    <2>6. ASSUME NEW q \in S, job[q].pc = "seat" PROVE FALSE
      <3> DEFINE m == job[q].match
                 n == Upper(m)
      <3>1. PICK r \in S : r # q /\ n \in DOMAIN dirty[r] BY <2>6 DEF WaitsFor, Others
      <3>2. m \in DOMAIN dirty[q] /\ m \in DOMAIN rows BY <2>1, <2>6 DEF Chain, Tx
      <3>3. Side(m) \in Sides /\ Feeder(n, Side(m)) = m /\ n[1] > 1 BY <1>1, <3>2, InMatches, Geometry
      <3>4. ~View(r)[m].resolved BY <1>1, <3>1, <3>2, Hidden
      <3>5. ~dirty[r][n].resolved
        <4> SUFFICES ASSUME dirty[r][n].resolved PROVE FALSE OBVIOUS
        <4>1. FedIn(View(r), n) BY <2>1, <3>1 DEF Tx, Ready
        <4> QED BY <4>1, <3>3, <3>4 DEF FedIn
      <3>6. job[r].pc \in {"bye", "lock", "write"} BY <2>1, <3>1, <3>5 DEF Chain, Fresh
      <3>7. locks[r] # {} BY <2>1, <3>1 DEF Tx
      <3>8. job[r].pc \in {"lock", "write", "seat"} BY <3>1 DEF WaitsFor
      <3> QED BY <2>4, <2>5, <3>1, <3>6, <3>7, <3>8
    <2>7. ASSUME NEW q \in S PROVE FALSE
      <3>1. job[q].pc \in {"lock", "write", "seat"} BY <2>7 DEF WaitsFor
      <3>2. job[q].pc = "lock" /\ locks[q] = {} BY <2>4, <2>5, <2>6, <3>1
      <3>3. PICK r \in S : job[q].match \in locks[r] BY <3>2 DEF WaitsFor
      <3>4. job[r].pc \in {"lock", "write", "seat"} BY <3>3 DEF WaitsFor
      <3> QED BY <2>4, <2>5, <2>6, <3>3, <3>4
    <2> QED BY <2>7
  <1> QED BY <1>1, IInvHolds, PInvHolds, PTL

-----------------------------------------------------------------------------
\* The byes.

\* Who does nothing looks after nothing.
LEMMA OutsideLooks ==
  ASSUME IInv, NEW p \in Procs, job[p].pc \in {"idle", "finish", "forfeit", "unseat"}, NEW m PROVE ~LookedBy(p, m)
  BY JobIs DEF Tx, Outside, LookedBy

\* The step is p's, and what p looked after is no longer owed, or still looked after.
LEMMA StillLooked ==
  ASSUME HInv, NEW p \in Procs, \A q \in Others(p) : job'[q] = job[q] /\ locks'[q] = locks[q],
         crashes' = crashes, FirstFull', job'[p].pc = "unseat" => job'[p].match[1] > 1,
         \A m \in DOMAIN rows' : OwedBye(m)' =>
           LookedBy(p, m)' \/ (m \in DOMAIN rows /\ OwedBye(m) /\ ~LookedBy(p, m))
  PROVE  HInv'
  <1>1. UnseatLater' BY DEF HInv, UnseatLater, Others
  <1>2. ASSUME crashes' = 0, NEW m \in DOMAIN rows', OwedBye(m)', ~LookedBy(p, m)' PROVE LookedAfter(m)'
    <2>1. m \in DOMAIN rows /\ OwedBye(m) /\ ~LookedBy(p, m) BY <1>2
    <2>2. PICK q \in Procs : LookedBy(q, m) BY <1>2, <2>1 DEF HInv, LookedAfter
    <2>3. q \in Others(p) BY <2>1, <2>2 DEF Others
    <2>4. LookedBy(q, m)' BY <2>2, <2>3 DEF LookedBy
    <2> QED BY <2>4 DEF LookedAfter
  <1>3. crashes' = 0 => \A m \in DOMAIN rows' : OwedBye(m)' => LookedAfter(m)'
    BY <1>2 DEF LookedAfter
  <1> QED BY <1>1, <1>3 DEF HInv

\* No bye is owed that was not, where the rows stay.
LEMMA SameRows ==
  ASSUME IInv, HInv, rows' = rows
  PROVE  FirstFull' /\ \A m \in DOMAIN rows : OwedBye(m)' = OwedBye(m)
  BY DEF HInv, FirstFull, OwedBye, FedIn

\* The bracket is as it was.
LEMMA FreeLooked ==
  ASSUME IInv, HInv, NEW p \in Procs, \A q \in Others(p) : job'[q] = job[q] /\ locks'[q] = locks[q],
         crashes' = crashes, rows' = rows, job'[p].pc = "unseat" => job'[p].match[1] > 1,
         \A m \in DOMAIN rows : OwedBye(m) /\ LookedBy(p, m) => LookedBy(p, m)'
  PROVE  HInv'
  <1>1. FirstFull' /\ \A m \in DOMAIN rows : OwedBye(m)' = OwedBye(m) BY SameRows
  <1>2. \A m \in DOMAIN rows' : OwedBye(m)' =>
          LookedBy(p, m)' \/ (m \in DOMAIN rows /\ OwedBye(m) /\ ~LookedBy(p, m)) BY <1>1
  <1> QED BY <1>1, <1>2, StillLooked

\* p had nothing to look after.
LEMMA IdleLooked ==
  ASSUME IInv, HInv, NEW p \in Procs, \A q \in Others(p) : job'[q] = job[q], locks' = locks,
         crashes' = crashes, rows' = rows, job'[p].pc = "unseat" => job'[p].match[1] > 1,
         job[p].pc \in {"idle", "finish", "forfeit", "unseat"}
  PROVE  HInv'
  BY OutsideLooks, FreeLooked DEF Others

\* Nobody moves.
LEMMA RestLooked ==
  ASSUME IInv, HInv, UNCHANGED <<job, locks, crashes, rows>>
  PROVE  HInv'
  <1>1. \A m \in DOMAIN rows : LookedBy(Ticker, m) => LookedBy(Ticker, m)' BY DEF LookedBy
  <1>2. job'[Ticker].pc = "unseat" => job'[Ticker].match[1] > 1 BY ProcsFacts DEF HInv, UnseatLater
  <1> QED BY <1>1, <1>2, ProcsFacts, FreeLooked

\* Action by action: a player alone in a first match had a bye, so who is to be unseated
\* sits higher.
LEMMA ForfeitLooked == ASSUME IInv, HInv, NEW p \in Procs, Forfeit(p) PROVE HInv'
  <1>1. /\ job[p].pc = "forfeit" /\ UNCHANGED <<rows, locks, crashes>>
    BY DEF Forfeit, database, transaction, history
  <1>2. CASE OpenFor(job[p].entry) = {}
    <2>1. job' = [job EXCEPT ![p] = Idle] BY <1>2 DEF Forfeit, Done
    <2>2. job'[p].pc = "idle" /\ \A q \in Others(p) : job'[q] = job[q]
      BY <2>1, IdleOK DEF IInv, JobsTyped, Others
    <2> QED BY <1>1, <2>2, IdleLooked
  <1>3. CASE OpenFor(job[p].entry) # {}
    <2>1. PICK m \in OpenFor(job[p].entry) :
            \/ /\ Present(rows[m]) \subseteq {job[p].entry}
               /\ job' = [job EXCEPT ![p].pc = "unseat", ![p].match = m]
            \/ \E o \in Present(rows[m]) \ {job[p].entry} : Resolve(p, m, o, FALSE, job[p].entry)
      BY <1>3, ForfeitFinds
    <2>2. \A q \in Others(p) : job'[q] = job[q] BY <2>1 DEF Resolve, IInv, JobsTyped, IsFcn, Others
    <2>3. CASE \E o \in Present(rows[m]) \ {job[p].entry} : Resolve(p, m, o, FALSE, job[p].entry)
      <3>1. job'[p].pc = "lock" BY <2>3 DEF Resolve, IInv, JobsTyped
      <3> QED BY <1>1, <2>2, <3>1, IdleLooked
    <2>4. CASE /\ Present(rows[m]) \subseteq {job[p].entry}
               /\ job' = [job EXCEPT ![p].pc = "unseat", ![p].match = m]
      <3>1. job'[p].match = m BY <2>4, JobIs DEF IInv, JobsTyped, IsFcn, Job
      <3>2. m \in DOMAIN rows /\ ~rows[m].resolved BY OpenForOK
      <3>3. ~Two(rows[m]) BY <2>4 DEF Two, Present, Sides
      <3>4. m[1] # 1 BY <3>2, <3>3 DEF HInv, FirstFull
      <3>5. m[1] \in Nat /\ m[1] >= 1 BY <3>2, InMatches, Geometry
      <3>6. m[1] > 1 BY <3>4, <3>5
      <3> QED BY <1>1, <2>2, <3>1, <3>6, IdleLooked
    <2> QED BY <2>1, <2>3, <2>4
  <1> QED BY <1>2, <1>3

\* A match found resolved is owed no bye.
LEMMA LockLooked == ASSUME IInv, PInv, HInv, NEW p \in Procs, Lock(p) PROVE HInv'
  <1> DEFINE m == job[p].match
  <1>0. job[p].pc = "lock" /\ m \in DOMAIN rows /\ crashes' = crashes
    BY JobIs DEF Lock, history, JobOK, InMatch
  <1>1. CASE StillOpen(Seen(p, m))
    <2>1. /\ job'[p].pc = "write" /\ \A q \in Others(p) : job'[q] = job[q] /\ locks'[q] = locks[q]
          /\ locks'[p] = locks[p] \cup {m} /\ rows' = rows
      BY <1>1, JobIs DEF Lock, IInv, JobsTyped, TxTyped, IsFcn, Others, Job
    <2>2. \A k \in DOMAIN rows : LookedBy(p, k) => LookedBy(p, k)' BY <2>1 DEF LookedBy
    <2> QED BY <1>0, <2>1, <2>2, FreeLooked
  <1>2. CASE ~StillOpen(Seen(p, m))
    <2>1. locks[p] = {} BY <1>0, <1>2 DEF StillOpen, Chain, Seen, PInv, Orderly
    <2>2. /\ job' = [job EXCEPT ![p] = [Idle EXCEPT !.entry = job[p].entry,
                       !.pc = IF job[p].entry = NoOne THEN "idle" ELSE "forfeit"]]
          /\ UNCHANGED <<rows, locks>>
      BY <1>2, <2>1 DEF Lock, InTransaction, transaction
    <2>3. job'[p].pc # "unseat" /\ \A q \in Others(p) : job'[q] = job[q]
      BY <2>2, IdleOK DEF IInv, JobsTyped, Others, Idle
    <2>4. rows[m].resolved BY <1>0, <1>2, <2>1, FreeView DEF StillOpen
    <2>5. \A k \in DOMAIN rows : OwedBye(k) => ~LookedBy(p, k) BY <2>1, <2>4 DEF OwedBye, LookedBy
    <2> QED BY <1>0, <2>2, <2>3, <2>5, FreeLooked
  <1> QED BY <1>1, <1>2

\* What a transaction decided it no longer looks after, and the match it leaves
\* open has someone to wait for.
LEMMA CommitLooked ==
  ASSUME IInv, PInv, HInv, NEW p \in Procs, NEW W, NEW mk, Commit(p, W, mk), DOMAIN W \subseteq DOMAIN rows,
         crashes' = crashes, VerdictStands, locks[p] # {}, locks[p] \subseteq DOMAIN W, DOMAIN dirty[p] \subseteq DOMAIN W,
         \A m \in DOMAIN W : W[m].resolved /\ Upper(m) \in DOMAIN rows => Upper(m) \in DOMAIN W,
         \A m \in DOMAIN W : ~W[m].resolved => m[1] # 1 /\ ~OwedBye(m)'
  PROVE  HInv'
  <1>1. /\ DOMAIN rows' = DOMAIN rows /\ \A m \in DOMAIN W : rows'[m] = W[m]
        /\ \A m \in DOMAIN rows : m \notin DOMAIN W => rows'[m] = rows[m]
    BY DEF Commit, Over
  <1>2. FirstFull' BY <1>1 DEF HInv, FirstFull
  <1>3. job'[p].pc # "unseat" /\ \A q \in Others(p) : job'[q] = job[q] /\ locks'[q] = locks[q]
    BY IdleOK DEF Commit, Gone, IInv, JobsTyped, TxTyped, Others
  <1>4. ASSUME NEW m \in DOMAIN rows, OwedBye(m)' PROVE OwedBye(m) /\ ~LookedBy(p, m)
    <2>1. m \notin DOMAIN W BY <1>1, <1>4 DEF OwedBye
    <2>2. rows'[m] = rows[m] BY <1>1, <2>1
    <2>3. m[1] > 1 /\ ~rows[m].resolved /\ ~Two(rows[m]) /\ \A i \in Sides : rows'[Feeder(m, i)].resolved
      BY <1>4, <2>2 DEF OwedBye, FedIn, Two
    <2>4. ASSUME NEW i \in Sides PROVE rows[Feeder(m, i)].resolved
      <3> DEFINE f == Feeder(m, i)
      <3>1. f \in DOMAIN rows /\ Upper(f) = m BY <2>3, Feeders, InMatches, Geometry
      <3>2. f \notin DOMAIN W BY <1>1, <2>1, <2>3, <3>1
      <3> QED BY <1>1, <2>3, <3>1, <3>2
    <2>5. ~LookedBy(p, m) BY <2>1 DEF LookedBy
    <2> QED BY <2>3, <2>4, <2>5 DEF OwedBye, FedIn
  <1>5. \A m \in DOMAIN rows' : OwedBye(m)' =>
          LookedBy(p, m)' \/ (m \in DOMAIN rows /\ OwedBye(m) /\ ~LookedBy(p, m)) BY <1>1, <1>4
  <1> QED BY <1>2, <1>3, <1>5, StillLooked

\* What a transaction decides, it has locked.
LEMMA WriteLooked == ASSUME IInv, PInv, HInv, NEW p \in Procs, Write(p), VerdictStands PROVE HInv'
  <1> DEFINE m == job[p].match
             W == Put(dirty[p], m, Written(p))
  <1>0. job[p].pc = "write" /\ crashes' = crashes /\ m \in locks[p] /\ DOMAIN dirty[p] \subseteq DOMAIN rows
    BY JobIs DEF Write, history, Tx
  <1>1. /\ m \in DOMAIN rows /\ Written(p).resolved /\ \A k \in DOMAIN dirty[p] : k # m => dirty[p][k].resolved
    BY <1>0, WrittenOK
  <1>2. Chain(p) /\ Pending(p) = {} BY <1>0 DEF PInv, Orderly, Pending
  <1>3. CASE Final(m)
    <2>1. Commit(p, W, Over(EntriesOf(p), marks[p])) BY <1>3 DEF Write, Written
    <2>2. /\ DOMAIN W = DOMAIN dirty[p] \cup {m} /\ W[m] = Written(p)
          /\ \A k \in DOMAIN dirty[p] : k # m => W[k] = dirty[p][k]
      BY DEF Put
    <2> HIDE DEF W
    <2>3. DOMAIN W \subseteq DOMAIN rows /\ \A k \in DOMAIN W : W[k].resolved BY <1>0, <1>1, <2>2
    <2>4. \A k \in DOMAIN W : Upper(k) \in DOMAIN rows => Upper(k) \in DOMAIN W
      BY <1>1, <1>2, <1>3, <2>2 DEF Chain, Final
    <2>5. locks[p] \subseteq DOMAIN W BY <1>2, <2>2 DEF Chain
    <2> QED BY <1>0, <2>1, <2>2, <2>3, <2>4, <2>5, CommitLooked
  <1>4. CASE ~Final(m)
    <2>1. /\ job'[p].pc = "seat" /\ \A q \in Others(p) : job'[q] = job[q] /\ locks'[q] = locks[q]
          /\ locks' = locks /\ rows' = rows
      BY <1>4, JobIs DEF Write, IInv, JobsTyped, IsFcn, Others, Job
    <2>2. \A k \in DOMAIN rows : LookedBy(p, k) => LookedBy(p, k)' BY <1>0, <2>1 DEF LookedBy
    <2> QED BY <1>0, <2>1, <2>2, FreeLooked
  <1> QED BY <1>3, <1>4

\* In its transaction it still looks after what it has locked.
LEMMA SeatLooked == ASSUME IInv, PInv, HInv, NEW p \in Procs, Seat(p) PROVE HInv'
  <1>0. job[p].pc = "seat" /\ crashes' = crashes /\ ~Seen(p, Upper(job[p].match)).resolved
    BY DEF Seat, history, PInv, Orderly, Chain
  <1>1. /\ job'[p].pc = "bye" /\ \A q \in Others(p) : job'[q] = job[q] /\ locks'[q] = locks[q]
        /\ locks' = locks /\ rows' = rows
    BY <1>0, JobIs DEF Seat, IInv, JobsTyped, IsFcn, Others, Job
  <1>2. \A k \in DOMAIN rows : LookedBy(p, k) => LookedBy(p, k)' BY <1>0, <1>1 DEF LookedBy
  <1> QED BY <1>0, <1>1, <1>2, FreeLooked

\* Where p finds no bye, none is owed.
LEMMA ByeLooked == ASSUME IInv, PInv, HInv, NEW p \in Procs, Bye(p), VerdictStands PROVE HInv'
  <1> DEFINE m == job[p].match
             row == job[p].row
             bye == BothSettled(p, m, row) /\ Cardinality(Present(row)) < 2
  <1>0. /\ job[p].pc = "bye" /\ crashes' = crashes /\ m \in DOMAIN rows /\ row \in Row
        /\ DOMAIN dirty[p] \subseteq DOMAIN rows
    BY JobIs, ViewFacts DEF Bye, history, JobOK, InMatch, Job
  <1>1. Chain(p) /\ Looking(p) /\ Pending(p) = {} BY <1>0 DEF PInv, Orderly, Pending
  <1>2. Cardinality(Present(row)) < 2 <=> ~Two(row) BY <1>0, PresentTwo, RowSeats
  <1>3. CASE bye
    <2>1. /\ job'[p].pc = "lock" /\ job'[p].match = m /\ \A q \in Others(p) : job'[q] = job[q]
          /\ locks' = locks /\ rows' = rows
      BY <1>3 DEF Bye, Resolve, IInv, JobsTyped, Others, transaction
    <2>2. \A k \in DOMAIN rows : LookedBy(p, k) => LookedBy(p, k)' BY <1>0, <2>1 DEF LookedBy
    <2> QED BY <1>0, <2>1, <2>2, FreeLooked
  <1>4. CASE ~bye /\ locks[p] = {}
    <2>1. /\ job'[p].pc = "idle" /\ \A q \in Others(p) : job'[q] = job[q]
          /\ locks' = locks /\ rows' = rows
      BY <1>4, IdleOK DEF Bye, Done, InTransaction, IInv, JobsTyped, Others, transaction
    <2>2. ASSUME NEW k \in DOMAIN rows, OwedBye(k), LookedBy(p, k) PROVE FALSE
      <3>1. k = m /\ ~rows[m].resolved /\ FedIn(rows, m) /\ m[1] > 1 BY <1>4, <2>2 DEF LookedBy, OwedBye
      <3>2. \E i \in Sides : row.seat[i] = NoOne
        BY <1>0, <1>1, <1>4, <3>1 DEF Looking, Unseating, Emptied
      <3>3. ~Two(row) BY <3>2 DEF Two, Sides
      <3>4. \A i \in Sides : Seen(p, Feeder(m, i)).resolved
        BY <1>0, <1>4, <3>1, Feeders, FreeView DEF FedIn
      <3> QED BY <1>2, <1>4, <3>3, <3>4 DEF BothSettled, Settled
    <2> QED BY <1>0, <2>1, <2>2, FreeLooked
  <1>5. CASE ~bye /\ locks[p] # {}
    <2>1. Commit(p, dirty[p], marks[p]) BY <1>5 DEF Bye, InTransaction
    <2>2. m \in DOMAIN dirty[p] /\ row = dirty[p][m] BY <1>0, <1>1, <1>5 DEF Chain
    <2>3. /\ DOMAIN rows' = DOMAIN rows /\ \A k \in DOMAIN rows : rows'[k] = Seen(p, k)
      BY <1>0, <2>1 DEF Commit, Over, Seen
    <2>4. ASSUME NEW k \in DOMAIN dirty[p], ~dirty[p][k].resolved PROVE k[1] # 1 /\ ~OwedBye(k)'
      <3>1. k = m /\ k[1] > 1 BY <1>1, <2>4 DEF Chain, Fresh
      <3>2. ASSUME FedIn(rows, k)', ~Two(row) PROVE FALSE
        <4>1. \A i \in Sides : Seen(p, Feeder(m, i)).resolved
          BY <1>0, <2>3, <3>1, <3>2, Feeders DEF FedIn
        <4> QED BY <1>2, <1>5, <3>2, <4>1 DEF BothSettled, Settled
      <3>3. rows'[k] = row BY <2>2, <2>3, <1>0, <3>1 DEF Seen
      <3>4. ~OwedBye(k)' BY <3>2, <3>3 DEF OwedBye, Two
      <3>5. k[1] \in Nat BY <1>0, <3>1, InMatches, Geometry
      <3> QED BY <3>1, <3>4, <3>5
    <2>5. \A k \in DOMAIN dirty[p] : dirty[p][k].resolved /\ Upper(k) \in DOMAIN rows => Upper(k) \in DOMAIN dirty[p]
      BY <1>1 DEF Chain
    <2>6. locks[p] \subseteq DOMAIN dirty[p] BY <1>0, <1>1 DEF Chain
    <2> QED BY <1>0, <1>5, <2>1, <2>4, <2>5, <2>6, CommitLooked
  <1> QED BY <1>3, <1>4, <1>5

\* The match that lost a player is about to be looked at.
LEMMA OustLooked == ASSUME IInv, HInv, NEW p \in Procs, Oust(p) PROVE HInv'
  <1>1. /\ job[p].pc = "oust" /\ job'[p].pc = "bye" /\ job'[p].match = job[p].match
        /\ \A q \in Others(p) : job'[q] = job[q]
        /\ locks' = locks /\ rows' = rows /\ crashes' = crashes
    BY JobIs DEF Oust, IInv, JobsTyped, IsFcn, Others, Job, transaction, history
  <1>2. \A k \in DOMAIN rows : LookedBy(p, k) => LookedBy(p, k)' BY <1>1 DEF LookedBy
  <1> QED BY <1>1, <1>2, FreeLooked

\* Who empties a side looks after the match.
LEMMA UnseatLooked == ASSUME IInv, HInv, NEW p \in Procs, Unseat(p) PROVE HInv'
  <1>0. /\ job[p].pc = "unseat" /\ UNCHANGED <<locks, crashes>> /\ job[p].match \in DOMAIN rows
        /\ locks[p] = {} /\ job[p].match[1] > 1 /\ job[p].match[1] \in Nat
    BY JobIs, InMatches, Geometry DEF Unseat, history, transaction, JobOK, InMatch, Tx, Outside, HInv, UnseatLater
  <1>1. PICK m \in DOMAIN rows : m = job[p].match BY <1>0
  <1>2. CASE rows[m].resolved \/ job[p].entry \notin Present(rows[m])
    <2>1. /\ job'[p].pc = "forfeit" /\ \A q \in Others(p) : job'[q] = job[q] /\ rows' = rows
      BY <1>1, <1>2 DEF Unseat, IInv, JobsTyped, Others, Idle
    <2>2. rows' = rows BY <1>1, <1>2 DEF Unseat
    <2> QED BY <1>0, <2>1, <2>2, IdleLooked
  <1>3. CASE ~(rows[m].resolved \/ job[p].entry \notin Present(rows[m]))
    <2> DEFINE side == CHOOSE i \in Sides : job[p].entry = rows[m].seat[i]
               row == [rows[m] EXCEPT !.seat[side] = NoOne]
    <2>1. rows' = [rows EXCEPT ![m] = row] /\ job' = [job EXCEPT ![p].pc = "oust", ![p].row = row]
      BY <1>1, <1>3 DEF Unseat
    <2>2. row.resolved = rows[m].resolved BY DEF IInv, RowsTyped, RowOK, Row
    <2> HIDE DEF row
    <2>3. /\ job'[p].pc = "oust" /\ job'[p].match = m /\ \A q \in Others(p) : job'[q] = job[q]
      BY <1>1, <2>1, JobIs DEF IInv, JobsTyped, IsFcn, Others, Job
    <2>4. /\ DOMAIN rows' = DOMAIN rows /\ \A k \in DOMAIN rows : k # m => rows'[k] = rows[k]
          /\ \A k \in DOMAIN rows : rows'[k].resolved = rows[k].resolved
      BY <2>1, <2>2 DEF IInv, RowsTyped
    <2>5. FirstFull' BY <1>0, <1>1, <2>4 DEF HInv, FirstFull
    <2>6. LookedBy(p, m)' BY <1>0, <2>3 DEF LookedBy
    <2>7. ASSUME NEW k \in DOMAIN rows, OwedBye(k)', k # m PROVE OwedBye(k) /\ ~LookedBy(p, k)
      <3>1. rows'[k] = rows[k] BY <2>4, <2>7
      <3>2. OwedBye(k) BY <2>4, <2>7, <3>1, Feeders DEF OwedBye, FedIn
      <3> QED BY <1>0, <3>2, OutsideLooks
    <2> QED BY <1>0, <2>3, <2>4, <2>5, <2>6, <2>7, StillLooked
  <1> QED BY <1>2, <1>3

\* A verdict by the tick, or a mark.
LEMMA SweepLooked == ASSUME IInv, HInv, NEW x \in list, Sweep(x) PROVE HInv'
  <1>0. x.match \in DOMAIN rows /\ job[Ticker].pc = "idle" /\ UNCHANGED <<locks, crashes>> /\ Ticker \in Procs
    BY ProcsFacts DEF IInv, ListTyped, Sweep, history, transaction
  <1>1. CASE x.row.expired
    <2>1. PICK w \in Verdicts(x.row) : Resolve(Ticker, x.match, w, FALSE, NoOne) BY <1>1 DEF Sweep
    <2>2. rows' = rows /\ job'[Ticker].pc = "lock" /\ \A q \in Others(Ticker) : job'[q] = job[q]
      BY <1>0, <1>1, <2>1 DEF Sweep, Resolve, IInv, JobsTyped, Others
    <2> QED BY <1>0, <2>2, IdleLooked
  <1>2. CASE ~x.row.expired
    <2> DEFINE row == [rows[x.match] EXCEPT !.expired = TRUE]
    <2>1. rows' = [rows EXCEPT ![x.match] = row] /\ job' = job BY <1>2 DEF Sweep
    <2>2. row.resolved = rows[x.match].resolved /\ row.seat = rows[x.match].seat
      BY <1>0 DEF IInv, RowsTyped, RowOK, Row
    <2> HIDE DEF row
    <2>3. /\ DOMAIN rows' = DOMAIN rows
          /\ \A k \in DOMAIN rows : rows'[k].seat = rows[k].seat /\ rows'[k].resolved = rows[k].resolved
      BY <1>0, <2>1, <2>2
    <2>4. FirstFull' BY <2>3 DEF HInv, FirstFull, Two
    <2>5. ASSUME NEW m \in DOMAIN rows, OwedBye(m)' PROVE OwedBye(m)
      BY <2>3, <2>5, Feeders DEF OwedBye, FedIn, Two
    <2>6. \A m \in DOMAIN rows' : OwedBye(m)' => m \in DOMAIN rows /\ OwedBye(m) /\ ~LookedBy(Ticker, m)
      BY <1>0, <2>3, <2>5, OutsideLooks
    <2> QED BY <1>0, <2>1, <2>4, <2>6, StillLooked
  <1> QED BY <1>1, <1>2

\* Two byes that meet leave a match with both its sides taken.
LEMMA DrawLooked == ASSUME IInv, HInv, Draw PROVE HInv'
  <1>1. UNCHANGED <<job, locks, crashes>> BY DEF Draw, transaction
  <1>2. CASE Len(entrants) < 2 BY <1>1, <1>2, RestLooked DEF Draw
  <1>3. CASE ~(Len(entrants) < 2)
    <2>1. rows' = Bracket /\ Enough /\ EntrantsOnce BY <1>3, DrawIsEnough DEF Draw, IInv, Registered
    <2>2. FirstFull' BY <2>1, BracketOK DEF FirstFull, Drawn
    <2>3. ASSUME NEW m \in DOMAIN rows', OwedBye(m)' PROVE FALSE
      <3>1. m \in DOMAIN Bracket /\ m[1] > 1 /\ ~Two(Bracket[m]) /\ \A i \in Sides : Bracket[Feeder(m, i)].resolved
        BY <2>1, <2>3 DEF OwedBye, FedIn, Two
      <3>2. m[1] \in Nat /\ Feeder(m, 0) \in DOMAIN Bracket /\ Feeder(m, 0)[1] = m[1] - 1
        BY <2>1, <3>1, BracketOK, Geometry DEF Fed, Sides
      <3>3. Feeder(m, 0)[1] = 1 BY <2>1, <3>1, <3>2, BracketOK DEF Sides
      <3>4. m[1] = 2 BY <3>2, <3>3
      <3> QED BY <2>1, <3>1, <3>4, ByesMeet
    <2>4. job'[Ticker].pc = "unseat" => job'[Ticker].match[1] > 1
      BY <1>1, ProcsFacts DEF HInv, UnseatLater
    <2> QED BY <1>1, <2>2, <2>3, <2>4, ProcsFacts, StillLooked
  <1> QED BY <1>2, <1>3

\* Every step keeps an owed bye looked after.
LEMMA HInvStep == ASSUME IInv, IInv', PInv, HInv, VerdictStands, [Next]_vars PROVE HInv'
  <1>1. CASE \/ Join \/ (\E e \in Players : Leave(e)) \/ Cancel \/ Reopen \/ Clock \/ UNCHANGED vars
    BY <1>1, RestLooked DEF Join, Leave, Cancel, Reopen, Clock, vars, database, transaction, history
  <1>2. CASE \E p \in Workers : \/ \E e \in Players : HookRefuses(p, e)
                                \/ \E m \in DOMAIN rows, w \in Someone : Report(p, m, w)
    <2>1. PICK p \in Workers : \/ \E e \in Players : HookRefuses(p, e)
                               \/ \E m \in DOMAIN rows, w \in Someone : Report(p, m, w)
      BY <1>2
    <2>2. p \in Procs BY ProcsFacts
    <2>3. /\ job[p].pc = "idle" /\ UNCHANGED <<locks, crashes, rows>> /\ job'[p].pc \in {"idle", "forfeit", "lock"}
          /\ \A q \in Others(p) : job'[q] = job[q]
      BY <2>1, <2>2, JobIs DEF HookRefuses, Report, Resolve, transaction, database, history,
                               IInv, JobsTyped, IsFcn, Others, Job
    <2> QED BY <2>2, <2>3, IdleLooked
  <1>3. CASE Tick
    <2>1. CASE Decided \/ clock >= Ends
      <3>1. /\ job[Ticker].pc = "idle" /\ UNCHANGED <<locks, crashes, rows>> /\ job'[Ticker].pc = "finish"
            /\ \A q \in Others(Ticker) : job'[q] = job[q]
        BY <1>3, <2>1, ProcsFacts, JobIs DEF Tick, Goto, transaction, database, history,
                                             IInv, JobsTyped, IsFcn, Others, Job
      <3> QED BY <3>1, ProcsFacts, IdleLooked
    <2>2. CASE ~(Decided \/ clock >= Ends)
      BY <1>3, <2>2, RestLooked DEF Tick, transaction, database, history
    <2> QED BY <2>1, <2>2
  <1>4. CASE Draw BY <1>4, DrawLooked
  <1>5. CASE Sweeping BY <1>5, SweepLooked DEF Sweeping
  <1>6. ASSUME NEW p \in Procs, Finish(p) PROVE HInv'
    <2>1. /\ job[p].pc = "finish" /\ UNCHANGED <<locks, crashes, rows>> /\ job'[p].pc = "idle"
          /\ \A q \in Others(p) : job'[q] = job[q]
      BY <1>6, IdleOK DEF Finish, Done, transaction, IInv, JobsTyped, Others
    <2> QED BY <2>1, IdleLooked
  <1>7. ASSUME NEW p \in Procs, Crash(p) PROVE HInv'
    <2>1. crashes' # 0 /\ rows' = rows BY <1>7 DEF Crash, database, IInv, Phases
    <2>2. FirstFull' BY <2>1, SameRows
    <2>3. UnseatLater'
      BY <1>7, IdleOK DEF Crash, Done, HInv, UnseatLater, IInv, JobsTyped
    <2> QED BY <2>1, <2>2, <2>3 DEF HInv
  <1>8. CASE \E p \in Procs : Step(p) \/ Crash(p)
    <2>1. PICK p \in Procs : Step(p) \/ Crash(p) BY <1>8
    <2> QED BY <2>1, <1>6, <1>7, LockLooked, WriteLooked, SeatLooked, ByeLooked, ForfeitLooked,
               UnseatLooked, OustLooked DEF Step
  <1> QED BY <1>1, <1>2, <1>3, <1>4, <1>5, <1>8 DEF Next

\* A match that is owed a bye is settled by someone, as long as nobody died: the two
\* that feed it never leave it to each other (tournaments.ex:1026-1049).
THEOREM ByesHandedOutHolds == ASSUME Punctual PROVE Spec => []ByesHandedOut
  <1>1. Init => HInv
    BY DEF Init, Idle, HInv, FirstFull, UnseatLater
  <1>2. IInv /\ IInv' /\ PInv /\ HInv /\ [Next]_vars => HInv' BY HInvStep, VerdictStandsStep
  <1>3. ASSUME IInv, PInv, HInv PROVE ByesHandedOut
    <2> SUFFICES ASSUME crashes = 0, NEW m \in DOMAIN rows, ~rows[m].resolved, Cardinality(Present(rows[m])) < 2
                 PROVE  \/ \E i \in Sides : rows[m].seat[i] = NoOne /\ Reachable(m, i)
                        \/ \E p \in Procs : Settling(p)
      BY DEF ByesHandedOut
    <2>1. ~Two(rows[m]) BY <1>3, PresentTwo, RowSeats DEF IInv, RowsTyped, RowOK
    <2>2. m[1] \in Nat /\ m[1] >= 1 BY <1>3, InMatches, Geometry
    <2>3. m[1] > 1 BY <1>3, <2>1, <2>2 DEF HInv, FirstFull
    <2>4. CASE FedIn(rows, m)
      <3>1. PICK p \in Procs : LookedBy(p, m) BY <1>3, <2>1, <2>3, <2>4 DEF HInv, OwedBye, LookedAfter
      <3>2. job[p].pc \notin {"idle", "finish", "forfeit", "unseat"} BY <1>3, <3>1, OutsideLooks
      <3>3. job[p].pc \in {"oust", "bye", "lock", "write", "seat"} BY <1>3, <3>2, JobIs DEF Job
      <3> QED BY <3>3 DEF Settling
    <2>5. CASE ~FedIn(rows, m)
      <3>1. PICK i \in Sides : ~rows[Feeder(m, i)].resolved BY <2>5 DEF FedIn
      <3>2. rows[m].seat[i] = NoOne BY <1>3, <2>3, <3>1 DEF PInv, InOrder, Climbs
      <3> QED BY <2>3, <3>1, <3>2 DEF Reachable
    <2> QED BY <2>4, <2>5
  <1>4. Spec => []HInv BY <1>1, <1>2, IInvHolds, PInvHolds, PTL DEF Spec
  <1> QED BY <1>3, <1>4, IInvHolds, PInvHolds, PTL

-----------------------------------------------------------------------------
\* The champion.

\* Who is no longer in play, or is being put out.
Leaving(e) == fate[e] # "active" \/ \E q \in Procs : job[q].pc = "oust" /\ job[q].entry = e

\* The bracket is a whole tree, with one final.
Drawing(d) == UNION {{<<r, s>> : s \in 0..(Width[d - r] - 1)} : r \in 1..d}
Tree == rows # <<>> => \E d \in 1..Rounds : DOMAIN rows = Drawing(d)

\* Where every entrant is: in play he sits in an open match, unless a process died, and
\* only he who won the final is the winner.
Standing ==
  rows # <<>> => \A e \in Range(entrants) :
    /\ fate[e] \in {"active", "eliminated", "winner"}
    /\ fate[e] = "winner" => Champion(e)
    /\ Champion(e) /\ e \notin refused => fate[e] = "winner"
    /\ crashes = 0 => OpenFor(e) # {} \/ Leaving(e)

\* Who sits in a match that a transaction has decided is out, or he is the one to be
\* seated next, or seated already.
Handled(p) ==
  /\ \A e \in DOMAIN marks[p] : marks[p][e] = "eliminated"
  /\ \A m \in DOMAIN dirty[p] : dirty[p][m].resolved =>
       /\ ~Final(m)
       /\ \A e \in Present(dirty[p][m]) :
            \/ e \in DOMAIN marks[p]
            \/ job[p].pc = "seat" /\ job[p].verdict = e
            \/ \E k \in DOMAIN dirty[p] : ~dirty[p][k].resolved /\ e \in Present(dirty[p][k])

\* A verdict is for one who sits in its match, or was refused since; and nobody comes
\* to a match between its reading and its writing.
Backed(p) ==
  /\ job[p].pc \in {"oust", "bye"} => Present(job[p].row) \subseteq Present(Seen(p, job[p].match)) \cup refused
  /\ job[p].pc = "lock" => job[p].verdict \in Present(Seen(p, job[p].match)) \cup refused \cup {NoOne}
  /\ job[p].pc = "write" =>
       /\ job[p].verdict \in Present(job[p].row) \cup refused \cup {NoOne}
       /\ Present(Seen(p, job[p].match)) \subseteq Present(job[p].row)
ListBacked == \A x \in list : Present(x.row) \subseteq Present(rows[x.match]) \cup refused
CInv == Tree /\ Standing /\ ListBacked /\ \A p \in Procs : Handled(p) /\ Backed(p)

\* Every rank starts in some slot.
LEMMA SeedOnto ==
  \A r \in 0..Rounds : \A k \in 1..Width[r] : \E i \in 0..(Width[r] - 1) : SeedOrder[r][i] = k
  <1> DEFINE T == {r \in Nat : \A k \in 1..Width[r] : \E i \in 0..(Width[r] - 1) : SeedOrder[r][i] = k}
  <1>1. 0 \in T
    <2>1. SeedOrder[0] = Half(0) BY SeedDef, RoundsLemma DEF RoundsOK
    <2>2. SeedOrder[0][0] = 1 /\ Width[0] = 1 BY <2>1, WidthZero DEF Half
    <2> QED BY <2>2
  <1>2. ASSUME NEW r \in 1..Rounds, r - 1 \in T PROVE r \in T
    <2>1. Width[r] = 2 * Width[r - 1] /\ Width[r - 1] \in Nat /\ Width[r] \in Nat
      BY WidthDoubles, WidthNat, RoundsLemma DEF RoundsOK
    <2>2. ASSUME NEW k \in 1..Width[r] PROVE \E i \in 0..(Width[r] - 1) : SeedOrder[r][i] = k
      <3>1. CASE k <= Width[r - 1]
        <4>1. k \in 1..Width[r - 1] BY <2>1, <3>1
        <4>2. PICK s \in 0..(Width[r - 1] - 1) : SeedOrder[r - 1][s] = k BY <4>1, <1>2
        <4>3. SeedOrder[r][2 * s] = k BY <4>2, SeedPairs
        <4>4. 2 * s \in 0..(Width[r] - 1) BY <2>1
        <4> QED BY <4>3, <4>4
      <3>2. CASE k > Width[r - 1]
        <4>1. Width[r] + 1 - k \in 1..Width[r - 1] BY <2>1, <3>2
        <4>2. PICK s \in 0..(Width[r - 1] - 1) : SeedOrder[r - 1][s] = Width[r] + 1 - k BY <4>1, <1>2
        <4>3. SeedOrder[r][2 * s + 1] = Width[r] + 1 - SeedOrder[r][2 * s] /\ SeedOrder[r][2 * s] = Width[r] + 1 - k
          BY <4>2, SeedPairs
        <4>4. SeedOrder[r][2 * s + 1] = k BY <4>3, <2>1
        <4>5. 2 * s + 1 \in 0..(Width[r] - 1) BY <2>1
        <4> QED BY <4>4, <4>5
      <3> QED BY <3>1, <3>2, <2>1
    <2> QED BY <2>2
  <1> HIDE DEF T
  <1>3. \A k \in 0..Rounds : k \in T BY <1>1, <1>2, Climb, RoundsLemma DEF RoundsOK
  <1> QED BY <1>3 DEF T

\* Who has the rank of a slot starts in it.
LEMMA StartsIn ==
  ASSUME Enough, NEW s \in Slots, NEW i \in Sides, SeedOrder[Depth][2 * s + i] \in DOMAIN entrants
  PROVE  FirstRound(s).seat[i] = entrants[SeedOrder[Depth][2 * s + i]]
  <1> DEFINE occupant(k) == LET rank == SeedOrder[Depth][2 * s + k]
                            IN  IF rank \in DOMAIN entrants THEN entrants[rank] ELSE NoOne
             row == [EmptyRow EXCEPT !.seat = [k \in Sides |-> occupant(k)]]
  <1>1. FirstRound(s) = IF Cardinality(Present(row)) = 2 THEN row ELSE Settles(row)
    BY DEF FirstRound, Depth
  <1>2. row.seat[i] = occupant(i) BY DEF EmptyRow
  <1>3. Settles(row).seat = row.seat BY DEF Settles, EmptyRow
  <1> HIDE DEF row
  <1>4. FirstRound(s).seat[i] = row.seat[i] BY <1>1, <1>3
  <1> QED BY <1>2, <1>4

\* The matches of the draw.
LEMMA BracketTree == ASSUME Enough PROVE Depth \in 1..Rounds /\ DOMAIN Bracket = Drawing(Depth)
  BY DepthOK DEF Bracket, Drawing, Depth

\* Two who start in one match are two players.
LEMMA TwoRanks ==
  ASSUME Enough, NEW s \in Slots
  PROVE  /\ Depth \in 1..Rounds /\ Width[Depth - 1] \in Nat /\ s \in Nat
         /\ SeedOrder[Depth][2 * s] \in 1..Width[Depth - 1]
         /\ SeedOrder[Depth][2 * s + 1] = Width[Depth] + 1 - SeedOrder[Depth][2 * s]
         /\ Width[Depth] = 2 * Width[Depth - 1]
  <1>1. Depth \in 1..Rounds /\ Width[Depth - 1] \in Nat BY DepthOK
  <1>2. Width[Depth] = 2 * Width[Depth - 1] BY <1>1, WidthDoubles
  <1> QED BY <1>1, <1>2, SeedPairs DEF Slots

\* Two entrants are one match, and it is open.
LEMMA FinalDrawn ==
  ASSUME Enough, EntrantsOnce, Depth = 1, NEW s \in Slots
  PROVE  ~FirstRound(s).resolved
  <1>1. Width[0] = 1 /\ Width[Depth - 1] = 1 /\ Width[Depth] = 2 BY WidthZero, TwoRanks
  <1>2. SeedOrder[Depth][2 * s] = 1 /\ SeedOrder[Depth][2 * s + 1] = 2 BY <1>1, TwoRanks
  <1>3. DOMAIN entrants = 1..Len(entrants) /\ 1 \in DOMAIN entrants /\ 2 \in DOMAIN entrants BY DEF Enough
  <1>4. s \in Nat /\ 2 * s + 0 = 2 * s BY TwoRanks
  <1>5. FirstRound(s).seat[0] = entrants[1] /\ FirstRound(s).seat[1] = entrants[2]
    <2>1. FirstRound(s).seat[0] = entrants[1] BY <1>2, <1>3, <1>4, StartsIn DEF Sides
    <2>2. FirstRound(s).seat[1] = entrants[2] BY <1>2, <1>3, <1>4, StartsIn DEF Sides
    <2> QED BY <2>1, <2>2
  <1>6. entrants[1] # entrants[2] BY <1>3 DEF EntrantsOnce
  <1>7. entrants[1] # NoOne /\ entrants[2] # NoOne
    <2>1. entrants[1] \in Players /\ entrants[2] \in Players BY <1>3 DEF Enough
    <2> QED BY <2>1, NoOneAssumption
  <1>8. {entrants[1], entrants[2]} \subseteq Present(FirstRound(s)) BY <1>5, <1>7 DEF Present, Sides
  <1>9. Drawn(FirstRound(s)) BY FirstRoundOK
  <1> QED BY <1>6, <1>8, <1>9 DEF Drawn

\* A slot and a side of it.
LEMMA SlotAndSide ==
  ASSUME NEW w \in Nat, NEW n \in 0..(2 * w - 1)
  PROVE  \E s \in 0..(w - 1), i \in Sides : n = 2 * s + i
  <1>1. n \in Nat /\ n < 2 * w OBVIOUS
  <1>2. n \div 2 \in Nat /\ n % 2 \in {0, 1} /\ n = 2 * (n \div 2) + (n % 2) BY <1>1
  <1>3. PICK s \in Nat, i \in {0, 1} : n = 2 * s + i BY <1>2
  <1>4. s \in 0..(w - 1) BY <1>1, <1>3
  <1> QED BY <1>3, <1>4 DEF Sides

\* The draw leaves every entrant with a match to play.
LEMMA Placed ==
  ASSUME Enough, EntrantsOnce, NEW e \in Range(entrants)
  PROVE  \E m \in DOMAIN Bracket : ~Bracket[m].resolved /\ e \in Present(Bracket[m])
  <1>1. PICK k \in DOMAIN entrants : e = entrants[k] BY DEF Range
  <1>2. /\ Depth \in 1..Rounds /\ DOMAIN entrants = 1..Len(entrants) /\ Len(entrants) \in Nat
        /\ Len(entrants) <= Width[Depth] /\ Width[Depth] = 2 * Width[Depth - 1] /\ Width[Depth - 1] \in Nat
    <2>1. Len(entrants) \in Nat BY DEF Enough
    <2>2. Len(entrants) <= Width[Depth] BY <2>1, RoundsForFits DEF Enough, Depth
    <2> QED BY <2>1, <2>2, DepthOK, WidthDoubles DEF Enough
  <1>3. k \in 1..Width[Depth] BY <1>2
  <1>4. PICK n \in 0..(Width[Depth] - 1) : SeedOrder[Depth][n] = k
    <2>1. Depth \in 0..Rounds BY <1>2, RoundsLemma DEF RoundsOK
    <2> QED BY <2>1, <1>3, SeedOnto, Zenon
  <1>5. PICK s \in Slots, i \in Sides : n = 2 * s + i
    <2>1. n \in 0..(2 * Width[Depth - 1] - 1) BY <1>2
    <2> QED BY <1>2, <2>1, SlotAndSide DEF Slots
  <1>7. s \in Nat /\ s \in 0..(Width[Depth - 1] - 1) /\ n = 2 * s + i BY <1>5 DEF Slots
  <1>8. FirstRound(s).seat[i] = e BY <1>1, <1>4, <1>7, StartsIn
  <1>9. e \in Players /\ e # NoOne BY <1>1, NoOneAssumption DEF Enough
  <1>10. e \in Present(FirstRound(s)) BY <1>8, <1>9 DEF Present
  <1>11. <<1, s>> \in DOMAIN Bracket /\ Bracket[<<1, s>>] = FirstRound(s)
    <2>1. <<1, s>> \in {<<1, t>> : t \in 0..(Width[Depth - 1] - 1)} BY <1>7 DEF Slots
    <2>2. 1 \in 1..Depth BY <1>2
    <2>3. <<1, s>> \in Drawing(Depth) BY <2>1, <2>2 DEF Drawing
    <2>4. <<1, s>> \in DOMAIN Bracket BY <2>3, BracketTree, Zenon
    <2> QED BY <2>3, <2>4 DEF Bracket, Drawing, Depth
  <1>12. CASE ~FirstRound(s).resolved BY <1>10, <1>11, <1>12
  <1>13. CASE FirstRound(s).resolved
    <2>1. Depth # 1 BY <1>7, <1>13, FinalDrawn
    <2>2. Drawn(FirstRound(s)) BY <1>7, FirstRoundOK
    <2>3. FirstRound(s).winner = e BY <1>10, <1>13, <2>2 DEF Drawn
    <2> DEFINE u == Upper(<<1, s>>)
    <2>4. <<1, s>> \in Matches BY <1>11, BracketOK
    <2>5. u = <<2, s \div 2>> /\ u[1] = 2 /\ Side(<<1, s>>) \in Sides /\ Feeder(u, Side(<<1, s>>)) = <<1, s>>
      BY <2>4, Geometry DEF Upper
    <2>6. u \in DOMAIN Bracket
      <3>1. 2 \in 1..Depth BY <1>2, <2>1
      <3>2. Depth - 1 \in 1..Rounds /\ Depth - 1 - 1 = Depth - 2 BY <1>2, <2>1, RoundsLemma DEF RoundsOK
      <3>3. Width[Depth - 1] = 2 * Width[Depth - 2] /\ Width[Depth - 2] \in Nat
        <4>1. PICK d \in 1..Rounds : d = Depth - 1 BY <3>2
        <4>2. Width[d] = 2 * Width[d - 1] /\ d - 1 = Depth - 2 BY <4>1, <3>2, WidthDoubles
        <4>3. Depth - 2 \in 0..Rounds BY <1>2, <2>1, RoundsLemma DEF RoundsOK
        <4> QED BY <4>1, <4>2, <4>3, WidthNat
      <3>4. s \div 2 \in 0..(Width[Depth - 2] - 1) BY <1>7, <3>3 DEF Slots
      <3>5. u \in {<<2, t>> : t \in 0..(Width[Depth - 2] - 1)} BY <2>5, <3>4
      <3>6. u \in Drawing(Depth) BY <3>1, <3>5 DEF Drawing
      <3> QED BY <3>6, BracketTree
    <2> HIDE DEF u
    <2>7. Bracket[u].seat[Side(<<1, s>>)] = e BY <1>11, <2>3, <2>5, <2>6, BracketOK
    <2>8. ~Bracket[u].resolved BY <2>5, <2>6, BracketOK
    <2>9. e \in Present(Bracket[u]) BY <1>9, <2>5, <2>7 DEF Present
    <2> QED BY <2>6, <2>8, <2>9
  <1> QED BY <1>12, <1>13

\* Once the final is decided everything is.
LEMMA FinalIsLast ==
  ASSUME NEW d \in 1..Rounds, NEW R, DOMAIN R = Drawing(d), DOMAIN R \subseteq Matches, Climbs(R),
         NEW f \in DOMAIN R, Upper(f) \notin DOMAIN R, R[f].resolved
  PROVE  \A m \in DOMAIN R : R[m].resolved
  <1>1. ASSUME NEW m \in DOMAIN R
        PROVE  m = <<m[1], m[2]>> /\ m[1] \in 1..d /\ m[2] \in 0..(Width[d - m[1]] - 1) /\ Width[d - m[1]] \in Nat
    <2>1. PICK r \in 1..d : m \in {<<r, s>> : s \in 0..(Width[d - r] - 1)} BY DEF Drawing
    <2>2. PICK s \in 0..(Width[d - r] - 1) : m = <<r, s>> BY <2>1
    <2>3. d - r \in 0..Rounds BY RoundsLemma DEF RoundsOK
    <2>4. Width[d - r] \in Nat BY <2>3, WidthNat
    <2> QED BY <2>2, <2>4
  <1>2. ASSUME NEW m \in DOMAIN R, m[1] < d PROVE Upper(m) \in DOMAIN R
    <2>1. m[1] + 1 \in 1..d /\ m[2] \in Nat BY <1>1, <1>2
    <2>2. PICK k \in 1..Rounds : k = d - m[1] BY <1>1, <1>2, RoundsLemma DEF RoundsOK
    <2>3. Width[k] = 2 * Width[k - 1] /\ Width[k - 1] \in Nat BY WidthDoubles, WidthNat, RoundsLemma DEF RoundsOK
    <2>4. m[2] \div 2 \in 0..(Width[k - 1] - 1) BY <1>1, <2>2, <2>3
    <2>5. k - 1 = d - (m[1] + 1) BY <1>1, <2>2
    <2>6. Upper(m) = <<m[1] + 1, m[2] \div 2>> BY DEF Upper
    <2>7. Upper(m) \in {<<m[1] + 1, s>> : s \in 0..(Width[d - (m[1] + 1)] - 1)} BY <2>4, <2>5, <2>6
    <2>8. Upper(m) \in Drawing(d) BY <2>1, <2>7 DEF Drawing
    <2> QED BY <2>8
  <1>3. f[1] = d BY <1>1, <1>2
  <1>4. \A m \in DOMAIN R : m[1] = d => m = f
    <2>1. Width[d - d] = 1 BY WidthZero
    <2>2. ASSUME NEW m \in DOMAIN R, m[1] = d PROVE m = <<d, 0>>
      <3>1. m = <<m[1], m[2]>> /\ m[2] \in 0..(Width[d - d] - 1) BY <1>1, <2>2
      <3>2. m[2] = 0 BY <2>1, <3>1
      <3> QED BY <2>2, <3>1, <3>2
    <2> QED BY <1>3, <2>2
  <1> DEFINE T == {k \in Nat : \A m \in DOMAIN R : m[1] = d - k => R[m].resolved}
  <1>5. 0 \in T BY <1>4
  <1>6. ASSUME NEW k \in 1..d, k - 1 \in T PROVE k \in T
    <2>1. ASSUME NEW m \in DOMAIN R, m[1] = d - k PROVE R[m].resolved
      <3>1. /\ Upper(m) \in DOMAIN R /\ Side(m) \in Sides /\ Feeder(Upper(m), Side(m)) = m
            /\ Upper(m)[1] = d - (k - 1) /\ Upper(m)[1] > 1
        BY <1>2, <2>1, Geometry
      <3>2. R[Upper(m)].resolved BY <1>6, <3>1
      <3> QED BY <3>1, <3>2 DEF Climbs
    <2> QED BY <2>1
  <1> HIDE DEF T
  <1>7. \A k \in 0..d : k \in T BY <1>5, <1>6, Climb
  <1>8. ASSUME NEW m \in DOMAIN R PROVE R[m].resolved
    <2>1. d - m[1] \in 0..d /\ m[1] = d - (d - m[1]) BY <1>1
    <2> QED BY <1>7, <2>1 DEF T
  <1> QED BY <1>8

\* Once there is a champion every match is decided, and nobody has anything in hand.
LEMMA ChampionDecides ==
  ASSUME IInv, PInv, Tree, NEW e, e # NoOne, Champion(e)
  PROVE  /\ \A m \in DOMAIN rows : rows[m].resolved
         /\ \A p \in Procs : locks[p] = {}
  <1>1. PICK f \in DOMAIN rows : Final(f) /\ rows[f].winner = e BY DEF Champion
  <1>2. rows[f].resolved BY <1>1 DEF IInv, RowsTyped, RowOK
  <1>3. DOMAIN rows # {} /\ DOMAIN rows \subseteq Matches /\ Climbs(rows)
    BY <1>1 DEF IInv, RowsTyped, PInv, InOrder
  <1>4. rows # <<>> BY <1>3
  <1>5. PICK d \in 1..Rounds : DOMAIN rows = Drawing(d) BY <1>4 DEF Tree
  <1>6. \A m \in DOMAIN rows : rows[m].resolved BY <1>1, <1>2, <1>3, <1>5, FinalIsLast DEF Final
  <1>7. \A p \in Procs : locks[p] = {} BY <1>6, JobIs DEF Tx
  <1> QED BY <1>6, <1>7

\* What a transaction writes into a seat is the winner of a match it decided: the
\* seat was empty.
LEMMA OwnSeats ==
  ASSUME IInv, PInv, NEW p \in Procs, NEW m \in DOMAIN rows, NEW i \in Sides
  PROVE  \/ Seen(p, m).seat[i] = rows[m].seat[i]
         \/ rows[m].seat[i] = NoOne /\ m[1] > 1 /\ ~rows[Feeder(m, i)].resolved
  <1>1. CASE m \notin DOMAIN dirty[p] BY <1>1 DEF Seen
  <1>2. CASE m \in DOMAIN dirty[p]
    <2>1. Seen(p, m) = dirty[p][m] BY <1>2 DEF Seen
    <2>2. m[1] = 1 \/ Feeder(m, i) \notin DOMAIN dirty[p] => Seen(p, m).seat[i] = rows[m].seat[i]
      BY <1>2, <2>1 DEF PInv, Orderly, Untouched
    <2>3. m[1] \in Nat /\ m[1] >= 1 BY InMatches, Geometry
    <2>4. CASE m[1] # 1 /\ Feeder(m, i) \in DOMAIN dirty[p]
      <3>1. ~rows[Feeder(m, i)].resolved BY <2>4, OwnOpen
      <3>2. rows[m].seat[i] = NoOne BY <2>3, <2>4, <3>1 DEF PInv, InOrder, Climbs
      <3> QED BY <2>3, <2>4, <3>1, <3>2
    <2> QED BY <2>2, <2>4
  <1> QED BY <1>1, <1>2

\* A seat changes in two ways: a winner comes from a match that was open, a refused
\* player goes, and is being put out.
SeatsMove == \A m \in DOMAIN rows, i \in Sides :
  \/ rows'[m].seat[i] = rows[m].seat[i]
  \/ rows[m].seat[i] = NoOne /\ m[1] > 1 /\ ~rows[Feeder(m, i)].resolved
  \/ /\ rows'[m].seat[i] = NoOne /\ rows[m].seat[i] \in refused
     /\ \E q \in Procs : job'[q].pc = "oust" /\ job'[q].entry = rows[m].seat[i]

\* A commit moves winners.
LEMMA CommitSeats ==
  ASSUME IInv, PInv, NEW p \in Procs, NEW W, NEW mk, Commit(p, W, mk),
         \A m \in DOMAIN W : m \in DOMAIN rows => W[m].seat = Seen(p, m).seat
  PROVE  SeatsMove
  <1>1. /\ \A m \in DOMAIN W : rows'[m] = W[m]
        /\ \A m \in DOMAIN rows : m \notin DOMAIN W => rows'[m] = rows[m]
    BY DEF Commit, Over
  <1>2. ASSUME NEW m \in DOMAIN rows, NEW i \in Sides
        PROVE  \/ rows'[m].seat[i] = rows[m].seat[i]
               \/ rows[m].seat[i] = NoOne /\ m[1] > 1 /\ ~rows[Feeder(m, i)].resolved
    <2>1. CASE m \in DOMAIN W BY <1>1, <2>1, OwnSeats
    <2>2. CASE m \notin DOMAIN W BY <1>1, <2>2
    <2> QED BY <2>1, <2>2
  <1> QED BY <1>2 DEF SeatsMove

\* No other step moves anybody.
LEMMA SeatsMoveStep == ASSUME IInv, PInv, [Next]_vars PROVE SeatsMove
  <1>1. CASE rows' = rows BY <1>1 DEF SeatsMove
  <1>2. CASE Draw
    <2>1. DOMAIN rows = {} BY <1>2 DEF Draw, IInv, Phases
    <2> QED BY <2>1 DEF SeatsMove
  <1>3. ASSUME NEW p \in Procs, Lock(p) \/ Seat(p) \/ Bye(p), rows' # rows PROVE SeatsMove
    <2>1. Commit(p, dirty[p], marks[p]) BY <1>3 DEF Lock, Seat, Bye
    <2>2. \A m \in DOMAIN dirty[p] : dirty[p][m].seat = Seen(p, m).seat BY DEF Seen
    <2> QED BY <2>1, <2>2, CommitSeats
  <1>4. ASSUME NEW p \in Procs, Write(p), rows' # rows PROVE SeatsMove
    <2> DEFINE W == Put(dirty[p], job[p].match, Written(p))
    <2>1. Commit(p, W, Over(EntriesOf(p), marks[p])) BY <1>4 DEF Write, Written
    <2>2. Written(p).seat = Seen(p, job[p].match).seat BY <1>4, WrittenOK DEF Write
    <2>3. \A m \in DOMAIN W : W[m].seat = Seen(p, m).seat BY <2>2 DEF Put, Seen
    <2> HIDE DEF W
    <2> QED BY <2>1, <2>3, CommitSeats
  <1>5. ASSUME NEW p \in Procs, Unseat(p), rows' # rows PROVE SeatsMove
    <2> DEFINE m == job[p].match
               e == job[p].entry
               side == CHOOSE i \in Sides : e = rows[m].seat[i]
    <2>1. /\ rows' = [rows EXCEPT ![m] = [rows[m] EXCEPT !.seat[side] = NoOne]] /\ e \in Present(rows[m])
          /\ job[p].pc = "unseat"
      BY <1>5 DEF Unseat
    <2>2. m \in DOMAIN rows /\ rows[m] \in Row /\ e \in refused
      BY <2>1, JobIs DEF JobOK, InMatch, Putting, IInv, RowsTyped, RowOK
    <2>3. \E i \in Sides : e = rows[m].seat[i] BY <2>1 DEF Present
    <2>4. side \in Sides /\ e = rows[m].seat[side] BY <2>3
    <2> HIDE DEF side
    <2>5. /\ rows'[m].seat[side] = NoOne
          /\ \A i \in Sides : i # side => rows'[m].seat[i] = rows[m].seat[i]
          /\ \A k \in DOMAIN rows : k # m => rows'[k] = rows[k]
      BY <2>1, <2>2, <2>4 DEF Row
    <2>6. job'[p].pc = "oust" /\ job'[p].entry = e
      BY <1>5, JobIs DEF Unseat, IInv, JobsTyped, IsFcn, Job
    <2> QED BY <2>2, <2>4, <2>5, <2>6 DEF SeatsMove
  <1>6. ASSUME NEW x \in list, Sweep(x), rows' # rows PROVE SeatsMove
    <2>1. rows' = [rows EXCEPT ![x.match].expired = TRUE] BY <1>6 DEF Sweep
    <2>2. \A m \in DOMAIN rows : rows'[m].seat = rows[m].seat BY <2>1 DEF IInv, RowsTyped, RowOK, Row
    <2> QED BY <2>2 DEF SeatsMove
  <1>7. CASE \E p \in Procs : Step(p) \/ Crash(p)
    <2>1. PICK p \in Procs : Step(p) \/ Crash(p) BY <1>7
    <2>2. CASE Crash(p) BY <1>1, <2>2 DEF Crash, database
    <2>3. CASE Finish(p) \/ Forfeit(p) \/ Oust(p) BY <1>1, <2>3 DEF Finish, Forfeit, Oust, database
    <2> QED BY <2>1, <2>2, <2>3, <1>1, <1>3, <1>4, <1>5 DEF Step
  <1>8. CASE \E p \in Workers : \/ \E e \in Players : HookRefuses(p, e)
                                \/ \E m \in DOMAIN rows, w \in Someone : Report(p, m, w)
    BY <1>1, <1>8 DEF HookRefuses, Report, database
  <1>9. CASE \/ Join \/ (\E e \in Players : Leave(e)) \/ Cancel \/ Reopen \/ Clock \/ Tick \/ UNCHANGED vars
    BY <1>1, <1>9 DEF Join, Leave, Cancel, Reopen, Clock, Tick, vars, database
  <1> QED BY <1>1, <1>2, <1>6, <1>7, <1>8, <1>9 DEF Next, Sweeping

\* Who sat in a match still does, unless he was refused.
LEMMA StillThere ==
  ASSUME SeatsMove, NEW q \in Procs, dirty'[q] = dirty[q], NEW m \in DOMAIN rows
  PROVE  Present(Seen(q, m)) \subseteq Present(Seen(q, m)') \cup refused
  <1>1. CASE m \in DOMAIN dirty[q] BY <1>1 DEF Seen
  <1>2. CASE m \notin DOMAIN dirty[q]
    <2>1. Seen(q, m) = rows[m] /\ Seen(q, m)' = rows'[m] BY <1>2 DEF Seen
    <2>2. ASSUME NEW e \in Present(rows[m]), e \notin refused PROVE e \in Present(rows'[m])
      <3>1. PICK i \in Sides : rows[m].seat[i] = e /\ e # NoOne BY <2>2 DEF Present
      <3>2. rows'[m].seat[i] = e BY <2>2, <3>1 DEF SeatsMove
      <3> QED BY <3>1, <3>2 DEF Present
    <2> QED BY <2>1, <2>2
  <1> QED BY <1>1, <1>2

\* Nobody comes to a match that a transaction is about to write.
LEMMA NobodyComes ==
  ASSUME IInv, PInv, SeatsMove, NEW q \in Procs, dirty'[q] = dirty[q], job[q].pc = "write",
         NEW m \in DOMAIN rows, m = job[q].match
  PROVE  Present(Seen(q, m)') \subseteq Present(Seen(q, m))
  <1>2. CASE m \in DOMAIN dirty[q] BY <1>2 DEF Seen
  <1>3. CASE m \notin DOMAIN dirty[q]
    <2>1. Seen(q, m) = rows[m] /\ Seen(q, m)' = rows'[m] BY <1>3 DEF Seen
    <2>2. FedIn(View(q), m) /\ Chain(q) BY DEF PInv, Orderly, Ready
    <2>3. ASSUME NEW i \in Sides, m[1] > 1 PROVE rows[Feeder(m, i)].resolved
      <3>1. PICK f \in DOMAIN rows : f = Feeder(m, i) /\ Upper(f) = m
        BY <2>3, Feeders, InMatches, Geometry
      <3>2. Seen(q, f).resolved BY <2>2, <2>3, <3>1, ViewFacts DEF FedIn
      <3>3. f \notin DOMAIN dirty[q]
        <4> SUFFICES ASSUME f \in DOMAIN dirty[q] PROVE FALSE OBVIOUS
        <4>1. dirty[q][f].resolved BY <3>2 DEF Seen
        <4>2. f \in Pending(q) BY <1>3, <2>2, <3>1, <4>1 DEF Chain
        <4> QED BY <4>2 DEF Pending
      <3> QED BY <3>1, <3>2, <3>3 DEF Seen
    <2>4. \A i \in Sides : rows'[m].seat[i] \in {rows[m].seat[i], NoOne}
      BY <2>3 DEF SeatsMove
    <2>5. Present(rows'[m]) \subseteq Present(rows[m]) BY <2>4 DEF Present
    <2> QED BY <2>1, <2>5
  <1> QED BY <1>2, <1>3

\* What a process had in hand is as it was.
Rests(q) == Stays(q) /\ marks'[q] = marks[q]
HandsOK(q) == Handled(q) /\ Backed(q)

\* The step is another's: what q has in hand still holds.
LEMMA OtherHands ==
  ASSUME IInv, PInv, SeatsMove, NEW q \in Procs, Rests(q), HandsOK(q),
         DOMAIN rows' = DOMAIN rows, refused \subseteq refused'
  PROVE  HandsOK(q)'
  <1>0. job'[q] = job[q] /\ dirty'[q] = dirty[q] /\ marks'[q] = marks[q] BY DEF Rests, Stays
  <1>1. Handled(q)' BY <1>0 DEF HandsOK, Handled, Final
  <1>2. CASE job[q].pc \notin InMatch
    <2>1. Backed(q)' BY <1>0, <1>2 DEF Backed, InMatch
    <2> QED BY <1>1, <2>1 DEF HandsOK
  <1>3. CASE job[q].pc \in InMatch
    <2>1. PICK m \in DOMAIN rows : m = job[q].match BY <1>3, JobIs DEF JobOK
    <2>2. m = job'[q].match BY <1>0, <2>1
    <2>3. Present(Seen(q, m)) \subseteq Present(Seen(q, m)') \cup refused BY <1>0, StillThere
    <2>4. job[q].pc = "write" => Present(Seen(q, m)') \subseteq Present(Seen(q, m)) BY <1>0, <2>1, NobodyComes
    <2>5. Present(Seen(q, m))' = Present(Seen(q, m)') BY DEF Present
    <2>6. Backed(q)' BY <1>0, <2>1, <2>2, <2>3, <2>4, <2>5 DEF HandsOK, Backed
    <2> QED BY <1>1, <2>6 DEF HandsOK
  <1> QED BY <1>2, <1>3

\* What the tick has listed is as it was, but for those it has done.
LEMMA ListStays ==
  ASSUME IInv, SeatsMove, ListBacked, list' \subseteq list, refused \subseteq refused' PROVE ListBacked'
  <1>1. ASSUME NEW x \in list', NEW e \in Present(x.row), e \notin refused' PROVE e \in Present(rows'[x.match])
    <2>1. x \in list /\ x.match \in DOMAIN rows BY DEF IInv, ListTyped
    <2>2. e \in Present(rows[x.match]) /\ e \notin refused BY <1>1, <2>1 DEF ListBacked
    <2>3. PICK i \in Sides : rows[x.match].seat[i] = e /\ e # NoOne BY <2>2 DEF Present
    <2>4. rows'[x.match].seat[i] = e BY <2>1, <2>2, <2>3 DEF SeatsMove
    <2> QED BY <2>3, <2>4 DEF Present
  <1> QED BY <1>1 DEF ListBacked

\* The matches are the same.
LEMMA TreeStays == ASSUME IInv, IInv', Tree, DOMAIN rows' = DOMAIN rows PROVE Tree'
  <1>1. rows' # <<>> => rows # <<>> BY DEF IInv, RowsTyped, IsFcn
  <1> QED BY <1>1 DEF Tree

\* The step is p's.
LEMMA HandsStep ==
  ASSUME IInv, IInv', PInv, SeatsMove, CInv, NEW p \in Procs, \A q \in Others(p) : Rests(q),
         DOMAIN rows' = DOMAIN rows, refused \subseteq refused', ListBacked', HandsOK(p)', Standing'
  PROVE  CInv'
  <1>1. \A q \in Others(p) : HandsOK(q)' BY OtherHands DEF Others, CInv, HandsOK
  <1>2. \A q \in Procs : HandsOK(q)' BY <1>1 DEF Others
  <1>3. Tree' BY TreeStays DEF CInv
  <1> QED BY <1>2, <1>3 DEF CInv, HandsOK

\* Nobody wins and nobody loses: a player is where he was, or he is put out.
LEMMA StandSame ==
  ASSUME IInv, IInv', Standing, DOMAIN rows' = DOMAIN rows, \A m \in DOMAIN rows : rows'[m].winner = rows[m].winner,
         entrants' = entrants, refused \subseteq refused',
         \A e \in Players : fate'[e] = fate[e] \/ (fate'[e] = "eliminated" /\ e \in refused'),
         crashes' = 0 => crashes = 0,
         \A e \in Range(entrants) : crashes' = 0 /\ (OpenFor(e) # {} \/ Leaving(e)) =>
                                      OpenFor(e)' # {} \/ Leaving(e)'
  PROVE  Standing'
  <1> SUFFICES ASSUME rows' # <<>>, NEW e \in Range(entrants)
               PROVE  /\ fate'[e] \in {"active", "eliminated", "winner"}
                      /\ fate'[e] = "winner" => Champion(e)'
                      /\ Champion(e)' /\ e \notin refused' => fate'[e] = "winner"
                      /\ crashes' = 0 => OpenFor(e)' # {} \/ Leaving(e)'
    BY DEF Standing
  <1>1. rows # <<>> BY DEF IInv, RowsTyped, IsFcn
  <1>2. e \in Players BY DEF IInv, Registered, Range
  <1>3. Champion(e)' = Champion(e) BY DEF Champion, Final
  <1>4. /\ fate[e] \in {"active", "eliminated", "winner"}
        /\ fate[e] = "winner" => Champion(e)
        /\ Champion(e) /\ e \notin refused => fate[e] = "winner"
        /\ crashes = 0 => OpenFor(e) # {} \/ Leaving(e)
    BY <1>1 DEF Standing
  <1>5. fate'[e] = fate[e] \/ (fate'[e] = "eliminated" /\ e \in refused') BY <1>2
  <1>6. crashes' = 0 => OpenFor(e)' # {} \/ Leaving(e)' BY <1>4
  <1> QED BY <1>3, <1>4, <1>5, <1>6

\* The bracket is as it was, and who is being put out still is.
LEMMA StandStill ==
  ASSUME IInv, IInv', Standing, DOMAIN rows' = DOMAIN rows,
         \A m \in DOMAIN rows : /\ rows'[m].winner = rows[m].winner /\ rows'[m].seat = rows[m].seat
                                /\ rows'[m].resolved = rows[m].resolved,
         entrants' = entrants, refused \subseteq refused', fate' = fate, crashes' = crashes,
         \A q \in Procs : job[q].pc = "oust" => job'[q].pc = "oust" /\ job'[q].entry = job[q].entry
  PROVE  Standing'
  <1>1. ASSUME NEW e \in Range(entrants), OpenFor(e) # {} \/ Leaving(e)
        PROVE  OpenFor(e)' # {} \/ Leaving(e)'
    <2>1. OpenFor(e)' = OpenFor(e) BY DEF OpenFor, Present
    <2>2. Leaving(e) => Leaving(e)' BY DEF Leaving
    <2> QED BY <1>1, <2>1, <2>2
  <1> QED BY <1>1, StandSame

\* A transaction commits: who sat in what it decided is out, or has won the final, or
\* sits in the match it leaves open.
LEMMA CommitStanding ==
  ASSUME IInv, PInv, Tree, Standing, NEW p \in Procs, NEW W, NEW mk, Commit(p, W, mk), locks[p] # {},
         UNCHANGED <<entrants, refused, crashes>>, DOMAIN W \subseteq DOMAIN rows,
         \A m \in DOMAIN W : RowOK(W[m]) /\ W[m].seat = Seen(p, m).seat,
         \A m \in DOMAIN W : W[m].resolved => \A e \in Present(W[m]) :
           e \in DOMAIN mk \/ \E k \in DOMAIN W : ~W[k].resolved /\ e \in Present(W[k]),
         \A e \in DOMAIN mk : \/ mk[e] = "eliminated"
                              \/ mk[e] = "winner" /\ \E f \in DOMAIN W : Final(f) /\ W[f].winner = e,
         \A f \in DOMAIN W : Final(f) /\ W[f].resolved /\ W[f].winner \notin refused \cup {NoOne} =>
           W[f].winner \in DOMAIN mk /\ mk[W[f].winner] = "winner"
  PROVE  Standing'
  <1>1. /\ DOMAIN rows' = DOMAIN rows /\ \A m \in DOMAIN W : rows'[m] = W[m]
        /\ \A m \in DOMAIN rows : m \notin DOMAIN W => rows'[m] = rows[m]
        /\ \A e \in DOMAIN mk : fate'[e] = mk[e]
        /\ \A e \in Players : e \notin DOMAIN mk => fate'[e] = fate[e]
    BY DEF Commit, Over, IInv, FateTyped
  <1> SUFFICES ASSUME rows' # <<>>, NEW e \in Range(entrants)
               PROVE  /\ fate'[e] \in {"active", "eliminated", "winner"}
                      /\ fate'[e] = "winner" => Champion(e)'
                      /\ Champion(e)' /\ e \notin refused' => fate'[e] = "winner"
                      /\ crashes' = 0 => OpenFor(e)' # {} \/ Leaving(e)'
    BY DEF Standing
  <1>2. e \in Players /\ e # NoOne BY NoneIsNobody DEF IInv, Registered, Range
  <1>3. rows # <<>>
    <2>1. PICK k \in locks[p] : TRUE OBVIOUS
    <2>2. k \in DOMAIN rows BY <2>1, JobIs DEF Tx
    <2> QED BY <2>2
  <1>4. ~Champion(e) BY <1>2, ChampionDecides
  <1>5. /\ fate[e] \in {"active", "eliminated", "winner"}
        /\ fate[e] # "winner"
        /\ crashes = 0 => OpenFor(e) # {} \/ Leaving(e)
    BY <1>3, <1>4 DEF Standing
  <1>6. fate'[e] \in {"active", "eliminated", "winner"} BY <1>1, <1>2, <1>5
  <1>7. ASSUME fate'[e] = "winner" PROVE Champion(e)'
    <2>1. e \in DOMAIN mk /\ mk[e] = "winner" BY <1>1, <1>2, <1>5, <1>7
    <2>2. PICK f \in DOMAIN W : Final(f) /\ W[f].winner = e BY <2>1
    <2>3. f \in DOMAIN rows' /\ rows'[f].winner = e /\ Final(f)' BY <1>1, <2>2 DEF Final
    <2> QED BY <2>3 DEF Champion
  <1>8. ASSUME Champion(e)', e \notin refused PROVE fate'[e] = "winner"
    <2>1. PICK f \in DOMAIN rows : Final(f)' /\ rows'[f].winner = e BY <1>1, <1>8 DEF Champion
    <2>2. Final(f) BY <1>1, <2>1 DEF Final
    <2>3. f \in DOMAIN W BY <1>1, <1>4, <2>1, <2>2 DEF Champion
    <2>4. W[f].winner = e /\ W[f].resolved BY <1>1, <1>2, <2>1, <2>3 DEF RowOK
    <2> QED BY <1>1, <1>2, <1>8, <2>2, <2>3, <2>4
  <1>9. ASSUME crashes = 0 PROVE OpenFor(e)' # {} \/ Leaving(e)'
    <2>1. CASE fate'[e] # "active" BY <2>1 DEF Leaving
    <2>2. CASE fate'[e] = "active"
      <3>1. e \notin DOMAIN mk /\ fate[e] = "active" BY <1>1, <1>2, <2>2
      <3>2. CASE \E q \in Procs : job[q].pc = "oust" /\ job[q].entry = e
        <4>1. PICK q \in Procs : job[q].pc = "oust" /\ job[q].entry = e BY <3>2
        <4>2. q # p BY <4>1, JobIs DEF Tx, Outside
        <4>3. job'[q] = job[q] BY <4>2 DEF Commit, IInv, JobsTyped
        <4> QED BY <4>1, <4>3 DEF Leaving
      <3>3. CASE OpenFor(e) # {}
        <4>1. PICK m \in DOMAIN rows : ~rows[m].resolved /\ e \in Present(rows[m]) BY <3>3 DEF OpenFor
        <4>2. ASSUME NEW k \in DOMAIN rows, ~rows'[k].resolved, e \in Present(rows'[k]) PROVE OpenFor(e)' # {}
          <5>1. k \in OpenFor(e)' BY <1>1, <4>2 DEF OpenFor, Present
          <5> QED BY <5>1
        <4>3. CASE m \notin DOMAIN W BY <1>1, <4>1, <4>2, <4>3
        <4>4. CASE m \in DOMAIN W
          <5>1. PICK i \in Sides : rows[m].seat[i] = e BY <4>1 DEF Present
          <5>2. W[m].seat[i] = e BY <1>2, <4>4, <5>1, OwnSeats
          <5>3. e \in Present(W[m]) BY <1>2, <5>2 DEF Present
          <5>4. CASE ~W[m].resolved BY <1>1, <4>2, <4>4, <5>3, <5>4
          <5>5. CASE W[m].resolved
            <6>1. PICK k \in DOMAIN W : ~W[k].resolved /\ e \in Present(W[k]) BY <3>1, <4>4, <5>3, <5>5
            <6>2. k \in DOMAIN rows /\ rows'[k] = W[k] BY <1>1, <6>1
            <6> QED BY <4>2, <6>1, <6>2
          <5> QED BY <5>4, <5>5
        <4> QED BY <4>3, <4>4
      <3> QED BY <1>5, <1>9, <3>1, <3>2, <3>3 DEF Leaving
    <2> QED BY <2>1, <2>2
  <1> QED BY <1>6, <1>7, <1>8, <1>9

\* Who is at no match needs nothing behind him.
LEMMA BackedIdle == ASSUME NEW p, job'[p].pc \notin {"oust", "bye", "lock", "write"} PROVE Backed(p)'
  BY DEF Backed

\* What is behind a process, at the match it has come to.
LEMMA BackedAt ==
  ASSUME NEW p, NEW m, m = job'[p].match,
         job'[p].pc \in {"oust", "bye"} => Present(job'[p].row) \subseteq Present(Seen(p, m)') \cup refused',
         job'[p].pc = "lock" => job'[p].verdict \in Present(Seen(p, m)') \cup refused' \cup {NoOne},
         job'[p].pc = "write" => /\ job'[p].verdict \in Present(job'[p].row) \cup refused' \cup {NoOne}
                                 /\ Present(Seen(p, m)') \subseteq Present(job'[p].row)
  PROVE  Backed(p)'
  <1>1. Present(Seen(p, m))' = Present(Seen(p, m)') BY DEF Present
  <1> QED BY <1>1 DEF Backed

\* What a transaction has written it still has, and it is not seating anybody.
LEMMA HandledStill ==
  ASSUME NEW p, Handled(p), dirty'[p] = dirty[p], marks'[p] = marks[p], DOMAIN rows' = DOMAIN rows, job[p].pc # "seat"
  PROVE  Handled(p)'
  BY DEF Handled, Final

\* p moves, and the bracket is as it was.
LEMMA HandsMove ==
  ASSUME IInv, IInv', PInv, SeatsMove, CInv, NEW p \in Procs, \A q \in Others(p) : Rests(q),
         rows' = rows, UNCHANGED <<entrants, fate, crashes>>, list' \subseteq list, refused \subseteq refused',
         job[p].pc # "oust", Handled(p)', Backed(p)'
  PROVE  CInv'
  <1>1. \A q \in Procs : job[q].pc = "oust" => job'[q].pc = "oust" /\ job'[q].entry = job[q].entry
    BY DEF Others, Rests, Stays
  <1>2. Standing' BY <1>1, StandStill DEF CInv
  <1>3. ListBacked' BY ListStays DEF CInv
  <1> QED BY <1>2, <1>3, HandsStep DEF HandsOK

\* p moves, and has written nothing more.
LEMMA HandsFree ==
  ASSUME IInv, IInv', PInv, SeatsMove, CInv, NEW p \in Procs, \A q \in Others(p) : job'[q] = job[q],
         UNCHANGED <<rows, entrants, fate, crashes, transaction>>, list' \subseteq list, refused \subseteq refused',
         job[p].pc \notin {"oust", "seat"}, Backed(p)'
  PROVE  CInv'
  <1>1. \A q \in Others(p) : Rests(q) BY DEF Rests, Stays, transaction
  <1>2. Handled(p)' BY HandledStill DEF CInv, transaction
  <1> QED BY <1>1, <1>2, HandsMove

\* Action by action: a verdict comes in for a player of its match.
LEMMA ReportHands ==
  ASSUME IInv, IInv', PInv, SeatsMove, CInv, NEW p \in Procs, NEW m \in DOMAIN rows, NEW w \in Someone, Report(p, m, w)
  PROVE  CInv'
  <1>1. /\ job[p].pc = "idle" /\ w \in Present(rows[m]) \cup {NoOne} /\ Resolve(p, m, w, FALSE, NoOne)
        /\ UNCHANGED <<rows, entrants, fate, crashes, transaction, list, refused>>
    BY DEF Report, database, history
  <1>2. /\ job'[p].pc = "lock" /\ job'[p].match = m /\ job'[p].verdict = w /\ \A q \in Others(p) : job'[q] = job[q]
    BY <1>1 DEF Resolve, IInv, JobsTyped, Others
  <1>3. locks[p] = {} BY <1>1, JobIs DEF Tx, Outside
  <1>4. Seen(p, m)' = rows[m] BY <1>1, <1>3, FreeView DEF Seen, transaction
  <1>5. Backed(p)' BY <1>1, <1>2, <1>4, BackedAt
  <1> QED BY <1>1, <1>2, <1>5, HandsFree

\* The match is read.
LEMMA LockHands == ASSUME IInv, IInv', PInv, SeatsMove, CInv, NEW p \in Procs, Lock(p) PROVE CInv'
  <1>0. /\ job[p].pc = "lock" /\ UNCHANGED <<entrants, crashes, list, refused>> /\ Chain(p)
    BY DEF Lock, history, PInv, Orderly
  <1>1. PICK m \in DOMAIN rows : m = job[p].match BY <1>0, JobIs DEF JobOK, InMatch
  <1>2. CASE StillOpen(Seen(p, m))
    <2>1. /\ job' = [job EXCEPT ![p].pc = "write", ![p].row = Seen(p, m)]
          /\ locks' = [locks EXCEPT ![p] = @ \cup {m}] /\ UNCHANGED <<rows, fate, dirty, marks>>
      BY <1>1, <1>2 DEF Lock
    <2>2. /\ job'[p].pc = "write" /\ job'[p].match = m /\ job'[p].row = Seen(p, m)
          /\ job'[p].verdict = job[p].verdict /\ \A q \in Others(p) : Rests(q)
      BY <1>1, <2>1, JobIs DEF IInv, JobsTyped, IsFcn, TxTyped, Others, Job, Rests, Stays
    <2>3. job[p].verdict \in Present(Seen(p, m)) \cup refused \cup {NoOne} BY <1>0, <1>1 DEF CInv, Backed
    <2>4. Seen(p, m)' = Seen(p, m) BY <2>1 DEF Seen
    <2>5. Backed(p)' BY <1>0, <2>2, <2>3, <2>4, BackedAt
    <2>6. Handled(p)' BY <1>0, <2>1, HandledStill DEF CInv
    <2> QED BY <1>0, <2>1, <2>2, <2>5, <2>6, HandsMove
  <1>3. CASE ~StillOpen(Seen(p, m))
    <2>1. locks[p] = {} BY <1>0, <1>1, <1>3 DEF StillOpen, Chain, Seen
    <2>2. /\ job' = [job EXCEPT ![p] = [Idle EXCEPT !.entry = job[p].entry,
                       !.pc = IF job[p].entry = NoOne THEN "idle" ELSE "forfeit"]]
          /\ UNCHANGED <<rows, fate, transaction>>
      BY <1>1, <1>3, <2>1 DEF Lock, InTransaction
    <2>3. job'[p].pc \in {"idle", "forfeit"} /\ \A q \in Others(p) : job'[q] = job[q]
      BY <2>2 DEF IInv, JobsTyped, Others, Idle
    <2>4. Backed(p)' BY <2>3, BackedIdle
    <2> QED BY <1>0, <2>2, <2>3, <2>4, HandsFree
  <1> QED BY <1>2, <1>3

\* A commit leaves p with nothing.
LEMMA CommitHands ==
  ASSUME IInv, IInv', PInv, SeatsMove, CInv, NEW p \in Procs, NEW W, NEW mk, Commit(p, W, mk),
         DOMAIN W \subseteq DOMAIN rows, UNCHANGED <<list, refused>>, Standing'
  PROVE  CInv'
  <1>1. /\ job'[p].pc \in {"idle", "finish"} /\ DOMAIN dirty'[p] = {} /\ DOMAIN marks'[p] = {}
        /\ DOMAIN rows' = DOMAIN rows /\ \A q \in Others(p) : Rests(q)
    <2>1. /\ job' = [job EXCEPT ![p] = [Idle EXCEPT !.pc = IF Decided' THEN "finish" ELSE "idle"]]
          /\ locks' = [locks EXCEPT ![p] = {}] /\ dirty' = [dirty EXCEPT ![p] = <<>>]
          /\ marks' = [marks EXCEPT ![p] = <<>>] /\ DOMAIN rows' = DOMAIN rows
      BY DEF Commit, Gone, Over
    <2>2. job'[p].pc \in {"idle", "finish"} BY <2>1, IdleOK DEF IInv, JobsTyped
    <2>3. dirty'[p] = <<>> /\ marks'[p] = <<>> BY <2>1 DEF IInv, TxTyped
    <2>4. \A q \in Others(p) : Rests(q) BY <2>1 DEF IInv, JobsTyped, TxTyped, Others, Rests, Stays
    <2> QED BY <2>1, <2>2, <2>3, <2>4
  <1>2. Handled(p)' BY <1>1 DEF Handled
  <1>3. Backed(p)' BY <1>1, BackedIdle
  <1>4. ListBacked' BY ListStays DEF CInv
  <1> QED BY <1>1, <1>2, <1>3, <1>4, HandsStep DEF HandsOK

\* Who sits in a match that is being decided is named by the verdict, and its losers are out.
LEMMA Accounted ==
  ASSUME IInv, PInv, CInv, NEW p \in Procs, job[p].pc = "write", NEW m \in DOMAIN rows, m = job[p].match,
         NEW k \in DOMAIN dirty[p] \cup {m}, NEW e \in Present(Seen(p, k)), k = m \/ dirty[p][k].resolved
  PROVE  e \in Present(job[p].row) \/ e \in DOMAIN marks[p]
  <1>1. Present(Seen(p, m)) \subseteq Present(job[p].row) BY DEF CInv, Backed
  <1>2. CASE k = m BY <1>1, <1>2
  <1>3. CASE k # m
    <2>1. Seen(p, k) = dirty[p][k] BY <1>3 DEF Seen
    <2>2. \/ e \in DOMAIN marks[p]
          \/ \E j \in DOMAIN dirty[p] : ~dirty[p][j].resolved /\ e \in Present(dirty[p][j])
      BY <1>3, <2>1 DEF CInv, Handled
    <2>3. ASSUME NEW j \in DOMAIN dirty[p], ~dirty[p][j].resolved, e \in Present(dirty[p][j])
          PROVE  e \in Present(job[p].row)
      <3>1. j = m BY <2>3, WrittenOK
      <3>2. Seen(p, m) = dirty[p][j] BY <3>1 DEF Seen
      <3> QED BY <1>1, <2>3, <3>2
    <2> QED BY <2>2, <2>3
  <1> QED BY <1>2, <1>3

\* The final's winner is the winner, the losers of every match are out.
LEMMA WriteHands == ASSUME IInv, IInv', PInv, SeatsMove, CInv, NEW p \in Procs, Write(p) PROVE CInv'
  <1> DEFINE v == Written(p)
             mk == Over(EntriesOf(p), marks[p])
  <1>0. /\ job[p].pc = "write" /\ UNCHANGED <<entrants, crashes, list, refused>> /\ locks[p] # {}
    BY JobIs DEF Write, history, Tx
  <1>1. PICK m \in DOMAIN rows : m = job[p].match BY <1>0, JobIs DEF JobOK, InMatch
  <1>2. /\ v.resolved /\ v.seat = Seen(p, m).seat /\ v.winner = job[p].verdict
        /\ \A k \in DOMAIN dirty[p] : k # m => dirty[p][k].resolved
    BY <1>0, <1>1, WrittenOK
  <1>3. RowOK(v)
    <2>1. RowOK(Seen(p, m)) /\ job[p] \in Job BY SeenOK, JobIs
    <2>2. job[p].bye \in BOOLEAN /\ job[p].verdict \in Someone BY <2>1 DEF Job
    <2> QED BY <1>1, <1>2, <2>1, <2>2 DEF Written, RowOK, Row
  <1> DEFINE W == Put(dirty[p], m, v)
  <1>4. /\ DOMAIN W = DOMAIN dirty[p] \cup {m} /\ W[m] = v
        /\ \A k \in DOMAIN dirty[p] : k # m => W[k] = dirty[p][k] /\ Seen(p, k) = dirty[p][k]
    BY DEF Put, Seen
  <1>5. /\ DOMAIN mk = DOMAIN EntriesOf(p) \cup DOMAIN marks[p]
        /\ \A e \in DOMAIN EntriesOf(p) : mk[e] = EntriesOf(p)[e]
        /\ \A e \in DOMAIN marks[p] : e \notin DOMAIN EntriesOf(p) => mk[e] = "eliminated"
    BY DEF Over, CInv, Handled
  <1>6. /\ DOMAIN EntriesOf(p) = {x \in Present(job[p].row) : x # job[p].verdict \/ Final(m)}
        /\ \A e \in DOMAIN EntriesOf(p) : EntriesOf(p)[e] = IF e = job[p].verdict THEN "winner" ELSE "eliminated"
    BY <1>1 DEF EntriesOf
  <1>7. \A k \in DOMAIN W : W[k].seat = Seen(p, k).seat /\ W[k].resolved /\ Present(W[k]) = Present(Seen(p, k))
    BY <1>2, <1>4 DEF Present
  <1>8. \A k \in DOMAIN W : \A e \in Present(W[k]) : e \in Present(job[p].row) \/ e \in DOMAIN marks[p]
    BY <1>0, <1>1, <1>2, <1>4, <1>7, Accounted
  <1>9. DOMAIN W \subseteq DOMAIN rows BY <1>4, ViewFacts
  <1>10. CASE Final(m)
    <2>1. Commit(p, W, mk) BY <1>1, <1>10 DEF Write, Written
    <2>2. \A k \in DOMAIN W : RowOK(W[k])
      BY <1>3, <1>4, OwnWrites
    <2> HIDE DEF W, v, mk
    <2>3. \A k \in DOMAIN W : \A e \in Present(W[k]) : e \in DOMAIN mk
      BY <1>5, <1>6, <1>8, <1>10
    <2>4. \A e \in DOMAIN mk : \/ mk[e] = "eliminated"
                               \/ mk[e] = "winner" /\ \E f \in DOMAIN W : Final(f) /\ W[f].winner = e
      BY <1>2, <1>4, <1>5, <1>6, <1>10
    <2>5. ASSUME NEW f \in DOMAIN W, Final(f), W[f].winner \notin refused \cup {NoOne}
          PROVE  W[f].winner \in DOMAIN mk /\ mk[W[f].winner] = "winner"
      <3>1. f = m BY <1>2, <1>4, <2>5 DEF CInv, Handled
      <3>2. W[f].winner = job[p].verdict BY <1>2, <1>4, <3>1
      <3>3. job[p].verdict \in Present(job[p].row) BY <1>0, <2>5, <3>2 DEF CInv, Backed
      <3> QED BY <1>5, <1>6, <1>10, <3>2, <3>3
    <2>6. Standing' BY <1>0, <1>7, <1>9, <2>1, <2>2, <2>3, <2>4, <2>5, CommitStanding DEF CInv
    <2> QED BY <1>0, <1>9, <2>1, <2>6, CommitHands
  <1>11. CASE ~Final(m)
    <2>1. /\ job' = [job EXCEPT ![p].pc = "seat", ![p].row = EmptyRow]
          /\ dirty' = [dirty EXCEPT ![p] = W] /\ marks' = [marks EXCEPT ![p] = mk]
          /\ UNCHANGED <<rows, fate, locks>>
      BY <1>1, <1>11 DEF Write, Written
    <2> HIDE DEF W, v, mk
    <2>2. /\ job'[p].pc = "seat" /\ job'[p].verdict = job[p].verdict /\ \A q \in Others(p) : Rests(q)
          /\ dirty'[p] = W /\ marks'[p] = mk
      BY <2>1, JobIs DEF IInv, JobsTyped, IsFcn, TxTyped, Others, Job, Rests, Stays
    <2>3. \A e \in DOMAIN mk : mk[e] = "eliminated" BY <1>5, <1>6, <1>11
    <2>4. \A k \in DOMAIN W : ~Final(k)
      <3>1. \A k \in DOMAIN dirty[p] : dirty[p][k].resolved => ~Final(k) BY DEF CInv, Handled
      <3> QED BY <1>2, <1>4, <1>11, <3>1
    <2>5. \A k \in DOMAIN W : \A e \in Present(W[k]) : e \in DOMAIN mk \/ e = job[p].verdict
      BY <1>5, <1>6, <1>8
    <2>6. \A k : Final(k)' = Final(k) BY <2>1 DEF Final
    <2>7. Handled(p)' BY <2>2, <2>3, <2>4, <2>5, <2>6 DEF Handled
    <2>8. Backed(p)' BY <2>2, BackedIdle
    <2> QED BY <1>0, <2>1, <2>2, <2>7, <2>8, HandsMove
  <1> QED BY <1>10, <1>11

\* Who won sits in the next match.
LEMMA SeatHands == ASSUME IInv, IInv', PInv, SeatsMove, CInv, NEW p \in Procs, Seat(p) PROVE CInv'
  <1>0. /\ job[p].pc = "seat" /\ UNCHANGED <<entrants, crashes, list, refused>> /\ Chain(p)
    BY DEF Seat, history, PInv, Orderly
  <1>1. PICK m \in DOMAIN rows : m = job[p].match BY <1>0, JobIs DEF JobOK, InMatch
  <1>2. PICK u \in DOMAIN rows : u = Upper(m) BY <1>0, <1>1, JobIs DEF JobOK, Final
  <1> DEFINE row == [Seen(p, u) EXCEPT !.seat[Side(m)] = job[p].verdict]
             W == Put(dirty[p], u, row)
  <1>3. ~Seen(p, u).resolved BY <1>0, <1>1, <1>2 DEF Chain
  <1>4. /\ job' = [job EXCEPT ![p].pc = "bye", ![p].match = u, ![p].row = row]
        /\ dirty' = [dirty EXCEPT ![p] = W] /\ UNCHANGED <<rows, fate, locks, marks>>
    BY <1>1, <1>2, <1>3 DEF Seat, Answered
  <1>5. RowOK(Seen(p, u)) BY SeenOK
  <1>6. Side(m) \in Sides BY InMatches, Geometry
  <1>7. row \in Row /\ ~row.resolved /\ row.seat[Side(m)] = job[p].verdict
    BY <1>3, <1>5, <1>6, JobIs DEF RowOK, Row, Job
  <1>8. /\ DOMAIN W = DOMAIN dirty[p] \cup {u} /\ W[u] = row
        /\ \A k \in DOMAIN dirty[p] : k # u => W[k] = dirty[p][k]
    BY DEF Put
  <1> HIDE DEF row, W
  <1>9. /\ job'[p].pc = "bye" /\ job'[p].match = u /\ job'[p].row = row /\ dirty'[p] = W /\ marks'[p] = marks[p]
        /\ \A q \in Others(p) : Rests(q)
    BY <1>4, JobIs DEF IInv, JobsTyped, IsFcn, TxTyped, Others, Job, Rests, Stays
  <1>10. ASSUME NEW k \in DOMAIN W, W[k].resolved
         PROVE  ~Final(k) /\ \A e \in Present(W[k]) :
                  e \in DOMAIN marks[p] \/ \E j \in DOMAIN W : ~W[j].resolved /\ e \in Present(W[j])
    <2>1. k \in DOMAIN dirty[p] /\ W[k] = dirty[p][k] BY <1>7, <1>8, <1>10
    <2>2. ASSUME NEW j \in DOMAIN dirty[p] PROVE dirty[p][j].resolved BY <1>0 DEF Chain, Fresh
    <2>3. /\ ~Final(k)
          /\ \A e \in Present(W[k]) : e \in DOMAIN marks[p] \/ job[p].verdict = e
      BY <1>10, <2>1, <2>2 DEF CInv, Handled
    <2>4. ASSUME NEW e \in Present(W[k]), job[p].verdict = e PROVE e \in Present(row)
      BY <1>6, <1>7, <2>4 DEF Present
    <2> QED BY <1>7, <1>8, <2>3, <2>4
  <1>11. \A k : Final(k)' = Final(k) BY <1>4 DEF Final
  <1>12. \A e \in DOMAIN marks[p] : marks[p][e] = "eliminated" BY DEF CInv, Handled
  <1>13. Handled(p)' BY <1>9, <1>10, <1>11, <1>12 DEF Handled
  <1>14. Seen(p, u)' = row BY <1>8, <1>9 DEF Seen
  <1>15. Backed(p)' BY <1>9, <1>14, BackedAt
  <1> QED BY <1>0, <1>4, <1>9, <1>13, <1>15, HandsMove

\* A bye is for whoever sits there.
LEMMA ByeHands == ASSUME IInv, IInv', PInv, SeatsMove, CInv, NEW p \in Procs, Bye(p) PROVE CInv'
  <1> DEFINE row == job[p].row
             bye == BothSettled(p, job[p].match, row) /\ Cardinality(Present(row)) < 2
  <1>0. job[p].pc = "bye" /\ UNCHANGED <<entrants, crashes, list, refused>> BY DEF Bye, history
  <1>1. PICK m \in DOMAIN rows : m = job[p].match BY <1>0, JobIs DEF JobOK, InMatch
  <1>2. CASE ~bye /\ locks[p] # {}
    <2>1. Commit(p, dirty[p], marks[p]) BY <1>2 DEF Bye, InTransaction
    <2>2. DOMAIN dirty[p] \subseteq DOMAIN rows /\ \A k \in DOMAIN dirty[p] : RowOK(dirty[p][k]) BY OwnWrites
    <2>3. /\ \A e \in DOMAIN marks[p] : marks[p][e] = "eliminated"
          /\ \A k \in DOMAIN dirty[p] : dirty[p][k].resolved =>
               /\ ~Final(k)
               /\ \A e \in Present(dirty[p][k]) :
                    \/ e \in DOMAIN marks[p]
                    \/ \E j \in DOMAIN dirty[p] : ~dirty[p][j].resolved /\ e \in Present(dirty[p][j])
      BY <1>0 DEF CInv, Handled
    <2>4. \A k \in DOMAIN dirty[p] : dirty[p][k].seat = Seen(p, k).seat BY DEF Seen
    <2>5. Standing' BY <1>0, <1>2, <2>1, <2>2, <2>3, <2>4, CommitStanding DEF CInv
    <2> QED BY <1>0, <2>1, <2>2, <2>5, CommitHands
  <1>3. CASE bye
    <2>1. Resolve(p, m, Settles(row).winner, TRUE, job[p].entry) /\ UNCHANGED <<rows, fate, transaction>>
      BY <1>1, <1>3 DEF Bye
    <2>2. /\ job'[p].pc = "lock" /\ job'[p].match = m /\ job'[p].verdict = Settles(row).winner
          /\ \A q \in Others(p) : job'[q] = job[q]
      BY <2>1 DEF Resolve, IInv, JobsTyped, Others
    <2>3. row \in Row BY JobIs DEF Job
    <2>4. Settles(row).winner \in Present(row) \cup {NoOne} BY <2>3 DEF Settles, Row, Present, Sides
    <2>5. Present(row) \subseteq Present(Seen(p, m)) \cup refused BY <1>0, <1>1 DEF CInv, Backed
    <2>6. Seen(p, m)' = Seen(p, m) BY <2>1 DEF Seen, transaction
    <2>7. Backed(p)' BY <1>0, <2>2, <2>4, <2>5, <2>6, BackedAt
    <2> QED BY <1>0, <2>1, <2>2, <2>7, HandsFree
  <1>4. CASE ~bye /\ locks[p] = {}
    <2>1. Done(p) /\ UNCHANGED <<rows, fate, transaction>> BY <1>4 DEF Bye, InTransaction
    <2>2. job'[p].pc = "idle" /\ \A q \in Others(p) : job'[q] = job[q]
      BY <2>1, IdleOK DEF Done, IInv, JobsTyped, Others
    <2>3. Backed(p)' BY <2>2, BackedIdle
    <2> QED BY <1>0, <2>1, <2>2, <2>3, HandsFree
  <1> QED BY <1>2, <1>3, <1>4

\* The forfeit goes to whoever sits opposite.
LEMMA ForfeitHands == ASSUME IInv, IInv', PInv, SeatsMove, CInv, NEW p \in Procs, Forfeit(p) PROVE CInv'
  <1>0. /\ job[p].pc = "forfeit" /\ UNCHANGED <<rows, entrants, fate, crashes, transaction, list, refused>>
    BY DEF Forfeit, database, history
  <1>1. CASE OpenFor(job[p].entry) = {}
    <2>1. job'[p].pc = "idle" /\ \A q \in Others(p) : job'[q] = job[q]
      BY <1>1, IdleOK DEF Forfeit, Done, IInv, JobsTyped, Others
    <2> QED BY <1>0, <2>1, BackedIdle, HandsFree
  <1>2. CASE OpenFor(job[p].entry) # {}
    <2>1. PICK m \in OpenFor(job[p].entry) :
            \/ /\ Present(rows[m]) \subseteq {job[p].entry}
               /\ job' = [job EXCEPT ![p].pc = "unseat", ![p].match = m]
            \/ \E o \in Present(rows[m]) \ {job[p].entry} : Resolve(p, m, o, FALSE, job[p].entry)
      BY <1>2, ForfeitFinds
    <2>2. m \in DOMAIN rows BY OpenForOK
    <2>3. CASE job' = [job EXCEPT ![p].pc = "unseat", ![p].match = m]
      <3>1. job'[p].pc = "unseat" /\ \A q \in Others(p) : job'[q] = job[q]
        BY <2>3, JobIs DEF IInv, JobsTyped, IsFcn, Others, Job
      <3> QED BY <1>0, <3>1, BackedIdle, HandsFree
    <2>4. ASSUME NEW o \in Present(rows[m]), Resolve(p, m, o, FALSE, job[p].entry) PROVE CInv'
      <3>1. /\ job'[p].pc = "lock" /\ job'[p].match = m /\ job'[p].verdict = o
            /\ \A q \in Others(p) : job'[q] = job[q]
        BY <2>4 DEF Resolve, IInv, JobsTyped, Others
      <3>2. locks[p] = {} BY <1>0, JobIs DEF Tx, Outside
      <3>3. Seen(p, m)' = rows[m] BY <1>0, <2>2, <3>2, FreeView DEF Seen, transaction
      <3>4. Backed(p)' BY <3>1, <3>3, BackedAt
      <3> QED BY <1>0, <3>1, <3>4, HandsFree
    <2> QED BY <2>1, <2>3, <2>4
  <1> QED BY <1>1, <1>2

\* Who loses his seat is being put out.
LEMMA UnseatHands == ASSUME IInv, IInv', PInv, SeatsMove, CInv, NEW p \in Procs, Unseat(p) PROVE CInv'
  <1>0. /\ job[p].pc = "unseat" /\ UNCHANGED <<entrants, fate, crashes, transaction, list, refused>> /\ locks[p] = {}
    BY JobIs DEF Unseat, history, Tx, Outside
  <1>1. PICK m \in DOMAIN rows : m = job[p].match BY <1>0, JobIs DEF JobOK, InMatch
  <1> DEFINE e == job[p].entry
             side == CHOOSE i \in Sides : e = rows[m].seat[i]
             row == [rows[m] EXCEPT !.seat[side] = NoOne]
  <1>2. CASE rows[m].resolved \/ e \notin Present(rows[m])
    <2>1. /\ job'[p].pc = "forfeit" /\ \A q \in Others(p) : job'[q] = job[q]
          /\ rows' = rows
      BY <1>1, <1>2 DEF Unseat, IInv, JobsTyped, Others, Idle
    <2> QED BY <1>0, <2>1, BackedIdle, HandsFree
  <1>3. CASE ~(rows[m].resolved \/ e \notin Present(rows[m]))
    <2>1. rows' = [rows EXCEPT ![m] = row] /\ job' = [job EXCEPT ![p].pc = "oust", ![p].row = row]
      BY <1>1, <1>3 DEF Unseat
    <2>2. rows[m] \in Row BY DEF IInv, RowsTyped, RowOK
    <2>3. \E i \in Sides : e = rows[m].seat[i] BY <1>3 DEF Present
    <2>4. side \in Sides /\ e = rows[m].seat[side] BY <2>3
    <2> HIDE DEF side
    <2>5. /\ row.resolved = rows[m].resolved /\ row.winner = rows[m].winner
          /\ \A i \in Sides : i # side => row.seat[i] = rows[m].seat[i]
      BY <2>2, <2>4 DEF Row
    <2> HIDE DEF row
    <2>6. /\ job'[p].pc = "oust" /\ job'[p].match = m /\ job'[p].row = row /\ job'[p].entry = e
          /\ \A q \in Others(p) : job'[q] = job[q] /\ Rests(q)
      BY <1>0, <1>1, <2>1, JobIs DEF IInv, JobsTyped, IsFcn, Others, Job, Rests, Stays, transaction
    <2>7. /\ DOMAIN rows' = DOMAIN rows /\ rows'[m] = row
          /\ \A k \in DOMAIN rows : k # m => rows'[k] = rows[k]
      BY <2>1 DEF IInv, RowsTyped
    <2>8. \A k \in DOMAIN rows : rows'[k].winner = rows[k].winner BY <2>5, <2>7
    <2>9. ASSUME NEW x \in Range(entrants), OpenFor(x) # {} \/ Leaving(x)
          PROVE  OpenFor(x)' # {} \/ Leaving(x)'
      <3>1. CASE x = e BY <2>6, <3>1 DEF Leaving
      <3>2. CASE Leaving(x)
        <4>1. \A q \in Procs : job[q].pc = "oust" => job'[q] = job[q] BY <1>0, <2>6 DEF Others
        <4> QED BY <1>0, <3>2, <4>1 DEF Leaving
      <3>3. CASE x # e /\ OpenFor(x) # {}
        <4>1. PICK k \in DOMAIN rows : ~rows[k].resolved /\ x \in Present(rows[k]) BY <3>3 DEF OpenFor
        <4>2. PICK i \in Sides : rows[k].seat[i] = x /\ x # NoOne BY <4>1 DEF Present
        <4>3. ~rows'[k].resolved /\ rows'[k].seat[i] = x BY <2>4, <2>5, <2>7, <3>3, <4>1, <4>2
        <4>4. k \in OpenFor(x)' BY <2>7, <4>2, <4>3 DEF OpenFor, Present
        <4> QED BY <4>4
      <3> QED BY <2>9, <3>1, <3>2, <3>3
    <2>10. Standing' BY <1>0, <2>7, <2>8, <2>9, StandSame DEF CInv
    <2>11. Handled(p)' BY <1>0, <2>7, HandledStill DEF CInv, transaction
    <2>12. Seen(p, m)' = row BY <1>0, <2>7, FreeView DEF Seen, transaction
    <2>13. Backed(p)' BY <2>6, <2>12, BackedAt
    <2>14. ListBacked' BY <1>0, ListStays DEF CInv
    <2> QED BY <1>0, <2>6, <2>7, <2>10, <2>11, <2>13, <2>14, HandsStep DEF HandsOK
  <1> QED BY <1>2, <1>3

\* He is out.
LEMMA OustHands == ASSUME IInv, IInv', PInv, SeatsMove, CInv, NEW p \in Procs, Oust(p) PROVE CInv'
  <1> DEFINE e == job[p].entry
  <1>0. /\ job[p].pc = "oust" /\ UNCHANGED <<entrants, rows, crashes, transaction, list, refused>>
        /\ fate' = [fate EXCEPT ![e] = "eliminated"] /\ e \in refused
    BY JobIs DEF Oust, history, JobOK, Putting
  <1>1. PICK m \in DOMAIN rows : m = job[p].match BY <1>0, JobIs DEF JobOK, InMatch
  <1>2. /\ job'[p].pc = "bye" /\ job'[p].match = m /\ job'[p].row = job[p].row
        /\ \A q \in Others(p) : job'[q] = job[q] /\ Rests(q)
    BY <1>0, <1>1, JobIs DEF Oust, IInv, JobsTyped, IsFcn, Others, Job, Rests, Stays, transaction
  <1>3. fate'[e] = "eliminated" /\ \A x \in Players : x # e => fate'[x] = fate[x]
    BY <1>0 DEF IInv, FateTyped, Phases
  <1>4. ASSUME NEW x \in Range(entrants), OpenFor(x) # {} \/ Leaving(x)
        PROVE  OpenFor(x)' # {} \/ Leaving(x)'
    <2>1. OpenFor(x)' = OpenFor(x) BY <1>0 DEF OpenFor
    <2>2. CASE x = e BY <1>3, <2>2 DEF Leaving
    <2>3. CASE x # e
      <3>1. x \in Players BY DEF IInv, Registered, Range
      <3>2. Leaving(x) => Leaving(x)' BY <1>2, <1>3, <2>3, <3>1 DEF Leaving, Others
      <3> QED BY <1>4, <2>1, <3>2
    <2> QED BY <2>2, <2>3
  <1>5. \A x \in Players : fate'[x] = fate[x] \/ (fate'[x] = "eliminated" /\ x \in refused') BY <1>0, <1>3
  <1>6. Standing' BY <1>0, <1>4, <1>5, StandSame DEF CInv
  <1>7. Handled(p)' BY <1>0, HandledStill DEF CInv, transaction
  <1>8. Seen(p, m)' = Seen(p, m) BY <1>0 DEF Seen, transaction
  <1>9. Present(job[p].row) \subseteq Present(Seen(p, m)) \cup refused BY <1>0, <1>1 DEF CInv, Backed
  <1>10. Backed(p)' BY <1>0, <1>2, <1>8, <1>9, BackedAt
  <1>11. ListBacked' BY <1>0, ListStays DEF CInv
  <1> QED BY <1>0, <1>2, <1>6, <1>7, <1>10, <1>11, HandsStep DEF HandsOK

\* Before the draw there is nothing to hold.
LEMMA BareHands == ASSUME IInv', DOMAIN rows' = {} PROVE CInv'
  <1>1. rows' = <<>> BY DEF IInv, RowsTyped, IsFcn
  <1>2. list' = {} BY DEF IInv, ListTyped
  <1>3. ASSUME NEW p \in Procs PROVE HandsOK(p)'
    <2>1. JobOK(p)' /\ Tx(p)' BY DEF IInv, JobsTyped, TxTyped
    <2>2. job'[p].pc \notin InMatch BY <2>1 DEF JobOK
    <2>3. DOMAIN dirty'[p] = {} /\ DOMAIN marks'[p] = {} BY <2>1 DEF Tx
    <2>4. Backed(p)' BY <2>2, BackedIdle DEF InMatch
    <2> QED BY <2>3, <2>4 DEF HandsOK, Handled
  <1> QED BY <1>1, <1>2, <1>3 DEF CInv, HandsOK, Tree, Standing, ListBacked

\* A refusal touches nobody's match.
LEMMA HookRefusesHands ==
  ASSUME IInv, IInv', PInv, SeatsMove, CInv, NEW p \in Procs, NEW e \in Players, HookRefuses(p, e) PROVE CInv'
  <1>1. /\ job[p].pc = "idle" /\ refused \subseteq refused' /\ UNCHANGED <<rows, crashes, transaction, list>>
        /\ job' = IF Forfeits THEN [job EXCEPT ![p].pc = "forfeit", ![p].entry = e] ELSE job
    BY DEF HookRefuses
  <1>2. CASE tstate = "registration"
    <2>1. DOMAIN rows' = {} BY <1>1, <1>2 DEF IInv, Phases
    <2> QED BY <2>1, BareHands
  <1>3. CASE tstate # "registration"
    <2>1. UNCHANGED <<entrants, fate>> BY <1>3 DEF HookRefuses
    <2>2. job'[p].pc \in {"idle", "forfeit"} /\ \A q \in Others(p) : job'[q] = job[q]
      BY <1>1, JobIs DEF IInv, JobsTyped, IsFcn, Others, Job
    <2> QED BY <1>1, <2>1, <2>2, BackedIdle, HandsFree
  <1> QED BY <1>2, <1>3

\* Nothing moves but the clock, or the state of the tournament.
LEMMA RestHands ==
  ASSUME IInv, IInv', PInv, SeatsMove, CInv,
         UNCHANGED <<rows, entrants, fate, job, crashes, transaction, list, refused>>
  PROVE  CInv'
  <1>1. \A q \in Procs : Rests(q) BY DEF Rests, Stays, transaction
  <1>2. \A q \in Procs : HandsOK(q)' BY <1>1, OtherHands DEF CInv, HandsOK
  <1>3. Standing' BY StandStill DEF CInv
  <1>4. ListBacked' BY ListStays DEF CInv
  <1> QED BY <1>1, <1>2, <1>3, <1>4, ProcsFacts, HandsStep DEF Others

\* The tick lists the matches as they are.
LEMMA TickHands == ASSUME IInv, IInv', PInv, SeatsMove, CInv, Tick PROVE CInv'
  <1>1. job[Ticker].pc = "idle" /\ UNCHANGED <<rows, entrants, fate, crashes, transaction, refused>> /\ Ticker \in Procs
    BY ProcsFacts DEF Tick, database, history
  <1>2. CASE Decided \/ clock >= Ends
    <2>1. job'[Ticker].pc = "finish" /\ list' = list /\ \A q \in Others(Ticker) : job'[q] = job[q]
      BY <1>1, <1>2, JobIs DEF Tick, Goto, IInv, JobsTyped, IsFcn, Others, Job
    <2> QED BY <1>1, <2>1, BackedIdle, HandsFree
  <1>3. CASE ~(Decided \/ clock >= Ends)
    <2>1. /\ job' = job
          /\ list' = {[match |-> m, row |-> rows[m]] : m \in {k \in DOMAIN rows : Due(k) /\ ~rows[k].resolved}}
      BY <1>3 DEF Tick
    <2>2. \A x \in list' : x.row = rows[x.match] BY <2>1
    <2>3. ListBacked' BY <1>1, <2>2 DEF ListBacked
    <2>4. \A q \in Procs : Rests(q) BY <1>1, <2>1 DEF Rests, Stays, transaction
    <2>5. \A q \in Procs : HandsOK(q)' BY <1>1, <2>4, OtherHands DEF CInv, HandsOK
    <2>6. Standing' BY <1>1, <2>1, StandStill DEF CInv
    <2> QED BY <1>1, <2>3, <2>4, <2>5, <2>6, HandsStep DEF Others
  <1> QED BY <1>2, <1>3

\* The policy's verdict is for one who was there when the tick read the match.
LEMMA SweepHands == ASSUME IInv, IInv', PInv, SeatsMove, CInv, NEW x \in list, Sweep(x) PROVE CInv'
  <1>0. /\ x.match \in DOMAIN rows /\ x.row \in Row /\ job[Ticker].pc = "idle" /\ Ticker \in Procs
        /\ UNCHANGED <<entrants, fate, crashes, transaction, refused>> /\ list' \subseteq list /\ locks[Ticker] = {}
    BY ProcsFacts, JobIs DEF IInv, ListTyped, Sweep, history, Tx, Outside
  <1>1. CASE x.row.expired
    <2>1. PICK w \in Verdicts(x.row) : Resolve(Ticker, x.match, w, FALSE, NoOne) /\ rows' = rows BY <1>1 DEF Sweep
    <2>2. /\ job'[Ticker].pc = "lock" /\ job'[Ticker].match = x.match /\ job'[Ticker].verdict = w
          /\ \A q \in Others(Ticker) : job'[q] = job[q]
      BY <1>0, <2>1 DEF Resolve, IInv, JobsTyped, Others
    <2>3. w \in Present(x.row) \cup {NoOne} BY <1>0, <2>1 DEF Verdicts, Present, Sides, Row
    <2>4. Present(x.row) \subseteq Present(rows[x.match]) \cup refused BY DEF CInv, ListBacked
    <2>5. Seen(Ticker, x.match)' = rows[x.match] BY <1>0, <2>1, FreeView DEF Seen, transaction
    <2>6. Backed(Ticker)' BY <1>0, <2>2, <2>3, <2>4, <2>5, BackedAt
    <2> QED BY <1>0, <2>1, <2>2, <2>6, HandsFree
  <1>2. CASE ~x.row.expired
    <2> DEFINE row == [rows[x.match] EXCEPT !.expired = TRUE]
    <2>1. rows' = [rows EXCEPT ![x.match] = row] /\ job' = job BY <1>2 DEF Sweep
    <2>2. row.resolved = rows[x.match].resolved /\ row.seat = rows[x.match].seat /\ row.winner = rows[x.match].winner
      BY <1>0 DEF IInv, RowsTyped, RowOK, Row
    <2> HIDE DEF row
    <2>3. /\ DOMAIN rows' = DOMAIN rows
          /\ \A k \in DOMAIN rows : /\ rows'[k].winner = rows[k].winner /\ rows'[k].seat = rows[k].seat
                                    /\ rows'[k].resolved = rows[k].resolved
      BY <1>0, <2>1, <2>2
    <2>4. \A q \in Procs : Rests(q) BY <1>0, <2>1 DEF Rests, Stays, transaction
    <2>5. \A q \in Procs : HandsOK(q)' BY <1>0, <2>3, <2>4, OtherHands DEF CInv, HandsOK
    <2>6. Standing' BY <1>0, <2>1, <2>3, StandStill DEF CInv
    <2>7. ListBacked' BY <1>0, ListStays DEF CInv
    <2> QED BY <1>0, <2>3, <2>4, <2>5, <2>6, <2>7, HandsStep DEF Others
  <1> QED BY <1>1, <1>2

\* Who dies holds nothing.
LEMMA CrashHands == ASSUME IInv, IInv', PInv, SeatsMove, CInv, NEW p \in Procs, Crash(p) PROVE CInv'
  <1>1. /\ UNCHANGED <<rows, entrants, fate, refused>> /\ crashes' # 0 /\ list' \subseteq list
        /\ job' = [job EXCEPT ![p] = Idle]
        /\ locks' = [locks EXCEPT ![p] = {}] /\ dirty' = [dirty EXCEPT ![p] = <<>>]
        /\ marks' = [marks EXCEPT ![p] = <<>>]
    BY DEF Crash, database, Done, Gone, IInv, Phases
  <1>2. job'[p].pc = "idle" BY <1>1, IdleOK DEF IInv, JobsTyped
  <1>3. DOMAIN dirty'[p] = {} /\ DOMAIN marks'[p] = {}
    <2>1. dirty'[p] = <<>> /\ marks'[p] = <<>> BY <1>1 DEF IInv, TxTyped
    <2> QED BY <2>1
  <1>4. \A q \in Others(p) : Rests(q) BY <1>1 DEF IInv, JobsTyped, TxTyped, Others, Rests, Stays
  <1>5. HandsOK(p)' BY <1>2, <1>3, BackedIdle DEF HandsOK, Handled
  <1>6. Standing' BY <1>1, StandSame DEF CInv
  <1>7. ListBacked' BY <1>1, ListStays DEF CInv
  <1> QED BY <1>1, <1>4, <1>5, <1>6, <1>7, HandsStep

\* Everyone who is drawn is in play.
LEMMA DrawHands == ASSUME IInv, IInv', Draw PROVE CInv'
  <1>1. UNCHANGED <<job, transaction, list>> /\ DOMAIN rows = {}
    BY DEF Draw, IInv, Phases
  <1>2. CASE Len(entrants) < 2
    <2>1. DOMAIN rows' = {} BY <1>1, <1>2 DEF Draw
    <2> QED BY <2>1, BareHands
  <1>3. CASE ~(Len(entrants) < 2)
    <2>1. /\ rows' = Bracket /\ Enough /\ EntrantsOnce /\ entrants' = entrants
          /\ fate' = [e \in Players |-> IF e \in Range(entrants) THEN "active" ELSE fate[e]]
      BY <1>3, DrawIsEnough DEF Draw, IInv, Registered
    <2>2. /\ list' = {}
          /\ \A p \in Procs : job'[p].pc \notin InMatch /\ DOMAIN dirty'[p] = {} /\ DOMAIN marks'[p] = {}
      BY <1>1, NoBracket DEF transaction
    <2>3. \A p \in Procs : HandsOK(p)' BY <2>2, BackedIdle DEF HandsOK, Handled, InMatch
    <2>4. Depth \in 1..Rounds /\ DOMAIN Bracket = Drawing(Depth) BY <2>1, BracketTree
    <2>5. Tree' BY <2>1, <2>4 DEF Tree
    <2>6. ASSUME NEW e \in Range(entrants)
          PROVE  fate'[e] = "active" /\ OpenFor(e)' # {} /\ ~Champion(e)'
      <3>1. e \in Players /\ e # NoOne BY NoneIsNobody DEF IInv, Registered, Range
      <3>2. PICK m \in DOMAIN Bracket : ~Bracket[m].resolved /\ e \in Present(Bracket[m]) BY <2>1, Placed
      <3>3. m \in OpenFor(e)' BY <2>1, <3>2 DEF OpenFor, Present
      <3>4. ASSUME Champion(e)' PROVE FALSE
        <4>1. PICK f \in DOMAIN Bracket : Upper(f) \notin DOMAIN Bracket /\ Bracket[f].winner = e
          BY <2>1, <3>4 DEF Champion, Final
        <4>2. Bracket[f].resolved /\ DOMAIN Bracket \subseteq Matches
          BY <2>1, <3>1, <4>1, BracketOK DEF RowOK
        <4>3. Climbs(Bracket) BY <2>1, BracketInOrder DEF InOrder
        <4>4. Bracket[m].resolved BY <2>4, <3>2, <4>1, <4>2, <4>3, FinalIsLast
        <4> QED BY <3>2, <4>4
      <3> QED BY <2>1, <3>1, <3>3, <3>4
    <2>7. Standing' BY <1>1, <2>1, <2>6 DEF Standing
    <2>8. ListBacked' BY <2>2 DEF ListBacked
    <2> QED BY <2>3, <2>5, <2>7, <2>8 DEF CInv, HandsOK
  <1> QED BY <1>2, <1>3

\* Every step keeps account of everyone.
LEMMA CInvStep == ASSUME IInv, IInv', PInv, CInv, [Next]_vars PROVE CInv'
  <1>0. SeatsMove BY SeatsMoveStep
  <1>1. CASE Join \/ \E e \in Players : Leave(e)
    <2>1. DOMAIN rows' = {} BY <1>1 DEF Join, Leave, IInv, Phases
    <2> QED BY <2>1, BareHands
  <1>2. CASE Cancel \/ Reopen \/ Clock \/ UNCHANGED vars
    BY <1>0, <1>2, RestHands DEF Cancel, Reopen, Clock, vars, database, transaction, history
  <1>3. CASE \E p \in Workers : \/ \E e \in Players : HookRefuses(p, e)
                                \/ \E m \in DOMAIN rows, w \in Someone : Report(p, m, w)
    <2>1. PICK p \in Workers : \/ \E e \in Players : HookRefuses(p, e)
                               \/ \E m \in DOMAIN rows, w \in Someone : Report(p, m, w)
      BY <1>3
    <2>2. p \in Procs BY ProcsFacts
    <2>3. CASE \E e \in Players : HookRefuses(p, e) BY <1>0, <2>2, <2>3, HookRefusesHands
    <2>4. CASE \E m \in DOMAIN rows, w \in Someone : Report(p, m, w) BY <1>0, <2>2, <2>4, ReportHands
    <2> QED BY <2>1, <2>3, <2>4
  <1>4. CASE Draw BY <1>4, DrawHands
  <1>5. CASE Tick BY <1>0, <1>5, TickHands
  <1>6. CASE Sweeping BY <1>0, <1>6, SweepHands DEF Sweeping
  <1>7. ASSUME NEW p \in Procs, Finish(p) PROVE CInv'
    <2>1. /\ job[p].pc = "finish" /\ job'[p].pc = "idle" /\ \A q \in Others(p) : job'[q] = job[q]
          /\ UNCHANGED <<rows, entrants, fate, crashes, transaction, list, refused>>
      BY <1>7, IdleOK DEF Finish, Done, IInv, JobsTyped, Others
    <2> QED BY <1>0, <2>1, BackedIdle, HandsFree
  <1>8. CASE \E p \in Procs : Step(p) \/ Crash(p)
    <2>1. PICK p \in Procs : Step(p) \/ Crash(p) BY <1>8
    <2> QED BY <1>0, <2>1, <1>7, LockHands, WriteHands, SeatHands, ByeHands, ForfeitHands, UnseatHands, OustHands,
               CrashHands DEF Step
  <1> QED BY <1>1, <1>2, <1>3, <1>4, <1>5, <1>6, <1>8 DEF Next

\* Everyone is accounted for, always.
LEMMA CInvHolds == ASSUME Punctual PROVE Spec => []CInv
  <1>1. Init => CInv
    <2> SUFFICES ASSUME Init PROVE CInv OBVIOUS
    <2>1. rows = <<>> /\ list = {} /\ \A p \in Procs : job[p].pc = "idle" /\ DOMAIN dirty[p] = {} /\ DOMAIN marks[p] = {}
      BY DEF Init, Idle
    <2> QED BY <2>1 DEF CInv, Tree, Standing, ListBacked, Handled, Backed
  <1>2. IInv /\ IInv' /\ PInv /\ CInv /\ [Next]_vars => CInv' BY CInvStep
  <1> QED BY <1>1, <1>2, IInvHolds, PInvHolds, PTL DEF Spec

-----------------------------------------------------------------------------
\* The refused.

\* Only entrants sit in matches, are read there, and win them.
EnteredIn(p) ==
  /\ \A m \in DOMAIN dirty[p] : Present(dirty[p][m]) \subseteq Range(entrants)
  /\ job[p].pc \in {"lock", "write", "seat"} => job[p].verdict \in Range(entrants) \cup {NoOne}
  /\ job[p].pc \in {"oust", "bye"} => Present(job[p].row) \subseteq Range(entrants)
Entered ==
  /\ \A m \in DOMAIN rows : Present(rows[m]) \subseteq Range(entrants)
  /\ \A x \in list : Present(x.row) \subseteq Range(entrants)
  /\ \A p \in Procs : EnteredIn(p)

\* Who forfeits for e has him out, or marked as out in its transaction, or is still to
\* find his match, or decides it against him.
Forfeiting(p, e) ==
  \/ Leaving(e) \/ e \in DOMAIN marks[p]
  \/ job[p].pc \in Putting
  \/ job[p].pc = "lock" /\ locks[p] = {} /\ e # job[p].verdict /\ e \in Present(rows[job[p].match])
  \/ job[p].pc = "write" /\ e # job[p].verdict /\ e \in Present(job[p].row)

\* Everyone who was refused had come.  Before the draw he is no entrant any more; while
\* the tournament runs he is out of play, or the call that refused him forfeits for him.
Called ==
  /\ hooked \cup refused \subseteq {Arrivals[k] : k \in 1..came}
  /\ rows = <<>> => \A p \in Procs : job[p].entry = NoOne
  /\ cancels = 0 => /\ tstate # "cancelled"
                    /\ tstate = "registration" => refused \cap Range(entrants) = {}
                    /\ tstate = "running" /\ crashes = 0 => \A e \in refused \cap Range(entrants) :
                         Leaving(e) \/ \E p \in Procs : job[p].entry = e

\* Nobody is in play but entrants of a bracket.
InPlay == \A e \in Players : Leaving(e) \/ (rows # <<>> /\ e \in Range(entrants))
BInv == /\ Entered /\ Called
        /\ crashes = 0 => /\ InPlay
                         /\ \A p \in Procs, e \in Players : job[p].entry = e => Forfeiting(p, e)

\* Who is out of play stays out.
Leaves == crashes' = 0 => \A e \in Players : Leaving(e) => Leaving(e)'
\* The call for e goes on, or e is out of play.
Goes(p) == crashes' = 0 => \A e \in Players : /\ job'[p].entry = e => job[p].entry = e /\ Forfeiting(p, e)'
                                              /\ job[p].entry = e => job'[p].entry = e \/ Leaving(e)'

\* The step is another's.
LEMMA OtherGoes ==
  ASSUME IInv, BInv, SeatsMove, Leaves, NEW q \in Procs, Rests(q), crashes' = crashes, entrants' = entrants
  PROVE  Goes(q) /\ EnteredIn(q)'
  <1>0. job'[q] = job[q] /\ dirty'[q] = dirty[q] /\ marks'[q] = marks[q] /\ locks'[q] = locks[q]
    BY DEF Rests, Stays
  <1>1. EnteredIn(q)' BY <1>0 DEF EnteredIn, BInv, Entered
  <1>2. ASSUME NEW e \in Players, crashes' = 0, job[q].entry = e PROVE Forfeiting(q, e)'
    <2>1. Forfeiting(q, e) BY <1>2 DEF BInv
    <2>2. Leaving(e) => Leaving(e)' BY <1>2 DEF Leaves
    <2>3. CASE job[q].pc = "lock" /\ locks[q] = {} /\ e # job[q].verdict /\ e \in Present(rows[job[q].match])
      <3>1. PICK m \in DOMAIN rows : m = job[q].match BY <2>3, JobIs DEF JobOK, InMatch
      <3>2. PICK i \in Sides : rows[m].seat[i] = e /\ e # NoOne BY <2>3, <3>1 DEF Present
      <3>3. CASE rows'[m].seat[i] = e
        <4>1. e \in Present(rows'[m]) BY <3>2, <3>3 DEF Present
        <4> QED BY <1>0, <2>3, <3>1, <4>1 DEF Forfeiting
      <3>4. CASE \E k \in Procs : job'[k].pc = "oust" /\ job'[k].entry = e
        BY <3>4 DEF Forfeiting, Leaving
      <3> QED BY <3>2, <3>3, <3>4 DEF SeatsMove
    <2> QED BY <1>0, <2>1, <2>2, <2>3 DEF Forfeiting
  <1>3. Goes(q) BY <1>0, <1>2 DEF Goes
  <1> QED BY <1>1, <1>3

\* The step is p's: everyone's call goes on.
LEMMA GoesStep ==
  ASSUME IInv, BInv, SeatsMove, Leaves, rows # <<>>, rows' # <<>>, NEW p \in Procs, \A q \in Others(p) : Rests(q),
         UNCHANGED <<entrants, hooked, refused, came, cancels, crashes>>, tstate' \in {tstate, "finished"},
         \A m \in DOMAIN rows' : Present(rows'[m]) \subseteq Range(entrants),
         \A x \in list' : Present(x.row) \subseteq Range(entrants),
         EnteredIn(p)', Goes(p)
  PROVE  BInv'
  <1>1. \A q \in Procs : Goes(q) /\ EnteredIn(q)'
    <2>1. \A q \in Others(p) : Goes(q) /\ EnteredIn(q)' BY OtherGoes DEF Others
    <2> QED BY <2>1 DEF Others
  <1>2. Entered' BY <1>1 DEF Entered
  <1>3. \A e \in Players : crashes' = 0 /\ (Leaving(e) \/ \E q \in Procs : job[q].entry = e) =>
                             Leaving(e)' \/ \E q \in Procs : job'[q].entry = e
    BY <1>1 DEF Leaves, Goes
  <1>4. crashes' = 0 => \A q \in Procs, e \in Players : job'[q].entry = e => Forfeiting(q, e)' BY <1>1 DEF Goes
  <1>5. tstate # "registration" BY DEF IInv, Phases
  <1>6. refused \subseteq Players BY DEF IInv, Phases
  <1>7. Called' BY <1>3, <1>5, <1>6 DEF BInv, Called
  <1>8. crashes' = 0 => InPlay' BY DEF BInv, InPlay, Leaves
  <1> QED BY <1>2, <1>4, <1>7, <1>8 DEF BInv

\* Who is in play and is put out of it is out.
LEMMA LeavesIf ==
  ASSUME \A e \in Players : fate[e] # "active" => fate'[e] # "active",
         \A q \in Procs : job[q].pc = "oust" => \/ job'[q].pc = "oust" /\ job'[q].entry = job[q].entry
                                                \/ fate'[job[q].entry] # "active"
  PROVE  Leaves
  BY DEF Leaves, Leaving

\* What p's call for e has come to: it goes on, unless he is out by now.
LEMMA GoesIf ==
  ASSUME BInv, Leaves, NEW p \in Procs, crashes' = crashes, job'[p].entry \in {job[p].entry, NoOne},
         \A e \in Players : crashes = 0 /\ job[p].entry = e /\ Forfeiting(p, e) /\ ~Leaving(e) =>
           (job'[p].entry = e /\ Forfeiting(p, e)') \/ Leaving(e)'
  PROVE  Goes(p)
  <1>1. ASSUME crashes' = 0, NEW e \in Players, job[p].entry = e
        PROVE  (job'[p].entry = e /\ Forfeiting(p, e)') \/ Leaving(e)'
    <2>1. Forfeiting(p, e) BY <1>1 DEF BInv
    <2>2. Leaving(e) => Leaving(e)' BY <1>1 DEF Leaves
    <2> QED BY <1>1, <2>1, <2>2
  <1>2. \A e \in Players : Leaving(e)' => Forfeiting(p, e)' BY DEF Forfeiting
  <1>3. \A e \in Players : e # NoOne BY NoneIsNobody
  <1> QED BY <1>1, <1>2, <1>3 DEF Goes

\* Outside of a transaction, and on the way to no verdict, the call has done its work.
LEMMA WorkDone ==
  ASSUME IInv, NEW p \in Procs, locks[p] = {}, job[p].pc \notin Putting \cup {"lock", "write"}, NEW e, Forfeiting(p, e)
  PROVE  Leaving(e)
  BY JobIs DEF Forfeiting, Tx

\* What a transaction sees in a match is an entrant.
LEMMA SeenEntered ==
  ASSUME BInv, NEW p \in Procs, NEW m \in DOMAIN rows PROVE Present(Seen(p, m)) \subseteq Range(entrants)
  BY DEF BInv, Entered, EnteredIn, Seen

\* p moves, and the bracket is as it was.
LEMMA MoveGoes ==
  ASSUME IInv, IInv', BInv, SeatsMove, rows # <<>>, NEW p \in Procs, \A q \in Others(p) : Rests(q),
         UNCHANGED <<rows, fate, entrants, hooked, refused, came, cancels, crashes>>, tstate' \in {tstate, "finished"},
         list' \subseteq list, job[p].pc # "oust", EnteredIn(p)', job'[p].entry \in {job[p].entry, NoOne},
         \A e \in Players : crashes = 0 /\ job[p].entry = e /\ Forfeiting(p, e) /\ ~Leaving(e) =>
           job'[p].entry = e /\ Forfeiting(p, e)'
  PROVE  BInv'
  <1>1. Leaves
    <2>1. \A q \in Procs : job[q].pc = "oust" => job'[q] = job[q] BY DEF Others, Rests, Stays
    <2> QED BY <2>1, LeavesIf
  <1>2. Goes(p) BY <1>1, GoesIf
  <1>3. \A x \in list' : Present(x.row) \subseteq Range(entrants) BY DEF BInv, Entered
  <1>4. \A m \in DOMAIN rows' : Present(rows'[m]) \subseteq Range(entrants) BY DEF BInv, Entered
  <1> QED BY <1>1, <1>2, <1>3, <1>4, GoesStep

\* p moves, and has written nothing more.
LEMMA FreeGoes ==
  ASSUME IInv, IInv', BInv, SeatsMove, rows # <<>>, NEW p \in Procs, \A q \in Others(p) : job'[q] = job[q],
         UNCHANGED <<rows, fate, transaction, entrants, hooked, refused, came, cancels, crashes>>,
         tstate' \in {tstate, "finished"}, list' \subseteq list, job[p].pc # "oust",
         job'[p].pc \in {"lock", "write", "seat"} => job'[p].verdict \in Range(entrants) \cup {NoOne},
         job'[p].pc \in {"oust", "bye"} => Present(job'[p].row) \subseteq Range(entrants),
         job'[p].entry \in {job[p].entry, NoOne},
         \A e \in Players : crashes = 0 /\ job[p].entry = e /\ Forfeiting(p, e) /\ ~Leaving(e) =>
           job'[p].entry = e /\ Forfeiting(p, e)'
  PROVE  BInv'
  <1>1. \A q \in Others(p) : Rests(q) BY DEF Rests, Stays, transaction
  <1>2. EnteredIn(p)' BY DEF EnteredIn, BInv, Entered, transaction
  <1> QED BY <1>1, <1>2, MoveGoes

\* A transaction commits: whom it marked is out.
LEMMA CommitGoes ==
  ASSUME IInv, IInv', BInv, SeatsMove, rows # <<>>, NEW p \in Procs, NEW W, NEW mk, Commit(p, W, mk),
         UNCHANGED <<tstate, entrants, hooked, refused, came, cancels, crashes, list>>, job[p].pc # "oust",
         DOMAIN W \subseteq DOMAIN rows, \A m \in DOMAIN W : Present(W[m]) \subseteq Range(entrants),
         \A e \in DOMAIN mk : mk[e] # "active",
         \A e \in Players : job[p].entry = e /\ Forfeiting(p, e) /\ ~Leaving(e) => e \in DOMAIN mk
  PROVE  BInv'
  <1>1. /\ job' = [job EXCEPT ![p] = [Idle EXCEPT !.pc = IF Decided' THEN "finish" ELSE "idle"]]
        /\ locks' = [locks EXCEPT ![p] = {}] /\ dirty' = [dirty EXCEPT ![p] = <<>>]
        /\ marks' = [marks EXCEPT ![p] = <<>>] /\ rows' = Over(W, rows) /\ fate' = Over(mk, fate)
    BY DEF Commit, Gone
  <1>2. job'[p].pc \in {"idle", "finish"} /\ job'[p].entry = NoOne BY <1>1, IdleOK DEF IInv, JobsTyped
  <1>3. dirty'[p] = <<>> BY <1>1 DEF IInv, TxTyped
  <1>4. \A q \in Others(p) : Rests(q) BY <1>1 DEF IInv, JobsTyped, TxTyped, Others, Rests, Stays
  <1>5. EnteredIn(p)' BY <1>2, <1>3 DEF EnteredIn
  <1>6. /\ DOMAIN rows' = DOMAIN rows /\ \A m \in DOMAIN W : rows'[m] = W[m]
        /\ \A m \in DOMAIN rows : m \notin DOMAIN W => rows'[m] = rows[m]
        /\ \A e \in DOMAIN mk : fate'[e] = mk[e]
        /\ \A e \in Players : e \notin DOMAIN mk => fate'[e] = fate[e]
    BY <1>1 DEF Over, IInv, FateTyped
  <1>7. \A m \in DOMAIN rows' : Present(rows'[m]) \subseteq Range(entrants) BY <1>6 DEF BInv, Entered
  <1>8. \A x \in list' : Present(x.row) \subseteq Range(entrants) BY DEF BInv, Entered
  <1>9. rows' # <<>> BY <1>6 DEF IInv, RowsTyped, IsFcn
  <1>10. Leaves
    <2>1. \A q \in Procs : job[q].pc = "oust" => job'[q] = job[q] BY <1>4 DEF Others, Rests, Stays
    <2>2. \A e \in Players : fate[e] # "active" => fate'[e] # "active" BY <1>6
    <2> QED BY <2>1, <2>2, LeavesIf
  <1>11. \A e \in DOMAIN mk : Leaving(e)' BY <1>6 DEF Leaving
  <1>12. Goes(p) BY <1>2, <1>10, <1>11, GoesIf
  <1> QED BY <1>4, <1>5, <1>7, <1>8, <1>9, <1>10, <1>12, GoesStep

\* Action by action.  A report comes from a process that forfeits for nobody.
LEMMA ReportGoes ==
  ASSUME IInv, IInv', BInv, SeatsMove, NEW p \in Procs, NEW m \in DOMAIN rows, NEW w \in Someone, Report(p, m, w)
  PROVE  BInv'
  <1>1. /\ job[p].pc = "idle" /\ w \in Present(rows[m]) \cup {NoOne} /\ Resolve(p, m, w, FALSE, NoOne)
        /\ UNCHANGED <<rows, fate, transaction, entrants, hooked, refused, came, cancels, crashes, tstate, list>>
    BY DEF Report, database, history
  <1>2. /\ job'[p].pc = "lock" /\ job'[p].verdict = w /\ job'[p].entry = NoOne /\ \A q \in Others(p) : job'[q] = job[q]
    BY <1>1 DEF Resolve, IInv, JobsTyped, Others
  <1>3. locks[p] = {} BY <1>1, JobIs DEF Tx, Outside
  <1>4. \A e \in Players : Forfeiting(p, e) => Leaving(e) BY <1>1, <1>3, WorkDone DEF Putting
  <1>5. w \in Range(entrants) \cup {NoOne} BY <1>1 DEF BInv, Entered
  <1>6. rows # <<>> OBVIOUS
  <1> QED BY <1>1, <1>2, <1>4, <1>5, <1>6, FreeGoes

\* The match is read for which he has lost.
LEMMA LockGoes == ASSUME IInv, IInv', PInv, BInv, SeatsMove, NEW p \in Procs, Lock(p) PROVE BInv'
  <1>0. /\ job[p].pc = "lock" /\ Chain(p)
        /\ UNCHANGED <<entrants, hooked, refused, came, cancels, crashes, tstate, list>>
    BY DEF Lock, history, PInv, Orderly
  <1>1. PICK m \in DOMAIN rows : m = job[p].match BY <1>0, JobIs DEF JobOK, InMatch
  <1>2. job[p].verdict \in Range(entrants) \cup {NoOne} /\ rows # <<>> BY <1>0, <1>1 DEF BInv, Entered, EnteredIn
  <1>3. CASE StillOpen(Seen(p, m))
    <2>1. /\ job' = [job EXCEPT ![p].pc = "write", ![p].row = Seen(p, m)]
          /\ locks' = [locks EXCEPT ![p] = @ \cup {m}] /\ UNCHANGED <<rows, fate, dirty, marks>>
      BY <1>1, <1>3 DEF Lock
    <2>2. /\ job'[p].pc = "write" /\ job'[p].row = Seen(p, m) /\ job'[p].entry = job[p].entry
          /\ job'[p].verdict = job[p].verdict /\ \A q \in Others(p) : Rests(q)
      BY <1>1, <2>1, JobIs DEF IInv, JobsTyped, IsFcn, TxTyped, Others, Job, Rests, Stays
    <2>3. EnteredIn(p)' BY <1>0, <1>2, <2>1, <2>2 DEF EnteredIn, BInv, Entered
    <2>4. ASSUME NEW e \in Players, Forfeiting(p, e), ~Leaving(e) PROVE Forfeiting(p, e)'
      <3>1. CASE e \in DOMAIN marks[p] BY <2>1, <3>1 DEF Forfeiting
      <3>2. CASE locks[p] = {} /\ e # job[p].verdict /\ e \in Present(rows[m])
        <4>1. Seen(p, m) = rows[m] BY <3>2, FreeView
        <4> QED BY <2>2, <3>2, <4>1 DEF Forfeiting
      <3> QED BY <1>0, <1>1, <2>4, <3>1, <3>2 DEF Forfeiting, Putting
    <2> QED BY <1>0, <1>2, <2>1, <2>2, <2>3, <2>4, MoveGoes
  <1>4. CASE ~StillOpen(Seen(p, m))
    <2>1. locks[p] = {} BY <1>0, <1>1, <1>4 DEF StillOpen, Chain, Seen
    <2>2. /\ job' = [job EXCEPT ![p] = [Idle EXCEPT !.entry = job[p].entry,
                       !.pc = IF job[p].entry = NoOne THEN "idle" ELSE "forfeit"]]
          /\ UNCHANGED <<rows, fate, transaction>>
      BY <1>1, <1>4, <2>1 DEF Lock, InTransaction
    <2>3. /\ job'[p].pc = IF job[p].entry = NoOne THEN "idle" ELSE "forfeit"
          /\ job'[p].entry = job[p].entry /\ \A q \in Others(p) : job'[q] = job[q]
      BY <2>2 DEF IInv, JobsTyped, Others, Idle
    <2>4. \A e \in Players : job[p].entry = e => Forfeiting(p, e)' BY <2>3, NoneIsNobody DEF Forfeiting, Putting
    <2> QED BY <1>0, <1>2, <2>2, <2>3, <2>4, FreeGoes
  <1> QED BY <1>3, <1>4

\* The loser is marked.
LEMMA WriteGoes == ASSUME IInv, IInv', PInv, CInv, BInv, SeatsMove, NEW p \in Procs, Write(p) PROVE BInv'
  <1> DEFINE v == Written(p)
             mk == Over(EntriesOf(p), marks[p])
             W == Put(dirty[p], job[p].match, v)
  <1>0. /\ job[p].pc = "write" /\ UNCHANGED <<entrants, hooked, refused, came, cancels, crashes, tstate, list>>
    BY DEF Write, history
  <1>1. PICK m \in DOMAIN rows : m = job[p].match BY <1>0, JobIs DEF JobOK, InMatch
  <1>2. /\ DOMAIN W = DOMAIN dirty[p] \cup {m} /\ W[m] = v /\ v.seat = Seen(p, m).seat
        /\ \A k \in DOMAIN dirty[p] : k # m => W[k] = dirty[p][k]
    BY <1>0, <1>1, WrittenOK DEF Put
  <1>3. /\ DOMAIN mk = DOMAIN EntriesOf(p) \cup DOMAIN marks[p]
        /\ \A e \in DOMAIN EntriesOf(p) : mk[e] = EntriesOf(p)[e]
        /\ \A e \in DOMAIN marks[p] : e \notin DOMAIN EntriesOf(p) => mk[e] = "eliminated"
    BY DEF Over, CInv, Handled
  <1>4. /\ DOMAIN EntriesOf(p) = {x \in Present(job[p].row) : x # job[p].verdict \/ Final(m)}
        /\ \A e \in DOMAIN EntriesOf(p) : EntriesOf(p)[e] = IF e = job[p].verdict THEN "winner" ELSE "eliminated"
    BY <1>1 DEF EntriesOf
  <1>5. Present(W[m]) = Present(Seen(p, m)) BY <1>2 DEF Present
  <1>6. DOMAIN W \subseteq DOMAIN rows /\ rows # <<>> BY <1>2, ViewFacts
  <1>7. \A k \in DOMAIN W : Present(W[k]) \subseteq Range(entrants)
    <2>1. Present(Seen(p, m)) \subseteq Range(entrants) BY SeenEntered
    <2> QED BY <1>2, <1>5, <2>1 DEF BInv, Entered, EnteredIn
  <1>8. \A e \in DOMAIN mk : mk[e] # "active" BY <1>3, <1>4
  <1>9. \A e \in Players : Forfeiting(p, e) /\ ~Leaving(e) => e \in DOMAIN mk
    BY <1>0, <1>3, <1>4 DEF Forfeiting, Putting
  <1>10. CASE Final(m)
    <2>1. Commit(p, W, mk) BY <1>1, <1>10 DEF Write, Written
    <2> HIDE DEF W, mk
    <2> QED BY <1>0, <1>6, <1>7, <1>8, <1>9, <2>1, CommitGoes
  <1>11. CASE ~Final(m)
    <2>1. /\ job' = [job EXCEPT ![p].pc = "seat", ![p].row = EmptyRow]
          /\ dirty' = [dirty EXCEPT ![p] = W] /\ marks' = [marks EXCEPT ![p] = mk]
          /\ UNCHANGED <<rows, fate, locks>>
      BY <1>1, <1>11 DEF Write, Written
    <2> HIDE DEF W, mk
    <2>2. /\ job'[p].pc = "seat" /\ job'[p].verdict = job[p].verdict /\ job'[p].entry = job[p].entry
          /\ dirty'[p] = W /\ marks'[p] = mk /\ \A q \in Others(p) : Rests(q)
      BY <2>1, JobIs DEF IInv, JobsTyped, IsFcn, TxTyped, Others, Job, Rests, Stays
    <2>3. job[p].verdict \in Range(entrants) \cup {NoOne} BY <1>0 DEF BInv, Entered, EnteredIn
    <2>4. EnteredIn(p)' BY <1>0, <1>7, <2>2, <2>3 DEF EnteredIn
    <2>5. \A e \in Players : Forfeiting(p, e) /\ ~Leaving(e) => Forfeiting(p, e)' BY <1>9, <2>2 DEF Forfeiting
    <2> QED BY <1>0, <1>6, <2>1, <2>2, <2>4, <2>5, MoveGoes
  <1> QED BY <1>10, <1>11

\* The winner's seat is filled; the call is remembered.
LEMMA SeatGoes == ASSUME IInv, IInv', PInv, BInv, SeatsMove, NEW p \in Procs, Seat(p) PROVE BInv'
  <1>0. /\ job[p].pc = "seat" /\ Chain(p)
        /\ UNCHANGED <<entrants, hooked, refused, came, cancels, crashes, tstate, list>>
    BY DEF Seat, history, PInv, Orderly
  <1>1. PICK m \in DOMAIN rows : m = job[p].match BY <1>0, JobIs DEF JobOK, InMatch
  <1>2. PICK u \in DOMAIN rows : u = Upper(m) BY <1>0, <1>1, JobIs DEF JobOK, Final
  <1> DEFINE row == [Seen(p, u) EXCEPT !.seat[Side(m)] = job[p].verdict]
             W == Put(dirty[p], u, row)
  <1>3. ~Seen(p, u).resolved BY <1>0, <1>1, <1>2 DEF Chain
  <1>4. /\ job' = [job EXCEPT ![p].pc = "bye", ![p].match = u, ![p].row = row]
        /\ dirty' = [dirty EXCEPT ![p] = W] /\ UNCHANGED <<rows, fate, locks, marks>>
    BY <1>1, <1>2, <1>3 DEF Seat, Answered
  <1>5. RowOK(Seen(p, u)) BY SeenOK
  <1>6. \A i \in Sides : row.seat[i] \in {Seen(p, u).seat[i], job[p].verdict}
    BY <1>5 DEF RowOK, Row
  <1>7. Present(row) \subseteq Range(entrants)
    <2>1. Present(Seen(p, u)) \subseteq Range(entrants) BY SeenEntered
    <2>2. job[p].verdict \in Range(entrants) \cup {NoOne} BY <1>0 DEF BInv, Entered, EnteredIn
    <2> HIDE DEF row
    <2> QED BY <1>6, <2>1, <2>2 DEF Present
  <1>8. /\ DOMAIN W = DOMAIN dirty[p] \cup {u} /\ W[u] = row
        /\ \A k \in DOMAIN dirty[p] : k # u => W[k] = dirty[p][k]
    BY DEF Put
  <1> HIDE DEF row, W
  <1>9. /\ job'[p].pc = "bye" /\ job'[p].row = row /\ job'[p].entry = job[p].entry /\ dirty'[p] = W /\ marks'[p] = marks[p]
        /\ \A q \in Others(p) : Rests(q)
    BY <1>4, JobIs DEF IInv, JobsTyped, IsFcn, TxTyped, Others, Job, Rests, Stays
  <1>10. EnteredIn(p)' BY <1>0, <1>7, <1>8, <1>9 DEF EnteredIn, BInv, Entered
  <1>11. \A e \in Players : Forfeiting(p, e) /\ ~Leaving(e) => Forfeiting(p, e)'
    BY <1>0, <1>9 DEF Forfeiting, Putting
  <1>12. rows # <<>> BY <1>1
  <1> QED BY <1>0, <1>4, <1>9, <1>10, <1>11, <1>12, MoveGoes

\* The transaction goes on with the next match, or commits the marks.
LEMMA ByeGoes == ASSUME IInv, IInv', CInv, BInv, SeatsMove, NEW p \in Procs, Bye(p) PROVE BInv'
  <1> DEFINE row == job[p].row
             bye == BothSettled(p, job[p].match, row) /\ Cardinality(Present(row)) < 2
  <1>0. job[p].pc = "bye" /\ UNCHANGED <<entrants, hooked, refused, came, cancels, crashes, tstate, list>>
    BY DEF Bye, history
  <1>1. PICK m \in DOMAIN rows : m = job[p].match BY <1>0, JobIs DEF JobOK, InMatch
  <1>2. rows # <<>> BY <1>1
  <1>3. \A e \in Players : Forfeiting(p, e) /\ ~Leaving(e) => e \in DOMAIN marks[p]
    BY <1>0 DEF Forfeiting, Putting
  <1>4. CASE ~bye /\ locks[p] # {}
    <2>1. Commit(p, dirty[p], marks[p]) BY <1>4 DEF Bye, InTransaction
    <2>2. DOMAIN dirty[p] \subseteq DOMAIN rows BY OwnWrites
    <2>3. \A e \in DOMAIN marks[p] : marks[p][e] # "active" BY DEF CInv, Handled
    <2>4. \A k \in DOMAIN dirty[p] : Present(dirty[p][k]) \subseteq Range(entrants) BY DEF BInv, Entered, EnteredIn
    <2> QED BY <1>0, <1>2, <1>3, <2>1, <2>2, <2>3, <2>4, CommitGoes
  <1>5. CASE bye
    <2>1. Resolve(p, m, Settles(row).winner, TRUE, job[p].entry) /\ UNCHANGED <<rows, fate, transaction>>
      BY <1>1, <1>5 DEF Bye
    <2>2. /\ job'[p].pc = "lock" /\ job'[p].verdict = Settles(row).winner /\ job'[p].entry = job[p].entry
          /\ \A q \in Others(p) : job'[q] = job[q]
      BY <2>1 DEF Resolve, IInv, JobsTyped, Others
    <2>3. row \in Row BY JobIs DEF Job
    <2>4. Settles(row).winner \in Present(row) \cup {NoOne} BY <2>3 DEF Settles, Row, Present, Sides
    <2>5. Present(row) \subseteq Range(entrants) BY <1>0 DEF BInv, Entered, EnteredIn
    <2>6. \A e \in Players : Forfeiting(p, e) /\ ~Leaving(e) => Forfeiting(p, e)'
      BY <1>3, <2>1 DEF Forfeiting, transaction
    <2> QED BY <1>0, <1>2, <2>1, <2>2, <2>4, <2>5, <2>6, FreeGoes
  <1>6. CASE ~bye /\ locks[p] = {}
    <2>1. Done(p) /\ UNCHANGED <<rows, fate, transaction>> BY <1>6 DEF Bye, InTransaction
    <2>2. job'[p].pc = "idle" /\ job'[p].entry = NoOne /\ \A q \in Others(p) : job'[q] = job[q]
      BY <2>1, IdleOK DEF Done, IInv, JobsTyped, Others
    <2>3. \A e \in Players : Forfeiting(p, e) => Leaving(e) BY <1>0, <1>6, WorkDone DEF Putting
    <2> QED BY <1>0, <1>2, <2>1, <2>2, <2>3, FreeGoes
  <1> QED BY <1>4, <1>5, <1>6

\* Who sits in no open match is out of play; for the others a match is found.
LEMMA ForfeitGoes == ASSUME IInv, IInv', CInv, BInv, SeatsMove, NEW p \in Procs, Forfeit(p) PROVE BInv'
  <1>0. /\ job[p].pc = "forfeit" /\ job[p].entry # NoOne
        /\ UNCHANGED <<rows, fate, transaction, entrants, hooked, refused, came, cancels, crashes, tstate, list>>
    BY JobIs DEF Forfeit, database, history, JobOK, Putting
  <1>1. rows # <<>> BY <1>0 DEF BInv, Called
  <1>2. CASE OpenFor(job[p].entry) = {}
    <2>1. job'[p].pc = "idle" /\ job'[p].entry = NoOne /\ \A q \in Others(p) : job'[q] = job[q]
      BY <1>2, IdleOK DEF Forfeit, Done, IInv, JobsTyped, Others
    <2>2. \A e \in Players : crashes = 0 /\ job[p].entry = e => Leaving(e)
      BY <1>1, <1>2 DEF BInv, InPlay, CInv, Standing
    <2> QED BY <1>0, <1>1, <2>1, <2>2, FreeGoes
  <1>3. CASE OpenFor(job[p].entry) # {}
    <2>1. PICK m \in OpenFor(job[p].entry) :
            \/ /\ Present(rows[m]) \subseteq {job[p].entry}
               /\ job' = [job EXCEPT ![p].pc = "unseat", ![p].match = m]
            \/ \E o \in Present(rows[m]) \ {job[p].entry} : Resolve(p, m, o, FALSE, job[p].entry)
      BY <1>3, ForfeitFinds
    <2>2. m \in DOMAIN rows /\ job[p].entry \in Present(rows[m]) BY OpenForOK
    <2>3. CASE job' = [job EXCEPT ![p].pc = "unseat", ![p].match = m]
      <3>1. job'[p].pc = "unseat" /\ job'[p].entry = job[p].entry /\ \A q \in Others(p) : job'[q] = job[q]
        BY <2>3, JobIs DEF IInv, JobsTyped, IsFcn, Others, Job
      <3>2. \A e \in Players : Forfeiting(p, e)' BY <3>1 DEF Forfeiting, Putting
      <3> QED BY <1>0, <1>1, <3>1, <3>2, FreeGoes
    <2>4. ASSUME NEW o \in Present(rows[m]), o # job[p].entry, Resolve(p, m, o, FALSE, job[p].entry) PROVE BInv'
      <3>1. /\ job'[p].pc = "lock" /\ job'[p].match = m /\ job'[p].verdict = o /\ job'[p].entry = job[p].entry
            /\ \A q \in Others(p) : job'[q] = job[q]
        BY <2>4 DEF Resolve, IInv, JobsTyped, Others
      <3>2. locks'[p] = {} BY <1>0, JobIs DEF Tx, Outside, transaction
      <3>3. Present(rows'[m]) = Present(rows[m]) BY <1>0
      <3>4. \A e \in Players : job[p].entry = e => Forfeiting(p, e)' BY <2>2, <2>4, <3>1, <3>2, <3>3 DEF Forfeiting
      <3>5. o \in Range(entrants) BY <2>2 DEF BInv, Entered
      <3> QED BY <1>0, <1>1, <3>1, <3>4, <3>5, FreeGoes
    <2> QED BY <2>1, <2>3, <2>4
  <1> QED BY <1>2, <1>3

\* The seat is emptied, and the player is being put out.
LEMMA UnseatGoes == ASSUME IInv, IInv', BInv, SeatsMove, NEW p \in Procs, Unseat(p) PROVE BInv'
  <1>0. /\ job[p].pc = "unseat" /\ locks[p] = {}
        /\ UNCHANGED <<fate, transaction, entrants, hooked, refused, came, cancels, crashes, tstate, list>>
    BY JobIs DEF Unseat, history, Tx, Outside
  <1>1. PICK m \in DOMAIN rows : m = job[p].match BY <1>0, JobIs DEF JobOK, InMatch
  <1>2. rows # <<>> BY <1>1
  <1> DEFINE e == job[p].entry
             side == CHOOSE i \in Sides : e = rows[m].seat[i]
             row == [rows[m] EXCEPT !.seat[side] = NoOne]
  <1>3. CASE rows[m].resolved \/ e \notin Present(rows[m])
    <2>1. /\ job'[p].pc = "forfeit" /\ job'[p].entry = e /\ \A q \in Others(p) : job'[q] = job[q]
          /\ rows' = rows
      BY <1>1, <1>3 DEF Unseat, IInv, JobsTyped, Others, Idle
    <2>2. \A x \in Players : Forfeiting(p, x)' BY <2>1 DEF Forfeiting, Putting
    <2> QED BY <1>0, <1>2, <2>1, <2>2, FreeGoes
  <1>4. CASE ~(rows[m].resolved \/ e \notin Present(rows[m]))
    <2>1. rows' = [rows EXCEPT ![m] = row] /\ job' = [job EXCEPT ![p].pc = "oust", ![p].row = row]
      BY <1>1, <1>4 DEF Unseat
    <2>2. \A i \in Sides : row.seat[i] \in {rows[m].seat[i], NoOne}
      BY DEF IInv, RowsTyped, RowOK, Row
    <2> HIDE DEF row
    <2>3. /\ job'[p].pc = "oust" /\ job'[p].row = row /\ job'[p].entry = e
          /\ \A q \in Others(p) : job'[q] = job[q] /\ Rests(q)
      BY <1>0, <2>1, JobIs DEF IInv, JobsTyped, IsFcn, Others, Job, Rests, Stays, transaction
    <2>4. /\ DOMAIN rows' = DOMAIN rows /\ rows'[m] = row
          /\ \A k \in DOMAIN rows : k # m => rows'[k] = rows[k]
      BY <2>1 DEF IInv, RowsTyped
    <2>5. rows' # <<>> BY <2>4
    <2>6. Present(row) \subseteq Range(entrants)
      <3>1. Present(rows[m]) \subseteq Range(entrants) BY DEF BInv, Entered
      <3> QED BY <2>2, <3>1 DEF Present
    <2>7. \A k \in DOMAIN rows' : Present(rows'[k]) \subseteq Range(entrants)
      BY <2>4, <2>6 DEF BInv, Entered
    <2>8. \A x \in list' : Present(x.row) \subseteq Range(entrants) BY <1>0 DEF BInv, Entered
    <2>9. EnteredIn(p)' BY <1>0, <2>3, <2>6 DEF EnteredIn, BInv, Entered, transaction
    <2>10. Leaves
      <3>1. \A q \in Procs : job[q].pc = "oust" => job'[q] = job[q] BY <1>0, <2>3 DEF Others
      <3> QED BY <1>0, <3>1, LeavesIf
    <2>11. \A x \in Players : Forfeiting(p, x)' BY <2>3 DEF Forfeiting, Putting
    <2>12. Goes(p) BY <1>0, <2>3, <2>10, <2>11, GoesIf
    <2> QED BY <1>0, <1>2, <2>3, <2>5, <2>7, <2>8, <2>9, <2>10, <2>12, GoesStep
  <1> QED BY <1>3, <1>4

\* He is out, and the call has done its work.
LEMMA OustGoes == ASSUME IInv, IInv', BInv, SeatsMove, NEW p \in Procs, Oust(p) PROVE BInv'
  <1>0. /\ job[p].pc = "oust" /\ fate' = [fate EXCEPT ![job[p].entry] = "eliminated"]
        /\ UNCHANGED <<rows, transaction, entrants, hooked, refused, came, cancels, crashes, tstate, list>>
    BY DEF Oust, history
  <1>1. /\ job'[p].pc = "bye" /\ job'[p].row = job[p].row /\ job'[p].entry = NoOne
        /\ \A q \in Others(p) : job'[q] = job[q] /\ Rests(q)
    BY <1>0, JobIs DEF Oust, IInv, JobsTyped, IsFcn, Others, Job, Rests, Stays, transaction
  <1>2. rows # <<>> BY <1>0, JobIs DEF JobOK, InMatch
  <1>3. \A e \in Players : fate'[e] = IF e = job[p].entry THEN "eliminated" ELSE fate[e]
    BY <1>0 DEF IInv, FateTyped
  <1>4. job[p].entry \in Players BY <1>0, JobIs DEF JobOK, Putting, IInv, Phases
  <1>5. EnteredIn(p)' BY <1>0, <1>1 DEF EnteredIn, BInv, Entered, transaction
  <1>6. Leaves
    <2>1. ASSUME NEW q \in Procs, job[q].pc = "oust"
          PROVE  (job'[q].pc = "oust" /\ job'[q].entry = job[q].entry) \/ fate'[job[q].entry] # "active"
      <3>1. CASE q = p BY <1>3, <1>4, <3>1
      <3>2. CASE q # p BY <1>1, <2>1, <3>2 DEF Others
      <3> QED BY <3>1, <3>2
    <2>2. \A e \in Players : fate[e] # "active" => fate'[e] # "active" BY <1>3
    <2> QED BY <2>1, <2>2, LeavesIf
  <1>7. \A e \in Players : job[p].entry = e => Leaving(e)' BY <1>3 DEF Leaving
  <1>8. Goes(p) BY <1>0, <1>1, <1>6, <1>7, GoesIf
  <1>9. \A m \in DOMAIN rows' : Present(rows'[m]) \subseteq Range(entrants) BY <1>0 DEF BInv, Entered
  <1>10. \A x \in list' : Present(x.row) \subseteq Range(entrants) BY <1>0 DEF BInv, Entered
  <1> QED BY <1>0, <1>1, <1>2, <1>5, <1>6, <1>8, <1>9, <1>10, GoesStep

\* Before the draw nobody forfeits, and the refused are no entrants.
LEMMA BareGoes ==
  ASSUME IInv, IInv', BInv, rows = <<>>, rows' = <<>>,
         \A p \in Procs : job'[p].entry \in {job[p].entry, NoOne},
         crashes' = 0 => crashes = 0,
         \A e \in Players : fate'[e] = "active" => fate[e] = "active",
         hooked' \cup refused' \subseteq {Arrivals[k] : k \in 1..came'},
         cancels' = 0 => /\ tstate' # "cancelled"
                         /\ tstate' = "registration" => refused' \cap Range(entrants') = {}
  PROVE  BInv'
  <1>1. /\ list' = {} /\ \A p \in Procs : job'[p].pc \notin InMatch /\ DOMAIN dirty'[p] = {}
    BY DEF IInv, ListTyped, TxTyped, Tx, JobsTyped, JobOK
  <1>2. Entered' BY <1>1 DEF Entered, EnteredIn, InMatch
  <1>3. \A p \in Procs : job[p].pc # "oust" BY DEF IInv, JobsTyped, JobOK, InMatch
  <1>4. \A p \in Procs : job'[p].entry = NoOne BY DEF BInv, Called
  <1>5. tstate' # "running" BY DEF IInv, Phases
  <1>6. Called' BY <1>4, <1>5 DEF Called
  <1>7. crashes' = 0 => InPlay' BY <1>3 DEF BInv, InPlay, Leaving
  <1> QED BY <1>2, <1>4, <1>6, <1>7, NoneIsNobody DEF BInv

\* The tournament ends, at most.
LEMMA FinishGoes == ASSUME IInv, IInv', BInv, SeatsMove, NEW p \in Procs, Finish(p) PROVE BInv'
  <1>1. /\ job[p].pc = "finish" /\ Done(p) /\ tstate' \in {tstate, "finished"}
        /\ UNCHANGED <<rows, fate, transaction, entrants, hooked, refused, came, cancels, crashes, list>>
    BY DEF Finish
  <1>2. job'[p].pc = "idle" /\ job'[p].entry = NoOne /\ \A q \in Others(p) : job'[q] = job[q]
    BY <1>1, IdleOK DEF Done, IInv, JobsTyped, Others
  <1>3. CASE rows = <<>>
    <2>1. \A q \in Procs : job'[q].entry \in {job[q].entry, NoOne} BY <1>2 DEF Others
    <2>2. Called BY DEF BInv
    <2>3. cancels' = 0 => /\ tstate' # "cancelled"
                          /\ tstate' = "registration" => refused' \cap Range(entrants') = {}
      BY <1>1, <2>2 DEF Called
    <2>4. hooked' \cup refused' \subseteq {Arrivals[k] : k \in 1..came'} BY <1>1, <2>2 DEF Called
    <2> QED BY <1>1, <1>3, <2>1, <2>3, <2>4, BareGoes
  <1>4. CASE rows # <<>>
    <2>1. locks[p] = {} BY <1>1, JobIs DEF Tx, Outside
    <2>2. \A e \in Players : Forfeiting(p, e) => Leaving(e) BY <1>1, <2>1, WorkDone DEF Putting
    <2> QED BY <1>1, <1>2, <1>4, <2>2, FreeGoes
  <1> QED BY <1>3, <1>4

\* Nobody moves.
LEMMA RestGoes ==
  ASSUME IInv, IInv', BInv, SeatsMove, DOMAIN rows' = DOMAIN rows,
         UNCHANGED <<job, transaction, fate, entrants, hooked, refused, came, cancels, crashes, tstate>>,
         \A m \in DOMAIN rows' : Present(rows'[m]) \subseteq Range(entrants),
         \A x \in list' : Present(x.row) \subseteq Range(entrants)
  PROVE  BInv'
  <1>1. CASE rows = <<>>
    <2>1. rows' = <<>> BY <1>1 DEF IInv, RowsTyped, IsFcn
    <2>2. Called BY DEF BInv
    <2>3. hooked' \cup refused' \subseteq {Arrivals[k] : k \in 1..came'} BY <2>2 DEF Called
    <2>4. cancels' = 0 => /\ tstate' # "cancelled"
                          /\ tstate' = "registration" => refused' \cap Range(entrants') = {}
      BY <2>2 DEF Called
    <2> QED BY <1>1, <2>1, <2>3, <2>4, BareGoes
  <1>2. CASE rows # <<>>
    <2>1. rows' # <<>> BY <1>2 DEF IInv, RowsTyped, IsFcn
    <2>2. \A q \in Procs : Rests(q) BY DEF Rests, Stays, transaction
    <2>3. Leaves BY LeavesIf
    <2>4. Goes(Ticker) /\ EnteredIn(Ticker)' BY <2>2, <2>3, ProcsFacts, OtherGoes
    <2> QED BY <1>2, <2>1, <2>2, <2>3, <2>4, ProcsFacts, GoesStep DEF Others
  <1> QED BY <1>1, <1>2

\* The tick lists entrants.
LEMMA TickGoes == ASSUME IInv, IInv', BInv, SeatsMove, Tick PROVE BInv'
  <1>1. /\ job[Ticker].pc = "idle" /\ Ticker \in Procs /\ rows # <<>>
        /\ UNCHANGED <<rows, fate, transaction, entrants, hooked, refused, came, cancels, crashes, tstate>>
    BY ProcsFacts DEF Tick, database, history, IInv, Phases
  <1>2. CASE Decided \/ clock >= Ends
    <2>1. /\ job'[Ticker].pc = "finish" /\ job'[Ticker].entry = job[Ticker].entry /\ list' = list
          /\ \A q \in Others(Ticker) : job'[q] = job[q]
      BY <1>1, <1>2, JobIs DEF Tick, Goto, IInv, JobsTyped, IsFcn, Others, Job
    <2>2. locks[Ticker] = {} BY <1>1, JobIs DEF Tx, Outside
    <2>3. \A e \in Players : Forfeiting(Ticker, e) => Leaving(e) BY <1>1, <2>2, WorkDone DEF Putting
    <2> QED BY <1>1, <2>1, <2>3, FreeGoes
  <1>3. CASE ~(Decided \/ clock >= Ends)
    <2>1. /\ job' = job
          /\ list' = {[match |-> m, row |-> rows[m]] : m \in {k \in DOMAIN rows : Due(k) /\ ~rows[k].resolved}}
      BY <1>3 DEF Tick
    <2>2. \A x \in list' : x.match \in DOMAIN rows /\ x.row = rows[x.match] BY <2>1
    <2>3. \A m \in DOMAIN rows : Present(rows[m]) \subseteq Range(entrants) BY DEF BInv, Entered
    <2>4. \A x \in list' : Present(x.row) \subseteq Range(entrants) BY <2>2, <2>3
    <2> QED BY <1>1, <2>1, <2>3, <2>4, RestGoes
  <1> QED BY <1>2, <1>3

\* The policy's verdict is for an entrant.
LEMMA SweepGoes == ASSUME IInv, IInv', BInv, SeatsMove, NEW x \in list, Sweep(x) PROVE BInv'
  <1>0. /\ x.match \in DOMAIN rows /\ x.row \in Row /\ job[Ticker].pc = "idle" /\ Ticker \in Procs /\ list' \subseteq list
        /\ UNCHANGED <<fate, transaction, entrants, hooked, refused, came, cancels, crashes, tstate>>
    BY ProcsFacts DEF IInv, ListTyped, Sweep, history
  <1>1. CASE x.row.expired
    <2>1. PICK w \in Verdicts(x.row) : Resolve(Ticker, x.match, w, FALSE, NoOne) /\ rows' = rows BY <1>1 DEF Sweep
    <2>2. /\ job'[Ticker].pc = "lock" /\ job'[Ticker].verdict = w /\ job'[Ticker].entry = NoOne
          /\ \A q \in Others(Ticker) : job'[q] = job[q]
      BY <1>0, <2>1 DEF Resolve, IInv, JobsTyped, Others
    <2>3. w \in Present(x.row) \cup {NoOne} BY <1>0, <2>1 DEF Verdicts, Present, Sides, Row
    <2>4. Present(x.row) \subseteq Range(entrants) BY DEF BInv, Entered
    <2>5. locks[Ticker] = {} BY <1>0, JobIs DEF Tx, Outside
    <2>6. \A e \in Players : Forfeiting(Ticker, e) => Leaving(e) BY <1>0, <2>5, WorkDone DEF Putting
    <2>7. rows # <<>> BY <1>0
    <2> QED BY <1>0, <2>1, <2>2, <2>3, <2>4, <2>6, <2>7, FreeGoes
  <1>2. CASE ~x.row.expired
    <2> DEFINE row == [rows[x.match] EXCEPT !.expired = TRUE]
    <2>1. rows' = [rows EXCEPT ![x.match] = row] /\ job' = job BY <1>2 DEF Sweep
    <2>2. row.seat = rows[x.match].seat BY <1>0 DEF IInv, RowsTyped, RowOK, Row
    <2> HIDE DEF row
    <2>3. DOMAIN rows' = DOMAIN rows /\ \A k \in DOMAIN rows : rows'[k].seat = rows[k].seat
      BY <1>0, <2>1, <2>2
    <2>4. \A k \in DOMAIN rows' : Present(rows'[k]) \subseteq Range(entrants)
      BY <2>3 DEF Present, BInv, Entered
    <2>5. \A y \in list' : Present(y.row) \subseteq Range(entrants) BY <1>0 DEF BInv, Entered
    <2> QED BY <1>0, <2>1, <2>3, <2>4, <2>5, RestGoes
  <1> QED BY <1>1, <1>2

\* After a cancel nothing is promised.
LEMMA CancelGoes == ASSUME IInv, BInv, Cancel \/ Reopen PROVE BInv'
  <1>1. UNCHANGED <<entrants, fate, rows, hooked, job, transaction, list, came, refused, crashes>>
    BY DEF Cancel, Reopen
  <1>2. cancels' # 0
    <2>1. CASE Cancel BY <2>1 DEF Cancel, IInv, Phases
    <2>2. CASE Reopen BY <2>2 DEF Reopen, BInv, Called
    <2> QED BY <2>1, <2>2
  <1>3. Entered' BY <1>1 DEF BInv, Entered, EnteredIn, transaction
  <1>4. Called' BY <1>1, <1>2 DEF BInv, Called
  <1>5. \A e \in Players : Leaving(e)' = Leaving(e) BY <1>1 DEF Leaving
  <1>6. crashes' = 0 => InPlay' BY <1>1, <1>5 DEF BInv, InPlay
  <1>7. \A p \in Procs, e \in Players : Forfeiting(p, e)' = Forfeiting(p, e)
    BY <1>1, <1>5 DEF Forfeiting, transaction
  <1> QED BY <1>1, <1>3, <1>4, <1>6, <1>7 DEF BInv

\* Who dies holds nothing, and forfeits for nobody.
LEMMA CrashGoes == ASSUME IInv, BInv, NEW p \in Procs, Crash(p) PROVE BInv'
  <1>1. /\ UNCHANGED <<tstate, rows, entrants, refused, hooked, came, cancels>> /\ crashes' # 0 /\ list' \subseteq list
        /\ job' = [job EXCEPT ![p] = Idle] /\ dirty' = [dirty EXCEPT ![p] = <<>>]
    BY DEF Crash, database, Done, Gone, IInv, Phases
  <1>2. job'[p].pc = "idle" /\ job'[p].entry = NoOne /\ DOMAIN dirty'[p] = {}
    BY <1>1, IdleOK DEF IInv, JobsTyped, TxTyped
  <1>3. \A q \in Others(p) : job'[q] = job[q] /\ dirty'[q] = dirty[q]
    BY <1>1 DEF IInv, JobsTyped, TxTyped, Others
  <1>4. EnteredIn(p)' BY <1>2 DEF EnteredIn
  <1>5. \A q \in Others(p) : EnteredIn(q)' BY <1>1, <1>3 DEF EnteredIn, BInv, Entered, Others
  <1>6. Entered' BY <1>1, <1>4, <1>5 DEF BInv, Entered, Others
  <1>7. \A q \in Procs : job'[q].entry \in {job[q].entry, NoOne} BY <1>2, <1>3 DEF Others
  <1>8. Called' BY <1>1, <1>7 DEF BInv, Called
  <1> QED BY <1>1, <1>6, <1>8 DEF BInv

\* Who withdraws is no entrant.
LEMMA WithdrawnGone == ASSUME Registered, NEW e, Withdrawn(e) PROVE Range(entrants') \subseteq Range(entrants) \ {e}
  <1>1. CASE e \notin Range(entrants)
    <2>1. entrants' = entrants BY <1>1 DEF Withdrawn
    <2> QED BY <1>1, <2>1
  <1>2. CASE e \in Range(entrants)
    <2> DEFINE i == CHOOSE i \in DOMAIN entrants : entrants[i] = e
    <2>1. i \in DOMAIN entrants /\ entrants[i] = e BY <1>2 DEF Range
    <2>2. entrants' = RemoveAt(entrants, i) BY <1>2 DEF Withdrawn
    <2> HIDE DEF i
    <2>3. entrants \in Seq(Players) /\ Len(entrants) \in Nat BY DEF Registered
    <2>4. /\ entrants' \in Seq(Players) /\ Len(entrants') = Len(entrants) - 1
          /\ \A k \in 1..(Len(entrants) - 1) : entrants'[k] = IF k < i THEN entrants[k] ELSE entrants[k + 1]
      BY <2>1, <2>2, <2>3, Removed
    <2>5. DOMAIN entrants' = 1..(Len(entrants) - 1) /\ DOMAIN entrants = 1..Len(entrants) BY <2>3, <2>4
    <2>6. ASSUME NEW k \in DOMAIN entrants' PROVE entrants'[k] \in Range(entrants) \ {e}
      <3>1. PICK j \in DOMAIN entrants : entrants'[k] = entrants[j] /\ j # i BY <2>1, <2>3, <2>4, <2>5
      <3>2. entrants[j] # e BY <2>1, <3>1 DEF Registered, EntrantsOnce
      <3> QED BY <3>1, <3>2 DEF Range
    <2> QED BY <2>6 DEF Range
  <1> QED BY <1>1, <1>2

\* Who joins was not refused before.
LEMMA JoinGoes == ASSUME IInv, IInv', BInv, Join PROVE BInv'
  <1> DEFINE e == Arrivals[came + 1]
  <1>1. /\ came < Len(Arrivals) /\ came' = came + 1 /\ entrants' = Append(entrants, e) /\ tstate = "registration"
        /\ fate' = [fate EXCEPT ![e] = "registered"] /\ hooked' \subseteq hooked \cup {e}
        /\ UNCHANGED <<tstate, rows, job, refused, crashes, cancels>>
    BY DEF Join
  <1>2. Arrivals \in Seq(Players) /\ \A i, j \in DOMAIN Arrivals : Arrivals[i] = Arrivals[j] => i = j
    BY ArrivalsAssumption DEF IsInjective
  <1>3. came \in Nat /\ came + 1 \in DOMAIN Arrivals /\ \A k \in 1..came : k \in DOMAIN Arrivals /\ k # came + 1
    BY <1>1, <1>2 DEF IInv, Registered
  <1>4. \A k \in 1..came : Arrivals[k] # e BY <1>2, <1>3
  <1>5. hooked \cup refused \subseteq {Arrivals[k] : k \in 1..came} BY DEF BInv, Called
  <1>6. e \notin refused BY <1>4, <1>5
  <1>7. came + 1 \in 1..came' /\ \A k \in 1..came : k \in 1..came' BY <1>1, <1>3
  <1>8. hooked' \cup refused' \subseteq {Arrivals[k] : k \in 1..came'} BY <1>1, <1>5, <1>7
  <1> HIDE DEF e
  <1>9. Range(entrants') \subseteq Range(entrants) \cup {e}
    <2>1. \A k \in DOMAIN entrants' : entrants'[k] = e \/ (k \in DOMAIN entrants /\ entrants'[k] = entrants[k])
      BY <1>1 DEF IInv, Registered
    <2> QED BY <2>1 DEF Range
  <1>10. cancels' = 0 => /\ tstate' # "cancelled"
                         /\ tstate' = "registration" => refused' \cap Range(entrants') = {}
    BY <1>1, <1>6, <1>9 DEF BInv, Called
  <1>11. \A x \in Players : fate'[x] = "active" => fate[x] = "active" BY <1>1 DEF IInv, FateTyped
  <1>12. rows = <<>> BY <1>1 DEF IInv, Phases
  <1> QED BY <1>1, <1>8, <1>10, <1>11, <1>12, BareGoes

\* Who leaves makes no entrant.
LEMMA LeaveGoes == ASSUME IInv, IInv', BInv, NEW e \in Players, Leave(e) PROVE BInv'
  <1>1. /\ tstate = "registration" /\ Withdrawn(e) /\ UNCHANGED <<tstate, rows, hooked, job, came, refused, crashes, cancels>>
    BY DEF Leave, history
  <1>2. Range(entrants') \subseteq Range(entrants) BY <1>1, WithdrawnGone DEF IInv
  <1>3. \A x \in Players : fate'[x] = "active" => fate[x] = "active" BY <1>1 DEF Withdrawn, IInv, FateTyped
  <1>4. rows = <<>> BY <1>1 DEF IInv, Phases
  <1>5. hooked' \cup refused' \subseteq {Arrivals[k] : k \in 1..came'} BY <1>1 DEF BInv, Called
  <1>6. cancels' = 0 => /\ tstate' # "cancelled"
                        /\ tstate' = "registration" => refused' \cap Range(entrants') = {}
    BY <1>1, <1>2 DEF BInv, Called
  <1> QED BY <1>1, <1>3, <1>4, <1>5, <1>6, BareGoes

\* The call that refuses a player takes his seat back, or forfeits for him from now on.
LEMMA HookRefusesGoes ==
  ASSUME IInv, IInv', BInv, SeatsMove, NEW p \in Procs, NEW e \in Players, HookRefuses(p, e) PROVE BInv'
  <1>1. /\ job[p].pc = "idle" /\ e \in hooked /\ hooked' = hooked \ {e} /\ refused' = refused \cup {e}
        /\ job' = IF Forfeits THEN [job EXCEPT ![p].pc = "forfeit", ![p].entry = e] ELSE job
        /\ UNCHANGED <<tstate, rows, transaction, list, came, crashes, cancels>>
    BY DEF HookRefuses
  <1>2. Called /\ hooked' \cup refused' \subseteq {Arrivals[k] : k \in 1..came'} BY <1>1 DEF BInv, Called
  <1>3. CASE tstate = "registration"
    <2>1. Withdrawn(e) /\ job' = job BY <1>1, <1>3 DEF HookRefuses, Forfeits
    <2>2. Range(entrants') \subseteq Range(entrants) \ {e} BY <2>1, WithdrawnGone DEF IInv
    <2>3. \A x \in Players : fate'[x] = "active" => fate[x] = "active" BY <2>1 DEF Withdrawn, IInv, FateTyped
    <2>4. rows = <<>> BY <1>3 DEF IInv, Phases
    <2>5. cancels' = 0 => /\ tstate' # "cancelled"
                          /\ tstate' = "registration" => refused' \cap Range(entrants') = {}
      BY <1>1, <1>2, <1>3, <2>2 DEF Called
    <2> QED BY <1>1, <1>2, <2>1, <2>3, <2>4, <2>5, BareGoes
  <1>4. CASE tstate # "registration"
    <2>1. UNCHANGED <<entrants, fate>> BY <1>4 DEF HookRefuses
    <2>2. /\ \A q \in Others(p) : job'[q] = job[q]
          /\ job'[p].pc \in {"idle", "forfeit"}
          /\ tstate = "running" => job'[p].pc = "forfeit" /\ job'[p].entry = e
          /\ tstate # "running" => job' = job
      BY <1>1, JobIs DEF Forfeits, IInv, JobsTyped, IsFcn, Others, Job
    <2>3. \A q \in Others(p) : Rests(q) BY <1>1, <2>2 DEF Rests, Stays, transaction
    <2>4. Leaves
      <3>1. \A q \in Procs : job[q].pc = "oust" => job'[q] = job[q] BY <1>1, <2>2 DEF Others
      <3> QED BY <2>1, <3>1, LeavesIf
    <2>5. \A q \in Others(p) : Goes(q) /\ EnteredIn(q)' BY <1>1, <2>1, <2>3, <2>4, OtherGoes DEF Others
    <2>6. EnteredIn(p)' BY <1>1, <2>1, <2>2 DEF EnteredIn, BInv, Entered, transaction
    <2>7. Entered' BY <1>1, <2>1, <2>5, <2>6 DEF BInv, Entered, Others
    <2>8. InPlay /\ crashes' = 0 => InPlay' BY <1>1, <2>1, <2>4 DEF InPlay, Leaves
    <2>9. locks[p] = {} BY <1>1, JobIs DEF Tx, Outside
    <2>10. \A x \in Players : Forfeiting(p, x) => Leaving(x) BY <1>1, <2>9, WorkDone DEF Putting
    <2>11. ASSUME crashes' = 0, NEW x \in Players, NEW q \in Procs, job'[q].entry = x PROVE Forfeiting(q, x)'
      <3>1. CASE q # p BY <2>5, <2>11, <3>1 DEF Goes, Others
      <3>2. CASE q = p /\ tstate = "running" BY <2>2, <3>2 DEF Forfeiting, Putting
      <3>3. CASE q = p /\ tstate # "running"
        <4>1. Leaving(x) BY <1>1, <2>2, <2>10, <2>11, <3>3 DEF BInv
        <4> QED BY <2>4, <2>11, <4>1 DEF Leaves, Forfeiting
      <3> QED BY <3>1, <3>2, <3>3
    <2>12. ASSUME tstate = "running", cancels = 0, crashes' = 0, NEW x \in refused' \cap Range(entrants)
           PROVE  Leaving(x)' \/ \E q \in Procs : job'[q].entry = x
      <3>1. CASE x = e BY <2>2, <2>12, <3>1
      <3>2. CASE x # e
        <4>1. x \in Players BY DEF IInv, Registered, Range
        <4>2. Leaving(x) \/ \E q \in Procs : job[q].entry = x BY <1>1, <1>2, <2>12, <3>2 DEF Called
        <4>3. CASE Leaving(x) BY <2>4, <2>12, <4>1, <4>3 DEF Leaves
        <4>4. ASSUME NEW q \in Procs, job[q].entry = x PROVE Leaving(x)' \/ \E r \in Procs : job'[r].entry = x
          <5>1. CASE q # p BY <2>2, <4>4, <5>1 DEF Others
          <5>2. CASE q = p
            <6>1. Leaving(x) BY <1>1, <2>10, <2>12, <4>1, <4>4, <5>2 DEF BInv
            <6> QED BY <2>4, <2>12, <4>1, <6>1 DEF Leaves
          <5> QED BY <5>1, <5>2
        <4> QED BY <4>2, <4>3, <4>4
      <3> QED BY <3>1, <3>2
    <2>13. rows = <<>> => tstate # "running" BY DEF IInv, Phases
    <2>14. rows' = <<>> => \A q \in Procs : job'[q].entry = NoOne BY <1>1, <1>2, <2>2, <2>13 DEF Called
    <2>15. Called' BY <1>1, <1>2, <1>4, <2>1, <2>12, <2>14 DEF Called
    <2> QED BY <1>1, <2>7, <2>8, <2>11, <2>15 DEF BInv
  <1> QED BY <1>3, <1>4

\* Only entrants are drawn.
LEMMA DrawnEntered == ASSUME Enough, NEW m \in DOMAIN Bracket PROVE Present(Bracket[m]) \subseteq Range(entrants)
  <1>1. ASSUME NEW s, NEW i \in Sides PROVE FirstRound(s).seat[i] \in Range(entrants) \cup {NoOne}
    <2> DEFINE occupant(k) == LET rank == SeedOrder[Depth][2 * s + k]
                              IN  IF rank \in DOMAIN entrants THEN entrants[rank] ELSE NoOne
               row == [EmptyRow EXCEPT !.seat = [k \in Sides |-> occupant(k)]]
    <2>1. FirstRound(s) = IF Cardinality(Present(row)) = 2 THEN row ELSE Settles(row)
      BY DEF FirstRound, Depth
    <2>2. row.seat[i] = occupant(i) BY DEF EmptyRow
    <2>3. Settles(row).seat = row.seat BY DEF Settles, EmptyRow
    <2>4. occupant(i) \in Range(entrants) \cup {NoOne} BY DEF Range
    <2> HIDE DEF row
    <2>5. FirstRound(s).seat[i] = row.seat[i] BY <2>1, <2>3
    <2> QED BY <2>2, <2>4, <2>5
  <1>2. ASSUME NEW f \in DOMAIN Bracket, f[1] = 1 PROVE Present(Bracket[f]) \subseteq Range(entrants)
    <2>1. Bracket[f] = FirstRound(f[2]) BY <1>2 DEF Bracket
    <2> QED BY <1>1, <2>1 DEF Present
  <1>3. CASE m[1] = 1 BY <1>2, <1>3
  <1>4. CASE m[1] = 2
    <2>1. ASSUME NEW i \in Sides PROVE Bracket[m].seat[i] \in Range(entrants) \cup {NoOne}
      <3>1. PICK f \in DOMAIN Bracket : f = Feeder(m, i) /\ f[1] = 1
        BY <1>4, BracketOK, Geometry DEF Fed
      <3>2. Bracket[m].seat[i] = Bracket[f].winner /\ Drawn(Bracket[f]) /\ RowOK(Bracket[f])
        BY <1>4, <3>1, BracketOK
      <3>3. Present(Bracket[f]) \subseteq Range(entrants) BY <1>2, <3>1
      <3>4. Bracket[f].seat[0] \in Range(entrants) BY <3>2, <3>3 DEF Drawn, Present, Sides
      <3>5. CASE Bracket[f].resolved
        <4>1. Bracket[f].seat[0] \in Present(Bracket[f]) BY <3>2 DEF Drawn, Present, Sides
        <4>2. Bracket[f].winner = Bracket[f].seat[0] BY <3>2, <3>5, <4>1 DEF Drawn
        <4> QED BY <3>2, <3>4, <4>2
      <3>6. CASE ~Bracket[f].resolved BY <3>2, <3>6 DEF RowOK
      <3> QED BY <3>5, <3>6
    <2> QED BY <2>1 DEF Present
  <1>5. CASE m[1] # 1 /\ m[1] # 2
    <2>1. m \in Matches BY BracketOK
    <2>2. m[1] \in Nat /\ m[1] >= 1 BY <2>1, Geometry
    <2>3. m[1] > 2 BY <1>5, <2>2
    <2>4. \A i \in Sides : Bracket[m].seat[i] = NoOne BY <2>3, BracketOK
    <2> QED BY <2>4 DEF Present
  <1> QED BY <1>3, <1>4, <1>5

\* Nobody who was refused is drawn.
LEMMA DrawGoes == ASSUME IInv, IInv', BInv, Draw PROVE BInv'
  <1>1. /\ tstate = "registration" /\ DOMAIN rows = {} /\ rows = <<>>
        /\ UNCHANGED <<hooked, job, transaction, list, came, refused, crashes, cancels>>
        /\ entrants' \in {entrants, <<>>}
    BY DEF Draw, IInv, Phases
  <1>2. Called /\ hooked' \cup refused' \subseteq {Arrivals[k] : k \in 1..came'} BY <1>1 DEF BInv, Called
  <1>3. CASE Len(entrants) < 2
    <2>1. /\ tstate' = "finished" /\ rows' = rows
          /\ fate' = [e \in Players |-> IF e \in Range(entrants) THEN "winner" ELSE fate[e]]
      BY <1>3 DEF Draw
    <2>2. \A e \in Players : fate'[e] = "active" => fate[e] = "active" BY <2>1
    <2> QED BY <1>1, <1>2, <2>1, <2>2, BareGoes
  <1>4. CASE ~(Len(entrants) < 2)
    <2>1. /\ tstate' = "running" /\ rows' = Bracket /\ Enough /\ entrants' = entrants
          /\ fate' = [e \in Players |-> IF e \in Range(entrants) THEN "active" ELSE fate[e]]
      BY <1>4, DrawIsEnough DEF Draw
    <2>2. list = {} /\ \A p \in Procs : job[p].pc \notin InMatch /\ DOMAIN dirty[p] = {} BY <1>1, NoBracket
    <2>3. \A m \in DOMAIN rows' : Present(rows'[m]) \subseteq Range(entrants) BY <2>1, DrawnEntered
    <2>4. \A p \in Procs : EnteredIn(p)' BY <1>1, <2>2 DEF EnteredIn, InMatch, transaction
    <2>5. Entered' BY <1>1, <2>1, <2>2, <2>3, <2>4 DEF Entered
    <2>6. rows' # <<>> BY <2>1, BracketOK
    <2>7. \A p \in Procs : job'[p].entry = NoOne BY <1>1, <1>2 DEF Called
    <2>8. \A p \in Procs : job[p].pc # "oust" BY <2>2 DEF InMatch
    <2>9. crashes' = 0 => InPlay' BY <1>1, <2>1, <2>6, <2>8 DEF BInv, InPlay, Leaving
    <2>10. cancels' = 0 => refused' \cap Range(entrants') = {} BY <1>1, <1>2, <2>1 DEF Called
    <2>11. Called' BY <1>2, <2>1, <2>7, <2>10 DEF Called
    <2> QED BY <2>5, <2>7, <2>9, <2>11, NoneIsNobody DEF BInv
  <1> QED BY <1>3, <1>4

\* Every step leaves the refused called for.
LEMMA BInvStep == ASSUME IInv, IInv', PInv, CInv, BInv, [Next]_vars PROVE BInv'
  <1>0. SeatsMove BY SeatsMoveStep
  <1>1. CASE Join \/ \E e \in Players : Leave(e) BY <1>1, JoinGoes, LeaveGoes
  <1>2. CASE Cancel \/ Reopen BY <1>2, CancelGoes
  <1>3. CASE Clock \/ UNCHANGED vars
    <2>1. UNCHANGED <<tstate, entrants, fate, rows, hooked, job, transaction, list, came, refused, crashes, cancels>>
      BY <1>3 DEF Clock, vars, database, transaction, history
    <2>2. /\ \A m \in DOMAIN rows' : Present(rows'[m]) \subseteq Range(entrants)
          /\ \A x \in list' : Present(x.row) \subseteq Range(entrants)
      BY <2>1 DEF BInv, Entered
    <2> QED BY <1>0, <2>1, <2>2, RestGoes
  <1>4. CASE \E p \in Workers : \/ \E e \in Players : HookRefuses(p, e)
                                \/ \E m \in DOMAIN rows, w \in Someone : Report(p, m, w)
    <2>1. PICK p \in Workers : \/ \E e \in Players : HookRefuses(p, e)
                               \/ \E m \in DOMAIN rows, w \in Someone : Report(p, m, w)
      BY <1>4
    <2>2. p \in Procs BY ProcsFacts
    <2>3. CASE \E e \in Players : HookRefuses(p, e) BY <1>0, <2>2, <2>3, HookRefusesGoes
    <2>4. CASE \E m \in DOMAIN rows, w \in Someone : Report(p, m, w) BY <1>0, <2>2, <2>4, ReportGoes
    <2> QED BY <2>1, <2>3, <2>4
  <1>5. CASE Draw BY <1>5, DrawGoes
  <1>6. CASE Tick BY <1>0, <1>6, TickGoes
  <1>7. CASE Sweeping BY <1>0, <1>7, SweepGoes DEF Sweeping
  <1>8. CASE \E p \in Procs : Step(p) \/ Crash(p)
    <2>1. PICK p \in Procs : Step(p) \/ Crash(p) BY <1>8
    <2> QED BY <1>0, <2>1, LockGoes, WriteGoes, SeatGoes, ByeGoes, FinishGoes, ForfeitGoes, UnseatGoes, OustGoes,
               CrashGoes DEF Step
  <1> QED BY <1>1, <1>2, <1>3, <1>4, <1>5, <1>6, <1>7, <1>8 DEF Next

\* The refused are called for, always.
LEMMA BInvHolds == ASSUME Punctual PROVE Spec => []BInv
  <1>1. Init => BInv
    <2> SUFFICES ASSUME Init PROVE BInv OBVIOUS
    <2>1. /\ rows = <<>> /\ list = {} /\ tstate = "registration" /\ hooked = {} /\ refused = {}
          /\ \A p \in Procs : job[p].pc = "idle" /\ job[p].entry = NoOne /\ DOMAIN dirty[p] = {}
          /\ \A e \in Players : fate[e] = "none"
      BY DEF Init, Idle
    <2>2. Entered BY <2>1 DEF Entered, EnteredIn
    <2>3. Called BY <2>1 DEF Called
    <2>4. InPlay BY <2>1 DEF InPlay, Leaving
    <2> QED BY <2>1, <2>2, <2>3, <2>4, NoneIsNobody DEF BInv
  <1>2. IInv /\ IInv' /\ PInv /\ CInv /\ BInv /\ [Next]_vars => BInv' BY BInvStep
  <1> QED BY <1>1, <1>2, IInvHolds, PInvHolds, CInvHolds, PTL DEF Spec

\* A player the game refused leaves the bracket, whatever round he has reached by then:
\* while he waits in a match and is not out, the call that refused him is at it, unless
\* a process died, the tournament was cancelled, or it ended by ends_at
\* (forfeit_entry/2, tournaments.ex:302-358).
THEOREM RefusedLeaveHolds == ASSUME Punctual PROVE Spec => []RefusedLeave
  <1>1. ASSUME IInv, PInv, CInv, BInv, FinishedOnce PROVE RefusedLeave
    <2> SUFFICES ASSUME crashes = 0, cancels = 0, tstate = "running" \/ clock < Ends,
                        NEW e \in refused, OpenFor(e) # {}, fate[e] # "eliminated"
                 PROVE  \E p \in Procs : job[p].entry = e
      BY DEF RefusedLeave
    <2>1. PICK m \in DOMAIN rows : ~rows[m].resolved /\ e \in Present(rows[m]) BY DEF OpenFor
    <2>2. e \in Range(entrants) BY <1>1, <2>1 DEF BInv, Entered
    <2>3. rows # <<>> BY <2>1
    <2>4. tstate = "running"
      <3>1. tstate # "registration" BY <1>1, <2>3 DEF IInv, Phases
      <3>2. tstate # "cancelled" BY <1>1 DEF BInv, Called
      <3>3. tstate = "finished" => clock >= Ends
        <4> SUFFICES ASSUME tstate = "finished", clock < Ends PROVE FALSE
          BY <1>1, BoundsAssumption DEF IInv, Phases
        <4>1. Decided BY <1>1, <2>3 DEF FinishedOnce
        <4> QED BY <2>1, <4>1 DEF Decided
      <3> QED BY <3>1, <3>2, <3>3, <1>1, BoundsAssumption DEF IInv, Phases
    <2>5. Leaving(e) \/ \E p \in Procs : job[p].entry = e BY <1>1, <2>2, <2>4 DEF BInv, Called
    <2>6. fate[e] # "winner"
      <3> SUFFICES ASSUME Champion(e) PROVE FALSE BY <1>1, <2>2, <2>3 DEF CInv, Standing
      <3>1. e # NoOne BY <1>1, NoneIsNobody DEF IInv, Phases
      <3> QED BY <1>1, <2>1, <3>1, ChampionDecides DEF CInv
    <2>7. fate[e] \in {"active", "eliminated", "winner"} BY <1>1, <2>2, <2>3 DEF CInv, Standing
    <2> QED BY <2>5, <2>6, <2>7 DEF Leaving
  <1> QED BY <1>1, IInvHolds, PInvHolds, CInvHolds, BInvHolds, FinishedOnceHolds, PTL

-----------------------------------------------------------------------------
\* Who is not in the bracket.

\* He is out of the tournament, or won it alone before it was reopened.
ReopenedOrOver == cancels > 0 \/ (rows = <<>> /\ tstate = "finished")
AsideOK(e) == fate[e] = "none" \/ (fate[e] = "winner" /\ ReopenedOrOver)
\* A transaction marks only entrants.
MarksEntrants(p) ==
  /\ DOMAIN marks[p] \subseteq Range(entrants)
  /\ job[p].pc = "write" => Present(job[p].row) \subseteq Range(entrants)
  /\ job[p].pc = "oust" => job[p].entry \in Range(entrants)
EInv == /\ \A e \in Players \ Range(entrants) : AsideOK(e)
        /\ \A p \in Procs : MarksEntrants(p)

\* What was over or reopened stays so.
LEMMA OverStays ==
  ASSUME IInv, ReopenedOrOver, cancels' \in {cancels, cancels + 1},
         cancels' = cancels => /\ rows = <<>> /\ tstate = "finished" => rows' = <<>> /\ tstate' = "finished"
  PROVE  ReopenedOrOver'
  BY DEF ReopenedOrOver, IInv, Phases

\* p moves within the bracket: it marks nobody else, and all others stay what they were.
LEMMA StepEntrants ==
  ASSUME IInv, EInv, NEW p \in Procs, \A q \in Others(p) : job'[q] = job[q] /\ marks'[q] = marks[q],
         entrants' = entrants, MarksEntrants(p)', cancels' = cancels,
         rows = <<>> /\ tstate = "finished" => rows' = <<>> /\ tstate' = "finished",
         \A e \in Players \ Range(entrants) : fate'[e] = fate[e]
  PROVE  EInv'
  <1>1. \A q \in Others(p) : MarksEntrants(q)' BY DEF MarksEntrants, EInv, Others
  <1>2. ReopenedOrOver => ReopenedOrOver' BY OverStays
  <1> QED BY <1>1, <1>2 DEF EInv, AsideOK, Others

\* It comes to no marks.
LEMMA FreeEntrants ==
  ASSUME IInv, EInv, NEW p \in Procs, \A q \in Others(p) : job'[q] = job[q],
         UNCHANGED <<entrants, fate, marks, cancels>>, job'[p].pc \notin {"write", "oust"},
         rows = <<>> /\ tstate = "finished" => rows' = <<>> /\ tstate' = "finished"
  PROVE  EInv'
  <1>1. MarksEntrants(p)' BY DEF MarksEntrants, EInv
  <1> QED BY <1>1, StepEntrants

\* Nobody moves.
LEMMA RestEntrants ==
  ASSUME IInv, EInv, UNCHANGED <<entrants, fate, marks, job>>, cancels' \in {cancels, cancels + 1},
         cancels' = cancels => (rows = <<>> /\ tstate = "finished" => rows' = <<>> /\ tstate' = "finished")
  PROVE  EInv'
  <1>1. ReopenedOrOver => ReopenedOrOver' BY OverStays
  <1>2. \A q \in Procs : MarksEntrants(q)' BY DEF MarksEntrants, EInv
  <1> QED BY <1>1, <1>2 DEF EInv, AsideOK

\* A commit puts down what it marked, and has no marks any more.
LEMMA CommitEntrants ==
  ASSUME IInv, EInv, NEW p \in Procs, rows # <<>>, NEW W, NEW mk, Commit(p, W, mk), DOMAIN mk \subseteq Range(entrants),
         UNCHANGED <<entrants, cancels>>
  PROVE  EInv'
  <1>1. /\ job'[p].pc \in {"idle", "finish"} /\ marks'[p] = <<>>
        /\ \A q \in Others(p) : job'[q] = job[q] /\ marks'[q] = marks[q]
    BY IdleOK DEF Commit, Gone, IInv, JobsTyped, TxTyped, Others
  <1>2. \A e \in Players \ Range(entrants) : fate'[e] = fate[e] BY DEF Commit, Over, IInv, FateTyped
  <1>3. MarksEntrants(p)' BY <1>1 DEF MarksEntrants
  <1> QED BY <1>1, <1>2, <1>3, StepEntrants

\* Before the draw nobody has marks, nor is about to have.
LEMMA BareEntrants ==
  ASSUME IInv, IInv', rows' = <<>>, \A e \in Players \ Range(entrants') : AsideOK(e)' PROVE EInv'
  <1>1. \A p \in Procs : job'[p].pc \notin InMatch /\ DOMAIN marks'[p] = {}
    BY DEF IInv, TxTyped, Tx, JobsTyped, JobOK, Outside, InMatch
  <1> QED BY <1>1 DEF EInv, MarksEntrants, InMatch

\* Who withdraws leaves the other entrants.
LEMMA WithdrawnOthers == ASSUME Registered, NEW e, Withdrawn(e) PROVE Range(entrants) \ {e} \subseteq Range(entrants')
  <1>1. CASE e \notin Range(entrants)
    <2>1. entrants' = entrants BY <1>1 DEF Withdrawn
    <2> QED BY <2>1
  <1>2. CASE e \in Range(entrants)
    <2> DEFINE i == CHOOSE i \in DOMAIN entrants : entrants[i] = e
    <2>1. i \in DOMAIN entrants /\ entrants[i] = e BY <1>2 DEF Range
    <2>2. entrants' = RemoveAt(entrants, i) BY <1>2 DEF Withdrawn
    <2> HIDE DEF i
    <2>3. entrants \in Seq(Players) /\ Len(entrants) \in Nat BY DEF Registered
    <2>4. /\ entrants' \in Seq(Players) /\ Len(entrants') = Len(entrants) - 1
          /\ \A k \in 1..(Len(entrants) - 1) : entrants'[k] = IF k < i THEN entrants[k] ELSE entrants[k + 1]
      BY <2>1, <2>2, <2>3, Removed
    <2>5. DOMAIN entrants' = 1..(Len(entrants) - 1) /\ DOMAIN entrants = 1..Len(entrants) BY <2>3, <2>4
    <2>6. ASSUME NEW j \in DOMAIN entrants, entrants[j] # e PROVE \E k \in DOMAIN entrants' : entrants'[k] = entrants[j]
      <3>1. CASE j < i BY <2>1, <2>3, <2>4, <2>5, <3>1
      <3>2. CASE j > i
        <4>1. j - 1 \in DOMAIN entrants' /\ ~(j - 1 < i) /\ (j - 1) + 1 = j BY <2>1, <2>3, <2>5, <3>2
        <4> QED BY <2>4, <2>5, <4>1
      <3>3. j # i BY <2>1, <2>6
      <3> QED BY <2>1, <2>3, <2>5, <3>1, <3>2, <3>3
    <2> QED BY <2>6 DEF Range
  <1> QED BY <1>1, <1>2

\* Who withdraws is out of the tournament.
LEMMA WithdrawnEntrants ==
  ASSUME IInv, IInv', EInv, NEW e \in Players, Withdrawn(e), tstate = "registration", UNCHANGED <<rows, tstate, cancels>>
  PROVE  EInv'
  <1>1. Range(entrants) \ {e} \subseteq Range(entrants') BY WithdrawnOthers DEF IInv
  <1>2. rows = <<>> BY DEF IInv, Phases
  <1>3. ASSUME NEW x \in Players \ Range(entrants') PROVE AsideOK(x)'
    <2>1. CASE x = e BY <2>1 DEF Withdrawn, AsideOK, IInv, FateTyped
    <2>2. CASE x # e
      <3>1. x \notin Range(entrants) BY <1>1, <1>3, <2>2
      <3>2. fate'[x] = fate[x] BY <2>2 DEF Withdrawn, IInv, FateTyped
      <3> QED BY <3>1, <3>2 DEF EInv, AsideOK, ReopenedOrOver
    <2> QED BY <2>1, <2>2
  <1> QED BY <1>2, <1>3, BareEntrants

\* Who joins is an entrant, and the others stay.
LEMMA JoinEntrants == ASSUME IInv, IInv', EInv, Join PROVE EInv'
  <1> DEFINE e == Arrivals[came + 1]
  <1>1. /\ tstate = "registration" /\ entrants' = Append(entrants, e) /\ fate' = [fate EXCEPT ![e] = "registered"]
        /\ UNCHANGED <<rows, tstate, cancels>>
    BY DEF Join
  <1>2. rows = <<>> BY <1>1 DEF IInv, Phases
  <1> HIDE DEF e
  <1>3. entrants'[Len(entrants) + 1] = e /\ Len(entrants) + 1 \in DOMAIN entrants'
        /\ \A k \in DOMAIN entrants : k \in DOMAIN entrants' /\ entrants'[k] = entrants[k]
    BY <1>1 DEF IInv, Registered
  <1>4. Range(entrants) \cup {e} \subseteq Range(entrants') BY <1>3 DEF Range
  <1>5. ASSUME NEW x \in Players \ Range(entrants') PROVE AsideOK(x)'
    <2>1. x # e /\ x \notin Range(entrants) BY <1>4
    <2>2. fate'[x] = fate[x] BY <1>1, <2>1 DEF IInv, FateTyped
    <2> QED BY <1>1, <2>1, <2>2 DEF EInv, AsideOK, ReopenedOrOver
  <1> QED BY <1>1, <1>2, <1>5, BareEntrants

\* A lone entrant wins and is none any more; the others are drawn.
LEMMA DrawEntrants == ASSUME IInv, IInv', EInv, Draw PROVE EInv'
  <1>1. tstate = "registration" /\ rows = <<>> /\ UNCHANGED <<job, transaction, cancels>> BY DEF Draw, IInv, Phases
  <1>2. CASE Len(entrants) < 2
    <2>1. /\ tstate' = "finished" /\ rows' = <<>>
          /\ \A e \in Players : fate'[e] = IF e \in Range(entrants) THEN "winner" ELSE fate[e]
      BY <1>1, <1>2 DEF Draw
    <2>2. \A e \in Players : AsideOK(e)' BY <1>1, <2>1 DEF EInv, AsideOK, ReopenedOrOver
    <2> QED BY <2>1, <2>2, BareEntrants
  <1>3. CASE ~(Len(entrants) < 2)
    <2>1. /\ entrants' = entrants
          /\ \A e \in Players : fate'[e] = IF e \in Range(entrants) THEN "active" ELSE fate[e]
      BY <1>3 DEF Draw
    <2>2. \A p \in Procs : job[p].pc \notin InMatch /\ DOMAIN marks[p] = {} BY <1>1, NoBracket
    <2>3. \A p \in Procs : MarksEntrants(p)' BY <1>1, <2>2 DEF MarksEntrants, InMatch, transaction
    <2>4. \A e \in Players \ Range(entrants') : AsideOK(e)' BY <1>1, <2>1 DEF EInv, AsideOK, ReopenedOrOver
    <2> QED BY <2>3, <2>4 DEF EInv
  <1> QED BY <1>2, <1>3

\* A call that refuses, a report and the ticker mark nobody.
LEMMA OutsideEntrants ==
  ASSUME IInv, IInv', EInv, \/ \E p \in Workers : \/ \E e \in Players : HookRefuses(p, e)
                                           \/ \E m \in DOMAIN rows, w \in Someone : Report(p, m, w)
                     \/ Tick \/ Sweeping \/ Cancel \/ Reopen \/ Clock \/ UNCHANGED vars
  PROVE  EInv'
  <1>1. ASSUME NEW p \in Workers, NEW e \in Players, HookRefuses(p, e) PROVE EInv'
    <2>1. CASE tstate = "registration" BY <1>1, <2>1, WithdrawnEntrants DEF HookRefuses
    <2>2. CASE tstate # "registration"
      <3>1. /\ p \in Procs /\ \A q \in Others(p) : job'[q] = job[q]
            /\ job'[p].pc \in {"idle", "forfeit"} /\ UNCHANGED <<entrants, fate, marks, cancels, rows, tstate>>
        BY <1>1, <2>2, JobIs, ProcsFacts DEF HookRefuses, IInv, JobsTyped, IsFcn, Others, Job, transaction
      <3> QED BY <3>1, FreeEntrants
    <2> QED BY <2>1, <2>2
  <1>2. ASSUME NEW p \in Workers, NEW m \in DOMAIN rows, NEW w \in Someone, Report(p, m, w) PROVE EInv'
    <2>1. /\ p \in Procs /\ job'[p].pc = "lock" /\ \A q \in Others(p) : job'[q] = job[q]
          /\ UNCHANGED <<entrants, fate, marks, cancels, rows, tstate>>
      BY <1>2, ProcsFacts DEF Report, Resolve, IInv, JobsTyped, Others, database, transaction, history
    <2> QED BY <2>1, FreeEntrants
  <1>3. CASE Tick
    <2>1. /\ Ticker \in Procs /\ job'[Ticker].pc \in {"idle", "finish"} /\ \A q \in Others(Ticker) : job'[q] = job[q]
          /\ UNCHANGED <<entrants, fate, marks, cancels, rows, tstate>>
      BY <1>3, ProcsFacts, JobIs DEF Tick, Goto, IInv, JobsTyped, IsFcn, Others, Job, database, transaction, history
    <2> QED BY <2>1, FreeEntrants
  <1>4. ASSUME NEW x \in list, Sweep(x) PROVE EInv'
    <2>1. UNCHANGED <<entrants, fate, marks, cancels, tstate>> /\ Ticker \in Procs /\ rows # <<>>
      BY <1>4, ProcsFacts DEF Sweep, transaction, history, IInv, ListTyped
    <2>2. job'[Ticker].pc \in {"idle", "lock"} /\ \A q \in Others(Ticker) : job'[q] = job[q]
      BY <1>4, <2>1 DEF Sweep, Resolve, IInv, JobsTyped, Others
    <2> QED BY <2>1, <2>2, FreeEntrants
  <1>5. CASE Cancel \/ Reopen \/ Clock \/ UNCHANGED vars
    <2>1. /\ UNCHANGED <<entrants, fate, marks, job>> /\ cancels' \in {cancels, cancels + 1}
          /\ cancels' = cancels => rows' = rows /\ (tstate = "finished" => tstate' = tstate)
      BY <1>5 DEF Cancel, Reopen, Clock, vars, database, transaction, history, IInv, Phases
    <2> QED BY <2>1, RestEntrants
  <1> QED BY <1>1, <1>2, <1>3, <1>4, <1>5 DEF Sweeping

\* A verdict marks those who sat in its match.
LEMMA InsideEntrants ==
  ASSUME IInv, BInv, EInv, NEW p \in Procs, Lock(p) \/ Write(p) \/ Seat(p) \/ Bye(p) PROVE EInv'
  <1>0. job[p].pc \in InMatch /\ UNCHANGED <<entrants, cancels, tstate>>
    BY DEF InMatch, Lock, Write, Seat, Bye, history
  <1>1. job[p].match \in DOMAIN rows /\ rows # <<>>
    <2>1. job[p].match \in DOMAIN rows BY <1>0, JobIs DEF JobOK
    <2> QED BY <2>1
  <1>2. DOMAIN marks[p] \subseteq Range(entrants) BY DEF EInv, MarksEntrants
  <1>3. CASE Commit(p, dirty[p], marks[p]) BY <1>0, <1>1, <1>2, <1>3, CommitEntrants
  <1>4. CASE Lock(p) /\ ~Commit(p, dirty[p], marks[p])
    <2>1. /\ \A q \in Others(p) : job'[q] = job[q]
          /\ job'[p].pc \in {"write", "idle", "forfeit"} /\ UNCHANGED <<fate, marks>>
          /\ job'[p].pc = "write" => job'[p].row = Seen(p, job[p].match)
      <3> DEFINE j == [job[p] EXCEPT !.pc = "write", !.row = Seen(p, job[p].match)]
                 k == [Idle EXCEPT !.entry = job[p].entry, !.pc = IF job[p].entry = NoOne THEN "idle" ELSE "forfeit"]
      <3>1. job' = [job EXCEPT ![p] = j] \/ job' = [job EXCEPT ![p] = k]
        BY <1>4 DEF Lock, IInv, JobsTyped, IsFcn
      <3>2. j.pc = "write" /\ j.row = Seen(p, job[p].match) BY JobIs DEF Job
      <3>3. k.pc \in {"idle", "forfeit"} BY DEF Idle
      <3>4. UNCHANGED <<fate, marks>> BY <1>4 DEF Lock, transaction
      <3> HIDE DEF j, k
      <3>5. \A q \in Others(p) : job'[q] = job[q] BY <3>1 DEF IInv, JobsTyped, Others
      <3>6. job'[p] \in {j, k} BY <3>1 DEF IInv, JobsTyped
      <3> QED BY <3>2, <3>3, <3>4, <3>5, <3>6
    <2>2. Present(Seen(p, job[p].match)) \subseteq Range(entrants) BY <1>1, SeenEntered
    <2>3. MarksEntrants(p)' BY <1>0, <1>2, <2>1, <2>2 DEF MarksEntrants
    <2> QED BY <1>0, <1>1, <2>1, <2>3, StepEntrants
  <1>5. CASE Write(p)
    <2> DEFINE mk == Over(EntriesOf(p), marks[p])
    <2>1. job[p].pc = "write" BY <1>5 DEF Write
    <2>2. DOMAIN mk \subseteq Range(entrants) BY <1>2, <2>1 DEF Over, EntriesOf, EInv, MarksEntrants
    <2>3. CASE Final(job[p].match) BY <1>0, <1>1, <1>5, <2>2, <2>3, CommitEntrants DEF Write
    <2>4. CASE ~Final(job[p].match)
      <3>1. marks' = [marks EXCEPT ![p] = mk] /\ fate' = fate BY <1>5, <2>4 DEF Write
      <3> HIDE DEF mk
      <3>2. /\ marks'[p] = mk /\ job'[p].pc = "seat"
            /\ \A q \in Others(p) : job'[q] = job[q] /\ marks'[q] = marks[q]
        BY <1>5, <2>4, <3>1, JobIs DEF Write, IInv, JobsTyped, TxTyped, IsFcn, Others, Job
      <3>3. MarksEntrants(p)' BY <1>0, <2>2, <3>2 DEF MarksEntrants
      <3> QED BY <1>0, <1>1, <3>1, <3>2, <3>3, StepEntrants
    <2> QED BY <2>3, <2>4
  <1>6. CASE Seat(p) /\ ~Commit(p, dirty[p], marks[p])
    <2>1. UNCHANGED <<fate, marks>> /\ job'[p].pc = "bye" /\ \A q \in Others(p) : job'[q] = job[q]
      BY <1>6, JobIs DEF Seat, IInv, JobsTyped, IsFcn, Others, Job
    <2> QED BY <1>0, <1>1, <2>1, FreeEntrants
  <1>7. CASE Bye(p) /\ ~Commit(p, dirty[p], marks[p])
    <2>1. UNCHANGED <<fate, marks>> /\ job'[p].pc \in {"lock", "idle"} /\ \A q \in Others(p) : job'[q] = job[q]
      BY <1>7, IdleOK DEF Bye, Resolve, Done, IInv, JobsTyped, Others, transaction
    <2> QED BY <1>0, <1>1, <2>1, FreeEntrants
  <1> QED BY <1>3, <1>4, <1>5, <1>6, <1>7

\* Who is put out sat in a match.
LEMMA CallEntrants ==
  ASSUME IInv, BInv, EInv, NEW p \in Procs, Finish(p) \/ Forfeit(p) \/ Unseat(p) \/ Oust(p) \/ Crash(p) PROVE EInv'
  <1>1. CASE Finish(p)
    <2>1. /\ UNCHANGED <<entrants, fate, marks, cancels, rows>> /\ job'[p].pc = "idle"
          /\ \A q \in Others(p) : job'[q] = job[q]
      BY <1>1, IdleOK DEF Finish, Done, IInv, JobsTyped, Others, transaction
    <2>2. tstate = "finished" => tstate' = "finished" BY <1>1 DEF Finish
    <2> QED BY <2>1, <2>2, FreeEntrants
  <1>2. CASE Forfeit(p)
    <2>1. UNCHANGED <<entrants, fate, marks, cancels, rows, tstate>> BY <1>2 DEF Forfeit, database, transaction, history
    <2>2. CASE OpenFor(job[p].entry) = {}
      <3>1. job'[p].pc = "idle" /\ \A q \in Others(p) : job'[q] = job[q]
        BY <1>2, <2>2, IdleOK DEF Forfeit, Done, IInv, JobsTyped, Others
      <3> QED BY <2>1, <3>1, FreeEntrants
    <2>3. CASE OpenFor(job[p].entry) # {}
      <3>1. PICK m : \/ job' = [job EXCEPT ![p].pc = "unseat", ![p].match = m]
                     \/ \E o : Resolve(p, m, o, FALSE, job[p].entry)
        BY <1>2, <2>3, ForfeitFinds
      <3>2. job'[p].pc \in {"unseat", "lock"} /\ \A q \in Others(p) : job'[q] = job[q]
        BY <3>1, JobIs DEF Resolve, IInv, JobsTyped, IsFcn, Others, Job
      <3> QED BY <2>1, <3>2, FreeEntrants
    <2> QED BY <2>2, <2>3
  <1>3. CASE Unseat(p)
    <2>1. /\ UNCHANGED <<entrants, fate, marks, cancels, tstate>>
          /\ job[p].match \in DOMAIN rows /\ rows # <<>>
      <3>1. job[p].match \in DOMAIN rows
        <4>1. job[p].pc = "unseat" BY <1>3, Zenon DEF Unseat
        <4>2. JobOK(p) BY JobIs
        <4> QED BY <4>1, <4>2 DEF JobOK, InMatch
      <3>2. UNCHANGED <<entrants, fate, marks, cancels, tstate>>
        <4>1. UNCHANGED <<tstate, entrants, fate, transaction, history>> BY <1>3, Zenon DEF Unseat
        <4> QED BY <4>1 DEF transaction, history
      <3>3. rows # <<>> BY <3>1
      <3> QED BY <3>1, <3>2, <3>3
    <2>2. /\ \A q \in Others(p) : job'[q] = job[q] /\ marks'[q] = marks[q]
          /\ \/ job'[p].pc = "forfeit"
             \/ job'[p].pc = "oust" /\ job'[p].entry = job[p].entry /\ job[p].entry \in Present(rows[job[p].match])
      <3> DEFINE j == [Idle EXCEPT !.pc = "forfeit", !.entry = job[p].entry]
      <3>1. \/ job' = [job EXCEPT ![p] = j]
            \/ /\ job[p].entry \in Present(rows[job[p].match])
               /\ \E row : job' = [job EXCEPT ![p].pc = "oust", ![p].row = row]
        BY <1>3, ZenonT(60) DEF Unseat
      <3>2. j.pc = "forfeit" BY DEF Idle
      <3> HIDE DEF j
      <3>3. CASE job' = [job EXCEPT ![p] = j] BY <2>1, <3>2, <3>3 DEF IInv, JobsTyped, Others
      <3>4. ASSUME NEW row, job' = [job EXCEPT ![p].pc = "oust", ![p].row = row]
            PROVE  job'[p].pc = "oust" /\ job'[p].entry = job[p].entry /\ \A q \in Others(p) : job'[q] = job[q]
        BY <3>4, JobIs DEF IInv, JobsTyped, IsFcn, Others, Job
      <3> QED BY <2>1, <3>1, <3>3, <3>4
    <2>3. Present(rows[job[p].match]) \subseteq Range(entrants) BY <2>1 DEF BInv, Entered
    <2>4. MarksEntrants(p)' BY <2>1, <2>2, <2>3 DEF MarksEntrants, EInv
    <2> QED BY <2>1, <2>2, <2>4, StepEntrants
  <1>4. CASE Oust(p)
    <2>1. /\ UNCHANGED <<entrants, marks, cancels, rows, tstate>> /\ job[p].entry \in Range(entrants)
          /\ fate' = [fate EXCEPT ![job[p].entry] = "eliminated"]
      BY <1>4 DEF Oust, transaction, history, EInv, MarksEntrants
    <2>2. job'[p].pc = "bye" /\ \A q \in Others(p) : job'[q] = job[q] /\ marks'[q] = marks[q]
      BY <1>4, <2>1, JobIs DEF Oust, IInv, JobsTyped, IsFcn, Others, Job
    <2>3. \A e \in Players \ Range(entrants) : fate'[e] = fate[e] BY <2>1 DEF IInv, FateTyped
    <2>4. MarksEntrants(p)' BY <2>1, <2>2 DEF MarksEntrants, EInv
    <2> QED BY <2>1, <2>2, <2>3, <2>4, StepEntrants
  <1>5. CASE Crash(p)
    <2>1. UNCHANGED <<entrants, fate, cancels, rows, tstate>> BY <1>5 DEF Crash, database
    <2>2. /\ job'[p].pc = "idle" /\ marks'[p] = <<>>
          /\ \A q \in Others(p) : job'[q] = job[q] /\ marks'[q] = marks[q]
      BY <1>5, IdleOK DEF Crash, Done, Gone, IInv, JobsTyped, TxTyped, Others
    <2>3. MarksEntrants(p)' BY <2>2 DEF MarksEntrants
    <2> QED BY <2>1, <2>2, <2>3, StepEntrants
  <1> QED BY <1>1, <1>2, <1>3, <1>4, <1>5

\* Whoever is not in the bracket is out of it, always.
LEMMA EInvHolds == ASSUME Punctual PROVE Spec => []EInv
  <1>1. Init => EInv
    <2> SUFFICES ASSUME Init PROVE EInv OBVIOUS
    <2>1. \A p \in Procs : job[p].pc = "idle" /\ DOMAIN marks[p] = {} BY DEF Init, Idle
    <2>2. \A e \in Players : fate[e] = "none" BY DEF Init
    <2> QED BY <2>1, <2>2 DEF EInv, MarksEntrants, AsideOK
  <1>2. IInv /\ IInv' /\ BInv /\ EInv /\ [Next]_vars => EInv'
    <2> SUFFICES ASSUME IInv, IInv', BInv, EInv, [Next]_vars PROVE EInv' OBVIOUS
    <2>1. ASSUME NEW e \in Players, Leave(e) PROVE EInv' BY <2>1, WithdrawnEntrants DEF Leave, history
    <2> QED BY <2>1, JoinEntrants, DrawEntrants, OutsideEntrants, InsideEntrants, CallEntrants DEF Next, Step
  <1> QED BY <1>1, <1>2, IInvHolds, BInvHolds, PTL DEF Spec

\* When every match is decided the final's winner is the champion and everyone else is
\* out, or being put out by the call that refused him, unless a process died or a
\* refused player won the final; beside him only who had won alone, before the
\* tournament was reopened (update_resolved_entries/2 and do_draw/2,
\* tournaments.ex:974-994, 720-729).
THEOREM ChampionCrownedHolds == ASSUME Punctual PROVE Spec => []ChampionCrowned
  <1>1. ASSUME IInv, CInv, EInv PROVE ChampionCrowned
    <2> SUFFICES ASSUME Decided, crashes = 0, ~\E e \in refused : Champion(e),
                        NEW e \in Players \ {job[p].entry : p \in Procs}
                 PROVE  IF e \in Range(entrants) THEN fate[e] = IF Champion(e) THEN "winner" ELSE "eliminated"
                        ELSE fate[e] = "none" \/ (fate[e] = "winner" /\ cancels > 0)
      BY DEF ChampionCrowned
    <2>1. CASE e \in Range(entrants)
      <3>1. /\ fate[e] \in {"active", "eliminated", "winner"}
            /\ fate[e] = "winner" => Champion(e)
            /\ Champion(e) /\ e \notin refused => fate[e] = "winner"
            /\ OpenFor(e) # {} \/ Leaving(e)
        BY <1>1, <2>1 DEF CInv, Standing, Decided
      <3>2. OpenFor(e) = {} BY DEF OpenFor, Decided
      <3>3. fate[e] # "active" BY <3>1, <3>2 DEF Leaving
      <3> QED BY <2>1, <3>1, <3>3
    <2>2. CASE e \notin Range(entrants)
      <3>1. rows # <<>> BY DEF Decided
      <3> QED BY <1>1, <2>2, <3>1 DEF EInv, AsideOK, ReopenedOrOver
    <2> QED BY <2>1, <2>2
  <1> QED BY <1>1, IInvHolds, CInvHolds, EInvHolds, PTL

=============================================================================
