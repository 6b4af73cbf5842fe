-------------------------- MODULE LockQueueProofs --------------------------
(***************************************************************************)
(* LockQueue's invariants and its refinement of Mutex, for any processes,  *)
(* keys, nesting and bounds.                                               *)
(***************************************************************************)
EXTENDS LockQueue, TLAPS

\* The reference of the latest call of a process.
Latest(p) == <<p, calls[p]>>

\* A section that took a key finds it in the process dictionary, once.
SectionsInv ==
  \A p \in Procs : \A i, j \in DOMAIN sections[p] :
    sections[p][i].took =>
      /\ sections[p][i].key \in held[p]
      /\ (sections[p][j].took /\ sections[p][i].key = sections[p][j].key) => i = j

\* What is in flight to the server: at most a release of the hold the server
\* still records, then an acquire the process is blocked in.
MailInv ==
  \A p \in Procs, k \in Keys : \A i \in DOMAIN mailbox[p][k] :
    /\ mailbox[p][k][i].op = "acquire" =>
         /\ i = Len(mailbox[p][k])
         /\ mailbox[p][k][i].ref = Latest(p)
         /\ blocked[p] = k
    /\ mailbox[p][k][i].op = "release" =>
         /\ i = 1
         /\ k \notin held[p]
         /\ holder[k] # NoRef /\ Owner(holder[k]) = p /\ holder[k] \notin replies

\* A key in the dictionary of a live process is that process's at the server.
HeldInv ==
  \A p \in Procs : \A k \in held[p] :
    /\ blocked[p] # k
    /\ mailbox[p][k] = << >>
    /\ p \in alive => holder[k] # NoRef /\ Owner(holder[k]) = p /\ holder[k] \notin replies

\* A reply on its way answers the call its process is blocked in.
RepliesInv ==
  \A r \in replies :
    /\ r = Latest(Owner(r))
    /\ blocked[Owner(r)] # NoKey
    /\ mailbox[Owner(r)][blocked[Owner(r)]] = << >>
    /\ Owner(r) \in alive => holder[blocked[Owner(r)]] = r

\* A reference in line is the call its process is blocked in.
LineInv ==
  \A k \in Keys : \A i \in DOMAIN waiting[k] :
    /\ waiting[k][i] = Latest(Owner(waiting[k][i]))
    /\ blocked[Owner(waiting[k][i])] = k
    /\ mailbox[Owner(waiting[k][i])][k] = << >>
    /\ waiting[k][i] \notin replies

\* The holder at the server is in its section, about to be told so, or its
\* release is the next message the server hears from it.
HolderInv ==
  \A k \in Keys : holder[k] # NoRef =>
    LET p == Owner(holder[k]) IN
      IF mailbox[p][k] = << >>
      THEN k \in held[p] \/ (holder[k] \in replies /\ blocked[p] = k)
      ELSE mailbox[p][k][1].op = "release"

\* A hold older than the call its process is blocked in is not mistaken for it.
CallsInv ==
  \A k \in Keys : holder[k] # NoRef =>
    /\ holder[k][2] <= calls[Owner(holder[k])]
    /\ holder[k] = Latest(Owner(holder[k])) => blocked[Owner(holder[k])] \in {NoKey, k}

\* Every section, and every key of the dictionary, is backed by the section
\* that took the key, which is the outermost one of that key.
Backed(s, h) ==
  /\ \A k \in h : \E j \in DOMAIN s : s[j].took /\ s[j].key = k
  /\ \A i \in DOMAIN s : \E j \in DOMAIN s : j >= i /\ s[j].took /\ s[j].key = s[i].key
NestInv == \A p \in Procs : Backed(sections[p], held[p])

IInv == /\ TypeOK
        /\ SectionsInv
        /\ MailInv
        /\ HeldInv
        /\ RepliesInv
        /\ LineInv
        /\ HolderInv
        /\ CallsInv
        /\ MonitorsExact

-----------------------------------------------------------------------------
\* Lines as sequences without repetition.

Elems(s) == {s[i] : i \in DOMAIN s}
Distinct(s) == \A i, j \in DOMAIN s : s[i] = s[j] => i = j

\* Joining a line adds one reference, at the end.
LEMMA AppendLine ==
  ASSUME NEW S, NEW s \in Seq(S), NEW e \in S, Distinct(s), e \notin Elems(s)
  PROVE  /\ Append(s, e) \in Seq(S)
         /\ Elems(Append(s, e)) = Elems(s) \cup {e}
         /\ Distinct(Append(s, e))
         /\ \A i \in DOMAIN s : i \in DOMAIN Append(s, e) /\ Append(s, e)[i] = s[i]
<1>1. /\ Append(s, e) \in Seq(S) /\ Len(s) \in Nat /\ DOMAIN s = 1..Len(s)
      /\ DOMAIN Append(s, e) = 1..(Len(s) + 1)
      /\ \A i \in 1..Len(s) : Append(s, e)[i] = s[i]
      /\ Append(s, e)[Len(s) + 1] = e
  OBVIOUS
<1>. DEFINE t == Append(s, e)
<1>. HIDE DEF t
<1>2. Elems(t) = Elems(s) \cup {e}
  BY <1>1 DEF Elems, t
<1>3. Distinct(t)
  BY <1>1 DEF Elems, Distinct, t
<1>. QED BY <1>1, <1>2, <1>3 DEF t

LEMMA AppendSeq ==
  ASSUME NEW S, NEW s \in Seq(S), NEW e \in S
  PROVE  /\ Append(s, e) \in Seq(S) /\ Append(s, e) # << >>
         /\ Len(Append(s, e)) = Len(s) + 1
         /\ DOMAIN Append(s, e) = 1..(Len(s) + 1)
         /\ Len(s) \in Nat /\ DOMAIN s = 1..Len(s)
         /\ \A i \in 1..Len(s) : Append(s, e)[i] = s[i]
         /\ Append(s, e)[Len(s) + 1] = e
OBVIOUS

LEMMA LenZero ==
  ASSUME NEW S, NEW s \in Seq(S), Len(s) = 0
  PROVE  s = << >>
OBVIOUS

\* Serving a line removes its head.
LEMMA TailLine ==
  ASSUME NEW S, NEW s \in Seq(S), s # << >>, Distinct(s)
  PROVE  /\ Tail(s) \in Seq(S)
         /\ Head(s) \in S /\ Head(s) = s[1] /\ 1 \in DOMAIN s
         /\ Elems(Tail(s)) = Elems(s) \ {Head(s)}
         /\ Head(s) \in Elems(s)
         /\ Distinct(Tail(s))
         /\ \A i \in DOMAIN s : i # 1 => i - 1 \in DOMAIN Tail(s) /\ Tail(s)[i - 1] = s[i]
<1>1. /\ Tail(s) \in Seq(S) /\ Len(s) \in Nat \ {0} /\ Len(Tail(s)) = Len(s) - 1
      /\ DOMAIN s = 1..Len(s) /\ DOMAIN Tail(s) = 1..(Len(s) - 1)
      /\ \A i \in 1..(Len(s) - 1) : Tail(s)[i] = s[i + 1]
      /\ Head(s) = s[1]
  OBVIOUS
<1>2. Elems(Tail(s)) = Elems(s) \ {Head(s)}
  <2>1. ASSUME NEW x \in Elems(Tail(s)) PROVE x \in Elems(s) \ {Head(s)}
    BY <1>1 DEF Elems, Distinct
  <2>2. ASSUME NEW x \in Elems(s) \ {Head(s)} PROVE x \in Elems(Tail(s))
    <3>1. PICK i \in 1..Len(s) : x = s[i] /\ i # 1
      BY <1>1 DEF Elems
    <3>2. i - 1 \in 1..(Len(s) - 1) /\ Tail(s)[i - 1] = x
      BY <1>1, <3>1
    <3>. QED BY <1>1, <3>2 DEF Elems
  <2>. QED BY <2>1, <2>2
<1>3. Distinct(Tail(s))
  BY <1>1 DEF Distinct
<1>4. Head(s) \in S /\ 1 \in DOMAIN s /\ Head(s) \in Elems(s)
  BY <1>1 DEF Elems
<1>5. \A i \in DOMAIN s : i # 1 => i - 1 \in DOMAIN Tail(s) /\ Tail(s)[i - 1] = s[i]
  BY <1>1
<1>. QED BY <1>1, <1>2, <1>3, <1>4, <1>5

\* A death takes one reference out of the line and keeps the order of the rest.
LEMMA RemoveLine ==
  ASSUME NEW S, NEW s \in Seq(S), NEW n \in DOMAIN s, Distinct(s)
  PROVE  /\ OutOfLine(s, n) \in Seq(S)
         /\ Elems(OutOfLine(s, n)) = Elems(s) \ {s[n]}
         /\ Distinct(OutOfLine(s, n))
         /\ \A i \in DOMAIN s :
              /\ i < n => i \in DOMAIN OutOfLine(s, n) /\ OutOfLine(s, n)[i] = s[i]
              /\ i > n => i - 1 \in DOMAIN OutOfLine(s, n) /\ OutOfLine(s, n)[i - 1] = s[i]
<1>. DEFINE r == OutOfLine(s, n)
<1>1. /\ Len(s) - 1 \in Nat /\ n \in 1..Len(s) /\ DOMAIN s = 1..Len(s)
      /\ \A j \in 1..Len(s) : s[j] \in S
  OBVIOUS
<1>2. \A j \in 1..(Len(s) - 1) : (IF j < n THEN s[j] ELSE s[j + 1]) \in S
  BY <1>1
<1>3. /\ r \in [1..(Len(s) - 1) -> S]
      /\ \A j \in 1..(Len(s) - 1) : r[j] = IF j < n THEN s[j] ELSE s[j + 1]
  BY <1>2 DEF OutOfLine
<1>. HIDE DEF r
<1>4. r \in Seq(S) /\ DOMAIN r = 1..(Len(s) - 1)
  BY <1>1, <1>3
<1>5. ASSUME NEW x \in Elems(r) PROVE x \in Elems(s) \ {s[n]}
  <2>1. PICK i \in 1..(Len(s) - 1) : x = r[i]
    BY <1>4, <1>5 DEF Elems
  <2>2. CASE i < n
    BY <1>1, <1>3, <2>1, <2>2 DEF Elems, Distinct
  <2>3. CASE ~(i < n)
    <3>1. x = s[i + 1] /\ i + 1 \in 1..Len(s) /\ i + 1 # n
      BY <1>1, <1>3, <2>1, <2>3
    <3>. QED BY <1>1, <3>1 DEF Elems, Distinct
  <2>. QED BY <2>2, <2>3
<1>6. \A i \in DOMAIN s : /\ i < n => i \in DOMAIN r /\ r[i] = s[i]
                          /\ i > n => i - 1 \in DOMAIN r /\ r[i - 1] = s[i]
  BY <1>1, <1>3, <1>4
<1>7. ASSUME NEW x \in Elems(s) \ {s[n]} PROVE x \in Elems(r)
  <2>1. PICK i \in 1..Len(s) : x = s[i] /\ i # n
    BY <1>1, <1>7 DEF Elems
  <2>. QED BY <1>1, <1>6, <2>1 DEF Elems
<1>8. Distinct(r)
  <2>. SUFFICES ASSUME NEW i \in 1..(Len(s) - 1), NEW j \in 1..(Len(s) - 1), r[i] = r[j]
                PROVE  i = j
    BY <1>4 DEF Distinct
  <2>. DEFINE At(x) == IF x < n THEN x ELSE x + 1
  <2>1. /\ At(i) \in 1..Len(s) /\ r[i] = s[At(i)]
        /\ At(j) \in 1..Len(s) /\ r[j] = s[At(j)]
    BY <1>1, <1>3
  <2>2. At(i) = At(j)
    BY <1>1, <2>1 DEF Distinct
  <2>. QED BY <2>2
<1>. QED BY <1>4, <1>5, <1>6, <1>7, <1>8 DEF r

-----------------------------------------------------------------------------
\* The steps of a caller.

USE DEF Owner, Free

LEMMA AskStep ==
  ASSUME IInv, NEW p \in Procs, NEW k \in Keys, Ask(p, k)
  PROVE  IInv'
<1>. USE MaxCallsAssumption, NoKeyAssumption
<1>. DEFINE msg == [op |-> "acquire", ref |-> <<p, calls[p] + 1>>]
<1>1. /\ blocked[p] = NoKey /\ k \notin held[p]
      /\ calls[p] < MaxCalls
      /\ UNCHANGED <<alive, sections, held, replies, holder, waiting, monitors>>
      /\ mailbox' = [mailbox EXCEPT ![p][k] = Append(@, msg)]
      /\ calls' = [calls EXCEPT ![p] = @ + 1]
      /\ blocked' = [blocked EXCEPT ![p] = k]
  BY DEF Ask, Running, serverVars
<1>2. msg \in Message /\ msg.op = "acquire" /\ msg.ref = Latest(p)'
  BY <1>1 DEF IInv, TypeOK, Message, Refs, Latest
<1>. HIDE DEF msg
<1>3. TypeOK'
  BY <1>1, <1>2 DEF IInv, TypeOK
<1>4. \A q \in Procs : q # p => Latest(q)' = Latest(q) /\ blocked'[q] = blocked[q]
  BY <1>1 DEF IInv, TypeOK, Latest
<1>5. /\ \A q \in Procs, h \in Keys : ~(q = p /\ h = k) => mailbox'[q][h] = mailbox[q][h]
      /\ mailbox'[p][k] = Append(mailbox[p][k], msg)
      /\ blocked'[p] = k
  BY <1>1 DEF IInv, TypeOK
<1>6. SectionsInv'
  BY <1>1 DEF IInv, SectionsInv
<1>7. MailInv'
  <2>. SUFFICES ASSUME NEW q \in Procs, NEW h \in Keys, NEW i \in DOMAIN mailbox'[q][h]
                PROVE  /\ mailbox'[q][h][i].op = "acquire" =>
                            /\ i = Len(mailbox'[q][h])
                            /\ mailbox'[q][h][i].ref = Latest(q)'
                            /\ blocked'[q] = h
                       /\ mailbox'[q][h][i].op = "release" =>
                            /\ i = 1
                            /\ h \notin held[q]
                            /\ holder[h] # NoRef /\ Owner(holder[h]) = q /\ holder[h] \notin replies
    BY <1>1 DEF MailInv
  <2>1. CASE q = p /\ h = k
    <3>1. /\ DOMAIN mailbox'[q][h] = 1..(Len(mailbox[p][k]) + 1)
          /\ Len(mailbox'[q][h]) = Len(mailbox[p][k]) + 1
          /\ Len(mailbox[p][k]) \in Nat /\ DOMAIN mailbox[p][k] = 1..Len(mailbox[p][k])
          /\ \A j \in 1..Len(mailbox[p][k]) : mailbox'[q][h][j] = mailbox[p][k][j]
          /\ mailbox'[q][h][Len(mailbox[p][k]) + 1] = msg
      <4>1. mailbox[p][k] \in Seq(Message)
        BY DEF IInv, TypeOK
      <4>2. mailbox'[q][h] = Append(mailbox[p][k], msg)
        BY <1>5, <2>1
      <4>. QED BY <1>2, <4>1, <4>2, AppendSeq
    <3>2. CASE i = Len(mailbox[p][k]) + 1
      <4>1. mailbox'[q][h][i] = msg /\ i = Len(mailbox'[q][h])
        BY <3>1, <3>2
      <4>. QED BY <1>2, <1>5, <2>1, <4>1
    <3>3. CASE i \in 1..Len(mailbox[p][k])
      BY <1>1, <2>1, <3>1, <3>3 DEF IInv, MailInv
    <3>. QED BY <3>1, <3>2, <3>3
  <2>2. CASE q = p /\ h # k
    BY <1>1, <1>5, <2>2 DEF IInv, MailInv
  <2>3. CASE q # p
    BY <1>1, <1>4, <1>5, <2>3 DEF IInv, MailInv
  <2>. QED BY <2>1, <2>2, <2>3
<1>8. HeldInv'
  BY <1>1, <1>4, <1>5 DEF IInv, TypeOK, HeldInv
<1>9. RepliesInv'
  <2>. SUFFICES ASSUME NEW r \in replies
                PROVE  /\ r = Latest(Owner(r))' /\ blocked'[Owner(r)] # NoKey
                       /\ mailbox'[Owner(r)][blocked'[Owner(r)]] = << >>
                       /\ Owner(r) \in alive => holder[blocked'[Owner(r)]] = r
    BY <1>1 DEF RepliesInv, Latest
  <2>1. Owner(r) \in Procs /\ Owner(r) # p /\ blocked[Owner(r)] \in Keys
    BY <1>1 DEF IInv, TypeOK, RepliesInv, Refs
  <2>. QED BY <1>4, <1>5, <2>1 DEF IInv, RepliesInv
<1>10. LineInv'
  <2>. SUFFICES ASSUME NEW h \in Keys, NEW i \in DOMAIN waiting[h]
                PROVE  /\ waiting[h][i] = <<Owner(waiting[h][i]), calls'[Owner(waiting[h][i])]>>
                       /\ blocked'[Owner(waiting[h][i])] = h
                       /\ mailbox'[Owner(waiting[h][i])][h] = << >>
                       /\ waiting[h][i] \notin replies
    BY <1>1 DEF LineInv, Latest
  <2>1. waiting[h][i] \in Refs
    BY DEF IInv, TypeOK
  <2>2. Owner(waiting[h][i]) \in Procs
    BY <2>1 DEF Refs
  <2>3. /\ waiting[h][i] = Latest(Owner(waiting[h][i])) /\ blocked[Owner(waiting[h][i])] = h
        /\ mailbox[Owner(waiting[h][i])][h] = << >> /\ waiting[h][i] \notin replies
    BY DEF IInv, LineInv
  <2>4. Owner(waiting[h][i]) # p
    BY <1>1, <2>3
  <2>. QED BY <1>4, <1>5, <2>2, <2>3, <2>4 DEF Latest
<1>11. HolderInv'
  <2>. SUFFICES ASSUME NEW h \in Keys, holder[h] # NoRef
                PROVE  IF mailbox'[Owner(holder[h])][h] = << >>
                       THEN \/ h \in held[Owner(holder[h])]
                            \/ holder[h] \in replies /\ blocked'[Owner(holder[h])] = h
                       ELSE mailbox'[Owner(holder[h])][h][1].op = "release"
    BY <1>1 DEF HolderInv
  <2>1. Owner(holder[h]) \in Procs
    BY DEF IInv, TypeOK, Refs
  <2>2. CASE Owner(holder[h]) = p /\ h = k
    <3>1. mailbox[p][k] # << >> /\ mailbox[p][k] \in Seq(Message)
      BY <1>1, <2>2 DEF IInv, TypeOK, HolderInv
    <3>2. mailbox'[p][k] # << >> /\ mailbox'[p][k][1] = mailbox[p][k][1]
      BY <1>2, <1>5, <3>1
    <3>. QED BY <2>2, <3>1, <3>2 DEF IInv, HolderInv
  <2>3. CASE Owner(holder[h]) = p /\ h # k
    BY <1>1, <1>5, <2>3 DEF IInv, HolderInv
  <2>4. CASE Owner(holder[h]) # p
    BY <1>4, <1>5, <2>1, <2>4 DEF IInv, HolderInv
  <2>. QED BY <2>2, <2>3, <2>4
<1>12. MonitorsExact'
  BY <1>1 DEF IInv, MonitorsExact, LineRefs
<1>13. CallsInv'
  <2>. SUFFICES ASSUME NEW h \in Keys, holder[h] # NoRef
                PROVE  /\ holder[h][2] <= calls'[Owner(holder[h])]
                       /\ holder[h] = <<Owner(holder[h]), calls'[Owner(holder[h])]>> =>
                            blocked'[Owner(holder[h])] \in {NoKey, h}
    BY <1>1 DEF CallsInv, Latest
  <2>1. holder[h] \in Procs \X (1..MaxCalls) /\ calls \in [Procs -> 0..MaxCalls]
    BY DEF IInv, TypeOK, Refs
  <2>2. holder[h][2] <= calls[Owner(holder[h])]
    BY DEF IInv, CallsInv
  <2>3. CASE Owner(holder[h]) = p
    BY <1>1, <2>1, <2>2, <2>3
  <2>4. CASE Owner(holder[h]) # p
    BY <1>4, <2>1, <2>2, <2>4 DEF IInv, CallsInv, Latest
  <2>. QED BY <2>3, <2>4
<1>. QED BY <1>3, <1>6, <1>7, <1>8, <1>9, <1>10, <1>11, <1>12, <1>13 DEF IInv

LEMMA PushSeq ==
  ASSUME NEW S, NEW s \in Seq(S), NEW e \in S
  PROVE  /\ <<e>> \o s \in Seq(S)
         /\ DOMAIN (<<e>> \o s) = 1..(Len(s) + 1)
         /\ Len(s) \in Nat /\ DOMAIN s = 1..Len(s)
         /\ (<<e>> \o s)[1] = e
         /\ \A i \in 2..(Len(s) + 1) : (<<e>> \o s)[i] = s[i - 1] /\ i - 1 \in DOMAIN s
OBVIOUS

LEMMA TailSeq ==
  ASSUME NEW S, NEW s \in Seq(S), s # << >>
  PROVE  /\ Tail(s) \in Seq(S) /\ Head(s) = s[1] /\ s[1] \in S /\ 1 \in DOMAIN s
         /\ Len(s) \in Nat \ {0} /\ DOMAIN s = 1..Len(s)
         /\ Len(Tail(s)) = Len(s) - 1 /\ DOMAIN Tail(s) = 1..(Len(s) - 1)
         /\ \A i \in 1..(Len(s) - 1) : Tail(s)[i] = s[i + 1] /\ i + 1 \in DOMAIN s
OBVIOUS

LEMMA ReenterStep ==
  ASSUME IInv, NEW p \in Procs, NEW k \in Keys, Reenter(p, k)
  PROVE  IInv'
<1>1. /\ UNCHANGED <<alive, calls, held, blocked, mailbox, replies, holder, waiting, monitors>>
      /\ sections' = [sections EXCEPT ![p] = <<Inner(k)>> \o @]
  BY DEF Reenter, serverVars
<1>2. Inner(k) \in Section /\ ~Inner(k).took
  BY DEF Inner, Section
<1>3. /\ sections[p] \in Seq(Section) /\ sections'[p] = <<Inner(k)>> \o sections[p]
      /\ \A q \in Procs : q # p => sections'[q] = sections[q]
  BY <1>1 DEF IInv, TypeOK
<1>4. TypeOK'
  <2>1. <<Inner(k)>> \o sections[p] \in Seq(Section)
    BY <1>2, <1>3, PushSeq
  <2>. QED BY <1>1, <2>1 DEF IInv, TypeOK
<1>5. SectionsInv'
  <2>. SUFFICES ASSUME NEW q \in Procs, NEW i \in DOMAIN sections'[q], NEW j \in DOMAIN sections'[q],
                       sections'[q][i].took
                PROVE  /\ sections'[q][i].key \in held[q]
                       /\ sections'[q][j].took /\ sections'[q][i].key = sections'[q][j].key => i = j
    BY <1>1 DEF SectionsInv
  <2>1. CASE q = p
    <3>1. /\ DOMAIN sections'[q] = 1..(Len(sections[p]) + 1) /\ Len(sections[p]) \in Nat
          /\ sections'[q][1] = Inner(k)
          /\ \A n \in 2..(Len(sections[p]) + 1) :
               sections'[q][n] = sections[p][n - 1] /\ n - 1 \in DOMAIN sections[p]
      <4>1. sections'[q] = <<Inner(k)>> \o sections[p]
        BY <1>3, <2>1
      <4>. QED BY <1>2, <1>3, <4>1, PushSeq
    <3>2. i \in 2..(Len(sections[p]) + 1) /\ (sections'[q][j].took => j \in 2..(Len(sections[p]) + 1))
      BY <1>2, <3>1
    <3>3. /\ i - 1 \in DOMAIN sections[p] /\ sections'[q][i] = sections[p][i - 1]
          /\ sections'[q][j].took =>
               j - 1 \in DOMAIN sections[p] /\ sections'[q][j] = sections[p][j - 1]
          /\ i \in Int /\ j \in Int
      BY <3>1, <3>2
    <3>4. sections'[q][i].key \in held[q]
      BY <2>1, <3>3 DEF IInv, SectionsInv
    <3>5. ASSUME sections'[q][j].took, sections'[q][i].key = sections'[q][j].key
          PROVE  i = j
      <4>1. i - 1 = j - 1
        BY <3>3, <3>5 DEF IInv, SectionsInv
      <4>. QED BY <3>3, <4>1
    <3>. QED BY <3>4, <3>5
  <2>2. CASE q # p
    BY <1>3, <2>2 DEF IInv, SectionsInv
  <2>. QED BY <2>1, <2>2
<1>6. MailInv' /\ HeldInv' /\ RepliesInv' /\ LineInv' /\ HolderInv' /\ CallsInv' /\ MonitorsExact'
  BY <1>1 DEF IInv, MailInv, HeldInv, RepliesInv, LineInv, HolderInv, CallsInv, MonitorsExact,
              LineRefs, Latest
<1>. QED BY <1>4, <1>5, <1>6 DEF IInv

LEMMA EnterStep ==
  ASSUME IInv, NEW p \in Procs, Enter(p)
  PROVE  IInv'
<1>. DEFINE k == blocked[p]
            new == [key |-> k, took |-> TRUE]
<1>1. /\ UNCHANGED <<alive, calls, mailbox, holder, waiting, monitors>>
      /\ p \in alive /\ k # NoKey /\ Latest(p) \in replies
      /\ replies' = replies \ {Latest(p)}
      /\ held' = [held EXCEPT ![p] = @ \cup {k}]
      /\ sections' = [sections EXCEPT ![p] = <<new>> \o @]
      /\ blocked' = [blocked EXCEPT ![p] = NoKey]
  BY DEF Enter, serverVars, Latest
<1>2. k \in Keys /\ k \notin held[p] /\ new \in Section /\ new.took /\ new.key = k
  BY <1>1 DEF IInv, TypeOK, HeldInv, Section
<1>3. /\ sections[p] \in Seq(Section) /\ sections'[p] = <<new>> \o sections[p]
      /\ \A q \in Procs : q # p => sections'[q] = sections[q]
  BY <1>1 DEF IInv, TypeOK
<1>4. /\ held'[p] = held[p] \cup {k} /\ blocked'[p] = NoKey
      /\ \A q \in Procs : q # p => held'[q] = held[q] /\ blocked'[q] = blocked[q]
  BY <1>1 DEF IInv, TypeOK
\* The reply is the key's: p is its holder, and nothing of p is in flight.
<1>5. mailbox[p][k] = << >> /\ holder[k] = Latest(p)
  BY <1>1 DEF IInv, RepliesInv, Latest
<1>. HIDE DEF k, new
<1>6. TypeOK'
  <2>1. <<new>> \o sections[p] \in Seq(Section)
    BY <1>2, <1>3, PushSeq
  <2>. QED BY <1>1, <1>2, <2>1 DEF IInv, TypeOK
<1>7. SectionsInv'
  <2>. SUFFICES ASSUME NEW q \in Procs, NEW i \in DOMAIN sections'[q], NEW j \in DOMAIN sections'[q],
                       sections'[q][i].took
                PROVE  /\ sections'[q][i].key \in held'[q]
                       /\ sections'[q][j].took /\ sections'[q][i].key = sections'[q][j].key => i = j
    BY DEF SectionsInv
  <2>1. CASE q = p
    <3>1. /\ DOMAIN sections'[q] = 1..(Len(sections[p]) + 1) /\ Len(sections[p]) \in Nat
          /\ sections'[q][1] = new
          /\ \A n \in 2..(Len(sections[p]) + 1) :
               sections'[q][n] = sections[p][n - 1] /\ n - 1 \in DOMAIN sections[p]
      <4>1. sections'[q] = <<new>> \o sections[p]
        BY <1>3, <2>1
      <4>. QED BY <1>2, <1>3, <4>1, PushSeq
    <3>2. \A n \in DOMAIN sections'[q] :
            \/ n = 1
            \/ n - 1 \in DOMAIN sections[p] /\ sections'[q][n] = sections[p][n - 1] /\ n \in Int
      BY <3>1
    <3>3. \A n \in DOMAIN sections[p] : sections[p][n].took => sections[p][n].key \in held[p]
      BY DEF IInv, SectionsInv
    <3>4. sections'[q][i].key \in held'[q]
      BY <1>2, <1>4, <2>1, <3>1, <3>2, <3>3
    <3>5. ASSUME sections'[q][j].took, sections'[q][i].key = sections'[q][j].key
          PROVE  i = j
      <4>1. CASE i = 1 /\ j = 1
        BY <4>1
      <4>2. CASE i = 1 /\ j # 1
        BY <1>2, <3>1, <3>2, <3>3, <3>5, <4>2
      <4>3. CASE i # 1 /\ j = 1
        BY <1>2, <3>1, <3>2, <3>3, <3>5, <4>3
      <4>4. CASE i # 1 /\ j # 1
        <5>1. i - 1 = j - 1
          BY <3>2, <3>5, <4>4 DEF IInv, SectionsInv
        <5>. QED BY <3>2, <4>4, <5>1
      <4>. QED BY <4>1, <4>2, <4>3, <4>4
    <3>. QED BY <3>4, <3>5
  <2>2. CASE q # p
    BY <1>3, <1>4, <2>2 DEF IInv, SectionsInv
  <2>. QED BY <2>1, <2>2
<1>8. MailInv'
  <2>. SUFFICES ASSUME NEW q \in Procs, NEW h \in Keys, NEW i \in DOMAIN mailbox[q][h]
                PROVE  /\ mailbox[q][h][i].op = "acquire" =>
                            /\ i = Len(mailbox[q][h])
                            /\ mailbox[q][h][i].ref = Latest(q)
                            /\ blocked'[q] = h
                       /\ mailbox[q][h][i].op = "release" =>
                            /\ i = 1
                            /\ h \notin held'[q]
                            /\ holder[h] # NoRef /\ Owner(holder[h]) = q /\ holder[h] \notin replies'
    BY <1>1 DEF MailInv, Latest
  <2>1. CASE q = p /\ h = k
    BY <1>5, <2>1
  <2>2. CASE q # p
    BY <1>1, <1>4, <2>2 DEF IInv, MailInv
  <2>3. CASE q = p /\ h # k
    BY <1>1, <1>4, <2>3 DEF IInv, MailInv, k
  <2>. QED BY <2>1, <2>2, <2>3
<1>9. HeldInv'
  <2>. SUFFICES ASSUME NEW q \in Procs, NEW h \in held'[q]
                PROVE  /\ blocked'[q] # h
                       /\ mailbox[q][h] = << >>
                       /\ q \in alive => holder[h] # NoRef /\ Owner(holder[h]) = q /\ holder[h] \notin replies'
    BY <1>1 DEF HeldInv
  <2>1. CASE q = p /\ h = k
    <3>1. Latest(p) \in Refs
      BY <1>1 DEF IInv, TypeOK
    <3>. QED BY <1>1, <1>2, <1>4, <1>5, <2>1, <3>1, NoRefAssumption, NoKeyAssumption DEF Latest
  <2>2. CASE q = p /\ h # k
    <3>1. h \in held[p] /\ h \in Keys
      BY <1>4, <2>2 DEF IInv, TypeOK
    <3>. QED BY <1>1, <1>4, <2>2, <3>1, NoKeyAssumption DEF IInv, HeldInv
  <2>3. CASE q # p
    BY <1>1, <1>4, <2>3 DEF IInv, HeldInv
  <2>. QED BY <2>1, <2>2, <2>3
<1>10. RepliesInv'
  <2>. SUFFICES ASSUME NEW r \in replies, r # Latest(p)
                PROVE  /\ r = Latest(Owner(r))
                       /\ blocked'[Owner(r)] # NoKey
                       /\ mailbox[Owner(r)][blocked'[Owner(r)]] = << >>
                       /\ Owner(r) \in alive => holder[blocked'[Owner(r)]] = r
    BY <1>1 DEF RepliesInv, Latest
  <2>1. Owner(r) \in Procs /\ Owner(r) # p
    BY DEF IInv, TypeOK, RepliesInv, Refs
  <2>. QED BY <1>4, <2>1 DEF IInv, RepliesInv
<1>11. LineInv'
  <2>. SUFFICES ASSUME NEW h \in Keys, NEW i \in DOMAIN waiting[h]
                PROVE  /\ waiting[h][i] = Latest(Owner(waiting[h][i]))
                       /\ blocked'[Owner(waiting[h][i])] = h
                       /\ mailbox[Owner(waiting[h][i])][h] = << >>
                       /\ waiting[h][i] \notin replies
    BY <1>1 DEF LineInv, Latest
  <2>1. waiting[h][i] \in Refs
    BY DEF IInv, TypeOK
  <2>2. Owner(waiting[h][i]) \in Procs
    BY <2>1 DEF Refs
  <2>3. /\ waiting[h][i] = Latest(Owner(waiting[h][i])) /\ blocked[Owner(waiting[h][i])] = h
        /\ mailbox[Owner(waiting[h][i])][h] = << >> /\ waiting[h][i] \notin replies
    BY DEF IInv, LineInv
  <2>. QED BY <1>1, <1>4, <2>2, <2>3
<1>12. HolderInv'
  <2>. SUFFICES ASSUME NEW h \in Keys, holder[h] # NoRef
                PROVE  IF mailbox[Owner(holder[h])][h] = << >>
                       THEN \/ h \in held'[Owner(holder[h])]
                            \/ holder[h] \in replies' /\ blocked'[Owner(holder[h])] = h
                       ELSE mailbox[Owner(holder[h])][h][1].op = "release"
    BY <1>1 DEF HolderInv
  <2>1. Owner(holder[h]) \in Procs
    BY DEF IInv, TypeOK, Refs
  <2>2. CASE Owner(holder[h]) = p
    BY <1>4, <2>2 DEF IInv, HolderInv, k
  <2>3. CASE Owner(holder[h]) # p
    <3>1. holder[h] # Latest(p)
      BY <2>3 DEF Latest
    <3>. QED BY <1>1, <1>4, <2>1, <2>3, <3>1 DEF IInv, HolderInv
  <2>. QED BY <2>2, <2>3
<1>13. MonitorsExact'
  BY <1>1 DEF IInv, MonitorsExact, LineRefs
<1>14. CallsInv'
  <2>. SUFFICES ASSUME NEW h \in Keys, holder[h] # NoRef
                PROVE  /\ holder[h][2] <= calls[Owner(holder[h])]
                       /\ holder[h] = <<Owner(holder[h]), calls[Owner(holder[h])]>> =>
                            blocked'[Owner(holder[h])] \in {NoKey, h}
    BY <1>1 DEF CallsInv, Latest
  <2>1. Owner(holder[h]) \in Procs
    BY DEF IInv, TypeOK, Refs
  <2>. QED BY <1>4, <2>1 DEF IInv, CallsInv, Latest
<1>. QED BY <1>6, <1>7, <1>8, <1>9, <1>10, <1>11, <1>12, <1>13, <1>14 DEF IInv

LEMMA DieStep ==
  ASSUME IInv, NEW p \in Procs, Die(p)
  PROVE  IInv'
<1>1. /\ UNCHANGED <<calls, sections, held, blocked, mailbox, replies, holder, waiting, monitors>>
      /\ alive' = alive \ {p}
  BY DEF Die, serverVars
<1>2. TypeOK' /\ SectionsInv'
  BY <1>1 DEF IInv, TypeOK, SectionsInv
<1>3. MailInv' /\ LineInv' /\ HolderInv' /\ CallsInv' /\ MonitorsExact'
  BY <1>1 DEF IInv, MailInv, LineInv, HolderInv, CallsInv, MonitorsExact, LineRefs, Latest
<1>4. HeldInv' /\ RepliesInv'
  BY <1>1 DEF IInv, HeldInv, RepliesInv, Latest
<1>. QED BY <1>2, <1>3, <1>4 DEF IInv

LEMMA LeaveStep ==
  ASSUME IInv, NEW p \in Procs, Leave(p)
  PROVE  IInv'
<1>. DEFINE s == sections[p][1]
            k == s.key
<1>1. /\ UNCHANGED <<alive, calls, blocked, replies, holder, waiting, monitors>>
      /\ p \in alive /\ blocked[p] = NoKey /\ sections[p] # << >>
      /\ sections' = [sections EXCEPT ![p] = Tail(@)]
      /\ Head(sections[p]) = s
  BY DEF Leave, Running, serverVars, IInv, TypeOK
<1>2. /\ sections[p] \in Seq(Section) /\ sections'[p] = Tail(sections[p])
      /\ \A q \in Procs : q # p => sections'[q] = sections[q]
  BY <1>1 DEF IInv, TypeOK
<1>3. /\ Tail(sections[p]) \in Seq(Section) /\ s \in Section /\ k \in Keys
      /\ 1 \in DOMAIN sections[p]
      /\ \A i \in DOMAIN sections'[p] :
           i + 1 \in DOMAIN sections[p] /\ sections'[p][i] = sections[p][i + 1] /\ i \in Nat \ {0}
  <2>1. s \in Section /\ Tail(sections[p]) \in Seq(Section) /\ 1 \in DOMAIN sections[p]
    BY <1>1, <1>2, TailSeq
  <2>2. k \in Keys
    BY <2>1 DEF Section
  <2>3. /\ Len(sections[p]) \in Nat \ {0} /\ DOMAIN Tail(sections[p]) = 1..(Len(sections[p]) - 1)
        /\ \A i \in 1..(Len(sections[p]) - 1) :
             Tail(sections[p])[i] = sections[p][i + 1] /\ i + 1 \in DOMAIN sections[p]
    BY <1>1, <1>2, TailSeq
  <2>. QED BY <1>2, <2>1, <2>2, <2>3
<1>4. s.took => k \in held[p]
  BY <1>3 DEF IInv, SectionsInv
<1>. HIDE DEF k, s
<1>5. CASE ~s.took
  <2>1. UNCHANGED <<held, mailbox>>
    BY <1>1, <1>5 DEF Leave
  <2>2. TypeOK'
    BY <1>1, <1>3, <2>1 DEF IInv, TypeOK
  <2>3. SectionsInv'
    <3>. SUFFICES ASSUME NEW q \in Procs, NEW i \in DOMAIN sections'[q], NEW j \in DOMAIN sections'[q],
                         sections'[q][i].took
                  PROVE  /\ sections'[q][i].key \in held[q]
                         /\ sections'[q][j].took /\ sections'[q][i].key = sections'[q][j].key => i = j
      BY <2>1 DEF SectionsInv
    <3>1. CASE q = p
      <4>1. /\ i + 1 \in DOMAIN sections[p] /\ sections'[q][i] = sections[p][i + 1] /\ i \in Nat
            /\ j + 1 \in DOMAIN sections[p] /\ sections'[q][j] = sections[p][j + 1] /\ j \in Nat
        BY <1>3, <3>1
      <4>2. sections'[q][i].key \in held[q]
        BY <3>1, <4>1 DEF IInv, SectionsInv
      <4>3. sections'[q][j].took /\ sections'[q][i].key = sections'[q][j].key => i + 1 = j + 1
        BY <4>1 DEF IInv, SectionsInv
      <4>. QED BY <4>1, <4>2, <4>3
    <3>2. CASE q # p
      BY <1>2, <3>2 DEF IInv, SectionsInv
    <3>. QED BY <3>1, <3>2
  <2>4. MailInv' /\ HeldInv' /\ RepliesInv' /\ LineInv' /\ HolderInv' /\ CallsInv' /\ MonitorsExact'
    BY <1>1, <2>1 DEF IInv, MailInv, HeldInv, RepliesInv, LineInv, HolderInv, CallsInv,
                      MonitorsExact, LineRefs, Latest
  <2>. QED BY <2>2, <2>3, <2>4 DEF IInv
<1>6. CASE s.took
  <2>. DEFINE msg == [op |-> "release"]
  <2>1. /\ held' = [held EXCEPT ![p] = @ \ {k}]
        /\ mailbox' = [mailbox EXCEPT ![p][k] = Append(@, msg)]
    BY <1>1, <1>6 DEF Leave, k
  <2>2. mailbox[p][k] = << >> /\ holder[k] # NoRef /\ Owner(holder[k]) = p /\ holder[k] \notin replies
    BY <1>1, <1>4, <1>6 DEF IInv, HeldInv
  <2>3. msg \in Message /\ msg.op = "release"
    BY DEF Message
  <2>. HIDE DEF msg
  <2>4. /\ held'[p] = held[p] \ {k}
        /\ \A q \in Procs : q # p => held'[q] = held[q]
        /\ mailbox'[p][k] = <<msg>>
        /\ \A q \in Procs, h \in Keys : ~(q = p /\ h = k) => mailbox'[q][h] = mailbox[q][h]
    BY <1>3, <2>1, <2>2 DEF IInv, TypeOK
  <2>5. TypeOK'
    BY <1>1, <1>3, <2>1, <2>3 DEF IInv, TypeOK
  <2>6. SectionsInv'
    <3>. SUFFICES ASSUME NEW q \in Procs, NEW i \in DOMAIN sections'[q], NEW j \in DOMAIN sections'[q],
                         sections'[q][i].took
                  PROVE  /\ sections'[q][i].key \in held'[q]
                         /\ sections'[q][j].took /\ sections'[q][i].key = sections'[q][j].key => i = j
      BY DEF SectionsInv
    <3>1. CASE q = p
      <4>1. /\ i + 1 \in DOMAIN sections[p] /\ sections'[q][i] = sections[p][i + 1] /\ i \in Nat \ {0}
            /\ j + 1 \in DOMAIN sections[p] /\ sections'[q][j] = sections[p][j + 1] /\ j \in Nat
        BY <1>3, <3>1
      <4>2. sections'[q][i].key \in held[q] /\ sections'[q][i].key # k
        <5>1. sections[p][i + 1].key = k => i + 1 = 1
          BY <1>3, <1>6, <3>1, <4>1 DEF IInv, SectionsInv, s, k
        <5>. QED BY <3>1, <4>1, <5>1 DEF IInv, SectionsInv
      <4>3. sections'[q][j].took /\ sections'[q][i].key = sections'[q][j].key => i + 1 = j + 1
        BY <4>1 DEF IInv, SectionsInv
      <4>. QED BY <2>4, <3>1, <4>1, <4>2, <4>3
    <3>2. CASE q # p
      BY <1>2, <2>4, <3>2 DEF IInv, SectionsInv
    <3>. QED BY <3>1, <3>2
  <2>7. MailInv'
    <3>. SUFFICES ASSUME NEW q \in Procs, NEW h \in Keys, NEW i \in DOMAIN mailbox'[q][h]
                  PROVE  /\ mailbox'[q][h][i].op = "acquire" =>
                              /\ i = Len(mailbox'[q][h])
                              /\ mailbox'[q][h][i].ref = Latest(q)
                              /\ blocked[q] = h
                         /\ mailbox'[q][h][i].op = "release" =>
                              /\ i = 1
                              /\ h \notin held'[q]
                              /\ holder[h] # NoRef /\ Owner(holder[h]) = q /\ holder[h] \notin replies
      BY <1>1 DEF MailInv, Latest
    <3>1. CASE q = p /\ h = k
      <4>1. mailbox'[q][h] = <<msg>>
        BY <2>4, <3>1
      <4>2. i = 1 /\ mailbox'[q][h][i] = msg
        BY <4>1
      <4>. QED BY <2>2, <2>3, <2>4, <3>1, <4>2
    <3>2. CASE q = p /\ h # k
      BY <2>4, <3>2 DEF IInv, MailInv
    <3>3. CASE q # p
      BY <2>4, <3>3 DEF IInv, MailInv
    <3>. QED BY <3>1, <3>2, <3>3
  <2>8. HeldInv'
    <3>. SUFFICES ASSUME NEW q \in Procs, NEW h \in held'[q]
                  PROVE  /\ blocked[q] # h
                         /\ mailbox'[q][h] = << >>
                         /\ q \in alive => holder[h] # NoRef /\ Owner(holder[h]) = q /\ holder[h] \notin replies
      BY <1>1 DEF HeldInv
    <3>1. h \in held[q] /\ h \in Keys /\ ~(q = p /\ h = k)
      BY <2>4 DEF IInv, TypeOK
    <3>. QED BY <2>4, <3>1 DEF IInv, HeldInv
  <2>9. RepliesInv'
    <3>. SUFFICES ASSUME NEW r \in replies
                  PROVE  /\ r = Latest(Owner(r))
                         /\ blocked[Owner(r)] # NoKey
                         /\ mailbox'[Owner(r)][blocked[Owner(r)]] = << >>
                         /\ Owner(r) \in alive => holder[blocked[Owner(r)]] = r
      BY <1>1 DEF RepliesInv, Latest
    <3>1. Owner(r) \in Procs /\ Owner(r) # p /\ blocked[Owner(r)] \in Keys
      BY <1>1 DEF IInv, TypeOK, RepliesInv, Refs
    <3>. QED BY <2>4, <3>1 DEF IInv, RepliesInv
  <2>10. LineInv'
    <3>. SUFFICES ASSUME NEW h \in Keys, NEW i \in DOMAIN waiting[h]
                  PROVE  /\ waiting[h][i] = Latest(Owner(waiting[h][i]))
                         /\ blocked[Owner(waiting[h][i])] = h
                         /\ mailbox'[Owner(waiting[h][i])][h] = << >>
                         /\ waiting[h][i] \notin replies
      BY <1>1 DEF LineInv, Latest
    <3>1. waiting[h][i] \in Refs
      BY DEF IInv, TypeOK
    <3>2. Owner(waiting[h][i]) \in Procs
      BY <3>1 DEF Refs
    <3>3. /\ waiting[h][i] = Latest(Owner(waiting[h][i])) /\ blocked[Owner(waiting[h][i])] = h
          /\ mailbox[Owner(waiting[h][i])][h] = << >> /\ waiting[h][i] \notin replies
      BY DEF IInv, LineInv
    <3>4. Owner(waiting[h][i]) # p
      BY <1>1, <3>3, NoKeyAssumption
    <3>. QED BY <2>4, <3>2, <3>3, <3>4
  <2>11. HolderInv'
    <3>. SUFFICES ASSUME NEW h \in Keys, holder[h] # NoRef
                  PROVE  IF mailbox'[Owner(holder[h])][h] = << >>
                         THEN \/ h \in held'[Owner(holder[h])]
                              \/ holder[h] \in replies /\ blocked[Owner(holder[h])] = h
                         ELSE mailbox'[Owner(holder[h])][h][1].op = "release"
      BY <1>1 DEF HolderInv
    <3>1. Owner(holder[h]) \in Procs
      BY DEF IInv, TypeOK, Refs
    <3>2. CASE Owner(holder[h]) = p /\ h = k
      <4>1. mailbox'[p][k] # << >> /\ mailbox'[p][k][1] = msg
        BY <2>4
      <4>. QED BY <2>3, <3>2, <4>1
    <3>3. CASE Owner(holder[h]) = p /\ h # k
      BY <2>4, <3>3 DEF IInv, HolderInv
    <3>4. CASE Owner(holder[h]) # p
      BY <2>4, <3>1, <3>4 DEF IInv, HolderInv
    <3>. QED BY <3>2, <3>3, <3>4
  <2>12. CallsInv' /\ MonitorsExact'
    BY <1>1 DEF IInv, CallsInv, MonitorsExact, LineRefs, Latest
  <2>. QED BY <2>5, <2>6, <2>7, <2>8, <2>9, <2>10, <2>11, <2>12 DEF IInv
<1>. QED BY <1>5, <1>6

-----------------------------------------------------------------------------
\* The steps of the server.

\* Handing a key on keeps the invariant, whatever ended the hold: nobody alive
\* is inside on its account or about to be, its release is no longer in
\* flight, and what else is in flight is as before.
LEMMA HandOnStep ==
  ASSUME IInv, NEW k \in Keys, holder[k] # NoRef,
         UNCHANGED clientVars, HandOn(k), Forget(k, holder[k]),
         mailbox' \in [Procs -> [Keys -> Seq(Message)]],
         \A q \in Procs, h \in Keys :
           (h # k \/ mailbox[q][h] = << >>) => mailbox'[q][h] = mailbox[q][h],
         \A q \in Procs : \A i \in DOMAIN mailbox'[q][k] :
           /\ mailbox'[q][k][i].op = "acquire" /\ i = Len(mailbox'[q][k])
           /\ mailbox'[q][k][i].ref = Latest(q) /\ blocked[q] = k,
         \A q \in alive : k \notin held[q],
         \A r \in replies : Owner(r) \in alive => blocked[Owner(r)] # k
  PROVE  IInv'
<1>1. UNCHANGED <<alive, calls, sections, held, blocked>>
  BY DEF clientVars
<1>2. monitors' = [monitors EXCEPT ![k] = @ \ {holder[k]}]
  BY DEF Forget
<1>3. /\ waiting[k] \in Seq(Refs) /\ Distinct(waiting[k]) /\ holder[k] \notin Elems(waiting[k])
      /\ monitors[k] = Elems(waiting[k]) \cup {holder[k]}
  BY DEF IInv, TypeOK, MonitorsExact, LineRefs, Elems, Distinct
<1>4. CASE waiting[k] = << >>
  <2>1. /\ holder' = [holder EXCEPT ![k] = NoRef] /\ UNCHANGED <<waiting, replies>>
    BY <1>4 DEF HandOn
  <2>2. holder'[k] = NoRef /\ \A h \in Keys : h # k => holder'[h] = holder[h]
    BY <2>1 DEF IInv, TypeOK
  <2>3. TypeOK'
    BY <1>1, <1>2, <2>1 DEF IInv, TypeOK
  <2>4. SectionsInv'
    BY <1>1 DEF IInv, SectionsInv
  <2>5. MailInv'
    <3>. SUFFICES ASSUME NEW q \in Procs, NEW h \in Keys, NEW i \in DOMAIN mailbox'[q][h]
                  PROVE  /\ mailbox'[q][h][i].op = "acquire" =>
                              /\ i = Len(mailbox'[q][h])
                              /\ mailbox'[q][h][i].ref = Latest(q)
                              /\ blocked[q] = h
                         /\ mailbox'[q][h][i].op = "release" =>
                              /\ i = 1
                              /\ h \notin held[q]
                              /\ holder'[h] # NoRef /\ Owner(holder'[h]) = q /\ holder'[h] \notin replies
      BY <1>1, <2>1 DEF MailInv, Latest
    <3>1. CASE h = k
      BY <3>1
    <3>2. CASE h # k
      <4>1. mailbox'[q][h] = mailbox[q][h] /\ holder'[h] = holder[h]
        BY <2>2, <3>2
      <4>. QED BY <4>1 DEF IInv, MailInv
    <3>. QED BY <3>1, <3>2
  <2>6. HeldInv'
    <3>. SUFFICES ASSUME NEW q \in Procs, NEW h \in held[q]
                  PROVE  /\ blocked[q] # h
                         /\ mailbox'[q][h] = << >>
                         /\ q \in alive => holder'[h] # NoRef /\ Owner(holder'[h]) = q /\ holder'[h] \notin replies
      BY <1>1, <2>1 DEF HeldInv
    <3>1. h \in Keys
      BY DEF IInv, TypeOK
    <3>2. /\ blocked[q] # h /\ mailbox[q][h] = << >>
          /\ q \in alive => holder[h] # NoRef /\ Owner(holder[h]) = q /\ holder[h] \notin replies
      BY DEF IInv, HeldInv
    <3>3. q \in alive => h # k
      OBVIOUS
    <3>. QED BY <2>2, <3>1, <3>2, <3>3
  <2>7. RepliesInv'
    <3>. SUFFICES ASSUME NEW r \in replies
                  PROVE  /\ r = Latest(Owner(r))
                         /\ blocked[Owner(r)] # NoKey
                         /\ mailbox'[Owner(r)][blocked[Owner(r)]] = << >>
                         /\ Owner(r) \in alive => holder'[blocked[Owner(r)]] = r
      BY <1>1, <2>1 DEF RepliesInv, Latest
    <3>1. Owner(r) \in Procs /\ blocked[Owner(r)] \in Keys
      BY DEF IInv, TypeOK, RepliesInv, Refs
    <3>. QED BY <2>2, <3>1 DEF IInv, RepliesInv
  <2>8. LineInv'
    <3>. SUFFICES ASSUME NEW h \in Keys, NEW i \in DOMAIN waiting[h]
                  PROVE  /\ waiting[h][i] = Latest(Owner(waiting[h][i]))
                         /\ blocked[Owner(waiting[h][i])] = h
                         /\ mailbox'[Owner(waiting[h][i])][h] = << >>
                         /\ waiting[h][i] \notin replies
      BY <1>1, <2>1 DEF LineInv, Latest
    <3>1. waiting[h][i] \in Refs
      BY DEF IInv, TypeOK
    <3>2. Owner(waiting[h][i]) \in Procs
      BY <3>1 DEF Refs
    <3>3. /\ waiting[h][i] = Latest(Owner(waiting[h][i])) /\ blocked[Owner(waiting[h][i])] = h
          /\ mailbox[Owner(waiting[h][i])][h] = << >> /\ waiting[h][i] \notin replies
      BY DEF IInv, LineInv
    <3>. QED BY <3>2, <3>3
  <2>9. HolderInv' /\ CallsInv'
    <3>. SUFFICES ASSUME NEW h \in Keys, holder'[h] # NoRef
                  PROVE  /\ IF mailbox'[Owner(holder'[h])][h] = << >>
                            THEN \/ h \in held[Owner(holder'[h])]
                                 \/ holder'[h] \in replies' /\ blocked[Owner(holder'[h])] = h
                            ELSE mailbox'[Owner(holder'[h])][h][1].op = "release"
                         /\ holder'[h][2] <= calls[Owner(holder'[h])]
                         /\ holder'[h] = Latest(Owner(holder'[h])) => blocked[Owner(holder'[h])] \in {NoKey, h}
      BY <1>1 DEF HolderInv, CallsInv, Latest
    <3>1. h # k /\ holder'[h] = holder[h] /\ holder[h] \in Refs
      BY <2>2 DEF IInv, TypeOK
    <3>2. Owner(holder[h]) \in Procs
      BY <3>1 DEF Refs
    <3>3. mailbox'[Owner(holder[h])][h] = mailbox[Owner(holder[h])][h]
      BY <3>1, <3>2
    <3>. QED BY <2>1, <3>1, <3>2, <3>3 DEF IInv, HolderInv, CallsInv
  <2>10. MonitorsExact'
    <3>1. monitors'[k] = {} /\ Elems(waiting[k]) = {} /\ \A h \in Keys : h # k => monitors'[h] = monitors[h]
      BY <1>2, <1>3, <1>4 DEF IInv, TypeOK, Elems
    <3>. QED BY <1>4, <2>1, <2>2, <3>1 DEF IInv, MonitorsExact, LineRefs, Elems
  <2>. QED BY <2>3, <2>4, <2>5, <2>6, <2>7, <2>8, <2>9, <2>10 DEF IInv
<1>5. CASE waiting[k] # << >>
  <2>. DEFINE r0 == Head(waiting[k])
              w == Owner(r0)
  <2>1. /\ holder' = [holder EXCEPT ![k] = r0]
        /\ waiting' = [waiting EXCEPT ![k] = Tail(@)]
        /\ replies' = replies \cup {r0}
    BY <1>5 DEF HandOn
  <2>2. /\ Tail(waiting[k]) \in Seq(Refs) /\ r0 \in Refs /\ 1 \in DOMAIN waiting[k] /\ r0 = waiting[k][1]
        /\ Elems(Tail(waiting[k])) = Elems(waiting[k]) \ {r0} /\ r0 \in Elems(waiting[k])
        /\ Distinct(Tail(waiting[k]))
    BY <1>3, <1>5, TailLine
  <2>3. /\ w \in Procs /\ r0 = Latest(w) /\ blocked[w] = k
        /\ mailbox[w][k] = << >> /\ r0 \notin replies
    BY <2>2 DEF IInv, LineInv, Refs
  <2>. HIDE DEF r0, w
  <2>4. /\ holder'[k] = r0 /\ \A h \in Keys : h # k => holder'[h] = holder[h]
        /\ waiting'[k] = Tail(waiting[k]) /\ \A h \in Keys : h # k => waiting'[h] = waiting[h]
    BY <2>1 DEF IInv, TypeOK
  <2>5. r0 # NoRef /\ Owner(r0) = w /\ k # NoKey
    BY <2>2, <2>3, NoRefAssumption, NoKeyAssumption DEF w
  \* The reply is to a call later than any other hold of its process.
  <2>6. \A h \in Keys : h # k => holder[h] # r0
    BY <2>3, <2>5 DEF IInv, CallsInv
  <2>7. TypeOK'
    BY <1>1, <1>2, <2>1, <2>2 DEF IInv, TypeOK
  <2>8. SectionsInv'
    BY <1>1 DEF IInv, SectionsInv
  <2>9. MailInv'
    <3>. SUFFICES ASSUME NEW q \in Procs, NEW h \in Keys, NEW i \in DOMAIN mailbox'[q][h]
                  PROVE  /\ mailbox'[q][h][i].op = "acquire" =>
                              /\ i = Len(mailbox'[q][h])
                              /\ mailbox'[q][h][i].ref = Latest(q)
                              /\ blocked[q] = h
                         /\ mailbox'[q][h][i].op = "release" =>
                              /\ i = 1
                              /\ h \notin held[q]
                              /\ holder'[h] # NoRef /\ Owner(holder'[h]) = q /\ holder'[h] \notin replies'
      BY <1>1 DEF MailInv, Latest
    <3>1. CASE h = k
      BY <3>1
    <3>2. CASE h # k
      <4>1. mailbox'[q][h] = mailbox[q][h] /\ holder'[h] = holder[h] /\ holder[h] # r0
        BY <2>4, <2>6, <3>2
      <4>. QED BY <2>1, <4>1 DEF IInv, MailInv
    <3>. QED BY <3>1, <3>2
  <2>10. HeldInv'
    <3>. SUFFICES ASSUME NEW q \in Procs, NEW h \in held[q]
                  PROVE  /\ blocked[q] # h
                         /\ mailbox'[q][h] = << >>
                         /\ q \in alive => holder'[h] # NoRef /\ Owner(holder'[h]) = q /\ holder'[h] \notin replies'
      BY <1>1 DEF HeldInv
    <3>1. h \in Keys
      BY DEF IInv, TypeOK
    <3>2. /\ blocked[q] # h /\ mailbox[q][h] = << >>
          /\ q \in alive => holder[h] # NoRef /\ Owner(holder[h]) = q /\ holder[h] \notin replies
      BY DEF IInv, HeldInv
    <3>3. q \in alive => h # k
      OBVIOUS
    <3>. QED BY <2>1, <2>4, <2>6, <3>1, <3>2, <3>3
  <2>11. RepliesInv'
    <3>. SUFFICES ASSUME NEW r \in replies \cup {r0}
                  PROVE  /\ r = Latest(Owner(r))
                         /\ blocked[Owner(r)] # NoKey
                         /\ mailbox'[Owner(r)][blocked[Owner(r)]] = << >>
                         /\ Owner(r) \in alive => holder'[blocked[Owner(r)]] = r
      BY <1>1, <2>1 DEF RepliesInv, Latest
    <3>1. CASE r = r0
      BY <2>3, <2>4, <2>5, <3>1
    <3>2. CASE r \in replies
      <4>1. Owner(r) \in Procs /\ blocked[Owner(r)] \in Keys
        BY <3>2 DEF IInv, TypeOK, RepliesInv, Refs
      <4>. QED BY <2>4, <3>2, <4>1 DEF IInv, RepliesInv
    <3>. QED BY <3>1, <3>2
  <2>12. LineInv'
    <3>. SUFFICES ASSUME NEW h \in Keys, NEW r \in Elems(waiting'[h])
                  PROVE  /\ r = Latest(Owner(r))
                         /\ blocked[Owner(r)] = h
                         /\ mailbox'[Owner(r)][h] = << >>
                         /\ r \notin replies'
      BY <1>1 DEF LineInv, Latest, Elems
    <3>1. r \in Elems(waiting[h]) /\ r # r0
      <4>1. CASE h = k
        BY <2>2, <2>4, <4>1
      <4>2. CASE h # k
        <5>1. r \in Elems(waiting[h])
          BY <2>4, <4>2
        <5>2. blocked[Owner(r)] = h
          BY <5>1 DEF IInv, LineInv, Elems
        <5>. QED BY <2>3, <2>5, <4>2, <5>1, <5>2
      <4>. QED BY <4>1, <4>2
    <3>2. r \in Refs
      BY <3>1 DEF IInv, TypeOK, Elems
    <3>3. Owner(r) \in Procs
      BY <3>2 DEF Refs
    <3>4. /\ r = Latest(Owner(r)) /\ blocked[Owner(r)] = h
          /\ mailbox[Owner(r)][h] = << >> /\ r \notin replies
      BY <3>1 DEF IInv, LineInv, Elems
    <3>. QED BY <2>1, <3>1, <3>3, <3>4
  <2>13. HolderInv' /\ CallsInv'
    <3>. SUFFICES ASSUME NEW h \in Keys, holder'[h] # NoRef
                  PROVE  /\ IF mailbox'[Owner(holder'[h])][h] = << >>
                            THEN \/ h \in held[Owner(holder'[h])]
                                 \/ holder'[h] \in replies' /\ blocked[Owner(holder'[h])] = h
                            ELSE mailbox'[Owner(holder'[h])][h][1].op = "release"
                         /\ holder'[h][2] <= calls[Owner(holder'[h])]
                         /\ holder'[h] = Latest(Owner(holder'[h])) => blocked[Owner(holder'[h])] \in {NoKey, h}
      BY <1>1 DEF HolderInv, CallsInv, Latest
    <3>1. CASE h = k
      <4>1. r0[2] <= calls[w]
        <5>1. r0[2] = calls[w] /\ calls[w] \in Nat
          BY <2>3, MaxCallsAssumption DEF Latest, IInv, TypeOK
        <5>. QED BY <5>1
      <4>. QED BY <2>1, <2>3, <2>4, <2>5, <3>1, <4>1
    <3>2. CASE h # k
      <4>1. holder'[h] = holder[h] /\ holder[h] \in Refs
        BY <2>4, <3>2 DEF IInv, TypeOK
      <4>2. Owner(holder[h]) \in Procs
        BY <4>1 DEF Refs
      <4>3. mailbox'[Owner(holder[h])][h] = mailbox[Owner(holder[h])][h]
        BY <3>2, <4>2
      <4>. QED BY <2>1, <4>1, <4>2, <4>3 DEF IInv, HolderInv, CallsInv
    <3>. QED BY <3>1, <3>2
  <2>14. MonitorsExact'
    <3>1. monitors'[k] = Elems(waiting[k]) /\ \A h \in Keys : h # k => monitors'[h] = monitors[h]
      BY <1>2, <1>3 DEF IInv, TypeOK
    <3>2. /\ Elems(waiting'[k]) = Elems(waiting[k]) \ {r0} /\ Distinct(waiting'[k])
          /\ holder'[k] = r0 /\ holder'[k] \notin Elems(waiting'[k])
          /\ monitors'[k] = Elems(waiting'[k]) \cup {holder'[k]}
      BY <2>2, <2>4, <3>1
    <3>. SUFFICES ASSUME NEW h \in Keys
                  PROVE  /\ monitors'[h] = Elems(waiting'[h]) \cup ({holder'[h]} \ {NoRef})
                         /\ Distinct(waiting'[h])
                         /\ holder'[h] \notin Elems(waiting'[h])
                         /\ holder'[h] = NoRef => waiting'[h] = << >>
      BY DEF MonitorsExact, LineRefs, Elems, Distinct
    <3>3. CASE h = k
      BY <2>5, <3>2, <3>3
    <3>4. CASE h # k
      BY <2>4, <3>1, <3>4 DEF IInv, MonitorsExact, LineRefs, Elems, Distinct
    <3>. QED BY <3>3, <3>4
  <2>. QED BY <2>7, <2>8, <2>9, <2>10, <2>11, <2>12, <2>13, <2>14 DEF IInv
<1>. QED BY <1>4, <1>5

\* What the server takes out of a mailbox: its first message.
LEMMA ReceiveFacts ==
  ASSUME IInv, NEW p \in Procs, NEW k \in Keys, NEW op, Receive(p, k, op)
  PROVE  /\ mailbox[p][k] \in Seq(Message) /\ mailbox[p][k] # << >>
         /\ 1 \in DOMAIN mailbox[p][k]
         /\ Head(mailbox[p][k]) = mailbox[p][k][1] /\ mailbox[p][k][1].op = op
         /\ mailbox' = [mailbox EXCEPT ![p][k] = Tail(@)]
         /\ mailbox' \in [Procs -> [Keys -> Seq(Message)]]
         /\ mailbox'[p][k] = Tail(mailbox[p][k])
         /\ \A q \in Procs, h \in Keys : ~(q = p /\ h = k) => mailbox'[q][h] = mailbox[q][h]
         /\ UNCHANGED <<alive, calls, sections, held, blocked>>
<1>1. mailbox[p][k] \in Seq(Message) /\ mailbox[p][k] # << >>
  BY DEF Receive, IInv, TypeOK
<1>2. /\ Tail(mailbox[p][k]) \in Seq(Message)
      /\ Head(mailbox[p][k]) = mailbox[p][k][1] /\ 1 \in DOMAIN mailbox[p][k]
  BY <1>1, TailSeq
<1>3. mailbox' = [mailbox EXCEPT ![p][k] = Tail(@)]
  BY DEF Receive
<1>4. mailbox' \in [Procs -> [Keys -> Seq(Message)]]
  BY <1>2, <1>3 DEF IInv, TypeOK
<1>5. /\ mailbox'[p][k] = Tail(mailbox[p][k])
      /\ \A q \in Procs, h \in Keys : ~(q = p /\ h = k) => mailbox'[q][h] = mailbox[q][h]
  BY <1>3 DEF IInv, TypeOK
<1>. QED BY <1>1, <1>2, <1>3, <1>4, <1>5 DEF Receive, clientVars

LEMMA ReleaseStep ==
  ASSUME IInv, NEW p \in Procs, NEW k \in Keys, HandleRelease(p, k)
  PROVE  IInv' /\ holder[k] # NoRef /\ HandOn(k)
<1>1. Receive(p, k, "release")
  BY DEF HandleRelease
<1>2. /\ k \notin held[p] /\ holder[k] # NoRef /\ Owner(holder[k]) = p /\ holder[k] \notin replies
  BY <1>1, ReceiveFacts DEF IInv, MailInv
<1>3. HandOn(k) /\ Forget(k, holder[k])
  BY <1>2 DEF HandleRelease
<1>4. \A q \in Procs, h \in Keys :
        (h # k \/ mailbox[q][h] = << >>) => mailbox'[q][h] = mailbox[q][h]
  BY <1>1, ReceiveFacts
<1>5. ASSUME NEW q \in Procs, NEW i \in DOMAIN mailbox'[q][k]
      PROVE  /\ mailbox'[q][k][i].op = "acquire" /\ i = Len(mailbox'[q][k])
             /\ mailbox'[q][k][i].ref = Latest(q) /\ blocked[q] = k
  <2>1. \A j \in DOMAIN mailbox[q][k] : mailbox[q][k][j].op \in {"acquire", "release"}
    <3>1. mailbox[q][k] \in Seq(Message)
      BY DEF IInv, TypeOK
    <3>2. \A msg \in Message : msg.op \in {"acquire", "release"}
      BY DEF Message
    <3>. QED BY <3>1, <3>2
  <2>2. CASE q = p
    <3>1. mailbox'[q][k] = Tail(mailbox[q][k]) /\ mailbox[q][k] \in Seq(Message) /\ mailbox[q][k] # << >>
      BY <1>1, <2>2, ReceiveFacts
    <3>2. /\ i + 1 \in DOMAIN mailbox[q][k] /\ mailbox'[q][k][i] = mailbox[q][k][i + 1]
          /\ i \in Nat \ {0} /\ Len(mailbox'[q][k]) = Len(mailbox[q][k]) - 1 /\ Len(mailbox[q][k]) \in Nat
      BY <3>1, TailSeq
    <3>3. mailbox[q][k][i + 1].op = "acquire"
      BY <2>1, <3>2 DEF IInv, MailInv
    <3>4. i + 1 = Len(mailbox[q][k]) /\ mailbox[q][k][i + 1].ref = Latest(q) /\ blocked[q] = k
      BY <3>2, <3>3 DEF IInv, MailInv
    <3>. QED BY <3>2, <3>3, <3>4
  <2>3. CASE q # p
    <3>1. mailbox'[q][k] = mailbox[q][k]
      BY <1>1, <2>3, ReceiveFacts
    <3>2. mailbox[q][k][i].op # "release"
      BY <1>2, <2>3, <3>1 DEF IInv, MailInv
    <3>. QED BY <2>1, <3>1, <3>2 DEF IInv, MailInv
  <2>. QED BY <2>2, <2>3
<1>6. \A q \in alive : k \notin held[q]
  BY <1>2 DEF IInv, TypeOK, HeldInv
<1>7. \A r \in replies : Owner(r) \in alive => blocked[Owner(r)] # k
  BY <1>2 DEF IInv, RepliesInv
<1>8. UNCHANGED clientVars /\ mailbox' \in [Procs -> [Keys -> Seq(Message)]]
  BY <1>1, ReceiveFacts DEF clientVars
<1>. QED BY <1>2, <1>3, <1>4, <1>5, <1>6, <1>7, <1>8, HandOnStep

\* The death of the holder hands the key on; the death of a waiter takes it,
\* and only it, out of the line.
LEMMA DownStep ==
  ASSUME IInv, NEW k \in Keys, NEW ref \in monitors[k], HandleDown(ref, k)
  PROVE  /\ IInv'
         /\ \/ holder[k] # NoRef /\ HandOn(k)
            \/ \E n \in DOMAIN waiting[k] :
                 /\ waiting[k][n] = ref /\ Owner(ref) \notin alive
                 /\ waiting' = [waiting EXCEPT ![k] = OutOfLine(@, n)]
                 /\ UNCHANGED holder
<1>1. /\ Owner(ref) \notin alive /\ mailbox[Owner(ref)][k] = << >> /\ Forget(k, ref)
      /\ UNCHANGED <<alive, calls, sections, held, blocked, mailbox>>
      /\ UNCHANGED clientVars
  BY DEF HandleDown, clientVars
<1>2. ref \in Refs /\ ref # NoRef
  BY NoRefAssumption DEF IInv, TypeOK
<1>3. Owner(ref) \in Procs
  BY <1>2 DEF Refs
<1>4. CASE holder[k] = ref
  <2>1. HandOn(k) /\ holder[k] # NoRef /\ Forget(k, holder[k])
    BY <1>1, <1>2, <1>4 DEF HandleDown, HolderDied
  <2>2. ASSUME NEW q \in Procs, NEW i \in DOMAIN mailbox'[q][k]
        PROVE  /\ mailbox'[q][k][i].op = "acquire" /\ i = Len(mailbox'[q][k])
               /\ mailbox'[q][k][i].ref = Latest(q) /\ blocked[q] = k
    <3>1. mailbox[q][k] \in Seq(Message) /\ i \in DOMAIN mailbox[q][k]
      BY <1>1 DEF IInv, TypeOK
    <3>2. \A msg \in Message : msg.op \in {"acquire", "release"}
      BY DEF Message
    <3>3. mailbox[q][k][i] \in Message
      BY <3>1
    <3>4. mailbox[q][k][i].op # "release"
      <4>1. CASE q = Owner(ref)
        BY <1>1, <3>1, <4>1
      <4>2. CASE q # Owner(ref)
        BY <1>4, <3>1, <4>2 DEF IInv, MailInv
      <4>. QED BY <4>1, <4>2
    <3>. QED BY <1>1, <3>1, <3>2, <3>3, <3>4 DEF IInv, MailInv
  <2>3. \A q \in alive : k \notin held[q]
    BY <1>1, <1>4 DEF IInv, TypeOK, HeldInv
  <2>4. \A r \in replies : Owner(r) \in alive => blocked[Owner(r)] # k
    BY <1>1, <1>4 DEF IInv, RepliesInv
  <2>5. /\ mailbox' \in [Procs -> [Keys -> Seq(Message)]]
        /\ \A q \in Procs, h \in Keys :
             (h # k \/ mailbox[q][h] = << >>) => mailbox'[q][h] = mailbox[q][h]
    BY <1>1 DEF IInv, TypeOK
  <2>. QED BY <1>1, <2>1, <2>2, <2>3, <2>4, <2>5, HandOnStep
<1>5. CASE holder[k] # ref
  <2>1. waiting[k] \in Seq(Refs) /\ Distinct(waiting[k]) /\ ref \in Elems(waiting[k])
    BY <1>5 DEF IInv, TypeOK, MonitorsExact, LineRefs, Elems, Distinct
  <2>2. PICK n \in DOMAIN waiting[k] :
          /\ waiting[k][n] = ref
          /\ waiting' = [waiting EXCEPT ![k] = OutOfLine(@, n)]
          /\ UNCHANGED <<holder, replies>>
    BY <1>5, <2>1 DEF HandleDown, HolderDied, Elems
  <2>3. /\ OutOfLine(waiting[k], n) \in Seq(Refs)
        /\ Elems(OutOfLine(waiting[k], n)) = Elems(waiting[k]) \ {ref}
        /\ Distinct(OutOfLine(waiting[k], n))
    BY <2>1, <2>2, RemoveLine
  <2>4. /\ waiting'[k] = OutOfLine(waiting[k], n)
        /\ \A h \in Keys : h # k => waiting'[h] = waiting[h] /\ monitors'[h] = monitors[h]
        /\ monitors'[k] = monitors[k] \ {ref}
    BY <1>1, <2>2 DEF Forget, IInv, TypeOK
  <2>5. TypeOK'
    BY <1>1, <2>2, <2>3 DEF Forget, IInv, TypeOK
  <2>6. SectionsInv' /\ MailInv' /\ HeldInv' /\ RepliesInv' /\ HolderInv' /\ CallsInv'
    BY <1>1, <2>2 DEF IInv, SectionsInv, MailInv, HeldInv, RepliesInv, HolderInv, CallsInv, Latest
  <2>7. LineInv'
    <3>. SUFFICES ASSUME NEW h \in Keys, NEW r \in Elems(waiting'[h])
                  PROVE  /\ r = Latest(Owner(r)) /\ blocked[Owner(r)] = h
                         /\ mailbox[Owner(r)][h] = << >> /\ r \notin replies
      BY <1>1, <2>2 DEF LineInv, Latest, Elems
    <3>1. r \in Elems(waiting[h])
      BY <2>3, <2>4
    <3>. QED BY <3>1 DEF IInv, LineInv, Elems
  <2>8. MonitorsExact'
    <3>. SUFFICES ASSUME NEW h \in Keys
                  PROVE  /\ monitors'[h] = Elems(waiting'[h]) \cup ({holder[h]} \ {NoRef})
                         /\ Distinct(waiting'[h])
                         /\ holder[h] \notin Elems(waiting'[h])
                         /\ holder[h] = NoRef => waiting'[h] = << >>
      BY <2>2 DEF MonitorsExact, LineRefs, Elems, Distinct
    <3>1. CASE h = k
      <4>1. holder[k] # NoRef
        BY <2>1 DEF IInv, MonitorsExact, Elems
      <4>2. monitors[k] = Elems(waiting[k]) \cup {holder[k]} /\ holder[k] \notin Elems(waiting[k])
        BY <4>1 DEF IInv, MonitorsExact, LineRefs, Elems
      <4>. QED BY <1>5, <2>3, <2>4, <3>1, <4>1, <4>2
    <3>2. CASE h # k
      BY <2>4, <3>2 DEF IInv, MonitorsExact, LineRefs, Elems, Distinct
    <3>. QED BY <3>1, <3>2
  <2>9. IInv'
    BY <2>5, <2>6, <2>7, <2>8 DEF IInv
  <2>. QED BY <1>1, <2>2, <2>9
<1>. QED BY <1>4, <1>5

\* What the server knows when it takes an acquire out of a mailbox.
LEMMA AcquireFacts ==
  ASSUME IInv, NEW p \in Procs, NEW k \in Keys, Receive(p, k, "acquire")
  PROVE  LET ref == mailbox[p][k][1].ref IN
         /\ Head(mailbox[p][k]).ref = ref
         /\ ref = Latest(p) /\ ref \in Refs /\ Owner(ref) = p /\ ref # NoRef
         /\ blocked[p] = k /\ mailbox'[p][k] = << >>
         /\ ref \notin replies
         /\ \A h \in Keys : ref \notin Elems(waiting[h])
         /\ \A h \in Keys : holder[h] # ref
         /\ holder[k] # NoRef => Owner(holder[k]) # p
         /\ k \notin held[p]
<1>1. /\ mailbox[p][k] \in Seq(Message) /\ mailbox[p][k] # << >> /\ 1 \in DOMAIN mailbox[p][k]
      /\ Head(mailbox[p][k]) = mailbox[p][k][1] /\ mailbox[p][k][1].op = "acquire"
      /\ mailbox'[p][k] = Tail(mailbox[p][k])
  BY ReceiveFacts
<1>2. /\ Len(mailbox[p][k]) = 1 /\ mailbox[p][k][1].ref = Latest(p) /\ blocked[p] = k
  <2>1. 1 = Len(mailbox[p][k])
    <3>1. \A i \in DOMAIN mailbox[p][k] :
            mailbox[p][k][i].op = "acquire" => i = Len(mailbox[p][k])
      BY DEF IInv, MailInv
    <3>. QED BY <1>1, <3>1
  <2>2. mailbox[p][k][1].ref = Latest(p) /\ blocked[p] = k
    BY <1>1 DEF IInv, MailInv
  <2>. QED BY <2>1, <2>2
<1>3. mailbox'[p][k] = << >>
  <2>1. Tail(mailbox[p][k]) \in Seq(Message) /\ Len(Tail(mailbox[p][k])) = 0
    BY <1>1, <1>2, TailSeq
  <2>2. Tail(mailbox[p][k]) = << >>
    BY <2>1, LenZero
  <2>. QED BY <1>1, <2>2
<1>4. mailbox[p][k][1].ref \in Refs
  <2>1. mailbox[p][k][1] \in Message
    BY <1>1
  <2>. QED BY <1>1, <2>1 DEF Message
<1>5. Owner(Latest(p)) = p
  BY DEF Latest
<1>6. Latest(p) \notin replies /\ k \notin held[p]
  BY <1>1, <1>2, <1>5 DEF IInv, RepliesInv, HeldInv
<1>7. \A h \in Keys : Latest(p) \notin Elems(waiting[h])
  BY <1>1, <1>2, <1>5 DEF IInv, LineInv, Elems
<1>8. holder[k] # NoRef => Owner(holder[k]) # p
  BY <1>1 DEF IInv, HolderInv
<1>9. \A h \in Keys : holder[h] # Latest(p)
  BY <1>2, <1>4, <1>5, <1>8, NoRefAssumption, NoKeyAssumption DEF IInv, CallsInv
<1>. QED BY <1>1, <1>2, <1>3, <1>4, <1>5, <1>6, <1>7, <1>8, <1>9, NoRefAssumption

LEMMA AcquireStep ==
  ASSUME IInv, NEW p \in Procs, NEW k \in Keys, HandleAcquire(p, k)
  PROVE  IInv'
<1>. DEFINE ref == mailbox[p][k][1].ref
<1>1. Receive(p, k, "acquire")
  BY DEF HandleAcquire
<1>2. /\ Head(mailbox[p][k]).ref = ref
      /\ ref = Latest(p) /\ ref \in Refs /\ Owner(ref) = p /\ ref # NoRef
      /\ blocked[p] = k /\ mailbox'[p][k] = << >>
      /\ ref \notin replies
      /\ \A h \in Keys : ref \notin Elems(waiting[h])
      /\ \A h \in Keys : holder[h] # ref
      /\ holder[k] # NoRef => Owner(holder[k]) # p
      /\ k \notin held[p]
  BY <1>1, AcquireFacts
<1>3. /\ mailbox' \in [Procs -> [Keys -> Seq(Message)]]
      /\ \A q \in Procs, h \in Keys : ~(q = p /\ h = k) => mailbox'[q][h] = mailbox[q][h]
      /\ UNCHANGED <<alive, calls, sections, held, blocked>>
      /\ mailbox[p][k] # << >>
  BY <1>1, ReceiveFacts
<1>4. monitors' = [monitors EXCEPT ![k] = @ \cup {ref}]
  BY <1>2 DEF HandleAcquire
<1>. HIDE DEF ref
<1>5. monitors'[k] = monitors[k] \cup {ref} /\ \A h \in Keys : h # k => monitors'[h] = monitors[h]
  BY <1>4 DEF IInv, TypeOK
<1>6. SectionsInv'
  BY <1>3 DEF IInv, SectionsInv
<1>7. k # NoKey
  BY NoKeyAssumption
\* A mailbox that was empty still is.
<1>8. \A q \in Procs, h \in Keys : mailbox[q][h] = << >> => mailbox'[q][h] = << >>
  BY <1>2, <1>3
<1>9. CASE holder[k] = NoRef
  <2>1. holder' = [holder EXCEPT ![k] = ref] /\ replies' = replies \cup {ref} /\ UNCHANGED waiting
    BY <1>2, <1>9 DEF HandleAcquire, ref
  <2>2. holder'[k] = ref /\ \A h \in Keys : h # k => holder'[h] = holder[h]
    BY <2>1 DEF IInv, TypeOK
  <2>3. TypeOK'
    BY <1>2, <1>3, <1>4, <2>1 DEF IInv, TypeOK
  <2>4. MailInv'
    <3>. SUFFICES ASSUME NEW q \in Procs, NEW h \in Keys, NEW i \in DOMAIN mailbox'[q][h]
                  PROVE  /\ mailbox'[q][h][i].op = "acquire" =>
                              /\ i = Len(mailbox'[q][h])
                              /\ mailbox'[q][h][i].ref = Latest(q)
                              /\ blocked[q] = h
                         /\ mailbox'[q][h][i].op = "release" =>
                              /\ i = 1
                              /\ h \notin held[q]
                              /\ holder'[h] # NoRef /\ Owner(holder'[h]) = q /\ holder'[h] \notin replies'
      BY <1>3 DEF MailInv, Latest
    <3>1. ~(q = p /\ h = k)
      BY <1>2
    <3>2. mailbox'[q][h] = mailbox[q][h]
      BY <1>3, <3>1
    <3>3. mailbox[q][h][i].op = "release" => h # k
      BY <1>9, <3>2 DEF IInv, MailInv
    <3>. QED BY <1>2, <2>1, <2>2, <3>2, <3>3 DEF IInv, MailInv
  <2>5. HeldInv'
    <3>. SUFFICES ASSUME NEW q \in Procs, NEW h \in held[q]
                  PROVE  /\ blocked[q] # h
                         /\ mailbox'[q][h] = << >>
                         /\ q \in alive => holder'[h] # NoRef /\ Owner(holder'[h]) = q /\ holder'[h] \notin replies'
      BY <1>3 DEF HeldInv
    <3>1. h \in Keys
      BY DEF IInv, TypeOK
    <3>2. /\ blocked[q] # h /\ mailbox[q][h] = << >>
          /\ q \in alive => holder[h] # NoRef /\ Owner(holder[h]) = q /\ holder[h] \notin replies
      BY DEF IInv, HeldInv
    <3>3. q \in alive => h # k
      BY <1>9, <3>2
    <3>. QED BY <1>2, <1>8, <2>1, <2>2, <3>1, <3>2, <3>3
  <2>6. RepliesInv'
    <3>. SUFFICES ASSUME NEW r \in replies \cup {ref}
                  PROVE  /\ r = Latest(Owner(r))
                         /\ blocked[Owner(r)] # NoKey
                         /\ mailbox'[Owner(r)][blocked[Owner(r)]] = << >>
                         /\ Owner(r) \in alive => holder'[blocked[Owner(r)]] = r
      BY <1>3, <2>1 DEF RepliesInv, Latest
    <3>1. CASE r = ref
      BY <1>2, <1>7, <2>2, <3>1
    <3>2. CASE r \in replies
      <4>1. Owner(r) \in Procs /\ blocked[Owner(r)] \in Keys /\ r \in Refs
        BY <3>2 DEF IInv, TypeOK, RepliesInv, Refs
      <4>2. /\ r = Latest(Owner(r)) /\ mailbox[Owner(r)][blocked[Owner(r)]] = << >>
            /\ Owner(r) \in alive => holder[blocked[Owner(r)]] = r
        BY <3>2 DEF IInv, RepliesInv
      <4>3. r # NoRef
        BY <4>1, NoRefAssumption
      <4>. QED BY <1>7, <1>8, <1>9, <2>2, <3>2, <4>1, <4>2, <4>3, NoKeyAssumption
    <3>. QED BY <3>1, <3>2
  <2>7. LineInv'
    <3>. SUFFICES ASSUME NEW h \in Keys, NEW r \in Elems(waiting[h])
                  PROVE  /\ r = Latest(Owner(r)) /\ blocked[Owner(r)] = h
                         /\ mailbox'[Owner(r)][h] = << >> /\ r \notin replies'
      <4>1. waiting' = waiting /\ calls' = calls /\ blocked' = blocked
        BY <1>3, <2>1
      <4>. QED BY <4>1 DEF LineInv, Latest, Elems
    <3>1. r \in Refs
      BY DEF IInv, TypeOK, Elems
    <3>2. Owner(r) \in Procs
      BY <3>1 DEF Refs
    <3>3. /\ r = Latest(Owner(r)) /\ blocked[Owner(r)] = h
          /\ mailbox[Owner(r)][h] = << >> /\ r \notin replies
      BY DEF IInv, LineInv, Elems
    <3>. QED BY <1>2, <1>8, <2>1, <3>2, <3>3
  <2>8. HolderInv' /\ CallsInv'
    <3>. SUFFICES ASSUME NEW h \in Keys, holder'[h] # NoRef
                  PROVE  /\ IF mailbox'[Owner(holder'[h])][h] = << >>
                            THEN \/ h \in held[Owner(holder'[h])]
                                 \/ holder'[h] \in replies' /\ blocked[Owner(holder'[h])] = h
                            ELSE mailbox'[Owner(holder'[h])][h][1].op = "release"
                         /\ holder'[h][2] <= calls[Owner(holder'[h])]
                         /\ holder'[h] = Latest(Owner(holder'[h])) => blocked[Owner(holder'[h])] \in {NoKey, h}
      BY <1>3 DEF HolderInv, CallsInv, Latest
    <3>1. CASE h = k
      <4>1. ref[2] <= calls[p]
        <5>1. ref[2] = calls[p] /\ calls[p] \in Nat
          BY <1>2, MaxCallsAssumption DEF Latest, IInv, TypeOK
        <5>. QED BY <5>1
      <4>. QED BY <1>2, <2>1, <2>2, <3>1, <4>1
    <3>2. CASE h # k
      <4>1. holder'[h] = holder[h] /\ holder[h] \in Refs
        BY <2>2, <3>2 DEF IInv, TypeOK
      <4>2. Owner(holder[h]) \in Procs
        BY <4>1 DEF Refs
      <4>3. mailbox'[Owner(holder[h])][h] = mailbox[Owner(holder[h])][h]
        BY <1>3, <3>2, <4>2
      <4>. QED BY <2>1, <4>1, <4>2, <4>3 DEF IInv, HolderInv, CallsInv
    <3>. QED BY <3>1, <3>2
  <2>9. MonitorsExact'
    <3>. SUFFICES ASSUME NEW h \in Keys
                  PROVE  /\ monitors'[h] = Elems(waiting[h]) \cup ({holder'[h]} \ {NoRef})
                         /\ Distinct(waiting[h])
                         /\ holder'[h] \notin Elems(waiting[h])
                         /\ holder'[h] = NoRef => waiting[h] = << >>
      BY <2>1 DEF MonitorsExact, LineRefs, Elems, Distinct
    <3>1. /\ monitors[h] = Elems(waiting[h]) \cup ({holder[h]} \ {NoRef}) /\ Distinct(waiting[h])
          /\ holder[h] \notin Elems(waiting[h])
          /\ holder[h] = NoRef => waiting[h] = << >>
      BY DEF IInv, MonitorsExact, LineRefs, Elems, Distinct
    <3>2. CASE h = k
      <4>1. monitors'[k] = Elems(waiting[k]) \cup {ref} /\ holder'[k] = ref
        BY <1>5, <1>9, <2>2, <3>1, <3>2
      <4>. QED BY <1>2, <3>1, <3>2, <4>1
    <3>3. CASE h # k
      <4>1. monitors'[h] = monitors[h] /\ holder'[h] = holder[h]
        BY <1>5, <2>2, <3>3
      <4>. QED BY <3>1, <4>1 DEF Elems, Distinct
    <3>. QED BY <3>2, <3>3
  <2>. QED BY <1>6, <2>3, <2>4, <2>5, <2>6, <2>7, <2>8, <2>9 DEF IInv
<1>10. CASE holder[k] # NoRef
  <2>1. waiting' = [waiting EXCEPT ![k] = Append(@, ref)] /\ UNCHANGED <<holder, replies>>
    BY <1>2, <1>10 DEF HandleAcquire, Joined, ref
  <2>2. waiting[k] \in Seq(Refs) /\ Distinct(waiting[k])
    BY DEF IInv, TypeOK, MonitorsExact, Distinct
  <2>3. /\ Append(waiting[k], ref) \in Seq(Refs) /\ Distinct(Append(waiting[k], ref))
        /\ Elems(Append(waiting[k], ref)) = Elems(waiting[k]) \cup {ref}
    BY <1>2, <2>2, AppendLine
  <2>4. waiting'[k] = Append(waiting[k], ref) /\ \A h \in Keys : h # k => waiting'[h] = waiting[h]
    BY <2>1 DEF IInv, TypeOK
  <2>5. TypeOK'
    BY <1>2, <1>3, <1>4, <2>1, <2>3 DEF IInv, TypeOK
  <2>6. MailInv'
    <3>. SUFFICES ASSUME NEW q \in Procs, NEW h \in Keys, NEW i \in DOMAIN mailbox'[q][h]
                  PROVE  /\ mailbox'[q][h][i].op = "acquire" =>
                              /\ i = Len(mailbox'[q][h])
                              /\ mailbox'[q][h][i].ref = Latest(q)
                              /\ blocked[q] = h
                         /\ mailbox'[q][h][i].op = "release" =>
                              /\ i = 1
                              /\ h \notin held[q]
                              /\ holder[h] # NoRef /\ Owner(holder[h]) = q /\ holder[h] \notin replies
      BY <1>3, <2>1 DEF MailInv, Latest
    <3>1. ~(q = p /\ h = k)
      BY <1>2
    <3>2. mailbox'[q][h] = mailbox[q][h]
      BY <1>3, <3>1
    <3>. QED BY <3>2 DEF IInv, MailInv
  <2>7. HeldInv'
    <3>. SUFFICES ASSUME NEW q \in Procs, NEW h \in held[q]
                  PROVE  /\ blocked[q] # h
                         /\ mailbox'[q][h] = << >>
                         /\ q \in alive => holder[h] # NoRef /\ Owner(holder[h]) = q /\ holder[h] \notin replies
      BY <1>3, <2>1 DEF HeldInv
    <3>1. h \in Keys
      BY DEF IInv, TypeOK
    <3>. QED BY <1>8, <3>1 DEF IInv, HeldInv
  <2>8. RepliesInv'
    <3>. SUFFICES ASSUME NEW r \in replies
                  PROVE  /\ r = Latest(Owner(r))
                         /\ blocked[Owner(r)] # NoKey
                         /\ mailbox'[Owner(r)][blocked[Owner(r)]] = << >>
                         /\ Owner(r) \in alive => holder[blocked[Owner(r)]] = r
      BY <1>3, <2>1 DEF RepliesInv, Latest
    <3>1. Owner(r) \in Procs /\ blocked[Owner(r)] \in Keys
      BY DEF IInv, TypeOK, RepliesInv, Refs
    <3>. QED BY <1>8, <3>1 DEF IInv, RepliesInv
  <2>9. LineInv'
    <3>. SUFFICES ASSUME NEW h \in Keys, NEW r \in Elems(waiting'[h])
                  PROVE  /\ r = Latest(Owner(r)) /\ blocked[Owner(r)] = h
                         /\ mailbox'[Owner(r)][h] = << >> /\ r \notin replies
      BY <1>3, <2>1 DEF LineInv, Latest, Elems
    <3>1. CASE r = ref
      <4>1. h = k
        BY <1>2, <2>4, <3>1
      <4>. QED BY <1>2, <3>1, <4>1
    <3>2. CASE r # ref
      <4>1. r \in Elems(waiting[h])
        BY <2>3, <2>4, <3>2
      <4>2. r \in Refs
        BY <4>1 DEF IInv, TypeOK, Elems
      <4>3. Owner(r) \in Procs
        BY <4>2 DEF Refs
      <4>4. /\ r = Latest(Owner(r)) /\ blocked[Owner(r)] = h
            /\ mailbox[Owner(r)][h] = << >> /\ r \notin replies
        BY <4>1 DEF IInv, LineInv, Elems
      <4>. QED BY <1>8, <4>3, <4>4
    <3>. QED BY <3>1, <3>2
  <2>10. HolderInv' /\ CallsInv'
    <3>. SUFFICES ASSUME NEW h \in Keys, holder[h] # NoRef
                  PROVE  /\ IF mailbox'[Owner(holder[h])][h] = << >>
                            THEN \/ h \in held[Owner(holder[h])]
                                 \/ holder[h] \in replies /\ blocked[Owner(holder[h])] = h
                            ELSE mailbox'[Owner(holder[h])][h][1].op = "release"
                         /\ holder[h][2] <= calls[Owner(holder[h])]
                         /\ holder[h] = Latest(Owner(holder[h])) => blocked[Owner(holder[h])] \in {NoKey, h}
      BY <1>3, <2>1 DEF HolderInv, CallsInv, Latest
    <3>1. holder[h] \in Refs
      BY DEF IInv, TypeOK
    <3>2. Owner(holder[h]) \in Procs /\ ~(Owner(holder[h]) = p /\ h = k)
      BY <1>2, <3>1 DEF Refs
    <3>3. mailbox'[Owner(holder[h])][h] = mailbox[Owner(holder[h])][h]
      BY <1>3, <3>2
    <3>. QED BY <3>3 DEF IInv, HolderInv, CallsInv
  <2>11. MonitorsExact'
    <3>. SUFFICES ASSUME NEW h \in Keys
                  PROVE  /\ monitors'[h] = Elems(waiting'[h]) \cup ({holder[h]} \ {NoRef})
                         /\ Distinct(waiting'[h])
                         /\ holder[h] \notin Elems(waiting'[h])
                         /\ holder[h] = NoRef => waiting'[h] = << >>
      BY <2>1 DEF MonitorsExact, LineRefs, Elems, Distinct
    <3>1. /\ monitors[h] = Elems(waiting[h]) \cup ({holder[h]} \ {NoRef}) /\ Distinct(waiting[h])
          /\ holder[h] \notin Elems(waiting[h])
          /\ holder[h] = NoRef => waiting[h] = << >>
      BY DEF IInv, MonitorsExact, LineRefs, Elems, Distinct
    <3>2. CASE h = k
      <4>1. /\ waiting'[h] = Append(waiting[k], ref) /\ monitors'[h] = monitors[k] \cup {ref}
            /\ ref # holder[k]
        BY <1>2, <1>5, <2>4, <3>2
      <4>2. Elems(waiting'[h]) = Elems(waiting[k]) \cup {ref} /\ Distinct(waiting'[h])
        BY <2>3, <4>1
      <4>3. holder[h] \notin Elems(waiting'[h]) /\ holder[h] # NoRef
        BY <1>10, <3>1, <3>2, <4>1, <4>2
      <4>4. monitors'[h] = Elems(waiting'[h]) \cup {holder[h]}
        BY <1>10, <3>1, <3>2, <4>1, <4>2
      <4>. QED BY <4>2, <4>3, <4>4
    <3>3. CASE h # k
      <4>1. waiting'[h] = waiting[h] /\ monitors'[h] = monitors[h]
        BY <1>5, <2>4, <3>3
      <4>. QED BY <3>1, <4>1 DEF Elems, Distinct
    <3>. QED BY <3>2, <3>3
  <2>. QED BY <1>6, <2>5, <2>6, <2>7, <2>8, <2>9, <2>10, <2>11 DEF IInv
<1>. QED BY <1>9, <1>10

-----------------------------------------------------------------------------
\* The theorems.

LEMMA InitIInv == Init => IInv
<1>. SUFFICES ASSUME Init PROVE IInv
  OBVIOUS
<1>1. TypeOK
  BY MaxCallsAssumption DEF Init, TypeOK
<1>2. SectionsInv /\ MailInv /\ HeldInv /\ RepliesInv
  BY DEF Init, SectionsInv, MailInv, HeldInv, RepliesInv
<1>3. LineInv /\ HolderInv /\ CallsInv /\ MonitorsExact
  BY DEF Init, LineInv, HolderInv, CallsInv, MonitorsExact, LineRefs
<1>. QED BY <1>1, <1>2, <1>3 DEF IInv

LEMMA NextIInv == IInv /\ [Next]_vars => IInv'
<1>. SUFFICES ASSUME IInv, [Next]_vars PROVE IInv'
  OBVIOUS
<1>1. ASSUME NEW k \in Keys, NEW p \in Procs, HandleAcquire(p, k) PROVE IInv'
  BY <1>1, AcquireStep
<1>2. ASSUME NEW k \in Keys, NEW p \in Procs, HandleRelease(p, k) PROVE IInv'
  BY <1>2, ReleaseStep
<1>3. ASSUME NEW k \in Keys, NEW ref \in monitors[k], HandleDown(ref, k) PROVE IInv'
  BY <1>3, DownStep
<1>4. ASSUME NEW p \in Procs, NEW k \in Keys, Ask(p, k) PROVE IInv'
  BY <1>4, AskStep
<1>5. ASSUME NEW p \in Procs, NEW k \in Keys, Reenter(p, k) PROVE IInv'
  BY <1>5, ReenterStep
<1>6. ASSUME NEW p \in Procs, Enter(p) PROVE IInv'
  BY <1>6, EnterStep
<1>7. ASSUME NEW p \in Procs, Leave(p) PROVE IInv'
  BY <1>7, LeaveStep
<1>8. ASSUME NEW p \in Procs, Die(p) PROVE IInv'
  BY <1>8, DieStep
<1>9. CASE UNCHANGED vars
  BY <1>9 DEF vars, clientVars, serverVars, IInv, TypeOK, SectionsInv, MailInv, HeldInv,
              RepliesInv, LineInv, HolderInv, CallsInv, MonitorsExact, LineRefs, Latest
<1>. QED BY <1>1, <1>2, <1>3, <1>4, <1>5, <1>6, <1>7, <1>8, <1>9 DEF Next, Server, Client

\* Sections keep their backing, as they are entered and left.
LEMMA BackedInner ==
  ASSUME NEW s \in Seq(Section), NEW h \in SUBSET Keys, NEW k \in h, Backed(s, h)
  PROVE  Backed(<<Inner(k)>> \o s, h)
<1>. DEFINE e == Inner(k)
            t == <<e>> \o s
<1>1. e \in Section /\ ~e.took /\ e.key = k
  BY DEF Inner, Section
<1>. HIDE DEF e
<1>2. /\ DOMAIN t = 1..(Len(s) + 1) /\ Len(s) \in Nat /\ DOMAIN s = 1..Len(s) /\ t[1] = e
      /\ \A i \in 2..(Len(s) + 1) : t[i] = s[i - 1] /\ i - 1 \in DOMAIN s
  BY <1>1, PushSeq
<1>. HIDE DEF t
<1>3. \A j \in DOMAIN s : j + 1 \in DOMAIN t /\ t[j + 1] = s[j] /\ j \in Nat
  BY <1>2
<1>4. \A g \in h : \E j \in DOMAIN t : j >= 1 /\ t[j].took /\ t[j].key = g
  <2>. SUFFICES ASSUME NEW g \in h PROVE \E j \in DOMAIN t : j >= 1 /\ t[j].took /\ t[j].key = g
    OBVIOUS
  <2>1. PICK j \in DOMAIN s : s[j].took /\ s[j].key = g
    BY DEF Backed
  <2>2. j + 1 \in DOMAIN t /\ t[j + 1] = s[j] /\ j + 1 >= 1
    BY <1>3
  <2>. QED BY <2>1, <2>2
<1>5. ASSUME NEW i \in DOMAIN t
      PROVE  \E j \in DOMAIN t : j >= i /\ t[j].took /\ t[j].key = t[i].key
  <2>1. CASE i = 1
    BY <1>1, <1>2, <1>4, <2>1
  <2>2. CASE i # 1
    <3>1. i \in Nat /\ i - 1 \in DOMAIN s /\ t[i] = s[i - 1]
      BY <1>2, <2>2
    <3>2. PICK j \in DOMAIN s : j >= i - 1 /\ s[j].took /\ s[j].key = s[i - 1].key
      BY <3>1 DEF Backed
    <3>3. j + 1 \in DOMAIN t /\ t[j + 1] = s[j] /\ j + 1 >= i
      BY <1>3, <3>1, <3>2
    <3>. QED BY <3>1, <3>2, <3>3
  <2>. QED BY <2>1, <2>2
<1>6. Backed(t, h)
  BY <1>4, <1>5 DEF Backed
<1>. QED BY <1>6 DEF t, e

LEMMA BackedEnter ==
  ASSUME NEW s \in Seq(Section), NEW h \in SUBSET Keys, NEW e \in Section, e.took, Backed(s, h)
  PROVE  Backed(<<e>> \o s, h \cup {e.key})
<1>. DEFINE t == <<e>> \o s
<1>2. /\ DOMAIN t = 1..(Len(s) + 1) /\ Len(s) \in Nat /\ DOMAIN s = 1..Len(s) /\ t[1] = e
      /\ \A i \in 2..(Len(s) + 1) : t[i] = s[i - 1] /\ i - 1 \in DOMAIN s
  BY PushSeq
<1>. HIDE DEF t
<1>3. \A j \in DOMAIN s : j + 1 \in DOMAIN t /\ t[j + 1] = s[j] /\ j \in Nat
  BY <1>2
<1>4. \A g \in h \cup {e.key} : \E j \in DOMAIN t : t[j].took /\ t[j].key = g
  <2>. SUFFICES ASSUME NEW g \in h \cup {e.key} PROVE \E j \in DOMAIN t : t[j].took /\ t[j].key = g
    OBVIOUS
  <2>1. CASE g = e.key
    BY <1>2, <2>1
  <2>2. CASE g \in h
    <3>1. PICK j \in DOMAIN s : s[j].took /\ s[j].key = g
      BY <2>2 DEF Backed
    <3>. QED BY <1>3, <3>1
  <2>. QED BY <2>1, <2>2
<1>5. ASSUME NEW i \in DOMAIN t
      PROVE  \E j \in DOMAIN t : j >= i /\ t[j].took /\ t[j].key = t[i].key
  <2>1. CASE i = 1
    BY <1>2, <2>1
  <2>2. CASE i # 1
    <3>1. i \in Nat /\ i - 1 \in DOMAIN s /\ t[i] = s[i - 1]
      BY <1>2, <2>2
    <3>2. PICK j \in DOMAIN s : j >= i - 1 /\ s[j].took /\ s[j].key = s[i - 1].key
      BY <3>1 DEF Backed
    <3>3. j + 1 \in DOMAIN t /\ t[j + 1] = s[j] /\ j + 1 >= i
      BY <1>3, <3>1, <3>2
    <3>. QED BY <3>1, <3>2, <3>3
  <2>. QED BY <2>1, <2>2
<1>6. Backed(t, h \cup {e.key})
  BY <1>4, <1>5 DEF Backed
<1>. QED BY <1>6 DEF t

LEMMA BackedTail ==
  ASSUME NEW s \in Seq(Section), s # << >>, NEW h \in SUBSET Keys, Backed(s, h)
  PROVE  Backed(Tail(s), IF Head(s).took THEN h \ {Head(s).key} ELSE h)
<1>. DEFINE t == Tail(s)
            g == IF Head(s).took THEN h \ {Head(s).key} ELSE h
<1>1. /\ Head(s) = s[1] /\ Len(s) \in Nat \ {0} /\ DOMAIN s = 1..Len(s)
      /\ DOMAIN t = 1..(Len(s) - 1)
      /\ \A i \in 1..(Len(s) - 1) : t[i] = s[i + 1] /\ i + 1 \in DOMAIN s
  BY TailSeq
<1>. HIDE DEF t
<1>2. \A j \in DOMAIN s : j > 1 => j - 1 \in DOMAIN t /\ t[j - 1] = s[j]
  BY <1>1
<1>3. ASSUME NEW k \in g PROVE \E j \in DOMAIN t : t[j].took /\ t[j].key = k
  <2>1. PICK j \in DOMAIN s : s[j].took /\ s[j].key = k
    BY DEF Backed
  <2>2. j # 1
    BY <1>1, <2>1
  <2>. QED BY <1>1, <1>2, <2>1, <2>2
<1>4. ASSUME NEW i \in DOMAIN t
      PROVE  \E j \in DOMAIN t : j >= i /\ t[j].took /\ t[j].key = t[i].key
  <2>1. i \in Nat \ {0} /\ t[i] = s[i + 1] /\ i + 1 \in DOMAIN s
    BY <1>1
  <2>2. PICK j \in DOMAIN s : j >= i + 1 /\ s[j].took /\ s[j].key = s[i + 1].key
    BY <2>1 DEF Backed
  <2>3. j - 1 \in DOMAIN t /\ t[j - 1] = s[j] /\ j - 1 >= i
    BY <1>1, <1>2, <2>1, <2>2
  <2>. QED BY <2>1, <2>2, <2>3
<1>5. Backed(t, g)
  BY <1>3, <1>4 DEF Backed
<1>. QED BY <1>5 DEF t

LEMMA NextNestInv == IInv /\ NestInv /\ [Next]_vars => NestInv'
<1>. SUFFICES ASSUME IInv, NestInv, [Next]_vars, NEW q \in Procs
              PROVE  Backed(sections'[q], held'[q])
  BY DEF NestInv
<1>1. sections \in [Procs -> Seq(Section)] /\ held \in [Procs -> SUBSET Keys]
      /\ Backed(sections[q], held[q])
  BY DEF IInv, TypeOK, NestInv
<1>2. ASSUME UNCHANGED <<sections, held>> PROVE Backed(sections'[q], held'[q])
  BY <1>1, <1>2
<1>3. ASSUME NEW p \in Procs, NEW k \in Keys, Reenter(p, k)
      PROVE  Backed(sections'[q], held'[q])
  <2>1. /\ held' = held /\ k \in held[p]
        /\ sections' = [sections EXCEPT ![p] = <<Inner(k)>> \o @]
    BY <1>3 DEF Reenter
  <2>2. CASE q = p
    <3>1. sections'[q] = <<Inner(k)>> \o sections[q] /\ held'[q] = held[q] /\ k \in held[q]
      BY <1>1, <2>1, <2>2
    <3>2. sections[q] \in Seq(Section) /\ held[q] \in SUBSET Keys
      BY <1>1
    <3>. QED BY <1>1, <3>1, <3>2, BackedInner
  <2>3. CASE q # p
    BY <1>1, <2>1, <2>3
  <2>. QED BY <2>2, <2>3
<1>4. ASSUME NEW p \in Procs, Enter(p)
      PROVE  Backed(sections'[q], held'[q])
  <2>. DEFINE e == [key |-> blocked[p], took |-> TRUE]
  <2>1. /\ held' = [held EXCEPT ![p] = @ \cup {blocked[p]}]
        /\ sections' = [sections EXCEPT ![p] = <<e>> \o @]
        /\ blocked[p] \in Keys
    BY <1>4 DEF Enter, IInv, TypeOK
  <2>2. e \in Section /\ e.took /\ e.key = blocked[p]
    BY <2>1 DEF Section
  <2>. HIDE DEF e
  <2>3. CASE q = p
    <3>1. sections'[q] = <<e>> \o sections[q] /\ held'[q] = held[q] \cup {e.key}
      BY <1>1, <2>1, <2>2, <2>3
    <3>2. sections[q] \in Seq(Section) /\ held[q] \in SUBSET Keys
      BY <1>1
    <3>3. Backed(sections[q], held[q]) /\ e \in Section /\ e.took
      BY <1>1, <2>2
    <3>4. Backed(<<e>> \o sections[q], held[q] \cup {e.key})
      BY <3>2, <3>3, BackedEnter
    <3>. QED BY <3>1, <3>4
  <2>4. CASE q # p
    BY <1>1, <2>1, <2>4
  <2>. QED BY <2>3, <2>4
<1>5. ASSUME NEW p \in Procs, Leave(p)
      PROVE  Backed(sections'[q], held'[q])
  <2>1. /\ sections[p] # << >> /\ sections' = [sections EXCEPT ![p] = Tail(@)]
        /\ held' = IF Head(sections[p]).took
                   THEN [held EXCEPT ![p] = @ \ {Head(sections[p]).key}] ELSE held
    BY <1>5 DEF Leave
  <2>2. CASE q = p
    <3>1. /\ sections'[q] = Tail(sections[q]) /\ sections[q] # << >>
          /\ held'[q] = IF Head(sections[q]).took THEN held[q] \ {Head(sections[q]).key} ELSE held[q]
      BY <1>1, <2>1, <2>2
    <3>2. sections[q] \in Seq(Section) /\ held[q] \in SUBSET Keys
      BY <1>1
    <3>. QED BY <1>1, <3>1, <3>2, BackedTail
  <2>3. CASE q # p
    BY <1>1, <2>1, <2>3
  <2>. QED BY <2>2, <2>3
<1>6. CASE Server
  <2>1. UNCHANGED <<sections, held>>
    BY <1>6 DEF Server, HandleAcquire, HandleRelease, HandleDown, Receive, clientVars
  <2>. QED BY <1>2, <2>1
<1>7. CASE UNCHANGED vars
  BY <1>2, <1>7 DEF vars, clientVars
<1>8. ASSUME NEW p \in Procs, (\E k \in Keys : Ask(p, k)) \/ Die(p)
      PROVE  Backed(sections'[q], held'[q])
  <2>1. UNCHANGED <<sections, held>>
    BY <1>8 DEF Ask, Die
  <2>. QED BY <1>2, <2>1
<1>. QED BY <1>3, <1>4, <1>5, <1>6, <1>7, <1>8 DEF Next, Client

THEOREM Invariance == Spec => [](IInv /\ NestInv)
<1>1. Init => NestInv
  <2>. SUFFICES ASSUME Init, NEW p \in Procs PROVE Backed(sections[p], held[p])
    BY DEF NestInv
  <2>1. sections[p] = << >> /\ held[p] = {}
    BY DEF Init
  <2>. QED BY <2>1 DEF Backed
<1>. QED BY <1>1, InitIInv, NextIInv, NextNestInv, PTL DEF Spec

\* A process inside a section of a key has it in its dictionary.
LEMMA InsideHeld == NestInv /\ IInv => \A k \in Keys : \A p \in Inside(k) : k \in held[p]
<1>. SUFFICES ASSUME NestInv, IInv, NEW k \in Keys, NEW p \in Inside(k) PROVE k \in held[p]
  OBVIOUS
<1>1. p \in Procs /\ Backed(sections[p], held[p])
  BY DEF Inside, IInv, TypeOK, NestInv
<1>2. PICK i \in DOMAIN sections[p] : sections[p][i].key = k
  BY DEF Inside
<1>3. PICK j \in DOMAIN sections[p] : sections[p][j].took /\ sections[p][j].key = sections[p][i].key
  BY <1>1 DEF Backed
<1>. QED BY <1>1, <1>2, <1>3 DEF IInv, SectionsInv

\* Every variable has its type, whoever dies and whatever is in flight.
THEOREM TypeCorrect == Spec => []TypeOK
<1>1. IInv => TypeOK
  BY DEF IInv
<1>. QED BY <1>1, Invariance, PTL

\* Local.trans/2 is a mutex: no two live processes are inside sections of one
\* key (lock/local.ex:26).
THEOREM MutualExclusionHolds == Spec => []MutualExclusion
<1>1. IInv /\ NestInv => MutualExclusion
  <2>. SUFFICES ASSUME IInv, NestInv, NEW k \in Keys, NEW p \in Inside(k), NEW q \in Inside(k)
                PROVE  p = q
    BY DEF MutualExclusion
  <2>1. p \in alive /\ q \in alive /\ k \in held[p] /\ k \in held[q]
    BY InsideHeld DEF Inside
  <2>2. p \in Procs /\ q \in Procs
    BY <2>1 DEF IInv, TypeOK
  <2>3. Owner(holder[k]) = p /\ Owner(holder[k]) = q
    BY <2>1, <2>2 DEF IInv, HeldInv
  <2>. QED BY <2>3
<1>. QED BY <1>1, Invariance, PTL

\* The server monitors exactly the holder and the line (lock/queue.ex:6-9).
THEOREM MonitorsExactHolds == Spec => []MonitorsExact
<1>1. IInv => MonitorsExact
  BY DEF IInv
<1>. QED BY <1>1, Invariance, PTL

\* A process inside a section, or told it may enter, is the key's holder at
\* the server: no late release takes a later hold away (lock/queue.ex:69).
THEOREM HolderInsideHolds == Spec => []HolderInside
<1>1. IInv /\ NestInv => HolderInside
  <2>. SUFFICES ASSUME IInv, NestInv, NEW p \in alive, NEW k \in Keys,
                       p \in Inside(k) \/ (blocked[p] = k /\ <<p, calls[p]>> \in replies)
                PROVE  holder[k] # NoRef /\ Owner(holder[k]) = p
    BY DEF HolderInside
  <2>1. CASE p \in Inside(k)
    <3>1. k \in held[p]
      BY <2>1, InsideHeld
    <3>. QED BY <3>1 DEF IInv, TypeOK, HeldInv
  <2>2. CASE blocked[p] = k /\ <<p, calls[p]>> \in replies
    BY <2>2, NoRefAssumption DEF IInv, TypeOK, RepliesInv
  <2>. QED BY <2>1, <2>2
<1>. QED BY <1>1, Invariance, PTL

\* A live waiter is never overtaken (lock/queue.ex:3-4).
THEOREM FirstComeFirstServedHolds == Spec => FirstComeFirstServed
<1>. DEFINE Fair == \A k \in Keys : \A i \in DOMAIN waiting[k] : \A b \in Refs \ Earlier(k, i) :
                      LET a == waiting[k][i] IN
                      Owner(a) \in alive =>
                        \/ holder'[k] = a
                        \/ holder'[k] # b /\ (b \in LineRefs(k)' => Ahead(waiting'[k], a, b))
\* Against those behind it in line.
<1>1. ASSUME IInv, [Next]_vars,
             NEW k \in Keys, NEW i \in DOMAIN waiting[k], NEW j \in DOMAIN waiting[k],
             i < j, Owner(waiting[k][i]) \in alive
      PROVE  \/ holder'[k] = waiting[k][i]
             \/ /\ holder'[k] # waiting[k][j]
                /\ \/ Ahead(waiting'[k], waiting[k][i], waiting[k][j])
                   \/ waiting[k][j] \notin Elems(waiting'[k])
  <2>1. /\ waiting[k] \in Seq(Refs) /\ Distinct(waiting[k])
        /\ holder[k] \notin Elems(waiting[k]) /\ holder[k] # NoRef
        /\ waiting[k][j] \in Refs /\ waiting[k][i] # waiting[k][j]
    <3>1. waiting[k] \in Seq(Refs) /\ Distinct(waiting[k]) /\ holder[k] \notin Elems(waiting[k])
      BY <1>1 DEF IInv, TypeOK, MonitorsExact, LineRefs, Elems, Distinct
    <3>2. holder[k] # NoRef
      BY <1>1 DEF IInv, MonitorsExact
    <3>. QED BY <1>1, <3>1, <3>2 DEF Distinct
  <2>2. waiting[k][j] # NoRef /\ holder[k] # waiting[k][j]
    BY <2>1, NoRefAssumption DEF Elems
  <2>3. CASE UNCHANGED <<holder, waiting>>
    BY <1>1, <2>2, <2>3 DEF Ahead
  <2>4. ASSUME NEW h \in Keys, HandOn(h), holder[h] # NoRef
        PROVE  \/ holder'[k] = waiting[k][i]
               \/ holder'[k] # waiting[k][j] /\ Ahead(waiting'[k], waiting[k][i], waiting[k][j])
    <3>1. CASE h = k
      <4>1. /\ holder' = [holder EXCEPT ![k] = Head(waiting[k])]
            /\ waiting' = [waiting EXCEPT ![k] = Tail(@)]
            /\ waiting[k] # << >>
        BY <2>1, <2>4, <3>1 DEF HandOn
      <4>2. holder'[k] = Head(waiting[k]) /\ waiting'[k] = Tail(waiting[k])
        BY <1>1, <4>1 DEF IInv, TypeOK
      <4>3. CASE i = 1
        BY <2>1, <4>1, <4>2, <4>3, TailLine
      <4>4. CASE i # 1
        <5>1. /\ Head(waiting[k]) = waiting[k][1] /\ 1 \in DOMAIN waiting[k]
              /\ i - 1 \in DOMAIN Tail(waiting[k]) /\ Tail(waiting[k])[i - 1] = waiting[k][i]
          BY <2>1, <4>1, <4>4, TailLine
        <5>2. j # 1 /\ i \in Int /\ j \in Int
          BY <1>1, <2>1, <4>4
        <5>3. j - 1 \in DOMAIN Tail(waiting[k]) /\ Tail(waiting[k])[j - 1] = waiting[k][j]
          BY <2>1, <4>1, <5>2, TailLine
        <5>4. Ahead(waiting'[k], waiting[k][i], waiting[k][j])
          <6>1. i - 1 < j - 1
            BY <1>1, <5>2
          <6>. QED BY <4>2, <5>1, <5>3, <6>1 DEF Ahead
        <5>5. holder'[k] # waiting[k][j]
          BY <2>1, <4>2, <5>1, <5>2 DEF Distinct
        <5>. QED BY <5>4, <5>5
      <4>. QED BY <4>3, <4>4
    <3>2. CASE h # k
      <4>1. holder'[k] = holder[k] /\ waiting'[k] = waiting[k]
        BY <1>1, <2>4, <3>2 DEF HandOn, IInv, TypeOK
      <4>. QED BY <1>1, <2>2, <4>1 DEF Ahead
    <3>. QED BY <3>1, <3>2
  <2>5. ASSUME NEW h \in Keys, NEW p \in Procs, HandleAcquire(p, h)
        PROVE  \/ holder'[k] = waiting[k][i]
               \/ holder'[k] # waiting[k][j] /\ Ahead(waiting'[k], waiting[k][i], waiting[k][j])
    <3>. DEFINE ref == mailbox[p][h][1].ref
    <3>1. Receive(p, h, "acquire")
      BY <2>5 DEF HandleAcquire
    <3>2. Head(mailbox[p][h]).ref = ref /\ ref \in Refs /\ ref \notin Elems(waiting[h])
      BY <1>1, <3>1, AcquireFacts
    <3>. HIDE DEF ref
    <3>3. CASE h = k
      <4>1. holder' = holder /\ waiting' = [waiting EXCEPT ![k] = Append(@, ref)]
        BY <2>1, <2>5, <3>2, <3>3 DEF HandleAcquire, Joined
      <4>2. waiting'[k] = Append(waiting[k], ref)
        BY <1>1, <4>1 DEF IInv, TypeOK
      <4>3. /\ i \in DOMAIN waiting'[k] /\ waiting'[k][i] = waiting[k][i]
            /\ j \in DOMAIN waiting'[k] /\ waiting'[k][j] = waiting[k][j]
        BY <2>1, <3>2, <3>3, <4>2, AppendLine
      <4>. QED BY <1>1, <2>2, <4>1, <4>3 DEF Ahead
    <3>4. CASE h # k
      <4>1. holder'[k] = holder[k] /\ waiting'[k] = waiting[k]
        BY <1>1, <2>5, <3>4 DEF HandleAcquire, Joined, IInv, TypeOK
      <4>. QED BY <1>1, <2>2, <4>1 DEF Ahead
    <3>. QED BY <3>3, <3>4
  <2>6. ASSUME NEW h \in Keys, NEW n \in DOMAIN waiting[h], Owner(waiting[h][n]) \notin alive,
               waiting' = [waiting EXCEPT ![h] = OutOfLine(@, n)], UNCHANGED holder
        PROVE  \/ holder'[k] = waiting[k][i]
               \/ /\ holder'[k] # waiting[k][j]
                  /\ \/ Ahead(waiting'[k], waiting[k][i], waiting[k][j])
                     \/ waiting[k][j] \notin Elems(waiting'[k])
    <3>1. CASE h = k
      <4>1. waiting'[k] = OutOfLine(waiting[k], n) /\ i # n /\ n \in DOMAIN waiting[k]
        BY <1>1, <2>6, <3>1 DEF IInv, TypeOK
      <4>2. /\ \A x \in DOMAIN waiting[k] :
                 /\ x < n => x \in DOMAIN waiting'[k] /\ waiting'[k][x] = waiting[k][x]
                 /\ x > n => x - 1 \in DOMAIN waiting'[k] /\ waiting'[k][x - 1] = waiting[k][x]
            /\ Elems(waiting'[k]) = Elems(waiting[k]) \ {waiting[k][n]}
        BY <2>1, <4>1, RemoveLine
      <4>3. i \in Int /\ j \in Int /\ n \in Int
        BY <2>1, <4>1
      <4>4. CASE j = n
        BY <2>2, <2>6, <4>2, <4>4
      <4>5. CASE j # n
        <5>1. CASE j < n
          <6>1. i < n
            BY <1>1, <4>3, <5>1
          <6>2. /\ i \in DOMAIN waiting'[k] /\ waiting'[k][i] = waiting[k][i]
                /\ j \in DOMAIN waiting'[k] /\ waiting'[k][j] = waiting[k][j]
            BY <4>2, <5>1, <6>1
          <6>. QED BY <1>1, <2>2, <2>6, <6>2 DEF Ahead
        <5>2. CASE i < n /\ j > n
          <6>1. i < j - 1 /\ j - 1 \in DOMAIN waiting'[k] /\ waiting'[k][j - 1] = waiting[k][j]
            BY <4>2, <4>3, <5>2
          <6>2. i \in DOMAIN waiting'[k] /\ waiting'[k][i] = waiting[k][i]
            BY <4>2, <5>2
          <6>. QED BY <2>2, <2>6, <6>1, <6>2 DEF Ahead
        <5>3. CASE i > n
          <6>1. i - 1 < j - 1 /\ j > n
            BY <1>1, <4>3, <5>3
          <6>2. /\ j - 1 \in DOMAIN waiting'[k] /\ waiting'[k][j - 1] = waiting[k][j]
                /\ i - 1 \in DOMAIN waiting'[k] /\ waiting'[k][i - 1] = waiting[k][i]
            BY <4>2, <5>3, <6>1
          <6>. QED BY <2>2, <2>6, <6>1, <6>2 DEF Ahead
        <5>. QED BY <4>1, <4>3, <4>5, <5>1, <5>2, <5>3
      <4>. QED BY <4>4, <4>5
    <3>2. CASE h # k
      <4>1. holder'[k] = holder[k] /\ waiting'[k] = waiting[k]
        BY <1>1, <2>6, <3>2 DEF IInv, TypeOK
      <4>. QED BY <1>1, <2>2, <4>1 DEF Ahead
    <3>. QED BY <3>1, <3>2
  <2>7. ASSUME NEW h \in Keys, NEW p \in Procs, HandleRelease(p, h)
        PROVE  (HandOn(h) /\ holder[h] # NoRef) \/ UNCHANGED <<holder, waiting>>
    BY <2>7 DEF HandleRelease, Free, serverVars
  <2>8. ASSUME NEW h \in Keys, NEW ref \in monitors[h], HandleDown(ref, h)
        PROVE  \/ HandOn(h) /\ holder[h] # NoRef
               \/ UNCHANGED <<holder, waiting>>
               \/ \E n \in DOMAIN waiting[h] :
                    /\ Owner(waiting[h][n]) \notin alive
                    /\ waiting' = [waiting EXCEPT ![h] = OutOfLine(@, n)]
                    /\ UNCHANGED holder
    <3>1. ref # NoRef
      BY <1>1, NoRefAssumption DEF IInv, TypeOK
    <3>. QED BY <2>8, <3>1 DEF HandleDown, HolderDied
  <2>9. ASSUME NEW p \in Procs, Client(p) \/ Die(p)
        PROVE  UNCHANGED <<holder, waiting>>
    BY <2>9 DEF Client, Ask, Reenter, Enter, Leave, Die, serverVars
  <2>10. CASE UNCHANGED vars
    BY <2>3, <2>10 DEF vars, serverVars
  <2>11. CASE Server
    BY <2>3, <2>4, <2>5, <2>6, <2>7, <2>8, <2>11 DEF Server
  <2>12. CASE \E p \in Procs : Client(p) \/ Die(p)
    BY <2>3, <2>9, <2>12
  <2>. QED BY <1>1, <2>10, <2>11, <2>12 DEF Next
\* Against those not in line.
<1>2. ASSUME IInv, [Next]_vars,
             NEW k \in Keys, NEW i \in DOMAIN waiting[k], NEW b \in Refs,
             b # holder[k], b \notin Elems(waiting[k])
      PROVE  /\ holder'[k] # b
             /\ \/ holder'[k] = waiting[k][i]
                \/ Ahead(waiting'[k], waiting[k][i], b)
                \/ b \notin Elems(waiting'[k])
  <2>1. /\ waiting[k] \in Seq(Refs) /\ Distinct(waiting[k])
        /\ holder[k] \notin Elems(waiting[k]) /\ holder[k] # NoRef
    <3>1. waiting[k] \in Seq(Refs) /\ Distinct(waiting[k]) /\ holder[k] \notin Elems(waiting[k])
      BY <1>2 DEF IInv, TypeOK, MonitorsExact, LineRefs, Elems, Distinct
    <3>2. holder[k] # NoRef
      BY <1>2 DEF IInv, MonitorsExact
    <3>. QED BY <3>1, <3>2
  <2>2. b # NoRef
    BY NoRefAssumption
  <2>. DEFINE Goal == /\ holder'[k] # b
                      /\ \/ holder'[k] = waiting[k][i]
                         \/ Ahead(waiting'[k], waiting[k][i], b)
                         \/ b \notin Elems(waiting'[k])
  <2>3. CASE UNCHANGED <<holder, waiting>>
    BY <1>2, <2>3
  <2>4. ASSUME NEW h \in Keys, HandOn(h), holder[h] # NoRef PROVE Goal
    <3>1. CASE h = k
      <4>1. /\ holder' = [holder EXCEPT ![k] = Head(waiting[k])]
            /\ waiting' = [waiting EXCEPT ![k] = Tail(@)]
            /\ waiting[k] # << >>
        BY <2>1, <2>4, <3>1 DEF HandOn
      <4>2. holder'[k] = Head(waiting[k]) /\ waiting'[k] = Tail(waiting[k])
        BY <1>2, <4>1 DEF IInv, TypeOK
      <4>3. Head(waiting[k]) \in Elems(waiting[k]) /\ Elems(Tail(waiting[k])) \subseteq Elems(waiting[k])
        BY <2>1, <4>1, TailLine
      <4>. QED BY <1>2, <4>2, <4>3
    <3>2. CASE h # k
      <4>1. holder'[k] = holder[k] /\ waiting'[k] = waiting[k]
        BY <1>2, <2>4, <3>2 DEF HandOn, IInv, TypeOK
      <4>. QED BY <1>2, <4>1
    <3>. QED BY <3>1, <3>2
  <2>5. ASSUME NEW h \in Keys, NEW p \in Procs, HandleAcquire(p, h) PROVE Goal
    <3>. DEFINE ref == mailbox[p][h][1].ref
    <3>1. Receive(p, h, "acquire")
      BY <2>5 DEF HandleAcquire
    <3>2. Head(mailbox[p][h]).ref = ref /\ ref \in Refs /\ ref \notin Elems(waiting[h])
      BY <1>2, <3>1, AcquireFacts
    <3>. HIDE DEF ref
    <3>3. CASE h = k
      <4>1. holder' = holder /\ waiting' = [waiting EXCEPT ![k] = Append(@, ref)]
        BY <2>1, <2>5, <3>2, <3>3 DEF HandleAcquire, Joined, Free
      <4>2. waiting'[k] = Append(waiting[k], ref)
        BY <1>2, <4>1 DEF IInv, TypeOK
      <4>3. i \in DOMAIN waiting'[k] /\ waiting'[k][i] = waiting[k][i]
        BY <2>1, <3>2, <3>3, <4>2, AppendLine
      <4>4. Elems(waiting'[k]) = Elems(waiting[k]) \cup {ref}
        BY <2>1, <3>2, <3>3, <4>2, AppendLine
      <4>5. CASE b = ref
        <5>1. /\ Len(waiting[k]) + 1 \in DOMAIN waiting'[k]
              /\ waiting'[k][Len(waiting[k]) + 1] = ref
              /\ i < Len(waiting[k]) + 1
          <6>1. /\ Append(waiting[k], ref)[Len(waiting[k]) + 1] = ref
                /\ DOMAIN Append(waiting[k], ref) = 1..(Len(waiting[k]) + 1)
                /\ Len(waiting[k]) \in Nat /\ DOMAIN waiting[k] = 1..Len(waiting[k])
            BY <2>1, <3>2, AppendSeq
          <6>. QED BY <4>2, <6>1
        <5>2. Ahead(waiting'[k], waiting[k][i], b)
          BY <4>3, <4>5, <5>1 DEF Ahead
        <5>. QED BY <1>2, <4>1, <5>2
      <4>6. CASE b # ref
        BY <1>2, <4>1, <4>4, <4>6
      <4>. QED BY <4>5, <4>6
    <3>4. CASE h # k
      <4>1. holder'[k] = holder[k] \/ holder[k] = NoRef
        BY <1>2, <2>5, <3>4 DEF HandleAcquire, IInv, TypeOK
      <4>2. holder'[k] = holder[k] /\ waiting'[k] = waiting[k]
        BY <1>2, <2>5, <3>4 DEF HandleAcquire, Joined, IInv, TypeOK
      <4>. QED BY <1>2, <4>2
    <3>. QED BY <3>3, <3>4
  <2>6. ASSUME NEW h \in Keys, NEW n \in DOMAIN waiting[h],
               waiting' = [waiting EXCEPT ![h] = OutOfLine(@, n)], UNCHANGED holder
        PROVE  Goal
    <3>1. CASE h = k
      <4>1. waiting'[k] = OutOfLine(waiting[k], n) /\ n \in DOMAIN waiting[k]
        BY <1>2, <2>6, <3>1 DEF IInv, TypeOK
      <4>2. Elems(OutOfLine(waiting[k], n)) = Elems(waiting[k]) \ {waiting[k][n]}
        BY <2>1, <4>1, RemoveLine
      <4>. QED BY <1>2, <2>6, <4>1, <4>2
    <3>2. CASE h # k
      <4>1. holder'[k] = holder[k] /\ waiting'[k] = waiting[k]
        BY <1>2, <2>6, <3>2 DEF IInv, TypeOK
      <4>. QED BY <1>2, <4>1
    <3>. QED BY <3>1, <3>2
  <2>7. ASSUME NEW h \in Keys, NEW p \in Procs, HandleRelease(p, h)
        PROVE  (HandOn(h) /\ holder[h] # NoRef) \/ UNCHANGED <<holder, waiting>>
    BY <2>7 DEF HandleRelease, Free, serverVars
  <2>8. ASSUME NEW h \in Keys, NEW ref \in monitors[h], HandleDown(ref, h)
        PROVE  \/ HandOn(h) /\ holder[h] # NoRef
               \/ UNCHANGED <<holder, waiting>>
               \/ \E n \in DOMAIN waiting[h] :
                    /\ waiting' = [waiting EXCEPT ![h] = OutOfLine(@, n)]
                    /\ UNCHANGED holder
    <3>1. ref # NoRef
      BY <1>2, NoRefAssumption DEF IInv, TypeOK
    <3>. QED BY <2>8, <3>1 DEF HandleDown, HolderDied
  <2>9. ASSUME NEW p \in Procs, Client(p) \/ Die(p)
        PROVE  UNCHANGED <<holder, waiting>>
    BY <2>9 DEF Client, Ask, Reenter, Enter, Leave, Die, serverVars
  <2>10. CASE UNCHANGED vars
    BY <2>3, <2>10 DEF vars, serverVars
  <2>11. CASE Server
    BY <2>3, <2>4, <2>5, <2>6, <2>7, <2>8, <2>11 DEF Server
  <2>12. CASE \E p \in Procs : Client(p) \/ Die(p)
    BY <2>3, <2>9, <2>12
  <2>. QED BY <1>2, <2>10, <2>11, <2>12 DEF Next
<1>3. ASSUME IInv, [Next]_vars PROVE Fair
  <2>. SUFFICES ASSUME NEW k \in Keys, NEW i \in DOMAIN waiting[k], NEW b \in Refs \ Earlier(k, i),
                       Owner(waiting[k][i]) \in alive
                PROVE  \/ holder'[k] = waiting[k][i]
                       \/ /\ holder'[k] # b
                          /\ \/ Ahead(waiting'[k], waiting[k][i], b)
                             \/ b \notin Elems(waiting'[k])
    BY DEF LineRefs, Elems
  <2>1. CASE b \in Elems(waiting[k])
    <3>1. PICK j \in DOMAIN waiting[k] : b = waiting[k][j]
      BY <2>1 DEF Elems
    <3>2. waiting[k] \in Seq(Refs)
      BY <1>3 DEF IInv, TypeOK
    <3>3. i < j
      BY <3>1, <3>2 DEF Earlier
    <3>. QED BY <1>1, <1>3, <3>1, <3>3
  <2>2. CASE b \notin Elems(waiting[k])
    <3>1. b # holder[k] /\ b \in Refs
      BY DEF Earlier
    <3>. QED BY <1>2, <1>3, <2>2, <3>1
  <2>. QED BY <2>1, <2>2
<1>. QED BY <1>3, Invariance, PTL DEF Spec, FirstComeFirstServed

\* The server implements the abstract mutex: a key is handed only to a caller
\* who waits for it, never taken from its owner, never free while somebody
\* waits (lock/queue.ex:54-111).
THEOREM ImplementsMutexHolds == Spec => ImplementsMutex
<1>1. Init => M!MutexInit
  BY DEF Init, M!MutexInit, LineRefs
<1>2. ASSUME IInv, [Next]_vars PROVE [M!MutexNext]_(M!mutexVars)
  <2>. DEFINE asking == [k \in Keys |-> LineRefs(k)]
  <2>1. /\ holder \in [Keys -> Refs \cup {NoRef}]
        /\ \A h \in Keys : waiting[h] \in Seq(Refs)
    BY <1>2 DEF IInv, TypeOK
  <2>a. \A h \in Keys : Distinct(waiting[h])
    BY <1>2 DEF IInv, MonitorsExact, Distinct
  <2>b. \A h \in Keys : LineRefs(h) = Elems(waiting[h])
    BY DEF LineRefs, Elems
  <2>c. \A h \in Keys : holder[h] \notin Elems(waiting[h])
    BY <1>2 DEF IInv, MonitorsExact, LineRefs, Elems
  <2>2. waiting \in [Keys -> Seq(Refs)]
    BY <1>2 DEF IInv, TypeOK
  <2>3. CASE UNCHANGED <<holder, waiting>>
    BY <2>3 DEF M!mutexVars, LineRefs
  <2>4. ASSUME NEW k \in Keys, HandOn(k), holder[k] # NoRef
        PROVE  [M!MutexNext]_(M!mutexVars)
    <3>1. CASE waiting[k] = << >>
      <4>1. holder' = [holder EXCEPT ![k] = NoRef] /\ waiting' = waiting
        BY <2>4, <3>1 DEF HandOn
      <4>2. asking' = asking /\ LineRefs(k) = {}
        BY <3>1, <4>1 DEF LineRefs
      <4>3. M!GiveUp(k)
        BY <2>4, <4>1, <4>2 DEF M!GiveUp
      <4>. QED BY <4>3 DEF M!MutexNext
    <3>2. CASE waiting[k] # << >>
      <4>. DEFINE c == Head(waiting[k])
      <4>1. holder' = [holder EXCEPT ![k] = c] /\ waiting' = [waiting EXCEPT ![k] = Tail(@)]
        BY <2>4, <3>2 DEF HandOn
      <4>. waiting[k] \in Seq(Refs) /\ Distinct(waiting[k])
        BY <2>1, <2>a
      <4>2. /\ c \in Elems(waiting[k]) /\ c \in Refs
            /\ Elems(Tail(waiting[k])) = Elems(waiting[k]) \ {c}
        BY <3>2, TailLine
      <4>. HIDE DEF c
      <4>3. \A h \in Keys : LineRefs(h)' = IF h = k THEN LineRefs(k) \ {c} ELSE LineRefs(h)
        BY <2>1, <2>2, <4>1, <4>2 DEF LineRefs, Elems
      <4>4. asking' = [asking EXCEPT ![k] = @ \ {c}]
        BY <4>3
      <4>5. M!HandOver(c, k)
        <5>1. c \in asking[k]
          BY <2>b, <4>2
        <5>. QED BY <2>4, <4>1, <4>4, <5>1 DEF M!HandOver
      <4>. QED BY <4>2, <4>5 DEF M!MutexNext
    <3>. QED BY <3>1, <3>2
  <2>5. ASSUME NEW k \in Keys, NEW p \in Procs, HandleAcquire(p, k)
        PROVE  [M!MutexNext]_(M!mutexVars)
    <3>. DEFINE ref == Head(mailbox[p][k]).ref
    <3>1. Receive(p, k, "acquire")
      BY <2>5 DEF HandleAcquire
    <3>2. /\ ref \in Refs /\ ref # holder[k] /\ ref \notin Elems(waiting[k])
      BY <1>2, <3>1, AcquireFacts
    <3>3. CASE holder[k] = NoRef
      <4>1. holder' = [holder EXCEPT ![k] = ref] /\ waiting' = waiting
        BY <2>5, <3>3 DEF HandleAcquire, Free
      <4>2. M!Obtain(ref, k)
        BY <3>3, <4>1 DEF M!Obtain, LineRefs
      <4>. QED BY <3>2, <4>2 DEF M!MutexNext
    <3>4. CASE holder[k] # NoRef
      <4>1. holder' = holder /\ waiting' = [waiting EXCEPT ![k] = Append(@, ref)]
        BY <2>5, <3>4 DEF HandleAcquire, Free, Joined
      <4>. waiting[k] \in Seq(Refs) /\ Distinct(waiting[k])
        BY <2>1, <2>a
      <4>. HIDE DEF ref
      <4>2. Elems(Append(waiting[k], ref)) = Elems(waiting[k]) \cup {ref}
        BY <3>2, AppendLine
      <4>3. \A h \in Keys : LineRefs(h)' = IF h = k THEN LineRefs(k) \cup {ref} ELSE LineRefs(h)
        BY <2>1, <2>2, <4>1, <4>2 DEF LineRefs, Elems
      <4>4. asking' = [asking EXCEPT ![k] = @ \cup {ref}]
        BY <4>3
      <4>5. M!Wait(ref, k)
        <5>1. ref \notin asking[k] \cup {holder[k]}
          BY <2>b, <3>2
        <5>. QED BY <3>4, <4>1, <4>4, <5>1 DEF M!Wait
      <4>. QED BY <3>2, <4>5 DEF M!MutexNext
    <3>. QED BY <3>3, <3>4
  <2>6. ASSUME NEW k \in Keys, NEW p \in Procs, HandleRelease(p, k)
        PROVE  (HandOn(k) /\ holder[k] # NoRef) \/ UNCHANGED <<holder, waiting>>
    BY <2>6 DEF HandleRelease, Free, serverVars
  <2>7. ASSUME NEW k \in Keys, NEW ref \in monitors[k], HandleDown(ref, k)
        PROVE  [M!MutexNext]_(M!mutexVars)
    <3>1. ref # NoRef /\ ref \in Refs
      BY <1>2, NoRefAssumption DEF IInv, TypeOK
    <3>2. CASE holder[k] = ref
      BY <2>4, <2>7, <3>1, <3>2 DEF HandleDown, HolderDied
    <3>3. CASE holder[k] # ref
      <4>1. \/ UNCHANGED <<holder, waiting>>
            \/ \E n \in DOMAIN waiting[k] :
                  /\ waiting[k][n] = ref
                  /\ waiting' = [waiting EXCEPT ![k] = OutOfLine(@, n)]
                  /\ UNCHANGED holder
        BY <2>7, <3>3 DEF HandleDown, HolderDied
      <4>2. ASSUME NEW n \in DOMAIN waiting[k], waiting[k][n] = ref,
                   waiting' = [waiting EXCEPT ![k] = OutOfLine(@, n)], UNCHANGED holder
            PROVE  [M!MutexNext]_(M!mutexVars)
        <5>. waiting[k] \in Seq(Refs) /\ Distinct(waiting[k])
          BY <2>1, <2>a
        <5>1. Elems(OutOfLine(waiting[k], n)) = Elems(waiting[k]) \ {ref}
          BY <4>2, RemoveLine
        <5>2. \A h \in Keys : LineRefs(h)' = IF h = k THEN LineRefs(k) \ {ref} ELSE LineRefs(h)
          BY <2>1, <2>2, <4>2, <5>1 DEF LineRefs, Elems
        <5>3. asking' = [asking EXCEPT ![k] = @ \ {ref}]
          BY <5>2
        <5>4. M!Withdraw(ref, k)
          <6>1. ref \in asking[k]
            BY <4>2 DEF LineRefs
          <6>. QED BY <4>2, <5>3, <6>1 DEF M!Withdraw
        <5>. QED BY <3>1, <5>4 DEF M!MutexNext
      <4>. QED BY <2>3, <4>1, <4>2
    <3>. QED BY <3>2, <3>3
  <2>8. ASSUME NEW p \in Procs, Client(p) \/ Die(p)
        PROVE  UNCHANGED <<holder, waiting>>
    BY <2>8 DEF Client, Ask, Reenter, Enter, Leave, Die, serverVars
  <2>9. CASE UNCHANGED vars
    BY <2>3, <2>9 DEF vars, serverVars
  <2>10. CASE Server
    BY <2>3, <2>4, <2>5, <2>6, <2>7, <2>10 DEF Server
  <2>11. CASE \E p \in Procs : Client(p) \/ Die(p)
    BY <2>3, <2>8, <2>11
  <2>. QED BY <1>2, <2>9, <2>10, <2>11 DEF Next
<1>. QED BY <1>1, <1>2, Invariance, PTL DEF Spec, ImplementsMutex, M!MutexSpec
=============================================================================
