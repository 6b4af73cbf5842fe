--------------------------- MODULE SessionProofs ---------------------------
(***************************************************************************)
(* That sockets follow the session, the session is the last one, and a     *)
(* call is refused only with its session, for any number of users, calls   *)
(* and sockets, and however often the session changes hands.  While the    *)
(* generation a refresh began with stands, the session is the one it was   *)
(* asked for (IInv); so its answer brings that session a token nobody has  *)
(* used yet, and the second try of a call goes out with one that is good   *)
(* (TInv).                                                                 *)
(***************************************************************************)
EXTENDS Session, TLAPS

\* The server has seen the version of every token there is.
Known(t) == t # None => t.version <= ver[t.user]
CallKnown(call) == Known(call.who) /\ Known(call.answer)
CallsKnown == \A c \in Calls : CallKnown(calls[c])
AllKnown == Known(session) /\ CallsKnown /\ (refreshing # None => Known(refreshing.of))

\* A refresh whose generation stands is one of the session.
RefreshSound ==
  refreshing # None =>
    /\ refreshing.gen <= generation
    /\ refreshing.gen = generation => refreshing.of = session
    /\ refreshing.st # "lost" => refreshing.of # None
    /\ refreshing.st = "granted" =>
         /\ refreshing.token # None
         /\ refreshing.token.user = refreshing.of.user
         /\ refreshing.token.version = refreshing.of.version
    /\ refreshing.st = "denied" => refreshing.of.version < ver[refreshing.of.user]

\* A sign-in and a sign-out that are under way name their account.
CallSound(call) ==
  /\ call.kind \in {"login", "logout"} => call.who # None
  /\ call.pc = "yes" /\ call.kind = "login" => call.answer # None
CallsSound == \A c \in Calls : CallSound(calls[c])

\* What a socket holds, while it is not closed, is its user's, who is the session's.
SocketSound(k, s) ==
  /\ k.user = None => k = Unopened
  /\ k.user # None /\ ~k.closed =>
       /\ s # None /\ s.user = k.user
       /\ k.token # None => k.token.user = k.user
       /\ k.up # None => k.up = k.user
  /\ k.closed => ~k.trying /\ k.up = None
SocketsSound == \A k \in Sockets : SocketSound(sockets[k], session)

IInv == TypeOK /\ AllKnown /\ RefreshSound /\ CallsSound /\ SocketsSound /\ SessionIsLast

-----------------------------------------------------------------------------
\* The step that Next takes.
LEMMA StepCases ==
  ASSUME Next
  PROVE  \/ \E u \in Users : Revoke(u) \/ \E v \in 0..ver[u] : Restore(u, v)
         \/ Forget \/ Refresh \/ ServeRefresh \/ LoseRefresh \/ Settle
         \/ \E c \in Calls : \/ Logout(c) \/ Begin(c) \/ Send(c) \/ Serve(c) \/ Return(c)
                             \/ Lose(c) \/ Recover(c) \/ \E u \in Users : Login(c, u)
         \/ \E k \in Sockets : \/ Open(k) \/ Ask(k) \/ Connect(k) \/ ConnectFails(k)
                               \/ Drop(k) \/ Disconnect(k)
         \/ \E n \in 1..issued : Expire(n)
BY DEF Next

\* Nothing, and a slot at rest, have their types.
LEMMA AtRest == Idle \in Call /\ Unopened \in Socket
BY DEF Idle, Unopened, Call, Socket, Maybe

\* A socket that is disconnected, or woken, is still one.
LEMMA SocketsTyped ==
  ASSUME NEW k \in Socket, NEW s
  PROVE  /\ Disconnected(k) \in Socket /\ Ending(k, s) \in Socket /\ Awoken(k) \in Socket
         /\ Kept(k) \in Socket
<1>1. Kept(k) \in Socket
  BY AtRest DEF Kept
<1>2. Awoken(k) \in Socket
  BY DEF Awoken, Socket
<1>3. [k EXCEPT !.closed = TRUE, !.trying = FALSE, !.up = None, !.token = None] \in Socket
  BY DEF Socket, Maybe
<1>4. Disconnected(k) \in Socket
  BY <1>3, AtRest DEF Disconnected, Kept
<1> QED BY <1>1, <1>2, <1>4 DEF Ending

\* A change of hands keeps the types.
LEMMA HandOverTyped ==
  ASSUME TypeOK, NEW s \in Maybe(Tokens), HandOver(s)
  PROVE  /\ session' \in Maybe(Tokens) /\ last' \in Maybe(Tokens)
         /\ generation' \in Nat /\ spells' \in Nat
         /\ sockets' \in [Sockets -> Socket]
<1>1. \A k \in Sockets : Ending(sockets[k], s) \in Socket
  BY SocketsTyped DEF TypeOK
<1> QED BY <1>1 DEF HandOver, TypeOK

\* So does asking for a refresh.
LEMMA JoinTyped ==
  ASSUME TypeOK, Join
  PROVE  refreshing' \in Maybe(InFlight)
<1>1. CASE refreshing # None
  BY <1>1 DEF TypeOK, Join
<1>2. CASE refreshing = None
  BY <1>2 DEF TypeOK, Join, InFlight, Maybe
<1> QED BY <1>1, <1>2

-----------------------------------------------------------------------------
(* Types. *)

\* It begins typed.
LEMMA TypeInit == Init => TypeOK
BY AtRest DEF Init, TypeOK, Maybe

\* Every step keeps the types, given what a refresh and a call name.
LEMMA TypeStep == TypeOK /\ RefreshSound /\ CallsSound /\ [Next]_vars => TypeOK'
<1> SUFFICES ASSUME TypeOK, RefreshSound, CallsSound, [Next]_vars PROVE TypeOK'
  OBVIOUS
<1> USE DEF client, server
<1>1. CASE UNCHANGED vars
  BY <1>1 DEF vars, TypeOK
<1>2. ASSUME NEW u \in Users, Revoke(u) PROVE TypeOK'
  BY <1>2 DEF Revoke, TypeOK
<1>3. ASSUME NEW u \in Users, NEW v \in 0..ver[u], Restore(u, v) PROVE TypeOK'
  <2>1. [user |-> u, version |-> v, n |-> 0] \in Maybe(Tokens)
    BY DEF Maybe, Tokens
  <2> QED BY <1>3, <2>1, HandOverTyped DEF Restore, TypeOK
<1>4. CASE Forget
  <2>1. None \in Maybe(Tokens)
    BY DEF Maybe
  <2> QED BY <1>4, <2>1, HandOverTyped DEF Forget, TypeOK
<1>5. CASE Refresh
  BY <1>5, JoinTyped DEF Refresh, TypeOK
<1>6. CASE ServeRefresh
  <2>1. refreshing \in InFlight
    BY <1>6 DEF ServeRefresh, TypeOK, Maybe
  <2>2. issued' \in Nat
    BY <1>6 DEF ServeRefresh, TypeOK
  <2>3. CASE Renewable(refreshing.of)
    <3> DEFINE token == [refreshing.of EXCEPT !.n = issued + 1]
    <3>1. refreshing.of \in Tokens
      BY <1>6, <2>1 DEF ServeRefresh, RefreshSound, InFlight, Maybe
    <3>2. token \in Maybe(Tokens)
      BY <3>1 DEF TypeOK, Tokens, Maybe
    <3>3. refreshing' = [refreshing EXCEPT !.st = "granted", !.token = token]
      BY <1>6, <2>3 DEF ServeRefresh
    <3> HIDE DEF token
    <3>4. refreshing' \in InFlight
      BY <2>1, <3>2, <3>3 DEF InFlight
    <3> QED BY <1>6, <2>2, <3>4 DEF ServeRefresh, TypeOK, Maybe
  <2>4. CASE ~Renewable(refreshing.of)
    BY <1>6, <2>1, <2>2, <2>4 DEF ServeRefresh, TypeOK, Maybe, InFlight
  <2> QED BY <2>3, <2>4
<1>7. CASE LoseRefresh
  BY <1>7 DEF LoseRefresh, TypeOK, Maybe, InFlight
<1>8. CASE Settle
  <2>1. refreshing \in InFlight
    BY <1>8 DEF Settle, TypeOK, Maybe
  <2>2. Outcome \in Maybe(Tokens)
    BY <2>1 DEF Outcome, TypeOK, Maybe, InFlight
  <2>3. \A c \in Calls : Resumed(calls[c]) \in Call
    BY AtRest DEF Resumed, TypeOK, Call
  <2>4. \A k \in Sockets : Awoken(Ending(sockets[k], Outcome)) \in Socket
    BY SocketsTyped DEF TypeOK
  <2> QED BY <1>8, <2>2, <2>3, <2>4 DEF Settle, TypeOK, Maybe
<1>9. ASSUME NEW c \in Calls, Logout(c) PROVE TypeOK'
  <2>1. [session EXCEPT !.n = 0] \in Tokens
    BY <1>9 DEF Logout, TypeOK, Maybe, Tokens
  <2> QED BY <1>9, <2>1 DEF Logout, TypeOK, Idle, Call, Maybe
<1>10. ASSUME NEW c \in Calls, Begin(c) PROVE TypeOK'
  <2>1. [session EXCEPT !.n = 0] \in Tokens
    BY <1>10 DEF Begin, TypeOK, Maybe, Tokens
  <2>2. refreshing' \in Maybe(InFlight)
    BY <1>10, JoinTyped DEF Begin, TypeOK
  <2>3. calls' \in [Calls -> Call]
    BY <1>10, <2>1 DEF Begin, TypeOK, Idle, Call, Maybe
  <2> QED BY <1>10, <2>2, <2>3 DEF Begin, TypeOK
<1>11. ASSUME NEW c \in Calls, Send(c) PROVE TypeOK'
  <2>1. Carried(c) \in Maybe(Tokens)
    BY DEF Carried, Access, TypeOK, Maybe
  <2>2. [calls[c] EXCEPT !.pc = "sent", !.sent = Carried(c)] \in Call
    BY <2>1 DEF TypeOK, Call
  <2>3. calls' = [calls EXCEPT ![c] = [calls[c] EXCEPT !.pc = "sent", !.sent = Carried(c)]]
    BY <1>11 DEF Send, TypeOK
  <2> QED BY <1>11, <2>2, <2>3 DEF Send, TypeOK
<1>12. ASSUME NEW c \in Calls, Serve(c) PROVE TypeOK'
  <2>1. CASE calls[c].kind = "login"
    <3> DEFINE token == [user |-> calls[c].who.user, version |-> ver[calls[c].who.user], n |-> issued + 1]
    <3>1. calls[c].who \in Tokens
      BY <2>1 DEF CallSound, CallsSound, TypeOK, Call, Maybe
    <3>2. token \in Maybe(Tokens) /\ issued' \in Nat
      BY <1>12, <2>1, <3>1 DEF Serve, TypeOK, Tokens, Maybe
    <3>3. calls' = [calls EXCEPT ![c] = [calls[c] EXCEPT !.pc = "yes", !.answer = token]]
      BY <1>12, <2>1 DEF Serve, TypeOK
    <3> HIDE DEF token
    <3>4. [calls[c] EXCEPT !.pc = "yes", !.answer = token] \in Call
      BY <3>2 DEF TypeOK, Call
    <3>5. UNCHANGED ver
      BY <1>12, <2>1 DEF Serve
    <3> QED BY <1>12, <3>2, <3>3, <3>4, <3>5 DEF Serve, TypeOK
  <2>2. CASE calls[c].kind = "logout"
    <3>1. calls[c].who.user \in Users
      BY <2>2 DEF CallSound, CallsSound, TypeOK, Call, Maybe, Tokens
    <3>2. ver' \in [Users -> Nat]
      BY <1>12, <2>2, <3>1 DEF Serve, TypeOK
    <3> QED BY <1>12, <2>2, <3>2 DEF Serve, TypeOK, Call
  <2>3. CASE calls[c].kind = "api"
    BY <1>12, <2>3, AtRest DEF Serve, TypeOK, Call
  <2> QED BY <2>1, <2>2, <2>3 DEF TypeOK, Call
<1>13. ASSUME NEW c \in Calls, Return(c) PROVE TypeOK'
  <2>1. calls[c].answer \in Maybe(Tokens)
    BY DEF TypeOK, Call
  <2> QED BY <1>13, <2>1, HandOverTyped, AtRest DEF Return, TypeOK
<1>14. ASSUME NEW c \in Calls, Lose(c) PROVE TypeOK'
  <2>1. None \in Maybe(Tokens)
    BY DEF Maybe
  <2>2. calls' \in [Calls -> Call] /\ mishaps' \in Nat
    BY <1>14, AtRest DEF Lose, TypeOK
  <2> QED BY <1>14, <2>1, <2>2, HandOverTyped DEF Lose, TypeOK
<1>15. ASSUME NEW c \in Calls, Recover(c) PROVE TypeOK'
  <2>1. calls' \in [Calls -> Call]
    BY <1>15, AtRest DEF Recover, TypeOK, Call
  <2>2. refreshing' \in Maybe(InFlight)
    BY <1>15, JoinTyped DEF Recover, TypeOK
  <2> QED BY <1>15, <2>1, <2>2 DEF Recover, TypeOK
<1>16. ASSUME NEW c \in Calls, NEW u \in Users, Login(c, u) PROVE TypeOK'
  <2>1. [user |-> u, version |-> ver[u], n |-> 0] \in Tokens
    BY DEF TypeOK, Tokens
  <2> QED BY <1>16, <2>1 DEF Login, TypeOK, Idle, Call, Maybe
<1>17. ASSUME NEW k \in Sockets, Open(k) PROVE TypeOK'
  <2>1. session.user \in Users
    BY <1>17 DEF Open, TypeOK, Maybe, Tokens
  <2>2. [sockets[k] EXCEPT !.user = session.user, !.asking = "asked"] \in Socket
    BY <2>1 DEF TypeOK, Socket, Maybe
  <2>3. sockets' = [sockets EXCEPT ![k] = [sockets[k] EXCEPT !.user = session.user, !.asking = "asked"]]
    BY <1>17 DEF Open, TypeOK
  <2> QED BY <1>17, <2>2, <2>3 DEF Open, TypeOK
<1>18. ASSUME NEW k \in Sockets, Ask(k) PROVE TypeOK'
  <2>1. refreshing' \in Maybe(InFlight)
    BY <1>18, JoinTyped DEF Ask, TypeOK
  <2> DEFINE s == [sockets[k] EXCEPT !.asking = "no", !.token = Access(session),
                     !.first = FALSE, !.trying = MayConnect(sockets[k])]
  <2>2. Access(session) \in Maybe(Tokens)
    BY DEF Access, TypeOK, Maybe
  <2>3. MayConnect(sockets[k]) \in BOOLEAN
    BY DEF MayConnect
  <2>4. s \in Socket
    BY <2>2, <2>3 DEF TypeOK, Socket
  <2>5. [sockets[k] EXCEPT !.asking = "waiting"] \in Socket
    BY DEF TypeOK, Socket
  <2>6. \/ sockets' = [sockets EXCEPT ![k] = Kept(s)]
        \/ sockets' = [sockets EXCEPT ![k] = [sockets[k] EXCEPT !.asking = "waiting"]]
    BY <1>18 DEF Ask, TypeOK
  <2> HIDE DEF s
  <2>7. Kept(s) \in Socket
    BY <2>4, SocketsTyped
  <2>8. sockets' \in [Sockets -> Socket]
    BY <2>5, <2>6, <2>7 DEF TypeOK
  <2> QED BY <1>18, <2>1, <2>8 DEF Ask, TypeOK
<1>19. ASSUME NEW k \in Sockets, Connect(k) PROVE TypeOK'
  <2>1. sockets[k].token.user \in Users
    BY <1>19 DEF Connect, Served, TypeOK, Socket, Maybe, Tokens
  <2> QED BY <1>19, <2>1 DEF Connect, TypeOK, Socket, Maybe
<1>20. ASSUME NEW k \in Sockets, ConnectFails(k) \/ Drop(k) PROVE TypeOK'
  BY <1>20 DEF ConnectFails, Drop, TypeOK, Socket, Maybe
<1>21. ASSUME NEW k \in Sockets, Disconnect(k) PROVE TypeOK'
  BY <1>21, SocketsTyped DEF Disconnect, TypeOK
<1>22. ASSUME NEW n \in 1..issued, Expire(n) PROVE TypeOK'
  BY <1>22 DEF Expire, TypeOK
<1> QED BY StepCases, <1>1, <1>2, <1>3, <1>4, <1>5, <1>6, <1>7, <1>8, <1>9, <1>10, <1>11, <1>12, <1>13,
           <1>14, <1>15, <1>16, <1>17, <1>18, <1>19, <1>20, <1>21, <1>22

-----------------------------------------------------------------------------
(* Versions. *)

Grown == \A u \in Users : ver[u] <= ver'[u]

\* An account's version only grows.
LEMMA VersionsGrow ==
  ASSUME TypeOK, CallsSound, [Next]_vars
  PROVE  Grown
<1>1. ASSUME NEW u \in Users, Revoke(u) PROVE Grown
  BY <1>1 DEF Revoke, TypeOK, Grown
<1>2. ASSUME NEW c \in Calls, Serve(c) PROVE Grown
  <2>1. CASE calls[c].kind = "logout"
    <3>1. calls[c].who.user \in Users
      BY <2>1 DEF CallSound, CallsSound, TypeOK, Call, Maybe, Tokens
    <3> QED BY <1>2, <2>1, <3>1 DEF Serve, TypeOK, Grown
  <2>2. CASE calls[c].kind # "logout"
    BY <1>2, <2>2 DEF Serve, TypeOK, Grown
  <2> QED BY <2>1, <2>2
<1>3. ver' = ver => Grown
  BY DEF TypeOK, Grown
<1>4. CASE UNCHANGED vars
  BY <1>3, <1>4 DEF vars
<1>5. ASSUME NEW c \in Calls,
             \/ Logout(c) \/ Begin(c) \/ Send(c) \/ Return(c) \/ Lose(c) \/ Recover(c)
             \/ \E u \in Users : Login(c, u)
      PROVE  Grown
  BY <1>3, <1>5 DEF Logout, Begin, Send, Return, Lose, Recover, Login, client, server
<1>6. ASSUME NEW k \in Sockets, Open(k) \/ Ask(k) \/ Connect(k) \/ ConnectFails(k) \/ Drop(k) \/ Disconnect(k)
      PROVE  Grown
  BY <1>3, <1>6 DEF Open, Ask, Connect, ConnectFails, Drop, Disconnect, server
<1>7. CASE \/ \E u \in Users : \E v \in 0..ver[u] : Restore(u, v)
           \/ Forget \/ Refresh \/ ServeRefresh \/ LoseRefresh \/ Settle
           \/ \E n \in 1..issued : Expire(n)
  BY <1>3, <1>7 DEF Restore, Forget, Refresh, ServeRefresh, LoseRefresh, Settle, Expire, server
<1> QED BY StepCases, <1>1, <1>2, <1>4, <1>5, <1>6, <1>7

\* A version the server has seen it has seen for good.
LEMMA KnownStays ==
  ASSUME TypeOK, Grown, TypeOK', NEW t \in Maybe(Tokens), Known(t)
  PROVE  t # None => t.version <= ver'[t.user]
<1> SUFFICES ASSUME t # None PROVE t.version <= ver'[t.user]
  OBVIOUS
<1>1. t \in Tokens /\ t.version \in Nat /\ t.user \in Users
  BY DEF Maybe, Tokens
<1>2. ver[t.user] \in Nat /\ ver'[t.user] \in Nat /\ ver[t.user] <= ver'[t.user] /\ t.version <= ver[t.user]
  BY <1>1 DEF Grown, TypeOK, Known
<1> QED BY <1>1, <1>2

-----------------------------------------------------------------------------
(* The refresh in flight. *)

\* A new refresh is of the session.
LEMMA JoinSound ==
  ASSUME TypeOK, RefreshSound, AllKnown, Join
  PROVE  \/ UNCHANGED refreshing
         \/ /\ refreshing' # None => refreshing'.gen = generation /\ refreshing'.of = session
            /\ refreshing'.st \in {"lost", "sent"}
            /\ refreshing'.st # "lost" => refreshing'.of # None
BY DEF Join

\* Whatever leaves the session and its generation alone, and the refresh or asks for one.
LEMMA RefreshKept ==
  ASSUME TypeOK, AllKnown, RefreshSound, Grown, TypeOK', UNCHANGED <<session, generation>>,
         UNCHANGED refreshing \/ Join
  PROVE  RefreshSound' /\ (refreshing' # None => Known(refreshing.of)')
<1>1. CASE UNCHANGED refreshing
  <2> SUFFICES ASSUME refreshing # None PROVE RefreshSound' /\ Known(refreshing.of)'
    BY <1>1 DEF RefreshSound
  <2>1. refreshing \in InFlight
    BY DEF TypeOK, Maybe
  <2>2. refreshing.of \in Maybe(Tokens) /\ Known(refreshing.of)
    BY <2>1 DEF InFlight, AllKnown
  <2>3. Known(refreshing.of)'
    BY <1>1, <2>2, KnownStays DEF Known
  <2>4. refreshing.st = "denied" => refreshing.of.version < ver'[refreshing.of.user]
    <3> SUFFICES ASSUME refreshing.st = "denied" PROVE refreshing.of.version < ver'[refreshing.of.user]
      OBVIOUS
    <3>1. refreshing.of \in Tokens
      BY <2>2 DEF RefreshSound, Maybe
    <3>2. refreshing.of.version \in Nat /\ refreshing.of.user \in Users
      BY <3>1 DEF Tokens
    <3>3. ver[refreshing.of.user] \in Nat /\ ver'[refreshing.of.user] \in Nat
      BY <3>2 DEF TypeOK
    <3> QED BY <3>2, <3>3 DEF RefreshSound, Grown
  <2> QED BY <1>1, <2>3, <2>4 DEF RefreshSound
<1>2. CASE Join /\ refreshing' # refreshing
  <2>1. /\ refreshing'.gen = generation /\ refreshing'.of = session
        /\ refreshing'.st \in {"lost", "sent"}
        /\ refreshing'.st # "lost" => refreshing'.of # None
    BY <1>2 DEF Join
  <2>2. Known(session)'
    BY KnownStays DEF Known, AllKnown, TypeOK
  <2> QED BY <2>1, <2>2 DEF RefreshSound, TypeOK, Known
<1> QED BY <1>1, <1>2

\* A change of hands puts the refresh out of date.
LEMMA RefreshOutdated ==
  ASSUME TypeOK, AllKnown, RefreshSound, Grown, TypeOK', UNCHANGED <<refreshing, ver>>, generation' = generation + 1
  PROVE  RefreshSound' /\ (refreshing' # None => Known(refreshing.of)')
<1> SUFFICES ASSUME refreshing # None PROVE RefreshSound' /\ Known(refreshing.of)'
  BY DEF RefreshSound
<1>1. refreshing \in InFlight /\ refreshing.gen \in Nat
  BY DEF TypeOK, Maybe, InFlight
<1> QED BY <1>1 DEF RefreshSound, TypeOK, AllKnown, Known

-----------------------------------------------------------------------------
(* The calls. *)

\* A sign-in or sign-out that is under way keeps its account, and its answer.
LEMMA CallsStep ==
  ASSUME TypeOK, CallsSound, TypeOK', [Next]_vars
  PROVE  CallsSound'
<1>1. CallSound(Idle)
  BY DEF Idle, CallSound
<1>2. CASE UNCHANGED calls
  BY <1>2 DEF CallSound, CallsSound
<1>3. ASSUME NEW c \in Calls, NEW call \in Call, CallSound(call), calls' = [calls EXCEPT ![c] = call]
      PROVE  CallsSound'
  <2>1. calls'[c] = call /\ \A d \in Calls \ {c} : calls'[d] = calls[d]
    BY <1>3 DEF TypeOK
  <2> QED BY <1>3, <2>1 DEF CallSound, CallsSound
<1>4. ASSUME NEW c \in Calls, Logout(c) PROVE CallsSound'
  BY <1>4, NoneAssumption DEF Logout, CallSound, CallsSound, TypeOK, Idle, Maybe, Tokens
<1>5. ASSUME NEW c \in Calls, Begin(c) PROVE CallsSound'
  BY <1>5 DEF Begin, CallSound, CallsSound, TypeOK, Idle
<1>6. ASSUME NEW c \in Calls, Send(c) PROVE CallsSound'
  BY <1>6 DEF Send, CallSound, CallsSound, TypeOK, Call
<1>7. ASSUME NEW c \in Calls, Serve(c) PROVE CallsSound'
  <2>1. CASE calls[c].kind = "login"
    <3>1. calls[c].who \in Tokens
      BY <2>1 DEF CallSound, CallsSound, TypeOK, Call, Maybe
    <3>2. [user |-> calls[c].who.user, version |-> ver[calls[c].who.user], n |-> issued + 1] \in Tokens
      BY <3>1 DEF TypeOK, Tokens
    <3> QED BY <1>7, <2>1, <3>2, NoneAssumption DEF Serve, CallSound, CallsSound, TypeOK, Call
  <2>2. CASE calls[c].kind = "logout"
    BY <1>7, <2>2 DEF Serve, CallSound, CallsSound, TypeOK, Call
  <2>3. CASE calls[c].kind = "api"
    <3>1. \/ calls' = [calls EXCEPT ![c] = Idle]
          \/ calls' = [calls EXCEPT ![c] = [calls[c] EXCEPT !.pc = "401"]]
      BY <1>7, <2>3 DEF Serve
    <3>2. [calls[c] EXCEPT !.pc = "401"] \in Call /\ CallSound([calls[c] EXCEPT !.pc = "401"])
      BY <2>3 DEF TypeOK, Call, CallSound
    <3> QED BY <1>1, <1>3, <3>1, <3>2, AtRest
  <2> QED BY <2>1, <2>2, <2>3 DEF TypeOK, Call
<1>8. ASSUME NEW c \in Calls, Return(c) \/ Lose(c) PROVE CallsSound'
  BY <1>1, <1>8, AtRest, <1>3 DEF Return, Lose
<1>9. ASSUME NEW c \in Calls, Recover(c) PROVE CallsSound'
  <2> DEFINE again == [calls[c] EXCEPT !.pc = "ready", !.retried = TRUE]
             waits == [calls[c] EXCEPT !.pc = "recovering"]
  <2>1. again \in Call /\ CallSound(again)
    BY DEF TypeOK, Call, CallSound, CallsSound
  <2>2. waits \in Call /\ CallSound(waits)
    BY DEF TypeOK, Call, CallSound, CallsSound
  <2>3. \/ calls' = [calls EXCEPT ![c] = Idle]
        \/ calls' = [calls EXCEPT ![c] = again]
        \/ calls' = [calls EXCEPT ![c] = waits]
    BY <1>9 DEF Recover, TypeOK
  <2> HIDE DEF again, waits
  <2> QED BY <1>1, <1>3, <2>1, <2>2, <2>3, AtRest
<1>10. ASSUME NEW c \in Calls, NEW u \in Users, Login(c, u) PROVE CallsSound'
  <2>1. [user |-> u, version |-> ver[u], n |-> 0] \in Tokens
    BY DEF TypeOK, Tokens
  <2> QED BY <1>10, <2>1, NoneAssumption DEF Login, CallSound, CallsSound, TypeOK, Idle
<1>11. CASE Settle
  <2>1. ASSUME NEW c \in Calls PROVE CallSound(Resumed(calls[c]))
    BY <1>1 DEF Resumed, CallSound, CallsSound, TypeOK, Call
  <2>2. \A c \in Calls : calls'[c] = Resumed(calls[c])
    BY <1>11 DEF Settle
  <2> QED BY <2>1, <2>2 DEF CallSound, CallsSound
<1>12. CASE UNCHANGED vars
  BY <1>2, <1>12 DEF vars
<1>13. ASSUME NEW k \in Sockets, Open(k) \/ Ask(k) \/ Connect(k) \/ ConnectFails(k) \/ Drop(k) \/ Disconnect(k)
       PROVE  CallsSound'
  BY <1>2, <1>13 DEF Open, Ask, Connect, ConnectFails, Drop, Disconnect
<1>14. CASE \/ \E u \in Users : Revoke(u) \/ \E v \in 0..ver[u] : Restore(u, v)
            \/ Forget \/ Refresh \/ ServeRefresh \/ LoseRefresh
            \/ \E n \in 1..issued : Expire(n)
  BY <1>2, <1>14 DEF Revoke, Restore, Forget, Refresh, ServeRefresh, LoseRefresh, Expire
<1> QED BY StepCases, <1>4, <1>5, <1>6, <1>7, <1>8, <1>9, <1>10, <1>11, <1>12, <1>13, <1>14

\* What calls name is known, after a step that gives them nothing but what the session is.
LEMMA CallsKnownStep ==
  ASSUME TypeOK, AllKnown, CallsSound, TypeOK', Grown, [Next]_vars
  PROVE  CallsKnown'
<1>1. \A c \in Calls : calls[c].who \in Maybe(Tokens) /\ calls[c].answer \in Maybe(Tokens)
  BY DEF TypeOK, Call
<1> DEFINE Fewer(new, call) == new.who \in {call.who, None} /\ new.answer \in {call.answer, None}
<1>2. ASSUME \A c \in Calls : Fewer(calls'[c], calls[c]) PROVE CallsKnown'
  <2>2. ASSUME NEW c \in Calls PROVE CallKnown(calls[c])'
    BY <1>1, <1>2, KnownStays DEF Known, AllKnown, CallsKnown, CallKnown
  <2> QED BY <2>2 DEF CallsKnown
<1>3. CASE UNCHANGED calls
  BY <1>2, <1>3
<1>4. session # None => session.version <= ver'[session.user]
  BY KnownStays DEF AllKnown, TypeOK
<1>5. ASSUME NEW c \in Calls, Logout(c) \/ Begin(c)
      PROVE CallsKnown'
  <2>1. /\ calls'[c].who = [session EXCEPT !.n = 0] /\ calls'[c].answer = None
        /\ \A d \in Calls \ {c} : calls'[d] = calls[d]
    <3>1. CASE Logout(c)
      BY <3>1 DEF Logout, TypeOK, Idle
    <3>2. CASE Begin(c)
      BY <3>2 DEF Begin, TypeOK, Idle
    <3> QED BY <1>5, <3>1, <3>2
  <2>2. session \in Tokens
    BY <1>5 DEF Logout, Begin, TypeOK, Maybe
  <2>3. CallKnown(calls[c])'
    <3>1. calls'[c].who.user = session.user /\ calls'[c].who.version = session.version
      BY <2>1, <2>2 DEF Tokens
    <3> QED BY <1>4, <2>1, <2>2, <3>1, NoneAssumption DEF Known, CallKnown
  <2>4. ASSUME NEW d \in Calls \ {c} PROVE CallKnown(calls[d])'
    BY <1>1, <2>1, KnownStays DEF Known, AllKnown, CallsKnown, CallKnown
  <2> QED BY <2>3, <2>4 DEF CallsKnown
<1>6. ASSUME NEW c \in Calls, Serve(c)
      PROVE CallsKnown'
  <2>1. CASE calls[c].kind = "login"
    <3>1. calls[c].who \in Tokens
      BY <2>1 DEF CallSound, CallsSound, TypeOK, Call, Maybe
    <3>2. /\ calls'[c].who = calls[c].who
          /\ calls'[c].answer.user = calls[c].who.user
          /\ calls'[c].answer.version = ver[calls[c].who.user]
          /\ \A d \in Calls \ {c} : calls'[d] = calls[d]
          /\ ver' = ver
      BY <1>6, <2>1 DEF Serve, TypeOK, Call
    <3>3. ver[calls[c].who.user] \in Nat
      BY <3>1 DEF TypeOK, Tokens
    <3>4. CallKnown(calls[c])'
      BY <3>2, <3>3 DEF Known, AllKnown, CallsKnown, CallKnown
    <3> QED BY <3>2, <3>4 DEF Known, AllKnown, CallsKnown, CallKnown
  <2>2. CASE calls[c].kind # "login"
    <3>1. \A d \in Calls : Fewer(calls'[d], calls[d])
      BY <1>6, <2>2 DEF Serve, TypeOK, Call, Idle
    <3> QED BY <1>2, <3>1
  <2> QED BY <2>1, <2>2
<1>7. ASSUME NEW c \in Calls, NEW u \in Users, Login(c, u)
      PROVE CallsKnown'
  <2>1. /\ calls'[c].who = [user |-> u, version |-> ver[u], n |-> 0] /\ calls'[c].answer = None
        /\ \A d \in Calls \ {c} : calls'[d] = calls[d]
        /\ ver' = ver
    BY <1>7 DEF Login, TypeOK, Idle, server
  <2>2. ver[u] \in Nat
    BY DEF TypeOK
  <2> QED BY <2>1, <2>2 DEF Known, AllKnown, CallsKnown, CallKnown
<1>8. ASSUME NEW c \in Calls, Send(c) \/ Return(c) \/ Lose(c) \/ Recover(c)
      PROVE CallsKnown'
  BY <1>2, <1>8 DEF Send, Return, Lose, Recover, TypeOK, Call, Idle
<1>9. CASE Settle
  <2>1. \A c \in Calls : Fewer(Resumed(calls[c]), calls[c])
    BY DEF Resumed, TypeOK, Call, Idle
  <2>2. \A c \in Calls : calls'[c] = Resumed(calls[c])
    BY <1>9 DEF Settle
  <2> QED BY <1>2, <2>1, <2>2
<1>10. CASE UNCHANGED vars
  BY <1>3, <1>10 DEF vars
<1>11. ASSUME NEW k \in Sockets, Open(k) \/ Ask(k) \/ Connect(k) \/ ConnectFails(k) \/ Drop(k) \/ Disconnect(k)
       PROVE  UNCHANGED calls
  BY <1>11 DEF Open, Ask, Connect, ConnectFails, Drop, Disconnect
<1>12. CASE \/ \E u \in Users : Revoke(u) \/ \E v \in 0..ver[u] : Restore(u, v)
            \/ Forget \/ Refresh \/ ServeRefresh \/ LoseRefresh
            \/ \E n \in 1..issued : Expire(n)
  BY <1>3, <1>12 DEF Revoke, Restore, Forget, Refresh, ServeRefresh, LoseRefresh, Expire
<1> QED BY StepCases, <1>3, <1>5, <1>6, <1>7, <1>8, <1>9, <1>10, <1>11, <1>12

\* The refresh in flight stays the one the session's generation says.
LEMMA RefreshStep ==
  ASSUME TypeOK, AllKnown, RefreshSound, Grown, TypeOK', [Next]_vars
  PROVE  RefreshSound' /\ (refreshing' # None => Known(refreshing.of)')
<1> DEFINE Goal == RefreshSound' /\ (refreshing' # None => Known(refreshing.of)')
<1>1. ASSUME UNCHANGED <<session, generation>>, UNCHANGED refreshing \/ Join PROVE Goal
  BY <1>1, RefreshKept
<1>2. ASSUME UNCHANGED <<refreshing, ver>>, generation' = generation + 1 PROVE Goal
  BY <1>2, RefreshOutdated
<1> HIDE DEF Goal
<1> USE DEF client, server
<1>3. ASSUME UNCHANGED vars PROVE Goal
  BY <1>1, <1>3 DEF vars
<1>4. ASSUME NEW c \in Calls,
             Logout(c) \/ Begin(c) \/ Send(c) \/ Serve(c) \/ Recover(c) \/ \E u \in Users : Login(c, u)
      PROVE  Goal
  BY <1>1, <1>4 DEF Logout, Begin, Send, Serve, Recover, Login
<1>5. ASSUME NEW c \in Calls, Return(c) \/ Lose(c) PROVE Goal
  BY <1>1, <1>2, <1>5 DEF Return, Lose, HandOver
<1>6. ASSUME NEW k \in Sockets, Open(k) \/ Ask(k) \/ Connect(k) \/ ConnectFails(k) \/ Drop(k) \/ Disconnect(k)
      PROVE  Goal
  BY <1>1, <1>6 DEF Open, Ask, Connect, ConnectFails, Drop, Disconnect
<1>7. ASSUME \E u \in Users : Revoke(u) \/ \E v \in 0..ver[u] : Restore(u, v)
      PROVE  Goal
  BY <1>1, <1>2, <1>7 DEF Revoke, Restore, HandOver
<1>8. ASSUME Forget \/ Refresh \/ \E n \in 1..issued : Expire(n) PROVE Goal
  BY <1>1, <1>2, <1>8 DEF Forget, Refresh, Expire, HandOver
<1>9. ASSUME ServeRefresh PROVE Goal
  <2>1. refreshing \in InFlight
    BY <1>9 DEF ServeRefresh, TypeOK, Maybe
  <2>2. refreshing.of \in Tokens /\ UNCHANGED <<session, generation, ver>>
    BY <1>9, <2>1 DEF ServeRefresh, RefreshSound, InFlight, Maybe
  <2>3. /\ refreshing.of.version \in Nat /\ ver[refreshing.of.user] \in Nat
        /\ refreshing.of.version <= ver[refreshing.of.user]
    BY <1>9, <2>2, NoneAssumption DEF ServeRefresh, Tokens, TypeOK, AllKnown, Known
  <2>4. refreshing.of # None
    BY <2>2, NoneAssumption
  <2>5. CASE Renewable(refreshing.of)
    <3> DEFINE token == [refreshing.of EXCEPT !.n = issued + 1]
    <3>1. refreshing' = [refreshing EXCEPT !.st = "granted", !.token = token]
      BY <1>9, <2>5 DEF ServeRefresh
    <3>2. token \in Tokens /\ token.user = refreshing.of.user /\ token.version = refreshing.of.version
      BY <2>2 DEF TypeOK, Tokens
    <3>3. token # None
      BY <3>2, NoneAssumption
    <3> HIDE DEF token
    <3>4. /\ refreshing'.st = "granted" /\ refreshing'.of = refreshing.of
          /\ refreshing'.gen = refreshing.gen /\ refreshing'.token = token
      BY <2>1, <3>1 DEF InFlight
    <3> QED BY <1>9, <2>2, <2>3, <2>4, <3>2, <3>3, <3>4 DEF ServeRefresh, RefreshSound, Known, Goal
  <2>6. CASE ~Renewable(refreshing.of)
    <3>1. /\ refreshing'.st = "denied" /\ refreshing'.of = refreshing.of
          /\ refreshing'.gen = refreshing.gen
      BY <1>9, <2>1, <2>6 DEF ServeRefresh, InFlight
    <3>2. refreshing.of.version < ver[refreshing.of.user]
      BY <2>3, <2>6 DEF Renewable
    <3> QED BY <1>9, <2>2, <2>3, <2>4, <3>1, <3>2 DEF ServeRefresh, RefreshSound, Known, Goal
  <2> QED BY <2>5, <2>6
<1>10. ASSUME LoseRefresh PROVE Goal
  <2>1. refreshing \in InFlight
    BY <1>10 DEF LoseRefresh, TypeOK, Maybe
  <2>2. refreshing'.st = "lost" /\ refreshing'.of = refreshing.of /\ refreshing'.gen = refreshing.gen
    BY <1>10, <2>1 DEF LoseRefresh, InFlight
  <2> QED BY <1>10, <2>2 DEF LoseRefresh, RefreshSound, AllKnown, Known, Goal
<1>11. ASSUME Settle PROVE Goal
  BY <1>11 DEF Settle, RefreshSound, Goal
<1>12. Goal
  BY StepCases, <1>3, <1>4, <1>5, <1>6, <1>7, <1>8, <1>9, <1>10, <1>11
<1> QED BY <1>12 DEF Goal

-----------------------------------------------------------------------------
(* The session. *)

\* What the refresh leaves is the session it found, renewed, or nothing when the
\* server revoked it.
LEMMA OutcomeSound ==
  ASSUME TypeOK, RefreshSound, refreshing # None
  PROVE  \/ Outcome = session
         \/ /\ Outcome # None /\ session # None
            /\ Outcome.user = session.user /\ Outcome.version = session.version
         \/ Outcome = None /\ session # None /\ session.version < ver[session.user]
BY DEF Outcome, Renewed, Current, RefreshSound

\* The server has seen the version of the session, whoever it is.
LEMMA SessionKnownStep ==
  ASSUME TypeOK, AllKnown, RefreshSound, Grown, TypeOK', [Next]_vars
  PROVE  Known(session)'
<1> USE DEF client, server
<1>1. ASSUME UNCHANGED session PROVE Known(session)'
  BY <1>1, KnownStays DEF AllKnown, TypeOK, Known
<1>2. ASSUME NEW s \in Maybe(Tokens), Known(s), HandOver(s) PROVE Known(session)'
  BY <1>2, KnownStays DEF HandOver, Known
<1>3. CASE UNCHANGED vars
  BY <1>1, <1>3 DEF vars
<1>4. ASSUME NEW c \in Calls,
             Logout(c) \/ Begin(c) \/ Send(c) \/ Serve(c) \/ Recover(c) \/ \E u \in Users : Login(c, u)
      PROVE  UNCHANGED session
  BY <1>4 DEF Logout, Begin, Send, Serve, Recover, Login
<1>5. ASSUME NEW c \in Calls, Return(c) \/ Lose(c) PROVE Known(session)'
  <2>1. calls[c].answer \in Maybe(Tokens) /\ Known(calls[c].answer)
    BY DEF TypeOK, Call, AllKnown, CallsKnown, CallKnown
  <2>2. None \in Maybe(Tokens) /\ Known(None)
    BY DEF Maybe, Known
  <2> QED BY <1>1, <1>2, <1>5, <2>1, <2>2 DEF Return, Lose
<1>6. ASSUME NEW k \in Sockets, Open(k) \/ Ask(k) \/ Connect(k) \/ ConnectFails(k) \/ Drop(k) \/ Disconnect(k)
      PROVE  UNCHANGED session
  BY <1>6 DEF Open, Ask, Connect, ConnectFails, Drop, Disconnect
<1>7. ASSUME NEW u \in Users, Revoke(u) PROVE UNCHANGED session
  BY <1>7 DEF Revoke
<1>8. ASSUME NEW u \in Users, NEW v \in 0..ver[u], Restore(u, v) PROVE Known(session)'
  <2>1. [user |-> u, version |-> v, n |-> 0] \in Maybe(Tokens)
    BY DEF Maybe, Tokens
  <2>2. Known([user |-> u, version |-> v, n |-> 0])
    BY <1>8 DEF Restore, Known
  <2> QED BY <1>2, <1>8, <2>1, <2>2 DEF Restore
<1>9. CASE Forget
  BY <1>9 DEF Forget, HandOver, Known
<1>10. CASE Refresh \/ ServeRefresh \/ LoseRefresh \/ \E n \in 1..issued : Expire(n)
  BY <1>1, <1>10 DEF Refresh, ServeRefresh, LoseRefresh, Expire
<1>11. CASE Settle
  <2>1. session' = Outcome /\ ver' = ver /\ refreshing # None
    BY <1>11 DEF Settle
  <2>2. session \in Maybe(Tokens) /\ Known(session)
    BY DEF TypeOK, AllKnown
  <2> QED BY <2>1, <2>2, OutcomeSound DEF Known
<1> QED BY StepCases, <1>1, <1>3, <1>4, <1>5, <1>6, <1>7, <1>8, <1>9, <1>10, <1>11

\* The session is the last one still.
LEMMA LastStep ==
  ASSUME TypeOK, RefreshSound, SessionIsLast, Grown, TypeOK', [Next]_vars
  PROVE  SessionIsLast'
<1> USE DEF client, server
<1>1. ASSUME UNCHANGED <<session, last>> PROVE SessionIsLast'
  <2>1. CASE session # None \/ last = None
    BY <1>1, <2>1 DEF SessionIsLast
  <2>2. CASE session = None /\ last # None
    <3>1. last \in Tokens /\ last.version < ver[last.user]
      BY <2>2 DEF SessionIsLast, TypeOK, Maybe
    <3>2. /\ last.version \in Nat /\ ver[last.user] \in Nat /\ ver'[last.user] \in Nat
          /\ ver[last.user] <= ver'[last.user]
      BY <3>1 DEF Tokens, TypeOK, Grown
    <3>3. last.version < ver'[last.user]
      BY <3>1, <3>2
    <3> QED BY <1>1, <2>2, <3>3 DEF SessionIsLast
  <2> QED BY <2>1, <2>2
<1>2. ASSUME NEW s, HandOver(s) PROVE SessionIsLast'
  BY <1>2 DEF HandOver, SessionIsLast
<1>3. CASE UNCHANGED vars
  BY <1>1, <1>3 DEF vars
<1>4. ASSUME NEW c \in Calls,
             Logout(c) \/ Begin(c) \/ Send(c) \/ Serve(c) \/ Recover(c) \/ \E u \in Users : Login(c, u)
      PROVE  UNCHANGED <<session, last>>
  BY <1>4 DEF Logout, Begin, Send, Serve, Recover, Login
<1>5. ASSUME NEW c \in Calls, Return(c) \/ Lose(c) PROVE SessionIsLast'
  BY <1>1, <1>2, <1>5 DEF Return, Lose
<1>6. ASSUME NEW k \in Sockets, Open(k) \/ Ask(k) \/ Connect(k) \/ ConnectFails(k) \/ Drop(k) \/ Disconnect(k)
      PROVE  UNCHANGED <<session, last>>
  BY <1>6 DEF Open, Ask, Connect, ConnectFails, Drop, Disconnect
<1>7. CASE \E u \in Users : Revoke(u) \/ \E v \in 0..ver[u] : Restore(u, v)
  BY <1>1, <1>2, <1>7 DEF Revoke, Restore
<1>8. CASE Forget \/ Refresh \/ ServeRefresh \/ LoseRefresh \/ \E n \in 1..issued : Expire(n)
  BY <1>1, <1>2, <1>8 DEF Forget, Refresh, ServeRefresh, LoseRefresh, Expire
<1>9. CASE Settle
  <2>1. session' = Outcome /\ ver' = ver /\ last' = last /\ refreshing # None
    BY <1>9 DEF Settle
  <2> QED BY <2>1, OutcomeSound DEF SessionIsLast
<1> QED BY StepCases, <1>1, <1>3, <1>4, <1>5, <1>6, <1>7, <1>8, <1>9

-----------------------------------------------------------------------------
(* The sockets. *)

\* Closing a socket leaves it a sound one.
LEMMA ClosedSound ==
  ASSUME NEW k \in Socket, NEW s \in Maybe(Tokens), k.user # None
  PROVE  SocketSound(Disconnected(k), s)
<1>1. SocketSound(Unopened, s)
  BY DEF SocketSound, Unopened
<1>2. SocketSound([k EXCEPT !.closed = TRUE, !.trying = FALSE, !.up = None, !.token = None], s)
  BY DEF SocketSound, Socket
<1> QED BY <1>1, <1>2 DEF Disconnected, Kept

\* So does waking it when a refresh ends.
LEMMA AwokenSound ==
  ASSUME NEW k \in Socket, NEW s \in Maybe(Tokens), SocketSound(k, s)
  PROVE  SocketSound(Awoken(k), s)
<1>1. CASE k.asking = "waiting"
  <2>1. k.user # None
    BY <1>1 DEF SocketSound, Unopened
  <2>2. SocketSound([k EXCEPT !.asking = "resumed"], s)
    BY <2>1 DEF SocketSound, Socket
  <2> QED BY <1>1, <2>2 DEF Awoken
<1>2. CASE k.asking # "waiting"
  BY <1>2 DEF Awoken
<1> QED BY <1>1, <1>2

\* A session of another user closes the sockets of the last one.
LEMMA EndingSound ==
  ASSUME TypeOK, SocketsSound, NEW s \in Maybe(Tokens), NEW k \in Sockets
  PROVE  SocketSound(Ending(sockets[k], s), s)
<1>1. sockets[k] \in Socket /\ SocketSound(sockets[k], session)
  BY DEF TypeOK, SocketsSound
<1>2. CASE Ended(s) /\ sockets[k].user # None
  BY <1>1, <1>2, ClosedSound DEF Ending
<1>3. CASE ~Ended(s) /\ sockets[k].user # None
  <2>1. SocketSound(sockets[k], s)
    BY <1>1, <1>3 DEF SocketSound, Ended
  <2> QED BY <1>3, <2>1 DEF Ending
<1>4. CASE sockets[k].user = None
  BY <1>1, <1>4 DEF Ending, SocketSound, Unopened
<1> QED BY <1>2, <1>3, <1>4

\* Every socket that is not closed stays one of the session's user.
LEMMA SocketsStep ==
  ASSUME TypeOK, SocketsSound, RefreshSound, TypeOK', [Next]_vars
  PROVE  SocketsSound'
<1> USE DEF client, server
<1>1. ASSUME UNCHANGED <<session, sockets>> PROVE SocketsSound'
  BY <1>1 DEF SocketsSound, SocketSound
<1>2. ASSUME NEW s \in Maybe(Tokens), HandOver(s) PROVE SocketsSound'
  <2>1. ASSUME NEW k \in Sockets PROVE SocketSound(sockets'[k], session')
    BY <1>2, EndingSound DEF HandOver
  <2> QED BY <2>1 DEF SocketsSound, SocketSound
<1>3. ASSUME NEW k \in Sockets, NEW socket, SocketSound(socket, session),
             session' = session, sockets' = [sockets EXCEPT ![k] = socket]
      PROVE  SocketsSound'
  <2>1. ASSUME NEW i \in Sockets PROVE SocketSound(sockets'[i], session')
    BY <1>3 DEF SocketsSound, TypeOK
  <2> QED BY <2>1 DEF SocketsSound, SocketSound
<1>4. \A k \in Sockets : sockets[k] \in Socket /\ SocketSound(sockets[k], session)
  BY DEF SocketsSound, TypeOK
<1>5. CASE UNCHANGED vars
  BY <1>1, <1>5 DEF vars
<1>6. ASSUME NEW c \in Calls,
             Logout(c) \/ Begin(c) \/ Send(c) \/ Serve(c) \/ Recover(c) \/ \E u \in Users : Login(c, u)
      PROVE  UNCHANGED <<session, sockets>>
  BY <1>6 DEF Logout, Begin, Send, Serve, Recover, Login
<1>7. ASSUME NEW c \in Calls, Return(c) \/ Lose(c) PROVE SocketsSound'
  <2>1. calls[c].answer \in Maybe(Tokens) /\ None \in Maybe(Tokens)
    BY DEF TypeOK, Call, Maybe
  <2> QED BY <1>1, <1>2, <1>7, <2>1 DEF Return, Lose
<1>8. ASSUME NEW u \in Users, NEW v \in 0..ver[u], Restore(u, v) PROVE SocketsSound'
  <2>1. [user |-> u, version |-> v, n |-> 0] \in Maybe(Tokens)
    BY DEF Maybe, Tokens
  <2> QED BY <1>2, <1>8, <2>1 DEF Restore
<1>9. CASE Forget
  <2>1. None \in Maybe(Tokens)
    BY DEF Maybe
  <2> QED BY <1>2, <1>9, <2>1 DEF Forget
<1>10. CASE (\E u \in Users : Revoke(u)) \/ Refresh \/ ServeRefresh \/ LoseRefresh \/ \E n \in 1..issued : Expire(n)
  BY <1>1, <1>10 DEF Revoke, Refresh, ServeRefresh, LoseRefresh, Expire
<1>11. CASE Settle
  <2>1. /\ Outcome = session' /\ session' \in Maybe(Tokens)
        /\ \A k \in Sockets : sockets'[k] = Awoken(Ending(sockets[k], Outcome))
    BY <1>11 DEF Settle, TypeOK
  <2>2. ASSUME NEW k \in Sockets PROVE SocketSound(sockets'[k], session')
    <3>1. Ending(sockets[k], Outcome) \in Socket /\ SocketSound(Ending(sockets[k], Outcome), Outcome)
      BY <1>4, <2>1, EndingSound, SocketsTyped
    <3> QED BY <2>1, <3>1, AwokenSound
  <2> QED BY <2>2 DEF SocketsSound, SocketSound
<1>12. ASSUME NEW k \in Sockets, Open(k) PROVE SocketsSound'
  <2> DEFINE opened == [sockets[k] EXCEPT !.user = session.user, !.asking = "asked"]
  <2>1. session.user \in Users /\ session.user # None /\ session # None /\ sockets[k] = Unopened
    BY <1>12, NoneAssumption DEF Open, TypeOK, Maybe, Tokens
  <2>2. SocketSound(opened, session)
    BY <2>1 DEF SocketSound, Unopened
  <2>3. sockets' = [sockets EXCEPT ![k] = opened] /\ session' = session
    BY <1>12 DEF Open, TypeOK
  <2> HIDE DEF opened
  <2> QED BY <1>3, <2>2, <2>3
<1>13. ASSUME NEW k \in Sockets, Ask(k) PROVE SocketsSound'
  <2> DEFINE told == [sockets[k] EXCEPT !.asking = "no", !.token = Access(session),
                        !.first = FALSE, !.trying = MayConnect(sockets[k])]
             waits == [sockets[k] EXCEPT !.asking = "waiting"]
  <2>1. sockets[k].user # None
    BY <1>4, <1>13 DEF Ask, SocketSound, Unopened
  <2>2. SocketSound(waits, session)
    BY <1>4, <2>1 DEF SocketSound, Socket
  <2>3. Access(session) # None => Access(session) = session
    BY DEF Access
  <2>4. sockets[k].closed => ~MayConnect(sockets[k])
    BY <1>4 DEF SocketSound, MayConnect
  <2>5. SocketSound(told, session)
    BY <1>4, <2>1, <2>3, <2>4 DEF SocketSound, Socket
  <2>6. \/ sockets' = [sockets EXCEPT ![k] = Kept(told)]
        \/ sockets' = [sockets EXCEPT ![k] = waits]
    BY <1>13 DEF Ask, TypeOK
  <2>7. session' = session
    BY <1>13 DEF Ask
  <2> HIDE DEF told, waits
  <2>8. SocketSound(Kept(told), session)
    BY <2>5 DEF Kept, SocketSound, Unopened
  <2> QED BY <1>3, <2>2, <2>6, <2>7, <2>8
<1>14. ASSUME NEW k \in Sockets, Connect(k) PROVE SocketsSound'
  <2> DEFINE up == [sockets[k] EXCEPT !.up = sockets[k].token.user]
  <2>1. SocketSound(up, session)
    BY <1>4, <1>14 DEF Connect, Served, SocketSound, Socket, Unopened
  <2>2. sockets' = [sockets EXCEPT ![k] = up] /\ session' = session
    BY <1>14 DEF Connect, TypeOK
  <2> HIDE DEF up
  <2> QED BY <1>3, <2>1, <2>2
<1>15. ASSUME NEW k \in Sockets, ConnectFails(k) PROVE SocketsSound'
  <2> DEFINE asked == [sockets[k] EXCEPT !.asking = "asked"]
  <2>1. SocketSound(asked, session)
    BY <1>4, <1>15 DEF ConnectFails, SocketSound, Socket, Unopened
  <2>2. sockets' = [sockets EXCEPT ![k] = asked] /\ session' = session
    BY <1>15 DEF ConnectFails, TypeOK
  <2> HIDE DEF asked
  <2> QED BY <1>3, <2>1, <2>2
<1>16. ASSUME NEW k \in Sockets, Drop(k) PROVE SocketsSound'
  <2> DEFINE down == [sockets[k] EXCEPT !.up = None]
  <2>1. SocketSound(down, session)
    BY <1>4, <1>16 DEF Drop, SocketSound, Socket, Unopened
  <2>2. sockets' = [sockets EXCEPT ![k] = down] /\ session' = session
    BY <1>16 DEF Drop, TypeOK
  <2> HIDE DEF down
  <2> QED BY <1>3, <2>1, <2>2
<1>17. ASSUME NEW k \in Sockets, Disconnect(k) PROVE SocketsSound'
  <2>1. SocketSound(Disconnected(sockets[k]), session)
    BY <1>4, <1>17, ClosedSound DEF Disconnect, TypeOK
  <2>2. sockets' = [sockets EXCEPT ![k] = Disconnected(sockets[k])] /\ session' = session
    BY <1>17 DEF Disconnect, TypeOK
  <2> QED BY <1>3, <2>1, <2>2
<1> QED BY StepCases, <1>1, <1>5, <1>6, <1>7, <1>8, <1>9, <1>10, <1>11, <1>12, <1>13, <1>14, <1>15, <1>16, <1>17

-----------------------------------------------------------------------------
(* The theorems. *)

\* The invariant holds at first,
LEMMA InvInit == Init => IInv
<1> SUFFICES ASSUME Init PROVE IInv
  OBVIOUS
<1>1. \A c \in Calls : CallKnown(calls[c]) /\ CallSound(calls[c])
  BY DEF Init, Idle, CallKnown, CallSound, Known
<1>2. \A k \in Sockets : SocketSound(sockets[k], session)
  BY DEF Init, SocketSound, Unopened
<1> QED BY <1>1, <1>2, TypeInit
        DEF Init, IInv, AllKnown, Known, CallsKnown, RefreshSound, CallsSound, SocketsSound, SessionIsLast

\* every step keeps it,
LEMMA InvNext == IInv /\ [Next]_vars => IInv'
<1> SUFFICES ASSUME IInv, [Next]_vars PROVE IInv'
  OBVIOUS
<1>1. TypeOK /\ AllKnown /\ RefreshSound /\ CallsSound /\ SocketsSound /\ SessionIsLast
  BY DEF IInv
<1>2. TypeOK'
  BY <1>1, TypeStep
<1>3. Grown
  BY <1>1, VersionsGrow
<1>4. CallsSound' /\ CallsKnown'
  BY <1>1, <1>2, <1>3, CallsStep, CallsKnownStep
<1>5. RefreshSound' /\ (refreshing' # None => Known(refreshing.of)')
  BY <1>1, <1>2, <1>3, RefreshStep
<1>6. Known(session)' /\ SessionIsLast'
  BY <1>1, <1>2, <1>3, SessionKnownStep, LastStep
<1>7. SocketsSound'
  BY <1>1, <1>2, SocketsStep
<1> QED BY <1>2, <1>4, <1>5, <1>6, <1>7 DEF IInv, AllKnown

\* and so it always holds.
LEMMA Invariant == Spec => []IInv
BY InvInit, InvNext, PTL DEF Spec

\* The session, the refresh, the calls and the sockets keep their types.
THEOREM TypeCorrect == Spec => []TypeOK
<1>1. IInv => TypeOK
  BY DEF IInv
<1> QED BY <1>1, Invariant, PTL

\* A socket that is connected belongs to the user of the session and holds that
\* user's token, whatever was in flight when the session changed hands
\* (_set and _endSockets in session.js, _refreshToken in realtime.js).
THEOREM SocketsFollowHolds == Spec => []SocketsFollow
<1>1. IInv => SocketsFollow
  <2> SUFFICES ASSUME IInv, NEW k \in Sockets, sockets[k].up # None
      PROVE  /\ ~sockets[k].closed
             /\ session # None
             /\ session.user = sockets[k].user
             /\ sockets[k].up = sockets[k].user
    BY DEF SocketsFollow
  <2>1. SocketSound(sockets[k], session)
    BY DEF IInv, SocketsSound
  <2>2. sockets[k].user # None
    BY <2>1 DEF SocketSound, Unopened
  <2> QED BY <2>1, <2>2 DEF SocketSound
<1> QED BY <1>1, Invariant, PTL

\* The session is that of the last sign-in or restore, and is gone only after a
\* sign-out or when the server revoked it: no answer to an earlier session's
\* refresh touches it (_doRefresh in session.js).
THEOREM SessionIsLastHolds == Spec => []SessionIsLast
<1>1. IInv => SessionIsLast
  BY DEF IInv
<1> QED BY <1>1, Invariant, PTL

-----------------------------------------------------------------------------
(* Refusals. *)

\* Tokens are numbered as they are issued, and grow old only once someone holds them.
Numbered(t) == t # None => t.n <= issued
AllNumbered ==
  /\ due \subseteq 1..issued /\ dead \subseteq due
  /\ Numbered(session)
  /\ \A c \in Calls : Numbered(calls[c].sent) /\ Numbered(calls[c].answer)

\* Nobody holds the token that a refresh of this session brings before it is settled.
Unseen(n) ==
  /\ n \in 1..issued /\ n \notin due
  /\ session # None => session.n # n
  /\ \A c \in Calls : calls[c].sent # None => calls[c].sent.n # n
RefreshNew ==
  refreshing # None =>
    /\ refreshing.spell <= spells
    /\ refreshing.spell = spells => refreshing.gen = generation
    /\ refreshing.token # None => refreshing.token.n <= issued
    /\ refreshing.st = "granted" /\ refreshing.gen = generation => Unseen(refreshing.token.n)

\* A call outlives its session when the session changes hands, or the server revokes it.
Over(call) == call.spell < spells \/ call.who.version < ver[call.who.user]

\* A token of the last sign-in; one that is not past its end.
OfLast(t) == last # None /\ t.user = last.user /\ t.version = last.version
Lasting(t) == t # None /\ t.n # 0 /\ t.n \notin dead

\* A call that has its session still: while it is out, the session's token is the
\* one it sent, or a newer one that is good; and a second try sends a good one.
Live(call) ==
  /\ OfLast(call.who) /\ (call.sent # None => OfLast(call.sent))
  /\ call.pc \in {"sent", "401", "recovering"} => Access(session) = call.sent \/ Lasting(session)
  /\ call.retried => \/ call.pc = "ready" /\ Lasting(session)
                     \/ call.pc = "sent" /\ Lasting(call.sent)
Begun(call) ==
  /\ call.pc \in {"waiting", "ready", "401", "recovering"} => call.kind = "api"
  /\ call.pc # "idle" /\ call.kind = "api" =>
       call.who # None /\ call.spell <= spells /\ (Over(call) \/ Live(call))
CallsBegun == \A c \in Calls : Begun(calls[c])

TInv == AllNumbered /\ RefreshNew /\ CallsBegun

\* A step with the numbers it issues.
LEMMA IssuedGrows ==
  ASSUME TypeOK, [Next]_vars
  PROVE  issued' \in Nat /\ issued <= issued'
<1> USE DEF client, server
<1>1. UNCHANGED issued => issued' \in Nat /\ issued <= issued'
  BY DEF TypeOK
<1>2. issued' = issued + 1 => issued' \in Nat /\ issued <= issued'
  BY DEF TypeOK
<1>3. ASSUME NEW c \in Calls,
             \/ Logout(c) \/ Begin(c) \/ Send(c) \/ Serve(c) \/ Return(c) \/ Lose(c) \/ Recover(c)
             \/ \E u \in Users : Login(c, u)
      PROVE  UNCHANGED issued \/ issued' = issued + 1
  BY <1>3 DEF Logout, Begin, Send, Serve, Return, Lose, Recover, Login
<1>4. ASSUME NEW k \in Sockets, Open(k) \/ Ask(k) \/ Connect(k) \/ ConnectFails(k) \/ Drop(k) \/ Disconnect(k)
      PROVE  UNCHANGED issued
  BY <1>4 DEF Open, Ask, Connect, ConnectFails, Drop, Disconnect
<1>5. CASE \/ \E u \in Users : Revoke(u) \/ \E v \in 0..ver[u] : Restore(u, v)
           \/ Forget \/ Refresh \/ ServeRefresh \/ LoseRefresh \/ Settle
           \/ \E n \in 1..issued : Expire(n)
  BY <1>1, <1>2, <1>5 DEF Revoke, Restore, Forget, Refresh, ServeRefresh, LoseRefresh, Settle, Expire
<1>6. CASE UNCHANGED vars
  BY <1>1, <1>6 DEF vars
<1> QED BY StepCases, <1>1, <1>2, <1>3, <1>4, <1>5, <1>6

\* A number that was given out stays so.
LEMMA NumberedStays ==
  ASSUME TypeOK, issued' \in Nat, issued <= issued', NEW t \in Maybe(Tokens), Numbered(t)
  PROVE  Numbered(t)'
<1> SUFFICES ASSUME t # None PROVE t.n <= issued'
  BY DEF Numbered
<1>1. t.n \in Nat /\ issued \in Nat
  BY DEF Maybe, Tokens, TypeOK
<1> QED BY <1>1 DEF Numbered

\* What a step does to a token that is held: it keeps it, drops it, or holds another
\* that has been issued.
LEMMA TokensNumbered ==
  ASSUME TypeOK, AllNumbered, issued' \in Nat, issued <= issued',
         UNCHANGED <<due, dead>>, Numbered(session)',
         \A c \in Calls : Numbered(calls[c].sent)' /\ Numbered(calls[c].answer)'
  PROVE  AllNumbered'
BY DEF AllNumbered, TypeOK

\* A call that moves sends what it sent, nothing, or the session's token.
LEMMA CallMoves ==
  ASSUME TypeOK, NEW c \in Calls,
         Logout(c) \/ Begin(c) \/ Send(c) \/ Recover(c) \/ \E u \in Users : Login(c, u)
  PROVE  /\ calls'[c].sent \in {calls[c].sent, None, session} /\ calls'[c].answer \in {calls[c].answer, None}
         /\ \A d \in Calls \ {c} : calls'[d] = calls[d]
<1>1. CASE Logout(c)
  BY <1>1 DEF Logout, TypeOK, Idle
<1>2. CASE Begin(c)
  BY <1>2 DEF Begin, TypeOK, Idle
<1>3. CASE Send(c)
  <2>1. Carried(c) \in {session, None}
    BY DEF Carried, Access
  <2> QED BY <1>3, <2>1 DEF Send, TypeOK, Call
<1>4. CASE Recover(c)
  <2>1. CASE calls' = [calls EXCEPT ![c] = Idle]
    BY <2>1 DEF TypeOK, Idle
  <2>2. CASE calls' = [calls EXCEPT ![c].pc = "ready", ![c].retried = TRUE]
    BY <2>2 DEF TypeOK, Call
  <2>3. CASE calls' = [calls EXCEPT ![c].pc = "recovering"]
    BY <2>3 DEF TypeOK, Call
  <2> QED BY <1>4, <2>1, <2>2, <2>3 DEF Recover
<1>5. ASSUME NEW u \in Users, Login(c, u)
      PROVE /\ calls'[c].sent = None /\ calls'[c].answer = None /\ \A d \in Calls \ {c} : calls'[d] = calls[d]
  BY <1>5 DEF Login, TypeOK, Idle
<1> QED BY <1>1, <1>2, <1>3, <1>4, <1>5

\* The tokens there are stay numbered.
LEMMA NumberedStep ==
  ASSUME TypeOK, TypeOK', AllNumbered, RefreshNew, RefreshSound, [Next]_vars
  PROVE  AllNumbered'
<1> USE DEF client, server
<1>1. issued' \in Nat /\ issued <= issued'
  BY IssuedGrows
<1>2. /\ Numbered(session)'  <=> (session' # None => session'.n <= issued')
      /\ \A c \in Calls : /\ Numbered(calls[c].sent)' <=> (calls'[c].sent # None => calls'[c].sent.n <= issued')
                          /\ Numbered(calls[c].answer)' <=> (calls'[c].answer # None => calls'[c].answer.n <= issued')
  BY DEF Numbered
<1>3. ASSUME NEW t \in Maybe(Tokens), Numbered(t) PROVE t # None => t.n <= issued'
  BY <1>1, <1>3, NumberedStays DEF Numbered
<1>5. ASSUME UNCHANGED session PROVE Numbered(session)'
  BY <1>2, <1>3, <1>5 DEF AllNumbered, TypeOK
<1>6. \A c \in Calls : calls[c].sent \in Maybe(Tokens) /\ calls[c].answer \in Maybe(Tokens)
  BY DEF TypeOK, Call
<1>8. ASSUME NEW c \in Calls, calls'[c].sent \in {calls[c].sent, None, session},
             calls'[c].answer \in {calls[c].answer, None}
      PROVE  Numbered(calls[c].sent)' /\ Numbered(calls[c].answer)'
  <2>1. (calls'[c].sent # None => calls'[c].sent.n <= issued')
    BY <1>3, <1>6, <1>8 DEF AllNumbered, TypeOK
  <2>2. (calls'[c].answer # None => calls'[c].answer.n <= issued')
    BY <1>3, <1>6, <1>8 DEF AllNumbered
  <2> QED BY <1>2, <2>1, <2>2
<1>9. ASSUME UNCHANGED calls, NEW c \in Calls PROVE Numbered(calls[c].sent)' /\ Numbered(calls[c].answer)'
  BY <1>8, <1>9
<1>10. ASSUME UNCHANGED <<due, dead, session, calls>> PROVE AllNumbered'
  BY <1>1, <1>5, <1>9, <1>10, TokensNumbered
<1>11. CASE UNCHANGED vars
  BY <1>10, <1>11 DEF vars
<1>12. ASSUME NEW k \in Sockets, Open(k) \/ Ask(k) \/ Connect(k) \/ ConnectFails(k) \/ Drop(k) \/ Disconnect(k)
       PROVE  AllNumbered'
  BY <1>10, <1>12 DEF Open, Ask, Connect, ConnectFails, Drop, Disconnect
<1>13. CASE \/ \E u \in Users : Revoke(u)
            \/ Refresh \/ ServeRefresh \/ LoseRefresh
  BY <1>10, <1>13 DEF Revoke, Refresh, ServeRefresh, LoseRefresh
<1>14. ASSUME NEW n \in 1..issued, Expire(n) PROVE AllNumbered'
  <2>1. UNCHANGED <<session, calls, issued>>
    BY <1>14 DEF Expire
  <2>2. due' \subseteq 1..issued' /\ dead' \subseteq due'
    BY <1>14 DEF Expire, NearEnd, End, AllNumbered
  <2> QED BY <1>5, <1>9, <2>1, <2>2 DEF AllNumbered
<1>15. ASSUME NEW u \in Users, NEW v \in 0..ver[u], Restore(u, v) PROVE AllNumbered'
  <2>1. session'.n = 0 /\ UNCHANGED <<due, dead, calls>>
    BY <1>15 DEF Restore, HandOver
  <2>2. Numbered(session)'
    BY <1>1, <1>2, <2>1
  <2> QED BY <1>1, <1>9, <2>1, <2>2, TokensNumbered
<1>16. CASE Forget
  <2>1. session' = None /\ UNCHANGED <<due, dead, calls>>
    BY <1>16 DEF Forget, HandOver
  <2> QED BY <1>1, <1>2, <1>9, <2>1, TokensNumbered
<1>17. ASSUME NEW c \in Calls, Return(c) \/ Lose(c) PROVE AllNumbered'
  <2>1. session' \in {session, None, calls[c].answer} /\ UNCHANGED <<due, dead>>
    BY <1>17 DEF Return, Lose, HandOver
  <2>2. Numbered(session)'
    BY <1>2, <1>3, <1>6, <2>1 DEF AllNumbered, TypeOK
  <2>3. \A d \in Calls : calls'[d] \in {calls[d], Idle}
    BY <1>17 DEF Return, Lose, TypeOK
  <2>4. \A d \in Calls : calls'[d].sent \in {calls[d].sent, None, session} /\ calls'[d].answer \in {calls[d].answer, None}
    BY <2>3 DEF Idle
  <2> QED BY <1>1, <1>8, <2>1, <2>2, <2>4, TokensNumbered
<1>18. ASSUME NEW c \in Calls,
              Logout(c) \/ Begin(c) \/ Send(c) \/ Recover(c) \/ \E u \in Users : Login(c, u)
       PROVE  AllNumbered'
  <2>1. UNCHANGED <<due, dead, session>>
    BY <1>18 DEF Logout, Begin, Send, Recover, Login
  <2>2. \A d \in Calls \ {c} : calls'[d] = calls[d]
    BY <1>18, CallMoves
  <2>3. calls'[c].sent \in {calls[c].sent, None, session} /\ calls'[c].answer \in {calls[c].answer, None}
    BY <1>18, CallMoves
  <2>4. \A d \in Calls : Numbered(calls[d].sent)' /\ Numbered(calls[d].answer)'
    BY <1>8, <2>2, <2>3
  <2> QED BY <1>1, <1>5, <2>1, <2>4, TokensNumbered
<1>19. ASSUME NEW c \in Calls, Serve(c) PROVE AllNumbered'
  <2>1. UNCHANGED <<due, dead, session>> /\ \A d \in Calls \ {c} : calls'[d] = calls[d]
    BY <1>19 DEF Serve, TypeOK
  <2>2. CASE calls[c].kind = "login"
    <3>1. calls'[c].sent = calls[c].sent /\ calls'[c].answer.n = issued + 1 /\ issued' = issued + 1
      BY <1>19, <2>2 DEF Serve, TypeOK, Call
    <3>2. calls'[c].answer.n <= issued' /\ (calls'[c].sent # None => calls'[c].sent.n <= issued')
      BY <1>1, <1>3, <1>6, <3>1 DEF AllNumbered
    <3>3. \A d \in Calls : Numbered(calls[d].sent)' /\ Numbered(calls[d].answer)'
      BY <1>2, <1>8, <2>1, <3>2
    <3> QED BY <1>1, <1>5, <2>1, <3>3, TokensNumbered
  <2>3. CASE calls[c].kind # "login"
    <3>1. calls'[c].sent \in {calls[c].sent, None, session} /\ calls'[c].answer \in {calls[c].answer, None}
      BY <1>19, <2>3 DEF Serve, TypeOK, Call, Idle
    <3>2. \A d \in Calls : Numbered(calls[d].sent)' /\ Numbered(calls[d].answer)'
      BY <1>8, <2>1, <3>1
    <3> QED BY <1>1, <1>5, <2>1, <3>2, TokensNumbered
  <2> QED BY <2>2, <2>3
<1>20. CASE Settle
  <2>1. session' = Outcome /\ UNCHANGED <<due, dead>> /\ refreshing # None
        /\ \A c \in Calls : calls'[c] = Resumed(calls[c])
    BY <1>20 DEF Settle
  <2>2. refreshing \in InFlight
    BY <2>1 DEF TypeOK, Maybe
  <2>3. refreshing.token \in Maybe(Tokens) /\ Numbered(refreshing.token)
    BY <2>1, <2>2 DEF InFlight, RefreshNew, Numbered
  <2>4. Outcome \in {refreshing.token, None, session}
    BY DEF Outcome
  <2>5. Numbered(session)'
    BY <1>2, <1>3, <2>1, <2>3, <2>4 DEF AllNumbered, TypeOK
  <2>6. ASSUME NEW c \in Calls PROVE Numbered(calls[c].sent)' /\ Numbered(calls[c].answer)'
    <3>1. Resumed(calls[c]).sent \in {calls[c].sent, None} /\ Resumed(calls[c]).answer \in {calls[c].answer, None}
      BY DEF Resumed, TypeOK, Call, Idle
    <3> QED BY <1>8, <2>1, <3>1
  <2> QED BY <1>1, <2>1, <2>5, <2>6, TokensNumbered
<1> QED BY StepCases, <1>11, <1>12, <1>13, <1>14, <1>15, <1>16, <1>17, <1>18, <1>19, <1>20

\* The refresh of this session brings a token nobody holds yet.
LEMMA RefreshNewStep ==
  ASSUME TypeOK, TypeOK', AllNumbered, RefreshNew, RefreshSound, [Next]_vars
  PROVE  RefreshNew'
<1> USE DEF client, server
<1>1. issued' \in Nat /\ issued <= issued' /\ issued \in Nat
  BY IssuedGrows DEF TypeOK
<1>2. refreshing # None => refreshing \in InFlight /\ refreshing.gen \in Nat /\ refreshing.spell \in Nat
  BY DEF TypeOK, Maybe, InFlight
<1>3. refreshing # None /\ refreshing.token # None => refreshing.token.n \in Nat
  BY <1>2 DEF InFlight, Maybe, Tokens
<1>4. generation \in Nat /\ spells \in Nat
  BY DEF TypeOK
\* Who holds what stays, but for a call that takes the session's.
<1>5. ASSUME UNCHANGED <<session, generation, spells, due>>, UNCHANGED refreshing \/ Join,
             \A c \in Calls : calls'[c].sent \in {calls[c].sent, None, session}
      PROVE  RefreshNew'
  <2>1. CASE UNCHANGED refreshing
    <3> SUFFICES ASSUME refreshing # None PROVE RefreshNew'
      BY <2>1 DEF RefreshNew
    <3>1. refreshing.token # None => refreshing.token.n <= issued'
      BY <1>1, <1>3 DEF RefreshNew
    <3>2. ASSUME refreshing.st = "granted", refreshing.gen = generation PROVE Unseen(refreshing.token.n)'
      <4>1. Unseen(refreshing.token.n)
        BY <3>2 DEF RefreshNew
      <4>2. \A c \in Calls : calls'[c].sent # None => calls'[c].sent.n # refreshing.token.n
        BY <1>5, <4>1 DEF Unseen
      <4>3. refreshing.token.n \in 1..issued'
        BY <1>1, <4>1 DEF Unseen
      <4> QED BY <1>5, <2>1, <4>1, <4>2, <4>3 DEF Unseen
    <3> QED BY <1>5, <2>1, <3>1, <3>2 DEF RefreshNew
  <2>2. CASE Join /\ refreshing' # refreshing
    <3>1. /\ refreshing'.gen = generation /\ refreshing'.spell = spells
          /\ refreshing'.st \in {"lost", "sent"} /\ refreshing'.token = None
      BY <2>2 DEF Join
    <3> QED BY <1>4, <1>5, <3>1 DEF RefreshNew
  <2> QED BY <1>5, <2>1, <2>2
<1>6. ASSUME NEW s, HandOver(s), UNCHANGED <<refreshing, issued>> PROVE RefreshNew'
  <2> SUFFICES ASSUME refreshing # None PROVE RefreshNew'
    BY <1>6 DEF RefreshNew
  <2>1. generation' = generation + 1 /\ spells' = spells + 1
    BY <1>6 DEF HandOver
  <2>2. refreshing.gen <= generation /\ refreshing.spell <= spells
    BY DEF RefreshSound, RefreshNew
  <2>3. refreshing.gen # generation' /\ refreshing.spell # spells' /\ refreshing.spell <= spells'
    BY <1>2, <1>4, <2>1, <2>2
  <2> QED BY <1>6, <2>3 DEF RefreshNew
<1>7. CASE UNCHANGED vars
  BY <1>5, <1>7 DEF vars
<1>8. ASSUME NEW k \in Sockets, Open(k) \/ Ask(k) \/ Connect(k) \/ ConnectFails(k) \/ Drop(k) \/ Disconnect(k)
      PROVE  RefreshNew'
  BY <1>5, <1>8 DEF Open, Ask, Connect, ConnectFails, Drop, Disconnect
<1>9. CASE Refresh \/ \E u \in Users : Revoke(u)
  BY <1>5, <1>9 DEF Refresh, Revoke
<1>10. ASSUME NEW c \in Calls,
              Logout(c) \/ Begin(c) \/ Send(c) \/ Recover(c) \/ Serve(c) \/ \E u \in Users : Login(c, u)
       PROVE  RefreshNew'
  <2>1. UNCHANGED <<session, generation, spells, due>> /\ (UNCHANGED refreshing \/ Join)
    BY <1>10 DEF Logout, Begin, Send, Recover, Serve, Login
  <2>2. CASE ~Serve(c)
    BY <1>5, <1>10, <2>1, <2>2, CallMoves
  <2>3. CASE Serve(c)
    <3>1. \A d \in Calls : calls'[d].sent \in {calls[d].sent, None, session}
      BY <2>3 DEF Serve, TypeOK, Call, Idle
    <3> QED BY <1>5, <2>1, <3>1
  <2> QED BY <2>2, <2>3
<1>11. ASSUME NEW c \in Calls, Return(c) PROVE RefreshNew'
  BY <1>6, <1>11 DEF Return
<1>12. ASSUME NEW c \in Calls, Lose(c) PROVE RefreshNew'
  <2>1. \A d \in Calls : calls'[d].sent \in {calls[d].sent, None, session}
    BY <1>12 DEF Lose, TypeOK, Idle
  <2> QED BY <1>5, <1>6, <1>12, <2>1 DEF Lose
<1>13. CASE Forget \/ \E u \in Users : \E v \in 0..ver[u] : Restore(u, v)
  BY <1>6, <1>13 DEF Forget, Restore
<1>14. CASE ServeRefresh
  <2>1. refreshing \in InFlight /\ refreshing # None /\ refreshing.of # None
    BY <1>2, <1>14 DEF ServeRefresh, RefreshSound
  <2>2. refreshing.of \in Tokens
    BY <2>1 DEF InFlight, Maybe
  <2>3. CASE Renewable(refreshing.of)
    <3> DEFINE token == [refreshing.of EXCEPT !.n = issued + 1]
    <3>1. token.n = issued + 1 /\ issued' = issued + 1
      BY <1>14, <2>2, <2>3 DEF ServeRefresh, Tokens
    <3> HIDE DEF token
    <3>2. /\ refreshing'.token = token /\ refreshing'.spell = refreshing.spell
          /\ refreshing'.gen = refreshing.gen
      BY <1>14, <2>1, <2>3 DEF ServeRefresh, InFlight, token
    <3>3. UNCHANGED <<session, generation, spells, due, calls>>
      BY <1>14 DEF ServeRefresh
    <3>4. ASSUME NEW t \in Maybe(Tokens), Numbered(t), t # None PROVE t.n # issued'
      BY <1>1, <3>1, <3>4 DEF Numbered, Maybe, Tokens
    <3>5. session # None => session.n # issued'
      BY <3>4 DEF AllNumbered, TypeOK
    <3>6. \A c \in Calls : calls[c].sent # None => calls[c].sent.n # issued'
      BY <3>4 DEF AllNumbered, TypeOK, Call
    <3>7. issued' \in 1..issued' /\ issued' \notin due
      BY <1>1, <3>1 DEF AllNumbered
    <3>8. Unseen(refreshing.token.n)'
      BY <3>1, <3>2, <3>3, <3>5, <3>6, <3>7 DEF Unseen
    <3> QED BY <1>1, <2>1, <3>1, <3>2, <3>3, <3>8 DEF RefreshNew
  <2>4. CASE ~Renewable(refreshing.of)
    <3>1. /\ refreshing'.st = "denied" /\ refreshing'.spell = refreshing.spell
          /\ refreshing'.gen = refreshing.gen /\ refreshing'.token = refreshing.token
          /\ UNCHANGED <<generation, spells, issued>>
      BY <1>14, <2>1, <2>4 DEF ServeRefresh, InFlight
    <3> QED BY <2>1, <3>1 DEF RefreshNew
  <2> QED BY <2>3, <2>4
<1>15. CASE LoseRefresh
  <2>1. refreshing \in InFlight /\ refreshing # None
    BY <1>2, <1>15 DEF LoseRefresh
  <2>2. /\ refreshing'.st = "lost" /\ refreshing'.spell = refreshing.spell
        /\ refreshing'.gen = refreshing.gen /\ refreshing'.token = refreshing.token
        /\ UNCHANGED <<generation, spells, issued>>
    BY <1>15, <2>1 DEF LoseRefresh, InFlight
  <2> QED BY <2>1, <2>2 DEF RefreshNew
<1>16. CASE Settle
  BY <1>16 DEF Settle, RefreshNew
<1>17. ASSUME NEW n \in 1..issued, Expire(n) PROVE RefreshNew'
  <2> SUFFICES ASSUME refreshing # None PROVE RefreshNew'
    BY <1>17 DEF Expire, RefreshNew
  <2>1. UNCHANGED <<session, generation, spells, calls, issued, refreshing>> /\ Held(n) /\ due' \subseteq due \cup {n}
    BY <1>17 DEF Expire, NearEnd, End
  <2>2. ASSUME refreshing.st = "granted", refreshing.gen = generation PROVE Unseen(refreshing.token.n)'
    <3>1. Unseen(refreshing.token.n)
      BY <2>2 DEF RefreshNew
    <3>2. refreshing.token.n # n
      BY <2>1, <3>1 DEF Held, Unseen
    <3> QED BY <2>1, <3>1, <3>2 DEF Unseen
  <2> QED BY <2>1, <2>2 DEF RefreshNew
<1> QED BY StepCases, <1>7, <1>8, <1>9, <1>10, <1>11, <1>12, <1>13, <1>14, <1>15, <1>16, <1>17

\* A call whose session is over stays one, and so it is once the session changes hands.
LEMMA OverStays ==
  ASSUME TypeOK, TypeOK', Grown, NEW call \in Call, call.who # None, call.spell <= spells,
         \/ spells' = spells + 1
         \/ spells' = spells /\ Over(call)
  PROVE  Over(call)' /\ call.spell <= spells'
<1>1. /\ call.spell \in Nat /\ call.who.version \in Nat /\ call.who.user \in Users
      /\ spells \in Nat /\ spells' \in Nat
  BY DEF Call, Maybe, Tokens, TypeOK
<1>2. /\ ver[call.who.user] \in Nat /\ ver'[call.who.user] \in Nat
      /\ ver[call.who.user] <= ver'[call.who.user]
  BY <1>1 DEF TypeOK, Grown
<1> QED BY <1>1, <1>2 DEF Over

\* A call that does not move, beside a step that leaves the session alone, or changes it.
LEMMA BegunStays ==
  ASSUME TypeOK, TypeOK', Grown, NEW call \in Call, Begun(call),
         \/ spells' = spells + 1
         \/ UNCHANGED <<spells, last, session, dead>>
  PROVE  Begun(call)'
<1> SUFFICES ASSUME call.pc # "idle", call.kind = "api"
             PROVE  call.who # None /\ call.spell <= spells' /\ (Over(call)' \/ Live(call)')
  BY DEF Begun
<1>1. call.who # None /\ call.spell <= spells /\ (Over(call) \/ Live(call))
  BY DEF Begun
<1>2. CASE spells' = spells + 1 \/ Over(call)
  BY <1>1, <1>2, OverStays
<1>3. CASE UNCHANGED <<spells, last, session, dead>> /\ Live(call)
  BY <1>1, <1>3 DEF Live, OfLast, Lasting
<1> QED BY <1>1, <1>2, <1>3

\* While a call has its session, there is one, and it is the last.
LEMMA InSession ==
  ASSUME TypeOK, SessionIsLast, NEW call, call.who # None, ~Over(call), OfLast(call.who)
  PROVE  session # None /\ OfLast(session)
BY DEF SessionIsLast, Over, OfLast

\* What is said of a call is said of the slot that holds it.
LEMMA BegunAt ==
  ASSUME NEW c, NEW call, calls'[c] = call, Begun(call)'
  PROVE  Begun(calls[c])'
BY DEF Begun, Over, Live, OfLast, Lasting, Access

\* One call moves.
LEMMA OneBegun ==
  ASSUME TypeOK, TypeOK', Grown, CallsBegun, NEW c \in Calls, NEW new \in Call, calls'[c] = new, Begun(new)',
         \A d \in Calls \ {c} : calls'[d] = calls[d],
         \/ spells' = spells + 1
         \/ UNCHANGED <<spells, last, session, dead>>
  PROVE  CallsBegun'
<1>1. ASSUME NEW d \in Calls \ {c} PROVE Begun(calls[d])'
  <2>1. PICK call \in Call : call = calls[d] /\ Begun(call)
    BY DEF CallsBegun, TypeOK
  <2>2. Begun(call)'
    BY <2>1, BegunStays
  <2> QED BY <2>1, <2>2, BegunAt
<1> QED BY <1>1, BegunAt DEF CallsBegun

\* No call moves.
LEMMA NoneBegun ==
  ASSUME TypeOK, TypeOK', Grown, CallsBegun, UNCHANGED calls,
         \/ spells' = spells + 1
         \/ UNCHANGED <<spells, last, session, dead>>
  PROVE  CallsBegun'
<1>1. ASSUME NEW d \in Calls PROVE Begun(calls[d])'
  <2>1. PICK call \in Call : call = calls[d] /\ Begun(call)
    BY DEF CallsBegun, TypeOK
  <2>2. Begun(call)'
    BY <2>1, BegunStays
  <2> QED BY <2>1, <2>2, BegunAt
<1> QED BY <1>1 DEF CallsBegun

\* An empty slot says nothing.
LEMMA IdleBegun == Begun(Idle)'
BY DEF Begun, Idle

\* A call begins with the session it finds.
LEMMA BeginBegun ==
  ASSUME TypeOK, TypeOK', Grown, CallsBegun, SessionIsLast, NEW c \in Calls, Begin(c)
  PROVE  CallsBegun'
<1>1. PICK who : who = [session EXCEPT !.n = 0]
  OBVIOUS
<1>2. session # None /\ session \in Tokens /\ UNCHANGED <<spells, last, session, dead>>
  BY DEF Begin, client, server, TypeOK, Maybe
<1>3. who \in Tokens /\ who.user = session.user /\ who.version = session.version
  BY <1>1, <1>2 DEF Tokens
<1>4. PICK pc \in {"ready", "waiting"} :
        calls' = [calls EXCEPT ![c] = [Idle EXCEPT !.who = who, !.spell = spells, !.pc = pc]]
  BY <1>1 DEF Begin
<1>5. PICK call : call = [Idle EXCEPT !.who = who, !.spell = spells, !.pc = pc]
  OBVIOUS
<1>6. /\ call.pc = pc /\ call.kind = "api" /\ call.who = who /\ call.spell = spells /\ call.sent = None
      /\ ~call.retried
  BY <1>5 DEF Idle
<1>7. calls'[c] = call /\ call \in Call /\ \A d \in Calls \ {c} : calls'[d] = calls[d]
  <2>1. calls'[c] = call
    BY <1>4, <1>5 DEF TypeOK
  <2> QED BY <1>4, <2>1 DEF TypeOK
<1>8. OfLast(call.who)'
  BY <1>2, <1>3, <1>6 DEF SessionIsLast, OfLast
<1>9. Begun(call)'
  BY <1>2, <1>3, <1>6, <1>8, NoneAssumption DEF Begun, Live, TypeOK
<1> QED BY <1>2, <1>7, <1>9, OneBegun

\* It goes out with the session's token.
LEMMA SendBegun ==
  ASSUME TypeOK, TypeOK', Grown, CallsBegun, SessionIsLast, NEW c \in Calls, Send(c)
  PROVE  CallsBegun'
<1>1. PICK old \in Call : old = calls[c] /\ Begun(old) /\ old.pc = "ready"
  BY DEF Send, CallsBegun, TypeOK
<1>2. UNCHANGED <<spells, last, session, dead, ver>>
  BY DEF Send, client, server
<1>3. PICK new : new = [old EXCEPT !.pc = "sent", !.sent = Access(session)]
  OBVIOUS
<1>4. calls' = [calls EXCEPT ![c] = new]
  BY <1>1, <1>3 DEF Send, Carried
<1>5. calls'[c] = new /\ new \in Call /\ \A d \in Calls \ {c} : calls'[d] = calls[d]
  <2>1. calls'[c] = new
    BY <1>4 DEF TypeOK
  <2> QED BY <1>4, <2>1 DEF TypeOK
<1>6. /\ new.pc = "sent" /\ new.sent = Access(session) /\ new.kind = old.kind /\ new.who = old.who
      /\ new.spell = old.spell /\ new.retried = old.retried
  BY <1>3 DEF Call
<1>7. old.who # None /\ old.spell <= spells /\ (Over(old) \/ Live(old))
  BY <1>1 DEF Begun
<1>8. CASE Over(old)
  <2>1. Over(new)'
    BY <1>2, <1>6, <1>8 DEF Over
  <2> QED BY <1>2, <1>5, <1>6, <1>7, <2>1, OneBegun DEF Begun
<1>9. CASE Live(old) /\ ~Over(old)
  <2>1. session # None /\ OfLast(session)
    BY <1>7, <1>9, InSession DEF Live
  <2>2. old.retried => Access(session) = session /\ Lasting(session)
    BY <1>1, <1>9 DEF Live, Lasting, Access
  <2>3. Access(session) # None => OfLast(Access(session))
    BY <2>1 DEF Access
  <2>4. Live(new)
    BY <1>6, <1>9, <2>2, <2>3 DEF Live
  <2>5. Live(new)'
    BY <1>2, <2>4 DEF Live, OfLast, Lasting, Access
  <2> QED BY <1>2, <1>5, <1>6, <1>7, <2>5, OneBegun DEF Begun
<1> QED BY <1>7, <1>8, <1>9

\* The server answers: it believes the second try of a call that has its session.
LEMMA ServeBegun ==
  ASSUME TypeOK, TypeOK', Grown, AllKnown, CallsBegun, NEW c \in Calls, Serve(c)
  PROVE  CallsBegun'
<1>1. PICK old \in Call : old = calls[c] /\ Begun(old) /\ old.pc = "sent" /\ Known(old.who)
  BY DEF Serve, CallsBegun, TypeOK, AllKnown, CallsKnown, CallKnown
<1>2. UNCHANGED <<spells, last, session, dead>>
  BY DEF Serve, client
<1>3. /\ calls'[c] \in Call /\ \A d \in Calls \ {c} : calls'[d] = calls[d]
      /\ \/ calls'[c] = Idle
         \/ calls'[c].kind # "api" /\ calls'[c].pc = "yes"
         \/ /\ old.kind = "api" /\ ~Served(old.sent) /\ ver' = ver
            /\ calls'[c] = [old EXCEPT !.pc = "401"]
  <2>1. CASE old.kind = "api"
    BY <1>1, <2>1 DEF Serve, TypeOK
  <2>2. CASE old.kind # "api"
    BY <1>1, <2>2 DEF Serve, TypeOK, Call
  <2> QED BY <2>1, <2>2
<1>4. PICK new \in Call : new = calls'[c]
  BY <1>3
<1>5. CASE new = Idle
  BY <1>2, <1>3, <1>4, <1>5, IdleBegun, OneBegun
<1>6. CASE new.kind # "api" /\ new.pc = "yes"
  <2>1. Begun(new)'
    BY <1>6 DEF Begun
  <2> QED BY <1>2, <1>3, <1>4, <2>1, OneBegun
<1>7. CASE old.kind = "api" /\ ~Served(old.sent) /\ ver' = ver /\ new = [old EXCEPT !.pc = "401"]
  <2>1. /\ new.pc = "401" /\ new.sent = old.sent /\ new.kind = old.kind /\ new.who = old.who
        /\ new.spell = old.spell /\ new.retried = old.retried
    BY <1>7 DEF Call
  <2>2. old.who # None /\ old.spell <= spells /\ (Over(old) \/ Live(old))
    BY <1>1, <1>7 DEF Begun
  <2>3. CASE Over(old)
    <3>1. Over(new)'
      BY <1>2, <1>7, <2>1, <2>3 DEF Over
    <3> QED BY <1>2, <1>3, <1>4, <1>7, <2>1, <2>2, <3>1, OneBegun DEF Begun
  <2>4. CASE Live(old) /\ ~Over(old)
    <3>1. old.who \in Tokens /\ old.who.version \in Nat /\ old.who.user \in Users
      BY <2>2 DEF Call, Maybe, Tokens
    <3>2. old.who.version = ver[old.who.user]
      <4>1. ver[old.who.user] \in Nat /\ old.who.version <= ver[old.who.user]
        BY <1>1, <2>2, <3>1 DEF Known, TypeOK
      <4> QED BY <2>4, <3>1, <4>1 DEF Over
    <3>3. ~old.retried
      BY <1>1, <1>7, <2>4, <3>2 DEF Live, Lasting, OfLast, Served
    <3>4. Live(new)
      BY <1>1, <2>1, <2>4, <3>3 DEF Live
    <3>5. Live(new)'
      BY <1>2, <3>4 DEF Live, OfLast, Lasting, Access
    <3> QED BY <1>2, <1>3, <1>4, <1>7, <2>1, <2>2, <3>5, OneBegun DEF Begun
  <2> QED BY <2>2, <2>3, <2>4
<1> QED BY <1>3, <1>4, <1>5, <1>6, <1>7

\* It tries again with a newer token, which is good, or waits for one.
LEMMA RecoverBegun ==
  ASSUME TypeOK, TypeOK', Grown, CallsBegun, NEW c \in Calls, Recover(c)
  PROVE  CallsBegun'
<1>1. PICK old \in Call : old = calls[c] /\ Begun(old) /\ old.pc = "401"
  BY DEF Recover, CallsBegun, TypeOK
<1>2. UNCHANGED <<spells, last, session, dead, ver>>
  BY DEF Recover, client, server
<1>3. PICK again, waits : /\ again = [old EXCEPT !.pc = "ready", !.retried = TRUE]
                          /\ waits = [old EXCEPT !.pc = "recovering"]
  OBVIOUS
<1>4. PICK new \in {Idle, again, waits} :
        /\ calls' = [calls EXCEPT ![c] = new]
        /\ new = again => Newer(c)
        /\ new = waits => ~old.retried
  <2>1. /\ again # waits /\ again # Idle /\ waits # Idle
    BY <1>3 DEF Call, Idle
  <2> QED BY <1>1, <1>3, <2>1 DEF Recover, TypeOK
<1>5. calls'[c] = new /\ new \in Call /\ \A d \in Calls \ {c} : calls'[d] = calls[d]
  <2>1. calls'[c] = new
    BY <1>4 DEF TypeOK
  <2> QED BY <1>4, <2>1 DEF TypeOK
<1>6. CASE new = Idle
  BY <1>2, <1>5, <1>6, IdleBegun, OneBegun
<1>7. CASE new # Idle
  <2>1. /\ new.sent = old.sent /\ new.kind = old.kind /\ new.who = old.who /\ new.spell = old.spell
        /\ \/ new.pc = "ready" /\ Newer(c)
           \/ new.pc = "recovering" /\ ~new.retried
    BY <1>3, <1>4, <1>7 DEF Call
  <2>2. old.kind = "api" /\ old.who # None /\ old.spell <= spells /\ (Over(old) \/ Live(old))
    BY <1>1 DEF Begun
  <2>3. CASE Over(old)
    <3>1. Over(new)'
      BY <1>2, <2>1, <2>3 DEF Over
    <3> QED BY <1>2, <1>5, <2>1, <2>2, <3>1, OneBegun DEF Begun
  <2>4. CASE Live(old)
    <3>1. Live(new)
      BY <1>1, <2>1, <2>4 DEF Live, Newer
    <3>2. Live(new)'
      BY <1>2, <3>1 DEF Live, OfLast, Lasting, Access
    <3> QED BY <1>2, <1>5, <2>1, <2>2, <3>2, OneBegun DEF Begun
  <2> QED BY <2>2, <2>3, <2>4
<1> QED BY <1>6, <1>7


\* A token that ends is not the session's while a call has sent another.
LEMMA EndBegun ==
  ASSUME TypeOK, TypeOK', Grown, CallsBegun, SessionIsLast, NEW n, End(n),
         UNCHANGED <<calls, session, last, spells, ver>>
  PROVE  CallsBegun'
<1> SUFFICES ASSUME NEW c \in Calls PROVE Begun(calls[c])'
  BY DEF CallsBegun
<1>1. PICK call \in Call : call = calls[c] /\ Begun(call)
  BY DEF CallsBegun, TypeOK
<1>2. dead' = dead \cup {n} /\ ~OlderOut(n)
  BY DEF End
<1>3. CASE call.pc = "idle" \/ call.kind # "api" \/ Over(call)
  <2>1. Begun(call)'
    BY <1>1, <1>3 DEF Begun, Over
  <2> QED BY <1>1, <2>1, BegunAt
<1>4. CASE call.pc # "idle" /\ call.kind = "api" /\ ~Over(call)
  <2>1. call.who # None /\ call.spell <= spells /\ Live(call)
    BY <1>1, <1>4 DEF Begun
  <2>2. session # None /\ OfLast(session)
    BY <1>4, <2>1, InSession DEF Live
  <2>3. call # Idle
    BY <1>4 DEF Idle
  <2>4. /\ ~call.retried
        /\ call.pc \in {"sent", "401", "recovering"} => call.sent # None /\ call.sent.n = n
    BY <1>1, <1>2, <1>4, <2>3 DEF OlderOut
  <2>5. ASSUME call.pc \in {"sent", "401", "recovering"}, Access(session) # call.sent PROVE Lasting(session)'
    <3>1. Lasting(session) /\ Access(session) = session
      BY <2>1, <2>5 DEF Live, Lasting, Access
    <3>2. session \in Tokens /\ call.sent \in Tokens
      BY <2>2, <2>4, <2>5 DEF TypeOK, Call, Maybe
    <3>3. session.user = call.sent.user /\ session.version = call.sent.version
      BY <2>1, <2>2, <2>4, <2>5 DEF Live, OfLast
    <3>4. session.n # call.sent.n
      BY <2>5, <3>1, <3>2, <3>3 DEF Tokens
    <3> QED BY <1>2, <2>4, <2>5, <3>1, <3>4 DEF Lasting
  <2>6. Live(call)'
    BY <2>1, <2>4, <2>5 DEF Live, OfLast, Access
  <2>7. Begun(call)'
    BY <1>4, <2>1, <2>6 DEF Begun
  <2> QED BY <1>1, <2>7, BegunAt
<1> QED BY <1>3, <1>4

\* A refresh that took leaves a token nobody has used; one the server denied ends
\* the session of every call of it.
LEMMA SettleBegun ==
  ASSUME TypeOK, TypeOK', AllNumbered, RefreshSound, RefreshNew, CallsBegun, SessionIsLast, Settle
  PROVE  CallsBegun'
<1> SUFFICES ASSUME NEW c \in Calls PROVE Begun(calls[c])'
  BY DEF CallsBegun
<1>1. PICK old \in Call : old = calls[c] /\ Begun(old)
  BY DEF CallsBegun, TypeOK
<1>2. /\ refreshing # None /\ session' = Outcome /\ UNCHANGED <<ver, dead, due, last, spells>>
      /\ calls'[c] = Resumed(old)
  BY <1>1 DEF Settle, client, server
<1>3. PICK new : new = Resumed(old)
  OBVIOUS
<1>4. SUFFICES Begun(new)'
  BY <1>2, <1>3, BegunAt
<1>5. CASE old.pc = "idle" \/ old.kind # "api"
  <2>1. new = old
    BY <1>1, <1>3, <1>5 DEF Resumed, Begun
  <2> QED BY <1>1, <1>5, <2>1 DEF Begun
<1>6. CASE new = Idle
  BY <1>6, IdleBegun
<1>7. CASE old.pc # "idle" /\ old.kind = "api" /\ new # Idle
  <2>1. old.who # None /\ old.spell <= spells /\ (Over(old) \/ Live(old))
    BY <1>1, <1>7 DEF Begun
  <2>2. /\ new.sent = old.sent /\ new.kind = old.kind /\ new.who = old.who /\ new.spell = old.spell
        /\ \/ new = old /\ old.pc \notin {"waiting", "recovering"}
           \/ old.pc = "waiting" /\ new.pc = "ready" /\ new.retried = old.retried
           \/ old.pc = "recovering" /\ Renewed /\ new.pc = "ready" /\ new.retried
    BY <1>3, <1>7 DEF Resumed, Call
  <2>3. CASE Over(old)
    <3>1. Over(new)'
      BY <1>2, <2>2, <2>3 DEF Over
    <3> QED BY <1>2, <1>7, <2>1, <2>2, <3>1 DEF Begun
  <2>4. CASE Live(old) /\ ~Over(old)
    <3>1. session # None /\ OfLast(session)
      BY <2>1, <2>4, InSession DEF Live
    <3>2. ASSUME Renewed PROVE Lasting(session)'
      <4>1. refreshing.token # None /\ session' = refreshing.token /\ Unseen(refreshing.token.n)
        BY <1>2, <3>2 DEF Outcome, Renewed, Current, RefreshSound, RefreshNew
      <4> QED BY <1>2, <4>1 DEF Lasting, Unseen, AllNumbered
    <3>3. ASSUME Outcome # session, ~Renewed PROVE Over(old)
      <4>1. refreshing.st = "denied" /\ refreshing.gen = generation
        BY <3>3 DEF Outcome, Current
      <4>2. refreshing.of = session /\ session.version < ver[session.user]
        BY <1>2, <4>1 DEF RefreshSound
      <4> QED BY <2>4, <3>1, <4>2 DEF Live, OfLast, Over
    <3>4. Lasting(session)' \/ session' = session
      BY <1>2, <2>4, <3>2, <3>3
    <3>5. Live(new)'
      BY <1>2, <2>2, <2>4, <3>2, <3>4 DEF Live, OfLast, Lasting, Access
    <3> QED BY <1>2, <1>7, <2>1, <2>2, <3>5 DEF Begun
  <2> QED BY <2>1, <2>3, <2>4
<1> QED BY <1>5, <1>6, <1>7

\* Every step keeps what is said of the calls.
LEMMA CallsBegunStep ==
  ASSUME IInv, TInv, IInv', [Next]_vars
  PROVE  CallsBegun'
<1>1. /\ TypeOK /\ TypeOK' /\ AllKnown /\ RefreshSound /\ CallsSound /\ SessionIsLast
      /\ AllNumbered /\ RefreshNew /\ CallsBegun
  BY DEF IInv, TInv
<1>2. Grown
  BY <1>1, VersionsGrow
<1>3. UNCHANGED vars => CallsBegun'
  BY <1>1, <1>2, NoneBegun DEF vars
<1>4. ASSUME NEW k \in Sockets, Open(k) \/ Ask(k) \/ Connect(k) \/ ConnectFails(k) \/ Drop(k) \/ Disconnect(k)
      PROVE  CallsBegun'
  BY <1>1, <1>2, <1>4, NoneBegun DEF Open, Ask, Connect, ConnectFails, Drop, Disconnect, client, server
<1>5. CASE Refresh \/ ServeRefresh \/ LoseRefresh \/ \E u \in Users : Revoke(u)
  BY <1>1, <1>2, <1>5, NoneBegun DEF Refresh, ServeRefresh, LoseRefresh, Revoke, client, server
<1>6. CASE Forget \/ \E u \in Users : \E v \in 0..ver[u] : Restore(u, v)
  BY <1>1, <1>2, <1>6, NoneBegun DEF Forget, Restore, HandOver
<1>7. ASSUME NEW n \in 1..issued, Expire(n) PROVE CallsBegun'
  <2>1. CASE NearEnd(n)
    BY <1>1, <1>2, <1>7, <2>1, NoneBegun DEF Expire, NearEnd, client
  <2>2. CASE End(n)
    BY <1>1, <1>2, <1>7, <2>2, EndBegun DEF Expire, client
  <2> QED BY <1>7, <2>1, <2>2 DEF Expire
<1>8. CASE Settle
  BY <1>1, <1>8, SettleBegun
<1>9. ASSUME NEW c \in Calls, Return(c) \/ Lose(c) PROVE CallsBegun'
  <2>1. calls'[c] = Idle /\ \A d \in Calls \ {c} : calls'[d] = calls[d]
    BY <1>1, <1>9 DEF Return, Lose, TypeOK
  <2>2. spells' = spells + 1 \/ UNCHANGED <<spells, last, session, dead>>
    BY <1>9 DEF Return, Lose, HandOver, client
  <2> QED BY <1>1, <1>2, <2>1, <2>2, AtRest, IdleBegun, OneBegun
<1>10. ASSUME NEW c \in Calls, Logout(c) \/ \E u \in Users : Login(c, u) PROVE CallsBegun'
  <2>1. calls'[c].kind # "api" /\ calls'[c].pc = "sent" /\ \A d \in Calls \ {c} : calls'[d] = calls[d]
    BY <1>1, <1>10 DEF Logout, Login, Idle, TypeOK
  <2>2. PICK new \in Call : new = calls'[c]
    BY <1>1 DEF TypeOK
  <2>3. Begun(new)'
    BY <2>1, <2>2 DEF Begun
  <2>4. UNCHANGED <<spells, last, session, dead>>
    BY <1>10 DEF Logout, Login, client, server
  <2> QED BY <1>1, <1>2, <2>1, <2>2, <2>3, <2>4, OneBegun
<1>11. ASSUME NEW c \in Calls, Begin(c) \/ Send(c) \/ Serve(c) \/ Recover(c) PROVE CallsBegun'
  BY <1>1, <1>2, <1>11, BeginBegun, SendBegun, ServeBegun, RecoverBegun
<1> QED BY StepCases, <1>3, <1>4, <1>5, <1>6, <1>7, <1>8, <1>9, <1>10, <1>11

\* A call is refused only when the session it began under is over, here or at the
\* server, when a refresh was lost, or when all it could await was the refresh of an
\* earlier session: a token that merely expired costs a retry (callApi and _recover
\* in session.js).
THEOREM RefusedOnlyWhenOverHolds == Spec => RefusedOnlyWhenOver
<1> DEFINE Refusal ==
      \A c \in Calls :
        calls[c].pc \in {"401", "recovering"} /\ calls'[c] = Idle /\ UNCHANGED mishaps =>
        \/ calls[c].spell < spells
        \/ calls[c].who.version < ver[calls[c].who.user]
        \/ /\ calls[c].pc = "recovering"
           /\ refreshing.st = "lost" \/ refreshing.spell # calls[c].spell
<1>1. Init => TInv
  <2> SUFFICES ASSUME Init PROVE TInv
    OBVIOUS
  <2>1. \A c \in Calls : calls[c] = Idle
    BY DEF Init
  <2> QED BY <2>1 DEF Init, Idle, TInv, AllNumbered, Numbered, RefreshNew, CallsBegun, Begun
<1>2. IInv /\ IInv' /\ TInv /\ [Next]_vars => TInv'
  <2> SUFFICES ASSUME IInv, IInv', TInv, [Next]_vars PROVE TInv'
    OBVIOUS
  <2>1. AllNumbered' /\ RefreshNew'
    BY NumberedStep, RefreshNewStep DEF IInv, TInv
  <2> QED BY <2>1, CallsBegunStep DEF TInv
<1>3. IInv /\ TInv /\ [Next]_vars => [Refusal]_vars
  <2> SUFFICES ASSUME IInv, TInv, Next, NEW c \in Calls,
                      calls[c].pc \in {"401", "recovering"}, calls'[c] = Idle, UNCHANGED mishaps,
                      ~Over(calls[c])
               PROVE  /\ calls[c].pc = "recovering"
                      /\ refreshing.st = "lost" \/ refreshing.spell # calls[c].spell
    BY DEF Over
  <2>1. PICK old \in Call : old = calls[c]
    BY DEF IInv, TypeOK
  <2>2. Begun(old)
    BY <2>1 DEF TInv, CallsBegun
  <2>3. old.who # None /\ old.spell <= spells /\ Live(old) /\ ~old.retried
    BY <2>1, <2>2 DEF Begun, Live
  <2>4. session # None /\ OfLast(session)
    BY <2>1, <2>3, InSession DEF Live, IInv
  <2>5. calls'[c] # calls[c]
    BY DEF Idle
  <2>6. Recover(c) \/ Settle
    <3>1. ASSUME NEW d \in Calls, d # c,
                 \/ Logout(d) \/ Begin(d) \/ Send(d) \/ Serve(d) \/ Return(d) \/ Lose(d) \/ Recover(d)
                 \/ \E u \in Users : Login(d, u)
          PROVE  calls'[c] = calls[c]
      BY <3>1 DEF Logout, Begin, Send, Serve, Return, Lose, Recover, Login, IInv, TypeOK
    <3>2. calls[c] # Idle /\ calls[c].pc \notin {"ready", "sent", "yes"}
      BY DEF Idle
    <3>3. /\ ~Logout(c) /\ ~Begin(c) /\ \A u \in Users : ~Login(c, u)
          /\ ~Send(c) /\ ~Serve(c) /\ ~Return(c)
      BY <3>2 DEF Logout, Begin, Send, Serve, Return, Login
    <3>4. ~Lose(c)
      BY DEF Lose, IInv, TypeOK
    <3>5. ASSUME NEW k \in Sockets, Open(k) \/ Ask(k) \/ Connect(k) \/ ConnectFails(k) \/ Drop(k) \/ Disconnect(k)
          PROVE  UNCHANGED calls
      BY <3>5 DEF Open, Ask, Connect, ConnectFails, Drop, Disconnect
    <3>6. (\/ \E u \in Users : Revoke(u) \/ \E v \in 0..ver[u] : Restore(u, v)
           \/ Forget \/ Refresh \/ ServeRefresh \/ LoseRefresh \/ \E n \in 1..issued : Expire(n))
          => UNCHANGED calls
      BY DEF Revoke, Restore, Forget, Refresh, ServeRefresh, LoseRefresh, Expire
    <3> QED BY <2>5, <3>1, <3>2, <3>3, <3>4, <3>5, <3>6, StepCases
  <2>7. ~Recover(c)
    <3> SUFFICES ASSUME Recover(c) PROVE FALSE
      OBVIOUS
    <3>1. calls[c].pc = "401" /\ ~calls[c].retried /\ session # None
      BY <2>1, <2>3, <2>4 DEF Recover
    <3>2. calls'[c].pc \in {"ready", "recovering"}
      BY <3>1 DEF Recover, IInv, TypeOK, Call
    <3> QED BY <3>2 DEF Idle
  <2>8. Settle
    BY <2>6, <2>7
  <2>9. calls'[c] = Resumed(calls[c]) /\ refreshing # None /\ refreshing.st # "sent"
    BY <2>8 DEF Settle
  <2>10. calls[c].pc = "recovering" /\ ~Renewed
    <3>1. Resumed(old) = Idle /\ old # Idle /\ old.pc \in {"401", "recovering"} /\ Idle.pc = "idle"
      BY <2>1, <2>5, <2>9 DEF Idle
    <3>2. old.pc = "recovering"
      BY <3>1 DEF Resumed
    <3>3. Renewed => Resumed(old).pc = "ready"
      BY <3>2 DEF Resumed, Call
    <3> QED BY <2>1, <3>1, <3>2, <3>3
  <2>11. ASSUME refreshing.st # "lost", refreshing.spell = old.spell PROVE FALSE
    <3>1. old.spell = spells
      BY <2>1, <2>3 DEF Over, IInv, TypeOK, Call
    <3>2. refreshing.gen = generation
      BY <2>9, <2>11, <3>1 DEF TInv, RefreshNew
    <3>3. refreshing \in InFlight
      BY <2>9 DEF IInv, TypeOK, Maybe
    <3>4. refreshing.st = "denied"
      BY <2>9, <2>10, <2>11, <3>2, <3>3 DEF Renewed, Current, InFlight
    <3>5. session.version < ver[session.user]
      BY <2>9, <3>2, <3>4 DEF IInv, RefreshSound
    <3> QED BY <2>1, <2>3, <2>4, <3>5 DEF Live, OfLast, Over
  <2> QED BY <2>1, <2>10, <2>11
<1>4. [][Refusal]_vars <=> RefusedOnlyWhenOver
  BY DEF RefusedOnlyWhenOver
<1> HIDE DEF Refusal
<1> QED BY <1>1, <1>2, <1>3, <1>4, Invariant, PTL DEF Spec
=============================================================================
