------------------------------ MODULE Session ------------------------------
(***************************************************************************)
(* The session of the JavaScript client (clients/session.js) and the       *)
(* sockets it opens (clients/realtime.js): sign-ins, sign-outs, restored   *)
(* sessions, calls that refresh their token before they go and once more   *)
(* after a 401, one refresh shared by all who ask, and sockets that fetch  *)
(* a token before every connect.  An action runs from one await to the     *)
(* next: JavaScript interleaves nowhere else.                              *)
(*                                                                         *)
(* A session is [user, version, n]: the refresh token is the account with  *)
(* the token_version it was signed for, the access token carries a serial  *)
(* number as well, 0 when none is held.  The server renews the access      *)
(* token of a refresh token whose version is the account's, and refuses    *)
(* every token of an earlier one.                                          *)
(***************************************************************************)
EXTENDS Naturals, FiniteSets

CONSTANTS Users, Calls, Sockets, None,
          MaxTokens,    \* access tokens the server issues
          MaxMishaps,   \* accounts revoked from elsewhere, requests and answers lost
          MaxSpells     \* sign-ins, sign-outs and restores begun

\* None is no user and no token.
Tokens == [user : Users, version : Nat, n : Nat]
ASSUME NoneAssumption == None \notin Users /\ None \notin Tokens

VARIABLES
  session,      \* _session
  generation,   \* _generation
  refreshing,   \* _refreshing: the one refresh in flight, or None
  calls,        \* API calls made through the session's client
  sockets,      \* GameRealtime objects from realtime()
  ver,          \* users.token_version, at the server
  issued,       \* the serial number of the newest access token
  due, dead,    \* access tokens within a minute of their end, and past it
  mishaps,
  last,         \* history: the last sign-in or restore, None after a sign-out
  spells        \* history: how often the session changed hands

vars == <<session, generation, refreshing, calls, sockets, ver, issued, due, dead, mishaps, last, spells>>
client == <<session, generation, last, spells>>
server == <<ver, issued, due, dead, mishaps>>

Idle == [pc |-> "idle", kind |-> "api", who |-> None, spell |-> 0, sent |-> None,
         retried |-> FALSE, answer |-> None]

Unopened == [user |-> None, closed |-> FALSE, trying |-> FALSE, first |-> TRUE,
             token |-> None, asking |-> "no", up |-> None]

Init ==
  /\ session = None /\ generation = 0 /\ refreshing = None
  /\ calls = [c \in Calls |-> Idle]
  /\ sockets = [k \in Sockets |-> Unopened]
  /\ ver = [u \in Users |-> 0] /\ issued = 0 /\ due = {} /\ dead = {} /\ mishaps = 0
  /\ last = None /\ spells = 0

-----------------------------------------------------------------------------
\* The server's answer to an access token, and to a refresh token.
Served(token) == token # None /\ token.version = ver[token.user] /\ token.n \notin dead
Renewable(s) == s.version = ver[s.user]

\* The access token a session sends: null when it holds none.
Access(s) == IF s = None \/ s.n = 0 THEN None ELSE s

Fresh(s) == s.n # 0 /\ s.n \notin due

\* Room for one more change of hands, those under way counted.
Room == spells + Cardinality({c \in Calls : calls[c].kind # "api"}) < MaxSpells

-----------------------------------------------------------------------------
(* _set: every change of the session, and the sockets it ends. *)

OnlySignedOut(s) == s = None

Ended(s) == s = None \/ (session # None /\ session.user # s.user)

\* A closed socket that awaits nothing is forgotten, and its name free.
Kept(k) == IF k.closed /\ ~k.trying /\ k.asking = "no" THEN Unopened ELSE k

\* disconnect(): the socket is closed for good and Phoenix stops trying; the
\* token it held is not read again.
Disconnected(k) == Kept([k EXCEPT !.closed = TRUE, !.trying = FALSE, !.up = None, !.token = None])

Ending(k, s) == IF Ended(s) /\ k.user # None THEN Disconnected(k) ELSE k

\* A change of hands: what the application, or a sign-in's answer, asked for.
HandOver(s) ==
  /\ session' = s
  /\ generation' = generation + 1
  /\ sockets' = [k \in Sockets |-> Ending(sockets[k], s)]
  /\ last' = s
  /\ spells' = spells + 1

\* restore(): a session saved by an earlier run of the application, its access
\* token missing or past; revoked since, perhaps.
Restore(u, v) ==
  /\ Room
  /\ v <= ver[u]
  /\ HandOver([user |-> u, version |-> v, n |-> 0])
  /\ UNCHANGED <<refreshing, calls, server>>

\* restore(null).
Forget ==
  /\ Room
  /\ HandOver(None)
  /\ UNCHANGED <<refreshing, calls, server>>

-----------------------------------------------------------------------------
(* refresh() and _refresh: one request at a time, whoever asks. *)

\* The code the last event set off has come to rest: JavaScript runs what it
\* queued before it looks at the network or the clock again.  The application's
\* own calls may come at any time.
Quiet ==
  /\ \A c \in Calls : calls[c].pc # "ready"
  /\ \A k \in Sockets : sockets[k].asking \notin {"asked", "resumed"}

\* A refresh begun while signed out answers false at once.
Join ==
  IF refreshing # None THEN UNCHANGED refreshing
  ELSE refreshing' = [st |-> IF session = None THEN "lost" ELSE "sent", of |-> session,
                      gen |-> generation, spell |-> spells, token |-> None]

\* The application calls refresh() itself.
Refresh == refreshing = None /\ Join /\ UNCHANGED <<client, calls, sockets, server>>

ServeRefresh ==
  /\ Quiet /\ refreshing # None /\ refreshing.st = "sent"
  /\ IF Renewable(refreshing.of)
     THEN /\ issued < MaxTokens
          /\ issued' = issued + 1
          /\ refreshing' = [refreshing EXCEPT !.st = "granted",
                              !.token = [refreshing.of EXCEPT !.n = issued + 1]]
     ELSE refreshing' = [refreshing EXCEPT !.st = "denied"] /\ UNCHANGED issued
  /\ UNCHANGED <<client, calls, sockets, ver, due, dead, mishaps>>

LoseRefresh ==
  /\ Quiet /\ refreshing # None /\ refreshing.st # "lost"
  /\ mishaps < MaxMishaps
  /\ mishaps' = mishaps + 1
  /\ refreshing' = [refreshing EXCEPT !.st = "lost"]
  /\ UNCHANGED <<client, calls, sockets, ver, issued, due, dead>>

AnyGeneration(g) == TRUE

\* No sign-in or sign-out happened while the refresh was in flight.
Current(g) == g = generation

\* A refresh that took, and the session it leaves.
Renewed == refreshing.st = "granted" /\ Current(refreshing.gen)
Outcome ==
  CASE Renewed -> refreshing.token
    [] refreshing.st = "denied" /\ Current(refreshing.gen) -> None
    [] OTHER -> session

\* What an awaited refresh makes of a call.
Resumed(call) ==
  CASE call.pc = "waiting" -> [call EXCEPT !.pc = "ready"]
    [] call.pc = "recovering" /\ Renewed -> [call EXCEPT !.pc = "ready", !.retried = TRUE]
    [] call.pc = "recovering" /\ ~Renewed -> Idle   \* it throws the 401
    [] OTHER -> call

Awoken(k) == IF k.asking = "waiting" THEN [k EXCEPT !.asking = "resumed"] ELSE k

\* The refresh ends: its answer is taken or left, the next refresh will be a new
\* request, and all who awaited this one run on.
Settle ==
  /\ Quiet /\ refreshing # None /\ refreshing.st # "sent"
  /\ session' = Outcome
  /\ generation' = IF refreshing.st # "lost" /\ Current(refreshing.gen) THEN generation + 1 ELSE generation
  /\ sockets' = [k \in Sockets |-> Awoken(Ending(sockets[k], Outcome))]
  /\ calls' = [c \in Calls |-> Resumed(calls[c])]
  /\ refreshing' = None
  /\ UNCHANGED <<server, last, spells>>

-----------------------------------------------------------------------------
(* callApi: a call made through the session's client. *)

\* A sign-in carries no token.
Login(c, u) ==
  /\ calls[c] = Idle /\ Room
  /\ calls' = [calls EXCEPT ![c] = [Idle EXCEPT !.pc = "sent", !.kind = "login",
                                      !.who = [user |-> u, version |-> ver[u], n |-> 0]]]
  /\ UNCHANGED <<client, refreshing, sockets, server>>

\* signOut(): the logout call sends the refresh token, at once.
Logout(c) ==
  /\ calls[c] = Idle /\ session # None /\ Room
  /\ calls' = [calls EXCEPT ![c] = [Idle EXCEPT !.pc = "sent", !.kind = "logout",
                                      !.who = [session EXCEPT !.n = 0]]]
  /\ UNCHANGED <<client, refreshing, sockets, server>>

\* An authenticated call awaits getAccessToken first.
Begin(c) ==
  /\ calls[c] = Idle /\ session # None
  /\ calls' = [calls EXCEPT ![c] = [Idle EXCEPT !.who = [session EXCEPT !.n = 0], !.spell = spells,
                 !.pc = IF Fresh(session) THEN "ready" ELSE "waiting"]]
  /\ IF Fresh(session) THEN UNCHANGED refreshing ELSE Join
  /\ UNCHANGED <<client, sockets, server>>

Captured(c) == IF calls[c].retried THEN calls[c].sent ELSE Access(session)

\* The token that goes out is the client's at this moment, the second time too.
Carried(c) == Access(session)

Send(c) ==
  /\ calls[c].pc = "ready"
  /\ calls' = [calls EXCEPT ![c].pc = "sent", ![c].sent = Carried(c)]
  /\ UNCHANGED <<client, refreshing, sockets, server>>

\* The server answers: a session, yes, or 401; a logout it believes revokes the
\* account's tokens everywhere.  Another call that succeeds is over: its answer
\* changes nothing here.
Serve(c) ==
  /\ Quiet /\ calls[c].pc = "sent"
  /\ LET call == calls[c] IN
       \/ /\ call.kind = "login" /\ issued < MaxTokens
          /\ issued' = issued + 1
          /\ calls' = [calls EXCEPT ![c].pc = "yes", ![c].answer =
               [user |-> call.who.user, version |-> ver[call.who.user], n |-> issued + 1]]
          /\ UNCHANGED ver
       \/ /\ call.kind = "logout"
          /\ ver' = IF Renewable(call.who) THEN [ver EXCEPT ![call.who.user] = @ + 1] ELSE ver
          /\ calls' = [calls EXCEPT ![c].pc = "yes"]
          /\ UNCHANGED issued
       \/ /\ call.kind = "api"
          /\ calls' = [calls EXCEPT ![c] = IF Served(call.sent) THEN Idle ELSE [call EXCEPT !.pc = "401"]]
          /\ UNCHANGED <<ver, issued>>
  /\ UNCHANGED <<client, refreshing, sockets, due, dead, mishaps>>

\* A sign-in is adopted, a sign-out drops the session.
Return(c) ==
  /\ Quiet /\ calls[c].pc = "yes"
  /\ calls' = [calls EXCEPT ![c] = Idle]
  /\ HandOver(calls[c].answer)
  /\ UNCHANGED <<refreshing, server>>

\* The request or its answer is lost: the call throws, and a sign-out drops
\* the session all the same.
Lose(c) ==
  /\ Quiet /\ calls[c].pc \in {"sent", "yes", "401"}
  /\ mishaps < MaxMishaps
  /\ mishaps' = mishaps + 1
  /\ calls' = [calls EXCEPT ![c] = Idle]
  /\ IF calls[c].kind = "logout" THEN HandOver(None) ELSE UNCHANGED <<client, sockets>>
  /\ UNCHANGED <<refreshing, ver, issued, due, dead>>

\* The session's token is not the one the call sent.
Newer(c) == Access(session) # calls[c].sent

\* A 401: _recover, once.
Recover(c) ==
  /\ Quiet /\ calls[c].pc = "401"
  /\ \/ /\ calls[c].retried \/ session = None
        /\ calls' = [calls EXCEPT ![c] = Idle]
        /\ UNCHANGED refreshing
     \/ /\ ~calls[c].retried /\ session # None /\ Newer(c)
        /\ calls' = [calls EXCEPT ![c].pc = "ready", ![c].retried = TRUE]
        /\ UNCHANGED refreshing
     \/ /\ ~calls[c].retried /\ session # None /\ ~Newer(c)
        /\ calls' = [calls EXCEPT ![c].pc = "recovering"]
        /\ Join
  /\ UNCHANGED <<client, sockets, server>>

-----------------------------------------------------------------------------
(* GameRealtime: a socket, its token and Phoenix's attempts to connect. *)

\* realtime(): the constructor asks for a token, and connects when it has one.
Open(k) ==
  /\ sockets[k] = Unopened /\ session # None
  /\ sockets' = [sockets EXCEPT ![k].user = session.user, ![k].asking = "asked"]
  /\ UNCHANGED <<client, refreshing, calls, server>>

EvenClosed(k) == k.first \/ k.trying

MayConnect(k) == (k.first /\ ~k.closed) \/ k.trying

\* _refreshToken: getAccessToken, which may have to wait for a refresh.
Ask(k) ==
  /\ sockets[k].asking \in {"asked", "resumed"}
  /\ IF sockets[k].asking = "asked" /\ session # None /\ ~Fresh(session)
     THEN Join /\ sockets' = [sockets EXCEPT ![k].asking = "waiting"]
     ELSE /\ sockets' = [sockets EXCEPT ![k] = Kept([@ EXCEPT !.asking = "no",
                           !.token = Access(session), !.first = FALSE, !.trying = MayConnect(sockets[k])])]
          /\ UNCHANGED refreshing
  /\ UNCHANGED <<client, calls, server>>

\* Phoenix connects with the token the socket holds.
Connect(k) ==
  /\ Quiet /\ sockets[k].trying /\ sockets[k].up = None
  /\ Served(sockets[k].token)
  /\ sockets' = [sockets EXCEPT ![k].up = sockets[k].token.user]
  /\ UNCHANGED <<client, refreshing, calls, server>>

\* A handshake that fails, whatever the cause: onError asks for a new token.
ConnectFails(k) ==
  /\ Quiet /\ sockets[k].trying /\ sockets[k].up = None /\ sockets[k].asking = "no"
  /\ sockets' = [sockets EXCEPT ![k].asking = "asked"]
  /\ UNCHANGED <<client, refreshing, calls, server>>

\* The connection drops: Phoenix tries again.
Drop(k) ==
  /\ Quiet /\ sockets[k].up # None
  /\ sockets' = [sockets EXCEPT ![k].up = None]
  /\ UNCHANGED <<client, refreshing, calls, server>>

\* The application disconnects the socket itself.
Disconnect(k) ==
  /\ sockets[k].user # None /\ ~sockets[k].closed
  /\ sockets' = [sockets EXCEPT ![k] = Disconnected(@)]
  /\ UNCHANGED <<client, refreshing, calls, server>>

-----------------------------------------------------------------------------
(* Time and the other devices of an account. *)

NearEnd(n) == n \notin due /\ due' = due \cup {n} /\ UNCHANGED dead

\* A call that sent another token than this one, or is on its second try.
OlderOut(n) ==
  \E c \in Calls : /\ calls[c].kind = "api" /\ calls[c] # Idle
                   /\ \/ calls[c].retried
                      \/ /\ calls[c].pc \in {"sent", "401", "recovering"}
                         /\ calls[c].sent = None \/ calls[c].sent.n # n

\* A token lasts fifteen minutes: no call that sent an earlier one is out for so long.
End(n) == n \in due \ dead /\ ~OlderOut(n) /\ dead' = dead \cup {n} /\ UNCHANGED due

Held(n) ==
  \/ session # None /\ session.n = n
  \/ \E c \in Calls : calls[c].sent # None /\ calls[c].sent.n = n

Expire(n) ==
  /\ Quiet /\ Held(n)
  /\ NearEnd(n) \/ End(n)
  /\ UNCHANGED <<client, refreshing, calls, sockets, ver, issued, mishaps>>

\* A sign-out elsewhere, or a password changed.
Revoke(u) ==
  /\ Quiet /\ mishaps < MaxMishaps
  /\ mishaps' = mishaps + 1
  /\ ver' = [ver EXCEPT ![u] = @ + 1]
  /\ UNCHANGED <<client, refreshing, calls, sockets, issued, due, dead>>

Next ==
  \/ \E u \in Users : Revoke(u) \/ \E v \in 0..ver[u] : Restore(u, v)
  \/ Forget \/ Refresh \/ ServeRefresh \/ LoseRefresh \/ Settle
  \/ \E c \in Calls : \/ Logout(c) \/ Begin(c) \/ Send(c) \/ Serve(c) \/ Return(c) \/ Lose(c) \/ Recover(c)
                      \/ \E u \in Users : Login(c, u)
  \/ \E k \in Sockets : Open(k) \/ Ask(k) \/ Connect(k) \/ ConnectFails(k) \/ Drop(k) \/ Disconnect(k)
  \/ \E n \in 1..issued : Expire(n)

Spec == Init /\ [][Next]_vars

-----------------------------------------------------------------------------
Maybe(S) == S \cup {None}

Call == [pc : {"idle", "waiting", "ready", "sent", "yes", "401", "recovering"},
         kind : {"api", "login", "logout"}, who : Maybe(Tokens), spell : Nat,
         sent : Maybe(Tokens), retried : BOOLEAN, answer : Maybe(Tokens)]

Socket == [user : Maybe(Users), closed : BOOLEAN, trying : BOOLEAN, first : BOOLEAN,
           token : Maybe(Tokens), asking : {"no", "asked", "waiting", "resumed"}, up : Maybe(Users)]

InFlight == [st : {"sent", "granted", "denied", "lost"}, of : Maybe(Tokens), gen : Nat,
             spell : Nat, token : Maybe(Tokens)]

\* The session, the refresh, the calls and the sockets keep their types.
TypeOK ==
  /\ session \in Maybe(Tokens) /\ last \in Maybe(Tokens)
  /\ generation \in Nat /\ spells \in Nat /\ issued \in Nat /\ mishaps \in Nat
  /\ refreshing \in Maybe(InFlight)
  /\ calls \in [Calls -> Call]
  /\ sockets \in [Sockets -> Socket]
  /\ ver \in [Users -> Nat]

\* A socket that is connected belongs to the user of the session, and holds that
\* user's token: whatever was in flight when another user signed in, or the
\* session ended, no socket of the earlier one stays or comes up.
SocketsFollow ==
  \A k \in Sockets : sockets[k].up # None =>
    /\ ~sockets[k].closed
    /\ session # None
    /\ session.user = sockets[k].user
    /\ sockets[k].up = sockets[k].user

\* The session is that of the last sign-in or restore, and is gone only after a
\* sign-out or when the server has revoked it: an answer to an earlier session's
\* refresh neither brings it back nor ends the new one.
SessionIsLast ==
  IF session = None
  THEN last = None \/ last.version < ver[last.user]
  ELSE last # None /\ session.user = last.user /\ session.version = last.version

\* A call is refused only when the session it began under is over, here or at
\* the server, when a refresh was lost, or when all it could await was the
\* refresh of an earlier session: a token that merely expired costs a retry.
RefusedOnlyWhenOver ==
  [][\A c \in Calls :
       calls[c].pc \in {"401", "recovering"} /\ calls'[c] = Idle /\ UNCHANGED mishaps =>
       \/ calls[c].spell < spells
       \/ calls[c].who.version < ver[calls[c].who.user]
       \/ /\ calls[c].pc = "recovering"
          /\ refreshing.st = "lost" \/ refreshing.spell # calls[c].spell]_vars
=============================================================================
