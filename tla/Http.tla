-------------------------------- MODULE Http --------------------------------
(***************************************************************************)
(* Server::AcceptLoop, one client after the other on the one HTTP thread:  *)
(* accept, read, route, authenticate, handle, write, with AuthMiddleware   *)
(* and the session routes on module Sessions.  What a lobby handler does   *)
(* to lobbies is module Lobbies; here it succeeds or fails.  An exception  *)
(* of any step ends the turn of the client without an answer.              *)
(***************************************************************************)
EXTENDS Sessions, Router

CONSTANTS
    Clients,    \* HTTP clients; each may come back after its turn
    Missing,    \* the bearer of a request without a well-formed token
    Requests    \* [method, path, bearer, body] records clients may send

ASSUME ClientsAssumption ==
    /\ None \notin Clients
    /\ Missing \notin Sessions \union {None}
    /\ Requests \subseteq [method : STRING, path : Seq(STRING),
                           bearer : Sessions \union {None, Missing},
                           body : {"good", "bad", "wrong"}]

VARIABLES
    client,     \* what each client has done since its last turn
    backlog,    \* the connections the acceptor has not taken yet
    stage,      \* where AcceptLoop is
    current,    \* the client it serves
    request,    \* the Request it read
    endpoint    \* the handler the router found

loop  == <<backlog, stage, current, request, endpoint>>
every == <<vars, client, loop>>

Protected == {"CreateLobby", "FetchLobby", "JoinLobby", "LeaveLobby",
              "DestroyLobby", "KickPlayer"}

Endpoint == [r \in Requests |-> HandleRequest(r.method, r.path)]

Stages == {"accept", "read", "route", "auth", "validate", "act", "write"}

-----------------------------------------------------------------------------
(* Clients                                                                 *)

Connect(c) ==
    /\ client[c] = "away"
    /\ client' = [client EXCEPT ![c] = "connected"]
    /\ backlog' = Append(backlog, c)
    /\ UNCHANGED <<vars, stage, current, request, endpoint>>

Send(c) ==
    /\ client[c] = "connected"
    /\ client' = [client EXCEPT ![c] = "sent"]
    /\ UNCHANGED <<vars, loop>>

\* The client resets the connection, before or after its request.
Hangup(c) ==
    /\ client[c] \in {"connected", "sent"}
    /\ client' = [client EXCEPT ![c] = "gone"]
    /\ UNCHANGED <<vars, loop>>

-----------------------------------------------------------------------------
(* AcceptLoop: reading                                                     *)

\* The loop reads again from the same connection.
ReadAgain ==
    /\ stage' = "read"
    /\ request' = None
    /\ endpoint' = None
    /\ UNCHANGED <<client, backlog, current>>

\* The next turn of the loop, after the answer or an exception; nothing of
\* this turn is kept.
NextTurn ==
    /\ client' = [client EXCEPT ![current] = "away"]
    /\ stage' = "accept"
    /\ current' = None
    /\ request' = None
    /\ endpoint' = None
    /\ UNCHANGED backlog

\* No answer is sent, and the catch block only logs.
Throw == NextTurn

Accept ==
    /\ stage = "accept"
    /\ backlog # <<>>
    /\ current' = Head(backlog)
    /\ backlog' = Tail(backlog)
    /\ stage' = "read"
    /\ UNCHANGED <<vars, client, request, endpoint>>

\* http::read returns when a whole request has come.  Tokens are drawn at
\* login: nobody sends the token of a session still to be created.  The bound
\* on sessions: nobody asks to log in when none is left.
Read(r) ==
    /\ stage = "read"
    /\ \/ \E s \in Sessions : username[s] = None
       \/ Endpoint[r] # "Login"
    /\ r.bearer \in Sessions => username[r.bearer] # None
    /\ client[current] = "sent"
    /\ request' = r
    /\ stage' = "route"
    /\ UNCHANGED <<vars, client, backlog, current, endpoint>>

\* The connection was reset, or what came is no HTTP.
ReadFails ==
    /\ stage = "read"
    /\ client[current] \in {"sent", "gone"}
    /\ Throw
    /\ UNCHANGED vars

-----------------------------------------------------------------------------
(* AcceptLoop: handling                                                    *)

\* Router::HandleRequest
Route ==
    /\ stage = "route"
    /\ endpoint' = Endpoint[request]
    /\ stage' = IF Endpoint[request] \in Errors THEN "write"
                ELSE IF Endpoint[request] \in Protected THEN "auth" ELSE "act"
    /\ UNCHANGED <<vars, client, backlog, current, request>>

\* AuthMiddleware::Authenticate: without a well-formed bearer token nothing
\* is validated, and no expired session is swept.
Authenticate ==
    /\ stage = "auth"
    /\ IF request.bearer = Missing
         THEN stage' = "write" /\ UNCHANGED vars
         ELSE stage' = "validate" /\ ValidateToken(Http, request.bearer)
    /\ UNCHANGED <<client, backlog, current, request, endpoint>>

\* A null session is not looked at.
ValidateUnchecked ==
    /\ stage = "validate"
    /\ \/ Sweep(Http) \/ Purged(Http) \/ Find(Http) \/ Check(Http) \/ Extend(Http)
       \/ \E s \in Sessions : Purge(Http, s)
    /\ stage' = IF pc'[Http] = "idle" THEN "act" ELSE "validate"
    /\ UNCHANGED <<client, backlog, current, request, endpoint>>

\* The steps of ValidateToken; Unauthorized when it returns no session.
Validate ==
    /\ stage = "validate"
    /\ \/ /\ Sweep(Http) \/ Purged(Http) \/ Find(Http) \/ Check(Http)
          /\ stage' = IF pc'[Http] = "idle" THEN "write" ELSE stage
       \/ (\E s \in Sessions : Purge(Http, s)) /\ UNCHANGED stage
       \/ Extend(Http) /\ stage' = "act"
    /\ UNCHANGED <<client, backlog, current, request, endpoint>>

\* json::parse of a body that is none, or a field of another type.
BodyThrows ==
    /\ stage = "act"
    /\ endpoint \in {"Login", "Logout", "CreateLobby"}
    /\ request.body = "bad"
    /\ Throw
    /\ UNCHANGED vars

Login ==
    /\ stage = "act"
    /\ endpoint = "Login"
    /\ \/ /\ request.body = "good"
          /\ \E s \in Sessions, u \in Usernames : CreateSession(s, u)
       \/ /\ request.body = "wrong"
          /\ UNCHANGED vars
    /\ stage' = "write"
    /\ UNCHANGED <<client, backlog, current, request, endpoint>>

\* The token is in the body; whether a session has it does not show.
Logout ==
    /\ stage = "act"
    /\ endpoint = "Logout"
    /\ request.body # "bad"
    /\ IF request.bearer \in byToken
         THEN DestroySessionByToken(request.bearer)
         ELSE UNCHANGED vars
    /\ stage' = "write"
    /\ UNCHANGED <<client, backlog, current, request, endpoint>>

\* Handlers that read, and those whose changes are module Lobbies.
Serve ==
    /\ stage = "act"
    /\ endpoint \notin {"Login", "Logout"}
    /\ endpoint = "CreateLobby" => request.body # "bad"
    /\ stage' = "write"
    /\ UNCHANGED <<vars, client, backlog, current, request, endpoint>>

\* http::write, and the shutdown.
Write ==
    /\ stage = "write"
    /\ client[current] = "sent"
    /\ NextTurn
    /\ UNCHANGED vars

\* The client has gone: whatever its request has changed stays changed.
WriteFails ==
    /\ stage = "write"
    /\ client[current] = "gone"
    /\ Throw
    /\ UNCHANGED vars

-----------------------------------------------------------------------------
HttpInit ==
    /\ Init
    /\ client = [c \in Clients |-> "away"]
    /\ backlog = <<>>
    /\ stage = "accept"
    /\ current = None
    /\ request = None
    /\ endpoint = None

AcceptLoop ==
    \/ Accept
    \/ \E r \in Requests : Read(r)
    \/ ReadFails
    \/ Route
    \/ Authenticate
    \/ Validate
    \/ BodyThrows
    \/ Login
    \/ Logout
    \/ Serve
    \/ Write
    \/ WriteFails

HttpNext ==
    \/ \E c \in Clients : Connect(c) \/ Send(c) \/ Hangup(c)
    \/ Tick /\ UNCHANGED <<client, loop>>
    \/ AcceptLoop

HttpSpec == HttpInit /\ [][HttpNext]_every

\* The HTTP thread goes on whenever it can.  Clients may stay silent.
FairHttp == HttpSpec /\ WF_every(AcceptLoop)

-----------------------------------------------------------------------------
(* Properties                                                              *)

\* Every variable has its type, and the thread validates only in its stage.
HttpTypeOK ==
    /\ TypeOK
    /\ client \in [Clients -> {"away", "connected", "sent", "gone"}]
    /\ backlog \in Seq(Clients)
    /\ stage \in Stages
    /\ current \in Clients \union {None}
    /\ request \in Requests \union {None}
    /\ endpoint \in Handlers \union Errors \union {None}
    /\ stage # "accept" => current \in Clients
    /\ stage \notin {"accept", "read"} => request \in Requests
    /\ stage = "validate" <=> pc[Http] # "idle"

\* README, "Route protection": no handler of a protected endpoint runs except
\* for a session that was accepted since the request came in, and is neither
\* logged out nor swept when the handler uses it.
ActsAuthenticated ==
    stage = "act" /\ endpoint \in Protected =>
        /\ request.bearer \in byToken \ loggedOut
        /\ lastUse[request.bearer] >= began[Http]

\* A request reaches the one handler whose documented endpoint it is an
\* instance of, whatever slashes and query it carries, and none if there is
\* no such endpoint: the order of registration never matters.
RoutedRight ==
    endpoint # None =>
        LET segments == SplitPath(StripQuery(request.path))
            fitting == {i \in DOMAIN Routes :
                           /\ Routes[i].method = request.method
                           /\ Fits(Routes[i].segments, segments)}
        IN  IF endpoint \in Errors
              THEN fitting = {}
              ELSE {Routes[i].handler : i \in fitting} = {endpoint}

\* Unless http::read waits for ever for a client that has connected and is
\* silent, everybody who connects gets a turn, whatever requests the others
\* send and whatever the handlers throw.  AcceptLoop has no timeout of its own.
EveryoneServed ==
    []<>(stage = "read" => client[current] # "connected")
      => \A c \in Clients : client[c] # "away" ~> client[c] = "away"
=============================================================================
