----------------------------- MODULE HttpProofs -----------------------------
(***************************************************************************)
(* The HTTP loop, for every set of clients and of requests: it is a caller *)
(* of SessionManager as module Sessions has it, so that what is proved     *)
(* there holds here, and its handlers act only for accepted sessions.      *)
(***************************************************************************)
EXTENDS Http, SessionsProofs, RouterProofs

\* What the loop knows of itself while it handles a request.
LoopOK ==
    /\ stage \in Stages
    /\ stage \notin {"accept", "read"} => request \in Requests
    /\ stage = "validate" <=> pc[Http] # "idle"

\* The thread is one of the callers.
LEMMA HttpCalls == Http \in Callers
  BY CallersAssumption DEF Http, Callers

-----------------------------------------------------------------------------
(* The loop on the sessions                                                *)

\* Every step of the server is a step of Sessions, or leaves it alone.
LEMMA LoopStep ==
    ASSUME TypeOK, LoopOK, HttpNext
    PROVE  [Next]_vars
<1>1. ASSUME NEW c \in Clients, Connect(c) \/ Send(c) \/ Hangup(c)
      PROVE UNCHANGED vars
  BY <1>1 DEF Connect, Send, Hangup
<1>2. CASE Tick /\ UNCHANGED <<client, loop>>
  BY <1>2 DEF Next
<1>3. CASE AcceptLoop
  <2>1. CASE Accept
    BY <2>1 DEF Accept
  <2>2. ASSUME NEW r \in Requests, Read(r) PROVE UNCHANGED vars
    BY <2>2 DEF Read
  <2>3. CASE ReadFails
    BY <2>3 DEF ReadFails
  <2>4. CASE Route
    BY <2>4 DEF Route
  <2>5. CASE Authenticate
    <3>1. CASE request.bearer = Missing
      BY <2>5, <3>1 DEF Authenticate
    <3>2. CASE request.bearer # Missing
      <4>1. request \in Requests
        BY <2>5 DEF Authenticate, LoopOK
      <4>2. request.bearer \in Sessions \union {None}
        BY <3>2, <4>1, ClientsAssumption
      <4>3. Call(Http)
        BY <2>5, <3>2, <4>2 DEF Authenticate, Call
      <4> QED BY <4>3, HttpCalls DEF Next
    <3> QED BY <3>1, <3>2
  <2>6. CASE Validate
    <3>1. Call(Http)
      BY <2>6 DEF Validate, Call
    <3> QED BY <3>1, HttpCalls DEF Next
  <2>7. CASE BodyThrows
    BY <2>7 DEF BodyThrows
  <2>8. CASE Login
    BY <2>8 DEF Login, Next
  <2>9. CASE Logout
    <3>1. CASE request.bearer \in byToken
      BY <2>9, <3>1 DEF Logout, Next, TypeOK
    <3>2. CASE request.bearer \notin byToken
      BY <2>9, <3>2 DEF Logout
    <3> QED BY <3>1, <3>2
  <2>10. CASE Serve
    BY <2>10 DEF Serve
  <2>11. CASE Write \/ WriteFails
    BY <2>11 DEF Write, WriteFails
  <2> QED
    BY <1>3, <2>1, <2>2, <2>3, <2>4, <2>5, <2>6, <2>7, <2>8, <2>9, <2>10, <2>11
       DEF AcceptLoop
<1> QED BY <1>1, <1>2, <1>3 DEF HttpNext

\* Nor does a step of it confuse the loop.
LEMMA LoopKept ==
    ASSUME TypeOK, LoopOK, HttpNext
    PROVE  LoopOK'
<1> USE DEF LoopOK, Stages
<1>1. ASSUME NEW c \in Clients, Connect(c) \/ Send(c) \/ Hangup(c)
      PROVE LoopOK'
  BY <1>1 DEF Connect, Send, Hangup, loop, vars
<1>2. CASE Tick /\ UNCHANGED <<client, loop>>
  BY <1>2 DEF Tick, loop, calls
<1>3. CASE AcceptLoop
  <2>1. CASE Accept
    BY <2>1 DEF Accept, vars
  <2>2. ASSUME NEW r \in Requests, Read(r) PROVE LoopOK'
    BY <2>2 DEF Read, vars
  <2>3. CASE ReadFails \/ BodyThrows \/ Write \/ WriteFails
    BY <2>3 DEF ReadFails, BodyThrows, Write, WriteFails, Throw, NextTurn, vars
  <2>4. CASE Route
    BY <2>4 DEF Route, vars
  <2>5. CASE Authenticate
    <3>1. CASE request.bearer = Missing
      BY <2>5, <3>1 DEF Authenticate, vars
    <3>2. CASE request.bearer # Missing
      BY <2>5, <3>2, HttpCalls DEF Authenticate, ValidateToken, Goto, TypeOK
    <3> QED BY <3>1, <3>2
  <2>6. CASE Validate
    <3>1. CASE stage' = IF pc'[Http] = "idle" THEN "write" ELSE stage
      BY <2>6, <3>1 DEF Validate
    <3>2. CASE (\E s \in Sessions : Purge(Http, s)) /\ UNCHANGED stage
      BY <2>6, <3>2 DEF Validate, Purge
    <3>3. CASE Extend(Http) /\ stage' = "act"
      BY <2>6, <3>3, HttpCalls DEF Validate, Extend, Goto, TypeOK
    <3> QED BY <2>6, <3>1, <3>2, <3>3 DEF Validate
  <2>7. CASE Login
    BY <2>7 DEF Login, CreateSession, calls, vars
  <2>8. CASE Logout
    BY <2>8 DEF Logout, DestroySessionByToken, calls, vars
  <2>9. CASE Serve
    BY <2>9 DEF Serve, vars
  <2> QED
    BY <1>3, <2>1, <2>2, <2>3, <2>4, <2>5, <2>6, <2>7, <2>8, <2>9 DEF AcceptLoop
<1> QED BY <1>1, <1>2, <1>3 DEF HttpNext

\* The HTTP server uses SessionManager as module Sessions says: whatever clients
\* send, its behaviours are behaviours of that module.
THEOREM HttpImplementsSessions == HttpSpec => Spec
<1>1. HttpInit => Init /\ TypeOK /\ LoopOK
  BY SessionsAssumption, ClockAssumption, CallersAssumption, HttpCalls
     DEF HttpInit, Init, TypeOK, LoopOK, Stages, Callers, Labels
<1>2. TypeOK /\ LoopOK /\ [HttpNext]_every => [Next]_vars /\ TypeOK' /\ LoopOK'
  <2> SUFFICES ASSUME TypeOK, LoopOK, [HttpNext]_every
               PROVE  [Next]_vars /\ TypeOK' /\ LoopOK'
    OBVIOUS
  <2>1. CASE HttpNext
    BY <2>1, LoopStep, LoopKept, TypeStep
  <2>2. CASE UNCHANGED every
    <3>1. UNCHANGED vars /\ LoopOK'
      BY <2>2 DEF every, vars, loop, LoopOK
    <3> QED BY <3>1, TypeStep
  <2> QED BY <2>1, <2>2
<1> QED BY <1>1, <1>2, PTL DEF HttpSpec, Spec

\* With the HTTP thread alone on the sessions, a session used within the hour
\* is accepted, whatever requests clients send.
THEOREM HttpSessionsCorrect ==
    ASSUME IoThreads = 0
    PROVE  HttpSpec => []SlidingExpiration
BY HttpImplementsSessions, SlidingCorrect, PTL

-----------------------------------------------------------------------------
(* Type correctness                                                        *)

\* The router answers every method and path with a handler or an error.
LEMMA Routed ==
    ASSUME NEW method, NEW path
    PROVE  HandleRequest(method, path) \in Handlers \union Errors
<1> DEFINE segments == SplitPath(StripQuery(path))
           matching == {i \in DOMAIN Routes : TryMatch(Routes[i], method, segments)}
           first == CHOOSE i \in matching : \A j \in matching : i <= j
<1>1. ASSUME matching # {}
      PROVE  first \in DOMAIN Routes
  <2>1. matching \in SUBSET Nat
    BY Table
  <2> QED BY <1>1, <2>1, FirstIs
<1>2. ASSUME matching # {} PROVE Routes[first].handler \in Handlers
  BY <1>1, <1>2 DEF Handlers
<1>3. HandleRequest(method, path)
        \in {"MethodNotAllowed", "NotFound", Routes[first].handler}
  BY DEF HandleRequest
<1> QED BY <1>2, <1>3 DEF HandleRequest, Errors

\* What a turn of the loop has made of the connection it serves.
TurnOK ==
    /\ client \in [Clients -> {"away", "connected", "sent", "gone"}]
    /\ backlog \in Seq(Clients)
    /\ current \in Clients \union {None}
    /\ request \in Requests \union {None}
    /\ endpoint \in Handlers \union Errors \union {None}
    /\ stage # "accept" => current \in Clients

\* No step of a client or of the loop leaves the types.
LEMMA TurnKept ==
    ASSUME TypeOK, LoopOK, TurnOK, HttpNext
    PROVE  TurnOK'
<1> USE DEF TurnOK
<1>1. ASSUME NEW c \in Clients, Connect(c) \/ Send(c) \/ Hangup(c)
      PROVE TurnOK'
  BY <1>1 DEF Connect, Send, Hangup, loop
<1>2. CASE Tick /\ UNCHANGED <<client, loop>>
  BY <1>2 DEF loop
<1>3. CASE AcceptLoop
  <2>1. CASE Accept
    <3>1. Head(backlog) \in Clients /\ Tail(backlog) \in Seq(Clients)
      BY <2>1 DEF Accept
    <3> QED BY <2>1, <3>1 DEF Accept
  <2>2. ASSUME NEW r \in Requests, Read(r) PROVE TurnOK'
    BY <2>2 DEF Read
  <2>3. CASE ReadFails \/ BodyThrows \/ Write \/ WriteFails
    BY <2>3 DEF ReadFails, BodyThrows, Write, WriteFails, Throw, NextTurn
  <2>4. CASE Route
    <3>1. request \in Requests
      BY <2>4 DEF Route, LoopOK
    <3>2. endpoint' = HandleRequest(request.method, request.path)
      BY <2>4, <3>1 DEF Route, Endpoint
    <3>3. endpoint' \in Handlers \union Errors
      BY <3>2, Routed
    <3> QED BY <2>4, <3>3 DEF Route
  <2>5. CASE Authenticate \/ Validate \/ Login \/ Logout \/ Serve
    BY <2>5 DEF Authenticate, Validate, Login, Logout, Serve
  <2> QED BY <1>3, <2>1, <2>2, <2>3, <2>4, <2>5 DEF AcceptLoop
<1> QED BY <1>1, <1>2, <1>3 DEF HttpNext

\* Every reachable state of the server is well typed, whatever clients send.
THEOREM HttpTypeCorrect == HttpSpec => []HttpTypeOK
<1>1. HttpInit => TypeOK /\ LoopOK /\ TurnOK
  BY SessionsAssumption, ClockAssumption, CallersAssumption, HttpCalls
     DEF HttpInit, Init, TypeOK, LoopOK, TurnOK, Stages, Callers, Labels
<1>2. TypeOK /\ LoopOK /\ TurnOK /\ [HttpNext]_every
        => TypeOK' /\ LoopOK' /\ TurnOK'
  <2> SUFFICES ASSUME TypeOK, LoopOK, TurnOK, [HttpNext]_every
               PROVE  TypeOK' /\ LoopOK' /\ TurnOK'
    OBVIOUS
  <2>1. CASE HttpNext
    BY <2>1, LoopStep, LoopKept, TurnKept, TypeStep
  <2>2. CASE UNCHANGED every
    <3>1. UNCHANGED vars /\ LoopOK' /\ TurnOK'
      BY <2>2 DEF every, vars, loop, LoopOK, TurnOK
    <3> QED BY <3>1, TypeStep
  <2> QED BY <2>1, <2>2
<1>3. TypeOK /\ LoopOK /\ TurnOK => HttpTypeOK
  BY DEF LoopOK, TurnOK, HttpTypeOK
<1> QED BY <1>1, <1>2, <1>3, PTL DEF HttpSpec

-----------------------------------------------------------------------------
(* Authentication                                                          *)

\* A session that was logged out never comes back, a validation is of the
\* request's token, and what it found stays in the map until it returns.
Validating ==
    /\ \A s \in loggedOut : s \notin byToken /\ username[s] # None
    /\ stage \in {"auth", "validate"} => endpoint \in Protected
    /\ stage = "validate" => sought[Http] = request.bearer /\ began[Http] <= now
    /\ pc[Http] \in {"check", "extend"} => sought[Http] \in byToken

ActInv == Validating /\ ActsAuthenticated

\* No step lets a handler of a protected endpoint act for anything else.
LEMMA ActKept ==
    ASSUME TypeOK, LoopOK, ActInv, HttpNext
    PROVE  ActInv'
<1> USE SessionsAssumption, ClockAssumption, HttpCalls
    DEF ActInv, Validating, ActsAuthenticated
<1>1. ASSUME NEW c \in Clients, Connect(c) \/ Send(c) \/ Hangup(c)
      PROVE ActInv'
  BY <1>1 DEF Connect, Send, Hangup, loop, vars
<1>2. CASE Tick /\ UNCHANGED <<client, loop>>
  BY <1>2 DEF Tick, loop, maps, calls, past, TypeOK
<1>3. CASE AcceptLoop
  <2>1. CASE Accept
    BY <2>1 DEF Accept, vars
  <2>2. ASSUME NEW r \in Requests, Read(r) PROVE ActInv'
    BY <2>2 DEF Read, LoopOK, vars
  <2>3. CASE ReadFails \/ BodyThrows \/ Write \/ WriteFails
    BY <2>3 DEF ReadFails, BodyThrows, Write, WriteFails, Throw, NextTurn, vars
  <2>4. CASE Route
    BY <2>4 DEF Route, LoopOK, vars
  <2>5. CASE Authenticate
    <3>1. CASE request.bearer = Missing
      BY <2>5, <3>1 DEF Authenticate, vars
    <3>2. CASE request.bearer # Missing
      BY <2>5, <3>2
         DEF Authenticate, ValidateToken, Goto, TypeOK, clock, maps, past
    <3> QED BY <3>1, <3>2
  <2>6. CASE Validate
    <3>1. CASE /\ Sweep(Http) \/ Purged(Http) \/ Find(Http) \/ Check(Http)
               /\ stage' = IF pc'[Http] = "idle" THEN "write" ELSE stage
      BY <2>6, <3>1
         DEF Validate, Sweep, Purged, Find, Check, Goto, TypeOK, clock, maps, past
    <3>2. CASE (\E s \in Sessions : Purge(Http, s)) /\ UNCHANGED stage
      BY <2>6, <3>2 DEF Validate, Purge, TypeOK, clock, maps, past
    <3>3. CASE Extend(Http) /\ stage' = "act"
      BY <2>6, <3>3 DEF Validate, Extend, Goto, TypeOK, clock, maps
    <3> QED BY <2>6, <3>1, <3>2, <3>3 DEF Validate
  <2>7. CASE Login
    BY <2>7 DEF Login, CreateSession, TypeOK, calls, vars, Protected
  <2>8. CASE Logout
    BY <2>8 DEF Logout, DestroySessionByToken, TypeOK, calls, vars, Protected
  <2>9. CASE Serve
    BY <2>9 DEF Serve, vars
  <2> QED
    BY <1>3, <2>1, <2>2, <2>3, <2>4, <2>5, <2>6, <2>7, <2>8, <2>9 DEF AcceptLoop
<1> QED BY <1>1, <1>2, <1>3 DEF HttpNext

\* No handler of a protected endpoint acts except for a session accepted since
\* the request came in and still there, whatever requests clients send.
THEOREM ActsCorrect == HttpSpec => []ActsAuthenticated
<1>1. HttpInit => TypeOK /\ LoopOK /\ ActInv
  BY SessionsAssumption, ClockAssumption, CallersAssumption, HttpCalls
     DEF HttpInit, Init, TypeOK, LoopOK, ActInv, Validating, ActsAuthenticated,
         Stages, Callers, Labels
<1>2. TypeOK /\ LoopOK /\ ActInv /\ [HttpNext]_every
        => TypeOK' /\ LoopOK' /\ ActInv'
  <2> SUFFICES ASSUME TypeOK, LoopOK, ActInv, [HttpNext]_every
               PROVE  TypeOK' /\ LoopOK' /\ ActInv'
    OBVIOUS
  <2>1. CASE HttpNext
    BY <2>1, LoopStep, LoopKept, ActKept, TypeStep
  <2>2. CASE UNCHANGED every
    <3>1. UNCHANGED vars /\ LoopOK' /\ ActInv'
      BY <2>2
         DEF every, vars, loop, LoopOK, ActInv, Validating, ActsAuthenticated
    <3> QED BY <3>1, TypeStep
  <2> QED BY <2>1, <2>2
<1>3. ActInv => ActsAuthenticated
  BY DEF ActInv
<1> QED BY <1>1, <1>2, <1>3, PTL DEF HttpSpec

-----------------------------------------------------------------------------
(* Routing                                                                 *)

\* The endpoint is what the router answers to the request at hand.
EndpointOfRequest ==
    endpoint # None =>
        request \in Requests /\ endpoint = HandleRequest(request.method, request.path)

\* No step keeps the endpoint of one request for another.
LEMMA EndpointKept ==
    ASSUME LoopOK, EndpointOfRequest, stage \in {"accept", "read"} => endpoint = None,
           HttpNext
    PROVE  EndpointOfRequest' /\ (stage' \in {"accept", "read"} => endpoint' = None)
<1> USE DEF EndpointOfRequest
<1>1. ASSUME NEW c \in Clients, Connect(c) \/ Send(c) \/ Hangup(c)
      PROVE UNCHANGED <<stage, request, endpoint>>
  BY <1>1 DEF Connect, Send, Hangup, loop
<1>2. CASE Tick /\ UNCHANGED <<client, loop>>
  BY <1>2 DEF loop
<1>3. CASE AcceptLoop
  <2>1. CASE Accept
    BY <2>1 DEF Accept
  <2>2. ASSUME NEW r \in Requests, Read(r)
        PROVE  endpoint' = None /\ stage' = "route"
    BY <2>2 DEF Read
  <2>3. CASE ReadFails \/ BodyThrows \/ Write \/ WriteFails
    BY <2>3 DEF ReadFails, BodyThrows, Write, WriteFails, Throw, NextTurn
  <2>4. CASE Route
    <3>1. request \in Requests /\ request' = request
      BY <2>4 DEF Route, LoopOK
    <3>2. endpoint' = HandleRequest(request.method, request.path)
      BY <2>4, <3>1 DEF Route, Endpoint
    <3>3. stage' \notin {"accept", "read"}
      BY <2>4 DEF Route
    <3> QED BY <3>1, <3>2, <3>3
  <2>5. CASE Authenticate \/ Validate \/ Login \/ Logout \/ Serve
    BY <2>5 DEF Authenticate, Validate, Login, Logout, Serve
  <2> QED BY <1>3, <2>1, <2>2, <2>3, <2>4, <2>5 DEF AcceptLoop
<1> QED BY <1>1, <1>2, <1>3 DEF HttpNext

\* Whatever methods and paths clients send, a request reaches the one handler
\* whose documented endpoint it is an instance of.
THEOREM RoutedCorrect == HttpSpec => []RoutedRight
<1> DEFINE Quiet == stage \in {"accept", "read"} => endpoint = None
<1>1. HttpInit => TypeOK /\ LoopOK /\ EndpointOfRequest /\ Quiet
  BY SessionsAssumption, ClockAssumption, CallersAssumption, HttpCalls
     DEF HttpInit, Init, TypeOK, LoopOK, EndpointOfRequest, Stages, Callers, Labels
<1>2. TypeOK /\ LoopOK /\ EndpointOfRequest /\ Quiet /\ [HttpNext]_every
        => TypeOK' /\ LoopOK' /\ EndpointOfRequest' /\ Quiet'
  <2> SUFFICES ASSUME TypeOK, LoopOK, EndpointOfRequest, Quiet, [HttpNext]_every
               PROVE  TypeOK' /\ LoopOK' /\ EndpointOfRequest' /\ Quiet'
    OBVIOUS
  <2>1. CASE HttpNext
    BY <2>1, LoopStep, LoopKept, EndpointKept, TypeStep
  <2>2. CASE UNCHANGED every
    <3>1. UNCHANGED vars /\ LoopOK' /\ EndpointOfRequest' /\ Quiet'
      BY <2>2 DEF every, vars, loop, LoopOK, EndpointOfRequest
    <3> QED BY <3>1, TypeStep
  <2> QED BY <2>1, <2>2
<1>3. EndpointOfRequest => RoutedRight
  <2> SUFFICES ASSUME EndpointOfRequest, endpoint # None PROVE RoutedRight
    BY DEF RoutedRight
  <2>1. request \in Requests /\ endpoint = HandleRequest(request.method, request.path)
    BY DEF EndpointOfRequest
  <2>2. request.path \in Seq(STRING)
    BY <2>1, ClientsAssumption
  <2> DEFINE method == request.method
             path == request.path
             fitting == {i \in DOMAIN Routes :
                           /\ Routes[i].method = method
                           /\ Fits(Routes[i].segments, SplitPath(StripQuery(path)))}
  <2>3. IF endpoint \in Errors THEN fitting = {}
        ELSE {Routes[i].handler : i \in fitting} = {endpoint}
    <3> HIDE DEF method, path
    <3>1. path \in Seq(STRING)
      BY <2>2 DEF path
    <3>2. IF HandleRequest(method, path) \in Errors THEN fitting = {}
          ELSE {Routes[i].handler : i \in fitting} = {HandleRequest(method, path)}
      BY <3>1, HandledRight
    <3>3. endpoint = HandleRequest(method, path)
      BY <2>1 DEF method, path
    <3> QED BY <3>2, <3>3
  <2> QED BY <2>3 DEF RoutedRight
<1> QED BY <1>1, <1>2, <1>3, PTL DEF HttpSpec
=============================================================================
