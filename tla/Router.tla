------------------------------- MODULE Router -------------------------------
(***************************************************************************)
(* Router: the table that Server::Server fills, and the choice of an entry *)
(* for a request.  A path is a sequence of tokens: "/", "?", and the names *)
(* between them.                                                           *)
(***************************************************************************)
EXTENDS Naturals, Sequences

\* The segments with pattern[0] == ':'.
Parameters == {":LobbyID", ":SessionID", ":TargetUsername"}

IsParameter(piece) == piece \in Parameters

\* pieces[n] is what the loop over getline has pushed after n tokens.  Empty
\* pieces are dropped: doubled, leading and trailing slashes vanish.
SplitPath(path) ==
    LET pieces[n \in 0 .. Len(path)] ==
            IF n = 0 THEN <<>>
            ELSE IF path[n] = "/" THEN pieces[n - 1]
            ELSE Append(pieces[n - 1], path[n])
    IN  pieces[Len(path)]

RegisterRoute(table, method, path, handler) ==
    Append(table, [method |-> method, segments |-> SplitPath(path),
                   handler |-> handler])

\* Ignores what follows the pattern.
TryMatchPrefix(entry, method, segments) ==
    /\ entry.method = method
    /\ Len(entry.segments) <= Len(segments)
    /\ \A i \in DOMAIN entry.segments :
           IsParameter(entry.segments[i]) \/ entry.segments[i] = segments[i]

TryMatch(entry, method, segments) ==
    /\ entry.method = method
    /\ Len(entry.segments) = Len(segments)
    /\ \A i \in DOMAIN entry.segments :
           IsParameter(entry.segments[i]) \/ entry.segments[i] = segments[i]

-----------------------------------------------------------------------------
(* Server::Server registers these, in this order                           *)

Routes ==
    LET t1  == RegisterRoute(<<>>, "POST", <<"/", "lobby", "/", "create">>, "CreateLobby")
        t2  == RegisterRoute(t1, "GET", <<"/", "lobby", "/", "fetch", "/", ":LobbyID">>, "FetchLobby")
        t3  == RegisterRoute(t2, "POST", <<"/", "session", "/", "login">>, "Login")
        t4  == RegisterRoute(t3, "GET", <<"/", "session", "/", "fetch", "/", ":SessionID">>, "FetchSession")
        t5  == RegisterRoute(t4, "POST", <<"/", "session", "/", "logout">>, "Logout")
        t6  == RegisterRoute(t5, "POST", <<"/", "lobby", "/", "join", "/", ":LobbyID">>, "JoinLobby")
        t7  == RegisterRoute(t6, "POST", <<"/", "lobby", "/", "leave", "/", ":LobbyID">>, "LeaveLobby")
        t8  == RegisterRoute(t7, "GET", <<"/", "lobby", "/", "list">>, "ListLobbies")
        t9  == RegisterRoute(t8, "POST", <<"/", "lobby", "/", "destroy", "/", ":LobbyID">>, "DestroyLobby")
    IN  RegisterRoute(t9, "POST",
            <<"/", "lobby", "/", "kick", "/", ":LobbyID", "/", ":TargetUsername">>, "KickPlayer")

Errors == {"NotFound", "MethodNotAllowed"}

Handlers == {Routes[i].handler : i \in DOMAIN Routes}

\* The query is cut off before the path is split.
StripQuery(path) ==
    IF \E i \in DOMAIN path : path[i] = "?"
      THEN SubSeq(path, 1, (CHOOSE i \in DOMAIN path :
                               /\ path[i] = "?"
                               /\ \A j \in 1 .. i - 1 : path[j] # "?") - 1)
      ELSE path

\* Router::HandleRequest: the handler of the first entry that matches.
HandleRequest(method, path) ==
    LET segments == SplitPath(StripQuery(path))
        matching == {i \in DOMAIN Routes : TryMatch(Routes[i], method, segments)}
    IN  IF method \notin {"GET", "POST"} THEN "MethodNotAllowed"
        ELSE IF matching = {} THEN "NotFound"
        ELSE Routes[CHOOSE i \in matching : \A j \in matching : i <= j].handler

-----------------------------------------------------------------------------
(* What a match is meant to be: the segments are the pattern with a value  *)
(* put in for every parameter.                                             *)

Instance(pattern, values) ==
    [i \in DOMAIN pattern |->
        IF IsParameter(pattern[i]) THEN values[pattern[i]] ELSE pattern[i]]

Fits(pattern, segments) ==
    \E values \in [{piece \in Parameters : \E i \in DOMAIN pattern : pattern[i] = piece}
                      -> {segments[i] : i \in DOMAIN segments}] :
        segments = Instance(pattern, values)
=============================================================================
