------------------------------ MODULE MCHttp ------------------------------
(* Values for Http: two clients, and requests for every kind of handler,    *)
(* with doubled and trailing slashes, a query, a value that is a keyword of *)
(* another route, too few and too many segments, and an unknown method.     *)
EXTENDS Http, TLC

CONSTANTS s1, s2, ann, alice, carol

MCSessions == {s1, s2}
MCUsernames == {ann}
MCClients == {alice, carol}

Ask(method, path, bearer, body) ==
    [method |-> method, path |-> path, bearer |-> bearer, body |-> body]

Bearers == MCSessions \union {None, Missing}

MCRequests ==
    {Ask("POST", <<"/", "session", "/", "login">>, Missing, body) :
         body \in {"good", "bad", "wrong"}}
    \union {Ask("POST", <<"/", "session", "/", "logout">>, s, "good") :
         s \in MCSessions \union {Missing}}
    \union {Ask("POST", <<"/", "/", "lobby", "/", "create", "?", "x">>, s, "good") :
         s \in Bearers}
    \union {Ask("GET", <<"/", "lobby", "/", "fetch", "/", "create">>, s, "good") :
         s \in {s1}}
    \union {Ask(m, <<"/", "lobby", "/", "list", "/">>, Missing, "good") :
         m \in {"GET", "PUT"}}
    \union {Ask("POST", <<"/", "lobby", "/", "kick", "/", "L1">>, s1, "good"),
            Ask("GET", <<"/", "lobby", "/", "list", "/", "L1">>, s1, "good")}
=============================================================================
