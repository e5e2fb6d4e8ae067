------------------------------ MODULE Sessions ------------------------------
(***************************************************************************)
(* SessionManager: the two maps over one set of sessions, and the sliding  *)
(* expiration that ValidateToken applies in several steps, each of which   *)
(* reads the wall clock again.  The HTTP thread calls it for every request *)
(* that AuthMiddleware guards, io threads for RealtimeAuthService; no lock *)
(* protects it.  A session stands for its SessionID and its token, which   *)
(* are drawn together and never change.                                    *)
(***************************************************************************)
EXTENDS Integers

CONSTANTS
    Sessions,    \* the sessions that can ever be created
    Usernames,   \* the keys of validCredentials
    None,
    Duration,    \* SESSION_DURATION_HOURS, in ticks of the clock
    MaxTime,     \* bound on the clock
    IoThreads    \* threads that run RealtimeServer::ioContext

ASSUME SessionsAssumption == None \notin Sessions \union Usernames
ASSUME ClockAssumption == Duration \in Nat /\ MaxTime \in Nat
ASSUME CallersAssumption == IoThreads \in Nat

Http == 0
Callers == 0 .. IoThreads

Labels == {"idle", "sweep", "purge", "find", "check", "extend"}

VARIABLES
    now,         \* system_clock::now()
    username,    \* Session::username, None while the session is not created
    expiresAt,   \* Session::expiresAt
    byId,        \* the sessions in sessionsById
    byToken,     \* the sessions in sessionsByToken
    pc,          \* where each caller is in ValidateToken
    sought,      \* the session whose token it was given, None for a bad token
    doomed,      \* ExpiredSessions, the list its cleanup still has to destroy
    began,       \* history: when the call began
    lastUse,     \* history: when the session was last created or accepted
    loggedOut,   \* history: the sessions ended by a logout
    lapsed       \* history: the sessions whose expiration ever went by

clock == <<now>>
maps  == <<byId, byToken>>
calls == <<pc, sought, doomed, began>>
past  == <<lastUse, loggedOut, lapsed>>
vars  == <<now, username, expiresAt, byId, byToken, pc, sought, doomed, began,
           lastUse, loggedOut, lapsed>>

\* Expired at the very moment it expires.
ExpiredEarly(s) == now >= expiresAt[s]

\* Expired one tick too late.
ExpiredLate(s) == now > expiresAt[s] + 1

IsExpired(s) == now > expiresAt[s]

Goto(t, label) == pc' = [pc EXCEPT ![t] = label]

-----------------------------------------------------------------------------
(* The clock, and the operations that are one step                         *)

Tick ==
    /\ now < MaxTime
    /\ now' = now + 1
    /\ lapsed' = lapsed \union {s \in Sessions : username[s] # None /\ expiresAt[s] < now'}
    /\ UNCHANGED <<username, expiresAt, maps, calls, lastUse, loggedOut>>

\* SessionRoutes::Login with good credentials; a user may log in repeatedly.
CreateSession(s, u) ==
    /\ pc[Http] = "idle"
    /\ username[s] = None
    /\ username' = [username EXCEPT ![s] = u]
    /\ expiresAt' = [expiresAt EXCEPT ![s] = now + Duration]
    /\ byId' = byId \union {s}
    /\ byToken' = byToken \union {s}
    /\ lastUse' = [lastUse EXCEPT ![s] = now]
    /\ UNCHANGED <<now, calls, loggedOut, lapsed>>

\* Removes the token only.
ForgetToken(s) ==
    /\ pc[Http] = "idle"
    /\ s \in byToken
    /\ byToken' = byToken \ {s}
    /\ loggedOut' = loggedOut \union {s}
    /\ UNCHANGED <<now, username, expiresAt, byId, calls, lastUse, lapsed>>

\* SessionRoutes::Logout.
DestroySessionByToken(s) ==
    /\ pc[Http] = "idle"
    /\ s \in byToken
    /\ byId' = byId \ {s}
    /\ byToken' = byToken \ {s}
    /\ loggedOut' = loggedOut \union {s}
    /\ UNCHANGED <<now, username, expiresAt, calls, lastUse, lapsed>>

-----------------------------------------------------------------------------
(* ValidateToken                                                           *)

\* A request or an Authenticate message arrives with the token of s, or with
\* a token no session has.
ValidateToken(t, s) ==
    /\ pc[t] = "idle"
    /\ s # None => username[s] # None
    /\ Goto(t, "sweep")
    /\ sought' = [sought EXCEPT ![t] = s]
    /\ began' = [began EXCEPT ![t] = now]
    /\ UNCHANGED <<clock, username, expiresAt, maps, doomed, past>>

\* The first loop of CleanupExpiredSessions.
Sweep(t) ==
    /\ pc[t] = "sweep"
    /\ doomed' = [doomed EXCEPT ![t] = {s \in byId : IsExpired(s)}]
    /\ Goto(t, "purge")
    /\ UNCHANGED <<clock, username, expiresAt, maps, sought, began, past>>

\* The sweep stops after the first session it destroys.
PurgeOnce(t, s) ==
    /\ pc[t] = "purge"
    /\ s \in doomed[t]
    /\ doomed' = [doomed EXCEPT ![t] = {}]
    /\ byId' = byId \ {s}
    /\ byToken' = byToken \ {s}
    /\ UNCHANGED <<clock, username, expiresAt, pc, sought, began, past>>

\* One call of DestroySession in the second loop: the session is not looked
\* at again.
Purge(t, s) ==
    /\ pc[t] = "purge"
    /\ s \in doomed[t]
    /\ doomed' = [doomed EXCEPT ![t] = @ \ {s}]
    /\ IF s \in byId
         THEN byId' = byId \ {s} /\ byToken' = byToken \ {s}
         ELSE UNCHANGED maps
    /\ UNCHANGED <<clock, username, expiresAt, pc, sought, began, past>>

Purged(t) ==
    /\ pc[t] = "purge"
    /\ doomed[t] = {}
    /\ Goto(t, "find")
    /\ UNCHANGED <<clock, username, expiresAt, maps, sought, doomed, began, past>>

\* The result of the find is not compared with end().
FindUnchecked(t) ==
    /\ pc[t] = "find"
    /\ Goto(t, "check")
    /\ UNCHANGED <<clock, username, expiresAt, maps, sought, doomed, began, past>>

Find(t) ==
    /\ pc[t] = "find"
    /\ Goto(t, IF sought[t] \in byToken THEN "check" ELSE "idle")
    /\ UNCHANGED <<clock, username, expiresAt, maps, sought, doomed, began, past>>

Check(t) ==
    /\ pc[t] = "check"
    /\ Goto(t, IF IsExpired(sought[t]) THEN "idle" ELSE "extend")
    /\ UNCHANGED <<clock, username, expiresAt, maps, sought, doomed, began, past>>

\* The session is handed out without a new hour.
AcceptUnextended(t) ==
    /\ pc[t] = "extend"
    /\ lastUse' = [lastUse EXCEPT ![sought[t]] = now]
    /\ Goto(t, "idle")
    /\ UNCHANGED <<clock, username, expiresAt, maps, sought, doomed, began, loggedOut,
                   lapsed>>

\* ExtendExpiration; the session is handed to the caller.
Extend(t) ==
    /\ pc[t] = "extend"
    /\ expiresAt' = [expiresAt EXCEPT ![sought[t]] = now + Duration]
    /\ lastUse' = [lastUse EXCEPT ![sought[t]] = now]
    /\ Goto(t, "idle")
    /\ UNCHANGED <<clock, username, maps, sought, doomed, began, loggedOut,
                   lapsed>>

-----------------------------------------------------------------------------
Init ==
    /\ now = 0
    /\ username = [s \in Sessions |-> None]
    /\ expiresAt = [s \in Sessions |-> 0]
    /\ byId = {}
    /\ byToken = {}
    /\ pc = [t \in Callers |-> "idle"]
    /\ sought = [t \in Callers |-> None]
    /\ doomed = [t \in Callers |-> {}]
    /\ began = [t \in Callers |-> 0]
    /\ lastUse = [s \in Sessions |-> 0]
    /\ loggedOut = {}
    /\ lapsed = {}

Call(t) ==
    \/ \E s \in Sessions \union {None} : ValidateToken(t, s)
    \/ Sweep(t)
    \/ \E s \in Sessions : Purge(t, s)
    \/ Purged(t)
    \/ Find(t)
    \/ Check(t)
    \/ Extend(t)

Next ==
    \/ Tick
    \/ \E s \in Sessions, u \in Usernames : CreateSession(s, u)
    \/ \E s \in Sessions : DestroySessionByToken(s)
    \/ \E t \in Callers : Call(t)

Spec == Init /\ [][Next]_vars

-----------------------------------------------------------------------------
(* Properties                                                              *)

\* Every variable has its type; only created sessions are in the maps, and a
\* caller that found a session looks at a created one.
TypeOK ==
    /\ now \in 0 .. MaxTime
    /\ username \in [Sessions -> Usernames \union {None}]
    /\ expiresAt \in [Sessions -> Nat]
    /\ byId \subseteq {s \in Sessions : username[s] # None}
    /\ byToken \subseteq {s \in Sessions : username[s] # None}
    /\ pc \in [Callers -> Labels]
    /\ sought \in [Callers -> Sessions \union {None}]
    /\ doomed \in [Callers -> SUBSET Sessions]
    /\ began \in [Callers -> 0 .. MaxTime]
    /\ lastUse \in [Sessions -> 0 .. MaxTime]
    /\ loggedOut \subseteq Sessions
    /\ lapsed \subseteq Sessions
    /\ \A t \in Callers : pc[t] \in {"check", "extend"} =>
           sought[t] \in Sessions /\ username[sought[t]] # None

\* A session that can be fetched can be used and the other way round,
\* whichever of logout, login and cleanup changed the maps last.
MapsAgree == byId = byToken

\* README, "Sliding session expiration": a session that was used or created
\* within the last hour, and not logged out, still validates.
SlidingExpiration ==
    \A s \in Sessions :
        (/\ username[s] # None
         /\ s \notin loggedOut
         /\ now - lastUse[s] <= Duration) => s \in byToken

\* README, "Sliding session expiration", with io threads that validate too: a
\* session whose hour never went by without its being extended, and that was
\* not logged out, still validates, whoever sweeps and extends meanwhile.
ContinuousUse ==
    \A s \in Sessions :
        (username[s] # None /\ s \notin loggedOut \union lapsed) => s \in byToken

\* A session that had expired when a request came in is not revived by that
\* request, however the clock advances between its steps.
NoRevival ==
    [][\A t \in Callers : Extend(t) => expiresAt[sought[t]] >= began[t]]_vars

\* When a validation looks for its token, no session that had expired before
\* the call began is left in either map.
SweptClean ==
    \A t \in Callers : pc[t] = "find" =>
        \A s \in byId \union byToken : expiresAt[s] >= began[t]
=============================================================================
