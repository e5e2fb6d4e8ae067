------------------------------ MODULE Lobbies ------------------------------
(***************************************************************************)
(* LobbyManager and Lobby, as two threads use them without a lock: the     *)
(* HTTP thread, which serves one request of LobbyRoutes at a time, and the *)
(* monitor thread of PresenceService, whose timeout callback calls         *)
(* ServerEventDispatcher::NotifyPlayerTimedOut.  A step of a thread is one *)
(* call on a Lobby or on the registry.  The session half of a request      *)
(* (AuthMiddleware) is module Sessions: here any user may send any request.*)
(***************************************************************************)
EXTENDS Integers, FiniteSets

CONSTANTS
    Users,          \* usernames
    LobbyIds,       \* the identifiers random_generator may draw, each once
    None,           \* no user, no lobby
    RequestedMax,   \* values of "maxPlayers" in the body of a create request
    IntModulus,     \* 2^32: the width of Lobby::maxPlayers
    SizeModulus,    \* 2^64: the width of members.size()
    IoThreads       \* threads that run RealtimeServer::ioContext

ASSUME NoneAssumption == None \notin Users \union LobbyIds
ASSUME WidthAssumption == /\ IntModulus \in Nat \ {0}
                          /\ SizeModulus \in Nat \ {0}
                          /\ RequestedMax \subseteq Int
ASSUME IoThreadsAssumption == IoThreads \in Nat

Threads == {"http", "monitor"}

Labels == {"idle", "join", "add", "notifyJoined", "leave", "kick", "copy", "clear",
           "erase", "notifyDestroyed", "remove", "notifyRemoved"}

VARIABLES
    host,        \* Lobby::hostId, None while the identifier is unused
    maxPlayers,  \* Lobby::maxPlayers
    members,     \* Lobby::members
    lobbies,     \* the keys of LobbyManager::lobbies
    pc,          \* the next call of each thread
    lobby,       \* the Lobby a thread holds a shared_ptr to
    member,      \* the user the thread's request or timeout is about
    recipients,  \* the copy of members a thread took before a teardown
    owed,        \* history: users who lost a seat to a request, or with the
                 \* whole lobby, and have not been told so yet
    uninformed,  \* history: members not sent LobbyUpdated since somebody
                 \* joined or went
    announced    \* history: lobbies whose LobbyDestroyed event was sent

shared == <<host, maxPlayers, members, lobbies>>
local  == <<pc, lobby, member, recipients>>
history == <<owed, uninformed, announced>>
vars   == <<host, maxPlayers, members, lobbies, pc, lobby, member,
            recipients, owed, uninformed, announced>>

-----------------------------------------------------------------------------
(* The object Lobby                                                        *)

\* int MaxPlayers = Body["maxPlayers"].as_int64(): the low 32 bits, signed.
Narrow(n) ==
    LET low == n % IntModulus
    IN  IF 2 * low >= IntModulus THEN low - IntModulus ELSE low

\* members.size() >= maxPlayers converts the int to the unsigned size type.
Capacity(max) == max % SizeModulus

IsFull(crowd, max) == Cardinality(crowd) >= Capacity(max)

\* The lobby's size is not looked at.
AddRegardless(crowd, max, u) == crowd \union {u}

\* Lobby::AddMember returns false, and adds nobody, when full or a member.
AddMember(crowd, max, u) ==
    IF IsFull(crowd, max) \/ u \in crowd THEN crowd ELSE crowd \union {u}

-----------------------------------------------------------------------------
(* Moves of one thread through its handler                                 *)

Goto(t, label) ==
    /\ pc' = [pc EXCEPT ![t] = label]
    /\ UNCHANGED <<lobby, member, recipients>>

Return(t) ==
    /\ pc' = [pc EXCEPT ![t] = "idle"]
    /\ lobby' = [lobby EXCEPT ![t] = None]
    /\ member' = [member EXCEPT ![t] = None]
    /\ recipients' = [recipients EXCEPT ![t] = {}]

\* A null result of the fetch is not looked at.
EnterUnfetched(t, label, l, u) ==
    /\ pc[t] = "idle"
    /\ pc' = [pc EXCEPT ![t] = label]
    /\ lobby' = [lobby EXCEPT ![t] = l]
    /\ member' = [member EXCEPT ![t] = u]
    /\ UNCHANGED <<recipients, shared, history>>

\* A thread enters a handler with lobby l fetched from the registry.
Enter(t, label, l, u) ==
    /\ pc[t] = "idle"
    /\ l \in lobbies
    /\ pc' = [pc EXCEPT ![t] = label]
    /\ lobby' = [lobby EXCEPT ![t] = l]
    /\ member' = [member EXCEPT ![t] = u]
    /\ UNCHANGED <<recipients, shared, history>>

-----------------------------------------------------------------------------
(* Requests: LobbyRoutes on the HTTP thread                                *)

\* The new Lobby is private until it is registered; whether the host could
\* be added is not looked at.
CreateLobby(u, l, n) ==
    /\ pc["http"] = "idle"
    /\ host[l] = None
    /\ host' = [host EXCEPT ![l] = u]
    /\ maxPlayers' = [maxPlayers EXCEPT ![l] = Narrow(n)]
    /\ members' = [members EXCEPT ![l] = AddMember({}, Narrow(n), u)]
    /\ lobbies' = lobbies \union {l}
    /\ UNCHANGED <<local, history>>

JoinLobby(u, l) == Enter("http", "join", l, u)

JoinCheck ==
    LET l == lobby["http"] IN
    /\ pc["http"] = "join"
    /\ IF \/ member["http"] \in members[l]
          \/ IsFull(members[l], maxPlayers[l])
         THEN Return("http")
         ELSE Goto("http", "add")
    /\ UNCHANGED <<shared, history>>

JoinAdd ==
    LET l     == lobby["http"]
        crowd == AddMember(members[l], maxPlayers[l], member["http"])
    IN
    /\ pc["http"] = "add"
    /\ members' = [members EXCEPT ![l] = crowd]
    /\ IF crowd = members[l]
         THEN Return("http") /\ UNCHANGED uninformed
         ELSE /\ Goto("http", "notifyJoined")
              /\ uninformed' = uninformed \union ({l} \X crowd)
    /\ UNCHANGED <<host, maxPlayers, lobbies, owed, announced>>

\* NotifyLobbyJoined: LobbyUpdated to the members there are by now.
NotifyJoined ==
    LET l == lobby["http"] IN
    /\ pc["http"] = "notifyJoined"
    /\ uninformed' = uninformed \ ({l} \X members[l])
    /\ Return("http")
    /\ UNCHANGED <<shared, owed, announced>>

LeaveLobby(u, l) == Enter("http", "leave", l, u)

\* A host that leaves is treated like any other member.
LeaveCheckForgetsHost ==
    /\ pc["http"] = "leave"
    /\ IF member["http"] \in members[lobby["http"]]
         THEN Goto("http", "remove")
         ELSE Return("http")
    /\ UNCHANGED <<shared, history>>

LeaveCheck ==
    LET l == lobby["http"]
        u == member["http"]
    IN
    /\ pc["http"] = "leave"
    /\ IF u \notin members[l] THEN Return("http")
       ELSE Goto("http", IF u = host[l] THEN "copy" ELSE "remove")
    /\ UNCHANGED <<shared, history>>

\* LobbyRoutes::DestroyLobby: hostId never changes, so the fetch and the
\* host check are one step.
DestroyRequest(u, l) ==
    /\ host[l] = u
    /\ Enter("http", "copy", l, u)

\* The host may name itself as the target.
KickAnyone(u, target, l) ==
    /\ host[l] = u
    /\ Enter("http", "kick", l, target)

KickPlayer(u, target, l) ==
    /\ host[l] = u
    /\ target # u
    /\ Enter("http", "kick", l, target)

KickCheck ==
    /\ pc["http"] = "kick"
    /\ IF member["http"] \in members[lobby["http"]]
         THEN Goto("http", "remove")
         ELSE Return("http")
    /\ UNCHANGED <<shared, history>>

\* FetchLobby, ListLobbies, and every request answered with an error before
\* the first change: nothing changes, and the thread waits for the next one.
ReadRequest == pc["http"] = "idle" /\ UNCHANGED vars

-----------------------------------------------------------------------------
(* Timeout: NotifyPlayerTimedOut on the presence monitor thread            *)

\* FetchLobbyByMember returns the first hit in hash order: any one of the
\* lobbies u is in.  Presence knows a user only if an io thread bound it.
TimeOut(u) ==
    /\ IoThreads > 0
    /\ \E l \in lobbies : u \in members[l] /\ Enter("monitor", "copy", l, u)

-----------------------------------------------------------------------------
(* Calls both threads make                                                 *)

\* A host that times out is treated like any other member.
CopyForgetsHost(t) ==
    /\ pc[t] = "copy"
    /\ pc' = [pc EXCEPT ![t] = "remove"]
    /\ recipients' = [recipients EXCEPT ![t] = members[lobby[t]]]
    /\ UNCHANGED <<lobby, member, shared, history>>

\* The copy of the members, then the branch on IsHost.  The HTTP thread only
\* comes here for the host.
CopyMembers(t) ==
    LET l == lobby[t] IN
    /\ pc[t] = "copy"
    /\ pc' = [pc EXCEPT ![t] = IF member[t] = host[l] THEN "clear" ELSE "remove"]
    /\ recipients' = [recipients EXCEPT ![t] = members[l]]
    /\ UNCHANGED <<lobby, member, shared, history>>

ClearMembers(t) ==
    LET l == lobby[t] IN
    /\ pc[t] = "clear"
    /\ members' = [members EXCEPT ![l] = {}]
    /\ owed' = owed \union ({l} \X members[l])
    /\ uninformed' = uninformed \ ({l} \X Users)
    /\ Goto(t, "erase")
    /\ UNCHANGED <<host, maxPlayers, lobbies, announced>>

\* Does not look whether the lobby is still registered.
DestroyBlindly(t) ==
    /\ pc[t] = "erase"
    /\ lobbies' = lobbies \ {lobby[t]}
    /\ owed' = owed \union ({lobby[t]} \X members[lobby[t]])
    /\ Goto(t, "notifyDestroyed")
    /\ UNCHANGED <<host, maxPlayers, members, uninformed, announced>>

\* Of two threads that tear one lobby down, the one that erases it goes on
\* to announce it; the other gives up.
DestroyLobby(t) ==
    LET l == lobby[t] IN
    /\ pc[t] = "erase"
    /\ IF l \in lobbies
         THEN /\ lobbies' = lobbies \ {l}
              /\ owed' = owed \union ({l} \X members[l])
              /\ Goto(t, "notifyDestroyed")
         ELSE /\ Return(t)
              /\ UNCHANGED <<lobbies, owed>>
    /\ UNCHANGED <<host, maxPlayers, members, uninformed, announced>>

\* Announces to the members the lobby has now, not to those it had.
NotifyPresentMembers(t) ==
    /\ pc[t] = "notifyDestroyed"
    /\ owed' = owed \ ({lobby[t]} \X members[lobby[t]])
    /\ announced' = announced \union {lobby[t]}
    /\ Return(t)
    /\ UNCHANGED <<shared, uninformed>>

NotifyDestroyed(t) ==
    /\ pc[t] = "notifyDestroyed"
    /\ owed' = owed \ ({lobby[t]} \X recipients[t])
    /\ announced' = announced \union {lobby[t]}
    /\ Return(t)
    /\ UNCHANGED <<shared, uninformed>>

RemoveMember(t) ==
    LET l == lobby[t]
        u == member[t]
    IN
    /\ pc[t] = "remove"
    /\ IF u \in members[l]
         THEN /\ members' = [members EXCEPT ![l] = @ \ {u}]
              /\ owed' = IF t = "http" THEN owed \union {<<l, u>>} ELSE owed
              /\ uninformed' = (uninformed \union ({l} \X members[l])) \ {<<l, u>>}
              /\ Goto(t, "notifyRemoved")
         ELSE /\ Return(t)
              /\ UNCHANGED <<members, owed, uninformed>>
    /\ UNCHANGED <<host, maxPlayers, lobbies, announced>>

\* A timeout sends LobbyUpdated to the copy it took before the removal, as it
\* does for a host.
NotifyCopied(t) ==
    LET l == lobby[t] IN
    /\ pc[t] = "notifyRemoved"
    /\ owed' = owed \ {<<l, member[t]>>}
    /\ uninformed' = uninformed \ ({l} \X IF t = "http" THEN members[l] ELSE recipients[t])
    /\ Return(t)
    /\ UNCHANGED <<shared, announced>>

\* NotifyLobbyLeft and NotifyPlayerKicked send to the user that went, and
\* LobbyUpdated to the members there are by now.  A timeout sends
\* PlayerTimedOut and LobbyUpdated to those members only: the user it removed
\* is not among them any more, and is told by nobody.
NotifyRemoved(t) ==
    LET l == lobby[t] IN
    /\ pc[t] = "notifyRemoved"
    /\ owed' = IF t = "http" THEN owed \ {<<l, member[t]>>} ELSE owed
    /\ uninformed' = uninformed \ ({l} \X members[l])
    /\ Return(t)
    /\ UNCHANGED <<shared, announced>>

-----------------------------------------------------------------------------
Init ==
    /\ host = [l \in LobbyIds |-> None]
    /\ maxPlayers = [l \in LobbyIds |-> 0]
    /\ members = [l \in LobbyIds |-> {}]
    /\ lobbies = {}
    /\ pc = [t \in Threads |-> "idle"]
    /\ lobby = [t \in Threads |-> None]
    /\ member = [t \in Threads |-> None]
    /\ recipients = [t \in Threads |-> {}]
    /\ owed = {}
    /\ uninformed = {}
    /\ announced = {}

Request(u, l) ==
    \/ \E n \in RequestedMax : CreateLobby(u, l, n)
    \/ JoinLobby(u, l)
    \/ LeaveLobby(u, l)
    \/ DestroyRequest(u, l)
    \/ \E target \in Users : KickPlayer(u, target, l)

\* The calls of a handler that has started.
Step(t) ==
    \/ CopyMembers(t)
    \/ ClearMembers(t)
    \/ DestroyLobby(t)
    \/ NotifyDestroyed(t)
    \/ RemoveMember(t)
    \/ NotifyRemoved(t)

HttpStep ==
    JoinCheck \/ JoinAdd \/ NotifyJoined \/ LeaveCheck \/ KickCheck \/ Step("http")

MonitorStep == Step("monitor")

Next ==
    \/ \E u \in Users, l \in LobbyIds : Request(u, l)
    \/ ReadRequest
    \/ \E u \in Users : TimeOut(u)
    \/ HttpStep
    \/ MonitorStep

Spec == Init /\ [][Next]_vars

\* Neither handler waits for anything, so a thread that has started one runs
\* it to its end.  That a request or a timeout comes is not assumed.
FairSpec == Spec /\ WF_vars(HttpStep) /\ WF_vars(MonitorStep)

-----------------------------------------------------------------------------
(* The contract this implements while only the HTTP thread touches lobbies. *)
(* Clearing the members is the step that closes a lobby.                   *)

TearingDown(l) == \E t \in Threads : lobby[t] = l /\ pc[t] = "erase"

RoomOf(l) ==
    IF host[l] = None THEN "unused"
    ELSE IF l \in lobbies /\ ~ TearingDown(l) THEN "open" ELSE "closed"

Contract == INSTANCE LobbyContract WITH
    room <- [l \in LobbyIds |-> RoomOf(l)],
    owner <- host,
    limit <- [l \in LobbyIds |-> Capacity(maxPlayers[l])],
    roster <- members,
    Limits <- {Capacity(Narrow(n)) : n \in RequestedMax}

\* Clients of a server without a realtime thread see what the contract
\* promises, through every call a handler makes.
ContractKept == Contract!Spec

\* The people inside that the contract speaks of.  With timeouts a user may
\* still be added to a lobby that was closed after the user fetched it.
Roster(l) == IF RoomOf(l) = "open" THEN members[l] ELSE {}

OpenContract == INSTANCE LobbyContract WITH
    room <- [l \in LobbyIds |-> RoomOf(l)],
    owner <- host,
    limit <- [l \in LobbyIds |-> Capacity(maxPlayers[l])],
    roster <- [l \in LobbyIds |-> Roster(l)],
    Limits <- {Capacity(Narrow(n)) : n \in RequestedMax}

\* Whatever races with whatever, a lobby keeps the contract from its opening
\* until it is closed, and is then closed for good.
OpenContractKept == OpenContract!Spec

-----------------------------------------------------------------------------
(* Properties                                                              *)

\* Every variable has its type; a thread inside a handler holds a lobby that
\* was created and a user.
TypeOK ==
    /\ host \in [LobbyIds -> Users \union {None}]
    /\ maxPlayers \in [LobbyIds -> Int]
    /\ members \in [LobbyIds -> SUBSET Users]
    /\ lobbies \subseteq {l \in LobbyIds : host[l] # None}
    /\ pc \in [Threads -> Labels]
    /\ lobby \in [Threads -> LobbyIds \union {None}]
    /\ member \in [Threads -> Users \union {None}]
    /\ recipients \in [Threads -> SUBSET Users]
    /\ owed \subseteq LobbyIds \X Users
    /\ uninformed \subseteq LobbyIds \X Users
    /\ announced \subseteq LobbyIds
    /\ \A t \in Threads : pc[t] # "idle" =>
           lobby[t] \in LobbyIds /\ host[lobby[t]] # None /\ member[t] \in Users

\* No interleaving of joins with leaves, kicks and timeouts ever seats more
\* members than the comparison in IsFull admits.
CapacityRespected ==
    \A l \in LobbyIds : Cardinality(members[l]) <= Capacity(maxPlayers[l])

\* The host of a registered lobby is one of its members, unless the lobby
\* holds nobody at all or a thread is between clearing and erasing it: the
\* host can be neither kicked, nor timed out or let go as a mere member.
HostedOrGone ==
    \A l \in lobbies :
        \/ host[l] \in members[l]
        \/ Capacity(maxPlayers[l]) = 0
        \/ TearingDown(l)

\* However the host's own request races with the host's timeout, every lobby
\* that was erased is announced as destroyed or about to be, and never twice.
\* To whom is another matter: to the copy the winner took, which is empty when
\* the other thread had cleared the members before.
DestroyedAnnouncedOnce ==
    /\ \A t \in Threads : pc[t] = "notifyDestroyed" =>
           /\ lobby[t] \notin lobbies \union announced
           /\ \A s \in Threads \ {t} :
                  ~ (pc[s] = "notifyDestroyed" /\ lobby[s] = lobby[t])
    /\ \A l \in LobbyIds \ lobbies :
           \/ host[l] = None
           \/ l \in announced
           \/ \E t \in Threads : pc[t] = "notifyDestroyed" /\ lobby[t] = l

Idle == \A t \in Threads : pc[t] = "idle"

\* In a registered lobby no handler works on, whoever left or was kicked has
\* been told, and every member has been sent LobbyUpdated since the last join,
\* leave, kick or timeout, also one who joined between a removal and its
\* notification.  A user that was timed out is told of it by nobody.
MembershipsAnnounced ==
    \A l \in lobbies :
        (\A t \in Threads : lobby[t] # l) =>
            \A u \in Users : <<l, u>> \notin owed \union uninformed

\* When no handler is running, everybody who lost a membership has been told,
\* and nobody is a member of a lobby that is gone (dispatcher: "Notify lobby
\* members").
MembersTold ==
    Idle => /\ owed = {}
            /\ \A l \in LobbyIds \ lobbies : members[l] = {}

\* Once the timeout of a host has been taken up, its lobby ceases to exist,
\* also when the host destroys the lobby itself meanwhile.
HostTimeoutDestroys ==
    \A l \in LobbyIds :
        (/\ pc["monitor"] # "idle"
         /\ lobby["monitor"] = l
         /\ member["monitor"] = host[l]) ~> (host[l] # None /\ l \notin lobbies)

\* README, "Automatic host join during lobby creation": the host of a lobby
\* nobody is tearing down is one of its members.
HostAutoJoined ==
    \A l \in lobbies :
        (\A t \in Threads : lobby[t] # l) => host[l] \in members[l]

\* README, "Maximum player enforcement": a lobby never has more members than
\* the maximum it reports.
MaximumEnforced ==
    \A l \in lobbies : members[l] # {} => Cardinality(members[l]) <= maxPlayers[l]
=============================================================================
