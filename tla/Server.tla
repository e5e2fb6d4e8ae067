------------------------------- MODULE Server -------------------------------
(***************************************************************************)
(* The whole server as its players see it: the lobbies of module Lobbies,  *)
(* the presence of players as module Presence promises it (module Realtime *)
(* keeps that promise), the timeout handler that joins them, and the       *)
(* events of ServerEventDispatcher that tell clients to fetch again.       *)
(* One io thread runs; broadcasting is one step.                           *)
(***************************************************************************)
EXTENDS Lobbies

CONSTANT Players    \* the users that connect to the realtime port

ASSUME PlayersAssumption == Players \subseteq Users

VARIABLES
    presence,   \* PresenceService::records
    expired,    \* PresenceService's TimedOutUsers still to be reported
    outdated    \* players whose client has not fetched since the last change

P == INSTANCE Presence WITH Users <- Players

realtime == <<presence, expired>>
all      == <<vars, presence, expired, outdated>>

Online == {u \in Players : presence[u] = "online"}

-----------------------------------------------------------------------------
(* Events: a client that receives one fetches the lobbies again            *)

\* What LobbyRoutes::ListLobbies and FetchLobby return to whoever asks.
Visible == [l \in lobbies |-> members[l]]

Changed == IF Visible' = Visible THEN outdated ELSE Players

\* A call that tells nobody.
Silent == outdated' = Changed /\ UNCHANGED realtime

\* Every Notify of LobbyRoutes, and a completed timeout, ends with a
\* broadcast to the registered connections: those of the players online.
NotifyLobbyListUpdated == outdated' = Changed \ Online /\ UNCHANGED realtime

\* The host hears that its lobby exists, the others do not.
NotifyHostOnly(u, l, n) ==
    /\ CreateLobby(u, l, n)
    /\ outdated' = Changed \ (Online \intersect {u})
    /\ UNCHANGED realtime

NotifyLobbyCreated(u, l, n) == CreateLobby(u, l, n) /\ NotifyLobbyListUpdated

NotifyLobbyJoined == NotifyJoined /\ NotifyLobbyListUpdated

NotifyLobbyDestroyed(t) == NotifyDestroyed(t) /\ NotifyLobbyListUpdated

\* NotifyLobbyLeft, NotifyPlayerKicked, the end of NotifyPlayerTimedOut.
NotifyLobbyLeft(t) == NotifyRemoved(t) /\ NotifyLobbyListUpdated

-----------------------------------------------------------------------------
(* The handlers                                                            *)

ServerRequest(u, l) ==
    \/ \E n \in RequestedMax : NotifyLobbyCreated(u, l, n)
    \/ /\ \/ JoinLobby(u, l)
          \/ LeaveLobby(u, l)
          \/ DestroyRequest(u, l)
          \/ \E target \in Users : KickPlayer(u, target, l)
       /\ Silent

ServerStep(t) ==
    \/ (CopyMembers(t) \/ ClearMembers(t) \/ DestroyLobby(t) \/ RemoveMember(t)) /\ Silent
    \/ NotifyLobbyDestroyed(t)
    \/ NotifyLobbyLeft(t)

ServerHttpStep ==
    \/ (JoinCheck \/ JoinAdd \/ LeaveCheck \/ KickCheck) /\ Silent
    \/ NotifyLobbyJoined
    \/ ServerStep("http")

-----------------------------------------------------------------------------
(* Players, and PresenceService::MonitorLoop                               *)

\* The client is told "Authenticated", and fetches what it shows.
Connect(u) ==
    /\ IoThreads > 0
    /\ P!Connect(u)
    /\ outdated' = outdated \ {u}
    /\ UNCHANGED vars

Disconnect(u) ==
    /\ IoThreads > 0
    /\ P!Disconnect(u)
    /\ UNCHANGED <<vars, outdated>>

Expire(S) ==
    /\ pc["monitor"] = "idle"
    /\ P!Expire(S)
    /\ UNCHANGED <<vars, outdated>>

\* The lobby that was looked up is used without asking whether there is one.
ReportUnchecked(u) ==
    /\ pc["monitor"] = "idle"
    /\ P!Report(u)
    /\ \E l \in LobbyIds : EnterUnfetched("monitor", "copy", l, u)
    /\ UNCHANGED outdated

\* The report is lost when the timeout handler throws.
ReportLost(u) ==
    /\ pc["monitor"] = "idle"
    /\ P!Report(u)
    /\ UNCHANGED <<vars, outdated>>

\* The timeout handler, called outside the lock of PresenceService: nobody
\* looks whether the user has come back.
Report(u) ==
    /\ pc["monitor"] = "idle"
    /\ P!Report(u)
    /\ IF \E l \in lobbies : u \in members[l] THEN TimeOut(u) ELSE UNCHANGED vars
    /\ UNCHANGED outdated

PresenceTick ==
    \/ \E S \in SUBSET Players : Expire(S)
    \/ \E u \in Players : Report(u)

-----------------------------------------------------------------------------
ServerInit ==
    /\ Init
    /\ P!Init
    /\ outdated = {}

ServerNext ==
    \/ \E u \in Users, l \in LobbyIds : ServerRequest(u, l)
    \/ ServerHttpStep
    \/ ServerStep("monitor")
    \/ \E u \in Players : Connect(u) \/ Disconnect(u)
    \/ PresenceTick

ServerSpec == ServerInit /\ [][ServerNext]_all

\* The two threads run their handlers to the end, and the presence monitor
\* wakes up every second.  A window passes because time does.
FairServer ==
    /\ ServerSpec
    /\ WF_all(ServerHttpStep)
    /\ WF_all(ServerStep("monitor"))
    /\ WF_all(PresenceTick)

-----------------------------------------------------------------------------
(* Properties                                                              *)

\* Every variable has its type.
ServerTypeOK ==
    /\ TypeOK
    /\ presence \in [Players -> {"none", "online", "awaiting"}]
    /\ expired \subseteq Players
    /\ outdated \subseteq Players

\* README, "Clients refresh authoritative state through HTTP after receiving
\* realtime events": whoever is online and fetches on every event shows the
\* lobbies as they are whenever no handler runs, however the host's requests,
\* timeouts, losses and reconnects interleave.
ListFresh == Idle => outdated \intersect Online = {}

Seats(u) == {l \in lobbies : u \in members[l]}

\* README, "Timeout detection": a player who was lost, stays away and does not
\* move loses a seat, also when it has several; each timeout frees one of them,
\* and the others only go with a timeout of their own.
TimedOutLeaves ==
    \A u \in Players : \A S \in (SUBSET LobbyIds) \ {{}} :
        (presence[u] = "awaiting" /\ Seats(u) = S) ~>
            (presence[u] = "online" \/ Seats(u) # S)
=============================================================================
