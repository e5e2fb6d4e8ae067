---------------------------- MODULE ServerProofs ----------------------------
(***************************************************************************)
(* The composition adds nothing to what may happen to lobbies, so what     *)
(* LobbiesProofs shows of Lobbies holds of the server; and an online       *)
(* client that fetches on every event is never left with an old list.      *)
(***************************************************************************)
EXTENDS Server, LobbiesProofs

-----------------------------------------------------------------------------
(* Every step of the server is a step of Lobbies, or leaves lobbies alone   *)

\* The events only add what clients know to the calls of the handlers.
LEMMA CallsAreCalls ==
    /\ \A u \in Users, l \in LobbyIds : ServerRequest(u, l) => Request(u, l)
    /\ ServerHttpStep => HttpStep
    /\ \A t \in Threads : ServerStep(t) => Step(t)
<1>1. \A t \in Threads : ServerStep(t) => Step(t)
  BY DEF ServerStep, Step, NotifyLobbyDestroyed, NotifyLobbyLeft
<1>2. "http" \in Threads
  BY DEF Threads
<1> QED
  BY <1>1, <1>2
     DEF ServerRequest, Request, NotifyLobbyCreated, ServerHttpStep, HttpStep,
         NotifyLobbyJoined

\* Every step of the server is a step of Lobbies or a stutter.
LEMMA LobbiesStep == ASSUME [ServerNext]_all PROVE [Next]_vars
<1>1. "monitor" \in Threads
  BY DEF Threads
<1>2. CASE UNCHANGED all
  BY <1>2 DEF all
<1>3. CASE \E u \in Users, l \in LobbyIds : ServerRequest(u, l)
  BY <1>3, CallsAreCalls DEF Next
<1>4. CASE ServerHttpStep \/ ServerStep("monitor")
  BY <1>1, <1>4, CallsAreCalls DEF Next, MonitorStep
<1>5. CASE \E u \in Players : Connect(u) \/ Disconnect(u)
  BY <1>5 DEF Connect, Disconnect
<1>6. CASE PresenceTick
  BY <1>6, PlayersAssumption DEF PresenceTick, Expire, Report, Next
<1> QED BY <1>2, <1>3, <1>4, <1>5, <1>6 DEF ServerNext

\* Whatever is proved of Lobbies holds of the server: no loss, reconnect or
\* timeout can do to a lobby what no behaviour of Lobbies does.
THEOREM ServerImplementsLobbies == ServerSpec => Spec
<1>1. ServerInit => Init
  BY DEF ServerInit
<1> QED BY <1>1, LobbiesStep, PTL DEF ServerSpec, Spec

\* In particular its lobbies are never overfull, never lose their host alone,
\* are announced as destroyed exactly once if they are erased, and their members
\* hear of every join, leave, kick and timeout.
THEOREM ServerLobbiesCorrect ==
    ServerSpec => [](/\ CapacityRespected
                     /\ HostedOrGone
                     /\ DestroyedAnnouncedOnce
                     /\ MembershipsAnnounced)
BY ServerImplementsLobbies, SeatsCorrect, HostCorrect, AnnouncedOnceCorrect,
   MembershipsAnnouncedCorrect, PTL

\* With timeouts, losses and reconnects of players going on, every lobby keeps
\* LobbyContract from its opening until it is closed for good.
THEOREM ServerKeepsContract == ServerSpec => OpenContractKept
BY ServerImplementsLobbies, OpenContractCorrect, PTL

-----------------------------------------------------------------------------
(* Every step of the server is a step of Presence, or leaves it alone       *)

\* No handler of a request and no call of a timeout changes the presence of
\* anybody; players and the monitor do, as the contract allows.
LEMMA PresenceStep ==
    ASSUME [ServerNext]_all
    PROVE  [P!Next]_(P!presenceVars)
<1>1. CASE UNCHANGED all
  BY <1>1 DEF all, P!presenceVars
<1>2. CASE Silent \/ NotifyLobbyListUpdated
  BY <1>2 DEF Silent, NotifyLobbyListUpdated, realtime, P!presenceVars
<1>3. ASSUME NEW u \in Players, Connect(u) \/ Disconnect(u) PROVE P!Next
  BY <1>3 DEF Connect, Disconnect, P!Next
<1>4. CASE PresenceTick
  BY <1>4 DEF PresenceTick, Expire, Report, P!Next
<1> QED
  BY <1>1, <1>2, <1>3, <1>4
     DEF ServerNext, ServerRequest, ServerStep, ServerHttpStep,
         NotifyLobbyCreated, NotifyLobbyJoined, NotifyLobbyDestroyed,
         NotifyLobbyLeft

\* The lobbies drive the server only as far as the contract that Realtime
\* implements lets them: what the two halves share is Presence, from both sides.
THEOREM ServerImplementsPresence == ServerSpec => P!Spec
<1>1. ServerInit => P!Init
  BY DEF ServerInit
<1> QED BY <1>1, PresenceStep, PTL DEF ServerSpec, P!Spec

-----------------------------------------------------------------------------
(* Type correctness of what the composition adds                           *)

PlayersTyped ==
    /\ presence \in [Players -> {"none", "online", "awaiting"}]
    /\ expired \subseteq Players
    /\ outdated \subseteq Players

\* Whether it announces or not, a step leaves the clients' knowledge typed.
LEMMA PlayersStep == ASSUME PlayersTyped, [ServerNext]_all PROVE PlayersTyped'
<1> USE DEF PlayersTyped, realtime, Changed
<1>1. CASE UNCHANGED all
  BY <1>1 DEF all
<1>2. CASE Silent \/ NotifyLobbyListUpdated
  BY <1>2 DEF Silent, NotifyLobbyListUpdated
<1>3. ASSUME NEW u \in Players, Connect(u) \/ Disconnect(u) PROVE PlayersTyped'
  BY <1>3 DEF Connect, Disconnect, P!Connect, P!Disconnect
<1>4. ASSUME NEW S \in SUBSET Players, Expire(S) PROVE PlayersTyped'
  BY <1>4 DEF Expire, P!Expire
<1>5. ASSUME NEW u \in Players, Report(u) PROVE PlayersTyped'
  BY <1>5 DEF Report, P!Report
<1> QED
  BY <1>1, <1>2, <1>3, <1>4, <1>5
     DEF ServerNext, ServerRequest, ServerStep, ServerHttpStep, PresenceTick,
         NotifyLobbyCreated, NotifyLobbyJoined, NotifyLobbyDestroyed,
         NotifyLobbyLeft

\* Every reachable state of the composed server is well typed.
THEOREM ServerTypeCorrect == ServerSpec => []ServerTypeOK
<1>1. ServerInit => PlayersTyped
  BY DEF ServerInit, PlayersTyped, P!Init
<1>2. TypeOK /\ PlayersTyped => ServerTypeOK
  BY DEF ServerTypeOK, PlayersTyped
<1> QED
  BY <1>1, <1>2, PlayersStep, ServerImplementsLobbies, TypeCorrect, PTL
     DEF ServerSpec

-----------------------------------------------------------------------------
(* Clients that fetch on every event                                       *)

\* A thread that is going to announce what it changed.  One that finds its
\* lobby erased gives up, but then the other thread is announcing.
WillNotify(t) ==
    \/ pc[t] \in {"notifyJoined", "notifyRemoved", "notifyDestroyed"}
    \/ pc[t] = "erase" /\ lobby[t] \in lobbies

FreshInv ==
    outdated \intersect Online # {} => \E t \in Threads : WillNotify(t)

\* An announcement reaches everybody who is online.
LEMMA NotifyStep == ASSUME NotifyLobbyListUpdated PROVE FreshInv'
BY DEF NotifyLobbyListUpdated, realtime, Online, FreshInv

\* While nobody is told, a client is out of date afterwards only if it was
\* before or if the visible lobbies have changed.
LEMMA SilentKeeps ==
    ASSUME Silent, UNCHANGED <<lobbies, members>>
    PROVE  outdated' = outdated /\ Online' = Online
<1>1. Visible' = Visible
  BY DEF Visible
<1> QED BY <1>1 DEF Silent, realtime, Online, Changed

\* A change of a lobby nobody can fetch any more shows nowhere.
LEMMA HiddenKeeps ==
    ASSUME Silent, UNCHANGED lobbies, \A l \in lobbies : members'[l] = members[l]
    PROVE  outdated' = outdated /\ Online' = Online
<1>1. Visible' = Visible
  BY DEF Visible
<1> QED BY <1>1 DEF Silent, realtime, Online, Changed

\* Calls of a handler that tell nobody.
LEMMA CallStep ==
    ASSUME TypeOK, FreshInv, Silent, NEW t \in Threads,
           CopyMembers(t) \/ ClearMembers(t) \/ DestroyLobby(t) \/ RemoveMember(t)
    PROVE  FreshInv'
<1> USE DEF TypeOK, WillNotify
<1>1. CASE CopyMembers(t)
  <2>1. UNCHANGED <<lobbies, members>>
    BY <1>1 DEF CopyMembers, shared
  <2>2. \A s \in Threads : WillNotify(s) => WillNotify(s)'
    BY <1>1 DEF CopyMembers, shared
  <2> QED BY <2>1, <2>2, SilentKeeps DEF FreshInv
<1>2. CASE ClearMembers(t)
  <2>1. CASE lobby[t] \in lobbies
    <3>1. WillNotify(t)'
      BY <1>2, <2>1 DEF ClearMembers, Goto
    <3> QED BY <3>1 DEF FreshInv
  <2>2. CASE lobby[t] \notin lobbies
    <3>1. UNCHANGED lobbies /\ \A l \in lobbies : members'[l] = members[l]
      BY <1>2, <2>2 DEF ClearMembers
    <3>2. \A s \in Threads : WillNotify(s) => WillNotify(s)'
      BY <1>2 DEF ClearMembers, Goto
    <3> QED BY <3>1, <3>2, HiddenKeeps DEF FreshInv
  <2> QED BY <2>1, <2>2
<1>3. CASE DestroyLobby(t)
  <2>1. CASE lobby[t] \in lobbies
    <3>1. WillNotify(t)'
      BY <1>3, <2>1 DEF DestroyLobby, Goto
    <3> QED BY <3>1 DEF FreshInv
  <2>2. CASE lobby[t] \notin lobbies
    <3>1. UNCHANGED <<lobbies, members>>
      BY <1>3, <2>2 DEF DestroyLobby
    <3>2. \A s \in Threads : WillNotify(s) => WillNotify(s)'
      BY <1>3, <2>2 DEF DestroyLobby, Return
    <3> QED BY <3>1, <3>2, SilentKeeps DEF FreshInv
  <2> QED BY <2>1, <2>2
<1>4. CASE RemoveMember(t)
  <2>1. CASE member[t] \in members[lobby[t]]
    <3>1. WillNotify(t)'
      BY <1>4, <2>1 DEF RemoveMember, Goto
    <3> QED BY <3>1 DEF FreshInv
  <2>2. CASE member[t] \notin members[lobby[t]]
    <3>1. UNCHANGED <<lobbies, members>>
      BY <1>4, <2>2 DEF RemoveMember
    <3>2. \A s \in Threads : WillNotify(s) => WillNotify(s)'
      BY <1>4, <2>2 DEF RemoveMember, Return
    <3> QED BY <3>1, <3>2, SilentKeeps DEF FreshInv
  <2> QED BY <2>1, <2>2
<1> QED BY <1>1, <1>2, <1>3, <1>4

\* A user that was added is going to be announced; otherwise nothing changed.
LEMMA JoinStep ==
    ASSUME TypeOK, FreshInv, Silent, JoinAdd
    PROVE  FreshInv'
<1> USE DEF TypeOK, WillNotify, Threads
<1>1. CASE pc'["http"] = "notifyJoined"
  BY <1>1 DEF FreshInv
<1>2. CASE pc'["http"] # "notifyJoined"
  <2>1. UNCHANGED <<lobbies, members>>
    BY <1>2 DEF JoinAdd, Goto
  <2>2. \A s \in Threads : WillNotify(s) => WillNotify(s)'
    BY <2>1 DEF JoinAdd, Goto, Return
  <2> QED BY <2>1, <2>2, SilentKeeps DEF FreshInv
<1> QED BY <1>1, <1>2

\* The start of a handler, and the checks before its first change.
LEMMA CheckStep ==
    ASSUME TypeOK, FreshInv, Silent,
           \/ JoinCheck \/ LeaveCheck \/ KickCheck
           \/ \E l \in lobbies, u \in Users, label \in Labels : Enter("http", label, l, u)
    PROVE  FreshInv'
<1>1. UNCHANGED <<lobbies, members>>
  BY DEF JoinCheck, LeaveCheck, KickCheck, Enter, shared
<1>2. \A s \in Threads : WillNotify(s) => WillNotify(s)'
  BY <1>1
     DEF TypeOK, WillNotify, JoinCheck, LeaveCheck, KickCheck, Enter, Goto,
         Return, shared
<1> QED BY <1>1, <1>2, SilentKeeps DEF FreshInv

\* Losses, reconnects and the presence monitor.
LEMMA PlayerStep ==
    ASSUME TypeOK, PlayersTyped, FreshInv,
           PresenceTick \/ \E u \in Players : Connect(u) \/ Disconnect(u)
    PROVE  FreshInv'
<1> USE DEF PlayersTyped, Online
<1>1. ASSUME NEW u \in Players, Connect(u) PROVE FreshInv'
  BY <1>1 DEF Connect, P!Connect, vars, FreshInv, WillNotify
<1>2. ASSUME NEW u \in Players, Disconnect(u) PROVE FreshInv'
  BY <1>2 DEF Disconnect, P!Disconnect, vars, FreshInv, WillNotify
<1>3. ASSUME NEW S \in SUBSET Players, Expire(S) PROVE FreshInv'
  BY <1>3 DEF Expire, P!Expire, vars, FreshInv, WillNotify
<1>4. ASSUME NEW u \in Players, Report(u) PROVE FreshInv'
  <2>1. outdated' = outdated /\ Online' = Online
    BY <1>4 DEF Report, P!Report
  <2>2. UNCHANGED lobbies
    BY <1>4 DEF Report, TimeOut, Enter, shared, vars
  <2>3. \A s \in Threads : WillNotify(s) => WillNotify(s)'
    BY <1>4, <2>2 DEF Report, TimeOut, Enter, vars, TypeOK, WillNotify
  <2> QED BY <2>1, <2>3 DEF FreshInv
<1> QED BY <1>1, <1>2, <1>3, <1>4 DEF PresenceTick

\* The invariant survives every step of the server.
LEMMA FreshStep ==
    ASSUME TypeOK, PlayersTyped, FreshInv, [ServerNext]_all
    PROVE  FreshInv'
<1>0. "http" \in Threads /\ "monitor" \in Threads
  BY DEF Threads
<1>1. CASE UNCHANGED all
  BY <1>1 DEF all, vars, FreshInv, WillNotify, Online
<1>2. ASSUME NEW t \in Threads, ServerStep(t) PROVE FreshInv'
  BY <1>2, CallStep, NotifyStep DEF ServerStep, NotifyLobbyDestroyed, NotifyLobbyLeft
<1>3. CASE ServerHttpStep
  BY <1>0, <1>2, <1>3, CheckStep, JoinStep, NotifyStep DEF ServerHttpStep, NotifyLobbyJoined
<1>4. ASSUME NEW u \in Users, NEW l \in LobbyIds, ServerRequest(u, l) PROVE FreshInv'
  <2>1. ASSUME NEW n \in RequestedMax, NotifyLobbyCreated(u, l, n) PROVE FreshInv'
    BY <2>1, NotifyStep DEF NotifyLobbyCreated
  <2>2. ASSUME Silent, NEW v \in Users, NEW label \in Labels, Enter("http", label, l, v)
        PROVE  FreshInv'
    BY <2>2, CheckStep DEF Enter
  <2>3. {"join", "leave", "copy", "kick"} \subseteq Labels
    BY DEF Labels
  <2> QED
    BY <1>4, <2>1, <2>2, <2>3
       DEF ServerRequest, JoinLobby, LeaveLobby, DestroyRequest, KickPlayer
<1> QED
  BY <1>0, <1>1, <1>2, <1>3, <1>4, PlayerStep DEF ServerNext

\* Whenever no handler runs, every client that is online and fetches on every
\* event shows the lobbies as they are.
THEOREM ListFreshCorrect == ServerSpec => []ListFresh
<1>1. ServerInit => PlayersTyped /\ FreshInv
  BY DEF ServerInit, PlayersTyped, P!Init, FreshInv
<1>2. FreshInv => ListFresh
  BY DEF FreshInv, ListFresh, Idle, WillNotify
<1> QED
  BY <1>1, <1>2, PlayersStep, FreshStep, ServerImplementsLobbies, TypeCorrect, PTL
     DEF ServerSpec
=============================================================================
