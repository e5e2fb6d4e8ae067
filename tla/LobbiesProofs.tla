--------------------------- MODULE LobbiesProofs ---------------------------
(***************************************************************************)
(* Invariants of Lobbies, for every set of users, every number of lobbies, *)
(* every requested maximum and whether or not the realtime side runs.      *)
(***************************************************************************)
EXTENDS Lobbies, FiniteSetTheorems, TLAPS

-----------------------------------------------------------------------------
(* The arithmetic of IsFull                                                *)

\* The stored maximum is an int whatever number the request carried.
LEMMA NarrowType == ASSUME NEW n \in RequestedMax PROVE Narrow(n) \in Int
BY WidthAssumption DEF Narrow

\* Whatever int is stored, the comparison in IsFull sees a natural number.
LEMMA CapacityType == ASSUME NEW max \in Int PROVE Capacity(max) \in Nat
BY WidthAssumption DEF Capacity

\* Lobby::AddMember keeps a lobby within the capacity it checks.
LEMMA AddMemberBounded ==
    ASSUME NEW crowd, IsFiniteSet(crowd), NEW max \in Int, NEW u,
           Cardinality(crowd) <= Capacity(max)
    PROVE  /\ IsFiniteSet(AddMember(crowd, max, u))
           /\ Cardinality(AddMember(crowd, max, u)) <= Capacity(max)
<1>1. CASE IsFull(crowd, max) \/ u \in crowd
  BY <1>1 DEF AddMember
<1>2. CASE ~ (IsFull(crowd, max) \/ u \in crowd)
  <2>1. AddMember(crowd, max, u) = crowd \union {u}
    BY <1>2 DEF AddMember
  <2>2. /\ IsFiniteSet(crowd \union {u})
        /\ Cardinality(crowd \union {u}) = Cardinality(crowd) + 1
    BY <1>2, FS_AddElement
  <2>3. Cardinality(crowd) \in Nat /\ Capacity(max) \in Nat
    BY FS_CardinalityType, CapacityType
  <2>4. ~ (Cardinality(crowd) >= Capacity(max))
    BY <1>2 DEF IsFull
  <2> QED BY <2>1, <2>2, <2>3, <2>4
<1> QED BY <1>1, <1>2

-----------------------------------------------------------------------------
(* Type correctness                                                        *)

\* Every reachable state is well typed; in particular no handler ever runs
\* on a lobby that was never created.
THEOREM TypeCorrect == Spec => []TypeOK
<1>1. Init => TypeOK
  BY DEF Init, TypeOK, Threads, Labels
<1>2. TypeOK /\ [Next]_vars => TypeOK'
  <2> SUFFICES ASSUME TypeOK, [Next]_vars PROVE TypeOK'
    OBVIOUS
  <2> USE NoneAssumption
  <2>1. ASSUME NEW u \in Users, NEW l \in LobbyIds, NEW n \in RequestedMax,
               CreateLobby(u, l, n)
        PROVE TypeOK'
    <3>1. Narrow(n) \in Int
      BY NarrowType
    <3>2. AddMember({}, Narrow(n), u) \in SUBSET Users
      BY DEF AddMember
    <3> QED BY <2>1, <3>1, <3>2 DEF CreateLobby, TypeOK, local, history
  <2>2. ASSUME NEW u \in Users, NEW l \in LobbyIds, NEW label \in Labels,
               NEW t \in Threads, Enter(t, label, l, u)
        PROVE TypeOK'
    BY <2>2 DEF Enter, TypeOK, shared, history
  <2>3. CASE JoinCheck
    BY <2>3 DEF JoinCheck, TypeOK, Goto, Return, shared, history, Labels, Threads
  <2>4. CASE JoinAdd
    <3>1. \A crowd \in SUBSET Users, u \in Users, max \in Int :
             AddMember(crowd, max, u) \in SUBSET Users
      BY DEF AddMember
    <3> QED BY <2>4, <3>1 DEF JoinAdd, TypeOK, Goto, Return, Labels, Threads
  <2>5. CASE LeaveCheck
    BY <2>5 DEF LeaveCheck, TypeOK, Goto, Return, shared, history, Labels, Threads
  <2>6. CASE KickCheck
    BY <2>6 DEF KickCheck, TypeOK, Goto, Return, shared, history, Labels, Threads
  <2>7. ASSUME NEW t \in Threads, Step(t) PROVE TypeOK'
    <3>1. CASE CopyMembers(t)
      BY <3>1 DEF CopyMembers, TypeOK, shared, history, Labels
    <3>2. CASE ClearMembers(t)
      BY <3>2 DEF ClearMembers, TypeOK, Goto, Labels
    <3>3. CASE DestroyLobby(t)
      BY <3>3 DEF DestroyLobby, TypeOK, Goto, Return, Labels
    <3>4. CASE NotifyDestroyed(t)
      BY <3>4 DEF NotifyDestroyed, TypeOK, Return, shared, Labels
    <3>5. CASE RemoveMember(t)
      BY <3>5 DEF RemoveMember, TypeOK, Goto, Return, Labels
    <3>6. CASE NotifyRemoved(t)
      BY <3>6 DEF NotifyRemoved, TypeOK, Return, shared, Labels
    <3> QED BY <2>7, <3>1, <3>2, <3>3, <3>4, <3>5, <3>6 DEF Step
  <2>8. CASE NotifyJoined
    BY <2>8 DEF NotifyJoined, TypeOK, Return, shared, Labels, Threads
  <2>12. CASE UNCHANGED vars
    BY <2>12 DEF vars, history, TypeOK
  <2>9. "join" \in Labels /\ "leave" \in Labels /\ "copy" \in Labels
        /\ "kick" \in Labels /\ "http" \in Threads /\ "monitor" \in Threads
    BY DEF Labels, Threads
  <2>10. ASSUME NEW u \in Users, NEW l \in LobbyIds, Request(u, l)
         PROVE TypeOK'
    BY <2>1, <2>2, <2>9, <2>10
       DEF Request, JoinLobby, LeaveLobby, DestroyRequest, KickPlayer
  <2>11. ASSUME NEW u \in Users, TimeOut(u) PROVE TypeOK'
    <3>1. lobbies \subseteq LobbyIds
      BY DEF TypeOK
    <3> QED BY <2>2, <2>9, <2>11, <3>1 DEF TimeOut
  <2> QED
    BY <2>3, <2>4, <2>5, <2>6, <2>7, <2>8, <2>9, <2>10, <2>11, <2>12
       DEF Next, ReadRequest, HttpStep, MonitorStep
<1> QED BY <1>1, <1>2, PTL DEF Spec

-----------------------------------------------------------------------------
(* A lobby never holds more members than IsFull admits                     *)

FiniteMembers == \A l \in LobbyIds : IsFiniteSet(members[l])

SeatInv == TypeOK /\ FiniteMembers /\ CapacityRespected

\* What one step can do to the members of a lobby: lose some, gain at most
\* one through AddMember, or come into being with the host alone.
LEMMA MembersStep ==
    ASSUME TypeOK, [Next]_vars, NEW l \in LobbyIds
    PROVE  \/ /\ members'[l] \subseteq members[l]
              /\ maxPlayers'[l] = maxPlayers[l]
           \/ /\ maxPlayers'[l] = maxPlayers[l]
              /\ \E u : members'[l] = AddMember(members[l], maxPlayers[l], u)
           \/ \E u : members'[l] = AddMember({}, maxPlayers'[l], u)
<1>1. ASSUME NEW u \in Users, NEW k \in LobbyIds, NEW n \in RequestedMax,
             CreateLobby(u, k, n)
      PROVE  \/ members'[l] = members[l] /\ maxPlayers'[l] = maxPlayers[l]
             \/ \E v : members'[l] = AddMember({}, maxPlayers'[l], v)
  BY <1>1 DEF CreateLobby, TypeOK
<1>2. ASSUME NEW u \in Users, NEW k \in LobbyIds,
             \/ JoinLobby(u, k) \/ LeaveLobby(u, k) \/ DestroyRequest(u, k)
             \/ \E target \in Users : KickPlayer(u, target, k)
      PROVE  UNCHANGED shared
  BY <1>2 DEF JoinLobby, LeaveLobby, DestroyRequest, KickPlayer, Enter
<1>3. ASSUME NEW u \in Users, TimeOut(u) PROVE UNCHANGED shared
  BY <1>3 DEF TimeOut, Enter
<1>4. CASE JoinAdd
  BY <1>4 DEF JoinAdd, TypeOK
<1>5. CASE \/ JoinCheck \/ NotifyJoined \/ LeaveCheck \/ KickCheck
           \/ ReadRequest \/ UNCHANGED vars
  BY <1>5 DEF JoinCheck, NotifyJoined, LeaveCheck, KickCheck, ReadRequest, shared, vars
<1>6. ASSUME NEW t \in Threads, Step(t)
      PROVE  members'[l] \subseteq members[l] /\ maxPlayers' = maxPlayers
  BY <1>6 DEF Step, CopyMembers, ClearMembers, DestroyLobby, NotifyDestroyed,
              RemoveMember, NotifyRemoved, TypeOK, shared
<1>7. "http" \in Threads /\ "monitor" \in Threads
  BY DEF Threads
<1> QED
  BY <1>1, <1>2, <1>3, <1>4, <1>5, <1>6, <1>7
     DEF Next, Request, HttpStep, MonitorStep, shared

\* The members stay finite in number and within the capacity.
LEMMA SeatInvCorrect == Spec => [](FiniteMembers /\ CapacityRespected)
<1>1. Init => SeatInv
  <2> SUFFICES ASSUME Init PROVE SeatInv
    OBVIOUS
  <2>1. TypeOK
    BY DEF Init, TypeOK, Threads, Labels
  <2>2. ASSUME NEW l \in LobbyIds
        PROVE  IsFiniteSet(members[l]) /\ Cardinality(members[l]) <= Capacity(maxPlayers[l])
    BY FS_EmptySet, CapacityType DEF Init
  <2> QED BY <2>1, <2>2 DEF SeatInv, FiniteMembers, CapacityRespected
<1>2. SeatInv /\ [Next]_vars /\ TypeOK' => SeatInv'
  <2> SUFFICES ASSUME SeatInv, [Next]_vars, TypeOK', NEW l \in LobbyIds
               PROVE  /\ IsFiniteSet(members'[l])
                      /\ Cardinality(members'[l]) <= Capacity(maxPlayers'[l])
    BY DEF SeatInv, FiniteMembers, CapacityRespected
  <2>1. /\ maxPlayers[l] \in Int /\ maxPlayers'[l] \in Int
        /\ IsFiniteSet(members[l])
        /\ Cardinality(members[l]) <= Capacity(maxPlayers[l])
        /\ TypeOK
    BY DEF SeatInv, TypeOK, FiniteMembers, CapacityRespected
  <2>2. CASE members'[l] \subseteq members[l] /\ maxPlayers'[l] = maxPlayers[l]
    <3>1. /\ IsFiniteSet(members'[l])
          /\ Cardinality(members'[l]) <= Cardinality(members[l])
      BY <2>1, <2>2, FS_Subset
    <3>2. /\ Cardinality(members'[l]) \in Nat
          /\ Cardinality(members[l]) \in Nat
          /\ Capacity(maxPlayers[l]) \in Nat
      BY <2>1, <3>1, FS_CardinalityType, CapacityType
    <3> QED BY <2>1, <2>2, <3>1, <3>2
  <2>3. CASE /\ maxPlayers'[l] = maxPlayers[l]
             /\ \E u : members'[l] = AddMember(members[l], maxPlayers[l], u)
    BY <2>1, <2>3, AddMemberBounded
  <2>4. CASE \E u : members'[l] = AddMember({}, maxPlayers'[l], u)
    <3>1. IsFiniteSet({}) /\ Cardinality({}) = 0
      BY FS_EmptySet
    <3>2. Cardinality({}) <= Capacity(maxPlayers'[l])
      BY <2>1, <3>1, CapacityType
    <3> QED BY <2>1, <2>4, <3>1, <3>2, AddMemberBounded
  <2> QED BY <2>1, <2>2, <2>3, <2>4, MembersStep
<1>3. SeatInv => FiniteMembers /\ CapacityRespected
  BY DEF SeatInv
<1> QED BY <1>1, <1>2, <1>3, TypeCorrect, PTL DEF Spec

\* Whatever the interleaving of joins with removals and teardowns, no lobby
\* ever has more members than the comparison in IsFull admits.
THEOREM SeatsCorrect == Spec => []CapacityRespected
BY SeatInvCorrect, PTL

-----------------------------------------------------------------------------
(* The host of a registered lobby stays seated                             *)

\* A thread that is about to remove one member is not about to remove the
\* host: the branch on IsHost and the check of the kick target see to it.
RemovalSparesHost ==
    \A t \in Threads : pc[t] \in {"kick", "remove"} => member[t] # host[lobby[t]]

\* Both are preserved together.
LEMMA HostInvCorrect == Spec => [](RemovalSparesHost /\ HostedOrGone)
<1>1. Init => RemovalSparesHost /\ HostedOrGone
  BY DEF Init, RemovalSparesHost, HostedOrGone
<1>2. TypeOK /\ RemovalSparesHost /\ HostedOrGone /\ [Next]_vars
        => (RemovalSparesHost /\ HostedOrGone)'
  <2> SUFFICES ASSUME TypeOK, RemovalSparesHost, HostedOrGone, [Next]_vars
               PROVE  (RemovalSparesHost /\ HostedOrGone)'
    OBVIOUS
  <2> USE NoneAssumption DEF TypeOK, RemovalSparesHost, HostedOrGone, TearingDown
  <2>1. ASSUME NEW u \in Users, NEW l \in LobbyIds, NEW n \in RequestedMax,
               CreateLobby(u, l, n)
        PROVE (RemovalSparesHost /\ HostedOrGone)'
    <3>1. Capacity(Narrow(n)) \in Nat
      BY NarrowType, CapacityType
    <3>2. Cardinality({}) = 0
      BY FS_EmptySet
    <3>3. u \in AddMember({}, Narrow(n), u) \/ Capacity(Narrow(n)) = 0
      BY <3>1, <3>2 DEF AddMember, IsFull
    <3> QED BY <2>1, <3>3 DEF CreateLobby, local
  <2>2. ASSUME NEW u \in Users, NEW l \in LobbyIds,
               \/ JoinLobby(u, l)
               \/ LeaveLobby(u, l)
               \/ DestroyRequest(u, l)
               \/ \E target \in Users : KickPlayer(u, target, l)
        PROVE (RemovalSparesHost /\ HostedOrGone)'
    BY <2>2 DEF JoinLobby, LeaveLobby, DestroyRequest, KickPlayer, Enter, shared,
                Threads
  <2>3. ASSUME NEW u \in Users, TimeOut(u)
        PROVE (RemovalSparesHost /\ HostedOrGone)'
    BY <2>3 DEF TimeOut, Enter, shared, Threads
  <2>4. CASE JoinCheck \/ NotifyJoined \/ LeaveCheck \/ KickCheck
    BY <2>4 DEF JoinCheck, NotifyJoined, LeaveCheck, KickCheck, Goto, Return, shared,
                Threads
  <2>5. CASE JoinAdd
    <3>1. members[lobby["http"]] \subseteq members'[lobby["http"]]
      BY <2>5 DEF JoinAdd, AddMember, Threads
    <3> QED BY <2>5, <3>1 DEF JoinAdd, Goto, Return, Threads
  <2>6. ASSUME NEW t \in Threads, Step(t)
        PROVE (RemovalSparesHost /\ HostedOrGone)'
    <3>1. CASE CopyMembers(t) \/ NotifyDestroyed(t) \/ NotifyRemoved(t)
      BY <3>1 DEF CopyMembers, NotifyDestroyed, NotifyRemoved, Return, shared
    <3>2. CASE ClearMembers(t)
      BY <3>2 DEF ClearMembers, Goto
    <3>3. CASE DestroyLobby(t)
      BY <3>3 DEF DestroyLobby, Goto, Return
    <3>4. CASE RemoveMember(t)
      BY <3>4 DEF RemoveMember, Goto, Return
    <3> QED BY <2>6, <3>1, <3>2, <3>3, <3>4 DEF Step
  <2>7. CASE ReadRequest \/ UNCHANGED vars
    BY <2>7 DEF ReadRequest, vars
  <2>8. "http" \in Threads /\ "monitor" \in Threads
    BY DEF Threads
  <2> QED
    BY <2>1, <2>2, <2>3, <2>4, <2>5, <2>6, <2>7, <2>8
       DEF Next, Request, HttpStep, MonitorStep
<1> QED BY <1>1, <1>2, TypeCorrect, PTL DEF Spec

\* In every reachable state the host of a registered lobby is a member of
\* it, unless nobody can be or the lobby is being torn down.
THEOREM HostCorrect == Spec => []HostedOrGone
BY HostInvCorrect, PTL

-----------------------------------------------------------------------------
(* One destruction, one announcement                                       *)

\* What was announced was created, and is registered no more.
AnnouncedGone ==
    announced \subseteq {l \in LobbyIds : host[l] # None /\ l \notin lobbies}

\* LobbyDestroyed is sent exactly once for a lobby that is erased: of two
\* threads tearing it down, the one whose erase found it goes on to announce it.
THEOREM AnnouncedOnceCorrect == Spec => []DestroyedAnnouncedOnce
<1>1. Init => AnnouncedGone /\ DestroyedAnnouncedOnce
  BY DEF Init, AnnouncedGone, DestroyedAnnouncedOnce
<1>2. TypeOK /\ AnnouncedGone /\ DestroyedAnnouncedOnce /\ [Next]_vars
        => (AnnouncedGone /\ DestroyedAnnouncedOnce)'
  <2> SUFFICES ASSUME TypeOK, AnnouncedGone, DestroyedAnnouncedOnce, [Next]_vars
               PROVE  (AnnouncedGone /\ DestroyedAnnouncedOnce)'
    OBVIOUS
  <2> USE NoneAssumption DEF TypeOK, AnnouncedGone, DestroyedAnnouncedOnce
  <2>1. ASSUME NEW u \in Users, NEW l \in LobbyIds, NEW n \in RequestedMax,
               CreateLobby(u, l, n)
        PROVE (AnnouncedGone /\ DestroyedAnnouncedOnce)'
    BY <2>1 DEF CreateLobby, local, history
  <2>2. ASSUME NEW u \in Users, NEW l \in LobbyIds,
               \/ JoinLobby(u, l)
               \/ LeaveLobby(u, l)
               \/ DestroyRequest(u, l)
               \/ \E target \in Users : KickPlayer(u, target, l)
        PROVE (AnnouncedGone /\ DestroyedAnnouncedOnce)'
    BY <2>2 DEF JoinLobby, LeaveLobby, DestroyRequest, KickPlayer, Enter, shared,
                history, Threads
  <2>3. ASSUME NEW u \in Users, TimeOut(u)
        PROVE (AnnouncedGone /\ DestroyedAnnouncedOnce)'
    BY <2>3 DEF TimeOut, Enter, shared, history, Threads
  <2>4. CASE JoinCheck \/ JoinAdd \/ NotifyJoined \/ LeaveCheck \/ KickCheck
    BY <2>4 DEF JoinCheck, JoinAdd, NotifyJoined, LeaveCheck, KickCheck, Goto, Return,
                shared, history, Threads
  <2>5. ASSUME NEW t \in Threads, Step(t)
        PROVE (AnnouncedGone /\ DestroyedAnnouncedOnce)'
    <3>1. CASE CopyMembers(t) \/ NotifyRemoved(t)
      BY <3>1 DEF CopyMembers, NotifyRemoved, Return, shared, history
    <3>2. CASE ClearMembers(t) \/ RemoveMember(t)
      BY <3>2 DEF ClearMembers, RemoveMember, Goto, Return
    <3>3. CASE DestroyLobby(t)
      BY <3>3 DEF DestroyLobby, Goto, Return
    <3>4. CASE NotifyDestroyed(t)
      BY <3>4 DEF NotifyDestroyed, Return, shared
    <3> QED BY <2>5, <3>1, <3>2, <3>3, <3>4 DEF Step
  <2>6. CASE ReadRequest \/ UNCHANGED vars
    BY <2>6 DEF ReadRequest, vars, history
  <2>7. "http" \in Threads /\ "monitor" \in Threads
    BY DEF Threads
  <2> QED
    BY <2>1, <2>2, <2>3, <2>4, <2>5, <2>6, <2>7
       DEF Next, Request, HttpStep, MonitorStep
<1> QED BY <1>1, <1>2, TypeCorrect, PTL DEF Spec

-----------------------------------------------------------------------------
(* Changes of the members of living lobbies are announced                  *)

\* A user that is owed a message was in a lobby that is gone or about to go,
\* or the request that removed it is on its way to tell it.
OwedIsPending ==
    \A pair \in owed :
        /\ host[pair[1]] # None
        /\ \/ pair[1] \notin lobbies
           \/ TearingDown(pair[1])
           \/ /\ pc["http"] = "notifyRemoved"
              /\ lobby["http"] = pair[1]
              /\ member["http"] = pair[2]

\* While a member has not heard of the last change, a thread that will send
\* LobbyUpdated to it is on its way: not always the one that made the change.
UpdateIsPending ==
    \A pair \in uninformed :
        /\ host[pair[1]] # None
        /\ pair[2] \in members[pair[1]]
        /\ \E t \in Threads : /\ pc[t] \in {"notifyJoined", "notifyRemoved"}
                              /\ lobby[t] = pair[1]

\* Every change made is announced, or will be by a thread that is on its way.
PendingInv == OwedIsPending /\ UpdateIsPending

\* In a lobby nobody works on, whoever left or was kicked has been told, and
\* every member has heard of the last join, leave, kick or timeout.
THEOREM MembershipsAnnouncedCorrect == Spec => []MembershipsAnnounced
<1>1. Init => PendingInv
  BY DEF Init, PendingInv, OwedIsPending, UpdateIsPending
<1>2. TypeOK /\ PendingInv /\ [Next]_vars => PendingInv'
  <2> SUFFICES ASSUME TypeOK, PendingInv, [Next]_vars PROVE PendingInv'
    OBVIOUS
  <2> USE NoneAssumption
      DEF TypeOK, PendingInv, OwedIsPending, UpdateIsPending, TearingDown, Threads
  <2>1. ASSUME NEW u \in Users, NEW l \in LobbyIds, NEW n \in RequestedMax,
               CreateLobby(u, l, n)
        PROVE PendingInv'
    BY <2>1 DEF CreateLobby, local, history
  <2>2. ASSUME NEW u \in Users, NEW l \in LobbyIds,
               \/ JoinLobby(u, l)
               \/ LeaveLobby(u, l)
               \/ DestroyRequest(u, l)
               \/ \E target \in Users : KickPlayer(u, target, l)
        PROVE PendingInv'
    BY <2>2 DEF JoinLobby, LeaveLobby, DestroyRequest, KickPlayer, Enter, shared,
                history
  <2>3. ASSUME NEW u \in Users, TimeOut(u)
        PROVE PendingInv'
    BY <2>3 DEF TimeOut, Enter, shared, history
  <2>4. CASE JoinCheck \/ LeaveCheck \/ KickCheck
    BY <2>4 DEF JoinCheck, LeaveCheck, KickCheck, Goto, Return, shared, history
  <2>5. CASE JoinAdd
    <3>1. OwedIsPending'
      BY <2>5 DEF JoinAdd, Goto, Return
    <3>2. UpdateIsPending'
      BY <2>5 DEF JoinAdd, AddMember, Goto, Return
    <3> QED BY <3>1, <3>2
  <2>6. CASE NotifyJoined
    BY <2>6 DEF NotifyJoined, Return, shared
  <2>7. ASSUME NEW t \in Threads, Step(t)
        PROVE PendingInv'
    <3>1. CASE CopyMembers(t)
      BY <3>1 DEF CopyMembers, shared, history
    <3>2. CASE ClearMembers(t)
      BY <3>2 DEF ClearMembers, Goto
    <3>3. CASE DestroyLobby(t)
      BY <3>3 DEF DestroyLobby, Goto, Return
    <3>4. CASE NotifyDestroyed(t)
      BY <3>4 DEF NotifyDestroyed, Return, shared
    <3>5. CASE RemoveMember(t)
      <4>1. OwedIsPending'
        BY <3>5 DEF RemoveMember, Goto, Return
      <4>2. UpdateIsPending'
        BY <3>5 DEF RemoveMember, Goto, Return
      <4> QED BY <4>1, <4>2
    <3>6. CASE NotifyRemoved(t)
      <4>1. OwedIsPending'
        BY <3>6 DEF NotifyRemoved, Return, shared
      <4>2. UpdateIsPending'
        BY <3>6 DEF NotifyRemoved, Return, shared
      <4> QED BY <4>1, <4>2
    <3> QED BY <2>7, <3>1, <3>2, <3>3, <3>4, <3>5, <3>6 DEF Step
  <2>8. CASE ReadRequest \/ UNCHANGED vars
    BY <2>8 DEF ReadRequest, vars, history
  <2> QED
    BY <2>1, <2>2, <2>3, <2>4, <2>5, <2>6, <2>7, <2>8
       DEF Next, Request, HttpStep, MonitorStep
<1>3. PendingInv => MembershipsAnnounced
  BY DEF PendingInv, OwedIsPending, UpdateIsPending, MembershipsAnnounced, TearingDown,
         Threads
<1> QED BY <1>1, <1>2, <1>3, TypeCorrect, PTL DEF Spec

-----------------------------------------------------------------------------
(* What the README promises of the maximum, and when it holds              *)

\* A requested maximum that is a positive int is stored and compared as it is.
LEMMA ReasonableMaximum ==
    ASSUME NEW n \in Int, n >= 1, 2 * n < IntModulus, IntModulus <= SizeModulus
    PROVE  Narrow(n) = n /\ Capacity(n) = n
<1>1. n \in Nat /\ n < IntModulus /\ n < SizeModulus
  BY WidthAssumption
<1>2. n % IntModulus = n
  BY <1>1, WidthAssumption
<1>3. n % SizeModulus = n
  BY <1>1, WidthAssumption
<1> DEFINE low == n % IntModulus
<1>4. Narrow(n) = IF 2 * low >= IntModulus THEN low - IntModulus ELSE low
  BY DEF Narrow
<1> HIDE DEF low
<1>5. low = n
  BY <1>2 DEF low
<1>6. Narrow(n) = n
  BY <1>1, <1>4, <1>5, WidthAssumption
<1> QED BY <1>3, <1>6 DEF Capacity

\* Every lobby that was created has the maximum of some create request.
MaximumRequested ==
    \A l \in LobbyIds : host[l] # None => \E n \in RequestedMax : maxPlayers[l] = Narrow(n)

LEMMA MaximumRequestedCorrect == Spec => []MaximumRequested
<1>1. Init => MaximumRequested
  BY DEF Init, MaximumRequested
<1>2. TypeOK /\ MaximumRequested /\ [Next]_vars => MaximumRequested'
  <2> SUFFICES ASSUME TypeOK, MaximumRequested, [Next]_vars PROVE MaximumRequested'
    OBVIOUS
  <2>1. ASSUME NEW u \in Users, NEW l \in LobbyIds, NEW n \in RequestedMax,
               CreateLobby(u, l, n)
        PROVE  MaximumRequested'
    BY <2>1 DEF CreateLobby, MaximumRequested, TypeOK
  <2>2. CASE UNCHANGED <<host, maxPlayers>>
    BY <2>2 DEF MaximumRequested
  <2>3. ASSUME NEW u \in Users, NEW l \in LobbyIds,
               \/ JoinLobby(u, l) \/ LeaveLobby(u, l) \/ DestroyRequest(u, l)
               \/ \E target \in Users : KickPlayer(u, target, l)
        PROVE  UNCHANGED <<host, maxPlayers>>
    BY <2>3 DEF JoinLobby, LeaveLobby, DestroyRequest, KickPlayer, Enter, shared
  <2>4. ASSUME NEW u \in Users, TimeOut(u) PROVE UNCHANGED <<host, maxPlayers>>
    BY <2>4 DEF TimeOut, Enter, shared
  <2>5. ASSUME \/ JoinCheck \/ JoinAdd \/ NotifyJoined
               \/ LeaveCheck \/ KickCheck \/ ReadRequest
        PROVE  UNCHANGED <<host, maxPlayers>>
    BY <2>5 DEF JoinCheck, JoinAdd, NotifyJoined, LeaveCheck, KickCheck, ReadRequest, shared, vars
  <2>6. ASSUME NEW t \in Threads, Step(t) PROVE UNCHANGED <<host, maxPlayers>>
    BY <2>6 DEF Step, CopyMembers, ClearMembers, DestroyLobby, NotifyDestroyed,
                RemoveMember, NotifyRemoved, shared
  <2>7. "http" \in Threads /\ "monitor" \in Threads
    BY DEF Threads
  <2> QED
    BY <2>1, <2>2, <2>3, <2>4, <2>5, <2>6, <2>7
       DEF Next, Request, HttpStep, MonitorStep, vars
<1> QED BY <1>1, <1>2, TypeCorrect, PTL DEF Spec

\* As long as clients ask for maxima that are positive ints, the host of a new
\* lobby is a member of it, and no lobby ever has more members than the maximum
\* it reports: what the README says, refuted by the zero, negative and wide
\* maxima that LobbyRoutes lets through, holds without them, with any number of
\* users and whether or not the realtime side runs.
THEOREM ReasonableMaximaSuffice ==
    ASSUME \A n \in RequestedMax : n >= 1 /\ 2 * n < IntModulus,
           IntModulus <= SizeModulus
    PROVE  Spec => [](HostAutoJoined /\ MaximumEnforced)
<1>1. TypeOK /\ HostedOrGone /\ CapacityRespected /\ MaximumRequested
        => HostAutoJoined /\ MaximumEnforced
  <2> SUFFICES ASSUME TypeOK, HostedOrGone, CapacityRespected, MaximumRequested,
                      NEW l \in lobbies
               PROVE  /\ (\A t \in Threads : lobby[t] # l) => host[l] \in members[l]
                      /\ Cardinality(members[l]) <= maxPlayers[l]
    BY DEF HostAutoJoined, MaximumEnforced
  <2>1. l \in LobbyIds /\ host[l] # None
    BY DEF TypeOK
  <2>2. PICK n \in RequestedMax : maxPlayers[l] = Narrow(n)
    BY <2>1 DEF MaximumRequested
  <2>3. n \in Int
    BY WidthAssumption
  <2>4. Narrow(n) = n /\ Capacity(n) = n
    BY <2>3, ReasonableMaximum
  <2>5. maxPlayers[l] = n /\ Capacity(maxPlayers[l]) = n /\ n # 0
    BY <2>2, <2>3, <2>4
  <2>6. Cardinality(members[l]) <= maxPlayers[l]
    BY <2>1, <2>5 DEF CapacityRespected
  <2>7. (\A t \in Threads : lobby[t] # l) => host[l] \in members[l]
    BY <2>5 DEF HostedOrGone, TearingDown
  <2> QED BY <2>6, <2>7
<1> QED BY <1>1, TypeCorrect, HostInvCorrect, SeatInvCorrect, MaximumRequestedCorrect, PTL

-----------------------------------------------------------------------------
(* What a handler has done when it ends, and that it can only move on      *)

\* A bound on the calls a handler still makes.
CallsLeft(label) ==
    IF label = "idle" THEN 0
    ELSE IF label \in {"notifyJoined", "notifyRemoved", "notifyDestroyed"} THEN 1
    ELSE IF label \in {"add", "remove", "erase"} THEN 2
    ELSE IF label \in {"join", "kick", "clear"} THEN 3
    ELSE IF label = "copy" THEN 4
    ELSE 5

\* A call of the handler that t runs.
OwnStep(t) == IF t = "http" THEN HttpStep ELSE MonitorStep

\* No call of t can be made twice: each brings its handler nearer to its end.
LEMMA OwnStepAdvances ==
    ASSUME TypeOK, NEW t \in Threads, OwnStep(t)
    PROVE  /\ CallsLeft(pc'[t]) < CallsLeft(pc[t])
           /\ \A s \in Threads \ {t} : pc'[s] = pc[s]
<1> USE DEF TypeOK, CallsLeft
<1>1. CASE CopyMembers(t)
  BY <1>1 DEF CopyMembers
<1>2. CASE ClearMembers(t)
  BY <1>2 DEF ClearMembers, Goto
<1>3. CASE DestroyLobby(t)
  BY <1>3 DEF DestroyLobby, Goto, Return
<1>4. CASE NotifyDestroyed(t) \/ NotifyRemoved(t)
  BY <1>4 DEF NotifyDestroyed, NotifyRemoved, Return
<1>5. CASE RemoveMember(t)
  BY <1>5 DEF RemoveMember, Goto, Return
<1>6. CASE t = "http" /\ (JoinCheck \/ JoinAdd \/ NotifyJoined)
  BY <1>6 DEF JoinCheck, JoinAdd, NotifyJoined, Goto, Return
<1>7. CASE t = "http" /\ LeaveCheck
  BY <1>7 DEF LeaveCheck, Goto, Return
<1>8. CASE t = "http" /\ KickCheck
  BY <1>8 DEF KickCheck, Goto, Return
<1> QED
  BY <1>1, <1>2, <1>3, <1>4, <1>5, <1>6, <1>7, <1>8 DEF OwnStep, HttpStep, MonitorStep, Step, Threads

\* Every other step leaves a thread that is inside a handler where it is.
LEMMA OtherSteps ==
    ASSUME TypeOK, [Next]_vars, NEW t \in Threads, pc[t] # "idle", ~ OwnStep(t)
    PROVE  pc'[t] = pc[t] /\ lobby'[t] = lobby[t] /\ member'[t] = member[t]
<1> USE DEF TypeOK
<1>1. ASSUME NEW s \in Threads, s # t, OwnStep(s)
      PROVE  pc'[t] = pc[t] /\ lobby'[t] = lobby[t] /\ member'[t] = member[t]
  BY <1>1
     DEF OwnStep, HttpStep, MonitorStep, Step, CopyMembers, ClearMembers,
         DestroyLobby, NotifyDestroyed, RemoveMember, NotifyRemoved, JoinCheck,
         JoinAdd, NotifyJoined, LeaveCheck, KickCheck, Goto, Return
<1>2. ASSUME NEW u \in Users, NEW l \in LobbyIds, Request(u, l)
      PROVE  pc'[t] = pc[t] /\ lobby'[t] = lobby[t] /\ member'[t] = member[t]
  BY <1>2
     DEF Request, CreateLobby, JoinLobby, LeaveLobby, DestroyRequest, KickPlayer,
         Enter, local, Threads
<1>3. ASSUME NEW u \in Users, TimeOut(u)
      PROVE  pc'[t] = pc[t] /\ lobby'[t] = lobby[t] /\ member'[t] = member[t]
  BY <1>3 DEF TimeOut, Enter, Threads
<1>4. CASE ReadRequest \/ UNCHANGED vars
  BY <1>4 DEF ReadRequest, vars
<1>5. HttpStep = OwnStep("http") /\ MonitorStep = OwnStep("monitor")
  BY DEF OwnStep
<1>6. "http" \in Threads /\ "monitor" \in Threads
  BY DEF Threads
<1> QED BY <1>1, <1>2, <1>3, <1>4, <1>5, <1>6 DEF Next

\* Whatever the other thread does, a handler makes at most five calls: of the
\* liveness of handlers only that the thread runs is left to fairness.
THEOREM HandlersEnd ==
    Spec => [][\A t \in Threads : pc[t] # "idle" =>
                  IF OwnStep(t) THEN CallsLeft(pc'[t]) < CallsLeft(pc[t])
                                ELSE pc'[t] = pc[t]]_vars
<1>1. TypeOK /\ [Next]_vars
        => [\A t \in Threads : pc[t] # "idle" =>
               IF OwnStep(t) THEN CallsLeft(pc'[t]) < CallsLeft(pc[t])
                             ELSE pc'[t] = pc[t]]_vars
  BY OwnStepAdvances, OtherSteps
<1> QED BY <1>1, TypeCorrect, PTL DEF Spec

\* The thread handles the timeout of the host of its lobby.
HostTimeout ==
    pc["monitor"] # "idle" /\ member["monitor"] = host[lobby["monitor"]]

\* Such a handler tears its lobby down.
HostTimeoutPath ==
    HostTimeout =>
        /\ pc["monitor"] \in {"copy", "clear", "erase", "notifyDestroyed"}
        /\ pc["monitor"] = "notifyDestroyed" => lobby["monitor"] \notin lobbies

\* What HostTimeoutDestroys says of the end, for all constants: when the timeout
\* of a host has been handled its lobby is gone, whoever destroyed it.
THEOREM HostTimeoutEndsRight ==
    Spec => [][HostTimeout /\ pc'["monitor"] = "idle"
                  => lobby["monitor"] \notin lobbies']_vars
<1> USE DEF Threads
<1>1. Init => HostTimeoutPath
  BY DEF Init, HostTimeoutPath, HostTimeout
<1>2. ASSUME TypeOK, HostTimeoutPath, [Next]_vars
      PROVE  /\ HostTimeoutPath'
             /\ HostTimeout /\ pc'["monitor"] = "idle" => lobby["monitor"] \notin lobbies'
  <2> USE NoneAssumption DEF TypeOK, HostTimeoutPath, HostTimeout
  <2>1. CASE CopyMembers("monitor")
    BY <1>2, <2>1 DEF CopyMembers, shared
  <2>2. CASE ClearMembers("monitor")
    BY <1>2, <2>2 DEF ClearMembers, Goto
  <2>3. CASE DestroyLobby("monitor")
    BY <1>2, <2>3 DEF DestroyLobby, Goto, Return
  <2>4. CASE NotifyDestroyed("monitor")
    BY <1>2, <2>4 DEF NotifyDestroyed, Return, shared
  <2>5. CASE RemoveMember("monitor")
    BY <1>2, <2>5 DEF RemoveMember, Goto, Return
  <2>6. CASE NotifyRemoved("monitor")
    BY <1>2, <2>6 DEF NotifyRemoved, Return, shared
  <2>7. ASSUME NEW u \in Users, TimeOut(u)
        PROVE  /\ HostTimeoutPath'
               /\ HostTimeout /\ pc'["monitor"] = "idle" => lobby["monitor"] \notin lobbies'
    BY <1>2, <2>7 DEF TimeOut, Enter, shared
  <2>8. ASSUME NEW u \in Users, NEW l \in LobbyIds, NEW n \in RequestedMax,
               CreateLobby(u, l, n)
        PROVE  /\ HostTimeoutPath'
               /\ HostTimeout /\ pc'["monitor"] = "idle" => lobby["monitor"] \notin lobbies'
    BY <1>2, <2>8 DEF CreateLobby, local
  <2>9. ASSUME NEW u \in Users, NEW l \in LobbyIds,
               \/ JoinLobby(u, l)
               \/ LeaveLobby(u, l)
               \/ DestroyRequest(u, l)
               \/ \E target \in Users : KickPlayer(u, target, l)
        PROVE  /\ HostTimeoutPath'
               /\ HostTimeout /\ pc'["monitor"] = "idle" => lobby["monitor"] \notin lobbies'
    BY <1>2, <2>9 DEF JoinLobby, LeaveLobby, DestroyRequest, KickPlayer, Enter, shared
  <2>10. CASE HttpStep
    BY <1>2, <2>10
       DEF HttpStep, Step, CopyMembers, ClearMembers, DestroyLobby, NotifyDestroyed,
           RemoveMember, NotifyRemoved, JoinCheck, JoinAdd, NotifyJoined, LeaveCheck,
           KickCheck, Goto, Return, shared
  <2>11. CASE ReadRequest \/ UNCHANGED vars
    BY <1>2, <2>11 DEF ReadRequest, vars
  <2> QED
    BY <1>2, <2>1, <2>2, <2>3, <2>4, <2>5, <2>6, <2>7, <2>8, <2>9, <2>10, <2>11
       DEF Next, Request, MonitorStep, Step
<1> QED BY <1>1, <1>2, TypeCorrect, PTL DEF Spec

-----------------------------------------------------------------------------
(* The contract of open lobbies, whatever the threads do                   *)

\* The contract counts with the same operator.
LEMMA SameCardinality ==
    ASSUME NEW S PROVE OpenContract!Cardinality(S) = Cardinality(S)
BY DEF Cardinality, OpenContract!Cardinality

\* At the start no lobby is open.
LEMMA OpenContractInit == Init => OpenContract!Init
<1> SUFFICES ASSUME Init PROVE OpenContract!Init
  OBVIOUS
<1>1. \A l \in LobbyIds : RoomOf(l) = "unused" /\ Roster(l) = {}
  BY DEF Init, RoomOf, Roster
<1>2. Capacity(0) = 0
  BY WidthAssumption DEF Capacity
<1> QED BY <1>1, <1>2 DEF Init, OpenContract!Init

\* What clients of the contract see depends on the lobbies and on who is
\* tearing one down.
LEMMA OpenContractStutter ==
    ASSUME UNCHANGED shared, \A k \in LobbyIds : TearingDown(k)' = TearingDown(k)
    PROVE  UNCHANGED OpenContract!contract
<1>1. \A k \in LobbyIds : RoomOf(k)' = RoomOf(k)
  BY DEF RoomOf, shared
<1>2. \A k \in LobbyIds : Roster(k)' = Roster(k)
  BY <1>1 DEF Roster, shared
<1> QED BY <1>1, <1>2 DEF shared, OpenContract!contract

\* A call of a handler, of either thread, that changes the members or the
\* registry: it closes a lobby, lets a member depart, or concerns a lobby that
\* is closed and stays so.
LEMMA OpenContractCall ==
    ASSUME TypeOK, RemovalSparesHost, NEW t \in Threads,
           ClearMembers(t) \/ DestroyLobby(t) \/ RemoveMember(t)
    PROVE  [OpenContract!Next]_(OpenContract!contract)
<1> USE NoneAssumption
<1>1. PICK l \in LobbyIds : l = lobby[t] /\ host[l] # None
  BY DEF ClearMembers, DestroyLobby, RemoveMember, TypeOK
<1>2. host' = host /\ maxPlayers' = maxPlayers
  BY DEF ClearMembers, DestroyLobby, RemoveMember
<1>3. CASE ClearMembers(t)
  <2>1. RoomOf(l)' = "closed" /\ Roster(l)' = {}
    BY <1>1, <1>3 DEF ClearMembers, Goto, RoomOf, Roster, TearingDown, TypeOK
  <2>2. ASSUME NEW k \in LobbyIds, k # l
        PROVE  RoomOf(k)' = RoomOf(k) /\ Roster(k)' = Roster(k)
    BY <1>1, <1>3, <2>2 DEF ClearMembers, Goto, RoomOf, Roster, TearingDown, TypeOK
  <2>3. CASE RoomOf(l) = "open"
    <3>1. OpenContract!Close(l)
      BY <1>2, <2>1, <2>2, <2>3 DEF OpenContract!Close
    <3> QED BY <3>1 DEF OpenContract!Next
  <2>4. CASE RoomOf(l) # "open"
    <3>1. RoomOf(l) = "closed" /\ Roster(l) = {}
      BY <1>1, <2>4 DEF RoomOf, Roster
    <3> QED BY <1>2, <2>1, <2>2, <3>1 DEF OpenContract!contract
  <2> QED BY <2>3, <2>4
<1>4. CASE DestroyLobby(t)
  <2>1. ASSUME NEW k \in LobbyIds PROVE RoomOf(k)' = RoomOf(k)
    BY <1>4 DEF DestroyLobby, Goto, Return, RoomOf, TearingDown, TypeOK
  <2>2. ASSUME NEW k \in LobbyIds PROVE Roster(k)' = Roster(k)
    BY <1>4, <2>1 DEF DestroyLobby, Roster
  <2> QED BY <1>2, <2>1, <2>2 DEF OpenContract!contract
<1>5. CASE RemoveMember(t)
  <2>1. \A k \in LobbyIds : RoomOf(k)' = RoomOf(k)
    BY <1>5 DEF RemoveMember, Goto, Return, RoomOf, TearingDown, TypeOK
  <2>2. CASE RoomOf(l) = "open" /\ member[t] \in members[l]
    <3>1. PICK u \in Users : u = member[t] /\ u # host[l]
      BY <1>1, <1>5 DEF RemoveMember, RemovalSparesHost, TypeOK
    <3>2. members' = [members EXCEPT ![l] = @ \ {u}]
      BY <1>1, <1>5, <2>2, <3>1 DEF RemoveMember
    <3>3. Roster(l) = members[l] /\ Roster(l)' = members[l] \ {u}
      BY <2>1, <2>2, <3>2 DEF Roster, TypeOK
    <3>4. ASSUME NEW k \in LobbyIds, k # l PROVE Roster(k)' = Roster(k)
      BY <2>1, <3>2, <3>4 DEF Roster, TypeOK
    <3>5. OpenContract!Depart(l, u)
      BY <1>2, <2>1, <2>2, <3>1, <3>3, <3>4 DEF OpenContract!Depart
    <3> QED BY <3>5 DEF OpenContract!Next
  <2>3. CASE ~ (RoomOf(l) = "open" /\ member[t] \in members[l])
    <3>1. \A k \in LobbyIds : Roster(k)' = Roster(k)
      BY <1>1, <1>5, <2>1, <2>3 DEF RemoveMember, Roster, TypeOK
    <3> QED BY <1>2, <2>1, <3>1 DEF OpenContract!contract
  <2> QED BY <2>2, <2>3
<1> QED BY <1>3, <1>4, <1>5

\* A join admits its user when the lobby is open and has room at the moment
\* it adds, whatever it found when it checked.
LEMMA OpenContractJoin ==
    ASSUME TypeOK, FiniteMembers, JoinAdd
    PROVE  [OpenContract!Next]_(OpenContract!contract)
<1> USE NoneAssumption
<1>1. PICK l \in LobbyIds : l = lobby["http"] /\ host[l] # None
  BY DEF JoinAdd, TypeOK, Threads
<1>2. PICK u \in Users : u = member["http"]
  BY DEF JoinAdd, TypeOK, Threads
<1>3. host' = host /\ maxPlayers' = maxPlayers
  BY DEF JoinAdd
<1>4. \A k \in LobbyIds : RoomOf(k)' = RoomOf(k)
  BY DEF JoinAdd, Goto, Return, RoomOf, TearingDown, TypeOK, Threads
<1>5. members' = [members EXCEPT ![l] = AddMember(@, maxPlayers[l], u)]
  BY <1>1, <1>2 DEF JoinAdd
<1>6. CASE /\ RoomOf(l) = "open"
           /\ ~ (IsFull(members[l], maxPlayers[l]) \/ u \in members[l])
  <2>1. members' = [members EXCEPT ![l] = @ \union {u}]
    BY <1>5, <1>6 DEF AddMember
  <2>2. Roster(l) = members[l] /\ Roster(l)' = members[l] \union {u}
    BY <1>4, <1>6, <2>1 DEF Roster, TypeOK
  <2>3. ASSUME NEW k \in LobbyIds, k # l PROVE Roster(k)' = Roster(k)
    BY <1>4, <2>1, <2>3 DEF Roster, TypeOK
  <2>4. OpenContract!Cardinality(members[l]) < Capacity(maxPlayers[l])
    <3>1. Capacity(maxPlayers[l]) \in Nat
      BY CapacityType DEF TypeOK
    <3>2. Cardinality(members[l]) \in Nat
      BY FS_CardinalityType DEF FiniteMembers
    <3> QED BY <1>6, <3>1, <3>2, SameCardinality DEF IsFull
  <2>5. OpenContract!Admit(l, u)
    BY <1>3, <1>4, <1>6, <2>2, <2>3, <2>4 DEF OpenContract!Admit
  <2> QED BY <2>5 DEF OpenContract!Next
<1>7. CASE ~ (/\ RoomOf(l) = "open"
              /\ ~ (IsFull(members[l], maxPlayers[l]) \/ u \in members[l]))
  <2>1. \A k \in LobbyIds : Roster(k)' = Roster(k)
    BY <1>4, <1>5, <1>7 DEF AddMember, Roster, TypeOK
  <2> QED BY <1>3, <1>4, <2>1 DEF OpenContract!contract
<1> QED BY <1>6, <1>7

\* The new lobby opens with its owner inside, if anybody fits.
LEMMA OpenContractCreate ==
    ASSUME TypeOK, NEW u \in Users, NEW l \in LobbyIds, NEW n \in RequestedMax,
           CreateLobby(u, l, n)
    PROVE  OpenContract!Next
<1> USE NoneAssumption
<1>1. RoomOf(l) = "unused" /\ RoomOf(l)' = "open"
  BY DEF CreateLobby, RoomOf, TearingDown, TypeOK, local
<1>2. ASSUME NEW k \in LobbyIds, k # l
      PROVE  RoomOf(k)' = RoomOf(k) /\ Roster(k)' = Roster(k)
  BY <1>2 DEF CreateLobby, RoomOf, Roster, TearingDown, TypeOK, local
<1>3. AddMember({}, Narrow(n), u) = IF Capacity(Narrow(n)) = 0 THEN {} ELSE {u}
  BY NarrowType, CapacityType, FS_EmptySet DEF AddMember, IsFull
<1>4. Roster(l)' = IF Capacity(Narrow(n)) = 0 THEN {} ELSE {u}
  BY <1>1, <1>3 DEF CreateLobby, Roster, TypeOK
<1>5. OpenContract!Open(l, u, Capacity(Narrow(n)))
  BY <1>1, <1>2, <1>4 DEF CreateLobby, OpenContract!Open, TypeOK
<1> QED BY <1>5 DEF OpenContract!Next

\* Every other step starts a handler, checks, copies or announces.
LEMMA OpenContractStep ==
    ASSUME TypeOK, FiniteMembers, RemovalSparesHost, [Next]_vars
    PROVE  [OpenContract!Next]_(OpenContract!contract)
<1>1. ASSUME NEW u \in Users, NEW l \in LobbyIds,
             \/ JoinLobby(u, l)
             \/ LeaveLobby(u, l)
             \/ DestroyRequest(u, l)
             \/ \E target \in Users : KickPlayer(u, target, l)
      PROVE UNCHANGED OpenContract!contract
  <2>1. UNCHANGED shared /\ \A k \in LobbyIds : TearingDown(k)' = TearingDown(k)
    BY <1>1 DEF JoinLobby, LeaveLobby, DestroyRequest, KickPlayer, Enter,
                TearingDown, TypeOK, Threads
  <2> QED BY <2>1, OpenContractStutter
<1>2. ASSUME NEW u \in Users, TimeOut(u) PROVE UNCHANGED OpenContract!contract
  <2>1. UNCHANGED shared /\ \A k \in LobbyIds : TearingDown(k)' = TearingDown(k)
    BY <1>2 DEF TimeOut, Enter, TearingDown, TypeOK, Threads
  <2> QED BY <2>1, OpenContractStutter
<1>3. CASE JoinCheck \/ NotifyJoined \/ LeaveCheck \/ KickCheck
  <2>1. UNCHANGED shared /\ \A k \in LobbyIds : TearingDown(k)' = TearingDown(k)
    BY <1>3 DEF JoinCheck, NotifyJoined, LeaveCheck, KickCheck, Goto, Return, TearingDown,
                TypeOK, Threads
  <2> QED BY <2>1, OpenContractStutter
<1>4. ASSUME NEW t \in Threads, CopyMembers(t) \/ NotifyDestroyed(t) \/ NotifyRemoved(t)
      PROVE UNCHANGED OpenContract!contract
  <2>1. UNCHANGED shared /\ \A k \in LobbyIds : TearingDown(k)' = TearingDown(k)
    BY <1>4 DEF CopyMembers, NotifyDestroyed, NotifyRemoved, Return, TearingDown,
                TypeOK
  <2> QED BY <2>1, OpenContractStutter
<1>5. CASE ReadRequest \/ UNCHANGED vars
  <2>1. UNCHANGED shared /\ \A k \in LobbyIds : TearingDown(k)' = TearingDown(k)
    BY <1>5 DEF ReadRequest, vars, shared, TearingDown
  <2> QED BY <2>1, OpenContractStutter
<1>6. "http" \in Threads /\ "monitor" \in Threads
  BY DEF Threads
<1> QED
  BY <1>1, <1>2, <1>3, <1>4, <1>5, <1>6, OpenContractCreate, OpenContractJoin,
     OpenContractCall
     DEF Next, Request, HttpStep, MonitorStep, Step

\* Whatever races with whatever, an open lobby keeps LobbyContract: it admits
\* while there is room, its owner only goes by closing it, and it stays closed.
THEOREM OpenContractCorrect == Spec => OpenContractKept
<1>1. TypeOK /\ FiniteMembers /\ RemovalSparesHost /\ [Next]_vars
        => [OpenContract!Next]_(OpenContract!contract)
  BY OpenContractStep
<1> QED
  BY <1>1, OpenContractInit, TypeCorrect, SeatInvCorrect, HostInvCorrect, PTL
     DEF Spec, OpenContractKept, OpenContract!Spec

-----------------------------------------------------------------------------
(* The server without a realtime thread (IoThreads = 0), where only the    *)
(* HTTP thread touches lobbies: everybody who loses a membership is told,  *)
(* and the lobbies implement LobbyContract.                                *)

\* What the HTTP thread knows of its lobby when nobody interferes, label by
\* label, and that the monitor thread never starts.
Undisturbed ==
    /\ pc["monitor"] = "idle"
    /\ pc["http"] \in Labels \ {"idle", "notifyDestroyed", "notifyRemoved"} =>
           lobby["http"] \in lobbies
    /\ pc["http"] = "copy" => member["http"] = host[lobby["http"]]
    /\ pc["http"] = "clear" => recipients["http"] = members[lobby["http"]]
    /\ pc["http"] = "erase" => members[lobby["http"]] = {}
    /\ \A l \in LobbyIds \ lobbies : members[l] = {}

\* Exactly the memberships the HTTP thread is about to announce are owed.
OwedToRecipients ==
    /\ pc["http"] \in {"erase", "notifyDestroyed"} =>
           owed = {lobby["http"]} \X recipients["http"]
    /\ pc["http"] = "notifyRemoved" =>
           owed = {<<lobby["http"], member["http"]>>}
    /\ pc["http"] \notin {"erase", "notifyDestroyed", "notifyRemoved"} =>
           owed = {}

\* Nothing is running at the start.
LEMMA SequentialInit == Init => Undisturbed /\ OwedToRecipients
BY DEF Init, Undisturbed, OwedToRecipients, Threads, Labels

LEMMA SequentialStep ==
    ASSUME IoThreads = 0, TypeOK, RemovalSparesHost, Undisturbed,
           OwedToRecipients, [Next]_vars
    PROVE  (Undisturbed /\ OwedToRecipients)'
<1> USE NoneAssumption
    DEF TypeOK, RemovalSparesHost, Undisturbed, OwedToRecipients, Labels, Threads
<1>1. ASSUME NEW u \in Users, NEW l \in LobbyIds, NEW n \in RequestedMax,
             CreateLobby(u, l, n)
      PROVE (Undisturbed /\ OwedToRecipients)'
  BY <1>1 DEF CreateLobby, local, history
<1>2. ASSUME NEW u \in Users, NEW l \in LobbyIds,
             \/ JoinLobby(u, l)
             \/ LeaveLobby(u, l)
             \/ DestroyRequest(u, l)
             \/ \E target \in Users : KickPlayer(u, target, l)
      PROVE (Undisturbed /\ OwedToRecipients)'
  BY <1>2 DEF JoinLobby, LeaveLobby, DestroyRequest, KickPlayer, Enter, shared, history
<1>3. ASSUME NEW u \in Users, TimeOut(u) PROVE FALSE
  BY <1>3, IoThreadsAssumption DEF TimeOut
<1>4. CASE JoinCheck \/ NotifyJoined \/ LeaveCheck \/ KickCheck
  BY <1>4 DEF JoinCheck, NotifyJoined, LeaveCheck, KickCheck, Goto, Return, shared,
              history
<1>5. CASE JoinAdd
  BY <1>5 DEF JoinAdd, AddMember, Goto, Return
<1>6. CASE CopyMembers("http")
  BY <1>6 DEF CopyMembers, shared, history
<1>7. CASE ClearMembers("http")
  BY <1>7 DEF ClearMembers, Goto
<1>8. CASE DestroyLobby("http")
  BY <1>8 DEF DestroyLobby, Goto, Return
<1>9. CASE NotifyDestroyed("http")
  BY <1>9 DEF NotifyDestroyed, Return, shared
<1>10. CASE RemoveMember("http")
  BY <1>10 DEF RemoveMember, Goto, Return
<1>11. CASE NotifyRemoved("http")
  BY <1>11 DEF NotifyRemoved, Return, shared
<1>12. CASE ReadRequest \/ UNCHANGED vars
  BY <1>12 DEF ReadRequest, vars, history
<1>13. ~ MonitorStep
  BY DEF MonitorStep, Step, CopyMembers, ClearMembers, DestroyLobby,
         NotifyDestroyed, RemoveMember, NotifyRemoved
<1> QED
  BY <1>1, <1>2, <1>3, <1>4, <1>5, <1>6, <1>7, <1>8, <1>9, <1>10, <1>11, <1>12,
     <1>13 DEF Next, Request, HttpStep, Step

\* Nobody interferes with the HTTP thread, in every state the committed
\* server reaches.
LEMMA Sequential ==
    ASSUME IoThreads = 0
    PROVE  Spec => [](TypeOK /\ RemovalSparesHost /\ Undisturbed /\ OwedToRecipients)
<1>1. TypeOK /\ RemovalSparesHost /\ Undisturbed /\ OwedToRecipients /\ [Next]_vars
        => (Undisturbed /\ OwedToRecipients)'
  BY SequentialStep
<1> QED BY <1>1, SequentialInit, TypeCorrect, HostInvCorrect, PTL DEF Spec

\* Without a realtime thread, whoever lost a membership has been told once no
\* request is running, and nobody is a member of a lobby that is gone.
THEOREM MembersToldCorrect == ASSUME IoThreads = 0 PROVE Spec => []MembersTold
<1>1. Undisturbed /\ OwedToRecipients => MembersTold
  BY DEF Undisturbed, OwedToRecipients, MembersTold, Idle, Threads
<1> QED BY <1>1, Sequential, PTL

-----------------------------------------------------------------------------
(* The refinement                                                          *)

\* When nobody interferes, a lobby that is not open holds nobody.
LEMMA ClosedEmpty ==
    ASSUME TypeOK, Undisturbed
    PROVE  [l \in LobbyIds |-> Roster(l)] = members
<1>1. ASSUME NEW l \in LobbyIds PROVE Roster(l) = members[l]
  BY NoneAssumption DEF TypeOK, Undisturbed, Roster, RoomOf, TearingDown, Threads
<1> QED BY <1>1 DEF TypeOK

\* Without a realtime thread, lobbies behave as LobbyContract promises, closed
\* ones too: closing leaves nobody behind, and nobody enters afterwards.
THEOREM ContractCorrect == ASSUME IoThreads = 0 PROVE Spec => ContractKept
<1>1. TypeOK /\ Undisturbed /\ OpenContract!Init => Contract!Init
  BY ClosedEmpty DEF OpenContract!Init, Contract!Init
<1>2. TypeOK /\ Undisturbed => [l \in LobbyIds |-> Roster(l)] = members
  BY ClosedEmpty
<1>3. (TypeOK /\ Undisturbed => [l \in LobbyIds |-> Roster(l)] = members)'
  BY <1>2, PTL
<1>4. ASSUME TypeOK, Undisturbed, (TypeOK /\ Undisturbed)',
             [OpenContract!Next]_(OpenContract!contract)
      PROVE  [Contract!Next]_(Contract!contract)
  <2>1. [l \in LobbyIds |-> Roster(l)] = members
    BY <1>2, <1>4
  <2>2. [l \in LobbyIds |-> Roster(l)'] = members'
    BY <1>3, <1>4
  <2>3. \A S : OpenContract!Cardinality(S) = Contract!Cardinality(S)
    BY DEF OpenContract!Cardinality, Contract!Cardinality
  <2> QED
    BY <1>4, <2>1, <2>2, <2>3
       DEF OpenContract!Next, OpenContract!Open, OpenContract!Admit,
           OpenContract!Depart, OpenContract!Close, OpenContract!contract,
           Contract!Next, Contract!Open, Contract!Admit, Contract!Depart,
           Contract!Close, Contract!contract
<1> QED
  BY <1>1, <1>4, OpenContractCorrect, Sequential, PTL
     DEF OpenContractKept, OpenContract!Spec, ContractKept, Contract!Spec
=============================================================================
