--------------------------- MODULE LobbyContract ---------------------------
(***************************************************************************)
(* What the lobby feature promises its clients: a lobby is opened by its   *)
(* owner, people enter while there is room, anybody but the owner may      *)
(* depart alone, and the owner only goes together with the lobby, in one   *)
(* step that leaves nobody behind.  A closed lobby stays closed and empty. *)
(***************************************************************************)
EXTENDS Naturals, FiniteSets

CONSTANTS Users, LobbyIds, None,
          Limits    \* the room sizes an owner may ask for

VARIABLES
    room,     \* "unused", "open" or "closed", for every lobby
    owner,    \* who opened it
    limit,    \* how many people it admits
    roster    \* who is inside

contract == <<room, owner, limit, roster>>

Init ==
    /\ room = [l \in LobbyIds |-> "unused"]
    /\ owner = [l \in LobbyIds |-> None]
    /\ limit = [l \in LobbyIds |-> 0]
    /\ roster = [l \in LobbyIds |-> {}]

\* The owner gets the first seat, if there is one.
Open(l, u, n) ==
    /\ room[l] = "unused"
    /\ room' = [room EXCEPT ![l] = "open"]
    /\ owner' = [owner EXCEPT ![l] = u]
    /\ limit' = [limit EXCEPT ![l] = n]
    /\ roster' = [roster EXCEPT ![l] = IF n = 0 THEN {} ELSE {u}]

Admit(l, u) ==
    /\ room[l] = "open"
    /\ u \notin roster[l]
    /\ Cardinality(roster[l]) < limit[l]
    /\ roster' = [roster EXCEPT ![l] = @ \union {u}]
    /\ UNCHANGED <<room, owner, limit>>

Depart(l, u) ==
    /\ room[l] = "open"
    /\ u \in roster[l]
    /\ u # owner[l]
    /\ roster' = [roster EXCEPT ![l] = @ \ {u}]
    /\ UNCHANGED <<room, owner, limit>>

Close(l) ==
    /\ room[l] = "open"
    /\ room' = [room EXCEPT ![l] = "closed"]
    /\ roster' = [roster EXCEPT ![l] = {}]
    /\ UNCHANGED <<owner, limit>>

Next == \E l \in LobbyIds :
    \/ Close(l)
    \/ \E u \in Users, n \in Limits : Open(l, u, n)
    \/ \E u \in Users : Admit(l, u) \/ Depart(l, u)

Spec == Init /\ [][Next]_contract
=============================================================================
