------------------------------ MODULE Presence ------------------------------
(***************************************************************************)
(* What the realtime side promises the lobby side: a player comes online   *)
(* only from being away, and whoever stays away for a reconnect window is  *)
(* reported once, in rounds that end before the next one begins.  A player *)
(* who comes back after the round has begun is reported all the same.      *)
(***************************************************************************)
CONSTANT Users

VARIABLES
    presence,   \* "none", "online" or "awaiting" a reconnect
    expired     \* the users of this round still to be reported

presenceVars == <<presence, expired>>

Init ==
    /\ presence = [u \in Users |-> "none"]
    /\ expired = {}

Connect(u) ==
    /\ presence[u] # "online"
    /\ presence' = [presence EXCEPT ![u] = "online"]
    /\ UNCHANGED expired

\* A loss may be noticed twice: whoever is away then begins another window.
Disconnect(u) ==
    /\ presence' = [presence EXCEPT ![u] = "awaiting"]
    /\ UNCHANGED expired

Expire(S) ==
    /\ expired = {}
    /\ S # {}
    /\ \A u \in S : presence[u] = "awaiting"
    /\ presence' = [u \in Users |-> IF u \in S THEN "none" ELSE presence[u]]
    /\ expired' = S

Report(u) ==
    /\ u \in expired
    /\ expired' = expired \ {u}
    /\ UNCHANGED presence

Next ==
    \/ \E u \in Users : Connect(u) \/ Disconnect(u) \/ Report(u)
    \/ \E S \in SUBSET Users : Expire(S)

Spec == Init /\ [][Next]_presenceVars
=============================================================================
