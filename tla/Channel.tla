------------------------------ MODULE Channel ------------------------------
(***************************************************************************)
(* What a sender may expect of ClientConnection::Send: the messages it     *)
(* accepted go out in that order, none twice and none left out, until the  *)
(* connection breaks.  After that nothing goes out.                        *)
(***************************************************************************)
EXTENDS Naturals, Sequences

CONSTANT Messages

VARIABLES accepted, wire, broken

vars == <<accepted, wire, broken>>

Init == accepted = <<>> /\ wire = <<>> /\ broken = FALSE

Offer(m) ==
    /\ ~broken
    /\ accepted' = Append(accepted, m)
    /\ UNCHANGED <<wire, broken>>

Deliver ==
    /\ ~broken
    /\ Len(wire) < Len(accepted)
    /\ wire' = Append(wire, accepted[Len(wire) + 1])
    /\ UNCHANGED <<accepted, broken>>

Break ==
    /\ ~broken
    /\ broken' = TRUE
    /\ UNCHANGED <<accepted, wire>>

Next == (\E m \in Messages : Offer(m)) \/ Deliver \/ Break

Spec == Init /\ [][Next]_vars
=============================================================================
