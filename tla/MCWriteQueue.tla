--------------------------- MODULE MCWriteQueue ---------------------------
(* Values for WriteQueue: two messages that can be told apart.            *)
EXTENDS WriteQueue, TLC

CONSTANTS m1, m2

MCMessages == {m1, m2}
=============================================================================
