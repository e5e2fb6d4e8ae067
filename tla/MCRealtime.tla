---------------------------- MODULE MCRealtime ----------------------------
(* Values for Realtime: two players or one, and two connections, for a      *)
(* reconnect or one each, or a single connection.                           *)
EXTENDS Realtime, TLC

CONSTANTS ann, bob, c1, c2

MCOne == {ann}
MCTwo == {ann, bob}
MCOneConn == {c1}
MCTwoConns == {c1, c2}
=============================================================================
