----------------------------- MODULE MCServer -----------------------------
(* Values for Server: one player on the realtime port and one user who only *)
(* sends requests, two lobbies with two seats.                              *)
EXTENDS Server, TLC

CONSTANTS ann, bob, L1, L2

MCUsers == {ann, bob}
MCPlayers == {ann}
MCLobbyIds == {L1, L2}
MCMaxima == {2}
=============================================================================
