----------------------------- MODULE MCLobbies -----------------------------
(* Values for Lobbies: widths scaled down to 3 and 6 bits, and requested    *)
(* maxima that stay in range, are zero, wrap to zero and are negative.      *)
EXTENDS Lobbies, TLC

CONSTANTS ann, bob, cat, L1, L2

MCUsers == {ann, bob, cat}
MCLobbyIds == {L1, L2}
MCEdges == {2, 8, -1}
MCSymmetry == Permutations(MCUsers) \union Permutations(MCLobbyIds)
=============================================================================
