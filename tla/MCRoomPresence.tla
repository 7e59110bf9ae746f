--------------------------- MODULE MCRoomPresence ---------------------------
(***************************************************************************)
(* Two seats and three people who come, go and lose their connection.      *)
(***************************************************************************)
EXTENDS RoomPresence, TLC

CONSTANTS p1, p2, p3

MCPlayers == {p1, p2, p3}
Symmetry == Permutations(MCPlayers)
=============================================================================
