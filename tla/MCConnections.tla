----------------------------- MODULE MCConnections -----------------------------
(* Small instances of Connections for TLC. *)
EXTENDS Connections, TLC

CONSTANTS r1, r2

TwoRooms == <<r1, r2>>

Symmetry ==
  Permutations(Users) \cup Permutations(Clients) \cup Permutations(Sockets)
    \cup Permutations(Sessions)
=============================================================================
