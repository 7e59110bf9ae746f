------------------------------- MODULE MCRoom -------------------------------
(***************************************************************************)
(* A table for two, three people who may want to sit at it, two rounds.    *)
(***************************************************************************)
EXTENDS Room, TLC

CONSTANTS p1, p2, p3

MCPlayers == {p1, p2, p3}
MCMembers == {p1, p2}

\* Members are interchangeable; the third person is not one.
Symmetry == Permutations(MCMembers)
=============================================================================
