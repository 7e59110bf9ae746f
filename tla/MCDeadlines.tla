----------------------------- MODULE MCDeadlines -----------------------------
(* Two server processes; calm behaviours use one of them. *)
EXTENDS Deadlines, TLC

CONSTANTS s1, s2

MCProcs == {s1, s2}
Symmetry == Permutations(MCProcs)
=============================================================================
