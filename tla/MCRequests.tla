------------------------------ MODULE MCRequests ------------------------------
(* Small instances of Requests for TLC. *)
EXTENDS Requests, TLC

Symmetry ==
  Permutations(Users) \cup Permutations(Keys) \cup Permutations(Tickets)
    \cup Permutations(Calls)
=============================================================================
