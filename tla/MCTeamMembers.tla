--------------------------- MODULE MCTeamMembers ---------------------------
(* TeamMembers on a small instance: nothing in it grows, so there is no bound. *)
EXTENDS TeamMembers, TLC

Symmetry == Permutations(Members) \cup Permutations(Requests)
=============================================================================
