-------------------------- MODULE MCRefreshTokens --------------------------
(***************************************************************************)
(* RefreshTokens on a small instance.  Tokens is finite and a row is never *)
(* deleted, so the module's only bound is the number of tokens that can be *)
(* issued; a behaviour goes on without issuing once they are used up.      *)
(***************************************************************************)
EXTENDS RefreshTokens, TLC

Symmetry == Permutations(Users) \cup Permutations(Tokens) \cup Permutations(Requests)
=============================================================================
