-------------------------- MODULE MCLoginLockout --------------------------
(* LoginLockout on a small instance; no variable grows without bound. *)
EXTENDS LoginLockout, TLC

Symmetry == Permutations(Requests)
=============================================================================
