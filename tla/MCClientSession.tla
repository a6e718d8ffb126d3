-------------------------- MODULE MCClientSession --------------------------
(* ClientSession on a small instance: two tabs, each with the call of       *)
(* restore() and one more; or one tab with two more, for liveness.          *)
EXTENDS ClientSession, TLC

Sym == Permutations(Tabs) \cup Permutations(Users) \cup Permutations(Own)
=============================================================================
