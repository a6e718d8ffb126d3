--------------------------- MODULE MCInvitations ---------------------------
(***************************************************************************)
(* Invitations on a small instance.  Its one bound is the number of        *)
(* invitations: once all are sent, a request to invite can only be refused *)
(* or aborted.                                                             *)
(***************************************************************************)
EXTENDS Invitations, TLC

Symmetry == Permutations(Emails) \cup Permutations(Invites) \cup Permutations(Requests)
=============================================================================
