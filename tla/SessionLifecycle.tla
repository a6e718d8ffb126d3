-------------------------- MODULE SessionLifecycle --------------------------
(***************************************************************************)
(* What the API promises about a login session, with no tokens in sight:   *)
(* a session is opened once, and once it is closed - by a logout, by reuse *)
(* detection, by a deactivation, by a server that died while renewing it - *)
(* it is never opened again.  The one exception the code leaves room for   *)
(* is named: a session is "overrun" when a request extended it on the      *)
(* strength of rows that another request had revoked in the meantime.      *)
(***************************************************************************)
EXTENDS Naturals

CONSTANT Sessions       \* every session that can ever exist

VARIABLE phase          \* phase[s]: where s is in its life

Phase == {"none", "open", "closed", "overrun"}

Init == phase = [s \in Sessions |-> "none"]

Open(s) ==
    /\ phase[s] = "none"
    /\ phase' = [phase EXCEPT ![s] = "open"]

\* Deactivating a member closes all of that member's sessions at once.
Close(S) ==
    /\ \A s \in S : phase[s] = "open"
    /\ phase' = [s \in Sessions |-> IF s \in S THEN "closed" ELSE phase[s]]

Overrun(s) == phase' = [phase EXCEPT ![s] = "overrun"]

Next ==
    \/ \E s \in Sessions : Open(s) \/ Overrun(s)
    \/ \E S \in SUBSET Sessions : Close(S)

Spec == Init /\ [][Next]_phase
=============================================================================
