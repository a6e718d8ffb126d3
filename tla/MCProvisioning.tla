--------------------------- MODULE MCProvisioning ---------------------------
(* Provisioning on a small instance: a container of the version before, one *)
(* of the new one, and an operator's machine that has the new one as well.  *)
EXTENDS Provisioning, TLC

CONSTANTS older, newer, laptop, retired, kept, added

MCContainers == {older, newer}
MCCodes      == {retired, kept, added}
MCCatalogue  == [p \in MCContainers \cup {laptop} |->
                    IF p = older THEN {retired, kept} ELSE {kept, added}]

Sym == Permutations(Emails) \cup Permutations(Requests)
=============================================================================
