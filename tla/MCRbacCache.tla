---------------------------- MODULE MCRbacCache ----------------------------
(* RbacCache on a small instance: one member and one role below OWNER, one  *)
(* process with two requests; what a request has committed before it is     *)
(* aborted is to its cache as the write of another process.  TTL and        *)
(* Latency are in ticks.                                                    *)
EXTENDS RbacCache, TLC

CONSTANTS read, write

MCCodes     == {read, write}
MCRoles     == {"EMPLOYEE"}
MCDefault   == [R \in MCRoles |-> {read}]
MCMatrices  == {{}, {write}}
MCOverrides == {[c \in MCCodes |-> IF c = write THEN "grant" ELSE "none"],
                [c \in MCCodes |-> IF c = write THEN "revoke" ELSE "none"]}
Sym == Permutations(Requests) \cup Permutations(Processes)
=============================================================================
