---------------------------- MODULE TeamMembers ----------------------------
(***************************************************************************)
(* Who may change whose standing in an office: updateMember and            *)
(* deactivateMember of apps/api/src/team/team.service.ts, behind the guard *)
(* of jwt-auth.guard.ts, for the members of one tenant.  The guard takes a *)
(* snapshot of the caller, the handler a snapshot of the target and a      *)
(* count of the active owners; the write at the end is an update by id     *)
(* that re-checks none of them.                                            *)
(*                                                                         *)
(* Of the roles only OWNER matters to these checks; STAFF stands for the   *)
(* others.  SUSPENDED stands for every status that is not ACTIVE.          *)
(***************************************************************************)
EXTENDS FiniteSets, Naturals

CONSTANTS
    Members,    \* the rows of users with this tenant's tenantId
    Requests    \* slots for the requests the API is serving at one time

ASSUME MembersAssumption == IsFiniteSet(Members)

VARIABLES
    role,       \* users.role
    status,     \* users.status
    req,        \* per request: the next await, and what was read so far
    (* History variables *)
    overtaken,  \* requests one of whose snapshots another request has falsified
    raced       \* whether an overtaken request has ever written

vars == <<role, status, req, overtaken, raced>>

Role   == {"OWNER", "STAFF"}
Status == {"ACTIVE", "SUSPENDED"}
Keep   == "keep"                       \* a field the dto leaves undefined

\* UpdateMemberDto, as far as the checks look at it.  deactivateMember is the
\* patch that sets SUSPENDED and keeps the role: its own check, that nobody
\* deactivates themselves, is the status check of assertNotSelfDemotion.
Patch == [role: Role \cup {Keep}, status: Status \cup {Keep}]

Done    == [at |-> "idle"]
Pending == [at: {"read_target", "count_owners", "write"}, actor: Members, ctxRole: Role,
            target: Members, patch: Patch]

\* Type correctness of the member rows and of what requests carry.
TypeOK ==
    /\ role \in [Members -> Role]
    /\ status \in [Members -> Status]
    /\ req \in [Requests -> {Done} \cup Pending]
    /\ overtaken \subseteq Requests
    /\ raced \in BOOLEAN

-----------------------------------------------------------------------------
ActiveOwners == {m \in Members : role[m] = "OWNER" /\ status[m] = "ACTIVE"}

\* Mutated: a field that was left out of the request is written as it came.
ApplyVerbatim(value, field) == field

\* dto: a field that is left out keeps its value.
Apply(value, field) == IF field = Keep THEN value ELSE field

\* Mutated: only the role is looked at, so members can reinstate themselves.
SelfDemotionRoleOnly(q) ==
    q.target = q.actor /\ q.patch.role \notin {Keep, q.ctxRole}

\* assertNotSelfDemotion: the role is compared with the guard's snapshot.
SelfDemotion(q) ==
    /\ q.target = q.actor
    /\ \/ q.patch.role \notin {Keep, q.ctxRole}
       \/ q.patch.status \notin {Keep, "ACTIVE"}

\* Mutated: a suspension is not taken for the loss of an owner.
LosesOwnerByRole(patch) == patch.role = "STAFF"

\* losingOwner in assertNotLastOwner.
LosesOwner(patch) == patch.role = "STAFF" \/ patch.status = "SUSPENDED"

Goto(r, next) == req' = [req EXCEPT ![r] = next]

-----------------------------------------------------------------------------
\* registerTenant and create-owner leave an office with an active owner.
Init ==
    /\ role \in [Members -> Role]
    /\ status \in [Members -> Status]
    /\ ActiveOwners # {}
    /\ req = [r \in Requests |-> Done]
    /\ overtaken = {}
    /\ raced = FALSE

\* The guards: the caller's row is read, must be ACTIVE, and becomes the
\* context of the request.  Any role may have been given user.update and
\* user.deactivate, so holding the permission is left open.
Authorize(r, a, m, patch) ==
    /\ req[r] = Done
    /\ status[a] = "ACTIVE"
    /\ Goto(r, [at |-> "read_target", actor |-> a, ctxRole |-> role[a],
                target |-> m, patch |-> patch])
    /\ UNCHANGED <<role, status, overtaken, raced>>

\* The handler reads the target; the checks that need no further await follow.
ReadTarget(r) ==
    LET q == req[r] IN
    /\ q.at = "read_target"
    /\ \/ /\ SelfDemotion(q)                                   \* 400
          /\ Goto(r, Done)
          /\ overtaken' = overtaken \ {r}
       \/ /\ ~SelfDemotion(q)
          /\ role[q.target] = "OWNER" /\ LosesOwner(q.patch)
          /\ Goto(r, [q EXCEPT !.at = "count_owners"])
          /\ UNCHANGED overtaken
       \/ /\ ~SelfDemotion(q)
          /\ ~(role[q.target] = "OWNER" /\ LosesOwner(q.patch))
          /\ Goto(r, [q EXCEPT !.at = "write"])
          /\ UNCHANGED overtaken
    /\ UNCHANGED <<role, status, raced>>

\* assertNotLastOwner: the count, and its verdict.
CountOwners(r) ==
    LET q == req[r] IN
    /\ q.at = "count_owners"
    /\ \/ /\ Cardinality(ActiveOwners) <= 1                    \* 400
          /\ Goto(r, Done)
          /\ overtaken' = overtaken \ {r}
       \/ /\ Cardinality(ActiveOwners) > 1
          /\ Goto(r, [q EXCEPT !.at = "write"])
          /\ UNCHANGED overtaken
    /\ UNCHANGED <<role, status, raced>>

\* What a write by r has made untrue of the snapshots other requests hold:
\* the standing of their target, once they rely on it, or the count.
Falsified(r) ==
    {p \in Requests \ {r} :
        /\ req[p] # Done
        /\ \/ /\ req[p].target = req[r].target
              /\ req[p].at # "read_target" \/ req[p].target = req[p].actor
              /\ role' # role \/ status' # status
           \/ req[p].at = "write" /\ ActiveOwners \ ActiveOwners' # {}}

\* scoped.user.update where id.
Write(r) ==
    LET q == req[r] IN
    /\ q.at = "write"
    /\ role'   = [role EXCEPT ![q.target] = Apply(@, q.patch.role)]
    /\ status' = [status EXCEPT ![q.target] = Apply(@, q.patch.status)]
    /\ Goto(r, Done)
    /\ raced' = (raced \/ r \in overtaken)
    /\ overtaken' = (overtaken \cup Falsified(r)) \ {r}

\* A statement fails, or the container is stopped, before the write.
Abort(r) ==
    /\ req[r] # Done
    /\ Goto(r, Done)
    /\ overtaken' = overtaken \ {r}
    /\ UNCHANGED <<role, status, raced>>

Next ==
    \E r \in Requests :
        \/ \E a, m \in Members, patch \in Patch : Authorize(r, a, m, patch)
        \/ ReadTarget(r) \/ CountOwners(r) \/ Write(r) \/ Abort(r)

Spec == Init /\ [][Next]_vars

-----------------------------------------------------------------------------
(* Properties *)

\* assertNotLastOwner: the office keeps an active owner through every sequence
\* of requests, and through every interleaving in which no request writes on
\* the strength of a snapshot that another write has falsified.
OfficeKeepsAnOwner == raced \/ ActiveOwners # {}

\* assertNotSelfDemotion: no request changes the standing of the member who
\* made it, be it a demotion, a promotion or a return from suspension - as long
\* as that standing is still the one the guard saw.
NobodyChangesTheirOwnStanding ==
    [][\A r \in Requests \ overtaken :
          Write(r) /\ req[r].target = req[r].actor => UNCHANGED <<role, status>>]_vars

\* team.service.ts:462 - "An office with no active owner cannot be administered
\* by anyone": there is always one.
OfficeHasAnActiveOwner == ActiveOwners # {}
=============================================================================
