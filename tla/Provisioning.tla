---------------------------- MODULE Provisioning ----------------------------
(***************************************************************************)
(* How offices come into being, and the permission catalogue under them:   *)
(* onModuleInit and syncCatalog of rbac.service.ts in every container of   *)
(* the API, of whatever version; registerTenant of auth.service.ts; and    *)
(* the scripts of packages/database, which work on the same tables:        *)
(* create-owner, sync-permissions, build-setup-sql and seed.  Last, the    *)
(* numbers drawn from an office's counter (sequence.service.ts).           *)
(*                                                                         *)
(* Every statement or transaction is a step.  Of the roles' matrices only  *)
(* that of OWNER is kept: it has every code of its version, and the rows   *)
(* of the other roles come and go with it.  Of the counters, which are     *)
(* alike, one is kept.                                                     *)
(***************************************************************************)
EXTENDS Naturals, FiniteSets

CONSTANTS
    Codes,      \* permission codes, of any version
    Containers, \* instances of the API
    Scripts,    \* machines from which an operator runs the scripts
    Catalogue,  \* per container and script: PERMISSION_CATALOG of its version
    Slugs,      \* tenants.slug
    Seeded,     \* the one office the seed script creates (the real one creates two)
    Emails,     \* addresses of owners and of the demo account
    Requests,   \* slots for registrations, and for runs of create-owner
    MaxNumber   \* bound on the numbers drawn in an office

Processes == Containers \cup Scripts

ASSUME ConfigAssumption ==
    /\ Catalogue \in [Processes -> SUBSET Codes]
    /\ Seeded \in Slugs /\ MaxNumber \in Nat \ {0}

VARIABLES
    permissions, \* the rows of permissions
    office,      \* per slug: the tenant and what belongs to it, or NoOffice
    boot,        \* per process: how far its start has come
    req,         \* per slot: a registration between its check and its commit
    seed,        \* how far the seed script has come
    (* History variables *)
    outdated,    \* processes under whose catalogue something was deleted since they wrote it
    unfinished   \* offices that the seed script has left half-built, or bereft of grants

vars == <<permissions, office, boot, req, seed, outdated, unfinished>>

NoOffice == [users |-> "none"]
NoRow    == MaxNumber + 1   \* the office has no row in number_sequences

\* users: their roles, OWNER or another; numbers: those its clients carry.
Office == [users: [Emails -> {"none", "OWNER", "STAFF"}], grants: SUBSET Codes,
           current: 0 .. NoRow, numbers: SUBSET (1 .. MaxNumber)]

Idle == [at |-> "idle"]

\* Type correctness of the tables and of what is under way.
TypeOK ==
    /\ permissions \subseteq Codes
    /\ office \in [Slugs -> {NoOffice} \cup Office]
    /\ boot \in [Processes -> {"stopped", "upserted", "ready"}]
    /\ req \in [Requests -> {Idle} \cup [at: {"hash"}, proc: Processes, slug: Slugs, email: Emails]]
    /\ seed \in {"idle", "wiped", "emptied", "listed", "founded", "granted", "numbered", "staffed"}
    /\ outdated \subseteq Processes /\ unfinished \subseteq Slugs

Init ==
    /\ permissions = {}
    /\ office = [s \in Slugs |-> NoOffice]
    /\ boot = [p \in Processes |-> "stopped"]
    /\ req = [r \in Requests |-> Idle]
    /\ seed = "idle"
    /\ outdated = {} /\ unfinished = {}

-----------------------------------------------------------------------------
(* The catalogue *)

Exists(s) == office[s] # NoOffice

\* onDelete: Cascade, from permissions to role_permissions.
Cascade(codes) ==
    [s \in Slugs |-> IF Exists(s) THEN [office[s] EXCEPT !.grants = @ \cap codes] ELSE NoOffice]

\* Mutated: the catalogue is only written into an empty table.
UpsertedOnce(p) == IF permissions = {} THEN Catalogue[p] ELSE permissions

\* The first statement of syncCatalog: one transaction of upserts.
Upserted(p) == permissions \cup Catalogue[p]

\* A container starts (the first request after a cold start), or somebody runs
\* sync-permissions.
Upsert(p) ==
    /\ boot[p] = "stopped"
    /\ permissions' = Upserted(p)
    /\ boot' = [boot EXCEPT ![p] = "upserted"]
    /\ outdated' = outdated \ {p}
    /\ UNCHANGED <<office, req, seed, unfinished>>

\* Mutated: the catalogue is emptied and written anew.
NoneKept(p) == {}

\* deleteMany where code notIn ALL_PERMISSION_CODES: what it leaves in place.
KeptBy(p) == permissions \cap Catalogue[p]

\* Its second statement.  Other versions may have upserted in between, or be running.
Retire(p) ==
    /\ boot[p] = "upserted"
    /\ permissions' = KeptBy(p)
    /\ office' = Cascade(KeptBy(p))
    /\ boot' = [boot EXCEPT ![p] = "ready"]
    /\ outdated' = outdated \cup {q \in Processes :
                       boot[q] # "stopped" /\ (permissions \ KeptBy(p)) \cap Catalogue[q] # {}}
    /\ UNCHANGED <<req, seed, unfinished>>

\* A container is stopped, or its start fails, upon which the next request makes
\* another attempt (cached is reset); a script has ended.
Stop(p) ==
    /\ boot[p] # "stopped"
    /\ boot' = [boot EXCEPT ![p] = "stopped"]
    /\ req' = [r \in Requests |-> IF req[r] # Idle /\ req[r].proc = p THEN Idle ELSE req[r]]
    /\ outdated' = outdated \ {p}
    /\ UNCHANGED <<permissions, office, seed, unfinished>>

\* The SQL file of build-setup-sql is run: it writes the catalogue and retires nothing.
SetupSql(p) ==
    /\ p \in Scripts
    /\ permissions' = permissions \cup Catalogue[p]
    /\ UNCHANGED <<office, boot, req, seed, outdated, unfinished>>

-----------------------------------------------------------------------------
(* Offices *)

NoUsers == [e \in Emails |-> "none"]

\* Mutated: --demo-role is written as it is spelt.
JoinedAsSpelt(users, e, role) ==
    IF users[e] = "none" THEN [users EXCEPT ![e] = IF role = "STAFF" THEN "staff" ELSE role]
    ELSE users

\* ON CONFLICT (tenantId, email) DO NOTHING.
Joined(users, e, role) == IF users[e] = "none" THEN [users EXCEPT ![e] = role] ELSE users

\* DEFAULT_ROLE_PERMISSIONS: OWNER has every code of the version.
Matrix(p) == Catalogue[p]

\* What the one transaction of a registration writes: tenant, matrix, counters, owner.
Founded(p, e) ==
    [users |-> Joined(NoUsers, e, "OWNER"), grants |-> Matrix(p), current |-> 0, numbers |-> {}]

\* registerTenant and insertDirectly look whether the slug is taken; the password
\* is hashed before the transaction.  A script needs no API.
RegisterRead(r, p, s, e) ==
    /\ req[r] = Idle
    /\ p \in Scripts \/ boot[p] = "ready"
    /\ ~Exists(s)
    /\ req' = [req EXCEPT ![r] = [at |-> "hash", proc |-> p, slug |-> s, email |-> e]]
    /\ UNCHANGED <<permissions, office, boot, seed, outdated, unfinished>>

\* Mutated: it is enough to have looked before.
NeverTaken(s) == FALSE

\* The unique index on tenants.slug.
Taken(s) == Exists(s)

\* Its transaction.  The foreign key of role_permissions wants every code.
RegisterCommit(r) ==
    LET q == req[r] IN
    /\ q # Idle
    /\ ~Taken(q.slug)
    /\ Matrix(q.proc) \subseteq permissions
    /\ office' = [office EXCEPT ![q.slug] = Founded(q.proc, q.email)]
    /\ req' = [req EXCEPT ![r] = Idle]
    /\ UNCHANGED <<permissions, boot, seed, outdated, unfinished>>

\* The transaction fails, be it on the index or the foreign key, and leaves nothing.
RegisterFails(r) ==
    /\ req[r] # Idle
    /\ req' = [req EXCEPT ![r] = Idle]
    /\ UNCHANGED <<permissions, office, boot, seed, outdated, unfinished>>

\* Mutated: the counter starts again.
CounterReset(s) == 0

\* ON CONFLICT (tenantId, kind) DO NOTHING.
CounterKept(s) ==
    IF ~Exists(s) \/ office[s].current = NoRow THEN 0 ELSE office[s].current

\* create-owner --sql: the file is one transaction, in which nothing that is there
\* already is changed; an office that has the slug gets the owner, the rows of the
\* default matrix that it lacks, and perhaps the demo account (demo # e).
OwnerSql(p, s, e, demo) ==
    LET users == IF Exists(s) THEN office[s].users ELSE NoUsers IN
    /\ p \in Scripts
    /\ Matrix(p) \subseteq permissions
    /\ office' = [office EXCEPT ![s] =
           [users   |-> Joined(Joined(users, e, "OWNER"), demo, "STAFF"),
            grants  |-> Matrix(p) \cup (IF Exists(s) THEN office[s].grants ELSE {}),
            current |-> CounterKept(s),
            numbers |-> IF Exists(s) THEN office[s].numbers ELSE {}]]
    /\ UNCHANGED <<permissions, boot, req, seed, outdated, unfinished>>

\* next: the upsert draws a number; the record it is for is written or not.
Draw(s) ==
    LET n == IF office[s].current = NoRow THEN 1 ELSE office[s].current + 1 IN
    /\ Exists(s) /\ n <= MaxNumber
    /\ \E used \in {{}, {n}} :
           office' = [office EXCEPT ![s].current = n, ![s].numbers = @ \cup used]
    /\ UNCHANGED <<permissions, boot, req, seed, outdated, unfinished>>

-----------------------------------------------------------------------------
(* The seed script, on a database that is not in production *)

SeedClients == 1    \* clients of the seeded office (the real ones have three and two)

\* deleteMany of the tenants cascades over everything that belongs to them.
SeedWipes ==
    /\ seed = "idle"
    /\ seed' = "wiped"
    /\ office' = [s \in Slugs |-> NoOffice]
    /\ unfinished' = {}
    /\ UNCHANGED <<permissions, boot, req, outdated>>

\* deleteMany of the permissions.  An office that was registered meanwhile loses
\* its matrix.
SeedEmpties ==
    /\ seed = "wiped"
    /\ seed' = "emptied"
    /\ permissions' = {}
    /\ office' = Cascade({})
    /\ outdated' = outdated \cup {q \in Processes : boot[q] # "stopped"}
    /\ unfinished' = unfinished \cup {s \in Slugs : Exists(s)}
    /\ UNCHANGED <<boot, req>>

\* seedPermissionCatalog.
SeedLists(p) ==
    /\ seed = "emptied" /\ p \in Scripts
    /\ seed' = "listed"
    /\ permissions' = permissions \cup Catalogue[p]
    /\ UNCHANGED <<office, boot, req, outdated, unfinished>>

\* seedTenant, statement by statement: the tenant,
SeedFounds ==
    /\ seed = "listed" /\ ~Taken(Seeded)
    /\ seed' = "founded"
    /\ office' = [office EXCEPT ![Seeded] =
           [users |-> NoUsers, grants |-> {}, current |-> NoRow, numbers |-> {}]]
    /\ unfinished' = unfinished \cup {Seeded}
    /\ UNCHANGED <<permissions, boot, req, outdated>>

\* its matrix,
SeedGrants(p) ==
    /\ seed = "founded" /\ p \in Scripts /\ Matrix(p) \subseteq permissions
    /\ seed' = "granted"
    /\ office' = [office EXCEPT ![Seeded].grants = @ \cup Matrix(p)]
    /\ UNCHANGED <<permissions, boot, req, outdated, unfinished>>

\* Mutated: the counter starts at zero although clients follow.
CountedFromZero == 0

\* The counter of clients starts behind the clients to come.
CountedAhead == SeedClients

\* its counters, which must not be there yet,
SeedNumbers ==
    /\ seed = "granted" /\ office[Seeded].current = NoRow
    /\ seed' = "numbered"
    /\ office' = [office EXCEPT ![Seeded].current = CountedAhead]
    /\ UNCHANGED <<permissions, boot, req, outdated, unfinished>>

\* its owner, and four others,
SeedStaffs(e) ==
    /\ seed = "numbered" /\ office[Seeded].users[e] = "none"
    /\ seed' = "staffed"
    /\ office' = [office EXCEPT ![Seeded].users = Joined(@, e, "OWNER")]
    /\ UNCHANGED <<permissions, boot, req, outdated, unfinished>>

\* and its clients.
SeedEnds ==
    /\ seed = "staffed" /\ office[Seeded].numbers \cap (1 .. SeedClients) = {}
    /\ seed' = "idle"
    /\ office' = [office EXCEPT ![Seeded].numbers = @ \cup (1 .. SeedClients)]
    /\ unfinished' = unfinished \ {Seeded}
    /\ UNCHANGED <<permissions, boot, req, outdated>>

\* A statement fails or the script is broken off; nothing is undone.
SeedFails ==
    /\ seed # "idle"
    /\ seed' = "idle"
    /\ UNCHANGED <<permissions, office, boot, req, outdated, unfinished>>

Seed ==
    \/ SeedWipes \/ SeedEmpties \/ SeedFounds \/ SeedNumbers \/ SeedEnds \/ SeedFails
    \/ \E p \in Scripts : SeedLists(p) \/ SeedGrants(p)
    \/ \E e \in Emails : SeedStaffs(e)

-----------------------------------------------------------------------------
Next ==
    \/ \E p \in Processes : Upsert(p) \/ Retire(p) \/ Stop(p) \/ SetupSql(p)
    \/ \E r \in Requests :
          \/ \E p \in Processes, s \in Slugs, e \in Emails : RegisterRead(r, p, s, e)
          \/ RegisterCommit(r) \/ RegisterFails(r)
    \/ \E p \in Processes, s \in Slugs, e, demo \in Emails : OwnerSql(p, s, e, demo)
    \/ \E s \in Slugs : Draw(s)
    \/ Seed

Spec == Init /\ [][Next]_vars

-----------------------------------------------------------------------------
(* Properties *)

\* The codes that every version knows.
Common == {c \in Codes : \A p \in Processes : c \in Catalogue[p]}

\* Whoever created it, and whatever failed or ran at the same time, an office has an
\* owner, a counter that is past every number in use, and for its owner each
\* permission that no version retires - but for what the seed script left behind.
OfficesAreWhole ==
    \A s \in Slugs \ unfinished : Exists(s) =>
        /\ \E e \in Emails : office[s].users[e] = "OWNER"
        /\ office[s].current # NoRow /\ office[s].numbers \subseteq 1 .. office[s].current
        /\ Common \subseteq office[s].grants

\* syncCatalog: from its start on a container finds its whole catalogue in the
\* database, until a process with another catalogue retires a part of it; so
\* that of containers of one version none can fail to register an office.
CatalogueIsServed ==
    \A p \in Processes \ outdated : boot[p] # "stopped" => Catalogue[p] \subseteq permissions

\* An office that exists is never overwritten: until the seed script deletes it
\* nobody loses an account or a role in it, no client is lost, and no number comes
\* again.
OfficesAreKept ==
    [][\A s \in Slugs : Exists(s) /\ office'[s] # NoOffice =>
          /\ \A e \in Emails : office[s].users[e] \in {"none", office'[s].users[e]}
          /\ office[s].numbers \subseteq office'[s].numbers
          /\ office[s].current # NoRow => office'[s].current >= office[s].current]_vars
=============================================================================
