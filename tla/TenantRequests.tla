--------------------------- MODULE TenantRequests ---------------------------
(***************************************************************************)
(* Requests of several offices on the same tables, over the scoped client  *)
(* of TenantScope and over the raw one, which transactions and public      *)
(* routes use and which narrows nothing: there a handler must carry the    *)
(* office from what it has read before.  An address may have an account in *)
(* every office.                                                           *)
(*                                                                         *)
(* Of an account or invitation, done says that it is activated, used or    *)
(* revoked.  Ids are fresh when rows are created (@default(uuid())).       *)
(***************************************************************************)
EXTENDS TenantScope

CONSTANTS
    Calls,    \* slots for the requests under way
    Emails    \* addresses

\* What the theorems assume: no office is the lack of one, and which columns of an
\* account or an invitation are of interest here.
TenantsAssumption ==
    NoTenant \notin Tenants /\ Values = [email: Emails, done: BOOLEAN]

VARIABLES
    users,        \* users, by id
    invitations,  \* invitations, by id
    call,         \* the requests under way
    seen          \* history: the offices whose rows a request was given by the scoped client

tenantVars == <<users, invitations, call, seen>>

\* tenant: what the interceptor has entered; found: the invitation the handler read.
Found  == [id: Ids, tenant: Tenants, email: Emails]
Call   == [at: {"idle", "handler", "revoke", "accept"},
           tenant: Tenants \cup {NoTenant}, found: SUBSET Found]
NoCall == [at |-> "idle", tenant |-> NoTenant, found |-> {}]

\* Type correctness of the tables and the requests.
TenantTypeOK ==
    /\ users \in Tables /\ invitations \in Tables
    /\ call \in [Calls -> Call]
    /\ seen \in [Calls -> SUBSET Tenants]

\* @@unique([tenantId, email])
Unique(table) ==
    \A i, j \in DOMAIN table :
        table[i].tenant = table[j].tenant /\ table[i].value.email = table[j].value.email => i = j

NoRows == [i \in {} |-> NoTenant]

TenantInit ==
    /\ users = NoRows /\ invitations = NoRows
    /\ call = [r \in Calls |-> NoCall]
    /\ seen = [r \in Calls |-> {}]

-----------------------------------------------------------------------------
(* The request and its context *)

\* JwtAuthGuard and TenantContextInterceptor; a public route has no context.
Enter(r, t) ==
    /\ call[r].at = "idle"
    /\ call' = [call EXCEPT ![r] = [at |-> "handler", tenant |-> t, found |-> {}]]
    /\ seen' = [seen EXCEPT ![r] = {}]
    /\ UNCHANGED <<users, invitations>>

\* The handler returns, throws, or is cut off.
Leave(r) ==
    /\ call[r].at # "idle"
    /\ call' = [call EXCEPT ![r] = NoCall]
    /\ seen' = [seen EXCEPT ![r] = {}]
    /\ UNCHANGED <<users, invitations>>

-----------------------------------------------------------------------------
(* Statements on the scoped client *)

Wheres  == [ids: SUBSET Ids, tenants: SUBSET Tenants]
OneRow  == UNION {[{i} -> Data] : i \in Ids}

\* What a handler may pass: any condition, any row to create, whatever office they
\* name; but no DTO has a tenantId, so the data of an update names none.
ArgsOf(op) ==
    [where:  IF op \in CreateOps THEN {[ids |-> {}, tenants |-> {}]} ELSE Wheres,
     data:   [tenant: {NoTenant}, value: Values],
     create: IF op \in CreateOps \cup {"upsert"} THEN OneRow ELSE {NoRows}]

\* Any operation on users; one that would break the unique index fails.
Statement(r) ==
    /\ call[r].at = "handler"
    /\ \E op \in Ops : \E args \in ArgsOf(op) :
          /\ users' = TableAfter(op, users, args, call[r].tenant)
          /\ seen' = [seen EXCEPT ![r] =
                         @ \cup {users[i].tenant : i \in RowsSeen(op, users, args, call[r].tenant)}]
    /\ Unique(users')
    /\ UNCHANGED <<invitations, call>>

-----------------------------------------------------------------------------
(* Handlers that use the raw client *)

Added(table, i, t, e) ==
    [j \in DOMAIN table \cup {i} |->
        IF j = i THEN [tenant |-> t, value |-> [email |-> e, done |-> FALSE]] ELSE table[j]]

\* The invite transaction.
Invite(r, i, j, e) ==
    /\ call[r].at = "handler" /\ call[r].tenant # NoTenant
    /\ i \notin DOMAIN users /\ j \notin DOMAIN invitations
    /\ users' = Added(users, i, call[r].tenant, e)
    /\ Unique(users')
    /\ invitations' = Added(invitations, j, call[r].tenant, e)
    /\ UNCHANGED <<call, seen>>

\* { id } and that it is open.
OpenWith(j) ==
    [ids |-> {k \in DOMAIN invitations : k = j /\ ~invitations[k].value.done}, tenants |-> Tenants]

Snapshot(j) == [id |-> j, tenant |-> invitations[j].tenant, email |-> invitations[j].value.email]

\* revokeInvitation, up to its transaction: what the scoped client finds of j.
RevokeRead(r, j) ==
    /\ call[r].at = "handler" /\ ~Refused(call[r].tenant)
    /\ j \in Matching(invitations, Narrowed(OpenWith(j), call[r].tenant))
    /\ call' = [call EXCEPT ![r].at = "revoke", ![r].found = {Snapshot(j)}]
    /\ seen' = [seen EXCEPT ![r] = @ \cup {invitations[j].tenant}]
    /\ UNCHANGED <<users, invitations>>

Ended(j) == [invitations EXCEPT ![j].value.done = TRUE]

Placeholders(t, e) ==
    {i \in DOMAIN users : users[i].tenant = t /\ users[i].value.email = e /\ ~users[i].value.done}

\* The transaction of revokeInvitation: the invitation by its id alone, the account
\* by the caller's office and the address.
RevokeWrite(r, f) ==
    /\ call[r].at = "revoke" /\ f \in call[r].found
    /\ invitations' = Ended(f.id)
    /\ users' = [i \in DOMAIN users \ Placeholders(call[r].tenant, f.email) |-> users[i]]
    /\ call' = [call EXCEPT ![r].at = "handler", ![r].found = {}]
    /\ UNCHANGED seen

\* acceptInvitation, a public route: the invitation by its token.
AcceptRead(r, j) ==
    /\ call[r].at = "handler" /\ call[r].tenant = NoTenant
    /\ j \in DOMAIN invitations /\ ~invitations[j].value.done
    /\ call' = [call EXCEPT ![r].at = "accept", ![r].found = {Snapshot(j)}]
    /\ UNCHANGED <<users, invitations, seen>>

\* Its transaction, which fails if there is no such account: tenantId_email is the
\* office of the invitation with its address.
AcceptWrite(r, f) ==
    /\ call[r].at = "accept" /\ f \in call[r].found
    /\ \E i \in DOMAIN users :
          /\ users[i].tenant = f.tenant /\ users[i].value.email = f.email
          /\ users' = [users EXCEPT ![i].value.done = TRUE]
    /\ invitations' = Ended(f.id)
    /\ call' = [call EXCEPT ![r].at = "handler", ![r].found = {}]
    /\ UNCHANGED seen

-----------------------------------------------------------------------------
TenantStep(r) ==
    \/ \E t \in Tenants \cup {NoTenant} : Enter(r, t)
    \/ Leave(r)
    \/ Statement(r)
    \/ \E i, j \in Ids, e \in Emails : Invite(r, i, j, e)
    \/ \E j \in Ids : RevokeRead(r, j) \/ AcceptRead(r, j)
    \/ \E f \in call[r].found : RevokeWrite(r, f) \/ AcceptWrite(r, f)

TenantNext == \E r \in Calls : TenantStep(r)

TenantSpec == TenantInit /\ [][TenantNext]_tenantVars

-----------------------------------------------------------------------------
(* Properties *)

\* prisma.service.ts, "fail closed": the scoped client gives a request rows of its
\* own office only, whatever the handler asked for, and none without a context.
AnswersStayInside ==
    \A r \in Calls : seen[r] \subseteq {call[r].tenant}

RowsOf(table, t) == [i \in {j \in DOMAIN table : table[j].tenant = t} |-> table[i]]

\* The office on whose behalf a request acts: its context, or that of the
\* invitation it was sent with.
OfficesOf(q) == IF q.tenant = NoTenant THEN {f.tenant : f \in q.found} ELSE {q.tenant}

\* Every step changes rows of the acting request's office only, also where raw
\* statements find their rows by an id or an address that other offices use too.
OfficesAreIsolated ==
    [][\E r \in Calls : \A t \in Tenants \ OfficesOf(call[r]) :
          RowsOf(users', t) = RowsOf(users, t) /\ RowsOf(invitations', t) = RowsOf(invitations, t)]_tenantVars
=============================================================================
