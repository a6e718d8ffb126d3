------------------------------ MODULE RbacCache ------------------------------
(***************************************************************************)
(* What a member may do, and how long it takes a change of that to be      *)
(* noticed: apps/api/src/rbac/rbac.service.ts, updateMatrix of             *)
(* rbac.controller.ts and setMemberPermissions of team.service.ts, for the *)
(* members of one tenant.  Every process of the API keeps a cache of its   *)
(* own, of what each role grants and of what each member may do in a role. *)
(* An entry lives for TTL ticks; a change drops entries only in the cache  *)
(* of the process that made it.                                            *)
(*                                                                         *)
(* OWNER is not among Roles: an owner holds every permission, the cache is *)
(* not asked, and updateMatrix and setMemberPermissions refuse to touch    *)
(* it.  The role of a member is part of the cache key and is read anew for *)
(* every request, so any role may come with any member.                    *)
(***************************************************************************)
EXTENDS Integers, FiniteSets

CONSTANTS
    Processes,   \* processes of the API, each with a cache
    Users,       \* members of the office
    Roles,       \* the roles below OWNER
    Codes,       \* ALL_PERMISSION_CODES
    Default,     \* DEFAULT_ROLE_PERMISSIONS, per role
    Requests,    \* slots for the requests being served
    TTL,         \* CACHE_TTL_MS, in ticks
    Latency,     \* the most ticks that one await takes
    Matrices,    \* the sets of codes that updateMatrix is called with
    Overrides    \* the override lists that setMemberPermissions is called with

Mark == {"grant", "revoke", "none"}    \* user_permissions.granted, or no row

ASSUME ConfigAssumption ==
    /\ TTL \in Nat \ {0} /\ Latency \in Nat
    /\ Default \in [Roles -> SUBSET Codes]
    /\ Matrices \subseteq SUBSET Codes
    /\ Overrides \subseteq [Codes -> Mark]

VARIABLES
    matrix,      \* role_permissions: per role, the codes it has a row for
    override,    \* user_permissions: per member and code, a Mark
    roleCache,   \* per process and role
    userCache,   \* per process, member and role
    req,         \* per request: its next step and what it holds
    (* History variables *)
    roleAge,     \* ticks since a role last did, or did not, grant a code
    markAge,     \* ticks since a member last had a mark for a code
    asked        \* per role, the codes that an updateMatrix has asked for and
                 \* none that began after its commit has done without

tables  == <<matrix, override>>
caches  == <<roleCache, userCache>>
history == <<roleAge, markAge, asked>>
vars    == <<matrix, override, roleCache, userCache, req, roleAge, markAge, asked>>

\* How long a decision may rest on what a role granted: the rows are as old as
\* the role's entry and the two fills they went through, and then comes the
\* life of the member's entry.  Overrides go through one fill only.
RoleWindow == 2 * (TTL - 1) + 2 * Latency
MarkWindow == (TTL - 1) + Latency

\* Ages stop counting one past the window they are compared with.
RoleAge == 0 .. RoleWindow + 1
MarkAge == 0 .. MarkWindow + 1

\* A cache entry; left = 0 is an entry that is absent or past its expiresAt.
\* clean (history): neither its fill was overtaken by a change of what it had
\* read, nor has a process that cannot drop it made such a change since.
Entry == [perms: SUBSET Codes, left: 0 .. TTL, clean: BOOLEAN]
Blank == [perms |-> {}, left |-> 0, clean |-> TRUE]

Idle   == [at |-> "idle"]
NoMark == [c \in Codes |-> "none"]

\* Requests that await permissions: "fill" is getEffectivePermissions, "set" the
\* getRolePermissions of setMemberPermissions.  rows says how far the role's part
\* is: "sent" to the database, "read" there, or at hand ("have"); marks, whether
\* the overrides have been read.
Lookup == [at: {"fill", "set"}, proc: Processes, user: Users, role: Roles,
           age: 0 .. Latency,
           rows: {"sent", "read", "have"}, perms: SUBSET Codes, rowsOk: BOOLEAN,
           marks: BOOLEAN, mark: [Codes -> Mark], marksOk: BOOLEAN]

\* Transactions after their deleteMany.  kept holds the rows that others have
\* committed since: deleteMany did not see them, and they stay.  old (history):
\* what had been asked for when deleteMany ran, and has not been since.
Replace == [at: {"put_matrix"}, proc: Processes, role: Roles, age: 0 .. Latency,
            kept: SUBSET Codes, old: SUBSET Codes]
           \cup
           [at: {"put_marks"}, proc: Processes, user: Users, role: Roles,
            age: 0 .. Latency, list: [Codes -> Mark], kept: [Codes -> Mark]]

\* Committed; the invalidation is yet to run.
Committed == [at: {"drop_role"}, proc: Processes, role: Roles, age: 0 .. Latency]
             \cup
             [at: {"drop_user"}, proc: Processes, user: Users, role: Roles,
              age: 0 .. Latency]

\* Type correctness of the tables, the caches and the requests.
TypeOK ==
    /\ matrix \in [Roles -> SUBSET Codes]
    /\ override \in [Users -> [Codes -> Mark]]
    /\ roleCache \in [Processes -> [Roles -> Entry]]
    /\ userCache \in [Processes -> [Users -> [Roles -> Entry]]]
    /\ req \in [Requests -> {Idle} \cup Lookup \cup Replace \cup Committed]
    /\ roleAge \in [Roles -> [Codes -> [BOOLEAN -> RoleAge]]]
    /\ markAge \in [Users -> [Codes -> [Mark -> MarkAge]]]
    /\ asked \in [Roles -> SUBSET Codes]

-----------------------------------------------------------------------------
\* What a role grants: its rows, or the defaults when there are none.
Granted(rows, R) == IF rows = {} THEN Default[R] ELSE rows

\* The role's permissions, plus the member's grants, minus their revokes.
Effective(fromRole, mark) ==
    {c \in Codes : mark[c] = "grant" \/ (c \in fromRole /\ mark[c] # "revoke")}

\* Mutated: every override of the list is stored.
AllOverrides(list, fromRole) == list

\* meaningful: overrides that differ from the role; the others are not stored.
Meaningful(list, fromRole) ==
    [c \in Codes |-> IF \/ list[c] = "grant"  /\ c \in fromRole
                        \/ list[c] = "revoke" /\ c \notin fromRole
                     THEN "none" ELSE list[c]]

\* Mutated: the entry never expires.
Kept(e) == e

\* A tick takes one off the life of an entry, and the last one its life.
Older(e) == IF e.left <= 1 THEN Blank ELSE [e EXCEPT !.left = @ - 1]

\* Mutated: it lives for a tick longer.
EntryLate(perms, clean) == [perms |-> perms, left |-> TTL + 1, clean |-> clean]

\* cache.set, with an expiresAt one TTL from now.
NewEntry(perms, clean) == [perms |-> perms, left |-> TTL, clean |-> clean]

Goto(r, next) == req' = [req EXCEPT ![r] = next]

DropPending(p, u, R) ==
    \E r \in Requests :
        /\ req[r].at \in {"drop_role", "drop_user"} /\ req[r].proc = p
        /\ IF req[r].at = "drop_role" THEN req[r].role = R ELSE req[r].user = u

RoleDropPending(p, R) ==
    \E r \in Requests : req[r].at = "drop_role" /\ req[r].proc = p /\ req[r].role = R

-----------------------------------------------------------------------------
(* History *)

Restart(ages, value, now) == [ages EXCEPT ![value] = 0, ![now] = 0]

\* Entries that a process whose cache is not among dropping will keep.
Soil(e) == [e EXCEPT !.clean = e.left = 0]

SoilRole(procs, R) ==
    /\ roleCache' = [p \in Processes |-> [S \in Roles |->
          IF p \in procs /\ S = R THEN Soil(roleCache[p][S]) ELSE roleCache[p][S]]]
    /\ userCache' = [p \in Processes |-> [u \in Users |-> [S \in Roles |->
          IF p \in procs /\ S = R THEN Soil(userCache[p][u][S]) ELSE userCache[p][u][S]]]]

SoilUser(procs, u) ==
    /\ userCache' = [p \in Processes |-> [v \in Users |-> [S \in Roles |->
          IF p \in procs /\ v = u THEN Soil(userCache[p][v][S]) ELSE userCache[p][v][S]]]]
    /\ UNCHANGED roleCache

-----------------------------------------------------------------------------
Init ==
    /\ matrix \in [Roles -> Matrices]
    /\ override = [u \in Users |-> NoMark]
    /\ roleCache = [p \in Processes |-> [R \in Roles |-> Blank]]
    /\ userCache = [p \in Processes |-> [u \in Users |-> [R \in Roles |-> Blank]]]
    /\ req = [r \in Requests |-> Idle]
    /\ roleAge = [R \in Roles |-> [c \in Codes |-> [b \in BOOLEAN |->
                     IF b = (c \in Granted(matrix[R], R)) THEN 0 ELSE RoleWindow + 1]]]
    /\ markAge = [u \in Users |-> [c \in Codes |-> [m \in Mark |->
                     IF m = "none" THEN 0 ELSE MarkWindow + 1]]]
    /\ asked = matrix

\* The lookup in the role cache; without a hit, findMany is sent.
Asking(at, p, u, R) ==
    LET e == roleCache[p][R] IN
    [at |-> at, proc |-> p, user |-> u, role |-> R, age |-> 0,
     rows |-> IF e.left > 0 THEN "have" ELSE "sent", perms |-> e.perms,
     rowsOk |-> e.clean /\ (e.left > 0 => ~RoleDropPending(p, R)),
     marks |-> FALSE, mark |-> NoMark, marksOk |-> TRUE]

\* getEffectivePermissions without a hit; a hit changes nothing.  The lookup of a
\* role's permissions by invite is a fill that ends (Abort) before its second half.
StartFill(r, p, u, R) ==
    /\ req[r] = Idle
    /\ userCache[p][u][R].left = 0
    /\ Goto(r, Asking("fill", p, u, R))
    /\ UNCHANGED <<tables, caches, history>>

\* setMemberPermissions has read the member, whose role is R, and looks up what
\* that role grants.
StartSet(r, p, u, R) ==
    /\ req[r] = Idle
    /\ Goto(r, Asking("set", p, u, R))
    /\ UNCHANGED <<tables, caches, history>>

\* rolePermission.findMany, in the database.
ReadRole(r) ==
    LET q == req[r] IN
    /\ q.at \in {"fill", "set"} /\ q.rows = "sent"
    /\ Goto(r, [q EXCEPT !.rows = "read", !.perms = Granted(matrix[q.role], q.role)])
    /\ UNCHANGED <<tables, caches, history>>

\* Its answer is put into the cache, whatever happened in the meantime.
RoleArrives(r) ==
    LET q == req[r] IN
    /\ q.at \in {"fill", "set"} /\ q.rows = "read"
    /\ roleCache' = [roleCache EXCEPT ![q.proc][q.role] = NewEntry(q.perms, q.rowsOk)]
    /\ Goto(r, CASE q.at = "fill" -> [q EXCEPT !.rows = "have"]
                 [] q.at = "set"  -> [q EXCEPT !.rows = "have", !.age = 0])
    /\ UNCHANGED <<tables, userCache, history>>

\* userPermission.findMany runs side by side with the role's part.
ReadMarks(r) ==
    LET q == req[r] IN
    /\ q.at = "fill" /\ ~q.marks
    /\ Goto(r, [q EXCEPT !.marks = TRUE, !.mark = override[q.user]])
    /\ UNCHANGED <<tables, caches, history>>

\* Both are there: what getEffectivePermissions returns is cached.
FillUser(r) ==
    LET q == req[r] IN
    /\ q.at = "fill" /\ q.rows = "have" /\ q.marks
    /\ userCache' = [userCache EXCEPT ![q.proc][q.user][q.role] =
                        NewEntry(Effective(q.perms, q.mark), q.rowsOk /\ q.marksOk)]
    /\ Goto(r, Idle)
    /\ UNCHANGED <<tables, roleCache, history>>

-----------------------------------------------------------------------------
(* The two operations that change permissions.  Both replace a set of rows  *)
(* by deleteMany and createMany, at the isolation level read committed.     *)

\* deleteMany of updateMatrix, for a role other than OWNER.
DeleteMatrix(r, p, R) ==
    /\ req[r] = Idle
    /\ Goto(r, [at |-> "put_matrix", proc |-> p, role |-> R, age |-> 0, kept |-> {},
                old |-> asked[R]])
    /\ UNCHANGED <<tables, caches, history>>

\* Mutated: the old rows are not deleted.
RowsAdded(R, codes, kept) == matrix[R] \cup codes

\* The rows of a role after the commit of a transaction.
RowsAfter(R, codes, kept) == kept \cup codes

\* What a commit for role R by r does to the other requests: fills that have the
\* old rows are overtaken, and replacements that are half-way keep the new rows.
MeetMatrix(r, codes, next) ==
    LET q == req[r]
        Met(s) ==
            IF s.at \in {"fill", "set"} /\ s.role = q.role /\ s.rows # "sent"
            THEN [s EXCEPT !.rowsOk = FALSE]
            ELSE IF s.at = "put_matrix" /\ s.role = q.role
            THEN [s EXCEPT !.kept = (@ \cap q.kept) \cup codes, !.old = @ \ codes]
            ELSE s
    IN req' = [s \in Requests |-> IF s = r THEN next ELSE Met(req[s])]

\* createMany and the commit.  Rows that are there already are a conflict.
CommitMatrix(r, codes) ==
    LET q == req[r] R == q.role IN
    /\ q.at = "put_matrix" /\ codes \cap q.kept = {}
    /\ matrix' = [matrix EXCEPT ![R] = RowsAfter(R, codes, q.kept)]
    /\ MeetMatrix(r, codes, [at |-> "drop_role", proc |-> q.proc, role |-> R, age |-> 0])
    /\ SoilRole(Processes \ {q.proc}, R)
    /\ roleAge' = [roleAge EXCEPT ![R] = [c \in Codes |->
                      Restart(@[c], c \in Granted(matrix[R], R), c \in Granted(matrix'[R], R))]]
    /\ asked' = [asked EXCEPT ![R] = (@ \ q.old) \cup codes]
    /\ UNCHANGED <<override, markAge>>

\* Mutated: only the role's own entry is dropped.
DropRoleEntry(p, R) ==
    /\ roleCache' = [roleCache EXCEPT ![p][R] = Blank]
    /\ UNCHANGED userCache

\* invalidate(tenantId, role): the role's entry, and those of all who hold it.
DropRole(p, R) ==
    /\ roleCache' = [roleCache EXCEPT ![p][R] = Blank]
    /\ userCache' = [userCache EXCEPT ![p] =
                        [u \in Users |-> [@[u] EXCEPT ![R] = Blank]]]

InvalidateRole(r) ==
    LET q == req[r] IN
    /\ q.at = "drop_role"
    /\ DropRole(q.proc, q.role)
    /\ Goto(r, Idle)
    /\ UNCHANGED <<tables, history>>

\* deleteMany of setMemberPermissions, once it knows what differs from the role.
\* Lists with unknown codes, and grants of what the caller does not hold, have
\* been refused.
DeleteMarks(r, list) ==
    LET q == req[r] IN
    /\ q.at = "set" /\ q.rows = "have"
    /\ Goto(r, [at |-> "put_marks", proc |-> q.proc, user |-> q.user, role |-> q.role,
                age |-> q.age, list |-> Meaningful(list, q.perms), kept |-> NoMark])
    /\ UNCHANGED <<tables, caches, history>>

Overlay(below, above) ==
    [c \in Codes |-> IF above[c] = "none" THEN below[c] ELSE above[c]]

Conflict(a, b) == \E c \in Codes : a[c] # "none" /\ b[c] # "none"

MeetMarks(r, next) ==
    LET q == req[r]
        Met(s) ==
            IF s.at = "fill" /\ s.user = q.user /\ s.marks
            THEN [s EXCEPT !.marksOk = FALSE]
            ELSE IF s.at = "put_marks" /\ s.user = q.user
            THEN [s EXCEPT !.kept = Overlay(
                     [c \in Codes |-> IF q.kept[c] = "none" THEN "none" ELSE s.kept[c]], q.list)]
            ELSE s
    IN req' = [s \in Requests |-> IF s = r THEN next ELSE Met(req[s])]

CommitMarks(r) ==
    LET q == req[r] u == q.user IN
    /\ q.at = "put_marks" /\ ~Conflict(q.list, q.kept)
    /\ override' = [override EXCEPT ![u] = Overlay(q.kept, q.list)]
    /\ MeetMarks(r, [at |-> "drop_user", proc |-> q.proc, user |-> u, role |-> q.role, age |-> 0])
    /\ SoilUser(Processes \ {q.proc}, u)
    /\ markAge' = [markAge EXCEPT ![u] = [c \in Codes |->
                      Restart(@[c], override[u][c], override'[u][c])]]
    /\ UNCHANGED <<matrix, roleAge, asked>>

\* invalidateUser, whatever role the entries are for.
DropUser(p, u) ==
    userCache' = [userCache EXCEPT ![p][u] = [R \in Roles |-> Blank]]

\* It is followed by a getEffectivePermissions for the answer.
InvalidateUser(r) ==
    LET q == req[r] IN
    /\ q.at = "drop_user"
    /\ DropUser(q.proc, q.user)
    /\ Goto(r, Asking("fill", q.proc, q.user, q.role))
    /\ UNCHANGED <<tables, roleCache, history>>

\* updateMember and deactivateMember end with an invalidateUser, too.
MemberChanged(p, u) ==
    /\ DropUser(p, u)
    /\ UNCHANGED <<tables, roleCache, req, history>>

-----------------------------------------------------------------------------
\* A statement fails or its answer is lost.  A transaction that has committed
\* is then not followed by its invalidation.
Abort(r) ==
    LET q == req[r] IN
    /\ q # Idle
    /\ Goto(r, Idle)
    /\ \/ q.at \notin {"drop_role", "drop_user"} /\ UNCHANGED caches
       \/ q.at = "drop_role" /\ SoilRole({q.proc}, q.role)
       \/ q.at = "drop_user" /\ SoilUser({q.proc}, q.user)
    /\ UNCHANGED <<tables, history>>

\* A process stops, with its cache and its requests, and is started again.
Crash(p) ==
    /\ roleCache' = [roleCache EXCEPT ![p] = [R \in Roles |-> Blank]]
    /\ userCache' = [userCache EXCEPT ![p] = [u \in Users |-> [R \in Roles |-> Blank]]]
    /\ req' = [r \in Requests |-> IF req[r] # Idle /\ req[r].proc = p THEN Idle ELSE req[r]]
    /\ UNCHANGED <<tables, history>>

Aged(age, window, isNow) ==
    IF isNow THEN 0 ELSE IF age > window THEN age ELSE age + 1

\* Time passes for the entries and for the requests, whose awaits are bounded.
Tick ==
    /\ \A r \in Requests : req[r] # Idle => req[r].age < Latency
    /\ roleCache' = [p \in Processes |-> [R \in Roles |-> Older(roleCache[p][R])]]
    /\ userCache' = [p \in Processes |-> [u \in Users |-> [R \in Roles |->
                        Older(userCache[p][u][R])]]]
    /\ req' = [r \in Requests |->
                  IF req[r] = Idle THEN Idle ELSE [req[r] EXCEPT !.age = @ + 1]]
    /\ roleAge' = [R \in Roles |-> [c \in Codes |-> [b \in BOOLEAN |->
                      Aged(roleAge[R][c][b], RoleWindow, b = (c \in Granted(matrix[R], R)))]]]
    /\ markAge' = [u \in Users |-> [c \in Codes |-> [m \in Mark |->
                      Aged(markAge[u][c][m], MarkWindow, m = override[u][c])]]]
    /\ UNCHANGED <<tables, asked>>

\* What goes on by itself once it has begun.
Proceed(r) ==
    \/ ReadRole(r) \/ RoleArrives(r) \/ ReadMarks(r) \/ FillUser(r)
    \/ \E codes \in Matrices : CommitMatrix(r, codes)
    \/ \E list \in Overrides : DeleteMarks(r, list)
    \/ CommitMarks(r) \/ InvalidateRole(r) \/ InvalidateUser(r) \/ Abort(r)

Begin(r) ==
    \E p \in Processes, R \in Roles :
        \/ \E u \in Users : StartFill(r, p, u, R) \/ StartSet(r, p, u, R)
        \/ DeleteMatrix(r, p, R)

Next ==
    \/ \E r \in Requests : Begin(r) \/ Proceed(r)
    \/ \E p \in Processes : Crash(p) \/ \E u \in Users : MemberChanged(p, u)
    \/ Tick

Spec == Init /\ [][Next]_vars

-----------------------------------------------------------------------------
(* Properties *)

\* Whatever a member is allowed or refused, on whichever process and in whatever
\* order fills, changes and failures come, rests on an individual override that
\* was in force within the last MarkWindow, or on none and on what the role
\* granted within the last RoleWindow.  In particular a revoke beats the role.
EntriesAreRecent ==
    \A p \in Processes, u \in Users, R \in Roles :
        LET e == userCache[p][u][R] IN
        e.left > 0 => \A c \in Codes :
            \/ markAge[u][c][IF c \in e.perms THEN "grant" ELSE "revoke"] <= MarkWindow
            \/ /\ markAge[u][c]["none"] <= MarkWindow
               /\ roleAge[R][c][(c \in e.perms)] <= RoleWindow

\* invalidate and invalidateUser: on the process that makes the changes nothing
\* outlives the invalidation, unless a fill had read before the change and was
\* stored after it, or the request failed between its commit and there.
ChangesAreSeenAtOnce ==
    \A p \in Processes, R \in Roles :
        /\ LET e == roleCache[p][R] IN
           e.left > 0 /\ e.clean /\ ~RoleDropPending(p, R)
              => e.perms = Granted(matrix[R], R)
        /\ \A u \in Users :
              LET e == userCache[p][u][R] IN
              e.left > 0 /\ e.clean /\ ~DropPending(p, u, R)
                 => e.perms = Effective(Granted(matrix[R], R), override[u])

\* updateMatrix: however many replacements overlap and whichever of them fail, a
\* role has exactly the codes that one of them asked for and that none which began
\* after the commit of that one has done without.  Those that meet leave what
\* either asked for, but never bring back what was removed meanwhile, lose what was
\* asked for, or leave no rows, and with that the defaults, unasked.
RowsWereAskedFor == \A R \in Roles : matrix[R] = asked[R]

\* setMemberPermissions stores no override that says what the role says anyway,
\* as far as the role's entry in the cache was recent.
OverridesDiffer ==
    \A r \in Requests :
        LET q == req[r] IN
        q.at = "put_marks" => \A c \in Codes :
            q.list[c] # "none" => roleAge[q.role][c][q.list[c] = "revoke"] <= RoleWindow
=============================================================================
