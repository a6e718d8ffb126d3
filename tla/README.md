# A verification of the office-management system

TLA+ modules that model the parts of this repository where several requests,
several processes, several tabs or several statements can get in each other's
way; TLC configurations that check them on small instances; and TLAPS proofs of
the properties that matter most, for instances of any size.

Contents: the inventory of the system, the modules and their order, how they
correspond to the code, the runs, the proofs, what was found, and what is not
modelled.

## 1. Inventory

The system is a NestJS API (`src/apps/api`) over PostgreSQL through Prisma
(`src/packages/database`), and a Next.js client (`src/apps/web`). An office is a
tenant; its members have roles and permissions. The API runs as a container or
as Vercel functions, so there can be several processes, and each serves many
requests at a time: every `await` of a handler is a point where others may run.
Nothing takes a lock, no transaction asks for an isolation level, and few
updates repeat in their `where` what was read before. The client keeps its
tokens in `localStorage`, which all tabs share, and everything else per tab;
when the API fails it goes on with data of its own. That is the hard part of
this system, and most of what follows is about it.

| Component | State | Operations | Interacts with | What makes it correct |
|---|---|---|---|---|
| Refresh-token sessions (`auth/token.service.ts`) | `refresh_tokens` rows: owner, family, `revokedAt`, `expiresAt` | `issue`, `rotate`, `revoke`, `revokeFamily` | login and registration issue, deactivation revokes, the web client replays | one live token per session; a closed session stays closed; a deactivated member is out |
| Login lockout (`auth/auth.service.ts`) | `failedLoginAttempts`, `lockedUntil` | `login`, `registerFailedAttempt` | status of user and tenant | a lock is earned, comes in the end, and is not moved by those it locks out |
| Team members (`team/team.service.ts`, `jwt-auth.guard.ts`) | `users.role`, `users.status` | `updateMember`, `deactivateMember`, the guard | sessions, permission cache | an office keeps an active owner; nobody changes their own standing |
| Invitations (`team/team.service.ts`) | `invitations` rows and the accounts created with them | `invite`, `revokeInvitation`, `acceptInvitation` | accounts, member status | an open link leads to its own account; used or revoked, not both; members are not deleted |
| Permissions and their cache (`rbac/`, `setMemberPermissions`) | role matrix, overrides, a cache per process with a TTL of 30 s | fills, `updateMatrix`, `setMemberPermissions`, `invalidate`, `invalidateUser` | guard, other processes | a decision rests on rows that were in force a bounded time ago; on the changing process a change is seen at once; a matrix holds what was asked for, however replacements overlap |
| Permission catalogue and provisioning (`rbac.service.ts`, `registerTenant`, the scripts) | `permissions`, `role_permissions`, tenants with owners and counters | `syncCatalog`, `registerTenant`, `create-owner`, `sync-permissions`, the setup SQL, the seed | containers of several versions, operators | every office is whole and never overwritten; a container finds its catalogue |
| Number sequences (`sequence.service.ts`) | one counter per tenant and kind | `next` | transactions of the caller | no number comes twice |
| Web session (`web/src/lib`) | token store shared by the tabs; calls, refresh and account of each tab | `apiFetch`, `refreshTokens`, `login`, `restore`, `logout`, AuthGate | the API's `refresh` | an honest user is not logged out by their own retries; a tab acts as the account it shows; logout is final; pages settle |
| Tenant isolation (`prisma/`, `tenancy/`) | context in AsyncLocalStorage | scoped Prisma operations | every service | no row of another office is read or written |
| Team page and home page | list, modals, calls under way, which outlive the modal and the page; accounts in `localStorage` | `load`, the modals, `createDirectUser` | the API, another administrator | a save changes what was clicked and nothing else; the list is complete and without doubles |
| Office pages: finance, crm | invoices, clients, all in the page | the forms | - | books balance; codes are unique |
| Office pages: services, documents, field visits | an order and its copy, a contract, visits, all in the page | the forms | - | not modelled: one assignment each |
| Serverless bootstrap (`api/index.ts`) | a cached promise | `handler` | catalogue | a failed start is retried |
| Configuration, validation, error filter, health | none | - | - | - |

The hazards of the code, each at its line and with the properties that guard
it, are listed under `hazards` in `PROJECT.json`.

## 2. The modules, in the order of their importance

First what decides who is in, then what they may do, then the client, then how
offices come into being, then the pages.

| Module | Composes or implements | Run | Proofs |
|---|---|---|---|
| `RefreshTokens` | implements `SessionLifecycle` | yes | `RefreshTokensProofs` |
| `TeamMembers` | | yes | `TeamMembersProofs` |
| `Invitations` | | yes | `InvitationsProofs` |
| `LoginLockout` | | yes | `LoginLockoutProofs` |
| `RbacCache` | matrix, overrides, caches of several processes | yes | `AuthorizationProofs`, part one |
| `ClientSession` | several tabs over the sessions of the API; its server implements `SessionLifecycle` | yes, and one for liveness | `ClientSessionProofs` |
| `Provisioning` | catalogue, registration, scripts and counters on the same tables | yes | `ProvisioningProofs` |
| `Dashboard` | composes `TeamPage` and `OfficePages` | yes | `DashboardProofs` |
| `TenantScope` | operators on one statement, no state | no | `AuthorizationProofs`, part two |
| `TenantRequests` | requests of several offices over `TenantScope` | no, proved instead | `AuthorizationProofs`, part two |

What would come next: an abstract specification of what a cached decision may lag
behind, for `RbacCache` to implement, and the life of an account over
`Invitations` and `TeamMembers` together.

## 3. How the modules correspond to the code

Conventions. A request occupies a slot of `Requests`; `req[r].at` names the
statement it is about to execute and the rest of the record is what its local
variables hold, that is, what it has read (in `TenantRequests` slots are `Calls`
and the record is `call[r]`). One action is one awaited database
statement, or one transaction, together with the code up to the next `await`;
any other request may run between two actions. `Abort` (in `LoginLockout` a case
of `Refuse`, in `Invitations` one of `Fail`) is a statement that fails or a
process that stops: what was written stays, a transaction is rolled back. The
number of slots is a constant, not a limit of the code.

History variables, listed as such, are read by no guard. In the modules of the
sign-in part `overtaken` is the set of requests that hold a snapshot which
another request's write has falsified since; properties that the code upholds only while nobody
is overtaken say so, and say what exactly is excused. An excuse is attached to
the request, the session or the address that raced, never to the whole system,
except in `TeamMembers`, where there is just one office.

Operators whose comment begins with "Mutated:" are not used by the
specifications. Each is a plausible fault in the operator after it, kept here to
show that the properties notice: with the fault in place TLC finds the property
named in `PROJECT.json` violated.

### RefreshTokens and SessionLifecycle

`refresh_tokens` is `issued`, `owner`, `family`, `revoked` and `expired`; of
`users` only `status` is needed. A token is an opaque random value, so issuing
picks one that has no row, and a family is named by its first token.

| Action | Code |
|---|---|
| `LoginRead`, `LoginIssue` | `login` up to, and in, `tokens.issue` |
| `RotateRead`, `RotateRevoke`, `RotateIssue` | the three statements of `rotate`; the four outcomes are decided in the first |
| `BurnFamily` | `revokeFamily`, after reuse or for an inactive account |
| `Logout` | `revoke` |
| `DeactivateStatus`, `DeactivateTokens` | the two statements of `deactivateMember` |
| `SetStatus` | `updateMember` with a status, and the activation by `acceptInvitation` |
| `Expire` | `expiresAt` passes |

`SessionLifecycle` knows only sessions: none, open, closed, and overrun for those
extended by an overtaken request. It says that a closed session is never opened
again. The refinement mapping `SessionPhase` calls a session open while it has a
live token or a rotation that is about to create one.

The registration of a tenant ends with an `issue` for the new owner, which is a
`LoginIssue` here. Access tokens are stateless and live 15 minutes; what they are
worth is decided by the guard, in `TeamMembers`.

### TeamMembers

Rows `role` and `status` of one tenant. `Authorize` is the guard: the caller's
row becomes the context of the request. `ReadTarget` reads the target and
performs the checks that need no further statement, `CountOwners` is
`assertNotLastOwner`, `Write` the update. `deactivateMember` is the patch that sets
SUSPENDED: its own check is the status check of `assertNotSelfDemotion`. Which
permissions a caller needs is left open, so any active member may try. Of five
roles the checks distinguish OWNER; of three statuses ACTIVE.

### Invitations

An account is named by its email, unique in the tenant. `Invite`, `Revoke` and
`Accept` are the transactions of the three handlers, `InviteRead`, `RevokeRead` and
`AcceptRead` what each reads first. `SetStatus` stands for `updateMember` and
`deactivateMember`, which accept all three values of the status. `origin`, a
history variable, is the invitation an account was created with. `users.deletedAt`
is left out: the API reads it but nothing sets it.

### LoginLockout

One account. `Read` takes the snapshot, bcrypt runs, and `Refuse`, `Fail` and
`Succeed` are what can follow. The counter saturates at the limit, beyond which
the code does not look at it, and `lockedUntil` is kept as the time that is left, in
the row and in every snapshot, all of which `Tick` shortens. The check and the
write after it are one action: between them nothing is awaited, and the check
reads only what the request already holds.

### RbacCache

`matrix` and `override` are the rows of `role_permissions` and `user_permissions`,
`roleCache` and `userCache` the two kinds of keys of the cache in each process.
Time is in ticks: an entry has `left` of its TTL, and a request an `age` in its
present await, which `Latency` bounds. Without such a bound a fill could store
rows of any age, and nothing could be said of what is cached; the code has none,
so the properties name the window that follows from it.

| Action | Code |
|---|---|
| `StartFill`, `ReadRole`, `RoleArrives`, `ReadMarks`, `FillUser` | `getEffectivePermissions` and the `getRolePermissions` in it, which run side by side |
| `StartSet`, `DeleteMarks`, `CommitMarks`, `InvalidateUser` | `setMemberPermissions`: the role's part from the cache, `meaningful`, `deleteMany`, `createMany` and commit, `invalidateUser` and the read for the answer |
| `DeleteMatrix`, `CommitMatrix`, `InvalidateRole` | `updateMatrix` and `invalidate` |
| `MemberChanged` | the `invalidateUser` at the end of `updateMember` and `deactivateMember` |
| `Abort`, `Crash`, `Tick` | a failed statement, a process that stops, time |

The transactions run at read committed: the delete removes the rows it sees, and
what another transaction commits after it stays (`kept`). Two that insert the
same row conflict, and one of them fails. `asked`, a history variable, is kept
apart from the rows: per role, the codes that some replacement asked for and that
none which began after its commit (`old`) has done without. What another process does to the
tables is, for the caches of this one, a commit that is followed by no
invalidation, which `CommitMatrix` or `CommitMarks` and then `Abort` is too; so
one process in the run stands for several.

### ClientSession

`store` is `tokenStore`, shared by all tabs; per tab there are `tab` (the
`useAuthStore` of its page), `call` (each `apiFetch` under way) and `flight`
(`refreshInFlight`). A pair is an access token with the refresh token issued with
it. The server answers a refresh in one step here, for how its statements
interleave is the matter of `RefreshTokens`.

| Action | Code |
|---|---|
| `Load`, `Restore`, `Begin`, `SubmitLogin` | a page is loaded, `restore()`, a page's call or `logout()`, the login form |
| `Granted`, `Failed`, `AwaitRefresh` | the answers to `send()` in `apiFetch`: granted, failed, 401 |
| `LoginGranted`, `LoginFallback` | `setSessionData`, respectively the made-up account of `login()` |
| `Serve`, `Lose`, `FlightEnds` | `refreshTokens`: at the server, lost on the way, its end with the resumption of all who await it |
| `AnswerUnreadable` | `refreshTokens` rejects, because the body of a granted answer cannot be read: the store keeps the old tokens, and whoever waits fails |
| `ServeStray` | a request that nobody awaits any more reaches the server |

`torn` holds the sessions that lost an answer or were refreshed by two tabs at
once, `crossed` the tabs that a login elsewhere, or across a refresh, may have
left with another account's tokens, `over` says that a logout ended the session
while no refresh was under way. Registration and acceptance of an invitation end
in `setSessionData` too, which `LoginGranted` is.

### Provisioning

One office per slug, with its accounts, the OWNER's row of the matrix, and one of
its counters. A process is a container or an operator's machine, and has the
catalogue of its version. `Upsert` and `Retire` are the two statements of
`syncCatalog`, which a container executes when it starts and `sync-permissions`
when it is run; `Stop` is the end or the failure of either, after which the next
request starts the container anew. `RegisterRead`, `RegisterCommit`,
`RegisterFails` are `registerTenant` and the direct way of `create-owner`, on both
sides of the hashing; `OwnerSql` the file that `create-owner --sql` writes,
`SetupSql` that of `build-setup-sql`. The seed is one action per statement, and
can be broken off after each. `Draw` is `next`.

`outdated` are the processes of whose catalogue another version, or the seed,
deleted something since they wrote it; `unfinished` the offices that the seed
left half-built. A registration between the two deletions of the seed belongs
there as well: its office stays and loses every grant. The tokens and the audit
entry after a registration are not part of this module.

### TeamPage, OfficePages, Dashboard

`TeamPage` is the page in one tab over an API that may fail before or after it
has done what it was asked, with another administrator at work (`OtherChanges`).
`load` may run several times at once; `list` is the answer that came last; reading
at the API and the arrival of the answer are one step. `ClickPermissions`,
`DetailArrives` and `DetailIsMadeUp` are `openPermissions`; `modal.of` remembers
from whose detail the boxes were made, because the modal is not mounted anew for
another member.

A PUT or DELETE that has been sent is not taken back. `submitting` is the state of
one mounted modal, so closing it and opening the member again lets a second PUT go
out while the first is under way, and either may reach the API last. `saving` and
`stopping` are therefore sets of calls: `sent` says that the API has yet to do it,
`awaited` that the page which sent it is still there and waits.

| Action | Code |
|---|---|
| `Save`, `SaveEnds` | `save()` up to the call, and from its answer or failure on |
| `SaveReaches`, `SaveIsRefused` | the call at the API, at any time after it was sent |
| `Deactivate`, `DeactivateReaches`, `DeactivateEnds` | the same for `deactivate()` |
| `Cancel`, `ToggleForm` | modals are closed; what they have sent goes on |
| `Submit`, `Created` | `submit()` of the form, which may be closed, opened and sent once more while its first post is under way |

`OfficePages` has finance and crm, whose records must agree with each other and
are kept in the page alone. `Dashboard` lets the user go from page to page (`Go`),
which unmounts what is there: the calls under way are no longer awaited
(`Abandoned`), but reach the API, or do not, while another page is shown or the
same one once more (`ApiNext`); what `localStorage` holds stays.

### TenantScope and TenantRequests

`Rewritten` is what the extension of `prisma.service.ts` does to the arguments of a
statement, `Executed` what Prisma does with them. There is no state to explore in
`TenantScope`; what is to be said is proved for every statement. How
AsyncLocalStorage carries the context is the runtime's.

`$transaction` callbacks and public routes get the client that is not scoped, by
design. `TenantRequests` has requests of any offices on the same tables: `Enter`
is the guard and the interceptor, `Statement` any operation on the scoped client,
`Invite`, `RevokeRead`, `RevokeWrite`, `AcceptRead` and `AcceptWrite` are the
handlers of the team service that change rows by the raw client. There
`revokeInvitation` names its invitation by the id alone, and an address may have
an account in every office. That no other office is touched rests on what an
earlier statement of the same request has read, and on invitations never moving
to another office, which is the inductive invariant.

## 4. The runs

| Run | Instance | What it shows |
|---|---|---|
| `refresh_tokens` | 1 user, 3 tokens, 3 requests | type correctness; `OneLiveTokenPerSession`; `DeactivatedMembersAreOut`; `ImplementsLifecycle` |
| `refresh_tokens_reuse` | 1 user, 3 tokens, 2 requests | violated: `TokenIsRotatedOnce` (finding 1) |
| `refresh_tokens_suspension` | the same | violated: `SuspensionEndsSessions` (finding 2) |
| `team_members` | 3 members, 2 requests | type correctness; `OfficeKeepsAnOwner`; `NobodyChangesTheirOwnStanding` |
| `team_members_last_owner` | 2 members, 2 requests | violated: `OfficeHasAnActiveOwner` (finding 3) |
| `invitations` | 2 addresses, 3 invitations, 2 requests | type correctness; `OpenInvitationHasItsAccount`; `UsedXorRevoked`; `PasswordComesWithAcceptance`; `AccountsWithPasswordAreKept` |
| `login_lockout` | 3 requests, limit 4, lock of 2 ticks | type correctness; `LockIsEarned`; `UnpunishedFailuresAreBounded`; `LockIsInert` |
| `rbac_cache` | 1 process, 1 member, 1 role, 2 codes, 2 requests, TTL and latency of 1 tick | type correctness; `EntriesAreRecent`; `ChangesAreSeenAtOnce`; `RowsWereAskedFor`; `OverridesDiffer` |
| `client_session` | 2 tabs with 2 calls each, 2 accounts, 2 pairs, 1 page load | type correctness; `HonestSessionsSurvive`; `StoredTokensWork`; `TabsActAsTheirUser`; `LogoutIsFinal`; `RefreshesReplaceTheirOwn` |
| `client_session_live` | 1 tab with 3 calls, 1 account, 2 pairs, 1 page load | `PagesSettle`, a liveness property |
| `provisioning` | 2 containers of different versions, 1 operator, 1 slug, 2 addresses, 2 requests, 2 numbers | type correctness; `OfficesAreWhole`; `CatalogueIsServed`; `OfficesAreKept` |
| `dashboard` | 1 member, 2 permissions, 2 addresses, 2 calls, 2 invoices, 1 new client | type correctness; `RowsAreUnique`; `CreatedAreListed`; `SavesChangeWhatWasTouched`; `BooksBalance`; `PaidIsPaid`; `CodesAreUnique` |

Bounds. Most bounds are the sizes of the constant sets; where the code counts
without end, a constant that begins with `Max` bounds it in a guard. Rows are
never deleted in the sign-in modules, so `Tokens` and `Invites` limit how many can
be issued, and a behaviour goes on without issuing once they are used up.

* Three tokens are a login and two rotations, or two sessions: enough for the
  race of two rotations, with a third request to burn, log out or deactivate in
  between. Users interact only through their own rows, so one is enough; that
  the properties hold for any number is proved.
* Three members are the two owners that a race needs and a third to take over.
* Two requests are enough for every pair that overlaps; slots are reused, so a
  slow request can be overtaken by any number of fast ones. Two addresses would
  show a write that hits the wrong account, three invitations an address that is
  invited, revoked and invited again while the other is in use.
* A limit of four leaves room between the first failure and the lock; the bound
  on unpunished failures was also checked for 2 requests with limits 4 and 5 and
  for 4 requests with limit 3, and in each of these instances it is attained.
* `rbac_cache`: members and roles meet only in a member's entry, which one of each
  has; of the codes one is a default and one is not, so that an empty matrix, a
  grant, a revoke and an override that says nothing new all occur. A TTL and a
  latency of one tick make a window of two ticks, in which a fill can be as
  late as it may.
* `client_session`: two tabs, for a race needs two; two pairs are a login and its
  refresh, or two logins of different accounts; `MaxCalls` bounds only how many
  calls the user has begun. That nothing depends on these numbers is proved.
* `provisioning`: of three codes one is retired, one kept and one added between the
  versions; the slug is the seed's, for only there the ways to an office meet; two
  numbers are the one that the seed's client has and the next.
* `dashboard`: amounts from -1 to 2 and an invoice of which 1 remains give a
  payment of nothing, in full, too large, and below nothing, which `MaxDebt`
  bounds. Two calls are two loads, two details, two saves of which the later is
  done first, or a save that waits while a detail is read and saved again.

What is excused, in the two runs whose properties excuse most:

* `SavesChangeWhatWasTouched` is about saves that are `sound` when they reach the
  API: the modal and its boxes belong to one member, the detail and the catalogue
  came from the API, and the member has held what the detail said until then. A
  save is unsound, then, if the API failed the page, if two rows were opened at
  once, or if the detail was outdated, before the save or while it was under way,
  by another administrator, by a cache of the API, or by another save of the page.
  The last is what a modal leads to that is closed while its PUT is pending and
  opened again: of two such saves the one that is done later can undo boxes that
  were not clicked for it. The code has nothing against it, and the page shows the
  boxes of a PUT that was not yet done.
* `RefreshesReplaceTheirOwn` excuses the tabs in `crossed` (a login in another tab,
  or during a refresh or a restore(), until the tab is loaded anew), and the
  sessions in `torn` (an answer was lost or could not be read, or two tabs refreshed
  one token, at any time before). So do, each with one of them,
  `TabsActAsTheirUser`, `HonestSessionsSurvive` and `StoredTokensWork`.

The members, tokens, addresses, tabs and requests are interchangeable, so the
safety runs use symmetry; for the liveness run it would not be sound, and
`client_session_live` has none. The team runs do not check for deadlock: an office
whose last active member is suspended has nobody left whom the guard lets in, and
really stops. Nor does `client_session_live`: page loads and pairs are bounded
there, and what is left when they are used up may be a page at rest.

Fairness is assumed in `ClientSession` only, and of the browser only: a fetch
settles one way or the other and what awaits it goes on (weak fairness of each
tab's `Refresh` and of each slot's `Answer`), and a page that is mounted runs its
effects (of `Restore`). `fetch` and promises justify that; of the user and the
server nothing is assumed. `PagesSettle` then says that every call ends and that
no tab keeps AuthGate's spinner, because a 401 leads to one refresh and one more
attempt only. Everything else is a safety property: a request may take for ever
or fail anywhere. In particular nothing is promised of when a cache entry is
renewed; its age is bounded instead.

### What the lockout bound says

With N the limit and K concurrent logins, fewer than C(K+N-1, N-1) wrong
passwords since the last successful login leave the account unlocked. For K = 1
that is N - 1, what the configuration promises. The counter is written as "what I
read, plus one", so each of K requests that read a counter of 0 can bring it back
to 1 once, after each of which those that are free can read a 1, and so on; the
binomial coefficient counts these chances. What matters is that it is finite: no
interleaving avoids the lock for ever.

## 5. The proofs

Each `*Proofs` module holds, for its component, the theorem of type correctness
and those of its safety properties (`AuthorizationProofs` for two components), checked
by TLAPS for any finite or infinite sets of tokens, requests, tabs and so on; where
requests are counted, for any finite set of them. The assumptions are those the modules
name: `MembersAssumption` (finitely many members, so that they can be counted),
`NoneAssumption`, `BooksAssumption` (what the pages begin with) and each
`ConfigAssumption` (bounds are numbers, as the schema in `configuration.ts` demands
of limit and lock; constants that name nobody are nobody's names).
`RefreshTokens` and `TenantScope` assume nothing of the kind.

The argument is the same everywhere: few of the properties are inductive, since
that a write is harmless depends on what its request read and checked some steps
ago. The inductive invariant (`IInv`; in `ClientSessionProofs` the conjunction of
`BookInv`, `RefreshInv` and `OwnerInv`) says in addition that *what a request that
is not overtaken has read is still true* (`PresentedToken` and
`DeactivationOvertakes`; `OwnStandingKnown` and `AnotherOwner`; `StillOpen`;
`Fresh`). Specific to each module:

* `RefreshTokens`: of the rotations of one session at most one that is not
  overtaken is between its two writes (`OneRenewal`), and while it is the session
  has no live token (`NoLiveTokenWhileRenewing`). The refinement proof
  (`Implementation`) shows that a step which issues nothing can only close
  sessions (`NothingRevives`, `ClosesOrStutters`), and that issuing changes no
  session but its own (`IssueKeepsOtherSessions`).
* `TeamMembers`: more than one active owner means another one than the target
  (`MoreThanOneOwner`, from the cardinality theorems), and that one is still there
  when the write comes.
* `Invitations`: an open invitation is the origin of its address's account, so an
  address has one, and who uses it is who it was created for.
* `LoginLockout`: without a race the counter is the streak of failures. For the
  bound each request is given a level, no higher than the counter that it holds
  or would read, and each level a budget of failures (`BudgetInv`). A failure
  counts as one on the level of its request, cuts every level to what it sets the
  counter to, and sets one unit of the budget free (`FailureIsPaid`); a login renews
  it (`FreshBudget`). That the budget is a binomial coefficient comes from
  Pascal's triangle, which is proved here for the library's `choose` along with
  the arithmetic of factorials. The induction that this takes is over a set of
  numbers (`AllNumbers`, from the least number of a set), for the library's theorem
  about predicates cannot be instantiated by the provers.
* `ClientSession`: a token on its way to the server is live or its session torn
  (`SentTokensAreLive`), as is every token whose answer nobody awaits
  (`StraysAreTorn`); two flights of one token have torn it (`OneFlightPerToken`); and
  the pair that a refresh has obtained is good, of the same session, and known to
  nobody else (`GotIsNew`): not in the store, not in another flight. So reuse
  detection can only meet torn sessions. For the two properties about accounts:
  unless a login crossed, the store and all flights hold tokens of one session
  (`Coherent`, up to a store that was emptied and demo tokens), sessions have one
  user, and what `restore()` carries belongs to that user (`TabsAreTheirs`).
  The server of this module answers in one step what takes `RefreshTokens` three;
  that it promises the same is a theorem, `ServerKeepsLifecycle`: a login opens a
  session (`LoginOpens`), a rotation hands it on (`RotationHandsOn`), reuse detection
  closes it (`BurnCloses`), and what is closed stays closed. The mapping
  (`SessionPhase`, in `ClientSessionProofs`) knows no overrun. The theorem stands in
  for a run.
* `Provisioning`: what the seed has done is what its next statement presupposes
  (`SeedHasGranted`, `SeedHasNumbered`, `SeedHasStaffed`); counters are ahead of the
  numbers in use; and grants are of codes that are listed (`GrantsAreListed`, the
  foreign key), from which it follows that a code every version knows is lost to
  no retirement.
* `Dashboard`: what the modal shows differs from what its member holds in the
  boxes that were clicked (`ModalIsFaithful`), and so does each of the saves under
  way, of however many modals and pages (`SaveIsFaithful`); a page that is not
  mounted shows nothing (`AtRestElsewhere`); an invoice that is being paid owes something (`PayingOwes`),
  and the codes of n clients are 1001 to 1000 + n (`CodesCount`).
* `RbacCache`: everything is counted in the ages of the windows. What is in force
  has age 0. A role's entry with `left` of its TTL rests on rows no older than
  `Latency + (TTL - left)`; a member's entry rests on marks just as old and, for
  the codes without one, on a role part older by at most `Lag`, for the role's
  entry it was made from may have been about to expire. What a request has read
  is as old as its await, or, when it came from the cache, older by `Lag` at most
  (`EntriesInv`, `RequestInv`). What no write has overtaken equals what is in force,
  which gives `ChangesAreSeenAtOnce`, a part of the invariant. `RowsWereAskedFor`
  has one of its own (`AskedInv`): a replacement that is half-way keeps exactly the
  rows of now that were not asked for when it began (`HalvesInv`), through every
  commit that it meets (`MeetingKeepsHalves`). What a step does to entries and requests it does not write itself is said
  once for all steps: an entry fades (`Fades`), a request goes on holding what it has
  read, unless a change has marked it (`Follows`), and a drop that is done leaves no
  clean entry behind (`DropsAreDone`). TLC checks the run's five invariants on one process; the theorems
  are for any number of processes, members, roles, codes and requests.
* `TenantScope`: for every operation, table and argument (`ReadsStayInside`,
  `WritesStayInside`, `FailsClosed`). The second needs that the data of an update
  names no other office, which the extension does not enforce.
* `TenantRequests`: an invitation that a request has found is still there, with the
  office it was found with (`FoundInvitation`), which for a request with a context
  is its own (`FoundInside`). `TenantsAssumption`, a hypothesis of its theorems,
  says that no office is the lack of one, and names the columns.

| Theorem | States |
|---|---|
| `TypeCorrect` (each module with a run) | `Spec => []TypeOK`, for the dashboard `DashboardTypeOK` |
| `AuthorizationProofs!EntriesStayRecent` | `[]EntriesAreRecent` |
| `AuthorizationProofs!ChangesAreAlwaysSeenAtOnce`, `RowsWereAlwaysAskedFor`, `OverridesAlwaysDiffer` | `[]ChangesAreSeenAtOnce`, `[]RowsWereAskedFor`, `[]OverridesDiffer` |
| `RefreshTokensProofs!OneLiveToken` | `[]OneLiveTokenPerSession` |
| `RefreshTokensProofs!DeactivationEndsSessions` | `[]DeactivatedMembersAreOut` |
| `RefreshTokensProofs!Implementation` | the refinement of `SessionLifecycle` |
| `TeamMembersProofs!OwnerRemains` | `[]OfficeKeepsAnOwner` |
| `TeamMembersProofs!OwnStandingIsOutOfReach` | `NobodyChangesTheirOwnStanding` |
| `InvitationsProofs!OpenInvitationsKeepTheirAccounts`, `InvitationsEndOnce`, `PasswordsComeWithAcceptance` | its three invariants |
| `InvitationsProofs!MembersAreKept` | `AccountsWithPasswordAreKept` |
| `LoginLockoutProofs!LocksAreEarned`, `LocksAreInert` | `[]LockIsEarned`, `LockIsInert` |
| `LoginLockoutProofs!UnpunishedFailuresStayBounded` | `[]UnpunishedFailuresAreBounded`, for finitely many concurrent logins |
| `ClientSessionProofs!SessionsOfTheHonestSurvive` | `[]HonestSessionsSurvive` |
| `ClientSessionProofs!StoredTokensAlwaysWork` | `[]StoredTokensWork` |
| `ClientSessionProofs!TabsAlwaysActAsTheirUser` | `[]TabsActAsTheirUser` |
| `ClientSessionProofs!LogoutStaysFinal` | `[]LogoutIsFinal` |
| `ClientSessionProofs!ServerKeepsLifecycle`, `ClosedSessionsStayClosed` | the refinement of `SessionLifecycle` by the server that the browser meets, and what follows from it |
| `ClientSessionProofs!RefreshesAlwaysReplaceTheirOwn` | `RefreshesReplaceTheirOwn` |
| `ProvisioningProofs!OfficesAreAlwaysWhole`, `CatalogueIsAlwaysServed`, `OfficesAreAlwaysKept` | `[]OfficesAreWhole`, `[]CatalogueIsServed`, `OfficesAreKept` |
| `DashboardProofs!RowsAreAlwaysUnique`, `CreatedAreAlwaysListed` | `[]RowsAreUnique`, `[]CreatedAreListed` |
| `DashboardProofs!SavesAlwaysChangeWhatWasTouched` | `SavesChangeWhatWasTouched` |
| `DashboardProofs!BooksAlwaysBalance`, `PaidStaysPaid` | `[]BooksBalance`, `PaidIsPaid` |
| `DashboardProofs!CodesAreAlwaysUnique` | `[]CodesAreUnique` |
| `AuthorizationProofs!ReadsStayInside`, `WritesStayInside`, `FailsClosed` | a statement stays inside the caller's office |
| `AuthorizationProofs!TenantTypeCorrect`, `AnswersAlwaysStayInside`, `OfficesStayIsolated` | so do all requests together, with their raw statements: `[]TenantTypeOK`, `[]AnswersStayInside`, `OfficesAreIsolated` |

Every invariant and every action property of a passing run is stated by a theorem.
Only model-checked is `PagesSettle`, like everything that concerns liveness or
ENABLED, which TLAPS does not prove.

## 6. What was found

1. `rotate` checks `revokedAt` on a row read earlier and then updates by id. Two
   overlapping presentations of one token are both rotated: the reuse detection
   that the class comment describes does not see the second, and the session has
   two live tokens. (`refresh_tokens_reuse`)
2. A member suspended with PATCH instead of DELETE keeps live refresh tokens, and
   with them sessions that work again after a reactivation; `revokeAllForUser`,
   whose comment names suspension, has no caller. (`refresh_tokens_suspension`)
3. Two owners who remove each other at the same time both pass
   `assertNotLastOwner`. (`team_members_last_owner`)

Met while modelling, where the code departs from what it says of itself, without
a run of their own:

* `AuthGate.tsx:9` "Blocks the dashboard until the server confirms a session": a
  failed `restore()` signs a demo account in as long as there are tokens.
* `create-owner.ts:17` "Refuses to create a second owner for the same slug": the
  SQL it writes adds one; and line 128 "left untouched": it gives back the rows of
  the default matrix that the office had removed.
* `build-setup-sql.ts:150-151` says that the table heals itself: the codes come
  back, but the grants that cascaded with them do not.

Also visible in the models, without contradicting anything the repository says:
a session whose renewal was cut off between its two writes is lost, and the retry
burns it; a revocation that comes late deletes the account of a newer invitation;
a suspended invitee becomes active by accepting; the next wrong password after a
lock has run out locks again at once, because the counter is not reset. Two
updates of a matrix that meet half-way leave the rows of both (and no others:
`RowsWereAskedFor`); a role whose last
permission is removed gets its defaults back. A refresh under way when the user
logs out brings tokens back, and a logout revokes nothing at the server, since it
posts no token. Two containers of different versions that start at the same time
can leave only what both know, and offices that exist do not get the codes of a
new version. The permission modal keeps the boxes of the member it was first
opened for, a save with the made-up catalogue drops the overrides outside it, and
failures of saves are reported as successes; a modal that is closed while its save
is pending and opened again shows what the member held before it, and its own save
undoes the first: `SavesChangeWhatWasTouched` holds for the saves for which none of
this happened (`sound`). Payments may be negative.

## 7. What is not modelled, and why

* Configuration, validation rules, the error filter and the health check keep no
  state.
* The pages that only show constants or print what others hold, the forms of
  registration and acceptance, search texts, copying and printing: layout. What
  they end in, `setSessionData` and the posts to the API, is in the modules.
* The pages of service orders, documents and field visits: each handler assigns
  what its own page holds, once (the order in the list and the copy beside it from
  one value). Nothing leaves the page, and a property would only repeat the
  assignment. (A generated contract does stay on the screen when another client is
  chosen.)
* Most tables of the schema (clients, documents, invoices and their like) have no
  code in the API yet.
* Audit entries are written after the fact and caught, except in
  `acceptInvitation`, where a failure is reported for an account that was
  activated; answers to the caller are not part of the server's modules.
* Rate limits are per address and per process and bound how fast requests
  arrive, not how they interleave; that a call may be refused for them is in
  `ClientSession`.
* Access tokens are stateless and live 15 minutes; what one is worth is decided by
  the guard at every request.
* PostgreSQL is taken to execute a statement atomically and a transaction
  all-or-nothing at its default isolation level, where a statement in it sees what
  was committed before that statement.
