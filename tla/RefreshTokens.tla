--------------------------- MODULE RefreshTokens ---------------------------
(***************************************************************************)
(* The refresh-token sessions of the API: apps/api/src/auth/token.service  *)
(* with its callers, statement by statement.  A handler is a sequence of   *)
(* awaited database statements; each statement is atomic in PostgreSQL,    *)
(* and between two of them any other request may run, in the same process  *)
(* or in another one.                                                      *)
(*                                                                         *)
(* A refresh token is an opaque random value, so it is a member of Tokens, *)
(* and issuing one picks a member that no row holds.  A family identifier  *)
(* is random as well: a family is named by the first token issued in it.   *)
(* Of users.status only ACTIVE matters here: SUSPENDED stands for every    *)
(* other value.                                                            *)
(***************************************************************************)
EXTENDS FiniteSets, Naturals

CONSTANTS
    Users,      \* rows of users
    Tokens,     \* values randomBytes(48) can return
    Requests    \* slots for the requests the API is serving at one time

VARIABLES
    status,     \* users.status
    issued,     \* the tokens that have a row in refresh_tokens
    owner,      \* refresh_tokens.userId
    family,     \* refresh_tokens.familyId
    revoked,    \* rows whose revokedAt is set
    expired,    \* rows whose expiresAt has passed
    req,        \* per request: the statement it is about to execute, and on what
    (* History variables: no action reads them, the properties do. *)
    overtaken,  \* requests whose rows another request revoked after they read them
    stale,      \* families extended by an overtaken request
    deactivated \* users deactivated by an administrator and not ACTIVE since

rowVars == <<issued, owner, family>>
ghosts  == <<overtaken, stale, deactivated>>
vars    == <<status, rowVars, revoked, expired, req, ghosts>>

Status == {"ACTIVE", "SUSPENDED"}

Idle    == [at: {"idle"}]
OnUser  == [at: {"login_issue", "deactivate_tokens"}, user: Users]
OnToken == [at: {"rotate_revoke", "rotate_issue", "burn_family"}, token: issued]

\* Type correctness: every row has an owner and a family that was really
\* opened, and a request in flight holds a token that has a row.
TypeOK ==
    /\ status \in [Users -> Status]
    /\ issued \subseteq Tokens
    /\ owner \in [issued -> Users]
    /\ family \in [issued -> issued]
    /\ revoked \subseteq issued
    /\ expired \subseteq issued
    /\ req \in [Requests -> Idle \cup OnUser \cup OnToken]
    /\ overtaken \subseteq Requests
    /\ stale \subseteq issued
    /\ deactivated \subseteq Users

-----------------------------------------------------------------------------
(* Rows and requests *)

\* revokedAt IS NULL: what the updateMany statements select.
Live == issued \ revoked

\* Mutated: only the token each session began with.
FirstTokensOf(u) == {t \in issued : owner[t] = u /\ family[t] = t}

TokensOf(u) == {t \in issued : owner[t] = u}
Members(f)  == {t \in issued : family[t] = f}

Rotating(r)  == req[r].at \in {"rotate_revoke", "rotate_issue"}
InFlight(r)  == Rotating(r) \/ req[r].at = "login_issue"

\* The session a rotation is about, and the user any token-issuing request is about.
FamilyOf(r)  == family[req[r].token]
SubjectOf(r) == IF req[r].at = "login_issue" THEN req[r].user ELSE owner[req[r].token]

Goto(r, next) == req' = [req EXCEPT ![r] = next]
Done == [at |-> "idle"]

\* Only the requests that go on to issue a token are ever marked.
Overtake(S) == overtaken' = overtaken \cup S

\* Mutated: the row is inserted before its columns are known.
CreateBare(n, u, f) ==
    /\ issued' = issued \cup {n}
    /\ UNCHANGED <<owner, family>>

\* refreshToken.create: a new row, live, in family f.
Create(n, u, f) ==
    /\ issued' = issued \cup {n}
    /\ owner'  = [t \in issued' |-> IF t = n THEN u ELSE owner[t]]
    /\ family' = [t \in issued' |-> IF t = n THEN f ELSE family[t]]

-----------------------------------------------------------------------------
Init ==
    /\ status \in [Users -> Status]
    /\ issued = {}
    /\ owner = [t \in {} |-> t]
    /\ family = [t \in {} |-> t]
    /\ revoked = {}
    /\ expired = {}
    /\ req = [r \in Requests |-> Done]
    /\ overtaken = {}
    /\ stale = {}
    /\ deactivated = {}

(***************************************************************************)
(* login, up to the call of tokens.issue: the account is read once and     *)
(* refused unless ACTIVE; nothing re-reads it before the token is created. *)
(***************************************************************************)
LoginRead(r, u) ==
    /\ req[r] = Done
    /\ status[u] = "ACTIVE"
    /\ Goto(r, [at |-> "login_issue", user |-> u])
    /\ UNCHANGED <<status, rowVars, revoked, expired, ghosts>>

(***************************************************************************)
(* issue, called by login (familyId defaults to a fresh random value) and  *)
(* by rotate (the family of the presented token).                          *)
(***************************************************************************)
Issue(r, n, u, f) ==
    /\ n \in Tokens \ issued
    /\ Create(n, u, f)
    /\ stale' = IF r \in overtaken THEN stale \cup {f} ELSE stale
    /\ overtaken' = overtaken \ {r}
    /\ Goto(r, Done)
    /\ UNCHANGED <<status, revoked, expired, deactivated>>

LoginIssue(r, n) ==
    /\ req[r].at = "login_issue"
    /\ Issue(r, n, req[r].user, n)

RotateIssue(r, n) ==
    /\ req[r].at = "rotate_issue"
    /\ Issue(r, n, owner[req[r].token], FamilyOf(r))

\* Mutated: whether the token was rotated before is not asked.
NeverRotated(t) == FALSE

\* stored.revokedAt is set: the token was rotated, logged out or burned before.
Rotated(t) == t \in revoked

(***************************************************************************)
(* rotate, first statement: the row is read together with its user, and    *)
(* the four outcomes are decided on that snapshot.  A token without a row  *)
(* is refused and changes nothing.                                         *)
(***************************************************************************)
RotateRead(r, t) ==
    /\ req[r] = Done
    /\ t \in issued
    /\ \/ /\ Rotated(t)                          \* reuse of a rotated token
          /\ Goto(r, [at |-> "burn_family", token |-> t])
       \/ /\ ~Rotated(t) /\ t \in expired          \* 401, and the family is left alone
          /\ UNCHANGED req
       \/ /\ ~Rotated(t) /\ t \notin expired /\ status[owner[t]] # "ACTIVE"
          /\ Goto(r, [at |-> "burn_family", token |-> t])
       \/ /\ ~Rotated(t) /\ t \notin expired /\ status[owner[t]] = "ACTIVE"
          /\ Goto(r, [at |-> "rotate_revoke", token |-> t])
    /\ UNCHANGED <<status, rowVars, revoked, expired, ghosts>>

\* Mutated: the row is only marked as used.
RotateWithoutRevoking(r) ==
    LET t == req[r].token IN
    /\ req[r].at = "rotate_revoke"
    /\ Goto(r, [at |-> "rotate_issue", token |-> t])
    /\ UNCHANGED <<status, rowVars, revoked, expired, ghosts>>

\* rotate, second statement: an update by primary key, whatever revokedAt holds by now.
RotateRevoke(r) ==
    LET t == req[r].token IN
    /\ req[r].at = "rotate_revoke"
    /\ revoked' = revoked \cup {t}
    /\ Goto(r, [at |-> "rotate_issue", token |-> t])
    /\ Overtake({q \in Requests \ {r} : t \notin revoked
                                        /\ req[q] = [at |-> "rotate_revoke", token |-> t]})
    /\ UNCHANGED <<status, rowVars, expired, stale, deactivated>>

\* revokeFamily, then the 401 of reuse detection or of an inactive account.
BurnFamily(r) ==
    LET f == FamilyOf(r) IN
    /\ req[r].at = "burn_family"
    /\ revoked' = revoked \cup Members(f)
    /\ Goto(r, Done)
    /\ Overtake({q \in Requests : Rotating(q) /\ FamilyOf(q) = f})
    /\ UNCHANGED <<status, rowVars, expired, stale, deactivated>>

\* revoke: one updateMany on the hash, which matches nothing once the token was rotated.
Logout(t) ==
    /\ t \in Live
    /\ revoked' = revoked \cup {t}
    /\ Overtake({q \in Requests : req[q] = [at |-> "rotate_revoke", token |-> t]})
    /\ UNCHANGED <<status, rowVars, expired, req, stale, deactivated>>

(***************************************************************************)
(* deactivateMember: the status first, the sessions in a second statement. *)
(* Who may deactivate whom is the subject of TeamMembers.                  *)
(***************************************************************************)
DeactivateStatus(r, u) ==
    /\ req[r] = Done
    /\ status' = [status EXCEPT ![u] = "SUSPENDED"]
    /\ Goto(r, [at |-> "deactivate_tokens", user |-> u])
    /\ UNCHANGED <<rowVars, revoked, expired, ghosts>>

DeactivateTokens(r) ==
    LET u == req[r].user IN
    /\ req[r].at = "deactivate_tokens"
    /\ revoked' = revoked \cup TokensOf(u)
    /\ Goto(r, Done)
    /\ Overtake({q \in Requests : InFlight(q) /\ SubjectOf(q) = u})
    /\ deactivated' = IF status[u] = "ACTIVE" THEN deactivated ELSE deactivated \cup {u}
    /\ UNCHANGED <<status, rowVars, expired, stale>>

\* updateMember with dto.status, and the activation of acceptInvitation: one
\* statement on users, none on refresh_tokens.
SetStatus(u, s) ==
    /\ status[u] # s
    /\ status' = [status EXCEPT ![u] = s]
    /\ deactivated' = IF s = "ACTIVE" THEN deactivated \ {u} ELSE deactivated
    /\ UNCHANGED <<rowVars, revoked, expired, req, overtaken, stale>>

\* expiresAt passes; nothing ever deletes the row.
Expire(t) ==
    /\ t \in issued \ expired
    /\ expired' = expired \cup {t}
    /\ UNCHANGED <<status, rowVars, revoked, req, ghosts>>

\* A statement fails or the container is stopped: what was written stays written.
Abort(r) ==
    /\ req[r] # Done
    /\ Goto(r, Done)
    /\ overtaken' = overtaken \ {r}
    /\ UNCHANGED <<status, rowVars, revoked, expired, stale, deactivated>>

Next ==
    \/ \E r \in Requests :
        \/ \E u \in Users : LoginRead(r, u) \/ DeactivateStatus(r, u)
        \/ \E n \in Tokens : LoginIssue(r, n) \/ RotateIssue(r, n)
        \/ \E t \in Tokens : RotateRead(r, t)
        \/ RotateRevoke(r) \/ BurnFamily(r) \/ DeactivateTokens(r) \/ Abort(r)
    \/ \E t \in Tokens : Logout(t) \/ Expire(t)
    \/ \E u \in Users, s \in Status : SetStatus(u, s)

Spec == Init /\ [][Next]_vars

-----------------------------------------------------------------------------
(* Properties *)

LiveIn(f) == Live \cap Members(f)

\* A rotation that has revoked its token and is about to create the successor.
Renewing(f) ==
    \E r \in Requests \ overtaken : req[r].at = "rotate_issue" /\ FamilyOf(r) = f

\* rotate() replaces a token by exactly one other: a session has two live
\* tokens only if a rotation wrote after its snapshot was overtaken.
OneLiveTokenPerSession ==
    \A t1, t2 \in Live :
        family[t1] = family[t2] /\ family[t1] \notin stale => t1 = t2

\* deactivateMember ends the sessions now: until the member is made ACTIVE
\* again, a live token of theirs can only come from a request whose reads the
\* deactivation overtook.
DeactivatedMembersAreOut ==
    \A t \in Live : owner[t] \in deactivated => family[t] \in stale

\* The tokens implement the life of a session: whatever rotates, replays, logs
\* out, deactivates, fails half way or expires, a session that has no live
\* token and no successor on its way never gets one again.
PhaseOf(f) ==
    IF f \in stale THEN "overrun"
    ELSE IF Members(f) = {} THEN "none"
    ELSE IF LiveIn(f) # {} \/ Renewing(f) THEN "open" ELSE "closed"

SessionPhase == [f \in Tokens |-> PhaseOf(f)]

Lifecycle == INSTANCE SessionLifecycle WITH Sessions <- Tokens, phase <- SessionPhase

ImplementsLifecycle == Lifecycle!Spec

\* token.service.ts:28-33 - "Presenting an already-rotated token means the token
\* was stolen and replayed, so the whole family is revoked": one token is never
\* exchanged for two successors.
TokenIsRotatedOnce ==
    \A r, q \in Requests :
        req[r].at = "rotate_issue" /\ req[q] = req[r] => r = q

\* token.service.ts:132 - "Log out every session for a user - used on password
\* change and suspension": a user who is not ACTIVE has no live token, unless
\* the deactivation that will revoke it is still running.
SuspensionEndsSessions ==
    \A t \in Live :
        status[owner[t]] # "ACTIVE" =>
            \E r \in Requests : req[r] = [at |-> "deactivate_tokens", user |-> owner[t]]
=============================================================================
