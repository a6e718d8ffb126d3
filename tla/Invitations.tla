---------------------------- MODULE Invitations ----------------------------
(***************************************************************************)
(* Joining an office by invitation: invite, revokeInvitation and           *)
(* acceptInvitation of apps/api/src/team/team.service.ts, for one tenant.  *)
(* Each of them reads, awaits - a permission lookup, the start of a        *)
(* transaction, a bcrypt hash - and then writes an account and an          *)
(* invitation in one transaction.  The transaction re-checks nothing that  *)
(* was read; all that protects it is the unique index on [tenantId, email] *)
(* and that an update of a missing row fails.                              *)
(*                                                                         *)
(* An account is named by its email.  Nothing in the API deletes one but   *)
(* revokeInvitation.                                                       *)
(***************************************************************************)
EXTENDS FiniteSets

CONSTANTS
    Emails,     \* addresses that can be invited or have an account
    Invites,    \* rows invitation.create can insert, each with its own token
    Requests,   \* slots for the requests the API is serving at one time
    None        \* no invitation

ASSUME NoneAssumption == None \notin Invites

VARIABLES
    status,     \* users.status, or "NO_ACCOUNT"
    hasPassword,\* emails whose account has a passwordHash
    sent,       \* invitations that have a row
    email,      \* invitations.email
    accepted,   \* rows whose acceptedAt is set
    revoked,    \* rows whose revokedAt is set
    expired,    \* rows whose expiresAt has passed
    req,        \* per request: the transaction it is about to run, and on what
    (* History variables *)
    origin,     \* the invitation an account was created with, or None
    overtaken,  \* requests whose invitation was used or revoked after they read it
    raced       \* emails an overtaken request has written to

accountVars == <<status, hasPassword, origin>>
inviteVars  == <<sent, email>>
vars == <<accountVars, inviteVars, accepted, revoked, expired, req, overtaken, raced>>

Status == {"PENDING_INVITATION", "ACTIVE", "SUSPENDED"}

Done     == [at |-> "idle"]
Idle     == {Done}
OnEmail  == [at: {"invite"}, email: Emails]
OnInvite == [at: {"revoke", "accept"}, invite: sent]

HasAccount(e) == status[e] # "NO_ACCOUNT"

\* Type correctness: only accounts have passwords and origins, and the origin
\* of an account is an invitation that was sent to its address.
TypeOK ==
    /\ status \in [Emails -> Status \cup {"NO_ACCOUNT"}]
    /\ hasPassword \subseteq {e \in Emails : HasAccount(e)}
    /\ sent \subseteq Invites
    /\ email \in [sent -> Emails]
    /\ accepted \subseteq sent /\ revoked \subseteq sent /\ expired \subseteq sent
    /\ req \in [Requests -> Idle \cup OnEmail \cup OnInvite]
    /\ origin \in [Emails -> sent \cup {None}]
    /\ \A e \in Emails : origin[e] # None => HasAccount(e) /\ email[origin[e]] = e
    /\ overtaken \subseteq Requests
    /\ raced \subseteq Emails

-----------------------------------------------------------------------------
\* acceptedAt IS NULL AND revokedAt IS NULL.
Open == sent \ (accepted \cup revoked)

\* Mutated: an invitation that was used can be revoked.
RevocableLoosely(i) == i \in sent /\ i \notin revoked

\* What revokeInvitation looks for; whether it has expired is not asked.
Revocable(i) == i \in Open

\* What acceptInvitation looks for.
Acceptable(i) == i \in Open /\ i \notin expired

Goto(r, next) == req' = [req EXCEPT ![r] = next]

OnIt(i) == {q \in Requests : req[q].at \in {"revoke", "accept"} /\ req[q].invite = i}

\* Request r has used or revoked i, and is over.
Finish(r, i) ==
    /\ Goto(r, Done)
    /\ overtaken' = (overtaken \cup OnIt(i)) \ {r}
    /\ raced' = IF r \in overtaken THEN raced \cup {email[i]} ELSE raced

\* The transaction is rolled back.
Fail(r) ==
    /\ Goto(r, Done)
    /\ overtaken' = overtaken \ {r}
    /\ UNCHANGED <<accountVars, inviteVars, accepted, revoked, expired, raced>>

-----------------------------------------------------------------------------
\* The accounts that do not come from an invitation: registerTenant and the
\* create-owner script make one, active and with a password.
Init ==
    /\ hasPassword \in SUBSET Emails
    /\ status = [e \in Emails |-> IF e \in hasPassword THEN "ACTIVE" ELSE "NO_ACCOUNT"]
    /\ sent = {} /\ accepted = {} /\ revoked = {} /\ expired = {}
    /\ email = [i \in {} |-> i]
    /\ req = [r \in Requests |-> Done]
    /\ origin = [e \in Emails |-> None]
    /\ overtaken = {} /\ raced = {}

\* invite, up to its first await: the address must not have an account.
InviteRead(r, e) ==
    /\ req[r] = Done
    /\ ~HasAccount(e)
    /\ Goto(r, [at |-> "invite", email |-> e])
    /\ UNCHANGED <<accountVars, inviteVars, accepted, revoked, expired, overtaken, raced>>

\* Mutated: the account is upserted.
NeverTaken(e) == FALSE

\* user.create is refused by the unique index [tenantId, email].
Taken(e) == HasAccount(e)

\* The transaction of invite: an account awaiting its password, and the
\* invitation.
Invite(r) ==
    LET e == req[r].email IN
    /\ req[r].at = "invite"
    /\ \/ /\ ~Taken(e)
          /\ \E i \in Invites \ sent :
              /\ status' = [status EXCEPT ![e] = "PENDING_INVITATION"]
              /\ origin' = [origin EXCEPT ![e] = i]
              /\ sent' = sent \cup {i}
              /\ email' = [j \in sent' |-> IF j = i THEN e ELSE email[j]]
          /\ Goto(r, Done)
          /\ UNCHANGED <<hasPassword, accepted, revoked, expired, overtaken, raced>>
       \/ /\ Taken(e)                                          \* 409
          /\ Fail(r)

RevokeRead(r, i) ==
    /\ req[r] = Done
    /\ Revocable(i)
    /\ Goto(r, [at |-> "revoke", invite |-> i])
    /\ UNCHANGED <<accountVars, inviteVars, accepted, revoked, expired, overtaken, raced>>

\* Mutated: the row is emptied, not deleted.
ClearStatus(e) ==
    /\ status' = [status EXCEPT ![e] = IF @ = "PENDING_INVITATION" THEN "NO_ACCOUNT" ELSE @]
    /\ UNCHANGED <<hasPassword, origin>>

\* user.deleteMany where the address has an account that is still pending.
DeletePlaceholder(e) ==
    LET gone == status[e] = "PENDING_INVITATION" IN
    /\ status' = [status EXCEPT ![e] = IF gone THEN "NO_ACCOUNT" ELSE @]
    /\ hasPassword' = IF gone THEN hasPassword \ {e} ELSE hasPassword
    /\ origin' = [origin EXCEPT ![e] = IF gone THEN None ELSE @]

\* The transaction of revokeInvitation: revokedAt by id, then the account by email.
Revoke(r) ==
    LET i == req[r].invite IN
    /\ req[r].at = "revoke"
    /\ revoked' = revoked \cup {i}
    /\ DeletePlaceholder(email[i])
    /\ Finish(r, i)
    /\ UNCHANGED <<inviteVars, accepted, expired>>

AcceptRead(r, i) ==
    /\ req[r] = Done
    /\ Acceptable(i)
    /\ Goto(r, [at |-> "accept", invite |-> i])
    /\ UNCHANGED <<accountVars, inviteVars, accepted, revoked, expired, overtaken, raced>>

\* Mutated: the password is left for a second statement.
ActivateStatus(e) ==
    /\ status' = [status EXCEPT ![e] = "ACTIVE"]
    /\ UNCHANGED hasPassword

Activate(e) ==
    /\ status' = [status EXCEPT ![e] = "ACTIVE"]
    /\ hasPassword' = hasPassword \cup {e}

\* The transaction of acceptInvitation, after the password was hashed: the
\* account by email, whatever its status, then acceptedAt by id.
Accept(r) ==
    LET i == req[r].invite
        e == email[i] IN
    /\ req[r].at = "accept"
    /\ \/ /\ HasAccount(e)
          /\ Activate(e)
          /\ accepted' = accepted \cup {i}
          /\ Finish(r, i)
          /\ UNCHANGED <<origin, inviteVars, revoked, expired>>
       \/ /\ ~HasAccount(e)                                    \* 404
          /\ Fail(r)

\* updateMember and deactivateMember, whose dto takes any of the three values.
\* They write the row they read, by id, and fail if it is gone.
SetStatus(e, s) ==
    /\ HasAccount(e) /\ status[e] # s
    /\ status' = [status EXCEPT ![e] = s]
    /\ UNCHANGED <<hasPassword, origin, inviteVars, accepted, revoked, expired, req,
                   overtaken, raced>>

Expire(i) ==
    /\ i \in sent \ expired
    /\ expired' = expired \cup {i}
    /\ UNCHANGED <<accountVars, inviteVars, accepted, revoked, req, overtaken, raced>>

\* A statement fails or the container is stopped before the transaction commits.
Abort(r) == req[r] # Done /\ Fail(r)

Next ==
    \/ \E r \in Requests :
        \/ \E e \in Emails : InviteRead(r, e)
        \/ \E i \in Invites : RevokeRead(r, i) \/ AcceptRead(r, i)
        \/ Invite(r) \/ Revoke(r) \/ Accept(r) \/ Abort(r)
    \/ \E e \in Emails, s \in Status : SetStatus(e, s)
    \/ \E i \in Invites : Expire(i)

Spec == Init /\ [][Next]_vars

-----------------------------------------------------------------------------
(* Properties.  An email is excused once two requests on one invitation of *)
(* its have raced, that is, once an overtaken one has committed.           *)

\* The link of an open invitation leads to the account that was created with
\* it: accepting it cannot fail for want of an account, it never sets the
\* password of another invitation's account, and an address has at most one.
OpenInvitationHasItsAccount ==
    \A i \in Open : email[i] \notin raced => origin[email[i]] = i

\* An invitation is used or revoked, never both.
UsedXorRevoked ==
    \A i \in accepted \cap revoked : email[i] \in raced

\* Whoever has a password got it with the account's own invitation, and whoever
\* used an invitation can sign in - whatever was patched in between.
PasswordComesWithAcceptance ==
    \A e \in Emails \ raced :
        origin[e] # None => (e \in hasPassword <=> origin[e] \in accepted)

\* revokeInvitation removes placeholders only: an account with a password is
\* never deleted, not even when its status was patched back to pending.
AccountsWithPasswordAreKept ==
    [][\A e \in hasPassword : status'[e] = "NO_ACCOUNT" => e \in raced']_vars
=============================================================================
