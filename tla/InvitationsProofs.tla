------------------------- MODULE InvitationsProofs -------------------------
(***************************************************************************)
(* Proofs about Invitations, for any sets of addresses, invitations and    *)
(* concurrent requests.                                                    *)
(***************************************************************************)
EXTENDS Invitations, TLAPS

\* Fail ends the request and changes nothing else that a property looks at.
LEMMA FailFacts ==
  ASSUME TypeOK, NEW r \in Requests, Fail(r)
  PROVE  /\ req'[r] = Done /\ \A q \in Requests \ {r} : req'[q] = req[q]
         /\ overtaken' = overtaken \ {r}
         /\ UNCHANGED <<status, hasPassword, origin, sent, email, accepted, revoked, expired, raced>>
  BY DEF Fail, Goto, TypeOK, accountVars, inviteVars

\* So does Finish, which marks the other requests on the invitation.
LEMMA FinishFacts ==
  ASSUME TypeOK, NEW r \in Requests, NEW i, Finish(r, i)
  PROVE  /\ req'[r] = Done /\ \A q \in Requests \ {r} : req'[q] = req[q]
         /\ overtaken' = (overtaken \cup OnIt(i)) \ {r}
         /\ raced \subseteq raced' /\ raced' \subseteq raced \cup {email[i]}
         /\ r \in overtaken => email[i] \in raced'
  BY DEF Finish, Goto, TypeOK

\* A request about to use or revoke an invitation has read its row.
LEMMA InviteOnHand ==
  ASSUME TypeOK, NEW r \in Requests, req[r].at \in {"revoke", "accept"}
  PROVE  req[r].invite \in sent /\ email[req[r].invite] \in Emails
  BY DEF TypeOK, Idle, Done, OnEmail, OnInvite

(***************************************************************************)
(* Type correctness.                                                       *)
(***************************************************************************)
LEMMA InitTypeOK == Init => TypeOK
  BY NoneAssumption DEF Init, TypeOK, Idle, Status, HasAccount

LEMMA NextTypeOK == TypeOK /\ [Next]_vars => TypeOK'
<1> SUFFICES ASSUME TypeOK, [Next]_vars PROVE TypeOK'
  OBVIOUS
<1> USE NoneAssumption
<1>1. ASSUME NEW r \in Requests, NEW e \in Emails, InviteRead(r, e) PROVE TypeOK'
  BY <1>1 DEF InviteRead, Goto, TypeOK, Idle, OnEmail, OnInvite, HasAccount, accountVars, inviteVars
<1>2. ASSUME NEW r \in Requests, NEW i \in Invites, RevokeRead(r, i) \/ AcceptRead(r, i)
      PROVE  TypeOK'
  BY <1>2 DEF RevokeRead, AcceptRead, Revocable, Acceptable, Open, Goto, TypeOK, Idle, OnEmail,
              OnInvite, HasAccount, accountVars, inviteVars
<1>3. ASSUME NEW r \in Requests, Fail(r) PROVE TypeOK'
  BY <1>3 DEF Fail, Goto, TypeOK, Idle, OnEmail, OnInvite, HasAccount, accountVars, inviteVars
<1>4. ASSUME NEW r \in Requests, Invite(r) PROVE TypeOK'
  <2> DEFINE e == req[r].email
  <2>1. e \in Emails
    BY <1>4 DEF Invite, TypeOK, Idle, Done, OnEmail, OnInvite
  <2>2. CASE HasAccount(e)
    BY <1>3, <1>4, <2>2 DEF Invite, Taken
  <2>3. CASE ~HasAccount(e)
    <3>1. PICK i \in Invites \ sent :
            /\ status' = [status EXCEPT ![e] = "PENDING_INVITATION"]
            /\ origin' = [origin EXCEPT ![e] = i]
            /\ sent' = sent \cup {i}
            /\ email' = [j \in sent' |-> IF j = i THEN e ELSE email[j]]
      BY <1>4, <2>3 DEF Invite, Taken
    <3>2. /\ Goto(r, Done)
          /\ UNCHANGED <<hasPassword, accepted, revoked, expired, overtaken, raced>>
      BY <1>4, <2>3 DEF Invite, Taken
    <3>3. /\ status' \in [Emails -> Status \cup {"NO_ACCOUNT"}]
          /\ hasPassword' \subseteq {x \in Emails : HasAccount(x)'}
      BY <2>1, <3>1, <3>2 DEF TypeOK, HasAccount, Status
    <3>4. /\ sent' \subseteq Invites /\ email' \in [sent' -> Emails]
          /\ origin' \in [Emails -> sent' \cup {None}]
      BY <2>1, <3>1 DEF TypeOK
    <3>5. \A x \in Emails : origin'[x] # None => HasAccount(x)' /\ email'[origin'[x]] = x
      BY <2>1, <3>1 DEF TypeOK, HasAccount
    <3>6. req' \in [Requests -> Idle \cup OnEmail \cup OnInvite']
      BY <3>1, <3>2 DEF Goto, TypeOK, Idle, OnInvite
    <3>. QED  BY <3>1, <3>2, <3>3, <3>4, <3>5, <3>6 DEF TypeOK, OnEmail, Idle
  <2>. QED  BY <2>2, <2>3
<1>5. ASSUME NEW r \in Requests, Revoke(r) PROVE TypeOK'
  <2>1. req[r].invite \in sent /\ email[req[r].invite] \in Emails
    BY <1>5, InviteOnHand DEF Revoke
  <2>. QED
    BY <1>5, <2>1 DEF Revoke, DeletePlaceholder, Finish, OnIt, Goto, TypeOK, Idle, OnEmail, OnInvite,
                      HasAccount, inviteVars
<1>6. ASSUME NEW r \in Requests, Accept(r) PROVE TypeOK'
  <2>1. req[r].invite \in sent /\ email[req[r].invite] \in Emails
    BY <1>6, InviteOnHand DEF Accept
  <2>2. CASE HasAccount(email[req[r].invite])
    BY <1>6, <2>1, <2>2 DEF Accept, Activate, Finish, OnIt, Goto, TypeOK, Idle, OnEmail, OnInvite,
                            HasAccount, Status, inviteVars
  <2>. QED  BY <1>3, <1>6, <2>2 DEF Accept
<1>7. ASSUME NEW e \in Emails, NEW s \in Status, SetStatus(e, s) PROVE TypeOK'
  BY <1>7 DEF SetStatus, TypeOK, Idle, OnEmail, OnInvite, HasAccount, Status, inviteVars
<1>8. ASSUME NEW i \in Invites, Expire(i) PROVE TypeOK'
  BY <1>8 DEF Expire, TypeOK, Idle, OnEmail, OnInvite, HasAccount, accountVars, inviteVars
<1>9. CASE UNCHANGED vars
  BY <1>9 DEF vars, accountVars, inviteVars, TypeOK, Idle, OnEmail, OnInvite, HasAccount
<1>. QED
  BY <1>1, <1>2, <1>3, <1>4, <1>5, <1>6, <1>7, <1>8, <1>9 DEF Next, Abort

\* Only accounts have passwords and origins, and requests act on rows that exist.
THEOREM TypeCorrect == Spec => []TypeOK
  BY InitTypeOK, NextTypeOK, PTL DEF Spec

-----------------------------------------------------------------------------
(***************************************************************************)
(* The inductive invariant adds to the three invariants what a request     *)
(* that is not overtaken knows: its invitation is still open.              *)
(***************************************************************************)
StillOpen ==
    \A r \in Requests \ overtaken :
        req[r].at \in {"revoke", "accept"} => req[r].invite \in Open

IInv ==
    /\ TypeOK
    /\ StillOpen
    /\ OpenInvitationHasItsAccount
    /\ UsedXorRevoked
    /\ PasswordComesWithAcceptance

LEMMA InitIInv == Init => IInv
  BY InitTypeOK
  DEF Init, IInv, StillOpen, OpenInvitationHasItsAccount, UsedXorRevoked,
      PasswordComesWithAcceptance, Open, Done

LEMMA ReadIInv ==
  ASSUME IInv, TypeOK', NEW r \in Requests,
         \/ \E e \in Emails : InviteRead(r, e)
         \/ \E i \in Invites : RevokeRead(r, i) \/ AcceptRead(r, i)
  PROVE  IInv'
<1> USE DEF InviteRead, RevokeRead, AcceptRead, Goto, accountVars, inviteVars, Open
<1>1. StillOpen'
  BY DEF IInv, TypeOK, StillOpen, Revocable, Acceptable
<1>. QED
  BY <1>1 DEF IInv, OpenInvitationHasItsAccount, UsedXorRevoked, PasswordComesWithAcceptance

LEMMA FailIInv ==
  ASSUME IInv, TypeOK', NEW r \in Requests, Fail(r)
  PROVE  IInv'
<1>1. StillOpen'
  BY FailFacts DEF IInv, StillOpen, Open, Done
<1>. QED
  BY <1>1, FailFacts DEF IInv, OpenInvitationHasItsAccount, UsedXorRevoked,
                         PasswordComesWithAcceptance, Open

\* What the transaction of invite adds.
LEMMA InviteIInv ==
  ASSUME IInv, TypeOK', NEW r \in Requests, Invite(r)
  PROVE  IInv'
<1> DEFINE e == req[r].email
<1> USE DEF IInv
<1>1. CASE HasAccount(e)
  BY <1>1, FailIInv DEF Invite, Taken
<1>2. CASE ~HasAccount(e)
  <2>0. e \in Emails
    BY DEF Invite, TypeOK, Idle, Done, OnEmail, OnInvite
  <2>1. PICK i \in Invites \ sent :
          /\ origin' = [origin EXCEPT ![e] = i]
          /\ sent' = sent \cup {i}
          /\ email' = [j \in sent' |-> IF j = i THEN e ELSE email[j]]
    BY <1>2 DEF Invite, Taken
  <2>2. /\ req'[r] = Done /\ \A q \in Requests \ {r} : req'[q] = req[q]
        /\ UNCHANGED <<hasPassword, accepted, revoked, expired, overtaken, raced>>
    BY <1>2 DEF Invite, Taken, Goto, TypeOK
  <2>3. /\ Open' = Open \cup {i}
        /\ email'[i] = e /\ \A j \in sent : email'[j] = email[j]
        /\ origin'[e] = i /\ \A x \in Emails \ {e} : origin'[x] = origin[x]
        /\ origin[e] = None /\ e \notin hasPassword /\ i \notin accepted
    BY <1>2, <2>0, <2>1, <2>2, NoneAssumption DEF Open, TypeOK, HasAccount
  <2>4. StillOpen'
    BY <2>2, <2>3 DEF StillOpen, Done
  <2>5. OpenInvitationHasItsAccount'
    <3> SUFFICES ASSUME NEW j \in Open, email[j] \notin raced PROVE origin'[email[j]] = j
      BY <2>2, <2>3 DEF OpenInvitationHasItsAccount, Open
    <3>1. origin[email[j]] = j /\ j # None /\ email[j] \in Emails
      BY NoneAssumption DEF OpenInvitationHasItsAccount, Open, TypeOK
    <3>. QED  BY <2>3, <3>1
  <2>6. UsedXorRevoked'
    BY <2>2, <2>3 DEF UsedXorRevoked, TypeOK
  <2>7. PasswordComesWithAcceptance'
    BY <2>2, <2>3 DEF PasswordComesWithAcceptance
  <2>. QED  BY <2>4, <2>5, <2>6, <2>7
<1>. QED  BY <1>1, <1>2

\* Using or revoking an invitation overtakes every other request on it.
LEMMA FinishKeepsStillOpen ==
  ASSUME IInv, NEW r \in Requests, req[r].at \in {"revoke", "accept"},
         Finish(r, req[r].invite), Open \ {req[r].invite} \subseteq Open'
  PROVE  StillOpen'
<1> SUFFICES ASSUME NEW q \in Requests \ overtaken', req'[q].at \in {"revoke", "accept"}
             PROVE  req'[q].invite \in Open'
  BY DEF StillOpen
<1>1. q # r /\ req'[q] = req[q] /\ q \notin overtaken \cup OnIt(req[r].invite)
  BY FinishFacts DEF IInv, Done
<1>. QED  BY <1>1 DEF IInv, StillOpen, OnIt

LEMMA RevokeIInv ==
  ASSUME IInv, TypeOK', NEW r \in Requests, Revoke(r)
  PROVE  IInv'
<1> DEFINE i == req[r].invite
           e == email[i]
<1> USE DEF IInv
<1>0. i \in sent /\ e \in Emails /\ req[r].at = "revoke" /\ Finish(r, i)
  BY InviteOnHand DEF Revoke
<1>1. /\ revoked' = revoked \cup {i} /\ Open' = Open \ {i}
      /\ UNCHANGED <<sent, email, accepted, expired>>
      /\ \A x \in Emails \ {e} : origin'[x] = origin[x] /\ (x \in hasPassword' <=> x \in hasPassword)
      /\ \/ origin'[e] = None
         \/ origin'[e] = origin[e] /\ hasPassword' = hasPassword
  BY <1>0 DEF Revoke, DeletePlaceholder, Open, TypeOK, inviteVars
<1>2. r \notin overtaken => i \in Open
  BY <1>0 DEF StillOpen
<1>3. raced \subseteq raced' /\ (r \in overtaken => e \in raced')
  BY <1>0, FinishFacts
<1>4. StillOpen'
  BY <1>0, <1>1, FinishKeepsStillOpen
<1>5. OpenInvitationHasItsAccount'
  <2> SUFFICES ASSUME NEW j \in Open, j # i, email[j] \notin raced' PROVE origin'[email[j]] = j
    BY <1>1 DEF OpenInvitationHasItsAccount
  <2>1. origin[email[j]] = j /\ email[j] \in Emails
    BY <1>3 DEF OpenInvitationHasItsAccount, Open, TypeOK
  <2>2. email[j] # e   \* else i, which r knows to be open, is e's one invitation
    BY <1>2, <1>3, <2>1 DEF OpenInvitationHasItsAccount
  <2>. QED  BY <1>1, <2>1, <2>2
<1>6. UsedXorRevoked'
  BY <1>1, <1>2, <1>3 DEF UsedXorRevoked, Open
<1>7. PasswordComesWithAcceptance'
  BY <1>0, <1>1, <1>3 DEF PasswordComesWithAcceptance
<1>. QED  BY <1>4, <1>5, <1>6, <1>7

LEMMA AcceptIInv ==
  ASSUME IInv, TypeOK', NEW r \in Requests, Accept(r)
  PROVE  IInv'
<1> DEFINE i == req[r].invite
           e == email[i]
<1> USE DEF IInv
<1>0. i \in sent /\ e \in Emails /\ req[r].at = "accept"
  BY InviteOnHand DEF Accept
<1>1. CASE ~HasAccount(e)
  BY <1>1, FailIInv DEF Accept
<1>2. CASE HasAccount(e)
  <2>1. /\ accepted' = accepted \cup {i} /\ hasPassword' = hasPassword \cup {e}
        /\ Open' = Open \ {i} /\ Finish(r, i)
        /\ UNCHANGED <<origin, sent, email, revoked, expired>>
    BY <1>0, <1>2 DEF Accept, Activate, Open, inviteVars
  <2>2. r \notin overtaken => i \in Open
    BY <1>0 DEF StillOpen
  <2>3. raced \subseteq raced' /\ (r \in overtaken => e \in raced')
    BY <2>1, FinishFacts
  <2>4. StillOpen'
    BY <1>0, <2>1, FinishKeepsStillOpen
  <2>5. OpenInvitationHasItsAccount'
    BY <2>1, <2>3 DEF OpenInvitationHasItsAccount
  <2>6. UsedXorRevoked'
    BY <2>1, <2>2, <2>3 DEF UsedXorRevoked, Open
  <2>7. PasswordComesWithAcceptance'
    <3> SUFFICES ASSUME NEW x \in Emails \ raced', origin[x] # None
                 PROVE  x \in hasPassword' <=> origin[x] \in accepted'
      BY <2>1 DEF PasswordComesWithAcceptance
    <3>1. CASE x = e
      BY <2>1, <2>2, <2>3, <3>1 DEF OpenInvitationHasItsAccount
    <3>2. CASE x # e
      <4>1. origin[x] # i
        BY <3>2 DEF TypeOK
      <4>. QED  BY <2>1, <2>3, <3>2, <4>1 DEF PasswordComesWithAcceptance
    <3>. QED  BY <3>1, <3>2
  <2>. QED  BY <2>4, <2>5, <2>6, <2>7
<1>. QED  BY <1>1, <1>2

LEMMA NextIInv == IInv /\ [Next]_vars => IInv'
<1> SUFFICES ASSUME IInv, [Next]_vars PROVE IInv'
  OBVIOUS
<1>1. TypeOK'
  BY NextTypeOK DEF IInv
<1>2. ASSUME \/ \E e \in Emails, s \in Status : SetStatus(e, s)
             \/ \E i \in Invites : Expire(i)
             \/ UNCHANGED vars
      PROVE  IInv'
  BY <1>1, <1>2 DEF SetStatus, Expire, vars, accountVars, inviteVars, IInv, StillOpen, Open,
                    OpenInvitationHasItsAccount, UsedXorRevoked, PasswordComesWithAcceptance
<1>. QED
  BY <1>1, <1>2, ReadIInv, FailIInv, InviteIInv, RevokeIInv, AcceptIInv DEF Next, Abort

THEOREM InvariantHolds == Spec => []IInv
  BY InitIInv, NextIInv, PTL DEF Spec

\* An open invitation keeps the account it was sent for, unless a request of the
\* address was overtaken.
THEOREM OpenInvitationsKeepTheirAccounts == Spec => []OpenInvitationHasItsAccount
<1>1. IInv => OpenInvitationHasItsAccount
  BY DEF IInv
<1>. QED  BY <1>1, InvariantHolds, PTL

\* No two requests make an invitation both used and revoked, unless one of them was
\* overtaken.
THEOREM InvitationsEndOnce == Spec => []UsedXorRevoked
<1>1. IInv => UsedXorRevoked
  BY DEF IInv
<1>. QED  BY <1>1, InvariantHolds, PTL

\* An account gets its password with the invitation it was created for, unless its
\* acceptance was overtaken.
THEOREM PasswordsComeWithAcceptance == Spec => []PasswordComesWithAcceptance
<1>1. IInv => PasswordComesWithAcceptance
  BY DEF IInv
<1>. QED  BY <1>1, InvariantHolds, PTL

\* Revoking an invitation never deletes the account of somebody who can sign in.
THEOREM MembersAreKept == Spec => AccountsWithPasswordAreKept
<1>1. ASSUME IInv, NEW r \in Requests, Revoke(r), NEW e \in hasPassword, status'[e] = "NO_ACCOUNT"
      PROVE  e \in raced'
  <2> DEFINE i == req[r].invite
  <2> USE DEF IInv
  <2>1. i \in sent /\ email[i] \in Emails /\ req[r].at = "revoke" /\ Finish(r, i)
    BY <1>1, InviteOnHand DEF Revoke
  <2>2. e = email[i]
    BY <1>1, <2>1 DEF Revoke, DeletePlaceholder, TypeOK, HasAccount
  <2>3. CASE r \in overtaken
    BY <1>1, <2>1, <2>2, <2>3, FinishFacts
  <2>4. CASE r \notin overtaken
    <3>1. i \in Open
      BY <1>1, <2>1, <2>4 DEF StillOpen
    <3>2. e \in raced
      BY <2>1, <2>2, <3>1, <1>1, NoneAssumption
      DEF OpenInvitationHasItsAccount, PasswordComesWithAcceptance, Open, TypeOK
    <3>. QED  BY <1>1, <2>1, <3>2, FinishFacts
  <2>. QED  BY <2>3, <2>4
<1>2. ASSUME IInv, [Next]_vars, NEW e \in hasPassword, status'[e] = "NO_ACCOUNT"
      PROVE  \E r \in Requests : Revoke(r)
  <2>1. status[e] \in Status /\ e \in Emails
    BY <1>2 DEF IInv, TypeOK, HasAccount
  <2>2. ASSUME NEW r \in Requests, Invite(r) \/ Accept(r) PROVE FALSE
    BY <1>2, <2>1, <2>2 DEF Invite, Taken, Accept, Activate, Fail, accountVars, Status, IInv, TypeOK
  <2>3. ASSUME \/ \E r \in Requests :
                     \/ \E x \in Emails : InviteRead(r, x)
                     \/ \E i \in Invites : RevokeRead(r, i) \/ AcceptRead(r, i)
                     \/ Abort(r)
               \/ \E i \in Invites : Expire(i)
        PROVE  FALSE
    BY <1>2, <2>1, <2>3 DEF InviteRead, RevokeRead, AcceptRead, Abort, Fail, Expire, accountVars, Status
  <2>4. ASSUME NEW x \in Emails, NEW s \in Status, SetStatus(x, s) PROVE FALSE
    BY <1>2, <2>1, <2>4 DEF SetStatus, Status, IInv, TypeOK
  <2>5. CASE UNCHANGED vars
    BY <1>2, <2>1, <2>5 DEF vars, accountVars, Status
  <2>. QED  BY <1>2, <2>2, <2>3, <2>4, <2>5 DEF Next
<1>3. IInv /\ [Next]_vars =>
        [\A e \in hasPassword : status'[e] = "NO_ACCOUNT" => e \in raced']_vars
  BY <1>1, <1>2
<1>. QED  BY <1>3, InvariantHolds, PTL DEF Spec, AccountsWithPasswordAreKept
=============================================================================
