------------------------ MODULE RefreshTokensProofs ------------------------
(***************************************************************************)
(* Proofs about RefreshTokens, for any sets of users, tokens and requests. *)
(***************************************************************************)
EXTENDS RefreshTokens, TLAPS

(***************************************************************************)
(* Type correctness.                                                       *)
(***************************************************************************)
LEMMA InitTypeOK == Init => TypeOK
  BY DEF Init, TypeOK, Idle, Done

\* A row inserted by issue keeps every table well typed.
LEMMA IssueTypeOK ==
  ASSUME TypeOK, NEW r \in Requests, NEW n \in Tokens, NEW u \in Users,
         NEW f \in issued \cup {n}, Issue(r, n, u, f)
  PROVE  TypeOK'
<1>1. /\ issued' = issued \cup {n}
      /\ issued' \subseteq Tokens
      /\ owner' \in [issued' -> Users]
      /\ family' \in [issued' -> issued']
  BY DEF Issue, Create, TypeOK
<1>2. /\ req' \in [Requests -> Idle \cup OnUser \cup OnToken']
  <2>1. OnToken \subseteq OnToken'
    BY <1>1 DEF OnToken
  <2>2. Done \in Idle
    BY DEF Done, Idle
  <2>. QED  BY <2>1, <2>2 DEF Issue, Goto, TypeOK
<1>. QED  BY <1>1, <1>2 DEF Issue, TypeOK, OnUser, Idle

LEMMA NextTypeOK == TypeOK /\ [Next]_vars => TypeOK'
<1> SUFFICES ASSUME TypeOK, [Next]_vars PROVE TypeOK'
  OBVIOUS
<1>0. Done \in Idle
  BY DEF Done, Idle
<1>1. ASSUME NEW r \in Requests, NEW u \in Users, LoginRead(r, u) PROVE TypeOK'
  BY <1>1 DEF LoginRead, TypeOK, Goto, OnUser, OnToken, Idle, rowVars, ghosts
<1>2. ASSUME NEW r \in Requests, NEW u \in Users, DeactivateStatus(r, u) PROVE TypeOK'
  BY <1>2 DEF DeactivateStatus, TypeOK, Goto, OnUser, OnToken, Idle, rowVars, ghosts, Status
<1>3. ASSUME NEW r \in Requests, NEW n \in Tokens, LoginIssue(r, n) PROVE TypeOK'
  <2>1. req[r].user \in Users
    BY <1>3 DEF LoginIssue, TypeOK, OnUser, OnToken, Idle
  <2>. QED  BY <1>3, <2>1, IssueTypeOK DEF LoginIssue
<1>4. ASSUME NEW r \in Requests, NEW n \in Tokens, RotateIssue(r, n) PROVE TypeOK'
  <2>1. req[r].token \in issued
    BY <1>4 DEF RotateIssue, TypeOK, OnUser, OnToken, Idle
  <2>2. owner[req[r].token] \in Users /\ FamilyOf(r) \in issued
    BY <2>1 DEF TypeOK, FamilyOf
  <2>. QED  BY <1>4, <2>2, IssueTypeOK DEF RotateIssue
<1>5. ASSUME NEW r \in Requests, NEW t \in Tokens, RotateRead(r, t) PROVE TypeOK'
  BY <1>5 DEF RotateRead, Rotated, TypeOK, Goto, OnUser, OnToken, Idle, rowVars, ghosts
<1>6. ASSUME NEW r \in Requests, RotateRevoke(r) PROVE TypeOK'
  <2>1. req[r].token \in issued
    BY <1>6 DEF RotateRevoke, TypeOK, OnUser, OnToken, Idle
  <2>. QED  BY <1>6, <2>1 DEF RotateRevoke, TypeOK, Goto, Overtake, OnUser, OnToken, Idle, rowVars
<1>7. ASSUME NEW r \in Requests, BurnFamily(r) PROVE TypeOK'
  BY <1>0, <1>7 DEF BurnFamily, Members, TypeOK, Goto, Overtake, OnUser, OnToken, rowVars
<1>8. ASSUME NEW r \in Requests, DeactivateTokens(r) PROVE TypeOK'
  <2>1. req[r].user \in Users
    BY <1>8 DEF DeactivateTokens, TypeOK, OnUser, OnToken, Idle
  <2>. QED
    BY <1>0, <1>8, <2>1 DEF DeactivateTokens, TokensOf, TypeOK, Goto, Overtake, OnUser, OnToken, rowVars
<1>9. ASSUME NEW r \in Requests, Abort(r) PROVE TypeOK'
  BY <1>0, <1>9 DEF Abort, TypeOK, Goto, OnUser, OnToken, rowVars
<1>10. ASSUME NEW t \in Tokens, Logout(t) PROVE TypeOK'
  BY <1>10 DEF Logout, Live, TypeOK, Overtake, OnUser, OnToken, rowVars
<1>11. ASSUME NEW t \in Tokens, Expire(t) PROVE TypeOK'
  BY <1>11 DEF Expire, TypeOK, OnUser, OnToken, rowVars, ghosts
<1>12. ASSUME NEW u \in Users, NEW s \in Status, SetStatus(u, s) PROVE TypeOK'
  BY <1>12 DEF SetStatus, TypeOK, OnUser, OnToken, rowVars
<1>13. CASE UNCHANGED vars
  BY <1>13 DEF vars, rowVars, ghosts, TypeOK, OnUser, OnToken
<1>. QED
  BY <1>1, <1>2, <1>3, <1>4, <1>5, <1>6, <1>7, <1>8, <1>9, <1>10, <1>11, <1>12, <1>13 DEF Next

\* Every row has an owner and a family that was opened, and every request in
\* flight works on a token that has a row, whatever the interleaving.
THEOREM TypeCorrect == Spec => []TypeOK
  BY InitTypeOK, NextTypeOK, PTL DEF Spec

-----------------------------------------------------------------------------
(***************************************************************************)
(* The inductive invariant.  What a request read is still true while the   *)
(* request is not overtaken, and of the rotations of one session at most   *)
(* one has not been.                                                       *)
(***************************************************************************)
FamilyHasOneOwner == \A t \in issued : owner[t] = owner[family[t]]

\* Between the two writes of a rotation its token is revoked; before them it is
\* live unless the rotation was overtaken.
PresentedToken ==
    \A r \in Requests :
        /\ req[r].at = "rotate_issue" => req[r].token \in revoked
        /\ req[r].at = "rotate_revoke" /\ req[r].token \in revoked => r \in overtaken

\* Between its two writes a rotation is the session's only hold on life.
NoLiveTokenWhileRenewing ==
    \A r \in Requests \ overtaken, t \in Live :
        req[r].at = "rotate_issue" /\ family[t] = FamilyOf(r) => FamilyOf(r) \in stale

OneRenewal ==
    \A r, q \in Requests \ overtaken :
        /\ req[r].at = "rotate_issue" /\ req[q].at = "rotate_issue"
        /\ FamilyOf(r) = FamilyOf(q) /\ FamilyOf(r) \notin stale
        => r = q

\* A request in flight for a deactivated user read before the deactivation.
DeactivationOvertakes ==
    /\ \A u \in deactivated : status[u] # "ACTIVE"
    /\ \A r \in Requests : InFlight(r) /\ SubjectOf(r) \in deactivated => r \in overtaken

IInv ==
    /\ TypeOK
    /\ FamilyHasOneOwner
    /\ PresentedToken
    /\ NoLiveTokenWhileRenewing
    /\ OneRenewal
    /\ DeactivationOvertakes
    /\ OneLiveTokenPerSession
    /\ DeactivatedMembersAreOut

LEMMA InitIInv == Init => IInv
  BY InitTypeOK
  DEF Init, IInv, FamilyHasOneOwner, PresentedToken, NoLiveTokenWhileRenewing, OneRenewal,
      DeactivationOvertakes, OneLiveTokenPerSession, DeactivatedMembersAreOut, Live, Done,
      InFlight, Rotating

\* What issue changes: one live row, and the request that wrote it is over.
LEMMA IssueFacts ==
  ASSUME TypeOK, NEW r \in Requests, NEW n \in Tokens, NEW u, NEW f, Issue(r, n, u, f)
  PROVE  /\ n \notin issued
         /\ issued' = issued \cup {n} /\ Live' = Live \cup {n}
         /\ owner'[n] = u /\ family'[n] = f
         /\ \A t \in issued : owner'[t] = owner[t] /\ family'[t] = family[t]
         /\ req'[r] = Done /\ \A q \in Requests \ {r} : req'[q] = req[q]
         /\ stale \subseteq stale' /\ (r \in overtaken => f \in stale')
         /\ (r \notin overtaken => stale' = stale)
         /\ overtaken' = overtaken \ {r} /\ revoked' = revoked
         /\ status' = status /\ deactivated' = deactivated
  BY DEF Issue, Create, Goto, TypeOK, Live

\* The requests still in flight are about the rows they were about.
LEMMA IssueKeepsRequests ==
  ASSUME TypeOK, NEW r \in Requests, NEW n \in Tokens, NEW u, NEW f, Issue(r, n, u, f),
         NEW q \in Requests, InFlight(q)'
  PROVE  /\ q # r /\ InFlight(q) /\ req'[q] = req[q]
         /\ SubjectOf(q)' = SubjectOf(q)
         /\ Rotating(q) => /\ req[q].token \in issued
                           /\ FamilyOf(q)' = FamilyOf(q) /\ FamilyOf(q) \in issued
<1>1. q # r /\ req'[q] = req[q]
  BY IssueFacts DEF InFlight, Rotating, Done
<1>2. Rotating(q) => req[q].token \in issued
  BY DEF Rotating, TypeOK, Idle, OnUser, OnToken
<1>3. InFlight(q)
  BY <1>1 DEF InFlight, Rotating
<1>. QED
  BY <1>1, <1>2, <1>3, IssueFacts DEF SubjectOf, FamilyOf, InFlight, Rotating, TypeOK

LEMMA LoginReadIInv ==
  ASSUME IInv, TypeOK', NEW r \in Requests, NEW u \in Users, LoginRead(r, u)
  PROVE  IInv'
<1> USE DEF IInv, Goto, Live, rowVars, ghosts, FamilyOf, SubjectOf, InFlight, Rotating, LoginRead
<1>1. FamilyHasOneOwner'
  BY DEF FamilyHasOneOwner
<1>2. PresentedToken'
  BY DEF PresentedToken
<1>3. NoLiveTokenWhileRenewing'
  BY DEF NoLiveTokenWhileRenewing
<1>4. OneRenewal'
  BY DEF OneRenewal
<1>5. DeactivationOvertakes'
  BY DEF DeactivationOvertakes
<1>6. OneLiveTokenPerSession'
  BY DEF OneLiveTokenPerSession
<1>7. DeactivatedMembersAreOut'
  BY DEF DeactivatedMembersAreOut
<1>. QED  BY <1>1, <1>2, <1>3, <1>4, <1>5, <1>6, <1>7

LEMMA DeactivateStatusIInv ==
  ASSUME IInv, TypeOK', NEW r \in Requests, NEW u \in Users, DeactivateStatus(r, u)
  PROVE  IInv'
<1> USE DEF IInv, Goto, Live, rowVars, ghosts, FamilyOf, SubjectOf, InFlight, Rotating, DeactivateStatus
<1>1. FamilyHasOneOwner'
  BY DEF FamilyHasOneOwner
<1>2. PresentedToken'
  BY DEF PresentedToken
<1>3. NoLiveTokenWhileRenewing'
  BY DEF NoLiveTokenWhileRenewing
<1>4. OneRenewal'
  BY DEF OneRenewal
<1>5. DeactivationOvertakes'
  BY DEF DeactivationOvertakes
<1>6. OneLiveTokenPerSession'
  BY DEF OneLiveTokenPerSession
<1>7. DeactivatedMembersAreOut'
  BY DEF DeactivatedMembersAreOut
<1>. QED  BY <1>1, <1>2, <1>3, <1>4, <1>5, <1>6, <1>7

LEMMA LoginIssueIInv ==
  ASSUME IInv, TypeOK', NEW r \in Requests, NEW n \in Tokens, LoginIssue(r, n)
  PROVE  IInv'
<1> DEFINE u == req[r].user
<1> USE DEF IInv
<1>0. Issue(r, n, u, n) /\ u \in Users /\ InFlight(r) /\ SubjectOf(r) = u
  BY DEF LoginIssue, InFlight, SubjectOf, TypeOK, Idle, OnUser, OnToken
<1>1. FamilyHasOneOwner'
  BY <1>0, IssueFacts DEF FamilyHasOneOwner, TypeOK
<1>2. PresentedToken'
  BY <1>0, IssueFacts DEF PresentedToken, Done
<1>3. \A q \in Requests :
        Rotating(q)' => q # r /\ Rotating(q) /\ FamilyOf(q) = FamilyOf(q)' /\ FamilyOf(q)' # n
  BY <1>0, IssueFacts, IssueKeepsRequests DEF InFlight, Rotating
<1>4. NoLiveTokenWhileRenewing'
  BY <1>0, <1>3, IssueFacts DEF NoLiveTokenWhileRenewing, Rotating, Live
<1>5. OneRenewal'
  BY <1>0, <1>3, IssueFacts DEF OneRenewal, Rotating, Done
<1>6. DeactivationOvertakes'
  BY <1>0, IssueFacts, IssueKeepsRequests DEF DeactivationOvertakes
<1>7. OneLiveTokenPerSession'
  BY <1>0, IssueFacts DEF OneLiveTokenPerSession, TypeOK, Live
<1>8. DeactivatedMembersAreOut'
  BY <1>0, IssueFacts DEF DeactivatedMembersAreOut, DeactivationOvertakes, TypeOK, Live
<1>. QED  BY <1>1, <1>2, <1>4, <1>5, <1>6, <1>7, <1>8

LEMMA RotateIssueIInv ==
  ASSUME IInv, TypeOK', NEW r \in Requests, NEW n \in Tokens, RotateIssue(r, n)
  PROVE  IInv'
<1> DEFINE t == req[r].token
           f == FamilyOf(r)
<1> USE DEF IInv
<1>0. /\ Issue(r, n, owner[t], f) /\ t \in issued /\ f \in issued /\ owner[f] = owner[t]
      /\ InFlight(r) /\ SubjectOf(r) = owner[t] /\ req[r].at = "rotate_issue"
  BY DEF RotateIssue, InFlight, Rotating, SubjectOf, FamilyOf, FamilyHasOneOwner,
         TypeOK, Idle, OnUser, OnToken
<1>1. FamilyHasOneOwner'
  BY <1>0, IssueFacts DEF FamilyHasOneOwner, TypeOK
<1>2. PresentedToken'
  BY <1>0, IssueFacts DEF PresentedToken, Done
<1>3. \A q \in Requests : Rotating(q)' => q # r /\ Rotating(q) /\ FamilyOf(q) = FamilyOf(q)'
  BY <1>0, IssueFacts, IssueKeepsRequests DEF InFlight, Rotating
<1>4. NoLiveTokenWhileRenewing'
  <2> SUFFICES ASSUME NEW q \in Requests \ overtaken', NEW x \in Live',
                      req'[q].at = "rotate_issue", family'[x] = FamilyOf(q)',
                      FamilyOf(q)' \notin stale'
               PROVE  FALSE
    BY DEF NoLiveTokenWhileRenewing
  <2>1. q # r /\ q \notin overtaken /\ req[q].at = "rotate_issue" /\ FamilyOf(q) = FamilyOf(q)'
    BY <1>0, <1>3, IssueFacts DEF Rotating
  <2>2. CASE x = n
    BY <2>1, <2>2, <1>0, IssueFacts DEF OneRenewal
  <2>3. CASE x # n
    BY <2>1, <2>3, <1>0, IssueFacts DEF NoLiveTokenWhileRenewing, Live
  <2>. QED  BY <2>2, <2>3
<1>5. OneRenewal'
  BY <1>0, <1>3, IssueFacts DEF OneRenewal, Rotating, Done
<1>6. DeactivationOvertakes'
  BY <1>0, IssueFacts, IssueKeepsRequests DEF DeactivationOvertakes
<1>7. OneLiveTokenPerSession'
  <2> SUFFICES ASSUME NEW x \in Live', NEW y \in Live', family'[x] = family'[y],
                      family'[x] \notin stale', x # y
               PROVE  FALSE
    BY DEF OneLiveTokenPerSession
  <2>1. ASSUME NEW z \in Live, family[z] = f, f \notin stale' PROVE FALSE
    BY <2>1, <1>0, IssueFacts DEF NoLiveTokenWhileRenewing
  <2>2. CASE x # n /\ y # n
    BY <2>2, <1>0, IssueFacts DEF OneLiveTokenPerSession, Live
  <2>3. CASE x = n \/ y = n
    BY <2>1, <2>3, <1>0, IssueFacts DEF Live
  <2>. QED  BY <2>2, <2>3
<1>8. DeactivatedMembersAreOut'
  BY <1>0, IssueFacts DEF DeactivatedMembersAreOut, DeactivationOvertakes, TypeOK, Live
<1>. QED  BY <1>1, <1>2, <1>4, <1>5, <1>6, <1>7, <1>8

LEMMA RotateReadIInv ==
  ASSUME IInv, TypeOK', NEW r \in Requests, NEW t \in Tokens, RotateRead(r, t)
  PROVE  IInv'
<1> USE DEF IInv, TypeOK, Goto, Live, rowVars, ghosts, FamilyOf, SubjectOf, InFlight, Rotating, Rotated, RotateRead
<1>1. FamilyHasOneOwner'
  BY DEF FamilyHasOneOwner
<1>2. PresentedToken'
  BY DEF PresentedToken
<1>3. NoLiveTokenWhileRenewing'
  BY DEF NoLiveTokenWhileRenewing
<1>4. OneRenewal'
  BY DEF OneRenewal
<1>5. DeactivationOvertakes'
  BY DEF DeactivationOvertakes
<1>6. OneLiveTokenPerSession'
  BY DEF OneLiveTokenPerSession
<1>7. DeactivatedMembersAreOut'
  BY DEF DeactivatedMembersAreOut
<1>. QED  BY <1>1, <1>2, <1>3, <1>4, <1>5, <1>6, <1>7

LEMMA RotateRevokeIInv ==
  ASSUME IInv, TypeOK', NEW r \in Requests, RotateRevoke(r)
  PROVE  IInv'
<1> DEFINE t == req[r].token
           f == FamilyOf(r)
           victims == {q \in Requests \ {r} : t \notin revoked
                                              /\ req[q] = [at |-> "rotate_revoke", token |-> t]}
<1> USE DEF IInv
<1>0. /\ t \in issued /\ req[r].at = "rotate_revoke"
      /\ revoked' = revoked \cup {t} /\ Live' \subseteq Live
      /\ req'[r] = [at |-> "rotate_issue", token |-> t]
      /\ \A q \in Requests \ {r} : req'[q] = req[q]
      /\ overtaken' = overtaken \cup victims
      /\ UNCHANGED <<status, issued, owner, family, stale, deactivated>>
  BY DEF RotateRevoke, Goto, Overtake, TypeOK, Live, rowVars, Idle, OnUser, OnToken
<1>1. FamilyHasOneOwner'
  BY <1>0 DEF FamilyHasOneOwner
<1>2. PresentedToken'
  <2>1. ASSUME NEW q \in Requests \ {r}, req[q].at = "rotate_revoke", req[q].token = t
        PROVE  q \in overtaken'
    BY <1>0, <2>1 DEF PresentedToken, TypeOK, Idle, OnUser, OnToken
  <2>. QED  BY <1>0, <2>1 DEF PresentedToken
<1>3. /\ \A q \in Requests : FamilyOf(q)' = FamilyOf(q)
      /\ \A q \in Requests : SubjectOf(q)' = SubjectOf(q)
      /\ \A q \in Requests : InFlight(q)' => InFlight(q)
  BY <1>0 DEF FamilyOf, SubjectOf, InFlight, Rotating
<1>4. r \notin overtaken => t \in Live
  BY <1>0 DEF PresentedToken, Live
<1>5. NoLiveTokenWhileRenewing'
  <2> SUFFICES ASSUME NEW q \in Requests \ overtaken', NEW x \in Live', req'[q].at = "rotate_issue",
                      family[x] = FamilyOf(q)
               PROVE  FamilyOf(q) \in stale
    BY <1>0, <1>3 DEF NoLiveTokenWhileRenewing
  <2>1. CASE q = r
    BY <2>1, <1>0, <1>4 DEF OneLiveTokenPerSession, FamilyOf, Live
  <2>2. CASE q # r
    BY <2>2, <1>0 DEF NoLiveTokenWhileRenewing
  <2>. QED  BY <2>1, <2>2
<1>6. OneRenewal'
  <2>1. ASSUME NEW q \in Requests \ overtaken, q # r, req[q].at = "rotate_issue",
               FamilyOf(q) = f, r \notin overtaken
        PROVE  f \in stale
    BY <2>1, <1>4 DEF NoLiveTokenWhileRenewing, FamilyOf
  <2>. QED  BY <1>0, <1>3, <2>1 DEF OneRenewal
<1>7. DeactivationOvertakes'
  BY <1>0, <1>3 DEF DeactivationOvertakes
<1>8. OneLiveTokenPerSession' /\ DeactivatedMembersAreOut'
  BY <1>0 DEF OneLiveTokenPerSession, DeactivatedMembersAreOut
<1>. QED  BY <1>1, <1>2, <1>5, <1>6, <1>7, <1>8

LEMMA BurnFamilyIInv ==
  ASSUME IInv, TypeOK', NEW r \in Requests, BurnFamily(r)
  PROVE  IInv'
<1> USE DEF IInv, Done, Goto, Live, rowVars, FamilyOf, SubjectOf, InFlight, Rotating, Members, Overtake, BurnFamily
<1>1. FamilyHasOneOwner'
  BY DEF FamilyHasOneOwner
<1>2. PresentedToken'
  BY DEF PresentedToken
<1>3. NoLiveTokenWhileRenewing'
  BY DEF NoLiveTokenWhileRenewing
<1>4. OneRenewal'
  BY DEF OneRenewal
<1>5. DeactivationOvertakes'
  BY DEF DeactivationOvertakes
<1>6. OneLiveTokenPerSession'
  BY DEF OneLiveTokenPerSession
<1>7. DeactivatedMembersAreOut'
  BY DEF DeactivatedMembersAreOut
<1>. QED  BY <1>1, <1>2, <1>3, <1>4, <1>5, <1>6, <1>7

LEMMA DeactivateTokensIInv ==
  ASSUME IInv, TypeOK', NEW r \in Requests, DeactivateTokens(r)
  PROVE  IInv'
<1> USE DEF IInv, Done, Goto, Live, rowVars, FamilyOf, SubjectOf, InFlight, Rotating, TokensOf, Overtake, DeactivateTokens
<1>1. FamilyHasOneOwner'
  BY DEF FamilyHasOneOwner
<1>2. PresentedToken'
  BY DEF PresentedToken
<1>3. NoLiveTokenWhileRenewing'
  BY DEF NoLiveTokenWhileRenewing
<1>4. OneRenewal'
  BY DEF OneRenewal
<1>5. DeactivationOvertakes'
  BY DEF DeactivationOvertakes
<1>6. OneLiveTokenPerSession'
  BY DEF OneLiveTokenPerSession
<1>7. DeactivatedMembersAreOut'
  BY DEF DeactivatedMembersAreOut
<1>. QED  BY <1>1, <1>2, <1>3, <1>4, <1>5, <1>6, <1>7

LEMMA AbortIInv ==
  ASSUME IInv, TypeOK', NEW r \in Requests, Abort(r)
  PROVE  IInv'
<1> USE DEF IInv, TypeOK, Done, Goto, Live, rowVars, FamilyOf, SubjectOf, InFlight, Rotating, Abort
<1>1. FamilyHasOneOwner'
  BY DEF FamilyHasOneOwner
<1>2. PresentedToken'
  BY DEF PresentedToken
<1>3. NoLiveTokenWhileRenewing'
  BY DEF NoLiveTokenWhileRenewing
<1>4. OneRenewal'
  BY DEF OneRenewal
<1>5. DeactivationOvertakes'
  BY DEF DeactivationOvertakes
<1>6. OneLiveTokenPerSession'
  BY DEF OneLiveTokenPerSession
<1>7. DeactivatedMembersAreOut'
  BY DEF DeactivatedMembersAreOut
<1>. QED  BY <1>1, <1>2, <1>3, <1>4, <1>5, <1>6, <1>7

LEMMA LogoutIInv ==
  ASSUME IInv, TypeOK', NEW t \in Tokens, Logout(t)
  PROVE  IInv'
<1> USE DEF IInv, TypeOK, Idle, OnUser, OnToken, Live, rowVars, FamilyOf, SubjectOf, InFlight, Rotating, Overtake, Logout
<1>1. FamilyHasOneOwner'
  BY DEF FamilyHasOneOwner
<1>2. PresentedToken'
  BY DEF PresentedToken
<1>3. NoLiveTokenWhileRenewing'
  BY DEF NoLiveTokenWhileRenewing
<1>4. OneRenewal'
  BY DEF OneRenewal
<1>5. DeactivationOvertakes'
  BY DEF DeactivationOvertakes
<1>6. OneLiveTokenPerSession'
  BY DEF OneLiveTokenPerSession
<1>7. DeactivatedMembersAreOut'
  BY DEF DeactivatedMembersAreOut
<1>. QED  BY <1>1, <1>2, <1>3, <1>4, <1>5, <1>6, <1>7

LEMMA ExpireIInv ==
  ASSUME IInv, TypeOK', NEW t \in Tokens, Expire(t)
  PROVE  IInv'
<1> USE DEF IInv, Live, rowVars, ghosts, FamilyOf, SubjectOf, InFlight, Rotating, Expire
<1>1. FamilyHasOneOwner'
  BY DEF FamilyHasOneOwner
<1>2. PresentedToken'
  BY DEF PresentedToken
<1>3. NoLiveTokenWhileRenewing'
  BY DEF NoLiveTokenWhileRenewing
<1>4. OneRenewal'
  BY DEF OneRenewal
<1>5. DeactivationOvertakes'
  BY DEF DeactivationOvertakes
<1>6. OneLiveTokenPerSession'
  BY DEF OneLiveTokenPerSession
<1>7. DeactivatedMembersAreOut'
  BY DEF DeactivatedMembersAreOut
<1>. QED  BY <1>1, <1>2, <1>3, <1>4, <1>5, <1>6, <1>7

LEMMA SetStatusIInv ==
  ASSUME IInv, TypeOK', NEW u \in Users, NEW s \in Status, SetStatus(u, s)
  PROVE  IInv'
<1> USE DEF IInv, Live, rowVars, FamilyOf, SubjectOf, InFlight, Rotating, SetStatus
<1>1. FamilyHasOneOwner'
  BY DEF FamilyHasOneOwner
<1>2. PresentedToken'
  BY DEF PresentedToken
<1>3. NoLiveTokenWhileRenewing'
  BY DEF NoLiveTokenWhileRenewing
<1>4. OneRenewal'
  BY DEF OneRenewal
<1>5. DeactivationOvertakes'
  BY DEF DeactivationOvertakes
<1>6. OneLiveTokenPerSession'
  BY DEF OneLiveTokenPerSession
<1>7. DeactivatedMembersAreOut'
  BY DEF DeactivatedMembersAreOut
<1>. QED  BY <1>1, <1>2, <1>3, <1>4, <1>5, <1>6, <1>7

LEMMA NextIInv == IInv /\ [Next]_vars => IInv'
<1> SUFFICES ASSUME IInv, [Next]_vars PROVE IInv'
  OBVIOUS
<1>1. TypeOK'
  BY NextTypeOK DEF IInv
<1>2. CASE UNCHANGED vars
  BY <1>1, <1>2
  DEF vars, rowVars, ghosts, IInv, FamilyHasOneOwner, PresentedToken, NoLiveTokenWhileRenewing,
      OneRenewal, DeactivationOvertakes, OneLiveTokenPerSession, DeactivatedMembersAreOut,
      Live, FamilyOf, SubjectOf, InFlight, Rotating
<1>3. CASE Next
  BY <1>1, <1>3, LoginReadIInv, DeactivateStatusIInv, LoginIssueIInv, RotateIssueIInv,
     RotateReadIInv, RotateRevokeIInv, BurnFamilyIInv, DeactivateTokensIInv, AbortIInv,
     LogoutIInv, ExpireIInv, SetStatusIInv DEF Next
<1>. QED  BY <1>2, <1>3

THEOREM InvariantHolds == Spec => []IInv
  BY InitIInv, NextIInv, PTL DEF Spec

\* A session has at most one live token unless one of its rotations wrote after
\* another request had revoked the token it was rotating.
THEOREM OneLiveToken == Spec => []OneLiveTokenPerSession
<1>1. IInv => OneLiveTokenPerSession
  BY DEF IInv
<1>. QED  BY <1>1, InvariantHolds, PTL

\* After deactivateMember has finished, the member has no live token other than
\* those issued by requests it overtook.
THEOREM DeactivationEndsSessions == Spec => []DeactivatedMembersAreOut
<1>1. IInv => DeactivatedMembersAreOut
  BY DEF IInv
<1>. QED  BY <1>1, InvariantHolds, PTL

-----------------------------------------------------------------------------
(***************************************************************************)
(* The tokens implement SessionLifecycle.                                  *)
(***************************************************************************)
Alive(f) == LiveIn(f) # {} \/ Renewing(f)

\* Steps that issue nothing leave the rows' families and the stale set alone.
IssuesNothing == Live' \subseteq Live /\ UNCHANGED <<issued, family, stale>>

LEMMA InitLifecycle == Init => Lifecycle!Init
  BY DEF Init, Lifecycle!Init, SessionPhase, PhaseOf, Members

\* Only issue can bring a session to life: a rotation about to create a
\* successor got there from a token that was live.
LEMMA NothingRevives ==
  ASSUME IInv, IssuesNothing, NEW f, Alive(f)',
         \A q \in Requests \ overtaken' :
             req'[q].at = "rotate_issue" =>
               \/ req'[q] = req[q] /\ q \notin overtaken
               \/ RotateRevoke(q)
  PROVE  Alive(f)
<1>1. CASE LiveIn(f)' # {}
  BY <1>1 DEF IssuesNothing, Alive, LiveIn, Members
<1>2. CASE Renewing(f)'
  <2>1. PICK q \in Requests \ overtaken' : req'[q].at = "rotate_issue" /\ FamilyOf(q)' = f
    BY <1>2 DEF Renewing
  <2>2. CASE req'[q] = req[q] /\ q \notin overtaken
    BY <2>1, <2>2 DEF Alive, Renewing, FamilyOf, IssuesNothing
  <2>3. CASE RotateRevoke(q)
    <3>1. req[q].token \in issued /\ req'[q].token = req[q].token /\ q \notin overtaken
      BY <2>3 DEF RotateRevoke, Goto, Overtake, IInv, TypeOK, Idle, OnUser, OnToken
    <3>2. req[q].token \in Live
      BY <2>3, <3>1 DEF RotateRevoke, IInv, PresentedToken, Live
    <3>. QED  BY <2>1, <3>1, <3>2 DEF Alive, LiveIn, Members, FamilyOf, IssuesNothing
  <2>. QED  BY <2>1, <2>2, <2>3
<1>. QED  BY <1>1, <1>2 DEF Alive

\* A step that issues nothing can only close sessions.
LEMMA ClosesOrStutters ==
  ASSUME IInv, IssuesNothing,
         \A q \in Requests \ overtaken' :
             req'[q].at = "rotate_issue" =>
               \/ req'[q] = req[q] /\ q \notin overtaken
               \/ RotateRevoke(q)
  PROVE  Lifecycle!Next
<1> DEFINE S == {f \in Tokens : PhaseOf(f)' # PhaseOf(f)}
<1>1. ASSUME NEW f \in S PROVE PhaseOf(f) = "open" /\ PhaseOf(f)' = "closed"
  <2>1. Members(f)' = Members(f)
    BY DEF IssuesNothing, Members
  <2>2. Alive(f)' => Alive(f)
    BY NothingRevives
  <2>. QED  BY <2>1, <2>2 DEF PhaseOf, Alive, IssuesNothing
<1>2. Lifecycle!Close(S)
  BY <1>1 DEF Lifecycle!Close, SessionPhase
<1>. QED  BY <1>2 DEF Lifecycle!Next

\* Creating a token of family f changes no session but f.
LEMMA IssueKeepsOtherSessions ==
  ASSUME TypeOK, NEW r \in Requests, NEW n \in Tokens, NEW u, NEW f \in issued \cup {n},
         Issue(r, n, u, f), InFlight(r), req[r].at = "rotate_issue" => FamilyOf(r) = f,
         NEW g \in Tokens, g # f
  PROVE  PhaseOf(g)' = PhaseOf(g)
<1>1. Members(g)' = Members(g) /\ LiveIn(g)' = LiveIn(g)
  BY IssueFacts DEF Members, LiveIn, TypeOK, Live
<1>2. Renewing(g)' => Renewing(g)
  BY IssueFacts, IssueKeepsRequests DEF Renewing, InFlight, Rotating
<1>3. Renewing(g) => Renewing(g)'
  <2> SUFFICES ASSUME NEW q \in Requests \ overtaken, req[q].at = "rotate_issue", FamilyOf(q) = g
               PROVE  Renewing(g)'
    BY DEF Renewing
  <2>1. q # r /\ req[q].token \in issued
    BY DEF TypeOK, Idle, OnUser, OnToken
  <2>. QED  BY <2>1, IssueFacts DEF Renewing, FamilyOf
<1>4. g \in stale' <=> g \in stale
  BY DEF Issue
<1>. QED  BY <1>1, <1>2, <1>3, <1>4 DEF PhaseOf

LEMMA LoginIssueLifecycle ==
  ASSUME IInv, NEW r \in Requests, NEW n \in Tokens, LoginIssue(r, n)
  PROVE  Lifecycle!Next
<1>1. Issue(r, n, req[r].user, n) /\ InFlight(r) /\ req[r].at # "rotate_issue" /\ TypeOK
  BY DEF LoginIssue, InFlight, IInv
<1>2. \A g \in Tokens \ {n} : PhaseOf(g)' = PhaseOf(g)
  BY <1>1, IssueKeepsOtherSessions
<1>3. PhaseOf(n) = "none" /\ PhaseOf(n)' \in {"open", "overrun"}
  BY <1>1, IssueFacts DEF PhaseOf, Members, LiveIn, TypeOK, Live
<1>4. Lifecycle!Open(n) \/ Lifecycle!Overrun(n)
  BY <1>2, <1>3 DEF Lifecycle!Open, Lifecycle!Overrun, SessionPhase
<1>. QED  BY <1>4 DEF Lifecycle!Next

LEMMA RotateIssueLifecycle ==
  ASSUME IInv, NEW r \in Requests, NEW n \in Tokens, RotateIssue(r, n)
  PROVE  [Lifecycle!Next]_SessionPhase
<1>0. PICK f : f = FamilyOf(r)   \* the value, before the step
  OBVIOUS
<1>1. /\ Issue(r, n, owner[req[r].token], f) /\ InFlight(r) /\ TypeOK
      /\ req[r].at = "rotate_issue" /\ req[r].token \in issued
      /\ f \in issued /\ f \in Tokens /\ req[r].token \in Members(f)
  BY <1>0 DEF RotateIssue, InFlight, Rotating, IInv, TypeOK, FamilyOf, Members, Idle, OnUser, OnToken
<1>2. \A g \in Tokens \ {f} : PhaseOf(g)' = PhaseOf(g)
  BY <1>0, <1>1, IssueKeepsOtherSessions
<1>3. CASE r \in overtaken
  <2>1. PhaseOf(f)' = "overrun"
    BY <1>1, <1>3, IssueFacts DEF PhaseOf
  <2>2. Lifecycle!Overrun(f)
    BY <1>1, <1>2, <2>1 DEF Lifecycle!Overrun, SessionPhase
  <2>. QED  BY <1>1, <2>2 DEF Lifecycle!Next
<1>4. CASE r \notin overtaken
  <2>1. n \in LiveIn(f)' /\ n \in Members(f)'
    BY <1>1, IssueFacts DEF LiveIn, Members
  <2>2. Renewing(f)
    BY <1>0, <1>1, <1>4 DEF Renewing
  <2>3. f \in stale' <=> f \in stale
    BY <1>1, <1>4, IssueFacts
  <2>4. PhaseOf(f)' = PhaseOf(f)
    BY <1>1, <2>1, <2>2, <2>3 DEF PhaseOf
  <2>. QED  BY <1>2, <2>4 DEF SessionPhase
<1>. QED  BY <1>3, <1>4

LEMMA NextLifecycle == IInv /\ [Next]_vars => [Lifecycle!Next]_SessionPhase
<1> SUFFICES ASSUME IInv, [Next]_vars PROVE [Lifecycle!Next]_SessionPhase
  OBVIOUS
<1>1. ASSUME NEW r \in Requests, NEW n \in Tokens, LoginIssue(r, n) \/ RotateIssue(r, n)
      PROVE  [Lifecycle!Next]_SessionPhase
  BY <1>1, LoginIssueLifecycle, RotateIssueLifecycle
<1>2. CASE UNCHANGED vars
  BY <1>2 DEF vars, rowVars, ghosts, SessionPhase, PhaseOf, Members, LiveIn, Live, Renewing, FamilyOf
<1> DEFINE Harmless ==
      /\ IssuesNothing
      /\ \A q \in Requests \ overtaken' :
           req'[q].at = "rotate_issue" =>
             \/ req'[q] = req[q] /\ q \notin overtaken
             \/ RotateRevoke(q)
<1>3. ASSUME NEW r \in Requests,
             \/ \E u \in Users : LoginRead(r, u) \/ DeactivateStatus(r, u)
             \/ \E t \in Tokens : RotateRead(r, t)
             \/ RotateRevoke(r) \/ BurnFamily(r) \/ DeactivateTokens(r) \/ Abort(r)
      PROVE  Harmless
  BY <1>3 DEF LoginRead, DeactivateStatus, RotateRead, RotateRevoke, BurnFamily, DeactivateTokens,
              Abort, Goto, Overtake, Done, IssuesNothing, Live, IInv, TypeOK, rowVars, ghosts
<1>4. ASSUME \/ \E t \in Tokens : Logout(t) \/ Expire(t)
             \/ \E u \in Users, s \in Status : SetStatus(u, s)
      PROVE  Harmless
  BY <1>4 DEF Logout, Expire, SetStatus, Overtake, IssuesNothing, Live, rowVars, ghosts
<1>. QED
  BY <1>1, <1>2, <1>3, <1>4, ClosesOrStutters DEF Next

\* The token table implements the life of a session.
THEOREM Implementation == Spec => ImplementsLifecycle
  BY InitLifecycle, NextLifecycle, InvariantHolds, PTL DEF Spec, ImplementsLifecycle, Lifecycle!Spec
=============================================================================
