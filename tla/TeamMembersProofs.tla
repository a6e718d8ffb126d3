------------------------- MODULE TeamMembersProofs -------------------------
(***************************************************************************)
(* Proofs about TeamMembers, for any finite set of members and any set of  *)
(* concurrent requests.                                                    *)
(***************************************************************************)
EXTENDS TeamMembers, FiniteSetTheorems, TLAPS

LEMMA DoneIsNotPending == \A q \in Pending : q # Done
  BY DEF Pending, Done

\* A request that is not idle carries a full record.
LEMMA RequestInFlight ==
  ASSUME TypeOK, NEW r \in Requests, req[r] # Done
  PROVE  /\ req[r] \in Pending /\ req[r].target \in Members /\ req[r].actor \in Members
         /\ req[r].patch.role \in Role \cup {Keep} /\ req[r].patch.status \in Status \cup {Keep}
  BY DEF TypeOK, Pending, Patch

(***************************************************************************)
(* Type correctness.                                                       *)
(***************************************************************************)
LEMMA InitTypeOK == Init => TypeOK
  BY DEF Init, TypeOK

LEMMA NextTypeOK == TypeOK /\ [Next]_vars => TypeOK'
<1> SUFFICES ASSUME TypeOK, [Next]_vars PROVE TypeOK'
  OBVIOUS
<1>1. ASSUME NEW r \in Requests, NEW a \in Members, NEW m \in Members, NEW patch \in Patch,
             Authorize(r, a, m, patch)
      PROVE  TypeOK'
  BY <1>1 DEF Authorize, Goto, TypeOK, Pending
<1>2. ASSUME NEW r \in Requests, ReadTarget(r) PROVE TypeOK'
  <2>1. req[r] \in Pending
    BY <1>2 DEF ReadTarget, TypeOK, Done
  <2>. QED  BY <1>2, <2>1 DEF ReadTarget, Goto, TypeOK, Pending
<1>3. ASSUME NEW r \in Requests, CountOwners(r) PROVE TypeOK'
  <2>1. req[r] \in Pending
    BY <1>3 DEF CountOwners, TypeOK, Done
  <2>. QED  BY <1>3, <2>1 DEF CountOwners, Goto, TypeOK, Pending
<1>4. ASSUME NEW r \in Requests, Write(r) PROVE TypeOK'
  <2>1. req[r] \in Pending
    BY <1>4 DEF Write, TypeOK, Done
  <2>. QED  BY <1>4, <2>1 DEF Write, Goto, Apply, Falsified, TypeOK, Pending, Patch
<1>5. ASSUME NEW r \in Requests, Abort(r) PROVE TypeOK'
  BY <1>5 DEF Abort, Goto, TypeOK
<1>6. CASE UNCHANGED vars
  BY <1>6 DEF vars, TypeOK
<1>. QED  BY <1>1, <1>2, <1>3, <1>4, <1>5, <1>6 DEF Next

\* Every request carries the snapshots its next statement needs.
THEOREM TypeCorrect == Spec => []TypeOK
  BY InitTypeOK, NextTypeOK, PTL DEF Spec

-----------------------------------------------------------------------------
(***************************************************************************)
(* The inductive invariant: what the checks of a request have established  *)
(* is still true when it writes, unless the request is overtaken.          *)
(***************************************************************************)

\* assertNotSelfDemotion has been passed by every request that got past it.
PassedSelfCheck ==
    \A r \in Requests : req[r].at \in {"count_owners", "write"} => ~SelfDemotion(req[r])

\* A request about its own caller still sees the caller as the guard did.
OwnStandingKnown ==
    \A r \in Requests \ overtaken :
        req[r] # Done /\ req[r].target = req[r].actor =>
            role[req[r].actor] = req[r].ctxRole /\ status[req[r].actor] = "ACTIVE"

\* A write that takes an owner away leaves another active owner behind.
AnotherOwner ==
    \A r \in Requests \ overtaken :
        req[r].at = "write" /\ LosesOwner(req[r].patch) /\ role[req[r].target] = "OWNER"
        => \E m \in ActiveOwners : m # req[r].target

IInv == TypeOK /\ PassedSelfCheck /\ OwnStandingKnown /\ AnotherOwner /\ OfficeKeepsAnOwner

LEMMA InitIInv == Init => IInv
  BY InitTypeOK
  DEF Init, IInv, PassedSelfCheck, OwnStandingKnown, AnotherOwner, OfficeKeepsAnOwner, Done

\* The count of assertNotLastOwner is of a finite set: more than one is another one.
LEMMA MoreThanOneOwner ==
  ASSUME Cardinality(ActiveOwners) > 1, NEW x
  PROVE  \E m \in ActiveOwners : m # x
<1>1. IsFiniteSet(ActiveOwners)
  BY MembersAssumption, FS_Subset DEF ActiveOwners
<1>2. SUFFICES ASSUME ActiveOwners \subseteq {x} PROVE FALSE
  OBVIOUS
<1>3. Cardinality({x}) = 1 /\ IsFiniteSet({x})
  BY FS_Singleton
<1>4. Cardinality(ActiveOwners) <= Cardinality({x})
  BY <1>2, <1>3, FS_Subset
<1>5. Cardinality(ActiveOwners) \in Nat
  BY <1>1, FS_CardinalityType
<1>. QED  BY <1>3, <1>4, <1>5

LEMMA AuthorizeIInv ==
  ASSUME IInv, TypeOK', NEW r \in Requests, NEW a \in Members, NEW m \in Members,
         NEW patch \in Patch, Authorize(r, a, m, patch)
  PROVE  IInv'
<1> USE DEF IInv, TypeOK, Authorize, Goto
<1>1. PassedSelfCheck'
  BY DEF PassedSelfCheck, SelfDemotion
<1>2. OwnStandingKnown'
  BY DEF OwnStandingKnown
<1>3. AnotherOwner'
  BY DEF AnotherOwner, ActiveOwners, LosesOwner
<1>. QED  BY <1>1, <1>2, <1>3 DEF OfficeKeepsAnOwner, ActiveOwners

LEMMA ReadTargetIInv ==
  ASSUME IInv, TypeOK', NEW r \in Requests, ReadTarget(r)
  PROVE  IInv'
<1> USE DEF IInv
<1>1. req[r] \in Pending /\ req[r] # Done
  BY DEF ReadTarget, TypeOK, Done
<1>2. /\ UNCHANGED <<role, status, raced>> /\ overtaken \subseteq overtaken' \cup {r}
      /\ \A p \in Requests \ {r} : req'[p] = req[p]
  BY DEF ReadTarget, Goto, TypeOK
<1>3. \/ req'[r] = Done
      \/ /\ ~SelfDemotion(req[r]) /\ overtaken' = overtaken
         /\ \/ req'[r] = [req[r] EXCEPT !.at = "count_owners"]
            \/ /\ req'[r] = [req[r] EXCEPT !.at = "write"]
               /\ ~(role[req[r].target] = "OWNER" /\ LosesOwner(req[r].patch))
  BY DEF ReadTarget, Goto, TypeOK
<1>4. PassedSelfCheck'
  BY <1>1, <1>2, <1>3 DEF PassedSelfCheck, SelfDemotion, Done, Pending
<1>5. OwnStandingKnown'
  BY <1>1, <1>2, <1>3 DEF OwnStandingKnown, Pending
<1>6. AnotherOwner'
  BY <1>1, <1>2, <1>3 DEF AnotherOwner, ActiveOwners, LosesOwner, Pending, Done
<1>. QED  BY <1>2, <1>4, <1>5, <1>6 DEF OfficeKeepsAnOwner, ActiveOwners

LEMMA CountOwnersIInv ==
  ASSUME IInv, TypeOK', NEW r \in Requests, CountOwners(r)
  PROVE  IInv'
<1> USE DEF IInv
<1>1. req[r] \in Pending /\ req[r] # Done /\ req[r].at = "count_owners"
  BY DEF CountOwners, TypeOK, Done
<1>2. /\ UNCHANGED <<role, status, raced>> /\ overtaken \subseteq overtaken' \cup {r}
      /\ \A p \in Requests \ {r} : req'[p] = req[p]
  BY DEF CountOwners, Goto, TypeOK
<1>3. \/ req'[r] = Done
      \/ /\ req'[r] = [req[r] EXCEPT !.at = "write"] /\ overtaken' = overtaken
         /\ \E m \in ActiveOwners : m # req[r].target
  BY MoreThanOneOwner DEF CountOwners, Goto, TypeOK
<1>4. PassedSelfCheck'
  BY <1>1, <1>2, <1>3 DEF PassedSelfCheck, SelfDemotion, Done, Pending
<1>5. OwnStandingKnown'
  BY <1>1, <1>2, <1>3 DEF OwnStandingKnown, Pending
<1>6. AnotherOwner'
  BY <1>1, <1>2, <1>3 DEF AnotherOwner, ActiveOwners, LosesOwner, Pending, Done
<1>. QED  BY <1>2, <1>4, <1>5, <1>6 DEF OfficeKeepsAnOwner, ActiveOwners

\* A write that is not overtaken leaves an active owner if there was one.
LEMMA WriteKeepsAnOwner ==
  ASSUME IInv, NEW r \in Requests, Write(r), r \notin overtaken, ActiveOwners # {}
  PROVE  ActiveOwners' # {}
<1> USE DEF IInv
<1>1. req[r].at = "write" /\ req[r] # Done
  BY DEF Write, Done
<1>2. \A m \in Members \ {req[r].target} : role'[m] = role[m] /\ status'[m] = status[m]
  BY DEF Write, TypeOK
<1>3. CASE LosesOwner(req[r].patch) /\ role[req[r].target] = "OWNER"
  BY <1>1, <1>2, <1>3 DEF AnotherOwner, ActiveOwners
<1>4. CASE ~LosesOwner(req[r].patch) \/ role[req[r].target] # "OWNER"
  <2>1. PICK m \in ActiveOwners : TRUE
    OBVIOUS
  <2>2. CASE m # req[r].target
    BY <1>2, <2>1, <2>2 DEF ActiveOwners
  <2>3. CASE m = req[r].target
    <3>1. /\ req[r].patch.role \in {Keep, "OWNER"} /\ req[r].patch.status \in {Keep, "ACTIVE"}
          /\ m \in Members /\ role[m] = "OWNER" /\ status[m] = "ACTIVE"
      BY <1>1, <1>4, <2>1, <2>3, RequestInFlight DEF LosesOwner, ActiveOwners, Role, Status
    <3>2. role'[m] = "OWNER" /\ status'[m] = "ACTIVE"
      BY <2>3, <3>1 DEF Write, Apply, TypeOK
    <3>. QED  BY <3>1, <3>2 DEF ActiveOwners
  <2>. QED  BY <2>2, <2>3
<1>. QED  BY <1>3, <1>4

LEMMA WriteIInv ==
  ASSUME IInv, TypeOK', NEW r \in Requests, Write(r)
  PROVE  IInv'
<1> USE DEF IInv
<1>1. req[r].at = "write" /\ req[r].target \in Members
  BY RequestInFlight DEF Write, Done
<1>2. /\ req'[r] = Done /\ \A p \in Requests \ {r} : req'[p] = req[p]
      /\ overtaken' = (overtaken \cup Falsified(r)) \ {r}
      /\ \A m \in Members \ {req[r].target} : role'[m] = role[m] /\ status'[m] = status[m]
  BY DEF Write, Goto, TypeOK
<1>3. PassedSelfCheck'
  BY <1>2 DEF PassedSelfCheck, SelfDemotion, Done
<1>4. OwnStandingKnown'
  <2> SUFFICES ASSUME NEW p \in Requests \ overtaken', req'[p] # Done,
                      req'[p].target = req'[p].actor
               PROVE  role'[req[p].actor] = req[p].ctxRole /\ status'[req[p].actor] = "ACTIVE"
    BY <1>2 DEF OwnStandingKnown
  <2>1. p # r /\ req'[p] = req[p] /\ p \notin overtaken /\ p \notin Falsified(r)
    BY <1>2
  <2>2. role[req[p].actor] = req[p].ctxRole /\ status[req[p].actor] = "ACTIVE"
    BY <2>1 DEF OwnStandingKnown
  <2>3. CASE req[p].target = req[r].target
    BY <2>1, <2>2, <2>3 DEF Falsified
  <2>4. CASE req[p].target # req[r].target
    BY <1>2, <2>1, <2>2, <2>4, RequestInFlight
  <2>. QED  BY <2>3, <2>4
<1>5. AnotherOwner'
  <2> SUFFICES ASSUME NEW p \in Requests \ overtaken', req'[p].at = "write",
                      LosesOwner(req'[p].patch), role'[req'[p].target] = "OWNER"
               PROVE  \E m \in ActiveOwners' : m # req'[p].target
    BY DEF AnotherOwner, LosesOwner
  <2>1. p # r /\ req'[p] = req[p] /\ p \notin overtaken /\ p \notin Falsified(r) /\ req[p] # Done
    BY <1>2 DEF Done
  <2>2. role'[req[p].target] = role[req[p].target]
    BY <1>2, <2>1, RequestInFlight DEF Falsified
  <2>3. ActiveOwners \subseteq ActiveOwners'
    BY <2>1 DEF Falsified
  <2>. QED  BY <2>1, <2>2, <2>3 DEF AnotherOwner
<1>6. OfficeKeepsAnOwner'
  BY WriteKeepsAnOwner DEF OfficeKeepsAnOwner, Write
<1>. QED  BY <1>3, <1>4, <1>5, <1>6

LEMMA AbortIInv ==
  ASSUME IInv, TypeOK', NEW r \in Requests, Abort(r)
  PROVE  IInv'
<1> USE DEF IInv
<1>1. /\ UNCHANGED <<role, status, raced>> /\ overtaken' = overtaken \ {r}
      /\ req'[r] = Done /\ \A p \in Requests \ {r} : req'[p] = req[p]
  BY DEF Abort, Goto, TypeOK
<1>2. PassedSelfCheck'
  BY <1>1 DEF PassedSelfCheck, SelfDemotion, Done
<1>3. OwnStandingKnown'
  BY <1>1 DEF OwnStandingKnown
<1>4. AnotherOwner'
  BY <1>1 DEF AnotherOwner, ActiveOwners, LosesOwner, Done
<1>. QED  BY <1>1, <1>2, <1>3, <1>4 DEF OfficeKeepsAnOwner, ActiveOwners

LEMMA NextIInv == IInv /\ [Next]_vars => IInv'
<1> SUFFICES ASSUME IInv, [Next]_vars PROVE IInv'
  OBVIOUS
<1>1. TypeOK'
  BY NextTypeOK DEF IInv
<1>2. CASE UNCHANGED vars
  BY <1>1, <1>2 DEF vars, IInv, PassedSelfCheck, SelfDemotion, OwnStandingKnown, AnotherOwner,
                    ActiveOwners, LosesOwner, OfficeKeepsAnOwner
<1>3. CASE Next
  BY <1>1, <1>3, AuthorizeIInv, ReadTargetIInv, CountOwnersIInv, WriteIInv, AbortIInv DEF Next
<1>. QED  BY <1>2, <1>3

THEOREM InvariantHolds == Spec => []IInv
  BY InitIInv, NextIInv, PTL DEF Spec

\* assertNotLastOwner works: an office can lose its last active owner only
\* through a write whose snapshot another write had falsified.
THEOREM OwnerRemains == Spec => []OfficeKeepsAnOwner
<1>1. IInv => OfficeKeepsAnOwner
  BY DEF IInv
<1>. QED  BY <1>1, InvariantHolds, PTL

\* assertNotSelfDemotion works: nobody's request changes their own standing,
\* unless that standing was changed while the request was being served.
THEOREM OwnStandingIsOutOfReach == Spec => NobodyChangesTheirOwnStanding
<1>1. ASSUME IInv, NEW r \in Requests \ overtaken, Write(r), req[r].target = req[r].actor
      PROVE  UNCHANGED <<role, status>>
  <2>1. req[r].at = "write" /\ req[r] # Done
    BY <1>1 DEF Write, Done
  <2>2. req[r].patch.role \in {Keep, req[r].ctxRole} /\ req[r].patch.status \in {Keep, "ACTIVE"}
    BY <1>1, <2>1 DEF IInv, PassedSelfCheck, SelfDemotion
  <2>3. role[req[r].target] = req[r].ctxRole /\ status[req[r].target] = "ACTIVE"
    BY <1>1, <2>1 DEF IInv, OwnStandingKnown
  <2>. QED  BY <1>1, <2>2, <2>3 DEF Write, Apply, IInv, TypeOK
<1>2. IInv /\ [Next]_vars =>
        [\A r \in Requests \ overtaken :
           Write(r) /\ req[r].target = req[r].actor => UNCHANGED <<role, status>>]_vars
  BY <1>1
<1>. QED  BY <1>2, InvariantHolds, PTL DEF Spec, NobodyChangesTheirOwnStanding
=============================================================================
