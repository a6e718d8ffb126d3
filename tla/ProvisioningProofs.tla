------------------------- MODULE ProvisioningProofs -------------------------
(***************************************************************************)
(* Proofs about Provisioning, for any containers, scripts and versions of  *)
(* the catalogue, and any offices, addresses and registrations.            *)
(***************************************************************************)
EXTENDS Provisioning, TLAPS

LEMMA SeedClientsFit == SeedClients \in 1 .. MaxNumber /\ NoRow \in Nat
  BY ConfigAssumption DEF SeedClients, NoRow

(***************************************************************************)
(* Operators.                                                              *)
(***************************************************************************)

\* Joined adds at most one account, and changes none that is there.
LEMMA JoinedAdds ==
  ASSUME NEW users \in [Emails -> {"none", "OWNER", "STAFF"}], NEW e \in Emails,
         NEW role \in {"OWNER", "STAFF"}
  PROVE  /\ Joined(users, e, role) \in [Emails -> {"none", "OWNER", "STAFF"}]
         /\ \A x \in Emails : users[x] \in {"none", Joined(users, e, role)[x]}
         /\ users[e] = "none" => Joined(users, e, role)[e] = role
  BY DEF Joined

LEMMA CascadeOffice ==
  ASSUME office \in [Slugs -> {NoOffice} \cup Office], NEW codes
  PROVE  /\ Cascade(codes) \in [Slugs -> {NoOffice} \cup Office]
         /\ \A s \in Slugs : ~Exists(s) => Cascade(codes)[s] = NoOffice
         /\ \A s \in Slugs : Exists(s) =>
               /\ Cascade(codes)[s] \in Office
               /\ Cascade(codes)[s].users = office[s].users
               /\ Cascade(codes)[s].current = office[s].current
               /\ Cascade(codes)[s].numbers = office[s].numbers
               /\ Cascade(codes)[s].grants = office[s].grants \cap codes
  BY DEF Cascade, Office, Exists

\* What Draw makes of an office.
LEMMA DrawnOffice ==
  ASSUME NEW x \in Office, NEW n \in 0 .. NoRow, NEW used \in SUBSET (1 .. MaxNumber)
  PROVE  [x EXCEPT !.current = n, !.numbers = @ \cup used] \in Office
<1>. DEFINE y == [x EXCEPT !.current = n]
<1>1. x = [users |-> x.users, grants |-> x.grants, current |-> x.current, numbers |-> x.numbers]
  BY DEF Office
<1>2. y \in Office /\ y.numbers = x.numbers
  BY DEF Office
<1>3. [y EXCEPT !.numbers = x.numbers \cup used] \in Office
  BY <1>2 DEF Office
<1>. QED  BY <1>2, <1>3

\* What a registration founds is a whole office.
LEMMA FoundedOffice ==
  ASSUME TypeOK, NEW p \in Processes, NEW e \in Emails
  PROVE  /\ Founded(p, e) \in Office
         /\ Founded(p, e).users[e] = "OWNER"
         /\ Founded(p, e).current = 0
         /\ Founded(p, e).numbers = {}
         /\ Founded(p, e).grants = Catalogue[p]
<1>1. NoUsers \in [Emails -> {"none", "OWNER", "STAFF"}] /\ NoUsers[e] = "none"
  BY DEF NoUsers
<1>2. /\ Joined(NoUsers, e, "OWNER") \in [Emails -> {"none", "OWNER", "STAFF"}]
      /\ Joined(NoUsers, e, "OWNER")[e] = "OWNER"
  BY <1>1, JoinedAdds
<1>3. Catalogue[p] \subseteq Codes /\ 0 \in 0 .. NoRow
  BY ConfigAssumption, SeedClientsFit
<1>. QED  BY <1>2, <1>3 DEF Founded, Office, Matrix

-----------------------------------------------------------------------------
(***************************************************************************)
(* The inductive invariant.  What the seed script has written so far is    *)
(* still there when it goes on, and the office that it works on counts as  *)
(* unfinished; a counter is past every number that is in use, unless it    *)
(* has no row yet, and then no number is.                                  *)
(***************************************************************************)
SeedUnderWay == seed \in {"founded", "granted", "numbered", "staffed"}

SeedsOffice == SeedUnderWay => office[Seeded] \in Office /\ Seeded \in unfinished

SeedHasGranted ==
    seed \in {"granted", "numbered", "staffed"} => Common \subseteq office[Seeded].grants

SeedHasNumbered ==
    seed \in {"numbered", "staffed"} =>
        office[Seeded].current # NoRow /\ office[Seeded].current >= SeedClients

SeedHasStaffed ==
    seed = "staffed" => \E e \in Emails : office[Seeded].users[e] = "OWNER"

CountersAreAhead ==
    \A s \in Slugs : Exists(s) =>
        IF office[s].current = NoRow THEN office[s].numbers = {}
        ELSE office[s].numbers \subseteq 1 .. office[s].current

\* The foreign key of role_permissions.
GrantsAreListed == \A s \in Slugs : Exists(s) => office[s].grants \subseteq permissions

IInv ==
    /\ TypeOK
    /\ SeedsOffice
    /\ SeedHasGranted
    /\ SeedHasNumbered
    /\ SeedHasStaffed
    /\ CountersAreAhead
    /\ GrantsAreListed
    /\ OfficesAreWhole
    /\ CatalogueIsServed

LEMMA InitIInv == Init => IInv
  BY DEF Init, IInv, TypeOK, SeedsOffice, SeedUnderWay, SeedHasGranted, SeedHasNumbered,
         SeedHasStaffed, CountersAreAhead, GrantsAreListed, OfficesAreWhole, CatalogueIsServed,
         Exists

-----------------------------------------------------------------------------
(***************************************************************************)
(* What most steps do to the offices that exist: nothing is taken from     *)
(* them but grants of codes that some version retires.                     *)
(***************************************************************************)
Preserved(s) ==
    /\ office'[s] \in Office
    /\ \A e \in Emails : office[s].users[e] \in {"none", office'[s].users[e]}
    /\ office[s].numbers \subseteq office'[s].numbers
    /\ office[s].current # NoRow =>
          office'[s].current # NoRow /\ office'[s].current >= office[s].current
    /\ Common \subseteq office[s].grants => Common \subseteq office'[s].grants

\* An office that nothing touches is preserved.
LEMMA SameOffice ==
  ASSUME TypeOK, NEW s \in Slugs, Exists(s), office'[s] = office[s]
  PROVE  Preserved(s)
<1>1. office[s] \in Office
  BY DEF TypeOK, Exists
<1>2. office[s].current \in Nat
  BY <1>1, SeedClientsFit DEF Office
<1>. QED  BY <1>1, <1>2 DEF Preserved

\* A step that preserves every office preserves what the seed script relies on.
LEMMA SeedKept ==
  ASSUME IInv, seed' = seed, unfinished' = unfinished,
         \A s \in Slugs : Exists(s) => Preserved(s)
  PROVE  SeedsOffice' /\ SeedHasGranted' /\ SeedHasNumbered' /\ SeedHasStaffed'
<1>1. CASE SeedUnderWay
  <2>1. office[Seeded] \in Office /\ Seeded \in unfinished /\ Seeded \in Slugs
    BY <1>1, ConfigAssumption DEF IInv, SeedsOffice
  <2>2. Exists(Seeded)
    BY <2>1 DEF Exists, NoOffice, Office
  <2>3. Preserved(Seeded)
    BY <2>1, <2>2
  <2>4. office[Seeded].current \in Nat /\ office'[Seeded].current \in Nat
    BY <2>1, <2>3, SeedClientsFit DEF Preserved, Office
  <2>5. SeedsOffice'
    BY <2>1, <2>3 DEF SeedsOffice, Preserved
  <2>6. SeedHasGranted'
    BY <2>3 DEF SeedHasGranted, Preserved, IInv, Common
  <2>7. SeedHasNumbered'
    BY <2>3, <2>4 DEF SeedHasNumbered, Preserved, IInv, SeedClients
  <2>8. SeedHasStaffed'
    <3>. SUFFICES ASSUME seed = "staffed" PROVE \E e \in Emails : office'[Seeded].users[e] = "OWNER"
      BY DEF SeedHasStaffed
    <3>1. PICK e \in Emails : office[Seeded].users[e] = "OWNER"
      BY DEF IInv, SeedHasStaffed
    <3>. QED  BY <2>3, <3>1 DEF Preserved
  <2>. QED  BY <2>5, <2>6, <2>7, <2>8
<1>2. CASE ~SeedUnderWay
  BY <1>2 DEF SeedUnderWay, SeedsOffice, SeedHasGranted, SeedHasNumbered, SeedHasStaffed
<1>. QED  BY <1>1, <1>2

\* An office that was whole is whole after a step that preserves it.
LEMMA WholeKept ==
  ASSUME IInv, NEW s \in Slugs, s \notin unfinished, Exists(s), Preserved(s),
         office'[s].current # NoRow => office'[s].numbers \subseteq 1 .. office'[s].current
  PROVE  /\ \E e \in Emails : office'[s].users[e] = "OWNER"
         /\ office'[s].current # NoRow /\ office'[s].numbers \subseteq 1 .. office'[s].current
         /\ Common \subseteq office'[s].grants
<1>1. /\ \E e \in Emails : office[s].users[e] = "OWNER"
      /\ office[s].current # NoRow
      /\ Common \subseteq office[s].grants
  BY DEF IInv, OfficesAreWhole
<1>. QED  BY <1>1 DEF Preserved

-----------------------------------------------------------------------------
(***************************************************************************)
(* The steps that change the catalogue.                                    *)
(***************************************************************************)
LEMMA UpsertIInv == ASSUME IInv, NEW p \in Processes, Upsert(p) PROVE IInv'
<1>1. TypeOK'
  BY ConfigAssumption DEF Upsert, Upserted, IInv, TypeOK
<1>2. CatalogueIsServed'
  BY DEF Upsert, Upserted, IInv, TypeOK, CatalogueIsServed
<1>3. GrantsAreListed'
  BY DEF Upsert, Upserted, IInv, GrantsAreListed, Exists
<1>. QED
  BY <1>1, <1>2, <1>3 DEF Upsert, IInv, SeedsOffice, SeedUnderWay, SeedHasGranted, SeedHasNumbered,
     SeedHasStaffed, CountersAreAhead, OfficesAreWhole, Exists

LEMMA RetireIInv ==
  ASSUME IInv, NEW p \in Processes, Retire(p)
  PROVE  IInv' /\ \A x \in Slugs : Exists(x) => Preserved(x)
<1>. DEFINE C == Cascade(KeptBy(p))
<1>1. /\ office' = C /\ seed' = seed /\ unfinished' = unfinished /\ req' = req
      /\ C \in [Slugs -> {NoOffice} \cup Office]
      /\ \A s \in Slugs : ~Exists(s) => C[s] = NoOffice
      /\ \A s \in Slugs : Exists(s) =>
            /\ C[s] \in Office
            /\ C[s].users = office[s].users
            /\ C[s].current = office[s].current
            /\ C[s].numbers = office[s].numbers
            /\ C[s].grants = office[s].grants \cap KeptBy(p)
  BY CascadeOffice DEF Retire, IInv, TypeOK
<1>2. TypeOK'
  BY <1>1 DEF Retire, KeptBy, IInv, TypeOK
<1>3. Common \subseteq Catalogue[p]
  BY DEF Common
<1>4. ASSUME NEW s \in Slugs, Exists(s) PROVE Preserved(s)
  <2>1. office[s] \in Office
    BY <1>4 DEF IInv, TypeOK, Exists
  <2>2. office[s].current \in Nat /\ office[s].grants \subseteq Codes
    BY <2>1, SeedClientsFit DEF Office
  <2>3. Common \subseteq office[s].grants => Common \subseteq office[s].grants \cap KeptBy(p)
    BY <1>3, <1>4 DEF IInv, GrantsAreListed, KeptBy
  <2>. QED  BY <1>1, <1>4, <2>2, <2>3 DEF Preserved
<1>5. SeedsOffice' /\ SeedHasGranted' /\ SeedHasNumbered' /\ SeedHasStaffed'
  BY <1>1, <1>4, SeedKept
<1>6. \A s \in Slugs : Exists(s)' => Exists(s)
  BY <1>1 DEF Exists
<1>7. CountersAreAhead'
  BY <1>1, <1>6 DEF CountersAreAhead, IInv
<1>8. GrantsAreListed'
  BY <1>1, <1>6 DEF GrantsAreListed, Retire, KeptBy
<1>9. OfficesAreWhole'
  <2>. SUFFICES ASSUME NEW s \in Slugs \ unfinished, Exists(s)
                PROVE  /\ \E e \in Emails : office'[s].users[e] = "OWNER"
                       /\ office'[s].current # NoRow
                       /\ office'[s].numbers \subseteq 1 .. office'[s].current
                       /\ Common \subseteq office'[s].grants
    BY <1>1, <1>6 DEF OfficesAreWhole, Common
  <2>1. office'[s].current # NoRow => office'[s].numbers \subseteq 1 .. office'[s].current
    BY <1>1 DEF IInv, CountersAreAhead
  <2>. QED  BY <1>4, <2>1, WholeKept
<1>10. CatalogueIsServed'
  BY DEF Retire, KeptBy, IInv, TypeOK, CatalogueIsServed
<1>. QED  BY <1>2, <1>4, <1>5, <1>7, <1>8, <1>9, <1>10 DEF IInv

-----------------------------------------------------------------------------
(***************************************************************************)
(* The steps that leave the offices alone.                                 *)
(***************************************************************************)
LEMMA QuietIInv ==
  ASSUME IInv, TypeOK', permissions' = permissions, office' = office, seed' = seed,
         unfinished' = unfinished, CatalogueIsServed'
  PROVE  IInv'
  BY DEF IInv, SeedsOffice, SeedUnderWay, SeedHasGranted, SeedHasNumbered, SeedHasStaffed,
         CountersAreAhead, GrantsAreListed, OfficesAreWhole, Exists

LEMMA StopIInv == ASSUME IInv, NEW p \in Processes, Stop(p) PROVE IInv'
<1>1. TypeOK'
  BY DEF Stop, IInv, TypeOK
<1>2. CatalogueIsServed'
  BY DEF Stop, IInv, TypeOK, CatalogueIsServed
<1>. QED  BY <1>1, <1>2, QuietIInv DEF Stop

LEMMA SetupSqlIInv == ASSUME IInv, NEW p \in Processes, SetupSql(p) PROVE IInv'
<1>1. TypeOK'
  BY ConfigAssumption DEF SetupSql, IInv, TypeOK
<1>2. CatalogueIsServed' /\ GrantsAreListed'
  BY DEF SetupSql, IInv, CatalogueIsServed, GrantsAreListed, Exists
<1>. QED
  BY <1>1, <1>2 DEF SetupSql, IInv, SeedsOffice, SeedUnderWay, SeedHasGranted, SeedHasNumbered,
     SeedHasStaffed, CountersAreAhead, OfficesAreWhole, Exists

LEMMA RegisterReadIInv ==
  ASSUME IInv, NEW r \in Requests, NEW p \in Processes, NEW s \in Slugs, NEW e \in Emails,
         RegisterRead(r, p, s, e)
  PROVE  IInv'
<1>1. TypeOK'
  BY DEF RegisterRead, IInv, TypeOK
<1>2. CatalogueIsServed'
  BY DEF RegisterRead, IInv, CatalogueIsServed
<1>. QED  BY <1>1, <1>2, QuietIInv DEF RegisterRead

LEMMA RegisterFailsIInv == ASSUME IInv, NEW r \in Requests, RegisterFails(r) PROVE IInv'
<1>1. TypeOK'
  BY DEF RegisterFails, IInv, TypeOK
<1>2. CatalogueIsServed'
  BY DEF RegisterFails, IInv, CatalogueIsServed
<1>. QED  BY <1>1, <1>2, QuietIInv DEF RegisterFails

-----------------------------------------------------------------------------
(***************************************************************************)
(* The steps that write one office.                                        *)
(***************************************************************************)
LEMMA OneOfficeIInv ==
  ASSUME IInv, NEW s \in Slugs, NEW o \in Office,
         office' = [office EXCEPT ![s] = o], TypeOK',
         UNCHANGED <<permissions, boot, outdated, seed, unfinished>>,
         Exists(s) => Preserved(s),
         ~Exists(s) => (\E e \in Emails : o.users[e] = "OWNER") /\ o.current # NoRow
                       /\ Common \subseteq o.grants,
         o.current # NoRow => o.numbers \subseteq 1 .. o.current,
         o.current = NoRow => o.numbers = {},
         o.grants \subseteq permissions
  PROVE  IInv' /\ \A x \in Slugs : Exists(x) => Preserved(x)
<1>1. office \in [Slugs -> {NoOffice} \cup Office]
  BY DEF IInv, TypeOK
<1>2. office'[s] = o /\ \A x \in Slugs \ {s} : office'[x] = office[x] /\ Exists(x)' = Exists(x)
  BY <1>1 DEF Exists
<1>3. ASSUME NEW x \in Slugs, Exists(x) PROVE Preserved(x)
  BY <1>2, <1>3, SameOffice DEF IInv
<1>4. SeedsOffice' /\ SeedHasGranted' /\ SeedHasNumbered' /\ SeedHasStaffed'
  BY <1>3, SeedKept
<1>5. CountersAreAhead'
  BY <1>2 DEF CountersAreAhead, IInv
<1>6. GrantsAreListed'
  BY <1>2 DEF GrantsAreListed, IInv
<1>7. OfficesAreWhole'
  <2>. SUFFICES ASSUME NEW x \in Slugs \ unfinished, Exists(x)'
                PROVE  /\ \E e \in Emails : office'[x].users[e] = "OWNER"
                       /\ office'[x].current # NoRow
                       /\ office'[x].numbers \subseteq 1 .. office'[x].current
                       /\ Common \subseteq office'[x].grants
    BY DEF OfficesAreWhole, Common
  <2>1. office'[x].current # NoRow => office'[x].numbers \subseteq 1 .. office'[x].current
    BY <1>5 DEF CountersAreAhead
  <2>2. CASE Exists(x)
    BY <1>3, <2>1, <2>2, WholeKept
  <2>3. CASE ~Exists(x)
    BY <1>2, <2>1, <2>3
  <2>. QED  BY <2>2, <2>3
<1>8. CatalogueIsServed'
  BY DEF IInv, CatalogueIsServed
<1>. QED  BY <1>3, <1>4, <1>5, <1>6, <1>7, <1>8 DEF IInv

LEMMA RegisterCommitIInv ==
  ASSUME IInv, NEW r \in Requests, RegisterCommit(r)
  PROVE  IInv' /\ \A x \in Slugs : Exists(x) => Preserved(x)
<1>. DEFINE q == req[r]  o == Founded(q.proc, q.email)
<1>1. q.proc \in Processes /\ q.slug \in Slugs /\ q.email \in Emails
  BY DEF RegisterCommit, IInv, TypeOK, Idle
<1>2. /\ o \in Office /\ o.users[q.email] = "OWNER" /\ o.current = 0 /\ o.numbers = {}
      /\ o.grants = Catalogue[q.proc]
  BY <1>1, FoundedOffice DEF IInv
<1>3. /\ office' = [office EXCEPT ![q.slug] = o] /\ ~Exists(q.slug)
      /\ UNCHANGED <<permissions, boot, outdated, seed, unfinished>>
      /\ o.grants \subseteq permissions
  BY <1>2 DEF RegisterCommit, Taken, Matrix
<1>4. TypeOK'
  BY <1>1, <1>2, <1>3 DEF RegisterCommit, IInv, TypeOK
<1>5. o.current # NoRow /\ Common \subseteq o.grants
  BY <1>1, <1>2, SeedClientsFit, ConfigAssumption DEF Common, NoRow
<1>6. o.numbers \subseteq 1 .. o.current
  BY <1>2
<1>. HIDE DEF o
<1>. QED  BY <1>1, <1>2, <1>3, <1>4, <1>5, <1>6, OneOfficeIInv

LEMMA OwnerSqlIInv ==
  ASSUME IInv, NEW p \in Processes, NEW s \in Slugs, NEW e \in Emails, NEW demo \in Emails,
         OwnerSql(p, s, e, demo)
  PROVE  IInv' /\ \A x \in Slugs : Exists(x) => Preserved(x)
<1>. DEFINE users == IF Exists(s) THEN office[s].users ELSE NoUsers
            first == Joined(users, e, "OWNER")
            both  == Joined(first, demo, "STAFF")
            o == [users   |-> both,
                  grants  |-> Catalogue[p] \cup (IF Exists(s) THEN office[s].grants ELSE {}),
                  current |-> CounterKept(s),
                  numbers |-> IF Exists(s) THEN office[s].numbers ELSE {}]
<1>1. Exists(s) => office[s] \in Office
  BY DEF IInv, TypeOK, Exists
<1>2. users \in [Emails -> {"none", "OWNER", "STAFF"}]
  BY <1>1 DEF Office, NoUsers
<1>3. /\ first \in [Emails -> {"none", "OWNER", "STAFF"}]
      /\ \A x \in Emails : users[x] \in {"none", first[x]}
      /\ users[e] = "none" => first[e] = "OWNER"
  BY <1>2, JoinedAdds
<1>4. /\ both \in [Emails -> {"none", "OWNER", "STAFF"}]
      /\ \A x \in Emails : first[x] \in {"none", both[x]}
  BY <1>3, JoinedAdds
<1>5. CounterKept(s) \in 0 .. MaxNumber
  BY <1>1, ConfigAssumption DEF CounterKept, Office, NoRow
<1>6. /\ office' = [office EXCEPT ![s] = o]
      /\ UNCHANGED <<permissions, boot, outdated, seed, unfinished, req>>
      /\ Catalogue[p] \subseteq permissions
  BY DEF OwnerSql, Matrix
<1>7. o \in Office
  BY <1>1, <1>4, <1>5, ConfigAssumption DEF Office, NoRow
<1>8. TypeOK'
  BY <1>6, <1>7 DEF IInv, TypeOK
<1>9. ~Exists(s) => both[e] = "OWNER"
  BY <1>3, <1>4 DEF NoUsers
<1>10. Common \subseteq o.grants /\ o.grants \subseteq permissions
  BY <1>6 DEF Common, IInv, GrantsAreListed
<1>11. o.current # NoRow /\ o.numbers \subseteq 1 .. o.current
  <2>1. o.current # NoRow
    BY <1>5, ConfigAssumption DEF NoRow
  <2>2. o.numbers \subseteq 1 .. o.current
    BY <1>1 DEF IInv, CountersAreAhead, CounterKept
  <2>. QED  BY <2>1, <2>2
<1>12. ASSUME Exists(s) PROVE Preserved(s)
  <2>1. \A x \in Emails : office[s].users[x] \in {"none", both[x]}
    BY <1>3, <1>4, <1>12
  <2>2. office[s].current # NoRow => o.current = office[s].current
    BY <1>12 DEF CounterKept
  <2>3. o.current \in Nat
    BY <1>5
  <2>4. office'[s] = o
    BY <1>6 DEF IInv, TypeOK
  <2>5. o.users = both /\ (Exists(s) => o.numbers = office[s].numbers)
    OBVIOUS
  <2>. HIDE DEF o, both
  <2>. QED  BY <1>7, <1>10, <1>11, <1>12, <2>1, <2>2, <2>3, <2>4, <2>5 DEF Preserved
<1>13. o.users = both
  OBVIOUS
<1>. HIDE DEF o, both
<1>. QED  BY <1>6, <1>7, <1>8, <1>9, <1>10, <1>11, <1>12, <1>13, OneOfficeIInv

LEMMA DrawIInv ==
  ASSUME IInv, NEW s \in Slugs, Draw(s)
  PROVE  IInv' /\ \A x \in Slugs : Exists(x) => Preserved(x)
<1>. DEFINE n == IF office[s].current = NoRow THEN 1 ELSE office[s].current + 1
<1>1. office[s] \in Office /\ Exists(s)
  BY DEF Draw, IInv, TypeOK, Exists
<1>2. office[s].current \in Nat /\ n \in 1 .. MaxNumber
  BY <1>1, SeedClientsFit DEF Draw, Office
<1>3. PICK used \in {{}, {n}} :
         office' = [office EXCEPT ![s].current = n, ![s].numbers = @ \cup used]
  BY DEF Draw
<1>. DEFINE o == [office[s] EXCEPT !.current = n, !.numbers = @ \cup used]
<1>4. office' = [office EXCEPT ![s] = o]
  BY <1>3 DEF IInv, TypeOK
<1>5. /\ o.users = office[s].users /\ o.grants = office[s].grants /\ o.current = n
      /\ o.numbers = office[s].numbers \cup used
  BY <1>1 DEF Office
<1>6. o \in Office
  <2>1. n \in 0 .. NoRow /\ used \subseteq 1 .. MaxNumber
    BY <1>2, ConfigAssumption DEF NoRow
  <2>. HIDE DEF n
  <2>. QED  BY <1>1, <2>1, DrawnOffice
<1>7. TypeOK'
  BY <1>4, <1>6 DEF Draw, IInv, TypeOK
<1>8. n # NoRow
  BY <1>2, ConfigAssumption DEF NoRow
<1>9. o.numbers \subseteq 1 .. n
  <2>1. CASE office[s].current = NoRow
    BY <1>1, <1>2, <1>5, <2>1 DEF IInv, CountersAreAhead
  <2>2. CASE office[s].current # NoRow
    <3>1. office[s].numbers \subseteq 1 .. office[s].current /\ n = office[s].current + 1
      BY <1>1, <2>2 DEF IInv, CountersAreAhead
    <3>. QED  BY <1>2, <1>5, <3>1
  <2>. QED  BY <2>1, <2>2
<1>10. Preserved(s)
  <2>1. office'[s] = o
    BY <1>4 DEF IInv, TypeOK
  <2>2. office[s].current # NoRow => n >= office[s].current
    BY <1>2
  <2>. HIDE DEF o, n
  <2>. QED  BY <1>5, <1>6, <1>8, <2>1, <2>2 DEF Preserved
<1>11. o.grants \subseteq permissions
  BY <1>1, <1>5 DEF IInv, GrantsAreListed
<1>12. UNCHANGED <<permissions, boot, outdated, seed, unfinished>>
  BY DEF Draw
<1>. HIDE DEF o, n
<1>. QED  BY <1>1, <1>4, <1>5, <1>6, <1>7, <1>8, <1>9, <1>10, <1>11, <1>12, OneOfficeIInv

-----------------------------------------------------------------------------
(***************************************************************************)
(* The seed script.                                                        *)
(***************************************************************************)
LEMMA SeedWipesIInv == ASSUME IInv, SeedWipes PROVE IInv'
<1>1. TypeOK'
  BY DEF SeedWipes, IInv, TypeOK
<1>2. \A s \in Slugs : ~Exists(s)'
  BY DEF SeedWipes, Exists
<1>3. CatalogueIsServed'
  BY DEF SeedWipes, IInv, CatalogueIsServed
<1>. QED
  BY <1>1, <1>2, <1>3 DEF SeedWipes, IInv, SeedsOffice, SeedUnderWay, SeedHasGranted,
     SeedHasNumbered, SeedHasStaffed, CountersAreAhead, GrantsAreListed, OfficesAreWhole

LEMMA SeedEmptiesIInv == ASSUME IInv, SeedEmpties PROVE IInv'
<1>1. /\ office' = Cascade({})
      /\ Cascade({}) \in [Slugs -> {NoOffice} \cup Office]
      /\ \A s \in Slugs : ~Exists(s) => Cascade({})[s] = NoOffice
      /\ \A s \in Slugs : Exists(s) =>
            /\ Cascade({})[s].current = office[s].current
            /\ Cascade({})[s].numbers = office[s].numbers
            /\ Cascade({})[s].grants = office[s].grants \cap {}
  BY CascadeOffice DEF SeedEmpties, IInv, TypeOK
<1>2. TypeOK'
  BY <1>1 DEF SeedEmpties, IInv, TypeOK
<1>3. \A s \in Slugs : Exists(s)' => Exists(s)
  BY <1>1 DEF Exists
<1>4. CountersAreAhead' /\ GrantsAreListed'
  BY <1>1, <1>3 DEF CountersAreAhead, GrantsAreListed, IInv
<1>5. OfficesAreWhole' /\ CatalogueIsServed'
  BY <1>3 DEF SeedEmpties, OfficesAreWhole, CatalogueIsServed
<1>. QED
  BY <1>2, <1>4, <1>5 DEF SeedEmpties, IInv, SeedsOffice, SeedUnderWay, SeedHasGranted,
     SeedHasNumbered, SeedHasStaffed

LEMMA SeedListsIInv == ASSUME IInv, NEW p \in Scripts, SeedLists(p) PROVE IInv'
<1>1. TypeOK'
  BY ConfigAssumption DEF SeedLists, IInv, TypeOK, Processes
<1>2. CatalogueIsServed' /\ GrantsAreListed'
  BY DEF SeedLists, IInv, CatalogueIsServed, GrantsAreListed, Exists
<1>. QED
  BY <1>1, <1>2 DEF SeedLists, IInv, SeedsOffice, SeedUnderWay, SeedHasGranted, SeedHasNumbered,
     SeedHasStaffed, CountersAreAhead, OfficesAreWhole, Exists

\* A step of seedTenant writes its own office and no other, which is unfinished.
LEMMA SeedOfficeIInv ==
  ASSUME IInv, NEW o \in Office, office' = [office EXCEPT ![Seeded] = o],
         seed' \in {"founded", "granted", "numbered", "staffed"},
         unfinished' = unfinished \cup {Seeded},
         UNCHANGED <<permissions, boot, req, outdated>>,
         SeedHasGranted', SeedHasNumbered', SeedHasStaffed',
         IF o.current = NoRow THEN o.numbers = {} ELSE o.numbers \subseteq 1 .. o.current,
         o.grants \subseteq permissions
  PROVE  IInv'
<1>1. office \in [Slugs -> {NoOffice} \cup Office] /\ Seeded \in Slugs
  BY ConfigAssumption DEF IInv, TypeOK
<1>2. /\ office'[Seeded] = o
      /\ \A x \in Slugs \ {Seeded} : office'[x] = office[x] /\ Exists(x)' = Exists(x)
  BY <1>1 DEF Exists
<1>3. TypeOK'
  BY <1>1 DEF IInv, TypeOK
<1>4. SeedsOffice'
  BY <1>2 DEF SeedsOffice
<1>5. CountersAreAhead' /\ GrantsAreListed'
  BY <1>2 DEF CountersAreAhead, GrantsAreListed, IInv
<1>6. OfficesAreWhole' /\ CatalogueIsServed'
  BY <1>2 DEF OfficesAreWhole, CatalogueIsServed, IInv, Common
<1>. QED  BY <1>3, <1>4, <1>5, <1>6 DEF IInv

LEMMA SeedFoundsIInv == ASSUME IInv, SeedFounds PROVE IInv'
<1>. DEFINE o == [users |-> NoUsers, grants |-> {}, current |-> NoRow, numbers |-> {}]
<1>1. o \in Office
  BY SeedClientsFit DEF Office, NoUsers
<1>2. office' = [office EXCEPT ![Seeded] = o] /\ seed' = "founded"
  BY DEF SeedFounds
<1>3. SeedHasGranted' /\ SeedHasNumbered' /\ SeedHasStaffed'
  BY <1>2 DEF SeedHasGranted, SeedHasNumbered, SeedHasStaffed
<1>4. o.grants \subseteq permissions /\ o.current = NoRow /\ o.numbers = {}
  OBVIOUS
<1>. HIDE DEF o
<1>. QED  BY <1>1, <1>2, <1>3, <1>4, SeedOfficeIInv DEF SeedFounds

\* The office under way, as the next statement finds it.
LEMMA SeedsOfficeAt ==
  ASSUME IInv, SeedUnderWay
  PROVE  /\ office[Seeded] \in Office /\ unfinished = unfinished \cup {Seeded}
         /\ office[Seeded].grants \subseteq permissions
         /\ IF office[Seeded].current = NoRow THEN office[Seeded].numbers = {}
            ELSE office[Seeded].numbers \subseteq 1 .. office[Seeded].current
<1>1. office[Seeded] \in Office /\ Seeded \in unfinished /\ Seeded \in Slugs
  BY ConfigAssumption DEF IInv, SeedsOffice
<1>2. Exists(Seeded)
  BY <1>1 DEF Exists, NoOffice, Office
<1>. QED  BY <1>1, <1>2 DEF IInv, CountersAreAhead, GrantsAreListed

LEMMA SeedGrantsIInv == ASSUME IInv, NEW p \in Scripts, SeedGrants(p) PROVE IInv'
<1>. DEFINE x == office[Seeded]  o == [x EXCEPT !.grants = @ \cup Catalogue[p]]
<1>1. SeedUnderWay /\ p \in Processes /\ Seeded \in Slugs
  BY ConfigAssumption DEF SeedGrants, SeedUnderWay, Processes
<1>2. /\ x \in Office /\ unfinished = unfinished \cup {Seeded}
      /\ x.grants \subseteq permissions
      /\ IF x.current = NoRow THEN x.numbers = {} ELSE x.numbers \subseteq 1 .. x.current
  BY <1>1, SeedsOfficeAt
<1>3. office' = [office EXCEPT ![Seeded] = o] /\ office'[Seeded] = o /\ seed' = "granted"
  BY <1>1 DEF SeedGrants, Matrix, IInv, TypeOK
<1>4. /\ o \in Office /\ o.current = x.current /\ o.numbers = x.numbers
      /\ o.grants = x.grants \cup Catalogue[p]
  BY <1>1, <1>2, ConfigAssumption DEF Office
<1>5. Common \subseteq Catalogue[p]
  BY <1>1 DEF Common
<1>6. SeedHasGranted' /\ SeedHasNumbered' /\ SeedHasStaffed'
  BY <1>3, <1>4, <1>5 DEF SeedHasGranted, SeedHasNumbered, SeedHasStaffed, Common
<1>7. o.grants \subseteq permissions
  BY <1>2, <1>4 DEF SeedGrants, Matrix
<1>8. UNCHANGED <<permissions, boot, req, outdated>> /\ unfinished' = unfinished \cup {Seeded}
  BY <1>2 DEF SeedGrants
<1>. HIDE DEF o
<1>. QED  BY <1>2, <1>3, <1>4, <1>6, <1>7, <1>8, SeedOfficeIInv

LEMMA SeedNumbersIInv == ASSUME IInv, SeedNumbers PROVE IInv'
<1>. DEFINE x == office[Seeded]  o == [x EXCEPT !.current = 1]
<1>1. SeedUnderWay /\ Seeded \in Slugs
  BY ConfigAssumption DEF SeedNumbers, SeedUnderWay
<1>2. /\ x \in Office /\ unfinished = unfinished \cup {Seeded}
      /\ x.grants \subseteq permissions /\ x.numbers = {}
  BY <1>1, SeedsOfficeAt DEF SeedNumbers
<1>3. office' = [office EXCEPT ![Seeded] = o] /\ office'[Seeded] = o /\ seed' = "numbered"
  BY <1>1 DEF SeedNumbers, CountedAhead, SeedClients, IInv, TypeOK
<1>4. /\ o \in Office /\ o.current = 1 /\ o.numbers = {} /\ o.grants = x.grants
  BY <1>2, ConfigAssumption DEF Office, NoRow
<1>5. NoRow # 1
  BY ConfigAssumption DEF NoRow
<1>6. Common \subseteq x.grants
  BY DEF IInv, SeedHasGranted, SeedNumbers
<1>7. SeedHasGranted' /\ SeedHasNumbered' /\ SeedHasStaffed'
  <2>. HIDE DEF o
  <2>. QED
    BY <1>3, <1>4, <1>5, <1>6
    DEF SeedHasGranted, SeedHasNumbered, SeedHasStaffed, Common, SeedClients
<1>8. UNCHANGED <<permissions, boot, req, outdated>> /\ unfinished' = unfinished \cup {Seeded}
  BY <1>2 DEF SeedNumbers
<1>9. o.grants \subseteq permissions /\ o.numbers \subseteq 1 .. o.current
  BY <1>2, <1>4
<1>. HIDE DEF o
<1>. QED  BY <1>3, <1>4, <1>5, <1>7, <1>8, <1>9, SeedOfficeIInv

LEMMA SeedStaffsIInv == ASSUME IInv, NEW e \in Emails, SeedStaffs(e) PROVE IInv'
<1>. DEFINE x == office[Seeded]  u == Joined(x.users, e, "OWNER")
            o == [x EXCEPT !.users = u]
<1>1. SeedUnderWay /\ Seeded \in Slugs
  BY ConfigAssumption DEF SeedStaffs, SeedUnderWay
<1>2. /\ x \in Office /\ unfinished = unfinished \cup {Seeded}
      /\ x.grants \subseteq permissions
      /\ IF x.current = NoRow THEN x.numbers = {} ELSE x.numbers \subseteq 1 .. x.current
  BY <1>1, SeedsOfficeAt
<1>3. u \in [Emails -> {"none", "OWNER", "STAFF"}] /\ u[e] = "OWNER"
  <2>1. x.users \in [Emails -> {"none", "OWNER", "STAFF"}]
    BY <1>2 DEF Office
  <2>. QED  BY <2>1, JoinedAdds DEF SeedStaffs
<1>4. office' = [office EXCEPT ![Seeded] = o] /\ office'[Seeded] = o /\ seed' = "staffed"
  BY <1>1 DEF SeedStaffs, IInv, TypeOK
<1>5. /\ o \in Office /\ o.users = u /\ o.current = x.current /\ o.numbers = x.numbers
      /\ o.grants = x.grants
  <2>. HIDE DEF u
  <2>. QED  BY <1>2, <1>3 DEF Office
<1>6. /\ Common \subseteq x.grants /\ x.current # NoRow /\ x.current >= SeedClients
  BY DEF IInv, SeedHasGranted, SeedHasNumbered, SeedStaffs
<1>7. SeedHasGranted' /\ SeedHasNumbered' /\ SeedHasStaffed'
  <2>. HIDE DEF o, u
  <2>. QED
    BY <1>3, <1>4, <1>5, <1>6
    DEF SeedHasGranted, SeedHasNumbered, SeedHasStaffed, Common, SeedClients
<1>8. UNCHANGED <<permissions, boot, req, outdated>> /\ unfinished' = unfinished \cup {Seeded}
  BY <1>2 DEF SeedStaffs
<1>. HIDE DEF o
<1>. QED  BY <1>2, <1>4, <1>5, <1>7, <1>8, SeedOfficeIInv

LEMMA SeedEndsIInv == ASSUME IInv, SeedEnds PROVE IInv'
<1>. DEFINE x == office[Seeded]  o == [x EXCEPT !.numbers = @ \cup (1 .. SeedClients)]
<1>1. SeedUnderWay /\ Seeded \in Slugs
  BY ConfigAssumption DEF SeedEnds, SeedUnderWay
<1>2. /\ x \in Office /\ x.grants \subseteq permissions
      /\ IF x.current = NoRow THEN x.numbers = {} ELSE x.numbers \subseteq 1 .. x.current
  BY <1>1, SeedsOfficeAt
<1>3. office' = [office EXCEPT ![Seeded] = o] /\ office'[Seeded] = o /\ seed' = "idle"
  BY <1>1 DEF SeedEnds, IInv, TypeOK
<1>4. 1 .. SeedClients \subseteq 1 .. MaxNumber
  BY SeedClientsFit DEF SeedClients
<1>5. /\ o \in Office /\ o.users = x.users /\ o.current = x.current
      /\ o.grants = x.grants /\ o.numbers = x.numbers \cup (1 .. SeedClients)
  BY <1>2, <1>4 DEF Office
<1>6. /\ Common \subseteq x.grants /\ x.current # NoRow /\ x.current >= SeedClients
      /\ \E e \in Emails : x.users[e] = "OWNER"
  BY DEF IInv, SeedHasGranted, SeedHasNumbered, SeedHasStaffed, SeedEnds
<1>7. o.numbers \subseteq 1 .. o.current
  <2>1. x.current \in Nat
    BY <1>2, SeedClientsFit DEF Office
  <2>. QED  BY <1>2, <1>5, <1>6, <2>1 DEF SeedClients
<1>8. \A y \in Slugs \ {Seeded} : office'[y] = office[y] /\ Exists(y)' = Exists(y)
  BY <1>3 DEF Exists, IInv, TypeOK
<1>9. TypeOK'
  <2>. HIDE DEF o
  <2>. QED  BY <1>3, <1>5 DEF SeedEnds, IInv, TypeOK
<1>10. CountersAreAhead' /\ GrantsAreListed'
  <2>. HIDE DEF o
  <2>. QED
    BY <1>2, <1>3, <1>5, <1>6, <1>7, <1>8 DEF CountersAreAhead, GrantsAreListed, IInv, SeedEnds
<1>11. OfficesAreWhole' /\ CatalogueIsServed'
  <2>. HIDE DEF o
  <2>. QED
    BY <1>3, <1>5, <1>6, <1>7, <1>8 DEF OfficesAreWhole, CatalogueIsServed, IInv, Common, SeedEnds
<1>. QED
  BY <1>3, <1>9, <1>10, <1>11 DEF IInv, SeedsOffice, SeedUnderWay, SeedHasGranted,
     SeedHasNumbered, SeedHasStaffed

LEMMA SeedFailsIInv == ASSUME IInv, SeedFails PROVE IInv'
  BY DEF SeedFails, IInv, TypeOK, SeedsOffice, SeedUnderWay, SeedHasGranted, SeedHasNumbered,
     SeedHasStaffed, CountersAreAhead, GrantsAreListed, OfficesAreWhole, CatalogueIsServed, Exists

-----------------------------------------------------------------------------
LEMMA NextIInv == IInv /\ [Next]_vars => IInv'
<1> SUFFICES ASSUME IInv, [Next]_vars PROVE IInv'
  OBVIOUS
<1>1. CASE \E p \in Processes : Upsert(p) \/ Retire(p) \/ Stop(p) \/ SetupSql(p)
  BY <1>1, UpsertIInv, RetireIInv, StopIInv, SetupSqlIInv
<1>2. CASE \E r \in Requests :
             \/ \E p \in Processes, s \in Slugs, e \in Emails : RegisterRead(r, p, s, e)
             \/ RegisterCommit(r) \/ RegisterFails(r)
  BY <1>2, RegisterReadIInv, RegisterCommitIInv, RegisterFailsIInv
<1>3. CASE \E p \in Processes, s \in Slugs, e, demo \in Emails : OwnerSql(p, s, e, demo)
  BY <1>3, OwnerSqlIInv
<1>4. CASE \E s \in Slugs : Draw(s)
  BY <1>4, DrawIInv
<1>5. CASE Seed
  BY <1>5, SeedWipesIInv, SeedEmptiesIInv, SeedListsIInv, SeedFoundsIInv, SeedGrantsIInv,
     SeedNumbersIInv, SeedStaffsIInv, SeedEndsIInv, SeedFailsIInv DEF Seed
<1>6. CASE UNCHANGED vars
  <2>1. TypeOK' /\ CatalogueIsServed'
    BY <1>6 DEF vars, IInv, TypeOK, CatalogueIsServed
  <2>. QED  BY <1>6, <2>1, QuietIInv DEF vars
<1>. QED  BY <1>1, <1>2, <1>3, <1>4, <1>5, <1>6 DEF Next

LEMMA SpecIInv == Spec => []IInv
  BY InitIInv, NextIInv, PTL DEF Spec

\* The tables stay well typed; in particular no step works on an office that is
\* not there.
THEOREM TypeCorrect == Spec => []TypeOK
<1>1. IInv => TypeOK
  BY DEF IInv
<1>. QED  BY <1>1, SpecIInv, PTL

\* registerTenant, create-owner, the seed and syncCatalog: an office is whole, by
\* whatever way it was created.
THEOREM OfficesAreAlwaysWhole == Spec => []OfficesAreWhole
<1>1. IInv => OfficesAreWhole
  BY DEF IInv
<1>. QED  BY <1>1, SpecIInv, PTL

\* syncCatalog: a container finds its catalogue until another version retires a
\* part of it.
THEOREM CatalogueIsAlwaysServed == Spec => []CatalogueIsServed
<1>1. IInv => CatalogueIsServed
  BY DEF IInv
<1>. QED  BY <1>1, SpecIInv, PTL

-----------------------------------------------------------------------------
(***************************************************************************)
(* What no step may do to an office that stays.                            *)
(***************************************************************************)
Kept(s) ==
    /\ \A e \in Emails : office[s].users[e] \in {"none", office'[s].users[e]}
    /\ office[s].numbers \subseteq office'[s].numbers
    /\ office[s].current # NoRow => office'[s].current >= office[s].current

LEMMA SameIsKept ==
  ASSUME IInv, NEW s \in Slugs, Exists(s), office'[s] = office[s] PROVE Kept(s)
  BY SameOffice DEF IInv, Preserved, Kept

\* The statements of the seed change the office under way in one field each.
LEMMA SeedKeeps ==
  ASSUME IInv, Seed, NEW s \in Slugs, Exists(s), office'[s] # NoOffice
  PROVE  Kept(s)
<1>. DEFINE x == office[Seeded]
<1>1. office \in [Slugs -> {NoOffice} \cup Office] /\ Seeded \in Slugs
  BY ConfigAssumption DEF IInv, TypeOK
<1>2. CASE SeedWipes
  BY <1>2 DEF SeedWipes
<1>3. CASE SeedEmpties
  <2>1. /\ office'[s].users = office[s].users /\ office'[s].current = office[s].current
        /\ office'[s].numbers = office[s].numbers
    BY <1>1, <1>3, CascadeOffice DEF SeedEmpties
  <2>2. office[s] \in Office
    BY <1>1 DEF Exists
  <2>3. office[s].current \in Nat
    BY <2>2, SeedClientsFit DEF Office
  <2>. QED  BY <2>1, <2>3 DEF Kept
<1>4. CASE SeedFounds
  <2>1. s # Seeded
    BY <1>4 DEF SeedFounds, Taken
  <2>. QED  BY <1>1, <1>4, <2>1, SameIsKept DEF SeedFounds
<1>5. ASSUME s = Seeded, SeedUnderWay, NEW o, office' = [office EXCEPT ![Seeded] = o],
             \A e \in Emails : x.users[e] \in {"none", o.users[e]},
             x.numbers \subseteq o.numbers, x.current # NoRow => o.current = x.current
      PROVE  Kept(s)
  <2>1. x \in Office
    BY <1>5, SeedsOfficeAt
  <2>2. x.current \in Nat
    BY <2>1, SeedClientsFit DEF Office
  <2>3. office'[s] = o
    BY <1>1, <1>5
  <2>. QED  BY <1>5, <2>2, <2>3 DEF Kept
<1>6. SeedUnderWay => x \in Office
  BY SeedsOfficeAt
<1>7. ASSUME NEW p \in Scripts, SeedGrants(p) PROVE Kept(s)
  <2>. DEFINE o == [x EXCEPT !.grants = @ \cup Catalogue[p]]
  <2>1. SeedUnderWay /\ office' = [office EXCEPT ![Seeded] = o]
    BY <1>7 DEF SeedGrants, SeedUnderWay, Matrix
  <2>2. o.users = x.users /\ o.numbers = x.numbers /\ o.current = x.current
    BY <1>6, <2>1 DEF Office
  <2>. HIDE DEF o
  <2>. QED  BY <1>1, <1>5, <2>1, <2>2, SameIsKept
<1>8. CASE SeedNumbers
  <2>. DEFINE o == [x EXCEPT !.current = CountedAhead]
  <2>1. SeedUnderWay /\ office' = [office EXCEPT ![Seeded] = o] /\ x.current = NoRow
    BY <1>8 DEF SeedNumbers, SeedUnderWay
  <2>2. o.users = x.users /\ o.numbers = x.numbers
    BY <1>6, <2>1 DEF Office
  <2>. HIDE DEF o
  <2>. QED  BY <1>1, <1>5, <2>1, <2>2, SameIsKept
<1>9. ASSUME NEW e \in Emails, SeedStaffs(e) PROVE Kept(s)
  <2>. DEFINE u == Joined(x.users, e, "OWNER")  o == [x EXCEPT !.users = u]
  <2>1. SeedUnderWay /\ office' = [office EXCEPT ![Seeded] = o]
    BY <1>9 DEF SeedStaffs, SeedUnderWay
  <2>2. x.users \in [Emails -> {"none", "OWNER", "STAFF"}]
    BY <1>6, <2>1 DEF Office
  <2>3. \A y \in Emails : x.users[y] \in {"none", u[y]}
    BY <2>2, JoinedAdds
  <2>. HIDE DEF u
  <2>4. o.users = u /\ o.numbers = x.numbers /\ o.current = x.current
    BY <1>6, <2>1 DEF Office
  <2>. HIDE DEF o
  <2>. QED  BY <1>1, <1>5, <2>1, <2>3, <2>4, SameIsKept
<1>10. CASE SeedEnds
  <2>. DEFINE o == [x EXCEPT !.numbers = @ \cup (1 .. SeedClients)]
  <2>1. SeedUnderWay /\ office' = [office EXCEPT ![Seeded] = o]
    BY <1>10 DEF SeedEnds, SeedUnderWay
  <2>2. o.users = x.users /\ o.numbers = x.numbers \cup (1 .. SeedClients)
        /\ o.current = x.current
    BY <1>6, <2>1 DEF Office
  <2>. HIDE DEF o
  <2>. QED  BY <1>1, <1>5, <2>1, <2>2, SameIsKept
<1>11. CASE UNCHANGED office
  BY <1>11, SameIsKept
<1>. QED
  BY <1>2, <1>3, <1>4, <1>7, <1>8, <1>9, <1>10, <1>11 DEF Seed, SeedLists, SeedFails

LEMMA StepKeeps ==
  ASSUME IInv, [Next]_vars, NEW s \in Slugs, Exists(s), office'[s] # NoOffice PROVE Kept(s)
<1>1. CASE UNCHANGED office
  BY <1>1, SameIsKept
<1>2. CASE Preserved(s)
  BY <1>2 DEF Preserved, Kept
<1>3. CASE \E p \in Processes : Upsert(p) \/ Retire(p) \/ Stop(p) \/ SetupSql(p)
  BY <1>1, <1>2, <1>3, RetireIInv DEF Upsert, Stop, SetupSql
<1>4. CASE \E r \in Requests :
             \/ \E p \in Processes, t \in Slugs, e \in Emails : RegisterRead(r, p, t, e)
             \/ RegisterCommit(r) \/ RegisterFails(r)
  BY <1>1, <1>2, <1>4, RegisterCommitIInv DEF RegisterRead, RegisterFails
<1>5. CASE \E p \in Processes, t \in Slugs, e, demo \in Emails : OwnerSql(p, t, e, demo)
  BY <1>2, <1>5, OwnerSqlIInv
<1>6. CASE \E t \in Slugs : Draw(t)
  BY <1>2, <1>6, DrawIInv
<1>7. CASE Seed
  BY <1>7, SeedKeeps
<1>8. CASE UNCHANGED vars
  BY <1>1, <1>8 DEF vars
<1>. QED  BY <1>3, <1>4, <1>5, <1>6, <1>7, <1>8 DEF Next

\* Every way to an office, and every number drawn: an office that exists is never
\* overwritten.
THEOREM OfficesAreAlwaysKept == Spec => OfficesAreKept
<1>. DEFINE K == \A s \in Slugs : Exists(s) /\ office'[s] # NoOffice =>
          /\ \A e \in Emails : office[s].users[e] \in {"none", office'[s].users[e]}
          /\ office[s].numbers \subseteq office'[s].numbers
          /\ office[s].current # NoRow => office'[s].current >= office[s].current
<1>1. IInv /\ [Next]_vars => [K]_vars
  BY StepKeeps DEF Kept
<1>. QED  BY <1>1, SpecIInv, PTL DEF Spec, OfficesAreKept
=============================================================================
