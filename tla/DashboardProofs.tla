-------------------------- MODULE DashboardProofs --------------------------
(***************************************************************************)
(* Proofs about Dashboard, for any members, permissions, addresses,        *)
(* invoices and clients.                                                   *)
(***************************************************************************)
EXTENDS Dashboard, TLAPS

(***************************************************************************)
(* The team page: type correctness.                                        *)
(***************************************************************************)
LEMMA NothingIsTyped ==
  /\ NoModal \in ModalState /\ EmptyList \in ListState
  /\ [open |-> FALSE, submitting |-> FALSE, posting |-> {}] \in FormState
  BY DEF NoModal, EmptyList, ModalState, ListState, FormState

\* Beyond its type: who is shown in a modal is somebody.
ModalHasItsMember == modal.id = Nobody => modal = NoModal

LEMMA MountedTypeOK ==
  ASSUME NEW l, NEW n, NEW o, NEW f, NEW m, Mounted(l, n, o, f, m)
  PROVE  /\ l \in ListState /\ n \in Nat /\ o \subseteq [n: Numbers, id: Ids]
         /\ f \in FormState /\ m \in ModalState
  BY NothingIsTyped DEF Mounted

\* What remains of a call is a call.
LEMMA StopsTyped ==
  ASSUME NEW c \in StopState
  PROVE  /\ Reached(c) \subseteq StopState /\ Answered(c) \subseteq StopState
         /\ [c EXCEPT !.awaited = FALSE] \in StopState
<1>. /\ [c EXCEPT !.sent = FALSE] \in StopState /\ [c EXCEPT !.awaited = FALSE] \in StopState
  BY DEF StopState
<1>. QED  BY DEF Reached, Answered

LEMMA SavesTyped ==
  ASSUME NEW s \in SaveState
  PROVE  /\ Reached(s) \subseteq SaveState /\ Answered(s) \subseteq SaveState
         /\ [s EXCEPT !.awaited = FALSE] \in SaveState
         /\ Unsound(s) \in SaveState /\ Spent(s) \in SaveState
<1>1. /\ [s EXCEPT !.sent = FALSE] \in SaveState /\ [s EXCEPT !.awaited = FALSE] \in SaveState
  BY DEF SaveState
<1>2. Unsound(s) \in SaveState
  BY DEF SaveState, Unsound
<1>3. \A u \in SaveState : [u EXCEPT !.result = {}] \in SaveState
  BY DEF SaveState
<1>. QED  BY <1>1, <1>2, <1>3 DEF Reached, Answered, Spent

LEMMA InitTeamTypeOK == TeamInit => TypeOK
  BY ConfigAssumption, NothingIsTyped, MountedTypeOK DEF TeamInit, TypeOK

LEMMA MergedRows == \A known : Merged(known) \in [Emails -> {0, 1}]
                             /\ \A e \in Emails \cap custom : Merged(known)[e] = 1
  BY DEF Merged

\* Reload and load() leave a list.
LEMMA ReloadTyped ==
  ASSUME NEW rows \in ListState, loads \in Nat, Reload(rows)
  PROVE  list' \in ListState /\ loads' \in Nat
<1>1. rows = [count |-> rows.count, rows |-> rows.rows, live |-> rows.live,
              catalog |-> rows.catalog, loading |-> rows.loading, busy |-> rows.busy]
  BY DEF ListState
<1>2. list' = [count |-> rows.count, rows |-> rows.rows, live |-> rows.live,
               catalog |-> rows.catalog, loading |-> TRUE, busy |-> Nobody]
  BY <1>1 DEF Reload
<1>3. /\ rows.count \in [Emails -> Nat] /\ rows.rows \subseteq Ids /\ rows.live \subseteq Ids
      /\ rows.catalog \subseteq Perms
  BY DEF ListState
<1>4. list' \in ListState
  BY <1>2, <1>3 DEF ListState
<1>5. loads' \in Nat
  BY DEF Reload
<1>. QED  BY <1>4, <1>5

LEMMA LoadTypeOK == TypeOK /\ (LoadSucceeds \/ LoadFails) => TypeOK'
<1>1. \A known : Merged(known) \in [Emails -> Nat]
  BY MergedRows
<1>2. ASSUME TypeOK, LoadSucceeds PROVE TypeOK'
  BY <1>1, <1>2 DEF LoadSucceeds, api, TypeOK, ListState, Ids
<1>3. ASSUME TypeOK, LoadFails PROVE TypeOK'
  BY <1>1, <1>3, ConfigAssumption DEF LoadFails, api, TypeOK, ListState, Ids
<1>. QED  BY <1>2, <1>3

LEMMA EditTyped ==
  ASSUME TypeOK, NEW id \in Ids, NEW role \in SUBSET Perms, NEW effective \in SUBSET Perms,
         NEW known \in BOOLEAN, known => id \in Members, Edit(id, role, effective, known)
  PROVE  modal' \in ModalState
<1>1. Forgotten(modal) \in ModalState
  BY DEF Forgotten, TypeOK, ModalState
<1>2. ASSUME NEW shown \in ModalState PROVE [shown EXCEPT !.id = id, !.role = role] \in ModalState
  BY DEF ModalState
<1>3. CASE modal = NoModal
  <2>. DEFINE of == IF known /\ effective = held[id] THEN id ELSE Nobody
  <2>1. of \in Members \cup {Nobody}
    OBVIOUS
  <2>2. modal' = [id |-> id, role |-> role, effective |-> effective, submitting |-> FALSE,
                  of |-> of, touched |-> {}]
    BY <1>3 DEF Edit
  <2>. HIDE DEF of
  <2>. QED  BY <2>1, <2>2 DEF ModalState
<1>4. CASE modal # NoModal
  <2>. DEFINE shown == IF known THEN modal ELSE Forgotten(modal)
  <2>1. shown \in ModalState
    BY <1>1 DEF TypeOK
  <2>2. modal' = [shown EXCEPT !.id = id, !.role = role]
    BY <1>4 DEF Edit
  <2>. HIDE DEF shown
  <2>. QED  BY <1>2, <2>1, <2>2
<1>. QED  BY <1>3, <1>4

LEMMA MembersTableTypeOK == ASSUME TypeOK, MembersTable PROVE TypeOK'
<1>1. ASSUME NEW id \in Ids, ClickPermissions(id) PROVE TypeOK'
  <2>1. opening' \subseteq [n: Numbers, id: Ids]
    BY <1>1 DEF ClickPermissions, TypeOK, New
  <2>. QED  BY <1>1, <2>1 DEF ClickPermissions, api, TypeOK
<1>2. ASSUME NEW c \in opening, DetailArrives(c) PROVE TypeOK'
  <2>1. PICK seen \in SUBSET Perms : Edit(c.id, RolePerms, seen, TRUE)
    BY <1>2 DEF DetailArrives
  <2>2. modal' \in ModalState
    BY <1>2, <2>1, ConfigAssumption, EditTyped DEF DetailArrives, TypeOK
  <2>. QED  BY <1>2, <2>2 DEF DetailArrives, api, TypeOK
<1>3. ASSUME NEW c \in opening, DetailIsMadeUp(c) PROVE TypeOK'
  <2>1. modal' \in ModalState
    BY <1>3, ConfigAssumption, EditTyped DEF DetailIsMadeUp, TypeOK
  <2>. QED  BY <1>3, <2>1 DEF DetailIsMadeUp, api, TypeOK
<1>4. ASSUME NEW id \in Ids, Deactivate(id) PROVE TypeOK'
  <2>. DEFINE Call(n) == [n |-> n, id |-> id, sent |-> TRUE, awaited |-> TRUE]
  <2>1. PICK n \in New(stopping) : stopping' = stopping \cup {Call(n)}
    BY <1>4 DEF Deactivate
  <2>2. Call(n) \in StopState
    BY <2>1 DEF New, StopState
  <2>. HIDE DEF Call
  <2>3. stopping' \subseteq StopState
    BY <2>1, <2>2 DEF TypeOK
  <2>4. list' \in ListState
    BY <1>4 DEF Deactivate, TypeOK, ListState
  <2>. QED  BY <1>4, <2>3, <2>4 DEF Deactivate, api, TypeOK
<1>5. ASSUME NEW c \in stopping, DeactivateEnds(c) PROVE TypeOK'
  <2>1. stopping' \subseteq StopState
    BY <1>5, StopsTyped DEF DeactivateEnds, TypeOK
  <2>. QED  BY <1>5, <2>1, ReloadTyped DEF DeactivateEnds, api, TypeOK
<1>. QED  BY <1>1, <1>2, <1>3, <1>4, <1>5 DEF MembersTable

LEMMA InviteModalTypeOK == ASSUME TypeOK, InviteModal PROVE TypeOK'
<1>1. CASE ToggleForm
  <2>1. form' \in FormState
    BY <1>1 DEF ToggleForm, TypeOK, FormState
  <2>. QED  BY <1>1, <2>1 DEF ToggleForm, api, TypeOK
<1>2. ASSUME NEW e \in Emails, Submit(e) PROVE TypeOK'
  <2>1. PICK n \in New(form.posting) :
           form' = [form EXCEPT !.submitting = TRUE, !.posting = @ \cup {[n |-> n, email |-> e]}]
    BY <1>2 DEF Submit
  <2>2. [n |-> n, email |-> e] \in [n: Numbers, email: Emails]
    BY <2>1 DEF New
  <2>3. form.posting \cup {[n |-> n, email |-> e]} \subseteq [n: Numbers, email: Emails]
    BY <2>2 DEF TypeOK, FormState
  <2>4. form' \in FormState
    BY <1>2, <2>1, <2>3 DEF TypeOK, FormState
  <2>. QED  BY <1>2, <2>4 DEF Submit, CreateDirectUser, TypeOK
<1>3. ASSUME NEW c \in form.posting, Created(c) PROVE TypeOK'
  <2>1. c.email \in Emails
    BY <1>3 DEF TypeOK, FormState
  <2>2. [list EXCEPT !.count[c.email] = @ + 1] \in ListState
    BY <2>1 DEF TypeOK, ListState
  <2>3. form' \in FormState
    BY <1>3 DEF Created, TypeOK, FormState
  <2>. QED  BY <1>3, <2>2, <2>3, ReloadTyped DEF Created, api, TypeOK
<1>. QED  BY <1>1, <1>2, <1>3 DEF InviteModal

LEMMA PermissionsModalTypeOK == ASSUME TypeOK, ModalHasItsMember, PermissionsModal PROVE TypeOK'
<1>1. CASE Cancel
  <2>1. form' \in FormState
    BY <1>1 DEF Cancel, TypeOK, FormState
  <2>. QED  BY <1>1, <2>1, NothingIsTyped DEF Cancel, api, TypeOK
<1>2. CASE Save
  <2>. DEFINE snd == modal.of = modal.id /\ list.catalog = Perms
              res == IF modal.id = Ghost THEN {} ELSE AsHeld(Overrides(modal))
              tch == IF snd THEN modal.touched ELSE {}
              Call(n) == [n |-> n, id |-> modal.id, sent |-> TRUE, awaited |-> TRUE,
                          sound |-> snd, result |-> res, touched |-> tch]
  <2>1. snd \in BOOLEAN /\ res \subseteq Perms /\ tch \subseteq Perms
    BY ConfigAssumption DEF AsHeld, Overrides, TypeOK, ModalState
  <2>2. modal.id \in Ids
    BY <1>2 DEF Save, ModalHasItsMember, TypeOK, ModalState
  <2>3. PICK n \in New(saving) :
           saving' = saving \cup {Call(n)}
    BY <1>2 DEF Save
  <2>. HIDE DEF snd, res, tch
  <2>4. Call(n) \in SaveState
    BY <2>1, <2>2, <2>3 DEF New, SaveState
  <2>. HIDE DEF Call
  <2>5. saving' \subseteq SaveState
    BY <2>3, <2>4 DEF TypeOK
  <2>6. modal' \in ModalState
    BY <1>2 DEF Save, TypeOK, ModalState
  <2>. QED  BY <1>2, <2>5, <2>6 DEF Save, api, TypeOK
<1>3. ASSUME NEW s \in saving, SaveEnds(s) PROVE TypeOK'
  <2>1. saving' \subseteq SaveState
    BY <1>3, SavesTyped DEF SaveEnds, TypeOK
  <2>. QED  BY <1>3, <2>1, NothingIsTyped, ReloadTyped DEF SaveEnds, api, TypeOK
<1>4. ASSUME NEW p \in Perms, Toggle(p) PROVE TypeOK'
  <2>1. modal' \in ModalState
    BY <1>4 DEF Toggle, TypeOK, ModalState
  <2>. QED  BY <1>4, <2>1 DEF Toggle, api, TypeOK
<1>. QED  BY <1>1, <1>2, <1>3, <1>4 DEF PermissionsModal

LEMMA TeamTypeOK == ASSUME TypeOK, ModalHasItsMember, TeamNext PROVE TypeOK'
<1>1. CASE RevokeInvitation
  BY <1>1, ReloadTyped DEF RevokeInvitation, api, TypeOK
<1>. QED
  BY <1>1, LoadTypeOK, MembersTableTypeOK, InviteModalTypeOK, PermissionsModalTypeOK
  DEF TeamNext

\* What is outdated keeps its type.
LEMMA OutdatedTyped ==
  ASSUME NEW m, NEW saves \in SUBSET SaveState, modal \in ModalState
  PROVE  Outdated(saves, m) \subseteq SaveState /\ OutdatedModal(m) \in ModalState
<1>1. Outdated(saves, m) \subseteq SaveState
  BY SavesTyped DEF Outdated
<1>2. Forgotten(modal) \in ModalState
  BY DEF Forgotten, ModalState
<1>. QED  BY <1>1, <1>2 DEF OutdatedModal

LEMMA ApiTypeOK == ASSUME TypeOK, ApiNext PROVE TypeOK'
<1>1. ASSUME NEW s \in saving, SaveReaches(s) PROVE TypeOK'
  <2>1. s \in SaveState /\ Reached(Spent(s)) \subseteq SaveState /\ saving \ {s} \subseteq SaveState
    BY SavesTyped DEF TypeOK
  <2>2. saving' \subseteq SaveState /\ modal' \in ModalState
    BY <1>1, <2>1, OutdatedTyped DEF SaveReaches, TypeOK
  <2>3. held' \in [Members -> SUBSET Perms]
    BY <1>1, <2>1 DEF SaveReaches, TypeOK, SaveState
  <2>. QED  BY <1>1, <2>2, <2>3 DEF SaveReaches, TypeOK
<1>2. ASSUME NEW s \in saving, SaveIsRefused(s) PROVE TypeOK'
  <2>1. saving' \subseteq SaveState
    BY <1>2, SavesTyped DEF SaveIsRefused, TypeOK
  <2>. QED  BY <1>2, <2>1 DEF SaveIsRefused, api, page, TypeOK
<1>3. ASSUME NEW c \in stopping, DeactivateReaches(c) PROVE TypeOK'
  <2>1. stopping' \subseteq StopState
    BY <1>3, StopsTyped DEF DeactivateReaches, TypeOK
  <2>. QED  BY <1>3, <2>1 DEF DeactivateReaches, page, TypeOK
<1>4. ASSUME NEW m \in Members, NEW p \in Perms, OtherChanges(m, p) PROVE TypeOK'
  <2>1. saving' \subseteq SaveState /\ modal' \in ModalState
    BY <1>4, OutdatedTyped DEF OtherChanges, TypeOK
  <2>2. held' \in [Members -> SUBSET Perms]
    BY <1>4 DEF OtherChanges, TypeOK
  <2>. QED  BY <1>4, <2>1, <2>2 DEF OtherChanges, TypeOK
<1>. QED  BY <1>1, <1>2, <1>3, <1>4 DEF ApiNext

(***************************************************************************)
(* The office pages: type correctness.                                     *)
(***************************************************************************)
LEMMA SettledTyped ==
  ASSUME NEW total \in Nat, NEW paid \in Int
  PROVE  /\ Settled(total, paid) \in [paid: Int, remaining: Nat, status: {"PARTIAL", "PAID"}]
         /\ Settled(total, paid).paid = paid
         /\ paid <= total => Settled(total, paid).remaining = total - paid
         /\ Settled(total, paid).status = "PAID" <=> Settled(total, paid).remaining = 0
  BY DEF Settled, Larger

LEMMA OpenedTypeOK ==
  ASSUME NEW inv, NEW pay, NEW cs, Opened(inv, pay, cs)
  PROVE  /\ inv \in [Invoices -> [paid: Int, remaining: Nat, status: {"PARTIAL", "PAID"}]]
         /\ pay \in Invoices \cup {NoInvoice}
         /\ cs \in Seq(Nat)
<1>1. \A i \in Invoices :
         Settled(Price[i], Paid0[i]) \in [paid: Int, remaining: Nat, status: {"PARTIAL", "PAID"}]
  BY BooksAssumption, SettledTyped
<1>. QED  BY <1>1 DEF Opened

LEMMA OfficeNextTypeOK == ASSUME OfficeTypeOK, OfficeNext PROVE OfficeTypeOK'
<1>1. ASSUME NEW i \in Invoices, OpenPayment(i) PROVE OfficeTypeOK'
  BY <1>1 DEF OpenPayment, OfficeTypeOK
<1>2. CASE ClosePayment
  BY <1>2 DEF ClosePayment, OfficeTypeOK
<1>3. ASSUME NEW amount \in Amounts, RecordPayment(amount) PROVE OfficeTypeOK'
  <2>1. paying \in Invoices /\ Price[paying] \in Nat /\ amount \in Int
    BY <1>3, BooksAssumption DEF RecordPayment, OfficeTypeOK
  <2>2. invoices[paying].paid \in Int
    BY <2>1 DEF OfficeTypeOK
  <2>. DEFINE new == Settled(Price[paying], invoices[paying].paid + amount)
  <2>3. new \in [paid: Int, remaining: Nat, status: {"PARTIAL", "PAID"}]
    <3>1. invoices[paying].paid + amount \in Int
      BY <2>1, <2>2
    <3>2. \A total \in Nat, paid \in Int :
             Settled(total, paid) \in [paid: Int, remaining: Nat, status: {"PARTIAL", "PAID"}]
      BY SettledTyped
    <3>. QED  BY <2>1, <3>1, <3>2
  <2>4. invoices' = [invoices EXCEPT ![paying] = new]
    BY <1>3 DEF RecordPayment
  <2>. HIDE DEF new
  <2>. QED  BY <1>3, <2>3, <2>4 DEF RecordPayment, OfficeTypeOK
<1>4. CASE AddClient
  BY <1>4 DEF AddClient, NextCode, OfficeTypeOK
<1>. QED  BY <1>1, <1>2, <1>3, <1>4 DEF OfficeNext, FinancePage

-----------------------------------------------------------------------------
(***************************************************************************)
(* The inductive invariant.  The team page: only while it is mounted does  *)
(* it show anything; what the modal shows of a member whose detail it was  *)
(* made from differs from what the member holds in clicked boxes alone,    *)
(* and so does, wherever the user is, each sound save under way.           *)
(***************************************************************************)
Fresh == Mounted(list, loads, opening, form, modal)

AtRestElsewhere == at # "team" => Fresh

ModalIsFaithful ==
    /\ ModalHasItsMember
    /\ modal.of # Nobody =>
          /\ modal.role = RolePerms
          /\ \A p \in Perms : (p \in held[modal.of]) # (p \in modal.effective) => p \in modal.touched

FaithfulSave(s) ==
    s.sound =>
        /\ s.id \in Members
        /\ \A p \in Perms : (p \in held[s.id]) # (p \in s.result) => p \in s.touched

SaveIsFaithful == \A s \in saving : FaithfulSave(s)

TeamInv == TypeOK /\ ModalIsFaithful /\ SaveIsFaithful /\ RowsAreUnique /\ CreatedAreListed

\* The office pages: what is being paid is owed, a code tells how many were before.
PayingOwes == paying # NoInvoice => invoices[paying].remaining > 0

CodesCount == \A i \in DOMAIN codes : codes[i] = 1001 + Len(codes) - i

OfficeInv ==
    /\ OfficeTypeOK
    /\ PayingOwes
    /\ BooksBalance
    /\ CodesCount

IInv == at \in Pages /\ AtRestElsewhere /\ TeamInv /\ OfficeInv

-----------------------------------------------------------------------------
(***************************************************************************)
(* Where the team page starts anew.                                        *)
(***************************************************************************)
LEMMA FreshTeamInv == TypeOK /\ Fresh /\ SaveIsFaithful => TeamInv
<1>. SUFFICES ASSUME TypeOK, Fresh, SaveIsFaithful PROVE TeamInv
  OBVIOUS
<1>1. loads = 1 /\ modal = NoModal
  BY DEF Fresh, Mounted
<1>2. ModalIsFaithful
  BY <1>1 DEF ModalIsFaithful, ModalHasItsMember, NoModal
<1>3. RowsAreUnique /\ CreatedAreListed
  BY <1>1 DEF RowsAreUnique, CreatedAreListed
<1>. QED  BY <1>2, <1>3 DEF TeamInv

\* A call that nobody awaits does what it did; one that has arrived, nothing.
LEMMA CallsStayFaithful ==
  ASSUME NEW s \in SaveState
  PROVE  /\ FaithfulSave(s) => \A u \in Answered(s) : FaithfulSave(u)
         /\ FaithfulSave(s) => FaithfulSave([s EXCEPT !.awaited = FALSE])
         /\ \A u \in Reached(Spent(s)) : FaithfulSave(u)
         /\ FaithfulSave(Unsound(s)) /\ Unsound(s).id = s.id
<1>1. FaithfulSave(s) => FaithfulSave([s EXCEPT !.awaited = FALSE])
  BY DEF SaveState, FaithfulSave
<1>2. ~Unsound(s).sound /\ Unsound(s).id = s.id
  BY DEF SaveState, Unsound
<1>3. \A u \in SaveState : ~u.sound => ~[u EXCEPT !.result = {}].sound
                                     /\ ~[[u EXCEPT !.result = {}] EXCEPT !.sent = FALSE].sound
  BY DEF SaveState
<1>4. Unsound(s) \in SaveState
  BY SavesTyped
<1>. QED  BY <1>1, <1>2, <1>3, <1>4 DEF Answered, Reached, Spent, FaithfulSave

LEMMA LoadTeamInv == ASSUME TeamInv, LoadSucceeds \/ LoadFails PROVE TeamInv'
<1>1. TypeOK'
  BY LoadTypeOK DEF TeamInv
<1>2. PICK known : list'.count = Merged(known)
  BY DEF LoadSucceeds, LoadFails
<1>3. UNCHANGED <<held, modal, saving, custom, form>>
  BY DEF LoadSucceeds, LoadFails, api
<1>4. \A e \in Emails : list'.count[e] \in {0, 1} /\ (e \in custom => list'.count[e] = 1)
  BY <1>2, MergedRows
<1>5. RowsAreUnique' /\ CreatedAreListed'
  BY <1>1, <1>3, <1>4 DEF RowsAreUnique, CreatedAreListed, TypeOK
<1>. QED  BY <1>1, <1>3, <1>5 DEF TeamInv, ModalIsFaithful, ModalHasItsMember, SaveIsFaithful, FaithfulSave

\* A step after which a load() is under way owes the list nothing.
LEMMA LoadingTeamInv ==
  ASSUME TeamInv, TypeOK', loads' = loads + 1, ModalIsFaithful', SaveIsFaithful'
  PROVE  TeamInv'
<1>1. loads' # 0
  BY DEF TeamInv, TypeOK
<1>. QED  BY <1>1 DEF TeamInv, RowsAreUnique, CreatedAreListed

\* A step that leaves the rows and the accounts of the browser alone.
LEMMA ListedTeamInv ==
  ASSUME TeamInv, TypeOK', list'.count = list.count,
         UNCHANGED <<loads, custom>>, form'.posting = form.posting,
         ModalIsFaithful', SaveIsFaithful'
  PROVE  TeamInv'
  BY DEF TeamInv, RowsAreUnique, CreatedAreListed

LEMMA SameFaithful ==
  ASSUME TeamInv, UNCHANGED <<held, modal>> PROVE ModalIsFaithful'
  BY DEF TeamInv, ModalIsFaithful, ModalHasItsMember

LEMMA SameSaves ==
  ASSUME TeamInv, UNCHANGED <<held, saving>> PROVE SaveIsFaithful'
  BY DEF TeamInv, SaveIsFaithful, FaithfulSave

\* What a modal becomes when a detail comes.
LEMMA EditFaithful ==
  ASSUME TeamInv, NEW id \in Ids, NEW role, NEW effective, NEW known \in BOOLEAN,
         known => role = RolePerms, Edit(id, role, effective, known), held' = held
  PROVE  ModalIsFaithful'
<1>1. Nobody \notin Ids
  BY ConfigAssumption DEF Ids, Nobody, Ghost
<1>2. modal \in ModalState
  BY DEF TeamInv, TypeOK
<1>3. CASE modal = NoModal
  <2>1. /\ modal'.id = id /\ modal'.role = role /\ modal'.effective = effective
        /\ modal'.of = IF known /\ effective = held[id] THEN id ELSE Nobody
    BY <1>3 DEF Edit
  <2>. QED  BY <1>1, <2>1 DEF ModalIsFaithful, ModalHasItsMember
<1>4. CASE modal # NoModal
  <2>1. /\ modal'.id = id /\ modal'.role = role /\ modal'.effective = modal.effective
        /\ modal'.of = (IF known THEN modal.of ELSE Nobody)
        /\ modal'.touched = (IF known THEN modal.touched ELSE {})
    BY <1>2, <1>4 DEF Edit, Forgotten, ModalState
  <2>. QED  BY <1>1, <2>1 DEF TeamInv, ModalIsFaithful, ModalHasItsMember
<1>. QED  BY <1>3, <1>4

LEMMA MembersTableTeamInv == ASSUME TeamInv, MembersTable PROVE TeamInv'
<1>1. TypeOK'
  BY MembersTableTypeOK DEF TeamInv
<1>2. UNCHANGED <<held, saving>>
  BY DEF MembersTable, ClickPermissions, Deactivate, DetailArrives, DetailIsMadeUp, DeactivateEnds, api
<1>3. SaveIsFaithful'
  BY <1>2, SameSaves
<1>4. ASSUME NEW id \in Ids, ClickPermissions(id) \/ Deactivate(id) PROVE TeamInv'
  <2>1. /\ UNCHANGED <<modal, loads, custom, form>> /\ list'.count = list.count
    BY <1>4 DEF ClickPermissions, Deactivate, api, TeamInv, TypeOK, ListState
  <2>. QED  BY <1>1, <1>2, <1>3, <2>1, SameFaithful, ListedTeamInv
<1>5. ASSUME NEW c \in opening, DetailArrives(c) PROVE TeamInv'
  <2>1. PICK seen \in SUBSET Perms : Edit(c.id, RolePerms, seen, TRUE)
    BY <1>5 DEF DetailArrives
  <2>2. c.id \in Ids
    BY <1>5 DEF DetailArrives, Ids
  <2>3. ModalIsFaithful'
    BY <1>2, <2>1, <2>2, EditFaithful
  <2>. QED  BY <1>1, <1>3, <1>5, <2>3, ListedTeamInv DEF DetailArrives, api
<1>6. ASSUME NEW c \in opening, DetailIsMadeUp(c) PROVE TeamInv'
  <2>1. c.id \in Ids
    BY <1>6 DEF TeamInv, TypeOK
  <2>2. ModalIsFaithful'
    BY <1>2, <1>6, <2>1, EditFaithful DEF DetailIsMadeUp
  <2>. QED  BY <1>1, <1>3, <1>6, <2>2, ListedTeamInv DEF DetailIsMadeUp, api
<1>7. ASSUME NEW c \in stopping, DeactivateEnds(c) PROVE TeamInv'
  <2>1. ModalIsFaithful'
    BY <1>2, <1>7, SameFaithful DEF DeactivateEnds
  <2>. QED  BY <1>1, <1>3, <1>7, <2>1, LoadingTeamInv DEF DeactivateEnds, Reload
<1>. QED  BY <1>4, <1>5, <1>6, <1>7 DEF MembersTable

LEMMA InviteModalTeamInv == ASSUME TeamInv, InviteModal PROVE TeamInv'
<1>1. TypeOK'
  BY InviteModalTypeOK DEF TeamInv
<1>2. UNCHANGED <<held, modal, saving>>
  BY DEF InviteModal, ToggleForm, Submit, Created, api
<1>3. ModalIsFaithful' /\ SaveIsFaithful'
  BY <1>2, SameFaithful, SameSaves
<1>4. CASE ToggleForm
  <2>1. form'.posting = form.posting
    BY <1>4 DEF ToggleForm, TeamInv, TypeOK, FormState
  <2>. QED  BY <1>1, <1>3, <1>4, <2>1, ListedTeamInv DEF ToggleForm, api
<1>5. ASSUME NEW e \in Emails, Submit(e) PROVE TeamInv'
  <2>1. form'.posting # {}
    BY <1>5 DEF Submit, TeamInv, TypeOK, FormState
  <2>. QED  BY <1>1, <1>3, <1>5, <2>1 DEF Submit, TeamInv, RowsAreUnique, CreatedAreListed
<1>6. ASSUME NEW c \in form.posting, Created(c) PROVE TeamInv'
  BY <1>1, <1>3, <1>6, LoadingTeamInv DEF Created, Reload
<1>. QED  BY <1>4, <1>5, <1>6 DEF InviteModal

\* What the modal sends of the boxes it shows for a member of the API.
LEMMA OverridesGiveBack ==
  ASSUME TypeOK, list.catalog = Perms, modal.role = RolePerms
  PROVE  AsHeld(Overrides(modal)) = modal.effective
  BY ConfigAssumption DEF AsHeld, Overrides, TypeOK, ModalState

LEMMA PermissionsModalTeamInv == ASSUME TeamInv, PermissionsModal PROVE TeamInv'
<1>1. TypeOK'
  BY PermissionsModalTypeOK DEF TeamInv, ModalIsFaithful
<1>2. held' = held
  BY DEF PermissionsModal, Cancel, Save, SaveEnds, Toggle, api
<1>3. ASSUME modal' = NoModal PROVE ModalIsFaithful'
  BY <1>3 DEF ModalIsFaithful, ModalHasItsMember, NoModal
<1>4. CASE Cancel
  <2>1. form'.posting = form.posting
    BY <1>4 DEF Cancel, TeamInv, TypeOK, FormState
  <2>2. ModalIsFaithful' /\ SaveIsFaithful'
    BY <1>2, <1>3, <1>4, SameSaves DEF Cancel
  <2>. QED  BY <1>1, <1>4, <2>1, <2>2, ListedTeamInv DEF Cancel, api
<1>5. CASE Save
  <2>1. /\ modal'.id = modal.id /\ modal'.of = modal.of /\ modal'.role = modal.role
        /\ modal'.effective = modal.effective /\ modal'.touched = modal.touched
    BY <1>5 DEF Save, TeamInv, TypeOK, ModalState
  <2>2. modal # NoModal /\ modal.id # Nobody
    BY <1>5 DEF Save, TeamInv, ModalIsFaithful, ModalHasItsMember
  <2>3. ModalIsFaithful'
    BY <1>2, <2>1, <2>2 DEF TeamInv, ModalIsFaithful, ModalHasItsMember
  <2>4. SaveIsFaithful'
    <3>. DEFINE snd == modal.of = modal.id /\ list.catalog = Perms
                res == IF modal.id = Ghost THEN {} ELSE AsHeld(Overrides(modal))
                tch == IF snd THEN modal.touched ELSE {}
                Call(n) == [n |-> n, id |-> modal.id, sent |-> TRUE, awaited |-> TRUE,
                            sound |-> snd, result |-> res, touched |-> tch]
    <3>1. PICK n \in New(saving) : saving' = saving \cup {Call(n)}
      BY <1>5 DEF Save
    <3>2. ASSUME snd
          PROVE  /\ modal.id \in Members
                 /\ \A p \in Perms : (p \in held[modal.id]) # (p \in res) => p \in tch
      <4>1. modal.of = modal.id /\ list.catalog = Perms /\ modal.of # Nobody
        BY <2>2, <3>2
      <4>2. modal.of \in Members /\ modal.id # Ghost
        BY <4>1, ConfigAssumption DEF TeamInv, TypeOK, ModalState, Ghost
      <4>3. /\ modal.role = RolePerms
            /\ \A p \in Perms : (p \in held[modal.of]) # (p \in modal.effective) => p \in modal.touched
        BY <4>1 DEF TeamInv, ModalIsFaithful, ModalHasItsMember
      <4>4. res = modal.effective /\ tch = modal.touched
        BY <3>2, <4>1, <4>2, <4>3, OverridesGiveBack DEF TeamInv
      <4>. QED  BY <4>1, <4>2, <4>3, <4>4
    <3>3. /\ Call(n).sound = snd /\ Call(n).id = modal.id
          /\ Call(n).result = res /\ Call(n).touched = tch
      OBVIOUS
    <3>. HIDE DEF snd, res, tch, Call
    <3>4. ASSUME NEW s, s = Call(n) PROVE FaithfulSave(s)
      BY <3>2, <3>3, <3>4 DEF FaithfulSave
    <3>5. \A s \in saving \cup {Call(n)} : FaithfulSave(s)
      BY <3>4 DEF TeamInv, SaveIsFaithful
    <3>. QED  BY <1>2, <3>1, <3>5 DEF SaveIsFaithful, FaithfulSave
  <2>. QED  BY <1>1, <1>5, <2>3, <2>4, ListedTeamInv DEF Save, api
<1>6. ASSUME NEW s \in saving, SaveEnds(s) PROVE TeamInv'
  <2>1. \A u \in (saving \ {s}) \cup Answered(s) : FaithfulSave(u)
    BY CallsStayFaithful DEF TeamInv, TypeOK, SaveIsFaithful
  <2>2. SaveIsFaithful'
    BY <1>2, <1>6, <2>1 DEF SaveEnds, SaveIsFaithful, FaithfulSave
  <2>. QED  BY <1>1, <1>3, <1>6, <2>2, LoadingTeamInv DEF SaveEnds, Reload
<1>7. ASSUME NEW p \in Perms, Toggle(p) PROVE TeamInv'
  <2>1. /\ modal'.id = modal.id /\ modal'.of = modal.of /\ modal'.role = modal.role
        /\ modal'.touched = (IF modal.of = Nobody THEN {} ELSE modal.touched \cup {p})
        /\ \A q \in Perms \ {p} : q \in modal'.effective <=> q \in modal.effective
    BY <1>7 DEF Toggle, TeamInv, TypeOK, ModalState
  <2>2. modal # NoModal /\ modal.id # Nobody
    BY <1>7 DEF Toggle, TeamInv, ModalIsFaithful, ModalHasItsMember
  <2>3. ModalIsFaithful'
    BY <1>2, <2>1, <2>2 DEF TeamInv, ModalIsFaithful, ModalHasItsMember
  <2>. QED  BY <1>1, <1>2, <1>7, <2>3, SameSaves, ListedTeamInv DEF Toggle, api
<1>. QED  BY <1>4, <1>5, <1>6, <1>7 DEF PermissionsModal

LEMMA TeamNextTeamInv == ASSUME TeamInv, TeamNext PROVE TeamInv'
<1>1. TypeOK'
  BY TeamTypeOK DEF TeamInv, ModalIsFaithful
<1>2. CASE RevokeInvitation
  BY <1>1, <1>2, SameFaithful, SameSaves, LoadingTeamInv DEF RevokeInvitation, Reload, api
<1>. QED
  BY <1>2, LoadTeamInv, MembersTableTeamInv, InviteModalTeamInv, PermissionsModalTeamInv
  DEF TeamNext

\* Whoever changes what m holds: what was made from it is outdated.
LEMMA ChangedFaithful ==
  ASSUME TeamInv, NEW m \in Members, \A n \in Members \ {m} : held'[n] = held[n],
         modal' = OutdatedModal(m)
  PROVE  /\ ModalIsFaithful'
         /\ \A s \in Outdated(saving, m) : FaithfulSave(s)'
<1>1. Nobody \notin Members /\ modal \in ModalState
  BY ConfigAssumption DEF Nobody, TeamInv, TypeOK
<1>2. ModalIsFaithful'
  <2>1. CASE modal.of = m
    <3>1. modal'.of = Nobody /\ modal'.id = modal.id
      BY <1>1, <2>1 DEF OutdatedModal, Forgotten, ModalState
    <3>2. modal.id # Nobody
      BY <1>1, <2>1 DEF TeamInv, ModalIsFaithful, ModalHasItsMember, NoModal
    <3>. QED  BY <3>1, <3>2 DEF ModalIsFaithful, ModalHasItsMember
  <2>2. CASE modal.of # m
    <3>1. modal' = modal /\ modal.of \in (Members \ {m}) \cup {Nobody}
      BY <1>1, <2>2 DEF OutdatedModal, ModalState
    <3>. QED  BY <3>1 DEF TeamInv, ModalIsFaithful, ModalHasItsMember
  <2>. QED  BY <2>1, <2>2
<1>3. ASSUME NEW s \in Outdated(saving, m) PROVE FaithfulSave(s)'
  <2>1. PICK u \in saving : s = IF u.id = m THEN Unsound(u) ELSE u
    BY DEF Outdated
  <2>2. u \in SaveState /\ FaithfulSave(u)
    BY DEF TeamInv, TypeOK, SaveIsFaithful
  <2>3. CASE u.id = m
    <3>1. ~s.sound
      BY <2>1, <2>2, <2>3 DEF Unsound, SaveState
    <3>. QED  BY <3>1 DEF FaithfulSave
  <2>4. CASE u.id # m
    BY <2>1, <2>2, <2>4 DEF FaithfulSave
  <2>. QED  BY <2>3, <2>4
<1>. QED  BY <1>2, <1>3

LEMMA ApiTeamInv == ASSUME TeamInv, ApiNext PROVE TeamInv'
<1>1. TypeOK'
  BY ApiTypeOK DEF TeamInv
<1>2. UNCHANGED <<list, loads, custom, form>>
  BY DEF ApiNext, SaveReaches, SaveIsRefused, DeactivateReaches, OtherChanges, api, page
<1>3. ASSUME NEW s \in saving, SaveReaches(s) PROVE TeamInv'
  <2>1. /\ s \in SaveState /\ s.id \in Members /\ modal' = OutdatedModal(s.id)
        /\ \A n \in Members \ {s.id} : held'[n] = held[n]
    BY <1>3 DEF SaveReaches, TeamInv, TypeOK
  <2>2. ModalIsFaithful' /\ \A u \in Outdated(saving, s.id) : FaithfulSave(u)'
    BY <2>1, ChangedFaithful
  <2>3. \A u \in Outdated(saving \ {s}, s.id) : u \in Outdated(saving, s.id)
    BY DEF Outdated
  <2>4. \A u \in Reached(Spent(s)) : ~u.sound
    <3>1. Spent(s) \in SaveState /\ ~Spent(s).sound
      BY <2>1 DEF SaveState, Spent, Unsound
    <3>. QED  BY <3>1 DEF SaveState, Reached
  <2>5. SaveIsFaithful'
    BY <1>3, <2>2, <2>3, <2>4 DEF SaveReaches, SaveIsFaithful, FaithfulSave
  <2>. QED  BY <1>1, <1>2, <2>2, <2>5, ListedTeamInv
<1>4. ASSUME NEW s \in saving, SaveIsRefused(s) PROVE TeamInv'
  <2>1. \A u \in (saving \ {s}) \cup Reached(Spent(s)) : FaithfulSave(u)
    BY CallsStayFaithful DEF TeamInv, TypeOK, SaveIsFaithful
  <2>2. UNCHANGED <<held, modal>>
    BY <1>4 DEF SaveIsRefused, api, page
  <2>3. SaveIsFaithful'
    BY <1>4, <2>1, <2>2 DEF SaveIsRefused, SaveIsFaithful, FaithfulSave
  <2>. QED  BY <1>1, <1>2, <2>2, <2>3, SameFaithful, ListedTeamInv
<1>5. ASSUME NEW c \in stopping, DeactivateReaches(c) PROVE TeamInv'
  BY <1>1, <1>2, <1>5, SameFaithful, SameSaves, ListedTeamInv DEF DeactivateReaches, page
<1>6. ASSUME NEW m \in Members, NEW p \in Perms, OtherChanges(m, p) PROVE TeamInv'
  <2>1. modal' = OutdatedModal(m) /\ \A n \in Members \ {m} : held'[n] = held[n]
    BY <1>6 DEF OtherChanges, TeamInv, TypeOK
  <2>2. ModalIsFaithful' /\ SaveIsFaithful'
    BY <1>6, <2>1, ChangedFaithful DEF OtherChanges, SaveIsFaithful
  <2>. QED  BY <1>1, <1>2, <2>2, ListedTeamInv
<1>. QED  BY <1>3, <1>4, <1>5, <1>6 DEF ApiNext

\* No page but the team page has a modal, so that nothing of it can be outdated.
LEMMA ApiLeavesFresh == ASSUME TypeOK, Fresh, ApiNext PROVE Fresh'
<1>1. modal.of = Nobody /\ Nobody \notin Members
  BY ConfigAssumption DEF Fresh, Mounted, NoModal, Nobody
<1>2. UNCHANGED <<list, loads, opening, form, modal>>
  BY <1>1
  DEF ApiNext, SaveReaches, SaveIsRefused, DeactivateReaches, OtherChanges, OutdatedModal, page
<1>. QED  BY <1>2 DEF Fresh, Mounted

-----------------------------------------------------------------------------
(***************************************************************************)
(* The office pages.                                                       *)
(***************************************************************************)
LEMMA InitOfficeInv == OfficeInit => OfficeInv
<1>. SUFFICES ASSUME OfficeInit PROVE OfficeInv
  OBVIOUS
<1>1. OfficeTypeOK
  BY OpenedTypeOK DEF OfficeInit, OfficeTypeOK
<1>2. PayingOwes
  BY DEF OfficeInit, Opened, PayingOwes
<1>3. BooksBalance
  <2>. SUFFICES ASSUME NEW i \in Invoices
                PROVE  /\ invoices[i].paid + invoices[i].remaining = Price[i]
                       /\ (invoices[i].status = "PAID") <=> (invoices[i].remaining = 0)
    BY DEF BooksBalance
  <2>1. invoices[i] = Settled(Price[i], Paid0[i])
    BY DEF OfficeInit, Opened
  <2>2. Price[i] \in Nat /\ Paid0[i] \in Nat /\ Paid0[i] <= Price[i]
    BY BooksAssumption
  <2>. QED  BY <2>1, <2>2, SettledTyped
<1>4. CodesCount
  BY DEF OfficeInit, Opened, CodesCount
<1>. QED  BY <1>1, <1>2, <1>3, <1>4 DEF OfficeInv

\* Who leaves a page finds it as it was at first.
LEMMA LeaveOfficeInv == Leave => OfficeInv'
<1>1. OfficeInit' => OfficeInv'
  BY InitOfficeInv, PTL
<1>2. Leave => OfficeInit'
  BY DEF Leave, OfficeInit
<1>. QED  BY <1>1, <1>2

\* A payment that the form accepts leaves no invoice overpaid.
LEMMA RecordPaymentBalances ==
  ASSUME OfficeInv, NEW amount \in Amounts, RecordPayment(amount)
  PROVE  BooksBalance'
<1>. DEFINE i == paying  new == Settled(Price[i], invoices[i].paid + amount)
<1>1. i \in Invoices /\ Price[i] \in Nat /\ amount \in Int
  BY BooksAssumption DEF RecordPayment, OfficeInv, OfficeTypeOK
<1>2. invoices[i].paid \in Int /\ invoices[i].remaining \in Nat
  BY <1>1 DEF OfficeInv, OfficeTypeOK
<1>3. invoices[i].paid + amount <= Price[i]
  <2>1. invoices[i].paid + invoices[i].remaining = Price[i] /\ amount <= invoices[i].remaining
    BY <1>1 DEF RecordPayment, Accepted, OfficeInv, BooksBalance
  <2>. QED  BY <1>1, <1>2, <2>1
<1>4. /\ new.paid + new.remaining = Price[i]
      /\ (new.status = "PAID") <=> (new.remaining = 0)
  <2>. DEFINE sum == invoices[i].paid + amount
  <2>1. sum \in Int /\ sum <= Price[i]
    BY <1>1, <1>2, <1>3
  <2>. HIDE DEF sum
  <2>2. /\ Settled(Price[i], sum).paid = sum
        /\ Settled(Price[i], sum).remaining = Price[i] - sum
        /\ (Settled(Price[i], sum).status = "PAID") <=> (Settled(Price[i], sum).remaining = 0)
    BY <1>1, <2>1, SettledTyped
  <2>3. sum + (Price[i] - sum) = Price[i]
    BY <1>1, <2>1
  <2>4. new = Settled(Price[i], sum)
    BY DEF sum
  <2>. HIDE DEF new
  <2>. QED  BY <2>2, <2>3, <2>4
<1>5. invoices' = [invoices EXCEPT ![i] = new]
  BY DEF RecordPayment
<1>. HIDE DEF new
<1>. QED  BY <1>1, <1>4, <1>5 DEF OfficeInv, OfficeTypeOK, BooksBalance

LEMMA OfficeNextOfficeInv == ASSUME OfficeInv, OfficeNext PROVE OfficeInv'
<1>1. OfficeTypeOK'
  BY OfficeNextTypeOK DEF OfficeInv
<1>2. ASSUME NEW i \in Invoices, OpenPayment(i) PROVE OfficeInv'
  BY <1>1, <1>2
  DEF OpenPayment, Payable, OfficeInv, PayingOwes, BooksBalance, CodesCount
<1>3. CASE ClosePayment
  BY <1>1, <1>3
  DEF ClosePayment, OfficeInv, PayingOwes, BooksBalance, CodesCount
<1>4. ASSUME NEW amount \in Amounts, RecordPayment(amount) PROVE OfficeInv'
  <2>1. BooksBalance'
    BY <1>4, RecordPaymentBalances
  <2>2. PayingOwes' /\ CodesCount'
    BY <1>4 DEF RecordPayment, OfficeInv, PayingOwes, CodesCount
  <2>. QED  BY <1>1, <2>1, <2>2 DEF OfficeInv
<1>5. CASE AddClient
  <2>1. CodesCount'
    <3>. DEFINE c == NextCode(codes)
    <3>1. codes \in Seq(Nat) /\ c \in Nat /\ c = 1001 + Len(codes)
      BY DEF OfficeInv, OfficeTypeOK, NextCode
    <3>2. codes' = <<c>> \o codes
      BY <1>5 DEF AddClient
    <3>. HIDE DEF c
    <3>3. Len(codes') = Len(codes) + 1 /\ codes'[1] = c
      BY <3>1, <3>2
    <3>4. ASSUME NEW i \in 2 .. Len(codes') PROVE codes'[i] = codes[i - 1] /\ i - 1 \in 1 .. Len(codes)
      BY <3>1, <3>2, <3>3
    <3>5. \A i \in 1 .. Len(codes) : codes[i] = 1001 + Len(codes) - i
      BY <3>1 DEF OfficeInv, CodesCount
    <3>6. ASSUME NEW i \in 1 .. Len(codes') PROVE codes'[i] = 1001 + Len(codes') - i
      <4>1. CASE i = 1
        BY <3>1, <3>3, <4>1
      <4>2. CASE i \in 2 .. Len(codes')
        BY <3>1, <3>3, <3>4, <3>5, <4>2
      <4>. QED  BY <3>1, <3>3, <4>1, <4>2
    <3>7. DOMAIN codes' = 1 .. Len(codes')
      BY <1>1 DEF OfficeTypeOK
    <3>. QED  BY <3>6, <3>7 DEF CodesCount
  <2>2. PayingOwes' /\ BooksBalance'
    BY <1>5 DEF AddClient, OfficeInv, PayingOwes, BooksBalance
  <2>. QED  BY <1>1, <2>1, <2>2 DEF OfficeInv
<1>. QED  BY <1>2, <1>3, <1>4, <1>5 DEF OfficeNext, FinancePage

-----------------------------------------------------------------------------
(***************************************************************************)
(* The dashboard.                                                          *)
(***************************************************************************)
LEMMA InitIInv == Init => IInv
<1>. SUFFICES ASSUME Init PROVE IInv
  OBVIOUS
<1>1. TypeOK /\ Fresh /\ SaveIsFaithful
  BY InitTeamTypeOK DEF Init, TeamInit, Fresh, SaveIsFaithful
<1>. QED  BY <1>1, FreshTeamInv, InitOfficeInv DEF Init, IInv, AtRestElsewhere, Pages

LEMMA GoIInv == ASSUME IInv, NEW to \in Pages, Go(to) PROVE IInv'
<1>1. TypeOK'
  <2>1. /\ list' \in ListState /\ loads' \in Nat /\ opening' \subseteq [n: Numbers, id: Ids]
        /\ form' \in FormState /\ modal' \in ModalState
    BY MountedTypeOK DEF Go
  <2>2. stopping' \subseteq StopState /\ saving' \subseteq SaveState
    BY StopsTyped, SavesTyped DEF Go, Abandoned, IInv, TeamInv, TypeOK
  <2>. QED  BY <2>1, <2>2 DEF Go, api, IInv, TeamInv, TypeOK
<1>2. Fresh'
  BY DEF Go, Fresh
<1>3. SaveIsFaithful'
  <2>1. \A s \in Abandoned(saving) : FaithfulSave(s)
    BY CallsStayFaithful DEF Abandoned, IInv, TeamInv, TypeOK, SaveIsFaithful
  <2>. QED  BY <2>1 DEF Go, api, SaveIsFaithful, FaithfulSave
<1>4. TypeOK' /\ Fresh' /\ SaveIsFaithful' => TeamInv'
  BY FreshTeamInv, PTL
<1>5. OfficeInv'
  BY LeaveOfficeInv DEF Go
<1>. QED  BY <1>1, <1>2, <1>3, <1>4, <1>5 DEF Go, IInv, AtRestElsewhere

LEMMA HomeSubmitIInv == ASSUME IInv, at = "home", NEW e \in Emails, HomeSubmit(e) PROVE IInv'
<1>1. TypeOK'
  BY DEF HomeSubmit, CreateDirectUser, page, IInv, TeamInv, TypeOK
<1>2. Fresh'
  BY DEF HomeSubmit, page, IInv, AtRestElsewhere, Fresh
<1>3. SaveIsFaithful'
  BY SameSaves DEF HomeSubmit, IInv
<1>4. TypeOK' /\ Fresh' /\ SaveIsFaithful' => TeamInv'
  BY FreshTeamInv, PTL
<1>5. OfficeInv'
  BY DEF HomeSubmit, officeVars, IInv, OfficeInv, OfficeTypeOK, PayingOwes, BooksBalance,
         CodesCount
<1>. QED  BY <1>1, <1>2, <1>3, <1>4, <1>5 DEF HomeSubmit, IInv, AtRestElsewhere

LEMMA ApiIInv == ASSUME IInv, ApiNext, UNCHANGED <<at, officeVars>> PROVE IInv'
<1>1. TeamInv'
  BY ApiTeamInv DEF IInv
<1>2. AtRestElsewhere'
  BY ApiLeavesFresh DEF IInv, TeamInv, AtRestElsewhere
<1>3. OfficeInv'
  BY DEF officeVars, IInv, OfficeInv, OfficeTypeOK, PayingOwes, BooksBalance, CodesCount
<1>. QED  BY <1>1, <1>2, <1>3 DEF IInv

LEMMA NextIInv == IInv /\ [Next]_vars => IInv'
<1> SUFFICES ASSUME IInv, [Next]_vars PROVE IInv'
  OBVIOUS
<1>1. UNCHANGED officeVars => OfficeInv'
  BY DEF officeVars, IInv, OfficeInv, OfficeTypeOK, PayingOwes, BooksBalance, CodesCount
<1>2. UNCHANGED <<at, teamVars>> => at' \in Pages /\ AtRestElsewhere' /\ TeamInv'
  BY DEF teamVars, IInv, AtRestElsewhere, Fresh, TeamInv, TypeOK, ModalIsFaithful, ModalHasItsMember, SaveIsFaithful,
         FaithfulSave, RowsAreUnique, CreatedAreListed
<1>3. CASE at = "team" /\ TeamNext /\ UNCHANGED <<at, officeVars>>
  BY <1>1, <1>3, TeamNextTeamInv DEF IInv, AtRestElsewhere
<1>4. CASE OfficeNext /\ UNCHANGED <<at, teamVars>>
  BY <1>2, <1>4, OfficeNextOfficeInv DEF IInv
<1>5. CASE UNCHANGED vars
  BY <1>1, <1>2, <1>5 DEF vars, IInv
<1>. QED  BY <1>3, <1>4, <1>5, GoIInv, HomeSubmitIInv, ApiIInv DEF Next

LEMMA SpecIInv == Spec => []IInv
  BY InitIInv, NextIInv, PTL DEF Spec

\* Nothing that an answer, late or made up, brings to a page breaks its state.
THEOREM TypeCorrect == Spec => []DashboardTypeOK
<1>1. IInv => DashboardTypeOK
  BY DEF IInv, TeamInv, OfficeInv, DashboardTypeOK
<1>. QED  BY <1>1, SpecIInv, PTL

\* load() and onDone: a page at rest shows each address once.
THEOREM RowsAreAlwaysUnique == Spec => []RowsAreUnique
<1>1. IInv => RowsAreUnique
  BY DEF IInv, TeamInv
<1>. QED  BY <1>1, SpecIInv, PTL

\* A page at rest shows every account that was created, however its loads overlap.
THEOREM CreatedAreAlwaysListed == Spec => []CreatedAreListed
<1>1. IInv => CreatedAreListed
  BY DEF IInv, TeamInv
<1>. QED  BY <1>1, SpecIInv, PTL

\* FinancePage: the books balance whatever integers are entered.
THEOREM BooksAlwaysBalance == Spec => []BooksBalance
<1>1. IInv => BooksBalance
  BY DEF IInv, OfficeInv
<1>. QED  BY <1>1, SpecIInv, PTL

\* CrmPage: however many clients there are, no two have one code.
THEOREM CodesAreAlwaysUnique == Spec => []CodesAreUnique
<1>1. IInv => CodesAreUnique
  <2>. SUFFICES ASSUME IInv, NEW i \in DOMAIN codes, NEW j \in DOMAIN codes, codes[i] = codes[j]
                PROVE  i = j
    BY DEF CodesAreUnique
  <2>1. codes \in Seq(Nat) /\ codes[i] = 1001 + Len(codes) - i /\ codes[j] = 1001 + Len(codes) - j
    BY DEF IInv, OfficeInv, OfficeTypeOK, CodesCount
  <2>2. Len(codes) \in Nat /\ i \in 1 .. Len(codes) /\ j \in 1 .. Len(codes)
    BY <2>1
  <2>. DEFINE n == Len(codes)  x == codes[i]
  <2>3. n \in Nat /\ i \in 1 .. n /\ j \in 1 .. n
    BY <2>2
  <2>4. x = 1001 + n - i
    BY <2>1
  <2>5. x = 1001 + n - j
    BY <2>1
  <2>. HIDE DEF n, x
  <2>6. i \in Nat /\ j \in Nat
    BY <2>3
  <2>. QED  BY ONLY <2>3, <2>4, <2>5, <2>6
<1>. QED  BY <1>1, SpecIInv, PTL

\* FinancePage: no payment reaches an invoice that is paid.
THEOREM PaidStaysPaid == Spec => PaidIsPaid
<1>. DEFINE P == \A i \in Invoices : invoices[i].status = "PAID" => invoices'[i] = invoices[i] \/ Leave
<1>1. ASSUME IInv, [Next]_vars PROVE [P]_officeVars
  <2>1. ASSUME NEW amount \in Amounts, RecordPayment(amount), NEW i \in Invoices,
               invoices[i].status = "PAID"
        PROVE  invoices'[i] = invoices[i]
    <3>1. invoices[i].remaining = 0 /\ ~(0 > 0)
      BY <1>1, <2>1 DEF IInv, OfficeInv, BooksBalance
    <3>2. i # paying
      BY <1>1, <2>1, <3>1 DEF RecordPayment, IInv, OfficeInv, PayingOwes
    <3>. QED  BY <1>1, <2>1, <3>2 DEF RecordPayment, IInv, OfficeInv, OfficeTypeOK
  <2>2. CASE OfficeNext
    BY <2>1, <2>2
    DEF OfficeNext, FinancePage, OpenPayment, ClosePayment, AddClient
  <2>3. CASE UNCHANGED officeVars
    BY <2>3
  <2>. QED  BY <1>1, <2>2, <2>3 DEF Next, Go, HomeSubmit, vars
<1>. QED  BY <1>1, SpecIInv, PTL DEF Spec, PaidIsPaid

\* PermissionsModal: for any catalogue, role and overrides, whatever boxes are
\* clicked, however often the modal is closed and opened and the page left, and
\* however late a PUT arrives, a sound save changes nothing else.
THEOREM SavesAlwaysChangeWhatWasTouched == Spec => SavesChangeWhatWasTouched
<1>. DEFINE S == \A s \in saving :
          s.sound /\ SaveReaches(s)
             => \A p \in Perms : (p \in held[s.id]) # (p \in held'[s.id]) => p \in s.touched
<1>1. IInv => [S]_teamVars
  <2>. SUFFICES ASSUME IInv, NEW s \in saving, s.sound, SaveReaches(s),
                       NEW p \in Perms, (p \in held[s.id]) # (p \in held'[s.id])
                PROVE  p \in s.touched
    OBVIOUS
  <2>1. s.id \in Members /\ ((p \in held[s.id]) # (p \in s.result) => p \in s.touched)
    BY DEF IInv, TeamInv, SaveIsFaithful, FaithfulSave
  <2>2. held'[s.id] = s.result
    BY <2>1 DEF SaveReaches, IInv, TeamInv, TypeOK
  <2>. QED  BY <2>1, <2>2
<1>. QED  BY <1>1, SpecIInv, PTL DEF Spec, SavesChangeWhatWasTouched
=============================================================================
