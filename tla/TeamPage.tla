------------------------------ MODULE TeamPage ------------------------------
(***************************************************************************)
(* The team page of the dashboard (apps/web/src/app/dashboard/team), in    *)
(* one tab: the list of accounts, which joins the members that the API     *)
(* knows with the accounts kept in the browser, the form for a new         *)
(* account, and the permissions of a member, over an API whose answers may *)
(* fail before or after it has done what it was asked, and which another   *)
(* administrator uses at the same time.                                    *)
(*                                                                         *)
(* A member stands for a row whose id the API knows; Ghost for a row whose *)
(* id it does not: a demo member, or an account kept in the browser.       *)
(*                                                                         *)
(* A call that has been sent is not taken back: neither closing a modal    *)
(* nor leaving the page aborts it, so it may reach the API at any time     *)
(* after that.  sent says that it has not got there yet, awaited that the  *)
(* page which sent it still waits for its answer.                          *)
(***************************************************************************)
EXTENDS Naturals, FiniteSets

CONSTANTS
    Members,     \* the members of the tenant, none of them its owner
    Perms,       \* ALL_PERMISSION_CODES
    RolePerms,   \* those that the role of the members gives
    MockCatalog, \* MOCK_CATALOG
    MadeUpRole,  \* rolePermissions of the detail made up when the API fails
    MadeUpGrant, \* and the grant made up with it, finance.read
    Emails,      \* addresses that accounts can have
    Taken,       \* addresses of the members
    MaxCalls,    \* bound on the calls to the API under way at once
    MaxKept      \* bound on the accounts kept in the browser

ASSUME ConfigAssumption ==
    /\ RolePerms \subseteq Perms /\ MockCatalog \subseteq Perms
    /\ MadeUpRole \subseteq Perms /\ MadeUpGrant \subseteq Perms
    /\ Taken \subseteq Emails
    /\ "ghost" \notin Members /\ "nobody" \notin Members
    /\ MaxCalls \in Nat /\ MaxKept \in Nat

Ghost  == "ghost"
Nobody == "nobody"
Ids    == Members \cup {Ghost}

VARIABLES
    held,       \* API: per member, the permissions they hold
    active,     \* API: the members that are not suspended
    custom,     \* localStorage: addresses of the accounts kept in the browser
    list,       \* the page: members and catalogue as last loaded
    loads,      \* load()s under way
    opening,    \* openPermissions calls under way
    form,       \* InviteModal, the form for a new account, and what it has posted
    modal,      \* PermissionsModal
    stopping,   \* DELETEs under way, of MembersTable
    saving      \* PUTs under way, of PermissionsModal

api      == <<held, active, custom>>
page     == <<list, loads, opening, form, modal>>
teamVars == <<held, active, custom, list, loads, opening, form, modal, stopping, saving>>

\* Two calls that ask for the same are told apart by a number, the first that is
\* free.
Numbers == 1 .. MaxCalls

New(calls) ==
    LET free == {n \in Numbers : \A c \in calls : c.n # n}
    IN  {n \in free : \A m \in free : n <= m}

NoModal == [id |-> Nobody, role |-> {}, effective |-> {}, submitting |-> FALSE,
            of |-> Nobody, touched |-> {}]

\* count: how many rows each address has; rows: the ids among them, live: those
\* that are not shown as suspended; loading: the spinner; busy: of MembersTable.
EmptyList == [count |-> [e \in Emails |-> 0], rows |-> {}, live |-> {},
              catalog |-> {}, loading |-> TRUE, busy |-> Nobody]

ListState ==
    [count: [Emails -> Nat], rows: SUBSET Ids, live: SUBSET Ids,
     catalog: SUBSET Perms, loading: BOOLEAN, busy: Ids \cup {Nobody}]

FormState == [open: BOOLEAN, submitting: BOOLEAN, posting: SUBSET [n: Numbers, email: Emails]]

\* id and role come from the props, effective and submitting are the state of the
\* modal.  History: of remembers from whose detail that state was made, as long as
\* the member holds what it said, and it and the role were the API's; touched, the
\* boxes clicked since.
ModalState ==
    [id: Ids \cup {Nobody}, role: SUBSET Perms, effective: SUBSET Perms, submitting: BOOLEAN,
     of: Members \cup {Nobody}, touched: SUBSET Perms]

StopState == [n: Numbers, id: Ids, sent: BOOLEAN, awaited: BOOLEAN]

\* A save is held by what it would leave the member with; sound and touched are
\* history.
SaveState == [n: Numbers, id: Ids, result: SUBSET Perms, sent: BOOLEAN, awaited: BOOLEAN,
              sound: BOOLEAN, touched: SUBSET Perms]

\* Type correctness of the API, of the browser's storage, of the page and of the
\* calls under way.
TypeOK ==
    /\ held \in [Members -> SUBSET Perms]
    /\ active \subseteq Members /\ custom \subseteq Emails
    /\ list \in ListState
    /\ loads \in Nat
    /\ opening \subseteq [n: Numbers, id: Ids]
    /\ form \in FormState
    /\ modal \in ModalState
    /\ stopping \subseteq StopState
    /\ saving \subseteq SaveState

-----------------------------------------------------------------------------
\* The user does one thing more only while few calls are under way.
MayCall ==
    loads + Cardinality(opening) + Cardinality(form.posting)
        + Cardinality(stopping) + Cardinality(saving) < MaxCalls

\* What remains of a call that has reached the API, and of one whose answer, or
\* failure, has reached the page: fetch may reject while the request goes on.
Reached(c)  == IF c.awaited THEN {[c EXCEPT !.sent = FALSE]} ELSE {}
Answered(c) == IF c.sent THEN {[c EXCEPT !.awaited = FALSE]} ELSE {}

\* Those of a page that is no longer there.
Abandoned(calls) == {[c EXCEPT !.awaited = FALSE] : c \in {d \in calls : d.sent}}

\* What the page is when it is mounted: a first load() is under way.
Mounted(ofList, ofLoads, ofOpening, ofForm, ofModal) ==
    /\ ofList = EmptyList /\ ofLoads = 1 /\ ofOpening = {}
    /\ ofForm = [open |-> FALSE, submitting |-> FALSE, posting |-> {}]
    /\ ofModal = NoModal

TeamInit ==
    /\ held \in [Members -> {RolePerms, Perms}]
    /\ active = Members /\ custom = {}
    /\ Mounted(list, loads, opening, form, modal)
    /\ stopping = {} /\ saving = {}

-----------------------------------------------------------------------------
(* load() *)

\* Mutated: an account of the browser is listed beside the member of its address.
Appended(known) ==
    [e \in Emails |-> (IF e \in known THEN 1 ELSE 0) + (IF e \in custom THEN 1 ELSE 0)]

\* Mutated: the accounts of the browser are left out.
KnownAlone(known) == [e \in Emails |-> IF e \in known THEN 1 ELSE 0]

\* Mutated: only the addresses that have a row are counted.
RowsAlone(known) == [e \in known \cup custom |-> 1]

\* Of the accounts in the browser, those are listed whose address is not among
\* known.
Merged(known) == [e \in Emails |-> IF e \in known \cup custom THEN 1 ELSE 0]

LoadSucceeds ==
    LET ghosts == IF custom \subseteq Taken THEN {} ELSE {Ghost} IN
    /\ loads > 0 /\ loads' = loads - 1
    /\ list' = [count |-> Merged(Taken), rows |-> Members \cup ghosts, live |-> active \cup ghosts,
                catalog |-> Perms, loading |-> FALSE, busy |-> list.busy]
    /\ UNCHANGED <<api, opening, form, modal, stopping, saving>>

\* MOCK_CATALOG and MOCK_MEMBERS, and what the browser holds.
LoadFails ==
    /\ loads > 0 /\ loads' = loads - 1
    /\ list' = [count |-> Merged({}), rows |-> {Ghost}, live |-> {Ghost},
                catalog |-> MockCatalog, loading |-> FALSE, busy |-> list.busy]
    /\ UNCHANGED <<api, opening, form, modal, stopping, saving>>

\* onChanged, onDone: load() once more, from what is then in the list; the spinner
\* takes the place of the tables.
Reload(rows) ==
    /\ loads' = loads + 1
    /\ list' = [rows EXCEPT !.loading = TRUE, !.busy = Nobody]

\* The tables are shown but for the time of the spinner; a modal covers them.
Clickable == ~list.loading /\ modal = NoModal /\ ~form.open

-----------------------------------------------------------------------------
(* MembersTable *)

ClickPermissions(id) ==
    /\ Clickable /\ id \in list.rows /\ MayCall
    /\ \E n \in New(opening) : opening' = opening \cup {[n |-> n, id |-> id]}
    /\ UNCHANGED <<api, list, loads, form, modal, stopping, saving>>

\* History: nothing is said any more of what was clicked since.
Forgotten(shown) == [shown EXCEPT !.of = Nobody, !.touched = {}]

\* setEditing: a modal that is already there keeps its state, and only its props
\* are those of the new detail.
Edit(id, role, effective, known) ==
    modal' = IF modal = NoModal
             THEN [id |-> id, role |-> role, effective |-> effective, submitting |-> FALSE,
                   of |-> IF known /\ effective = held[id] THEN id ELSE Nobody, touched |-> {}]
             ELSE [(IF known THEN modal ELSE Forgotten(modal)) EXCEPT !.id = id, !.role = role]

\* getMember answers from the caches of its process, and the answer takes its time:
\* what it says may be what the member has held before.
DetailArrives(c) ==
    /\ c.id \in Members
    /\ opening' = opening \ {c}
    /\ \E seen \in SUBSET Perms : Edit(c.id, RolePerms, seen, TRUE)
    /\ UNCHANGED <<api, list, loads, form, stopping, saving>>

\* The API does not answer, or does not know the id.
DetailIsMadeUp(c) ==
    /\ opening' = opening \ {c}
    /\ Edit(c.id, MadeUpRole, MadeUpRole \cup MadeUpGrant, FALSE)
    /\ UNCHANGED <<api, list, loads, form, stopping, saving>>

\* deactivate, for the rows that are not shown as suspended; busy is the last row
\* clicked, and forgotten with the table.
Deactivate(id) ==
    /\ Clickable /\ id \in list.live /\ list.busy # id /\ MayCall
    /\ \E n \in New(stopping) :
          stopping' = stopping \cup {[n |-> n, id |-> id, sent |-> TRUE, awaited |-> TRUE]}
    /\ list' = [list EXCEPT !.busy = id]
    /\ UNCHANGED <<api, loads, opening, form, modal, saving>>

\* The API suspends the member, or refuses to.
DeactivateReaches(c) ==
    /\ c.sent
    /\ active' \in {active, active \ {c.id}}
    /\ stopping' = (stopping \ {c}) \cup Reached(c)
    /\ UNCHANGED <<held, custom, page, saving>>

\* Whether the member was suspended or the call failed, the page loads anew.
DeactivateEnds(c) ==
    /\ c.awaited
    /\ stopping' = (stopping \ {c}) \cup Answered(c)
    /\ Reload(list)
    /\ UNCHANGED <<api, opening, form, modal, saving>>

MembersTable ==
    \/ \E id \in Ids : ClickPermissions(id) \/ Deactivate(id)
    \/ \E c \in opening : DetailArrives(c) \/ DetailIsMadeUp(c)
    \/ \E c \in stopping : DeactivateEnds(c)

-----------------------------------------------------------------------------
(* InvitationsTable *)

\* revoke: whether the call succeeds or fails, the page loads anew.  What becomes of
\* the invitation is told in Invitations.
RevokeInvitation ==
    /\ Clickable /\ MayCall
    /\ Reload(list)
    /\ UNCHANGED <<api, opening, form, modal, stopping, saving>>

-----------------------------------------------------------------------------
(* InviteModal *)

\* The form is opened, or closed; what it was, is gone then.
ToggleForm ==
    /\ modal = NoModal
    /\ form' = [form EXCEPT !.open = ~@, !.submitting = FALSE]
    /\ UNCHANGED <<api, list, loads, opening, modal, stopping, saving>>

\* createDirectUser: an account of the same address gives way to the new one.
CreateDirectUser(e) ==
    /\ Cardinality(custom \cup {e}) <= MaxKept
    /\ custom' = custom \cup {e}

\* submit: the account is kept in the browser at once; the invitation posted to
\* the API carries a password, which InviteUserDto does not know, and is refused.
Submit(e) ==
    /\ form.open /\ ~form.submitting /\ MayCall
    /\ CreateDirectUser(e)
    /\ \E n \in New(form.posting) :
          form' = [form EXCEPT !.submitting = TRUE, !.posting = @ \cup {[n |-> n, email |-> e]}]
    /\ UNCHANGED <<held, active, list, loads, opening, modal, stopping, saving>>

\* onDone(newMember), also when the form has been closed meanwhile, or is another.
Created(c) ==
    /\ form' = [open |-> FALSE, submitting |-> FALSE, posting |-> form.posting \ {c}]
    /\ Reload([list EXCEPT !.count[c.email] = @ + 1])
    /\ UNCHANGED <<api, opening, modal, stopping, saving>>

InviteModal ==
    \/ ToggleForm
    \/ \E e \in Emails : Submit(e)
    \/ \E c \in form.posting : Created(c)

-----------------------------------------------------------------------------
(* PermissionsModal *)

\* The boxes are those of the catalogue, or of MOCK_CATALOG if there is none.
Toggle(p) ==
    /\ modal # NoModal
    /\ p \in (IF list.catalog = {} THEN MockCatalog ELSE list.catalog)
    /\ modal' = [modal EXCEPT !.effective = IF p \in @ THEN @ \ {p} ELSE @ \cup {p},
                            !.touched = IF modal.of = Nobody THEN {} ELSE @ \cup {p}]
    /\ UNCHANGED <<api, list, loads, opening, form, stopping, saving>>

\* The buttons close the modal, Escape the form beneath it as well; what the modal
\* has sent goes on.
Cancel ==
    /\ modal # NoModal
    /\ modal' = NoModal
    /\ form' \in {form, [form EXCEPT !.open = FALSE, !.submitting = FALSE]}
    /\ UNCHANGED <<api, list, loads, opening, stopping, saving>>

\* Mutated: only what is granted is sent.
GrantsOnly(shown) ==
    [granted |-> (list.catalog \cap shown.effective) \ shown.role, revoked |-> {}]

\* Of the permissions in the catalogue, those in which the boxes differ from the
\* role.
Overrides(shown) ==
    [granted |-> (list.catalog \cap shown.effective) \ shown.role,
     revoked |-> (list.catalog \cap shown.role) \ shown.effective]

\* setMemberPermissions: the overrides of the call replace the former ones.
AsHeld(o) == (RolePerms \cup o.granted) \ o.revoked

\* submitting is the state of one modal: another one may send while the PUT of the
\* first is under way.  A save is sound (history) if the modal and its state belong
\* to one member, the detail and the catalogue came from the API, and the member
\* still holds what the detail said.
Save ==
    LET sound == modal.of = modal.id /\ list.catalog = Perms IN
    /\ modal # NoModal /\ ~modal.submitting /\ MayCall
    /\ modal' = [modal EXCEPT !.submitting = TRUE]
    /\ \E n \in New(saving) :
          saving' = saving \cup
              {[n |-> n, id |-> modal.id, sent |-> TRUE, awaited |-> TRUE, sound |-> sound,
                result |-> IF modal.id = Ghost THEN {} ELSE AsHeld(Overrides(modal)),
                touched |-> IF sound THEN modal.touched ELSE {}]}
    /\ UNCHANGED <<api, list, loads, opening, form, stopping>>

\* History: the modal and the other saves were made from what m held before.
OutdatedModal(m) == IF modal.of = m THEN Forgotten(modal) ELSE modal

Unsound(s) == [s EXCEPT !.sound = FALSE, !.touched = {}]

\* A save that has reached the API is but an answer that may be awaited.
Spent(s) == [Unsound(s) EXCEPT !.result = {}]

Outdated(saves, m) == {IF s.id = m THEN Unsound(s) ELSE s : s \in saves}

\* The API does what was asked, whether or not anybody awaits it.
SaveReaches(s) ==
    /\ s.sent /\ s.id \in Members
    /\ held' = [held EXCEPT ![s.id] = s.result]
    /\ saving' = Outdated(saving \ {s}, s.id) \cup Reached(Spent(s))
    /\ modal' = OutdatedModal(s.id)
    /\ UNCHANGED <<active, custom, list, loads, opening, form, stopping>>

\* It refuses, does not know the id, or the request is lost.
SaveIsRefused(s) ==
    /\ s.sent
    /\ saving' = (saving \ {s}) \cup Reached(Spent(s))
    /\ UNCHANGED <<api, page, stopping>>

\* The answer, or a failure, which the page reports as a success: onDone closes the
\* modal that is there by then.
SaveEnds(s) ==
    /\ s.awaited
    /\ saving' = (saving \ {s}) \cup Answered(s)
    /\ modal' = NoModal
    /\ Reload(list)
    /\ UNCHANGED <<api, opening, form, stopping>>

PermissionsModal ==
    \/ Cancel \/ Save
    \/ \E s \in saving : SaveEnds(s)
    \/ \E p \in Perms : Toggle(p)

-----------------------------------------------------------------------------
\* Another administrator changes what a member holds, in a tab of their own.
OtherChanges(m, p) ==
    /\ held' = [held EXCEPT ![m] = IF p \in @ THEN @ \ {p} ELSE @ \cup {p}]
    /\ modal' = OutdatedModal(m) /\ saving' = Outdated(saving, m)
    /\ UNCHANGED <<active, custom, list, loads, opening, form, stopping>>

TeamNext ==
    \/ LoadSucceeds \/ LoadFails
    \/ MembersTable \/ RevokeInvitation \/ InviteModal \/ PermissionsModal

\* What happens at the API, whatever page is shown.
ApiNext ==
    \/ \E s \in saving : SaveReaches(s) \/ SaveIsRefused(s)
    \/ \E c \in stopping : DeactivateReaches(c)
    \/ \E m \in Members, p \in Perms : OtherChanges(m, p)

-----------------------------------------------------------------------------
(* Properties *)

\* PermissionsModal: however modals are closed and opened and their PUTs delayed, a
\* save changes what the member holds in no permission but those whose box was
\* clicked; unless the API had failed the page, two rows were opened at once, or
\* the detail had been outdated, before the save or while it was under way: by
\* another administrator, by a cache of the API, or by another save of the page.
SavesChangeWhatWasTouched ==
    [][\A s \in saving :
          s.sound /\ SaveReaches(s)
             => \A p \in Perms : (p \in held[s.id]) # (p \in held'[s.id]) => p \in s.touched]_teamVars

\* load() and onDone: an address has two rows only while the page is loading anew.
RowsAreUnique == loads = 0 => \A e \in Emails : list.count[e] <= 1

\* An account that was created is in the list, once the page is at rest.
CreatedAreListed ==
    loads = 0 /\ form.posting = {} => \A e \in custom : list.count[e] = 1
=============================================================================
