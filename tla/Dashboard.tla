------------------------------ MODULE Dashboard ------------------------------
(***************************************************************************)
(* The dashboard in one tab: the team page and the pages that keep their   *)
(* records themselves.  One of them is mounted at a time.  Leaving it      *)
(* loses what it held, and takes back nothing that it has asked of the     *)
(* API: that is done, or not, while another page is shown or the same one  *)
(* once more.                                                              *)
(***************************************************************************)
EXTENDS TeamPage, OfficePages

VARIABLE at    \* the page that is mounted

vars == <<at, teamVars, officeVars>>

\* The other pages have no part in what follows; to be there is to be at home.
Pages == {"home", "team", "finance", "crm"}

\* Type correctness of the pages and of which is mounted.
DashboardTypeOK == at \in Pages /\ TypeOK /\ OfficeTypeOK

Init == at = "home" /\ TeamInit /\ OfficeInit

\* A page is opened, and starts anew; nobody awaits the calls of the last one.
Go(to) ==
    /\ to # at
    /\ at' = to
    /\ Mounted(list', loads', opening', form', modal') /\ Leave
    /\ stopping' = Abandoned(stopping) /\ saving' = Abandoned(saving)
    /\ UNCHANGED api

\* The form on the home page: the account is kept in the browser, and posted to the
\* API as the team page does.
HomeSubmit(e) ==
    /\ CreateDirectUser(e)
    /\ UNCHANGED <<at, held, active, page, stopping, saving, officeVars>>

OfficeNext ==
    \/ at = "finance" /\ FinancePage
    \/ at = "crm" /\ AddClient

Next ==
    \/ \E to \in Pages : Go(to)
    \/ at = "home" /\ \E e \in Emails : HomeSubmit(e)
    \/ at = "team" /\ TeamNext /\ UNCHANGED <<at, officeVars>>
    \/ ApiNext /\ UNCHANGED <<at, officeVars>>
    \/ OfficeNext /\ UNCHANGED <<at, teamVars>>

Spec == Init /\ [][Next]_vars
=============================================================================
