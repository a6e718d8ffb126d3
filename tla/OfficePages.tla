----------------------------- MODULE OfficePages -----------------------------
(***************************************************************************)
(* The pages of the dashboard whose records are kept in the page alone and *)
(* have to agree with each other: finance and crm.  Nothing is sent to the *)
(* API, and what a page held is gone when the user leaves it.              *)
(***************************************************************************)
EXTENDS Integers, Sequences

CONSTANTS
    Price,       \* totalAmount per invoice
    Paid0,       \* paidAmount per invoice when the page is opened
    Amounts,     \* amounts that the user may type
    MaxDebt,     \* bound on what an invoice can come to owe
    MaxNew       \* bound on the clients entered

Invoices == DOMAIN Price

ASSUME BooksAssumption ==
    /\ Price \in [Invoices -> Nat] /\ Paid0 \in [Invoices -> Nat]
    /\ \A i \in Invoices : Paid0[i] <= Price[i]
    /\ Amounts \subseteq Int /\ MaxDebt \in Nat /\ MaxNew \in Nat

NoInvoice == "none"

VARIABLES
    invoices,    \* finance: per invoice, what is paid, what remains, and its status
    paying,      \* finance: selectedInvoice, while the payment modal is shown
    codes        \* crm: clientCode of the clients, the newest first

officeVars == <<invoices, paying, codes>>

\* Type correctness of what the pages hold.
OfficeTypeOK ==
    /\ invoices \in [Invoices -> [paid: Int, remaining: Nat, status: {"PARTIAL", "PAID"}]]
    /\ paying \in Invoices \cup {NoInvoice}
    /\ codes \in Seq(Nat)

Larger(a, b) == IF a > b THEN a ELSE b

\* An invoice of which so much has been paid.
Settled(total, paid) ==
    LET remaining == Larger(0, total - paid) IN
    [paid |-> paid, remaining |-> remaining,
     status |-> IF remaining = 0 THEN "PAID" ELSE "PARTIAL"]

\* What the pages hold when they are opened.
Opened(inv, pay, cs) ==
    /\ inv = [i \in Invoices |-> Settled(Price[i], Paid0[i])] /\ pay = NoInvoice
    /\ cs = <<1002, 1001>>

OfficeInit == Opened(invoices, paying, codes)

Leave == Opened(invoices', paying', codes')

-----------------------------------------------------------------------------
(* FinancePage *)

\* Mutated: the button is there for every invoice.
AnyInvoice(i) == TRUE

\* An invoice has the button of the payment modal while something remains.
Payable(i) == invoices[i].remaining > 0

OpenPayment(i) ==
    /\ Payable(i) /\ paying = NoInvoice
    /\ paying' = i
    /\ UNCHANGED <<invoices, codes>>

ClosePayment ==
    /\ paying # NoInvoice /\ paying' = NoInvoice
    /\ UNCHANGED <<invoices, codes>>

\* Mutated: the field takes any amount.
AnyAmount(i, amount) == TRUE

\* max={selectedInvoice.remainingAmount}; there is no min.
Accepted(i, amount) == amount <= invoices[i].remaining

\* handleRecordPayment
RecordPayment(amount) ==
    /\ paying # NoInvoice /\ Accepted(paying, amount)
    /\ invoices[paying].remaining - amount <= MaxDebt
    /\ invoices' = [invoices EXCEPT ![paying] = Settled(Price[paying], @.paid + amount)]
    /\ paying' = NoInvoice
    /\ UNCHANGED codes

FinancePage ==
    \/ \E i \in Invoices : OpenPayment(i)
    \/ ClosePayment
    \/ \E amount \in Amounts : RecordPayment(amount)

-----------------------------------------------------------------------------
(* CrmPage *)

\* Mutated: one less.
LastCode(clients) == 1000 + Len(clients)

NextCode(clients) == 1001 + Len(clients)

\* handleAddClient
AddClient ==
    /\ Len(codes) < 2 + MaxNew
    /\ codes' = <<NextCode(codes)>> \o codes
    /\ UNCHANGED <<invoices, paying>>

-----------------------------------------------------------------------------
(* Properties *)

\* FinancePage: what is paid and what remains make up the invoice, and it is PAID
\* if and only if nothing remains, whatever amounts, negative ones included, are
\* entered in whatever order.
BooksBalance ==
    \A i \in Invoices :
        /\ invoices[i].paid + invoices[i].remaining = Price[i]
        /\ (invoices[i].status = "PAID") <=> (invoices[i].remaining = 0)

\* FinancePage: once an invoice is paid, nothing changes it but leaving the page,
\* which forgets every payment.
PaidIsPaid ==
    [][\A i \in Invoices :
          invoices[i].status = "PAID" => invoices'[i] = invoices[i] \/ Leave]_officeVars

\* CrmPage: no two clients have the same code.
CodesAreUnique == \A i, j \in DOMAIN codes : codes[i] = codes[j] => i = j
=============================================================================
