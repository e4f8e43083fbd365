------------------------------ MODULE Invoices ------------------------------
(***************************************************************************)
(* Invoices sent through Safaricom's Bill Manager and what is paid on them *)
(* (server/src/invoices/service.ts).  Payments arrive as pushes, which     *)
(* Safaricom may repeat, and are recorded by hand; invoices are numbered,  *)
(* sent one by one or in bulk, and cancelled while nothing is paid.        *)
(*                                                                         *)
(* Advisory locks and row locks are modelled as what they keep out: a task *)
(* that is inside a transaction holds its receipt, its invoice or the      *)
(* numbering until it commits.  The invoices are those of one account      *)
(* reference; a payment that quotes another one matches none of them.      *)
(***************************************************************************)
EXTENDS Naturals, FiniteSets, FiniteSetsExt, Functions

CONSTANTS
  InvoiceTasks,   \* requests and callbacks at work at once
  Receipts,
  Cents,          \* what each receipt paid
  InvoiceCents,   \* what each invoice asks for
  MaxInvoices     \* bound

ASSUME InvoiceAssumption ==
  /\ Cents \in [Receipts -> Nat \ {0}] /\ InvoiceCents \in Nat \ {0}
  /\ MaxInvoices \in Nat

VARIABLES
  invoices,    \* customer_invoices, by seq
  receipts,   \* the requests rows of type invoice_payment
  told,        \* how often Safaricom was given an invoice of each number
  work,        \* what each task has in hand
  broken       \* whether a transaction was lost after Safaricom was told (once, a bound)

invoiceVars == <<invoices, receipts, told, work, broken>>

Numbers == 1..MaxInvoices
NoInvoice == [status |-> "none", paid |-> 0]
Unmatched == 0

Invoice == [status: {"none", "sent", "partly_paid", "paid", "cancelled"}, paid: Nat]
Recorded == [receipt: Receipts, invoice: Numbers \cup {Unmatched}, by: InvoiceTasks]

IdleWork == [at |-> "idle"]

InvoicesInit ==
  /\ invoices = [i \in Numbers |-> NoInvoice]
  /\ receipts = {} /\ broken = FALSE
  /\ told = [i \in Numbers |-> 0]
  /\ work = [t \in InvoiceTasks |-> IdleWork]

Idle(t) == work[t] = IdleWork
Takes(t, w) == work' = [work EXCEPT ![t] = w]
Rests(t) == work' = [work EXCEPT ![t] = IdleWork]

Open(i) == invoices[i].status \in {"sent", "partly_paid"}
Known(receipt) == \E p \in receipts : p.receipt = receipt
Row(t, receipt, i) == [receipt |-> receipt, invoice |-> i, by |-> t]

(***************************************************************************)
(* Sending and cancelling.                                                 *)
(***************************************************************************)

\* pg_advisory_xact_lock(hashtext('invoices'))
NumberingFree == ~\E t \in InvoiceTasks : work[t].at = "told"

\* max(seq)+1
NextNumber == Cardinality({i \in Numbers : invoices[i] # NoInvoice}) + 1

\* The numbers of a transaction that sends n invoices, and Safaricom takes them.
SendInvoices(t, n) ==
  /\ Idle(t) /\ NumberingFree /\ NextNumber + n - 1 <= MaxInvoices
  /\ LET sent == NextNumber..NextNumber + n - 1
     IN /\ told' = [i \in Numbers |-> IF i \in sent THEN told[i] + 1 ELSE told[i]]
        /\ Takes(t, [at |-> "told", sent |-> sent])
  /\ UNCHANGED <<invoices, receipts, broken>>

InsertInvoices(t) ==
  /\ work[t].at = "told"
  /\ invoices' = [i \in Numbers |-> IF i \in work[t].sent
                    THEN [status |-> "sent", paid |-> 0] ELSE invoices[i]]
  /\ Rests(t)
  /\ UNCHANGED <<receipts, told, broken>>

\* The server stops, or the insert fails, after Safaricom took the invoices.
LoseInvoices(t) ==
  /\ work[t].at = "told"
  /\ ~broken /\ broken' = TRUE
  /\ Rests(t)
  /\ UNCHANGED <<invoices, receipts, told>>

\* Safaricom cancels what was 'sent' when the rows were read.
CancelAtSafaricom(t) ==
  /\ Idle(t)
  /\ \E S \in SUBSET {i \in Numbers : invoices[i].status = "sent"} :
       S # {} /\ Takes(t, [at |-> "cancelling", sent |-> S])
  /\ UNCHANGED <<invoices, receipts, told, broken>>

HeldByPayment(i) == \E t \in InvoiceTasks : work[t].at = "paying" /\ work[t].invoice = i

\* WHERE status='sent', read again as the row is written.
Cancellable(i) == invoices[i].status = "sent"

CancelInvoices(t) ==
  /\ work[t].at = "cancelling"
  /\ \A i \in work[t].sent : ~HeldByPayment(i)
  /\ invoices' = [i \in Numbers |-> IF i \in work[t].sent /\ Cancellable(i)
                    THEN [invoices[i] EXCEPT !.status = "cancelled"] ELSE invoices[i]]
  /\ Rests(t)
  /\ UNCHANGED <<receipts, told, broken>>

(***************************************************************************)
(* Paying.                                                                 *)
(***************************************************************************)

\* applyPush: the oldest open invoice of the reference, if the payment quotes it.
ReadPush(t) ==
  /\ Idle(t)
  /\ \E receipt \in Receipts, quotes \in BOOLEAN :
       LET open == {i \in Numbers : Open(i)}
       IN Takes(t, [at |-> "chosen", receipt |-> receipt,
                    invoice |-> IF quotes /\ open # {} THEN Min(open) ELSE Unmatched])
  /\ UNCHANGED <<invoices, receipts, told, broken>>

\* recordPayment: of an open invoice, once Safaricom has acknowledged it.
ReadByHand(t) ==
  /\ Idle(t)
  /\ \E receipt \in Receipts, i \in Numbers :
       Open(i) /\ Takes(t, [at |-> "chosen", receipt |-> receipt, invoice |-> i])
  /\ UNCHANGED <<invoices, receipts, told, broken>>

\* Mutated form: a receipt is not locked.
ReceiptUnlocked(receipt) == TRUE

\* pg_advisory_xact_lock(hashtext('invoice_payment:' || receipt))
ReceiptFree(receipt) == ~\E t \in InvoiceTasks : work[t].at = "paying" /\ work[t].receipt = receipt

RefuseKnown(t) ==
  /\ work[t].at = "chosen"
  /\ ReceiptFree(work[t].receipt) /\ Known(work[t].receipt)
  /\ Rests(t)
  /\ UNCHANGED <<invoices, receipts, told, broken>>

RecordUnmatched(t) ==
  /\ work[t].at = "chosen" /\ work[t].invoice = Unmatched
  /\ ReceiptFree(work[t].receipt) /\ ~Known(work[t].receipt)
  /\ receipts' = receipts \cup {Row(t, work[t].receipt, Unmatched)}
  /\ Rests(t)
  /\ UNCHANGED <<invoices, told, broken>>

\* Mutated form: SELECT without FOR UPDATE.
InvoiceUnlocked(i) == TRUE

InvoiceFree(i) == ~HeldByPayment(i)

\* applyPayment up to its SELECT ... FOR UPDATE, which keeps what is paid so far.
BeginPayment(t) ==
  /\ work[t].at = "chosen" /\ work[t].invoice # Unmatched
  /\ ReceiptFree(work[t].receipt) /\ ~Known(work[t].receipt) /\ InvoiceFree(work[t].invoice)
  /\ Takes(t, [at |-> "paying", receipt |-> work[t].receipt, invoice |-> work[t].invoice,
               paid |-> invoices[work[t].invoice].paid + Cents[work[t].receipt]])
  /\ UNCHANGED <<invoices, receipts, told, broken>>

\* Its UPDATE of an invoice that is still open, and the commit.
CommitPayment(t) ==
  /\ work[t].at = "paying"
  /\ receipts' = receipts \cup {Row(t, work[t].receipt, work[t].invoice)}
  /\ invoices' = IF ~Open(work[t].invoice) THEN invoices
       ELSE [invoices EXCEPT ![work[t].invoice] =
              [status |-> IF work[t].paid >= InvoiceCents THEN "paid" ELSE "partly_paid",
               paid |-> work[t].paid]]
  /\ Rests(t)
  /\ UNCHANGED <<told, broken>>

InvoicesNext ==
  \E t \in InvoiceTasks :
    \/ \E n \in Numbers : SendInvoices(t, n)
    \/ InsertInvoices(t) \/ LoseInvoices(t) \/ CancelAtSafaricom(t) \/ CancelInvoices(t)
    \/ ReadPush(t) \/ ReadByHand(t) \/ RefuseKnown(t) \/ RecordUnmatched(t)
    \/ BeginPayment(t) \/ CommitPayment(t)

InvoicesSpec == InvoicesInit /\ [][InvoicesNext]_invoiceVars

(***************************************************************************)
(* What the invoices promise.                                              *)
(***************************************************************************)

InvoicesTypeOK ==
  /\ invoices \in [Numbers -> Invoice]
  /\ receipts \subseteq Recorded
  /\ told \in [Numbers -> Nat] /\ broken \in BOOLEAN
  /\ \A t \in InvoiceTasks :
       work[t].at \in {"idle", "told", "cancelling", "chosen", "paying"}

\* What the recorded payments of an invoice come to.
CentsPaid == [p \in Recorded |-> Cents[p.receipt]]
PaidOn(i) == SumFunctionOnSet(CentsPaid, {p \in receipts : p.invoice = i})

(* What an open invoice says was paid is what was paid on it, whichever    *)
(* payments arrived together; it reads as paid once it is, and what was    *)
(* paid on is not cancelled.                                               *)
BooksAgree ==
  \A i \in Numbers :
    /\ Open(i) => invoices[i].paid = PaidOn(i)
    /\ Open(i) => (invoices[i].status = "sent" <=> invoices[i].paid = 0)
    /\ invoices[i].status = "paid" <=> invoices[i].paid >= InvoiceCents
    /\ invoices[i].status = "cancelled" => invoices[i].paid = 0

(* A receipt pays once, whether it is pushed twice, at the same time, or   *)
(* pushed and recorded by hand.                                            *)
ReceiptOnce ==
  \A p, q \in receipts : p.receipt = q.receipt => p = q

(* "Two invoices never share a number": Safaricom is given one invoice of  *)
(* each, unless a transaction is lost after it was told.                   *)
NumberOnce == ~broken => \A i \in Numbers : told[i] <= 1
=============================================================================
