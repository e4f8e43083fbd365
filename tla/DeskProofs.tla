----------------------------- MODULE DeskProofs -----------------------------
(***************************************************************************)
(* Theorems about invoices, about taking a payment back, about account     *)
(* numbers and names and about the dates of a timetable, for any number of *)
(* each and of requests at work.  The four share no state, and their       *)
(* theorems nothing but this module.                                       *)
(***************************************************************************)
EXTENDS Invoices, Reversals, Accounts, Timetable, Sums, FiniteSetTheorems,
        SequenceTheorems, WellFoundedInduction, TLAPS

(***************************************************************************)
(* Invoices: a receipt pays once, no two are sent under one number, and    *)
(* what an invoice says was paid is what was paid.                         *)
(***************************************************************************)

(***************************************************************************)
(* What a task may have in hand.                                           *)
(***************************************************************************)

Telling == [at: {"told"}, sent: SUBSET Numbers]
Cancelling == [at: {"cancelling"}, sent: SUBSET Numbers]
Chosen == [at: {"chosen"}, receipt: Receipts, invoice: Numbers \cup {Unmatched}]
Paying == [at: {"paying"}, receipt: Receipts, invoice: Numbers, paid: Nat]

Work == {IdleWork} \cup Telling \cup Cancelling \cup Chosen \cup Paying

InvoiceTypes ==
  /\ invoices \in [Numbers -> Invoice]
  /\ receipts \subseteq Recorded
  /\ told \in [Numbers -> Nat] /\ broken \in BOOLEAN
  /\ work \in [InvoiceTasks -> Work]

(***************************************************************************)
(* A payment being recorded holds its receipt: nobody else is at it, and   *)
(* it is not on record yet.                                                *)
(***************************************************************************)

ReceiptHeld ==
  \A t \in InvoiceTasks : work[t].at = "paying" =>
    /\ ~Known(work[t].receipt)
    /\ \A u \in InvoiceTasks :
         work[u].at = "paying" /\ work[u].receipt = work[t].receipt => u = t

PaidOnceSoFar == ReceiptHeld /\ ReceiptOnce

(***************************************************************************)
(* The invoices on record are the first so many numbers, and the one       *)
(* transaction that has told Safaricom of more has the numbers after them. *)
(***************************************************************************)

Filled == {i \in Numbers : invoices[i] # NoInvoice}

NumberedTo(n) ==
  /\ Filled = 1..n
  /\ \A t \in InvoiceTasks : work[t].at = "told" =>
       \E m \in Nat : n <= m /\ m <= MaxInvoices /\ work[t].sent = (n + 1)..m
  /\ ~broken => \A i \in Numbers :
       /\ told[i] <= 1
       /\ told[i] # 0 => i <= n \/ \E t \in InvoiceTasks : work[t].at = "told" /\ i \in work[t].sent

OneNumbering ==
  \A t, u \in InvoiceTasks : work[t].at = "told" /\ work[u].at = "told" => t = u

Numbered == OneNumbering /\ \E n \in Nat : NumberedTo(n)

(***************************************************************************)
(* Types.                                                                  *)
(***************************************************************************)

\* The least of some numbers is one of them, and no greater than any.
LEMMA Least ==
  ASSUME NEW S, S \subseteq Nat, S # {}
  PROVE  Min(S) \in S /\ \A p \in S : Min(S) <= p
<1>1. PICK o \in S : \A p \in S : <<p, o>> \notin OpToRel(<, Nat)
  BY WFMin, NatLessThanWellFounded, Zenon
<1>2. \A p \in S : ~(p < o)
  BY <1>1, Zenon DEF OpToRel
<1>3. \A p \in S : o <= p
  BY <1>2
<1> QED BY <1>3 DEF Min

LEMMA FirstInvoice ==
  ASSUME NEW S, S \subseteq Numbers, S # {}
  PROVE  Min(S) \in S
<1>1. S \subseteq Nat
  BY InvoiceAssumption DEF Numbers
<1> QED BY <1>1, Least

LEMMA AtTells ==
  ASSUME InvoiceTypes, NEW t \in InvoiceTasks
  PROVE  /\ work[t].at = "told" => work[t] \in Telling
         /\ work[t].at = "cancelling" => work[t] \in Cancelling
         /\ work[t].at = "chosen" => work[t] \in Chosen
         /\ work[t].at = "paying" => work[t] \in Paying
BY DEF InvoiceTypes, Work, Telling, Cancelling, Chosen, Paying, IdleWork

LEMMA TypesInit == InvoicesInit => InvoiceTypes
<1> SUFFICES ASSUME InvoicesInit PROVE InvoiceTypes
  OBVIOUS
<1>1. NoInvoice \in Invoice
  BY DEF NoInvoice, Invoice
<1>2. IdleWork \in Work
  BY DEF Work
<1>3. invoices \in [Numbers -> Invoice] /\ work \in [InvoiceTasks -> Work]
  BY <1>1, <1>2 DEF InvoicesInit
<1>4. receipts \subseteq Recorded /\ broken \in BOOLEAN /\ told \in [Numbers -> Nat]
  BY DEF InvoicesInit
<1> QED BY <1>3, <1>4 DEF InvoiceTypes

LEMMA TypesStep == InvoiceTypes /\ [InvoicesNext]_invoiceVars => InvoiceTypes'
<1> SUFFICES ASSUME InvoiceTypes, [InvoicesNext]_invoiceVars PROVE InvoiceTypes'
  OBVIOUS
<1>1. ASSUME NEW t \in InvoiceTasks, NEW w \in Work, Takes(t, w),
             UNCHANGED <<invoices, receipts, broken>>, told' \in [Numbers -> Nat]
      PROVE  InvoiceTypes'
  BY <1>1 DEF Takes, InvoiceTypes
<1>2. ASSUME NEW t \in InvoiceTasks, NEW n \in Numbers, SendInvoices(t, n) PROVE InvoiceTypes'
  <2> DEFINE sent == NextNumber..NextNumber + n - 1
             filled == {i \in Numbers : invoices[i] # NoInvoice}
  <2>1. NextNumber \in Nat \ {0}
    <3>1. IsFiniteSet(Numbers)
      BY FS_Interval, InvoiceAssumption DEF Numbers
    <3>2. IsFiniteSet(filled)
      BY <3>1, FS_Subset
    <3>3. Cardinality(filled) \in Nat
      BY <3>2, FS_CardinalityType
    <3> QED BY <3>3 DEF NextNumber
  <2>2. sent \subseteq Numbers
    BY <1>2, <2>1, InvoiceAssumption DEF SendInvoices, Numbers
  <2>3. [at |-> "told", sent |-> sent] \in Work
    BY <2>2 DEF Work, Telling
  <2>4. told' \in [Numbers -> Nat]
    BY <1>2 DEF SendInvoices, InvoiceTypes
  <2> QED BY <1>1, <1>2, <2>3, <2>4 DEF SendInvoices
<1>3. ASSUME NEW t \in InvoiceTasks, InsertInvoices(t) PROVE InvoiceTypes'
  <2>1. [status |-> "sent", paid |-> 0] \in Invoice
    BY DEF Invoice
  <2> QED BY <1>3, <2>1 DEF InsertInvoices, Rests, InvoiceTypes, Work
<1>4. ASSUME NEW t \in InvoiceTasks, LoseInvoices(t) PROVE InvoiceTypes'
  BY <1>4 DEF LoseInvoices, Rests, InvoiceTypes, Work
<1>5. ASSUME NEW t \in InvoiceTasks, CancelAtSafaricom(t) PROVE InvoiceTypes'
  <2>1. PICK S \in SUBSET {i \in Numbers : invoices[i].status = "sent"} :
          Takes(t, [at |-> "cancelling", sent |-> S])
    BY <1>5 DEF CancelAtSafaricom
  <2>2. [at |-> "cancelling", sent |-> S] \in Work
    BY DEF Work, Cancelling
  <2> QED BY <1>1, <1>5, <2>1, <2>2 DEF CancelAtSafaricom, InvoiceTypes
<1>6. ASSUME NEW t \in InvoiceTasks, CancelInvoices(t) PROVE InvoiceTypes'
  <2>1. \A i \in Numbers : [invoices[i] EXCEPT !.status = "cancelled"] \in Invoice
    BY DEF InvoiceTypes, Invoice
  <2> QED BY <1>6, <2>1 DEF CancelInvoices, Rests, InvoiceTypes, Work
<1>7. ASSUME NEW t \in InvoiceTasks, ReadPush(t) PROVE InvoiceTypes'
  <2> DEFINE open == {i \in Numbers : Open(i)}
  <2>1. PICK receipt \in Receipts, quotes \in BOOLEAN :
          Takes(t, [at |-> "chosen", receipt |-> receipt,
                    invoice |-> IF quotes /\ open # {} THEN Min(open) ELSE Unmatched])
    BY <1>7 DEF ReadPush
  <2>2. open # {} => Min(open) \in Numbers
    BY FirstInvoice
  <2> HIDE DEF open
  <2>3. (IF quotes /\ open # {} THEN Min(open) ELSE Unmatched) \in Numbers \cup {Unmatched}
    BY <2>2
  <2>4. [at |-> "chosen", receipt |-> receipt,
         invoice |-> IF quotes /\ open # {} THEN Min(open) ELSE Unmatched] \in Work
    BY <2>3 DEF Work, Chosen
  <2> QED BY <1>1, <1>7, <2>1, <2>4 DEF ReadPush, InvoiceTypes
<1>8. ASSUME NEW t \in InvoiceTasks, ReadByHand(t) PROVE InvoiceTypes'
  <2>1. PICK receipt \in Receipts, i \in Numbers :
          Takes(t, [at |-> "chosen", receipt |-> receipt, invoice |-> i])
    BY <1>8 DEF ReadByHand
  <2>2. [at |-> "chosen", receipt |-> receipt, invoice |-> i] \in Work
    BY DEF Work, Chosen
  <2> QED BY <1>1, <1>8, <2>1, <2>2 DEF ReadByHand, InvoiceTypes
<1>9. ASSUME NEW t \in InvoiceTasks, RefuseKnown(t) PROVE InvoiceTypes'
  BY <1>9 DEF RefuseKnown, Rests, InvoiceTypes, Work
<1>10. ASSUME NEW t \in InvoiceTasks, RecordUnmatched(t) PROVE InvoiceTypes'
  <2>1. Row(t, work[t].receipt, Unmatched) \in Recorded
    BY <1>10, AtTells DEF RecordUnmatched, Row, Recorded, Chosen
  <2> QED BY <1>10, <2>1 DEF RecordUnmatched, Rests, InvoiceTypes, Work
<1>11. ASSUME NEW t \in InvoiceTasks, BeginPayment(t) PROVE InvoiceTypes'
  <2> DEFINE w == [at |-> "paying", receipt |-> work[t].receipt, invoice |-> work[t].invoice,
                   paid |-> invoices[work[t].invoice].paid + Cents[work[t].receipt]]
  <2>1. work[t].receipt \in Receipts /\ work[t].invoice \in Numbers
    BY <1>11, AtTells DEF BeginPayment, Chosen
  <2>2. invoices[work[t].invoice].paid \in Nat /\ Cents[work[t].receipt] \in Nat
    BY <2>1, InvoiceAssumption DEF InvoiceTypes, Invoice
  <2>3. w \in Work
    BY <2>1, <2>2 DEF Work, Paying
  <2> QED BY <1>1, <1>11, <2>3 DEF BeginPayment, InvoiceTypes
<1>12. ASSUME NEW t \in InvoiceTasks, CommitPayment(t) PROVE InvoiceTypes'
  <2>1. work[t].receipt \in Receipts /\ work[t].invoice \in Numbers /\ work[t].paid \in Nat
    BY <1>12, AtTells DEF CommitPayment, Paying
  <2>2. Row(t, work[t].receipt, work[t].invoice) \in Recorded
    BY <2>1 DEF Row, Recorded
  <2>3. [status |-> IF work[t].paid >= InvoiceCents THEN "paid" ELSE "partly_paid",
         paid |-> work[t].paid] \in Invoice
    BY <2>1 DEF Invoice
  <2> QED BY <1>12, <2>2, <2>3 DEF CommitPayment, Rests, InvoiceTypes, Work
<1>13. CASE UNCHANGED invoiceVars
  BY <1>13 DEF invoiceVars, InvoiceTypes
<1> QED
  BY <1>2, <1>3, <1>4, <1>5, <1>6, <1>7, <1>8, <1>9, <1>10, <1>11, <1>12, <1>13 DEF InvoicesNext

(* The invoices, the payments and what each task has in hand stay within   *)
(* their types (invoices/service.ts).                                      *)
THEOREM InvoicesTyped == InvoicesSpec => []InvoicesTypeOK
<1>1. InvoiceTypes => InvoicesTypeOK
  BY DEF InvoiceTypes, InvoicesTypeOK, Work, IdleWork, Telling, Cancelling, Chosen, Paying
<1> QED BY <1>1, TypesInit, TypesStep, PTL DEF InvoicesSpec

(***************************************************************************)
(* A receipt pays once.                                                    *)
(***************************************************************************)

(* A step that leaves the payments on record alone and starts none keeps   *)
(* what is held.                                                           *)
LEMMA NoNewPayment ==
  ASSUME InvoiceTypes, PaidOnceSoFar, NEW t \in InvoiceTasks, NEW w, Takes(t, w),
         w.at # "paying", UNCHANGED receipts
  PROVE  PaidOnceSoFar'
<1>1. \A u \in InvoiceTasks : work'[u].at = "paying" => work'[u] = work[u]
  BY DEF Takes, InvoiceTypes
<1>2. ReceiptOnce'
  BY DEF PaidOnceSoFar, ReceiptOnce
<1>3. ReceiptHeld'
  BY <1>1 DEF PaidOnceSoFar, ReceiptHeld, Known
<1> QED BY <1>2, <1>3 DEF PaidOnceSoFar

(* A payment is recorded by whoever found its receipt free and unknown.    *)
LEMMA RecordsOne ==
  ASSUME InvoiceTypes, PaidOnceSoFar, NEW t \in InvoiceTasks, NEW r, NEW i,
         ~Known(r), \A u \in InvoiceTasks : work[u].at = "paying" /\ work[u].receipt = r => u = t,
         receipts' = receipts \cup {Row(t, r, i)}, Rests(t)
  PROVE  PaidOnceSoFar'
<1>1. \A u \in InvoiceTasks : work'[u].at = "paying" => work'[u] = work[u] /\ u # t
  BY DEF Rests, IdleWork, InvoiceTypes
<1>2. Row(t, r, i).receipt = r
  BY DEF Row
<1>3. ReceiptOnce'
  BY <1>2 DEF PaidOnceSoFar, ReceiptOnce, Known
<1>4. \A u \in InvoiceTasks : work'[u].at = "paying" => ~Known(work[u].receipt)'
  BY <1>1, <1>2 DEF PaidOnceSoFar, ReceiptHeld, Known
<1>5. ReceiptHeld'
  BY <1>1, <1>4 DEF PaidOnceSoFar, ReceiptHeld
<1> QED BY <1>3, <1>5 DEF PaidOnceSoFar

LEMMA PaidOnceInit == InvoicesInit => PaidOnceSoFar
BY DEF InvoicesInit, PaidOnceSoFar, ReceiptHeld, ReceiptOnce, IdleWork

LEMMA PaidOnceStep ==
  InvoiceTypes /\ PaidOnceSoFar /\ [InvoicesNext]_invoiceVars => PaidOnceSoFar'
<1> SUFFICES ASSUME InvoiceTypes, PaidOnceSoFar, [InvoicesNext]_invoiceVars PROVE PaidOnceSoFar'
  OBVIOUS
<1>1. ASSUME NEW t \in InvoiceTasks, Rests(t), UNCHANGED receipts PROVE PaidOnceSoFar'
  <2>1. Takes(t, IdleWork) /\ IdleWork.at # "paying"
    BY <1>1 DEF Rests, Takes, IdleWork
  <2> QED BY <1>1, <2>1, NoNewPayment
<1>2. ASSUME NEW t \in InvoiceTasks, NEW n \in Numbers, SendInvoices(t, n) PROVE PaidOnceSoFar'
  <2> DEFINE w == [at |-> "told", sent |-> NextNumber..NextNumber + n - 1]
  <2>1. Takes(t, w) /\ w.at # "paying" /\ UNCHANGED receipts
    BY <1>2 DEF SendInvoices
  <2> HIDE DEF w
  <2> QED BY <2>1, NoNewPayment
<1>3. ASSUME NEW t \in InvoiceTasks, CancelAtSafaricom(t) PROVE PaidOnceSoFar'
  <2>1. PICK S \in SUBSET {i \in Numbers : invoices[i].status = "sent"} :
          Takes(t, [at |-> "cancelling", sent |-> S])
    BY <1>3 DEF CancelAtSafaricom
  <2> DEFINE w == [at |-> "cancelling", sent |-> S]
  <2>2. Takes(t, w) /\ w.at # "paying" /\ UNCHANGED receipts
    BY <1>3, <2>1 DEF CancelAtSafaricom
  <2> HIDE DEF w
  <2> QED BY <2>2, NoNewPayment
<1>4. ASSUME NEW t \in InvoiceTasks, NEW r, NEW i,
             Takes(t, [at |-> "chosen", receipt |-> r, invoice |-> i]), UNCHANGED receipts
      PROVE  PaidOnceSoFar'
  <2> DEFINE w == [at |-> "chosen", receipt |-> r, invoice |-> i]
  <2>1. Takes(t, w) /\ w.at # "paying"
    BY <1>4
  <2> HIDE DEF w
  <2> QED BY <1>4, <2>1, NoNewPayment
<1>5. ASSUME NEW t \in InvoiceTasks, ReadPush(t) PROVE PaidOnceSoFar'
  <2>1. PICK r \in Receipts, quotes \in BOOLEAN :
          Takes(t, [at |-> "chosen", receipt |-> r,
                    invoice |-> IF quotes /\ {i \in Numbers : Open(i)} # {}
                                THEN Min({i \in Numbers : Open(i)}) ELSE Unmatched])
    BY <1>5 DEF ReadPush
  <2> QED BY <1>4, <1>5, <2>1 DEF ReadPush
<1>6. ASSUME NEW t \in InvoiceTasks, ReadByHand(t) PROVE PaidOnceSoFar'
  BY <1>4, <1>6 DEF ReadByHand
<1>7. ASSUME NEW t \in InvoiceTasks, RecordUnmatched(t) PROVE PaidOnceSoFar'
  BY <1>7, RecordsOne DEF RecordUnmatched, ReceiptFree
<1>8. ASSUME NEW t \in InvoiceTasks, BeginPayment(t) PROVE PaidOnceSoFar'
  <2> DEFINE w == [at |-> "paying", receipt |-> work[t].receipt, invoice |-> work[t].invoice,
                   paid |-> invoices[work[t].invoice].paid + Cents[work[t].receipt]]
  <2>1. w.at = "paying" /\ w.receipt = work[t].receipt
    OBVIOUS
  <2>2. work' = [work EXCEPT ![t] = w]
    BY <1>8 DEF BeginPayment, Takes
  <2> HIDE DEF w
  <2>3. work'[t] = w /\ \A u \in InvoiceTasks \ {t} : work'[u] = work[u]
    BY <2>2 DEF InvoiceTypes
  <2>4. \A u \in InvoiceTasks : ~(work[u].at = "paying" /\ work[u].receipt = w.receipt)
    BY <1>8, <2>1 DEF BeginPayment, ReceiptFree
  <2>5. ~Known(w.receipt) /\ receipts' = receipts
    BY <1>8, <2>1 DEF BeginPayment
  <2>6. ReceiptHeld'
    <3>1. SUFFICES ASSUME NEW u \in InvoiceTasks, work'[u].at = "paying"
                   PROVE  /\ ~Known(work[u].receipt)'
                          /\ \A v \in InvoiceTasks :
                               work'[v].at = "paying" /\ work'[v].receipt = work'[u].receipt => v = u
      BY DEF ReceiptHeld
    <3>2. CASE u = t
      BY <2>3, <2>4, <2>5, <3>2 DEF Known
    <3>3. CASE u # t
      BY <2>3, <2>4, <2>5, <3>1, <3>3 DEF PaidOnceSoFar, ReceiptHeld, Known
    <3> QED BY <3>2, <3>3
  <2>7. ReceiptOnce'
    BY <2>5 DEF PaidOnceSoFar, ReceiptOnce
  <2> QED BY <2>6, <2>7 DEF PaidOnceSoFar
<1>9. ASSUME NEW t \in InvoiceTasks, CommitPayment(t) PROVE PaidOnceSoFar'
  <2>1. /\ ~Known(work[t].receipt)
        /\ \A u \in InvoiceTasks :
             work[u].at = "paying" /\ work[u].receipt = work[t].receipt => u = t
    BY <1>9 DEF CommitPayment, PaidOnceSoFar, ReceiptHeld
  <2> QED BY <1>9, <2>1, RecordsOne DEF CommitPayment
<1>10. CASE UNCHANGED invoiceVars
  BY <1>10 DEF invoiceVars, PaidOnceSoFar, ReceiptHeld, ReceiptOnce, Known
<1>11. ASSUME NEW t \in InvoiceTasks,
              InsertInvoices(t) \/ LoseInvoices(t) \/ CancelInvoices(t) \/ RefuseKnown(t)
       PROVE  PaidOnceSoFar'
  BY <1>1, <1>11 DEF InsertInvoices, LoseInvoices, CancelInvoices, RefuseKnown
<1> QED
  BY <1>2, <1>3, <1>5, <1>6, <1>7, <1>8, <1>9, <1>10, <1>11 DEF InvoicesNext

(* A receipt pays once, however often and however many at a time Safaricom *)
(* pushes it or a person records it (recordPayment, applyPush).            *)
THEOREM ReceiptOnceAlways == InvoicesSpec => []ReceiptOnce
<1>1. PaidOnceSoFar => ReceiptOnce
  BY DEF PaidOnceSoFar
<1> QED BY <1>1, PaidOnceInit, TypesInit, TypesStep, PaidOnceStep, PTL DEF InvoicesSpec

(***************************************************************************)
(* No two invoices go out under one number.                                *)
(***************************************************************************)

(* A step that tells Safaricom of nothing, fills no number and ends nobody *)
(* who has told keeps the numbering.                                       *)
LEMMA NumberingKept ==
  ASSUME InvoiceTypes, Numbered, NEW t \in InvoiceTasks, NEW w, Takes(t, w),
         work[t].at # "told", w.at # "told", UNCHANGED <<told, broken>>, Filled' = Filled
  PROVE  Numbered'
<1>1. \A u \in InvoiceTasks : (work'[u].at = "told" \/ work[u].at = "told") => work'[u] = work[u]
  BY DEF Takes, InvoiceTypes
<1>2. OneNumbering'
  BY <1>1 DEF Numbered, OneNumbering
<1>3. PICK n \in Nat : NumberedTo(n)
  BY DEF Numbered
<1>4. NumberedTo(n)'
  BY <1>1, <1>3 DEF NumberedTo
<1> QED BY <1>2, <1>4 DEF Numbered

LEMMA NextIsFree ==
  ASSUME NEW n \in Nat, Filled = 1..n
  PROVE  NextNumber = n + 1
<1>1. Cardinality(1..n) = n
  BY FS_Interval
<1> QED BY <1>1 DEF NextNumber, Filled

LEMMA NumberedInit == InvoicesInit => Numbered
<1> SUFFICES ASSUME InvoicesInit PROVE Numbered
  OBVIOUS
<1>1. \A t \in InvoiceTasks : work[t].at # "told"
  BY DEF InvoicesInit, IdleWork
<1>2. Filled = 1..0
  BY DEF InvoicesInit, Filled
<1>3. NumberedTo(0)
  BY <1>1, <1>2 DEF NumberedTo, InvoicesInit
<1> QED BY <1>1, <1>3 DEF Numbered, OneNumbering

LEMMA NumberedStep ==
  InvoiceTypes /\ Numbered /\ [InvoicesNext]_invoiceVars => Numbered'
<1> SUFFICES ASSUME InvoiceTypes, Numbered, [InvoicesNext]_invoiceVars PROVE Numbered'
  OBVIOUS
<1>0. PICK n \in Nat : NumberedTo(n)
  BY DEF Numbered
<1>1. ASSUME NEW t \in InvoiceTasks, NEW many \in Numbers, SendInvoices(t, many) PROVE Numbered'
  <2> DEFINE m == n + many
             w == [at |-> "told", sent |-> (n + 1)..m]
  <2>1. NextNumber = n + 1
    BY <1>0, NextIsFree DEF NumberedTo
  <2>2. m \in Nat /\ n <= m /\ n + 1 + many - 1 = m /\ m <= MaxInvoices
    BY <1>1, <2>1, InvoiceAssumption DEF SendInvoices, Numbers
  <2>3. work' = [work EXCEPT ![t] = w]
    BY <1>1, <2>1, <2>2 DEF SendInvoices, Takes
  <2>4. /\ told' = [i \in Numbers |-> IF i \in (n + 1)..m THEN told[i] + 1 ELSE told[i]]
        /\ UNCHANGED <<invoices, broken>>
    BY <1>1, <2>1, <2>2 DEF SendInvoices
  <2>5. \A u \in InvoiceTasks : work[u].at # "told"
    BY <1>1 DEF SendInvoices, NumberingFree
  <2>6. w.at = "told" /\ w.sent = (n + 1)..m
    OBVIOUS
  <2> HIDE DEF w
  <2>7. work'[t] = w /\ \A u \in InvoiceTasks : work'[u].at = "told" => u = t
    BY <2>3, <2>5 DEF InvoiceTypes
  <2>8. OneNumbering'
    BY <2>7 DEF OneNumbering
  <2>9. Filled' = 1..n
    BY <1>0, <2>4 DEF NumberedTo, Filled
  <2>10. ASSUME ~broken, NEW i \in Numbers
         PROVE  told'[i] <= 1 /\ (told'[i] # 0 => i <= n \/ i \in (n + 1)..m)
    <3>1. told[i] \in Nat /\ told[i] <= 1 /\ (told[i] # 0 => i <= n)
      BY <1>0, <2>5, <2>10 DEF NumberedTo, InvoiceTypes
    <3>2. told'[i] = IF i \in (n + 1)..m THEN told[i] + 1 ELSE told[i]
      BY <2>4
    <3>3. i \in Nat
      BY DEF Numbers
    <3> QED BY <2>2, <3>1, <3>2, <3>3
  <2>11. NumberedTo(n)'
    BY <2>2, <2>4, <2>6, <2>7, <2>9, <2>10 DEF NumberedTo
  <2> QED BY <2>8, <2>11 DEF Numbered
<1>2. ASSUME NEW t \in InvoiceTasks, InsertInvoices(t) PROVE Numbered'
  <2>1. PICK m \in Nat : n <= m /\ m <= MaxInvoices /\ work[t].sent = (n + 1)..m
    BY <1>0, <1>2 DEF InsertInvoices, NumberedTo
  <2>2. work' = [work EXCEPT ![t] = IdleWork] /\ UNCHANGED <<told, broken>>
    BY <1>2 DEF InsertInvoices, Rests
  <2>3. \A u \in InvoiceTasks : work'[u].at # "told"
    BY <1>2, <2>2 DEF InsertInvoices, Numbered, OneNumbering, InvoiceTypes, IdleWork
  <2>4. \A i \in Numbers : invoices'[i] # NoInvoice <=> invoices[i] # NoInvoice \/ i \in (n + 1)..m
    <3>1. [status |-> "sent", paid |-> 0] # NoInvoice
      BY DEF NoInvoice
    <3> QED BY <1>2, <2>1, <3>1 DEF InsertInvoices
  <2>5. Filled' = 1..m
    <3>1. \A i \in Numbers : i \in 1..n \/ i \in (n + 1)..m <=> i \in 1..m
      BY <2>1 DEF Numbers
    <3>2. 1..m \subseteq Numbers
      BY <2>1, InvoiceAssumption DEF Numbers
    <3>3. Filled = 1..n
      BY <1>0 DEF NumberedTo
    <3>4. \A i \in Numbers : i \in Filled' <=> i \in 1..m
      BY <2>4, <3>1, <3>3 DEF Filled
    <3> QED BY <3>2, <3>4 DEF Filled
  <2>6. ASSUME ~broken, NEW i \in Numbers
        PROVE  told[i] <= 1 /\ (told[i] # 0 => i <= m)
    <3>1. told[i] <= 1 /\ (told[i] # 0 => i <= n \/ i \in (n + 1)..m)
      BY <1>0, <1>2, <2>1, <2>6 DEF NumberedTo, InsertInvoices, Numbered, OneNumbering
    <3> QED BY <2>1, <3>1 DEF Numbers
  <2>7. NumberedTo(m)'
    BY <2>2, <2>3, <2>5, <2>6 DEF NumberedTo
  <2>8. OneNumbering'
    BY <2>3 DEF OneNumbering
  <2> QED BY <2>7, <2>8 DEF Numbered
<1>3. ASSUME NEW t \in InvoiceTasks, LoseInvoices(t) PROVE Numbered'
  <2>1. work' = [work EXCEPT ![t] = IdleWork] /\ broken' /\ UNCHANGED invoices
    BY <1>3 DEF LoseInvoices, Rests
  <2>2. \A u \in InvoiceTasks : work'[u].at # "told"
    BY <1>3, <2>1 DEF LoseInvoices, Numbered, OneNumbering, InvoiceTypes, IdleWork
  <2>3. Filled' = 1..n
    BY <1>0, <2>1 DEF NumberedTo, Filled
  <2>4. NumberedTo(n)'
    BY <2>1, <2>2, <2>3 DEF NumberedTo
  <2> QED BY <2>2, <2>4 DEF Numbered, OneNumbering
<1>4. ASSUME NEW t \in InvoiceTasks, NEW w, Takes(t, w), work[t].at # "told", w.at # "told",
             UNCHANGED <<invoices, told, broken>>
      PROVE  Numbered'
  BY <1>4, NumberingKept DEF Filled
<1>5. ASSUME NEW t \in InvoiceTasks, Rests(t), work[t].at # "told", UNCHANGED <<invoices, told, broken>>
      PROVE  Numbered'
  <2>1. Takes(t, IdleWork) /\ IdleWork.at # "told"
    BY <1>5 DEF Rests, Takes, IdleWork
  <2> QED BY <1>4, <1>5, <2>1
<1>6. ASSUME NEW t \in InvoiceTasks, CancelAtSafaricom(t) PROVE Numbered'
  <2>1. PICK S \in SUBSET {i \in Numbers : invoices[i].status = "sent"} :
          Takes(t, [at |-> "cancelling", sent |-> S])
    BY <1>6 DEF CancelAtSafaricom
  <2> DEFINE w == [at |-> "cancelling", sent |-> S]
  <2>2. Takes(t, w) /\ w.at # "told" /\ work[t].at # "told" /\ UNCHANGED <<invoices, told, broken>>
    BY <1>6, <2>1 DEF CancelAtSafaricom, Idle, IdleWork
  <2> HIDE DEF w
  <2> QED BY <1>4, <2>2
<1>7. ASSUME NEW t \in InvoiceTasks, CancelInvoices(t) PROVE Numbered'
  <2>1. Takes(t, IdleWork) /\ IdleWork.at # "told" /\ work[t].at # "told" /\ UNCHANGED <<told, broken>>
    BY <1>7 DEF CancelInvoices, Rests, Takes, IdleWork
  <2>2. \A i \in Numbers : [invoices[i] EXCEPT !.status = "cancelled"] # NoInvoice
    BY DEF NoInvoice, InvoiceTypes, Invoice
  <2>3. ASSUME NEW i \in Numbers PROVE invoices'[i] # NoInvoice <=> invoices[i] # NoInvoice
    <3>1. invoices'[i] = IF i \in work[t].sent /\ Cancellable(i)
                         THEN [invoices[i] EXCEPT !.status = "cancelled"] ELSE invoices[i]
      BY <1>7 DEF CancelInvoices
    <3>2. Cancellable(i) => invoices[i] # NoInvoice
      BY DEF Cancellable, NoInvoice
    <3> QED BY <2>2, <3>1, <3>2
  <2>4. Filled' = Filled
    BY <2>3 DEF Filled
  <2> QED BY <2>1, <2>4, NumberingKept
<1>8. ASSUME NEW t \in InvoiceTasks, NEW r, NEW i,
             Takes(t, [at |-> "chosen", receipt |-> r, invoice |-> i]), work[t].at # "told",
             UNCHANGED <<invoices, told, broken>>
      PROVE  Numbered'
  <2> DEFINE w == [at |-> "chosen", receipt |-> r, invoice |-> i]
  <2>1. Takes(t, w) /\ w.at # "told"
    BY <1>8
  <2> HIDE DEF w
  <2> QED BY <1>4, <1>8, <2>1
<1>9. ASSUME NEW t \in InvoiceTasks, ReadPush(t) PROVE Numbered'
  <2>1. PICK r \in Receipts, quotes \in BOOLEAN :
          Takes(t, [at |-> "chosen", receipt |-> r,
                    invoice |-> IF quotes /\ {i \in Numbers : Open(i)} # {}
                                THEN Min({i \in Numbers : Open(i)}) ELSE Unmatched])
    BY <1>9 DEF ReadPush
  <2>2. work[t].at # "told"
    BY <1>9 DEF ReadPush, Idle, IdleWork
  <2> QED BY <1>8, <1>9, <2>1, <2>2 DEF ReadPush
<1>10. ASSUME NEW t \in InvoiceTasks, ReadByHand(t) PROVE Numbered'
  BY <1>8, <1>10 DEF ReadByHand, Idle, IdleWork
<1>11. ASSUME NEW t \in InvoiceTasks, RefuseKnown(t) \/ RecordUnmatched(t) PROVE Numbered'
  BY <1>5, <1>11 DEF RefuseKnown, RecordUnmatched
<1>12. ASSUME NEW t \in InvoiceTasks, BeginPayment(t) PROVE Numbered'
  <2> DEFINE w == [at |-> "paying", receipt |-> work[t].receipt, invoice |-> work[t].invoice,
                   paid |-> invoices[work[t].invoice].paid + Cents[work[t].receipt]]
  <2>1. Takes(t, w) /\ w.at # "told" /\ work[t].at # "told" /\ UNCHANGED <<invoices, told, broken>>
    BY <1>12 DEF BeginPayment
  <2> HIDE DEF w
  <2> QED BY <1>4, <2>1
<1>13. ASSUME NEW t \in InvoiceTasks, CommitPayment(t) PROVE Numbered'
  <2>1. Takes(t, IdleWork) /\ IdleWork.at # "told" /\ work[t].at # "told" /\ UNCHANGED <<told, broken>>
    BY <1>13 DEF CommitPayment, Rests, Takes, IdleWork
  <2>2. ASSUME NEW i \in Numbers PROVE invoices'[i] # NoInvoice <=> invoices[i] # NoInvoice
    <3>1. CASE ~Open(work[t].invoice)
      BY <1>13, <3>1 DEF CommitPayment
    <3>2. CASE Open(work[t].invoice)
      <4> DEFINE row == [status |-> IF work[t].paid >= InvoiceCents THEN "paid" ELSE "partly_paid",
                         paid |-> work[t].paid]
      <4>1. row.status # "none" /\ invoices' = [invoices EXCEPT ![work[t].invoice] = row]
        BY <1>13, <3>2 DEF CommitPayment
      <4>2. row # NoInvoice
        BY <4>1 DEF NoInvoice
      <4> HIDE DEF row
      <4>3. invoices[work[t].invoice] # NoInvoice
        BY <3>2 DEF Open, NoInvoice
      <4>4. invoices'[i] = IF i = work[t].invoice THEN row ELSE invoices[i]
        BY <4>1 DEF InvoiceTypes
      <4> QED BY <4>2, <4>3, <4>4
    <3> QED BY <3>1, <3>2
  <2>3. Filled' = Filled
    BY <2>2 DEF Filled
  <2> QED BY <2>1, <2>3, NumberingKept
<1>14. CASE UNCHANGED invoiceVars
  BY <1>14 DEF invoiceVars, Numbered, OneNumbering, NumberedTo, Filled
<1> QED
  BY <1>1, <1>2, <1>3, <1>6, <1>7, <1>9, <1>10, <1>11, <1>12, <1>13, <1>14 DEF InvoicesNext

(* Safaricom is never given two invoices under one number, however many    *)
(* people send at once, unless a transaction was lost after Safaricom was  *)
(* told (createInvoices holds the lock over max(seq), the call and the     *)
(* insert).                                                                *)
THEOREM NumberOnceAlways == InvoicesSpec => []NumberOnce
<1>1. Numbered => NumberOnce
  BY DEF Numbered, NumberedTo, NumberOnce
<1> QED BY <1>1, NumberedInit, TypesInit, TypesStep, NumberedStep, PTL DEF InvoicesSpec

(***************************************************************************)
(* The books agree.                                                        *)
(***************************************************************************)

(* What was paid was paid on an invoice on record, and a task that has an  *)
(* invoice has one on record.                                              *)
PaidOnRecord ==
  /\ IsFiniteSet(receipts)
  /\ \A p \in receipts : p.invoice \in Filled \cup {Unmatched}
  /\ \A t \in InvoiceTasks : work[t].at \in {"chosen", "paying"} =>
       work[t].invoice \in Filled \cup {Unmatched}

(* A payment being recorded holds its invoice, so that what it read of it  *)
(* is still so.                                                            *)
InvoiceHeld ==
  \A t \in InvoiceTasks : work[t].at = "paying" =>
    /\ work[t].paid = invoices[work[t].invoice].paid + Cents[work[t].receipt]
    /\ \A u \in InvoiceTasks :
         work[u].at = "paying" /\ work[u].invoice = work[t].invoice => u = t

Books == BooksAgree /\ PaidOnRecord /\ InvoiceHeld

LEMMA PaidIsNat ==
  ASSUME InvoiceTypes, PaidOnRecord, NEW i
  PROVE  PaidOn(i) \in Nat
<1> DEFINE these == {p \in receipts : p.invoice = i}
<1>1. IsFiniteSet(these)
  BY FS_Subset DEF PaidOnRecord
<1>2. \A p \in these : CentsPaid[p] \in Nat
  BY InvoiceAssumption DEF InvoiceTypes, CentsPaid, Recorded
<1>3. SumFunctionOnSet(CentsPaid, these) \in Nat
  <2> HIDE DEF these
  <2> QED BY <1>1, <1>2, SumNat
<1> QED BY <1>3 DEF PaidOn

(* A payment is added to what was paid on its invoice.                     *)
LEMMA PaidMore ==
  ASSUME InvoiceTypes, PaidOnRecord, NEW p \in Recorded, p \notin receipts,
         receipts' = receipts \cup {p}, NEW i
  PROVE  PaidOn(i)' = IF p.invoice = i THEN PaidOn(i) + Cents[p.receipt] ELSE PaidOn(i)
<1> DEFINE these == {q \in receipts : q.invoice = i}
<1>1. IsFiniteSet(these)
  BY FS_Subset DEF PaidOnRecord
<1>2. \A q \in these \cup {p} : CentsPaid[q] \in Int
  BY InvoiceAssumption DEF InvoiceTypes, CentsPaid, Recorded
<1>3. CASE p.invoice = i
  <2>1. {q \in receipts' : q.invoice = i} = these \cup {p}
    BY <1>3
  <2>2. p \notin these
    OBVIOUS
  <2>3. SumFunctionOnSet(CentsPaid, these \cup {p}) = CentsPaid[p] + SumFunctionOnSet(CentsPaid, these)
    <3> HIDE DEF these
    <3> QED BY <1>1, <1>2, <2>2, SumAdds
  <2>4. CentsPaid[p] = Cents[p.receipt] /\ CentsPaid[p] \in Int
    BY <1>2 DEF CentsPaid
  <2>5. PaidOn(i) = SumFunctionOnSet(CentsPaid, these)
        /\ PaidOn(i)' = SumFunctionOnSet(CentsPaid, these \cup {p})
    BY <2>1 DEF PaidOn
  <2>6. PaidOn(i) \in Nat
    BY PaidIsNat
  <2> HIDE DEF these
  <2> QED BY <1>3, <2>3, <2>4, <2>5, <2>6
<1>4. CASE p.invoice # i
  <2>1. {q \in receipts' : q.invoice = i} = these
    BY <1>4
  <2> QED BY <1>4, <2>1 DEF PaidOn
<1> QED BY <1>3, <1>4

(* Nothing was paid on an invoice that is not on record.                   *)
LEMMA NothingPaid ==
  ASSUME PaidOnRecord, NEW i \in Numbers, i \notin Filled
  PROVE  PaidOn(i) = 0
<1>1. {p \in receipts : p.invoice = i} = {}
  BY DEF PaidOnRecord, Numbers, Unmatched
<1> QED BY <1>1, SumEmpty DEF PaidOn

(* A step that records nothing and starts no payment.                      *)
LEMMA BooksKept ==
  ASSUME InvoiceTypes, Books, NEW t \in InvoiceTasks, NEW w, Takes(t, w), w.at # "paying",
         w.at = "chosen" => w.invoice \in Filled \cup {Unmatched},
         UNCHANGED <<invoices, receipts>>
  PROVE  Books'
<1>1. \A u \in InvoiceTasks : work'[u] = IF u = t THEN w ELSE work[u]
  BY DEF Takes, InvoiceTypes
<1>2. BooksAgree'
  BY DEF Books, BooksAgree, Open, PaidOn
<1>3. Filled' = Filled
  BY DEF Filled
<1>4. PaidOnRecord'
  BY <1>1, <1>3 DEF Books, PaidOnRecord
<1>5. InvoiceHeld'
  BY <1>1 DEF Books, InvoiceHeld
<1> QED BY <1>2, <1>4, <1>5 DEF Books

LEMMA InsertKeepsBooks ==
  ASSUME InvoiceTypes, Numbered, Books, NEW t \in InvoiceTasks, InsertInvoices(t)
  PROVE  Books'
<1> DEFINE fresh == work[t].sent
<1>0. \A i \in fresh : i \in Numbers /\ i \notin Filled
  <2>1. PICK n \in Nat : NumberedTo(n)
    BY DEF Numbered
  <2>2. PICK m \in Nat : m <= MaxInvoices /\ fresh = (n + 1)..m
    BY <2>1 DEF InsertInvoices, NumberedTo
  <2>3. Filled = 1..n
    BY <2>1 DEF NumberedTo
  <2> QED BY <2>2, <2>3, InvoiceAssumption DEF Numbers
<1>1. \A u \in InvoiceTasks : work'[u] = IF u = t THEN IdleWork ELSE work[u]
  BY DEF InsertInvoices, Rests, InvoiceTypes
<1>2. \A i \in Numbers : invoices'[i] = IF i \in fresh THEN [status |-> "sent", paid |-> 0] ELSE invoices[i]
  BY DEF InsertInvoices
<1>3. receipts' = receipts /\ \A i \in Numbers : PaidOn(i)' = PaidOn(i)
  BY DEF InsertInvoices, PaidOn
<1>4. Filled \subseteq Filled'
  BY <1>2 DEF Filled, NoInvoice
<1>5. BooksAgree'
  <2>1. ASSUME NEW i \in fresh
        PROVE  i \in Numbers /\ invoices'[i] = [status |-> "sent", paid |-> 0] /\ PaidOn(i)' = 0
    BY <1>0, <1>2, <1>3, NothingPaid DEF Books
  <2>2. ASSUME NEW i \in Numbers \ fresh
        PROVE  invoices'[i] = invoices[i] /\ PaidOn(i)' = PaidOn(i)
    BY <1>2, <1>3
  <2>3. 0 >= InvoiceCents <=> FALSE
    BY InvoiceAssumption
  <2> HIDE DEF fresh
  <2>4. ASSUME NEW i \in Numbers
        PROVE  /\ Open(i)' => invoices'[i].paid = PaidOn(i)'
               /\ Open(i)' => (invoices'[i].status = "sent" <=> invoices'[i].paid = 0)
               /\ invoices'[i].status = "paid" <=> invoices'[i].paid >= InvoiceCents
               /\ invoices'[i].status = "cancelled" => invoices'[i].paid = 0
    <3>1. CASE i \in fresh
      BY <2>1, <2>3, <3>1
    <3>2. CASE i \notin fresh
      <4>1. invoices'[i] = invoices[i] /\ PaidOn(i)' = PaidOn(i)
        BY <2>2, <3>2
      <4> QED BY <4>1 DEF Books, BooksAgree, Open
    <3> QED BY <3>1, <3>2
  <2> QED BY <2>4 DEF BooksAgree
<1>6. PaidOnRecord'
  BY <1>1, <1>3, <1>4 DEF Books, PaidOnRecord, IdleWork
<1>7. InvoiceHeld'
  <2>1. ASSUME NEW u \in InvoiceTasks, work'[u].at = "paying"
        PROVE  work'[u] = work[u] /\ invoices'[work[u].invoice] = invoices[work[u].invoice]
    <3>1. work'[u] = work[u]
      BY <1>1, <2>1 DEF IdleWork
    <3>2. work[u].invoice \in Numbers
      BY <2>1, <3>1, AtTells DEF Paying
    <3>3. work[u].invoice \in Filled
      BY <2>1, <3>1, <3>2 DEF Books, PaidOnRecord, Numbers, Unmatched
    <3>4. work[u].invoice \notin fresh
      BY <1>0, <3>3
    <3> QED BY <1>2, <3>1, <3>2, <3>4
  <2> QED BY <2>1 DEF Books, InvoiceHeld
<1> QED BY <1>5, <1>6, <1>7 DEF Books

LEMMA CancelKeepsBooks ==
  ASSUME InvoiceTypes, Books, NEW t \in InvoiceTasks, CancelInvoices(t)
  PROVE  Books'
<1>1. \A u \in InvoiceTasks : work'[u] = IF u = t THEN IdleWork ELSE work[u]
  BY DEF CancelInvoices, Rests, InvoiceTypes
<1>2. receipts' = receipts /\ \A i \in Numbers : PaidOn(i)' = PaidOn(i)
  BY DEF CancelInvoices, PaidOn
<1>3. ASSUME NEW i \in Numbers
      PROVE  \/ invoices'[i] = invoices[i]
             \/ invoices[i].status = "sent" /\ invoices'[i] = [invoices[i] EXCEPT !.status = "cancelled"]
  BY DEF CancelInvoices, Cancellable
<1>4. ASSUME NEW i \in Numbers
      PROVE  /\ invoices'[i].paid = invoices[i].paid
             /\ \/ invoices'[i].status = invoices[i].status
                \/ invoices[i].status = "sent" /\ invoices'[i].status = "cancelled"
  BY <1>3 DEF InvoiceTypes, Invoice
<1>5. Filled \subseteq Filled'
  <2>1. ASSUME NEW i \in Filled PROVE invoices'[i] # NoInvoice
    <3>1. CASE invoices'[i] = invoices[i]
      BY <3>1 DEF Filled
    <3>2. CASE invoices'[i] = [invoices[i] EXCEPT !.status = "cancelled"]
      <4>1. invoices'[i].status = "cancelled"
        BY <3>2 DEF Filled, InvoiceTypes, Invoice
      <4> QED BY <4>1 DEF NoInvoice
    <3> QED BY <1>3, <3>1, <3>2 DEF Filled
  <2> QED BY <2>1 DEF Filled
<1>6. BooksAgree'
  <2>1. ASSUME NEW i \in Numbers
        PROVE  /\ Open(i)' => invoices'[i].paid = PaidOn(i)'
               /\ Open(i)' => (invoices'[i].status = "sent" <=> invoices'[i].paid = 0)
               /\ invoices'[i].status = "paid" <=> invoices'[i].paid >= InvoiceCents
               /\ invoices'[i].status = "cancelled" => invoices'[i].paid = 0
    <3>1. PaidOn(i)' = PaidOn(i) /\ invoices'[i].paid = invoices[i].paid
      BY <1>2, <1>4
    <3>2. invoices[i].status = "sent" => invoices[i].paid = 0
      BY DEF Books, BooksAgree, Open
    <3> QED BY <1>4, <3>1, <3>2 DEF Books, BooksAgree, Open
  <2> QED BY <2>1 DEF BooksAgree
<1>7. PaidOnRecord'
  BY <1>1, <1>2, <1>5 DEF Books, PaidOnRecord, IdleWork
<1>8. InvoiceHeld'
  <2>1. ASSUME NEW u \in InvoiceTasks, work'[u].at = "paying"
        PROVE  work'[u] = work[u] /\ invoices'[work[u].invoice].paid = invoices[work[u].invoice].paid
    <3>1. work'[u] = work[u]
      BY <1>1, <2>1 DEF IdleWork
    <3>2. work[u].invoice \in Numbers
      BY <2>1, <3>1, AtTells DEF Paying
    <3> QED BY <1>4, <3>1, <3>2
  <2> QED BY <2>1 DEF Books, InvoiceHeld
<1> QED BY <1>6, <1>7, <1>8 DEF Books

LEMMA BeginKeepsBooks ==
  ASSUME InvoiceTypes, Books, NEW t \in InvoiceTasks, BeginPayment(t)
  PROVE  Books'
<1>1. work[t] \in Chosen /\ work[t].invoice \in Numbers
  BY AtTells DEF BeginPayment, Chosen
<1>2. PICK w \in Paying : /\ w.invoice = work[t].invoice /\ w.receipt = work[t].receipt
                          /\ w.paid = invoices[w.invoice].paid + Cents[w.receipt]
                          /\ Takes(t, w)
  <2> DEFINE w == [at |-> "paying", receipt |-> work[t].receipt, invoice |-> work[t].invoice,
                   paid |-> invoices[work[t].invoice].paid + Cents[work[t].receipt]]
  <2>1. work[t].receipt \in Receipts /\ invoices[work[t].invoice].paid \in Nat
        /\ Cents[work[t].receipt] \in Nat
    BY <1>1, InvoiceAssumption DEF Chosen, InvoiceTypes, Invoice
  <2>2. w \in Paying /\ Takes(t, w)
    BY <1>1, <2>1 DEF Paying, BeginPayment
  <2> QED BY <2>2
<1>3. \A u \in InvoiceTasks : work'[u] = IF u = t THEN w ELSE work[u]
  BY <1>2 DEF Takes, InvoiceTypes
<1>4. UNCHANGED <<invoices, receipts>>
  BY DEF BeginPayment
<1>5. BooksAgree' /\ Filled' = Filled
  BY <1>4 DEF Books, BooksAgree, Open, PaidOn, Filled
<1>6. PaidOnRecord'
  <2>1. w.invoice \in Filled \cup {Unmatched}
    BY <1>2 DEF Books, PaidOnRecord, BeginPayment
  <2> QED BY <1>3, <1>4, <1>5, <2>1 DEF Books, PaidOnRecord
<1>7. InvoiceHeld'
  <2>1. \A u \in InvoiceTasks : work[u].at = "paying" => work[u].invoice # w.invoice
    BY <1>2 DEF BeginPayment, InvoiceFree, HeldByPayment
  <2> QED BY <1>2, <1>3, <1>4, <2>1 DEF Books, InvoiceHeld
<1> QED BY <1>5, <1>6, <1>7 DEF Books

LEMMA UnmatchedKeepsBooks ==
  ASSUME InvoiceTypes, Books, NEW t \in InvoiceTasks, RecordUnmatched(t)
  PROVE  Books'
<1>1. PICK p \in Recorded : /\ p.invoice = Unmatched /\ p \notin receipts
                            /\ receipts' = receipts \cup {p}
  <2> DEFINE p == Row(t, work[t].receipt, Unmatched)
  <2>1. p \in Recorded /\ p.invoice = Unmatched
    BY AtTells DEF RecordUnmatched, Row, Recorded, Chosen
  <2>2. p \notin receipts
    BY DEF RecordUnmatched, Known, Row
  <2> QED BY <2>1, <2>2 DEF RecordUnmatched
<1>2. \A u \in InvoiceTasks : work'[u] = IF u = t THEN IdleWork ELSE work[u]
  BY DEF RecordUnmatched, Rests, InvoiceTypes
<1>3. invoices' = invoices
  BY DEF RecordUnmatched
<1>4. \A i \in Numbers : PaidOn(i)' = PaidOn(i)
  <2>1. \A i \in Numbers : p.invoice # i
    BY <1>1 DEF Numbers, Unmatched
  <2> QED BY <1>1, <2>1, PaidMore DEF Books
<1>5. BooksAgree' /\ Filled' = Filled
  BY <1>3, <1>4 DEF Books, BooksAgree, Open, Filled
<1>6. IsFiniteSet(receipts')
  BY <1>1, FS_AddElement DEF Books, PaidOnRecord
<1>7. PaidOnRecord'
  BY <1>1, <1>2, <1>5, <1>6 DEF Books, PaidOnRecord, IdleWork
<1>8. InvoiceHeld'
  BY <1>2, <1>3 DEF Books, InvoiceHeld, IdleWork
<1> QED BY <1>5, <1>7, <1>8 DEF Books

LEMMA CommitKeepsBooks ==
  ASSUME InvoiceTypes, PaidOnceSoFar, Books, NEW t \in InvoiceTasks, CommitPayment(t)
  PROVE  Books'
<1>0. work[t] \in Paying
  BY AtTells DEF CommitPayment
<1>1. PICK i \in Numbers : i = work[t].invoice
  BY <1>0 DEF Paying
<1>2. PICK amount \in Nat : amount = work[t].paid
  BY <1>0 DEF Paying
<1>3. PICK p \in Recorded : /\ p.invoice = i /\ p.receipt = work[t].receipt /\ p \notin receipts
                            /\ receipts' = receipts \cup {p}
  <2> DEFINE p == Row(t, work[t].receipt, work[t].invoice)
  <2>1. p \in Recorded /\ p.invoice = i /\ p.receipt = work[t].receipt
    BY <1>0, <1>1 DEF Row, Recorded, Paying
  <2>2. p \notin receipts
    BY <2>1 DEF CommitPayment, PaidOnceSoFar, ReceiptHeld, Known
  <2> QED BY <2>1, <2>2 DEF CommitPayment
<1>4. \A u \in InvoiceTasks : work'[u] = IF u = t THEN IdleWork ELSE work[u]
  BY DEF CommitPayment, Rests, InvoiceTypes
<1>5. amount = invoices[i].paid + Cents[p.receipt] /\ Cents[p.receipt] \in Nat \ {0}
      /\ invoices[i].paid \in Nat
  BY <1>1, <1>2, <1>3, InvoiceAssumption
  DEF CommitPayment, Books, InvoiceHeld, Recorded, InvoiceTypes, Invoice
<1>6. \A j \in Numbers : PaidOn(j)' = IF j = i THEN PaidOn(i) + Cents[p.receipt] ELSE PaidOn(j)
  BY <1>3, PaidMore DEF Books
<1>7. \A j \in Numbers : j # i \/ ~Open(i) => invoices'[j] = invoices[j]
  BY <1>1 DEF CommitPayment, InvoiceTypes
<1>8. Open(i) => invoices'[i] = [status |-> IF amount >= InvoiceCents THEN "paid" ELSE "partly_paid",
                                 paid |-> amount]
  BY <1>1, <1>2 DEF CommitPayment, InvoiceTypes
<1>9. Filled' = Filled
  <2>1. ASSUME NEW j \in Numbers PROVE invoices'[j] # NoInvoice <=> invoices[j] # NoInvoice
    <3>1. CASE j # i \/ ~Open(i)
      BY <1>7, <3>1
    <3>2. CASE j = i /\ Open(i)
      <4>1. invoices[j].status # "none" /\ invoices'[j].status # "none"
        BY <1>8, <3>2 DEF Open
      <4> QED BY <4>1 DEF NoInvoice
    <3> QED BY <3>1, <3>2
  <2> QED BY <2>1 DEF Filled
<1>10. BooksAgree'
  <2>1. ASSUME NEW j \in Numbers
        PROVE  /\ Open(j)' => invoices'[j].paid = PaidOn(j)'
               /\ Open(j)' => (invoices'[j].status = "sent" <=> invoices'[j].paid = 0)
               /\ invoices'[j].status = "paid" <=> invoices'[j].paid >= InvoiceCents
               /\ invoices'[j].status = "cancelled" => invoices'[j].paid = 0
    <3>1. CASE j = i /\ Open(i)
      <4>1. invoices'[j].paid = amount
            /\ invoices'[j].status = (IF amount >= InvoiceCents THEN "paid" ELSE "partly_paid")
        BY <1>8, <3>1
      <4>2. invoices[i].paid = PaidOn(i)
        BY <3>1 DEF Books, BooksAgree
      <4>3. PaidOn(j)' = amount /\ amount # 0
        BY <1>5, <1>6, <3>1, <4>2
      <4> QED BY <4>1, <4>3
    <3>2. CASE j # i
      <4>1. invoices'[j] = invoices[j] /\ PaidOn(j)' = PaidOn(j)
        BY <1>6, <1>7, <3>2
      <4> QED BY <4>1 DEF Books, BooksAgree, Open
    <3>3. CASE j = i /\ ~Open(i)
      <4>1. invoices'[j] = invoices[j]
        BY <1>7, <3>3
      <4> QED BY <3>3, <4>1 DEF Books, BooksAgree, Open
    <3> QED BY <3>1, <3>2, <3>3
  <2> QED BY <2>1 DEF BooksAgree
<1>11. IsFiniteSet(receipts')
  BY <1>3, FS_AddElement DEF Books, PaidOnRecord
<1>12. PaidOnRecord'
  <2>1. p.invoice \in Filled \cup {Unmatched}
    BY <1>1, <1>3 DEF Books, PaidOnRecord, CommitPayment
  <2> QED BY <1>3, <1>4, <1>9, <1>11, <2>1 DEF Books, PaidOnRecord, IdleWork
<1>13. InvoiceHeld'
  <2>1. ASSUME NEW u \in InvoiceTasks, work'[u].at = "paying"
        PROVE  work'[u] = work[u] /\ invoices'[work[u].invoice] = invoices[work[u].invoice]
    <3>1. work'[u] = work[u] /\ u # t
      BY <1>4, <2>1 DEF IdleWork
    <3>2. work[u].invoice \in Numbers /\ work[u].invoice # i
      BY <1>1, <2>1, <3>1, AtTells DEF Paying, Books, InvoiceHeld, CommitPayment
    <3> QED BY <1>7, <3>1, <3>2
  <2> QED BY <2>1 DEF Books, InvoiceHeld
<1> QED BY <1>10, <1>12, <1>13 DEF Books

LEMMA BooksStep ==
  InvoiceTypes /\ PaidOnceSoFar /\ Numbered /\ Books /\ [InvoicesNext]_invoiceVars => Books'
<1> SUFFICES ASSUME InvoiceTypes, PaidOnceSoFar, Numbered, Books, [InvoicesNext]_invoiceVars
             PROVE  Books'
  OBVIOUS
<1>1. ASSUME NEW t \in InvoiceTasks, Rests(t), UNCHANGED <<invoices, receipts>> PROVE Books'
  <2>1. Takes(t, IdleWork) /\ IdleWork.at = "idle"
    BY <1>1 DEF Rests, Takes, IdleWork
  <2> HIDE DEF IdleWork
  <2> QED BY <1>1, <2>1, BooksKept
<1>2. ASSUME NEW t \in InvoiceTasks, NEW n \in Numbers, SendInvoices(t, n) PROVE Books'
  <2> DEFINE w == [at |-> "told", sent |-> NextNumber..NextNumber + n - 1]
  <2>1. Takes(t, w) /\ w.at = "told" /\ UNCHANGED <<invoices, receipts>>
    BY <1>2 DEF SendInvoices
  <2> HIDE DEF w
  <2> QED BY <2>1, BooksKept
<1>3. ASSUME NEW t \in InvoiceTasks, CancelAtSafaricom(t) PROVE Books'
  <2>1. PICK S \in SUBSET {i \in Numbers : invoices[i].status = "sent"} :
          Takes(t, [at |-> "cancelling", sent |-> S])
    BY <1>3 DEF CancelAtSafaricom
  <2> DEFINE w == [at |-> "cancelling", sent |-> S]
  <2>2. Takes(t, w) /\ w.at = "cancelling" /\ UNCHANGED <<invoices, receipts>>
    BY <1>3, <2>1 DEF CancelAtSafaricom
  <2> HIDE DEF w
  <2> QED BY <2>2, BooksKept
<1>4. ASSUME NEW t \in InvoiceTasks, NEW r, NEW i \in Filled \cup {Unmatched},
             Takes(t, [at |-> "chosen", receipt |-> r, invoice |-> i]),
             UNCHANGED <<invoices, receipts>>
      PROVE  Books'
  <2> DEFINE w == [at |-> "chosen", receipt |-> r, invoice |-> i]
  <2>1. Takes(t, w) /\ w.at = "chosen" /\ w.invoice = i
    BY <1>4
  <2> HIDE DEF w
  <2> QED BY <1>4, <2>1, BooksKept
<1>5. \A i \in Numbers : Open(i) => i \in Filled
  BY DEF Open, Filled, NoInvoice
<1>6. ASSUME NEW t \in InvoiceTasks, ReadPush(t) PROVE Books'
  <2> DEFINE open == {i \in Numbers : Open(i)}
             i(quotes) == IF quotes /\ open # {} THEN Min(open) ELSE Unmatched
  <2>1. PICK r \in Receipts, quotes \in BOOLEAN :
          Takes(t, [at |-> "chosen", receipt |-> r, invoice |-> i(quotes)])
    BY <1>6 DEF ReadPush
  <2>2. open # {} => Min(open) \in open
    BY FirstInvoice
  <2>3. i(quotes) \in Filled \cup {Unmatched}
    BY <1>5, <2>2
  <2>4. UNCHANGED <<invoices, receipts>>
    BY <1>6 DEF ReadPush
  <2> HIDE DEF i
  <2> QED BY <1>4, <2>1, <2>3, <2>4
<1>7. ASSUME NEW t \in InvoiceTasks, ReadByHand(t) PROVE Books'
  <2>1. PICK r \in Receipts, i \in Numbers :
          Open(i) /\ Takes(t, [at |-> "chosen", receipt |-> r, invoice |-> i])
    BY <1>7 DEF ReadByHand
  <2>2. i \in Filled
    BY <1>5, <2>1
  <2> QED BY <1>4, <1>7, <2>1, <2>2 DEF ReadByHand
<1>8. ASSUME NEW t \in InvoiceTasks, LoseInvoices(t) \/ RefuseKnown(t) PROVE Books'
  BY <1>1, <1>8 DEF LoseInvoices, RefuseKnown
<1>9. CASE UNCHANGED invoiceVars
  BY <1>9 DEF invoiceVars, Books, BooksAgree, Open, PaidOn, PaidOnRecord, InvoiceHeld, Filled
<1> QED
  BY <1>2, <1>3, <1>6, <1>7, <1>8, <1>9, InsertKeepsBooks, CancelKeepsBooks, BeginKeepsBooks,
     UnmatchedKeepsBooks, CommitKeepsBooks
  DEF InvoicesNext

(* What an open invoice says was paid is what was paid on it, whichever    *)
(* payments arrive together, and what was paid on is not cancelled         *)
(* (applyPayment reads the invoice FOR UPDATE and writes it in the same    *)
(* transaction; cancelInvoices writes only what is still 'sent').          *)
THEOREM BooksAgreeAlways == InvoicesSpec => []BooksAgree
<1>1. InvoicesInit => Books
  <2> SUFFICES ASSUME InvoicesInit PROVE Books
    OBVIOUS
  <2>1. PaidOnRecord
    BY FS_EmptySet DEF InvoicesInit, PaidOnRecord, IdleWork
  <2>2. InvoiceHeld
    BY DEF InvoicesInit, InvoiceHeld, IdleWork
  <2>3. BooksAgree
    BY InvoiceAssumption DEF InvoicesInit, BooksAgree, Open, NoInvoice
  <2> QED BY <2>1, <2>2, <2>3 DEF Books
<1>2. Books => BooksAgree
  BY DEF Books
<1> QED
  BY <1>1, <1>2, TypesInit, TypesStep, PaidOnceInit, PaidOnceStep, NumberedInit, NumberedStep,
     BooksStep, PTL
  DEF InvoicesSpec

(***************************************************************************)
(* Taking a payment back, through restarts, lost acknowledgements and      *)
(* timeouts, when no statement fails and no status answer comes late.      *)
(***************************************************************************)

(***************************************************************************)
(* The invariant.  Only the attempt a row is at may take the money back,   *)
(* the ones before it were refused or never arrived, and while it may, the *)
(* row does not read as failed: so the receipt is not free.                *)
(***************************************************************************)

ReversalRow == [status : Statuses, try : Tries, acked : BOOLEAN]
Doings == {"nothing", "hold", "call", "acked", "unclear", "declined", "refused"}
Outcomes == {"nothing", "accepted", "reversed", "spent", "refused"}

ReversalsTypeOK ==
  /\ reversals \in [Reversals -> ReversalRow]
  /\ hands \in [Reversals -> Doings]
  /\ taken \in [Reversals \X Tries -> Outcomes]

OutcomesOf(r) == [t \in Tries |-> taken[<<r, t>>]]

\* x is a row, h what is about to be done for it, o what became of its attempts.
LastAlone(x, o) ==
  /\ \A t \in Tries : x.try < t => o[t] = "nothing"
  /\ \A t \in Tries : t < x.try => o[t] \in {"nothing", "refused"}

Admits(x, o) ==
  /\ o[x.try] \in {"accepted", "reversed"} => x.status \in Unsettled \cup {"completed"}
  /\ x.status \in {"none", "awaiting_approval", "rejected"} => o[x.try] = "nothing" /\ ~x.acked

Busy(x, h, o) ==
  /\ h # "nothing" => x.status = "pending" /\ ~x.acked
  /\ h \in {"hold", "call", "declined"} => o[x.try] = "nothing"
  /\ h = "refused" => o[x.try] \in {"nothing", "refused"}

Fits(x, h, o) == LastAlone(x, o) /\ Admits(x, o) /\ Busy(x, h, o)

InPlay(r) == reversals[r].status \notin OutOfPlay

OneInPlay == \A r, s \in Reversals : InPlay(r) /\ InPlay(s) => r = s

ReversalsInv ==
  /\ ReversalsTypeOK
  /\ \A r \in Reversals : Fits(reversals[r], hands[r], OutcomesOf(r))
  /\ OneInPlay

LEMMA OnlyTheLastTakes ==
  ASSUME ReversalsInv PROVE TakenBackOnce
<1>1. ASSUME NEW r \in Reversals, NEW t \in Tries, taken[<<r, t>>] = "reversed"
      PROVE  t = reversals[r].try /\ InPlay(r)
  <2>1. /\ LastAlone(reversals[r], OutcomesOf(r)) /\ Admits(reversals[r], OutcomesOf(r))
        /\ reversals[r] \in ReversalRow
    BY DEF ReversalsInv, ReversalsTypeOK, Fits
  <2>2. OutcomesOf(r)[t] = "reversed"
    BY <1>1 DEF OutcomesOf
  <2>3. t = reversals[r].try
    BY <2>1, <2>2, ReversalsAssumption DEF LastAlone, ReversalRow, Tries
  <2>4. reversals[r].status \in Unsettled \cup {"completed"}
    BY <2>1, <2>2, <2>3 DEF Admits
  <2> QED BY <2>3, <2>4 DEF InPlay, OutOfPlay, Unsettled
<1>2. ASSUME NEW a \in Reversals \X Tries, NEW b \in Reversals \X Tries,
             taken[a] = "reversed", taken[b] = "reversed"
      PROVE  a = b
  <2>1. PICK r \in Reversals, t \in Tries : a = <<r, t>>
    OBVIOUS
  <2>2. PICK s \in Reversals, u \in Tries : b = <<s, u>>
    OBVIOUS
  <2>3. t = reversals[r].try /\ InPlay(r) /\ u = reversals[s].try /\ InPlay(s)
    BY <1>1, <1>2, <2>1, <2>2
  <2>4. r = s
    BY <2>3 DEF ReversalsInv, OneInPlay
  <2> QED BY <2>1, <2>2, <2>3, <2>4
<1> QED BY <1>2 DEF TakenBackOnce

LEMMA ReversalsInvInit == ReversalsInit => ReversalsInv
<1> SUFFICES ASSUME ReversalsInit PROVE ReversalsInv
  OBVIOUS
<1>1. 1 \in Tries
  BY ReversalsAssumption DEF Tries
<1>2. ReversalsTypeOK
  BY <1>1 DEF ReversalsInit, ReversalsTypeOK, ReversalRow, Statuses, Doings, Outcomes
<1>3. ASSUME NEW r \in Reversals PROVE Fits(reversals[r], hands[r], OutcomesOf(r))
  <2>1. /\ reversals[r].try = 1 /\ reversals[r].status = "none" /\ reversals[r].acked = FALSE
        /\ hands[r] = "nothing"
    BY DEF ReversalsInit
  <2>2. \A t \in Tries : OutcomesOf(r)[t] = "nothing"
    BY DEF ReversalsInit, OutcomesOf
  <2> QED BY <1>1, <2>1, <2>2 DEF Fits, LastAlone, Admits, Busy
<1>4. OneInPlay
  BY DEF ReversalsInit, OneInPlay, InPlay, OutOfPlay
<1> QED BY <1>2, <1>3, <1>4 DEF ReversalsInv

(***************************************************************************)
(* A step is about one row: it need only show that this row still fits,    *)
(* and that it was in play, is not, or is alone.                           *)
(***************************************************************************)

Enters(r, x) ==
  \/ x.status \in OutOfPlay
  \/ InPlay(r)
  \/ \A s \in Reversals : ~InPlay(s)

OthersUntouched(r) ==
  \A s \in Reversals : s # r => \A t \in Tries : taken'[<<s, t>>] = taken[<<s, t>>]

LEMMA OneRowMoves ==
  ASSUME ReversalsInv, NEW r \in Reversals, NEW x \in ReversalRow, NEW h \in Doings,
         reversals' = [reversals EXCEPT ![r] = x],
         hands' = [hands EXCEPT ![r] = h],
         taken' \in [Reversals \X Tries -> Outcomes],
         OthersUntouched(r),
         Fits(x, h, OutcomesOf(r)'),
         Enters(r, x)
  PROVE  ReversalsInv'
<1>1. ReversalsTypeOK'
  BY DEF ReversalsInv, ReversalsTypeOK
<1>2. ASSUME NEW s \in Reversals PROVE Fits(reversals[s], hands[s], OutcomesOf(s))'
  <2>1. CASE s = r
    <3>1. reversals'[s] = x /\ hands'[s] = h
      BY <2>1 DEF ReversalsInv, ReversalsTypeOK
    <3> QED BY <2>1, <3>1
  <2>2. CASE s # r
    <3>1. reversals'[s] = reversals[s] /\ hands'[s] = hands[s]
      BY <2>2 DEF ReversalsInv, ReversalsTypeOK
    <3>2. OutcomesOf(s)' = OutcomesOf(s)
      BY <2>2 DEF OutcomesOf, OthersUntouched
    <3>3. Fits(reversals[s], hands[s], OutcomesOf(s))
      BY DEF ReversalsInv
    <3> QED BY <3>1, <3>2, <3>3
  <2> QED BY <2>1, <2>2
<1>3. ASSUME NEW s \in Reversals, NEW u \in Reversals, InPlay(s)', InPlay(u)'
      PROVE  s = u
  <2>1. \A v \in Reversals : v # r => (InPlay(v)' <=> InPlay(v))
    BY DEF InPlay, ReversalsInv, ReversalsTypeOK
  <2>2. InPlay(r)' <=> x.status \notin OutOfPlay
    BY DEF InPlay, ReversalsInv, ReversalsTypeOK
  <2> QED BY <1>3, <2>1, <2>2 DEF Enters, ReversalsInv, OneInPlay
<1> QED BY <1>1, <1>2, <1>3 DEF ReversalsInv, OneInPlay

\* The same, of a step that leaves Safaricom alone.
LEMMA OnlyTheRowMoves ==
  ASSUME ReversalsInv, NEW r \in Reversals, NEW x \in ReversalRow, NEW h \in Doings,
         reversals' = [reversals EXCEPT ![r] = x],
         hands' = [hands EXCEPT ![r] = h],
         UNCHANGED taken,
         Fits(x, h, OutcomesOf(r)),
         Enters(r, x)
  PROVE  ReversalsInv'
<1>1. taken' \in [Reversals \X Tries -> Outcomes] /\ OthersUntouched(r)
  BY DEF ReversalsInv, ReversalsTypeOK, OthersUntouched
<1>2. OutcomesOf(r)' = OutcomesOf(r)
  BY DEF OutcomesOf
<1>3. Fits(x, h, OutcomesOf(r)')
  BY <1>2
<1> QED BY <1>1, <1>3, OneRowMoves

\* The row r with another status, what is to be done for it being h.
Restated(r, s) == [reversals[r] EXCEPT !.status = s]

LEMMA RestatedRow ==
  ASSUME ReversalsInv, NEW r \in Reversals, NEW s \in Statuses
  PROVE  /\ Restated(r, s) \in ReversalRow
         /\ Restated(r, s).status = s
         /\ Restated(r, s).try = reversals[r].try
         /\ Restated(r, s).acked = reversals[r].acked
BY DEF ReversalsInv, ReversalsTypeOK, ReversalRow, Restated

LEMMA StatusMoves ==
  ASSUME ReversalsInv, NEW r \in Reversals, NEW s \in Statuses, NEW h \in Doings,
         reversals' = [reversals EXCEPT ![r] = Restated(r, s)],
         hands' = [hands EXCEPT ![r] = h],
         UNCHANGED taken,
         Admits(Restated(r, s), OutcomesOf(r)),
         Busy(Restated(r, s), h, OutcomesOf(r)),
         s \in OutOfPlay \/ InPlay(r) \/ \A q \in Reversals : ~InPlay(q)
  PROVE  ReversalsInv'
<1>1. LastAlone(Restated(r, s), OutcomesOf(r))
  BY RestatedRow DEF LastAlone, ReversalsInv, Fits
<1>2. Enters(r, Restated(r, s))
  BY RestatedRow DEF Enters
<1> QED BY <1>1, <1>2, RestatedRow, OnlyTheRowMoves DEF Fits

LEMMA SetWhereIs ==
  ASSUME NEW r \in Reversals, NEW ss, NEW s, SetWhere(r, ss, s), ReversalsInv
  PROVE  \/ /\ reversals[r].status \in ss
            /\ reversals' = [reversals EXCEPT ![r] = Restated(r, s)]
         \/ /\ reversals[r].status \notin ss
            /\ reversals' = [reversals EXCEPT ![r] = reversals[r]]
BY DEF SetWhere, Restated, ReversalsInv, ReversalsTypeOK

LEMMA RowIs ==
  ASSUME ReversalsInv, NEW r \in Reversals
  PROVE  /\ reversals[r] \in ReversalRow /\ reversals[r].status \in Statuses
         /\ reversals[r].try \in Tries /\ hands[r] \in Doings
         /\ OutcomesOf(r)[reversals[r].try] = taken[<<r, reversals[r].try>>]
         /\ LastAlone(reversals[r], OutcomesOf(r)) /\ Admits(reversals[r], OutcomesOf(r))
         /\ Busy(reversals[r], hands[r], OutcomesOf(r))
BY DEF ReversalsInv, ReversalsTypeOK, ReversalRow, Fits, OutcomesOf

LEMMA HandsStay ==
  ASSUME ReversalsInv, NEW r \in Reversals
  PROVE  hands = [hands EXCEPT ![r] = hands[r]]
BY DEF ReversalsInv, ReversalsTypeOK

\* A step that moves the row by SetWhere and leaves h to be done.
LEMMA Records ==
  ASSUME ReversalsInv, NEW r \in Reversals, NEW ss, NEW s \in Statuses, NEW h \in Doings,
         SetWhere(r, ss, s), hands' = [hands EXCEPT ![r] = h], UNCHANGED taken,
         reversals[r].status \in ss =>
           /\ Admits(Restated(r, s), OutcomesOf(r))
           /\ Busy(Restated(r, s), h, OutcomesOf(r))
           /\ s \in OutOfPlay \/ InPlay(r) \/ \A q \in Reversals : ~InPlay(q),
         reversals[r].status \notin ss => h \in {"nothing", hands[r]}
  PROVE  ReversalsInv'
<1>1. CASE reversals[r].status \in ss
  BY <1>1, SetWhereIs, StatusMoves
<1>2. CASE reversals[r].status \notin ss
  <2>1. reversals' = [reversals EXCEPT ![r] = reversals[r]]
    BY <1>2, SetWhereIs
  <2>2. Busy(reversals[r], h, OutcomesOf(r))
    BY <1>2, RowIs DEF Busy
  <2>3. Enters(r, reversals[r])
    BY DEF Enters, InPlay
  <2> QED BY <2>1, <2>2, <2>3, RowIs, OnlyTheRowMoves DEF Fits
<1> QED BY <1>1, <1>2

LEMMA AskingKeeps ==
  ASSUME ReversalsInv, NEW r \in Reversals,
         \/ \E hold \in BOOLEAN : RequestReversal(r, hold)
         \/ HoldReversal(r) \/ ReleaseReversal(r) \/ TurnDownReversal(r)
  PROVE  ReversalsInv'
<1>1. CASE \E hold \in BOOLEAN : RequestReversal(r, hold)
  <2>1. PICK hold \in BOOLEAN : RequestReversal(r, hold)
    BY <1>1
  <2> DEFINE h == IF hold THEN "hold" ELSE "call"
  <2>2. SetWhere(r, {"none"}, "pending") /\ hands' = [hands EXCEPT ![r] = h] /\ UNCHANGED taken
        /\ reversals[r].status = "none" /\ h \in {"hold", "call"}
    BY <2>1 DEF RequestReversal, Hand
  <2>3. \A q \in Reversals : ~InPlay(q)
    BY <2>1 DEF RequestReversal, InPlay
  <2>5. h \in Doings /\ "pending" \in Statuses
    BY <2>2 DEF Doings, Statuses
  <2>6. OutcomesOf(r)[reversals[r].try] = "nothing" /\ ~reversals[r].acked
    BY <2>2, RowIs DEF Admits
  <2>7. /\ Restated(r, "pending").status = "pending" /\ ~Restated(r, "pending").acked
        /\ OutcomesOf(r)[Restated(r, "pending").try] = "nothing"
    BY <2>5, <2>6, RestatedRow
  <2>4. Admits(Restated(r, "pending"), OutcomesOf(r)) /\ Busy(Restated(r, "pending"), h, OutcomesOf(r))
    BY <2>2, <2>7 DEF Admits, Busy
  <2> HIDE DEF h
  <2> QED BY <2>2, <2>3, <2>4, <2>5, Records
<1>2. CASE HoldReversal(r)
  <2>1. SetWhere(r, {"pending"}, "awaiting_approval") /\ hands' = [hands EXCEPT ![r] = "nothing"]
        /\ UNCHANGED taken /\ hands[r] = "hold"
    BY <1>2 DEF HoldReversal, Hand
  <2>3. "nothing" \in Doings /\ "awaiting_approval" \in Statuses
    BY DEF Doings, Statuses
  <2>4. /\ reversals[r].status = "pending" /\ ~reversals[r].acked
        /\ OutcomesOf(r)[reversals[r].try] = "nothing"
    BY <2>1, RowIs DEF Busy
  <2>5. /\ Restated(r, "awaiting_approval").status = "awaiting_approval"
        /\ ~Restated(r, "awaiting_approval").acked
        /\ OutcomesOf(r)[Restated(r, "awaiting_approval").try] = "nothing"
    BY <2>3, <2>4, RestatedRow
  <2>6. InPlay(r)
    BY <2>4 DEF InPlay, OutOfPlay
  <2>2. Admits(Restated(r, "awaiting_approval"), OutcomesOf(r))
        /\ Busy(Restated(r, "awaiting_approval"), "nothing", OutcomesOf(r)) /\ InPlay(r)
    BY <2>5, <2>6 DEF Admits, Busy
  <2> QED BY <2>1, <2>2, <2>3, Records
<1>3. CASE ReleaseReversal(r)
  <2>1. SetWhere(r, {"awaiting_approval"}, "pending") /\ hands' = [hands EXCEPT ![r] = "call"]
        /\ UNCHANGED taken /\ reversals[r].status = "awaiting_approval"
    BY <1>3 DEF ReleaseReversal, Hand
  <2>3. "call" \in Doings /\ "pending" \in Statuses
    BY DEF Doings, Statuses
  <2>4. OutcomesOf(r)[reversals[r].try] = "nothing" /\ ~reversals[r].acked
    BY <2>1, RowIs DEF Admits
  <2>5. /\ Restated(r, "pending").status = "pending" /\ ~Restated(r, "pending").acked
        /\ OutcomesOf(r)[Restated(r, "pending").try] = "nothing"
    BY <2>3, <2>4, RestatedRow
  <2>6. InPlay(r)
    BY <2>1 DEF InPlay, OutOfPlay
  <2>2. Admits(Restated(r, "pending"), OutcomesOf(r))
        /\ Busy(Restated(r, "pending"), "call", OutcomesOf(r)) /\ InPlay(r)
    BY <2>5, <2>6 DEF Admits, Busy
  <2> QED BY <2>1, <2>2, <2>3, Records
<1>4. CASE TurnDownReversal(r)
  <2>1. SetWhere(r, {"awaiting_approval"}, "rejected") /\ hands' = [hands EXCEPT ![r] = hands[r]]
        /\ UNCHANGED taken /\ reversals[r].status \in {"awaiting_approval"}
    BY <1>4, HandsStay DEF TurnDownReversal, SetWhere
  <2>3. hands[r] \in Doings /\ "rejected" \in Statuses
    BY RowIs DEF Statuses
  <2>4. /\ OutcomesOf(r)[reversals[r].try] = "nothing" /\ ~reversals[r].acked
        /\ hands[r] = "nothing"
    BY <2>1, RowIs DEF Admits, Busy
  <2>5. /\ Restated(r, "rejected").status = "rejected" /\ ~Restated(r, "rejected").acked
        /\ OutcomesOf(r)[Restated(r, "rejected").try] = "nothing"
    BY <2>3, <2>4, RestatedRow
  <2>2. Admits(Restated(r, "rejected"), OutcomesOf(r))
        /\ Busy(Restated(r, "rejected"), hands[r], OutcomesOf(r)) /\ "rejected" \in OutOfPlay
    BY <2>4, <2>5 DEF Admits, Busy, OutOfPlay
  <2> QED BY <2>1, <2>2, <2>3, Records
<1> QED BY <1>1, <1>2, <1>3, <1>4

LEMMA RecordingKeeps ==
  ASSUME ReversalsInv, NEW r \in Reversals, Mishaps = {},
         \/ RecordNotSent(r) \/ RecordMaybeQueued(r) \/ NobodyElseTakes(r) \/ PollsRunOut(r)
  PROVE  ReversalsInv'
<1>0. "nothing" \in Doings /\ {"failed", "unknown"} \subseteq Statuses /\ "failed" \in OutOfPlay
  BY DEF Doings, Statuses, OutOfPlay
<1>1. CASE RecordNotSent(r) \/ NobodyElseTakes(r)
  <2>1. SetWhere(r, {"pending"}, "failed") /\ hands' = [hands EXCEPT ![r] = "nothing"]
        /\ UNCHANGED taken /\ hands[r] \in {"declined", "refused"}
    BY <1>1 DEF RecordNotSent, NobodyElseTakes, Hand
  <2>3. OutcomesOf(r)[reversals[r].try] \in {"nothing", "refused"}
    BY <2>1, RowIs DEF Busy
  <2>4. /\ Restated(r, "failed").status = "failed"
        /\ OutcomesOf(r)[Restated(r, "failed").try] \in {"nothing", "refused"}
    BY <1>0, <2>3, RestatedRow
  <2>2. Admits(Restated(r, "failed"), OutcomesOf(r))
        /\ Busy(Restated(r, "failed"), "nothing", OutcomesOf(r))
    BY <2>4 DEF Admits, Busy
  <2> QED BY <1>0, <2>1, <2>2, Records
<1>2. CASE RecordMaybeQueued(r)
  <2>1. SetWhere(r, {"pending"}, "unknown") /\ hands' = [hands EXCEPT ![r] = "nothing"]
        /\ UNCHANGED taken /\ hands[r] = "unclear"
    BY <1>2 DEF RecordMaybeQueued, Hand
  <2>3. Restated(r, "unknown").status = "unknown"
    BY <1>0, RestatedRow
  <2>4. InPlay(r)
    BY <2>1, RowIs DEF Busy, InPlay, OutOfPlay
  <2>2. Admits(Restated(r, "unknown"), OutcomesOf(r))
        /\ Busy(Restated(r, "unknown"), "nothing", OutcomesOf(r)) /\ InPlay(r)
    BY <2>3, <2>4 DEF Admits, Busy, Unsettled
  <2> QED BY <1>0, <2>1, <2>2, Records
<1>3. CASE PollsRunOut(r)
  <2>1. SetWhere(r, Unsettled, "unknown") /\ hands' = [hands EXCEPT ![r] = "nothing"]
        /\ UNCHANGED taken
    BY <1>3, HandsStay DEF PollsRunOut
  <2>2. reversals[r].status \in Unsettled =>
          /\ Admits(Restated(r, "unknown"), OutcomesOf(r))
          /\ Busy(Restated(r, "unknown"), "nothing", OutcomesOf(r)) /\ InPlay(r)
    <3>1. Restated(r, "unknown").status = "unknown"
      BY <1>0, RestatedRow
    <3> QED BY <3>1 DEF Admits, Busy, Unsettled, InPlay, OutOfPlay
  <2> QED BY <1>0, <2>1, <2>2, Records
<1> QED BY <1>1, <1>2, <1>3

LEMMA AckKeeps ==
  ASSUME ReversalsInv, NEW r \in Reversals, RecordReversalAck(r)
  PROVE  ReversalsInv'
<1> DEFINE x == [reversals[r] EXCEPT !.status = "sent", !.acked = TRUE]
<1>1. hands[r] = "acked" /\ hands' = [hands EXCEPT ![r] = "nothing"] /\ UNCHANGED taken
      /\ "nothing" \in Doings
  BY DEF RecordReversalAck, Hand, Doings
<1>2. reversals[r].status = "pending"
  BY <1>1, RowIs DEF Busy
<1>3. reversals' = [reversals EXCEPT ![r] = x]
  BY <1>2 DEF RecordReversalAck, ReversalsInv, ReversalsTypeOK
<1>4. x \in ReversalRow /\ x.status = "sent" /\ x.try = reversals[r].try
  BY RowIs DEF ReversalRow, Statuses
<1> HIDE DEF x
<1>5. Fits(x, "nothing", OutcomesOf(r))
  BY <1>4, RowIs DEF Fits, LastAlone, Admits, Busy, Unsettled
<1>6. Enters(r, x)
  BY <1>2 DEF Enters, InPlay, OutOfPlay
<1> QED BY <1>1, <1>3, <1>4, <1>5, <1>6, OnlyTheRowMoves

LEMMA FailoverKeeps ==
  ASSUME ReversalsInv, NEW r \in Reversals, NextOperatorTakes(r)
  PROVE  ReversalsInv'
<1> DEFINE x == [reversals[r] EXCEPT !.try = reversals[r].try + 1, !.acked = FALSE]
<1>1. /\ hands[r] = "refused" /\ hands' = [hands EXCEPT ![r] = "call"] /\ UNCHANGED taken
      /\ reversals[r].status = "pending" /\ reversals[r].try < LastTry /\ "call" \in Doings
  BY DEF NextOperatorTakes, Hand, Doings
<1>2. reversals' = [reversals EXCEPT ![r] = x]
  BY DEF NextOperatorTakes, ReversalsInv, ReversalsTypeOK
<1>0. reversals[r].try \in Tries /\ LastAlone(reversals[r], OutcomesOf(r))
      /\ OutcomesOf(r)[reversals[r].try] \in {"nothing", "refused"}
  BY <1>1, RowIs DEF Busy
<1>3. reversals[r].try + 1 \in Tries
  BY <1>0, <1>1, ReversalsAssumption DEF Tries
<1>4. x \in ReversalRow /\ x.status = "pending" /\ x.try = reversals[r].try + 1 /\ x.acked = FALSE
  BY <1>1, <1>3, RowIs DEF ReversalRow, Statuses
<1> HIDE DEF x
<1>5. OutcomesOf(r)[x.try] = "nothing"
  BY <1>0, <1>3, <1>4, ReversalsAssumption DEF LastAlone, Tries
<1>6. LastAlone(x, OutcomesOf(r))
  <2>1. ASSUME NEW t \in Tries, t < x.try PROVE OutcomesOf(r)[t] \in {"nothing", "refused"}
    <3>1. t = reversals[r].try \/ t < reversals[r].try
      BY <1>0, <1>3, <1>4, <2>1, ReversalsAssumption DEF Tries
    <3> QED BY <1>0, <3>1 DEF LastAlone
  <2>2. ASSUME NEW t \in Tries, x.try < t PROVE OutcomesOf(r)[t] = "nothing"
    <3>1. reversals[r].try < t
      BY <1>0, <1>3, <1>4, <2>2, ReversalsAssumption DEF Tries
    <3> QED BY <1>0, <3>1 DEF LastAlone
  <2> QED BY <2>1, <2>2 DEF LastAlone
<1>7. Fits(x, "call", OutcomesOf(r)) /\ Enters(r, x)
  BY <1>1, <1>4, <1>5, <1>6 DEF Fits, Admits, Busy, Enters, InPlay, OutOfPlay
<1> QED BY <1>1, <1>2, <1>4, <1>7, OnlyTheRowMoves

LEMMA RefusedKeeps ==
  ASSUME ReversalsInv, NEW r \in Reversals, NEW t \in Tries, ReversalRefused(r, t)
  PROVE  ReversalsInv'
<1> DEFINE x == [reversals[r] EXCEPT !.status = "pending", !.acked = FALSE]
<1>1. /\ taken[<<r, t>>] = "refused" /\ reversals[r].acked /\ reversals[r].try = t
      /\ reversals[r].status \in Unsettled /\ hands' = [hands EXCEPT ![r] = "refused"]
      /\ UNCHANGED taken /\ "refused" \in Doings
  BY DEF ReversalRefused, Named, Hand, Doings
<1>2. reversals' = [reversals EXCEPT ![r] = x]
  BY DEF ReversalRefused, ReversalsInv, ReversalsTypeOK
<1>3. x \in ReversalRow /\ x.status = "pending" /\ x.try = t /\ x.acked = FALSE
  BY <1>1, RowIs DEF ReversalRow, Statuses
<1> HIDE DEF x
<1>4. OutcomesOf(r)[t] = "refused" /\ LastAlone(x, OutcomesOf(r))
  BY <1>1, <1>3, RowIs DEF LastAlone
<1>5. Fits(x, "refused", OutcomesOf(r)) /\ Enters(r, x)
  BY <1>1, <1>3, <1>4 DEF Fits, Admits, Busy, Enters, InPlay, OutOfPlay, Unsettled
<1> QED BY <1>1, <1>2, <1>3, <1>5, OnlyTheRowMoves

\* What an attempt became, of the row that made it.
LEMMA OutcomeMoves ==
  ASSUME ReversalsInv, NEW r \in Reversals, NEW t \in Tries, NEW o \in Outcomes,
         taken' = [taken EXCEPT ![<<r, t>>] = o]
  PROVE  /\ taken' \in [Reversals \X Tries -> Outcomes]
         /\ OthersUntouched(r)
         /\ OutcomesOf(r)' = [OutcomesOf(r) EXCEPT ![t] = o]
<1>1. taken' \in [Reversals \X Tries -> Outcomes]
  BY DEF ReversalsInv, ReversalsTypeOK
<1>2. OthersUntouched(r)
  BY DEF OthersUntouched, ReversalsInv, ReversalsTypeOK
<1>3. ASSUME NEW u \in Tries PROVE taken'[<<r, u>>] = IF u = t THEN o ELSE taken[<<r, u>>]
  BY DEF ReversalsInv, ReversalsTypeOK
<1> QED BY <1>1, <1>2, <1>3 DEF OutcomesOf

LEMMA CallKeeps ==
  ASSUME ReversalsInv, NEW r \in Reversals, CallReversal(r)
  PROVE  ReversalsInv'
<1>1. /\ hands[r] = "call" /\ UNCHANGED reversals /\ reversals[r].try \in Tries
      /\ reversals[r].status = "pending" /\ ~reversals[r].acked /\ reversals[r] \in ReversalRow
      /\ OutcomesOf(r)[reversals[r].try] = "nothing"
      /\ LastAlone(reversals[r], OutcomesOf(r))
  BY RowIs DEF CallReversal, Busy
<1>2. reversals' = [reversals EXCEPT ![r] = reversals[r]]
  BY <1>1 DEF ReversalsInv, ReversalsTypeOK
<1>3. {"acked", "unclear", "declined", "refused"} \subseteq Doings /\ "accepted" \in Outcomes
  BY DEF Doings, Outcomes
<1>4. Enters(r, reversals[r])
  BY DEF Enters, InPlay
<1>5. CASE taken' = [taken EXCEPT ![<<r, reversals[r].try>>] = "accepted"]
           /\ (Hand(r, "acked") \/ Hand(r, "unclear"))
  <2>1. PICK h \in {"acked", "unclear"} : hands' = [hands EXCEPT ![r] = h]
    BY <1>5 DEF Hand
  <2>2. /\ OutcomesOf(r)' = [OutcomesOf(r) EXCEPT ![reversals[r].try] = "accepted"]
        /\ taken' \in [Reversals \X Tries -> Outcomes] /\ OthersUntouched(r)
    BY <1>1, <1>3, <1>5, OutcomeMoves
  <2> DEFINE o == OutcomesOf(r)'
  <2>3. \A t \in Tries : o[t] = IF t = reversals[r].try THEN "accepted" ELSE OutcomesOf(r)[t]
    BY <2>2 DEF OutcomesOf
  <2> HIDE DEF o
  <2>4. LastAlone(reversals[r], o)
    BY <1>1, <2>3, ReversalsAssumption DEF LastAlone, Tries
  <2>5. Fits(reversals[r], h, o)
    BY <1>1, <2>1, <2>4 DEF Fits, Admits, Busy, Unsettled
  <2> QED BY <1>1, <1>2, <1>3, <1>4, <2>1, <2>2, <2>5, OneRowMoves DEF o
<1>6. CASE UNCHANGED taken
           /\ (Hand(r, "unclear") \/ Hand(r, "declined") \/ Hand(r, "refused"))
  <2>1. PICK h \in {"unclear", "declined", "refused"} : hands' = [hands EXCEPT ![r] = h]
    BY <1>6 DEF Hand
  <2>2. Fits(reversals[r], h, OutcomesOf(r))
    BY <1>1, <2>1 DEF Fits, Admits, Busy
  <2> QED BY <1>1, <1>2, <1>3, <1>4, <1>6, <2>1, <2>2, OnlyTheRowMoves
<1> QED BY <1>5, <1>6 DEF CallReversal

LEMMA DecisionKeeps ==
  ASSUME ReversalsInv, NEW r \in Reversals, NEW t \in Tries, SafaricomDecides(<<r, t>>)
  PROVE  ReversalsInv'
<1>1. PICK how \in {"reversed", "spent", "refused"} : taken' = [taken EXCEPT ![<<r, t>>] = how]
  BY DEF SafaricomDecides
<1>2. /\ taken[<<r, t>>] = "accepted" /\ UNCHANGED <<reversals, hands>>
      /\ reversals[r] \in ReversalRow /\ hands[r] \in Doings /\ reversals[r].try \in Tries
      /\ LastAlone(reversals[r], OutcomesOf(r)) /\ Admits(reversals[r], OutcomesOf(r))
      /\ Busy(reversals[r], hands[r], OutcomesOf(r))
  BY RowIs DEF SafaricomDecides
<1>3. reversals' = [reversals EXCEPT ![r] = reversals[r]] /\ hands' = [hands EXCEPT ![r] = hands[r]]
  BY <1>2 DEF ReversalsInv, ReversalsTypeOK
<1>4. OutcomesOf(r)[t] = "accepted"
  BY <1>2 DEF OutcomesOf
<1>5. t = reversals[r].try
  BY <1>2, <1>4, ReversalsAssumption DEF LastAlone, Tries
<1>6. how \in Outcomes
  BY DEF Outcomes
<1>7. /\ OutcomesOf(r)' = [OutcomesOf(r) EXCEPT ![t] = how]
      /\ taken' \in [Reversals \X Tries -> Outcomes] /\ OthersUntouched(r)
  BY <1>1, <1>6, OutcomeMoves
<1> DEFINE o == OutcomesOf(r)'
<1>8. \A u \in Tries : o[u] = IF u = t THEN how ELSE OutcomesOf(r)[u]
  BY <1>7 DEF OutcomesOf
<1> HIDE DEF o
<1>9. LastAlone(reversals[r], o)
  BY <1>2, <1>5, <1>8, ReversalsAssumption DEF LastAlone, Tries
<1>10. reversals[r].status \in Unsettled \cup {"completed"}
  BY <1>2, <1>4, <1>5 DEF Admits
<1>11. Admits(reversals[r], o)
  BY <1>10 DEF Admits, Unsettled
<1>12. Busy(reversals[r], hands[r], o)
  BY <1>2, <1>4, <1>5 DEF Busy
<1>13. Enters(r, reversals[r])
  BY DEF Enters, InPlay
<1> QED BY <1>2, <1>3, <1>7, <1>9, <1>11, <1>12, <1>13, OneRowMoves DEF o, Fits

LEMMA AnswersKeep ==
  ASSUME ReversalsInv, NEW r \in Reversals, NEW t \in Tries, Mishaps = {},
         ReversalResult(r, t) \/ StatusSays(r, t)
  PROVE  ReversalsInv'
<1> DEFINE s == IF taken[<<r, t>>] = "reversed" THEN "completed" ELSE "failed"
<1>0. /\ taken[<<r, t>>] \in {"reversed", "spent", "refused"} /\ UNCHANGED <<hands, taken>>
      /\ reversals[r].acked /\ reversals[r].try = t
  BY DEF ReversalResult, StatusSays, Decided, Named
<1>1. PICK ss : SetWhere(r, ss, s)
  BY DEF ReversalResult, StatusSays
<1>2. s \in Statuses /\ s \in {"completed", "failed"} /\ hands[r] \in Doings
  BY RowIs DEF Statuses
<1>3. hands[r] = "nothing" /\ hands' = [hands EXCEPT ![r] = "nothing"] /\ "nothing" \in Doings
  BY <1>0, RowIs, HandsStay DEF Busy, Doings
<1>4. OutcomesOf(r)[t] = taken[<<r, t>>]
  BY DEF OutcomesOf
<1>5. s = "completed" => InPlay(r)
  <2>1. s = "completed" => OutcomesOf(r)[reversals[r].try] = "reversed"
    BY <1>0, <1>4
  <2>2. s = "completed" => reversals[r].status \in Unsettled \cup {"completed"}
    BY <2>1, RowIs DEF Admits
  <2> QED BY <2>2 DEF InPlay, Unsettled, OutOfPlay
<1>6. s = "failed" => OutcomesOf(r)[reversals[r].try] \notin {"reversed", "accepted"}
  BY <1>0, <1>4
<1>7. s \in OutOfPlay \/ InPlay(r)
  BY <1>2, <1>5 DEF OutOfPlay
<1> HIDE DEF s
<1>8. Restated(r, s).status = s /\ Restated(r, s).try = reversals[r].try
  BY <1>2, RestatedRow
<1>9. Admits(Restated(r, s), OutcomesOf(r))
  BY <1>2, <1>6, <1>8 DEF Admits
<1>10. Busy(Restated(r, s), "nothing", OutcomesOf(r))
  BY DEF Busy
<1> QED BY <1>0, <1>1, <1>2, <1>3, <1>7, <1>9, <1>10, Records

LEMMA TimeoutKeeps ==
  ASSUME ReversalsInv, NEW r \in Reversals, NEW t \in Tries, ReversalTimeout(r, t)
  PROVE  ReversalsInv'
<1>1. /\ SetWhere(r, {"pending", "sent"}, "unknown") /\ UNCHANGED <<hands, taken>>
      /\ reversals[r].acked
  BY DEF ReversalTimeout, Named
<1>0. hands[r] = "nothing"
  BY <1>1, RowIs DEF Busy
<1>2. hands' = [hands EXCEPT ![r] = "nothing"] /\ "nothing" \in Doings /\ "unknown" \in Statuses
  <2>1. hands' = [hands EXCEPT ![r] = "nothing"]
    BY <1>0, <1>1, HandsStay
  <2> QED BY <2>1 DEF Doings, Statuses
<1>3. Restated(r, "unknown").status = "unknown"
  BY <1>2, RestatedRow
<1>4. Admits(Restated(r, "unknown"), OutcomesOf(r)) /\ Busy(Restated(r, "unknown"), "nothing", OutcomesOf(r))
  BY <1>3 DEF Admits, Busy, Unsettled
<1>5. reversals[r].status \in {"pending", "sent"} => InPlay(r)
  BY DEF InPlay, OutOfPlay
<1> QED BY <1>1, <1>2, <1>4, <1>5, Records

LEMMA RestartKeeps ==
  ASSUME ReversalsInv, Restart PROVE ReversalsInv'
<1>1. UNCHANGED <<reversals, taken>> /\ hands' = [r \in Reversals |-> "nothing"]
  BY DEF Restart
<1>2. ReversalsTypeOK'
  BY <1>1 DEF ReversalsInv, ReversalsTypeOK, Doings
<1>3. ASSUME NEW r \in Reversals PROVE Fits(reversals[r], hands[r], OutcomesOf(r))'
  <2>1. Fits(reversals[r], "nothing", OutcomesOf(r))
    BY RowIs DEF Fits, Busy
  <2>2. OutcomesOf(r)' = OutcomesOf(r) /\ reversals'[r] = reversals[r] /\ hands'[r] = "nothing"
    BY <1>1 DEF OutcomesOf
  <2> QED BY <2>1, <2>2
<1>4. OneInPlay'
  BY <1>1 DEF ReversalsInv, OneInPlay, InPlay
<1> QED BY <1>2, <1>3, <1>4 DEF ReversalsInv

LEMMA StandingKeeps ==
  ASSUME ReversalsInv, UNCHANGED reversalVars PROVE ReversalsInv'
<1>1. UNCHANGED <<reversals, hands, taken>>
  BY DEF reversalVars
<1> QED BY <1>1 DEF ReversalsInv, ReversalsTypeOK, OutcomesOf, OneInPlay, InPlay

LEMMA ReversalsInvStep ==
  ASSUME ReversalsInv, Mishaps = {}, [ReversalsNext]_reversalVars PROVE ReversalsInv'
<1>1. ASSUME NEW r \in Reversals,
             \/ \E hold \in BOOLEAN : RequestReversal(r, hold)
             \/ HoldReversal(r) \/ ReleaseReversal(r) \/ TurnDownReversal(r)
      PROVE  ReversalsInv'
  BY <1>1, AskingKeeps
<1>2. ASSUME NEW r \in Reversals,
             \/ CallReversal(r) \/ RecordReversalAck(r) \/ RecordNotSent(r) \/ RecordMaybeQueued(r)
             \/ NextOperatorTakes(r) \/ NobodyElseTakes(r) \/ PollsRunOut(r)
      PROVE  ReversalsInv'
  BY <1>2, CallKeeps, AckKeeps, RecordingKeeps, FailoverKeeps
<1>3. ASSUME NEW r \in Reversals, NEW t \in Tries,
             \/ SafaricomDecides(<<r, t>>)
             \/ ReversalResult(r, t) \/ ReversalRefused(r, t) \/ ReversalTimeout(r, t)
             \/ StatusSays(r, t)
      PROVE  ReversalsInv'
  BY <1>3, DecisionKeeps, AnswersKeep, RefusedKeeps, TimeoutKeeps
<1>4. CASE Restart
  BY <1>4, RestartKeeps
<1>5. CASE UNCHANGED reversalVars
  BY <1>5, StandingKeeps
<1> QED BY <1>1, <1>2, <1>3, <1>4, <1>5 DEF ReversalsNext

\* The same receipt is never taken back twice, whatever is lost on the way
\* (server/src/money_out/reversal.ts).
THEOREM TakenBackOnceAlways ==
  ASSUME Mishaps = {} PROVE ReversalsSpec => []TakenBackOnce
<1>1. ReversalsInit => ReversalsInv
  BY ReversalsInvInit
<1>2. ReversalsInv /\ [ReversalsNext]_reversalVars => ReversalsInv'
  BY ReversalsInvStep
<1>3. ReversalsInv => TakenBackOnce
  BY OnlyTheLastTakes
<1> QED BY <1>1, <1>2, <1>3, PTL DEF ReversalsSpec

(***************************************************************************)
(* Account numbers and names, when nothing is opened under what is being   *)
(* deleted and no business goes whose accounts had names.                  *)
(***************************************************************************)

(***************************************************************************)
(* The invariant.                                                          *)
(***************************************************************************)

Shapes ==
  /\ codes = [b \in Businesses |-> codes[b]]
  /\ accounts = [a \in AccountIds |-> accounts[a]]
  /\ clerks = [k \in Clerks |-> clerks[k]]
  /\ \A c \in claims : c = [token |-> c.token, kind |-> c.kind, business |-> c.business,
                           account |-> c.account, live |-> c.live]

\* A deletion knows every sub-account that will go with its account.
ChildrenRead ==
  \A k \in Clerks :
    clerks[k].step = "deleting" => Under(clerks[k].account) \subseteq clerks[k].children

\* A business that is being deleted has no account, and no name was one of its accounts'.
ClosingIsEmpty ==
  \A k \in Clerks :
    clerks[k].step = "closing" =>
      /\ In(clerks[k].business) = {}
      /\ \A c \in claims : c.kind = "name" => c.business # clerks[k].business

\* Of every name in worn there is a released claim, of who bore it or of nobody.
WornIsHeld ==
  \A w \in worn :
    \E c \in claims : /\ ~c.live /\ c.kind = "name" /\ c.token = w[1]
                      /\ c.account \in {w[2], Nobody}

AccountsInv ==
  /\ Shapes /\ ChildrenRead /\ ClosingIsEmpty /\ WornIsHeld /\ HolderRemembered /\ WordsApart

LEMMA AccountsInvInit == AccountsInit => AccountsInv
BY DEF AccountsInit, AccountsInv, Shapes, ChildrenRead, ClosingIsEmpty, WornIsHeld,
       HolderRemembered, WordsApart, Free, Live, Registered, Unopened, Deleted

(***************************************************************************)
(* Words: a claim or a code that is added is the start of nothing that     *)
(* lives, and nothing that lives is the start of it.                       *)
(***************************************************************************)

LEMMA FewerWords ==
  ASSUME WordsApart, Live' \subseteq Live,
         \A b \in Registered' : b \in Registered /\ codes'[b] = codes[b]
  PROVE  WordsApart'
BY DEF WordsApart

LEMMA OneWordMore ==
  ASSUME WordsApart, UNCHANGED codes, NEW d, d.live, NEW a, ~Conflict(d.token, d.kind, a),
         Live' \subseteq Live \cup {d}
  PROVE  WordsApart'
<1>1. /\ \A c \in Live : c.token # d.token
      /\ \A c \in Live : c.kind = "prefix" => ~IsPrefix(c.token, d.token)
      /\ \A b \in Registered : ~IsPrefix(codes[b], d.token)
      /\ d.kind = "prefix" => /\ \A c \in Live : ~IsPrefix(d.token, c.token)
                              /\ \A b \in Registered : ~IsPrefix(d.token, codes[b])
  BY DEF Conflict, IsStrictPrefix
<1>2. Registered' = Registered
  BY DEF Registered
<1>3. ASSUME NEW c \in Live', NEW e \in Live', c.kind = "prefix", c # e
      PROVE  ~IsPrefix(c.token, e.token)
  BY <1>1, <1>3 DEF WordsApart
<1>4. ASSUME NEW b \in Registered', NEW c \in Live'
      PROVE  /\ ~IsPrefix(codes'[b], c.token)
             /\ c.kind = "prefix" => ~IsPrefix(c.token, codes'[b])
  BY <1>1, <1>2, <1>4 DEF WordsApart
<1> QED BY <1>3, <1>4 DEF WordsApart

LEMMA OneCodeMore ==
  ASSUME WordsApart, Shapes, NEW b \in Businesses, NEW code, ClearCode(code),
         UNCHANGED claims, codes' = [codes EXCEPT ![b] = code]
  PROVE  WordsApart'
<1>1. Live' = Live
  BY DEF Live
<1>2. \A c \in Registered' : codes'[c] = code \/ (c \in Registered /\ codes'[c] = codes[c])
  BY DEF Registered, Shapes
<1>3. ASSUME NEW c \in Registered', NEW d \in Live
      PROVE  /\ ~IsPrefix(codes'[c], d.token)
             /\ d.kind = "prefix" => ~IsPrefix(d.token, codes'[c])
  BY <1>2 DEF ClearCode, WordsApart
<1> QED BY <1>1, <1>3 DEF WordsApart

(***************************************************************************)
(* Steps that leave the accounts or the claims alone.                      *)
(***************************************************************************)

LEMMA SameAccounts ==
  ASSUME UNCHANGED accounts
  PROVE  /\ Opened' = Opened /\ \A a : Under(a)' = Under(a) /\ \A b : In(b)' = In(b)
         /\ HolderRemembered /\ numberHistory \subseteq numberHistory' => HolderRemembered'
BY DEF Opened, Under, In, HolderRemembered

LEMMA SameClaims ==
  ASSUME UNCHANGED claims
  PROVE  Live' = Live /\ (UNCHANGED worn /\ WornIsHeld => WornIsHeld')
BY DEF Live, WornIsHeld

LEMMA SameCodes ==
  ASSUME UNCHANGED codes
  PROVE  \A b \in Registered' : b \in Registered /\ codes'[b] = codes[b]
BY DEF Registered

\* Only a request moves.
LEMMA OnlyAClerkMoves ==
  ASSUME AccountsInv, NEW k \in Clerks, NEW r, clerks' = [clerks EXCEPT ![k] = r],
         UNCHANGED <<codes, accounts, claims, numberHistory, worn>>,
         r.step = "deleting" => Under(r.account) \subseteq r.children,
         r.step = "closing" =>
           In(r.business) = {} /\ \A c \in claims : c.kind = "name" => c.business # r.business
  PROVE  AccountsInv'
<1>1. \A j \in Clerks : clerks'[j] = IF j = k THEN r ELSE clerks[j]
  BY DEF AccountsInv, Shapes
<1>2. Shapes'
  BY DEF AccountsInv, Shapes
<1>3. ChildrenRead'
  BY <1>1, SameAccounts DEF AccountsInv, ChildrenRead
<1>4. ClosingIsEmpty'
  BY <1>1, SameAccounts DEF AccountsInv, ClosingIsEmpty
<1>5. WornIsHeld' /\ HolderRemembered'
  BY SameClaims, SameAccounts DEF AccountsInv
<1>6. WordsApart'
  BY SameClaims, SameCodes, FewerWords DEF AccountsInv
<1> QED BY <1>2, <1>3, <1>4, <1>5, <1>6 DEF AccountsInv

LEMMA RequestsKeep ==
  ASSUME AccountsInv, Beside = {}, NEW k \in Clerks,
         \/ \E b \in Businesses : BeginDeleteBusiness(k, b)
         \/ \E b \in Businesses, p \in AccountIds \cup {Nobody} : BeginMint(k, b, p)
         \/ MintRefused(k)
         \/ \E a \in AccountIds : BeginDelete(k, a)
         \/ ReadChildren(k)
  PROVE  AccountsInv'
<1>1. ASSUME NEW b \in Businesses, BeginDeleteBusiness(k, b) PROVE AccountsInv'
  <2> DEFINE r == [step |-> "closing", business |-> b]
  <2>1. r.step = "closing" /\ r.business = b
    OBVIOUS
  <2>2. In(b) = {} /\ \A c \in claims : c.kind = "name" => c.business # b
    BY <1>1 DEF BeginDeleteBusiness
  <2>3. clerks' = [clerks EXCEPT ![k] = r] /\ UNCHANGED <<codes, accounts, claims, numberHistory, worn>>
    BY <1>1 DEF BeginDeleteBusiness
  <2> HIDE DEF r
  <2> QED BY <2>1, <2>2, <2>3, OnlyAClerkMoves
<1>2. ASSUME NEW b \in Businesses, NEW p \in AccountIds \cup {Nobody}, BeginMint(k, b, p)
      PROVE  AccountsInv'
  <2> DEFINE r == [step |-> "minting", business |-> b, parent |-> p]
  <2>1. r.step = "minting"
    OBVIOUS
  <2>3. clerks' = [clerks EXCEPT ![k] = r] /\ UNCHANGED <<codes, accounts, claims, numberHistory, worn>>
    BY <1>2 DEF BeginMint
  <2> HIDE DEF r
  <2> QED BY <2>1, <2>3, OnlyAClerkMoves
<1>3. CASE MintRefused(k)
  <2>1. Free.step = "free"
    BY DEF Free
  <2> QED BY <1>3, <2>1, OnlyAClerkMoves DEF MintRefused
<1>4. ASSUME NEW a \in AccountIds, BeginDelete(k, a) PROVE AccountsInv'
  <2> DEFINE r == [step |-> "reading", account |-> a]
  <2>1. r.step = "reading"
    OBVIOUS
  <2>3. clerks' = [clerks EXCEPT ![k] = r] /\ UNCHANGED <<codes, accounts, claims, numberHistory, worn>>
    BY <1>4 DEF BeginDelete
  <2> HIDE DEF r
  <2> QED BY <2>1, <2>3, OnlyAClerkMoves
<1>5. CASE ReadChildren(k)
  <2> DEFINE a == clerks[k].account
             r == [step |-> "deleting", account |-> a, children |-> Under(a)]
  <2>1. r.step = "deleting" /\ r.account = a /\ r.children = Under(a)
    OBVIOUS
  <2>3. clerks' = [clerks EXCEPT ![k] = r] /\ UNCHANGED <<codes, accounts, claims, numberHistory, worn>>
    BY <1>5 DEF ReadChildren
  <2> HIDE DEF r, a
  <2> QED BY <2>1, <2>3, OnlyAClerkMoves
<1> QED BY <1>1, <1>2, <1>3, <1>4, <1>5

LEMMA AddBusinessKeeps ==
  ASSUME AccountsInv, NEW b \in Businesses, NEW code \in Codes, AddBusiness(b, code)
  PROVE  AccountsInv'
<1>1. codes' = [codes EXCEPT ![b] = code] /\ ClearCode(code)
      /\ UNCHANGED <<accounts, claims, clerks, numberHistory, worn>>
  BY DEF AddBusiness
<1>2. Shapes'
  BY <1>1 DEF AccountsInv, Shapes
<1>3. ChildrenRead' /\ ClosingIsEmpty'
  BY <1>1, SameAccounts DEF AccountsInv, ChildrenRead, ClosingIsEmpty
<1>4. WornIsHeld' /\ HolderRemembered'
  BY <1>1, SameClaims, SameAccounts DEF AccountsInv
<1>5. WordsApart'
  BY <1>1, OneCodeMore DEF AccountsInv
<1> QED BY <1>2, <1>3, <1>4, <1>5 DEF AccountsInv

(***************************************************************************)
(* Claims.                                                                 *)
(***************************************************************************)

\* A step that leaves businesses, accounts and requests alone.
LEMMA ClaimsMove ==
  ASSUME AccountsInv, UNCHANGED <<codes, accounts, clerks, numberHistory>>,
         \A c \in claims' : c = [token |-> c.token, kind |-> c.kind, business |-> c.business,
                                 account |-> c.account, live |-> c.live],
         \A c \in claims' : c.kind = "name" =>
           \/ \E a \in Opened : c.business = accounts[a].business
           \/ \E d \in claims : d.kind = "name" /\ c.business = d.business,
         WornIsHeld', WordsApart'
  PROVE  AccountsInv'
<1>1. Shapes'
  BY DEF AccountsInv, Shapes
<1>2. ChildrenRead' /\ HolderRemembered'
  BY SameAccounts DEF AccountsInv, ChildrenRead
<1>3. ASSUME NEW k \in Clerks, clerks[k].step = "closing"
      PROVE  /\ In(clerks[k].business)' = {}
             /\ \A c \in claims' : c.kind = "name" => c.business # clerks[k].business
  <2>1. In(clerks[k].business) = {} /\ \A c \in claims : c.kind = "name" => c.business # clerks[k].business
    BY <1>3 DEF AccountsInv, ClosingIsEmpty
  <2>2. \A a \in Opened : accounts[a].business # clerks[k].business
    BY <2>1 DEF In
  <2>3. In(clerks[k].business)' = In(clerks[k].business)
    BY DEF In, Opened
  <2> QED BY <2>1, <2>2, <2>3
<1>4. ClosingIsEmpty'
  BY <1>3 DEF ClosingIsEmpty
<1> QED BY <1>1, <1>2, <1>4 DEF AccountsInv

IsClaim(c) ==
  c = [token |-> c.token, kind |-> c.kind, business |-> c.business,
       account |-> c.account, live |-> c.live]

Rested(c) == [c EXCEPT !.live = FALSE]

LEMMA RestedClaim ==
  ASSUME NEW c, IsClaim(c)
  PROVE  /\ IsClaim(Rested(c)) /\ ~Rested(c).live
         /\ Rested(c).token = c.token /\ Rested(c).kind = c.kind
         /\ Rested(c).business = c.business /\ Rested(c).account = c.account
<1> DEFINE d == Rested(c)
<1>1. d = [c EXCEPT !.live = FALSE]
  BY DEF Rested
<1> HIDE DEF d
<1>2. ~d.live /\ d.token = c.token /\ d.kind = c.kind /\ d.business = c.business /\ d.account = c.account
  BY <1>1 DEF IsClaim
<1>3. IsClaim(d)
  BY <1>1 DEF IsClaim
<1> QED BY <1>2, <1>3 DEF d

OldNames(a) == {c \in Live : c.kind = "name" /\ c.account = a}

\* The names that are released stay, as the names of who had them.
LEMMA ReleasedStay ==
  ASSUME Shapes, NEW a \in AccountIds,
         NEW old, old = OldNames(a)
  PROVE  /\ \A d \in ReleasedNames(old) :
              /\ ~d.live /\ d.kind = "name" /\ d.account = a /\ IsClaim(d)
              /\ \E c \in claims : c.kind = "name" /\ d.business = c.business
         /\ \A w \in Bearing(old) :
              \E d \in ReleasedNames(old) : d.token = w[1] /\ d.account = w[2]
<1>1. \A c \in old : c \in claims /\ c.live /\ c.kind = "name" /\ c.account = a /\ IsClaim(c)
  BY DEF Live, Shapes, IsClaim, OldNames
<1>2. ReleasedNames(old) = {Rested(c) : c \in old}
  BY DEF ReleasedNames, Rested
<1>3. \A w \in Bearing(old) : \E c \in old : w = <<c.token, c.account>>
  BY DEF Bearing
<1>4. ASSUME NEW d \in ReleasedNames(old)
      PROVE  /\ ~d.live /\ d.kind = "name" /\ d.account = a /\ IsClaim(d)
             /\ \E c \in claims : c.kind = "name" /\ d.business = c.business
  <2>1. PICK c \in old : d = Rested(c)
    BY <1>2
  <2> QED BY <1>1, <2>1, RestedClaim
<1>5. ASSUME NEW w \in Bearing(old)
      PROVE  \E d \in ReleasedNames(old) : d.token = w[1] /\ d.account = w[2]
  <2>1. PICK c \in old : w = <<c.token, c.account>>
    BY <1>3
  <2>2. Rested(c) \in ReleasedNames(old) /\ Rested(c).token = w[1] /\ Rested(c).account = w[2]
    BY <1>1, <1>2, <2>1, RestedClaim
  <2> QED BY <2>2
<1> QED BY <1>4, <1>5

LEMMA NamesMove ==
  ASSUME AccountsInv, NEW a \in AccountIds, NEW old, old = OldNames(a), NEW new,
         claims' = (claims \ old) \cup ReleasedNames(old) \cup new,
         worn' = worn \cup Bearing(old),
         UNCHANGED <<codes, accounts, clerks, numberHistory>>,
         \A d \in new :
           /\ IsClaim(d) /\ d.live /\ d.kind = "name" /\ d.account = a /\ a \in Opened
           /\ d.business = accounts[a].business /\ ~Conflict(d.token, "name", a),
         \A d, e \in new : d = e
  PROVE  /\ AccountsInv'
         /\ \A c \in claims' \ claims : c.live /\ c.kind = "name" =>
              \A w \in worn : w[1] = c.token => w[2] = c.account
<1>2. /\ \A d \in ReleasedNames(old) :
           /\ ~d.live /\ d.kind = "name" /\ d.account = a /\ IsClaim(d)
           /\ \E c \in claims : c.kind = "name" /\ d.business = c.business
      /\ \A w \in Bearing(old) :
           \E d \in ReleasedNames(old) : d.token = w[1] /\ d.account = w[2]
  BY ReleasedStay DEF AccountsInv
<1>3. \A c \in old : c.live
  BY DEF Live, OldNames
<1>4. \A c \in claims' : IsClaim(c)
  BY <1>2 DEF AccountsInv, Shapes, IsClaim
<1>5. \A c \in claims' : c.kind = "name" =>
        \/ \E b \in Opened : c.business = accounts[b].business
        \/ \E d \in claims : d.kind = "name" /\ c.business = d.business
  BY <1>2
<1>6. WornIsHeld'
  <2>1. ASSUME NEW w \in worn
        PROVE  \E c \in claims' : ~c.live /\ c.kind = "name" /\ c.token = w[1] /\ c.account \in {w[2], Nobody}
    <3>1. PICK c \in claims : ~c.live /\ c.kind = "name" /\ c.token = w[1] /\ c.account \in {w[2], Nobody}
      BY DEF AccountsInv, WornIsHeld
    <3>2. c \in claims'
      BY <1>3, <3>1
    <3> QED BY <3>1, <3>2
  <2>2. ASSUME NEW w \in Bearing(old)
        PROVE  \E c \in claims' : ~c.live /\ c.kind = "name" /\ c.token = w[1] /\ c.account \in {w[2], Nobody}
    BY <1>2
  <2> QED BY <2>1, <2>2 DEF WornIsHeld
<1>7. WordsApart'
  <2>1. CASE new = {}
    <3>1. Live' \subseteq Live
      BY <1>2, <2>1 DEF Live
    <3> QED BY <3>1, SameCodes, FewerWords DEF AccountsInv
  <2>2. CASE new # {}
    <3>1. PICK d \in new : TRUE
      BY <2>2
    <3>2. Live' \subseteq Live \cup {d}
      BY <1>2, <3>1 DEF Live
    <3>3. d.live /\ ~Conflict(d.token, d.kind, a)
      OBVIOUS
    <3> QED BY <3>2, <3>3, OneWordMore DEF AccountsInv
  <2> QED BY <2>1, <2>2
<1>8. AccountsInv'
  BY <1>4, <1>5, <1>6, <1>7, ClaimsMove DEF IsClaim
<1>9. ASSUME NEW c \in claims' \ claims, c.live, c.kind = "name", NEW w \in worn, w[1] = c.token
      PROVE  w[2] = c.account
  <2>1. c \in new
    BY <1>2, <1>9
  <2>2. c.account = a /\ ~HeldBack(c.token, a) /\ a # Nobody
    BY <2>1 DEF Conflict, AccountIds, Nobody
  <2>3. PICK d \in claims : ~d.live /\ d.kind = "name" /\ d.token = w[1] /\ d.account \in {w[2], Nobody}
    BY DEF AccountsInv, WornIsHeld
  <2>4. d.account = a
    BY <1>9, <2>2, <2>3 DEF HeldBack, Live
  <2> QED BY <2>2, <2>3, <2>4
<1> QED BY <1>8, <1>9

LEMMA NamesKeep ==
  ASSUME AccountsInv, NEW a \in AccountIds,
         ReleaseName(a) \/ \E t \in Words : ClaimName(a, t)
  PROVE  /\ AccountsInv'
         /\ \A c \in claims' \ claims : c.live /\ c.kind = "name" =>
              \A w \in worn : w[1] = c.token => w[2] = c.account
<1>1. CASE ReleaseName(a)
  <2> DEFINE old == OldNames(a)
             new == {}
  <2>1. /\ claims' = (claims \ old) \cup ReleasedNames(old) \cup new
        /\ worn' = worn \cup Bearing(old) /\ UNCHANGED <<codes, accounts, clerks, numberHistory>>
    BY <1>1 DEF ReleaseName, OldNames
  <2>2. /\ \A d \in new :
             /\ IsClaim(d) /\ d.live /\ d.kind = "name" /\ d.account = a /\ a \in Opened
             /\ d.business = accounts[a].business /\ ~Conflict(d.token, "name", a)
        /\ \A d, e \in new : d = e
    OBVIOUS
  <2> HIDE DEF old, new
  <2> QED BY <2>1, <2>2, NamesMove DEF old
<1>2. ASSUME NEW t \in Words, ClaimName(a, t)
      PROVE  /\ AccountsInv'
             /\ \A c \in claims' \ claims : c.live /\ c.kind = "name" =>
                  \A w \in worn : w[1] = c.token => w[2] = c.account
  <2> DEFINE old == OldNames(a)
             d == [token |-> t, kind |-> "name", business |-> accounts[a].business,
                   account |-> a, live |-> TRUE]
             new == {d}
  <2>1. /\ claims' = (claims \ old) \cup ReleasedNames(old) \cup new
        /\ worn' = worn \cup Bearing(old) /\ UNCHANGED <<codes, accounts, clerks, numberHistory>>
    BY <1>2 DEF ClaimName, OldNames
  <2>2. /\ IsClaim(d) /\ d.live /\ d.kind = "name" /\ d.account = a /\ a \in Opened
        /\ d.business = accounts[a].business /\ d.token = t /\ ~Conflict(t, "name", a)
    BY <1>2 DEF ClaimName, IsClaim
  <2> HIDE DEF old, d
  <2>3. \A e \in new :
          /\ IsClaim(e) /\ e.live /\ e.kind = "name" /\ e.account = a /\ a \in Opened
          /\ e.business = accounts[a].business /\ ~Conflict(e.token, "name", a)
    BY <2>2
  <2>4. \A e, f \in new : e = f
    OBVIOUS
  <2> HIDE DEF new
  <2> QED BY <2>1, <2>3, <2>4, NamesMove DEF old
<1> QED BY <1>1, <1>2

LEMMA OtherClaimsKeep ==
  ASSUME AccountsInv,
         \/ YearPasses \/ \E c \in claims : DropClaim(c)
         \/ \E t \in Words \cup Leads, kind \in {"alias", "prefix"}, b \in Businesses \cup {Nobody} :
              AddClaim(t, kind, b)
  PROVE  AccountsInv' /\ \A c \in claims' \ claims : c.kind # "name"
<1>0. \A c \in claims : IsClaim(c)
  BY DEF AccountsInv, Shapes, IsClaim
<1>1. CASE YearPasses
  <2>1. claims' \subseteq claims /\ worn' = {} /\ UNCHANGED <<codes, accounts, clerks, numberHistory>>
        /\ Live' \subseteq Live
    BY <1>1 DEF YearPasses, Live
  <2>2. WornIsHeld' /\ WordsApart'
    BY <2>1, SameCodes, FewerWords DEF AccountsInv, WornIsHeld
  <2> QED BY <1>0, <2>1, <2>2, ClaimsMove DEF IsClaim
<1>2. ASSUME NEW c \in claims, DropClaim(c)
      PROVE  AccountsInv' /\ \A d \in claims' \ claims : d.kind # "name"
  <2>1. claims' = claims \ {c} /\ c.live /\ UNCHANGED <<codes, accounts, clerks, numberHistory, worn>>
    BY <1>2 DEF DropClaim, Live
  <2>2. WornIsHeld'
    BY <2>1 DEF AccountsInv, WornIsHeld
  <2>3. Live' \subseteq Live
    BY <2>1 DEF Live
  <2>4. WordsApart'
    BY <2>1, <2>3, SameCodes, FewerWords DEF AccountsInv
  <2> QED BY <1>0, <2>1, <2>2, <2>4, ClaimsMove DEF IsClaim
<1>3. ASSUME NEW t \in Words \cup Leads, NEW kind \in {"alias", "prefix"},
             NEW b \in Businesses \cup {Nobody}, AddClaim(t, kind, b)
      PROVE  AccountsInv' /\ \A d \in claims' \ claims : d.kind # "name"
  <2> DEFINE d == [token |-> t, kind |-> kind, business |-> b, account |-> Nobody, live |-> TRUE]
  <2>1. claims' = claims \cup {d} /\ UNCHANGED <<codes, accounts, clerks, numberHistory, worn>>
        /\ ~Conflict(t, kind, Nobody)
    BY <1>3 DEF AddClaim
  <2>2. IsClaim(d) /\ d.live /\ d.token = t /\ d.kind = kind /\ d.kind # "name"
    BY DEF IsClaim
  <2> HIDE DEF d
  <2>3. WornIsHeld'
    BY <2>1 DEF AccountsInv, WornIsHeld
  <2>4. Live' \subseteq Live \cup {d}
    BY <2>1 DEF Live
  <2>5. WordsApart'
    BY <2>1, <2>2, <2>4, OneWordMore DEF AccountsInv
  <2>6. AccountsInv'
    BY <1>0, <2>1, <2>2, <2>3, <2>5, ClaimsMove DEF IsClaim
  <2> QED BY <2>1, <2>2, <2>6
<1> QED BY <1>1, <1>2, <1>3

(***************************************************************************)
(* Accounts.                                                               *)
(***************************************************************************)

LEMMA MintKeeps ==
  ASSUME AccountsInv, Beside = {}, NEW k \in Clerks, NEW n, Mint(k, n)
  PROVE  AccountsInv'
<1> DEFINE m == clerks[k]
           i == Min({a \in AccountIds : accounts[a] = Unopened})
           x == [state |-> "open", business |-> m.business, parent |-> m.parent, number |-> n]
<1>1. /\ ~BeingDeleted(m.business, m.parent) /\ accounts' = [accounts EXCEPT ![i] = x]
      /\ clerks' = [clerks EXCEPT ![k] = Free] /\ UNCHANGED <<codes, claims, numberHistory, worn>>
  BY DEF Mint
<1>2. x.state = "open" /\ x.business = m.business /\ x.parent = m.parent
  OBVIOUS
<1> HIDE DEF i, x, m
<1>3. Shapes'
  BY <1>1 DEF AccountsInv, Shapes
<1>4. \A a \in AccountIds : accounts'[a] = IF a = i THEN x ELSE accounts[a]
  BY <1>1 DEF AccountsInv, Shapes
<1>5. \A j \in Clerks : j # k => clerks'[j] = clerks[j]
  BY <1>1 DEF AccountsInv, Shapes
<1>6. clerks'[k].step = "free"
  BY <1>1 DEF AccountsInv, Shapes, Free
<1>7. ASSUME NEW p, p # m.parent PROVE Under(p)' \subseteq Under(p)
  BY <1>2, <1>4, <1>7 DEF Under, Opened
<1>8. ASSUME NEW b, b # m.business PROVE In(b)' \subseteq In(b)
  BY <1>2, <1>4, <1>8 DEF In, Opened
<1>9. HolderRemembered'
  <2>1. ASSUME NEW a \in AccountIds, accounts'[a] = Deleted PROVE a \in numberHistory'
    <3>1. Deleted.state # "open"
      BY DEF Deleted
    <3> QED BY <1>1, <1>2, <1>4, <2>1, <3>1 DEF AccountsInv, HolderRemembered
  <2> QED BY <2>1 DEF HolderRemembered
<1>10. WornIsHeld' /\ WordsApart'
  BY <1>1, SameClaims, SameCodes, FewerWords DEF AccountsInv
<1>11. ASSUME NEW j \in Clerks, (clerks[j].step = "deleting")'
       PROVE  (Under(clerks[j].account) \subseteq clerks[j].children)'
  <2>1. clerks'[j] = clerks[j] /\ clerks[j].account # m.parent
    BY <1>1, <1>5, <1>6, <1>11 DEF BeingDeleted
  <2>2. Under(clerks[j].account) \subseteq clerks[j].children
    BY <1>11, <2>1 DEF AccountsInv, ChildrenRead
  <2>3. PICK p : p = clerks[j].account
    OBVIOUS
  <2>4. Under(p)' \subseteq clerks[j].children
    BY <1>7, <2>1, <2>2, <2>3
  <2>5. (Under(clerks[j].account) = Under(p))'
    BY <2>1, <2>3
  <2> QED BY <2>1, <2>4, <2>5
<1>12. ASSUME NEW j \in Clerks, (clerks[j].step = "closing")'
       PROVE  (/\ In(clerks[j].business) = {}
               /\ \A c \in claims : c.kind = "name" => c.business # clerks[j].business)'
  <2>1. clerks'[j] = clerks[j] /\ clerks[j].business # m.business
    BY <1>1, <1>5, <1>6, <1>12 DEF BeingDeleted
  <2>2. /\ In(clerks[j].business) = {}
        /\ \A c \in claims : c.kind = "name" => c.business # clerks[j].business
    BY <1>12, <2>1 DEF AccountsInv, ClosingIsEmpty
  <2>3. PICK b : b = clerks[j].business
    OBVIOUS
  <2>4. In(b)' = {}
    BY <1>8, <2>1, <2>2, <2>3
  <2>5. (In(clerks[j].business) = In(b))'
    BY <2>1, <2>3
  <2> QED BY <1>1, <2>1, <2>2, <2>4, <2>5
<1>13. ChildrenRead'
  BY <1>11 DEF ChildrenRead
<1>14. ClosingIsEmpty'
  BY <1>12 DEF ClosingIsEmpty
<1> QED BY <1>3, <1>9, <1>10, <1>13, <1>14 DEF AccountsInv

(***************************************************************************)
(* Deletions.                                                              *)
(***************************************************************************)

\* A step after which fewer accounts are open, and fewer requests under way.
LEMMA FewerKeep ==
  ASSUME AccountsInv, NEW k \in Clerks, clerks' = [clerks EXCEPT ![k] = Free],
         NEW going, accounts' = [a \in AccountIds |-> IF a \in going THEN Deleted ELSE accounts[a]],
         \A c \in claims' : c.kind = "name" =>
           \E d \in claims : d.kind = "name" /\ c.business = d.business
  PROVE  ChildrenRead' /\ ClosingIsEmpty'
<1>1. \A j \in Clerks : clerks'[j] = IF j = k THEN Free ELSE clerks[j]
  BY DEF AccountsInv, Shapes
<1>2. Free.step = "free" /\ Deleted.state = "gone"
  BY DEF Free, Deleted
<1>3. ASSUME NEW p PROVE Under(p)' \subseteq Under(p) /\ In(p)' \subseteq In(p)
  BY <1>2 DEF Under, In, Opened
<1>4. ASSUME NEW j \in Clerks, (clerks[j].step = "deleting")'
      PROVE  (Under(clerks[j].account) \subseteq clerks[j].children)'
  <2>1. clerks'[j] = clerks[j] /\ clerks[j].step = "deleting"
    BY <1>1, <1>2, <1>4
  <2>2. PICK p : p = clerks[j].account
    OBVIOUS
  <2>3. Under(p)' \subseteq clerks[j].children
    BY <1>3, <2>1, <2>2 DEF AccountsInv, ChildrenRead
  <2>4. (Under(clerks[j].account) = Under(p))'
    BY <2>1, <2>2
  <2> QED BY <2>1, <2>3, <2>4
<1>5. ASSUME NEW j \in Clerks, (clerks[j].step = "closing")'
      PROVE  (/\ In(clerks[j].business) = {}
              /\ \A c \in claims : c.kind = "name" => c.business # clerks[j].business)'
  <2>1. clerks'[j] = clerks[j] /\ clerks[j].step = "closing"
    BY <1>1, <1>2, <1>5
  <2>2. PICK b : b = clerks[j].business
    OBVIOUS
  <2>3. In(b) = {} /\ \A c \in claims : c.kind = "name" => c.business # b
    BY <2>1, <2>2 DEF AccountsInv, ClosingIsEmpty
  <2>4. In(b)' = {}
    BY <1>3, <2>3
  <2>5. (In(clerks[j].business) = In(b))'
    BY <2>1, <2>2
  <2> QED BY <2>1, <2>2, <2>3, <2>4, <2>5
<1>6. ChildrenRead'
  BY <1>4 DEF ChildrenRead
<1>7. ClosingIsEmpty'
  BY <1>5 DEF ClosingIsEmpty
<1> QED BY <1>6, <1>7

LEMMA DeleteBusinessKeeps ==
  ASSUME AccountsInv, NEW k \in Clerks, DeleteBusiness(k)
  PROVE  AccountsInv' /\ claims' \subseteq claims
<1> DEFINE b == clerks[k].business
<1>1. In(b) = {} /\ \A c \in claims : c.kind = "name" => c.business # b
  BY DEF DeleteBusiness, AccountsInv, ClosingIsEmpty
<1>2. /\ clerks' = [clerks EXCEPT ![k] = Free] /\ codes' = [codes EXCEPT ![b] = NoCode]
      /\ claims' = {c \in claims : c.business # b} /\ UNCHANGED numberHistory
      /\ accounts' = [a \in AccountIds |-> IF a \in In(b) THEN Deleted ELSE accounts[a]]
      /\ worn' = worn \cup Bearing({c \in Live : c.account \in In(b)})
  BY DEF DeleteBusiness, Gone
<1>3. Bearing({c \in Live : c.account \in In(b)}) = {}
  BY <1>1 DEF Bearing
<1> HIDE DEF b
<1>4. UNCHANGED <<accounts, worn>>
  BY <1>1, <1>2, <1>3 DEF AccountsInv, Shapes
<1>5. Shapes'
  BY <1>2, <1>4 DEF AccountsInv, Shapes
<1>6. ChildrenRead' /\ ClosingIsEmpty'
  BY <1>2, FewerKeep
<1>7. WornIsHeld'
  BY <1>1, <1>2, <1>4 DEF AccountsInv, WornIsHeld
<1>8. HolderRemembered'
  BY <1>2, <1>4, SameAccounts DEF AccountsInv
<1>9. Live' \subseteq Live
  BY <1>2 DEF Live
<1>10. \A c \in Registered' : c \in Registered /\ codes'[c] = codes[c]
  BY <1>2 DEF Registered, AccountsInv, Shapes
<1>11. WordsApart'
  BY <1>9, <1>10, FewerWords DEF AccountsInv
<1> QED BY <1>2, <1>5, <1>6, <1>7, <1>8, <1>11 DEF AccountsInv

Orphan(c) == [c EXCEPT !.live = FALSE, !.account = Nobody]

LEMMA OrphanedClaim ==
  ASSUME NEW c, IsClaim(c)
  PROVE  /\ IsClaim(Orphan(c)) /\ ~Orphan(c).live /\ Orphan(c).account = Nobody
         /\ Orphan(c).token = c.token /\ Orphan(c).kind = c.kind
         /\ Orphan(c).business = c.business
<1> DEFINE d == Orphan(c)
<1>1. d = [c EXCEPT !.live = FALSE, !.account = Nobody]
  BY DEF Orphan
<1> HIDE DEF d
<1>2. /\ ~d.live /\ d.account = Nobody /\ d.token = c.token /\ d.kind = c.kind
      /\ d.business = c.business
  BY <1>1 DEF IsClaim
<1>3. IsClaim(d)
  BY <1>1 DEF IsClaim
<1> QED BY <1>2, <1>3 DEF d

LEMMA DeleteAccountKeeps ==
  ASSUME AccountsInv, NEW k \in Clerks, DeleteAccount(k)
  PROVE  AccountsInv' /\ \A c \in claims' \ claims : ~c.live
<1> DEFINE going == (Remembered(k) \cup Under(clerks[k].account)) \cap Opened
<1>1. going \subseteq Remembered(k) /\ going \subseteq AccountIds
  BY DEF DeleteAccount, AccountsInv, ChildrenRead, Remembered, Opened
<1>2. /\ clerks' = [clerks EXCEPT ![k] = Free] /\ UNCHANGED codes
      /\ numberHistory' = numberHistory \cup Remembered(k)
      /\ accounts' = [a \in AccountIds |-> IF a \in going THEN Deleted ELSE accounts[a]]
      /\ worn' = worn \cup Bearing({c \in Live : c.account \in going})
      /\ claims' = Orphaned(going)
  BY DEF DeleteAccount, Gone
<1> HIDE DEF going
<1>3. claims' = {IF c.account \in going THEN Orphan(c) ELSE c : c \in claims}
  BY <1>2 DEF Orphaned, Orphan
<1>4. \A c \in claims : IsClaim(c)
  BY DEF AccountsInv, Shapes, IsClaim
<1>5. \A d \in claims' : \E c \in claims :
        \/ c.account \in going /\ d = Orphan(c)
        \/ d = c
  BY <1>3
<1>6. \A d \in claims' : IsClaim(d)
  BY <1>4, <1>5, OrphanedClaim
<1>7. \A d \in claims' : \E c \in claims :
        /\ c.kind = d.kind /\ c.business = d.business
        /\ d.live => d = c
  BY <1>4, <1>5, OrphanedClaim
<1>8. Shapes'
  BY <1>2, <1>6 DEF AccountsInv, Shapes, IsClaim
<1>9. ChildrenRead' /\ ClosingIsEmpty'
  <2>1. \A c \in claims' : c.kind = "name" =>
          \E d \in claims : d.kind = "name" /\ c.business = d.business
    BY <1>7
  <2> QED BY <1>2, <2>1, FewerKeep
<1>10. ASSUME NEW c \in claims, NEW a, c.account \in {a, Nobody}, c.kind = "name", ~c.live \/ a \in going,
              c.account = Nobody => ~c.live
       PROVE  \E d \in claims' : ~d.live /\ d.kind = "name" /\ d.token = c.token /\ d.account \in {a, Nobody}
  <2>1. CASE c.account \in going
    <3>1. Orphan(c) \in claims'
      BY <1>3, <2>1
    <3> QED BY <1>4, <1>10, <3>1, OrphanedClaim
  <2>2. CASE c.account \notin going
    <3>1. c \in claims' /\ ~c.live
      BY <1>3, <1>10, <2>2
    <3> QED BY <1>10, <3>1
  <2> QED BY <2>1, <2>2
<1>11. WornIsHeld'
  <2>1. ASSUME NEW w \in worn
        PROVE  \E d \in claims' : ~d.live /\ d.kind = "name" /\ d.token = w[1] /\ d.account \in {w[2], Nobody}
    <3>1. PICK c \in claims : ~c.live /\ c.kind = "name" /\ c.token = w[1] /\ c.account \in {w[2], Nobody}
      BY DEF AccountsInv, WornIsHeld
    <3> QED BY <1>10, <3>1
  <2>2. ASSUME NEW w \in Bearing({c \in Live : c.account \in going})
        PROVE  \E d \in claims' : ~d.live /\ d.kind = "name" /\ d.token = w[1] /\ d.account \in {w[2], Nobody}
    <3>1. PICK c \in claims : /\ c.kind = "name" /\ c.account \in going
                              /\ w = <<c.token, c.account>>
      BY DEF Bearing, Live
    <3>2. c.account # Nobody
      BY <1>1, <3>1 DEF AccountIds, Nobody
    <3>3. w[1] = c.token /\ w[2] = c.account
      BY <3>1
    <3> QED BY <1>10, <3>1, <3>2, <3>3
  <2> QED BY <1>2, <2>1, <2>2 DEF WornIsHeld
<1>12. HolderRemembered'
  BY <1>1, <1>2 DEF AccountsInv, HolderRemembered
<1>13. Live' \subseteq Live
  BY <1>7 DEF Live
<1>14. WordsApart'
  BY <1>2, <1>13, SameCodes, FewerWords DEF AccountsInv
<1>15. \A c \in claims' \ claims : ~c.live
  BY <1>7
<1> QED BY <1>8, <1>9, <1>11, <1>12, <1>14, <1>15 DEF AccountsInv

(***************************************************************************)
(* The theorems.                                                           *)
(***************************************************************************)

HeldBackStep ==
  \A c \in claims' \ claims : c.live /\ c.kind = "name" =>
    \A w \in worn : w[1] = c.token => w[2] = c.account

LEMMA AccountsStep ==
  ASSUME AccountsInv, Beside = {}, [AccountsNext]_accountsVars
  PROVE  AccountsInv' /\ HeldBackStep
<1>1. ASSUME NEW a \in AccountIds, ReleaseName(a) \/ \E t \in Words : ClaimName(a, t)
      PROVE  AccountsInv' /\ HeldBackStep
  BY <1>1, NamesKeep DEF HeldBackStep
<1>2. CASE \/ YearPasses \/ \E c \in claims : DropClaim(c)
           \/ \E t \in Words \cup Leads, kind \in {"alias", "prefix"}, b \in Businesses \cup {Nobody} :
                AddClaim(t, kind, b)
  BY <1>2, OtherClaimsKeep DEF HeldBackStep
<1>3. ASSUME NEW b \in Businesses, NEW code \in Codes, AddBusiness(b, code)
      PROVE  AccountsInv' /\ HeldBackStep
  BY <1>3, AddBusinessKeeps DEF HeldBackStep, AddBusiness
<1>4. ASSUME NEW k \in Clerks,
             \/ \E b \in Businesses : BeginDeleteBusiness(k, b)
             \/ \E b \in Businesses, p \in AccountIds \cup {Nobody} : BeginMint(k, b, p)
             \/ MintRefused(k)
             \/ \E a \in AccountIds : BeginDelete(k, a)
             \/ ReadChildren(k)
      PROVE  AccountsInv' /\ HeldBackStep
  <2>1. AccountsInv'
    BY <1>4, RequestsKeep
  <2>2. UNCHANGED claims
    BY <1>4 DEF BeginDeleteBusiness, BeginMint, MintRefused, BeginDelete, ReadChildren
  <2> QED BY <2>1, <2>2 DEF HeldBackStep
<1>5. ASSUME NEW k \in Clerks, NEW n, Mint(k, n) PROVE AccountsInv' /\ HeldBackStep
  <2>1. AccountsInv'
    BY <1>5, MintKeeps
  <2>2. UNCHANGED claims
    BY <1>5 DEF Mint
  <2> QED BY <2>1, <2>2 DEF HeldBackStep
<1>6. ASSUME NEW k \in Clerks, DeleteBusiness(k) \/ DeleteAccount(k)
      PROVE  AccountsInv' /\ HeldBackStep
  BY <1>6, DeleteBusinessKeeps, DeleteAccountKeeps DEF HeldBackStep
<1>7. CASE UNCHANGED accountsVars
  <2>1. UNCHANGED <<codes, accounts, claims, clerks, numberHistory, worn>>
    BY <1>7 DEF accountsVars
  <2>2. Shapes' /\ ChildrenRead' /\ ClosingIsEmpty'
    BY <2>1, SameAccounts DEF AccountsInv, Shapes, ChildrenRead, ClosingIsEmpty
  <2>3. WornIsHeld' /\ HolderRemembered' /\ WordsApart'
    BY <2>1, SameAccounts, SameClaims, SameCodes, FewerWords DEF AccountsInv
  <2> QED BY <2>1, <2>2, <2>3 DEF AccountsInv, HeldBackStep
<1> QED BY <1>1, <1>2, <1>3, <1>4, <1>5, <1>6, <1>7 DEF AccountsNext

\* No claim and no business code is ever the start of another (migration 052).
THEOREM WordsApartAlways ==
  ASSUME Beside = {} PROVE AccountsSpec => []WordsApart
<1>1. AccountsInv /\ [AccountsNext]_accountsVars => AccountsInv'
  BY AccountsStep
<1>2. AccountsInv => WordsApart
  BY DEF AccountsInv
<1> QED BY <1>1, <1>2, AccountsInvInit, PTL DEF AccountsSpec

\* number_history has a row of every account that was deleted (deleteAccount).
THEOREM HolderRememberedAlways ==
  ASSUME Beside = {} PROVE AccountsSpec => []HolderRemembered
<1>1. AccountsInv /\ [AccountsNext]_accountsVars => AccountsInv'
  BY AccountsStep
<1>2. AccountsInv => HolderRemembered
  BY DEF AccountsInv
<1> QED BY <1>1, <1>2, AccountsInvInit, PTL DEF AccountsSpec

\* A name somebody bore within the year is claimed by nobody else (route_claim_conflict).
THEOREM NameHeldBackAlways ==
  ASSUME Beside = {} PROVE AccountsSpec => NameHeldBack
<1>1. AccountsInv /\ [AccountsNext]_accountsVars => AccountsInv'
  BY AccountsStep
<1>2. AccountsInv /\ [AccountsNext]_accountsVars => [HeldBackStep]_accountsVars
  BY AccountsStep
<1>3. NameHeldBack <=> [][HeldBackStep]_accountsVars
  BY DEF NameHeldBack, HeldBackStep
<1> QED BY <1>1, <1>2, <1>3, AccountsInvInit, PTL DEF AccountsSpec

(***************************************************************************)
(* What a payer is told to type reaches the account, whatever is opened,   *)
(* deleted or claimed meanwhile and in whatever order.                     *)
(***************************************************************************)

(***************************************************************************)
(* What is read of a number that was given out.                            *)
(***************************************************************************)

Digit == 0..9
GivenNumbers == UNION {WidthNumbers(w) : w \in FirstWidth..MaxDigits}

(* How a number of k nines and a block reads: the first digit that is not  *)
(* a nine ends what announces its width.                                   *)
Announces(n, k) ==
  /\ n \in Seq(Digit) /\ Len(n) = FirstWidth + k
  /\ \A i \in 1..k : n[i] = 9
  /\ n[k + 1] # 9

LEMMA GivenAnnounces ==
  ASSUME NEW n \in GivenNumbers
  PROVE  \E k \in Nat : Announces(n, k)
<1>1. PICK w \in FirstWidth..MaxDigits : n \in WidthNumbers(w)
  BY DEF GivenNumbers
<1>2. PICK k \in Nat : k = w - FirstWidth
  BY AccountsAssumption
<1>3. PICK d \in Blocks : n = [i \in 1..k |-> 9] \o d
  BY <1>1, <1>2 DEF WidthNumbers
<1> DEFINE nines == [i \in 1..k |-> 9]
<1>4. nines \in Seq(Digit) /\ Len(nines) = k /\ \A i \in 1..k : nines[i] = 9
  BY <1>2 DEF Digit
<1>5. d \in Seq(Digit) /\ Len(d) = FirstWidth /\ d[1] # 9
  BY AccountsAssumption DEF Digit
<1> HIDE DEF nines
<1>6. n = nines \o d
  BY <1>3 DEF nines
<1>7. /\ n \in Seq(Digit) /\ Len(n) = k + FirstWidth
      /\ \A i \in 1..k + FirstWidth : n[i] = IF i <= k THEN nines[i] ELSE d[i - k]
  <2>1. /\ nines \o d \in Seq(Digit) /\ Len(nines \o d) = Len(nines) + Len(d)
        /\ \A i \in 1..Len(nines) + Len(d) :
             (nines \o d)[i] = IF i <= Len(nines) THEN nines[i] ELSE d[i - Len(nines)]
    BY <1>4, <1>5, ConcatProperties
  <2> QED BY <1>4, <1>5, <1>6, <2>1
<1>8. FirstWidth \in Nat \ {0}
  BY AccountsAssumption
<1>9. n[k + 1] = d[1]
  BY <1>2, <1>7, <1>8
<1> QED BY <1>2, <1>4, <1>5, <1>7, <1>8, <1>9 DEF Announces

(* Whatever follows it, a number is read to its end and no further.        *)
LEMMA WidthOf ==
  ASSUME NEW k \in Nat, NEW n, Announces(n, k), NEW r \in Seq(Digit)
  PROVE  Width(n \o r) = Len(n)
<1> DEFINE ref == n \o r
           ahead == {i \in 1..Len(ref) : \A j \in 1..i : ref[j] = 9}
<1>0. FirstWidth \in Nat \ {0} /\ Len(r) \in Nat /\ Len(n) = FirstWidth + k /\ n \in Seq(Digit)
  BY AccountsAssumption, LenProperties DEF Announces
<1>1. Len(ref) = Len(n) + Len(r) /\ \A i \in 1..Len(n) : ref[i] = n[i]
  <2>1. /\ Len(n \o r) = Len(n) + Len(r)
        /\ \A i \in 1..Len(n) + Len(r) : (n \o r)[i] = IF i <= Len(n) THEN n[i] ELSE r[i - Len(n)]
    BY <1>0, ConcatProperties
  <2> QED BY <1>0, <2>1
<1> HIDE DEF ref
<1>2. (\A i \in 1..k : ref[i] = 9) /\ ref[k + 1] # 9
  BY <1>0, <1>1 DEF Announces
<1>3. ahead = 1..k
  BY <1>0, <1>1, <1>2
<1>4. Cardinality(ahead) = k
  <2> HIDE DEF ahead
  <2>1. Cardinality(1..k) = k
    BY FS_Interval
  <2> QED BY <1>3, <2>1
<1> QED BY <1>0, <1>4 DEF Width, Nines, ref

LEMMA OneLevel ==
  ASSUME NEW n \in GivenNumbers
  PROVE  Levels(n) = <<n>>
<1>1. PICK k \in Nat : Announces(n, k)
  BY GivenAnnounces
<1>2. n \in Seq(Digit)
  BY <1>1 DEF Announces
<1>3. n \o <<>> = n /\ <<>> \in Seq(Digit)
  BY <1>2, ConcatEmptySeq
<1>4. Width(n) = Len(n)
  BY <1>1, <1>3, WidthOf
<1>5. SubSeq(n, 1, Len(n)) = n /\ Len(n) \in Nat
  BY <1>2, SubSeqFull, LenProperties
<1>6. ~(Len(n) < Len(n)) /\ ~(Len(n) > Len(n))
  BY <1>5
<1> QED BY <1>4, <1>5, <1>6 DEF Levels

LEMMA TwoLevels ==
  ASSUME NEW n \in GivenNumbers, NEW m \in GivenNumbers
  PROVE  Levels(n \o m) = <<n, m>>
<1>1. PICK k \in Nat : Announces(n, k)
  BY GivenAnnounces
<1>2. PICK l \in Nat : Announces(m, l)
  BY GivenAnnounces
<1>3. n \in Seq(Digit) /\ m \in Seq(Digit) /\ Len(n) \in Nat \ {0} /\ Len(m) \in Nat \ {0}
  BY <1>1, <1>2, AccountsAssumption DEF Announces
<1>4. m \o <<>> = m /\ <<>> \in Seq(Digit)
  BY <1>3, ConcatEmptySeq
<1>5. Width(n \o m) = Len(n) /\ Width(m) = Len(m)
  BY <1>1, <1>2, <1>3, <1>4, WidthOf
<1>6. Len(n \o m) = Len(n) + Len(m)
  BY <1>3, ConcatProperties
<1>7. SubSeq(n \o m, 1, Len(n)) = n
  <2>1. 1 \in 1..Len(n) /\ Len(n) \in 1..Len(n)
    BY <1>3
  <2>2. SubSeq(n \o m, 1, Len(n)) = SubSeq(n, 1, Len(n))
    BY <1>3, <2>1, SubSeqOfConcat1
  <2> QED BY <1>3, <2>2, SubSeqFull
<1>8. SubSeq(n \o m, Len(n) + 1, Len(n \o m)) = m
  <2>1. Len(n) + 1 \in Len(n) + 1..Len(n) + Len(m) /\ Len(n) + Len(m) \in Len(n) + 1..Len(n) + Len(m)
    BY <1>3
  <2>2. SubSeq(n \o m, Len(n) + 1, Len(n) + Len(m))
          = SubSeq(m, Len(n) + 1 - Len(n), Len(n) + Len(m) - Len(n))
    BY <1>3, <2>1, SubSeqOfConcat2
  <2>3. Len(n) + 1 - Len(n) = 1 /\ Len(n) + Len(m) - Len(n) = Len(m)
    BY <1>3
  <2>4. SubSeq(m, 1, Len(m)) = m
    BY <1>3, SubSeqFull
  <2> QED BY <1>6, <2>2, <2>3, <2>4
<1>9. Len(n \o m) > Len(n) /\ ~(Len(n \o m) < Len(n)) /\ Len(n \o m) # Len(n)
  BY <1>3, <1>6
<1> QED BY <1>5, <1>7, <1>8, <1>9 DEF Levels

(* The numbers of an account and of the one it is under, one after the     *)
(* other.                                                                  *)
LEMMA FlattenOne ==
  ASSUME NEW n
  PROVE  FlattenSeq(<<n>>) = n
<1> DEFINE s == <<n>>
           ok(f) == f = [i \in 1..Len(s) |-> IF i = 1 THEN s[i] ELSE f[i - 1] \o s[i]]
           flat == CHOOSE f : ok(f)
<1>1. Len(s) = 1 /\ s[1] = n
  OBVIOUS
<1>2. FlattenSeq(s) = flat[1]
  BY <1>1 DEF FlattenSeq
<1> HIDE DEF s
<1>3. ok([i \in 1..1 |-> n])
  BY <1>1
<1>4. ok(flat)
  <2> HIDE DEF ok
  <2> QED BY <1>3
<1>5. flat[1] = n
  <2> HIDE DEF flat
  <2> QED BY <1>1, <1>4
<1> QED BY <1>2, <1>5 DEF s

LEMMA FlattenTwo ==
  ASSUME NEW n, NEW m
  PROVE  FlattenSeq(<<n, m>>) = n \o m
<1> DEFINE s == <<n, m>>
           ok(f) == f = [i \in 1..Len(s) |-> IF i = 1 THEN s[i] ELSE f[i - 1] \o s[i]]
           flat == CHOOSE f : ok(f)
<1>1. Len(s) = 2 /\ s[1] = n /\ s[2] = m
  OBVIOUS
<1>2. FlattenSeq(s) = flat[2]
  BY <1>1 DEF FlattenSeq
<1> HIDE DEF s
<1>3. ok([i \in 1..2 |-> IF i = 1 THEN n ELSE n \o m])
  BY <1>1
<1>4. ok(flat)
  <2> HIDE DEF ok
  <2> QED BY <1>3
<1>5. flat[2] = n \o m
  <2> HIDE DEF flat
  <2>1. flat = [i \in 1..2 |-> IF i = 1 THEN s[i] ELSE flat[i - 1] \o s[i]]
    BY <1>1, <1>4
  <2>2. flat[1] = s[1]
    BY <2>1
  <2>3. flat[2] = flat[1] \o s[2]
    <3>1. flat[2] = flat[2 - 1] \o s[2]
      <4>1. 2 \in 1..2 /\ 2 # 1
        OBVIOUS
      <4> QED BY <2>1, <4>1, Zenon
    <3> QED BY <3>1
  <2> QED BY <1>1, <2>2, <2>3
<1> QED BY <1>2, <1>5 DEF s

(***************************************************************************)
(* The accounts that are open, the codes and the live names, and what the  *)
(* requests under way have read of them.                                   *)
(***************************************************************************)

OpenRow == [state: {"open"}, business: Businesses, parent: AccountIds \cup {Nobody},
            number: GivenNumbers]

Rows ==
  /\ codes \in [Businesses -> Codes \cup {NoCode}]
  /\ accounts \in [AccountIds -> {Unopened, Deleted} \cup OpenRow]

CodesApart ==
  /\ IsFiniteSet(Registered)
  /\ \A b, c \in Registered : codes[b] = codes[c] => b = c

(* An account is of a business, under no account or under one of the same  *)
(* business that is under none, and its full number is not too long.       *)
Placed(a) ==
  LET p == accounts[a].parent
  IN /\ accounts[a].business \in Registered
     /\ p = Nobody => FirstWidth + Len(accounts[a].number) <= MaxDigits
     /\ p # Nobody =>
          /\ p \in Opened /\ accounts[p].business = accounts[a].business
          /\ accounts[p].parent = Nobody
          /\ FirstWidth + Len(accounts[p].number) + Len(accounts[a].number) <= MaxDigits

NumbersApart ==
  /\ \A a \in Opened : Placed(a)
  /\ \A a, o \in Opened : accounts[a] = accounts[o] => a = o

(* What a request is about is gone or is still what it was.                *)
IsParent(p, b) ==
  /\ p \in AccountIds
  /\ \/ accounts[p] = Deleted
     \/ p \in Opened /\ accounts[p].business = b /\ accounts[p].parent = Nobody

IsChild(x) ==
  /\ x \in AccountIds
  /\ accounts[x] = Deleted \/ (x \in Opened /\ accounts[x].parent # Nobody)

Stood(r) ==
  /\ r.step = "minting" /\ r.parent # Nobody => IsParent(r.parent, r.business)
  /\ r.step \in {"reading", "deleting"} => r.account \in AccountIds
  /\ r.step = "deleting" => \A x \in r.children : IsChild(x)

RequestsStand == clerks = [k \in Clerks |-> clerks[k]] /\ \A k \in Clerks : Stood(clerks[k])

NamesStand ==
  /\ \A c \in claims : IsClaim(c)
  /\ \A c \in Live : c.kind = "name" =>
       HasLetter(c.token) /\ c.account \in Opened /\ c.business = accounts[c.account].business
  /\ \A c, d \in Live : c.token = d.token => c = d

Addressed == Rows /\ CodesApart /\ NumbersApart /\ RequestsStand /\ NamesStand

LEMMA OpenedIs ==
  ASSUME Rows, NEW a \in Opened
  PROVE  /\ a \in AccountIds /\ a # Nobody /\ accounts[a] \in OpenRow
         /\ accounts[a].number \in GivenNumbers
         /\ accounts[a] = [state |-> "open", business |-> accounts[a].business,
                           parent |-> accounts[a].parent, number |-> accounts[a].number]
<1>1. accounts[a] \in {Unopened, Deleted} \cup OpenRow /\ accounts[a].state = "open" /\ a \in AccountIds
  BY DEF Opened, Rows
<1>2. accounts[a] \in OpenRow
  BY <1>1 DEF Unopened, Deleted
<1> QED BY <1>1, <1>2 DEF OpenRow, AccountIds, Nobody

(* The digits of an account after its business's code.                     *)
AccountDigits(a) == FlattenSeq(NumbersOf(a))

LEMMA GivenIsDigits ==
  ASSUME NEW n \in GivenNumbers
  PROVE  n \in Seq(Digit) /\ Len(n) \in Nat \ {0}
<1>1. PICK k \in Nat : Announces(n, k)
  BY GivenAnnounces
<1> QED BY <1>1, AccountsAssumption DEF Announces

(* The digits of an account are read back as its numbers.                  *)
LEMMA ReadBack ==
  ASSUME Addressed, NEW a \in Opened
  PROVE  /\ AccountDigits(a) \in Seq(Digit) /\ Len(AccountDigits(a)) \in Nat \ {0}
         /\ FirstWidth + Len(AccountDigits(a)) <= MaxDigits
         /\ Levels(AccountDigits(a)) = NumbersOf(a)
<1> DEFINE n == accounts[a].number
           p == accounts[a].parent
<1>1. n \in GivenNumbers /\ Placed(a)
  BY OpenedIs DEF Addressed, NumbersApart
<1>2. CASE p = Nobody
  <2>1. NumbersOf(a) = <<n>> /\ AccountDigits(a) = n
    BY <1>2, FlattenOne DEF NumbersOf, AccountDigits
  <2> QED BY <1>1, <1>2, <2>1, GivenIsDigits, OneLevel DEF Placed
<1>3. CASE p # Nobody
  <2> DEFINE m == accounts[p].number
  <2>1. NumbersOf(a) = <<m, n>> /\ AccountDigits(a) = m \o n
    BY <1>3, FlattenTwo DEF NumbersOf, AccountDigits
  <2>2. m \in GivenNumbers /\ FirstWidth + Len(m) + Len(n) <= MaxDigits
    BY <1>1, <1>3, OpenedIs DEF Placed, Addressed
  <2> HIDE DEF n, m
  <2>3. /\ m \in Seq(Digit) /\ n \in Seq(Digit) /\ Len(m) \in Nat \ {0} /\ Len(n) \in Nat \ {0}
    BY <1>1, <2>2, GivenIsDigits
  <2>4. m \o n \in Seq(Digit) /\ Len(m \o n) = Len(m) + Len(n)
    BY <2>3, ConcatProperties
  <2>5. Levels(m \o n) = <<m, n>>
    BY <1>1, <2>2, TwoLevels
  <2> QED BY <2>1, <2>2, <2>3, <2>4, <2>5, AccountsAssumption
<1> QED BY <1>2, <1>3

(* No two accounts of a business have the same numbers.                    *)
LEMMA NumbersName ==
  ASSUME Addressed, NEW a \in Opened, NEW o \in Opened,
         accounts[a].business = accounts[o].business, NumbersOf(a) = NumbersOf(o)
  PROVE  a = o
<1>1. Placed(a) /\ Placed(o)
  BY DEF Addressed, NumbersApart
<1>2. ASSUME NEW x \in Opened, NEW y \in Opened, accounts[x].business = accounts[y].business,
             accounts[x].parent = accounts[y].parent, accounts[x].number = accounts[y].number
      PROVE  x = y
  <2>1. accounts[x] = accounts[y]
    BY <1>2, OpenedIs DEF Addressed
  <2> QED BY <2>1 DEF Addressed, NumbersApart
<1>3. CASE accounts[a].parent = Nobody /\ accounts[o].parent = Nobody
  <2>1. <<accounts[a].number>> = <<accounts[o].number>>
    BY <1>3 DEF NumbersOf
  <2> QED BY <1>2, <1>3, <2>1
<1>4. CASE accounts[a].parent # Nobody /\ accounts[o].parent # Nobody
  <2> DEFINE p == accounts[a].parent
             q == accounts[o].parent
  <2>1. <<accounts[p].number, accounts[a].number>> = <<accounts[q].number, accounts[o].number>>
    BY <1>4 DEF NumbersOf
  <2>2. accounts[p].number = accounts[q].number /\ accounts[a].number = accounts[o].number
    BY <2>1
  <2>3. p \in Opened /\ q \in Opened /\ accounts[p].business = accounts[q].business
        /\ accounts[p].parent = accounts[q].parent
    BY <1>1, <1>4 DEF Placed
  <2>4. p = q
    BY <1>2, <2>2, <2>3
  <2> QED BY <1>2, <2>2, <2>4
<1>5. ASSUME NEW x \in Opened, NEW y \in Opened, accounts[x].parent = Nobody, accounts[y].parent # Nobody
      PROVE  NumbersOf(x) # NumbersOf(y)
  <2>1. Len(NumbersOf(x)) = 1 /\ Len(NumbersOf(y)) = 2
    BY <1>5 DEF NumbersOf
  <2> QED BY <2>1
<1> QED BY <1>3, <1>4, <1>5

LEMMA Resolves ==
  ASSUME Addressed, NEW a \in Opened
  PROVE  ResolveTail(accounts[a].business, AccountDigits(a)) = {a}
<1>1. Levels(AccountDigits(a)) = NumbersOf(a)
  BY ReadBack
<1>2. \A o \in Opened : accounts[o].business = accounts[a].business /\ NumbersOf(o) = NumbersOf(a) <=> o = a
  BY NumbersName
<1> QED BY <1>1, <1>2 DEF ResolveTail

(* A number is its business's code and then its digits, and is taken apart *)
(* into the two.                                                           *)
LEMMA TakenApart ==
  ASSUME Addressed, NEW a \in Opened, NEW b, b = accounts[a].business
  PROVE  /\ FullNumber(a) \in Seq(Digit) /\ Len(codes[b]) = CodeLength
         /\ b \in Registered /\ Len(FullNumber(a)) <= MaxDigits
         /\ Len(FullNumber(a)) > CodeLength
         /\ SubSeq(FullNumber(a), 1, CodeLength) = codes[b]
         /\ SubSeq(FullNumber(a), CodeLength + 1, Len(FullNumber(a))) = AccountDigits(a)
<1> DEFINE code == codes[b]
           rest == AccountDigits(a)
<1>1. b \in Registered /\ code \in Codes
  BY DEF Addressed, NumbersApart, Placed, Registered, Rows
<1>2. code \in Seq(Digit) /\ Len(code) = CodeLength /\ CodeLength \in Nat \ {0}
      /\ CodeLength <= FirstWidth /\ FirstWidth \in Nat /\ MaxDigits \in Nat
  BY <1>1, AccountsAssumption DEF Digit
<1>3. rest \in Seq(Digit) /\ Len(rest) \in Nat \ {0} /\ FirstWidth + Len(rest) <= MaxDigits
  BY ReadBack
<1>4. FullNumber(a) = code \o rest
  BY DEF FullNumber, AccountDigits
<1> HIDE DEF code, rest
<1>5. code \o rest \in Seq(Digit) /\ Len(code \o rest) = Len(code) + Len(rest)
  BY <1>2, <1>3, ConcatProperties
<1>6. SubSeq(code \o rest, 1, CodeLength) = code
  <2>1. 1 \in 1..Len(code) /\ Len(code) \in 1..Len(code)
    BY <1>2
  <2>2. SubSeq(code \o rest, 1, Len(code)) = SubSeq(code, 1, Len(code))
    BY <1>2, <1>3, <2>1, SubSeqOfConcat1
  <2> QED BY <1>2, <2>2, SubSeqFull
<1>7. SubSeq(code \o rest, CodeLength + 1, Len(code \o rest)) = rest
  <2> DEFINE f == CodeLength + 1
             l == CodeLength + Len(rest)
  <2>1. f \in Len(code) + 1..Len(code) + Len(rest) /\ l \in Len(code) + 1..Len(code) + Len(rest)
        /\ f - Len(code) = 1 /\ l - Len(code) = Len(rest)
    BY <1>2, <1>3
  <2> HIDE DEF f, l
  <2>2. SubSeq(code \o rest, f, l) = SubSeq(rest, f - Len(code), l - Len(code))
    BY <1>2, <1>3, <2>1, SubSeqOfConcat2
  <2>3. SubSeq(rest, 1, Len(rest)) = rest
    BY <1>3, SubSeqFull
  <2> QED BY <1>2, <1>5, <2>1, <2>2, <2>3 DEF f, l
<1> QED BY <1>1, <1>2, <1>3, <1>4, <1>5, <1>6, <1>7 DEF code, rest

LEMMA DigitsHaveNoLetter ==
  ASSUME NEW s \in Seq(Digit)
  PROVE  ~HasLetter(s)
<1>1. \A i \in 1..Len(s) : s[i] \in Digit
  BY ElementOfSeq
<1> QED BY <1>1 DEF HasLetter, Digit

(* Whoever types the number of an account pays that account.               *)
LEMMA NumberReaches ==
  ASSUME Addressed, NEW a \in Opened
  PROVE  FiledUnder(FullNumber(a)) = [business |-> accounts[a].business, account |-> a]
<1>0. PICK ref \in Seq(Digit) : ref = FullNumber(a)
  BY TakenApart
<1>1. PICK b : b = accounts[a].business
  OBVIOUS
<1>2. /\ Len(codes[b]) = CodeLength /\ b \in Registered /\ Len(ref) > CodeLength
      /\ SubSeq(ref, 1, CodeLength) = codes[b]
      /\ SubSeq(ref, CodeLength + 1, Len(ref)) = AccountDigits(a)
  BY <1>0, <1>1, TakenApart
<1>3. ~HasLetter(ref) /\ NamedBy(ref) = {}
  BY DigitsHaveNoLetter DEF NamedBy
<1>4. CodeLength \in Nat /\ Len(ref) \in Nat
  BY AccountsAssumption, LenProperties
<1>5. IsPrefix(codes[b], ref)
  BY <1>2, <1>4 DEF IsPrefix
<1>6. ResolveTail(b, AccountDigits(a)) = {a}
  BY <1>1, Resolves
<1>7. (CHOOSE x \in {a} : TRUE) = a
  OBVIOUS
<1>8. CASE Cardinality(Registered) = 1
  <2>1. Registered = {b}
    BY <1>2, <1>8, FS_Singleton DEF Addressed, CodesApart
  <2>2. (CHOOSE c \in Registered : TRUE) = b
    BY <2>1
  <2>3. ReadOnly(b, ref) = {a}
    BY <1>2, <1>5, <1>6 DEF ReadOnly
  <2> QED BY <1>0, <1>1, <1>3, <1>7, <1>8, <2>2, <2>3 DEF FiledUnder
<1>9. CASE Cardinality(Registered) # 1
  <2>1. ASSUME NEW c \in Registered, IsPrefix(codes[c], ref) PROVE c = b
    <3>1. Len(codes[c]) = CodeLength
      BY AccountsAssumption DEF Registered, Addressed, Rows
    <3>2. SubSeq(codes[c], 1, CodeLength) = codes[c]
      <4>1. codes[c] \in Seq(Digit)
        BY AccountsAssumption DEF Registered, Addressed, Rows, Digit
      <4> QED BY <3>1, <4>1, SubSeqFull
    <3>3. codes[c] = codes[b]
      BY <1>2, <2>1, <3>1, <3>2 DEF IsPrefix
    <3> QED BY <1>2, <3>3 DEF Addressed, CodesApart
  <2>2. (CHOOSE c \in Registered : IsPrefix(codes[c], ref)) = b
    BY <1>2, <1>5, <2>1
  <2>3. ReadAmong(b, ref) = {a}
    BY <1>2, <1>6 DEF ReadAmong
  <2> QED BY <1>0, <1>1, <1>2, <1>3, <1>5, <1>7, <1>9, <2>2, <2>3 DEF FiledUnder
<1> QED BY <1>8, <1>9

LEMMA NameReaches ==
  ASSUME Addressed, NEW c \in Live, c.kind = "name"
  PROVE  FiledUnder(c.token) = [business |-> c.business, account |-> c.account]
<1>1. HasLetter(c.token)
  BY DEF Addressed, NamesStand
<1>2. NamedBy(c.token) = {c}
  BY <1>1 DEF NamedBy, Live, Addressed, NamesStand
<1>3. (CHOOSE d \in NamedBy(c.token) : TRUE) = c
  BY <1>2
<1> QED BY <1>2, <1>3 DEF FiledUnder

LEMMA AddressedReaches == Addressed => AddressReaches
<1> SUFFICES ASSUME Addressed PROVE AddressReaches
  OBVIOUS
<1>1. ASSUME NEW a \in Opened PROVE Len(FullNumber(a)) <= MaxDigits
  BY TakenApart
<1>2. ASSUME NEW c \in Live, c.kind = "name" PROVE c.business = accounts[c.account].business
  BY <1>2 DEF Addressed, NamesStand
<1> QED BY <1>1, <1>2, NumberReaches, NameReaches DEF AddressReaches

(***************************************************************************)
(* Every step keeps it.                                                    *)
(***************************************************************************)

LEMMA AddressedInit == AccountsInit => Addressed
<1> SUFFICES ASSUME AccountsInit PROVE Addressed
  OBVIOUS
<1>1. Opened = {} /\ Registered = {} /\ Live = {}
  BY DEF AccountsInit, Opened, Registered, Live, Unopened
<1>2. Rows
  BY DEF AccountsInit, Rows
<1>3. CodesApart
  BY <1>1, FS_EmptySet DEF CodesApart
<1>4. RequestsStand
  BY DEF AccountsInit, RequestsStand, Stood, Free
<1>5. NamesStand
  BY <1>1 DEF AccountsInit, NamesStand
<1> QED BY <1>1, <1>2, <1>3, <1>4, <1>5 DEF Addressed, NumbersApart

(* Where codes and accounts stay, so do the numbers.                       *)
LEMMA NumbersStay ==
  ASSUME Addressed, UNCHANGED <<codes, accounts>>
  PROVE  /\ Rows' /\ CodesApart' /\ NumbersApart' /\ Opened' = Opened
         /\ \A r : Stood(r)' <=> Stood(r)
<1>1. Opened' = Opened /\ Registered' = Registered
  BY DEF Opened, Registered
<1>2. Rows' /\ CodesApart'
  BY <1>1 DEF Addressed, Rows, CodesApart
<1>3. NumbersApart'
  BY <1>1 DEF Addressed, NumbersApart, Placed
<1>4. ASSUME NEW r PROVE Stood(r)' <=> Stood(r)
  BY <1>1 DEF Stood, IsParent, IsChild
<1> QED BY <1>1, <1>2, <1>3, <1>4

(* Only a request moves.                                                   *)
LEMMA RequestMoves ==
  ASSUME Addressed, UNCHANGED <<codes, accounts, claims>>, NEW k \in Clerks, NEW r, Stood(r),
         clerks' = [clerks EXCEPT ![k] = r]
  PROVE  Addressed'
<1>1. \A j \in Clerks : clerks'[j] = IF j = k THEN r ELSE clerks[j]
  BY DEF Addressed, RequestsStand
<1>2. \A j \in Clerks : Stood(clerks'[j])
  BY <1>1 DEF Addressed, RequestsStand
<1>3. RequestsStand'
  <2>1. clerks' = [j \in Clerks |-> clerks'[j]]
    BY DEF Addressed, RequestsStand
  <2>2. ASSUME NEW j \in Clerks PROVE Stood(clerks[j])'
    <3>1. PICK q : q = clerks'[j]
      OBVIOUS
    <3>2. Stood(q)'
      BY <1>2, <3>1, NumbersStay
    <3> QED BY <3>1, <3>2 DEF Stood, IsParent, IsChild
  <2> QED BY <2>1, <2>2 DEF RequestsStand
<1>4. NamesStand'
  BY NumbersStay DEF Addressed, NamesStand, Live
<1> QED BY <1>3, <1>4, NumbersStay DEF Addressed

LEMMA RequestsAddressed ==
  ASSUME Addressed, NEW k \in Clerks,
         \/ \E b \in Businesses : BeginDeleteBusiness(k, b)
         \/ \E b \in Businesses, p \in AccountIds \cup {Nobody} : BeginMint(k, b, p)
         \/ MintRefused(k)
         \/ \E a \in AccountIds : BeginDelete(k, a)
         \/ ReadChildren(k)
  PROVE  Addressed'
<1>1. ASSUME NEW b \in Businesses, BeginDeleteBusiness(k, b) PROVE Addressed'
  <2>1. PICK r : r = [step |-> "closing", business |-> b]
    OBVIOUS
  <2>2. Stood(r)
    BY <2>1 DEF Stood
  <2> QED BY <1>1, <2>1, <2>2, RequestMoves DEF BeginDeleteBusiness
<1>2. ASSUME NEW b \in Businesses, NEW p \in AccountIds \cup {Nobody}, BeginMint(k, b, p)
      PROVE  Addressed'
  <2>1. PICK r : r = [step |-> "minting", business |-> b, parent |-> p]
    OBVIOUS
  <2>2. Stood(r)
    BY <1>2, <2>1 DEF Stood, BeginMint, In, IsParent
  <2> QED BY <1>2, <2>1, <2>2, RequestMoves DEF BeginMint
<1>3. CASE MintRefused(k)
  <2>1. Stood(Free)
    BY DEF Stood, Free
  <2> QED BY <1>3, <2>1, RequestMoves DEF MintRefused
<1>4. ASSUME NEW a \in AccountIds, BeginDelete(k, a) PROVE Addressed'
  <2>1. PICK r : r = [step |-> "reading", account |-> a]
    OBVIOUS
  <2>2. Stood(r)
    BY <2>1 DEF Stood
  <2> QED BY <1>4, <2>1, <2>2, RequestMoves DEF BeginDelete
<1>5. CASE ReadChildren(k)
  <2>1. PICK r : r = [step |-> "deleting", account |-> clerks[k].account,
                      children |-> Under(clerks[k].account)]
    OBVIOUS
  <2>2. clerks[k].account \in AccountIds
    BY <1>5 DEF ReadChildren, Addressed, RequestsStand, Stood
  <2>3. \A x \in Under(clerks[k].account) : IsChild(x)
    BY <2>2 DEF Under, Opened, IsChild, AccountIds, Nobody
  <2>4. Stood(r)
    BY <2>1, <2>2, <2>3 DEF Stood
  <2> QED BY <1>5, <2>1, <2>4, RequestMoves DEF ReadChildren
<1> QED BY <1>1, <1>2, <1>3, <1>4, <1>5

(* Only claims move, and no more than one is new.                          *)
LEMMA ClaimsAddressed ==
  ASSUME Addressed, UNCHANGED <<codes, accounts, clerks>>, \A c \in claims' : IsClaim(c),
         NEW d, Live' \subseteq Live \cup {d},
         d \in Live' => \/ d \in Live
                        \/ /\ \A c \in Live : c.token # d.token
                           /\ d.kind = "name" => /\ HasLetter(d.token) /\ d.account \in Opened
                                                 /\ d.business = accounts[d.account].business
  PROVE  Addressed'
<1>1. RequestsStand'
  <2>1. ASSUME NEW j \in Clerks PROVE Stood(clerks[j])'
    <3>1. PICK q : q = clerks[j]
      OBVIOUS
    <3>2. Stood(q)'
      BY <3>1, NumbersStay DEF Addressed, RequestsStand
    <3> QED BY <3>1, <3>2 DEF Stood, IsParent, IsChild
  <2> QED BY <2>1 DEF Addressed, RequestsStand
<1>2. NamesStand'
  <2>1. ASSUME NEW c \in Live', c.kind = "name"
        PROVE  HasLetter(c.token) /\ c.account \in Opened /\ c.business = accounts[c.account].business
    BY <2>1 DEF Addressed, NamesStand
  <2>2. ASSUME NEW c \in Live', NEW e \in Live', c.token = e.token PROVE c = e
    BY <2>2 DEF Addressed, NamesStand
  <2> QED BY <2>1, <2>2, NumbersStay DEF NamesStand
<1> QED BY <1>1, <1>2, NumbersStay DEF Addressed

LEMMA ReleasedAreNot ==
  ASSUME NEW old, \A c \in old : IsClaim(c)
  PROVE  \A e \in ReleasedNames(old) : IsClaim(e) /\ ~e.live
<1>1. ReleasedNames(old) = {Rested(c) : c \in old}
  BY DEF ReleasedNames, Rested
<1> QED BY <1>1, RestedClaim

LEMMA NamesAddressed ==
  ASSUME Addressed, NEW a \in AccountIds, ReleaseName(a) \/ \E t \in Words : ClaimName(a, t)
  PROVE  Addressed'
<1> DEFINE old == OldNames(a)
<1>0. \A e \in ReleasedNames(old) : IsClaim(e) /\ ~e.live
  BY ReleasedAreNot DEF OldNames, Live, Addressed, NamesStand
<1>1. CASE ReleaseName(a)
  <2>1. claims' = (claims \ old) \cup ReleasedNames(old) /\ UNCHANGED <<codes, accounts, clerks>>
    BY <1>1 DEF ReleaseName, OldNames
  <2> HIDE DEF old
  <2>2. Live' \subseteq Live /\ \A c \in claims' : IsClaim(c)
    BY <1>0, <2>1 DEF Live, Addressed, NamesStand
  <2> QED BY <2>1, <2>2, ClaimsAddressed
<1>2. ASSUME NEW t \in Words, ClaimName(a, t) PROVE Addressed'
  <2>1. PICK d : d = [token |-> t, kind |-> "name", business |-> accounts[a].business,
                      account |-> a, live |-> TRUE]
    OBVIOUS
  <2>2. /\ IsClaim(d) /\ d.live /\ d.token = t /\ d.account = a
        /\ d.business = accounts[a].business
    BY <2>1 DEF IsClaim
  <2>3. /\ claims' = (claims \ old) \cup ReleasedNames(old) \cup {d}
        /\ UNCHANGED <<codes, accounts, clerks>>
    BY <1>2, <2>1 DEF ClaimName, OldNames
  <2> HIDE DEF old
  <2>4. Live' \subseteq Live \cup {d} /\ \A c \in claims' : IsClaim(c)
    BY <1>0, <2>2, <2>3 DEF Live, Addressed, NamesStand
  <2>5. (\A c \in Live : c.token # d.token) /\ HasLetter(d.token) /\ d.account \in Opened
    BY <1>2, <2>2 DEF ClaimName, Conflict
  <2> QED BY <2>2, <2>3, <2>4, <2>5, ClaimsAddressed
<1> QED BY <1>1, <1>2

LEMMA OtherClaimsAddressed ==
  ASSUME Addressed,
         \/ YearPasses \/ \E c \in claims : DropClaim(c)
         \/ \E t \in Words \cup Leads, kind \in {"alias", "prefix"}, b \in Businesses \cup {Nobody} :
              AddClaim(t, kind, b)
  PROVE  Addressed'
<1>1. ASSUME claims' \subseteq claims, UNCHANGED <<codes, accounts, clerks>> PROVE Addressed'
  <2>1. Live' \subseteq Live /\ \A c \in claims' : IsClaim(c)
    BY <1>1 DEF Live, Addressed, NamesStand
  <2> QED BY <1>1, <2>1, ClaimsAddressed
<1>2. ASSUME NEW t \in Words \cup Leads, NEW kind \in {"alias", "prefix"},
             NEW b \in Businesses \cup {Nobody}, AddClaim(t, kind, b)
      PROVE  Addressed'
  <2>1. PICK d : d = [token |-> t, kind |-> kind, business |-> b, account |-> Nobody, live |-> TRUE]
    OBVIOUS
  <2>2. IsClaim(d) /\ d.live /\ d.token = t /\ d.kind # "name"
    BY <2>1 DEF IsClaim
  <2>3. claims' = claims \cup {d} /\ UNCHANGED <<codes, accounts, clerks>>
    BY <1>2, <2>1 DEF AddClaim
  <2>4. Live' \subseteq Live \cup {d} /\ \A c \in claims' : IsClaim(c)
    BY <2>2, <2>3 DEF Live, Addressed, NamesStand
  <2>5. \A c \in Live : c.token # d.token
    BY <1>2, <2>2 DEF AddClaim, Conflict
  <2> QED BY <2>2, <2>3, <2>4, <2>5, ClaimsAddressed
<1> QED BY <1>1, <1>2 DEF YearPasses, DropClaim, Live

LEMMA AddBusinessAddressed ==
  ASSUME Addressed, NEW b \in Businesses, NEW code \in Codes, AddBusiness(b, code)
  PROVE  Addressed'
<1>1. b \notin Registered /\ (\A c \in Registered : codes[c] # code)
      /\ codes' = [codes EXCEPT ![b] = code] /\ UNCHANGED <<accounts, claims, clerks>>
  BY DEF AddBusiness, ClearCode
<1>2. \A c \in Businesses : codes'[c] = IF c = b THEN code ELSE codes[c]
  BY <1>1 DEF Addressed, Rows
<1>3. code # NoCode
  <2>1. code \in Seq(0..9) /\ Len(code) # 0
    BY AccountsAssumption
  <2> QED BY <2>1 DEF NoCode
<1>4. Registered' = Registered \cup {b}
  BY <1>2, <1>3 DEF Registered
<1>5. Opened' = Opened
  BY <1>1 DEF Opened
<1>6. Rows'
  BY <1>1 DEF Addressed, Rows
<1>7. CodesApart'
  <2>1. IsFiniteSet(Registered')
    BY <1>4, FS_AddElement DEF Addressed, CodesApart
  <2>2. ASSUME NEW c \in Registered', NEW e \in Registered', codes'[c] = codes'[e] PROVE c = e
    BY <1>1, <1>2, <1>4, <2>2 DEF Addressed, CodesApart, Registered
  <2> QED BY <2>1, <2>2 DEF CodesApart
<1>8. NumbersApart'
  BY <1>1, <1>4, <1>5 DEF Addressed, NumbersApart, Placed
<1>9. RequestsStand'
  BY <1>1, <1>5 DEF Addressed, RequestsStand, Stood, IsParent, IsChild
<1>10. NamesStand'
  BY <1>1, <1>5 DEF Addressed, NamesStand, Live
<1> QED BY <1>6, <1>7, <1>8, <1>9, <1>10 DEF Addressed

LEMMA WidthIs ==
  ASSUME NEW w \in FirstWidth..MaxDigits, NEW n \in WidthNumbers(w)
  PROVE  Len(n) = w
<1>1. PICK k \in Nat : k = w - FirstWidth
  BY AccountsAssumption
<1>2. PICK d \in Blocks : n = [i \in 1..k |-> 9] \o d
  BY <1>1 DEF WidthNumbers
<1> DEFINE nines == [i \in 1..k |-> 9]
<1>3. nines \in Seq(Digit) /\ Len(nines) = k
  BY DEF Digit
<1>4. d \in Seq(Digit) /\ Len(d) = FirstWidth
  BY AccountsAssumption DEF Digit
<1> HIDE DEF nines
<1>5. Len(nines \o d) = k + FirstWidth
  BY <1>3, <1>4, ConcatProperties
<1>6. n = nines \o d
  BY <1>2 DEF nines
<1> QED BY <1>1, <1>5, <1>6, AccountsAssumption

LEMMA MintAddressed ==
  ASSUME Addressed, NEW k \in Clerks, NEW n, Mint(k, n)
  PROVE  Addressed'
<1> DEFINE fresh == {a \in AccountIds : accounts[a] = Unopened}
<1>1. PICK i : i = Min(fresh)
  OBVIOUS
<1>2. PICK b : b = clerks[k].business
  OBVIOUS
<1>3. PICK p : p = clerks[k].parent
  OBVIOUS
<1>4. PICK x : x = [state |-> "open", business |-> b, parent |-> p, number |-> n]
  OBVIOUS
<1>5. i \in AccountIds /\ accounts[i] = Unopened
  <2>1. fresh # {} /\ fresh \subseteq Nat
    BY DEF Mint, AccountIds
  <2>2. Min(fresh) \in fresh
    <3> HIDE DEF fresh
    <3> QED BY <2>1, Least
  <2> QED BY <1>1, <2>2
<1>6. /\ b \in Registered /\ clerks' = [clerks EXCEPT ![k] = Free]
      /\ accounts' = [accounts EXCEPT ![i] = x] /\ UNCHANGED <<codes, claims>>
  BY <1>1, <1>2, <1>3, <1>4 DEF Mint, Stands
<1>7. p # Nobody => /\ p \in Opened /\ accounts[p].business = b /\ accounts[p].parent = Nobody
                    /\ accounts[p].number \in GivenNumbers
  <2>1. ASSUME p # Nobody PROVE p \in Opened /\ IsParent(p, b)
    BY <1>2, <1>3, <2>1 DEF Mint, Stands, Addressed, RequestsStand, Stood
  <2>2. Deleted.state # "open"
    BY DEF Deleted
  <2> QED BY <2>1, <2>2, OpenedIs DEF IsParent, Opened, Addressed
<1> DEFINE base == FirstWidth + (IF p = Nobody THEN 0 ELSE Len(accounts[p].number))
<1>8. base \in Nat
  BY <1>7, GivenIsDigits, AccountsAssumption
<1>9. PICK w \in FirstWidth..(MaxDigits - base) : n \in WidthNumbers(w)
  <2>1. PICK w \in WithRoom(b, p) : n \in WidthNumbers(w)
    BY <1>2, <1>3 DEF Mint
  <2>2. w \in FirstWidth..(MaxDigits - base)
    BY <2>1 DEF WithRoom
  <2> QED BY <2>1, <2>2
<1>10. n \notin Taken(b, p)
  BY <1>2, <1>3 DEF Mint
<1>11. w \in FirstWidth..MaxDigits /\ base + w <= MaxDigits
  <2> HIDE DEF base
  <2> QED BY <1>8, <1>9, AccountsAssumption
<1>12. n \in GivenNumbers /\ Len(n) = w
  BY <1>9, <1>11, WidthIs DEF GivenNumbers
<1>13. x \in OpenRow /\ x.state = "open" /\ x.business = b /\ x.parent = p /\ x.number = n
  BY <1>4, <1>6, <1>7, <1>12 DEF OpenRow, Registered, Opened
<1>14. \A a \in AccountIds : accounts'[a] = IF a = i THEN x ELSE accounts[a]
  BY <1>6 DEF Addressed, Rows
<1>15. Opened' = Opened \cup {i} /\ i \notin Opened /\ Registered' = Registered
  BY <1>5, <1>6, <1>13, <1>14 DEF Opened, Registered, Unopened
<1>16. Rows' /\ CodesApart'
  BY <1>6, <1>13, <1>15 DEF Addressed, Rows, CodesApart
<1>17. \A a \in Opened : accounts'[a] = accounts[a]
  BY <1>14, <1>15 DEF Opened
<1>18. NumbersApart'
  <2>1. ASSUME NEW a \in Opened PROVE Placed(a)'
    <3>1. PICK q : q = accounts[a].parent
      OBVIOUS
    <3>2. q # Nobody => q \in Opened /\ accounts'[q] = accounts[q]
      BY <1>17, <3>1 DEF Addressed, NumbersApart, Placed
    <3> QED BY <1>15, <1>17, <3>1, <3>2 DEF Addressed, NumbersApart, Placed
  <2>2. Placed(i)'
    <3>1. accounts'[i] = x
      BY <1>5, <1>14
    <3>2. p # Nobody => accounts'[p] = accounts[p]
      BY <1>7, <1>17
    <3>3. p = Nobody => FirstWidth + Len(n) <= MaxDigits
      BY <1>11, <1>12, AccountsAssumption
    <3>4. p # Nobody => FirstWidth + Len(accounts[p].number) + Len(n) <= MaxDigits
      BY <1>11, <1>12
    <3> HIDE DEF base
    <3> QED BY <1>6, <1>7, <1>13, <1>15, <3>1, <3>2, <3>3, <3>4 DEF Placed
  <2>3. ASSUME NEW o \in Opened PROVE accounts[o] # x
    <3>1. ASSUME accounts[o] = x PROVE n \in Taken(b, p)
      BY <1>13, <3>1 DEF Taken, In
    <3> QED BY <1>10, <3>1
  <2>4. ASSUME NEW a \in Opened', NEW o \in Opened', accounts'[a] = accounts'[o] PROVE a = o
    <3>1. accounts'[i] = x
      BY <1>5, <1>14
    <3> QED BY <1>15, <1>17, <2>3, <2>4, <3>1 DEF Addressed, NumbersApart
  <2> QED BY <1>15, <2>1, <2>2, <2>4 DEF NumbersApart
<1>19. ASSUME NEW r, Stood(r) PROVE Stood(r)'
  <2>1. ASSUME NEW a \in AccountIds, accounts[a] = Deleted PROVE accounts'[a] = Deleted
    BY <1>5, <1>14, <2>1 DEF Deleted, Unopened
  <2>2. ASSUME NEW q, NEW c, IsParent(q, c) PROVE IsParent(q, c)'
    BY <1>15, <1>17, <2>1, <2>2 DEF IsParent
  <2>3. ASSUME NEW q, IsChild(q) PROVE IsChild(q)'
    BY <1>15, <1>17, <2>1, <2>3 DEF IsChild
  <2> QED BY <1>19, <2>2, <2>3 DEF Stood
<1>20. RequestsStand'
  <2>1. \A j \in Clerks : clerks'[j] = IF j = k THEN Free ELSE clerks[j]
    BY <1>6 DEF Addressed, RequestsStand
  <2>2. ASSUME NEW j \in Clerks PROVE Stood(clerks[j])'
    <3>1. PICK r : r = clerks'[j]
      OBVIOUS
    <3>2. Stood(r)
      BY <2>1, <3>1 DEF Addressed, RequestsStand, Stood, Free
    <3>3. Stood(r)'
      BY <1>19, <3>2
    <3> QED BY <3>1, <3>3 DEF Stood, IsParent, IsChild
  <2>3. clerks' = [j \in Clerks |-> clerks'[j]]
    BY <1>6 DEF Addressed, RequestsStand
  <2> QED BY <2>2, <2>3 DEF RequestsStand
<1>21. NamesStand'
  <2>1. Live' = Live
    BY <1>6 DEF Live
  <2>2. ASSUME NEW c \in Live, c.kind = "name"
        PROVE  HasLetter(c.token) /\ c.account \in Opened' /\ c.business = accounts'[c.account].business
    BY <1>15, <1>17, <2>2 DEF Addressed, NamesStand
  <2> QED BY <1>6, <2>1, <2>2 DEF Addressed, NamesStand
<1> QED BY <1>16, <1>18, <1>20, <1>21 DEF Addressed

(* Accounts go, with all that is under them.                               *)
LEMMA GoneAddressed ==
  ASSUME Addressed, NEW k \in Clerks, clerks' = [clerks EXCEPT ![k] = Free],
         NEW going, going \subseteq Opened,
         \A o \in Opened : accounts[o].parent \in going => o \in going,
         accounts' = [a \in AccountIds |-> IF a \in going THEN Deleted ELSE accounts[a]],
         codes' \in [Businesses -> Codes \cup {NoCode}], CodesApart',
         \A o \in Opened \ going : accounts[o].business \in Registered',
         \A c \in claims' : IsClaim(c),
         \A c \in Live' : c \in Live /\ (c.kind = "name" => c.account \notin going)
  PROVE  Addressed'
<1>1. \A a \in AccountIds : accounts'[a] = IF a \in going THEN Deleted ELSE accounts[a]
  OBVIOUS
<1>2. Opened' = Opened \ going
  BY <1>1 DEF Opened, Deleted
<1>3. \A a \in Opened' : a \in AccountIds /\ accounts'[a] = accounts[a]
  BY <1>1, <1>2 DEF Opened
<1>4. Rows'
  BY <1>1 DEF Addressed, Rows
<1>5. NumbersApart'
  <2>1. ASSUME NEW a \in Opened' PROVE Placed(a)'
    <3>1. PICK q : q = accounts[a].parent
      OBVIOUS
    <3>2. Placed(a) /\ a \in Opened \ going
      BY <1>2 DEF Addressed, NumbersApart
    <3>3. q # Nobody => q \in Opened' /\ accounts'[q] = accounts[q]
      BY <1>2, <1>3, <3>1, <3>2 DEF Placed
    <3> QED BY <1>3, <3>1, <3>2, <3>3 DEF Placed
  <2>2. ASSUME NEW a \in Opened', NEW o \in Opened', accounts'[a] = accounts'[o] PROVE a = o
    BY <1>2, <1>3, <2>2 DEF Addressed, NumbersApart
  <2> QED BY <2>1, <2>2 DEF NumbersApart
<1>6. ASSUME NEW r, Stood(r) PROVE Stood(r)'
  <2>1. ASSUME NEW a \in AccountIds
        PROVE  /\ accounts[a] = Deleted => accounts'[a] = Deleted
               /\ a \in Opened => accounts'[a] = Deleted \/ (a \in Opened' /\ accounts'[a] = accounts[a])
    BY <1>1, <1>2
  <2>2. ASSUME NEW q, NEW c, IsParent(q, c) PROVE IsParent(q, c)'
    BY <2>1, <2>2 DEF IsParent
  <2>3. ASSUME NEW q, IsChild(q) PROVE IsChild(q)'
    BY <2>1, <2>3 DEF IsChild
  <2> QED BY <1>6, <2>2, <2>3 DEF Stood
<1>7. RequestsStand'
  <2>1. \A j \in Clerks : clerks'[j] = IF j = k THEN Free ELSE clerks[j]
    BY DEF Addressed, RequestsStand
  <2>2. ASSUME NEW j \in Clerks PROVE Stood(clerks[j])'
    <3>1. PICK r : r = clerks'[j]
      OBVIOUS
    <3>2. Stood(r)
      BY <2>1, <3>1 DEF Addressed, RequestsStand, Stood, Free
    <3>3. Stood(r)'
      BY <1>6, <3>2
    <3> QED BY <3>1, <3>3 DEF Stood, IsParent, IsChild
  <2>3. clerks' = [j \in Clerks |-> clerks'[j]]
    BY DEF Addressed, RequestsStand
  <2> QED BY <2>2, <2>3 DEF RequestsStand
<1>8. NamesStand'
  <2>1. ASSUME NEW c \in Live', c.kind = "name"
        PROVE  HasLetter(c.token) /\ c.account \in Opened' /\ c.business = accounts'[c.account].business
    BY <1>2, <1>3, <2>1 DEF Addressed, NamesStand
  <2>2. ASSUME NEW c \in Live', NEW e \in Live', c.token = e.token PROVE c = e
    BY <2>2 DEF Addressed, NamesStand
  <2> QED BY <2>1, <2>2 DEF NamesStand
<1> QED BY <1>4, <1>5, <1>7, <1>8 DEF Addressed

LEMMA DeleteBusinessAddressed ==
  ASSUME Addressed, NEW k \in Clerks, DeleteBusiness(k)
  PROVE  Addressed'
<1>1. PICK b : b = clerks[k].business
  OBVIOUS
<1>2. PICK going : going = In(b)
  OBVIOUS
<1>3. /\ clerks' = [clerks EXCEPT ![k] = Free] /\ codes' = [codes EXCEPT ![b] = NoCode]
      /\ claims' = {c \in claims : c.business # b}
      /\ accounts' = [a \in AccountIds |-> IF a \in going THEN Deleted ELSE accounts[a]]
  BY <1>1, <1>2 DEF DeleteBusiness, Gone
<1>4. going \subseteq Opened /\ \A o \in Opened : o \in going <=> accounts[o].business = b
  BY <1>2 DEF In
<1>5. \A o \in Opened : accounts[o].parent \in going => o \in going
  <2>1. ASSUME NEW o \in Opened, accounts[o].parent \in going PROVE o \in going
    <3>1. accounts[o].parent # Nobody
      BY <1>4, <2>1 DEF Opened, AccountIds, Nobody
    <3>2. accounts[accounts[o].parent].business = accounts[o].business
      BY <3>1 DEF Addressed, NumbersApart, Placed
    <3> QED BY <1>4, <2>1, <3>2
  <2> QED BY <2>1
<1>6. codes' \in [Businesses -> Codes \cup {NoCode}]
  BY <1>3 DEF Addressed, Rows
<1>7. Registered' = Registered \ {b} /\ \A c \in Registered' : codes'[c] = codes[c]
  BY <1>3 DEF Registered, Addressed, Rows
<1>8. CodesApart'
  <2>1. IsFiniteSet(Registered')
    BY <1>7, FS_Subset DEF Addressed, CodesApart
  <2> QED BY <1>7, <2>1 DEF Addressed, CodesApart
<1>9. \A o \in Opened \ going : accounts[o].business \in Registered'
  BY <1>4, <1>7 DEF Addressed, NumbersApart, Placed
<1>10. \A c \in claims' : IsClaim(c)
  BY <1>3 DEF Addressed, NamesStand
<1>11. \A c \in Live' : c \in Live /\ (c.kind = "name" => c.account \notin going)
  <2>1. ASSUME NEW c \in Live' PROVE c \in Live /\ c.business # b
    BY <1>3 DEF Live
  <2>2. ASSUME NEW c \in Live', c.kind = "name" PROVE c.account \notin going
    BY <1>4, <2>1, <2>2 DEF Addressed, NamesStand
  <2> QED BY <2>1, <2>2
<1> QED BY <1>3, <1>4, <1>5, <1>6, <1>8, <1>9, <1>10, <1>11, GoneAddressed

LEMMA DeleteAccountAddressed ==
  ASSUME Addressed, NEW k \in Clerks, DeleteAccount(k)
  PROVE  Addressed'
<1>1. PICK a : a = clerks[k].account
  OBVIOUS
<1>2. PICK going : going = (Remembered(k) \cup Under(a)) \cap Opened
  OBVIOUS
<1>3. /\ clerks' = [clerks EXCEPT ![k] = Free] /\ UNCHANGED codes
      /\ claims' = Orphaned(going)
      /\ accounts' = [o \in AccountIds |-> IF o \in going THEN Deleted ELSE accounts[o]]
  BY <1>1, <1>2 DEF DeleteAccount, Gone
<1>4. going \subseteq Opened
  BY <1>2
<1>5. \A o \in Opened : accounts[o].parent \in going => o \in going
  <2>1. ASSUME NEW o \in Opened, accounts[o].parent \in going PROVE o \in going
    <3>1. PICK p : p = accounts[o].parent
      OBVIOUS
    <3>2. p \in Opened /\ p # Nobody
      <4>1. p \in Opened
        BY <1>4, <2>1, <3>1
      <4> QED BY <4>1, OpenedIs DEF Addressed
    <3>3. accounts[p].parent = Nobody
      BY <3>1, <3>2 DEF Addressed, NumbersApart, Placed
    <3>4. a \in AccountIds /\ a # Nobody /\ \A x \in clerks[k].children : IsChild(x)
      BY <1>1 DEF DeleteAccount, Addressed, RequestsStand, Stood, AccountIds, Nobody
    <3>5. p \notin clerks[k].children
      BY <3>2, <3>3, <3>4 DEF IsChild, Opened, Deleted
    <3>6. p \notin Under(a)
      BY <3>3, <3>4 DEF Under
    <3>7. p = a
      BY <1>1, <1>2, <2>1, <3>1, <3>5, <3>6 DEF Remembered
    <3>8. o \in Under(a)
      BY <3>1, <3>7 DEF Under
    <3> QED BY <1>2, <3>8
  <2> QED BY <2>1
<1>6. codes' \in [Businesses -> Codes \cup {NoCode}] /\ Registered' = Registered
  BY <1>3 DEF Addressed, Rows, Registered
<1>7. CodesApart'
  BY <1>3, <1>6 DEF Addressed, CodesApart
<1>8. \A o \in Opened \ going : accounts[o].business \in Registered'
  BY <1>6 DEF Addressed, NumbersApart, Placed
<1>9. claims' = {IF c.account \in going THEN Orphan(c) ELSE c : c \in claims}
  BY <1>3 DEF Orphaned, Orphan
<1>10. ASSUME NEW d \in claims'
       PROVE  IsClaim(d) /\ (d.live => d \in claims /\ d.account \notin going)
  <2>1. PICK c \in claims : d = IF c.account \in going THEN Orphan(c) ELSE c
    BY <1>9
  <2>2. IsClaim(c)
    BY DEF Addressed, NamesStand
  <2> QED BY <2>1, <2>2, OrphanedClaim
<1>11. \A c \in Live' : c \in Live /\ (c.kind = "name" => c.account \notin going)
  BY <1>10 DEF Live
<1> QED BY <1>3, <1>4, <1>5, <1>6, <1>7, <1>8, <1>10, <1>11, GoneAddressed

LEMMA AddressedStep == Addressed /\ [AccountsNext]_accountsVars => Addressed'
<1> SUFFICES ASSUME Addressed, [AccountsNext]_accountsVars PROVE Addressed'
  OBVIOUS
<1>1. ASSUME NEW k \in Clerks, NEW n, Mint(k, n) PROVE Addressed'
  BY <1>1, MintAddressed
<1>2. CASE UNCHANGED accountsVars
  <2>1. UNCHANGED <<codes, accounts, claims, clerks>>
    BY <1>2 DEF accountsVars
  <2>2. Live' \subseteq Live /\ \A c \in claims' : IsClaim(c)
    BY <2>1 DEF Live, Addressed, NamesStand
  <2> QED BY <2>1, <2>2, ClaimsAddressed
<1> QED
  BY <1>1, <1>2, RequestsAddressed, NamesAddressed, OtherClaimsAddressed, AddBusinessAddressed,
     DeleteBusinessAddressed, DeleteAccountAddressed
  DEF AccountsNext

\* The number and the name of every open account file a payment under it, with
\* one business or with many, whatever was opened, closed or claimed before and
\* is being opened or deleted now (mint, readNumber, parseAccount, matchAccount).
THEOREM AddressReachesAlways == AccountsSpec => []AddressReaches
BY AddressedInit, AddressedStep, AddressedReaches, PTL DEF AccountsSpec

(***************************************************************************)
(* Timetables: the dates a schedule pays are those its timetable names.    *)
(***************************************************************************)

(***************************************************************************)
(* The calendar.                                                           *)
(***************************************************************************)

LastMonth == Len(MonthLengths)
MonthEnd(m) == MonthStart[m] + MonthLengths[m]

LEMMA MonthsAre ==
  /\ LastMonth \in Nat \ {0} /\ Months = 1..LastMonth /\ Cardinality(Months) = LastMonth
  /\ \A m \in Months : MonthLengths[m] \in Nat /\ MonthLengths[m] >= 3
<1>1. MonthLengths \in Seq(Nat)
  BY CalendarAssumption
<1>2. LastMonth \in Nat /\ Months = 1..LastMonth
  BY <1>1 DEF LastMonth, Months
<1>3. \A m \in Months : MonthLengths[m] \in Nat /\ MonthLengths[m] >= 3
  BY <1>1, CalendarAssumption DEF Months
<1>4. Months # {}
  BY CalendarGoesOn DEF Within
<1>5. LastMonth # 0
  BY <1>2, <1>4
<1>6. Cardinality(1..LastMonth) = LastMonth
  BY <1>2, <1>5, FS_Interval
<1> QED BY <1>2, <1>3, <1>5, <1>6

(* The month's first day is the sum of the months before.                  *)
LEMMA MonthStarts ==
  /\ \A m \in Months : MonthStart[m] \in Nat
  /\ MonthStart[1] = 0
  /\ \A m \in Months : m + 1 \in Months => MonthStart[m + 1] = MonthEnd(m)
<1> DEFINE days(m) == SumFunctionOnSet(MonthLengths, 1..m - 1)
           h == [m \in Months |-> days(m)]
<1>1. ASSUME NEW m \in Months
      PROVE  IsFiniteSet(1..m - 1) /\ \A k \in 1..m - 1 : MonthLengths[k] \in Nat
  <2>1. m \in Nat /\ m - 1 \in Int /\ \A k \in 1..m - 1 : k \in Months
    BY MonthsAre
  <2>2. IsFiniteSet(1..m - 1)
    BY <2>1, FS_Interval
  <2> QED BY <2>1, <2>2, MonthsAre
<1>2. \A m \in Months : days(m) \in Nat
  <2> SUFFICES ASSUME NEW m \in Months PROVE days(m) \in Nat
    OBVIOUS
  <2> QED BY <1>1, SumNat
<1>3. days(1) = 0
  <2>1. 1..1 - 1 = {}
    OBVIOUS
  <2> QED BY <2>1, SumEmpty
<1>4. ASSUME NEW m \in Months, m # 1 PROVE days(m) = days(m - 1) + MonthLengths[m - 1]
  <2>1. PICK k \in Months : k = m - 1
    BY <1>4, MonthsAre
  <2>2. PICK S : S = 1..m - 1
    OBVIOUS
  <2>3. IsFiniteSet(S) /\ (\A j \in S : MonthLengths[j] \in Int) /\ k \in S /\ S \ {k} = 1..k - 1
    BY <1>1, <2>1, <2>2, MonthsAre
  <2>4. SumFunctionOnSet(MonthLengths, S) = MonthLengths[k] + SumFunctionOnSet(MonthLengths, S \ {k})
    BY <2>3, SumTakes
  <2>5. days(m) = MonthLengths[k] + days(k)
    BY <2>2, <2>3, <2>4
  <2>6. days(k) \in Nat /\ MonthLengths[k] \in Nat
    BY <1>2, MonthsAre
  <2> HIDE DEF days
  <2> QED BY <2>1, <2>5, <2>6
<1> HIDE DEF days
<1>5. h = [m \in Months |-> IF m = 1 THEN 0 ELSE h[m - 1] + MonthLengths[m - 1]]
  <2>1. \A m \in Months : m # 1 => m - 1 \in Months
    BY MonthsAre
  <2> QED BY <1>3, <1>4, <2>1
<1>6. MonthStart = [m \in Months |-> IF m = 1 THEN 0 ELSE MonthStart[m - 1] + MonthLengths[m - 1]]
  <2> HIDE DEF h
  <2> QED BY <1>5 DEF MonthStart
<1>7. \A m \in Months : MonthStart[m] = IF m = 1 THEN 0 ELSE MonthStart[m - 1] + MonthLengths[m - 1]
  BY <1>6
<1>8. \A m \in Months : MonthStart[m] = days(m)
  <2> DEFINE Bad == {m \in Months : MonthStart[m] # days(m)}
  <2>1. SUFFICES ASSUME Bad # {} PROVE FALSE
    OBVIOUS
  <2>2. Bad \subseteq Nat
    BY MonthsAre
  <2>3. Min(Bad) \in Bad /\ \A p \in Bad : Min(Bad) <= p
    <3> HIDE DEF Bad
    <3> QED BY <2>1, <2>2, Least
  <2>4. PICK m \in Bad : \A p \in Bad : m <= p
    BY <2>3
  <2>5. m # 1 /\ m - 1 \in Months
    BY <1>3, <1>7, <2>4, MonthsAre
  <2>6. MonthStart[m - 1] = days(m - 1)
    BY <2>4, <2>5, MonthsAre
  <2> QED BY <1>4, <1>7, <2>4, <2>5, <2>6
<1>9. MonthStart[1] = 0 /\ 1 \in Months
  BY <1>7, MonthsAre
<1>10. \A m \in Months : m + 1 \in Months => MonthStart[m + 1] = MonthEnd(m)
  BY <1>7, MonthsAre DEF MonthEnd
<1> QED BY <1>2, <1>8, <1>9, <1>10

LEMMA MonthSpans ==
  ASSUME NEW m \in Months
  PROVE  MonthStart[m] \in Nat /\ MonthEnd(m) \in Nat /\ MonthStart[m] + 3 <= MonthEnd(m)
<1>1. MonthStart[m] \in Nat /\ MonthLengths[m] \in Nat /\ MonthLengths[m] >= 3
  BY MonthStarts, MonthsAre
<1> QED BY <1>1 DEF MonthEnd

(* Months follow on each other, and every day of the calendar is in one.   *)
LEMMA MonthsFollow ==
  ASSUME NEW m \in Months, NEW k \in Months, m < k
  PROVE  MonthEnd(m) <= MonthStart[k]
<1> DEFINE Bad == {j \in Months : m < j /\ ~(MonthEnd(m) <= MonthStart[j])}
<1>1. SUFFICES ASSUME Bad # {} PROVE FALSE
  OBVIOUS
<1>2. Bad \subseteq Nat
  BY MonthsAre
<1>3. PICK j \in Bad : \A p \in Bad : j <= p
  <2> HIDE DEF Bad
  <2> QED BY <1>1, <1>2, Least
<1>4. j - 1 \in Months /\ (j - 1) + 1 = j /\ j \in Months
  BY <1>3, MonthsAre
<1>5. MonthStart[j] = MonthEnd(j - 1)
  BY <1>4, MonthStarts
<1>6. CASE j - 1 = m
  BY <1>3, <1>5, <1>6, MonthStarts, MonthsAre DEF MonthEnd
<1>7. CASE j - 1 # m
  <2>1. m < j - 1 /\ j - 1 \notin Bad
    BY <1>3, <1>4, <1>7, MonthsAre
  <2>2. MonthEnd(m) <= MonthStart[j - 1]
    BY <1>4, <2>1
  <2>3. MonthStart[j - 1] <= MonthEnd(j - 1) /\ MonthStart[j - 1] \in Nat /\ MonthEnd(j - 1) \in Nat
        /\ MonthEnd(m) \in Nat
    BY <1>4, MonthSpans
  <2> QED BY <1>3, <1>4, <1>5, <2>2, <2>3
<1> QED BY <1>6, <1>7

LEMMA CalendarIs ==
  CalendarDays = MonthEnd(LastMonth) /\ LastMonth \in Months /\ CalendarDays \in Nat
BY MonthsAre, MonthStarts DEF CalendarDays, MonthEnd

LEMMA MonthOfDay ==
  ASSUME NEW d \in 0..CalendarDays - 1
  PROVE  /\ MonthOf(d) \in Months
         /\ MonthStart[MonthOf(d)] <= d /\ d < MonthEnd(MonthOf(d))
<1> DEFINE Unended == {m \in Months : d < MonthEnd(m)}
<1>1. LastMonth \in Unended
  BY CalendarIs
<1>2. Unended \subseteq Nat
  BY MonthsAre
<1>3. PICK m \in Unended : \A p \in Unended : m <= p
  <2> HIDE DEF Unended
  <2> QED BY <1>1, <1>2, Least
<1>4. MonthStart[m] <= d
  <2>1. CASE m = 1
    BY <2>1, MonthStarts
  <2>2. CASE m # 1
    <3>1. m - 1 \in Months /\ (m - 1) + 1 = m /\ m - 1 \notin Unended
      BY <1>3, <2>2, MonthsAre
    <3>2. MonthStart[m] = MonthEnd(m - 1)
      BY <3>1, <1>3, MonthStarts
    <3>3. ~(d < MonthEnd(m - 1))
      BY <3>1
    <3> QED BY <1>3, <3>1, <3>2, <3>3, MonthStarts, MonthsAre
  <2> QED BY <2>1, <2>2
<1> QED BY <1>3, <1>4 DEF MonthOf, MonthEnd

LEMMA MonthOfIs ==
  ASSUME NEW m \in Months, NEW d \in Nat, MonthStart[m] <= d, d < MonthEnd(m)
  PROVE  MonthOf(d) = m /\ d \in 0..CalendarDays - 1
<1>1. d < CalendarDays
  <2>1. CASE m = LastMonth
    BY <2>1, CalendarIs
  <2>2. CASE m # LastMonth
    <3>1. MonthEnd(m) <= MonthStart[LastMonth]
      BY <2>2, MonthsAre, MonthsFollow
    <3> QED BY <3>1, CalendarIs, MonthStarts, MonthsAre DEF MonthEnd
  <2> QED BY <2>1, <2>2
<1>2. d \in 0..CalendarDays - 1
  BY <1>1, CalendarIs
<1> DEFINE k == MonthOf(d)
<1>3. k \in Months /\ MonthStart[k] <= d /\ d < MonthEnd(k)
  BY <1>2, MonthOfDay
<1> HIDE DEF k
<1>4. ~(k < m) /\ ~(m < k)
  <2>1. MonthStart[k] \in Nat /\ MonthStart[m] \in Nat /\ MonthEnd(k) \in Nat /\ MonthEnd(m) \in Nat
    BY <1>3, MonthSpans
  <2> QED BY <1>3, <2>1, MonthsFollow
<1> QED BY <1>2, <1>3, <1>4, MonthsAre DEF k

(***************************************************************************)
(* The next date a timetable names.                                        *)
(***************************************************************************)

LEMMA MaxMonthIs ==  MaxMonth \in Nat
<1> DEFINE L == {MonthLengths[m] : m \in Months}
           B == {n \in Nat : \A l \in L : l <= n}
<1>1. L \subseteq Nat /\ L # {}
  <2>1. LastMonth \in Months
    BY CalendarIs
  <2> QED BY <2>1, MonthsAre
<1>2. \A m \in Months : MonthLengths[m] <= CalendarDays
  <2> SUFFICES ASSUME NEW m \in Months PROVE MonthLengths[m] <= CalendarDays
    OBVIOUS
  <2>1. MonthStart[m] \in Nat /\ MonthLengths[m] \in Nat /\ MonthStart[LastMonth] \in Nat
        /\ MonthLengths[LastMonth] \in Nat
    BY CalendarIs, MonthStarts, MonthsAre
  <2>2. CASE m = LastMonth
    BY <2>1, <2>2, CalendarIs DEF MonthEnd
  <2>3. CASE m # LastMonth
    <3>1. MonthEnd(m) <= MonthStart[LastMonth]
      BY <2>3, MonthsAre, MonthsFollow
    <3> QED BY <2>1, <3>1, CalendarIs DEF MonthEnd
  <2> QED BY <2>2, <2>3
<1>3. CalendarDays \in B
  BY <1>2, CalendarIs
<1>4. PICK b \in B : \A p \in B : b <= p
  <2> HIDE DEF L
  <2> QED BY <1>3, Least
<1>5. b \in L
  <2> SUFFICES ASSUME b \notin L PROVE FALSE
    OBVIOUS
  <2>1. b # 0 /\ b - 1 \in B
    <3> HIDE DEF L
    <3>1. \A l \in L : l \in Nat /\ l <= b /\ l # b
      BY <1>1, <1>4
    <3>2. PICK l \in L : TRUE
      BY <1>1
    <3> QED BY <1>4, <3>1, <3>2
  <2> QED BY <1>4, <2>1
<1>6. Max(L) \in L
  <2> HIDE DEF L
  <2>1. \A l \in L : b >= l
    BY <1>1, <1>4
  <2> QED BY <1>5, <2>1 DEF Max
<1> QED BY <1>1, <1>6 DEF MaxMonth

LEMMA TimetableIs ==
  ASSUME NEW t \in AllTimetables
  PROVE  /\ t.every \in {"daily", "weekly", "fortnightly", "monthly"}
         /\ t.weekendRule \in {"on_day", "before", "skip"}
         /\ t.weekday \in 0..6 /\ t.dayOfMonth \in Nat \ {0}
         /\ t.startOn \in Nat /\ Within(t.startOn) /\ t.endOn \in Nat \cup {NoDay}
         /\ t.every = "daily" => t.weekendRule # "before"
         /\ t.weekendRule = "skip" => t.every = "daily"
<1>1. t \in [every: {"daily", "weekly", "fortnightly", "monthly"}, weekday: 0..6,
             dayOfMonth: 1..MaxMonth, weekendRule: {"on_day", "before", "skip"},
             startOn: Starts, endOn: Ends \cup {NoDay}]
      /\ (t.every = "daily" => t.weekendRule # "before")
      /\ (t.weekendRule = "skip" => t.every = "daily")
  BY DEF AllTimetables
<1>2. /\ t.every \in {"daily", "weekly", "fortnightly", "monthly"} /\ t.weekday \in 0..6
      /\ t.dayOfMonth \in 1..MaxMonth /\ t.weekendRule \in {"on_day", "before", "skip"}
      /\ t.startOn \in Starts /\ t.endOn \in Ends \cup {NoDay}
  BY <1>1
<1>3. t.dayOfMonth \in Nat \ {0}
  BY <1>2, MaxMonthIs
<1>4. t.startOn \in Nat /\ t.endOn \in Nat \cup {NoDay} /\ Within(t.startOn)
  BY <1>2, CalendarAssumption, CalendarGoesOn
<1> QED BY <1>1, <1>2, <1>3, <1>4

\* What a timetable names, its start and its end aside.
Falls(t, d) ==
  /\ t.every = "daily" => (t.weekendRule = "skip" => ~IsWeekend(d))
  /\ t.every \in {"weekly", "fortnightly"} => WeekdayOf(d) = t.weekday
  /\ t.every = "fortnightly" =>
       Cardinality({e \in t.startOn..d : WeekdayOf(e) = t.weekday}) % 2 = 1
  /\ t.every = "monthly" => d = InMonth(t, MonthOf(d))

IsFirst(t, c, n) ==
  /\ n \in Nat /\ c <= n /\ n < CalendarDays /\ Falls(t, n)
  /\ \A e \in Nat : c <= e /\ e < n => ~Falls(t, e)

LEMMA WithinIs ==
  ASSUME NEW d \in Nat, Within(d)
  PROVE  d + 14 <= CalendarDays /\ d \in 0..CalendarDays - 1 /\ CalendarDays \in Nat
BY CalendarIs DEF Within

LEMMA DailyFirst ==
  ASSUME NEW t \in AllTimetables, t.every = "daily", NEW c \in Nat, Within(c)
  PROVE  IsFirst(t, c, Weekday(t, c))
<1>1. /\ Weekday(t, c) \in c..c + 2
      /\ t.weekendRule = "skip" => ~IsWeekend(Weekday(t, c))
      /\ \A e \in Nat : c <= e /\ e < Weekday(t, c) => t.weekendRule = "skip" /\ IsWeekend(e)
  BY CalendarAssumption DEF Weekday, IsWeekend, WeekdayOf
<1> QED BY <1>1, WithinIs DEF IsFirst, Falls

LEMMA OnWeekdayIs ==
  ASSUME NEW t \in AllTimetables, NEW c \in Nat
  PROVE  /\ OnWeekday(t, c) \in c..c + 6 /\ WeekdayOf(OnWeekday(t, c)) = t.weekday
         /\ \A e \in Nat : c <= e /\ e < OnWeekday(t, c) => WeekdayOf(e) # t.weekday
<1>1. PICK w \in 0..6 : w = t.weekday
  BY TimetableIs
<1>2. PICK n \in Int : n = c + ((w - ((FirstWeekday + c) % 7)) % 7)
  BY CalendarAssumption
<1>3. n \in c..c + 6
  BY <1>2, CalendarAssumption
<1>4. (FirstWeekday + n) % 7 = w
  BY <1>2, <1>3, CalendarAssumption
<1>5. \A e \in Nat : c <= e /\ e < n => (FirstWeekday + e) % 7 # w
  BY <1>3, <1>4, CalendarAssumption
<1>6. n = OnWeekday(t, c)
  BY <1>1, <1>2 DEF OnWeekday, WeekdayOf
<1> QED BY <1>1, <1>3, <1>4, <1>5, <1>6 DEF WeekdayOf

LEMMA WeeklyFirst ==
  ASSUME NEW t \in AllTimetables, t.every = "weekly", NEW c \in Nat, Within(c)
  PROVE  IsFirst(t, c, OnWeekday(t, c))
<1>1. PICK n : n = OnWeekday(t, c)
  OBVIOUS
<1>2. n \in c..c + 6 /\ WeekdayOf(n) = t.weekday
      /\ \A e \in Nat : c <= e /\ e < n => WeekdayOf(e) # t.weekday
  BY <1>1, OnWeekdayIs
<1>3. n \in Nat /\ c <= n /\ n < CalendarDays
  BY <1>2, WithinIs
<1>4. \A e : Falls(t, e) <=> WeekdayOf(e) = t.weekday
  BY DEF Falls
<1> QED BY <1>1, <1>2, <1>3, <1>4 DEF IsFirst

(* The weekdays from the start to one of them are counted by sevens.       *)
LEMMA WeekdaysCounted ==
  ASSUME NEW t \in AllTimetables, NEW d \in Nat, t.startOn <= d, WeekdayOf(d) = t.weekday
  PROVE  \E k \in Nat :
           /\ d = OnWeekday(t, t.startOn) + 7 * k
           /\ Cardinality({e \in t.startOn..d : WeekdayOf(e) = t.weekday}) = k + 1
<1>1. PICK a \in Nat : a = OnWeekday(t, t.startOn)
  BY TimetableIs, OnWeekdayIs
<1>2. t.startOn \in Nat /\ t.weekday \in 0..6 /\ FirstWeekday \in 0..6
  BY TimetableIs, CalendarAssumption
<1>3. a \in t.startOn..t.startOn + 6 /\ WeekdayOf(a) = t.weekday
      /\ \A e \in Nat : t.startOn <= e /\ e < a => WeekdayOf(e) # t.weekday
  BY <1>1, <1>2, OnWeekdayIs
<1>4. ASSUME NEW e \in Nat, t.startOn <= e, WeekdayOf(e) = t.weekday
      PROVE  \E j \in Nat : e = a + 7 * j
  <2>1. a <= e
    BY <1>3, <1>4
  <2>2. (e - a) % 7 = 0
    <3>1. PICK w \in 0..6 : w = t.weekday
      BY <1>2
    <3>2. (FirstWeekday + a) % 7 = w /\ (FirstWeekday + e) % 7 = w
      BY <1>3, <1>4, <3>1 DEF WeekdayOf
    <3> QED BY <1>2, <2>1, <3>2
  <2> QED BY <2>1, <2>2
<1>5. PICK k \in Nat : d = a + 7 * k
  BY <1>4
<1> DEFINE S == {e \in t.startOn..d : WeekdayOf(e) = t.weekday}
           f == [j \in 1..k + 1 |-> a + 7 * (j - 1)]
<1>6. \A j \in 1..k + 1 : f[j] \in S
  <2> SUFFICES ASSUME NEW j \in 1..k + 1 PROVE f[j] \in S
    OBVIOUS
  <2>1. PICK w \in 0..6 : w = t.weekday
    BY <1>2
  <2>2. PICK s \in Nat : s = t.startOn
    BY <1>2
  <2>3. PICK e \in Nat : e = a + 7 * (j - 1)
    OBVIOUS
  <2>4. s <= e /\ e <= d
    BY <1>3, <1>5, <2>2, <2>3
  <2>5. (FirstWeekday + a) % 7 = w
    BY <1>3, <2>1 DEF WeekdayOf
  <2>6. (FirstWeekday + e) % 7 = w
    BY <1>2, <2>3, <2>5
  <2> QED BY <1>5, <2>1, <2>2, <2>3, <2>4, <2>6 DEF WeekdayOf
<1>7. \A e \in S : \E j \in 1..k + 1 : f[j] = e
  <2> SUFFICES ASSUME NEW e \in S PROVE \E j \in 1..k + 1 : f[j] = e
    OBVIOUS
  <2>1. e \in Nat /\ t.startOn <= e /\ e <= d /\ WeekdayOf(e) = t.weekday
    BY <1>2
  <2>2. PICK i \in Nat : e = a + 7 * i
    BY <1>4, <2>1
  <2>3. i + 1 \in 1..k + 1 /\ f[i + 1] = e
    BY <1>5, <2>1, <2>2
  <2> QED BY <2>3
<1>8. f \in Bijection(1..k + 1, S)
  <2>1. f \in [1..k + 1 -> S]
    BY <1>6
  <2>2. \A i, j \in 1..k + 1 : f[i] = f[j] => i = j
    OBVIOUS
  <2> HIDE DEF f, S
  <2> QED BY <1>7, <2>1, <2>2 DEF Bijection, Injection, Surjection, IsInjective
<1>9. Cardinality(S) = k + 1
  <2> HIDE DEF f, S
  <2>1. ExistsBijection(1..k + 1, S)
    BY <1>8 DEF ExistsBijection
  <2> QED BY <2>1, FS_CountingElements
<1> QED BY <1>1, <1>5, <1>9

LEMMA FortnightFirst ==
  ASSUME NEW t \in AllTimetables, t.every = "fortnightly", NEW c \in Nat, Within(c), t.startOn <= c
  PROVE  IsFirst(t, c, Fortnight(t, c))
<1>1. PICK a \in Nat : a = OnWeekday(t, t.startOn)
  BY TimetableIs, OnWeekdayIs
<1>2. t.startOn \in Nat /\ t.weekday \in 0..6 /\ t.startOn <= a /\ a <= t.startOn + 6
      /\ WeekdayOf(a) = t.weekday
  BY <1>1, TimetableIs, OnWeekdayIs
<1>3. ASSUME NEW e \in Nat, t.startOn <= e
      PROVE  Falls(t, e) <=> a <= e /\ (e - a) % 14 = 0
  <2>1. CASE WeekdayOf(e) # t.weekday
    <3>1. ~(a <= e /\ (e - a) % 14 = 0)
      <4>1. PICK w \in 0..6 : w = t.weekday
        BY <1>2
      <4>2. (FirstWeekday + a) % 7 = w /\ (FirstWeekday + e) % 7 # w
        BY <1>2, <2>1, <4>1 DEF WeekdayOf
      <4> SUFFICES ASSUME a <= e, (e - a) % 14 = 0 PROVE FALSE
        OBVIOUS
      <4>3. PICK j \in Nat : e - a = 14 * j
        OBVIOUS
      <4>4. PICK b \in Nat : b = FirstWeekday + a
        BY CalendarAssumption
      <4>5. b % 7 = w /\ (b + 14 * j) % 7 # w /\ FirstWeekday \in Int
        BY <4>2, <4>3, <4>4, CalendarAssumption
      <4> QED BY <4>5
    <3> QED BY <2>1, <3>1 DEF Falls
  <2>2. CASE WeekdayOf(e) = t.weekday
    <3>1. PICK k \in Nat : /\ e = a + 7 * k
                           /\ Cardinality({x \in t.startOn..e : WeekdayOf(x) = t.weekday}) = k + 1
      BY <1>1, <1>3, <2>2, WeekdaysCounted
    <3>2. (k + 1) % 2 = 1 <=> (e - a) % 14 = 0
      BY <3>1
    <3> QED BY <2>2, <3>1, <3>2 DEF Falls
  <2> QED BY <2>1, <2>2
<1>4. CASE c <= a
  <2>1. Fortnight(t, c) = a
    BY <1>1, <1>4 DEF Fortnight
  <2>2. a < CalendarDays
    BY <1>2, <1>4, WithinIs
  <2>3. Falls(t, a)
    BY <1>2, <1>3
  <2> QED BY <1>2, <1>3, <1>4, <2>1, <2>2, <2>3 DEF IsFirst
<1>5. CASE a < c
  <2>1. PICK n \in Nat : n = a + 14 * ((c - a + 13) \div 14)
    BY <1>5
  <2>2. Fortnight(t, c) = n
    BY <1>1, <1>5, <2>1 DEF Fortnight
  <2>3. c <= n /\ n <= c + 13 /\ (n - a) % 14 = 0
    BY <1>5, <2>1
  <2>4. \A e \in Nat : c <= e /\ e < n => (e - a) % 14 # 0
    BY <1>5, <2>3
  <2> QED BY <1>2, <1>3, <1>5, <2>2, <2>3, <2>4, WithinIs DEF IsFirst
<1> QED BY <1>4, <1>5

(* The day of a month is in the month.                                     *)
LEMMA InMonthIs ==
  ASSUME NEW t \in AllTimetables, NEW m \in Months
  PROVE  /\ InMonth(t, m) = MonthStart[m] - 1 +
              (IF t.dayOfMonth <= MonthLengths[m] THEN t.dayOfMonth ELSE MonthLengths[m])
         /\ InMonth(t, m) \in Nat /\ MonthStart[m] <= InMonth(t, m) /\ InMonth(t, m) < MonthEnd(m)
         /\ MonthOf(InMonth(t, m)) = m /\ InMonth(t, m) < CalendarDays
<1> DEFINE day == IF t.dayOfMonth <= MonthLengths[m] THEN t.dayOfMonth ELSE MonthLengths[m]
<1>1. t.dayOfMonth \in Nat \ {0} /\ MonthLengths[m] \in Nat \ {0} /\ MonthStart[m] \in Nat
  BY TimetableIs, MonthsAre, MonthStarts
<1>2. Min({t.dayOfMonth, MonthLengths[m]}) = day
  <2>1. Min({t.dayOfMonth, MonthLengths[m]}) \in {t.dayOfMonth, MonthLengths[m]}
        /\ \A p \in {t.dayOfMonth, MonthLengths[m]} : Min({t.dayOfMonth, MonthLengths[m]}) <= p
    BY <1>1, Least
  <2> QED BY <1>1, <2>1
<1>3. InMonth(t, m) = MonthStart[m] - 1 + day
  BY <1>1, <1>2 DEF InMonth
<1>4. InMonth(t, m) \in Nat /\ MonthStart[m] <= InMonth(t, m) /\ InMonth(t, m) < MonthEnd(m)
  BY <1>1, <1>3 DEF MonthEnd
<1>5. MonthOf(InMonth(t, m)) = m /\ InMonth(t, m) \in 0..CalendarDays - 1
  BY <1>4, MonthOfIs
<1> QED BY <1>3, <1>4, <1>5, CalendarIs

LEMMA MonthlyFirst ==
  ASSUME NEW t \in AllTimetables, t.every = "monthly", NEW c \in Nat, Within(c)
  PROVE  IsFirst(t, c, Monthly(t, c))
<1> DEFINE To == {m \in Months : InMonth(t, m) >= c}
           Step(g) == [m \in Months |-> IF InMonth(t, m) >= c THEN InMonth(t, m) ELSE g[m + 1]]
<1>1. /\ c \in 0..CalendarDays - 1 /\ MonthOf(c) \in Months
      /\ MonthStart[MonthOf(c)] <= c /\ c < MonthEnd(MonthOf(c))
  BY WithinIs, MonthOfDay
<1>2. PICK later \in Months : c <= MonthStart[later]
  BY DEF Within
<1>3. later \in To
  BY <1>2, InMonthIs, MonthStarts
<1>4. To \subseteq Nat
  BY MonthsAre
<1>5. PICK k \in To : \A p \in To : k <= p
  <2> HIDE DEF To
  <2> QED BY <1>3, <1>4, Least
<1>6. \A m \in Months : k <= m => InMonth(t, m) >= c
  <2> SUFFICES ASSUME NEW m \in Months, k < m PROVE InMonth(t, m) >= c
    BY <1>5, MonthsAre
  <2>1. MonthEnd(k) <= MonthStart[m]
    BY <1>5, MonthsFollow
  <2>2. InMonth(t, k) \in Nat /\ InMonth(t, m) \in Nat /\ InMonth(t, k) < MonthEnd(k)
        /\ MonthStart[m] <= InMonth(t, m) /\ InMonth(t, k) >= c
    BY <1>5, InMonthIs
  <2>3. MonthEnd(k) \in Nat /\ MonthStart[m] \in Nat
    BY <1>5, MonthSpans
  <2> QED BY <2>1, <2>2, <2>3
<1> DEFINE h == [m \in Months |-> IF InMonth(t, m) >= c THEN InMonth(t, m) ELSE InMonth(t, k)]
<1>7. h = Step(h)
  <2> SUFFICES ASSUME NEW m \in Months, ~(InMonth(t, m) >= c) PROVE h[m + 1] = InMonth(t, k)
    OBVIOUS
  <2>1. m < k /\ m + 1 \in Months
    BY <1>5, <1>6, MonthsAre
  <2>2. CASE m + 1 = k
    BY <1>5, <2>2
  <2>3. CASE m + 1 # k
    <3>1. m + 1 \notin To
      BY <1>5, <2>1, <2>3, MonthsAre
    <3> QED BY <2>1, <3>1
  <2> QED BY <2>2, <2>3
<1> DEFINE from == CHOOSE g : g = Step(g)
<1>8. from = Step(from)
  <2> HIDE DEF h, Step
  <2> QED BY <1>7
<1>9. Monthly(t, c) = from[MonthOf(c)]
  BY DEF Monthly
<1> HIDE DEF from
<1>10. \A m \in Months : from[m] = IF InMonth(t, m) >= c THEN InMonth(t, m) ELSE from[m + 1]
  BY <1>8
<1> DEFINE m0 == MonthOf(c)
<1>11. CASE InMonth(t, m0) >= c
  <2>1. Monthly(t, c) = InMonth(t, m0)
    BY <1>1, <1>9, <1>10, <1>11
  <2>2. Falls(t, InMonth(t, m0))
    BY <1>1, InMonthIs DEF Falls
  <2>3. \A e \in Nat : c <= e /\ e < InMonth(t, m0) => ~Falls(t, e)
    <3> SUFFICES ASSUME NEW e \in Nat, c <= e, e < InMonth(t, m0) PROVE ~Falls(t, e)
      OBVIOUS
    <3>1. MonthStart[m0] <= e /\ e < MonthEnd(m0)
      <4>1. InMonth(t, m0) \in Nat /\ InMonth(t, m0) < MonthEnd(m0) /\ MonthEnd(m0) \in Nat
            /\ MonthStart[m0] \in Nat
        BY <1>1, InMonthIs, MonthSpans
      <4> QED BY <1>1, <4>1
    <3>2. MonthOf(e) = m0
      BY <1>1, <3>1, MonthOfIs
    <3> QED BY <1>1, <3>2, InMonthIs DEF Falls
  <2> QED BY <1>1, <1>11, <2>1, <2>2, <2>3, InMonthIs DEF IsFirst
<1>12. CASE ~(InMonth(t, m0) >= c)
  <2>1. m0 < k /\ m0 + 1 \in Months
    BY <1>1, <1>5, <1>6, <1>12, MonthsAre
  <2>2. PICK n \in Months : n = m0 + 1
    BY <2>1
  <2>3. MonthStart[n] = MonthEnd(m0)
    BY <1>1, <2>2, MonthStarts
  <2>4. InMonth(t, n) >= c /\ InMonth(t, n) \in Nat
    <3>1. InMonth(t, n) \in Nat /\ MonthStart[n] <= InMonth(t, n) /\ MonthStart[n] \in Nat
      BY InMonthIs, MonthStarts
    <3> QED BY <1>1, <2>3, <3>1
  <2>5. Monthly(t, c) = InMonth(t, n)
    BY <1>1, <1>9, <1>10, <1>12, <2>2, <2>4
  <2>6. Falls(t, InMonth(t, n))
    BY InMonthIs DEF Falls
  <2>7. \A e \in Nat : c <= e /\ e < InMonth(t, n) => ~Falls(t, e)
    <3> SUFFICES ASSUME NEW e \in Nat, c <= e, e < InMonth(t, n) PROVE ~Falls(t, e)
      OBVIOUS
    <3>1. CASE e < MonthEnd(m0)
      <4>1. MonthOf(e) = m0
        BY <1>1, <3>1, MonthOfIs, MonthStarts
      <4> QED BY <1>1, <1>12, <4>1, InMonthIs DEF Falls
    <3>2. CASE ~(e < MonthEnd(m0))
      <4>1. MonthStart[n] <= e /\ e < MonthEnd(n)
        <5>1. InMonth(t, n) \in Nat /\ InMonth(t, n) < MonthEnd(n) /\ MonthEnd(n) \in Nat
              /\ MonthStart[n] \in Nat
          BY InMonthIs, MonthSpans
        <5> QED BY <2>3, <3>2, <5>1
      <4>2. MonthOf(e) = n
        BY <4>1, MonthOfIs
      <4> QED BY <4>2, InMonthIs DEF Falls
    <3> QED BY <3>1, <3>2
  <2> QED BY <2>4, <2>5, <2>6, <2>7, InMonthIs DEF IsFirst
<1> QED BY <1>11, <1>12

LEMMA WithinDown ==
  ASSUME NEW d \in Nat, Within(d), NEW c \in Nat, c <= d
  PROVE  Within(c)
<1>1. PICK m \in Months : d <= MonthStart[m]
  BY DEF Within
<1>2. c <= MonthStart[m]
  BY <1>1, MonthStarts
<1>3. c + 14 <= CalendarDays
  BY WithinIs
<1> QED BY <1>2, <1>3 DEF Within

LEMMA NamesAre ==
  ASSUME NEW t \in AllTimetables, NEW d \in 0..CalendarDays - 1
  PROVE  Names(t, d) <=> /\ t.startOn <= d /\ (t.endOn = NoDay \/ d <= t.endOn)
                         /\ Falls(t, d)
<1>1. PICK m \in Months : m = MonthOf(d)
  BY MonthOfDay
<1>2. MonthStart[m] <= d /\ d < MonthStart[m] + MonthLengths[m]
      /\ MonthStart[m] \in Nat /\ MonthLengths[m] \in Nat /\ d \in Nat /\ t.dayOfMonth \in Nat
  BY <1>1, MonthOfDay, MonthStarts, MonthsAre, CalendarIs, TimetableIs DEF MonthEnd
<1>3. InMonth(t, m) = MonthStart[m] - 1 +
        (IF t.dayOfMonth <= MonthLengths[m] THEN t.dayOfMonth ELSE MonthLengths[m])
  BY InMonthIs
<1> DEFINE day == d - MonthStart[m] + 1
<1>4. d = InMonth(t, m) <=>
        day = t.dayOfMonth \/ (day = MonthLengths[m] /\ day < t.dayOfMonth)
  <2>1. PICK s \in Nat, l \in Nat : s = MonthStart[m] /\ l = MonthLengths[m]
    BY <1>2
  <2>2. PICK w \in Nat : w = t.dayOfMonth
    BY <1>2
  <2> QED BY <1>2, <1>3, <2>1, <2>2
<1> QED BY <1>1, <1>4 DEF Names, Falls

LEMMA MaxOfTwo ==
  ASSUME NEW a \in Nat, NEW b \in Nat
  PROVE  Max({a, b}) = IF a <= b THEN b ELSE a
<1> DEFINE big == IF a <= b THEN b ELSE a
<1>1. big \in {a, b} /\ \A x \in {a, b} : big >= x
  OBVIOUS
<1>2. Max({a, b}) \in {a, b} /\ \A x \in {a, b} : Max({a, b}) >= x
  <2> HIDE DEF big
  <2> QED BY <1>1 DEF Max
<1> QED BY <1>2

\* The first date a timetable names from c on, or that there is none.
IsNext(t, c, n) ==
  /\ n # NoDay => n \in 0..CalendarDays - 1 /\ Names(t, n) /\ c <= n
  /\ \A e \in 0..CalendarDays - 1 : Names(t, e) /\ c <= e => n # NoDay /\ n <= e

LEMMA NextIs ==
  ASSUME NEW t \in AllTimetables, NEW c \in Nat, Within(c)
  PROVE  IsNext(t, c, NextOccurrence(t, c)) /\ NextOccurrence(t, c) \in -1..CalendarDays - 1
<1> DEFINE d == Max({c, t.startOn})
           found == CASE t.every = "daily" -> Weekday(t, d)
                      [] t.every = "weekly" -> OnWeekday(t, d)
                      [] t.every = "fortnightly" -> Fortnight(t, d)
                      [] t.every = "monthly" -> Monthly(t, d)
<1>1. d = (IF c <= t.startOn THEN t.startOn ELSE c)
  BY TimetableIs, MaxOfTwo
<1>2. d \in Nat /\ Within(d) /\ t.startOn <= d /\ c <= d /\ t.startOn \in Nat
  BY <1>1, TimetableIs
<1> HIDE DEF d
<1>3. IsFirst(t, d, found)
  <2>1. CASE t.every = "daily"
    BY <1>2, <2>1, DailyFirst
  <2>2. CASE t.every = "weekly"
    BY <1>2, <2>2, WeeklyFirst
  <2>3. CASE t.every = "fortnightly"
    BY <1>2, <2>3, FortnightFirst
  <2>4. CASE t.every = "monthly"
    BY <1>2, <2>4, MonthlyFirst
  <2> QED BY <2>1, <2>2, <2>3, <2>4, TimetableIs
<1>4. NextOccurrence(t, c) = IF t.endOn # NoDay /\ found > t.endOn THEN NoDay ELSE found
  BY DEF NextOccurrence, d
<1> HIDE DEF found
<1>5. PICK f \in Nat : f = found
  BY <1>3 DEF IsFirst
<1>6. /\ d <= f /\ f < CalendarDays /\ Falls(t, f)
      /\ \A e \in Nat : d <= e /\ e < f => ~Falls(t, e)
  BY <1>3, <1>5 DEF IsFirst
<1>7. f \in 0..CalendarDays - 1
  BY <1>6, CalendarIs
<1>8. ASSUME NEW e \in 0..CalendarDays - 1, Names(t, e), c <= e
      PROVE  f <= e /\ (t.endOn = NoDay \/ e <= t.endOn)
  <2>1. t.startOn <= e /\ Falls(t, e) /\ (t.endOn = NoDay \/ e <= t.endOn)
    BY <1>8, NamesAre
  <2>2. d <= e
    BY <1>1, <1>8, <2>1
  <2>3. e \in Nat
    BY CalendarIs
  <2> QED BY <1>6, <2>1, <2>2, <2>3
<1>9. CASE t.endOn # NoDay /\ f > t.endOn
  <2>1. NextOccurrence(t, c) = NoDay
    BY <1>4, <1>5, <1>9
  <2>2. \A e \in 0..CalendarDays - 1 : ~(Names(t, e) /\ c <= e)
    <3> SUFFICES ASSUME NEW e \in 0..CalendarDays - 1, Names(t, e), c <= e PROVE FALSE
      OBVIOUS
    <3>1. f <= e /\ e <= t.endOn
      BY <1>8, <1>9
    <3>2. t.endOn \in Nat /\ e \in Nat
      BY <1>9, TimetableIs, CalendarIs
    <3> QED BY <1>9, <3>1, <3>2
  <2> QED BY <2>1, <2>2, CalendarIs DEF IsNext, NoDay
<1>10. CASE ~(t.endOn # NoDay /\ f > t.endOn)
  <2>1. NextOccurrence(t, c) = f /\ f # NoDay
    BY <1>4, <1>5, <1>10 DEF NoDay
  <2>2. t.endOn = NoDay \/ f <= t.endOn
    BY <1>10, TimetableIs
  <2>3. Names(t, f) /\ c <= f
    BY <1>2, <1>6, <1>7, <2>2, NamesAre
  <2> QED BY <1>7, <1>8, <2>1, <2>3, CalendarIs DEF IsNext
<1> QED BY <1>9, <1>10

(***************************************************************************)
(* The day a date is paid.                                                 *)
(***************************************************************************)

LEMMA PayDateIs ==
  ASSUME NEW t \in AllTimetables, NEW d \in Nat
  PROVE  PayDateOf(t, d) \in d - 2..d /\ (t.weekendRule # "before" => PayDateOf(t, d) = d)
BY CalendarAssumption DEF PayDateOf, IsWeekend, WeekdayOf

LEMMA NoWeekend ==
  ASSUME NEW t \in AllTimetables, NEW d \in 0..CalendarDays - 1, Names(t, d),
         t.weekendRule # "on_day"
  PROVE  ~IsWeekend(PayDateOf(t, d))
<1>1. d \in Nat
  BY CalendarIs
<1>2. CASE t.weekendRule = "before"
  <2>1. PICK w \in 0..6 : w = (FirstWeekday + d) % 7
    BY <1>1, CalendarAssumption
  <2>2. CASE w >= 5
    <3>1. PayDateOf(t, d) = d - (w - 4)
      BY <1>2, <2>1, <2>2 DEF PayDateOf, IsWeekend, WeekdayOf
    <3>2. (FirstWeekday + (d - (w - 4))) % 7 = 4
      <4>1. PICK b \in Nat : b = FirstWeekday + d
        BY <1>1, CalendarAssumption
      <4>2. PICK q \in Nat : b = 7 * q + w
        BY <2>1, <4>1
      <4>3. FirstWeekday + (d - (w - 4)) = 7 * q + 4
        BY <1>1, <4>1, <4>2, CalendarAssumption
      <4> QED BY <4>3
    <3> QED BY <3>1, <3>2 DEF IsWeekend, WeekdayOf
  <2>3. CASE ~(w >= 5)
    BY <1>2, <2>1, <2>3 DEF PayDateOf, IsWeekend, WeekdayOf
  <2> QED BY <2>2, <2>3
<1>3. CASE t.weekendRule = "skip"
  <2>1. t.every = "daily" /\ PayDateOf(t, d) = d
    BY <1>3, TimetableIs DEF PayDateOf
  <2> QED BY <1>3, <2>1 DEF Names
<1> QED BY <1>2, <1>3, TimetableIs

LEMMA MonthsApart ==
  ASSUME NEW t \in AllTimetables, NEW m \in Months, NEW k \in Months, m < k
  PROVE  InMonth(t, m) + 3 <= InMonth(t, k)
<1>1. MonthEnd(m) <= MonthStart[k]
  BY MonthsFollow
<1>2. PICK w \in Nat : w = t.dayOfMonth /\ w # 0
  BY TimetableIs
<1>3. PICK a \in Nat : a = MonthStart[m]
  BY MonthSpans
<1>4. PICK b \in Nat : b = MonthStart[k]
  BY MonthSpans
<1>5. PICK x \in Nat : x = MonthLengths[m] /\ x >= 3
  BY MonthsAre
<1>6. PICK y \in Nat : y = MonthLengths[k] /\ y >= 3
  BY MonthsAre
<1>7. a + x <= b
  BY <1>1, <1>3, <1>4, <1>5 DEF MonthEnd
<1>8. InMonth(t, m) = a - 1 + (IF w <= x THEN w ELSE x)
  BY <1>2, <1>3, <1>5, InMonthIs
<1>9. InMonth(t, k) = b - 1 + (IF w <= y THEN w ELSE y)
  BY <1>2, <1>4, <1>6, InMonthIs
<1> QED BY <1>2, <1>5, <1>6, <1>7, <1>8, <1>9

LEMMA PayOrder ==
  ASSUME NEW t \in AllTimetables, NEW d \in 0..CalendarDays - 1, NEW e \in 0..CalendarDays - 1,
         Names(t, d), Names(t, e), d < e
  PROVE  PayDateOf(t, d) < PayDateOf(t, e)
<1>1. d \in Nat /\ e \in Nat
  BY CalendarIs
<1>2. PayDateOf(t, d) \in d - 2..d /\ PayDateOf(t, e) \in e - 2..e
  BY <1>1, PayDateIs
<1>3. CASE t.weekendRule # "before"
  <2>1. PayDateOf(t, d) = d /\ PayDateOf(t, e) = e
    BY <1>1, <1>3, PayDateIs
  <2> QED BY <2>1
<1>4. CASE t.every \in {"weekly", "fortnightly"}
  <2>1. WeekdayOf(d) = t.weekday /\ WeekdayOf(e) = t.weekday
    BY <1>4 DEF Names
  <2>2. PICK w \in 0..6 : w = t.weekday
    BY TimetableIs
  <2> QED BY <1>1, <2>1, <2>2 DEF PayDateOf, IsWeekend
<1>5. CASE t.every = "monthly"
  <2>1. d = InMonth(t, MonthOf(d)) /\ e = InMonth(t, MonthOf(e))
    BY <1>5, NamesAre DEF Falls
  <2>2. PICK m \in Months : m = MonthOf(d)
    BY MonthOfDay
  <2>3. PICK k \in Months : k = MonthOf(e)
    BY MonthOfDay
  <2>4. m < k
    <3>1. m # k
      BY <1>1, <2>1, <2>2, <2>3
    <3>2. ~(k < m)
      <4> SUFFICES ASSUME k < m PROVE FALSE
        OBVIOUS
      <4>1. InMonth(t, k) + 3 <= InMonth(t, m)
        BY MonthsApart
      <4> QED BY <1>1, <2>1, <2>2, <2>3, <4>1
    <3> QED BY <3>1, <3>2, MonthsAre
  <2>5. d + 3 <= e
    BY <2>1, <2>2, <2>3, <2>4, MonthsApart
  <2> QED BY <1>1, <1>2, <2>5
<1> QED BY <1>3, <1>4, <1>5, TimetableIs

(***************************************************************************)
(* The first date whose moment is still to come.                           *)
(***************************************************************************)

SettingUp == 0..2 * LastSetUp + 1

LEMMA DueSoon ==
  ASSUME NEW t \in AllTimetables, NEW d \in Nat, NEW now \in Nat, IsDue(t, d, now)
  PROVE  d <= Today(now) + 2
<1>1. PICK p \in d - 2..d : p = PayDateOf(t, d)
  BY PayDateIs
<1>2. 2 * p + 1 <= now
  BY <1>1 DEF IsDue, PayMoment
<1> QED BY <1>1, <1>2 DEF Today

LEMMA LaterIsNotPast ==
  ASSUME NEW t \in AllTimetables, NEW d \in Nat, NEW now \in Nat, ~IsDue(t, d, now)
  PROVE  Today(now) <= d
<1>1. PICK p \in d - 2..d : p = PayDateOf(t, d)
  BY PayDateIs
<1>2. ~(2 * p + 1 <= now)
  BY <1>1 DEF IsDue, PayMoment
<1> QED BY <1>1, <1>2 DEF Today

ToCome(t, now, d) == {e \in 0..CalendarDays - 1 : Names(t, e) /\ ~IsDue(t, e, now) /\ d < e}

\* The first of them after d, or that there is none.
FirstAfter(t, now, d) == IF ToCome(t, now, d) = {} THEN NoDay ELSE Min(ToCome(t, now, d))

LEMMA FirstAfterIs ==
  ASSUME NEW t \in AllTimetables, NEW now \in SettingUp, NEW d \in Nat
  PROVE  /\ FirstAfter(t, now, d) # NoDay => FirstAfter(t, now, d) \in ToCome(t, now, d)
         /\ \A e \in ToCome(t, now, d) : FirstAfter(t, now, d) # NoDay /\ FirstAfter(t, now, d) <= e
<1> DEFINE S == ToCome(t, now, d)
<1>1. S \subseteq Nat
  BY CalendarIs DEF ToCome
<1>2. CASE S = {}
  BY <1>2 DEF FirstAfter
<1>3. CASE S # {}
  <2>1. Min(S) \in S /\ \A p \in S : Min(S) <= p
    <3> HIDE DEF S
    <3> QED BY <1>1, <1>3, Least
  <2>2. FirstAfter(t, now, d) = Min(S)
    BY <1>3 DEF FirstAfter
  <2>3. Min(S) # NoDay
    BY <1>1, <2>1 DEF NoDay
  <2> QED BY <2>1, <2>2, <2>3
<1> QED BY <1>2, <1>3

LEMMA SettingUpIs ==
  ASSUME NEW now \in SettingUp
  PROVE  now \in Nat /\ Today(now) \in Nat /\ Today(now) <= LastSetUp
BY CalendarAssumption DEF SettingUp, Today

LEMMA FirstToComeIs ==
  ASSUME NEW t \in AllTimetables, NEW now \in SettingUp
  PROVE  LET f == FirstToCome(t, now)
         IN /\ f # NoDay => f \in 0..CalendarDays - 1 /\ Names(t, f) /\ ~IsDue(t, f, now)
            /\ \A e \in 0..CalendarDays - 1 :
                 Names(t, e) /\ ~IsDue(t, e, now) => f # NoDay /\ f <= e
<1> DEFINE Days == -1..CalendarDays
           Late(d) == d # NoDay /\ IsDue(t, d, now)
           Step(g) == [d \in Days |-> IF Late(d) THEN g[NextOccurrence(t, d + 1)] ELSE d]
           h == [d \in Days |-> IF Late(d) THEN FirstAfter(t, now, d) ELSE d]
<1>1. Within(LastSetUp + 3) /\ LastSetUp \in Nat /\ CalendarDays \in Nat
  BY CalendarGoesOn, CalendarAssumption, CalendarIs
<1>2. ASSUME NEW d \in Days, Late(d)
      PROVE  /\ d \in Nat /\ IsNext(t, d + 1, NextOccurrence(t, d + 1))
             /\ NextOccurrence(t, d + 1) \in -1..CalendarDays - 1
  <2>1. d \in Nat
    BY <1>1, <1>2 DEF NoDay
  <2>2. d + 1 <= LastSetUp + 3
    BY <1>1, <1>2, <2>1, DueSoon, SettingUpIs
  <2>3. Within(d + 1)
    BY <1>1, <2>1, <2>2, WithinDown
  <2> QED BY <2>1, <2>3, NextIs
<1>3. ASSUME NEW d \in Days, Late(d)
      PROVE  h[NextOccurrence(t, d + 1)] = FirstAfter(t, now, d)
  <2>1. PICK n \in -1..CalendarDays - 1 : n = NextOccurrence(t, d + 1) /\ IsNext(t, d + 1, n)
    BY <1>2, <1>3
  <2>2. d \in Nat /\ n \in Days
    BY <1>1, <1>2, <1>3
  <2>3. CASE n = NoDay
    <3>1. ToCome(t, now, d) = {}
      <4>1. ASSUME NEW e \in ToCome(t, now, d) PROVE FALSE
        <5>1. e \in 0..CalendarDays - 1 /\ Names(t, e) /\ d + 1 <= e
          BY <2>2, CalendarIs DEF ToCome
        <5> QED BY <2>1, <2>3, <5>1 DEF IsNext
      <4> QED BY <4>1
    <3>2. h[n] = NoDay
      BY <2>2, <2>3
    <3> QED BY <2>1, <3>1, <3>2 DEF FirstAfter
  <2>4. CASE n # NoDay
    <3>1. n \in 0..CalendarDays - 1 /\ Names(t, n) /\ d + 1 <= n /\ n \in Nat
      BY <1>1, <2>1, <2>4 DEF IsNext
    <3>2. CASE IsDue(t, n, now)
      <4>1. ToCome(t, now, n) = ToCome(t, now, d)
        <5>1. ASSUME NEW e \in ToCome(t, now, d) PROVE n < e
          <6>1. e \in 0..CalendarDays - 1 /\ Names(t, e) /\ d + 1 <= e /\ ~IsDue(t, e, now) /\ e \in Nat
            BY <1>1, <2>2 DEF ToCome
          <6>2. n <= e
            BY <2>1, <6>1 DEF IsNext
          <6>3. n # e
            BY <3>2, <6>1
          <6> QED BY <3>1, <6>1, <6>2, <6>3
        <5>2. \A e \in 0..CalendarDays - 1 : n < e => d < e
          BY <1>1, <2>2, <3>1
        <5> QED BY <5>1, <5>2 DEF ToCome
      <4>2. h[n] = FirstAfter(t, now, n)
        BY <2>2, <2>4, <3>2
      <4> QED BY <2>1, <4>1, <4>2 DEF FirstAfter
    <3>3. CASE ~IsDue(t, n, now)
      <4>1. n \in ToCome(t, now, d)
        BY <2>2, <3>1, <3>3 DEF ToCome
      <4>2. FirstAfter(t, now, d) \in ToCome(t, now, d) /\ FirstAfter(t, now, d) <= n
        BY <2>2, <4>1, FirstAfterIs
      <4>3. PICK f \in 0..CalendarDays - 1 : f = FirstAfter(t, now, d) /\ Names(t, f) /\ d < f
        BY <4>2 DEF ToCome
      <4>4. n <= f
        <5>1. f \in Nat /\ d + 1 <= f
          BY <1>1, <2>2, <4>3
        <5> QED BY <2>1, <4>3, <5>1 DEF IsNext
      <4>5. n = f
        BY <1>1, <3>1, <4>2, <4>3, <4>4
      <4>6. h[n] = n
        BY <2>2, <3>3
      <4> QED BY <2>1, <4>3, <4>5, <4>6
    <3> QED BY <3>2, <3>3
  <2> QED BY <2>3, <2>4
<1>4. h = Step(h)
  BY <1>3
<1> DEFINE first == CHOOSE g : g = Step(g)
<1>5. first = Step(first)
  <2> HIDE DEF h, Step
  <2> QED BY <1>4
<1>6. FirstToCome(t, now) = first[NextOccurrence(t, Today(now))]
  BY DEF FirstToCome
<1> HIDE DEF first, h
<1>7. \A d \in Days : first[d] = IF Late(d) THEN first[NextOccurrence(t, d + 1)] ELSE d
  BY <1>5
<1>8. \A d \in Days : h[d] = IF Late(d) THEN h[NextOccurrence(t, d + 1)] ELSE d
  BY <1>4
<1>9. \A d \in Days : first[d] = h[d]
  <2> DEFINE Bad == {k \in Nat : CalendarDays - k \in Days /\ first[CalendarDays - k] # h[CalendarDays - k]}
  <2>1. SUFFICES ASSUME NEW d \in Days, first[d] # h[d] PROVE FALSE
    OBVIOUS
  <2>2. CalendarDays - d \in Bad
    <3>1. CalendarDays - d \in Nat /\ CalendarDays - (CalendarDays - d) = d
      BY <1>1
    <3> QED BY <2>1, <3>1
  <2>3. PICK k \in Bad : \A p \in Bad : k <= p
    <3>1. Bad \subseteq Nat /\ Bad # {}
      BY <2>2
    <3> HIDE DEF Bad
    <3> QED BY <3>1, Least
  <2>4. PICK b \in Days : b = CalendarDays - k
    BY <2>3
  <2>5. first[b] # h[b] /\ k \in Nat
    BY <2>3, <2>4
  <2>6. Late(b)
    BY <1>7, <1>8, <2>5
  <2>7. PICK n \in -1..CalendarDays - 1 : n = NextOccurrence(t, b + 1) /\ IsNext(t, b + 1, n)
    BY <1>2, <2>6
  <2>8. n \in Days /\ first[n] # h[n]
    <3> HIDE DEF Late
    <3> QED BY <1>1, <1>7, <1>8, <2>5, <2>6, <2>7
  <2>9. n # NoDay
    <3>1. CASE n = NoDay
      <4>1. ~Late(n)
        BY <3>1
      <4> QED BY <1>7, <1>8, <2>8, <4>1
    <3> QED BY <3>1
  <2>10. b + 1 <= n
    BY <2>7, <2>9 DEF IsNext
  <2>11. CalendarDays - n \in Bad /\ CalendarDays - n < k
    <3>1. CalendarDays - n \in Nat /\ CalendarDays - (CalendarDays - n) = n
      BY <1>1, <2>7
    <3>2. CalendarDays - n < k
      BY <1>1, <2>4, <2>5, <2>7, <2>10
    <3> QED BY <2>8, <3>1, <3>2
  <2> QED BY <1>1, <2>3, <2>5, <2>7, <2>11
<1>10. now \in Nat /\ Today(now) \in Nat /\ Within(Today(now))
  BY <1>1, SettingUpIs, WithinDown
<1>11. PICK n \in -1..CalendarDays - 1 : n = NextOccurrence(t, Today(now)) /\ IsNext(t, Today(now), n)
  BY <1>10, NextIs
<1>12. n \in Days /\ FirstToCome(t, now) = h[n]
  BY <1>1, <1>6, <1>9, <1>11
<1>13. h[n] = IF Late(n) THEN FirstAfter(t, now, n) ELSE n
  BY <1>12 DEF h
<1>14. ASSUME NEW e \in 0..CalendarDays - 1, Names(t, e), ~IsDue(t, e, now)
       PROVE  n # NoDay /\ n <= e /\ e \in Nat
  <2>1. e \in Nat
    BY <1>1
  <2>2. Today(now) <= e
    BY <1>10, <1>14, <2>1, LaterIsNotPast
  <2> QED BY <1>11, <1>14, <2>1, <2>2 DEF IsNext
<1>15. CASE Late(n)
  <2>1. n \in Nat /\ FirstToCome(t, now) = FirstAfter(t, now, n)
    BY <1>1, <1>12, <1>13, <1>15 DEF NoDay
  <2>2. ASSUME NEW e \in 0..CalendarDays - 1, Names(t, e), ~IsDue(t, e, now)
        PROVE  e \in ToCome(t, now, n)
    <3>1. n <= e /\ n # e /\ e \in Nat
      BY <1>14, <1>15, <2>2
    <3> QED BY <2>1, <2>2, <3>1 DEF ToCome
  <2>3. FirstAfter(t, now, n) # NoDay => FirstAfter(t, now, n) \in ToCome(t, now, n)
    BY <2>1, FirstAfterIs
  <2>4. \A e \in ToCome(t, now, n) : FirstAfter(t, now, n) # NoDay /\ FirstAfter(t, now, n) <= e
    BY <2>1, FirstAfterIs
  <2> QED BY <2>1, <2>2, <2>3, <2>4 DEF ToCome
<1>16. CASE ~Late(n)
  <2>1. FirstToCome(t, now) = n
    BY <1>12, <1>13, <1>16
  <2>2. n # NoDay => n \in 0..CalendarDays - 1 /\ Names(t, n) /\ ~IsDue(t, n, now)
    BY <1>11, <1>16 DEF IsNext
  <2> QED BY <1>14, <2>1, <2>2
<1> QED BY <1>15, <1>16

(***************************************************************************)
(* A schedule pays the dates its timetable names.                          *)
(***************************************************************************)

Owed(t, c) == {d \in 0..CalendarDays - 1 : Names(t, d) /\ PayMoment(t, d) > c}

(* The schedule is one of those set up, its clock within the bounds, and   *)
(* what it has paid is what it owed before the next date.                  *)
Dated ==
  /\ timetable \in AllTimetables
  /\ created \in SettingUp /\ clock \in Nat /\ created <= clock
  /\ Today(clock) <= LastDay \/ Today(clock) <= LastSetUp
  /\ PaysItsDates

LEMMA PaysItsDatesIs ==
  PaysItsDates <=>
    LET owed == Owed(timetable, created)
    IN /\ paid = {d \in owed : next = NoDay \/ d < next}
       /\ next \in owed \cup {NoDay}
       /\ \A d \in paid :
            /\ PayMoment(timetable, d) <= clock
            /\ timetable.weekendRule # "on_day" => ~IsWeekend(PayDateOf(timetable, d))
            /\ \A e \in paid : PayDateOf(timetable, d) = PayDateOf(timetable, e) => d = e
BY DEF PaysItsDates, Owed

LEMMA DatedInit == TimetableInit => Dated
<1> SUFFICES ASSUME TimetableInit PROVE Dated
  OBVIOUS
<1>1. timetable \in AllTimetables /\ created \in SettingUp /\ clock = created /\ paid = {}
      /\ next = FirstToCome(timetable, created) /\ next # NoDay
  BY DEF TimetableInit, SettingUp
<1>2. created \in Nat /\ Today(created) \in Nat /\ Today(created) <= LastSetUp
  BY <1>1, SettingUpIs
<1>3. next \in 0..CalendarDays - 1 /\ Names(timetable, next) /\ ~IsDue(timetable, next, created)
  BY <1>1, FirstToComeIs
<1>4. \A e \in 0..CalendarDays - 1 :
        Names(timetable, e) /\ ~IsDue(timetable, e, created) => next <= e
  BY <1>1, FirstToComeIs
<1>5. ASSUME NEW d \in 0..CalendarDays - 1
      PROVE  PayMoment(timetable, d) > created <=> ~IsDue(timetable, d, created)
  <2>1. d \in Nat
    BY CalendarIs
  <2>2. PayDateOf(timetable, d) \in d - 2..d
    BY <1>1, <2>1, PayDateIs
  <2> QED BY <1>2, <2>1, <2>2 DEF IsDue, PayMoment
<1>6. next \in Owed(timetable, created)
  BY <1>3, <1>5 DEF Owed
<1>7. \A d \in Owed(timetable, created) : ~(d < next)
  <2> SUFFICES ASSUME NEW d \in Owed(timetable, created) PROVE ~(d < next)
    OBVIOUS
  <2>1. d \in 0..CalendarDays - 1 /\ next <= d
    BY <1>4, <1>5 DEF Owed
  <2> QED BY <1>3, <2>1, CalendarIs
<1>8. PaysItsDates
  BY <1>1, <1>6, <1>7, PaysItsDatesIs
<1> QED BY <1>1, <1>2, <1>8 DEF Dated

LEMMA DatedHour ==
  ASSUME Dated, HourPasses
  PROVE  Dated'
<1>1. clock < 2 * LastDay + 1 /\ clock' = clock + 1 /\ clock \in Nat /\ LastDay \in Nat
  BY CalendarAssumption DEF Dated, HourPasses
<1>2. UNCHANGED <<timetable, created, next, paid>>
  BY DEF HourPasses
<1>3. clock' \in Nat /\ Today(clock') <= LastDay /\ created <= clock'
  BY <1>1, CalendarAssumption DEF Dated, SettingUp, Today
<1>4. \A d \in paid : PayMoment(timetable, d) <= clock'
  <2> SUFFICES ASSUME NEW d \in paid PROVE PayMoment(timetable, d) <= clock'
    OBVIOUS
  <2>1. PayMoment(timetable, d) <= clock /\ d \in Nat
    BY PaysItsDatesIs, CalendarIs DEF Dated, Owed
  <2>2. PayDateOf(timetable, d) \in d - 2..d
    BY <2>1, PayDateIs DEF Dated
  <2> QED BY <1>1, <2>1, <2>2 DEF PayMoment
<1>5. PaysItsDates'
  BY <1>2, <1>4 DEF Dated, PaysItsDates
<1> QED BY <1>2, <1>3, <1>5 DEF Dated

LEMMA DatedPay ==
  ASSUME Dated, PayDue
  PROVE  Dated'
<1>1. timetable \in AllTimetables /\ created \in SettingUp /\ created \in Nat /\ clock \in Nat
  BY SettingUpIs DEF Dated
<1>2. UNCHANGED <<timetable, created, clock>> /\ next # NoDay /\ IsDue(timetable, next, clock)
      /\ paid' = paid \cup {next} /\ next' = NextOccurrence(timetable, next + 1)
  BY DEF PayDue
<1> DEFINE owed == Owed(timetable, created)
<1>3. /\ paid = {d \in owed : d < next} /\ next \in owed
      /\ \A d \in paid : PayMoment(timetable, d) <= clock
  BY <1>2, PaysItsDatesIs DEF Dated
<1>4. next \in 0..CalendarDays - 1 /\ next \in Nat /\ Names(timetable, next)
      /\ PayMoment(timetable, next) > created
  BY <1>3, CalendarIs DEF Owed
<1>5. PICK t : t = timetable
  OBVIOUS
<1>6. PICK d \in Nat : d = next
  BY <1>4
<1>7. PICK n : n = NextOccurrence(t, d + 1)
  OBVIOUS
<1>8. next' = n /\ t \in AllTimetables
  BY <1>1, <1>2, <1>5, <1>6, <1>7
<1>9. Within(d + 1)
  <2>1. d <= Today(clock) + 2
    BY <1>1, <1>2, <1>6, DueSoon
  <2>2. Today(clock) \in Nat
    BY <1>1 DEF Today
  <2>3. d + 1 <= LastDay + 3 \/ d + 1 <= LastSetUp + 3
    BY <2>1, <2>2, CalendarAssumption DEF Dated
  <2>4. Within(LastDay + 3) /\ Within(LastSetUp + 3) /\ LastDay \in Nat /\ LastSetUp \in Nat
    BY CalendarGoesOn, CalendarAssumption
  <2> QED BY <2>3, <2>4, WithinDown
<1>10. IsNext(t, d + 1, n) /\ n \in -1..CalendarDays - 1
  BY <1>7, <1>8, <1>9, NextIs
<1>11. ASSUME NEW e \in owed
       PROVE  e \in 0..CalendarDays - 1 /\ e \in Nat /\ Names(t, e)
  BY <1>5, CalendarIs DEF Owed
<1>12. n \in owed \cup {NoDay}
  <2> SUFFICES ASSUME n # NoDay PROVE n \in owed
    OBVIOUS
  <2>1. n \in 0..CalendarDays - 1 /\ Names(t, n) /\ d < n /\ n \in Nat
    BY <1>10, CalendarIs DEF IsNext
  <2>2. PayDateOf(t, d) < PayDateOf(t, n)
    BY <1>4, <1>5, <1>6, <1>8, <2>1, PayOrder
  <2>3. PayDateOf(t, d) \in d - 2..d /\ PayDateOf(t, n) \in n - 2..n
    BY <1>8, <2>1, PayDateIs
  <2>4. 2 * PayDateOf(t, d) + 1 > created
    BY <1>4, <1>5, <1>6 DEF PayMoment
  <2>5. 2 * PayDateOf(t, n) + 1 > created
    BY <1>1, <2>1, <2>2, <2>3, <2>4
  <2> QED BY <1>5, <2>1, <2>5 DEF Owed, PayMoment
<1>13. paid' = {e \in owed : n = NoDay \/ e < n}
  <2>1. ASSUME NEW e \in owed
        PROVE  (e < d \/ e = d) <=> (n = NoDay \/ e < n)
    <3>1. e \in 0..CalendarDays - 1 /\ e \in Nat /\ Names(t, e)
      BY <1>11
    <3>2. CASE d < e
      <4>1. n # NoDay /\ n <= e
        BY <1>10, <3>1, <3>2 DEF IsNext
      <4> QED BY <1>10, <3>1, <3>2, <4>1
    <3>3. CASE e <= d
      <4>1. n # NoDay => d < n
        BY <1>10 DEF IsNext
      <4> QED BY <1>10, <3>1, <3>3, <4>1
    <3> QED BY <3>1, <3>2, <3>3
  <2>2. paid' = {e \in owed : e < d} \cup {d} /\ d \in owed
    BY <1>2, <1>3, <1>6
  <2> HIDE DEF owed
  <2> QED BY <2>1, <2>2
<1>14. ASSUME NEW e \in paid'
       PROVE  /\ PayMoment(t, e) <= clock
              /\ t.weekendRule # "on_day" => ~IsWeekend(PayDateOf(t, e))
              /\ \A k \in paid' : PayDateOf(t, e) = PayDateOf(t, k) => e = k
  <2>1. \A k \in paid' : k \in 0..CalendarDays - 1 /\ k \in Nat /\ Names(t, k)
    BY <1>11, <1>13
  <2>2. PayMoment(t, e) <= clock
    <3>1. CASE e = next
      BY <1>2, <1>5, <3>1 DEF IsDue
    <3>2. CASE e # next
      BY <1>2, <1>3, <1>5, <1>14, <3>2
    <3> QED BY <3>1, <3>2
  <2>3. t.weekendRule # "on_day" => ~IsWeekend(PayDateOf(t, e))
    BY <1>8, <1>14, <2>1, NoWeekend
  <2>4. ASSUME NEW k \in paid', PayDateOf(t, e) = PayDateOf(t, k) PROVE e = k
    <3>1. e \in Nat /\ k \in Nat /\ PayDateOf(t, e) \in e - 2..e
      BY <1>8, <1>14, <2>1, PayDateIs
    <3>2. ~(e < k)
      BY <1>8, <1>14, <2>1, <2>4, <3>1, PayOrder
    <3>3. ~(k < e)
      BY <1>8, <1>14, <2>1, <2>4, <3>1, PayOrder
    <3> QED BY <3>1, <3>2, <3>3
  <2> QED BY <2>2, <2>3, <2>4
<1>15. PaysItsDates'
  <2>1. timetable' = t /\ created' = created /\ clock' = clock /\ next' = n
    BY <1>2, <1>5, <1>8
  <2>2. owed = {e \in 0..CalendarDays - 1 : Names(t, e) /\ PayMoment(t, e) > created}
    BY <1>5 DEF Owed
  <2> QED BY <1>12, <1>13, <1>14, <2>1, <2>2 DEF PaysItsDates
<1> QED BY <1>2, <1>15 DEF Dated

(* From the moment a schedule is set up, nextOccurrence and firstToCome    *)
(* have it paid on every date its timetable names and on no other, each    *)
(* date once, and with weekends moved earlier or skipped none of them on   *)
(* a weekend and no two on one day: for every timetable, whatever the      *)
(* lengths of the months, the weekday the calendar starts on and how late  *)
(* the passes are.                                                         *)
THEOREM PaysItsDatesAlways == TimetableSpec => []PaysItsDates
<1>1. Dated /\ [TimetableNext]_timetableVars => Dated'
  <2>1. ASSUME Dated, UNCHANGED timetableVars PROVE Dated'
    BY <2>1 DEF Dated, PaysItsDates, timetableVars
  <2> QED BY <2>1, DatedHour, DatedPay DEF TimetableNext
<1>2. Dated => PaysItsDates
  BY DEF Dated
<1> QED BY <1>1, <1>2, DatedInit, PTL DEF TimetableSpec
=============================================================================
