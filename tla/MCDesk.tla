------------------------------- MODULE MCDesk -------------------------------
(***************************************************************************)
(* A batch of sends, the slot an operator's sends go through, the invoices,*)
(* the dates of a scheduled payment, the account numbers and names, and    *)
(* the requests to take a payment back.  They share no state, so a         *)
(* behaviour is of one of them, part, and leaves the others as they start. *)
(***************************************************************************)
EXTENDS BulkSend, OperatorGate, Invoices, Timetable, Accounts, Reversals, TLC

VARIABLE part

deskVars ==
  <<part, batchVars, gateVars, invoiceVars, timetableVars,
    accountsVars, reversalVars>>

InBatch(A) ==
  /\ part = "batch" /\ A
  /\ UNCHANGED <<part, gateVars, invoiceVars, timetableVars, accountsVars, reversalVars>>
InGate(A) ==
  /\ part = "gate" /\ A
  /\ UNCHANGED <<part, batchVars, invoiceVars, timetableVars, accountsVars, reversalVars>>
InInvoices(A) ==
  /\ part = "invoices" /\ A
  /\ UNCHANGED <<part, batchVars, gateVars, timetableVars, accountsVars, reversalVars>>
InTimetable(A) ==
  /\ part = "timetable" /\ A
  /\ UNCHANGED <<part, batchVars, gateVars, invoiceVars, accountsVars, reversalVars>>
InAccounts(A) ==
  /\ part = "accounts" /\ A
  /\ UNCHANGED <<part, batchVars, gateVars, invoiceVars, timetableVars, reversalVars>>
InReversals(A) ==
  /\ part = "reversals" /\ A
  /\ UNCHANGED <<part, batchVars, gateVars, invoiceVars, timetableVars, accountsVars>>

\* The timetable of the other parts: any one.
SomeTimetable ==
  /\ timetable = [every |-> "daily", weekday |-> 0, dayOfMonth |-> 1, weekendRule |-> "on_day",
                  startOn |-> Min(Starts), endOn |-> NoDay]
  /\ created = 0

DeskInit ==
  /\ part \in {"batch", "gate", "invoices", "timetable", "accounts", "reversals"}
  /\ BatchInit /\ GateInit /\ InvoicesInit /\ AccountsInit /\ ReversalsInit
  /\ TimetableInit /\ (part # "timetable" => SomeTimetable)

\* The organisation stays open, so NothingToDo is left to MCOffice.
DeskNext ==
  \/ \E p \in Presses :
       \/ InBatch(Create(p)) \/ InBatch(ReadAgain(p)) \/ InBatch(WriteAgain(p))
       \/ InBatch(Enqueue(p)) \/ InBatch(PressStops(p))
  \/ \E w \in Workers :
       \/ \E j \in 1..Len(jobs) : InBatch(Claim(w, j))
       \/ InBatch(Load(w)) \/ InBatch(SendAnswered(w))
       \/ InBatch(SendRefused(w)) \/ InBatch(Note(w)) \/ InBatch(End(w))
       \/ InBatch(Complete(w)) \/ InBatch(Throw(w)) \/ InBatch(Crash(w))
  \/ InBatch(ByHand) \/ InBatch(Minute)
  \/ \E k \in 1..Len(sends) : InBatch(Falls(k))
  \/ \E s \in Senders :
       \/ InGate(Pick(s)) \/ InGate(TakeSlot(s)) \/ InGate(GoWithoutSlot(s))
       \/ InGate(SafaricomAnswers(s)) \/ InGate(CountRefusal(s)) \/ InGate(ReleaseSlot(s))
       \/ InGate(SenderStops(s))
  \/ InGate(Expire) \/ InGate(Reinstate) \/ InGate(Moment)
  \/ \E t \in InvoiceTasks :
       \/ \E n \in Numbers : InInvoices(SendInvoices(t, n))
       \/ InInvoices(InsertInvoices(t)) \/ InInvoices(LoseInvoices(t))
       \/ InInvoices(CancelAtSafaricom(t)) \/ InInvoices(CancelInvoices(t))
       \/ InInvoices(ReadPush(t)) \/ InInvoices(ReadByHand(t)) \/ InInvoices(RefuseKnown(t))
       \/ InInvoices(RecordUnmatched(t)) \/ InInvoices(BeginPayment(t))
       \/ InInvoices(CommitPayment(t))
  \/ InTimetable(HourPasses) \/ InTimetable(PayDue)
  \/ \E a \in AccountIds :
       (\E t \in Words : InAccounts(ClaimName(a, t))) \/ InAccounts(ReleaseName(a))
  \/ \E t \in Words \cup Leads, kind \in {"alias", "prefix"}, b \in Businesses \cup {Nobody} :
       InAccounts(AddClaim(t, kind, b))
  \/ \E c \in claims : InAccounts(DropClaim(c))
  \/ InAccounts(YearPasses)
  \/ \E b \in Businesses, code \in Codes : InAccounts(AddBusiness(b, code))
  \/ \E k \in Clerks :
       \/ \E b \in Businesses : InAccounts(BeginDeleteBusiness(k, b))
       \/ InAccounts(DeleteBusiness(k))
       \/ \E b \in Businesses, p \in AccountIds \cup {Nobody} : InAccounts(BeginMint(k, b, p))
       \/ \E w \in FirstWidth..MaxDigits : \E n \in WidthNumbers(w) : InAccounts(Mint(k, n))
       \/ InAccounts(MintRefused(k))
       \/ \E a \in AccountIds : InAccounts(BeginDelete(k, a))
       \/ InAccounts(ReadChildren(k)) \/ InAccounts(DeleteAccount(k))
  \/ \E r \in Reversals :
       \/ \E hold \in BOOLEAN : InReversals(RequestReversal(r, hold))
       \/ InReversals(HoldReversal(r)) \/ InReversals(ReleaseReversal(r))
       \/ InReversals(TurnDownReversal(r)) \/ InReversals(CallReversal(r))
       \/ InReversals(RecordReversalAck(r)) \/ InReversals(RecordNotSent(r))
       \/ InReversals(RecordMaybeQueued(r)) \/ InReversals(NextOperatorTakes(r))
       \/ InReversals(NobodyElseTakes(r)) \/ InReversals(PollsRunOut(r))
       \/ \E t \in Tries :
            \/ InReversals(SafaricomDecides(<<r, t>>)) \/ InReversals(ReversalResult(r, t))
            \/ InReversals(ReversalRefused(r, t)) \/ InReversals(ReversalTimeout(r, t))
            \/ InReversals(StatusSays(r, t))
  \/ InReversals(Restart)

DeskSpec == DeskInit /\ [][DeskNext]_deskVars

\* A small calendar; what each receipt paid.
ShortMonths == <<10, 8, 9, 10, 10, 9>>
ReceiptCents == [r \in Receipts |-> IF r = "r1" THEN 1 ELSE 2]

\* Short codes and numbers; a word, and the prefix and the code that cover it.
TwoCodes == {<<0>>, <<1>>}
TwoBlocks == {<<0>>, <<1>>}
OneWord == {<<0, 10>>}
OneLead == {<<0>>}

\* Workers are alike, and so are sends, tasks, businesses, clerks and reversals.
\* What is never in one behaviour shares its values, so that the group stays small:
\* tasks and clerks are the workers, reversals the sends.
DeskSymmetry ==
  Permutations(Workers) \cup Permutations(Senders) \cup Permutations(Businesses)
=============================================================================
