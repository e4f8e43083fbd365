---------------------------- MODULE SweepThrough ----------------------------
(***************************************************************************)
(* Sweep-through (server/src/sweep/service.ts): what arrives for a         *)
(* business leaves for its own phone, once per window.  A pass settles the *)
(* sweeps that were waiting, works out what every business is owed, and    *)
(* then sends, one business after the other, what the float covers.        *)
(*                                                                         *)
(* Nothing stores a balance: what is owed is read from the rows, in three  *)
(* queries that other passes may come between.  The payout of a sweep is   *)
(* the abstract payment of module Payment, which MoneyOut implements.      *)
(*                                                                         *)
(* A window is a number: the label windowFor gives the clock.  All         *)
(* businesses here are due in every window.                                *)
(***************************************************************************)
EXTENDS Integers, Sequences, FiniteSets, FiniteSetsExt, Functions

CONSTANTS
  Businesses,
  Nobody,       \* a payment no account number has named a business for
  Amounts,      \* what the payments are worth, in the order they arrive
  Windows,      \* the labels of the windows: a set of numbers
  Passes,       \* the passes of one or more schedulers
  Floats,       \* what the float may read as, besides Unknown
  Unknown,      \* a float nobody has read, or read too long ago
  Fee,          \* the flat fee kept from a sweep
  MinSend,      \* DEFAULT_MIN_CENTS
  Charge,       \* Safaricom's charge for a payout
  Banded,       \* the net amounts a charge band prices
  MaxCrashes,   \* bound: crashes of the server
  Around        \* what may happen around a pass, see below

(* midSend:  a crash may fall between the payout's row and the statement   *)
(*           that notes it on the sweep                                    *)
(* lateThrow: a send may throw after it wrote the payout's row             *)
(* slowSend: a send may take more than PREPARED_TIMEOUT                    *)
(* slowPass: the window may move on while a pass is running                *)
(* reassign: a payment may be moved to another business at any time        *)
ASSUME SweepAssumption ==
  /\ Nobody \notin Businesses
  /\ Windows \subseteq Nat /\ Floats \subseteq Nat /\ Unknown \notin Nat
  /\ Fee \in Nat /\ MinSend \in Nat \ {0} /\ Charge \in Nat /\ MaxCrashes \in Nat
  /\ Banded \subseteq Nat
  /\ Amounts \in Seq(Nat \ {0})
  /\ Around \subseteq {"midSend", "lateThrow", "slowSend", "slowPass", "reassign"}

Rows == 1..Len(Amounts)
Keys == Businesses \X Windows   \* (business_id, window_key)

VARIABLES
  owner,    \* the payments that arrived: the business of each
  arrived,  \* how many have
  stopped,  \* businesses whose sweeping is stopped
  sweeps,   \* the sweeps table, by (business_id, window_key)
  latest,   \* the window of each business's newest sweep
  passes,   \* the passes at work
  clock,    \* the window the clock is in
  stage,    \* the payouts, as money out shows them
  paidBy,   \* the payouts that moved money
  crashes   \* crashes so far

vars == <<owner, arrived, stopped, sweeps, latest, passes, clock, stage, paidBy, crashes>>

Payout == INSTANCE Payment WITH Requests <- Keys, Attempts <- {1}

States == {"prepared", "sending", "sent", "failed", "held"}
Codes == {"none", "float_unknown", "float_short", "no_charge_band", "refused"}

\* claims: its sweep_payments rows; noted: request_id is set; old: created
\* more than PREPARED_TIMEOUT ago.
Sweep == [state: States, gross: Nat, claims: SUBSET Rows, noted: BOOLEAN,
          old: BOOLEAN, code: Codes]
NoSweep == [state |-> "none"]
NoWindow == -1

\* Mutated form: a sweep that is gone no longer claims its payments.
ClaimingOpen == {"prepared", "sending"}

Claiming == {"prepared", "sending", "sent"}

Worth(S) == SumFunctionOnSet(Amounts, S)

(* feeFor and netOf of a rule with a flat fee.                             *)
FeeFor(gross) == IF gross <= 0 THEN 0 ELSE Min({Fee, gross})
NetOf(gross) == Max({0, gross - FeeFor(gross)})

(* What a pass keeps in memory: the businesses still to read, the figures  *)
(* of the one it is reading, the ones found due, the float it read, what   *)
(* is left of it, the sweeps it handed over, and the one it is sending.    *)
Due == [business: Businesses, owed: Nat, list: SUBSET Rows]
Reading == [business: Businesses \cup {Nobody}, rows: SUBSET Rows, gross: Nat,
            taken: SUBSET Rows, got: SUBSET {"rows", "gross", "taken"}]
Pass == [at: {"reading", "choosing", "claiming", "calling", "noting"},
         window: Windows, todo: SUBSET Businesses, read: Reading, due: SUBSET Due,
         float: Floats \cup {Unknown}, left: Int \cup {Unknown},
         handed: SUBSET Keys, now: Businesses \cup {Nobody}]
Idle == [at |-> "idle"]
Unread == [business |-> Nobody, rows |-> {}, gross |-> 0, taken |-> {}, got |-> {}]

Init ==
  /\ owner = [r \in Rows |-> Nobody]
  /\ arrived = 0
  /\ stopped = {}
  /\ sweeps = [k \in Keys |-> NoSweep]
  /\ latest = [b \in Businesses |-> NoWindow]
  /\ passes = [p \in Passes |-> Idle]
  /\ clock \in Windows
  /\ Payout!Init
  /\ crashes = 0

money == <<owner, arrived>>
payouts == <<stage, paidBy>>

(***************************************************************************)
(* A pass begins: reconcile, then the float.  What the float reads as is   *)
(* settled when it is first used, in ReadingEnds.                          *)
(***************************************************************************)

Failed(s) == [s EXCEPT !.state = "failed"]

\* Mutated form: a payout that waits for a second person counts as refused.
DeadOrWaiting == {"failed", "rejected", "waiting"}

Dead == {"failed", "rejected"}

\* Mutated form: only a sweep with a payout is ever given up.
InterruptedNoted(s) == s.state = "prepared" /\ s.noted /\ s.old

Interrupted(s) == s.state = "prepared" /\ ~s.noted /\ s.old

Reconciled(k) ==
  LET s == sweeps[k] IN
  CASE Interrupted(s) -> Failed(s)
    [] s.state = "sending" /\ stage[k] = "completed" -> [s EXCEPT !.state = "sent"]
    [] s.state = "sending" /\ stage[k] \in Dead -> Failed(s)
    [] OTHER -> s

Begin(p) ==
  /\ passes[p] = Idle
  /\ sweeps' = [k \in Keys |-> Reconciled(k)]
  /\ passes' = [passes EXCEPT ![p] =
       [at |-> "reading", window |-> clock, todo |-> Businesses \ stopped,
        read |-> Unread, due |-> {}, float |-> Unknown, left |-> Unknown,
        handed |-> {}, now |-> Nobody]]
  /\ UNCHANGED <<money, stopped, latest, clock, payouts, crashes>>

(***************************************************************************)
(* What is owed (owedOf): the payments and the claims are read at the same *)
(* time, the sum of the claims before their list.                          *)
(***************************************************************************)

ClaimedBy(b) == {k \in Keys : k[1] = b /\ sweeps[k].state \in Claiming}

(* The pass reads one business at a time.                                  *)
Reads(p, b, what) ==
  /\ passes[p].at = "reading"
  /\ IF passes[p].read.business = Nobody THEN b \in passes[p].todo
                                         ELSE b = passes[p].read.business
  /\ what \notin passes[p].read.got

Got(p, b, what, read) ==
  /\ Reads(p, b, what)
  /\ passes' = [passes EXCEPT ![p].read = [read EXCEPT !.business = b, !.got = @ \cup {what}]]
  /\ UNCHANGED <<money, stopped, sweeps, latest, clock, payouts, crashes>>

ReadPayments(p, b) ==
  Got(p, b, "rows", [passes[p].read EXCEPT !.rows = {r \in Rows : r <= arrived /\ owner[r] = b}])

ReadClaimedSum(p, b) ==
  Got(p, b, "gross",
      [passes[p].read EXCEPT !.gross = SumFunction([k \in ClaimedBy(b) |-> sweeps[k].gross])])

ReadClaimedList(p, b) ==
  /\ passes[p].at = "reading" => "gross" \in passes[p].read.got
  /\ Got(p, b, "taken",
         [passes[p].read EXCEPT !.taken = UNION {sweeps[k].claims : k \in ClaimedBy(b)}])

NothingOwed(owed) == owed <= 0

Found(read) == [business |-> read.business, owed |-> Worth(read.rows) - read.gross,
                list |-> read.rows \ read.taken]

\* A business nothing is owed to is left out.
Considered(x) ==
  [x EXCEPT !.todo = @ \ {x.read.business}, !.read = Unread,
            !.due = @ \cup {d \in {Found(x.read)} : ~NothingOwed(d.owed)}]

Consider(p) ==
  /\ passes[p].at = "reading" /\ passes[p].read.got = {"rows", "gross", "taken"}
  /\ passes' = [passes EXCEPT ![p] = Considered(@)]
  /\ UNCHANGED <<money, stopped, sweeps, latest, clock, payouts, crashes>>

ReadingEnds(p) ==
  /\ passes[p].at = "reading" /\ passes[p].todo = {}
  /\ \E f \in Floats \cup {Unknown} :
       passes' = [passes EXCEPT ![p] = [@ EXCEPT !.at = "choosing", !.float = f, !.left = f]]
  /\ UNCHANGED <<money, stopped, sweeps, latest, clock, payouts, crashes>>

(***************************************************************************)
(* Sending, oldest money first.                                            *)
(***************************************************************************)

Since(d) == IF d.list = {} THEN Len(Amounts) + 1 ELSE Min(d.list)

(* The business whose turn it is.                                          *)
Turn(p, d) ==
  /\ passes[p].at = "choosing" /\ d \in passes[p].due
  /\ \A e \in passes[p].due : Since(d) <= Since(e)

Priced(d) == NetOf(d.owed) \in Banded
TooSmall(d) == NetOf(d.owed) < MinSend + Charge

(* What keeps a sweep from being attempted, in the code's order.           *)
Obstacle(p, d) ==
  CASE ~Priced(d) -> "no_charge_band"
    [] passes[p].left = Unknown -> "float_unknown"
    [] NetOf(d.owed) + Charge > passes[p].left -> "float_short"
    [] OTHER -> "none"

NextBusiness(p, d, left) ==
  [passes EXCEPT ![p].at = "choosing", ![p].due = @ \ {d}, ![p].now = Nobody, ![p].left = left]

Skip(p, d) ==
  /\ Turn(p, d) /\ Priced(d) /\ TooSmall(d)
  /\ passes' = NextBusiness(p, d, passes[p].left)
  /\ UNCHANGED <<money, stopped, sweeps, latest, clock, payouts, crashes>>

Written(p, d, state, code) ==
  [state |-> state, gross |-> d.owed, claims |-> IF state = "held" THEN d.list ELSE {},
   noted |-> FALSE, old |-> FALSE, code |-> code]

(* INSERT INTO sweeps ... ON CONFLICT (business_id, window_key) DO NOTHING *)
Insert(k, new) ==
  /\ sweeps' = IF sweeps[k] = NoSweep THEN [sweeps EXCEPT ![k] = new] ELSE sweeps
  /\ latest' = IF sweeps[k] = NoSweep THEN [latest EXCEPT ![k[1]] = k[2]] ELSE latest

SaidAlready(b, code) ==
  /\ latest[b] # NoWindow
  /\ sweeps[<<b, latest[b]>>].state = "held" /\ sweeps[<<b, latest[b]>>].code = code

(* hold: a row that says why, unless the newest row says it already.       *)
Hold(p, d) ==
  /\ Turn(p, d) /\ (Priced(d) => ~TooSmall(d)) /\ Obstacle(p, d) # "none"
  /\ LET code == Obstacle(p, d) IN
     IF SaidAlready(d.business, code)
       THEN UNCHANGED <<sweeps, latest>>
       ELSE Insert(<<d.business, passes[p].window>>, Written(p, d, "held", code))
  /\ passes' = NextBusiness(p, d, passes[p].left)
  /\ UNCHANGED <<money, stopped, clock, payouts, crashes>>

\* Mutated form: Safaricom's charge is forgotten.
SpentNet(p, d) == passes[p].left - NetOf(d.owed)

Spent(p, d) == passes[p].left - (NetOf(d.owed) + Charge)

(* sweepOne.  The row alone owns the window: a pass that finds it taken    *)
(* stops, and counts its money as spent if it is claimed.                  *)
Prepare(p, d) ==
  LET k == <<d.business, passes[p].window>> IN
  /\ Turn(p, d) /\ ~TooSmall(d) /\ Obstacle(p, d) = "none"
  /\ Insert(k, Written(p, d, "prepared", "none"))
  /\ passes' = IF sweeps[k] = NoSweep
                 THEN [passes EXCEPT ![p].at = "claiming", ![p].now = d.business]
                 ELSE NextBusiness(p, d, IF sweeps[k].state \in Claiming
                                           THEN Spent(p, d) ELSE passes[p].left)
  /\ UNCHANGED <<money, stopped, clock, payouts, crashes>>

Works(p, d, at) == passes[p].at = at /\ d \in passes[p].due /\ d.business = passes[p].now

Claim(p, d) ==
  LET k == <<d.business, passes[p].window>> IN
  /\ Works(p, d, "claiming")
  /\ sweeps' = [sweeps EXCEPT ![k].claims = d.list]
  /\ passes' = [passes EXCEPT ![p].at = "calling"]
  /\ UNCHANGED <<money, stopped, latest, clock, payouts, crashes>>

\* moneyOut.send writes the payout's row, and hands it over or holds it.
Send(p, d) ==
  LET k == <<d.business, passes[p].window>> IN
  /\ Works(p, d, "calling")
  /\ Payout!Enter(k)
  /\ passes' = [passes EXCEPT ![p].at = "noting", ![p].handed = @ \cup {k}]
  /\ UNCHANGED <<money, stopped, sweeps, latest, clock, crashes>>

(* UPDATE sweeps SET ... WHERE id = k AND state = 'prepared'               *)
WherePrepared(k, new) ==
  sweeps' = IF sweeps[k].state = "prepared" THEN [sweeps EXCEPT ![k] = new] ELSE sweeps

\* Mutated form: what is neither paid nor with Safaricom has failed.
OutcomeSync(k) == CASE stage[k] = "completed" -> "sent"
                    [] stage[k] = "flight" -> "sending"
                    [] OTHER -> "failed"

Outcome(k) == CASE stage[k] = "completed" -> "sent"
                [] stage[k] = "failed" -> "failed"
                [] OTHER -> "sending"

Note(p, d) ==
  LET k == <<d.business, passes[p].window>> IN
  /\ Works(p, d, "noting")
  /\ WherePrepared(k, [sweeps[k] EXCEPT !.state = Outcome(k), !.noted = TRUE])
  /\ passes' = NextBusiness(p, d, IF Outcome(k) = "failed" THEN passes[p].left ELSE Spent(p, d))
  /\ UNCHANGED <<money, stopped, latest, clock, payouts, crashes>>

(* The send threw.  A refusal the owner can fix leaves the sweep held,     *)
(* anything else failed; either way the pass takes it that nothing left.   *)
Threw(p, d) ==
  LET k == <<d.business, passes[p].window>> IN
  /\ Works(p, d, "calling") \/ ("lateThrow" \in Around /\ Works(p, d, "noting"))
  /\ \E state \in {"held", "failed"} :
       WherePrepared(k, [sweeps[k] EXCEPT !.state = state, !.code = "refused"])
  /\ passes' = NextBusiness(p, d, passes[p].left)
  /\ UNCHANGED <<money, stopped, latest, clock, payouts, crashes>>

End(p) ==
  /\ passes[p].at = "choosing" /\ passes[p].due = {}
  /\ passes' = [passes EXCEPT ![p] = Idle]
  /\ UNCHANGED <<money, stopped, sweeps, latest, clock, payouts, crashes>>

(***************************************************************************)
(* Around the passes.                                                      *)
(***************************************************************************)

AllIdle == \A p \in Passes : passes[p] = Idle

Claims(r) == {k \in Keys : sweeps[k].state \in Claiming /\ r \in sweeps[k].claims}

\* A payment arrives, under an account number that may name no business.
Arrives(b) ==
  /\ arrived < Len(Amounts)
  /\ arrived' = arrived + 1
  /\ owner' = [owner EXCEPT ![arrived + 1] = b]
  /\ UNCHANGED <<stopped, sweeps, latest, passes, clock, payouts, crashes>>

(* businesses/service.ts assign: an owner labels a payment.                *)
Assign(r, b) ==
  /\ r <= arrived /\ owner[r] # b
  /\ "reassign" \notin Around => owner[r] = Nobody
  /\ owner' = [owner EXCEPT ![r] = b]
  /\ UNCHANGED <<arrived, stopped, sweeps, latest, passes, clock, payouts, crashes>>

SetStopped(b, value) ==
  /\ (b \in stopped) # value
  /\ stopped' = IF value THEN stopped \cup {b} ELSE stopped \ {b}
  /\ UNCHANGED <<money, sweeps, latest, passes, clock, payouts, crashes>>

\* The clock may slip back as well as move on.
ClockMoves(w) ==
  /\ w # clock
  /\ "slowPass" \notin Around => AllIdle
  /\ clock' = w
  /\ UNCHANGED <<money, stopped, sweeps, latest, passes, payouts, crashes>>

AtWorkOn(p, k) == /\ passes[p] # Idle
                  /\ passes[p].window = k[2] /\ passes[p].now = k[1]

FiveMinutesPass(k) ==
  /\ sweeps[k].state = "prepared" /\ ~sweeps[k].old
  /\ "slowSend" \notin Around => \A p \in Passes : ~AtWorkOn(p, k)
  /\ sweeps' = [sweeps EXCEPT ![k].old = TRUE]
  /\ UNCHANGED <<money, stopped, latest, passes, clock, payouts, crashes>>

Crash ==
  /\ crashes < MaxCrashes
  /\ "midSend" \notin Around => \A p \in Passes : passes[p].at # "noting"
  /\ crashes' = crashes + 1
  /\ passes' = [p \in Passes |-> Idle]
  /\ UNCHANGED <<money, stopped, sweeps, latest, clock, payouts>>

PayoutMoves(k) ==
  /\ Payout!Decide(k) \/ Payout!Pay(k, 1) \/ Payout!Settle(k)
  /\ UNCHANGED <<money, stopped, sweeps, latest, passes, clock, crashes>>

Read(p, b) == ReadPayments(p, b) \/ ReadClaimedSum(p, b) \/ ReadClaimedList(p, b)

Choose(p, d) == Skip(p, d) \/ Hold(p, d) \/ Prepare(p, d)

Step(p) ==
  \/ Begin(p) \/ Consider(p) \/ ReadingEnds(p) \/ End(p)
  \/ \E b \in Businesses : Read(p, b)
  \/ passes[p] # Idle /\ \E d \in passes[p].due :
       Choose(p, d) \/ Claim(p, d) \/ Send(p, d) \/ Note(p, d) \/ Threw(p, d)

Outside ==
  \/ \E b \in Businesses \cup {Nobody} : Arrives(b)
  \/ \E b \in Businesses, r \in Rows : Assign(r, b)
  \/ \E b \in Businesses, value \in BOOLEAN : SetStopped(b, value)
  \/ \E w \in Windows : ClockMoves(w)
  \/ \E k \in Keys : FiveMinutesPass(k) \/ PayoutMoves(k)
  \/ Crash

Next == (\E p \in Passes : Step(p)) \/ Outside

Spec == Init /\ [][Next]_vars

(* The job runs every minute and a pass that runs goes on; five minutes    *)
(* pass; and a payout that was asked for ends (MoneyOut, EveryPaymentEnds).*)
FairSpec ==
  /\ Spec
  /\ \A p \in Passes : WF_vars(Step(p))
  /\ \A k \in Keys : WF_vars(FiveMinutesPass(k)) /\ WF_vars(PayoutMoves(k))

(***************************************************************************)
(* Properties.                                                             *)
(***************************************************************************)

(* Sweeps and passes have the shape the table's checks and the code give   *)
(* them, and a sweep only notes a payout that exists (migration 043).      *)
TypeOK ==
  /\ owner \in [Rows -> Businesses \cup {Nobody}] /\ arrived \in 0..Len(Amounts)
  /\ stopped \subseteq Businesses /\ clock \in Windows /\ crashes \in 0..MaxCrashes
  /\ sweeps \in [Keys -> Sweep \cup {NoSweep}]
  /\ latest \in [Businesses -> Windows \cup {NoWindow}]
  /\ passes \in [Passes -> Pass \cup {Idle}]
  /\ Payout!TypeOK
  /\ \A k \in Keys : sweeps[k].state = "sending" => sweeps[k].noted /\ stage[k] # "none"

(* The payouts that moved money, or still may.                             *)
MayPay(k) == paidBy[k] # {} \/ stage[k] \in {"waiting", "flight"}

(* No payment leaves twice: it is never claimed by two sweeps whose        *)
(* payouts moved money or still may, whichever windows, passes and         *)
(* businesses they belong to.                                              *)
SweptOnce ==
  \A j, k \in Keys : j # k /\ MayPay(j) /\ MayPay(k) => sweeps[j].claims \cap sweeps[k].claims = {}

(* A business is never sent more than arrived for it.                      *)
NeverOverpaid ==
  \A b \in Businesses :
    SumFunction([k \in {j \in Keys : j[1] = b /\ MayPay(j)} |-> NetOf(sweeps[k].gross)])
      <= Worth({r \in Rows : r <= arrived /\ owner[r] = b})

(* A sweep the page calls failed or held has moved nothing and never will: *)
(* its money is still owed.                                                *)
UnsentMovedNothing ==
  \A k \in Keys : sweeps[k].state \in {"failed", "held"} => ~MayPay(k)

(* The sweeps of one pass together take no more than the float it read.    *)
WithinFloat ==
  \A p \in Passes : passes[p] # Idle /\ passes[p].handed # {} =>
    SumFunction([k \in passes[p].handed |->
                   IF MayPay(k) THEN NetOf(sweeps[k].gross) + Charge ELSE 0]) <= passes[p].float

(* Every sweep that was prepared ends sent, failed or held, crash or not.  *)
SweepsEnd ==
  \A k \in Keys : sweeps[k].state = "prepared" ~> sweeps[k].state \in {"sent", "failed", "held"}
=============================================================================
