------------------------- MODULE SweepThroughProofs -------------------------
(***************************************************************************)
(* Theorems about sweep-through, for any number of businesses, payments,   *)
(* windows, passes and crashes.  Each says what must not happen around a   *)
(* pass (Around) for it to hold.                                           *)
(***************************************************************************)
EXTENDS SweepThrough, Sums

(***************************************************************************)
(* Sums and fees.                                                          *)
(***************************************************************************)

\* A sum over a function's whole domain is the sum over that set.
LEMMA SumOverDomain ==
  ASSUME NEW f PROVE SumFunction(f) = SumFunctionOnSet(f, DOMAIN f)
BY DEF SumFunction, FoldFunction, SumFunctionOnSet

\* The larger and the smaller of two numbers.
LEMMA OfTwo ==
  ASSUME NEW m \in Int, NEW n \in Int
  PROVE  /\ Max({m, n}) = IF m >= n THEN m ELSE n
         /\ Min({m, n}) = IF m <= n THEN m ELSE n
<1>1. CASE m >= n
  <2>1. \A x \in {m, n} : (\A y \in {m, n} : x >= y) => x = m
    BY <1>1
  <2>2. \A x \in {m, n} : (\A y \in {m, n} : x <= y) => x = n
    BY <1>1
  <2>3. (\A y \in {m, n} : m >= y) /\ (\A y \in {m, n} : n <= y)
    BY <1>1
  <2> QED BY <1>1, <2>1, <2>2, <2>3 DEF Max, Min
<1>2. CASE ~(m >= n)
  <2>1. \A x \in {m, n} : (\A y \in {m, n} : x >= y) => x = n
    BY <1>2
  <2>2. \A x \in {m, n} : (\A y \in {m, n} : x <= y) => x = m
    BY <1>2
  <2>3. (\A y \in {m, n} : n >= y) /\ (\A y \in {m, n} : m <= y)
    BY <1>2
  <2> QED BY <1>2, <2>1, <2>2, <2>3 DEF Max, Min
<1> QED BY <1>1, <1>2

\* What leaves is never more than what is owed.
LEMMA NetIsPart ==
  ASSUME NEW gross \in Nat PROVE NetOf(gross) \in Nat /\ NetOf(gross) <= gross
<1>1. FeeFor(gross) \in Nat /\ FeeFor(gross) <= gross
  <2>1. Fee \in Nat
    BY SweepAssumption DEF SweepAssumption
  <2>2. Min({Fee, gross}) = IF Fee <= gross THEN Fee ELSE gross
    BY <2>1, OfTwo
  <2> QED BY <2>1, <2>2 DEF FeeFor
<1>2. gross - FeeFor(gross) \in Nat /\ gross - FeeFor(gross) <= gross
  BY <1>1
<1> QED BY <1>2, OfTwo DEF NetOf

\* The payments that arrived and what they are worth.
LEMMA WorthIs ==
  ASSUME NEW S \in SUBSET Rows
  PROVE  /\ IsFiniteSet(S) /\ Worth(S) \in Nat
         /\ \A T \in SUBSET S : Worth(T) <= Worth(S)
<1>1. Len(Amounts) \in Nat /\ \A r \in Rows : Amounts[r] \in Nat
  BY SweepAssumption DEF Rows, SweepAssumption
<1>2. IsFiniteSet(S)
  <2>1. IsFiniteSet(Rows)
    BY <1>1, FS_Interval DEF Rows
  <2> QED BY <2>1, FS_Subset
<1>3. \A r \in S : Amounts[r] \in Nat
  BY <1>1
<1>4. Worth(S) \in Nat
  BY <1>2, <1>3, SumNat DEF Worth
<1>5. ASSUME NEW T \in SUBSET S PROVE Worth(T) <= Worth(S)
  BY <1>2, <1>3, SumOfPart DEF Worth
<1> QED BY <1>2, <1>4, <1>5

(***************************************************************************)
(* The shape of the state: what a pass holds in memory fits the rows it    *)
(* wrote, and no two passes are at the same sweep.                         *)
(***************************************************************************)

KeyOf(x) == <<x.now, x.window>>
Working == {p \in Passes : passes[p] # Idle}
AtWork == {p \in Working : passes[p].now \in Businesses}
AtASweep == {"claiming", "calling", "noting"}

TableOK(sw, st) ==
  /\ sw \in [Keys -> Sweep \cup {NoSweep}]
  /\ \A k \in Keys : sw[k] = NoSweep => st[k] = "none"
  /\ \A k \in Keys : sw[k].state = "sending" => sw[k].noted /\ st[k] # "none"
  /\ IsFiniteSet({k \in Keys : sw[k] # NoSweep})

PayoutsOK(st, paid) ==
  /\ st \in [Keys -> Payout!Stages] /\ paid \in [Keys -> SUBSET {1}]
  /\ \A k \in Keys : paid[k] # {} => st[k] \in {"flight", "completed"}
  /\ \A k \in Keys : st[k] = "completed" => paid[k] # {}

\* Where a pass is in its work.
Orderly(x) ==
  /\ x \in Pass /\ x.left \in Nat \cup {Unknown}
  /\ x.at # "reading" => x.todo = {} /\ x.read.got = {}
  /\ x.at = "reading" => x.left = Unknown
  /\ x.read.business = Nobody => x.read.got = {}
  /\ x.read.business \in x.todo \cup {Nobody}
  /\ \A d, e \in x.due : d.business = e.business => d = e
  /\ \A d \in x.due : d.business \notin x.todo
  /\ x.left = Unknown => x.handed = {}
  /\ x.at \in AtASweep <=> x.now \in Businesses

\* What it is sending is what it found owed, and the float covers it.
Sending(x, sw, st) ==
  x.now \in Businesses =>
    /\ \E d \in x.due :
         /\ d.business = x.now
         /\ x.left # Unknown /\ NetOf(d.owed) + Charge <= x.left
         /\ sw[KeyOf(x)] # NoSweep /\ sw[KeyOf(x)].gross = d.owed
    /\ st[KeyOf(x)] = "none" <=> x.at # "noting"
    /\ x.at = "noting" => KeyOf(x) \in x.handed

HandedOver(x, st) == \A k \in x.handed : st[k] # "none"

PassOK(x, sw, st) == Orderly(x) /\ Sending(x, sw, st) /\ HandedOver(x, st)

Plain ==
  /\ owner \in [Rows -> Businesses \cup {Nobody}] /\ arrived \in 0..Len(Amounts)
  /\ stopped \subseteq Businesses /\ clock \in Windows /\ crashes \in 0..MaxCrashes
  /\ latest \in [Businesses -> Windows \cup {NoWindow}]

Alone == \A p, q \in AtWork : KeyOf(passes[p]) = KeyOf(passes[q]) => p = q

Shape ==
  /\ Plain /\ TableOK(sweeps, stage) /\ PayoutsOK(stage, paidBy)
  /\ passes \in [Passes -> Pass \cup {Idle}]
  /\ \A p \in Working : PassOK(passes[p], sweeps, stage)
  /\ Alone

\* The shape implies the type invariant of the model.
LEMMA ShapeTypes == Shape => TypeOK
BY DEF Shape, Plain, TableOK, PayoutsOK, TypeOK, Payout!TypeOK

\* The shape at the start: no rows, no passes.
LEMMA ShapeInit == Init => Shape
<1> SUFFICES ASSUME Init PROVE Shape
  OBVIOUS
<1>2. Plain
  BY SweepAssumption DEF Init, Plain, Rows, SweepAssumption
<1>3. TableOK(sweeps, stage)
  <2>1. {k \in Keys : sweeps[k] # NoSweep} = {}
    BY DEF Init
  <2> QED BY <2>1, FS_EmptySet DEF Init, TableOK, Payout!Init, NoSweep
<1>4. PayoutsOK(stage, paidBy)
  BY DEF Init, PayoutsOK, Payout!Init, Payout!Stages
<1>5. passes \in [Passes -> Pass \cup {Idle}] /\ Working = {}
  BY DEF Init, Working
<1> QED BY <1>2, <1>3, <1>4, <1>5 DEF Shape, Alone, AtWork

(***************************************************************************)
(* A step writes rows or moves payouts, and moves one pass at most.        *)
(***************************************************************************)

RowsStay(sw, new) ==
  \A k \in Keys : sw[k] # NoSweep => new[k] # NoSweep /\ new[k].gross = sw[k].gross

StagesStay(st, new) == \A k \in Keys : st[k] # "none" => new[k] # "none"

\* A pass that does not move stays in order while rows are kept.
LEMMA PassKeeps ==
  ASSUME NEW x, NEW sw, NEW st, NEW sw2, NEW st2,
         PassOK(x, sw, st), RowsStay(sw, sw2), StagesStay(st, st2),
         x.now \in Businesses /\ x.at # "noting" => st2[KeyOf(x)] = "none"
  PROVE  PassOK(x, sw2, st2)
<1>1. x.window \in Windows /\ x.handed \subseteq Keys
  BY DEF PassOK, Orderly, Pass
<1>2. Sending(x, sw2, st2)
  <2>1. SUFFICES ASSUME x.now \in Businesses PROVE Sending(x, sw2, st2)
    BY DEF Sending
  <2>2. KeyOf(x) \in Keys
    BY <1>1, <2>1 DEF KeyOf, Keys
  <2>3. sw[KeyOf(x)] # NoSweep
    BY <2>1 DEF PassOK, Sending
  <2>4. sw2[KeyOf(x)] # NoSweep /\ sw2[KeyOf(x)].gross = sw[KeyOf(x)].gross
    BY <2>2, <2>3 DEF RowsStay
  <2>5. st2[KeyOf(x)] = "none" <=> x.at # "noting"
    BY <2>1, <2>2 DEF PassOK, Sending, StagesStay
  <2> QED BY <2>1, <2>4, <2>5 DEF PassOK, Sending
<1>3. HandedOver(x, st2)
  BY <1>1 DEF PassOK, HandedOver, StagesStay
<1> QED BY <1>2, <1>3 DEF PassOK

\* The shape after a step that moves one pass.
LEMMA ShapeFromPass ==
  ASSUME Shape, NEW p \in Passes, NEW x \in Pass \cup {Idle},
         passes' = [passes EXCEPT ![p] = x],
         Plain', TableOK(sweeps', stage'), PayoutsOK(stage', paidBy'),
         RowsStay(sweeps, sweeps'), StagesStay(stage, stage'),
         x # Idle => PassOK(x, sweeps', stage'),
         x # Idle /\ x.now \in Businesses =>
           \/ p \in AtWork /\ KeyOf(x) = KeyOf(passes[p])
           \/ \A q \in AtWork : KeyOf(passes[q]) # KeyOf(x),
         \A q \in AtWork : q # p /\ passes[q].at # "noting" => stage'[KeyOf(passes[q])] = "none"
  PROVE  Shape'
<1>1. passes' \in [Passes -> Pass \cup {Idle}]
  BY DEF Shape
<1>2. passes'[p] = x /\ \A q \in Passes : q # p => passes'[q] = passes[q]
  BY DEF Shape
<1>3. \A q \in Passes : q # p => (q \in Working' <=> q \in Working) /\ (q \in AtWork' <=> q \in AtWork)
  BY <1>2 DEF Working, AtWork
<1>4. ASSUME NEW q \in Working' PROVE PassOK(passes'[q], sweeps', stage')
  <2>1. CASE q = p
    BY <1>2, <1>4, <2>1 DEF Working
  <2>2. CASE q # p
    <3>1. q \in Working /\ passes'[q] = passes[q] /\ (passes[q].now \in Businesses => q \in AtWork)
      BY <1>2, <1>3, <1>4, <2>2 DEF Working, AtWork
    <3>2. PassOK(passes[q], sweeps, stage)
      BY <3>1 DEF Shape
    <3> QED BY <2>2, <3>1, <3>2, PassKeeps
  <2> QED BY <2>1, <2>2
<1>5. ASSUME NEW q \in AtWork', NEW v \in AtWork', KeyOf(passes'[q]) = KeyOf(passes'[v])
      PROVE  q = v
  <2>0. q \in Passes /\ v \in Passes
    BY DEF AtWork, Working
  <2>1. CASE q # p /\ v # p
    BY <1>2, <1>3, <1>5, <2>0, <2>1 DEF Shape, Alone
  <2>2. ASSUME NEW z \in AtWork', z # p, p \in AtWork', KeyOf(passes'[z]) = KeyOf(x) PROVE FALSE
    <3>1. z \in AtWork /\ z \in Passes /\ passes'[z] = passes[z]
      BY <1>2, <1>3, <2>2 DEF AtWork, Working
    <3>2. x # Idle /\ x.now \in Businesses
      BY <1>2, <2>2 DEF AtWork, Working
    <3>3. p \in AtWork /\ KeyOf(x) = KeyOf(passes[p])
      BY <2>2, <3>1, <3>2
    <3> QED BY <2>2, <3>1, <3>3 DEF Shape, Alone
  <2> QED BY <1>2, <1>5, <2>1, <2>2
<1> QED BY <1>1, <1>4, <1>5 DEF Shape, Alone

\* The shape after a step that moves none.
LEMMA ShapeFromRows ==
  ASSUME Shape, UNCHANGED passes,
         Plain', TableOK(sweeps', stage'), PayoutsOK(stage', paidBy'),
         RowsStay(sweeps, sweeps'), StagesStay(stage, stage'),
         \A q \in AtWork : passes[q].at # "noting" => stage'[KeyOf(passes[q])] = "none"
  PROVE  Shape'
<1>1. Working' = Working /\ AtWork' = AtWork
  BY DEF Working, AtWork
<1>2. ASSUME NEW q \in Working PROVE PassOK(passes[q], sweeps', stage')
  <2>1. PassOK(passes[q], sweeps, stage) /\ (passes[q].now \in Businesses => q \in AtWork)
    BY DEF Shape, AtWork
  <2> QED BY <2>1, PassKeeps
<1> QED BY <1>1, <1>2 DEF Shape, Alone

\* A row is written over, or written for the first time.
LEMMA WritesRow ==
  ASSUME Shape, NEW k \in Keys, NEW s \in Sweep,
         sweeps' = [sweeps EXCEPT ![k] = s], UNCHANGED <<stage, paidBy>>,
         sweeps[k] # NoSweep => s.gross = sweeps[k].gross,
         s.state = "sending" => s.noted /\ stage[k] # "none"
  PROVE  /\ TableOK(sweeps', stage') /\ PayoutsOK(stage', paidBy')
         /\ RowsStay(sweeps, sweeps') /\ StagesStay(stage, stage')
<1>1. s # NoSweep
  BY DEF Sweep, States, NoSweep
<1>2. TableOK(sweeps', stage')
  <2>1. IsFiniteSet({j \in Keys : sweeps'[j] # NoSweep})
    <3> DEFINE W == {j \in Keys : sweeps[j] # NoSweep}
    <3>1. {j \in Keys : sweeps'[j] # NoSweep} = W \cup {k}
      BY <1>1 DEF Shape, TableOK
    <3>2. IsFiniteSet(W)
      BY DEF Shape, TableOK
    <3> HIDE DEF W
    <3> QED BY <3>1, <3>2, FS_AddElement
  <2> QED BY <1>1, <2>1 DEF Shape, TableOK
<1>3. RowsStay(sweeps, sweeps')
  BY <1>1 DEF Shape, TableOK, RowsStay
<1> QED BY <1>2, <1>3 DEF Shape, StagesStay

\* The table and the payouts, when a step leaves them alone.
LEMMA RowsUntouched ==
  ASSUME Shape, UNCHANGED <<sweeps, stage, paidBy>>
  PROVE  /\ TableOK(sweeps', stage') /\ PayoutsOK(stage', paidBy')
         /\ RowsStay(sweeps, sweeps') /\ StagesStay(stage, stage')
BY DEF Shape, RowsStay, StagesStay

\* What the shape says of a pass that is running.
LEMMA PassIs ==
  ASSUME Shape, NEW p \in Passes, passes[p] # Idle
  PROVE  /\ passes[p] \in Pass /\ PassOK(passes[p], sweeps, stage) /\ p \in Working
         /\ passes[p].now \in Businesses => p \in AtWork
BY DEF Shape, Working, AtWork

\* A pass at a sweep has its row, and no payout before it notes one.
LEMMA AtWorkIs ==
  ASSUME Shape, NEW q \in AtWork
  PROVE  /\ KeyOf(passes[q]) \in Keys /\ sweeps[KeyOf(passes[q])] # NoSweep
         /\ passes[q].at # "noting" => stage[KeyOf(passes[q])] = "none"
<1>1. passes[q] \in Pass /\ PassOK(passes[q], sweeps, stage) /\ passes[q].now \in Businesses
  BY DEF AtWork, Shape, Working
<1>2. KeyOf(passes[q]) \in Keys
  BY <1>1 DEF KeyOf, Keys, Pass
<1> QED BY <1>1, <1>2 DEF PassOK, Sending

\* A step of a pass that only thinks.
LEMMA PassThinks ==
  ASSUME Shape, NEW p \in Passes, NEW x \in Pass \cup {Idle},
         passes' = [passes EXCEPT ![p] = x],
         UNCHANGED <<money, stopped, sweeps, latest, clock, payouts, crashes>>,
         x # Idle => Orderly(x) /\ HandedOver(x, stage) /\ x.now \notin Businesses
  PROVE  Shape'
<1>1. UNCHANGED <<owner, arrived, stopped, sweeps, latest, clock, stage, paidBy, crashes>>
  BY DEF money, payouts
<1>2. Plain'
  BY <1>1 DEF Shape, Plain
<1>3. /\ TableOK(sweeps', stage') /\ PayoutsOK(stage', paidBy')
      /\ RowsStay(sweeps, sweeps') /\ StagesStay(stage, stage')
  BY <1>1, RowsUntouched
<1>4. x # Idle => PassOK(x, sweeps', stage')
  BY <1>1 DEF PassOK, Sending
<1>5. \A q \in AtWork : q # p /\ passes[q].at # "noting" => stage'[KeyOf(passes[q])] = "none"
  BY <1>1, AtWorkIs
<1> QED BY <1>2, <1>3, <1>4, <1>5, ShapeFromPass

\* What a pass is like when it is not at a sweep.
LEMMA NotAtASweep ==
  ASSUME Shape, NEW p \in Passes, passes[p].at \in {"reading", "choosing"}
  PROVE  /\ passes[p] # Idle /\ passes[p] \in Pass /\ passes[p].now \notin Businesses
         /\ Orderly(passes[p]) /\ HandedOver(passes[p], stage)
<1>1. passes[p] # Idle
  BY DEF Idle
<1>2. PassOK(passes[p], sweeps, stage) /\ passes[p] \in Pass
  BY <1>1, PassIs
<1> QED BY <1>1, <1>2 DEF PassOK, Orderly, AtASweep

\* Reading keeps the shape.
LEMMA ReadShape ==
  ASSUME Shape, NEW p \in Passes, NEW b \in Businesses, Read(p, b)
  PROVE  Shape'
<1> DEFINE x == passes[p]
           r == x.read
<1>0. IF r.business = Nobody THEN b \in x.todo ELSE b = r.business
  BY DEF Read, ReadPayments, ReadClaimedSum, ReadClaimedList, Got, Reads
<1>1. x.at = "reading"
  BY DEF Read, ReadPayments, ReadClaimedSum, ReadClaimedList, Got, Reads
<1>2. x # Idle /\ x \in Pass /\ x.now \notin Businesses /\ Orderly(x) /\ HandedOver(x, stage)
  BY <1>1, NotAtASweep
<1>3. PICK y \in Reading : /\ passes' = [passes EXCEPT ![p].read = y]
                           /\ y.business = b
                           /\ UNCHANGED <<money, stopped, sweeps, latest, clock, payouts, crashes>>
  <2>0. r \in Reading
    BY <1>2 DEF Pass
  <2>1. CASE ReadPayments(p, b)
    <3> DEFINE v == {q \in Rows : q <= arrived /\ owner[q] = b}
               y == [[r EXCEPT !.rows = v] EXCEPT !.business = b, !.got = @ \cup {"rows"}]
    <3>1. passes' = [passes EXCEPT ![p].read = y]
      BY <2>1 DEF ReadPayments, Got
    <3>2. y \in Reading
      BY <2>0 DEF Reading
    <3>3. y.business = b
      BY <2>0 DEF Reading
    <3> QED BY <2>1, <3>1, <3>2, <3>3 DEF ReadPayments, Got
  <2>2. CASE ReadClaimedSum(p, b)
    <3> DEFINE v == SumFunction([k \in ClaimedBy(b) |-> sweeps[k].gross])
               y == [[r EXCEPT !.gross = v] EXCEPT !.business = b, !.got = @ \cup {"gross"}]
    <3>1. passes' = [passes EXCEPT ![p].read = y]
      BY <2>2 DEF ReadClaimedSum, Got
    <3>0. v \in Nat
      <4>1. IsFiniteSet(ClaimedBy(b))
        <5>1. ClaimedBy(b) \subseteq {k \in Keys : sweeps[k] # NoSweep}
          BY DEF ClaimedBy, Claiming, NoSweep
        <5> QED BY <5>1, FS_Subset DEF Shape, TableOK
      <4>2. \A k \in ClaimedBy(b) : sweeps[k].gross \in Nat
        BY DEF ClaimedBy, Claiming, NoSweep, Shape, TableOK, Sweep
      <4> DEFINE g == [k \in ClaimedBy(b) |-> sweeps[k].gross]
      <4>3. \A k \in ClaimedBy(b) : g[k] \in Nat
        BY <4>2
      <4> HIDE DEF g
      <4>4. DOMAIN g = ClaimedBy(b)
        BY DEF g
      <4>5. SumFunction(g) \in Nat
        BY <4>1, <4>3, <4>4, SumNat, SumOverDomain
      <4> QED BY <4>5 DEF g
    <3> HIDE DEF v
    <3>2. y \in Reading
      BY <2>0, <3>0 DEF Reading
    <3>3. y.business = b
      BY <2>0 DEF Reading
    <3> QED BY <2>2, <3>1, <3>2, <3>3 DEF ReadClaimedSum, Got
  <2>3. CASE ReadClaimedList(p, b)
    <3> DEFINE v == UNION {sweeps[k].claims : k \in ClaimedBy(b)}
               y == [[r EXCEPT !.taken = v] EXCEPT !.business = b, !.got = @ \cup {"taken"}]
    <3>1. passes' = [passes EXCEPT ![p].read = y]
      BY <2>3 DEF ReadClaimedList, Got
    <3>0. v \subseteq Rows
      BY DEF ClaimedBy, Claiming, NoSweep, Shape, TableOK, Sweep
    <3> HIDE DEF v
    <3>2. y \in Reading
      BY <2>0, <3>0 DEF Reading
    <3>3. y.business = b
      BY <2>0 DEF Reading
    <3> QED BY <2>3, <3>1, <3>2, <3>3 DEF ReadClaimedList, Got
  <2> QED BY <2>1, <2>2, <2>3 DEF Read
<1> DEFINE z == [x EXCEPT !.read = y]
<1>4. z \in Pass /\ z.now = x.now
  BY <1>2 DEF Pass
<1>5. passes' = [passes EXCEPT ![p] = z]
  BY <1>3, <1>2 DEF Shape
<1>6. Orderly(z) /\ HandedOver(z, stage)
  <2>1. b \in x.todo /\ b # Nobody
    BY <1>0, <1>2, SweepAssumption DEF Orderly, SweepAssumption
  <2>2. /\ z.at = x.at /\ z.todo = x.todo /\ z.due = x.due /\ z.left = x.left /\ z.handed = x.handed
        /\ z.read = y /\ z.now = x.now
    BY <1>2 DEF Pass
  <2> HIDE DEF z
  <2> QED BY <1>1, <1>2, <1>3, <1>4, <2>1, <2>2 DEF Orderly, HandedOver
<1> HIDE DEF z
<1> QED BY <1>2, <1>3, <1>4, <1>5, <1>6, PassThinks

\* What a pass found owed, when it is anything.
LEMMA ConsideredIs ==
  ASSUME NEW x \in Pass, Orderly(x), x.at = "reading", x.read.got # {}
  PROVE  LET z == Considered(x)
             d == Found(x.read)
         IN /\ z \in Pass /\ Orderly(z) /\ z.now = x.now /\ z.handed = x.handed
            /\ z.window = x.window /\ z.read = Unread /\ z.float = x.float /\ z.left = x.left
            /\ z.at = "reading" /\ z.due \subseteq x.due \cup {d}
            /\ d \in z.due => (d \in x.due \/ (d.owed > 0 /\ d \in Due))
            /\ d.business = x.read.business /\ d.list = x.read.rows \ x.read.taken
            /\ d.owed = Worth(x.read.rows) - x.read.gross
<1> DEFINE z == Considered(x)
           d == Found(x.read)
           new == {e \in {d} : ~NothingOwed(e.owed)}
<1>1. /\ x.read \in Reading /\ x.read.business \in x.todo /\ x.todo \subseteq Businesses
      /\ x.due \subseteq Due
  BY DEF Orderly, Pass
<1>2. d.business = x.read.business /\ d.list = x.read.rows \ x.read.taken
      /\ d.owed = Worth(x.read.rows) - x.read.gross
  BY DEF Found
<1>3. d.owed \in Int /\ (d \in new => d \in Due /\ d.owed > 0)
  <2>1. x.read.rows \in SUBSET Rows /\ x.read.gross \in Nat
    BY <1>1 DEF Reading
  <2>2. Worth(x.read.rows) \in Nat
    BY <2>1, WorthIs
  <2>3. Worth(x.read.rows) - x.read.gross \in Int
    BY <2>1, <2>2
  <2>4. d \in new => Worth(x.read.rows) - x.read.gross > 0
    BY <1>2, <2>3 DEF NothingOwed
  <2>5. Worth(x.read.rows) - x.read.gross > 0 => d \in Due
    BY <1>1, <2>1, <2>3 DEF Due, Found
  <2> QED BY <1>2, <2>3, <2>4, <2>5
<1>4. new \subseteq {d}
  OBVIOUS
<1>5. Unread \in Reading /\ Unread.got = {} /\ Unread.business = Nobody
  BY DEF Unread, Reading
<1>6. z = [x EXCEPT !.todo = @ \ {x.read.business}, !.read = Unread, !.due = @ \cup new]
  BY DEF Considered
<1>7. x.due \cup new \in SUBSET Due
  BY <1>1, <1>3, <1>4
<1> HIDE DEF new, d, z
<1>8. /\ z.now = x.now /\ z.at = x.at /\ z.left = x.left /\ z.handed = x.handed
      /\ z.todo = x.todo \ {x.read.business} /\ z.read = Unread /\ z.due = x.due \cup new
      /\ z.window = x.window /\ z.float = x.float
  BY <1>6 DEF Pass
<1>9. z \in Pass
  <2>1. x.todo \ {x.read.business} \in SUBSET Businesses
    BY <1>1
  <2> HIDE DEF Due
  <2> QED BY <1>5, <1>6, <1>7, <2>1 DEF Pass
<1>10. Orderly(z)
  <2>1. \A e, g \in z.due : e.business = g.business => e = g
    BY <1>1, <1>2, <1>4, <1>8 DEF Orderly
  <2>2. \A e \in z.due : e.business \notin z.todo
    BY <1>1, <1>2, <1>4, <1>8 DEF Orderly
  <2> QED BY <1>5, <1>8, <1>9, <2>1, <2>2 DEF Orderly
<1> QED BY <1>2, <1>3, <1>4, <1>8, <1>9, <1>10 DEF z, d

\* So does working out what is owed.
LEMMA ConsiderShape ==
  ASSUME Shape, NEW p \in Passes, Consider(p)
  PROVE  Shape'
<1> DEFINE x == passes[p]
           z == Considered(x)
<1>1. x.at = "reading" /\ x.read.got # {}
  BY DEF Consider
<1>2. x # Idle /\ x \in Pass /\ x.now \notin Businesses /\ Orderly(x) /\ HandedOver(x, stage)
  BY <1>1, NotAtASweep
<1>3. passes' = [passes EXCEPT ![p] = z]
      /\ UNCHANGED <<money, stopped, sweeps, latest, clock, payouts, crashes>>
  BY DEF Consider
<1>4. z \in Pass /\ Orderly(z) /\ z.now = x.now /\ z.handed = x.handed
  BY <1>1, <1>2, ConsideredIs
<1> HIDE DEF z
<1> QED BY <1>2, <1>3, <1>4, PassThinks DEF HandedOver

\* So does the end of reading, when the float is first used.
LEMMA ReadingEndsShape ==
  ASSUME Shape, NEW p \in Passes, ReadingEnds(p)
  PROVE  Shape'
<1> DEFINE x == passes[p]
<1>1. x.at = "reading" /\ x.todo = {}
  BY DEF ReadingEnds
<1>2. x # Idle /\ x \in Pass /\ x.now \notin Businesses /\ Orderly(x) /\ HandedOver(x, stage)
  BY <1>1, NotAtASweep
<1>3. PICK f \in Floats \cup {Unknown} :
        passes' = [passes EXCEPT ![p] = [x EXCEPT !.at = "choosing", !.float = f, !.left = f]]
  BY DEF ReadingEnds
<1> DEFINE z == [x EXCEPT !.at = "choosing", !.float = f, !.left = f]
<1>4. f \in Nat \cup {Unknown}
  BY SweepAssumption DEF SweepAssumption
<1>9. f \in Floats \cup {Unknown} /\ f \in Int \cup {Unknown}
  BY <1>4
<1>5. /\ z \in Pass /\ z.now = x.now /\ z.at = "choosing" /\ z.left = f /\ z.handed = x.handed
      /\ z.todo = x.todo /\ z.read = x.read /\ z.due = x.due
  BY <1>2, <1>9 DEF Pass
<1>6. passes' = [passes EXCEPT ![p] = z]
      /\ UNCHANGED <<money, stopped, sweeps, latest, clock, payouts, crashes>>
  BY <1>3 DEF ReadingEnds
<1> HIDE DEF z
<1>7. x.read.business = Nobody /\ x.handed = {}
  BY <1>1, <1>2 DEF Orderly
<1>8. Orderly(z) /\ HandedOver(z, stage)
  BY <1>1, <1>2, <1>4, <1>5, <1>7 DEF Orderly, HandedOver, AtASweep
<1> QED BY <1>2, <1>5, <1>6, <1>8, PassThinks

\* A pass goes on to its next business.
Done(x, d, left) ==
  [x EXCEPT !.at = "choosing", !.due = @ \ {d}, !.now = Nobody, !.left = left]

\* Going on to the next business moves this pass only.
LEMMA NextBusinessIs ==
  ASSUME Shape, NEW p \in Passes, NEW d, NEW left
  PROVE  NextBusiness(p, d, left) = [passes EXCEPT ![p] = Done(passes[p], d, left)]
BY DEF NextBusiness, Done, Shape

\* The pass as it goes on.
LEMMA DoneIs ==
  ASSUME NEW x \in Pass, NEW d, NEW left \in Nat \cup {Unknown},
         Orderly(x), x.at # "reading", left = Unknown => x.handed = {}
  PROVE  /\ Done(x, d, left) \in Pass /\ Orderly(Done(x, d, left))
         /\ Done(x, d, left).now = Nobody /\ Done(x, d, left).at = "choosing"
         /\ Done(x, d, left).handed = x.handed /\ Done(x, d, left).left = left
         /\ Done(x, d, left).due = x.due \ {d} /\ Done(x, d, left).window = x.window
         /\ Done(x, d, left).float = x.float /\ Done(x, d, left).read = x.read
<1> DEFINE z == Done(x, d, left)
<1>1. /\ z \in Pass /\ z.now = Nobody /\ z.at = "choosing" /\ z.left = left
      /\ z.handed = x.handed /\ z.todo = x.todo /\ z.read = x.read /\ z.due = x.due \ {d}
      /\ z.window = x.window /\ z.float = x.float
  <2>1. x.due \ {d} \in SUBSET Due /\ left \in Int \cup {Unknown}
    BY DEF Pass
  <2> HIDE DEF Due
  <2> QED BY <2>1 DEF Pass, Done
<1> HIDE DEF z
<1>2. Orderly(z)
  BY <1>1, SweepAssumption DEF Orderly, AtASweep, SweepAssumption
<1> QED BY <1>1, <1>2 DEF z

\* Going on keeps the shape, whatever row was written before.
LEMMA PassGoesOn ==
  ASSUME Shape, NEW p \in Passes, passes[p] # Idle, passes[p].at # "reading",
         NEW d, NEW left \in Nat \cup {Unknown}, left = Unknown => passes[p].handed = {},
         passes' = NextBusiness(p, d, left),
         Plain', TableOK(sweeps', stage'), PayoutsOK(stage', paidBy'), RowsStay(sweeps, sweeps'),
         UNCHANGED stage
  PROVE  Shape'
<1> DEFINE x == passes[p]
           z == Done(x, d, left)
<1>1. x \in Pass /\ Orderly(x) /\ HandedOver(x, stage)
  BY PassIs DEF PassOK
<1>2. /\ z \in Pass /\ Orderly(z) /\ z.now = Nobody /\ z.handed = x.handed
  BY <1>1, DoneIs
<1>3. passes' = [passes EXCEPT ![p] = z]
  BY NextBusinessIs
<1> HIDE DEF z
<1>4. z.now \notin Businesses
  BY <1>2, SweepAssumption DEF SweepAssumption
<1>5. PassOK(z, sweeps', stage')
  BY <1>1, <1>2, <1>4 DEF PassOK, Sending, HandedOver
<1>6. StagesStay(stage, stage')
  BY DEF StagesStay
<1>7. \A q \in AtWork : q # p /\ passes[q].at # "noting" => stage'[KeyOf(passes[q])] = "none"
  BY AtWorkIs
<1> QED BY <1>2, <1>3, <1>4, <1>5, <1>6, <1>7, ShapeFromPass

\* Skipping a sweep too small keeps the shape.
LEMMA SkipShape ==
  ASSUME Shape, NEW p \in Passes, NEW d, Skip(p, d)
  PROVE  Shape'
<1>1. passes[p].at = "choosing" /\ passes[p] # Idle
  BY DEF Skip, Turn, Idle
<1>2. passes[p].left \in Nat \cup {Unknown} /\ (passes[p].left = Unknown => passes[p].handed = {})
  BY <1>1, PassIs DEF PassOK, Orderly
<1>3. UNCHANGED <<owner, arrived, stopped, sweeps, latest, clock, stage, paidBy, crashes>>
  BY DEF Skip, money, payouts
<1>4. Plain'
  BY <1>3 DEF Shape, Plain
<1> QED BY <1>1, <1>2, <1>3, <1>4, RowsUntouched, PassGoesOn DEF Skip

\* So does the end of a pass.
LEMMA EndShape ==
  ASSUME Shape, NEW p \in Passes, End(p)
  PROVE  Shape'
BY PassThinks DEF End

\* The new row of a sweep.
LEMMA WrittenIs ==
  ASSUME NEW p, NEW d \in Due, NEW state \in {"held", "prepared"}, NEW code \in Codes
  PROVE  /\ Written(p, d, state, code) \in Sweep /\ Written(p, d, state, code).gross = d.owed
         /\ Written(p, d, state, code).state = state
         /\ Written(p, d, state, code).claims = IF state = "held" THEN d.list ELSE {}
         /\ ~Written(p, d, state, code).noted /\ ~Written(p, d, state, code).old
BY DEF Written, Sweep, States, Due

\* What an insert leaves: the old row if there was one.
LEMMA InsertIs ==
  ASSUME Shape, NEW k \in Keys, NEW s \in Sweep, s.state # "sending", Insert(k, s),
         UNCHANGED <<owner, arrived, stopped, clock, stage, paidBy, crashes>>
  PROVE  /\ TableOK(sweeps', stage') /\ PayoutsOK(stage', paidBy')
         /\ RowsStay(sweeps, sweeps') /\ Plain' /\ sweeps'[k] # NoSweep
         /\ sweeps[k] = NoSweep => sweeps'[k] = s
<1>1. s # NoSweep
  BY DEF Sweep, States, NoSweep
<1>2. CASE sweeps[k] = NoSweep
  <2>1. sweeps' = [sweeps EXCEPT ![k] = s] /\ latest' = [latest EXCEPT ![k[1]] = k[2]]
    BY <1>2 DEF Insert
  <2>2. latest' \in [Businesses -> Windows \cup {NoWindow}]
    BY <2>1 DEF Keys, Shape, Plain
  <2>3. Plain'
    BY <2>2 DEF Shape, Plain
  <2>4. sweeps'[k] = s
    BY <2>1 DEF Shape, TableOK
  <2> QED BY <1>1, <1>2, <2>1, <2>3, <2>4, WritesRow
<1>3. CASE sweeps[k] # NoSweep
  <2>1. UNCHANGED <<sweeps, latest>>
    BY <1>3 DEF Insert
  <2>2. Plain'
    BY <2>1 DEF Shape, Plain
  <2> QED BY <1>3, <2>1, <2>2, RowsUntouched
<1> QED BY <1>2, <1>3

\* What reconciling a sweep may change: its state, and why.
LEMMA ReconciledIs ==
  ASSUME Shape, NEW k \in Keys
  PROVE  /\ sweeps[k] = NoSweep => Reconciled(k) = NoSweep
         /\ sweeps[k] # NoSweep =>
              /\ Reconciled(k) \in Sweep /\ Reconciled(k).gross = sweeps[k].gross
              /\ Reconciled(k).claims = sweeps[k].claims
              /\ Reconciled(k).noted = sweeps[k].noted
         /\ \/ Reconciled(k) = sweeps[k]
            \/ Reconciled(k).state = "failed" /\ Interrupted(sweeps[k])
            \/ /\ sweeps[k].state = "sending"
               /\ \/ Reconciled(k).state = "sent" /\ stage[k] = "completed"
                  \/ Reconciled(k).state = "failed" /\ stage[k] \in Dead
<1> DEFINE s == sweeps[k]
<1>1. s \in Sweep \cup {NoSweep}
  BY DEF Shape, TableOK
<1>2. CASE s = NoSweep
  BY <1>2 DEF Reconciled, NoSweep, Interrupted
<1>3. CASE s # NoSweep
  <2>1. s \in Sweep
    BY <1>1, <1>3
  <2> HIDE DEF s
  <2>2. /\ Failed(s) \in Sweep /\ Failed(s).gross = s.gross /\ Failed(s).claims = s.claims
        /\ Failed(s).state = "failed" /\ Failed(s).noted = s.noted
    BY <2>1 DEF Failed, Sweep, States
  <2>3. LET t == [s EXCEPT !.state = "sent"]
        IN  t \in Sweep /\ t.gross = s.gross /\ t.claims = s.claims /\ t.state = "sent" /\ t.noted = s.noted
    BY <2>1 DEF Sweep, States
  <2>4. \/ Reconciled(k) = s
        \/ Reconciled(k) = Failed(s) /\ Interrupted(s)
        \/ /\ s.state = "sending"
           /\ \/ Reconciled(k) = [s EXCEPT !.state = "sent"] /\ stage[k] = "completed"
              \/ Reconciled(k) = Failed(s) /\ stage[k] \in Dead
    BY DEF Reconciled, s
  <2>5. CASE Reconciled(k) = s
    BY <2>1, <2>5, <1>3 DEF s
  <2>6. CASE Reconciled(k) = Failed(s) /\ (Interrupted(s) \/ (s.state = "sending" /\ stage[k] \in Dead))
    BY <2>1, <2>2, <2>6, <1>3 DEF s
  <2>7. CASE s.state = "sending" /\ Reconciled(k) = [s EXCEPT !.state = "sent"] /\ stage[k] = "completed"
    BY <2>1, <2>3, <2>7, <1>3 DEF s
  <2> QED BY <2>4, <2>5, <2>6, <2>7
<1> QED BY <1>2, <1>3

\* A pass that begins has read nothing and found nothing.
LEMMA BeginIs ==
  ASSUME Shape, NEW p \in Passes, Begin(p)
  PROVE  /\ passes[p] = Idle /\ UNCHANGED <<owner, arrived, stopped, latest, clock, stage, paidBy, crashes>>
         /\ \A k \in Keys : sweeps'[k] = Reconciled(k)
         /\ \E x \in Pass :
              /\ passes' = [passes EXCEPT ![p] = x] /\ Orderly(x)
              /\ x.at = "reading" /\ x.window = clock /\ x.read = Unread /\ x.due = {}
              /\ x.handed = {} /\ x.now = Nobody /\ x.left = Unknown
<1> DEFINE x == [at |-> "reading", window |-> clock, todo |-> Businesses \ stopped,
                 read |-> Unread, due |-> {}, float |-> Unknown, left |-> Unknown,
                 handed |-> {}, now |-> Nobody]
<1>1. /\ passes' = [passes EXCEPT ![p] = x]
      /\ \A k \in Keys : sweeps'[k] = Reconciled(k)
      /\ passes[p] = Idle /\ UNCHANGED <<owner, arrived, stopped, latest, clock, stage, paidBy, crashes>>
  BY DEF Begin, money, payouts
<1>2. Unread \in Reading /\ Unread.got = {} /\ Unread.business = Nobody
  BY DEF Unread, Reading
<1>3. x \in Pass
  BY <1>2 DEF Pass, Shape, Plain
<1>4. Orderly(x)
  BY <1>2, <1>3, SweepAssumption DEF Orderly, AtASweep, SweepAssumption
<1> QED BY <1>1, <1>3, <1>4

\* Beginning a pass keeps the shape.
LEMMA BeginShape ==
  ASSUME Shape, NEW p \in Passes, Begin(p)
  PROVE  Shape'
<1>1. UNCHANGED <<owner, arrived, stopped, latest, clock, stage, paidBy, crashes>>
  BY BeginIs
<1>2. Plain'
  BY <1>1 DEF Shape, Plain
<1>3. RowsStay(sweeps, sweeps')
  <2>1. \A k \in Keys : sweeps[k] # NoSweep => sweeps'[k] \in Sweep /\ sweeps'[k].gross = sweeps[k].gross
    BY BeginIs, ReconciledIs
  <2>2. NoSweep \notin Sweep
    BY DEF NoSweep, Sweep, States
  <2> QED BY <2>1, <2>2 DEF RowsStay
<1>4. TableOK(sweeps', stage')
  <2>1. \A k \in Keys : sweeps'[k] \in Sweep \cup {NoSweep} /\ (sweeps'[k] = NoSweep <=> sweeps[k] = NoSweep)
    BY <1>3, BeginIs, ReconciledIs DEF RowsStay
  <2>2. sweeps' \in [Keys -> Sweep \cup {NoSweep}]
    BY <2>1 DEF Begin
  <2>3. {k \in Keys : sweeps'[k] # NoSweep} = {k \in Keys : sweeps[k] # NoSweep}
    BY <2>1
  <2>4. ASSUME NEW k \in Keys, sweeps'[k].state = "sending" PROVE sweeps'[k].noted /\ stage'[k] # "none"
    <3>1. sweeps[k] # NoSweep
      BY <2>1, <2>4 DEF NoSweep
    <3>2. sweeps[k].state = "sending" /\ sweeps'[k].noted = sweeps[k].noted
      BY <2>4, <3>1, BeginIs, ReconciledIs
    <3> QED BY <1>1, <3>2 DEF Shape, TableOK
  <2> QED BY <1>1, <2>1, <2>2, <2>3, <2>4 DEF Shape, TableOK
<1>5. PICK x \in Pass : /\ passes' = [passes EXCEPT ![p] = x] /\ Orderly(x)
                        /\ x.handed = {} /\ x.now = Nobody
  BY BeginIs
<1>6. x.now \notin Businesses
  BY <1>5, SweepAssumption DEF SweepAssumption
<1>7. PassOK(x, sweeps', stage')
  BY <1>5, <1>6 DEF PassOK, Sending, HandedOver
<1>8. StagesStay(stage, stage') /\ PayoutsOK(stage', paidBy')
  BY <1>1 DEF StagesStay, Shape
<1>9. \A q \in AtWork : q # p /\ passes[q].at # "noting" => stage'[KeyOf(passes[q])] = "none"
  BY <1>1, AtWorkIs
<1> QED BY <1>2, <1>3, <1>4, <1>5, <1>6, <1>7, <1>8, <1>9, ShapeFromPass

\* The sweep a pass turns to, and what its float leaves.
LEMMA TurnIs ==
  ASSUME Shape, NEW p \in Passes, NEW d, Turn(p, d)
  PROVE  /\ passes[p].at = "choosing" /\ passes[p] # Idle /\ d \in passes[p].due /\ d \in Due
         /\ <<d.business, passes[p].window>> \in Keys
         /\ passes[p].left \in Nat \cup {Unknown} /\ (passes[p].left = Unknown => passes[p].handed = {})
         /\ Obstacle(p, d) \in Codes
         /\ Obstacle(p, d) = "none" =>
              /\ passes[p].left \in Nat /\ NetOf(d.owed) + Charge <= passes[p].left
              /\ passes[p].left # Unknown /\ Spent(p, d) \in Nat /\ Spent(p, d) # Unknown
<1> DEFINE x == passes[p]
<1>1. x.at = "choosing" /\ x # Idle /\ d \in x.due
  BY DEF Turn, Idle
<1>2. x \in Pass /\ Orderly(x)
  BY <1>1, PassIs DEF PassOK
<1>3. d \in Due /\ x.window \in Windows
  BY <1>1, <1>2 DEF Pass
<1>4. d.business \in Businesses /\ d.owed \in Nat
  BY <1>3 DEF Due
<1>5. <<d.business, x.window>> \in Keys
  BY <1>3, <1>4 DEF Keys
<1>6. x.left \in Nat \cup {Unknown} /\ (x.left = Unknown => x.handed = {})
  BY <1>2 DEF Orderly
<1>7. NetOf(d.owed) + Charge \in Nat /\ Unknown \notin Nat
  <2>1. NetOf(d.owed) \in Nat
    BY <1>4, NetIsPart
  <2>2. Charge \in Nat /\ Unknown \notin Nat
    BY SweepAssumption DEF SweepAssumption
  <2> QED BY <2>1, <2>2
<1>8. Obstacle(p, d) \in Codes
  BY DEF Obstacle, Codes
<1>9. Obstacle(p, d) = "none" => x.left # Unknown /\ ~(NetOf(d.owed) + Charge > x.left)
  BY DEF Obstacle
<1>10. Obstacle(p, d) = "none" =>
              /\ x.left \in Nat /\ NetOf(d.owed) + Charge <= x.left
              /\ x.left # Unknown /\ Spent(p, d) \in Nat /\ Spent(p, d) # Unknown
  BY <1>6, <1>7, <1>9 DEF Spent
<1> QED BY <1>1, <1>3, <1>5, <1>6, <1>8, <1>10

\* Holding a sweep keeps the shape.
LEMMA HoldShape ==
  ASSUME Shape, NEW p \in Passes, NEW d, Hold(p, d)
  PROVE  Shape'
<1> DEFINE code == Obstacle(p, d)
           k == <<d.business, passes[p].window>>
<1>1. Turn(p, d) /\ passes' = NextBusiness(p, d, passes[p].left)
      /\ UNCHANGED <<owner, arrived, stopped, clock, stage, paidBy, crashes>>
  BY DEF Hold, money, payouts
<1>5. UNCHANGED <<sweeps, latest>> \/ Insert(k, Written(p, d, "held", code))
  BY DEF Hold
<1>2. /\ passes[p].at = "choosing" /\ passes[p] # Idle /\ d \in Due /\ k \in Keys /\ code \in Codes
      /\ passes[p].left \in Nat \cup {Unknown} /\ (passes[p].left = Unknown => passes[p].handed = {})
  BY <1>1, TurnIs
<1> HIDE DEF code, k
<1>3. CASE UNCHANGED <<sweeps, latest>>
  <2>1. Plain'
    BY <1>1, <1>3 DEF Shape, Plain
  <2> QED BY <1>1, <1>2, <1>3, <2>1, RowsUntouched, PassGoesOn
<1>4. CASE Insert(k, Written(p, d, "held", code))
  BY <1>1, <1>2, <1>4, WrittenIs, InsertIs, PassGoesOn
<1> QED BY <1>3, <1>4, <1>5

\* Preparing one keeps the shape: the row is this pass's alone.
LEMMA PrepareShape ==
  ASSUME Shape, NEW p \in Passes, NEW d, Prepare(p, d)
  PROVE  Shape'
<1> DEFINE x == passes[p]
           k == <<d.business, x.window>>
           new == Written(p, d, "prepared", "none")
<1>1. /\ Turn(p, d) /\ Obstacle(p, d) = "none" /\ Insert(k, new)
      /\ UNCHANGED <<owner, arrived, stopped, clock, stage, paidBy, crashes>>
  BY DEF Prepare, money, payouts
<1>2. /\ x.at = "choosing" /\ x # Idle /\ d \in x.due /\ d \in Due /\ k \in Keys
      /\ x.left \in Nat /\ NetOf(d.owed) + Charge <= x.left
      /\ x.left # Unknown /\ Spent(p, d) \in Nat /\ Spent(p, d) # Unknown
  BY <1>1, TurnIs
<1>3. new \in Sweep /\ new.gross = d.owed /\ new.state = "prepared"
  BY <1>2, WrittenIs DEF Codes
<1>4. x \in Pass /\ Orderly(x) /\ HandedOver(x, stage)
  BY <1>2, PassIs DEF PassOK
<1>5. /\ TableOK(sweeps', stage') /\ PayoutsOK(stage', paidBy')
      /\ RowsStay(sweeps, sweeps') /\ Plain' /\ sweeps'[k] # NoSweep
      /\ sweeps[k] = NoSweep => sweeps'[k] = new
  <2> HIDE DEF new, k
  <2> QED BY <1>1, <1>2, <1>3, InsertIs
<1>6. CASE sweeps[k] = NoSweep
  <2> DEFINE z == [x EXCEPT !.at = "claiming", !.now = d.business]
  <2>1. passes' = [passes EXCEPT ![p] = z]
    BY <1>6 DEF Prepare, Shape
  <2>2. /\ z \in Pass /\ z.at = "claiming" /\ z.now = d.business /\ z.window = x.window
        /\ z.left = x.left /\ z.handed = x.handed /\ z.due = x.due /\ z.todo = x.todo /\ z.read = x.read
        /\ d.business \in Businesses
    BY <1>2, <1>4 DEF Pass, Due
  <2> HIDE DEF z
  <2>3. KeyOf(z) = k
    BY <2>2 DEF KeyOf
  <2>4. Orderly(z)
    BY <1>2, <1>4, <2>2 DEF Orderly, AtASweep
  <2>5. stage[k] = "none"
    BY <1>2, <1>6 DEF Shape, TableOK
  <2>6. PassOK(z, sweeps', stage')
    <3>1. Sending(z, sweeps', stage')
      <4> HIDE DEF k, new
      <4> QED BY <1>1, <1>2, <1>3, <1>5, <1>6, <2>2, <2>3, <2>5 DEF Sending
    <3> QED BY <1>1, <1>4, <2>2, <2>4, <3>1 DEF PassOK, HandedOver
  <2>7. \A q \in AtWork : KeyOf(passes[q]) # k
    BY <1>6, AtWorkIs
  <2>8. StagesStay(stage, stage') /\ \A q \in AtWork : q # p /\ passes[q].at # "noting" => stage'[KeyOf(passes[q])] = "none"
    BY <1>1, AtWorkIs DEF StagesStay
  <2> HIDE DEF k, new
  <2> QED BY <1>5, <2>1, <2>2, <2>3, <2>6, <2>7, <2>8, ShapeFromPass
<1>7. CASE sweeps[k] # NoSweep
  <2> DEFINE left == IF sweeps[k].state \in Claiming THEN Spent(p, d) ELSE x.left
  <2>1. passes' = NextBusiness(p, d, left)
    BY <1>7 DEF Prepare
  <2>2. left \in Nat
    BY <1>2
  <2>3. left # Unknown
    BY <1>2
  <2> HIDE DEF left, k, new
  <2> QED BY <1>1, <1>2, <1>5, <2>1, <2>2, <2>3, PassGoesOn
<1> QED BY <1>6, <1>7

\* The sweep a pass is at, and the row of it.
LEMMA WorksIs ==
  ASSUME Shape, NEW p \in Passes, NEW d, NEW at \in AtASweep, Works(p, d, at)
  PROVE  LET k == <<d.business, passes[p].window>>
         IN /\ passes[p].at = at /\ passes[p] # Idle /\ p \in AtWork /\ d \in passes[p].due /\ d \in Due
            /\ k = KeyOf(passes[p]) /\ k \in Keys /\ sweeps[k] \in Sweep /\ sweeps[k].gross = d.owed
            /\ passes[p].left \in Nat /\ NetOf(d.owed) + Charge <= passes[p].left
            /\ passes[p].left # Unknown /\ Spent(p, d) \in Nat /\ Spent(p, d) # Unknown
            /\ stage[k] = "none" <=> at # "noting"
<1> DEFINE x == passes[p]
           k == <<d.business, x.window>>
<1>1. x.at = at /\ d \in x.due /\ d.business = x.now /\ x # Idle
  BY DEF Works, Idle, AtASweep
<1>2. x \in Pass /\ Orderly(x) /\ Sending(x, sweeps, stage) /\ (x.now \in Businesses => p \in AtWork)
  BY <1>1, PassIs DEF PassOK
<1>3. x.now \in Businesses /\ p \in AtWork
  BY <1>1, <1>2 DEF Orderly
<1>4. d \in Due /\ d.owed \in Nat
  BY <1>1, <1>2 DEF Pass, Due
<1>5. k = KeyOf(x) /\ k \in Keys
  BY <1>1, <1>2, <1>3 DEF KeyOf, Pass, Keys
<1>6. PICK e \in x.due : /\ e.business = x.now
                         /\ x.left # Unknown /\ NetOf(e.owed) + Charge <= x.left
                         /\ sweeps[KeyOf(x)] # NoSweep /\ sweeps[KeyOf(x)].gross = e.owed
  BY <1>2, <1>3 DEF Sending
<1>7. e = d
  BY <1>1, <1>2, <1>6 DEF Orderly
<1>8. stage[k] = "none" <=> at # "noting"
  BY <1>1, <1>2, <1>3, <1>5 DEF Sending
<1>9. sweeps[k] \in Sweep
  BY <1>5, <1>6 DEF Shape, TableOK
<1>10. x.left \in Nat /\ NetOf(d.owed) + Charge \in Nat /\ Unknown \notin Nat
  <2>1. x.left \in Nat
    BY <1>2, <1>6 DEF Orderly
  <2>2. NetOf(d.owed) \in Nat
    BY <1>4, NetIsPart
  <2> QED BY <2>1, <2>2, SweepAssumption DEF SweepAssumption
<1>11. Spent(p, d) \in Nat /\ Spent(p, d) # Unknown
  BY <1>6, <1>7, <1>10 DEF Spent
<1> QED BY <1>1, <1>3, <1>4, <1>5, <1>6, <1>7, <1>8, <1>9, <1>10, <1>11

\* A pass at the same sweep, one step further.
Advanced(x, at, S) == [x EXCEPT !.at = at, !.handed = S]

\* One step further, the pass is in order.
LEMMA StepsOn ==
  ASSUME NEW x \in Pass, NEW at \in AtASweep, x.at \in AtASweep, Orderly(x), NEW S \in SUBSET Keys
  PROVE  LET z == Advanced(x, at, S)
         IN /\ z \in Pass /\ z.at = at /\ z.now = x.now /\ z.window = x.window /\ z.left = x.left
            /\ z.handed = S /\ z.due = x.due /\ z.read = x.read /\ z.float = x.float
            /\ (x.left # Unknown => Orderly(z)) /\ KeyOf(z) = KeyOf(x)
<1> DEFINE z == Advanced(x, at, S)
<1>1. /\ z \in Pass /\ z.at = at /\ z.now = x.now /\ z.window = x.window /\ z.left = x.left
      /\ z.handed = S /\ z.due = x.due /\ z.todo = x.todo /\ z.read = x.read /\ z.float = x.float
  BY DEF Pass, AtASweep, Advanced
<1> HIDE DEF z
<1>2. x.left # Unknown => Orderly(z)
  BY <1>1 DEF Orderly, AtASweep
<1> QED BY <1>1, <1>2 DEF KeyOf, z

\* What claiming the payments changes.
LEMMA ClaimIs ==
  ASSUME Shape, NEW p \in Passes, NEW d, Claim(p, d)
  PROVE  LET k == <<d.business, passes[p].window>>
             s == [sweeps[k] EXCEPT !.claims = d.list]
             z == [passes[p] EXCEPT !.at = "calling"]
         IN /\ Works(p, d, "claiming") /\ k \in Keys /\ s \in Sweep /\ s.gross = sweeps[k].gross
            /\ s.state = sweeps[k].state /\ s.noted = sweeps[k].noted /\ s.old = sweeps[k].old
            /\ s.claims = d.list
            /\ sweeps' = [sweeps EXCEPT ![k] = s] /\ passes' = [passes EXCEPT ![p] = z]
            /\ UNCHANGED <<owner, arrived, stopped, latest, clock, stage, paidBy, crashes>>
            /\ z \in Pass /\ z.at = "calling" /\ z.now = passes[p].now /\ z.window = passes[p].window
            /\ z.left = passes[p].left /\ z.handed = passes[p].handed /\ z.due = passes[p].due
            /\ z.read = passes[p].read /\ z.float = passes[p].float
            /\ Orderly(z) /\ KeyOf(z) = k
<1> DEFINE x == passes[p]
           k == <<d.business, x.window>>
           s == [sweeps[k] EXCEPT !.claims = d.list]
           z == [x EXCEPT !.at = "calling"]
<1>1. Works(p, d, "claiming")
  BY DEF Claim
<1>2. /\ x.at = "claiming" /\ x # Idle /\ d \in Due /\ k = KeyOf(x) /\ k \in Keys /\ sweeps[k] \in Sweep
      /\ x.left # Unknown
  BY <1>1, WorksIs DEF AtASweep
<1>3. x \in Pass /\ Orderly(x)
  BY <1>2, PassIs DEF PassOK
<1>4. /\ s \in Sweep /\ s.gross = sweeps[k].gross /\ s.claims = d.list
      /\ s.state = sweeps[k].state /\ s.noted = sweeps[k].noted /\ s.old = sweeps[k].old
  BY <1>2 DEF Sweep, Due
<1>5. /\ sweeps' = [sweeps EXCEPT ![k] = s] /\ passes' = [passes EXCEPT ![p] = z]
      /\ UNCHANGED <<owner, arrived, stopped, latest, clock, stage, paidBy, crashes>>
  BY DEF Claim, money, payouts
<1>6. z = Advanced(x, "calling", x.handed)
  BY <1>3 DEF Pass, Advanced
<1>7. /\ z \in Pass /\ z.at = "calling" /\ z.now = x.now /\ z.window = x.window
      /\ z.left = x.left /\ z.handed = x.handed /\ z.due = x.due /\ z.read = x.read /\ z.float = x.float
      /\ Orderly(z) /\ KeyOf(z) = KeyOf(x)
  <2>1. x.handed \in SUBSET Keys
    BY <1>3 DEF Pass
  <2>2. x.at \in AtASweep /\ "calling" \in AtASweep
    BY <1>2 DEF AtASweep
  <2> HIDE DEF z, x
  <2> QED BY <1>2, <1>3, <1>6, <2>1, <2>2, StepsOn
<1> HIDE DEF s, z, k
<1>8. KeyOf(z) = k
  BY <1>2, <1>7
<1> QED BY <1>1, <1>2, <1>4, <1>5, <1>7, <1>8 DEF s, z, k

\* Claiming keeps the shape.
LEMMA ClaimShape ==
  ASSUME Shape, NEW p \in Passes, NEW d, Claim(p, d)
  PROVE  Shape'
<1> DEFINE x == passes[p]
           k == <<d.business, x.window>>
           s == [sweeps[k] EXCEPT !.claims = d.list]
           z == [x EXCEPT !.at = "calling"]
<1>1. /\ Works(p, d, "claiming") /\ k \in Keys /\ s \in Sweep /\ s.gross = sweeps[k].gross
      /\ s.state = sweeps[k].state /\ s.noted = sweeps[k].noted
      /\ sweeps' = [sweeps EXCEPT ![k] = s] /\ passes' = [passes EXCEPT ![p] = z]
      /\ UNCHANGED <<owner, arrived, stopped, latest, clock, stage, paidBy, crashes>>
      /\ z \in Pass /\ z.at = "calling" /\ z.now = x.now /\ z.window = x.window
      /\ z.left = x.left /\ z.handed = x.handed /\ z.due = x.due /\ Orderly(z) /\ KeyOf(z) = k
  BY ClaimIs
<1>2. p \in AtWork /\ k = KeyOf(x) /\ stage[k] = "none" /\ x.at = "claiming" /\ x # Idle
  BY <1>1, WorksIs DEF AtASweep
<1>3. PassOK(x, sweeps, stage) /\ x.now \in Businesses
  BY <1>2, PassIs DEF AtWork
<1> HIDE DEF s, z, k
<1>4. /\ TableOK(sweeps', stage') /\ PayoutsOK(stage', paidBy')
      /\ RowsStay(sweeps, sweeps') /\ StagesStay(stage, stage')
  <2>1. s.state = "sending" => s.noted /\ stage[k] # "none"
    BY <1>1 DEF Shape, TableOK
  <2> QED BY <1>1, <2>1, WritesRow
<1>5. PassOK(z, sweeps', stage')
  <2>1. PassOK(x, sweeps', stage')
    BY <1>1, <1>2, <1>3, <1>4, PassKeeps
  <2>2. Sending(z, sweeps', stage')
    BY <1>1, <1>2, <1>3, <2>1 DEF PassOK, Sending
  <2> QED BY <1>1, <2>1, <2>2 DEF PassOK, HandedOver
<1>6. Plain'
  BY <1>1 DEF Shape, Plain
<1>7. \A q \in AtWork : q # p /\ passes[q].at # "noting" => stage'[KeyOf(passes[q])] = "none"
  BY <1>1, AtWorkIs
<1> QED BY <1>1, <1>2, <1>4, <1>5, <1>6, <1>7, ShapeFromPass

\* A pass as it hands a sweep over.
HandsOver(x, k) == [x EXCEPT !.at = "noting", !.handed = @ \cup {k}]

\* What asking for the payout changes.
LEMMA SendIs ==
  ASSUME Shape, NEW p \in Passes, NEW d, Send(p, d)
  PROVE  LET k == <<d.business, passes[p].window>>
             z == HandsOver(passes[p], k)
         IN /\ Works(p, d, "calling") /\ k \in Keys /\ stage[k] = "none"
            /\ (\E w \in {"waiting", "flight"} : stage' = [stage EXCEPT ![k] = w])
            /\ passes' = [passes EXCEPT ![p] = z]
            /\ UNCHANGED <<owner, arrived, stopped, sweeps, latest, clock, paidBy, crashes>>
            /\ z \in Pass /\ z.at = "noting" /\ z.now = passes[p].now /\ z.window = passes[p].window
            /\ z.left = passes[p].left /\ z.handed = passes[p].handed \cup {k} /\ z.due = passes[p].due
            /\ z.read = passes[p].read /\ z.float = passes[p].float
            /\ Orderly(z) /\ KeyOf(z) = k
<1> DEFINE x == passes[p]
           k == <<d.business, x.window>>
           z == HandsOver(x, k)
<1>1. Works(p, d, "calling")
  BY DEF Send
<1>2. /\ x.at = "calling" /\ x # Idle /\ k = KeyOf(x) /\ k \in Keys /\ x.left # Unknown
  BY <1>1, WorksIs DEF AtASweep
<1>3. x \in Pass /\ Orderly(x)
  BY <1>2, PassIs DEF PassOK
<1>4. (\E w \in {"waiting", "flight"} : stage' = [stage EXCEPT ![k] = w]) /\ stage[k] = "none"
      /\ UNCHANGED <<owner, arrived, stopped, sweeps, latest, clock, paidBy, crashes>>
  BY DEF Send, money, Payout!Enter, Payout!Becomes
<1>5. passes' = [passes EXCEPT ![p] = z]
  BY DEF Send, Shape, HandsOver
<1>6. z = Advanced(x, "noting", x.handed \cup {k})
  BY DEF Advanced, HandsOver
<1>7. /\ z \in Pass /\ z.at = "noting" /\ z.now = x.now /\ z.window = x.window
      /\ z.left = x.left /\ z.handed = x.handed \cup {k} /\ z.due = x.due /\ z.read = x.read
      /\ z.float = x.float /\ Orderly(z) /\ KeyOf(z) = KeyOf(x)
  <2>1. x.handed \cup {k} \in SUBSET Keys
    BY <1>2, <1>3 DEF Pass
  <2>2. x.at \in AtASweep /\ "noting" \in AtASweep
    BY <1>2 DEF AtASweep
  <2> DEFINE S == x.handed \cup {k}
  <2> HIDE DEF z, x, S
  <2> QED BY <1>2, <1>3, <1>6, <2>1, <2>2, StepsOn DEF S
<1> HIDE DEF z, k
<1>8. KeyOf(z) = k
  BY <1>2, <1>7
<1> QED BY <1>1, <1>2, <1>4, <1>5, <1>7, <1>8 DEF z, k

\* Asking for the payout keeps the shape.
LEMMA SendShape ==
  ASSUME Shape, NEW p \in Passes, NEW d, Send(p, d)
  PROVE  Shape'
<1> DEFINE x == passes[p]
           k == <<d.business, x.window>>
           z == HandsOver(x, k)
<1>1. /\ Works(p, d, "calling") /\ k \in Keys /\ stage[k] = "none"
      /\ (\E w \in {"waiting", "flight"} : stage' = [stage EXCEPT ![k] = w])
      /\ passes' = [passes EXCEPT ![p] = z]
      /\ UNCHANGED <<owner, arrived, stopped, sweeps, latest, clock, paidBy, crashes>>
      /\ z \in Pass /\ z.at = "noting" /\ z.now = x.now /\ z.window = x.window
      /\ z.left = x.left /\ z.handed = x.handed \cup {k} /\ z.due = x.due /\ Orderly(z) /\ KeyOf(z) = k
  BY SendIs
<1>2. p \in AtWork /\ k = KeyOf(x) /\ sweeps[k] \in Sweep /\ x.at = "calling" /\ x # Idle
  BY <1>1, WorksIs DEF AtASweep
<1>3. PassOK(x, sweeps, stage) /\ x.now \in Businesses /\ x \in Pass
  BY <1>2, PassIs DEF AtWork
<1> HIDE DEF z, k
<1>4. stage' \in [Keys -> Payout!Stages] /\ stage'[k] \in {"waiting", "flight"}
      /\ \A j \in Keys : j # k => stage'[j] = stage[j]
  BY <1>1 DEF Shape, PayoutsOK, Payout!Stages
<1>5. StagesStay(stage, stage') /\ PayoutsOK(stage', paidBy') /\ TableOK(sweeps', stage')
      /\ RowsStay(sweeps, sweeps')
  <2>1. StagesStay(stage, stage')
    BY <1>4 DEF StagesStay
  <2>2. PayoutsOK(stage', paidBy')
    BY <1>1, <1>4 DEF Shape, PayoutsOK
  <2>3. TableOK(sweeps', stage')
    BY <1>1, <1>2, <1>4 DEF Shape, TableOK, Sweep, States, NoSweep
  <2> QED BY <1>1, <2>1, <2>2, <2>3 DEF RowsStay
<1>6. PassOK(z, sweeps', stage')
  <2>1. HandedOver(z, stage')
    BY <1>1, <1>3, <1>4, <1>5 DEF PassOK, HandedOver, StagesStay, Pass
  <2>2. Sending(z, sweeps', stage')
    BY <1>1, <1>2, <1>3, <1>4 DEF PassOK, Sending
  <2> QED BY <1>1, <2>1, <2>2 DEF PassOK
<1>7. Plain'
  BY <1>1 DEF Shape, Plain
<1>8. \A q \in AtWork : q # p /\ passes[q].at # "noting" => stage'[KeyOf(passes[q])] = "none"
  BY <1>2, <1>4, AtWorkIs DEF Shape, Alone
<1> QED BY <1>1, <1>2, <1>5, <1>6, <1>7, <1>8, ShapeFromPass

\* The row as the pass leaves it, when no other pass has given it up.
LEMMA WherePreparedIs ==
  ASSUME Shape, NEW k \in Keys, NEW s \in Sweep, WherePrepared(k, s), UNCHANGED <<stage, paidBy>>,
         sweeps[k] \in Sweep, s.gross = sweeps[k].gross,
         s.state = "sending" => s.noted /\ stage[k] # "none"
  PROVE  /\ TableOK(sweeps', stage') /\ PayoutsOK(stage', paidBy') /\ RowsStay(sweeps, sweeps')
         /\ sweeps'[k] = IF sweeps[k].state = "prepared" THEN s ELSE sweeps[k]
         /\ \A j \in Keys : j # k => sweeps'[j] = sweeps[j]
<1>1. CASE sweeps[k].state = "prepared"
  <2>1. sweeps' = [sweeps EXCEPT ![k] = s]
    BY <1>1 DEF WherePrepared
  <2>2. /\ sweeps'[k] = IF sweeps[k].state = "prepared" THEN s ELSE sweeps[k]
        /\ \A j \in Keys : j # k => sweeps'[j] = sweeps[j]
    BY <1>1, <2>1 DEF Shape, TableOK
  <2> QED BY <2>1, <2>2, WritesRow
<1>2. CASE sweeps[k].state # "prepared"
  <2>1. UNCHANGED sweeps
    BY <1>2 DEF WherePrepared
  <2> QED BY <1>2, <2>1, RowsUntouched
<1> QED BY <1>1, <1>2

\* What noting the payout changes.
LEMMA NoteIs ==
  ASSUME Shape, NEW p \in Passes, NEW d, Note(p, d)
  PROVE  LET k == <<d.business, passes[p].window>>
             s == [sweeps[k] EXCEPT !.state = Outcome(k), !.noted = TRUE]
             left == IF Outcome(k) = "failed" THEN passes[p].left ELSE Spent(p, d)
         IN /\ Works(p, d, "noting") /\ k \in Keys /\ s \in Sweep /\ s.gross = sweeps[k].gross
            /\ s.claims = sweeps[k].claims /\ s.state = Outcome(k) /\ s.noted /\ s.old = sweeps[k].old
            /\ WherePrepared(k, s) /\ passes' = NextBusiness(p, d, left)
            /\ left \in Nat /\ left # Unknown /\ stage[k] # "none" /\ sweeps[k] \in Sweep
            /\ UNCHANGED <<owner, arrived, stopped, latest, clock, stage, paidBy, crashes>>
<1> DEFINE k == <<d.business, passes[p].window>>
           s == [sweeps[k] EXCEPT !.state = Outcome(k), !.noted = TRUE]
           left == IF Outcome(k) = "failed" THEN passes[p].left ELSE Spent(p, d)
<1>1. Works(p, d, "noting")
  BY DEF Note
<1>2. /\ k \in Keys /\ sweeps[k] \in Sweep /\ passes[p].left \in Nat /\ passes[p].left # Unknown
      /\ Spent(p, d) \in Nat /\ Spent(p, d) # Unknown /\ stage[k] # "none"
  BY <1>1, WorksIs DEF AtASweep
<1>3. Outcome(k) \in {"sent", "failed", "sending"}
  BY DEF Outcome
<1>4. /\ s \in Sweep /\ s.gross = sweeps[k].gross /\ s.claims = sweeps[k].claims
      /\ s.state = Outcome(k) /\ s.noted /\ s.old = sweeps[k].old
  BY <1>2, <1>3 DEF Sweep, States
<1>5. WherePrepared(k, s) /\ passes' = NextBusiness(p, d, left)
      /\ UNCHANGED <<owner, arrived, stopped, latest, clock, stage, paidBy, crashes>>
  BY DEF Note, money, payouts
<1>6. left \in Nat /\ left # Unknown
  BY <1>2
<1> QED BY <1>1, <1>2, <1>4, <1>5, <1>6

\* Noting it keeps the shape.
LEMMA NoteShape ==
  ASSUME Shape, NEW p \in Passes, NEW d, Note(p, d)
  PROVE  Shape'
<1> DEFINE k == <<d.business, passes[p].window>>
           s == [sweeps[k] EXCEPT !.state = Outcome(k), !.noted = TRUE]
           left == IF Outcome(k) = "failed" THEN passes[p].left ELSE Spent(p, d)
<1>1. /\ Works(p, d, "noting") /\ k \in Keys /\ s \in Sweep /\ s.gross = sweeps[k].gross
      /\ s.noted /\ WherePrepared(k, s) /\ passes' = NextBusiness(p, d, left)
      /\ left \in Nat /\ left # Unknown /\ stage[k] # "none" /\ sweeps[k] \in Sweep
      /\ UNCHANGED <<owner, arrived, stopped, latest, clock, stage, paidBy, crashes>>
  BY NoteIs
<1>2. passes[p] # Idle /\ passes[p].at = "noting"
  BY <1>1, WorksIs DEF AtASweep
<1> HIDE DEF k, s, left
<1>3. TableOK(sweeps', stage') /\ PayoutsOK(stage', paidBy') /\ RowsStay(sweeps, sweeps')
  BY <1>1, WherePreparedIs
<1>4. Plain'
  BY <1>1 DEF Shape, Plain
<1> QED BY <1>1, <1>2, <1>3, <1>4, PassGoesOn

\* The row of a sweep whose send threw.
Refused(s, state) == [s EXCEPT !.state = state, !.code = "refused"]

\* What a send that threw changes.
LEMMA ThrewIs ==
  ASSUME Shape, NEW p \in Passes, NEW d, Threw(p, d)
  PROVE  LET k == <<d.business, passes[p].window>>
         IN \E state \in {"held", "failed"}, at \in {"calling", "noting"} :
              LET s == Refused(sweeps[k], state) IN
              /\ Works(p, d, at) /\ (at = "noting" => "lateThrow" \in Around)
              /\ k \in Keys /\ s \in Sweep /\ s.gross = sweeps[k].gross
              /\ s.claims = sweeps[k].claims /\ s.state = state /\ sweeps[k] \in Sweep
              /\ WherePrepared(k, s) /\ passes' = NextBusiness(p, d, passes[p].left)
              /\ passes[p].left \in Nat /\ passes[p].left # Unknown
              /\ UNCHANGED <<owner, arrived, stopped, latest, clock, stage, paidBy, crashes>>
<1> DEFINE k == <<d.business, passes[p].window>>
           row(state) == Refused(sweeps[k], state)
<1>1. PICK at \in {"calling", "noting"} : Works(p, d, at) /\ (at = "noting" => "lateThrow" \in Around)
  BY DEF Threw
<1>2. /\ k \in Keys /\ sweeps[k] \in Sweep /\ passes[p].left \in Nat /\ passes[p].left # Unknown
  BY <1>1, WorksIs DEF AtASweep
<1>3. PICK state \in {"held", "failed"} : WherePrepared(k, row(state))
  BY DEF Threw, Refused
<1>4. /\ row(state) \in Sweep /\ row(state).gross = sweeps[k].gross
      /\ row(state).claims = sweeps[k].claims /\ row(state).state = state
  BY <1>2 DEF Sweep, States, Codes, Refused
<1>5. passes' = NextBusiness(p, d, passes[p].left)
      /\ UNCHANGED <<owner, arrived, stopped, latest, clock, stage, paidBy, crashes>>
  BY DEF Threw, money, payouts
<1> QED BY <1>1, <1>2, <1>3, <1>4, <1>5

\* A send that threw keeps the shape.
LEMMA ThrewShape ==
  ASSUME Shape, NEW p \in Passes, NEW d, Threw(p, d)
  PROVE  Shape'
<1> DEFINE k == <<d.business, passes[p].window>>
<1>1. PICK state \in {"held", "failed"}, at \in {"calling", "noting"} :
              LET s == Refused(sweeps[k], state) IN
              /\ Works(p, d, at) /\ k \in Keys /\ s \in Sweep /\ s.gross = sweeps[k].gross
              /\ s.state = state /\ sweeps[k] \in Sweep
              /\ WherePrepared(k, s) /\ passes' = NextBusiness(p, d, passes[p].left)
              /\ passes[p].left \in Nat /\ passes[p].left # Unknown
              /\ UNCHANGED <<owner, arrived, stopped, latest, clock, stage, paidBy, crashes>>
  BY ThrewIs
<1> DEFINE s == Refused(sweeps[k], state)
<1>2. passes[p] # Idle /\ passes[p].at \in {"calling", "noting"}
  BY <1>1, WorksIs DEF AtASweep
<1> HIDE DEF k, s
<1>3. TableOK(sweeps', stage') /\ PayoutsOK(stage', paidBy') /\ RowsStay(sweeps, sweeps')
  BY <1>1, WherePreparedIs DEF s
<1>4. Plain'
  BY <1>1 DEF Shape, Plain
<1> QED BY <1>1, <1>2, <1>3, <1>4, PassGoesOn

\* What happens to a payout when its sweep's pass is elsewhere.
LEMMA PayoutMovesIs ==
  ASSUME Shape, NEW k \in Keys, PayoutMoves(k)
  PROVE  /\ UNCHANGED <<owner, arrived, stopped, sweeps, latest, passes, clock, crashes>>
         /\ PayoutsOK(stage', paidBy') /\ StagesStay(stage, stage')
         /\ \A j \in Keys : stage[j] = "none" => stage'[j] = "none"
         /\ \A j \in Keys : MayPay(j)' => MayPay(j)
         /\ \A j \in Keys : j # k => stage'[j] = stage[j] /\ paidBy'[j] = paidBy[j]
<1>1. UNCHANGED <<owner, arrived, stopped, sweeps, latest, passes, clock, crashes>>
  BY DEF PayoutMoves, money
<1>2. stage \in [Keys -> Payout!Stages] /\ paidBy \in [Keys -> SUBSET {1}]
  BY DEF Shape, PayoutsOK
<1>3. CASE Payout!Decide(k)
  <2>1. /\ stage[k] = "waiting" /\ UNCHANGED paidBy
        /\ (stage' = [stage EXCEPT ![k] = "flight"] \/ stage' = [stage EXCEPT ![k] = "rejected"])
    BY <1>3 DEF Payout!Decide, Payout!Becomes
  <2> QED BY <1>1, <1>2, <2>1 DEF Shape, PayoutsOK, StagesStay, MayPay, Payout!Stages
<1>4. CASE Payout!Pay(k, 1)
  <2>1. stage[k] = "flight" /\ paidBy' = [paidBy EXCEPT ![k] = {1}] /\ UNCHANGED stage
    BY <1>4 DEF Payout!Pay
  <2> QED BY <1>1, <1>2, <2>1 DEF Shape, PayoutsOK, StagesStay, MayPay
<1>5. CASE Payout!Settle(k)
  <2>1. /\ stage[k] = "flight" /\ UNCHANGED paidBy
        /\ \/ paidBy[k] # {} /\ stage' = [stage EXCEPT ![k] = "completed"]
           \/ paidBy[k] = {} /\ stage' = [stage EXCEPT ![k] = "failed"]
    BY <1>5 DEF Payout!Settle, Payout!Becomes
  <2> QED BY <1>1, <1>2, <2>1 DEF Shape, PayoutsOK, StagesStay, MayPay, Payout!Stages
<1> QED BY <1>3, <1>4, <1>5 DEF PayoutMoves

\* A payout that moves keeps the shape.
LEMMA PayoutMovesShape ==
  ASSUME Shape, NEW k \in Keys, PayoutMoves(k)
  PROVE  Shape'
<1>1. /\ UNCHANGED <<owner, arrived, stopped, sweeps, latest, passes, clock, crashes>>
      /\ PayoutsOK(stage', paidBy') /\ StagesStay(stage, stage')
      /\ \A j \in Keys : stage[j] = "none" => stage'[j] = "none"
  BY PayoutMovesIs
<1>2. TableOK(sweeps', stage') /\ RowsStay(sweeps, sweeps')
  BY <1>1 DEF Shape, TableOK, RowsStay, StagesStay
<1>3. Plain'
  BY <1>1 DEF Shape, Plain
<1>4. \A q \in AtWork : passes[q].at # "noting" => stage'[KeyOf(passes[q])] = "none"
  BY <1>1, AtWorkIs
<1> QED BY <1>1, <1>2, <1>3, <1>4, ShapeFromRows

\* Time that passes keeps the shape.
LEMMA FiveMinutesPassShape ==
  ASSUME Shape, NEW k \in Keys, FiveMinutesPass(k)
  PROVE  Shape'
<1> DEFINE s == [sweeps[k] EXCEPT !.old = TRUE]
<1>1. UNCHANGED <<owner, arrived, stopped, latest, passes, clock, stage, paidBy, crashes>>
      /\ sweeps' = [sweeps EXCEPT ![k] = s] /\ sweeps[k].state = "prepared"
  BY DEF FiveMinutesPass, money, payouts
<1>2. sweeps[k] \in Sweep
  BY <1>1 DEF Shape, TableOK, NoSweep
<1>3. s \in Sweep /\ s.gross = sweeps[k].gross /\ s.state = "prepared"
  BY <1>1, <1>2 DEF Sweep
<1> HIDE DEF s
<1>4. /\ TableOK(sweeps', stage') /\ PayoutsOK(stage', paidBy')
      /\ RowsStay(sweeps, sweeps') /\ StagesStay(stage, stage')
  BY <1>1, <1>3, WritesRow
<1>5. Plain'
  BY <1>1 DEF Shape, Plain
<1>6. \A q \in AtWork : passes[q].at # "noting" => stage'[KeyOf(passes[q])] = "none"
  BY <1>1, AtWorkIs
<1> QED BY <1>1, <1>4, <1>5, <1>6, ShapeFromRows

\* Every step outside the passes keeps the shape.
LEMMA OutsideShape ==
  ASSUME Shape, Outside
  PROVE  Shape'
<1> USE DEF money, payouts
<1>1. ASSUME Plain', UNCHANGED <<sweeps, passes, stage, paidBy>> PROVE Shape'
  <2>1. \A q \in AtWork : passes[q].at # "noting" => stage'[KeyOf(passes[q])] = "none"
    BY <1>1, AtWorkIs
  <2> QED BY <1>1, <2>1, RowsUntouched, ShapeFromRows
<1>2. Len(Amounts) \in Nat
  BY SweepAssumption DEF SweepAssumption
<1>3. ASSUME NEW b \in Businesses \cup {Nobody}, Arrives(b) PROVE Shape'
  <2>1. UNCHANGED <<stopped, sweeps, latest, passes, clock, stage, paidBy, crashes>>
    BY <1>3 DEF Arrives
  <2>3. arrived < Len(Amounts) /\ arrived' = arrived + 1 /\ owner' = [owner EXCEPT ![arrived + 1] = b]
    BY <1>3 DEF Arrives
  <2>4. arrived' \in 0..Len(Amounts)
    BY <1>2, <2>3 DEF Shape, Plain
  <2>5. owner' \in [Rows -> Businesses \cup {Nobody}]
    BY <2>3 DEF Shape, Plain
  <2>2. Plain'
    BY <2>1, <2>4, <2>5 DEF Shape, Plain
  <2> QED BY <1>1, <2>1, <2>2
<1>4. ASSUME NEW b \in Businesses, NEW r \in Rows, Assign(r, b) PROVE Shape'
  <2>1. UNCHANGED <<arrived, stopped, sweeps, latest, passes, clock, stage, paidBy, crashes>>
    BY <1>4 DEF Assign
  <2>2. Plain'
    BY <1>4 DEF Assign, Shape, Plain
  <2> QED BY <1>1, <2>1, <2>2
<1>5. ASSUME NEW b \in Businesses, NEW value \in BOOLEAN, SetStopped(b, value) PROVE Shape'
  <2>1. UNCHANGED <<owner, arrived, sweeps, latest, passes, clock, stage, paidBy, crashes>>
    BY <1>5 DEF SetStopped
  <2>2. Plain'
    BY <1>5 DEF SetStopped, Shape, Plain
  <2> QED BY <1>1, <2>1, <2>2
<1>6. ASSUME NEW w \in Windows, ClockMoves(w) PROVE Shape'
  <2>1. UNCHANGED <<owner, arrived, stopped, sweeps, latest, passes, stage, paidBy, crashes>>
    BY <1>6 DEF ClockMoves
  <2>2. Plain'
    BY <1>6 DEF ClockMoves, Shape, Plain
  <2> QED BY <1>1, <2>1, <2>2
<1>7. ASSUME Crash PROVE Shape'
  <2>1. UNCHANGED <<owner, arrived, stopped, sweeps, latest, clock, stage, paidBy>>
        /\ passes' = [p \in Passes |-> Idle]
    BY <1>7 DEF Crash
  <2>2. Plain'
    BY <1>7, SweepAssumption DEF Crash, Shape, Plain, SweepAssumption
  <2>3. Working' = {}
    BY <2>1 DEF Working
  <2> QED BY <2>1, <2>2, <2>3, RowsUntouched DEF Shape, Alone, AtWork
<1> QED BY <1>3, <1>4, <1>5, <1>6, <1>7, FiveMinutesPassShape, PayoutMovesShape DEF Outside

\* Every step keeps the shape.
LEMMA ShapeStep ==
  ASSUME Shape, Next PROVE Shape'
<1>1. ASSUME NEW p \in Passes, Step(p) PROVE Shape'
  <2>1. CASE Begin(p) \/ Consider(p) \/ ReadingEnds(p) \/ End(p)
    BY <2>1, BeginShape, ConsiderShape, ReadingEndsShape, EndShape
  <2>2. CASE \E b \in Businesses : Read(p, b)
    BY <2>2, ReadShape
  <2>3. ASSUME NEW d, Choose(p, d) \/ Claim(p, d) \/ Send(p, d) \/ Note(p, d) \/ Threw(p, d)
        PROVE  Shape'
    BY <2>3, SkipShape, HoldShape, PrepareShape, ClaimShape, SendShape, NoteShape, ThrewShape DEF Choose
  <2> QED BY <1>1, <2>1, <2>2, <2>3 DEF Step
<1> QED BY <1>1, OutsideShape DEF Next

\* A stuttering step keeps the shape.
LEMMA ShapeStutters ==
  ASSUME Shape, UNCHANGED vars PROVE Shape'
BY DEF vars, Shape, Plain, Alone, AtWork, Working

(* What a pass holds in memory always has the types the code gives it, and *)
(* a sweep that reads as sending notes a payout that exists, whatever      *)
(* happens around a pass.                                                  *)
THEOREM SweepTypes == Spec => []TypeOK
<1>1. Shape /\ [Next]_vars => Shape'
  BY ShapeStep, ShapeStutters
<1> QED BY <1>1, ShapeInit, ShapeTypes, PTL DEF Spec

(***************************************************************************)
(* What a step does to the sweeps whose payouts exist: it never changes    *)
(* what they claim, and never lets one pay that could not.  Only a send    *)
(* makes a payout.                                                         *)
(***************************************************************************)

Lasts(k) ==
  stage[k] # "none" =>
    /\ sweeps'[k] # NoSweep /\ sweeps'[k].gross = sweeps[k].gross
    /\ sweeps'[k].claims = sweeps[k].claims
    /\ MayPay(k)' => MayPay(k)

\* Nothing changes for a payout when no row does.
LEMMA LastsWhenRowsDo ==
  ASSUME Shape, UNCHANGED <<sweeps, stage, paidBy>>
  PROVE  \A k \in Keys : Lasts(k)
BY DEF Lasts, Shape, TableOK, MayPay

\* One row is written, and what it said of a payout stays.
LEMMA LastsWhenOneIsWritten ==
  ASSUME Shape, NEW k \in Keys, NEW s, UNCHANGED <<stage, paidBy>>,
         \A j \in Keys : j # k => sweeps'[j] = sweeps[j],
         sweeps'[k] \in {s, sweeps[k]},
         stage[k] # "none" => s # NoSweep /\ s.gross = sweeps[k].gross /\ s.claims = sweeps[k].claims
  PROVE  \A j \in Keys : Lasts(j)
<1>1. \A j \in Keys : stage[j] # "none" => sweeps[j] # NoSweep
  BY DEF Shape, TableOK
<1>2. \A j \in Keys : MayPay(j)' <=> MayPay(j)
  BY DEF MayPay
<1>3. ASSUME NEW j \in Keys PROVE Lasts(j)
  <2> SUFFICES ASSUME stage[j] # "none"
                PROVE  /\ sweeps'[j] # NoSweep /\ sweeps'[j].gross = sweeps[j].gross
                       /\ sweeps'[j].claims = sweeps[j].claims
    BY <1>2 DEF Lasts
  <2>0. sweeps[j] # NoSweep
    BY <1>1
  <2>1. CASE j = k
    BY <2>0, <2>1
  <2>2. CASE j # k
    BY <2>0, <2>2
  <2> QED BY <2>1, <2>2
<1> QED BY <1>3

\* The step of a pass that leaves the table and the payouts alone.
Thinks(p) ==
  \/ Consider(p) \/ ReadingEnds(p) \/ End(p)
  \/ \E b \in Businesses : Read(p, b)
  \/ \E d \in passes[p].due : Skip(p, d)

\* What such a step leaves alone.
LEMMA ThinksIs ==
  ASSUME NEW p \in Passes, Thinks(p)
  PROVE  UNCHANGED <<owner, arrived, stopped, sweeps, latest, clock, stage, paidBy, crashes>>
<1>1. Consider(p) \/ ReadingEnds(p) \/ End(p)
      => UNCHANGED <<owner, arrived, stopped, sweeps, latest, clock, stage, paidBy, crashes>>
  BY DEF Consider, ReadingEnds, End, money, payouts
<1>2. ASSUME NEW b \in Businesses, Read(p, b)
      PROVE  UNCHANGED <<owner, arrived, stopped, sweeps, latest, clock, stage, paidBy, crashes>>
  BY <1>2 DEF Read, ReadPayments, ReadClaimedSum, ReadClaimedList, Got, money, payouts
<1>3. ASSUME NEW d \in passes[p].due, Skip(p, d)
      PROVE  UNCHANGED <<owner, arrived, stopped, sweeps, latest, clock, stage, paidBy, crashes>>
  BY <1>3 DEF Skip, money, payouts
<1> QED BY <1>1, <1>2, <1>3 DEF Thinks

\* The steps of a pass, with the sweep they are about.
LEMMA StepIs ==
  ASSUME NEW p \in Passes, Step(p)
  PROVE  \/ Begin(p) \/ Thinks(p)
         \/ \E d \in passes[p].due :
              Hold(p, d) \/ Prepare(p, d) \/ Claim(p, d) \/ Send(p, d) \/ Note(p, d) \/ Threw(p, d)
BY DEF Step, Choose, Thinks

\* Holding and preparing write a row only where there was none.
LEMMA ChoosingIs ==
  ASSUME Shape, NEW p \in Passes, NEW d, Hold(p, d) \/ Prepare(p, d)
  PROVE  LET k == <<d.business, passes[p].window>>
         IN /\ Turn(p, d) /\ k \in Keys /\ d \in Due
            /\ UNCHANGED <<owner, arrived, stopped, clock, stage, paidBy, crashes>>
            /\ \A j \in Keys : j # k => sweeps'[j] = sweeps[j]
            /\ sweeps[k] # NoSweep => sweeps'[k] = sweeps[k]
            /\ \E s \in Sweep :
                 /\ sweeps'[k] \in {s, sweeps[k]} /\ s.gross = d.owed /\ ~s.noted /\ ~s.old
                 /\ \/ Hold(p, d) /\ s.state = "held" /\ s.claims = d.list
                    \/ Prepare(p, d) /\ s.state = "prepared" /\ s.claims = {}
<1> DEFINE k == <<d.business, passes[p].window>>
           held == Written(p, d, "held", Obstacle(p, d))
           prepared == Written(p, d, "prepared", "none")
<1>1. Turn(p, d) /\ UNCHANGED <<owner, arrived, stopped, clock, stage, paidBy, crashes>>
  BY DEF Hold, Prepare, money, payouts
<1>2. k \in Keys /\ d \in Due /\ Obstacle(p, d) \in Codes
  BY <1>1, TurnIs
<1>3. /\ held \in Sweep /\ held.gross = d.owed /\ held.state = "held" /\ held.claims = d.list
      /\ ~held.noted /\ ~held.old
  <2> DEFINE code == Obstacle(p, d)
  <2> HIDE DEF code
  <2> QED BY <1>2, WrittenIs DEF code
<1>4. /\ prepared \in Sweep /\ prepared.gross = d.owed /\ prepared.state = "prepared" /\ prepared.claims = {}
      /\ ~prepared.noted /\ ~prepared.old
  BY <1>2, WrittenIs DEF Codes
<1>5. ASSUME NEW s, Insert(k, s)
      PROVE  /\ \A j \in Keys : j # k => sweeps'[j] = sweeps[j]
             /\ sweeps[k] # NoSweep => sweeps'[k] = sweeps[k]
             /\ sweeps'[k] \in {s, sweeps[k]}
  BY <1>2, <1>5 DEF Insert, Shape, TableOK
<1>6. CASE Hold(p, d)
  <2>1. Insert(k, held) \/ UNCHANGED sweeps
    BY <1>6 DEF Hold
  <2> HIDE DEF k, held
  <2>2. CASE Insert(k, held)
    BY <1>1, <1>2, <1>3, <1>5, <1>6, <2>2 DEF k
  <2>3. CASE UNCHANGED sweeps
    BY <1>1, <1>2, <1>3, <1>6, <2>3 DEF k
  <2> QED BY <2>1, <2>2, <2>3
<1>7. CASE Prepare(p, d)
  <2>1. Insert(k, prepared)
    BY <1>7 DEF Prepare
  <2> HIDE DEF k, prepared
  <2> QED BY <1>1, <1>2, <1>4, <1>5, <1>7, <2>1 DEF k
<1> QED BY <1>6, <1>7

\* A payout keeps its row, and a send alone makes one.
LEMMA PayoutsLast ==
  ASSUME Shape, Next
  PROVE  /\ \A k \in Keys : Lasts(k)
         /\ \A k \in Keys : stage[k] = "none" /\ MayPay(k)' =>
              \E p \in Passes : \E d \in passes[p].due : Send(p, d) /\ k = <<d.business, passes[p].window>>
<1> DEFINE Goal ==
      /\ \A k \in Keys : Lasts(k)
      /\ \A k \in Keys : stage[k] = "none" /\ MayPay(k)' =>
           \E p \in Passes : \E d \in passes[p].due : Send(p, d) /\ k = <<d.business, passes[p].window>>
<1> SUFFICES Goal
  OBVIOUS
<1>1. ASSUME UNCHANGED <<stage, paidBy>>, \A k \in Keys : Lasts(k) PROVE Goal
  <2>1. \A k \in Keys : stage[k] = "none" => paidBy[k] = {}
    BY DEF Shape, PayoutsOK
  <2> QED BY <1>1, <2>1 DEF MayPay
<1>2. ASSUME NEW p \in Passes, Begin(p) PROVE Goal
  <2>1. UNCHANGED <<stage, paidBy>> /\ \A k \in Keys : sweeps'[k] = Reconciled(k)
    BY <1>2, BeginIs
  <2>2. \A k \in Keys : sweeps[k] # NoSweep => /\ sweeps'[k] \in Sweep /\ sweeps'[k].gross = sweeps[k].gross
                                               /\ sweeps'[k].claims = sweeps[k].claims
    BY <2>1, ReconciledIs
  <2>3. \A k \in Keys : Lasts(k)
    BY <2>1, <2>2 DEF Lasts, Shape, TableOK, MayPay, Sweep, States, NoSweep
  <2> HIDE DEF Goal
  <2> QED BY <1>1, <2>1, <2>3
<1>3. ASSUME NEW p \in Passes, Thinks(p) PROVE Goal
  <2> HIDE DEF Goal
  <2> QED BY <1>1, <1>3, ThinksIs, LastsWhenRowsDo
<1>4. ASSUME NEW p \in Passes, NEW d \in passes[p].due, Hold(p, d) \/ Prepare(p, d) PROVE Goal
  <2> DEFINE k == <<d.business, passes[p].window>>
  <2>1. /\ k \in Keys /\ UNCHANGED <<stage, paidBy>> /\ \A j \in Keys : j # k => sweeps'[j] = sweeps[j]
        /\ sweeps[k] # NoSweep => sweeps'[k] = sweeps[k]
    BY <1>4, ChoosingIs
  <2>2. \A j \in Keys : Lasts(j)
    <3> HIDE DEF k
    <3> QED BY <2>1 DEF Lasts, Shape, TableOK, MayPay
  <2> HIDE DEF Goal
  <2> QED BY <1>1, <2>1, <2>2
<1>5. ASSUME NEW p \in Passes, NEW d \in passes[p].due, Claim(p, d) PROVE Goal
  <2> DEFINE k == <<d.business, passes[p].window>>
             s == [sweeps[k] EXCEPT !.claims = d.list]
  <2>1. /\ k \in Keys /\ UNCHANGED <<stage, paidBy>> /\ sweeps' = [sweeps EXCEPT ![k] = s]
        /\ Works(p, d, "claiming")
    BY <1>5, ClaimIs
  <2>2. stage[k] = "none"
    BY <2>1, WorksIs DEF AtASweep
  <2>3. \A j \in Keys : Lasts(j)
    <3> HIDE DEF k, s
    <3> QED BY <2>1, <2>2 DEF Lasts, Shape, TableOK, MayPay
  <2> HIDE DEF Goal
  <2> QED BY <1>1, <2>1, <2>3
<1>6. ASSUME NEW p \in Passes, NEW d \in passes[p].due, Send(p, d) PROVE Goal
  <2> DEFINE k == <<d.business, passes[p].window>>
  <2>1. /\ k \in Keys /\ stage[k] = "none" /\ UNCHANGED <<sweeps, paidBy>>
        /\ \E w \in {"waiting", "flight"} : stage' = [stage EXCEPT ![k] = w]
    BY <1>6, SendIs
  <2>2. \A j \in Keys : j # k => stage'[j] = stage[j]
    <3> HIDE DEF k
    <3> QED BY <2>1 DEF Shape, PayoutsOK
  <2>3. \A j \in Keys : Lasts(j)
    <3> HIDE DEF k
    <3> QED BY <2>1, <2>2 DEF Lasts, Shape, TableOK, MayPay
  <2>4. \A j \in Keys : stage[j] = "none" /\ MayPay(j)' => j = k
    <3> HIDE DEF k
    <3> QED BY <2>1, <2>2 DEF Shape, PayoutsOK, MayPay
  <2> QED BY <1>6, <2>3, <2>4
<1>7. ASSUME NEW p \in Passes, NEW d \in passes[p].due, Note(p, d) PROVE Goal
  <2> DEFINE k == <<d.business, passes[p].window>>
             s == [sweeps[k] EXCEPT !.state = Outcome(k), !.noted = TRUE]
  <2>1. /\ k \in Keys /\ UNCHANGED <<stage, paidBy>> /\ WherePrepared(k, s) /\ s \in Sweep
        /\ s.gross = sweeps[k].gross /\ s.claims = sweeps[k].claims /\ sweeps[k] \in Sweep
        /\ stage[k] # "none" /\ s.noted
    BY <1>7, NoteIs
  <2> HIDE DEF k, s
  <2>2. sweeps'[k] \in {s, sweeps[k]} /\ \A j \in Keys : j # k => sweeps'[j] = sweeps[j]
    BY <2>1, WherePreparedIs
  <2>3. \A j \in Keys : Lasts(j)
    <3>1. s # NoSweep
      BY <2>1 DEF Sweep, States, NoSweep
    <3> QED BY <2>1, <2>2, <3>1, LastsWhenOneIsWritten
  <2> HIDE DEF Goal
  <2> QED BY <1>1, <2>1, <2>3
<1>8. ASSUME NEW p \in Passes, NEW d \in passes[p].due, Threw(p, d) PROVE Goal
  <2> DEFINE k == <<d.business, passes[p].window>>
  <2>1. PICK state \in {"held", "failed"} : LET s == Refused(sweeps[k], state) IN
        /\ k \in Keys /\ UNCHANGED <<stage, paidBy>> /\ WherePrepared(k, s) /\ s \in Sweep
        /\ s.gross = sweeps[k].gross /\ s.claims = sweeps[k].claims /\ sweeps[k] \in Sweep
        /\ s.state = state
    BY <1>8, ThrewIs
  <2> DEFINE s == Refused(sweeps[k], state)
  <2> HIDE DEF k, s
  <2>2. sweeps'[k] \in {s, sweeps[k]} /\ \A j \in Keys : j # k => sweeps'[j] = sweeps[j]
    BY <2>1, WherePreparedIs DEF s
  <2>3. \A j \in Keys : Lasts(j)
    <3>1. s # NoSweep
      BY <2>1 DEF Sweep, States, NoSweep, s
    <3> QED BY <2>1, <2>2, <3>1, LastsWhenOneIsWritten DEF s
  <2> HIDE DEF Goal
  <2> QED BY <1>1, <2>1, <2>3
<1>9. ASSUME NEW k \in Keys, FiveMinutesPass(k) PROVE Goal
  <2> DEFINE s == [sweeps[k] EXCEPT !.old = TRUE]
  <2>1. sweeps' = [sweeps EXCEPT ![k] = s] /\ UNCHANGED <<stage, paidBy>> /\ sweeps[k].state = "prepared"
    BY <1>9 DEF FiveMinutesPass, payouts
  <2>2. sweeps[k] \in Sweep
    BY <2>1 DEF Shape, TableOK, NoSweep
  <2>3. s # NoSweep /\ s.gross = sweeps[k].gross /\ s.claims = sweeps[k].claims
    BY <2>2 DEF Sweep, States, NoSweep
  <2> HIDE DEF s
  <2>4. sweeps'[k] = s /\ \A j \in Keys : j # k => sweeps'[j] = sweeps[j]
    BY <2>1 DEF Shape, TableOK
  <2>5. \A j \in Keys : Lasts(j)
    BY <2>1, <2>3, <2>4, LastsWhenOneIsWritten
  <2> HIDE DEF Goal
  <2> QED BY <1>1, <2>1, <2>5
<1>10. ASSUME NEW k \in Keys, PayoutMoves(k) PROVE Goal
  <2>1. /\ UNCHANGED sweeps /\ \A j \in Keys : MayPay(j)' => MayPay(j)
    BY <1>10, PayoutMovesIs
  <2>2. \A j \in Keys : stage[j] = "none" => ~MayPay(j)
    BY DEF MayPay, Shape, PayoutsOK
  <2> QED BY <2>1, <2>2 DEF Lasts, Shape, TableOK
<1>11. ASSUME UNCHANGED <<sweeps, stage, paidBy>> PROVE Goal
  <2> HIDE DEF Goal
  <2> QED BY <1>1, <1>11, LastsWhenRowsDo
<1>12. CASE \E p \in Passes : Step(p)
  <2> HIDE DEF Goal
  <2> QED BY <1>2, <1>3, <1>4, <1>5, <1>6, <1>7, <1>8, <1>12, StepIs
<1>13. CASE Outside
  <2>1. \/ UNCHANGED <<sweeps, stage, paidBy>>
        \/ \E k \in Keys : FiveMinutesPass(k) \/ PayoutMoves(k)
    BY <1>13 DEF Outside, Arrives, Assign, SetStopped, ClockMoves, Crash, payouts
  <2> HIDE DEF Goal
  <2> QED BY <1>9, <1>10, <1>11, <2>1
<1> HIDE DEF Goal
<1> QED BY <1>12, <1>13 DEF Next

(***************************************************************************)
(* The float.  What the payouts a pass handed over may take, and what the  *)
(* pass still counts as left, together fit the float it read; the payout   *)
(* it is noting is not counted yet, and what is left covers it.            *)
(***************************************************************************)

Cost == [k \in Keys |-> IF MayPay(k) THEN NetOf(sweeps[k].gross) + Charge ELSE 0]

Counted(x) == IF x.at = "noting" THEN x.handed \ {KeyOf(x)} ELSE x.handed

Covered(x, cost) ==
  x.left # Unknown =>
    x.float # Unknown /\ SumFunctionOnSet(cost, Counted(x)) + x.left <= x.float

FloatInv == \A p \in Working : Covered(passes[p], Cost)

\* What a pass handed over exists, so it costs a number.
LEMMA CostIs ==
  ASSUME Shape, NEW p \in Working
  PROVE  LET x == passes[p]
         IN /\ x.handed \subseteq Keys /\ IsFiniteSet(x.handed)
            /\ \A k \in x.handed :
                 /\ stage[k] # "none" /\ sweeps[k] \in Sweep /\ Cost[k] \in Nat
                 /\ Cost[k] <= NetOf(sweeps[k].gross) + Charge
                 /\ ~MayPay(k) => Cost[k] = 0
<1> DEFINE x == passes[p]
<1>1. x \in Pass /\ PassOK(x, sweeps, stage)
  BY DEF Shape, Working
<1>2. x.handed \subseteq Keys /\ \A k \in x.handed : stage[k] # "none"
  BY <1>1 DEF PassOK, HandedOver, Pass
<1>3. \A k \in x.handed : sweeps[k] \in Sweep /\ sweeps[k] # NoSweep
  BY <1>2 DEF Shape, TableOK
<1>4. IsFiniteSet(x.handed)
  <2>1. x.handed \subseteq {k \in Keys : sweeps[k] # NoSweep}
    BY <1>2, <1>3
  <2> QED BY <2>1, FS_Subset DEF Shape, TableOK
<1>5. ASSUME NEW k \in x.handed
      PROVE  /\ Cost[k] \in Nat /\ Cost[k] <= NetOf(sweeps[k].gross) + Charge
             /\ ~MayPay(k) => Cost[k] = 0
  <2>1. NetOf(sweeps[k].gross) \in Nat /\ Charge \in Nat
    BY <1>3, NetIsPart, SweepAssumption DEF Sweep, SweepAssumption
  <2> QED BY <1>2, <2>1 DEF Cost
<1> QED BY <1>2, <1>3, <1>4, <1>5

\* A step never makes what was handed over cost more.
LEMMA CostLasts ==
  ASSUME Shape, NEW p \in Working, \A k \in Keys : Lasts(k), NEW S \in SUBSET passes[p].handed
  PROVE  /\ SumFunctionOnSet(Cost', S) <= SumFunctionOnSet(Cost, S)
         /\ SumFunctionOnSet(Cost, S) \in Int /\ SumFunctionOnSet(Cost', S) \in Int
<1>1. S \subseteq Keys /\ IsFiniteSet(S) /\ \A k \in S : stage[k] # "none" /\ sweeps[k] \in Sweep /\ Cost[k] \in Nat
  BY CostIs, FS_Subset
<1>2. ASSUME NEW k \in S PROVE Cost'[k] \in Int /\ Cost[k] \in Int /\ Cost'[k] <= Cost[k]
  <2>1. sweeps'[k].gross = sweeps[k].gross /\ (MayPay(k)' => MayPay(k))
    BY <1>1 DEF Lasts
  <2>2. NetOf(sweeps[k].gross) \in Nat /\ Charge \in Nat
    BY <1>1, NetIsPart, SweepAssumption DEF Sweep, SweepAssumption
  <2> QED BY <1>1, <2>1, <2>2 DEF Cost
<1>3. SumFunctionOnSet(Cost', S) <= SumFunctionOnSet(Cost, S)
  BY <1>1, <1>2, SumGrows
<1>4. SumFunctionOnSet(Cost, S) \in Int /\ SumFunctionOnSet(Cost', S) \in Int
  BY <1>1, <1>2, SumInt
<1> QED BY <1>3, <1>4

\* The invariant of the float implies the property.
LEMMA FloatFits ==
  ASSUME Shape, FloatInv PROVE WithinFloat
<1> SUFFICES ASSUME NEW p \in Passes, passes[p] # Idle, passes[p].handed # {}
             PROVE  SumFunction([k \in passes[p].handed |->
                      IF MayPay(k) THEN NetOf(sweeps[k].gross) + Charge ELSE 0]) <= passes[p].float
  BY DEF WithinFloat
<1> DEFINE x == passes[p]
           g == [k \in x.handed |-> IF MayPay(k) THEN NetOf(sweeps[k].gross) + Charge ELSE 0]
           K == KeyOf(x)
<1>1. p \in Working /\ x \in Pass /\ PassOK(x, sweeps, stage)
  BY PassIs
<1>2. /\ x.handed \subseteq Keys /\ IsFiniteSet(x.handed)
      /\ \A k \in x.handed : sweeps[k] \in Sweep /\ Cost[k] \in Nat
                             /\ Cost[k] <= NetOf(sweeps[k].gross) + Charge
  BY <1>1, CostIs
<1>3. SumFunction(g) = SumFunctionOnSet(Cost, x.handed)
  <2>1. ASSUME NEW k \in x.handed PROVE g[k] \in Int /\ g[k] = Cost[k]
    <3>1. g[k] = IF MayPay(k) THEN NetOf(sweeps[k].gross) + Charge ELSE 0
      OBVIOUS
    <3>2. k \in Keys /\ Cost[k] \in Nat
      BY <1>2
    <3>3. Cost[k] = IF MayPay(k) THEN NetOf(sweeps[k].gross) + Charge ELSE 0
      BY <3>2 DEF Cost
    <3> QED BY <3>1, <3>2, <3>3
  <2>2. DOMAIN g = x.handed
    OBVIOUS
  <2> HIDE DEF g
  <2> QED BY <1>2, <2>1, <2>2, SumOverDomain, SumSame
<1>4. x.left \in Nat /\ x.left # Unknown /\ x.float \in Nat
  BY <1>1, SweepAssumption DEF PassOK, Orderly, Pass, FloatInv, Covered, SweepAssumption
<1>5. SumFunctionOnSet(Cost, Counted(x)) + x.left <= x.float
  BY <1>1, <1>4 DEF FloatInv, Covered
<1>6. CASE x.at # "noting"
  <2>1. Counted(x) = x.handed
    BY <1>6 DEF Counted
  <2>2. SumFunctionOnSet(Cost, x.handed) \in Nat
    BY <1>2, SumNat
  <2> HIDE DEF g, x
  <2> QED BY <1>3, <1>4, <1>5, <2>1, <2>2 DEF g, x
<1>7. CASE x.at = "noting"
  <2>1. Counted(x) = x.handed \ {K}
    BY <1>7 DEF Counted
  <2>2. /\ K \in x.handed
        /\ \E d \in x.due : NetOf(d.owed) + Charge <= x.left /\ sweeps[K].gross = d.owed
    BY <1>1, <1>7 DEF PassOK, Orderly, Sending, AtASweep
  <2>3. Cost[K] <= x.left
    <3>1. NetOf(sweeps[K].gross) + Charge <= x.left /\ Cost[K] \in Nat
          /\ Cost[K] <= NetOf(sweeps[K].gross) + Charge /\ sweeps[K].gross \in Nat
      BY <1>2, <2>2 DEF Sweep
    <3>2. NetOf(sweeps[K].gross) + Charge \in Nat
      <4>1. NetOf(sweeps[K].gross) \in Nat
        BY <3>1, NetIsPart
      <4> QED BY <4>1, SweepAssumption DEF SweepAssumption
    <3> HIDE DEF K, x
    <3> QED BY <1>4, <3>1, <3>2
  <2>4. SumFunctionOnSet(Cost, x.handed) = Cost[K] + SumFunctionOnSet(Cost, x.handed \ {K})
    <3>1. \A k \in x.handed : Cost[k] \in Int
      BY <1>2
    <3> HIDE DEF K, x
    <3> QED BY <1>2, <2>2, <3>1, SumTakes
  <2>5. Cost[K] \in Nat /\ SumFunctionOnSet(Cost, x.handed \ {K}) \in Nat
    <3>1. \A k \in x.handed \ {K} : Cost[k] \in Nat
      BY <1>2
    <3>2. IsFiniteSet(x.handed \ {K})
      BY <1>2, FS_Subset
    <3> HIDE DEF K, x
    <3> QED BY <1>2, <2>2, <3>1, <3>2, SumNat
  <2> HIDE DEF g, x, K
  <2> QED BY <1>3, <1>4, <1>5, <2>1, <2>3, <2>4, <2>5 DEF g, x
<1> QED BY <1>6, <1>7

\* A pass that goes on with what it handed over, and counts no more as left.
LEMMA CoveredGoesOn ==
  ASSUME Shape, NEW p \in Working, \A k \in Keys : Lasts(k), Covered(passes[p], Cost),
         NEW z, z.float = passes[p].float, Counted(z) = Counted(passes[p]),
         z.left # Unknown => passes[p].left # Unknown /\ z.left \in Nat /\ z.left <= passes[p].left
  PROVE  Covered(z, Cost')
<1> DEFINE x == passes[p]
<1>1. x \in Pass /\ Orderly(x)
  BY DEF Shape, Working, PassOK
<1>2. SUFFICES ASSUME z.left # Unknown PROVE Covered(z, Cost')
  BY DEF Covered
<1>3. Counted(x) \subseteq x.handed
  BY DEF Counted
<1> DEFINE old == SumFunctionOnSet(Cost, Counted(x))
           new == SumFunctionOnSet(Cost', Counted(x))
<1>4. new <= old /\ old \in Int /\ new \in Int
  BY <1>3, CostLasts
<1>5. x.left # Unknown /\ x.left \in Nat /\ x.float # Unknown /\ old + x.left <= x.float /\ x.float \in Nat
  BY <1>1, <1>2, SweepAssumption DEF Covered, Orderly, Pass, SweepAssumption
<1> HIDE DEF old, new
<1>6. new + z.left <= x.float
  BY <1>2, <1>4, <1>5
<1> QED BY <1>5, <1>6 DEF new, Covered

\* A step of a pass moves no other pass.
LEMMA OtherPassesStay ==
  ASSUME Shape, NEW p \in Passes, Step(p), NEW q \in Passes, q # p
  PROVE  passes'[q] = passes[q]
<1>0. q \in DOMAIN passes
  BY DEF Shape
<1>1. ASSUME NEW x, passes' = [passes EXCEPT ![p] = x] PROVE passes'[q] = passes[q]
  BY <1>0, <1>1
<1>2. CASE Begin(p) \/ Consider(p) \/ ReadingEnds(p) \/ End(p)
  BY <1>1, <1>2 DEF Begin, Consider, ReadingEnds, End
<1>3. ASSUME NEW d, Skip(p, d) \/ Hold(p, d) \/ Note(p, d) \/ Threw(p, d) \/ Claim(p, d) \/ Send(p, d)
      PROVE  passes'[q] = passes[q]
  BY <1>0, <1>3 DEF Skip, Hold, Note, Threw, Claim, Send, NextBusiness
<1>4. ASSUME NEW d, Prepare(p, d) PROVE passes'[q] = passes[q]
  BY <1>0, <1>4 DEF Prepare, NextBusiness
<1>5. ASSUME NEW b, Read(p, b) PROVE passes'[q] = passes[q]
  BY <1>0, <1>5 DEF Read, ReadPayments, ReadClaimedSum, ReadClaimedList, Got
<1> QED BY <1>2, <1>3, <1>4, <1>5, StepIs DEF Thinks

\* Every step keeps the invariant of the float.
LEMMA FloatStep ==
  ASSUME Shape, FloatInv, Next, "lateThrow" \notin Around PROVE FloatInv'
<1>0. \A k \in Keys : Lasts(k)
  BY PayoutsLast
<1>1. ASSUME NEW q \in Working', passes'[q] = passes[q] PROVE Covered(passes'[q], Cost')
  <2>1. q \in Working
    BY <1>1 DEF Working
  <2>2. Orderly(passes[q])
    BY <2>1 DEF Shape, PassOK
  <2>3. passes[q].left # Unknown => passes[q].left \in Nat
    BY <2>2 DEF Orderly
  <2> QED BY <1>0, <1>1, <2>1, <2>3, CoveredGoesOn DEF FloatInv
<1>2. ASSUME NEW p \in Passes, Step(p), p \in Working'
      PROVE  Covered(passes'[p], Cost')
  <2> DEFINE x == passes[p]
             z == passes'[p]
  <2>0. z # Idle
    BY <1>2 DEF Working
  <2>1. ASSUME z.at = "reading" PROVE Covered(z, Cost')
    <3>1. Shape'
      BY <1>2, ShapeStep DEF Next
    <3>2. Orderly(z)
      BY <1>2, <3>1 DEF Shape, PassOK
    <3> QED BY <2>1, <3>2 DEF Covered, Orderly
  <2>2. ASSUME NEW d \in x.due, p \in Working, x.at # "reading", NEW left \in Nat \cup {Unknown},
               left = Unknown => x.handed = {},
               left # Unknown => x.left # Unknown /\ left <= x.left,
               x.at # "noting", passes' = NextBusiness(p, d, left)
        PROVE  Covered(z, Cost')
    <3>1. x \in Pass /\ Orderly(x)
      BY <2>2 DEF Shape, Working, PassOK
    <3>2. z = Done(x, d, left)
      BY <2>2, NextBusinessIs DEF Shape
    <3>3. z.at = "choosing" /\ z.handed = x.handed /\ z.left = left /\ z.float = x.float
      BY <2>2, <3>1, <3>2, DoneIs
    <3>4. Counted(z) = Counted(x)
      BY <2>2, <3>3 DEF Counted
    <3> HIDE DEF z
    <3> QED BY <1>0, <2>2, <3>3, <3>4, CoveredGoesOn DEF FloatInv
  <2>3. CASE Begin(p)
    BY <2>1, <2>3, BeginIs DEF Shape
  <2>4. CASE Thinks(p)
    <3>1. ASSUME NEW b \in Businesses, Read(p, b) PROVE Covered(z, Cost')
      <4>1. x.at = "reading"
        BY <3>1 DEF Read, ReadPayments, ReadClaimedSum, ReadClaimedList, Got, Reads
      <4>2. x \in Pass
        BY <4>1, NotAtASweep
      <4>3. \E y : passes' = [passes EXCEPT ![p].read = y]
        BY <3>1 DEF Read, ReadPayments, ReadClaimedSum, ReadClaimedList, Got
      <4>4. z.at = "reading"
        BY <4>1, <4>2, <4>3 DEF Shape, Pass
      <4> QED BY <2>1, <4>4
    <3>2. CASE Consider(p)
      <4>1. x.at = "reading" /\ x.read.got # {} /\ z = Considered(x)
        BY <3>2 DEF Consider, Shape
      <4>2. x \in Pass /\ Orderly(x)
        BY <4>1, NotAtASweep
      <4> QED BY <2>1, <4>1, <4>2, ConsideredIs
    <3>3. CASE ReadingEnds(p)
      <4>1. x.at = "reading"
        BY <3>3 DEF ReadingEnds
      <4>2. x \in Pass /\ x.handed = {}
        BY <4>1, NotAtASweep DEF Orderly
      <4>3. PICK f \in Floats \cup {Unknown} : z = [x EXCEPT !.at = "choosing", !.float = f, !.left = f]
        BY <3>3 DEF ReadingEnds, Shape
      <4>4. z.at = "choosing" /\ z.float = f /\ z.left = f /\ z.handed = {}
        BY <4>2, <4>3 DEF Pass
      <4>5. SumFunctionOnSet(Cost', Counted(z)) = 0
        <5>1. Counted(z) = {}
          BY <4>4 DEF Counted
        <5> QED BY <5>1, SumEmpty
      <4>6. f # Unknown => f \in Nat /\ 0 + f <= f
        BY SweepAssumption DEF SweepAssumption
      <4> DEFINE sum == SumFunctionOnSet(Cost', Counted(z))
      <4>7. f # Unknown => sum + f <= f
        BY <4>5, <4>6
      <4> HIDE DEF sum
      <4>8. z.left # Unknown => z.float # Unknown /\ sum + z.left <= z.float
        BY <4>4, <4>7
      <4> QED BY <4>8 DEF Covered, sum
    <3>4. CASE End(p)
      BY <2>0, <3>4 DEF End, Shape
    <3>5. ASSUME NEW d \in x.due, Skip(p, d) PROVE Covered(z, Cost')
      <4>1. /\ x.at = "choosing" /\ x # Idle /\ x.left \in Nat \cup {Unknown}
            /\ x.left = Unknown => x.handed = {}
        BY <3>5, TurnIs DEF Skip
      <4>2. p \in Working /\ passes' = NextBusiness(p, d, x.left)
        BY <3>5, <4>1 DEF Skip, Working
      <4>3. x.left # Unknown => x.left <= x.left
        BY <4>1
      <4> HIDE DEF z
      <4> QED BY <4>1, <4>2, <4>3, <2>2
    <3> QED BY <2>4, <3>1, <3>2, <3>3, <3>4, <3>5 DEF Thinks
  <2>5. ASSUME NEW d \in x.due, Hold(p, d) PROVE Covered(z, Cost')
    <3>1. /\ x.at = "choosing" /\ x # Idle /\ x.left \in Nat \cup {Unknown}
          /\ x.left = Unknown => x.handed = {}
      BY <2>5, TurnIs DEF Hold
    <3>2. p \in Working /\ passes' = NextBusiness(p, d, x.left)
      BY <2>5, <3>1 DEF Hold, Working
    <3>3. x.left # Unknown => x.left <= x.left
      BY <3>1
    <3> HIDE DEF z
    <3> QED BY <3>1, <3>2, <3>3, <2>2
  <2>6. ASSUME NEW d \in x.due, Prepare(p, d) PROVE Covered(z, Cost')
    <3> DEFINE k == <<d.business, x.window>>
               left == IF sweeps[k].state \in Claiming THEN Spent(p, d) ELSE x.left
    <3>1. Turn(p, d) /\ Obstacle(p, d) = "none"
      BY <2>6 DEF Prepare
    <3>2. /\ x.at = "choosing" /\ x # Idle /\ x.left \in Nat /\ NetOf(d.owed) + Charge <= x.left
          /\ x.left # Unknown /\ Spent(p, d) \in Nat /\ Spent(p, d) # Unknown /\ d \in Due
      BY <3>1, TurnIs
    <3>3. p \in Working /\ x \in Pass
      BY <3>2, PassIs
    <3>4. NetOf(d.owed) \in Nat /\ Charge \in Nat
      BY <3>2, NetIsPart, SweepAssumption DEF Due, SweepAssumption
    <3>5. left \in Nat /\ left # Unknown /\ left <= x.left
      BY <3>2, <3>4 DEF Spent
    <3>6. CASE passes' = NextBusiness(p, d, left)
      <4> HIDE DEF z, left
      <4> QED BY <2>2, <3>2, <3>3, <3>5, <3>6
    <3>7. CASE passes' = [passes EXCEPT ![p].at = "claiming", ![p].now = d.business]
      <4>1. z = [x EXCEPT !.at = "claiming", !.now = d.business]
        BY <3>7 DEF Shape
      <4>2. z.left = x.left /\ z.float = x.float /\ z.handed = x.handed /\ z.at = "claiming"
        BY <3>3, <4>1 DEF Pass
      <4>3. Counted(z) = Counted(x)
        BY <3>2, <4>2 DEF Counted
      <4>4. z.left <= x.left
        BY <3>2, <4>2
      <4> HIDE DEF z
      <4> QED BY <1>0, <3>2, <3>3, <4>2, <4>3, <4>4, CoveredGoesOn DEF FloatInv
    <3> QED BY <2>6, <3>6, <3>7 DEF Prepare
  <2>7. ASSUME NEW d \in x.due, Claim(p, d) PROVE Covered(z, Cost')
    <3>1. /\ Works(p, d, "claiming") /\ passes' = [passes EXCEPT ![p] = [x EXCEPT !.at = "calling"]]
          /\ LET y == [x EXCEPT !.at = "calling"]
             IN  y.at = "calling" /\ y.left = x.left /\ y.handed = x.handed /\ y.float = x.float
      BY <2>7, ClaimIs
    <3>2. x.at = "claiming" /\ p \in AtWork /\ x.left \in Nat /\ x.left # Unknown
      BY <3>1, WorksIs DEF AtASweep
    <3>3. z.at = "calling" /\ z.left = x.left /\ z.handed = x.handed /\ z.float = x.float
      BY <3>1 DEF Shape
    <3>4. Counted(z) = Counted(x) /\ p \in Working /\ z.left <= x.left
      BY <3>2, <3>3 DEF Counted, AtWork
    <3> HIDE DEF z
    <3> QED BY <1>0, <3>2, <3>3, <3>4, CoveredGoesOn DEF FloatInv
  <2>8. ASSUME NEW d \in x.due, Send(p, d) PROVE Covered(z, Cost')
    <3> DEFINE k == <<d.business, x.window>>
               y == HandsOver(x, k)
    <3>1. /\ Works(p, d, "calling") /\ k \in Keys /\ stage[k] = "none"
          /\ passes' = [passes EXCEPT ![p] = y]
          /\ y.at = "noting" /\ y.left = x.left /\ y.handed = x.handed \cup {k}
          /\ y.float = x.float /\ KeyOf(y) = k
      BY <2>8, SendIs
    <3>2. x.at = "calling" /\ p \in AtWork /\ x.left \in Nat /\ x.left # Unknown
      BY <3>1, WorksIs DEF AtASweep
    <3>3. z = y
      BY <3>1 DEF Shape
    <3> HIDE DEF y, k, z
    <3>4. p \in Working /\ z.left <= x.left
      BY <3>1, <3>2, <3>3 DEF AtWork
    <3>5. k \notin x.handed
      BY <3>1, <3>4, CostIs
    <3>6. Counted(z) = Counted(x)
      BY <3>1, <3>2, <3>3, <3>5 DEF Counted
    <3> QED BY <1>0, <3>1, <3>2, <3>3, <3>4, <3>6, CoveredGoesOn DEF FloatInv
  <2>9. ASSUME NEW d \in x.due, Note(p, d) PROVE Covered(z, Cost')
    <3> DEFINE k == <<d.business, x.window>>
               left == IF Outcome(k) = "failed" THEN x.left ELSE Spent(p, d)
    <3>1. /\ Works(p, d, "noting") /\ passes' = NextBusiness(p, d, left)
          /\ left \in Nat /\ left # Unknown
      BY <2>9, NoteIs
    <3>2. /\ x.at = "noting" /\ p \in AtWork /\ k = KeyOf(x) /\ k \in Keys /\ sweeps[k].gross = d.owed
          /\ x.left \in Nat /\ x.left # Unknown /\ d \in Due /\ NetOf(d.owed) + Charge <= x.left
      BY <3>1, WorksIs DEF AtASweep
    <3>3. p \in Working /\ x \in Pass /\ Orderly(x) /\ k \in x.handed
      BY <3>2 DEF AtWork, Shape, Working, PassOK, Sending
    <3>4. z.at = "choosing" /\ z.left = left /\ z.handed = x.handed /\ z.float = x.float
      <4>1. z = Done(x, d, left)
        BY <3>1, NextBusinessIs DEF Shape
      <4> HIDE DEF left, z
      <4> QED BY <3>1, <3>2, <3>3, <4>1, DoneIs
    <3>5. NetOf(d.owed) \in Nat /\ Charge \in Nat
      BY <3>2, NetIsPart, SweepAssumption DEF Due, SweepAssumption
    <3>6. /\ IsFiniteSet(x.handed) /\ \A j \in x.handed : Cost[j] \in Nat
          /\ Cost[k] <= NetOf(d.owed) + Charge /\ (~MayPay(k) => Cost[k] = 0)
      BY <3>2, <3>3, CostIs
    <3>7. Cost[k] <= x.left - left
      <4>1. CASE Outcome(k) = "failed"
        <5>1. stage[k] = "failed"
          BY <4>1 DEF Outcome
        <5>2. ~MayPay(k)
          BY <5>1, <3>2 DEF MayPay, Shape, PayoutsOK
        <5> QED BY <3>2, <3>6, <4>1, <5>2
      <4>2. CASE Outcome(k) # "failed"
        <5>1. left = x.left - (NetOf(d.owed) + Charge)
          BY <4>2 DEF Spent
        <5> HIDE DEF left, k, x
        <5> QED BY <3>2, <3>5, <3>6, <5>1, <3>3
      <4> QED BY <4>1, <4>2
    <3> DEFINE all == SumFunctionOnSet(Cost, x.handed)
               old == SumFunctionOnSet(Cost, x.handed \ {k})
               new == SumFunctionOnSet(Cost', x.handed)
    <3>8. all = Cost[k] + old
      <4>1. \A j \in x.handed : Cost[j] \in Int
        BY <3>6
      <4> HIDE DEF k, x
      <4> QED BY <3>3, <3>6, <4>1, SumTakes
    <3>9. new <= all /\ all \in Int /\ new \in Int /\ old \in Int
      <4>1. x.handed \ {k} \in SUBSET x.handed
        OBVIOUS
      <4> HIDE DEF k, x
      <4> QED BY <1>0, <3>3, <4>1, CostLasts DEF x
    <3>10. old + x.left <= x.float /\ x.float # Unknown /\ x.float \in Nat
      <4>1. Counted(x) = x.handed \ {k}
        BY <3>2 DEF Counted
      <4>2. Covered(x, Cost) /\ x.float \in Floats \cup {Unknown}
        BY <3>3 DEF FloatInv, Pass
      <4> HIDE DEF k, x
      <4> QED BY <3>2, <4>1, <4>2, SweepAssumption DEF Covered, SweepAssumption
    <3>11. Counted(z) = x.handed
      BY <3>4 DEF Counted
    <3>12. Cost[k] \in Nat
      BY <3>3, <3>6
    <3> HIDE DEF all, old, new, left, k, x, z
    <3>13. new + left <= x.float
      BY <3>1, <3>2, <3>7, <3>8, <3>9, <3>10, <3>12
    <3> QED BY <3>4, <3>10, <3>11, <3>13 DEF Covered, new
  <2>10. ASSUME NEW d \in x.due, Threw(p, d) PROVE Covered(z, Cost')
    <3>1. PICK at \in {"calling", "noting"} :
            /\ Works(p, d, at) /\ (at = "noting" => "lateThrow" \in Around)
            /\ passes' = NextBusiness(p, d, x.left) /\ x.left \in Nat /\ x.left # Unknown
      BY <2>10, ThrewIs
    <3>2. x.at = "calling" /\ p \in Working
      BY <3>1, WorksIs DEF AtASweep, AtWork
    <3>3. x.left <= x.left
      BY <3>1
    <3> HIDE DEF z
    <3> QED BY <2>2, <3>1, <3>2, <3>3
  <2> HIDE DEF z, x
  <2> QED BY <1>2, <2>3, <2>4, <2>5, <2>6, <2>7, <2>8, <2>9, <2>10, StepIs DEF x, z
<1>3. CASE \E p \in Passes : Step(p)
  <2>1. PICK p \in Passes : Step(p)
    BY <1>3
  <2>2. \A q \in Passes : q # p => passes'[q] = passes[q]
    BY <2>1, OtherPassesStay
  <2>3. \A q \in Working' : q \in Passes
    BY DEF Working
  <2> QED BY <1>1, <1>2, <2>1, <2>2, <2>3 DEF FloatInv
<1>4. CASE Outside
  <2>1. UNCHANGED passes \/ \A q \in Passes : passes'[q] = Idle
    BY <1>4 DEF Outside, Arrives, Assign, SetStopped, ClockMoves, FiveMinutesPass, PayoutMoves, Crash
  <2>2. \A q \in Working' : passes'[q] = passes[q]
    BY <2>1 DEF Working
  <2> QED BY <1>1, <2>2 DEF FloatInv
<1> QED BY <1>3, <1>4 DEF Next

(* The sweeps of one pass together take no more than the float it read,    *)
(* however many passes there are, whatever they read and whenever the      *)
(* server stops, unless a send throws after it wrote the payout.           *)
THEOREM FloatCoversPass ==
  ASSUME "lateThrow" \notin Around
  PROVE  Spec => []WithinFloat
<1>1. Init => Shape /\ FloatInv
  BY ShapeInit DEF Init, FloatInv, Working
<1>2. Shape /\ FloatInv /\ [Next]_vars => (Shape /\ FloatInv)'
  <2>1. FloatInv /\ UNCHANGED vars => FloatInv'
    BY DEF vars, FloatInv, Working, Covered, Cost, MayPay
  <2> QED BY <2>1, ShapeStep, ShapeStutters, FloatStep
<1> QED BY <1>1, <1>2, FloatFits, PTL DEF Spec

(***************************************************************************)
(* What the page calls failed or held has moved nothing.  A sweep that is  *)
(* prepared is in the hands of a pass, or no payout exists for it: so one  *)
(* that a later pass gives up as interrupted has none.                     *)
(***************************************************************************)

Mine(p, k) == p \in AtWork /\ KeyOf(passes[p]) = k
InHand(k) == \E p \in Passes : Mine(p, k)

RowTold(k) ==
  /\ InHand(k) => sweeps[k].state = "prepared" /\ ~sweeps[k].old
  /\ sweeps[k].state = "prepared" /\ stage[k] # "none" => InHand(k)
  /\ sweeps[k].state \in {"failed", "held"} => ~MayPay(k)

Told == \A k \in Keys : RowTold(k)

NoMishap == "midSend" \notin Around /\ "lateThrow" \notin Around /\ "slowSend" \notin Around

\* A step of a pass changes what is in its own hands only, and nothing is
\* in the hands of two.
LEMMA HandsMove ==
  ASSUME Shape, NEW p \in Passes, Step(p), NEW k
  PROVE  /\ ~Mine(p, k) /\ ~Mine(p, k)' => (InHand(k)' <=> InHand(k))
         /\ Mine(p, k) => InHand(k)
         /\ Mine(p, k)' => InHand(k)'
         /\ Mine(p, k) /\ ~Mine(p, k)' => ~InHand(k)'
<1>1. \A q \in Passes : q # p => passes'[q] = passes[q]
  BY OtherPassesStay
<1>2. \A q \in Passes : q # p => (Mine(q, k)' <=> Mine(q, k))
  BY <1>1 DEF Mine, AtWork, Working
<1>3. \A q \in Passes : Mine(p, k) /\ Mine(q, k) => q = p
  BY DEF Shape, Alone, Mine
<1> QED BY <1>2, <1>3 DEF InHand

\* A pass that thinks has no sweep in its hands.
LEMMA ThinksKeepsHands ==
  ASSUME Shape, NEW p \in Passes, Thinks(p)
  PROVE  p \notin AtWork /\ p \notin AtWork'
<1> DEFINE x == passes[p]
           z == passes'[p]
<1>0. Nobody \notin Businesses
  BY SweepAssumption DEF SweepAssumption
<1>1. ASSUME x.at \in {"reading", "choosing"} PROVE x \in Pass /\ x.now \notin Businesses /\ Orderly(x)
  BY <1>1, NotAtASweep
<1>2. ASSUME NEW b \in Businesses, Read(p, b) PROVE x.now \notin Businesses /\ z.now \notin Businesses
  <2>1. x.at = "reading" /\ \E y : passes' = [passes EXCEPT ![p].read = y]
    BY <1>2 DEF Read, ReadPayments, ReadClaimedSum, ReadClaimedList, Got, Reads
  <2>2. z.now = x.now
    BY <1>1, <2>1 DEF Shape, Pass
  <2> QED BY <1>1, <2>1, <2>2
<1>3. CASE Consider(p)
  <2>1. x.at = "reading" /\ x.read.got # {} /\ z = Considered(x)
    BY <1>3 DEF Consider, Shape
  <2>2. z.now = x.now
    BY <1>1, <2>1, ConsideredIs
  <2> HIDE DEF z
  <2> QED BY <1>1, <2>1, <2>2 DEF AtWork, z
<1>4. CASE ReadingEnds(p)
  <2>1. x.at = "reading" /\ \E f : z = [x EXCEPT !.at = "choosing", !.float = f, !.left = f]
    BY <1>4 DEF ReadingEnds, Shape
  <2>2. z.now = x.now
    BY <1>1, <2>1 DEF Pass
  <2> HIDE DEF z
  <2> QED BY <1>1, <2>1, <2>2 DEF AtWork, z
<1>5. CASE End(p)
  <2>1. x.at = "choosing" /\ z = Idle
    BY <1>5 DEF End, Shape
  <2> QED BY <1>1, <2>1 DEF AtWork, Working
<1>6. ASSUME NEW d \in x.due, Skip(p, d) PROVE x.now \notin Businesses /\ z.now \notin Businesses
  <2>1. /\ x.at = "choosing" /\ x.left \in Nat \cup {Unknown} /\ (x.left = Unknown => x.handed = {})
        /\ passes' = NextBusiness(p, d, x.left)
    BY <1>6, TurnIs DEF Skip
  <2>2. z = Done(x, d, x.left)
    BY <2>1, NextBusinessIs DEF Shape
  <2>3. z.now = Nobody
    <3>1. x \in Pass /\ Orderly(x) /\ x.at # "reading"
      BY <1>1, <2>1
    <3> DEFINE left == x.left
    <3>2. Done(x, d, left).now = Nobody
      <4> HIDE DEF x
      <4>1. left \in Nat \cup {Unknown} /\ (left = Unknown => x.handed = {})
        BY <2>1 DEF x
      <4> HIDE DEF left
      <4> QED BY <3>1, <4>1, DoneIs
    <3> QED BY <2>2, <3>2
  <2> QED BY <1>0, <1>1, <2>1, <2>3
<1> QED BY <1>2, <1>3, <1>4, <1>5, <1>6 DEF Thinks, AtWork

\* A row that is not written, and is in no other hands than before, tells
\* what it told.
LEMMA ToldStays ==
  ASSUME Shape, NEW k \in Keys, RowTold(k), sweeps'[k] = sweeps[k], InHand(k)' <=> InHand(k),
         stage[k] = "none" => stage'[k] = "none", MayPay(k)' => MayPay(k)
  PROVE  RowTold(k)'
BY DEF RowTold

\* Reconciling gives up only what no payout exists for.
LEMMA BeginTold ==
  ASSUME Shape, Told, NEW p \in Passes, Begin(p)
  PROVE  Told'
<1>1. passes[p] = Idle /\ UNCHANGED <<stage, paidBy>> /\ \A k \in Keys : sweeps'[k] = Reconciled(k)
  BY BeginIs
<1>2. p \notin AtWork /\ p \notin AtWork'
  <2>1. PICK x \in Pass : passes' = [passes EXCEPT ![p] = x] /\ x.now = Nobody
    BY BeginIs
  <2>2. passes'[p] = x
    BY <2>1 DEF Shape
  <2> QED BY <1>1, <2>1, <2>2, SweepAssumption DEF AtWork, Working, SweepAssumption
<1>3. ASSUME NEW k \in Keys PROVE RowTold(k)'
  <2>1. InHand(k)' <=> InHand(k)
    BY <1>2, HandsMove DEF Mine, Step
  <2>2. RowTold(k) /\ (MayPay(k)' <=> MayPay(k)) /\ stage'[k] = stage[k]
    BY <1>1 DEF Told, MayPay
  <2>3. CASE Reconciled(k) = sweeps[k]
    BY <1>1, <2>1, <2>2, <2>3, ToldStays
  <2>4. CASE Reconciled(k).state = "failed" /\ Interrupted(sweeps[k])
    <3>1. ~InHand(k) /\ stage[k] = "none"
      BY <2>2, <2>4 DEF RowTold, Interrupted
    <3>2. ~MayPay(k)
      BY <3>1 DEF MayPay, Shape, PayoutsOK
    <3> QED BY <1>1, <2>1, <2>2, <2>4, <3>1, <3>2 DEF RowTold
  <2>5. CASE sweeps[k].state = "sending" /\ Reconciled(k).state = "sent"
    BY <1>1, <2>1, <2>2, <2>5 DEF RowTold
  <2>6. CASE sweeps[k].state = "sending" /\ Reconciled(k).state = "failed" /\ stage[k] \in Dead
    <3>1. ~MayPay(k)
      BY <2>6 DEF Dead, MayPay, Shape, PayoutsOK
    <3> QED BY <1>1, <2>1, <2>2, <2>6, <3>1 DEF RowTold
  <2> QED BY <2>3, <2>4, <2>5, <2>6, ReconciledIs
<1> QED BY <1>3 DEF Told

\* A new row is held, or in the hands of its pass.
LEMMA ChoosingTold ==
  ASSUME Shape, Told, NEW p \in Passes, NEW d \in passes[p].due, Hold(p, d) \/ Prepare(p, d)
  PROVE  Told'
<1> DEFINE x == passes[p]
           z == passes'[p]
           k == <<d.business, x.window>>
<1>1. /\ Turn(p, d) /\ k \in Keys /\ UNCHANGED <<stage, paidBy>>
      /\ \A j \in Keys : j # k => sweeps'[j] = sweeps[j]
      /\ sweeps[k] # NoSweep => sweeps'[k] = sweeps[k]
      /\ \E s \in Sweep : /\ sweeps'[k] \in {s, sweeps[k]} /\ ~s.noted /\ ~s.old
                          /\ s.state \in {"held", "prepared"}
  BY ChoosingIs
<1>2. x.at = "choosing" /\ x # Idle /\ x.left \in Nat \cup {Unknown} /\ (x.left = Unknown => x.handed = {})
      /\ (Obstacle(p, d) = "none" => Spent(p, d) \in Nat /\ Spent(p, d) # Unknown)
  BY <1>1, TurnIs
<1>3. p \notin AtWork /\ x \in Pass /\ Orderly(x)
  BY <1>2, NotAtASweep DEF AtWork
<1>4. Step(p)
  BY <1>2 DEF Step, Choose
<1>5. ASSUME NEW left \in Nat \cup {Unknown}, left = Unknown => x.handed = {},
             passes' = NextBusiness(p, d, left)
      PROVE  p \notin AtWork'
  <2>1. z = Done(x, d, left)
    BY <1>5, NextBusinessIs DEF Shape
  <2>2. z.now = Nobody
    BY <1>2, <1>3, <1>5, <2>1, DoneIs
  <2> QED BY <2>2, SweepAssumption DEF AtWork, SweepAssumption
<1>6. \/ p \notin AtWork'
      \/ Prepare(p, d) /\ sweeps[k] = NoSweep /\ p \in AtWork' /\ KeyOf(z) = k
  <2>1. CASE Hold(p, d)
    <3>1. passes' = NextBusiness(p, d, x.left)
      BY <2>1 DEF Hold
    <3> QED BY <1>2, <1>5, <3>1
  <2>2. CASE Prepare(p, d) /\ sweeps[k] # NoSweep
    <3> DEFINE left == IF sweeps[k].state \in Claiming THEN Spent(p, d) ELSE x.left
    <3>1. passes' = NextBusiness(p, d, left) /\ Obstacle(p, d) = "none"
      BY <2>2 DEF Prepare
    <3>2. left \in Nat \cup {Unknown} /\ (left = Unknown => x.handed = {})
      BY <1>2, <3>1
    <3> HIDE DEF left
    <3> QED BY <1>5, <3>1, <3>2
  <2>3. CASE Prepare(p, d) /\ sweeps[k] = NoSweep
    <3>1. z = [x EXCEPT !.at = "claiming", !.now = d.business]
      BY <2>3 DEF Prepare, Shape
    <3>2. z.now = d.business /\ z.window = x.window /\ z.at = "claiming"
      BY <1>3, <3>1 DEF Pass
    <3>3. z # Idle /\ d.business \in Businesses
      BY <1>1, <3>2 DEF Idle, Keys
    <3> QED BY <2>3, <3>2, <3>3 DEF AtWork, Working, KeyOf
  <2> QED BY <2>1, <2>2, <2>3
<1>7. \A j \in Keys : j # k \/ p \notin AtWork' => (InHand(j)' <=> InHand(j))
  <2>1. \A j \in Keys : j # k \/ p \notin AtWork' => ~Mine(p, j) /\ ~Mine(p, j)'
    BY <1>3, <1>6 DEF Mine
  <2> HIDE DEF k
  <2> QED BY <1>4, <2>1, HandsMove
<1>8. \A j \in Keys : RowTold(j) /\ (MayPay(j)' <=> MayPay(j)) /\ stage'[j] = stage[j]
  BY <1>1 DEF Told, MayPay
<1> HIDE DEF k, x, z
<1>9. ASSUME NEW j \in Keys, j = k PROVE RowTold(j)'
  <2>1. CASE sweeps[j] # NoSweep
    <3>1. p \notin AtWork' /\ sweeps'[j] = sweeps[j]
      BY <1>1, <1>6, <1>9, <2>1
    <3> QED BY <1>7, <1>8, <3>1, ToldStays
  <2>2. CASE sweeps[j] = NoSweep
    <3>1. stage'[j] = "none" /\ ~MayPay(j)' /\ ~InHand(j)
      BY <1>8, <2>2, AtWorkIs DEF Shape, TableOK, PayoutsOK, MayPay, InHand, Mine
    <3>2. CASE p \in AtWork'
      <4>1. Prepare(p, d)
        BY <1>6, <3>2
      <4>2. sweeps'[j].state = "prepared" /\ ~sweeps'[j].old
        <5>1. Insert(k, Written(p, d, "prepared", "none"))
          BY <4>1 DEF Prepare, k, x
        <5>2. sweeps'[j] = Written(p, d, "prepared", "none")
          BY <1>9, <2>2, <5>1 DEF Insert, Shape, TableOK
        <5> QED BY <5>2 DEF Written
      <4> QED BY <3>1, <4>2 DEF RowTold
    <3>3. CASE p \notin AtWork'
      <4>1. ~InHand(j)'
        BY <1>7, <3>1, <3>3
      <4> QED BY <3>1, <4>1 DEF RowTold
    <3> QED BY <3>2, <3>3
  <2> QED BY <2>1, <2>2
<1>10. \A j \in Keys : j # k => RowTold(j)'
  BY <1>1, <1>7, <1>8, ToldStays
<1> QED BY <1>9, <1>10 DEF Told

\* Claiming leaves the row prepared and in hand.
LEMMA ClaimTold ==
  ASSUME Shape, Told, NEW p \in Passes, NEW d \in passes[p].due, Claim(p, d)
  PROVE  Told'
<1> DEFINE k == <<d.business, passes[p].window>>
           s == [sweeps[k] EXCEPT !.claims = d.list]
           z == [passes[p] EXCEPT !.at = "calling"]
<1>1. /\ Works(p, d, "claiming") /\ k \in Keys
      /\ s.state = sweeps[k].state /\ s.old = sweeps[k].old
      /\ sweeps' = [sweeps EXCEPT ![k] = s] /\ passes' = [passes EXCEPT ![p] = z]
      /\ UNCHANGED <<stage, paidBy>> /\ z.at = "calling" /\ z.now = passes[p].now /\ KeyOf(z) = k
  BY ClaimIs, Z3
<1>2. p \in AtWork /\ k = KeyOf(passes[p]) /\ passes[p] # Idle
  BY <1>1, WorksIs DEF AtASweep
<1>3. p \in AtWork' /\ KeyOf(passes'[p]) = k
  <2>1. passes'[p] = z
    BY <1>1 DEF Shape
  <2> HIDE DEF z
  <2> QED BY <1>1, <1>2, <2>1 DEF AtWork, Working, Idle
<1>4. Step(p)
  BY <1>2 DEF Step
<1> HIDE DEF k, s, z
<1>5. ASSUME NEW j \in Keys PROVE RowTold(j)'
  <2>1. Mine(p, j)' <=> Mine(p, j)
    BY <1>2, <1>3 DEF Mine
  <2>2. InHand(j)' <=> InHand(j)
    BY <1>4, <2>1, HandsMove
  <2>3. sweeps'[j].state = sweeps[j].state /\ sweeps'[j].old = sweeps[j].old
    BY <1>1 DEF Shape, TableOK
  <2>4. RowTold(j) /\ (MayPay(j)' <=> MayPay(j)) /\ stage'[j] = stage[j]
    BY <1>1 DEF Told, MayPay
  <2> QED BY <2>2, <2>3, <2>4 DEF RowTold
<1> QED BY <1>5 DEF Told

\* A payout is asked for by the pass that holds its row.
LEMMA SendTold ==
  ASSUME Shape, Told, NEW p \in Passes, NEW d \in passes[p].due, Send(p, d)
  PROVE  Told'
<1> DEFINE k == <<d.business, passes[p].window>>
           z == HandsOver(passes[p], k)
<1>1. /\ Works(p, d, "calling") /\ k \in Keys /\ passes' = [passes EXCEPT ![p] = z]
      /\ \E w \in {"waiting", "flight"} : stage' = [stage EXCEPT ![k] = w]
      /\ UNCHANGED <<sweeps, paidBy>> /\ z.at = "noting" /\ z.now = passes[p].now /\ KeyOf(z) = k
  BY SendIs
<1>2. p \in AtWork /\ k = KeyOf(passes[p]) /\ passes[p] # Idle
  BY <1>1, WorksIs DEF AtASweep
<1>3. p \in AtWork' /\ KeyOf(passes'[p]) = k
  <2>1. passes'[p] = z
    BY <1>1 DEF Shape
  <2> HIDE DEF z
  <2> QED BY <1>1, <1>2, <2>1 DEF AtWork, Working, Idle
<1>4. Step(p)
  BY <1>2 DEF Step
<1> HIDE DEF k, z
<1>5. ASSUME NEW j \in Keys PROVE RowTold(j)'
  <2>1. Mine(p, j)' <=> Mine(p, j)
    BY <1>2, <1>3 DEF Mine
  <2>2. InHand(j)' <=> InHand(j)
    BY <1>4, <2>1, HandsMove
  <2>3. RowTold(j)
    BY DEF Told
  <2>4. CASE j = k
    <3>1. InHand(j)
      BY <1>2, <2>4 DEF InHand, Mine
    <3> QED BY <1>1, <2>2, <2>3, <3>1 DEF RowTold
  <2>5. CASE j # k
    <3>1. stage'[j] = stage[j]
      BY <1>1, <2>5 DEF Shape, PayoutsOK
    <3>2. MayPay(j)' <=> MayPay(j)
      BY <1>1, <3>1 DEF MayPay
    <3> QED BY <1>1, <2>2, <2>3, <3>1, <3>2, ToldStays
  <2> QED BY <2>4, <2>5
<1> QED BY <1>5 DEF Told

\* A pass leaves a sweep that is no longer prepared.
LEMMA LeavesTold ==
  ASSUME Shape, Told, NEW p \in Passes, Step(p), NEW d, NEW left \in Nat, left # Unknown,
         NEW at \in AtASweep, Works(p, d, at), passes' = NextBusiness(p, d, left),
         UNCHANGED <<stage, paidBy>>, NEW k \in Keys, k = <<d.business, passes[p].window>>,
         NEW s \in Sweep, WherePrepared(k, s), s.state # "prepared", s.gross = sweeps[k].gross,
         s.state = "sending" => s.noted /\ stage[k] # "none",
         s.state \in {"failed", "held"} => ~MayPay(k)
  PROVE  Told'
<1>1. /\ passes[p] # Idle /\ p \in AtWork /\ k = KeyOf(passes[p]) /\ sweeps[k] \in Sweep
      /\ passes[p].at = at
  BY WorksIs
<1>2. passes[p] \in Pass /\ Orderly(passes[p])
  BY <1>1, PassIs DEF PassOK
<1>3. p \notin AtWork'
  <2>1. passes'[p] = Done(passes[p], d, left)
    BY NextBusinessIs DEF Shape
  <2>2. passes[p].at # "reading"
    BY <1>1 DEF AtASweep
  <2>3. passes'[p].now = Nobody
    BY <1>2, <2>1, <2>2, DoneIs
  <2> QED BY <2>3, SweepAssumption DEF AtWork, SweepAssumption
<1>4. Mine(p, k) /\ \A j : ~Mine(p, j)' /\ (Mine(p, j) => j = k)
  BY <1>1, <1>3 DEF Mine
<1>5. InHand(k) /\ ~InHand(k)' /\ \A j \in Keys : j # k => (InHand(j)' <=> InHand(j))
  BY <1>4, HandsMove
<1>6. sweeps[k].state = "prepared"
  BY <1>5 DEF Told, RowTold
<1>7. sweeps'[k] = s /\ \A j \in Keys : j # k => sweeps'[j] = sweeps[j]
  BY <1>1, <1>6, WherePreparedIs
<1>8. \A j \in Keys : RowTold(j) /\ (MayPay(j)' <=> MayPay(j)) /\ stage'[j] = stage[j]
  BY DEF Told, MayPay
<1>9. RowTold(k)'
  BY <1>5, <1>7, <1>8 DEF RowTold
<1>10. \A j \in Keys : j # k => RowTold(j)'
  BY <1>5, <1>7, <1>8, ToldStays
<1> QED BY <1>9, <1>10 DEF Told

\* A pass lets go of a row when it notes its payout.
LEMMA NoteTold ==
  ASSUME Shape, Told, NEW p \in Passes, NEW d \in passes[p].due, Note(p, d)
  PROVE  Told'
<1>1. PICK k \in Keys, s \in Sweep, left \in Nat :
        /\ k = <<d.business, passes[p].window>> /\ Works(p, d, "noting")
        /\ s.gross = sweeps[k].gross /\ s.state = Outcome(k) /\ s.noted
        /\ WherePrepared(k, s) /\ passes' = NextBusiness(p, d, left) /\ left # Unknown
        /\ stage[k] # "none" /\ UNCHANGED <<stage, paidBy>>
  <2> DEFINE key == <<d.business, passes[p].window>>
             row == [sweeps[key] EXCEPT !.state = Outcome(key), !.noted = TRUE]
             rest == IF Outcome(key) = "failed" THEN passes[p].left ELSE Spent(p, d)
  <2>1. /\ Works(p, d, "noting") /\ key \in Keys /\ row \in Sweep /\ row.gross = sweeps[key].gross
        /\ row.state = Outcome(key) /\ row.noted
        /\ WherePrepared(key, row) /\ passes' = NextBusiness(p, d, rest)
        /\ rest \in Nat /\ rest # Unknown /\ stage[key] # "none" /\ UNCHANGED <<stage, paidBy>>
    BY NoteIs
  <2>2. key = <<d.business, passes[p].window>>
    OBVIOUS
  <2> HIDE DEF key, row, rest
  <2> QED BY <2>1, <2>2
<1>2. Step(p)
  BY <1>1, WorksIs DEF Step, AtASweep
<1>3. s.state # "prepared" /\ (s.state \in {"failed", "held"} => stage[k] = "failed")
  BY <1>1 DEF Outcome
<1>4. s.state \in {"failed", "held"} => ~MayPay(k)
  BY <1>3 DEF MayPay, Shape, PayoutsOK
<1> QED BY <1>1, <1>2, <1>3, <1>4, LeavesTold DEF AtASweep

\* A send that throws early leaves no payout.
LEMMA ThrewTold ==
  ASSUME Shape, Told, "lateThrow" \notin Around, NEW p \in Passes, NEW d \in passes[p].due, Threw(p, d)
  PROVE  Told'
<1> DEFINE key == <<d.business, passes[p].window>>
<1>1. PICK state \in {"held", "failed"}, at \in {"calling", "noting"} :
              LET s == Refused(sweeps[key], state) IN
              /\ Works(p, d, at) /\ (at = "noting" => "lateThrow" \in Around)
              /\ key \in Keys /\ s \in Sweep /\ s.gross = sweeps[key].gross
              /\ s.state = state
              /\ WherePrepared(key, s) /\ passes' = NextBusiness(p, d, passes[p].left)
              /\ passes[p].left \in Nat /\ passes[p].left # Unknown
              /\ UNCHANGED <<stage, paidBy>>
  BY ThrewIs
<1>2. PICK k \in Keys, s \in Sweep, left \in Nat :
        /\ k = key /\ s = Refused(sweeps[key], state) /\ left = passes[p].left
  BY <1>1
<1>3. Step(p) /\ stage[k] = "none" /\ at = "calling"
  BY <1>1, <1>2, WorksIs DEF Step, AtASweep
<1>4. ~MayPay(k)
  BY <1>3 DEF MayPay, Shape, PayoutsOK
<1>5. s.state # "prepared" /\ s.state # "sending" /\ at \in AtASweep
  BY <1>1, <1>2 DEF AtASweep
<1> QED BY <1>1, <1>2, <1>3, <1>4, <1>5, LeavesTold

\* Every step keeps what the rows tell.
LEMMA ToldStep ==
  ASSUME Shape, Told, NoMishap, Next PROVE Told'
<1>1. ASSUME NEW p \in Passes, Step(p) PROVE Told'
  <2>1. ASSUME Thinks(p) PROVE Told'
    <3>1. UNCHANGED <<sweeps, stage, paidBy>> /\ p \notin AtWork /\ p \notin AtWork'
      BY <2>1, ThinksIs, ThinksKeepsHands
    <3>2. ASSUME NEW k \in Keys PROVE RowTold(k)'
      <4>1. InHand(k)' <=> InHand(k)
        BY <1>1, <3>1, HandsMove DEF Mine
      <4>2. RowTold(k) /\ (MayPay(k)' <=> MayPay(k))
        BY <3>1 DEF Told, MayPay
      <4> QED BY <3>1, <4>1, <4>2, ToldStays
    <3> QED BY <3>2 DEF Told
  <2> QED BY <1>1, <2>1, StepIs, BeginTold, ChoosingTold, ClaimTold, SendTold, NoteTold, ThrewTold DEF NoMishap
<1>2. ASSUME NEW k \in Keys, FiveMinutesPass(k) PROVE Told'
  <2>1. /\ UNCHANGED <<passes, stage, paidBy>> /\ sweeps' = [sweeps EXCEPT ![k].old = TRUE]
        /\ sweeps[k].state = "prepared" /\ \A p \in Passes : ~AtWorkOn(p, k)
    BY <1>2 DEF FiveMinutesPass, payouts, NoMishap
  <2>2. \A j : InHand(j)' <=> InHand(j)
    BY <2>1 DEF InHand, Mine, AtWork, Working
  <2>3. ~InHand(k)
    BY <2>1 DEF InHand, Mine, AtWork, Working, AtWorkOn, KeyOf
  <2>4. \A j \in Keys : RowTold(j) /\ (MayPay(j)' <=> MayPay(j))
    BY <2>1 DEF Told, MayPay
  <2>5. sweeps[k] \in Sweep
    BY <2>1 DEF Shape, TableOK, NoSweep
  <2>6. sweeps'[k].state = sweeps[k].state /\ \A j \in Keys : j # k => sweeps'[j] = sweeps[j]
    BY <2>1, <2>5 DEF Shape, TableOK, Sweep
  <2>7. RowTold(k)'
    BY <2>1, <2>2, <2>3, <2>4, <2>6 DEF RowTold
  <2>8. \A j \in Keys : j # k => RowTold(j)'
    BY <2>1, <2>2, <2>4, <2>6, ToldStays
  <2> QED BY <2>7, <2>8 DEF Told
<1>3. ASSUME NEW k \in Keys, PayoutMoves(k) PROVE Told'
  <2>1. /\ UNCHANGED <<sweeps, passes>> /\ \A j \in Keys : stage[j] = "none" => stage'[j] = "none"
        /\ \A j \in Keys : MayPay(j)' => MayPay(j)
    BY <1>3, PayoutMovesIs
  <2>2. \A j : InHand(j)' <=> InHand(j)
    BY <2>1 DEF InHand, Mine, AtWork, Working
  <2> QED BY <2>1, <2>2, ToldStays DEF Told
<1>4. ASSUME UNCHANGED <<sweeps, passes, stage, paidBy>> PROVE Told'
  <2>1. \A j : (InHand(j)' <=> InHand(j)) /\ (MayPay(j)' <=> MayPay(j))
    BY <1>4 DEF InHand, Mine, AtWork, Working, MayPay
  <2> QED BY <1>4, <2>1, ToldStays DEF Told
<1>5. ASSUME Crash PROVE Told'
  <2>1. /\ UNCHANGED <<sweeps, stage, paidBy>> /\ passes' = [p \in Passes |-> Idle]
        /\ \A p \in Passes : passes[p].at # "noting"
    BY <1>5 DEF Crash, payouts, NoMishap
  <2>2. \A j : ~InHand(j)'
    BY <2>1 DEF InHand, Mine, AtWork, Working
  <2>3. \A j \in Keys : InHand(j) => stage[j] = "none"
    BY <2>1, AtWorkIs DEF InHand, Mine
  <2>4. \A j \in Keys : RowTold(j) /\ (MayPay(j)' <=> MayPay(j))
    BY <2>1 DEF Told, MayPay
  <2> QED BY <2>1, <2>2, <2>3, <2>4 DEF Told, RowTold
<1>6. CASE Outside
  <2>1. \/ UNCHANGED <<sweeps, passes, stage, paidBy>> \/ Crash
        \/ \E k \in Keys : FiveMinutesPass(k) \/ PayoutMoves(k)
    BY <1>6 DEF Outside, Arrives, Assign, SetStopped, ClockMoves, payouts
  <2> QED BY <1>2, <1>3, <1>4, <1>5, <2>1
<1> QED BY <1>1, <1>6 DEF Next

\* At the start there is nothing to tell.
LEMMA ToldInit == Init => Told
<1> SUFFICES ASSUME Init PROVE Told
  OBVIOUS
<1>1. AtWork = {}
  BY DEF Init, AtWork, Working
<1> QED BY <1>1 DEF Init, Told, RowTold, InHand, Mine, MayPay, Payout!Init, NoSweep

\* A stuttering step changes nothing of it.
LEMMA ToldStutters ==
  ASSUME Told, UNCHANGED vars PROVE Told'
BY DEF vars, Told, RowTold, InHand, Mine, AtWork, Working, MayPay

(* A sweep the page calls failed or held has moved nothing and never will, *)
(* with any number of passes in any order and a crash between any two of   *)
(* their statements but one: the one between the payout's row and the note *)
(* of it, which has a run of its own.  A send must end before the sweep    *)
(* counts as interrupted, and must not throw once it wrote the payout.     *)
THEOREM UnsentIsUnpaid ==
  ASSUME NoMishap
  PROVE  Spec => []UnsentMovedNothing
<1>1. Init => Shape /\ Told
  BY ShapeInit, ToldInit
<1>2. Shape /\ Told /\ [Next]_vars => (Shape /\ Told)'
  BY ShapeStep, ShapeStutters, ToldStep, ToldStutters
<1>3. Told => UnsentMovedNothing
  BY DEF Told, RowTold, UnsentMovedNothing
<1> QED BY <1>1, <1>2, <1>3, PTL DEF Spec


(***************************************************************************)
(* What is owed.  A pass works in the window the clock is in, where no     *)
(* payout of its business exists yet; so what it may still send fits the   *)
(* money that arrived next to the payouts of the other windows, and claims *)
(* no payment of theirs.  The two sums it reads, the payments and what the *)
(* sweeps claim, may be of different moments: payments only arrive, and a  *)
(* payout that is possible is claimed before it is.                        *)
(***************************************************************************)

Calm == Around = {}

Owned(b) == {r \in Rows : r <= arrived /\ owner[r] = b}
Of(b) == {k \in Keys : k[1] = b /\ MayPay(k)}
Others(b, w) == {k \in Of(b) : k[2] # w}
Gross == [k \in Keys |-> IF sweeps[k] # NoSweep THEN sweeps[k].gross ELSE 0]
Elsewhere(b, w) == SumFunctionOnSet(Gross, Others(b, w))

ReadFits(r, w) ==
  /\ "rows" \in r.got => r.rows \subseteq Owned(r.business)
  /\ "gross" \in r.got => Elsewhere(r.business, w) <= r.gross
  /\ "taken" \in r.got => \A k \in Others(r.business, w) : sweeps[k].claims \subseteq r.taken

DueFits(d, w) ==
  /\ d.list \subseteq Owned(d.business)
  /\ Elsewhere(d.business, w) + d.owed <= Worth(Owned(d.business))
  /\ \A k \in Others(d.business, w) : sweeps[k].claims \cap d.list = {}

PassFits(x) ==
  /\ x.window = clock
  /\ ReadFits(x.read, x.window)
  /\ \A d \in x.due : DueFits(d, x.window)

\* Past claiming, the row claims what the pass found.
ClaimFits(x, sw) ==
  x.at \in {"calling", "noting"} =>
    \A d \in x.due : d.business = x.now => sw[KeyOf(x)].claims = d.list

Owed ==
  /\ \A p \in Working : PassFits(passes[p]) /\ ClaimFits(passes[p], sweeps)
  /\ \A k \in Keys : sweeps[k] # NoSweep => sweeps[k].claims \subseteq Owned(k[1])
  /\ \A b \in Businesses : SumFunctionOnSet(Gross, Of(b)) <= Worth(Owned(b))
  /\ SweptOnce

\* What may be paid has a row, whose claims and worth are what they were.
LEMMA OfIs ==
  ASSUME Shape, NEW b
  PROVE  /\ IsFiniteSet(Of(b)) /\ Of(b) \subseteq Keys
         /\ \A k \in Of(b) : stage[k] # "none" /\ sweeps[k] # NoSweep /\ sweeps[k] \in Sweep
         /\ \A k \in Keys : Gross[k] \in Nat
         /\ \A k \in Of(b) : Gross[k] = sweeps[k].gross
<1>1. \A k \in Of(b) : stage[k] # "none"
  BY DEF Of, MayPay, Shape, PayoutsOK
<1>2. \A k \in Of(b) : sweeps[k] # NoSweep /\ sweeps[k] \in Sweep
  BY <1>1 DEF Of, Shape, TableOK
<1>3. IsFiniteSet(Of(b))
  <2>1. Of(b) \subseteq {k \in Keys : sweeps[k] # NoSweep}
    BY <1>2 DEF Of
  <2> QED BY <2>1, FS_Subset DEF Shape, TableOK
<1>4. \A k \in Keys : Gross[k] \in Nat
  BY DEF Gross, Shape, TableOK, Sweep
<1>5. \A k \in Of(b) : Gross[k] = sweeps[k].gross
  BY <1>2 DEF Gross, Of
<1> QED BY <1>1, <1>2, <1>3, <1>4, <1>5 DEF Of

\* The sum of some of a business's payouts.
LEMMA GrossOf ==
  ASSUME Shape, NEW b, NEW S \in SUBSET Of(b)
  PROVE  /\ IsFiniteSet(S) /\ SumFunctionOnSet(Gross, S) \in Nat
         /\ SumFunctionOnSet(Gross, S) <= SumFunctionOnSet(Gross, Of(b))
         /\ \A T \in SUBSET S : SumFunctionOnSet(Gross, T) <= SumFunctionOnSet(Gross, S)
<1>1. IsFiniteSet(S) /\ IsFiniteSet(Of(b)) /\ \A k \in Of(b) : Gross[k] \in Nat
  BY OfIs, FS_Subset
<1>2. SumFunctionOnSet(Gross, S) \in Nat
  BY <1>1, SumNat
<1>3. SumFunctionOnSet(Gross, S) <= SumFunctionOnSet(Gross, Of(b))
  BY <1>1, SumOfPart
<1>4. ASSUME NEW T \in SUBSET S PROVE SumFunctionOnSet(Gross, T) <= SumFunctionOnSet(Gross, S)
  BY <1>1, SumOfPart
<1> QED BY <1>1, <1>2, <1>3, <1>4

\* A step of a pass brings no money and does not move the clock.
LEMMA MoneyStays ==
  ASSUME NEW p \in Passes, Step(p)
  PROVE  UNCHANGED <<owner, arrived, clock>>
<1>1. ASSUME NEW d, Hold(p, d) \/ Prepare(p, d) \/ Claim(p, d) \/ Send(p, d) \/ Note(p, d) \/ Threw(p, d)
      PROVE  UNCHANGED <<owner, arrived, clock>>
  BY <1>1 DEF Hold, Prepare, Claim, Send, Note, Threw, money
<1>2. CASE Begin(p)
  BY <1>2 DEF Begin, money
<1> QED BY <1>1, <1>2, StepIs, ThinksIs

\* What has arrived for a business stays its own.
LEMMA OwnedGrows ==
  ASSUME Shape, Next, Calm, NEW b \in Businesses
  PROVE  /\ Owned(b) \subseteq Owned(b)' /\ Worth(Owned(b)) \in Nat
         /\ Worth(Owned(b)') \in Nat /\ Worth(Owned(b)) <= Worth(Owned(b)')
<1>1. owner \in [Rows -> Businesses \cup {Nobody}] /\ arrived \in Nat /\ Nobody # b
  BY SweepAssumption DEF Shape, Plain, SweepAssumption
<1>2. Owned(b) \subseteq Owned(b)'
  <2>1. CASE UNCHANGED <<owner, arrived>>
    BY <2>1 DEF Owned
  <2>2. ASSUME NEW c \in Businesses \cup {Nobody}, Arrives(c) PROVE Owned(b) \subseteq Owned(b)'
    <3>1. arrived' = arrived + 1 /\ owner' = [owner EXCEPT ![arrived + 1] = c]
      BY <2>2 DEF Arrives
    <3>2. ASSUME NEW r \in Rows, r <= arrived PROVE r <= arrived' /\ owner'[r] = owner[r]
      <4>1. r \in Int
        BY SweepAssumption DEF Rows, SweepAssumption
      <4>2. r # arrived + 1 /\ r <= arrived + 1
        BY <1>1, <3>2, <4>1
      <4> QED BY <1>1, <3>1, <4>2
    <3> QED BY <3>2 DEF Owned
  <2>3. ASSUME NEW c \in Businesses, NEW r \in Rows, Assign(r, c) PROVE Owned(b) \subseteq Owned(b)'
    <3>1. owner[r] = Nobody /\ arrived' = arrived /\ owner' = [owner EXCEPT ![r] = c]
      BY <2>3 DEF Assign, Calm
    <3>2. \A q \in Rows : owner[q] = b => owner'[q] = b
      BY <1>1, <3>1
    <3> QED BY <3>1, <3>2 DEF Owned
  <2>4. CASE \E p \in Passes : Step(p)
    BY <2>1, <2>4, MoneyStays
  <2>5. CASE Outside
    <3>1. \/ UNCHANGED <<owner, arrived>>
          \/ \E c \in Businesses \cup {Nobody} : Arrives(c)
          \/ \E c \in Businesses, r \in Rows : Assign(r, c)
      BY <2>5 DEF Outside, SetStopped, ClockMoves, FiveMinutesPass, PayoutMoves, Crash, money
    <3> QED BY <2>1, <2>2, <2>3, <3>1
  <2> QED BY <2>4, <2>5 DEF Next
<1>3. Owned(b) \in SUBSET Rows /\ Owned(b)' \in SUBSET Rows
  BY DEF Owned
<1>4. Worth(Owned(b)) \in Nat /\ Worth(Owned(b)') \in Nat
  BY <1>3, WorthIs
<1>5. Worth(Owned(b)) <= Worth(Owned(b)')
  <2> DEFINE S == Owned(b)
             T == Owned(b)'
  <2>1. S \in SUBSET T /\ T \in SUBSET Rows
    BY <1>2, <1>3
  <2> HIDE DEF S, T
  <2>2. Worth(S) <= Worth(T)
    BY <2>1, WorthIs
  <2> QED BY <2>2 DEF S, T
<1> QED BY <1>2, <1>4, <1>5

\* Where a row came from, and who wrote its claims.
LEMMA RowsMove ==
  ASSUME Shape, Next, NEW k \in Keys
  PROVE  \/ sweeps[k] = NoSweep /\ sweeps'[k] = NoSweep
         \/ sweeps[k] # NoSweep /\ sweeps'[k].claims = sweeps[k].claims
         \/ \E p \in Passes : \E d \in passes[p].due :
              /\ k = <<d.business, passes[p].window>> /\ p \in Working
              /\ sweeps'[k].claims \subseteq d.list
              /\ Claim(p, d) \/ sweeps[k] = NoSweep
<1> DEFINE Goal ==
         \/ sweeps[k] = NoSweep /\ sweeps'[k] = NoSweep
         \/ sweeps[k] # NoSweep /\ sweeps'[k].claims = sweeps[k].claims
         \/ \E p \in Passes : \E d \in passes[p].due :
              /\ k = <<d.business, passes[p].window>> /\ p \in Working
              /\ sweeps'[k].claims \subseteq d.list
              /\ Claim(p, d) \/ sweeps[k] = NoSweep
<1> SUFFICES Goal
  OBVIOUS
<1>1. ASSUME sweeps'[k] = sweeps[k] PROVE Goal
  BY <1>1
<1>2. ASSUME NEW p \in Passes, Begin(p) PROVE Goal
  BY <1>2, BeginIs, ReconciledIs
<1>3. ASSUME NEW p \in Passes, NEW d \in passes[p].due, Hold(p, d) \/ Prepare(p, d) PROVE Goal
  <2> DEFINE j == <<d.business, passes[p].window>>
  <2>1. /\ Turn(p, d) /\ \A i \in Keys : i # j => sweeps'[i] = sweeps[i]
        /\ sweeps[j] # NoSweep => sweeps'[j] = sweeps[j]
        /\ \E s \in Sweep : sweeps'[j] \in {s, sweeps[j]} /\ s.claims \subseteq d.list
    BY <1>3, ChoosingIs
  <2>2. p \in Working
    BY <2>1, TurnIs DEF Working
  <2>3. CASE k # j
    BY <1>1, <2>1, <2>3
  <2>4. CASE k = j /\ sweeps[k] = NoSweep
    BY <2>1, <2>2, <2>4
  <2>5. CASE k = j /\ sweeps[k] # NoSweep
    BY <1>1, <2>1, <2>5
  <2> QED BY <2>3, <2>4, <2>5
<1>4. ASSUME NEW p \in Passes, NEW d \in passes[p].due, Claim(p, d) PROVE Goal
  <2> DEFINE j == <<d.business, passes[p].window>>
             s == [sweeps[j] EXCEPT !.claims = d.list]
  <2>1. /\ Works(p, d, "claiming") /\ j \in Keys /\ sweeps' = [sweeps EXCEPT ![j] = s] /\ s.claims = d.list
    BY <1>4, ClaimIs
  <2>2. p \in Working
    BY <2>1, WorksIs DEF AtASweep, AtWork
  <2> HIDE DEF s, j
  <2>3. sweeps'[j] = s /\ \A i \in Keys : i # j => sweeps'[i] = sweeps[i]
    BY <2>1 DEF Shape, TableOK
  <2>4. CASE k # j
    BY <1>1, <2>3, <2>4
  <2>5. CASE k = j
    BY <1>4, <2>1, <2>2, <2>3, <2>5 DEF j
  <2> QED BY <2>4, <2>5
<1>5. ASSUME NEW j \in Keys, NEW s \in Sweep, WherePrepared(j, s), s.claims = sweeps[j].claims,
             sweeps[j] \in Sweep
      PROVE  Goal
  <2>1. sweeps'[j] \in {s, sweeps[j]} /\ \A i \in Keys : i # j => sweeps'[i] = sweeps[i]
    BY <1>5 DEF WherePrepared, Shape, TableOK
  <2>2. sweeps[j] # NoSweep
    BY <1>5 DEF Sweep, States, NoSweep
  <2>3. CASE k # j
    BY <1>1, <2>1, <2>3
  <2>4. CASE k = j
    BY <1>5, <2>1, <2>2, <2>4
  <2> QED BY <2>3, <2>4
<1>6. ASSUME NEW p \in Passes, NEW d \in passes[p].due, Note(p, d) PROVE Goal
  <2> HIDE DEF Goal
  <2> QED BY <1>5, <1>6, NoteIs
<1>7. ASSUME NEW p \in Passes, NEW d \in passes[p].due, Threw(p, d) PROVE Goal
  <2> HIDE DEF Goal
  <2> QED BY <1>5, <1>7, ThrewIs
<1>8. ASSUME NEW j \in Keys, FiveMinutesPass(j) PROVE Goal
  <2> DEFINE s == [sweeps[j] EXCEPT !.old = TRUE]
  <2>1. sweeps' = [sweeps EXCEPT ![j] = s] /\ sweeps[j].state = "prepared"
    BY <1>8 DEF FiveMinutesPass
  <2>2. sweeps[j] \in Sweep /\ sweeps[j] # NoSweep
    BY <2>1 DEF Shape, TableOK, NoSweep
  <2>3. s.claims = sweeps[j].claims
    BY <2>2 DEF Sweep
  <2> HIDE DEF s
  <2>4. sweeps'[j] = s /\ \A i \in Keys : i # j => sweeps'[i] = sweeps[i]
    BY <2>1 DEF Shape, TableOK
  <2> QED BY <1>1, <2>2, <2>3, <2>4
<1>9. CASE \E p \in Passes : Step(p)
  <2>1. ASSUME NEW p \in Passes, Thinks(p) PROVE Goal
    BY <1>1, <2>1, ThinksIs
  <2>2. PICK p \in Passes : Step(p)
    BY <1>9
  <2>3. \/ Begin(p) \/ Thinks(p)
        \/ \E d \in passes[p].due :
             Hold(p, d) \/ Prepare(p, d) \/ Claim(p, d) \/ Send(p, d) \/ Note(p, d) \/ Threw(p, d)
    BY <2>2, StepIs
  <2>4. ASSUME NEW d, Send(p, d) PROVE Goal
    BY <1>1, <2>4 DEF Send
  <2> HIDE DEF Goal
  <2> QED BY <1>2, <1>3, <1>4, <1>6, <1>7, <2>1, <2>3, <2>4
<1>10. CASE Outside
  <2>1. UNCHANGED sweeps \/ \E j \in Keys : FiveMinutesPass(j)
    BY <1>10 DEF Outside, Arrives, Assign, SetStopped, ClockMoves, Crash, PayoutMoves
  <2> HIDE DEF Goal
  <2> QED BY <1>1, <1>8, <2>1
<1> HIDE DEF Goal
<1> QED BY <1>9, <1>10 DEF Next

\* Only a send makes a payout, and only one, in the window of the clock.
LEMMA NewPayout ==
  ASSUME Shape, Owed, Next, NEW k \in Keys, stage[k] = "none", MayPay(k)'
  PROVE  \E p \in Working : \E d \in passes[p].due :
           /\ passes[p].at = "calling" /\ d.business = passes[p].now /\ d \in Due
           /\ passes[p].window = clock /\ k = KeyOf(passes[p]) /\ k = <<d.business, clock>>
           /\ sweeps[k].claims = d.list /\ sweeps[k].gross = d.owed /\ DueFits(d, clock)
           /\ UNCHANGED <<owner, arrived, sweeps, clock>>
           /\ \A j \in Keys : j # k => (MayPay(j)' <=> MayPay(j))
<1>0. PICK p \in Passes : \E d \in passes[p].due : Send(p, d) /\ k = <<d.business, passes[p].window>>
  BY PayoutsLast
<1>1. PICK d \in passes[p].due : Send(p, d) /\ k = <<d.business, passes[p].window>>
  BY <1>0
<1>2. /\ Works(p, d, "calling") /\ UNCHANGED <<owner, arrived, sweeps, clock, paidBy>>
      /\ \E w \in {"waiting", "flight"} : stage' = [stage EXCEPT ![k] = w]
  <2> DEFINE key == <<d.business, passes[p].window>>
  <2>1. /\ Works(p, d, "calling") /\ UNCHANGED <<owner, arrived, sweeps, clock, paidBy>>
        /\ \E w \in {"waiting", "flight"} : stage' = [stage EXCEPT ![key] = w]
    BY <1>1, SendIs
  <2> HIDE DEF key
  <2> QED BY <1>1, <2>1 DEF key
<1>3. /\ passes[p].at = "calling" /\ p \in Working /\ d \in Due /\ k = KeyOf(passes[p])
      /\ sweeps[k].gross = d.owed /\ d.business = passes[p].now
  BY <1>1, <1>2, WorksIs DEF AtASweep, AtWork, Works
<1>4. PassFits(passes[p]) /\ ClaimFits(passes[p], sweeps)
  BY <1>3 DEF Owed
<1>5. passes[p].window = clock /\ DueFits(d, clock) /\ sweeps[k].claims = d.list
  BY <1>3, <1>4 DEF PassFits, ClaimFits
<1>6. \A j \in Keys : j # k => (MayPay(j)' <=> MayPay(j))
  BY <1>2 DEF MayPay, Shape, PayoutsOK
<1> QED BY <1>1, <1>2, <1>3, <1>5, <1>6

\* No step makes a payout in another window than the clock's, or changes
\* one.
LEMMA ElsewhereLasts ==
  ASSUME Shape, Owed, Next, NEW b, NEW w, w = clock
  PROVE  /\ Others(b, w)' \subseteq Others(b, w) /\ Elsewhere(b, w) \in Nat
         /\ Elsewhere(b, w)' \in Nat /\ Elsewhere(b, w)' <= Elsewhere(b, w)
         /\ \A k \in Others(b, w)' : sweeps'[k].claims = sweeps[k].claims
<1>1. ASSUME NEW k \in Keys, k[2] # clock, MayPay(k)' PROVE stage[k] # "none"
  <2> SUFFICES ASSUME stage[k] = "none" PROVE FALSE
    OBVIOUS
  <2> QED BY <1>1, NewPayout
<1>2. ASSUME NEW k \in Others(b, w)'
      PROVE  /\ k \in Others(b, w) /\ sweeps'[k].claims = sweeps[k].claims
             /\ Gross'[k] = Gross[k]
  <2>1. k \in Keys /\ k[1] = b /\ k[2] # w /\ MayPay(k)'
    BY DEF Others, Of
  <2>2. stage[k] # "none"
    BY <1>1, <2>1
  <2>3. Lasts(k)
    BY <2>1, PayoutsLast
  <2>4. k \in Others(b, w)
    BY <2>1, <2>2, <2>3 DEF Lasts, Others, Of
  <2>5. sweeps[k] # NoSweep
    BY <2>1, <2>2 DEF Shape, TableOK
  <2> QED BY <2>1, <2>2, <2>3, <2>4, <2>5 DEF Lasts, Gross
<1> DEFINE S == Others(b, w)'
           T == Others(b, w)
<1>3. S \subseteq T /\ T \in SUBSET Of(b) /\ IsFiniteSet(T) /\ \A k \in T : Gross[k] \in Nat
  BY <1>2, OfIs, GrossOf DEF Others
<1>4. \A k \in S : Gross'[k] \in Nat /\ Gross'[k] = Gross[k]
  BY <1>2, <1>3
<1> HIDE DEF S, T
<1>5. IsFiniteSet(S) /\ SumFunctionOnSet(Gross', S) = SumFunctionOnSet(Gross, S)
  <2>1. IsFiniteSet(S)
    BY <1>3, FS_Subset
  <2>2. \A k \in S : Gross'[k] \in Int /\ Gross'[k] = Gross[k]
    BY <1>4
  <2> QED BY <2>1, <2>2, SumSame
<1>6. SumFunctionOnSet(Gross, S) <= SumFunctionOnSet(Gross, T) /\ SumFunctionOnSet(Gross, T) \in Nat
  BY <1>3, SumOfPart, SumNat
<1>7. SumFunctionOnSet(Gross', S) \in Nat
  BY <1>4, <1>5, SumNat
<1> QED BY <1>2, <1>3, <1>5, <1>6, <1>7 DEF S, T, Elsewhere

\* What a pass read and found owed still fits after a step.
LEMMA FitsLast ==
  ASSUME Shape, Owed, Next, Calm, NEW w, w = clock
  PROVE  /\ \A r \in Reading : (r.business = Nobody => r.got = {}) /\ ReadFits(r, w) => ReadFits(r, w)'
         /\ \A d \in Due : DueFits(d, w) => DueFits(d, w)'
<1>1. ASSUME NEW r \in Reading, r.business = Nobody => r.got = {}, ReadFits(r, w) PROVE ReadFits(r, w)'
  <2>1. CASE r.business = Nobody
    BY <1>1, <2>1 DEF ReadFits
  <2>2. CASE r.business \in Businesses
    <3> DEFINE b == r.business
    <3>1. Owned(b) \subseteq Owned(b)'
      BY <2>2, OwnedGrows
    <3>2. /\ Others(b, w)' \subseteq Others(b, w) /\ Elsewhere(b, w) \in Nat
          /\ Elsewhere(b, w)' \in Nat /\ Elsewhere(b, w)' <= Elsewhere(b, w)
          /\ \A k \in Others(b, w)' : sweeps'[k].claims = sweeps[k].claims
      BY ElsewhereLasts
    <3>3. r.gross \in Nat
      BY <1>1 DEF Reading
    <3>4. "gross" \in r.got => Elsewhere(b, w)' <= r.gross
      <4> DEFINE m == Elsewhere(b, w)
                 n == Elsewhere(b, w)'
      <4>1. "gross" \in r.got => m <= r.gross
        BY <1>1 DEF ReadFits
      <4>2. m \in Nat /\ n \in Nat /\ n <= m
        BY <3>2
      <4> HIDE DEF m, n
      <4>3. "gross" \in r.got => n <= r.gross
        BY <3>3, <4>1, <4>2
      <4> QED BY <4>3 DEF n
    <3> QED BY <1>1, <3>1, <3>2, <3>4 DEF ReadFits
  <2> QED BY <1>1, <2>1, <2>2 DEF Reading
<1>2. ASSUME NEW d \in Due, DueFits(d, w) PROVE DueFits(d, w)'
  <2> DEFINE b == d.business
  <2>0. b \in Businesses /\ d.owed \in Nat
    BY DEF Due
  <2>1. /\ Owned(b) \subseteq Owned(b)' /\ Worth(Owned(b)) \in Nat
        /\ Worth(Owned(b)') \in Nat /\ Worth(Owned(b)) <= Worth(Owned(b)')
    BY <2>0, OwnedGrows
  <2>2. /\ Others(b, w)' \subseteq Others(b, w) /\ Elsewhere(b, w) \in Nat
        /\ Elsewhere(b, w)' \in Nat /\ Elsewhere(b, w)' <= Elsewhere(b, w)
        /\ \A k \in Others(b, w)' : sweeps'[k].claims = sweeps[k].claims
    BY ElsewhereLasts
  <2>3. Elsewhere(b, w)' + d.owed <= Worth(Owned(b)')
    <3> DEFINE m == Elsewhere(b, w)
               n == Elsewhere(b, w)'
               all == Worth(Owned(b))
               more == Worth(Owned(b)')
    <3>1. m + d.owed <= all
      BY <1>2 DEF DueFits
    <3>2. m \in Nat /\ n \in Nat /\ n <= m /\ all \in Nat /\ more \in Nat /\ all <= more
      BY <2>1, <2>2
    <3> HIDE DEF m, n, all, more
    <3>3. n + d.owed <= more
      BY <2>0, <3>1, <3>2
    <3> QED BY <3>3 DEF n, more
  <2> QED BY <1>2, <2>1, <2>2, <2>3 DEF DueFits
<1> QED BY <1>1, <1>2

\* A pass that neither reads nor finds more fits as before.
LEMMA PassFitsOn ==
  ASSUME Shape, Owed, Next, Calm, clock' = clock, NEW p \in Working,
         NEW z, z.window = passes[p].window, z.read = passes[p].read, z.due \subseteq passes[p].due
  PROVE  PassFits(z)'
<1>1. passes[p] \in Pass /\ Orderly(passes[p]) /\ PassFits(passes[p])
  BY DEF Shape, Working, PassOK, Owed
<1>2. passes[p].read \in Reading /\ (passes[p].read.business = Nobody => passes[p].read.got = {})
      /\ passes[p].due \subseteq Due
  BY <1>1 DEF Orderly, Pass
<1> DEFINE x == passes[p]
           w == x.window
<1>3. w = clock /\ ReadFits(x.read, w) /\ \A d \in x.due : DueFits(d, w)
  BY <1>1 DEF PassFits
<1>4. PICK y : y = x
  OBVIOUS
<1>5. PICK v : v = w
  OBVIOUS
<1>6. v = clock /\ ReadFits(y.read, v) /\ \A d \in y.due : DueFits(d, v)
  BY <1>3, <1>4, <1>5
<1>7. ReadFits(y.read, v)' /\ \A d \in y.due : DueFits(d, v)'
  BY <1>2, <1>4, <1>6, FitsLast
<1>8. z.window = v /\ z.read = y.read /\ z.due \subseteq y.due
  BY <1>4, <1>5
<1> HIDE DEF x, w
<1>9. v = clock'
  BY <1>6
<1> QED BY <1>7, <1>8, <1>9 DEF PassFits

\* What a pass that reads then holds in memory.
LEMMA ReadIs ==
  ASSUME Shape, NEW p \in Passes, NEW b \in Businesses, Read(p, b)
  PROVE  LET x == passes[p]
             r == x.read
         IN /\ x.at = "reading" /\ UNCHANGED <<owner, arrived, sweeps, clock, stage, paidBy>>
            /\ r \in Reading /\ (r.business = b \/ r.got = {})
            /\ \E y \in Reading :
                 /\ passes' = [passes EXCEPT ![p] = [x EXCEPT !.read = y]] /\ y.business = b
                 /\ \/ y.rows = Owned(b) /\ y.gross = r.gross /\ y.taken = r.taken
                       /\ y.got = r.got \cup {"rows"}
                    \/ y.rows = r.rows /\ y.taken = r.taken /\ y.got = r.got \cup {"gross"}
                       /\ y.gross = SumFunctionOnSet(Gross, ClaimedBy(b))
                    \/ y.rows = r.rows /\ y.gross = r.gross /\ y.got = r.got \cup {"taken"}
                       /\ y.taken = UNION {sweeps[k].claims : k \in ClaimedBy(b)}
<1> DEFINE x == passes[p]
           r == x.read
<1>1. x.at = "reading" /\ UNCHANGED <<owner, arrived, sweeps, clock, stage, paidBy>>
      /\ (r.business = Nobody \/ r.business = b)
  BY DEF Read, ReadPayments, ReadClaimedSum, ReadClaimedList, Got, Reads, money, payouts
<1>2. x \in Pass /\ Orderly(x)
  BY <1>1, NotAtASweep
<1>3. r \in Reading /\ (r.business = b \/ r.got = {})
  BY <1>1, <1>2 DEF Orderly, Pass
<1>4. ASSUME NEW y PROVE [passes EXCEPT ![p].read = y] = [passes EXCEPT ![p] = [x EXCEPT !.read = y]]
  BY DEF Shape
<1>5. CASE ReadPayments(p, b)
  <2> DEFINE v == Owned(b)
             y == [[r EXCEPT !.rows = v] EXCEPT !.business = b, !.got = @ \cup {"rows"}]
  <2>1. passes' = [passes EXCEPT ![p].read = y]
    BY <1>5 DEF ReadPayments, Got, Owned
  <2>2. v \in SUBSET Rows
    BY DEF Owned
  <2> HIDE DEF v
  <2>3. y \in Reading /\ y.business = b /\ y.rows = v /\ y.gross = r.gross /\ y.taken = r.taken
        /\ y.got = r.got \cup {"rows"}
    BY <1>3, <2>2 DEF Reading
  <2> HIDE DEF y, r, x
  <2> QED BY <1>1, <1>3, <1>4, <2>1, <2>3 DEF v, r, x
<1>6. CASE ReadClaimedSum(p, b)
  <2> DEFINE g == [k \in ClaimedBy(b) |-> sweeps[k].gross]
             v == SumFunction(g)
             y == [[r EXCEPT !.gross = v] EXCEPT !.business = b, !.got = @ \cup {"gross"}]
  <2>1. passes' = [passes EXCEPT ![p].read = y]
    BY <1>6 DEF ReadClaimedSum, Got
  <2>2. v = SumFunctionOnSet(Gross, ClaimedBy(b)) /\ v \in Nat
    <3>1. ClaimedBy(b) \subseteq {k \in Keys : sweeps[k] # NoSweep}
      BY DEF ClaimedBy, Claiming, NoSweep
    <3>2. IsFiniteSet(ClaimedBy(b))
      BY <3>1, FS_Subset DEF Shape, TableOK
    <3>3. \A k \in ClaimedBy(b) : g[k] \in Nat /\ g[k] = Gross[k]
      BY <3>1 DEF Gross, Shape, TableOK, Sweep
    <3>4. DOMAIN g = ClaimedBy(b)
      OBVIOUS
    <3> HIDE DEF g
    <3>5. SumFunctionOnSet(g, ClaimedBy(b)) = SumFunctionOnSet(Gross, ClaimedBy(b))
      BY <3>2, <3>3, SumSame
    <3>6. SumFunctionOnSet(g, ClaimedBy(b)) \in Nat
      BY <3>2, <3>3, SumNat
    <3> QED BY <3>4, <3>5, <3>6, SumOverDomain
  <2> HIDE DEF v
  <2>3. y \in Reading /\ y.business = b /\ y.gross = v /\ y.rows = r.rows /\ y.taken = r.taken
        /\ y.got = r.got \cup {"gross"}
    BY <1>3, <2>2 DEF Reading
  <2> HIDE DEF y, r, x
  <2> QED BY <1>1, <1>3, <1>4, <2>1, <2>2, <2>3 DEF r, x
<1>7. CASE ReadClaimedList(p, b)
  <2> DEFINE v == UNION {sweeps[k].claims : k \in ClaimedBy(b)}
             y == [[r EXCEPT !.taken = v] EXCEPT !.business = b, !.got = @ \cup {"taken"}]
  <2>1. passes' = [passes EXCEPT ![p].read = y]
    BY <1>7 DEF ReadClaimedList, Got
  <2>2. v \in SUBSET Rows
    BY DEF ClaimedBy, Claiming, NoSweep, Shape, TableOK, Sweep
  <2> HIDE DEF v
  <2>3. y \in Reading /\ y.business = b /\ y.taken = v /\ y.rows = r.rows /\ y.gross = r.gross
        /\ y.got = r.got \cup {"taken"}
    BY <1>3, <2>2 DEF Reading
  <2> HIDE DEF y, r, x
  <2> QED BY <1>1, <1>3, <1>4, <2>1, <2>3 DEF v, r, x
<1> QED BY <1>5, <1>6, <1>7 DEF Read

\* What a pass reads as claimed holds every payout that is possible.
LEMMA ClaimedCovers ==
  ASSUME Shape, Told, NEW b, NEW w
  PROVE  /\ Others(b, w) \subseteq ClaimedBy(b)
         /\ Elsewhere(b, w) <= SumFunctionOnSet(Gross, ClaimedBy(b))
<1>1. ASSUME NEW k \in Others(b, w) PROVE k \in ClaimedBy(b)
  <2>1. k \in Of(b) /\ k \in Keys /\ k[1] = b /\ MayPay(k)
    BY DEF Others, Of
  <2>2. sweeps[k] \in Sweep /\ sweeps[k].state \notin {"failed", "held"}
    BY <2>1, OfIs DEF Told, RowTold
  <2>3. sweeps[k].state \in Claiming
    BY <2>2 DEF Sweep, States, Claiming
  <2> QED BY <2>1, <2>3 DEF ClaimedBy
<1>2. ClaimedBy(b) \subseteq {k \in Keys : sweeps[k] # NoSweep}
  BY DEF ClaimedBy, Claiming, NoSweep
<1>3. IsFiniteSet(ClaimedBy(b)) /\ ClaimedBy(b) \subseteq Keys
  BY <1>2, FS_Subset DEF Shape, TableOK
<1>4. \A k \in ClaimedBy(b) : Gross[k] \in Nat
  BY <1>3, OfIs
<1>5. Elsewhere(b, w) <= SumFunctionOnSet(Gross, ClaimedBy(b))
  <2>1. Others(b, w) \subseteq ClaimedBy(b)
    BY <1>1
  <2> QED BY <1>3, <1>4, <2>1, SumOfPart DEF Elsewhere
<1> QED BY <1>1, <1>5

\* What a pass reads fits what is owed.
LEMMA ReadOwed ==
  ASSUME Shape, Told, Owed, Next, Calm, NEW p \in Passes, NEW b \in Businesses, Read(p, b)
  PROVE  PassFits(passes[p])'
<1> DEFINE x == passes[p]
           r == x.read
           w == x.window
<1>1. /\ x.at = "reading" /\ UNCHANGED <<owner, arrived, sweeps, clock, stage, paidBy>>
      /\ r \in Reading /\ (r.business = b \/ r.got = {})
  BY ReadIs
<1>2. PICK y \in Reading :
        /\ passes' = [passes EXCEPT ![p] = [x EXCEPT !.read = y]] /\ y.business = b
        /\ \/ y.rows = Owned(b) /\ y.gross = r.gross /\ y.taken = r.taken
              /\ y.got = r.got \cup {"rows"}
           \/ y.rows = r.rows /\ y.taken = r.taken /\ y.got = r.got \cup {"gross"}
              /\ y.gross = SumFunctionOnSet(Gross, ClaimedBy(b))
           \/ y.rows = r.rows /\ y.gross = r.gross /\ y.got = r.got \cup {"taken"}
              /\ y.taken = UNION {sweeps[k].claims : k \in ClaimedBy(b)}
  BY ReadIs
<1>3. p \in Working /\ x \in Pass
  BY <1>1, NotAtASweep DEF Working
<1>4. PassFits(x)
  BY <1>3 DEF Owed
<1>5. ReadFits(y, w)
  <2>1. ReadFits(r, w)
    BY <1>4 DEF PassFits
  <2>2. /\ Others(b, w) \subseteq ClaimedBy(b)
        /\ Elsewhere(b, w) <= SumFunctionOnSet(Gross, ClaimedBy(b))
    BY ClaimedCovers
  <2>3. "rows" \in y.got => y.rows \subseteq Owned(b)
    BY <1>1, <1>2, <2>1 DEF ReadFits
  <2>4. "gross" \in y.got => Elsewhere(b, w) <= y.gross
    BY <1>1, <1>2, <2>1, <2>2 DEF ReadFits
  <2>5. "taken" \in y.got => \A k \in Others(b, w) : sweeps[k].claims \subseteq y.taken
    BY <1>1, <1>2, <2>1, <2>2 DEF ReadFits
  <2> QED BY <1>2, <2>3, <2>4, <2>5 DEF ReadFits
<1>6. PICK z : z = [x EXCEPT !.read = y]
  OBVIOUS
<1>7. z.window = w /\ z.read = y /\ z.due = x.due
  BY <1>3, <1>6 DEF Pass
<1>8. PassFits(z)
  BY <1>4, <1>5, <1>7 DEF PassFits
<1>9. PassFits(z)'
  BY <1>1, <1>8 DEF PassFits, ReadFits, DueFits, Owned, Elsewhere, Others, Of, Gross, MayPay
<1>10. passes'[p] = z
  BY <1>2, <1>6 DEF Shape
<1> QED BY <1>9, <1>10

\* What a pass finds owed fits what it read.
LEMMA ConsiderOwed ==
  ASSUME Shape, Owed, Next, Calm, NEW p \in Passes, Consider(p)
  PROVE  PassFits(passes[p])'
<1> DEFINE x == passes[p]
           r == x.read
           w == x.window
<1>1. /\ x.at = "reading" /\ r.got = {"rows", "gross", "taken"}
      /\ UNCHANGED <<owner, arrived, sweeps, clock, stage, paidBy>>
  BY DEF Consider, money, payouts
<1>2. p \in Working /\ x \in Pass /\ Orderly(x)
  BY <1>1, NotAtASweep DEF Working
<1>3. PICK z : z = Considered(x)
  OBVIOUS
<1>4. PICK d : d = Found(r)
  OBVIOUS
<1>5. /\ z.window = w /\ z.read = Unread /\ z.due \subseteq x.due \cup {d}
      /\ d \in z.due => (d \in x.due \/ (d.owed > 0 /\ d \in Due))
      /\ d.business = r.business /\ d.list = r.rows \ r.taken /\ d.owed = Worth(r.rows) - r.gross
  BY <1>1, <1>2, <1>3, <1>4, ConsideredIs
<1>6. PassFits(x)
  BY <1>2 DEF Owed
<1>7. DueFits(d, w)
  <2> DEFINE b == d.business
             m == Elsewhere(b, w)
             all == Worth(Owned(b))
             read == Worth(r.rows)
  <2>1. /\ r.rows \subseteq Owned(b) /\ m <= r.gross
        /\ \A k \in Others(b, w) : sweeps[k].claims \subseteq r.taken
    BY <1>1, <1>5, <1>6 DEF PassFits, ReadFits
  <2>2. m \in Nat
    <3>1. Others(b, w) \in SUBSET Of(b)
      BY DEF Others
    <3> QED BY <3>1, GrossOf DEF Elsewhere
  <2>3. all \in Nat /\ read \in Nat /\ read <= all
    <3>1. Owned(b) \in SUBSET Rows
      BY DEF Owned
    <3>2. r.rows \in SUBSET Rows
      BY <1>2 DEF Pass, Reading
    <3> QED BY <2>1, <3>1, <3>2, WorthIs
  <2>4. r.gross \in Nat
    BY <1>2 DEF Pass, Reading
  <2>5. m + d.owed <= all
    <3>1. d.owed = read - r.gross
      BY <1>5
    <3> HIDE DEF m, all, read, r
    <3> QED BY <2>1, <2>2, <2>3, <2>4, <3>1
  <2> QED BY <1>5, <2>1, <2>5 DEF DueFits
<1>8. ReadFits(Unread, w)
  BY DEF ReadFits, Unread
<1>9. PassFits(z)
  BY <1>5, <1>6, <1>7, <1>8 DEF PassFits
<1>10. PassFits(z)'
  BY <1>1, <1>9 DEF PassFits, ReadFits, DueFits, Owned, Elsewhere, Others, Of, Gross, MayPay
<1>11. passes'[p] = z
  BY <1>3 DEF Consider, Shape
<1> QED BY <1>10, <1>11

\* A pass goes on with what it read and found.
Carries(p) ==
  /\ p \in Working /\ passes'[p].window = passes[p].window
  /\ passes'[p].read = passes[p].read /\ passes'[p].due \subseteq passes[p].due
  /\ passes'[p].at \in {"calling", "noting"} =>
       \E d \in passes[p].due : Claim(p, d) \/ Send(p, d)

\* The steps of a pass that neither begin nor read.
LEMMA WorkIs ==
  ASSUME Shape, NEW p \in Passes, Step(p)
  PROVE  \/ Begin(p) \/ Consider(p) \/ (\E b \in Businesses : Read(p, b))
         \/ passes'[p] = Idle \/ Carries(p)
<1> DEFINE x == passes[p]
           z == passes'[p]
           Goal == /\ p \in Working /\ z.window = x.window /\ z.read = x.read /\ z.due \subseteq x.due
                   /\ z.at \in {"calling", "noting"} => \E d \in x.due : Claim(p, d) \/ Send(p, d)
<1>1. ASSUME NEW d, NEW left \in Nat \cup {Unknown}, x # Idle, x.at # "reading",
             left = Unknown => x.handed = {}, passes' = NextBusiness(p, d, left)
      PROVE  Goal
  <2>1. x \in Pass /\ Orderly(x) /\ p \in Working
    BY <1>1, PassIs DEF PassOK
  <2>2. z = Done(x, d, left)
    BY <1>1, NextBusinessIs DEF Shape
  <2>3. z.window = x.window /\ z.read = x.read /\ z.due \subseteq x.due /\ z.at = "choosing"
    BY <1>1, <2>1, <2>2, DoneIs
  <2> QED BY <2>1, <2>3
<1>2. ASSUME ReadingEnds(p) PROVE Goal
  <2>1. x.at = "reading" /\ \E f : z = [x EXCEPT !.at = "choosing", !.float = f, !.left = f]
    BY <1>2 DEF ReadingEnds, Shape
  <2>2. x \in Pass /\ p \in Working
    BY <2>1, NotAtASweep DEF Working
  <2> QED BY <2>1, <2>2 DEF Pass
<1>3. ASSUME End(p) PROVE passes'[p] = Idle
  BY <1>3 DEF End, Shape
<1>4. ASSUME NEW d \in x.due, Skip(p, d) \/ Hold(p, d) PROVE Goal
  <2>1. Turn(p, d) /\ passes' = NextBusiness(p, d, x.left)
    BY <1>4 DEF Skip, Hold
  <2>2. x.at = "choosing" /\ x # Idle /\ x.left \in Nat \cup {Unknown} /\ (x.left = Unknown => x.handed = {})
    BY <2>1, TurnIs
  <2> HIDE DEF Goal
  <2> QED BY <1>1, <2>1, <2>2
<1>5. ASSUME NEW d \in x.due, Prepare(p, d) PROVE Goal
  <2> DEFINE k == <<d.business, x.window>>
             left == IF sweeps[k].state \in Claiming THEN Spent(p, d) ELSE x.left
  <2>1. Turn(p, d) /\ Obstacle(p, d) = "none"
    BY <1>5 DEF Prepare
  <2>2. /\ x.at = "choosing" /\ x # Idle /\ left \in Nat /\ left # Unknown
    BY <2>1, TurnIs
  <2>3. CASE passes' = NextBusiness(p, d, left)
    <3> HIDE DEF left, Goal
    <3> QED BY <1>1, <2>2, <2>3
  <2>4. CASE passes' = [passes EXCEPT ![p].at = "claiming", ![p].now = d.business]
    <3>1. z = [x EXCEPT !.at = "claiming", !.now = d.business]
      BY <2>4 DEF Shape
    <3>2. x \in Pass /\ p \in Working
      BY <2>2, PassIs
    <3> QED BY <3>1, <3>2 DEF Pass
  <2> QED BY <1>5, <2>3, <2>4 DEF Prepare
<1>6. ASSUME NEW d \in x.due, Claim(p, d) PROVE Goal
  <2>1. /\ Works(p, d, "claiming") /\ passes' = [passes EXCEPT ![p] = [x EXCEPT !.at = "calling"]]
        /\ LET y == [x EXCEPT !.at = "calling"]
           IN  y.window = x.window /\ y.read = x.read /\ y.due = x.due
    BY <1>6, ClaimIs
  <2>2. z = [x EXCEPT !.at = "calling"]
    BY <2>1 DEF Shape
  <2>3. p \in Working
    BY <2>1, WorksIs DEF AtASweep, AtWork
  <2> HIDE DEF z, x
  <2> QED BY <1>6, <2>1, <2>2, <2>3 DEF x, z
<1>7. ASSUME NEW d \in x.due, Send(p, d) PROVE Goal
  <2> DEFINE k == <<d.business, x.window>>
             y == HandsOver(x, k)
  <2>1. /\ Works(p, d, "calling") /\ passes' = [passes EXCEPT ![p] = y]
        /\ y.window = x.window /\ y.read = x.read /\ y.due = x.due
    BY <1>7, SendIs
  <2>2. z = y
    BY <2>1 DEF Shape
  <2>3. p \in Working
    BY <2>1, WorksIs DEF AtASweep, AtWork
  <2> HIDE DEF z, x, y
  <2> QED BY <1>7, <2>1, <2>2, <2>3 DEF x, z
<1>8. ASSUME NEW d \in x.due, Note(p, d) \/ Threw(p, d) PROVE Goal
  <2>1. PICK left \in Nat, at \in AtASweep :
          left # Unknown /\ passes' = NextBusiness(p, d, left) /\ Works(p, d, at)
    <3>1. CASE Note(p, d)
      BY <3>1, NoteIs DEF AtASweep
    <3>2. CASE Threw(p, d)
      BY <3>2, ThrewIs DEF AtASweep
    <3> QED BY <1>8, <3>1, <3>2
  <2>2. x # Idle /\ x.at # "reading"
    BY <2>1, WorksIs DEF AtASweep
  <2> HIDE DEF Goal
  <2> QED BY <1>1, <2>1, <2>2
<1> HIDE DEF Goal, x
<1>9. \/ Begin(p) \/ Consider(p) \/ (\E b \in Businesses : Read(p, b)) \/ passes'[p] = Idle \/ Goal
  <2>1. \/ Begin(p) \/ Thinks(p)
        \/ \E d \in x.due :
             Hold(p, d) \/ Prepare(p, d) \/ Claim(p, d) \/ Send(p, d) \/ Note(p, d) \/ Threw(p, d)
    BY StepIs DEF x
  <2>2. CASE Thinks(p)
    <3>1. \/ Consider(p) \/ ReadingEnds(p) \/ End(p) \/ (\E b \in Businesses : Read(p, b))
          \/ \E d \in x.due : Skip(p, d)
      BY <2>2 DEF Thinks, x
    <3> QED BY <1>2, <1>3, <1>4, <3>1
  <2> QED BY <1>4, <1>5, <1>6, <1>7, <1>8, <2>1, <2>2
<1> QED BY <1>9 DEF Goal, x, z, Carries

\* Every pass at work fits after a step.
LEMMA PassesFit ==
  ASSUME Shape, Told, Owed, Next, Calm
  PROVE  \A q \in Working' : PassFits(passes[q])'
<1>1. ASSUME NEW q \in Working, clock' = clock, passes'[q] = passes[q] PROVE PassFits(passes[q])'
  <2>1. PICK z : z = passes[q]
    OBVIOUS
  <2>2. PassFits(z)'
    BY <1>1, <2>1, PassFitsOn
  <2> QED BY <1>1, <2>1, <2>2
<1>2. ASSUME NEW p \in Passes, Step(p), NEW q \in Working' PROVE PassFits(passes[q])'
  <2>0. clock' = clock /\ q \in Passes /\ passes'[q] # Idle
    BY <1>2, MoneyStays DEF Working
  <2>1. CASE q # p
    <3>1. passes'[q] = passes[q] /\ q \in Working
      BY <1>2, <2>0, <2>1, OtherPassesStay DEF Working
    <3> QED BY <1>1, <2>0, <3>1
  <2>2. CASE q = p
    <3>1. CASE Begin(p)
      <4>1. passes'[p].window = clock /\ passes'[p].read = Unread /\ passes'[p].due = {}
        BY <3>1, BeginIs DEF Shape
      <4> QED BY <2>0, <2>2, <4>1 DEF PassFits, ReadFits, Unread
    <3>2. CASE Consider(p)
      BY <2>2, <3>2, ConsiderOwed
    <3>3. CASE \E b \in Businesses : Read(p, b)
      BY <2>2, <3>3, ReadOwed
    <3>4. CASE Carries(p)
      <4>1. PICK z : z = passes'[p]
        OBVIOUS
      <4>2. PassFits(z)'
        BY <2>0, <3>4, <4>1, PassFitsOn DEF Carries
      <4> QED BY <2>2, <4>1, <4>2
    <3> QED BY <1>2, <2>0, <2>2, <3>1, <3>2, <3>3, <3>4, WorkIs
  <2> QED BY <2>1, <2>2
<1>3. CASE Outside
  <2>1. \/ UNCHANGED <<passes, clock>>
        \/ \A q \in Passes : passes'[q] = Idle
    BY <1>3 DEF Outside, Arrives, Assign, SetStopped, ClockMoves, FiveMinutesPass, PayoutMoves, Crash,
                AllIdle, Calm
  <2>2. \A q \in Working' : q \in Working /\ UNCHANGED clock /\ passes'[q] = passes[q]
    BY <2>1 DEF Working
  <2> QED BY <1>1, <2>2
<1> QED BY <1>2, <1>3 DEF Next

\* Past claiming, a row goes on claiming what its pass found.
LEMMA ClaimsFit ==
  ASSUME Shape, Owed, Next
  PROVE  \A q \in Working' : ClaimFits(passes'[q], sweeps')
<1>1. ASSUME NEW q \in Working, passes'[q] = passes[q] PROVE ClaimFits(passes'[q], sweeps')
  <2> DEFINE x == passes[q]
  <2>1. SUFFICES ASSUME x.at \in {"calling", "noting"}, NEW d \in x.due, d.business = x.now
                 PROVE  sweeps'[KeyOf(x)].claims = d.list
    BY <1>1 DEF ClaimFits
  <2>2. x \in Pass /\ Orderly(x) /\ ClaimFits(x, sweeps)
    BY DEF Shape, Working, PassOK, Owed
  <2>3. q \in AtWork
    BY <2>1, <2>2 DEF AtWork, Orderly, AtASweep
  <2>4. KeyOf(x) \in Keys /\ sweeps[KeyOf(x)] # NoSweep
    BY <2>3, AtWorkIs
  <2>5. ASSUME NEW p \in Passes, NEW e \in passes[p].due, Claim(p, e), KeyOf(x) = <<e.business, passes[p].window>>
        PROVE  FALSE
    <3>1. Works(p, e, "claiming")
      BY <2>5, ClaimIs
    <3>2. passes[p].at = "claiming" /\ p \in AtWork /\ KeyOf(passes[p]) = KeyOf(x)
      BY <2>5, <3>1, WorksIs DEF AtASweep
    <3>3. p = q
      BY <2>3, <3>2 DEF Shape, Alone
    <3> QED BY <2>1, <3>2, <3>3
  <2>6. sweeps'[KeyOf(x)].claims = sweeps[KeyOf(x)].claims
    BY <2>4, <2>5, RowsMove
  <2> QED BY <2>1, <2>2, <2>6 DEF ClaimFits
<1>2. ASSUME NEW p \in Passes, Step(p), p \in Working' PROVE ClaimFits(passes'[p], sweeps')
  <2> DEFINE x == passes[p]
             z == passes'[p]
  <2>0. z # Idle
    BY <1>2 DEF Working
  <2>1. ASSUME NEW d \in x.due, Claim(p, d) PROVE ClaimFits(z, sweeps')
    <3> DEFINE k == <<d.business, x.window>>
               s == [sweeps[k] EXCEPT !.claims = d.list]
               y == [x EXCEPT !.at = "calling"]
    <3>1. /\ Works(p, d, "claiming") /\ k \in Keys /\ sweeps' = [sweeps EXCEPT ![k] = s] /\ s.claims = d.list
          /\ passes' = [passes EXCEPT ![p] = y] /\ y.due = x.due /\ y.now = x.now /\ KeyOf(y) = k
      BY <2>1, ClaimIs
    <3>2. sweeps'[k] = s /\ z = y
      BY <3>1 DEF Shape, TableOK
    <3>3. Orderly(x) /\ d.business = x.now
      BY <3>1, WorksIs DEF AtASweep, AtWork, Shape, PassOK, Works
    <3> HIDE DEF k, s, y, z, x
    <3> QED BY <3>1, <3>2, <3>3, <2>1 DEF ClaimFits, Orderly
  <2>2. ASSUME NEW d \in x.due, Send(p, d) PROVE ClaimFits(z, sweeps')
    <3> DEFINE k == <<d.business, x.window>>
               y == HandsOver(x, k)
    <3>1. /\ Works(p, d, "calling") /\ UNCHANGED sweeps
          /\ passes' = [passes EXCEPT ![p] = y] /\ y.due = x.due /\ y.now = x.now /\ KeyOf(y) = k
      BY <2>2, SendIs
    <3>2. z = y
      BY <3>1 DEF Shape
    <3>3. ClaimFits(x, sweeps) /\ x.at = "calling" /\ KeyOf(x) = k
      BY <3>1, WorksIs DEF AtASweep, AtWork, Owed
    <3> HIDE DEF k, y, z, x
    <3> QED BY <3>1, <3>2, <3>3 DEF ClaimFits
  <2>3. CASE Begin(p)
    <3>1. z.at = "reading"
      BY <2>3, BeginIs DEF Shape
    <3> QED BY <3>1 DEF ClaimFits
  <2>4. CASE Consider(p)
    <3>1. x.at = "reading" /\ x.read.got # {} /\ z = Considered(x)
      BY <2>4 DEF Consider, Shape
    <3>2. x \in Pass /\ Orderly(x)
      BY <3>1, NotAtASweep
    <3>3. z.at = "reading"
      BY <3>1, <3>2, ConsideredIs
    <3> QED BY <3>3 DEF ClaimFits
  <2>5. ASSUME NEW b \in Businesses, Read(p, b) PROVE ClaimFits(z, sweeps')
    <3>1. x.at = "reading" /\ \E y : passes' = [passes EXCEPT ![p] = [x EXCEPT !.read = y]]
      BY <2>5, ReadIs
    <3>2. x \in Pass
      BY <3>1, NotAtASweep
    <3>3. z.at = "reading"
      BY <3>1, <3>2 DEF Pass, Shape
    <3> HIDE DEF z
    <3> QED BY <3>3 DEF ClaimFits
  <2>6. CASE ~(z.at \in {"calling", "noting"})
    BY <2>6 DEF ClaimFits
  <2>7. Begin(p) \/ Consider(p) \/ (\E b \in Businesses : Read(p, b)) \/ Carries(p)
    BY <1>2, <2>0, WorkIs
  <2> HIDE DEF z, x
  <2>8. ClaimFits(z, sweeps')
    BY <2>1, <2>2, <2>3, <2>4, <2>5, <2>6, <2>7 DEF z, x, Carries
  <2> QED BY <2>8 DEF z
<1>3. CASE \E p \in Passes : Step(p)
  <2>1. PICK p \in Passes : Step(p)
    BY <1>3
  <2>2. ASSUME NEW q \in Working', q # p PROVE q \in Working /\ passes'[q] = passes[q]
    BY <2>1, <2>2, OtherPassesStay DEF Working
  <2> QED BY <1>1, <1>2, <2>1, <2>2 DEF Working
<1>4. CASE Outside
  <2>1. UNCHANGED passes \/ \A q \in Passes : passes'[q] = Idle
    BY <1>4 DEF Outside, Arrives, Assign, SetStopped, ClockMoves, FiveMinutesPass, PayoutMoves, Crash
  <2>2. \A q \in Working' : q \in Working /\ passes'[q] = passes[q]
    BY <2>1 DEF Working
  <2> QED BY <1>1, <2>2
<1> QED BY <1>3, <1>4 DEF Next

\* Every step keeps what is owed.
LEMMA OwedStep ==
  ASSUME Shape, Told, Owed, Next, Calm PROVE Owed'
<1>1. \A q \in Working' : PassFits(passes[q])'
  BY PassesFit
<1>2. \A q \in Working' : ClaimFits(passes'[q], sweeps')
  BY ClaimsFit
<1>3. ASSUME NEW k \in Keys, sweeps'[k] # NoSweep PROVE sweeps'[k].claims \subseteq Owned(k[1])'
  <2>1. k[1] \in Businesses /\ Owned(k[1]) \subseteq Owned(k[1])'
    BY OwnedGrows DEF Keys
  <2>2. sweeps'[k].claims \subseteq Owned(k[1])
    <3>1. CASE sweeps[k] # NoSweep /\ sweeps'[k].claims = sweeps[k].claims
      BY <3>1 DEF Owed
    <3>2. ASSUME NEW p \in Working, NEW d \in passes[p].due, k = <<d.business, passes[p].window>>,
                 sweeps'[k].claims \subseteq d.list
          PROVE  sweeps'[k].claims \subseteq Owned(k[1])
      BY <3>2 DEF Owed, PassFits, DueFits
    <3> QED BY <1>3, <3>1, <3>2, RowsMove
  <2> QED BY <2>1, <2>2
<1>4. ASSUME NEW b \in Businesses
      PROVE  SumFunctionOnSet(Gross', Of(b)') <= Worth(Owned(b)')
  <2>0. /\ Owned(b) \subseteq Owned(b)' /\ Worth(Owned(b)) \in Nat
        /\ Worth(Owned(b)') \in Nat /\ Worth(Owned(b)) <= Worth(Owned(b)')
    BY OwnedGrows
  <2>1. ASSUME NEW k \in Of(b)', stage[k] # "none"
        PROVE  k \in Of(b) /\ Gross'[k] = Gross[k]
    <3>1. k \in Keys /\ k[1] = b /\ MayPay(k)' /\ Lasts(k)
      BY PayoutsLast DEF Of
    <3>2. sweeps[k] # NoSweep
      BY <2>1, <3>1 DEF Shape, TableOK
    <3> QED BY <2>1, <3>1, <3>2 DEF Lasts, Of, Gross
  <2>2. CASE \A k \in Of(b)' : stage[k] # "none"
    <3> DEFINE S == Of(b)'
               T == Of(b)
    <3>1. S \subseteq T /\ \A k \in S : Gross'[k] = Gross[k]
      BY <2>1, <2>2
    <3>2. IsFiniteSet(T) /\ \A k \in T : Gross[k] \in Nat
      BY OfIs
    <3> DEFINE m == SumFunctionOnSet(Gross', S)
               n == SumFunctionOnSet(Gross, T)
               all == Worth(Owned(b))
               more == Worth(Owned(b)')
    <3>3. m <= n /\ n \in Nat /\ m \in Nat
      <4> HIDE DEF S, T
      <4>1. IsFiniteSet(S)
        BY <3>1, <3>2, FS_Subset
      <4>2. \A k \in S : Gross'[k] \in Int /\ Gross'[k] = Gross[k] /\ Gross'[k] \in Nat
        BY <3>1, <3>2
      <4>3. m = SumFunctionOnSet(Gross, S) /\ m \in Nat
        BY <4>1, <4>2, SumSame, SumNat
      <4> QED BY <3>1, <3>2, <4>3, SumOfPart, SumNat
    <3>4. n <= all
      BY DEF Owed
    <3> HIDE DEF m, n, all, more
    <3>5. m <= more
      BY <2>0, <3>3, <3>4 DEF all, more
    <3> QED BY <3>5 DEF m, more
  <2>3. ASSUME NEW k \in Of(b)', stage[k] = "none"
        PROVE  SumFunctionOnSet(Gross', Of(b)') <= Worth(Owned(b)')
    <3>1. k \in Keys /\ k[1] = b /\ MayPay(k)'
      BY <2>3 DEF Of
    <3>2. PICK p \in Working, d \in Due :
            /\ k = <<d.business, clock>> /\ sweeps[k].gross = d.owed /\ DueFits(d, clock)
            /\ UNCHANGED <<owner, arrived, sweeps, clock>>
            /\ \A j \in Keys : j # k => (MayPay(j)' <=> MayPay(j))
            /\ sweeps[k] # NoSweep
      <4>1. PICK p \in Working : \E d \in passes[p].due :
           /\ passes[p].at = "calling" /\ d.business = passes[p].now /\ d \in Due
           /\ passes[p].window = clock /\ k = KeyOf(passes[p]) /\ k = <<d.business, clock>>
           /\ sweeps[k].claims = d.list /\ sweeps[k].gross = d.owed /\ DueFits(d, clock)
           /\ UNCHANGED <<owner, arrived, sweeps, clock>>
           /\ \A j \in Keys : j # k => (MayPay(j)' <=> MayPay(j))
        BY <2>3, <3>1, NewPayout
      <4>2. p \in AtWork
        BY <4>1 DEF AtWork, Due
      <4>3. sweeps[k] # NoSweep
        BY <4>1, <4>2, AtWorkIs
      <4> QED BY <4>1, <4>3
    <3>3. d.business = b /\ d.owed \in Nat
      BY <3>1, <3>2 DEF Due
    <3>4. Gross' = Gross /\ Gross[k] = d.owed
      BY <3>1, <3>2 DEF Gross
    <3> DEFINE S == Of(b)'
               T == Others(b, clock)
    <3>5. S = T \cup {k} /\ k \notin T
      <4>1. \A j \in Keys : j[1] = b /\ j[2] = clock => j = k
        BY <3>2, <3>3 DEF Keys
      <4> QED BY <2>3, <3>1, <3>2, <4>1 DEF Others, Of
    <3>6. IsFiniteSet(T) /\ \A j \in T \cup {k} : Gross[j] \in Int
      <4>1. T \in SUBSET Of(b)
        BY DEF Others
      <4>2. \A j \in T \cup {k} : j \in Keys
        BY <3>1, <4>1 DEF Of
      <4> QED BY <4>1, <4>2, OfIs, FS_Subset
    <3>7. SumFunctionOnSet(Gross, S) = d.owed + SumFunctionOnSet(Gross, T)
      <4> HIDE DEF S, T
      <4> QED BY <3>4, <3>5, <3>6, SumAdds
    <3>8. SumFunctionOnSet(Gross, T) + d.owed <= Worth(Owned(b))
      BY <3>2, <3>3 DEF DueFits, Elsewhere
    <3>9. Owned(b)' = Owned(b)
      BY <3>2 DEF Owned
    <3>10. SumFunctionOnSet(Gross, T) \in Int
      BY <3>6, SumInt
    <3> DEFINE m == SumFunctionOnSet(Gross, T)
               n == SumFunctionOnSet(Gross, S)
               all == Worth(Owned(b))
    <3>11. n <= all
      <4>1. n = d.owed + m /\ m + d.owed <= all /\ m \in Int
        BY <3>7, <3>8, <3>10
      <4> HIDE DEF m, n, all
      <4> QED BY <3>3, <4>1
    <3> HIDE DEF S, T
    <3> QED BY <3>4, <3>9, <3>11 DEF S
  <2> QED BY <2>2, <2>3
<1>5. SweptOnce'
  <2>1. ASSUME NEW j \in Keys, NEW k \in Keys, j # k, MayPay(j)', MayPay(k)', stage[j] # "none",
               stage[k] # "none"
        PROVE  sweeps'[j].claims \cap sweeps'[k].claims = {}
    <3>1. Lasts(j) /\ Lasts(k) /\ SweptOnce
      BY PayoutsLast DEF Owed
    <3> QED BY <2>1, <3>1 DEF Lasts, SweptOnce
  <2>2. ASSUME NEW j \in Keys, NEW k \in Keys, j # k, MayPay(j)', MayPay(k)', stage[k] = "none"
        PROVE  sweeps'[j].claims \cap sweeps'[k].claims = {}
    <3>1. PICK p \in Working : \E d \in passes[p].due :
           /\ passes[p].at = "calling" /\ d.business = passes[p].now /\ d \in Due
           /\ passes[p].window = clock /\ k = KeyOf(passes[p]) /\ k = <<d.business, clock>>
           /\ sweeps[k].claims = d.list /\ sweeps[k].gross = d.owed /\ DueFits(d, clock)
           /\ UNCHANGED <<owner, arrived, sweeps, clock>>
           /\ \A i \in Keys : i # k => (MayPay(i)' <=> MayPay(i))
      BY <2>2, NewPayout
    <3>2. PICK d \in passes[p].due :
           /\ k = <<d.business, clock>> /\ sweeps[k].claims = d.list /\ DueFits(d, clock)
           /\ UNCHANGED sweeps /\ \A i \in Keys : i # k => (MayPay(i)' <=> MayPay(i))
      BY <3>1
    <3>3. MayPay(j) /\ j \in Of(j[1])
      BY <2>2, <3>2 DEF Of
    <3>4. CASE j[1] = k[1]
      <4>1. j[2] # clock
        BY <2>2, <3>2, <3>4 DEF Keys
      <4>2. j \in Others(d.business, clock)
        BY <3>2, <3>3, <3>4, <4>1 DEF Others
      <4> QED BY <3>2, <4>2 DEF DueFits
    <3>5. CASE j[1] # k[1]
      <4>1. sweeps[j] # NoSweep
        BY <3>3, OfIs
      <4>2. sweeps[j].claims \subseteq Owned(j[1])
        BY <4>1 DEF Owed
      <4>3. d.list \subseteq Owned(k[1])
        BY <3>2 DEF DueFits
      <4> QED BY <3>2, <3>5, <4>2, <4>3 DEF Owned
    <3> QED BY <3>4, <3>5
  <2>3. SUFFICES ASSUME NEW j \in Keys, NEW k \in Keys, j # k, MayPay(j)', MayPay(k)'
                 PROVE  sweeps'[j].claims \cap sweeps'[k].claims = {}
    BY DEF SweptOnce
  <2> QED BY <2>1, <2>2, <2>3
<1> QED BY <1>1, <1>2, <1>3, <1>4, <1>5 DEF Owed

\* At the start nothing is owed.
LEMMA OwedInit == Init => Owed
<1> SUFFICES ASSUME Init PROVE Owed
  OBVIOUS
<1>1. Working = {} /\ \A k \in Keys : ~MayPay(k) /\ sweeps[k] = NoSweep
  BY DEF Init, Working, MayPay, Payout!Init
<1>2. \A b : Of(b) = {}
  BY <1>1 DEF Of
<1>3. ASSUME NEW b \in Businesses PROVE SumFunctionOnSet(Gross, Of(b)) <= Worth(Owned(b))
  <2>1. SumFunctionOnSet(Gross, Of(b)) = 0
    BY <1>2, SumEmpty
  <2>2. Owned(b) \in SUBSET Rows
    BY DEF Owned
  <2>3. Worth(Owned(b)) \in Nat
    BY <2>2, WorthIs
  <2> QED BY <2>1, <2>3
<1> QED BY <1>1, <1>3 DEF Owed, SweptOnce

\* A stuttering step changes nothing of it.
LEMMA OwedStutters ==
  ASSUME Owed, UNCHANGED vars PROVE Owed'
<1>1. \A k : MayPay(k)' <=> MayPay(k)
  BY DEF vars, MayPay
<1>2. Gross' = Gross /\ Working' = Working /\ \A b : Of(b)' = Of(b) /\ Owned(b)' = Owned(b)
  BY <1>1 DEF vars, Gross, Of, Owned, Working
<1>3. \A b, w : Others(b, w)' = Others(b, w) /\ Elsewhere(b, w)' = Elsewhere(b, w)
  BY <1>2 DEF Others, Elsewhere
<1>4. SweptOnce'
  BY <1>1 DEF vars, Owed, SweptOnce
<1>5. \A q \in Working' : PassFits(passes[q])' /\ ClaimFits(passes'[q], sweeps')
  BY <1>2, <1>3 DEF vars, Owed, PassFits, ClaimFits, ReadFits, DueFits
<1>6. /\ \A k \in Keys : sweeps'[k] # NoSweep => sweeps'[k].claims \subseteq Owned(k[1])'
      /\ \A b \in Businesses : SumFunctionOnSet(Gross', Of(b)') <= Worth(Owned(b)')
  BY <1>2 DEF vars, Owed
<1> QED BY <1>4, <1>5, <1>6 DEF Owed

\* Less leaves than the sweeps claim, for the fee is kept.
LEMMA OwedPays ==
  ASSUME Shape, Owed PROVE NeverOverpaid
<1> SUFFICES ASSUME NEW b \in Businesses
             PROVE  SumFunction([k \in {j \in Keys : j[1] = b /\ MayPay(j)} |-> NetOf(sweeps[k].gross)])
                      <= Worth({r \in Rows : r <= arrived /\ owner[r] = b})
  BY DEF NeverOverpaid
<1> DEFINE T == Of(b)
           net == [k \in T |-> NetOf(sweeps[k].gross)]
<1>1. IsFiniteSet(T) /\ \A k \in T : sweeps[k] \in Sweep /\ Gross[k] = sweeps[k].gross
  BY OfIs
<1>2. \A k \in T : net[k] \in Int /\ Gross[k] \in Int /\ net[k] <= Gross[k]
  <2>1. ASSUME NEW k \in T PROVE NetOf(sweeps[k].gross) \in Nat /\ NetOf(sweeps[k].gross) <= sweeps[k].gross
                                 /\ sweeps[k].gross \in Nat
    BY <1>1, NetIsPart DEF Sweep
  <2> QED BY <1>1, <2>1
<1>3. DOMAIN net = T
  OBVIOUS
<1> HIDE DEF net, T
<1>4. SumFunctionOnSet(net, T) <= SumFunctionOnSet(Gross, T)
      /\ SumFunctionOnSet(net, T) \in Int /\ SumFunctionOnSet(Gross, T) \in Int
  BY <1>1, <1>2, SumGrows, SumInt
<1>5. SumFunctionOnSet(Gross, T) <= Worth(Owned(b)) /\ Worth(Owned(b)) \in Nat
  <2>1. Owned(b) \in SUBSET Rows
    BY DEF Owned
  <2> QED BY <2>1, WorthIs DEF Owed, T
<1>6. SumFunction(net) = SumFunctionOnSet(net, T)
  BY <1>3, SumOverDomain
<1>7. SumFunction(net) <= Worth(Owned(b))
  BY <1>4, <1>5, <1>6
<1> QED BY <1>7 DEF net, T, Of, Owned

\* Both at once, and why.
LEMMA OwedHolds ==
  ASSUME Calm PROVE Spec => [](Shape /\ Owed)
<1>1. Init => Shape /\ Told /\ Owed
  BY ShapeInit, ToldInit, OwedInit
<1>2. NoMishap
  BY DEF Calm, NoMishap
<1>3. Shape /\ Told /\ Owed /\ [Next]_vars => (Shape /\ Told /\ Owed)'
  BY <1>2, ShapeStep, ShapeStutters, ToldStep, ToldStutters, OwedStep, OwedStutters
<1> QED BY <1>1, <1>3, PTL DEF Spec

(* No payment is claimed by two sweeps whose payouts moved money or still  *)
(* may, for any number of passes at once that read their three sums in any *)
(* interleaving, and crashes anywhere but between a payout's row and its   *)
(* note.  A pass must end in the window it began in, and a send within     *)
(* PREPARED_TIMEOUT.                                                       *)
THEOREM PaymentsLeaveOnce ==
  ASSUME Calm
  PROVE  Spec => []SweptOnce
<1>1. Owed => SweptOnce
  BY DEF Owed
<1> QED BY <1>1, OwedHolds, PTL

(* Under the same conditions a business is never sent more than arrived    *)
(* for it: the payouts of all windows that paid or may, less their fees,   *)
(* sum to no more than the payments that carry its name.                   *)
THEOREM NoMoreLeavesThanCame ==
  ASSUME Calm
  PROVE  Spec => []NeverOverpaid
BY OwedHolds, OwedPays, PTL
=============================================================================
