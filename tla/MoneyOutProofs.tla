--------------------------- MODULE MoneyOutProofs ---------------------------
(***************************************************************************)
(* Theorems about the life of an outgoing payment, for every number of     *)
(* rows, people, operators and attempts: what holds whatever happens       *)
(* around the server, and what holds where results come in order and       *)
(* acknowledgements are stored (Orderly), the refinement of Payment among  *)
(* it.                                                                     *)
(***************************************************************************)
EXTENDS MoneyOut, WellFoundedInduction, TLAPS

(***************************************************************************)
(* What the pool of operators guarantees, for any number of operators.     *)
(***************************************************************************)

LEMMA SmallestOperator ==
  ASSUME NEW S, S \subseteq Operators, S # {}
  PROVE  \E o \in S : \A p \in S : o <= p
<1>1. S \subseteq Nat
  BY OperatorCountAssumption DEF Operators
<1>2. PICK o \in S : \A p \in S : <<p, o>> \notin OpToRel(<, Nat)
  BY <1>1, WFMin, NatLessThanWellFounded, Zenon
<1>3. \A p \in S : ~(p < o)
  BY <1>1, <1>2, Zenon DEF OpToRel
<1>4. \A p \in S : o <= p
  BY <1>1, <1>3
<1> QED
  BY <1>4

\* The operator a send is given is verified and none of those that were
\* already tried; there is none to give only when every verified operator
\* was tried (nextOperator, pickOperator).
LEMMA FirstOperatorIsUntried ==
  ASSUME NEW p \in Pools, NEW exclude
  PROVE  LET o == FirstOperator(p, exclude)
         IN /\ o = NoOperator => Usable(p) \subseteq exclude
            /\ o # NoOperator => o \in Usable(p) \ exclude
<1> DEFINE left == Usable(p) \ exclude
<1>1. left \subseteq Operators
  BY DEF Usable
<1>2. 0 \notin Operators
  BY OperatorCountAssumption DEF Operators
<1>3. CASE left = {}
  BY <1>3 DEF FirstOperator, NoOperator
<1>4. CASE left # {}
  <2>1. \E o \in left : \A q \in left : o <= q
    BY <1>1, <1>4, SmallestOperator
  <2>2. FirstOperator(p, exclude) \in left
    BY <1>4, <2>1 DEF FirstOperator
  <2> QED
    BY <1>1, <1>2, <2>2 DEF NoOperator
<1> QED
  BY <1>3, <1>4

LEMMA FirstOperatorType ==
  ASSUME NEW p \in Pools, NEW exclude
  PROVE  /\ FirstOperator(p, exclude) \in Operators \cup {NoOperator}
         /\ Usable(p) \ exclude # {} => FirstOperator(p, exclude) \in Operators
BY FirstOperatorIsUntried DEF Usable

LEMMA HealthyPoolType == HealthyPool \in Pools
BY DEF HealthyPool, Pools, OperatorState, FailuresBeforeDown

LEMMA AfterSuccessType ==
  ASSUME NEW p \in Pools, NEW o
  PROVE  AfterSuccess(p, o) \in Pools
BY DEF AfterSuccess, Pools, OperatorState, FailuresBeforeDown

LEMMA NextCountsType ==
  ASSUME NEW n \in 0..FailuresBeforeDown
  PROVE  NextCounts(n) \subseteq 0..FailuresBeforeDown
BY DEF NextCounts, FailuresBeforeDown

LEMMA AfterRefusalType ==
  ASSUME NEW p \in Pools, NEW o
  PROVE  AfterRefusal(p, o) \subseteq Pools
<1>1. CASE ~Counts(p, o)
  BY <1>1 DEF AfterRefusal
<1>2. CASE Counts(p, o)
  <2>1. p[o].failures \in 0..FailuresBeforeDown /\ p[o].status \in {"verified", "failed", "disabled"}
    BY <1>2 DEF Counts, Pools, OperatorState
  <2>2. NextCounts(p[o].failures) \subseteq 0..FailuresBeforeDown
    BY <2>1, NextCountsType
  <2>3. \A n \in NextCounts(p[o].failures) :
          [p EXCEPT ![o] = [status |-> IF n >= FailuresBeforeDown THEN "failed" ELSE p[o].status,
                            failures |-> n]] \in Pools
    BY <1>2, <2>1, <2>2 DEF Counts, Pools, OperatorState
  <2> QED
    BY <1>2, <2>3 DEF AfterRefusal
<1> QED
  BY <1>1, <1>2

\* One refusal is not proof that a credential is dead: a refusal takes down
\* at most the operator it is counted against, and only one that had
\* already been refused (FAILURES_BEFORE_DOWN, and the disabled operator
\* that is never counted).
THEOREM FirstRefusalTakesNobodyDown ==
  ASSUME NEW p \in Pools, NEW o, NEW q \in AfterRefusal(p, o),
         NEW x \in Operators, p[x].status = "verified", q[x].status # "verified"
  PROVE  x = o /\ p[o].failures > 0 /\ q[o].status = "failed"
<1>1. CASE ~Counts(p, o)
  BY <1>1 DEF AfterRefusal
<1>2. CASE Counts(p, o)
  <2>1. PICK n \in NextCounts(p[o].failures) :
          q = [p EXCEPT ![o] = [status |-> IF n >= FailuresBeforeDown THEN "failed" ELSE p[o].status,
                                failures |-> n]]
    BY <1>2 DEF AfterRefusal
  <2>2. o \in Operators /\ p[o].failures \in 0..FailuresBeforeDown
    BY <1>2 DEF Counts, Pools, OperatorState
  <2>3. x = o /\ n >= FailuresBeforeDown /\ q[o].status = "failed"
    BY <2>1, <2>2 DEF Pools
  <2>4. p[o].failures > 0
    BY <2>1, <2>2, <2>3 DEF NextCounts, FailuresBeforeDown
  <2> QED
    BY <2>3, <2>4
<1> QED
  BY <1>1, <1>2

(***************************************************************************)
(* Type correctness.  A row that exists has an identifier, and a status    *)
(* query is only ever about a row that exists.                             *)
(***************************************************************************)

Existing(r) == row[r].status # "none"

Identified ==
  /\ \A r \in Requests : Existing(r) => row[r].attempt # NoAttempt
  /\ \A d \in due : Existing(d.req)
  /\ \A q \in QueryIds :
       queries[q].state \in {"unrecorded", "recorded"} => Existing(queries[q].target)

Typed == TypeOK /\ Identified

LEMMA AttemptsType ==
  /\ Attempts \subseteq Nat
  /\ NoAttempt \notin Attempts
  /\ \A n \in 0..MaxAttempts : n < MaxAttempts => n + 1 \in Attempts /\ n + 1 \in 0..MaxAttempts
BY MoneyOutAssumption DEF Attempts, NoAttempt

LEMMA RowFields ==
  ASSUME NEW x \in Row
  PROVE  /\ \A s \in Statuses : [x EXCEPT !.status = s] \in Row
         /\ \A a \in Attempts \cup {NoAttempt} :
              [x EXCEPT !.attempt = a] \in Row /\ [x EXCEPT !.ack = a] \in Row
         /\ \A o \in Operators \cup {NoOperator} : [x EXCEPT !.operator = o] \in Row
         /\ \A n \in 0..MaxPolls : [x EXCEPT !.polls = n] \in Row
         /\ \A q \in Quiets : [x EXCEPT !.quiet = q] \in Row
         /\ \A p \in People \cup {Nobody} : [x EXCEPT !.approver = p] \in Row
         /\ \A b \in BOOLEAN : /\ [x EXCEPT !.parked = b] \in Row
                               /\ [x EXCEPT !.checked = b] \in Row
                               /\ [x EXCEPT !.held = b] \in Row
         /\ JustSent(x.quiet) \in Quiets
BY DEF Row, JustSent, Quiets

LEMMA NoRowType == NoRow \in Row
BY MoneyOutAssumption DEF NoRow, Row, Statuses, Quiets

LEMMA InitType == Init => Typed
<1> SUFFICES ASSUME Init PROVE Typed
  OBVIOUS
<1>2. issued \in 0..MaxAttempts /\ crashes \in 0..MaxCrashes
  BY MoneyOutAssumption DEF Init
<1> QED
  BY <1>2, HealthyPoolType, NoRowType
  DEF Init, TypeOK, Typed, Identified, Existing, NoRow, Unasked

LEMMA CreateType ==
  ASSUME Typed, NEW r \in Requests, NEW held \in BOOLEAN, Create(r, held)
  PROVE  Typed'
<1> DEFINE a == issued + 1
           o == FirstOperator(pool, {})
           new == [NoRow EXCEPT !.status = "pending", !.attempt = a, !.operator = o,
                                !.quiet = "young", !.held = held]
           t == [phase |-> IF held THEN "hold" ELSE "send", req |-> r, attempt |-> a,
                 operator |-> o, tried |-> {o}, again |-> FALSE]
<1>1. a \in Attempts /\ a \in 0..MaxAttempts
  BY AttemptsType DEF Typed, TypeOK, Create
<1>2. o \in Operators
  BY FirstOperatorType DEF Typed, TypeOK, Create
<1>3. new \in Row
  <2>1. [NoRow EXCEPT !.status = "pending"] \in Row
    BY NoRowType, RowFields DEF Statuses, Live
  <2>2. [NoRow EXCEPT !.status = "pending", !.attempt = a] \in Row
    BY <2>1, <1>1, RowFields
  <2>3. [NoRow EXCEPT !.status = "pending", !.attempt = a, !.operator = o] \in Row
    BY <2>2, <1>2, RowFields
  <2>4. [NoRow EXCEPT !.status = "pending", !.attempt = a, !.operator = o,
                      !.quiet = "young"] \in Row
    BY <2>3, RowFields DEF Quiets
  <2> QED
    BY <2>4, RowFields
<1>4. t \in Task
  <2> DEFINE phase == IF held THEN "hold" ELSE "send"
  <2>1. phase \in {"hold", "send"}
    OBVIOUS
  <2> HIDE DEF phase
  <2>2. [phase |-> phase, req |-> r, attempt |-> a,
         operator |-> o, tried |-> {o}, again |-> FALSE] \in Task
    BY <1>1, <1>2, <2>1 DEF Task
  <2> QED
    BY <2>2 DEF phase
<1>5. row' \in [Requests -> Row]
  BY <1>3 DEF Create, Typed, TypeOK
<1>6. tasks' \subseteq Task /\ issued' \in 0..MaxAttempts
  BY <1>1, <1>4 DEF Create, Typed, TypeOK
<1>7. \A x \in Requests : Existing(x)' <=> Existing(x) \/ x = r
  BY <1>3 DEF Create, Typed, TypeOK, Existing, NoRow
<1>8. \A x \in Requests : row'[x].attempt = IF x = r THEN a ELSE row[x].attempt
  BY <1>3 DEF Create, Typed, TypeOK, NoRow
<1>9. Identified'
  BY <1>1, <1>7, <1>8, AttemptsType DEF Create, Typed, TypeOK, Identified, Due, Query, Unasked, Done, Existing
<1> QED
  BY <1>5, <1>6, <1>9 DEF Create, Typed, TypeOK

(* A new value for a row that exists: it keeps its identifier or is given  *)
(* another.                                                                *)
KeepsRow(r, new) ==
  /\ new \in Row
  /\ new.attempt = row[r].attempt \/ new.attempt \in Attempts
  /\ new.status # "none" /\ Existing(r)

WritesRow(r, new) ==
  \/ row' = row
  \/ KeepsRow(r, new) /\ row' = [row EXCEPT ![r] = new]

LEMMA RowStepType ==
  ASSUME Typed, NEW r \in Requests, NEW new,
         WritesRow(r, new),
         tasks' \subseteq Task, due' \subseteq due, queries' = queries,
         wire' = wire, pool' \in Pools, issued' \in 0..MaxAttempts,
         crashes' = crashes
  PROVE  Typed'
<1>1. row' \in [Requests -> Row]
  BY DEF WritesRow, KeepsRow, Typed, TypeOK
<1>2. Identified'
  BY AttemptsType
  DEF WritesRow, KeepsRow, Typed, TypeOK, Identified, Due, Query, Unasked, Done, Existing
<1> QED
  BY <1>1, <1>2 DEF Typed, TypeOK

LEMMA UpdateWhereKeeps ==
  ASSUME NEW r \in Requests, NEW S, NEW new, row' = UpdateWhere(r, S, new),
         row[r].status \in S => KeepsRow(r, new)
  PROVE  WritesRow(r, new)
BY DEF UpdateWhere, WritesRow

LEMMA DecideType ==
  ASSUME Typed, NEW r \in Requests, NEW p \in People,
         Release(r, p) \/ Refuse(r, p) \/ MarkChecked(r) \/ ExpireApproval(r)
  PROVE  Typed'
<1>1. row[r] \in Row /\ tasks \subseteq Task /\ pool \in Pools /\ issued \in 0..MaxAttempts
  BY DEF Typed, TypeOK
<1>2. CASE Release(r, p)
  <2> DEFINE o == FirstOperator(pool, {})
             new == [row[r] EXCEPT !.status = "pending", !.approver = p, !.operator = o]
             t == [phase |-> "send", req |-> r, attempt |-> row[r].attempt,
                   operator |-> o, tried |-> {o}, again |-> FALSE]
  <2>1. o \in Operators
    BY <1>1, <1>2, FirstOperatorType DEF Release
  <2>2. KeepsRow(r, new)
    BY <1>1, <1>2, <2>1 DEF KeepsRow, Existing, Row, Statuses, Live, Release, Waiting
  <2>3. row[r].attempt \in Attempts
    BY <1>1, <1>2 DEF Release, Waiting, Typed, Identified, Existing, Row
  <2>4. t \in Task
    BY <2>1, <2>3 DEF Task
  <2>5. row' = [row EXCEPT ![r] = new] /\ tasks' \subseteq Task
    BY <1>1, <1>2, <2>4 DEF Release
  <2> HIDE DEF new, t
  <2> QED
    BY <1>1, <1>2, <2>2, <2>5, RowStepType DEF Release, WritesRow
<1>3. CASE Refuse(r, p)
  <2> DEFINE new == [row[r] EXCEPT !.status = "rejected", !.approver = p]
  <2>1. KeepsRow(r, new)
    BY <1>1, <1>3 DEF KeepsRow, Existing, Row, Statuses, Final, Refuse, Waiting
  <2>2. row' = [row EXCEPT ![r] = new]
    BY <1>3 DEF Refuse
  <2> HIDE DEF new
  <2> QED
    BY <1>1, <1>3, <2>1, <2>2, RowStepType DEF Refuse, WritesRow
<1>4. CASE MarkChecked(r)
  <2> DEFINE new == [row[r] EXCEPT !.checked = TRUE]
  <2>1. KeepsRow(r, new)
    BY <1>1, <1>4 DEF KeepsRow, Existing, Row, MarkChecked
  <2>2. row' = [row EXCEPT ![r] = new]
    BY <1>1, <1>4 DEF MarkChecked
  <2> HIDE DEF new
  <2> QED
    BY <1>1, <1>4, <2>1, <2>2, RowStepType DEF MarkChecked, WritesRow
<1>5. CASE ExpireApproval(r)
  <2> DEFINE new == [row[r] EXCEPT !.status = "rejected"]
  <2>1. KeepsRow(r, new)
    BY <1>1, <1>5 DEF KeepsRow, Existing, Row, ExpireApproval, Waiting, Statuses, Final
  <2>2. row' = [row EXCEPT ![r] = new]
    BY <1>1, <1>5 DEF ExpireApproval
  <2> HIDE DEF new
  <2> QED
    BY <1>1, <1>5, <2>1, <2>2, RowStepType DEF ExpireApproval, WritesRow
<1> QED
  BY <1>2, <1>3, <1>4, <1>5

LEMMA MovedType ==
  ASSUME NEW r \in Requests, row[r] \in Row, NEW o \in Operators, NEW a \in Attempts
  PROVE  /\ Moved(r, o, a) \in Row
         /\ Moved(r, o, a).attempt = a
         /\ Moved(r, o, a).ack = NoAttempt
         /\ Moved(r, o, a).status = row[r].status
         /\ Moved(r, o, a).held = row[r].held
         /\ Moved(r, o, a).approver = row[r].approver
<1>1. [row[r] EXCEPT !.operator = o] \in Row
  BY RowFields
<1>2. [row[r] EXCEPT !.operator = o, !.attempt = a] \in Row
  BY <1>1, RowFields
<1>3. [row[r] EXCEPT !.operator = o, !.attempt = a, !.ack = NoAttempt] \in Row
  BY <1>2, RowFields
<1>4. [row[r] EXCEPT !.operator = o, !.attempt = a, !.ack = NoAttempt, !.polls = 0] \in Row
  <2>1. 0 \in 0..MaxPolls
    BY MoneyOutAssumption
  <2> QED
    BY <1>3, <2>1, RowFields
<1>5. Moved(r, o, a) \in Row
  BY <1>4, RowFields DEF Moved, Quiets
<1> QED
  BY <1>5 DEF Moved, Row

(* What MoveOn and GiveUp leave of the row and of the continuations.       *)
LEMMA MoveOnType ==
  ASSUME Typed, NEW t \in tasks, NEW tried \in SUBSET Operators,
         pool' \in Pools, MoveOn(t, tried) \/ GiveUp(t, tried)
  PROVE  /\ \E new : WritesRow(t.req, new)
         /\ tasks' \subseteq Task
         /\ issued' \in 0..MaxAttempts
<1>1. t \in Task /\ t.req \in Requests /\ row[t.req] \in Row /\ issued \in 0..MaxAttempts
  BY DEF Typed, TypeOK, Task
<1>2. CASE MoveOn(t, tried)
  <2> DEFINE o == FirstOperator(pool', tried)
             a == issued + 1
             new == Moved(t.req, o, a)
             u == [phase |-> "send", req |-> t.req, attempt |-> a, operator |-> o,
                   tried |-> tried \cup {o}, again |-> FALSE]
  <2>1. o \in Operators
    <3>1. o # NoOperator
      BY <1>2 DEF MoveOn
    <3> QED
      BY <3>1, FirstOperatorType
  <2>2. a \in Attempts /\ a \in 0..MaxAttempts
    BY <1>1, <1>2, AttemptsType DEF MoveOn
  <2>3. KeepsRow(t.req, new)
    BY <1>1, <1>2, <2>1, <2>2, MovedType DEF KeepsRow, MoveOn, StillPending, Existing
  <2>4. u \in Task
    BY <1>1, <2>1, <2>2 DEF Task
  <2>5. row' = [row EXCEPT ![t.req] = new] /\ tasks' = (tasks \ {t}) \cup {u} /\ issued' = a
    BY <1>2 DEF MoveOn
  <2> HIDE DEF new, u
  <2> QED
    BY <2>2, <2>3, <2>4, <2>5 DEF Typed, TypeOK, WritesRow
<1>3. CASE GiveUp(t, tried)
  <2>1. row[t.req].status \in {"pending"} => KeepsRow(t.req, Settled(t.req, "failed"))
    BY <1>1 DEF KeepsRow, Settled, Existing, Row, Statuses, Final
  <2> QED
    BY <1>1, <1>3, <2>1, UpdateWhereKeeps DEF GiveUp, Typed, TypeOK
<1> QED
  BY <1>2, <1>3

LEMMA ContinueType ==
  ASSUME Typed, NEW t \in tasks, Continue(t)
  PROVE  Typed'
<1>1. /\ t \in Task /\ t.req \in Requests /\ row[t.req] \in Row
      /\ tasks \subseteq Task /\ pool \in Pools /\ issued \in 0..MaxAttempts
  BY DEF Typed, TypeOK, Task
<1>2. /\ t.operator \in Operators /\ t.tried \in SUBSET Operators
      /\ t.attempt \in Attempts
  BY <1>1 DEF Task
<1>3. CASE Hold(t)
  <2> DEFINE new == [row[t.req] EXCEPT !.status = "awaiting_approval", !.operator = NoOperator]
  <2>1. row[t.req].status \in {"pending"} => KeepsRow(t.req, new)
    BY <1>1 DEF KeepsRow, Existing, Row, Statuses
  <2>2. row' = UpdateWhere(t.req, {"pending"}, new)
    BY <1>3 DEF Hold
  <2> HIDE DEF new
  <2> QED
    BY <1>1, <1>3, <2>1, <2>2, UpdateWhereKeeps, RowStepType DEF Hold
<1>4. CASE CallAccepted(t)
  <2>1. PICK api \in Apis, answer \in {"ack", "lost"} :
          /\ wire' = [wire EXCEPT ![t.attempt] = [at |-> "queued", req |-> t.req,
                                                  operator |-> t.operator, api |-> api]]
          /\ tasks' = (tasks \ {t}) \cup {[t EXCEPT !.phase = answer]}
    BY <1>4 DEF CallAccepted
  <2>2. [t EXCEPT !.phase = answer] \in Task
    BY <1>1 DEF Task
  <2>3. [at |-> "queued", req |-> t.req, operator |-> t.operator, api |-> api] \in Wire
    BY <1>1, <1>2, MoneyOutAssumption DEF Wire
  <2> QED
    BY <1>4, <2>1, <2>2, <2>3 DEF CallAccepted, Typed, TypeOK, Identified, Existing
<1>5. CASE CallNotAccepted(t)
  <2>1. \A answer \in {"lost", "declined", "refused"} : [t EXCEPT !.phase = answer] \in Task
    BY <1>1 DEF Task
  <2>2. tasks' \subseteq Task
    BY <1>1, <1>5, <2>1 DEF CallNotAccepted
  <2> QED
    BY <1>1, <1>5, <2>2, RowStepType DEF CallNotAccepted, WritesRow
<1>6. CASE RecordAck(t)
  <2> DEFINE new == [row[t.req] EXCEPT !.status = "sent", !.quiet = JustSent(@),
                        !.ack = IF wire[t.attempt].api = "assigns" THEN t.attempt ELSE @]
  <2>0. JustSent(row[t.req].quiet) \in Quiets
    BY DEF JustSent, Quiets
  <2>3. new \in Row /\ new.status = "sent" /\ new.attempt = row[t.req].attempt
    <3> DEFINE ack == IF wire[t.attempt].api = "assigns" THEN t.attempt ELSE row[t.req].ack
    <3>1. ack \in Attempts \cup {NoAttempt}
      BY <1>1, <1>2 DEF Row
    <3>2. new = [row[t.req] EXCEPT !.status = "sent", !.quiet = JustSent(row[t.req].quiet), !.ack = ack]
      BY <1>1 DEF Row
    <3> HIDE DEF ack, new
    <3> QED
      BY <1>1, <2>0, <3>1, <3>2 DEF Row, Statuses, Live
  <2>1. row[t.req].status \in {"pending"} => KeepsRow(t.req, new)
    BY <2>3 DEF KeepsRow, Existing
  <2>2. row' = UpdateWhere(t.req, {"pending"}, new)
    BY <1>6 DEF RecordAck
  <2> HIDE DEF new
  <2> QED
    <3>1. WritesRow(t.req, new)
      BY <1>1, <2>1, <2>2, UpdateWhereKeeps
    <3> QED
      BY <1>1, <1>6, <3>1, RowStepType DEF RecordAck
<1>7. CASE RecordUnconfirmed(t)
  <2> DEFINE new == [row[t.req] EXCEPT !.status = "unknown", !.quiet = JustSent(@)]
  <2>0. JustSent(row[t.req].quiet) \in Quiets
    BY DEF JustSent, Quiets
  <2>3. new \in Row /\ new.status = "unknown" /\ new.attempt = row[t.req].attempt
    BY <1>1, <2>0 DEF Row, Statuses, Live
  <2>1. row[t.req].status \in {"pending"} => KeepsRow(t.req, new)
    BY <2>3 DEF KeepsRow, Existing
  <2>2. row' = UpdateWhere(t.req, {"pending"}, new)
    BY <1>7 DEF RecordUnconfirmed
  <2> HIDE DEF new
  <2> QED
    BY <1>1, <1>7, <2>1, <2>2, UpdateWhereKeeps, RowStepType DEF RecordUnconfirmed
<1>8. row[t.req].status \in {"pending"} => KeepsRow(t.req, Settled(t.req, "failed"))
  BY <1>1 DEF KeepsRow, Settled, Existing, Row, Statuses, Final
<1>9. CASE RecordDeclined(t) \/ AckThrew(t)
  BY <1>1, <1>8, <1>9, UpdateWhereKeeps, RowStepType DEF RecordDeclined, AckThrew
<1>10. CASE RecordRefused(t)
  <2>1. pool' \in Pools
    BY <1>1, <1>10, AfterRefusalType DEF RecordRefused
  <2>2. CASE Counts(pool, t.operator)
    BY <1>1, <1>2, <1>10, <2>1, <2>2, MoveOnType, RowStepType DEF RecordRefused
  <2>3. CASE ~Counts(pool, t.operator)
    BY <1>1, <1>8, <1>10, <2>1, <2>3, UpdateWhereKeeps, RowStepType DEF RecordRefused
  <2> QED
    BY <2>2, <2>3
<1>11. CASE Failover(t)
  <2>1. pool' \in Pools
    BY <1>1, <1>11, AfterRefusalType DEF Failover
  <2>2. CASE Counts(pool, t.operator)
    BY <1>1, <1>2, <1>11, <2>1, <2>2, MoveOnType, RowStepType DEF Failover, WritesRow
  <2>3. CASE ~Counts(pool, t.operator)
    BY <1>1, <1>11, <2>1, <2>3, RowStepType DEF Failover, WritesRow
  <2> QED
    BY <2>2, <2>3
<1> QED
  BY <1>3, <1>4, <1>5, <1>6, <1>7, <1>9, <1>10, <1>11 DEF Continue

(* A row settled with a result.                                            *)
LEMMA SettledRow ==
  ASSUME NEW r \in Requests, row[r] \in Row, NEW s \in {"completed", "failed"}
  PROVE  /\ Settled(r, s) \in Row /\ Settled(r, s).status = s
         /\ Settled(r, s).attempt = row[r].attempt
BY ZenonT(40) DEF Settled, Row, Statuses, Final

LEMMA ResultType ==
  ASSUME Typed, NEW a \in Attempts, Result(a)
  PROVE  Typed'
<1>1. /\ row \in [Requests -> Row] /\ \A r \in Requests : row[r] \in Row
      /\ tasks \subseteq Task /\ pool \in Pools /\ issued \in 0..MaxAttempts
  BY DEF Typed, TypeOK
<1>2. CASE SafaricomProcesses(a)
  <2>1. wire[a] \in Wire
    BY <1>2 DEF SafaricomProcesses, Typed, TypeOK, Absent
  <2>2. \A end \in {"paid", "failed", "refused"} : [wire[a] EXCEPT !.at = end] \in Wire
    BY <2>1 DEF Wire
  <2>3. wire' \in [Attempts -> Wire \cup {Absent}]
    BY <1>2, <2>2 DEF SafaricomProcesses, Typed, TypeOK
  <2> QED
    BY <1>2, <2>3 DEF SafaricomProcesses, Typed, TypeOK, Identified, Existing
<1>3. ASSUME NEW r \in Requests, row[r].status \in Live
      PROVE  /\ KeepsRow(r, Settled(r, "completed"))
             /\ KeepsRow(r, Settled(r, "failed"))
  BY <1>1, <1>3, SettledRow DEF KeepsRow, Existing, Live
<1>4. ASSUME NEW r \in Requests, ResultPaid(a, r)
      PROVE  Typed'
  <2>1. pool' \in Pools
    BY <1>1, <1>4, AfterSuccessType DEF ResultPaid
  <2> QED
    BY <1>1, <1>3, <1>4, <2>1, RowStepType DEF ResultPaid, WritesRow
<1>5. ASSUME NEW r \in Requests, ResultFailed(a, r)
      PROVE  Typed'
  <2>1. pool' \in Pools
    BY <1>1, <1>5, AfterRefusalType DEF ResultFailed
  <2> QED
    BY <1>1, <1>3, <1>5, <2>1, RowStepType DEF ResultFailed, WritesRow
<1>6. ASSUME NEW r \in Requests, ResultRefused(a, r)
      PROVE  Typed'
  <2> DEFINE new == [row[r] EXCEPT !.status = "pending", !.parked = FALSE,
                        !.polls = 0, !.quiet = "asked", !.ack = NoAttempt]
  <2>1. KeepsRow(r, new)
    <3>1. [row[r] EXCEPT !.status = "pending", !.parked = FALSE] \in Row
      BY <1>1, RowFields DEF Statuses, Live
    <3>2. [row[r] EXCEPT !.status = "pending", !.parked = FALSE, !.polls = 0] \in Row
      <4>1. 0 \in 0..MaxPolls
        BY MoneyOutAssumption
      <4> QED
        BY <3>1, <4>1, RowFields
    <3>3. [row[r] EXCEPT !.status = "pending", !.parked = FALSE, !.polls = 0,
                         !.quiet = "asked"] \in Row
      BY <3>2, RowFields DEF Quiets
    <3>4. new \in Row
      BY <3>3, RowFields
    <3> QED
      BY <1>1, <1>6, <3>4 DEF ResultRefused, KeepsRow, Existing, Live, Row
  <2>2. row' = [row EXCEPT ![r] = new]
    BY <1>6 DEF ResultRefused
  <2>3. row[r].operator \in Operators
    BY <1>1, <1>6 DEF ResultRefused, SentAgain, Row
  <2>4. \A again \in BOOLEAN :
          [phase |-> "failover", req |-> r, attempt |-> a, operator |-> row[r].operator,
           tried |-> {row[r].operator}, again |-> again] \in Task
    BY <2>3 DEF Task
  <2>5. tasks' \subseteq Task
    BY <1>1, <1>6, <2>4 DEF ResultRefused
  <2> HIDE DEF new
  <2> QED
    BY <1>1, <1>6, <2>1, <2>2, <2>5, RowStepType DEF ResultRefused, WritesRow
<1>7. ASSUME NEW r \in Requests, QueueTimeout(a, r)
      PROVE  Typed'
  <2> DEFINE new == [row[r] EXCEPT !.status = TimedOut,
                        !.quiet = IF StillPending(r) THEN JustSent(@) ELSE @]
  <2>0. row[r].quiet \in Quiets => new.quiet \in Quiets
    BY <1>1 DEF JustSent, Quiets, Row
  <2>3. new \in Row /\ new.status = "unknown" /\ new.attempt = row[r].attempt
    BY <1>1, <2>0, ZenonT(40) DEF TimedOut, Row, Statuses, Live
  <2>1. KeepsRow(r, new)
    BY <1>7, <2>3 DEF QueueTimeout, KeepsRow, Existing
  <2>2. row' = [row EXCEPT ![r] = new]
    BY <1>7 DEF QueueTimeout
  <2> HIDE DEF new
  <2> QED
    BY <1>1, <1>7, <2>1, <2>2, RowStepType DEF QueueTimeout, WritesRow
<1> QED
  BY <1>2, <1>4, <1>5, <1>6, <1>7 DEF Result

LEMMA ClockType ==
  ASSUME Typed, NEW r \in Requests,
         TwoMinutesPass(r) \/ SweepExpire(r) \/ SweepSelect(r) \/ PollOne(r)
  PROVE  Typed'
<1>1. /\ row[r] \in Row /\ tasks \subseteq Task /\ pool \in Pools /\ issued \in 0..MaxAttempts
  BY DEF Typed, TypeOK
<1>2. CASE TwoMinutesPass(r)
  <2> DEFINE new == [row[r] EXCEPT !.quiet = "no"]
  <2>1. KeepsRow(r, new)
    BY <1>1, <1>2 DEF TwoMinutesPass, KeepsRow, Existing, Row, Quiets, Live
  <2>2. row' = [row EXCEPT ![r] = new]
    BY <1>2 DEF TwoMinutesPass
  <2> HIDE DEF new
  <2> QED
    BY <1>1, <1>2, <2>1, <2>2, RowStepType DEF TwoMinutesPass, WritesRow
<1>3. CASE SweepExpire(r)
  <2> DEFINE new == [row[r] EXCEPT !.status = "unknown", !.parked = TRUE]
  <2>1. KeepsRow(r, new)
    BY <1>1, <1>3 DEF SweepExpire, KeepsRow, Existing, Row, Live, Statuses
  <2>2. row' = [row EXCEPT ![r] = new]
    BY <1>3 DEF SweepExpire
  <2> HIDE DEF new
  <2> QED
    BY <1>1, <1>3, <2>1, <2>2, RowStepType DEF SweepExpire, WritesRow
<1>4. CASE SweepSelect(r) \/ PollOne(r)
  <2>1. Existing(r)
    BY <1>4 DEF SweepSelect, PollOne, Existing, Live
  <2>2. row[r].attempt \in Attempts
    BY <1>1, <2>1 DEF Typed, Identified, Row
  <2>3. [req |-> r, key |-> AskedBy(r)] \in Due
    BY <1>1, <2>2 DEF AskedBy, Due, Keys, Row
  <2> QED
    BY <1>4, <2>1, <2>3
    DEF SweepSelect, PollOne, Typed, TypeOK, Identified, Existing
<1> QED
  BY <1>2, <1>3, <1>4

LEMMA AskType ==
  ASSUME Typed, NEW d \in due, Ask(d)
  PROVE  Typed'
<1>1. d \in Due /\ d.req \in Requests /\ d.key \in Keys /\ row[d.req] \in Row /\ Existing(d.req)
  BY DEF Typed, TypeOK, Due, Identified
<1>2. PICK accepted \in BOOLEAN :
        /\ row' = [row EXCEPT ![d.req] = Counted(d.req, accepted)]
        /\ IF ~accepted THEN UNCHANGED queries
           ELSE \E q \in QueryIds :
                  queries' = [queries EXCEPT ![q] =
                    [state |-> "unrecorded", target |-> d.req, key |-> d.key, says |-> "nothing"]]
  BY DEF Ask
<1>3. Counted(d.req, accepted) \in Row
  <2>1. OneMore(row[d.req].polls) \in 0..MaxPolls
    BY <1>1, MoneyOutAssumption DEF OneMore, Row
  <2>2. [row[d.req] EXCEPT !.polls = OneMore(row[d.req].polls)] \in Row
    BY <1>1, <2>1, RowFields
  <2> QED
    BY <2>2, RowFields DEF Counted, Quiets
<1>4. Counted(d.req, accepted).status = row[d.req].status
      /\ Counted(d.req, accepted).attempt = row[d.req].attempt
  BY <1>1 DEF Counted, Row
<1>5. row' \in [Requests -> Row]
  BY <1>2, <1>3 DEF Typed, TypeOK
<1>6. \A r \in Requests : row'[r].status = row[r].status /\ row'[r].attempt = row[r].attempt
  BY <1>1, <1>2, <1>4 DEF Typed, TypeOK
<1>7. [state |-> "unrecorded", target |-> d.req, key |-> d.key, says |-> "nothing"] \in Query
  BY <1>1 DEF Query
<1>8. /\ queries' \in [QueryIds -> Query \cup {Unasked, Done}]
      /\ \A q \in QueryIds : queries'[q] = queries[q] \/ queries'[q].target = d.req
  BY <1>2, <1>7 DEF Typed, TypeOK
<1>9. Identified'
  BY <1>1, <1>6, <1>8 DEF Ask, Typed, TypeOK, Identified, Existing, Due, Query, Unasked, Done
<1> QED
  BY <1>5, <1>8, <1>9 DEF Ask, Typed, TypeOK

LEMMA AnswerType ==
  ASSUME Typed, NEW q \in QueryIds, Answer(q)
  PROVE  Typed'
<1>1. queries[q].state \in {"unrecorded", "recorded"} => 
        queries[q] \in Query /\ queries[q].target \in Requests
        /\ row[queries[q].target] \in Row /\ Existing(queries[q].target)
  BY DEF Typed, TypeOK, Identified, Query, Unasked, Done
<1>2. CASE SafaricomAnswers(q)
  <2>1. Knows(queries[q].key) \in {"unclear", "completed", "failed"}
    BY DEF Knows
  <2>2. [queries[q] EXCEPT !.says = Knows(queries[q].key)] \in Query
    BY <1>1, <1>2, <2>1 DEF SafaricomAnswers, Query
  <2>3. queries' = [queries EXCEPT ![q] = [queries[q] EXCEPT !.says = Knows(queries[q].key)]]
    BY <1>2 DEF SafaricomAnswers
  <2>4. [queries[q] EXCEPT !.says = Knows(queries[q].key)].target = queries[q].target
    BY <1>1, <1>2 DEF SafaricomAnswers, Query
  <2>5. Identified'
    BY <1>1, <1>2, <2>3, <2>4 DEF SafaricomAnswers, Typed, TypeOK, Identified, Existing
  <2> QED
    BY <1>2, <2>2, <2>3, <2>5 DEF SafaricomAnswers, Typed, TypeOK
<1>3. CASE RecordQuery(q)
  <2>1. [queries[q] EXCEPT !.state = "recorded"] \in Query
        /\ [queries[q] EXCEPT !.state = "recorded"].target = queries[q].target
    BY <1>1, <1>3 DEF RecordQuery, Query
  <2>2. queries' = [queries EXCEPT ![q] = [queries[q] EXCEPT !.state = "recorded"]]
    BY <1>3 DEF RecordQuery
  <2>3. Identified'
    BY <1>1, <1>3, <2>1, <2>2 DEF RecordQuery, Typed, TypeOK, Identified, Existing
  <2> QED
    BY <1>3, <2>1, <2>2, <2>3 DEF RecordQuery, Typed, TypeOK
<1>4. ASSUME Answered(q), queries[q].says \in {"completed", "failed"}
      PROVE  /\ Settled(queries[q].target, queries[q].says) \in Row
             /\ Settled(queries[q].target, queries[q].says).status # "none"
             /\ Settled(queries[q].target, queries[q].says).attempt
                  = row[queries[q].target].attempt
  <2>1. row[queries[q].target] \in Row
    BY <1>1, <1>4 DEF Answered
  <2>2. queries[q].target \in Requests
    BY <1>1, <1>4 DEF Answered
  <2> QED
    BY <1>4, <2>1, <2>2, SettledRow
<1>5. CASE StatusResult(q)
  <2> DEFINE r == queries[q].target
             new == Settled(r, queries[q].says)
  <2>1. queries[q].says \in {"unclear", "completed", "failed"}
    BY <1>1, <1>5 DEF StatusResult, Answered, Query
  <2>2. /\ row' \in [Requests -> Row]
        /\ \A x \in Requests : Existing(x) => Existing(x)'
        /\ \A x \in Requests : row'[x].attempt = row[x].attempt
        /\ \A x \in Requests : Existing(x)' => Existing(x)
    BY <1>1, <1>4, <1>5, <2>1 DEF StatusResult, Answered, Typed, TypeOK, Existing
  <2>3. Identified'
    BY <1>5, <2>2 DEF StatusResult, Typed, TypeOK, Identified, Due, Query, Unasked, Done
  <2> QED
    BY <1>5, <2>2, <2>3 DEF StatusResult, Typed, TypeOK
<1>6. ASSUME NEW r \in Requests, StatusDirect(q, r)
      PROVE  Typed'
  <2>1. queries[q].says \in {"completed", "failed"} /\ row[r] \in Row
    BY <1>1, <1>6 DEF StatusDirect, Answered, Query, Typed, TypeOK
  <2>2. KeepsRow(r, Settled(r, queries[q].says))
    <3>1. Existing(r)
      BY <1>6 DEF StatusDirect, Existing, Live
    <3> QED
      BY <2>1, <3>1, SettledRow DEF KeepsRow
  <2>3. WritesRow(r, Settled(r, queries[q].says))
    BY <1>6, <2>2 DEF StatusDirect, WritesRow
  <2>4. /\ tasks' \subseteq Task /\ due' \subseteq due /\ queries' = queries /\ wire' = wire
        /\ pool' \in Pools /\ issued' \in 0..MaxAttempts /\ crashes' = crashes
    BY <1>6 DEF StatusDirect, Typed, TypeOK
  <2> QED
    BY <2>3, <2>4, RowStepType
<1> QED
  BY <1>2, <1>3, <1>5, <1>6 DEF Answer

LEMMA AroundType ==
  ASSUME Typed, Crash \/ \E o \in Operators : Disable(o) \/ Reinstate(o)
  PROVE  Typed'
<1>1. CASE Crash
  BY <1>1, MoneyOutAssumption DEF Crash, Typed, TypeOK, Identified, Existing
<1>2. ASSUME NEW o \in Operators, Disable(o) \/ Reinstate(o)
      PROVE  Typed'
  <2>1. pool' \in Pools
    BY <1>2 DEF Disable, Reinstate, Typed, TypeOK, Pools, OperatorState, FailuresBeforeDown
  <2> QED
    BY <1>2, <2>1 DEF Disable, Reinstate, Typed, TypeOK, Identified, Existing
<1> QED
  BY <1>1, <1>2

LEMMA StepType == Typed /\ [Next]_vars => Typed'
<1> SUFFICES ASSUME Typed, [Next]_vars PROVE Typed'
  OBVIOUS
<1>1. ASSUME NEW r \in Requests, Decide(r) \/ Clock(r) PROVE Typed'
  <2>1. Creator \in People
    BY MoneyOutAssumption
  <2> QED
    BY <1>1, <2>1, CreateType, DecideType, ClockType DEF Decide, Clock
<1>2. CASE UNCHANGED vars
  BY <1>2 DEF vars, Typed, TypeOK, Identified, Existing
<1> QED
  BY <1>1, <1>2, ContinueType, ResultType, AskType, AnswerType, AroundType DEF Next

LEMMA TypedAlways == Spec => []Typed
BY InitType, StepType, PTL DEF Spec

\* The tables and the continuations stay within their types, whatever the
\* bounds.
THEOREM TypeCorrect == Spec => []TypeOK
<1>1. Typed => TypeOK
  BY DEF Typed
<1> QED
  BY <1>1, TypedAlways, PTL

(***************************************************************************)
(* What is never sent, and what is never undone: the inductive invariant   *)
(* behind SecondPerson, RejectedNeverSent and SettledStays.                *)
(***************************************************************************)

(* Whoever still speaks of attempt a speaks of the payment r: the row, a   *)
(* continuation, a query about to be asked or asked, and Safaricom.        *)
OpenQuery(q) == queries[q].state \in {"unrecorded", "recorded"}

RowMentions(r, a) == row[r].attempt = a \/ row[r].ack = a
TaskMentions(r, a) == \E t \in tasks : t.req = r /\ t.attempt = a
DueMentions(r, a) == \E d \in due : d.req = r /\ d.key.attempt = a
QueryMentions(r, a) ==
  \E q \in QueryIds : OpenQuery(q) /\ queries[q].target = r /\ queries[q].key.attempt = a
WireMentions(r, a) == wire[a].at # "absent" /\ wire[a].req = r

Mentions(r, a) ==
  \/ RowMentions(r, a) \/ TaskMentions(r, a) \/ DueMentions(r, a)
  \/ QueryMentions(r, a) \/ WireMentions(r, a)

OneOwner ==
  \A a \in Attempts : \A r, s \in Requests :
    Mentions(r, a) => /\ a <= issued
                      /\ Mentions(s, a) => r = s

(* Let through: neither waiting for a decision nor turned down.            *)
InHand == {"pending", "sent", "unknown", "completed", "failed"}
LetThrough(r) == row[r].status \in InHand
Cleared(r) ==
  LetThrough(r) /\ (row[r].held => row[r].approver \notin {Nobody, Creator})

(* A continuation about to hold a payment is the only one that knows of it.*)
TasksAllowed ==
  \A t \in tasks :
    /\ LetThrough(t.req)
    /\ t.phase = "hold" => ~Sent(t.req) /\ \A u \in tasks : u.req = t.req => u = t
    /\ t.phase # "hold" => Cleared(t.req)

SentCleared == \A r \in Requests : Sent(r) => Cleared(r)

AnswersOfSent ==
  \A q \in QueryIds :
    OpenQuery(q) /\ queries[q].says \in {"completed", "failed"} => Sent(queries[q].target)

Safe == OneOwner /\ TasksAllowed /\ SentCleared /\ AnswersOfSent

LEMMA SafeInit == Init => Safe
<1> SUFFICES ASSUME Init PROVE Safe
  OBVIOUS
<1>1. \A a \in Attempts, r \in Requests : ~Mentions(r, a)
  BY AttemptsType
  DEF Init, NoRow, Absent, Unasked, OpenQuery, Mentions, RowMentions, TaskMentions,
      DueMentions, QueryMentions, WireMentions
<1>2. \A r \in Requests : ~Sent(r)
  BY DEF Init, Sent, Absent
<1> QED
  BY <1>1, <1>2 DEF Init, Safe, OneOwner, TasksAllowed, SentCleared, AnswersOfSent,
                    OpenQuery, Unasked

(* A row named by an identifier Safaricom knows is the row it is of.       *)
LEMMA SentByName ==
  ASSUME Typed, Safe, NEW r \in Requests, NEW a \in Attempts,
         wire[a].at # "absent",
         Mentions(r, a)
  PROVE  Sent(r) /\ wire[a].req = r /\ Cleared(r)
<1>1. wire[a].req \in Requests
  BY DEF Typed, TypeOK, Wire, Absent
<1>2. Mentions(wire[a].req, a)
  BY <1>1 DEF Mentions, WireMentions
<1>3. wire[a].req = r
  BY <1>1, <1>2 DEF Safe, OneOwner
<1> QED
  BY <1>3 DEF Sent, Safe, SentCleared

LEMMA NamedIsMentioned ==
  ASSUME NEW r \in Requests, NEW k, Names(r, k)
  PROVE  Mentions(r, k.attempt)
BY DEF Names, Mentions, RowMentions

LEMMA NamedIsSent ==
  ASSUME Typed, Safe, NEW r \in Requests, NEW a \in Attempts,
         wire[a].at # "absent", Names(r, KeyOf(a))
  PROVE  Sent(r) /\ wire[a].req = r /\ Cleared(r) /\ Mentions(r, a)
BY NamedIsMentioned, SentByName DEF KeyOf

LEMMA OwnersStay ==
  ASSUME OneOwner, issued' = issued,
         \A r \in Requests, a \in Attempts : Mentions(r, a)' => Mentions(r, a)
  PROVE  OneOwner'
BY DEF OneOwner

LEMMA NewOwner ==
  ASSUME OneOwner, issued \in Nat, issued' = issued + 1, NEW r \in Requests,
         \A x \in Requests, b \in Attempts :
           Mentions(x, b)' => Mentions(x, b) \/ (x = r /\ b = issued + 1)
  PROVE  OneOwner'
<1> SUFFICES ASSUME NEW b \in Attempts, NEW x \in Requests, NEW y \in Requests,
                    Mentions(x, b)'
             PROVE  b <= issued' /\ (Mentions(y, b)' => x = y)
  BY DEF OneOwner
<1>1. b \in Nat
  BY AttemptsType
<1>2. CASE b = issued + 1
  <2>1. ~Mentions(x, b) /\ ~Mentions(y, b)
    BY <1>2 DEF OneOwner
  <2> QED
    BY <1>2, <2>1
<1>3. CASE b # issued + 1
  BY <1>1, <1>3 DEF OneOwner
<1> QED
  BY <1>2, <1>3

(* A payment in hand that stays in hand, of the same people and the same   *)
(* identifiers.                                                            *)
Carries(r, new) ==
  /\ new.status \in InHand /\ LetThrough(r)
  /\ new.held = row[r].held /\ new.approver = row[r].approver
  /\ \A a \in Attempts : new.attempt = a \/ new.ack = a => Mentions(r, a)

LEMMA CarriedStep ==
  ASSUME Typed, Safe, NEW r \in Requests, NEW new,
         row' = row \/ (row' = [row EXCEPT ![r] = new] /\ Carries(r, new)),
         tasks' \subseteq tasks, due' \subseteq due, wire' = wire, issued' = issued,
         \/ queries' = queries
         \/ \E q \in QueryIds : queries' = [queries EXCEPT ![q] = Done]
  PROVE  Safe'
<1>1. row \in [Requests -> Row]
  BY DEF Typed, TypeOK
<1>2. \A x \in Requests : (LetThrough(x) <=> LetThrough(x)') /\ (Cleared(x) <=> Cleared(x)')
  BY <1>1 DEF Carries, LetThrough, Cleared
<1>3. \A x \in Requests, a \in Attempts : RowMentions(x, a)' => Mentions(x, a)
  BY <1>1 DEF Carries, RowMentions, Mentions
<1>4. \A q \in QueryIds : OpenQuery(q)' => OpenQuery(q) /\ queries'[q] = queries[q]
  BY DEF OpenQuery, Done, Typed, TypeOK
<1>5. \A x \in Requests, a \in Attempts :
        /\ TaskMentions(x, a)' => TaskMentions(x, a)
        /\ DueMentions(x, a)' => DueMentions(x, a)
        /\ QueryMentions(x, a)' => QueryMentions(x, a)
        /\ WireMentions(x, a)' => WireMentions(x, a)
  BY <1>4 DEF TaskMentions, DueMentions, QueryMentions, WireMentions
<1>6. OneOwner'
  BY <1>3, <1>5, OwnersStay DEF Mentions, Safe
<1>7. \A x \in Requests : Sent(x)' <=> Sent(x)
  BY DEF Sent
<1>8. TasksAllowed'
  BY <1>2, <1>7 DEF TasksAllowed, Safe, Typed, TypeOK, Task
<1>9. SentCleared' /\ AnswersOfSent'
  BY <1>2, <1>4, <1>7 DEF SentCleared, AnswersOfSent, OpenQuery, Safe, Typed, TypeOK, Query,
                          Unasked, Done
<1> QED
  BY <1>6, <1>8, <1>9 DEF Safe
(* The other steps: what was let through stays so, a payment is sent or    *)
(* put in somebody's hands only when cleared and not about to be held.     *)
NotHeldNow(r) == \A h \in tasks : h.req = r => h.phase # "hold"

LEMMA ClearedStep ==
  ASSUME Typed, Safe, Typed', OneOwner',
         \A x \in Requests : /\ LetThrough(x) => LetThrough(x)'
                             /\ Cleared(x) => Cleared(x)'
                             /\ Sent(x) => Sent(x)'
                             /\ Sent(x)' => Sent(x) \/ (Cleared(x)' /\ NotHeldNow(x)'),
         \A u \in tasks' : u \in tasks \/ (u.phase # "hold" /\ Cleared(u.req)'
                                             /\ NotHeldNow(u.req)'),
         AnswersOfSent' \/ queries' = queries
  PROVE  Safe'
<1>1. \A t \in tasks' : t.req \in Requests
  BY DEF Typed, TypeOK, Task
<1>2. TasksAllowed'
  <2> SUFFICES ASSUME NEW t \in tasks'
               PROVE  /\ LetThrough(t.req)'
                      /\ t.phase = "hold" =>
                           ~Sent(t.req)' /\ \A u \in tasks' : u.req = t.req => u = t
                      /\ t.phase # "hold" => Cleared(t.req)'
    BY DEF TasksAllowed
  <2>1. LetThrough(t.req)' /\ (t.phase # "hold" => Cleared(t.req)')
    BY <1>1 DEF Safe, TasksAllowed, Cleared
  <2>2. ASSUME t.phase = "hold"
        PROVE  ~Sent(t.req)' /\ \A u \in tasks' : u.req = t.req => u = t
    <3>1. t \in tasks /\ ~Sent(t.req) /\ \A u \in tasks : u.req = t.req => u = t
      BY <2>2 DEF Safe, TasksAllowed
    <3>2. ~NotHeldNow(t.req)'
      BY <2>2 DEF NotHeldNow
    <3> QED
      BY <1>1, <3>1, <3>2
  <2> QED
    BY <2>1, <2>2
<1>3. SentCleared'
  BY DEF Safe, SentCleared
<1>4. AnswersOfSent'
  <2>1. \A q \in QueryIds : OpenQuery(q) => queries[q].target \in Requests
    BY DEF Typed, TypeOK, OpenQuery, Query, Unasked, Done
  <2> QED
    BY <2>1 DEF Safe, AnswersOfSent, OpenQuery
<1> QED
  BY <1>2, <1>3, <1>4 DEF Safe

LEMMA SafeHold ==
  ASSUME Typed, Safe, NEW t \in tasks, Hold(t)
  PROVE  Safe'
<1> DEFINE r == t.req
           new == [row[r] EXCEPT !.status = "awaiting_approval", !.operator = NoOperator]
<1>1. /\ r \in Requests /\ row[r] \in Row /\ row \in [Requests -> Row]
      /\ ~Sent(r) /\ \A u \in tasks : u.req = r => u = t
  BY DEF Typed, TypeOK, Task, Safe, TasksAllowed, Hold
<1>2. row' = row \/ row' = [row EXCEPT ![r] = new]
  BY DEF Hold, UpdateWhere
<1>3. new.attempt = row[r].attempt /\ new.ack = row[r].ack
  BY <1>1 DEF Row
<1> HIDE DEF new
<1>4. \A x \in Requests : row'[x].attempt = row[x].attempt /\ row'[x].ack = row[x].ack
  BY <1>1, <1>2, <1>3
<1>5. \A x \in Requests, a \in Attempts : Mentions(x, a)' => Mentions(x, a)
  BY <1>4 DEF Hold, Mentions, RowMentions, TaskMentions, DueMentions, QueryMentions,
              WireMentions, OpenQuery
<1>6. OneOwner'
  BY <1>5, OwnersStay DEF Hold, Safe
<1>7. \A x \in Requests : x # r => (LetThrough(x) => LetThrough(x)')
                                   /\ (Cleared(x) => Cleared(x)')
  BY <1>1, <1>2 DEF LetThrough, Cleared
<1>8. \A x \in Requests : Sent(x)' <=> Sent(x)
  BY DEF Hold, Sent
<1>9. \A u \in tasks' : u \in tasks /\ u.req # r /\ u.req \in Requests
  BY <1>1 DEF Hold, Typed, TypeOK, Task
<1>10. TasksAllowed'
  BY <1>7, <1>8, <1>9 DEF Safe, TasksAllowed
<1>11. SentCleared' /\ AnswersOfSent'
  BY <1>1, <1>7, <1>8 DEF Hold, Safe, SentCleared, AnswersOfSent, OpenQuery, Typed, TypeOK,
                          Query, Unasked, Done
<1> QED
  BY <1>6, <1>10, <1>11 DEF Safe

LEMMA SafeCreate ==
  ASSUME Typed, Safe, NEW r \in Requests, NEW held \in BOOLEAN, Create(r, held)
  PROVE  Safe'
<1> DEFINE a == issued + 1
           o == FirstOperator(pool, {})
           new == [NoRow EXCEPT !.status = "pending", !.attempt = a, !.operator = o,
                                !.quiet = "young", !.held = held]
           t == [phase |-> IF held THEN "hold" ELSE "send", req |-> r, attempt |-> a,
                 operator |-> o, tried |-> {o}, again |-> FALSE]
<1>1. /\ row \in [Requests -> Row] /\ issued \in Nat /\ a \in Attempts
      /\ row' = [row EXCEPT ![r] = new] /\ tasks' = tasks \cup {t} /\ issued' = a
      /\ \A u \in tasks : u.req \in Requests
  BY AttemptsType DEF Create, Typed, TypeOK, Task
<1>2. /\ new.status = "pending" /\ new.attempt = a /\ new.ack = NoAttempt /\ new.held = held
      /\ t.req = r /\ t.attempt = a /\ t.phase = IF held THEN "hold" ELSE "send"
  BY DEF NoRow
<1>3. ~LetThrough(r) /\ ~Cleared(r) /\ ~Sent(r) /\ \A u \in tasks : u.req # r
  BY DEF Create, LetThrough, Cleared, InHand, Safe, TasksAllowed, SentCleared
<1> HIDE DEF new, t
<1>4. ASSUME NEW x \in Requests, NEW b \in Attempts, Mentions(x, b)'
      PROVE  Mentions(x, b) \/ (x = r /\ b = a)
  <2>1. RowMentions(x, b)' => RowMentions(x, b) \/ (x = r /\ b = a)
    BY <1>1, <1>2, AttemptsType DEF RowMentions
  <2>2. TaskMentions(x, b)' => TaskMentions(x, b) \/ (x = r /\ b = a)
    BY <1>1, <1>2 DEF TaskMentions
  <2>3. DueMentions(x, b)' => DueMentions(x, b)
    BY DEF Create, DueMentions
  <2>4. QueryMentions(x, b)' => QueryMentions(x, b)
    BY DEF Create, QueryMentions, OpenQuery
  <2>5. WireMentions(x, b)' => WireMentions(x, b)
    BY DEF Create, WireMentions
  <2> QED
    BY <1>4, <2>1, <2>2, <2>3, <2>4, <2>5 DEF Mentions
<1>5. OneOwner'
  BY <1>1, <1>4, NewOwner DEF Safe
<1>6. \A x \in Requests : x # r => (LetThrough(x) => LetThrough(x)')
                                   /\ (Cleared(x) => Cleared(x)')
  BY <1>1 DEF LetThrough, Cleared
<1>7. \A x \in Requests : Sent(x)' <=> Sent(x)
  BY DEF Create, Sent
<1>8. LetThrough(r)' /\ (~held => Cleared(r)')
  BY <1>1, <1>2 DEF LetThrough, Cleared, InHand
<1>9. TasksAllowed'
  <2>1. ASSUME NEW u \in tasks
        PROVE  /\ LetThrough(u.req)'
               /\ u.phase = "hold" =>
                    ~Sent(u.req)' /\ \A v \in tasks' : v.req = u.req => v = u
               /\ u.phase # "hold" => Cleared(u.req)'
    BY <1>1, <1>2, <1>3, <1>6, <1>7 DEF Safe, TasksAllowed
  <2>2. ASSUME NEW u \in tasks', u \notin tasks
        PROVE  /\ LetThrough(u.req)'
               /\ u.phase = "hold" =>
                    ~Sent(u.req)' /\ \A v \in tasks' : v.req = u.req => v = u
               /\ u.phase # "hold" => Cleared(u.req)'
    <3>1. u = t /\ u.req = r /\ u.phase = IF held THEN "hold" ELSE "send"
      BY <1>1, <1>2, <2>2
    <3>2. \A v \in tasks' : v.req = r => v = u
      BY <1>1, <1>3, <3>1
    <3> QED
      BY <1>3, <1>7, <1>8, <3>1, <3>2
  <2> QED
    BY <2>1, <2>2 DEF TasksAllowed
<1>10. SentCleared' /\ AnswersOfSent'
  BY <1>3, <1>6, <1>7 DEF Create, Safe, SentCleared, AnswersOfSent, OpenQuery, Typed, TypeOK,
                          Query, Unasked, Done
<1> QED
  BY <1>5, <1>9, <1>10 DEF Safe
(* A decision taken: nobody held the payment, and nothing was sent.        *)
LEMMA SafeDecide ==
  ASSUME Typed, Safe, Typed', NEW r \in Requests, NEW p \in People,
         Release(r, p) \/ Refuse(r, p) \/ ExpireApproval(r)
  PROVE  Safe'
<1>1. /\ row \in [Requests -> Row] /\ row[r] \in Row /\ ~LetThrough(r) /\ ~Cleared(r)
      /\ ~Sent(r) /\ \A u \in tasks : u.req # r
      /\ \A u \in tasks : u.req \in Requests
  BY DEF Release, Refuse, ExpireApproval, Waiting, LetThrough, Cleared, InHand, Safe, TasksAllowed,
         SentCleared, Typed, TypeOK, Task
<1>2. \A x \in Requests : /\ row'[x].attempt = row[x].attempt /\ row'[x].ack = row[x].ack
                          /\ x # r => row'[x] = row[x]
  <2>1. CASE Release(r, p)
    BY <1>1, <2>1 DEF Release, Row
  <2>2. CASE Refuse(r, p)
    BY <1>1, <2>2 DEF Refuse, Row
  <2>3. CASE ExpireApproval(r)
    BY <1>1, <2>3 DEF ExpireApproval, Row
  <2> QED
    BY <2>1, <2>2, <2>3
<1>3. \A x \in Requests : x # r => /\ LetThrough(x) => LetThrough(x)'
                                   /\ Cleared(x) => Cleared(x)'
  BY <1>2 DEF LetThrough, Cleared
<1>4. \A x \in Requests : Sent(x)' <=> Sent(x)
  BY DEF Release, Refuse, ExpireApproval, Sent
<1>5. \A u \in tasks' : u \in tasks \/ (Release(r, p) /\ u.req = r /\ u.phase = "send"
                                          /\ u.attempt = row[r].attempt)
  BY DEF Release, Refuse, ExpireApproval
<1>6. \A x \in Requests, a \in Attempts : Mentions(x, a)' => Mentions(x, a)
  BY <1>2, <1>5 DEF Release, Refuse, ExpireApproval, Mentions, RowMentions, TaskMentions,
                    DueMentions, QueryMentions, WireMentions, OpenQuery
<1>7. OneOwner' /\ queries' = queries
  BY <1>6, OwnersStay DEF Release, Refuse, ExpireApproval, Safe
<1>8. Release(r, p) => Cleared(r)'
  BY <1>1, MoneyOutAssumption DEF Release, Another, Cleared, LetThrough, InHand, Row
<1>9. NotHeldNow(r)'
  BY <1>1, <1>5 DEF NotHeldNow
<1> QED
  BY <1>1, <1>3, <1>4, <1>5, <1>7, <1>8, <1>9, ClearedStep

LEMMA SafeClock ==
  ASSUME Typed, Safe, NEW r \in Requests,
         MarkChecked(r) \/ TwoMinutesPass(r) \/ SweepExpire(r)
  PROVE  Safe'
<1> DEFINE new == row'[r]
<1>1. /\ row \in [Requests -> Row] /\ row[r] \in Row /\ LetThrough(r)
  BY DEF MarkChecked, TwoMinutesPass, SweepExpire, Live, LetThrough, InHand, Typed, TypeOK
<1>2. row' = [row EXCEPT ![r] = new]
  BY <1>1 DEF MarkChecked, TwoMinutesPass, SweepExpire
<1>3. /\ new.attempt = row[r].attempt /\ new.ack = row[r].ack
      /\ new.held = row[r].held /\ new.approver = row[r].approver
      /\ new.status \in {row[r].status, "unknown"}
  <2>1. CASE MarkChecked(r)
    BY <1>1, <2>1 DEF MarkChecked, Row
  <2>2. CASE TwoMinutesPass(r)
    BY <1>1, <2>2 DEF TwoMinutesPass, Row
  <2>3. CASE SweepExpire(r)
    BY <1>1, <2>3 DEF SweepExpire, Row
  <2> QED
    BY <2>1, <2>2, <2>3
<1>4. Carries(r, new)
  BY <1>1, <1>3 DEF Carries, LetThrough, InHand, Mentions, RowMentions
<1> HIDE DEF new
<1> QED
  BY <1>2, <1>4, CarriedStep DEF MarkChecked, TwoMinutesPass, SweepExpire

(* The identifier a query is asked by is one the row goes by.              *)
LEMMA AskedByMentioned ==
  ASSUME Typed, NEW r \in Requests, NEW a \in Attempts, AskedBy(r).attempt = a
  PROVE  Mentions(r, a)
BY DEF AskedBy, Mentions, RowMentions

LEMMA SafeSelect ==
  ASSUME Typed, Safe, Typed', NEW r \in Requests, SweepSelect(r) \/ PollOne(r)
  PROVE  Safe'
<1>1. due' = due \cup {[req |-> r, key |-> AskedBy(r)]}
      /\ UNCHANGED <<row, tasks, wire, queries, pool, issued, crashes>>
  BY DEF SweepSelect, PollOne
<1>2. ASSUME NEW x \in Requests, NEW a \in Attempts, Mentions(x, a)'
      PROVE  Mentions(x, a)
  <2>1. DueMentions(x, a)' => DueMentions(x, a) \/ (x = r /\ AskedBy(r).attempt = a)
    BY <1>1 DEF DueMentions
  <2> QED
    BY <1>1, <1>2, <2>1, AskedByMentioned
    DEF Mentions, RowMentions, TaskMentions, QueryMentions, WireMentions, OpenQuery
<1>3. OneOwner'
  BY <1>1, <1>2, OwnersStay DEF Safe
<1>4. \A x \in Requests : /\ LetThrough(x)' <=> LetThrough(x)
                          /\ Cleared(x)' <=> Cleared(x)
                          /\ Sent(x)' <=> Sent(x)
  BY <1>1 DEF LetThrough, Cleared, Sent
<1> QED
  BY <1>1, <1>3, <1>4, ClearedStep

LEMMA SafeAsk ==
  ASSUME Typed, Safe, Typed', NEW d \in due, Ask(d)
  PROVE  Safe'
<1>1. d.req \in Requests /\ row[d.req] \in Row /\ row \in [Requests -> Row]
  BY DEF Typed, TypeOK, Due
<1>2. \A x \in Requests : /\ row'[x].status = row[x].status /\ row'[x].held = row[x].held
                          /\ row'[x].approver = row[x].approver
                          /\ row'[x].attempt = row[x].attempt /\ row'[x].ack = row[x].ack
  <2>1. PICK accepted \in BOOLEAN : row' = [row EXCEPT ![d.req] = Counted(d.req, accepted)]
    BY DEF Ask
  <2> QED
    BY <1>1, <2>1 DEF Counted, Row
<1>3. \A q \in QueryIds : \/ queries'[q] = queries[q]
                          \/ queries'[q] = [state |-> "unrecorded", target |-> d.req,
                                            key |-> d.key, says |-> "nothing"]
  BY DEF Ask, Typed, TypeOK
<1>4. ASSUME NEW x \in Requests, NEW a \in Attempts, Mentions(x, a)'
      PROVE  Mentions(x, a)
  <2>1. QueryMentions(x, a)' => QueryMentions(x, a) \/ DueMentions(x, a)
    BY <1>3 DEF QueryMentions, DueMentions, OpenQuery
  <2>2. DueMentions(x, a)' => DueMentions(x, a)
    BY DEF Ask, DueMentions
  <2> QED
    BY <1>2, <1>4, <2>1, <2>2 DEF Ask, Mentions, RowMentions, TaskMentions, WireMentions
<1>5. OneOwner'
  BY <1>4, OwnersStay DEF Ask, Safe
<1>6. \A x \in Requests : /\ LetThrough(x)' <=> LetThrough(x)
                          /\ Cleared(x)' <=> Cleared(x)
                          /\ Sent(x)' <=> Sent(x)
  BY <1>2 DEF Ask, LetThrough, Cleared, Sent
<1>7. AnswersOfSent'
  BY <1>3, <1>6 DEF Safe, AnswersOfSent, OpenQuery, Typed, TypeOK, Query, Unasked, Done
<1> QED
  BY <1>5, <1>6, <1>7, ClearedStep DEF Ask

LEMMA SafeAnswer ==
  ASSUME Typed, Safe, Typed', NEW q \in QueryIds, Answer(q)
  PROVE  Safe'
<1>1. OpenQuery(q) => /\ queries[q] \in Query /\ queries[q].target \in Requests
                      /\ queries[q].key.attempt \in Attempts
                      /\ Mentions(queries[q].target, queries[q].key.attempt)
  BY DEF Typed, TypeOK, OpenQuery, Query, Keys, Unasked, Done, Mentions, QueryMentions
<1>2. row \in [Requests -> Row] /\ queries \in [QueryIds -> Query \cup {Unasked, Done}]
  BY DEF Typed, TypeOK
<1>3. CASE SafaricomAnswers(q) \/ RecordQuery(q)
  <2>1. OpenQuery(q) /\ UNCHANGED <<row, tasks, due, wire, issued>>
    BY <1>3 DEF SafaricomAnswers, RecordQuery, OpenQuery
  <2>2. /\ \A x \in QueryIds : x # q => queries'[x] = queries[x]
        /\ queries'[q].target = queries[q].target /\ queries'[q].key = queries[q].key
        /\ queries'[q].says \in {queries[q].says, Knows(queries[q].key)}
    BY <1>1, <1>2, <1>3, <2>1 DEF SafaricomAnswers, RecordQuery, Query
  <2>3. ASSUME NEW x \in Requests, NEW a \in Attempts, Mentions(x, a)'
        PROVE  Mentions(x, a)
    <3>1. QueryMentions(x, a)' => QueryMentions(x, a)
      BY <2>1, <2>2 DEF QueryMentions, OpenQuery
    <3> QED
      BY <2>1, <2>3, <3>1 DEF Mentions, RowMentions, TaskMentions, DueMentions, WireMentions
  <2>4. OneOwner'
    BY <2>1, <2>3, OwnersStay DEF Safe
  <2>5. \A x \in Requests : /\ LetThrough(x)' <=> LetThrough(x)
                            /\ Cleared(x)' <=> Cleared(x)
                            /\ Sent(x)' <=> Sent(x)
    BY <2>1 DEF LetThrough, Cleared, Sent
  <2>6. Knows(queries[q].key) \in {"completed", "failed"} => Sent(queries[q].target)
    BY <1>1, <2>1, SentByName DEF Knows
  <2>7. AnswersOfSent'
    BY <1>1, <2>1, <2>2, <2>5, <2>6 DEF Safe, AnswersOfSent, OpenQuery, Typed, TypeOK, Query,
                                        Unasked, Done
  <2> QED
    BY <2>1, <2>4, <2>5, <2>7, ClearedStep
<1>4. ASSUME NEW r \in Requests, NEW s \in {"completed", "failed"}, LetThrough(r)
      PROVE  Carries(r, Settled(r, s))
  <2>1. row[r] \in Row
    BY <1>2
  <2> QED
    BY <1>4, <2>1 DEF Carries, Settled, InHand, Row, Mentions, RowMentions
<1>5. CASE StatusResult(q)
  <2> DEFINE r == queries[q].target
             new == Settled(r, queries[q].says)
  <2>1. OpenQuery(q) /\ r \in Requests /\ queries[q].says \in {"unclear", "completed", "failed"}
    BY <1>1, <1>5 DEF StatusResult, Answered, OpenQuery, Query
  <2>2. queries[q].says # "unclear" => Carries(r, new)
    BY <1>4, <2>1 DEF Safe, AnswersOfSent, SentCleared, Cleared
  <2>3. row' = row \/ (row' = [row EXCEPT ![r] = new] /\ Carries(r, new))
    BY <1>5, <2>2 DEF StatusResult
  <2> HIDE DEF new, r
  <2>4. r \in Requests
    BY <2>1
  <2> QED
    BY <1>5, <2>3, <2>4, CarriedStep DEF StatusResult
<1>6. ASSUME NEW r \in Requests, StatusDirect(q, r)
      PROVE  Safe'
  <2>1. queries[q].says \in {"completed", "failed"} /\ LetThrough(r)
    BY <1>1, <1>6 DEF StatusDirect, Answered, OpenQuery, Query, LetThrough, InHand, Live
  <2> QED
    BY <1>4, <1>6, <2>1, CarriedStep DEF StatusDirect
<1> QED
  BY <1>3, <1>5, <1>6 DEF Answer
LEMMA TaskCleared ==
  ASSUME Typed, Safe, NEW t \in tasks, t.phase # "hold"
  PROVE  /\ t \in Task /\ t.req \in Requests /\ t.attempt \in Attempts
         /\ Cleared(t.req) /\ LetThrough(t.req) /\ NotHeldNow(t.req)
         /\ Mentions(t.req, t.attempt)
BY DEF Typed, TypeOK, Task, Safe, TasksAllowed, Cleared, NotHeldNow, Mentions, TaskMentions

(* What a continuation writes of the answer to its call.                   *)
LEMMA SafeRecord ==
  ASSUME Typed, Safe, NEW t \in tasks, t.phase # "hold", NEW new,
         row' = UpdateWhere(t.req, {"pending"}, new) \/ row' = row,
         new.status \in InHand,
         new.held = row[t.req].held, new.approver = row[t.req].approver,
         new.attempt = row[t.req].attempt, new.ack \in {row[t.req].ack, t.attempt},
         tasks' = tasks \ {t}, UNCHANGED <<due, wire, queries, issued>>
  PROVE  Safe'
<1>1. t.req \in Requests /\ LetThrough(t.req) /\ Mentions(t.req, t.attempt)
  BY TaskCleared
<1>2. Carries(t.req, new)
  BY <1>1 DEF Carries, Mentions, RowMentions
<1> QED
  BY <1>1, <1>2, CarriedStep DEF UpdateWhere

LEMMA SafeMoveOn ==
  ASSUME Typed, Safe, Typed', NEW t \in tasks, t.phase # "hold", pool' \in Pools,
         MoveOn(t, t.tried), UNCHANGED <<due, wire, queries>>
  PROVE  Safe'
<1> DEFINE r == t.req
           o == FirstOperator(pool', t.tried)
           a == issued + 1
           new == Moved(r, o, a)
<1>1. /\ r \in Requests /\ Cleared(r) /\ LetThrough(r) /\ NotHeldNow(r)
      /\ row \in [Requests -> Row] /\ row[r] \in Row /\ issued \in Nat /\ a \in Attempts
  BY TaskCleared, AttemptsType DEF Typed, TypeOK, MoveOn
<1>2. o \in Operators
  <2>1. o # NoOperator
    BY DEF MoveOn
  <2> QED
    BY <2>1, FirstOperatorType
<1>3. /\ new.attempt = a /\ new.ack = NoAttempt /\ new.status = row[r].status
      /\ new.held = row[r].held /\ new.approver = row[r].approver
  BY <1>1, <1>2, MovedType
<1>4. row' = [row EXCEPT ![r] = new] /\ issued' = issued + 1
  BY DEF MoveOn
<1>5. \A u \in tasks' : u \in tasks \/ (u.phase = "send" /\ u.req = r /\ u.attempt = a)
  BY DEF MoveOn
<1> HIDE DEF new
<1>6. ASSUME NEW x \in Requests, NEW b \in Attempts, Mentions(x, b)'
      PROVE  Mentions(x, b) \/ (x = r /\ b = a)
  <2>1. RowMentions(x, b)' => RowMentions(x, b) \/ (x = r /\ b = a)
    BY <1>1, <1>3, <1>4, AttemptsType DEF RowMentions
  <2>2. TaskMentions(x, b)' => TaskMentions(x, b) \/ (x = r /\ b = a)
    BY <1>5 DEF TaskMentions
  <2>3. /\ DueMentions(x, b)' => DueMentions(x, b)
        /\ QueryMentions(x, b)' => QueryMentions(x, b)
        /\ WireMentions(x, b)' => WireMentions(x, b)
    BY DEF DueMentions, QueryMentions, WireMentions, OpenQuery
  <2> QED
    BY <1>6, <2>1, <2>2, <2>3 DEF Mentions
<1>7. OneOwner'
  BY <1>1, <1>4, <1>6, NewOwner DEF Safe
<1>8. \A x \in Requests : /\ LetThrough(x) => LetThrough(x)'
                          /\ Cleared(x) => Cleared(x)'
                          /\ Sent(x)' <=> Sent(x)
  BY <1>1, <1>3, <1>4 DEF LetThrough, Cleared, Sent
<1>9. NotHeldNow(r)'
  BY <1>1, <1>5 DEF NotHeldNow
<1> QED
  BY <1>1, <1>5, <1>7, <1>8, <1>9, ClearedStep

LEMMA SafeCall ==
  ASSUME Typed, Safe, Typed', NEW t \in tasks, CallAccepted(t) \/ CallNotAccepted(t)
  PROVE  Safe'
<1>1. /\ t.phase = "send" /\ t \in Task /\ t.req \in Requests /\ t.attempt \in Attempts
      /\ Cleared(t.req) /\ NotHeldNow(t.req) /\ Mentions(t.req, t.attempt)
  BY TaskCleared DEF CallAccepted, CallNotAccepted
<1>2. wire \in [Attempts -> Wire \cup {Absent}]
  BY DEF Typed, TypeOK
<1>0. PICK answer \in {"ack", "lost", "declined", "refused"}, api \in {"keeps", "assigns"} :
         /\ tasks' = (tasks \ {t}) \cup {[t EXCEPT !.phase = answer]}
         /\ \/ wire' = wire
            \/ wire' = [wire EXCEPT ![t.attempt] = [at |-> "queued", req |-> t.req,
                                                    operator |-> t.operator, api |-> api]]
  <2>1. CASE CallAccepted(t)
    BY <2>1, MoneyOutAssumption DEF CallAccepted
  <2>2. CASE CallNotAccepted(t)
    BY <2>2 DEF CallNotAccepted
  <2> QED
    BY <2>1, <2>2
<1>3. \A u \in tasks' : u \in tasks \/ (u.req = t.req /\ u.attempt = t.attempt /\ u.phase # "hold")
  <2>1. /\ [t EXCEPT !.phase = answer].phase = answer
        /\ [t EXCEPT !.phase = answer].req = t.req
        /\ [t EXCEPT !.phase = answer].attempt = t.attempt
    BY <1>1 DEF Task
  <2> QED
    BY <1>0, <2>1
<1>4. \/ wire' = wire
      \/ /\ \A a \in Attempts : a # t.attempt => wire'[a] = wire[a]
         /\ wire'[t.attempt].at = "queued" /\ wire'[t.attempt].req = t.req
  BY <1>1, <1>2, <1>0
<1>5. ASSUME NEW x \in Requests, NEW a \in Attempts, Mentions(x, a)'
      PROVE  Mentions(x, a)
  <2>1. WireMentions(x, a)' => Mentions(x, a)
    BY <1>1, <1>4 DEF WireMentions, Mentions
  <2>2. TaskMentions(x, a)' => Mentions(x, a)
    BY <1>1, <1>3 DEF TaskMentions, Mentions
  <2> QED
    BY <1>5, <2>1, <2>2
    DEF CallAccepted, CallNotAccepted, Mentions, RowMentions, DueMentions, QueryMentions, OpenQuery
<1>6. OneOwner' /\ UNCHANGED <<row, queries>>
  BY <1>5, OwnersStay DEF CallAccepted, CallNotAccepted, Safe
<1>7. \A x \in Requests : (LetThrough(x)' <=> LetThrough(x)) /\ (Cleared(x)' <=> Cleared(x))
  BY <1>6 DEF LetThrough, Cleared
<1>8. NotHeldNow(t.req)'
  <2> SUFFICES ASSUME NEW h \in tasks', h.req = t.req PROVE h.phase # "hold"
    BY <1>1 DEF NotHeldNow
  <2> QED
    BY <1>1, <1>3 DEF NotHeldNow
<1>9. ASSUME NEW x \in Requests
      PROVE  (Sent(x) => Sent(x)') /\ (Sent(x)' => Sent(x) \/ x = t.req)
  <2>1. wire[t.attempt].at # "absent" => wire[t.attempt].req = t.req
    BY <1>1, SentByName
  <2> QED
    BY <1>1, <1>4, <2>1 DEF Sent
<1>10. \A u \in tasks' : u \in tasks \/ (u.phase # "hold" /\ Cleared(u.req)' /\ NotHeldNow(u.req)')
  BY <1>1, <1>3, <1>7, <1>8
<1>11. \A x \in Requests : Sent(x)' => Sent(x) \/ (Cleared(x)' /\ NotHeldNow(x)')
  BY <1>1, <1>7, <1>8, <1>9
<1> QED
  BY <1>6, <1>7, <1>9, <1>10, <1>11, ClearedStep
LEMMA SafeContinue ==
  ASSUME Typed, Safe, Typed', NEW t \in tasks, Continue(t)
  PROVE  Safe'
<1>1. t \in Task /\ t.req \in Requests /\ row[t.req] \in Row /\ t.tried \in SUBSET Operators
  BY DEF Typed, TypeOK, Task
<1>2. ASSUME NEW s \in {"completed", "failed"}
      PROVE  LET new == Settled(t.req, s)
             IN /\ new.status \in InHand /\ new.held = row[t.req].held
                /\ new.approver = row[t.req].approver
                /\ new.attempt = row[t.req].attempt /\ new.ack = row[t.req].ack
  BY <1>1 DEF Settled, InHand, Row
<1>3. CASE RecordAck(t)
  <2> DEFINE new == [row[t.req] EXCEPT !.status = "sent", !.quiet = JustSent(@),
                        !.ack = IF wire[t.attempt].api = "assigns" THEN t.attempt ELSE @]
  <2>1. /\ new.status \in InHand
        /\ new.held = row[t.req].held /\ new.approver = row[t.req].approver
        /\ new.attempt = row[t.req].attempt /\ new.ack \in {row[t.req].ack, t.attempt}
    BY <1>1 DEF InHand, Row
  <2>2. row' = UpdateWhere(t.req, {"pending"}, new)
    BY <1>3 DEF RecordAck
  <2> HIDE DEF new
  <2> QED
    BY <1>3, <2>1, <2>2, SafeRecord DEF RecordAck
<1>4. CASE RecordUnconfirmed(t)
  <2> DEFINE new == [row[t.req] EXCEPT !.status = "unknown", !.quiet = JustSent(@)]
  <2>1. /\ new.status \in InHand
        /\ new.held = row[t.req].held /\ new.approver = row[t.req].approver
        /\ new.attempt = row[t.req].attempt /\ new.ack = row[t.req].ack
    BY <1>1 DEF InHand, Row
  <2>2. row' = UpdateWhere(t.req, {"pending"}, new)
    BY <1>4 DEF RecordUnconfirmed
  <2> HIDE DEF new
  <2> QED
    BY <1>4, <2>1, <2>2, SafeRecord DEF RecordUnconfirmed
<1>5. CASE RecordDeclined(t) \/ AckThrew(t)
  BY <1>2, <1>5, SafeRecord DEF RecordDeclined, AckThrew
<1>6. CASE RecordRefused(t)
  <2>1. pool' \in Pools /\ t.phase # "hold"
    BY <1>6 DEF RecordRefused, Refusal, Typed, TypeOK
  <2>2. CASE MoveOn(t, t.tried)
    BY <1>6, <2>1, <2>2, SafeMoveOn DEF RecordRefused
  <2>3. CASE ~MoveOn(t, t.tried)
    <3>1. row' = UpdateWhere(t.req, {"pending"}, Settled(t.req, "failed"))
          /\ tasks' = tasks \ {t} /\ UNCHANGED <<due, wire, queries, issued>>
      BY <1>6, <2>3 DEF RecordRefused, GiveUp
    <3> QED
      BY <1>2, <2>1, <3>1, SafeRecord
  <2> QED
    BY <2>2, <2>3
<1>7. CASE Failover(t)
  <2>1. pool' \in Pools /\ t.phase # "hold"
    BY <1>7 DEF Failover, Typed, TypeOK
  <2>2. CASE MoveOn(t, t.tried)
    BY <1>7, <2>1, <2>2, SafeMoveOn DEF Failover
  <2>3. CASE ~MoveOn(t, t.tried)
    <3>1. (row' = UpdateWhere(t.req, {"pending"}, Settled(t.req, "failed")) \/ row' = row)
          /\ tasks' = tasks \ {t} /\ UNCHANGED <<due, wire, queries, issued>>
      BY <1>7, <2>3 DEF Failover, GiveUp
    <3> QED
      BY <1>2, <2>1, <3>1, SafeRecord
  <2> QED
    BY <2>2, <2>3
<1> QED
  BY <1>3, <1>4, <1>5, <1>6, <1>7, SafeHold, SafeCall DEF Continue

LEMMA SafeResult ==
  ASSUME Typed, Safe, Typed', NEW a \in Attempts, Result(a)
  PROVE  Safe'
<1>1. row \in [Requests -> Row] /\ wire \in [Attempts -> Wire \cup {Absent}]
  BY DEF Typed, TypeOK
<1>2. CASE SafaricomProcesses(a)
  <2>1. wire[a] \in Wire /\ wire[a].at # "absent"
    BY <1>1, <1>2 DEF SafaricomProcesses, Absent
  <2>2. \A b \in Attempts : /\ wire'[b].at = "absent" <=> wire[b].at = "absent"
                            /\ wire[b].at # "absent" => wire'[b].req = wire[b].req
    <3>1. PICK end \in {"paid", "failed", "refused"} : wire' = [wire EXCEPT ![a].at = end]
      BY <1>2 DEF SafaricomProcesses
    <3> QED
      BY <1>1, <2>1, <3>1 DEF Wire
  <2>3. UNCHANGED <<row, tasks, due, queries, issued>>
    BY <1>2 DEF SafaricomProcesses
  <2>4. \A x \in Requests : /\ LetThrough(x)' <=> LetThrough(x)
                            /\ Cleared(x)' <=> Cleared(x)
                            /\ Sent(x)' <=> Sent(x)
    BY <2>2, <2>3 DEF LetThrough, Cleared, Sent
  <2>5. \A x \in Requests, b \in Attempts : Mentions(x, b)' => Mentions(x, b)
    BY <2>2, <2>3 DEF Mentions, RowMentions, TaskMentions, DueMentions, QueryMentions,
                      WireMentions, OpenQuery
  <2>6. OneOwner'
    BY <2>3, <2>5, OwnersStay DEF Safe
  <2> QED
    BY <2>3, <2>4, <2>6, ClearedStep
<1>3. ASSUME NEW r \in Requests, NEW new, row[r].status \in Live, new.status \in InHand,
             new.held = row[r].held, new.approver = row[r].approver,
             new.attempt = row[r].attempt, new.ack \in {row[r].ack, NoAttempt}
      PROVE  Carries(r, new)
  BY <1>3, AttemptsType DEF Carries, LetThrough, InHand, Live, Mentions, RowMentions
<1>4. ASSUME NEW r \in Requests, NEW s \in {"completed", "failed"}, row[r].status \in Live
      PROVE  Carries(r, Settled(r, s))
  <2>1. row[r] \in Row
    BY <1>1
  <2>2. LET new == Settled(r, s)
        IN /\ new.status \in InHand /\ new.held = row[r].held
           /\ new.approver = row[r].approver
           /\ new.attempt = row[r].attempt /\ new.ack = row[r].ack
    BY <2>1 DEF Settled, InHand, Row
  <2> QED
    BY <1>3, <1>4, <2>2
<1>5. ASSUME NEW r \in Requests, ResultPaid(a, r) \/ ResultFailed(a, r)
      PROVE  Safe'
  <2>1. CASE ResultPaid(a, r)
    BY <1>4, <2>1, CarriedStep DEF ResultPaid
  <2>2. CASE ResultFailed(a, r)
    BY <1>4, <2>2, CarriedStep DEF ResultFailed
  <2> QED
    BY <1>5, <2>1, <2>2
<1>6. ASSUME NEW r \in Requests, QueueTimeout(a, r)
      PROVE  Safe'
  <2> DEFINE new == [row[r] EXCEPT !.status = TimedOut,
                        !.quiet = IF StillPending(r) THEN JustSent(@) ELSE @]
  <2>1. /\ new.status \in InHand /\ new.held = row[r].held
        /\ new.approver = row[r].approver
        /\ new.attempt = row[r].attempt /\ new.ack = row[r].ack /\ row[r].status \in Live
    BY <1>1, <1>6 DEF QueueTimeout, TimedOut, InHand, Row, Live
  <2>2. row' = [row EXCEPT ![r] = new]
    BY <1>6 DEF QueueTimeout
  <2> HIDE DEF new
  <2> QED
    BY <1>3, <1>6, <2>1, <2>2, CarriedStep DEF QueueTimeout
<1>7. ASSUME NEW r \in Requests, ResultRefused(a, r)
      PROVE  Safe'
  <2> DEFINE new == [row[r] EXCEPT !.status = "pending", !.parked = FALSE,
                        !.polls = 0, !.quiet = "asked", !.ack = NoAttempt]
  <2>1. /\ new.status \in InHand /\ new.held = row[r].held
        /\ new.approver = row[r].approver
        /\ new.attempt = row[r].attempt /\ new.ack = NoAttempt /\ row[r].status \in Live
    BY <1>1, <1>7 DEF ResultRefused, InHand, Row
  <2>2. row' = [row EXCEPT ![r] = new] /\ UNCHANGED <<due, wire, queries, issued>>
    BY <1>7 DEF ResultRefused
  <2> HIDE DEF new
  <2>3. Sent(r) /\ wire[a].req = r /\ Cleared(r) /\ Mentions(r, a)
    BY <1>7, NamedIsSent DEF ResultRefused
  <2>4. \A u \in tasks' : u \in tasks \/ (u.phase = "failover" /\ u.req = r /\ u.attempt = a)
    BY <1>7 DEF ResultRefused
  <2>5. ASSUME NEW x \in Requests, NEW b \in Attempts, Mentions(x, b)'
        PROVE  Mentions(x, b)
    <3>1. RowMentions(x, b)' => RowMentions(x, b)
      BY <1>1, <2>1, <2>2, AttemptsType DEF RowMentions
    <3>2. TaskMentions(x, b)' => Mentions(x, b)
      BY <2>3, <2>4 DEF TaskMentions, Mentions
    <3> QED
      BY <2>2, <2>5, <3>1, <3>2
      DEF Mentions, DueMentions, QueryMentions, WireMentions, OpenQuery
  <2>6. OneOwner'
    BY <2>2, <2>5, OwnersStay DEF Safe
  <2>7. \A x \in Requests : /\ LetThrough(x) => LetThrough(x)'
                            /\ Cleared(x) => Cleared(x)'
                            /\ Sent(x)' <=> Sent(x)
    BY <1>1, <2>1, <2>2 DEF LetThrough, Cleared, Sent
  <2>8. NotHeldNow(r)'
    BY <2>3, <2>4 DEF NotHeldNow, Safe, TasksAllowed
  <2> QED
    BY <2>2, <2>3, <2>4, <2>6, <2>7, <2>8, ClearedStep
<1> QED
  BY <1>2, <1>5, <1>6, <1>7 DEF Result

LEMMA SafeStep == Typed /\ Safe /\ [Next]_vars => Safe'
<1> SUFFICES ASSUME Typed, Safe, [Next]_vars PROVE Safe'
  OBVIOUS
<1>1. Typed'
  BY StepType
<1>2. ASSUME NEW r \in Requests, Decide(r) \/ Clock(r) PROVE Safe'
  <2>1. Creator \in People
    BY MoneyOutAssumption
  <2> QED
    BY <1>1, <1>2, <2>1, SafeCreate, SafeDecide, SafeClock, SafeSelect DEF Decide, Clock
<1>3. CASE Crash \/ (\E o \in Operators : Disable(o) \/ Reinstate(o)) \/ UNCHANGED vars
  <2>1. /\ tasks' \subseteq tasks /\ due' \subseteq due /\ row' = row /\ wire' = wire
        /\ queries' = queries /\ issued' = issued
    BY <1>3 DEF Crash, Disable, Reinstate, vars
  <2>2. ASSUME NEW r \in Requests PROVE Safe'
    BY <2>1, CarriedStep
  <2>3. CASE Requests = {}
    <3>1. tasks = {} /\ \A q \in QueryIds : ~OpenQuery(q)
      BY <2>3 DEF Typed, TypeOK, Task, Query, OpenQuery, Unasked, Done
    <3> QED
      BY <2>1, <2>3, <3>1 DEF Safe, OneOwner, TasksAllowed, SentCleared, AnswersOfSent, OpenQuery
  <2> QED
    BY <2>2, <2>3
<1> QED
  BY <1>1, <1>2, <1>3, SafeContinue, SafeResult, SafeAsk, SafeAnswer DEF Next

LEMMA SafeAlways == Spec => [](Typed /\ Safe)
<1>1. Typed /\ Safe /\ [Next]_vars => (Typed /\ Safe)'
  BY StepType, SafeStep
<1> QED
  BY <1>1, InitType, SafeInit, PTL DEF Spec

\* Whatever the interleaving, crashes and callbacks: Safaricom never
\* accepts a payment at or above the approval threshold that no second
\* person released.
THEOREM SecondPersonAlways == Spec => []SecondPerson
<1>1. Safe => SecondPerson
  BY DEF Safe, SentCleared, Cleared, SecondPerson
<1> QED
  BY <1>1, SafeAlways, PTL

\* A payment that waits for a decision, or was turned down, has never
\* reached Safaricom and nothing in memory is about to send it.
THEOREM RejectedNeverSentAlways == Spec => []RejectedNeverSent
<1>1. Safe => RejectedNeverSent
  BY DEF Safe, SentCleared, TasksAllowed, Cleared, LetThrough, InHand, RejectedNeverSent
<1> QED
  BY <1>1, SafeAlways, PTL
(* Steps that write a final status only over a status that is not final,   *)
(* or with one that is.                                                    *)
LEMMA FinalKept ==
  ASSUME Typed, Safe, [Next]_vars, NEW x \in Requests, row[x].status \in Final
  PROVE  row'[x].status \in Final
<1>1. row \in [Requests -> Row] /\ row[x].status \notin {"none", "awaiting_approval"} \cup Live
  BY DEF Final, Live, Typed, TypeOK
<1>2. ASSUME NEW r \in Requests, Decide(r) \/ Clock(r)
      PROVE  row'[x].status \in Final
  <2>1. CASE \/ \E held \in BOOLEAN : Create(r, held)
             \/ \E p \in People : Release(r, p) \/ Refuse(r, p)
             \/ ExpireApproval(r)
    BY <1>1, <2>1 DEF Create, Release, Refuse, ExpireApproval, Waiting
  <2>2. CASE TwoMinutesPass(r) \/ SweepExpire(r) \/ MarkChecked(r)
    BY <1>1, <2>2 DEF TwoMinutesPass, SweepExpire, MarkChecked, Live
  <2>3. CASE SweepSelect(r) \/ PollOne(r)
    BY <2>3 DEF SweepSelect, PollOne
  <2> QED
    BY <1>2, <2>1, <2>2, <2>3 DEF Decide, Clock
<1>3. ASSUME NEW t \in tasks, Continue(t)
      PROVE  row'[x].status \in Final
  <2>1. row' = row \/ (row[t.req].status = "pending"
                         /\ \E new : row' = [row EXCEPT ![t.req] = new])
    BY <1>3 DEF Continue, Hold, CallAccepted, CallNotAccepted, RecordAck, AckThrew, RecordUnconfirmed,
                RecordDeclined, RecordRefused, Failover, MoveOn, GiveUp, UpdateWhere,
                StillPending
  <2> QED
    BY <1>1, <2>1 DEF Live
<1>4. ASSUME NEW a \in Attempts, Result(a)
      PROVE  row'[x].status \in Final
  BY <1>1, <1>4 DEF Result, SafaricomProcesses, ResultPaid, ResultFailed, ResultRefused,
                    QueueTimeout, Live
<1>5. ASSUME NEW d \in due, Ask(d)
      PROVE  row'[x].status \in Final
  <2>1. d.req \in Requests /\ row[d.req] \in Row
    BY DEF Typed, TypeOK, Due
  <2> QED
    BY <1>1, <1>5, <2>1 DEF Ask, Counted, Row
<1>6. ASSUME NEW q \in QueryIds, Answer(q)
      PROVE  row'[x].status \in Final
  <2>1. CASE StatusResult(q)
    <3>1. queries[q].says \in {"unclear", "completed", "failed"}
          /\ queries[q].target \in Requests
      BY <2>1 DEF StatusResult, Answered, Typed, TypeOK, Query, Unasked, Done
    <3>2. \A s \in {"completed", "failed"} : Settled(queries[q].target, s).status \in Final
      BY <1>1, <3>1 DEF Settled, Final, Row
    <3> QED
      BY <1>1, <2>1, <3>1, <3>2 DEF StatusResult
  <2>2. CASE ~StatusResult(q)
    BY <1>1, <1>6, <2>2 DEF Answer, SafaricomAnswers, RecordQuery, StatusDirect
  <2> QED
    BY <2>1, <2>2
<1>7. CASE Crash \/ (\E o \in Operators : Disable(o) \/ Reinstate(o)) \/ UNCHANGED vars
  BY <1>7 DEF Crash, Disable, Reinstate, vars
<1> QED
  BY <1>2, <1>3, <1>4, <1>5, <1>6, <1>7 DEF Next

(* What Safaricom knows of a payment it never forgets.                     *)
LEMMA SentStays ==
  ASSUME Typed, Safe, [Next]_vars, NEW x \in Requests, Sent(x)
  PROVE  Sent(x)'
<1>1. PICK b \in Attempts : wire[b].at # "absent" /\ wire[b].req = x
  BY DEF Sent
<1>2. wire \in [Attempts -> Wire \cup {Absent}] /\ wire[b] \in Wire
  BY <1>1 DEF Typed, TypeOK, Absent
<1>3. ASSUME NEW t \in tasks, Continue(t)
      PROVE  Sent(x)'
  <2>1. CASE CallAccepted(t)
    <3>1. /\ t.attempt \in Attempts /\ t.req \in Requests
          /\ wire[t.attempt].at # "absent" => wire[t.attempt].req = t.req
      BY <2>1, TaskCleared, SentByName DEF CallAccepted
    <3>2. \E api \in Apis :
            wire' = [wire EXCEPT ![t.attempt] = [at |-> "queued", req |-> t.req,
                                                 operator |-> t.operator, api |-> api]]
      BY <2>1 DEF CallAccepted
    <3>3. wire'[b].at # "absent" /\ wire'[b].req = x
      BY <1>1, <1>2, <3>1, <3>2
    <3> QED
      BY <3>3 DEF Sent
  <2>2. CASE ~CallAccepted(t)
    BY <1>3, <2>2 DEF Continue, Hold, CallNotAccepted, RecordAck, AckThrew, RecordUnconfirmed,
                      RecordDeclined, RecordRefused, Failover, Sent
  <2> QED
    BY <2>1, <2>2
<1>4. ASSUME NEW a \in Attempts, Result(a)
      PROVE  Sent(x)'
  <2>1. CASE SafaricomProcesses(a)
    <3>1. PICK end \in {"paid", "failed", "refused"} : wire' = [wire EXCEPT ![a].at = end]
      BY <2>1 DEF SafaricomProcesses
    <3>2. wire'[b].at # "absent" /\ wire'[b].req = x
      BY <1>1, <1>2, <3>1 DEF Wire
    <3> QED
      BY <3>2 DEF Sent
  <2>2. CASE ~SafaricomProcesses(a)
    BY <1>4, <2>2 DEF Result, ResultPaid, ResultFailed, ResultRefused, QueueTimeout, Sent
  <2> QED
    BY <2>1, <2>2
<1>5. ASSUME NEW r \in Requests, Decide(r) \/ Clock(r)
      PROVE  Sent(x)'
  BY <1>5 DEF Decide, Clock, Create, Release, Refuse, MarkChecked, PollOne, TwoMinutesPass,
              ExpireApproval, SweepExpire, SweepSelect, Sent
<1>6. ASSUME \/ \E d \in due : Ask(d)
             \/ \E q \in QueryIds : Answer(q)
             \/ Crash \/ (\E o \in Operators : Disable(o) \/ Reinstate(o)) \/ UNCHANGED vars
      PROVE  Sent(x)'
  BY <1>6 DEF Ask, Answer, SafaricomAnswers, RecordQuery, StatusResult, StatusDirect, Crash,
              Disable, Reinstate, vars, Sent
<1> QED
  BY <1>3, <1>4, <1>5, <1>6 DEF Next

\* No callback, late acknowledgement, timeout or failover reopens a settled
\* payment, and one that reached Safaricom is never put back to wait.
THEOREM SettledStaysAlways == Spec => SettledStays
<1>1. Typed /\ Safe /\ (Typed /\ Safe)' /\ [Next]_vars
      => [\A r \in Requests :
            /\ row[r].status \in Final => row'[r].status \in Final
            /\ Sent(r) => row'[r].status # "awaiting_approval"]_vars
  <2> SUFFICES ASSUME Typed, Safe, Safe', [Next]_vars, NEW r \in Requests
               PROVE  /\ row[r].status \in Final => row'[r].status \in Final
                      /\ Sent(r) => row'[r].status # "awaiting_approval"
    OBVIOUS
  <2>1. Sent(r) => LetThrough(r)'
    BY SentStays DEF Safe, SentCleared, Cleared
  <2> QED
    BY <2>1, FinalKept DEF LetThrough, InHand
<1> QED
  BY <1>1, SafeAlways, PTL DEF Spec, SettledStays

(***************************************************************************)
(* Where an ack is stored, results come after the ack of the call they     *)
(* answer, and once, and no status answer comes after its row moved on:    *)
(* the inductive invariant behind InFlightIsCurrent, PaysOnce and          *)
(* FailedNotPaid, and behind the refinement of the promise.                *)
(***************************************************************************)

Orderly == Around \cap {"overtake", "redeliver", "slowAnswer", "dbError"} = {}

(* One continuation at a time works on a row, on the attempt the row       *)
(* stands for, and knows what Safaricom knows of it.                       *)
OneHand == \A t, u \in tasks : t.req = u.req => t = u

Uncalled == {"hold", "send", "declined", "refused"}

Working(t) ==
  /\ row[t.req].attempt = t.attempt
  /\ t.phase \in {"hold", "send"} => row[t.req].status \in Live
  /\ t.phase \in Uncalled => wire[t.attempt].at = "absent"
  /\ t.phase = "failover" => wire[t.attempt].at = "refused"
  /\ t.phase = "hold" => Unreleased(t.req)

AtWork == \A t \in tasks : Working(t)

(* What is written of a row is so of the attempt it stands for.            *)
RowTrue(r) ==
  /\ row[r].ack \in {NoAttempt, row[r].attempt}
  /\ row[r].status = "completed" => wire[row[r].attempt].at = "paid"
  /\ Waiting(r) => Unreleased(r)

RowsTrue == \A r \in Requests : RowTrue(r)

AnswerTrue(q) ==
  /\ queries[q].says = "completed" => wire[queries[q].key.attempt].at = "paid"
  /\ queries[q].says = "failed" => wire[queries[q].key.attempt].at \in {"failed", "refused"}

AnswersTrue == \A q \in QueryIds : OpenQuery(q) => AnswerTrue(q)

InOrder ==
  OneHand /\ AtWork /\ RowsTrue /\ AnswersTrue /\ InFlightIsCurrent /\ FailedNotPaid

LEMMA InOrderInit == Init => InOrder
BY DEF Init, InOrder, OneHand, AtWork, RowsTrue, RowTrue, AnswersTrue, NoRow, Absent, Unasked,
       OpenQuery, InFlightIsCurrent, FailedNotPaid, Waiting, NoAttempt

(* What the promise sees of the rows.                                      *)
StagesSeen == [r \in Requests |-> StageOf(r)]
PaidSeen == [r \in Requests |-> PaidAttempts(r)]

PromiseStep == Promise!Next \/ UNCHANGED <<StagesSeen, PaidSeen>>

(* The writes that keep to what is known of the attempt a row stands for:  *)
(* it stays under way, is held, is decided on, or gets its result.         *)
Underway(r, new) ==
  /\ new.approver = row[r].approver
  /\ new.status = row[r].status \/ {new.status, row[r].status} \subseteq Live

PutToWait(r, new) ==
  /\ Unreleased(r) /\ new.approver = row[r].approver
  /\ row[r].status = "pending" /\ new.status = "awaiting_approval"

Decided(r, new) ==
  /\ Waiting(r)
  /\ \/ new.status = "pending" /\ new.approver # Nobody
     \/ new.status = "rejected"

Finishes(r, new) ==
  /\ row[r].status \in Live /\ Cleared(r) /\ new.approver = row[r].approver
  /\ LET w == wire[row[r].attempt]
     IN \/ new.status = "completed" /\ w.at = "paid" /\ w.req = r
        \/ new.status = "failed" /\ w.at \notin {"queued", "paid"}

Honest(r, new) ==
  /\ new.attempt = row[r].attempt /\ new.ack \in {NoAttempt, row[r].attempt}
  /\ new.held = row[r].held
  /\ Underway(r, new) \/ PutToWait(r, new) \/ Decided(r, new) \/ Finishes(r, new)

(* Nobody goes on sending what is written as no longer under way.          *)
LeftAlone(r, new) ==
  \A u \in tasks : u \in tasks' /\ u.req = r /\ u.phase \in {"hold", "send"} =>
    Underway(r, new)

LEMMA InFlightOfRow ==
  ASSUME Typed, InOrder, NEW a \in Attempts, wire[a].at \in {"queued", "paid"}
  PROVE  /\ wire[a].req \in Requests /\ row[wire[a].req].attempt = a
         /\ row[wire[a].req].status # "failed"
BY DEF Typed, TypeOK, InOrder, InFlightIsCurrent, FailedNotPaid, Wire, Absent

LEMMA HonestRow ==
  ASSUME Typed, Safe, InOrder, NEW r \in Requests, NEW new,
         row' = [row EXCEPT ![r] = new], Honest(r, new), wire' = wire
  PROVE  /\ RowsTrue' /\ InFlightIsCurrent' /\ FailedNotPaid'
         /\ \A u \in tasks : u \in tasks' /\ LeftAlone(r, new) => Working(u)'
<1>1. /\ row \in [Requests -> Row] /\ row'[r] = new
      /\ \A x \in Requests : x # r => row'[x] = row[x]
      /\ \A x \in Requests : row'[x].attempt = row[x].attempt
  BY DEF Typed, TypeOK, Honest
<1>2. RowTrue(r)'
  <2>1. new.status = "completed" => wire[row[r].attempt].at = "paid"
    BY DEF Honest, Underway, PutToWait, Decided, Finishes, InOrder, RowsTrue, RowTrue, Live
  <2>2. new.status = "awaiting_approval" => Unreleased(r) /\ new.approver = row[r].approver
    BY DEF Honest, Underway, PutToWait, Decided, Finishes, InOrder, RowsTrue, RowTrue, Live,
           Waiting
  <2> QED
    BY <1>1, <2>1, <2>2 DEF RowTrue, Waiting, Unreleased, Honest
<1>3. RowsTrue'
  BY <1>1, <1>2 DEF RowsTrue, RowTrue, InOrder, Waiting, Unreleased
<1>4. InFlightIsCurrent'
  BY <1>1, InFlightOfRow DEF InFlightIsCurrent
<1>5. FailedNotPaid'
  <2> SUFFICES ASSUME NEW a \in Attempts, wire[a].at \in {"queued", "paid"}
               PROVE  row'[wire[a].req].status # "failed"
    BY DEF FailedNotPaid
  <2>1. /\ wire[a].req \in Requests /\ row[wire[a].req].attempt = a
        /\ row[wire[a].req].status # "failed"
    BY InFlightOfRow
  <2>2. CASE wire[a].req = r
    BY <1>1, <2>1, <2>2 DEF Honest, Underway, PutToWait, Decided, Finishes, Live
  <2> QED
    BY <1>1, <2>1, <2>2
<1>6. ASSUME NEW u \in tasks, u \in tasks', LeftAlone(r, new)
      PROVE  Working(u)'
  <2>1. u.req \in Requests /\ Working(u)
    BY DEF Typed, TypeOK, Task, InOrder, AtWork
  <2>2. CASE u.req # r
    BY <1>1, <2>1, <2>2 DEF Working, Unreleased
  <2>3. CASE u.req = r
    <3>1. u.phase \in {"hold", "send"} =>
            new.status \in Live /\ new.approver = row[r].approver
      BY <1>6, <2>1, <2>3 DEF LeftAlone, Underway, Working
    <3> QED
      BY <1>1, <2>1, <2>3, <3>1 DEF Working, Unreleased, Honest
  <2> QED
    BY <2>2, <2>3
<1> QED
  BY <1>3, <1>4, <1>5, <1>6

LEMMA HonestStep ==
  ASSUME Typed, Safe, InOrder, NEW r \in Requests, NEW new,
         row' = row \/ (row' = [row EXCEPT ![r] = new] /\ Honest(r, new) /\ LeftAlone(r, new)),
         wire' = wire, OneHand', AnswersTrue',
         \A u \in tasks' : u \in tasks \/ Working(u)'
  PROVE  InOrder'
<1>1. CASE row' = row
  <2>1. RowsTrue' /\ InFlightIsCurrent' /\ FailedNotPaid'
    BY <1>1 DEF InOrder, RowsTrue, RowTrue, InFlightIsCurrent, FailedNotPaid, Waiting, Unreleased
  <2>2. AtWork'
    BY <1>1 DEF InOrder, AtWork, Working, Unreleased
  <2> QED
    BY <2>1, <2>2 DEF InOrder
<1>2. CASE row' # row
  BY <1>2, HonestRow DEF InOrder, AtWork
<1> QED
  BY <1>1, <1>2

LEMMA HonestPromise ==
  ASSUME Typed, Safe, InOrder, NEW r \in Requests, NEW new,
         row' = row \/ (row' = [row EXCEPT ![r] = new] /\ Honest(r, new)),
         wire' = wire
  PROVE  PromiseStep
<1>1. PaidSeen' = PaidSeen /\ PaidSeen = [x \in Requests |-> PaidAttempts(x)]
  BY DEF PaidSeen, PaidAttempts
<1>2. CASE row' = row
  BY <1>1, <1>2 DEF PromiseStep, StagesSeen, StageOf, Unreleased
<1>3. CASE row' = [row EXCEPT ![r] = new] /\ Honest(r, new)
  <2>1. /\ row \in [Requests -> Row] /\ row'[r] = new
        /\ \A x \in Requests : x # r => StageOf(x)' = StageOf(x)
    BY <1>3 DEF Typed, TypeOK, StageOf, Unreleased
  <2>2. StagesSeen' = [StagesSeen EXCEPT ![r] = StageOf(r)']
    BY <2>1 DEF StagesSeen
  <2>3. CASE StageOf(r)' = StageOf(r)
    BY <1>1, <2>2, <2>3 DEF PromiseStep, StagesSeen
  <2>4. CASE StageOf(r)' # StageOf(r)
    <3>1. \/ StageOf(r) = "waiting" /\ StageOf(r)' \in {"flight", "rejected"}
          \/ /\ StageOf(r) = "flight" /\ StageOf(r)' = "completed" /\ PaidAttempts(r) # {}
          \/ /\ StageOf(r) = "flight" /\ StageOf(r)' = "failed" /\ PaidAttempts(r) = {}
      <4>1. CASE Underway(r, new)
        BY <1>3, <2>1, <2>4, <4>1 DEF Honest, Underway, StageOf, Unreleased
      <4>2. CASE PutToWait(r, new)
        BY <1>3, <2>1, <2>4, <4>2 DEF Honest, PutToWait, StageOf, Unreleased, Live
      <4>3. CASE Decided(r, new)
        <5>1. Unreleased(r)
          BY <4>3 DEF Decided, InOrder, RowsTrue, RowTrue
        <5> QED
          BY <1>3, <2>1, <4>3, <5>1 DEF Honest, Decided, StageOf, Unreleased, Live, Waiting
      <4>4. CASE Finishes(r, new)
        <5>1. StageOf(r) = "flight"
          BY <4>4 DEF Finishes, StageOf, Cleared, Unreleased
        <5>2. StageOf(r)' = new.status
          BY <2>1, <4>4 DEF Finishes, StageOf, Live
        <5>3. row[r].attempt \in Attempts
          BY <4>4, AttemptsType DEF Finishes, Typed, TypeOK, Row, Identified, Existing, Live
        <5>4. CASE new.status = "completed"
          BY <4>4, <5>1, <5>2, <5>3, <5>4 DEF Finishes, PaidAttempts
        <5>5. CASE new.status = "failed"
          <6>1. PaidAttempts(r) = {}
            BY <4>4, <5>5, InFlightOfRow DEF Finishes, PaidAttempts
          <6> QED
            BY <5>1, <5>2, <5>5, <6>1
        <5> QED
          BY <4>4, <5>4, <5>5 DEF Finishes
      <4> QED
        BY <1>3, <4>1, <4>2, <4>3, <4>4 DEF Honest
    <3>2. /\ StagesSeen[r] = StageOf(r) /\ PaidSeen[r] = PaidAttempts(r)
      BY DEF StagesSeen, PaidSeen
    <3>3. Promise!Decide(r) \/ Promise!Settle(r)
      BY <1>1, <2>2, <3>1, <3>2
      DEF Promise!Decide, Promise!Settle, Promise!Becomes, StagesSeen, PaidSeen
    <3> QED
      BY <3>3 DEF PromiseStep, Promise!Next
  <2> QED
    BY <2>3, <2>4
<1> QED
  BY <1>2, <1>3

(* A row given an identifier no payment had, created or moved on, and the  *)
(* one continuation that has it in hand.                                   *)
FreshRow(r, new) ==
  /\ new.attempt = issued + 1 /\ new.ack = NoAttempt /\ new.status = "pending"
  /\ issued + 1 \in Attempts
  /\ row' = [row EXCEPT ![r] = new] /\ wire' = wire /\ queries' = queries

InHandOf(r, new, t) ==
  /\ t.req = r /\ t.attempt = issued + 1
  /\ t.phase = "send" \/ (t.phase = "hold" /\ new.held /\ new.approver = Nobody)
  /\ \A u \in tasks' : u = t \/ (u \in tasks /\ u.req # r)

NothingInFlight(r) ==
  \A b \in Attempts : wire[b].at \in {"queued", "paid"} => wire[b].req # r

LEMMA FreshAttempt ==
  ASSUME Typed, Safe, InOrder, NEW r \in Requests, NEW new, NEW t,
         FreshRow(r, new), InHandOf(r, new, t), NothingInFlight(r)
  PROVE  InOrder'
<1> USE DEF FreshRow, InHandOf, NothingInFlight
<1>1. /\ row \in [Requests -> Row] /\ row'[r] = new
      /\ \A x \in Requests : x # r => row'[x] = row[x]
      /\ \A u \in tasks : u.req \in Requests
      /\ issued \in Nat
  BY DEF Typed, TypeOK, Task
<1>2. wire[issued + 1].at = "absent"
  <2>1. \A w \in Requests : ~Mentions(w, issued + 1)
    BY <1>1 DEF Safe, OneOwner
  <2>2. wire[issued + 1].at # "absent" => wire[issued + 1].req \in Requests
    BY DEF Typed, TypeOK, Wire, Absent
  <2> QED
    BY <2>1, <2>2 DEF Mentions, WireMentions
<1>3. OneHand'
  BY DEF InOrder, OneHand
<1>4. AtWork'
  <2>1. Working(t)'
    BY <1>1, <1>2 DEF Working, Live, Unreleased
  <2>2. \A u \in tasks : u.req # r => Working(u)'
    BY <1>1 DEF InOrder, AtWork, Working, Unreleased
  <2> QED
    BY <2>1, <2>2 DEF AtWork
<1>5. RowsTrue'
  BY <1>1 DEF InOrder, RowsTrue, RowTrue, Waiting, Unreleased
<1>6. AnswersTrue'
  BY DEF InOrder, AnswersTrue, AnswerTrue, OpenQuery
<1>7. InFlightIsCurrent' /\ FailedNotPaid'
  BY <1>1, InFlightOfRow DEF InFlightIsCurrent, FailedNotPaid
<1> QED
  BY <1>3, <1>4, <1>5, <1>6, <1>7 DEF InOrder

LEMMA OrderCreate ==
  ASSUME Typed, Safe, InOrder, NEW r \in Requests, NEW held \in BOOLEAN, Create(r, held)
  PROVE  InOrder' /\ PromiseStep
<1> DEFINE a == issued + 1
           o == FirstOperator(pool, {})
           new == [NoRow EXCEPT !.status = "pending", !.attempt = a, !.operator = o,
                                !.quiet = "young", !.held = held]
           t == [phase |-> IF held THEN "hold" ELSE "send", req |-> r, attempt |-> a,
                 operator |-> o, tried |-> {o}, again |-> FALSE]
<1>1. /\ row \in [Requests -> Row] /\ a \in Attempts
      /\ row' = [row EXCEPT ![r] = new] /\ tasks' = tasks \cup {t}
      /\ wire' = wire /\ queries' = queries /\ row[r].status = "none"
  BY AttemptsType DEF Create, Typed, TypeOK
<1>2. /\ new.status = "pending" /\ new.attempt = a /\ new.ack = NoAttempt /\ new.held = held
      /\ new.approver = Nobody
      /\ t.req = r /\ t.attempt = a /\ t.phase = IF held THEN "hold" ELSE "send"
  BY DEF NoRow
<1>3. ~Sent(r) /\ \A u \in tasks : u.req # r
  BY <1>1 DEF LetThrough, Cleared, InHand, Safe, TasksAllowed, SentCleared
<1>4. \A b \in Attempts : wire[b].at \in {"queued", "paid"} => wire[b].req # r
  BY <1>3 DEF Sent
<1> HIDE DEF new, t
<1>5. \A u \in tasks' : u = t \/ (u \in tasks /\ u.req # r)
  BY <1>1, <1>3
<1>6. InOrder'
  <2>1. FreshRow(r, new)
    BY <1>1, <1>2 DEF FreshRow
  <2>2. InHandOf(r, new, t)
    BY <1>2, <1>5 DEF InHandOf
  <2>3. NothingInFlight(r)
    BY <1>4 DEF NothingInFlight
  <2> QED
    BY <2>1, <2>2, <2>3, FreshAttempt, Zenon
<1>7. PromiseStep
  <2>1. \A x \in Requests : x # r => StageOf(x)' = StageOf(x)
    BY <1>1 DEF StageOf, Unreleased
  <2>2. StageOf(r) = "none" /\ StageOf(r)' \in {"waiting", "flight"}
    BY <1>1, <1>2 DEF StageOf, Live
  <2>3. StagesSeen' = [StagesSeen EXCEPT ![r] = StageOf(r)']
    BY <2>1 DEF StagesSeen
  <2>4. PaidSeen' = PaidSeen
    BY <1>1 DEF PaidSeen, PaidAttempts
  <2>5. StagesSeen[r] = "none"
    BY <2>2 DEF StagesSeen
  <2>6. Promise!Enter(r)
    BY <2>2, <2>3, <2>4, <2>5 DEF Promise!Enter, Promise!Becomes, StagesSeen, PaidSeen
  <2> QED
    BY <2>6 DEF PromiseStep, Promise!Next
<1> QED
  BY <1>6, <1>7

(* The task of a row that is moved or settled is the only one it has.      *)
LEMMA TaskKnown ==
  ASSUME Typed, Safe, InOrder, NEW t \in tasks, t.phase # "hold"
  PROVE  /\ t.req \in Requests /\ t.attempt \in Attempts /\ Cleared(t.req) /\ Working(t)
         /\ row[t.req] \in Row /\ row[t.req].attempt = t.attempt
         /\ \A u \in tasks \ {t} : u.req # t.req
BY TaskCleared DEF Typed, TypeOK, InOrder, AtWork, OneHand, Working

LEMMA OrderMoveOn ==
  ASSUME Typed, Safe, InOrder, NEW t \in tasks, t.phase \in {"refused", "failover"},
         pool' \in Pools, MoveOn(t, t.tried), UNCHANGED <<due, wire, queries>>
  PROVE  InOrder' /\ PromiseStep
<1> DEFINE r == t.req
           o == FirstOperator(pool', t.tried)
           a == issued + 1
           new == Moved(r, o, a)
           u == [phase |-> "send", req |-> r, attempt |-> a, operator |-> o,
                 tried |-> t.tried \cup {o}, again |-> FALSE]
<1>1. /\ r \in Requests /\ row[r] \in Row /\ row[r].attempt = t.attempt /\ Working(t)
      /\ \A v \in tasks \ {t} : v.req # r
      /\ row \in [Requests -> Row] /\ a \in Attempts
  BY TaskKnown, AttemptsType DEF Typed, TypeOK, MoveOn
<1>2. o \in Operators
  <2>1. o # NoOperator
    BY DEF MoveOn
  <2> QED
    BY <2>1, FirstOperatorType
<1>3. /\ new.attempt = a /\ new.ack = NoAttempt /\ new.status = row[r].status
      /\ new.held = row[r].held /\ new.approver = row[r].approver
      /\ row[r].status = "pending"
  BY <1>1, <1>2, MovedType DEF MoveOn, StillPending
<1>4. row' = [row EXCEPT ![r] = new] /\ tasks' = (tasks \ {t}) \cup {u}
  BY DEF MoveOn
<1>5. u.req = r /\ u.attempt = a /\ u.phase = "send"
  OBVIOUS
<1>6. \A b \in Attempts : wire[b].at \in {"queued", "paid"} => wire[b].req # r
  BY <1>1, InFlightOfRow DEF Working, Uncalled
<1> HIDE DEF new, u
<1>7. \A v \in tasks' : v = u \/ (v \in tasks /\ v.req # r)
  BY <1>1, <1>4
<1>8. InOrder'
  <2>1. FreshRow(r, new)
    BY <1>1, <1>3, <1>4 DEF FreshRow
  <2>2. InHandOf(r, new, u)
    BY <1>5, <1>7 DEF InHandOf
  <2>3. NothingInFlight(r)
    BY <1>6 DEF NothingInFlight
  <2> QED
    BY <1>1, <2>1, <2>2, <2>3, FreshAttempt, Zenon
<1>9. PromiseStep
  <2>1. \A x \in Requests : StageOf(x)' = StageOf(x)
    BY <1>1, <1>3, <1>4 DEF StageOf, Unreleased
  <2> QED
    BY <2>1 DEF PromiseStep, StagesSeen, PaidSeen, PaidAttempts
<1> QED
  BY <1>8, <1>9

(* A step that writes no more than one row, truthfully, and adds no        *)
(* continuation.                                                           *)
LEMMA WriteStep ==
  ASSUME Typed, Safe, InOrder, NEW r \in Requests, NEW new,
         row' = row \/ (row' = [row EXCEPT ![r] = new] /\ Honest(r, new) /\ LeftAlone(r, new)),
         wire' = wire, tasks' \subseteq tasks, AnswersTrue' \/ queries' = queries
  PROVE  InOrder' /\ PromiseStep
<1>1. OneHand'
  BY DEF InOrder, OneHand
<1>2. AnswersTrue'
  BY DEF InOrder, AnswersTrue, AnswerTrue, OpenQuery
<1>3. \A u \in tasks' : u \in tasks
  OBVIOUS
<1>4. PromiseStep
  BY HonestPromise
<1> QED
  BY <1>1, <1>2, <1>3, <1>4, HonestStep

(* Steps that write no row and are not a call.                             *)
LEMMA NoWriteStep ==
  ASSUME Typed, Safe, InOrder, row' = row, wire' = wire,
         tasks' \subseteq tasks, AnswersTrue' \/ queries' = queries
  PROVE  InOrder' /\ PromiseStep
<1>1. ASSUME NEW r \in Requests PROVE InOrder' /\ PromiseStep
  BY WriteStep
<1>2. CASE Requests = {}
  <2>1. tasks' = {} /\ RowsTrue' /\ InFlightIsCurrent' /\ FailedNotPaid'
    BY <1>2, InFlightOfRow
    DEF Typed, TypeOK, Task, RowsTrue, InFlightIsCurrent, FailedNotPaid
  <2>2. InOrder'
    BY <2>1 DEF InOrder, OneHand, AtWork, AnswersTrue, AnswerTrue, OpenQuery
  <2>3. PromiseStep
    BY DEF PromiseStep, StagesSeen, PaidSeen, StageOf, Unreleased, PaidAttempts
  <2> QED
    BY <2>2, <2>3
<1> QED
  BY <1>1, <1>2

LEMMA OrderDecide ==
  ASSUME Typed, Safe, InOrder, NEW r \in Requests, NEW p \in People,
         Release(r, p) \/ Refuse(r, p) \/ ExpireApproval(r)
  PROVE  InOrder' /\ PromiseStep
<1> DEFINE new == row'[r]
<1>1. /\ row \in [Requests -> Row] /\ row[r] \in Row /\ Waiting(r) /\ ~LetThrough(r)
      /\ ~Sent(r) /\ \A u \in tasks : u.req # r
      /\ row[r].attempt \in Attempts /\ row[r].ack \in {NoAttempt, row[r].attempt}
      /\ wire' = wire /\ queries' = queries
  BY AttemptsType
  DEF Release, Refuse, ExpireApproval, Waiting, LetThrough, Cleared, InHand, Safe, TasksAllowed,
      SentCleared, Typed, TypeOK, Task, Row, Identified, Existing, InOrder, RowsTrue, RowTrue
<1>2. /\ row' = [row EXCEPT ![r] = new]
      /\ new.attempt = row[r].attempt /\ new.ack = row[r].ack /\ new.held = row[r].held
      /\ \/ new.status = "rejected"
         \/ new.status = "pending" /\ new.approver = p
  <2>1. CASE Release(r, p)
    BY <1>1, <2>1 DEF Release, Row
  <2>2. CASE Refuse(r, p)
    BY <1>1, <2>2 DEF Refuse, Row
  <2>3. CASE ExpireApproval(r)
    BY <1>1, <2>3 DEF ExpireApproval, Row
  <2> QED
    BY <2>1, <2>2, <2>3
<1> HIDE DEF new
<1>3. Honest(r, new) /\ LeftAlone(r, new)
  BY <1>1, <1>2, MoneyOutAssumption DEF Honest, Decided, LeftAlone
<1>4. CASE ~Release(r, p)
  <2>1. tasks' = tasks
    BY <1>4 DEF Refuse, ExpireApproval
  <2> QED
    BY <1>1, <1>2, <1>3, <2>1, WriteStep
<1>5. CASE Release(r, p)
  <2>1. PICK k : tasks' = tasks \cup {k} /\ k.req = r /\ k.phase = "send"
                 /\ k.attempt = row[r].attempt /\ row'[r].status = "pending"
    <3> DEFINE o == FirstOperator(pool, {})
               t == [phase |-> "send", req |-> r, attempt |-> row[r].attempt,
                     operator |-> o, tried |-> {o}, again |-> FALSE]
    <3>1. tasks' = tasks \cup {t} /\ t.req = r /\ t.phase = "send" /\ t.attempt = row[r].attempt
      BY <1>5 DEF Release
    <3> HIDE DEF t
    <3>2. row'[r].status = "pending"
      BY <1>1, <1>5 DEF Release, Row
    <3> QED
      BY <3>1, <3>2
  <2>2. wire[k.attempt].at = "absent"
    <3>1. Mentions(r, k.attempt)
      BY <2>1 DEF Mentions, RowMentions
    <3> QED
      BY <1>1, <2>1, <3>1, SentByName
  <2>3. Working(k)'
    BY <1>1, <1>2, <2>1, <2>2 DEF Working, Live
  <2>4. OneHand'
    BY <1>1, <2>1 DEF InOrder, OneHand
  <2>5. AnswersTrue'
    BY <1>1 DEF InOrder, AnswersTrue, AnswerTrue, OpenQuery
  <2>6. \A u \in tasks' : u \in tasks \/ Working(u)'
    BY <2>1, <2>3
  <2>7. InOrder'
    BY <1>1, <1>2, <1>3, <2>4, <2>5, <2>6, HonestStep
  <2>8. PromiseStep
    BY <1>1, <1>2, <1>3, HonestPromise
  <2> QED
    BY <2>7, <2>8
<1> QED
  BY <1>4, <1>5

(* A live row that stays live: its clock, its timeouts, a person's check.  *)
LEMMA LiveWrite ==
  ASSUME Typed, Safe, InOrder, NEW r \in Requests, NEW new,
         new.status = row[r].status \/ {new.status, row[r].status} \subseteq Live,
         new.attempt = row[r].attempt, new.ack \in {NoAttempt, row[r].attempt},
         new.held = row[r].held, new.approver = row[r].approver
  PROVE  Honest(r, new) /\ LeftAlone(r, new)
BY DEF Honest, LeftAlone, Underway

LEMMA OrderClock ==
  ASSUME Typed, Safe, InOrder, NEW r \in Requests,
         MarkChecked(r) \/ TwoMinutesPass(r) \/ SweepExpire(r)
  PROVE  InOrder' /\ PromiseStep
<1> DEFINE new == row'[r]
<1>1. /\ row \in [Requests -> Row] /\ row[r] \in Row /\ wire' = wire /\ tasks' = tasks
      /\ queries' = queries /\ row[r].ack \in {NoAttempt, row[r].attempt}
  BY DEF MarkChecked, TwoMinutesPass, SweepExpire, Typed, TypeOK, InOrder, RowsTrue, RowTrue
<1>2. /\ row' = [row EXCEPT ![r] = new]
      /\ new.attempt = row[r].attempt /\ new.ack = row[r].ack
      /\ new.held = row[r].held /\ new.approver = row[r].approver
      /\ new.status = row[r].status \/ {new.status, row[r].status} \subseteq Live
  <2>1. CASE MarkChecked(r)
    BY <1>1, <2>1 DEF MarkChecked, Row
  <2>2. CASE TwoMinutesPass(r)
    BY <1>1, <2>2 DEF TwoMinutesPass, Row
  <2>3. CASE SweepExpire(r)
    BY <1>1, <2>3 DEF SweepExpire, Row, Live
  <2> QED
    BY <2>1, <2>2, <2>3
<1> HIDE DEF new
<1>3. Honest(r, new) /\ LeftAlone(r, new)
  BY <1>1, <1>2, LiveWrite
<1> QED
  BY <1>1, <1>2, <1>3, WriteStep

LEMMA OrderAsk ==
  ASSUME Typed, Safe, InOrder, NEW d \in due, Ask(d)
  PROVE  InOrder' /\ PromiseStep
<1>1. d.req \in Requests /\ row[d.req] \in Row /\ row \in [Requests -> Row]
  BY DEF Typed, TypeOK, Due
<1>2. PICK accepted \in BOOLEAN : row' = [row EXCEPT ![d.req] = Counted(d.req, accepted)]
  BY DEF Ask
<1>3. /\ Counted(d.req, accepted).status = row[d.req].status
      /\ Counted(d.req, accepted).attempt = row[d.req].attempt
      /\ Counted(d.req, accepted).ack = row[d.req].ack
      /\ Counted(d.req, accepted).held = row[d.req].held
      /\ Counted(d.req, accepted).approver = row[d.req].approver
      /\ row[d.req].ack \in {NoAttempt, row[d.req].attempt}
  BY <1>1 DEF Counted, Row, InOrder, RowsTrue, RowTrue
<1>4. Honest(d.req, Counted(d.req, accepted)) /\ LeftAlone(d.req, Counted(d.req, accepted))
  BY <1>1, <1>3, LiveWrite
<1>5. \A q \in QueryIds : \/ queries'[q] = queries[q]
                          \/ queries'[q] = [state |-> "unrecorded", target |-> d.req,
                                            key |-> d.key, says |-> "nothing"]
  BY DEF Ask, Typed, TypeOK
<1>6. AnswersTrue' /\ wire' = wire /\ tasks' = tasks
  BY <1>5 DEF Ask, InOrder, AnswersTrue, AnswerTrue, OpenQuery
<1> QED
  BY <1>1, <1>2, <1>4, <1>6, WriteStep

(* A continuation ends, and what it writes where its row is still pending. *)
LEMMA OrderRecord ==
  ASSUME Typed, Safe, InOrder, NEW t \in tasks, t.phase # "hold", NEW new,
         row' = row \/ row' = UpdateWhere(t.req, {"pending"}, new),
         new.attempt = row[t.req].attempt, new.held = row[t.req].held,
         new.approver = row[t.req].approver,
         new.ack \in {row[t.req].ack, t.attempt},
         \/ new.status \in Live
         \/ new.status = "failed" /\ t.phase \in {"declined", "refused", "failover"},
         tasks' = tasks \ {t}, wire' = wire, queries' = queries
  PROVE  InOrder' /\ PromiseStep
<1>1. /\ t.req \in Requests /\ t.attempt \in Attempts /\ Cleared(t.req) /\ Working(t)
      /\ row[t.req].attempt = t.attempt
      /\ \A u \in tasks \ {t} : u.req # t.req
      /\ row[t.req].ack \in {NoAttempt, row[t.req].attempt}
  BY TaskKnown DEF InOrder, RowsTrue, RowTrue
<1>2. CASE row' = row
  BY <1>2, NoWriteStep
<1>3. CASE row' # row
  <2>1. row[t.req].status = "pending" /\ row' = [row EXCEPT ![t.req] = new]
    BY <1>3 DEF UpdateWhere
  <2>2. Honest(t.req, new)
    <3>1. CASE new.status \in Live
      BY <1>1, <2>1, <3>1 DEF Honest, Underway, Live
    <3>2. CASE new.status = "failed" /\ t.phase \in {"declined", "refused", "failover"}
      BY <1>1, <2>1, <3>2 DEF Honest, Finishes, Working, Uncalled, Live
    <3> QED
      BY <3>1, <3>2
  <2>3. LeftAlone(t.req, new)
    BY <1>1 DEF LeftAlone
  <2> QED
    BY <1>1, <2>1, <2>2, <2>3, WriteStep
<1> QED
  BY <1>2, <1>3

LEMMA OrderHold ==
  ASSUME Typed, Safe, InOrder, NEW t \in tasks, Hold(t)
  PROVE  InOrder' /\ PromiseStep
<1> DEFINE r == t.req
           new == [row[r] EXCEPT !.status = "awaiting_approval", !.operator = NoOperator]
<1>1. /\ r \in Requests /\ row[r] \in Row /\ Unreleased(r)
      /\ row[r].ack \in {NoAttempt, row[r].attempt}
      /\ \A u \in tasks : u.req = r => u = t
      /\ tasks' = tasks \ {t} /\ wire' = wire /\ queries' = queries
  BY DEF Hold, Typed, TypeOK, Task, InOrder, AtWork, Working, OneHand, RowsTrue, RowTrue
<1>2. row' = row \/ (row[r].status = "pending" /\ row' = [row EXCEPT ![r] = new])
  BY DEF Hold, UpdateWhere
<1>3. /\ new.attempt = row[r].attempt /\ new.ack = row[r].ack /\ new.held = row[r].held
      /\ new.approver = row[r].approver /\ new.status = "awaiting_approval"
  BY <1>1 DEF Row
<1> HIDE DEF new
<1>4. LeftAlone(r, new)
  BY <1>1 DEF LeftAlone
<1>5. row[r].status = "pending" => Honest(r, new)
  BY <1>1, <1>3 DEF Honest, PutToWait
<1> QED
  BY <1>1, <1>2, <1>4, <1>5, WriteStep

(* The call itself: where it is accepted, nothing was known of its attempt.*)
LEMMA OrderCall ==
  ASSUME Typed, Safe, InOrder, NEW t \in tasks, CallAccepted(t) \/ CallNotAccepted(t)
  PROVE  InOrder' /\ PromiseStep
<1>1. /\ t.phase = "send" /\ t \in Task /\ t.req \in Requests /\ t.attempt \in Attempts
      /\ wire[t.attempt].at = "absent" /\ row[t.req].attempt = t.attempt
      /\ row[t.req].status \in Live
      /\ \A u \in tasks \ {t} : u.req # t.req
  BY TaskCleared
  DEF CallAccepted, CallNotAccepted, InOrder, OneHand, AtWork, Working, Uncalled
<1>2. wire \in [Attempts -> Wire \cup {Absent}]
  BY DEF Typed, TypeOK
<1>3. PICK answer \in {"ack", "lost", "declined", "refused"} :
         /\ tasks' = (tasks \ {t}) \cup {[t EXCEPT !.phase = answer]}
         /\ \/ wire' = wire
            \/ /\ answer \in {"ack", "lost"}
               /\ \E w : wire' = [wire EXCEPT ![t.attempt] = w] /\ w.at = "queued" /\ w.req = t.req
  <2>1. CASE CallAccepted(t)
    <3>1. PICK api \in Apis, answer \in {"ack", "lost"} :
            /\ wire' = [wire EXCEPT ![t.attempt] = [at |-> "queued", req |-> t.req,
                                                    operator |-> t.operator, api |-> api]]
            /\ tasks' = (tasks \ {t}) \cup {[t EXCEPT !.phase = answer]}
      BY <2>1 DEF CallAccepted
    <3> DEFINE x == [at |-> "queued", req |-> t.req, operator |-> t.operator, api |-> api]
    <3>2. x.at = "queued" /\ x.req = t.req
      OBVIOUS
    <3> QED
      BY <3>1, <3>2
  <2>2. CASE CallNotAccepted(t)
    BY <2>2 DEF CallNotAccepted
  <2> QED
    BY <2>1, <2>2
<1> DEFINE k == [t EXCEPT !.phase = answer]
<1>4. k.phase = answer /\ k.req = t.req /\ k.attempt = t.attempt
  BY <1>1 DEF Task
<1>5. UNCHANGED <<row, queries>> /\ tasks' = (tasks \ {t}) \cup {k}
  BY <1>3 DEF CallAccepted, CallNotAccepted
<1> HIDE DEF k
<1>6. /\ \A b \in Attempts : b # t.attempt => wire'[b] = wire[b]
      /\ wire'[t.attempt].at = "absent"
           \/ (answer \in {"ack", "lost"} /\ wire'[t.attempt].at = "queued"
                 /\ wire'[t.attempt].req = t.req)
  BY <1>1, <1>2, <1>3
<1>7. OneHand'
  BY <1>1, <1>4, <1>5 DEF InOrder, OneHand
<1>8. AtWork'
  <2>1. Working(k)'
    BY <1>1, <1>4, <1>5, <1>6 DEF Working, Uncalled
  <2>2. ASSUME NEW u \in tasks \ {t} PROVE Working(u)'
    <3>1. u.attempt # t.attempt /\ u.attempt \in Attempts
      BY <1>1 DEF Safe, OneOwner, Mentions, TaskMentions, Typed, TypeOK, Task
    <3> QED
      BY <1>5, <1>6, <3>1 DEF InOrder, AtWork, Working, Unreleased
  <2> QED
    BY <1>5, <2>1, <2>2 DEF AtWork
<1>9. RowsTrue'
  <2> SUFFICES ASSUME NEW r \in Requests, row[r].status = "completed"
               PROVE  wire'[row[r].attempt].at = "paid"
    BY <1>5 DEF InOrder, RowsTrue, RowTrue, Waiting, Unreleased
  <2>1. row[r].attempt \in Attempts /\ wire[row[r].attempt].at = "paid"
    BY AttemptsType DEF InOrder, RowsTrue, RowTrue, Typed, TypeOK, Row, Identified, Existing
  <2> QED
    BY <1>1, <1>6, <2>1
<1>10. AnswersTrue'
  <2> SUFFICES ASSUME NEW q \in QueryIds, OpenQuery(q)
               PROVE  AnswerTrue(q)'
    BY <1>5 DEF AnswersTrue, OpenQuery
  <2>1. queries[q].key.attempt \in Attempts /\ AnswerTrue(q)
    BY DEF InOrder, AnswersTrue, OpenQuery, Typed, TypeOK, Query, Keys, Unasked, Done
  <2> QED
    BY <1>1, <1>5, <1>6, <2>1 DEF AnswerTrue
<1>11. InFlightIsCurrent' /\ FailedNotPaid'
  BY <1>1, <1>5, <1>6, InFlightOfRow DEF InFlightIsCurrent, FailedNotPaid, Live
<1>12. PromiseStep
  <2>1. \A b \in Attempts : /\ wire'[b].at = "paid" <=> wire[b].at = "paid"
                            /\ wire[b].at = "paid" => wire'[b].req = wire[b].req
    BY <1>1, <1>6
  <2>2. \A x \in Requests : PaidAttempts(x)' = PaidAttempts(x)
    BY <2>1 DEF PaidAttempts
  <2> QED
    BY <1>5, <2>2 DEF PromiseStep, StagesSeen, PaidSeen, StageOf, Unreleased
<1> QED
  BY <1>7, <1>8, <1>9, <1>10, <1>11, <1>12 DEF InOrder

LEMMA OrderContinue ==
  ASSUME Typed, Safe, InOrder, Orderly, NEW t \in tasks, Continue(t)
  PROVE  InOrder' /\ PromiseStep
<1>1. /\ t \in Task /\ t.req \in Requests /\ row[t.req] \in Row
      /\ t.phase # "hold" => t.attempt = row[t.req].attempt
  BY TaskKnown DEF Typed, TypeOK, Task
<1>2. LET new == Settled(t.req, "failed")
      IN /\ new.status = "failed" /\ new.held = row[t.req].held
         /\ new.approver = row[t.req].approver
         /\ new.attempt = row[t.req].attempt /\ new.ack = row[t.req].ack
  BY <1>1 DEF Settled, Row
<1>3. CASE RecordAck(t)
  <2> DEFINE new == [row[t.req] EXCEPT !.status = "sent", !.quiet = JustSent(@),
                        !.ack = IF wire[t.attempt].api = "assigns" THEN t.attempt ELSE @]
  <2>1. /\ new.status = "sent" /\ new.held = row[t.req].held
        /\ new.approver = row[t.req].approver /\ new.attempt = row[t.req].attempt
        /\ new.ack \in {row[t.req].ack, t.attempt}
    BY <1>1 DEF Row
  <2>2. row' = UpdateWhere(t.req, {"pending"}, new)
    BY <1>3 DEF RecordAck
  <2> HIDE DEF new
  <2> QED
    BY <1>3, <2>1, <2>2, OrderRecord DEF RecordAck, Live
<1>4. CASE RecordUnconfirmed(t)
  <2> DEFINE new == [row[t.req] EXCEPT !.status = "unknown", !.quiet = JustSent(@)]
  <2>1. /\ new.status = "unknown" /\ new.held = row[t.req].held
        /\ new.approver = row[t.req].approver /\ new.attempt = row[t.req].attempt
        /\ new.ack = row[t.req].ack
    BY <1>1 DEF Row
  <2>2. row' = UpdateWhere(t.req, {"pending"}, new)
    BY <1>4 DEF RecordUnconfirmed
  <2> HIDE DEF new
  <2> QED
    BY <1>4, <2>1, <2>2, OrderRecord DEF RecordUnconfirmed, Live
<1>5. CASE RecordDeclined(t)
  BY <1>2, <1>5, OrderRecord DEF RecordDeclined
<1>6. ASSUME t.phase \in {"refused", "failover"}, GiveUp(t, t.tried), wire' = wire, queries' = queries
      PROVE  InOrder' /\ PromiseStep
  BY <1>2, <1>6, OrderRecord DEF GiveUp
<1>7. CASE RecordRefused(t)
  <2>1. /\ t.phase = "refused" /\ UNCHANGED <<due, wire, queries>> /\ pool' \in Pools
    BY <1>7, AfterRefusalType DEF RecordRefused, Refusal, Typed, TypeOK
  <2>2. CASE ~Counts(pool, t.operator)
    BY <1>2, <1>7, <2>1, <2>2, OrderRecord DEF RecordRefused
  <2>3. CASE Counts(pool, t.operator)
    BY <1>6, <1>7, <2>1, <2>3, OrderMoveOn DEF RecordRefused
  <2> QED
    BY <2>2, <2>3
<1>8. CASE Failover(t)
  <2>1. /\ t.phase = "failover" /\ UNCHANGED <<due, wire, queries>> /\ pool' \in Pools
    BY <1>8, AfterRefusalType DEF Failover, Typed, TypeOK
  <2>2. CASE ~Counts(pool, t.operator)
    BY <1>8, <2>1, <2>2, NoWriteStep DEF Failover
  <2>3. CASE Counts(pool, t.operator)
    BY <1>6, <1>8, <2>1, <2>3, OrderMoveOn DEF Failover
  <2> QED
    BY <2>2, <2>3
<1> QED
  BY <1>3, <1>4, <1>5, <1>7, <1>8, OrderHold, OrderCall DEF Continue, AckThrew, Orderly

(* A result is of the attempt its row stands for, and nobody is at work on *)
(* the row: its ack was stored before.                                     *)
LEMMA ResultKnown ==
  ASSUME Typed, Safe, InOrder, Orderly, NEW a \in Attempts, NEW r \in Requests,
         wire[a].at # "absent", Arrives(a), Names(r, KeyOf(a))
  PROVE  /\ row[r].attempt = a /\ wire[a].req = r /\ Cleared(r)
         /\ row[r].ack \in {NoAttempt, row[r].attempt}
         /\ \A u \in tasks : u.req # r
<1>1. row[r].ack \in {NoAttempt, row[r].attempt}
  BY DEF InOrder, RowsTrue, RowTrue
<1>2. row[r].attempt = a
  BY <1>1, AttemptsType DEF Names, KeyOf
<1>3. \A u \in tasks : u.attempt # a
  BY DEF Orderly, Arrives
<1>4. \A u \in tasks : u.req # r
  BY <1>2, <1>3 DEF InOrder, AtWork, Working
<1> QED
  BY <1>1, <1>2, <1>4, NamedIsSent

LEMMA SettledFields ==
  ASSUME NEW r \in Requests, NEW s, row[r] \in Row
  PROVE  LET new == Settled(r, s)
         IN /\ new.status = s /\ new.held = row[r].held /\ new.approver = row[r].approver
            /\ new.attempt = row[r].attempt /\ new.ack = row[r].ack
BY DEF Settled, Row

(* A result that settles its row.                                          *)
LEMMA SettlesStep ==
  ASSUME Typed, Safe, InOrder, NEW r \in Requests, NEW s, row[r].status \in Live, Cleared(r),
         LET w == wire[row[r].attempt]
         IN \/ s = "completed" /\ w.at = "paid" /\ w.req = r
            \/ s = "failed" /\ w.at \in {"failed", "refused"},
         row' = [row EXCEPT ![r] = Settled(r, s)], wire' = wire, tasks' = tasks,
         AnswersTrue' \/ queries' = queries
  PROVE  InOrder' /\ PromiseStep
<1>1. /\ row[r] \in Row /\ row[r].ack \in {NoAttempt, row[r].attempt}
      /\ row[r].attempt \in Attempts
  BY AttemptsType
  DEF Typed, TypeOK, InOrder, RowsTrue, RowTrue, Row, Identified, Existing, Live
<1>2. Honest(r, Settled(r, s))
  BY <1>1, SettledFields DEF Honest, Finishes
<1>3. \A u \in tasks : u.req = r => u.phase \notin {"hold", "send"}
  BY <1>1 DEF InOrder, AtWork, Working, Uncalled
<1>4. LeftAlone(r, Settled(r, s))
  BY <1>3 DEF LeftAlone
<1> QED
  BY <1>2, <1>4, WriteStep

LEMMA OrderProcesses ==
  ASSUME Typed, Safe, InOrder, NEW a \in Attempts, SafaricomProcesses(a)
  PROVE  InOrder' /\ PromiseStep
<1>0. PICK r : r = wire[a].req
  OBVIOUS
<1>1. /\ wire \in [Attempts -> Wire \cup {Absent}] /\ wire[a] \in Wire /\ wire[a].at = "queued"
      /\ r \in Requests /\ row[r].attempt = a /\ row[r].status # "failed" /\ wire[a].req = r
      /\ UNCHANGED <<row, tasks, queries>>
  BY <1>0, InFlightOfRow DEF SafaricomProcesses, Typed, TypeOK, Absent
<1>2. PICK end \in {"paid", "failed", "refused"} : wire' = [wire EXCEPT ![a].at = end]
  BY DEF SafaricomProcesses
<1>3. /\ wire'[a].at = end /\ wire'[a].req = r
      /\ \A b \in Attempts : b # a => wire'[b] = wire[b]
  BY <1>1, <1>2 DEF Wire
<1>4. OneHand'
  BY <1>1 DEF InOrder, OneHand
<1>5. AtWork'
  <2> SUFFICES ASSUME NEW t \in tasks PROVE Working(t)'
    BY <1>1 DEF AtWork
  <2>1. t.attempt \in Attempts /\ Working(t)
    BY DEF Typed, TypeOK, Task, InOrder, AtWork
  <2> QED
    BY <1>1, <1>3, <2>1 DEF Working, Uncalled, Unreleased
<1>6. RowsTrue'
  <2> SUFFICES ASSUME NEW x \in Requests, row[x].status = "completed"
               PROVE  wire'[row[x].attempt].at = "paid"
    BY <1>1 DEF InOrder, RowsTrue, RowTrue, Waiting, Unreleased
  <2>1. row[x].attempt \in Attempts /\ wire[row[x].attempt].at = "paid"
    BY AttemptsType DEF InOrder, RowsTrue, RowTrue, Typed, TypeOK, Row, Identified, Existing
  <2> QED
    BY <1>1, <1>3, <2>1
<1>7. AnswersTrue'
  <2> SUFFICES ASSUME NEW q \in QueryIds, OpenQuery(q) PROVE AnswerTrue(q)'
    BY <1>1 DEF AnswersTrue, OpenQuery
  <2>1. queries[q].key.attempt \in Attempts /\ AnswerTrue(q)
    BY DEF InOrder, AnswersTrue, OpenQuery, Typed, TypeOK, Query, Keys, Unasked, Done
  <2> QED
    BY <1>1, <1>3, <2>1 DEF AnswerTrue
<1>8. InFlightIsCurrent' /\ FailedNotPaid'
  BY <1>1, <1>3, InFlightOfRow DEF InFlightIsCurrent, FailedNotPaid
<1>9. PromiseStep
  <2>1. StagesSeen' = StagesSeen
    BY <1>1 DEF StagesSeen, StageOf, Unreleased
  <2>2. \A x \in Requests : x # r => PaidAttempts(x)' = PaidAttempts(x)
    BY <1>1, <1>3 DEF PaidAttempts
  <2>3. CASE end = "paid"
    <3>1. PaidAttempts(r) = {}
      BY <1>1, InFlightOfRow DEF PaidAttempts
    <3>2. PaidAttempts(r)' = {a}
      BY <1>1, <1>3, <2>3, <3>1 DEF PaidAttempts
    <3>3. StageOf(r) = "flight"
      <4>1. Cleared(r)
        BY <1>1 DEF Safe, SentCleared, Sent
      <4>2. row[r].status # "completed"
        BY <1>1 DEF InOrder, RowsTrue, RowTrue
      <4> QED
        BY <1>1, <4>1, <4>2 DEF StageOf, Unreleased, Cleared, LetThrough, InHand, Live
    <3>4. PaidSeen' = [PaidSeen EXCEPT ![r] = {a}] /\ PaidSeen[r] = {} /\ StagesSeen[r] = "flight"
      BY <1>1, <2>2, <3>1, <3>2, <3>3 DEF PaidSeen, StagesSeen
    <3>5. Promise!Pay(r, a)
      BY <2>1, <3>4 DEF Promise!Pay, PaidSeen, StagesSeen
    <3> QED
      BY <1>1, <3>5 DEF PromiseStep, Promise!Next
  <2>4. CASE end # "paid"
    <3>1. PaidAttempts(r)' = PaidAttempts(r)
      BY <1>1, <1>3, <2>4 DEF PaidAttempts
    <3> QED
      BY <2>1, <2>2, <3>1 DEF PromiseStep, PaidSeen
  <2> QED
    BY <2>3, <2>4
<1> QED
  BY <1>4, <1>5, <1>6, <1>7, <1>8, <1>9 DEF InOrder

LEMMA OrderRefusedResult ==
  ASSUME Typed, Safe, InOrder, Orderly, NEW a \in Attempts, NEW r \in Requests,
         ResultRefused(a, r)
  PROVE  InOrder' /\ PromiseStep
<1> DEFINE new == [row[r] EXCEPT !.status = "pending", !.parked = FALSE,
                      !.polls = 0, !.quiet = "asked", !.ack = NoAttempt]
<1>1. /\ row[r].attempt = a /\ wire[a].at = "refused" /\ row[r].status \in Live
      /\ \A u \in tasks : u.req # r
      /\ row \in [Requests -> Row] /\ row[r] \in Row
  BY ResultKnown DEF ResultRefused, Typed, TypeOK
<1>2. /\ row' = [row EXCEPT ![r] = new] /\ wire' = wire /\ queries' = queries
      /\ new.status = "pending" /\ new.held = row[r].held
      /\ new.approver = row[r].approver
      /\ new.attempt = row[r].attempt /\ new.ack = NoAttempt
  BY <1>1 DEF ResultRefused, Row
<1> HIDE DEF new
<1>3. Honest(r, new) /\ LeftAlone(r, new)
  BY <1>1, <1>2, LiveWrite DEF Live
<1>4. PICK k : tasks' = tasks \cup {k} /\ k.req = r /\ k.phase = "failover" /\ k.attempt = a
  <2>1. PICK again \in BOOLEAN : tasks' = tasks \cup
          {[phase |-> "failover", req |-> r, attempt |-> a,
            operator |-> row[r].operator, tried |-> {row[r].operator}, again |-> again]}
    BY DEF ResultRefused
  <2> DEFINE t == [phase |-> "failover", req |-> r, attempt |-> a,
                   operator |-> row[r].operator, tried |-> {row[r].operator}, again |-> again]
  <2>2. tasks' = tasks \cup {t} /\ t.req = r /\ t.phase = "failover" /\ t.attempt = a
    BY <2>1
  <2> HIDE DEF t
  <2> QED
    BY <2>2
<1>5. Working(k)'
  BY <1>1, <1>2, <1>4 DEF Working, Uncalled
<1>6. OneHand'
  BY <1>1, <1>4 DEF InOrder, OneHand
<1>7. AnswersTrue'
  BY <1>2 DEF InOrder, AnswersTrue, AnswerTrue, OpenQuery
<1>8. \A u \in tasks' : u \in tasks \/ Working(u)'
  BY <1>4, <1>5
<1>9. InOrder'
  BY <1>2, <1>3, <1>6, <1>7, <1>8, HonestStep
<1>10. PromiseStep
  BY <1>2, <1>3, HonestPromise
<1> QED
  BY <1>9, <1>10

LEMMA OrderResult ==
  ASSUME Typed, Safe, InOrder, Orderly, NEW a \in Attempts, Result(a)
  PROVE  InOrder' /\ PromiseStep
<1>1. ASSUME NEW r \in Requests, ResultPaid(a, r)
      PROVE  InOrder' /\ PromiseStep
  <2>1. row[r].attempt = a /\ wire[a].req = r /\ Cleared(r)
    BY <1>1, ResultKnown DEF ResultPaid
  <2> QED
    BY <1>1, <2>1, SettlesStep DEF ResultPaid
<1>2. ASSUME NEW r \in Requests, ResultFailed(a, r)
      PROVE  InOrder' /\ PromiseStep
  <2>1. row[r].attempt = a /\ wire[a].req = r /\ Cleared(r)
    BY <1>2, ResultKnown DEF ResultFailed
  <2> QED
    BY <1>2, <2>1, SettlesStep DEF ResultFailed
<1>3. ASSUME NEW r \in Requests, QueueTimeout(a, r)
      PROVE  InOrder' /\ PromiseStep
  <2> DEFINE new == [row[r] EXCEPT !.status = TimedOut,
                        !.quiet = IF StillPending(r) THEN JustSent(@) ELSE @]
  <2>1. row[r] \in Row /\ row[r].ack \in {NoAttempt, row[r].attempt}
        /\ row[r].status \in {"pending", "sent"}
    BY <1>3 DEF QueueTimeout, Typed, TypeOK, InOrder, RowsTrue, RowTrue
  <2>2. /\ new.status = "unknown" /\ new.held = row[r].held
        /\ new.approver = row[r].approver
        /\ new.attempt = row[r].attempt /\ new.ack = row[r].ack
    BY <2>1 DEF TimedOut, Row
  <2>3. row' = [row EXCEPT ![r] = new] /\ wire' = wire /\ queries' = queries /\ tasks' = tasks
    BY <1>3 DEF QueueTimeout
  <2> HIDE DEF new
  <2>4. Honest(r, new) /\ LeftAlone(r, new)
    BY <2>1, <2>2, LiveWrite DEF Live
  <2> QED
    BY <2>3, <2>4, WriteStep
<1> QED
  BY <1>1, <1>2, <1>3, OrderProcesses, OrderRefusedResult DEF Result

LEMMA OrderAnswer ==
  ASSUME Typed, Safe, InOrder, Orderly, NEW q \in QueryIds, Answer(q)
  PROVE  InOrder' /\ PromiseStep
<1>1. /\ queries \in [QueryIds -> Query \cup {Unasked, Done}]
      /\ OpenQuery(q) => /\ queries[q] \in Query /\ queries[q].target \in Requests
                         /\ queries[q].key.attempt \in Attempts /\ AnswerTrue(q)
                         /\ queries[q].key.form \in {"keeps", "assigns"}
  BY DEF Typed, TypeOK, OpenQuery, Query, Keys, Unasked, Done, InOrder, AnswersTrue
<1>2. CASE SafaricomAnswers(q)
  <2>1. /\ OpenQuery(q) /\ UNCHANGED <<row, tasks, wire>>
        /\ queries' = [queries EXCEPT ![q].says = Knows(queries[q].key)]
    BY <1>2 DEF SafaricomAnswers, OpenQuery
  <2>2. /\ queries'[q].says = Knows(queries[q].key) /\ queries'[q].key = queries[q].key
        /\ \A p \in QueryIds : p # q => queries'[p] = queries[p]
    BY <1>1, <2>1 DEF Query
  <2>3. LET w == wire[queries[q].key.attempt]
        IN /\ Knows(queries[q].key) = "completed" => w.at = "paid"
           /\ Knows(queries[q].key) = "failed" => w.at \in {"failed", "refused"}
    BY <1>1, <2>1 DEF Knows, Typed, TypeOK, Wire, Absent
  <2>4. AnswersTrue'
    BY <2>1, <2>2, <2>3 DEF InOrder, AnswersTrue, AnswerTrue, OpenQuery
  <2> QED
    BY <2>1, <2>4, NoWriteStep
<1>3. CASE RecordQuery(q)
  <2>1. /\ OpenQuery(q) /\ UNCHANGED <<row, tasks, wire>>
        /\ queries' = [queries EXCEPT ![q].state = "recorded"]
    BY <1>3 DEF RecordQuery, OpenQuery
  <2>2. /\ queries'[q].says = queries[q].says /\ queries'[q].key = queries[q].key
        /\ \A p \in QueryIds : p # q => queries'[p] = queries[p]
    BY <1>1, <2>1 DEF Query
  <2>3. AnswersTrue'
    BY <1>1, <2>1, <2>2 DEF InOrder, AnswersTrue, AnswerTrue, OpenQuery
  <2> QED
    BY <2>1, <2>3, NoWriteStep
<1>4. ASSUME Answered(q)
      PROVE  /\ OpenQuery(q)
             /\ LET r == queries[q].target
                IN /\ r \in Requests /\ row[r].attempt = queries[q].key.attempt
                   /\ queries[q].says \in {"unclear", "completed", "failed"}
                   /\ queries[q].says # "unclear" =>
                        /\ wire[row[r].attempt].req = r /\ Cleared(r)
                        /\ row[r].status # queries[q].says => row[r].status \in Live
  <2> DEFINE r == queries[q].target
             k == queries[q].key.attempt
  <2>1. OpenQuery(q) /\ r \in Requests /\ row[r].attempt = k /\ k \in Attempts /\ AnswerTrue(q)
        /\ queries[q].says \in {"unclear", "completed", "failed"}
    BY <1>1, <1>4 DEF Answered, OpenQuery, Orderly, Query
  <2>2. ASSUME queries[q].says # "unclear"
        PROVE  wire[k].req = r /\ Cleared(r)
    <3>1. wire[k].at # "absent"
      BY <2>1, <2>2 DEF AnswerTrue
    <3>2. Mentions(r, k)
      BY <2>1 DEF Mentions, RowMentions
    <3> QED
      BY <2>1, <3>1, <3>2, SentByName
  <2>3. ASSUME queries[q].says # "unclear", row[r].status # queries[q].says
        PROVE  row[r].status \in Live
    <3>1. row[r].status \in InHand
      BY <2>2, <2>3 DEF Cleared, LetThrough
    <3>2. row[r].status = "completed" => wire[k].at = "paid"
      BY <2>1 DEF InOrder, RowsTrue, RowTrue
    <3>3. wire[k].at = "paid" => row[r].status # "failed"
      BY <2>1, <2>2, <2>3, InFlightOfRow
    <3> QED
      BY <2>1, <2>3, <3>1, <3>2, <3>3 DEF AnswerTrue, InHand, Live
  <2> QED
    BY <2>1, <2>2, <2>3
<1>5. CASE StatusResult(q)
  <2>1. /\ Answered(q) /\ UNCHANGED <<tasks, wire>> /\ queries' = [queries EXCEPT ![q] = Done]
    BY <1>5 DEF StatusResult
  <2>2. AnswersTrue'
    BY <1>1, <2>1 DEF InOrder, AnswersTrue, AnswerTrue, OpenQuery, Done
  <2>3. CASE queries[q].says = "unclear" \/ row[queries[q].target].status = queries[q].says
    BY <1>5, <2>1, <2>2, <2>3, NoWriteStep DEF StatusResult
  <2>4. CASE queries[q].says # "unclear" /\ row[queries[q].target].status # queries[q].says
    <3>1. row' = [row EXCEPT ![queries[q].target] = Settled(queries[q].target, queries[q].says)]
      BY <1>5, <2>4 DEF StatusResult
    <3> QED
      BY <1>1, <1>4, <2>1, <2>2, <2>4, <3>1, SettlesStep DEF AnswerTrue
  <2> QED
    BY <2>3, <2>4
<1>6. ASSUME NEW r \in Requests, StatusDirect(q, r)
      PROVE  InOrder' /\ PromiseStep
  <2>1. /\ Answered(q) /\ queries[q].says # "unclear" /\ Names(r, queries[q].key)
        /\ row[r].status \in Live /\ UNCHANGED <<tasks, wire, queries>>
        /\ row' = [row EXCEPT ![r] = Settled(r, queries[q].says)]
    BY <1>6 DEF StatusDirect
  <2>2. row[r].ack \in {NoAttempt, row[r].attempt}
    BY DEF InOrder, RowsTrue, RowTrue
  <2>3. row[r].attempt = queries[q].key.attempt
    BY <1>1, <1>4, <2>1, <2>2, AttemptsType DEF Names
  <2>4. r = queries[q].target
    <3>1. Mentions(r, row[r].attempt) /\ Mentions(queries[q].target, row[r].attempt)
      BY <1>4, <2>1, <2>3 DEF Mentions, RowMentions
    <3> QED
      BY <1>1, <1>4, <2>1, <2>3, <3>1 DEF Safe, OneOwner
  <2> QED
    BY <1>1, <1>4, <2>1, <2>4, SettlesStep DEF AnswerTrue
<1> QED
  BY <1>2, <1>3, <1>5, <1>6 DEF Answer

LEMMA OrderStep ==
  ASSUME Typed, Safe, InOrder, Orderly, [Next]_vars
  PROVE  InOrder' /\ PromiseStep
<1>1. ASSUME NEW r \in Requests, Decide(r) \/ Clock(r)
      PROVE  InOrder' /\ PromiseStep
  <2>1. Creator \in People
    BY MoneyOutAssumption
  <2>2. CASE SweepSelect(r) \/ PollOne(r)
    BY <2>2, NoWriteStep DEF SweepSelect, PollOne
  <2> QED
    BY <1>1, <2>1, <2>2, OrderCreate, OrderDecide, OrderClock DEF Decide, Clock
<1>2. CASE Crash \/ (\E o \in Operators : Disable(o) \/ Reinstate(o)) \/ UNCHANGED vars
  <2>1. tasks' \subseteq tasks /\ row' = row /\ wire' = wire /\ queries' = queries
    BY <1>2 DEF Crash, Disable, Reinstate, vars
  <2> QED
    BY <2>1, NoWriteStep
<1> QED
  BY <1>1, <1>2, OrderContinue, OrderResult, OrderAsk, OrderAnswer DEF Next

LEMMA InOrderAlways ==
  ASSUME Orderly
  PROVE  Spec => [](Typed /\ Safe /\ InOrder)
<1>1. Typed /\ Safe /\ InOrder /\ [Next]_vars => (Typed /\ Safe /\ InOrder)'
  BY StepType, SafeStep, OrderStep
<1> QED
  BY <1>1, InitType, SafeInit, InOrderInit, PTL DEF Spec

\* Safaricom is never asked to pay while an earlier attempt of the same
\* payment is with it or has been paid: failing over to another operator
\* changes the identifier only when the refused attempt is over.
THEOREM InFlightIsCurrentInOrder ==
  ASSUME Orderly
  PROVE  Spec => []InFlightIsCurrent
<1>1. InOrder => InFlightIsCurrent
  BY DEF InOrder
<1> QED
  BY <1>1, InOrderAlways, PTL

\* No payment moves money twice, through any number of failovers, crashes,
\* lost answers and status queries, as long as no result overtakes its ack
\* or comes again, and no status answer comes after its row moved on.
THEOREM PaysOnceInOrder ==
  ASSUME Orderly
  PROVE  Spec => []PaysOnce
<1>1. Typed /\ InOrder => PaysOnce
  BY InFlightOfRow DEF PaysOnce
<1> QED
  BY <1>1, InOrderAlways, PTL

\* Under the same conditions a payment called failed was not paid, and is
\* not with Safaricom to be paid.
THEOREM FailedNotPaidInOrder ==
  ASSUME Orderly
  PROVE  Spec => []FailedNotPaid
<1>1. InOrder => FailedNotPaid
  BY DEF InOrder
<1> QED
  BY <1>1, InOrderAlways, PTL

\* The rows keep the promise of Payment: asked for, let through, paid at
\* most once, and settled as what happened.
THEOREM PromiseKept ==
  ASSUME Orderly
  PROVE  Spec => KeepsPromise
<1>1. Init => Promise!Init
  BY DEF Init, Promise!Init, NoRow, Absent, StageOf, PaidAttempts, Live
<1>2. Typed /\ Safe /\ InOrder /\ [Next]_vars
      => [Promise!Next]_<<StagesSeen, PaidSeen>>
  BY OrderStep DEF PromiseStep
<1> QED
  BY <1>1, <1>2, InOrderAlways, PTL
  DEF Spec, KeepsPromise, Promise!Spec, StagesSeen, PaidSeen
=============================================================================
