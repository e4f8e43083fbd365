---------------------------- MODULE OfficeProofs ----------------------------
(***************************************************************************)
(* Theorems about the operators and about bulk sends, for any number of    *)
(* each, of workers and of answers on their way: the sends that hold an    *)
(* operator's slot are kept apart (OperatorGate), what is verified is the  *)
(* credential of now and what is off stays off (OperatorProbe), and a row  *)
(* of a batch is paid once, while a batch being sent has its job           *)
(* (BulkSend).                                                             *)
(***************************************************************************)
EXTENDS OperatorGate, OperatorProbe, BulkSend, FiniteSetTheorems,
        WellFoundedInduction, TLAPS

(***************************************************************************)
(* The operator's slot.  A send that is at Safaricom under a lease of its  *)
(* own is the one the slot names, until the lease runs out.                *)
(***************************************************************************)

GateTypes ==
  /\ senders \in [Senders -> Sender \cup {NoSender}]
  /\ slot.expiresAt \in Nat /\ moment \in Nat \ {0}

UnderLease(s) ==
  /\ PhaseOf(s) = "calling" /\ senders[s].ticket
  /\ moment < senders[s].since + LeaseTime

SlotNames ==
  \A s \in Senders : UnderLease(s) =>
    slot.ticket = s /\ slot.expiresAt = senders[s].since + LeaseTime

SlotKept == GateTypes /\ SlotNames

(* A slot that is free leaves nobody under a lease.                        *)
LEMMA FreeMeansNobody ==
  ASSUME SlotKept, SlotFree
  PROVE  \A s \in Senders : ~UnderLease(s)
<1> SUFFICES ASSUME NEW s \in Senders, UnderLease(s) PROVE FALSE
  OBVIOUS
<1>1. senders[s] \in Sender
  BY DEF SlotKept, GateTypes, UnderLease, PhaseOf, NoSender
<1>2. slot.expiresAt = senders[s].since + LeaseTime /\ moment < senders[s].since + LeaseTime
  BY DEF SlotKept, SlotNames, UnderLease
<1>3. slot.expiresAt > moment /\ moment \in Nat \ {0} /\ slot.expiresAt \in Nat
  BY <1>1, <1>2, GateAssumption DEF SlotKept, GateTypes, Sender
<1> QED BY <1>3 DEF SlotFree, NoSlot

(* A step that leaves the slot and the clock alone, and puts nobody under  *)
(* a lease, keeps what the slot says.                                      *)
LEMMA NobodyNew ==
  ASSUME SlotKept, NEW s \in Senders, NEW x \in Sender \cup {NoSender},
         senders' = [senders EXCEPT ![s] = x], UNCHANGED <<slot, moment>>,
         x.at = "calling" => ~x.ticket
  PROVE  SlotKept'
<1>1. GateTypes'
  BY DEF SlotKept, GateTypes
<1>2. ASSUME NEW t \in Senders, UnderLease(t)'
      PROVE  slot'.ticket = t /\ slot'.expiresAt = senders'[t].since + LeaseTime
  <2>1. CASE t = s
    <3>1. senders'[t] = x
      BY <2>1 DEF SlotKept, GateTypes
    <3> QED BY <3>1, <1>2 DEF UnderLease, PhaseOf
  <2>2. CASE t # s
    <3>1. senders'[t] = senders[t]
      BY <2>2 DEF SlotKept, GateTypes
    <3> QED BY <3>1, <1>2 DEF UnderLease, PhaseOf, SlotKept, SlotNames
  <2> QED BY <2>1, <2>2
<1> QED BY <1>1, <1>2 DEF SlotKept, SlotNames

LEMMA SlotInit == GateInit => SlotKept
BY DEF GateInit, SlotKept, GateTypes, SlotNames, NoSlot, NoSender, UnderLease, PhaseOf

LEMMA SlotStep == SlotKept /\ [GateNext]_gateVars => SlotKept'
<1> SUFFICES ASSUME SlotKept, [GateNext]_gateVars PROVE SlotKept'
  OBVIOUS
<1>0. ASSUME NEW s \in Senders, PhaseOf(s) # "idle"
      PROVE  senders[s] \in Sender
  BY <1>0 DEF SlotKept, GateTypes, PhaseOf, NoSender
<1>1. ASSUME NEW s \in Senders, Pick(s) PROVE SlotKept'
  <2> DEFINE x == [at |-> "waiting", since |-> moment, ticket |-> FALSE]
  <2>1. x \in Sender
    BY DEF SlotKept, GateTypes, Sender
  <2> QED BY <1>1, <2>1, NobodyNew DEF Pick, Enters
<1>2. ASSUME NEW s \in Senders, TakeSlot(s) PROVE SlotKept'
  <2> DEFINE x == [at |-> "calling", since |-> moment, ticket |-> TRUE]
             y == [ticket |-> s, expiresAt |-> moment + LeaseTime]
  <2>1. x \in Sender /\ y.expiresAt \in Nat
    BY GateAssumption DEF SlotKept, GateTypes, Sender
  <2>2. senders' = [senders EXCEPT ![s] = x] /\ slot' = y /\ moment' = moment
    BY <1>2 DEF TakeSlot, Enters
  <2>3. GateTypes'
    BY <2>1, <2>2 DEF SlotKept, GateTypes
  <2>4. ASSUME NEW t \in Senders, UnderLease(t)'
        PROVE  slot'.ticket = t /\ slot'.expiresAt = senders'[t].since + LeaseTime
    <3>1. CASE t = s
      BY <2>2, <3>1 DEF SlotKept, GateTypes
    <3>2. CASE t # s
      <4>1. senders'[t] = senders[t]
        BY <2>2, <3>2 DEF SlotKept, GateTypes
      <4>2. UnderLease(t)
        BY <4>1, <2>2, <2>4 DEF UnderLease, PhaseOf
      <4> QED BY <4>2, <1>2, FreeMeansNobody DEF TakeSlot
    <3> QED BY <3>1, <3>2
  <2> QED BY <2>3, <2>4 DEF SlotKept, SlotNames
<1>3. ASSUME NEW s \in Senders, GoWithoutSlot(s) PROVE SlotKept'
  <2> DEFINE x == [at |-> "calling", since |-> moment, ticket |-> FALSE]
  <2>1. x \in Sender
    BY DEF SlotKept, GateTypes, Sender
  <2> QED BY <1>3, <2>1, NobodyNew DEF GoWithoutSlot, Enters
<1>4. ASSUME NEW s \in Senders, NEW phase \in {"refused", "answered"},
             PhaseOf(s) # "idle", Moves(s, phase), UNCHANGED <<slot, moment>>
      PROVE  SlotKept'
  <2> DEFINE x == [senders[s] EXCEPT !.at = phase]
  <2>1. x \in Sender /\ x.at # "calling"
    BY <1>0, <1>4 DEF Sender
  <2> QED BY <1>4, <2>1, NobodyNew DEF Moves
<1>5. ASSUME NEW s \in Senders, SafaricomAnswers(s) PROVE SlotKept'
  BY <1>4, <1>5 DEF SafaricomAnswers
<1>6. ASSUME NEW s \in Senders, CountRefusal(s) PROVE SlotKept'
  BY <1>4, <1>6 DEF CountRefusal
<1>7. ASSUME NEW s \in Senders, ReleaseSlot(s) PROVE SlotKept'
  <2>1. senders' = [senders EXCEPT ![s] = NoSender] /\ moment' = moment
    BY <1>7 DEF ReleaseSlot, Leaves
  <2>2. slot' = slot \/ (slot.ticket = s /\ slot' = NoSlot)
    BY <1>7 DEF ReleaseSlot, Released
  <2>3. CASE slot' = slot
    BY <2>1, <2>3, NobodyNew DEF NoSender
  <2>4. CASE slot.ticket = s /\ slot' = NoSlot
    <3>1. GateTypes'
      BY <2>1, <2>4 DEF SlotKept, GateTypes, NoSlot
    <3>2. ASSUME NEW t \in Senders, UnderLease(t)' PROVE FALSE
      <4>1. t # s
        BY <2>1, <3>2 DEF UnderLease, PhaseOf, NoSender, SlotKept, GateTypes
      <4>2. senders'[t] = senders[t]
        BY <2>1, <4>1 DEF SlotKept, GateTypes
      <4>3. UnderLease(t)
        BY <2>1, <3>2, <4>2 DEF UnderLease, PhaseOf
      <4> QED BY <2>4, <4>1, <4>3 DEF SlotKept, SlotNames
    <3> QED BY <3>1, <3>2 DEF SlotKept, SlotNames
  <2> QED BY <2>2, <2>3, <2>4
<1>8. ASSUME NEW s \in Senders, SenderStops(s) PROVE SlotKept'
  BY <1>8, NobodyNew DEF SenderStops, Leaves, NoSender
<1>9. CASE Moment
  <2>1. senders' = senders /\ slot' = slot /\ moment' = moment + 1
    BY <1>9 DEF Moment
  <2>2. GateTypes'
    BY <2>1 DEF SlotKept, GateTypes
  <2>3. ASSUME NEW t \in Senders, UnderLease(t)' PROVE UnderLease(t)
    <3>1. senders[t] \in Sender
      BY <2>1, <2>3, <1>0 DEF UnderLease, PhaseOf
    <3> QED BY <2>1, <2>3, <3>1, GateAssumption DEF UnderLease, PhaseOf, SlotKept, GateTypes, Sender
  <2> QED BY <2>1, <2>2, <2>3 DEF SlotKept, SlotNames
<1>10. CASE UNCHANGED <<senders, slot, moment>>
  BY <1>10 DEF SlotKept, GateTypes, SlotNames, UnderLease, PhaseOf
<1> QED
  BY <1>1, <1>2, <1>3, <1>5, <1>6, <1>7, <1>8, <1>9, <1>10
  DEF GateNext, SenderStep, Expire, Reinstate, gateVars

(* Of the sends that hold a lease of an operator's slot which has not run  *)
(* out, one is at Safaricom at a time (OneInFlight), for any number of     *)
(* sends and any lease and wait, although a waiter goes out without the    *)
(* slot, servers stop and slow sends give a slot back that is no longer    *)
(* theirs (operatorLock.ts, db/cache.ts).                                  *)
THEOREM OneInFlightAlways == GateSpec => []OneInFlight
<1>1. SlotKept => OneInFlight
  <2> SUFFICES ASSUME SlotKept PROVE OneInFlight
    OBVIOUS
  <2> DEFINE S == {s \in Senders : UnderLease(s)}
  <2>1. OneInFlight <=> Cardinality(S) <= 1
    BY DEF OneInFlight, UnderLease
  <2>2. CASE S = {}
    BY <2>1, <2>2, FS_EmptySet
  <2>3. CASE S # {}
    <3>1. PICK s \in S : TRUE
      BY <2>3
    <3>2. S = {s}
      BY <3>1 DEF SlotKept, SlotNames
    <3>3. Cardinality({s}) = 1
      BY FS_Singleton
    <3> QED BY <2>1, <3>2, <3>3
  <2> QED BY <2>2, <2>3
<1> QED BY <1>1, SlotInit, SlotStep, PTL DEF GateSpec

(***************************************************************************)
(* The invariant.  A test read a credential no newer than the one its call *)
(* went out with, and that one is no newer than the one of now: a row that *)
(* is written while the credential read is still the one of now therefore  *)
(* says the credential Safaricom answers about.                            *)
(***************************************************************************)

NewestGiven == Exists => operator.gen = generations

TestFits(t) ==
  tests[t] # NoTest =>
    /\ tests[t].gen <= generations
    /\ tests[t].at = "acked" =>
         /\ tests[t].probe \in ProbeIds /\ probes[tests[t].probe] # NoProbe
         /\ tests[t].gen <= probes[tests[t].probe].used
         /\ probes[tests[t].probe].used <= generations

RowsTrue == \A p \in ProbeIds : Waits(p) => probes[p].gen = probes[p].used

NoneLive == \A p \in ProbeIds : ~(Waits(p) /\ probes[p].linked)

OffIsQuiet == operator.status = "disabled" /\ disabling = "no" => NoneLive

ProbeInv ==
  /\ ProbeTypeOK /\ NewestGiven /\ RowsTrue /\ OffIsQuiet /\ VerifiedIsCurrent
  /\ \A t \in Tests : TestFits(t)

(***************************************************************************)
(* What most steps do to a row, to the operator and to the tests.          *)
(***************************************************************************)

Follows(r, s) ==
  /\ s \in Probe \cup {NoProbe}
  /\ r # NoProbe => s # NoProbe /\ s.used = r.used
  /\ s.status \in {"sent", "unknown"} =>
       r.status \in {"sent", "unknown"} /\ s.gen = r.gen /\ (s.linked => r.linked)

ProbesFollow ==
  probes' \in [ProbeIds -> Probe \cup {NoProbe}] /\ \A p \in ProbeIds : Follows(probes[p], probes'[p])

OperatorFollows ==
  /\ operator' \in Operator \cup {NoOperator}
  /\ Exists' => Exists /\ operator'.gen = operator.gen
  /\ operator'.status = "verified" => operator.status = "verified" \/ operator'.gen \in Accepted
  /\ operator'.status = "disabled" => operator.status = "disabled" \/ disabling' # "no"

TestsFollow ==
  /\ tests' \in [Tests -> Test \cup {NoTest}]
  /\ \A t \in Tests : tests'[t] # NoTest =>
       /\ tests[t] # NoTest /\ tests'[t].gen = tests[t].gen
       /\ tests'[t].at = "acked" => tests[t].at = "acked" /\ tests'[t].probe = tests[t].probe

Disables ==
  /\ disabling' \in {"no", "jobs", "probes", "interrupted"} /\ stopped' \in BOOLEAN
  /\ disabling' = "no" => disabling = "no" \/ NoneLive'

LEMMA Same == ASSUME NEW r \in Probe \cup {NoProbe} PROVE Follows(r, r)
BY DEF Follows

LEMMA StatusMoves ==
  ASSUME NEW r \in Probe, NEW status \in {"cancelled", "answered"}
  PROVE  Follows(r, [r EXCEPT !.status = status])
<1> DEFINE s == [r EXCEPT !.status = status]
<1>1. s \in Probe /\ s.used = r.used /\ s.status = status
  BY DEF Probe
<1>2. s # NoProbe
  BY <1>1 DEF NoProbe
<1> QED BY <1>1, <1>2 DEF Follows

LEMMA JobMoves ==
  ASSUME NEW r \in Probe, NEW job \in {"none", "armed", "claimed", "done"}
  PROVE  Follows(r, [r EXCEPT !.job = job])
<1> DEFINE s == [r EXCEPT !.job = job]
<1>1. s \in Probe /\ s.used = r.used /\ s.status = r.status /\ s.gen = r.gen /\ s.linked = r.linked
  BY DEF Probe
<1>2. s # NoProbe
  BY <1>1 DEF Probe, NoProbe
<1> QED BY <1>1, <1>2 DEF Follows

LEMMA Unlinks ==
  ASSUME NEW r \in Probe
  PROVE  Follows(r, [r EXCEPT !.linked = FALSE])
<1> DEFINE s == [r EXCEPT !.linked = FALSE]
<1>1. s \in Probe /\ s.used = r.used /\ s.status = r.status /\ s.gen = r.gen /\ s.linked = FALSE
  BY DEF Probe
<1>2. s # NoProbe
  BY <1>1 DEF Probe, NoProbe
<1> QED BY <1>1, <1>2 DEF Follows

(* What follows what follows a row follows it.                             *)
LEMMA FollowsOn ==
  ASSUME NEW r, NEW s, NEW u, Follows(r, s), Follows(s, u)
  PROVE  Follows(r, u)
BY DEF Follows

LEMMA DropsFollow ==
  ASSUME ProbeInv, NEW rows \in [ProbeIds -> Probe \cup {NoProbe}],
         \A p \in ProbeIds : Follows(probes[p], rows[p]), Drops(rows)
  PROVE  OperatorFollows /\ ProbesFollow
<1>1. OperatorFollows
  BY DEF Drops, OperatorFollows, Exists, NoOperator
<1>2. ASSUME NEW p \in ProbeIds PROVE probes'[p] \in Probe \cup {NoProbe} /\ Follows(probes[p], probes'[p])
  <2>1. CASE rows[p] = NoProbe
    BY <2>1 DEF Drops
  <2>2. CASE rows[p] # NoProbe
    <3>1. rows[p] \in Probe /\ probes'[p] = [rows[p] EXCEPT !.linked = FALSE]
      BY <2>2 DEF Drops
    <3>2. Follows(probes[p], probes'[p])
      BY <3>1, Unlinks, FollowsOn
    <3> QED BY <3>2 DEF Follows
  <2> QED BY <2>1, <2>2
<1>3. ProbesFollow
  BY <1>2 DEF Drops, ProbesFollow
<1> QED BY <1>1, <1>3

LEMMA BecomesFollows ==
  ASSUME ProbeInv, Exists, NEW status \in {"pending", "failed", "disabled"}, Becomes(status),
         status = "disabled" => disabling' # "no"
  PROVE  OperatorFollows
<1>1. operator \in Operator
  BY DEF ProbeInv, ProbeTypeOK, Exists
<1>2. operator' \in Operator /\ operator'.status = status /\ operator'.gen = operator.gen
  BY <1>1 DEF Becomes, Operator
<1> QED BY <1>2 DEF OperatorFollows

LEMMA TestMoves ==
  ASSUME ProbeInv, NEW t \in Tests, NEW x \in Test \cup {NoTest}, tests' = [tests EXCEPT ![t] = x],
         x # NoTest => tests[t] # NoTest /\ x.gen = tests[t].gen /\ x.at # "acked"
  PROVE  TestsFollow
BY DEF ProbeInv, ProbeTypeOK, TestsFollow

LEMMA StepsFollow ==
  ASSUME ProbeInv, NEW t \in Tests, tests[t] # NoTest, NEW phase \in {"asking", "refused", "dropping"},
         Steps(t, phase)
  PROVE  TestsFollow
<1> DEFINE x == [tests[t] EXCEPT !.at = phase]
<1>1. tests[t] \in Test
  BY DEF ProbeInv, ProbeTypeOK
<1>2. x \in Test /\ x.gen = tests[t].gen /\ x.at = phase
  BY <1>1 DEF Test
<1>3. tests' = [tests EXCEPT ![t] = x]
  BY DEF Steps
<1> HIDE DEF x
<1> QED BY <1>2, <1>3, TestMoves

LEMMA FinishFollows ==
  ASSUME ProbeInv, NEW t \in Tests, Finish(t)
  PROVE  TestsFollow
BY TestMoves DEF Finish

LEMMA Unmoved ==
  ASSUME ProbeInv
  PROVE  /\ UNCHANGED operator => OperatorFollows
         /\ UNCHANGED probes => ProbesFollow
         /\ UNCHANGED tests => TestsFollow
         /\ UNCHANGED <<disabling, stopped>> => Disables
<1>1. ASSUME UNCHANGED operator PROVE OperatorFollows
  BY <1>1 DEF ProbeInv, ProbeTypeOK, OperatorFollows, Exists
<1>2. ASSUME UNCHANGED probes PROVE ProbesFollow
  BY <1>2, Same DEF ProbeInv, ProbeTypeOK, ProbesFollow
<1>3. ASSUME UNCHANGED tests PROVE TestsFollow
  BY <1>3 DEF ProbeInv, ProbeTypeOK, TestsFollow
<1>4. ASSUME UNCHANGED <<disabling, stopped>> PROVE Disables
  BY <1>4 DEF ProbeInv, ProbeTypeOK, Disables
<1> QED BY <1>1, <1>2, <1>3, <1>4

(***************************************************************************)
(* A step that only follows keeps the invariant.                           *)
(***************************************************************************)

LEMMA ProbesKept ==
  ASSUME ProbeInv, ProbesFollow
  PROVE  RowsTrue' /\ (NoneLive => NoneLive')
<1>1. ASSUME NEW p \in ProbeIds, Waits(p)'
      PROVE  Waits(p) /\ probes'[p].gen = probes'[p].used /\ (probes'[p].linked => probes[p].linked)
  <2>1. Waits(p) /\ probes'[p].gen = probes[p].gen /\ (probes'[p].linked => probes[p].linked)
    BY <1>1 DEF ProbesFollow, Follows, Waits
  <2>2. probes[p] # NoProbe
    BY <2>1 DEF Waits, NoProbe
  <2>3. probes'[p].used = probes[p].used
    BY <2>2 DEF ProbesFollow, Follows
  <2> QED BY <2>1, <2>3 DEF ProbeInv, RowsTrue
<1> QED BY <1>1 DEF RowsTrue, NoneLive

LEMMA FitsStill ==
  ASSUME ProbeInv, ProbesFollow, NEW t \in Tests, generations <= generations',
         generations' \in 0..MaxGenerations,
         tests'[t] = tests[t]
  PROVE  TestFits(t)'
<1> SUFFICES ASSUME tests[t] # NoTest PROVE TestFits(t)'
  BY DEF TestFits
<1>1. tests[t] \in Test /\ TestFits(t) /\ generations \in 0..MaxGenerations
  BY DEF ProbeInv, ProbeTypeOK
<1>2. tests[t].gen <= generations'
  BY <1>1, ProbeAssumption DEF TestFits, Test
<1>3. ASSUME tests[t].at = "acked"
      PROVE  /\ tests[t].probe \in ProbeIds /\ probes'[tests[t].probe] # NoProbe
             /\ tests[t].gen <= probes'[tests[t].probe].used
             /\ probes'[tests[t].probe].used <= generations'
  <2>1. /\ tests[t].probe \in ProbeIds /\ probes[tests[t].probe] # NoProbe
        /\ tests[t].gen <= probes[tests[t].probe].used
        /\ probes[tests[t].probe].used <= generations
    BY <1>1, <1>3 DEF TestFits
  <2>2. probes'[tests[t].probe] # NoProbe /\ probes'[tests[t].probe].used = probes[tests[t].probe].used
    BY <2>1 DEF ProbesFollow, Follows
  <2>3. probes[tests[t].probe] \in Probe
    BY <2>1 DEF ProbeInv, ProbeTypeOK
  <2>4. probes[tests[t].probe].used \in Nat
    BY <2>3, ProbeAssumption DEF Probe, Gens
  <2> QED BY <1>1, <2>1, <2>2, <2>4, ProbeAssumption
<1> QED BY <1>2, <1>3 DEF TestFits

LEMMA FollowingKeeps ==
  ASSUME ProbeInv, OperatorFollows, ProbesFollow, TestsFollow, Disables, UNCHANGED generations
  PROVE  ProbeInv'
<1>1. ProbeTypeOK'
  BY DEF ProbeInv, ProbeTypeOK, OperatorFollows, ProbesFollow, TestsFollow, Disables
<1>2. NewestGiven'
  BY DEF ProbeInv, NewestGiven, OperatorFollows
<1>3. RowsTrue'
  BY ProbesKept
<1>4. OffIsQuiet'
  BY ProbesKept DEF ProbeInv, OffIsQuiet, OperatorFollows, Disables
<1>5. VerifiedIsCurrent'
  <2> SUFFICES ASSUME operator'.status = "verified" PROVE operator'.gen \in Accepted
    BY DEF VerifiedIsCurrent
  <2>1. Exists'
    BY DEF Exists, NoOperator
  <2> QED BY <2>1 DEF ProbeInv, VerifiedIsCurrent, OperatorFollows
<1>6. ASSUME NEW t \in Tests PROVE TestFits(t)'
  <2>1. generations \in 0..MaxGenerations /\ TestFits(t)
    BY DEF ProbeInv, ProbeTypeOK
  <2> SUFFICES ASSUME tests'[t] # NoTest PROVE TestFits(t)'
    BY DEF TestFits
  <2>2. /\ tests[t] # NoTest /\ tests'[t].gen = tests[t].gen
        /\ tests'[t].at = "acked" => tests[t].at = "acked" /\ tests'[t].probe = tests[t].probe
    BY DEF TestsFollow
  <2>3. tests'[t].gen <= generations'
    BY <2>1, <2>2 DEF TestFits
  <2>4. ASSUME tests'[t].at = "acked"
        PROVE  /\ tests'[t].probe \in ProbeIds /\ probes'[tests'[t].probe] # NoProbe
               /\ tests'[t].gen <= probes'[tests'[t].probe].used
               /\ probes'[tests'[t].probe].used <= generations'
    <3>1. tests'[t].gen = tests[t].gen /\ tests'[t].probe = tests[t].probe /\ tests[t].at = "acked"
      BY <2>2, <2>4
    <3>2. /\ tests[t].probe \in ProbeIds /\ probes[tests[t].probe] # NoProbe
          /\ tests[t].gen <= probes[tests[t].probe].used
          /\ probes[tests[t].probe].used <= generations
      BY <2>1, <2>2, <3>1 DEF TestFits
    <3>3. probes'[tests[t].probe] # NoProbe /\ probes'[tests[t].probe].used = probes[tests[t].probe].used
      BY <3>2 DEF ProbesFollow, Follows
    <3> QED BY <3>1, <3>2, <3>3
  <2> QED BY <2>3, <2>4 DEF TestFits
<1> QED BY <1>1, <1>2, <1>3, <1>4, <1>5, <1>6 DEF ProbeInv

(***************************************************************************)
(* The steps that bring something new: a credential, a reading of it, a    *)
(* call Safaricom acknowledged, a row that waits.                          *)
(***************************************************************************)

LEMMA CredentialKeeps ==
  ASSUME ProbeInv, NEW t \in Tests, NEW ever \in BOOLEAN, Credential(t, ever)
  PROVE  ProbeInv'
<1> DEFINE o == [status |-> "pending", gen |-> generations + 1, everVerified |-> ever]
           x == [at |-> "reading", gen |-> 0, probe |-> 0]
<1>1. generations' \in Gens /\ generations' = generations + 1 /\ generations \in Nat
  BY ProbeAssumption DEF Credential, ProbeInv, ProbeTypeOK, Gens
<1>2. o \in Operator /\ operator' = o /\ o.status = "pending" /\ o.gen = generations'
  BY <1>1 DEF Credential, Operator
<1>3. x \in Test /\ x.gen = 0 /\ x.at = "reading"
  BY ProbeAssumption DEF Test
<1>4. tests' = [tests EXCEPT ![t] = x] /\ UNCHANGED <<probes, disabling, stopped>>
  BY DEF Credential, Asked
<1> HIDE DEF o, x
<1>5. ProbesFollow
  BY <1>4, Unmoved
<1>6. ProbeTypeOK'
  BY <1>1, <1>2, <1>3, <1>4 DEF ProbeInv, ProbeTypeOK, Gens
<1>7. NewestGiven' /\ OffIsQuiet' /\ VerifiedIsCurrent'
  BY <1>2 DEF NewestGiven, OffIsQuiet, VerifiedIsCurrent
<1>8. RowsTrue'
  BY <1>5, ProbesKept
<1>9. ASSUME NEW u \in Tests PROVE TestFits(u)'
  <2>1. CASE u = t
    <3>1. tests'[u] = x
      BY <1>4, <2>1 DEF ProbeInv, ProbeTypeOK
    <3> QED BY <1>1, <1>3, <3>1 DEF TestFits
  <2>2. CASE u # t
    <3>1. tests'[u] = tests[u]
      BY <1>4, <2>2 DEF ProbeInv, ProbeTypeOK
    <3>2. generations <= generations' /\ generations' \in 0..MaxGenerations
      BY <1>1 DEF Gens
    <3> QED BY <1>5, <3>1, <3>2, FitsStill
  <2> QED BY <2>1, <2>2
<1> QED BY <1>6, <1>7, <1>8, <1>9 DEF ProbeInv

(* A step of one test that moves nothing but itself.                       *)
LEMMA OneTestKeeps ==
  ASSUME ProbeInv, ProbesFollow, NEW t \in Tests, NEW x \in Test, tests' = [tests EXCEPT ![t] = x],
         UNCHANGED <<operator, generations, disabling, stopped>>, x.gen <= generations,
         x.at = "acked" =>
           /\ x.probe \in ProbeIds /\ probes'[x.probe] # NoProbe
           /\ x.gen <= probes'[x.probe].used /\ probes'[x.probe].used <= generations
  PROVE  ProbeInv'
<1>1. ProbeTypeOK'
  BY DEF ProbeInv, ProbeTypeOK, ProbesFollow
<1>2. NewestGiven' /\ VerifiedIsCurrent'
  BY DEF ProbeInv, NewestGiven, VerifiedIsCurrent, Exists
<1>3. RowsTrue' /\ OffIsQuiet'
  BY ProbesKept DEF ProbeInv, OffIsQuiet
<1>4. ASSUME NEW u \in Tests PROVE TestFits(u)'
  <2>1. CASE u = t
    <3>1. tests'[u] = x
      BY <2>1 DEF ProbeInv, ProbeTypeOK
    <3> QED BY <3>1 DEF TestFits
  <2>2. CASE u # t
    <3>1. tests'[u] = tests[u]
      BY <2>2 DEF ProbeInv, ProbeTypeOK
    <3>2. generations <= generations' /\ generations' \in 0..MaxGenerations
      BY ProbeAssumption DEF ProbeInv, ProbeTypeOK
    <3> QED BY <3>1, <3>2, FitsStill
  <2> QED BY <2>1, <2>2
<1> QED BY <1>1, <1>2, <1>3, <1>4 DEF ProbeInv

LEMMA ReadKeeps ==
  ASSUME ProbeInv, NEW t \in Tests, ReadOperator(t)
  PROVE  ProbeInv'
<1>1. CASE Exists /\ operator.status # "disabled"
  <2> DEFINE x == [at |-> "checking", gen |-> operator.gen, probe |-> 0]
  <2>1. operator \in Operator /\ operator.gen = generations
    BY <1>1 DEF ProbeInv, ProbeTypeOK, NewestGiven, Exists
  <2>2. operator.gen \in 0..MaxGenerations /\ operator.gen <= generations
    BY <2>1, ProbeAssumption DEF Operator, Gens
  <2>3. x \in Test /\ x.gen <= generations /\ x.at = "checking"
    BY <2>2, ProbeAssumption DEF Test
  <2>4. tests' = [tests EXCEPT ![t] = x] /\ UNCHANGED <<operator, generations, probes, disabling, stopped>>
    BY <1>1 DEF ReadOperator
  <2> HIDE DEF x
  <2>5. ProbesFollow
    BY <2>4, Unmoved
  <2> QED BY <2>3, <2>4, <2>5, OneTestKeeps
<1>2. CASE ~(Exists /\ operator.status # "disabled")
  BY <1>2, FinishFollows, Unmoved, FollowingKeeps DEF ReadOperator
<1> QED BY <1>1, <1>2

LEMMA AskKeeps ==
  ASSUME ProbeInv, NEW t \in Tests, AskSafaricom(t)
  PROVE  ProbeInv'
<1>0. tests[t] # NoTest
  <2>1. tests[t].at = "asking"
    BY DEF AskSafaricom
  <2> QED BY <2>1 DEF NoTest
<1>1. CASE Steps(t, "refused") /\ UNCHANGED probes
  BY <1>0, <1>1, StepsFollow, Unmoved, FollowingKeeps DEF AskSafaricom
<1>2. ASSUME NEW p \in ProbeIds, probes[p] = NoProbe,
             probes' = [probes EXCEPT ![p] = [status |-> "unwritten", used |-> operator.gen,
                          gen |-> 0, linked |-> FALSE, job |-> "none"]],
             tests' = [tests EXCEPT ![t] = [tests[t] EXCEPT !.at = "acked", !.probe = p]]
      PROVE  ProbeInv'
  <2> DEFINE r == [status |-> "unwritten", used |-> operator.gen, gen |-> 0, linked |-> FALSE, job |-> "none"]
             x == [tests[t] EXCEPT !.at = "acked", !.probe = p]
  <2>1. operator \in Operator /\ operator.gen = generations
    BY DEF AskSafaricom, Unavailable, Exists, ProbeInv, ProbeTypeOK, NewestGiven
  <2>2. r \in Probe /\ r.status = "unwritten" /\ r.used = generations
    BY <2>1, ProbeAssumption DEF Probe, Operator, Gens
  <2>3. r # NoProbe
    BY <2>2 DEF NoProbe
  <2>4. tests[t] \in Test /\ TestFits(t)
    BY <1>0 DEF ProbeInv, ProbeTypeOK
  <2>5. x \in Test /\ x.probe = p /\ x.gen = tests[t].gen
    <3>1. p \in 0..MaxProbes
      BY ProbeAssumption DEF ProbeIds
    <3> QED BY <2>4, <3>1 DEF Test
  <2>6. x.gen <= generations
    BY <1>0, <2>4, <2>5 DEF TestFits
  <2>7. probes' = [probes EXCEPT ![p] = r] /\ tests' = [tests EXCEPT ![t] = x]
    BY <1>2
  <2> HIDE DEF r, x
  <2>8. Follows(NoProbe, r)
    BY <2>2 DEF Follows
  <2>9. ProbesFollow
    <3>1. ASSUME NEW q \in ProbeIds PROVE Follows(probes[q], probes'[q])
      <4>1. CASE q = p
        BY <1>2, <2>7, <2>8, <4>1 DEF ProbeInv, ProbeTypeOK
      <4>2. CASE q # p
        <5>1. probes'[q] = probes[q] /\ probes[q] \in Probe \cup {NoProbe}
          BY <2>7, <4>2 DEF ProbeInv, ProbeTypeOK
        <5> QED BY <5>1, Same
      <4> QED BY <4>1, <4>2
    <3>2. probes' \in [ProbeIds -> Probe \cup {NoProbe}]
      BY <2>2, <2>7 DEF ProbeInv, ProbeTypeOK
    <3> QED BY <3>1, <3>2 DEF ProbesFollow
  <2>10. probes'[p] = r
    BY <2>7 DEF ProbeInv, ProbeTypeOK
  <2>11. generations \in Nat
    BY ProbeAssumption DEF ProbeInv, ProbeTypeOK
  <2>12. /\ x.probe \in ProbeIds /\ probes'[x.probe] # NoProbe
         /\ x.gen <= probes'[x.probe].used /\ probes'[x.probe].used <= generations
    BY <2>2, <2>3, <2>5, <2>6, <2>10, <2>11
  <2>13. UNCHANGED <<operator, generations, disabling, stopped>>
    BY DEF AskSafaricom
  <2> QED BY <2>5, <2>6, <2>7, <2>9, <2>12, <2>13, OneTestKeeps
<1> QED BY <1>1, <1>2 DEF AskSafaricom

(* The row is written while the credential that was read is the one of     *)
(* now, so it is also the one the call went out with.                      *)
LEMMA WriteKeeps ==
  ASSUME ProbeInv, NEW t \in Tests, WriteProbe(t)
  PROVE  ProbeInv'
<1>0. UNCHANGED <<generations, disabling, stopped>> /\ TestsFollow
  BY FinishFollows DEF WriteProbe
<1>1. CASE ~Current(tests[t].gen) /\ UNCHANGED <<operator, probes>>
  BY <1>0, <1>1, Unmoved, FollowingKeeps
<1>2. CASE Current(tests[t].gen) /\ Becomes("pending")
           /\ probes' = [probes EXCEPT ![tests[t].probe] =
                [probes[tests[t].probe] EXCEPT !.status = "sent", !.gen = tests[t].gen,
                                               !.linked = TRUE, !.job = TimeoutJob]]
  <2> DEFINE p == tests[t].probe
             r == [probes[p] EXCEPT !.status = "sent", !.gen = tests[t].gen,
                                    !.linked = TRUE, !.job = TimeoutJob]
  <2>0. tests[t].at = "acked" /\ tests[t] # NoTest
    BY DEF WriteProbe, NoTest
  <2>1. tests[t] \in Test /\ p \in ProbeIds /\ probes[p] \in Probe
        /\ tests[t].gen <= probes[p].used /\ probes[p].used <= generations
    BY <2>0 DEF ProbeInv, ProbeTypeOK, TestFits
  <2>2. tests[t].gen = generations
    BY <1>2 DEF Current, ProbeInv, NewestGiven
  <2>3. probes[p].used = generations
    <3>1. probes[p].used \in Nat /\ generations \in Nat
      BY <2>1, ProbeAssumption DEF Probe, Gens, ProbeInv, ProbeTypeOK
    <3> QED BY <2>1, <2>2, <3>1
  <2>4. r \in Probe /\ r.used = generations /\ r.gen = generations
    BY <2>1, <2>2, <2>3 DEF Probe, Test, TimeoutJob
  <2>5. r # NoProbe
    BY <2>4 DEF Probe, NoProbe
  <2>6. probes' = [probes EXCEPT ![p] = r]
    BY <1>2
  <2>7. probes[p] # NoProbe
    BY <2>1 DEF Probe, NoProbe
  <2> HIDE DEF r
  <2>8. probes'[p] = r /\ \A q \in ProbeIds \ {p} : probes'[q] = probes[q]
    BY <2>1, <2>6 DEF ProbeInv, ProbeTypeOK
  <2>9. \A q \in ProbeIds : probes[q] # NoProbe => probes'[q] # NoProbe /\ probes'[q].used = probes[q].used
    BY <2>3, <2>4, <2>5, <2>8
  <2>10. operator' \in Operator /\ operator'.status = "pending" /\ operator'.gen = generations
    <3>1. operator \in Operator /\ operator.gen = generations
      BY <1>2 DEF Current, ProbeInv, ProbeTypeOK, NewestGiven, Exists
    <3> QED BY <1>2, <3>1 DEF Becomes, Operator
  <2>11. ProbeTypeOK'
    BY <1>0, <2>4, <2>6, <2>10 DEF ProbeInv, ProbeTypeOK, TestsFollow
  <2>12. NewestGiven' /\ OffIsQuiet' /\ VerifiedIsCurrent'
    BY <1>0, <2>10 DEF NewestGiven, OffIsQuiet, VerifiedIsCurrent
  <2>13. RowsTrue'
    BY <2>4, <2>8 DEF ProbeInv, RowsTrue, Waits
  <2>14. ASSUME NEW u \in Tests, tests'[u] # NoTest PROVE TestFits(u)'
    <3>1. /\ tests[u] # NoTest /\ tests'[u].gen = tests[u].gen
          /\ tests'[u].at = "acked" => tests[u].at = "acked" /\ tests'[u].probe = tests[u].probe
      BY <1>0, <2>14 DEF TestsFollow
    <3>2. TestFits(u)
      BY DEF ProbeInv
    <3> QED BY <1>0, <2>9, <3>1, <3>2 DEF TestFits
  <2>15. \A u \in Tests : TestFits(u)'
    BY <2>14 DEF TestFits
  <2> QED BY <2>11, <2>12, <2>13, <2>15 DEF ProbeInv
<1> QED BY <1>1, <1>2 DEF WriteProbe

(***************************************************************************)
(* The other steps only follow.                                            *)
(***************************************************************************)

LEMMA AskedAgainKeeps ==
  ASSUME ProbeInv, NEW t \in Tests, TestAgain(t)
  PROVE  ProbeInv'
<1> DEFINE x == [at |-> "reading", gen |-> 0, probe |-> 0]
<1>1. x \in Test /\ x.gen = 0 /\ x.at = "reading"
  BY ProbeAssumption DEF Test
<1>2. tests' = [tests EXCEPT ![t] = x] /\ UNCHANGED <<operator, generations, probes, disabling, stopped>>
  BY DEF TestAgain, Asked
<1> HIDE DEF x
<1>3. ProbesFollow /\ 0 <= generations
  BY <1>2, Unmoved, ProbeAssumption DEF ProbeInv, ProbeTypeOK
<1> QED BY <1>1, <1>2, <1>3, OneTestKeeps

(* The rows that are cancelled, and those whose timeout job is done with.  *)
LEMMA CancelledFollow ==
  ASSUME ProbeInv, NEW S \in SUBSET {p \in ProbeIds : Waits(p)}
  PROVE  /\ Cancelled(S) \in [ProbeIds -> Probe \cup {NoProbe}]
         /\ \A p \in ProbeIds : Follows(probes[p], Cancelled(S)[p])
         /\ \A p \in S : Cancelled(S)[p] \in Probe /\ Cancelled(S)[p].status = "cancelled"
<1>1. ASSUME NEW p \in ProbeIds PROVE Follows(probes[p], Cancelled(S)[p])
  <2>1. CASE p \in S
    <3>1. probes[p] \in Probe
      BY <2>1 DEF Waits, NoProbe, ProbeInv, ProbeTypeOK
    <3> QED BY <2>1, <3>1, StatusMoves DEF Cancelled
  <2>2. CASE p \notin S
    <3>1. Cancelled(S)[p] = probes[p] /\ probes[p] \in Probe \cup {NoProbe}
      BY <2>2 DEF Cancelled, ProbeInv, ProbeTypeOK
    <3> QED BY <3>1, Same
  <2> QED BY <2>1, <2>2
<1>2. ASSUME NEW p \in S PROVE Cancelled(S)[p] \in Probe /\ Cancelled(S)[p].status = "cancelled"
  <2>1. probes[p] \in Probe /\ Cancelled(S)[p] = [probes[p] EXCEPT !.status = "cancelled"]
    BY DEF Cancelled, Waits, NoProbe, ProbeInv, ProbeTypeOK
  <2> QED BY <2>1 DEF Probe
<1>3. Cancelled(S) \in [ProbeIds -> Probe \cup {NoProbe}]
  <2>1. \A p \in ProbeIds : Cancelled(S)[p] \in Probe \cup {NoProbe}
    BY <1>1 DEF Follows
  <2>2. Cancelled(S) = [p \in ProbeIds |-> Cancelled(S)[p]]
    BY DEF Cancelled
  <2> QED BY <2>1, <2>2
<1> QED BY <1>1, <1>2, <1>3

LEMMA DisarmFollows ==
  ASSUME NEW r \in Probe
  PROVE  Follows(r, Disarm(r)) /\ Disarm(r) \in Probe
<1>1. Disarm(r) = [r EXCEPT !.job = IF r.job = "armed" THEN "done" ELSE r.job]
  BY DEF Disarm
<1>2. (IF r.job = "armed" THEN "done" ELSE r.job) \in {"none", "armed", "claimed", "done"}
  BY DEF Probe
<1>3. Disarm(r) \in Probe
  BY <1>1, <1>2 DEF Probe
<1> QED BY <1>1, <1>2, <1>3, JobMoves

LEMMA SupersedeKeeps ==
  ASSUME ProbeInv, NEW t \in Tests, Supersede(t)
  PROVE  ProbeInv'
<1>0. UNCHANGED <<generations, disabling, stopped>> /\ tests[t] # NoTest
  <2>1. tests[t].at = "checking"
    BY DEF Supersede
  <2> QED BY <2>1 DEF Supersede, NoTest
<1>1. CASE ~Current(tests[t].gen) /\ Finish(t) /\ UNCHANGED <<operator, probes>>
  BY <1>0, <1>1, FinishFollows, Unmoved, FollowingKeeps
<1>2. CASE Current(tests[t].gen)
           /\ Becomes(IF operator.status = "failed" THEN "pending" ELSE operator.status)
           /\ probes' = [p \in ProbeIds |-> IF p \in Live
                THEN Disarm(Cancelled(Live)[p]) ELSE probes[p]]
           /\ Steps(t, "asking")
  <2>1. OperatorFollows
    <3> DEFINE s == IF operator.status = "failed" THEN "pending" ELSE operator.status
    <3>1. operator \in Operator /\ operator.status # "disabled"
      BY <1>2 DEF Current, Exists, ProbeInv, ProbeTypeOK
    <3>2. s \in {"pending", "verified"} /\ (s = "verified" => operator.status = "verified")
      BY <3>1 DEF Operator
    <3>3. operator' = [operator EXCEPT !.status = s]
      BY <1>2 DEF Becomes
    <3> HIDE DEF s
    <3>4. operator' \in Operator /\ operator'.status = s /\ operator'.gen = operator.gen
      BY <3>1, <3>2, <3>3 DEF Operator
    <3>5. Exists
      BY <1>2 DEF Current
    <3> QED BY <3>2, <3>4, <3>5 DEF OperatorFollows
  <2>2. Live \in SUBSET {p \in ProbeIds : Waits(p)}
    BY DEF Live
  <2>3. ASSUME NEW p \in ProbeIds PROVE Follows(probes[p], probes'[p])
    <3>1. CASE p \in Live
      <4>1. probes'[p] = Disarm(Cancelled(Live)[p]) /\ Cancelled(Live)[p] \in Probe
        BY <1>2, <2>2, <3>1, CancelledFollow
      <4>2. Follows(probes[p], Cancelled(Live)[p])
        BY <2>2, CancelledFollow
      <4> QED BY <4>1, <4>2, DisarmFollows, FollowsOn
    <3>2. CASE p \notin Live
      <4>1. probes'[p] = probes[p] /\ probes[p] \in Probe \cup {NoProbe}
        BY <1>2, <3>2 DEF ProbeInv, ProbeTypeOK
      <4> QED BY <4>1, Same
    <3> QED BY <3>1, <3>2
  <2>4. ProbesFollow
    BY <1>2, <2>3 DEF ProbesFollow, Follows
  <2>5. TestsFollow
    BY <1>0, <1>2, StepsFollow
  <2> QED BY <1>0, <2>1, <2>4, <2>5, Unmoved, FollowingKeeps
<1> QED BY <1>1, <1>2 DEF Supersede

LEMMA FailingKeeps ==
  ASSUME ProbeInv, NEW t \in Tests, MarkFailed(t) \/ DropOperator(t) \/ GiveUpAsking(t)
  PROVE  ProbeInv'
<1>1. CASE MarkFailed(t)
  <2>0. UNCHANGED <<generations, probes, disabling, stopped>> /\ tests[t] # NoTest
    <3>1. tests[t].at = "refused"
      BY <1>1 DEF MarkFailed
    <3> QED BY <1>1, <3>1 DEF MarkFailed, NoTest
  <2>1. CASE Current(tests[t].gen) /\ operator.everVerified
    <3>1. OperatorFollows
      BY <1>1, <2>1, BecomesFollows DEF MarkFailed, Current
    <3>2. TestsFollow
      BY <1>1, <2>1, FinishFollows DEF MarkFailed
    <3> QED BY <2>0, <3>1, <3>2, Unmoved, FollowingKeeps
  <2>2. CASE ~(Current(tests[t].gen) /\ operator.everVerified)
    <3>1. Steps(t, "dropping") /\ UNCHANGED operator
      BY <1>1, <2>2 DEF MarkFailed
    <3> QED BY <2>0, <3>1, StepsFollow, Unmoved, FollowingKeeps
  <2> QED BY <2>1, <2>2
<1>2. CASE DropOperator(t)
  <2>0. UNCHANGED <<generations, disabling, stopped>> /\ TestsFollow
    BY <1>2, FinishFollows DEF DropOperator
  <2>1. CASE Current(tests[t].gen) /\ ~operator.everVerified
    <3>1. Drops(probes)
      BY <1>2, <2>1 DEF DropOperator
    <3>2. \A p \in ProbeIds : Follows(probes[p], probes[p])
      BY Same DEF ProbeInv, ProbeTypeOK
    <3>3. OperatorFollows /\ ProbesFollow
      BY <3>1, <3>2, DropsFollow DEF ProbeInv, ProbeTypeOK
    <3> QED BY <2>0, <3>3, Unmoved, FollowingKeeps
  <2>2. CASE ~(Current(tests[t].gen) /\ ~operator.everVerified)
    <3>1. UNCHANGED <<operator, probes>>
      BY <1>2, <2>2 DEF DropOperator
    <3> QED BY <2>0, <3>1, Unmoved, FollowingKeeps
  <2> QED BY <2>1, <2>2
<1>3. CASE GiveUpAsking(t)
  BY <1>3, FinishFollows, Unmoved, FollowingKeeps DEF GiveUpAsking
<1> QED BY <1>1, <1>2, <1>3

LEMMA DisableKeeps ==
  ASSUME ProbeInv, Disable \/ DisableJobs \/ DisableProbes
  PROVE  ProbeInv'
<1>1. CASE Disable
  <2>1. UNCHANGED <<generations, tests, probes, stopped>> /\ disabling' = "jobs"
    BY <1>1 DEF Disable
  <2>2. Disables
    BY <2>1 DEF Disables, ProbeInv, ProbeTypeOK
  <2>3. OperatorFollows
    BY <1>1, <2>1, BecomesFollows DEF Disable
  <2> QED BY <2>1, <2>2, <2>3, Unmoved, FollowingKeeps
<1>2. CASE DisableJobs
  <2>1. UNCHANGED <<operator, generations, tests, stopped>> /\ disabling' = "probes"
        /\ probes' = [p \in ProbeIds |-> IF p \in Live THEN Disarm(probes[p]) ELSE probes[p]]
    BY <1>2 DEF DisableJobs
  <2>2. Disables
    BY <2>1 DEF Disables, ProbeInv, ProbeTypeOK
  <2>3. ASSUME NEW p \in ProbeIds PROVE Follows(probes[p], probes'[p])
    <3>1. CASE p \in Live
      <4>1. probes[p] \in Probe
        BY <3>1 DEF Live, Waits, NoProbe, ProbeInv, ProbeTypeOK
      <4> QED BY <2>1, <3>1, <4>1, DisarmFollows
    <3>2. CASE p \notin Live
      <4>1. probes'[p] = probes[p] /\ probes[p] \in Probe \cup {NoProbe}
        BY <2>1, <3>2 DEF ProbeInv, ProbeTypeOK
      <4> QED BY <4>1, Same
    <3> QED BY <3>1, <3>2
  <2>4. ProbesFollow
    BY <2>1, <2>3 DEF ProbesFollow, Follows
  <2> QED BY <2>1, <2>2, <2>4, Unmoved, FollowingKeeps
<1>3. CASE DisableProbes
  <2>1. UNCHANGED <<operator, generations, tests, stopped>> /\ disabling' = "no"
        /\ probes' = Cancelled(Live)
    BY <1>3 DEF DisableProbes
  <2>2. Live \in SUBSET {p \in ProbeIds : Waits(p)}
    BY DEF Live
  <2>3. ProbesFollow
    BY <2>1, <2>2, CancelledFollow DEF ProbesFollow
  <2>4. NoneLive'
    <3>1. ASSUME NEW p \in ProbeIds, Waits(p)', probes'[p].linked PROVE FALSE
      <4>1. CASE p \in Live
        BY <2>1, <2>2, <3>1, <4>1, CancelledFollow DEF Waits
      <4>2. CASE p \notin Live
        BY <2>1, <3>1, <4>2 DEF Cancelled, Waits, Live
      <4> QED BY <4>1, <4>2
    <3> QED BY <3>1 DEF NoneLive
  <2>5. Disables
    BY <2>1, <2>4 DEF Disables, ProbeInv, ProbeTypeOK
  <2> QED BY <2>1, <2>3, <2>5, Unmoved, FollowingKeeps
<1> QED BY <1>1, <1>2, <1>3

LEMMA AnswerKeeps ==
  ASSUME ProbeInv, NEW p \in ProbeIds, Answer(p)
  PROVE  ProbeInv'
<1> DEFINE answered == [probes EXCEPT ![p] = [probes[p] EXCEPT !.status = "answered"]]
<1>0. UNCHANGED <<generations, tests, disabling, stopped>> /\ Waits(p)
  BY DEF Answer
<1>1. probes[p] \in Probe
  BY <1>0 DEF Waits, NoProbe, ProbeInv, ProbeTypeOK
<1>2. [probes[p] EXCEPT !.status = "answered"] \in Probe
  BY <1>1 DEF Probe
<1>3. answered \in [ProbeIds -> Probe \cup {NoProbe}]
  BY <1>2 DEF ProbeInv, ProbeTypeOK
<1>4. \A q \in ProbeIds : Follows(probes[q], answered[q])
  <2>1. ASSUME NEW q \in ProbeIds PROVE Follows(probes[q], answered[q])
    <3>1. CASE q = p
      BY <1>1, <3>1, StatusMoves DEF ProbeInv, ProbeTypeOK
    <3>2. CASE q # p
      <4>1. answered[q] = probes[q] /\ probes[q] \in Probe \cup {NoProbe}
        BY <3>2 DEF ProbeInv, ProbeTypeOK
      <4> QED BY <4>1, Same
    <3> QED BY <3>1, <3>2
  <2> QED BY <2>1
<1>5. CASE ~(probes[p].linked /\ AnswerCurrent(probes[p].gen))
  <2>1. probes' = Cancelled({p}) /\ UNCHANGED operator
    BY <1>5 DEF Answer
  <2>2. {p} \in SUBSET {q \in ProbeIds : Waits(q)}
    BY <1>0
  <2>3. ProbesFollow
    BY <2>1, <2>2, CancelledFollow DEF ProbesFollow
  <2> QED BY <1>0, <2>1, <2>3, Unmoved, FollowingKeeps
<1>6. CASE probes[p].linked /\ AnswerCurrent(probes[p].gen)
  <2> DEFINE success == probes[p].used \in Accepted
  <2>1. \/ /\ success /\ probes' = answered
           /\ operator' = [operator EXCEPT !.status = "verified", !.everVerified = TRUE]
        \/ probes' = answered /\ Becomes("failed")
        \/ Drops(answered)
    BY <1>6 DEF Answer
  <2> HIDE DEF answered
  <2>2. probes' = answered => ProbesFollow
    BY <1>3, <1>4 DEF ProbesFollow
  <2>3. CASE /\ success /\ probes' = answered
             /\ operator' = [operator EXCEPT !.status = "verified", !.everVerified = TRUE]
    <3>1. operator \in Operator /\ operator.gen = probes[p].gen /\ Exists
      BY <1>6 DEF AnswerCurrent, Exists, ProbeInv, ProbeTypeOK
    <3>2. operator' \in Operator /\ operator'.status = "verified" /\ operator'.gen = operator.gen
      BY <2>3, <3>1 DEF Operator
    <3>3. operator.gen \in Accepted
      BY <1>0, <2>3, <3>1 DEF ProbeInv, RowsTrue
    <3>4. OperatorFollows
      BY <3>1, <3>2, <3>3 DEF OperatorFollows
    <3> QED BY <1>0, <2>2, <2>3, <3>4, Unmoved, FollowingKeeps
  <2>4. CASE probes' = answered /\ Becomes("failed")
    <3>1. OperatorFollows
      BY <1>6, <2>4, BecomesFollows DEF AnswerCurrent
    <3> QED BY <1>0, <2>2, <2>4, <3>1, Unmoved, FollowingKeeps
  <2>5. CASE Drops(answered)
    BY <1>0, <1>3, <1>4, <2>5, DropsFollow, Unmoved, FollowingKeeps
  <2> QED BY <2>1, <2>3, <2>4, <2>5
<1> QED BY <1>5, <1>6

LEMMA ClaimKeeps ==
  ASSUME ProbeInv, NEW p \in ProbeIds, ClaimTimeout(p)
  PROVE  ProbeInv'
<1> DEFINE r == [probes[p] EXCEPT !.job = "claimed"]
<1>1. probes[p] \in Probe /\ probes' = [probes EXCEPT ![p] = r]
      /\ UNCHANGED <<operator, generations, tests, disabling, stopped>>
  BY DEF ClaimTimeout, ProbeInv, ProbeTypeOK
<1>2. Follows(probes[p], r) /\ r \in Probe
  BY <1>1, JobMoves DEF Probe
<1> HIDE DEF r
<1>3. ASSUME NEW q \in ProbeIds PROVE Follows(probes[q], probes'[q])
  <2>1. CASE q = p
    BY <1>1, <1>2, <2>1 DEF ProbeInv, ProbeTypeOK
  <2>2. CASE q # p
    <3>1. probes'[q] = probes[q] /\ probes[q] \in Probe \cup {NoProbe}
      BY <1>1, <2>2 DEF ProbeInv, ProbeTypeOK
    <3> QED BY <3>1, Same
  <2> QED BY <2>1, <2>2
<1>4. ProbesFollow
  BY <1>1, <1>2, <1>3 DEF ProbesFollow, ProbeInv, ProbeTypeOK
<1> QED BY <1>1, <1>4, Unmoved, FollowingKeeps

LEMMA TimeOutKeeps ==
  ASSUME ProbeInv, NEW p \in ProbeIds, TimeOut(p)
  PROVE  ProbeInv'
<1> DEFINE r == [probes[p] EXCEPT !.job = "done",
                   !.status = IF probes[p].status = "sent" THEN "unknown" ELSE probes[p].status]
           over == [probes EXCEPT ![p] = r]
<1>0. UNCHANGED <<generations, tests, disabling, stopped>>
      /\ probes[p] \in Probe /\ probes[p] # NoProbe
  BY DEF TimeOut, ProbeInv, ProbeTypeOK
<1>1. r \in Probe /\ r.used = probes[p].used /\ r.gen = probes[p].gen /\ r.linked = probes[p].linked
      /\ r.status = IF probes[p].status = "sent" THEN "unknown" ELSE probes[p].status
  BY <1>0 DEF Probe
<1>2. r # NoProbe
  BY <1>1 DEF Probe, NoProbe
<1>3. Follows(probes[p], r)
  BY <1>1, <1>2 DEF Follows
<1>4. \/ Exists /\ Becomes("failed") /\ probes' = over
      \/ Drops(over)
      \/ probes' = over /\ UNCHANGED operator
  BY DEF TimeOut
<1> HIDE DEF r
<1>5. over \in [ProbeIds -> Probe \cup {NoProbe}]
  BY <1>1 DEF ProbeInv, ProbeTypeOK
<1>6. ASSUME NEW q \in ProbeIds PROVE Follows(probes[q], over[q])
  <2>1. CASE q = p
    BY <1>3, <2>1 DEF ProbeInv, ProbeTypeOK
  <2>2. CASE q # p
    <3>1. over[q] = probes[q] /\ probes[q] \in Probe \cup {NoProbe}
      BY <2>2 DEF ProbeInv, ProbeTypeOK
    <3> QED BY <3>1, Same
  <2> QED BY <2>1, <2>2
<1> HIDE DEF over
<1>7. probes' = over => ProbesFollow
  BY <1>5, <1>6 DEF ProbesFollow
<1>8. CASE Exists /\ Becomes("failed") /\ probes' = over
  BY <1>0, <1>7, <1>8, BecomesFollows, Unmoved, FollowingKeeps
<1>9. CASE Drops(over)
  BY <1>0, <1>5, <1>6, <1>9, DropsFollow, Unmoved, FollowingKeeps
<1>10. CASE probes' = over /\ UNCHANGED operator
  BY <1>0, <1>7, <1>10, Unmoved, FollowingKeeps
<1> QED BY <1>4, <1>8, <1>9, <1>10

LEMMA StopKeeps ==
  ASSUME ProbeInv, StopServer
  PROVE  ProbeInv'
<1>1. UNCHANGED <<operator, generations, probes>> /\ tests' = [t \in Tests |-> NoTest] /\ stopped' = TRUE
      /\ disabling' = IF NotDisabling THEN disabling ELSE "interrupted"
  BY DEF StopServer
<1>2. TestsFollow
  BY <1>1 DEF TestsFollow
<1>3. Disables
  BY <1>1 DEF Disables, NotDisabling, ProbeInv, ProbeTypeOK
<1>4. OperatorFollows /\ ProbesFollow
  BY <1>1, Unmoved
<1> QED BY <1>1, <1>2, <1>3, <1>4, FollowingKeeps

LEMMA ProbeInvStep == ProbeInv /\ [ProbeNext]_probeVars => ProbeInv'
<1> SUFFICES ASSUME ProbeInv, [ProbeNext]_probeVars PROVE ProbeInv'
  OBVIOUS
<1>1. ASSUME NEW t \in Tests, Add(t) \/ Rotate(t) PROVE ProbeInv'
  <2>1. operator # NoOperator => operator.everVerified \in BOOLEAN
    BY DEF ProbeInv, ProbeTypeOK, Operator
  <2> QED BY <1>1, <2>1, CredentialKeeps DEF Add, Rotate, Exists
<1>2. ASSUME NEW t \in Tests, TestAgain(t) \/ TestStep(t) PROVE ProbeInv'
  BY <1>2, AskedAgainKeeps, ReadKeeps, SupersedeKeeps, AskKeeps, FailingKeeps, WriteKeeps DEF TestStep
<1>3. ASSUME NEW p \in ProbeIds, Answer(p) \/ ClaimTimeout(p) \/ TimeOut(p) PROVE ProbeInv'
  BY <1>3, AnswerKeeps, ClaimKeeps, TimeOutKeeps
<1>4. CASE UNCHANGED probeVars
  BY <1>4, Unmoved, FollowingKeeps DEF probeVars
<1> QED BY <1>1, <1>2, <1>3, <1>4, DisableKeeps, StopKeeps DEF ProbeNext

LEMMA ProbeInvInit == ProbeInit => ProbeInv
<1> SUFFICES ASSUME ProbeInit PROVE ProbeInv
  OBVIOUS
<1>1. ~Exists /\ operator.status = "none"
  BY DEF ProbeInit, Exists, NoOperator
<1>2. ProbeTypeOK
  <2>1. operator \in Operator \cup {NoOperator} /\ generations \in 0..MaxGenerations
    BY ProbeAssumption DEF ProbeInit
  <2>2. tests \in [Tests -> Test \cup {NoTest}] /\ probes \in [ProbeIds -> Probe \cup {NoProbe}]
    BY DEF ProbeInit
  <2> QED BY <2>1, <2>2 DEF ProbeInit, ProbeTypeOK
<1>3. NewestGiven /\ OffIsQuiet /\ VerifiedIsCurrent
  BY <1>1 DEF NewestGiven, OffIsQuiet, VerifiedIsCurrent
<1>4. RowsTrue
  BY DEF ProbeInit, RowsTrue, Waits, NoProbe
<1>5. \A t \in Tests : TestFits(t)
  BY DEF ProbeInit, TestFits
<1> QED BY <1>2, <1>3, <1>4, <1>5 DEF ProbeInv

(***************************************************************************)
(* Theorems.                                                               *)
(***************************************************************************)

(* The operator, its tests and the rows that wait stay within their types  *)
(* (operators/service.ts).                                                 *)
THEOREM ProbeTyped == ProbeSpec => []ProbeTypeOK
<1>1. ProbeInv => ProbeTypeOK
  BY DEF ProbeInv
<1> QED BY <1>1, ProbeInvInit, ProbeInvStep, PTL DEF ProbeSpec

(* Whatever rotations, tests and late answers overlap, an operator that is *)
(* verified has the credential Safaricom accepted: the rotated_at guard of *)
(* the second transaction of probe() and of the balance callback.          *)
THEOREM VerifiedIsCurrentAlways == ProbeSpec => []VerifiedIsCurrent
<1>1. ProbeInv => VerifiedIsCurrent
  BY DEF ProbeInv
<1> QED BY <1>1, ProbeInvInit, ProbeInvStep, PTL DEF ProbeSpec

(* Once disable() is through, no test, answer or timeout on its way turns  *)
(* the operator on or takes it away: a new credential does.                *)
THEOREM OffStaysOffAlways == ProbeSpec => OffStaysOff
<1> DEFINE Off == operator.status = "disabled" /\ disabling = "no"
           Stays == Off => operator'.status = "disabled" \/ generations' # generations
<1>1. ProbeInv /\ [ProbeNext]_probeVars => [Stays]_probeVars
  <2> SUFFICES ASSUME ProbeInv, ProbeNext, Off
               PROVE  operator'.status = "disabled" \/ generations' # generations
    OBVIOUS
  <2>1. Exists /\ NoneLive /\ \A gen : ~Current(gen) /\ ~AnswerCurrent(gen)
    BY DEF ProbeInv, OffIsQuiet, Exists, NoOperator, Current, AnswerCurrent
  <2>2. ASSUME NEW t \in Tests, Add(t) \/ Rotate(t) PROVE generations' # generations
    BY <2>2, ProbeAssumption DEF Add, Rotate, Credential, ProbeInv, ProbeTypeOK
  <2>3. ASSUME NEW t \in Tests, TestAgain(t) \/ TestStep(t) PROVE operator' = operator
    BY <2>1, <2>3 DEF TestAgain, TestStep, ReadOperator, Supersede, AskSafaricom, GiveUpAsking,
                      MarkFailed, DropOperator, WriteProbe
  <2>4. ASSUME NEW p \in ProbeIds, Answer(p) \/ ClaimTimeout(p) \/ TimeOut(p) PROVE operator' = operator
    <3>1. CASE Answer(p)
      BY <2>1, <3>1 DEF Answer
    <3>2. CASE ClaimTimeout(p)
      BY <3>2 DEF ClaimTimeout
    <3>3. CASE TimeOut(p)
      <4>1. ~(probes[p].status = "sent" /\ probes[p].linked)
        BY <2>1 DEF NoneLive, Waits
      <4> QED BY <3>3, <4>1 DEF TimeOut
    <3> QED BY <2>4, <3>1, <3>2, <3>3
  <2>5. ~Disable \/ operator'.status = "disabled"
    <3>1. operator \in Operator
      BY <2>1 DEF Exists, ProbeInv, ProbeTypeOK
    <3> QED BY <3>1 DEF Disable, Becomes, Operator
  <2>6. DisableJobs \/ DisableProbes \/ StopServer => operator' = operator
    BY DEF DisableJobs, DisableProbes, StopServer
  <2> QED BY <2>2, <2>3, <2>4, <2>5, <2>6 DEF ProbeNext
<1> QED BY <1>1, ProbeInvInit, ProbeInvStep, PTL DEF ProbeSpec, OffStaysOff

(***************************************************************************)
(* A batch that one press at a time tries again, when no fault falls       *)
(* between a send and its note, or between the end of the batch and that   *)
(* of its job, no worker outlasts its lease, and no send throws after it   *)
(* wrote its request.                                                      *)
(***************************************************************************)

Noted ==
  /\ Around \cap {"noting", "ended", "slow", "lateThrow"} = {}
  /\ \A p, q \in Presses : p = q

(* The jobs, as far as the proof looks at them: when one falls due, and    *)
(* how often it was tried, may be anything.                                *)
Shaped(job) ==
  job \in [runAt: {job.runAt}, lockedAt: Nat, attempts: {job.attempts}, done: {job.done}]

Seen(s) ==
  s \in Seq({s[j] : j \in DOMAIN s}) /\ \A j \in 1..Len(s) : Shaped(s[j])

JobsSeen == Seen(jobs)

BatchTypes ==
  /\ batch \in Batch /\ JobsSeen
  /\ workers \in [Workers -> Worker \cup {IdleWorker}]
  /\ sends \in Seq(Send)
  /\ presses \in [Presses -> Press]
  /\ minute \in Nat \ {0}

(* A worker that has a job holds its lease, so nobody else has it.         *)
LeaseHeld ==
  /\ \A w \in Workers : Busy(w) =>
       /\ workers[w].job \in 1..Len(jobs)
       /\ ~jobs[workers[w].job].done /\ Held(jobs[workers[w].job], minute)
  /\ \A w, x \in Workers : Busy(w) /\ Busy(x) /\ workers[w].job = workers[x].job => w = x

(* A job that is open is the one of the batch that is being sent, unless   *)
(* its worker has only to complete it; and what a press is about to write  *)
(* back is what the batch still knows.                                     *)
NoPress == \A p \in Presses : ~PressAt(p, "writing") /\ ~PressAt(p, "queueing")
Finishing(j) == \E w \in Workers : Busy(w) /\ workers[w].at = "ended" /\ workers[w].job = j
ToDo(j) == j \in 1..Len(jobs) /\ ~jobs[j].done /\ ~Finishing(j)

OneToDo ==
  /\ \A j \in 1..Len(jobs) : ToDo(j) => batch.status = "sending" /\ NoPress
  /\ \A i, j \in 1..Len(jobs) : ToDo(i) /\ ToDo(j) => i = j
  /\ \A p \in Presses : PressAt(p, "queueing") => batch.status = "sending"
  /\ \A p \in Presses : PressAt(p, "writing") =>
       /\ batch.status \in {"done", "partly_done"}
       /\ presses[p].results = Kept(batch.results)
  /\ batch.status = "absent" => batch.results = NoResults

(* What the worker of that job knows is what the batch knows, but for the  *)
(* row it has in hand.                                                     *)
KnowsOf(w) ==
  /\ workers[w].at = "sending" =>
       /\ workers[w].results = batch.results
       /\ workers[w].row # 0 => batch.results[workers[w].row] = "none"
  /\ workers[w].at = "noting" =>
       /\ workers[w].row # 0 /\ batch.results[workers[w].row] = "none"
       /\ \A r \in Rows : r # workers[w].row => workers[w].results[r] = batch.results[r]

InHand == \A w \in Workers : Busy(w) => KnowsOf(w)

(* A payment of the batch that stands is known as sent, to the batch or to *)
(* the worker that has yet to note it.                                     *)
Noting(w, r) ==
  Busy(w) /\ workers[w].at = "noting" /\ workers[w].row = r /\ workers[w].results[r] = "sent"

KnownAsSent(r) == batch.results[r] = "sent" \/ \E w \in Workers : Noting(w, r)

SentKnown ==
  \A k \in 1..Len(sends) :
    sends[k].ofBatch /\ sends[k].standing => KnownAsSent(sends[k].row)

BatchInv ==
  BatchTypes /\ LeaseHeld /\ OneToDo /\ InHand /\ SentKnown /\ RowSentOnce

LEMMA SeqOfItsOwn ==
  ASSUME NEW T, NEW s \in Seq(T)
  PROVE  s \in Seq({s[j] : j \in DOMAIN s})
<1>1. Len(s) \in Nat /\ DOMAIN s = 1..Len(s)
  OBVIOUS
<1>2. s \in [1..Len(s) -> {s[j] : j \in DOMAIN s}]
  BY <1>1
<1> QED BY <1>1, <1>2

LEMMA ShapedMoves ==
  ASSUME NEW job, Shaped(job), NEW now \in Nat
  PROVE  /\ Shaped(Claimed(job, now)) /\ Claimed(job, now).lockedAt = now
         /\ Claimed(job, now).done = job.done
         /\ Shaped(Completed(job)) /\ Completed(job).done
         /\ Shaped(Failed(job, now))
         /\ Shaped(NewJob(now))
<1>2. ASSUME NEW x PROVE Shaped([job EXCEPT !.lockedAt = Unlocked, !.runAt = x])
  <2> DEFINE R == [runAt: {job.runAt, x}, lockedAt: Nat, attempts: {job.attempts},
                   done: {job.done}]
  <2>1. job \in R
    BY DEF Shaped
  <2>2. [job EXCEPT !.lockedAt = Unlocked, !.runAt = x] \in R
    BY <2>1 DEF Unlocked
  <2> QED BY <2>2 DEF Shaped
<1>3. /\ Shaped(Claimed(job, now)) /\ Claimed(job, now).lockedAt = now
      /\ Claimed(job, now).done = job.done
  <2> DEFINE R == [runAt: {job.runAt}, lockedAt: Nat,
                   attempts: {job.attempts, job.attempts + 1}, done: {job.done}]
  <2>1. job \in R
    BY DEF Shaped
  <2>2. Claimed(job, now) \in R /\ Claimed(job, now).lockedAt = now
    BY <2>1 DEF Claimed
  <2> QED BY <2>2 DEF Shaped
<1>4. Shaped(Completed(job)) /\ Completed(job).done
  <2> DEFINE R == [runAt: {job.runAt}, lockedAt: Nat, attempts: {job.attempts},
                   done: {job.done, TRUE}]
  <2>1. job \in R
    BY DEF Shaped
  <2>2. Completed(job) \in R /\ Completed(job).done = TRUE
    BY <2>1 DEF Completed, Unlocked
  <2> QED BY <2>2 DEF Shaped
<1>5. Shaped(Failed(job, now))
  BY <1>2, <1>4 DEF Failed
<1>6. Shaped(NewJob(now))
  BY DEF Shaped, NewJob, Unlocked
<1> QED BY <1>3, <1>4, <1>5, <1>6

(* One job is written, or one is queued.                                   *)
LEMMA OneJobMoves ==
  ASSUME JobsSeen, NEW j \in 1..Len(jobs), NEW x, Shaped(x), jobs' = [jobs EXCEPT ![j] = x]
  PROVE  /\ JobsSeen' /\ Len(jobs') = Len(jobs) /\ jobs'[j] = x
         /\ \A i \in 1..Len(jobs) : i # j => jobs'[i] = jobs[i]
<1> DEFINE T == {jobs[i] : i \in DOMAIN jobs} \cup {x}
<1>1. jobs \in Seq(T)
  BY DEF JobsSeen, Seen
<1> HIDE DEF T
<1>2. Len(jobs) \in Nat /\ DOMAIN jobs = 1..Len(jobs) /\ x \in T
  BY <1>1 DEF T
<1>3. jobs \in [1..Len(jobs) -> T]
  BY <1>1
<1>4. PICK s \in [1..Len(jobs) -> T] : s = [jobs EXCEPT ![j] = x]
  BY <1>2, <1>3
<1>5. s[j] = x /\ \A i \in 1..Len(jobs) : i # j => s[i] = jobs[i]
  BY <1>3, <1>4
<1>9. s \in Seq(T) /\ Len(s) = Len(jobs)
  <2> PICK n \in Nat : n = Len(jobs)
    BY <1>2
  <2>1. s \in [1..n -> T]
    BY <1>4
  <2> QED BY <2>1
<1>6. s \in Seq({s[i] : i \in DOMAIN s})
  BY <1>9, SeqOfItsOwn
<1>7. \A i \in 1..Len(s) : Shaped(s[i])
  BY <1>5, <1>9 DEF JobsSeen, Seen
<1>8. jobs' = s
  BY <1>4
<1>10. Seen(s)
  BY <1>6, <1>7 DEF Seen
<1>11. JobsSeen'
  BY <1>8, <1>10, Zenon DEF JobsSeen
<1> QED BY <1>5, <1>8, <1>9, <1>11

LEMMA JobQueued ==
  ASSUME JobsSeen, NEW x, Shaped(x), jobs' = Append(jobs, x)
  PROVE  /\ JobsSeen' /\ Len(jobs) \in Nat /\ Len(jobs') = Len(jobs) + 1
         /\ \A i \in 1..Len(jobs) : jobs'[i] = jobs[i]
<1> DEFINE T == {jobs[i] : i \in DOMAIN jobs} \cup {x}
<1>1. jobs \in Seq(T)
  BY DEF JobsSeen, Seen
<1> HIDE DEF T
<1>2. Len(jobs) \in Nat /\ DOMAIN jobs = 1..Len(jobs)
  BY <1>1
<1>2b. x \in T
  BY DEF T
<1>3. PICK s \in Seq(T) : s = Append(jobs, x)
  BY <1>1, <1>2b
<1>4. Len(s) = Len(jobs) + 1 /\ s[Len(jobs) + 1] = x /\ \A i \in 1..Len(jobs) : s[i] = jobs[i]
  BY <1>1, <1>2b, <1>3
<1>6. s \in Seq({s[i] : i \in DOMAIN s})
  BY SeqOfItsOwn
<1>7. \A i \in 1..Len(s) : Shaped(s[i])
  BY <1>2, <1>4 DEF JobsSeen, Seen
<1>8. jobs' = s
  BY <1>3
<1>9. Seen(s)
  BY <1>6, <1>7 DEF Seen
<1>10. JobsSeen'
  BY <1>8, <1>9, Zenon DEF JobsSeen
<1> QED BY <1>2, <1>4, <1>8, <1>10

(***************************************************************************)
(* Who has what.                                                           *)
(***************************************************************************)

LEMMA BusyIs ==
  ASSUME BatchInv, NEW w \in Workers, Busy(w)
  PROVE  /\ workers[w] \in Worker
         /\ workers[w].job \in 1..Len(jobs) /\ Shaped(jobs[workers[w].job])
         /\ ~jobs[workers[w].job].done
         /\ KnowsOf(w)
BY DEF BatchInv, BatchTypes, JobsSeen, Seen, LeaseHeld, InHand, Busy

LEMMA TheOne ==
  ASSUME BatchInv, NEW w \in Workers, Busy(w), workers[w].at # "ended"
  PROVE  /\ ToDo(workers[w].job) /\ batch.status = "sending" /\ NoPress
         /\ \A x \in Workers : Busy(x) /\ workers[x].at # "ended" => x = w
<1>1. ASSUME NEW x \in Workers, Busy(x), workers[x].at # "ended" PROVE ToDo(workers[x].job)
  BY <1>1 DEF BatchInv, LeaseHeld, ToDo, Finishing
<1>2. ToDo(workers[w].job) /\ workers[w].job \in 1..Len(jobs)
  BY <1>1, BusyIs
<1>3. ASSUME NEW x \in Workers, Busy(x), workers[x].at # "ended" PROVE x = w
  <2>1. ToDo(workers[x].job) /\ workers[x].job \in 1..Len(jobs)
    BY <1>1, <1>3, BusyIs
  <2>2. workers[x].job = workers[w].job
    BY <1>2, <2>1 DEF BatchInv, OneToDo
  <2> QED BY <1>3, <2>2 DEF BatchInv, LeaseHeld
<1> QED BY <1>2, <1>3 DEF BatchInv, OneToDo

LEMMA NobodyActs ==
  ASSUME BatchInv, batch.status # "sending", NEW w \in Workers, Busy(w)
  PROVE  workers[w].at = "ended"
BY TheOne

(* The leases are kept while time stands still and nobody takes a job.     *)
LEMMA LeasesKept ==
  ASSUME BatchInv, minute' = minute, Len(jobs) \in Nat, Len(jobs') \in Nat, Len(jobs') >= Len(jobs),
         \A x \in Workers : Busy(x)' =>
           Busy(x) /\ workers'[x].job = workers[x].job /\ jobs'[workers[x].job] = jobs[workers[x].job]
  PROVE  LeaseHeld'
<1>1. ASSUME NEW x \in Workers, Busy(x)'
      PROVE /\ workers'[x].job \in 1..Len(jobs')
            /\ ~jobs'[workers'[x].job].done /\ Held(jobs'[workers'[x].job], minute')
  BY <1>1, BusyIs DEF BatchInv, LeaseHeld
<1>2. ASSUME NEW x \in Workers, NEW y \in Workers, Busy(x)', Busy(y)', workers'[x].job = workers'[y].job
      PROVE x = y
  BY <1>2 DEF BatchInv, LeaseHeld
<1> QED BY <1>1, <1>2 DEF LeaseHeld

LEMMA ToDoKept ==
  ASSUME BatchInv, batch'.status = batch.status, presses' = presses,
         batch'.results = batch.results \/ (NoPress /\ batch.status # "absent"),
         \A j \in 1..Len(jobs') : ToDo(j)' => ToDo(j)
  PROVE  OneToDo'
BY DEF BatchInv, OneToDo, ToDo, NoPress, PressAt

(* A payment is known as sent as long as the batch forgets nothing and the *)
(* worker that is about to note it is not stopped.                         *)
LEMMA StillKnown ==
  ASSUME BatchInv, sends' = sends,
         \A k \in 1..Len(sends) : KnownAsSent(sends[k].row) => KnownAsSent(sends[k].row)'
  PROVE  SentKnown' /\ RowSentOnce'
BY DEF BatchInv, SentKnown, RowSentOnce

(***************************************************************************)
(* The worker that is at work goes on, or lets its job go.                 *)
(***************************************************************************)

LEMMA SendIs ==
  ASSUME BatchInv, NEW k \in 1..Len(sends)
  PROVE  sends[k] \in Send /\ sends[k].row \in Rows
<1>1. sends \in Seq(Send)
  BY DEF BatchInv, BatchTypes
<1>2. sends[k] \in Send
  BY <1>1
<1> QED BY <1>2 DEF Send

LEMMA GoesOn ==
  ASSUME BatchInv, NEW w \in Workers, Busy(w), workers[w].at # "ended",
         NEW x \in Worker, x.at # "ended", x.job = workers[w].job,
         workers' = [workers EXCEPT ![w] = x],
         jobs' = jobs, minute' = minute, presses' = presses,
         batch' \in Batch, batch'.status = batch.status, sends' \in Seq(Send),
         KnowsOf(w)'
  PROVE  BatchTypes' /\ LeaseHeld' /\ OneToDo' /\ InHand'
<1>1. /\ workers' \in [Workers -> Worker \cup {IdleWorker}] /\ workers'[w] = x
      /\ \A y \in Workers : y # w => workers'[y] = workers[y]
  BY DEF BatchInv, BatchTypes
<1>2. BatchTypes'
  BY <1>1 DEF BatchInv, BatchTypes, JobsSeen
<1>3. x # IdleWorker /\ Len(jobs) \in Nat
  BY DEF Worker, IdleWorker, BatchInv, BatchTypes, JobsSeen, Seen
<1>4. \A y \in Workers : Busy(y)' => Busy(y) /\ workers'[y].job = workers[y].job
  BY <1>1 DEF Busy
<1>5. LeaseHeld'
  BY <1>3, <1>4, LeasesKept
<1>6. ASSUME NEW j \in 1..Len(jobs'), ToDo(j)' PROVE ToDo(j)
  <2>1. ASSUME NEW y \in Workers, Busy(y), workers[y].at = "ended", workers[y].job = j
        PROVE FALSE
    <3>1. y # w
      BY <2>1
    <3>2. Busy(y)' /\ workers'[y].at = "ended" /\ workers'[y].job = j
      BY <1>1, <2>1, <3>1 DEF Busy
    <3> QED BY <1>6, <3>2 DEF ToDo, Finishing
  <2> QED BY <1>6, <2>1 DEF ToDo, Finishing
<1>7. batch.status # "absent" /\ NoPress
  BY TheOne
<1>8. OneToDo'
  BY <1>6, <1>7, ToDoKept
<1>9. ASSUME NEW y \in Workers, Busy(y)' PROVE KnowsOf(y)'
  <2>1. CASE y = w
    BY <2>1
  <2>2. CASE y # w
    <3>1. workers'[y] = workers[y] /\ Busy(y)
      BY <1>1, <1>9, <2>2 DEF Busy
    <3>2. workers[y].at = "ended"
      BY <2>2, <3>1, TheOne
    <3> QED BY <3>1, <3>2 DEF KnowsOf
  <2> QED BY <2>1, <2>2
<1> QED BY <1>2, <1>5, <1>8, <1>9 DEF InHand

LEMMA LetsGo ==
  ASSUME BatchInv, NEW w \in Workers, Busy(w), workers[w].at # "noting",
         workers' = [workers EXCEPT ![w] = IdleWorker],
         JobsSeen', Len(jobs') = Len(jobs),
         \A i \in 1..Len(jobs) : i # workers[w].job => jobs'[i] = jobs[i],
         workers[w].at = "ended" => jobs'[workers[w].job].done,
         batch' = batch, presses' = presses, sends' = sends, minute' = minute
  PROVE  BatchInv'
<1>1. /\ workers' \in [Workers -> Worker \cup {IdleWorker}] /\ ~Busy(w)'
      /\ \A y \in Workers : y # w => workers'[y] = workers[y]
  BY DEF BatchInv, BatchTypes, Busy
<1>2. BatchTypes'
  BY <1>1 DEF BatchInv, BatchTypes
<1>3. Len(jobs) \in Nat
  BY DEF BatchInv, BatchTypes, JobsSeen, Seen
<1>4. ASSUME NEW y \in Workers, Busy(y)'
      PROVE  y # w /\ Busy(y) /\ workers'[y] = workers[y] /\ jobs'[workers[y].job] = jobs[workers[y].job]
  <2>1. y # w /\ workers'[y] = workers[y] /\ Busy(y)
    BY <1>1, <1>4 DEF Busy
  <2>2. workers[y].job \in 1..Len(jobs) /\ workers[y].job # workers[w].job
    BY <2>1, BusyIs DEF BatchInv, LeaseHeld
  <2> QED BY <2>1, <2>2
<1>5. LeaseHeld'
  BY <1>3, <1>4, LeasesKept
<1>6. ASSUME NEW j \in 1..Len(jobs'), ToDo(j)' PROVE ToDo(j)
  <2>1. CASE j = workers[w].job
    <3>1. workers[w].at # "ended"
      BY <1>6, <2>1 DEF ToDo
    <3> QED BY <2>1, <3>1, TheOne
  <2>2. CASE j # workers[w].job
    <3>1. jobs'[j] = jobs[j]
      BY <2>2
    <3>2. ASSUME NEW y \in Workers, Busy(y), workers[y].at = "ended", workers[y].job = j
          PROVE FALSE
      <4>1. y # w
        BY <2>2, <3>2
      <4>2. Busy(y)' /\ workers'[y].at = "ended" /\ workers'[y].job = j
        BY <1>1, <3>2, <4>1 DEF Busy
      <4> QED BY <1>6, <4>2 DEF ToDo, Finishing
    <3> QED BY <1>6, <3>1, <3>2 DEF ToDo, Finishing
  <2> QED BY <2>1, <2>2
<1>7. OneToDo'
  BY <1>6, ToDoKept
<1>8. InHand'
  BY <1>4 DEF BatchInv, InHand, KnowsOf
<1>9. \A r \in Rows : KnownAsSent(r) => KnownAsSent(r)'
  <2>1. ASSUME NEW r \in Rows, NEW y \in Workers, Noting(y, r) PROVE Noting(y, r)'
    <3>1. y # w /\ workers'[y] = workers[y]
      BY <1>1, <2>1 DEF Noting
    <3> QED BY <2>1, <3>1 DEF Noting, Busy
  <2> QED BY <2>1 DEF KnownAsSent
<1>10. \A k \in 1..Len(sends) : sends[k].row \in Rows
  BY SendIs
<1>11. SentKnown' /\ RowSentOnce'
  BY <1>9, <1>10, StillKnown
<1> QED BY <1>2, <1>5, <1>7, <1>8, <1>11 DEF BatchInv

LEMMA NothingToDoKeeps ==
  ASSUME BatchInv, NEW w \in Workers, NothingToDo(w)
  PROVE  BatchInv'
<1>1. Busy(w) /\ workers[w].at = "loading"
  BY DEF NothingToDo
<1>2. workers[w].job \in 1..Len(jobs) /\ Shaped(jobs[workers[w].job]) /\ minute \in Nat
  BY <1>1, BusyIs DEF BatchInv, BatchTypes
<1> DEFINE j == workers[w].job
           x == Completed(jobs[j])
<1>3. Shaped(x) /\ jobs' = [jobs EXCEPT ![j] = x]
  BY <1>2, ShapedMoves DEF NothingToDo
<1>4. /\ JobsSeen' /\ Len(jobs') = Len(jobs)
      /\ \A i \in 1..Len(jobs) : i # j => jobs'[i] = jobs[i]
  <2> HIDE DEF x
  <2> QED BY <1>2, <1>3, OneJobMoves DEF BatchInv, BatchTypes
<1> QED BY <1>1, <1>4, LetsGo DEF NothingToDo

LEMMA CompleteKeeps ==
  ASSUME BatchInv, NEW w \in Workers, Complete(w)
  PROVE  BatchInv'
<1>1. Busy(w) /\ workers[w].at = "ended"
  BY DEF Complete
<1>2. workers[w].job \in 1..Len(jobs) /\ Shaped(jobs[workers[w].job]) /\ minute \in Nat
  BY <1>1, BusyIs DEF BatchInv, BatchTypes
<1> DEFINE j == workers[w].job
           x == Completed(jobs[j])
<1>3. Shaped(x) /\ x.done /\ jobs' = [jobs EXCEPT ![j] = x]
  BY <1>2, ShapedMoves DEF Complete
<1>4. /\ JobsSeen' /\ Len(jobs') = Len(jobs) /\ jobs'[j] = x
      /\ \A i \in 1..Len(jobs) : i # j => jobs'[i] = jobs[i]
  <2> HIDE DEF x
  <2> QED BY <1>2, <1>3, OneJobMoves DEF BatchInv, BatchTypes
<1> QED BY <1>1, <1>3, <1>4, LetsGo DEF Complete

LEMMA FaultKeeps ==
  ASSUME Noted, BatchInv, NEW w \in Workers, Throw(w) \/ Crash(w)
  PROVE  BatchInv'
<1>1. Busy(w) /\ workers[w].at \notin {"noting", "ended"}
  BY DEF Throw, Crash, MayFault, Noted
<1>2. workers[w].job \in 1..Len(jobs) /\ Shaped(jobs[workers[w].job]) /\ minute \in Nat
  BY <1>1, BusyIs DEF BatchInv, BatchTypes
<1>3. CASE Throw(w)
  <2> DEFINE j == workers[w].job
             x == Failed(jobs[j], minute)
  <2>1. Shaped(x) /\ jobs' = [jobs EXCEPT ![j] = x]
    BY <1>2, <1>3, ShapedMoves DEF Throw
  <2>2. /\ JobsSeen' /\ Len(jobs') = Len(jobs)
        /\ \A i \in 1..Len(jobs) : i # j => jobs'[i] = jobs[i]
    <3> HIDE DEF x
    <3> QED BY <1>2, <2>1, OneJobMoves DEF BatchInv, BatchTypes
  <2> QED BY <1>1, <1>3, <2>2, LetsGo DEF Throw
<1>4. CASE Crash(w)
  <2>1. jobs' = jobs /\ JobsSeen'
    BY <1>4 DEF Crash, BatchInv, BatchTypes, JobsSeen
  <2> QED BY <1>1, <1>4, <2>1, LetsGo DEF Crash
<1> QED BY <1>3, <1>4

(***************************************************************************)
(* The rows.                                                               *)
(***************************************************************************)

LEMMA NextRowIs ==
  ASSUME NEW results, NEW r \in Nat
  PROVE  /\ NextRow(results, r) \in 0..RowCount
         /\ NextRow(results, r) # 0 => results[NextRow(results, r)] = "none"
<1> DEFINE left == {i \in Rows : i > r /\ results[i] = "none"}
<1>1. CASE left = {}
  BY <1>1, BatchAssumption DEF NextRow
<1>2. CASE left # {}
  <2>1. left \subseteq Nat
    BY DEF Rows
  <2> HIDE DEF left
  <2>2. PICK i \in left : \A j \in left : <<j, i>> \notin OpToRel(<, Nat)
    BY <1>2, <2>1, WFMin, NatLessThanWellFounded, Zenon
  <2>3. \A j \in left : ~(j < i)
    BY <2>1, <2>2, Zenon DEF OpToRel
  <2>4. \A j \in left : i <= j
    BY <2>1, <2>3
  <2>5. (CHOOSE first \in left : \A j \in left : first <= j) \in left
    BY <2>4
  <2>6. NextRow(results, r) \in left
    BY <1>2, <2>5 DEF NextRow, left
  <2> QED BY <2>6, BatchAssumption DEF Rows, left
<1> QED BY <1>1, <1>2

LEMMA LoadKeeps ==
  ASSUME BatchInv, NEW w \in Workers, Load(w)
  PROVE  BatchInv'
<1>1. Busy(w) /\ workers[w].at = "loading" /\ workers[w] \in Worker
  BY BusyIs DEF Load
<1>2. batch.results \in [Rows -> Results] /\ batch \in Batch
  BY DEF BatchInv, BatchTypes, Batch
<1> PICK n \in 0..RowCount : n = NextRow(batch.results, 0) /\ (n # 0 => batch.results[n] = "none")
  BY NextRowIs
<1> PICK x \in Worker : x = [workers[w] EXCEPT !.at = "sending", !.results = batch.results, !.row = n]
  BY <1>1, <1>2 DEF Worker
<1>3. x.at = "sending" /\ x.results = batch.results /\ x.row = n /\ x.job = workers[w].job
  BY <1>1, <1>2 DEF Worker
<1>4. workers' = [workers EXCEPT ![w] = x]
  BY DEF Load, Loaded
<1>5. workers'[w] = x
  BY <1>4 DEF BatchInv, BatchTypes
<1>6. KnowsOf(w)'
  <2>1. batch' = batch
    BY DEF Load
  <2> QED BY <1>3, <1>5, <2>1 DEF KnowsOf
<1>7. BatchTypes' /\ LeaseHeld' /\ OneToDo' /\ InHand'
  BY <1>1, <1>2, <1>3, <1>4, <1>6, GoesOn DEF Load, BatchInv, BatchTypes
<1>8. \A r \in Rows : KnownAsSent(r) => KnownAsSent(r)'
  <2>1. ASSUME NEW r \in Rows, NEW y \in Workers, Noting(y, r) PROVE Noting(y, r)'
    <3>1. y # w /\ workers'[y] = workers[y]
      BY <1>1, <1>4, <2>1 DEF Noting
    <3> QED BY <2>1, <3>1 DEF Noting, Busy
  <2> QED BY <2>1 DEF KnownAsSent, Load
<1>9. SentKnown' /\ RowSentOnce'
  BY <1>8, SendIs, StillKnown DEF Load
<1> QED BY <1>7, <1>9 DEF BatchInv

(* The worker that knows a result has still to note it.                    *)
LEMMA KnowsKeeps ==
  ASSUME BatchInv, NEW w \in Workers, Sending(w), NEW result \in Results, Knows(w, result),
         NEW r \in Rows, r = workers[w].row,
         batch' = batch, jobs' = jobs, minute' = minute, presses' = presses, sends' \in Seq(Send)
  PROVE  /\ BatchTypes' /\ LeaseHeld' /\ OneToDo' /\ InHand'
         /\ \A q \in Rows : KnownAsSent(q) => KnownAsSent(q)'
         /\ result = "sent" => KnownAsSent(r)'
         /\ ~KnownAsSent(r)
<1>1. Busy(w) /\ workers[w].at = "sending" /\ workers[w].row # 0 /\ workers[w] \in Worker
  BY BusyIs DEF Sending
<1>2. /\ batch.results \in [Rows -> Results] /\ batch \in Batch
      /\ workers[w].results = batch.results /\ workers[w].row \in Rows
      /\ batch.results[workers[w].row] = "none"
  BY <1>1, BusyIs DEF BatchInv, BatchTypes, Batch, KnowsOf, Worker, Rows
<1> PICK f \in [Rows -> Results] : f = [workers[w].results EXCEPT ![workers[w].row] = result]
  BY <1>2
<1> PICK x \in Worker : x = [workers[w] EXCEPT !.at = "noting", !.results = f]
  BY <1>1 DEF Worker
<1>3. x.at = "noting" /\ x.results = f /\ x.row = workers[w].row /\ x.job = workers[w].job
  BY <1>1 DEF Worker
<1>4. workers' = [workers EXCEPT ![w] = x]
  BY DEF Knows
<1>5. workers'[w] = x
  BY <1>4 DEF BatchInv, BatchTypes
<1>6. KnowsOf(w)'
  BY <1>1, <1>2, <1>3, <1>5 DEF KnowsOf
<1>7. BatchTypes' /\ LeaseHeld' /\ OneToDo' /\ InHand'
  BY <1>1, <1>2, <1>3, <1>4, <1>6, GoesOn
<1>8. \A y \in Workers, q \in Rows : ~Noting(y, q)
  BY <1>1, TheOne DEF Noting
<1>9. \A q \in Rows : KnownAsSent(q) => KnownAsSent(q)'
  BY <1>8 DEF KnownAsSent
<1>10. ASSUME result = "sent" PROVE Noting(w, r)'
  <2>1. f[r] = "sent" /\ x # IdleWorker
    BY <1>2, <1>10 DEF Worker, IdleWorker
  <2> QED BY <1>3, <1>5, <2>1 DEF Noting, Busy
<1>11. result = "sent" => KnownAsSent(r)'
  BY <1>10 DEF KnownAsSent
<1>12. ~KnownAsSent(r)
  BY <1>2, <1>8 DEF KnownAsSent
<1> QED BY <1>2, <1>7, <1>9, <1>11, <1>12

LEMMA SendRefusedKeeps ==
  ASSUME BatchInv, NEW w \in Workers, SendRefused(w)
  PROVE  BatchInv'
<1>1. PICK result \in {"duplicate", "refused"} : Knows(w, result)
  BY DEF SendRefused
<1>3. workers[w].row \in Rows
  BY BusyIs DEF SendRefused, Sending, Worker, Rows
<1> PICK r \in Rows : r = workers[w].row
  BY <1>3
<1>2. /\ BatchTypes' /\ LeaseHeld' /\ OneToDo' /\ InHand'
      /\ \A q \in Rows : KnownAsSent(q) => KnownAsSent(q)'
  BY <1>1, KnowsKeeps DEF SendRefused, Results, BatchInv, BatchTypes
<1>4. SentKnown' /\ RowSentOnce'
  BY <1>2, SendIs, StillKnown DEF SendRefused
<1> QED BY <1>2, <1>4 DEF BatchInv

LEMMA SendAnsweredKeeps ==
  ASSUME BatchInv, NEW w \in Workers, SendAnswered(w)
  PROVE  BatchInv'
<1>1. PICK standing \in BOOLEAN :
        /\ sends' = Written(workers[w].row, TRUE, standing)
        /\ Knows(w, IF standing THEN "sent" ELSE "sentFailed")
  BY DEF SendAnswered
<1>2. PICK result \in Results : result = IF standing THEN "sent" ELSE "sentFailed"
  BY DEF Results
<1>3. workers[w].row \in Rows
  BY BusyIs DEF SendAnswered, Sending, Worker, Rows
<1>4. PICK r \in Rows : r = workers[w].row
  BY <1>3
<1>5. PICK x \in Send : x = [row |-> r, at |-> minute, ofBatch |-> TRUE, standing |-> standing]
  BY DEF Send, BatchInv, BatchTypes
<1>6. sends \in Seq(Send) /\ sends' = Append(sends, x)
  BY <1>1, <1>4, <1>5 DEF Written, BatchInv, BatchTypes
<1>7. /\ sends' \in Seq(Send) /\ Len(sends) \in Nat /\ Len(sends') = Len(sends) + 1
      /\ sends'[Len(sends) + 1] = x /\ \A k \in 1..Len(sends) : sends'[k] = sends[k]
  BY <1>6
<1>8. /\ BatchTypes' /\ LeaseHeld' /\ OneToDo' /\ InHand'
      /\ \A q \in Rows : KnownAsSent(q) => KnownAsSent(q)'
      /\ result = "sent" => KnownAsSent(r)'
      /\ ~KnownAsSent(r)
  BY <1>1, <1>2, <1>4, <1>7, KnowsKeeps DEF SendAnswered
<1>10. SentKnown'
  <2>1. ASSUME NEW k \in 1..Len(sends'), sends'[k].ofBatch, sends'[k].standing,
               NEW q, q = sends'[k].row
        PROVE  KnownAsSent(q)'
    <3>1. CASE k = Len(sends) + 1
      BY <1>2, <1>5, <1>7, <1>8, <2>1, <3>1
    <3>2. CASE k \in 1..Len(sends)
      <4>1. q \in Rows /\ KnownAsSent(q)
        BY <1>7, <2>1, <3>2, SendIs DEF BatchInv, SentKnown
      <4> QED BY <1>8, <4>1
    <3> QED BY <1>7, <3>1, <3>2
  <2> QED BY <2>1 DEF SentKnown
<1>11. RowSentOnce'
  <2>1. \A k \in 1..Len(sends) : sends[k].ofBatch /\ sends[k].standing => sends[k].row # r
    BY <1>8 DEF BatchInv, SentKnown
  <2> QED BY <1>5, <1>7, <2>1 DEF BatchInv, RowSentOnce
<1> QED BY <1>8, <1>10, <1>11 DEF BatchInv

LEMMA NoteKeeps ==
  ASSUME BatchInv, NEW w \in Workers, Note(w)
  PROVE  BatchInv'
<1>1. Busy(w) /\ workers[w].at = "noting" /\ workers[w] \in Worker /\ KnowsOf(w)
  BY BusyIs DEF Note
<1> PICK f \in [Rows -> Results] : f = workers[w].results
  BY <1>1 DEF Worker
<1> PICK q \in Rows : q = workers[w].row
  BY <1>1 DEF Worker, Rows, KnowsOf
<1> PICK n \in 0..RowCount : n = NextRow(f, q) /\ (n # 0 => f[n] = "none")
  BY NextRowIs DEF Rows
<1> PICK x \in Worker : x = [workers[w] EXCEPT !.at = "sending", !.row = n]
  BY <1>1 DEF Worker
<1>2. x.at = "sending" /\ x.results = f /\ x.row = n /\ x.job = workers[w].job
  BY <1>1 DEF Worker
<1>3. workers' = [workers EXCEPT ![w] = x] /\ workers'[w] = x
  BY DEF Note, BatchInv, BatchTypes
<1>4. batch' \in Batch /\ batch'.status = batch.status /\ batch'.results = f
  BY DEF Note, BatchInv, BatchTypes, Batch
<1>5. KnowsOf(w)'
  BY <1>2, <1>3, <1>4 DEF KnowsOf
<1>6. BatchTypes' /\ LeaseHeld' /\ OneToDo' /\ InHand'
  BY <1>1, <1>2, <1>3, <1>4, <1>5, GoesOn DEF Note, BatchInv, BatchTypes
<1>7. ASSUME NEW r \in Rows, KnownAsSent(r) PROVE KnownAsSent(r)'
  <2>1. f[r] = "sent"
    <3>1. CASE batch.results[r] = "sent"
      BY <1>1, <3>1 DEF KnowsOf
    <3>2. ASSUME NEW y \in Workers, Noting(y, r) PROVE f[r] = "sent"
      BY <1>1, <3>2, TheOne DEF Noting
    <3> QED BY <1>7, <3>1, <3>2 DEF KnownAsSent
  <2> QED BY <1>4, <2>1 DEF KnownAsSent
<1>8. SentKnown' /\ RowSentOnce'
  BY <1>7, SendIs, StillKnown DEF Note
<1> QED BY <1>6, <1>8 DEF BatchInv

LEMMA EndKeeps ==
  ASSUME BatchInv, NEW w \in Workers, End(w)
  PROVE  BatchInv'
<1>1. Busy(w) /\ workers[w].at = "sending" /\ workers[w] \in Worker
  BY BusyIs DEF End
<1> PICK x \in Worker : x = [workers[w] EXCEPT !.at = "ended"]
  BY <1>1 DEF Worker
<1>2. x.at = "ended" /\ x.job = workers[w].job /\ x # IdleWorker
  BY <1>1 DEF Worker, IdleWorker
<1>3. /\ workers' \in [Workers -> Worker \cup {IdleWorker}] /\ workers'[w] = x
      /\ \A y \in Workers : y # w => workers'[y] = workers[y]
  BY DEF End, BatchInv, BatchTypes
<1>4. batch' \in Batch /\ batch'.results = batch.results /\ batch'.status \in {"done", "partly_done"}
  BY DEF End, Ended, BatchInv, BatchTypes, Batch
<1>5. BatchTypes' /\ Len(jobs) \in Nat
  BY <1>3, <1>4 DEF End, BatchInv, BatchTypes, JobsSeen, Seen
<1>6. \A y \in Workers : Busy(y)' => Busy(y) /\ workers'[y].job = workers[y].job
  BY <1>1, <1>2, <1>3 DEF Busy
<1>7. LeaseHeld'
  BY <1>5, <1>6, LeasesKept DEF End
<1>8. ASSUME NEW j \in 1..Len(jobs'), ToDo(j)' PROVE FALSE
  <2>1. Finishing(workers[w].job)'
    BY <1>2, <1>3 DEF Finishing, Busy
  <2>2. workers[w].job \in 1..Len(jobs) /\ ToDo(workers[w].job)
    BY <1>1, BusyIs, TheOne
  <2>3. j # workers[w].job
    <3>1. PICK k : k = workers[w].job
      OBVIOUS
    <3>2. Finishing(k)'
      BY <1>2, <1>3, <3>1 DEF Finishing, Busy
    <3> QED BY <1>8, <3>1, <3>2 DEF ToDo
  <2>4. ASSUME NEW y \in Workers, Busy(y), workers[y].at = "ended", workers[y].job = j
        PROVE FALSE
    <3>1. Busy(y)' /\ workers'[y].at = "ended" /\ workers'[y].job = j
      BY <1>1, <1>3, <2>4 DEF Busy
    <3> QED BY <1>8, <3>1 DEF ToDo, Finishing
  <2>5. j \in 1..Len(jobs) /\ ToDo(j)
    BY <1>8, <2>4 DEF ToDo, Finishing, End
  <2> QED BY <2>2, <2>3, <2>5 DEF BatchInv, OneToDo
<1>9. OneToDo'
  <2>1. NoPress /\ presses' = presses
    BY <1>1, TheOne DEF End
  <2> QED BY <1>4, <1>8, <2>1 DEF OneToDo, NoPress, PressAt
<1>10. InHand'
  <2>1. ASSUME NEW y \in Workers, Busy(y)' PROVE KnowsOf(y)'
    <3>1. CASE y = w
      BY <1>2, <1>3, <3>1 DEF KnowsOf
    <3>2. CASE y # w
      <4>1. workers'[y] = workers[y] /\ KnowsOf(y)
        BY <1>3, <1>6, <2>1, <3>2, BusyIs
      <4> QED BY <1>4, <4>1 DEF KnowsOf
    <3> QED BY <3>1, <3>2
  <2> QED BY <2>1 DEF InHand
<1>11. ASSUME NEW r \in Rows, KnownAsSent(r) PROVE KnownAsSent(r)'
  <2>1. ~\E y \in Workers : Noting(y, r)
    BY <1>1, TheOne DEF Noting
  <2> QED BY <1>4, <1>11, <2>1 DEF KnownAsSent
<1>12. SentKnown' /\ RowSentOnce'
  BY <1>11, SendIs, StillKnown DEF End
<1> QED BY <1>5, <1>7, <1>9, <1>10, <1>12 DEF BatchInv

LEMMA JobClaimKeeps ==
  ASSUME BatchInv, NEW w \in Workers, NEW j \in 1..Len(jobs), Claim(w, j)
  PROVE  BatchInv'
<1>1. Shaped(jobs[j]) /\ minute \in Nat \ {0} /\ JobsSeen
  BY DEF BatchInv, BatchTypes, JobsSeen, Seen
<1> PICK c : c = Claimed(jobs[j], minute)
  OBVIOUS
<1>2. Shaped(c) /\ c.lockedAt = minute /\ c.done = jobs[j].done /\ jobs' = [jobs EXCEPT ![j] = c]
  BY <1>1, ShapedMoves DEF Claim
<1>3a. Len(jobs) \in Nat
  BY <1>1 DEF JobsSeen, Seen
<1>3b. /\ JobsSeen' /\ Len(jobs') = Len(jobs) /\ jobs'[j] = c
       /\ \A i \in 1..Len(jobs) : i # j => jobs'[i] = jobs[i]
  BY <1>1, <1>2, OneJobMoves
<1>3. /\ JobsSeen' /\ Len(jobs') = Len(jobs) /\ jobs'[j] = c /\ Len(jobs) \in Nat
      /\ \A i \in 1..Len(jobs) : i # j => jobs'[i] = jobs[i]
  BY <1>3a, <1>3b
<1>4. ~jobs[j].done /\ ~Held(jobs[j], minute) /\ ~Busy(w)
  BY DEF Claim, Claimable
<1>4a. NoResults \in [Rows -> Results] /\ j \in Nat /\ 0 \in 0..RowCount
  BY <1>3, BatchAssumption DEF NoResults, Results
<1> PICK x \in Worker : x = [at |-> "loading", job |-> j, results |-> NoResults, row |-> 0]
  BY <1>4a DEF Worker
<1>5. /\ workers' \in [Workers -> Worker \cup {IdleWorker}] /\ workers'[w] = x
      /\ x.job = j /\ x.at = "loading"
      /\ \A y \in Workers : y # w => workers'[y] = workers[y]
  BY DEF Claim, BatchInv, BatchTypes
<1>6. BatchTypes'
  BY <1>3, <1>5 DEF Claim, BatchInv, BatchTypes
<1>7. \A y \in Workers : Busy(y) => workers[y].job # j
  BY <1>4 DEF BatchInv, LeaseHeld
<1>8. Held(c, minute)
  BY <1>1, <1>2, JobAssumption DEF Held, Unlocked
<1>9. LeaseHeld'
  <2>1. ASSUME NEW y \in Workers, Busy(y)'
        PROVE /\ workers'[y].job \in 1..Len(jobs')
              /\ ~jobs'[workers'[y].job].done /\ Held(jobs'[workers'[y].job], minute')
              /\ workers'[y].job = j => y = w
              /\ workers'[y].job # j => Busy(y) /\ workers'[y].job = workers[y].job
    <3>1. CASE y = w
      BY <1>2, <1>3, <1>4, <1>5, <1>8, <3>1 DEF Claim
    <3>2. CASE y # w
      <4>1. Busy(y) /\ workers'[y] = workers[y]
        BY <1>5, <2>1, <3>2 DEF Busy
      <4>2. workers[y].job \in 1..Len(jobs) /\ workers[y].job # j
        BY <1>7, <4>1, BusyIs
      <4> QED BY <1>3, <4>1, <4>2 DEF BatchInv, LeaseHeld, Claim
    <3> QED BY <3>1, <3>2
  <2>2. ASSUME NEW y \in Workers, NEW z \in Workers, Busy(y)', Busy(z)',
               workers'[y].job = workers'[z].job
        PROVE y = z
    BY <2>1, <2>2 DEF BatchInv, LeaseHeld
  <2> QED BY <2>1, <2>2 DEF LeaseHeld
<1>10. ASSUME NEW i \in 1..Len(jobs'), ToDo(i)' PROVE ToDo(i)
  <2>1. i \in 1..Len(jobs) /\ ~jobs[i].done
    BY <1>2, <1>3, <1>4, <1>10 DEF ToDo
  <2>2. ASSUME NEW y \in Workers, Busy(y), workers[y].at = "ended", workers[y].job = i
        PROVE FALSE
    <3>1. Busy(y)' /\ workers'[y].at = "ended" /\ workers'[y].job = i
      BY <1>4, <1>5, <2>2 DEF Busy
    <3> QED BY <1>10, <3>1 DEF ToDo, Finishing
  <2> QED BY <2>1, <2>2 DEF ToDo, Finishing
<1>11. OneToDo'
  BY <1>10, ToDoKept DEF Claim
<1>12. InHand'
  <2>1. batch' = batch
    BY DEF Claim
  <2>2. ASSUME NEW y \in Workers, Busy(y)' PROVE KnowsOf(y)'
    <3>1. CASE y = w
      BY <1>5, <3>1 DEF KnowsOf
    <3>2. CASE y # w
      <4>1. workers'[y] = workers[y] /\ KnowsOf(y)
        BY <1>5, <2>2, <3>2, BusyIs DEF Busy
      <4> QED BY <2>1, <4>1 DEF KnowsOf
    <3> QED BY <3>1, <3>2
  <2> QED BY <2>2 DEF InHand
<1>13. ASSUME NEW r \in Rows, KnownAsSent(r) PROVE KnownAsSent(r)'
  <2>1. ASSUME NEW y \in Workers, Noting(y, r) PROVE Noting(y, r)'
    BY <1>4, <1>5, <2>1 DEF Noting, Busy
  <2> QED BY <1>13, <2>1 DEF KnownAsSent, Claim
<1>14. SentKnown' /\ RowSentOnce'
  BY <1>13, SendIs, StillKnown DEF Claim
<1> QED BY <1>6, <1>9, <1>11, <1>12, <1>14 DEF BatchInv

(***************************************************************************)
(* The presses, and what goes on around.                                   *)
(***************************************************************************)

(* What leaves the jobs, the workers and the payments alone.               *)
LEMMA AsideKeeps ==
  ASSUME BatchInv, jobs' = jobs, workers' = workers, minute' = minute, sends' = sends,
         batch' \in Batch, presses' \in [Presses -> Press]
  PROVE  BatchTypes' /\ LeaseHeld' /\ (\A j \in 1..Len(jobs) : ToDo(j)' <=> ToDo(j))
<1>1. Len(jobs) \in Nat
  BY DEF BatchInv, BatchTypes, JobsSeen, Seen
<1> QED
  BY <1>1, LeasesKept DEF BatchInv, BatchTypes, JobsSeen, ToDo, Finishing, Busy

(* With one press at a time, the press that moves is the only one.         *)
LEMMA PressIs ==
  ASSUME Noted, BatchInv, NEW p \in Presses, NEW x \in Press, PressMoves(p, x)
  PROVE  presses' \in [Presses -> Press] /\ (\A q \in Presses : q = p /\ presses'[q] = x)
BY DEF Noted, BatchInv, BatchTypes, PressMoves

LEMMA KeptIs ==
  ASSUME NEW results \in [Rows -> Results]
  PROVE  /\ Kept(results) \in [Rows -> Results]
         /\ \A r \in Rows : results[r] = "sent" => Kept(results)[r] = "sent"
BY DEF Kept, Again, Results

LEMMA ReadAgainKeeps ==
  ASSUME Noted, BatchInv, NEW p \in Presses, ReadAgain(p)
  PROVE  BatchInv'
<1>1. /\ jobs' = jobs /\ workers' = workers /\ minute' = minute /\ sends' = sends
      /\ batch' = batch /\ batch \in Batch /\ batch.results \in [Rows -> Results]
      /\ batch.status \in {"done", "partly_done"}
  BY DEF ReadAgain, BatchInv, BatchTypes, Batch
<1> PICK f \in [Rows -> Results] : f = Kept(batch.results)
  BY <1>1, KeptIs
<1> PICK x \in Press : x = [at |-> "writing", results |-> f]
  BY DEF Press
<1>2. PressMoves(p, x)
  BY DEF ReadAgain
<1>3. presses' \in [Presses -> Press] /\ (\A q \in Presses : q = p /\ presses'[q] = x)
  BY <1>2, PressIs
<1>4. BatchTypes' /\ LeaseHeld' /\ (\A j \in 1..Len(jobs) : ToDo(j)' <=> ToDo(j))
  BY <1>1, <1>3, AsideKeeps
<1>5. \A j \in 1..Len(jobs) : ~ToDo(j)
  BY <1>1 DEF BatchInv, OneToDo
<1>6. OneToDo'
  BY <1>1, <1>3, <1>4, <1>5 DEF OneToDo, PressAt
<1>7. InHand' /\ SentKnown' /\ RowSentOnce'
  BY <1>1 DEF BatchInv, InHand, KnowsOf, Busy, SentKnown, KnownAsSent, Noting, RowSentOnce
<1> QED BY <1>4, <1>6, <1>7 DEF BatchInv

(* A press that writes the batch finds nobody at work on it.               *)
LEMMA PressWrites ==
  ASSUME Noted, BatchInv, NEW p \in Presses, Create(p) \/ WriteAgain(p)
  PROVE  BatchInv'
<1> PICK x \in Press : x = [at |-> "queueing"]
  BY DEF Press
<1>1. /\ jobs' = jobs /\ workers' = workers /\ minute' = minute /\ sends' = sends
      /\ PressMoves(p, x) /\ batch.results \in [Rows -> Results]
  BY DEF Create, WriteAgain, BatchInv, BatchTypes, Batch
<1>2. batch.status # "sending" /\ batch'.status = "sending"
  BY DEF Create, WriteAgain, BatchInv, OneToDo
<1>3. /\ batch' \in Batch
      /\ \A r \in Rows : batch.results[r] = "sent" => batch'.results[r] = "sent"
  <2>1. CASE Create(p)
    <3>1. NoResults \in [Rows -> Results]
      BY DEF NoResults, Results
    <3>2. \A r \in Rows : batch.results[r] # "sent"
      BY <2>1 DEF Create, BatchInv, OneToDo, NoResults
    <3> QED BY <2>1, <3>1, <3>2 DEF Create, Batch
  <2>2. CASE WriteAgain(p)
    <3>1. batch'.results = Kept(batch.results) /\ Kept(batch.results) \in [Rows -> Results]
      BY <1>1, <2>2, KeptIs DEF WriteAgain, BatchInv, OneToDo
    <3>2. batch' \in Batch
      BY <2>2, <3>1 DEF WriteAgain, Batch
    <3> QED BY <1>1, <3>1, <3>2, KeptIs
  <2> QED BY <2>1, <2>2
<1>4. presses' \in [Presses -> Press] /\ (\A q \in Presses : q = p /\ presses'[q] = x)
  BY <1>1, PressIs
<1>5. BatchTypes' /\ LeaseHeld' /\ (\A j \in 1..Len(jobs) : ToDo(j)' <=> ToDo(j))
  BY <1>1, <1>3, <1>4, AsideKeeps
<1>6. \A j \in 1..Len(jobs) : ~ToDo(j)
  BY <1>2 DEF BatchInv, OneToDo
<1>7. OneToDo'
  BY <1>1, <1>2, <1>4, <1>5, <1>6 DEF OneToDo, PressAt
<1>8. \A w \in Workers : Busy(w) => workers[w].at = "ended"
  BY <1>2, NobodyActs
<1>9. InHand'
  BY <1>1, <1>8 DEF InHand, KnowsOf, Busy
<1>10. ASSUME NEW r \in Rows, KnownAsSent(r) PROVE KnownAsSent(r)'
  <2>1. batch.results[r] = "sent"
    BY <1>8, <1>10 DEF KnownAsSent, Noting
  <2> QED BY <1>3, <2>1 DEF KnownAsSent
<1>11. SentKnown' /\ RowSentOnce'
  BY <1>1, <1>10, SendIs, StillKnown
<1> QED BY <1>5, <1>7, <1>9, <1>11 DEF BatchInv

LEMMA EnqueueKeeps ==
  ASSUME Noted, BatchInv, NEW p \in Presses, Enqueue(p)
  PROVE  BatchInv'
<1>1. minute \in Nat /\ JobsSeen /\ PressAt(p, "queueing") /\ batch.status = "sending"
  BY DEF BatchInv, BatchTypes, OneToDo, Enqueue
<1> PICK c : c = NewJob(minute)
  OBVIOUS
<1>2. Shaped(c) /\ jobs' = Append(jobs, c)
  BY <1>1 DEF Enqueue, Shaped, NewJob, Unlocked
<1>3. /\ JobsSeen' /\ Len(jobs) \in Nat /\ Len(jobs') = Len(jobs) + 1
      /\ \A i \in 1..Len(jobs) : jobs'[i] = jobs[i]
  BY <1>1, <1>2, JobQueued
<1> PICK idle \in Press : idle = [at |-> "idle"]
  BY DEF Press
<1>4. batch' = batch /\ workers' = workers /\ sends' = sends /\ minute' = minute /\ PressMoves(p, idle)
  BY DEF Enqueue
<1>4a. presses' \in [Presses -> Press] /\ (\A q \in Presses : q = p /\ presses'[q] = idle)
  BY <1>4, PressIs
<1>5. BatchTypes'
  BY <1>3, <1>4, <1>4a DEF BatchInv, BatchTypes
<1>6. LeaseHeld'
  <2>1. ASSUME NEW x \in Workers, Busy(x)'
        PROVE  Busy(x) /\ workers'[x].job = workers[x].job /\ jobs'[workers[x].job] = jobs[workers[x].job]
    BY <1>3, <1>4, <2>1, BusyIs DEF Busy
  <2> QED BY <1>3, <1>4, <2>1, LeasesKept
<1>7. ASSUME NEW i \in 1..Len(jobs'), ToDo(i)' PROVE i = Len(jobs) + 1
  <2>1. ASSUME i \in 1..Len(jobs) PROVE FALSE
    <3>1. ToDo(i)
      BY <1>3, <1>4, <1>7, <2>1 DEF ToDo, Finishing, Busy
    <3> QED BY <1>1, <2>1, <3>1 DEF BatchInv, OneToDo, NoPress
  <2> QED BY <1>3, <2>1
<1>8. OneToDo'
  BY <1>1, <1>4, <1>4a, <1>7 DEF OneToDo, NoPress, PressAt
<1>9. InHand' /\ SentKnown' /\ RowSentOnce'
  BY <1>4 DEF BatchInv, InHand, KnowsOf, Busy, SentKnown, KnownAsSent, Noting, RowSentOnce
<1> QED BY <1>5, <1>6, <1>8, <1>9 DEF BatchInv

LEMMA PressStopsKeeps ==
  ASSUME Noted, BatchInv, NEW p \in Presses, PressStops(p)
  PROVE  BatchInv'
<1> PICK x \in Press : x.at \in {"idle", "unqueued"} /\ PressMoves(p, x)
  BY DEF PressStops, Press
<1>1. /\ jobs' = jobs /\ workers' = workers /\ minute' = minute /\ sends' = sends
      /\ batch' = batch /\ batch \in Batch
  BY DEF PressStops, BatchInv, BatchTypes
<1>2. presses' \in [Presses -> Press] /\ (\A q \in Presses : q = p /\ presses'[q] = x)
  BY PressIs
<1>3. BatchTypes' /\ LeaseHeld' /\ (\A j \in 1..Len(jobs) : ToDo(j)' <=> ToDo(j))
  BY <1>1, <1>2, AsideKeeps
<1>4. OneToDo'
  BY <1>1, <1>2, <1>3 DEF BatchInv, OneToDo, NoPress, PressAt
<1>5. InHand' /\ SentKnown' /\ RowSentOnce'
  BY <1>1 DEF BatchInv, InHand, KnowsOf, Busy, SentKnown, KnownAsSent, Noting, RowSentOnce
<1> QED BY <1>3, <1>4, <1>5 DEF BatchInv

(* What leaves all but the payments alone.                                 *)
LEMMA SendsAside ==
  ASSUME BatchInv, UNCHANGED <<batch, jobs, workers, presses, minute>>, sends' \in Seq(Send)
  PROVE  BatchTypes' /\ LeaseHeld' /\ OneToDo' /\ InHand'
<1>1. BatchTypes'
  BY DEF BatchInv, BatchTypes, JobsSeen
<1>2. LeaseHeld'
  BY DEF BatchInv, LeaseHeld, Busy
<1>3. OneToDo'
  BY DEF BatchInv, OneToDo, ToDo, Finishing, Busy, NoPress, PressAt
<1>4. InHand'
  BY DEF BatchInv, InHand, KnowsOf, Busy
<1> QED BY <1>1, <1>2, <1>3, <1>4

LEMMA ByHandKeeps ==
  ASSUME BatchInv, ByHand
  PROVE  BatchInv'
<1>1. PICK r \in Rows : sends' = Written(r, FALSE, TRUE)
  BY DEF ByHand
<1>2. PICK x \in Send : x = [row |-> r, at |-> minute, ofBatch |-> FALSE, standing |-> TRUE]
  BY DEF Send, BatchInv, BatchTypes
<1>3. sends \in Seq(Send) /\ sends' = Append(sends, x)
  BY <1>1, <1>2 DEF Written, BatchInv, BatchTypes
<1>4. /\ sends' \in Seq(Send) /\ Len(sends) \in Nat /\ Len(sends') = Len(sends) + 1
      /\ ~sends'[Len(sends) + 1].ofBatch /\ \A k \in 1..Len(sends) : sends'[k] = sends[k]
  BY <1>2, <1>3
<1>5. UNCHANGED <<batch, jobs, workers, presses, minute>>
  BY DEF ByHand
<1>6. BatchTypes' /\ LeaseHeld' /\ OneToDo' /\ InHand'
  BY <1>4, <1>5, SendsAside
<1>7. SentKnown'
  BY <1>4, <1>5 DEF BatchInv, SentKnown, KnownAsSent, Noting, Busy
<1>8. RowSentOnce'
  BY <1>4 DEF BatchInv, RowSentOnce
<1> QED BY <1>6, <1>7, <1>8 DEF BatchInv

LEMMA FallsKeeps ==
  ASSUME BatchInv, NEW k \in 1..Len(sends), Falls(k)
  PROVE  BatchInv'
<1>1. sends \in Seq(Send) /\ Len(sends) \in Nat
  BY DEF BatchInv, BatchTypes
<1>2. sends[k] \in Send
  BY <1>1
<1> PICK x \in Send : x = [sends[k] EXCEPT !.standing = FALSE]
  BY <1>2 DEF Send
<1>3. ~x.standing /\ sends' = [sends EXCEPT ![k] = x]
  BY <1>2 DEF Send, Falls
<1>4. /\ sends' \in Seq(Send) /\ Len(sends') = Len(sends)
      /\ sends'[k] = x /\ \A l \in 1..Len(sends) : l # k => sends'[l] = sends[l]
  <2> PICK n \in Nat : n = Len(sends)
    BY <1>1
  <2>1. sends \in [1..n -> Send]
    BY <1>1
  <2>2. PICK f \in [1..n -> Send] : f = [sends EXCEPT ![k] = x]
    BY <2>1
  <2>3. f \in Seq(Send) /\ Len(f) = n
    OBVIOUS
  <2>4. f[k] = x /\ \A l \in 1..n : l # k => f[l] = sends[l]
    BY <2>1, <2>2
  <2> QED BY <1>3, <2>2, <2>3, <2>4
<1>5. UNCHANGED <<batch, jobs, workers, presses, minute>>
  BY DEF Falls
<1>6. BatchTypes' /\ LeaseHeld' /\ OneToDo' /\ InHand'
  BY <1>4, <1>5, SendsAside
<1>7. SentKnown'
  BY <1>3, <1>4, <1>5 DEF BatchInv, SentKnown, KnownAsSent, Noting, Busy
<1>8. RowSentOnce'
  BY <1>3, <1>4 DEF BatchInv, RowSentOnce
<1> QED BY <1>6, <1>7, <1>8 DEF BatchInv

LEMMA MinuteKeeps ==
  ASSUME Noted, BatchInv, Minute
  PROVE  BatchInv'
<1>1. UNCHANGED <<batch, jobs, workers, presses, sends>> /\ minute' = minute + 1
  BY DEF Minute
<1>2. \A w \in Workers : Busy(w) => minute < jobs[workers[w].job].lockedAt + Lease
  BY DEF Minute, Noted
<1>3. BatchTypes' /\ OneToDo' /\ InHand'
  BY <1>1 DEF BatchInv, BatchTypes, JobsSeen, OneToDo, InHand, KnowsOf, ToDo, Finishing, Busy, NoPress,
              PressAt
<1>4. ASSUME NEW w \in Workers, Busy(w)
      PROVE  Held(jobs[workers[w].job], minute')
  <2>1. Held(jobs[workers[w].job], minute)
    BY <1>4 DEF BatchInv, LeaseHeld
  <2>2. jobs[workers[w].job].lockedAt \in Nat /\ minute \in Nat /\ Lease \in Nat
    BY <1>4, BusyIs, JobAssumption DEF Shaped, BatchInv, BatchTypes
  <2> QED BY <1>1, <1>2, <1>4, <2>1, <2>2 DEF Held
<1>5. LeaseHeld'
  BY <1>1, <1>4 DEF BatchInv, LeaseHeld, Busy
<1>6. SentKnown' /\ RowSentOnce'
  BY <1>1 DEF BatchInv, SentKnown, KnownAsSent, Noting, Busy, RowSentOnce
<1> QED BY <1>3, <1>5, <1>6 DEF BatchInv

LEMMA BatchInvInit == BatchInit => BatchInv
<1> SUFFICES ASSUME BatchInit PROVE BatchInv
  OBVIOUS
<1>1. NoResults \in [Rows -> Results] /\ \A w \in Workers : ~Busy(w)
  BY DEF NoResults, Results, BatchInit, Busy
<1>2. jobs = <<>> /\ Len(jobs) = 0 /\ Len(sends) = 0
  BY DEF BatchInit
<1>3. JobsSeen
  BY <1>2 DEF JobsSeen, Seen
<1>4. BatchTypes
  BY <1>1, <1>3 DEF BatchInit, BatchTypes, Batch, Press
<1>5. LeaseHeld /\ OneToDo /\ InHand
  BY <1>1, <1>2 DEF BatchInit, LeaseHeld, OneToDo, InHand, PressAt
<1>6. SentKnown /\ RowSentOnce
  BY <1>2 DEF SentKnown, RowSentOnce
<1> QED BY <1>4, <1>5, <1>6 DEF BatchInv

LEMMA BatchInvStep == Noted /\ BatchInv /\ [BatchNext]_batchVars => BatchInv'
<1> SUFFICES ASSUME Noted, BatchInv, [BatchNext]_batchVars PROVE BatchInv'
  OBVIOUS
<1>1. ASSUME NEW w \in Workers, WorkerStep(w) PROVE BatchInv'
  <2>1. ~SendThrewLate(w)
    BY DEF SendThrewLate, Noted
  <2> QED BY <1>1, <2>1, JobClaimKeeps, NothingToDoKeeps, LoadKeeps, SendAnsweredKeeps,
             SendRefusedKeeps, NoteKeeps, EndKeeps, CompleteKeeps DEF WorkerStep
<1>2. ASSUME NEW w \in Workers, Throw(w) \/ Crash(w) PROVE BatchInv'
  BY <1>2, FaultKeeps
<1>3. ASSUME NEW p \in Presses, Create(p) \/ ReadAgain(p) \/ PressStep(p) \/ PressStops(p)
      PROVE  BatchInv'
  BY <1>3, PressWrites, ReadAgainKeeps, EnqueueKeeps, PressStopsKeeps DEF PressStep
<1>4. CASE ByHand \/ Minute
  BY <1>4, ByHandKeeps, MinuteKeeps
<1>5. CASE CloseOrg \/ UNCHANGED batchVars
  <2>1. UNCHANGED <<batch, jobs, workers, presses, sends, minute>>
    BY <1>5 DEF CloseOrg, batchVars
  <2>2. BatchTypes' /\ LeaseHeld' /\ OneToDo' /\ InHand'
    BY <2>1, SendsAside DEF BatchInv, BatchTypes
  <2> QED BY <2>1, <2>2 DEF BatchInv, SentKnown, KnownAsSent, Noting, Busy, RowSentOnce
<1>6. ASSUME NEW k \in 1..Len(sends), Falls(k) PROVE BatchInv'
  BY <1>6, FallsKeeps
<1> QED BY <1>1, <1>2, <1>3, <1>4, <1>5, <1>6 DEF BatchNext

(* A row has at most one payment of the batch that stands (RowSentOnce),   *)
(* for any number of rows, workers, jobs and Try agains that come one      *)
(* after another, whatever throws, is taken over or sent by hand beside    *)
(* it, as long as the note follows the send, no send throws after it wrote *)
(* its request and no worker outlasts its lease (money_out/bulk.ts,        *)
(* db/jobs.ts).  No duplicate window is needed for it.  Two Try agains at  *)
(* once, and a send that throws late, do pay a row twice.                  *)
THEOREM RowSentOnceAlways ==
  ASSUME Noted
  PROVE  BatchSpec => []RowSentOnce
<1>1. BatchInv => RowSentOnce
  BY DEF BatchInv
<1>2. BatchInv /\ [BatchNext]_batchVars => BatchInv'
  BY BatchInvStep
<1> QED BY <1>1, <1>2, BatchInvInit, PTL DEF BatchSpec

(* A row that reads as refused, or as a duplicate, has no payment of the   *)
(* batch standing (FailedRowNotSent), so pressing Try again cannot pay it  *)
(* twice, under the same conditions (money_out/bulk.ts).                   *)
THEOREM FailedRowNotSentAlways ==
  ASSUME Noted
  PROVE  BatchSpec => []FailedRowNotSent
<1>1. BatchInv => FailedRowNotSent
  <2> SUFFICES ASSUME BatchInv, NEW r \in Rows, batch.results[r] \in {"refused", "duplicate"},
                      NEW k \in 1..Len(sends), sends[k].ofBatch, sends[k].standing, sends[k].row = r
               PROVE  FALSE
    BY DEF FailedRowNotSent
  <2>1. PICK w \in Workers : Noting(w, r)
    BY DEF BatchInv, SentKnown, KnownAsSent
  <2>2. batch.results[r] = "none"
    BY <2>1, BusyIs DEF Noting, KnowsOf
  <2> QED BY <2>2
<1>2. BatchInv /\ [BatchNext]_batchVars => BatchInv'
  BY BatchInvStep
<1> QED BY <1>1, <1>2, BatchInvInit, PTL DEF BatchSpec

(***************************************************************************)
(* A batch that reads as being sent has a job, whatever Around names and   *)
(* however many press at once.  What is left to its jobs has its last job  *)
(* open, or given up, and no worker that has only to complete it.          *)
(***************************************************************************)

LeftToJobs ==
  /\ batch.status = "sending" /\ ~orgClosed
  /\ \A p \in Presses : ~PressAt(p, "queueing") /\ ~PressAt(p, "unqueued")

LastIsOpen ==
  LeftToJobs =>
    /\ Len(jobs) > 0
    /\ ~jobs[Len(jobs)].done \/ jobs[Len(jobs)].attempts >= MaxAttempts
    /\ \A w \in Workers : Busy(w) /\ workers[w].at = "ended" => workers[w].job # Len(jobs)

HandTypes ==
  /\ batch \in Batch /\ JobsSeen
  /\ workers \in [Workers -> Worker \cup {IdleWorker}]
  /\ \A w \in Workers : Busy(w) => workers[w].job \in 1..Len(jobs)
  /\ presses \in [Presses -> Press]
  /\ orgClosed \in BOOLEAN /\ minute \in Nat

HandInv == HandTypes /\ LastIsOpen

LEMMA InHandIs ==
  ASSUME HandInv, NEW w \in Workers, Busy(w)
  PROVE  /\ workers[w] \in Worker /\ workers[w].job \in 1..Len(jobs)
         /\ Shaped(jobs[workers[w].job]) /\ Len(jobs) \in Nat
BY DEF HandInv, HandTypes, JobsSeen, Seen, Busy

(* A worker goes on with its job, and may end the batch.                   *)
LEMMA WorkGoesOn ==
  ASSUME HandInv, NEW w \in Workers, Busy(w), NEW x \in Worker, x.job = workers[w].job,
         workers' = [workers EXCEPT ![w] = x],
         UNCHANGED <<jobs, presses, orgClosed, minute>>, batch' \in Batch,
         \/ batch'.status = batch.status /\ x.at # "ended"
         \/ batch'.status # "sending"
  PROVE  HandInv'
<1>1. /\ workers' \in [Workers -> Worker \cup {IdleWorker}] /\ workers'[w] = x
      /\ \A y \in Workers : y # w => workers'[y] = workers[y]
  BY DEF HandInv, HandTypes
<1>2. \A y \in Workers : Busy(y)' => Busy(y) /\ workers'[y].job = workers[y].job
  BY <1>1 DEF Busy
<1>3. HandTypes'
  BY <1>1, <1>2 DEF HandInv, HandTypes, JobsSeen
<1>4. LastIsOpen'
  <2> SUFFICES ASSUME LeftToJobs' PROVE LastIsOpen'
    BY DEF LastIsOpen
  <2>1. x.at # "ended" /\ LeftToJobs
    BY DEF LeftToJobs, PressAt
  <2>2. \A y \in Workers : Busy(y)' /\ workers'[y].at = "ended" =>
          Busy(y) /\ workers[y].at = "ended" /\ workers'[y].job = workers[y].job
    BY <1>1, <1>2, <2>1
  <2> QED BY <2>1, <2>2 DEF HandInv, LastIsOpen
<1> QED BY <1>3, <1>4 DEF HandInv

(* A worker writes its job and lets it go.                                 *)
LEMMA WorkLetsGo ==
  ASSUME HandInv, NEW w \in Workers, Busy(w), NEW x, Shaped(x),
         workers' = [workers EXCEPT ![w] = IdleWorker],
         jobs' = [jobs EXCEPT ![workers[w].job] = x],
         UNCHANGED <<batch, presses, orgClosed, minute>>,
         LeftToJobs /\ workers[w].job = Len(jobs) => ~x.done \/ x.attempts >= MaxAttempts
  PROVE  HandInv'
<1> PICK j \in 1..Len(jobs) : j = workers[w].job
  BY InHandIs
<1>1. /\ workers' \in [Workers -> Worker \cup {IdleWorker}] /\ ~Busy(w)'
      /\ \A y \in Workers : y # w => workers'[y] = workers[y]
  BY DEF HandInv, HandTypes, Busy
<1>2. /\ JobsSeen' /\ Len(jobs') = Len(jobs) /\ jobs'[j] = x /\ Len(jobs) \in Nat
      /\ \A i \in 1..Len(jobs) : i # j => jobs'[i] = jobs[i]
  BY OneJobMoves, InHandIs DEF HandInv, HandTypes
<1>3. \A y \in Workers : Busy(y)' => Busy(y) /\ workers'[y] = workers[y]
  BY <1>1 DEF Busy
<1>4. HandTypes'
  BY <1>1, <1>2, <1>3 DEF HandInv, HandTypes
<1>5. LastIsOpen'
  <2> SUFFICES ASSUME LeftToJobs' PROVE LastIsOpen'
    BY DEF LastIsOpen
  <2>1. LeftToJobs
    BY DEF LeftToJobs, PressAt
  <2>2. /\ Len(jobs') > 0
        /\ ~jobs'[Len(jobs')].done \/ jobs'[Len(jobs')].attempts >= MaxAttempts
    BY <1>2, <2>1 DEF HandInv, LastIsOpen
  <2> QED BY <1>2, <1>3, <2>1, <2>2 DEF HandInv, LastIsOpen
<1> QED BY <1>4, <1>5 DEF HandInv

(* What leaves the jobs and the workers alone leaves no more to the jobs.  *)
LEMMA NoMoreLeft ==
  ASSUME HandInv, UNCHANGED <<jobs, workers>>, batch' \in Batch,
         presses' \in [Presses -> Press], orgClosed' \in BOOLEAN, minute' \in Nat,
         LeftToJobs' => LeftToJobs
  PROVE  HandInv'
<1>1. HandTypes'
  BY DEF HandInv, HandTypes, JobsSeen, Busy
<1>2. LastIsOpen'
  BY DEF HandInv, LastIsOpen, Busy
<1> QED BY <1>1, <1>2 DEF HandInv

LEMMA WorkKeeps ==
  ASSUME HandInv, NEW w \in Workers,
         \/ Load(w) \/ SendAnswered(w) \/ SendRefused(w) \/ SendThrewLate(w)
         \/ Note(w) \/ End(w)
  PROVE  HandInv'
<1>1. Busy(w) /\ UNCHANGED <<jobs, presses, orgClosed, minute>>
  BY DEF Load, SendAnswered, SendRefused, SendThrewLate, Note, End, Sending
<1>2. workers[w] \in Worker /\ batch \in Batch /\ batch.results \in [Rows -> Results]
  BY <1>1, InHandIs DEF HandInv, HandTypes, Batch
<1>3. CASE Load(w)
  <2> PICK n \in 0..RowCount : n = NextRow(batch.results, 0)
    BY NextRowIs
  <2> PICK x \in Worker : x = [workers[w] EXCEPT !.at = "sending", !.results = batch.results, !.row = n]
    BY <1>2 DEF Worker
  <2>1. x.at # "ended" /\ x.job = workers[w].job
    BY <1>2 DEF Worker
  <2>2. workers' = [workers EXCEPT ![w] = x] /\ batch' = batch
    BY <1>3 DEF Load, Loaded
  <2> QED BY <1>1, <1>2, <2>1, <2>2, WorkGoesOn
<1>4. CASE SendAnswered(w) \/ SendRefused(w) \/ SendThrewLate(w)
  <2> PICK result \in Results : Knows(w, result) /\ batch' = batch
    BY <1>4 DEF SendAnswered, SendRefused, SendThrewLate, Results
  <2>1. Sending(w)
    BY <1>4 DEF SendAnswered, SendRefused, SendThrewLate
  <2> PICK f \in [Rows -> Results] : f = [workers[w].results EXCEPT ![workers[w].row] = result]
    BY <1>2 DEF Worker
  <2> PICK x \in Worker : x = [workers[w] EXCEPT !.at = "noting", !.results = f]
    BY <1>2 DEF Worker
  <2>2. x.at # "ended" /\ x.job = workers[w].job
    BY <1>2 DEF Worker
  <2>3. workers' = [workers EXCEPT ![w] = x]
    BY DEF Knows
  <2> QED BY <1>1, <1>2, <2>2, <2>3, WorkGoesOn
<1>5. CASE Note(w)
  <2> PICK n \in 0..RowCount : n = NextRow(workers[w].results, workers[w].row)
    BY <1>2, NextRowIs DEF Worker
  <2> PICK x \in Worker : x = [workers[w] EXCEPT !.at = "sending", !.row = n]
    BY <1>2 DEF Worker
  <2>1. x.at # "ended" /\ x.job = workers[w].job
    BY <1>2 DEF Worker
  <2>2. workers' = [workers EXCEPT ![w] = x]
    BY <1>5 DEF Note
  <2>3. batch' \in Batch /\ batch'.status = batch.status
    BY <1>2, <1>5 DEF Note, Batch, Worker
  <2> QED BY <1>1, <2>1, <2>2, <2>3, WorkGoesOn
<1>6. CASE End(w)
  <2> PICK x \in Worker : x = [workers[w] EXCEPT !.at = "ended"]
    BY <1>2 DEF Worker
  <2>1. x.job = workers[w].job
    BY <1>2 DEF Worker
  <2>2. workers' = [workers EXCEPT ![w] = x]
    BY <1>6 DEF End
  <2>3. batch' \in Batch /\ batch'.status # "sending"
    BY <1>2, <1>6 DEF End, Ended, Batch
  <2> QED BY <1>1, <2>1, <2>2, <2>3, WorkGoesOn
<1> QED BY <1>3, <1>4, <1>5, <1>6

(* A job that is over was not the one the batch is left to, or was given   *)
(* up.                                                                     *)
LEMMA OverKeeps ==
  ASSUME HandInv, NEW w \in Workers, NothingToDo(w) \/ Complete(w) \/ Throw(w) \/ Crash(w)
  PROVE  HandInv'
<1>1. /\ Busy(w) /\ workers' = [workers EXCEPT ![w] = IdleWorker]
      /\ UNCHANGED <<batch, presses, orgClosed, minute>>
  BY DEF NothingToDo, Complete, Throw, Crash, MayFault
<1>2. workers[w].job \in 1..Len(jobs) /\ Shaped(jobs[workers[w].job]) /\ minute \in Nat
  BY <1>1, InHandIs DEF HandInv, HandTypes
<1> DEFINE job == jobs[workers[w].job]
<1>3. LeftToJobs /\ workers[w].job = Len(jobs) => ~job.done \/ job.attempts >= MaxAttempts
  BY DEF HandInv, LastIsOpen
<1>4. CASE NothingToDo(w) \/ Complete(w)
  <2> PICK x : x = Completed(job)
    OBVIOUS
  <2>1. Shaped(x) /\ jobs' = [jobs EXCEPT ![workers[w].job] = x]
    BY <1>2, <1>4, ShapedMoves DEF NothingToDo, Complete
  <2>2. ~(LeftToJobs /\ workers[w].job = Len(jobs))
    BY <1>1, <1>4 DEF NothingToDo, Complete, LeftToJobs, HandInv, LastIsOpen
  <2> QED BY <1>1, <2>1, <2>2, WorkLetsGo
<1>5. CASE Throw(w)
  <2> PICK x : x = Failed(job, minute)
    OBVIOUS
  <2>1. Shaped(x) /\ jobs' = [jobs EXCEPT ![workers[w].job] = x]
    BY <1>2, <1>5, ShapedMoves DEF Throw
  <2>2. x.attempts = job.attempts /\ (job.attempts >= MaxAttempts \/ x.done = job.done)
    BY <1>2 DEF Failed, Completed, Shaped
  <2>3. LeftToJobs /\ workers[w].job = Len(jobs) => ~x.done \/ x.attempts >= MaxAttempts
    BY <1>3, <2>2
  <2> QED BY <1>1, <2>1, <2>3, WorkLetsGo
<1>6. CASE Crash(w)
  <2>1. jobs \in Seq({jobs[i] : i \in DOMAIN jobs})
    BY DEF HandInv, HandTypes, JobsSeen, Seen
  <2>2. jobs' = [jobs EXCEPT ![workers[w].job] = job]
    BY <1>2, <1>6, <2>1 DEF Crash
  <2> QED BY <1>1, <1>2, <1>3, <2>2, WorkLetsGo
<1> QED BY <1>4, <1>5, <1>6

LEMMA ClaimLeaves ==
  ASSUME HandInv, NEW w \in Workers, NEW j \in 1..Len(jobs), Claim(w, j)
  PROVE  HandInv'
<1>1. Shaped(jobs[j]) /\ minute \in Nat /\ JobsSeen /\ ~jobs[j].done /\ Len(jobs) \in Nat
  BY DEF HandInv, HandTypes, JobsSeen, Seen, Claim, Claimable
<1> PICK c : c = Claimed(jobs[j], minute)
  OBVIOUS
<1>2. Shaped(c) /\ c.done = jobs[j].done /\ jobs' = [jobs EXCEPT ![j] = c]
  BY <1>1, ShapedMoves DEF Claim
<1>3. /\ JobsSeen' /\ Len(jobs') = Len(jobs) /\ jobs'[j] = c
      /\ \A i \in 1..Len(jobs) : i # j => jobs'[i] = jobs[i]
  BY <1>1, <1>2, OneJobMoves
<1>4. NoResults \in [Rows -> Results] /\ j \in Nat /\ 0 \in 0..RowCount
  BY <1>1, BatchAssumption DEF NoResults, Results
<1> PICK x \in Worker : x = [at |-> "loading", job |-> j, results |-> NoResults, row |-> 0]
  BY <1>4 DEF Worker
<1>5. /\ workers' \in [Workers -> Worker \cup {IdleWorker}] /\ workers'[w] = x
      /\ x.job = j /\ x.at = "loading"
      /\ \A y \in Workers : y # w => workers'[y] = workers[y]
  BY DEF Claim, HandInv, HandTypes
<1>6. UNCHANGED <<batch, presses, orgClosed, minute>>
  BY DEF Claim
<1>7. \A y \in Workers : Busy(y)' => workers'[y].job \in 1..Len(jobs)
  BY <1>5 DEF HandInv, HandTypes, Busy
<1>8. HandTypes'
  BY <1>3, <1>5, <1>6, <1>7 DEF HandInv, HandTypes
<1>9. LastIsOpen'
  <2> SUFFICES ASSUME LeftToJobs' PROVE LastIsOpen'
    BY DEF LastIsOpen
  <2>1. LeftToJobs
    BY <1>6 DEF LeftToJobs, PressAt
  <2>2. /\ Len(jobs') > 0
        /\ ~jobs'[Len(jobs')].done \/ jobs'[Len(jobs')].attempts >= MaxAttempts
    BY <1>1, <1>2, <1>3, <2>1 DEF HandInv, LastIsOpen
  <2>3. \A y \in Workers : Busy(y)' /\ workers'[y].at = "ended" =>
          Busy(y) /\ workers'[y] = workers[y]
    BY <1>5 DEF Busy
  <2> QED BY <1>3, <2>1, <2>2, <2>3 DEF HandInv, LastIsOpen
<1> QED BY <1>8, <1>9 DEF HandInv

(* The job a press queues is the last one, and no worker has it yet.       *)
LEMMA QueuedIsOpen ==
  ASSUME HandInv, NEW p \in Presses, Enqueue(p)
  PROVE  HandInv'
<1>1. minute \in Nat /\ JobsSeen
  BY DEF HandInv, HandTypes
<1> PICK c : c = NewJob(minute)
  OBVIOUS
<1>2. Shaped(c) /\ ~c.done /\ jobs' = Append(jobs, c)
  BY <1>1 DEF Enqueue, Shaped, NewJob, Unlocked
<1>3. /\ JobsSeen' /\ Len(jobs) \in Nat /\ Len(jobs') = Len(jobs) + 1
      /\ \A i \in 1..Len(jobs) : jobs'[i] = jobs[i]
  BY <1>1, <1>2, JobQueued
<1>4. jobs'[Len(jobs')] = c
  <2> DEFINE T == {jobs[i] : i \in DOMAIN jobs} \cup {c}
  <2>1. jobs \in Seq(T) /\ c \in T
    BY <1>1 DEF JobsSeen, Seen
  <2> HIDE DEF T
  <2> QED BY <1>2, <1>3, <2>1
<1>5. UNCHANGED <<batch, workers, orgClosed, minute>> /\ presses' \in [Presses -> Press]
  BY DEF Enqueue, PressMoves, HandInv, HandTypes, Press
<1>6. \A w \in Workers : Busy(w)' => workers'[w].job \in 1..Len(jobs)
  BY <1>5 DEF HandInv, HandTypes, Busy
<1>7. HandTypes'
  BY <1>3, <1>5, <1>6 DEF HandInv, HandTypes
<1>8. LastIsOpen'
  BY <1>2, <1>3, <1>4, <1>6 DEF LastIsOpen
<1> QED BY <1>7, <1>8 DEF HandInv

LEMMA PressesLeave ==
  ASSUME HandInv, NEW p \in Presses,
         Create(p) \/ ReadAgain(p) \/ WriteAgain(p) \/ PressStops(p)
  PROVE  HandInv'
<1>1. /\ UNCHANGED <<jobs, workers, orgClosed, minute>>
      /\ batch \in Batch /\ batch.results \in [Rows -> Results]
      /\ presses \in [Presses -> Press] /\ orgClosed \in BOOLEAN /\ minute \in Nat
  BY DEF Create, ReadAgain, WriteAgain, PressStops, HandInv, HandTypes, Batch
<1>2. CASE Create(p) \/ WriteAgain(p)
  <2>1. NoResults \in [Rows -> Results]
    BY DEF NoResults, Results
  <2>2. PressAt(p, "writing") => presses[p].results \in [Rows -> Results]
    BY <1>1 DEF PressAt, Press
  <2>3. batch' \in Batch
    BY <1>2, <2>1, <2>2 DEF Create, WriteAgain, Batch
  <2>4. presses' \in [Presses -> Press] /\ presses'[p].at = "queueing"
    BY <1>1, <1>2 DEF Create, WriteAgain, PressMoves, Press
  <2>5. ~LeftToJobs'
    BY <2>4 DEF LeftToJobs, PressAt
  <2> QED BY <1>1, <2>3, <2>4, <2>5, NoMoreLeft
<1>3. CASE ReadAgain(p)
  <2> PICK x \in Press : x = [at |-> "writing", results |-> Kept(batch.results)]
    BY <1>1, KeptIs DEF Press
  <2>1. presses' \in [Presses -> Press] /\ batch' = batch
    BY <1>1, <1>3 DEF ReadAgain, PressMoves
  <2>2. ~LeftToJobs
    BY <1>3 DEF ReadAgain, LeftToJobs
  <2>3. ~LeftToJobs'
    BY <1>3 DEF ReadAgain, LeftToJobs
  <2> QED BY <1>1, <2>1, <2>3, NoMoreLeft
<1>4. CASE PressStops(p)
  <2> PICK x \in Press :
         /\ PressMoves(p, x) /\ batch' = batch
         /\ x.at = "unqueued" \/ (x.at = "idle" /\ PressAt(p, "writing"))
    BY <1>4 DEF PressStops, Press
  <2>1. /\ presses' \in [Presses -> Press] /\ presses'[p] = x
        /\ \A q \in Presses : q # p => presses'[q] = presses[q]
    BY <1>1 DEF PressMoves
  <2>2. LeftToJobs' => LeftToJobs
    BY <1>1, <2>1 DEF LeftToJobs, PressAt
  <2> QED BY <1>1, <2>1, <2>2, NoMoreLeft
<1> QED BY <1>2, <1>3, <1>4

LEMMA HandInvInit == BatchInit => HandInv
<1> SUFFICES ASSUME BatchInit PROVE HandInv
  OBVIOUS
<1>1. NoResults \in [Rows -> Results] /\ \A w \in Workers : ~Busy(w)
  BY DEF NoResults, Results, BatchInit, Busy
<1>2. JobsSeen
  BY DEF BatchInit, JobsSeen, Seen
<1>3. HandTypes
  BY <1>1, <1>2 DEF BatchInit, HandTypes, Batch, Press
<1>4. LastIsOpen
  BY DEF BatchInit, LastIsOpen, LeftToJobs
<1> QED BY <1>3, <1>4 DEF HandInv

LEMMA HandInvStep == HandInv /\ [BatchNext]_batchVars => HandInv'
<1> SUFFICES ASSUME HandInv, [BatchNext]_batchVars PROVE HandInv'
  OBVIOUS
<1>1. ASSUME NEW w \in Workers, WorkerStep(w) \/ Throw(w) \/ Crash(w) PROVE HandInv'
  BY <1>1, ClaimLeaves, OverKeeps, WorkKeeps DEF WorkerStep
<1>2. ASSUME NEW p \in Presses, Create(p) \/ ReadAgain(p) \/ PressStep(p) \/ PressStops(p)
      PROVE  HandInv'
  BY <1>2, PressesLeave, QueuedIsOpen DEF PressStep
<1>3. CASE ByHand \/ CloseOrg \/ Minute \/ UNCHANGED batchVars
  <2>1. UNCHANGED <<batch, jobs, workers, presses>>
    BY <1>3 DEF ByHand, CloseOrg, Minute, batchVars
  <2>2. minute' \in Nat
    <3>1. minute' = minute \/ minute' = minute + 1
      BY <1>3 DEF ByHand, CloseOrg, Minute, batchVars
    <3> QED BY <3>1 DEF HandInv, HandTypes
  <2>3. orgClosed' = TRUE \/ orgClosed' = orgClosed
    BY <1>3 DEF ByHand, CloseOrg, Minute, batchVars
  <2>4. orgClosed' \in BOOLEAN /\ (orgClosed => orgClosed')
    BY <2>3 DEF HandInv, HandTypes
  <2>5. LeftToJobs' => LeftToJobs
    BY <2>1, <2>4 DEF LeftToJobs, PressAt
  <2> QED BY <2>1, <2>2, <2>4, <2>5, NoMoreLeft DEF HandInv, HandTypes
<1>4. ASSUME NEW k \in 1..Len(sends), Falls(k) PROVE HandInv'
  <2>1. UNCHANGED <<batch, jobs, workers, presses, orgClosed, minute>>
    BY <1>4 DEF Falls
  <2>2. LeftToJobs' => LeftToJobs
    BY <2>1 DEF LeftToJobs, PressAt
  <2> QED BY <2>1, <2>2, NoMoreLeft DEF HandInv, HandTypes
<1> QED BY <1>1, <1>2, <1>3, <1>4 DEF BatchNext

(* A batch that reads as being sent has a job that is to run or a request  *)
(* that queues one, unless its last job was given up after its attempts,   *)
(* or the request stopped before it queued it (SendingHasJob): for any     *)
(* number of workers and of presses at once, with faults wherever they may *)
(* fall, workers that outlast their leases and sends that throw late       *)
(* (money_out/bulk.ts, db/jobs.ts).                                        *)
THEOREM SendingHasJobAlways == BatchSpec => []SendingHasJob
<1>1. HandInv => SendingHasJob
  <2> SUFFICES ASSUME HandInv, LeftToJobs PROVE GivenUp \/ \E j \in 1..Len(jobs) : ~jobs[j].done
    BY DEF SendingHasJob, LeftToJobs, LeftWithoutJob
  <2>1. Len(jobs) \in Nat /\ Len(jobs) > 0
    BY DEF HandInv, HandTypes, JobsSeen, Seen, LastIsOpen
  <2>2. Len(jobs) \in 1..Len(jobs) /\ jobs # <<>>
    BY <2>1
  <2> QED BY <2>2 DEF HandInv, LastIsOpen, GivenUp
<1>2. HandInv /\ [BatchNext]_batchVars => HandInv'
  BY HandInvStep
<1> QED BY <1>1, <1>2, HandInvInit, PTL DEF BatchSpec
=============================================================================
