---------------------------- MODULE OperatorGate ----------------------------
(***************************************************************************)
(* The one in-flight slot of an operator (server/src/money_out/            *)
(* operatorLock.ts, a lease in the cache of db/cache.ts) around the calls  *)
(* of attempt() (money_out/service.ts), and the refusals of Safaricom that *)
(* are counted against the operator (money_out/operatorHealth.ts).         *)
(*                                                                         *)
(* A send picks the operator, waits for its slot, calls, counts a refusal  *)
(* and gives the slot back with its ticket.  The lease of the slot runs    *)
(* out by itself, and a wait does too.  All of it is inside one failure    *)
(* window of ten minutes; times are a unit of the lease and the wait.      *)
(***************************************************************************)
EXTENDS Naturals, FiniteSets

CONSTANTS
  Senders,
  LeaseTime,    \* LOCK_TTL_SECONDS
  WaitTime,     \* LOCK_WAIT_MS
  LastMoment,   \* bound
  MaxStops      \* bound: sends whose server stops

ASSUME GateAssumption == LeaseTime \in Nat \ {0} /\ WaitTime \in Nat

VARIABLES
  verified,   \* whether the operator is
  failures,   \* its consecutive_failures
  wrong,      \* wrong passwords Safaricom has counted
  expired,    \* whether the credential has expired at Safaricom
  slot,       \* the cache row
  senders,    \* what each send has in hand
  moment,
  stops

gateVars == <<verified, failures, wrong, expired, slot, senders, moment, stops>>

Down == 2         \* FAILURES_BEFORE_DOWN
LockedAt == 3     \* "on the THIRD wrong password"

NoSlot == [ticket |-> "none", expiresAt |-> 0]

\* since is when it began to wait, or to hold the slot; ticket whether it has one.
NoSender == [at |-> "idle"]
Sender == [at: {"waiting", "calling", "refused", "answered"}, since: Nat, ticket: BOOLEAN]

GateInit ==
  /\ verified = TRUE /\ failures = 0 /\ wrong = 0 /\ expired = FALSE
  /\ slot = NoSlot
  /\ senders = [s \in Senders |-> NoSender]
  /\ moment = 1 /\ stops = 0

PhaseOf(s) == senders[s].at
Moves(s, phase) == senders' = [senders EXCEPT ![s] = [senders[s] EXCEPT !.at = phase]]
Leaves(s) == senders' = [senders EXCEPT ![s] = NoSender]
Enters(s, phase, ticket) ==
  senders' = [senders EXCEPT ![s] = [at |-> phase, since |-> moment, ticket |-> ticket]]

\* pickOperator and the check that it is still verified: before the slot.
Pick(s) ==
  /\ PhaseOf(s) = "idle" /\ verified
  /\ Enters(s, "waiting", FALSE)
  /\ UNCHANGED <<verified, failures, wrong, expired, slot, moment, stops>>

\* ON CONFLICT ... WHERE expires_at <= now()
SlotFree == slot = NoSlot \/ slot.expiresAt <= moment

TakeSlot(s) ==
  /\ PhaseOf(s) = "waiting" /\ SlotFree
  /\ slot' = [ticket |-> s, expiresAt |-> moment + LeaseTime]
  /\ Enters(s, "calling", TRUE)
  /\ UNCHANGED <<verified, failures, wrong, expired, moment, stops>>

\* The deadline has passed: null, and the send goes out regardless.
GoWithoutSlot(s) ==
  /\ PhaseOf(s) = "waiting" /\ ~SlotFree
  /\ senders[s].since + WaitTime <= moment
  /\ Enters(s, "calling", FALSE)
  /\ UNCHANGED <<verified, failures, wrong, expired, slot, moment, stops>>

\* Safaricom refuses an expired credential and counts it; a good one clears its count.
SafaricomAnswers(s) ==
  /\ PhaseOf(s) = "calling"
  /\ IF expired THEN wrong' = wrong + 1 /\ Moves(s, "refused")
     ELSE wrong' = 0 /\ Moves(s, "answered")
  /\ UNCHANGED <<verified, failures, expired, slot, moment, stops>>

\* failOperatorOnCredentialCode: one statement, under the lock of the operator's row.
CountRefusal(s) ==
  /\ PhaseOf(s) = "refused"
  /\ failures' = failures + 1
  /\ verified' = (verified /\ failures' < Down)
  /\ Moves(s, "answered")
  /\ UNCHANGED <<wrong, expired, slot, moment, stops>>

\* Mutated form: the slot is deleted, whoever holds it.
ReleasedAny(s) == NoSlot

\* DELETE ... WHERE key AND token
Released(s) == IF slot.ticket = s THEN NoSlot ELSE slot

ReleaseSlot(s) ==
  /\ PhaseOf(s) = "answered"
  /\ slot' = IF senders[s].ticket THEN Released(s) ELSE slot
  /\ Leaves(s)
  /\ UNCHANGED <<verified, failures, wrong, expired, moment, stops>>

\* The server stops in the middle of a send; its slot stays taken.
SenderStops(s) ==
  /\ PhaseOf(s) # "idle" /\ stops < MaxStops
  /\ stops' = stops + 1
  /\ Leaves(s)
  /\ UNCHANGED <<verified, failures, wrong, expired, slot, moment>>

Expire ==
  /\ ~expired /\ expired' = TRUE
  /\ UNCHANGED <<verified, failures, wrong, slot, senders, moment, stops>>

\* The owner gives a new credential, and its probe succeeds: the count is cleared.
Reinstate ==
  /\ ~verified /\ expired
  /\ verified' = TRUE /\ expired' = FALSE /\ failures' = 0 /\ wrong' = 0
  /\ UNCHANGED <<slot, senders, moment, stops>>

Moment ==
  /\ moment < LastMoment
  /\ moment' = moment + 1
  /\ UNCHANGED <<verified, failures, wrong, expired, slot, senders, stops>>

SenderStep(s) ==
  \/ Pick(s) \/ TakeSlot(s) \/ GoWithoutSlot(s) \/ SafaricomAnswers(s)
  \/ CountRefusal(s) \/ ReleaseSlot(s)

GateNext ==
  \/ \E s \in Senders : SenderStep(s) \/ SenderStops(s)
  \/ Expire \/ Reinstate \/ Moment

GateSpec == GateInit /\ [][GateNext]_gateVars

(* An operator's slot keeps calls apart: of the sends that hold a lease    *)
(* which has not run out, one is at Safaricom at a time.  A send slower    *)
(* than its lease gives back, when it ends, nothing but its own.           *)
OneInFlight ==
  Cardinality({s \in Senders : PhaseOf(s) = "calling" /\ senders[s].ticket
                                 /\ moment < senders[s].since + LeaseTime}) <= 1

(* "Safaricom locks an operator on the THIRD wrong password": the gate is  *)
(* there so that a burst of sends on an expired credential is stopped by   *)
(* the second refusal, before the third.                                   *)
StoppedBeforeThird == wrong < LockedAt
=============================================================================
