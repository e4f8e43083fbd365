----------------------------- MODULE Reversals ------------------------------
(***************************************************************************)
(* Taking one settled payment back (server/src/money_out/reversal.ts,      *)
(* callbacks/reversal.ts): every request names the same receipt.           *)
(*                                                                         *)
(* A reversal is a row like those of MoneyOut, with what only it has: the  *)
(* receipt may be asked for once while nothing has failed, and Safaricom's *)
(* API takes no identifier of ours, so an answer finds its row only by the *)
(* one the acknowledgement gave.  An attempt is a number; a row knows it,  *)
(* acked, once the acknowledgement of the current one is stored.           *)
(***************************************************************************)
EXTENDS Integers

CONSTANTS
  Reversals,     \* the requests to take the payment back
  LastTry,       \* how many operators one of them may go out under
  LastRestart,   \* how many times the server stops
  Mishaps        \* {"dbError"}: a statement fails once Safaricom has answered;
                 \* {"slow"}: a status answer comes after the row has moved on

ASSUME ReversalsAssumption == LastTry \in Nat \ {0} /\ LastRestart \in Nat

Tries == 1..LastTry

VARIABLES
  reversals,   \* the rows: status, the attempt they are at, whether its ack is stored
  hands,       \* what the request, the release or the failover is about to do for a row
  taken,       \* what became of each attempt at Safaricom
  restarts

reversalVars == <<reversals, hands, taken, restarts>>

Statuses == {"none", "pending", "awaiting_approval", "sent", "unknown",
             "completed", "failed", "rejected"}
Unsettled == {"pending", "sent", "unknown"}

ReversalsInit ==
  /\ reversals = [r \in Reversals |-> [status |-> "none", try |-> 1, acked |-> FALSE]]
  /\ hands = [r \in Reversals |-> "nothing"]
  /\ taken = [a \in Reversals \X Tries |-> "nothing"]
  /\ restarts = 0

(* UPDATE ... WHERE status IN ss: the row that is not there is left alone.  *)
SetWhere(r, ss, s) ==
  reversals' = IF reversals[r].status \in ss THEN [reversals EXCEPT ![r].status = s]
               ELSE reversals

Hand(r, what) == hands' = [hands EXCEPT ![r] = what]

\* A reversal that leaves the receipt free to be asked for again.
OutOfPlayOrUnknown == {"none", "unknown", "failed", "rejected"}

OutOfPlay == {"none", "failed", "rejected"}

(* The lock on the receipt makes the guard and the insert one step.        *)
RequestReversal(r, hold) ==
  /\ reversals[r].status = "none"
  /\ \A e \in Reversals : reversals[e].status \in OutOfPlay
  /\ SetWhere(r, {"none"}, "pending")
  /\ Hand(r, IF hold THEN "hold" ELSE "call")
  /\ UNCHANGED <<taken, restarts>>

(* Somebody who may ask but not approve only asks.                         *)
HoldReversal(r) ==
  /\ hands[r] = "hold"
  /\ SetWhere(r, {"pending"}, "awaiting_approval")
  /\ Hand(r, "nothing")
  /\ UNCHANGED <<taken, restarts>>

ReleaseReversal(r) ==
  /\ reversals[r].status = "awaiting_approval"
  /\ SetWhere(r, {"awaiting_approval"}, "pending")
  /\ Hand(r, "call")
  /\ UNCHANGED <<taken, restarts>>

(* Turned down by somebody else, or after a day.                           *)
TurnDownReversal(r) ==
  /\ SetWhere(r, {"awaiting_approval"}, "rejected")
  /\ reversals' # reversals
  /\ UNCHANGED <<hands, taken, restarts>>
-----------------------------------------------------------------------------
(* The call.  What Safaricom accepted, the caller may still not hear of; a  *)
(* connection error or a 5xx may also be of a call that never arrived.      *)
CallReversal(r) ==
  /\ hands[r] = "call"
  /\ \/ /\ taken' = [taken EXCEPT ![<<r, reversals[r].try>>] = "accepted"]
        /\ (Hand(r, "acked") \/ Hand(r, "unclear"))
     \/ /\ UNCHANGED taken
        /\ (Hand(r, "unclear") \/ Hand(r, "declined") \/ Hand(r, "refused"))
  /\ UNCHANGED <<reversals, restarts>>

RecordReversalAck(r) ==
  /\ hands[r] = "acked"
  /\ reversals' = IF reversals[r].status = "pending"
                  THEN [reversals EXCEPT ![r].status = "sent", ![r].acked = TRUE]
                  ELSE reversals
  /\ Hand(r, "nothing")
  /\ UNCHANGED <<taken, restarts>>

(* Everything that is thrown in the try is taken to be before Safaricom.   *)
RecordNotSent(r) ==
  /\ hands[r] = "declined" \/ (hands[r] = "acked" /\ "dbError" \in Mishaps)
  /\ SetWhere(r, {"pending"}, "failed")
  /\ Hand(r, "nothing")
  /\ UNCHANGED <<taken, restarts>>

RecordMaybeQueued(r) ==
  /\ hands[r] = "unclear"
  /\ SetWhere(r, {"pending"}, "unknown")
  /\ Hand(r, "nothing")
  /\ UNCHANGED <<taken, restarts>>

(* A credential refusal, at once or in a result: with another operator the *)
(* row is moved to it, if it still waits, and sent again.                  *)
NextOperatorTakes(r) ==
  /\ hands[r] = "refused"
  /\ reversals[r].status = "pending" /\ reversals[r].try < LastTry
  /\ reversals' = [reversals EXCEPT ![r].try = @ + 1, ![r].acked = FALSE]
  /\ Hand(r, "call")
  /\ UNCHANGED <<taken, restarts>>

NobodyElseTakes(r) ==
  /\ hands[r] = "refused"
  /\ SetWhere(r, {"pending"}, "failed")
  /\ Hand(r, "nothing")
  /\ UNCHANGED <<taken, restarts>>
-----------------------------------------------------------------------------
(* Safaricom takes the money back, or says that the customer has spent it, *)
(* or that it does not know the operator.                                  *)
SafaricomDecides(a) ==
  /\ taken[a] = "accepted"
  /\ \E how \in {"reversed", "spent", "refused"} : taken' = [taken EXCEPT ![a] = how]
  /\ UNCHANGED <<reversals, hands, restarts>>

Decided(a) == taken[a] \in {"reversed", "spent", "refused"}
Named(r, t) == reversals[r].acked /\ reversals[r].try = t

ReversalResult(r, t) ==
  /\ Decided(<<r, t>>) /\ Named(r, t)
  /\ taken[<<r, t>>] # "refused"
  /\ reversals[r].status \in Unsettled
  /\ SetWhere(r, Unsettled, IF taken[<<r, t>>] = "reversed" THEN "completed" ELSE "failed")
  /\ UNCHANGED <<hands, taken, restarts>>

(* Back in flight, without the identifier that was refused.                *)
ReversalRefused(r, t) ==
  /\ taken[<<r, t>>] = "refused" /\ Named(r, t)
  /\ reversals[r].status \in Unsettled
  /\ reversals' = [reversals EXCEPT ![r].status = "pending", ![r].acked = FALSE]
  /\ Hand(r, "refused")
  /\ UNCHANGED <<taken, restarts>>

(* The queue timed out: that is not a result.                              *)
ReversalTimeout(r, t) ==
  /\ taken[<<r, t>>] # "nothing" /\ Named(r, t)
  /\ SetWhere(r, {"pending", "sent"}, "unknown")
  /\ reversals' # reversals
  /\ UNCHANGED <<hands, taken, restarts>>

(* The sweep of money out: it asks by the identifier the row has, and gives *)
(* up after five answers that say nothing.                                 *)
StatusSays(r, t) ==
  /\ Decided(<<r, t>>)
  /\ (Named(r, t) \/ ("slow" \in Mishaps /\ t < reversals[r].try))
  /\ SetWhere(r, Statuses, IF taken[<<r, t>>] = "reversed" THEN "completed" ELSE "failed")
  /\ reversals' # reversals
  /\ UNCHANGED <<hands, taken, restarts>>

PollsRunOut(r) ==
  /\ hands[r] = "nothing"
  /\ SetWhere(r, Unsettled, "unknown")
  /\ reversals' # reversals
  /\ UNCHANGED <<hands, taken, restarts>>

Restart ==
  /\ restarts < LastRestart
  /\ restarts' = restarts + 1
  /\ hands' = [r \in Reversals |-> "nothing"]
  /\ UNCHANGED <<reversals, taken>>

ReversalsNext ==
  \/ \E r \in Reversals :
       \/ \E hold \in BOOLEAN : RequestReversal(r, hold)
       \/ HoldReversal(r) \/ ReleaseReversal(r) \/ TurnDownReversal(r)
       \/ CallReversal(r) \/ RecordReversalAck(r) \/ RecordNotSent(r) \/ RecordMaybeQueued(r)
       \/ NextOperatorTakes(r) \/ NobodyElseTakes(r) \/ PollsRunOut(r)
       \/ \E t \in Tries :
            \/ SafaricomDecides(<<r, t>>)
            \/ ReversalResult(r, t) \/ ReversalRefused(r, t) \/ ReversalTimeout(r, t)
            \/ StatusSays(r, t)
  \/ Restart

ReversalsSpec == ReversalsInit /\ [][ReversalsNext]_reversalVars
-----------------------------------------------------------------------------
(* "The same receipt must never be reversed twice": of all requests and    *)
(* all their attempts, Safaricom takes the money back for one at most, in  *)
(* whatever order acknowledgements, results, timeouts and restarts fall.   *)
TakenBackOnce ==
  \A a, b \in Reversals \X Tries : taken[a] = "reversed" /\ taken[b] = "reversed" => a = b
=============================================================================
