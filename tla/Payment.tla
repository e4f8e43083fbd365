------------------------------- MODULE Payment -------------------------------
(***************************************************************************)
(* What the studio promises of an outgoing payment, without the machinery: *)
(* it is asked for, it may have to wait for a second person, it is with    *)
(* Safaricom at most until it is settled, and it is paid at most once --   *)
(* never before it was let through, and never after it was called failed.  *)
(***************************************************************************)
CONSTANTS Requests, Attempts

VARIABLES
  stage,   \* where each payment stands, as the owner reads it
  paidBy   \* the attempts that moved money, per payment

Stages == {"none", "waiting", "flight", "completed", "failed", "rejected"}

TypeOK ==
  /\ stage \in [Requests -> Stages]
  /\ paidBy \in [Requests -> SUBSET Attempts]

Init ==
  /\ stage = [r \in Requests |-> "none"]
  /\ paidBy = [r \in Requests |-> {}]

Becomes(r, from, to) ==
  /\ stage[r] = from
  /\ stage' = [stage EXCEPT ![r] = to]
  /\ UNCHANGED paidBy

Enter(r)  == Becomes(r, "none", "waiting") \/ Becomes(r, "none", "flight")
Decide(r) == Becomes(r, "waiting", "flight") \/ Becomes(r, "waiting", "rejected")

Pay(r, a) ==
  /\ stage[r] = "flight" /\ paidBy[r] = {}
  /\ paidBy' = [paidBy EXCEPT ![r] = {a}]
  /\ UNCHANGED stage

\* Completed is what was paid, failed is what was not and never will be.
Settle(r) ==
  \/ paidBy[r] # {} /\ Becomes(r, "flight", "completed")
  \/ paidBy[r] = {} /\ Becomes(r, "flight", "failed")

Next ==
  \E r \in Requests : Enter(r) \/ Decide(r) \/ Settle(r) \/ \E a \in Attempts : Pay(r, a)

Spec == Init /\ [][Next]_<<stage, paidBy>>
=============================================================================
