---------------------------- MODULE OperatorPool ----------------------------
(***************************************************************************)
(* The pool of API operators an organisation sends with, as values: which  *)
(* operator a request goes out under, and how refusals are counted against *)
(* one (server/src/sdk/client.ts, money_out/operatorHealth.ts).            *)
(*                                                                         *)
(* Operators are numbered in the order the code tries them (ORDER BY       *)
(* priority, created_at).  A pool is a function from operators to records  *)
(* [status, failures]; the ten-minute failure window is the choice of      *)
(* whether the last refusal is still inside it.                            *)
(***************************************************************************)
EXTENDS Naturals

CONSTANT OperatorCount

ASSUME OperatorCountAssumption == OperatorCount \in Nat \ {0}

Operators == 1..OperatorCount

NoOperator == 0

\* FAILURES_BEFORE_DOWN: the second refusal inside a window, never the first.
FailuresBeforeDown == 2

OperatorState ==
  [status: {"verified", "failed", "disabled"}, failures: 0..FailuresBeforeDown]

Pools == [Operators -> OperatorState]

HealthyPool == [o \in Operators |-> [status |-> "verified", failures |-> 0]]

Usable(pool) == {o \in Operators : pool[o].status = "verified"}

(* The first verified operator that is not excluded, or NoOperator.        *)
FirstOperator(pool, exclude) ==
  LET left == Usable(pool) \ exclude
  IN IF left = {} THEN NoOperator
     ELSE CHOOSE o \in left : \A p \in left : o <= p

(* Whether a refusal is counted at all: never against a disabled operator. *)
Counts(pool, o) == o \in Operators /\ pool[o].status # "disabled"

(* The failure count after one more refusal: the window of the last one    *)
(* may have run out, and then the count starts again at one.               *)
NextCounts(failures) == {1, IF failures < FailuresBeforeDown THEN failures + 1 ELSE failures}

(* The pools a refusal may leave behind: the count goes up or restarts,    *)
(* and the operator that reaches FailuresBeforeDown is marked failed.      *)
AfterRefusal(pool, o) ==
  IF ~Counts(pool, o) THEN {pool}
  ELSE {[pool EXCEPT ![o] =
           [status |-> IF n >= FailuresBeforeDown THEN "failed" ELSE pool[o].status,
            failures |-> n]] : n \in NextCounts(pool[o].failures)}

(* A success clears the count and leaves the status alone.                 *)
AfterSuccess(pool, o) ==
  IF o \in Operators THEN [pool EXCEPT ![o].failures = 0] ELSE pool
=============================================================================
