------------------------------ MODULE JobQueue ------------------------------
(***************************************************************************)
(* The jobs table as values (server/src/db/jobs.ts): what a worker may     *)
(* claim, and what becomes of a job when its handler returns or throws.    *)
(* A claim is a lease of five minutes; every other write names the job by  *)
(* its id alone, whoever holds it by then.                                 *)
(*                                                                         *)
(* Times are minutes of the database's clock, from one; zero is a null.    *)
(***************************************************************************)
EXTENDS Naturals

CONSTANTS
  Lease,        \* how long a claim holds, five minutes
  MaxAttempts   \* max_attempts of a one-shot job

ASSUME JobAssumption == Lease \in Nat \ {0} /\ MaxAttempts \in Nat \ {0}

Unlocked == 0

Job == [runAt: Nat, lockedAt: Nat, attempts: Nat, done: BOOLEAN]

NewJob(runAt) == [runAt |-> runAt, lockedAt |-> Unlocked, attempts |-> 0, done |-> FALSE]

Held(job, now) == job.lockedAt # Unlocked /\ now <= job.lockedAt + Lease

Claimable(job, now) == ~job.done /\ job.runAt <= now /\ ~Held(job, now)

\* A claim counts the attempt, so one that ends in a crash is counted too.
Claimed(job, now) == [job EXCEPT !.lockedAt = now, !.attempts = job.attempts + 1]

\* complete and failFinal
Completed(job) == [job EXCEPT !.lockedAt = Unlocked, !.done = TRUE]

\* Mutated form: a job that failed is not tried again.
FailedForGood(job, now) == Completed(job)

\* fail: at the cap the job is done, and before it waits 2, 4, 8... minutes.
Failed(job, now) ==
  IF job.attempts >= MaxAttempts THEN Completed(job)
  ELSE [job EXCEPT !.lockedAt = Unlocked, !.runAt = now + 2 ^ job.attempts]
=============================================================================
