------------------------------ MODULE BulkSend ------------------------------
(***************************************************************************)
(* A batch of sends (server/src/money_out/bulk.ts) and the jobs that drain *)
(* it (db/jobs.ts, scheduler/loop.ts).  A person creates the batch, and    *)
(* people may press Try again once it has ended.  A press is a request of  *)
(* several statements under no lock: it reads the batch, writes it back    *)
(* without the results worth trying again, and queues a job, and another   *)
(* press may come in between.  A worker claims a job under a lease, reads  *)
(* the batch, and hands each row that has no result to moneyOut.send,      *)
(* noting all the results it knows after every row.  Workers stop, jobs    *)
(* are taken over, handlers throw, and so do sends, before they wrote      *)
(* their request or after.                                                 *)
(*                                                                         *)
(* Of a send the module keeps what the batch and the duplicate guard of    *)
(* money out see: when it was written, and whether it is still standing    *)
(* (not failed, cancelled or rejected).  No two rows of a batch name the   *)
(* same phone and amount (bulkParse.ts), so a row is also what the guard   *)
(* compares.                                                               *)
(***************************************************************************)
EXTENDS JobQueue, FiniteSets, Sequences

CONSTANTS
  Workers,
  Presses,     \* requests that create or try again; with one, none overlap
  RowCount,
  Window,      \* DUP_WINDOW, five minutes
  MaxTime,     \* bound: the last minute that nothing waits for
  MaxJobs,     \* bound: jobs of the batch after which nobody presses again
  MaxSends,    \* bound: sends written
  MaxByHand,   \* bound: of them, sends of a person
  MaxFaults,   \* bound: crashes and throws
  Around       \* "noting": a fault may fall between a send and its note
               \* "ended": a fault may fall between the batch's end and the job's
               \* "queueing": a crash may fall between a batch's row and its job
               \* "slow": a worker may outlast its lease
               \* "lateThrow": a send may throw after it wrote its request

ASSUME BatchAssumption ==
  /\ RowCount \in Nat \ {0} /\ Window \in Nat
  /\ Around \subseteq {"noting", "ended", "queueing", "slow", "lateThrow"}

VARIABLES
  batch,        \* the bulk_plans row
  jobs,         \* the bulk_send jobs, in the order they were queued
  workers,      \* what each worker has in hand
  presses,      \* what each request that creates or tries again has in hand
  sends,        \* the requests rows that name a payment of the batch
  orgClosed,    \* orgs.status = 'closed'
  minute,       \* the clock
  faults        \* faults so far

batchVars == <<batch, jobs, workers, presses, sends, orgClosed, minute, faults>>

Rows == 1..RowCount

(* What the batch knows of a row: nothing; that it was sent, with the id   *)
(* of the request; that the send was refused, and may be tried again; that *)
(* it was refused as a duplicate, and may not.                             *)
Results == {"none", "sent", "sentFailed", "refused", "duplicate"}

Batch == [status: {"absent", "sending", "done", "partly_done"}, results: [Rows -> Results]]
NoResults == [r \in Rows |-> "none"]

Send == [row: Rows, at: Nat, ofBatch: BOOLEAN, standing: BOOLEAN]

Worker == [at: {"loading", "sending", "noting", "ended"}, job: Nat,
           results: [Rows -> Results], row: 0..RowCount]
IdleWorker == [at |-> "idle"]

(* A request that read the batch has what it will write back; one that    *)
(* wrote it has a job to queue, and left none if it stopped before.        *)
Press == [at: {"idle", "queueing", "unqueued"}]
         \cup [at: {"writing"}, results: [Rows -> Results]]

BatchInit ==
  /\ batch = [status |-> "absent", results |-> NoResults]
  /\ jobs = <<>>
  /\ workers = [w \in Workers |-> IdleWorker]
  /\ presses = [p \in Presses |-> [at |-> "idle"]]
  /\ sends = <<>>
  /\ orgClosed = FALSE
  /\ minute = 1
  /\ faults = 0

Busy(w) == workers[w] # IdleWorker

(***************************************************************************)
(* People: create and retry.                                               *)
(***************************************************************************)

PressAt(p, phase) == presses[p].at = phase

PressMoves(p, press) == presses' = [presses EXCEPT ![p] = press]

Create(p) ==
  /\ batch.status = "absent" /\ PressAt(p, "idle")
  /\ batch' = [status |-> "sending", results |-> NoResults]
  /\ PressMoves(p, [at |-> "queueing"])
  /\ UNCHANGED <<jobs, workers, sends, orgClosed, minute, faults>>

\* v.status === 'failed' && v.retriable !== false && !v.requestId
Again(result) == result = "refused"

\* The results a press keeps.
Kept(results) == [r \in Rows |-> IF Again(results[r]) THEN "none" ELSE results[r]]

\* load, and the checks on what was read: ended, with a row worth trying again.
ReadAgain(p) ==
  /\ batch.status \in {"done", "partly_done"} /\ PressAt(p, "idle")
  /\ Len(jobs) < MaxJobs
  /\ \E r \in Rows : Again(batch.results[r])
  /\ PressMoves(p, [at |-> "writing", results |-> Kept(batch.results)])
  /\ UNCHANGED <<batch, jobs, workers, sends, orgClosed, minute, faults>>

\* The UPDATE asks for nothing but the id: what was read may be old by now.
WriteAgain(p) ==
  /\ PressAt(p, "writing")
  /\ batch' = [status |-> "sending", results |-> presses[p].results]
  /\ PressMoves(p, [at |-> "queueing"])
  /\ UNCHANGED <<jobs, workers, sends, orgClosed, minute, faults>>

Enqueue(p) ==
  /\ PressAt(p, "queueing")
  /\ jobs' = Append(jobs, NewJob(minute))
  /\ PressMoves(p, [at |-> "idle"])
  /\ UNCHANGED <<batch, workers, sends, orgClosed, minute, faults>>

PressStep(p) == WriteAgain(p) \/ Enqueue(p)

(***************************************************************************)
(* The worker: one job of a tick.                                          *)
(***************************************************************************)

\* The next row without a result, after row r of them; zero at the end.
NextRow(results, r) ==
  LET left == {i \in Rows : i > r /\ results[i] = "none"}
  IN IF left = {} THEN 0 ELSE CHOOSE i \in left : \A j \in left : i <= j

Claim(w, j) ==
  /\ ~Busy(w) /\ Claimable(jobs[j], minute)
  /\ \A k \in 1..Len(jobs) : Claimable(jobs[k], minute) => jobs[j].runAt <= jobs[k].runAt
  /\ jobs' = [jobs EXCEPT ![j] = Claimed(jobs[j], minute)]
  /\ workers' = [workers EXCEPT ![w] =
       [at |-> "loading", job |-> j, results |-> NoResults, row |-> 0]]
  /\ UNCHANGED <<batch, presses, sends, orgClosed, minute, faults>>

\* The job of a closed organisation, and one whose batch has ended, are over.
NothingToDo(w) ==
  /\ Busy(w) /\ workers[w].at = "loading"
  /\ orgClosed \/ batch.status # "sending"
  /\ jobs' = [jobs EXCEPT ![workers[w].job] = Completed(jobs[workers[w].job])]
  /\ workers' = [workers EXCEPT ![w] = IdleWorker]
  /\ UNCHANGED <<batch, presses, sends, orgClosed, minute, faults>>

\* Mutated form: the results noted by an earlier run of the job are not read.
LoadedNone == NoResults

\* const results = { ...p.results }
Loaded == batch.results

Load(w) ==
  /\ Busy(w) /\ workers[w].at = "loading"
  /\ ~orgClosed /\ batch.status = "sending"
  /\ workers' = [workers EXCEPT ![w] =
       [workers[w] EXCEPT !.at = "sending", !.results = Loaded, !.row = NextRow(Loaded, 0)]]
  /\ UNCHANGED <<batch, jobs, presses, sends, orgClosed, minute, faults>>

(* The duplicate guard of money out: a standing request for the same       *)
(* phone and amount, written inside the window.                            *)
Duplicate(r) ==
  \E k \in 1..Len(sends) :
    sends[k].row = r /\ sends[k].standing /\ minute < sends[k].at + Window

Written(r, ofBatch, standing) ==
  Append(sends, [row |-> r, at |-> minute, ofBatch |-> ofBatch, standing |-> standing])

Sending(w) == Busy(w) /\ workers[w].at = "sending" /\ workers[w].row # 0

Knows(w, result) ==
  workers' = [workers EXCEPT ![w] =
    [workers[w] EXCEPT !.at = "noting",
                       !.results = [workers[w].results EXCEPT ![workers[w].row] = result]]]

\* moneyOut.send answered: the request stands, or Safaricom refused it outright.
SendAnswered(w) ==
  /\ Sending(w) /\ ~Duplicate(workers[w].row) /\ Len(sends) < MaxSends
  /\ \E standing \in BOOLEAN :
       /\ sends' = Written(workers[w].row, TRUE, standing)
       /\ Knows(w, IF standing THEN "sent" ELSE "sentFailed")
  /\ UNCHANGED <<batch, jobs, presses, orgClosed, minute, faults>>

\* moneyOut.send threw before it wrote anything: a duplicate, or another reason.
SendRefused(w) ==
  /\ Sending(w)
  /\ \/ Duplicate(workers[w].row) /\ Knows(w, "duplicate")
     \/ Knows(w, "refused")
  /\ UNCHANGED <<batch, jobs, presses, sends, orgClosed, minute, faults>>

\* moneyOut.send threw after it wrote the request: the catch is the same.
SendThrewLate(w) ==
  /\ "lateThrow" \in Around
  /\ Sending(w) /\ ~Duplicate(workers[w].row) /\ Len(sends) < MaxSends
  /\ \E standing \in BOOLEAN : sends' = Written(workers[w].row, TRUE, standing)
  /\ Knows(w, "refused")
  /\ UNCHANGED <<batch, jobs, presses, orgClosed, minute, faults>>

\* UPDATE bulk_plans SET results, with everything this worker knows.
Note(w) ==
  /\ Busy(w) /\ workers[w].at = "noting"
  /\ batch' = [batch EXCEPT !.results = workers[w].results]
  /\ workers' = [workers EXCEPT ![w] =
       [workers[w] EXCEPT !.at = "sending", !.row = NextRow(workers[w].results, workers[w].row)]]
  /\ UNCHANGED <<jobs, presses, sends, orgClosed, minute, faults>>

\* The results whose status is 'failed'.
Bad == {"sentFailed", "refused", "duplicate"}

\* Mutated form: a batch with a row that failed goes on reading as being sent.
EndedIfGood(results) == IF \E r \in Rows : results[r] \in Bad THEN "sending" ELSE "done"

Ended(results) == IF \E r \in Rows : results[r] \in Bad THEN "partly_done" ELSE "done"

End(w) ==
  /\ Busy(w) /\ workers[w].at = "sending" /\ workers[w].row = 0
  /\ batch' = [batch EXCEPT !.status = Ended(workers[w].results)]
  /\ workers' = [workers EXCEPT ![w] = [workers[w] EXCEPT !.at = "ended"]]
  /\ UNCHANGED <<jobs, presses, sends, orgClosed, minute, faults>>

Complete(w) ==
  /\ Busy(w) /\ workers[w].at = "ended"
  /\ jobs' = [jobs EXCEPT ![workers[w].job] = Completed(jobs[workers[w].job])]
  /\ workers' = [workers EXCEPT ![w] = IdleWorker]
  /\ UNCHANGED <<batch, presses, sends, orgClosed, minute, faults>>

(***************************************************************************)
(* What goes wrong.                                                        *)
(***************************************************************************)

MayFault(w) ==
  /\ Busy(w) /\ faults < MaxFaults
  /\ workers[w].at \in {"noting", "ended"} => workers[w].at \in Around

\* The handler throws: a query failed, or the event could not be published.
Throw(w) ==
  /\ MayFault(w)
  /\ jobs' = [jobs EXCEPT ![workers[w].job] = Failed(jobs[workers[w].job], minute)]
  /\ workers' = [workers EXCEPT ![w] = IdleWorker]
  /\ faults' = faults + 1
  /\ UNCHANGED <<batch, presses, sends, orgClosed, minute>>

\* The worker stops, and its job stays locked.
Crash(w) ==
  /\ MayFault(w)
  /\ workers' = [workers EXCEPT ![w] = IdleWorker]
  /\ faults' = faults + 1
  /\ UNCHANGED <<batch, jobs, presses, sends, orgClosed, minute>>

\* A request stops, or its audit throws: one that wrote the batch leaves it no job.
PressStops(p) ==
  /\ faults < MaxFaults
  /\ \/ PressAt(p, "writing") /\ PressMoves(p, [at |-> "idle"])
     \/ "queueing" \in Around /\ PressAt(p, "queueing") /\ PressMoves(p, [at |-> "unqueued"])
  /\ faults' = faults + 1
  /\ UNCHANGED <<batch, jobs, workers, sends, orgClosed, minute>>

(***************************************************************************)
(* What goes on around the batch.                                          *)
(***************************************************************************)

\* A person sends a payment of the batch by hand, confirming a duplicate or not.
ByHand ==
  /\ batch.status # "absent" /\ Len(sends) < MaxSends
  /\ Cardinality({k \in 1..Len(sends) : ~sends[k].ofBatch}) < MaxByHand
  /\ \E r \in Rows : sends' = Written(r, FALSE, TRUE)
  /\ UNCHANGED <<batch, jobs, workers, presses, orgClosed, minute, faults>>

\* A payment fails, or a second person refuses it.
Falls(k) ==
  /\ sends[k].standing
  /\ sends' = [sends EXCEPT ![k].standing = FALSE]
  /\ UNCHANGED <<batch, jobs, workers, presses, orgClosed, minute, faults>>

CloseOrg ==
  /\ ~orgClosed
  /\ orgClosed' = TRUE
  /\ UNCHANGED <<batch, jobs, workers, presses, sends, minute, faults>>

\* A job of the batch that only the clock can make claimable.
Waited(job) == ~job.done /\ (job.runAt > minute \/ Held(job, minute))

\* Unless "slow", a worker that is not stopped is done before its lease is.
Minute ==
  /\ minute < MaxTime \/ \E j \in 1..Len(jobs) : Waited(jobs[j])
  /\ "slow" \in Around \/ \A w \in Workers :
       Busy(w) => minute < jobs[workers[w].job].lockedAt + Lease
  /\ minute' = minute + 1
  /\ UNCHANGED <<batch, jobs, workers, presses, sends, orgClosed, faults>>

WorkerStep(w) ==
  \/ \E j \in 1..Len(jobs) : Claim(w, j)
  \/ NothingToDo(w) \/ Load(w) \/ SendAnswered(w) \/ SendRefused(w)
  \/ SendThrewLate(w) \/ Note(w) \/ End(w) \/ Complete(w)

BatchNext ==
  \/ \E p \in Presses : Create(p) \/ ReadAgain(p) \/ PressStep(p) \/ PressStops(p)
  \/ \E w \in Workers : WorkerStep(w) \/ Throw(w) \/ Crash(w)
  \/ ByHand \/ CloseOrg \/ Minute
  \/ \E k \in 1..Len(sends) : Falls(k)

BatchSpec == BatchInit /\ [][BatchNext]_batchVars

(* A request runs to its end, a server that is up ticks, and time passes.  *)
BatchFairness ==
  /\ \A p \in Presses : WF_batchVars(PressStep(p))
  /\ WF_batchVars(Minute)
  /\ \A w \in Workers : WF_batchVars(WorkerStep(w))

(***************************************************************************)
(* What a batch promises.                                                  *)
(***************************************************************************)

BatchTypeOK ==
  /\ batch \in Batch
  /\ jobs \in Seq(Job)
  /\ workers \in [Workers -> Worker \cup {IdleWorker}]
  /\ \A w \in Workers : Busy(w) => workers[w].job \in 1..Len(jobs)
  /\ presses \in [Presses -> Press]
  /\ sends \in Seq(Send)
  /\ orgClosed \in BOOLEAN /\ minute \in Nat /\ faults \in Nat

(* "Safe to re-run": however often a batch is drained, by whichever        *)
(* worker, a row has at most one payment of the batch that stands.  Of one *)
(* press at a time, and of nothing that Around names: a fault between a    *)
(* send and its note, a job that failed after its batch's end, a worker    *)
(* that outlasts its lease and a send that throws after it wrote its       *)
(* request each pay a row twice, and so do two presses at once.            *)
RowSentOnce ==
  \A k, l \in 1..Len(sends) :
    /\ sends[k].ofBatch /\ sends[k].standing
    /\ sends[l].ofBatch /\ sends[l].standing
    /\ sends[k].row = sends[l].row
    => k = l

(* A row the batch reports as failed, without naming a request, has no     *)
(* payment of the batch standing: "nothing here is a Safaricom answer", so *)
(* pressing Try again cannot pay twice.  Under the same conditions.        *)
FailedRowNotSent ==
  \A r \in Rows : batch.results[r] \in {"refused", "duplicate"} =>
    ~\E k \in 1..Len(sends) : sends[k].ofBatch /\ sends[k].standing /\ sends[k].row = r

\* The last job of the batch has no attempt left.
GivenUp == jobs # <<>> /\ jobs[Len(jobs)].done /\ jobs[Len(jobs)].attempts >= MaxAttempts

\* A press wrote the batch and stopped before it queued its job.
LeftWithoutJob == \E p \in Presses : PressAt(p, "unqueued")

(* A batch that reads as being sent has a job that is to run, or a request *)
(* about to queue one; otherwise its last job was given up after its       *)
(* attempts, or the request that was to queue it stopped before.  Nothing  *)
(* else leaves a batch that is never sent and, being sent, may not be      *)
(* tried again: no takeover, no slow worker that completes a job another   *)
(* has, no presses that overlap.                                           *)
SendingHasJob ==
  batch.status = "sending" /\ ~orgClosed =>
    \/ \E j \in 1..Len(jobs) : ~jobs[j].done
    \/ \E p \in Presses : PressAt(p, "queueing")
    \/ GivenUp \/ LeftWithoutJob

(* A batch that is being sent ends, whatever Around names, unless its      *)
(* organisation closes, its last job failed as often as a job may, or the  *)
(* request that was to queue the job stopped before.                       *)
BatchEnds ==
  batch.status = "sending" ~>
    (batch.status # "sending" \/ orgClosed \/ GivenUp \/ LeftWithoutJob)
=============================================================================
