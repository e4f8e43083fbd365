-------------------------- MODULE ScheduledPayments --------------------------
(***************************************************************************)
(* Scheduled payments (server/src/schedules/service.ts): the same people   *)
(* paid on a timetable.  A pass settles the runs that were waiting, reads  *)
(* the schedules that are on, and makes one run per schedule and date,     *)
(* which copies the schedule's lines and hands each of them to money out.  *)
(* Owners save, pause, resume and stop schedules, and retry refused runs,  *)
(* between any two statements of a pass; saving a list is many statements. *)
(*                                                                         *)
(* A date is the moment its payment falls due, as a number; a timetable is *)
(* the set of its dates.  Whether the float covers a run is a free choice, *)
(* and so is whether a contact was deleted.  The payment of a line is the  *)
(* abstract payment of module Payment, which MoneyOut implements.          *)
(***************************************************************************)
EXTENDS Naturals

CONSTANTS
  Schedules,
  Payees,
  Dates,        \* a set of numbers
  Clock,        \* what the clock may show: a set of numbers
  Timetables,   \* sets of dates an owner may choose
  Lists,        \* sets of payees an owner may choose
  Savers,       \* requests that save or resume a schedule, one each at a time
  Workers,      \* passes of the scheduler, and requests that retry a run
  MissedAfter,  \* MISSED_AFTER_DAYS, in dates
  MaxCrashes,   \* bound: crashes of the server
  Around        \* "lateThrow": a send may throw after it wrote its row

ASSUME ScheduleAssumption ==
  /\ Dates \subseteq Nat \ {0}
  /\ Clock \subseteq Nat /\ 0 \in Clock
  /\ Timetables \subseteq SUBSET Dates /\ Lists \subseteq SUBSET Payees \ {{}}
  /\ MissedAfter \in Nat /\ MaxCrashes \in Nat
  /\ Around \subseteq {"lateThrow"}

VARIABLES
  schedules,  \* the schedules table
  lines,      \* the schedule_lines of each schedule
  saves,      \* what a request that saves or resumes a schedule has still to write
  runs,       \* the state of the pay_runs rows, by (schedule_id, due_on)
  copies,     \* the state of the pay_run_lines rows of each run
  workers,    \* what a pass or a retry has in hand
  now,        \* the clock
  stage,      \* the payments, as money out shows them
  paidBy,     \* the payments that moved money
  again,      \* payments that were asked for more than once
  crashes     \* crashes so far

vars == <<schedules, lines, saves, runs, copies, workers, now, stage, paidBy, again, crashes>>

NoDate == 0
Lines == Payees \X Savers    \* a line, with the request that wrote it
Keys == Schedules \X Dates   \* (schedule_id, due_on)

Payment == INSTANCE Payment WITH Requests <- Keys \X Lines, Attempts <- {1}

owners == <<schedules, lines, saves>>
payments == <<stage, paidBy, again>>

Schedule == [state: {"none", "active", "paused", "stopped", "finished"},
             days: SUBSET Dates, next: Dates \cup {NoDate}]
NoSchedule == [state |-> "none", days |-> {}, next |-> NoDate]

RunStates == {"prepared", "sending", "done", "partly_failed", "failed", "refused", "missed"}
LineStates == {"waiting", "sent", "paid", "failed", "unknown"}
Empty == [l \in Lines |-> "none"]

Save == [at: {"row", "resuming", "clearing", "adding"}, schedule: Schedules, days: SUBSET Dates,
         next: Dates, todo: SUBSET Payees]

(* The schedules a pass read and has not come to, the run it is at, and    *)
(* the lines of that run it is about to copy or to send.                   *)
Entry == [schedule: Schedules, days: SUBSET Dates, next: Dates]
Worker == [at: {"choosing", "advancing", "copying", "checking", "calling", "noting"},
           due: SUBSET Entry, entry: SUBSET Entry, run: SUBSET Keys, todo: SUBSET Lines,
           line: SUBSET Lines]
Idle == [at |-> "idle"]

Init ==
  /\ schedules = [s \in Schedules |-> NoSchedule]
  /\ lines = [s \in Schedules |-> {}]
  /\ saves = [v \in Savers |-> Idle]
  /\ runs = [k \in Keys |-> "none"]
  /\ copies = [k \in Keys |-> Empty]
  /\ workers = [w \in Workers |-> Idle]
  /\ now = 0
  /\ Payment!Init
  /\ again = {}
  /\ crashes = 0

(***************************************************************************)
(* The timetable.                                                          *)
(***************************************************************************)

IsDue(d) == now >= d
Missed(d) == now > d + MissedAfter

\* The earliest of D, a null where there is none.
Earliest(D) ==
  LET first == {d \in D : \A e \in D : d <= e}
  IN  IF first = {} THEN NoDate ELSE CHOOSE d \in first : TRUE

FirstToCome(days) == Earliest({d \in days : ~IsDue(d)})
NextAfter(days, d) == Earliest({e \in days : e > d})

(***************************************************************************)
(* The owner.                                                              *)
(***************************************************************************)

\* create: the row, and then the lines one by one.
Create(v, s, days, list) ==
  /\ saves[v] = Idle /\ schedules[s] = NoSchedule
  /\ FirstToCome(days) # NoDate
  /\ schedules' = [schedules EXCEPT ![s] =
       [state |-> "active", days |-> days, next |-> FirstToCome(days)]]
  /\ saves' = [saves EXCEPT ![v] = [at |-> "clearing", schedule |-> s, days |-> days,
                                    next |-> FirstToCome(days), todo |-> list]]
  /\ UNCHANGED <<lines, runs, copies, workers, now, payments, crashes>>

\* update, up to its first write: the dates to come are those of now.
Edit(v, s, days, list) ==
  /\ saves[v] = Idle /\ schedules[s].state \in {"active", "paused"}
  /\ FirstToCome(days) # NoDate
  /\ saves' = [saves EXCEPT ![v] = [at |-> "row", schedule |-> s, days |-> days,
                                    next |-> FirstToCome(days), todo |-> list]]
  /\ UNCHANGED <<schedules, lines, runs, copies, workers, now, payments, crashes>>

\* Mutated form: the next date is written whatever became of the schedule.
NextOnAlways(s, d) == d

\* next_due_on = CASE WHEN state = 'active' THEN d ELSE next_due_on END
NextOn(s, d) == IF schedules[s].state = "active" THEN d ELSE schedules[s].next

WritesRow(v) ==
  LET s == saves[v].schedule IN
  /\ saves[v].at = "row"
  /\ schedules' = [schedules EXCEPT ![s].days = saves[v].days, ![s].next = NextOn(s, saves[v].next)]
  /\ saves' = [saves EXCEPT ![v].at = "clearing"]
  /\ UNCHANGED <<lines, runs, copies, workers, now, payments, crashes>>

\* writeLines: DELETE, then one INSERT per line.
Clears(v) ==
  /\ saves[v].at = "clearing"
  /\ lines' = [lines EXCEPT ![saves[v].schedule] = {}]
  /\ saves' = [saves EXCEPT ![v].at = "adding"]
  /\ UNCHANGED <<schedules, runs, copies, workers, now, payments, crashes>>

Adds(v, p) ==
  /\ saves[v].at = "adding" /\ p \in saves[v].todo
  /\ lines' = [lines EXCEPT ![saves[v].schedule] = @ \cup {<<p, v>>}]
  /\ saves' = IF saves[v].todo = {p} THEN [saves EXCEPT ![v] = Idle]
                                    ELSE [saves EXCEPT ![v].todo = @ \ {p}]
  /\ UNCHANGED <<schedules, runs, copies, workers, now, payments, crashes>>

Pause(s) ==
  /\ schedules[s].state = "active"
  /\ schedules' = [schedules EXCEPT ![s].state = "paused"]
  /\ UNCHANGED <<lines, saves, runs, copies, workers, now, payments, crashes>>

\* Nothing is paid for the dates it was paused over.
Resume(v, s) ==
  LET days == schedules[s].days IN
  /\ saves[v] = Idle /\ schedules[s].state = "paused" /\ FirstToCome(days) # NoDate
  /\ saves' = [saves EXCEPT ![v] = [at |-> "resuming", schedule |-> s, days |-> days,
                                    next |-> FirstToCome(days), todo |-> {}]]
  /\ UNCHANGED <<schedules, lines, runs, copies, workers, now, payments, crashes>>

\* UPDATE schedules ... WHERE id = s AND state = 'paused'
Resumes(v) ==
  LET s == saves[v].schedule IN
  /\ saves[v].at = "resuming"
  /\ schedules' = IF schedules[s].state = "paused"
       THEN [schedules EXCEPT ![s].state = "active", ![s].next = saves[v].next] ELSE schedules
  /\ saves' = [saves EXCEPT ![v] = Idle]
  /\ UNCHANGED <<lines, runs, copies, workers, now, payments, crashes>>

Stop(s) ==
  /\ schedules[s].state \in {"active", "paused", "finished"}
  /\ schedules' = [schedules EXCEPT ![s].state = "stopped", ![s].next = NoDate]
  /\ UNCHANGED <<lines, saves, runs, copies, workers, now, payments, crashes>>

(***************************************************************************)
(* reconcile.  A payment with Safaricom reads as sent or as unknown.       *)
(***************************************************************************)

\* Mutated form: a payment whose outcome is not known has failed.
AnswerUnknownFails(before, st, unknown) ==
  CASE st = "completed" -> "paid"
    [] st \in {"failed", "rejected"} \/ unknown -> "failed"
    [] OTHER -> before

Answer(before, st, unknown) ==
  CASE st = "completed" -> "paid"
    [] st \in {"failed", "rejected"} -> "failed"
    [] unknown -> "unknown"
    [] OTHER -> before

Unknowable == SUBSET {x \in Keys \X Lines : stage[x] = "flight"}

Answered(U) ==
  [k \in Keys |-> [l \in Lines |->
    IF runs[k] = "sending" /\ copies[k][l] \in {"sent", "unknown"}
      THEN Answer(copies[k][l], stage[<<k, l>>], <<k, l>> \in U)
      ELSE copies[k][l]]]

In(copy, S) == {l \in Lines : copy[l] \in S}

\* Mutated form: a line that was never handed over does not keep a run open.
OpenSent == {"sent"}

Open == {"waiting", "sent"}

Settled(copy) ==
  CASE In(copy, {"failed"}) = {} -> "done"
    [] In(copy, {"failed"}) = In(copy, LineStates) -> "failed"
    [] OTHER -> "partly_failed"

Reconcile ==
  \E U \in Unknowable :
    /\ copies' = Answered(U)
    /\ runs' = [k \in Keys |->
         IF runs[k] = "sending" /\ In(Answered(U)[k], Open) = {}
           THEN Settled(Answered(U)[k]) ELSE runs[k]]

(***************************************************************************)
(* A pass.                                                                 *)
(***************************************************************************)

Working(due) == [at |-> "choosing", due |-> due, entry |-> {}, run |-> {}, todo |-> {}, line |-> {}]

Begin(w) ==
  /\ workers[w] = Idle
  /\ Reconcile
  /\ workers' = [workers EXCEPT ![w] = Working(
       {[schedule |-> s, days |-> schedules[s].days, next |-> schedules[s].next] :
          s \in {s \in Schedules : schedules[s].state = "active" /\ schedules[s].next \in Dates}})]
  /\ UNCHANGED <<owners, now, payments, crashes>>

At(w, at) == workers[w].at = at

\* Not due yet, or waiting half an hour for a fresh reading of the float.
Leaves(w, e) ==
  /\ At(w, "choosing") /\ e \in workers[w].due
  /\ ~Missed(e.next)
  /\ workers' = [workers EXCEPT ![w].due = @ \ {e}]
  /\ UNCHANGED <<owners, runs, copies, now, payments, crashes>>

\* Mutated form: a date that is taken is taken again.
OursAlways(k) == TRUE

Ours(k) == runs[k] = "none"

(* INSERT INTO pay_runs ... ON CONFLICT (schedule_id, due_on) DO NOTHING   *)
(* RETURNING id, with the lines just read.  A pass that finds the date     *)
(* taken keeps no run.                                                     *)
Inserts(w, e) ==
  LET k == <<e.schedule, e.next>> IN
  /\ At(w, "choosing") /\ e \in workers[w].due /\ IsDue(e.next)
  /\ runs' = IF Ours(k) THEN [runs EXCEPT ![k] = IF Missed(e.next) THEN "missed" ELSE "prepared"]
                     ELSE runs
  /\ workers' = [workers EXCEPT ![w] =
       [@ EXCEPT !.at = "advancing", !.due = workers[w].due \ {e}, !.entry = {e},
                 !.run = IF Ours(k) /\ ~Missed(e.next) THEN {k} ELSE {},
                 !.todo = IF Ours(k) /\ ~Missed(e.next) THEN lines[e.schedule] ELSE {}]]
  /\ UNCHANGED <<owners, copies, now, payments, crashes>>

StateAfter(s, next) == IF next = NoDate THEN "finished" ELSE schedules[s].state

\* Mutated form: a run whose schedule was changed meanwhile is left there.
DropsChanged(w, e) == workers[w].run = {} \/ schedules[e.schedule].next # e.next

\* A pass that took no run, or one that is missed, goes on to the next.
Drops(w, e) == workers[w].run = {}

(* UPDATE schedules ... WHERE id = s AND next_due_on = the date just taken *)
Advances(w, e) ==
  LET s == e.schedule
      next == NextAfter(e.days, e.next)
  IN
  /\ At(w, "advancing") /\ e \in workers[w].entry
  /\ schedules' = IF schedules[s].next = e.next
       THEN [schedules EXCEPT ![s].next = next, ![s].state = StateAfter(s, next)]
       ELSE schedules
  /\ workers' = [workers EXCEPT ![w] =
       IF Drops(w, e) THEN Working(@.due) ELSE [@ EXCEPT !.at = "copying", !.entry = {}]]
  /\ UNCHANGED <<lines, saves, runs, copies, now, payments, crashes>>

\* The lines of deleted contacts are copied as failed.
Copies(w, k) ==
  /\ At(w, "copying") /\ k \in workers[w].run
  /\ \E gone \in SUBSET workers[w].todo :
       /\ copies' = [copies EXCEPT ![k] = [l \in Lines |->
            IF l \in gone THEN "failed" ELSE IF l \in workers[w].todo THEN "waiting" ELSE "none"]]
       /\ workers' = [workers EXCEPT ![w] = [@ EXCEPT !.at = "checking", !.todo = {}]]
  /\ UNCHANGED <<owners, runs, now, payments, crashes>>

(***************************************************************************)
(* attempt, and sendLines.                                                 *)
(***************************************************************************)

\* Mutated form: any run that ended unhappily may be tried again.
RetriableFailed == {"refused", "failed", "partly_failed"}

Retriable == {"refused"}

\* UPDATE pay_runs SET state = 'prepared' WHERE id = k AND state = 'refused'
Retry(w, k) ==
  /\ workers[w] = Idle /\ runs[k] \in Retriable
  /\ runs' = [runs EXCEPT ![k] = "prepared"]
  /\ workers' = [workers EXCEPT ![w] = [Working({}) EXCEPT !.at = "checking", !.run = {k}]]
  /\ UNCHANGED <<owners, copies, now, payments, crashes>>

WherePrepared(k, state) == IF runs[k] = "prepared" THEN [runs EXCEPT ![k] = state] ELSE runs

NextEntry(w) == [workers EXCEPT ![w] = Working(@.due)]

\* The float does not cover the whole run, or nobody knows whether it does.
Refuses(w, k) ==
  /\ At(w, "checking") /\ k \in workers[w].run
  /\ runs' = WherePrepared(k, "refused")
  /\ workers' = NextEntry(w)
  /\ UNCHANGED <<owners, copies, now, payments, crashes>>

Goes(w, k) ==
  /\ At(w, "checking") /\ k \in workers[w].run
  /\ runs' = WherePrepared(k, "sending")
  /\ workers' = [workers EXCEPT ![w] =
       [@ EXCEPT !.at = "calling", !.todo = In(copies[k], {"waiting"})]]
  /\ UNCHANGED <<owners, copies, now, payments, crashes>>

\* moneyOut.send or payBusiness.
Calls(w, k, l) ==
  /\ At(w, "calling") /\ k \in workers[w].run /\ l \in workers[w].todo
  /\ IF stage[<<k, l>>] = "none"
       THEN Payment!Enter(<<k, l>>) /\ UNCHANGED again
       ELSE again' = again \cup {<<k, l>>} /\ UNCHANGED <<stage, paidBy>>
  /\ workers' = [workers EXCEPT ![w] = [@ EXCEPT !.at = "noting", !.line = {l}]]
  /\ UNCHANGED <<owners, runs, copies, now, crashes>>

NextLine(w, l) ==
  [workers EXCEPT ![w] = [@ EXCEPT !.at = "calling", !.line = {}, !.todo = workers[w].todo \ {l}]]

\* Mutated form: the payment's status is written as it is.
ReturnedRaw(st) == {"sent", "unknown", st}

\* What the call returned may be older than what the payment has come to.
Returned(st) == {"sent", "unknown"}
  \cup (IF st = "completed" THEN {"paid"} ELSE {})
  \cup (IF st \in {"failed", "rejected"} THEN {"failed"} ELSE {})

Notes(w, k, l) ==
  /\ At(w, "noting") /\ k \in workers[w].run /\ l \in workers[w].line
  /\ \E state \in Returned(stage[<<k, l>>]) : copies' = [copies EXCEPT ![k][l] = state]
  /\ workers' = NextLine(w, l)
  /\ UNCHANGED <<owners, runs, now, payments, crashes>>

\* Reported on the run and never tried again by itself.
Threw(w, k, l) ==
  /\ k \in workers[w].run
  /\ \/ At(w, "calling") /\ l \in workers[w].todo
     \/ "lateThrow" \in Around /\ At(w, "noting") /\ l \in workers[w].line
  /\ copies' = [copies EXCEPT ![k][l] = "failed"]
  /\ workers' = NextLine(w, l)
  /\ UNCHANGED <<owners, runs, now, payments, crashes>>

AllSent(w) ==
  /\ At(w, "calling") /\ workers[w].todo = {}
  /\ workers' = NextEntry(w)
  /\ UNCHANGED <<owners, runs, copies, now, payments, crashes>>

End(w) ==
  /\ At(w, "choosing") /\ workers[w].due = {}
  /\ Reconcile
  /\ workers' = [workers EXCEPT ![w] = Idle]
  /\ UNCHANGED <<owners, now, payments, crashes>>

(***************************************************************************)
(* Around the passes.                                                      *)
(***************************************************************************)

\* The clock may slip back as well as move on.
ClockMoves(t) ==
  /\ t # now
  /\ now' = t
  /\ UNCHANGED <<owners, runs, copies, workers, payments, crashes>>

PaymentMoves(x) ==
  /\ Payment!Decide(x) \/ Payment!Pay(x, 1) \/ Payment!Settle(x)
  /\ UNCHANGED <<owners, runs, copies, workers, now, again, crashes>>

Crash ==
  /\ crashes < MaxCrashes
  /\ crashes' = crashes + 1
  /\ saves' = [v \in Savers |-> Idle]
  /\ workers' = [w \in Workers |-> Idle]
  /\ UNCHANGED <<schedules, lines, runs, copies, now, payments>>

Owner ==
  \/ \E v \in Savers, s \in Schedules, days \in Timetables, list \in Lists :
       Create(v, s, days, list) \/ Edit(v, s, days, list)
  \/ \E v \in Savers, s \in Schedules : Resume(v, s)
  \/ \E v \in Savers : WritesRow(v) \/ Resumes(v) \/ Clears(v) \/ \E p \in Payees : Adds(v, p)
  \/ \E s \in Schedules : Pause(s) \/ Stop(s)

Sending(w, k) ==
  \/ Copies(w, k) \/ Refuses(w, k) \/ Goes(w, k)
  \/ \E l \in Lines : Calls(w, k, l) \/ Notes(w, k, l) \/ Threw(w, k, l)

Step(w) ==
  \/ Begin(w) \/ AllSent(w) \/ End(w)
  \/ workers[w] # Idle /\ \E e \in workers[w].due : Leaves(w, e) \/ Inserts(w, e)
  \/ workers[w] # Idle /\ \E e \in workers[w].entry : Advances(w, e)
  \/ workers[w] # Idle /\ \E k \in workers[w].run : Sending(w, k)

Outside ==
  \/ \E w \in Workers, k \in Keys : Retry(w, k)
  \/ \E t \in Clock : ClockMoves(t)
  \/ \E x \in Keys \X Lines : PaymentMoves(x)
  \/ Crash

Next == Owner \/ (\E w \in Workers : Step(w)) \/ Outside

Spec == Init /\ [][Next]_vars

(***************************************************************************)
(* Properties.                                                             *)
(***************************************************************************)

(* Every row, and everything a pass or a request holds, has the shape the  *)
(* code and migration 048 give it.                                         *)
TypeOK ==
  /\ schedules \in [Schedules -> Schedule]
  /\ lines \in [Schedules -> SUBSET Lines]
  /\ saves \in [Savers -> Save \cup {Idle}]
  /\ runs \in [Keys -> RunStates \cup {"none"}]
  /\ copies \in [Keys -> [Lines -> LineStates \cup {"none"}]]
  /\ workers \in [Workers -> Worker \cup {Idle}]
  /\ now \in Clock
  /\ Payment!TypeOK
  /\ again \subseteq Keys \X Lines
  /\ crashes \in 0..MaxCrashes

(* Two passes, a retry, a restart or a clock slip never ask money out for  *)
(* one line of one date twice.                                             *)
PaidOnce == again = {}

(* A run that was refused or missed has paid nobody, however often it was  *)
(* tried: the owner is told so, and is offered to try it again.            *)
UnsentPaidNobody ==
  \A k \in Keys : runs[k] \in {"none", "prepared", "refused", "missed"} =>
    \A l \in Lines : stage[<<k, l>>] = "none"

(* A line reported as failed was not paid and will not be: the owner pays  *)
(* it by hand.                                                             *)
FailedLineNotPaid ==
  \A k \in Keys, l \in Lines : copies[k][l] = "failed" =>
    stage[<<k, l>>] \in {"none", "failed", "rejected"}

(* A schedule that is on has a date to come, one that is stopped or has    *)
(* finished has none, whatever pass or edit was under way meanwhile.       *)
OnHasNext ==
  \A s \in Schedules :
    /\ schedules[s].state = "active" => schedules[s].next # NoDate
    /\ schedules[s].state \in {"stopped", "finished"} => schedules[s].next = NoDate

(* A run reported as ended has no line that waits to be sent, or that it   *)
(* records as sent and not yet answered, although reconcile runs while     *)
(* another pass is sending it.  A line that reads as unknown does not keep *)
(* a run open, so its payment may still be under way.                      *)
EndedIsOver ==
  \A k \in Keys : runs[k] \in {"done", "failed", "partly_failed"} => In(copies[k], {"waiting", "sent"}) = {}

(* A run that is not settled always has somebody at it, or only waits for  *)
(* answers, unless the server stopped: nothing else would ever settle it   *)
(* and tell the owner.                                                     *)
NobodyForgets ==
  \A k \in Keys :
    (runs[k] = "prepared" \/ (runs[k] = "sending" /\ In(copies[k], {"waiting"}) # {})) =>
      crashes > 0 \/ \E w \in Workers : workers[w] # Idle /\ k \in workers[w].run
=============================================================================
