----------------------- MODULE ScheduledPaymentsProofs -----------------------
(***************************************************************************)
(* Theorems about scheduled payments, for every number of schedules,       *)
(* dates, payees, passes, retries and crashes: a line is asked for once,   *)
(* and what the owner is told of a run is so.                              *)
(***************************************************************************)
EXTENDS ScheduledPayments, TLAPS

(***************************************************************************)
(* The inductive invariant.  A run that can still be sent is in one hand   *)
(* only: the pass that inserted it or the request that flipped it back,    *)
(* and what that hand will send has not been asked for.                    *)
(***************************************************************************)

Holds(w, k) == workers[w] # Idle /\ k \in workers[w].run

OneHand ==
  \A w \in Workers, k \in Keys : Holds(w, k) =>
    /\ \A v \in Workers : Holds(v, k) => v = w
    /\ \A j \in workers[w].run : j = k

\* Until its lines go out a run is prepared.
PreparedFirst ==
  \A w \in Workers, k \in Keys : Holds(w, k) =>
    /\ workers[w].at # "choosing"
    /\ workers[w].at \in {"advancing", "copying", "checking"} => runs[k] = "prepared"
    /\ workers[w].at \in {"calling", "noting"} => runs[k] \notin {"none", "prepared", "refused", "missed"}

\* What is still to send waits, and nobody asked for it yet.
StillToSend ==
  \A w \in Workers, k \in Keys : Holds(w, k) /\ workers[w].at \in {"calling", "noting"} =>
    \A l \in workers[w].todo :
      /\ copies[k][l] = "waiting"
      /\ stage[<<k, l>>] = "none" \/ (workers[w].at = "noting" /\ l \in workers[w].line)

\* The line whose call returned is one of those, and the only one.
LineInHand ==
  \A w \in Workers, k \in Keys : Holds(w, k) /\ workers[w].at = "noting" =>
    \A l \in workers[w].line : l \in workers[w].todo /\ workers[w].line = {l}

Handled == /\ TypeOK /\ PaidOnce /\ UnsentPaidNobody /\ EndedIsOver
           /\ OneHand /\ PreparedFirst /\ StillToSend /\ LineInHand

(***************************************************************************)
(* Types.                                                                  *)
(***************************************************************************)

LEMMA EarliestType ==
  ASSUME NEW D
  PROVE  Earliest(D) \in D \cup {NoDate}
BY DEF Earliest

LEMMA Constants ==
  /\ NoDate \notin Dates
  /\ Idle \notin Worker /\ Idle \notin Save
BY ScheduleAssumption DEF NoDate, Idle, Worker, Save

LEMMA FirstType ==
  ASSUME NEW days, NEW d
  PROVE  /\ FirstToCome(days) \in days \cup {NoDate}
         /\ NextAfter(days, d) \in days \cup {NoDate}
BY EarliestType DEF FirstToCome, NextAfter

LEMMA OwnerTypes ==
  ASSUME TypeOK, Owner
  PROVE  TypeOK'
<1> USE ScheduleAssumption, Constants
<1>1. ASSUME NEW v \in Savers, NEW s \in Schedules, NEW days \in Timetables, NEW list \in Lists,
             Create(v, s, days, list)
      PROVE  TypeOK'
  <2>1. days \subseteq Dates /\ list \subseteq Payees /\ FirstToCome(days) \in Dates
    BY <1>1, FirstType DEF Create
  <2>2. schedules' \in [Schedules -> Schedule]
    BY <1>1, <2>1 DEF Create, TypeOK, Schedule
  <2>3. saves' \in [Savers -> Save \cup {Idle}]
    BY <1>1, <2>1 DEF Create, TypeOK, Save
  <2> QED  BY <1>1, <2>2, <2>3 DEF Create, TypeOK, payments, Payment!TypeOK
<1>2. ASSUME NEW v \in Savers, NEW s \in Schedules, NEW days \in Timetables, NEW list \in Lists,
             Edit(v, s, days, list)
      PROVE  TypeOK'
  <2>1. days \subseteq Dates /\ list \subseteq Payees /\ FirstToCome(days) \in Dates
    BY <1>2, FirstType DEF Edit
  <2>2. saves' \in [Savers -> Save \cup {Idle}]
    BY <1>2, <2>1 DEF Edit, TypeOK, Save
  <2> QED  BY <1>2, <2>2 DEF Edit, TypeOK, payments, Payment!TypeOK
<1>3. ASSUME NEW v \in Savers, WritesRow(v)
      PROVE  TypeOK'
  <2>1. saves[v] \in Save
    BY <1>3 DEF WritesRow, TypeOK, Idle
  <2>2. NextOn(saves[v].schedule, saves[v].next) \in Dates \cup {NoDate}
    BY <2>1 DEF NextOn, TypeOK, Save, Schedule
  <2>3. schedules' \in [Schedules -> Schedule]
    <3> DEFINE s == saves[v].schedule
               x == [schedules[s] EXCEPT !.days = saves[v].days, !.next = NextOn(s, saves[v].next)]
    <3>1. s \in Schedules /\ schedules[s] \in Schedule /\ saves[v].days \in SUBSET Dates
      BY <2>1 DEF Save, TypeOK
    <3>2. x \in Schedule
      BY <2>2, <3>1 DEF Schedule
    <3>3. schedules' = [schedules EXCEPT ![s] = x]
      BY <1>3, <3>1 DEF WritesRow, TypeOK, Schedule
    <3> HIDE DEF x
    <3> QED  BY <3>1, <3>2, <3>3 DEF TypeOK
  <2>4. saves' \in [Savers -> Save \cup {Idle}]
    BY <1>3, <2>1 DEF WritesRow, TypeOK, Save
  <2> QED  BY <1>3, <2>3, <2>4 DEF WritesRow, TypeOK, payments, Payment!TypeOK
<1>4. ASSUME NEW v \in Savers, Clears(v)
      PROVE  TypeOK'
  <2>1. saves[v] \in Save
    BY <1>4 DEF Clears, TypeOK, Idle
  <2>2. /\ lines' \in [Schedules -> SUBSET Lines]
        /\ saves' \in [Savers -> Save \cup {Idle}]
    BY <1>4, <2>1 DEF Clears, TypeOK, Save
  <2> QED  BY <1>4, <2>2 DEF Clears, TypeOK, payments, Payment!TypeOK
<1>5. ASSUME NEW v \in Savers, NEW p \in Payees, Adds(v, p)
      PROVE  TypeOK'
  <2>1. saves[v] \in Save
    BY <1>5 DEF Adds, TypeOK, Idle
  <2>2. lines' \in [Schedules -> SUBSET Lines]
    BY <1>5, <2>1 DEF Adds, TypeOK, Save, Lines
  <2>3. saves' \in [Savers -> Save \cup {Idle}]
    <3>1. CASE saves[v].todo = {p}
      BY <1>5, <3>1 DEF Adds, TypeOK
    <3>2. CASE saves[v].todo # {p}
      BY <1>5, <2>1, <3>2 DEF Adds, TypeOK, Save
    <3> QED  BY <3>1, <3>2
  <2> QED  BY <1>5, <2>2, <2>3 DEF Adds, TypeOK, payments, Payment!TypeOK
<1>6. ASSUME NEW s \in Schedules, Pause(s) \/ Stop(s)
      PROVE  TypeOK'
  <2>0. schedules[s] \in Schedule
    BY DEF TypeOK
  <2>1. schedules' \in [Schedules -> Schedule]
    <3>1. CASE Pause(s)
      BY <3>1, <2>0 DEF Pause, TypeOK, Schedule
    <3>2. CASE Stop(s)
      <4> DEFINE x == [schedules[s] EXCEPT !.state = "stopped", !.next = NoDate]
      <4>1. x \in Schedule
        BY <2>0 DEF Schedule
      <4>2. schedules' = [schedules EXCEPT ![s] = x]
        BY <3>2, ZenonT(40) DEF Stop, TypeOK, Schedule
      <4> HIDE DEF x
      <4> QED  BY <4>1, <4>2 DEF TypeOK
    <3> QED  BY <1>6, <3>1, <3>2
  <2> QED  BY <1>6, <2>1 DEF Pause, Stop, TypeOK, payments, Payment!TypeOK
<1>7. ASSUME NEW v \in Savers, NEW s \in Schedules, Resume(v, s)
      PROVE  TypeOK'
  <2>0. schedules[s] \in Schedule
    BY DEF TypeOK
  <2>1. schedules[s].days \subseteq Dates
    BY <2>0 DEF Schedule
  <2>2. FirstToCome(schedules[s].days) \in Dates
    BY <1>7, <2>1, FirstType DEF Resume
  <2>3. saves' \in [Savers -> Save \cup {Idle}]
    BY <1>7, <2>1, <2>2 DEF Resume, TypeOK, Save
  <2> QED  BY <1>7, <2>3 DEF Resume, TypeOK, payments, Payment!TypeOK
<1>8. ASSUME NEW v \in Savers, Resumes(v)
      PROVE  TypeOK'
  <2> DEFINE s == saves[v].schedule
             x == [schedules[s] EXCEPT !.state = "active", !.next = saves[v].next]
  <2>1. saves[v] \in Save
    BY <1>8 DEF Resumes, TypeOK, Idle
  <2>2. s \in Schedules /\ schedules[s] \in Schedule /\ saves[v].next \in Dates
    BY <2>1 DEF Save, TypeOK
  <2>3. x \in Schedule
    BY <2>2 DEF Schedule
  <2>4. schedules' = schedules \/ schedules' = [schedules EXCEPT ![s] = x]
    BY <1>8, <2>2 DEF Resumes, TypeOK, Schedule
  <2> HIDE DEF x, s
  <2>5. schedules' \in [Schedules -> Schedule]
    BY <2>2, <2>3, <2>4 DEF TypeOK
  <2>6. saves' \in [Savers -> Save \cup {Idle}]
    BY <1>8 DEF Resumes, TypeOK
  <2> QED  BY <1>8, <2>5, <2>6 DEF Resumes, TypeOK, payments, Payment!TypeOK
<1> QED  BY <1>1, <1>2, <1>3, <1>4, <1>5, <1>6, <1>7, <1>8 DEF Owner

(* What the steps of a pass leave alone, they leave with its type.         *)
LEMMA StepTypes ==
  ASSUME TypeOK,
         runs' \in [Keys -> RunStates \cup {"none"}],
         copies' \in [Keys -> [Lines -> LineStates \cup {"none"}]],
         workers' \in [Workers -> Worker \cup {Idle}],
         UNCHANGED <<owners, now, crashes>>,
         UNCHANGED payments
  PROVE  TypeOK'
BY DEF TypeOK, owners, payments, Payment!TypeOK

LEMMA WorkingType ==
  ASSUME NEW due \in SUBSET Entry
  PROVE  Working(due) \in Worker
BY DEF Working, Worker

LEMMA ReconcileTypes ==
  ASSUME TypeOK, Reconcile
  PROVE  /\ runs' \in [Keys -> RunStates \cup {"none"}]
         /\ copies' \in [Keys -> [Lines -> LineStates \cup {"none"}]]
<1>1. PICK U \in Unknowable :
        /\ copies' = Answered(U)
        /\ runs' = [k \in Keys |->
             IF runs[k] = "sending" /\ In(Answered(U)[k], Open) = {}
               THEN Settled(Answered(U)[k]) ELSE runs[k]]
  BY DEF Reconcile
<1>2. \A copy : Settled(copy) \in RunStates
  BY DEF Settled, RunStates
<1>3. runs' \in [Keys -> RunStates \cup {"none"}]
  BY <1>1, <1>2 DEF TypeOK
<1>4. copies' \in [Keys -> [Lines -> LineStates \cup {"none"}]]
  <2>1. ASSUME NEW k \in Keys, NEW l \in Lines
        PROVE  Answered(U)[k][l] \in LineStates \cup {"none"}
    BY <2>1 DEF Answered, Answer, TypeOK, LineStates
  <2>2. \A k \in Keys : Answered(U)[k] = [l \in Lines |-> Answered(U)[k][l]]
    BY DEF Answered
  <2>3. Answered(U) = [k \in Keys |-> Answered(U)[k]]
    BY DEF Answered
  <2> HIDE DEF Answered
  <2>4. \A k \in Keys : Answered(U)[k] \in [Lines -> LineStates \cup {"none"}]
    BY <2>1, <2>2
  <2> QED  BY <1>1, <2>3, <2>4
<1> QED  BY <1>3, <1>4

LEMMA PassTypes ==
  ASSUME TypeOK, NEW w \in Workers, Step(w)
  PROVE  TypeOK'
<1> USE ScheduleAssumption, Constants
<1>1. CASE Begin(w)
  <2> DEFINE due == {[schedule |-> s, days |-> schedules[s].days, next |-> schedules[s].next] :
                      s \in {s \in Schedules : schedules[s].state = "active" /\ schedules[s].next \in Dates}}
  <2>1. due \in SUBSET Entry
    BY DEF TypeOK, Schedule, Entry
  <2> HIDE DEF due
  <2>2. workers' = [workers EXCEPT ![w] = Working(due)]
    BY <1>1 DEF Begin, due
  <2>3. workers' \in [Workers -> Worker \cup {Idle}]
    BY <2>1, <2>2, WorkingType DEF TypeOK
  <2>4. Reconcile
    BY <1>1 DEF Begin
  <2> QED  BY <1>1, <2>3, <2>4, ReconcileTypes, StepTypes DEF Begin
<1>2. CASE End(w)
  <2>1. workers' \in [Workers -> Worker \cup {Idle}]
    BY <1>2 DEF End, TypeOK
  <2>2. Reconcile
    BY <1>2 DEF End
  <2> QED  BY <1>2, <2>1, <2>2, ReconcileTypes, StepTypes DEF End
<1> SUFFICES ASSUME workers[w] # Idle, Step(w), ~Begin(w), ~End(w)
             PROVE  TypeOK'
  BY <1>1, <1>2 DEF Step, Begin, AllSent, At, Idle
<1>0. /\ workers[w] \in Worker
      /\ runs \in [Keys -> RunStates \cup {"none"}]
      /\ copies \in [Keys -> [Lines -> LineStates \cup {"none"}]]
      /\ workers \in [Workers -> Worker \cup {Idle}]
  BY DEF TypeOK
<1>w. Working(workers[w].due) \in Worker
  BY <1>0, WorkingType DEF Worker
<1>e. \A e \in workers[w].due \cup workers[w].entry : e \in Entry
  BY <1>0 DEF Worker
<1>3. ASSUME NEW e \in workers[w].due, Leaves(w, e)
      PROVE  TypeOK'
  <2>1. workers' \in [Workers -> Worker \cup {Idle}]
    BY <1>0, <1>3 DEF Leaves, Worker
  <2> QED  BY <1>0, <1>3, <2>1, StepTypes DEF Leaves
<1>4. ASSUME NEW e \in workers[w].due, Inserts(w, e)
      PROVE  TypeOK'
  <2> DEFINE k == <<e.schedule, e.next>>
             x == [workers[w] EXCEPT !.at = "advancing", !.due = workers[w].due \ {e}, !.entry = {e},
                     !.run = IF Ours(k) /\ ~Missed(e.next) THEN {k} ELSE {},
                     !.todo = IF Ours(k) /\ ~Missed(e.next) THEN lines[e.schedule] ELSE {}]
  <2>1. e \in Entry /\ k \in Keys /\ lines[e.schedule] \subseteq Lines
    BY <1>e DEF Entry, Keys, TypeOK
  <2>2. x \in Worker
    BY <1>0, <2>1 DEF Worker
  <2>3. workers' = [workers EXCEPT ![w] = x]
    BY <1>4 DEF Inserts
  <2>4. runs' \in [Keys -> RunStates \cup {"none"}]
    BY <1>0, <1>4, <2>1 DEF Inserts, RunStates
  <2> HIDE DEF x
  <2>5. workers' \in [Workers -> Worker \cup {Idle}]
    BY <1>0, <2>2, <2>3
  <2> QED  BY <1>0, <1>4, <2>4, <2>5, StepTypes DEF Inserts
<1>5. ASSUME NEW e \in workers[w].entry, Advances(w, e)
      PROVE  TypeOK'
  <2>1. e \in Entry /\ NextAfter(e.days, e.next) \in Dates \cup {NoDate}
    <3>1. e \in Entry /\ e.days \subseteq Dates
      BY <1>e DEF Entry
    <3> QED  BY <3>1, FirstType
  <2>2. workers' \in [Workers -> Worker \cup {Idle}]
    <3> DEFINE x == [workers[w] EXCEPT !.at = "copying", !.entry = {}]
    <3>1. x \in Worker
      BY <1>0 DEF Worker
    <3>2. workers' = [workers EXCEPT ![w] = Working(workers[w].due)] \/ workers' = [workers EXCEPT ![w] = x]
      BY <1>5, <1>0 DEF Advances
    <3> HIDE DEF x
    <3> QED  BY <1>0, <1>w, <3>1, <3>2
  <2>3. schedules' \in [Schedules -> Schedule]
    <3> DEFINE s == e.schedule
               next == NextAfter(e.days, e.next)
               x == [schedules[s] EXCEPT !.next = next, !.state = StateAfter(s, next)]
    <3>1. s \in Schedules /\ schedules[s] \in Schedule
      BY <2>1 DEF Entry, TypeOK
    <3>2. StateAfter(s, next) \in {"none", "active", "paused", "stopped", "finished"}
      BY <3>1 DEF StateAfter, Schedule
    <3>3. x \in Schedule
      BY <2>1, <3>1, <3>2 DEF Schedule
    <3>4. schedules' = schedules \/ schedules' = [schedules EXCEPT ![s] = x]
      BY <1>5, <3>1 DEF Advances, TypeOK, Schedule
    <3> HIDE DEF x, s
    <3> QED  BY <3>1, <3>3, <3>4 DEF TypeOK
  <2> QED  BY <1>0, <1>5, <2>2, <2>3 DEF Advances, TypeOK, payments, Payment!TypeOK
<1>6. ASSUME NEW k \in workers[w].run, Copies(w, k)
      PROVE  TypeOK'
  <2>1. k \in Keys
    BY <1>0 DEF Worker
  <2> DEFINE x == [workers[w] EXCEPT !.at = "checking", !.todo = {}]
  <2>2. x \in Worker
    BY <1>0 DEF Worker
  <2>3. workers' = [workers EXCEPT ![w] = x]
    BY <1>6 DEF Copies
  <2> HIDE DEF x
  <2>4. workers' \in [Workers -> Worker \cup {Idle}]
    BY <1>0, <2>2, <2>3
  <2>5. copies' \in [Keys -> [Lines -> LineStates \cup {"none"}]]
    BY <1>0, <1>6, <2>1 DEF Copies, LineStates
  <2> QED  BY <1>0, <1>6, <2>4, <2>5, StepTypes DEF Copies
<1>7. ASSUME NEW k \in workers[w].run, Refuses(w, k)
      PROVE  TypeOK'
  <2>1. runs' \in [Keys -> RunStates \cup {"none"}]
    BY <1>0, <1>7 DEF Refuses, WherePrepared, RunStates
  <2>2. workers' \in [Workers -> Worker \cup {Idle}]
    BY <1>0, <1>w, <1>7 DEF Refuses, NextEntry
  <2> QED  BY <1>0, <1>7, <2>1, <2>2, StepTypes DEF Refuses
<1>8. ASSUME NEW k \in workers[w].run, Goes(w, k)
      PROVE  TypeOK'
  <2>1. runs' \in [Keys -> RunStates \cup {"none"}]
    BY <1>0, <1>8 DEF Goes, WherePrepared, RunStates
  <2> DEFINE x == [workers[w] EXCEPT !.at = "calling", !.todo = In(copies[k], {"waiting"})]
  <2>2. x \in Worker
    BY <1>0 DEF Worker, In
  <2>3. workers' = [workers EXCEPT ![w] = x]
    BY <1>8 DEF Goes
  <2> HIDE DEF x
  <2>4. workers' \in [Workers -> Worker \cup {Idle}]
    BY <1>0, <2>2, <2>3
  <2> QED  BY <1>0, <1>8, <2>1, <2>4, StepTypes DEF Goes
<1>9. ASSUME NEW k \in workers[w].run, NEW l \in Lines, Calls(w, k, l)
      PROVE  TypeOK'
  <2> DEFINE x == [workers[w] EXCEPT !.at = "noting", !.line = {l}]
  <2>1. x \in Worker
    BY <1>0 DEF Worker
  <2>2. workers' = [workers EXCEPT ![w] = x]
    BY <1>9 DEF Calls
  <2> HIDE DEF x
  <2>3. workers' \in [Workers -> Worker \cup {Idle}]
    BY <1>0, <2>1, <2>2
  <2>4. k \in Keys
    BY <1>0 DEF Worker
  <2>5. stage' \in [Keys \X Lines -> Payment!Stages] /\ paidBy' = paidBy
    BY <1>9, <2>4, ZenonT(40)
    DEF Calls, Payment!Enter, Payment!Becomes, Payment!Stages, TypeOK, Payment!TypeOK
  <2>6. again' \subseteq Keys \X Lines
    BY <1>9, <2>4 DEF Calls, TypeOK
  <2> QED  BY <1>9, <2>3, <2>5, <2>6 DEF Calls, TypeOK, owners, Payment!TypeOK
<1>n. \A l \in Lines : NextLine(w, l) \in [Workers -> Worker \cup {Idle}]
  <2> SUFFICES ASSUME NEW l \in Lines PROVE NextLine(w, l) \in [Workers -> Worker \cup {Idle}]
    OBVIOUS
  <2> DEFINE x == [workers[w] EXCEPT !.at = "calling", !.line = {}, !.todo = workers[w].todo \ {l}]
  <2>1. x \in Worker
    BY <1>0 DEF Worker
  <2>2. NextLine(w, l) = [workers EXCEPT ![w] = x]
    BY DEF NextLine
  <2> HIDE DEF x
  <2> QED  BY <1>0, <2>1, <2>2
<1>10. ASSUME NEW k \in workers[w].run, NEW l \in Lines, Notes(w, k, l) \/ Threw(w, k, l)
       PROVE  TypeOK'
  <2>1. k \in Keys
    BY <1>0 DEF Worker
  <2>2. PICK state \in LineStates : copies' = [copies EXCEPT ![k][l] = state]
    BY <1>10 DEF Notes, Threw, Returned, LineStates
  <2>3. copies' \in [Keys -> [Lines -> LineStates \cup {"none"}]]
    BY <1>0, <2>1, <2>2
  <2>4. workers' \in [Workers -> Worker \cup {Idle}]
    BY <1>10, <1>n DEF Notes, Threw
  <2> QED  BY <1>0, <1>10, <2>3, <2>4, StepTypes DEF Notes, Threw
<1>11. CASE AllSent(w)
  <2>1. workers' \in [Workers -> Worker \cup {Idle}]
    BY <1>0, <1>w, <1>11 DEF AllSent, NextEntry
  <2> QED  BY <1>0, <1>11, <2>1, StepTypes DEF AllSent
<1> QED  BY <1>3, <1>4, <1>5, <1>6, <1>7, <1>8, <1>9, <1>10, <1>11 DEF Step, Sending

LEMMA PaymentKeepsType ==
  ASSUME Payment!TypeOK, NEW x \in Keys \X Lines, PaymentMoves(x)
  PROVE  Payment!TypeOK'
BY DEF PaymentMoves, Payment!Decide, Payment!Pay, Payment!Settle, Payment!Becomes, Payment!TypeOK, Payment!Stages

LEMMA TypeStep ==
  ASSUME TypeOK, [Next]_vars
  PROVE  TypeOK'
<1>1. CASE Owner
  BY <1>1, OwnerTypes
<1>2. ASSUME NEW w \in Workers, Step(w)
      PROVE  TypeOK'
  BY <1>2, PassTypes
<1>3. ASSUME NEW w \in Workers, NEW k \in Keys, Retry(w, k)
      PROVE  TypeOK'
  <2> DEFINE x == [Working({}) EXCEPT !.at = "checking", !.run = {k}]
  <2>1. x \in Worker
    BY DEF Working, Worker
  <2>2. workers' = [workers EXCEPT ![w] = x]
    BY <1>3 DEF Retry
  <2> HIDE DEF x
  <2>3. workers' \in [Workers -> Worker \cup {Idle}]
    BY <2>1, <2>2 DEF TypeOK
  <2>4. runs' \in [Keys -> RunStates \cup {"none"}]
    BY <1>3 DEF Retry, TypeOK, RunStates
  <2>5. copies' \in [Keys -> [Lines -> LineStates \cup {"none"}]]
    BY <1>3 DEF Retry, TypeOK
  <2> QED  BY <1>3, <2>3, <2>4, <2>5, StepTypes DEF Retry
<1>4. ASSUME NEW t \in Clock, ClockMoves(t)
      PROVE  TypeOK'
  BY <1>4 DEF ClockMoves, TypeOK, owners, payments, Payment!TypeOK
<1>5. ASSUME NEW x \in Keys \X Lines, PaymentMoves(x)
      PROVE  TypeOK'
  <2>1. Payment!TypeOK'
    BY <1>5, PaymentKeepsType DEF TypeOK
  <2> QED  BY <1>5, <2>1 DEF PaymentMoves, TypeOK, owners
<1>6. CASE Crash
  <2>1. crashes' \in 0..MaxCrashes
    BY <1>6, ScheduleAssumption DEF Crash, TypeOK
  <2>2. /\ saves' \in [Savers -> Save \cup {Idle}]
        /\ workers' \in [Workers -> Worker \cup {Idle}]
    BY <1>6 DEF Crash
  <2> QED  BY <1>6, <2>1, <2>2 DEF Crash, TypeOK, payments, Payment!TypeOK
<1>7. CASE UNCHANGED vars
  BY <1>7 DEF vars, TypeOK, Payment!TypeOK
<1> QED  BY <1>1, <1>2, <1>3, <1>4, <1>5, <1>6, <1>7 DEF Next, Outside

LEMMA InitType ==
  ASSUME Init
  PROVE  TypeOK
<1> USE ScheduleAssumption
<1>1. schedules \in [Schedules -> Schedule]
  BY DEF Init, NoSchedule, Schedule
<1>2. copies \in [Keys -> [Lines -> LineStates \cup {"none"}]]
  BY DEF Init, Empty
<1>3. Payment!TypeOK
  BY DEF Init, Payment!Init, Payment!TypeOK, Payment!Stages
<1> QED  BY <1>1, <1>2, <1>3 DEF Init, TypeOK

(* Every row, and everything a pass or a request holds in memory, keeps    *)
(* the shape migration 048 and the code give it.                           *)
THEOREM TypeCorrect == Spec => []TypeOK
BY InitType, TypeStep, PTL DEF Spec

(***************************************************************************)
(* The steps that take no run in hand and send nothing.                    *)
(***************************************************************************)

Ended == {"done", "failed", "partly_failed"}
Unsent == {"none", "prepared", "refused", "missed"}
BeforeSending == {"advancing", "copying", "checking"}
WhileSending == {"calling", "noting"}

\* A pass lets go of its run, or keeps it where it is.
Keeps(w) ==
  \/ \A k \in Keys : ~Holds(w, k)'
  \/ /\ workers[w] # Idle /\ workers'[w] # Idle /\ workers'[w].run = workers[w].run
     /\ \/ workers[w].at \in BeforeSending /\ workers'[w].at \in BeforeSending
        \/ workers'[w].at = workers[w].at /\ workers'[w].todo = workers[w].todo
           /\ workers'[w].line = workers[w].line

\* What becomes of a run that is not taken in hand.
Rests(k) ==
  \/ runs'[k] = runs[k]
  \/ runs[k] = "sending" /\ runs'[k] \in Ended
  \/ runs[k] = "none" /\ runs'[k] = "missed"
  \/ runs[k] = "prepared" /\ runs'[k] = "refused" /\ \A w \in Workers : ~Holds(w, k)'

StillWaits(k) ==
  runs[k] # "prepared" => \A l \in Lines : copies[k][l] = "waiting" => copies'[k][l] = "waiting"

LEMMA Quiet ==
  ASSUME Handled, TypeOK', EndedIsOver',
         \A w \in Workers : Keeps(w),
         \A k \in Keys : Rests(k) /\ StillWaits(k),
         \A x \in Keys \X Lines : stage'[x] = "none" <=> stage[x] = "none",
         again' = again
  PROVE  Handled'
<1> USE DEF Handled
<1>1. PaidOnce'
  BY DEF PaidOnce
<1>2. UnsentPaidNobody'
  <2> SUFFICES ASSUME NEW k \in Keys, runs'[k] \in Unsent, NEW l \in Lines
               PROVE  stage'[<<k, l>>] = "none"
    BY DEF UnsentPaidNobody, Unsent
  <2>1. runs[k] \in Unsent
    BY DEF Rests, Unsent, Ended
  <2> QED  BY <2>1 DEF UnsentPaidNobody, Unsent
<1>3. \A w \in Workers, k \in Keys : Holds(w, k)' => Holds(w, k)
  BY DEF Keeps, Holds
<1>4. OneHand'
  BY <1>3 DEF OneHand, Keeps, Holds
<1>5. PreparedFirst'
  <2> SUFFICES ASSUME NEW w \in Workers, NEW k \in Keys, Holds(w, k)'
               PROVE  /\ workers'[w].at # "choosing"
                      /\ workers'[w].at \in BeforeSending => runs'[k] = "prepared"
                      /\ workers'[w].at \in WhileSending => runs'[k] \notin Unsent
    BY DEF PreparedFirst, BeforeSending, WhileSending, Unsent
  <2>1. /\ workers[w].at # "choosing"
        /\ workers[w].at \in BeforeSending => runs[k] = "prepared"
        /\ workers[w].at \in WhileSending => runs[k] \notin Unsent
    BY <1>3 DEF PreparedFirst, BeforeSending, WhileSending, Unsent
  <2>2. \/ workers[w].at \in BeforeSending /\ workers'[w].at \in BeforeSending
        \/ workers'[w].at = workers[w].at
    BY DEF Keeps
  <2>3. /\ runs[k] = "prepared" => runs'[k] = "prepared"
        /\ runs[k] \notin Unsent => runs'[k] \notin Unsent
    BY DEF Rests, Unsent, Ended
  <2> QED  BY <2>1, <2>2, <2>3 DEF BeforeSending, WhileSending
<1>6. StillToSend'
  <2> SUFFICES ASSUME NEW w \in Workers, NEW k \in Keys, Holds(w, k)', workers'[w].at \in WhileSending,
                      NEW l \in workers'[w].todo
               PROVE  /\ copies'[k][l] = "waiting"
                      /\ stage'[<<k, l>>] = "none" \/ (workers'[w].at = "noting" /\ l \in workers'[w].line)
    BY DEF StillToSend, WhileSending
  <2>1. /\ workers'[w].at = workers[w].at /\ workers'[w].todo = workers[w].todo
        /\ workers'[w].line = workers[w].line
    BY DEF Keeps, BeforeSending, WhileSending
  <2>2. Holds(w, k) /\ workers[w] \in Worker
    BY <1>3 DEF TypeOK, Holds
  <2>3. l \in Lines /\ runs[k] # "prepared"
    BY <2>1, <2>2 DEF Worker, PreparedFirst, WhileSending
  <2>4. /\ copies[k][l] = "waiting"
        /\ stage[<<k, l>>] = "none" \/ (workers[w].at = "noting" /\ l \in workers[w].line)
    BY <2>1, <2>2 DEF StillToSend, WhileSending
  <2> QED  BY <2>1, <2>3, <2>4 DEF StillWaits
<1>7. LineInHand'
  <2> SUFFICES ASSUME NEW w \in Workers, NEW k \in Keys, Holds(w, k)', workers'[w].at = "noting",
                      NEW l \in workers'[w].line
               PROVE  l \in workers'[w].todo /\ workers'[w].line = {l}
    BY DEF LineInHand
  <2> QED  BY <1>3 DEF LineInHand, Keeps, BeforeSending
<1> QED  BY <1>1, <1>2, <1>4, <1>5, <1>6, <1>7

\* Reconciling ends only runs without a line that waits or reads as sent.
LEMMA ReconcileRests ==
  ASSUME Handled, Reconcile
  PROVE  /\ \A k \in Keys : Rests(k) /\ StillWaits(k)
         /\ EndedIsOver'
<1>1. PICK U \in Unknowable :
        /\ copies' = Answered(U)
        /\ runs' = [k \in Keys |->
             IF runs[k] = "sending" /\ In(Answered(U)[k], Open) = {}
               THEN Settled(Answered(U)[k]) ELSE runs[k]]
  BY DEF Reconcile
<1>2. \A copy : Settled(copy) \in Ended
  BY DEF Settled, Ended
<1>3. ASSUME NEW k \in Keys
      PROVE  Rests(k) /\ StillWaits(k)
  <2>1. Rests(k)
    BY <1>1, <1>2 DEF Rests
  <2>2. StillWaits(k)
    BY <1>1 DEF StillWaits, Answered
  <2> QED  BY <2>1, <2>2
<1>4. EndedIsOver'
  <2> SUFFICES ASSUME NEW k \in Keys, runs'[k] \in Ended, NEW l \in Lines, copies'[k][l] \in {"waiting", "sent"}
               PROVE  FALSE
    BY DEF EndedIsOver, Ended, In
  <2>1. CASE runs[k] = "sending"
    <3>1. In(copies'[k], Open) = {}
      BY <1>1, <2>1 DEF Ended
    <3> QED  BY <3>1 DEF In, Open
  <2>2. CASE runs[k] # "sending"
    <3>1. runs[k] \in Ended /\ copies'[k][l] = copies[k][l]
      BY <1>1, <2>2 DEF Answered
    <3> QED  BY <3>1 DEF Handled, EndedIsOver, Ended, In
  <2> QED  BY <2>1, <2>2
<1> QED  BY <1>3, <1>4

\* A step that touches neither the runs nor what a pass holds.
LEMMA Aside ==
  ASSUME Handled, TypeOK', UNCHANGED <<runs, copies, workers, again>>,
         \A x \in Keys \X Lines : stage'[x] = "none" <=> stage[x] = "none"
  PROVE  Handled'
<1>1. \A w \in Workers : Keeps(w)
  BY DEF Keeps, Holds
<1>2. \A k \in Keys : Rests(k) /\ StillWaits(k)
  BY DEF Rests, StillWaits
<1>3. EndedIsOver'
  BY DEF Handled, EndedIsOver, In
<1> QED  BY <1>1, <1>2, <1>3, Quiet

\* A step of one pass.
LEMMA OfOnePass ==
  ASSUME Handled, TypeOK', EndedIsOver',
         NEW w \in Workers, NEW r, workers' = [workers EXCEPT ![w] = r], Keeps(w),
         \A k \in Keys : Rests(k) /\ StillWaits(k),
         UNCHANGED <<stage, again>>
  PROVE  Handled'
<1>1. ASSUME NEW v \in Workers
      PROVE  Keeps(v)
  <2>1. CASE v = w
    BY <2>1
  <2>2. CASE v # w
    BY <2>2 DEF Keeps, Holds, Handled, TypeOK
  <2> QED  BY <2>1, <2>2
<1> QED  BY <1>1, Quiet

LEMMA SameRuns ==
  ASSUME Handled, UNCHANGED <<runs, copies>>
  PROVE  EndedIsOver' /\ \A k \in Keys : Rests(k) /\ StillWaits(k)
BY DEF Handled, EndedIsOver, In, Rests, StillWaits

LEMMA PassesOn ==
  ASSUME Handled, TypeOK', NEW w \in Workers,
         \/ Begin(w) \/ AllSent(w) \/ End(w)
         \/ workers[w] # Idle /\ \E e \in workers[w].due : Leaves(w, e)
         \/ workers[w] # Idle /\ \E e \in workers[w].entry : Advances(w, e)
  PROVE  Handled'
<1>0. workers \in [Workers -> Worker \cup {Idle}]
  BY DEF Handled, TypeOK
<1>1. ASSUME Begin(w) \/ End(w)
      PROVE  Handled'
  <2>1. PICK r : workers' = [workers EXCEPT ![w] = r] /\ (r = Idle \/ r.run = {})
    BY <1>1 DEF Begin, End, Working
  <2>2. Keeps(w)
    BY <1>0, <2>1 DEF Keeps, Holds
  <2>3. Reconcile /\ UNCHANGED payments
    BY <1>1 DEF Begin, End
  <2> QED  BY <2>1, <2>2, <2>3, ReconcileRests, OfOnePass DEF payments
<1>2. CASE AllSent(w)
  <2>1. workers' = [workers EXCEPT ![w] = Working(workers[w].due)]
    BY <1>2 DEF AllSent, NextEntry
  <2>2. Keeps(w)
    BY <1>0, <2>1 DEF Keeps, Holds, Working
  <2> QED  BY <1>2, <2>1, <2>2, SameRuns, OfOnePass DEF AllSent, payments
<1>3. ASSUME workers[w] # Idle, NEW e \in workers[w].due, Leaves(w, e)
      PROVE  Handled'
  <2> DEFINE r == [workers[w] EXCEPT !.due = @ \ {e}]
  <2>1. workers[w] \in Worker
    BY <1>0, <1>3
  <2>2. /\ r \in Worker /\ r.run = workers[w].run /\ r.at = workers[w].at
        /\ r.todo = workers[w].todo /\ r.line = workers[w].line
    BY <2>1 DEF Worker
  <2>3. workers' = [workers EXCEPT ![w] = r]
    BY <1>0, <1>3, <2>1 DEF Leaves, Worker
  <2> HIDE DEF r
  <2>4. Keeps(w)
    BY <1>0, <1>3, <2>2, <2>3, Constants DEF Keeps
  <2> QED  BY <1>3, <2>3, <2>4, SameRuns, OfOnePass DEF Leaves, payments
<1>4. ASSUME workers[w] # Idle, NEW e \in workers[w].entry, Advances(w, e)
      PROVE  Handled'
  <2> DEFINE r == [workers[w] EXCEPT !.at = "copying", !.entry = {}]
  <2>1. workers[w] \in Worker
    BY <1>0, <1>4
  <2>2. r \in Worker /\ r.run = workers[w].run /\ r.at = "copying" /\ workers[w].at = "advancing"
    BY <1>4, <2>1 DEF Worker, Advances, At
  <2>3. workers' = [workers EXCEPT ![w] = Working(workers[w].due)] \/ workers' = [workers EXCEPT ![w] = r]
    BY <1>4 DEF Advances
  <2> HIDE DEF r
  <2>4. CASE workers' = [workers EXCEPT ![w] = Working(workers[w].due)]
    <3>1. Keeps(w)
      BY <1>0, <2>4 DEF Keeps, Holds, Working
    <3> QED  BY <1>4, <2>4, <3>1, SameRuns, OfOnePass DEF Advances, payments
  <2>5. CASE workers' = [workers EXCEPT ![w] = r]
    <3>1. Keeps(w)
      BY <1>0, <1>4, <2>2, <2>5, Constants DEF Keeps, BeforeSending
    <3> QED  BY <1>4, <2>5, <3>1, SameRuns, OfOnePass DEF Advances, payments
  <2> QED  BY <2>3, <2>4, <2>5
<1> QED  BY <1>1, <1>2, <1>3, <1>4

\* The lines are copied before the run is sent, or the run is refused.
LEMMA PreparesOrRefuses ==
  ASSUME Handled, TypeOK', NEW w \in Workers, NEW k \in Keys, Holds(w, k), Copies(w, k) \/ Refuses(w, k)
  PROVE  Handled'
<1>0. /\ workers \in [Workers -> Worker \cup {Idle}] /\ workers[w] \in Worker
      /\ runs \in [Keys -> RunStates \cup {"none"}]
      /\ copies \in [Keys -> [Lines -> LineStates \cup {"none"}]]
  BY DEF Handled, TypeOK, Holds
<1>1. workers[w].at \in BeforeSending /\ runs[k] = "prepared"
  BY DEF Copies, Refuses, At, BeforeSending, Handled, PreparedFirst
<1>2. CASE Copies(w, k)
  <2> DEFINE r == [workers[w] EXCEPT !.at = "checking", !.todo = {}]
  <2>1. r \in Worker /\ r.run = workers[w].run /\ r.at \in BeforeSending
    BY <1>0 DEF Worker, BeforeSending
  <2>2. workers' = [workers EXCEPT ![w] = r]
    BY <1>2 DEF Copies
  <2> HIDE DEF r
  <2>3. Keeps(w)
    BY <1>0, <1>1, <2>1, <2>2, Constants DEF Keeps, Holds
  <2>4. /\ runs' = runs /\ UNCHANGED payments
        /\ \A j \in Keys \ {k} : copies'[j] = copies[j]
    BY <1>0, <1>2 DEF Copies
  <2>5. \A j \in Keys : Rests(j) /\ StillWaits(j)
    BY <1>1, <2>4 DEF Rests, StillWaits
  <2>6. EndedIsOver'
    BY <1>1, <2>4 DEF EndedIsOver, Handled, In
  <2> QED  BY <2>2, <2>3, <2>4, <2>5, <2>6, OfOnePass DEF payments
<1>3. CASE Refuses(w, k)
  <2>1. workers' = [workers EXCEPT ![w] = Working(workers[w].due)]
    BY <1>3 DEF Refuses, NextEntry
  <2>2. \A v \in Workers : ~Holds(v, k)'
    BY <1>0, <2>1 DEF Holds, Working, Handled, OneHand
  <2>3. Keeps(w)
    BY <1>0, <2>1 DEF Keeps, Holds, Working
  <2>4. runs' = [runs EXCEPT ![k] = "refused"] /\ copies' = copies /\ UNCHANGED payments
    BY <1>1, <1>3 DEF Refuses, WherePrepared
  <2>5. \A j \in Keys : Rests(j) /\ StillWaits(j)
    BY <1>0, <1>1, <2>2, <2>4 DEF Rests, StillWaits
  <2>6. EndedIsOver'
    BY <1>0, <2>4 DEF EndedIsOver, Handled, In
  <2> QED  BY <2>1, <2>3, <2>4, <2>5, <2>6, OfOnePass DEF payments
<1> QED  BY <1>2, <1>3

(***************************************************************************)
(* The steps that take a run in hand, and send its lines.                  *)
(***************************************************************************)

\* A run nobody has in hand is taken: just inserted, or flipped back.
LEMMA Takes ==
  ASSUME Handled, TypeOK', NEW w \in Workers, NEW k \in Keys, NEW r,
         \A j \in Keys : ~Holds(w, j),
         runs[k] \in {"none", "refused"}, runs' = [runs EXCEPT ![k] = "prepared"],
         workers' = [workers EXCEPT ![w] = r], r \in Worker, r.run = {k}, r.at \in BeforeSending,
         UNCHANGED <<copies, stage, again>>
  PROVE  Handled'
<1> USE DEF Handled
<1>0. /\ workers \in [Workers -> Worker \cup {Idle}]
      /\ runs \in [Keys -> RunStates \cup {"none"}]
      /\ r # Idle
  BY Constants DEF TypeOK
<1>1. \A v \in Workers : ~Holds(v, k)
  BY <1>0, Constants DEF PreparedFirst, Holds, Worker, Idle
<1>2. \A v \in Workers, j \in Keys : Holds(v, j)' <=> (Holds(v, j) \/ (v = w /\ j = k))
  BY <1>0 DEF Holds
<1>3. PaidOnce' /\ EndedIsOver'
  BY <1>0 DEF PaidOnce, EndedIsOver, In
<1>4. UnsentPaidNobody'
  BY <1>0 DEF UnsentPaidNobody
<1>5. OneHand'
  BY <1>0, <1>1, <1>2 DEF OneHand
<1>6. PreparedFirst'
  BY <1>0, <1>1, <1>2 DEF PreparedFirst, BeforeSending
<1>7. StillToSend'
  BY <1>0, <1>2 DEF StillToSend, BeforeSending
<1>8. LineInHand'
  BY <1>0, <1>2 DEF LineInHand, BeforeSending
<1> QED  BY <1>3, <1>4, <1>5, <1>6, <1>7, <1>8

LEMMA InsertsARun ==
  ASSUME Handled, TypeOK', NEW w \in Workers, workers[w] # Idle, NEW e \in workers[w].due, Inserts(w, e)
  PROVE  Handled'
<1> DEFINE k == <<e.schedule, e.next>>
           ours == Ours(k) /\ ~Missed(e.next)
           r == [workers[w] EXCEPT !.at = "advancing", !.due = workers[w].due \ {e}, !.entry = {e},
                   !.run = IF ours THEN {k} ELSE {}, !.todo = IF ours THEN lines[e.schedule] ELSE {}]
<1>0. /\ workers \in [Workers -> Worker \cup {Idle}] /\ workers[w] \in Worker
      /\ runs \in [Keys -> RunStates \cup {"none"}]
  BY DEF Handled, TypeOK
<1>1. e \in Entry /\ k \in Keys /\ lines[e.schedule] \subseteq Lines
  <2>1. e \in Entry
    BY <1>0 DEF Worker
  <2> QED  BY <2>1 DEF Entry, Keys, Handled, TypeOK
<1>2. workers' = [workers EXCEPT ![w] = r]
  BY DEF Inserts
<1>3. r \in Worker
  BY <1>0, <1>1 DEF Worker
<1>4. r.run = (IF ours THEN {k} ELSE {}) /\ r.at = "advancing"
  BY <1>0 DEF Worker
<1>5. \A j \in Keys : ~Holds(w, j)
  BY DEF Inserts, At, Handled, PreparedFirst
<1>6. /\ runs' = IF Ours(k) THEN [runs EXCEPT ![k] = IF Missed(e.next) THEN "missed" ELSE "prepared"] ELSE runs
      /\ copies' = copies /\ UNCHANGED payments
  BY DEF Inserts
<1> HIDE DEF r, k
<1>7. CASE ours
  BY <1>0, <1>1, <1>2, <1>3, <1>4, <1>5, <1>6, <1>7, Takes DEF Ours, BeforeSending, payments
<1>8. CASE ~ours
  <2>1. Keeps(w)
    BY <1>0, <1>2, <1>4, <1>8 DEF Keeps, Holds
  <2>2. \A j \in Keys : Rests(j) /\ StillWaits(j)
    BY <1>0, <1>1, <1>6, <1>8 DEF Rests, StillWaits, Ours
  <2>3. EndedIsOver'
    BY <1>0, <1>1, <1>6, <1>8 DEF EndedIsOver, Handled, In
  <2> QED  BY <1>2, <1>6, <2>1, <2>2, <2>3, OfOnePass DEF payments
<1> QED  BY <1>7, <1>8

LEMMA RetriesARun ==
  ASSUME Handled, TypeOK', NEW w \in Workers, NEW k \in Keys, Retry(w, k)
  PROVE  Handled'
<1> DEFINE r == [Working({}) EXCEPT !.at = "checking", !.run = {k}]
<1>1. r \in Worker /\ r.run = {k} /\ r.at \in BeforeSending
  BY DEF Working, Worker, BeforeSending
<1>2. workers' = [workers EXCEPT ![w] = r]
  BY DEF Retry
<1>3. \A j \in Keys : ~Holds(w, j)
  BY DEF Retry, Holds
<1> HIDE DEF r
<1> QED  BY <1>1, <1>2, <1>3, Takes DEF Retry, Retriable, payments

\* What is about to be sent waits, and its run had paid nobody.
LEMMA GoesOut ==
  ASSUME Handled, TypeOK', NEW w \in Workers, NEW k \in Keys, Holds(w, k), Goes(w, k)
  PROVE  Handled'
<1> USE DEF Handled
<1> DEFINE r == [workers[w] EXCEPT !.at = "calling", !.todo = In(copies[k], {"waiting"})]
<1>0. /\ workers \in [Workers -> Worker \cup {Idle}] /\ workers[w] \in Worker
      /\ runs \in [Keys -> RunStates \cup {"none"}]
  BY DEF TypeOK, Holds
<1>1. workers[w].at = "checking" /\ runs[k] = "prepared"
  BY DEF Goes, At, PreparedFirst
<1>2. runs' = [runs EXCEPT ![k] = "sending"] /\ UNCHANGED <<copies, stage, again>>
  BY <1>1 DEF Goes, WherePrepared, payments
<1>3. workers' = [workers EXCEPT ![w] = r]
  BY DEF Goes
<1>4. /\ r \in Worker /\ r # Idle /\ r.run = workers[w].run /\ r.at = "calling"
      /\ r.todo = {l \in Lines : copies[k][l] = "waiting"}
  <2>1. r \in Worker
    BY <1>0 DEF Worker, In
  <2> QED  BY <1>0, <2>1, Constants DEF Worker, In
<1> HIDE DEF r
<1>5. \A v \in Workers, j \in Keys : Holds(v, j)' <=> Holds(v, j)
  BY <1>0, <1>3, <1>4 DEF Holds
<1>6. \A v \in Workers \ {w}, j \in Keys : Holds(v, j) => j # k /\ workers'[v] = workers[v]
  BY <1>0, <1>3 DEF OneHand
<1>7. \A j \in Keys : Holds(w, j) => j = k
  BY DEF OneHand, Holds
<1>8. PaidOnce' /\ EndedIsOver'
  BY <1>0, <1>2 DEF PaidOnce, EndedIsOver, In
<1>9. UnsentPaidNobody'
  BY <1>0, <1>2 DEF UnsentPaidNobody
<1>10. OneHand'
  BY <1>0, <1>3, <1>4, <1>5 DEF OneHand
<1>11. PreparedFirst'
  BY <1>0, <1>2, <1>3, <1>4, <1>5, <1>6, <1>7 DEF PreparedFirst
<1>12. StillToSend'
  <2>1. \A l \in Lines : stage[<<k, l>>] = "none"
    BY <1>1 DEF UnsentPaidNobody
  <2> QED  BY <1>0, <1>2, <1>3, <1>4, <1>5, <1>6, <1>7, <2>1 DEF StillToSend
<1>13. LineInHand'
  BY <1>0, <1>3, <1>4, <1>5, <1>6 DEF LineInHand
<1> QED  BY <1>8, <1>9, <1>10, <1>11, <1>12, <1>13

\* The line called had not been asked for, and its run is being sent.
LEMMA CallsALine ==
  ASSUME Handled, TypeOK', NEW w \in Workers, NEW k \in Keys, Holds(w, k), NEW l \in Lines, Calls(w, k, l)
  PROVE  Handled'
<1> USE DEF Handled
<1> DEFINE r == [workers[w] EXCEPT !.at = "noting", !.line = {l}]
<1>0. /\ workers \in [Workers -> Worker \cup {Idle}] /\ workers[w] \in Worker
      /\ stage \in [Keys \X Lines -> Payment!Stages]
  BY DEF TypeOK, Holds, Payment!TypeOK
<1>1. workers[w].at = "calling" /\ l \in workers[w].todo /\ runs[k] \notin Unsent
  BY DEF Calls, At, PreparedFirst, Unsent
<1>2. stage[<<k, l>>] = "none"
  BY <1>1 DEF StillToSend
<1>3. /\ again' = again /\ UNCHANGED <<runs, copies>>
      /\ \A x \in (Keys \X Lines) \ {<<k, l>>} : stage'[x] = stage[x]
  BY <1>0, <1>2 DEF Calls, Payment!Enter, Payment!Becomes
<1>4. workers' = [workers EXCEPT ![w] = r]
  BY DEF Calls
<1>5. /\ r \in Worker /\ r # Idle /\ r.run = workers[w].run /\ r.at = "noting"
      /\ r.todo = workers[w].todo /\ r.line = {l}
  <2>1. r \in Worker
    BY <1>0 DEF Worker
  <2> QED  BY <1>0, <2>1, Constants DEF Worker
<1> HIDE DEF r
<1>6. \A v \in Workers, j \in Keys : Holds(v, j)' <=> Holds(v, j)
  BY <1>0, <1>4, <1>5 DEF Holds
<1>7. \A v \in Workers \ {w}, j \in Keys : Holds(v, j) => j # k /\ workers'[v] = workers[v]
  BY <1>0, <1>4 DEF OneHand
<1>8. \A j \in Keys : Holds(w, j) => j = k
  BY DEF OneHand, Holds
<1>9. PaidOnce' /\ EndedIsOver'
  BY <1>3 DEF PaidOnce, EndedIsOver, In
<1>10. UnsentPaidNobody'
  <2> SUFFICES ASSUME NEW j \in Keys, runs'[j] \in Unsent, NEW m \in Lines
               PROVE  stage'[<<j, m>>] = "none"
    BY DEF UnsentPaidNobody, Unsent
  <2>1. j # k /\ stage[<<j, m>>] = "none"
    BY <1>1, <1>3 DEF UnsentPaidNobody, Unsent
  <2> QED  BY <1>3, <2>1
<1>11. OneHand'
  BY <1>0, <1>4, <1>5, <1>6 DEF OneHand
<1>12. PreparedFirst'
  BY <1>0, <1>1, <1>3, <1>4, <1>5, <1>6, <1>7, <1>8 DEF PreparedFirst, Unsent
<1>13. StillToSend'
  <2> SUFFICES ASSUME NEW v \in Workers, NEW j \in Keys, Holds(v, j)', workers'[v].at \in WhileSending,
                      NEW m \in workers'[v].todo
               PROVE  /\ copies'[j][m] = "waiting"
                      /\ stage'[<<j, m>>] = "none" \/ (workers'[v].at = "noting" /\ m \in workers'[v].line)
    BY DEF StillToSend, WhileSending
  <2>1. CASE v = w
    <3>1. j = k /\ m \in workers[w].todo /\ m \in Lines
      BY <1>0, <1>4, <1>5, <1>6, <1>8, <2>1 DEF Worker
    <3>2. copies[k][m] = "waiting" /\ stage[<<k, m>>] = "none"
      BY <1>1, <3>1 DEF StillToSend
    <3> QED  BY <1>0, <1>3, <1>4, <1>5, <2>1, <3>1, <3>2
  <2>2. CASE v # w
    <3>1. j # k /\ workers'[v] = workers[v] /\ Holds(v, j)
      BY <1>6, <1>7, <2>2
    <3>2. m \in Lines
      BY <3>1 DEF Holds, TypeOK, Worker
    <3> QED  BY <1>3, <3>1, <3>2 DEF StillToSend, WhileSending
  <2> QED  BY <2>1, <2>2
<1>14. LineInHand'
  BY <1>0, <1>1, <1>4, <1>5, <1>6, <1>7, <1>8 DEF LineInHand
<1> QED  BY <1>9, <1>10, <1>11, <1>12, <1>13, <1>14

\* What the call came to is written on the line, or that it threw.
LEMMA NotesALine ==
  ASSUME Handled, TypeOK', NEW w \in Workers, NEW k \in Keys, Holds(w, k), NEW l \in Lines,
         Notes(w, k, l) \/ Threw(w, k, l)
  PROVE  Handled'
<1> USE DEF Handled
<1> DEFINE r == [workers[w] EXCEPT !.at = "calling", !.line = {}, !.todo = workers[w].todo \ {l}]
<1>0. /\ workers \in [Workers -> Worker \cup {Idle}] /\ workers[w] \in Worker
      /\ copies \in [Keys -> [Lines -> LineStates \cup {"none"}]]
  BY DEF TypeOK, Holds
<1>1. workers[w].at \in WhileSending /\ l \in workers[w].todo
  BY DEF Notes, Threw, At, WhileSending, LineInHand
<1>2. /\ copies[k][l] = "waiting"
      /\ runs[k] \notin Unsent \cup Ended
  <2>1. copies[k][l] = "waiting"
    BY <1>1 DEF StillToSend, WhileSending
  <2> QED  BY <1>1, <2>1 DEF PreparedFirst, WhileSending, Unsent, EndedIsOver, Ended, In
<1>3. UNCHANGED <<runs, stage, again>>
  BY DEF Notes, Threw, payments
<1>4. \A j \in Keys, m \in Lines : j # k \/ m # l => copies'[j][m] = copies[j][m]
  BY <1>0 DEF Notes, Threw
<1>5. workers' = [workers EXCEPT ![w] = r]
  BY DEF Notes, Threw, NextLine
<1>6. /\ r \in Worker /\ r # Idle /\ r.run = workers[w].run /\ r.at = "calling"
      /\ r.todo = workers[w].todo \ {l}
  <2>1. r \in Worker
    BY <1>0 DEF Worker
  <2> QED  BY <1>0, <2>1, Constants DEF Worker
<1> HIDE DEF r
<1>7. \A v \in Workers, j \in Keys : Holds(v, j)' <=> Holds(v, j)
  BY <1>0, <1>5, <1>6 DEF Holds
<1>8. \A v \in Workers \ {w}, j \in Keys : Holds(v, j) => j # k /\ workers'[v] = workers[v]
  BY <1>0, <1>5 DEF OneHand
<1>9. \A j \in Keys : Holds(w, j) => j = k
  BY DEF OneHand, Holds
<1>10. PaidOnce' /\ UnsentPaidNobody'
  BY <1>3 DEF PaidOnce, UnsentPaidNobody
<1>11. EndedIsOver'
  BY <1>2, <1>3, <1>4 DEF EndedIsOver, Ended, In
<1>12. OneHand'
  BY <1>0, <1>5, <1>6, <1>7 DEF OneHand
<1>13. PreparedFirst'
  BY <1>0, <1>2, <1>3, <1>5, <1>6, <1>7, <1>8, <1>9 DEF PreparedFirst, Unsent
<1>14. StillToSend'
  <2> SUFFICES ASSUME NEW v \in Workers, NEW j \in Keys, Holds(v, j)', workers'[v].at \in WhileSending,
                      NEW m \in workers'[v].todo
               PROVE  /\ copies'[j][m] = "waiting"
                      /\ stage'[<<j, m>>] = "none" \/ (workers'[v].at = "noting" /\ m \in workers'[v].line)
    BY DEF StillToSend, WhileSending
  <2>1. CASE v = w
    <3>1. j = k /\ m \in workers[w].todo /\ m \in Lines /\ m # l
      BY <1>0, <1>5, <1>6, <1>7, <1>9, <2>1 DEF Worker
    <3>2. ~(workers[w].at = "noting" /\ m \in workers[w].line)
      BY <3>1 DEF Notes, Threw, At, LineInHand
    <3>3. copies[k][m] = "waiting" /\ stage[<<k, m>>] = "none"
      BY <1>1, <3>1, <3>2 DEF StillToSend, WhileSending
    <3> QED  BY <1>3, <1>4, <3>1, <3>3
  <2>2. CASE v # w
    <3>1. j # k /\ workers'[v] = workers[v] /\ Holds(v, j)
      BY <1>7, <1>8, <2>2
    <3>2. m \in Lines
      BY <3>1 DEF Holds, TypeOK, Worker
    <3> QED  BY <1>3, <1>4, <3>1, <3>2 DEF StillToSend, WhileSending
  <2> QED  BY <2>1, <2>2
<1>15. LineInHand'
  BY <1>0, <1>5, <1>6, <1>7, <1>8 DEF LineInHand
<1> QED  BY <1>10, <1>11, <1>12, <1>13, <1>14, <1>15

(***************************************************************************)
(* The theorems.                                                           *)
(***************************************************************************)

LEMMA InitHandled ==
  ASSUME Init
  PROVE  Handled
<1>1. TypeOK
  BY InitType
<1>2. \A w \in Workers, k \in Keys : ~Holds(w, k)
  BY DEF Init, Holds
<1>3. PaidOnce /\ UnsentPaidNobody /\ EndedIsOver
  <2>1. \A k \in Keys, l \in Lines : <<k, l>> \in Keys \X Lines
    OBVIOUS
  <2> QED  BY <2>1 DEF Init, Payment!Init, PaidOnce, UnsentPaidNobody, EndedIsOver
<1> QED  BY <1>1, <1>2, <1>3 DEF Handled, OneHand, PreparedFirst, StillToSend, LineInHand

\* What the owner does leaves the runs alone, and what a pass has in hand.
LEMMA OwnerLeaves ==
  Owner => UNCHANGED <<runs, copies, workers, stage, paidBy, again, crashes>>
<1>1. ASSUME NEW v \in Savers, NEW s \in Schedules, NEW days \in Timetables, NEW list \in Lists,
             Create(v, s, days, list) \/ Edit(v, s, days, list)
      PROVE  UNCHANGED <<runs, copies, workers, stage, paidBy, again, crashes>>
  BY <1>1 DEF Create, Edit, payments
<1>2. ASSUME NEW v \in Savers, NEW s \in Schedules, Resume(v, s)
      PROVE  UNCHANGED <<runs, copies, workers, stage, paidBy, again, crashes>>
  BY <1>2 DEF Resume, payments
<1>3. ASSUME NEW v \in Savers, NEW p,
             WritesRow(v) \/ Resumes(v) \/ Clears(v) \/ Adds(v, p)
      PROVE  UNCHANGED <<runs, copies, workers, stage, paidBy, again, crashes>>
  BY <1>3 DEF WritesRow, Resumes, Clears, Adds, payments
<1>4. ASSUME NEW s \in Schedules, Pause(s) \/ Stop(s)
      PROVE  UNCHANGED <<runs, copies, workers, stage, paidBy, again, crashes>>
  BY <1>4 DEF Pause, Stop, payments
<1> QED BY <1>1, <1>2, <1>3, <1>4 DEF Owner

LEMMA HandledStep ==
  ASSUME Handled, [Next]_vars
  PROVE  Handled'
<1>0. TypeOK'
  BY TypeStep DEF Handled
<1>1. CASE Owner
  <2>1. UNCHANGED <<runs, copies, workers, stage, again>>
    BY <1>1, OwnerLeaves
  <2> QED  BY <1>0, <2>1, Aside
<1>2. ASSUME NEW w \in Workers, Step(w)
      PROVE  Handled'
  <2>1. \A k : workers[w] # Idle /\ k \in workers[w].run => k \in Keys /\ Holds(w, k)
    BY DEF Handled, TypeOK, Worker, Holds
  <2>2. ASSUME workers[w] # Idle, NEW k \in workers[w].run, Sending(w, k)
        PROVE  Handled'
    BY <1>0, <2>1, <2>2, PreparesOrRefuses, GoesOut, CallsALine, NotesALine DEF Sending
  <2>3. ASSUME workers[w] # Idle, NEW e \in workers[w].due, Inserts(w, e)
        PROVE  Handled'
    BY <1>0, <2>3, InsertsARun
  <2> QED  BY <1>0, <1>2, <2>2, <2>3, PassesOn DEF Step
<1>3. ASSUME NEW w \in Workers, NEW k \in Keys, Retry(w, k)
      PROVE  Handled'
  BY <1>0, <1>3, RetriesARun
<1>4. ASSUME NEW t \in Clock, ClockMoves(t)
      PROVE  Handled'
  BY <1>0, <1>4, Aside DEF ClockMoves, payments
<1>5. ASSUME NEW x \in Keys \X Lines, PaymentMoves(x)
      PROVE  Handled'
  <2>1. \A y \in Keys \X Lines : stage'[y] = "none" <=> stage[y] = "none"
    BY <1>5 DEF PaymentMoves, Payment!Decide, Payment!Pay, Payment!Settle, Payment!Becomes,
                Handled, TypeOK, Payment!TypeOK
  <2> QED  BY <1>0, <1>5, <2>1, Aside DEF PaymentMoves
<1>6. CASE Crash
  <2>1. \A w \in Workers : Keeps(w)
    BY <1>6 DEF Crash, Keeps, Holds
  <2> QED  BY <1>0, <1>6, <2>1, SameRuns, Quiet DEF Crash, payments
<1>7. CASE UNCHANGED vars
  BY <1>0, <1>7, Aside DEF vars
<1> QED  BY <1>1, <1>2, <1>3, <1>4, <1>5, <1>6, <1>7 DEF Next, Outside

THEOREM AlwaysHandled == Spec => []Handled
BY InitHandled, HandledStep, PTL DEF Spec

(* No line of a date is ever asked of money out twice, whatever passes and *)
(* retries overlap, and wherever the server stops: ON CONFLICT, the flip   *)
(* of a refused run, and sending only what waits are enough.               *)
THEOREM PaidOnceAlways == Spec => []PaidOnce
BY AlwaysHandled, PTL DEF Handled

(* A run that reads as not started, refused or missed has paid nobody, so  *)
(* trying a refused run again is safe.                                     *)
THEOREM UnsentPaidNobodyAlways == Spec => []UnsentPaidNobody
BY AlwaysHandled, PTL DEF Handled

(* A run is not reported as ended while a line of it waits or reads as     *)
(* sent, although every pass and retry reconciles the runs of all others.  *)
THEOREM EndedIsOverAlways == Spec => []EndedIsOver
BY AlwaysHandled, PTL DEF Handled

(***************************************************************************)
(* The dates of a schedule.                                                *)
(***************************************************************************)

LEMMA DatesStep ==
  ASSUME TypeOK, OnHasNext, [Next]_vars
  PROVE  OnHasNext'
<1> USE Constants
<1>1. CASE UNCHANGED schedules
  BY <1>1 DEF OnHasNext
<1>2. ASSUME NEW s \in Schedules, NEW r, schedules' = [schedules EXCEPT ![s] = r],
             r.state = "active" => r.next # NoDate,
             r.state \in {"stopped", "finished"} => r.next = NoDate
      PROVE  OnHasNext'
  BY <1>2 DEF OnHasNext, TypeOK
<1>3. CASE Owner
  <2>1. ASSUME NEW v \in Savers, NEW s \in Schedules, NEW days \in Timetables, NEW list \in Lists,
               Create(v, s, days, list)
        PROVE  OnHasNext'
    BY <2>1, <1>2 DEF Create
  <2>2. ASSUME NEW v \in Savers, WritesRow(v)
        PROVE  OnHasNext'
    <3> DEFINE s == saves[v].schedule
               r == [schedules[s] EXCEPT !.days = saves[v].days, !.next = NextOn(s, saves[v].next)]
    <3>1. saves[v] \in Save
      BY <2>2 DEF WritesRow, TypeOK, Idle
    <3>2. s \in Schedules /\ schedules[s] \in Schedule /\ saves[v].next # NoDate
      BY <3>1 DEF Save, TypeOK
    <3>3. schedules' = [schedules EXCEPT ![s] = r]
      BY <2>2, <3>2 DEF WritesRow, TypeOK, Schedule
    <3>4. r.state = schedules[s].state /\ r.next = NextOn(s, saves[v].next)
      BY <3>2 DEF Schedule
    <3> HIDE DEF r, s
    <3> QED  BY <1>2, <3>2, <3>3, <3>4 DEF NextOn, OnHasNext
  <2>3. ASSUME NEW s \in Schedules, Pause(s) \/ Stop(s)
        PROVE  OnHasNext'
    <3>0. schedules[s] \in Schedule
      BY DEF TypeOK
    <3>1. CASE Pause(s)
      BY <3>0, <3>1 DEF Pause, TypeOK, Schedule, OnHasNext
    <3>2. CASE Stop(s)
      <4> DEFINE r == [schedules[s] EXCEPT !.state = "stopped", !.next = NoDate]
      <4>1. r.state = "stopped" /\ r.next = NoDate
        BY <3>0 DEF Schedule
      <4>2. schedules' = [schedules EXCEPT ![s] = r]
        BY <3>0, <3>2 DEF Stop, TypeOK, Schedule
      <4> HIDE DEF r
      <4> QED  BY <1>2, <4>1, <4>2
    <3> QED  BY <2>3, <3>1, <3>2
  <2>4. ASSUME NEW v \in Savers, Resumes(v)
        PROVE  OnHasNext'
    <3> DEFINE s == saves[v].schedule
               r == [schedules[s] EXCEPT !.state = "active", !.next = saves[v].next]
    <3>1. saves[v] \in Save
      BY <2>4 DEF Resumes, TypeOK, Idle
    <3>2. s \in Schedules /\ schedules[s] \in Schedule /\ saves[v].next # NoDate
      BY <3>1 DEF Save, TypeOK
    <3>3. schedules' = schedules \/ schedules' = [schedules EXCEPT ![s] = r]
      BY <2>4, <3>2 DEF Resumes, TypeOK, Schedule
    <3>4. r.state = "active" /\ r.next = saves[v].next
      BY <3>2 DEF Schedule
    <3> HIDE DEF r, s
    <3> QED  BY <1>1, <1>2, <3>2, <3>3, <3>4
  <2> QED  BY <1>1, <1>3, <2>1, <2>2, <2>3, <2>4 DEF Owner, Edit, Resume, Clears, Adds
<1>4. ASSUME NEW w \in Workers, workers[w] # Idle, NEW e \in workers[w].entry, Advances(w, e)
      PROVE  OnHasNext'
  <2> DEFINE s == e.schedule
             next == NextAfter(e.days, e.next)
             r == [schedules[s] EXCEPT !.next = next, !.state = StateAfter(s, next)]
  <2>1. e \in Entry
    BY <1>4 DEF TypeOK, Worker
  <2>2. s \in Schedules /\ schedules[s] \in Schedule /\ e.next # NoDate
    BY <2>1 DEF Entry, TypeOK
  <2>3. CASE schedules[s].next = e.next
    <3>1. schedules' = [schedules EXCEPT ![s] = r]
      BY <1>4, <2>2, <2>3 DEF Advances, TypeOK, Schedule
    <3>2. r.state = StateAfter(s, next) /\ r.next = next
      BY <2>2 DEF Schedule
    <3>3. schedules[s].state \notin {"stopped", "finished"}
      BY <2>2, <2>3 DEF OnHasNext
    <3> HIDE DEF r, s, next
    <3> QED  BY <1>2, <2>2, <3>1, <3>2, <3>3 DEF StateAfter
  <2>4. CASE schedules[s].next # e.next
    BY <1>1, <1>4, <2>4 DEF Advances
  <2> QED  BY <2>3, <2>4
<1>5. ASSUME NEW w \in Workers, Step(w)
      PROVE  OnHasNext'
  BY <1>1, <1>4, <1>5 DEF Step, Sending, Begin, AllSent, End, Leaves, Inserts, Copies, Refuses, Goes,
     Calls, Notes, Threw, owners
<1>6. CASE Outside
  BY <1>1, <1>6 DEF Outside, Retry, ClockMoves, PaymentMoves, Crash, owners
<1> QED  BY <1>1, <1>3, <1>5, <1>6 DEF Next, vars

(* A schedule that is on always has a next date, and one that is stopped   *)
(* or finished never has, whatever a pass with an old copy of it writes.   *)
THEOREM OnHasNextAlways == Spec => []OnHasNext
<1>1. Init => OnHasNext
  <2> SUFFICES ASSUME Init PROVE OnHasNext
    OBVIOUS
  <2>1. \A s \in Schedules : schedules[s].state = "none"
    BY DEF Init, NoSchedule
  <2> QED  BY <2>1 DEF OnHasNext
<1>2. TypeOK /\ OnHasNext /\ [Next]_vars => OnHasNext'
  BY DatesStep
<1> QED  BY <1>1, <1>2, TypeCorrect, PTL DEF Spec

(***************************************************************************)
(* What is reported as failed.                                             *)
(***************************************************************************)

NotPaid(st) == st \in {"none", "failed", "rejected"}

LEMMA FailedStep ==
  ASSUME Around = {}, Handled, FailedLineNotPaid, [Next]_vars
  PROVE  FailedLineNotPaid'
<1> USE DEF Handled
<1>0. /\ copies \in [Keys -> [Lines -> LineStates \cup {"none"}]]
      /\ stage \in [Keys \X Lines -> Payment!Stages]
  BY DEF TypeOK, Payment!TypeOK
<1>1. ASSUME \A k \in Keys, l \in Lines : copies'[k][l] = "failed" =>
               copies[k][l] = "failed" \/ NotPaid(stage[<<k, l>>]),
             UNCHANGED stage
      PROVE  FailedLineNotPaid'
  BY <1>1 DEF FailedLineNotPaid, NotPaid
<1>2. CASE UNCHANGED <<copies, stage>>
  BY <1>1, <1>2
<1>3. CASE Reconcile /\ UNCHANGED stage
  <2>1. PICK U \in Unknowable : copies' = Answered(U)
    BY <1>3 DEF Reconcile
  <2>2. \A k \in Keys, l \in Lines : Answered(U)[k][l] = "failed" =>
          copies[k][l] = "failed" \/ NotPaid(stage[<<k, l>>])
    BY DEF Answered, Answer, NotPaid
  <2> QED  BY <1>1, <1>3, <2>1, <2>2
<1>4. ASSUME NEW w \in Workers, NEW k \in Keys, Holds(w, k), Copies(w, k)
      PROVE  FailedLineNotPaid'
  <2>1. \A l \in Lines : stage[<<k, l>>] = "none"
    BY <1>4 DEF Copies, At, PreparedFirst, UnsentPaidNobody
  <2>2. \A j \in Keys \ {k} : copies'[j] = copies[j]
    BY <1>0, <1>4 DEF Copies
  <2> QED  BY <1>1, <1>4, <2>1, <2>2 DEF Copies, NotPaid, payments
<1>5. ASSUME NEW w \in Workers, NEW k \in Keys, Holds(w, k), NEW l \in Lines, Calls(w, k, l)
      PROVE  FailedLineNotPaid'
  <2>1. copies[k][l] = "waiting" /\ copies' = copies
    BY <1>5 DEF Calls, At, StillToSend
  <2>2. \A x \in (Keys \X Lines) \ {<<k, l>>} : stage'[x] = stage[x]
    BY <1>0, <1>5 DEF Calls, Payment!Enter, Payment!Becomes
  <2> QED  BY <2>1, <2>2 DEF FailedLineNotPaid
<1>6. ASSUME NEW w \in Workers, NEW k \in Keys, Holds(w, k), NEW l \in Lines,
             Notes(w, k, l) \/ Threw(w, k, l)
      PROVE  FailedLineNotPaid'
  <2>1. \A j \in Keys, m \in Lines : j # k \/ m # l => copies'[j][m] = copies[j][m]
    BY <1>0, <1>6 DEF Notes, Threw
  <2>2. copies'[k][l] = "failed" => NotPaid(stage[<<k, l>>])
    <3>1. CASE Threw(w, k, l)
      BY <1>6, <3>1 DEF Threw, At, StillToSend, NotPaid
    <3>2. CASE Notes(w, k, l)
      BY <1>0, <1>6, <3>2 DEF Notes, Returned, NotPaid
    <3> QED  BY <1>6, <3>1, <3>2
  <2> QED  BY <1>1, <1>6, <2>1, <2>2 DEF Notes, Threw, payments
<1>7. ASSUME NEW x \in Keys \X Lines, PaymentMoves(x)
      PROVE  FailedLineNotPaid'
  <2>1. \A y \in Keys \X Lines : NotPaid(stage[y]) => NotPaid(stage'[y])
    BY <1>0, <1>7 DEF PaymentMoves, Payment!Decide, Payment!Pay, Payment!Settle, Payment!Becomes, NotPaid
  <2> QED  BY <1>7, <2>1 DEF PaymentMoves, FailedLineNotPaid, NotPaid
<1>8. CASE Owner
  <2>1. UNCHANGED <<copies, stage>>
    BY <1>8, OwnerLeaves
  <2> QED  BY <1>2, <2>1
<1>9. ASSUME NEW w \in Workers, Step(w)
      PROVE  FailedLineNotPaid'
  <2>1. \A k : workers[w] # Idle /\ k \in workers[w].run => k \in Keys /\ Holds(w, k)
    BY DEF TypeOK, Worker, Holds
  <2>2. ASSUME workers[w] # Idle, NEW k \in workers[w].run, Sending(w, k)
        PROVE  FailedLineNotPaid'
    BY <1>2, <1>4, <1>5, <1>6, <2>1, <2>2 DEF Sending, Refuses, Goes, payments
  <2> QED  BY <1>2, <1>3, <1>9, <2>2 DEF Step, Begin, AllSent, End, Leaves, Inserts, Advances, payments
<1>10. CASE Outside
  BY <1>2, <1>7, <1>10 DEF Outside, Retry, ClockMoves, Crash, payments
<1>11. CASE UNCHANGED vars
  BY <1>2, <1>11 DEF vars
<1> QED  BY <1>8, <1>9, <1>10, <1>11 DEF Next

(* Unless a send can throw after it wrote its row, a line reported to the  *)
(* owner as failed has paid nobody and never will.                         *)
THEOREM FailedLineNotPaidAlways == Around = {} => (Spec => []FailedLineNotPaid)
<1> SUFFICES ASSUME Around = {} PROVE Spec => []FailedLineNotPaid
  OBVIOUS
<1>1. Init => FailedLineNotPaid
  BY DEF Init, Empty, FailedLineNotPaid
<1>2. Handled /\ FailedLineNotPaid /\ [Next]_vars => FailedLineNotPaid'
  BY FailedStep
<1> QED  BY <1>1, <1>2, AlwaysHandled, PTL DEF Spec

(***************************************************************************)
(* Nobody forgets a run.                                                   *)
(***************************************************************************)

Unsettled(k) == runs[k] = "prepared" \/ (runs[k] = "sending" /\ \E l \in Lines : copies[k][l] = "waiting")

\* A pass that is sending has every line that waits still before it.
AllBefore ==
  \A w \in Workers, k \in Keys : Holds(w, k) /\ workers[w].at \in WhileSending =>
    \A l \in Lines : copies[k][l] = "waiting" => l \in workers[w].todo

Attended == NobodyForgets /\ AllBefore

LEMMA AttendedStep ==
  ASSUME Handled, Attended, [Next]_vars
  PROVE  Attended'
<1> USE DEF Handled
<1>0. /\ workers \in [Workers -> Worker \cup {Idle}]
      /\ runs \in [Keys -> RunStates \cup {"none"}]
      /\ copies \in [Keys -> [Lines -> LineStates \cup {"none"}]]
      /\ crashes \in Nat
  BY ScheduleAssumption DEF TypeOK
<1>u. NobodyForgets <=> \A k \in Keys : Unsettled(k) => crashes > 0 \/ \E w \in Workers : Holds(w, k)
  BY DEF NobodyForgets, Unsettled, In, Holds
<1>v. NobodyForgets' <=> \A k \in Keys : Unsettled(k)' => crashes' > 0 \/ \E w \in Workers : Holds(w, k)'
  BY DEF NobodyForgets, Unsettled, In, Holds
<1>1. ASSUME \A w \in Workers, k \in Keys :
               /\ Holds(w, k) => Holds(w, k)' \/ ~Unsettled(k)'
               /\ Holds(w, k)' /\ workers'[w].at \in WhileSending =>
                    /\ Holds(w, k) /\ workers[w].at \in WhileSending
                    /\ workers'[w].todo = workers[w].todo,
             \A k \in Keys : Unsettled(k)' => Unsettled(k) \/ \E w \in Workers : Holds(w, k)',
             \A k \in Keys, l \in Lines : runs[k] # "prepared" /\ copies'[k][l] = "waiting" => copies[k][l] = "waiting",
             crashes' = crashes
      PROVE  Attended'
  <2>1. NobodyForgets'
    BY <1>1, <1>u, <1>v DEF Attended
  <2>2. AllBefore'
    BY <1>1 DEF AllBefore, Attended, PreparedFirst, WhileSending
  <2> QED  BY <2>1, <2>2 DEF Attended
<1>2. CASE UNCHANGED <<runs, copies, workers, crashes>>
  BY <1>1, <1>2 DEF Holds, Unsettled
<1>3. ASSUME Reconcile
      PROVE  /\ \A k \in Keys : Unsettled(k)' => Unsettled(k)
             /\ \A k \in Keys, l \in Lines : copies'[k][l] = "waiting" => copies[k][l] = "waiting"
  <2>1. PICK U \in Unknowable :
          /\ copies' = Answered(U)
          /\ runs' = [k \in Keys |->
               IF runs[k] = "sending" /\ In(Answered(U)[k], Open) = {}
                 THEN Settled(Answered(U)[k]) ELSE runs[k]]
    BY <1>3 DEF Reconcile
  <2>2. \A k \in Keys, l \in Lines : copies'[k][l] = "waiting" => copies[k][l] = "waiting"
    BY <2>1 DEF Answered, Answer
  <2>3. \A copy : Settled(copy) \in Ended
    BY DEF Settled, Ended
  <2>4. \A k \in Keys : runs'[k] = runs[k] \/ runs'[k] \in Ended
    BY <2>1, <2>3
  <2> QED  BY <2>2, <2>4 DEF Unsettled, Ended
\* A step of one pass after which it is not sending.
<1>4. ASSUME NEW w \in Workers, NEW r, workers' = [workers EXCEPT ![w] = r],
             r = Idle \/ r.at \notin WhileSending,
             \A k \in Keys : Holds(w, k) => ~Unsettled(k)' \/ (r # Idle /\ k \in r.run),
             \A k \in Keys : Unsettled(k)' => Unsettled(k) \/ (r # Idle /\ k \in r.run),
             \A k \in Keys, l \in Lines : runs[k] # "prepared" /\ copies'[k][l] = "waiting" => copies[k][l] = "waiting",
             crashes' = crashes
      PROVE  Attended'
  <2>2. \A k \in Keys : Holds(w, k)' <=> (r # Idle /\ k \in r.run)
    BY <1>0, <1>4 DEF Holds
  <2>3. \A v \in Workers \ {w} : workers'[v] = workers[v] /\ \A k \in Keys : Holds(v, k)' <=> Holds(v, k)
    BY <1>0, <1>4 DEF Holds
  <2>4. workers'[w] = r
    BY <1>0, <1>4
  <2> QED  BY <1>1, <1>4, <2>2, <2>3, <2>4
<1>5. ASSUME NEW w \in Workers, Begin(w) \/ End(w)
      PROVE  Attended'
  <2>1. \A k \in Keys : ~Holds(w, k)
    BY <1>5 DEF Begin, End, At, Holds, PreparedFirst
  <2>2. PICK r : workers' = [workers EXCEPT ![w] = r] /\ (r = Idle \/ r.at = "choosing")
    BY <1>5 DEF Begin, End, Working
  <2>3. Reconcile /\ crashes' = crashes
    BY <1>5 DEF Begin, End
  <2> QED  BY <1>3, <1>4, <2>1, <2>2, <2>3 DEF WhileSending
<1>6. ASSUME NEW w \in Workers, AllSent(w)
      PROVE  Attended'
  <2>1. workers' = [workers EXCEPT ![w] = Working(workers[w].due)] /\ UNCHANGED <<runs, copies, crashes>>
    BY <1>6 DEF AllSent, NextEntry
  <2>2. \A k \in Keys : Holds(w, k) => ~Unsettled(k)
    BY <1>6 DEF AllSent, At, Attended, AllBefore, PreparedFirst, Unsettled, WhileSending
  <2>3. Working(workers[w].due).at = "choosing"
    BY DEF Working
  <2>4. \A k \in Keys : Unsettled(k)' <=> Unsettled(k)
    BY <2>1 DEF Unsettled
  <2> QED  BY <1>4, <2>1, <2>2, <2>3, <2>4 DEF WhileSending
<1>7. ASSUME NEW w \in Workers, workers[w] # Idle, NEW e \in workers[w].due, Leaves(w, e)
      PROVE  Attended'
  <2> DEFINE r == [workers[w] EXCEPT !.due = @ \ {e}]
  <2>1. workers[w] \in Worker /\ \A k \in Keys : ~Holds(w, k)
    BY <1>0, <1>7 DEF Leaves, At, PreparedFirst
  <2>2. r.at = "choosing"
    BY <1>7, <2>1 DEF Leaves, At, Worker
  <2>3. workers' = [workers EXCEPT ![w] = r]
    BY <1>0, <1>7, <2>1 DEF Leaves, Worker
  <2> HIDE DEF r
  <2>4. \A k \in Keys : Unsettled(k)' <=> Unsettled(k)
    BY <1>7 DEF Leaves, Unsettled
  <2> QED  BY <1>4, <1>7, <2>1, <2>2, <2>3, <2>4 DEF Leaves, WhileSending
<1>8. ASSUME NEW w \in Workers, workers[w] # Idle, NEW e \in workers[w].entry, Advances(w, e)
      PROVE  Attended'
  <2> DEFINE r == [workers[w] EXCEPT !.at = "copying", !.entry = {}]
  <2>1. workers[w] \in Worker
    BY <1>0, <1>8
  <2>2. r \in Worker /\ r.run = workers[w].run /\ r.at = "copying"
    BY <2>1 DEF Worker
  <2>3. \/ workers' = [workers EXCEPT ![w] = Working(workers[w].due)] /\ workers[w].run = {}
        \/ workers' = [workers EXCEPT ![w] = r]
    BY <1>8 DEF Advances, Drops
  <2>4. \A k \in Keys : Unsettled(k)' <=> Unsettled(k)
    BY <1>8 DEF Advances, Unsettled
  <2>5. UNCHANGED <<runs, copies, crashes>>
    BY <1>8 DEF Advances
  <2>6. Working(workers[w].due).at = "choosing"
    BY DEF Working
  <2> HIDE DEF r
  <2>7. CASE workers' = [workers EXCEPT ![w] = Working(workers[w].due)] /\ workers[w].run = {}
    <3>1. \A k \in Keys : ~Holds(w, k)
      BY <2>7 DEF Holds
    <3> QED  BY <1>4, <2>4, <2>5, <2>6, <2>7, <3>1 DEF WhileSending
  <2>8. CASE workers' = [workers EXCEPT ![w] = r]
    BY <1>4, <2>2, <2>4, <2>5, <2>8, Constants DEF WhileSending, Holds
  <2> QED  BY <2>3, <2>7, <2>8
<1>9. ASSUME NEW w \in Workers, workers[w] # Idle, NEW e \in workers[w].due, Inserts(w, e)
      PROVE  Attended'
  <2> DEFINE k == <<e.schedule, e.next>>
             ours == Ours(k) /\ ~Missed(e.next)
             r == [workers[w] EXCEPT !.at = "advancing", !.due = workers[w].due \ {e}, !.entry = {e},
                     !.run = IF ours THEN {k} ELSE {}, !.todo = IF ours THEN lines[e.schedule] ELSE {}]
  <2>1. workers[w] \in Worker /\ \A j \in Keys : ~Holds(w, j)
    BY <1>0, <1>9 DEF Inserts, At, PreparedFirst
  <2>2. r # Idle /\ r.at = "advancing" /\ r.run = (IF ours THEN {k} ELSE {})
    BY <2>1 DEF Worker, Idle
  <2>3. workers' = [workers EXCEPT ![w] = r]
    BY <1>9 DEF Inserts
  <2>4. /\ runs' = IF Ours(k) THEN [runs EXCEPT ![k] = IF Missed(e.next) THEN "missed" ELSE "prepared"] ELSE runs
        /\ UNCHANGED <<copies, crashes>>
    BY <1>9 DEF Inserts
  <2> HIDE DEF r, k
  <2>5. \A j \in Keys : Unsettled(j)' => Unsettled(j) \/ (ours /\ j = k)
    BY <1>0, <2>4 DEF Unsettled
  <2> QED  BY <1>4, <2>1, <2>2, <2>3, <2>4, <2>5 DEF WhileSending
<1>10. ASSUME NEW w \in Workers, NEW k \in Keys, Retry(w, k)
       PROVE  Attended'
  <2> DEFINE r == [Working({}) EXCEPT !.at = "checking", !.run = {k}]
  <2>1. r # Idle /\ r.run = {k} /\ r.at = "checking"
    <3>1. r \in Worker /\ r.run = {k} /\ r.at = "checking"
      BY DEF Working, Worker
    <3> QED  BY <3>1, Constants
  <2>2. workers' = [workers EXCEPT ![w] = r] /\ \A j \in Keys : ~Holds(w, j)
    BY <1>10 DEF Retry, Holds
  <2> HIDE DEF r
  <2>3. \A j \in Keys : Unsettled(j)' => Unsettled(j) \/ j = k
    BY <1>0, <1>10 DEF Retry, Unsettled
  <2> QED  BY <1>4, <1>10, <2>1, <2>2, <2>3 DEF Retry, WhileSending
<1>11. ASSUME NEW w \in Workers, NEW k \in Keys, Holds(w, k), Copies(w, k)
       PROVE  Attended'
  <2> DEFINE r == [workers[w] EXCEPT !.at = "checking", !.todo = {}]
  <2>1. workers[w] \in Worker /\ runs[k] = "prepared" /\ \A j \in Keys : Holds(w, j) => j = k
    BY <1>0, <1>11 DEF Copies, At, PreparedFirst, OneHand, Holds
  <2>2. r # Idle /\ r.at = "checking" /\ r.run = workers[w].run
    <3>1. r \in Worker /\ r.at = "checking" /\ r.run = workers[w].run
      BY <2>1 DEF Worker
    <3> QED  BY <3>1, Constants
  <2>3. workers' = [workers EXCEPT ![w] = r]
    BY <1>11 DEF Copies
  <2>4. UNCHANGED <<runs, crashes>> /\ \A j \in Keys \ {k} : copies'[j] = copies[j]
    BY <1>0, <1>11 DEF Copies
  <2> HIDE DEF r
  <2>5. \A j \in Keys : Unsettled(j)' => Unsettled(j)
    BY <2>1, <2>4 DEF Unsettled
  <2>6. \A j \in Keys, l \in Lines : runs[j] # "prepared" /\ copies'[j][l] = "waiting" => copies[j][l] = "waiting"
    BY <2>1, <2>4
  <2> QED  BY <1>4, <2>2, <2>3, <2>4, <2>5, <2>6 DEF WhileSending, Holds
<1>12. ASSUME NEW w \in Workers, NEW k \in Keys, Holds(w, k), Refuses(w, k)
       PROVE  Attended'
  <2>1. runs[k] = "prepared" /\ \A j \in Keys : Holds(w, j) => j = k
    BY <1>12 DEF Refuses, At, PreparedFirst, OneHand, Holds
  <2>2. workers' = [workers EXCEPT ![w] = Working(workers[w].due)] /\ UNCHANGED <<copies, crashes>>
    BY <1>12 DEF Refuses, NextEntry
  <2>3. Working(workers[w].due).at = "choosing"
    BY DEF Working
  <2>4. runs' = [runs EXCEPT ![k] = "refused"]
    BY <1>12, <2>1 DEF Refuses, WherePrepared
  <2>5. ~Unsettled(k)' /\ \A j \in Keys : Unsettled(j)' => Unsettled(j)
    BY <1>0, <2>2, <2>4 DEF Unsettled
  <2> QED  BY <1>4, <2>1, <2>2, <2>3, <2>5 DEF WhileSending
\* The pass that sends a run keeps it, and what waits stays before it.
<1>13. ASSUME NEW w \in Workers, NEW k \in Keys, NEW r, Holds(w, k),
              workers' = [workers EXCEPT ![w] = r], r # Idle, r.run = workers[w].run,
              \A l \in Lines : copies'[k][l] = "waiting" => l \in r.todo,
              \A j \in Keys \ {k}, l \in Lines : copies'[j][l] = copies[j][l],
              \A j \in Keys \ {k} : runs'[j] = runs[j],
              crashes' = crashes
       PROVE  Attended'
  <2>1. workers'[w] = r /\ \A v \in Workers \ {w} : workers'[v] = workers[v]
    BY <1>0, <1>13
  <2>2. \A v \in Workers, j \in Keys : Holds(v, j)' <=> Holds(v, j)
    BY <1>13, <2>1 DEF Holds
  <2>3. /\ \A j \in Keys : Holds(w, j) => j = k
        /\ \A v \in Workers \ {w} : ~Holds(v, k)
    BY <1>13 DEF OneHand, Holds
  <2>4. NobodyForgets'
    <3>1. \A j \in Keys \ {k} : Unsettled(j)' => Unsettled(j)
      BY <1>13 DEF Unsettled
    <3> QED  BY <1>13, <1>u, <1>v, <2>2, <3>1 DEF Attended
  <2>5. AllBefore'
    <3> SUFFICES ASSUME NEW v \in Workers, NEW j \in Keys, Holds(v, j)', workers'[v].at \in WhileSending,
                        NEW l \in Lines, copies'[j][l] = "waiting"
                 PROVE  l \in workers'[v].todo
      BY DEF AllBefore
    <3>1. CASE v = w
      BY <1>13, <2>1, <2>2, <2>3, <3>1
    <3>2. CASE v # w
      BY <1>13, <2>1, <2>2, <2>3, <3>2 DEF Attended, AllBefore
    <3> QED  BY <3>1, <3>2
  <2> QED  BY <2>4, <2>5 DEF Attended
<1>14. ASSUME NEW w \in Workers, NEW k \in Keys, Holds(w, k), Goes(w, k)
       PROVE  Attended'
  <2> DEFINE r == [workers[w] EXCEPT !.at = "calling", !.todo = In(copies[k], {"waiting"})]
  <2>1. r \in Worker /\ r.run = workers[w].run /\ r.todo = {l \in Lines : copies[k][l] = "waiting"}
    BY <1>0, <1>14 DEF Worker, In, Holds
  <2>2. workers' = [workers EXCEPT ![w] = r]
    BY <1>14 DEF Goes
  <2> HIDE DEF r
  <2>3. UNCHANGED <<copies, crashes>> /\ \A j \in Keys \ {k} : runs'[j] = runs[j]
    BY <1>0, <1>14 DEF Goes, WherePrepared
  <2> QED  BY <1>13, <1>14, <2>1, <2>2, <2>3, Constants
<1>15. ASSUME NEW w \in Workers, NEW k \in Keys, Holds(w, k), NEW l \in Lines, Calls(w, k, l)
       PROVE  Attended'
  <2> DEFINE r == [workers[w] EXCEPT !.at = "noting", !.line = {l}]
  <2>1. r \in Worker /\ r.run = workers[w].run /\ r.todo = workers[w].todo
    BY <1>0, <1>15 DEF Worker, Holds
  <2>2. workers' = [workers EXCEPT ![w] = r]
    BY <1>15 DEF Calls
  <2> HIDE DEF r
  <2>3. UNCHANGED <<runs, copies, crashes>>
    BY <1>15 DEF Calls
  <2>4. \A m \in Lines : copies[k][m] = "waiting" => m \in workers[w].todo
    BY <1>15 DEF Calls, At, Attended, AllBefore, WhileSending
  <2> QED  BY <1>13, <1>15, <2>1, <2>2, <2>3, <2>4, Constants
<1>16. ASSUME NEW w \in Workers, NEW k \in Keys, Holds(w, k), NEW l \in Lines,
              Notes(w, k, l) \/ Threw(w, k, l)
       PROVE  Attended'
  <2> DEFINE r == [workers[w] EXCEPT !.at = "calling", !.line = {}, !.todo = workers[w].todo \ {l}]
  <2>1. r \in Worker /\ r.run = workers[w].run /\ r.todo = workers[w].todo \ {l}
    BY <1>0, <1>16 DEF Worker, Holds
  <2>2. workers' = [workers EXCEPT ![w] = r]
    BY <1>16 DEF Notes, Threw, NextLine
  <2> HIDE DEF r
  <2>3. /\ UNCHANGED <<runs, crashes>>
        /\ \A j \in Keys, m \in Lines : j # k \/ m # l => copies'[j][m] = copies[j][m]
    BY <1>0, <1>16 DEF Notes, Threw
  <2>4. copies'[k][l] # "waiting"
    <3>1. PICK state \in LineStates \ {"waiting"} : copies' = [copies EXCEPT ![k][l] = state]
      BY <1>16 DEF Notes, Threw, Returned, LineStates
    <3> QED  BY <1>0, <3>1
  <2>5. \A m \in Lines : copies[k][m] = "waiting" => m \in workers[w].todo
    BY <1>16 DEF Notes, Threw, At, Attended, AllBefore, WhileSending
  <2>6. \A m \in Lines : copies'[k][m] = "waiting" => m \in r.todo
    BY <2>1, <2>3, <2>4, <2>5
  <2>7. \A j \in Keys \ {k}, m \in Lines : copies'[j][m] = copies[j][m]
    BY <2>3
  <2>8. r # Idle /\ Holds(w, k) /\ crashes' = crashes /\ \A j \in Keys \ {k} : runs'[j] = runs[j]
    BY <1>16, <2>1, <2>3, Constants
  <2> QED  BY <1>13, <2>1, <2>2, <2>6, <2>7, <2>8
<1>17. CASE Owner
  <2>1. UNCHANGED <<runs, copies, workers, crashes>>
    BY <1>17, OwnerLeaves
  <2> QED  BY <1>2, <2>1
<1>18. ASSUME NEW w \in Workers, Step(w)
       PROVE  Attended'
  <2>1. \A k : workers[w] # Idle /\ k \in workers[w].run => k \in Keys /\ Holds(w, k)
    BY DEF TypeOK, Worker, Holds
  <2>2. ASSUME workers[w] # Idle, NEW k \in workers[w].run, Sending(w, k)
        PROVE  Attended'
    BY <1>11, <1>12, <1>14, <1>15, <1>16, <2>1, <2>2 DEF Sending
  <2> QED  BY <1>5, <1>6, <1>7, <1>8, <1>9, <1>18, <2>2 DEF Step
<1>19. CASE Crash
  <2>1. crashes' > 0 /\ \A w \in Workers, k \in Keys : ~Holds(w, k)'
    BY <1>0, <1>19 DEF Crash, Holds
  <2>2. NobodyForgets'
    BY <1>v, <2>1
  <2>3. AllBefore'
    BY <2>1 DEF AllBefore
  <2> QED  BY <2>2, <2>3 DEF Attended
<1>20. CASE Outside
  BY <1>2, <1>10, <1>19, <1>20 DEF Outside, ClockMoves, PaymentMoves
<1>21. CASE UNCHANGED vars
  BY <1>2, <1>21 DEF vars
<1> QED  BY <1>17, <1>18, <1>20, <1>21 DEF Next

(* As long as the server runs, every run that is not settled has a pass or *)
(* a retry that will settle it, or only waits for answers.                 *)
THEOREM NobodyForgetsAlways == Spec => []NobodyForgets
<1>1. Init => Attended
  BY DEF Init, Attended, NobodyForgets, AllBefore, Holds
<1>2. Handled /\ Attended /\ [Next]_vars => Attended'
  BY AttendedStep
<1>3. Attended => NobodyForgets
  BY DEF Attended
<1> QED  BY <1>1, <1>2, <1>3, AlwaysHandled, PTL DEF Spec
=============================================================================
