------------------------------ MODULE MoneyOut ------------------------------
(***************************************************************************)
(* The life of an outgoing payment: a row of the requests table, the       *)
(* server continuations working on it, Safaricom's side of the attempts,   *)
(* the status queries of the sweep, and the pool of operators              *)
(* (server/src/money_out/service.ts, callbacks/{apply,b2cTimeout,status}). *)
(*                                                                         *)
(* Every statement against the row is one atomic action, guarded by its    *)
(* own WHERE clause.  What a continuation keeps in memory between two      *)
(* statements is a member of tasks (or of due, for a status query about to *)
(* be asked), and a crash loses exactly those.                             *)
(*                                                                         *)
(* Rows meet only in the pool of operators: what keeps two rows from being *)
(* the same payment (the duplicate guard of the insert) is not here.       *)
(***************************************************************************)
EXTENDS OperatorPool, FiniteSets

CONSTANTS
  Requests,     \* the ids of the rows
  People,       \* who may release or refuse
  Creator,      \* who creates the requests
  Nobody,       \* a null person
  Apis,         \* the identifiers the APIs in use answer with, see Wire
  MaxAttempts,  \* bound: identifiers handed out (one per attempt on the wire)
  MaxPolls,     \* MAX_POLLS: status queries asked by the sweep for a row
  MaxQueries,   \* bound: status queries Safaricom accepts
  MaxCrashes,   \* bound: crashes of the server
  Around        \* what may happen around the server, see below

(* overtake:   a result may arrive before the sender has stored the ack    *)
(* redeliver:  a result may arrive again while its handler is running      *)
(* slowAnswer: a status answer may arrive after its row has moved on       *)
(* disable:    the owner may switch an operator off                        *)
(* reinstate:  the owner may reinstate a failed operator                   *)
(* dbError:    the acknowledgement may fail to be stored                   *)
AllAround == {"overtake", "redeliver", "slowAnswer", "disable", "reinstate", "dbError"}

ASSUME MoneyOutAssumption ==
  /\ MaxAttempts \in Nat /\ MaxPolls \in Nat \ {0}
  /\ MaxQueries \in Nat /\ MaxCrashes \in Nat
  /\ Creator \in People /\ Nobody \notin People
  /\ Apis \subseteq {"keeps", "assigns"}
  /\ Around \subseteq AllAround

VARIABLES
  row,      \* the requests table
  tasks,    \* continuations of the server, in memory
  due,      \* status queries about to be asked, in memory
  wire,     \* what Safaricom knows of each attempt
  queries,  \* status queries Safaricom has accepted
  pool,     \* the operators table
  issued,   \* identifiers handed out so far
  crashes   \* crashes so far

vars == <<row, tasks, due, wire, queries, pool, issued, crashes>>

Attempts == 1..MaxAttempts
NoAttempt == 0
QueryIds == 1..MaxQueries

(* The statuses a result may still change, and those it may not.           *)
LiveOrFailed == {"pending", "sent", "unknown", "failed"}
Live == {"pending", "sent", "unknown"}
Final == {"completed", "failed", "rejected"}
Statuses == {"none", "awaiting_approval"} \cup Live \cup Final

(* Whether the row's last send and its last status query are more than two *)
(* minutes ago: "young" is sent lately, "asked" is asked about lately.     *)
Quiets == {"no", "young", "asked"}

Row == [status: Statuses,
        attempt: Attempts \cup {NoAttempt},   \* originator_conversation_id
        ack: Attempts \cup {NoAttempt},       \* ackOriginatorConversationId
        operator: Operators \cup {NoOperator},
        polls: 0..MaxPolls,
        quiet: Quiets,
        parked: BOOLEAN,      \* unknown for good: result_at set, a human decides
        checked: BOOLEAN,     \* checked_at is set
        approver: People \cup {Nobody},
        held: BOOLEAN]        \* at or above the approval threshold when created

NoRow == [status |-> "none", attempt |-> NoAttempt, ack |-> NoAttempt,
          operator |-> NoOperator, polls |-> 0, quiet |-> "no", parked |-> FALSE,
          checked |-> FALSE, approver |-> Nobody,
          held |-> FALSE]

(* A continuation: "hold" and "send" follow the insert, "ack", "lost",     *)
(* "declined" and "refused" follow the call to Safaricom, "failover"       *)
(* follows the result that put the row back (again: its redelivery).       *)
Task == [phase: {"hold", "send", "ack", "lost", "declined", "refused", "failover"},
         req: Requests, attempt: Attempts, operator: Operators,
         tried: SUBSET Operators, again: BOOLEAN]

(* Safaricom knows an attempt by our id (v3) or by one it assigns (v1,     *)
(* business payments); "absent" is an attempt it never accepted.           *)
Wire == [at: {"queued", "paid", "failed", "refused"},
         req: Requests, operator: Operators, api: {"keeps", "assigns"}]
Absent == [at |-> "absent"]

(* An identifier as Safaricom may quote it: ours or its own, of an attempt.*)
Keys == [attempt: Attempts, form: {"keeps", "assigns"}]
KeyOf(a) == [attempt |-> a, form |-> wire[a].api]

(* originator_conversation_id = key OR ackOriginatorConversationId = key   *)
Names(r, k) == \/ k.form = "keeps" /\ row[r].attempt = k.attempt
               \/ k.form = "assigns" /\ row[r].ack = k.attempt

(* SAFARICOM_OCID: the identifier status queries are asked by.             *)
AskedBy(r) == IF row[r].ack # NoAttempt
                THEN [attempt |-> row[r].ack, form |-> "assigns"]
                ELSE [attempt |-> row[r].attempt, form |-> "keeps"]

Due == [req: Requests, key: Keys]

(* unrecorded: accepted by Safaricom, its row not (or never) inserted.     *)
Query == [state: {"unrecorded", "recorded"}, target: Requests, key: Keys,
          says: {"nothing", "unclear", "completed", "failed"}]
Unasked == [state |-> "unasked"]
Done == [state |-> "done"]

Init ==
  /\ row = [r \in Requests |-> NoRow]
  /\ tasks = {}
  /\ due = {}
  /\ wire = [a \in Attempts |-> Absent]
  /\ queries = [q \in QueryIds |-> Unasked]
  /\ pool = HealthyPool
  /\ issued = 0
  /\ crashes = 0

(***************************************************************************)
(* Writing the row.                                                        *)
(***************************************************************************)

(* UPDATE requests SET ... WHERE id = r AND status IN S                    *)
UpdateWhere(r, S, new) ==
  IF row[r].status \in S THEN [row EXCEPT ![r] = new] ELSE row

(* A status with a result: completed or failed.                            *)
Settled(r, s) == [row[r] EXCEPT !.status = s, !.parked = FALSE]

JustSent(q) == IF q = "asked" THEN "asked" ELSE "young"

(***************************************************************************)
(* A person sends.  The insert is one transaction, the hold a statement of *)
(* its own.                                                                *)
(***************************************************************************)

Create(r, held) ==
  /\ row[r].status = "none"
  /\ issued < MaxAttempts
  /\ Usable(pool) # {}
  /\ LET a == issued + 1
         o == FirstOperator(pool, {})
     IN /\ row' = [row EXCEPT ![r] =
                     [NoRow EXCEPT !.status = "pending", !.attempt = a, !.operator = o,
                                   !.quiet = "young", !.held = held]]
        /\ tasks' = tasks \cup
             {[phase |-> IF held THEN "hold" ELSE "send", req |-> r, attempt |-> a,
               operator |-> o, tried |-> {o}, again |-> FALSE]}
        /\ issued' = a
  /\ UNCHANGED <<due, wire, queries, pool, crashes>>

Hold(t) ==
  /\ t.phase = "hold"
  /\ row' = UpdateWhere(t.req, {"pending"},
              [row[t.req] EXCEPT !.status = "awaiting_approval", !.operator = NoOperator])
  /\ tasks' = tasks \ {t}
  /\ UNCHANGED <<due, wire, queries, pool, issued, crashes>>

WaitingOrPending(r) == row[r].status \in {"awaiting_approval", "pending"}
Waiting(r) == row[r].status = "awaiting_approval"

(* Nobody decides on a send of their own.                                  *)
Anybody(p) == TRUE
Another(p) == p # Creator

(* A second person releases: the guarded UPDATE is the double-press guard, *)
(* and the row goes out with the identifier it was created with.           *)
Release(r, p) ==
  /\ Waiting(r)
  /\ Another(p)
  /\ Usable(pool) # {}
  /\ LET o == FirstOperator(pool, {})
     IN /\ row' = [row EXCEPT ![r] = [@ EXCEPT !.status = "pending", !.approver = p,
                                               !.operator = o]]
        /\ tasks' = tasks \cup
             {[phase |-> "send", req |-> r, attempt |-> row[r].attempt,
               operator |-> o, tried |-> {o}, again |-> FALSE]}
  /\ UNCHANGED <<due, wire, queries, pool, issued, crashes>>

Refuse(r, p) ==
  /\ Waiting(r)
  /\ Another(p)
  /\ row' = [row EXCEPT ![r] = [@ EXCEPT !.status = "rejected", !.approver = p]]
  /\ UNCHANGED <<tasks, due, wire, queries, pool, issued, crashes>>

(* The clock refuses a row held for 24 hours.                              *)
ExpireApproval(r) ==
  /\ Waiting(r)
  /\ row' = [row EXCEPT ![r].status = "rejected"]
  /\ UNCHANGED <<tasks, due, wire, queries, pool, issued, crashes>>

(***************************************************************************)
(* One attempt: the call to Safaricom, then what is written of its answer. *)
(***************************************************************************)

(* Safaricom accepts the payment; the answer may still be lost (a broken   *)
(* connection, a 5xx after it was queued).                                 *)
CallAccepted(t) ==
  /\ t.phase = "send"
  /\ \E api \in Apis, answer \in {"ack", "lost"} :
       /\ wire' = [wire EXCEPT ![t.attempt] = [at |-> "queued", req |-> t.req,
                                               operator |-> t.operator, api |-> api]]
       /\ tasks' = (tasks \ {t}) \cup {[t EXCEPT !.phase = answer]}
  /\ UNCHANGED <<row, due, queries, pool, issued, crashes>>

(* Nothing was accepted: no connection, an error of ours or of the app's   *)
(* key, a rejection, or a rejection of the operator's credential.          *)
CallNotAccepted(t) ==
  /\ t.phase = "send"
  /\ \E answer \in {"lost", "declined", "refused"} :
       tasks' = (tasks \ {t}) \cup {[t EXCEPT !.phase = answer]}
  /\ UNCHANGED <<row, due, wire, queries, pool, issued, crashes>>

RecordAck(t) ==
  /\ t.phase = "ack"
  /\ row' = UpdateWhere(t.req, {"pending"},
              [row[t.req] EXCEPT !.status = "sent", !.quiet = JustSent(@),
                                 !.ack = IF wire[t.attempt].api = "assigns"
                                           THEN t.attempt ELSE @])
  /\ tasks' = tasks \ {t}
  /\ UNCHANGED <<due, wire, queries, pool, issued, crashes>>

(* The statement that stores the acknowledgement throws: the catch takes   *)
(* it for something that went wrong before Safaricom was reached.          *)
AckThrew(t) ==
  /\ "dbError" \in Around
  /\ t.phase = "ack"
  /\ row' = UpdateWhere(t.req, {"pending"}, Settled(t.req, "failed"))
  /\ tasks' = tasks \ {t}
  /\ UNCHANGED <<due, wire, queries, pool, issued, crashes>>

(* maybeQueued: the request may have reached Safaricom; the sweep will ask.*)
RecordUnconfirmed(t) ==
  /\ t.phase = "lost"
  /\ row' = UpdateWhere(t.req, {"pending"},
              [row[t.req] EXCEPT !.status = "unknown", !.quiet = JustSent(@)])
  /\ tasks' = tasks \ {t}
  /\ UNCHANGED <<due, wire, queries, pool, issued, crashes>>

RecordDeclined(t) ==
  /\ t.phase = "declined"
  /\ row' = UpdateWhere(t.req, {"pending"}, Settled(t.req, "failed"))
  /\ tasks' = tasks \ {t}
  /\ UNCHANGED <<due, wire, queries, pool, issued, crashes>>

(* moveRow: a fresh identifier, another operator, the refused attempt's    *)
(* ack id dropped.                                                         *)
MovedSameId(r, o, a) ==
  [row[r] EXCEPT !.operator = o, !.polls = 0, !.quiet = "asked"]
Moved(r, o, a) ==
  [row[r] EXCEPT !.operator = o, !.attempt = a, !.ack = NoAttempt,
                 !.polls = 0, !.quiet = "asked"]

AnyStatus(r) == TRUE
StillPending(r) == row[r].status = "pending"

(* Move the row of t, still pending, to an operator that has not refused   *)
(* this dispatch, and send it again.                                       *)
MoveOn(t, tried) ==
  LET o == FirstOperator(pool', tried)
      a == issued + 1
  IN /\ StillPending(t.req)
     /\ o # NoOperator
     /\ issued < MaxAttempts
     /\ row' = [row EXCEPT ![t.req] = Moved(t.req, o, a)]
     /\ tasks' = (tasks \ {t}) \cup
          {[phase |-> "send", req |-> t.req, attempt |-> a, operator |-> o,
            tried |-> tried \cup {o}, again |-> FALSE]}
     /\ issued' = a

(* Nobody is left to try, or the row is no longer ours to move: the row    *)
(* fails where it is still pending.                                        *)
GiveUp(t, tried) ==
  /\ StillPending(t.req) => FirstOperator(pool', tried) = NoOperator
  /\ row' = UpdateWhere(t.req, {"pending"}, Settled(t.req, "failed"))
  /\ tasks' = tasks \ {t}
  /\ UNCHANGED issued

(* A credential refusal in the answer to the call itself: Safaricom turned *)
(* the request down outright, which no lost answer says.                   *)
RefusalOrLost(t) == t.phase \in {"refused", "lost"}
Refusal(t) == t.phase = "refused"

RecordRefused(t) ==
  /\ Refusal(t)
  /\ pool' \in AfterRefusal(pool, t.operator)
  /\ IF Counts(pool, t.operator)
       THEN MoveOn(t, t.tried) \/ GiveUp(t, t.tried)
       ELSE /\ row' = UpdateWhere(t.req, {"pending"}, Settled(t.req, "failed"))
            /\ tasks' = tasks \ {t}
            /\ UNCHANGED issued
  /\ UNCHANGED <<due, wire, queries, crashes>>

(***************************************************************************)
(* Results.  A result of an attempt that ended may be lost, late, or       *)
(* delivered any number of times; each delivery is one transaction, and a  *)
(* credential refusal that can be sent again continues in memory.          *)
(***************************************************************************)

SafaricomProcesses(a) ==
  /\ wire[a].at = "queued"
  /\ \E end \in {"paid", "failed", "refused"} : wire' = [wire EXCEPT ![a].at = end]
  /\ UNCHANGED <<row, tasks, due, queries, pool, issued, crashes>>

(* What the network must respect when it is not allowed to misbehave.      *)
Arrives(a) ==
  \A t \in tasks :
    t.attempt = a => IF t.phase = "failover" THEN "redeliver" \in Around
                                             ELSE "overtake" \in Around

ResultPaid(a, r) ==
  /\ wire[a].at = "paid" /\ Arrives(a) /\ Names(r, KeyOf(a))
  /\ row[r].status \in Live
  /\ row' = [row EXCEPT ![r] = Settled(r, "completed")]
  /\ pool' = AfterSuccess(pool, row[r].operator)
  /\ UNCHANGED <<tasks, due, wire, queries, issued, crashes>>

(* A credential refusal while another verified operator is attached.       *)
SentAgain(a, r) ==
  wire[a].at = "refused" /\ row[r].operator # NoOperator
    /\ Usable(pool) \ {row[r].operator} # {}

ResultFailed(a, r) ==
  /\ wire[a].at \in {"failed", "refused"} /\ Arrives(a) /\ Names(r, KeyOf(a))
  /\ row[r].status \in Live /\ ~SentAgain(a, r)
  /\ row' = [row EXCEPT ![r] = Settled(r, "failed")]
  /\ pool' \in IF wire[a].at = "refused" THEN AfterRefusal(pool, row[r].operator) ELSE {pool}
  /\ UNCHANGED <<tasks, due, wire, queries, issued, crashes>>

(* failoverPending: the row goes back in flight, and is sent after the     *)
(* transaction.                                                            *)
ResultRefused(a, r) ==
  /\ wire[a].at = "refused" /\ Arrives(a) /\ Names(r, KeyOf(a))
  /\ row[r].status \in Live /\ SentAgain(a, r)
  /\ row' = [row EXCEPT ![r] = [@ EXCEPT !.status = "pending", !.parked = FALSE,
                                         !.polls = 0, !.quiet = "asked", !.ack = NoAttempt]]
  /\ \E again \in BOOLEAN :
       LET t == [phase |-> "failover", req |-> r, attempt |-> a,
                 operator |-> row[r].operator, tried |-> {row[r].operator}, again |-> again]
       IN /\ t \notin tasks
          /\ again => [t EXCEPT !.again = FALSE] \in tasks
          /\ tasks' = tasks \cup {t}
  /\ UNCHANGED <<due, wire, queries, pool, issued, crashes>>

(* What follows that transaction: the refusal is counted, and the row      *)
(* moves to the next operator or fails.  A refusal that is not counted     *)
(* (the operator was disabled since) leaves the row as it is.              *)
Failover(t) ==
  /\ t.phase = "failover"
  /\ pool' \in AfterRefusal(pool, t.operator)
  /\ IF Counts(pool, t.operator)
       THEN MoveOn(t, t.tried) \/ GiveUp(t, t.tried)
       ELSE tasks' = tasks \ {t} /\ UNCHANGED <<row, issued>>
  /\ UNCHANGED <<due, wire, queries, crashes>>

(* Safaricom's queue timeout is not a result: the row only becomes unknown.*)
TimedOutAsFailed == "failed"
TimedOut == "unknown"

QueueTimeout(a, r) ==
  /\ wire[a].at # "absent" /\ Arrives(a) /\ Names(r, KeyOf(a))
  /\ row[r].status \in {"pending", "sent"}
  /\ row' = [row EXCEPT ![r] = [row[r] EXCEPT !.status = TimedOut,
                !.quiet = IF StillPending(r) THEN JustSent(@) ELSE @]]
  /\ UNCHANGED <<tasks, due, wire, queries, pool, issued, crashes>>

(***************************************************************************)
(* Status queries.  The sweep selects the rows to ask about, then asks one *)
(* by one; the identifier it asks by was read at the selection.            *)
(***************************************************************************)

(* Only of a live row is the clock ever read.                              *)
TwoMinutesPass(r) ==
  /\ row[r].status \in Live /\ row[r].quiet # "no"
  /\ row' = [row EXCEPT ![r].quiet = "no"]
  /\ UNCHANGED <<tasks, due, wire, queries, pool, issued, crashes>>

(* After MAX_POLLS queries without a result the row is unknown for good.   *)
SweepExpire(r) ==
  /\ row[r].status \in Live /\ ~row[r].checked /\ ~row[r].parked
  /\ row[r].polls >= MaxPolls /\ row[r].quiet # "asked"
  /\ row' = [row EXCEPT ![r] = [@ EXCEPT !.status = "unknown", !.parked = TRUE]]
  /\ UNCHANGED <<tasks, due, wire, queries, pool, issued, crashes>>

(* Without a verified operator the sweep asks nothing.                     *)
SweepSelect(r) ==
  /\ row[r].status \in Live /\ ~row[r].checked
  /\ row[r].polls < MaxPolls /\ row[r].quiet = "no"
  /\ Usable(pool) # {}
  /\ due' = due \cup {[req |-> r, key |-> AskedBy(r)]}
  /\ due' # due
  /\ UNCHANGED <<row, tasks, wire, queries, pool, issued, crashes>>

PollOne(r) ==
  /\ row[r].status \in Live
  /\ row[r].polls < MaxPolls /\ row[r].quiet # "asked"
  /\ Usable(pool) # {}
  /\ due' = due \cup {[req |-> r, key |-> AskedBy(r)]}
  /\ due' # due
  /\ UNCHANGED <<row, tasks, wire, queries, pool, issued, crashes>>

(* pollTarget: the attempt is counted before the call, whatever the row    *)
(* has become since and whether or not Safaricom accepts the query.        *)
(* (Only whether the count has reached the cap is ever read.)              *)
OneMoreUncapped(n) == n + 1
OneMore(n) == IF n < MaxPolls THEN n + 1 ELSE n

CountedIfAccepted(r, accepted) ==
  [row[r] EXCEPT !.polls = IF accepted THEN OneMore(@) ELSE @, !.quiet = "asked"]
Counted(r, accepted) == [row[r] EXCEPT !.polls = OneMore(@), !.quiet = "asked"]

Ask(d) ==
  /\ due' = due \ {d}
  /\ \E accepted \in BOOLEAN :
       /\ row' = [row EXCEPT ![d.req] = Counted(d.req, accepted)]
       /\ IF ~accepted THEN UNCHANGED queries
          ELSE \E q \in QueryIds :
                 /\ queries[q] = Unasked
                 /\ \A p \in 1..(q - 1) : queries[p] # Unasked
                 /\ queries' = [queries EXCEPT ![q] =
                      [state |-> "unrecorded", target |-> d.req, key |-> d.key,
                       says |-> "nothing"]]
  /\ UNCHANGED <<tasks, wire, pool, issued, crashes>>

(* The query's own row is inserted; that it never happens is a crash, or a *)
(* failed insert.                                                          *)
RecordQuery(q) ==
  /\ queries[q].state = "unrecorded"
  /\ queries' = [queries EXCEPT ![q].state = "recorded"]
  /\ UNCHANGED <<row, tasks, due, wire, pool, issued, crashes>>

(* What Safaricom knows of the payment it is asked about, by that id.      *)
Knows(k) ==
  LET w == wire[k.attempt]
  IN IF w.at \in {"absent", "queued"} THEN "unclear"
     ELSE IF w.api # k.form THEN "unclear"
     ELSE IF w.at = "paid" THEN "completed" ELSE "failed"

SafaricomAnswers(q) ==
  /\ queries[q].state \in {"unrecorded", "recorded"} /\ queries[q].says = "nothing"
  /\ queries' = [queries EXCEPT ![q].says = Knows(queries[q].key)]
  /\ UNCHANGED <<row, tasks, due, wire, pool, issued, crashes>>

Answered(q) ==
  /\ queries[q].state \in {"unrecorded", "recorded"} /\ queries[q].says # "nothing"
  /\ "slowAnswer" \in Around
       \/ row[queries[q].target].attempt = queries[q].key.attempt

(* The answer finds its query row: the query ends, and a clear answer that *)
(* differs from the payment's status is written, even over a final one.    *)
StatusResult(q) ==
  /\ Answered(q) /\ queries[q].state = "recorded"
  /\ LET r == queries[q].target
         s == queries[q].says
     IN row' = IF s = "unclear" \/ row[r].status = s THEN row
               ELSE [row EXCEPT ![r] = Settled(r, s)]
  /\ queries' = [queries EXCEPT ![q] = Done]
  /\ UNCHANGED <<tasks, due, wire, pool, issued, crashes>>

(* The answer finds no query row: only a row still waiting that the        *)
(* identifier names directly is settled.                                   *)
StatusDirect(q, r) ==
  /\ Answered(q) /\ queries[q].state = "unrecorded" /\ queries[q].says # "unclear"
  /\ Names(r, queries[q].key) /\ row[r].status \in Live
  /\ row' = [row EXCEPT ![r] = Settled(r, queries[q].says)]
  /\ UNCHANGED <<tasks, due, wire, queries, pool, issued, crashes>>

MarkChecked(r) ==
  /\ row[r].status = "unknown"
  /\ ~row[r].checked
  /\ row' = [row EXCEPT ![r].checked = TRUE]
  /\ UNCHANGED <<tasks, due, wire, queries, pool, issued, crashes>>

(***************************************************************************)
(* The owner's hand on the pool, and a crash of the server.                *)
(***************************************************************************)

Disable(o) ==
  /\ "disable" \in Around
  /\ pool[o].status # "disabled"
  /\ pool' = [pool EXCEPT ![o].status = "disabled"]
  /\ UNCHANGED <<row, tasks, due, wire, queries, issued, crashes>>

(* Reinstate: a probe Safaricom accepted clears the count and verifies.    *)
Reinstate(o) ==
  /\ "reinstate" \in Around
  /\ pool[o].status = "failed"
  /\ pool' = [pool EXCEPT ![o] = [status |-> "verified", failures |-> 0]]
  /\ UNCHANGED <<row, tasks, due, wire, queries, issued, crashes>>

Crash ==
  /\ crashes < MaxCrashes
  /\ tasks # {} \/ due # {}
  /\ crashes' = crashes + 1
  /\ tasks' = {} /\ due' = {}
  /\ UNCHANGED <<row, wire, queries, pool, issued>>

Continue(t) ==
  \/ Hold(t) \/ CallAccepted(t) \/ CallNotAccepted(t) \/ RecordAck(t) \/ AckThrew(t)
  \/ RecordUnconfirmed(t) \/ RecordDeclined(t) \/ RecordRefused(t) \/ Failover(t)

Decide(r) ==
  \/ \E held \in BOOLEAN : Create(r, held)
  \/ \E p \in People : Release(r, p) \/ Refuse(r, p)
  \/ MarkChecked(r) \/ PollOne(r)

Clock(r) ==
  \/ TwoMinutesPass(r) \/ ExpireApproval(r)
  \/ SweepExpire(r) \/ SweepSelect(r)

Result(a) ==
  \/ SafaricomProcesses(a)
  \/ \E r \in Requests : \/ ResultPaid(a, r) \/ ResultFailed(a, r)
                         \/ ResultRefused(a, r) \/ QueueTimeout(a, r)

Answer(q) ==
  \/ SafaricomAnswers(q) \/ RecordQuery(q) \/ StatusResult(q)
  \/ \E r \in Requests : StatusDirect(q, r)

Next ==
  \/ \E r \in Requests : Decide(r) \/ Clock(r)
  \/ \E t \in tasks : Continue(t)
  \/ \E d \in due : Ask(d)
  \/ \E a \in Attempts : Result(a)
  \/ \E q \in QueryIds : Answer(q)
  \/ \E o \in Operators : Disable(o) \/ Reinstate(o)
  \/ Crash

Spec == Init /\ [][Next]_vars

(***************************************************************************)
(* Properties.                                                             *)
(***************************************************************************)

\* The tables and continuations stay within their types.
TypeOK ==
  /\ row \in [Requests -> Row]
  /\ tasks \subseteq Task
  /\ due \subseteq Due
  /\ wire \in [Attempts -> Wire \cup {Absent}]
  /\ queries \in [QueryIds -> Query \cup {Unasked, Done}]
  /\ pool \in Pools
  /\ issued \in 0..MaxAttempts
  /\ crashes \in 0..MaxCrashes

Sent(r) == \E a \in Attempts : wire[a].at # "absent" /\ wire[a].req = r

\* Safaricom never accepts a payment at or above the threshold that no
\* second person released.
SecondPerson ==
  \A r \in Requests : Sent(r) /\ row[r].held => row[r].approver \notin {Nobody, Creator}

\* A payment that waits for approval, or was turned down, has never
\* reached Safaricom and is in nobody's hands to send, whatever was in
\* flight when it was decided.
RejectedNeverSent ==
  \A r \in Requests : row[r].status \in {"awaiting_approval", "rejected"} =>
    ~Sent(r) /\ \A t \in tasks : t.req # r

\* No callback, late ack, timeout or failover reopens a settled payment,
\* and a payment that was let through is never put back to wait.
SettledStays ==
  [][\A r \in Requests :
       /\ row[r].status \in Final => row'[r].status \in Final
       /\ Sent(r) => row'[r].status # "awaiting_approval"]_vars

\* Safaricom is never asked to pay while an earlier attempt of the same
\* payment is with it or has been paid: what it holds or has paid is the
\* attempt the row stands for.
InFlightIsCurrent ==
  \A a \in Attempts : wire[a].at \in {"queued", "paid"} =>
    row[wire[a].req].attempt = a

\* No payment moves money twice.
PaysOnce ==
  \A a, b \in Attempts :
    wire[a].at = "paid" /\ wire[b].at = "paid" /\ wire[a].req = wire[b].req => a = b

\* A payment called failed has not been paid and is not with Safaricom,
\* where acknowledgements are stored and no status answer is slow.
FailedNotPaid ==
  \A a \in Attempts : wire[a].at \in {"queued", "paid"} =>
    row[wire[a].req].status # "failed"

\* A payment about to be sent has somebody sending it.
PendingHasSender ==
  \A r \in Requests : row[r].status = "pending" => \E t \in tasks : t.req = r

(***************************************************************************)
(* The promise: a row waits as long as nobody released it, even in the     *)
(* moment before the hold is written.                                      *)
(***************************************************************************)

Unreleased(r) == row[r].held /\ row[r].approver = Nobody

StageOf(r) ==
  IF row[r].status \in Live \cup {"awaiting_approval"}
    THEN IF Unreleased(r) THEN "waiting" ELSE "flight"
    ELSE row[r].status

PaidAttempts(r) == {a \in Attempts : wire[a].at = "paid" /\ wire[a].req = r}

Promise == INSTANCE Payment WITH
  stage <- [r \in Requests |-> StageOf(r)],
  paidBy <- [r \in Requests |-> PaidAttempts(r)]

\* Every behaviour of the rows is one the promise allows.
KeepsPromise == Promise!Spec

(***************************************************************************)
(* Fairness: continuations run, the recurring sweep job keeps coming back, *)
(* time passes.  Nothing is assumed of Safaricom or of people.             *)
(***************************************************************************)

Fairness ==
  /\ WF_vars(\E t \in tasks : Continue(t))
  /\ WF_vars(\E d \in due : Ask(d))
  /\ \A r \in Requests : /\ WF_vars(TwoMinutesPass(r))
                         /\ WF_vars(SweepExpire(r))
                         /\ WF_vars(SweepSelect(r))

FairSpec == Spec /\ Fairness

Ends(r) == row[r].status \notin Live \/ row[r].parked \/ row[r].checked

\* With an operator to ask with, and refusals that are not redelivered for
\* ever, a payment in flight ends: it is settled, it is left to a person
\* for good, or a person has checked it -- even if Safaricom never answers
\* and every callback is lost.
EveryPaymentEnds ==
  /\ <>[](Usable(pool) # {})
  /\ \A a \in Attempts, r \in Requests : <>[][~ResultRefused(a, r)]_vars
  => \A r \in Requests : row[r].status \in Live ~> Ends(r)
=============================================================================
