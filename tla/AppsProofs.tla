----------------------------- MODULE AppsProofs -----------------------------
(***************************************************************************)
(* Theorems about what an app has to do with Studio, for any number of     *)
(* calls and of passes and any times: payments of a guarded route are      *)
(* apart and the calls under one key make one payment (AppCalls), and the  *)
(* app is told how the payment ended (Webhooks).                           *)
(***************************************************************************)
EXTENDS AppCalls, Webhooks, TLAPS

(***************************************************************************)
(* The lock of a payment.  A call that has looked for a duplicate and not  *)
(* yet written is the one that holds the lock, so what it found is still   *)
(* so when it writes.                                                      *)
(***************************************************************************)

CallTypes ==
  /\ calls \in [Calls -> Call \cup {NoCall}]
  /\ key \in KeyRow \cup {NoKey} /\ nextId \in Nat \ {0}
  /\ payments \in Seq(Nat) /\ time \in Nat

Checked ==
  \A c \in Calls : At(c, "inserting") =>
    /\ lock = c
    /\ guarded => \A k \in 1..Len(payments) : payments[k] + DuplicateWindow <= time

Guarding == CallTypes /\ Checked /\ PaymentsApart

LEMMA KeyId == ASSUME CallTypes PROVE key.id \in Nat
BY DEF CallTypes, KeyRow, NoKey

(* A call that goes from one point to the next is still a call.            *)
LEMMA StillCall ==
  ASSUME CallTypes, NEW c \in Calls, calls[c] # NoCall
  PROVE  calls[c] \in Call
BY DEF CallTypes

(* A step of one call that leaves the lock, the payments and the clock     *)
(* alone, and is not into the handler's insert, keeps everything.          *)
LEMMA OutsideLock ==
  ASSUME Guarding, NEW c \in Calls, NEW x \in Call \cup {NoCall},
         calls' = [calls EXCEPT ![c] = x], x.at # "inserting" \/ x.at = calls[c].at,
         UNCHANGED <<guarded, lock, payments, time>>,
         key' \in KeyRow \cup {NoKey}, nextId' \in Nat \ {0}
  PROVE  Guarding'
<1>1. CallTypes'
  BY DEF Guarding, CallTypes
<1>2. ASSUME NEW d \in Calls, calls'[d].at = "inserting" PROVE calls[d].at = "inserting"
  BY <1>2 DEF Guarding, CallTypes
<1> QED BY <1>1, <1>2 DEF Guarding, Checked, PaymentsApart, At

LEMMA GuardInit == CallsInit => Guarding
BY CallsAssumption DEF CallsInit, Guarding, CallTypes, Checked, PaymentsApart, NoCall, NoKey, At

(* Deleting or answering a row leaves a row or none.                       *)
LEMMA RowsStayRows ==
  ASSUME CallTypes, NEW c \in Calls, NEW id,
         key' = key \/ key' = NoKey \/ Stored(c) \/ Delete(id)
  PROVE  key' \in KeyRow \cup {NoKey}
<1>1. key # NoKey => [key EXCEPT !.status = "answered"] \in KeyRow
  BY DEF CallTypes, KeyRow
<1> QED BY <1>1 DEF CallTypes, Stored, Delete

LEMMA GuardStep == Guarding /\ [CallsNext]_callVars => Guarding'
<1> SUFFICES ASSUME Guarding, [CallsNext]_callVars PROVE Guarding'
  OBVIOUS
<1>0. CallTypes /\ key.id \in Nat
  BY KeyId DEF Guarding
<1>1. ASSUME NEW c \in Calls, Ring(c) PROVE Guarding'
  <2> DEFINE x == [at |-> "claiming", claim |-> NoClaim, began |-> time, open |-> TRUE]
  <2>1. x \in Call
    BY <1>0 DEF CallTypes, Call, NoClaim
  <2> QED BY <1>0, <1>1, <2>1, OutsideLock DEF Ring, CallTypes
<1>2. ASSUME NEW c \in Calls, calls[c] # NoCall,
             NEW phase \in {"claiming", "reading", "taking", "locking", "answering", "faulting"},
             Goes(c, phase), UNCHANGED <<guarded, lock, payments, time>>,
             key' \in KeyRow \cup {NoKey}, nextId' \in Nat \ {0}
      PROVE  Guarding'
  <2> DEFINE x == [calls[c] EXCEPT !.at = phase]
  <2>1. x \in Call /\ x.at = phase
    BY <1>0, <1>2, StillCall DEF CallTypes, Call
  <2> QED BY <1>2, <2>1, OutsideLock DEF Goes
<1>3. ASSUME NEW c \in Calls, Returns(c), UNCHANGED <<guarded, lock, payments, time>>,
             key' \in KeyRow \cup {NoKey}, nextId' \in Nat \ {0}
      PROVE  Guarding'
  BY <1>3, OutsideLock DEF Returns, NoCall
<1>4. ASSUME NEW c \in Calls, InsertKey(c) PROVE Guarding'
  <2>0. calls[c] # NoCall
    BY <1>4 DEF InsertKey, At, NoCall
  <2>1. CASE key = NoKey /\ Holds(c, nextId)
             /\ key' = [id |-> nextId, since |-> time, claimedAt |-> time, status |-> "claimed"]
             /\ nextId' = nextId + 1
    <3> DEFINE x == [calls[c] EXCEPT !.at = "locking", !.claim = nextId]
    <3>1. x \in Call /\ x.at = "locking"
      BY <1>0, <2>0, StillCall DEF CallTypes, Call
    <3>2. key' \in KeyRow /\ nextId' \in Nat \ {0}
      BY <1>0, <2>1 DEF CallTypes, KeyRow
    <3> QED BY <1>4, <2>1, <3>1, <3>2, OutsideLock DEF InsertKey, Holds
  <2>2. CASE Goes(c, "reading") /\ UNCHANGED <<key, nextId>>
    BY <1>0, <1>2, <1>4, <2>0, <2>2 DEF InsertKey, CallTypes
  <2> QED BY <1>4, <2>1, <2>2 DEF InsertKey
<1>5. ASSUME NEW c \in Calls, ReadKey(c) PROVE Guarding'
  <2>0. calls[c] # NoCall
    BY <1>5 DEF ReadKey, At, NoCall
  <2>1. CASE Goes(c, "locking")
    BY <1>0, <1>2, <1>5, <2>0, <2>1 DEF ReadKey, CallTypes
  <2>2. CASE Returns(c)
    BY <1>0, <1>3, <1>5, <2>2 DEF ReadKey, CallTypes
  <2>3. CASE calls' = [calls EXCEPT ![c] = [calls[c] EXCEPT !.at = "taking", !.claim = key.id]]
    <3> DEFINE x == [calls[c] EXCEPT !.at = "taking", !.claim = key.id]
    <3>1. x \in Call /\ x.at = "taking"
      BY <1>0, <2>0, StillCall DEF CallTypes, Call
    <3> QED BY <1>0, <1>5, <2>3, <3>1, OutsideLock DEF ReadKey, CallTypes
  <2> QED BY <1>5, <2>1, <2>2, <2>3 DEF ReadKey
<1>6. ASSUME NEW c \in Calls, TakeKey(c) PROVE Guarding'
  <2>0. calls[c] # NoCall
    BY <1>6 DEF TakeKey, At, NoCall
  <2>1. CASE Abandoned(c) /\ Goes(c, "locking") /\ key' = [key EXCEPT !.claimedAt = time]
    <3>1. key' \in KeyRow
      BY <1>0, <2>1 DEF Abandoned, CallTypes, KeyRow
    <3> QED BY <1>0, <1>2, <1>6, <2>0, <2>1, <3>1 DEF TakeKey, CallTypes
  <2>2. CASE Returns(c) /\ UNCHANGED key
    BY <1>0, <1>3, <1>6, <2>2 DEF TakeKey, CallTypes
  <2> QED BY <1>6, <2>1, <2>2 DEF TakeKey
<1>7. ASSUME NEW c \in Calls, Check(c) PROVE Guarding'
  <2> DEFINE x == [calls[c] EXCEPT !.at = "inserting"]
  <2>1. x \in Call
    BY <1>0, <1>7, StillCall DEF Check, At, NoCall, Call
  <2>2. /\ calls' = [calls EXCEPT ![c] = x] /\ lock' = c /\ lock = Nobody
        /\ UNCHANGED <<guarded, key, nextId, payments, time>>
        /\ guarded => ~Sent
    BY <1>7 DEF Check, Goes, LockFree
  <2>3. CallTypes'
    BY <1>0, <2>1, <2>2 DEF CallTypes
  <2>4. guarded => \A k \in 1..Len(payments) : payments[k] + DuplicateWindow <= time
    BY <1>0, <2>2, CallsAssumption DEF Sent, CallTypes
  <2>5. \A d \in Calls : calls'[d].at = "inserting" => d = c
    BY <1>0, <2>2, CallsAssumption DEF Guarding, Checked, At, CallTypes
  <2> QED BY <2>2, <2>3, <2>4, <2>5 DEF Guarding, Checked, PaymentsApart, At
<1>8. ASSUME NEW c \in Calls, RefuseCall(c) PROVE Guarding'
  BY <1>0, <1>2, <1>8 DEF RefuseCall, At, NoCall, CallTypes
<1>9. ASSUME NEW c \in Calls, Write(c) PROVE Guarding'
  <2> DEFINE x == [calls[c] EXCEPT !.at = "answering"]
  <2>1. x \in Call /\ x.at = "answering"
    BY <1>0, <1>9, StillCall DEF Write, At, NoCall, Call
  <2>2. /\ calls' = [calls EXCEPT ![c] = x] /\ payments' = Append(payments, time)
        /\ UNCHANGED <<guarded, key, nextId, time>>
    BY <1>9 DEF Write, Goes
  <2>3. CallTypes'
    BY <1>0, <2>1, <2>2 DEF CallTypes
  <2>4. guarded => \A k \in 1..Len(payments) : payments[k] + DuplicateWindow <= time
    BY <1>9 DEF Write, Guarding, Checked
  <2>5. \A d \in Calls : calls'[d].at # "inserting"
    BY <1>0, <1>9, <2>1, <2>2 DEF Write, Guarding, Checked, At, CallTypes
  <2>6. PaymentsApart'
    <3>1. /\ Len(payments') = Len(payments) + 1 /\ payments'[Len(payments')] = time
          /\ \A k \in 1..Len(payments) : payments'[k] = payments[k]
          /\ Len(payments) \in Nat
      BY <1>0, <2>2 DEF CallTypes
    <3> QED BY <2>2, <2>4, <3>1 DEF Guarding, PaymentsApart
  <2> QED BY <2>3, <2>5, <2>6 DEF Guarding, Checked, At
<1>10. ASSUME NEW c \in Calls, Fault(c) PROVE Guarding'
  <2> DEFINE x == [calls[c] EXCEPT !.at = "faulting"]
  <2>1. x \in Call /\ x.at = "faulting"
    BY <1>0, <1>10, StillCall DEF Fault, NoCall, Call
  <2>2. /\ calls' = [calls EXCEPT ![c] = x] /\ UNCHANGED <<guarded, key, nextId, payments, time>>
        /\ lock' = IF lock = c THEN Nobody ELSE lock
    BY <1>10 DEF Fault, Goes
  <2>3. CallTypes'
    BY <1>0, <2>1, <2>2 DEF CallTypes
  <2>4. ASSUME NEW d \in Calls, calls'[d].at = "inserting"
        PROVE  d # c /\ calls[d].at = "inserting"
    BY <1>0, <2>1, <2>2, <2>4 DEF CallTypes
  <2> QED BY <2>2, <2>3, <2>4 DEF Guarding, Checked, PaymentsApart, At
<1>11. ASSUME NEW c \in Calls, Reply(c) \/ ReplyUnstored(c) PROVE Guarding'
  <2>1. key' \in KeyRow \cup {NoKey}
    <3>1. key' = key \/ Stored(c) \/ Delete(calls[c].claim)
      BY <1>11 DEF Reply, ReplyUnstored
    <3> QED BY <1>0, <3>1, RowsStayRows
  <2> QED BY <1>0, <1>3, <1>11, <2>1 DEF Reply, ReplyUnstored, CallTypes
<1>12. ASSUME NEW c \in Calls, Drop(c) PROVE Guarding'
  <2> DEFINE x == [calls[c] EXCEPT !.open = FALSE]
  <2>0. calls[c] \in Call
    <3>1. calls[c] # NoCall
      BY <1>12 DEF Drop, InHandler, NoCall
    <3> QED BY <1>0, <3>1, StillCall
  <2>1. x \in Call /\ x.at = calls[c].at
    BY <2>0 DEF Call
  <2> QED BY <1>0, <1>12, <2>1, OutsideLock DEF Drop, CallTypes
<1>13. ASSUME NEW id \in releases, ReleaseClaim(id) PROVE Guarding'
  <2>1. key' \in KeyRow \cup {NoKey}
    BY <1>0, <1>13 DEF ReleaseClaim, Delete, CallTypes
  <2> QED BY <1>13, <2>1 DEF ReleaseClaim, Guarding, CallTypes, Checked, PaymentsApart, At
<1>14. CASE Stop
  BY <1>14 DEF Stop, Guarding, CallTypes, Checked, PaymentsApart, At, NoCall
<1>15. CASE Tick
  <2>1. time' = time + 1 /\ UNCHANGED <<guarded, key, nextId, calls, lock, payments>>
    BY <1>15 DEF Tick
  <2>2. CallTypes'
    BY <1>0, <2>1 DEF CallTypes
  <2>3. \A k \in 1..Len(payments) : payments[k] \in Nat
    BY <1>0 DEF CallTypes
  <2> QED BY <1>0, <2>1, <2>2, <2>3, CallsAssumption DEF Guarding, Checked, PaymentsApart, At, CallTypes
<1>16. CASE UNCHANGED callVars
  BY <1>16 DEF callVars, Guarding, CallTypes, Checked, PaymentsApart, At
<1> QED
  BY <1>1, <1>4, <1>5, <1>6, <1>7, <1>8, <1>9, <1>10, <1>11, <1>12, <1>13, <1>14, <1>15, <1>16
  DEF CallsNext, CallStep

(* A guarded route never makes the same payment twice inside its window    *)
(* (PaymentsApart), for any number of calls, any life of the key and any   *)
(* number of faults: the lock and the one transaction are enough, whatever *)
(* becomes of the claims (http/idempotency.ts, money_out/service.ts).      *)
THEOREM PaymentsApartAlways == CallsSpec => []PaymentsApart
<1>1. Guarding => PaymentsApart
  BY DEF Guarding
<1> QED BY <1>1, GuardInit, GuardStep, PTL DEF CallsSpec

(***************************************************************************)
(* What an app is told.  Of an end that no event was lost of, something is *)
(* always on its way, or queued: the change that is not published yet, an  *)
(* event, a reader that saw the end, or the notice.                        *)
(***************************************************************************)

HookTypes ==
  /\ status \in PaymentStatuses /\ publishing \in Nat /\ notified \in Nat
  /\ writing \in [PaymentStatuses -> Nat] /\ missed \in BOOLEAN
  /\ deliveries \in Seq(Delivery)
  /\ dispatches \in [Dispatches -> SUBSET [id: Nat, tries: Nat]]

EndQueued == \E i \in Ids : deliveries[i].body = "ended"

EndFollowed ==
  status = "ended" /\ ~missed =>
    publishing > 0 \/ notified > 0 \/ writing["ended"] > 0 \/ EndQueued

Telling == HookTypes /\ EndFollowed

LEMMA TellingInit == WebhooksInit => Telling
<1> SUFFICES ASSUME WebhooksInit PROVE Telling
  OBVIOUS
<1>1. deliveries \in Seq(Delivery) /\ status \in PaymentStatuses /\ status # "ended"
  BY DEF WebhooksInit, PaymentStatuses
<1>2. /\ writing \in [PaymentStatuses -> Nat]
      /\ dispatches \in [Dispatches -> SUBSET [id: Nat, tries: Nat]]
  BY DEF WebhooksInit, NothingRead, NoDispatch
<1> QED BY <1>1, <1>2 DEF WebhooksInit, Telling, HookTypes, EndFollowed

(* A notice that is queued stays queued, whatever becomes of it.           *)
LEMMA NoticesStay ==
  ASSUME HookTypes, NEW f \in [Ids -> Delivery], deliveries' = f,
         \A i \in Ids : f[i].body = deliveries[i].body
  PROVE  deliveries' \in Seq(Delivery) /\ (EndQueued => EndQueued')
<1>1. Len(deliveries) \in Nat /\ DOMAIN deliveries = 1..Len(deliveries)
  BY DEF HookTypes
<1>2. f \in Seq(Delivery) /\ Len(f) = Len(deliveries)
  BY <1>1 DEF Ids
<1> QED BY <1>1, <1>2 DEF EndQueued, Ids

LEMMA PostKeeps ==
  ASSUME Telling, NEW d \in Dispatches, Post(d)
  PROVE  Telling'
<1>1. PICK row \in dispatches[d] :
        \E answer \in {"accepted", "refused", "blocked"} :
          /\ deliveries' = [deliveries EXCEPT
               ![row.id] = Outcome(deliveries[row.id], Counted(row.tries), answer)]
          /\ dispatches' = [dispatches EXCEPT ![d] = dispatches[d] \ {row}]
  BY DEF Post
<1>2. PICK answer \in {"accepted", "refused", "blocked"} :
          /\ deliveries' = [deliveries EXCEPT
               ![row.id] = Outcome(deliveries[row.id], Counted(row.tries), answer)]
          /\ dispatches' = [dispatches EXCEPT ![d] = dispatches[d] \ {row}]
  BY <1>1
<1>3. row.tries \in Nat /\ Counted(row.tries) \in Nat
  BY <1>1 DEF Telling, HookTypes, Counted
<1>4. deliveries \in [Ids -> Delivery]
  BY DEF Telling, HookTypes, Ids
<1> DEFINE o == Outcome(deliveries[row.id], Counted(row.tries), answer)
<1>5. ASSUME row.id \in Ids PROVE o \in Delivery /\ o.body = deliveries[row.id].body
  <2>1. deliveries[row.id] \in Delivery
    BY <1>4, <1>5
  <2>2. MaxTries \in Nat
    BY WebhookAssumption
  <2> QED BY <2>1, <2>2, <1>3 DEF Outcome, Delivery, UsedUp
<1> HIDE DEF o
<1>6. deliveries' = [deliveries EXCEPT ![row.id] = o]
  BY <1>2 DEF o
<1>7. /\ deliveries' \in [Ids -> Delivery]
      /\ \A i \in Ids : deliveries'[i].body = deliveries[i].body
  BY <1>4, <1>5, <1>6
<1>8. deliveries' \in Seq(Delivery) /\ (EndQueued => EndQueued')
  <2> PICK f \in [Ids -> Delivery] : deliveries' = f
    BY <1>7
  <2>1. \A i \in Ids : f[i].body = deliveries[i].body
    BY <1>7
  <2> QED BY <2>1, NoticesStay DEF Telling
<1>9. dispatches' \in [Dispatches -> SUBSET [id: Nat, tries: Nat]]
  BY <1>2 DEF Telling, HookTypes
<1> QED BY <1>8, <1>9 DEF Post, Telling, HookTypes, EndFollowed

LEMMA QueueKeeps == Telling /\ EnqueueNotice => Telling'
<1> SUFFICES ASSUME Telling, EnqueueNotice PROVE Telling'
  OBVIOUS
<1>1. PICK s \in PaymentStatuses :
        /\ writing[s] > 0
        /\ writing' = [writing EXCEPT ![s] = writing[s] - 1]
        /\ deliveries' = Queued(s)
  BY DEF EnqueueNotice
<1>2. NewDelivery(s) \in Delivery /\ NewDelivery(s).body = s
  BY DEF NewDelivery, Delivery
<1> DEFINE n == NewDelivery(s)
<1> HIDE DEF n
<1>3. /\ deliveries' \in Seq(Delivery) /\ Len(deliveries') = Len(deliveries) + 1
      /\ Len(deliveries) \in Nat /\ deliveries'[Len(deliveries) + 1] = n
      /\ \A i \in 1..Len(deliveries) : deliveries'[i] = deliveries[i]
  BY <1>1, <1>2 DEF Telling, HookTypes, Queued, n
<1>4. EndQueued => EndQueued'
  BY <1>3 DEF EndQueued, Ids
<1>5. CASE s = "ended"
  <2>1. EndQueued'
    BY <1>2, <1>3, <1>5 DEF EndQueued, Ids, n
  <2> QED BY <1>1, <1>3, <2>1 DEF EnqueueNotice, Telling, HookTypes, EndFollowed
<1>6. CASE s # "ended"
  <2>1. writing'["ended"] = writing["ended"]
    BY <1>1, <1>6 DEF Telling, HookTypes, PaymentStatuses
  <2> QED BY <1>1, <1>3, <1>4, <2>1 DEF EnqueueNotice, Telling, HookTypes, EndFollowed
<1> QED BY <1>5, <1>6

LEMMA TellingStep == Telling /\ [WebhooksNext]_hookVars => Telling'
<1> SUFFICES ASSUME Telling, [WebhooksNext]_hookVars PROVE Telling'
  OBVIOUS
<1> USE DEF Telling, HookTypes
<1>0. deliveries \in [Ids -> Delivery] /\ \A i \in Ids : i \in Nat
  BY DEF Ids
<1>1. ASSUME NEW s \in PaymentStatuses, Changes(s) PROVE Telling'
  BY <1>1 DEF Changes, EndFollowed
<1>2. CASE Publish
  <2>1. publishing' \in Nat /\ notified' \in Nat /\ (~missed' => ~missed)
        /\ (~missed' => notified' > 0)
    BY <1>2 DEF Publish
  <2>2. missed' \in BOOLEAN
    BY <1>2 DEF Publish
  <2> QED BY <1>2, <2>1, <2>2 DEF Publish, EndFollowed
<1>3. CASE HandleEvent
  <2>1. writing' \in [PaymentStatuses -> Nat] /\ writing'[status] > 0
        /\ \A s \in PaymentStatuses : writing'[s] >= writing[s]
    BY <1>3 DEF HandleEvent
  <2> QED BY <1>3, <2>1 DEF HandleEvent, EndFollowed, EndQueued, Ids, PaymentStatuses
<1>4. CASE EnqueueNotice
  BY <1>4, QueueKeeps
<1>5. ASSUME NEW d \in Dispatches, BeginDispatch(d) PROVE Telling'
  <2>1. PICK S \in SUBSET {i \in Ids : Pending(i)} :
          dispatches' = [dispatches EXCEPT ![d] = {Read(i) : i \in S}]
    BY <1>5 DEF BeginDispatch
  <2>2. \A i \in S : Read(i) \in [id: Nat, tries: Nat]
    BY <1>0 DEF Read, Delivery
  <2>3. dispatches' \in [Dispatches -> SUBSET [id: Nat, tries: Nat]]
    BY <2>1, <2>2
  <2> QED BY <1>5, <2>3 DEF BeginDispatch, EndFollowed, EndQueued, Ids
<1>6. ASSUME NEW d \in Dispatches, Post(d) PROVE Telling'
  BY <1>6, PostKeeps
<1>7. ASSUME NEW i \in Ids, RetryByHand(i) PROVE Telling'
  <2>1. PICK f \in [Ids -> Delivery] :
          f = [deliveries EXCEPT ![i].again = TRUE, ![i].arrived = FALSE]
    BY <1>0 DEF Delivery
  <2>2. deliveries' = f /\ \A j \in Ids : f[j].body = deliveries[j].body
    BY <1>7, <2>1 DEF RetryByHand, Ids, Delivery
  <2>3. deliveries' \in Seq(Delivery) /\ (EndQueued => EndQueued')
    BY <2>2, NoticesStay
  <2> QED BY <1>7, <2>3 DEF RetryByHand, Disrupts, EndFollowed
<1>8. CASE ClearUndelivered
  <2>1. PICK S \in {{TRUE}, {FALSE}, BOOLEAN} :
          deliveries' = [i \in Ids |->
            IF ~deliveries[i].arrived /\ deliveries[i].again \in S
            THEN [deliveries[i] EXCEPT !.kept = FALSE] ELSE deliveries[i]]
    BY <1>8 DEF ClearUndelivered
  <2>2. PICK f \in [Ids -> Delivery] :
          f = [i \in Ids |->
            IF ~deliveries[i].arrived /\ deliveries[i].again \in S
            THEN [deliveries[i] EXCEPT !.kept = FALSE] ELSE deliveries[i]]
    BY <1>0, ZenonT(40) DEF Delivery
  <2>3. deliveries' = f /\ \A j \in Ids : f[j].body = deliveries[j].body
    BY <2>1, <2>2 DEF Ids, Delivery
  <2>4. deliveries' \in Seq(Delivery) /\ (EndQueued => EndQueued')
    BY <2>3, NoticesStay
  <2> QED BY <1>8, <2>4 DEF ClearUndelivered, Disrupts, EndFollowed
<1>9. CASE SwitchDeveloper
  BY <1>9 DEF SwitchDeveloper, EndFollowed, EndQueued, Ids
<1>10. CASE HooksStop
  <2>0. missed \/ publishing + notified > 0 \/ writing # NothingRead => missed'
    BY <1>10, Zenon DEF HooksStop
  <2>1. ~missed' => ~missed /\ publishing + notified = 0 /\ writing = NothingRead
    BY <2>0
  <2>2. ~missed' => writing["ended"] = 0 /\ publishing = 0 /\ notified = 0
    BY <2>1 DEF NothingRead, PaymentStatuses
  <2>3. EndFollowed'
    BY <1>10, <2>1, <2>2 DEF HooksStop, EndFollowed, EndQueued, Ids
  <2> QED BY <1>10, <2>3 DEF HooksStop, NothingRead, NoDispatch
<1>11. CASE UNCHANGED hookVars
  BY <1>11 DEF hookVars, EndFollowed, EndQueued, Ids
<1>12. CASE WriterThrows
  <2>1. PICK f \in [PaymentStatuses -> Nat], n \in Nat : writing' = f /\ notified' = n
    <3>1. CASE notified > 0 /\ notified' = notified - 1 /\ UNCHANGED writing
      BY <3>1
    <3>2. ASSUME NEW s \in PaymentStatuses, writing[s] > 0,
                 writing' = [writing EXCEPT ![s] = writing[s] - 1], UNCHANGED notified
          PROVE  writing' \in [PaymentStatuses -> Nat] /\ notified' \in Nat
      BY <3>2
    <3> QED BY <1>12, <3>1, <3>2 DEF WriterThrows
  <2> QED BY <1>12, <2>1 DEF WriterThrows, EndFollowed
<1>13. ASSUME NEW d \in Dispatches, PostThrows(d) PROVE Telling'
  BY <1>13 DEF PostThrows, NoDispatch, EndFollowed, EndQueued, Ids
<1> QED
  BY <1>1, <1>2, <1>3, <1>4, <1>5, <1>6, <1>7, <1>8, <1>9, <1>10, <1>11, <1>12, <1>13
  DEF WebhooksNext, DispatchStep

(* Once nothing is on its way and no event was lost, a notice of how the   *)
(* payment ended is queued (EndIsTold), for any number of changes, passes, *)
(* deliveries, throws, stops and clearings, although the writer reads the  *)
(* payment when it handles the event and not when it happened              *)
(* (webhooks/writer.ts, events/hub.ts).                                    *)
THEOREM EndIsToldAlways == WebhooksSpec => []EndIsTold
<1>1. Telling => EndIsTold
  BY DEF Telling, HookTypes, EndFollowed, EndIsTold, EndQueued, NothingRead, PaymentStatuses
<1> QED BY <1>1, TellingInit, TellingStep, PTL DEF WebhooksSpec

(***************************************************************************)
(* The calls under one key, while nothing is disturbed.  A call is over    *)
(* within Patience, the key it works under stays, and of the calls that    *)
(* found the key one runs its handler: so a payment is the only one        *)
(* between the key's insert and its expiry.                                *)
(***************************************************************************)

Working(c) == calls[c] # NoCall

OnTime ==
  \A c \in Calls : Working(c) =>
    calls[c].began <= time /\ time <= calls[c].began + Patience

KeyHeld ==
  /\ key # NoKey => key.since <= time
  /\ (\E c \in Calls : Working(c)) /\ key # NoKey => time <= key.since + KeyLife
  /\ \A c \in Calls : calls[c].at \in {"reading", "taking"} => key # NoKey
  /\ \A c \in Calls : At(c, "taking") => calls[c].claim = key.id

OneHandler ==
  /\ \A c \in Calls : InHandler(c) =>
       /\ key # NoKey /\ key.status = "claimed" /\ calls[c].claim = key.id
       /\ calls[c].began <= key.since /\ ~At(c, "faulting")
  /\ \A c, d \in Calls : InHandler(c) /\ InHandler(d) => c = d
  /\ key # NoKey /\ key.status = "claimed" => \E c \in Calls : InHandler(c)
  /\ key # NoKey => key.claimedAt = key.since

BeforeWrite == \E c \in Calls : calls[c].at \in {"locking", "inserting"}

PaidUnder ==
  \A k \in 1..Len(payments) :
    /\ payments[k] <= time
    /\ key = NoKey => payments[k] + KeyLife - Patience <= time
    /\ key # NoKey =>
         \/ payments[k] + KeyLife - Patience <= key.since
         \/ ~BeforeWrite /\ payments[k] <= key.since + Patience

Apart ==
  \A k, l \in 1..Len(payments) : k < l => payments[k] + KeyLife - Patience <= payments[l]

Quiet == releases = {} /\ OnTime /\ KeyHeld /\ OneHandler /\ PaidUnder /\ Apart

LEMMA CallIs ==
  ASSUME CallTypes, NEW c \in Calls, calls[c].at # "idle"
  PROVE  Working(c) /\ calls[c] \in Call
BY DEF CallTypes, Working, NoCall

LEMMA KeyIs ==
  ASSUME CallTypes, key # NoKey
  PROVE  key \in KeyRow /\ key.id \in Nat \ {0} /\ key.since \in Nat /\ key.claimedAt \in Nat
BY DEF CallTypes, KeyRow

LEMMA PaymentIs ==
  ASSUME CallTypes, NEW k \in 1..Len(payments)
  PROVE  payments[k] \in Nat
BY DEF CallTypes

(* A call goes on without the key, the payments or the clock.              *)
LEMMA CallGoesOn ==
  ASSUME CallTypes, Quiet, NEW c \in Calls, Working(c), NEW x \in Call,
         calls' = [calls EXCEPT ![c] = x], UNCHANGED <<key, payments, time, releases>>,
         x.began = calls[c].began, x.at # "faulting",
         x.at \in {"reading", "taking"} => key # NoKey,
         x.at = "taking" => x.claim = key.id,
         x.at \in {"locking", "inserting", "answering"} => InHandler(c) /\ x.claim = calls[c].claim,
         x.at \in {"locking", "inserting"} => calls[c].at \in {"locking", "inserting"},
         InHandler(c) => x.at \in {"locking", "inserting", "answering"}
  PROVE  Quiet'
<1>1. calls'[c] = x /\ x # NoCall /\ \A d \in Calls : d # c => calls'[d] = calls[d]
  BY DEF CallTypes, Call, NoCall
<1>2. OnTime'
  BY <1>1 DEF Quiet, OnTime, Working
<1>3. KeyHeld'
  BY <1>1 DEF Quiet, KeyHeld, Working, At
<1>4. \A d \in Calls : InHandler(d)' <=> InHandler(d)
  BY <1>1 DEF InHandler
<1>5. OneHandler'
  BY <1>1, <1>4 DEF Quiet, OneHandler, At, InHandler
<1>6. BeforeWrite' => BeforeWrite
  BY <1>1 DEF BeforeWrite
<1>7. PaidUnder' /\ Apart'
  BY <1>6 DEF Quiet, PaidUnder, Apart
<1> QED BY <1>2, <1>3, <1>5, <1>7 DEF Quiet

(* A call that has not reached its handler replays, or is refused.         *)
LEMMA CallTurnsBack ==
  ASSUME CallTypes, Quiet, NEW c \in Calls, ~InHandler(c), Returns(c),
         UNCHANGED <<key, payments, time, releases>>
  PROVE  Quiet'
<1>1. calls'[c] = NoCall /\ \A d \in Calls : d # c => calls'[d] = calls[d]
  BY DEF CallTypes, Returns
<1>2. OnTime'
  BY <1>1 DEF Quiet, OnTime, Working
<1>3. KeyHeld'
  BY <1>1 DEF Quiet, KeyHeld, Working, At, NoCall
<1>4. \A d \in Calls : InHandler(d)' <=> InHandler(d)
  BY <1>1 DEF InHandler, NoCall
<1>5. OneHandler'
  BY <1>1, <1>4 DEF Quiet, OneHandler, At, InHandler
<1>6. BeforeWrite' => BeforeWrite
  BY <1>1 DEF BeforeWrite, NoCall
<1>7. PaidUnder' /\ Apart'
  BY <1>6 DEF Quiet, PaidUnder, Apart
<1> QED BY <1>2, <1>3, <1>5, <1>7 DEF Quiet

LEMMA RingQuiet ==
  ASSUME CallTypes, Quiet, NEW c \in Calls, Ring(c)
  PROVE  Quiet'
<1>1. /\ calls'[c] = [at |-> "claiming", claim |-> NoClaim, began |-> time, open |-> TRUE]
      /\ \A d \in Calls : d # c => calls'[d] = calls[d]
      /\ UNCHANGED <<payments, time, releases>> /\ calls[c].at = "idle"
  BY DEF Ring, CallTypes, At
<1>2. time \in Nat /\ Patience \in Nat /\ KeyLife \in Nat /\ Patience < KeyLife
  BY CallsAssumption DEF CallTypes
<1>3. OnTime'
  BY <1>1, <1>2 DEF Quiet, OnTime, Working
<1>4. \A d \in Calls : InHandler(d)' <=> InHandler(d)
  BY <1>1 DEF InHandler
<1>5. BeforeWrite' => BeforeWrite
  BY <1>1 DEF BeforeWrite
<1>6. CASE ~Expired
  <2>1. key' = key
    BY <1>6 DEF Ring
  <2>2. key # NoKey => time <= key.since + KeyLife
    BY <1>2, <1>6, KeyIs DEF Expired
  <2>3. KeyHeld'
    BY <1>1, <2>1, <2>2 DEF Quiet, KeyHeld, At
  <2>4. OneHandler'
    BY <1>1, <1>4, <2>1 DEF Quiet, OneHandler, At, InHandler
  <2>5. PaidUnder' /\ Apart'
    BY <1>1, <1>5, <2>1 DEF Quiet, PaidUnder, Apart
  <2> QED BY <1>1, <1>3, <2>3, <2>4, <2>5 DEF Quiet
<1>7. CASE Expired
  <2>1. key' = NoKey /\ key # NoKey /\ key.since \in Nat /\ key.since + KeyLife < time
    BY <1>7, KeyIs DEF Ring, Expired
  <2>2. \A d \in Calls : ~Working(d)
    BY <1>2, <2>1 DEF Quiet, KeyHeld
  <2>3. \A d \in Calls : calls[d].at = "idle"
    BY <2>2, CallIs
  <2>4. KeyHeld'
    BY <1>1, <2>1, <2>3 DEF KeyHeld, At
  <2>5. OneHandler'
    BY <1>1, <1>4, <2>1, <2>3 DEF OneHandler, InHandler, At
  <2>6. ASSUME NEW k \in 1..Len(payments)
        PROVE  payments[k] <= time /\ payments[k] + KeyLife - Patience <= time
    <3>1. payments[k] \in Nat
      BY PaymentIs
    <3>2. payments[k] <= time
      BY DEF Quiet, PaidUnder
    <3>3. payments[k] + KeyLife - Patience <= key.since \/ payments[k] <= key.since + Patience
      BY <2>1 DEF Quiet, PaidUnder
    <3> QED BY <1>2, <2>1, <3>1, <3>2, <3>3
  <2>7. PaidUnder' /\ Apart'
    BY <1>1, <2>1, <2>6 DEF Quiet, PaidUnder, Apart
  <2> QED BY <1>1, <1>3, <2>4, <2>5, <2>7 DEF Quiet
<1> QED BY <1>6, <1>7

(* The first call of a key: what was paid under the one before it is a     *)
(* key's life ago.                                                         *)
LEMMA InsertQuiet ==
  ASSUME CallTypes, Quiet, NEW c \in Calls, InsertKey(c)
  PROVE  Quiet'
<1>1. Working(c) /\ calls[c] \in Call /\ calls[c].at = "claiming"
  BY CallIs DEF InsertKey, At
<1>2. time \in Nat /\ Patience \in Nat /\ KeyLife \in Nat /\ nextId \in Nat
  BY CallsAssumption DEF CallTypes
<1>3. CASE key # NoKey /\ Goes(c, "reading") /\ UNCHANGED <<key, nextId>>
  <2> PICK x \in Call : x = [calls[c] EXCEPT !.at = "reading"]
    BY <1>1 DEF Call
  <2>1. x.at = "reading" /\ x.began = calls[c].began /\ ~InHandler(c)
    BY <1>1 DEF Call, InHandler
  <2>2. calls' = [calls EXCEPT ![c] = x] /\ UNCHANGED <<key, payments, time, releases>>
    BY <1>3 DEF Goes, InsertKey
  <2> QED BY <1>1, <1>3, <2>1, <2>2, CallGoesOn
<1>4. CASE key = NoKey /\ Holds(c, nextId)
           /\ key' = [id |-> nextId, since |-> time, claimedAt |-> time, status |-> "claimed"]
  <2> PICK x \in Call : x = [calls[c] EXCEPT !.at = "locking", !.claim = nextId]
    BY <1>1, <1>2 DEF Call
  <2>1. x.at = "locking" /\ x.began = calls[c].began /\ x.claim = nextId /\ x # NoCall
    BY <1>1, <1>2 DEF Call, NoCall
  <2>2. /\ calls'[c] = x /\ \A d \in Calls : d # c => calls'[d] = calls[d]
        /\ UNCHANGED <<payments, time, releases>>
    BY <1>4 DEF Holds, InsertKey, CallTypes
  <2>3. /\ key'.id = nextId /\ key'.since = time /\ key'.claimedAt = time
        /\ key'.status = "claimed" /\ key' # NoKey
    BY <1>4 DEF NoKey
  <2>4. calls[c].began <= time /\ OnTime'
    BY <1>1, <2>1, <2>2 DEF Quiet, OnTime, Working
  <2>5. \A d \in Calls : ~InHandler(d) /\ calls[d].at \notin {"reading", "taking"}
    BY <1>4 DEF Quiet, OneHandler, KeyHeld
  <2>6. KeyHeld'
    <3>1. time' <= key'.since + KeyLife
      BY <1>2, <2>2, <2>3
    <3>2. \A d \in Calls : calls'[d].at \notin {"reading", "taking"}
      BY <2>1, <2>2, <2>5
    <3> QED BY <1>2, <2>2, <2>3, <3>1, <3>2 DEF KeyHeld, At
  <2>7. \A d \in Calls : InHandler(d)' <=> d = c
    BY <2>1, <2>2, <2>5 DEF InHandler
  <2>8. OneHandler'
    BY <2>1, <2>2, <2>3, <2>4, <2>7 DEF OneHandler, At
  <2>9. PaidUnder' /\ Apart'
    BY <1>4, <2>2, <2>3 DEF Quiet, PaidUnder, Apart
  <2> QED BY <2>2, <2>4, <2>6, <2>8, <2>9 DEF Quiet
<1> QED BY <1>3, <1>4 DEF InsertKey

LEMMA ReadQuiet ==
  ASSUME CallTypes, Quiet, NEW c \in Calls, ReadKey(c)
  PROVE  Quiet'
<1>1. Working(c) /\ calls[c] \in Call /\ calls[c].at = "reading" /\ key # NoKey
  BY CallIs DEF ReadKey, At, Quiet, KeyHeld
<1>2. UNCHANGED <<key, payments, time, releases>> /\ ~InHandler(c)
  BY <1>1 DEF ReadKey, InHandler
<1>3. CASE Returns(c)
  BY <1>2, <1>3, CallTurnsBack
<1>4. CASE calls' = [calls EXCEPT ![c] = [calls[c] EXCEPT !.at = "taking", !.claim = key.id]]
  <2>1. key.id \in Nat
    BY KeyId
  <2> PICK x \in Call : x = [calls[c] EXCEPT !.at = "taking", !.claim = key.id]
    BY <1>1, <2>1 DEF Call
  <2>2. x.at = "taking" /\ x.began = calls[c].began /\ x.claim = key.id
    BY <1>1, <2>1 DEF Call
  <2> QED BY <1>1, <1>2, <1>4, <2>2, CallGoesOn
<1> QED BY <1>1, <1>3, <1>4 DEF ReadKey

(* A claim is not taken over: its handler is still within its patience.    *)
LEMMA TakeQuiet ==
  ASSUME CallTypes, Quiet, NEW c \in Calls, TakeKey(c)
  PROVE  Quiet'
<1>1. calls[c].at = "taking" /\ ~InHandler(c)
  BY DEF TakeKey, At, InHandler
<1>2. ~Abandoned(c)
  <2> SUFFICES ASSUME Abandoned(c) PROVE FALSE
    OBVIOUS
  <2>1. key # NoKey /\ key.status = "claimed" /\ key.claimedAt + Patience < time
    BY DEF Abandoned
  <2>2. PICK d \in Calls : InHandler(d)
    BY <2>1 DEF Quiet, OneHandler
  <2>3. Working(d) /\ calls[d].began \in Nat
    BY <2>2, CallIs DEF InHandler, Call
  <2>4. calls[d].began <= key.claimedAt /\ time <= calls[d].began + Patience
    BY <2>1, <2>2, <2>3 DEF Quiet, OneHandler, OnTime
  <2> QED BY <2>1, <2>3, <2>4, KeyIs, CallsAssumption DEF CallTypes
<1> QED BY <1>1, <1>2, CallTurnsBack DEF TakeKey

LEMMA HandlerQuiet ==
  ASSUME CallTypes, Quiet, NEW c \in Calls, Check(c) \/ RefuseCall(c)
  PROVE  Quiet'
<1>1. Working(c) /\ calls[c] \in Call /\ calls[c].at = "locking" /\ InHandler(c)
  BY CallIs DEF Check, RefuseCall, At, InHandler
<1>2. UNCHANGED <<key, payments, time, releases>>
  BY DEF Check, RefuseCall
<1>3. PICK phase \in {"inserting", "answering"} : Goes(c, phase)
  BY DEF Check, RefuseCall
<1> PICK x \in Call : x = [calls[c] EXCEPT !.at = phase]
  BY <1>1 DEF Call
<1>4. x.at = phase /\ x.began = calls[c].began /\ x.claim = calls[c].claim
  BY <1>1 DEF Call
<1>5. calls' = [calls EXCEPT ![c] = x]
  BY <1>3 DEF Goes
<1> QED BY <1>1, <1>2, <1>4, <1>5, CallGoesOn

(* The payment: every one before it is a key's life older than the key.    *)
LEMMA WriteQuiet ==
  ASSUME CallTypes, Quiet, NEW c \in Calls, Write(c)
  PROVE  Quiet'
<1>1. Working(c) /\ calls[c] \in Call /\ calls[c].at = "inserting" /\ InHandler(c)
  BY CallIs DEF Write, At, InHandler
<1> PICK x \in Call : x = [calls[c] EXCEPT !.at = "answering"]
  BY <1>1 DEF Call
<1>2. x.at = "answering" /\ x.began = calls[c].began /\ x.claim = calls[c].claim /\ x # NoCall
  BY <1>1 DEF Call, NoCall
<1>3. /\ calls'[c] = x /\ \A d \in Calls : d # c => calls'[d] = calls[d]
      /\ UNCHANGED <<key, time, releases>> /\ payments' = Append(payments, time)
  BY DEF Write, Goes, CallTypes
<1>4. /\ Len(payments) \in Nat /\ Len(payments') = Len(payments) + 1
      /\ payments'[Len(payments) + 1] = time
      /\ \A k \in 1..Len(payments) : payments'[k] = payments[k]
  BY <1>3 DEF CallTypes
<1>5. OnTime'
  BY <1>1, <1>2, <1>3 DEF Quiet, OnTime, Working
<1>6. KeyHeld'
  BY <1>1, <1>2, <1>3 DEF Quiet, KeyHeld, Working, At
<1>7. \A d \in Calls : InHandler(d)' <=> InHandler(d)
  BY <1>1, <1>2, <1>3 DEF InHandler
<1>8. OneHandler'
  BY <1>1, <1>2, <1>3, <1>7 DEF Quiet, OneHandler, At
<1>9. /\ key # NoKey /\ calls[c].began <= key.since /\ time <= calls[c].began + Patience
      /\ key.since \in Nat /\ time \in Nat /\ Patience \in Nat /\ KeyLife \in Nat
      /\ Patience < KeyLife /\ calls[c].began <= time /\ calls[c].began \in Nat
  BY <1>1, KeyIs, CallsAssumption DEF Quiet, OneHandler, OnTime, CallTypes, Call
<1>10. ~BeforeWrite'
  <2>1. ASSUME NEW d \in Calls, calls'[d].at \in {"locking", "inserting"} PROVE FALSE
    <3>1. d # c /\ calls'[d] = calls[d]
      BY <1>2, <1>3, <2>1
    <3>2. InHandler(d)
      BY <2>1, <3>1 DEF InHandler
    <3> QED BY <1>1, <3>1, <3>2 DEF Quiet, OneHandler
  <2> QED BY <2>1 DEF BeforeWrite
<1>11. ASSUME NEW k \in 1..Len(payments)
       PROVE  /\ payments[k] \in Nat /\ payments[k] <= time
              /\ payments[k] + KeyLife - Patience <= key.since
  BY <1>1, <1>9, PaymentIs DEF Quiet, PaidUnder, BeforeWrite
<1>12. ASSUME NEW k \in 1..Len(payments)
       PROVE  payments[k] + KeyLife - Patience <= time
  <2>1. key.since <= time
    BY <1>9 DEF Quiet, KeyHeld
  <2> QED BY <1>9, <1>11, <2>1
<1>13. PaidUnder'
  <2>1. ASSUME NEW k \in 1..Len(payments')
        PROVE  /\ payments'[k] <= time
               /\ \/ payments'[k] + KeyLife - Patience <= key.since
                  \/ payments'[k] <= key.since + Patience
    <3>1. CASE k = Len(payments) + 1
      BY <1>4, <1>9, <3>1
    <3>2. CASE k \in 1..Len(payments)
      BY <1>4, <1>11, <3>2
    <3> QED BY <1>4, <3>1, <3>2
  <2> QED BY <1>3, <1>9, <1>10, <2>1 DEF PaidUnder
<1>14. Apart'
  <2>1. ASSUME NEW k \in 1..Len(payments'), NEW l \in 1..Len(payments'), k < l
        PROVE  payments'[k] + KeyLife - Patience <= payments'[l]
    <3>1. CASE l = Len(payments) + 1
      <4>1. k \in 1..Len(payments)
        BY <1>4, <2>1, <3>1
      <4> QED BY <1>4, <1>12, <3>1, <4>1
    <3>2. CASE l \in 1..Len(payments)
      BY <1>4, <2>1, <3>2 DEF Quiet, Apart
    <3> QED BY <1>4, <3>1, <3>2
  <2> QED BY <2>1 DEF Apart
<1> QED BY <1>3, <1>5, <1>6, <1>8, <1>13, <1>14 DEF Quiet

LEMMA ReplyQuiet ==
  ASSUME CallTypes, Quiet, NEW c \in Calls, Reply(c)
  PROVE  Quiet'
<1>1. InHandler(c) /\ calls[c].at = "answering"
  BY DEF Reply, At, InHandler, Quiet, OneHandler
<1>2. key # NoKey /\ key.id = calls[c].claim /\ key \in KeyRow
  BY <1>1, KeyIs DEF Quiet, OneHandler
<1> PICK q \in KeyRow : q = [key EXCEPT !.status = "answered"]
  BY <1>2 DEF KeyRow
<1>3. q.since = key.since /\ q.claimedAt = key.claimedAt /\ q.id = key.id /\ q.status = "answered"
  BY <1>2 DEF KeyRow
<1>4. key' = q /\ q # NoKey
  BY <1>1, <1>2, <1>3 DEF Reply, Stored, At, KeyRow, NoKey
<1>5. /\ calls'[c] = NoCall /\ \A d \in Calls : d # c => calls'[d] = calls[d]
      /\ UNCHANGED <<payments, time, releases>>
  BY DEF Reply, Returns, CallTypes
<1>6. OnTime'
  BY <1>5 DEF Quiet, OnTime, Working
<1>7. KeyHeld'
  BY <1>2, <1>3, <1>4, <1>5 DEF Quiet, KeyHeld, Working, At, NoCall
<1>8. \A d \in Calls : ~InHandler(d)'
  BY <1>1, <1>5 DEF Quiet, OneHandler, InHandler, NoCall
<1>9. OneHandler'
  BY <1>2, <1>3, <1>4, <1>8 DEF Quiet, OneHandler
<1>10. BeforeWrite' => BeforeWrite
  BY <1>5 DEF BeforeWrite, NoCall
<1>11. PaidUnder' /\ Apart'
  BY <1>2, <1>3, <1>4, <1>5, <1>10 DEF Quiet, PaidUnder, Apart
<1> QED BY <1>5, <1>6, <1>7, <1>9, <1>11 DEF Quiet

(* A minute in which no call outlasts its claim and no key expires under   *)
(* one.                                                                    *)
LEMMA TickQuiet ==
  ASSUME CallTypes, Quiet, Tick, ~Outlasts, ~ExpiresUnderCall
  PROVE  Quiet'
<1>1. time' = time + 1 /\ UNCHANGED <<key, calls, releases, payments>>
  BY DEF Tick
<1>2. time \in Nat /\ Patience \in Nat /\ KeyLife \in Nat
  BY CallsAssumption DEF CallTypes
<1>3. OnTime'
  <2>1. ASSUME NEW c \in Calls, Working(c)
        PROVE  calls[c].began <= time + 1 /\ time + 1 <= calls[c].began + Patience
    <3>1. calls[c].began \in Nat
      BY <2>1 DEF Working, CallTypes, Call
    <3>2. calls[c].began <= time /\ ~(calls[c].began + Patience <= time)
      BY <2>1 DEF Quiet, OnTime, Working, Outlasts
    <3> QED BY <1>2, <3>1, <3>2
  <2> QED BY <1>1, <2>1 DEF OnTime, Working
<1>4. KeyHeld'
  <2>1. ASSUME NEW c \in Calls, Working(c), key # NoKey PROVE time + 1 <= key.since + KeyLife
    <3>1. time <= key.since + KeyLife /\ key.since + KeyLife # time
      BY <2>1 DEF Quiet, KeyHeld, Working, ExpiresUnderCall
    <3> QED BY <1>2, <2>1, <3>1, KeyIs
  <2>2. key # NoKey => key.since <= time + 1
    BY <1>2, KeyIs DEF Quiet, KeyHeld
  <2> QED BY <1>1, <2>1, <2>2 DEF Quiet, KeyHeld, Working, At
<1>5. OneHandler'
  BY <1>1 DEF Quiet, OneHandler, InHandler, At
<1>6. ASSUME NEW k \in 1..Len(payments)
      PROVE  /\ payments[k] <= time + 1
             /\ key = NoKey => payments[k] + KeyLife - Patience <= time + 1
  <2>1. payments[k] \in Nat
    BY PaymentIs
  <2>2. payments[k] <= time /\ (key = NoKey => payments[k] + KeyLife - Patience <= time)
    BY DEF Quiet, PaidUnder
  <2> QED BY <1>2, <2>1, <2>2
<1>7. PaidUnder' /\ Apart'
  BY <1>1, <1>6 DEF Quiet, PaidUnder, BeforeWrite, Apart
<1> QED BY <1>1, <1>3, <1>4, <1>5, <1>7 DEF Quiet

(* What is promised holds while nothing is disturbed, and a disturbance,   *)
(* once counted, stays counted.                                            *)
QuietInv ==
  /\ Guarding /\ disturbances \in Nat /\ releases \subseteq Nat
  /\ disturbances = 0 => Quiet

LEMMA QuietInit == CallsInit => QuietInv
<1> SUFFICES ASSUME CallsInit PROVE QuietInv
  OBVIOUS
<1>1. key = NoKey /\ releases = {} /\ payments = <<>> /\ disturbances = 0
      /\ \A c \in Calls : calls[c] = NoCall /\ calls[c].at = "idle"
  BY DEF CallsInit, NoCall
<1>2. OnTime /\ KeyHeld /\ OneHandler
  BY <1>1 DEF OnTime, KeyHeld, OneHandler, Working, At, InHandler
<1>3. PaidUnder /\ Apart
  BY <1>1 DEF PaidUnder, Apart
<1> QED BY <1>1, <1>2, <1>3, GuardInit DEF QuietInv, Quiet

(* The bound on the disturbances leaves room for one: otherwise a minute   *)
(* that is one would not be counted.                                       *)
LEMMA QuietStep ==
  ASSUME MaxDisturbances \in Nat \ {0}, QuietInv, [CallsNext]_callVars
  PROVE  QuietInv'
<1>1. Guarding'
  BY GuardStep DEF QuietInv
<1>2. disturbances' \in Nat /\ (disturbances' = 0 => disturbances = 0)
  <2>1. disturbances' \in {disturbances, disturbances + 1}
    <3>1. ASSUME NEW c \in Calls, Ring(c) \/ CallStep(c) PROVE disturbances' = disturbances
      BY <3>1 DEF CallStep, Ring, InsertKey, ReadKey, TakeKey, Check, RefuseCall, Write, Reply
    <3>2. ASSUME NEW c \in Calls, Fault(c) \/ ReplyUnstored(c) \/ Drop(c) PROVE Disturbs
      BY <3>2 DEF Fault, ReplyUnstored, Drop
    <3>3. ASSUME NEW id \in releases, ReleaseClaim(id) PROVE disturbances' = disturbances
      BY <3>3 DEF ReleaseClaim
    <3>4. CASE Stop
      BY <3>4 DEF Stop, Disturbs
    <3>5. CASE Tick
      BY <3>5 DEF Tick
    <3>6. CASE UNCHANGED callVars
      BY <3>6 DEF callVars
    <3> QED BY <3>1, <3>2, <3>3, <3>4, <3>5, <3>6 DEF CallsNext, Disturbs
  <2> QED BY <2>1 DEF QuietInv
<1>3. releases' \subseteq Nat
  <2>1. ASSUME NEW c \in Calls, Drop(c) PROVE releases' \subseteq Nat
    <3>1. calls[c].claim \in Nat
      BY <2>1, CallIs DEF QuietInv, Guarding, Drop, InHandler, Call
    <3> QED BY <2>1, <3>1 DEF Drop, QuietInv
  <2> QED
    BY <2>1 DEF QuietInv, CallsNext, CallStep, callVars, Ring, InsertKey, ReadKey, TakeKey, Check,
         RefuseCall, Write, Reply, Fault, ReplyUnstored, ReleaseClaim, Stop, Tick
<1>4. ASSUME disturbances' = 0 PROVE Quiet'
  <2>0. disturbances = 0 /\ CallTypes /\ Quiet
    BY <1>2, <1>4 DEF QuietInv, Guarding
  <2>1. ~Disturbs
    BY <1>4, <2>0 DEF Disturbs
  <2>2. ASSUME NEW c \in Calls, Ring(c) \/ CallStep(c) PROVE Quiet'
    BY <2>0, <2>2, RingQuiet, InsertQuiet, ReadQuiet, TakeQuiet, HandlerQuiet, WriteQuiet,
       ReplyQuiet DEF CallStep
  <2>3. ASSUME NEW c \in Calls, Fault(c) \/ ReplyUnstored(c) \/ Drop(c) PROVE Quiet'
    BY <2>1, <2>3 DEF Fault, ReplyUnstored, Drop
  <2>4. ASSUME NEW id \in releases, ReleaseClaim(id) PROVE Quiet'
    BY <2>0, <2>4 DEF Quiet
  <2>5. CASE Stop
    BY <2>1, <2>5 DEF Stop
  <2>6. CASE Tick
    <3>1. ~Outlasts /\ ~ExpiresUnderCall
      BY <1>4, <2>0, <2>6 DEF Tick
    <3> QED BY <2>0, <2>6, <3>1, TickQuiet
  <2>7. CASE UNCHANGED callVars
    BY <2>0, <2>7 DEF callVars, Quiet, OnTime, KeyHeld, OneHandler, PaidUnder, Apart, Working, At,
       InHandler, BeforeWrite
  <2> QED BY <2>2, <2>3, <2>4, <2>5, <2>6, <2>7 DEF CallsNext
<1> QED BY <1>1, <1>2, <1>3, <1>4 DEF QuietInv

(* Undisturbed, the calls of one key make one payment in the life of the   *)
(* key (KeyPaysOnce), guard or no guard, for any number of calls and any   *)
(* times, however the app overlaps and repeats them: the claim alone keeps *)
(* them apart (http/idempotency.ts).                                       *)
THEOREM KeyPaysOnceAlways ==
  ASSUME MaxDisturbances \in Nat \ {0}
  PROVE  CallsSpec => []KeyPaysOnce
<1>1. QuietInv => KeyPaysOnce
  BY DEF QuietInv, Quiet, Apart, KeyPaysOnce
<1>2. QuietInv /\ [CallsNext]_callVars => QuietInv'
  BY QuietStep
<1> QED BY <1>1, <1>2, QuietInit, PTL DEF CallsSpec
=============================================================================
