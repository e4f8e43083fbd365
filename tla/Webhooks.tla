------------------------------ MODULE Webhooks ------------------------------
(***************************************************************************)
(* What an app is told of a payment (server/src/webhooks/, and the event   *)
(* hub, server/src/events/hub.ts, in between).  Each change of the payment *)
(* is published after it is committed; the writer reads the payment when   *)
(* it handles the event and queues a delivery; passes of the dispatcher    *)
(* post what is due and try again, more slowly each time, until the app    *)
(* accepts it or the tries are used up.  A pass reads what is due without  *)
(* keeping it, so a pass that has taken over a stuck one posts beside it.  *)
(*                                                                         *)
(* One payment and one address.  How long a try waits is left out: of what *)
(* is pending, a pass finds some due.                                      *)
(***************************************************************************)
EXTENDS Naturals, Sequences, FiniteSets

CONSTANTS
  Dispatches,    \* passes of the dispatcher that may overlap
  MaxTries,      \* MAX_ATTEMPTS, six
  MaxDeliveries, \* bound: deliveries queued
  MaxDisruptions \* bound: stops, and what a person does to them

ASSUME WebhookAssumption == MaxTries \in Nat \ {0}

VARIABLES
  status,      \* the payment's
  publishing,  \* changes committed and not yet published
  notified,    \* events on their way to the writer
  writing,     \* of the events in hand, how many read each status of the payment
  missed,      \* whether an event was lost: nobody listened, or the server stopped
  developer,   \* whether the developer module is on
  deliveries,  \* webhook_deliveries, in the order they were queued
  dispatches,  \* what each pass has read, and has not posted
  disruptions  \* how often a person stepped in, or the server stopped

hookVars == <<status, publishing, notified, writing, missed, developer,
              deliveries, dispatches, disruptions>>

\* ended is completed or failed: which one, the notice reads off the payment.
PaymentStatuses == {"sent", "unknown", "ended"}

(* again is whether next_retry_at names a next try; tries is attempts, and *)
(* kept whether the row is there.                                          *)
Delivery == [body: PaymentStatuses, again: BOOLEAN, tries: Nat, arrived: BOOLEAN, kept: BOOLEAN]

NoDispatch == {}
NothingRead == [s \in PaymentStatuses |-> 0]

WebhooksInit ==
  /\ status = "sent" /\ publishing = 0 /\ notified = 0
  /\ writing = NothingRead /\ missed = FALSE
  /\ developer = TRUE
  /\ deliveries = <<>>
  /\ dispatches = [d \in Dispatches |-> NoDispatch]
  /\ disruptions = 0

(***************************************************************************)
(* From the payment to the delivery.                                       *)
(***************************************************************************)

Changes(s) ==
  /\ status # "ended" /\ s \in PaymentStatuses \ {status, "sent"}
  /\ status' = s
  /\ publishing' = publishing + 1
  /\ UNCHANGED <<notified, writing, missed, developer, deliveries, dispatches, disruptions>>

\* pg_notify reaches whoever listens now: nobody, while the hub reconnects.
Publish ==
  /\ publishing > 0
  /\ publishing' = publishing - 1
  /\ \/ notified' = notified + 1 /\ UNCHANGED missed
     \/ missed' = TRUE /\ UNCHANGED notified
  /\ UNCHANGED <<status, writing, developer, deliveries, dispatches, disruptions>>

\* The writer reads the payment as it is now, whatever the event was about; events overlap.
HandleEvent ==
  /\ notified > 0
  /\ notified' = notified - 1
  /\ writing' = [writing EXCEPT ![status] = writing[status] + 1]
  /\ UNCHANGED <<status, publishing, missed, developer, deliveries, dispatches, disruptions>>

NewDelivery(s) ==
  [body |-> s, again |-> TRUE, tries |-> 0, arrived |-> FALSE, kept |-> TRUE]

\* Mutated form: a payment the app was told of is not told again.
QueuedOnce(s) == IF deliveries = <<>> THEN <<NewDelivery(s)>> ELSE deliveries

Queued(s) == Append(deliveries, NewDelivery(s))

EnqueueNotice ==
  /\ \E s \in PaymentStatuses :
       /\ writing[s] > 0
       /\ writing' = [writing EXCEPT ![s] = writing[s] - 1]
       /\ deliveries' = Queued(s)
  /\ UNCHANGED <<status, publishing, notified, missed, developer, dispatches, disruptions>>

\* The writer's handler throws, while it reads or while it queues: the event is gone.
WriterThrows ==
  /\ \/ notified > 0 /\ notified' = notified - 1 /\ UNCHANGED writing
     \/ /\ \E s \in PaymentStatuses :
             writing[s] > 0 /\ writing' = [writing EXCEPT ![s] = writing[s] - 1]
        /\ UNCHANGED notified
  /\ missed' = TRUE
  /\ UNCHANGED <<status, publishing, developer, deliveries, dispatches, disruptions>>

(***************************************************************************)
(* The dispatcher.                                                         *)
(***************************************************************************)

Ids == 1..Len(deliveries)
Pending(i) == i \in Ids /\ deliveries[i].kept /\ ~deliveries[i].arrived /\ deliveries[i].again

\* The tries a pass read with the row, which it counts on from.
Read(i) == [id |-> i, tries |-> deliveries[i].tries]

\* The rows that are due; their locks end with the query.
BeginDispatch(d) ==
  /\ dispatches[d] = NoDispatch /\ developer
  /\ \E S \in SUBSET {i \in Ids : Pending(i)} :
       /\ S # {}
       /\ dispatches' = [dispatches EXCEPT ![d] = {Read(i) : i \in S}]
  /\ UNCHANGED <<status, publishing, notified, writing, missed, developer, deliveries, disruptions>>

\* Mutated form: a try is not counted.
CountedNot(tries) == tries

Counted(tries) == tries + 1

UsedUp(tries) == tries >= MaxTries

\* What the UPDATE after a post writes; it never clears delivered_at.
Outcome(row, tries, answer) ==
  [row EXCEPT !.tries = tries, !.arrived = @ \/ answer = "accepted",
              !.again = answer = "refused" /\ ~UsedUp(tries)]

(* A post, and the UPDATE after it; they were read in the order they fall  *)
(* due, which may be any.  The app accepts, or does not, or the address    *)
(* cannot be posted to at all.                                             *)
Post(d) ==
  /\ \E row \in dispatches[d], answer \in {"accepted", "refused", "blocked"} :
       /\ deliveries' = [deliveries EXCEPT
            ![row.id] = Outcome(deliveries[row.id], Counted(row.tries), answer)]
       /\ dispatches' = [dispatches EXCEPT ![d] = dispatches[d] \ {row}]
  /\ UNCHANGED <<status, publishing, notified, writing, missed, developer, disruptions>>

(* A statement of a post throws: the secret is not decrypted, or the       *)
(* UPDATE is refused, as PostgreSQL refuses a text with a NUL, after the   *)
(* app may have had the notice.  The try is not counted, the row is as due *)
(* as it was, and the rest of the pass is not posted.                      *)
PostThrows(d) ==
  /\ dispatches[d] # NoDispatch
  /\ dispatches' = [dispatches EXCEPT ![d] = NoDispatch]
  /\ UNCHANGED <<status, publishing, notified, writing, missed, developer, deliveries, disruptions>>

(***************************************************************************)
(* People, and what goes wrong.                                            *)
(***************************************************************************)

Disrupts == disruptions < MaxDisruptions /\ disruptions' = disruptions + 1

\* retry: also of a notice that arrived; the tries are not forgotten.
RetryByHand(i) ==
  /\ deliveries[i].kept /\ Disrupts
  /\ deliveries' = [deliveries EXCEPT ![i].again = TRUE, ![i].arrived = FALSE]
  /\ UNCHANGED <<status, publishing, notified, writing, missed, developer, dispatches>>

\* clear, and the removal of the address: what has not arrived is deleted.
ClearUndelivered ==
  /\ \E i \in Ids : deliveries[i].kept /\ ~deliveries[i].arrived
  /\ Disrupts
  /\ \E S \in {{TRUE}, {FALSE}, BOOLEAN} :
       deliveries' = [i \in Ids |->
         IF ~deliveries[i].arrived /\ deliveries[i].again \in S
         THEN [deliveries[i] EXCEPT !.kept = FALSE] ELSE deliveries[i]]
  /\ UNCHANGED <<status, publishing, notified, writing, missed, developer, dispatches>>

SwitchDeveloper ==
  /\ Disrupts
  /\ developer' = ~developer
  /\ UNCHANGED <<status, publishing, notified, writing, missed, deliveries, dispatches>>

\* The server stops, with every event it had in hand.
HooksStop ==
  /\ Disrupts
  /\ missed' = (missed \/ publishing + notified > 0 \/ writing # NothingRead)
  /\ publishing' = 0 /\ notified' = 0 /\ writing' = NothingRead
  /\ dispatches' = [d \in Dispatches |-> NoDispatch]
  /\ UNCHANGED <<status, developer, deliveries>>

DispatchStep(d) == BeginDispatch(d) \/ Post(d)

WebhooksNext ==
  \/ \E s \in PaymentStatuses : Changes(s)
  \/ Publish \/ HandleEvent \/ EnqueueNotice \/ WriterThrows
  \/ \E d \in Dispatches : DispatchStep(d) \/ PostThrows(d)
  \/ \E i \in Ids : RetryByHand(i)
  \/ ClearUndelivered \/ SwitchDeveloper \/ HooksStop

WebhooksSpec == WebhooksInit /\ [][WebhooksNext]_hookVars

(* The dispatcher runs every thirty seconds, and a wait comes to its end.  *)
WebhooksFairness == \A d \in Dispatches : WF_hookVars(DispatchStep(d))

WebhooksFairSpec == WebhooksSpec /\ WebhooksFairness

(***************************************************************************)
(* What the app may rely on.                                               *)
(***************************************************************************)

WebhooksTypeOK ==
  /\ status \in PaymentStatuses /\ publishing \in Nat /\ notified \in Nat
  /\ writing \in [PaymentStatuses -> Nat]
  /\ missed \in BOOLEAN /\ developer \in BOOLEAN
  /\ deliveries \in Seq(Delivery)
  /\ disruptions \in Nat

(* Once nothing is on its way and no event was lost, the app has been, or  *)
(* will be, told how the payment ended, although every notice is written   *)
(* from what the payment was when its event was handled.                   *)
EndIsTold ==
  status = "ended" /\ publishing = 0 /\ notified = 0 /\ writing = NothingRead /\ ~missed =>
    \E i \in Ids : deliveries[i].body = status

(* "That was the sixth: the delivery is left failed for a person": a       *)
(* notice does not stay pending.  It arrives, is given up after its tries  *)
(* or is cleared, unless the developer side is off.                        *)
TriesRunOut ==
  \A n \in 1..MaxDeliveries :
    Pending(n) ~> (~developer \/ ~Pending(n))

(* What of it holds: a notice can stay pending only if passes throw for    *)
(* ever.  Any number of throws in between, of stops, of passes that post   *)
(* the same row and write back an older count of tries, only delays it.    *)
NoticeEnds == []<><<\E d \in Dispatches : PostThrows(d)>>_hookVars \/ TriesRunOut
=============================================================================
