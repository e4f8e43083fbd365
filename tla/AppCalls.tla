------------------------------ MODULE AppCalls ------------------------------
(***************************************************************************)
(* Calls of an app under one Idempotency-Key (server/src/http/             *)
(* idempotency.ts), around the handler of a money-out route and its        *)
(* duplicate guard (createAndDispatch, server/src/money_out/service.ts).   *)
(* An app that hears nothing calls again with the same key, as often as it *)
(* likes; a claim on the key keeps the calls apart, and a stored answer    *)
(* replays.  Connections drop, handlers fault or are slow, the server      *)
(* stops: each of those counts as a disturbance.                           *)
(*                                                                         *)
(* All calls of the key ask for the same payment.  Times are minutes.      *)
(***************************************************************************)
EXTENDS Naturals, Sequences

CONSTANTS
  Calls,            \* the connections the app has open at once, at most
  Patience,         \* CLAIM_TIMEOUT_SECONDS, one minute
  DuplicateWindow,  \* DUP_WINDOW, five minutes
  KeyLife,          \* what a key lives, a day
  LastMinute,       \* bound: the last minute that nothing waits for
  MaxPayments,      \* bound: payments written
  MaxDisturbances   \* bound

Nobody == "nobody"

ASSUME CallsAssumption ==
  /\ Nobody \notin Calls
  /\ Patience \in Nat /\ DuplicateWindow \in Nat
  /\ KeyLife \in Nat /\ Patience < KeyLife

VARIABLES
  guarded,      \* whether the route has the duplicate guard, and the call leaves it on
  key,          \* the idempotency_keys row
  nextId,       \* the id of the next row
  calls,        \* what each call has in hand
  releases,     \* ids of rows that a closed connection is about to delete
  lock,         \* who holds the advisory lock of the payment
  payments,     \* when each request of the key was written
  time,
  disturbances

callVars == <<guarded, key, nextId, calls, releases, lock, payments, time, disturbances>>

NoCall == [at |-> "idle"]
NoKey == [id |-> 0]
NoClaim == 0

(* A row is claimed until an answer is stored in it: since is its insert,  *)
(* claimedAt its created_at, which a takeover renews.                      *)
KeyRow == [id: Nat \ {0}, since: Nat, claimedAt: Nat, status: {"claimed", "answered"}]

Call == [at: {"claiming", "reading", "taking", "locking", "inserting", "answering", "faulting"},
         claim: Nat, began: Nat, open: BOOLEAN]

CallsInit ==
  /\ guarded \in BOOLEAN
  /\ key = NoKey /\ nextId = 1
  /\ calls = [c \in Calls |-> NoCall]
  /\ releases = {} /\ lock = Nobody
  /\ payments = <<>>
  /\ time = 1 /\ disturbances = 0

Expired == key # NoKey /\ key.since + KeyLife < time

At(c, phase) == calls[c].at = phase
Goes(c, phase) == calls' = [calls EXCEPT ![c] = [calls[c] EXCEPT !.at = phase]]
Returns(c) == calls' = [calls EXCEPT ![c] = NoCall]

\* DELETE ... WHERE expires_at < now(), the first thing a call does.
Ring(c) ==
  /\ At(c, "idle")
  /\ key' = IF Expired THEN NoKey ELSE key
  /\ calls' = [calls EXCEPT ![c] =
       [at |-> "claiming", claim |-> NoClaim, began |-> time, open |-> TRUE]]
  /\ UNCHANGED <<guarded, nextId, releases, lock, payments, time, disturbances>>

Holds(c, id) ==
  calls' = [calls EXCEPT ![c] = [calls[c] EXCEPT !.at = "locking", !.claim = id]]

\* INSERT ... ON CONFLICT DO NOTHING
InsertKey(c) ==
  /\ At(c, "claiming")
  /\ \/ /\ key = NoKey
        /\ key' = [id |-> nextId, since |-> time, claimedAt |-> time, status |-> "claimed"]
        /\ nextId' = nextId + 1
        /\ Holds(c, nextId)
     \/ key # NoKey /\ Goes(c, "reading") /\ UNCHANGED <<key, nextId>>
  /\ UNCHANGED <<guarded, releases, lock, payments, time, disturbances>>

\* The row is gone and the call runs without one; or it replays; or it is claimed.
ReadKey(c) ==
  /\ At(c, "reading")
  /\ \/ key = NoKey /\ Goes(c, "locking")
     \/ key # NoKey /\ key.status = "answered" /\ Returns(c)
     \/ /\ key # NoKey /\ key.status = "claimed"
        /\ calls' = [calls EXCEPT ![c] = [calls[c] EXCEPT !.at = "taking", !.claim = key.id]]
  /\ UNCHANGED <<guarded, key, nextId, releases, lock, payments, time, disturbances>>

\* Mutated form: the claim of a call that has not answered is taken over at once.
AbandonedAtOnce(c) == key # NoKey /\ key.id = calls[c].claim /\ key.status = "claimed"
\* Mutated form: a claim is never taken over.
AbandonedNever(c) == FALSE

\* WHERE id = $1 AND status = CLAIMED AND created_at < now() - 60 seconds
Abandoned(c) ==
  /\ key # NoKey /\ key.id = calls[c].claim
  /\ key.status = "claimed" /\ key.claimedAt + Patience < time

TakeKey(c) ==
  /\ At(c, "taking")
  /\ \/ Abandoned(c) /\ Goes(c, "locking") /\ key' = [key EXCEPT !.claimedAt = time]
     \/ ~Abandoned(c) /\ Returns(c) /\ UNCHANGED key
  /\ UNCHANGED <<guarded, nextId, releases, lock, payments, time, disturbances>>

(***************************************************************************)
(* The handler: one transaction, under an advisory lock.                   *)
(***************************************************************************)

\* Mutated form: the lock is not taken.
LockUntaken(c) == TRUE

LockFree(c) == lock = Nobody

\* A request for the same payment inside the window (one that failed is none).
Sent == \E k \in 1..Len(payments) : time < payments[k] + DuplicateWindow

\* The guard's SELECT, once the lock is had: nothing like it was sent.
Check(c) ==
  /\ At(c, "locking") /\ LockFree(c) /\ ~(guarded /\ Sent)
  /\ lock' = c
  /\ Goes(c, "inserting")
  /\ UNCHANGED <<guarded, key, nextId, releases, payments, time, disturbances>>

\* A duplicate, or anything the handler refuses: a refusal is an answer too.
RefuseCall(c) ==
  /\ At(c, "locking")
  /\ Goes(c, "answering")
  /\ UNCHANGED <<guarded, key, nextId, releases, lock, payments, time, disturbances>>

\* The INSERT and the commit.
Write(c) ==
  /\ At(c, "inserting") /\ Len(payments) < MaxPayments
  /\ payments' = Append(payments, time)
  /\ lock' = Nobody
  /\ Goes(c, "answering")
  /\ UNCHANGED <<guarded, key, nextId, releases, time, disturbances>>

Disturbs == disturbances < MaxDisturbances /\ disturbances' = disturbances + 1

\* A 5xx: the transaction rolled back, or what follows its commit failed.
Fault(c) ==
  /\ calls[c].at \in {"inserting", "answering"} /\ Disturbs
  /\ lock' = IF lock = c THEN Nobody ELSE lock
  /\ Goes(c, "faulting")
  /\ UNCHANGED <<guarded, key, nextId, releases, payments, time>>

Delete(id) == key' = IF key.id = id THEN NoKey ELSE key

\* UPDATE ... SET status, body WHERE id: nothing, if the row is gone.
Stored(c) == key' = IF key # NoKey /\ key.id = calls[c].claim
                    THEN [key EXCEPT !.status = "answered"] ELSE key

\* res.json, the store and then the answer; a 5xx is not kept.
Reply(c) ==
  /\ \/ At(c, "answering") /\ Stored(c)
     \/ At(c, "faulting") /\ IF calls[c].claim = NoClaim THEN UNCHANGED key ELSE Delete(calls[c].claim)
  /\ Returns(c)
  /\ UNCHANGED <<guarded, nextId, releases, lock, payments, time, disturbances>>

\* The store fails, and the answer goes out all the same.
ReplyUnstored(c) ==
  /\ calls[c].at \in {"answering", "faulting"} /\ Disturbs
  /\ Returns(c)
  /\ UNCHANGED <<guarded, key, nextId, releases, lock, payments, time>>

(***************************************************************************)
(* What goes wrong around a call.                                          *)
(***************************************************************************)

InHandler(c) ==
  calls[c].at \in {"locking", "inserting", "answering", "faulting"}

\* The connection closes before the answer is out; the handler knows nothing of it.
Drop(c) ==
  /\ InHandler(c) /\ calls[c].open /\ Disturbs
  /\ calls' = [calls EXCEPT ![c] = [calls[c] EXCEPT !.open = FALSE]]
  /\ releases' = IF calls[c].claim = NoClaim THEN releases
                 ELSE releases \cup {calls[c].claim}
  /\ UNCHANGED <<guarded, key, nextId, lock, payments, time>>

ReleaseClaim(id) ==
  /\ id \in releases
  /\ Delete(id)
  /\ releases' = releases \ {id}
  /\ UNCHANGED <<guarded, nextId, calls, lock, payments, time, disturbances>>

\* The server stops: its transactions roll back, its claims stay.
Stop ==
  /\ Disturbs
  /\ calls' = [c \in Calls |-> NoCall]
  /\ releases' = {} /\ lock' = Nobody
  /\ UNCHANGED <<guarded, key, nextId, payments, time>>

(* A call that outlasts a claim is a disturbance, and so is a key that     *)
(* expires under a call.                                                   *)
Outlasts == \E c \in Calls : calls[c] # NoCall /\ calls[c].began + Patience <= time
ExpiresUnderCall ==
  /\ key # NoKey /\ key.since + KeyLife = time
  /\ \E c \in Calls : calls[c] # NoCall

Forsaken == key # NoKey /\ key.status = "claimed" /\ ~\E c \in Calls : InHandler(c)

Tick ==
  /\ time < LastMinute \/ (Forsaken /\ time <= key.claimedAt + Patience)
  /\ disturbances' = IF (Outlasts \/ ExpiresUnderCall) /\ disturbances < MaxDisturbances
                     THEN disturbances + 1 ELSE disturbances
  /\ time' = time + 1
  /\ UNCHANGED <<guarded, key, nextId, calls, releases, lock, payments>>

CallStep(c) ==
  \/ InsertKey(c) \/ ReadKey(c) \/ TakeKey(c) \/ Check(c) \/ RefuseCall(c)
  \/ Write(c) \/ Reply(c)

CallsNext ==
  \/ \E c \in Calls : Ring(c) \/ CallStep(c) \/ Fault(c) \/ ReplyUnstored(c) \/ Drop(c)
  \/ \E id \in releases : ReleaseClaim(id)
  \/ Stop \/ Tick

CallsSpec == CallsInit /\ [][CallsNext]_callVars

(* A server that is up goes on with a call, time passes, and an app that   *)
(* has no answer calls again.                                              *)
CallsFairness ==
  /\ WF_callVars(Tick)
  /\ \A c \in Calls : WF_callVars(Ring(c)) /\ WF_callVars(CallStep(c))

(***************************************************************************)
(* What a key promises.                                                    *)
(***************************************************************************)

CallsTypeOK ==
  /\ guarded \in BOOLEAN
  /\ key \in KeyRow \cup {NoKey} /\ nextId \in Nat \ {0}
  /\ calls \in [Calls -> Call \cup {NoCall}]
  /\ releases \subseteq Nat /\ lock \in Calls \cup {Nobody}
  /\ payments \in Seq(Nat)
  /\ time \in Nat /\ disturbances \in Nat

(* "Never makes a second payment": undisturbed, the calls of one key make  *)
(* one payment in the life of the key, guard or no guard, however the app  *)
(* overlaps and repeats them.                                              *)
KeyPaysOnce ==
  disturbances = 0 =>
    \A k, l \in 1..Len(payments) : k < l => payments[k] + KeyLife - Patience <= payments[l]

(* A guarded route does not make the same payment twice inside the window, *)
(* not even for calls that share no claim any more: slow ones, taken over, *)
(* dropped, stopped half way.                                              *)
PaymentsApart ==
  guarded => \A k, l \in 1..Len(payments) :
    k < l => payments[k] + DuplicateWindow <= payments[l]

(* "A crash cannot hold a key for a day": a claim nobody is running for    *)
(* any more is given up, taken over or answered.                           *)
KeyIsFreed == Forsaken ~> ~Forsaken
=============================================================================
