------------------------------- MODULE MoneyIn -------------------------------
(***************************************************************************)
(* Money that arrives, and the two rows it may leave: the prompt that      *)
(* asked for it (collect/service.ts) and the confirmation Safaricom posts  *)
(* for it (money_in/record.ts).  Both carry its receipt; money_in/link.ts  *)
(* joins them, so that every reader counts the money once (countedIn).     *)
(*                                                                         *)
(* A transaction that joins is two steps, choosing and writing, with the   *)
(* receipt's advisory lock held in between; the unique indexes of          *)
(* migration 049 abort a write that would give a prompt two partners.      *)
(* All prompts ask for one amount under one account reference, which is    *)
(* the case the inference of linkInferred has to tell apart.               *)
(***************************************************************************)
EXTENDS Integers, FiniteSets

CONSTANTS
  Prompts,     \* requests rows that ask a customer to pay
  Receipts,    \* the customers' payments, by receipt
  NoPrompt,    \* a null prompt_id
  NoReceipt,   \* a null receipt or confirmation_id
  Direct,      \* a payment made without a prompt
  MaxCrashes,  \* bound: crashes of the server
  Around       \* what may happen around the server, see below

(* direct:   a customer pays the same amount and account without a prompt  *)
(* early:    the confirmation arrives before the prompt's ack is stored    *)
(* late:     the confirmation arrives more than ten minutes after the      *)
(*           prompt (found by the hourly pull)                             *)
(* together: the transactions of two receipts overlap                      *)
ASSUME MoneyInAssumption ==
  /\ IsFiniteSet(Prompts)
  /\ NoPrompt \notin Prompts /\ NoReceipt \notin Receipts
  /\ Direct \notin Prompts /\ Direct # NoPrompt
  /\ MaxCrashes \in Nat
  /\ Around \subseteq {"direct", "early", "late", "together"}

VARIABLES
  prompt,        \* the prompts' rows
  confirmation,  \* the confirmations' rows, by receipt
  joining,       \* the transaction holding a receipt's lock
  calls,         \* prompts whose sender waits for Safaricom's answer
  linking,       \* receipts of prompts just completed, about to be joined
  phone,         \* what became of a prompt on the customer's phone
  money,         \* who asked for a payment that was made
  crashes        \* crashes so far

vars == <<prompt, confirmation, joining, calls, linking, phone, money, crashes>>

Prompt == [status: {"none", "pending", "sent", "unknown", "completed", "failed"},
           named: BOOLEAN,      \* the checkout reference is stored
           recent: BOOLEAN,     \* created in the last ten minutes
           receipt: Receipts \cup {NoReceipt},
           confirmation: Receipts \cup {NoReceipt},
           method: {"none", "receipt", "inferred"}]
NoRow == [status |-> "none", named |-> FALSE, recent |-> TRUE,
          receipt |-> NoReceipt, confirmation |-> NoReceipt, method |-> "none"]

Confirmation == [recorded: BOOLEAN, prompt: Prompts \cup {NoPrompt}]

(* What a transaction is about to write: the confirmation (record) or only *)
(* the link (result), the prompt it chose, and the links it found wrong.   *)
Join == [by: {"record", "result"}, prompt: Prompts \cup {NoPrompt},
         method: {"none", "receipt", "inferred"}, wrong: SUBSET Prompts]
Nothing == [by |-> "nobody"]

Init ==
  /\ prompt = [p \in Prompts |-> NoRow]
  /\ confirmation = [m \in Receipts |-> [recorded |-> FALSE, prompt |-> NoPrompt]]
  /\ joining = [m \in Receipts |-> Nothing]
  /\ calls = {} /\ linking = {}
  /\ phone = [p \in Prompts |-> "dark"]
  /\ money = [m \in Receipts |-> NoPrompt]
  /\ crashes = 0

(***************************************************************************)
(* Asking a customer to pay.                                               *)
(***************************************************************************)

Ask(p) ==
  /\ prompt[p].status = "none"
  /\ prompt' = [prompt EXCEPT ![p].status = "pending"]
  /\ calls' = calls \cup {p}
  /\ UNCHANGED <<confirmation, joining, linking, phone, money, crashes>>

(* UPDATE requests SET status = s WHERE id = p AND status = 'pending'      *)
Answered(p, s) ==
  /\ p \in calls
  /\ prompt' = IF prompt[p].status = "pending"
                 THEN [prompt EXCEPT ![p].status = s, ![p].named = (s = "sent")]
                 ELSE prompt
  /\ calls' = calls \ {p}
  /\ UNCHANGED <<confirmation, joining, linking, phone, money, crashes>>

\* With the checkout reference, by which the prompt's result will find it.
Accepted(p) == phone[p] # "dark" /\ Answered(p, "sent")

\* The call was lost, or answered without a reference: never asked again.
Unconfirmed(p) == Answered(p, "unknown")

Declined(p) == phone[p] = "dark" /\ Answered(p, "failed")

\* The one-shot job of a prompt nobody answered in fifteen minutes.
TimesOut(p) ==
  /\ prompt[p].status = "sent"
  /\ prompt' = [prompt EXCEPT ![p].status = "unknown"]
  /\ UNCHANGED <<confirmation, joining, calls, linking, phone, money, crashes>>

(***************************************************************************)
(* Safaricom and the customer.                                             *)
(***************************************************************************)

Shown(p) ==
  /\ p \in calls /\ phone[p] = "dark"
  /\ phone' = [phone EXCEPT ![p] = "shown"]
  /\ UNCHANGED <<prompt, confirmation, joining, calls, linking, money, crashes>>

Pays(p, m) ==
  /\ phone[p] = "shown" /\ money[m] = NoPrompt
  /\ phone' = [phone EXCEPT ![p] = "paid"]
  /\ money' = [money EXCEPT ![m] = p]
  /\ UNCHANGED <<prompt, confirmation, joining, calls, linking, crashes>>

Ignores(p) ==
  /\ phone[p] = "shown"
  /\ phone' = [phone EXCEPT ![p] = "refused"]
  /\ UNCHANGED <<prompt, confirmation, joining, calls, linking, money, crashes>>

PaysDirectly(m) ==
  /\ "direct" \in Around
  /\ money[m] = NoPrompt
  /\ money' = [money EXCEPT ![m] = Direct]
  /\ UNCHANGED <<prompt, confirmation, joining, calls, linking, phone, crashes>>

(***************************************************************************)
(* The result of a prompt (applyResult).  It is matched by the checkout    *)
(* reference; one that comes before that is stored matches nothing.        *)
(***************************************************************************)

Live == {"pending", "sent", "unknown"}

ResultPaid(p, m) ==
  /\ phone[p] = "paid" /\ money[m] = p
  /\ prompt[p].named /\ prompt[p].status \in Live
  /\ prompt' = [prompt EXCEPT ![p].status = "completed", ![p].receipt = m]
  /\ linking' = linking \cup {m}
  /\ phone' = [phone EXCEPT ![p] = "told"]
  /\ UNCHANGED <<confirmation, joining, calls, money, crashes>>

ResultFailed(p) ==
  /\ phone[p] = "refused"
  /\ prompt[p].named /\ prompt[p].status \in Live
  /\ prompt' = [prompt EXCEPT ![p].status = "failed"]
  /\ phone' = [phone EXCEPT ![p] = "told"]
  /\ UNCHANGED <<confirmation, joining, calls, linking, money, crashes>>

ResultUnmatched(p) ==
  /\ phone[p] \in {"paid", "refused"}
  /\ ~prompt[p].named
  /\ phone' = [phone EXCEPT ![p] = "told"]
  /\ UNCHANGED <<prompt, confirmation, joining, calls, linking, money, crashes>>

(***************************************************************************)
(* Joining.                                                                *)
(***************************************************************************)

\* Mutated form: the ten minutes of the inference asked of a receipt too.
ByReceiptRecent(m, rows) ==
  {p \in Prompts : /\ rows[p].status = "completed" /\ rows[p].receipt = m
                   /\ rows[p].confirmation = NoReceipt /\ rows[p].recent}

(* linkByReceipt: the one completed prompt of this receipt with no partner *)
ByReceipt(m, rows) ==
  {p \in Prompts : /\ rows[p].status = "completed" /\ rows[p].receipt = m
                   /\ rows[p].confirmation = NoReceipt}

(* linkInferred: the prompts still waiting that could be what was paid.    *)
Candidates ==
  {p \in Prompts : /\ prompt[p].status \in {"sent", "unknown"} /\ prompt[p].recent
                   /\ prompt[p].confirmation = NoReceipt}

\* Mutated form: any link the prompt already has is undone.
WrongLinked(m) == {p \in Prompts : prompt[p].receipt = m /\ prompt[p].confirmation # NoReceipt}

(* The links linkPromptReceipt finds wrong: inferred, and contradicted by  *)
(* the prompt's own receipt.                                               *)
Wrong(m) == {p \in Prompts : /\ prompt[p].receipt = m /\ prompt[p].method = "inferred"
                             /\ prompt[p].confirmation \notin {m, NoReceipt}}

Unlinked(W) ==
  [p \in Prompts |-> IF p \in W
     THEN [prompt[p] EXCEPT !.confirmation = NoReceipt, !.method = "none"]
     ELSE prompt[p]]

Freed(W) ==
  [c \in Receipts |-> IF \E p \in W : prompt[p].confirmation = c
     THEN [confirmation[c] EXCEPT !.prompt = NoPrompt]
     ELSE confirmation[c]]

\* Mutated form: the first candidate is taken, however many there are.
ChoiceFirst(by, S, how, W) ==
  [by |-> by, prompt |-> IF S = {} THEN NoPrompt ELSE CHOOSE p \in S : TRUE,
   method |-> how, wrong |-> W]

(* One partner, or none at all: two candidates link nothing.               *)
Choice(by, S, how, W) ==
  IF Cardinality(S) = 1
    THEN [by |-> by, prompt |-> CHOOSE p \in S : TRUE, method |-> how, wrong |-> W]
    ELSE [by |-> by, prompt |-> NoPrompt, method |-> "none", wrong |-> W]

TakesLock(m) ==
  /\ joining[m] = Nothing
  /\ "together" \notin Around => \A c \in Receipts : joining[c] = Nothing

(* recordC2b, up to its last read.  A confirmation already on record is a  *)
(* duplicate and changes nothing.                                          *)
RecordBegins(m) ==
  /\ TakesLock(m)
  /\ money[m] # NoPrompt /\ ~confirmation[m].recorded
  /\ \A p \in Prompts : money[m] = p =>
       /\ "early" \notin Around => p \notin calls
       /\ "late" \notin Around => prompt[p].recent
  /\ joining' = [joining EXCEPT ![m] =
       IF ByReceipt(m, prompt) # {}
         THEN Choice("record", ByReceipt(m, prompt), "receipt", {})
         ELSE Choice("record", Candidates, "inferred", {})]
  /\ UNCHANGED <<prompt, confirmation, calls, linking, phone, money, crashes>>

(* linkPromptReceipt, after the transaction that completed the prompt.     *)
LinkBegins(m) ==
  /\ TakesLock(m)
  /\ m \in linking
  /\ linking' = linking \ {m}
  /\ joining' = [joining EXCEPT ![m] =
       Choice("result",
              {p \in ByReceipt(m, Unlinked(Wrong(m))) :
                 confirmation[m].recorded /\ confirmation[m].prompt = NoPrompt},
              "receipt", Wrong(m))]
  /\ UNCHANGED <<prompt, confirmation, calls, phone, money, crashes>>

\* Mutated form: without the unique index on prompt_id.
TakenNever(m) == joining[m].prompt = NoPrompt /\ joining[m].prompt # NoPrompt

(* requests_prompt_once: some confirmation already names this prompt.      *)
Taken(m) == /\ joining[m].prompt # NoPrompt
            /\ \E c \in Receipts : Freed(joining[m].wrong)[c].prompt = joining[m].prompt

(* linkInferred gives a prompt a partner only where it has none.           *)
Partnered(j, m) ==
  LET rows == Unlinked(j.wrong)
  IN  IF j.prompt = NoPrompt \/ (j.method = "inferred" /\ rows[j.prompt].confirmation # NoReceipt)
        THEN rows
        ELSE [rows EXCEPT ![j.prompt].confirmation = m, ![j.prompt].method = j.method]

Named(j, m) ==
  LET rows == Freed(j.wrong)
  IN  [rows EXCEPT ![m].prompt = IF j.prompt = NoPrompt THEN @ ELSE j.prompt,
                   ![m].recorded = @ \/ j.by = "record"]

Commits(m) ==
  /\ joining[m] # Nothing /\ ~Taken(m)
  /\ prompt' = Partnered(joining[m], m)
  /\ confirmation' = Named(joining[m], m)
  /\ joining' = [joining EXCEPT ![m] = Nothing]
  /\ UNCHANGED <<calls, linking, phone, money, crashes>>

(* The unique index refuses the write and the transaction leaves nothing:  *)
(* a confirmation is then found again by the pull, a link is not retried.  *)
Aborts(m) ==
  /\ joining[m] # Nothing /\ Taken(m)
  /\ joining' = [joining EXCEPT ![m] = Nothing]
  /\ UNCHANGED <<prompt, confirmation, calls, linking, phone, money, crashes>>

(***************************************************************************)
(* Time and failure.                                                       *)
(***************************************************************************)

TenMinutesPass(p) ==
  /\ prompt[p].status # "none" /\ prompt[p].recent
  /\ prompt' = [prompt EXCEPT ![p].recent = FALSE]
  /\ UNCHANGED <<confirmation, joining, calls, linking, phone, money, crashes>>

(* A restart forgets who was about to write and rolls transactions back.   *)
Crash ==
  /\ crashes < MaxCrashes
  /\ crashes' = crashes + 1
  /\ calls' = {} /\ linking' = {}
  /\ joining' = [m \in Receipts |-> Nothing]
  /\ UNCHANGED <<prompt, confirmation, phone, money>>

Server ==
  \/ \E p \in Prompts : Accepted(p) \/ Unconfirmed(p) \/ Declined(p) \/ TimesOut(p)
  \/ \E m \in Receipts : RecordBegins(m) \/ LinkBegins(m)
  \/ \E m \in Receipts : Commits(m) \/ Aborts(m)

Outside ==
  \/ \E p \in Prompts : Ask(p) \/ Shown(p) \/ Ignores(p) \/ TenMinutesPass(p)
  \/ \E p \in Prompts, m \in Receipts : Pays(p, m) \/ ResultPaid(p, m)
  \/ \E p \in Prompts : ResultFailed(p) \/ ResultUnmatched(p)
  \/ \E m \in Receipts : PaysDirectly(m)
  \/ Crash

Next == Server \/ Outside

Spec == Init /\ [][Next]_vars

(* Handlers run to their end, and the hourly pull finds a confirmation     *)
(* that was never delivered.  Customers and Safaricom's results may never  *)
(* answer.                                                                 *)
FairSpec ==
  /\ Spec
  /\ \A m \in Receipts : WF_vars(RecordBegins(m)) /\ WF_vars(LinkBegins(m))
  /\ \A m \in Receipts : WF_vars(Commits(m) \/ Aborts(m))

(***************************************************************************)
(* Properties.                                                             *)
(***************************************************************************)

(* Every row, transaction and continuation has the shape the code gives it *)
(* (collect/service.ts, money_in/record.ts, migration 049).                *)
TypeOK ==
  /\ prompt \in [Prompts -> Prompt]
  /\ confirmation \in [Receipts -> Confirmation]
  /\ joining \in [Receipts -> Join \cup {Nothing}]
  /\ calls \subseteq Prompts /\ linking \subseteq Receipts
  /\ phone \in [Prompts -> {"dark", "shown", "paid", "refused", "told"}]
  /\ money \in [Receipts -> Prompts \cup {NoPrompt, Direct}]
  /\ crashes \in 0..MaxCrashes

(* One partner each, and each names the other, whatever runs at the same   *)
(* time: no row is left pointing at one that points elsewhere (link.ts     *)
(* writes the two sides in two statements, the index decides the races).   *)
MutualLinks ==
  \A p \in Prompts, m \in Receipts :
    prompt[p].confirmation = m <=> confirmation[m].prompt = p

(* A link made by receipt is the truth, and is never undone or given to    *)
(* another confirmation (link.ts undoes inferences only).                  *)
ReceiptLinkStays ==
  [][\A p \in Prompts : prompt[p].method = "receipt" =>
        prompt'[p].confirmation = prompt[p].confirmation]_vars

(* The rows of a payment that countedIn counts.                            *)
Counted(m) ==
  Cardinality({p \in Prompts : /\ prompt[p].status = "completed" /\ prompt[p].receipt = m
                               /\ prompt[p].confirmation = NoReceipt})
    + (IF confirmation[m].recorded THEN 1 ELSE 0)

OnRecord(m) == \/ confirmation[m].recorded
               \/ \E p \in Prompts : prompt[p].status = "completed" /\ prompt[p].receipt = m

AtRest == linking = {} /\ \A m \in Receipts : joining[m] = Nothing

(* Once the handlers are done, money on record is counted exactly once: a  *)
(* sweep, a statement and a report all add up what countedIn lets through. *)
CountedOnce == AtRest => \A m \in Receipts : OnRecord(m) => Counted(m) = 1

(* A completed prompt and its confirmation, both on record, always end up  *)
(* joined, whichever came first.                                           *)
PairsMeet ==
  \A p \in Prompts, m \in Receipts :
    (prompt[p].status = "completed" /\ prompt[p].receipt = m /\ confirmation[m].recorded)
      ~> prompt[p].confirmation = m
=============================================================================
