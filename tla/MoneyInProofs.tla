---------------------------- MODULE MoneyInProofs ----------------------------
(***************************************************************************)
(* Theorems about prompts and confirmations, for every number of each and  *)
(* whatever happens around the server: the two sides of a link always      *)
(* agree, and a link made by receipt is never undone.                      *)
(***************************************************************************)
EXTENDS MoneyIn, FiniteSetTheorems, TLAPS

(***************************************************************************)
(* The inductive invariant.  A transaction decides from what it read and   *)
(* writes later; what it read must still be so when it writes.             *)
(***************************************************************************)

Holds(m) == joining[m] # Nothing

\* Only a confirmation on record names a prompt.
RecordedFirst == \A m \in Receipts : ~confirmation[m].recorded => confirmation[m].prompt = NoPrompt

\* A transaction about to link is about a confirmation nothing is linked to.
StillFree ==
  \A m \in Receipts : (Holds(m) /\ joining[m].prompt # NoPrompt) =>
    /\ confirmation[m].prompt = NoPrompt
    /\ joining[m].by = "result" => confirmation[m].recorded

\* The links a transaction is about to undo are inferences still there.
StillWrong ==
  \A m \in Receipts : Holds(m) => \A p \in joining[m].wrong :
    prompt[p].receipt = m /\ prompt[p].method = "inferred" /\ prompt[p].confirmation # NoReceipt

\* A receipt is written once, and a link by receipt names its confirmation.
ReceiptRows ==
  \A p \in Prompts :
    /\ prompt[p].receipt # NoReceipt => prompt[p].status = "completed"
    /\ prompt[p].method = "receipt" => prompt[p].confirmation # NoReceipt

Linked == /\ TypeOK /\ MutualLinks
          /\ RecordedFirst /\ StillFree /\ StillWrong /\ ReceiptRows

(***************************************************************************)
(* What the helpers return.                                                *)
(***************************************************************************)

(* Choosing picks a member of the set it is given, or nobody.              *)
LEMMA ChoiceFromSet ==
  ASSUME NEW by \in {"record", "result"}, NEW S \in SUBSET Prompts,
         NEW how \in {"receipt", "inferred"}, NEW W \in SUBSET Prompts
  PROVE  /\ Choice(by, S, how, W) \in Join
         /\ Choice(by, S, how, W).by = by
         /\ Choice(by, S, how, W).wrong = W
         /\ Choice(by, S, how, W).prompt \in S \cup {NoPrompt}
<1>1. CASE Cardinality(S) = 1
  <2>1. PICK x : S = {x}
    BY <1>1, FS_Subset, FS_Singleton, MoneyInAssumption
  <2>2. (CHOOSE p \in S : TRUE) \in S
    BY <2>1
  <2> QED BY <1>1, <2>2 DEF Choice, Join
<1>2. CASE Cardinality(S) # 1
  BY <1>2 DEF Choice, Join
<1> QED BY <1>1, <1>2

LEMMA NothingHeld == Nothing \notin Join
BY DEF Nothing, Join

(* Undoing a set of links takes both sides away, and nothing else.         *)
LEMMA Undoing ==
  ASSUME TypeOK, MutualLinks, NEW W \in SUBSET Prompts
  PROVE  /\ Unlinked(W) \in [Prompts -> Prompt]
         /\ Freed(W) \in [Receipts -> Confirmation]
         /\ \A p \in Prompts, c \in Receipts :
              Unlinked(W)[p].confirmation = c <=> Freed(W)[c].prompt = p
         /\ \A p \in Prompts \ W : Unlinked(W)[p] = prompt[p]
         /\ \A p \in W : /\ Unlinked(W)[p].confirmation = NoReceipt
                         /\ Unlinked(W)[p].method = "none"
         /\ \A p \in Prompts : /\ Unlinked(W)[p].receipt = prompt[p].receipt
                               /\ Unlinked(W)[p].status = prompt[p].status
         /\ \A c \in Receipts :
              /\ Freed(W)[c].recorded = confirmation[c].recorded
              /\ Freed(W)[c].prompt \in {confirmation[c].prompt, NoPrompt}
<1>1. Unlinked(W) \in [Prompts -> Prompt]
  <2>1. ASSUME NEW x \in Prompt
        PROVE  [x EXCEPT !.confirmation = NoReceipt, !.method = "none"] \in Prompt
    BY DEF Prompt
  <2> QED BY <2>1 DEF TypeOK, Unlinked
<1>2. Freed(W) \in [Receipts -> Confirmation]
  <2>1. ASSUME NEW x \in Confirmation
        PROVE  [x EXCEPT !.prompt = NoPrompt] \in Confirmation
    BY DEF Confirmation
  <2> QED BY <2>1 DEF TypeOK, Freed
<1>3. ASSUME NEW p \in Prompts, NEW c \in Receipts
      PROVE  Unlinked(W)[p].confirmation = c <=> Freed(W)[c].prompt = p
  BY MoneyInAssumption DEF TypeOK, MutualLinks, Unlinked, Freed, Prompt, Confirmation
<1>4. /\ \A p \in Prompts \ W : Unlinked(W)[p] = prompt[p]
      /\ \A p \in W : /\ Unlinked(W)[p].confirmation = NoReceipt
                      /\ Unlinked(W)[p].method = "none"
      /\ \A p \in Prompts : /\ Unlinked(W)[p].receipt = prompt[p].receipt
                            /\ Unlinked(W)[p].status = prompt[p].status
  <2>1. ASSUME NEW x \in Prompt
        PROVE  LET y == [x EXCEPT !.confirmation = NoReceipt, !.method = "none"] IN
               /\ y.confirmation = NoReceipt /\ y.method = "none"
               /\ y.receipt = x.receipt /\ y.status = x.status
    BY DEF Prompt
  <2>2. \A p \in Prompts : prompt[p] \in Prompt
    BY DEF TypeOK
  <2> QED BY <2>1, <2>2 DEF Unlinked
<1>5. \A c \in Receipts :
         /\ Freed(W)[c].recorded = confirmation[c].recorded
         /\ Freed(W)[c].prompt \in {confirmation[c].prompt, NoPrompt}
  BY DEF TypeOK, Freed, Confirmation
<1> QED BY <1>1, <1>2, <1>3, <1>4, <1>5

(***************************************************************************)
(* The step that writes.                                                   *)
(***************************************************************************)

(* What is true of the rows when a transaction that holds a lock commits.  *)
LEMMA Writing ==
  ASSUME Linked, NEW m \in Receipts, Commits(m)
  PROVE  Linked' /\ \A p \in Prompts : prompt[p].method = "receipt" =>
                      prompt'[p].confirmation = prompt[p].confirmation
<1> DEFINE j == joining[m]
           rows == Unlinked(j.wrong)
           rec == Freed(j.wrong)
<1>1. j \in Join /\ j.wrong \in SUBSET Prompts /\ j.prompt \in Prompts \cup {NoPrompt}
  BY DEF Linked, TypeOK, Commits, Join
<1>2. /\ rows \in [Prompts -> Prompt]
      /\ rec \in [Receipts -> Confirmation]
      /\ \A p \in Prompts, c \in Receipts : rows[p].confirmation = c <=> rec[c].prompt = p
      /\ \A p \in Prompts \ j.wrong : rows[p] = prompt[p]
      /\ \A p \in j.wrong : rows[p].confirmation = NoReceipt /\ rows[p].method = "none"
      /\ \A p \in Prompts : rows[p].receipt = prompt[p].receipt /\ rows[p].status = prompt[p].status
      /\ \A c \in Receipts : /\ rec[c].recorded = confirmation[c].recorded
                             /\ rec[c].prompt \in {confirmation[c].prompt, NoPrompt}
  BY <1>1, Undoing DEF Linked
<1>3. /\ prompt' = Partnered(j, m)
      /\ confirmation' = Named(j, m)
      /\ joining' = [joining EXCEPT ![m] = Nothing]
      /\ UNCHANGED <<calls, linking, phone, money, crashes>>
      /\ Holds(m)
      /\ j.prompt # NoPrompt => \A c \in Receipts : rec[c].prompt # j.prompt
  BY DEF Commits, Taken, Holds
<1>4. confirmation' = [rec EXCEPT ![m].prompt = IF j.prompt = NoPrompt THEN @ ELSE j.prompt,
                                  ![m].recorded = @ \/ j.by = "record"]
  BY <1>3 DEF Named
<1>5. j.prompt # NoPrompt =>
        /\ j.prompt \in Prompts
        /\ rows[j.prompt].confirmation = NoReceipt
        /\ rec[m].prompt = NoPrompt
        /\ prompt' = [rows EXCEPT ![j.prompt].confirmation = m, ![j.prompt].method = j.method]
  <2> SUFFICES ASSUME j.prompt # NoPrompt
               PROVE  /\ j.prompt \in Prompts
                      /\ rows[j.prompt].confirmation = NoReceipt
                      /\ rec[m].prompt = NoPrompt
                      /\ prompt' = [rows EXCEPT ![j.prompt].confirmation = m,
                                                ![j.prompt].method = j.method]
    OBVIOUS
  <2>1. j.prompt \in Prompts
    BY <1>1
  <2>2. rows[j.prompt].confirmation = NoReceipt
    BY <2>1, <1>2, <1>3 DEF Prompt
  <2>3. rec[m].prompt = NoPrompt
    BY <1>2, <1>3 DEF Linked, StillFree
  <2> QED BY <2>1, <2>2, <2>3, <1>3 DEF Partnered
<1>6. j.prompt = NoPrompt => prompt' = rows
  BY <1>3 DEF Partnered
<1>7. /\ prompt' \in [Prompts -> Prompt]
      /\ \A p \in Prompts : /\ prompt'[p].receipt = prompt[p].receipt
                            /\ prompt'[p].status = prompt[p].status
      /\ \A p \in Prompts : p # j.prompt => prompt'[p] = rows[p]
      /\ j.prompt # NoPrompt => /\ prompt'[j.prompt].confirmation = m
                                /\ prompt'[j.prompt].method = j.method
  <2>1. CASE j.prompt = NoPrompt
    BY <2>1, <1>2, <1>6, MoneyInAssumption
  <2>2. CASE j.prompt # NoPrompt
    <3> DEFINE x == rows[j.prompt]
               y == [x EXCEPT !.confirmation = m, !.method = j.method]
    <3>1. prompt' = [rows EXCEPT ![j.prompt] = y]
      BY <2>2, <1>5
    <3>2. j.prompt \in Prompts /\ x \in Prompt /\ j.method \in {"none", "receipt", "inferred"}
      BY <2>2, <1>1, <1>2 DEF Join
    <3>3. /\ y \in Prompt /\ y.receipt = x.receipt /\ y.status = x.status
          /\ y.confirmation = m /\ y.method = j.method
      BY <3>2 DEF Prompt
    <3> HIDE DEF y
    <3> QED BY <3>1, <3>2, <3>3, <1>2
  <2> QED BY <2>1, <2>2
<1>8. /\ confirmation' \in [Receipts -> Confirmation]
      /\ \A c \in Receipts \ {m} : confirmation'[c] = rec[c]
      /\ confirmation'[m].prompt = IF j.prompt = NoPrompt THEN rec[m].prompt ELSE j.prompt
      /\ confirmation'[m].recorded = (confirmation[m].recorded \/ j.by = "record")
  BY <1>1, <1>2, <1>4 DEF Confirmation
<1> HIDE DEF rows, rec
<1>9. MutualLinks'
  <2>1. ASSUME NEW p \in Prompts, NEW c \in Receipts
        PROVE  prompt'[p].confirmation = c <=> confirmation'[c].prompt = p
    BY <1>2, <1>3, <1>5, <1>7, <1>8, MoneyInAssumption
  <2> QED BY <2>1 DEF MutualLinks
<1>10. TypeOK'
  BY <1>3, <1>7, <1>8 DEF Linked, TypeOK
<1>11. RecordedFirst'
  <2>1. j.prompt # NoPrompt => confirmation'[m].recorded
    BY <1>1, <1>3, <1>8 DEF Linked, StillFree, Join
  <2>2. j.prompt = NoPrompt /\ ~confirmation'[m].recorded => confirmation'[m].prompt = NoPrompt
    <3>1. ~confirmation'[m].recorded => ~confirmation[m].recorded
      BY <1>8, Zenon
    <3>2. ~confirmation[m].recorded => confirmation[m].prompt = NoPrompt
      BY DEF Linked, RecordedFirst
    <3>3. rec[m].prompt \in {confirmation[m].prompt, NoPrompt}
      BY <1>2
    <3>4. j.prompt = NoPrompt => confirmation'[m].prompt = rec[m].prompt
      BY <1>8
    <3> QED BY <3>1, <3>2, <3>3, <3>4
  <2>3. \A c \in Receipts \ {m} : ~confirmation'[c].recorded => confirmation'[c].prompt = NoPrompt
    BY <1>2, <1>8 DEF Linked, RecordedFirst
  <2> QED BY <2>1, <2>2, <2>3 DEF RecordedFirst
<1>12. \A c \in Receipts : Holds(c)' => c # m /\ Holds(c) /\ joining'[c] = joining[c]
  BY <1>3 DEF Holds, Linked, TypeOK
<1>13. StillFree'
  BY <1>12, <1>2, <1>8 DEF Linked, StillFree
<1>14. StillWrong'
  <2>1. ASSUME NEW c \in Receipts, Holds(c)', NEW p \in joining'[c].wrong
        PROVE  prompt'[p] = prompt[p]
    <3>1. /\ c # m /\ Holds(c) /\ p \in joining[c].wrong /\ p \in Prompts
          /\ prompt[p].receipt = c /\ prompt[p].confirmation # NoReceipt
      BY <2>1, <1>12 DEF Linked, TypeOK, StillWrong, Join, Holds
    <3>2. p \notin j.wrong
      BY <3>1, <1>3 DEF Linked, StillWrong
    <3>3. p # j.prompt
      BY <3>1, <3>2, <1>2, <1>5, MoneyInAssumption
    <3> QED BY <3>1, <3>2, <3>3, <1>2, <1>7
  <2> QED BY <2>1, <1>12 DEF Linked, StillWrong
<1>15. ReceiptRows'
  BY <1>1, <1>2, <1>7, MoneyInAssumption DEF Linked, ReceiptRows
<1>16. ASSUME NEW p \in Prompts, prompt[p].method = "receipt"
       PROVE  prompt'[p].confirmation = prompt[p].confirmation
  <2>1. p \notin j.wrong /\ prompt[p].confirmation # NoReceipt
    BY <1>16, <1>3 DEF Linked, StillWrong, ReceiptRows
  <2>2. p # j.prompt
    BY <2>1, <1>2, <1>5, MoneyInAssumption
  <2> QED BY <2>1, <2>2, <1>2, <1>7
<1> QED BY <1>9, <1>10, <1>11, <1>13, <1>14, <1>15, <1>16 DEF Linked

(***************************************************************************)
(* The steps that leave every link alone.                                  *)
(***************************************************************************)

(* No link is written, no transaction begins, and a row that has a receipt *)
(* keeps it and is completed.                                              *)
LEMMA LinksAlone ==
  ASSUME Linked, TypeOK', UNCHANGED confirmation,
         \A p \in Prompts :
           /\ prompt'[p].confirmation = prompt[p].confirmation
           /\ prompt'[p].method = prompt[p].method
           /\ prompt[p].receipt # NoReceipt => prompt'[p].receipt = prompt[p].receipt
           /\ prompt'[p].receipt # NoReceipt => prompt'[p].status = "completed",
         \A m \in Receipts : joining'[m] \in {joining[m], Nothing}
  PROVE  Linked'
<1>1. MutualLinks' /\ RecordedFirst'
  BY DEF Linked, MutualLinks, RecordedFirst
<1>2. \A m \in Receipts : Holds(m)' => Holds(m) /\ joining'[m] = joining[m]
  BY DEF Holds
<1>3. StillFree'
  BY <1>2 DEF Linked, StillFree
<1>4. StillWrong'
  <2> SUFFICES ASSUME NEW m \in Receipts, Holds(m)', NEW p \in joining'[m].wrong
               PROVE  /\ prompt'[p].receipt = m /\ prompt'[p].method = "inferred"
                      /\ prompt'[p].confirmation # NoReceipt
    BY DEF StillWrong
  <2>1. /\ Holds(m) /\ p \in joining[m].wrong /\ p \in Prompts
    BY <1>2 DEF Linked, TypeOK, Join, Holds
  <2>2. /\ prompt[p].receipt = m /\ prompt[p].method = "inferred"
        /\ prompt[p].confirmation # NoReceipt
    BY <2>1 DEF Linked, StillWrong
  <2> QED BY <2>1, <2>2, MoneyInAssumption
<1>5. ReceiptRows'
  BY DEF Linked, ReceiptRows
<1> QED BY <1>1, <1>3, <1>4, <1>5 DEF Linked

(* One prompt's row gets another status, and its receipt at most.          *)
LEMMA StatusOnly ==
  ASSUME Linked, NEW q \in Prompts, NEW x \in Prompt,
         prompt' = [prompt EXCEPT ![q] = x],
         x.confirmation = prompt[q].confirmation, x.method = prompt[q].method,
         prompt[q].receipt # NoReceipt => x.receipt = prompt[q].receipt,
         x.receipt # NoReceipt => x.status = "completed",
         UNCHANGED <<confirmation, joining, crashes>>,
         calls' \subseteq Prompts, linking' \subseteq Receipts,
         phone' \in [Prompts -> {"dark", "shown", "paid", "refused", "told"}],
         money' \in [Receipts -> Prompts \cup {NoPrompt, Direct}]
  PROVE  Linked'
<1>1. TypeOK'
  BY DEF Linked, TypeOK
<1>2. \A p \in Prompts :
        /\ prompt'[p].confirmation = prompt[p].confirmation
        /\ prompt'[p].method = prompt[p].method
        /\ prompt[p].receipt # NoReceipt => prompt'[p].receipt = prompt[p].receipt
        /\ prompt'[p].receipt # NoReceipt => prompt'[p].status = "completed"
  BY DEF Linked, TypeOK, ReceiptRows
<1> QED BY <1>1, <1>2, LinksAlone

(***************************************************************************)
(* Every step, action by action.                                           *)
(***************************************************************************)

(* A transaction that begins has read what it is going to rely on.         *)
LEMMA Beginning ==
  ASSUME Linked, NEW m \in Receipts, RecordBegins(m) \/ LinkBegins(m)
  PROVE  Linked'
<1>1. CASE RecordBegins(m)
  <2>1. PICK S \in SUBSET Prompts, how \in {"receipt", "inferred"} :
          joining' = [joining EXCEPT ![m] = Choice("record", S, how, {})]
    <3>1. ByReceipt(m, prompt) \in SUBSET Prompts /\ Candidates \in SUBSET Prompts
      BY DEF ByReceipt, Candidates
    <3> QED BY <1>1, <3>1 DEF RecordBegins
  <2> DEFINE j == Choice("record", S, how, {})
  <2>2. j \in Join /\ j.by = "record" /\ j.wrong = {} /\ j.prompt \in Prompts \cup {NoPrompt}
    <3>1. "record" \in {"record", "result"} /\ {} \in SUBSET Prompts
      OBVIOUS
    <3>2. /\ j \in Join /\ j.by = "record" /\ j.wrong = {} /\ j.prompt \in S \cup {NoPrompt}
      BY <3>1, ChoiceFromSet
    <3> QED BY <3>2
  <2> HIDE DEF j
  <2>3. /\ joining' = [joining EXCEPT ![m] = j] /\ ~confirmation[m].recorded
        /\ UNCHANGED <<prompt, confirmation, calls, linking, phone, money, crashes>>
    BY <1>1, <2>1 DEF RecordBegins, j
  <2>4. confirmation[m].prompt = NoPrompt
    BY <2>3 DEF Linked, RecordedFirst
  <2>5. TypeOK' /\ MutualLinks' /\ RecordedFirst' /\ ReceiptRows'
    BY <2>2, <2>3 DEF Linked, TypeOK, MutualLinks, RecordedFirst, ReceiptRows
  <2>6. StillFree'
    BY <2>2, <2>3, <2>4 DEF Linked, TypeOK, StillFree, Holds
  <2>7. StillWrong'
    BY <2>2, <2>3 DEF Linked, TypeOK, StillWrong, Holds
  <2> QED BY <2>5, <2>6, <2>7 DEF Linked
<1>2. CASE LinkBegins(m)
  <2> DEFINE S == {p \in ByReceipt(m, Unlinked(Wrong(m))) :
                     confirmation[m].recorded /\ confirmation[m].prompt = NoPrompt}
             j == Choice("result", S, "receipt", Wrong(m))
  <2>1. S \in SUBSET Prompts /\ Wrong(m) \in SUBSET Prompts
    BY DEF ByReceipt, Wrong
  <2>2. /\ j \in Join /\ j.by = "result" /\ j.wrong = Wrong(m)
        /\ j.prompt \in S \cup {NoPrompt}
    <3> HIDE DEF S
    <3> QED BY <2>1, ChoiceFromSet
  <2>3. j.prompt # NoPrompt => confirmation[m].recorded /\ confirmation[m].prompt = NoPrompt
    <3> HIDE DEF j
    <3> QED BY <2>2
  <2>4. /\ joining' = [joining EXCEPT ![m] = j]
        /\ linking' = linking \ {m}
        /\ UNCHANGED <<prompt, confirmation, calls, phone, money, crashes>>
    BY <1>2 DEF LinkBegins
  <2> HIDE DEF j, S
  <2>5. TypeOK' /\ MutualLinks' /\ RecordedFirst' /\ ReceiptRows'
    BY <2>2, <2>4 DEF Linked, TypeOK, MutualLinks, RecordedFirst, ReceiptRows
  <2>6. StillFree'
    BY <2>2, <2>3, <2>4 DEF Linked, TypeOK, StillFree, Holds
  <2>7. StillWrong'
    <3>1. \A p \in Wrong(m) : /\ prompt[p].receipt = m /\ prompt[p].method = "inferred"
                              /\ prompt[p].confirmation # NoReceipt
      BY DEF Wrong
    <3> QED BY <3>1, <2>2, <2>4 DEF Linked, TypeOK, StillWrong, Holds
  <2> QED BY <2>5, <2>6, <2>7 DEF Linked
<1> QED BY <1>1, <1>2

\* A row that is not completed has no receipt yet.
LEMMA NoReceiptYet ==
  ASSUME Linked, NEW p \in Prompts, prompt[p].status # "completed"
  PROVE  prompt[p].receipt = NoReceipt
BY DEF Linked, ReceiptRows

LEMMA RowStep ==
  ASSUME Linked, NEW p \in Prompts,
         \/ Ask(p) \/ TimesOut(p) \/ ResultFailed(p) \/ TenMinutesPass(p)
         \/ \E m \in Receipts : ResultPaid(p, m)
         \/ \E s \in {"sent", "unknown", "failed"} : Answered(p, s)
  PROVE  Linked'
<1>0. prompt \in [Prompts -> Prompt] /\ prompt[p] \in Prompt
  BY DEF Linked, TypeOK
<1>1. CASE Ask(p)
  <2> DEFINE x == [prompt[p] EXCEPT !.status = "pending"]
  <2>1. x \in Prompt /\ x.confirmation = prompt[p].confirmation /\ x.method = prompt[p].method
        /\ x.receipt = prompt[p].receipt
    BY <1>0 DEF Prompt
  <2>2. prompt' = [prompt EXCEPT ![p] = x] /\ x.receipt = NoReceipt
    BY <1>1, <2>1, NoReceiptYet DEF Ask
  <2>3. /\ calls' \subseteq Prompts /\ linking' \subseteq Receipts
        /\ phone' \in [Prompts -> {"dark", "shown", "paid", "refused", "told"}]
        /\ money' \in [Receipts -> Prompts \cup {NoPrompt, Direct}]
        /\ UNCHANGED <<confirmation, joining, crashes>>
    BY <1>1 DEF Ask, Linked, TypeOK
  <2> HIDE DEF x
  <2> QED BY <2>1, <2>2, <2>3, StatusOnly
<1>2. CASE TimesOut(p)
  <2> DEFINE x == [prompt[p] EXCEPT !.status = "unknown"]
  <2>1. x \in Prompt /\ x.confirmation = prompt[p].confirmation /\ x.method = prompt[p].method
        /\ x.receipt = prompt[p].receipt
    BY <1>0 DEF Prompt
  <2>2. prompt' = [prompt EXCEPT ![p] = x] /\ x.receipt = NoReceipt
    BY <1>2, <2>1, NoReceiptYet DEF TimesOut
  <2>3. /\ calls' \subseteq Prompts /\ linking' \subseteq Receipts
        /\ phone' \in [Prompts -> {"dark", "shown", "paid", "refused", "told"}]
        /\ money' \in [Receipts -> Prompts \cup {NoPrompt, Direct}]
        /\ UNCHANGED <<confirmation, joining, crashes>>
    BY <1>2 DEF TimesOut, Linked, TypeOK
  <2> HIDE DEF x
  <2> QED BY <2>1, <2>2, <2>3, StatusOnly
<1>3. CASE ResultFailed(p)
  <2> DEFINE x == [prompt[p] EXCEPT !.status = "failed"]
  <2>1. x \in Prompt /\ x.confirmation = prompt[p].confirmation /\ x.method = prompt[p].method
        /\ x.receipt = prompt[p].receipt
    BY <1>0 DEF Prompt
  <2>2. prompt' = [prompt EXCEPT ![p] = x] /\ x.receipt = NoReceipt
    BY <1>3, <2>1, NoReceiptYet DEF ResultFailed, Live
  <2>3. /\ calls' \subseteq Prompts /\ linking' \subseteq Receipts
        /\ phone' \in [Prompts -> {"dark", "shown", "paid", "refused", "told"}]
        /\ money' \in [Receipts -> Prompts \cup {NoPrompt, Direct}]
        /\ UNCHANGED <<confirmation, joining, crashes>>
    BY <1>3 DEF ResultFailed, Linked, TypeOK
  <2> HIDE DEF x
  <2> QED BY <2>1, <2>2, <2>3, StatusOnly
<1>4. CASE TenMinutesPass(p)
  <2> DEFINE x == [prompt[p] EXCEPT !.recent = FALSE]
  <2>1. x \in Prompt /\ x.confirmation = prompt[p].confirmation /\ x.method = prompt[p].method
        /\ x.receipt = prompt[p].receipt /\ x.status = prompt[p].status
    BY <1>0 DEF Prompt
  <2>2. prompt' = [prompt EXCEPT ![p] = x] /\ (x.receipt # NoReceipt => x.status = "completed")
    BY <1>4, <2>1, NoReceiptYet DEF TenMinutesPass
  <2>3. /\ calls' \subseteq Prompts /\ linking' \subseteq Receipts
        /\ phone' \in [Prompts -> {"dark", "shown", "paid", "refused", "told"}]
        /\ money' \in [Receipts -> Prompts \cup {NoPrompt, Direct}]
        /\ UNCHANGED <<confirmation, joining, crashes>>
    BY <1>4 DEF TenMinutesPass, Linked, TypeOK
  <2> HIDE DEF x
  <2> QED BY <2>1, <2>2, <2>3, StatusOnly
<1>5. ASSUME NEW m \in Receipts, ResultPaid(p, m)
      PROVE  Linked'
  <2> DEFINE x == [prompt[p] EXCEPT !.status = "completed", !.receipt = m]
  <2>1. x \in Prompt /\ x.confirmation = prompt[p].confirmation /\ x.method = prompt[p].method
        /\ x.status = "completed"
    BY <1>0 DEF Prompt
  <2>2. prompt' = [prompt EXCEPT ![p] = x] /\ prompt[p].receipt = NoReceipt
    BY <1>5, <1>0, NoReceiptYet DEF ResultPaid, Live
  <2>3. /\ calls' \subseteq Prompts /\ linking' \subseteq Receipts
        /\ phone' \in [Prompts -> {"dark", "shown", "paid", "refused", "told"}]
        /\ money' \in [Receipts -> Prompts \cup {NoPrompt, Direct}]
        /\ UNCHANGED <<confirmation, joining, crashes>>
    BY <1>5 DEF ResultPaid, Linked, TypeOK
  <2> HIDE DEF x
  <2> QED BY <2>1, <2>2, <2>3, StatusOnly
<1>6. ASSUME NEW s \in {"sent", "unknown", "failed"}, Answered(p, s)
      PROVE  Linked'
  <2>1. CASE prompt[p].status = "pending"
    <3> DEFINE x == [prompt[p] EXCEPT !.status = s, !.named = (s = "sent")]
    <3>1. x \in Prompt /\ x.confirmation = prompt[p].confirmation /\ x.method = prompt[p].method
          /\ x.receipt = prompt[p].receipt
      BY <1>0 DEF Prompt
    <3>2. prompt' = [prompt EXCEPT ![p] = x] /\ x.receipt = NoReceipt
      BY <1>6, <1>0, <2>1, <3>1, NoReceiptYet DEF Answered
    <3>3. /\ calls' \subseteq Prompts /\ linking' \subseteq Receipts
          /\ phone' \in [Prompts -> {"dark", "shown", "paid", "refused", "told"}]
          /\ money' \in [Receipts -> Prompts \cup {NoPrompt, Direct}]
          /\ UNCHANGED <<confirmation, joining, crashes>>
      BY <1>6 DEF Answered, Linked, TypeOK
    <3> HIDE DEF x
    <3> QED BY <3>1, <3>2, <3>3, StatusOnly
  <2>2. CASE prompt[p].status # "pending"
    <3>1. /\ prompt' = prompt /\ calls' \subseteq calls
          /\ UNCHANGED <<confirmation, joining, linking, phone, money, crashes>>
      BY <1>6, <2>2 DEF Answered
    <3>2. TypeOK'
      BY <3>1 DEF Linked, TypeOK
    <3> QED BY <3>1, <3>2, LinksAlone DEF Linked, ReceiptRows
  <2> QED BY <2>1, <2>2
<1> QED BY <1>1, <1>2, <1>3, <1>4, <1>5, <1>6

\* Nothing but the customer, the network, or a transaction that gave up.
LEMMA OtherStep ==
  ASSUME Linked, UNCHANGED <<prompt, confirmation>>, TypeOK',
         \A m \in Receipts : joining'[m] \in {joining[m], Nothing}
  PROVE  Linked'
BY LinksAlone DEF Linked, ReceiptRows

LEMMA LinkedStep == Linked /\ [Next]_vars => Linked'
<1> SUFFICES ASSUME Linked, [Next]_vars PROVE Linked'
  OBVIOUS
<1>1. ASSUME NEW p \in Prompts, Accepted(p) \/ Unconfirmed(p) \/ Declined(p)
      PROVE  Linked'
  BY <1>1, RowStep DEF Accepted, Unconfirmed, Declined
<1>2. ASSUME NEW p \in Prompts, Ask(p) \/ TimesOut(p) \/ TenMinutesPass(p) \/ ResultFailed(p)
      PROVE  Linked'
  BY <1>2, RowStep
<1>3. ASSUME NEW p \in Prompts, NEW m \in Receipts, ResultPaid(p, m)
      PROVE  Linked'
  BY <1>3, RowStep
<1>4. ASSUME NEW m \in Receipts, RecordBegins(m) \/ LinkBegins(m)
      PROVE  Linked'
  BY <1>4, Beginning
<1>5. ASSUME NEW m \in Receipts, Commits(m)
      PROVE  Linked'
  BY <1>5, Writing
<1>6. ASSUME NEW m \in Receipts, Aborts(m)
      PROVE  Linked'
  <2>1. TypeOK' /\ \A c \in Receipts : joining'[c] \in {joining[c], Nothing}
    BY <1>6 DEF Aborts, Linked, TypeOK
  <2> QED BY <1>6, <2>1, OtherStep DEF Aborts
<1>7. ASSUME NEW p \in Prompts, Shown(p) \/ Ignores(p) \/ ResultUnmatched(p)
      PROVE  Linked'
  <2>1. TypeOK' /\ UNCHANGED <<prompt, confirmation, joining>>
    BY <1>7 DEF Shown, Ignores, ResultUnmatched, Linked, TypeOK
  <2> QED BY <2>1, OtherStep
<1>8. ASSUME NEW p \in Prompts, NEW m \in Receipts, Pays(p, m)
      PROVE  Linked'
  <2>1. TypeOK' /\ UNCHANGED <<prompt, confirmation, joining>>
    BY <1>8 DEF Pays, Linked, TypeOK
  <2> QED BY <2>1, OtherStep
<1>9. ASSUME NEW m \in Receipts, PaysDirectly(m)
      PROVE  Linked'
  <2>1. TypeOK' /\ UNCHANGED <<prompt, confirmation, joining>>
    BY <1>9 DEF PaysDirectly, Linked, TypeOK
  <2> QED BY <2>1, OtherStep
<1>10. CASE Crash
  <2>1. TypeOK' /\ \A c \in Receipts : joining'[c] \in {joining[c], Nothing}
    BY <1>10, MoneyInAssumption DEF Crash, Linked, TypeOK
  <2> QED BY <1>10, <2>1, OtherStep DEF Crash
<1>11. CASE UNCHANGED vars
  <2>1. TypeOK' /\ UNCHANGED <<prompt, confirmation, joining>>
    BY <1>11 DEF vars, Linked, TypeOK
  <2> QED BY <2>1, OtherStep
<1> QED BY <1>1, <1>2, <1>3, <1>4, <1>5, <1>6, <1>7, <1>8, <1>9, <1>10, <1>11
        DEF Next, Server, Outside

LEMMA LinkedInit == Init => Linked
<1> SUFFICES ASSUME Init PROVE Linked
  OBVIOUS
<1>1. TypeOK
  <2>1. NoRow \in Prompt
    BY DEF NoRow, Prompt
  <2> QED BY <2>1, MoneyInAssumption DEF Init, TypeOK, Confirmation
<1>2. MutualLinks /\ RecordedFirst /\ ReceiptRows
  BY MoneyInAssumption DEF Init, MutualLinks, RecordedFirst, ReceiptRows, NoRow
<1>3. StillFree /\ StillWrong
  BY DEF Init, StillFree, StillWrong, Holds
<1> QED BY <1>1, <1>2, <1>3 DEF Linked

LEMMA LinkedAlways == Spec => []Linked
BY LinkedInit, LinkedStep, PTL DEF Spec

(***************************************************************************)
(* The theorems.                                                           *)
(***************************************************************************)

(* A prompt and a confirmation always name each other or neither does,     *)
(* however record, linkPromptReceipt and their transactions overlap, and   *)
(* through every crash (money_in/link.ts, migration 049).                  *)
THEOREM MutualLinksAlways == Spec => []MutualLinks
<1>1. Linked => MutualLinks
  BY DEF Linked
<1> QED BY <1>1, LinkedAlways, PTL

(* What a receipt proved is never undone: linkPromptReceipt takes apart    *)
(* inferences only, and a prompt with a partner is given no other.         *)
THEOREM ReceiptLinkStaysAlways == Spec => ReceiptLinkStays
<1>1. Linked /\ [Next]_vars =>
        [\A p \in Prompts : prompt[p].method = "receipt" =>
            prompt'[p].confirmation = prompt[p].confirmation]_vars
  <2> SUFFICES ASSUME Linked, Next, NEW p \in Prompts, prompt[p].method = "receipt"
               PROVE  prompt'[p].confirmation = prompt[p].confirmation
    BY DEF vars
  <2>1. ASSUME NEW m \in Receipts, Commits(m)
        PROVE  prompt'[p].confirmation = prompt[p].confirmation
    BY <2>1, Writing
  <2>2. ASSUME NEW q \in Prompts,
               \/ Accepted(q) \/ Unconfirmed(q) \/ Declined(q) \/ TimesOut(q) \/ Ask(q)
               \/ ResultFailed(q) \/ TenMinutesPass(q) \/ \E m \in Receipts : ResultPaid(q, m)
        PROVE  prompt'[p].confirmation = prompt[p].confirmation
    BY <2>2 DEF Accepted, Unconfirmed, Declined, Answered, TimesOut, Ask, ResultFailed,
                TenMinutesPass, ResultPaid, Linked, TypeOK, Prompt
  <2>3. ASSUME UNCHANGED prompt
        PROVE  prompt'[p].confirmation = prompt[p].confirmation
    BY <2>3
  <2>4. \/ UNCHANGED prompt
        \/ \E m \in Receipts : Commits(m)
        \/ \E q \in Prompts :
             \/ Accepted(q) \/ Unconfirmed(q) \/ Declined(q) \/ TimesOut(q) \/ Ask(q)
             \/ ResultFailed(q) \/ TenMinutesPass(q) \/ \E m \in Receipts : ResultPaid(q, m)
    BY DEF Next, Server, Outside, RecordBegins, LinkBegins, Aborts, Shown, Ignores, Pays,
           ResultUnmatched, PaysDirectly, Crash
  <2> QED BY <2>1, <2>2, <2>3, <2>4
<1> QED BY <1>1, LinkedAlways, PTL DEF Spec, ReceiptLinkStays

(***************************************************************************)
(* Every payment is counted once, where nobody pays without a prompt, a    *)
(* confirmation comes after its prompt's ack and within ten minutes, and   *)
(* the server stays up: then an inference has the payer among its          *)
(* candidates, and what is inferred is true.                               *)
(***************************************************************************)

Undisturbed == Around \cap {"direct", "early", "late"} = {} /\ MaxCrashes = 0

\* A payment is made once, on the phone the prompt was shown on, and its
\* prompt is neither declined nor refused.
Asked(p) == prompt[p].status \in {"pending", "sent", "unknown"}

Payers ==
  /\ \A m \in Receipts : money[m] # Direct
  /\ \A m, c \in Receipts : money[m] = money[c] /\ money[m] # NoPrompt => m = c
  /\ \A p \in Prompts :
       /\ phone[p] \in {"shown", "paid"} => Asked(p)
       /\ \A m \in Receipts : money[m] = p =>
            phone[p] \in {"paid", "told"} /\ (Asked(p) \/ prompt[p].status = "completed")

\* The sender of a pending prompt waits for its answer, and the checkout
\* reference comes with it.
Senders ==
  \A p \in Prompts :
    /\ p \in calls <=> prompt[p].status = "pending"
    /\ prompt[p].named => prompt[p].status \notin {"none", "pending"}

\* Receipts and links are of the prompt that was paid, and so is what a
\* transaction is about to write; it has no inference to undo.
TrueRows ==
  \A p \in Prompts :
    /\ prompt[p].receipt # NoReceipt => money[prompt[p].receipt] = p
    /\ prompt[p].confirmation # NoReceipt => money[prompt[p].confirmation] = p
    /\ prompt[p].status = "completed" => prompt[p].receipt # NoReceipt

TrueJoins ==
  \A m \in Receipts : Holds(m) =>
    /\ joining[m].wrong = {}
    /\ joining[m].prompt # NoPrompt => money[m] = joining[m].prompt

Alone(p, m) ==
  prompt[p].status = "completed" /\ prompt[p].receipt = m /\ prompt[p].confirmation = NoReceipt

\* A completed prompt whose confirmation is, or is being, put on record is
\* about to be joined to it.
Recorded(m) == confirmation[m].recorded \/ (Holds(m) /\ joining[m].by = "record")

Meeting ==
  \A p \in Prompts, m \in Receipts : Alone(p, m) /\ Recorded(m) =>
    m \in linking \/ (Holds(m) /\ joining[m].prompt = p)

Truthful == Payers /\ Senders /\ TrueRows /\ TrueJoins /\ Meeting

LEMMA TruthfulInit == Init => Truthful
BY MoneyInAssumption
DEF Init, Truthful, Payers, Asked, Senders, TrueRows, TrueJoins, Meeting, Alone, Recorded, Holds, NoRow

(* Where a set has the payer, who is chosen is the payer or nobody.        *)
LEMMA PayerChosen ==
  ASSUME NEW by, NEW S \in SUBSET Prompts, NEW how, NEW W, NEW p \in S
  PROVE  LET j == Choice(by, S, how, W)
         IN /\ j.by = by /\ j.wrong = W
            /\ j.prompt \in {p, NoPrompt}
            /\ S = {p} => j.prompt = p
<1>1. CASE Cardinality(S) = 1
  <2>1. PICK x : S = {x}
    BY <1>1, FS_Subset, FS_Singleton, MoneyInAssumption
  <2>2. (CHOOSE q \in S : TRUE) = p
    BY <2>1
  <2> QED BY <1>1, <2>2 DEF Choice
<1>2. CASE Cardinality(S) # 1
  <2>1. S # {p}
    BY <1>2, FS_Singleton
  <2> QED BY <1>2, <2>1 DEF Choice
<1> QED BY <1>1, <1>2

LEMMA NobodyChosen ==
  ASSUME NEW by, NEW how, NEW W
  PROVE  LET j == Choice(by, {}, how, W)
         IN j.by = by /\ j.wrong = W /\ j.prompt = NoPrompt
BY FS_EmptySet DEF Choice

(* A row, and nothing a link depends on: neither receipt nor link changes, *)
(* and no prompt completes.                                                *)
LEMMA TruthfulRow ==
  ASSUME Linked, Truthful, NEW p \in Prompts, NEW x,
         prompt' = [prompt EXCEPT ![p] = x] \/ prompt' = prompt,
         x.receipt = prompt[p].receipt, x.confirmation = prompt[p].confirmation,
         x.status = "completed" => prompt[p].status = "completed",
         UNCHANGED <<confirmation, joining, linking>>,
         \A m \in Receipts : money[m] # NoPrompt => money'[m] = money[m],
         Payers', Senders'
  PROVE  Truthful'
<1>1. \A q \in Prompts : /\ prompt'[q].receipt = prompt[q].receipt
                         /\ prompt'[q].confirmation = prompt[q].confirmation
                         /\ prompt'[q].status = "completed" => prompt[q].status = "completed"
  BY DEF Linked, TypeOK
<1>2. TrueRows'
  BY <1>1, MoneyInAssumption DEF Linked, TypeOK, Prompt, Truthful, TrueRows
<1>3. TrueJoins'
  BY MoneyInAssumption DEF Truthful, TrueJoins, Holds, Linked, TypeOK, Join
<1>4. Meeting'
  BY <1>1 DEF Truthful, Meeting, Alone, Recorded, Holds
<1> QED BY <1>2, <1>3, <1>4 DEF Truthful

LEMMA TruthfulAnswer ==
  ASSUME Linked, Truthful, NEW p \in Prompts,
         Accepted(p) \/ Unconfirmed(p) \/ Declined(p)
  PROVE  Truthful'
<1>1. PICK s \in {"sent", "unknown", "failed"} :
        Answered(p, s) /\ (s = "failed" => phone[p] = "dark")
  BY DEF Accepted, Unconfirmed, Declined
<1> DEFINE x == [prompt[p] EXCEPT !.status = s, !.named = (s = "sent")]
<1>2. prompt \in [Prompts -> Prompt] /\ p \in calls /\ prompt[p].status = "pending"
  BY <1>1 DEF Answered, Linked, TypeOK, Truthful, Senders
<1>3. /\ x.status = s /\ x.receipt = prompt[p].receipt
      /\ x.confirmation = prompt[p].confirmation
      /\ prompt' = [prompt EXCEPT ![p] = x]
  BY <1>1, <1>2 DEF Answered, Prompt
<1> HIDE DEF x
<1>4. /\ prompt'[p].status = s
      /\ \A q \in Prompts : q # p => prompt'[q] = prompt[q]
      /\ UNCHANGED <<confirmation, joining, linking, phone, money>> /\ calls' = calls \ {p}
  BY <1>1, <1>2, <1>3 DEF Answered
<1>5. Payers'
  BY <1>1, <1>2, <1>4 DEF Truthful, Payers, Asked
<1>6. Senders'
  BY <1>1, <1>2, <1>4 DEF Truthful, Senders
<1> QED BY <1>1, <1>3, <1>4, <1>5, <1>6, TruthfulRow

LEMMA TruthfulClock ==
  ASSUME Linked, Truthful, NEW p \in Prompts,
         Ask(p) \/ TimesOut(p) \/ TenMinutesPass(p) \/ ResultFailed(p)
  PROVE  Truthful'
<1> DEFINE x == prompt'[p]
<1>1. prompt \in [Prompts -> Prompt] /\ prompt[p] \in Prompt
  BY DEF Linked, TypeOK
<1>2. /\ prompt' = [prompt EXCEPT ![p] = x]
      /\ x.receipt = prompt[p].receipt /\ x.confirmation = prompt[p].confirmation
      /\ x.named = prompt[p].named
      /\ \/ Ask(p) /\ prompt[p].status = "none" /\ x.status = "pending" /\ calls' = calls \cup {p}
         \/ TimesOut(p) /\ prompt[p].status = "sent" /\ x.status = "unknown" /\ calls' = calls
         \/ TenMinutesPass(p) /\ x.status = prompt[p].status /\ calls' = calls
         \/ ResultFailed(p) /\ prompt[p].status \in Live /\ prompt[p].named /\ x.status = "failed"
              /\ calls' = calls /\ phone[p] = "refused"
  <2>1. CASE Ask(p)
    BY <1>1, <2>1 DEF Ask, Prompt
  <2>2. CASE TimesOut(p)
    BY <1>1, <2>2 DEF TimesOut, Prompt
  <2>3. CASE TenMinutesPass(p)
    BY <1>1, <2>3 DEF TenMinutesPass, Prompt
  <2>4. CASE ResultFailed(p)
    BY <1>1, <2>4 DEF ResultFailed, Prompt
  <2> QED BY <2>1, <2>2, <2>3, <2>4
<1>3. /\ UNCHANGED <<confirmation, joining, linking, money>>
      /\ phone' = phone \/ (ResultFailed(p) /\ phone' = [phone EXCEPT ![p] = "told"])
      /\ phone \in [Prompts -> {"dark", "shown", "paid", "refused", "told"}]
  BY DEF Ask, TimesOut, TenMinutesPass, ResultFailed, Linked, TypeOK
<1> HIDE DEF x
<1>4. prompt'[p] = x /\ \A q \in Prompts : q # p => prompt'[q] = prompt[q]
  BY <1>1, <1>2
<1>5. Payers'
  <2>1. CASE phone' = phone
    BY <1>2, <1>3, <1>4, <2>1 DEF Truthful, Payers, Asked, Live
  <2>2. CASE ResultFailed(p) /\ phone' = [phone EXCEPT ![p] = "told"]
    <3>1. \A m \in Receipts : money[m] # p
      BY <2>2 DEF ResultFailed, Truthful, Payers
    <3> QED BY <1>3, <1>4, <2>2, <3>1 DEF Truthful, Payers, Asked
  <2> QED BY <1>3, <2>1, <2>2
<1>6. Senders'
  BY <1>2, <1>4 DEF Truthful, Senders, Live
<1> QED BY <1>2, <1>3, <1>4, <1>5, <1>6, TruthfulRow

(* The customer's phone, and money that is paid for a prompt.              *)
LEMMA TruthfulPhone ==
  ASSUME Linked, Truthful, NEW p \in Prompts,
         Shown(p) \/ Ignores(p) \/ ResultUnmatched(p) \/ (\E m \in Receipts : Pays(p, m))
  PROVE  Truthful'
<1>1. /\ UNCHANGED <<prompt, confirmation, joining, linking, calls>>
      /\ phone \in [Prompts -> {"dark", "shown", "paid", "refused", "told"}]
      /\ money \in [Receipts -> Prompts \cup {NoPrompt, Direct}]
  BY DEF Shown, Ignores, ResultUnmatched, Pays, Linked, TypeOK
<1>2. Senders'
  BY <1>1 DEF Truthful, Senders
<1>3. CASE Shown(p) \/ Ignores(p) \/ ResultUnmatched(p)
  <2>1. money' = money /\ \/ phone[p] = "dark" /\ p \in calls /\ phone' = [phone EXCEPT ![p] = "shown"]
                          \/ phone[p] = "shown" /\ phone' = [phone EXCEPT ![p] = "refused"]
                          \/ phone[p] \in {"paid", "refused"} /\ phone' = [phone EXCEPT ![p] = "told"]
    BY <1>3 DEF Shown, Ignores, ResultUnmatched
  <2>2. Payers'
    BY <1>1, <2>1 DEF Truthful, Payers, Senders, Asked
  <2> QED BY <1>1, <1>2, <2>1, <2>2, TruthfulRow
<1>4. ASSUME NEW m \in Receipts, Pays(p, m)
      PROVE  Truthful'
  <2>1. /\ phone[p] = "shown" /\ money[m] = NoPrompt
        /\ phone' = [phone EXCEPT ![p] = "paid"] /\ money' = [money EXCEPT ![m] = p]
    BY <1>4 DEF Pays
  <2>2. Payers'
    BY <1>1, <2>1, MoneyInAssumption DEF Truthful, Payers, Asked
  <2>3. \A c \in Receipts : money[c] # NoPrompt => money'[c] = money[c]
    BY <1>1, <2>1
  <2> QED BY <1>1, <1>2, <2>2, <2>3, TruthfulRow
<1> QED BY <1>3, <1>4

LEMMA TruthfulResult ==
  ASSUME Linked, Truthful, NEW p \in Prompts, NEW m \in Receipts, ResultPaid(p, m)
  PROVE  Truthful'
<1> DEFINE x == [prompt[p] EXCEPT !.status = "completed", !.receipt = m]
<1>1. /\ prompt \in [Prompts -> Prompt] /\ prompt[p] \in Prompt
      /\ phone \in [Prompts -> {"dark", "shown", "paid", "refused", "told"}]
      /\ phone[p] = "paid" /\ money[m] = p /\ prompt[p].named /\ prompt[p].status \in Live
      /\ linking' = linking \cup {m} /\ phone' = [phone EXCEPT ![p] = "told"]
      /\ UNCHANGED <<confirmation, joining, calls, money>>
  BY DEF ResultPaid, Linked, TypeOK
<1>2. /\ prompt' = [prompt EXCEPT ![p] = x] /\ x.status = "completed" /\ x.receipt = m
      /\ x.confirmation = prompt[p].confirmation /\ x.named = prompt[p].named
  BY <1>1 DEF ResultPaid, Prompt
<1> HIDE DEF x
<1>3. prompt'[p] = x /\ \A q \in Prompts : q # p => prompt'[q] = prompt[q]
  BY <1>1, <1>2
<1>4. Payers'
  BY <1>1, <1>2, <1>3 DEF Truthful, Payers, Asked
<1>5. Senders'
  BY <1>1, <1>2, <1>3 DEF Truthful, Senders, Live
<1>6. TrueRows'
  BY <1>1, <1>2, <1>3, MoneyInAssumption DEF Truthful, TrueRows
<1>7. TrueJoins'
  BY <1>1 DEF Truthful, TrueJoins, Holds
<1>8. Meeting'
  BY <1>1, <1>2, <1>3 DEF Truthful, Meeting, Alone, Recorded, Holds
<1> QED BY <1>4, <1>5, <1>6, <1>7, <1>8 DEF Truthful

LEMMA TruthfulRecord ==
  ASSUME Linked, Truthful, Undisturbed, NEW m \in Receipts, RecordBegins(m)
  PROVE  Truthful'
<1> DEFINE p == money[m]
<1>1. /\ p \in Prompts /\ p \notin calls /\ prompt[p].recent /\ ~confirmation[m].recorded
      /\ joining[m] = Nothing
      /\ UNCHANGED <<prompt, confirmation, calls, linking, phone, money>>
  BY DEF RecordBegins, TakesLock, Undisturbed, Truthful, Payers, Linked, TypeOK
<1>2. prompt[p].confirmation = NoReceipt
  <2>1. confirmation[m].prompt # p
    BY <1>1, MoneyInAssumption DEF Linked, RecordedFirst
  <2>2. prompt[p].confirmation # m
    BY <1>1, <2>1 DEF Linked, MutualLinks
  <2> QED BY <1>1, <2>2, MoneyInAssumption DEF Truthful, TrueRows, Payers, Linked, TypeOK, Prompt
<1>3. prompt[p].status \in {"sent", "unknown"} \/ (prompt[p].status = "completed" /\ prompt[p].receipt = m)
  <2>1. Asked(p) \/ prompt[p].status = "completed"
    BY <1>1 DEF Truthful, Payers
  <2>2. prompt[p].status # "pending"
    BY <1>1 DEF Truthful, Senders
  <2>3. prompt[p].status = "completed" => prompt[p].receipt = m
    BY <1>1, MoneyInAssumption DEF Truthful, TrueRows, Payers, Linked, TypeOK, Prompt
  <2> QED BY <2>1, <2>2, <2>3 DEF Asked
<1>4. ByReceipt(m, prompt) \in {{}, {p}} /\ Candidates \in SUBSET Prompts
  <2>1. \A q \in ByReceipt(m, prompt) : q = p
    BY MoneyInAssumption DEF ByReceipt, Truthful, TrueRows
  <2> QED BY <2>1 DEF Candidates
<1>5. PICK j : /\ joining' = [joining EXCEPT ![m] = j] /\ j.by = "record" /\ j.wrong = {}
               /\ j.prompt \in {p, NoPrompt}
               /\ Alone(p, m) => j.prompt = p
  <2>1. CASE ByReceipt(m, prompt) # {}
    <3>1. ByReceipt(m, prompt) = {p}
      BY <1>4, <2>1
    <3> DEFINE j == Choice("record", {p}, "receipt", {})
    <3>2. joining' = [joining EXCEPT ![m] = j]
      BY <2>1, <3>1 DEF RecordBegins
    <3>3. j.by = "record" /\ j.wrong = {} /\ j.prompt = p
      BY <1>1, PayerChosen
    <3> HIDE DEF j
    <3> QED BY <3>2, <3>3
  <2>2. CASE ByReceipt(m, prompt) = {}
    <3>1. ~Alone(p, m)
      BY <1>1, <2>2 DEF Alone, ByReceipt
    <3>2. p \in Candidates
      BY <1>1, <1>2, <1>3, <3>1 DEF Candidates, Alone
    <3> DEFINE j == Choice("record", Candidates, "inferred", {})
    <3>3. joining' = [joining EXCEPT ![m] = j]
      BY <2>2 DEF RecordBegins
    <3>4. j.by = "record" /\ j.wrong = {} /\ j.prompt \in {p, NoPrompt}
      BY <1>4, <3>2, PayerChosen
    <3> HIDE DEF j
    <3> QED BY <3>1, <3>3, <3>4
  <2> QED BY <2>1, <2>2
<1>6. /\ joining'[m] = j /\ Holds(m)' 
      /\ \A c \in Receipts : c # m => joining'[c] = joining[c]
  <2>1. j # Nothing
    <3>1. Nothing.by = "nobody"
      BY DEF Nothing
    <3> QED BY <1>5, <3>1
  <2> QED BY <1>5, <2>1 DEF Linked, TypeOK, Holds
<1>7. Payers' /\ Senders' /\ TrueRows'
  BY <1>1 DEF Truthful, Payers, Senders, TrueRows, Asked
<1>8. TrueJoins'
  BY <1>1, <1>5, <1>6 DEF Truthful, TrueJoins, Holds
<1>9. Meeting'
  <2> SUFFICES ASSUME NEW q \in Prompts, NEW c \in Receipts, Alone(q, c)', Recorded(c)'
               PROVE  c \in linking' \/ (Holds(c)' /\ joining'[c].prompt = q)
    BY DEF Meeting
  <2>1. CASE c = m
    <3>1. Alone(q, m)
      BY <1>1, <2>1 DEF Alone
    <3>2. q = p
      BY <3>1, MoneyInAssumption DEF Alone, Truthful, TrueRows
    <3> QED BY <1>5, <1>6, <2>1, <3>1, <3>2
  <2>2. CASE c # m
    BY <1>1, <1>6, <2>2 DEF Truthful, Meeting, Alone, Recorded, Holds
  <2> QED BY <2>1, <2>2
<1> QED BY <1>7, <1>8, <1>9 DEF Truthful

(* There is no inference to undo.                                          *)
LEMMA NothingToUndo ==
  ASSUME Linked, Truthful
  PROVE  /\ \A m \in Receipts : Wrong(m) = {}
         /\ Unlinked({}) = prompt /\ Freed({}) = confirmation
<1>1. ASSUME NEW m \in Receipts PROVE Wrong(m) = {}
  BY MoneyInAssumption DEF Wrong, Truthful, TrueRows, Payers, Linked, TypeOK, Prompt
<1>2. Unlinked({}) = prompt /\ Freed({}) = confirmation
  BY DEF Unlinked, Freed, Linked, TypeOK
<1> QED BY <1>1, <1>2

(* The confirmation of a prompt without a partner names nobody.            *)
LEMMA AloneIsFree ==
  ASSUME Linked, Truthful, NEW p \in Prompts, NEW m \in Receipts, Alone(p, m)
  PROVE  money[m] = p /\ confirmation[m].prompt = NoPrompt
<1>1. money[m] = p
  BY MoneyInAssumption DEF Alone, Truthful, TrueRows
<1>2. ASSUME NEW r \in Prompts, confirmation[m].prompt = r PROVE FALSE
  <2>1. prompt[r].confirmation = m
    BY <1>2 DEF Linked, MutualLinks
  <2>2. money[m] = r
    BY <2>1, MoneyInAssumption DEF Truthful, TrueRows
  <2> QED BY <1>1, <2>1, <2>2, MoneyInAssumption DEF Alone
<1> QED BY <1>1, <1>2 DEF Linked, TypeOK, Confirmation

LEMMA TruthfulLink ==
  ASSUME Linked, Truthful, NEW m \in Receipts, LinkBegins(m)
  PROVE  Truthful'
<1> DEFINE S == {p \in ByReceipt(m, Unlinked(Wrong(m))) :
                   confirmation[m].recorded /\ confirmation[m].prompt = NoPrompt}
           j == Choice("result", S, "receipt", Wrong(m))
<1>1. /\ joining' = [joining EXCEPT ![m] = j] /\ linking' = linking \ {m}
      /\ joining[m] = Nothing
      /\ UNCHANGED <<prompt, confirmation, calls, phone, money>>
  BY DEF LinkBegins, TakesLock
<1>2. \A q \in Prompts : q \in S <=> Alone(q, m) /\ confirmation[m].recorded
  BY NothingToUndo, AloneIsFree DEF ByReceipt, Alone
<1>3. S \in SUBSET Prompts /\ \A q \in S : money[m] = q /\ S = {q}
  BY <1>2, AloneIsFree DEF ByReceipt
<1> HIDE DEF S
<1>4. /\ j.by = "result" /\ j.wrong = {}
      /\ j.prompt # NoPrompt => money[m] = j.prompt
      /\ \A q \in S : j.prompt = q
  <2>1. CASE S = {}
    BY <2>1, NobodyChosen, NothingToUndo
  <2>2. ASSUME NEW q \in S
        PROVE  j.by = "result" /\ j.wrong = {} /\ j.prompt = q /\ money[m] = q
    BY <1>3, PayerChosen, NothingToUndo
  <2> QED BY <2>1, <2>2
<1> HIDE DEF j
<1>5. /\ joining'[m] = j /\ Holds(m)'
      /\ \A c \in Receipts : c # m => joining'[c] = joining[c]
  <2>1. j # Nothing
    <3>1. Nothing.by = "nobody"
      BY DEF Nothing
    <3> QED BY <1>4, <3>1
  <2> QED BY <1>1, <2>1 DEF Linked, TypeOK, Holds
<1>6. Payers' /\ Senders' /\ TrueRows'
  BY <1>1 DEF Truthful, Payers, Senders, TrueRows, Asked
<1>7. TrueJoins'
  BY <1>1, <1>4, <1>5 DEF Truthful, TrueJoins, Holds
<1>8. Meeting'
  <2> SUFFICES ASSUME NEW q \in Prompts, NEW c \in Receipts, Alone(q, c)', Recorded(c)'
               PROVE  c \in linking' \/ (Holds(c)' /\ joining'[c].prompt = q)
    BY DEF Meeting
  <2>1. CASE c = m
    <3>1. Alone(q, m) /\ confirmation[m].recorded
      BY <1>1, <1>4, <1>5, <2>1 DEF Alone, Recorded
    <3> QED BY <1>2, <1>4, <1>5, <2>1, <3>1
  <2>2. CASE c # m
    BY <1>1, <1>5, <2>2 DEF Truthful, Meeting, Alone, Recorded, Holds
  <2> QED BY <2>1, <2>2
<1> QED BY <1>6, <1>7, <1>8 DEF Truthful

(* The prompt a transaction has chosen has no other partner.               *)
LEMMA ChosenIsFree ==
  ASSUME Linked, Truthful, NEW m \in Receipts, Holds(m), joining[m].prompt # NoPrompt
  PROVE  LET p == joining[m].prompt
         IN /\ p \in Prompts /\ money[m] = p /\ prompt[p].confirmation = NoReceipt
            /\ \A c \in Receipts : confirmation[c].prompt # p
<1> DEFINE p == joining[m].prompt
<1>1. p \in Prompts /\ money[m] = p /\ confirmation[m].prompt = NoPrompt
  BY DEF Linked, TypeOK, Join, Holds, StillFree, Truthful, TrueJoins
<1>2. ASSUME NEW c \in Receipts PROVE prompt[p].confirmation # c
  <2> SUFFICES ASSUME prompt[p].confirmation = c PROVE FALSE
    OBVIOUS
  <2>1. money[c] = p /\ confirmation[c].prompt = p
    BY <1>1, MoneyInAssumption DEF Truthful, TrueRows, Linked, MutualLinks
  <2> QED BY <1>1, <2>1, MoneyInAssumption DEF Truthful, Payers
<1>3. prompt[p].confirmation = NoReceipt
  BY <1>1, <1>2 DEF Linked, TypeOK, Prompt
<1> QED BY <1>1, <1>2, <1>3 DEF Linked, MutualLinks

LEMMA TruthfulCommit ==
  ASSUME Linked, Truthful, NEW m \in Receipts, Commits(m)
  PROVE  Truthful'
<1> DEFINE j == joining[m]
<1>1. /\ Holds(m) /\ j.wrong = {}
      /\ UNCHANGED <<calls, linking, phone, money>> /\ joining' = [joining EXCEPT ![m] = Nothing]
      /\ prompt \in [Prompts -> Prompt] /\ confirmation \in [Receipts -> Confirmation]
      /\ joining \in [Receipts -> Join \cup {Nothing}]
  BY DEF Commits, Holds, Truthful, TrueJoins, Linked, TypeOK
<1>2. \A c \in Receipts : Holds(c)' => c # m /\ Holds(c) /\ joining'[c] = joining[c]
  BY <1>1 DEF Holds
<1>3. /\ \A c \in Receipts : c # m => confirmation'[c] = confirmation[c]
      /\ confirmation'[m].recorded => Recorded(m)
  <2>1. confirmation' = [confirmation EXCEPT
              ![m].prompt = IF j.prompt = NoPrompt THEN @ ELSE j.prompt,
              ![m].recorded = @ \/ j.by = "record"]
    BY <1>1, NothingToUndo DEF Commits, Named
  <2>2. confirmation'[m].recorded = (confirmation[m].recorded \/ j.by = "record")
    BY <1>1, <2>1 DEF Confirmation
  <2>3. confirmation'[m].recorded => confirmation[m].recorded \/ j.by = "record"
    BY <2>2, Zenon
  <2> QED BY <1>1, <2>1, <2>3 DEF Recorded
<1>4. \A q \in Prompts :
        /\ prompt'[q].status = prompt[q].status /\ prompt'[q].receipt = prompt[q].receipt
        /\ prompt'[q].named = prompt[q].named
        /\ q # j.prompt => prompt'[q] = prompt[q]
        /\ q = j.prompt => prompt'[q].confirmation = m
  <2>1. CASE j.prompt = NoPrompt
    BY <1>1, <2>1, NothingToUndo, MoneyInAssumption DEF Commits, Partnered
  <2>2. CASE j.prompt # NoPrompt
    <3> DEFINE y == [prompt[j.prompt] EXCEPT !.confirmation = m, !.method = j.method]
    <3>1. j.prompt \in Prompts /\ prompt[j.prompt].confirmation = NoReceipt
      BY <1>1, <2>2, ChosenIsFree
    <3>2. prompt' = [prompt EXCEPT ![j.prompt].confirmation = m, ![j.prompt].method = j.method]
      BY <1>1, <2>2, <3>1, NothingToUndo DEF Commits, Partnered
    <3>3. prompt' = [prompt EXCEPT ![j.prompt] = y]
      BY <1>1, <3>1, <3>2
    <3>4. /\ y.confirmation = m /\ y.status = prompt[j.prompt].status
          /\ y.receipt = prompt[j.prompt].receipt /\ y.named = prompt[j.prompt].named
      BY <1>1, <3>1 DEF Prompt
    <3> HIDE DEF y
    <3> QED BY <1>1, <3>1, <3>3, <3>4
  <2> QED BY <2>1, <2>2
<1>5. j.prompt # NoPrompt => money[m] = j.prompt
  BY <1>1, ChosenIsFree
<1>6. Payers' /\ Senders'
  BY <1>1, <1>4 DEF Truthful, Payers, Senders, Asked
<1>7. TrueRows'
  BY <1>1, <1>4, <1>5, MoneyInAssumption DEF Truthful, TrueRows
<1>8. TrueJoins'
  BY <1>1, <1>2 DEF Truthful, TrueJoins
<1>9. Meeting'
  <2> SUFFICES ASSUME NEW q \in Prompts, NEW c \in Receipts, Alone(q, c)', Recorded(c)'
               PROVE  c \in linking' \/ (Holds(c)' /\ joining'[c].prompt = q)
    BY DEF Meeting
  <2>1. Alone(q, c) /\ q # j.prompt
    BY <1>4, MoneyInAssumption DEF Alone
  <2>2. CASE c = m
    <3>1. Recorded(m)
      BY <1>2, <1>3, <2>2 DEF Recorded
    <3> QED BY <1>1, <2>1, <2>2, <3>1 DEF Truthful, Meeting
  <2>3. CASE c # m
    <3>1. Recorded(c) /\ joining'[c] = joining[c]
      BY <1>1, <1>2, <1>3, <2>3 DEF Recorded
    <3> QED BY <1>1, <2>1, <2>3, <3>1 DEF Truthful, Meeting, Holds
  <2> QED BY <2>2, <2>3
<1> QED BY <1>6, <1>7, <1>8, <1>9 DEF Truthful

LEMMA NeverTaken ==
  ASSUME Linked, Truthful, NEW m \in Receipts, Aborts(m)
  PROVE  FALSE
<1>1. Holds(m) /\ joining[m].wrong = {} /\ joining[m].prompt # NoPrompt
  BY DEF Aborts, Taken, Holds, Truthful, TrueJoins
<1>2. \E c \in Receipts : confirmation[c].prompt = joining[m].prompt
  BY <1>1, NothingToUndo DEF Aborts, Taken
<1> QED BY <1>1, <1>2, ChosenIsFree

LEMMA TruthfulStep ==
  ASSUME Linked, Truthful, Undisturbed, [Next]_vars
  PROVE  Truthful'
<1>1. ~Crash
  BY DEF Crash, Undisturbed, Linked, TypeOK
<1>2. \A m \in Receipts : ~PaysDirectly(m)
  BY DEF PaysDirectly, Undisturbed
<1>3. CASE UNCHANGED vars
  BY <1>3 DEF vars, Truthful, Payers, Senders, TrueRows, TrueJoins, Meeting, Asked, Alone,
              Recorded, Holds
<1>4. ASSUME NEW p \in Prompts, Accepted(p) \/ Unconfirmed(p) \/ Declined(p) PROVE Truthful'
  BY <1>4, TruthfulAnswer
<1>5. ASSUME NEW p \in Prompts, Ask(p) \/ TimesOut(p) \/ TenMinutesPass(p) \/ ResultFailed(p)
      PROVE  Truthful'
  BY <1>5, TruthfulClock
<1>6. ASSUME NEW p \in Prompts,
             Shown(p) \/ Ignores(p) \/ ResultUnmatched(p) \/ (\E m \in Receipts : Pays(p, m))
      PROVE  Truthful'
  BY <1>6, TruthfulPhone
<1>7. ASSUME NEW p \in Prompts, NEW m \in Receipts, ResultPaid(p, m) PROVE Truthful'
  BY <1>7, TruthfulResult
<1>8. ASSUME NEW m \in Receipts, RecordBegins(m) \/ LinkBegins(m) \/ Commits(m) \/ Aborts(m)
      PROVE  Truthful'
  BY <1>8, TruthfulRecord, TruthfulLink, TruthfulCommit, NeverTaken
<1> QED BY <1>1, <1>2, <1>3, <1>4, <1>5, <1>6, <1>7, <1>8 DEF Next, Server, Outside

LEMMA TruthfulAlways ==
  ASSUME Undisturbed
  PROVE  Spec => [](Linked /\ Truthful)
<1>1. Linked /\ Truthful /\ [Next]_vars => (Linked /\ Truthful)'
  BY LinkedStep, TruthfulStep
<1> QED BY <1>1, LinkedInit, TruthfulInit, PTL DEF Spec

(* Once the handlers are done, money on record is counted exactly once:    *)
(* the prompt or its confirmation, never both and never neither, whichever *)
(* came first and however the transactions of several receipts overlap.    *)
THEOREM CountedOnceUndisturbed ==
  ASSUME Undisturbed
  PROVE  Spec => []CountedOnce
<1>1. Linked /\ Truthful => CountedOnce
  <2> SUFFICES ASSUME Linked, Truthful, AtRest, NEW m \in Receipts, OnRecord(m)
               PROVE  Counted(m) = 1
    BY DEF CountedOnce
  <2> DEFINE S == {p \in Prompts : /\ prompt[p].status = "completed" /\ prompt[p].receipt = m
                                   /\ prompt[p].confirmation = NoReceipt}
  <2>1. \A p \in Prompts : p \in S <=> Alone(p, m)
    BY DEF Alone
  <2>2. CASE confirmation[m].recorded
    <3>1. S = {}
      BY <2>1, <2>2 DEF AtRest, Truthful, Meeting, Recorded, Holds
    <3>2. Cardinality(S) = 0
      BY <3>1, FS_EmptySet
    <3> QED BY <2>2, <3>2 DEF Counted
  <2>3. CASE ~confirmation[m].recorded
    <3>1. PICK p \in Prompts : prompt[p].status = "completed" /\ prompt[p].receipt = m
      BY <2>3 DEF OnRecord
    <3>2. money[m] = p
      BY <3>1, MoneyInAssumption DEF Truthful, TrueRows
    <3>3. prompt[p].confirmation = NoReceipt
      <4>1. prompt[p].confirmation # m
        BY <2>3, MoneyInAssumption DEF Linked, RecordedFirst, MutualLinks
      <4> QED BY <3>2, <4>1, MoneyInAssumption
              DEF Truthful, TrueRows, Payers, Linked, TypeOK, Prompt
    <3>4. S = {p}
      <4>1. p \in S
        BY <3>1, <3>3
      <4>2. \A q \in S : q = p
        BY <2>1, <3>2, AloneIsFree
      <4> QED BY <4>1, <4>2
    <3>5. Cardinality(S) = 1
      BY <3>4, FS_Singleton
    <3> QED BY <2>3, <3>5 DEF Counted
  <2> QED BY <2>2, <2>3
<1> QED BY <1>1, TruthfulAlways, PTL
=============================================================================
