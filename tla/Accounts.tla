------------------------------ MODULE Accounts ------------------------------
(***************************************************************************)
(* What a payer may type as the account: the numbers Studio gives out and  *)
(* the words it lets people claim (server/src/businesses/service.ts,       *)
(* businesses/match.ts, routing/claims.ts, migrations 030, 032 and 052).   *)
(*                                                                         *)
(* A reference is a sequence of symbols, a digit 0..9 or a letter, which   *)
(* is a number above 9.  Adding an account and deleting one read before    *)
(* they begin their transaction, and a deletion reads the sub-accounts     *)
(* before it deletes: a clerk is a request between two of these steps.     *)
(* How many numbers a width has is what the counters of number_widths say  *)
(* again, so they are left out, as are names, phones and notes.            *)
(***************************************************************************)
EXTENDS Integers, FiniteSets, SequencesExt

CONSTANTS
  Businesses,
  Codes,        \* the business codes, sequences of CodeLength digits
  CodeLength,
  Blocks,       \* what rng draws, padded: sequences of FirstWidth digits, none with a leading 9
  FirstWidth,
  MaxDigits,    \* Daraja's AccountReference limit
  MaxAccounts,  \* how many accounts are ever opened
  Words,        \* tokens that are claimed as names or aliases
  Leads,        \* tokens that an app claims as prefixes
  Clerks,
  Beside        \* {"minting"}: an account is opened while what it is under is being deleted;
                \* {"closing"}: a business is deleted whose accounts had names

ASSUME AccountsAssumption ==
  /\ FirstWidth \in Nat \ {0} /\ MaxDigits \in Nat /\ MaxAccounts \in Nat
  /\ CodeLength \in 1..FirstWidth
  /\ \A b \in Blocks : b \in Seq(0..9) /\ Len(b) = FirstWidth /\ b[1] # 9
  /\ \A c \in Codes : c \in Seq(0..9) /\ Len(c) = CodeLength

NoCode == <<>>
Nobody == 0
AccountIds == 1..MaxAccounts

VARIABLES
  codes,      \* the code of each business, or NoCode
  accounts,   \* the rows, those to come and those that were
  claims,     \* route_claims, without those released over a year ago
  clerks,     \* the requests under way
  numberHistory,   \* the accounts number_history has a row of
  worn        \* who bore which name within the last year, and bears it no more

accountsVars == <<codes, accounts, claims, clerks, numberHistory, worn>>

Free == [step |-> "free"]

Unopened == [state |-> "none"]
Deleted == [state |-> "gone"]

Opened == {a \in AccountIds : accounts[a].state = "open"}
Registered == {b \in Businesses : codes[b] # NoCode}

AccountsInit ==
  /\ codes = [b \in Businesses |-> NoCode]
  /\ accounts = [a \in AccountIds |-> Unopened]
  /\ claims = {}
  /\ clerks = [k \in Clerks |-> Free]
  /\ numberHistory = {}
  /\ worn = {}
-----------------------------------------------------------------------------
\* Reading a reference

HasLetter(ref) == \E i \in 1..Len(ref) : ref[i] > 9

Nines(digits) ==
  Cardinality({i \in 1..Len(digits) : \A j \in 1..i : digits[j] = 9})

\* The width of a number is written into it: a 9 in front for each digit more.
Width(digits) == FirstWidth + Nines(digits)

\* The numbers the digits are read as, one for each level; none if they are
\* shorter than they announce, or go on after the second.
Levels(digits) ==
  LET first == SubSeq(digits, 1, Width(digits))
      rest == SubSeq(digits, Width(digits) + 1, Len(digits))
  IN CASE Len(digits) < Width(digits) -> <<>>
       [] Len(digits) = Width(digits) -> <<first>>
       [] Len(digits) > Width(digits) ->
            IF Len(rest) = Width(rest) THEN <<first, rest>> ELSE <<>>

NumbersOf(a) ==
  LET parent == accounts[a].parent
  IN IF parent = Nobody THEN <<accounts[a].number>>
     ELSE <<accounts[parent].number, accounts[a].number>>

FullNumber(a) == codes[accounts[a].business] \o FlattenSeq(NumbersOf(a))

ResolveTail(b, digits) ==
  {a \in Opened : accounts[a].business = b /\ NumbersOf(a) = Levels(digits)}

NamedBy(ref) ==
  {c \in claims : c.live /\ c.token = ref /\ c.kind \in {"name", "alias"} /\ HasLetter(ref)}

ReadWholeFirst(b, ref) ==
  IF ResolveTail(b, ref) # {} \/ ~IsPrefix(codes[b], ref) THEN ResolveTail(b, ref)
  ELSE ResolveTail(b, SubSeq(ref, Len(codes[b]) + 1, Len(ref)))

\* One business: its code is not required, and what follows it is tried first.
ReadOnly(b, ref) ==
  IF Len(ref) > Len(codes[b]) /\ IsPrefix(codes[b], ref)
    THEN LET stripped == ResolveTail(b, SubSeq(ref, Len(codes[b]) + 1, Len(ref)))
         IN IF stripped # {} THEN stripped ELSE ResolveTail(b, ref)
    ELSE ResolveTail(b, ref)

ReadAmong(b, ref) == ResolveTail(b, SubSeq(ref, CodeLength + 1, Len(ref)))

\* The business and the account a payment under this reference is filed under.
FiledUnder(ref) ==
  LET code(b) == IsPrefix(codes[b], ref)
      label(b, as) == [business |-> b,
                       account |-> IF as = {} THEN Nobody ELSE CHOOSE a \in as : TRUE]
  IN CASE NamedBy(ref) # {} ->
            LET c == CHOOSE c \in NamedBy(ref) : TRUE
            IN [business |-> c.business, account |-> c.account]
       [] NamedBy(ref) = {} /\ Cardinality(Registered) = 1 ->
            LET b == CHOOSE b \in Registered : TRUE
            IN label(b, IF HasLetter(ref) THEN {} ELSE ReadOnly(b, ref))
       [] NamedBy(ref) = {} /\ Cardinality(Registered) # 1 ->
            IF ~HasLetter(ref) /\ \E b \in Registered : code(b)
              THEN LET b == CHOOSE b \in Registered : code(b) IN label(b, ReadAmong(b, ref))
              ELSE [business |-> Nobody, account |-> Nobody]
-----------------------------------------------------------------------------
\* Claims of words

Live == {c \in claims : c.live}

\* What the rule would be with <> in the place of IS DISTINCT FROM.
HeldUnlessNull(token, a) ==
  \E c \in claims \ Live :
    c.token = token /\ c.kind = "name" /\ (a = Nobody \/ c.account \notin {Nobody, a})

\* A name released within the year is kept for the account that had it.
HeldBack(token, a) ==
  \E c \in claims \ Live :
    c.token = token /\ c.kind = "name" /\ (a = Nobody \/ c.account # a)

Conflict(token, kind, a) ==
  \/ \E c \in Live : c.token = token
  \/ HeldBack(token, a)
  \/ \E c \in Live : c.kind = "prefix" /\ IsStrictPrefix(c.token, token)
  \/ \E b \in Registered : IsPrefix(codes[b], token)
  \/ kind = "prefix" /\ \E c \in Live : IsStrictPrefix(token, c.token)
  \/ kind = "prefix" /\ \E b \in Registered : IsPrefix(token, codes[b])

ReleasedNames(cs) == {[c EXCEPT !.live = FALSE] : c \in cs}
Bearing(cs) == {<<c.token, c.account>> : c \in {d \in cs : d.live /\ d.kind = "name"}}

\* claimName: the old name of the account is released with it.
ClaimName(a, token) ==
  LET old == {c \in Live : c.kind = "name" /\ c.account = a}
  IN /\ a \in Opened /\ token \in Words /\ HasLetter(token)
     /\ ~Conflict(token, "name", a)
     /\ claims' = (claims \ old) \cup ReleasedNames(old)
                    \cup {[token |-> token, kind |-> "name", business |-> accounts[a].business,
                           account |-> a, live |-> TRUE]}
     /\ worn' = worn \cup Bearing(old)
     /\ UNCHANGED <<codes, accounts, clerks, numberHistory>>

ReleaseName(a) ==
  LET old == {c \in Live : c.kind = "name" /\ c.account = a}
  IN /\ old # {}
     /\ claims' = (claims \ old) \cup ReleasedNames(old)
     /\ worn' = worn \cup Bearing(old)
     /\ UNCHANGED <<codes, accounts, clerks, numberHistory>>

\* The configuration file: an alias of a business, or the prefix of an app.
AddClaim(token, kind, b) ==
  /\ \/ kind = "alias" /\ token \in Words /\ b \in Registered
     \/ kind = "prefix" /\ token \in Leads /\ b = Nobody
  /\ ~Conflict(token, kind, Nobody)
  /\ claims' = claims \cup {[token |-> token, kind |-> kind, business |-> b,
                             account |-> Nobody, live |-> TRUE]}
  /\ UNCHANGED <<codes, accounts, clerks, numberHistory, worn>>

DropClaim(c) ==
  /\ c \in Live /\ c.kind # "name"
  /\ claims' = claims \ {c}
  /\ UNCHANGED <<codes, accounts, clerks, numberHistory, worn>>

YearPasses ==
  /\ claims # Live \/ worn # {}
  /\ claims' = Live
  /\ worn' = {}
  /\ UNCHANGED <<codes, accounts, clerks, numberHistory>>
-----------------------------------------------------------------------------
\* Businesses

\* Under the lock of the claims, a code is read like a prefix.
ClearCode(code) ==
  /\ \A b \in Registered : codes[b] # code
  /\ \A c \in Live : /\ c.kind = "prefix" => ~IsPrefix(c.token, code)
                     /\ ~IsPrefix(code, c.token)

\* A new row: nothing under way is about it.
AddBusiness(b, code) ==
  /\ b \notin Registered
  /\ \A k \in Clerks : clerks[k].step \in {"closing", "minting"} => clerks[k].business # b
  /\ ClearCode(code)
  /\ codes' = [codes EXCEPT ![b] = code]
  /\ UNCHANGED <<accounts, claims, clerks, numberHistory, worn>>

In(b) == {a \in Opened : accounts[a].business = b}
Under(a) == {s \in Opened : accounts[s].parent = a}

BeginDeleteBusiness(k, b) ==
  /\ clerks[k] = Free /\ b \in Registered
  /\ In(b) = {}
  /\ "closing" \in Beside \/ \A c \in claims : c.kind = "name" => c.business # b
  /\ clerks' = [clerks EXCEPT ![k] = [step |-> "closing", business |-> b]]
  /\ UNCHANGED <<codes, accounts, claims, numberHistory, worn>>

\* The rows of a table that go with an account, and what their names become.
Gone(as) ==
  LET names == {c \in Live : c.account \in as}
  IN /\ accounts' = [a \in AccountIds |-> IF a \in as THEN Deleted ELSE accounts[a]]
     /\ worn' = worn \cup Bearing(names)

\* route_claims of an account: released, and the account they name is no more.
Orphaned(as) ==
  {IF c.account \in as THEN [c EXCEPT !.live = FALSE, !.account = Nobody] ELSE c : c \in claims}

\* The accounts and the claims of a business go with it (ON DELETE CASCADE).
DeleteBusiness(k) ==
  LET b == clerks[k].business
  IN /\ clerks[k].step = "closing"
     /\ clerks' = [clerks EXCEPT ![k] = Free]
     /\ codes' = [codes EXCEPT ![b] = NoCode]
     /\ Gone(In(b))
     /\ claims' = {c \in claims : c.business # b}
     /\ UNCHANGED numberHistory
-----------------------------------------------------------------------------
\* Accounts

BeginMint(k, b, parent) ==
  /\ clerks[k] = Free /\ b \in Registered
  /\ parent # Nobody => parent \in In(b) /\ accounts[parent].parent = Nobody
  /\ clerks' = [clerks EXCEPT ![k] = [step |-> "minting", business |-> b, parent |-> parent]]
  /\ UNCHANGED <<codes, accounts, claims, numberHistory, worn>>

WidthNumbers(width) == {[i \in 1..(width - FirstWidth) |-> 9] \o d : d \in Blocks}

Taken(b, parent) == {accounts[a].number : a \in {x \in In(b) : accounts[x].parent = parent}}

\* The lowest width with a number nobody in this scope has.  The code counts as
\* one more first number.
WithRoom(b, parent) ==
  LET base == FirstWidth + (IF parent = Nobody THEN 0 ELSE Len(accounts[parent].number))
      fits == {w \in FirstWidth..(MaxDigits - base) : WidthNumbers(w) \ Taken(b, parent) # {}}
  IN {w \in fits : \A v \in fits : w <= v}

\* The business and the account it was asked for are still there.
Stands(m) == m.business \in Registered /\ (m.parent # Nobody => m.parent \in Opened)

BeingDeleted(b, parent) ==
  \E k \in Clerks :
    \/ clerks[k].step = "closing" /\ clerks[k].business = b
    \/ clerks[k].step = "deleting" /\ clerks[k].account = parent

Mint(k, number) ==
  LET m == clerks[k]
      fresh == {a \in AccountIds : accounts[a] = Unopened}
  IN /\ m.step = "minting" /\ Stands(m) /\ fresh # {}
     /\ "minting" \in Beside \/ ~BeingDeleted(m.business, m.parent)
     /\ \E w \in WithRoom(m.business, m.parent) :
          number \in WidthNumbers(w) \ Taken(m.business, m.parent)
     /\ accounts' = [accounts EXCEPT ![Min(fresh)] =
          [state |-> "open", business |-> m.business, parent |-> m.parent, number |-> number]]
     /\ clerks' = [clerks EXCEPT ![k] = Free]
     /\ UNCHANGED <<codes, claims, numberHistory, worn>>

\* The business or the account is gone, or no number is left.
MintRefused(k) ==
  /\ clerks[k].step = "minting"
  /\ Stands(clerks[k]) => WithRoom(clerks[k].business, clerks[k].parent) = {}
  /\ clerks' = [clerks EXCEPT ![k] = Free]
  /\ UNCHANGED <<codes, accounts, claims, numberHistory, worn>>

BeginDelete(k, a) ==
  /\ clerks[k] = Free /\ a \in Opened
  /\ clerks' = [clerks EXCEPT ![k] = [step |-> "reading", account |-> a]]
  /\ UNCHANGED <<codes, accounts, claims, numberHistory, worn>>

\* The sub-accounts, FOR UPDATE: who deletes one of them, or the same account,
\* waits.
Locked == UNION {clerks[k].children : k \in {x \in Clerks : clerks[x].step = "deleting"}}

ReadChildren(k) ==
  LET a == clerks[k].account
  IN /\ clerks[k].step = "reading"
     /\ Under(a) \cap Locked = {} /\ a \notin Locked
     /\ clerks' = [clerks EXCEPT ![k] =
          [step |-> "deleting", account |-> a, children |-> Under(a)]]
     /\ UNCHANGED <<codes, accounts, claims, numberHistory, worn>>

RememberedAlone(k) == {clerks[k].account}

\* recordAndDelete, of the children that were read and of the account; what
\* else is under it goes with it.
Remembered(k) == clerks[k].children \cup {clerks[k].account}

DeleteAccount(k) ==
  LET a == clerks[k].account
      going == (Remembered(k) \cup Under(a)) \cap Opened
  IN /\ clerks[k].step = "deleting"
     /\ numberHistory' = numberHistory \cup Remembered(k)
     /\ Gone(going)
     /\ claims' = Orphaned(going)
     /\ clerks' = [clerks EXCEPT ![k] = Free]
     /\ UNCHANGED codes
-----------------------------------------------------------------------------
AccountsNext ==
  \/ \E a \in AccountIds, t \in Words : ClaimName(a, t)
  \/ \E a \in AccountIds : ReleaseName(a)
  \/ \E t \in Words \cup Leads, kind \in {"alias", "prefix"}, b \in Businesses \cup {Nobody} :
       AddClaim(t, kind, b)
  \/ \E c \in claims : DropClaim(c)
  \/ YearPasses
  \/ \E b \in Businesses, code \in Codes : AddBusiness(b, code)
  \/ \E k \in Clerks :
       \/ \E b \in Businesses : BeginDeleteBusiness(k, b)
       \/ DeleteBusiness(k)
       \/ \E b \in Businesses, p \in AccountIds \cup {Nobody} : BeginMint(k, b, p)
       \/ \E w \in FirstWidth..MaxDigits : \E n \in WidthNumbers(w) : Mint(k, n)
       \/ MintRefused(k)
       \/ \E a \in AccountIds : BeginDelete(k, a)
       \/ ReadChildren(k)
       \/ DeleteAccount(k)

AccountsSpec == AccountsInit /\ [][AccountsNext]_accountsVars
-----------------------------------------------------------------------------
\* Nothing a payer is told to type is read as another's: the number and the
\* name of every account file a payment under that account, however many
\* businesses there are and whatever was opened, closed or claimed meanwhile.
AddressReaches ==
  \A a \in Opened :
    LET here == [business |-> accounts[a].business, account |-> a]
    IN /\ Len(FullNumber(a)) <= MaxDigits /\ FiledUnder(FullNumber(a)) = here
       /\ \A c \in Live : c.kind = "name" /\ c.account = a => FiledUnder(c.token) = here

\* What starts with an app's prefix or a business's code is that app's or
\* that business's: no claim and no code is the start of another.
WordsApart ==
  /\ \A c, d \in Live : c.kind = "prefix" /\ c # d => ~IsPrefix(c.token, d.token)
  /\ \A b \in Registered, c \in Live :
       /\ ~IsPrefix(codes[b], c.token)
       /\ c.kind = "prefix" => ~IsPrefix(c.token, codes[b])

\* A released name names nobody else for a year, so that a payer who still
\* types it does not pay a stranger, even when its account is deleted.
NameHeldBack ==
  [][\A c \in claims' \ claims :
       c.live /\ c.kind = "name" =>
         \A w \in worn : w[1] = c.token => w[2] = c.account]_accountsVars

\* Who had a number is not lost when it goes back to the pool, in whatever
\* order accounts are opened and deleted.
HolderRemembered ==
  \A a \in AccountIds : accounts[a] = Deleted => a \in numberHistory
=============================================================================
