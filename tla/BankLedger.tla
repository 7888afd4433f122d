------------------------------ MODULE BankLedger ------------------------------
(***************************************************************************)
(* The operations of the double-entry ledger (hercules-bank/ledger.mjs) as *)
(* the sandbox calls them (hercules-bank/service.mjs), and the replay that *)
(* restores a ledger from its snapshot (hercules-bank/store.mjs).          *)
(*                                                                         *)
(* A ledger value is a set of customer accounts and a journal.  A          *)
(* transaction of the sandbox always has one debit and one credit of the   *)
(* same amount.  The hash of a transaction is abstracted to its key, which *)
(* is unique in a journal; the sequence number is its position.  ref is    *)
(* the key of the transaction a reversal reverses.                         *)
(***************************************************************************)
EXTENDS Integers, Sequences

CONSTANTS
  Customers,  \* ids of customer accounts: CREDIT-normal, never negative
  Cash,       \* system:sandbox-cash: DEBIT-normal, may be negative
  Keys,       \* idempotency keys
  Amounts,    \* amounts in minor units
  NoRef,      \* not a reversal
  MaxSafe     \* Number.MAX_SAFE_INTEGER

ASSUME BankAssumption ==
  /\ Cash \notin Customers
  /\ NoRef \notin Keys
  /\ MaxSafe \in Nat
  /\ Amounts \subseteq 1..MaxSafe

Accounts == Customers \cup {Cash}

Tx(key, ref, debit, credit, amount) ==
  [key |-> key, ref |-> ref, debit |-> debit, credit |-> credit, amount |-> amount]

Transactions ==
  [key : Keys, ref : Keys \cup {NoRef}, amount : Amounts,
   debit : Accounts, credit : Accounts]

Operations ==
  [kind : {"open"}, account : Customers]
  \cup [kind : {"fund"}, key : Keys, to : Customers, amount : Amounts]
  \cup [kind : {"transfer"}, key : Keys, from : Customers, to : Customers, amount : Amounts]
  \cup [kind : {"reverse"}, key : Keys, of : Keys]

Banks == [accounts : SUBSET Customers, journal : Seq(Transactions)]

EmptyBank == [accounts |-> {}, journal |-> << >>]

Entries(j) == {j[i] : i \in 1..Len(j)}

\* What t adds to the balance of a, on the account's normal side.
Delta(t, a) ==
  LET in == IF t.credit = a THEN t.amount ELSE 0
      out == IF t.debit = a THEN t.amount ELSE 0
  IN  IF a = Cash THEN out - in ELSE in - out

\* balance(): the sum over the journal, in its order.
Balance(j, a) ==
  LET sum[n \in 0..Len(j)] == IF n = 0 THEN 0 ELSE sum[n - 1] + Delta(j[n], a)
  IN  sum[Len(j)]

\* A bug the properties catch: balances are not kept in the safe range.
CoveredUnbounded(j, t) ==
  \A a \in {t.debit, t.credit} :
    a = Cash \/ Balance(j, a) + Delta(t, a) >= 0

\* post() after the idempotency check: no account leaves the safe integers, and
\* no customer account becomes negative.
Covered(j, t) ==
  \A a \in {t.debit, t.credit} :
    LET next == Balance(j, a) + Delta(t, a)
    IN  next \in (IF a = Cash THEN -MaxSafe ELSE 0)..MaxSafe

Used(j, key) == \E t \in Entries(j) : t.key = key

Posted(b, t) == [b EXCEPT !.journal = Append(b.journal, t)]

\* A bug the properties catch: the balances are checked before the key.
PostCoveredFirst(b, t) ==
  IF ~Covered(b.journal, t) THEN {}
  ELSE IF Used(b.journal, t.key) THEN {x \in {b} : t \in Entries(b.journal)}
       ELSE {Posted(b, t)}

\* A bug the properties catch: no check of the balances.
PostUncovered(b, t) ==
  IF Used(b.journal, t.key) THEN {x \in {b} : t \in Entries(b.journal)} ELSE {Posted(b, t)}

\* post(): the ledgers it may lead to, none when it throws.  A key that was used
\* returns the earlier transaction when the economics are the same.
Post(b, t) ==
  IF Used(b.journal, t.key)
  THEN {x \in {b} : t \in Entries(b.journal)}
  ELSE {x \in {Posted(b, t)} : Covered(b.journal, t)}

\* A bug the properties catch: a transaction may be reversed under many keys.
ReversalAgain(b, op) ==
  {Tx(op.key, u.key, u.credit, u.debit, u.amount) :
     u \in {v \in Entries(b.journal) : v.key = op.of /\ v.ref = NoRef}}

\* reverseTransaction(): the transaction to post, none when it throws: the
\* original is unknown, is a reversal, or was reversed under another key.
Reversal(b, op) ==
  {Tx(op.key, u.key, u.credit, u.debit, u.amount) :
     u \in {v \in Entries(b.journal) :
              /\ v.key = op.of /\ v.ref = NoRef
              /\ \A w \in Entries(b.journal) : w.ref = v.key => w.key = op.key}}

\* The transaction an operation asks the ledger to post, none when it throws.
Asked(b, op) ==
  CASE op.kind = "fund" ->
         {Tx(op.key, NoRef, Cash, a, op.amount) : a \in {op.to} \cap b.accounts}
    [] op.kind = "transfer" ->
         {Tx(op.key, NoRef, a, op.to, op.amount) :
            a \in {x \in {op.from} \cap b.accounts : op.to \in b.accounts \ {x}}}
    [] op.kind = "reverse" -> Reversal(b, op)

\* The ledgers an operation of the sandbox may lead to: none when it throws.
Outcome(b, op) ==
  IF op.kind = "open"
  THEN {[b EXCEPT !.accounts = b.accounts \cup {a}] : a \in {op.account} \ b.accounts}
  ELSE UNION {Post(b, t) : t \in Asked(b, op)}

\* restoreLedgerFromSnapshot(): every transaction is posted again in order, with
\* all accounts open, and must come out as the same new transaction.
Restorable(b) ==
  \A i \in 1..Len(b.journal) :
    LET t == b.journal[i]
        before == SubSeq(b.journal, 1, i - 1)
    IN  /\ {t.debit, t.credit} \subseteq b.accounts \cup {Cash}
        /\ ~Used(before, t.key)
        /\ Covered(before, t)
=============================================================================
