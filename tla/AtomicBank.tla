------------------------------ MODULE AtomicBank ------------------------------
(***************************************************************************)
(* What Hercules Bank promises, with no journal, process or file in it: an *)
(* account opens once; a transaction happens at once, at most once for its *)
(* idempotency key, and overdraws no customer; a transaction is reversed   *)
(* at most once and a reversal never; nothing that happened is undone.     *)
(***************************************************************************)
EXTENDS Integers

CONSTANTS Customers, Cash, Keys, Amounts, NoRef

VARIABLES open,     \* the customer accounts
          balance,  \* of every account, on its normal side
          posted    \* the transactions that happened

vars == <<open, balance, posted>>

Init ==
  /\ open = {}
  /\ balance = [a \in Customers \cup {Cash} |-> 0]
  /\ posted = {}

Open(a) ==
  /\ a \notin open
  /\ open' = open \cup {a}
  /\ UNCHANGED <<balance, posted>>

\* t moves t.amount from the account it debits to the account it credits; the
\* cash account is the bank's own asset and grows by its debits.
Happens(t) ==
  /\ \A u \in posted : u.key # t.key
  /\ {t.debit, t.credit} \subseteq open \cup {Cash}
  /\ posted' = posted \cup {t}
  /\ balance' = [a \in Customers \cup {Cash} |->
       LET in == IF t.credit = a THEN t.amount ELSE 0
           out == IF t.debit = a THEN t.amount ELSE 0
       IN  balance[a] + (IF a = Cash THEN out - in ELSE in - out)]
  /\ \A a \in Customers : balance'[a] >= 0
  /\ UNCHANGED open

Transact(t) ==
  /\ t.ref = NoRef
  /\ t.credit \in Customers /\ t.debit # t.credit
  /\ Happens(t)

Reverse(t) ==
  /\ \A u \in posted : u.ref # t.ref
  /\ \E u \in posted :
       /\ u.key = t.ref /\ u.ref = NoRef
       /\ t.debit = u.credit /\ t.credit = u.debit /\ t.amount = u.amount
  /\ Happens(t)

Transactions ==
  [key : Keys, ref : Keys \cup {NoRef}, amount : Amounts,
   debit : Customers \cup {Cash}, credit : Customers \cup {Cash}]

Next ==
  \/ \E a \in Customers : Open(a)
  \/ \E t \in (posted' \ posted) \cap Transactions : Transact(t) \/ Reverse(t)

Spec == Init /\ [][Next]_vars
=============================================================================
