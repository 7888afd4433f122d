-------------------------- MODULE BankRuntime_proofs --------------------------
(***************************************************************************)
(* Durability of the bank, its money, and that it implements AtomicBank,   *)
(* for every set of customers, keys and amounts and every length of the    *)
(* promise chain.                                                          *)
(*                                                                         *)
(* The durability part never expands Covered: it holds whatever post()     *)
(* checks of the balances, only that replay repeats the check matters.     *)
(***************************************************************************)
EXTENDS BankRuntime, SequenceTheorems, WellFoundedInduction, TLAPS

-----------------------------------------------------------------------------
(***************************************************************************)
(* Balances.  A balance is a recursive function along the journal: it is   *)
(* shown to exist and to be the only one by its least counterexample, and  *)
(* to grow by Delta with each transaction that is appended.                *)
(***************************************************************************)

\* Induction on natural numbers: a set that is not empty has a least element.
LEMMA LeastNat ==
  ASSUME NEW S \in SUBSET Nat, S # {}
  PROVE  \E n \in S : \A m \in S : n <= m
<1>1. \E n \in S : \A m \in S : ~(<<m, n>> \in OpToRel(<, Nat))
  BY NatLessThanWellFounded, WFMin
<1>2. ASSUME NEW n \in S, NEW m \in S, ~(<<m, n>> \in OpToRel(<, Nat))
      PROVE  n <= m
  BY <1>2 DEF OpToRel
<1> QED
  BY <1>1, <1>2

\* The recursion of Balance, and the functions that solve it up to n.
BalanceStep(g, j, a, m) == IF m = 0 THEN 0 ELSE g[m - 1] + Delta(j[m], a)
Sums(g, j, a, n) == g = [m \in 0..n |-> BalanceStep(g, j, a, m)]

\* Two solutions agree as far as their journals do.
LEMMA SumsAgree ==
  ASSUME NEW j, NEW k, NEW a, NEW m \in Nat, NEW l \in Nat, NEW n \in Nat,
         n <= m, n <= l, \A i \in 1..n : j[i] = k[i],
         NEW g, NEW h, Sums(g, j, a, m), Sums(h, k, a, l)
  PROVE  g[n] = h[n]
<1> DEFINE C == {i \in 0..n : g[i] # h[i]}
<1>0. \A i \in 0..n : g[i] = BalanceStep(g, j, a, i) /\ h[i] = BalanceStep(h, k, a, i)
  <2>1. \A i \in 0..n : i \in 0..m /\ i \in 0..l
    OBVIOUS
  <2>2. \A i \in 0..m : g[i] = BalanceStep(g, j, a, i)
    BY Zenon DEF Sums
  <2>3. \A i \in 0..l : h[i] = BalanceStep(h, k, a, i)
    BY Zenon DEF Sums
  <2> QED
    BY <2>1, <2>2, <2>3
<1> SUFFICES ASSUME C # {} PROVE FALSE
  OBVIOUS
<1>1. PICK i \in C : \A x \in C : i <= x
  <2>1. C \in SUBSET Nat
    OBVIOUS
  <2> HIDE DEF C
  <2> QED
    BY <2>1, LeastNat
<1>2. i # 0
  BY <1>0, <1>1 DEF BalanceStep
<1>3. i - 1 \in 0..n /\ i - 1 \notin C
  BY <1>1, <1>2
<1>4. g[i - 1] = h[i - 1] /\ j[i] = k[i]
  BY <1>1, <1>2, <1>3
<1> QED
  BY <1>0, <1>1, <1>2, <1>4 DEF BalanceStep

LEMMA SumsExist ==
  ASSUME NEW j, NEW a
  PROVE  \A n \in Nat : \E g : Sums(g, j, a, n)
<1> DEFINE Bad == {n \in Nat : ~ \E g : Sums(g, j, a, n)}
<1> SUFFICES ASSUME Bad # {} PROVE FALSE
  OBVIOUS
<1>1. PICK n \in Bad : \A m \in Bad : n <= m
  BY LeastNat
<1>2. CASE n = 0
  <2> DEFINE g == [m \in 0..0 |-> 0]
  <2>1. g = [m \in 0..0 |-> BalanceStep(g, j, a, m)]
    BY DEF BalanceStep
  <2> HIDE DEF g
  <2> QED
    BY <1>1, <1>2, <2>1 DEF Sums
<1>3. CASE n # 0
  <2>1. n - 1 \in Nat /\ n - 1 \notin Bad
    BY <1>1, <1>3
  <2>2. PICK g : Sums(g, j, a, n - 1)
    BY <2>1
  <2> DEFINE h == [m \in 0..n |-> BalanceStep(g, j, a, m)]
  <2>3. \A m \in 0..(n - 1) : h[m] = g[m]
    BY <1>1, <2>2 DEF Sums
  <2>4. h = [m \in 0..n |-> BalanceStep(g, j, a, m)]
    OBVIOUS
  <2> HIDE DEF h
  <2>5. \A m \in 0..n : BalanceStep(h, j, a, m) = BalanceStep(g, j, a, m)
    BY <1>1, <2>3 DEF BalanceStep
  <2>6. h = [m \in 0..n |-> BalanceStep(h, j, a, m)]
    BY <2>4, <2>5
  <2> QED
    BY <1>1, <2>6 DEF Sums
<1> QED
  BY <1>2, <1>3

LEMMA BalanceIs ==
  ASSUME NEW j, NEW a, Len(j) \in Nat
  PROVE  \E g : Sums(g, j, a, Len(j)) /\ Balance(j, a) = g[Len(j)]
<1>1. Balance(j, a) = (CHOOSE g : Sums(g, j, a, Len(j)))[Len(j)]
  BY DEF Balance, Sums, BalanceStep
<1>2. Sums(CHOOSE g : Sums(g, j, a, Len(j)), j, a, Len(j))
  BY SumsExist
<1> QED
  BY <1>1, <1>2

\* A new ledger holds no money.
LEMMA BalanceOfNone == ASSUME NEW a PROVE Balance(<< >>, a) = 0
<1>1. Len(<< >>) = 0
  OBVIOUS
<1>2. PICK g : Sums(g, << >>, a, 0) /\ Balance(<< >>, a) = g[0]
  BY <1>1, BalanceIs
<1> QED
  BY <1>2 DEF Sums, BalanceStep

\* post() checks the balance that the ledger then has.
LEMMA BalanceOfAppended ==
  ASSUME NEW j \in Seq(Transactions), NEW t \in Transactions, NEW a
  PROVE  Balance(Append(j, t), a) = Balance(j, a) + Delta(t, a)
<1> DEFINE k == Append(j, t)
<1>1. /\ k \in Seq(Transactions) /\ Len(j) \in Nat /\ Len(k) = Len(j) + 1
      /\ k[Len(j) + 1] = t /\ \A i \in 1..Len(j) : j[i] = k[i]
  BY AppendProperties
<1> HIDE DEF k
<1>2. PICK g : Sums(g, j, a, Len(j)) /\ Balance(j, a) = g[Len(j)]
  BY <1>1, BalanceIs
<1>3. PICK h : Sums(h, k, a, Len(k)) /\ Balance(k, a) = h[Len(k)]
  BY <1>1, BalanceIs
<1>4. PICK n \in Nat : n = Len(j)
  BY <1>1
<1>5. g[n] = h[n]
  <2>1. Sums(g, j, a, n) /\ Sums(h, k, a, n + 1)
    BY <1>1, <1>2, <1>3, <1>4
  <2>2. n + 1 \in Nat /\ n <= n + 1 /\ \A i \in 1..n : j[i] = k[i]
    BY <1>1, <1>4
  <2> QED
    BY <2>1, <2>2, SumsAgree
<1>6. h[n + 1] = BalanceStep(h, k, a, n + 1)
  BY <1>1, <1>3, <1>4 DEF Sums
<1>7. h[n + 1] = h[n] + Delta(t, a)
  BY <1>1, <1>4, <1>6 DEF BalanceStep
<1> QED
  BY <1>1, <1>2, <1>3, <1>4, <1>5, <1>7 DEF k

LEMMA DeltaTyped == ASSUME NEW t \in Transactions, NEW a PROVE Delta(t, a) \in Int
<1>1. t.amount \in Int
  <2>1. t.amount \in Amounts
    BY DEF Transactions
  <2>2. t.amount \in 1..MaxSafe
    BY <2>1, BankAssumption, Zenon
  <2> QED
    BY <2>2, BankAssumption
<1> QED
  BY <1>1 DEF Delta

-----------------------------------------------------------------------------
(* What the operations of the ledger do to a ledger.                       *)

LEMMA TxTyped ==
  ASSUME NEW b \in Banks, NEW op \in Operations, op.kind # "open", NEW t \in Asked(b, op)
  PROVE  t \in Transactions
<1>1. \A u \in Entries(b.journal) : u \in Transactions
  BY DEF Entries, Banks
<1>2. CASE op.kind = "fund"
  BY <1>2, BankAssumption DEF Asked, Tx, Transactions, Operations, Accounts, Banks
<1>3. CASE op.kind = "transfer"
  BY <1>3, BankAssumption DEF Asked, Tx, Transactions, Operations, Accounts, Banks
<1>4. CASE op.kind = "reverse"
  BY <1>4, <1>1 DEF Asked, Reversal, Tx, Transactions, Operations
<1> QED
  BY <1>2, <1>3, <1>4 DEF Operations

LEMMA PostedTyped ==
  ASSUME NEW b \in Banks, NEW t \in Transactions
  PROVE  /\ Posted(b, t) \in Banks
         /\ Posted(b, t).accounts = b.accounts
         /\ Posted(b, t).journal = Append(b.journal, t)
         /\ Entries(Posted(b, t).journal) = Entries(b.journal) \cup {t}
<1>1. /\ Posted(b, t) \in Banks
      /\ Posted(b, t).accounts = b.accounts
      /\ Posted(b, t).journal = Append(b.journal, t)
  BY DEF Posted, Banks
<1>2. Entries(Append(b.journal, t)) = Entries(b.journal) \cup {t}
  <2> DEFINE j == b.journal
             k == Append(j, t)
  <2>1. /\ j \in Seq(Transactions) /\ Len(j) \in Nat
        /\ Len(k) = Len(j) + 1 /\ k[Len(j) + 1] = t
        /\ \A i \in 1..Len(j) : k[i] = j[i]
    BY AppendProperties DEF Banks
  <2> HIDE DEF j, k
  <2>2. {k[i] : i \in 1..Len(k)} = {j[i] : i \in 1..Len(j)} \cup {t}
    BY <2>1
  <2> QED
    BY <2>2 DEF Entries, j, k
<1> QED
  BY <1>1, <1>2

\* An operation that succeeds left the ledger as it is, opened the account or
\* posted one transaction it asked for, under a fresh key.
LEMMA OutcomeCases ==
  ASSUME NEW b \in Banks, NEW op \in Operations, NEW c \in Outcome(b, op)
  PROVE  \/ /\ op.kind = "open"
            /\ op.account \in Customers \ b.accounts
            /\ c = [b EXCEPT !.accounts = b.accounts \cup {op.account}]
         \/ /\ op.kind # "open"
            /\ c = b
            /\ \E t \in Asked(b, op) : t \in Entries(b.journal)
         \/ /\ op.kind # "open"
            /\ \E t \in Asked(b, op) :
                 ~Used(b.journal, t.key) /\ Covered(b.journal, t) /\ c = Posted(b, t)
<1>1. CASE op.kind = "open"
  BY <1>1 DEF Outcome, Operations
<1>2. CASE op.kind # "open"
  <2>1. PICK t \in Asked(b, op) : c \in Post(b, t)
    BY <1>2 DEF Outcome
  <2>2. CASE Used(b.journal, t.key)
    BY <1>2, <2>1, <2>2 DEF Post
  <2>3. CASE ~Used(b.journal, t.key)
    BY <1>2, <2>1, <2>3 DEF Post
  <2> QED
    BY <2>2, <2>3
<1> QED
  BY <1>1, <1>2

\* The ledger c is b or grew out of it.
Grew(b, c) ==
  /\ b.accounts \subseteq c.accounts
  /\ b.journal = SubSeq(c.journal, 1, Len(b.journal))

LEMMA OutcomeTyped ==
  ASSUME NEW b \in Banks, NEW op \in Operations, NEW c \in Outcome(b, op)
  PROVE  /\ c \in Banks
         /\ Entries(b.journal) \subseteq Entries(c.journal)
         /\ b.accounts \subseteq c.accounts
<1>1. CASE op.kind = "open"
  BY <1>1, OutcomeCases DEF Banks
<1>2. CASE op.kind # "open" /\ c = b
  BY <1>2
<1>3. CASE op.kind # "open" /\ \E t \in Asked(b, op) : c = Posted(b, t)
  <2>1. PICK t \in Asked(b, op) : c = Posted(b, t)
    BY <1>3
  <2>2. t \in Transactions
    BY <1>3, TxTyped
  <2> QED
    BY <2>1, <2>2, PostedTyped
<1> QED
  BY <1>1, <1>2, <1>3, OutcomeCases

LEMMA OutcomeGrows ==
  ASSUME NEW b \in Banks, NEW op \in Operations, NEW c \in Outcome(b, op)
  PROVE  Grew(b, c)
<1>0. /\ b.journal \in Seq(Transactions)
      /\ SubSeq(b.journal, 1, Len(b.journal)) = b.journal
  BY SubSeqFull DEF Banks
<1>1. CASE op.kind = "open"
  BY <1>0, <1>1, OutcomeCases DEF Grew, Banks
<1>2. CASE op.kind # "open" /\ c = b
  BY <1>0, <1>2 DEF Grew
<1>3. CASE op.kind # "open" /\ \E t \in Asked(b, op) : c = Posted(b, t)
  <2>1. PICK t \in Asked(b, op) : c = Posted(b, t)
    BY <1>3
  <2>2. t \in Transactions
    BY <1>3, TxTyped
  <2>3. c.accounts = b.accounts /\ c.journal = Append(b.journal, t)
    BY <2>1, <2>2, PostedTyped
  <2>4. SubSeq(Append(b.journal, t), 1, Len(b.journal)) = b.journal
    <3> DEFINE j == b.journal
    <3>1. j \in Seq(Transactions)
      BY <1>0
    <3> HIDE DEF j
    <3>2. /\ Append(j, t) \in Seq(Transactions) /\ Len(j) \in Nat
          /\ Len(Append(j, t)) = Len(j) + 1
          /\ \A i \in 1..Len(j) : Append(j, t)[i] = j[i]
      BY <3>1, <2>2, AppendProperties
    <3> DEFINE s == SubSeq(Append(j, t), 1, Len(j))
    <3>3. /\ s \in Seq(Transactions)
          /\ Len(s) = Len(j)
          /\ \A i \in 1..Len(j) : s[i] = j[i]
      BY <3>2
    <3> HIDE DEF s
    <3>4. s = j
      BY <3>1, <3>3, SeqEqual
    <3> QED
      BY <3>4 DEF s, j
  <2> QED
    BY <2>3, <2>4 DEF Grew
<1> QED
  BY <1>1, <1>2, <1>3, OutcomeCases

\* The transaction an operation asks for is asked for again after it is posted.
LEMMA AskedAgain ==
  ASSUME NEW b \in Banks, NEW op \in Operations, op.kind # "open",
         NEW t \in Asked(b, op)
  PROVE  t \in Asked(Posted(b, t), op)
<1>1. t \in Transactions
  BY TxTyped
<1>2. /\ Posted(b, t).accounts = b.accounts
      /\ Entries(Posted(b, t).journal) = Entries(b.journal) \cup {t}
  BY <1>1, PostedTyped
<1>3. CASE op.kind = "fund"
  BY <1>2, <1>3 DEF Asked
<1>4. CASE op.kind = "transfer"
  BY <1>2, <1>4 DEF Asked
<1>5. CASE op.kind = "reverse"
  <2>1. t \in Reversal(b, op)
    BY <1>5 DEF Asked
  <2>2. t.key = op.key
    BY <2>1 DEF Reversal, Tx
  <2>3. t \in Reversal(Posted(b, t), op)
    BY <2>1, <2>2, <1>2 DEF Reversal
  <2> QED
    BY <2>3, <1>5 DEF Asked
<1> QED
  BY <1>3, <1>4, <1>5 DEF Operations

LEMMA OutcomeApplied ==
  ASSUME NEW b \in Banks, NEW op \in Operations, NEW c \in Outcome(b, op)
  PROVE  Applied(c, op)
<1>1. CASE op.kind = "open"
  BY <1>1, OutcomeCases DEF Applied, Banks
<1>2. CASE op.kind # "open" /\ c = b /\ \E t \in Asked(b, op) : t \in Entries(b.journal)
  BY <1>2 DEF Applied
<1>3. CASE op.kind # "open" /\ \E t \in Asked(b, op) : c = Posted(b, t)
  <2>1. PICK t \in Asked(b, op) : c = Posted(b, t)
    BY <1>3
  <2>2. t \in Transactions
    BY <1>3, TxTyped
  <2>3. t \in Asked(c, op) /\ t \in Entries(c.journal)
    BY <1>3, <2>1, <2>2, AskedAgain, PostedTyped
  <2> QED
    BY <1>3, <2>3 DEF Applied
<1> QED
  BY <1>1, <1>2, <1>3, OutcomeCases

\* No later operation undoes the effect of an earlier one: in particular, once a
\* transaction was reversed under one key no other key can reverse it.
LEMMA AppliedStays ==
  ASSUME NEW b \in Banks, NEW op \in Operations, Applied(b, op),
         NEW next \in Operations, NEW c \in Outcome(b, next)
  PROVE  Applied(c, op)
<1>1. /\ Entries(b.journal) \subseteq Entries(c.journal)
      /\ b.accounts \subseteq c.accounts
  BY OutcomeTyped
<1>2. CASE op.kind = "open"
  BY <1>1, <1>2 DEF Applied
<1>3. CASE op.kind # "open"
  <2>1. PICK t \in Asked(b, op) : t \in Entries(b.journal)
    BY <1>3 DEF Applied
  <2>2. t \in Entries(c.journal)
    BY <1>1, <2>1
  <2>3. CASE op.kind = "fund"
    BY <1>1, <1>3, <2>1, <2>2, <2>3 DEF Applied, Asked
  <2>4. CASE op.kind = "transfer"
    BY <1>1, <1>3, <2>1, <2>2, <2>4 DEF Applied, Asked
  <2>5. CASE op.kind = "reverse"
    <3>1. PICK u \in Entries(b.journal) :
            /\ u.key = op.of /\ u.ref = NoRef
            /\ \A w \in Entries(b.journal) : w.ref = u.key => w.key = op.key
            /\ t = Tx(op.key, u.key, u.credit, u.debit, u.amount)
      BY <2>1, <2>5 DEF Asked, Reversal
    <3>2. t.ref = u.key /\ t.key = op.key
      BY <3>1 DEF Tx
    <3>3. \A w \in Entries(c.journal) : w.ref = u.key => w.key = op.key
      <4>1. CASE Entries(c.journal) = Entries(b.journal)
        BY <3>1, <4>1
      <4>2. CASE next.kind # "open" /\ \E x \in Asked(b, next) : c = Posted(b, x)
        <5>1. PICK x \in Asked(b, next) : c = Posted(b, x)
          BY <4>2
        <5>2. Entries(c.journal) = Entries(b.journal) \cup {x}
          BY <4>2, <5>1, TxTyped, PostedTyped
        <5>3. x.ref = u.key => x.key = op.key
          <6>1. CASE next.kind = "reverse"
            BY <2>1, <3>2, <5>1, <6>1 DEF Asked, Reversal, Tx
          <6>2. CASE next.kind \in {"fund", "transfer"}
            <7>1. x.ref = NoRef
              BY <5>1, <6>2 DEF Asked, Tx
            <7>2. u.key \in Keys
              <8>1. u \in Transactions
                BY <3>1 DEF Entries, Banks
              <8> QED
                BY <8>1 DEF Transactions
            <7> QED
              BY <7>1, <7>2, BankAssumption
          <6> QED
            BY <4>2, <6>1, <6>2 DEF Operations
        <5> QED
          BY <3>1, <5>2, <5>3
      <4>3. CASE next.kind = "open"
        BY <4>1, <4>3, OutcomeCases DEF Banks
      <4> QED
        BY <4>1, <4>2, <4>3, OutcomeCases
    <3>4. t \in Reversal(c, op)
      BY <1>1, <3>1, <3>3 DEF Reversal
    <3> QED
      BY <1>3, <2>2, <2>5, <3>4 DEF Applied, Asked
  <2> QED
    BY <1>3, <2>3, <2>4, <2>5 DEF Operations
<1> QED
  BY <1>2, <1>3

\* Verification accepts each ledger an operation leads to: replay meets the
\* transactions in the order in which post() accepted them, and no account closes.
LEMMA OutcomeRestorable ==
  ASSUME NEW b \in Banks, Restorable(b), NEW op \in Operations, NEW c \in Outcome(b, op)
  PROVE  Restorable(c)
<1>1. CASE op.kind = "open"
  <2>1. c.journal = b.journal /\ b.accounts \subseteq c.accounts
    BY <1>1, OutcomeCases DEF Banks
  <2> QED
    BY <2>1 DEF Restorable
<1>2. CASE op.kind # "open" /\ c = b
  BY <1>2
<1>3. ASSUME op.kind # "open", NEW t \in Asked(b, op),
             ~Used(b.journal, t.key), Covered(b.journal, t), c = Posted(b, t)
      PROVE  Restorable(c)
  <2> DEFINE j == b.journal
             k == c.journal
  <2>1. t \in Transactions
    BY <1>3, TxTyped
  <2>2. c.accounts = b.accounts /\ k = Append(j, t) /\ j \in Seq(Transactions)
    BY <1>3, <2>1, PostedTyped DEF Banks
  <2>3. /\ Len(j) \in Nat /\ Len(k) = Len(j) + 1 /\ k[Len(j) + 1] = t
        /\ \A i \in 1..Len(j) : k[i] = j[i]
    BY <2>1, <2>2, AppendProperties
  <2>4. \A i \in 1..Len(k) : SubSeq(k, 1, i - 1) = SubSeq(j, 1, i - 1)
    <3> SUFFICES ASSUME NEW i \in 1..Len(k)
                 PROVE  SubSeq(k, 1, i - 1) = SubSeq(j, 1, i - 1)
      OBVIOUS
    <3>1. k = j \o <<t>>
      BY <2>1, <2>2, AppendIsConcat
    <3>2. i - 1 \in 0..Len(j) /\ i - 1 <= Len(j)
      BY <2>3
    <3>3. /\ SubSeq(k, 1, i - 1) \in Seq(Transactions)
          /\ Len(SubSeq(k, 1, i - 1)) = i - 1
          /\ \A n \in 1..(i - 1) : SubSeq(k, 1, i - 1)[n] = k[n]
      BY <2>1, <2>2, <2>3, <3>2
    <3>4. /\ SubSeq(j, 1, i - 1) \in Seq(Transactions)
          /\ Len(SubSeq(j, 1, i - 1)) = i - 1
          /\ \A n \in 1..(i - 1) : SubSeq(j, 1, i - 1)[n] = j[n]
      BY <2>2, <2>3, <3>2
    <3> DEFINE s == SubSeq(k, 1, i - 1)
               r == SubSeq(j, 1, i - 1)
    <3> HIDE DEF s, r, j, k
    <3>5. \A n \in 1..Len(s) : s[n] = r[n]
      BY <2>3, <3>2, <3>3, <3>4 DEF s, r
    <3>6. s = r
      BY <3>3, <3>4, <3>5, SeqEqual DEF s, r
    <3> QED
      BY <3>6 DEF s, r
  <2>5. SubSeq(j, 1, Len(j)) = j
    BY <2>2, SubSeqFull
  <2>6. {t.debit, t.credit} \subseteq b.accounts \cup {Cash}
    <3>1. \A u \in Entries(j) : {u.debit, u.credit} \subseteq b.accounts \cup {Cash}
      BY DEF Entries, Restorable
    <3>2. CASE op.kind = "fund"
      BY <1>3, <3>2 DEF Asked, Tx
    <3>3. CASE op.kind = "transfer"
      BY <1>3, <3>3 DEF Asked, Tx
    <3>4. CASE op.kind = "reverse"
      BY <1>3, <3>1, <3>4 DEF Asked, Reversal, Tx
    <3> QED
      BY <1>3, <3>2, <3>3, <3>4 DEF Operations
  <2> SUFFICES ASSUME NEW i \in 1..Len(k)
               PROVE  /\ {k[i].debit, k[i].credit} \subseteq c.accounts \cup {Cash}
                      /\ ~Used(SubSeq(k, 1, i - 1), k[i].key)
                      /\ Covered(SubSeq(k, 1, i - 1), k[i])
    BY DEF Restorable
  <2>7. CASE i = Len(j) + 1
    <3>1. SubSeq(k, 1, i - 1) = j /\ k[i] = t
      BY <2>3, <2>4, <2>5, <2>7
    <3> QED
      BY <1>3, <2>2, <2>6, <3>1
  <2>8. CASE i \in 1..Len(j)
    <3>1. SubSeq(k, 1, i - 1) = SubSeq(j, 1, i - 1) /\ k[i] = j[i]
      BY <2>3, <2>4, <2>8
    <3> QED
      BY <2>2, <2>8, <3>1 DEF Restorable
  <2> QED
    BY <2>3, <2>7, <2>8
<1> QED
  BY <1>1, <1>2, <1>3, OutcomeCases

LEMMA RestorableKeys ==
  ASSUME NEW b \in Banks, Restorable(b),
         NEW u \in Entries(b.journal), NEW v \in Entries(b.journal), u.key = v.key
  PROVE  u = v
<1> DEFINE j == b.journal
<1>1. j \in Seq(Transactions) /\ Len(j) \in Nat
  BY DEF Banks
<1>2. \A m, n \in 1..Len(j) : m < n => j[m].key # j[n].key
  <2> SUFFICES ASSUME NEW m \in 1..Len(j), NEW n \in 1..Len(j), m < n
               PROVE  j[m].key # j[n].key
    OBVIOUS
  <2> DEFINE s == SubSeq(j, 1, n - 1)
  <2>1. Len(s) = n - 1 /\ \A i \in 1..(n - 1) : s[i] = j[i]
    BY <1>1
  <2>2. ~Used(s, j[n].key)
    BY DEF Restorable
  <2> HIDE DEF s
  <2>3. s[m] = j[m] /\ m \in 1..Len(s)
    BY <1>1, <2>1
  <2> QED
    BY <2>2, <2>3 DEF Used, Entries
<1>3. PICK m \in 1..Len(j), n \in 1..Len(j) : u = j[m] /\ v = j[n]
  BY DEF Entries
<1> HIDE DEF j
<1> QED
  BY <1>1, <1>2, <1>3

LEMMA AppliedIsRepeatable ==
  ASSUME NEW b \in Banks, Restorable(b), NEW op \in Operations, op.kind # "open",
         Applied(b, op)
  PROVE  Outcome(b, op) = {b}
<1>1. PICK t \in Asked(b, op) : t \in Entries(b.journal)
  BY DEF Applied
<1>2. \A x \in Asked(b, op) : x = t
  <2>1. CASE op.kind = "fund"
    BY <1>1, <2>1 DEF Asked
  <2>2. CASE op.kind = "transfer"
    BY <1>1, <2>2 DEF Asked
  <2>3. CASE op.kind = "reverse"
    <3>1. \A u, v \in Entries(b.journal) : u.key = op.of /\ v.key = op.of => u = v
      BY RestorableKeys
    <3> QED
      BY <1>1, <2>3, <3>1 DEF Asked, Reversal
  <2> QED
    BY <2>1, <2>2, <2>3 DEF Operations
<1>3. Post(b, t) = {b}
  BY <1>1 DEF Post, Used
<1>4. Outcome(b, op) = UNION {Post(b, x) : x \in Asked(b, op)}
  BY DEF Outcome
<1> QED
  BY <1>1, <1>2, <1>3, <1>4

-----------------------------------------------------------------------------
(***************************************************************************)
(* The inductive invariant.  The state file and the ledger in memory are   *)
(* the same, except between the rename and the swap, when the file is the  *)
(* copy; and the copy is what the running operation made of the ledger in  *)
(* memory.  What was answered is in both.                                  *)
(***************************************************************************)
BankTyped ==
  /\ disk \in Banks \cup {Missing}
  /\ bank \in Banks \cup {Missing}
  /\ candidate \in Banks
  /\ tail \in Seq(Operations)
  /\ step \in {"idle", "saving", "renamed"}
  /\ acked \subseteq Operations

NoProcessNoWork == bank = Missing => tail = << >>

MemoryBehindDisk ==
  bank # Missing => disk = IF step = "renamed" THEN candidate ELSE bank

CopyIsOutcome ==
  step # "idle" =>
    bank # Missing /\ tail # << >> /\ candidate \in Outcome(bank, Head(tail))

AckedApplied ==
  \A op \in acked :
    /\ disk # Missing /\ Applied(disk, op)
    /\ bank # Missing => Applied(bank, op)

BankInv ==
  /\ BankTyped
  /\ NoProcessNoWork
  /\ MemoryBehindDisk
  /\ CopyIsOutcome
  /\ AckedApplied
  /\ AlwaysRestorable

LEMMA EmptyBankFine == EmptyBank \in Banks /\ Restorable(EmptyBank) /\ EmptyBank # Missing
<1>1. EmptyBank \in Banks
  BY DEF EmptyBank, Banks
<1>2. Restorable(EmptyBank)
  BY DEF EmptyBank, Restorable
<1> QED
  BY <1>1, <1>2, RuntimeAssumption

LEMMA BankInvInit == Init => BankInv
<1> SUFFICES ASSUME Init PROVE BankInv
  OBVIOUS
<1> QED
  BY EmptyBankFine DEF Init, BankInv, BankTyped, NoProcessNoWork, MemoryBehindDisk, CopyIsOutcome,
     AckedApplied, AlwaysRestorable

\* The copy, while an operation runs: it restores, and still holds what was
\* answered before and what the operation itself does.
LEMMA CopyFine ==
  ASSUME BankInv, step # "idle"
  PROVE  /\ bank \in Banks /\ Restorable(bank)
         /\ Head(tail) \in Operations /\ Tail(tail) \in Seq(Operations)
         /\ candidate \in Outcome(bank, Head(tail))
         /\ Restorable(candidate)
         /\ Grew(bank, candidate)
         /\ \A op \in acked \cup {Head(tail)} : Applied(candidate, op)
<1>1. /\ bank \in Banks /\ Restorable(bank)
      /\ Head(tail) \in Operations /\ Tail(tail) \in Seq(Operations)
      /\ candidate \in Outcome(bank, Head(tail))
  BY DEF BankInv, BankTyped, CopyIsOutcome, AlwaysRestorable
<1>2. Restorable(candidate) /\ Grew(bank, candidate) /\ Applied(candidate, Head(tail))
  BY <1>1, OutcomeRestorable, OutcomeGrows, OutcomeApplied
<1>3. \A op \in acked : Applied(candidate, op)
  <2> SUFFICES ASSUME NEW op \in acked PROVE Applied(candidate, op)
    OBVIOUS
  <2>1. op \in Operations /\ Applied(bank, op)
    BY <1>1, RuntimeAssumption DEF BankInv, BankTyped, AckedApplied
  <2> QED
    BY <1>1, <2>1, AppliedStays
<1> QED
  BY <1>1, <1>2, <1>3

LEMMA BankInvStep == BankInv /\ [Next]_vars => BankInv'
<1> SUFFICES ASSUME BankInv, [Next]_vars PROVE BankInv'
  OBVIOUS
<1> USE RuntimeAssumption
<1>1. CASE Open
  <2>1. /\ bank = Missing /\ bank' = disk' /\ step = "idle"
        /\ UNCHANGED <<tail, step, candidate, acked>>
        /\ disk' = IF disk = Missing THEN EmptyBank ELSE disk
    BY <1>1 DEF Open, BankInv, CopyIsOutcome
  <2>2. disk' \in Banks /\ Restorable(disk')
    <3>1. CASE disk = Missing
      BY <2>1, <3>1, EmptyBankFine
    <3>2. CASE disk # Missing
      BY <2>1, <3>2 DEF BankInv, BankTyped, AlwaysRestorable
    <3> QED
      BY <3>1, <3>2
  <2>3. BankTyped'
    BY <2>1, <2>2 DEF BankInv, BankTyped
  <2>4. NoProcessNoWork' /\ MemoryBehindDisk' /\ CopyIsOutcome'
    BY <2>1, <2>2 DEF NoProcessNoWork, MemoryBehindDisk, CopyIsOutcome
  <2>5. AckedApplied'
    BY <2>1, <2>2 DEF BankInv, AckedApplied
  <2>6. AlwaysRestorable'
    BY <2>1, <2>2 DEF BankInv, AlwaysRestorable
  <2> QED
    BY <2>3, <2>4, <2>5, <2>6 DEF BankInv
<1>2. ASSUME NEW op \in Operations, Submit(op) PROVE BankInv'
  <2>1. bank # Missing /\ tail' = Append(tail, op)
        /\ UNCHANGED <<disk, bank, step, candidate, acked>>
    BY <1>2 DEF Submit
  <2>2. tail \in Seq(Operations)
    BY DEF BankInv, BankTyped
  <2>3. BankTyped'
    BY <2>1, <2>2 DEF BankInv, BankTyped
  <2>4. CopyIsOutcome'
    <3>1. tail # << >> => tail' # << >> /\ Head(tail') = Head(tail)
      BY <2>1, <2>2, HeadTailAppend, AppendProperties
    <3> QED
      BY <2>1, <3>1 DEF BankInv, CopyIsOutcome
  <2>5. NoProcessNoWork' /\ MemoryBehindDisk' /\ AckedApplied' /\ AlwaysRestorable'
    BY <2>1 DEF BankInv, NoProcessNoWork, MemoryBehindDisk, AckedApplied, AlwaysRestorable
  <2> QED
    BY <2>3, <2>4, <2>5 DEF BankInv
<1>3. CASE Mutate
  <2>1. /\ tail # << >> /\ step = "idle" /\ step' = "saving" /\ Restorable(bank)
        /\ candidate' \in Outcome(bank, Head(tail))
        /\ UNCHANGED <<disk, bank, tail, acked>>
    BY <1>3 DEF Mutate
  <2>2. bank # Missing
    BY <1>3 DEF Mutate, BankInv, NoProcessNoWork
  <2>3. bank \in Banks /\ Head(tail) \in Operations
    BY <2>1, <2>2 DEF BankInv, BankTyped
  <2>4. candidate' \in Banks /\ Restorable(candidate')
    BY <2>1, <2>3, OutcomeTyped, OutcomeRestorable
  <2>5. BankTyped'
    BY <2>1, <2>4 DEF BankInv, BankTyped
  <2>6. NoProcessNoWork' /\ MemoryBehindDisk' /\ CopyIsOutcome' /\ AckedApplied'
    BY <2>1, <2>2 DEF BankInv, NoProcessNoWork, MemoryBehindDisk, CopyIsOutcome, AckedApplied
  <2>7. AlwaysRestorable'
    BY <2>1, <2>4 DEF BankInv, AlwaysRestorable
  <2> QED
    BY <2>5, <2>6, <2>7 DEF BankInv
<1>4. CASE Refuse
  <2>1. /\ tail # << >> /\ step = "idle" /\ step' = "idle" /\ tail' = Tail(tail)
        /\ candidate' = EmptyBank /\ UNCHANGED <<disk, bank, acked>>
    BY <1>4 DEF Refuse, Done
  <2>2. BankTyped'
    BY <2>1, EmptyBankFine DEF BankInv, BankTyped
  <2>3. NoProcessNoWork' /\ MemoryBehindDisk' /\ CopyIsOutcome' /\ AckedApplied'
    BY <2>1 DEF BankInv, NoProcessNoWork, MemoryBehindDisk, CopyIsOutcome, AckedApplied
  <2>4. AlwaysRestorable'
    BY <2>1, EmptyBankFine DEF BankInv, AlwaysRestorable
  <2> QED
    BY <2>2, <2>3, <2>4 DEF BankInv
<1>5. CASE Save
  <2>1. /\ step = "saving" /\ step' = "renamed" /\ disk' = candidate
        /\ UNCHANGED <<bank, tail, candidate, acked>>
    BY <1>5 DEF Save
  <2>2. BankTyped' /\ NoProcessNoWork' /\ MemoryBehindDisk' /\ CopyIsOutcome' /\ AlwaysRestorable'
    BY <2>1 DEF BankInv, BankTyped, NoProcessNoWork, MemoryBehindDisk, CopyIsOutcome, AlwaysRestorable
  <2>3. AckedApplied'
    <3>1. \A op \in acked : Applied(candidate, op)
      BY <2>1, CopyFine
    <3>2. candidate # Missing
      BY DEF BankInv, BankTyped
    <3> QED
      BY <2>1, <3>1, <3>2 DEF BankInv, AckedApplied
  <2> QED
    BY <2>2, <2>3 DEF BankInv
<1>6. CASE SaveFails
  <2>1. /\ step = "saving" /\ step' = "idle" /\ tail' = Tail(tail)
        /\ candidate' = EmptyBank /\ UNCHANGED <<disk, bank, acked>>
    BY <1>6 DEF SaveFails, Done
  <2>2. BankTyped'
    BY <2>1, EmptyBankFine, CopyFine DEF BankInv, BankTyped
  <2>3. NoProcessNoWork' /\ MemoryBehindDisk' /\ CopyIsOutcome' /\ AckedApplied'
    BY <2>1 DEF BankInv, NoProcessNoWork, MemoryBehindDisk, CopyIsOutcome, AckedApplied
  <2>4. AlwaysRestorable'
    BY <2>1, EmptyBankFine DEF BankInv, AlwaysRestorable
  <2> QED
    BY <2>2, <2>3, <2>4 DEF BankInv
<1>7. CASE Swap
  <2>1. /\ step = "renamed" /\ step' = "idle" /\ tail' = Tail(tail)
        /\ bank' = candidate /\ candidate' = EmptyBank
        /\ acked' = acked \cup {Head(tail)} /\ disk' = disk
    BY <1>7 DEF Swap, Answer, Done
  <2>2. disk = candidate /\ candidate \in Banks /\ Restorable(candidate)
    BY <2>1, CopyFine DEF BankInv, BankTyped, NoProcessNoWork, MemoryBehindDisk, CopyIsOutcome
  <2>3. BankTyped'
    BY <2>1, <2>2, EmptyBankFine, CopyFine DEF BankInv, BankTyped
  <2>4. NoProcessNoWork' /\ MemoryBehindDisk' /\ CopyIsOutcome'
    BY <2>1, <2>2 DEF NoProcessNoWork, MemoryBehindDisk, CopyIsOutcome
  <2>5. AckedApplied'
    BY <2>1, <2>2, CopyFine DEF AckedApplied
  <2>6. AlwaysRestorable'
    BY <2>1, <2>2, EmptyBankFine DEF AlwaysRestorable
  <2> QED
    BY <2>3, <2>4, <2>5, <2>6 DEF BankInv
<1>8. CASE Crash
  <2>1. /\ bank' = Missing /\ tail' = << >> /\ step' = "idle"
        /\ candidate' = EmptyBank /\ UNCHANGED <<disk, acked>>
    BY <1>8 DEF Crash
  <2>2. BankTyped'
    BY <2>1, EmptyBankFine DEF BankInv, BankTyped
  <2>3. NoProcessNoWork' /\ MemoryBehindDisk' /\ CopyIsOutcome' /\ AckedApplied'
    BY <2>1 DEF BankInv, NoProcessNoWork, MemoryBehindDisk, CopyIsOutcome, AckedApplied
  <2>4. AlwaysRestorable'
    BY <2>1, EmptyBankFine DEF BankInv, AlwaysRestorable
  <2> QED
    BY <2>2, <2>3, <2>4 DEF BankInv
<1>9. CASE UNCHANGED vars
  BY <1>9 DEF vars, BankInv, BankTyped, NoProcessNoWork, MemoryBehindDisk, CopyIsOutcome, AckedApplied,
     AlwaysRestorable
<1> QED
  BY <1>1, <1>2, <1>3, <1>4, <1>5, <1>6, <1>7, <1>8, <1>9 DEF Next

LEMMA BankInvariant == Spec => []BankInv
  BY BankInvInit, BankInvStep, PTL DEF Spec

-----------------------------------------------------------------------------
(***************************************************************************)
(* The money.  No ledger the bank holds has a customer below zero or a     *)
(* balance outside the safe integers: post() checks the two accounts it    *)
(* touches, and no other balance moves.                                    *)
(***************************************************************************)
Solvent(b) ==
  \A a \in Accounts : Balance(b.journal, a) \in (IF a = Cash THEN -MaxSafe ELSE 0)..MaxSafe

Solvency == \A b \in {disk, bank, candidate} \ {Missing} : Solvent(b)

ChainBounded == Len(tail) <= MaxPending

LEMMA EmptyBankSolvent == Solvent(EmptyBank)
  BY BalanceOfNone, BankAssumption DEF Solvent, EmptyBank

LEMMA OutcomeSolvent ==
  ASSUME NEW b \in Banks, Solvent(b), NEW op \in Operations, NEW c \in Outcome(b, op)
  PROVE  Solvent(c)
<1>1. CASE c.journal = b.journal
  BY <1>1 DEF Solvent
<1>2. ASSUME op.kind # "open", NEW t \in Asked(b, op), Covered(b.journal, t), c = Posted(b, t)
      PROVE  Solvent(c)
  <2>1. t \in Transactions /\ b.journal \in Seq(Transactions)
    BY <1>2, TxTyped DEF Banks
  <2>2. c.journal = Append(b.journal, t)
    BY <1>2, <2>1, PostedTyped
  <2> SUFFICES ASSUME NEW a \in Accounts
               PROVE  Balance(c.journal, a) \in (IF a = Cash THEN -MaxSafe ELSE 0)..MaxSafe
    BY DEF Solvent
  <2>3. Balance(c.journal, a) = Balance(b.journal, a) + Delta(t, a)
    BY <2>1, <2>2, BalanceOfAppended
  <2>4. CASE a \in {t.debit, t.credit}
    BY <1>2, <2>3, <2>4 DEF Covered
  <2>5. CASE a \notin {t.debit, t.credit}
    <3>1. Delta(t, a) = 0
      BY <2>5 DEF Delta
    <3>2. Balance(b.journal, a) \in (IF a = Cash THEN -MaxSafe ELSE 0)..MaxSafe
      BY DEF Solvent
    <3>3. Balance(b.journal, a) \in Int
      BY <3>2, BankAssumption
    <3> QED
      BY <2>3, <3>1, <3>2, <3>3
  <2> QED
    BY <2>4, <2>5
<1>3. op.kind = "open" => c.journal = b.journal
  BY OutcomeCases DEF Banks
<1> QED
  BY <1>1, <1>2, <1>3, OutcomeCases

LEMMA SolvencyStep == BankInv /\ Solvency /\ [Next]_vars => Solvency'
<1> SUFFICES ASSUME BankInv, Solvency, [Next]_vars PROVE Solvency'
  OBVIOUS
<1>1. /\ \A b \in {disk, bank, candidate} \ {Missing} : Solvent(b)
      /\ Solvent(EmptyBank)
  BY EmptyBankSolvent DEF Solvency
<1>2. {disk', bank', candidate'} \subseteq {disk, bank, candidate, EmptyBank, Missing} => Solvency'
  BY <1>1 DEF Solvency
<1>3. CASE Mutate
  <2>1. /\ tail # << >> /\ step = "idle" /\ candidate' \in Outcome(bank, Head(tail))
        /\ UNCHANGED <<disk, bank>>
    BY <1>3 DEF Mutate
  <2>2. bank # Missing
    BY <1>3 DEF Mutate, BankInv, NoProcessNoWork
  <2>3. bank \in Banks /\ Head(tail) \in Operations
    BY <2>1, <2>2 DEF BankInv, BankTyped
  <2>4. Solvent(candidate')
    BY <1>1, <2>1, <2>2, <2>3, OutcomeSolvent
  <2> QED
    BY <1>1, <2>1, <2>4 DEF Solvency
<1>4. CASE Open
  BY <1>2, <1>4 DEF Open
<1>5. ASSUME NEW op \in Operations, Submit(op) PROVE Solvency'
  BY <1>2, <1>5 DEF Submit
<1>6. CASE Refuse \/ SaveFails \/ Swap
  BY <1>2, <1>6 DEF Refuse, SaveFails, Swap, Done
<1>7. CASE Save \/ Crash
  BY <1>2, <1>7 DEF Save, Crash
<1>8. CASE UNCHANGED vars
  BY <1>2, <1>8 DEF vars
<1> QED
  BY <1>3, <1>4, <1>5, <1>6, <1>7, <1>8 DEF Next

LEMMA ChainBoundedStep == BankInv /\ ChainBounded /\ [Next]_vars => ChainBounded'
<1> SUFFICES ASSUME BankInv, ChainBounded, [Next]_vars PROVE ChainBounded'
  OBVIOUS
<1>1. tail \in Seq(Operations) /\ Len(tail) <= MaxPending /\ MaxPending \in Nat
  BY RuntimeAssumption DEF BankInv, BankTyped, ChainBounded
<1>2. ASSUME NEW op \in Operations, Submit(op) PROVE ChainBounded'
  <2>1. Len(tail) < MaxPending /\ tail' = Append(tail, op)
    BY <1>2 DEF Submit
  <2>2. Len(tail') = Len(tail) + 1
    BY <1>1, <2>1, AppendProperties
  <2> QED
    BY <1>1, <2>1, <2>2, LenProperties DEF ChainBounded
<1>3. CASE Refuse \/ SaveFails \/ Swap
  <2>1. tail' = Tail(tail) /\ tail # << >>
    BY <1>3 DEF Refuse, SaveFails, Swap, Done, BankInv, CopyIsOutcome
  <2>2. Len(tail') = Len(tail) - 1
    BY <1>1, <2>1, HeadTailProperties
  <2> QED
    BY <1>1, <2>2, LenProperties DEF ChainBounded
<1>4. CASE Crash
  BY <1>1, <1>4 DEF Crash, ChainBounded
<1>5. CASE Open \/ Mutate \/ Save \/ UNCHANGED vars
  BY <1>1, <1>5 DEF Open, Mutate, Save, vars, ChainBounded
<1> QED
  BY <1>2, <1>3, <1>4, <1>5 DEF Next

LEMMA MoneyInvariant == Spec => [](BankInv /\ Solvency /\ ChainBounded)
<1>1. Init => Solvency /\ ChainBounded
  BY EmptyBankSolvent, RuntimeAssumption DEF Init, Solvency, ChainBounded
<1> QED
  BY <1>1, BankInvInit, BankInvStep, SolvencyStep, ChainBoundedStep, PTL DEF Spec

-----------------------------------------------------------------------------
(* What an operation does, seen from the atomic bank.                      *)

\* The transaction that is posted is one the atomic bank would let happen: an
\* original between open accounts, or the first reversal of an original.
LEMMA AskedIsAllowed ==
  ASSUME NEW b \in Banks, Restorable(b), NEW op \in Operations, op.kind # "open",
         NEW t \in Asked(b, op), ~Used(b.journal, t.key)
  PROVE  /\ {t.debit, t.credit} \subseteq b.accounts \cup {Cash}
         /\ \A u \in Entries(b.journal) : u.key # t.key
         /\ \/ t.ref = NoRef /\ t.credit \in Customers /\ t.debit # t.credit
            \/ /\ \A u \in Entries(b.journal) : u.ref # t.ref
               /\ \E u \in Entries(b.journal) :
                    /\ u.key = t.ref /\ u.ref = NoRef
                    /\ t.debit = u.credit /\ t.credit = u.debit /\ t.amount = u.amount
<1>1. \A u \in Entries(b.journal) : u.key # t.key
  BY DEF Used
<1>2. b.accounts \subseteq Customers /\ Cash \notin Customers
  BY BankAssumption DEF Banks
<1>3. CASE op.kind = "fund"
  BY <1>1, <1>2, <1>3 DEF Asked, Tx
<1>4. CASE op.kind = "transfer"
  BY <1>1, <1>2, <1>4 DEF Asked, Tx
<1>5. CASE op.kind = "reverse"
  <2>1. \A u \in Entries(b.journal) : {u.debit, u.credit} \subseteq b.accounts \cup {Cash}
    BY DEF Entries, Restorable
  <2>2. PICK u \in Entries(b.journal) :
          /\ u.key = op.of /\ u.ref = NoRef
          /\ \A w \in Entries(b.journal) : w.ref = u.key => w.key = op.key
          /\ t = Tx(op.key, u.key, u.credit, u.debit, u.amount)
    BY <1>5 DEF Asked, Reversal
  <2>3. /\ t.key = op.key /\ t.ref = u.key /\ t.debit = u.credit /\ t.credit = u.debit
        /\ t.amount = u.amount
    BY <2>2 DEF Tx
  <2>4. \A w \in Entries(b.journal) : w.ref # t.ref
    BY <1>1, <2>2, <2>3
  <2> QED
    BY <1>1, <2>1, <2>2, <2>3, <2>4
<1> QED
  BY <1>3, <1>4, <1>5 DEF Operations

\* The rename is the moment at which an operation happens; every other step
\* leaves the state file as it is, or writes the first one.
LEMMA AtomicStep ==
  BankInv /\ Solvency /\ [Next]_vars => [Atomic!Next]_(Atomic!vars)
<1> SUFFICES ASSUME BankInv, Solvency, [Next]_vars
             PROVE  Atomic!Next \/ UNCHANGED Atomic!vars
  OBVIOUS
<1>1. CASE State' = State
  BY <1>1 DEF Atomic!vars
<1>2. CASE Save
  <2>1. /\ step = "saving" /\ disk' = candidate /\ bank # Missing /\ disk = bank
        /\ bank \in Banks /\ candidate \in Banks /\ Restorable(bank) /\ Solvent(candidate)
        /\ Head(tail) \in Operations /\ candidate \in Outcome(bank, Head(tail))
    BY <1>2, CopyFine, RuntimeAssumption
       DEF Save, BankInv, BankTyped, CopyIsOutcome, MemoryBehindDisk, Solvency
  <2>2. State = bank /\ State' = candidate
    BY <2>1, RuntimeAssumption DEF State
  <2>3. PICK b, c, op : b = bank /\ c = candidate /\ op = Head(tail)
    OBVIOUS
  <2>4. /\ b \in Banks /\ c \in Banks /\ Restorable(b) /\ Solvent(c)
        /\ op \in Operations /\ c \in Outcome(b, op) /\ State = b /\ State' = c
    BY <2>1, <2>2, <2>3
  <2>5. CASE c = b
    BY <1>1, <2>4, <2>5
  <2>6. CASE /\ op.kind = "open" /\ op.account \in Customers \ b.accounts
             /\ c = [b EXCEPT !.accounts = b.accounts \cup {op.account}]
    <3>1. c.accounts = b.accounts \cup {op.account} /\ c.journal = b.journal
      BY <2>4, <2>6 DEF Banks
    <3>2. Atomic!Open(op.account)
      BY <2>4, <2>6, <3>1 DEF Atomic!Open
    <3> QED
      BY <2>6, <3>2 DEF Atomic!Next
  <2>7. ASSUME op.kind # "open", NEW t \in Asked(b, op),
               ~Used(b.journal, t.key), Covered(b.journal, t), c = Posted(b, t)
        PROVE  Atomic!Next
    <3>1. t \in Transactions /\ b.journal \in Seq(Transactions)
      BY <2>4, <2>7, TxTyped DEF Banks
    <3>2. /\ c.accounts = b.accounts /\ c.journal = Append(b.journal, t)
          /\ Entries(c.journal) = Entries(b.journal) \cup {t}
      BY <2>4, <2>7, <3>1, PostedTyped
    <3>3. \A a \in Accounts : Balance(c.journal, a) = Balance(b.journal, a) + Delta(t, a)
      BY <3>1, <3>2, BalanceOfAppended
    <3>4. /\ {t.debit, t.credit} \subseteq b.accounts \cup {Cash}
          /\ \A u \in Entries(b.journal) : u.key # t.key
          /\ \/ t.ref = NoRef /\ t.credit \in Customers /\ t.debit # t.credit
             \/ /\ \A u \in Entries(b.journal) : u.ref # t.ref
                /\ \E u \in Entries(b.journal) :
                     /\ u.key = t.ref /\ u.ref = NoRef
                     /\ t.debit = u.credit /\ t.credit = u.debit /\ t.amount = u.amount
      BY <2>4, <2>7, AskedIsAllowed
    <3>5. \A a \in Customers : Balance(c.journal, a) >= 0
      <4>1. \A a \in Customers : a \in Accounts /\ a # Cash
        BY BankAssumption DEF Accounts
      <4>2. \A a \in Customers : Balance(c.journal, a) \in 0..MaxSafe
        BY <2>4, <4>1 DEF Solvent
      <4> QED
        BY <4>2, BankAssumption
    <3>6. [a \in Accounts |-> Balance(c.journal, a)] =
            [a \in Customers \cup {Cash} |->
               LET in == IF t.credit = a THEN t.amount ELSE 0
                   out == IF t.debit = a THEN t.amount ELSE 0
               IN  [x \in Accounts |-> Balance(b.journal, x)][a]
                     + (IF a = Cash THEN out - in ELSE in - out)]
      BY <3>3 DEF Delta, Accounts
    <3>7. Atomic!Happens(t)
      BY <2>4, <3>2, <3>4, <3>5, <3>6 DEF Atomic!Happens, Accounts
    <3>8. Atomic!Transact(t) \/ Atomic!Reverse(t)
      BY <2>4, <3>4, <3>7 DEF Atomic!Transact, Atomic!Reverse
    <3>9. t \in Entries(c.journal) \ Entries(b.journal)
      BY <3>2, <3>4
    <3>10. t \in Atomic!Transactions
      BY <3>1 DEF Atomic!Transactions, Transactions, Accounts
    <3> QED
      BY <2>4, <3>8, <3>9, <3>10 DEF Atomic!Next
  <2> QED
    BY <2>4, <2>5, <2>6, <2>7, OutcomeCases
<1>3. CASE Open
  <2>1. State' = State
    BY <1>3, EmptyBankFine DEF Open, State
  <2> QED
    BY <1>1, <2>1
<1>4. CASE disk' = disk
  BY <1>1, <1>4 DEF State
<1>5. \/ Save \/ Open \/ disk' = disk
  BY DEF Next, Submit, Mutate, Refuse, SaveFails, Swap, Crash, vars
<1> QED
  BY <1>2, <1>3, <1>4, <1>5

-----------------------------------------------------------------------------
\* What was answered with success is in the state file, whatever fails, dies or
\* is retried afterwards (#commit saves before it answers).
THEOREM AckedDurability == Spec => []AckedIsDurable
<1>1. BankInv => AckedIsDurable
  BY DEF BankInv, AckedApplied, AckedIsDurable
<1> QED
  BY <1>1, BankInvariant, PTL

\* The ledger that readers see is a prefix of the one in the state file, and
\* differs from it only between the rename and the swap of #commit.
THEOREM ShownDurability == Spec => []ShownIsDurable
<1>1. ASSUME BankInv PROVE ShownIsDurable
  <2> SUFFICES ASSUME bank # Missing
               PROVE  /\ Grew(bank, disk)
                      /\ disk # bank => step = "renamed" /\ disk = candidate
    BY DEF Grew, ShownIsDurable
  <2>1. CASE step = "renamed"
    BY <1>1, <2>1, CopyFine DEF BankInv, MemoryBehindDisk
  <2>2. CASE step # "renamed"
    <3>1. disk = bank /\ bank \in Banks
      BY <1>1, <2>2 DEF BankInv, BankTyped, MemoryBehindDisk
    <3>2. SubSeq(bank.journal, 1, Len(bank.journal)) = bank.journal
      BY <3>1, SubSeqFull DEF Banks
    <3> QED
      BY <3>1, <3>2 DEF Grew
  <2> QED
    BY <2>1, <2>2
<1> QED
  BY <1>1, BankInvariant, PTL

\* Every ledger that save() is given, that the state file holds and that reads
\* see replays from its snapshot (restoreLedgerFromSnapshot), so the
\* verification in save() and load() never refuses the bank's own work.
THEOREM Restorability == Spec => []AlwaysRestorable
<1>1. BankInv => AlwaysRestorable
  BY DEF BankInv
<1> QED
  BY <1>1, BankInvariant, PTL

\* Retrying a posting that was answered once succeeds and leaves the ledger as
\* it is (post() returns the earlier transaction for its idempotency key).
THEOREM RetrySafety == Spec => []RetryIsHarmless
<1>1. ASSUME BankInv PROVE RetryIsHarmless
  <2> SUFFICES ASSUME NEW op \in acked, op.kind # "open", bank # Missing
               PROVE  Outcome(bank, op) = {bank}
    BY DEF RetryIsHarmless
  <2>1. bank \in Banks /\ Restorable(bank) /\ op \in Operations /\ Applied(bank, op)
    BY <1>1 DEF BankInv, BankTyped, AlwaysRestorable, AckedApplied
  <2> QED
    BY <2>1, AppliedIsRepeatable
<1> QED
  BY <1>1, BankInvariant, PTL

\* Types of the runtime's state; and the money: in the file, in memory and in the
\* copy every balance stays in the safe integers, so that no sum of balance() is
\* rounded (post() checks only the accounts it touches).
THEOREM BankTypeCorrect == Spec => []TypeOK
<1>1. ASSUME BankInv, Solvency, ChainBounded PROVE TypeOK
  <2>1. \A b \in {disk, bank, candidate} \ {Missing} : IsBank(b)
    <3> SUFFICES ASSUME NEW b \in {disk, bank, candidate} \ {Missing} PROVE IsBank(b)
      OBVIOUS
    <3>1. b \in Banks /\ Solvent(b)
      BY <1>1 DEF BankInv, BankTyped, Solvency
    <3>2. \A a \in Accounts : Balance(b.journal, a) \in -MaxSafe..MaxSafe
      BY <3>1, BankAssumption DEF Solvent
    <3> QED
      BY <3>1, <3>2 DEF IsBank
  <2> QED
    BY <1>1, <2>1, RuntimeAssumption DEF TypeOK, BankInv, BankTyped, ChainBounded
<1> QED
  BY <1>1, MoneyInvariant, PTL

\* The durable bank implements the atomic one: each operation happens at once, at
\* the rename of save(), at most once for its key, whatever is retried, fails or
\* dies; no customer is overdrawn, and nothing is reversed twice.
THEOREM BankIsAtomic == Spec => IsAtomicBank
<1>1. Init => Atomic!Init
  BY BalanceOfNone DEF Init, State, EmptyBank, Atomic!Init, Accounts, Entries
<1> QED
  BY <1>1, AtomicStep, MoneyInvariant, PTL DEF Spec, IsAtomicBank, Atomic!Spec
=============================================================================
