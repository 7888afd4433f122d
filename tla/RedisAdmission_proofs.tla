------------------------ MODULE RedisAdmission_proofs ------------------------
(***************************************************************************)
(* The admission gate keeps its types, its two buckets never give more     *)
(* than the ideal ones would, the slots it counts are those of the         *)
(* reservations in their lease, and its budgets hold what they are charged *)
(* for; for every number of requests, gateways and days and every          *)
(* configuration of the limits.                                            *)
(***************************************************************************)
EXTENDS RedisAdmission, FiniteSetTheorems, WellFoundedInduction, TLAPS

(***************************************************************************)
(* Types.                                                                  *)
(***************************************************************************)
Buckets(capacity) ==
  {b \in [credits : 0..capacity, age : Nat, life : 1..Ttl] : b.age = Ttl - b.life}

Budgets == [used : Nat, life : 1..Ttl]

Reservations ==
  [status : {"active", "settled", "expired"}, cost : 0..Capacity, spend : Nat,
   period : Periods, life : 1..(2 * Ttl)]

Working == [at : {"running", "settling"}, id : Requests, period : Periods, left : 0..Ttl]

\* What Redis has of a request: its estimate, for one time to live once it is final.
ReservationOk(r) ==
  reservation[r] # Gone =>
    /\ [cost |-> reservation[r].cost, spend |-> reservation[r].spend] \in Estimates
    /\ ~IsActive(r) => reservation[r].life <= Ttl

KeysTyped ==
  /\ tpm \in Buckets(Capacity) \cup {Gone} /\ rpm \in Buckets(CallCapacity) \cup {Gone}
  /\ budget \in [Periods -> Budgets \cup {Gone}]
  /\ reservation \in [Requests -> Reservations \cup {Gone}]
  /\ \A r \in Requests : ReservationOk(r)

Typed ==
  /\ KeysTyped
  /\ leases \in [Requests -> 0..Ttl \cup {Gone}]
  /\ period \in Periods
  /\ gateway \in [Gateways -> Working \cup {Idle}]
  /\ tokens \in Nat /\ calls \in Nat /\ late \in BOOLEAN

(***************************************************************************)
(* The buckets.  A key that is gone is a full bucket, and so is the ideal  *)
(* one by then; else the ideal one holds what the key will when refilled.  *)
(***************************************************************************)
Covers(bucket, capacity, rate, level) ==
  /\ level <= capacity * Unit
  /\ IF bucket = Gone THEN level = capacity * Unit
     ELSE Least(capacity * Unit, bucket.credits * Unit + bucket.age * rate) <= level

BucketsCovered ==
  Covers(tpm, Capacity, Rate, tokens) /\ Covers(rpm, CallCapacity, CallRate, calls)

(***************************************************************************)
(* The slots.  While a reservation is in its lease, the index has it with  *)
(* the same end, and afterwards as a member that is over or not at all.    *)
(***************************************************************************)
InIndex(r) ==
  IF InLease(r) THEN leases[r] = reservation[r].life - Ttl ELSE leases[r] \in {0, Gone}

SlotsInv ==
  /\ \A r \in Requests : InIndex(r)
  /\ IsFiniteSet(Live(leases)) /\ Cardinality(Live(leases)) <= MaxConcurrent

\* A gateway at work has a request of its own, and its lease as long as nobody has
\* settled it.
GatewayOk(g) ==
  gateway[g] # Idle =>
    /\ reservation[gateway[g].id] # Gone
    /\ gateway[g].at = "running" => IsActive(gateway[g].id)
    /\ IsActive(gateway[g].id) =>
         InLease(gateway[g].id) /\ gateway[g].left = reservation[gateway[g].id].life - Ttl

GatewaysInv ==
  ~late =>
    /\ \A g \in Gateways : GatewayOk(g)
    /\ \A g, h \in Gateways :
         gateway[g] # Idle /\ gateway[h] # Idle /\ gateway[g].id = gateway[h].id => g = h

GateInv == Typed /\ BucketsCovered /\ SlotsInv /\ GatewaysInv

(***************************************************************************)
(* The budget.  Its key lives as long as the lease of any reservation that *)
(* is charged to it: it is written with every admission of the period.     *)
(***************************************************************************)
Charged(r) ==
  InLease(r) => LET b == budget[reservation[r].period] IN
                  b # Gone /\ b.life >= reservation[r].life - Ttl

Holds(p) ==
  /\ Used(p) >= SumFunction([r \in Held(p) |-> reservation[r].spend])
  /\ Limit > 0 => Used(p) <= Limit

BudgetInv ==
  /\ \A r \in Requests : Charged(r)
  /\ ~late => \A p \in Periods : Holds(p)

Inv == GateInv /\ BudgetInv

-----------------------------------------------------------------------------
\* Constants.

LEMMA Amount ==
  /\ Capacity \in Nat \ {0} /\ Rate \in Nat \ {0} /\ CallCapacity \in Nat \ {0}
  /\ CallRate \in Nat \ {0} /\ Unit \in Nat \ {0} /\ MaxConcurrent \in Nat \ {0}
  /\ Ttl \in Nat \ {0} /\ Limit \in Nat
  /\ \A e \in Estimates : e.cost \in Nat \ {0} /\ e.spend \in Nat
                          /\ e = [cost |-> e.cost, spend |-> e.spend]
  /\ \A a \in Actuals : a.cost \in Nat /\ a.spend \in Nat
  BY AdmissionAssumption DEF AdmissionAssumption, Amounts

LEMMA NoKeyIsGone ==
  /\ Gone \notin Nat
  /\ \A capacity \in Nat : Gone \notin Buckets(capacity)
  /\ Gone \notin Budgets /\ Gone \notin Reservations
  BY GoneAssumption, Amount DEF GoneAssumption, Buckets, Budgets, Reservations

LEMMA WorkingIsNotIdle ==
  /\ Idle \notin Working
  /\ Idle.at = "idle"
  BY DEF Working, Idle

-----------------------------------------------------------------------------
\* Arithmetic.

LEMMA DivLow ==
  ASSUME NEW x \in Nat, NEW u \in Nat \ {0}
  PROVE  x \div u \in Nat /\ (x \div u) * u <= x
  OBVIOUS

LEMMA MulMono ==
  ASSUME NEW a \in Nat, NEW b \in Nat, NEW c \in Nat, a <= b
  PROVE  a * c <= b * c /\ a * c \in Nat /\ b * c \in Nat
  OBVIOUS

LEMMA Distributive ==
  ASSUME NEW a \in Int, NEW b \in Int, NEW c \in Int
  PROVE  /\ (a + b) * c = a * c + b * c /\ (a - b) * c = a * c - b * c
         /\ a * c \in Int /\ b * c \in Int
  OBVIOUS

LEMMA LeastIs ==
  ASSUME NEW a \in Int, NEW b \in Int
  PROVE  /\ Least(a, b) \in {a, b} /\ Least(a, b) <= a /\ Least(a, b) <= b
         /\ Most(a, b) \in {a, b} /\ Most(a, b) >= a /\ Most(a, b) >= b
  BY DEF Least, Most

-----------------------------------------------------------------------------
\* A bucket, whichever of the two.

LEMMA LevelOk ==
  ASSUME NEW capacity \in Nat \ {0}, NEW rate \in Nat \ {0}, NEW b \in Buckets(capacity) \cup {Gone},
         NEW t \in Nat, Covers(b, capacity, rate, t)
  PROVE  /\ Level(b, capacity, rate) \in 0..capacity
         /\ Level(b, capacity, rate) * Unit <= t
<1>0. Unit \in Nat \ {0} /\ Ttl \in Nat \ {0} /\ capacity * Unit \in Nat
  BY Amount, MulMono
<1>1. CASE b = Gone
  BY <1>0, <1>1 DEF Level, Covers
<1>2. CASE b # Gone
  <2>0. b \in Buckets(capacity) /\ b.credits \in 0..capacity /\ b.age \in Nat
    BY <1>2 DEF Buckets
  <2> DEFINE top == (capacity * Unit + rate - 1) \div rate
             elapsed == Least(b.age, top)
             gain == (elapsed * rate) \div Unit
  <2>1. top \in Nat
    BY <1>0, DivLow
  <2>2. elapsed \in Nat /\ elapsed <= b.age
    BY <2>0, <2>1, LeastIs
  <2>3. elapsed * rate \in Nat /\ elapsed * rate <= b.age * rate /\ b.age * rate \in Nat
    BY <2>0, <2>2, MulMono
  <2>4. gain \in Nat /\ gain * Unit <= elapsed * rate
    BY <1>0, <2>3, DivLow
  <2> DEFINE level == Least(capacity, b.credits + gain)
  <2>5. Level(b, capacity, rate) = level
    BY <1>2 DEF Level
  <2>6. level \in 0..capacity /\ level <= b.credits + gain
    BY <2>0, <2>4, LeastIs
  <2>7. level * Unit <= capacity * Unit /\ level * Unit <= (b.credits + gain) * Unit /\ level * Unit \in Nat
    BY <1>0, <2>0, <2>4, <2>6, MulMono
  <2>8. (b.credits + gain) * Unit = b.credits * Unit + gain * Unit /\ b.credits * Unit \in Int /\ gain * Unit \in Int
    BY <1>0, <2>0, <2>4, Distributive
  <2>9. Least(capacity * Unit, b.credits * Unit + b.age * rate) <= t
    BY <1>2 DEF Covers
  <2> HIDE DEF level, gain, elapsed, top
  <2>10. level * Unit <= t
    BY <1>0, <2>3, <2>4, <2>7, <2>8, <2>9 DEF Least
  <2> QED
    BY <2>5, <2>6, <2>10
<1> QED
  BY <1>1, <1>2

LEMMA NewBucket ==
  ASSUME NEW capacity \in Nat \ {0}, NEW rate \in Nat \ {0}, NEW n \in 0..capacity,
         NEW t \in Nat, n * Unit <= t, t <= capacity * Unit
  PROVE  /\ Bucket(n) \in Buckets(capacity)
         /\ Covers(Bucket(n), capacity, rate, t)
<1>0. Unit \in Nat \ {0} /\ Ttl \in Nat \ {0}
  BY Amount
<1>1. Bucket(n) \in Buckets(capacity)
  BY <1>0 DEF Bucket, Buckets
<1>2. Bucket(n) # Gone
  BY <1>1, NoKeyIsGone
<1>3. n * Unit \in Nat /\ capacity * Unit \in Nat /\ 0 * rate = 0
  BY <1>0, MulMono
<1>4. Least(capacity * Unit, n * Unit + 0 * rate) <= t
  BY <1>3 DEF Least
<1> QED
  BY <1>1, <1>2, <1>4 DEF Covers, Bucket

\* What a tick makes of a key and of the ideal bucket.
LEMMA BucketAges ==
  ASSUME NEW capacity \in Nat \ {0}, NEW rate \in Nat \ {0}, NEW b \in Buckets(capacity) \cup {Gone},
         NEW t \in Nat, Covers(b, capacity, rate, t)
  PROVE  /\ AgedBucket(b) \in Buckets(capacity) \cup {Gone}
         /\ Refilled(t, capacity, rate, b) \in Nat
         /\ Covers(AgedBucket(b), capacity, rate, Refilled(t, capacity, rate, b))
<1>0. Unit \in Nat \ {0} /\ Ttl \in Nat \ {0} /\ capacity * Unit \in Nat
  BY Amount, MulMono
<1> DEFINE full == capacity * Unit
           t1 == Refilled(t, capacity, rate, b)
<1>1. /\ t1 \in {full, Least(full, t + rate)} /\ t1 \in Nat /\ t1 <= full
      /\ Least(full, t + rate) <= t1
  BY <1>0, LeastIs DEF Refilled
<1>2. CASE b = Gone
  <2>1. t = full /\ AgedBucket(b) = Gone
    BY <1>2 DEF Covers, AgedBucket, Aged
  <2>2. t1 = full
    BY <1>0, <1>1, <2>1 DEF Least
  <2> QED
    BY <1>1, <2>1, <2>2 DEF Covers
<1> HIDE DEF t1
<1>3. CASE b # Gone
  <2>0. b \in Buckets(capacity) /\ b.credits \in 0..capacity /\ b.life \in 1..Ttl /\ b.age = Ttl - b.life
        /\ b \in [credits : 0..capacity, age : Nat, life : 1..Ttl]
    BY <1>3 DEF Buckets
  <2>1. /\ b.credits * Unit \in Nat /\ b.age * rate \in Nat
        /\ (b.age + 1) * rate = b.age * rate + rate
    BY <1>0, <2>0, MulMono, Distributive
  <2>2. Least(full, b.credits * Unit + b.age * rate) <= t
    BY <1>3 DEF Covers
  <2>3. Least(full, b.credits * Unit + (b.age + 1) * rate) <= t1
    BY <1>0, <1>1, <2>1, <2>2 DEF Least
  <2>4. CASE b.life = 1
    <3>1. AgedBucket(b) = Gone
      BY <1>3, <2>4 DEF AgedBucket, Aged
    <3>2. Aged(b) = Gone /\ b.age + 1 = Ttl
      BY <1>0, <2>0, <2>4 DEF Aged
    <3>3. t1 = full
      <4>1. CASE Ttl * rate < full
        BY <3>2, <4>1 DEF t1, Refilled
      <4>2. CASE ~(Ttl * rate < full)
        <5>1. (b.age + 1) * rate >= full /\ (b.age + 1) * rate \in Int
          BY <1>0, <3>2, <4>2
        <5> QED
          BY <1>0, <1>1, <2>1, <2>3, <5>1 DEF Least
      <4> QED
        BY <4>1, <4>2
    <3> QED
      BY <1>1, <3>1, <3>3 DEF Covers, t1
  <2>5. CASE b.life # 1
    <3> DEFINE a == [b EXCEPT !.life = b.life - 1]
               c == [a EXCEPT !.age = b.age + 1]
    <3>1. Aged(b) = a /\ a \in [credits : 0..capacity, age : Nat, life : 1..Ttl] /\ a.age = b.age
      BY <1>0, <1>3, <2>0, <2>5 DEF Aged
    <3>2. a # Gone
      BY <1>0, <3>1, GoneAssumption DEF GoneAssumption
    <3>3. Least(b.age + 1, 2 * Ttl) = b.age + 1
      BY <1>0, <2>0 DEF Least
    <3>4. AgedBucket(b) = c
      BY <3>1, <3>2, <3>3 DEF AgedBucket
    <3>5. c \in Buckets(capacity) /\ c.credits = b.credits /\ c.age = b.age + 1
      <4>1. a.credits = b.credits /\ a.life = b.life - 1 /\ a.life \in 1..Ttl
        BY <1>0, <2>0, <2>5
      <4> HIDE DEF a
      <4>2. /\ c \in [credits : 0..capacity, age : Nat, life : 1..Ttl]
            /\ c.credits = a.credits /\ c.age = b.age + 1 /\ c.life = a.life
        BY <2>0, <3>1
      <4>3. c.age = Ttl - c.life
        BY <1>0, <2>0, <4>1, <4>2
      <4> QED
        BY <4>1, <4>2, <4>3 DEF Buckets
    <3>6. c # Gone
      BY <3>5, NoKeyIsGone
    <3> QED
      BY <1>1, <2>3, <3>4, <3>5, <3>6 DEF Covers, t1
  <2> QED
    BY <2>4, <2>5
<1> QED
  BY <1>2, <1>3

-----------------------------------------------------------------------------
(***************************************************************************)
(* Sums over finite sets.  SumFunctionOnSet picks its elements in an order *)
(* nothing is known of: the lemmas show that a sum does not depend on it.  *)
(* Induction is on the size of the set, by its least counterexample.       *)
(***************************************************************************)
One(s) == CHOOSE x \in s : TRUE
Others(s) == s \ {One(s)}

\* The recursion of MapThenFoldSet, and the functions that solve it.
SumStep(f, g, s) == IF s = {} THEN 0 ELSE f[One(s)] + g[Others(s)]
Solves(g, f, S) == g = [s \in SUBSET S |-> SumStep(f, g, s)]

LEMMA OneIsIn ==
  ASSUME NEW s, s # {}, IsFiniteSet(s)
  PROVE  /\ One(s) \in s /\ Others(s) \subseteq s /\ IsFiniteSet(Others(s))
         /\ Cardinality(s) \in Nat /\ Cardinality(Others(s)) = Cardinality(s) - 1
<1>1. One(s) \in s
  BY DEF One
<1> QED
  BY <1>1, FS_RemoveElement, FS_CardinalityType DEF Others

\* Induction on natural numbers: a set that is not empty has a least element.
LEMMA LeastNat ==
  ASSUME NEW S \in SUBSET Nat, S # {}
  PROVE  \E n \in S : \A m \in S : n <= m
<1>1. \E n \in S : \A m \in S : ~(<<m, n>> \in OpToRel(<, Nat))
  BY NatLessThanWellFounded, WFMin
<1>2. ASSUME NEW n \in S, NEW m \in S, ~(<<m, n>> \in OpToRel(<, Nat))
      PROVE  n <= m
  BY <1>2 DEF OpToRel
<1> QED
  BY <1>1, <1>2

\* A set of finite sets without an element of least size is empty.
LEMMA LeastSet ==
  ASSUME NEW C, C # {}, \A s \in C : IsFiniteSet(s)
  PROVE  \E s \in C : \A t \in C : Cardinality(s) <= Cardinality(t)
<1> DEFINE N == {Cardinality(s) : s \in C}
<1>1. N \in SUBSET Nat /\ N # {}
  BY FS_CardinalityType
<1>2. PICK n \in N : \A m \in N : n <= m
  BY <1>1, LeastNat
<1> QED
  BY <1>2

LEMMA SolutionsAgree ==
  ASSUME NEW f, NEW S, NEW T, NEW g, NEW h, Solves(g, f, S), Solves(h, f, T)
  PROVE  \A s \in (SUBSET S) \cap (SUBSET T) : IsFiniteSet(s) => g[s] = h[s]
<1> DEFINE C == {s \in (SUBSET S) \cap (SUBSET T) : IsFiniteSet(s) /\ g[s] # h[s]}
<1> SUFFICES ASSUME C # {} PROVE FALSE
  OBVIOUS
<1>1. PICK s \in C : \A t \in C : Cardinality(s) <= Cardinality(t)
  BY LeastSet
<1>2. g[s] = SumStep(f, g, s) /\ h[s] = SumStep(f, h, s)
  BY DEF Solves
<1>3. s # {}
  BY <1>2 DEF SumStep
<1>4. /\ Others(s) \in (SUBSET S) \cap (SUBSET T) /\ IsFiniteSet(Others(s))
      /\ Cardinality(Others(s)) < Cardinality(s)
  BY <1>3, OneIsIn
<1>5. g[Others(s)] = h[Others(s)]
  <2>1. Cardinality(Others(s)) \in Nat /\ Cardinality(s) \in Nat
    BY <1>4, FS_CardinalityType
  <2> QED
    BY <1>1, <1>4, <2>1
<1> QED
  BY <1>2, <1>3, <1>5 DEF SumStep

LEMMA SolutionExists ==
  ASSUME NEW f, NEW S, IsFiniteSet(S)
  PROVE  \E g : Solves(g, f, S)
<1> DEFINE Upto(g, n) == \A s \in SUBSET S : Cardinality(s) <= n => g[s] = SumStep(f, g, s)
           Bad == {n \in Nat : ~ \E g : Upto(g, n)}
<1>0. \A s \in SUBSET S : IsFiniteSet(s) /\ Cardinality(s) \in Nat
  BY FS_Subset, FS_CardinalityType
<1>1. Bad = {}
  <2> SUFFICES ASSUME Bad # {} PROVE FALSE
    OBVIOUS
  <2>1. PICK n \in Bad : \A m \in Bad : n <= m
    BY LeastNat
  <2>2. CASE n = 0
    <3> DEFINE g == [s \in SUBSET S |-> 0]
    <3>1. ASSUME NEW s \in SUBSET S, Cardinality(s) <= 0 PROVE g[s] = SumStep(f, g, s)
      <4>1. s = {}
        BY <1>0, <3>1, FS_EmptySet
      <4> QED
        BY <4>1 DEF SumStep
    <3> HIDE DEF g
    <3> QED
      BY <2>1, <2>2, <3>1
  <2>3. CASE n # 0
    <3>1. n - 1 \in Nat /\ n - 1 \notin Bad
      BY <2>1, <2>3
    <3>2. PICK g : Upto(g, n - 1)
      BY <3>1
    <3> DEFINE h == [s \in SUBSET S |-> SumStep(f, g, s)]
    <3>3. ASSUME NEW s \in SUBSET S, Cardinality(s) <= n PROVE h[s] = SumStep(f, h, s)
      <4>1. CASE s = {}
        BY <4>1 DEF SumStep
      <4>2. CASE s # {}
        <5>1. Others(s) \in SUBSET S /\ Cardinality(Others(s)) <= n - 1
          BY <1>0, <3>3, <4>2, OneIsIn
        <5>2. h[Others(s)] = g[Others(s)]
          BY <3>2, <5>1
        <5>3. h[s] = SumStep(f, g, s)
          OBVIOUS
        <5> HIDE DEF h
        <5> QED
          BY <4>2, <5>2, <5>3 DEF SumStep
      <4> QED
        BY <4>1, <4>2
    <3> HIDE DEF h
    <3> QED
      BY <2>1, <3>3
  <2> QED
    BY <2>2, <2>3
<1>2. Cardinality(S) \in Nat /\ \A s \in SUBSET S : Cardinality(s) <= Cardinality(S)
  BY FS_Subset, FS_CardinalityType
<1>3. PICK g : Upto(g, Cardinality(S))
  BY <1>1, <1>2
<1> DEFINE h == [s \in SUBSET S |-> SumStep(f, g, s)]
<1>4. \A s \in SUBSET S : h[s] = g[s]
  BY <1>2, <1>3
<1> HIDE DEF h
<1>5. \A s \in SUBSET S : SumStep(f, h, s) = SumStep(f, g, s)
  <2> SUFFICES ASSUME NEW s \in SUBSET S, s # {} PROVE h[Others(s)] = g[Others(s)]
    BY Zenon DEF SumStep
  <2>1. Others(s) \in SUBSET S
    BY <1>0, OneIsIn
  <2> QED
    BY <1>4, <2>1
<1>6. h = [s \in SUBSET S |-> SumStep(f, h, s)]
  BY <1>5 DEF h
<1> QED
  BY <1>6 DEF Solves

LEMMA SumIs ==
  ASSUME NEW f, NEW S, IsFiniteSet(S)
  PROVE  \E g : Solves(g, f, S) /\ SumFunctionOnSet(f, S) = g[S]
<1>1. SumFunctionOnSet(f, S) = (CHOOSE g : g = [s \in SUBSET S |-> SumStep(f, g, s)])[S]
  BY DEF SumFunctionOnSet, FoldFunctionOnSet, MapThenFoldSet, SumStep, One, Others
<1>2. SumFunctionOnSet(f, S) = (CHOOSE g : Solves(g, f, S))[S]
  BY <1>1 DEF Solves
<1>3. Solves(CHOOSE g : Solves(g, f, S), f, S)
  BY SolutionExists
<1> QED
  BY <1>2, <1>3

LEMMA SumEmpty == ASSUME NEW f PROVE SumFunctionOnSet(f, {}) = 0
<1>1. PICK g : Solves(g, f, {}) /\ SumFunctionOnSet(f, {}) = g[{}]
  BY SumIs, FS_EmptySet
<1> QED
  BY <1>1 DEF Solves, SumStep

LEMMA SumOfOthers ==
  ASSUME NEW f, NEW S, IsFiniteSet(S), S # {}
  PROVE  SumFunctionOnSet(f, S) = f[One(S)] + SumFunctionOnSet(f, Others(S))
<1>1. PICK g : Solves(g, f, S) /\ SumFunctionOnSet(f, S) = g[S]
  BY SumIs
<1>2. Others(S) \subseteq S /\ IsFiniteSet(Others(S))
  BY OneIsIn
<1>3. PICK h : Solves(h, f, Others(S)) /\ SumFunctionOnSet(f, Others(S)) = h[Others(S)]
  BY <1>2, SumIs
<1>4. g[Others(S)] = h[Others(S)]
  BY <1>1, <1>2, <1>3, SolutionsAgree
<1>5. g[S] = SumStep(f, g, S)
  BY <1>1 DEF Solves
<1> QED
  BY <1>1, <1>3, <1>4, <1>5 DEF SumStep

LEMMA SumTyped ==
  ASSUME NEW S, IsFiniteSet(S), NEW f, \A x \in S : f[x] \in Nat
  PROVE  SumFunctionOnSet(f, S) \in Nat
<1> DEFINE C == {s \in SUBSET S : SumFunctionOnSet(f, s) \notin Nat}
<1>0. \A s \in SUBSET S : IsFiniteSet(s) /\ Cardinality(s) \in Nat
  BY FS_Subset, FS_CardinalityType
<1> SUFFICES ASSUME C # {} PROVE FALSE
  OBVIOUS
<1>1. PICK s \in C : \A t \in C : Cardinality(s) <= Cardinality(t)
  BY <1>0, LeastSet
<1>2. s # {}
  BY <1>1, SumEmpty
<1>3. /\ One(s) \in s /\ Others(s) \in SUBSET S
      /\ Cardinality(Others(s)) = Cardinality(s) - 1
  BY <1>0, <1>2, OneIsIn
<1>4. SumFunctionOnSet(f, Others(s)) \in Nat
  BY <1>0, <1>1, <1>3
<1> QED
  BY <1>0, <1>1, <1>2, <1>3, <1>4, SumOfOthers

\* Any element may be the one that is added last.
LEMMA SumOfRest ==
  ASSUME NEW S, IsFiniteSet(S), NEW f, \A x \in S : f[x] \in Nat
  PROVE  \A x \in S : SumFunctionOnSet(f, S) = f[x] + SumFunctionOnSet(f, S \ {x})
<1> DEFINE C == {s \in SUBSET S :
                   \E x \in s : SumFunctionOnSet(f, s) # f[x] + SumFunctionOnSet(f, s \ {x})}
<1>0. \A s \in SUBSET S : IsFiniteSet(s) /\ Cardinality(s) \in Nat /\ SumFunctionOnSet(f, s) \in Nat
  BY FS_Subset, FS_CardinalityType, SumTyped
<1> SUFFICES ASSUME C # {} PROVE FALSE
  OBVIOUS
<1>1. PICK s \in C : \A t \in C : Cardinality(s) <= Cardinality(t)
  BY <1>0, LeastSet
<1>2. PICK x \in s : SumFunctionOnSet(f, s) # f[x] + SumFunctionOnSet(f, s \ {x})
  BY <1>1
<1> DEFINE y == One(s)
<1>3. /\ y \in s /\ s \ {y} \in SUBSET S /\ Cardinality(s \ {y}) = Cardinality(s) - 1
      /\ SumFunctionOnSet(f, s) = f[y] + SumFunctionOnSet(f, s \ {y})
  BY <1>0, <1>2, OneIsIn, SumOfOthers DEF Others
<1> HIDE DEF y
<1>4. x # y
  BY <1>2, <1>3
<1>5. s \ {x} \in SUBSET S /\ Cardinality(s \ {x}) = Cardinality(s) - 1
  BY <1>0, <1>2, FS_RemoveElement
<1>6. s \ {y} \notin C /\ s \ {x} \notin C
  <2> HIDE DEF C
  <2>1. Cardinality(s) \in Nat
    BY <1>0 DEF C
  <2> QED
    BY <1>1, <1>3, <1>5, <2>1
<1>7. SumFunctionOnSet(f, s \ {y}) = f[x] + SumFunctionOnSet(f, (s \ {y}) \ {x})
  BY <1>2, <1>3, <1>4, <1>6
<1>8. SumFunctionOnSet(f, s \ {x}) = f[y] + SumFunctionOnSet(f, (s \ {x}) \ {y})
  BY <1>3, <1>4, <1>5, <1>6
<1>9. PICK rest \in SUBSET S : rest = (s \ {y}) \ {x} /\ rest = (s \ {x}) \ {y}
  BY <1>1
<1>10. f[x] \in Nat /\ f[y] \in Nat /\ SumFunctionOnSet(f, rest) \in Nat
  BY <1>0, <1>2, <1>3
<1> HIDE DEF C
<1>11. SumFunctionOnSet(f, s) = f[y] + (f[x] + SumFunctionOnSet(f, rest))
  BY <1>3, <1>7, <1>9
<1>12. SumFunctionOnSet(f, s) # f[x] + (f[y] + SumFunctionOnSet(f, rest))
  BY <1>2, <1>8, <1>9
<1> QED
  BY <1>10, <1>11, <1>12

\* A sum depends on the values over the set only.
LEMMA SumAgrees ==
  ASSUME NEW S, IsFiniteSet(S), NEW f, NEW g, \A x \in S : f[x] = g[x]
  PROVE  SumFunctionOnSet(f, S) = SumFunctionOnSet(g, S)
<1> DEFINE C == {s \in SUBSET S : SumFunctionOnSet(f, s) # SumFunctionOnSet(g, s)}
<1>0. \A s \in SUBSET S : IsFiniteSet(s) /\ Cardinality(s) \in Nat
  BY FS_Subset, FS_CardinalityType
<1> SUFFICES ASSUME C # {} PROVE FALSE
  OBVIOUS
<1>1. PICK s \in C : \A t \in C : Cardinality(s) <= Cardinality(t)
  BY <1>0, LeastSet
<1>2. s # {}
  BY <1>1, SumEmpty
<1>3. /\ One(s) \in s /\ Others(s) \in SUBSET S
      /\ Cardinality(Others(s)) = Cardinality(s) - 1
  BY <1>0, <1>2, OneIsIn
<1>4. SumFunctionOnSet(f, Others(s)) = SumFunctionOnSet(g, Others(s))
  BY <1>0, <1>1, <1>3
<1> QED
  BY <1>0, <1>1, <1>2, <1>3, <1>4, SumOfOthers

LEMMA SumOfPart ==
  ASSUME NEW S, IsFiniteSet(S), NEW f, \A x \in S : f[x] \in Nat, NEW T \in SUBSET S
  PROVE  SumFunctionOnSet(f, T) <= SumFunctionOnSet(f, S)
<1> DEFINE C == {s \in SUBSET S : T \subseteq s /\ ~(SumFunctionOnSet(f, T) <= SumFunctionOnSet(f, s))}
<1>0. \A s \in SUBSET S : IsFiniteSet(s) /\ Cardinality(s) \in Nat /\ SumFunctionOnSet(f, s) \in Nat
  BY FS_Subset, FS_CardinalityType, SumTyped
<1> SUFFICES ASSUME C # {} PROVE FALSE
  OBVIOUS
<1>1. PICK s \in C : \A t \in C : Cardinality(s) <= Cardinality(t)
  BY <1>0, LeastSet
<1>2. s # T
  BY <1>0, <1>1
<1>3. PICK x \in s : x \notin T
  BY <1>1, <1>2
<1>4. s \ {x} \in SUBSET S /\ T \subseteq s \ {x} /\ Cardinality(s \ {x}) = Cardinality(s) - 1
  BY <1>0, <1>1, <1>3, FS_RemoveElement
<1>5. SumFunctionOnSet(f, T) <= SumFunctionOnSet(f, s \ {x})
  BY <1>0, <1>1, <1>4
<1>6. SumFunctionOnSet(f, s) = f[x] + SumFunctionOnSet(f, s \ {x})
  BY <1>0, <1>3, SumOfRest
<1> QED
  BY <1>0, <1>1, <1>3, <1>4, <1>5, <1>6

-----------------------------------------------------------------------------
\* token-admission.lua

LEMMA SameReservation ==
  ASSUME NEW q \in Requests, reservation'[q] = reservation[q]
  PROVE  /\ IsActive(q)' = IsActive(q) /\ InLease(q)' = InLease(q)
         /\ ReservationOk(q) => ReservationOk(q)'
         /\ leases'[q] = leases[q] => (InIndex(q) => InIndex(q)')
  BY DEF IsActive, InLease, ReservationOk, InIndex

LEMMA LiveIsInLease ==
  ASSUME Typed, SlotsInv
  PROVE  Live(leases) = {r \in Requests : InLease(r)}
<1>1. ASSUME NEW r \in Requests PROVE r \in Live(leases) <=> InLease(r)
  <2>1. InIndex(r) /\ Ttl \in Nat /\ Gone \notin Nat
    BY Amount, NoKeyIsGone DEF SlotsInv
  <2>2. CASE InLease(r)
    <3>1. reservation[r] \in Reservations /\ reservation[r].life > Ttl
      BY <2>2 DEF InLease, IsActive, Typed, KeysTyped
    <3>2. leases[r] = reservation[r].life - Ttl /\ reservation[r].life \in Nat
      BY <2>1, <2>2, <3>1 DEF InIndex, Reservations
    <3>3. leases[r] # Gone /\ leases[r] > 0
      BY <2>1, <3>1, <3>2
    <3> QED
      BY <2>2, <3>3 DEF Live
  <2>3. CASE ~InLease(r)
    BY <2>1, <2>3 DEF InIndex, Live
  <2> QED
    BY <2>2, <2>3
<1> QED
  BY <1>1 DEF Live

LEMMA UsedTyped ==
  ASSUME KeysTyped, NEW p \in Periods PROVE Used(p) \in Nat
  BY DEF KeysTyped, Used, Budgets

\* What an admission draws, the ideal buckets have.
LEMMA ReserveBuckets ==
  ASSUME Typed, BucketsCovered, NEW r \in Requests, NEW e \in Estimates, Admissible(e), Reserve(r, e)
  PROVE  /\ tpm' \in Buckets(Capacity) /\ rpm' \in Buckets(CallCapacity)
         /\ tokens' \in Nat /\ calls' \in Nat /\ BucketsCovered'
         /\ e.cost \in 1..Capacity /\ e.cost * Unit <= tokens /\ tokens' = tokens - e.cost * Unit
         /\ Unit <= calls /\ calls' = calls - Unit
<1> DEFINE l == Level(tpm, Capacity, Rate)
           k == Level(rpm, CallCapacity, CallRate)
<1>0. /\ tokens \in Nat /\ calls \in Nat /\ e.cost \in Nat \ {0} /\ Unit \in Nat \ {0}
      /\ Covers(tpm, Capacity, Rate, tokens) /\ Covers(rpm, CallCapacity, CallRate, calls)
      /\ tokens <= Capacity * Unit /\ calls <= CallCapacity * Unit
  BY Amount DEF Typed, BucketsCovered, Covers
<1>1. l \in 0..Capacity /\ l * Unit <= tokens /\ k \in 0..CallCapacity /\ k * Unit <= calls
  BY <1>0, Amount, LevelOk DEF Typed, KeysTyped
<1>2. l >= e.cost /\ k >= 1
  BY DEF Admissible
<1>3. /\ tpm' = Bucket(l - e.cost) /\ rpm' = Bucket(k - 1)
      /\ tokens' = tokens - e.cost * Unit /\ calls' = calls - Unit
  BY DEF Reserve
<1> HIDE DEF l, k
<1>4. /\ e.cost \in 1..Capacity /\ l - e.cost \in 0..Capacity /\ k - 1 \in 0..CallCapacity
  BY <1>0, <1>1, <1>2, Amount
<1>5. /\ (l - e.cost) * Unit = l * Unit - e.cost * Unit /\ l * Unit \in Int /\ e.cost * Unit \in Int
      /\ (k - 1) * Unit = k * Unit - 1 * Unit /\ k * Unit \in Int /\ 1 * Unit = Unit
  <2>1. l \in Int /\ k \in Int /\ e.cost \in Int /\ Unit \in Int /\ 1 \in Int
    BY <1>0, <1>1, Amount
  <2>2. (l - e.cost) * Unit = l * Unit - e.cost * Unit /\ l * Unit \in Int /\ e.cost * Unit \in Int
    BY <2>1, Distributive
  <2>3. (k - 1) * Unit = k * Unit - 1 * Unit /\ k * Unit \in Int
    BY <2>1, Distributive
  <2> QED
    BY <2>1, <2>2, <2>3
<1>6. e.cost * Unit <= l * Unit /\ 1 * Unit <= k * Unit /\ e.cost * Unit \in Nat
  <2>1. l \in Nat /\ k \in Nat /\ e.cost \in Nat /\ Unit \in Nat /\ 1 \in Nat
    BY <1>0, <1>1, Amount
  <2>2. e.cost * Unit <= l * Unit /\ e.cost * Unit \in Nat
    BY <1>2, <2>1, MulMono
  <2>3. 1 * Unit <= k * Unit
    BY <1>2, <2>1, MulMono
  <2> QED
    BY <2>2, <2>3
<1>7. /\ tokens' \in Nat /\ tokens' <= Capacity * Unit /\ (l - e.cost) * Unit <= tokens'
      /\ e.cost * Unit <= tokens
  <2>1. Capacity * Unit \in Nat
    BY Amount, MulMono
  <2> QED
    BY <1>0, <1>1, <1>3, <1>5, <1>6, <2>1
<1>8. calls' \in Nat /\ calls' <= CallCapacity * Unit /\ (k - 1) * Unit <= calls' /\ Unit <= calls
  <2>1. CallCapacity * Unit \in Nat
    BY Amount, MulMono
  <2> QED
    BY <1>0, <1>1, <1>3, <1>5, <1>6, <2>1
<1>9. tpm' \in Buckets(Capacity) /\ Covers(tpm', Capacity, Rate, tokens')
  BY <1>3, <1>4, <1>7, NewBucket, Amount
<1>10. rpm' \in Buckets(CallCapacity) /\ Covers(rpm', CallCapacity, CallRate, calls')
  BY <1>3, <1>4, <1>8, NewBucket, Amount
<1> QED
  BY <1>3, <1>4, <1>7, <1>8, <1>9, <1>10 DEF BucketsCovered, Covers

LEMMA PurgedIs ==
  ASSUME Typed
  PROVE  /\ Purged \in [Requests -> 0..Ttl \cup {Gone}]
         /\ Live(Purged) = Live(leases)
         /\ \A q \in Requests : InIndex(q) => Purged[q] = (IF InLease(q) THEN leases[q] ELSE Gone)
<1>1. Purged \in [Requests -> 0..Ttl \cup {Gone}]
  BY DEF Typed, Purged
<1>2. Live(Purged) = Live(leases)
  BY DEF Live, Purged
<1>3. ASSUME NEW q \in Requests, InIndex(q)
      PROVE  Purged[q] = (IF InLease(q) THEN leases[q] ELSE Gone)
  <2>1. CASE InLease(q)
    <3>1. reservation[q] \in Reservations /\ reservation[q].life > Ttl
      BY <2>1 DEF InLease, IsActive, Typed, KeysTyped
    <3>2. leases[q] = reservation[q].life - Ttl /\ reservation[q].life \in Nat /\ Ttl \in Nat
      BY <1>3, <2>1, <3>1, Amount DEF InIndex, Reservations
    <3>3. leases[q] # Gone /\ leases[q] > 0
      BY <3>1, <3>2, NoKeyIsGone
    <3> QED
      BY <2>1, <3>3 DEF Purged, Live
  <2>2. CASE ~InLease(q)
    BY <1>3, <2>2 DEF InIndex, Purged, Live
  <2> QED
    BY <2>1, <2>2
<1> QED
  BY <1>1, <1>2, <1>3

LEMMA ReserveKeys ==
  ASSUME Typed, BucketsCovered, NEW r \in Requests, NEW e \in Estimates, Admissible(e), Reserve(r, e)
  PROVE  /\ KeysTyped'
         /\ InLease(r)' /\ reservation'[r] # Gone /\ reservation'[r].life = 2 * Ttl
         /\ \A q \in Requests \ {r} : reservation'[q] = reservation[q]
<1> DEFINE new == [status |-> "active", cost |-> e.cost, spend |-> e.spend,
                   period |-> period, life |-> 2 * Ttl]
           kept == [used |-> Used(period) + e.spend, life |-> Ttl]
<1>0. KeysTyped /\ period \in Periods
  BY DEF Typed
<1>1. new \in Reservations /\ new # Gone /\ 2 * Ttl > Ttl
  BY <1>0, Amount, ReserveBuckets, NoKeyIsGone DEF Reservations
<1>2. kept \in Budgets
  BY <1>0, Amount, UsedTyped DEF Budgets
<1>3. /\ reservation' \in [Requests -> Reservations \cup {Gone}] /\ reservation'[r] = new
      /\ \A q \in Requests \ {r} : reservation'[q] = reservation[q]
  BY <1>0, <1>1 DEF Reserve, KeysTyped
<1>4. budget' \in [Periods -> Budgets \cup {Gone}]
  BY <1>0, <1>2 DEF Reserve, KeysTyped
<1>5. IsActive(r)' /\ InLease(r)'
  BY <1>1, <1>3 DEF IsActive, InLease
<1>6. ReservationOk(r)'
  BY <1>3, <1>5, Amount DEF ReservationOk
<1>7. \A q \in Requests : ReservationOk(q)'
  BY <1>0, <1>3, <1>6, SameReservation DEF KeysTyped
<1> QED
  BY <1>1, <1>3, <1>4, <1>5, <1>7, ReserveBuckets DEF KeysTyped

LEMMA AdmitKeeps ==
  ASSUME GateInv, NEW g \in Gateways, NEW r \in Requests, Admit(g, r) PROVE GateInv'
<1>0. Typed /\ BucketsCovered /\ SlotsInv /\ GatewaysInv
  BY DEF GateInv
<1>1. PICK e \in Estimates : Admissible(e) /\ Reserve(r, e)
  BY DEF Admit
<1>2. reservation[r] = Gone /\ gateway[g] = Idle /\ Answered(g, r) /\ UNCHANGED <<period, late>>
  BY DEF Admit
<1>3. /\ KeysTyped' /\ InLease(r)' /\ reservation'[r] # Gone /\ reservation'[r].life = 2 * Ttl
      /\ \A q \in Requests \ {r} : reservation'[q] = reservation[q]
  BY <1>0, <1>1, ReserveKeys
<1>4. leases' = [Purged EXCEPT ![r] = Ttl] /\ Ttl \in Nat \ {0} /\ 2 * Ttl - Ttl = Ttl
  BY <1>1, Amount DEF Reserve
<1>5. /\ leases' \in [Requests -> 0..Ttl \cup {Gone}] /\ leases'[r] = Ttl
      /\ \A q \in Requests \ {r} : leases'[q] = Purged[q]
  BY <1>0, <1>4, PurgedIs
<1>6. SlotsInv'
  <2>1. \A q \in Requests \ {r} : InIndex(q)'
    BY <1>0, <1>3, <1>5, PurgedIs, SameReservation DEF SlotsInv, InIndex
  <2>2. InIndex(r)'
    BY <1>3, <1>4, <1>5 DEF InIndex
  <2>3. Live(leases') = Live(leases) \cup {r}
    <3>1. Ttl # Gone /\ Ttl > 0
      BY <1>4, NoKeyIsGone
    <3>2. \A q \in Requests \ {r} : q \in Live(leases') <=> q \in Live(Purged)
      BY <1>5 DEF Live
    <3>3. r \in Live(leases')
      BY <1>5, <3>1 DEF Live
    <3>4. Live(leases') \subseteq Requests /\ Live(leases) \subseteq Requests
      BY DEF Live
    <3> QED
      BY <1>0, <3>2, <3>3, <3>4, PurgedIs
  <2>4. IsFiniteSet(Live(leases)) /\ Cardinality(Live(leases)) < MaxConcurrent
        /\ Cardinality(Live(leases)) \in Nat
    BY <1>0, <1>1, FS_CardinalityType DEF SlotsInv, Admissible
  <2>5. /\ IsFiniteSet(Live(leases) \cup {r})
        /\ Cardinality(Live(leases) \cup {r})
             = IF r \in Live(leases) THEN Cardinality(Live(leases)) ELSE Cardinality(Live(leases)) + 1
    BY <2>4, FS_AddElement
  <2>6. Cardinality(Live(leases')) \in Nat /\ Cardinality(Live(leases')) <= MaxConcurrent
    BY <2>3, <2>4, <2>5, FS_CardinalityType, Amount
  <2>7. Live(leases)' = Live(leases')
    BY DEF Live
  <2> QED
    BY <2>1, <2>2, <2>3, <2>5, <2>6, <2>7 DEF SlotsInv
<1>7. GatewaysInv' /\ gateway' \in [Gateways -> Working \cup {Idle}]
  <2> DEFINE new == [at |-> "running", id |-> r, period |-> period, left |-> Ttl]
  <2>1. new \in Working /\ new # Idle /\ gateway \in [Gateways -> Working \cup {Idle}]
    BY <1>0, <1>4, WorkingIsNotIdle DEF Working, Typed
  <2>2. \A h \in Gateways \ {g} : gateway'[h] = gateway[h]
    BY <1>2, <2>1 DEF Answered
  <2>3. gateway' \in [Gateways -> Working \cup {Idle}] /\ gateway'[g] \in {new, Idle}
    BY <1>2, <2>1 DEF Answered
  <2>4. ASSUME ~late, NEW h \in Gateways \ {g}, gateway[h] # Idle
        PROVE  gateway[h].id \in Requests \ {r} /\ GatewayOk(h)'
    <3>1. gateway[h] \in Working /\ GatewayOk(h) /\ gateway'[h] = gateway[h]
      BY <1>0, <2>1, <2>2, <2>4 DEF GatewaysInv
    <3>2. PICK q \in Requests \ {r} : q = gateway[h].id
      BY <1>2, <2>4, <3>1 DEF GatewayOk, Working
    <3>3. InLease(q)' = InLease(q) /\ IsActive(q)' = IsActive(q) /\ reservation'[q] = reservation[q]
      BY <1>3, SameReservation
    <3> QED
      BY <1>3, <3>1, <3>2, <3>3 DEF GatewayOk
  <2>5. GatewayOk(g)'
    <3>1. CASE gateway'[g] = Idle
      BY <3>1 DEF GatewayOk, Idle
    <3>2. CASE gateway'[g] = new
      <4>1. gateway'[g].id = r /\ gateway'[g].left = Ttl
        BY <3>2
      <4> QED
        BY <1>3, <1>4, <4>1 DEF GatewayOk, InLease
    <3> QED
      BY <2>3, <3>1, <3>2
  <2>6. gateway'[g] # Idle => gateway'[g].id = r
    BY <2>3
  <2>7. Idle' = Idle
    BY DEF Idle
  <2>8. ASSUME ~late, NEW h \in Gateways PROVE GatewayOk(h)'
    BY <2>2, <2>4, <2>5, <2>7, <2>8 DEF GatewayOk
  <2>9. ASSUME ~late, NEW h \in Gateways, NEW i \in Gateways,
               gateway'[h] # Idle, gateway'[i] # Idle, gateway'[h].id = gateway'[i].id
        PROVE  h = i
    BY <1>0, <2>2, <2>4, <2>6, <2>9 DEF GatewaysInv
  <2> QED
    BY <1>2, <2>3, <2>7, <2>8, <2>9 DEF GatewaysInv
<1>8. BucketsCovered' /\ tokens' \in Nat /\ calls' \in Nat
  BY <1>0, <1>1, ReserveBuckets
<1> QED
  BY <1>0, <1>2, <1>3, <1>5, <1>6, <1>7, <1>8 DEF GateInv, Typed

LEMMA DenyKeeps ==
  ASSUME GateInv, NEW g \in Gateways, NEW r \in Requests, Deny(g, r) PROVE GateInv'
<1>0. Typed /\ BucketsCovered /\ SlotsInv /\ GatewaysInv
  BY DEF GateInv
<1>1. leases' = Purged /\ UNCHANGED <<tpm, rpm, budget, reservation, period, gateway, tokens, calls, late>>
  BY DEF Deny
<1>2. Typed'
  BY <1>0, <1>1, PurgedIs DEF Typed, KeysTyped, ReservationOk, IsActive
<1>3. BucketsCovered' /\ GatewaysInv'
  BY <1>0, <1>1 DEF BucketsCovered, Covers, GatewaysInv, GatewayOk, InLease, IsActive, Idle
<1>4. SlotsInv'
  <2>1. \A q \in Requests : InIndex(q)'
    BY <1>0, <1>1, PurgedIs DEF SlotsInv, InIndex, InLease, IsActive
  <2>2. Live(leases)' = Live(leases)
    BY <1>0, <1>1, PurgedIs DEF Live
  <2> QED
    BY <1>0, <2>1, <2>2 DEF SlotsInv
<1> QED
  BY <1>2, <1>3, <1>4 DEF GateInv

-----------------------------------------------------------------------------
\* token-settlement.lua

LEMMA RefundBuckets ==
  ASSUME Typed, BucketsCovered, NEW n \in 0..Capacity, Refund(n), UNCHANGED <<rpm, calls>>
  PROVE  tpm' \in Buckets(Capacity) /\ tokens' \in Nat /\ BucketsCovered'
<1> DEFINE l == Level(tpm, Capacity, Rate)
           m == Least(Capacity, l + n)
           t == Least(Capacity * Unit, tokens + n * Unit)
<1>0. /\ tokens \in Nat /\ Unit \in Nat /\ Capacity \in Nat /\ n \in Nat
      /\ Covers(tpm, Capacity, Rate, tokens) /\ Capacity * Unit \in Nat /\ n * Unit \in Nat
  BY Amount, MulMono DEF Typed, BucketsCovered
<1>1. l \in 0..Capacity /\ l * Unit <= tokens
  BY <1>0, Amount, LevelOk DEF Typed, KeysTyped
<1>2. tpm' = Bucket(m) /\ tokens' = t
  BY DEF Refund
<1> HIDE DEF l
<1>3. m \in 0..Capacity /\ m <= l + n
  BY <1>0, <1>1, LeastIs
<1> HIDE DEF m
<1>4. m * Unit <= Capacity * Unit /\ m * Unit <= (l + n) * Unit
  BY <1>0, <1>1, <1>3, MulMono
<1>5. (l + n) * Unit = l * Unit + n * Unit /\ l * Unit \in Int
  BY <1>0, <1>1, Distributive
<1>6. m * Unit \in Nat
  BY <1>0, <1>3, MulMono
<1>7. t \in Nat /\ t <= Capacity * Unit /\ m * Unit <= t
  BY <1>0, <1>1, <1>4, <1>5, <1>6 DEF Least
<1> HIDE DEF t
<1>8. tpm' \in Buckets(Capacity) /\ Covers(tpm', Capacity, Rate, tokens')
  BY <1>2, <1>3, <1>7, NewBucket, Amount
<1> QED
  BY <1>2, <1>7, <1>8 DEF BucketsCovered, Covers

\* A request leaves the lease, or never was in it: its slot and its member go.
LEMMA SlotGoes ==
  ASSUME Typed, SlotsInv, NEW r \in Requests, ~InLease(r)',
         leases' = [leases EXCEPT ![r] = Gone],
         \A q \in Requests \ {r} : reservation'[q] = reservation[q]
  PROVE  SlotsInv' /\ leases' \in [Requests -> 0..Ttl \cup {Gone}]
<1>1. /\ leases' \in [Requests -> 0..Ttl \cup {Gone}] /\ leases'[r] = Gone
      /\ \A q \in Requests \ {r} : leases'[q] = leases[q]
  BY DEF Typed
<1>2. \A q \in Requests : InIndex(q)'
  BY <1>1, SameReservation DEF SlotsInv, InIndex
<1>3. Live(leases)' \subseteq Live(leases)
  BY <1>1 DEF Live
<1>4. IsFiniteSet(Live(leases)) /\ Cardinality(Live(leases)) <= MaxConcurrent
  BY DEF SlotsInv
<1>5. IsFiniteSet(Live(leases)') /\ Cardinality(Live(leases)') <= Cardinality(Live(leases))
  BY <1>3, <1>4, FS_Subset
<1>6. Cardinality(Live(leases)) \in Nat /\ Cardinality(Live(leases)') \in Nat
  BY <1>4, <1>5, FS_CardinalityType
<1> QED
  BY <1>1, <1>2, <1>4, <1>5, <1>6, Amount DEF SlotsInv

LEMMA FinalReservation ==
  ASSUME NEW res \in Reservations, NEW status \in {"settled", "expired"}
  PROVE  LET new == [res EXCEPT !.status = status, !.life = Ttl]
         IN  /\ new \in Reservations /\ new.status = status /\ new.life = Ttl
             /\ new.cost = res.cost /\ new.spend = res.spend
<1> DEFINE new == [res EXCEPT !.status = status, !.life = Ttl]
           old == [res EXCEPT !.status = status]
<1>1. Ttl \in 1..(2 * Ttl)
  BY Amount
<1>2. old \in Reservations /\ old.status = status /\ old.cost = res.cost /\ old.spend = res.spend
  BY DEF Reservations
<1>3. new = [old EXCEPT !.life = Ttl]
  OBVIOUS
<1> HIDE DEF old, new
<1> QED
  BY <1>1, <1>2, <1>3 DEF Reservations

\* What a settlement writes.
LEMMA SettleActiveKeys ==
  ASSUME Typed, BucketsCovered, NEW r \in Requests, IsActive(r), NEW a \in Actuals, SettleActive(r, a)
  PROVE  /\ KeysTyped' /\ tokens' \in Nat /\ calls' \in Nat /\ BucketsCovered'
         /\ ~IsActive(r)' /\ reservation'[r] # Gone
         /\ \A q \in Requests \ {r} : reservation'[q] = reservation[q]
         /\ \E n \in 0..Capacity : Refund(n)
<1> DEFINE res == reservation[r]
           n == Most(0, res.cost - a.cost)
           back == Most(0, res.spend - a.spend)
           new == [res EXCEPT !.status = "settled", !.life = Ttl]
<1>0. KeysTyped /\ res \in Reservations /\ ReservationOk(r) /\ res # Gone
  BY DEF Typed, KeysTyped, IsActive
<1>1. n \in 0..Capacity /\ Refund(n) /\ UNCHANGED <<rpm, calls>>
  BY <1>0, Amount DEF SettleActive, Reservations, Most
<1>2. tpm' \in Buckets(Capacity) /\ tokens' \in Nat /\ BucketsCovered'
  BY <1>1, RefundBuckets
<1>3. /\ new \in Reservations /\ new.status = "settled" /\ new.life = Ttl
      /\ new.cost = res.cost /\ new.spend = res.spend
  BY <1>0, FinalReservation
<1>4. reservation' = [reservation EXCEPT ![r] = new]
  BY <1>0 DEF SettleActive, KeysTyped
<1> HIDE DEF new
<1>5. /\ reservation' \in [Requests -> Reservations \cup {Gone}] /\ reservation'[r] = new
      /\ \A q \in Requests \ {r} : reservation'[q] = reservation[q]
  BY <1>0, <1>3, <1>4 DEF KeysTyped
<1>6. ~IsActive(r)' /\ reservation'[r] # Gone
  BY <1>3, <1>5, NoKeyIsGone DEF IsActive
<1>7. ReservationOk(r)'
  <2>1. Ttl <= Ttl
    BY Amount
  <2> QED
    BY <1>0, <1>3, <1>5, <2>1 DEF ReservationOk
<1>8. budget' \in [Periods -> Budgets \cup {Gone}]
  <2>1. res.period \in Periods /\ back \in Nat /\ Used(res.period) \in Nat
    BY <1>0, Amount, UsedTyped DEF Reservations, Most
  <2>2. Most(0, Used(res.period) - back) \in Nat
    BY <2>1 DEF Most
  <2>3. RefundSpend(res.period, back)
    BY DEF SettleActive
  <2> HIDE DEF back
  <2>4. [used |-> Most(0, Used(res.period) - back), life |-> Ttl] \in Budgets
    BY <2>2, Amount DEF Budgets
  <2> QED
    BY <1>0, <2>3, <2>4 DEF RefundSpend, KeysTyped
<1>9. \A q \in Requests : ReservationOk(q)'
  BY <1>0, <1>5, <1>7, SameReservation DEF KeysTyped
<1>10. rpm' \in Buckets(CallCapacity) \cup {Gone} /\ calls' \in Nat
  BY <1>1 DEF Typed, KeysTyped
<1> QED
  BY <1>1, <1>2, <1>5, <1>6, <1>8, <1>9, <1>10 DEF KeysTyped

LEMMA GatewayOkSame ==
  ASSUME NEW h \in Gateways, gateway[h].id \in Requests, gateway'[h] = gateway[h],
         reservation'[gateway[h].id] = reservation[gateway[h].id]
  PROVE  GatewayOk(h) => GatewayOk(h)'
<1> PICK q \in Requests : q = gateway[h].id
  OBVIOUS
<1>1. InLease(q)' = InLease(q) /\ IsActive(q)' = IsActive(q)
  BY SameReservation
<1> QED
  BY <1>1 DEF GatewayOk, Idle

\* A gateway's call is over, or not answered.
LEMMA GatewayMoves ==
  ASSUME Typed, GatewaysInv, NEW g \in Gateways, gateway[g] # Idle,
         NEW r \in Requests, r = gateway[g].id,
         gateway' \in {[gateway EXCEPT ![g] = Idle], [gateway EXCEPT ![g].at = "settling"]},
         reservation'[r] = reservation[r] \/ (reservation'[r] # Gone /\ ~IsActive(r)'),
         \A q \in Requests \ {r} : reservation'[q] = reservation[q],
         UNCHANGED late
  PROVE  GatewaysInv' /\ gateway' \in [Gateways -> Working \cup {Idle}]
<1> DEFINE w == [gateway[g] EXCEPT !.at = "settling"]
<1>1. gateway[g] \in Working /\ gateway \in [Gateways -> Working \cup {Idle}]
  BY DEF Typed
<1>2. w \in Working /\ w.at = "settling" /\ w.id = gateway[g].id /\ w.left = gateway[g].left
  BY <1>1 DEF Working
<1>3. gateway' \in {[gateway EXCEPT ![g] = Idle], [gateway EXCEPT ![g] = w]}
  BY <1>1
<1> HIDE DEF w
<1>4. /\ gateway' \in [Gateways -> Working \cup {Idle}] /\ gateway'[g] \in {Idle, w}
      /\ \A h \in Gateways \ {g} : gateway'[h] = gateway[h]
  BY <1>1, <1>2, <1>3
<1>5. ASSUME ~late, NEW h \in Gateways \ {g}, gateway[h] # Idle
      PROVE  gateway[h].id \in Requests \ {gateway[g].id} /\ GatewayOk(h)'
  <2>1. gateway[h] \in Working /\ GatewayOk(h) /\ gateway'[h] = gateway[h]
    BY <1>1, <1>4, <1>5 DEF GatewaysInv
  <2>2. gateway[h].id \in Requests \ {gateway[g].id}
    BY <1>5, <2>1 DEF GatewaysInv, Working
  <2> QED
    BY <2>1, <2>2, GatewayOkSame
<1>6. ~late => GatewayOk(g)'
  <2> SUFFICES ASSUME ~late, gateway'[g] = w PROVE GatewayOk(g)'
    BY <1>4 DEF GatewayOk, Idle
  <2>1. /\ GatewayOk(g) /\ gateway'[g].id = gateway[g].id /\ gateway'[g].at = "settling"
        /\ gateway'[g].left = gateway[g].left
    BY <1>1, <1>2 DEF GatewaysInv
  <2>2. CASE reservation'[r] = reservation[r]
    BY <2>1, <2>2, SameReservation DEF GatewayOk
  <2>3. CASE reservation'[r] # Gone /\ ~IsActive(r)'
    BY <2>1, <2>3 DEF GatewayOk
  <2> QED
    BY <2>2, <2>3
<1>7. Idle' = Idle
  BY DEF Idle
<1>8. ASSUME ~late, NEW h \in Gateways PROVE GatewayOk(h)'
  BY <1>4, <1>5, <1>6, <1>7, <1>8 DEF GatewayOk
<1>9. gateway'[g] # Idle => gateway'[g].id = gateway[g].id
  BY <1>2, <1>4
<1>10. ASSUME ~late, NEW h \in Gateways, NEW i \in Gateways,
              gateway'[h] # Idle, gateway'[i] # Idle, gateway'[h].id = gateway'[i].id
       PROVE  h = i
  <2>1. CASE h # g /\ i # g
    BY <1>4, <1>10, <2>1 DEF GatewaysInv
  <2>2. ASSUME NEW k \in Gateways \ {g}, gateway'[k] # Idle PROVE gateway'[k].id # gateway[g].id
    BY <1>4, <1>5, <1>10, <2>2
  <2>3. CASE h = g /\ i # g
    BY <1>9, <1>10, <2>2, <2>3
  <2>4. CASE h # g /\ i = g
    BY <1>9, <1>10, <2>2, <2>4
  <2> QED
    BY <2>1, <2>3, <2>4
<1> QED
  BY <1>4, <1>7, <1>8, <1>10 DEF GatewaysInv

LEMMA SettleKeeps ==
  ASSUME GateInv, NEW g \in Gateways, NEW p \in Periods, Settle(g, p) PROVE GateInv'
<1>0. Typed /\ BucketsCovered /\ SlotsInv /\ GatewaysInv
  BY DEF GateInv
<1>1. /\ gateway[g] # Idle /\ UNCHANGED <<period, late>>
      /\ gateway' \in {[gateway EXCEPT ![g] = Idle], [gateway EXCEPT ![g].at = "settling"]}
  BY DEF Settle
<1>2. PICK r \in Requests : r = gateway[g].id
  BY <1>0, <1>1 DEF Typed, Working
<1>3. CASE UNCHANGED <<keys, tokens, calls>>
  <2>1. UNCHANGED <<tpm, rpm, budget, reservation, leases, tokens, calls>>
    BY <1>3 DEF keys
  <2>2. GatewaysInv' /\ gateway' \in [Gateways -> Working \cup {Idle}]
    BY <1>0, <1>1, <1>2, <2>1, GatewayMoves
  <2>3. Typed'
    BY <1>0, <1>1, <2>1, <2>2 DEF Typed, KeysTyped, ReservationOk, IsActive
  <2>4. BucketsCovered' /\ SlotsInv'
    BY <1>0, <2>1 DEF BucketsCovered, Covers, SlotsInv, InIndex, InLease, IsActive, Live
  <2> QED
    BY <2>2, <2>3, <2>4 DEF GateInv
<1>4. ASSUME IsActive(r), NEW a \in Actuals, SettleActive(r, a) PROVE GateInv'
  <2>1. /\ KeysTyped' /\ tokens' \in Nat /\ calls' \in Nat /\ BucketsCovered'
        /\ ~IsActive(r)' /\ reservation'[r] # Gone
        /\ \A q \in Requests \ {r} : reservation'[q] = reservation[q]
    BY <1>0, <1>4, SettleActiveKeys
  <2>2. leases' = [leases EXCEPT ![r] = Gone]
    BY <1>4 DEF SettleActive
  <2>3. SlotsInv' /\ leases' \in [Requests -> 0..Ttl \cup {Gone}]
    BY <1>0, <2>1, <2>2, SlotGoes DEF InLease
  <2>4. GatewaysInv' /\ gateway' \in [Gateways -> Working \cup {Idle}]
    BY <1>0, <1>1, <1>2, <2>1, GatewayMoves
  <2> QED
    BY <1>0, <1>1, <2>1, <2>3, <2>4 DEF GateInv, Typed
<1> QED
  BY <1>2, <1>3, <1>4 DEF Settle

-----------------------------------------------------------------------------
\* reservation-cleanup.lua, and gateways that go.

LEMMA CleanupKeeps ==
  ASSUME GateInv, NEW r \in Requests, Cleanup(r) PROVE GateInv'
<1>0. Typed /\ BucketsCovered /\ SlotsInv /\ GatewaysInv
  BY DEF GateInv
<1>1. /\ ~InLease(r) /\ leases' = [leases EXCEPT ![r] = Gone]
      /\ UNCHANGED <<tpm, rpm, budget, period, gateway, tokens, calls, late>>
  BY DEF Cleanup
<1>2. /\ reservation' \in [Requests -> Reservations \cup {Gone}]
      /\ \A q \in Requests \ {r} : reservation'[q] = reservation[q]
      /\ ~InLease(r)' /\ ReservationOk(r)'
      /\ reservation[r] # Gone => reservation'[r] # Gone
  <2>1. CASE IsActive(r)
    <3> DEFINE res == reservation[r]
               new == [res EXCEPT !.status = "expired", !.life = Ttl]
    <3>1. res \in Reservations /\ ReservationOk(r) /\ res # Gone
      BY <1>0, <2>1 DEF Typed, KeysTyped, IsActive
    <3>2. /\ new \in Reservations /\ new.status = "expired" /\ new.life = Ttl
          /\ new.cost = res.cost /\ new.spend = res.spend
      BY <3>1, FinalReservation
    <3>3. reservation' = [reservation EXCEPT ![r] = new]
      BY <1>0, <2>1 DEF Cleanup, Typed, KeysTyped
    <3> HIDE DEF new
    <3>4. /\ reservation' \in [Requests -> Reservations \cup {Gone}] /\ reservation'[r] = new
          /\ \A q \in Requests \ {r} : reservation'[q] = reservation[q]
      BY <1>0, <3>2, <3>3 DEF Typed, KeysTyped
    <3>5. ~IsActive(r)' /\ reservation'[r] # Gone
      BY <3>2, <3>4, NoKeyIsGone DEF IsActive
    <3>6. ReservationOk(r)'
      BY <3>1, <3>2, <3>4, Amount DEF ReservationOk
    <3> QED
      BY <3>4, <3>5, <3>6 DEF InLease
  <2>2. CASE ~IsActive(r)
    <3>1. reservation' = reservation /\ ReservationOk(r)
      BY <1>0, <2>2 DEF Cleanup, Typed, KeysTyped
    <3> QED
      BY <1>0, <1>1, <3>1, SameReservation DEF Typed, KeysTyped
  <2> QED
    BY <2>1, <2>2
<1>3. SlotsInv' /\ leases' \in [Requests -> 0..Ttl \cup {Gone}]
  BY <1>0, <1>1, <1>2, SlotGoes
<1>4. Typed'
  <2>1. \A q \in Requests : ReservationOk(q)'
    BY <1>0, <1>2, SameReservation DEF Typed, KeysTyped
  <2> QED
    BY <1>0, <1>1, <1>2, <1>3, <2>1 DEF Typed, KeysTyped
<1>5. ASSUME ~late, NEW h \in Gateways, gateway[h] # Idle PROVE GatewayOk(h)'
  <2>1. gateway[h] \in Working /\ GatewayOk(h)
    BY <1>0, <1>5 DEF Typed, GatewaysInv
  <2>2. PICK q \in Requests : q = gateway[h].id
    BY <2>1 DEF Working
  <2>3. CASE q = r
    <3>1. ~IsActive(r)
      BY <1>1, <1>5, <2>1, <2>2, <2>3 DEF GatewayOk
    <3>2. reservation'[r] = reservation[r]
      BY <3>1 DEF Cleanup
    <3> QED
      BY <1>1, <2>1, <2>2, <2>3, <3>2, GatewayOkSame
  <2>4. CASE q # r
    BY <1>1, <1>2, <2>1, <2>2, <2>4, GatewayOkSame
  <2> QED
    BY <2>3, <2>4
<1>6. GatewaysInv'
  BY <1>0, <1>1, <1>5 DEF GatewaysInv, GatewayOk, Idle
<1>7. BucketsCovered'
  BY <1>0, <1>1 DEF BucketsCovered, Covers
<1> QED
  BY <1>3, <1>4, <1>6, <1>7 DEF GateInv

LEMMA AbandonKeeps ==
  ASSUME GateInv, NEW g \in Gateways, Abandon(g) PROVE GateInv'
<1>0. Typed /\ BucketsCovered /\ SlotsInv /\ GatewaysInv
  BY DEF GateInv
<1>1. /\ gateway[g] # Idle /\ gateway' = [gateway EXCEPT ![g] = Idle]
      /\ UNCHANGED <<tpm, rpm, budget, reservation, leases, period, tokens, calls, late>>
  BY DEF Abandon, keys
<1>2. GatewaysInv' /\ gateway' \in [Gateways -> Working \cup {Idle}]
  <2>1. PICK r \in Requests : r = gateway[g].id
    BY <1>0, <1>1 DEF Typed, Working
  <2> QED
    BY <1>0, <1>1, <2>1, GatewayMoves
<1>3. Typed'
  BY <1>0, <1>1, <1>2 DEF Typed, KeysTyped, ReservationOk, IsActive
<1>4. BucketsCovered' /\ SlotsInv'
  BY <1>0, <1>1 DEF BucketsCovered, Covers, SlotsInv, InIndex, InLease, IsActive, Live
<1> QED
  BY <1>2, <1>3, <1>4 DEF GateInv

LEMMA NextPeriodKeeps ==
  ASSUME GateInv, NextPeriod PROVE GateInv'
<1>0. Typed /\ BucketsCovered /\ SlotsInv /\ GatewaysInv
  BY DEF GateInv
<1>1. /\ period' \in Periods
      /\ UNCHANGED <<tpm, rpm, budget, reservation, leases, gateway, tokens, calls, late>>
  BY DEF NextPeriod, keys
<1>2. Typed'
  BY <1>0, <1>1 DEF Typed, KeysTyped, ReservationOk, IsActive, Idle
<1>3. BucketsCovered' /\ SlotsInv' /\ GatewaysInv'
  BY <1>0, <1>1 DEF BucketsCovered, Covers, SlotsInv, InIndex, InLease, IsActive, Live,
     GatewaysInv, GatewayOk, Idle
<1> QED
  BY <1>2, <1>3 DEF GateInv

-----------------------------------------------------------------------------
\* The clock.

LEMMA KeyAges ==
  ASSUME Typed, Tick, NEW r \in Requests
  PROVE  /\ reservation'[r] \in Reservations \cup {Gone} /\ ReservationOk(r)'
         /\ reservation'[r] # Gone =>
              reservation[r] # Gone /\ reservation'[r].life = reservation[r].life - 1
              /\ (IsActive(r)' <=> IsActive(r))
         /\ reservation[r] # Gone /\ reservation[r].life > 1 => reservation'[r] # Gone
         /\ reservation'[r] = Aged(reservation[r])
<1> DEFINE res == reservation[r]
           new == [res EXCEPT !.life = res.life - 1]
<1>0. /\ reservation'[r] = Aged(res) /\ res \in Reservations \cup {Gone} /\ ReservationOk(r)
  BY DEF Tick, Typed, KeysTyped
<1>1. CASE res = Gone \/ res.life = 1
  <2>1. reservation'[r] = Gone
    BY <1>0, <1>1 DEF Aged
  <2> QED
    BY <1>0, <1>1, <2>1 DEF ReservationOk
<1>2. CASE ~(res = Gone \/ res.life = 1)
  <2>1. reservation'[r] = new
    BY <1>0, <1>2 DEF Aged
  <2>2. res \in Reservations /\ res.life \in 1..(2 * Ttl) /\ res.life - 1 \in 1..(2 * Ttl)
    BY <1>0, <1>2, Amount DEF Reservations
  <2>3. /\ new \in Reservations /\ new.life = res.life - 1 /\ new.status = res.status
        /\ new.cost = res.cost /\ new.spend = res.spend
    BY <2>2 DEF Reservations
  <2> HIDE DEF new
  <2>4. reservation'[r] # Gone /\ (IsActive(r)' <=> IsActive(r))
    BY <1>2, <2>1, <2>3, NoKeyIsGone DEF IsActive
  <2>5. ReservationOk(r)'
    BY <1>0, <1>2, <2>1, <2>2, <2>3, <2>4, Amount DEF ReservationOk
  <2> QED
    BY <1>0, <1>2, <2>1, <2>3, <2>4, <2>5
<1> QED
  BY <1>1, <1>2

LEMMA TickTyped ==
  ASSUME Typed, BucketsCovered, Tick
  PROVE  Typed' /\ BucketsCovered'
<1>1. /\ tpm' \in Buckets(Capacity) \cup {Gone} /\ tokens' \in Nat
      /\ Covers(tpm', Capacity, Rate, tokens')
  BY Amount, BucketAges DEF Typed, KeysTyped, BucketsCovered, Tick
<1>2. /\ rpm' \in Buckets(CallCapacity) \cup {Gone} /\ calls' \in Nat
      /\ Covers(rpm', CallCapacity, CallRate, calls')
  BY Amount, BucketAges DEF Typed, KeysTyped, BucketsCovered, Tick
<1>3. budget' \in [Periods -> Budgets \cup {Gone}]
  <2>1. ASSUME NEW p \in Periods PROVE Aged(budget[p]) \in Budgets \cup {Gone}
    <3> DEFINE b == budget[p]
    <3>1. b \in Budgets \cup {Gone}
      BY DEF Typed, KeysTyped
    <3> HIDE DEF b
    <3>2. Aged(b) \in Budgets \cup {Gone}
      <4>1. CASE b = Gone \/ b.life = 1
        BY <4>1 DEF Aged
      <4>2. CASE b # Gone /\ b.life # 1
        <5>1. b \in Budgets /\ b.life - 1 \in 1..Ttl
          BY <3>1, <4>2, Amount DEF Budgets
        <5>2. [b EXCEPT !.life = b.life - 1] \in Budgets
          BY <5>1 DEF Budgets
        <5> QED
          BY <4>2, <5>2 DEF Aged
      <4> QED
        BY <4>1, <4>2
    <3> QED
      BY <3>2 DEF b
  <2> QED
    BY <2>1 DEF Tick
<1>4. /\ reservation' \in [Requests -> Reservations \cup {Gone}]
      /\ \A r \in Requests : ReservationOk(r)'
  <2>1. \A r \in Requests : reservation'[r] \in Reservations \cup {Gone} /\ ReservationOk(r)'
    BY KeyAges
  <2>2. reservation' = [r \in Requests |-> Aged(reservation[r])]
    BY DEF Tick
  <2> QED
    BY <2>1, <2>2
<1>5. leases' \in [Requests -> 0..Ttl \cup {Gone}]
  <2>1. ASSUME NEW r \in Requests
        PROVE  (IF leases[r] = Gone THEN Gone ELSE Most(0, leases[r] - 1)) \in 0..Ttl \cup {Gone}
    BY Amount DEF Typed, Most
  <2> QED
    BY <2>1 DEF Tick
<1>6. gateway' \in [Gateways -> Working \cup {Idle}]
  <2>1. ASSUME NEW g \in Gateways, gateway[g] # Idle
        PROVE  [gateway[g] EXCEPT !.left = Most(0, gateway[g].left - 1)] \in Working
    <3>1. gateway[g] \in Working /\ gateway[g].left \in 0..Ttl
      BY <2>1 DEF Typed, Working
    <3>2. Most(0, gateway[g].left - 1) \in 0..Ttl
      BY <3>1, Amount DEF Most
    <3> QED
      BY <3>1, <3>2 DEF Working
  <2> QED
    BY <2>1 DEF Tick
<1>7. period' \in Periods /\ late' \in BOOLEAN
  BY DEF Tick, Typed
<1> QED
  BY <1>1, <1>2, <1>3, <1>4, <1>5, <1>6, <1>7 DEF Typed, KeysTyped, BucketsCovered, Covers

LEMMA TickSlots ==
  ASSUME Typed, SlotsInv, Tick PROVE SlotsInv'
<1>1. ASSUME NEW r \in Requests PROVE InIndex(r)'
  <2>0. /\ InIndex(r) /\ Ttl \in Nat \ {0} /\ Gone \notin Nat
        /\ reservation[r] \in Reservations \cup {Gone}
        /\ leases[r] \in 0..Ttl \cup {Gone}
        /\ leases'[r] = (IF leases[r] = Gone THEN Gone ELSE Most(0, leases[r] - 1))
    BY Amount, NoKeyIsGone DEF SlotsInv, Typed, KeysTyped, Tick
  <2>1. /\ reservation'[r] # Gone =>
              reservation[r] # Gone /\ reservation'[r].life = reservation[r].life - 1
              /\ (IsActive(r)' <=> IsActive(r))
        /\ reservation[r] # Gone /\ reservation[r].life > 1 => reservation'[r] # Gone
    BY KeyAges
  <2>2. reservation[r] # Gone => reservation[r].life \in Nat
    BY <2>0 DEF Reservations
  <2>3. CASE InLease(r)
    <3>1. reservation[r] # Gone /\ IsActive(r) /\ reservation[r].life > Ttl
      BY <2>3 DEF InLease, IsActive
    <3>2. /\ reservation'[r] # Gone /\ IsActive(r)'
          /\ reservation'[r].life = reservation[r].life - 1
      <4>1. reservation[r].life > 1
        BY <2>0, <2>2, <3>1
      <4> QED
        BY <2>1, <3>1, <4>1
    <3>3. leases[r] = reservation[r].life - Ttl
      BY <2>0, <2>3 DEF InIndex
    <3>4. leases'[r] = reservation[r].life - Ttl - 1
      BY <2>0, <2>2, <3>1, <3>3 DEF Most
    <3>5. InLease(r)' <=> reservation'[r].life > Ttl
      BY <3>2 DEF InLease
    <3> QED
      BY <2>0, <2>2, <3>1, <3>2, <3>4, <3>5 DEF InIndex
  <2>4. CASE ~InLease(r)
    <3>1. ~InLease(r)'
      BY <2>0, <2>1, <2>2, <2>4 DEF InLease, IsActive
    <3>2. leases'[r] \in {0, Gone}
      BY <2>0, <2>4 DEF InIndex, Most
    <3> QED
      BY <3>1, <3>2 DEF InIndex
  <2> QED
    BY <2>3, <2>4
<1>2. Live(leases)' \subseteq Live(leases)
  <2>1. ASSUME NEW r \in Requests, leases'[r] # Gone, leases'[r] > 0
        PROVE  leases[r] # Gone /\ leases[r] > 0
    <3>1. /\ leases[r] \in 0..Ttl \cup {Gone} /\ Ttl \in Nat
          /\ leases'[r] = (IF leases[r] = Gone THEN Gone ELSE Most(0, leases[r] - 1))
      BY Amount DEF Typed, Tick
    <3> QED
      BY <2>1, <3>1 DEF Most
  <2> QED
    BY <2>1 DEF Live
<1>3. IsFiniteSet(Live(leases)) /\ Cardinality(Live(leases)) <= MaxConcurrent
  BY DEF SlotsInv
<1>4. IsFiniteSet(Live(leases)') /\ Cardinality(Live(leases)') <= Cardinality(Live(leases))
  BY <1>2, <1>3, FS_Subset
<1>5. Cardinality(Live(leases)) \in Nat /\ Cardinality(Live(leases)') \in Nat
  BY <1>3, <1>4, FS_CardinalityType
<1> QED
  BY <1>1, <1>3, <1>4, <1>5, Amount DEF SlotsInv

LEMMA TickGateways ==
  ASSUME Typed, GatewaysInv, Tick PROVE GatewaysInv'
<1> SUFFICES ASSUME ~late'
             PROVE  /\ \A g \in Gateways : GatewayOk(g)'
                    /\ \A g, h \in Gateways : gateway'[g] # Idle' /\ gateway'[h] # Idle'
                         /\ gateway'[g].id = gateway'[h].id => g = h
  BY DEF GatewaysInv
<1>0. Idle' = Idle
  BY DEF Idle
<1>1. /\ ~late
      /\ \A g \in Gateways : ~(gateway[g] # Idle /\ gateway[g].left <= 1 /\ IsActive(gateway[g].id))
      /\ \A g \in Gateways : gateway[g].at = "settling" => Aged(reservation[gateway[g].id]) # Gone
  BY DEF Tick
<1>2. ASSUME NEW g \in Gateways
      PROVE  /\ gateway[g] = Idle => gateway'[g] = Idle
             /\ gateway[g] # Idle =>
                  /\ gateway[g] \in Working /\ gateway'[g] # Idle
                  /\ gateway'[g].at = gateway[g].at /\ gateway'[g].id = gateway[g].id
                  /\ gateway'[g].left = Most(0, gateway[g].left - 1)
  <2>1. CASE gateway[g] = Idle
    BY <2>1 DEF Tick
  <2>2. CASE gateway[g] # Idle
    <3> DEFINE new == [gateway[g] EXCEPT !.left = Most(0, gateway[g].left - 1)]
    <3>1. gateway[g] \in Working /\ gateway'[g] = new
      BY <2>2 DEF Typed, Tick
    <3>2. new.at = gateway[g].at /\ new.id = gateway[g].id /\ new.left = Most(0, gateway[g].left - 1)
          /\ new.at \in {"running", "settling"}
      BY <3>1 DEF Working
    <3> HIDE DEF new
    <3> QED
      BY <2>2, <3>1, <3>2, WorkingIsNotIdle
  <2> QED
    BY <2>1, <2>2
<1>3. ASSUME NEW g \in Gateways, gateway[g] # Idle PROVE GatewayOk(g)'
  <2>0. /\ gateway[g] \in Working /\ gateway'[g].at = gateway[g].at
        /\ gateway'[g].id = gateway[g].id /\ gateway'[g].left = Most(0, gateway[g].left - 1)
        /\ GatewayOk(g)
    BY <1>1, <1>2, <1>3 DEF GatewaysInv
  <2>1. PICK q \in Requests : q = gateway[g].id
    BY <2>0 DEF Working
  <2>2. /\ reservation'[q] # Gone =>
              reservation[q] # Gone /\ reservation'[q].life = reservation[q].life - 1
              /\ (IsActive(q)' <=> IsActive(q))
        /\ reservation[q] # Gone /\ reservation[q].life > 1 => reservation'[q] # Gone
        /\ reservation'[q] = Aged(reservation[q])
    BY KeyAges
  <2>3. CASE IsActive(q)
    <3>1. InLease(q) /\ gateway[g].left = reservation[q].life - Ttl /\ reservation[q] # Gone
      BY <1>3, <2>0, <2>1, <2>3 DEF GatewayOk
    <3>2. reservation[q].life > Ttl
      BY <3>1 DEF InLease
    <3>3. reservation[q].life \in Nat /\ Ttl \in Nat \ {0} /\ gateway[g].left \in Nat
      BY <2>0, <3>1, Amount DEF Typed, KeysTyped, Reservations, Working
    <3>4. gateway[g].left > 1
      BY <1>1, <1>3, <2>1, <2>3, <3>3
    <3>5. /\ reservation'[q] # Gone /\ reservation'[q].life = reservation[q].life - 1
          /\ IsActive(q)'
      <4>1. reservation[q].life > 1
        BY <3>2, <3>3
      <4> QED
        BY <2>2, <2>3, <3>1, <3>2, <4>1
    <3>6. InLease(q)'
      BY <3>1, <3>3, <3>4, <3>5 DEF InLease
    <3>7. gateway'[g].left = reservation'[q].life - Ttl
      BY <2>0, <3>1, <3>3, <3>4, <3>5 DEF Most
    <3> QED
      BY <2>0, <2>1, <3>5, <3>6, <3>7 DEF GatewayOk
  <2>4. CASE ~IsActive(q)
    <3>1. gateway[g].at = "settling"
      BY <1>3, <2>0, <2>1, <2>4 DEF GatewayOk, Working
    <3>2. reservation'[q] # Gone /\ ~IsActive(q)'
      BY <1>1, <2>1, <2>2, <2>4, <3>1
    <3> QED
      BY <2>0, <2>1, <3>1, <3>2 DEF GatewayOk
  <2> QED
    BY <2>3, <2>4
<1>4. ASSUME NEW g \in Gateways PROVE GatewayOk(g)'
  BY <1>0, <1>2, <1>3 DEF GatewayOk
<1>5. ASSUME NEW g \in Gateways, NEW h \in Gateways, gateway'[g] # Idle, gateway'[h] # Idle,
             gateway'[g].id = gateway'[h].id
      PROVE  g = h
  BY <1>1, <1>2, <1>5 DEF GatewaysInv
<1> QED
  BY <1>0, <1>4, <1>5

LEMMA TickKeeps ==
  ASSUME GateInv, Tick PROVE GateInv'
  BY TickTyped, TickSlots, TickGateways DEF GateInv

-----------------------------------------------------------------------------
LEMMA InitGate == Init => GateInv
<1> SUFFICES ASSUME Init PROVE GateInv
  OBVIOUS
<1>1. /\ Capacity * Unit \in Nat /\ CallCapacity * Unit \in Nat
  BY Amount, MulMono
<1>2. Typed
  BY <1>1 DEF Init, Typed, KeysTyped, ReservationOk
<1>3. BucketsCovered
  BY <1>1 DEF Init, BucketsCovered, Covers
<1>4. SlotsInv
  <2>1. Live(leases) = {}
    BY DEF Init, Live
  <2>2. \A r \in Requests : InIndex(r)
    BY DEF Init, InIndex, InLease, IsActive
  <2> QED
    BY <2>1, <2>2, FS_EmptySet, Amount DEF SlotsInv
<1>5. GatewaysInv
  BY DEF Init, GatewaysInv, GatewayOk
<1> QED
  BY <1>2, <1>3, <1>4, <1>5 DEF GateInv

LEMMA GateNext == GateInv /\ [Next]_vars => GateInv'
<1> SUFFICES ASSUME GateInv, [Next]_vars PROVE GateInv'
  OBVIOUS
<1>1. CASE UNCHANGED vars
  BY <1>1 DEF vars, GateInv, Typed, KeysTyped, ReservationOk, BucketsCovered, Covers, SlotsInv,
     InIndex, InLease, IsActive, Live, GatewaysInv, GatewayOk, Idle
<1>2. ASSUME NEW g \in Gateways, NEW r \in Requests, Admit(g, r) \/ Deny(g, r) PROVE GateInv'
  BY <1>2, AdmitKeeps, DenyKeeps
<1>3. ASSUME NEW g \in Gateways, NEW p \in Periods, Settle(g, p) PROVE GateInv'
  BY <1>3, SettleKeeps
<1>4. ASSUME NEW g \in Gateways, Abandon(g) PROVE GateInv'
  BY <1>4, AbandonKeeps
<1>5. ASSUME NEW r \in Requests, Cleanup(r) PROVE GateInv'
  BY <1>5, CleanupKeeps
<1> QED
  BY <1>1, <1>2, <1>3, <1>4, <1>5, TickKeeps, NextPeriodKeeps DEF Next


-----------------------------------------------------------------------------
\* The budget.

Spends(p) == [r \in Held(p) |-> reservation[r].spend]

\* What is held of a period, as a sum over a finite set.
HeldOk(p) ==
  /\ Used(p) \in Nat
  /\ Held(p) \subseteq Requests /\ IsFiniteSet(Held(p))
  /\ \A r \in Held(p) : Spends(p)[r] = reservation[r].spend /\ reservation[r].spend \in Nat
  /\ SumFunctionOnSet(Spends(p), Held(p)) \in Nat
  /\ Holds(p) <=> /\ Used(p) >= SumFunctionOnSet(Spends(p), Held(p))
                  /\ Limit > 0 => Used(p) <= Limit

LEMMA HeldTyped == Typed /\ SlotsInv => \A p \in Periods : HeldOk(p)
<1> SUFFICES ASSUME Typed, SlotsInv, NEW p \in Periods PROVE HeldOk(p)
  OBVIOUS
<1>1. Held(p) \subseteq Live(leases)
  BY LiveIsInLease DEF Held
<1>2. IsFiniteSet(Held(p)) /\ Held(p) \subseteq Requests
  BY <1>1, FS_Subset DEF SlotsInv, Live
<1>3. \A r \in Held(p) : Spends(p)[r] = reservation[r].spend /\ reservation[r].spend \in Nat
  BY DEF Held, Spends, InLease, IsActive, Typed, KeysTyped, Reservations
<1>4. SumFunction(Spends(p)) = SumFunctionOnSet(Spends(p), Held(p))
  <2>1. DOMAIN Spends(p) = Held(p)
    BY DEF Spends
  <2> QED
    BY <2>1 DEF SumFunction
<1>5. Holds(p) <=> /\ Used(p) >= SumFunction(Spends(p))
                   /\ Limit > 0 => Used(p) <= Limit
  BY DEF Holds, Spends
<1>6. SumFunctionOnSet(Spends(p), Held(p)) \in Nat
  BY <1>2, <1>3, SumTyped
<1>7. Used(p) \in Nat
  BY UsedTyped DEF Typed
<1> QED
  BY <1>2, <1>3, <1>4, <1>5, <1>6, <1>7 DEF HeldOk

LEMMA HeldStaysTyped == Typed' /\ SlotsInv' => \A p \in Periods : HeldOk(p)'
<1>1. (Typed /\ SlotsInv => \A p \in Periods : HeldOk(p))'
  BY HeldTyped, PTL
<1> QED
  BY <1>1

\* The sum of those that stay.
LEMMA FewerHeld ==
  ASSUME Typed, SlotsInv, Typed', SlotsInv', NEW p \in Periods,
         Held(p)' \subseteq Held(p),
         \A r \in Held(p)' : reservation'[r].spend = reservation[r].spend
  PROVE  SumFunctionOnSet(Spends(p)', Held(p)') <= SumFunctionOnSet(Spends(p), Held(p))
<1> DEFINE f == Spends(p)
           S == Held(p)
<1>1. IsFiniteSet(S) /\ \A r \in S : f[r] = reservation[r].spend /\ f[r] \in Nat
  BY HeldTyped, HeldStaysTyped DEF HeldOk
<1> PICK T : T = Held(p)'
  OBVIOUS
<1> PICK g : g = Spends(p)'
  OBVIOUS
<1>2. \A r \in T : g[r] = f[r]
  BY <1>1 DEF Spends
<1>3. IsFiniteSet(T) /\ T \in SUBSET S
  BY <1>1, FS_Subset
<1> HIDE DEF f, S
<1>4. SumFunctionOnSet(g, T) = SumFunctionOnSet(f, T)
  BY <1>2, <1>3, SumAgrees
<1>5. SumFunctionOnSet(f, T) <= SumFunctionOnSet(f, S)
  BY <1>1, <1>3, SumOfPart
<1> QED
  BY <1>4, <1>5 DEF f, S

LEMMA BudgetSame ==
  ASSUME BudgetInv, UNCHANGED <<budget, reservation, late>> PROVE BudgetInv'
  BY DEF BudgetInv, Charged, Holds, Held, Used, InLease, IsActive

LEMMA AdmitBudget ==
  ASSUME Inv, GateInv', NEW g \in Gateways, NEW r \in Requests, Admit(g, r) PROVE BudgetInv'
<1>0. Typed /\ SlotsInv /\ KeysTyped /\ BucketsCovered /\ BudgetInv /\ Typed' /\ SlotsInv' /\ period \in Periods
  BY DEF Inv, GateInv, Typed
<1>1. PICK e \in Estimates : Admissible(e) /\ Reserve(r, e)
  BY DEF Admit
<1>2. reservation[r] = Gone /\ late' = late
  BY DEF Admit
<1>3. /\ KeysTyped' /\ InLease(r)' /\ reservation'[r] # Gone /\ reservation'[r].life = 2 * Ttl
      /\ \A q \in Requests \ {r} : reservation'[q] = reservation[q]
  BY <1>0, <1>1, ReserveKeys
<1>4. /\ reservation'[r].spend = e.spend /\ reservation'[r].period = period
      /\ e.spend \in Nat /\ Ttl \in Nat \ {0} /\ Limit \in Nat
  BY <1>0, <1>1, Amount DEF Reserve, KeysTyped
<1> DEFINE kept == [used |-> Used(period) + e.spend, life |-> Ttl]
<1>5. /\ budget'[period] = kept /\ \A p \in Periods \ {period} : budget'[p] = budget[p]
      /\ kept # Gone /\ kept.life = Ttl /\ kept.used = Used(period) + e.spend
  <2>1. kept \in Budgets
    BY <1>0, <1>4, UsedTyped DEF Budgets
  <2>2. budget' = [budget EXCEPT ![period] = kept] /\ period \in DOMAIN budget
    BY <1>0, <1>1 DEF Reserve, KeysTyped
  <2> HIDE DEF kept
  <2>3. budget'[period] = kept /\ \A p \in Periods \ {period} : budget'[p] = budget[p]
    BY <1>0, <2>2 DEF KeysTyped
  <2> QED
    BY <2>1, <2>3, NoKeyIsGone DEF kept
<1> HIDE DEF kept
<1>6. ASSUME NEW q \in Requests PROVE Charged(q)'
  <2> SUFFICES ASSUME InLease(q)'
               PROVE  /\ budget'[reservation'[q].period] # Gone
                      /\ budget'[reservation'[q].period].life >= reservation'[q].life - Ttl
    BY DEF Charged
  <2>1. reservation'[q] \in Reservations
    BY <1>3 DEF KeysTyped, InLease, IsActive
  <2>2. CASE q = r
    BY <1>3, <1>4, <1>5, <2>2
  <2>3. CASE q # r /\ reservation'[q].period = period
    <3>1. reservation'[q].life - Ttl <= Ttl
      BY <1>4, <2>1 DEF Reservations
    <3> QED
      BY <1>5, <2>3, <3>1
  <2>4. CASE q # r /\ reservation'[q].period # period
    <3>1. reservation'[q] = reservation[q] /\ InLease(q) /\ reservation'[q].period \in Periods \ {period}
      BY <1>3, <2>1, <2>4, SameReservation DEF Reservations
    <3> QED
      BY <1>0, <1>5, <3>1 DEF BudgetInv, Charged
  <2> QED
    BY <2>2, <2>3, <2>4
<1>7. \A q \in Requests \ {r} : InLease(q)' = InLease(q)
  BY <1>3, SameReservation
<1>8. r \notin Held(period) /\ ~InLease(r)
  BY <1>2 DEF Held, InLease, IsActive
<1>9. ASSUME ~late, NEW p \in Periods, p # period PROVE Holds(p)'
  <2>1. Held(p)' = Held(p)
    BY <1>3, <1>4, <1>7, <1>8, <1>9 DEF Held
  <2>2. \A q \in Held(p)' : reservation'[q].spend = reservation[q].spend
    BY <1>3, <1>8, <2>1 DEF Held
  <2>3. SumFunctionOnSet(Spends(p)', Held(p)') <= SumFunctionOnSet(Spends(p), Held(p))
    BY <1>0, <2>1, <2>2, FewerHeld
  <2>4. Used(p)' = Used(p)
    BY <1>5, <1>9 DEF Used
  <2>5. Holds(p)
    BY <1>0, <1>9 DEF BudgetInv
  <2>6. Used(p) \in Nat /\ SumFunctionOnSet(Spends(p), Held(p)) \in Nat
        /\ SumFunctionOnSet(Spends(p)', Held(p)') \in Nat
    BY <1>0, HeldTyped, HeldStaysTyped DEF HeldOk
  <2> QED
    BY <1>0, <2>3, <2>4, <2>5, <2>6, HeldTyped, HeldStaysTyped DEF HeldOk
<1>10. ASSUME ~late, NEW p \in Periods, p = period PROVE Holds(p)'
  <2>1. Held(p)' = Held(p) \cup {r}
    BY <1>3, <1>4, <1>7, <1>10 DEF Held
  <2> PICK f : f = Spends(p)'
    OBVIOUS
  <2> DEFINE S == Held(p)
  <2>2. /\ IsFiniteSet(Held(p)') /\ \A q \in Held(p)' : f[q] = reservation'[q].spend /\ f[q] \in Nat
        /\ SumFunctionOnSet(f, Held(p)') \in Nat
    BY <1>0, HeldTyped, HeldStaysTyped DEF HeldOk
  <2>3. IsFiniteSet(S) /\ \A q \in S : f[q] = Spends(p)[q]
    <3>1. IsFiniteSet(S) /\ \A q \in S : Spends(p)[q] = reservation[q].spend /\ q \in Requests
      BY <1>0, HeldTyped, HeldStaysTyped DEF HeldOk
    <3>2. \A q \in S : f[q] = reservation'[q].spend /\ q # r
      BY <1>8, <1>10, <2>1, <2>2
    <3> QED
      BY <1>3, <3>1, <3>2
  <2>4. SumFunctionOnSet(f, S) = SumFunctionOnSet(Spends(p), S)
    BY <2>3, SumAgrees
  <2>5. Held(p)' \ {r} = S /\ r \in Held(p)'
    BY <1>8, <1>10, <2>1
  <2>6. SumFunctionOnSet(f, Held(p)') = f[r] + SumFunctionOnSet(f, S)
    <3> PICK T : T = Held(p)'
      OBVIOUS
    <3>1. SumFunctionOnSet(f, T) = f[r] + SumFunctionOnSet(f, T \ {r})
      BY <2>2, <2>5, SumOfRest
    <3> QED
      BY <2>5, <3>1
  <2>7. f[r] = e.spend
    BY <1>4, <2>2, <2>5
  <2>8. Used(p)' = Used(p) + e.spend
    BY <1>5, <1>10 DEF Used
  <2>9. Limit > 0 => Used(p) + e.spend <= Limit
    BY <1>1, <1>10 DEF Admissible
  <2>10. Used(p) >= SumFunctionOnSet(Spends(p), S) /\ Used(p) \in Nat
         /\ SumFunctionOnSet(Spends(p), S) \in Nat
    BY <1>0, <1>10, HeldTyped, HeldStaysTyped DEF BudgetInv, HeldOk
  <2>11. Used(p)' >= SumFunctionOnSet(f, Held(p)')
    BY <1>4, <2>4, <2>6, <2>7, <2>8, <2>10
  <2> QED
    BY <1>0, <2>8, <2>9, <2>11, HeldTyped, HeldStaysTyped DEF HeldOk
<1> QED
  BY <1>2, <1>6, <1>9, <1>10 DEF BudgetInv

LEMMA SettleBudget ==
  ASSUME Inv, GateInv', NEW g \in Gateways, NEW p \in Periods, Settle(g, p) PROVE BudgetInv'
<1>0. Typed /\ SlotsInv /\ KeysTyped /\ BucketsCovered /\ GatewaysInv /\ BudgetInv /\ Typed' /\ SlotsInv'
  BY DEF Inv, GateInv, Typed
<1>1. gateway[g] # Idle /\ UNCHANGED <<period, late>>
  BY DEF Settle
<1>2. PICK r \in Requests : r = gateway[g].id
  BY <1>0, <1>1 DEF Typed, Working
<1>3. CASE UNCHANGED <<keys, tokens, calls>>
  BY <1>0, <1>1, <1>3, BudgetSame DEF keys
<1>4. ASSUME IsActive(r), NEW a \in Actuals, SettleActive(r, a) PROVE BudgetInv'
  <2>1. /\ KeysTyped' /\ ~IsActive(r)'
        /\ \A q \in Requests \ {r} : reservation'[q] = reservation[q]
    BY <1>0, <1>4, SettleActiveKeys
  <2>2. \A q \in Requests : InLease(q)' => q # r /\ InLease(q) /\ reservation'[q] = reservation[q]
    BY <2>1, SameReservation DEF InLease
  <2> DEFINE res == reservation[r]
             back == Most(0, res.spend - a.spend)
  <2>3. /\ res.period \in Periods /\ res.spend \in Nat /\ back \in 0..res.spend
        /\ Used(res.period) \in Nat /\ Ttl \in Nat \ {0} /\ Limit \in Nat
    BY <1>0, <1>4, Amount, UsedTyped DEF IsActive, KeysTyped, Reservations, Most
  <2>4. RefundSpend(res.period, back)
    BY <1>4 DEF SettleActive
  <2> HIDE DEF back
  <2> DEFINE kept == [used |-> Most(0, Used(res.period) - back), life |-> Ttl]
  <2>5. /\ \A q \in Periods \ {res.period} : budget'[q] = budget[q]
        /\ \/ back = 0 /\ budget'[res.period] = budget[res.period]
           \/ budget'[res.period] = kept
    BY <1>0, <2>3, <2>4 DEF RefundSpend, KeysTyped
  <2>6. kept # Gone /\ kept.life = Ttl /\ kept.used = Most(0, Used(res.period) - back)
    <3>1. kept \in Budgets
      BY <2>3 DEF Budgets, Most
    <3> QED
      BY <3>1, NoKeyIsGone
  <2> HIDE DEF kept
  <2>7. ASSUME NEW q \in Requests PROVE Charged(q)'
    <3> SUFFICES ASSUME InLease(q)'
                 PROVE  /\ budget'[reservation'[q].period] # Gone
                        /\ budget'[reservation'[q].period].life >= reservation'[q].life - Ttl
      BY DEF Charged
    <3>1. /\ InLease(q) /\ reservation'[q] = reservation[q] /\ reservation[q] \in Reservations
      BY <1>0, <2>2 DEF KeysTyped, InLease, IsActive
    <3>2. /\ budget[reservation[q].period] # Gone
          /\ budget[reservation[q].period].life >= reservation[q].life - Ttl
      BY <1>0, <3>1 DEF BudgetInv, Charged
    <3>3. reservation[q].life - Ttl <= Ttl /\ reservation[q].period \in Periods
      BY <2>3, <3>1 DEF Reservations
    <3> QED
      BY <2>3, <2>5, <2>6, <3>1, <3>2, <3>3
  <2>8. ASSUME NEW q \in Periods
        PROVE  /\ Held(q)' \subseteq Held(q) \ {r}
               /\ \A x \in Held(q)' : reservation'[x].spend = reservation[x].spend
               /\ SumFunctionOnSet(Spends(q)', Held(q)') <= SumFunctionOnSet(Spends(q), Held(q))
               /\ SumFunctionOnSet(Spends(q)', Held(q)') \in Nat
               /\ SumFunctionOnSet(Spends(q), Held(q)) \in Nat
    <3>1. Held(q)' \subseteq Held(q) \ {r}
      BY <2>2 DEF Held
    <3>2. \A x \in Held(q)' : reservation'[x].spend = reservation[x].spend
      BY <2>2 DEF Held
    <3> QED
      BY <1>0, <3>1, <3>2, FewerHeld, HeldTyped, HeldStaysTyped DEF HeldOk
  <2>9. ASSUME ~late, NEW q \in Periods, q # res.period PROVE Holds(q)'
    <3>1. Used(q)' = Used(q)
      BY <2>5, <2>9 DEF Used
    <3>2. Holds(q) /\ Used(q) \in Nat
      BY <1>0, <2>9, UsedTyped DEF BudgetInv
    <3> QED
      BY <1>0, <2>8, <3>1, <3>2, HeldTyped, HeldStaysTyped DEF HeldOk
  <2>10. ASSUME ~late, NEW q \in Periods, q = res.period PROVE Holds(q)'
    <3>1. r \in Held(q)
      <4>1. GatewayOk(g)
        BY <1>0, <2>10 DEF GatewaysInv
      <4>2. InLease(r)
        BY <1>1, <1>2, <1>4, <4>1 DEF GatewayOk
      <4> QED
        BY <2>10, <4>2 DEF Held
    <3> DEFINE f == Spends(q)
               S == Held(q)
    <3>2. /\ IsFiniteSet(S) /\ S \subseteq Requests
          /\ \A x \in S : f[x] = reservation[x].spend /\ f[x] \in Nat
      BY <1>0, HeldTyped, HeldStaysTyped DEF HeldOk
    <3> HIDE DEF f, S
    <3>3. SumFunctionOnSet(f, S) = f[r] + SumFunctionOnSet(f, S \ {r})
      BY <3>1, <3>2, SumOfRest DEF S
    <3>4. f[r] = res.spend
      BY <3>1, <3>2 DEF S
    <3> PICK T : T = Held(q)'
      OBVIOUS
    <3> PICK h : h = Spends(q)'
      OBVIOUS
    <3>5. T \subseteq S \ {r} /\ \A x \in T : h[x] = f[x]
      <4>1. T \subseteq S \ {r} /\ \A x \in T : reservation'[x].spend = reservation[x].spend
        BY <2>8 DEF S
      <4>2. \A x \in T : h[x] = reservation'[x].spend
        BY <1>0, HeldTyped, HeldStaysTyped DEF HeldOk
      <4> QED
        BY <3>2, <4>1, <4>2
    <3>6. IsFiniteSet(S \ {r}) /\ IsFiniteSet(T) /\ \A x \in S \ {r} : f[x] \in Nat
      BY <3>2, <3>5, FS_Subset
    <3>7. SumFunctionOnSet(h, T) = SumFunctionOnSet(f, T)
      BY <3>5, <3>6, SumAgrees
    <3>8. SumFunctionOnSet(f, T) <= SumFunctionOnSet(f, S \ {r})
      BY <3>5, <3>6, SumOfPart
    <3>9. SumFunctionOnSet(f, S \ {r}) \in Nat /\ SumFunctionOnSet(f, T) \in Nat
      BY <3>5, <3>6, SumTyped
    <3>10. Used(q) >= SumFunctionOnSet(f, S) /\ Used(q) \in Nat /\ (Limit > 0 => Used(q) <= Limit)
      BY <1>0, <2>10, HeldTyped, HeldStaysTyped DEF BudgetInv, f, S, HeldOk
    <3>11. \/ back = 0 /\ Used(q)' = Used(q)
           \/ Used(q)' = Most(0, Used(q) - back)
      BY <2>5, <2>6, <2>10 DEF Used
    <3>12. /\ Used(q)' >= SumFunctionOnSet(h, T)
           /\ Limit > 0 => Used(q)' <= Limit
      BY <2>3, <3>3, <3>4, <3>7, <3>8, <3>9, <3>10, <3>11 DEF Most
    <3> QED
      BY <1>0, <3>12, HeldTyped, HeldStaysTyped DEF HeldOk
  <2> QED
    BY <1>1, <2>7, <2>9, <2>10 DEF BudgetInv
<1> QED
  BY <1>2, <1>3, <1>4 DEF Settle

LEMMA CleanupBudget ==
  ASSUME Inv, GateInv', NEW r \in Requests, Cleanup(r) PROVE BudgetInv'
<1>0. Typed /\ SlotsInv /\ KeysTyped /\ BudgetInv /\ Typed' /\ SlotsInv'
  BY DEF Inv, GateInv, Typed
<1>1. UNCHANGED <<budget, late>> /\ ~InLease(r)
  BY DEF Cleanup
<1>2. CASE ~IsActive(r)
  <2>1. reservation' = reservation
    BY <1>2 DEF Cleanup
  <2> QED
    BY <1>0, <1>1, <2>1, BudgetSame
<1>3. CASE IsActive(r)
  <2>1. \A q \in Requests \ {r} : reservation'[q] = reservation[q]
    BY <1>0, <1>3 DEF Cleanup, KeysTyped
  <2>2. ~InLease(r)'
    <3>1. reservation[r] \in Reservations
      BY <1>0, <1>3 DEF IsActive, KeysTyped
    <3>2. reservation'[r] = [reservation[r] EXCEPT !.status = "expired", !.life = Ttl]
      BY <1>0, <1>3 DEF Cleanup, KeysTyped
    <3>3. reservation'[r].status = "expired"
      BY <3>1, <3>2, FinalReservation
    <3> QED
      BY <3>3 DEF InLease, IsActive
  <2>3. \A q \in Requests : InLease(q)' => q # r /\ InLease(q) /\ reservation'[q] = reservation[q]
    BY <2>1, <2>2, SameReservation
  <2>4. ASSUME NEW q \in Requests PROVE Charged(q)'
    BY <1>0, <1>1, <2>3 DEF BudgetInv, Charged
  <2>5. ASSUME ~late, NEW p \in Periods PROVE Holds(p)'
    <3>1. Held(p)' \subseteq Held(p) /\ \A q \in Held(p)' : reservation'[q].spend = reservation[q].spend
      BY <2>3 DEF Held
    <3>2. SumFunctionOnSet(Spends(p)', Held(p)') <= SumFunctionOnSet(Spends(p), Held(p))
      BY <1>0, <3>1, FewerHeld
    <3>3. Used(p)' = Used(p) /\ Used(p) \in Nat
      BY <1>0, <1>1, UsedTyped DEF Used
    <3>4. SumFunctionOnSet(Spends(p), Held(p)) \in Nat /\ SumFunctionOnSet(Spends(p)', Held(p)') \in Nat
      BY <1>0, HeldTyped, HeldStaysTyped DEF HeldOk
    <3> QED
      BY <1>0, <2>5, <3>2, <3>3, <3>4, HeldTyped, HeldStaysTyped DEF BudgetInv, HeldOk
  <2> QED
    BY <1>1, <2>4, <2>5 DEF BudgetInv
<1> QED
  BY <1>2, <1>3

\* The key of a budget does not expire before the leases of its period are over.
LEMMA TickBudget ==
  ASSUME Inv, GateInv', Tick PROVE BudgetInv'
<1>0. Typed /\ SlotsInv /\ KeysTyped /\ BudgetInv /\ Typed' /\ SlotsInv' /\ Ttl \in Nat \ {0} /\ Limit \in Nat
  BY Amount DEF Inv, GateInv, Typed
<1>1. ASSUME NEW p \in Periods
      PROVE  /\ budget[p] # Gone /\ budget[p].life > 1 =>
                  /\ budget'[p] # Gone /\ budget'[p].life = budget[p].life - 1
                  /\ budget'[p].used = budget[p].used
             /\ ~(budget[p] # Gone /\ budget[p].life > 1) => budget'[p] = Gone
             /\ budget[p] # Gone => budget[p].life \in Nat
  <2> DEFINE b == budget[p]
             new == [b EXCEPT !.life = b.life - 1]
  <2>1. budget'[p] = Aged(b) /\ b \in Budgets \cup {Gone}
    BY <1>0 DEF Tick, KeysTyped
  <2>2. CASE b = Gone
    BY <2>1, <2>2 DEF Aged
  <2>3. CASE b # Gone /\ b.life = 1
    BY <2>1, <2>3 DEF Aged
  <2>4. CASE b # Gone /\ b.life # 1
    <3>1. b \in Budgets /\ b.life \in 1..Ttl
      BY <2>1, <2>4 DEF Budgets
    <3>2. b.life > 1 /\ b.life - 1 \in 1..Ttl
      BY <1>0, <2>4, <3>1
    <3>3. new \in Budgets /\ new.life = b.life - 1 /\ new.used = b.used
      BY <3>1, <3>2 DEF Budgets
    <3>4. budget'[p] = new
      BY <2>1, <2>4 DEF Aged
    <3> HIDE DEF new
    <3> QED
      BY <1>0, <2>4, <3>1, <3>2, <3>3, <3>4, NoKeyIsGone
  <2> QED
    BY <2>2, <2>3, <2>4
<1>2. ASSUME NEW q \in Requests, InLease(q)'
      PROVE  /\ InLease(q) /\ reservation[q] \in Reservations
             /\ reservation'[q].life = reservation[q].life - 1
             /\ reservation'[q].life \in Nat /\ reservation'[q].life > Ttl
             /\ reservation'[q].period = reservation[q].period
             /\ reservation'[q].spend = reservation[q].spend
  <2>1. reservation'[q] # Gone /\ IsActive(q)' /\ reservation'[q].life > Ttl
    BY <1>2 DEF InLease, IsActive
  <2>2. /\ reservation[q] # Gone /\ reservation'[q].life = reservation[q].life - 1 /\ IsActive(q)
        /\ reservation'[q] = Aged(reservation[q]) /\ reservation'[q] \in Reservations
    BY <1>0, <2>1, KeyAges
  <2>3. reservation[q] \in Reservations /\ reservation[q].life \in Nat /\ reservation'[q].life \in Nat
    BY <1>0, <2>2 DEF KeysTyped, Reservations
  <2>4. InLease(q)
    BY <1>0, <2>1, <2>2, <2>3 DEF InLease
  <2>5. reservation'[q] = [reservation[q] EXCEPT !.life = reservation[q].life - 1]
    BY <2>1, <2>2 DEF Aged
  <2>6. reservation'[q].period = reservation[q].period /\ reservation'[q].spend = reservation[q].spend
    BY <2>3, <2>5 DEF Reservations
  <2> QED
    BY <2>1, <2>2, <2>3, <2>4, <2>6
<1>3. ASSUME NEW q \in Requests, InLease(q)'
      PROVE  /\ budget[reservation[q].period] # Gone /\ budget[reservation[q].period].life > 1
             /\ budget'[reservation'[q].period] # Gone
             /\ budget'[reservation'[q].period].life >= reservation'[q].life - Ttl
  <2>1. /\ InLease(q) /\ reservation[q] \in Reservations
        /\ reservation'[q].life = reservation[q].life - 1
        /\ reservation'[q].life \in Nat /\ reservation'[q].life > Ttl
        /\ reservation'[q].period = reservation[q].period
    BY <1>2, <1>3
  <2>2. PICK p \in Periods : p = reservation[q].period
    BY <2>1 DEF Reservations
  <2>3. budget[p] # Gone /\ budget[p].life >= reservation[q].life - Ttl /\ reservation[q].life \in Nat
    BY <1>0, <2>1, <2>2 DEF BudgetInv, Charged, Reservations
  <2>4. budget[p].life \in Nat /\ budget[p].life > 1
    BY <1>0, <1>1, <2>1, <2>3
  <2>5. budget'[p] # Gone /\ budget'[p].life = budget[p].life - 1
    BY <1>1, <2>3, <2>4
  <2> QED
    BY <1>0, <2>1, <2>2, <2>3, <2>4, <2>5
<1>4. \A q \in Requests : Charged(q)'
  BY <1>3 DEF Charged
<1>5. ASSUME ~late', NEW p \in Periods PROVE Holds(p)'
  <2>1. ~late
    BY <1>5 DEF Tick
  <2>2. Holds(p) /\ Used(p) \in Nat /\ Used(p)' \in Nat
    BY <1>0, <2>1, HeldTyped, HeldStaysTyped DEF BudgetInv, HeldOk
  <2>3. Held(p)' \subseteq Held(p) /\ \A q \in Held(p)' : reservation'[q].spend = reservation[q].spend
    BY <1>2 DEF Held
  <2>4. SumFunctionOnSet(Spends(p)', Held(p)') <= SumFunctionOnSet(Spends(p), Held(p))
    BY <1>0, <2>3, FewerHeld
  <2>5. SumFunctionOnSet(Spends(p), Held(p)) \in Nat /\ SumFunctionOnSet(Spends(p)', Held(p)') \in Nat
    BY <1>0, HeldTyped, HeldStaysTyped DEF HeldOk
  <2>6. CASE budget[p] # Gone /\ budget[p].life > 1
    <3>1. Used(p)' = Used(p)
      BY <1>1, <2>6 DEF Used
    <3> QED
      BY <1>0, <2>2, <2>4, <2>5, <3>1, HeldTyped, HeldStaysTyped DEF HeldOk
  <2>7. CASE ~(budget[p] # Gone /\ budget[p].life > 1)
    <3>1. Used(p)' = 0
      BY <1>1, <2>7 DEF Used
    <3>2. Held(p)' = {}
      BY <1>2, <1>3, <2>7 DEF Held
    <3>3. SumFunctionOnSet(Spends(p)', Held(p)') = 0
      BY <3>2, SumEmpty
    <3> QED
      BY <1>0, <3>1, <3>3, HeldTyped, HeldStaysTyped DEF HeldOk
  <2> QED
    BY <2>6, <2>7
<1> QED
  BY <1>4, <1>5 DEF BudgetInv

LEMMA InitBudget == Init /\ GateInv => BudgetInv
<1> SUFFICES ASSUME Init, GateInv PROVE BudgetInv
  OBVIOUS
<1>1. ASSUME NEW p \in Periods PROVE Holds(p)
  <2>1. Held(p) = {} /\ Used(p) = 0
    BY DEF Init, Held, InLease, IsActive, Used
  <2>2. SumFunctionOnSet(Spends(p), Held(p)) = 0
    BY <2>1, SumEmpty
  <2>3. HeldOk(p) /\ Limit \in Nat
    BY HeldTyped, Amount DEF GateInv
  <2> QED
    BY <2>1, <2>2, <2>3 DEF HeldOk
<1> QED
  BY <1>1 DEF BudgetInv, Charged, InLease, IsActive, Init

LEMMA BudgetNext == Inv /\ GateInv' /\ [Next]_vars => BudgetInv'
<1> SUFFICES ASSUME Inv, GateInv', [Next]_vars PROVE BudgetInv'
  OBVIOUS
<1>0. BudgetInv
  BY DEF Inv
<1>1. CASE UNCHANGED vars
  BY <1>0, <1>1, BudgetSame DEF vars
<1>2. ASSUME NEW g \in Gateways, NEW r \in Requests, Admit(g, r) PROVE BudgetInv'
  BY <1>2, AdmitBudget
<1>3. ASSUME NEW g \in Gateways, NEW r \in Requests, Deny(g, r) PROVE BudgetInv'
  BY <1>0, <1>3, BudgetSame DEF Deny
<1>4. ASSUME NEW g \in Gateways, NEW p \in Periods, Settle(g, p) PROVE BudgetInv'
  BY <1>4, SettleBudget
<1>5. ASSUME NEW g \in Gateways, Abandon(g) PROVE BudgetInv'
  BY <1>0, <1>5, BudgetSame DEF Abandon, keys
<1>6. ASSUME NEW r \in Requests, Cleanup(r) PROVE BudgetInv'
  BY <1>6, CleanupBudget
<1>7. CASE NextPeriod
  BY <1>0, <1>7, BudgetSame DEF NextPeriod, keys
<1> QED
  BY <1>1, <1>2, <1>3, <1>4, <1>5, <1>6, <1>7, TickBudget DEF Next

LEMMA Invariance == Spec => []Inv
<1>1. Init => Inv
  BY InitGate, InitBudget DEF Inv
<1>2. Inv /\ [Next]_vars => Inv'
  BY GateNext, BudgetNext DEF Inv
<1> QED
  BY <1>1, <1>2, PTL DEF Spec

-----------------------------------------------------------------------------
LEMMA TypesFollow ==
  ASSUME GateInv PROVE TypeOK
<1>0. Typed /\ KeysTyped /\ Ttl \in Nat \ {0}
  BY Amount DEF GateInv, Typed
<1>1. ASSUME NEW capacity \in Nat, NEW b \in Buckets(capacity) \cup {Gone}
      PROVE  IsBucket(b, capacity)
  BY <1>1 DEF IsBucket, Buckets
<1>2. IsBucket(tpm, Capacity) /\ IsBucket(rpm, CallCapacity)
  BY <1>0, <1>1, Amount DEF KeysTyped
<1>3. \A p \in Periods : budget[p] # Gone => budget[p].used \in Nat /\ budget[p].life \in 1..Ttl
  BY <1>0 DEF KeysTyped, Budgets
<1>4. ASSUME NEW r \in Requests, reservation[r] # Gone
      PROVE  /\ reservation[r].status \in {"active", "settled", "expired"}
             /\ [cost |-> reservation[r].cost, spend |-> reservation[r].spend] \in Estimates
             /\ reservation[r].period \in Periods
             /\ reservation[r].life \in 1..(IF IsActive(r) THEN 2 * Ttl ELSE Ttl)
  <2>1. reservation[r] \in Reservations /\ ReservationOk(r)
    BY <1>0, <1>4 DEF KeysTyped
  <2> QED
    BY <1>0, <1>4, <2>1 DEF Reservations, ReservationOk
<1>5. \A g \in Gateways : gateway[g] = Idle \/
        gateway[g] \in [at : {"running", "settling"}, id : Requests, period : Periods, left : 0..Ttl]
  BY <1>0 DEF Typed, Working
<1> QED
  BY <1>0, <1>2, <1>3, <1>4, <1>5 DEF TypeOK, Typed

\* The keys keep the types the scripts give them, the buckets their capacities and
\* the day they expire, whatever order admissions, settlements, cleanups and the
\* expiry of keys come in (TypeOK of RedisAdmission).
THEOREM TypeCorrect == Spec => []TypeOK
<1> QED
  BY Invariance, TypesFollow, PTL DEF Inv

LEMMA SlotsFollow ==
  ASSUME GateInv PROVE SlotPerReservation
<1>0. Typed /\ SlotsInv /\ GatewaysInv
  BY DEF GateInv
<1>2. Live(leases) = {r \in Requests : InLease(r)}
  BY <1>0, LiveIsInLease
<1>3. ASSUME ~late, NEW g \in Gateways, gateway[g].at = "running"
      PROVE  /\ InLease(gateway[g].id)
             /\ \A h \in Gateways \ {g} : gateway[h].at = "running" => gateway[h].id # gateway[g].id
  <2>1. ASSUME NEW h \in Gateways, gateway[h].at = "running" PROVE gateway[h] # Idle
    BY <2>1, WorkingIsNotIdle
  <2> QED
    BY <1>0, <1>3, <2>1 DEF GatewaysInv, GatewayOk
<1> QED
  BY <1>0, <1>2, <1>3 DEF SlotPerReservation, SlotsInv

\* The slots an admission counts are those of the reservations in their lease,
\* never more than allowed; and if no gateway outlives its lease, an inference
\* that runs has a slot of its own to the end (SlotPerReservation).
THEOREM SlotSoundness == Spec => []SlotPerReservation
<1> QED
  BY Invariance, SlotsFollow, PTL DEF Inv

\* As long as no gateway outlives its lease, the budget of a period holds the spend of
\* every reservation in its lease, and stays within its limit (BudgetHeld).
THEOREM BudgetSoundness == Spec => []BudgetHeld
<1>1. Inv => BudgetHeld
  BY DEF Inv, BudgetInv, Holds, BudgetHeld
<1> QED
  BY <1>1, Invariance, PTL

-----------------------------------------------------------------------------
\* Refinement of the two ideal buckets.

LEMMA RestIs ==
  /\ Rest(Gone) = Ttl
  /\ \A n : Bucket(n) # Gone => Rest(Bucket(n)) = 0
  BY Amount DEF Rest, Bucket

LEMMA DrawsWhatIsThere ==
  ASSUME GateInv, NEW g \in Gateways, NEW r \in Requests, Admit(g, r)
  PROVE  Tokens!Draw /\ Calls!Draw
<1>1. PICK e \in Estimates : Admissible(e) /\ Reserve(r, e)
  BY DEF Admit
<1>2. /\ e.cost \in 1..Capacity /\ e.cost * Unit <= tokens /\ tokens' = tokens - e.cost * Unit
      /\ Unit <= calls /\ calls' = calls - Unit
  BY <1>1, ReserveBuckets DEF GateInv
<1>3. 1 \in 1..CallCapacity /\ 1 * Unit = Unit
  BY Amount
<1>4. Rest(tpm)' = 0 /\ Rest(rpm)' = 0
  <2>1. tpm' \in Buckets(Capacity) /\ rpm' \in Buckets(CallCapacity)
    BY <1>1, ReserveBuckets DEF GateInv
  <2>2. tpm' # Gone /\ rpm' # Gone
    BY <2>1, NoKeyIsGone, Amount
  <2>3. Rest(tpm') = 0 /\ Rest(rpm') = 0
    BY <1>1, <2>2, RestIs DEF Reserve
  <2> QED
    BY <2>3 DEF Rest
<1>5. Calls!Draw
  BY <1>2, <1>3, <1>4 DEF Calls!Draw
<1> QED
  BY <1>2, <1>4, <1>5 DEF Tokens!Draw

LEMMA GivesBackToCapacity ==
  ASSUME GateInv, NEW g \in Gateways, NEW p \in Periods, Settle(g, p)
  PROVE  (Tokens!GiveBack \/ UNCHANGED <<tpm, tokens>>) /\ UNCHANGED <<rpm, calls>>
<1>0. Typed /\ BucketsCovered
  BY DEF GateInv
<1>1. PICK r \in Requests : r = gateway[g].id
  BY <1>0 DEF Settle, Typed, Working
<1>2. CASE UNCHANGED <<keys, tokens, calls>>
  BY <1>2 DEF keys
<1>3. ASSUME IsActive(r), NEW a \in Actuals, SettleActive(r, a)
      PROVE  Tokens!GiveBack /\ UNCHANGED <<rpm, calls>>
  <2>1. PICK n \in 0..Capacity : Refund(n)
    BY <1>0, <1>3, SettleActiveKeys
  <2>2. /\ tokens' = Least(Capacity * Unit, tokens + n * Unit)
        /\ tokens \in Nat /\ tokens <= Capacity * Unit /\ Capacity * Unit \in Nat /\ n * Unit \in Nat
    BY <1>0, <2>1, Amount, MulMono DEF Refund, Typed, BucketsCovered, Covers
  <2>3. tokens' = Tokens!Capped(tokens + n * Unit)
    BY <2>2 DEF Least, Tokens!Capped
  <2>4. Rest(tpm)' = 0
    <3>1. tpm' \in Buckets(Capacity)
      BY <1>0, <1>3, <2>1, RefundBuckets DEF SettleActive
    <3>2. tpm' # Gone
      BY <3>1, NoKeyIsGone, Amount
    <3>3. Rest(tpm') = 0
      BY <2>1, <3>2, RestIs DEF Refund
    <3> QED
      BY <3>3 DEF Rest
  <2> QED
    BY <1>3, <2>3, <2>4 DEF Tokens!GiveBack, SettleActive
<1> QED
  BY <1>1, <1>2, <1>3 DEF Settle

\* A key that is there has rested a tick longer, and is forgotten after Ttl of them.
LEMMA RestGrows ==
  ASSUME NEW capacity \in Nat, NEW b \in Buckets(capacity) \cup {Gone}
  PROVE  /\ Rest(b) \in Nat
         /\ Rest(AgedBucket(b)) = IF Rest(b) < Ttl THEN Rest(b) + 1 ELSE Ttl
         /\ b # Gone => (Aged(b) = Gone <=> Rest(b) + 1 = Ttl)
         /\ b = Gone => Aged(b) = Gone /\ Rest(b) = Ttl
<1>0. Ttl \in Nat \ {0}
  BY Amount
<1>1. CASE b = Gone
  BY <1>0, <1>1 DEF Rest, AgedBucket, Aged
<1>2. CASE b # Gone
  <2>0. b \in [credits : 0..capacity, age : Nat, life : 1..Ttl] /\ b.life \in 1..Ttl
    BY <1>2 DEF Buckets
  <2>1. Rest(b) = Ttl - b.life
    BY <1>2 DEF Rest
  <2>2. CASE b.life = 1
    <3>1. Aged(b) = Gone /\ AgedBucket(b) = Gone
      BY <2>2 DEF Aged, AgedBucket
    <3> QED
      BY <1>0, <1>2, <2>1, <2>2, <3>1 DEF Rest
  <2>3. CASE b.life # 1
    <3> DEFINE a == [b EXCEPT !.life = b.life - 1]
               c == [a EXCEPT !.age = Least(a.age + 1, 2 * Ttl)]
    <3>1. Aged(b) = a /\ a \in [credits : 0..capacity, age : Nat, life : 1..Ttl] /\ a.life = b.life - 1
      BY <1>0, <1>2, <2>0, <2>3 DEF Aged
    <3>2. a # Gone
      BY <1>0, <3>1, GoneAssumption DEF GoneAssumption
    <3>3. AgedBucket(b) = c
      BY <3>1, <3>2 DEF AgedBucket
    <3>4. c.life = b.life - 1 /\ c # Gone
      <4> HIDE DEF a
      <4>1. Least(a.age + 1, 2 * Ttl) \in Nat
        BY <1>0, <3>1 DEF Least
      <4>2. c \in [credits : 0..capacity, age : Nat, life : 1..Ttl] /\ c.life = a.life
        BY <3>1, <4>1
      <4> HIDE DEF c
      <4> QED
        BY <1>0, <3>1, <4>2, GoneAssumption DEF GoneAssumption
    <3> HIDE DEF a, c
    <3> QED
      BY <1>0, <1>2, <2>0, <2>1, <2>3, <3>1, <3>2, <3>3, <3>4 DEF Rest
  <2> QED
    BY <2>2, <2>3
<1> QED
  BY <1>1, <1>2

\* A tick of a bucket, whichever of the two, as the ideal one takes it.
LEMMA FillsAsPromised ==
  ASSUME NEW capacity \in Nat \ {0}, NEW rate \in Nat \ {0}, NEW b \in Buckets(capacity) \cup {Gone},
         NEW t \in Nat, Covers(b, capacity, rate, t)
  PROVE  Refilled(t, capacity, rate, b) =
           IF Rest(b) + 1 = Ttl /\ Ttl * rate < capacity * Unit THEN capacity * Unit
           ELSE IF t + rate > capacity * Unit THEN capacity * Unit ELSE t + rate
<1>0. Unit \in Nat \ {0} /\ Ttl \in Nat \ {0} /\ capacity * Unit \in Nat
  BY Amount, MulMono
<1>1. Least(capacity * Unit, t + rate) =
        IF t + rate > capacity * Unit THEN capacity * Unit ELSE t + rate
  BY <1>0 DEF Least
<1>2. CASE b = Gone
  <2>1. t = capacity * Unit /\ Aged(b) = Gone /\ Rest(b) = Ttl
    BY <1>2, RestGrows DEF Covers
  <2> QED
    BY <1>0, <1>1, <2>1 DEF Refilled
<1>3. CASE b # Gone
  BY <1>1, <1>3, RestGrows DEF Refilled
<1> QED
  BY <1>2, <1>3

LEMMA FillsSteadily ==
  ASSUME GateInv, Tick
  PROVE  Tokens!Tick /\ Calls!Tick
<1>0. /\ tpm \in Buckets(Capacity) \cup {Gone} /\ rpm \in Buckets(CallCapacity) \cup {Gone}
      /\ Covers(tpm, Capacity, Rate, tokens) /\ Covers(rpm, CallCapacity, CallRate, calls)
      /\ tokens \in Nat /\ calls \in Nat
  BY DEF GateInv, Typed, KeysTyped, BucketsCovered
<1>1. /\ tpm' = AgedBucket(tpm) /\ rpm' = AgedBucket(rpm)
      /\ tokens' = Refilled(tokens, Capacity, Rate, tpm)
      /\ calls' = Refilled(calls, CallCapacity, CallRate, rpm)
  BY DEF Tick
<1>2. /\ Rest(tpm') = IF Rest(tpm) < Ttl THEN Rest(tpm) + 1 ELSE Ttl
      /\ Rest(rpm') = IF Rest(rpm) < Ttl THEN Rest(rpm) + 1 ELSE Ttl
  BY <1>0, <1>1, RestGrows, Amount
<1>3. Rest(tpm)' = Rest(tpm') /\ Rest(rpm)' = Rest(rpm')
  BY DEF Rest
<1>4. /\ tokens' = IF Rest(tpm) + 1 = Ttl /\ Ttl * Rate < Capacity * Unit THEN Capacity * Unit
                   ELSE IF tokens + Rate > Capacity * Unit THEN Capacity * Unit ELSE tokens + Rate
      /\ calls' = IF Rest(rpm) + 1 = Ttl /\ Ttl * CallRate < CallCapacity * Unit THEN CallCapacity * Unit
                  ELSE IF calls + CallRate > CallCapacity * Unit THEN CallCapacity * Unit
                       ELSE calls + CallRate
  BY <1>0, <1>1, FillsAsPromised, Amount
<1>5. Tokens!Tick
  BY <1>2, <1>3, <1>4 DEF Tokens!Tick, Tokens!Capped, Tokens!Forgotten
<1>6. Calls!Tick
  BY <1>2, <1>3, <1>4 DEF Calls!Tick, Calls!Capped, Calls!Forgotten
<1> QED
  BY <1>5, <1>6

LEMMA StepsOfTheBuckets ==
  ASSUME GateInv, [Next]_vars
  PROVE  /\ [Tokens!Tick \/ Tokens!Draw \/ Tokens!GiveBack]_(Tokens!bucket)
         /\ [Calls!Tick \/ Calls!Draw \/ Calls!GiveBack]_(Calls!bucket)
<1>0. /\ UNCHANGED <<tpm, tokens>> => UNCHANGED Tokens!bucket
      /\ UNCHANGED <<rpm, calls>> => UNCHANGED Calls!bucket
  BY DEF Tokens!bucket, Calls!bucket, Rest
<1>1. CASE UNCHANGED vars
  BY <1>0, <1>1 DEF vars
<1>2. ASSUME NEW g \in Gateways, NEW r \in Requests, Admit(g, r)
      PROVE  Tokens!Draw /\ Calls!Draw
  BY <1>2, DrawsWhatIsThere
<1>3. ASSUME NEW g \in Gateways, NEW r \in Requests, Deny(g, r)
      PROVE  UNCHANGED <<tpm, rpm, tokens, calls>>
  BY <1>3 DEF Deny
<1>4. ASSUME NEW g \in Gateways, NEW p \in Periods, Settle(g, p)
      PROVE  (Tokens!GiveBack \/ UNCHANGED <<tpm, tokens>>) /\ UNCHANGED <<rpm, calls>>
  BY <1>4, GivesBackToCapacity
<1>5. CASE \/ \E g \in Gateways : Abandon(g)
           \/ \E r \in Requests : Cleanup(r)
           \/ NextPeriod
  BY <1>0, <1>5 DEF Abandon, Cleanup, NextPeriod, keys
<1>6. CASE Tick
  BY <1>6, FillsSteadily
<1> QED
  BY <1>0, <1>1, <1>2, <1>3, <1>4, <1>5, <1>6 DEF Next

\* The gate implements two ideal buckets: however refunds, lost answers and the
\* expiry of keys interleave, no more tokens and no more requests are let through
\* than a bucket filled at the configured rate would have held, or one that is full
\* again once it was left alone for a time to live shorter than it takes to fill
\* (IsRateLimited).  No relation between the two times is assumed.
THEOREM RateLimited == Spec => IsRateLimited
<1>1. Init => Tokens!Init /\ Calls!Init
  BY DEF Init, Tokens!Init, Calls!Init, Rest
<1>2. Inv /\ [Next]_vars =>
        /\ [Tokens!Tick \/ Tokens!Draw \/ Tokens!GiveBack]_(Tokens!bucket)
        /\ [Calls!Tick \/ Calls!Draw \/ Calls!GiveBack]_(Calls!bucket)
  BY StepsOfTheBuckets DEF Inv
<1> QED
  BY <1>1, <1>2, Invariance, PTL DEF Spec, IsRateLimited, Tokens!Spec, Calls!Spec
=============================================================================
