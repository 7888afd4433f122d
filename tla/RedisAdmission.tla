---------------------------- MODULE RedisAdmission ----------------------------
(***************************************************************************)
(* The weighted admission gate of the chat service (hercules-chat/redis):  *)
(* the three scripts Redis runs atomically over the keys of one tenant,    *)
(* and the gateways that call them.  A call may be answered or its answer  *)
(* lost; a gateway may die between its calls.                              *)
(*                                                                         *)
(* Time is relative.  A key with a time to live is Gone or has a life left *)
(* to it, a lease the ticks until its score is reached, a bucket the ticks *)
(* since its last refill.  The monthly budget is the daily one under a     *)
(* longer period: one budget is kept.  The key "concurrency" is left out:  *)
(* no script increments it, so that cleanup writes 0 over nothing.         *)
(***************************************************************************)
EXTENDS Integers, FiniteSetsExt

CONSTANTS
  Requests,       \* request ids
  Gateways,       \* callers, each with one request at a time
  Estimates,      \* what a request is thought to cost: [cost, spend]
  Actuals,        \* what an inference turned out to cost: [cost, spend]
  Capacity, Rate, \* credits of the token bucket, added per Unit ticks
  CallCapacity, CallRate, \* the same for the bucket of requests
  Unit,           \* ticks in a minute
  MaxConcurrent, Limit,   \* leases at a time, spend in a period (0: no limit)
  Ttl,            \* reservation time to live, in ticks
  Periods,        \* the days a budget is kept for
  Gone            \* no such key, or no request

Amounts == [cost : Nat, spend : Nat]

ASSUME AdmissionAssumption ==
  /\ {Capacity, Rate, CallCapacity, CallRate, Unit, MaxConcurrent, Ttl} \subseteq Nat \ {0}
  /\ Limit \in Nat
  /\ Estimates \cup Actuals \subseteq Amounts
  /\ \A e \in Estimates : e.cost > 0

\* The value that stands for no key is none of theirs.
ASSUME GoneAssumption ==
  /\ Gone \notin Int
  /\ Gone \notin [credits : Int, age : Int, life : Int]
  /\ Gone \notin [used : Int, life : Int]
  /\ Gone \notin [status : {"active", "settled", "expired"}, cost : Int, spend : Int,
                 period : Periods, life : Int]

VARIABLES
  tpm, rpm,     \* the buckets: [credits, age, life]
  budget,       \* of each period: [used, life]
  reservation,  \* of each request: [status, cost, spend, period, life]
  leases,       \* the lease index: ticks to each member's score
  period,       \* the day the gateways read off their clock
  gateway,      \* what each gateway is doing: [at, id, period, left]
  tokens, calls, \* history: the ideal buckets the limits stand for
  late          \* history: a gateway was not done when its lease was over

vars == <<tpm, rpm, budget, reservation, leases, period, gateway, tokens, calls, late>>

keys == <<tpm, rpm, budget, reservation, leases>>

Least(a, b) == IF a < b THEN a ELSE b
Most(a, b) == IF a > b THEN a ELSE b

\* bucket(): a missing key is a full bucket, and elapsed time is capped.
Level(bucket, capacity, rate) ==
  IF bucket = Gone THEN capacity
  ELSE LET elapsed == Least(bucket.age, (capacity * Unit + rate - 1) \div rate)
       IN  Least(capacity, bucket.credits + (elapsed * rate) \div Unit)

Bucket(credits) == [credits |-> credits, age |-> 0, life |-> Ttl]

Used(p) == IF budget[p] = Gone THEN 0 ELSE budget[p].used

\* The members ZREMRANGEBYSCORE leaves: their score is in the future.
Live(z) == {r \in Requests : z[r] # Gone /\ z[r] > 0}

Purged == [r \in Requests |-> IF r \in Live(leases) THEN leases[r] ELSE Gone]

IsActive(r) == reservation[r] # Gone /\ reservation[r].status = "active"

\* lease_expires_at_ms > now: the reservation lives for another Ttl after that.
InLease(r) == IsActive(r) /\ reservation[r].life > Ttl

Idle == [at |-> "idle"]

Init ==
  /\ tpm = Gone /\ rpm = Gone
  /\ budget = [p \in Periods |-> Gone]
  /\ reservation = [r \in Requests |-> Gone]
  /\ leases = [r \in Requests |-> Gone]
  /\ period \in Periods
  /\ gateway = [g \in Gateways |-> Idle]
  /\ tokens = Capacity * Unit
  /\ calls = CallCapacity * Unit
  /\ late = FALSE

-----------------------------------------------------------------------------
\* token-admission.lua

\* The rate, concurrency and budget checks, in the state the script reads.
Admissible(e) ==
  /\ Level(tpm, Capacity, Rate) >= e.cost
  /\ Level(rpm, CallCapacity, CallRate) >= 1
  /\ Cardinality(Live(leases)) < MaxConcurrent
  /\ Limit > 0 => Used(period) + e.spend <= Limit

\* Debit, reservation and lease.
Reserve(r, e) ==
  /\ tpm' = Bucket(Level(tpm, Capacity, Rate) - e.cost)
  /\ rpm' = Bucket(Level(rpm, CallCapacity, CallRate) - 1)
  /\ budget' = [budget EXCEPT ![period] = [used |-> Used(period) + e.spend, life |-> Ttl]]
  /\ reservation' = [reservation EXCEPT ![r] =
       [status |-> "active", cost |-> e.cost, spend |-> e.spend,
        period |-> period, life |-> 2 * Ttl]]
  /\ leases' = [Purged EXCEPT ![r] = Ttl]
  /\ tokens' = tokens - e.cost * Unit
  /\ calls' = calls - Unit

\* "allowed" reaches the gateway, which starts the inference; or it does not.
Answered(g, r) ==
  \/ gateway' = [gateway EXCEPT ![g] =
       [at |-> "running", id |-> r, period |-> period, left |-> Ttl]]
  \/ UNCHANGED gateway

\* A bug the properties catch: an earlier reservation is not looked at.
AdmitAgain(g, r) ==
  /\ gateway[g] = Idle
  /\ \E e \in Estimates : Admissible(e) /\ Reserve(r, e)
  /\ Answered(g, r)
  /\ UNCHANGED <<period, late>>

\* admit() of a request whose id Redis does not know.  One it knows is told so,
\* active or final, and nothing is written: the gateway does not run it.
Admit(g, r) ==
  /\ gateway[g] = Idle
  /\ reservation[r] = Gone
  /\ \E e \in Estimates : Admissible(e) /\ Reserve(r, e)
  /\ Answered(g, r)
  /\ UNCHANGED <<period, late>>

\* A refusal has removed the leases that are over; a request beyond the capacity
\* is refused before that.
Deny(g, r) ==
  /\ gateway[g] = Idle
  /\ reservation[r] = Gone
  /\ \E e \in Estimates : e.cost <= Capacity /\ ~Admissible(e)
  /\ leases' = Purged
  /\ UNCHANGED <<tpm, rpm, budget, reservation, period, gateway, tokens, calls, late>>

-----------------------------------------------------------------------------
\* token-settlement.lua

\* A bug the properties catch: the refund leaves last_refill_ms as it was.
RefundStale(n) ==
  /\ tpm' = IF tpm = Gone THEN Bucket(Capacity)
            ELSE [tpm EXCEPT !.credits = Least(Capacity, Level(tpm, Capacity, Rate) + n),
                             !.life = Ttl]
  /\ tokens' = Least(Capacity * Unit, tokens + n * Unit)

\* A bug the properties catch: the refund is added without regard to capacity.
RefundUncapped(n) ==
  /\ tpm' = Bucket(Level(tpm, Capacity, Rate) + n)
  /\ tokens' = Least(Capacity * Unit, tokens + n * Unit)

\* The unused tokens go back to the refilled bucket.
Refund(n) ==
  /\ tpm' = Bucket(Least(Capacity, Level(tpm, Capacity, Rate) + n))
  /\ tokens' = Least(Capacity * Unit, tokens + n * Unit)

\* The unused spend goes back to the period of the reservation.
RefundSpend(p, n) ==
  budget' = IF n = 0 THEN budget
            ELSE [budget EXCEPT ![p] = [used |-> Most(0, Used(p) - n), life |-> Ttl]]

\* The reservation of r is active and of this period: it becomes settled.
SettleActive(r, a) ==
  LET res == reservation[r] IN
  /\ Refund(Most(0, res.cost - a.cost))
  /\ RefundSpend(res.period, Most(0, res.spend - a.spend))
  /\ reservation' = [reservation EXCEPT ![r].status = "settled", ![r].life = Ttl]
  /\ leases' = [leases EXCEPT ![r] = Gone]
  /\ UNCHANGED <<rpm, calls>>

\* A bug the properties catch: a reservation that is final is settled again.
SettleAgain(g, p) ==
  LET r == gateway[g].id IN
  /\ gateway[g] # Idle
  /\ IF reservation[r] # Gone /\ reservation[r].period = p
     THEN \E a \in Actuals : SettleActive(r, a)
     ELSE UNCHANGED <<keys, tokens, calls>>
  /\ gateway' \in {[gateway EXCEPT ![g] = Idle], [gateway EXCEPT ![g].at = "settling"]}
  /\ UNCHANGED <<period, late>>

\* settle() with the period p: that of the admission, or the day it is by now.
\* A reservation that is gone, final or of another period is left alone.  The
\* gateway is done, or misses the answer and may call again.
Settle(g, p) ==
  LET r == gateway[g].id IN
  /\ gateway[g] # Idle
  /\ p \in {gateway[g].period, period}
  /\ IF IsActive(r) /\ reservation[r].period = p
     THEN \E a \in Actuals : SettleActive(r, a)
     ELSE UNCHANGED <<keys, tokens, calls>>
  /\ gateway' \in {[gateway EXCEPT ![g] = Idle], [gateway EXCEPT ![g].at = "settling"]}
  /\ UNCHANGED <<period, late>>

-----------------------------------------------------------------------------
\* reservation-cleanup.lua

\* cleanupExpired(): a reservation whose lease is over expires, without refund;
\* a lease without an active reservation goes.
Cleanup(r) ==
  /\ ~InLease(r)
  /\ leases' = [leases EXCEPT ![r] = Gone]
  /\ reservation' = IF IsActive(r)
       THEN [reservation EXCEPT ![r].status = "expired", ![r].life = Ttl]
       ELSE reservation
  /\ UNCHANGED <<tpm, rpm, budget, period, gateway, tokens, calls, late>>

-----------------------------------------------------------------------------

\* The gateway dies, or gives up settling.
Abandon(g) ==
  /\ gateway[g] # Idle
  /\ gateway' = [gateway EXCEPT ![g] = Idle]
  /\ UNCHANGED <<keys, period, tokens, calls, late>>

\* A key after a tick of Redis's clock: it is deleted when its time is up.
Aged(key) == IF key = Gone \/ key.life = 1 THEN Gone ELSE [key EXCEPT !.life = @ - 1]

AgedBucket(key) ==
  IF Aged(key) = Gone THEN Gone ELSE [Aged(key) EXCEPT !.age = Least(@ + 1, 2 * Ttl)]

\* What a tick adds to an ideal bucket: the steady rate; or all it can hold, when its
\* key expires sooner than that rate would have filled it.
Refilled(level, capacity, rate, key) ==
  IF Aged(key) = Gone /\ Ttl * rate < capacity * Unit
  THEN capacity * Unit ELSE Least(capacity * Unit, level + rate)

\* A tick of the clock.  A settlement is not tried for longer than the record of
\* its request lasts.
Tick ==
  /\ \A g \in Gateways : gateway[g].at = "settling" => Aged(reservation[gateway[g].id]) # Gone
  /\ tpm' = AgedBucket(tpm)
  /\ rpm' = AgedBucket(rpm)
  /\ budget' = [p \in Periods |-> Aged(budget[p])]
  /\ reservation' = [r \in Requests |-> Aged(reservation[r])]
  /\ leases' = [r \in Requests |-> IF leases[r] = Gone THEN Gone ELSE Most(0, leases[r] - 1)]
  /\ gateway' = [g \in Gateways |->
       IF gateway[g] = Idle THEN Idle ELSE [gateway[g] EXCEPT !.left = Most(0, @ - 1)]]
  /\ tokens' = Refilled(tokens, Capacity, Rate, tpm)
  /\ calls' = Refilled(calls, CallCapacity, CallRate, rpm)
  /\ late' = (late \/ \E g \in Gateways :
                gateway[g] # Idle /\ gateway[g].left <= 1 /\ IsActive(gateway[g].id))
  /\ UNCHANGED period

\* Nothing remembers the day p.
Forgotten(p) ==
  /\ budget[p] = Gone
  /\ \A r \in Requests : reservation[r] = Gone \/ reservation[r].period # p
  /\ \A g \in Gateways : gateway[g] = Idle \/ gateway[g].period # p

\* Midnight.  A member of Periods stands for a new day once the earlier one is
\* forgotten.
NextPeriod ==
  /\ period' \in {p \in Periods : Forgotten(p)} \ {period}
  /\ UNCHANGED <<keys, gateway, tokens, calls, late>>

Next ==
  \/ \E g \in Gateways, r \in Requests : Admit(g, r) \/ Deny(g, r)
  \/ \E g \in Gateways, p \in Periods : Settle(g, p)
  \/ \E g \in Gateways : Abandon(g)
  \/ \E r \in Requests : Cleanup(r)
  \/ Tick
  \/ NextPeriod

Spec == Init /\ [][Next]_vars

-----------------------------------------------------------------------------

IsBucket(bucket, capacity) ==
  bucket # Gone =>
    /\ bucket.credits \in 0..capacity
    /\ bucket.life \in 1..Ttl
    /\ bucket.age = Ttl - bucket.life

\* The keys have the types the scripts give them; a bucket holds no more than its
\* capacity, and it expires a time to live after its last refill.
TypeOK ==
  /\ IsBucket(tpm, Capacity) /\ IsBucket(rpm, CallCapacity)
  /\ \A p \in Periods : budget[p] # Gone => budget[p].used \in Nat /\ budget[p].life \in 1..Ttl
  /\ \A r \in Requests : reservation[r] # Gone =>
       /\ reservation[r].status \in {"active", "settled", "expired"}
       /\ [cost |-> reservation[r].cost, spend |-> reservation[r].spend] \in Estimates
       /\ reservation[r].period \in Periods
       /\ reservation[r].life \in 1..(IF IsActive(r) THEN 2 * Ttl ELSE Ttl)
  /\ leases \in [Requests -> 0..Ttl \cup {Gone}]
  /\ period \in Periods
  /\ \A g \in Gateways : gateway[g] = Idle \/
       gateway[g] \in [at : {"running", "settling"}, id : Requests, period : Periods, left : 0..Ttl]
  /\ late \in BOOLEAN

\* Ticks since the scripts last wrote a bucket.
Rest(key) == IF key = Gone THEN Ttl ELSE Ttl - key.life

\* However admissions, refunds, lost answers and the expiry of keys interleave,
\* the tenant gets no more tokens and no more requests than two ideal buckets
\* would have given it: what a refund returns is not refilled a second time, and
\* a key that expires is a bucket that would be full anyway.  Where the time to
\* live is shorter than the time a bucket takes to fill, which nothing in the
\* scripts rules out, a bucket left alone for that long is full before its time:
\* that, and no more, is what the expiry gives away.
Tokens == INSTANCE TokenBucket WITH level <- tokens, rest <- Rest(tpm), Patience <- Ttl
Calls == INSTANCE TokenBucket WITH level <- calls, rest <- Rest(rpm), Patience <- Ttl,
                                   Capacity <- CallCapacity, Rate <- CallRate
IsRateLimited == Tokens!Spec /\ Calls!Spec

\* The slots an admission counts are those of the reservations that are active
\* and in their lease, never more than allowed: admission, settlement, cleanup and
\* expiry agree on two keys with different times to live, so that no slot is
\* freed too early and none is held by a request nobody settles or cleans up.
\* If every gateway is done before its lease is over, then whatever is retried,
\* cleaned up or not answered, an inference that runs has its slot to the end and
\* no request is run twice at a time.
SlotPerReservation ==
  /\ Live(leases) = {r \in Requests : InLease(r)}
  /\ Cardinality(Live(leases)) <= MaxConcurrent
  /\ ~late => \A g \in Gateways : gateway[g].at = "running" =>
    /\ InLease(gateway[g].id)
    /\ \A h \in Gateways \ {g} : gateway[h].at = "running" => gateway[h].id # gateway[g].id

\* The requests in their lease that are charged to the period p.
Held(p) == {r \in Requests : InLease(r) /\ reservation[r].period = p}

\* Under the same condition the spend of every reservation in its lease is held
\* in the budget of its period: nobody's refund, made once or twice, before or
\* after the budget key expired, gives away what another request has reserved.
BudgetHeld ==
  ~late => \A p \in Periods :
    /\ Used(p) >= SumFunction([r \in Held(p) |-> reservation[r].spend])
    /\ Limit > 0 => Used(p) <= Limit
=============================================================================
