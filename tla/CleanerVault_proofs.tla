------------------------- MODULE CleanerVault_proofs -------------------------
(***************************************************************************)
(* The lock of the cleaner is exclusive while no lock file gets old, a     *)
(* capsule nobody works on is sealed with all its files or holds nothing,  *)
(* and no operation loses a file but one that was written where it had     *)
(* found none; for every number of operations, files and capsules.         *)
(***************************************************************************)
EXTENDS CleanerVault, FiniteSetTheorems, WellFoundedInduction, TLAPS

Contained == Contents \cup {Absent}

Points == {"idle", "lock", "break", "purge"} \cup Work

Operation ==
  [kind : {"none", "clean", "session", "restore"},
   at : Points,
   cap : Capsules \cup {0}, todo : SUBSET (Paths \cup Capsules),
   seen : [Paths -> Contained], free : SUBSET Paths, holds : BOOLEAN]

Manifest == [state : {"none", "preparing", "sealed", "closed"}, items : [Paths -> Contained]]

OpTyped ==
  /\ op \in [Ops -> Operation]
  /\ \A o \in Ops :
       /\ op[o].at \in {"lock", "break"} => op[o].kind # "none"
       /\ op[o].at = "manifest" \/ op[o].kind = "restore" => op[o].cap \in Capsules
       /\ op[o].holds => op[o].at \in Work

VaultTyped ==
  /\ files \in [Paths -> Contained]
  /\ stored \in [Capsules -> [Paths -> Contained]]
  /\ manifest \in [Capsules -> Manifest]
  /\ lock \in Ops \cup {Free, Left} /\ old \in BOOLEAN /\ aged \in BOOLEAN
  /\ swapped \subseteq Capsules /\ damaged \subseteq Capsules

Typed == OpTyped /\ VaultTyped

(***************************************************************************)
(* The lock.                                                               *)
(***************************************************************************)
\* While no lock file gets old nobody removes one that is not his own.
LockHeld ==
  /\ old => aged
  /\ ~aged => \A o \in Ops : ~At(o, "break") /\ (op[o].holds => lock = o)

(***************************************************************************)
(* The capsules.                                                           *)
(***************************************************************************)
Cleaning(o) == op[o].at \in {"check", "hash", "move", "unlink", "undo", "back"}
Restoring(o) == op[o].at \in {"verify", "put"}

\* What a cleanup has put into its capsule so far.
Has(o) == Moved(o) \cup (IF At(o, "unlink") THEN {First(op[o].todo)} ELSE {})

HoldsMoved(o) ==
  \A p \in Paths :
    IF p \in Has(o)
    THEN /\ stored[op[o].cap][p] # Absent
         /\ op[o].cap \notin swapped => stored[op[o].cap][p] = op[o].seen[p]
    ELSE stored[op[o].cap][p] = Absent

\* A capsule is prepared by one cleanup, which alone puts files into it.
CleanerOk(o) ==
  /\ op[o].cap \in Capsules /\ manifest[op[o].cap].state = "preparing"
  /\ op[o].todo \subseteq Present(op[o].seen)
  /\ op[o].at \in {"hash", "move", "unlink"} => op[o].todo # {}
  /\ At(o, "back") => Moved(o) # {}
  /\ op[o].at \notin {"undo", "back"} \/ op[o].cap \notin damaged => HoldsMoved(o)

CleanersInv ==
  /\ \A o \in Ops : Cleaning(o) => CleanerOk(o)
  /\ \A o, q \in Ops : Cleaning(o) /\ Cleaning(q) /\ op[o].cap = op[q].cap => o = q

\* A restore works with the items of a capsule that was sealed, and what it has
\* put back is not in the capsule any more.
RestorerOk(o) ==
  /\ op[o].cap \in Capsules
  /\ manifest[op[o].cap].state \in {"sealed", "closed"}
  /\ manifest[op[o].cap].state = "sealed" => manifest[op[o].cap].items = op[o].seen
  /\ manifest[op[o].cap].state = "closed" => stored[op[o].cap] = Nothing
  /\ op[o].todo \subseteq Present(op[o].seen)
  /\ At(o, "put") => \A p \in Paths \ op[o].todo : stored[op[o].cap][p] = Absent

RestorersInv == \A o \in Ops : Restoring(o) => RestorerOk(o)

\* A pass lists capsules that were sealed.
PurgerOk(o) == \A c \in op[o].todo : c \in Capsules /\ manifest[c].state \in {"sealed", "closed"}

PurgersInv == \A o \in Ops : At(o, "purge") => PurgerOk(o)

\* A capsule that is not in use, or was emptied.
Empty(c) ==
  /\ manifest[c].state = "none" => stored[c] = Nothing
  /\ manifest[c].state = "closed" /\ c \notin damaged => stored[c] = Nothing

\* One whose cleanup gave up.
Abandoned(c) ==
  manifest[c].state = "preparing" /\ c \notin damaged =>
    stored[c] = Nothing \/ \E o \in Ops : Cleaning(o) /\ op[o].cap = c

\* A sealed one holds some of its files, and all unless it is being restored.
Partial(c) ==
  manifest[c].state = "sealed" =>
    \A p \in Paths :
      \/ stored[c][p] = Absent
      \/ manifest[c].items[p] # Absent /\ (c \notin swapped => stored[c][p] = manifest[c].items[p])

Full(c) ==
  manifest[c].state = "sealed" =>
    \/ c \in damaged \/ \A p \in Paths : manifest[c].items[p] # Absent => stored[c][p] # Absent
    \/ \E o \in Ops : At(o, "put") /\ op[o].cap = c

CapsuleOk(c) == Empty(c) /\ Abandoned(c) /\ Partial(c) /\ Full(c)

CapsulesInv == \A c \in Capsules : CapsuleOk(c)

VaultInv == CleanersInv /\ RestorersInv /\ PurgersInv /\ CapsulesInv

\* An operation moves a file back to a path it has found free.
FreeOk(o) ==
  /\ At(o, "verify") => Present(op[o].seen) \ op[o].todo \subseteq op[o].free
  /\ At(o, "put") => op[o].todo \subseteq op[o].free
  /\ At(o, "back") => Last(Moved(o)) \in op[o].free

FreeInv == \A o \in Ops : FreeOk(o)

Inv ==
  /\ Typed /\ LockHeld
  /\ VaultInv /\ FreeInv

USE CleanerAssumption

-----------------------------------------------------------------------------

\* What the others do is not changed.
Others(o) == \A q \in Ops \ {o} : op'[q] = op[q]

\* What a step of o makes of it.
Becomes(o, kind, at, cap, todo, seen, free, holds) ==
  /\ op' \in [Ops -> Operation] /\ Others(o)
  /\ op'[o].kind = kind /\ op'[o].at = at /\ op'[o].cap = cap
  /\ op'[o].todo = todo /\ op'[o].seen = seen
  /\ op'[o].free = free /\ op'[o].holds = holds

LEMMA NothingTyped == Nothing \in [Paths -> Contained] /\ Idle \in Operation
<1>1. Nothing \in [Paths -> Contained]
  BY DEF Nothing, Contained
<1> QED
  BY <1>1 DEF Idle, Operation, Points

LEMMA SetStateTyped ==
  ASSUME manifest \in [Capsules -> Manifest], swapped \subseteq Capsules, NEW c \in Capsules,
         NEW s \in {"preparing", "closed"}, SetState(c, s)
  PROVE  /\ manifest' \in [Capsules -> Manifest]
         /\ manifest'[c].state = s
         /\ \A d \in Capsules \ {c} : manifest'[d] = manifest[d]
         /\ swapped' = swapped \ {c}
  BY NothingTyped DEF SetState, Manifest

LEMMA GotoOp ==
  ASSUME op \in [Ops -> Operation], NEW o \in Ops, NEW at \in Points,
         Goto(o, at)
  PROVE  Becomes(o, op[o].kind, at, op[o].cap, op[o].todo, op[o].seen, op[o].free, op[o].holds)
<1> DEFINE r == [op[o] EXCEPT !.at = at]
<1>1. op[o] \in Operation
  OBVIOUS
<1>2. op'[o] = r /\ Others(o) /\ op' = [op EXCEPT ![o] = r]
  BY <1>1 DEF Others, Operation, Goto
<1>3. /\ r.kind = op[o].kind /\ r.at = at /\ r.cap = op[o].cap
      /\ r.todo = op[o].todo /\ r.seen = op[o].seen /\ r.free = op[o].free /\ r.holds = op[o].holds
  BY <1>1 DEF Operation
<1>4. r \in Operation
  BY <1>1, NothingTyped DEF Operation, Points, Work
<1> HIDE DEF r
<1>5. op' \in [Ops -> Operation]
  BY <1>2, <1>4
<1> QED
  BY <1>2, <1>3, <1>5 DEF Becomes

LEMMA FinishOp ==
  ASSUME op \in [Ops -> Operation], NEW o \in Ops,
         Finish(o)
  PROVE  Becomes(o, "none", "over", 0, {}, Nothing, {}, op[o].holds)
<1> DEFINE r == [Idle EXCEPT !.at = "over", !.holds = op[o].holds]
<1>1. op[o] \in Operation
  OBVIOUS
<1>2. op'[o] = r /\ Others(o) /\ op' = [op EXCEPT ![o] = r]
  BY <1>1 DEF Others, Operation, Finish
<1>3. /\ r.kind = "none" /\ r.at = "over" /\ r.cap = 0
      /\ r.todo = {} /\ r.seen = Nothing /\ r.free = {} /\ r.holds = op[o].holds
  BY <1>1 DEF Idle, Operation
<1>4. r \in Operation
  BY <1>1, NothingTyped DEF Operation, Points, Work
<1> HIDE DEF r
<1>5. op' \in [Ops -> Operation]
  BY <1>2, <1>4
<1> QED
  BY <1>2, <1>3, <1>5 DEF Becomes

LEMMA ResetOp ==
  ASSUME op \in [Ops -> Operation], NEW o \in Ops,
         op' = [op EXCEPT ![o] = Idle]
  PROVE  Becomes(o, "none", "idle", 0, {}, Nothing, {}, FALSE)
<1> DEFINE r == Idle
<1>1. op[o] \in Operation
  OBVIOUS
<1>2. op'[o] = r /\ Others(o) /\ op' = [op EXCEPT ![o] = r]
  BY <1>1 DEF Others, Operation
<1>3. /\ r.kind = "none" /\ r.at = "idle" /\ r.cap = 0
      /\ r.todo = {} /\ r.seen = Nothing /\ r.free = {} /\ r.holds = FALSE
  BY <1>1 DEF Idle, Operation
<1>4. r \in Operation
  BY <1>1, NothingTyped DEF Operation, Points, Work
<1> HIDE DEF r
<1>5. op' \in [Ops -> Operation]
  BY <1>2, <1>4
<1> QED
  BY <1>2, <1>3, <1>5 DEF Becomes

LEMMA BeginOp ==
  ASSUME op \in [Ops -> Operation], NEW o \in Ops, NEW kind \in {"clean", "session", "restore"}, NEW at \in Points,
         NEW c \in Capsules \cup {0}, NEW seen \in [Paths -> Contained],
         Begin(o, kind, at, c, seen)
  PROVE  Becomes(o, kind, at, c, {}, seen, {}, FALSE)
<1> DEFINE r == [Idle EXCEPT !.kind = kind, !.at = at, !.cap = c, !.seen = seen]
<1>1. op[o] \in Operation
  OBVIOUS
<1>2. op'[o] = r /\ Others(o) /\ op' = [op EXCEPT ![o] = r]
  BY <1>1 DEF Others, Operation, Begin
<1>3. /\ r.kind = kind /\ r.at = at /\ r.cap = c
      /\ r.todo = {} /\ r.seen = seen /\ r.free = {} /\ r.holds = FALSE
  BY <1>1 DEF Idle, Operation
<1>4. r \in Operation
  BY <1>1, NothingTyped DEF Operation, Points, Work
<1> HIDE DEF r
<1>5. op' \in [Ops -> Operation]
  BY <1>2, <1>4
<1> QED
  BY <1>2, <1>3, <1>5 DEF Becomes

LEMMA CleanAfterPassOp ==
  ASSUME op \in [Ops -> Operation], NEW o \in Ops,
         op' = [op EXCEPT ![o] = [Idle EXCEPT !.kind = "clean", !.at = "lock"]]
  PROVE  Becomes(o, "clean", "lock", 0, {}, Nothing, {}, FALSE)
<1> DEFINE r == [Idle EXCEPT !.kind = "clean", !.at = "lock"]
<1>1. op[o] \in Operation
  OBVIOUS
<1>2. op'[o] = r /\ Others(o) /\ op' = [op EXCEPT ![o] = r]
  BY <1>1 DEF Others, Operation
<1>3. /\ r.kind = "clean" /\ r.at = "lock" /\ r.cap = 0
      /\ r.todo = {} /\ r.seen = Nothing /\ r.free = {} /\ r.holds = FALSE
  BY <1>1 DEF Idle, Operation
<1>4. r \in Operation
  BY <1>1, NothingTyped DEF Operation, Points, Work
<1> HIDE DEF r
<1>5. op' \in [Ops -> Operation]
  BY <1>2, <1>4
<1> QED
  BY <1>2, <1>3, <1>5 DEF Becomes

LEMMA ListOp ==
  ASSUME op \in [Ops -> Operation], NEW o \in Ops, NEW todo \in SUBSET (Paths \cup Capsules),
         op' = [op EXCEPT ![o] = [Idle EXCEPT !.at = "purge", !.todo = todo]]
  PROVE  Becomes(o, "none", "purge", 0, todo, Nothing, {}, FALSE)
<1> DEFINE r == [Idle EXCEPT !.at = "purge", !.todo = todo]
<1>1. op[o] \in Operation
  OBVIOUS
<1>2. op'[o] = r /\ Others(o) /\ op' = [op EXCEPT ![o] = r]
  BY <1>1 DEF Others, Operation
<1>3. /\ r.kind = "none" /\ r.at = "purge" /\ r.cap = 0
      /\ r.todo = todo /\ r.seen = Nothing /\ r.free = {} /\ r.holds = FALSE
  BY <1>1 DEF Idle, Operation
<1>4. r \in Operation
  BY <1>1, NothingTyped DEF Operation, Points, Work
<1> HIDE DEF r
<1>5. op' \in [Ops -> Operation]
  BY <1>2, <1>4
<1> QED
  BY <1>2, <1>3, <1>5 DEF Becomes

LEMMA EnterOp ==
  ASSUME op \in [Ops -> Operation], NEW o \in Ops, NEW at \in Work,
         op' = [op EXCEPT ![o].at = at, ![o].kind = "none", ![o].holds = TRUE]
  PROVE  Becomes(o, "none", at, op[o].cap, op[o].todo, op[o].seen, op[o].free, TRUE)
<1> DEFINE r == [op[o] EXCEPT !.at = at, !.kind = "none", !.holds = TRUE]
<1>1. op[o] \in Operation
  OBVIOUS
<1>2. op'[o] = r /\ Others(o) /\ op' = [op EXCEPT ![o] = r]
  BY <1>1 DEF Others, Operation
<1>3. /\ r.kind = "none" /\ r.at = at /\ r.cap = op[o].cap
      /\ r.todo = op[o].todo /\ r.seen = op[o].seen /\ r.free = op[o].free /\ r.holds = TRUE
  BY <1>1 DEF Operation
<1>4. r \in Operation
  BY <1>1, NothingTyped DEF Operation, Points, Work
<1> HIDE DEF r
<1>5. op' \in [Ops -> Operation]
  BY <1>2, <1>4
<1> QED
  BY <1>2, <1>3, <1>5 DEF Becomes

LEMMA ReleaseEarlyOp ==
  ASSUME op \in [Ops -> Operation], NEW o \in Ops,
         op' = [op EXCEPT ![o].holds = FALSE]
  PROVE  Becomes(o, op[o].kind, op[o].at, op[o].cap, op[o].todo, op[o].seen, op[o].free, FALSE)
<1> DEFINE r == [op[o] EXCEPT !.holds = FALSE]
<1>1. op[o] \in Operation
  OBVIOUS
<1>2. op'[o] = r /\ Others(o) /\ op' = [op EXCEPT ![o] = r]
  BY <1>1 DEF Others, Operation
<1>3. /\ r.kind = op[o].kind /\ r.at = op[o].at /\ r.cap = op[o].cap
      /\ r.todo = op[o].todo /\ r.seen = op[o].seen /\ r.free = op[o].free /\ r.holds = FALSE
  BY <1>1 DEF Operation
<1>4. r \in Operation
  BY <1>1, NothingTyped DEF Operation, Points, Work
<1> HIDE DEF r
<1>5. op' \in [Ops -> Operation]
  BY <1>2, <1>4
<1> QED
  BY <1>2, <1>3, <1>5 DEF Becomes

LEMMA AtSeenOp ==
  ASSUME op \in [Ops -> Operation], NEW o \in Ops, NEW at \in Points, NEW seen \in [Paths -> Contained],
         op' = [op EXCEPT ![o].at = at, ![o].seen = seen]
  PROVE  Becomes(o, op[o].kind, at, op[o].cap, op[o].todo, seen, op[o].free, op[o].holds)
<1> DEFINE r == [op[o] EXCEPT !.at = at, !.seen = seen]
<1>1. op[o] \in Operation
  OBVIOUS
<1>2. op'[o] = r /\ Others(o) /\ op' = [op EXCEPT ![o] = r]
  BY <1>1 DEF Others, Operation
<1>3. /\ r.kind = op[o].kind /\ r.at = at /\ r.cap = op[o].cap
      /\ r.todo = op[o].todo /\ r.seen = seen /\ r.free = op[o].free /\ r.holds = op[o].holds
  BY <1>1 DEF Operation
<1>4. r \in Operation
  BY <1>1, NothingTyped DEF Operation, Points, Work
<1> HIDE DEF r
<1>5. op' \in [Ops -> Operation]
  BY <1>2, <1>4
<1> QED
  BY <1>2, <1>3, <1>5 DEF Becomes

LEMMA PrepareOp ==
  ASSUME op \in [Ops -> Operation], NEW o \in Ops, NEW c \in Capsules, NEW todo \in SUBSET (Paths \cup Capsules),
         op' = [op EXCEPT ![o].at = "check", ![o].cap = c, ![o].todo = todo]
  PROVE  Becomes(o, op[o].kind, "check", c, todo, op[o].seen, op[o].free, op[o].holds)
<1> DEFINE r == [op[o] EXCEPT !.at = "check", !.cap = c, !.todo = todo]
<1>1. op[o] \in Operation
  OBVIOUS
<1>2. op'[o] = r /\ Others(o) /\ op' = [op EXCEPT ![o] = r]
  BY <1>1 DEF Others, Operation
<1>3. /\ r.kind = op[o].kind /\ r.at = "check" /\ r.cap = c
      /\ r.todo = todo /\ r.seen = op[o].seen /\ r.free = op[o].free /\ r.holds = op[o].holds
  BY <1>1 DEF Operation
<1>4. r \in Operation
  BY <1>1, NothingTyped DEF Operation, Points, Work
<1> HIDE DEF r
<1>5. op' \in [Ops -> Operation]
  BY <1>2, <1>4
<1> QED
  BY <1>2, <1>3, <1>5 DEF Becomes

LEMMA TodoOp ==
  ASSUME op \in [Ops -> Operation], NEW o \in Ops, NEW todo \in SUBSET (Paths \cup Capsules),
         op' = [op EXCEPT ![o].todo = todo]
  PROVE  Becomes(o, op[o].kind, op[o].at, op[o].cap, todo, op[o].seen, op[o].free, op[o].holds)
<1> DEFINE r == [op[o] EXCEPT !.todo = todo]
<1>1. op[o] \in Operation
  OBVIOUS
<1>2. op'[o] = r /\ Others(o) /\ op' = [op EXCEPT ![o] = r]
  BY <1>1 DEF Others, Operation
<1>3. /\ r.kind = op[o].kind /\ r.at = op[o].at /\ r.cap = op[o].cap
      /\ r.todo = todo /\ r.seen = op[o].seen /\ r.free = op[o].free /\ r.holds = op[o].holds
  BY <1>1 DEF Operation
<1>4. r \in Operation
  BY <1>1, NothingTyped DEF Operation, Points, Work
<1> HIDE DEF r
<1>5. op' \in [Ops -> Operation]
  BY <1>2, <1>4
<1> QED
  BY <1>2, <1>3, <1>5 DEF Becomes

LEMMA AtTodoOp ==
  ASSUME op \in [Ops -> Operation], NEW o \in Ops, NEW at \in Points, NEW todo \in SUBSET (Paths \cup Capsules),
         op' = [op EXCEPT ![o].at = at, ![o].todo = todo]
  PROVE  Becomes(o, op[o].kind, at, op[o].cap, todo, op[o].seen, op[o].free, op[o].holds)
<1> DEFINE r == [op[o] EXCEPT !.at = at, !.todo = todo]
<1>1. op[o] \in Operation
  OBVIOUS
<1>2. op'[o] = r /\ Others(o) /\ op' = [op EXCEPT ![o] = r]
  BY <1>1 DEF Others, Operation
<1>3. /\ r.kind = op[o].kind /\ r.at = at /\ r.cap = op[o].cap
      /\ r.todo = todo /\ r.seen = op[o].seen /\ r.free = op[o].free /\ r.holds = op[o].holds
  BY <1>1 DEF Operation
<1>4. r \in Operation
  BY <1>1, NothingTyped DEF Operation, Points, Work
<1> HIDE DEF r
<1>5. op' \in [Ops -> Operation]
  BY <1>2, <1>4
<1> QED
  BY <1>2, <1>3, <1>5 DEF Becomes

LEMMA AtFreeOp ==
  ASSUME op \in [Ops -> Operation], NEW o \in Ops, NEW at \in Points, NEW free \in SUBSET Paths,
         op' = [op EXCEPT ![o].at = at, ![o].free = free]
  PROVE  Becomes(o, op[o].kind, at, op[o].cap, op[o].todo, op[o].seen, free, op[o].holds)
<1> DEFINE r == [op[o] EXCEPT !.at = at, !.free = free]
<1>1. op[o] \in Operation
  OBVIOUS
<1>2. op'[o] = r /\ Others(o) /\ op' = [op EXCEPT ![o] = r]
  BY <1>1 DEF Others, Operation
<1>3. /\ r.kind = op[o].kind /\ r.at = at /\ r.cap = op[o].cap
      /\ r.todo = op[o].todo /\ r.seen = op[o].seen /\ r.free = free /\ r.holds = op[o].holds
  BY <1>1 DEF Operation
<1>4. r \in Operation
  BY <1>1, NothingTyped DEF Operation, Points, Work
<1> HIDE DEF r
<1>5. op' \in [Ops -> Operation]
  BY <1>2, <1>4
<1> QED
  BY <1>2, <1>3, <1>5 DEF Becomes

LEMMA TodoFreeOp ==
  ASSUME op \in [Ops -> Operation], NEW o \in Ops, NEW todo \in SUBSET (Paths \cup Capsules), NEW free \in SUBSET Paths,
         op' = [op EXCEPT ![o].todo = todo, ![o].free = free]
  PROVE  Becomes(o, op[o].kind, op[o].at, op[o].cap, todo, op[o].seen, free, op[o].holds)
<1> DEFINE r == [op[o] EXCEPT !.todo = todo, !.free = free]
<1>1. op[o] \in Operation
  OBVIOUS
<1>2. op'[o] = r /\ Others(o) /\ op' = [op EXCEPT ![o] = r]
  BY <1>1 DEF Others, Operation
<1>3. /\ r.kind = op[o].kind /\ r.at = op[o].at /\ r.cap = op[o].cap
      /\ r.todo = todo /\ r.seen = op[o].seen /\ r.free = free /\ r.holds = op[o].holds
  BY <1>1 DEF Operation
<1>4. r \in Operation
  BY <1>1, NothingTyped DEF Operation, Points, Work
<1> HIDE DEF r
<1>5. op' \in [Ops -> Operation]
  BY <1>2, <1>4
<1> QED
  BY <1>2, <1>3, <1>5 DEF Becomes

LEMMA ReadOp ==
  ASSUME op \in [Ops -> Operation], NEW o \in Ops, NEW seen \in [Paths -> Contained], NEW todo \in SUBSET (Paths \cup Capsules),
         op' = [op EXCEPT ![o].at = "verify", ![o].seen = seen, ![o].todo = todo]
  PROVE  Becomes(o, op[o].kind, "verify", op[o].cap, todo, seen, op[o].free, op[o].holds)
<1> DEFINE r == [op[o] EXCEPT !.at = "verify", !.seen = seen, !.todo = todo]
<1>1. op[o] \in Operation
  OBVIOUS
<1>2. op'[o] = r /\ Others(o) /\ op' = [op EXCEPT ![o] = r]
  BY <1>1 DEF Others, Operation
<1>3. /\ r.kind = op[o].kind /\ r.at = "verify" /\ r.cap = op[o].cap
      /\ r.todo = todo /\ r.seen = seen /\ r.free = op[o].free /\ r.holds = op[o].holds
  BY <1>1 DEF Operation
<1>4. r \in Operation
  BY <1>1, NothingTyped DEF Operation, Points, Work
<1> HIDE DEF r
<1>5. op' \in [Ops -> Operation]
  BY <1>2, <1>4
<1> QED
  BY <1>2, <1>3, <1>5 DEF Becomes

-----------------------------------------------------------------------------
\* First and Last of a set of paths or of capsules are in it.

LEMMA FirstIsIn ==
  ASSUME NEW n \in Nat, NEW S \in SUBSET (1..n), S # {}
  PROVE  First(S) \in S /\ \A q \in S : First(S) <= q
<1>1. S \subseteq Nat
  OBVIOUS
<1>2. \E s \in S : \A t \in S : ~(<<t, s>> \in OpToRel(<, Nat))
  BY <1>1, NatLessThanWellFounded, WFMin
<1>3. ASSUME NEW s \in S, NEW t \in S, ~(<<t, s>> \in OpToRel(<, Nat))
      PROVE  s <= t
  BY <1>1, <1>3 DEF OpToRel
<1>4. \E s \in S : \A t \in S : s <= t
  BY <1>2, <1>3
<1> QED
  BY <1>4 DEF First

LEMMA LastIsIn ==
  ASSUME NEW n \in Nat, NEW S \in SUBSET (1..n), S # {}
  PROVE  Last(S) \in S
<1> DEFINE R == {n + 1 - s : s \in S}
<1>1. R \in SUBSET (1..n) /\ R # {}
  <2>1. \A s \in S : n + 1 - s \in 1..n
    OBVIOUS
  <2>2. PICK s \in S : TRUE
    OBVIOUS
  <2>3. n + 1 - s \in R
    OBVIOUS
  <2> QED
    BY <2>1, <2>3
<1>2. PICK r \in R : \A q \in R : r <= q
  BY <1>1, FirstIsIn
<1>3. n + 1 - r \in S /\ \A q \in S : n + 1 - r >= q
  <2>1. PICK s \in S : r = n + 1 - s
    BY <1>2
  <2>2. n + 1 - r = s
    BY <2>1
  <2>3. ASSUME NEW q \in S PROVE s >= q
    <3>1. n + 1 - q \in R
      OBVIOUS
    <3> QED
      BY <1>2, <2>1, <3>1
  <2> QED
    BY <2>2, <2>3
<1>4. \E s \in S : \A q \in S : s >= q
  BY <1>3
<1> QED
  BY <1>4 DEF Last

LEMMA FirstOfPaths == ASSUME NEW S \in SUBSET Paths, S # {} PROVE First(S) \in S
  BY FirstIsIn DEF Paths

LEMMA LastOfPaths == ASSUME NEW S \in SUBSET Paths, S # {} PROVE Last(S) \in S
  BY LastIsIn DEF Paths

LEMMA LastOfCapsules == ASSUME NEW S \in SUBSET Capsules, S # {} PROVE Last(S) \in S
  BY LastIsIn DEF Capsules

LEMMA LastMoved == ASSUME NEW o \in Ops, Moved(o) # {} PROVE Last(Moved(o)) \in Moved(o) /\ Last(Moved(o)) \in Paths
  BY LastOfPaths DEF Moved, Present

-----------------------------------------------------------------------------
\* What each action makes of its operation.

LEMMA CleanEffect ==
  ASSUME Typed, NEW o \in Ops, Clean(o)
  PROVE  Becomes(o, "clean", "lock", 0, {}, Nothing, {}, FALSE)
  BY NothingTyped, BeginOp DEF Clean, Points, Typed, OpTyped

LEMMA StopSessionEffect ==
  ASSUME Typed, NEW o \in Ops, StopSession(o)
  PROVE  \E seen \in [Paths -> Contained] : Becomes(o, "session", "lock", 0, {}, seen, {}, FALSE)
<1> PICK S \in SUBSET Present(files) \ {{}} :
      Begin(o, "session", "lock", 0, [p \in Paths |-> IF p \in S THEN files[p] ELSE Absent])
  BY DEF StopSession
<1>1. [p \in Paths |-> IF p \in S THEN files[p] ELSE Absent] \in [Paths -> Contained]
  BY DEF Typed, VaultTyped, Contained
<1> QED
  BY <1>1, BeginOp DEF Points, Typed, OpTyped

LEMMA RestoreEffect ==
  ASSUME Typed, NEW o \in Ops, NEW c \in Capsules, Restore(o, c)
  PROVE  Becomes(o, "restore", "lock", c, {}, Nothing, {}, FALSE)
  BY NothingTyped, BeginOp DEF Restore, Points, Typed, OpTyped

LEMMA PassEffect ==
  ASSUME Typed, NEW o \in Ops, Pass(o)
  PROVE  \E S \in SUBSET {c \in Capsules : manifest[c].state = "sealed"} :
           Becomes(o, "none", "purge", 0, S, Nothing, {}, FALSE)
<1>1. PICK S \in SUBSET {c \in Capsules : manifest[c].state = "sealed"} :
        op' = [op EXCEPT ![o] = [Idle EXCEPT !.at = "purge", !.todo = S]]
  BY DEF Pass
<1>2. S \in SUBSET (Paths \cup Capsules)
  OBVIOUS
<1> QED
  BY <1>1, <1>2, ListOp DEF Typed, OpTyped

LEMMA EnterEffect ==
  ASSUME Typed, NEW o \in Ops, At(o, "lock"), Enter(o)
  PROVE  \E at \in {"scan", "prepare", "manifest"} :
           /\ Becomes(o, "none", at, op[o].cap, op[o].todo, op[o].seen, op[o].free, TRUE)
           /\ at = "manifest" => op[o].cap \in Capsules
<1> DEFINE at == AfterLock[op[o].kind]
<1>1. at \in {"scan", "prepare", "manifest"} /\ (at = "manifest" => op[o].kind = "restore")
  BY DEF At, AfterLock, Operation, Typed, OpTyped
<1>2. op' = [op EXCEPT ![o].at = at, ![o].kind = "none", ![o].holds = TRUE]
  BY DEF Enter
<1> HIDE DEF at
<1> QED
  BY <1>1, <1>2, EnterOp DEF Work, Typed, OpTyped

LEMMA AcquireEffect ==
  ASSUME Typed, NEW o \in Ops, Acquire(o)
  PROVE  \/ /\ lock' = o /\ old' = FALSE
            /\ \E at \in {"scan", "prepare", "manifest"} :
                 /\ Becomes(o, "none", at, op[o].cap, op[o].todo, op[o].seen, op[o].free, TRUE)
                 /\ at = "manifest" => op[o].cap \in Capsules
         \/ Becomes(o, "none", "idle", 0, {}, Nothing, {}, FALSE)
<1>1. CASE Enter(o)
  BY <1>1, EnterEffect DEF Acquire, Enter
<1>2. CASE op' = [op EXCEPT ![o] = Idle]
  BY <1>2, ResetOp DEF Typed, OpTyped
<1> QED
  BY <1>1, <1>2 DEF Acquire

LEMMA LockedEffect ==
  ASSUME Typed, NEW o \in Ops, Locked(o)
  PROVE  \/ /\ old
            /\ Becomes(o, op[o].kind, "break", op[o].cap, op[o].todo, op[o].seen, op[o].free, op[o].holds)
         \/ Becomes(o, "none", "idle", 0, {}, Nothing, {}, FALSE)
  BY GotoOp, ResetOp DEF Locked, Points, Typed, OpTyped

LEMMA BreakLockEffect ==
  ASSUME Typed, NEW o \in Ops, BreakLock(o)
  PROVE  Becomes(o, op[o].kind, "lock", op[o].cap, op[o].todo, op[o].seen, op[o].free, op[o].holds)
  BY GotoOp DEF BreakLock, Points, Typed, OpTyped

LEMMA ReleaseEffect ==
  ASSUME Typed, NEW o \in Ops, Release(o)
  PROVE  Becomes(o, "none", "idle", 0, {}, Nothing, {}, FALSE)
  BY ResetOp DEF Release, Typed, OpTyped

LEMMA ReleaseEarlyEffect ==
  ASSUME Typed, NEW o \in Ops, ReleaseEarly(o)
  PROVE  Becomes(o, op[o].kind, op[o].at, op[o].cap, op[o].todo, op[o].seen, op[o].free, FALSE)
  BY ReleaseEarlyOp DEF ReleaseEarly, Typed, OpTyped

LEMMA ScanEffect ==
  ASSUME Typed, NEW o \in Ops, Scan(o)
  PROVE  Becomes(o, op[o].kind, "prepare", op[o].cap, op[o].todo, files, op[o].free, op[o].holds)
  BY AtSeenOp DEF Scan, Points, Work, Typed, OpTyped, VaultTyped

\* The capsule an operation makes.
Creates(o, c) ==
  /\ manifest[c].state = "none" /\ SetState(c, "preparing")
  /\ Becomes(o, op[o].kind, "check", c, Present(op[o].seen), op[o].seen, op[o].free, op[o].holds)

LEMMA PrepareEffect ==
  ASSUME Typed, NEW o \in Ops, Prepare(o)
  PROVE  \/ \E c \in Capsules : Creates(o, c)
         \/ Becomes(o, "none", "over", 0, {}, Nothing, {}, op[o].holds) /\ NoState
<1>1. Present(op[o].seen) \in SUBSET (Paths \cup Capsules)
  BY DEF Present
<1>2. ASSUME NEW c \in Capsules,
             op' = [op EXCEPT ![o].at = "check", ![o].cap = c, ![o].todo = Present(op[o].seen)]
      PROVE  Becomes(o, op[o].kind, "check", c, Present(op[o].seen), op[o].seen, op[o].free, op[o].holds)
  BY <1>1, <1>2, PrepareOp DEF Typed, OpTyped
<1> QED
  BY <1>2, FinishOp DEF Prepare, Creates, Typed, OpTyped

LEMMA CheckEffect ==
  ASSUME Typed, NEW o \in Ops, Check(o)
  PROVE  \E at \in {"hash", "undo"} :
           Becomes(o, op[o].kind, at, op[o].cap, op[o].todo, op[o].seen, op[o].free, op[o].holds)
<1>1. \E at \in {"hash", "undo"} : Goto(o, at)
  BY DEF Check
<1> QED
  BY <1>1, GotoOp DEF Points, Work, Typed, OpTyped

LEMMA HashEffect ==
  ASSUME Typed, NEW o \in Ops, Hash(o), First(op[o].todo) \in Paths
  PROVE  LET p == First(op[o].todo)
         IN  \/ /\ files[p] # Absent
                /\ Becomes(o, op[o].kind, "move", op[o].cap, op[o].todo,
                           [op[o].seen EXCEPT ![p] = files[p]], op[o].free, op[o].holds)
             \/ Becomes(o, op[o].kind, "undo", op[o].cap, op[o].todo, op[o].seen, op[o].free, op[o].holds)
<1> DEFINE p == First(op[o].todo)
           s == [op[o].seen EXCEPT ![p] = files[p]]
<1>1. CASE files[p] # Absent
  <2>1. op' = [op EXCEPT ![o].at = "move", ![o].seen = s]
    BY <1>1 DEF Hash, Typed, OpTyped
  <2>2. files[p] \in Contained /\ op[o].seen \in [Paths -> Contained]
    BY DEF Typed, OpTyped, VaultTyped, Operation
  <2>3. s \in [Paths -> Contained]
    BY <2>2
  <2> HIDE DEF s
  <2>4. Becomes(o, op[o].kind, "move", op[o].cap, op[o].todo, s, op[o].free, op[o].holds)
    BY <2>1, <2>3, AtSeenOp DEF Points, Work, Typed, OpTyped
  <2> USE DEF s
  <2> QED
    BY <1>1, <2>4
<1>2. CASE files[p] = Absent
  BY <1>2, GotoOp DEF Hash, Points, Work, Typed, OpTyped
<1> QED
  BY <1>1, <1>2

LEMMA TodoTyped == ASSUME Typed, NEW o \in Ops PROVE op[o].todo \subseteq Paths \cup Capsules
  BY DEF Typed, OpTyped, Operation

\* A file is in the capsule, and one that was not hashed is noted.
Stores(o, p, c) ==
  /\ files[p] # Absent /\ stored' = [stored EXCEPT ![c][p] = files[p]]
  /\ swapped' = IF files[p] = op[o].seen[p] THEN swapped ELSE swapped \cup {c}

LEMMA MoveEffect ==
  ASSUME Typed, NEW o \in Ops, Move(o)
  PROVE  LET p == First(op[o].todo)
             c == op[o].cap
         IN  \/ /\ Stores(o, p, c) /\ files' = [files EXCEPT ![p] = Absent]
                /\ Becomes(o, op[o].kind, "check", c, op[o].todo \ {p}, op[o].seen, op[o].free, op[o].holds)
             \/ /\ Stores(o, p, c) /\ UNCHANGED files
                /\ Becomes(o, op[o].kind, "unlink", c, op[o].todo, op[o].seen, op[o].free, op[o].holds)
             \/ /\ NoMove /\ UNCHANGED swapped
                /\ Becomes(o, op[o].kind, "undo", c, op[o].todo, op[o].seen, op[o].free, op[o].holds)
<1> DEFINE p == First(op[o].todo)
           c == op[o].cap
<1>1. op[o].todo \ {p} \in SUBSET (Paths \cup Capsules)
  BY TodoTyped
<1>2. ASSUME op' = [op EXCEPT ![o].at = "check", ![o].todo = op[o].todo \ {p}]
      PROVE  Becomes(o, op[o].kind, "check", c, op[o].todo \ {p}, op[o].seen, op[o].free, op[o].holds)
  BY <1>1, <1>2, AtTodoOp DEF Points, Work, Typed, OpTyped
<1>3. ASSUME NEW at \in {"undo", "unlink"}, Goto(o, at)
      PROVE  Becomes(o, op[o].kind, at, c, op[o].todo, op[o].seen, op[o].free, op[o].holds)
  BY <1>3, GotoOp DEF Points, Work, Typed, OpTyped
<1> QED
  BY <1>2, <1>3 DEF Move, Stores

LEMMA UnlinkEffect ==
  ASSUME Typed, NEW o \in Ops, Unlink(o)
  PROVE  LET p == First(op[o].todo)
             c == op[o].cap
         IN  \/ /\ files[p] # Absent /\ files' = [files EXCEPT ![p] = Absent] /\ UNCHANGED damaged
                /\ Becomes(o, op[o].kind, "check", c, op[o].todo \ {p}, op[o].seen, op[o].free, op[o].holds)
             \/ /\ UNCHANGED files /\ damaged' = damaged \cup {c}
                /\ Becomes(o, op[o].kind, "undo", c, op[o].todo, op[o].seen, op[o].free, op[o].holds)
<1> DEFINE p == First(op[o].todo)
           c == op[o].cap
<1>1. op[o].todo \ {p} \in SUBSET (Paths \cup Capsules)
  BY TodoTyped
<1>2. ASSUME op' = [op EXCEPT ![o].at = "check", ![o].todo = op[o].todo \ {p}]
      PROVE  Becomes(o, op[o].kind, "check", c, op[o].todo \ {p}, op[o].seen, op[o].free, op[o].holds)
  BY <1>1, <1>2, AtTodoOp DEF Points, Work, Typed, OpTyped
<1>3. ASSUME Goto(o, "undo")
      PROVE  Becomes(o, op[o].kind, "undo", c, op[o].todo, op[o].seen, op[o].free, op[o].holds)
  BY <1>3, GotoOp DEF Points, Work, Typed, OpTyped
<1> QED
  BY <1>2, <1>3 DEF Unlink

LEMMA SealEffect ==
  ASSUME Typed, NEW o \in Ops, Seal(o)
  PROVE  LET c == op[o].cap
         IN  \/ /\ manifest' = [manifest EXCEPT ![c].state = "sealed", ![c].items = op[o].seen]
                /\ Becomes(o, "none", "over", 0, {}, Nothing, {}, op[o].holds)
             \/ /\ UNCHANGED manifest
                /\ Becomes(o, op[o].kind, "undo", c, op[o].todo, op[o].seen, op[o].free, op[o].holds)
<1> DEFINE c == op[o].cap
<1> QED
  BY GotoOp, FinishOp DEF Seal, Points, Work, Typed, OpTyped

LEMMA UndoEffect ==
  ASSUME Typed, NEW o \in Ops, Undo(o)
  PROVE  LET p == Last(Moved(o))
             c == op[o].cap
         IN  \/ /\ Moved(o) = {} /\ UNCHANGED damaged
                /\ SetState(c, "closed") \/ NoState
                /\ Becomes(o, "none", "over", 0, {}, Nothing, {}, op[o].holds)
             \/ /\ Moved(o) # {} /\ NoState /\ UNCHANGED damaged
                /\ Becomes(o, op[o].kind, "back", c, op[o].todo, op[o].seen, op[o].free \cup {p}, op[o].holds)
             \/ /\ Moved(o) # {} /\ NoState /\ damaged' = damaged \cup {c}
                /\ Becomes(o, op[o].kind, "undo", c, op[o].todo \cup {p}, op[o].seen, op[o].free, op[o].holds)
<1> DEFINE p == Last(Moved(o))
           c == op[o].cap
<1>1. CASE Moved(o) = {}
  BY <1>1, FinishOp DEF Undo, Close, Typed, OpTyped
<1>2. CASE Moved(o) # {} /\ stored[c][p] # Absent /\ files[p] = Absent
  <2>1. op[o].free \cup {p} \in SUBSET Paths
    BY <1>2, LastMoved DEF Typed, OpTyped, Operation
  <2>2. op' = [op EXCEPT ![o].at = "back", ![o].free = op[o].free \cup {p}]
    BY <1>2 DEF Undo
  <2>3. Becomes(o, op[o].kind, "back", c, op[o].todo, op[o].seen, op[o].free \cup {p}, op[o].holds)
    BY <2>1, <2>2, AtFreeOp DEF Points, Work, Typed, OpTyped
  <2> QED
    BY <1>2, <2>3 DEF Undo
<1>3. CASE Moved(o) # {} /\ ~(stored[c][p] # Absent /\ files[p] = Absent)
  <2>1. op[o].todo \cup {p} \in SUBSET (Paths \cup Capsules)
    BY <1>3, TodoTyped, LastMoved
  <2>2. op' = [op EXCEPT ![o].todo = op[o].todo \cup {p}] /\ op[o].at = "undo"
    BY <1>3 DEF Undo, At
  <2>3. Becomes(o, op[o].kind, "undo", c, op[o].todo \cup {p}, op[o].seen, op[o].free, op[o].holds)
    BY <2>1, <2>2, TodoOp DEF Typed, OpTyped
  <2> QED
    BY <1>3, <2>3 DEF Undo
<1> QED  BY <1>1, <1>2, <1>3

\* A file goes back from a capsule: moved or only copied, or it is not.
PutsBack(p, c) ==
  \/ /\ stored[c][p] # Absent /\ files' = [files EXCEPT ![p] = stored[c][p]]
     /\ \/ stored' = [stored EXCEPT ![c][p] = Absent] /\ UNCHANGED damaged
        \/ UNCHANGED stored /\ damaged' = damaged \cup {c}
  \/ NoMove /\ damaged' = damaged \cup {c}

LEMMA BackEffect ==
  ASSUME Typed, NEW o \in Ops, Back(o), Moved(o) # {}
  PROVE  LET p == Last(Moved(o))
             c == op[o].cap
         IN  /\ PutsBack(p, c)
             /\ Becomes(o, op[o].kind, "undo", c, op[o].todo \cup {p}, op[o].seen, op[o].free, op[o].holds)
<1> DEFINE p == Last(Moved(o))
<1>1. op[o].todo \cup {p} \in SUBSET (Paths \cup Capsules)
  BY TodoTyped, LastMoved
<1>2. op' = [op EXCEPT ![o].at = "undo", ![o].todo = op[o].todo \cup {p}]
  BY DEF Back
<1>3. Becomes(o, op[o].kind, "undo", op[o].cap, op[o].todo \cup {p}, op[o].seen, op[o].free, op[o].holds)
  BY <1>1, <1>2, AtTodoOp DEF Points, Work, Typed, OpTyped
<1> QED
  BY <1>3 DEF Back, PutsBack, NoMove

LEMMA ReadManifestEffect ==
  ASSUME Typed, NEW o \in Ops, ReadManifest(o)
  PROVE  LET m == manifest[op[o].cap]
         IN  \/ /\ m.state = "sealed"
                /\ Becomes(o, op[o].kind, "verify", op[o].cap, Present(m.items), m.items, op[o].free, op[o].holds)
             \/ Becomes(o, "none", "over", 0, {}, Nothing, {}, op[o].holds)
<1> DEFINE m == manifest[op[o].cap]
<1>1. CASE m.state = "sealed"
  <2>1. op[o].cap \in Capsules
    BY DEF ReadManifest, At, Typed, OpTyped
  <2>2. m.items \in [Paths -> Contained] /\ Present(m.items) \in SUBSET (Paths \cup Capsules)
    BY <2>1 DEF Typed, VaultTyped, Manifest, Present
  <2>3. op' = [op EXCEPT ![o].at = "verify", ![o].seen = m.items, ![o].todo = Present(m.items)]
    BY <1>1 DEF ReadManifest
  <2> QED
    BY <1>1, <2>2, <2>3, ReadOp DEF Typed, OpTyped
<1>2. CASE m.state # "sealed"
  BY <1>2, FinishOp DEF ReadManifest, Typed, OpTyped
<1> QED  BY <1>1, <1>2

LEMMA VerifyEffect ==
  ASSUME Typed, NEW o \in Ops, Verify(o), op[o].todo # {} => First(op[o].todo) \in Paths
  PROVE  LET p == First(op[o].todo)
             c == op[o].cap
         IN  \/ /\ op[o].todo = {}
                /\ Becomes(o, op[o].kind, "put", c, Present(op[o].seen), op[o].seen, op[o].free, op[o].holds)
             \/ /\ op[o].todo # {}
                /\ Becomes(o, op[o].kind, "verify", c, op[o].todo \ {p}, op[o].seen, op[o].free \cup {p}, op[o].holds)
             \/ Becomes(o, "none", "over", 0, {}, Nothing, {}, op[o].holds)
<1> DEFINE p == First(op[o].todo)
           c == op[o].cap
<1>1. CASE op[o].todo = {}
  <2>1. op' = [op EXCEPT ![o].at = "put", ![o].todo = Present(op[o].seen)]
    BY <1>1 DEF Verify
  <2>2. Present(op[o].seen) \in SUBSET (Paths \cup Capsules)
    BY DEF Present
  <2> QED
    BY <1>1, <2>1, <2>2, AtTodoOp DEF Points, Work, Typed, OpTyped
<1>2. CASE op[o].todo # {} /\ files[p] = Absent /\ stored[c][p] = op[o].seen[p]
  <2>1. op' = [op EXCEPT ![o].todo = op[o].todo \ {p}, ![o].free = op[o].free \cup {p}]
        /\ op[o].at = "verify"
    BY <1>2 DEF Verify, At
  <2>2. op[o].todo \ {p} \in SUBSET (Paths \cup Capsules) /\ op[o].free \cup {p} \in SUBSET Paths
    BY <1>2, TodoTyped DEF Typed, OpTyped, Operation
  <2>3. Becomes(o, op[o].kind, "verify", c, op[o].todo \ {p}, op[o].seen, op[o].free \cup {p}, op[o].holds)
    BY <2>1, <2>2, TodoFreeOp DEF Typed, OpTyped
  <2> QED
    BY <1>2, <2>3
<1>3. CASE op[o].todo # {} /\ ~(files[p] = Absent /\ stored[c][p] = op[o].seen[p])
  BY <1>3, FinishOp DEF Verify, Typed, OpTyped
<1> QED  BY <1>1, <1>2, <1>3

LEMMA PutEffect ==
  ASSUME Typed, NEW o \in Ops, Put(o)
  PROVE  LET p == First(op[o].todo)
             c == op[o].cap
         IN  /\ PutsBack(p, c)
             /\ \/ /\ stored' = [stored EXCEPT ![c][p] = Absent] /\ stored[c][p] # Absent
                   /\ UNCHANGED damaged
                   /\ Becomes(o, op[o].kind, "put", c, op[o].todo \ {p}, op[o].seen, op[o].free, op[o].holds)
                \/ /\ UNCHANGED stored /\ damaged' = damaged \cup {c}
                   /\ Becomes(o, "none", "over", 0, {}, Nothing, {}, op[o].holds)
<1> DEFINE p == First(op[o].todo)
           c == op[o].cap
<1>1. op[o].todo \ {p} \in SUBSET (Paths \cup Capsules)
  BY TodoTyped
<1>2. ASSUME op' = [op EXCEPT ![o].todo = op[o].todo \ {p}]
      PROVE  Becomes(o, op[o].kind, "put", c, op[o].todo \ {p}, op[o].seen, op[o].free, op[o].holds)
  <2>1. op[o].at = "put"
    BY DEF Put, At
  <2> QED
    BY <1>1, <1>2, <2>1, TodoOp DEF Typed, OpTyped
<1>3. ASSUME Finish(o) PROVE Becomes(o, "none", "over", 0, {}, Nothing, {}, op[o].holds)
  BY <1>3, FinishOp DEF Typed, OpTyped
<1> QED
  BY <1>2, <1>3 DEF Put, PutsBack, NoMove

LEMMA RestoredEffect ==
  ASSUME Typed, NEW o \in Ops, Restored(o)
  PROVE  Becomes(o, "none", "over", 0, {}, Nothing, {}, op[o].holds)
  BY FinishOp DEF Restored, Typed, OpTyped

LEMMA PurgeEffect ==
  ASSUME Typed, NEW o \in Ops, Purge(o)
  PROVE  LET c == Last(op[o].todo)
         IN  \/ /\ op[o].todo = {} /\ NoVault
                /\ \/ Becomes(o, "clean", "lock", 0, {}, Nothing, {}, FALSE)
                   \/ Becomes(o, "none", "idle", 0, {}, Nothing, {}, FALSE)
             \/ /\ op[o].todo # {} /\ stored' = [stored EXCEPT ![c] = Nothing]
                /\ SetState(c, "closed") /\ damaged' = damaged \ {c}
                /\ Becomes(o, op[o].kind, "purge", op[o].cap, op[o].todo \ {c}, op[o].seen, op[o].free, op[o].holds)
<1> DEFINE c == Last(op[o].todo)
<1>1. CASE op[o].todo = {}
  BY <1>1, ResetOp, CleanAfterPassOp DEF Purge, Typed, OpTyped
<1>2. CASE op[o].todo # {}
  <2>1. op' = [op EXCEPT ![o].todo = op[o].todo \ {c}] /\ op[o].at = "purge"
    BY <1>2 DEF Purge, At
  <2>2. op[o].todo \ {c} \in SUBSET (Paths \cup Capsules)
    BY TodoTyped
  <2>3. Becomes(o, op[o].kind, "purge", op[o].cap, op[o].todo \ {c}, op[o].seen, op[o].free, op[o].holds)
    BY <2>1, <2>2, TodoOp DEF Typed, OpTyped
  <2> QED
    BY <1>2, <2>3 DEF Purge, Close
<1> QED  BY <1>1, <1>2

LEMMA CrashEffect ==
  ASSUME Typed, NEW o \in Ops, Crash(o)
  PROVE  Becomes(o, "none", "idle", 0, {}, Nothing, {}, FALSE)
  BY ResetOp DEF Crash, Typed, OpTyped

\* What the invariant says of the operands of an operation.
LEMMA CleanerFirst ==
  ASSUME VaultInv, NEW o \in Ops, op[o].at \in {"hash", "move", "unlink"}
  PROVE  First(op[o].todo) \in op[o].todo /\ First(op[o].todo) \in Paths
<1>1. op[o].todo # {} /\ op[o].todo \subseteq Paths
  BY DEF VaultInv, CleanersInv, CleanerOk, Cleaning, Present
<1> QED
  BY <1>1, FirstOfPaths

LEMMA CleanerMoved == ASSUME VaultInv, NEW o \in Ops, op[o].at = "back" PROVE Moved(o) # {}
  BY DEF VaultInv, CleanersInv, CleanerOk, Cleaning, At

LEMMA RestorerFirst ==
  ASSUME VaultInv, NEW o \in Ops, op[o].at \in {"verify", "put"}, op[o].todo # {}
  PROVE  First(op[o].todo) \in op[o].todo /\ First(op[o].todo) \in Paths
<1>1. op[o].todo \subseteq Paths
  BY DEF VaultInv, RestorersInv, RestorerOk, Restoring, Present
<1> QED
  BY <1>1, FirstOfPaths

-----------------------------------------------------------------------------
\* Types.

LEMMA OpTypedIf ==
  ASSUME OpTyped, NEW o \in Ops,
         op' \in [Ops -> Operation], Others(o),
         op'[o].at \in {"lock", "break"} => op'[o].kind # "none",
         op'[o].at = "manifest" \/ op'[o].kind = "restore" => op'[o].cap \in Capsules,
         op'[o].holds => op'[o].at \in Work
  PROVE  OpTyped'
  BY DEF Others, OpTyped, Work

LEMMA OpTypedStep ==
  ASSUME Typed, VaultInv, NEW o \in Ops, Start(o) \/ Step(o) PROVE OpTyped'
<1>0. /\ OpTyped
      /\ op[o].at \in {"lock", "break"} => op[o].kind # "none"
      /\ op[o].at = "manifest" \/ op[o].kind = "restore" => op[o].cap \in Capsules
      /\ op[o].holds => op[o].at \in Work
  BY DEF Typed, OpTyped
<1>1. CASE Clean(o)
  BY <1>0, <1>1, CleanEffect, OpTypedIf DEF Becomes
<1>2. CASE StopSession(o)
  BY <1>0, <1>2, StopSessionEffect, OpTypedIf DEF Becomes
<1>3. CASE Pass(o)
  BY <1>0, <1>3, PassEffect, OpTypedIf DEF Becomes
<1>4. CASE Acquire(o)
  BY <1>0, <1>4, AcquireEffect, OpTypedIf DEF Becomes, Work
<1>5. CASE Locked(o)
  <2>1. op[o].at = "lock" /\ op[o].kind # "none" /\ ~op[o].holds
    BY <1>0, <1>5 DEF Locked, At, Work
  <2>2. CASE Becomes(o, op[o].kind, "break", op[o].cap, op[o].todo, op[o].seen, op[o].free, op[o].holds)
    BY <1>0, <2>1, <2>2, OpTypedIf DEF Becomes
  <2>3. CASE Becomes(o, "none", "idle", 0, {}, Nothing, {}, FALSE)
    BY <1>0, <2>3, OpTypedIf DEF Becomes
  <2> QED
    BY <1>5, <2>2, <2>3, LockedEffect
<1>6. CASE BreakLock(o)
  BY <1>0, <1>6, BreakLockEffect, OpTypedIf DEF Becomes, BreakLock, At, Work
<1>7. CASE Release(o)
  BY <1>0, <1>7, ReleaseEffect, OpTypedIf DEF Becomes
<1>8. CASE ReleaseEarly(o)
  BY <1>0, <1>8, ReleaseEarlyEffect, OpTypedIf DEF Becomes
<1>9. CASE Scan(o)
  BY <1>0, <1>9, ScanEffect, OpTypedIf DEF Becomes, Work
<1>10. CASE Prepare(o)
  BY <1>0, <1>10, PrepareEffect, OpTypedIf DEF Becomes, Creates, Work
<1>11. CASE Check(o)
  BY <1>0, <1>11, CheckEffect, OpTypedIf DEF Becomes, Work
<1>12. CASE Move(o)
  BY <1>0, <1>12, MoveEffect, OpTypedIf DEF Becomes, Work
<1>13. CASE Seal(o)
  BY <1>0, <1>13, SealEffect, OpTypedIf DEF Becomes, Work
<1>14. CASE Undo(o)
  BY <1>0, <1>14, UndoEffect, OpTypedIf DEF Becomes, Work
<1>15. CASE ReadManifest(o)
  BY <1>0, <1>15, ReadManifestEffect, OpTypedIf DEF Becomes, Work
<1>16. CASE Verify(o)
  BY <1>0, <1>16, VerifyEffect, RestorerFirst, OpTypedIf DEF Becomes, Work, Verify, At
<1>17. CASE Put(o)
  BY <1>0, <1>17, PutEffect, OpTypedIf DEF Becomes, Work
<1>18. CASE Restored(o)
  BY <1>0, <1>18, RestoredEffect, OpTypedIf DEF Becomes, Work
<1>19. CASE Purge(o)
  BY <1>0, <1>19, PurgeEffect, OpTypedIf DEF Becomes, Work, Purge, At
<1>20. ASSUME NEW c \in Capsules, Restore(o, c) PROVE OpTyped'
  BY <1>0, <1>20, RestoreEffect, OpTypedIf DEF Becomes
<1>21. CASE Hash(o)
  BY <1>0, <1>21, HashEffect, CleanerFirst, OpTypedIf DEF Becomes, Work, Hash, At
<1>22. CASE Unlink(o)
  BY <1>0, <1>22, UnlinkEffect, OpTypedIf DEF Becomes, Work
<1>23. CASE Back(o)
  BY <1>0, <1>23, BackEffect, CleanerMoved, OpTypedIf DEF Becomes, Work, Back, At
<1> QED
  BY <1>1, <1>2, <1>3, <1>4, <1>5, <1>6, <1>7, <1>8, <1>9, <1>10, <1>11, <1>12, <1>13, <1>14, <1>15, <1>16, <1>17, <1>18, <1>19, <1>20, <1>21, <1>22, <1>23 DEF Start, Step

-----------------------------------------------------------------------------
\* Steps that only prepare or end something, or in which an operation dies.

Quiet(o) ==
  /\ op' \in [Ops -> Operation] /\ Others(o)
  /\ UNCHANGED <<stored, manifest, swapped>>
  /\ damaged \subseteq damaged'
  /\ \/ /\ op'[o].at = op[o].at /\ op'[o].cap = op[o].cap
        /\ op'[o].todo = op[o].todo /\ op'[o].seen = op[o].seen
     \/ /\ op'[o].at \in {"idle", "lock", "break", "purge", "scan", "prepare", "manifest", "over"}
        /\ op'[o].at = "purge" => PurgerOk(o)'
        /\ Cleaning(o) \/ At(o, "put") => op[o].cap \in damaged'

LEMMA QuietCleaners ==
  ASSUME VaultInv, NEW o \in Ops, Quiet(o) PROVE CleanersInv'
<1>1. ASSUME NEW q \in Ops, Cleaning(q)'
      PROVE  /\ Cleaning(q) /\ op'[q].cap = op[q].cap /\ op'[q].at = op[q].at
             /\ op'[q].todo = op[q].todo /\ op'[q].seen = op[q].seen
  BY <1>1 DEF Quiet, Others, Cleaning
<1>2. ASSUME NEW q \in Ops, Cleaning(q)'
      PROVE  HoldsMoved(q) => HoldsMoved(q)'
  BY <1>1, <1>2 DEF Quiet, HoldsMoved, Has, Moved, Present, At
<1>3. ASSUME NEW q \in Ops, Cleaning(q)'
      PROVE  CleanerOk(q)'
  <2>1. CleanerOk(q) /\ UNCHANGED Moved(q)
    BY <1>1, <1>3 DEF VaultInv, CleanersInv, Moved, Present
  <2> QED
    BY <1>1, <1>2, <1>3, <2>1 DEF Quiet, CleanerOk, At, Present
<1> QED
  BY <1>1, <1>3 DEF VaultInv, CleanersInv

LEMMA QuietRestorers ==
  ASSUME VaultInv, NEW o \in Ops, Quiet(o) PROVE RestorersInv'
<1>1. ASSUME NEW q \in Ops, Restoring(q)'
      PROVE  /\ Restoring(q) /\ op'[q].cap = op[q].cap /\ op'[q].at = op[q].at
             /\ op'[q].todo = op[q].todo /\ op'[q].seen = op[q].seen
  BY <1>1 DEF Quiet, Others, Restoring
<1> QED
  BY <1>1 DEF Quiet, VaultInv, RestorersInv, RestorerOk, At, Present, Nothing

LEMMA QuietPurgers ==
  ASSUME VaultInv, NEW o \in Ops, Quiet(o) PROVE PurgersInv'
<1>1. ASSUME NEW q \in Ops, At(q, "purge")'
      PROVE  (At(q, "purge") /\ op'[q].todo = op[q].todo) \/ PurgerOk(q)'
  BY <1>1 DEF Quiet, Others, At
<1>2. ASSUME NEW q \in Ops, At(q, "purge"), op'[q].todo = op[q].todo
      PROVE  PurgerOk(q)'
  BY <1>2 DEF Quiet, VaultInv, PurgersInv, PurgerOk
<1> QED
  BY <1>1, <1>2 DEF PurgersInv

LEMMA QuietCapsules ==
  ASSUME VaultInv, NEW o \in Ops, Quiet(o) PROVE CapsulesInv'
<1>1. ASSUME NEW q \in Ops, Cleaning(q) \/ At(q, "put"), op[q].cap \notin damaged'
      PROVE  /\ Cleaning(q)' = Cleaning(q) /\ At(q, "put")' = At(q, "put")
             /\ op'[q].cap = op[q].cap
  BY <1>1 DEF Quiet, Others, Cleaning, At
<1>2. Nothing' = Nothing  BY DEF Nothing
<1>3. UNCHANGED <<stored, manifest, swapped>> /\ damaged \subseteq damaged'  BY DEF Quiet
<1> SUFFICES ASSUME NEW c \in Capsules
             PROVE  Empty(c)' /\ Abandoned(c)' /\ Partial(c)' /\ Full(c)'
  BY DEF CapsulesInv, CapsuleOk
<1>4. Empty(c) /\ Abandoned(c) /\ Partial(c) /\ Full(c)
  BY DEF VaultInv, CapsulesInv, CapsuleOk
<1>5. Empty(c)'  BY <1>2, <1>3, <1>4 DEF Empty
<1>6. Partial(c)'  BY <1>3, <1>4 DEF Partial
<1>7. Abandoned(c)'  BY <1>1, <1>2, <1>3, <1>4 DEF Abandoned
<1>8. Full(c)'  BY <1>1, <1>3, <1>4 DEF Full
<1> QED  BY <1>5, <1>6, <1>7, <1>8

LEMMA QuietVault == ASSUME VaultInv, NEW o \in Ops, Quiet(o) PROVE VaultInv'
  BY QuietCleaners, QuietRestorers, QuietPurgers, QuietCapsules DEF VaultInv

-----------------------------------------------------------------------------
\* Steps that change one capsule.

\* Nothing but capsule c is changed, and only o does something.
OnlyAt(o, c) ==
  /\ op' \in [Ops -> Operation] /\ Others(o)
  /\ \A d \in Capsules \ {c} :
       /\ stored'[d] = stored[d] /\ manifest'[d] = manifest[d]
       /\ d \in swapped' <=> d \in swapped
       /\ d \in damaged' <=> d \in damaged

\* What holds of the others, and of the other capsules, still holds.
LEMMA OthersOk ==
  ASSUME VaultInv, NEW o \in Ops, NEW c \in Capsules, OnlyAt(o, c)
  PROVE  /\ \A q \in Ops \ {o} : Cleaning(q) /\ op[q].cap # c => CleanerOk(q)'
         /\ \A q \in Ops \ {o} : Restoring(q) /\ op[q].cap # c => RestorerOk(q)'
         /\ ((~Cleaning(o) /\ ~At(o, "put")) \/ op[o].cap = c) =>
              \A d \in Capsules \ {c} : CapsuleOk(d)'
<1>1. \A q \in Ops \ {o} : op'[q] = op[q]
  BY DEF OnlyAt, Others
<1>2. ASSUME NEW q \in Ops \ {o}, Cleaning(q), op[q].cap # c
      PROVE  CleanerOk(q)'
  <2>1. CleanerOk(q)  BY <1>2 DEF VaultInv, CleanersInv
  <2>2. op'[q] = op[q] /\ op[q].cap \in Capsules \ {c}
    BY <1>1, <1>2, <2>1 DEF CleanerOk
  <2>3. UNCHANGED Moved(q) /\ UNCHANGED Has(q)
    BY <2>2 DEF Has, Moved, Present, At
  <2>4. HoldsMoved(q) => HoldsMoved(q)'
    BY <2>2, <2>3 DEF OnlyAt, HoldsMoved
  <2> QED
    BY <2>1, <2>2, <2>3, <2>4 DEF CleanerOk, OnlyAt, Present, At
<1>3. ASSUME NEW q \in Ops \ {o}, Restoring(q), op[q].cap # c
      PROVE  RestorerOk(q)'
  <2>1. RestorerOk(q)  BY <1>3 DEF VaultInv, RestorersInv
  <2> QED
    BY <1>1, <1>3, <2>1 DEF RestorerOk, OnlyAt, Present, At, Nothing
<1>4. ASSUME (~Cleaning(o) /\ ~At(o, "put")) \/ op[o].cap = c,
             NEW d \in Capsules \ {c}
      PROVE  CapsuleOk(d)'
  <2>1. CapsuleOk(d)  BY DEF VaultInv, CapsulesInv
  <2>2. Nothing' = Nothing  BY DEF Nothing
  <2>3. /\ stored'[d] = stored[d] /\ manifest'[d] = manifest[d]
        /\ (d \in damaged' <=> d \in damaged) /\ (d \in swapped' <=> d \in swapped)
    BY DEF OnlyAt
  <2>4. ASSUME NEW q \in Ops, Cleaning(q) \/ At(q, "put"), op[q].cap = d
        PROVE  /\ Cleaning(q)' = Cleaning(q) /\ At(q, "put")' = At(q, "put")
               /\ op'[q].cap = d
    BY <1>1, <1>4, <2>4 DEF Cleaning, At
  <2>5. Empty(d)'  BY <2>1, <2>2, <2>3 DEF CapsuleOk, Empty
  <2>6. Partial(d)'  BY <2>1, <2>3 DEF CapsuleOk, Partial
  <2>7. Abandoned(d)'  BY <2>1, <2>2, <2>3, <2>4 DEF CapsuleOk, Abandoned
  <2>8. Full(d)'  BY <2>1, <2>3, <2>4 DEF CapsuleOk, Full
  <2> QED  BY <2>5, <2>6, <2>7, <2>8 DEF CapsuleOk
<1> QED  BY <1>2, <1>3, <1>4

\* A cleanup makes its capsule, does something with it, or is done with it.
LEMMA CleanerStep ==
  ASSUME VaultInv, NEW o \in Ops, NEW c \in Capsules, OnlyAt(o, c), CapsuleOk(c)',
         \/ Cleaning(o) /\ op[o].cap = c
         \/ At(o, "prepare") /\ manifest[c].state = "none",
         \/ Cleaning(o)' /\ op'[o].cap = c /\ CleanerOk(o)'
         \/ op'[o].at = "over"
  PROVE  VaultInv'
<1>1. \A q \in Ops \ {o} : op'[q] = op[q]
  BY DEF OnlyAt, Others
<1>2. manifest[c].state \in {"preparing", "none"}
  BY DEF VaultInv, CleanersInv, CleanerOk
<1>3. CleanersInv'
  <2>1. \A q \in Ops \ {o} : Cleaning(q)' => Cleaning(q) /\ op'[q].cap = op[q].cap
    BY <1>1 DEF Cleaning
  <2>2. \A q \in Ops \ {o} : Cleaning(q) => op[q].cap # c
    BY DEF VaultInv, CleanersInv, CleanerOk
  <2>3. ASSUME NEW q \in Ops, Cleaning(q)' PROVE CleanerOk(q)'
    BY <2>1, <2>2, <2>3, OthersOk DEF Cleaning
  <2>4. Cleaning(o)' => op'[o].cap = c
    BY DEF Cleaning
  <2>5. ASSUME NEW q \in Ops, NEW r \in Ops, Cleaning(q)', Cleaning(r)', op'[q].cap = op'[r].cap
        PROVE  q = r
    BY <2>1, <2>2, <2>4, <2>5 DEF VaultInv, CleanersInv
  <2> QED  BY <2>3, <2>5 DEF CleanersInv
<1>4. RestorersInv'
  <2>1. \A q \in Ops : Restoring(q)' => q # o /\ Restoring(q)
    BY <1>1 DEF Restoring, Cleaning
  <2>2. \A q \in Ops : Restoring(q) => op[q].cap # c
    BY <1>2 DEF VaultInv, RestorersInv, RestorerOk
  <2> QED  BY <2>1, <2>2, OthersOk DEF RestorersInv
<1>5. PurgersInv'
  <2>1. ASSUME NEW q \in Ops, At(q, "purge")' PROVE q # o /\ At(q, "purge") /\ op'[q] = op[q]
    BY <1>1, <2>1 DEF At, Cleaning
  <2>2. ASSUME NEW q \in Ops, At(q, "purge")', NEW d \in op[q].todo
        PROVE  d \in Capsules \ {c} /\ manifest'[d] = manifest[d]
    BY <1>2, <2>1, <2>2 DEF VaultInv, PurgersInv, PurgerOk, OnlyAt
  <2> QED
    BY <2>1, <2>2 DEF VaultInv, PurgersInv, PurgerOk
<1>6. CapsulesInv'
  BY OthersOk DEF CapsulesInv, At, Cleaning
<1> QED
  BY <1>3, <1>4, <1>5, <1>6 DEF VaultInv

\* A capsule that was sealed is restored or purged, or only read.
LEMMA SealedStep ==
  ASSUME VaultInv, NEW o \in Ops, NEW c \in Capsules, OnlyAt(o, c), CapsuleOk(c)',
         ~Cleaning(o), At(o, "put") => op[o].cap = c,
         {manifest[c].state, manifest'[c].state} \subseteq {"sealed", "closed"},
         manifest'[c].state = "sealed" => manifest'[c] = manifest[c],
         manifest'[c].state = "closed" => stored'[c] = Nothing,
         \A p \in Paths : stored[c][p] = Absent => stored'[c][p] = Absent,
         ~Cleaning(o)',
         Restoring(o)' => RestorerOk(o)',
         At(o, "purge")' => PurgerOk(o)'
  PROVE  VaultInv'
<1>1. \A q \in Ops \ {o} : op'[q] = op[q]
  BY DEF OnlyAt, Others
<1>2. CleanersInv'
  <2>1. \A q \in Ops : Cleaning(q)' => q # o /\ Cleaning(q) /\ op'[q] = op[q]
    BY <1>1 DEF Cleaning
  <2>2. \A q \in Ops : Cleaning(q) => op[q].cap # c
    BY DEF VaultInv, CleanersInv, CleanerOk
  <2>3. ASSUME NEW q \in Ops, Cleaning(q)' PROVE CleanerOk(q)'
    BY <2>1, <2>2, <2>3, OthersOk
  <2>4. ASSUME NEW q \in Ops, NEW r \in Ops, Cleaning(q)', Cleaning(r)', op'[q].cap = op'[r].cap
        PROVE  q = r
    BY <2>1, <2>4 DEF VaultInv, CleanersInv
  <2> QED  BY <2>3, <2>4 DEF CleanersInv
<1>3. RestorersInv'
  <2> SUFFICES ASSUME NEW q \in Ops, Restoring(q)' PROVE RestorerOk(q)'
    BY DEF RestorersInv
  <2>1. CASE q = o
    BY <2>1
  <2>2. CASE q # o /\ op[q].cap # c
    BY <1>1, <2>2, OthersOk DEF Restoring
  <2>3. CASE q # o /\ op[q].cap = c
    <3>1. RestorerOk(q) /\ op'[q] = op[q]
      BY <1>1, <2>3 DEF VaultInv, RestorersInv, Restoring
    <3> QED
      BY <2>3, <3>1 DEF RestorerOk, Present, At, Nothing
  <2> QED  BY <2>1, <2>2, <2>3
<1>4. PurgersInv'
  <2> SUFFICES ASSUME NEW q \in Ops, At(q, "purge")' PROVE PurgerOk(q)'
    BY DEF PurgersInv
  <2>1. CASE q = o
    BY <2>1
  <2>2. CASE q # o
    <3>1. PurgerOk(q) /\ op'[q] = op[q]
      BY <1>1, <2>2 DEF VaultInv, PurgersInv, At
    <3> QED
      BY <3>1 DEF PurgerOk, OnlyAt
  <2> QED  BY <2>1, <2>2
<1>5. CapsulesInv'
  BY OthersOk DEF CapsulesInv, Cleaning, At
<1> QED
  BY <1>2, <1>3, <1>4, <1>5 DEF VaultInv

-----------------------------------------------------------------------------
\* The vault, action by action.

LEMMA StoreAt ==
  ASSUME stored \in [Capsules -> [Paths -> Contained]], NEW c \in Capsules, NEW p \in Paths,
         NEW x \in Contained, stored' = [stored EXCEPT ![c][p] = x]
  PROVE  /\ stored' \in [Capsules -> [Paths -> Contained]]
         /\ stored'[c][p] = x
         /\ \A q \in Paths \ {p} : stored'[c][q] = stored[c][q]
         /\ \A d \in Capsules \ {c} : stored'[d] = stored[d]
  OBVIOUS

LEMMA CleanerFacts ==
  ASSUME Typed, VaultInv, NEW o \in Ops, Cleaning(o)
  PROVE  /\ op[o].cap \in Capsules /\ CleanerOk(o) /\ CapsuleOk(op[o].cap)
         /\ manifest[op[o].cap].state = "preparing"
         /\ op[o].todo \subseteq Paths /\ (op[o].todo # {} => First(op[o].todo) \in op[o].todo)
         /\ op[o].seen \in [Paths -> Contained] /\ op[o] \in Operation
         /\ stored[op[o].cap] \in [Paths -> Contained]
<1>1. CleanerOk(o)
  BY DEF VaultInv, CleanersInv
<1>2. op[o].cap \in Capsules /\ manifest[op[o].cap].state = "preparing"
      /\ op[o].todo \subseteq Paths
  BY <1>1 DEF CleanerOk, Present
<1>3. CapsuleOk(op[o].cap)
  BY <1>2 DEF VaultInv, CapsulesInv
<1>4. op[o].seen \in [Paths -> Contained] /\ op[o] \in Operation
  BY DEF Typed, OpTyped, Operation
<1> QED
  BY <1>1, <1>2, <1>3, <1>4, FirstOfPaths DEF CapsuleOk, Typed, VaultTyped

\* A cleanup goes on with its capsule.
LEMMA GoesOn ==
  ASSUME Typed, VaultInv, NEW o \in Ops, NEW c \in Capsules, Cleaning(o), op[o].cap = c,
         OnlyAt(o, c), UNCHANGED manifest,
         Cleaning(o)', op'[o].cap = c, CleanerOk(o)'
  PROVE  VaultInv'
<1>1. manifest'[c].state = "preparing"
  BY CleanerFacts
<1>2. CapsuleOk(c)'
  BY <1>1 DEF CapsuleOk, Empty, Abandoned, Partial, Full
<1> QED
  BY <1>2, CleanerStep

LEMMA CheckVault ==
  ASSUME Typed, VaultInv, NEW o \in Ops, Check(o) PROVE VaultInv'
<1> DEFINE c == op[o].cap
<1>1. Cleaning(o) /\ op[o].todo # {} /\ At(o, "check")
  BY DEF Check, At, Cleaning
<1>2. PICK at \in {"hash", "undo"} :
        Becomes(o, op[o].kind, at, c, op[o].todo, op[o].seen, op[o].free, op[o].holds)
  BY CheckEffect
<1>3. UNCHANGED <<stored, manifest, damaged, swapped>>
  BY DEF Check, NoVault
<1>4. OnlyAt(o, c) /\ Cleaning(o)' /\ op'[o].cap = c
  BY <1>2, <1>3 DEF OnlyAt, Becomes, Cleaning
<1>5. Moved(o)' = Moved(o) /\ Has(o)' = Moved(o) /\ Has(o) = Moved(o)
  BY <1>1, <1>2 DEF Moved, Has, Present, Becomes, At
<1>6. HoldsMoved(o)'
  BY <1>1, <1>2, <1>3, <1>5, CleanerFacts DEF CleanerOk, HoldsMoved, Becomes, At
<1>7. CleanerOk(o)'
  BY <1>1, <1>2, <1>3, <1>6, CleanerFacts DEF CleanerOk, Present, Becomes, At
<1> QED
  BY <1>1, <1>3, <1>4, <1>7, CleanerFacts, GoesOn

LEMMA HashVault ==
  ASSUME Typed, VaultInv, NEW o \in Ops, Hash(o) PROVE VaultInv'
<1> DEFINE c == op[o].cap
           p == First(op[o].todo)
<1>1. Cleaning(o) /\ At(o, "hash")
  BY DEF Hash, At, Cleaning
<1>2. UNCHANGED <<stored, manifest, damaged, swapped>>
  BY DEF Hash, NoVault
<1>3. CleanerOk(o) /\ HoldsMoved(o) /\ op[o].seen \in [Paths -> Contained] /\ c \in Capsules
  BY <1>1, CleanerFacts DEF CleanerOk, At
<1>4. p \in op[o].todo /\ p \in Paths /\ op[o].todo \subseteq Paths
  BY <1>1, CleanerFacts, CleanerFirst DEF At
<1>5. PICK at \in {"move", "undo"}, s \in [Paths -> Contained] :
        /\ Becomes(o, op[o].kind, at, c, op[o].todo, s, op[o].free, op[o].holds)
        /\ Present(s) = Present(op[o].seen)
        /\ \A q \in Paths \ {p} : s[q] = op[o].seen[q]
  <2>1. CASE /\ files[p] # Absent
             /\ Becomes(o, op[o].kind, "move", c, op[o].todo,
                        [op[o].seen EXCEPT ![p] = files[p]], op[o].free, op[o].holds)
    <3> DEFINE s == [op[o].seen EXCEPT ![p] = files[p]]
    <3>1. files[p] \in Contained
      BY <1>4 DEF Typed, VaultTyped
    <3>2. s \in [Paths -> Contained] /\ s[p] = files[p] /\ \A q \in Paths \ {p} : s[q] = op[o].seen[q]
      BY <1>3, <1>4, <3>1
    <3>3. op[o].seen[p] # Absent
      BY <1>3, <1>4 DEF CleanerOk, Present
    <3>4. Becomes(o, op[o].kind, "move", c, op[o].todo, s, op[o].free, op[o].holds)
      BY <2>1
    <3> HIDE DEF s
    <3>5. Present(s) = Present(op[o].seen)
      BY <2>1, <3>2, <3>3 DEF Present
    <3> QED
      BY <3>2, <3>4, <3>5
  <2>2. CASE Becomes(o, op[o].kind, "undo", c, op[o].todo, op[o].seen, op[o].free, op[o].holds)
    BY <1>3, <2>2
  <2> QED
    BY <1>4, <2>1, <2>2, HashEffect
<1>6. OnlyAt(o, c) /\ Cleaning(o)' /\ op'[o].cap = c
  BY <1>2, <1>5 DEF OnlyAt, Becomes, Cleaning
<1>7. Present(op'[o].seen) = Present(op[o].seen)
  BY <1>5 DEF Becomes
<1>8. Moved(o)' = Moved(o) /\ Has(o)' = Moved(o) /\ Has(o) = Moved(o) /\ p \notin Moved(o)
      /\ Moved(o) \subseteq Paths
  <2>1. Moved(o)' = Present(op'[o].seen) \ op'[o].todo
    BY DEF Moved, Present
  <2>2. op'[o].todo = op[o].todo /\ op'[o].at = at /\ op[o].at = "hash"
    BY <1>1, <1>5 DEF Becomes, At
  <2> QED
    BY <1>4, <1>7, <2>1, <2>2 DEF Has, Moved, Present, At
<1>9. HoldsMoved(o)'
  <2>1. \A q \in Moved(o) : op'[o].seen[q] = op[o].seen[q]
    BY <1>5, <1>8 DEF Becomes
  <2> QED
    BY <1>2, <1>3, <1>6, <1>8, <2>1 DEF HoldsMoved
<1>10. CleanerOk(o)'
  <2>1. op'[o].todo = op[o].todo /\ op'[o].at \in {"move", "undo"}
    BY <1>5 DEF Becomes
  <2>3. op'[o].todo \subseteq {q \in Paths : op'[o].seen[q] # Absent}
    BY <1>3, <1>7, <2>1 DEF CleanerOk, Present
  <2> QED
    BY <1>2, <1>3, <1>4, <1>6, <1>9, <2>1, <2>3 DEF CleanerOk, Present, At
<1> QED
  BY <1>1, <1>2, <1>3, <1>6, <1>10, GoesOn

LEMMA MoveVault ==
  ASSUME Typed, VaultInv, NEW o \in Ops, Move(o) PROVE VaultInv'
<1> DEFINE p == First(op[o].todo)
           c == op[o].cap
<1>1. Cleaning(o) /\ At(o, "move")
  BY DEF Move, At, Cleaning
<1>2. UNCHANGED <<manifest, damaged>>
  BY DEF Move
<1>3. CleanerOk(o) /\ HoldsMoved(o) /\ c \in Capsules
  BY <1>1, CleanerFacts DEF CleanerOk, At
<1>4. p \in op[o].todo /\ p \in Paths
  BY <1>1, CleanerFirst DEF At
<1>5. Has(o) = Moved(o) /\ p \notin Moved(o) /\ op[o].seen[p] # Absent
  BY <1>1, <1>3, <1>4 DEF Has, Moved, CleanerOk, Present, At
<1>6. CASE /\ Stores(o, p, c)
           /\ \/ Becomes(o, op[o].kind, "check", c, op[o].todo \ {p}, op[o].seen, op[o].free, op[o].holds)
              \/ Becomes(o, op[o].kind, "unlink", c, op[o].todo, op[o].seen, op[o].free, op[o].holds)
  <2>0. files[p] \in Contained
    BY <1>4 DEF Typed, VaultTyped
  <2>1. /\ stored'[c][p] = files[p] /\ files[p] # Absent
        /\ \A q \in Paths \ {p} : stored'[c][q] = stored[c][q]
        /\ \A d \in Capsules \ {c} : stored'[d] = stored[d]
    BY <1>3, <1>4, <1>6, <2>0, StoreAt DEF Stores, Typed, VaultTyped
  <2>2. /\ c \notin swapped' => c \notin swapped /\ files[p] = op[o].seen[p]
        /\ \A d \in Capsules \ {c} : d \in swapped' <=> d \in swapped
    BY <1>6 DEF Stores
  <2>3. OnlyAt(o, c) /\ Cleaning(o)' /\ op'[o].cap = c /\ op'[o].seen = op[o].seen
    BY <1>2, <1>6, <2>1, <2>2 DEF OnlyAt, Becomes, Cleaning
  <2>4. Has(o)' = Moved(o) \cup {p}
    <3>1. CASE Becomes(o, op[o].kind, "check", c, op[o].todo \ {p}, op[o].seen, op[o].free, op[o].holds)
      BY <1>4, <1>5, <3>1 DEF Moved, Has, Becomes, Present, At
    <3>2. CASE Becomes(o, op[o].kind, "unlink", c, op[o].todo, op[o].seen, op[o].free, op[o].holds)
      BY <3>2 DEF Moved, Has, Becomes, Present, At
    <3> QED
      BY <1>6, <3>1, <3>2
  <2>5. HoldsMoved(o)'
    BY <1>3, <1>5, <2>1, <2>2, <2>3, <2>4 DEF HoldsMoved
  <2>6. CleanerOk(o)'
    BY <1>1, <1>2, <1>3, <1>4, <1>6, <2>5 DEF CleanerOk, Becomes, Present, At
  <2> QED
    BY <1>1, <1>2, <1>3, <2>3, <2>6, GoesOn
<1>7. CASE /\ NoMove /\ UNCHANGED swapped
           /\ Becomes(o, op[o].kind, "undo", c, op[o].todo, op[o].seen, op[o].free, op[o].holds)
  <2>1. OnlyAt(o, c) /\ Cleaning(o)' /\ op'[o].cap = c /\ UNCHANGED stored
    BY <1>2, <1>7 DEF OnlyAt, Becomes, Cleaning, NoMove
  <2>2. Has(o)' = Moved(o)
    BY <1>7 DEF Moved, Has, Becomes, Present, At
  <2>3. HoldsMoved(o)'
    BY <1>3, <1>5, <1>7, <2>1, <2>2 DEF HoldsMoved, Becomes
  <2>4. CleanerOk(o)'
    BY <1>1, <1>2, <1>3, <1>7, <2>3 DEF CleanerOk, Becomes, Present, At
  <2> QED
    BY <1>1, <1>2, <1>3, <2>1, <2>4, GoesOn
<1> QED
  BY <1>6, <1>7, MoveEffect

LEMMA UnlinkVault ==
  ASSUME Typed, VaultInv, NEW o \in Ops, Unlink(o) PROVE VaultInv'
<1> DEFINE p == First(op[o].todo)
           c == op[o].cap
<1>1. Cleaning(o) /\ At(o, "unlink")
  BY DEF Unlink, At, Cleaning
<1>2. UNCHANGED <<stored, manifest, swapped>>
  BY DEF Unlink, NoState
<1>3. CleanerOk(o) /\ HoldsMoved(o) /\ c \in Capsules
  BY <1>1, CleanerFacts DEF CleanerOk, At
<1>4. p \in op[o].todo /\ p \in Paths
  BY <1>1, CleanerFirst DEF At
<1>5. CASE /\ UNCHANGED damaged
           /\ Becomes(o, op[o].kind, "check", c, op[o].todo \ {p}, op[o].seen, op[o].free, op[o].holds)
  <2>1. OnlyAt(o, c) /\ Cleaning(o)' /\ op'[o].cap = c /\ op'[o].seen = op[o].seen
    BY <1>2, <1>5 DEF OnlyAt, Becomes, Cleaning
  <2>2. Has(o)' = Has(o)
    <3>1. op[o].seen[p] # Absent
      BY <1>3, <1>4 DEF CleanerOk, Present
    <3> QED
      BY <1>1, <1>4, <1>5, <3>1 DEF Moved, Has, Becomes, Present, At
  <2>3. HoldsMoved(o)'
    BY <1>2, <1>3, <2>1, <2>2 DEF HoldsMoved
  <2>4. CleanerOk(o)'
    BY <1>1, <1>2, <1>3, <1>5, <2>3 DEF CleanerOk, Becomes, Present, At
  <2> QED
    BY <1>1, <1>2, <1>3, <2>1, <2>4, GoesOn
<1>6. CASE /\ damaged' = damaged \cup {c}
           /\ Becomes(o, op[o].kind, "undo", c, op[o].todo, op[o].seen, op[o].free, op[o].holds)
  <2>1. OnlyAt(o, c) /\ Cleaning(o)' /\ op'[o].cap = c
    BY <1>2, <1>6 DEF OnlyAt, Becomes, Cleaning
  <2>2. CleanerOk(o)'
    BY <1>1, <1>2, <1>3, <1>6 DEF CleanerOk, Becomes, Present, At
  <2> QED
    BY <1>1, <1>2, <1>3, <2>1, <2>2, GoesOn
<1> QED
  BY <1>5, <1>6, UnlinkEffect

LEMMA PrepareVault ==
  ASSUME Typed, VaultInv, NEW o \in Ops, NEW c \in Capsules, At(o, "prepare"), Creates(o, c),
         UNCHANGED <<stored, damaged>>
  PROVE  VaultInv'
<1>1. /\ manifest'[c].state = "preparing" /\ swapped' = swapped \ {c}
      /\ \A d \in Capsules \ {c} : manifest'[d] = manifest[d]
  BY SetStateTyped DEF Creates, Typed, VaultTyped
<1>2. OnlyAt(o, c) /\ Cleaning(o)' /\ op'[o].cap = c
  BY <1>1 DEF OnlyAt, Creates, Becomes, Cleaning
<1>3. Has(o)' = {}
  BY DEF Creates, Becomes, Has, Moved, Present, At
<1>4. stored[c] = Nothing
  BY DEF Creates, VaultInv, CapsulesInv, CapsuleOk, Empty
<1>5. HoldsMoved(o)'
  BY <1>2, <1>3, <1>4 DEF HoldsMoved, Nothing
<1>6. CleanerOk(o)'
  BY <1>1, <1>2, <1>5 DEF CleanerOk, Creates, Becomes, At, Present
<1>7. CapsuleOk(c)'
  BY <1>1, <1>2 DEF CapsuleOk, Empty, Abandoned, Partial, Full
<1> QED
  BY <1>2, <1>6, <1>7, CleanerStep DEF Creates

LEMMA SealVault ==
  ASSUME Typed, VaultInv, NEW o \in Ops, Seal(o) PROVE VaultInv'
<1> SUFFICES ASSUME NEW c \in Capsules, op[o].cap = c PROVE VaultInv'
  BY CleanerFacts DEF Seal, At, Cleaning
<1>1. Cleaning(o) /\ At(o, "check") /\ op[o].todo = {}
  BY DEF Seal, At, Cleaning
<1>2. UNCHANGED <<stored, damaged, swapped>>
  BY DEF Seal, NoMove
<1>3. CleanerOk(o) /\ HoldsMoved(o)
  BY <1>1, CleanerFacts DEF CleanerOk, At
<1>4. Has(o) = Moved(o) /\ Moved(o) = Present(op[o].seen)
  BY <1>1 DEF Has, Moved, At
<1>5. CASE /\ manifest' = [manifest EXCEPT ![c].state = "sealed", ![c].items = op[o].seen]
           /\ Becomes(o, "none", "over", 0, {}, Nothing, {}, op[o].holds)
  <2>1. /\ manifest'[c].state = "sealed" /\ manifest'[c].items = op[o].seen
        /\ \A d \in Capsules \ {c} : manifest'[d] = manifest[d]
    BY <1>1, <1>5, CleanerFacts DEF Typed, VaultTyped, Manifest
  <2>2. OnlyAt(o, c)
    BY <1>2, <1>5, <2>1 DEF OnlyAt, Becomes
  <2>3. Partial(c)'
    BY <1>2, <1>3, <1>4, <2>1 DEF Partial, HoldsMoved, Present
  <2>4. Full(c)'
    BY <1>2, <1>3, <1>4, <2>1 DEF Full, HoldsMoved, Present
  <2>5. CapsuleOk(c)'
    BY <2>1, <2>3, <2>4 DEF CapsuleOk, Empty, Abandoned
  <2> QED
    BY <1>1, <1>5, <2>2, <2>5, CleanerFacts, CleanerStep DEF Becomes
<1>6. CASE /\ UNCHANGED manifest
           /\ Becomes(o, op[o].kind, "undo", c, op[o].todo, op[o].seen, op[o].free, op[o].holds)
  <2>1. OnlyAt(o, c) /\ Cleaning(o)' /\ op'[o].cap = c
    BY <1>2, <1>6 DEF OnlyAt, Becomes, Cleaning
  <2>2. Has(o)' = Has(o) /\ op'[o].seen = op[o].seen
    BY <1>4, <1>6 DEF Has, Moved, Present, Becomes, At
  <2>3. HoldsMoved(o)'
    BY <1>2, <1>3, <2>1, <2>2 DEF HoldsMoved
  <2>4. CleanerOk(o)'
    BY <1>1, <1>2, <1>3, <1>6, <2>3 DEF CleanerOk, Present, Becomes, At
  <2> QED
    BY <1>1, <1>6, <2>1, <2>4, GoesOn
<1> QED
  BY <1>5, <1>6, SealEffect

LEMMA UndoVault ==
  ASSUME Typed, VaultInv, NEW o \in Ops, Undo(o) PROVE VaultInv'
<1> SUFFICES ASSUME NEW c \in Capsules, op[o].cap = c PROVE VaultInv'
  BY CleanerFacts DEF Undo, At, Cleaning
<1> DEFINE p == Last(Moved(o))
<1>1. Cleaning(o) /\ At(o, "undo") /\ UNCHANGED stored
  BY DEF Undo, At, Cleaning, NoMove
<1>2. CleanerOk(o) /\ (c \notin damaged => HoldsMoved(o)) /\ c \in Capsules
  BY <1>1, CleanerFacts DEF CleanerOk
<1>3. Has(o) = Moved(o)
  BY <1>1 DEF Has, At
<1>4. CASE /\ Moved(o) = {} /\ UNCHANGED damaged
           /\ SetState(c, "closed") \/ NoState
           /\ Becomes(o, "none", "over", 0, {}, Nothing, {}, op[o].holds)
  <2>1. c \notin damaged => stored[c] = Nothing
    BY <1>1, <1>2, <1>3, <1>4, CleanerFacts DEF HoldsMoved, Nothing
  <2>2. /\ manifest'[c].state \in {"closed", "preparing"}
        /\ \A d \in Capsules \ {c} :
             manifest'[d] = manifest[d] /\ (d \in swapped' <=> d \in swapped)
    BY <1>1, <1>2, <1>4, CleanerFacts, SetStateTyped DEF Typed, VaultTyped, NoState
  <2>3. Nothing' = Nothing
    BY DEF Nothing
  <2>4. CapsuleOk(c)'
    BY <1>1, <1>4, <2>1, <2>2, <2>3 DEF CapsuleOk, Empty, Abandoned, Partial, Full
  <2>5. OnlyAt(o, c)
    BY <1>1, <1>4, <2>2 DEF OnlyAt, Becomes
  <2> QED
    BY <1>1, <1>2, <1>4, <2>4, <2>5, CleanerStep DEF Becomes
<1>5. CASE /\ Moved(o) # {} /\ NoState /\ UNCHANGED damaged
           /\ Becomes(o, op[o].kind, "back", c, op[o].todo, op[o].seen, op[o].free \cup {p}, op[o].holds)
  <2>1. OnlyAt(o, c) /\ Cleaning(o)' /\ op'[o].cap = c /\ UNCHANGED <<manifest, swapped>>
    BY <1>1, <1>5 DEF OnlyAt, Becomes, Cleaning, NoState
  <2>2. Has(o)' = Moved(o) /\ Moved(o)' = Moved(o) /\ op'[o].seen = op[o].seen
    BY <1>5 DEF Has, Moved, Becomes, Present, At
  <2>3. c \notin damaged => HoldsMoved(o)'
    BY <1>1, <1>2, <1>3, <2>1, <2>2 DEF HoldsMoved
  <2>4. CleanerOk(o)'
    BY <1>1, <1>2, <1>5, <2>1, <2>2, <2>3 DEF CleanerOk, Becomes, Present, At
  <2> QED
    BY <1>1, <2>1, <2>4, GoesOn
<1>6. CASE /\ Moved(o) # {} /\ NoState /\ damaged' = damaged \cup {c}
           /\ Becomes(o, op[o].kind, "undo", c, op[o].todo \cup {p}, op[o].seen, op[o].free, op[o].holds)
  <2>1. p \in Moved(o) /\ p \in Paths
    BY <1>6, LastMoved
  <2>2. OnlyAt(o, c) /\ Cleaning(o)' /\ op'[o].cap = c /\ UNCHANGED manifest
    BY <1>1, <1>6 DEF OnlyAt, Becomes, Cleaning, NoState
  <2>3. CleanerOk(o)'
    BY <1>1, <1>2, <1>6, <2>1, <2>2 DEF CleanerOk, Becomes, Present, At, Moved
  <2> QED
    BY <1>1, <2>2, <2>3, GoesOn
<1> QED
  BY <1>4, <1>5, <1>6, UndoEffect

LEMMA BackVault ==
  ASSUME Typed, VaultInv, NEW o \in Ops, Back(o) PROVE VaultInv'
<1> SUFFICES ASSUME NEW c \in Capsules, op[o].cap = c PROVE VaultInv'
  BY CleanerFacts DEF Back, At, Cleaning
<1> DEFINE p == Last(Moved(o))
<1>1. Cleaning(o) /\ At(o, "back") /\ NoState
  BY DEF Back, At, Cleaning
<1>2. CleanerOk(o) /\ (c \notin damaged => HoldsMoved(o)) /\ Moved(o) # {}
  BY <1>1, CleanerFacts DEF CleanerOk
<1>3. Has(o) = Moved(o)
  BY <1>1 DEF Has, At
<1>4. p \in Moved(o) /\ p \in Paths
  BY <1>2, LastMoved
<1>5. /\ PutsBack(p, c)
      /\ Becomes(o, op[o].kind, "undo", c, op[o].todo \cup {p}, op[o].seen, op[o].free, op[o].holds)
  BY <1>2, BackEffect
<1>6. \/ stored' = [stored EXCEPT ![c][p] = Absent] /\ UNCHANGED damaged
      \/ UNCHANGED stored /\ damaged' = damaged \cup {c}
  BY <1>5 DEF PutsBack, NoMove
<1>7. \A d \in Capsules \ {c} : stored'[d] = stored[d] /\ (d \in damaged' <=> d \in damaged)
  BY <1>6 DEF Typed, VaultTyped
<1>8. OnlyAt(o, c) /\ Cleaning(o)' /\ op'[o].cap = c /\ UNCHANGED <<manifest, swapped>>
  BY <1>1, <1>5, <1>7 DEF OnlyAt, Becomes, Cleaning, NoState
<1>9. Has(o)' = Moved(o) \ {p} /\ op'[o].seen = op[o].seen
  BY <1>5 DEF Has, Moved, Becomes, Present, At
<1>10. c \notin damaged' => HoldsMoved(o)'
  <2> SUFFICES ASSUME c \notin damaged' PROVE HoldsMoved(o)'
    OBVIOUS
  <2>1. stored' = [stored EXCEPT ![c][p] = Absent] /\ HoldsMoved(o)
    BY <1>2, <1>6
  <2>2. stored'[c][p] = Absent /\ \A q \in Paths \ {p} : stored'[c][q] = stored[c][q]
    BY <1>4, <2>1 DEF Typed, VaultTyped
  <2> QED
    BY <1>3, <1>4, <1>8, <1>9, <2>1, <2>2 DEF HoldsMoved
<1>11. CleanerOk(o)'
  BY <1>1, <1>2, <1>4, <1>5, <1>8, <1>10 DEF CleanerOk, Becomes, Present, At, Moved
<1> QED
  BY <1>1, <1>8, <1>11, GoesOn

LEMMA RestorerFacts ==
  ASSUME Typed, VaultInv, NEW o \in Ops, Restoring(o)
  PROVE  /\ op[o].cap \in Capsules /\ RestorerOk(o) /\ CapsuleOk(op[o].cap)
         /\ manifest[op[o].cap].state \in {"sealed", "closed"}
         /\ op[o].todo \subseteq Paths /\ (op[o].todo # {} => First(op[o].todo) \in op[o].todo)
         /\ op[o].seen \in [Paths -> Contained] /\ ~Cleaning(o)
<1>1. RestorerOk(o)
  BY DEF VaultInv, RestorersInv
<1>2. op[o].cap \in Capsules /\ op[o].todo \subseteq Paths
  BY <1>1 DEF RestorerOk, Present
<1>3. CapsuleOk(op[o].cap)
  BY <1>2 DEF VaultInv, CapsulesInv
<1> QED
  BY <1>1, <1>2, <1>3, FirstOfPaths
  DEF RestorerOk, Typed, OpTyped, Operation, Restoring, Cleaning

\* A restore goes on without touching a capsule.
LEMMA ReadingStep ==
  ASSUME Typed, VaultInv, NEW o \in Ops, NEW c \in Capsules, ~Cleaning(o), ~At(o, "put"),
         op' \in [Ops -> Operation], Others(o), UNCHANGED <<stored, manifest, damaged, swapped>>,
         manifest[c].state \in {"sealed", "closed"},
         manifest[c].state = "closed" => stored[c] = Nothing,
         Restoring(o)', RestorerOk(o)'
  PROVE  VaultInv'
<1>1. OnlyAt(o, c)
  BY DEF OnlyAt
<1>2. CapsuleOk(c)'
  <2>1. CapsuleOk(c)
    BY DEF VaultInv, CapsulesInv
  <2>2. Nothing' = Nothing
    BY DEF Nothing
  <2>3. \A q \in Ops \ {o} : op'[q] = op[q]
    BY DEF Others
  <2>4. (\E q \in Ops : At(q, "put") /\ op[q].cap = c)
          => \E q \in Ops : At(q, "put")' /\ op'[q].cap = c
    BY <2>3 DEF At
  <2>5. Empty(c)'    BY <2>1, <2>2 DEF CapsuleOk, Empty
  <2>6. Partial(c)'  BY <2>1 DEF CapsuleOk, Partial
  <2>7. Full(c)'     BY <2>1, <2>4 DEF CapsuleOk, Full
  <2> QED
    BY <2>1, <2>5, <2>6, <2>7 DEF CapsuleOk, Abandoned
<1>3. ~Cleaning(o)' /\ ~At(o, "purge")'
  BY DEF Restoring, Cleaning, At
<1>4. Nothing' = Nothing
  BY DEF Nothing
<1> QED
  BY <1>1, <1>2, <1>3, <1>4, SealedStep

LEMMA ReadManifestVault ==
  ASSUME Typed, VaultInv, NEW o \in Ops, ReadManifest(o),
         manifest[op[o].cap].state = "sealed",
         Becomes(o, op[o].kind, "verify", op[o].cap, Present(manifest[op[o].cap].items),
                 manifest[op[o].cap].items, op[o].free, op[o].holds)
  PROVE  VaultInv'
<1> DEFINE c == op[o].cap
<1>1. c \in Capsules /\ ~Cleaning(o) /\ ~At(o, "put")
  BY DEF ReadManifest, At, Cleaning, Typed, OpTyped
<1>2. UNCHANGED <<stored, manifest, damaged, swapped>>
  BY DEF ReadManifest, NoVault, NoLock
<1>3. Restoring(o)' /\ RestorerOk(o)'
  BY <1>1, <1>2 DEF Becomes, Restoring, RestorerOk, Present, At
<1> QED
  BY <1>1, <1>2, <1>3, ReadingStep DEF Becomes

LEMMA VerifyVault ==
  ASSUME Typed, VaultInv, NEW o \in Ops, Verify(o),
         \/ /\ op[o].todo = {}
            /\ Becomes(o, op[o].kind, "put", op[o].cap, Present(op[o].seen), op[o].seen, op[o].free, op[o].holds)
         \/ \E p \in Paths :
              Becomes(o, op[o].kind, "verify", op[o].cap, op[o].todo \ {p}, op[o].seen,
                      op[o].free \cup {p}, op[o].holds)
  PROVE  VaultInv'
<1> DEFINE c == op[o].cap
<1>1. Restoring(o) /\ ~Cleaning(o) /\ ~At(o, "put")
  BY DEF Verify, At, Cleaning, Restoring
<1>2. UNCHANGED <<stored, manifest, damaged, swapped>>
  BY DEF Verify, NoVault, NoLock
<1>3. c \in Capsules /\ RestorerOk(o) /\ manifest[c].state \in {"sealed", "closed"}
      /\ (manifest[c].state = "closed" => stored[c] = Nothing) /\ Partial(c)
  BY <1>1, RestorerFacts DEF CapsuleOk, RestorerOk
<1>4. \A p \in Paths \ Present(op[o].seen) : stored[c][p] = Absent
  <2>1. manifest[c].state = "sealed" => manifest[c].items = op[o].seen
    BY <1>3 DEF RestorerOk
  <2>2. manifest[c].state # "sealed" => stored[c] = Nothing
    BY <1>3 DEF RestorerOk
  <2> QED
    BY <1>3, <2>1, <2>2 DEF Partial, Present, Nothing
<1>5. op' \in [Ops -> Operation] /\ Others(o) /\ Restoring(o)'
  BY DEF Becomes, Restoring
<1>6. RestorerOk(o)'
  BY <1>2, <1>3, <1>4 DEF RestorerOk, Becomes, Present, At
<1> QED
  BY <1>1, <1>2, <1>3, <1>5, <1>6, ReadingStep

LEMMA PutVault ==
  ASSUME Typed, VaultInv, NEW o \in Ops, Put(o),
         stored[op[o].cap][First(op[o].todo)] # Absent,
         stored' = [stored EXCEPT ![op[o].cap][First(op[o].todo)] = Absent],
         UNCHANGED damaged,
         Becomes(o, op[o].kind, "put", op[o].cap, op[o].todo \ {First(op[o].todo)}, op[o].seen, op[o].free, op[o].holds)
  PROVE  VaultInv'
<1> DEFINE p == First(op[o].todo)
<1> SUFFICES ASSUME NEW c \in Capsules, op[o].cap = c PROVE VaultInv'
  BY RestorerFacts DEF Put, At, Restoring
<1>1. Restoring(o) /\ ~Cleaning(o) /\ At(o, "put") /\ op[o].todo # {}
  BY DEF Put, At, Cleaning, Restoring
<1>2. UNCHANGED <<manifest, swapped>>
  BY DEF Put, NoState
<1>3. RestorerOk(o) /\ CapsuleOk(c) /\ p \in op[o].todo /\ p \in Paths
      /\ manifest[c].state \in {"sealed", "closed"}
  BY <1>1, RestorerFacts
<1>4. /\ stored'[c][p] = Absent
      /\ \A q \in Paths \ {p} : stored'[c][q] = stored[c][q]
      /\ \A d \in Capsules \ {c} : stored'[d] = stored[d]
  BY <1>3 DEF Typed, VaultTyped
<1>5. manifest[c].state = "sealed"
  BY <1>3 DEF RestorerOk, Nothing
<1>6. OnlyAt(o, c)
  BY <1>2, <1>4 DEF OnlyAt, Becomes
<1>7. CapsuleOk(c)'
  <2>1. Partial(c)'
    BY <1>2, <1>3, <1>4 DEF CapsuleOk, Partial
  <2>2. Full(c)'
    BY DEF Full, Becomes, At
  <2> QED
    BY <1>2, <1>3, <1>5, <2>1, <2>2 DEF CapsuleOk, Empty, Abandoned
<1>8. RestorerOk(o)'
  <2>1. \A q \in Paths \ (op[o].todo \ {p}) : stored'[c][q] = Absent
    BY <1>1, <1>3, <1>4 DEF RestorerOk
  <2>2. /\ op'[o].cap = c /\ op'[o].todo = op[o].todo \ {p} /\ op'[o].seen = op[o].seen
    BY DEF Becomes
  <2>3. Present(op'[o].seen) = Present(op[o].seen)
    BY <2>2
  <2> HIDE DEF p
  <2> QED
    BY <1>2, <1>3, <1>5, <2>1, <2>2, <2>3 DEF RestorerOk, Present
<1>9. ~Cleaning(o)' /\ ~At(o, "purge")'
  BY DEF Becomes, Cleaning, At
<1>10. \A q \in Paths : stored[c][q] = Absent => stored'[c][q] = Absent
  BY <1>4
<1> QED
  BY <1>1, <1>2, <1>5, <1>6, <1>7, <1>8, <1>9, <1>10, SealedStep

LEMMA RestoredVault ==
  ASSUME Typed, VaultInv, NEW o \in Ops, Restored(o), SetState(op[o].cap, "closed"),
         UNCHANGED damaged,
         Becomes(o, "none", "over", 0, {}, Nothing, {}, op[o].holds)
  PROVE  VaultInv'
<1> SUFFICES ASSUME NEW c \in Capsules, op[o].cap = c PROVE VaultInv'
  BY RestorerFacts DEF Restored, At, Restoring
<1>1. Restoring(o) /\ ~Cleaning(o) /\ At(o, "put") /\ op[o].todo = {}
  BY DEF Restored, At, Cleaning, Restoring
<1>2. UNCHANGED stored
  BY DEF Restored, NoMove
<1>3. RestorerOk(o) /\ manifest[c].state \in {"sealed", "closed"}
  BY <1>1, RestorerFacts
<1>4. /\ manifest'[c].state = "closed" /\ swapped' = swapped \ {c}
      /\ \A d \in Capsules \ {c} : manifest'[d] = manifest[d]
  BY SetStateTyped DEF Typed, VaultTyped
<1>5. stored'[c] = Nothing
  BY <1>1, <1>2, <1>3 DEF RestorerOk, Nothing, Typed, VaultTyped
<1>6. OnlyAt(o, c)
  BY <1>2, <1>4 DEF OnlyAt, Becomes
<1>7. CapsuleOk(c)'
  BY <1>2, <1>4, <1>5 DEF CapsuleOk, Empty, Abandoned, Partial, Full, Nothing
<1>8. ~Cleaning(o)' /\ ~Restoring(o)' /\ ~At(o, "purge")'
  BY DEF Becomes, Cleaning, Restoring, At
<1> QED
  BY <1>1, <1>2, <1>3, <1>4, <1>5, <1>6, <1>7, <1>8, SealedStep

LEMMA PurgeVault ==
  ASSUME Typed, VaultInv, NEW o \in Ops, Purge(o), op[o].todo # {},
         stored' = [stored EXCEPT ![Last(op[o].todo)] = Nothing],
         SetState(Last(op[o].todo), "closed"), damaged' = damaged \ {Last(op[o].todo)},
         Becomes(o, op[o].kind, "purge", op[o].cap, op[o].todo \ {Last(op[o].todo)}, op[o].seen, op[o].free, op[o].holds)
  PROVE  VaultInv'
<1>1. At(o, "purge") /\ ~Cleaning(o) /\ ~At(o, "put")
  BY DEF Purge, At, Cleaning
<1>2. PurgerOk(o)
  BY <1>1 DEF VaultInv, PurgersInv
<1>3. op[o].todo \subseteq Capsules
  BY <1>2 DEF PurgerOk
<1>4. Last(op[o].todo) \in op[o].todo
  BY <1>3, LastOfCapsules
<1> SUFFICES ASSUME NEW c \in Capsules, Last(op[o].todo) = c PROVE VaultInv'
  BY <1>3, <1>4
<1>5. manifest[c].state \in {"sealed", "closed"}
  BY <1>2, <1>4 DEF PurgerOk
<1>6. /\ manifest'[c].state = "closed" /\ swapped' = swapped \ {c}
      /\ \A d \in Capsules \ {c} : manifest'[d] = manifest[d]
  BY SetStateTyped DEF Typed, VaultTyped
<1>7. stored'[c] = Nothing /\ \A d \in Capsules \ {c} : stored'[d] = stored[d]
  BY DEF Typed, VaultTyped
<1>8. OnlyAt(o, c)
  BY <1>1, <1>6, <1>7 DEF OnlyAt, Becomes
<1>9. CapsuleOk(c)'
  BY <1>6, <1>7 DEF CapsuleOk, Empty, Abandoned, Partial, Full, Nothing
<1>10. ~Cleaning(o)' /\ ~Restoring(o)'
  BY DEF Becomes, Cleaning, Restoring
<1>11. PurgerOk(o)'
  BY <1>2, <1>6 DEF PurgerOk, Becomes
<1>12. \A q \in Paths : stored'[c][q] = Absent
  BY <1>7 DEF Nothing
<1> QED
  BY <1>1, <1>5, <1>6, <1>7, <1>8, <1>9, <1>10, <1>11, <1>12, SealedStep

LEMMA SameVault ==
  ASSUME VaultInv, UNCHANGED <<op, stored, manifest, damaged, swapped>> PROVE VaultInv'
<1>1. CleanersInv'
  BY DEF VaultInv, CleanersInv, Cleaning, CleanerOk, HoldsMoved, Has, Moved, Present, At
<1>2. RestorersInv'
  BY DEF VaultInv, RestorersInv, Restoring, RestorerOk, Nothing, Present, At
<1>3. PurgersInv'
  BY DEF VaultInv, PurgersInv, PurgerOk, At
<1>4. CapsulesInv'
  BY DEF VaultInv, CapsulesInv, CapsuleOk, Empty, Abandoned, Partial, Full, Nothing, Cleaning, At
<1> QED
  BY <1>1, <1>2, <1>3, <1>4 DEF VaultInv

\* A step that leaves the vault alone is quiet.
LEMMA QuietIf ==
  ASSUME NEW o \in Ops, UNCHANGED <<stored, manifest, swapped>>, damaged \subseteq damaged',
         op' \in [Ops -> Operation], Others(o),
         \/ /\ op'[o].at \in {"idle", "lock", "break", "scan", "prepare", "manifest", "over"}
            /\ Cleaning(o) \/ At(o, "put") => op[o].cap \in damaged'
         \/ /\ op'[o].at = op[o].at /\ op'[o].cap = op[o].cap
            /\ op'[o].todo = op[o].todo /\ op'[o].seen = op[o].seen
  PROVE  Quiet(o)
  BY DEF Quiet

LEMMA PassVault ==
  ASSUME Typed, VaultInv, NEW o \in Ops, Pass(o) PROVE VaultInv'
<1>1. UNCHANGED <<stored, manifest, damaged, swapped>> /\ op[o].at = "idle"
  BY DEF Pass, NoVault, At
<1>2. PICK S \in SUBSET {c \in Capsules : manifest[c].state = "sealed"} :
        Becomes(o, "none", "purge", 0, S, Nothing, {}, FALSE)
  BY PassEffect
<1>3. PurgerOk(o)'
  BY <1>1, <1>2 DEF PurgerOk, Becomes
<1> QED
  BY <1>1, <1>2, <1>3, QuietVault DEF Quiet, Becomes, Cleaning, At

LEMMA AcquireVault ==
  ASSUME Typed, VaultInv, NEW o \in Ops, Acquire(o) PROVE VaultInv'
<1>1. UNCHANGED <<stored, manifest, damaged, swapped>> /\ op[o].at = "lock"
  BY DEF Acquire, NoVault, At
<1>2. Quiet(o)
  BY <1>1, AcquireEffect DEF Quiet, Becomes, Cleaning, At
<1> QED
  BY <1>2, QuietVault

LEMMA StartVault ==
  ASSUME Typed, VaultInv, NEW o \in Ops, Start(o) PROVE VaultInv'
<1>1. CASE Pass(o)
  BY <1>1, PassVault
<1>2. ASSUME NEW kind, NEW at, NEW c, NEW seen, Begin(o, kind, at, c, seen)
      PROVE  UNCHANGED <<stored, manifest, damaged, swapped>> /\ op[o].at = "idle"
  BY <1>2 DEF Begin, NoVault, At
<1>3. CASE Clean(o)
  <2>1. UNCHANGED <<stored, manifest, damaged, swapped>> /\ op[o].at = "idle"
    BY <1>2, <1>3 DEF Clean
  <2> QED
    BY <1>3, <2>1, CleanEffect, QuietIf, QuietVault DEF Becomes, Cleaning, At
<1>4. CASE StopSession(o)
  <2>1. UNCHANGED <<stored, manifest, damaged, swapped>> /\ op[o].at = "idle"
    BY <1>2, <1>4 DEF StopSession
  <2> QED
    BY <1>4, <2>1, StopSessionEffect, QuietIf, QuietVault DEF Becomes, Cleaning, At
<1>5. ASSUME NEW c \in Capsules, Restore(o, c) PROVE VaultInv'
  <2>1. UNCHANGED <<stored, manifest, damaged, swapped>> /\ op[o].at = "idle"
    BY <1>2, <1>5 DEF Restore
  <2> QED
    BY <1>5, <2>1, RestoreEffect, QuietIf, QuietVault DEF Becomes, Cleaning, At
<1> QED
  BY <1>1, <1>3, <1>4, <1>5 DEF Start

LEMMA StepVault ==
  ASSUME Typed, VaultInv, NEW o \in Ops, Step(o) PROVE VaultInv'
<1>1. CASE Locked(o) \/ BreakLock(o) \/ Release(o) \/ ReleaseEarly(o) \/ Scan(o)
  <2>1. UNCHANGED <<stored, manifest, damaged, swapped>>
        /\ ~Cleaning(o)
        /\ (op[o].at = "put" => ReleaseEarly(o))
    BY <1>1 DEF Locked, BreakLock, Release, ReleaseEarly, Scan, NoVault, At, Cleaning
  <2>2. CASE Locked(o)
    BY <2>1, <2>2, LockedEffect, QuietIf, QuietVault DEF Becomes, Locked, At
  <2>3. CASE BreakLock(o)
    BY <2>1, <2>3, BreakLockEffect, QuietIf, QuietVault DEF Becomes, BreakLock, At
  <2>4. CASE Release(o)
    BY <2>1, <2>4, ReleaseEffect, QuietIf, QuietVault DEF Becomes, Release, At
  <2>5. CASE ReleaseEarly(o)
    BY <2>1, <2>5, ReleaseEarlyEffect, QuietIf, QuietVault DEF Becomes
  <2>6. CASE Scan(o)
    BY <2>1, <2>6, ScanEffect, QuietIf, QuietVault DEF Becomes, Scan, At
  <2> QED
    BY <1>1, <2>2, <2>3, <2>4, <2>5, <2>6
<1>2. CASE Acquire(o)
  BY <1>2, AcquireVault
<1>3. CASE Prepare(o)
  <2>1. UNCHANGED <<stored, damaged>> /\ At(o, "prepare")
    BY <1>3 DEF Prepare, NoMove
  <2>2. CASE Becomes(o, "none", "over", 0, {}, Nothing, {}, op[o].holds) /\ NoState
    BY <2>1, <2>2, QuietIf, QuietVault DEF Becomes, At, NoState, Cleaning
  <2> QED
    BY <1>3, <2>1, <2>2, PrepareEffect, PrepareVault
<1>4. CASE Check(o)
  BY <1>4, CheckVault
<1>5. CASE Move(o)
  BY <1>5, MoveVault
<1>6. CASE Seal(o)
  BY <1>6, SealVault
<1>7. CASE Undo(o)
  BY <1>7, UndoVault
<1>8. CASE ReadManifest(o)
  <2>1. UNCHANGED <<stored, manifest, damaged, swapped>> /\ At(o, "manifest")
    BY <1>8 DEF ReadManifest, NoVault
  <2>2. CASE Becomes(o, "none", "over", 0, {}, Nothing, {}, op[o].holds)
    BY <2>1, <2>2, QuietIf, QuietVault DEF Becomes, At, Cleaning
  <2> QED
    BY <1>8, <2>2, ReadManifestEffect, ReadManifestVault
<1>9. CASE Verify(o)
  <2>1. UNCHANGED <<stored, manifest, damaged, swapped>> /\ At(o, "verify")
    BY <1>9 DEF Verify, NoVault
  <2>2. CASE Becomes(o, "none", "over", 0, {}, Nothing, {}, op[o].holds)
    BY <2>1, <2>2, QuietIf, QuietVault DEF Becomes, At, Cleaning
  <2>3. op[o].todo # {} => First(op[o].todo) \in Paths
    BY <2>1, RestorerFacts DEF Restoring, At
  <2> QED
    BY <1>9, <2>2, <2>3, VerifyEffect, VerifyVault
<1>10. CASE Put(o)
  <2>1. UNCHANGED <<manifest, swapped>>
    BY <1>10 DEF Put, NoState
  <2>2. CASE /\ UNCHANGED stored /\ damaged' = damaged \cup {op[o].cap}
             /\ Becomes(o, "none", "over", 0, {}, Nothing, {}, op[o].holds)
    BY <2>1, <2>2, QuietIf, QuietVault DEF Becomes
  <2> QED
    BY <1>10, <2>2, PutEffect, PutVault
<1>11. CASE Restored(o)
  <2>1. UNCHANGED stored
    BY <1>11 DEF Restored, NoMove
  <2>2. CASE damaged' = damaged \cup {op[o].cap} /\ NoState
    BY <1>11, <2>1, <2>2, RestoredEffect, QuietIf, QuietVault DEF Becomes, NoState
  <2> QED
    BY <1>11, <2>2, RestoredEffect, RestoredVault DEF Restored, Close
<1>12. CASE Purge(o)
  <2>1. op[o].at = "purge"
    BY <1>12 DEF Purge, At
  <2>2. CASE /\ NoVault
             /\ \/ Becomes(o, "clean", "lock", 0, {}, Nothing, {}, FALSE)
                \/ Becomes(o, "none", "idle", 0, {}, Nothing, {}, FALSE)
    BY <2>1, <2>2, QuietIf, QuietVault DEF Becomes, NoVault, Cleaning, At
  <2> QED
    BY <1>12, <2>2, PurgeEffect, PurgeVault
<1>13. CASE Hash(o)
  BY <1>13, HashVault
<1>14. CASE Unlink(o)
  BY <1>14, UnlinkVault
<1>15. CASE Back(o)
  BY <1>15, BackVault
<1> QED
  BY <1>1, <1>2, <1>3, <1>4, <1>5, <1>6, <1>7, <1>8, <1>9, <1>10, <1>11, <1>12, <1>13, <1>14, <1>15 DEF Step

LEMMA CrashVault ==
  ASSUME Typed, VaultInv, NEW o \in Ops, Crash(o) PROVE VaultInv'
<1>1. UNCHANGED <<stored, manifest, swapped>> /\ damaged' = damaged \cup ({op[o].cap} \cap Capsules)
  BY DEF Crash
<1>2. Cleaning(o) \/ At(o, "put") => op[o].cap \in Capsules
  BY CleanerFacts, RestorerFacts DEF Cleaning, Restoring, At
<1> QED
  BY <1>1, <1>2, CrashEffect, QuietIf, QuietVault DEF Becomes


-----------------------------------------------------------------------------
\* Types of what is on the disk.

LEMMA VaultTypedIf ==
  ASSUME VaultTyped, UNCHANGED <<lock, old, aged>>,
         files' \in [Paths -> Contained], stored' \in [Capsules -> [Paths -> Contained]],
         manifest' \in [Capsules -> Manifest], swapped' \subseteq Capsules, damaged' \subseteq Capsules
  PROVE  VaultTyped'
  BY DEF VaultTyped

LEMMA PutsBackTyped ==
  ASSUME VaultTyped, NEW p \in Paths, NEW c \in Capsules, PutsBack(p, c)
  PROVE  /\ files' \in [Paths -> Contained] /\ stored' \in [Capsules -> [Paths -> Contained]]
         /\ damaged' \subseteq Capsules
<1>1. stored[c][p] \in Contained /\ Absent \in Contained
  BY DEF VaultTyped, Contained
<1>2. files' = [files EXCEPT ![p] = stored[c][p]] => files' \in [Paths -> Contained]
  BY <1>1 DEF VaultTyped
<1>3. stored' = [stored EXCEPT ![c][p] = Absent] => stored' \in [Capsules -> [Paths -> Contained]]
  BY <1>1, StoreAt DEF VaultTyped
<1> QED
  BY <1>2, <1>3 DEF PutsBack, NoMove, VaultTyped

LEMMA VaultTypedStep ==
  ASSUME Typed, VaultInv, NEW o \in Ops, Start(o) \/ Step(o) PROVE VaultTyped'
<1>0. VaultTyped
  BY DEF Typed
<1>1. CASE UNCHANGED files /\ NoVault /\ NoLock
  BY <1>0, <1>1 DEF VaultTyped, NoVault, NoLock
<1>2. CASE Start(o)
  BY <1>1, <1>2 DEF Start, Clean, StopSession, Restore, Begin, Pass
<1>3. CASE Locked(o) \/ Scan(o) \/ Check(o) \/ Hash(o) \/ ReadManifest(o) \/ Verify(o)
  BY <1>1, <1>3 DEF Locked, Scan, Check, Hash, ReadManifest, Verify
<1>4. CASE Acquire(o) \/ BreakLock(o) \/ Release(o) \/ ReleaseEarly(o)
  <2>1. UNCHANGED files /\ NoVault
    BY <1>4 DEF Acquire, BreakLock, Release, ReleaseEarly
  <2>2. lock' \in Ops \cup {Free, Left} /\ old' \in BOOLEAN /\ aged' \in BOOLEAN
    BY <1>0, <1>4
    DEF Acquire, Enter, BreakLock, Release, ReleaseEarly, Unlock, NoLock, VaultTyped
  <2> QED
    BY <1>0, <2>1, <2>2 DEF VaultTyped, NoVault
<1>5. CASE Prepare(o)
  <2>1. UNCHANGED <<files, stored, damaged, lock, old, aged>>
    BY <1>5 DEF Prepare, NoMove, NoLock
  <2>2. manifest' \in [Capsules -> Manifest] /\ swapped' \subseteq Capsules
    BY <1>0, <1>5, SetStateTyped DEF Prepare, VaultTyped, NoState
  <2> QED
    BY <1>0, <2>1, <2>2 DEF VaultTyped
<1>6. CASE Move(o)
  <2> DEFINE p == First(op[o].todo)
             c == op[o].cap
  <2>1. UNCHANGED <<manifest, damaged, lock, old, aged>> /\ Cleaning(o) /\ op[o].at = "move"
    BY <1>6 DEF Move, NoLock, Cleaning, At
  <2>2. c \in Capsules /\ p \in Paths
    BY <2>1, CleanerFacts, CleanerFirst
  <2>3. files[p] \in Contained
    BY <1>0, <2>2 DEF VaultTyped
  <2>4. files' \in [Paths -> Contained]
    BY <1>0, <1>6, MoveEffect DEF VaultTyped, NoMove, Contained
  <2>5. Stores(o, p, c) => stored' \in [Capsules -> [Paths -> Contained]] /\ swapped' \subseteq Capsules
    BY <1>0, <2>2, <2>3, StoreAt DEF VaultTyped, Stores
  <2>6. stored' \in [Capsules -> [Paths -> Contained]] /\ swapped' \subseteq Capsules
    BY <1>0, <1>6, <2>5, MoveEffect DEF VaultTyped, NoMove
  <2> QED
    BY <1>0, <2>1, <2>4, <2>6 DEF VaultTyped
<1>7. CASE Unlink(o)
  <2>1. UNCHANGED <<stored, manifest, swapped, lock, old, aged>> /\ Cleaning(o)
    BY <1>7 DEF Unlink, NoLock, NoState, Cleaning, At
  <2>2. op[o].cap \in Capsules
    BY <2>1, CleanerFacts
  <2>3. files' \in [Paths -> Contained] /\ damaged' \subseteq Capsules
    BY <1>0, <1>7, <2>2, UnlinkEffect DEF VaultTyped, Contained
  <2> QED
    BY <1>0, <2>1, <2>3 DEF VaultTyped
<1>8. CASE Seal(o)
  <2>1. UNCHANGED <<files, stored, swapped, damaged, lock, old, aged>> /\ Cleaning(o)
    BY <1>8 DEF Seal, NoMove, NoLock, Cleaning, At
  <2>2. op[o].cap \in Capsules /\ op[o].seen \in [Paths -> Contained]
    BY <2>1, CleanerFacts
  <2>3. CASE manifest' = [manifest EXCEPT ![op[o].cap].state = "sealed", ![op[o].cap].items = op[o].seen]
    <3> DEFINE c == op[o].cap
               r == [manifest[c] EXCEPT !.state = "sealed", !.items = op[o].seen]
    <3>1. manifest[c] \in Manifest
      BY <1>0, <2>2 DEF VaultTyped
    <3>2. r \in Manifest
      BY <2>2, <3>1 DEF Manifest
    <3>3. manifest' = [manifest EXCEPT ![c] = r]
      BY <1>0, <2>2, <2>3 DEF VaultTyped
    <3>4. manifest' \in [Capsules -> Manifest]
      BY <1>0, <2>2, <3>2, <3>3 DEF VaultTyped
    <3> QED
      BY <1>0, <2>1, <3>4 DEF VaultTyped
  <2> QED
    BY <1>0, <1>8, <2>1, <2>3, SealEffect DEF VaultTyped
<1>9. CASE Undo(o)
  <2>1. UNCHANGED <<files, stored, lock, old, aged>> /\ Cleaning(o)
    BY <1>9 DEF Undo, NoLock, NoMove, Cleaning, At
  <2>2. op[o].cap \in Capsules
    BY <2>1, CleanerFacts
  <2>3. manifest' \in [Capsules -> Manifest] /\ swapped' \subseteq Capsules
    BY <1>0, <1>9, <2>2, SetStateTyped, UndoEffect DEF VaultTyped, NoState
  <2>4. damaged' = damaged \/ damaged' = damaged \cup {op[o].cap}
    BY <1>9, UndoEffect
  <2> QED
    BY <1>0, <2>1, <2>2, <2>3, <2>4 DEF VaultTyped
<1>10. CASE Back(o)
  <2>1. UNCHANGED <<manifest, swapped, lock, old, aged>> /\ Cleaning(o) /\ op[o].at = "back"
    BY <1>10 DEF Back, NoLock, NoState, Cleaning, At
  <2>2. op[o].cap \in Capsules /\ Moved(o) # {} /\ Last(Moved(o)) \in Paths
    BY <2>1, CleanerFacts, CleanerMoved, LastMoved
  <2> QED
    BY <1>0, <1>10, <2>1, <2>2, BackEffect, PutsBackTyped, VaultTypedIf DEF VaultTyped
<1>11. CASE Put(o)
  <2>1. UNCHANGED <<manifest, swapped, lock, old, aged>> /\ Restoring(o) /\ op[o].todo # {}
        /\ op[o].at = "put"
    BY <1>11 DEF Put, NoLock, NoState, Restoring, At
  <2>2. op[o].cap \in Capsules /\ First(op[o].todo) \in Paths
    BY <2>1, RestorerFacts, RestorerFirst
  <2> QED
    BY <1>0, <1>11, <2>1, <2>2, PutEffect, PutsBackTyped, VaultTypedIf DEF VaultTyped
<1>12. CASE Restored(o)
  <2>1. UNCHANGED <<files, stored, lock, old, aged>> /\ Restoring(o)
    BY <1>12 DEF Restored, NoMove, NoLock, Restoring, At
  <2>2. op[o].cap \in Capsules
    BY <2>1, RestorerFacts
  <2>3. manifest' \in [Capsules -> Manifest] /\ swapped' \subseteq Capsules /\ damaged' \subseteq Capsules
    BY <1>0, <1>12, <2>2, SetStateTyped DEF Restored, VaultTyped, NoState, Close
  <2> QED
    BY <1>0, <2>1, <2>3 DEF VaultTyped
<1>13. CASE Purge(o)
  <2> DEFINE c == Last(op[o].todo)
  <2>1. UNCHANGED <<files, lock, old, aged>> /\ At(o, "purge")
    BY <1>13 DEF Purge, NoLock
  <2>2. op[o].todo \subseteq Capsules
    BY <2>1 DEF VaultInv, PurgersInv, PurgerOk
  <2>3. CASE NoVault
    BY <1>0, <2>1, <2>3 DEF NoVault, VaultTyped
  <2>4. CASE /\ op[o].todo # {} /\ stored' = [stored EXCEPT ![c] = Nothing]
             /\ SetState(c, "closed") /\ damaged' = damaged \ {c}
    <3>1. c \in Capsules
      BY <2>2, <2>4, LastOfCapsules
    <3>2. stored' \in [Capsules -> [Paths -> Contained]] /\ damaged' \subseteq Capsules
      BY <1>0, <2>4, <3>1, NothingTyped DEF VaultTyped
    <3>3. manifest' \in [Capsules -> Manifest] /\ swapped' \subseteq Capsules
      BY <1>0, <2>4, <3>1, SetStateTyped DEF VaultTyped
    <3> QED
      BY <1>0, <2>1, <3>2, <3>3 DEF VaultTyped
  <2> QED
    BY <1>13, <2>3, <2>4, PurgeEffect
<1> QED
  BY <1>2, <1>3, <1>4, <1>5, <1>6, <1>7, <1>8, <1>9, <1>10, <1>11, <1>12, <1>13 DEF Step

-----------------------------------------------------------------------------
\* The lock.

LEMMA LockHeldIf ==
  ASSUME LockHeld, NEW o \in Ops, Others(o), NoLock,
         op'[o].at # "break", op'[o].holds => op[o].holds
  PROVE  LockHeld'
  BY DEF LockHeld, Others, NoLock, At

\* One that removes the lock file while none of them was old is the only one that
\* has it.
LEMMA UnlockHeld ==
  ASSUME LockHeld, NEW o \in Ops, op[o].holds \/ At(o, "break"), Unlock(o), Others(o),
         op'[o].at # "break", ~op'[o].holds
  PROVE  LockHeld'
<1>1. ASSUME ~aged' PROVE Alone(o)
  <2>1. CASE aged
    BY <1>1, <2>1 DEF Unlock
  <2>2. CASE ~aged
    BY <2>2 DEF LockHeld, Alone
  <2> QED
    BY <2>1, <2>2
<1> QED
  BY <1>1 DEF LockHeld, Unlock, Alone, Others, At

LEMMA LockStep ==
  ASSUME Typed, VaultInv, LockHeld, NEW o \in Ops, Start(o) \/ Step(o) PROVE LockHeld'
<1>0. op[o].at \notin Work => ~op[o].holds
  BY DEF Typed, OpTyped, Operation
<1>1. CASE Acquire(o)
  <2>1. lock = Free /\ UNCHANGED aged
    BY <1>1 DEF Acquire
  <2>2. ~aged => \A q \in Ops : ~At(q, "break") /\ ~op[q].holds
    BY <2>1 DEF LockHeld
  <2>3. old' = FALSE
    BY <1>1 DEF Acquire, Enter
  <2>4. Others(o) /\ op'[o].at # "break" /\ (op'[o].holds => lock' = o)
    BY <1>1, AcquireEffect DEF Becomes
  <2> QED
    BY <2>1, <2>2, <2>3, <2>4 DEF LockHeld, Others, At
<1>2. CASE Locked(o)
  <2>1. NoLock /\ op[o].at = "lock" /\ ~op[o].holds
    BY <1>0, <1>2 DEF Locked, At, Work
  <2>2. CASE old
    BY <2>1, <2>2 DEF LockHeld, NoLock
  <2>3. CASE ~old
    BY <1>2, <2>1, <2>3, LockedEffect, LockHeldIf DEF Becomes
  <2> QED
    BY <2>2, <2>3
<1>3. CASE BreakLock(o)
  <2>1. At(o, "break") /\ Unlock(o) /\ ~op[o].holds
    BY <1>0, <1>3 DEF BreakLock, At, Work
  <2> QED
    BY <1>3, <2>1, BreakLockEffect, UnlockHeld DEF Becomes
<1>4. CASE Release(o)
  <2>1. CASE op[o].holds
    BY <1>4, <2>1, ReleaseEffect, UnlockHeld DEF Becomes, Release
  <2>2. CASE ~op[o].holds
    BY <1>4, <2>2, ReleaseEffect, LockHeldIf DEF Becomes, Release
  <2> QED
    BY <2>1, <2>2
<1>5. CASE ReleaseEarly(o)
  <2>1. op[o].holds /\ Unlock(o) /\ op[o].at # "break"
    BY <1>5 DEF ReleaseEarly
  <2> QED
    BY <1>5, <2>1, ReleaseEarlyEffect, UnlockHeld DEF Becomes
<1>6. ASSUME NEW c \in Capsules, Restore(o, c) PROVE LockHeld'
  BY <1>6, RestoreEffect, LockHeldIf DEF Becomes, Restore, Begin
<1>7. CASE Clean(o)
  BY <1>7, CleanEffect, LockHeldIf DEF Becomes, Clean, Begin
<1>8. CASE StopSession(o)
  BY <1>8, StopSessionEffect, LockHeldIf DEF Becomes, StopSession, Begin
<1>9. CASE Pass(o)
  BY <1>9, PassEffect, LockHeldIf DEF Becomes, Pass
<1>10. CASE Scan(o)
  BY <1>10, ScanEffect, LockHeldIf DEF Becomes, Scan
<1>11. CASE Prepare(o)
  BY <1>11, PrepareEffect, LockHeldIf DEF Becomes, Creates, Prepare
<1>12. CASE Check(o)
  BY <1>12, CheckEffect, LockHeldIf DEF Becomes, Check
<1>13. CASE Hash(o)
  BY <1>13, HashEffect, CleanerFirst, LockHeldIf DEF Becomes, Hash, At
<1>14. CASE Move(o)
  BY <1>14, MoveEffect, LockHeldIf DEF Becomes, Move
<1>15. CASE Unlink(o)
  BY <1>15, UnlinkEffect, LockHeldIf DEF Becomes, Unlink
<1>16. CASE Seal(o)
  BY <1>16, SealEffect, LockHeldIf DEF Becomes, Seal
<1>17. CASE Undo(o)
  BY <1>17, UndoEffect, LockHeldIf DEF Becomes, Undo
<1>18. CASE Back(o)
  BY <1>18, BackEffect, CleanerMoved, LockHeldIf DEF Becomes, Back, At
<1>19. CASE ReadManifest(o)
  BY <1>19, ReadManifestEffect, LockHeldIf DEF Becomes, ReadManifest
<1>20. CASE Verify(o)
  BY <1>20, VerifyEffect, RestorerFirst, LockHeldIf DEF Becomes, Verify, At
<1>21. CASE Put(o)
  BY <1>21, PutEffect, LockHeldIf DEF Becomes, Put
<1>22. CASE Restored(o)
  BY <1>22, RestoredEffect, LockHeldIf DEF Becomes, Restored
<1>23. CASE Purge(o)
  BY <1>0, <1>23, PurgeEffect, LockHeldIf DEF Becomes, Purge, At, Work
<1> QED
  BY <1>1, <1>2, <1>3, <1>4, <1>5, <1>6, <1>7, <1>8, <1>9, <1>10, <1>11, <1>12, <1>13, <1>14, <1>15,
     <1>16, <1>17, <1>18, <1>19, <1>20, <1>21, <1>22, <1>23 DEF Start, Step

-----------------------------------------------------------------------------
\* The paths found free.

LEMMA FreeIf ==
  ASSUME FreeInv, NEW o \in Ops, Others(o),
         \/ FreeOk(o)'
         \/ op'[o].at \notin {"verify", "put", "back"}
         \/ /\ op'[o].at = op[o].at /\ op'[o].todo = op[o].todo
            /\ op'[o].seen = op[o].seen /\ op'[o].free = op[o].free
  PROVE  FreeInv'
<1>1. ASSUME NEW q \in Ops,
             op'[q].at = op[q].at, op'[q].todo = op[q].todo,
             op'[q].seen = op[q].seen, op'[q].free = op[q].free
      PROVE  FreeOk(q)'
  <2>1. Present(op[q].seen)' = Present(op[q].seen) /\ Moved(q)' = Moved(q)
    BY <1>1 DEF Present, Moved
  <2> QED
    BY <1>1, <2>1 DEF FreeInv, FreeOk, At
<1>2. \A q \in Ops \ {o} : FreeOk(q)'
  BY <1>1 DEF Others
<1>3. FreeOk(o)'
  BY <1>1 DEF FreeOk, At
<1> QED
  BY <1>2, <1>3 DEF FreeInv

LEMMA FreeStep ==
  ASSUME Typed, VaultInv, FreeInv, NEW o \in Ops, Start(o) \/ Step(o) PROVE FreeInv'
<1>1. CASE Acquire(o)
  BY <1>1, AcquireEffect, FreeIf DEF Becomes
<1>2. CASE Locked(o)
  BY <1>2, LockedEffect, FreeIf DEF Becomes
<1>3. CASE BreakLock(o)
  BY <1>3, BreakLockEffect, FreeIf DEF Becomes
<1>4. CASE Release(o)
  BY <1>4, ReleaseEffect, FreeIf DEF Becomes
<1>5. CASE ReleaseEarly(o)
  BY <1>5, ReleaseEarlyEffect, FreeIf DEF Becomes
<1>6. ASSUME NEW c \in Capsules, Restore(o, c) PROVE FreeInv'
  BY <1>6, RestoreEffect, FreeIf DEF Becomes
<1>7. CASE Clean(o)
  BY <1>7, CleanEffect, FreeIf DEF Becomes
<1>8. CASE StopSession(o)
  BY <1>8, StopSessionEffect, FreeIf DEF Becomes
<1>9. CASE Pass(o)
  BY <1>9, PassEffect, FreeIf DEF Becomes
<1>10. CASE Scan(o)
  BY <1>10, ScanEffect, FreeIf DEF Becomes
<1>11. CASE Prepare(o)
  BY <1>11, PrepareEffect, FreeIf DEF Becomes, Creates
<1>12. CASE Check(o)
  BY <1>12, CheckEffect, FreeIf DEF Becomes
<1>13. CASE Hash(o)
  BY <1>13, HashEffect, CleanerFirst, FreeIf DEF Becomes, Hash, At
<1>14. CASE Move(o)
  BY <1>14, MoveEffect, FreeIf DEF Becomes
<1>15. CASE Unlink(o)
  BY <1>15, UnlinkEffect, FreeIf DEF Becomes
<1>16. CASE Seal(o)
  BY <1>16, SealEffect, FreeIf DEF Becomes
<1>17. CASE Undo(o)
  <2> DEFINE p == Last(Moved(o))
             c == op[o].cap
  <2>1. CASE Becomes(o, op[o].kind, "back", c, op[o].todo, op[o].seen, op[o].free \cup {p}, op[o].holds)
    <3>1. Moved(o)' = Moved(o) /\ op'[o].free = op[o].free \cup {p} /\ op'[o].at = "back"
      BY <2>1 DEF Becomes, Moved, Present
    <3>2. FreeOk(o)'
      BY <3>1 DEF FreeOk, At
    <3> QED
      BY <2>1, <3>2, FreeIf DEF Becomes
  <2> QED
    BY <1>17, <2>1, UndoEffect, FreeIf DEF Becomes
<1>18. CASE Back(o)
  BY <1>18, BackEffect, CleanerMoved, FreeIf DEF Becomes, Back, At
<1>19. CASE ReadManifest(o)
  <2> DEFINE m == manifest[op[o].cap]
  <2>1. CASE Becomes(o, op[o].kind, "verify", op[o].cap, Present(m.items), m.items, op[o].free, op[o].holds)
    <3>1. op'[o].at = "verify" /\ op'[o].seen = m.items /\ op'[o].todo = Present(m.items)
      BY <2>1 DEF Becomes
    <3>2. FreeOk(o)'
      BY <3>1 DEF FreeOk, At, Present
    <3> QED
      BY <2>1, <3>2, FreeIf DEF Becomes
  <2> QED
    BY <1>19, <2>1, ReadManifestEffect, FreeIf DEF Becomes
<1>20. CASE Verify(o)
  <2> DEFINE p == First(op[o].todo)
             c == op[o].cap
  <2>1. At(o, "verify") /\ FreeOk(o)
    BY <1>20 DEF Verify, FreeInv
  <2>2. Present(op[o].seen) \ op[o].todo \subseteq op[o].free
    BY <2>1 DEF FreeOk
  <2>3. CASE /\ op[o].todo = {}
             /\ Becomes(o, op[o].kind, "put", c, Present(op[o].seen), op[o].seen, op[o].free, op[o].holds)
    <3>1. op'[o].at = "put" /\ op'[o].todo \subseteq op'[o].free
      BY <2>2, <2>3 DEF Becomes
    <3>2. FreeOk(o)'
      BY <3>1 DEF FreeOk, At
    <3> QED
      BY <2>3, <3>2, FreeIf DEF Becomes
  <2>4. CASE Becomes(o, op[o].kind, "verify", c, op[o].todo \ {p}, op[o].seen,
                     op[o].free \cup {p}, op[o].holds)
    <3>1. /\ op'[o].at = "verify" /\ op'[o].seen = op[o].seen
          /\ op'[o].todo = op[o].todo \ {p} /\ op'[o].free = op[o].free \cup {p}
      BY <2>4 DEF Becomes
    <3>2. FreeOk(o)'
      BY <2>2, <3>1 DEF FreeOk, At, Present
    <3> QED
      BY <2>4, <3>2, FreeIf DEF Becomes
  <2> QED
    BY <1>20, <2>1, <2>3, <2>4, VerifyEffect, RestorerFirst, FreeIf DEF Becomes, At
<1>21. CASE Put(o)
  <2> DEFINE p == First(op[o].todo)
             c == op[o].cap
  <2>1. At(o, "put") /\ FreeOk(o)
    BY <1>21 DEF Put, FreeInv
  <2>2. CASE Becomes(o, op[o].kind, "put", c, op[o].todo \ {p}, op[o].seen, op[o].free, op[o].holds)
    <3>1. op'[o].at = "put" /\ op'[o].todo \subseteq op'[o].free
      BY <2>1, <2>2 DEF Becomes, FreeOk
    <3>2. FreeOk(o)'
      BY <3>1 DEF FreeOk, At
    <3> QED
      BY <2>2, <3>2, FreeIf DEF Becomes
  <2> QED
    BY <1>21, <2>2, PutEffect, FreeIf DEF Becomes
<1>22. CASE Restored(o)
  BY <1>22, RestoredEffect, FreeIf DEF Becomes
<1>23. CASE Purge(o)
  BY <1>23, PurgeEffect, FreeIf DEF Becomes, Purge, At
<1> QED
  BY <1>1, <1>2, <1>3, <1>4, <1>5, <1>6, <1>7, <1>8, <1>9, <1>10, <1>11, <1>12, <1>13, <1>14, <1>15,
     <1>16, <1>17, <1>18, <1>19, <1>20, <1>21, <1>22, <1>23 DEF Start, Step

-----------------------------------------------------------------------------
\* The invariant.

LEMMA InvInit == Init => Inv
<1> SUFFICES ASSUME Init PROVE Inv
  OBVIOUS
<1>1. op \in [Ops -> Operation] /\ \A o \in Ops : op[o] = Idle
  BY NothingTyped DEF Init
<1>2. \A o \in Ops : /\ op[o].at = "idle" /\ op[o].kind = "none" /\ op[o].holds = FALSE
  BY <1>1 DEF Idle
<1>3. \A c \in Capsules : stored[c] = Nothing /\ manifest[c].state = "none"
  BY DEF Init
<1>4. Typed
  <2>1. OpTyped
    BY <1>1, <1>2 DEF OpTyped
  <2>2. manifest \in [Capsules -> Manifest]
    BY NothingTyped DEF Init, Manifest
  <2>3. stored \in [Capsules -> [Paths -> Contained]] /\ files \in [Paths -> Contained]
    BY NothingTyped DEF Init, Contained
  <2>4. VaultTyped
    BY <2>2, <2>3 DEF Init, VaultTyped
  <2> QED
    BY <2>1, <2>4 DEF Typed
<1>5. LockHeld
  BY <1>2 DEF Init, LockHeld, At
<1>6. VaultInv
  <2>1. CleanersInv /\ RestorersInv /\ PurgersInv
    BY <1>2 DEF CleanersInv, RestorersInv, PurgersInv, Cleaning, Restoring, At
  <2>2. CapsulesInv
    BY <1>3 DEF CapsulesInv, CapsuleOk, Empty, Abandoned, Partial, Full
  <2> QED
    BY <2>1, <2>2 DEF VaultInv
<1>7. FreeInv
  BY <1>2 DEF FreeInv, FreeOk, At
<1> QED
  BY <1>4, <1>5, <1>6, <1>7 DEF Inv

\* Nothing but a file or the age of the lock is changed.
LEMMA InvSame ==
  ASSUME Inv, UNCHANGED <<stored, manifest, lock, op, swapped, damaged>>,
         files' \in [Paths -> Contained], old' \in BOOLEAN, aged' \in BOOLEAN,
         (old' => aged') /\ (aged => aged')
  PROVE  Inv'
<1>0. Typed /\ OpTyped /\ VaultTyped /\ LockHeld /\ VaultInv /\ FreeInv
  BY DEF Inv, Typed
<1>1. Typed'
  BY <1>0 DEF Typed, OpTyped, VaultTyped
<1>2. LockHeld'
  BY <1>0 DEF LockHeld, At
<1>3. VaultInv'
  BY <1>0, SameVault
<1>4. FreeInv'
  BY <1>0 DEF FreeInv, FreeOk, At, Present, Moved
<1> QED
  BY <1>1, <1>2, <1>3, <1>4 DEF Inv

LEMMA InvUser ==
  ASSUME Inv, NEW p \in Paths, UserWrites(p) PROVE Inv'
<1>1. VaultTyped /\ LockHeld
  BY DEF Inv, Typed
<1>2. UNCHANGED <<stored, manifest, lock, old, op, aged, swapped, damaged>>
  BY DEF UserWrites, NoVault
<1>3. files' \in [Paths -> Contained]
  BY <1>1 DEF UserWrites, VaultTyped, Contained
<1> QED
  BY <1>1, <1>2, <1>3, InvSame DEF VaultTyped, LockHeld

LEMMA InvAge == ASSUME Inv, Age PROVE Inv'
<1>1. VaultTyped
  BY DEF Inv, Typed
<1> QED
  BY <1>1, InvSame DEF Age, VaultTyped

LEMMA InvCrash ==
  ASSUME Inv, NEW o \in Ops, Crash(o) PROVE Inv'
<1>0. Typed /\ OpTyped /\ VaultTyped /\ LockHeld /\ VaultInv /\ FreeInv
  BY DEF Inv, Typed
<1>1. /\ UNCHANGED <<files, stored, manifest, old, aged, swapped>>
      /\ lock' = (IF lock = o THEN Left ELSE lock)
      /\ damaged' = damaged \cup ({op[o].cap} \cap Capsules)
  BY DEF Crash
<1>2. Becomes(o, "none", "idle", 0, {}, Nothing, {}, FALSE)
  BY <1>0, CrashEffect
<1>3. OpTyped'
  BY <1>0, <1>2, OpTypedIf DEF Becomes
<1>4. VaultTyped'
  BY <1>0, <1>1 DEF VaultTyped
<1>5. LockHeld'
  BY <1>0, <1>1, <1>2 DEF LockHeld, Becomes, Others, At
<1>6. FreeInv'
  BY <1>0, <1>2, FreeIf DEF Becomes
<1> QED
  BY <1>0, <1>3, <1>4, <1>5, <1>6, CrashVault DEF Inv, Typed

LEMMA InvNext == Inv /\ [Next]_vars => Inv'
<1> SUFFICES ASSUME Inv, [Next]_vars PROVE Inv'
  OBVIOUS
<1>0. Typed /\ LockHeld /\ VaultInv /\ FreeInv
  BY DEF Inv
<1>1. ASSUME NEW o \in Ops, Start(o) \/ Step(o) PROVE Inv'
  <2>1. OpTyped' /\ VaultTyped'
    BY <1>0, <1>1, OpTypedStep, VaultTypedStep
  <2>2. LockHeld'
    BY <1>0, <1>1, LockStep
  <2>3. VaultInv'
    BY <1>0, <1>1, StartVault, StepVault
  <2>4. FreeInv'
    BY <1>0, <1>1, FreeStep
  <2> QED
    BY <2>1, <2>2, <2>3, <2>4 DEF Inv, Typed
<1>2. CASE UNCHANGED vars
  <2>1. files \in [Paths -> Contained] /\ old \in BOOLEAN /\ aged \in BOOLEAN /\ (old => aged)
    BY <1>0 DEF Typed, VaultTyped, LockHeld
  <2>2. UNCHANGED <<files, stored, manifest, lock, old, op, aged, swapped, damaged>>
    BY <1>2 DEF vars
  <2> QED
    BY <2>1, <2>2, InvSame
<1> QED
  BY <1>1, <1>2, InvCrash, InvUser, InvAge DEF Next

LEMMA Invariance == Spec => []Inv
<1> QED
  BY InvInit, InvNext, PTL DEF Spec

-----------------------------------------------------------------------------
\* The theorems.

\* Types, and that a cleanup only works through files it has seen.
THEOREM TypeCorrect == Spec => []TypeOK
<1>1. Inv => TypeOK
  <2> SUFFICES ASSUME Inv PROVE TypeOK
    OBVIOUS
  <2>1. OpTyped /\ VaultTyped /\ VaultInv
    BY DEF Inv, Typed
  <2>2. \A o \in Ops : op[o].at \in Points /\ op[o].cap \in Capsules \cup {0}
    BY <2>1 DEF OpTyped, Operation
  <2>3. \A o \in Ops : op[o].at \in {"check", "hash", "move", "unlink"} =>
                         op[o].todo \subseteq Present(op[o].seen)
    BY <2>1 DEF VaultInv, CleanersInv, Cleaning, CleanerOk
  <2>4. \A c \in Capsules :
          /\ manifest[c].state \in {"none", "preparing", "sealed", "closed"}
          /\ manifest[c].items \in [Paths -> Contained]
    BY <2>1 DEF VaultTyped, Manifest
  <2> QED
    BY <2>1, <2>2, <2>3, <2>4 DEF TypeOK, VaultTyped, Contained, Points
<1> QED
  BY <1>1, Invariance, PTL

\* While no lock file has got 30 minutes old, or again once everybody of that time is
\* done, it belongs to the one operation that took it: whatever dies or fails.
THEOREM LockExclusion == Spec => []LockIsExclusive
<1>1. Inv => LockIsExclusive
  BY DEF Inv, LockHeld, LockIsExclusive
<1> QED
  BY <1>1, Invariance, PTL

\* A capsule nobody works on is sealed with all its files, as they were hashed unless
\* one was replaced before its move, or holds nothing: whatever user programs write
\* and however many operations have the lock.
THEOREM VaultSoundness == Spec => []VaultIsSound
<1>1. Inv => VaultIsSound
  <2> SUFFICES ASSUME Inv, NEW c \in Capsules \ damaged,
                      \A o \in Ops : op[o].cap # c \/ op[o].at \in {"lock", "break", "manifest", "over"}
               PROVE  IF manifest[c].state = "sealed"
                      THEN /\ Present(stored[c]) = Present(manifest[c].items)
                           /\ c \notin swapped => stored[c] = manifest[c].items
                      ELSE stored[c] = Nothing
    BY DEF VaultIsSound
  <2>1. CapsuleOk(c) /\ VaultTyped
    BY DEF Inv, Typed, VaultInv, CapsulesInv
  <2>2. ~\E o \in Ops : (Cleaning(o) \/ At(o, "put")) /\ op[o].cap = c
    BY DEF Cleaning, At
  <2>3. CASE manifest[c].state = "sealed"
    <3>1. \A p \in Paths : manifest[c].items[p] # Absent <=> stored[c][p] # Absent
      BY <2>1, <2>2, <2>3 DEF CapsuleOk, Partial, Full
    <3>2. c \notin swapped => \A p \in Paths : stored[c][p] = manifest[c].items[p]
      BY <2>1, <2>3, <3>1 DEF CapsuleOk, Partial
    <3>3. stored[c] \in [Paths -> Contained] /\ manifest[c].items \in [Paths -> Contained]
      BY <2>1 DEF VaultTyped, Manifest
    <3> QED
      BY <2>3, <3>1, <3>2, <3>3 DEF Present
  <2>4. CASE manifest[c].state # "sealed"
    <3>1. manifest[c].state \in {"none", "preparing", "closed"}
      BY <2>1, <2>4 DEF VaultTyped, Manifest
    <3> QED
      BY <2>1, <2>2, <2>4, <3>1 DEF CapsuleOk, Empty, Abandoned
  <2> QED
    BY <2>3, <2>4
<1> QED
  BY <1>1, Invariance, PTL

-----------------------------------------------------------------------------
\* Nothing is lost.

\* The capsules from which a content of a path can be had back.
Holder(c, p, x) == stored[c][p] = x /\ ~Expired(c) /\ ~Copying(c, p)
Holders(p, x) == {c \in Capsules : Holder(c, p, x)}
Here(p, x) == IF files[p] = x THEN 1 ELSE 0

LEMMA KeptIs ==
  ASSUME NEW p \in Paths, NEW x \in Contents
  PROVE  /\ Kept(p, x) = Here(p, x) + Cardinality(Holders(p, x))
         /\ Kept(p, x)' = Here(p, x)' + Cardinality(Holders(p, x)')
         /\ Here(p, x) \in {0, 1} /\ Here(p, x)' \in {0, 1}
  BY DEF Kept, Here, Holders, Holder

LEMMA HoldersFinite ==
  ASSUME NEW H \in SUBSET Capsules PROVE IsFiniteSet(H) /\ Cardinality(H) \in Nat
<1>1. IsFiniteSet(Capsules)
  BY FS_Interval DEF Capsules, CleanerAssumption
<1> QED
  BY <1>1, FS_Subset, FS_CardinalityType

\* No copy goes.
LEMMA KeptStays ==
  ASSUME NEW p \in Paths, NEW x \in Contents, files[p] = x => files'[p] = x,
         \A c \in Capsules : Holder(c, p, x) => Holder(c, p, x)'
  PROVE  Kept(p, x)' >= Kept(p, x)
<1> DEFINE H == Holders(p, x)
           K == Holders(p, x)'
<1>1. H \in SUBSET Capsules /\ K \in SUBSET Capsules /\ H \subseteq K
  BY DEF Holders
<1>2. Here(p, x)' >= Here(p, x)
  BY DEF Here
<1> HIDE DEF H, K
<1>3. Cardinality(H) <= Cardinality(K) /\ Cardinality(H) \in Nat /\ Cardinality(K) \in Nat
  BY <1>1, HoldersFinite, FS_Subset
<1> USE DEF H, K
<1> QED
  BY <1>2, <1>3, KeptIs

\* One goes from its path, and a capsule that had none has one now.
LEMMA KeptStored ==
  ASSUME NEW p \in Paths, NEW x \in Contents, NEW c \in Capsules,
         ~Holder(c, p, x), Holder(c, p, x)',
         \A d \in Capsules \ {c} : Holder(d, p, x) => Holder(d, p, x)'
  PROVE  Kept(p, x)' >= Kept(p, x)
<1> DEFINE H == Holders(p, x)
           K == Holders(p, x)'
<1>1. H \in SUBSET Capsules /\ K \in SUBSET Capsules /\ H \cup {c} \subseteq K /\ c \notin H
  BY DEF Holders
<1> HIDE DEF H, K
<1>2. Cardinality(H \cup {c}) = Cardinality(H) + 1 /\ Cardinality(H) \in Nat
  BY <1>1, HoldersFinite, FS_AddElement
<1>3. Cardinality(H \cup {c}) <= Cardinality(K) /\ Cardinality(K) \in Nat
  BY <1>1, HoldersFinite, FS_Subset
<1> USE DEF H, K
<1> QED
  BY <1>2, <1>3, KeptIs

\* One comes back from a capsule to a path that had none.
LEMMA KeptBack ==
  ASSUME NEW p \in Paths, NEW x \in Contents, NEW c \in Capsules,
         files[p] # x, files'[p] = x,
         \A d \in Capsules \ {c} : Holder(d, p, x) => Holder(d, p, x)'
  PROVE  Kept(p, x)' >= Kept(p, x)
<1> DEFINE H == Holders(p, x)
           K == Holders(p, x)'
<1>1. H \in SUBSET Capsules /\ K \in SUBSET Capsules /\ H \subseteq K \cup {c}
  BY DEF Holders
<1>2. Here(p, x)' = 1 /\ Here(p, x) = 0
  BY DEF Here
<1> HIDE DEF H, K
<1>3. IsFiniteSet(K) /\ Cardinality(K) \in Nat /\ Cardinality(H) \in Nat
  BY <1>1, HoldersFinite
<1>4. IsFiniteSet(K \cup {c}) /\ Cardinality(K \cup {c}) <= Cardinality(K) + 1
      /\ Cardinality(K \cup {c}) \in Nat
  <2>1. IsFiniteSet(K \cup {c})
    BY <1>3, FS_AddElement
  <2>2. Cardinality(K \cup {c}) = IF c \in K THEN Cardinality(K) ELSE Cardinality(K) + 1
    BY <1>3, FS_AddElement
  <2> QED
    BY <1>3, <2>1, <2>2, FS_CardinalityType
<1>5. Cardinality(H) <= Cardinality(K \cup {c})
  BY <1>1, <1>4, FS_Subset
<1> USE DEF H, K
<1> QED
  BY <1>2, <1>3, <1>4, <1>5, KeptIs

\* A capsule that is not listed for a purge, and whose file is not being copied, stays
\* so in a step of o that neither lists nor copies.
LEMMA HolderStays ==
  ASSUME NEW o \in Ops, Others(o), NEW d \in Capsules, NEW q \in Paths, NEW x,
         At(o, "purge")' => At(o, "purge") /\ op'[o].todo \subseteq op[o].todo,
         At(o, "unlink")' => op'[o].cap # d \/ First(op'[o].todo) # q,
         Holder(d, q, x), stored'[d][q] = x
  PROVE  Holder(d, q, x)'
<1>1. ~Expired(d)'
  BY DEF Holder, Expired, Others, At
<1>2. ~Copying(d, q)'
  BY DEF Holder, Copying, Others, At
<1> QED
  BY <1>1, <1>2 DEF Holder

\* A capsule is nobody's but its cleanup's.
LEMMA CleanersOwn ==
  ASSUME Typed, VaultInv, NEW o \in Ops, Cleaning(o), Others(o), NEW p \in Paths,
         ~At(o, "purge")', ~At(o, "unlink")', NEW c \in Capsules, c = op[o].cap
  PROVE  ~Expired(c)' /\ ~Copying(c, p)'
<1>1. manifest[c].state = "preparing"
  BY CleanerFacts
<1>2. \A q \in Ops \ {o} : op'[q] = op[q] /\ ~(At(q, "purge") /\ c \in op[q].todo)
  BY <1>1 DEF VaultInv, PurgersInv, PurgerOk, Others
<1>3. \A q \in Ops \ {o} : ~(At(q, "unlink") /\ op[q].cap = c)
  BY DEF VaultInv, CleanersInv, Cleaning, At
<1> QED
  BY <1>2, <1>3 DEF Expired, Copying, At

\* What a step of o may never do.
KeepsAll(o) ==
  \A p \in Paths, x \in Contents :
    Kept(p, x)' >= Kept(p, x) \/ (x = files[p] /\ Overtaken(o, p))

LEMMA MoveKeeps ==
  ASSUME Inv, NEW o \in Ops, Move(o) PROVE KeepsAll(o) \/ NoMove
<1> SUFFICES ASSUME ~NoMove, NEW q \in Paths, NEW x \in Contents
             PROVE  Kept(q, x)' >= Kept(q, x)
  BY DEF KeepsAll
<1> DEFINE p == First(op[o].todo)
<1>0. Typed /\ VaultTyped /\ VaultInv /\ Cleaning(o) /\ At(o, "move")
  BY DEF Inv, Typed, Move, Cleaning, At
<1> SUFFICES ASSUME NEW c \in Capsules, c = op[o].cap PROVE Kept(q, x)' >= Kept(q, x)
  BY <1>0, CleanerFacts
<1>1. p \in op[o].todo /\ p \in Paths /\ HoldsMoved(o)
  BY <1>0, CleanerFacts, CleanerFirst DEF CleanerOk, At
<1>2. stored[c][p] = Absent /\ x # Absent
  BY <1>0, <1>1 DEF HoldsMoved, Has, Moved, At
<1>3. files[p] \in Contained
  BY <1>0, <1>1 DEF VaultTyped
<1>4. Stores(o, p, c) => /\ stored'[c][p] = files[p]
                         /\ \A r \in Paths \ {p} : stored'[c][r] = stored[c][r]
                         /\ \A d \in Capsules \ {c} : stored'[d] = stored[d]
  BY <1>0, <1>1, <1>3, StoreAt DEF Stores, VaultTyped
<1>5. CASE /\ Stores(o, p, c) /\ files' = [files EXCEPT ![p] = Absent]
           /\ Becomes(o, op[o].kind, "check", c, op[o].todo \ {p}, op[o].seen, op[o].free, op[o].holds)
  <2>1. Others(o) /\ ~At(o, "purge")' /\ ~At(o, "unlink")'
    BY <1>5 DEF Becomes, At
  <2>2. \A r \in Paths \ {p} : files'[r] = files[r]
    BY <1>0, <1>5 DEF VaultTyped
  <2>3. \A d \in Capsules : d # c \/ q # p => (Holder(d, q, x) => Holder(d, q, x)')
    BY <1>4, <1>5, <2>1, HolderStays DEF Holder
  <2>4. q = p => ~Holder(c, q, x)
    BY <1>2 DEF Holder
  <2>5. CASE q = p /\ x = files[p]
    <3>1. Holder(c, q, x)'
      BY <1>0, <1>1, <1>4, <1>5, <2>1, <2>5, CleanersOwn DEF Holder
    <3> QED
      BY <1>1, <2>3, <2>4, <2>5, <3>1, KeptStored
  <2>6. CASE q # p \/ x # files[p]
    <3>1. files[q] = x => files'[q] = x
      BY <2>2, <2>6
    <3>2. \A d \in Capsules : Holder(d, q, x) => Holder(d, q, x)'
      BY <2>3, <2>4
    <3> QED
      BY <3>1, <3>2, KeptStays
  <2> QED
    BY <2>5, <2>6
<1>6. CASE /\ Stores(o, p, c) /\ UNCHANGED files
           /\ Becomes(o, op[o].kind, "unlink", c, op[o].todo, op[o].seen, op[o].free, op[o].holds)
  <2>1. Others(o) /\ ~At(o, "purge")' /\ op'[o].cap = c /\ First(op'[o].todo) = p
    BY <1>6 DEF Becomes, At
  <2>2. \A d \in Capsules : d # c \/ q # p => (Holder(d, q, x) => Holder(d, q, x)')
    BY <1>4, <1>6, <2>1, HolderStays DEF Holder
  <2>3. ~Holder(c, p, x)
    BY <1>2 DEF Holder
  <2>4. \A d \in Capsules : Holder(d, q, x) => Holder(d, q, x)'
    BY <2>2, <2>3
  <2> QED
    BY <1>6, <2>4, KeptStays
<1>7. \/ /\ Stores(o, p, op[o].cap) /\ files' = [files EXCEPT ![p] = Absent]
         /\ Becomes(o, op[o].kind, "check", op[o].cap, op[o].todo \ {p}, op[o].seen, op[o].free,
                    op[o].holds)
      \/ /\ Stores(o, p, op[o].cap) /\ UNCHANGED files
         /\ Becomes(o, op[o].kind, "unlink", op[o].cap, op[o].todo, op[o].seen, op[o].free, op[o].holds)
  BY <1>0, MoveEffect
<1> QED
  BY <1>5, <1>6, <1>7

LEMMA UnlinkKeeps ==
  ASSUME Inv, NEW o \in Ops, Unlink(o) PROVE KeepsAll(o) \/ NoMove
<1> SUFFICES ASSUME ~NoMove, NEW q \in Paths, NEW x \in Contents,
                    ~(x = files[q] /\ Overtaken(o, q))
             PROVE  Kept(q, x)' >= Kept(q, x)
  BY DEF KeepsAll
<1> DEFINE p == First(op[o].todo)
<1>0. Typed /\ VaultTyped /\ VaultInv /\ Cleaning(o) /\ At(o, "unlink") /\ UNCHANGED stored
  BY DEF Inv, Typed, Unlink, Cleaning, At
<1> SUFFICES ASSUME NEW c \in Capsules, c = op[o].cap PROVE Kept(q, x)' >= Kept(q, x)
  BY <1>0, CleanerFacts
<1>1. p \in op[o].todo /\ p \in Paths
  BY <1>0, CleanerFirst DEF At
<1>2. /\ files' = [files EXCEPT ![p] = Absent]
      /\ Becomes(o, op[o].kind, "check", c, op[o].todo \ {p}, op[o].seen, op[o].free, op[o].holds)
  BY <1>0, UnlinkEffect DEF NoMove
<1>3. Others(o) /\ ~At(o, "purge")' /\ ~At(o, "unlink")'
  BY <1>2 DEF Becomes, At
<1>4. \A r \in Paths \ {p} : files'[r] = files[r]
  BY <1>0, <1>2 DEF VaultTyped
<1>5. \A d \in Capsules : Holder(d, q, x) => Holder(d, q, x)'
  BY <1>0, <1>3, HolderStays DEF Holder
<1>6. CASE q = p /\ x = files[p]
  <2>1. stored[c][p] = x
    BY <1>0, <1>6 DEF Overtaken
  <2>2. ~Holder(c, q, x)
    BY <1>0, <1>6 DEF Holder, Copying
  <2>3. Holder(c, q, x)'
    BY <1>0, <1>1, <1>3, <1>6, <2>1, CleanersOwn DEF Holder
  <2> QED
    BY <1>1, <1>5, <1>6, <2>2, <2>3, KeptStored
<1>7. CASE q # p \/ x # files[p]
  BY <1>4, <1>5, <1>7, KeptStays
<1> QED
  BY <1>6, <1>7

\* A file goes from a capsule to a path that was found free.
LEMMA BackKeeps ==
  ASSUME VaultTyped, NEW o \in Ops, NEW c \in Capsules, NEW p \in Paths, PutsBack(p, c), Others(o),
         op[o].at \in {"back", "put"}, p \in op[o].free, ~At(o, "purge")', ~At(o, "unlink")'
  PROVE  KeepsAll(o) \/ NoMove
<1> SUFFICES ASSUME ~NoMove, NEW q \in Paths, NEW x \in Contents,
                    ~(x = files[q] /\ Overtaken(o, q))
             PROVE  Kept(q, x)' >= Kept(q, x)
  BY DEF KeepsAll
<1>1. files' = [files EXCEPT ![p] = stored[c][p]]
      /\ (stored' = [stored EXCEPT ![c][p] = Absent] \/ UNCHANGED stored)
  BY DEF PutsBack
<1>2. files'[p] = stored[c][p] /\ \A r \in Paths \ {p} : files'[r] = files[r]
  BY <1>1 DEF VaultTyped
<1>3. /\ \A r \in Paths \ {p} : stored'[c][r] = stored[c][r]
      /\ \A d \in Capsules \ {c} : stored'[d] = stored[d]
  BY <1>1 DEF VaultTyped
<1>4. \A d \in Capsules : d # c \/ q # p => (Holder(d, q, x) => Holder(d, q, x)')
  BY <1>3, HolderStays DEF Holder
<1>5. q = p => x # files[p]
  <2>1. files[p] # Absent => Overtaken(o, p)
    BY DEF Overtaken, At
  <2> QED
    BY <2>1
<1>6. CASE q = p /\ x = stored[c][p]
  BY <1>2, <1>4, <1>5, <1>6, KeptBack
<1>7. CASE q # p \/ x # stored[c][p]
  <2>1. files[q] = x => files'[q] = x
    BY <1>2, <1>5
  <2>2. \A d \in Capsules : Holder(d, q, x) => Holder(d, q, x)'
    BY <1>4, <1>7 DEF Holder
  <2> QED
    BY <2>1, <2>2, KeptStays
<1> QED
  BY <1>6, <1>7

LEMMA PurgeKeeps ==
  ASSUME Inv, NEW o \in Ops, Purge(o) PROVE KeepsAll(o) \/ NoMove
<1> SUFFICES ASSUME ~NoMove, NEW q \in Paths, NEW x \in Contents
             PROVE  Kept(q, x)' >= Kept(q, x)
  BY DEF KeepsAll
<1> DEFINE c == Last(op[o].todo)
<1>0. Typed /\ VaultTyped /\ VaultInv /\ At(o, "purge") /\ UNCHANGED files
  BY DEF Inv, Typed, Purge
<1>1. PurgerOk(o)
  BY <1>0 DEF VaultInv, PurgersInv
<1>2. /\ op[o].todo # {} /\ stored' = [stored EXCEPT ![c] = Nothing]
      /\ Becomes(o, op[o].kind, "purge", op[o].cap, op[o].todo \ {c}, op[o].seen, op[o].free, op[o].holds)
  BY <1>0, PurgeEffect DEF NoMove, NoVault
<1>3. c \in op[o].todo
  BY <1>1, <1>2, LastOfCapsules DEF PurgerOk
<1>4. Others(o) /\ op'[o].todo \subseteq op[o].todo /\ ~At(o, "unlink")'
  BY <1>2 DEF Becomes, At
<1>5. \A d \in Capsules \ {c} : stored'[d] = stored[d]
  BY <1>0, <1>2 DEF VaultTyped
<1>6. ~Holder(c, q, x)
  BY <1>0, <1>3 DEF Holder, Expired
<1>7. \A d \in Capsules : Holder(d, q, x) => Holder(d, q, x)'
  BY <1>0, <1>4, <1>5, <1>6, HolderStays DEF Holder
<1> QED
  BY <1>0, <1>7, KeptStays

LEMMA StepKeeps ==
  ASSUME Inv, NEW o \in Ops, Start(o) \/ Step(o) PROVE (KeepsAll(o) /\ Others(o)) \/ NoMove
<1>0. Typed /\ VaultTyped /\ VaultInv /\ FreeInv
  BY DEF Inv, Typed
<1>1. CASE Start(o)
  BY <1>1 DEF Start, Clean, StopSession, Restore, Begin, Pass, NoVault, NoMove
<1>2. CASE \/ Acquire(o) \/ Locked(o) \/ BreakLock(o) \/ Release(o) \/ ReleaseEarly(o)
           \/ Scan(o) \/ Check(o) \/ Hash(o) \/ ReadManifest(o) \/ Verify(o)
  BY <1>2 DEF Acquire, Locked, BreakLock, Release, ReleaseEarly, Scan, Check, Hash,
     ReadManifest, Verify, NoVault, NoMove
<1>3. CASE Prepare(o) \/ Seal(o) \/ Undo(o) \/ Restored(o)
  BY <1>3 DEF Prepare, Seal, Undo, Restored
<1>4. CASE Back(o)
  <2>1. op[o].at = "back" /\ Cleaning(o)
    BY <1>4 DEF Back, At, Cleaning
  <2>2. op[o].cap \in Capsules /\ Moved(o) # {} /\ Last(Moved(o)) \in Paths
    BY <1>0, <2>1, CleanerFacts, CleanerMoved, LastMoved
  <2>3. Last(Moved(o)) \in op[o].free
    BY <1>0, <2>1 DEF FreeInv, FreeOk, At
  <2> QED
    BY <1>0, <1>4, <2>1, <2>2, <2>3, BackEffect, BackKeeps DEF Becomes, At, Cleaning
<1>5. CASE Put(o)
  <2>1. op[o].at = "put" /\ op[o].todo # {} /\ Restoring(o)
    BY <1>5 DEF Put, At, Restoring
  <2>2. op[o].cap \in Capsules /\ First(op[o].todo) \in op[o].todo /\ First(op[o].todo) \in Paths
    BY <1>0, <2>1, RestorerFacts, RestorerFirst
  <2>3. First(op[o].todo) \in op[o].free
    BY <1>0, <2>1, <2>2 DEF FreeInv, FreeOk, At
  <2> QED
    BY <1>0, <1>5, <2>1, <2>2, <2>3, PutEffect, BackKeeps DEF Becomes, At
<1>6. CASE Move(o)
  BY <1>0, <1>6, MoveEffect, MoveKeeps DEF Becomes
<1>7. CASE Unlink(o)
  BY <1>0, <1>7, UnlinkEffect, UnlinkKeeps DEF Becomes
<1>8. CASE Purge(o)
  BY <1>0, <1>8, PurgeEffect, PurgeKeeps DEF Becomes
<1> QED
  BY <1>1, <1>2, <1>3, <1>4, <1>5, <1>6, <1>7, <1>8 DEF Step

\* No step of an operation loses a file, but for one that was written where the
\* operation had looked and before it moved its own: however many are at work, with
\* or without the lock, and whatever dies or fails.
THEOREM NothingIsLost == Spec => NothingLost
<1>1. ASSUME Inv, [Next]_vars, op' # op, <<files, stored>>' # <<files, stored>>
      PROVE  \A p \in Paths, x \in Contents :
               \/ Kept(p, x)' >= Kept(p, x)
               \/ x = files[p] /\ \E o \in Ops : op'[o] # op[o] /\ Overtaken(o, p)
  <2>1. ~NoMove
    BY <1>1 DEF NoMove
  <2>2. PICK o \in Ops : Start(o) \/ Step(o)
    BY <1>1, <2>1 DEF Next, vars, Crash, UserWrites, Age, NoMove
  <2>3. KeepsAll(o) /\ Others(o)
    BY <1>1, <2>1, <2>2, StepKeeps
  <2>4. op'[o] # op[o]
    <3>1. op \in [Ops -> Operation] /\ op' \in [Ops -> Operation]
      BY <1>1, <2>2, OpTypedStep DEF Inv, Typed, OpTyped
    <3> QED
      BY <1>1, <2>3, <3>1 DEF Others
  <2> QED
    BY <2>3, <2>4 DEF KeepsAll
<1> QED
  BY <1>1, Invariance, PTL DEF Spec, NothingLost
=============================================================================
