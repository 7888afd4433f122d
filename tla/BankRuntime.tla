------------------------------ MODULE BankRuntime ------------------------------
(***************************************************************************)
(* The durable bank (hercules-bank/runtime.mjs): operations queue up on    *)
(* one promise chain; each copies the ledger, changes the copy, saves it   *)
(* with a temporary file and a rename, and only then makes it the current  *)
(* one and answers.  Reads see the current ledger at any time.             *)
(*                                                                         *)
(* Callers are not named: a retry, by the same caller after an error, a    *)
(* timeout or a restart, is the same operation submitted again.            *)
(***************************************************************************)
EXTENDS BankLedger

CONSTANTS
  Missing,     \* no state file, or no process
  MaxPending   \* bound: operations queued at a time

ASSUME RuntimeAssumption == MaxPending \in Nat /\ Missing \notin Banks

VARIABLES
  disk,       \* the state file
  bank,       \* #bank, the ledger in memory
  tail,       \* the operations on the promise chain, the first one running
  step,       \* "idle", or how far the running operation is: "saving", "renamed"
  candidate,  \* the copy the running operation changed
  acked       \* history: the operations that were answered with success

vars == <<disk, bank, tail, step, candidate, acked>>

Init ==
  /\ disk = Missing
  /\ bank = Missing
  /\ tail = << >>
  /\ step = "idle"
  /\ candidate = EmptyBank
  /\ acked = {}

\* open(): a missing state file means a new bank, which is saved first; a file
\* that does not restore is an error.
Open ==
  /\ bank = Missing
  /\ disk # Missing => Restorable(disk)
  /\ disk' = (IF disk = Missing THEN EmptyBank ELSE disk)
  /\ bank' = disk'
  /\ UNCHANGED <<tail, step, candidate, acked>>

Submit(op) ==
  /\ bank # Missing
  /\ Len(tail) < MaxPending
  /\ tail' = Append(tail, op)
  /\ UNCHANGED <<disk, bank, step, candidate, acked>>

\* The running operation is over, and the next one on the chain may run.
Done ==
  /\ tail' = Tail(tail)
  /\ step' = "idle"
  /\ candidate' = EmptyBank

Answer == acked' = acked \cup {Head(tail)}

\* A bug the properties catch: the operation changes the current ledger itself.
MutateInPlace ==
  /\ tail # << >> /\ step = "idle"
  /\ candidate' \in Outcome(bank, Head(tail))
  /\ bank' = candidate'
  /\ step' = "saving"
  /\ UNCHANGED <<disk, tail, acked>>

\* #commit: the operation changes a copy of the current ledger, replayed from
\* its snapshot.
Mutate ==
  /\ tail # << >> /\ step = "idle"
  /\ Restorable(bank)
  /\ candidate' \in Outcome(bank, Head(tail))
  /\ step' = "saving"
  /\ UNCHANGED <<disk, bank, tail, acked>>

\* The copy or the operation throws.
Refuse ==
  /\ tail # << >> /\ step = "idle"
  /\ Restorable(bank) => Outcome(bank, Head(tail)) = {}
  /\ Done
  /\ UNCHANGED <<disk, bank, acked>>

\* save(): the copy must restore; the file is replaced by the rename.
Save ==
  /\ step = "saving"
  /\ Restorable(candidate)
  /\ disk' = candidate
  /\ step' = "renamed"
  /\ UNCHANGED <<bank, tail, candidate, acked>>

\* A bug the properties catch: an error of save() is swallowed.
SaveFailsSwallowed ==
  /\ step = "saving"
  /\ Answer
  /\ Done
  /\ UNCHANGED <<disk, bank>>

\* save() rejects: the copy does not restore, or a file operation failed before
\* the rename took effect.
SaveFails ==
  /\ step = "saving"
  /\ Done
  /\ UNCHANGED <<disk, bank, acked>>

\* The copy becomes the current ledger and the operation is answered.
Swap ==
  /\ step = "renamed"
  /\ bank' = candidate
  /\ Answer
  /\ Done
  /\ UNCHANGED disk

\* The process dies.
Crash ==
  /\ bank # Missing
  /\ bank' = Missing
  /\ tail' = << >>
  /\ step' = "idle"
  /\ candidate' = EmptyBank
  /\ UNCHANGED <<disk, acked>>

Next ==
  \/ Open
  \/ \E op \in Operations : Submit(op)
  \/ Mutate \/ Refuse \/ Save \/ SaveFails \/ Swap
  \/ Crash

Spec == Init /\ [][Next]_vars

-----------------------------------------------------------------------------

IsBank(b) ==
  /\ b \in Banks
  /\ \A a \in Accounts : Balance(b.journal, a) \in -MaxSafe..MaxSafe

TypeOK ==
  /\ disk # Missing => IsBank(disk)
  /\ bank # Missing => IsBank(bank)
  /\ IsBank(candidate)
  /\ tail \in Seq(Operations) /\ Len(tail) <= MaxPending
  /\ step \in {"idle", "saving", "renamed"}
  /\ acked \subseteq Operations

\* The effect of op is in the ledger b.
Applied(b, op) ==
  IF op.kind = "open" THEN op.account \in b.accounts
  ELSE \E t \in Asked(b, op) : t \in Entries(b.journal)

\* An operation that was answered with success is in the state file, whatever
\* fails, dies or is retried afterwards.
AckedIsDurable == \A op \in acked : disk # Missing /\ Applied(disk, op)

\* What a reader is shown survives a crash: the ledger in memory is never ahead
\* of the state file, and behind it by the running operation only.
ShownIsDurable ==
  bank # Missing =>
    /\ bank.accounts \subseteq disk.accounts
    /\ bank.journal = SubSeq(disk.journal, 1, Len(bank.journal))
    /\ disk # bank => step = "renamed" /\ disk = candidate

\* A posting that was answered once can be retried for ever: it succeeds and
\* moves no money again, even when the account could not pay it any more.
RetryIsHarmless ==
  \A op \in acked :
    op.kind # "open" /\ bank # Missing => Outcome(bank, op) = {bank}

\* Verification never stands in the way: each ledger an accepted operation leads
\* to replays from its snapshot, so that save() accepts it and a restart loads it.
AlwaysRestorable == \A b \in {disk, bank, candidate} \ {Missing} : Restorable(b)

\* The whole is an atomic bank in which a saved operation happens at the rename.
State == IF disk = Missing THEN EmptyBank ELSE disk
Atomic == INSTANCE AtomicBank WITH
  open <- State.accounts,
  balance <- [a \in Accounts |-> Balance(State.journal, a)],
  posted <- Entries(State.journal)
IsAtomicBank == Atomic!Spec
=============================================================================
