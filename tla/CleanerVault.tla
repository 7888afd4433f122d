----------------------------- MODULE CleanerVault -----------------------------
(***************************************************************************)
(* The operations of Hercules Cleaner that move files (hercules-cleaner/   *)
(* agent.mjs over engine.mjs and the lock of state.mjs): a cleanup moves   *)
(* files into a Recovery Capsule, a restore moves them back, a scheduled   *)
(* pass purges capsules that expired.  They run in several processes and   *)
(* requests at once; a process may die at any step and leave its lock.     *)
(*                                                                         *)
(* The content of a file stands for its size, time of change and hash.  A  *)
(* move is a rename, which goes over a file that is there, or across file  *)
(* systems a copy and then an unlink.  Programs of the user write to the   *)
(* files at any time.  A lock file is one that is found more than 30       *)
(* minutes old, or not: nothing tells whether its owner is still at work.  *)
(***************************************************************************)
EXTENDS Integers, FiniteSetsExt

CONSTANTS
  Ops,         \* operations that may be in progress at a time
  NPaths,      \* files under the approved roots, in the order of the plan
  Contents,    \* what a file may contain
  Absent,      \* no file
  NCapsules,   \* bound: capsules that are ever created
  Free, Left,  \* no lock file; one that belongs to nobody at work
  Racing       \* bound: user programs write between the look at a path and its move

Paths == 1..NPaths
Capsules == 1..NCapsules

ASSUME CleanerAssumption ==
  /\ NPaths \in Nat /\ NCapsules \in Nat
  /\ Racing \in BOOLEAN /\ Absent \notin Contents
  /\ Free # Left /\ {Free, Left} \cap Ops = {}

VARIABLES
  files,     \* what is at each original path
  stored,    \* what is under items/ of each capsule, by original path
  manifest,  \* manifest.json of each capsule: [state, items]
  lock,      \* cleaner.lock: Free, the operation that created it, or Left
  old,       \* the lock file is more than 30 minutes old
  op,        \* what each operation is doing
  aged,      \* history: a lock file was old, and those of that time are not all done
  swapped,   \* history: capsules with a file that was replaced after it was hashed
  damaged    \* history: capsules on which an operation died or a move failed, not purged

vars == <<files, stored, manifest, lock, old, op, aged, swapped, damaged>>

Nothing == [p \in Paths |-> Absent]
Present(f) == {p \in Paths : f[p] # Absent}
First(S) == CHOOSE p \in S : \A q \in S : p <= q
Last(S) == CHOOSE p \in S : \A q \in S : p >= q

\* "free" is a history: the paths an operation has found free.
Idle == [kind |-> "none", at |-> "idle", cap |-> 0, todo |-> {}, seen |-> Nothing, free |-> {},
         holds |-> FALSE]

At(o, s) == op[o].at = s
Goto(o, s) == op' = [op EXCEPT ![o].at = s]

\* Where an operation is once it took the lock.
Work == {"scan", "prepare", "check", "hash", "move", "unlink", "undo", "back",
         "manifest", "verify", "put", "over"}

Init ==
  /\ files \in [Paths -> Contents \cup {Absent}]
  /\ stored = [c \in Capsules |-> Nothing]
  /\ manifest = [c \in Capsules |-> [state |-> "none", items |-> Nothing]]
  /\ lock = Free /\ old = FALSE
  /\ op = [o \in Ops |-> Idle]
  /\ aged = FALSE /\ swapped = {} /\ damaged = {}

NoMove == UNCHANGED <<files, stored>>
NoState == UNCHANGED <<manifest, swapped>>
NoVault == UNCHANGED <<stored, manifest, swapped, damaged>>
NoLock == UNCHANGED <<lock, old, aged>>

\* The items of a manifest that does not say sealed are never read.
SetState(c, s) ==
  /\ manifest' = [manifest EXCEPT ![c] = [state |-> s, items |-> Nothing]]
  /\ swapped' = swapped \ {c}

\* It says rolled-back or restored, or is gone with its capsule: nothing tells these
\* apart.
Close(c) == SetState(c, "closed")

\* The body of an operation ends; its finally block is left.
Finish(o) == op' = [op EXCEPT ![o] = [Idle EXCEPT !.at = "over", !.holds = op[o].holds]]

-----------------------------------------------------------------------------
\* Entry points and the lock

Begin(o, kind, at, c, seen) ==
  /\ At(o, "idle")
  /\ op' = [op EXCEPT ![o] = [Idle EXCEPT !.kind = kind, !.at = at, !.cap = c, !.seen = seen]]
  /\ UNCHANGED files /\ NoVault /\ NoLock

\* cleanComputer(): the plan is made under the lock.
Clean(o) == Begin(o, "clean", "lock", 0, Nothing)

\* stopWorkSession(): the plan, some of the files there are, is made before.
StopSession(o) ==
  \E S \in SUBSET Present(files) \ {{}} :
    Begin(o, "session", "lock", 0, [p \in Paths |-> IF p \in S THEN files[p] ELSE Absent])

\* restoreCapsule()
Restore(o, c) == manifest[c].state # "none" /\ Begin(o, "restore", "lock", c, Nothing)

\* runScheduledPass(): the capsules that are sealed and by now expired are listed.
Pass(o) ==
  /\ At(o, "idle")
  /\ \E S \in SUBSET {c \in Capsules : manifest[c].state = "sealed"} :
       op' = [op EXCEPT ![o] = [Idle EXCEPT !.at = "purge", !.todo = S]]
  /\ UNCHANGED files /\ NoVault /\ NoLock

\* The step after acquireCleanerLock().
AfterLock == [clean |-> "scan", session |-> "prepare", restore |-> "manifest"]

\* o has the lock file, and goes on.
Enter(o) ==
  /\ lock' = o /\ old' = FALSE
  /\ op' = [op EXCEPT ![o].at = AfterLock[op[o].kind], ![o].kind = "none", ![o].holds = TRUE]

\* A bug the properties catch: the lock file is opened without "x".
AcquireShared(o) ==
  /\ At(o, "lock")
  /\ Enter(o)
  /\ UNCHANGED <<files, aged>> /\ NoVault

\* open(path, "wx"), then writeFile(): when that fails the lock file stays, and
\* belongs to nobody.
Acquire(o) ==
  /\ At(o, "lock")
  /\ lock = Free
  /\ \/ Enter(o)
     \/ op' = [op EXCEPT ![o] = Idle] /\ lock' \in {Free, Left} /\ old' = FALSE
  /\ UNCHANGED <<files, aged>> /\ NoVault

\* The file exists: the operation gives up, or finds it old and will remove it.
Locked(o) ==
  /\ At(o, "lock")
  /\ lock # Free
  /\ IF old THEN Goto(o, "break") ELSE op' = [op EXCEPT ![o] = Idle]
  /\ UNCHANGED files /\ NoVault /\ NoLock

\* Everybody but o who had the lock, or was about to remove it, is done.
Alone(o) == \A q \in Ops \ {o} : ~op[q].holds /\ ~At(q, "break")

\* The lock file goes, whoever created it.
Unlock(o) ==
  /\ lock' = Free /\ old' = FALSE
  /\ aged' = (aged /\ ~Alone(o))

\* rm(): whichever file is there by now.
BreakLock(o) ==
  /\ At(o, "break")
  /\ Unlock(o)
  /\ Goto(o, "lock")
  /\ UNCHANGED files /\ NoVault

\* release(), in the finally block.
Release(o) ==
  /\ At(o, "over")
  /\ IF op[o].holds THEN Unlock(o) ELSE NoLock
  /\ op' = [op EXCEPT ![o] = Idle]
  /\ UNCHANGED files /\ NoVault

\* restoreCapsule() returns the promise of the restore without awaiting it, so
\* that its finally block runs while the restore is under way.
ReleaseEarly(o) ==
  /\ op[o].at \in {"manifest", "verify", "put"} /\ op[o].holds
  /\ Unlock(o)
  /\ op' = [op EXCEPT ![o].holds = FALSE]
  /\ UNCHANGED files /\ NoVault

-----------------------------------------------------------------------------
\* executeCleanupPlan()

\* createCleanupPlan(): the files of the profile, as they are now.
Scan(o) ==
  /\ At(o, "scan")
  /\ op' = [op EXCEPT ![o].at = "prepare", ![o].seen = files]
  /\ UNCHANGED files /\ NoVault /\ NoLock

\* A bug the properties catch: the plan is not limited to the files that are there.
PrepareAll(o) ==
  /\ At(o, "prepare")
  /\ \/ \E c \in Capsules :
          /\ manifest[c].state = "none" /\ \A d \in Capsules : d < c => manifest[d].state # "none"
          /\ SetState(c, "preparing")
          /\ op' = [op EXCEPT ![o].at = "check", ![o].cap = c, ![o].todo = Paths]
     \/ Finish(o) /\ NoState
  /\ NoMove /\ NoLock /\ UNCHANGED damaged

\* The directory and the manifest of a new capsule; or they cannot be written.
Prepare(o) ==
  /\ At(o, "prepare")
  /\ \/ \E c \in Capsules :
          /\ manifest[c].state = "none" /\ \A d \in Capsules : d < c => manifest[d].state # "none"
          /\ SetState(c, "preparing")
          /\ op' = [op EXCEPT ![o].at = "check", ![o].cap = c, ![o].todo = Present(op[o].seen)]
     \/ Finish(o) /\ NoState
  /\ NoMove /\ NoLock /\ UNCHANGED damaged

\* The next candidate must be as it was when the plan was made.
Check(o) ==
  LET p == First(op[o].todo) IN
  /\ At(o, "check") /\ op[o].todo # {}
  /\ Goto(o, IF files[p] = op[o].seen[p] THEN "hash" ELSE "undo")
  /\ UNCHANGED files /\ NoVault /\ NoLock

\* sha256File(): of the file as it is now.
Hash(o) ==
  LET p == First(op[o].todo) IN
  /\ At(o, "hash")
  /\ IF files[p] # Absent
     THEN op' = [op EXCEPT ![o].at = "move", ![o].seen = [@ EXCEPT ![p] = files[p]]]
     ELSE Goto(o, "undo")
  /\ UNCHANGED files /\ NoVault /\ NoLock

\* moveFile(): whatever is at the path by now is renamed, or copied; or it fails.
Move(o) ==
  LET p == First(op[o].todo)
      c == op[o].cap
  IN
  /\ At(o, "move")
  /\ \/ /\ files[p] # Absent
        /\ stored' = [stored EXCEPT ![c][p] = files[p]]
        /\ swapped' = IF files[p] = op[o].seen[p] THEN swapped ELSE swapped \cup {c}
        /\ \/ /\ files' = [files EXCEPT ![p] = Absent]
              /\ op' = [op EXCEPT ![o].at = "check", ![o].todo = @ \ {p}]
           \/ Goto(o, "unlink") /\ UNCHANGED files
     \/ Goto(o, "undo") /\ NoMove /\ UNCHANGED swapped
  /\ NoLock /\ UNCHANGED <<manifest, damaged>>

\* The file that was copied is removed, or the one that is there by now; or it is
\* not, and the copy stays in the capsule.
Unlink(o) ==
  LET p == First(op[o].todo) IN
  /\ At(o, "unlink")
  /\ \/ /\ files[p] # Absent
        /\ files' = [files EXCEPT ![p] = Absent]
        /\ op' = [op EXCEPT ![o].at = "check", ![o].todo = @ \ {p}]
        /\ UNCHANGED damaged
     \/ Goto(o, "undo") /\ damaged' = damaged \cup {op[o].cap} /\ UNCHANGED files
  /\ NoLock /\ NoState /\ UNCHANGED stored

\* What the operation has moved so far: its list of items.
Moved(o) == Present(op[o].seen) \ op[o].todo

\* The manifest is written with its items, and the capsule sealed; or it cannot be.
Seal(o) ==
  LET c == op[o].cap IN
  /\ At(o, "check") /\ op[o].todo = {}
  /\ \/ manifest' = [manifest EXCEPT ![c].state = "sealed", ![c].items = op[o].seen] /\ Finish(o)
     \/ Goto(o, "undo") /\ UNCHANGED manifest
  /\ NoMove /\ NoLock /\ UNCHANGED <<swapped, damaged>>

\* A bug the properties catch: a cleanup that fails leaves its files where they are.
UndoNothing(o) ==
  /\ At(o, "undo")
  /\ Close(op[o].cap)
  /\ Finish(o)
  /\ NoMove /\ NoLock /\ UNCHANGED damaged

\* The catch block: the last file moved goes back, if it is there and its path is
\* free.  When none is left the manifest says so, if it can be written.
Undo(o) ==
  LET c == op[o].cap
      p == Last(Moved(o))
  IN
  /\ At(o, "undo")
  /\ IF Moved(o) = {}
     THEN /\ Close(c) \/ NoState
          /\ Finish(o)
          /\ UNCHANGED damaged
     ELSE /\ IF stored[c][p] # Absent /\ files[p] = Absent
             THEN op' = [op EXCEPT ![o].at = "back", ![o].free = @ \cup {p}] /\ UNCHANGED damaged
             ELSE op' = [op EXCEPT ![o].todo = @ \cup {p}] /\ damaged' = damaged \cup {c}
          /\ NoState
  /\ NoMove /\ NoLock

\* It is moved over whatever is at its path by now, the copy of it removed or not;
\* an error of the move is ignored.
Back(o) ==
  LET c == op[o].cap
      p == Last(Moved(o))
  IN
  /\ At(o, "back")
  /\ op' = [op EXCEPT ![o].at = "undo", ![o].todo = @ \cup {p}]
  /\ \/ /\ stored[c][p] # Absent
        /\ files' = [files EXCEPT ![p] = stored[c][p]]
        /\ \/ stored' = [stored EXCEPT ![c][p] = Absent] /\ UNCHANGED damaged
           \/ damaged' = damaged \cup {c} /\ UNCHANGED stored
     \/ damaged' = damaged \cup {c} /\ UNCHANGED <<files, stored>>
  /\ NoLock /\ NoState

-----------------------------------------------------------------------------
\* restoreRecoveryCapsule()

\* The manifest must be there and say sealed.
ReadManifest(o) ==
  LET m == manifest[op[o].cap] IN
  /\ At(o, "manifest")
  /\ IF m.state = "sealed"
     THEN op' = [op EXCEPT ![o].at = "verify", ![o].seen = m.items, ![o].todo = Present(m.items)]
     ELSE Finish(o)
  /\ UNCHANGED files /\ NoVault /\ NoLock

\* A bug the properties catch: the destination is not looked at.
VerifyHash(o) ==
  /\ At(o, "verify")
  /\ IF \A p \in op[o].todo : stored[op[o].cap][p] = op[o].seen[p]
     THEN op' = [op EXCEPT ![o].at = "put", ![o].todo = Present(op[o].seen)]
     ELSE Finish(o)
  /\ UNCHANGED files /\ NoVault /\ NoLock

\* Item by item: no file at the original path, and the stored one has the hash.
\* When all are verified the moves begin.
Verify(o) ==
  LET p == First(op[o].todo) IN
  /\ At(o, "verify")
  /\ IF op[o].todo = {} THEN op' = [op EXCEPT ![o].at = "put", ![o].todo = Present(op[o].seen)]
     ELSE IF files[p] = Absent /\ stored[op[o].cap][p] = op[o].seen[p]
     THEN op' = [op EXCEPT ![o].todo = @ \ {p}, ![o].free = @ \cup {p}]
     ELSE Finish(o)
  /\ UNCHANGED files /\ NoVault /\ NoLock

\* The next item is moved back, over whatever is there by now; or the move fails,
\* maybe with both files there, and the restore ends halfway.
Put(o) ==
  LET p == First(op[o].todo)
      c == op[o].cap
  IN
  /\ At(o, "put") /\ op[o].todo # {}
  /\ \/ /\ stored[c][p] # Absent
        /\ files' = [files EXCEPT ![p] = stored[c][p]]
        /\ \/ /\ stored' = [stored EXCEPT ![c][p] = Absent]
              /\ op' = [op EXCEPT ![o].todo = @ \ {p}]
              /\ UNCHANGED damaged
           \/ Finish(o) /\ damaged' = damaged \cup {c} /\ UNCHANGED stored
     \/ Finish(o) /\ damaged' = damaged \cup {c} /\ UNCHANGED <<files, stored>>
  /\ NoLock /\ NoState

\* The manifest says restored; or it cannot be written.
Restored(o) ==
  LET c == op[o].cap IN
  /\ At(o, "put") /\ op[o].todo = {}
  /\ Finish(o)
  /\ \/ Close(c) /\ UNCHANGED damaged
     \/ damaged' = damaged \cup {c} /\ NoState
  /\ NoMove /\ NoLock

-----------------------------------------------------------------------------
\* purgeExpiredCapsules(), without the lock

\* The next capsule of the list goes, whatever became of it; then a profile that
\* is due is cleaned.
Purge(o) ==
  LET c == Last(op[o].todo) IN
  /\ At(o, "purge")
  /\ IF op[o].todo = {}
     THEN /\ \/ op' = [op EXCEPT ![o] = [Idle EXCEPT !.kind = "clean", !.at = "lock"]]
             \/ op' = [op EXCEPT ![o] = Idle]
          /\ NoVault
     ELSE /\ op' = [op EXCEPT ![o].todo = @ \ {c}]
          /\ stored' = [stored EXCEPT ![c] = Nothing]
          /\ Close(c)
          /\ damaged' = damaged \ {c}
  /\ UNCHANGED files /\ NoLock

-----------------------------------------------------------------------------
\* Surroundings

\* An operation dies.  Its lock file is left.
Crash(o) ==
  /\ ~At(o, "idle")
  /\ op' = [op EXCEPT ![o] = Idle]
  /\ lock' = IF lock = o THEN Left ELSE lock
  /\ damaged' = damaged \cup ({op[o].cap} \cap Capsules)
  /\ UNCHANGED <<files, stored, manifest, old, aged, swapped>>

\* The lock file is more than 30 minutes old: its owner died, or is slow.
Age ==
  /\ lock # Free /\ ~old
  /\ old' = TRUE /\ aged' = TRUE
  /\ UNCHANGED <<files, stored, manifest, lock, op, swapped, damaged>>

\* An operation has looked at the path and not yet moved the file.
Watched(p) ==
  \E o \in Ops :
    \/ op[o].at \in {"hash", "move", "unlink"} /\ p = First(op[o].todo)
    \/ At(o, "back") /\ p = Last(Moved(o))
    \/ op[o].at \in {"verify", "put"} /\ p \in Present(op[o].seen)

\* A program of the user writes or removes a file.
UserWrites(p) ==
  /\ Racing \/ ~Watched(p)
  /\ \E x \in (Contents \cup {Absent}) \ {files[p]} : files' = [files EXCEPT ![p] = x]
  /\ UNCHANGED <<lock, old, op, aged>> /\ NoVault

Start(o) ==
  \/ Clean(o) \/ StopSession(o) \/ Pass(o)
  \/ \E c \in Capsules : Restore(o, c)

Step(o) ==
  \/ Acquire(o) \/ Locked(o) \/ BreakLock(o) \/ Release(o) \/ ReleaseEarly(o)
  \/ Scan(o) \/ Prepare(o) \/ Check(o) \/ Hash(o) \/ Move(o) \/ Unlink(o) \/ Seal(o)
  \/ Undo(o) \/ Back(o)
  \/ ReadManifest(o) \/ Verify(o) \/ Put(o) \/ Restored(o)
  \/ Purge(o)

Next ==
  \/ \E o \in Ops : Start(o) \/ Step(o) \/ Crash(o)
  \/ Age
  \/ \E p \in Paths : UserWrites(p)

Spec == Init /\ [][Next]_vars

-----------------------------------------------------------------------------

TypeOK ==
  /\ files \in [Paths -> Contents \cup {Absent}]
  /\ stored \in [Capsules -> [Paths -> Contents \cup {Absent}]]
  /\ \A c \in Capsules :
       /\ manifest[c].state \in {"none", "preparing", "sealed", "closed"}
       /\ manifest[c].items \in [Paths -> Contents \cup {Absent}]
  /\ lock \in Ops \cup {Free, Left} /\ old \in BOOLEAN
  /\ \A o \in Ops :
       /\ op[o].at \in {"idle", "lock", "break", "purge"} \cup Work
       /\ op[o].cap \in Capsules \cup {0}
       /\ op[o].at \in {"check", "hash", "move", "unlink"} => op[o].todo \subseteq Present(op[o].seen)
  /\ aged \in BOOLEAN
  /\ swapped \subseteq Capsules /\ damaged \subseteq Capsules

\* As long as no lock file gets 30 minutes old, it belongs to the operation that
\* took it and holds it: cleanups exclude each other, and nothing begins while one
\* is at work, although releases remove the file without looking whose it is, and
\* whatever dies or fails.  And it does again once everybody who had the lock when
\* it was old, or was about to remove it, is done.
LockIsExclusive == ~aged => \A o \in Ops : op[o].holds => lock = o

\* A capsule nobody works on is either sealed, with every file of its manifest in
\* it, or holds nothing: a cleanup that fails in the middle puts back what it took.
\* Those files are the ones that were hashed, and it can be restored, but where a
\* file was replaced between its hash and its move.  The exceptions are those on
\* which a process died or a move or a write failed.  The lock has no part in it.
VaultIsSound ==
  \A c \in Capsules \ damaged :
    (\A o \in Ops : op[o].cap # c \/ op[o].at \in {"lock", "break", "manifest", "over"}) =>
      IF manifest[c].state = "sealed"
      THEN /\ Present(stored[c]) = Present(manifest[c].items)
           /\ c \notin swapped => stored[c] = manifest[c].items
      ELSE stored[c] = Nothing

\* The file of path p is being copied into capsule c.
Copying(c, p) == \E o \in Ops : At(o, "unlink") /\ op[o].cap = c /\ p = First(op[o].todo)

\* A pass found that capsule c has expired, and will purge it.
Expired(c) == \E o \in Ops : At(o, "purge") /\ c \in op[o].todo

\* How many times the user has x, a content of path p, or can get it back.
Kept(p, x) ==
  (IF files[p] = x THEN 1 ELSE 0)
  + Cardinality({c \in Capsules :
                   stored[c][p] = x /\ ~Expired(c) /\ ~Copying(c, p)})

\* What is at p was written since o looked: o found the path free and now moves a
\* file there, or has copied another file than the one it now removes.
Overtaken(o, p) ==
  \/ op[o].at \in {"back", "put"} /\ p \in op[o].free /\ files[p] # Absent
  \/ At(o, "unlink") /\ files[p] # stored[op[o].cap][p]

\* No operation loses a file, at any step, whatever fails and whoever is at work at
\* the same time: it is at its path or in a capsule that no pass found expired.  The
\* exception is a file that was written there after the operation had looked and
\* before it moved its own.
NothingLost ==
  [][op' # op /\ <<files, stored>>' # <<files, stored>> =>
       \A p \in Paths, x \in Contents :
         \/ Kept(p, x)' >= Kept(p, x)
         \/ x = files[p] /\ \E o \in Ops : op'[o] # op[o] /\ Overtaken(o, p)]_vars

\* Restore refuses to overwrite a path that has been repopulated.
RefusesToOverwrite ==
  [][\A o \in Ops, p \in Paths :
       Put(o) /\ files[p] # Absent => files'[p] = files[p]]_vars
=============================================================================
