----------------------------- MODULE ForgeReleases -----------------------------
(***************************************************************************)
(* The revisions and releases of a Forge project (hercules-forge,          *)
(* workspace.mjs, artifact.mjs, releases.mjs).  Nothing locks a project,   *)
(* and every file is written in place: it is empty or cut off until the    *)
(* write is over, and for good if the process ends first.                  *)
(***************************************************************************)
EXTENDS Integers, FiniteSets

CONSTANTS
  NRevisions,  \* bound: revisions of the project
  NSlots,      \* requests served at a time
  MaxServed,   \* bound: requests
  MaxFaults    \* bound: file operations that fail, and ends of the process

Revisions == 1..NRevisions
Slots == 1..NSlots

ASSUME ReleasesAssumption ==
  {NRevisions, NSlots} \subseteq Nat \ {0} /\ {MaxServed, MaxFaults} \subseteq Nat

VARIABLES
  revision,  \* of each its directory: "none", "partial" (revision.json not written), "done"
  latest,    \* latest-revision.json
  record,    \* of each revision its release: "none", "torn" or "published"
  active,    \* active.json
  task,      \* the requests that save, publish and roll back
  served, faults

\* A file that names a revision; the release of a rollback says so and is longer.
NoFile == [state |-> "none", names |-> 0, rollback |-> FALSE]
Torn == [state |-> "torn", names |-> 0, rollback |-> FALSE]
\* The end of a rollback is left in it.
Garbled == [state |-> "torn", names |-> 0, rollback |-> TRUE]
Whole(r, rollback) == [state |-> "whole", names |-> r, rollback |-> rollback]
PointerFiles == {NoFile, Torn, Garbled} \cup {Whole(r, b) : r \in Revisions, b \in BOOLEAN}

NoTask == [kind |-> "none", at |-> "idle", revision |-> 0]

files == <<revision, latest, record, active>>
releaseVars == <<files, task, served, faults>>

\* The project was created, with its first revision.
ReleasesInit ==
  /\ revision = [r \in Revisions |-> IF r = 1 THEN "done" ELSE "none"]
  /\ latest = Whole(1, FALSE)
  /\ record = [r \in Revisions |-> "none"]
  /\ active = NoFile
  /\ task = [k \in Slots |-> NoTask]
  /\ served = 0 /\ faults = 0

TaskAt(k, s) == task[k].at = s
TaskGoto(k, s) == task' = [task EXCEPT ![k].at = s]
TaskDone(k) == task' = [task EXCEPT ![k] = NoTask]

TaskBegins(k, kind, at, r) ==
  /\ TaskAt(k, "idle")
  /\ served < MaxServed /\ served' = served + 1
  /\ task' = [task EXCEPT ![k] = [kind |-> kind, at |-> at, revision |-> r]]
  /\ UNCHANGED faults

-----------------------------------------------------------------------------
\* saveRevision(): a directory of a new name with the sources, the index, the pointer

SaveRevision(k) ==
  \E r \in Revisions :
    /\ revision[r] = "none" /\ \A q \in 1..(r - 1) : revision[q] # "none"
    /\ revision' = [revision EXCEPT ![r] = "partial"]
    /\ TaskBegins(k, "save", "writeIndex", r)
    /\ UNCHANGED <<latest, record, active>>

WriteIndex(k) ==
  /\ TaskAt(k, "writeIndex")
  /\ revision' = [revision EXCEPT ![task[k].revision] = "done"]
  /\ TaskGoto(k, "openLatest")
  /\ UNCHANGED <<latest, record, active, served, faults>>

OpenLatest(k) ==
  /\ TaskAt(k, "openLatest")
  /\ latest' = Torn
  /\ TaskGoto(k, "writeLatest")
  /\ UNCHANGED <<revision, record, active, served, faults>>

\* All names have the same length: of two that write, the last one stays.
WriteLatest(k) ==
  /\ TaskAt(k, "writeLatest")
  /\ latest' = Whole(task[k].revision, FALSE)
  /\ TaskDone(k)
  /\ UNCHANGED <<revision, record, active, served, faults>>

-----------------------------------------------------------------------------
\* publish(), of the latest revision or a given one, and rollback()

\* getRevision() and getLatestRevision()
Publish(k) ==
  \E r \in Revisions :
    /\ revision[r] = "done"
    /\ TaskBegins(k, "publish", "build", r)
    /\ UNCHANGED files

\* A bug the properties catch: a release is active without a record of its own.
BuildActivates(k, disturbed) ==
  /\ TaskAt(k, "build")
  /\ TaskGoto(k, "openActive")
  /\ UNCHANGED <<files, served, faults>>

\* buildForgeArtifact() and verifyForgeArtifact(), which fails if somebody else, as
\* `disturbed` says, writes the same artifact.
Build(k, disturbed) ==
  /\ TaskAt(k, "build")
  /\ \/ TaskGoto(k, "openRecord")
     \/ disturbed /\ TaskDone(k)
  /\ UNCHANGED <<files, served, faults>>

OpenRecord(k) ==
  /\ TaskAt(k, "openRecord")
  /\ record' = [record EXCEPT ![task[k].revision] = "torn"]
  /\ TaskGoto(k, "writeRecord")
  /\ UNCHANGED <<revision, latest, active, served, faults>>

WriteRecord(k) ==
  /\ TaskAt(k, "writeRecord")
  /\ record' = [record EXCEPT ![task[k].revision] = "published"]
  /\ TaskGoto(k, "openActive")
  /\ UNCHANGED <<revision, latest, active, served, faults>>

Rollback(k) ==
  \E r \in Revisions :
    /\ record[r] = "published"
    /\ TaskBegins(k, "rollback", "openActive", r)
    /\ UNCHANGED files

OpenActive(k) ==
  /\ TaskAt(k, "openActive")
  /\ active' = Torn
  /\ TaskGoto(k, "writeActive")
  /\ UNCHANGED <<revision, latest, record, served, faults>>

\* Over the longer release of a rollback that was written meanwhile, a published one
\* leaves the end of the other.
WriteActive(k) ==
  /\ TaskAt(k, "writeActive")
  /\ active' = IF task[k].kind = "publish" /\ active.rollback THEN Garbled
               ELSE Whole(task[k].revision, task[k].kind = "rollback")
  /\ TaskDone(k)
  /\ UNCHANGED <<revision, latest, record, served, faults>>

-----------------------------------------------------------------------------

\* A file operation fails; what was written stays.
TaskFails(k) ==
  /\ ~TaskAt(k, "idle") /\ faults < MaxFaults
  /\ faults' = faults + 1
  /\ TaskDone(k)
  /\ UNCHANGED <<files, served>>

TaskNext(k, disturbed) ==
  \/ SaveRevision(k) \/ WriteIndex(k) \/ OpenLatest(k) \/ WriteLatest(k)
  \/ Publish(k) \/ Build(k, disturbed) \/ OpenRecord(k) \/ WriteRecord(k)
  \/ Rollback(k) \/ OpenActive(k) \/ WriteActive(k)
  \/ TaskFails(k)

ReleasesTypeOK ==
  /\ revision \in [Revisions -> {"none", "partial", "done"}]
  /\ {latest, active} \subseteq PointerFiles
  /\ record \in [Revisions -> {"none", "torn", "published"}]
  /\ task \in [Slots -> [kind : {"none", "save", "publish", "rollback"},
                         at : {"idle", "writeIndex", "openLatest", "writeLatest",
                               "build", "openRecord", "writeRecord", "openActive", "writeActive"},
                         revision : Revisions \cup {0}]]
  /\ served \in 0..MaxServed /\ faults \in 0..MaxFaults

\* Whatever overlaps and wherever the process ends, what a file of the project names is
\* there: the latest revision is complete, a release is of a complete revision, and the
\* active one has the record a later rollback needs.  Only a process that ended or a
\* write that failed leaves a pointer or a record unreadable, but for active.json.
PointersAreSound ==
  /\ latest.state = "whole" => revision[latest.names] = "done"
  /\ \A r \in Revisions : record[r] # "none" => revision[r] = "done"
  /\ active.state = "whole" => record[active.names] # "none"
  /\ faults = 0 /\ (\A k \in Slots : TaskAt(k, "idle")) =>
       latest.state = "whole" /\ \A r \in Revisions : record[r] # "torn"
=============================================================================
