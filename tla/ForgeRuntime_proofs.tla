------------------------- MODULE ForgeRuntime_proofs -------------------------
(***************************************************************************)
(* What the pointers of a Forge project name is there, a snapshot is the   *)
(* image of one moment, and no record that was answered is lost, for every *)
(* number of revisions, requests, previews, entities, records and failures.*)
(***************************************************************************)
EXTENDS ForgeRuntime, FiniteSetTheorems, WellFoundedInduction, TLAPS

-----------------------------------------------------------------------------
\* Revisions and releases

\* What a task does next rests on what it found or wrote before: other tasks
\* may add revisions and records but never take them away.
TasksAreFounded ==
  \A k \in Slots :
    /\ TaskAt(k, "writeIndex") =>
         task[k].revision \in Revisions /\ revision[task[k].revision] # "none"
    /\ task[k].at \in {"openLatest", "writeLatest", "build", "openRecord", "writeRecord",
                       "openActive", "writeActive"} =>
         task[k].revision \in Revisions /\ revision[task[k].revision] = "done"
    /\ task[k].at \in {"openActive", "writeActive"} => record[task[k].revision] # "none"

\* What the files name is there.
NamedIsThere ==
  /\ latest.state = "whole" => latest.names \in Revisions /\ revision[latest.names] = "done"
  /\ \A r \in Revisions : record[r] # "none" => revision[r] = "done"
  /\ active.state = "whole" => active.names \in Revisions /\ record[active.names] # "none"

\* As long as nothing failed, a file that cannot be read is being written.
TornIsOpen ==
  faults = 0 =>
    /\ latest.state = "whole" \/ \E k \in Slots : TaskAt(k, "writeLatest")
    /\ \A r \in Revisions :
         record[r] = "torn" => \E k \in Slots : TaskAt(k, "writeRecord") /\ task[k].revision = r

Inv == ReleasesTypeOK /\ TasksAreFounded /\ NamedIsThere /\ TornIsOpen

\* Everything a preview or a request for its data does leaves the files and tasks
\* of revisions and releases alone.
LeavesReleases ==
  /\ UNCHANGED <<files, task>>
  /\ faults' = faults \/ (faults < MaxFaults /\ faults' = faults + 1)
  /\ served' = served \/ (served < MaxServed /\ served' = served + 1)

USE ReleasesAssumption

-----------------------------------------------------------------------------

LEMMA WholeIsPointer ==
  ASSUME NEW r \in Revisions, NEW b \in BOOLEAN
  PROVE  Whole(r, b) \in PointerFiles /\ Whole(r, b).state = "whole" /\ Whole(r, b).names = r
  BY DEF PointerFiles, Whole

LEMMA InitInv == Init => Inv
<1> SUFFICES ASSUME Init PROVE Inv
  OBVIOUS
<1>1. 1 \in Revisions  BY DEF Revisions
<1>2. latest \in PointerFiles /\ latest.state = "whole" /\ latest.names = 1
  BY <1>1, WholeIsPointer DEF Init, ReleasesInit
<1>3. active \in PointerFiles /\ active.state = "none"
  BY DEF Init, ReleasesInit, PointerFiles, NoFile
<1>4. ReleasesTypeOK
  <2>1. NoTask \in [kind : {"none", "save", "publish", "rollback"},
                    at : {"idle", "writeIndex", "openLatest", "writeLatest",
                          "build", "openRecord", "writeRecord", "openActive", "writeActive"},
                    revision : Revisions \cup {0}]
    BY DEF NoTask
  <2>2. 0 \in 0..MaxServed /\ 0 \in 0..MaxFaults
    OBVIOUS
  <2>3. revision \in [Revisions -> {"none", "partial", "done"}]
        /\ record \in [Revisions -> {"none", "torn", "published"}]
    BY DEF Init, ReleasesInit
  <2> QED
    BY <1>2, <1>3, <2>1, <2>2, <2>3 DEF Init, ReleasesInit, ReleasesTypeOK
<1>5. TasksAreFounded /\ NamedIsThere /\ TornIsOpen
  BY <1>1, <1>2, <1>3 DEF Init, ReleasesInit, TasksAreFounded, NamedIsThere, TornIsOpen, TaskAt, NoTask
<1> QED  BY <1>4, <1>5 DEF Inv

\* Steps of the previews and of the requests for their data.
LEMMA PreviewLeaves == ASSUME NEW c \in Previews, Preview(c) PROVE LeavesReleases
<1>1. ASSUME NEW e \in Entities, Send(c, e) PROVE LeavesReleases
  BY <1>1 DEF Send, LeavesReleases
<1>2. CASE Prepare(c)
  BY <1>2 DEF Prepare, NoReleases, releaseVars, LeavesReleases
<1>3. CASE Rename(c)
  BY <1>3 DEF Rename, NoReleases, releaseVars, LeavesReleases
<1>4. CASE Disconnect(c)
  BY <1>4 DEF Disconnect, NoReleases, releaseVars, LeavesReleases
<1> QED  BY <1>1, <1>2, <1>3, <1>4 DEF Preview

LEMMA BeginLeaves ==
  ASSUME NEW k \in Slots, NEW kind, NEW r, Begin(k, kind, r) PROVE LeavesReleases
  BY DEF Begin, LeavesReleases

LEMMA StepLeaves == ASSUME NEW k \in Slots, Step(k) PROVE LeavesReleases
<1>1. CASE StartPreview(k)  BY <1>1, BeginLeaves DEF StartPreview
<1>2. CASE StopPreview(k)  BY <1>2, BeginLeaves DEF StopPreview
<1>3. CASE CreateSnapshot(k)  BY <1>3, BeginLeaves DEF CreateSnapshot
<1>4. CASE RestoreSnapshot(k)  BY <1>4, BeginLeaves DEF RestoreSnapshot
<1>5. CASE Stopped(k)
  BY <1>5 DEF Stopped, NoReleases, releaseVars, LeavesReleases
<1>6. CASE Fork(k) \/ Boot(k)
  BY <1>6 DEF Fork, Boot, NoReleases, releaseVars, LeavesReleases
<1>7. CASE List(k) \/ ReadFile(k) \/ CopyFile(k)
  BY <1>7 DEF List, ReadFile, CopyFile, NoReleases, releaseVars, LeavesReleases
<1>8. CASE Verify(k) \/ Aside(k) \/ Activate(k)
  BY <1>8 DEF Verify, Aside, Activate, NoReleases, releaseVars, LeavesReleases
<1>9. CASE ActivateFails(k)
  BY <1>9 DEF ActivateFails, LeavesReleases
<1>10. CASE PutBack(k)
  BY <1>10 DEF PutBack, LeavesReleases
<1>11. CASE Fail(k)
  BY <1>11 DEF Fail, LeavesReleases
<1> QED
  BY <1>1, <1>2, <1>3, <1>4, <1>5, <1>6, <1>7, <1>8, <1>9, <1>10, <1>11 DEF Step

LEMMA LeavesInv == ASSUME Inv, LeavesReleases PROVE Inv'
  BY DEF Inv, LeavesReleases, files, ReleasesTypeOK, TasksAreFounded, NamedIsThere, TornIsOpen, TaskAt

LEMMA CrashInv == ASSUME Inv, Crash PROVE Inv'
  BY DEF Inv, Crash, files, NoTask, ReleasesTypeOK, TasksAreFounded, NamedIsThere, TornIsOpen, TaskAt

-----------------------------------------------------------------------------
\* Steps of the tasks.

LEMMA TaskBeginsType ==
  ASSUME ReleasesTypeOK, NEW k \in Slots, NEW r \in Revisions,
         NEW kind \in {"save", "publish", "rollback"},
         NEW at \in {"writeIndex", "build", "openActive"},
         TaskBegins(k, kind, at, r)
  PROVE  /\ task' \in [Slots -> [kind : {"none", "save", "publish", "rollback"},
                         at : {"idle", "writeIndex", "openLatest", "writeLatest",
                               "build", "openRecord", "writeRecord", "openActive", "writeActive"},
                         revision : Revisions \cup {0}]]
         /\ served' \in 0..MaxServed /\ faults' \in 0..MaxFaults
  BY DEF TaskBegins, ReleasesTypeOK

LEMMA TaskInv ==
  ASSUME Inv, NEW k \in Slots, NEW d \in BOOLEAN, TaskNext(k, d) PROVE Inv'
<1> USE DEF Inv, TaskAt
<1>1. CASE SaveRevision(k)
  <2> PICK r \in Revisions :
        /\ revision[r] = "none"
        /\ revision' = [revision EXCEPT ![r] = "partial"]
        /\ TaskBegins(k, "save", "writeIndex", r)
        /\ UNCHANGED <<latest, record, active>>
    BY <1>1 DEF SaveRevision
  <2>1. ReleasesTypeOK'
    BY TaskBeginsType DEF ReleasesTypeOK
  <2>2. TasksAreFounded' /\ NamedIsThere' /\ TornIsOpen'
    BY DEF TaskBegins, ReleasesTypeOK, TasksAreFounded, NamedIsThere, TornIsOpen
  <2> QED  BY <2>1, <2>2
<1>2. CASE WriteIndex(k)
  BY <1>2 DEF WriteIndex, TaskGoto, ReleasesTypeOK, TasksAreFounded, NamedIsThere, TornIsOpen
<1>3. CASE OpenLatest(k)
  BY <1>3 DEF OpenLatest, TaskGoto, Torn, PointerFiles, ReleasesTypeOK, TasksAreFounded, NamedIsThere, TornIsOpen
<1>4. CASE WriteLatest(k)
  <2>1. latest' \in PointerFiles /\ latest'.state = "whole" /\ latest'.names = task[k].revision
        /\ revision[task[k].revision] = "done" /\ task[k].revision \in Revisions
    BY <1>4, WholeIsPointer DEF WriteLatest, TasksAreFounded
  <2>2. ReleasesTypeOK'
    BY <1>4, <2>1 DEF WriteLatest, TaskDone, NoTask, ReleasesTypeOK
  <2>3. TasksAreFounded'
    BY <1>4 DEF WriteLatest, TaskDone, NoTask, ReleasesTypeOK, TasksAreFounded
  <2>4. NamedIsThere' /\ TornIsOpen'
    BY <1>4, <2>1 DEF WriteLatest, TaskDone, NoTask, ReleasesTypeOK, NamedIsThere, TornIsOpen
  <2> QED  BY <2>2, <2>3, <2>4
<1>5. CASE Publish(k)
  <2> PICK r \in Revisions :
        revision[r] = "done" /\ TaskBegins(k, "publish", "build", r) /\ UNCHANGED files
    BY <1>5 DEF Publish
  <2>1. ReleasesTypeOK'
    BY TaskBeginsType DEF ReleasesTypeOK, files
  <2>2. TasksAreFounded' /\ NamedIsThere' /\ TornIsOpen'
    BY DEF TaskBegins, files, ReleasesTypeOK, TasksAreFounded, NamedIsThere, TornIsOpen
  <2> QED  BY <2>1, <2>2
<1>6. CASE Build(k, d)
  <2>1. CASE TaskGoto(k, "openRecord")
    BY <1>6, <2>1 DEF Build, TaskGoto, files, ReleasesTypeOK, TasksAreFounded, NamedIsThere, TornIsOpen
  <2>2. CASE TaskDone(k)
    BY <1>6, <2>2 DEF Build, TaskDone, NoTask, files, ReleasesTypeOK, TasksAreFounded, NamedIsThere, TornIsOpen
  <2> QED  BY <1>6, <2>1, <2>2 DEF Build
<1>7. CASE OpenRecord(k)
  BY <1>7 DEF OpenRecord, TaskGoto, ReleasesTypeOK, TasksAreFounded, NamedIsThere, TornIsOpen
<1>8. CASE WriteRecord(k)
  BY <1>8 DEF WriteRecord, TaskGoto, ReleasesTypeOK, TasksAreFounded, NamedIsThere, TornIsOpen
<1>9. CASE Rollback(k)
  <2> PICK r \in Revisions :
        record[r] = "published" /\ TaskBegins(k, "rollback", "openActive", r) /\ UNCHANGED files
    BY <1>9 DEF Rollback
  <2>1. ReleasesTypeOK'
    BY TaskBeginsType DEF ReleasesTypeOK, files
  <2>2. TasksAreFounded' /\ NamedIsThere' /\ TornIsOpen'
    BY DEF TaskBegins, files, ReleasesTypeOK, TasksAreFounded, NamedIsThere, TornIsOpen
  <2> QED  BY <2>1, <2>2
<1>10. CASE OpenActive(k)
  BY <1>10 DEF OpenActive, TaskGoto, Torn, PointerFiles, ReleasesTypeOK, TasksAreFounded, NamedIsThere, TornIsOpen
<1>11. CASE WriteActive(k)
  <2>1. task[k].revision \in Revisions /\ record[task[k].revision] # "none"
    BY <1>11 DEF WriteActive, TasksAreFounded
  <2>2. /\ active' \in PointerFiles
        /\ active'.state = "whole" => active'.names = task[k].revision
    <3>1. CASE task[k].kind = "publish" /\ active.rollback
      BY <1>11, <3>1 DEF WriteActive, Garbled, PointerFiles
    <3>2. CASE ~(task[k].kind = "publish" /\ active.rollback)
      BY <1>11, <2>1, <3>2, WholeIsPointer DEF WriteActive
    <3> QED  BY <3>1, <3>2
  <2> QED
    BY <1>11, <2>1, <2>2 DEF WriteActive, TaskDone, NoTask, ReleasesTypeOK, TasksAreFounded, NamedIsThere, TornIsOpen
<1>12. CASE TaskFails(k)
  BY <1>12 DEF TaskFails, TaskDone, NoTask, files, ReleasesTypeOK, TasksAreFounded, NamedIsThere, TornIsOpen
<1> QED
  BY <1>1, <1>2, <1>3, <1>4, <1>5, <1>6, <1>7, <1>8, <1>9, <1>10, <1>11, <1>12 DEF TaskNext

LEMMA NextInv == ASSUME Inv, [Next]_vars PROVE Inv'
<1>1. ASSUME NEW k \in Slots, TaskNext(k, Disturbed(k)) PROVE Inv'
  <2>1. Disturbed(k) \in BOOLEAN  BY DEF Disturbed
  <2> QED  BY <1>1, <2>1, TaskInv
<1>2. ASSUME NEW c \in Previews, Preview(c) PROVE Inv'
  BY <1>2, PreviewLeaves, LeavesInv
<1>3. ASSUME NEW k \in Slots, Step(k) PROVE Inv'
  BY <1>3, StepLeaves, LeavesInv
<1>4. CASE Crash
  BY <1>4, CrashInv
<1>5. CASE UNCHANGED vars
  BY <1>5, LeavesInv DEF vars, releaseVars, LeavesReleases
<1> QED  BY <1>1, <1>2, <1>3, <1>4, <1>5 DEF Next

\* The files and tasks of revisions and releases keep their types, whatever the previews do.
THEOREM ReleasesTypeCorrect == Spec => []ReleasesTypeOK
<1>1. Inv => ReleasesTypeOK  BY DEF Inv
<1> QED  BY InitInv, NextInv, <1>1, PTL DEF Spec

\* Whatever requests overlap, fail or are cut off, what latest-revision.json, the
\* records and active.json name is there, and complete.
THEOREM PointerSoundness == Spec => []PointersAreSound
<1>1. Inv => PointersAreSound
  BY DEF Inv, NamedIsThere, TornIsOpen, PointersAreSound, TaskAt
<1> QED  BY InitInv, NextInv, <1>1, PTL DEF Spec

-----------------------------------------------------------------------------
(***************************************************************************)
(* Previews, snapshots and restores.                                       *)
(*                                                                         *)
(* Typed and Linked hold always.  Alone is what requests that do not       *)
(* overlap rest on: when one of them reads the data, no preview runs.      *)
(* Unmixed is what mutations that do not overlap rest on: the data do not  *)
(* change between the read of a file and its rename, and records leave the *)
(* data only for a directory next to it.                                   *)
(***************************************************************************)

FileMaps == [Entities -> SUBSET Records]

Pending == [at : {"prepare", "rename"}, entity : Entities, items : SUBSET Records,
            id : Records, connected : BOOLEAN]

PreviewRecords == [state : {"none", "starting", "open", "closing", "gone"},
                   mutation : {NoMutation} \cup Pending]

RequestRecords ==
  [kind : {"none", "start", "snapshot", "restore", "stop"},
   at : {"idle", "stopping", "build", "boot", "list", "read", "copy", "verify",
         "aside", "activate", "putBack"},
   preview : Previews \cup {0}, revision : Revisions \cup {0}, todo : SUBSET Entities,
   manifest : FileMaps, copy : FileMaps, image : FileMaps, previous : Directories]

Typed ==
  /\ data \in Directories /\ kept \subseteq Directories
  /\ snapshots \subseteq [manifest : FileMaps, copy : FileMaps, image : FileMaps]
  /\ session \in Previews \cup {0}
  /\ preview \in [Previews -> PreviewRecords]
  /\ request \in [Slots -> RequestRecords]
  /\ sent \in 0..MaxRecords /\ owed \subseteq Records
  /\ crowded \in BOOLEAN /\ mixed \in BOOLEAN

\* What a request at its step rests on.
Founded(q) ==
  /\ q.at \in {"read", "copy"} => q.todo # {}
  /\ q.previous # NoDirectory => q.previous.there /\ q.at \in {"activate", "putBack"}
  /\ q.at = "putBack" => q.previous.there
  /\ q.at = "stopping" => q.kind # "none"
  /\ q.at \in {"stopping", "list"} => q.manifest = NoFiles /\ q.copy = NoFiles

\* The preview a request stops or starts is in the state for it, and its own.
Handled(k) ==
  /\ At(k, "stopping") => request[k].preview # 0 /\ preview[request[k].preview].state = "closing"
  /\ At(k, "boot") => request[k].preview # 0 /\ preview[request[k].preview].state = "starting"
Apart(j, k) ==
  request[j].at = request[k].at /\ request[j].at \in {"stopping", "boot"} =>
    j = k \/ request[j].preview # request[k].preview

Linked ==
  /\ session # 0 => preview[session].state = "open"
  /\ \A c \in Previews : Busy(c) => preview[c].state \in {"open", "closing"}
  /\ \A k \in Slots : Founded(request[k]) /\ Handled(k)
  /\ \A j, k \in Slots : Apart(j, k)

\* The files copied before stand for the moment the first was listed.
CopiedSoFar(q) ==
  q.at \in {"read", "copy"} =>
    /\ q.image = data.file
    /\ \A e \in Entities \ q.todo : q.manifest[e] = q.image[e] /\ q.copy[e] = q.image[e]
    /\ q.at = "copy" => q.manifest[Min(q.todo)] = q.image[Min(q.todo)]

\* As long as requests do not overlap, a preview runs only while no request is under way,
\* but for the one that stops it.
Alone ==
  ~crowded =>
    /\ \A j, k \in Slots : At(j, "idle") \/ At(k, "idle") \/ j = k
    /\ \A k \in Slots : At(k, "idle") \/ session = 0
    /\ \A c \in Previews : preview[c].state = "open" => c = session
    /\ \A c \in Previews :
         preview[c].state = "closing" =>
           \E k \in Slots : At(k, "stopping") /\ request[k].preview = c
    /\ \A k \in Slots : CopiedSoFar(request[k])
    /\ \A s \in snapshots : s.manifest = s.image

\* What a mutation writes keeps the records of its file, and fits the quota once that was
\* checked.
Extends(m) ==
  m # NoMutation =>
    /\ data.file[m.entity] \subseteq m.items /\ m.id \in m.items
    /\ m.at = "rename" => Size([data.file EXCEPT ![m.entity] = m.items]) <= Quota

\* Record x is in the data or in a directory next to it.
Somewhere(x) ==
  \/ x \in In(data.file)
  \/ \E d \in kept : x \in In(d.file)
  \/ \E k \in Slots : x \in In(request[k].previous.file)

AllThere == (\A x \in owed : Somewhere(x)) /\ Size(data.file) <= Quota

\* As long as mutations do not overlap one another or a restore.
OneMutation ==
  /\ \A c, d \in Previews : Busy(c) /\ Busy(d) => c = d
  /\ \A c \in Previews, k \in Slots : ~(Busy(c) /\ Swapping(k))
  /\ \A c \in Previews : Extends(preview[c].mutation)
  /\ \A k \in Slots :
       /\ request[k].at \in {"aside", "activate"} => Size(request[k].manifest) <= Quota
       /\ Size(request[k].previous.file) <= Quota
  /\ AllThere
Unmixed == ~mixed => OneMutation

RuntimeInv == Typed /\ Linked /\ Alone /\ Unmixed

-----------------------------------------------------------------------------

USE RuntimeAssumption

\* A set of numbers that is not empty has a least element, and Min is one of the set.
LEMMA LeastNat ==
  ASSUME NEW S \in SUBSET Nat, S # {}
  PROVE  \E n \in S : \A m \in S : n <= m
<1>1. \E n \in S : \A m \in S : ~(<<m, n>> \in OpToRel(<, Nat))
  BY NatLessThanWellFounded, WFMin
<1>2. ASSUME NEW n \in S, NEW m \in S, ~(<<m, n>> \in OpToRel(<, Nat))
      PROVE  n <= m
  BY <1>2 DEF OpToRel
<1> QED
  BY <1>1, <1>2

LEMMA MinIsIn ==
  ASSUME NEW S \in SUBSET Entities, S # {} PROVE Min(S) \in S
<1>1. S \in SUBSET Nat  BY DEF Entities
<1> QED  BY <1>1, LeastNat DEF Min

\* The empty files, directory, mutation and request.
LEMMA NoneTyped ==
  /\ NoFiles \in FileMaps /\ NoDirectory \in Directories
  /\ NoMutation \notin Pending /\ NoMutation.at = "none" /\ NoMutation.connected = FALSE
  /\ NoRequest \in RequestRecords /\ Founded(NoRequest) /\ NoRequest.at = "idle"
  /\ NoRequest.previous = NoDirectory
<1>1. NoFiles \in FileMaps
  BY DEF NoFiles, FileMaps
<1>2. NoDirectory \in Directories
  BY <1>1 DEF NoDirectory, Directories, FileMaps
<1>3. NoMutation \notin Pending /\ NoMutation.at = "none" /\ NoMutation.connected = FALSE
  BY DEF NoMutation, Pending
<1>4. NoRequest \in RequestRecords
  BY <1>1, <1>2 DEF NoRequest, RequestRecords
<1>5. NoRequest.at = "idle" /\ NoRequest.previous = NoDirectory /\ Founded(NoRequest)
  BY DEF NoRequest, Founded
<1> QED  BY <1>1, <1>2, <1>3, <1>4, <1>5

LEMMA EmptySize == Size(NoFiles) = 0 /\ In(NoFiles) = {}
<1>1. {x \in Entities \X Records : x[2] \in NoFiles[x[1]]} = {}
  BY DEF NoFiles
<1>2. In(NoFiles) = {}
  BY DEF In, NoFiles
<1> QED  BY <1>1, <1>2, FS_EmptySet DEF Size

-----------------------------------------------------------------------------
\* What the steps do to the previews and requests

\* Request k becomes q.
Becomes(k, q) ==
  q \in RequestRecords /\ Founded(q) /\ request' = [request EXCEPT ![k] = q]

\* Preview c becomes p.
Turns(c, p) ==
  p \in PreviewRecords /\ preview' = [preview EXCEPT ![c] = p]

\* A mutation under way has its entity, its record and what it writes.
LEMMA MutationState ==
  ASSUME Typed, NEW c \in Previews
  PROVE  /\ preview[c] \in PreviewRecords
         /\ preview[c].mutation.at \in {"prepare", "rename"} \/ preview[c].mutation.connected =>
              preview[c].mutation \in Pending /\ Busy(c)
         /\ Busy(c) => preview[c].mutation \in Pending
<1>1. preview[c] \in PreviewRecords  BY DEF Typed
<1>2. preview[c].mutation \in {NoMutation} \cup Pending  BY <1>1 DEF PreviewRecords
<1> QED  BY <1>1, <1>2, NoneTyped DEF Busy

LEMMA DoneStep ==
  ASSUME NEW k \in Slots, Done(k) PROVE Becomes(k, NoRequest)
  BY NoneTyped DEF Done, Becomes

LEMMA GotoStep ==
  ASSUME Typed, NEW k \in Slots, NEW s \in {"build", "list", "verify", "aside", "activate", "putBack"},
         Goto(k, s), Founded(request[k]), s = "list" => At(k, "stopping"), request[k].previous = NoDirectory \/ s \in {"activate", "putBack"},
         s = "putBack" => request[k].previous.there
  PROVE  Becomes(k, [request[k] EXCEPT !.at = s])
<1> DEFINE q == [request[k] EXCEPT !.at = s]
<1>1. request[k] \in RequestRecords  BY DEF Typed
<1>2. q \in RequestRecords  BY <1>1 DEF RequestRecords
<1>3. Founded(q)  BY <1>1 DEF RequestRecords, Founded, At
<1>4. request' = [request EXCEPT ![k] = q]  BY DEF Goto
<1> QED  BY <1>2, <1>3, <1>4 DEF Becomes

\* A step of a request that has nothing to do with previews.
Quiet(k, q) ==
  /\ Becomes(k, q) /\ ~At(k, "idle") /\ ~At(k, "stopping") /\ q.at \notin {"stopping", "boot"}
  /\ UNCHANGED <<session, preview, sent, crowded>>

\* A step that leaves the contents of the data and its directories alone.
Calm(k, q) ==
  /\ Becomes(k, q) /\ request[k].previous = NoDirectory /\ q.previous = NoDirectory
  /\ q.at \notin {"aside", "activate", "putBack"}
  /\ \A c \in Previews : preview'[c].mutation \in {preview[c].mutation, NoMutation}
  /\ data'.file = data.file /\ data' \in Directories
  /\ UNCHANGED <<kept, owed, mixed>>

\* A snapshot of files that did not change.
Faithful(s) == s.manifest = s.image /\ s.copy = s.image
SnapshotRecords == [manifest : FileMaps, copy : FileMaps, image : FileMaps]

LEMMA FileMapOfData == ASSUME Typed PROVE data.file \in FileMaps /\ data.temp \in SUBSET Previews
  BY DEF Typed, Directories, FileMaps

LEMMA ListStep ==
  ASSUME Typed, Linked, NEW k \in Slots, List(k)
  PROVE  \E q : /\ Quiet(k, q) /\ Calm(k, q) /\ CopiedSoFar(q) /\ UNCHANGED data
                /\ snapshots' \subseteq SnapshotRecords
                /\ \A s \in snapshots' : s \in snapshots \/ s.manifest = s.image
<1>1. request[k] \in RequestRecords /\ Founded(request[k]) /\ snapshots \subseteq SnapshotRecords
  BY DEF Typed, Linked, SnapshotRecords
<1>2. request[k].at = "list"  BY DEF List, At
<1>3. request[k].previous = NoDirectory  BY <1>1, <1>2 DEF Founded
<1>4. /\ UNCHANGED <<session, preview, sent, crowded>>
      /\ UNCHANGED <<data, kept, owed, mixed>>
      /\ \A c \in Previews : preview'[c].mutation \in {preview[c].mutation, NoMutation}
      /\ data' \in Directories
  BY DEF List, NoPreviews, NoHistory, Typed
<1>5. ASSUME NEW q, Becomes(k, q), q.previous = NoDirectory, CopiedSoFar(q),
             q.at \in {"idle", "read"},
             snapshots' \subseteq SnapshotRecords,
             \A s \in snapshots' : s \in snapshots \/ s.manifest = s.image
      PROVE  \E r : /\ Quiet(k, r) /\ Calm(k, r) /\ CopiedSoFar(r) /\ UNCHANGED data
                    /\ snapshots' \subseteq SnapshotRecords
                    /\ \A s \in snapshots' : s \in snapshots \/ s.manifest = s.image
  <2>1. Quiet(k, q)  BY <1>2, <1>4, <1>5 DEF Quiet, At
  <2>2. Calm(k, q)  BY <1>3, <1>4, <1>5 DEF Calm
  <2> QED  BY <1>4, <1>5, <2>1, <2>2
<1>6. CopiedSoFar(NoRequest)  BY NoneTyped DEF CopiedSoFar
<1>7. CASE Done(k) /\ UNCHANGED snapshots
  BY <1>1, <1>5, <1>6, <1>7, DoneStep, NoneTyped
<1>8. CASE Sealed(k, NoFiles, NoFiles, NoFiles)
  <2>1. Done(k) /\ snapshots' = snapshots \cup {[manifest |-> NoFiles, copy |-> NoFiles, image |-> NoFiles]}
    BY <1>8 DEF Sealed
  <2>2. [manifest |-> NoFiles, copy |-> NoFiles, image |-> NoFiles] \in SnapshotRecords
    BY NoneTyped DEF SnapshotRecords
  <2>3. snapshots' \subseteq SnapshotRecords /\ \A s \in snapshots' : s \in snapshots \/ s.manifest = s.image
    BY <1>1, <2>1, <2>2
  <2> QED  BY <1>5, <1>6, <2>1, <2>3, DoneStep, NoneTyped
<1>9. CASE /\ request' = [request EXCEPT ![k].at = "read", ![k].image = data.file,
                                   ![k].todo = {e \in Entities : data.file[e] # {}}]
           /\ UNCHANGED snapshots /\ ~Vacant(data) /\ data.temp = {}
  <2> DEFINE q == [request[k] EXCEPT !.at = "read", !.image = data.file,
                                     !.todo = {e \in Entities : data.file[e] # {}}]
  <2>1. request' = [request EXCEPT ![k] = q]  BY <1>9
  <2>2. q \in RequestRecords  BY <1>1, FileMapOfData DEF RequestRecords
  <2>3. /\ q.at = "read" /\ q.image = data.file /\ q.todo = {e \in Entities : data.file[e] # {}}
        /\ q.previous = NoDirectory /\ q.manifest = request[k].manifest /\ q.copy = request[k].copy
    BY <1>1, <1>3 DEF RequestRecords
  <2> HIDE DEF q
  <2>4. data.file # NoFiles  BY <1>9 DEF Vacant
  <2>5. q.todo # {}
    BY <2>3, <2>4, FileMapOfData DEF FileMaps, NoFiles
  <2>6. Founded(q)  BY <2>3, <2>5 DEF Founded
  <2>7. Becomes(k, q)  BY <2>1, <2>2, <2>6 DEF Becomes
  <2>8. CopiedSoFar(q)
    <3>1. q.manifest = NoFiles /\ q.copy = NoFiles  BY <1>1, <1>2, <2>3 DEF Founded
    <3>2. \A e \in Entities \ q.todo : q.image[e] = NoFiles[e]  BY <2>3 DEF NoFiles
    <3> QED  BY <2>3, <3>1, <3>2 DEF CopiedSoFar
  <2> QED  BY <1>1, <1>5, <1>9, <2>3, <2>7, <2>8
<1> QED
  BY <1>7, <1>8, <1>9 DEF List

LEMMA ReadFileStep ==
  ASSUME Typed, Linked, NEW k \in Slots, ReadFile(k)
  PROVE  \E q : /\ Quiet(k, q) /\ Calm(k, q) /\ UNCHANGED <<data, snapshots>>
                /\ CopiedSoFar(request[k]) => CopiedSoFar(q)
<1>1. request[k] \in RequestRecords /\ Founded(request[k])
  BY DEF Typed, Linked
<1>2. request[k].at = "read"  BY DEF ReadFile, At
<1>3. request[k].previous = NoDirectory  BY <1>1, <1>2 DEF Founded
<1>4. /\ UNCHANGED <<session, preview, sent, crowded>>
      /\ UNCHANGED <<data, kept, owed, mixed, snapshots>>
      /\ \A c \in Previews : preview'[c].mutation \in {preview[c].mutation, NoMutation}
      /\ data' \in Directories
  BY DEF ReadFile, NoPreviews, NoHistory, NoData, Typed
<1>5. ASSUME NEW q, Becomes(k, q), q.previous = NoDirectory, q.at \in {"idle", "copy"},
             CopiedSoFar(request[k]) => CopiedSoFar(q)
      PROVE  \E r : /\ Quiet(k, r) /\ Calm(k, r) /\ UNCHANGED <<data, snapshots>>
                    /\ CopiedSoFar(request[k]) => CopiedSoFar(r)
  <2>1. Quiet(k, q)  BY <1>2, <1>4, <1>5 DEF Quiet, At
  <2>2. Calm(k, q)  BY <1>3, <1>4, <1>5 DEF Calm
  <2> QED  BY <1>4, <1>5, <2>1, <2>2
<1>6. CASE Done(k)
  <2>1. CopiedSoFar(NoRequest)  BY NoneTyped DEF CopiedSoFar
  <2> QED  BY <1>5, <1>6, <2>1, DoneStep, NoneTyped
<1>7. CASE request' = [request EXCEPT ![k].manifest[NextFile(k)] = data.file[NextFile(k)], ![k].at = "copy"]
  <2> DEFINE e == Min(request[k].todo)
             m == [request[k].manifest EXCEPT ![e] = data.file[e]]
             q == [request[k] EXCEPT !.manifest = m, !.at = "copy"]
  <2>0. request[k].todo # {} /\ request[k].todo \in SUBSET Entities
    BY <1>1, <1>2 DEF Founded, RequestRecords
  <2>1. e \in request[k].todo /\ e \in Entities
    BY <2>0, MinIsIn
  <2>2. request' = [request EXCEPT ![k] = q]
    BY <1>7 DEF NextFile
  <2>3. m \in FileMaps
    BY <1>1, <2>1, FileMapOfData DEF FileMaps, RequestRecords
  <2>4. m[e] = data.file[e] /\ \A f \in Entities \ request[k].todo : m[f] = request[k].manifest[f]
    BY <1>1, <2>1 DEF FileMaps, RequestRecords
  <2> HIDE DEF m
  <2>5. q \in RequestRecords  BY <1>1, <2>3 DEF RequestRecords
  <2>6. /\ q.at = "copy" /\ q.image = request[k].image /\ q.todo = request[k].todo
        /\ q.previous = NoDirectory /\ q.manifest = m /\ q.copy = request[k].copy
    BY <1>1, <1>3 DEF RequestRecords
  <2> HIDE DEF q
  <2>7. Founded(q)  BY <2>0, <2>6 DEF Founded
  <2>8. Becomes(k, q)  BY <2>2, <2>5, <2>7 DEF Becomes
  <2>9. CopiedSoFar(request[k]) => CopiedSoFar(q)
    BY <1>2, <2>4, <2>6 DEF CopiedSoFar
  <2> QED  BY <1>5, <2>6, <2>8, <2>9
<1> QED
  BY <1>6, <1>7 DEF ReadFile

LEMMA CopyFileStep ==
  ASSUME Typed, Linked, NEW k \in Slots, CopyFile(k)
  PROVE  \E q : /\ Quiet(k, q) /\ Calm(k, q) /\ UNCHANGED data
                /\ snapshots' \subseteq SnapshotRecords
                /\ CopiedSoFar(request[k]) =>
                     /\ CopiedSoFar(q)
                     /\ \A s \in snapshots' : s \in snapshots \/ s.manifest = s.image
<1>1. request[k] \in RequestRecords /\ Founded(request[k]) /\ snapshots \subseteq SnapshotRecords
  BY DEF Typed, Linked, SnapshotRecords
<1>2. request[k].at = "copy"  BY DEF CopyFile, At
<1>3. request[k].previous = NoDirectory  BY <1>1, <1>2 DEF Founded
<1>4. /\ UNCHANGED <<session, preview, sent, crowded>>
      /\ UNCHANGED <<data, kept, owed, mixed>>
      /\ \A c \in Previews : preview'[c].mutation \in {preview[c].mutation, NoMutation}
      /\ data' \in Directories
  BY DEF CopyFile, NoPreviews, NoHistory, Typed
<1>5. ASSUME NEW q, Becomes(k, q), q.previous = NoDirectory, q.at \in {"idle", "read"},
             snapshots' \subseteq SnapshotRecords,
             CopiedSoFar(request[k]) =>
               CopiedSoFar(q) /\ \A s \in snapshots' : s \in snapshots \/ s.manifest = s.image
      PROVE  \E r : /\ Quiet(k, r) /\ Calm(k, r) /\ UNCHANGED data
                    /\ snapshots' \subseteq SnapshotRecords
                    /\ CopiedSoFar(request[k]) =>
                         /\ CopiedSoFar(r)
                         /\ \A s \in snapshots' : s \in snapshots \/ s.manifest = s.image
  <2>1. Quiet(k, q)  BY <1>2, <1>4, <1>5 DEF Quiet, At
  <2>2. Calm(k, q)  BY <1>3, <1>4, <1>5 DEF Calm
  <2> QED  BY <1>4, <1>5, <2>1, <2>2
<1>6. CopiedSoFar(NoRequest)  BY NoneTyped DEF CopiedSoFar
<1>7. CASE Done(k) /\ UNCHANGED snapshots
  BY <1>1, <1>5, <1>6, <1>7, DoneStep, NoneTyped
<1> DEFINE e == Min(request[k].todo)
           c == [request[k].copy EXCEPT ![e] = data.file[e]]
<1>8. request[k].todo # {} /\ request[k].todo \in SUBSET Entities
  BY <1>1, <1>2 DEF Founded, RequestRecords
<1>9. e \in request[k].todo /\ e \in Entities
  BY <1>8, MinIsIn
<1>10. c \in FileMaps
  BY <1>1, <1>9, FileMapOfData DEF FileMaps, RequestRecords
<1>11. c[e] = data.file[e] /\ \A f \in Entities : f # e => c[f] = request[k].copy[f]
  BY <1>1, <1>9 DEF FileMaps, RequestRecords
<1> HIDE DEF c
<1>12. CASE request[k].todo = {e} /\ Sealed(k, request[k].manifest, c, request[k].image)
  <2> DEFINE t == [manifest |-> request[k].manifest, copy |-> c, image |-> request[k].image]
  <2>1. Done(k) /\ snapshots' = snapshots \cup {t}
    BY <1>12 DEF Sealed
  <2>2. t \in SnapshotRecords
    BY <1>1, <1>10 DEF SnapshotRecords, RequestRecords
  <2>3. ASSUME CopiedSoFar(request[k]) PROVE t.manifest = t.image
    <3>1. \A f \in Entities : request[k].manifest[f] = request[k].image[f]
      BY <1>2, <1>12, <2>3 DEF CopiedSoFar
    <3>2. request[k].manifest \in FileMaps /\ request[k].image \in FileMaps
      BY <1>1 DEF RequestRecords
    <3>3. request[k].manifest = request[k].image
      BY <3>1, <3>2 DEF FileMaps
    <3> QED  BY <3>3
  <2> HIDE DEF t
  <2>4. snapshots' \subseteq SnapshotRecords  BY <1>1, <2>1, <2>2
  <2> QED  BY <1>5, <1>6, <2>1, <2>3, <2>4, DoneStep, NoneTyped
<1>13. CASE /\ request[k].todo # {e} /\ UNCHANGED snapshots
            /\ request' = [request EXCEPT ![k].at = "read", ![k].copy = c, ![k].todo = @ \ {e}]
  <2> DEFINE q == [request[k] EXCEPT !.at = "read", !.copy = c, !.todo = @ \ {e}]
  <2>1. request' = [request EXCEPT ![k] = q]  BY <1>13
  <2>2. q \in RequestRecords  BY <1>1, <1>10 DEF RequestRecords
  <2>3. /\ q.at = "read" /\ q.image = request[k].image /\ q.todo = request[k].todo \ {e}
        /\ q.previous = NoDirectory /\ q.manifest = request[k].manifest /\ q.copy = c
    BY <1>1, <1>3 DEF RequestRecords
  <2> HIDE DEF q
  <2>4. q.todo # {}  BY <1>9, <1>13, <2>3
  <2>5. Founded(q)  BY <2>3, <2>4 DEF Founded
  <2>6. Becomes(k, q)  BY <2>1, <2>2, <2>5 DEF Becomes
  <2>7. CopiedSoFar(request[k]) => CopiedSoFar(q)
    BY <1>2, <1>9, <1>11, <2>3 DEF CopiedSoFar
  <2> QED  BY <1>1, <1>5, <1>13, <2>3, <2>6, <2>7
<1>14. \/ Done(k) /\ UNCHANGED snapshots
       \/ request[k].todo = {e} /\ Sealed(k, request[k].manifest, c, request[k].image)
       \/ /\ request[k].todo # {e} /\ UNCHANGED snapshots
          /\ request' = [request EXCEPT ![k].at = "read", ![k].copy = c, ![k].todo = @ \ {e}]
  BY DEF CopyFile, NextFile, c
<1> QED
  BY <1>7, <1>12, <1>13, <1>14

\* The image of a request that copies no files says nothing.
LEMMA NothingCopied ==
  ASSUME NEW q, q.at \notin {"read", "copy"} PROVE CopiedSoFar(q) /\ CopiedSoFar(q)'
  BY DEF CopiedSoFar

LEMMA VerifyStep ==
  ASSUME Typed, Linked, NEW k \in Slots, Verify(k)
  PROVE  \E q : /\ Quiet(k, q) /\ UNCHANGED <<data, kept, snapshots, owed>>
                /\ q.at \notin {"read", "copy"} /\ request[k].previous = NoDirectory
                /\ \/ Calm(k, q)
                   \/ /\ q.at \in {"aside", "activate"} /\ q.previous = NoDirectory
                      /\ Size(q.manifest) <= Quota
                      /\ mixed' = (mixed \/ \E c \in Previews : Busy(c))
<1>1. request[k] \in RequestRecords /\ Founded(request[k]) /\ snapshots \subseteq SnapshotRecords
  BY DEF Typed, Linked, SnapshotRecords
<1>2. request[k].at = "verify"  BY DEF Verify, At
<1>3. request[k].previous = NoDirectory  BY <1>1, <1>2 DEF Founded
<1>4. UNCHANGED <<session, preview, sent, crowded, data, kept, snapshots, owed>>
  BY DEF Verify, NoPreviews, NoData
<1>5. PICK s \in snapshots :
        IF s.manifest = s.copy /\ Size(s.manifest) <= Quota
        THEN /\ request' = [request EXCEPT ![k].manifest = s.manifest,
                              ![k].at = IF data.there THEN "aside" ELSE "activate"]
             /\ mixed' = (mixed \/ \E c \in Previews : Busy(c))
        ELSE Done(k) /\ UNCHANGED mixed
  BY DEF Verify
<1>6. CASE Done(k) /\ UNCHANGED mixed
  <2>1. Becomes(k, NoRequest)  BY <1>6, DoneStep
  <2>2. Quiet(k, NoRequest)  BY <1>2, <1>4, <2>1, NoneTyped DEF Quiet, At
  <2>3. Calm(k, NoRequest)  BY <1>3, <1>4, <1>6, <2>1, NoneTyped DEF Calm, Typed
  <2> QED  BY <1>3, <1>4, <2>2, <2>3, NoneTyped
<1>7. CASE /\ Size(s.manifest) <= Quota
           /\ request' = [request EXCEPT ![k].manifest = s.manifest,
                              ![k].at = IF data.there THEN "aside" ELSE "activate"]
           /\ mixed' = (mixed \/ \E c \in Previews : Busy(c))
  <2> DEFINE q == [request[k] EXCEPT !.manifest = s.manifest,
                              !.at = IF data.there THEN "aside" ELSE "activate"]
  <2>1. request' = [request EXCEPT ![k] = q]  BY <1>7
  <2>2. q \in RequestRecords  BY <1>1 DEF RequestRecords, SnapshotRecords
  <2>3. q.at \in {"aside", "activate"} /\ q.previous = NoDirectory /\ q.manifest = s.manifest
    BY <1>1, <1>3 DEF RequestRecords
  <2> HIDE DEF q
  <2>4. Founded(q)  BY <2>3 DEF Founded
  <2>5. Quiet(k, q)  BY <1>2, <1>4, <2>1, <2>2, <2>3, <2>4 DEF Quiet, Becomes, At
  <2> QED  BY <1>3, <1>4, <1>7, <2>3, <2>5
<1> QED  BY <1>5, <1>6, <1>7

LEMMA AsideStep ==
  ASSUME Typed, Linked, NEW k \in Slots, Aside(k)
  PROVE  \E q : /\ Quiet(k, q) /\ UNCHANGED <<kept, snapshots, owed, mixed>>
                /\ q.at \notin {"read", "copy"} /\ request[k].previous = NoDirectory
                /\ \/ Calm(k, q) /\ UNCHANGED data
                   \/ /\ At(k, "aside") /\ q.at = "activate" /\ q.manifest = request[k].manifest
                      /\ q.previous = data /\ data' = NoDirectory
<1>1. request[k] \in RequestRecords /\ Founded(request[k])
  BY DEF Typed, Linked
<1>2. request[k].at = "aside"  BY DEF Aside, At
<1>3. request[k].previous = NoDirectory  BY <1>1, <1>2 DEF Founded
<1>4. UNCHANGED <<session, preview, sent, crowded, mixed, kept, snapshots, owed>>
  BY DEF Aside, NoPreviews, NoHistory
<1>5. CASE Done(k) /\ UNCHANGED data
  <2>1. Becomes(k, NoRequest)  BY <1>5, DoneStep
  <2>2. Quiet(k, NoRequest)  BY <1>2, <1>4, <2>1, NoneTyped DEF Quiet, At
  <2>3. Calm(k, NoRequest)  BY <1>3, <1>4, <1>5, <2>1, NoneTyped DEF Calm, Typed
  <2> QED  BY <1>3, <1>4, <1>5, <2>2, <2>3, NoneTyped
<1>6. CASE /\ data.there /\ data' = NoDirectory
           /\ request' = [request EXCEPT ![k].previous = data, ![k].at = "activate"]
  <2> DEFINE q == [request[k] EXCEPT !.previous = data, !.at = "activate"]
  <2>1. request' = [request EXCEPT ![k] = q]  BY <1>6
  <2>2. q \in RequestRecords  BY <1>1 DEF RequestRecords, Typed
  <2>3. q.at = "activate" /\ q.previous = data /\ q.manifest = request[k].manifest
    BY <1>1 DEF RequestRecords
  <2> HIDE DEF q
  <2>4. Founded(q)  BY <1>6, <2>3 DEF Founded
  <2>5. Quiet(k, q)  BY <1>2, <1>4, <2>1, <2>2, <2>3, <2>4 DEF Quiet, Becomes, At
  <2> QED  BY <1>2, <1>3, <1>4, <1>6, <2>3, <2>5 DEF At
<1> QED  BY <1>5, <1>6 DEF Aside

LEMMA ActivateStep ==
  ASSUME Typed, Linked, NEW k \in Slots, Activate(k)
  PROVE  /\ Quiet(k, NoRequest) /\ At(k, "activate") /\ UNCHANGED <<kept, snapshots, mixed>>
         /\ data' = Directory(request[k].manifest) /\ owed' = In(request[k].manifest)
         /\ request[k].manifest \in FileMaps
<1>1. request[k] \in RequestRecords  BY DEF Typed
<1>2. Becomes(k, NoRequest)  BY DoneStep DEF Activate
<1>3. Quiet(k, NoRequest)  BY <1>2, NoneTyped DEF Activate, Quiet, At, NoPreviews, NoHistory
<1> QED  BY <1>1, <1>3 DEF Activate, NoHistory, RequestRecords

LEMMA ActivateFailsStep ==
  ASSUME Typed, Linked, NEW k \in Slots, ActivateFails(k)
  PROVE  \E q : /\ Quiet(k, q) /\ UNCHANGED <<data, kept, snapshots, owed, mixed>>
                /\ q.at \in {"idle", "putBack"} /\ q.previous = request[k].previous
<1>1. request[k] \in RequestRecords /\ Founded(request[k])
  BY DEF Typed, Linked
<1>2. request[k].at = "activate"  BY DEF ActivateFails, At
<1>3. UNCHANGED <<session, preview, sent, crowded, data, kept, snapshots, owed, mixed>>
  BY DEF ActivateFails, NoPreviews, NoData, NoHistory
<1>4. CASE ~request[k].previous.there /\ Done(k)
  <2>1. Becomes(k, NoRequest)  BY <1>4, DoneStep
  <2>2. request[k].previous = NoDirectory  BY <1>1, <1>4 DEF Founded
  <2> QED  BY <1>2, <1>3, <2>1, <2>2, NoneTyped DEF Quiet, At
<1>5. CASE request[k].previous.there /\ Goto(k, "putBack")
  <2> DEFINE q == [request[k] EXCEPT !.at = "putBack"]
  <2>1. Becomes(k, q)  BY <1>1, <1>5, GotoStep
  <2>2. q.at = "putBack" /\ q.previous = request[k].previous  BY <1>1 DEF RequestRecords
  <2> HIDE DEF q
  <2> QED  BY <1>2, <1>3, <2>1, <2>2 DEF Quiet, At
<1> QED  BY <1>4, <1>5 DEF ActivateFails, MovedAside

LEMMA PutBackStep ==
  ASSUME Typed, Linked, NEW k \in Slots, PutBack(k)
  PROVE  /\ Quiet(k, NoRequest) /\ At(k, "putBack") /\ UNCHANGED <<snapshots, owed, mixed>>
         /\ request[k].previous \in Directories
         /\ \/ Vacant(data) /\ data' = request[k].previous /\ UNCHANGED kept
            \/ data' = data /\ kept' = kept \cup {request[k].previous}
<1>1. request[k] \in RequestRecords  BY DEF Typed
<1>2. Becomes(k, NoRequest)  BY DoneStep DEF PutBack
<1>3. Quiet(k, NoRequest)  BY <1>2, NoneTyped DEF PutBack, Quiet, At, NoPreviews, NoHistory
<1> QED  BY <1>1, <1>3 DEF PutBack, NoHistory, RequestRecords

-----------------------------------------------------------------------------

LEMMA BeginStep ==
  ASSUME Typed, Linked, NEW k \in Slots, NEW r \in Revisions \cup {0},
         NEW kind \in {"start", "snapshot", "restore", "stop"}, Begin(k, kind, r)
  PROVE  \E q : /\ Calm(k, q) /\ At(k, "idle") /\ q.at \notin {"idle", "read", "copy"}
                /\ session' = 0 /\ crowded' = (crowded \/ ~Idle) /\ UNCHANGED <<data, snapshots, sent>>
                /\ \/ /\ session # 0 /\ q.at = "stopping" /\ q.preview = session
                      /\ preview' = [preview EXCEPT ![session].state = "closing"]
                   \/ session = 0 /\ q.at \notin {"stopping", "boot"} /\ UNCHANGED preview
<1> DEFINE begun == [NoRequest EXCEPT !.kind = kind, !.revision = r]
<1>1. At(k, "idle") /\ request[k] \in RequestRecords /\ Founded(request[k])
  BY DEF Begin, FirstFree, Free, Typed, Linked
<1>2. request[k].previous = NoDirectory  BY <1>1 DEF Founded, At
<1>3. /\ session' = 0 /\ crowded' = (crowded \/ ~Idle) /\ UNCHANGED <<data, snapshots, sent, kept, owed, mixed>>
      /\ data' \in Directories
  BY DEF Begin, NoData, Typed
<1>4. begun \in RequestRecords /\ begun.previous = NoDirectory /\ begun.manifest = NoFiles /\ begun.copy = NoFiles
  BY NoneTyped DEF RequestRecords, NoRequest
<1>5. CASE session # 0
  <2> DEFINE q == [begun EXCEPT !.at = "stopping", !.preview = session]
  <2>1. request' = [request EXCEPT ![k] = q] /\ preview' = [preview EXCEPT ![session].state = "closing"]
    BY <1>5 DEF Begin
  <2>2. session \in Previews  BY <1>5 DEF Typed
  <2>3. /\ q \in RequestRecords /\ q.at = "stopping" /\ q.preview = session /\ q.previous = NoDirectory
        /\ q.kind = kind /\ q.manifest = NoFiles /\ q.copy = NoFiles
    BY <1>4, <2>2 DEF RequestRecords
  <2> HIDE DEF q
  <2>4. Founded(q)  BY <2>3 DEF Founded
  <2>5. \A c \in Previews : preview'[c].mutation \in {preview[c].mutation, NoMutation}
    BY <2>1, <2>2 DEF Typed, PreviewRecords
  <2>6. Calm(k, q)  BY <1>2, <1>3, <2>1, <2>3, <2>4, <2>5 DEF Calm, Becomes
  <2> QED  BY <1>1, <1>3, <1>5, <2>1, <2>3, <2>6
<1>6. CASE session = 0
  <2> DEFINE q == [begun EXCEPT !.at = After(kind)]
  <2>1. kind # "stop" /\ request' = [request EXCEPT ![k] = q] /\ UNCHANGED preview
    BY <1>6 DEF Begin
  <2>2. After(kind) \in {"build", "list", "verify"}
    BY <2>1 DEF After
  <2>3. /\ q \in RequestRecords /\ q.at \in {"build", "list", "verify"} /\ q.previous = NoDirectory
        /\ q.manifest = NoFiles /\ q.copy = NoFiles
    BY <1>4, <2>2 DEF RequestRecords
  <2> HIDE DEF q
  <2>4. Founded(q)  BY <2>3 DEF Founded
  <2>5. Calm(k, q)  BY <1>2, <1>3, <2>1, <2>3, <2>4 DEF Calm, Becomes
  <2> QED  BY <1>1, <1>3, <1>6, <2>1, <2>3, <2>5
<1> QED  BY <1>5, <1>6

LEMMA StoppedStep ==
  ASSUME Typed, Linked, NEW k \in Slots, Stopped(k)
  PROVE  \E q : /\ Calm(k, q) /\ At(k, "stopping") /\ q.at \notin {"read", "copy", "stopping", "boot"}
                /\ UNCHANGED <<data, snapshots, session, crowded, sent>>
                /\ request[k].preview \in Previews
                /\ preview' = [preview EXCEPT ![request[k].preview] = [state |-> "gone", mutation |-> NoMutation]]
<1>1. At(k, "stopping") /\ request[k] \in RequestRecords /\ Founded(request[k]) /\ Handled(k)
  BY DEF Stopped, Typed, Linked
<1>2. request[k].previous = NoDirectory  BY <1>1 DEF Founded, At
<1>3. request[k].preview \in Previews  BY <1>1 DEF Handled, RequestRecords
<1>4. /\ UNCHANGED <<data, snapshots, session, crowded, sent, kept, owed, mixed>>
      /\ data' \in Directories
  BY DEF Stopped, NoData, NoHistory, Typed
<1>5. preview' = [preview EXCEPT ![request[k].preview] = [state |-> "gone", mutation |-> NoMutation]]
  BY DEF Stopped
<1>6. \A c \in Previews : preview'[c].mutation \in {preview[c].mutation, NoMutation}
  BY <1>3, <1>5 DEF Typed
<1>7. CASE Done(k)
  <2>1. Becomes(k, NoRequest)  BY <1>7, DoneStep
  <2>2. Calm(k, NoRequest)  BY <1>2, <1>4, <1>6, <2>1, NoneTyped DEF Calm
  <2> QED  BY <1>1, <1>3, <1>4, <1>5, <2>2, NoneTyped
<1>8. CASE request[k].kind # "stop" /\ Goto(k, After(request[k].kind))
  <2> DEFINE s == After(request[k].kind)
             q == [request[k] EXCEPT !.at = s]
  <2>1. CASE request[k].kind \in {"start", "snapshot", "restore"}
    <3>1. s \in {"build", "list", "verify"}  BY <2>1 DEF After
    <3> HIDE DEF s
    <3>2. Becomes(k, q)  BY <1>1, <1>2, <1>8, <3>1, GotoStep DEF s
    <3>3. q.at = s /\ q.previous = NoDirectory  BY <1>1, <1>2 DEF RequestRecords
    <3> HIDE DEF q
    <3>4. Calm(k, q)  BY <1>2, <1>4, <1>6, <3>1, <3>2, <3>3 DEF Calm
    <3>5. q.at \notin {"read", "copy", "stopping", "boot"}  BY <3>1, <3>3
    <3> QED  BY <1>1, <1>3, <1>4, <1>5, <3>4, <3>5
  <2>2. request[k].kind # "none"  BY <1>1 DEF Founded, At
  <2> QED  BY <1>1, <1>8, <2>1, <2>2 DEF RequestRecords
<1> QED  BY <1>7, <1>8 DEF Stopped

\* A request for a preview that could not be built ends.
LEMMA ForkStep ==
  ASSUME Typed, Linked, NEW k \in Slots, Fork(k)
  PROVE  /\ UNCHANGED <<snapshots, session, crowded, sent>>
         /\ \/ Calm(k, NoRequest) /\ Quiet(k, NoRequest) /\ UNCHANGED data
            \/ \E q : \E c \in Previews :
                 /\ Calm(k, q) /\ At(k, "build") /\ q.at = "boot" /\ q.preview = c
                 /\ preview[c].state = "none"
                 /\ preview' = [preview EXCEPT ![c].state = "starting"]
<1>1. At(k, "build") /\ request[k] \in RequestRecords /\ Founded(request[k])
  BY DEF Fork, Typed, Linked
<1>2. request[k].previous = NoDirectory  BY <1>1 DEF Founded, At
<1>3. UNCHANGED <<snapshots, session, crowded, sent, kept, owed, mixed>>
  BY DEF Fork, NoHistory
<1>4. CASE Done(k) /\ UNCHANGED <<data, preview>>
  <2>1. Becomes(k, NoRequest)  BY <1>4, DoneStep
  <2>2. Calm(k, NoRequest)  BY <1>2, <1>3, <1>4, <2>1, NoneTyped DEF Calm, Typed
  <2>3. Quiet(k, NoRequest)  BY <1>1, <1>3, <1>4, <2>1, NoneTyped DEF Quiet, At
  <2> QED  BY <1>3, <1>4, <2>2, <2>3
<1>5. ASSUME NEW c \in Previews, preview[c].state = "none",
             preview' = [preview EXCEPT ![c].state = "starting"],
             request' = [request EXCEPT ![k].at = "boot", ![k].preview = c],
             data' = [data EXCEPT !.there = TRUE]
      PROVE  \E q : /\ Calm(k, q) /\ At(k, "build") /\ q.at = "boot" /\ q.preview = c
  <2> DEFINE q == [request[k] EXCEPT !.at = "boot", !.preview = c]
  <2>1. request' = [request EXCEPT ![k] = q]  BY <1>5
  <2>2. q \in RequestRecords  BY <1>1 DEF RequestRecords
  <2>3. q.at = "boot" /\ q.preview = c /\ q.previous = NoDirectory  BY <1>1, <1>2 DEF RequestRecords
  <2> HIDE DEF q
  <2>4. Founded(q)  BY <2>3 DEF Founded
  <2>5. data' \in Directories /\ data'.file = data.file  BY <1>5 DEF Typed, Directories
  <2>6. \A d \in Previews : preview'[d].mutation \in {preview[d].mutation, NoMutation}
    BY <1>5 DEF Typed, PreviewRecords
  <2>7. Calm(k, q)  BY <1>2, <1>3, <2>1, <2>2, <2>3, <2>4, <2>5, <2>6 DEF Calm, Becomes
  <2> QED  BY <1>1, <2>3, <2>7
<1>6. CASE \E c \in Previews :
              /\ preview[c].state = "none" /\ \A d \in 1..(c - 1) : preview[d].state # "none"
              /\ preview' = [preview EXCEPT ![c].state = "starting"]
              /\ request' = [request EXCEPT ![k].at = "boot", ![k].preview = c]
              /\ data' = [data EXCEPT !.there = TRUE]
  <2>1. PICK c \in Previews :
          /\ preview[c].state = "none"
          /\ preview' = [preview EXCEPT ![c].state = "starting"]
          /\ request' = [request EXCEPT ![k].at = "boot", ![k].preview = c]
          /\ data' = [data EXCEPT !.there = TRUE]
    BY <1>6
  <2>2. \E q : /\ Calm(k, q) /\ At(k, "build") /\ q.at = "boot" /\ q.preview = c
    BY <1>5, <2>1
  <2> QED  BY <1>3, <2>1, <2>2
<1> QED  BY <1>4, <1>6 DEF Fork

LEMMA BootStep ==
  ASSUME Typed, Linked, NEW k \in Slots, Boot(k)
  PROVE  /\ Calm(k, NoRequest) /\ At(k, "boot") /\ UNCHANGED <<snapshots, crowded, sent>>
         /\ request[k].preview \in Previews /\ session' = request[k].preview
         /\ preview[request[k].preview].state = "starting"
         /\ preview' = [preview EXCEPT ![request[k].preview].state = "open"]
<1>1. At(k, "boot") /\ request[k] \in RequestRecords /\ Founded(request[k]) /\ Handled(k)
  BY DEF Boot, Typed, Linked
<1>2. request[k].previous = NoDirectory  BY <1>1 DEF Founded, At
<1>3. request[k].preview \in Previews /\ preview[request[k].preview].state = "starting"
  BY <1>1 DEF Handled, RequestRecords
<1>4. /\ UNCHANGED <<snapshots, crowded, sent, kept, owed, mixed>> /\ session' = request[k].preview
      /\ preview' = [preview EXCEPT ![request[k].preview].state = "open"]
      /\ data' = [data EXCEPT !.there = TRUE] /\ Done(k)
  BY DEF Boot, NoHistory
<1>5. data' \in Directories /\ data'.file = data.file  BY <1>4 DEF Typed, Directories
<1>6. \A c \in Previews : preview'[c].mutation \in {preview[c].mutation, NoMutation}
  BY <1>3, <1>4 DEF Typed, PreviewRecords
<1>7. Calm(k, NoRequest)  BY <1>2, <1>4, <1>5, <1>6, DoneStep, NoneTyped DEF Calm
<1> QED  BY <1>1, <1>3, <1>4, <1>7

LEMMA FailStep ==
  ASSUME Typed, Linked, NEW k \in Slots, Fail(k)
  PROVE  /\ Calm(k, NoRequest) /\ UNCHANGED <<data, snapshots, session, crowded, sent>>
         /\ \/ Quiet(k, NoRequest)
            \/ /\ At(k, "boot") /\ request[k].preview \in Previews
               /\ preview[request[k].preview].state = "starting"
               /\ preview' = [preview EXCEPT ![request[k].preview].state = "gone"]
<1>1. request[k] \in RequestRecords /\ Founded(request[k]) /\ Handled(k)
  BY DEF Typed, Linked
<1>2. request[k].at \in {"build", "boot", "list", "read", "copy", "verify", "aside"}  BY DEF Fail
<1>3. request[k].previous = NoDirectory  BY <1>1, <1>2 DEF Founded
<1>4. UNCHANGED <<data, snapshots, session, crowded, sent, kept, owed, mixed>> /\ data' \in Directories
  BY DEF Fail, NoData, NoHistory, Typed
<1>5. Becomes(k, NoRequest)  BY DoneStep DEF Fail
<1>6. CASE At(k, "boot")
  <2>1. request[k].preview \in Previews /\ preview[request[k].preview].state = "starting"
    BY <1>1, <1>6 DEF Handled, RequestRecords
  <2>2. preview' = [preview EXCEPT ![request[k].preview].state = "gone"]
    BY <1>6 DEF Fail
  <2>3. \A c \in Previews : preview'[c].mutation \in {preview[c].mutation, NoMutation}
    BY <2>1, <2>2 DEF Typed, PreviewRecords
  <2>4. Calm(k, NoRequest)  BY <1>3, <1>4, <1>5, <2>3, NoneTyped DEF Calm
  <2> QED  BY <1>4, <1>6, <2>1, <2>2, <2>4
<1>7. CASE ~At(k, "boot")
  <2>1. UNCHANGED preview  BY <1>7 DEF Fail
  <2>2. Calm(k, NoRequest)  BY <1>3, <1>4, <1>5, <2>1, NoneTyped DEF Calm
  <2>3. Quiet(k, NoRequest)  BY <1>2, <1>4, <1>5, <2>1, NoneTyped DEF Quiet, At
  <2> QED  BY <1>4, <2>2, <2>3
<1> QED  BY <1>6, <1>7

-----------------------------------------------------------------------------

\* The mutation of preview c becomes m.
Mutates(c, m) ==
  /\ m \in {NoMutation} \cup Pending
  /\ m # NoMutation => preview[c].state \in {"open", "closing"}
  /\ preview' = [preview EXCEPT ![c].mutation = m]
  /\ UNCHANGED <<kept, snapshots, session, request, crowded>>

LEMMA SendStep ==
  ASSUME Typed, NEW c \in Previews, NEW e \in Entities, Send(c, e)
  PROVE  \E m \in Pending :
           /\ Mutates(c, m) /\ m.at = "prepare" /\ m.entity = e /\ m.items = data.file[e] \cup {m.id}
           /\ preview[c].state = "open" /\ ~Busy(c)
           /\ UNCHANGED <<data, owed>> /\ sent' \in 0..MaxRecords
           /\ mixed' = (mixed \/ (\E d \in Previews : Busy(d)) \/ \E k \in Slots : Swapping(k))
<1> DEFINE m == [at |-> "prepare", entity |-> e, items |-> data.file[e] \cup {sent'},
                 id |-> sent', connected |-> TRUE]
<1>1. sent' \in 1..MaxRecords /\ sent' \in 0..MaxRecords  BY DEF Send, Typed
<1>2. data.file[e] \in SUBSET Records  BY FileMapOfData DEF FileMaps
<1>3. m \in Pending  BY <1>1, <1>2 DEF Pending, Records
<1>4. preview' = [preview EXCEPT ![c].mutation = m]  BY DEF Send, Mutation
<1>5. m.at = "prepare" /\ m.entity = e /\ m.items = data.file[e] \cup {m.id}
  OBVIOUS
<1> HIDE DEF m
<1>6. Mutates(c, m)  BY <1>3, <1>4 DEF Mutates, Send, NoData
<1>7. preview[c].state = "open" /\ ~Busy(c) /\ UNCHANGED <<data, owed>>
      /\ mixed' = (mixed \/ (\E d \in Previews : Busy(d)) \/ \E k \in Slots : Swapping(k))
  BY DEF Send, NoData
<1> QED  BY <1>1, <1>3, <1>5, <1>6, <1>7

LEMMA PrepareStep ==
  ASSUME Typed, Linked, NEW c \in Previews, Prepare(c)
  PROVE  \E m : /\ Mutates(c, m) /\ UNCHANGED <<owed, mixed, sent>>
                /\ data' \in Directories /\ data'.file = data.file /\ Busy(c)
                /\ \/ m = NoMutation
                   \/ /\ m = [preview[c].mutation EXCEPT !.at = "rename"]
                      /\ Size([data.file EXCEPT ![preview[c].mutation.entity] = preview[c].mutation.items]) <= Quota
<1> DEFINE p == preview[c].mutation
<1>1. p \in Pending /\ Busy(c) /\ preview[c] \in PreviewRecords
  BY MutationState DEF Prepare, MutationAt
<1>2. preview[c].state \in {"open", "closing"}  BY <1>1 DEF Linked
<1>3. UNCHANGED <<kept, snapshots, session, request, crowded>> /\ UNCHANGED <<owed, mixed, sent>>
  BY DEF Prepare, NoHistory
<1>4. CASE Mutation(c, NoMutation) /\ UNCHANGED data
  <2>1. Mutates(c, NoMutation)  BY <1>3, <1>4 DEF Mutation, Mutates
  <2> QED  BY <1>1, <1>3, <1>4, <2>1 DEF Typed
<1>5. CASE /\ Size([data.file EXCEPT ![p.entity] = p.items]) <= Quota
           /\ data' = [data EXCEPT !.temp = @ \cup {c}] /\ MutationGoto(c, "rename")
  <2> DEFINE m == [p EXCEPT !.at = "rename"]
  <2>1. m \in Pending  BY <1>1 DEF Pending
  <2>2. preview' = [preview EXCEPT ![c].mutation = m]
    BY <1>1, <1>5 DEF MutationGoto, PreviewRecords
  <2>3. data' \in Directories /\ data'.file = data.file
    BY <1>5 DEF Typed, Directories
  <2> HIDE DEF m
  <2>4. Mutates(c, m)  BY <1>2, <1>3, <2>1, <2>2 DEF Mutates
  <2> QED  BY <1>1, <1>3, <1>5, <2>3, <2>4 DEF m
<1> QED  BY <1>4, <1>5 DEF Prepare

LEMMA RenameStep ==
  ASSUME Typed, Linked, NEW c \in Previews, Rename(c)
  PROVE  /\ Mutates(c, NoMutation) /\ UNCHANGED <<mixed, sent>> /\ Busy(c)
         /\ preview[c].mutation.at = "rename" /\ preview[c].mutation \in Pending
         /\ data' \in Directories
         /\ \/ UNCHANGED <<data, owed>>
            \/ /\ data'.file = [data.file EXCEPT ![preview[c].mutation.entity] = preview[c].mutation.items]
               /\ owed' \subseteq owed \cup {preview[c].mutation.id} /\ owed' \subseteq Records
<1> DEFINE p == preview[c].mutation
<1>1. p \in Pending /\ Busy(c) /\ p.at = "rename"
  BY MutationState DEF Rename, MutationAt
<1>2. Mutates(c, NoMutation) /\ UNCHANGED <<mixed, sent>>
  BY DEF Rename, Mutation, Mutates, NoHistory
<1>3. CASE UNCHANGED <<data, owed>>
  BY <1>1, <1>2, <1>3 DEF Typed
<1>4. CASE /\ data' = [data EXCEPT !.file[p.entity] = p.items, !.temp = @ \ {c}]
           /\ owed' = IF p.connected THEN owed \cup {p.id} ELSE owed
  <2>1. data' \in Directories
    BY <1>1, <1>4 DEF Typed, Directories, Pending
  <2>2. data'.file = [data.file EXCEPT ![p.entity] = p.items]
    BY <1>4 DEF Typed, Directories
  <2>3. owed' \subseteq owed \cup {p.id} /\ owed' \subseteq Records
    BY <1>1, <1>4 DEF Typed, Pending
  <2> QED  BY <1>1, <1>2, <2>1, <2>2, <2>3
<1> QED  BY <1>3, <1>4 DEF Rename

LEMMA DisconnectStep ==
  ASSUME Typed, Linked, NEW c \in Previews, Disconnect(c)
  PROVE  /\ Mutates(c, [preview[c].mutation EXCEPT !.connected = FALSE])
         /\ UNCHANGED <<data, owed, mixed, sent>> /\ Busy(c)
<1> DEFINE p == preview[c].mutation
           m == [p EXCEPT !.connected = FALSE]
<1>1. p \in Pending /\ Busy(c) /\ preview[c] \in PreviewRecords
  BY MutationState DEF Disconnect
<1>2. preview[c].state \in {"open", "closing"}  BY <1>1 DEF Linked
<1>3. m \in Pending  BY <1>1 DEF Pending
<1>4. preview' = [preview EXCEPT ![c].mutation = m]
  BY <1>1 DEF Disconnect, PreviewRecords
<1> HIDE DEF m
<1>5. Mutates(c, m)  BY <1>2, <1>3, <1>4 DEF Mutates, Disconnect, NoData, NoHistory
<1> QED  BY <1>1, <1>5 DEF m, Disconnect, NoData, NoHistory

-----------------------------------------------------------------------------
\* Types

LEMMA TypedWith ==
  ASSUME Typed, NEW k \in Slots, NEW q, Becomes(k, q)
  PROVE  request' \in [Slots -> RequestRecords]
  BY DEF Typed, Becomes

LEMMA QuietTyped ==
  ASSUME Typed, NEW k \in Slots, NEW q, Quiet(k, q),
         data' \in Directories, kept' \subseteq Directories, snapshots' \subseteq SnapshotRecords,
         owed' \subseteq Records, mixed' \in BOOLEAN
  PROVE  Typed'
<1>1. request' \in [Slots -> RequestRecords]  BY TypedWith DEF Quiet
<1> QED  BY <1>1 DEF Quiet, Typed, SnapshotRecords

LEMMA CalmTyped ==
  ASSUME Typed, NEW k \in Slots, NEW q, Calm(k, q), snapshots' \subseteq SnapshotRecords,
         session' \in Previews \cup {0}, preview' \in [Previews -> PreviewRecords], UNCHANGED sent,
         crowded' \in BOOLEAN
  PROVE  Typed'
<1>1. request' \in [Slots -> RequestRecords]  BY TypedWith DEF Calm
<1> QED  BY <1>1 DEF Calm, Typed, SnapshotRecords

LEMMA SnapshotsTyped == Typed => snapshots \subseteq SnapshotRecords
  BY DEF Typed, SnapshotRecords

LEMMA NewState ==
  ASSUME Typed, NEW c \in Previews, NEW s \in {"none", "starting", "open", "closing", "gone"},
         preview' = [preview EXCEPT ![c].state = s]
  PROVE  /\ preview' \in [Previews -> PreviewRecords]
         /\ preview'[c].state = s /\ preview'[c].mutation = preview[c].mutation
         /\ \A d \in Previews : d # c => preview'[d] = preview[d]
<1>1. preview[c] \in PreviewRecords /\ preview \in [Previews -> PreviewRecords]  BY DEF Typed
<1>2. [preview[c] EXCEPT !.state = s] \in PreviewRecords  BY <1>1 DEF PreviewRecords
<1>3. preview' = [preview EXCEPT ![c] = [preview[c] EXCEPT !.state = s]]  OBVIOUS
<1>4. /\ [preview[c] EXCEPT !.state = s].state = s
      /\ [preview[c] EXCEPT !.state = s].mutation = preview[c].mutation
  BY <1>1 DEF PreviewRecords
<1> QED  BY <1>1, <1>2, <1>3, <1>4

LEMMA BeginTyped ==
  ASSUME Typed, Linked, NEW k \in Slots, NEW r \in Revisions \cup {0},
         NEW kind \in {"start", "snapshot", "restore", "stop"}, Begin(k, kind, r)
  PROVE  Typed'
<1>1. PICK q : /\ Calm(k, q)
               /\ session' = 0 /\ crowded' = (crowded \/ ~Idle) /\ UNCHANGED <<data, snapshots, sent>>
               /\ \/ session # 0 /\ preview' = [preview EXCEPT ![session].state = "closing"]
                  \/ UNCHANGED preview
  BY BeginStep
<1>2. preview' \in [Previews -> PreviewRecords]
  <2>1. CASE UNCHANGED preview  BY <2>1 DEF Typed
  <2>2. CASE session # 0 /\ preview' = [preview EXCEPT ![session].state = "closing"]
    <3>1. session \in Previews  BY <2>2 DEF Typed
    <3> QED  BY <2>2, <3>1, NewState
  <2> QED  BY <1>1, <2>1, <2>2
<1>3. crowded' \in BOOLEAN  BY <1>1 DEF Typed
<1> QED  BY <1>1, <1>2, <1>3, SnapshotsTyped, CalmTyped

LEMMA StepTyped ==
  ASSUME Typed, Linked, NEW k \in Slots, Step(k) PROVE Typed'
<1>0. /\ data \in Directories /\ kept \subseteq Directories /\ owed \subseteq Records
      /\ mixed \in BOOLEAN /\ crowded \in BOOLEAN /\ snapshots \subseteq SnapshotRecords
      /\ session \in Previews \cup {0} /\ preview \in [Previews -> PreviewRecords]
  BY DEF Typed, SnapshotRecords
<1>1. CASE StartPreview(k)  BY <1>1, BeginTyped DEF StartPreview
<1>2. CASE StopPreview(k)  BY <1>2, BeginTyped DEF StopPreview
<1>3. CASE CreateSnapshot(k)  BY <1>3, BeginTyped DEF CreateSnapshot
<1>4. CASE RestoreSnapshot(k)  BY <1>4, BeginTyped DEF RestoreSnapshot
<1>5. CASE Stopped(k)
  <2>1. PICK q : /\ Calm(k, q) /\ UNCHANGED <<data, snapshots, session, crowded, sent>>
                 /\ request[k].preview \in Previews
                 /\ preview' = [preview EXCEPT ![request[k].preview] = [state |-> "gone", mutation |-> NoMutation]]
    BY <1>5, StoppedStep
  <2>2. preview' \in [Previews -> PreviewRecords]  BY <1>0, <2>1 DEF PreviewRecords
  <2> QED  BY <1>0, <2>1, <2>2, CalmTyped
<1>6. CASE Fork(k)
  <2>1. UNCHANGED <<snapshots, session, crowded, sent>>  BY <1>6, ForkStep
  <2>2. CASE Calm(k, NoRequest) /\ Quiet(k, NoRequest)
    BY <1>0, <2>1, <2>2, CalmTyped DEF Quiet
  <2>3. CASE \E q : \E c \in Previews : Calm(k, q) /\ preview' = [preview EXCEPT ![c].state = "starting"]
    <3>0. PICK q : \E c \in Previews : Calm(k, q) /\ preview' = [preview EXCEPT ![c].state = "starting"]
      BY <2>3
    <3>1. PICK c \in Previews : Calm(k, q) /\ preview' = [preview EXCEPT ![c].state = "starting"]
      BY <3>0
    <3>2. preview' \in [Previews -> PreviewRecords]  BY <3>1, NewState
    <3> QED  BY <1>0, <2>1, <3>1, <3>2, CalmTyped
  <2> QED  BY <1>6, <2>2, <2>3, ForkStep
<1>7. CASE Boot(k)
  <2>1. /\ Calm(k, NoRequest) /\ UNCHANGED <<snapshots, crowded, sent>>
        /\ request[k].preview \in Previews /\ session' = request[k].preview
        /\ preview' = [preview EXCEPT ![request[k].preview].state = "open"]
    BY <1>7, BootStep
  <2>2. preview' \in [Previews -> PreviewRecords]  BY <2>1, NewState
  <2> QED  BY <1>0, <2>1, <2>2, CalmTyped
<1>8. CASE List(k)
  <2>1. PICK q : Quiet(k, q) /\ Calm(k, q) /\ UNCHANGED data /\ snapshots' \subseteq SnapshotRecords
    BY <1>8, ListStep
  <2> QED  BY <1>0, <2>1, QuietTyped DEF Calm
<1>9. CASE ReadFile(k)
  <2>1. PICK q : Quiet(k, q) /\ Calm(k, q) /\ UNCHANGED <<data, snapshots>>
    BY <1>9, ReadFileStep
  <2> QED  BY <1>0, <2>1, QuietTyped DEF Calm
<1>10. CASE CopyFile(k)
  <2>1. PICK q : Quiet(k, q) /\ Calm(k, q) /\ UNCHANGED data /\ snapshots' \subseteq SnapshotRecords
    BY <1>10, CopyFileStep
  <2> QED  BY <1>0, <2>1, QuietTyped DEF Calm
<1>11. CASE Verify(k)
  <2>1. PICK q : /\ Quiet(k, q) /\ UNCHANGED <<data, kept, snapshots, owed>>
                 /\ Calm(k, q) \/ mixed' = (mixed \/ \E c \in Previews : Busy(c))
    BY <1>11, VerifyStep
  <2>2. mixed' \in BOOLEAN  BY <1>0, <2>1 DEF Calm
  <2> QED  BY <1>0, <2>1, <2>2, QuietTyped
<1>12. CASE Aside(k)
  <2>1. PICK q : /\ Quiet(k, q) /\ UNCHANGED <<kept, snapshots, owed, mixed>>
                 /\ UNCHANGED data \/ data' = NoDirectory
    BY <1>12, AsideStep
  <2> QED  BY <1>0, <2>1, NoneTyped, QuietTyped
<1>13. CASE Activate(k)
  <2>1. /\ Quiet(k, NoRequest) /\ UNCHANGED <<kept, snapshots, mixed>>
        /\ data' = Directory(request[k].manifest) /\ owed' = In(request[k].manifest)
        /\ request[k].manifest \in FileMaps
    BY <1>13, ActivateStep
  <2>2. data' \in Directories /\ owed' \subseteq Records
    BY <2>1 DEF Directory, Directories, FileMaps, In
  <2> QED  BY <1>0, <2>1, <2>2, QuietTyped
<1>14. CASE ActivateFails(k)
  <2>1. PICK q : Quiet(k, q) /\ UNCHANGED <<data, kept, snapshots, owed, mixed>>
    BY <1>14, ActivateFailsStep
  <2> QED  BY <1>0, <2>1, QuietTyped
<1>15. CASE PutBack(k)
  <2>1. /\ Quiet(k, NoRequest) /\ UNCHANGED <<snapshots, owed, mixed>>
        /\ request[k].previous \in Directories
        /\ \/ data' = request[k].previous /\ UNCHANGED kept
           \/ data' = data /\ kept' = kept \cup {request[k].previous}
    BY <1>15, PutBackStep
  <2> QED  BY <1>0, <2>1, QuietTyped
<1>16. CASE Fail(k)
  <2>1. Calm(k, NoRequest) /\ UNCHANGED <<data, snapshots, session, crowded, sent>>
    BY <1>16, FailStep
  <2>2. preview' \in [Previews -> PreviewRecords]
    <3>1. CASE Quiet(k, NoRequest)  BY <1>0, <3>1 DEF Quiet
    <3>2. CASE /\ request[k].preview \in Previews
               /\ preview' = [preview EXCEPT ![request[k].preview].state = "gone"]
      BY <3>2, NewState
    <3> QED  BY <1>16, <3>1, <3>2, FailStep
  <2> QED  BY <1>0, <2>1, <2>2, CalmTyped
<1> QED
  BY <1>1, <1>2, <1>3, <1>4, <1>5, <1>6, <1>7, <1>8, <1>9, <1>10, <1>11, <1>12, <1>13, <1>14,
     <1>15, <1>16 DEF Step

LEMMA MutatesTyped ==
  ASSUME Typed, NEW c \in Previews, NEW m, Mutates(c, m), data' \in Directories,
         owed' \subseteq Records, sent' \in 0..MaxRecords, mixed' \in BOOLEAN
  PROVE  /\ Typed'
         /\ preview'[c].state = preview[c].state /\ preview'[c].mutation = m
         /\ \A d \in Previews : d # c => preview'[d] = preview[d]
<1>1. preview[c] \in PreviewRecords /\ preview \in [Previews -> PreviewRecords]  BY DEF Typed
<1> DEFINE p == [preview[c] EXCEPT !.mutation = m]
<1>2. p \in PreviewRecords /\ p.state = preview[c].state /\ p.mutation = m
  BY <1>1 DEF PreviewRecords, Mutates
<1>3. preview' = [preview EXCEPT ![c] = p]  BY DEF Mutates
<1> HIDE DEF p
<1>4. preview' \in [Previews -> PreviewRecords]  BY <1>1, <1>2, <1>3
<1>5. Typed'  BY <1>4 DEF Typed, Mutates
<1> QED  BY <1>1, <1>2, <1>3, <1>5

LEMMA PreviewTyped ==
  ASSUME Typed, Linked, NEW c \in Previews, Preview(c) PROVE Typed'
<1>0. data \in Directories /\ owed \subseteq Records /\ mixed \in BOOLEAN /\ sent \in 0..MaxRecords
  BY DEF Typed
<1>1. ASSUME NEW e \in Entities, Send(c, e) PROVE Typed'
  <2>1. PICK m \in Pending :
           /\ Mutates(c, m) /\ UNCHANGED <<data, owed>> /\ sent' \in 0..MaxRecords
           /\ mixed' = (mixed \/ (\E d \in Previews : Busy(d)) \/ \E k \in Slots : Swapping(k))
    BY <1>1, SendStep
  <2>2. mixed' \in BOOLEAN  BY <1>0, <2>1
  <2> QED  BY <1>0, <2>1, <2>2, MutatesTyped
<1>2. CASE Prepare(c)
  <2>1. PICK m : Mutates(c, m) /\ UNCHANGED <<owed, mixed, sent>> /\ data' \in Directories
    BY <1>2, PrepareStep
  <2> QED  BY <1>0, <2>1, MutatesTyped
<1>3. CASE Rename(c)
  <2>1. Mutates(c, NoMutation) /\ UNCHANGED <<mixed, sent>> /\ data' \in Directories /\ owed' \subseteq Records
    BY <1>0, <1>3, RenameStep
  <2> QED  BY <1>0, <2>1, MutatesTyped
<1>4. CASE Disconnect(c)
  BY <1>0, <1>4, DisconnectStep, MutatesTyped
<1> QED  BY <1>1, <1>2, <1>3, <1>4 DEF Preview

LEMMA CrashTyped == ASSUME Typed, Crash PROVE Typed'
<1>1. request' \in [Slots -> RequestRecords]  BY NoneTyped DEF Crash
<1>2. preview' \in [Previews -> PreviewRecords]  BY DEF Crash, Typed, PreviewRecords
<1>3. kept' \subseteq Directories  BY DEF Crash, Typed, RequestRecords
<1> QED  BY <1>1, <1>2, <1>3 DEF Crash, Typed

-----------------------------------------------------------------------------
\* Who stops or starts which preview

\* What is needed of a step: other requests keep their previews, and request k has taken one
\* that was in another state before.
LEMMA LinkedWith ==
  ASSUME Typed, Linked, NEW k \in Slots, NEW q, Becomes(k, q),
         \A j \in Slots \ {k} :
           request[j].at \in {"stopping", "boot"} =>
             preview'[request[j].preview].state = preview[request[j].preview].state,
         q.at = "stopping" => /\ q.preview \in Previews /\ preview'[q.preview].state = "closing"
                              /\ preview[q.preview].state # "closing",
         q.at = "boot" => /\ q.preview \in Previews /\ preview'[q.preview].state = "starting"
                          /\ preview[q.preview].state # "starting",
         session' # 0 => preview'[session'].state = "open",
         \A c \in Previews : preview'[c].mutation # NoMutation => preview'[c].state \in {"open", "closing"}
  PROVE  Linked'
<1>1. request'[k] = q /\ \A j \in Slots : j # k => request'[j] = request[j]
  BY DEF Becomes, Typed
<1>2. \A j \in Slots : Founded(request'[j])
  BY <1>1 DEF Becomes, Linked
<1>3. ASSUME NEW j \in Slots PROVE Handled(j)'
  <2>1. CASE j = k
    BY <1>1, <2>1 DEF Handled, At, Previews
  <2>2. CASE j # k
    BY <1>1, <2>2 DEF Handled, At, Linked
  <2> QED  BY <2>1, <2>2
<1>4. ASSUME NEW i \in Slots, NEW j \in Slots PROVE Apart(i, j)'
  <2> SUFFICES ASSUME i # j, request'[i].at = request'[j].at, request'[i].at \in {"stopping", "boot"}
               PROVE  request'[i].preview # request'[j].preview
    BY DEF Apart
  <2>1. CASE i = k
    BY <1>1, <2>1 DEF Linked, Handled, At
  <2>2. CASE j = k
    BY <1>1, <2>2 DEF Linked, Handled, At
  <2>3. CASE i # k /\ j # k
    BY <1>1, <2>3 DEF Linked, Apart
  <2> QED  BY <2>1, <2>2, <2>3
<1>5. \A c \in Previews : Busy(c)' => preview'[c].state \in {"open", "closing"}
  BY DEF Busy
<1>6. \A j \in Slots : Founded(request[j])'
  BY <1>2 DEF Founded, NoDirectory, NoFiles
<1> QED  BY <1>3, <1>4, <1>5, <1>6 DEF Linked

LEMMA LinkedBusy ==
  ASSUME Linked, NEW c \in Previews, preview[c].mutation # NoMutation
  PROVE  preview[c].state \in {"open", "closing"}
  BY DEF Linked, Busy

LEMMA QuietLinked ==
  ASSUME Typed, Linked, NEW k \in Slots, NEW q, Quiet(k, q) PROVE Linked'
  BY LinkedWith, LinkedBusy DEF Quiet, Linked

LEMMA BeginLinked ==
  ASSUME Typed, Linked, NEW k \in Slots, NEW r \in Revisions \cup {0},
         NEW kind \in {"start", "snapshot", "restore", "stop"}, Begin(k, kind, r)
  PROVE  Linked'
<1>1. PICK q : /\ Calm(k, q) /\ session' = 0
               /\ \/ /\ session # 0 /\ q.at = "stopping" /\ q.preview = session
                     /\ preview' = [preview EXCEPT ![session].state = "closing"]
                  \/ q.at \notin {"stopping", "boot"} /\ UNCHANGED preview
  BY BeginStep
<1>2. Becomes(k, q)  BY <1>1 DEF Calm
<1>3. CASE q.at \notin {"stopping", "boot"} /\ UNCHANGED preview
  BY <1>1, <1>2, <1>3, LinkedWith, LinkedBusy
<1>4. CASE /\ session # 0 /\ q.at = "stopping" /\ q.preview = session
           /\ preview' = [preview EXCEPT ![session].state = "closing"]
  <2>1. session \in Previews /\ preview[session].state = "open"  BY <1>4 DEF Typed, Linked
  <2>2. /\ preview'[session].state = "closing" /\ preview'[session].mutation = preview[session].mutation
        /\ \A d \in Previews : d # session => preview'[d] = preview[d]
    BY <1>4, <2>1, NewState
  <2>3. ASSUME NEW j \in Slots, request[j].at \in {"stopping", "boot"}
        PROVE  preview'[request[j].preview].state = preview[request[j].preview].state
    <3>1. request[j].preview \in Previews /\ preview[request[j].preview].state \in {"closing", "starting"}
      BY <2>3 DEF Linked, Handled, At, Typed, RequestRecords
    <3> QED  BY <2>1, <2>2, <3>1
  <2>4. \A c \in Previews : preview'[c].mutation # NoMutation => preview'[c].state \in {"open", "closing"}
    BY <2>2, LinkedBusy
  <2> QED  BY <1>1, <1>2, <1>4, <2>1, <2>2, <2>3, <2>4, LinkedWith
<1> QED  BY <1>1, <1>3, <1>4

\* The previews of other requests are others.
LEMMA OthersPreview ==
  ASSUME Typed, Linked, NEW k \in Slots, NEW j \in Slots \ {k},
         request[k].at \in {"stopping", "boot"}, request[j].at \in {"stopping", "boot"}
  PROVE  request[j].preview \in Previews /\ request[j].preview # request[k].preview
<1>1. Handled(j) /\ Handled(k) /\ Apart(j, k)  BY DEF Linked
<1>2. request[j] \in RequestRecords  BY DEF Typed
<1> QED  BY <1>1, <1>2 DEF Handled, Apart, At, RequestRecords

LEMMA StoppedLinked ==
  ASSUME Typed, Linked, NEW k \in Slots, Stopped(k) PROVE Linked'
<1>1. PICK q : /\ Calm(k, q) /\ At(k, "stopping") /\ q.at \notin {"read", "copy", "stopping", "boot"}
               /\ UNCHANGED session /\ request[k].preview \in Previews
               /\ preview' = [preview EXCEPT ![request[k].preview] = [state |-> "gone", mutation |-> NoMutation]]
  BY StoppedStep
<1>2. Becomes(k, q)  BY <1>1 DEF Calm
<1>3. /\ preview'[request[k].preview].mutation = NoMutation
      /\ \A d \in Previews : d # request[k].preview => preview'[d] = preview[d]
  BY <1>1 DEF Typed
<1>4. preview[request[k].preview].state = "closing"  BY <1>1 DEF Linked, Handled
<1>5. session # 0 => session \in Previews /\ preview[session].state = "open"
  BY DEF Typed, Linked
<1>6. \A j \in Slots \ {k} : request[j].at \in {"stopping", "boot"} =>
        preview'[request[j].preview].state = preview[request[j].preview].state
  BY <1>1, <1>3, OthersPreview DEF At
<1> QED  BY <1>1, <1>2, <1>3, <1>4, <1>5, <1>6, LinkedWith, LinkedBusy

LEMMA ForkLinked ==
  ASSUME Typed, Linked, NEW k \in Slots, Fork(k) PROVE Linked'
<1>1. CASE Quiet(k, NoRequest)  BY <1>1, QuietLinked
<1>2. CASE \E q : \E c \in Previews :
             /\ Calm(k, q) /\ At(k, "build") /\ q.at = "boot" /\ q.preview = c
             /\ preview[c].state = "none"
             /\ preview' = [preview EXCEPT ![c].state = "starting"]
  <2>0. UNCHANGED session  BY ForkStep
  <2>1. PICK q : \E c \in Previews :
             /\ Calm(k, q) /\ At(k, "build") /\ q.at = "boot" /\ q.preview = c
             /\ preview[c].state = "none"
             /\ preview' = [preview EXCEPT ![c].state = "starting"]
    BY <1>2
  <2>2. PICK c \in Previews :
             /\ Calm(k, q) /\ At(k, "build") /\ q.at = "boot" /\ q.preview = c
             /\ preview[c].state = "none"
             /\ preview' = [preview EXCEPT ![c].state = "starting"]
    BY <2>1
  <2>3. Becomes(k, q)  BY <2>2 DEF Calm
  <2>4. /\ preview'[c].state = "starting" /\ preview'[c].mutation = preview[c].mutation
        /\ \A d \in Previews : d # c => preview'[d] = preview[d]
    BY <2>2, NewState
  <2>5. ASSUME NEW j \in Slots, request[j].at \in {"stopping", "boot"}
        PROVE  preview'[request[j].preview].state = preview[request[j].preview].state
    <3>1. request[j].preview \in Previews /\ preview[request[j].preview].state \in {"closing", "starting"}
      BY <2>5 DEF Linked, Handled, At, Typed, RequestRecords
    <3> QED  BY <2>2, <2>4, <3>1
  <2>6. \A d \in Previews : preview'[d].mutation # NoMutation => preview'[d].state \in {"open", "closing"}
    BY <2>2, <2>4, LinkedBusy
  <2>7. session' # 0 => preview'[session'].state = "open"
    BY <2>0, <2>2, <2>4 DEF Typed, Linked
  <2> QED  BY <2>2, <2>3, <2>4, <2>5, <2>6, <2>7, LinkedWith
<1> QED  BY <1>1, <1>2, ForkStep

LEMMA BootLinked ==
  ASSUME Typed, Linked, NEW k \in Slots, Boot(k) PROVE Linked'
<1>1. /\ Calm(k, NoRequest) /\ At(k, "boot")
      /\ request[k].preview \in Previews /\ session' = request[k].preview
      /\ preview[request[k].preview].state = "starting"
      /\ preview' = [preview EXCEPT ![request[k].preview].state = "open"]
  BY BootStep
<1>2. Becomes(k, NoRequest)  BY <1>1 DEF Calm
<1> DEFINE c == request[k].preview
<1>3. /\ preview'[c].state = "open" /\ preview'[c].mutation = preview[c].mutation
      /\ \A d \in Previews : d # c => preview'[d] = preview[d]
  BY <1>1, NewState
<1>4. \A j \in Slots \ {k} : request[j].at \in {"stopping", "boot"} =>
        preview'[request[j].preview].state = preview[request[j].preview].state
  BY <1>1, <1>3, OthersPreview DEF At
<1>5. \A d \in Previews : preview'[d].mutation # NoMutation => preview'[d].state \in {"open", "closing"}
  BY <1>3, LinkedBusy
<1> QED  BY <1>1, <1>2, <1>3, <1>4, <1>5, LinkedWith, NoneTyped

LEMMA FailLinked ==
  ASSUME Typed, Linked, NEW k \in Slots, Fail(k) PROVE Linked'
<1>1. CASE Quiet(k, NoRequest)  BY <1>1, QuietLinked
<1>2. CASE /\ At(k, "boot") /\ request[k].preview \in Previews
           /\ preview[request[k].preview].state = "starting"
           /\ preview' = [preview EXCEPT ![request[k].preview].state = "gone"]
  <2> DEFINE c == request[k].preview
  <2>1. Becomes(k, NoRequest) /\ UNCHANGED session  BY FailStep DEF Calm
  <2>2. /\ preview'[c].state = "gone" /\ preview'[c].mutation = preview[c].mutation
        /\ \A d \in Previews : d # c => preview'[d] = preview[d]
    BY <1>2, NewState
  <2>3. \A j \in Slots \ {k} : request[j].at \in {"stopping", "boot"} =>
          preview'[request[j].preview].state = preview[request[j].preview].state
    BY <1>2, <2>2, OthersPreview DEF At
  <2>4. \A d \in Previews : preview'[d].mutation # NoMutation => preview'[d].state \in {"open", "closing"}
    BY <1>2, <2>2, LinkedBusy
  <2>5. session' # 0 => preview'[session'].state = "open"
    BY <1>2, <2>1, <2>2 DEF Typed, Linked
  <2> QED  BY <2>1, <2>3, <2>4, <2>5, LinkedWith, NoneTyped
<1> QED  BY <1>1, <1>2, FailStep

LEMMA StepLinked ==
  ASSUME Typed, Linked, NEW k \in Slots, Step(k) PROVE Linked'
<1>1. CASE StartPreview(k)  BY <1>1, BeginLinked DEF StartPreview
<1>2. CASE StopPreview(k)  BY <1>2, BeginLinked DEF StopPreview
<1>3. CASE CreateSnapshot(k)  BY <1>3, BeginLinked DEF CreateSnapshot
<1>4. CASE RestoreSnapshot(k)  BY <1>4, BeginLinked DEF RestoreSnapshot
<1>5. CASE Stopped(k)  BY <1>5, StoppedLinked
<1>6. CASE Fork(k)  BY <1>6, ForkLinked
<1>7. CASE Boot(k)  BY <1>7, BootLinked
<1>8. CASE List(k)  BY <1>8, ListStep, QuietLinked
<1>9. CASE ReadFile(k)  BY <1>9, ReadFileStep, QuietLinked
<1>10. CASE CopyFile(k)  BY <1>10, CopyFileStep, QuietLinked
<1>11. CASE Verify(k)  BY <1>11, VerifyStep, QuietLinked
<1>12. CASE Aside(k)  BY <1>12, AsideStep, QuietLinked
<1>13. CASE Activate(k)  BY <1>13, ActivateStep, QuietLinked
<1>14. CASE ActivateFails(k)  BY <1>14, ActivateFailsStep, QuietLinked
<1>15. CASE PutBack(k)  BY <1>15, PutBackStep, QuietLinked
<1>16. CASE Fail(k)  BY <1>16, FailLinked
<1> QED
  BY <1>1, <1>2, <1>3, <1>4, <1>5, <1>6, <1>7, <1>8, <1>9, <1>10, <1>11, <1>12, <1>13, <1>14,
     <1>15, <1>16 DEF Step

\* A mutation leaves the states alone.
LEMMA MutatesLinked ==
  ASSUME Typed, Linked, NEW c \in Previews, NEW m, Mutates(c, m) PROVE Linked'
<1>1. /\ preview'[c].state = preview[c].state /\ preview'[c].mutation = m
      /\ \A d \in Previews : d # c => preview'[d] = preview[d]
  <2>1. preview[c] \in PreviewRecords /\ preview \in [Previews -> PreviewRecords]  BY DEF Typed
  <2> DEFINE p == [preview[c] EXCEPT !.mutation = m]
  <2>2. p.state = preview[c].state /\ p.mutation = m
    BY <2>1 DEF PreviewRecords
  <2>3. preview' = [preview EXCEPT ![c] = p]  BY DEF Mutates
  <2> HIDE DEF p
  <2> QED  BY <2>1, <2>2, <2>3
<1>2. \A d \in Previews : preview'[d].state = preview[d].state  BY <1>1
<1>3. \A d \in Previews : Busy(d)' => preview'[d].state \in {"open", "closing"}
  BY <1>1, LinkedBusy DEF Busy, Mutates, NoMutation
<1>4. UNCHANGED <<session, request>>  BY DEF Mutates
<1>5. \A k \in Slots : Founded(request[k])'  BY <1>4 DEF Linked, Founded
<1>6. ASSUME NEW k \in Slots PROVE Handled(k)'
  <2>1. Handled(k) /\ request[k] \in RequestRecords  BY DEF Linked, Typed
  <2> QED  BY <1>2, <1>4, <2>1 DEF Handled, At, RequestRecords
<1>7. \A j, k \in Slots : Apart(j, k)'  BY <1>4 DEF Linked, Apart
<1>8. session' # 0 => preview'[session'].state = "open"
  BY <1>2, <1>4 DEF Typed, Linked
<1> QED  BY <1>3, <1>5, <1>6, <1>7, <1>8 DEF Linked

LEMMA PreviewLinked ==
  ASSUME Typed, Linked, NEW c \in Previews, Preview(c) PROVE Linked'
  BY SendStep, PrepareStep, RenameStep, DisconnectStep, MutatesLinked DEF Preview

LEMMA CrashLinked == ASSUME Typed, Linked, Crash PROVE Linked'
<1>1. /\ session' = 0 /\ \A k \in Slots : request'[k] = NoRequest
      /\ \A c \in Previews : preview'[c].mutation # NoMutation => preview'[c] = preview[c]
  BY DEF Crash
<1>2. \A k \in Slots : Founded(request[k])' /\ Handled(k)'
  BY <1>1, NoneTyped DEF Founded, Handled, At
<1>3. \A j, k \in Slots : Apart(j, k)'
  BY <1>1, NoneTyped DEF Apart
<1>4. \A c \in Previews : Busy(c)' => preview'[c].state \in {"open", "closing"}
  BY <1>1, LinkedBusy DEF Busy
<1> QED  BY <1>1, <1>2, <1>3, <1>4 DEF Linked

-----------------------------------------------------------------------------
\* One request at a time

\* The parts of Alone.
LEMMA AloneUse ==
  ASSUME Typed, Linked, Alone, ~crowded
  PROVE  /\ \A j, k \in Slots : ~At(j, "idle") /\ ~At(k, "idle") => j = k
         /\ \A k \in Slots : ~At(k, "idle") => session = 0
         /\ \A c \in Previews : preview[c].state = "open" => c = session
         /\ \A c \in Previews :
              preview[c].state = "closing" =>
                \E k \in Slots : At(k, "stopping") /\ request[k].preview = c
         /\ \A k \in Slots : CopiedSoFar(request[k])
         /\ \A s \in snapshots : s.manifest = s.image
         /\ 0 \notin Previews
  BY DEF Alone, Previews

LEMMA BecomesAt ==
  ASSUME Typed, NEW k \in Slots, NEW q, Becomes(k, q)
  PROVE  request'[k] = q /\ \A j \in Slots : j # k => request'[j] = request[j]
  BY DEF Becomes, Typed

LEMMA QuietAlone ==
  ASSUME Typed, Linked, Alone, NEW k \in Slots, NEW q, Quiet(k, q),
         ~crowded => CopiedSoFar(q)' /\ \A s \in snapshots' : s \in snapshots \/ s.manifest = s.image
  PROVE  Alone'
<1> SUFFICES ASSUME ~crowded
             PROVE  Alone'
  BY DEF Alone, Quiet
<1>1. request'[k] = q /\ \A j \in Slots : j # k => request'[j] = request[j]
  BY BecomesAt DEF Quiet
<1>2. ~At(k, "idle") /\ ~At(k, "stopping") /\ UNCHANGED <<session, preview>>
  BY DEF Quiet
<1>3. \A i, j \in Slots : At(i, "idle")' \/ At(j, "idle")' \/ i = j
  BY <1>1, <1>2, AloneUse DEF At
<1>4. \A j \in Slots : At(j, "idle")' \/ session' = 0
  BY <1>2, AloneUse
<1>5. \A c \in Previews : preview'[c].state = "closing" =>
         \E j \in Slots : At(j, "stopping")' /\ request'[j].preview = c
  BY <1>1, <1>2, AloneUse DEF At
<1>6. ASSUME NEW j \in Slots PROVE CopiedSoFar(request[j])'
  <2>1. CASE j = k  BY <1>1, <2>1 DEF CopiedSoFar
  <2>2. CASE j # k
    <3>1. request'[j].at = "idle"  BY <1>1, <1>2, <2>2, AloneUse DEF At
    <3> QED  BY <3>1 DEF CopiedSoFar
  <2> QED  BY <2>1, <2>2
<1>7. \A s \in snapshots' : s.manifest = s.image  BY AloneUse
<1>8. \A c \in Previews : preview'[c].state = "open" => c = session'  BY <1>2, AloneUse
<1> QED  BY <1>3, <1>4, <1>5, <1>6, <1>7, <1>8 DEF Alone

\* A step that starts or ends what a request does with a preview.
LEMMA AloneWith ==
  ASSUME Typed, Linked, Alone, NEW k \in Slots, NEW q, Becomes(k, q),
         q.at \notin {"read", "copy"}, UNCHANGED snapshots,
         ~crowded' => ~crowded /\ \A j \in Slots \ {k} : At(j, "idle"),
         q.at = "idle" \/ session' = 0,
         ~crowded' => /\ \A c \in Previews : preview'[c].state = "open" => c = session'
                      /\ \A c \in Previews : preview'[c].state = "closing" => q.at = "stopping" /\ q.preview = c
  PROVE  Alone'
<1> SUFFICES ASSUME ~crowded' PROVE Alone'
  BY DEF Alone
<1>1. request'[k] = q /\ \A j \in Slots : j # k => request'[j] = request[j]
  BY BecomesAt
<1>2. \A j \in Slots : j # k => request'[j].at = "idle"
  BY <1>1 DEF At
<1>3. \A i, j \in Slots : At(i, "idle")' \/ At(j, "idle")' \/ i = j
  BY <1>2 DEF At
<1>4. \A j \in Slots : At(j, "idle")' \/ session' = 0
  BY <1>1, <1>2 DEF At
<1>5. \A c \in Previews : preview'[c].state = "closing" =>
         \E j \in Slots : At(j, "stopping")' /\ request'[j].preview = c
  BY <1>1 DEF At
<1>6. \A j \in Slots : CopiedSoFar(request[j])'
  BY <1>1, <1>2 DEF CopiedSoFar
<1>7. \A s \in snapshots' : s.manifest = s.image  BY AloneUse
<1> QED  BY <1>3, <1>4, <1>5, <1>6, <1>7 DEF Alone

LEMMA BeginAlone ==
  ASSUME Typed, Linked, Alone, NEW k \in Slots, NEW r \in Revisions \cup {0},
         NEW kind \in {"start", "snapshot", "restore", "stop"}, Begin(k, kind, r)
  PROVE  Alone'
<1>1. PICK q : /\ Calm(k, q) /\ At(k, "idle") /\ q.at \notin {"idle", "read", "copy"}
               /\ session' = 0 /\ crowded' = (crowded \/ ~Idle) /\ UNCHANGED <<data, snapshots, sent>>
               /\ \/ /\ session # 0 /\ q.at = "stopping" /\ q.preview = session
                     /\ preview' = [preview EXCEPT ![session].state = "closing"]
                  \/ session = 0 /\ q.at \notin {"stopping", "boot"} /\ UNCHANGED preview
  BY BeginStep
<1>2. Becomes(k, q)  BY <1>1 DEF Calm
<1>3. ~crowded' => ~crowded /\ \A j \in Slots : At(j, "idle")
  BY <1>1 DEF Idle
<1>4. ASSUME ~crowded' PROVE \A c \in Previews : preview[c].state # "closing"
  BY <1>3, <1>4, AloneUse DEF At
<1>5. ASSUME ~crowded'
      PROVE  /\ \A c \in Previews : preview'[c].state = "open" => c = session'
             /\ \A c \in Previews : preview'[c].state = "closing" => q.at = "stopping" /\ q.preview = c
  <2>1. \A c \in Previews : preview[c].state = "open" => c = session  BY <1>3, <1>5, AloneUse
  <2>2. CASE session = 0 /\ UNCHANGED preview
    BY <1>4, <1>5, <2>1, <2>2 DEF Previews
  <2>3. CASE /\ session # 0 /\ q.at = "stopping" /\ q.preview = session
             /\ preview' = [preview EXCEPT ![session].state = "closing"]
    <3>1. session \in Previews  BY <2>3 DEF Typed
    <3>2. preview'[session].state = "closing" /\ \A d \in Previews : d # session => preview'[d] = preview[d]
      BY <2>3, <3>1, NewState
    <3> QED  BY <1>4, <1>5, <2>1, <2>3, <3>2
  <2> QED  BY <1>1, <2>2, <2>3
<1> QED  BY <1>1, <1>2, <1>3, <1>5, AloneWith

LEMMA StoppedAlone ==
  ASSUME Typed, Linked, Alone, NEW k \in Slots, Stopped(k) PROVE Alone'
<1>1. PICK q : /\ Calm(k, q) /\ At(k, "stopping") /\ q.at \notin {"read", "copy", "stopping", "boot"}
               /\ UNCHANGED <<data, snapshots, session, crowded, sent>>
               /\ request[k].preview \in Previews
               /\ preview' = [preview EXCEPT ![request[k].preview] = [state |-> "gone", mutation |-> NoMutation]]
  BY StoppedStep
<1>2. Becomes(k, q) /\ ~At(k, "idle")  BY <1>1 DEF Calm, At
<1>3. ~crowded => session' = 0 /\ \A j \in Slots \ {k} : At(j, "idle")
  BY <1>1, <1>2, AloneUse
<1>4. /\ preview'[request[k].preview].state = "gone"
      /\ \A d \in Previews : d # request[k].preview => preview'[d] = preview[d]
  BY <1>1 DEF Typed
<1>5. ASSUME ~crowded PROVE \A c \in Previews : preview[c].state = "closing" => c = request[k].preview
  BY <1>2, <1>5, AloneUse DEF At
<1>6. CASE crowded  BY <1>1, <1>6 DEF Alone
<1>7. CASE ~crowded
  BY <1>1, <1>2, <1>3, <1>4, <1>5, <1>7, AloneUse, AloneWith
<1> QED  BY <1>6, <1>7

LEMMA ForkAlone ==
  ASSUME Typed, Linked, Alone, NEW k \in Slots, Fork(k) PROVE Alone'
<1>1. CASE Quiet(k, NoRequest)
  BY <1>1, QuietAlone, ForkStep, NothingCopied, NoneTyped
<1>2. CASE \E q : \E c \in Previews :
             /\ Calm(k, q) /\ At(k, "build") /\ q.at = "boot" /\ q.preview = c
             /\ preview[c].state = "none"
             /\ preview' = [preview EXCEPT ![c].state = "starting"]
  <2>0. UNCHANGED <<snapshots, session, crowded, sent>>  BY ForkStep
  <2>1. PICK q : \E c \in Previews :
             /\ Calm(k, q) /\ At(k, "build") /\ q.at = "boot" /\ q.preview = c
             /\ preview[c].state = "none"
             /\ preview' = [preview EXCEPT ![c].state = "starting"]
    BY <1>2
  <2>2. PICK c \in Previews :
             /\ Calm(k, q) /\ At(k, "build") /\ q.at = "boot" /\ q.preview = c
             /\ preview[c].state = "none"
             /\ preview' = [preview EXCEPT ![c].state = "starting"]
    BY <2>1
  <2>3. Becomes(k, q) /\ ~At(k, "idle")  BY <2>2 DEF Calm, At
  <2>4. /\ preview'[c].state = "starting"
        /\ \A d \in Previews : d # c => preview'[d] = preview[d]
    BY <2>2, NewState
  <2>5. CASE crowded  BY <2>0, <2>5 DEF Alone
  <2>6. CASE ~crowded
    <3>1. session' = 0 /\ \A j \in Slots \ {k} : At(j, "idle")
      BY <2>0, <2>3, <2>6, AloneUse
    <3>2. \A d \in Previews : preview[d].state # "closing"
      BY <2>2, <2>6, <3>1, AloneUse DEF At
    <3>3. \A d \in Previews : preview'[d].state # "closing" /\ (preview'[d].state = "open" => d = session')
      BY <2>0, <2>4, <2>6, <3>2, AloneUse
    <3> QED  BY <2>0, <2>2, <2>3, <2>6, <3>1, <3>3, AloneWith
  <2> QED  BY <2>5, <2>6
<1> QED  BY <1>1, <1>2, ForkStep

LEMMA BootAlone ==
  ASSUME Typed, Linked, Alone, NEW k \in Slots, Boot(k) PROVE Alone'
<1>1. /\ Calm(k, NoRequest) /\ At(k, "boot") /\ UNCHANGED <<snapshots, crowded, sent>>
      /\ request[k].preview \in Previews /\ session' = request[k].preview
      /\ preview' = [preview EXCEPT ![request[k].preview].state = "open"]
  BY BootStep
<1>2. Becomes(k, NoRequest) /\ ~At(k, "idle")  BY <1>1 DEF Calm, At
<1>3. /\ preview'[request[k].preview].state = "open"
      /\ \A d \in Previews : d # request[k].preview => preview'[d] = preview[d]
  BY <1>1, NewState
<1>4. CASE crowded  BY <1>1, <1>4 DEF Alone
<1>5. CASE ~crowded
  <2>1. session = 0 /\ \A j \in Slots \ {k} : At(j, "idle")
    BY <1>2, <1>5, AloneUse
  <2>2. \A d \in Previews : preview[d].state # "closing" /\ preview[d].state # "open"
    BY <1>1, <1>5, <2>1, AloneUse DEF At
  <2>3. \A d \in Previews : preview'[d].state # "closing" /\ (preview'[d].state = "open" => d = session')
    BY <1>1, <1>3, <2>2
  <2> QED  BY <1>1, <1>2, <1>5, <2>1, <2>3, AloneWith, NoneTyped
<1> QED  BY <1>4, <1>5

LEMMA FailAlone ==
  ASSUME Typed, Linked, Alone, NEW k \in Slots, Fail(k) PROVE Alone'
<1>0. UNCHANGED <<data, snapshots, session, crowded, sent>> /\ Becomes(k, NoRequest)  BY FailStep DEF Calm
<1>1. CASE Quiet(k, NoRequest)
  BY <1>0, <1>1, QuietAlone, NothingCopied, NoneTyped
<1>2. CASE /\ At(k, "boot") /\ request[k].preview \in Previews
           /\ preview' = [preview EXCEPT ![request[k].preview].state = "gone"]
  <2>1. /\ preview'[request[k].preview].state = "gone"
        /\ \A d \in Previews : d # request[k].preview => preview'[d] = preview[d]
    BY <1>2, NewState
  <2>2. CASE crowded  BY <1>0, <2>2 DEF Alone
  <2>3. CASE ~crowded
    <3>1. ~At(k, "idle")  BY <1>2 DEF At
    <3>2. session' = 0 /\ \A j \in Slots \ {k} : At(j, "idle")
      BY <1>0, <2>3, <3>1, AloneUse
    <3>3. \A d \in Previews : preview[d].state # "closing"
      BY <1>2, <2>3, <3>2, AloneUse DEF At
    <3>4. \A d \in Previews : preview'[d].state # "closing" /\ (preview'[d].state = "open" => d = session')
      BY <1>0, <2>1, <2>3, <3>3, AloneUse
    <3> QED  BY <1>0, <2>3, <3>2, <3>4, AloneWith, NoneTyped
  <2> QED  BY <2>2, <2>3
<1> QED  BY <1>1, <1>2, FailStep

LEMMA StepAlone ==
  ASSUME Typed, Linked, Alone, NEW k \in Slots, Step(k) PROVE Alone'
<1>0. ~crowded => CopiedSoFar(request[k])  BY AloneUse
<1>1. CASE StartPreview(k)  BY <1>1, BeginAlone DEF StartPreview
<1>2. CASE StopPreview(k)  BY <1>2, BeginAlone DEF StopPreview
<1>3. CASE CreateSnapshot(k)  BY <1>3, BeginAlone DEF CreateSnapshot
<1>4. CASE RestoreSnapshot(k)  BY <1>4, BeginAlone DEF RestoreSnapshot
<1>5. CASE Stopped(k)  BY <1>5, StoppedAlone
<1>6. CASE Fork(k)  BY <1>6, ForkAlone
<1>7. CASE Boot(k)  BY <1>7, BootAlone
<1>8. CASE List(k)
  <2>1. PICK q : /\ Quiet(k, q) /\ CopiedSoFar(q) /\ UNCHANGED data
                 /\ \A s \in snapshots' : s \in snapshots \/ s.manifest = s.image
    BY <1>8, ListStep
  <2>2. CopiedSoFar(q)'  BY <2>1 DEF CopiedSoFar
  <2> QED  BY <2>1, <2>2, QuietAlone
<1>9. CASE ReadFile(k)
  <2>1. PICK q : /\ Quiet(k, q) /\ UNCHANGED <<data, snapshots>>
                 /\ CopiedSoFar(request[k]) => CopiedSoFar(q)
    BY <1>9, ReadFileStep
  <2>2. CopiedSoFar(q) => CopiedSoFar(q)'  BY <2>1 DEF CopiedSoFar
  <2> QED  BY <1>0, <2>1, <2>2, QuietAlone
<1>10. CASE CopyFile(k)
  <2>1. PICK q : /\ Quiet(k, q) /\ UNCHANGED data
                 /\ CopiedSoFar(request[k]) =>
                     /\ CopiedSoFar(q)
                     /\ \A s \in snapshots' : s \in snapshots \/ s.manifest = s.image
    BY <1>10, CopyFileStep
  <2>2. CopiedSoFar(q) => CopiedSoFar(q)'  BY <2>1 DEF CopiedSoFar
  <2> QED  BY <1>0, <2>1, <2>2, QuietAlone
<1>11. CASE Verify(k)  BY <1>11, VerifyStep, QuietAlone, NothingCopied
<1>12. CASE Aside(k)  BY <1>12, AsideStep, QuietAlone, NothingCopied
<1>13. CASE Activate(k)  BY <1>13, ActivateStep, QuietAlone, NothingCopied, NoneTyped
<1>14. CASE ActivateFails(k)  BY <1>14, ActivateFailsStep, QuietAlone, NothingCopied
<1>15. CASE PutBack(k)  BY <1>15, PutBackStep, QuietAlone, NothingCopied, NoneTyped
<1>16. CASE Fail(k)  BY <1>16, FailAlone
<1> QED
  BY <1>1, <1>2, <1>3, <1>4, <1>5, <1>6, <1>7, <1>8, <1>9, <1>10, <1>11, <1>12, <1>13, <1>14,
     <1>15, <1>16 DEF Step

\* Nobody copies files while a preview is there that may write them.
LEMMA MutatesAlone ==
  ASSUME Typed, Linked, Alone, NEW c \in Previews, NEW m, Mutates(c, m),
         preview[c].state \in {"open", "closing"}
  PROVE  Alone'
<1>1. UNCHANGED <<kept, snapshots, session, request, crowded>>  BY DEF Mutates
<1>2. \A d \in Previews : preview'[d].state = preview[d].state
  BY DEF Mutates, Typed, PreviewRecords
<1>3. ASSUME ~crowded, NEW k \in Slots PROVE request[k].at \notin {"read", "copy"}
  <2>1. CASE preview[c].state = "open"
    BY <1>3, <2>1, AloneUse DEF At
  <2>2. CASE preview[c].state = "closing"
    BY <1>3, <2>2, AloneUse DEF At
  <2> QED  BY <2>1, <2>2
<1>4. ASSUME ~crowded, NEW k \in Slots PROVE CopiedSoFar(request[k])'
  BY <1>1, <1>3, <1>4 DEF CopiedSoFar
<1> QED  BY <1>1, <1>2, <1>4 DEF Alone, At

LEMMA PreviewAlone ==
  ASSUME Typed, Linked, Alone, NEW c \in Previews, Preview(c) PROVE Alone'
<1>1. Busy(c) => preview[c].state \in {"open", "closing"}  BY DEF Linked
<1> QED  BY <1>1, SendStep, PrepareStep, RenameStep, DisconnectStep, MutatesAlone DEF Preview

LEMMA CrashAlone == ASSUME Typed, Linked, Alone, Crash PROVE Alone'
<1>1. /\ UNCHANGED <<snapshots, crowded>> /\ \A k \in Slots : request'[k] = NoRequest
      /\ \A c \in Previews : preview'[c].state \in {"none", "gone"}
  BY DEF Crash
<1>2. \A k \in Slots : CopiedSoFar(request[k])' /\ At(k, "idle")'
  BY <1>1, NoneTyped DEF CopiedSoFar, At
<1> QED  BY <1>1, <1>2 DEF Alone

-----------------------------------------------------------------------------
\* Where the records are

\* DataHolds, record by record.
LEMMA DataHoldsEach == DataHolds <=> (~mixed => AllThere)
<1> DEFINE All == UNION {In(d.file) : d \in {data} \cup kept \cup {request[k].previous : k \in Slots}}
<1>1. \A x : x \in All <=> Somewhere(x)
  BY DEF Somewhere
<1>2. owed \subseteq All <=> \A x \in owed : Somewhere(x)
  BY <1>1
<1> QED  BY <1>2 DEF DataHolds, AllThere

LEMMA NoneSize == Size(NoDirectory.file) <= Quota
  BY EmptySize DEF NoDirectory

\* Requests that swap no directories.
LEMMA CalmUnmixed ==
  ASSUME Typed, Unmixed, NEW k \in Slots, NEW q, Calm(k, q) PROVE Unmixed'
<1> SUFFICES ASSUME ~mixed' PROVE OneMutation'
  BY DEF Unmixed
<1>0. ~mixed /\ OneMutation  BY DEF Unmixed, Calm
<1>1. request'[k] = q /\ \A j \in Slots : j # k => request'[j] = request[j]
  BY BecomesAt DEF Calm
<1>2. ~mixed /\ data'.file = data.file /\ UNCHANGED <<kept, owed>>
      /\ request[k].previous = NoDirectory /\ q.previous = NoDirectory
      /\ q.at \notin {"aside", "activate", "putBack"}
  BY DEF Calm
<1>3. \A c \in Previews : preview'[c].mutation \in {preview[c].mutation, NoMutation}
  BY DEF Calm
<1>4. \A c \in Previews : Busy(c)' => Busy(c)
  BY <1>3 DEF Busy, NoMutation
<1>5. \A j \in Slots : Swapping(j)' => Swapping(j)
  BY <1>1, <1>2 DEF Swapping
<1>6. ASSUME NEW c \in Previews PROVE Extends(preview[c].mutation)'
  <2>1. Extends(preview[c].mutation)  BY <1>0 DEF OneMutation
  <2> QED  BY <1>2, <1>3, <2>1 DEF Extends, NoMutation
<1>7. \A j \in Slots : request'[j].previous = request[j].previous
  BY <1>1, <1>2
<1>8. AllThere'
  <2>1. AllThere  BY <1>0 DEF OneMutation
  <2> QED  BY <1>2, <1>7, <2>1 DEF AllThere, Somewhere
<1> QED  BY <1>1, <1>2, <1>4, <1>5, <1>6, <1>7, <1>8, <1>0 DEF OneMutation

\* Steps of a restore.
LEMMA RestoreUnmixed ==
  ASSUME Typed, Unmixed, NEW k \in Slots, NEW q, Becomes(k, q), UNCHANGED preview,
         ~mixed' =>
           /\ ~mixed /\ \A c \in Previews : ~Busy(c)
           /\ q.at \in {"aside", "activate"} => Size(q.manifest) <= Quota
           /\ Size(q.previous.file) <= Quota
           /\ AllThere'
  PROVE  Unmixed'
<1> SUFFICES ASSUME ~mixed' PROVE OneMutation'
  BY DEF Unmixed
<1>1. request'[k] = q /\ \A j \in Slots : j # k => request'[j] = request[j]
  BY BecomesAt
<1>2. OneMutation /\ \A c \in Previews : ~Busy(c)'
  BY DEF Unmixed, Busy
<1>3. \A c \in Previews : Extends(preview[c].mutation)'
  BY <1>2 DEF Extends, Busy
<1> QED  BY <1>1, <1>2, <1>3 DEF OneMutation

\* A restore under way keeps mutations out.
LEMMA SwappingUse ==
  ASSUME Unmixed, ~mixed, NEW k \in Slots, Swapping(k)
  PROVE  /\ \A c \in Previews : ~Busy(c)
         /\ AllThere /\ Size(request[k].previous.file) <= Quota
         /\ request[k].at \in {"aside", "activate"} => Size(request[k].manifest) <= Quota
  BY DEF Unmixed, OneMutation

LEMMA VerifyUnmixed ==
  ASSUME Typed, Linked, Unmixed, NEW k \in Slots, Verify(k) PROVE Unmixed'
<1>1. PICK q : /\ Quiet(k, q) /\ UNCHANGED <<data, kept, snapshots, owed>>
               /\ request[k].previous = NoDirectory
               /\ \/ Calm(k, q)
                  \/ /\ q.at \in {"aside", "activate"} /\ q.previous = NoDirectory
                     /\ Size(q.manifest) <= Quota
                     /\ mixed' = (mixed \/ \E c \in Previews : Busy(c))
  BY VerifyStep
<1>2. CASE Calm(k, q)  BY <1>2, CalmUnmixed
<1>3. CASE /\ q.at \in {"aside", "activate"} /\ q.previous = NoDirectory
           /\ Size(q.manifest) <= Quota
           /\ mixed' = (mixed \/ \E c \in Previews : Busy(c))
  <2>1. Becomes(k, q) /\ UNCHANGED preview  BY <1>1 DEF Quiet
  <2>2. ~mixed' => ~mixed /\ \A c \in Previews : ~Busy(c)  BY <1>3
  <2>3. \A j \in Slots : request'[j].previous = request[j].previous
    BY <1>1, <1>3, <2>1, BecomesAt
  <2>4. ~mixed' => AllThere'
    <3>1. ~mixed' => AllThere  BY <2>2 DEF Unmixed, OneMutation
    <3> QED  BY <1>1, <2>3, <3>1 DEF AllThere, Somewhere
  <2> QED  BY <1>3, <2>1, <2>2, <2>4, NoneSize, RestoreUnmixed
<1> QED  BY <1>1, <1>2, <1>3

LEMMA AsideUnmixed ==
  ASSUME Typed, Linked, Unmixed, NEW k \in Slots, Aside(k) PROVE Unmixed'
<1>1. PICK q : /\ Quiet(k, q) /\ UNCHANGED <<kept, snapshots, owed, mixed>>
               /\ request[k].previous = NoDirectory
               /\ \/ Calm(k, q)
                  \/ /\ At(k, "aside") /\ q.at = "activate" /\ q.manifest = request[k].manifest
                     /\ q.previous = data /\ data' = NoDirectory
  BY AsideStep
<1>2. CASE Calm(k, q)  BY <1>2, CalmUnmixed
<1>3. CASE /\ At(k, "aside") /\ q.at = "activate" /\ q.manifest = request[k].manifest
           /\ q.previous = data /\ data' = NoDirectory
  <2>1. Becomes(k, q) /\ UNCHANGED preview  BY <1>1 DEF Quiet
  <2>2. Swapping(k) /\ request[k].at = "aside"  BY <1>3 DEF Swapping, At
  <2>3. /\ request'[k].previous = data
        /\ \A j \in Slots : j # k => request'[j].previous = request[j].previous
    BY <1>3, <2>1, BecomesAt
  <2>4. ASSUME ~mixed PROVE AllThere'
    <3>1. AllThere  BY <2>2, <2>4, SwappingUse
    <3>2. In(NoDirectory.file) = {}  BY EmptySize DEF NoDirectory
    <3>3. \A x : Somewhere(x) => Somewhere(x)'
      BY <1>1, <2>3, <3>2 DEF Somewhere
    <3> QED  BY <1>1, <1>3, <3>1, <3>3, NoneSize DEF AllThere
  <2>5. ~mixed => Size(data.file) <= Quota  BY <2>2, SwappingUse DEF AllThere
  <2> QED  BY <1>1, <1>3, <2>1, <2>2, <2>4, <2>5, SwappingUse, RestoreUnmixed
<1> QED  BY <1>1, <1>2, <1>3

LEMMA ActivateUnmixed ==
  ASSUME Typed, Linked, Unmixed, NEW k \in Slots, Activate(k) PROVE Unmixed'
<1>1. /\ Quiet(k, NoRequest) /\ At(k, "activate") /\ UNCHANGED <<kept, snapshots, mixed>>
      /\ data' = Directory(request[k].manifest) /\ owed' = In(request[k].manifest)
  BY ActivateStep
<1>2. Becomes(k, NoRequest) /\ UNCHANGED preview  BY <1>1 DEF Quiet
<1>3. Swapping(k) /\ request[k].at = "activate"  BY <1>1 DEF Swapping, At
<1>4. data'.file = request[k].manifest  BY <1>1 DEF Directory
<1>5. ~mixed => AllThere'
  BY <1>1, <1>3, <1>4, SwappingUse DEF AllThere, Somewhere
<1> QED  BY <1>1, <1>2, <1>3, <1>5, SwappingUse, RestoreUnmixed, NoneTyped, NoneSize

LEMMA ActivateFailsUnmixed ==
  ASSUME Typed, Linked, Unmixed, NEW k \in Slots, ActivateFails(k) PROVE Unmixed'
<1>1. PICK q : /\ Quiet(k, q) /\ UNCHANGED <<data, kept, snapshots, owed, mixed>>
               /\ q.at \in {"idle", "putBack"} /\ q.previous = request[k].previous
  BY ActivateFailsStep
<1>2. Becomes(k, q) /\ UNCHANGED preview  BY <1>1 DEF Quiet
<1>3. Swapping(k)  BY DEF ActivateFails, Swapping, At
<1>4. \A j \in Slots : request'[j].previous = request[j].previous
  BY <1>1, <1>2, BecomesAt
<1>5. ~mixed => AllThere'
  <2>1. ~mixed => AllThere  BY <1>3, SwappingUse
  <2> QED  BY <1>1, <1>4, <2>1 DEF AllThere, Somewhere
<1>6. q.at \notin {"aside", "activate"}  BY <1>1
<1> QED  BY <1>1, <1>2, <1>3, <1>5, <1>6, SwappingUse, RestoreUnmixed

LEMMA PutBackUnmixed ==
  ASSUME Typed, Linked, Unmixed, NEW k \in Slots, PutBack(k) PROVE Unmixed'
<1>1. /\ Quiet(k, NoRequest) /\ At(k, "putBack") /\ UNCHANGED <<snapshots, owed, mixed>>
      /\ \/ Vacant(data) /\ data' = request[k].previous /\ UNCHANGED kept
         \/ data' = data /\ kept' = kept \cup {request[k].previous}
  BY PutBackStep
<1>2. Becomes(k, NoRequest) /\ UNCHANGED preview  BY <1>1 DEF Quiet
<1>3. Swapping(k)  BY <1>1 DEF Swapping, At
<1>4. \A j \in Slots : j # k => request'[j] = request[j]
  BY <1>2, BecomesAt
<1>5. Vacant(data) => In(data.file) = {}
  BY EmptySize DEF Vacant
<1>6. \A x : Somewhere(x) => Somewhere(x)'
  <2>1. CASE Vacant(data) /\ data' = request[k].previous /\ UNCHANGED kept
    BY <1>4, <1>5, <2>1 DEF Somewhere
  <2>2. CASE data' = data /\ kept' = kept \cup {request[k].previous}
    BY <1>4, <2>2 DEF Somewhere
  <2> QED  BY <1>1, <2>1, <2>2
<1>7. ~mixed => AllThere'
  BY <1>1, <1>3, <1>6, SwappingUse DEF AllThere
<1> QED  BY <1>1, <1>2, <1>3, <1>7, SwappingUse, RestoreUnmixed, NoneTyped, NoneSize

LEMMA StepUnmixed ==
  ASSUME Typed, Linked, Unmixed, NEW k \in Slots, Step(k) PROVE Unmixed'
<1>0. ASSUME NEW r \in Revisions \cup {0},
             NEW kind \in {"start", "snapshot", "restore", "stop"}, Begin(k, kind, r)
      PROVE  Unmixed'
  BY <1>0, BeginStep, CalmUnmixed
<1>1. CASE StartPreview(k)  BY <1>0, <1>1 DEF StartPreview
<1>2. CASE StopPreview(k)  BY <1>0, <1>2 DEF StopPreview
<1>3. CASE CreateSnapshot(k)  BY <1>0, <1>3 DEF CreateSnapshot
<1>4. CASE RestoreSnapshot(k)  BY <1>0, <1>4 DEF RestoreSnapshot
<1>5. CASE Stopped(k)  BY <1>5, StoppedStep, CalmUnmixed
<1>6. CASE Fork(k)  BY <1>6, ForkStep, CalmUnmixed
<1>7. CASE Boot(k)  BY <1>7, BootStep, CalmUnmixed
<1>8. CASE List(k)  BY <1>8, ListStep, CalmUnmixed
<1>9. CASE ReadFile(k)  BY <1>9, ReadFileStep, CalmUnmixed
<1>10. CASE CopyFile(k)  BY <1>10, CopyFileStep, CalmUnmixed
<1>11. CASE Verify(k)  BY <1>11, VerifyUnmixed
<1>12. CASE Aside(k)  BY <1>12, AsideUnmixed
<1>13. CASE Activate(k)  BY <1>13, ActivateUnmixed
<1>14. CASE ActivateFails(k)  BY <1>14, ActivateFailsUnmixed
<1>15. CASE PutBack(k)  BY <1>15, PutBackUnmixed
<1>16. CASE Fail(k)  BY <1>16, FailStep, CalmUnmixed
<1> QED
  BY <1>1, <1>2, <1>3, <1>4, <1>5, <1>6, <1>7, <1>8, <1>9, <1>10, <1>11, <1>12, <1>13, <1>14,
     <1>15, <1>16 DEF Step

LEMMA MutatesUnmixed ==
  ASSUME Typed, Unmixed, NEW c \in Previews, NEW m, Mutates(c, m),
         ~mixed' =>
           /\ ~mixed /\ (\A d \in Previews : Busy(d) => d = c) /\ \A k \in Slots : ~Swapping(k)
           /\ Extends(m)' /\ AllThere'
  PROVE  Unmixed'
<1> SUFFICES ASSUME ~mixed' PROVE OneMutation'
  BY DEF Unmixed
<1>1. /\ preview'[c].mutation = m
      /\ \A d \in Previews : d # c => preview'[d] = preview[d]
  BY DEF Mutates, Typed, PreviewRecords
<1>2. OneMutation /\ UNCHANGED request  BY DEF Unmixed, Mutates
<1>3. \A d \in Previews : d # c => preview'[d].mutation = NoMutation
  BY <1>1 DEF Busy
<1>4. \A d \in Previews : Busy(d)' => d = c
  BY <1>3 DEF Busy, NoMutation
<1>5. \A k \in Slots : ~Swapping(k)'
  BY <1>2 DEF Swapping
<1>6. ASSUME NEW d \in Previews PROVE Extends(preview[d].mutation)'
  <2>1. CASE d = c  BY <1>1, <2>1 DEF Extends
  <2>2. CASE d # c  BY <1>3, <2>2 DEF Extends, NoMutation
  <2> QED  BY <2>1, <2>2
<1> QED  BY <1>2, <1>4, <1>5, <1>6 DEF OneMutation

\* What a mutation under way says of the others.
LEMMA BusyUse ==
  ASSUME Unmixed, ~mixed, NEW c \in Previews, Busy(c)
  PROVE  /\ (\A d \in Previews : Busy(d) => d = c) /\ \A k \in Slots : ~Swapping(k)
         /\ Extends(preview[c].mutation) /\ AllThere
  BY DEF Unmixed, OneMutation

LEMMA SameThere ==
  ASSUME AllThere, data'.file = data.file, UNCHANGED <<kept, owed, request>> PROVE AllThere'
  BY DEF AllThere, Somewhere

LEMMA PreviewUnmixed ==
  ASSUME Typed, Linked, Unmixed, NEW c \in Previews, Preview(c) PROVE Unmixed'
<1>0. ASSUME NEW m, Mutates(c, m) PROVE UNCHANGED <<kept, request>>
  BY <1>0 DEF Mutates
<1>1. ASSUME NEW e \in Entities, Send(c, e) PROVE Unmixed'
  <2>1. PICK m \in Pending :
           /\ Mutates(c, m) /\ m.at = "prepare" /\ m.entity = e /\ m.items = data.file[e] \cup {m.id}
           /\ UNCHANGED <<data, owed>>
           /\ mixed' = (mixed \/ (\E d \in Previews : Busy(d)) \/ \E k \in Slots : Swapping(k))
    BY <1>1, SendStep
  <2>2. ~mixed' => ~mixed /\ (\A d \in Previews : ~Busy(d)) /\ \A k \in Slots : ~Swapping(k)
    BY <2>1
  <2>3. Extends(m)'  BY <2>1 DEF Extends
  <2>4. ~mixed' => AllThere'
    BY <1>0, <2>1, <2>2, SameThere DEF Unmixed, OneMutation
  <2> QED  BY <2>1, <2>2, <2>3, <2>4, MutatesUnmixed
<1>2. CASE Prepare(c)
  <2>1. PICK m : /\ Mutates(c, m) /\ UNCHANGED <<owed, mixed, sent>>
                 /\ data'.file = data.file /\ Busy(c)
                 /\ \/ m = NoMutation
                    \/ /\ m = [preview[c].mutation EXCEPT !.at = "rename"]
                       /\ Size([data.file EXCEPT ![preview[c].mutation.entity] = preview[c].mutation.items]) <= Quota
    BY <1>2, PrepareStep
  <2>2. preview[c].mutation \in Pending  BY <2>1, MutationState
  <2>3. Extends(preview[c].mutation) => Extends(m)'
    <3>1. CASE m = NoMutation  BY <3>1 DEF Extends, NoMutation
    <3>2. CASE /\ m = [preview[c].mutation EXCEPT !.at = "rename"]
               /\ Size([data.file EXCEPT ![preview[c].mutation.entity] = preview[c].mutation.items]) <= Quota
      <4>1. m.entity = preview[c].mutation.entity /\ m.items = preview[c].mutation.items /\ m.id = preview[c].mutation.id
        BY <2>2, <3>2 DEF Pending
      <4>2. preview[c].mutation # NoMutation  BY <2>1 DEF Busy
      <4> QED  BY <2>1, <3>2, <4>1, <4>2 DEF Extends
    <3> QED  BY <2>1, <3>1, <3>2
  <2>4. ~mixed => AllThere'  BY <1>0, <2>1, BusyUse, SameThere
  <2> QED  BY <2>1, <2>3, <2>4, BusyUse, MutatesUnmixed
<1>3. CASE Rename(c)
  <2>0. PICK p : p = preview[c].mutation
    OBVIOUS
  <2>1. /\ Mutates(c, NoMutation) /\ UNCHANGED <<mixed, sent>> /\ Busy(c)
        /\ p.at = "rename" /\ p \in Pending
        /\ \/ UNCHANGED <<data, owed>>
           \/ /\ data'.file = [data.file EXCEPT ![p.entity] = p.items]
              /\ owed' \subseteq owed \cup {p.id}
    BY <1>3, <2>0, RenameStep
  <2>2. Extends(NoMutation)'  BY DEF Extends, NoMutation
  <2>3. ASSUME ~mixed PROVE AllThere'
    <3>1. Extends(p) /\ AllThere  BY <2>0, <2>1, <2>3, BusyUse
    <3>2. CASE UNCHANGED <<data, owed>>  BY <1>0, <2>1, <3>1, <3>2, SameThere
    <3>3. CASE /\ data'.file = [data.file EXCEPT ![p.entity] = p.items]
               /\ owed' \subseteq owed \cup {p.id}
      <4>1. data.file[p.entity] \subseteq p.items /\ p.id \in p.items /\ Size(data'.file) <= Quota
        BY <2>0, <2>1, <3>1, <3>3 DEF Extends, Busy
      <4>2. p.entity \in Entities /\ data.file \in FileMaps  BY <2>1, FileMapOfData DEF Pending
      <4>3. In(data.file) \subseteq In(data'.file) /\ p.id \in In(data'.file)
        BY <3>3, <4>1, <4>2 DEF In, FileMaps
      <4>4. \A x : Somewhere(x) => Somewhere(x)'
        BY <1>0, <2>1, <4>3 DEF Somewhere
      <4>5. Somewhere(p.id)'  BY <4>3 DEF Somewhere
      <4> QED  BY <3>1, <3>3, <4>1, <4>4, <4>5 DEF AllThere
    <3> QED  BY <2>1, <3>2, <3>3
  <2> QED  BY <2>1, <2>2, <2>3, BusyUse, MutatesUnmixed
<1>4. CASE Disconnect(c)
  <2>0. PICK m : m = [preview[c].mutation EXCEPT !.connected = FALSE]
    OBVIOUS
  <2>1. Mutates(c, m) /\ UNCHANGED <<data, owed, mixed, sent>> /\ Busy(c)
    BY <1>4, <2>0, DisconnectStep
  <2>2. preview[c].mutation \in Pending  BY <2>1, MutationState
  <2>3. /\ m.entity = preview[c].mutation.entity /\ m.items = preview[c].mutation.items
        /\ m.id = preview[c].mutation.id /\ m.at = preview[c].mutation.at
    BY <2>0, <2>2 DEF Pending
  <2>4. Extends(preview[c].mutation) => Extends(m)'
    BY <2>1, <2>3 DEF Extends, Busy
  <2>5. ~mixed => AllThere'  BY <1>0, <2>1, BusyUse, SameThere
  <2> QED  BY <2>1, <2>4, <2>5, BusyUse, MutatesUnmixed
<1> QED  BY <1>1, <1>2, <1>3, <1>4 DEF Preview

LEMMA CrashUnmixed == ASSUME Typed, Linked, Unmixed, Crash PROVE Unmixed'
<1> SUFFICES ASSUME ~mixed' PROVE OneMutation'
  BY DEF Unmixed
<1>1. /\ UNCHANGED <<data, owed>> /\ \A k \in Slots : request'[k] = NoRequest
      /\ kept' = kept \cup {request[k].previous : k \in {j \in Slots : MovedAside(j)}}
      /\ \A c \in Previews : preview'[c].mutation # NoMutation => preview'[c] = preview[c]
      /\ OneMutation
  BY DEF Crash, Unmixed
<1>2. \A c \in Previews : Busy(c)' => Busy(c) /\ preview'[c] = preview[c]
  BY <1>1 DEF Busy, NoMutation
<1>3. \A k \in Slots : ~Swapping(k)' /\ request'[k].at = "idle" /\ Size(request'[k].previous.file) <= Quota
  BY <1>1, NoneTyped, NoneSize DEF Swapping
<1>4. \A c \in Previews : Extends(preview[c].mutation)'
  BY <1>1, <1>2 DEF OneMutation, Extends, Busy, NoMutation
<1>5. \A c, d \in Previews : Busy(c)' /\ Busy(d)' => c = d
  BY <1>1, <1>2 DEF OneMutation
<1>6. AllThere'
  <2>1. ASSUME NEW k \in Slots, ~MovedAside(k) PROVE In(request[k].previous.file) = {}
    <3>1. request[k].previous = NoDirectory  BY <2>1 DEF Linked, Founded, MovedAside
    <3> QED  BY <3>1, EmptySize DEF NoDirectory
  <2>2. \A x : Somewhere(x) => Somewhere(x)'
    BY <1>1, <2>1 DEF Somewhere
  <2> QED  BY <1>1, <2>2 DEF OneMutation, AllThere
<1> QED  BY <1>1, <1>2, <1>3, <1>4, <1>5, <1>6 DEF OneMutation

-----------------------------------------------------------------------------

LEMMA InitRInv == Init => RuntimeInv
<1> SUFFICES ASSUME Init PROVE RuntimeInv
  OBVIOUS
<1>1. /\ data = NoDirectory /\ kept = {} /\ snapshots = {} /\ session = 0
      /\ \A c \in Previews : preview[c] = [state |-> "none", mutation |-> NoMutation]
      /\ \A k \in Slots : request[k] = NoRequest
      /\ sent = 0 /\ owed = {} /\ crowded = FALSE /\ mixed = FALSE
  BY DEF Init
<1>2. Typed
  <2>1. preview \in [Previews -> PreviewRecords]  BY DEF Init, PreviewRecords
  <2>2. request \in [Slots -> RequestRecords]  BY NoneTyped DEF Init
  <2>3. sent \in 0..MaxRecords /\ session \in Previews \cup {0} /\ owed \subseteq Records  BY <1>1
  <2>4. crowded \in BOOLEAN /\ mixed \in BOOLEAN  BY <1>1
  <2>5. data \in Directories /\ kept \subseteq Directories  BY <1>1, NoneTyped
  <2>6. snapshots \subseteq [manifest : FileMaps, copy : FileMaps, image : FileMaps]  BY <1>1
  <2> QED  BY <2>1, <2>2, <2>3, <2>4, <2>5, <2>6 DEF Typed
<1>3. \A c \in Previews : ~Busy(c) /\ preview[c].state = "none"  BY <1>1 DEF Busy
<1>4. \A k \in Slots : request[k].at = "idle" /\ request[k].previous = NoDirectory /\ Founded(request[k])
  BY <1>1, NoneTyped
<1>5. Linked
  BY <1>1, <1>3, <1>4 DEF Linked, Handled, Apart, At
<1>6. Alone
  BY <1>1, <1>3, <1>4 DEF Alone, CopiedSoFar, At
<1>7. AllThere  BY <1>1, NoneSize DEF AllThere
<1>8. \A c \in Previews : Extends(preview[c].mutation)  BY <1>3 DEF Extends, Busy
<1>9. Unmixed
  BY <1>3, <1>4, <1>7, <1>8, NoneSize DEF Unmixed, OneMutation
<1> QED  BY <1>2, <1>5, <1>6, <1>9 DEF RuntimeInv

LEMMA SameRInv == RuntimeInv /\ UNCHANGED runtime => RuntimeInv'
<1> SUFFICES ASSUME RuntimeInv, UNCHANGED runtime PROVE RuntimeInv'
  OBVIOUS
<1>1. UNCHANGED <<data, kept, snapshots, session, preview, request, sent, owed, crowded, mixed>>
  BY DEF runtime
<1>2. Typed'  BY <1>1 DEF RuntimeInv, Typed
<1>3. Linked'  BY <1>1 DEF RuntimeInv, Linked, Founded, Handled, Apart, At, Busy
<1>4. Alone'  BY <1>1 DEF RuntimeInv, Alone, CopiedSoFar, At
<1>5. \A c \in Previews : Extends(preview[c].mutation)' <=> Extends(preview[c].mutation)
  BY <1>1 DEF Extends
<1>6. AllThere => AllThere'  BY <1>1 DEF AllThere, Somewhere
<1>7. Unmixed'  BY <1>1, <1>5, <1>6 DEF RuntimeInv, Unmixed, OneMutation, Busy, Swapping
<1> QED  BY <1>2, <1>3, <1>4, <1>7 DEF RuntimeInv

LEMMA NextRInv == RuntimeInv /\ [Next]_vars => RuntimeInv'
<1> SUFFICES ASSUME RuntimeInv, [Next]_vars PROVE RuntimeInv'
  OBVIOUS
<1>1. ASSUME NEW c \in Previews, Preview(c) PROVE RuntimeInv'
  BY <1>1, PreviewTyped, PreviewLinked, PreviewAlone, PreviewUnmixed DEF RuntimeInv
<1>2. ASSUME NEW k \in Slots, Step(k) PROVE RuntimeInv'
  BY <1>2, StepTyped, StepLinked, StepAlone, StepUnmixed DEF RuntimeInv
<1>3. CASE Crash
  BY <1>3, CrashTyped, CrashLinked, CrashAlone, CrashUnmixed DEF RuntimeInv
<1>4. CASE UNCHANGED runtime
  BY <1>4, SameRInv
<1> QED  BY <1>1, <1>2, <1>3, <1>4 DEF Next, vars

\* The inductive invariant of the previews, snapshots and restores.
THEOREM RuntimeInvariant == Spec => []RuntimeInv
  BY InitRInv, NextRInv, PTL DEF Spec

\* Data, snapshots, previews and requests keep their types, a request that stops or starts
\* a preview finds it in the state for that, and one that copies files has one left.
THEOREM RuntimeTypeCorrect == Spec => []TypeOK
<1>1. RuntimeInv /\ ReleasesTypeOK => TypeOK
  <2> SUFFICES ASSUME Typed, Linked, ReleasesTypeOK PROVE TypeOK
    BY DEF RuntimeInv
  <2>1. \A s \in snapshots : {s.manifest, s.copy, s.image} \subseteq [Entities -> SUBSET Records]
    BY DEF Typed, FileMaps
  <2>2. ASSUME NEW c \in Previews
        PROVE  /\ preview[c].state \in {"none", "starting", "open", "closing", "gone"}
               /\ Busy(c) => preview[c].state \in {"open", "closing"}
                             /\ preview[c].mutation.at \in {"prepare", "rename"}
    BY MutationState DEF Linked, PreviewRecords, Pending
  <2>3. ASSUME NEW k \in Slots
        PROVE  /\ At(k, "stopping") => preview[request[k].preview].state = "closing"
               /\ At(k, "boot") => preview[request[k].preview].state = "starting"
               /\ request[k].at \in {"read", "copy"} => request[k].todo # {}
               /\ At(k, "putBack") => MovedAside(k)
               /\ request[k].previous \in Directories
    BY DEF Typed, Linked, Handled, Founded, MovedAside, At, RequestRecords
  <2> QED  BY <2>1, <2>2, <2>3 DEF TypeOK, Typed, Linked
<1> QED  BY <1>1, RuntimeInvariant, ReleasesTypeCorrect, PTL

\* As long as the owner's requests do not overlap, a snapshot that verification accepts is
\* the image of one moment, however many clients write while it is asked for.
THEOREM SnapshotSoundness == Spec => []CertifiedIsImage
<1>1. RuntimeInv => CertifiedIsImage  BY DEF RuntimeInv, Alone, CertifiedIsImage
<1> QED  BY <1>1, RuntimeInvariant, PTL

\* As long as mutations do not overlap one another or a restore, every record that was
\* answered or restored is in the data or next to it, and the data is within its quota,
\* whatever restores overlap, fail or are cut off.
THEOREM RecordsKept == Spec => []DataHolds
<1>1. RuntimeInv => DataHolds  BY DataHoldsEach DEF RuntimeInv, Unmixed, OneMutation
<1> QED  BY <1>1, RuntimeInvariant, PTL
=============================================================================
