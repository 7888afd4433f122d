------------------------------ MODULE ForgeRuntime ------------------------------
(***************************************************************************)
(* The previews of a Forge project and the data they write, next to its    *)
(* revisions and releases (hercules-forge, preview.mjs, runtime-data.mjs,  *)
(* the store compiler.mjs generates, and the handlers of control-api.mjs). *)
(* A preview is a server that passes requests on to a process of its own.  *)
(* The process writes one file per entity, and its data can be copied to   *)
(* snapshots and restored from them.                                       *)
(*                                                                         *)
(* Records are only added: an entity has a file when it has a record.      *)
(***************************************************************************)
EXTENDS ForgeReleases, FiniteSetsExt

CONSTANTS
  NEntities,   \* entities, in the order of their names
  NPreviews,   \* bound: previews
  MaxRecords,  \* bound: records sent (they count as requests too)
  Quota        \* records the data may have

Entities == 1..NEntities
Previews == 1..NPreviews
Records == 1..MaxRecords

ASSUME RuntimeAssumption ==
  /\ {NEntities, NPreviews, MaxRecords} \subseteq Nat \ {0}
  /\ Quota \in Nat

VARIABLES
  data,       \* the directory the previews write
  kept,       \* directories that were moved aside and stay there
  snapshots,
  session,    \* the preview in the manager's map, or 0
  preview,    \* of each its state and the mutation at the head of its queue
  request,    \* the preview and data requests
  sent,       \* records sent
  owed,       \* history: records that were answered or restored, since the last restore
  crowded,    \* history: a request began while another was under way
  mixed       \* history: a mutation was under way during another, or during a restore

runtime == <<data, kept, snapshots, session, preview, request, sent, owed, crowded, mixed>>
vars == <<releaseVars, runtime>>

\* A directory: the records of every entity's file, and the previews with a
\* temporary file in it.
NoFiles == [e \in Entities |-> {}]
NoDirectory == [there |-> FALSE, file |-> NoFiles, temp |-> {}]
Directory(file) == [there |-> TRUE, file |-> file, temp |-> {}]
Directories == [there : BOOLEAN, file : [Entities -> SUBSET Records], temp : SUBSET Previews]

In(file) == UNION {file[e] : e \in Entities}
Size(file) == Cardinality({x \in Entities \X Records : x[2] \in file[x[1]]})

\* rename() to it succeeds.
Vacant(d) == d.file = NoFiles /\ d.temp = {}

NoMutation == [at |-> "none", entity |-> 0, items |-> {}, id |-> 0, connected |-> FALSE]
Busy(c) == preview[c].mutation # NoMutation

NoRequest == [kind |-> "none", at |-> "idle", preview |-> 0, revision |-> 0, todo |-> {},
              manifest |-> NoFiles, copy |-> NoFiles, image |-> NoFiles, previous |-> NoDirectory]

At(k, s) == request[k].at = s
Goto(k, s) == request' = [request EXCEPT ![k].at = s]
Done(k) == request' = [request EXCEPT ![k] = NoRequest]

Idle == \A k \in Slots : At(k, "idle")

\* Requests are alike: a new one takes the first slot that is free.
Free(k) == At(k, "idle") /\ TaskAt(k, "idle")
FirstFree(k) == Free(k) /\ \A j \in 1..(k - 1) : ~Free(j)

Swapping(k) == request[k].at \in {"aside", "activate", "putBack"}

Init ==
  /\ ReleasesInit
  /\ data = NoDirectory /\ kept = {} /\ snapshots = {} /\ session = 0
  /\ preview = [c \in Previews |-> [state |-> "none", mutation |-> NoMutation]]
  /\ request = [k \in Slots |-> NoRequest]
  /\ sent = 0
  /\ owed = {} /\ crowded = FALSE /\ mixed = FALSE

NoReleases == UNCHANGED releaseVars
NoData == UNCHANGED <<data, kept, snapshots, owed>>
NoPreviews == UNCHANGED <<session, preview, sent>>
NoHistory == UNCHANGED <<crowded, mixed>>

-----------------------------------------------------------------------------
\* A mutation in the process of preview c: the runtime store compiler.mjs generates

Mutation(c, m) == preview' = [preview EXCEPT ![c].mutation = m]
MutationAt(c, s) == preview[c].mutation.at = s
MutationGoto(c, s) == preview' = [preview EXCEPT ![c].mutation.at = s]

\* A client sends a record of entity e.  Mutations queue up; the head reads its file.
Send(c, e) ==
  /\ preview[c].state = "open" /\ ~Busy(c) /\ sent < MaxRecords
  /\ sent' = sent + 1 /\ served < MaxServed /\ served' = served + 1
  /\ Mutation(c, [at |-> "prepare", entity |-> e, items |-> data.file[e] \cup {sent'},
                  id |-> sent', connected |-> TRUE])
  /\ mixed' = (mixed \/ (\E d \in Previews : Busy(d)) \/ \E k \in Slots : Swapping(k))
  /\ NoData /\ UNCHANGED <<files, task, faults, session, request, crowded>>

\* bytesExcluding() and the quota, and the temporary file of atomicWrite(): both need
\* the directory.
Prepare(c) ==
  LET m == preview[c].mutation IN
  /\ MutationAt(c, "prepare")
  /\ IF data.there /\ Size([data.file EXCEPT ![m.entity] = m.items]) <= Quota
     THEN data' = [data EXCEPT !.temp = @ \cup {c}] /\ MutationGoto(c, "rename")
     ELSE Mutation(c, NoMutation) /\ UNCHANGED data
  /\ NoReleases /\ NoHistory /\ UNCHANGED <<kept, snapshots, owed, session, request, sent>>

\* The temporary file is renamed if it is still where it was.
Rename(c) ==
  LET m == preview[c].mutation IN
  /\ MutationAt(c, "rename")
  /\ IF c \in data.temp
     THEN /\ data' = [data EXCEPT !.file[m.entity] = m.items, !.temp = @ \ {c}]
          /\ owed' = IF m.connected THEN owed \cup {m.id} ELSE owed
     ELSE UNCHANGED <<data, owed>>
  /\ Mutation(c, NoMutation)
  /\ NoReleases /\ NoHistory /\ UNCHANGED <<kept, snapshots, session, request, sent>>

\* The client does not wait for the answer.
Disconnect(c) ==
  /\ preview[c].mutation.connected
  /\ preview' = [preview EXCEPT ![c].mutation.connected = FALSE]
  /\ NoReleases /\ NoData /\ NoHistory /\ UNCHANGED <<session, request, sent>>

-----------------------------------------------------------------------------
\* Every request of the owner first stops the preview in the map, if there is one.

After(kind) ==
  CASE kind = "start" -> "build" [] kind = "snapshot" -> "list"
    [] kind = "restore" -> "verify" [] kind = "stop" -> "idle"

Begin(k, kind, r) ==
  LET begun == [NoRequest EXCEPT !.kind = kind, !.revision = r] IN
  /\ FirstFree(k)
  /\ served < MaxServed /\ served' = served + 1
  /\ crowded' = (crowded \/ ~Idle)
  /\ session' = 0
  /\ IF session # 0
     THEN /\ preview' = [preview EXCEPT ![session].state = "closing"]
          /\ request' = [request EXCEPT ![k] =
               [begun EXCEPT !.at = "stopping", !.preview = session]]
     ELSE /\ kind # "stop"
          /\ request' = [request EXCEPT ![k] = [begun EXCEPT !.at = After(kind)]]
          /\ UNCHANGED preview
  /\ NoData /\ UNCHANGED <<files, task, faults, sent, mixed>>

StartPreview(k) ==
  /\ Cardinality({c \in Previews : preview[c].state = "none"})
       > Cardinality({j \in Slots : request[j].kind = "start" /\ request[j].at # "boot"})
  /\ \E r \in Revisions : revision[r] = "done" /\ Begin(k, "start", r)
StopPreview(k) == Begin(k, "stop", 0)
CreateSnapshot(k) == Begin(k, "snapshot", 0)
RestoreSnapshot(k) == snapshots # {} /\ Begin(k, "restore", 0)

\* A bug the properties catch: stop() does not wait for the end of the process.
StoppedTooEarly(k) ==
  /\ At(k, "stopping")
  /\ ~preview[request[k].preview].mutation.connected
  /\ preview' = [preview EXCEPT ![request[k].preview].state = "gone"]
  /\ IF request[k].kind = "stop" THEN Done(k) ELSE Goto(k, After(request[k].kind))
  /\ NoReleases /\ NoData /\ NoHistory /\ UNCHANGED <<session, sent>>

\* closeServer() waits for the clients, and stopChild() for the end of the process,
\* which cuts off a mutation nobody waits for.
Stopped(k) ==
  /\ At(k, "stopping")
  /\ ~preview[request[k].preview].mutation.connected
  /\ preview' = [preview EXCEPT ![request[k].preview] = [state |-> "gone", mutation |-> NoMutation]]
  /\ IF request[k].kind = "stop" THEN Done(k) ELSE Goto(k, After(request[k].kind))
  /\ NoReleases /\ NoData /\ NoHistory /\ UNCHANGED <<session, sent>>

-----------------------------------------------------------------------------
\* start(): build, fork and wait

BuildsTheSame(k) ==
  \E j \in Slots : TaskAt(j, "build") /\ task[j].revision = request[k].revision

\* buildForgeArtifact(), verifyForgeArtifact() and mkdir()
Fork(k) ==
  /\ At(k, "build")
  /\ \/ \E c \in Previews :
          /\ preview[c].state = "none" /\ \A d \in 1..(c - 1) : preview[d].state # "none"
          /\ preview' = [preview EXCEPT ![c].state = "starting"]
          /\ request' = [request EXCEPT ![k].at = "boot", ![k].preview = c]
          /\ data' = [data EXCEPT !.there = TRUE]
     \/ /\ BuildsTheSame(k) \/ \E j \in Slots \ {k} : At(j, "build")
        /\ Done(k) /\ UNCHANGED <<data, preview>>
  /\ NoReleases /\ NoHistory /\ UNCHANGED <<kept, snapshots, owed, session, sent>>

\* The process makes its directory too, and reports.  The map has the last preview.
Boot(k) ==
  /\ At(k, "boot")
  /\ data' = [data EXCEPT !.there = TRUE]
  /\ preview' = [preview EXCEPT ![request[k].preview].state = "open"]
  /\ session' = request[k].preview
  /\ Done(k)
  /\ NoReleases /\ NoHistory /\ UNCHANGED <<kept, snapshots, owed, sent>>

-----------------------------------------------------------------------------
\* createSnapshot(): the files are listed, and one after the other read and copied

\* The manifest is written and the directory renamed.  What verifySnapshot() refuses
\* then stays, and is refused again.
Sealed(k, manifest, copy, image) ==
  /\ snapshots' = snapshots \cup {[manifest |-> manifest, copy |-> copy, image |-> image]}
  /\ Done(k)

List(k) ==
  /\ At(k, "list")
  /\ CASE data.temp # {} -> Done(k) /\ UNCHANGED snapshots
       [] Vacant(data) -> Sealed(k, NoFiles, NoFiles, NoFiles)
       [] OTHER -> /\ request' = [request EXCEPT ![k].at = "read", ![k].image = data.file,
                                   ![k].todo = {e \in Entities : data.file[e] # {}}]
                   /\ UNCHANGED snapshots
  /\ NoReleases /\ NoPreviews /\ NoHistory /\ UNCHANGED <<data, kept, owed>>

NextFile(k) == Min(request[k].todo)

ReadFile(k) ==
  LET e == NextFile(k) IN
  /\ At(k, "read")
  /\ IF data.file[e] = {} THEN Done(k)
     ELSE request' = [request EXCEPT ![k].manifest[e] = data.file[e], ![k].at = "copy"]
  /\ NoReleases /\ NoData /\ NoPreviews /\ NoHistory

CopyFile(k) ==
  LET e == NextFile(k)
      copy == [request[k].copy EXCEPT ![e] = data.file[e]] IN
  /\ At(k, "copy")
  /\ CASE data.file[e] = {} -> Done(k) /\ UNCHANGED snapshots
       [] data.file[e] # {} /\ request[k].todo = {e} ->
            Sealed(k, request[k].manifest, copy, request[k].image)
       [] OTHER -> /\ request' = [request EXCEPT ![k].at = "read", ![k].copy = copy,
                                   ![k].todo = @ \ {e}]
                   /\ UNCHANGED snapshots
  /\ NoReleases /\ NoPreviews /\ NoHistory /\ UNCHANGED <<data, kept, owed>>

-----------------------------------------------------------------------------
\* restoreSnapshot()

\* verifySnapshot(), the quota, the copy, and exists() of the data
Verify(k) ==
  /\ At(k, "verify")
  /\ \E s \in snapshots :
       IF s.manifest = s.copy /\ Size(s.manifest) <= Quota
       THEN /\ request' = [request EXCEPT ![k].manifest = s.manifest,
                             ![k].at = IF data.there THEN "aside" ELSE "activate"]
            /\ mixed' = (mixed \/ \E c \in Previews : Busy(c))
       ELSE Done(k) /\ UNCHANGED mixed
  /\ NoReleases /\ NoData /\ NoPreviews /\ UNCHANGED crowded

Aside(k) ==
  /\ At(k, "aside")
  /\ IF data.there
     THEN /\ request' = [request EXCEPT ![k].previous = data, ![k].at = "activate"]
          /\ data' = NoDirectory
     ELSE Done(k) /\ UNCHANGED data
  /\ NoReleases /\ NoPreviews /\ NoHistory /\ UNCHANGED <<kept, snapshots, owed>>

MovedAside(k) == request[k].previous.there

\* The previous directory is removed then.
Activate(k) ==
  /\ At(k, "activate") /\ Vacant(data)
  /\ data' = Directory(request[k].manifest)
  /\ owed' = In(request[k].manifest)
  /\ Done(k)
  /\ NoReleases /\ NoPreviews /\ NoHistory /\ UNCHANGED <<kept, snapshots>>

\* Two bugs the properties catch: the previous directory is not moved back, or is although
\* there was none.
ActivateGivesUp(k) ==
  /\ At(k, "activate")
  /\ \/ ~Vacant(data) /\ UNCHANGED faults
     \/ faults < MaxFaults /\ faults' = faults + 1
  /\ Done(k)
  /\ NoData /\ NoPreviews /\ NoHistory /\ UNCHANGED <<files, task, served>>

ActivateAlwaysPutsBack(k) ==
  /\ At(k, "activate")
  /\ \/ ~Vacant(data) /\ UNCHANGED faults
     \/ faults < MaxFaults /\ faults' = faults + 1
  /\ Goto(k, "putBack")
  /\ NoData /\ NoPreviews /\ NoHistory /\ UNCHANGED <<files, task, served>>

\* Another directory has taken the place, or the file system fails.
ActivateFails(k) ==
  /\ At(k, "activate")
  /\ \/ ~Vacant(data) /\ UNCHANGED faults
     \/ faults < MaxFaults /\ faults' = faults + 1
  /\ IF MovedAside(k) THEN Goto(k, "putBack") ELSE Done(k)
  /\ NoData /\ NoPreviews /\ NoHistory /\ UNCHANGED <<files, task, served>>

\* If this fails too the previous directory is not removed.
PutBack(k) ==
  /\ At(k, "putBack")
  /\ \/ Vacant(data) /\ data' = request[k].previous /\ UNCHANGED <<kept, faults>>
     \/ /\ \/ ~Vacant(data) /\ UNCHANGED faults
           \/ faults < MaxFaults /\ faults' = faults + 1
        /\ kept' = kept \cup {request[k].previous} /\ UNCHANGED data
  /\ Done(k)
  /\ NoPreviews /\ NoHistory /\ UNCHANGED <<files, task, served, snapshots, owed>>

-----------------------------------------------------------------------------
\* Failures

\* A step throws before its effect; a preview that does not report is stopped.
Fail(k) ==
  /\ request[k].at \in {"build", "boot", "list", "read", "copy", "verify", "aside"}
  /\ faults < MaxFaults /\ faults' = faults + 1
  /\ Done(k)
  /\ preview' = IF At(k, "boot") THEN [preview EXCEPT ![request[k].preview].state = "gone"]
                ELSE preview
  /\ NoData /\ NoHistory /\ UNCHANGED <<files, task, served, session, sent>>

\* The control process ends and the previews with it.
Crash ==
  /\ faults < MaxFaults /\ faults' = faults + 1
  /\ task' = [k \in Slots |-> NoTask]
  /\ request' = [k \in Slots |-> NoRequest]
  /\ session' = 0
  /\ preview' = [c \in Previews |-> IF preview[c].state = "none" THEN preview[c]
                                    ELSE [state |-> "gone", mutation |-> NoMutation]]
  /\ kept' = kept \cup {request[k].previous : k \in {j \in Slots : MovedAside(j)}}
  /\ UNCHANGED <<files, served, data, snapshots, sent, owed, crowded, mixed>>

Preview(c) ==
  \/ \E e \in Entities : Send(c, e)
  \/ Prepare(c) \/ Rename(c) \/ Disconnect(c)

Step(k) ==
  \/ StartPreview(k) \/ StopPreview(k) \/ CreateSnapshot(k) \/ RestoreSnapshot(k)
  \/ Stopped(k) \/ Fork(k) \/ Boot(k)
  \/ List(k) \/ ReadFile(k) \/ CopyFile(k)
  \/ Verify(k) \/ Aside(k) \/ Activate(k) \/ ActivateFails(k) \/ PutBack(k)
  \/ Fail(k)

\* Who else builds the artifact of task k.
Disturbed(k) ==
  \/ \E j \in Slots \ {k} : TaskAt(j, "build") /\ task[j].revision = task[k].revision
  \/ \E j \in Slots : At(j, "build") /\ request[j].revision = task[k].revision

Next ==
  \/ \E k \in Slots :
       /\ TaskAt(k, "idle") => FirstFree(k)
       /\ TaskNext(k, Disturbed(k)) /\ UNCHANGED runtime
  \/ \E c \in Previews : Preview(c)
  \/ \E k \in Slots : Step(k)
  \/ Crash

Spec == Init /\ [][Next]_vars

-----------------------------------------------------------------------------

TypeOK ==
  /\ ReleasesTypeOK
  /\ data \in Directories /\ kept \subseteq Directories
  /\ \A s \in snapshots : {s.manifest, s.copy, s.image} \subseteq [Entities -> SUBSET Records]
  /\ session # 0 => preview[session].state = "open"
  /\ \A c \in Previews :
       /\ preview[c].state \in {"none", "starting", "open", "closing", "gone"}
       /\ Busy(c) => preview[c].state \in {"open", "closing"}
                     /\ preview[c].mutation.at \in {"prepare", "rename"}
  /\ \A k \in Slots :
       /\ At(k, "stopping") => preview[request[k].preview].state = "closing"
       /\ At(k, "boot") => preview[request[k].preview].state = "starting"
       /\ request[k].at \in {"read", "copy"} => request[k].todo # {}
       /\ At(k, "putBack") => MovedAside(k)
       /\ request[k].previous \in Directories
  /\ sent \in 0..MaxRecords /\ owed \subseteq Records
  /\ {crowded, mixed} \subseteq BOOLEAN

\* As long as the requests of the owner do not overlap, a snapshot that passes verification
\* is the image of one moment, although clients write while it is asked for: the preview
\* has stopped, with every mutation it had begun, before a file is read.
CertifiedIsImage ==
  ~crowded => \A s \in snapshots : s.manifest = s.copy => s.manifest = s.image

\* As long as no mutation is under way during another or during a restore, the records that
\* were answered since the last restore, and those it brought back, are in the data or in a
\* directory next to it, and the data is within its quota: restores may overlap, fail
\* and be cut off at any step, and fail again when they put back what they moved.
DataHolds ==
  ~mixed =>
    /\ owed \subseteq UNION {In(d.file) : d \in {data} \cup kept
                                            \cup {request[k].previous : k \in Slots}}
    /\ Size(data.file) <= Quota
=============================================================================
