---------------------------- MODULE ForgeDurable ----------------------------
(***************************************************************************)
(* The Forge control service over the private bridge: requests that write  *)
(* managed files, the mirror flush each one waits for before its answer    *)
(* (hercules-forge/durable-state.mjs, control-api.mjs reply), hydration at *)
(* start and the two flushes of a shutdown (production.mjs).  Extends the  *)
(* bridge: one client call is outstanding at a time, and calls the client  *)
(* gave up on keep running in the bridge.                                  *)
(*                                                                         *)
(* The managed files are one directory: a flush lists it, then reads file  *)
(* by file while other requests write.                                     *)
(***************************************************************************)
EXTENDS ForgeBridge, Sequences

CONSTANTS Reqs,        \* state-changing HTTP requests
          NoSlot,      \* the mirror awaits no answer
          Shutdown     \* the owner of a shutdown flush in the mirror's queue

ASSUME NoSlotAssumption == NoSlot \notin Slots
ASSUME ShutdownAssumption == Shutdown \notin Reqs

VARIABLES mode,     \* "down", "boot" (before the server listens) or "up"
          stop,     \* progress of production.mjs shutdown
          hist,     \* path -> contents the file has had; the last is on disk
          acked,    \* path -> position in hist of the last acknowledged write
          closed,   \* path -> position in hist when the server had closed
          misread,  \* history: an unreadable manifest was believed
          req,      \* request -> [st, todo, mark, conn]
          queue,    \* flushes waiting their turn in runSerialized
          flush,    \* the flush that runs, and hydration's manifest
          live      \* slot of the call the mirror awaits

clientVars == <<mode, stop, hist, acked, closed, misread, req, queue, flush, live>>
vars == <<objects, chunks, calls, clientVars>>

Local(p) == hist[p][Len(hist[p])]
First(ps) == {p \in ps : \A q \in ps : p <= q}

NotRead == [p \in Paths |-> 0]
NoFlush == [pc |-> "off", owner |-> Shutdown, listed |-> FALSE,
            scan |-> NotRead, have |-> FALSE, remote |-> NoObjects]
NoRequest == [st |-> "new", todo |-> {}, mark |-> NotRead, conn |-> FALSE]
Over == [NoRequest EXCEPT !.st = "over"]   \* answered, or lost in a crash

Init ==
  /\ BridgeInit
  /\ mode = "down"
  /\ stop = "no"
  /\ hist = [p \in Paths |-> <<Absent>>]
  /\ acked = [p \in Paths |-> 1]
  /\ closed = NotRead
  /\ misread = FALSE
  /\ req = [r \in Reqs |-> NoRequest]
  /\ queue = <<>>
  /\ flush = NoFlush
  /\ live = NoSlot

(***************************************************************************)
(* Calls of the mirror.  SendAs also stands for consuming the answer in    *)
(* slot s and sending the next call in the same JavaScript continuation.   *)
(***************************************************************************)
SendAs(s, c) ==
  /\ Send(s, c)
  /\ live' = s
  /\ UNCHANGED <<objects, chunks>>

\* Nothing is read of the answer to a put, a commit or a delete but its status.
Answered(op) == live # NoSlot /\ calls[live].op = op /\ calls[live].pc = "done"
Succeeded(op) == Answered(op) /\ calls[live].ok
Refused == live # NoSlot /\ calls[live].pc = "done" /\ ~calls[live].ok

Consume == Release(live) /\ live' = NoSlot

-----------------------------------------------------------------------------
(***************************************************************************)
(* Requests.  A handler writes its files one await at a time; an error     *)
(* response is sent without a flush.  A handler of the control server has  *)
(* a connection until it answers or its client leaves.  The mutation of a  *)
(* preview, which has a server of its own and the same flush after it,     *)
(* has none: nobody waits for it at a shutdown, and the previews are       *)
(* stopped only after the control server has closed, without an await.     *)
(***************************************************************************)
Listening == mode = "up" /\ stop \in {"no", "flush1", "failed"}

Begin(r) ==
  /\ mode = "up"
  /\ req[r].st = "new"
  /\ \E ps \in SUBSET Paths \ {{}}, conn \in BOOLEAN :
       /\ conn => Listening
       /\ req' = [req EXCEPT ![r] = [NoRequest EXCEPT !.st = "open", !.todo = ps, !.conn = conn]]
  /\ UNCHANGED <<bridgeVars, mode, stop, hist, acked, closed, misread, queue, flush, live>>

\* The client is gone, the handler runs on.
Disconnect(r) ==
  /\ req[r].conn
  /\ req' = [req EXCEPT ![r].conn = FALSE]
  /\ UNCHANGED <<bridgeVars, mode, stop, hist, acked, closed, misread, queue, flush, live>>

Write(r, p) ==
  /\ req[r].st = "open" /\ p \in req[r].todo
  /\ \E c \in Gens \ {Local(p)} : hist' = [hist EXCEPT ![p] = Append(hist[p], c)]
  /\ req' = [req EXCEPT ![r].todo = req[r].todo \ {p},
                        ![r].mark = [req[r].mark EXCEPT ![p] = Len(hist[p]) + 1]]
  /\ UNCHANGED <<bridgeVars, mode, stop, acked, closed, misread, queue, flush, live>>

Throw(r) ==
  /\ req[r].st = "open"
  /\ req' = [req EXCEPT ![r] = Over]
  /\ UNCHANGED <<bridgeVars, mode, stop, hist, acked, closed, misread, queue, flush, live>>

\* reply(), or onRuntimeMutation of a preview: the response waits for a flush.
Persist(r) ==
  /\ req[r].st = "open" /\ req[r].todo = {}
  /\ req' = [req EXCEPT ![r].st = "waiting"]
  /\ queue' = Append(queue, r)
  /\ UNCHANGED <<bridgeVars, mode, stop, hist, acked, closed, misread, flush, live>>

-----------------------------------------------------------------------------
(***************************************************************************)
(* flush(): scanLocal and remoteManifest in parallel, the upload of every  *)
(* object whose digest differs, the deletion of every stale object, and a  *)
(* second manifest that must equal the scan.                               *)
(***************************************************************************)
StartFlush(s) ==
  /\ mode = "up" /\ flush.pc = "off" /\ queue # <<>>
  /\ SendAs(s, Call("manifest", 0, Absent, 0))
  /\ flush' = [NoFlush EXCEPT !.pc = "scan", !.owner = Head(queue)]
  /\ queue' = Tail(queue)
  /\ UNCHANGED <<mode, stop, hist, acked, closed, misread, req>>

ListFiles ==
  /\ flush.pc = "scan" /\ ~flush.listed
  /\ flush' = [flush EXCEPT !.listed = TRUE,
                 !.scan = [p \in Paths |-> IF Local(p) = Absent THEN Len(hist[p]) ELSE 0]]
  /\ UNCHANGED <<bridgeVars, mode, stop, hist, acked, closed, misread, req, queue, live>>

Unread == {p \in Paths : flush.scan[p] = 0}

ReadFile ==
  /\ flush.pc = "scan" /\ flush.listed
  /\ \E p \in First(Unread) :
       /\ Local(p) # Absent
       /\ flush' = [flush EXCEPT !.scan[p] = Len(hist[p])]
  /\ UNCHANGED <<bridgeVars, mode, stop, hist, acked, closed, misread, req, queue, live>>

(***************************************************************************)
(* remoteManifest() of an answer with status 200.  A body that is cut off, *)
(* or that the timeout ends, is {}, and its objects are none: the mirror   *)
(* takes it for the manifest of an empty bridge.                           *)
(***************************************************************************)
ManifestRead == {calls[live].seen} \cup (IF "body" \in FaultKinds THEN {NoObjects} ELSE {})

GotManifest ==
  /\ flush.pc = "scan" /\ Succeeded("manifest")
  /\ \E manifest \in ManifestRead : flush' = [flush EXCEPT !.have = TRUE, !.remote = manifest]
  /\ Consume
  /\ UNCHANGED <<mode, stop, hist, acked, closed, misread, req, queue>>

\* What the scan read, and what that leaves to do.
Scanned == [p \in Paths |-> hist[p][flush.scan[p]]]

\* Mutated: a file that is gone is uploaded as well.
UploadsOfGoneFiles(remote) == {p \in Paths : Scanned[p] # remote[p]}

Uploads(remote) == {p \in Paths : Scanned[p] \notin {Absent, remote[p]}}
Stale(remote) == {p \in Paths : Scanned[p] = Absent /\ remote[p] # Absent}

Upload(s, remote) ==
  \E p \in First(Uploads(remote)) : SendAs(s, Call("put", p, Scanned[p], 0))

Purge(s, remote) ==
  /\ Uploads(remote) = {}
  /\ \E p \in First(Stale(remote)) : SendAs(s, Call("delete", p, Absent, 0))

Verify(s, remote) ==
  /\ Uploads(remote) = {} /\ Stale(remote) = {}
  /\ SendAs(s, Call("manifest", 0, Absent, 0))

Proceed(s, remote) ==
  /\ \/ Upload(s, remote) /\ flush' = [flush EXCEPT !.pc = "sync", !.remote = remote]
     \/ Purge(s, remote)  /\ flush' = [flush EXCEPT !.pc = "sync", !.remote = remote]
     \/ Verify(s, remote) /\ flush' = [flush EXCEPT !.pc = "verify", !.remote = remote]
  /\ UNCHANGED <<mode, stop, hist, acked, closed, misread, req, queue>>

Diff(s) ==
  /\ flush.pc = "scan" /\ flush.have /\ flush.listed /\ Unread = {}
  /\ Proceed(s, flush.remote)

PutAnswered ==
  LET c == calls[live] IN
  /\ flush.pc = "sync" /\ Succeeded("put")
  /\ SendAs(live, IF c.idx + 1 < ChunkCount[c.gen]
                  THEN Call("put", c.path, c.gen, c.idx + 1)
                  ELSE Call("commit", c.path, c.gen, 0))
  /\ UNCHANGED <<mode, stop, hist, acked, closed, misread, req, queue, flush>>

CommitAnswered ==
  /\ flush.pc = "sync" /\ Succeeded("commit")
  /\ Proceed(live, [flush.remote EXCEPT ![calls[live].path] = calls[live].gen])

DeleteAnswered ==
  /\ flush.pc = "sync" /\ Succeeded("delete")
  /\ Proceed(live, [flush.remote EXCEPT ![calls[live].path] = Absent])

-----------------------------------------------------------------------------
(***************************************************************************)
(* The end of a flush answers its owner: 200, or the 500 that withholds    *)
(* the acknowledgement while the local files stay as they are; or it lets  *)
(* the shutdown go on, or ends it: "stopped" acknowledges what was written *)
(* before the server closed.  The process goes on until its previews end.  *)
(***************************************************************************)
Later(f, g) == [p \in Paths |-> IF f[p] > g[p] THEN f[p] ELSE g[p]]

Halt(st) ==
  /\ mode' = "down"
  /\ req' = [r \in Reqs |-> IF req[r].st \in {"open", "waiting"}
                            THEN Over ELSE req[r]]
  /\ queue' = <<>>
  /\ stop' = st
  /\ closed' = IF st = "no" THEN NotRead ELSE closed
  /\ UNCHANGED <<hist, acked, misread>>

EndFlush(ok) ==
  LET r == flush.owner IN
  /\ flush' = NoFlush
  /\ \/ /\ r \in Reqs
        /\ req' = [req EXCEPT ![r] = Over]
        /\ acked' = IF ok THEN Later(req[r].mark, acked) ELSE acked
        /\ stop' = stop
     \/ /\ r = Shutdown /\ stop = "flush1"
        /\ stop' = IF ok THEN "closing" ELSE "failed"
        /\ UNCHANGED <<acked, req>>
     \/ /\ r = Shutdown /\ stop = "flush2"
        /\ stop' = IF ok THEN "stopped" ELSE "unsynced"
        /\ acked' = IF ok THEN Later(closed, acked) ELSE acked
        /\ req' = req
  /\ UNCHANGED <<mode, hist, closed, queue>>

Verified ==
  /\ flush.pc = "verify" /\ Succeeded("manifest")
  /\ Consume
  /\ \E manifest \in ManifestRead :
       /\ EndFlush(manifest = Scanned)
       /\ misread' = (misread \/ (manifest = Scanned /\ calls[live].seen # Scanned))

\* Mutated: the error of a flush is swallowed and the response sent.
FlushRefusedSwallowed ==
  /\ flush.pc # "off" /\ Refused
  /\ Consume
  /\ EndFlush(TRUE)
  /\ misread' = misread

\* Mutated: a flush that fails does not leave the queue.
FlushRefusedStuck ==
  /\ flush.pc # "off" /\ Refused
  /\ Consume
  /\ UNCHANGED <<mode, stop, hist, acked, closed, misread, req, queue, flush>>

FlushRefused ==
  /\ flush.pc # "off" /\ Refused
  /\ Consume
  /\ EndFlush(FALSE)
  /\ misread' = misread

\* A file that was listed is gone when it is read.
ReadFails ==
  /\ flush.pc = "scan" /\ flush.listed
  /\ \E p \in First(Unread) : Local(p) = Absent
  /\ live' = NoSlot
  /\ UNCHANGED bridgeVars
  /\ EndFlush(FALSE)
  /\ misread' = misread

\* AbortSignal.timeout: the call may have reached the bridge, and run on.
GiveUp == UNCHANGED bridgeVars \/ (calls[live].pc = "start" /\ Release(live))

FlushTimeout ==
  /\ "timeout" \in FaultKinds
  /\ flush.pc # "off" /\ live # NoSlot
  /\ live' = NoSlot
  /\ GiveUp
  /\ EndFlush(FALSE)
  /\ misread' = misread

-----------------------------------------------------------------------------
(***************************************************************************)
(* Start: status, then hydrate() before the server listens.  Any failure   *)
(* ends the process.  Hydration replaces the managed files by the remote   *)
(* objects, whatever the disk held, and by nothing when it could not read  *)
(* the manifest.                                                           *)
(***************************************************************************)
Boot(s) ==
  /\ mode = "down"
  /\ SendAs(s, Call("status", 0, Absent, 0))
  /\ mode' = "boot"
  /\ stop' = "no"
  /\ closed' = NotRead
  /\ UNCHANGED <<hist, acked, misread, req, queue, flush>>

StatusAnswered ==
  /\ mode = "boot" /\ Succeeded("status")
  /\ SendAs(live, Call("manifest", 0, Absent, 0))
  /\ UNCHANGED <<mode, stop, hist, acked, closed, misread, req, queue, flush>>

\* Hydration goes to the first object of a later path, or swaps.
Remaining(after, manifest) == {p \in Paths : p > after /\ manifest[p] # Absent}

FetchNext(after, manifest) ==
  /\ \E p \in First(Remaining(after, manifest)) : SendAs(live, Call("get", p, manifest[p], 0))
  /\ flush' = [flush EXCEPT !.remote = manifest]
  /\ UNCHANGED <<mode, hist, acked, misread>>

Swap(after, manifest, wrong) ==
  /\ Remaining(after, manifest) = {}
  /\ Consume
  /\ flush' = NoFlush
  /\ mode' = "up"
  /\ hist' = [p \in Paths |-> <<manifest[p]>>]
  /\ acked' = [p \in Paths |-> 1]
  /\ misread' = wrong

Fetch(after, manifest, wrong) ==
  /\ FetchNext(after, manifest) \/ Swap(after, manifest, wrong)
  /\ UNCHANGED <<stop, closed, req, queue>>

HydrateManifest ==
  /\ mode = "boot" /\ Succeeded("manifest")
  /\ \E manifest \in ManifestRead : Fetch(0, manifest, manifest # calls[live].seen)

GetAnswered ==
  LET c == calls[live] IN
  /\ mode = "boot" /\ Succeeded("get")
  /\ IF c.idx + 1 < ChunkCount[c.gen]
     THEN /\ SendAs(live, Call("get", c.path, c.gen, c.idx + 1))
          /\ UNCHANGED <<mode, stop, hist, acked, closed, misread, req, queue, flush>>
     ELSE Fetch(c.path, flush.remote, FALSE)

\* A status or a chunk that cannot be read does not pass its check.
BodyLost == "body" \in FaultKinds /\ (Succeeded("status") \/ Succeeded("get"))

BootFails ==
  /\ mode = "boot"
  /\ \/ (Refused \/ BodyLost) /\ Consume
     \/ "timeout" \in FaultKinds /\ live # NoSlot /\ live' = NoSlot /\ GiveUp
  /\ flush' = NoFlush
  /\ Halt("no")

Crash ==
  /\ "crash" \in FaultKinds
  /\ mode # "down"
  /\ live' = NoSlot
  /\ IF live = NoSlot THEN UNCHANGED bridgeVars ELSE GiveUp
  /\ flush' = NoFlush
  /\ Halt("no")

(***************************************************************************)
(* production.mjs shutdown, run once by production-cli.mjs on SIGTERM.     *)
(***************************************************************************)
Sigterm ==
  /\ mode = "up" /\ stop = "no"
  /\ stop' = "flush1"
  /\ queue' = Append(queue, Shutdown)
  /\ UNCHANGED <<bridgeVars, mode, hist, acked, closed, misread, req, flush, live>>

\* Mutated: no flush after the server has closed.
ClosedUnflushed ==
  /\ mode = "up" /\ stop = "closing"
  /\ \A r \in Reqs : ~req[r].conn
  /\ stop' = "stopped"
  /\ closed' = [p \in Paths |-> Len(hist[p])]
  /\ UNCHANGED <<bridgeVars, mode, hist, acked, misread, req, queue, flush, live>>

\* server.close() calls back when no connection is left.
Closed ==
  /\ mode = "up" /\ stop = "closing"
  /\ \A r \in Reqs : ~req[r].conn
  /\ stop' = "flush2"
  /\ closed' = [p \in Paths |-> Len(hist[p])]
  /\ queue' = Append(queue, Shutdown)
  /\ UNCHANGED <<bridgeVars, mode, hist, acked, misread, req, flush, live>>

\* The last preview has ended, and with it the process.
Exit ==
  /\ mode = "up" /\ stop \in {"stopped", "unsynced"}
  /\ queue = <<>> /\ flush.pc = "off"
  /\ \A r \in Reqs : req[r].st \notin {"open", "waiting"}
  /\ Halt(stop)
  /\ UNCHANGED <<bridgeVars, flush, live>>

-----------------------------------------------------------------------------
FlushStep ==
  \/ \E s \in Slots : StartFlush(s) \/ Diff(s)
  \/ ListFiles \/ ReadFile \/ GotManifest
  \/ PutAnswered \/ CommitAnswered \/ DeleteAnswered
  \/ Verified \/ FlushRefused \/ ReadFails

BootStep == StatusAnswered \/ HydrateManifest \/ GetAnswered

BridgeStep == \E s \in Slots : Handle(s) /\ UNCHANGED clientVars

RequestStep ==
  \E r \in Reqs : Begin(r) \/ Disconnect(r) \/ Throw(r) \/ Persist(r) \/ \E p \in Paths : Write(r, p)

Next ==
  \/ RequestStep \/ FlushStep \/ FlushTimeout
  \/ (\E s \in Slots : Boot(s)) \/ BootStep \/ BootFails \/ Crash
  \/ Sigterm \/ Closed \/ Exit
  \/ BridgeStep

Spec == Init /\ [][Next]_vars

(***************************************************************************)
(* The event loop runs the mirror's continuations, and the bridge finishes *)
(* every call it has.                                                      *)
(***************************************************************************)
FairSpec ==
  /\ Spec
  /\ WF_vars(FlushStep)
  /\ \A s \in Slots : WF_vars(Handle(s) /\ UNCHANGED clientVars)

-----------------------------------------------------------------------------
FlushPcs == {"off", "scan", "sync", "verify"}
RequestStates == {"new", "open", "waiting", "over"}

TypeOK ==
  /\ BridgeTypeOK
  /\ mode \in {"down", "boot", "up"}
  /\ stop \in {"no", "flush1", "failed", "closing", "flush2", "stopped", "unsynced"}
  /\ hist \in [Paths -> Seq(Gens)]
  /\ acked \in [Paths -> Nat]
  /\ closed \in [Paths -> Nat]
  /\ misread \in BOOLEAN
  /\ req \in [Reqs -> [st : RequestStates, todo : SUBSET Paths,
                       mark : [Paths -> Nat], conn : BOOLEAN]]
  /\ queue \in Seq(Reqs \cup {Shutdown})
  /\ flush \in [pc : FlushPcs, owner : Reqs \cup {Shutdown}, listed : BOOLEAN,
                scan : [Paths -> Nat], have : BOOLEAN, remote : [Paths -> Gens]]
  /\ live \in Slots \cup {NoSlot}

(***************************************************************************)
(* What a restart would bring back for path p: the committed generation    *)
(* when every chunk of it is stored.                                       *)
(***************************************************************************)
Unreadable == "unreadable"
Recoverable(p) ==
  IF objects[p] = Absent \/ Complete(p, objects[p]) THEN objects[p] ELSE Unreadable

(***************************************************************************)
(* An acknowledged write, or a later one of the same file, can be brought  *)
(* back at every moment, but for the inside of delete_object:              *)
(* "state-changing control-plane responses are not acknowledged until the  *)
(* mirror flush succeeds".  The exception is a manifest that could not be  *)
(* read and was believed (durable-state.mjs:145,156), by a hydration or as *)
(* the proof of a flush: from there to the next hydration that reads its   *)
(* manifest the code loses what it acknowledged.                           *)
(***************************************************************************)
AckedDurable ==
  misread \/
  \A p \in Paths :
    DeleteHalfDone(p) \/ Recoverable(p) \in {hist[p][i] : i \in acked[p]..Len(hist[p])}

(***************************************************************************)
(* A shutdown that reports success has left the bridge with every file as  *)
(* it was when the server had closed, or as it was written later: writes   *)
(* of requests that failed, that arrived during the first flush or whose   *)
(* client left are not lost.  What previews write after the last scan may  *)
(* be, which the code does not prevent.                                    *)
(***************************************************************************)
StoppedIsSynced ==
  stop = "stopped" /\ ~misread =>
    \A p \in Paths :
      DeleteHalfDone(p) \/ Recoverable(p) \in {hist[p][i] : i \in closed[p]..Len(hist[p])}

(***************************************************************************)
(* Every response that waits for its flush is sent, or its process ends:   *)
(* a failed flush does not hold up the flushes queued behind it.           *)
(***************************************************************************)
EveryFlushAnswers ==
  \A r \in Reqs : []<>(req[r].st # "waiting")

\* The service uses the bridge the way the bridge is specified and proved.
BridgeBehaves == BridgeSpec

(***************************************************************************)
(* The composed system is restart-safe: its steps are writes,              *)
(* acknowledgements and restarts of the abstract specification, but for    *)
(* what a misread manifest does.                                           *)
(***************************************************************************)
Promise == INSTANCE RestartSafe WITH Files <- Paths, Versions <- Gens, Initial <- Absent
RestartSafety == Promise!Init /\ [][Promise!Next \/ misread \/ misread']_(Promise!vars)
=============================================================================
