---------------------------- MODULE ForgeBridge ----------------------------
(***************************************************************************)
(* The server half of Forge durable state: the six actions of              *)
(* supabase/functions/hercules-private-bridge/forge-state.ts over the two  *)
(* tables hercules_forge_state_objects and hercules_forge_state_chunks.    *)
(*                                                                         *)
(* A handler awaits the database once per statement, so one statement is   *)
(* one step and handlers of different calls interleave between statements. *)
(* Any statement may report an error; a failed write may or may not have   *)
(* taken effect.                                                           *)
(*                                                                         *)
(* Data abstraction.  A generation of an object is its content: the code   *)
(* names it by its SHA-256, and a content has a fixed number of chunks.    *)
(* Validation of paths, digests and sizes, which the mirror always         *)
(* satisfies, and the authorisation query are left out.                    *)
(***************************************************************************)
EXTENDS Integers, FiniteSets

CONSTANTS NPaths,       \* managed file paths are 1..NPaths, in sorted order
          Contents,     \* file contents, each with its own digest
          Absent,       \* no file, or no object row
          ChunkCount,   \* number of chunks of each content
          Slots,        \* calls the bridge may be serving at one time
          Serial,       \* a call arrives only when no other one is running
          FaultKinds    \* the faults a run lets happen

Paths == 1..NPaths
Gens == Contents \cup {Absent}

ASSUME NPathsAssumption == NPaths \in Nat \ {0}
ASSUME AbsentAssumption == Absent \notin Contents
ASSUME ChunkCountAssumption == ChunkCount \in [Contents -> Nat \ {0}]
ASSUME SerialAssumption == Serial \in BOOLEAN

VARIABLES objects,   \* the object table: path -> committed generation
          chunks,    \* the chunk table: its keys <<path, generation, index>>
          calls      \* slot -> the call it serves

bridgeVars == <<objects, chunks, calls>>

NoObjects == [p \in Paths |-> Absent]

(***************************************************************************)
(* Calls.  "pc" is the statement the handler is about to execute; a "done" *)
(* call has been answered with 200 when ok and with an error otherwise.    *)
(***************************************************************************)
Ops == {"none", "status", "manifest", "put", "commit", "get", "delete"}
Stages == {"idle", "start", "upsert", "sweep", "read", "row", "chunks", "done"}

Calls == [op : Ops, path : Paths \cup {0}, gen : Gens, idx : Nat,
          pc : Stages, ok : BOOLEAN, seen : [Paths -> Gens]]

Call(op, p, g, i) ==
  [op |-> op, path |-> p, gen |-> g, idx |-> i,
   pc |-> "start", ok |-> TRUE, seen |-> NoObjects]

NoCall == [Call("none", 0, Absent, 0) EXCEPT !.pc = "idle"]

Requests ==
  {Call(op, 0, Absent, 0) : op \in {"status", "manifest"}}
    \cup {Call("delete", p, Absent, 0) : p \in Paths}
    \cup {Call("commit", p, g, 0) : p \in Paths, g \in Contents}
    \cup UNION {{Call(op, p, g, i) : i \in 0..(ChunkCount[g] - 1),
                                     op \in {"put", "get"}, p \in Paths} : g \in Contents}

Free(s) == calls[s].pc \in {"idle", "done"}
OthersFree(s) == \A t \in Slots \ {s} : Free(t)

At(s, op, pc) == calls[s].op = op /\ calls[s].pc = pc
Goto(s, pc) == calls' = [calls EXCEPT ![s].pc = pc]
Reply(s, ok) == calls' = [calls EXCEPT ![s].pc = "done", ![s].ok = ok]

KeysOf(p, g) == {<<p, g, i>> : i \in 0..(ChunkCount[g] - 1)}
OfPath(p) == {k \in chunks : k[1] = p}
Complete(p, g) == KeysOf(p, g) \subseteq chunks

BridgeInit ==
  /\ objects = NoObjects
  /\ chunks = {}
  /\ calls = [s \in Slots |-> NoCall]

(***************************************************************************)
(* A call reaches the bridge, in a slot whose last answer is consumed.     *)
(***************************************************************************)
Send(s, c) ==
  /\ Free(s)
  /\ Serial => OthersFree(s)
  /\ calls' = [t \in Slots |-> IF t = s THEN c ELSE IF Free(t) THEN NoCall ELSE calls[t]]

Arrive(s) ==
  /\ \E c \in Requests : Send(s, c)
  /\ UNCHANGED <<objects, chunks>>

\* The slot is released: its answer was read, or its call never arrived.
Release(s) ==
  /\ calls[s].pc \in {"start", "done"}
  /\ calls' = [calls EXCEPT ![s] = NoCall]
  /\ UNCHANGED <<objects, chunks>>

\* A read or a write the database answers with an error.
Errs(fails) == fails => "db" \in FaultKinds

\* A statement whose error is not applied leaves old in place of new.
Applied(fails, new, old) == IF fails THEN {new, old} ELSE {new}

Status(s) ==
  /\ At(s, "status", "start")
  /\ \E fails \in BOOLEAN : Errs(fails) /\ Reply(s, ~fails)
  /\ UNCHANGED <<objects, chunks>>

Manifest(s) ==
  /\ At(s, "manifest", "start")
  /\ \/ calls' = [calls EXCEPT ![s].pc = "done", ![s].seen = objects]
     \/ Errs(TRUE) /\ Reply(s, FALSE)
  /\ UNCHANGED <<objects, chunks>>

\* Mutated: the chunk table is keyed by path and index only.
PutChunkOverwrites(s) ==
  LET c == calls[s] IN
  /\ At(s, "put", "start")
  /\ chunks' = {k \in chunks : <<k[1], k[3]>> # <<c.path, c.idx>>} \cup {<<c.path, c.gen, c.idx>>}
  /\ Reply(s, TRUE)
  /\ UNCHANGED objects

PutChunk(s) ==
  LET c == calls[s] IN
  /\ At(s, "put", "start")
  /\ \E fails \in BOOLEAN :
       /\ Errs(fails)
       /\ chunks' \in Applied(fails, chunks \cup {<<c.path, c.gen, c.idx>>}, chunks)
       /\ Reply(s, ~fails)
  /\ UNCHANGED objects

(***************************************************************************)
(* commit_object: read the chunks, move the row, sweep the chunks of other *)
(* generations.  The second sweep, of indices past the last chunk, never   *)
(* finds one here; its error is the error of the sweep.                    *)
(***************************************************************************)
CommitSelect(s) ==
  /\ At(s, "commit", "start")
  /\ \/ Complete(calls[s].path, calls[s].gen) /\ Goto(s, "upsert")
     \/ ~Complete(calls[s].path, calls[s].gen) /\ Reply(s, FALSE)
     \/ Errs(TRUE) /\ Reply(s, FALSE)
  /\ UNCHANGED <<objects, chunks>>

CommitUpsert(s) ==
  LET c == calls[s] IN
  /\ At(s, "commit", "upsert")
  /\ \E fails \in BOOLEAN :
       /\ Errs(fails)
       /\ objects' \in Applied(fails, [objects EXCEPT ![c.path] = c.gen], objects)
       /\ IF fails THEN Reply(s, FALSE) ELSE Goto(s, "sweep")
  /\ UNCHANGED chunks

CommitSweep(s) ==
  LET c == calls[s] IN
  /\ At(s, "commit", "sweep")
  /\ \E fails \in BOOLEAN :
       /\ Errs(fails)
       /\ chunks' \in Applied(fails, {k \in chunks : k[1] = c.path => k[2] = c.gen}, chunks)
       /\ Reply(s, ~fails)
  /\ UNCHANGED objects

(***************************************************************************)
(* get_chunk: the row must still name the generation, then the chunk is    *)
(* read.                                                                   *)
(***************************************************************************)
GetRow(s) ==
  /\ At(s, "get", "start")
  /\ \/ objects[calls[s].path] = calls[s].gen /\ Goto(s, "read")
     \/ objects[calls[s].path] # calls[s].gen /\ Reply(s, FALSE)
     \/ Errs(TRUE) /\ Reply(s, FALSE)
  /\ UNCHANGED <<objects, chunks>>

GetRead(s) ==
  LET c == calls[s] IN
  /\ At(s, "get", "read")
  /\ \E fails \in BOOLEAN :
       Errs(fails) /\ Reply(s, ~fails /\ <<c.path, c.gen, c.idx>> \in chunks)
  /\ UNCHANGED <<objects, chunks>>

(***************************************************************************)
(* delete_object: the two deletes are issued together, finish in either    *)
(* order, and the call is answered when both have; one may fail alone.     *)
(* A row delete that fails without effect is a fault kind of its own.      *)
(***************************************************************************)
DeleteSettles(s, other, fails) ==
  calls' = [calls EXCEPT ![s].pc = IF calls[s].pc = "start" THEN other ELSE "done",
                         ![s].ok = calls[s].ok /\ ~fails]

DeleteChunks(s) ==
  /\ At(s, "delete", "start") \/ At(s, "delete", "chunks")
  /\ \E fails \in BOOLEAN :
       /\ Errs(fails)
       /\ chunks' \in Applied(fails, chunks \ OfPath(calls[s].path), chunks)
       /\ DeleteSettles(s, "row", fails)
  /\ UNCHANGED objects

DeleteRow(s) ==
  /\ At(s, "delete", "start") \/ At(s, "delete", "row")
  /\ \/ \E fails \in BOOLEAN :
          /\ Errs(fails)
          /\ objects' = [objects EXCEPT ![calls[s].path] = Absent]
          /\ DeleteSettles(s, "chunks", fails)
     \/ /\ "rowdelete" \in FaultKinds
        /\ objects' = objects
        /\ DeleteSettles(s, "chunks", TRUE)
  /\ UNCHANGED chunks

Handle(s) ==
  \/ Status(s) \/ Manifest(s) \/ PutChunk(s)
  \/ CommitSelect(s) \/ CommitUpsert(s) \/ CommitSweep(s)
  \/ GetRow(s) \/ GetRead(s)
  \/ DeleteChunks(s) \/ DeleteRow(s)

\* The bridge in an arbitrary environment.
BridgeNext == \E s \in Slots : Arrive(s) \/ Release(s) \/ Handle(s)
BridgeSpec == BridgeInit /\ [][BridgeNext]_bridgeVars

-----------------------------------------------------------------------------
BridgeTypeOK ==
  /\ objects \in [Paths -> Gens]
  /\ chunks \subseteq Paths \X Contents \X Nat
  /\ calls \in [Slots -> Calls]

\* A delete of path p has executed one of its two statements.
DeleteHalfDone(p) == \E s \in Slots : At(s, "delete", "row") /\ calls[s].path = p

(***************************************************************************)
(* Every committed row can be read back: all chunks of its generation are  *)
(* stored.  The only moment it may not hold is inside delete_object, after *)
(* the chunks are gone and before the row is.  Hydration needs it: one     *)
(* unreadable row and the service cannot start.                            *)
(***************************************************************************)
ManifestBacked ==
  \A p \in Paths :
    objects[p] # Absent /\ ~DeleteHalfDone(p) => Complete(p, objects[p])
=============================================================================
