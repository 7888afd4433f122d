------------------------ MODULE ForgeDurable_proofs ------------------------
(***************************************************************************)
(* Forge durable state.  First of the bridge: it keeps every committed row *)
(* readable, when calls reach it one at a time.  Then of the service: it   *)
(* is well typed and uses the bridge only as the bridge is specified, so   *)
(* its rows are readable too.  Last its promise: what was acknowledged can *)
(* be brought back at every moment, a shutdown that reports success has    *)
(* left everything in the bridge, and it implements RestartSafe.           *)
(***************************************************************************)
EXTENDS ForgeDurable, TLAPS

(***************************************************************************)
(* The inductive invariant.  A handler past its first statement still      *)
(* stands on what that statement established, because no other one runs.   *)
(***************************************************************************)
Arguments ==
  \A s \in Slots :
    /\ calls[s].op \in {"put", "commit", "get", "delete"} => calls[s].path \in Paths
    /\ calls[s].op \in {"put", "commit", "get"} => calls[s].gen \in Contents

OneRuns == \A s, t \in Slots : s # t => Free(s) \/ Free(t)

CommitReady ==
  \A s \in Slots : At(s, "commit", "upsert") => Complete(calls[s].path, calls[s].gen)

SweepReady ==
  \A s \in Slots : At(s, "commit", "sweep") => objects[calls[s].path] = calls[s].gen

RowGone ==
  \A s \in Slots : At(s, "delete", "chunks") => objects[calls[s].path] = Absent

BridgeInv ==
  /\ BridgeTypeOK
  /\ Arguments
  /\ OneRuns
  /\ CommitReady
  /\ SweepReady
  /\ RowGone
  /\ ManifestBacked

-----------------------------------------------------------------------------
\* A well-formed call is a value the call table may hold.
LEMMA RequestTyped ==
  ASSUME NEW c \in Requests
  PROVE  /\ c \in Calls /\ c.pc = "start"
         /\ c.op \in {"put", "commit", "get", "delete"} => c.path \in Paths
         /\ c.op \in {"put", "commit", "get"} => c.gen \in Contents
<1>1. NoObjects \in [Paths -> Gens]
  BY DEF NoObjects, Gens
<1>2. \A op \in Ops, p \in Paths \cup {0}, g \in Gens, i \in Nat :
        Call(op, p, g, i) \in Calls
  BY <1>1 DEF Call, Calls, Stages
<1>3. CASE c \in {Call(op, 0, Absent, 0) : op \in {"status", "manifest"}}
  BY <1>2, <1>3 DEF Call, Ops, Gens
<1>4. CASE c \in {Call("delete", p, Absent, 0) : p \in Paths}
  BY <1>2, <1>4 DEF Call, Ops, Gens
<1>5. CASE c \in {Call("commit", p, g, 0) : p \in Paths, g \in Contents}
  BY <1>2, <1>5 DEF Call, Ops, Gens
<1>6. CASE \E g \in Contents : c \in {Call(op, p, g, i) : i \in 0..(ChunkCount[g] - 1),
                                        op \in {"put", "get"}, p \in Paths}
  <2>0. PICK g \in Contents : c \in {Call(op, p, g, i) : i \in 0..(ChunkCount[g] - 1),
                                        op \in {"put", "get"}, p \in Paths}
    BY <1>6
  <2>1. PICK op \in {"put", "get"}, p \in Paths, i \in 0..(ChunkCount[g] - 1) :
               c = Call(op, p, g, i)
    BY <2>0
  <2>2. i \in Nat
    BY <2>1, ChunkCountAssumption
  <2> QED
    BY <1>2, <2>1, <2>2 DEF Call, Ops, Gens
<1> QED
  BY <1>3, <1>4, <1>5, <1>6 DEF Requests

LEMMA NoCallTyped == NoCall \in Calls /\ NoCall.pc = "idle" /\ NoCall.op = "none"
<1>1. NoObjects \in [Paths -> Gens]
  BY DEF NoObjects, Gens
<1> QED
  BY <1>1 DEF NoCall, Call, Calls, Stages, Ops, Gens

\* The tables start well typed.
LEMMA BridgeInitTyped == BridgeInit => BridgeTypeOK
BY NoCallTyped DEF BridgeInit, BridgeTypeOK, NoObjects, Gens

LEMMA BridgeInitInv == BridgeInit => BridgeInv
<1>1. BridgeInit => BridgeTypeOK
  BY BridgeInitTyped
<1>2. BridgeInit => \A s \in Slots : Free(s) /\ calls[s].op = "none"
  BY NoCallTyped DEF BridgeInit, Free
<1>3. BridgeInit => Arguments /\ OneRuns /\ CommitReady /\ SweepReady /\ RowGone
  BY <1>2 DEF Arguments, OneRuns, CommitReady, SweepReady, RowGone, At
<1>4. BridgeInit => ManifestBacked
  BY DEF BridgeInit, ManifestBacked, NoObjects
<1> QED
  BY <1>1, <1>3, <1>4 DEF BridgeInv

(***************************************************************************)
(* What a statement of the handler in slot s leaves alone: the arguments   *)
(* of its call, and every other slot, which is free.                       *)
(***************************************************************************)
HandlerFrame(s) ==
  /\ calls' \in [Slots -> Calls]
  /\ \A t \in Slots \ {s} : calls'[t] = calls[t]
  /\ calls'[s].op = calls[s].op
  /\ calls'[s].path = calls[s].path
  /\ calls'[s].gen = calls[s].gen

LEMMA FrameKept ==
  ASSUME NEW s \in Slots, BridgeInv, ~Free(s), HandlerFrame(s)
  PROVE  /\ Arguments' /\ OneRuns'
         /\ \A t \in Slots \ {s} : Free(t) /\ Free(t)'
<1>1. \A t \in Slots \ {s} : Free(t) /\ Free(t)'
  BY DEF BridgeInv, OneRuns, HandlerFrame, Free
<1>2. Arguments'
  BY DEF BridgeInv, Arguments, HandlerFrame
<1>3. OneRuns'
  BY <1>1 DEF OneRuns
<1> QED
  BY <1>1, <1>2, <1>3

LEMMA GotoFrame ==
  ASSUME NEW s \in Slots, NEW pc \in Stages, BridgeTypeOK, Goto(s, pc)
  PROVE  HandlerFrame(s) /\ calls'[s].pc = pc
BY DEF BridgeTypeOK, Calls, Goto, HandlerFrame

LEMMA ReplyFrame ==
  ASSUME NEW s \in Slots, NEW ok \in BOOLEAN, BridgeTypeOK, Reply(s, ok)
  PROVE  HandlerFrame(s) /\ calls'[s].pc = "done"
BY DEF BridgeTypeOK, Calls, Reply, HandlerFrame, Stages

(***************************************************************************)
(* A step that changes neither table and leaves slot s anywhere but at a   *)
(* statement that relies on an earlier one keeps the invariant.            *)
(***************************************************************************)
LEMMA ReadOnlyStep ==
  ASSUME NEW s \in Slots, BridgeInv, ~Free(s), HandlerFrame(s),
         calls'[s].pc \in {"done", "read"}, calls[s].op # "delete",
         UNCHANGED <<objects, chunks>>
  PROVE  BridgeInv'
<1>1. /\ Arguments' /\ OneRuns'
      /\ \A t \in Slots \ {s} : Free(t) /\ Free(t)'
  BY FrameKept
<1>2. BridgeTypeOK'
  BY DEF BridgeInv, BridgeTypeOK, HandlerFrame
<1>3. CommitReady' /\ SweepReady' /\ RowGone'
  BY <1>1 DEF CommitReady, SweepReady, RowGone, At, Free
<1>4. \A p \in Paths : DeleteHalfDone(p) => DeleteHalfDone(p)'
  BY DEF DeleteHalfDone, At, HandlerFrame
<1>5. \A t \in Slots : ~At(t, "delete", "row") 
  BY <1>1 DEF At, Free
<1>6. ManifestBacked'
  BY <1>4, <1>5 DEF BridgeInv, ManifestBacked, DeleteHalfDone, Complete, KeysOf
<1> QED
  BY <1>1, <1>2, <1>3, <1>6 DEF BridgeInv

LEMMA StatusInv == ASSUME NEW s \in Slots, BridgeInv, Status(s) PROVE BridgeInv'
<1>1. PICK ok \in BOOLEAN : Reply(s, ok)
  BY DEF Status
<1>2. HandlerFrame(s) /\ calls'[s].pc = "done"
  BY <1>1, ReplyFrame DEF BridgeInv
<1> QED
  BY <1>2, ReadOnlyStep DEF Status, At, Free

LEMMA ManifestInv == ASSUME NEW s \in Slots, BridgeInv, Manifest(s) PROVE BridgeInv'
<1>1. CASE calls' = [calls EXCEPT ![s].pc = "done", ![s].seen = objects]
  <2>1. HandlerFrame(s) /\ calls'[s].pc = "done"
    BY <1>1 DEF BridgeInv, BridgeTypeOK, Calls, Stages, HandlerFrame
  <2> QED
    BY <2>1, ReadOnlyStep DEF Manifest, At, Free
<1>2. CASE Reply(s, FALSE)
  <2>1. HandlerFrame(s) /\ calls'[s].pc = "done"
    BY <1>2, ReplyFrame DEF BridgeInv
  <2> QED
    BY <2>1, ReadOnlyStep DEF Manifest, At, Free
<1> QED
  BY <1>1, <1>2 DEF Manifest

LEMMA GetInv == ASSUME NEW s \in Slots, BridgeInv, GetRow(s) \/ GetRead(s) PROVE BridgeInv'
<1>1. CASE Goto(s, "read")
  <2>1. HandlerFrame(s) /\ calls'[s].pc = "read"
    BY <1>1, GotoFrame DEF BridgeInv, Stages
  <2> QED
    BY <2>1, ReadOnlyStep DEF GetRow, GetRead, At, Free
<1>2. CASE \E ok \in BOOLEAN : Reply(s, ok)
  <2>1. HandlerFrame(s) /\ calls'[s].pc = "done"
    BY <1>2, ReplyFrame DEF BridgeInv
  <2> QED
    BY <2>1, ReadOnlyStep DEF GetRow, GetRead, At, Free
<1> QED
  BY <1>1, <1>2 DEF GetRow, GetRead

\* An upsert of a chunk only adds to the chunk table.
LEMMA PutChunkInv == ASSUME NEW s \in Slots, BridgeInv, PutChunk(s) PROVE BridgeInv'
<1>1. PICK ok \in BOOLEAN : Reply(s, ok)
  BY DEF PutChunk
<1>2. HandlerFrame(s) /\ calls'[s].pc = "done"
  BY <1>1, ReplyFrame DEF BridgeInv
<1>3. ~Free(s) /\ calls[s].op = "put"
  BY DEF PutChunk, At, Free
<1>4. /\ Arguments' /\ OneRuns'
      /\ \A t \in Slots \ {s} : Free(t) /\ Free(t)'
  BY <1>2, <1>3, FrameKept
<1>5. chunks \subseteq chunks' /\ chunks' \subseteq chunks \cup {<<calls[s].path, calls[s].gen, calls[s].idx>>}
  BY DEF PutChunk, Applied
<1>6. <<calls[s].path, calls[s].gen, calls[s].idx>> \in Paths \X Contents \X Nat
  BY <1>3 DEF BridgeInv, BridgeTypeOK, Calls, Arguments
<1>7. BridgeTypeOK'
  BY <1>2, <1>5, <1>6 DEF BridgeInv, BridgeTypeOK, HandlerFrame, PutChunk
<1>8. CommitReady' /\ SweepReady' /\ RowGone'
  BY <1>2, <1>4 DEF CommitReady, SweepReady, RowGone, At, Free
<1>9. \A t \in Slots : ~At(t, "delete", "row")
  BY <1>3, <1>4 DEF At, Free
<1>10. \A p \in Paths, g \in Gens : Complete(p, g) => Complete(p, g)'
  BY <1>5 DEF Complete, KeysOf
<1>11. ManifestBacked'
  BY <1>9, <1>10 DEF BridgeInv, BridgeTypeOK, ManifestBacked, DeleteHalfDone, PutChunk
<1> QED
  BY <1>4, <1>7, <1>8, <1>11 DEF BridgeInv

LEMMA CommitSelectInv == ASSUME NEW s \in Slots, BridgeInv, CommitSelect(s) PROVE BridgeInv'
<1>1. CASE Reply(s, FALSE)
  <2>1. HandlerFrame(s) /\ calls'[s].pc = "done"
    BY <1>1, ReplyFrame DEF BridgeInv
  <2> QED
    BY <2>1, ReadOnlyStep DEF CommitSelect, At, Free
<1>2. CASE Complete(calls[s].path, calls[s].gen) /\ Goto(s, "upsert")
  <2>1. HandlerFrame(s) /\ calls'[s].pc = "upsert"
    BY <1>2, GotoFrame DEF BridgeInv, Stages
  <2>2. ~Free(s) /\ calls[s].op = "commit"
    BY DEF CommitSelect, At, Free
  <2>3. /\ Arguments' /\ OneRuns'
        /\ \A t \in Slots \ {s} : Free(t) /\ Free(t)'
    BY <2>1, <2>2, FrameKept
  <2>4. BridgeTypeOK'
    BY <2>1 DEF BridgeInv, BridgeTypeOK, HandlerFrame, CommitSelect
  <2>5. Complete(calls[s].path, calls[s].gen)'
    BY <1>2, <2>1 DEF HandlerFrame, CommitSelect, Complete, KeysOf
  <2>6. CommitReady' /\ SweepReady' /\ RowGone'
    BY <2>1, <2>2, <2>3, <2>5 DEF HandlerFrame, CommitReady, SweepReady, RowGone, At, Free
  <2>7. \A t \in Slots : ~At(t, "delete", "row")
    BY <2>2, <2>3 DEF At, Free
  <2>8. ManifestBacked'
    BY <2>7 DEF BridgeInv, ManifestBacked, DeleteHalfDone, Complete, KeysOf, CommitSelect
  <2> QED
    BY <2>3, <2>4, <2>6, <2>8 DEF BridgeInv
<1> QED
  BY <1>1, <1>2 DEF CommitSelect

\* The row moves only to a generation whose chunks are all there.
LEMMA CommitUpsertInv == ASSUME NEW s \in Slots, BridgeInv, CommitUpsert(s) PROVE BridgeInv'
<1> DEFINE p == calls[s].path
           g == calls[s].gen
<1>1. ~Free(s) /\ calls[s].op = "commit" /\ p \in Paths /\ g \in Contents
  BY DEF CommitUpsert, At, Free, BridgeInv, Arguments
<1> DEFINE moved == [objects EXCEPT ![p] = g]
<1>2. /\ objects' \in {moved, objects}
      /\ \/ objects' = moved /\ Goto(s, "sweep")
         \/ Reply(s, FALSE)
  <2>1. PICK fails \in BOOLEAN :
          /\ objects' \in Applied(fails, moved, objects)
          /\ IF fails THEN Reply(s, FALSE) ELSE Goto(s, "sweep")
    BY DEF CommitUpsert
  <2> HIDE DEF moved
  <2> QED
    BY <2>1 DEF Applied
<1>3. HandlerFrame(s) /\ calls'[s].pc \in {"sweep", "done"}
  BY <1>2, GotoFrame, ReplyFrame DEF BridgeInv, Stages
<1>4. /\ Arguments' /\ OneRuns'
      /\ \A t \in Slots \ {s} : Free(t) /\ Free(t)'
  BY <1>1, <1>3, FrameKept
<1>5. objects' \in [Paths -> Gens]
  BY <1>1, <1>2 DEF BridgeInv, BridgeTypeOK, Gens
<1>6. BridgeTypeOK'
  BY <1>3, <1>5 DEF BridgeInv, BridgeTypeOK, HandlerFrame, CommitUpsert
<1>7. calls'[s].pc = "sweep" => objects'[p] = g
  <2>1. calls'[s].pc = "sweep" => objects' = [objects EXCEPT ![p] = g]
    BY <1>2, ReplyFrame DEF BridgeInv
  <2> QED
    BY <1>1, <2>1 DEF BridgeInv, BridgeTypeOK
<1>8. CommitReady' /\ SweepReady' /\ RowGone'
  BY <1>1, <1>3, <1>4, <1>7 DEF HandlerFrame, CommitReady, SweepReady, RowGone, At, Free
<1>9. \A t \in Slots : ~At(t, "delete", "row")
  BY <1>1, <1>4 DEF At, Free
<1>10. Complete(p, g)
  BY DEF CommitUpsert, BridgeInv, CommitReady
<1>11. \A q \in Paths : objects'[q] # Absent => Complete(q, objects'[q])
  BY <1>1, <1>2, <1>9, <1>10 DEF BridgeInv, BridgeTypeOK, ManifestBacked, DeleteHalfDone
<1>12. ManifestBacked'
  BY <1>11 DEF ManifestBacked, Complete, KeysOf, CommitUpsert
<1> QED
  BY <1>4, <1>6, <1>8, <1>12 DEF BridgeInv

\* The sweep removes no chunk of the generation the row names.
LEMMA CommitSweepInv == ASSUME NEW s \in Slots, BridgeInv, CommitSweep(s) PROVE BridgeInv'
<1> DEFINE p == calls[s].path
           g == calls[s].gen
<1>1. ~Free(s) /\ calls[s].op = "commit" /\ p \in Paths /\ g \in Contents /\ objects[p] = g
  BY DEF CommitSweep, At, Free, BridgeInv, Arguments, SweepReady
<1>2. PICK ok \in BOOLEAN : Reply(s, ok)
  BY DEF CommitSweep
<1>3. HandlerFrame(s) /\ calls'[s].pc = "done"
  BY <1>2, ReplyFrame DEF BridgeInv
<1>4. /\ Arguments' /\ OneRuns'
      /\ \A t \in Slots \ {s} : Free(t) /\ Free(t)'
  BY <1>1, <1>3, FrameKept
<1>5. chunks' \subseteq chunks /\ \A k \in chunks : k[1] # p \/ k[2] = g => k \in chunks'
  BY DEF CommitSweep, Applied
<1>6. BridgeTypeOK'
  BY <1>3, <1>5 DEF BridgeInv, BridgeTypeOK, HandlerFrame, CommitSweep
<1>7. CommitReady' /\ SweepReady' /\ RowGone'
  BY <1>3, <1>4 DEF CommitReady, SweepReady, RowGone, At, Free
<1>8. \A t \in Slots : ~At(t, "delete", "row")
  BY <1>1, <1>4 DEF At, Free
<1>9. ASSUME NEW q \in Paths, Complete(q, objects[q]) PROVE KeysOf(q, objects[q]) \subseteq chunks'
  <2>1. \A k \in KeysOf(q, objects[q]) : k[1] = q /\ k[2] = objects[q]
    BY DEF KeysOf
  <2> QED
    BY <1>1, <1>5, <1>9, <2>1 DEF Complete
<1>10. ManifestBacked'
  BY <1>8, <1>9 DEF BridgeInv, ManifestBacked, DeleteHalfDone, Complete, KeysOf, CommitSweep
<1> QED
  BY <1>4, <1>6, <1>7, <1>10 DEF BridgeInv

(***************************************************************************)
(* While only the row is left of an object it may be unreadable; the       *)
(* invariant speaks of the path again when the row is gone.                *)
(***************************************************************************)
LEMMA SettleFrame ==
  ASSUME NEW s \in Slots, NEW pc \in {"row", "chunks"}, NEW fails \in BOOLEAN,
         BridgeTypeOK, DeleteSettles(s, pc, fails)
  PROVE  /\ HandlerFrame(s)
         /\ calls'[s].pc = IF calls[s].pc = "start" THEN pc ELSE "done"
<1> DEFINE next == IF calls[s].pc = "start" THEN pc ELSE "done"
           ok   == calls[s].ok /\ ~fails
<1>1. next \in Stages /\ ok \in BOOLEAN
  BY DEF Stages
<1>2. calls' = [calls EXCEPT ![s].pc = next, ![s].ok = ok]
  BY DEF DeleteSettles
<1> HIDE DEF next, ok
<1>3. HandlerFrame(s) /\ calls'[s].pc = next
  BY <1>1, <1>2 DEF BridgeTypeOK, Calls, HandlerFrame
<1> QED
  BY <1>3 DEF next

LEMMA DeleteFrame ==
  ASSUME NEW s \in Slots, NEW pc \in {"row", "chunks"}, NEW fails \in BOOLEAN,
         BridgeInv, calls[s].op = "delete", ~Free(s), DeleteSettles(s, pc, fails)
  PROVE  /\ HandlerFrame(s)
         /\ calls'[s].pc = IF calls[s].pc = "start" THEN pc ELSE "done"
         /\ Arguments' /\ OneRuns'
         /\ \A t \in Slots \ {s} : Free(t) /\ Free(t)'
         /\ calls[s].path \in Paths
BY SettleFrame, FrameKept DEF BridgeInv, Arguments

LEMMA DeleteChunksInv == ASSUME NEW s \in Slots, BridgeInv, DeleteChunks(s) PROVE BridgeInv'
<1> DEFINE p == calls[s].path
<1>1. ~Free(s) /\ calls[s].op = "delete" /\ calls[s].pc \in {"start", "chunks"}
  BY DEF DeleteChunks, At, Free
<1>2. PICK fails \in BOOLEAN : DeleteSettles(s, "row", fails)
  BY DEF DeleteChunks
<1>3. /\ HandlerFrame(s)
      /\ calls'[s].pc = IF calls[s].pc = "start" THEN "row" ELSE "done"
      /\ Arguments' /\ OneRuns'
      /\ \A t \in Slots \ {s} : Free(t) /\ Free(t)'
      /\ p \in Paths
  BY <1>1, <1>2, DeleteFrame
<1>4. chunks' \subseteq chunks /\ \A k \in chunks : k[1] # p => k \in chunks'
  BY DEF DeleteChunks, Applied, OfPath
<1>5. BridgeTypeOK'
  BY <1>3, <1>4 DEF BridgeInv, BridgeTypeOK, HandlerFrame, DeleteChunks
<1>6. CommitReady' /\ SweepReady' /\ RowGone'
  BY <1>1, <1>3 DEF HandlerFrame, CommitReady, SweepReady, RowGone, At, Free
<1>7. \A q \in Paths : q = p => DeleteHalfDone(q)' \/ objects[q] = Absent
  BY <1>1, <1>3 DEF BridgeInv, RowGone, DeleteHalfDone, At, HandlerFrame
<1>8. \A t \in Slots : ~At(t, "delete", "row")
  BY <1>1, <1>3 DEF At, Free
<1>9. ASSUME NEW q \in Paths, q # p, objects[q] # Absent PROVE KeysOf(q, objects[q]) \subseteq chunks'
  <2>1. \A k \in KeysOf(q, objects[q]) : k[1] = q
    BY DEF KeysOf
  <2>2. KeysOf(q, objects[q]) \subseteq chunks
    BY <1>8, <1>9 DEF BridgeInv, ManifestBacked, DeleteHalfDone, Complete
  <2> QED
    BY <1>4, <1>9, <2>1, <2>2
<1>10. ManifestBacked'
  BY <1>7, <1>9 DEF ManifestBacked, Complete, KeysOf, DeleteChunks
<1> QED
  BY <1>3, <1>5, <1>6, <1>10 DEF BridgeInv

LEMMA DeleteRowInv ==
  ASSUME NEW s \in Slots, "rowdelete" \notin FaultKinds, BridgeInv, DeleteRow(s)
  PROVE  BridgeInv'
<1> DEFINE p == calls[s].path
<1>1. ~Free(s) /\ calls[s].op = "delete" /\ calls[s].pc \in {"start", "row"}
  BY DEF DeleteRow, At, Free
<1>2. PICK fails \in BOOLEAN : DeleteSettles(s, "chunks", fails)
  BY DEF DeleteRow
<1>3. /\ HandlerFrame(s)
      /\ calls'[s].pc = IF calls[s].pc = "start" THEN "chunks" ELSE "done"
      /\ Arguments' /\ OneRuns'
      /\ \A t \in Slots \ {s} : Free(t) /\ Free(t)'
      /\ p \in Paths
  BY <1>1, <1>2, DeleteFrame
<1>4. objects' = [objects EXCEPT ![p] = Absent]
  BY DEF DeleteRow
<1>5. BridgeTypeOK'
  BY <1>3, <1>4 DEF BridgeInv, BridgeTypeOK, HandlerFrame, DeleteRow, Gens
<1>6. objects'[p] = Absent
  BY <1>3, <1>4 DEF BridgeInv, BridgeTypeOK
<1>7. CommitReady' /\ SweepReady' /\ RowGone'
  BY <1>1, <1>3, <1>6 DEF HandlerFrame, CommitReady, SweepReady, RowGone, At, Free
<1>8. \A q \in Paths : DeleteHalfDone(q) => q = p
  BY <1>3 DEF DeleteHalfDone, At, Free
<1>9. \A q \in Paths : q # p => objects'[q] = objects[q]
  BY <1>4 DEF BridgeInv, BridgeTypeOK
<1>10. ManifestBacked'
  BY <1>6, <1>8, <1>9 DEF BridgeInv, ManifestBacked, Complete, KeysOf, DeleteRow
<1> QED
  BY <1>3, <1>5, <1>7, <1>10 DEF BridgeInv

\* A call arrives alone, before its first statement.
LEMMA ArriveInv == ASSUME NEW s \in Slots, Serial, BridgeInv, Arrive(s) PROVE BridgeInv'
<1>1. PICK c \in Requests : Send(s, c)
  BY DEF Arrive
<1>2. /\ c \in Calls /\ c.pc = "start"
      /\ c.op \in {"put", "commit", "get", "delete"} => c.path \in Paths
      /\ c.op \in {"put", "commit", "get"} => c.gen \in Contents
  BY RequestTyped
<1>3. \A t \in Slots : Free(t)
  BY <1>1 DEF Send, OthersFree
<1>4. /\ calls' \in [Slots -> Calls] /\ calls'[s] = c
      /\ \A t \in Slots \ {s} : calls'[t] = NoCall
  BY <1>1, <1>2, <1>3, NoCallTyped DEF Send
<1>5. BridgeTypeOK'
  BY <1>4 DEF BridgeInv, BridgeTypeOK, Arrive
<1>6. \A t \in Slots : calls'[t].pc \in {"start", "idle"}
  BY <1>2, <1>4, NoCallTyped
<1>7. Arguments' /\ OneRuns' /\ CommitReady' /\ SweepReady' /\ RowGone'
  BY <1>2, <1>4, <1>6, NoCallTyped
  DEF Arguments, OneRuns, CommitReady, SweepReady, RowGone, At, Free
<1>8. \A t \in Slots : ~At(t, "delete", "row")
  BY <1>3 DEF At, Free
<1>9. ManifestBacked'
  BY <1>8 DEF BridgeInv, ManifestBacked, DeleteHalfDone, Complete, KeysOf, Arrive
<1> QED
  BY <1>5, <1>7, <1>9 DEF BridgeInv

LEMMA ReleaseInv == ASSUME NEW s \in Slots, BridgeInv, Release(s) PROVE BridgeInv'
<1>1. /\ calls' \in [Slots -> Calls] /\ calls'[s] = NoCall
      /\ \A t \in Slots \ {s} : calls'[t] = calls[t]
  BY NoCallTyped DEF BridgeInv, BridgeTypeOK, Release
<1>2. BridgeTypeOK'
  BY <1>1 DEF BridgeInv, BridgeTypeOK, Release
<1>3. Arguments' /\ OneRuns' /\ SweepReady' /\ RowGone'
  BY <1>1, NoCallTyped DEF BridgeInv, Arguments, OneRuns, SweepReady, RowGone, At, Free, Release
<1>4. CommitReady'
  BY <1>1, NoCallTyped DEF BridgeInv, CommitReady, Complete, KeysOf, At, Release
<1>5. \A p \in Paths : DeleteHalfDone(p) => DeleteHalfDone(p)'
  BY <1>1 DEF Release, DeleteHalfDone, At
<1>6. ManifestBacked'
  BY <1>5 DEF BridgeInv, ManifestBacked, Complete, KeysOf, Release
<1> QED
  BY <1>2, <1>3, <1>4, <1>6 DEF BridgeInv

LEMMA BridgeNextInv ==
  ASSUME Serial, "rowdelete" \notin FaultKinds, BridgeInv, [BridgeNext]_bridgeVars
  PROVE  BridgeInv'
<1>1. CASE UNCHANGED bridgeVars
  BY <1>1 DEF bridgeVars, BridgeInv, BridgeTypeOK, Arguments, OneRuns, CommitReady, SweepReady,
              RowGone, ManifestBacked, DeleteHalfDone, Complete, KeysOf, At, Free
<1>2. ASSUME NEW s \in Slots, Arrive(s) PROVE BridgeInv'
  BY <1>2, ArriveInv
<1>3. ASSUME NEW s \in Slots, Release(s) PROVE BridgeInv'
  BY <1>3, ReleaseInv
<1>4. ASSUME NEW s \in Slots, Handle(s) PROVE BridgeInv'
  BY <1>4, StatusInv, ManifestInv, GetInv, PutChunkInv, CommitSelectInv, CommitUpsertInv,
     CommitSweepInv, DeleteChunksInv, DeleteRowInv DEF Handle
<1> QED
  BY <1>1, <1>2, <1>3, <1>4 DEF BridgeNext

-----------------------------------------------------------------------------
(***************************************************************************)
(* Typing alone needs neither serial calls nor any limit on faults.        *)
(***************************************************************************)
LEMMA HandleTyped ==
  ASSUME NEW s \in Slots, BridgeTypeOK, Arguments, Handle(s)
  PROVE  /\ HandlerFrame(s)
         /\ objects' \in [Paths -> Gens]
         /\ chunks' \subseteq Paths \X Contents \X Nat
<1> DEFINE p == calls[s].path
           g == calls[s].gen
<1>1. CASE Status(s) \/ Manifest(s) \/ CommitSelect(s) \/ GetRow(s) \/ GetRead(s)
  <2>1. UNCHANGED <<objects, chunks>>
    BY <1>1 DEF Status, Manifest, CommitSelect, GetRow, GetRead
  <2>2. \/ \E ok \in BOOLEAN : Reply(s, ok)
        \/ \E pc \in Stages : Goto(s, pc)
        \/ calls' = [calls EXCEPT ![s].pc = "done", ![s].seen = objects]
    BY <1>1 DEF Status, Manifest, CommitSelect, GetRow, GetRead, Stages
  <2>3. ASSUME calls' = [calls EXCEPT ![s].pc = "done", ![s].seen = objects]
        PROVE  HandlerFrame(s)
    BY <2>3 DEF BridgeTypeOK, Calls, Stages, HandlerFrame
  <2>4. HandlerFrame(s)
    BY <2>2, <2>3, ReplyFrame, GotoFrame
  <2> QED
    BY <2>1, <2>4 DEF BridgeTypeOK
<1>2. CASE PutChunk(s)
  <2>1. HandlerFrame(s)
    BY <1>2, ReplyFrame DEF PutChunk
  <2>2. <<p, g, calls[s].idx>> \in Paths \X Contents \X Nat
    BY <1>2 DEF PutChunk, At, BridgeTypeOK, Calls, Arguments
  <2>3. chunks' \subseteq chunks \cup {<<p, g, calls[s].idx>>}
    BY <1>2 DEF PutChunk, Applied
  <2> QED
    BY <1>2, <2>1, <2>2, <2>3 DEF PutChunk, BridgeTypeOK
<1>3. CASE CommitUpsert(s)
  <2>1. HandlerFrame(s)
    BY <1>3, ReplyFrame, GotoFrame DEF CommitUpsert, Stages
  <2>2. p \in Paths /\ g \in Gens
    BY <1>3 DEF CommitUpsert, At, Arguments, Gens
  <2> DEFINE moved == [objects EXCEPT ![p] = g]
  <2>3. objects' \in {moved, objects}
    <3>1. PICK fails \in BOOLEAN : objects' \in Applied(fails, moved, objects)
      BY <1>3 DEF CommitUpsert
    <3> HIDE DEF moved
    <3> QED
      BY <3>1 DEF Applied
  <2> QED
    BY <1>3, <2>1, <2>2, <2>3 DEF CommitUpsert, BridgeTypeOK
<1>4. CASE CommitSweep(s)
  <2>1. HandlerFrame(s)
    BY <1>4, ReplyFrame DEF CommitSweep
  <2> QED
    BY <1>4, <2>1 DEF CommitSweep, BridgeTypeOK, Applied
<1>5. CASE DeleteChunks(s)
  <2>1. HandlerFrame(s)
    BY <1>5, SettleFrame DEF DeleteChunks, At
  <2> QED
    BY <1>5, <2>1 DEF DeleteChunks, BridgeTypeOK, Applied
<1>6. CASE DeleteRow(s)
  <2>1. HandlerFrame(s)
    BY <1>6, SettleFrame DEF DeleteRow, At
  <2>2. p \in Paths
    BY <1>6 DEF DeleteRow, At, Arguments
  <2> QED
    BY <1>6, <2>1, <2>2 DEF DeleteRow, BridgeTypeOK, Gens
<1> QED
  BY <1>1, <1>2, <1>3, <1>4, <1>5, <1>6 DEF Handle

LEMMA SendTyped ==
  ASSUME NEW s \in Slots, NEW c \in Requests, BridgeTypeOK, Arguments,
         Send(s, c), UNCHANGED <<objects, chunks>>
  PROVE  BridgeTypeOK' /\ Arguments'
<1>1. /\ calls' \in [Slots -> Calls] /\ calls'[s] = c
      /\ \A t \in Slots \ {s} : calls'[t] \in {NoCall, calls[t]}
  BY RequestTyped, NoCallTyped DEF Send, BridgeTypeOK
<1>2. Arguments'
  BY <1>1, RequestTyped, NoCallTyped DEF Arguments
<1> QED
  BY <1>1, <1>2 DEF BridgeTypeOK

LEMMA ReleaseTyped ==
  ASSUME NEW s \in Slots, BridgeTypeOK, Arguments, Release(s)
  PROVE  BridgeTypeOK' /\ Arguments'
<1>1. /\ calls' \in [Slots -> Calls] /\ calls'[s] = NoCall
      /\ \A t \in Slots \ {s} : calls'[t] = calls[t]
  BY NoCallTyped DEF BridgeTypeOK, Release
<1> QED
  BY <1>1, NoCallTyped DEF BridgeTypeOK, Arguments, Release

LEMMA BridgeNextTyped ==
  ASSUME BridgeTypeOK, Arguments, [BridgeNext]_bridgeVars
  PROVE  BridgeTypeOK' /\ Arguments'
<1>1. CASE UNCHANGED bridgeVars
  BY <1>1 DEF bridgeVars, BridgeTypeOK, Arguments
<1>2. ASSUME NEW s \in Slots, Arrive(s) PROVE BridgeTypeOK' /\ Arguments'
  BY <1>2, SendTyped DEF Arrive
<1>3. ASSUME NEW s \in Slots, Release(s) PROVE BridgeTypeOK' /\ Arguments'
  BY <1>3, ReleaseTyped
<1>4. ASSUME NEW s \in Slots, Handle(s) PROVE BridgeTypeOK' /\ Arguments'
  BY <1>4, HandleTyped DEF BridgeTypeOK, Arguments, HandlerFrame
<1> QED
  BY <1>1, <1>2, <1>3, <1>4 DEF BridgeNext

(***************************************************************************)
(* Every state of the bridge is well typed, whatever is sent, however      *)
(* calls overlap and whatever fails.                                       *)
(***************************************************************************)
THEOREM BridgeTypeCorrect == BridgeSpec => []BridgeTypeOK
<1>1. BridgeInit => BridgeTypeOK /\ Arguments
  BY BridgeInitInv DEF BridgeInv
<1>2. BridgeTypeOK /\ Arguments /\ [BridgeNext]_bridgeVars => (BridgeTypeOK /\ Arguments)'
  BY BridgeNextTyped
<1> QED
  BY <1>1, <1>2, PTL DEF BridgeSpec

(***************************************************************************)
(* Every committed row stays readable, all chunks of its generation in     *)
(* place, except between the two statements of a delete of that path:      *)
(* forge-state.ts commit_object and delete_object for every number of      *)
(* paths, contents, chunks and slots, in any environment that sends one    *)
(* call at a time, with statements failing as they please but for a row    *)
(* delete that fails on its own.                                           *)
(***************************************************************************)
THEOREM BridgeManifestBacked ==
  ASSUME Serial, "rowdelete" \notin FaultKinds
  PROVE  BridgeSpec => []ManifestBacked
<1>1. BridgeInv => ManifestBacked
  BY DEF BridgeInv
<1> QED
  BY BridgeInitInv, BridgeNextInv, <1>1, PTL DEF BridgeSpec

-----------------------------------------------------------------------------
(***************************************************************************)
(* The service.                                                            *)
(***************************************************************************)

(***************************************************************************)
(* The inductive invariant.  A scan never points past the end of a file's  *)
(* history, and once uploads begin it has read every file.                 *)
(***************************************************************************)
ScanInHist == \A p \in Paths : flush.scan[p] <= Len(hist[p])

ScanComplete == flush.pc \in {"sync", "verify"} => \A p \in Paths : flush.scan[p] # 0

ServiceInv ==
  /\ TypeOK
  /\ Arguments
  /\ ScanInHist
  /\ ScanComplete

-----------------------------------------------------------------------------
LEMMA ConstantsTyped ==
  /\ NotRead \in [Paths -> Nat]
  /\ NoObjects \in [Paths -> Gens]
  /\ NoFlush \in [pc : FlushPcs, owner : Reqs \cup {Shutdown}, listed : BOOLEAN,
                  scan : [Paths -> Nat], have : BOOLEAN, remote : [Paths -> Gens]]
  /\ NoRequest \in [st : RequestStates, todo : SUBSET Paths, mark : [Paths -> Nat], conn : BOOLEAN]
  /\ Over \in [st : RequestStates, todo : SUBSET Paths, mark : [Paths -> Nat], conn : BOOLEAN]
<1>1. NotRead \in [Paths -> Nat] /\ NoObjects \in [Paths -> Gens]
  BY DEF NotRead, NoObjects, Gens
<1>2. NoFlush \in [pc : FlushPcs, owner : Reqs \cup {Shutdown}, listed : BOOLEAN,
                   scan : [Paths -> Nat], have : BOOLEAN, remote : [Paths -> Gens]]
  BY <1>1 DEF NoFlush, FlushPcs
<1>3. NoRequest \in [st : RequestStates, todo : SUBSET Paths, mark : [Paths -> Nat], conn : BOOLEAN]
  BY <1>1 DEF NoRequest, RequestStates
<1>4. Over \in [st : RequestStates, todo : SUBSET Paths, mark : [Paths -> Nat], conn : BOOLEAN]
  BY <1>1 DEF Over, NoRequest, RequestStates
<1> QED
  BY <1>1, <1>2, <1>3, <1>4

LEMMA InitInv == Init => ServiceInv
<1> SUFFICES ASSUME Init PROVE ServiceInv
  OBVIOUS
<1>1. BridgeTypeOK /\ Arguments
  BY BridgeInitInv DEF Init, BridgeInv
<1>2. hist \in [Paths -> Seq(Gens)] /\ queue \in Seq(Reqs \cup {Shutdown})
  BY DEF Init, Gens
<1>3. TypeOK
  BY <1>1, <1>2, ConstantsTyped DEF Init, TypeOK
<1>4. ScanInHist /\ ScanComplete
  BY DEF Init, ScanInHist, ScanComplete, NoFlush, NotRead
<1> QED
  BY <1>1, <1>3, <1>4 DEF ServiceInv

(***************************************************************************)
(* How a step of the service touches the bridge: not at all, by sending a  *)
(* well-formed call, by releasing the slot it awaited, or in a handler.    *)
(***************************************************************************)
LEMMA SendIsBridgeStep ==
  ASSUME NEW s \in Slots, NEW c \in Requests, BridgeTypeOK, Arguments, SendAs(s, c)
  PROVE  BridgeNext /\ BridgeTypeOK' /\ Arguments' /\ live' \in Slots
BY SendTyped DEF SendAs, BridgeNext, Arrive

LEMMA ReleaseIsBridgeStep ==
  ASSUME live \in Slots, BridgeTypeOK, Arguments, Release(live)
  PROVE  BridgeNext /\ BridgeTypeOK' /\ Arguments'
BY ReleaseTyped DEF BridgeNext

\* Calls the mirror sends are well formed.
LEMMA WellFormed ==
  /\ Call("status", 0, Absent, 0) \in Requests
  /\ Call("manifest", 0, Absent, 0) \in Requests
  /\ \A p \in Paths : Call("delete", p, Absent, 0) \in Requests
  /\ \A p \in Paths, g \in Contents : Call("commit", p, g, 0) \in Requests
  /\ \A p \in Paths, g \in Contents, i \in Nat : i < ChunkCount[g] =>
       Call("put", p, g, i) \in Requests /\ Call("get", p, g, i) \in Requests
<1>1. /\ Call("status", 0, Absent, 0) \in Requests
      /\ Call("manifest", 0, Absent, 0) \in Requests
  BY DEF Requests
<1>2. \A p \in Paths : Call("delete", p, Absent, 0) \in Requests
  BY DEF Requests
<1>3. \A p \in Paths, g \in Contents : Call("commit", p, g, 0) \in Requests
  BY DEF Requests
<1>4. ASSUME NEW p \in Paths, NEW g \in Contents, NEW i \in Nat, i < ChunkCount[g]
      PROVE  Call("put", p, g, i) \in Requests /\ Call("get", p, g, i) \in Requests
  <2>1. i \in 0..(ChunkCount[g] - 1)
    BY <1>4, ChunkCountAssumption
  <2> QED
    BY <2>1 DEF Requests
<1> QED
  BY <1>1, <1>2, <1>3, <1>4

FlushType == [pc : FlushPcs, owner : Reqs \cup {Shutdown}, listed : BOOLEAN,
              scan : [Paths -> Nat], have : BOOLEAN, remote : [Paths -> Gens]]
RequestType == [st : RequestStates, todo : SUBSET Paths, mark : [Paths -> Nat], conn : BOOLEAN]

\* What each action has to keep, in the form the lemmas below prove it.
Kept == ServiceInv' /\ [BridgeNext]_bridgeVars

LEMMA BridgeUntouched ==
  ASSUME ServiceInv, UNCHANGED bridgeVars
  PROVE  BridgeTypeOK' /\ Arguments' /\ [BridgeNext]_bridgeVars
BY BridgeNextTyped DEF ServiceInv, TypeOK

LEMMA RequestInv ==
  ASSUME NEW r \in Reqs, ServiceInv, Begin(r) \/ Disconnect(r) \/ Throw(r) \/ Persist(r)
  PROVE  Kept
<1>1. UNCHANGED <<bridgeVars, mode, stop, hist, acked, closed, misread, flush, live>>
  BY DEF Begin, Disconnect, Throw, Persist, bridgeVars
<1>2. BridgeTypeOK' /\ Arguments' /\ [BridgeNext]_bridgeVars
  BY <1>1, BridgeUntouched
<1>3. req' \in [Reqs -> RequestType]
  <2>1. PICK x \in RequestType : req' = [req EXCEPT ![r] = x]
    <3>1. CASE Begin(r)
      <4>1. PICK ps \in SUBSET Paths, conn \in BOOLEAN :
              req' = [req EXCEPT ![r] =
                        [NoRequest EXCEPT !.st = "open", !.todo = ps, !.conn = conn]]
        BY <3>1 DEF Begin
      <4>2. [NoRequest EXCEPT !.st = "open", !.todo = ps, !.conn = conn] \in RequestType
        BY ConstantsTyped DEF NoRequest, RequestType, RequestStates
      <4> QED
        BY <4>1, <4>2
    <3>2. CASE Throw(r)
      BY <3>2, ConstantsTyped DEF Throw, RequestType
    <3>3. CASE Persist(r)
      <4>1. [req[r] EXCEPT !.st = "waiting"] \in RequestType
        <5>1. req[r] \in RequestType
          BY DEF ServiceInv, TypeOK, RequestType
        <5>2. "waiting" \in RequestStates
          BY DEF RequestStates
        <5> QED
          BY <5>1, <5>2 DEF RequestType
      <4>2. req' = [req EXCEPT ![r] = [req[r] EXCEPT !.st = "waiting"]]
        BY <3>3 DEF Persist
      <4> QED
        BY <4>1, <4>2
    <3>4. CASE Disconnect(r)
      <4>1. [req[r] EXCEPT !.conn = FALSE] \in RequestType
        BY DEF ServiceInv, TypeOK, RequestType
      <4>2. req' = [req EXCEPT ![r] = [req[r] EXCEPT !.conn = FALSE]]
        BY <3>4 DEF Disconnect
      <4> QED
        BY <4>1, <4>2
    <3> QED
      BY <3>1, <3>2, <3>3, <3>4
  <2> QED
    BY <2>1 DEF ServiceInv, TypeOK, RequestType
<1>4. queue' \in Seq(Reqs \cup {Shutdown})
  <2>1. queue \in Seq(Reqs \cup {Shutdown}) /\ r \in Reqs \cup {Shutdown}
    BY DEF ServiceInv, TypeOK
  <2>2. Append(queue, r) \in Seq(Reqs \cup {Shutdown})
    BY <2>1
  <2> QED
    BY <2>1, <2>2 DEF Begin, Disconnect, Throw, Persist
<1>5. TypeOK'
  BY <1>1, <1>2, <1>3, <1>4 DEF ServiceInv, TypeOK, RequestType
<1>6. ScanInHist' /\ ScanComplete'
  BY <1>1 DEF ServiceInv, ScanInHist, ScanComplete
<1> QED
  BY <1>2, <1>5, <1>6 DEF Kept, ServiceInv

LEMMA WriteInv ==
  ASSUME NEW r \in Reqs, NEW p \in Paths, ServiceInv, Write(r, p)
  PROVE  Kept
<1>1. UNCHANGED <<bridgeVars, mode, stop, acked, closed, misread, queue, flush, live>>
  BY DEF Write, bridgeVars
<1>2. BridgeTypeOK' /\ Arguments' /\ [BridgeNext]_bridgeVars
  BY <1>1, BridgeUntouched
<1>3. PICK c \in Gens : hist' = [hist EXCEPT ![p] = Append(hist[p], c)]
  BY DEF Write
<1>4. /\ hist' \in [Paths -> Seq(Gens)]
      /\ \A q \in Paths : Len(hist'[q]) >= Len(hist[q])
  BY <1>3 DEF ServiceInv, TypeOK
<1>5. req' \in [Reqs -> RequestType]
  <2>1. Len(hist[p]) + 1 \in Nat
    BY DEF ServiceInv, TypeOK
  <2>2. [req[r].mark EXCEPT ![p] = Len(hist[p]) + 1] \in [Paths -> Nat]
    BY <2>1 DEF ServiceInv, TypeOK
  <2> DEFINE x == [req[r] EXCEPT !.todo = req[r].todo \ {p},
                                 !.mark = [req[r].mark EXCEPT ![p] = Len(hist[p]) + 1]]
  <2>3. req' = [req EXCEPT ![r] = x]
    BY DEF Write
  <2>4. /\ req[r] \in RequestType
        /\ req[r].todo \in SUBSET Paths
    BY DEF ServiceInv, TypeOK, RequestType
  <2>5. req[r].todo \ {p} \in SUBSET Paths
    BY <2>4
  <2>6. x \in RequestType
    BY <2>2, <2>4, <2>5 DEF RequestType
  <2>7. req \in [Reqs -> RequestType]
    BY DEF ServiceInv, TypeOK, RequestType
  <2> HIDE DEF x
  <2> QED
    BY <2>3, <2>6, <2>7
<1>6. TypeOK'
  BY <1>1, <1>2, <1>4, <1>5 DEF ServiceInv, TypeOK, RequestType
<1>7. ScanInHist' /\ ScanComplete'
  BY <1>1, <1>4 DEF ServiceInv, ScanInHist, ScanComplete, TypeOK
<1> QED
  BY <1>2, <1>6, <1>7 DEF Kept, ServiceInv

LEMMA SignalInv ==
  ASSUME ServiceInv, Sigterm \/ Closed
  PROVE  Kept
<1>1. UNCHANGED <<bridgeVars, mode, hist, acked, misread, req, flush, live>>
  BY DEF Sigterm, Closed, bridgeVars
<1>2. BridgeTypeOK' /\ Arguments' /\ [BridgeNext]_bridgeVars
  BY <1>1, BridgeUntouched
<1>3. queue' \in Seq(Reqs \cup {Shutdown}) /\ stop' \in {"flush1", "flush2"}
  <2>1. Append(queue, Shutdown) \in Seq(Reqs \cup {Shutdown})
    BY DEF ServiceInv, TypeOK
  <2> QED
    BY <2>1 DEF Sigterm, Closed
<1>a. closed' \in [Paths -> Nat]
  <2>1. \A p \in Paths : Len(hist[p]) \in Nat
    BY DEF ServiceInv, TypeOK
  <2> QED
    BY <2>1 DEF ServiceInv, TypeOK, Sigterm, Closed
<1>4. TypeOK'
  BY <1>1, <1>2, <1>3, <1>a DEF ServiceInv, TypeOK
<1>5. ScanInHist' /\ ScanComplete'
  BY <1>1 DEF ServiceInv, ScanInHist, ScanComplete
<1> QED
  BY <1>2, <1>4, <1>5 DEF Kept, ServiceInv

-----------------------------------------------------------------------------
\* The slot awaited, when an answer is looked at.
LEMMA LiveSlot == ASSUME ServiceInv, live # NoSlot PROVE live \in Slots
BY DEF ServiceInv, TypeOK

LEMMA ScanInv ==
  ASSUME ServiceInv, ListFiles \/ ReadFile
  PROVE  Kept
<1>1. UNCHANGED <<bridgeVars, mode, stop, hist, acked, closed, misread, req, queue, live>> /\ flush.pc = "scan"
  BY DEF ListFiles, ReadFile, bridgeVars
<1>2. BridgeTypeOK' /\ Arguments' /\ [BridgeNext]_bridgeVars
  BY <1>1, BridgeUntouched
<1>3. flush \in FlushType /\ \A p \in Paths : Len(hist[p]) \in Nat
  BY DEF ServiceInv, TypeOK, FlushType
<1>4. /\ flush' \in FlushType /\ flush'.pc = "scan"
      /\ \A p \in Paths : flush'.scan[p] \in {0, Len(hist[p]), flush.scan[p]}
  <2>1. CASE ListFiles
    <3> DEFINE listing == [p \in Paths |-> IF Local(p) = Absent THEN Len(hist[p]) ELSE 0]
    <3>1. listing \in [Paths -> Nat]
      BY <1>3
    <3>2. flush' = [flush EXCEPT !.listed = TRUE, !.scan = listing]
      BY <2>1 DEF ListFiles
    <3> QED
      BY <1>1, <1>3, <3>1, <3>2 DEF FlushType
  <2>2. CASE ReadFile
    <3>1. PICK p \in Paths : flush' = [flush EXCEPT !.scan[p] = Len(hist[p])]
      BY <2>2 DEF ReadFile, First, Unread
    <3>2. [flush.scan EXCEPT ![p] = Len(hist[p])] \in [Paths -> Nat]
      BY <1>3 DEF FlushType
    <3>3. flush' = [flush EXCEPT !.scan = [flush.scan EXCEPT ![p] = Len(hist[p])]]
      BY <3>1
    <3> QED
      BY <1>1, <1>3, <3>2, <3>3 DEF FlushType
  <2> QED
    BY <2>1, <2>2
<1>5. TypeOK'
  BY <1>1, <1>2, <1>4 DEF ServiceInv, TypeOK, FlushType
<1>6. ScanInHist' /\ ScanComplete'
  BY <1>1, <1>3, <1>4 DEF ServiceInv, ScanInHist, ScanComplete
<1> QED
  BY <1>2, <1>5, <1>6 DEF Kept, ServiceInv

LEMMA StartFlushInv ==
  ASSUME NEW s \in Slots, ServiceInv, StartFlush(s)
  PROVE  Kept
<1>1. BridgeNext /\ BridgeTypeOK' /\ Arguments' /\ live' \in Slots
  BY SendIsBridgeStep, WellFormed DEF ServiceInv, TypeOK, StartFlush
<1>2. UNCHANGED <<mode, stop, hist, acked, closed, misread, req>>
  BY DEF StartFlush
<1>3. Head(queue) \in Reqs \cup {Shutdown} /\ queue' \in Seq(Reqs \cup {Shutdown})
  BY DEF ServiceInv, TypeOK, StartFlush
<1>4. flush' \in FlushType /\ flush'.pc = "scan" /\ flush'.scan = NotRead
  BY <1>3, ConstantsTyped DEF StartFlush, NoFlush, FlushType, FlushPcs
<1>5. TypeOK'
  BY <1>1, <1>2, <1>3, <1>4 DEF ServiceInv, TypeOK, FlushType
<1>6. ScanInHist' /\ ScanComplete'
  BY <1>2, <1>4 DEF ServiceInv, TypeOK, ScanInHist, ScanComplete, NotRead
<1> QED
  BY <1>1, <1>5, <1>6 DEF Kept, ServiceInv

\* What the mirror makes of the answer to a manifest call.
LEMMA ManifestReadTyped ==
  ASSUME ServiceInv, live \in Slots
  PROVE  ManifestRead \subseteq [Paths -> Gens]
<1>1. calls[live].seen \in [Paths -> Gens]
  BY DEF ServiceInv, TypeOK, BridgeTypeOK, Calls
<1> QED
  BY <1>1, ConstantsTyped DEF ManifestRead

LEMMA GotManifestInv ==
  ASSUME ServiceInv, GotManifest
  PROVE  Kept
<1>1. live \in Slots /\ Release(live) /\ live' = NoSlot
  BY LiveSlot DEF GotManifest, Succeeded, Answered, Consume
<1>2. BridgeNext /\ BridgeTypeOK' /\ Arguments'
  BY <1>1, ReleaseIsBridgeStep DEF ServiceInv, TypeOK
<1>3. ManifestRead \subseteq [Paths -> Gens]
  BY <1>1, ManifestReadTyped
<1>4. /\ flush' \in FlushType /\ flush'.pc = "scan" /\ flush'.scan = flush.scan
      /\ UNCHANGED <<mode, stop, hist, acked, closed, misread, req, queue>>
  BY <1>3 DEF GotManifest, ServiceInv, TypeOK, FlushType
<1>5. TypeOK'
  BY <1>1, <1>2, <1>4 DEF ServiceInv, TypeOK, FlushType
<1>6. ScanInHist' /\ ScanComplete'
  BY <1>4 DEF ServiceInv, ScanInHist, ScanComplete
<1> QED
  BY <1>2, <1>5, <1>6 DEF Kept, ServiceInv

\* With every file read, the scan holds contents or absences.
LEMMA ProceedInv ==
  ASSUME NEW s \in Slots, NEW remote \in [Paths -> Gens], ServiceInv,
         \A p \in Paths : flush.scan[p] # 0, Proceed(s, remote)
  PROVE  Kept
<1>1. Scanned \in [Paths -> Gens]
  BY DEF ServiceInv, TypeOK, ScanInHist, Scanned
<1>2. PICK c \in Requests : SendAs(s, c)
  <2>1. CASE Upload(s, remote)
    <3>1. PICK p \in Uploads(remote) : SendAs(s, Call("put", p, Scanned[p], 0))
      BY <2>1 DEF Upload, First
    <3>2. p \in Paths /\ Scanned[p] \in Contents
      BY <1>1 DEF Uploads, Gens
    <3>3. 0 < ChunkCount[Scanned[p]]
      BY <3>2, ChunkCountAssumption
    <3> QED
      BY <3>1, <3>2, <3>3, WellFormed
  <2>2. CASE Purge(s, remote)
    BY <2>2, WellFormed DEF Purge, First, Stale
  <2>3. CASE Verify(s, remote)
    BY <2>3, WellFormed DEF Verify
  <2> QED
    BY <2>1, <2>2, <2>3 DEF Proceed
<1>3. BridgeNext /\ BridgeTypeOK' /\ Arguments' /\ live' \in Slots
  BY <1>2, SendIsBridgeStep DEF ServiceInv, TypeOK
<1>4. /\ flush' \in FlushType /\ flush'.scan = flush.scan
      /\ UNCHANGED <<mode, stop, hist, acked, closed, misread, req, queue>>
  BY DEF Proceed, ServiceInv, TypeOK, FlushType, FlushPcs
<1>5. TypeOK'
  BY <1>3, <1>4 DEF ServiceInv, TypeOK, FlushType
<1>6. ScanInHist' /\ ScanComplete'
  BY <1>4 DEF ServiceInv, ScanInHist, ScanComplete
<1> QED
  BY <1>3, <1>5, <1>6 DEF Kept, ServiceInv

LEMMA DiffInv == ASSUME NEW s \in Slots, ServiceInv, Diff(s) PROVE Kept
<1>1. flush.remote \in [Paths -> Gens] /\ \A p \in Paths : flush.scan[p] # 0
  BY DEF ServiceInv, TypeOK, Diff, Unread
<1> QED
  BY <1>1, ProceedInv DEF Diff

\* The call an answer belongs to has well-formed arguments.
LEMMA AnsweredCall ==
  ASSUME ServiceInv, NEW op, Succeeded(op)
  PROVE  /\ live \in Slots /\ calls[live] \in Calls /\ calls[live].op = op
         /\ op \in {"put", "commit", "get", "delete"} => calls[live].path \in Paths
         /\ op \in {"put", "commit", "get"} => calls[live].gen \in Contents
BY LiveSlot DEF Succeeded, Answered, ServiceInv, Arguments, TypeOK, BridgeTypeOK

LEMMA PutAnsweredInv == ASSUME ServiceInv, PutAnswered PROVE Kept
<1> DEFINE c == calls[live]
<1>1. live \in Slots /\ c \in Calls /\ c.path \in Paths /\ c.gen \in Contents /\ c.idx \in Nat
  BY AnsweredCall DEF PutAnswered, Calls
<1>2. PICK d \in Requests : SendAs(live, d)
  <2>1. CASE c.idx + 1 < ChunkCount[c.gen]
    BY <1>1, <2>1, WellFormed DEF PutAnswered
  <2>2. CASE ~(c.idx + 1 < ChunkCount[c.gen])
    BY <1>1, <2>2, WellFormed DEF PutAnswered
  <2> QED
    BY <2>1, <2>2
<1>3. BridgeNext /\ BridgeTypeOK' /\ Arguments' /\ live' \in Slots
  BY <1>1, <1>2, SendIsBridgeStep DEF ServiceInv, TypeOK
<1>4. UNCHANGED <<mode, stop, hist, acked, closed, misread, req, queue, flush>>
  BY DEF PutAnswered
<1>5. TypeOK'
  BY <1>3, <1>4 DEF ServiceInv, TypeOK
<1>6. ScanInHist' /\ ScanComplete'
  BY <1>4 DEF ServiceInv, ScanInHist, ScanComplete
<1> QED
  BY <1>3, <1>5, <1>6 DEF Kept, ServiceInv

LEMMA CommitAnsweredInv == ASSUME ServiceInv, CommitAnswered PROVE Kept
<1> DEFINE remote == [flush.remote EXCEPT ![calls[live].path] = calls[live].gen]
<1>1. live \in Slots /\ calls[live].path \in Paths /\ calls[live].gen \in Gens
  BY AnsweredCall DEF CommitAnswered, Gens
<1>2. remote \in [Paths -> Gens] /\ \A p \in Paths : flush.scan[p] # 0
  BY <1>1 DEF ServiceInv, TypeOK, ScanComplete, CommitAnswered
<1> QED
  BY <1>1, <1>2, ProceedInv DEF CommitAnswered

LEMMA DeleteAnsweredInv == ASSUME ServiceInv, DeleteAnswered PROVE Kept
<1> DEFINE remote == [flush.remote EXCEPT ![calls[live].path] = Absent]
<1>1. live \in Slots /\ calls[live].path \in Paths
  BY AnsweredCall DEF DeleteAnswered
<1>2. remote \in [Paths -> Gens] /\ \A p \in Paths : flush.scan[p] # 0
  BY <1>1 DEF ServiceInv, TypeOK, ScanComplete, DeleteAnswered, Gens
<1> QED
  BY <1>1, <1>2, ProceedInv DEF DeleteAnswered

-----------------------------------------------------------------------------
StopStates == {"no", "flush1", "failed", "closing", "flush2", "stopped", "unsynced"}

LEMMA HaltTyped ==
  ASSUME ServiceInv, NEW st \in StopStates, Halt(st)
  PROVE  /\ req' \in [Reqs -> RequestType] /\ queue' \in Seq(Reqs \cup {Shutdown})
         /\ closed' \in [Paths -> Nat]
         /\ mode' = "down" /\ stop' = st /\ UNCHANGED <<hist, acked, misread>>
<1>1. \A r \in Reqs : req[r] \in RequestType /\ Over \in RequestType
  BY ConstantsTyped DEF ServiceInv, TypeOK, RequestType
<1>2. closed \in [Paths -> Nat] /\ NotRead \in [Paths -> Nat]
  BY ConstantsTyped DEF ServiceInv, TypeOK
<1> QED
  BY <1>1, <1>2 DEF Halt

LEMMA LaterTyped ==
  ASSUME NEW f \in [Paths -> Nat], NEW g \in [Paths -> Nat]
  PROVE  /\ Later(f, g) \in [Paths -> Nat]
         /\ \A p \in Paths : /\ Later(f, g)[p] \in {f[p], g[p]}
                              /\ f[p] <= Later(f, g)[p] /\ g[p] <= Later(f, g)[p]
BY DEF Later

\* The three ways a flush ends: for a request, and for either part of a shutdown.
LEMMA EndFlushCases ==
  ASSUME ServiceInv, NEW ok \in BOOLEAN, EndFlush(ok)
  PROVE  /\ flush' = NoFlush /\ UNCHANGED <<mode, hist, closed, queue>>
         /\ \/ /\ flush.owner \in Reqs /\ req' = [req EXCEPT ![flush.owner] = Over]
               /\ acked' = IF ok THEN Later(req[flush.owner].mark, acked) ELSE acked
               /\ stop' = stop
            \/ /\ flush.owner = Shutdown /\ stop = "flush1" /\ stop' \in {"closing", "failed"}
               /\ UNCHANGED <<acked, req>>
            \/ /\ flush.owner = Shutdown /\ stop = "flush2" /\ req' = req
               /\ stop' = IF ok THEN "stopped" ELSE "unsynced"
               /\ acked' = IF ok THEN Later(closed, acked) ELSE acked
BY DEF EndFlush

LEMMA EndFlushTyped ==
  ASSUME ServiceInv, NEW ok \in BOOLEAN, EndFlush(ok)
  PROVE  /\ flush' = NoFlush
         /\ stop' \in StopStates
         /\ acked' \in [Paths -> Nat]
         /\ req' \in [Reqs -> RequestType]
         /\ UNCHANGED <<mode, hist, closed, queue>>
<1>1. /\ acked \in [Paths -> Nat] /\ closed \in [Paths -> Nat] /\ stop \in StopStates
      /\ req \in [Reqs -> RequestType] /\ Over \in RequestType
      /\ \A r \in Reqs : req[r].mark \in [Paths -> Nat]
  BY ConstantsTyped DEF ServiceInv, TypeOK, RequestType, StopStates
<1>2. /\ Later(closed, acked) \in [Paths -> Nat]
      /\ \A r \in Reqs : Later(req[r].mark, acked) \in [Paths -> Nat]
  BY <1>1, LaterTyped
<1> QED
  BY <1>1, <1>2, EndFlushCases DEF StopStates

\* Once the bridge side of a step that ends a flush is settled, so is the rest.
LEMMA EndFlushInv ==
  ASSUME ServiceInv, NEW ok \in BOOLEAN, EndFlush(ok), live' = NoSlot, misread' \in BOOLEAN,
         BridgeTypeOK', Arguments', [BridgeNext]_bridgeVars
  PROVE  Kept
<1>1. TypeOK'
  BY EndFlushTyped, ConstantsTyped DEF ServiceInv, TypeOK, RequestType, StopStates
<1>2. ScanInHist'
  BY EndFlushTyped DEF ServiceInv, TypeOK, ScanInHist, NoFlush, NotRead
<1>3. ScanComplete'
  BY EndFlushTyped DEF ScanComplete, NoFlush
<1> QED
  BY <1>1, <1>2, <1>3 DEF Kept, ServiceInv

LEMMA GiveUpTyped ==
  ASSUME ServiceInv, live # NoSlot, GiveUp
  PROVE  BridgeTypeOK' /\ Arguments' /\ [BridgeNext]_bridgeVars
<1>1. CASE UNCHANGED bridgeVars
  BY <1>1, BridgeUntouched
<1>2. CASE Release(live)
  BY <1>2, LiveSlot, ReleaseIsBridgeStep DEF ServiceInv, TypeOK
<1> QED
  BY <1>1, <1>2 DEF GiveUp

LEMMA FlushEndsInv ==
  ASSUME ServiceInv, Verified \/ FlushRefused \/ ReadFails \/ FlushTimeout
  PROVE  Kept
<1>1. CASE Verified \/ FlushRefused
  <2>1. live \in Slots /\ Release(live) /\ live' = NoSlot
    BY <1>1, LiveSlot DEF Verified, FlushRefused, Succeeded, Answered, Refused, Consume
  <2>2. BridgeNext /\ BridgeTypeOK' /\ Arguments'
    BY <2>1, ReleaseIsBridgeStep DEF ServiceInv, TypeOK
  <2>3. PICK ok \in BOOLEAN : EndFlush(ok)
    BY <1>1 DEF Verified, FlushRefused
  <2>4. misread' \in BOOLEAN
    BY <1>1 DEF Verified, FlushRefused, ServiceInv, TypeOK
  <2> QED
    BY <2>1, <2>2, <2>3, <2>4, EndFlushInv
<1>2. CASE ReadFails
  BY <1>2, BridgeUntouched, EndFlushInv DEF ReadFails, ServiceInv, TypeOK
<1>3. CASE FlushTimeout
  BY <1>3, GiveUpTyped, EndFlushInv DEF FlushTimeout, ServiceInv, TypeOK
<1> QED
  BY <1>1, <1>2, <1>3

-----------------------------------------------------------------------------
LEMMA BootInv ==
  ASSUME ServiceInv, (\E s \in Slots : Boot(s)) \/ StatusAnswered
  PROVE  Kept
<1>1. PICK s \in Slots, c \in Requests : SendAs(s, c)
  BY WellFormed, AnsweredCall DEF Boot, StatusAnswered
<1>2. BridgeNext /\ BridgeTypeOK' /\ Arguments' /\ live' \in Slots
  BY <1>1, SendIsBridgeStep DEF ServiceInv, TypeOK
<1>3. /\ mode' = "boot" /\ stop' \in {"no", stop} /\ closed' \in [Paths -> Nat]
      /\ UNCHANGED <<hist, acked, misread, req, queue, flush>>
  BY ConstantsTyped DEF Boot, StatusAnswered, ServiceInv, TypeOK
<1>4. TypeOK'
  BY <1>2, <1>3 DEF ServiceInv, TypeOK
<1>5. ScanInHist' /\ ScanComplete'
  BY <1>3 DEF ServiceInv, ScanInHist, ScanComplete
<1> QED
  BY <1>2, <1>4, <1>5 DEF Kept, ServiceInv

\* Hydration, from any manifest a well-typed bridge can answer.
LEMMA FetchInv ==
  ASSUME ServiceInv, NEW after, NEW manifest \in [Paths -> Gens], NEW wrong \in BOOLEAN,
         live \in Slots, Fetch(after, manifest, wrong)
  PROVE  Kept
<1>1. CASE FetchNext(after, manifest)
  <2>1. PICK p \in Remaining(after, manifest) : SendAs(live, Call("get", p, manifest[p], 0))
    BY <1>1 DEF FetchNext, First
  <2>2. p \in Paths /\ manifest[p] \in Contents /\ 0 < ChunkCount[manifest[p]]
    BY ChunkCountAssumption DEF Remaining, Gens
  <2>3. BridgeNext /\ BridgeTypeOK' /\ Arguments' /\ live' \in Slots
    BY <2>1, <2>2, WellFormed, SendIsBridgeStep DEF ServiceInv, TypeOK
  <2>4. /\ flush' \in FlushType /\ flush'.scan = flush.scan /\ flush'.pc = flush.pc
        /\ UNCHANGED <<mode, stop, hist, acked, closed, misread, req, queue>>
    BY <1>1 DEF Fetch, FetchNext, ServiceInv, TypeOK, FlushType
  <2>5. TypeOK'
    BY <2>3, <2>4 DEF ServiceInv, TypeOK, FlushType
  <2>6. ScanInHist' /\ ScanComplete'
    BY <2>4 DEF ServiceInv, ScanInHist, ScanComplete
  <2> QED
    BY <2>3, <2>5, <2>6 DEF Kept, ServiceInv
<1>2. CASE Swap(after, manifest, wrong)
  <2>1. BridgeNext /\ BridgeTypeOK' /\ Arguments' /\ live' = NoSlot
    BY <1>2, ReleaseIsBridgeStep DEF Swap, Consume, ServiceInv, TypeOK
  <2>2. hist' \in [Paths -> Seq(Gens)] /\ acked' \in [Paths -> Nat] /\ misread' \in BOOLEAN
    BY <1>2 DEF Swap
  <2>3. mode' = "up" /\ flush' = NoFlush /\ UNCHANGED <<stop, closed, req, queue>>
    BY <1>2 DEF Fetch, Swap
  <2>4. TypeOK'
    BY <2>1, <2>2, <2>3, ConstantsTyped DEF ServiceInv, TypeOK
  <2>5. ScanInHist' /\ ScanComplete'
    BY <2>2, <2>3 DEF ScanInHist, ScanComplete, NoFlush, NotRead
  <2> QED
    BY <2>1, <2>4, <2>5 DEF Kept, ServiceInv
<1> QED
  BY <1>1, <1>2 DEF Fetch

LEMMA HydrateInv == ASSUME ServiceInv, HydrateManifest \/ GetAnswered PROVE Kept
<1>1. CASE HydrateManifest
  <2>1. live \in Slots /\ ManifestRead \subseteq [Paths -> Gens]
    BY <1>1, AnsweredCall, ManifestReadTyped DEF HydrateManifest
  <2> QED
    BY <1>1, <2>1, FetchInv DEF HydrateManifest
<1>2. CASE GetAnswered
  <2> DEFINE c == calls[live]
  <2>1. live \in Slots /\ c \in Calls /\ c.path \in Paths /\ c.gen \in Contents /\ c.idx \in Nat
    BY <1>2, AnsweredCall DEF GetAnswered, Calls
  <2>2. CASE c.idx + 1 < ChunkCount[c.gen]
    <3> DEFINE next == Call("get", c.path, c.gen, c.idx + 1)
    <3>1. SendAs(live, next)
      BY <1>2, <2>2 DEF GetAnswered
    <3>2. c.idx + 1 \in Nat
      BY <2>1
    <3>3. next \in Requests
      BY <2>1, <2>2, <3>2, WellFormed
    <3>4. BridgeTypeOK /\ Arguments
      BY DEF ServiceInv, TypeOK
    <3>5. BridgeNext /\ BridgeTypeOK' /\ Arguments' /\ live' \in Slots
      <4> HIDE DEF next
      <4> QED
        BY <2>1, <3>1, <3>3, <3>4, SendIsBridgeStep
    <3>6. UNCHANGED <<mode, stop, hist, acked, closed, misread, req, queue, flush>>
      BY <1>2, <2>2 DEF GetAnswered
    <3>7. TypeOK'
      BY <3>5, <3>6 DEF ServiceInv, TypeOK
    <3>8. ScanInHist' /\ ScanComplete'
      BY <3>6 DEF ServiceInv, ScanInHist, ScanComplete
    <3> QED
      BY <3>5, <3>7, <3>8 DEF Kept, ServiceInv
  <2>3. CASE ~(c.idx + 1 < ChunkCount[c.gen])
    <3>1. Fetch(c.path, flush.remote, FALSE) /\ flush.remote \in [Paths -> Gens]
      BY <1>2, <2>3 DEF GetAnswered, ServiceInv, TypeOK
    <3> QED
      BY <2>1, <3>1, FetchInv
  <2> QED
    BY <2>2, <2>3
<1> QED
  BY <1>1, <1>2

\* The last preview has ended.
LEMMA ExitInv == ASSUME ServiceInv, Exit PROVE Kept
<1>1. stop \in StopStates /\ Halt(stop) /\ UNCHANGED <<bridgeVars, flush, live>>
  BY DEF Exit, ServiceInv, TypeOK, StopStates, bridgeVars
<1>2. BridgeTypeOK' /\ Arguments' /\ [BridgeNext]_bridgeVars
  BY <1>1, BridgeUntouched
<1>3. TypeOK'
  BY <1>1, <1>2, HaltTyped DEF ServiceInv, TypeOK, RequestType, StopStates
<1>4. ScanInHist' /\ ScanComplete'
  BY <1>1, HaltTyped DEF ServiceInv, ScanInHist, ScanComplete
<1> QED
  BY <1>2, <1>3, <1>4 DEF Kept, ServiceInv

LEMMA ProcessEndsInv == ASSUME ServiceInv, BootFails \/ Crash PROVE Kept
<1>1. live' = NoSlot /\ flush' = NoFlush /\ Halt("no") /\ "no" \in StopStates
  BY DEF BootFails, Crash, Consume, StopStates
<1>2. BridgeTypeOK' /\ Arguments' /\ [BridgeNext]_bridgeVars
  <2>1. CASE UNCHANGED bridgeVars
    BY <2>1, BridgeUntouched
  <2>2. CASE live # NoSlot /\ GiveUp
    BY <2>2, GiveUpTyped
  <2>3. CASE live # NoSlot /\ Release(live)
    BY <2>3, LiveSlot, ReleaseIsBridgeStep DEF ServiceInv, TypeOK
  <2> QED
    BY <2>1, <2>2, <2>3 DEF BootFails, BodyLost, Crash, Refused, Succeeded, Answered, Consume
<1>3. TypeOK'
  BY <1>1, <1>2, HaltTyped, ConstantsTyped DEF ServiceInv, TypeOK, RequestType, StopStates
<1>4. ScanInHist' /\ ScanComplete'
  BY <1>1, HaltTyped DEF ServiceInv, TypeOK, ScanInHist, ScanComplete, NoFlush, NotRead
<1> QED
  BY <1>2, <1>3, <1>4 DEF Kept, ServiceInv

LEMMA HandlerInv == ASSUME ServiceInv, BridgeStep PROVE Kept
<1>1. UNCHANGED clientVars /\ BridgeNext
  BY DEF BridgeStep, BridgeNext
<1>2. BridgeTypeOK' /\ Arguments'
  BY <1>1, BridgeNextTyped DEF ServiceInv, TypeOK
<1>3. TypeOK'
  BY <1>1, <1>2 DEF ServiceInv, TypeOK, clientVars
<1>4. ScanInHist' /\ ScanComplete'
  BY <1>1 DEF ServiceInv, ScanInHist, ScanComplete, clientVars
<1> QED
  BY <1>1, <1>2, <1>3, <1>4 DEF Kept, ServiceInv

LEMMA NextInv == ASSUME ServiceInv, [Next]_vars PROVE Kept
<1>1. CASE UNCHANGED vars
  <2>1. BridgeTypeOK' /\ Arguments' /\ [BridgeNext]_bridgeVars
    BY <1>1, BridgeUntouched DEF vars, bridgeVars
  <2> QED
    BY <1>1, <2>1 DEF Kept, ServiceInv, TypeOK, ScanInHist, ScanComplete, vars, clientVars
<1>2. CASE RequestStep
  BY <1>2, RequestInv, WriteInv DEF RequestStep
<1>3. CASE FlushStep
  BY <1>3, StartFlushInv, DiffInv, ScanInv, GotManifestInv, PutAnsweredInv, CommitAnsweredInv,
     DeleteAnsweredInv, FlushEndsInv DEF FlushStep
<1>4. CASE BootStep \/ \E s \in Slots : Boot(s)
  BY <1>4, BootInv, HydrateInv DEF BootStep
<1>5. CASE FlushTimeout \/ BootFails \/ Crash
  BY <1>5, FlushEndsInv, ProcessEndsInv
<1>6. CASE Sigterm \/ Closed \/ Exit \/ BridgeStep
  BY <1>6, SignalInv, ExitInv, HandlerInv
<1> QED
  BY <1>1, <1>2, <1>3, <1>4, <1>5, <1>6 DEF Next

-----------------------------------------------------------------------------
(***************************************************************************)
(* The service and the bridge together are well typed: for every number    *)
(* of files, requests and slots, with calls serial or not, whatever        *)
(* faults occur.                                                           *)
(***************************************************************************)
THEOREM TypeCorrect == Spec => []TypeOK
<1>1. ServiceInv => TypeOK
  BY DEF ServiceInv
<1>2. ServiceInv /\ [Next]_vars => ServiceInv'
  BY NextInv DEF Kept
<1> QED
  BY InitInv, <1>1, <1>2, PTL DEF Spec

(***************************************************************************)
(* The mirror drives the bridge only through well-formed calls, and no     *)
(* other step of the service touches the tables: the composed system       *)
(* implements the bridge in its arbitrary environment, so what is proved   *)
(* of the bridge holds of it.                                              *)
(***************************************************************************)
THEOREM ServiceUsesBridge == Spec => BridgeBehaves
<1>1. Init => BridgeInit
  BY DEF Init
<1>2. ServiceInv /\ [Next]_vars => ServiceInv' /\ [BridgeNext]_bridgeVars
  BY NextInv DEF Kept
<1> QED
  BY InitInv, <1>1, <1>2, PTL DEF Spec, BridgeBehaves, BridgeSpec

(***************************************************************************)
(* Hydration can always read what the manifest names: with calls that do   *)
(* not outlive the client's patience into its next call, every committed   *)
(* row has all its chunks, but inside delete_object, through any           *)
(* interleaving of requests, crashes, timeouts and database errors other   *)
(* than a row delete that fails alone.                                     *)
(***************************************************************************)
THEOREM ServiceManifestBacked ==
  ASSUME Serial, "rowdelete" \notin FaultKinds
  PROVE  Spec => []ManifestBacked
<1>1. BridgeSpec => []ManifestBacked
  BY BridgeManifestBacked
<1>2. Spec => BridgeSpec
  BY ServiceUsesBridge DEF BridgeBehaves
<1> QED
  BY <1>1, <1>2

-----------------------------------------------------------------------------
(***************************************************************************)
(* Its promise.                                                            *)
(***************************************************************************)

\* The versions of file p a restart may come back with.
Durable(p) == {hist[p][i] : i \in acked[p]..Len(hist[p])}

-----------------------------------------------------------------------------
(***************************************************************************)
(* What holds of the mirror alone.  A flush reads every file after its     *)
(* owner has written its own, and after everything acknowledged so far.    *)
(***************************************************************************)
Positions == \A p \in Paths : 1 <= acked[p] /\ acked[p] <= Len(hist[p])

MarksFit ==
  \A r \in Reqs :
    /\ \A p \in Paths : req[r].mark[p] <= Len(hist[p])
    /\ req[r].st \in {"new", "over"} => req[r].mark = NotRead

Persisted(r) == req[r].st \in {"waiting", "over"}

QueuePersisted == \A i \in 1..Len(queue) : queue[i] \in Reqs => Persisted(queue[i])

OwnerRead ==
  flush.pc # "off" /\ flush.owner \in Reqs =>
    /\ Persisted(flush.owner)
    /\ \A p \in Paths : flush.scan[p] # 0 => req[flush.owner].mark[p] <= flush.scan[p]

ScanFresh == \A p \in Paths : flush.scan[p] # 0 => acked[p] <= flush.scan[p]

\* Outside of "up" the mirror has nothing to do.
Asleep ==
  /\ mode # "up" =>
       /\ flush.pc = "off" /\ queue = <<>>
       /\ \A r \in Reqs : req[r].st \in {"new", "over"}
  /\ mode = "boot" => stop = "no"

\* The shutdown has at most one flush in the mirror, and none between its two.
ShutdownTurn ==
  /\ \A i, j \in 1..Len(queue) : queue[i] = Shutdown /\ queue[j] = Shutdown => i = j
  /\ flush.pc # "off" /\ flush.owner = Shutdown =>
       \A i \in 1..Len(queue) : queue[i] # Shutdown
  /\ stop \notin {"flush1", "flush2"} =>
       /\ \A i \in 1..Len(queue) : queue[i] # Shutdown
       /\ flush.pc # "off" => flush.owner # Shutdown

\* The second flush of a shutdown reads every file after the server had closed, and a
\* shutdown that succeeded acknowledges what it read.
LastFlush ==
  /\ stop = "flush2" =>
       /\ \A p \in Paths : closed[p] <= Len(hist[p])
       /\ flush.pc # "off" /\ flush.owner = Shutdown =>
            \A p \in Paths : flush.scan[p] # 0 => closed[p] <= flush.scan[p]
  /\ stop = "stopped" => \A p \in Paths : closed[p] <= acked[p]

MirrorInv ==
  /\ Positions /\ MarksFit /\ QueuePersisted /\ OwnerRead /\ ScanFresh
  /\ Asleep /\ ShutdownTurn /\ LastFlush

-----------------------------------------------------------------------------
(***************************************************************************)
(* What holds between mirror and bridge.  A call writes only what it would *)
(* do no harm to bring back, and goes on doing so after the mirror has     *)
(* given it up; an answer the mirror reads is still true.  What is         *)
(* committed may come back, unless a manifest was misread.                 *)
(***************************************************************************)
Alone == live # NoSlot => \A t \in Slots \ {live} : Free(t)

CallsDurable ==
  misread \/
  \A s \in Slots : ~Free(s) =>
    /\ calls[s].op = "commit" => calls[s].gen \in Durable(calls[s].path)
    /\ calls[s].op = "delete" => Absent \in Durable(calls[s].path)

PutsScanned ==
  live # NoSlot /\ flush.pc = "sync" /\ calls[live].op = "put" =>
    calls[live].gen = Scanned[calls[live].path]

SeenIsNow ==
  live # NoSlot /\ Succeeded("manifest") => calls[live].seen = objects

HydratesNow ==
  live # NoSlot /\ mode = "boot" /\ calls[live].op = "get" => flush.remote = objects

ObjectsDurable == misread \/ \A p \in Paths : objects[p] \in Durable(p)

StoreInv ==
  /\ Alone /\ CallsDurable /\ PutsScanned /\ SeenIsNow /\ HydratesNow
  /\ ObjectsDurable

RestartInv == ServiceInv /\ MirrorInv /\ StoreInv

-----------------------------------------------------------------------------
(***************************************************************************)
(* The mirror's part, action by action.                                    *)
(***************************************************************************)
LEMMA InitMirror == Init => MirrorInv
<1> SUFFICES ASSUME Init PROVE MirrorInv
  OBVIOUS
<1>1. Positions /\ MarksFit /\ ScanFresh
  BY DEF Init, Positions, MarksFit, ScanFresh, NoRequest, NoFlush, NotRead
<1>2. QueuePersisted /\ OwnerRead /\ Asleep /\ ShutdownTurn /\ LastFlush
  BY DEF Init, QueuePersisted, OwnerRead, Asleep, ShutdownTurn, LastFlush, NoRequest, NoFlush
<1> QED
  BY <1>1, <1>2 DEF MirrorInv

\* A step that leaves requests, files and queue, and the flush where it is.
LEMMA QuietMirror ==
  ASSUME MirrorInv, UNCHANGED <<mode, stop, hist, acked, closed, req, queue>>,
         flush'.scan = flush.scan, flush'.owner = flush.owner,
         flush'.pc = "off" <=> flush.pc = "off"
  PROVE  MirrorInv'
<1>1. Positions' /\ MarksFit' /\ ScanFresh'
  BY DEF MirrorInv, Positions, MarksFit, ScanFresh
<1>2. QueuePersisted' /\ OwnerRead'
  BY DEF MirrorInv, QueuePersisted, OwnerRead, Persisted
<1>3. Asleep' /\ ShutdownTurn' /\ LastFlush'
  BY DEF MirrorInv, Asleep, ShutdownTurn, LastFlush
<1> QED
  BY <1>1, <1>2, <1>3 DEF MirrorInv

LEMMA NothingRead ==
  ASSUME ServiceInv
  PROVE  \A p \in Paths : NotRead[p] = 0 /\ Len(hist[p]) \in Nat /\ NotRead[p] <= Len(hist[p])
BY DEF ServiceInv, TypeOK, NotRead

LEMMA BeginMirror == ASSUME NEW r \in Reqs, ServiceInv, MirrorInv, Begin(r) PROVE MirrorInv'
<1>1. UNCHANGED <<mode, stop, hist, acked, closed, queue, flush>> /\ mode = "up"
  BY DEF Begin
<1>2. /\ req[r].st = "new" /\ req'[r].st = "open" /\ req'[r].mark = NotRead
      /\ \A q \in Reqs \ {r} : req'[q] = req[q]
  BY DEF Begin, NoRequest, ServiceInv, TypeOK
<1>3. MarksFit'
  BY <1>1, <1>2, NothingRead DEF MirrorInv, MarksFit
<1>4. QueuePersisted' /\ OwnerRead'
  BY <1>1, <1>2 DEF MirrorInv, QueuePersisted, OwnerRead, Persisted
<1> QED
  BY <1>1, <1>3, <1>4 DEF MirrorInv, Positions, ScanFresh, Asleep, ShutdownTurn, LastFlush

LEMMA ThrowMirror == ASSUME NEW r \in Reqs, ServiceInv, MirrorInv, Throw(r) PROVE MirrorInv'
<1>1. UNCHANGED <<mode, stop, hist, acked, closed, queue, flush>>
  BY DEF Throw
<1>2. /\ req[r].st = "open" /\ req'[r].st = "over" /\ req'[r].mark = NotRead
      /\ \A q \in Reqs \ {r} : req'[q] = req[q]
  BY DEF Throw, Over, NoRequest, ServiceInv, TypeOK
<1>3. MarksFit'
  BY <1>1, <1>2, NothingRead DEF MirrorInv, MarksFit
<1>4. QueuePersisted' /\ OwnerRead'
  BY <1>1, <1>2 DEF MirrorInv, QueuePersisted, OwnerRead, Persisted
<1>5. Asleep' /\ LastFlush'
  BY <1>1, <1>2 DEF MirrorInv, Asleep, LastFlush
<1> QED
  BY <1>1, <1>3, <1>4, <1>5 DEF MirrorInv, Positions, ScanFresh, ShutdownTurn

LEMMA DisconnectMirror ==
  ASSUME NEW r \in Reqs, ServiceInv, MirrorInv, Disconnect(r)
  PROVE  MirrorInv'
<1>1. UNCHANGED <<mode, stop, hist, acked, closed, queue, flush>>
  BY DEF Disconnect
<1>2. \A q \in Reqs : req'[q].st = req[q].st /\ req'[q].mark = req[q].mark
  BY DEF Disconnect, ServiceInv, TypeOK
<1>3. MarksFit' /\ QueuePersisted' /\ OwnerRead'
  BY <1>1, <1>2 DEF MirrorInv, MarksFit, QueuePersisted, OwnerRead, Persisted
<1>4. Asleep'
  BY <1>1, <1>2 DEF MirrorInv, Asleep
<1> QED
  BY <1>1, <1>3, <1>4 DEF MirrorInv, Positions, ScanFresh, ShutdownTurn, LastFlush

LEMMA PersistMirror == ASSUME NEW r \in Reqs, ServiceInv, MirrorInv, Persist(r) PROVE MirrorInv'
<1>1. UNCHANGED <<mode, stop, hist, acked, closed, flush>>
  BY DEF Persist
<1>2. /\ req[r].st = "open" /\ req'[r].st = "waiting" /\ req'[r].mark = req[r].mark
      /\ \A q \in Reqs \ {r} : req'[q] = req[q]
  BY DEF Persist, ServiceInv, TypeOK
<1>3. mode = "up"
  BY <1>2 DEF MirrorInv, Asleep
<1>4. /\ Len(queue') = Len(queue) + 1 /\ queue'[Len(queue) + 1] = r
      /\ Len(queue) \in Nat /\ \A i \in 1..Len(queue) : queue'[i] = queue[i]
  BY DEF Persist, ServiceInv, TypeOK
<1>5. MarksFit'
  BY <1>1, <1>2 DEF MirrorInv, MarksFit
<1>6. QueuePersisted'
  <2> SUFFICES ASSUME NEW i \in 1..Len(queue'), queue'[i] \in Reqs
               PROVE  req'[queue'[i]].st \in {"waiting", "over"}
    BY DEF QueuePersisted, Persisted
  <2>1. CASE i = Len(queue) + 1
    BY <1>2, <1>4, <2>1
  <2>2. CASE i # Len(queue) + 1
    BY <1>2, <1>4, <2>2 DEF MirrorInv, QueuePersisted, Persisted
  <2> QED
    BY <2>1, <2>2
<1>7. OwnerRead'
  BY <1>1, <1>2 DEF MirrorInv, OwnerRead, Persisted
<1>8. ShutdownTurn'
  <2>1. r # Shutdown
    BY ShutdownAssumption
  <2>2. \A i \in 1..Len(queue') : queue'[i] = Shutdown => i \in 1..Len(queue) /\ queue[i] = Shutdown
    BY <1>4, <2>1
  <2> QED
    BY <1>1, <2>2 DEF MirrorInv, ShutdownTurn
<1> QED
  BY <1>1, <1>3, <1>5, <1>6, <1>7, <1>8 DEF MirrorInv, Positions, ScanFresh, Asleep, LastFlush

\* What a write does to the files: one of them has one more content.
Grows ==
  \A p \in Paths : Len(hist[p]) <= Len(hist'[p])
                   /\ \A i \in 1..Len(hist[p]) : hist'[p][i] = hist[p][i]

LEMMA WriteGrows ==
  ASSUME NEW r \in Reqs, NEW p \in Paths, ServiceInv, Write(r, p)
  PROVE  /\ Grows /\ Len(hist'[p]) = Len(hist[p]) + 1
         /\ \A q \in Paths \ {p} : hist'[q] = hist[q]
<1>1. PICK c \in Gens : hist' = [hist EXCEPT ![p] = Append(hist[p], c)]
  BY DEF Write
<1>2. \A q \in Paths : hist[q] \in Seq(Gens)
  BY DEF ServiceInv, TypeOK
<1>3. hist'[p] = Append(hist[p], c) /\ \A q \in Paths \ {p} : hist'[q] = hist[q]
  BY <1>1 DEF ServiceInv, TypeOK
<1> QED
  BY <1>2, <1>3 DEF Grows

LEMMA WriteMirror ==
  ASSUME NEW r \in Reqs, NEW p \in Paths, ServiceInv, ServiceInv', MirrorInv, Write(r, p)
  PROVE  MirrorInv'
<1>1. UNCHANGED <<mode, stop, acked, closed, queue, flush>> /\ Grows
      /\ Len(hist'[p]) = Len(hist[p]) + 1
  BY WriteGrows DEF Write
<1>2. /\ req[r].st = "open" /\ req'[r].st = "open"
      /\ req'[r].mark = [req[r].mark EXCEPT ![p] = Len(hist[p]) + 1]
      /\ \A q \in Reqs \ {r} : req'[q] = req[q]
  BY DEF Write, ServiceInv, TypeOK
<1>3. \A q \in Paths : /\ Len(hist[q]) \in Nat /\ Len(hist'[q]) \in Nat /\ acked[q] \in Nat
                       /\ closed[q] \in Nat
                       /\ \A t \in Reqs : req[t].mark[q] \in Nat
  <2>1. \A q \in Paths : Len(hist[q]) \in Nat /\ acked[q] \in Nat /\ closed[q] \in Nat
    BY DEF ServiceInv, TypeOK
  <2>2. \A q \in Paths : Len(hist'[q]) \in Nat
    BY DEF ServiceInv, TypeOK
  <2>3. \A t \in Reqs : req[t].mark \in [Paths -> Nat]
    BY DEF ServiceInv, TypeOK
  <2> QED
    BY <2>1, <2>2, <2>3
<1>4. mode = "up"
  BY <1>2 DEF MirrorInv, Asleep
<1>a. LastFlush'
  BY <1>1, <1>3 DEF MirrorInv, LastFlush, Grows
<1>5. Positions'
  BY <1>1, <1>3 DEF MirrorInv, Positions, Grows
<1>6. MarksFit'
  <2> SUFFICES ASSUME NEW t \in Reqs
               PROVE  /\ \A q \in Paths : req'[t].mark[q] <= Len(hist'[q])
                      /\ req'[t].st \in {"new", "over"} => req'[t].mark = NotRead
    BY DEF MarksFit
  <2>1. CASE t = r
    <3>1. \A q \in Paths : req'[r].mark[q] = IF q = p THEN Len(hist[p]) + 1 ELSE req[r].mark[q]
      BY <1>2 DEF ServiceInv, TypeOK
    <3>2. \A q \in Paths : req'[r].mark[q] <= Len(hist'[q])
      BY <1>1, <1>3, <3>1 DEF MirrorInv, MarksFit, Grows
    <3> QED
      BY <1>2, <2>1, <3>2
  <2>2. CASE t # r
    BY <1>1, <1>2, <1>3, <2>2 DEF MirrorInv, MarksFit, Grows
  <2> QED
    BY <2>1, <2>2
<1>7. QueuePersisted' /\ OwnerRead'
  BY <1>1, <1>2 DEF MirrorInv, QueuePersisted, OwnerRead, Persisted
<1> QED
  BY <1>1, <1>4, <1>a, <1>5, <1>6, <1>7 DEF MirrorInv, ScanFresh, Asleep, ShutdownTurn

LEMMA StartFlushMirror ==
  ASSUME NEW s \in Slots, ServiceInv, MirrorInv, StartFlush(s)
  PROVE  MirrorInv'
<1>1. UNCHANGED <<mode, stop, hist, acked, closed, misread, req>> /\ mode = "up" /\ flush.pc = "off"
  BY DEF StartFlush
<1>2. flush'.pc = "scan" /\ flush'.owner = queue[1] /\ flush'.scan = NotRead
  BY DEF StartFlush, NoFlush
<1>3. /\ Len(queue) \in Nat /\ Len(queue) > 0 /\ Len(queue') = Len(queue) - 1
      /\ \A i \in 1..Len(queue') : queue'[i] = queue[i + 1] /\ i + 1 \in 1..Len(queue)
  BY DEF StartFlush, ServiceInv, TypeOK
<1>4. QueuePersisted' /\ OwnerRead'
  BY <1>1, <1>2, <1>3 DEF MirrorInv, QueuePersisted, OwnerRead, Persisted, NotRead
<1>5. ShutdownTurn'
  <2>1. \A i, j \in 1..Len(queue') : queue'[i] = Shutdown /\ queue'[j] = Shutdown => i = j
    BY <1>3 DEF MirrorInv, ShutdownTurn
  <2>2. flush'.owner = Shutdown => \A i \in 1..Len(queue') : queue'[i] # Shutdown
    <3>1. 1 \in 1..Len(queue)
      BY <1>3
    <3>2. \A i \in 1..Len(queue') : i + 1 # 1
      BY <1>3
    <3> QED
      BY <1>2, <1>3, <3>1, <3>2 DEF MirrorInv, ShutdownTurn
  <2> QED
    BY <1>1, <1>2, <1>3, <2>1, <2>2 DEF MirrorInv, ShutdownTurn
<1>6. LastFlush' /\ ScanFresh'
  BY <1>1, <1>2 DEF MirrorInv, LastFlush, ScanFresh, NotRead
<1> QED
  BY <1>1, <1>4, <1>5, <1>6 DEF MirrorInv, Positions, MarksFit, Asleep

LEMMA ScanMirror ==
  ASSUME ServiceInv, MirrorInv, ListFiles \/ ReadFile
  PROVE  MirrorInv'
<1>1. /\ UNCHANGED <<mode, stop, hist, acked, closed, misread, req, queue>>
      /\ flush.pc = "scan" /\ flush'.pc = "scan" /\ flush'.owner = flush.owner
  BY DEF ListFiles, ReadFile, ServiceInv, TypeOK
<1>2. \A p \in Paths : flush'.scan[p] \in {0, Len(hist[p]), flush.scan[p]}
  <2>1. CASE ListFiles
    BY <2>1 DEF ListFiles, ServiceInv, TypeOK
  <2>2. CASE ReadFile
    BY <2>2 DEF ReadFile, First, Unread, ServiceInv, TypeOK
  <2> QED
    BY <2>1, <2>2
<1>3. OwnerRead'
  BY <1>1, <1>2 DEF MirrorInv, OwnerRead, Persisted, MarksFit
<1>4. ScanFresh' /\ LastFlush'
  BY <1>1, <1>2 DEF MirrorInv, ScanFresh, LastFlush, Positions
<1> QED
  BY <1>1, <1>3, <1>4 DEF MirrorInv, Positions, MarksFit, QueuePersisted, Persisted, Asleep,
                          ShutdownTurn

LEMMA SignalMirror == ASSUME ServiceInv, MirrorInv, Sigterm \/ Closed PROVE MirrorInv'
<1>1. UNCHANGED <<mode, hist, acked, req, flush>> /\ mode = "up"
  BY DEF Sigterm, Closed
<1>2. /\ stop \in {"no", "closing"} /\ stop' \in {"flush1", "flush2"}
      /\ stop' = "flush2" => \A p \in Paths : closed'[p] = Len(hist[p])
  BY DEF Sigterm, Closed
<1>3. /\ Len(queue') = Len(queue) + 1 /\ queue'[Len(queue) + 1] = Shutdown
      /\ Len(queue) \in Nat /\ \A i \in 1..Len(queue) : queue'[i] = queue[i]
  <2>1. queue' = Append(queue, Shutdown)
    BY DEF Sigterm, Closed
  <2>2. queue \in Seq(Reqs \cup {Shutdown})
    BY DEF ServiceInv, TypeOK
  <2> QED
    BY <2>1, <2>2
<1>4. /\ \A i \in 1..Len(queue) : queue[i] # Shutdown
      /\ flush.pc # "off" => flush.owner # Shutdown
  BY <1>2 DEF MirrorInv, ShutdownTurn
<1>5. \A i \in 1..Len(queue') : \/ i \in 1..Len(queue) /\ queue'[i] = queue[i]
                                \/ i = Len(queue) + 1 /\ queue'[i] = Shutdown
  BY <1>3
<1>6. ShutdownTurn'
  BY <1>1, <1>2, <1>4, <1>5 DEF ShutdownTurn
<1>7. QueuePersisted'
  BY <1>1, <1>5, ShutdownAssumption DEF MirrorInv, QueuePersisted, Persisted
<1>8. LastFlush'
  BY <1>1, <1>2, <1>4, NothingRead DEF LastFlush
<1> QED
  BY <1>1, <1>6, <1>7, <1>8 DEF MirrorInv, Positions, MarksFit, OwnerRead, Persisted, ScanFresh,
                                Asleep

\* The process ends.
LEMMA HaltMirror ==
  ASSUME ServiceInv, MirrorInv, NEW st \in {"no", "stopped", "unsynced"}, st \in {"no", stop},
         Halt(st), flush'.pc = "off",
         \A p \in Paths : flush'.scan[p] # 0 => flush' = flush
  PROVE  MirrorInv'
<1>1. /\ mode' = "down" /\ queue' = <<>> /\ stop' = st /\ UNCHANGED <<hist, acked>>
      /\ st # "no" => closed' = closed
  BY DEF Halt
<1>2. ScanFresh'
  BY <1>1 DEF MirrorInv, ScanFresh
<1>3. \A r \in Reqs : \/ req'[r].st = "over" /\ req'[r].mark = NotRead
                      \/ req'[r] = req[r] /\ req[r].st \in {"new", "over"}
  BY DEF Halt, Over, NoRequest, ServiceInv, TypeOK, RequestStates
<1>4. MarksFit'
  BY <1>1, <1>3, NothingRead DEF MirrorInv, MarksFit
<1>5. Asleep' /\ LastFlush'
  BY <1>1, <1>3 DEF MirrorInv, Asleep, LastFlush
<1> QED
  BY <1>1, <1>2, <1>4, <1>5 DEF MirrorInv, Positions, QueuePersisted, OwnerRead, ShutdownTurn

\* The flush that runs is over, and answers its owner.
LEMMA EndFlushMirror ==
  ASSUME ServiceInv, ServiceInv', MirrorInv, NEW ok \in BOOLEAN, EndFlush(ok), flush.pc # "off"
  PROVE  MirrorInv'
<1> DEFINE r == flush.owner
<1>1. /\ flush'.pc = "off" /\ flush'.scan = NotRead /\ mode = "up"
      /\ UNCHANGED <<mode, hist, closed, queue>>
  BY EndFlushCases DEF NoFlush, MirrorInv, Asleep
<1>2. OwnerRead' /\ ScanFresh'
  BY <1>1, NothingRead DEF OwnerRead, ScanFresh
<1>3. /\ acked \in [Paths -> Nat] /\ closed \in [Paths -> Nat]
      /\ \A q \in Reqs : req[q].mark \in [Paths -> Nat]
      /\ \A p \in Paths : Len(hist[p]) \in Nat
  BY DEF ServiceInv, TypeOK
<1>4. CASE /\ r \in Reqs /\ req' = [req EXCEPT ![r] = Over] /\ stop' = stop
           /\ acked' = IF ok THEN Later(req[r].mark, acked) ELSE acked
  <2>1. /\ req'[r].st = "over" /\ req'[r].mark = NotRead
        /\ \A q \in Reqs \ {r} : req'[q] = req[q]
    BY <1>4 DEF Over, NoRequest, ServiceInv, TypeOK
  <2>2. \A p \in Paths : /\ acked'[p] \in {req[r].mark[p], acked[p]} /\ acked[p] <= acked'[p]
                         /\ acked'[p] \in Nat
    <3>1. CASE ok
      <4>1. acked' = Later(req[r].mark, acked)
        BY <1>4, <3>1
      <4>2. req[r].mark \in [Paths -> Nat]
        BY <1>3, <1>4
      <4> QED
        BY <1>3, <4>1, <4>2, LaterTyped
    <3>2. CASE ~ok
      BY <1>3, <1>4, <3>2
    <3> QED
      BY <3>1, <3>2
  <2>3. Positions' /\ LastFlush'
    <3>1. \A p \in Paths : req[r].mark[p] <= Len(hist[p])
      BY <1>4 DEF MirrorInv, MarksFit
    <3> QED
      BY <1>1, <1>3, <1>4, <2>2, <3>1 DEF MirrorInv, Positions, LastFlush
  <2>4. MarksFit'
    BY <1>1, <1>4, <2>1, NothingRead DEF MirrorInv, MarksFit
  <2>5. QueuePersisted' /\ Asleep' /\ ShutdownTurn'
    BY <1>1, <1>4, <2>1 DEF MirrorInv, QueuePersisted, Persisted, Asleep, ShutdownTurn
  <2> QED
    BY <1>2, <2>3, <2>4, <2>5 DEF MirrorInv
<1>5. CASE /\ r = Shutdown /\ stop = "flush1" /\ stop' \in {"closing", "failed"}
           /\ UNCHANGED <<acked, req>>
  <2>1. Positions' /\ MarksFit' /\ QueuePersisted' /\ Asleep'
    BY <1>1, <1>5 DEF MirrorInv, Positions, MarksFit, QueuePersisted, Persisted, Asleep
  <2>2. ShutdownTurn' /\ LastFlush'
    BY <1>1, <1>5 DEF MirrorInv, ShutdownTurn, LastFlush
  <2> QED
    BY <1>2, <2>1, <2>2 DEF MirrorInv
<1>6. CASE /\ r = Shutdown /\ stop = "flush2" /\ req' = req
           /\ stop' = IF ok THEN "stopped" ELSE "unsynced"
           /\ acked' = IF ok THEN Later(closed, acked) ELSE acked
  <2>1. /\ \A p \in Paths : /\ acked'[p] \in {closed[p], acked[p]} /\ acked[p] <= acked'[p]
                             /\ acked'[p] \in Nat
        /\ stop' = "stopped" => \A p \in Paths : closed[p] <= acked'[p]
    <3>1. CASE ok
      BY <1>3, <1>6, <3>1, LaterTyped
    <3>2. CASE ~ok
      BY <1>3, <1>6, <3>2
    <3> QED
      BY <3>1, <3>2
  <2>2. Positions' /\ LastFlush'
    BY <1>1, <1>3, <1>6, <2>1 DEF MirrorInv, Positions, LastFlush
  <2>3. MarksFit' /\ QueuePersisted' /\ Asleep' /\ ShutdownTurn'
    BY <1>1, <1>6 DEF MirrorInv, MarksFit, QueuePersisted, Persisted, Asleep, ShutdownTurn
  <2> QED
    BY <1>2, <2>2, <2>3 DEF MirrorInv
<1> QED
  BY <1>4, <1>5, <1>6, EndFlushCases

LEMMA BootMirror == ASSUME NEW s \in Slots, ServiceInv, MirrorInv, Boot(s) PROVE MirrorInv'
<1>1. /\ mode = "down" /\ mode' = "boot" /\ stop' = "no"
      /\ UNCHANGED <<hist, acked, req, queue, flush>>
  BY DEF Boot
<1>2. flush.pc = "off" /\ queue = <<>>
  BY <1>1 DEF MirrorInv, Asleep
<1> QED
  BY <1>1, <1>2 DEF MirrorInv, Positions, MarksFit, QueuePersisted, Persisted, OwnerRead, ScanFresh,
                    Asleep, ShutdownTurn, LastFlush

LEMMA SwapMirror ==
  ASSUME ServiceInv, MirrorInv, NEW after, NEW manifest, NEW wrong, mode = "boot",
         Swap(after, manifest, wrong), UNCHANGED <<stop, closed, req, queue>>
  PROVE  MirrorInv'
<1>1. /\ mode' = "up" /\ flush' = NoFlush
      /\ \A p \in Paths : hist'[p] = <<manifest[p]>> /\ acked'[p] = 1
  BY DEF Swap
<1>2. flush'.pc = "off" /\ flush'.scan = NotRead
  BY <1>1 DEF NoFlush
<1>3. /\ queue = <<>> /\ stop = "no"
      /\ \A r \in Reqs : req[r].st \in {"new", "over"} /\ req[r].mark = NotRead
  BY DEF MirrorInv, Asleep, MarksFit
<1>4. Positions'
  <2>1. \A p \in Paths : Len(hist'[p]) = 1
    BY <1>1
  <2>2. \A p \in Paths : acked'[p] = 1
    BY <1>1
  <2>3. \A p \in Paths : acked'[p] <= Len(hist'[p])
    BY <2>1, <2>2
  <2> QED
    BY <2>1, <2>2, <2>3 DEF Positions
<1>a. ScanFresh'
  BY <1>2, NothingRead DEF ScanFresh
<1>5. MarksFit'
  BY <1>1, <1>3, NothingRead DEF MarksFit
<1>6. ShutdownTurn' /\ QueuePersisted' /\ OwnerRead'
  BY <1>2, <1>3 DEF ShutdownTurn, QueuePersisted, OwnerRead
<1>7. Asleep' /\ LastFlush'
  BY <1>1, <1>3 DEF Asleep, LastFlush
<1> QED
  BY <1>4, <1>a, <1>5, <1>6, <1>7 DEF MirrorInv

-----------------------------------------------------------------------------
(***************************************************************************)
(* Versions a restart may come back with.                                  *)
(***************************************************************************)
LEMMA DurableVersion ==
  ASSUME TypeOK, NEW p \in Paths, NEW i \in Nat, acked[p] <= i, i <= Len(hist[p])
  PROVE  hist[p][i] \in Durable(p)
BY DEF Durable, TypeOK

\* They stay while the file grows and nothing is acknowledged.
LEMMA DurableKept ==
  ASSUME TypeOK, TypeOK', Positions, Grows, UNCHANGED acked, NEW p \in Paths
  PROVE  Durable(p) \subseteq Durable(p)'
<1>1. SUFFICES ASSUME NEW i \in acked[p]..Len(hist[p]) PROVE hist[p][i] \in Durable(p)'
  BY DEF Durable
<1>2. acked[p] \in Nat /\ Len(hist[p]) \in Nat /\ Len(hist'[p]) \in Nat
  BY DEF TypeOK
<1>3. i \in 1..Len(hist[p]) /\ i \in acked'[p]..Len(hist'[p])
  BY <1>2 DEF Positions, Grows
<1>4. hist'[p][i] = hist[p][i]
  BY <1>3 DEF Grows
<1> QED
  BY <1>3, <1>4 DEF Durable

\* What a scan read of a file may come back.
LEMMA ScannedDurable ==
  ASSUME ServiceInv, MirrorInv, NEW p \in Paths, flush.scan[p] # 0
  PROVE  Scanned[p] \in Durable(p)
<1>1. /\ flush.scan[p] \in Nat /\ acked[p] <= flush.scan[p]
      /\ flush.scan[p] <= Len(hist[p])
  BY DEF ServiceInv, TypeOK, ScanInHist, MirrorInv, ScanFresh
<1>2. TypeOK /\ Scanned[p] = hist[p][flush.scan[p]]
  BY DEF ServiceInv, Scanned
<1> QED
  BY <1>1, <1>2, DurableVersion

-----------------------------------------------------------------------------
(***************************************************************************)
(* The part between mirror and bridge, by the kind of step.                *)
(***************************************************************************)
LEMMA InitStore == Init => StoreInv
<1> SUFFICES ASSUME Init PROVE StoreInv
  OBVIOUS
<1>1. \A s \in Slots : Free(s)
  BY NoCallTyped DEF Init, BridgeInit, Free
<1>2. ObjectsDurable
  <2> SUFFICES ASSUME NEW p \in Paths PROVE objects[p] \in Durable(p)
    BY DEF ObjectsDurable
  <2>1. hist[p] = <<Absent>> /\ acked[p] = 1 /\ objects[p] = Absent
    BY DEF Init, BridgeInit, NoObjects
  <2>2. 1 \in acked[p]..Len(hist[p]) /\ hist[p][1] = Absent
    BY <2>1
  <2> QED
    BY <2>1, <2>2 DEF Durable
<1> QED
  BY <1>1, <1>2 DEF Init, StoreInv, Alone, CallsDurable, PutsScanned, SeenIsNow, HydratesNow

\* Requests, the reading of files and signals: no call is sent or answered.
LEMMA IdleStore ==
  ASSUME ServiceInv, ServiceInv', MirrorInv, StoreInv,
         UNCHANGED <<bridgeVars, live, mode, acked, misread>>, Grows,
         flush' = flush \/ (flush.pc = "scan" /\ flush'.pc = "scan")
  PROVE  StoreInv'
<1>0. UNCHANGED <<objects, chunks, calls>>
  BY DEF bridgeVars
<1>1. \A s \in Slots : Free(s)' <=> Free(s)
  BY <1>0 DEF Free
<1>2. \A p \in Paths : Durable(p) \subseteq Durable(p)'
  BY DurableKept DEF ServiceInv, MirrorInv
<1>3. Alone' /\ SeenIsNow'
  BY <1>0, <1>1 DEF StoreInv, Alone, SeenIsNow, Succeeded, Answered
<1>4. CallsDurable'
  <2>1. \A s \in Slots : calls[s].op \in {"commit", "delete"} => calls[s].path \in Paths
    BY DEF ServiceInv, Arguments
  <2> QED
    BY <1>0, <1>1, <1>2, <2>1 DEF StoreInv, CallsDurable
<1>5. PutsScanned'
  <2> SUFFICES ASSUME live # NoSlot, flush'.pc = "sync", calls[live].op = "put"
               PROVE  calls[live].gen = Scanned'[calls[live].path]
    BY <1>0 DEF PutsScanned
  <2> DEFINE p == calls[live].path
  <2>1. flush' = flush
    OBVIOUS
  <2>2. p \in Paths
    BY LiveSlot DEF ServiceInv, Arguments
  <2>3. flush.scan[p] \in 1..Len(hist[p])
    BY <2>1, <2>2 DEF ServiceInv, ScanInHist, ScanComplete, TypeOK
  <2>4. Scanned'[p] = Scanned[p]
    BY <2>1, <2>2, <2>3 DEF Scanned, Grows
  <2> QED
    BY <2>1, <2>4 DEF StoreInv, PutsScanned
<1>6. HydratesNow'
  BY <1>0 DEF StoreInv, HydratesNow, MirrorInv, Asleep
<1>7. ObjectsDurable'
  BY <1>0, <1>2 DEF StoreInv, ObjectsDurable
<1> QED
  BY <1>3, <1>4, <1>5, <1>6, <1>7 DEF StoreInv

\* A call is sent: the bridge was free, and what it writes may come back.
LEMMA SendStore ==
  ASSUME Serial, ServiceInv, ServiceInv', StoreInv, UNCHANGED <<hist, acked, misread>>,
         NEW s \in Slots, NEW c \in Requests, SendAs(s, c),
         c.op = "commit" => c.gen \in Durable(c.path),
         c.op = "delete" => Absent \in Durable(c.path),
         c.op = "put" /\ flush'.pc = "sync" => c.gen = Scanned'[c.path],
         c.op = "get" /\ mode' = "boot" => flush'.remote = objects
  PROVE  StoreInv'
<1>1. \A t \in Slots : Free(t)
  BY DEF SendAs, Send, OthersFree
<1>2. /\ live' = s /\ live' # NoSlot /\ calls'[s] = c /\ c.pc = "start" /\ UNCHANGED objects
      /\ \A t \in Slots \ {s} : calls'[t] = NoCall
  BY <1>1, RequestTyped, NoSlotAssumption DEF SendAs, Send
<1>3. \A t \in Slots \ {s} : Free(t)'
  BY <1>2, NoCallTyped DEF Free
<1>4. \A p : Durable(p)' = Durable(p)
  BY DEF Durable
<1>5. Alone' /\ CallsDurable'
  BY <1>2, <1>3, <1>4 DEF Alone, CallsDurable
<1>6. PutsScanned' /\ HydratesNow'
  BY <1>2 DEF PutsScanned, HydratesNow
<1>7. SeenIsNow'
  BY <1>2 DEF SeenIsNow, Succeeded, Answered
<1>8. ObjectsDurable'
  BY <1>2, <1>4 DEF StoreInv, ObjectsDurable
<1> QED
  BY <1>5, <1>6, <1>7, <1>8 DEF StoreInv

\* An answer is consumed, or the mirror no longer awaits it.
LEMMA DropStore ==
  ASSUME ServiceInv, StoreInv, UNCHANGED <<objects, hist, acked, misread>>, live' = NoSlot,
         \A t \in Slots : calls'[t] = calls[t] \/ Free(t)'
  PROVE  StoreInv'
<1>1. \A p : Durable(p)' = Durable(p)
  BY DEF Durable
<1>2. CallsDurable'
  BY <1>1 DEF StoreInv, CallsDurable, Free
<1> QED
  BY <1>1, <1>2 DEF StoreInv, Alone, PutsScanned, SeenIsNow, HydratesNow, ObjectsDurable

LEMMA ReleaseFrees ==
  ASSUME ServiceInv, live \in Slots, Release(live)
  PROVE  /\ UNCHANGED objects
         /\ \A t \in Slots : Free(t)' \/ (t # live /\ calls'[t] = calls[t])
<1>1. calls \in [Slots -> Calls] /\ calls' = [calls EXCEPT ![live] = NoCall]
  BY DEF Release, ServiceInv, TypeOK, BridgeTypeOK
<1>2. \A t \in Slots : calls'[t] = IF t = live THEN NoCall ELSE calls[t]
  BY <1>1
<1> QED
  BY <1>2, NoCallTyped DEF Free, Release

\* What a statement does to the rows, and what a manifest answers.
LEMMA HandleEffect ==
  ASSUME NEW s \in Slots, BridgeTypeOK, Arguments, Handle(s)
  PROVE  /\ ~Free(s)
         /\ \/ UNCHANGED objects
            \/ /\ calls[s].op = "commit"
               /\ objects' = [objects EXCEPT ![calls[s].path] = calls[s].gen]
            \/ /\ calls[s].op = "delete"
               /\ objects' = [objects EXCEPT ![calls[s].path] = Absent]
         /\ calls[s].op = "manifest" =>
              /\ UNCHANGED objects
              /\ calls'[s].ok => calls'[s].seen = objects
<1>1. CASE Manifest(s)
  <2>1. ~Free(s) /\ UNCHANGED objects
    BY <1>1 DEF Manifest, At, Free
  <2>2. CASE calls' = [calls EXCEPT ![s].pc = "done", ![s].seen = objects]
    <3>1. calls'[s].seen = objects
      BY <2>2 DEF BridgeTypeOK, Calls
    <3> QED
      BY <2>1, <3>1
  <2>3. CASE Reply(s, FALSE)
    <3>1. calls'[s].ok = FALSE
      BY <2>3 DEF Reply, BridgeTypeOK, Calls
    <3> QED
      BY <2>1, <3>1
  <2> QED
    BY <1>1, <2>2, <2>3 DEF Manifest
<1>2. CASE Status(s) \/ PutChunk(s) \/ CommitSelect(s) \/ CommitSweep(s) \/ GetRow(s)
           \/ GetRead(s) \/ DeleteChunks(s)
  BY <1>2 DEF Status, PutChunk, CommitSelect, CommitSweep, GetRow, GetRead, DeleteChunks, At, Free
<1>3. CASE CommitUpsert(s)
  <2> DEFINE moved == [objects EXCEPT ![calls[s].path] = calls[s].gen]
  <2>1. PICK fails \in BOOLEAN : objects' \in Applied(fails, moved, objects)
    BY <1>3 DEF CommitUpsert
  <2>2. objects' \in {moved, objects}
    <3> HIDE DEF moved
    <3> QED
      BY <2>1 DEF Applied
  <2> QED
    BY <1>3, <2>2 DEF CommitUpsert, At, Free
<1>4. CASE DeleteRow(s)
  BY <1>4 DEF DeleteRow, At, Free
<1> QED
  BY <1>1, <1>2, <1>3, <1>4 DEF Handle

LEMMA HandleStore ==
  ASSUME ServiceInv, StoreInv, NEW s \in Slots, Handle(s), UNCHANGED clientVars
  PROVE  StoreInv'
<1>0. UNCHANGED <<mode, stop, hist, acked, misread, flush, live>>
  BY DEF clientVars
<1>1. /\ \A t \in Slots : /\ calls'[t].op = calls[t].op
                          /\ calls'[t].path = calls[t].path
                          /\ calls'[t].gen = calls[t].gen
      /\ \A t \in Slots \ {s} : calls'[t] = calls[t]
  BY HandleTyped DEF ServiceInv, TypeOK, HandlerFrame
<1>2. /\ ~Free(s)
      /\ \/ UNCHANGED objects
         \/ /\ calls[s].op = "commit"
            /\ objects' = [objects EXCEPT ![calls[s].path] = calls[s].gen]
         \/ /\ calls[s].op = "delete"
            /\ objects' = [objects EXCEPT ![calls[s].path] = Absent]
      /\ calls[s].op = "manifest" =>
           /\ UNCHANGED objects
           /\ calls'[s].ok => calls'[s].seen = objects
  BY HandleEffect DEF ServiceInv, TypeOK
<1>3. /\ \A t \in Slots : Free(t) => Free(t)'
      /\ live # NoSlot => live = s
  BY <1>1, <1>2, LiveSlot DEF Free, StoreInv, Alone
<1>4. \A p : Durable(p)' = Durable(p)
  BY <1>0 DEF Durable
<1>5. Alone'
  BY <1>0, <1>3 DEF StoreInv, Alone
<1>6. CallsDurable'
  BY <1>0, <1>1, <1>3, <1>4 DEF StoreInv, CallsDurable
<1>7. PutsScanned'
  BY <1>0, <1>1, <1>3 DEF StoreInv, PutsScanned, Scanned
<1>8. SeenIsNow'
  BY <1>0, <1>1, <1>2, <1>3 DEF SeenIsNow, Succeeded, Answered
<1>9. HydratesNow'
  BY <1>0, <1>1, <1>2, <1>3 DEF StoreInv, HydratesNow
<1>10. ObjectsDurable'
  <2> SUFFICES ASSUME ~misread, NEW p \in Paths PROVE objects'[p] \in Durable(p)
    BY <1>0, <1>4 DEF ObjectsDurable
  <2>1. objects[p] \in Durable(p) /\ objects \in [Paths -> Gens]
    BY DEF StoreInv, ObjectsDurable, ServiceInv, TypeOK, BridgeTypeOK
  <2>2. CASE calls[s].op = "commit"
    <3>1. calls[s].gen \in Durable(calls[s].path)
      BY <1>2, <2>2 DEF StoreInv, CallsDurable
    <3> QED
      BY <1>2, <2>1, <2>2, <3>1
  <2>3. CASE calls[s].op = "delete"
    <3>1. Absent \in Durable(calls[s].path)
      BY <1>2, <2>3 DEF StoreInv, CallsDurable
    <3> QED
      BY <1>2, <2>1, <2>3, <3>1
  <2> QED
    BY <1>2, <2>1, <2>2, <2>3
<1> QED
  BY <1>5, <1>6, <1>7, <1>8, <1>9, <1>10 DEF StoreInv

-----------------------------------------------------------------------------
(***************************************************************************)
(* The actions of the mirror, with both parts.                             *)
(***************************************************************************)
LEMMA StartFlushRestart ==
  ASSUME Serial, RestartInv, ServiceInv', NEW s \in Slots, StartFlush(s)
  PROVE  MirrorInv' /\ StoreInv'
<1> DEFINE c == Call("manifest", 0, Absent, 0)
<1>1. /\ SendAs(s, c) /\ UNCHANGED <<hist, acked, misread>>
      /\ c \in Requests /\ c.op = "manifest"
  BY WellFormed DEF StartFlush, Call
<1>2. StoreInv'
  <2> HIDE DEF c
  <2> QED
    BY <1>1, SendStore DEF RestartInv
<1> QED
  BY <1>2, StartFlushMirror DEF RestartInv

\* The next call of a flush, once every file was read.
LEMMA ProceedRestart ==
  ASSUME Serial, RestartInv, ServiceInv', NEW s \in Slots, NEW remote, Proceed(s, remote),
         flush.pc # "off", \A p \in Paths : flush.scan[p] # 0
  PROVE  MirrorInv' /\ StoreInv'
<1>1. /\ UNCHANGED <<mode, stop, hist, acked, closed, misread, req, queue>>
      /\ flush'.scan = flush.scan /\ flush'.owner = flush.owner /\ flush'.pc \in {"sync", "verify"}
  BY DEF Proceed, RestartInv, ServiceInv, TypeOK
<1>2. MirrorInv'
  BY <1>1, QuietMirror DEF RestartInv
<1>3. mode = "up"
  BY DEF RestartInv, MirrorInv, Asleep
<1>4. \A p \in Paths : Scanned'[p] = Scanned[p] /\ Scanned[p] \in Durable(p)
  BY <1>1, ScannedDurable DEF RestartInv, Scanned
<1>5. CASE Upload(s, remote)
  <2>1. PICK p \in Uploads(remote) : SendAs(s, Call("put", p, Scanned[p], 0))
    BY <1>5 DEF Upload, First
  <2>2. p \in Paths /\ Scanned[p] \in Contents
    <3>1. Scanned \in [Paths -> Gens]
      BY DEF RestartInv, ServiceInv, TypeOK, ScanInHist, Scanned
    <3> QED
      BY <3>1 DEF Uploads, Gens
  <2> DEFINE c == Call("put", p, Scanned[p], 0)
  <2>3. c \in Requests
    BY <2>2, WellFormed, ChunkCountAssumption
  <2>4. c.op = "put" /\ c.gen = Scanned[p] /\ c.path = p
    BY DEF Call
  <2> HIDE DEF c
  <2> QED
    BY <1>1, <1>2, <1>3, <1>4, <2>1, <2>2, <2>3, <2>4, SendStore DEF RestartInv, c
<1>6. CASE Purge(s, remote)
  <2>1. PICK p \in Paths : SendAs(s, Call("delete", p, Absent, 0)) /\ Scanned[p] = Absent
    BY <1>6 DEF Purge, First, Stale
  <2> DEFINE c == Call("delete", p, Absent, 0)
  <2>2. c \in Requests /\ c.op = "delete" /\ c.path = p
    BY WellFormed DEF Call
  <2>3. Absent \in Durable(p)
    BY <1>4, <2>1
  <2> HIDE DEF c
  <2> QED
    BY <1>1, <1>2, <1>3, <2>1, <2>2, <2>3, SendStore DEF RestartInv, c
<1>7. CASE Verify(s, remote)
  <2> DEFINE c == Call("manifest", 0, Absent, 0)
  <2>1. SendAs(s, c) /\ c \in Requests /\ c.op = "manifest"
    BY <1>7, WellFormed DEF Verify, Call
  <2> HIDE DEF c
  <2> QED
    BY <1>1, <1>2, <1>3, <2>1, SendStore DEF RestartInv
<1> QED
  BY <1>5, <1>6, <1>7 DEF Proceed

LEMMA SyncRestart ==
  ASSUME Serial, RestartInv, ServiceInv',
         DeleteAnswered \/ CommitAnswered \/ \E s \in Slots : Diff(s)
  PROVE  MirrorInv' /\ StoreInv'
<1>1. CASE DeleteAnswered \/ CommitAnswered
  <2>1. live \in Slots /\ flush.pc = "sync" /\ \A p \in Paths : flush.scan[p] # 0
    BY <1>1, AnsweredCall DEF DeleteAnswered, CommitAnswered, RestartInv, ServiceInv, ScanComplete
  <2> QED
    BY <1>1, <2>1, ProceedRestart DEF DeleteAnswered, CommitAnswered
<1>2. ASSUME NEW s \in Slots, Diff(s) PROVE MirrorInv' /\ StoreInv'
  BY <1>2, ProceedRestart DEF Diff, Unread
<1> QED
  BY <1>1, <1>2

LEMMA PutAnsweredRestart ==
  ASSUME Serial, RestartInv, ServiceInv', PutAnswered
  PROVE  MirrorInv' /\ StoreInv'
<1> DEFINE c == calls[live]
<1>1. /\ live \in Slots /\ live # NoSlot /\ c.op = "put" /\ flush.pc = "sync"
      /\ c.path \in Paths /\ c.gen \in Contents /\ c.idx \in Nat
      /\ UNCHANGED <<mode, stop, hist, acked, closed, misread, req, queue, flush>>
  BY AnsweredCall DEF PutAnswered, Succeeded, Answered, Calls, RestartInv
<1>2. MirrorInv'
  BY <1>1, QuietMirror DEF RestartInv
<1>3. mode = "up"
  BY <1>1 DEF RestartInv, MirrorInv, Asleep
<1>4. /\ c.gen = Scanned[c.path] /\ Scanned' = Scanned
      /\ Scanned[c.path] \in Durable(c.path)
  BY <1>1, ScannedDurable DEF RestartInv, StoreInv, PutsScanned, Scanned, ServiceInv, ScanComplete
<1>5. CASE c.idx + 1 < ChunkCount[c.gen]
  <2> DEFINE next == Call("put", c.path, c.gen, c.idx + 1)
  <2>1. SendAs(live, next)
    BY <1>5 DEF PutAnswered
  <2>2. next \in Requests
    BY <1>1, <1>5, WellFormed
  <2>3. next.op = "put" /\ next.path = c.path /\ next.gen = c.gen
    BY DEF Call
  <2> HIDE DEF next, c
  <2> QED
    BY <1>1, <1>2, <1>3, <1>4, <2>1, <2>2, <2>3, SendStore DEF RestartInv
<1>6. CASE ~(c.idx + 1 < ChunkCount[c.gen])
  <2> DEFINE next == Call("commit", c.path, c.gen, 0)
  <2>1. SendAs(live, next)
    BY <1>6 DEF PutAnswered
  <2>2. next \in Requests
    BY <1>1, WellFormed
  <2>3. next.op = "commit" /\ next.path = c.path /\ next.gen = c.gen
    BY DEF Call
  <2> HIDE DEF next, c
  <2> QED
    BY <1>1, <1>2, <1>3, <1>4, <2>1, <2>2, <2>3, SendStore DEF RestartInv
<1> QED
  BY <1>5, <1>6

\* A slot is released, or its call left to run on.
Dropped ==
  /\ UNCHANGED objects /\ live' = NoSlot
  /\ \A t \in Slots : calls'[t] = calls[t] \/ Free(t)'

LEMMA ConsumeDrops ==
  ASSUME ServiceInv, live # NoSlot, Consume
  PROVE  Dropped
BY ReleaseFrees, LiveSlot DEF Consume, Dropped

LEMMA GiveUpDrops ==
  ASSUME ServiceInv, live # NoSlot, GiveUp, live' = NoSlot
  PROVE  Dropped
<1>1. CASE UNCHANGED bridgeVars
  BY <1>1 DEF Dropped, bridgeVars
<1>2. CASE Release(live)
  BY <1>2, ReleaseFrees, LiveSlot DEF Dropped
<1> QED
  BY <1>1, <1>2 DEF GiveUp

LEMMA GotManifestRestart ==
  ASSUME RestartInv, GotManifest
  PROVE  MirrorInv' /\ StoreInv'
<1>1. /\ live # NoSlot /\ Consume /\ flush.pc = "scan"
      /\ UNCHANGED <<mode, stop, hist, acked, closed, misread, req, queue>>
  BY DEF GotManifest, Succeeded, Answered
<1>2. /\ flush'.pc = "scan" /\ flush'.scan = flush.scan /\ flush'.owner = flush.owner
  BY <1>1 DEF GotManifest, RestartInv, ServiceInv, TypeOK
<1>3. MirrorInv'
  BY <1>1, <1>2, QuietMirror DEF RestartInv
<1>4. StoreInv'
  BY <1>1, ConsumeDrops, DropStore DEF RestartInv, Dropped
<1> QED
  BY <1>3, <1>4

\* A flush that fails acknowledges nothing.
LEMMA FailRestart ==
  ASSUME RestartInv, ServiceInv', EndFlush(FALSE), flush.pc # "off", Dropped, misread' = misread
  PROVE  MirrorInv' /\ StoreInv'
<1>1. MirrorInv'
  BY EndFlushMirror DEF RestartInv
<1>2. UNCHANGED <<hist, acked>>
  BY DEF EndFlush
<1> QED
  BY <1>1, <1>2, DropStore DEF RestartInv, Dropped

LEMMA FlushFailsRestart ==
  ASSUME RestartInv, ServiceInv', FlushRefused \/ ReadFails \/ FlushTimeout
  PROVE  MirrorInv' /\ StoreInv'
<1>1. CASE FlushRefused
  BY <1>1, ConsumeDrops, FailRestart DEF FlushRefused, Refused, RestartInv
<1>2. CASE ReadFails
  <2>1. Dropped
    BY <1>2 DEF ReadFails, Dropped, bridgeVars
  <2> QED
    BY <1>2, <2>1, FailRestart DEF ReadFails
<1>3. CASE FlushTimeout
  BY <1>3, GiveUpDrops, FailRestart DEF FlushTimeout, RestartInv
<1> QED
  BY <1>1, <1>2, <1>3

(***************************************************************************)
(* The second manifest of a flush.  The bridge has no other call, so what  *)
(* it answered is what the bridge has; it equals the scan, which is behind *)
(* none of the writes that are acknowledged now or were before.            *)
(***************************************************************************)
LEMMA VerifiedRestart ==
  ASSUME RestartInv, ServiceInv', Verified
  PROVE  MirrorInv' /\ StoreInv'
<1>1. live # NoSlot /\ live \in Slots /\ Succeeded("manifest") /\ Consume /\ flush.pc = "verify"
  BY LiveSlot DEF Verified, Succeeded, Answered, RestartInv
<1>2. PICK manifest \in ManifestRead :
        /\ EndFlush(manifest = Scanned)
        /\ misread' = (misread \/ (manifest = Scanned /\ calls[live].seen # Scanned))
  BY DEF Verified
<1>3. CASE manifest # Scanned
  <2>1. EndFlush(FALSE) /\ misread' = misread
    BY <1>2, <1>3 DEF RestartInv, ServiceInv, TypeOK
  <2> QED
    BY <1>1, <2>1, ConsumeDrops, FailRestart DEF RestartInv
<1>4. CASE manifest = Scanned
  <2>1. EndFlush(TRUE) /\ UNCHANGED hist
    BY <1>2, <1>4, EndFlushCases DEF RestartInv
  <2>2. MirrorInv'
    BY <1>1, <2>1, EndFlushMirror DEF RestartInv
  <2>3. live' = NoSlot /\ UNCHANGED objects /\ \A t \in Slots : Free(t)'
    <3>1. \A t \in Slots \ {live} : Free(t)
      BY <1>1 DEF RestartInv, StoreInv, Alone
    <3> QED
      BY <1>1, <3>1, ReleaseFrees DEF Consume, RestartInv, Free
  <2>4. ~misread' => \A p \in Paths : objects[p] = hist[p][flush.scan[p]]
    BY <1>1, <1>2, <1>4 DEF RestartInv, StoreInv, SeenIsNow, Scanned
  <2>5. \A p \in Paths : /\ flush.scan[p] \in Nat /\ flush.scan[p] # 0
                         /\ acked[p] <= flush.scan[p] /\ flush.scan[p] <= Len(hist[p])
    BY <1>1 DEF RestartInv, ServiceInv, TypeOK, ScanComplete, ScanInHist, MirrorInv, ScanFresh
  <2>6. \A p \in Paths : acked'[p] <= flush.scan[p]
    <3>1. /\ acked \in [Paths -> Nat] /\ closed \in [Paths -> Nat]
          /\ \A r \in Reqs : req[r].mark \in [Paths -> Nat]
      BY DEF RestartInv, ServiceInv, TypeOK
    <3>2. CASE flush.owner \in Reqs /\ acked' = Later(req[flush.owner].mark, acked)
      <4>1. \A p \in Paths : req[flush.owner].mark[p] <= flush.scan[p]
        BY <1>1, <2>5, <3>2 DEF RestartInv, MirrorInv, OwnerRead
      <4>2. \A p \in Paths : acked'[p] \in {req[flush.owner].mark[p], acked[p]}
        BY <3>1, <3>2, LaterTyped
      <4> QED
        BY <2>5, <4>1, <4>2
    <3>3. CASE flush.owner = Shutdown /\ stop = "flush2" /\ acked' = Later(closed, acked)
      <4>1. \A p \in Paths : closed[p] <= flush.scan[p]
        BY <1>1, <2>5, <3>3 DEF RestartInv, MirrorInv, LastFlush
      <4>2. \A p \in Paths : acked'[p] \in {closed[p], acked[p]}
        BY <3>1, <3>3, LaterTyped
      <4> QED
        BY <2>5, <4>1, <4>2
    <3>4. CASE UNCHANGED acked
      BY <2>5, <3>4
    <3> QED
      BY <2>1, <3>2, <3>3, <3>4, EndFlushCases DEF RestartInv
  <2>7. ObjectsDurable'
    <3> SUFFICES ASSUME ~misread', NEW p \in Paths PROVE objects'[p] \in Durable(p)'
      BY DEF ObjectsDurable
    <3>1. TypeOK' /\ flush.scan[p] <= Len(hist'[p]) /\ hist'[p][flush.scan[p]] = objects'[p]
      BY <2>1, <2>3, <2>4, <2>5 DEF ServiceInv
    <3>2. acked'[p] \in Nat /\ Len(hist'[p]) \in Nat
      BY <3>1 DEF TypeOK
    <3>3. flush.scan[p] \in acked'[p]..Len(hist'[p])
      BY <2>5, <2>6, <3>1, <3>2
    <3> QED
      BY <3>1, <3>3 DEF Durable
  <2>8. Alone' /\ CallsDurable' /\ PutsScanned' /\ SeenIsNow' /\ HydratesNow'
    BY <2>3 DEF Alone, CallsDurable, PutsScanned, SeenIsNow, HydratesNow
  <2> QED
    BY <2>2, <2>7, <2>8 DEF StoreInv
<1> QED
  BY <1>3, <1>4

-----------------------------------------------------------------------------
\* Starts and ends of the process.

LEMMA BootRestart ==
  ASSUME Serial, RestartInv, ServiceInv', StatusAnswered \/ \E s \in Slots : Boot(s)
  PROVE  MirrorInv' /\ StoreInv'
<1>1. CASE StatusAnswered
  <2> DEFINE c == Call("manifest", 0, Absent, 0)
  <2>1. /\ live \in Slots /\ mode = "boot" /\ SendAs(live, c) /\ c \in Requests /\ c.op = "manifest"
        /\ UNCHANGED <<mode, stop, hist, acked, closed, misread, req, queue, flush>>
    BY <1>1, AnsweredCall, WellFormed DEF StatusAnswered, RestartInv, Call
  <2> HIDE DEF c
  <2> QED
    BY <2>1, QuietMirror, SendStore DEF RestartInv
<1>2. ASSUME NEW s \in Slots, Boot(s) PROVE MirrorInv' /\ StoreInv'
  <2> DEFINE c == Call("status", 0, Absent, 0)
  <2>1. /\ SendAs(s, c) /\ c \in Requests /\ c.op = "status"
        /\ UNCHANGED <<hist, acked, misread>>
    BY <1>2, WellFormed DEF Boot, Call
  <2> HIDE DEF c
  <2> QED
    BY <1>2, <2>1, BootMirror, SendStore DEF RestartInv
<1> QED
  BY <1>1, <1>2

\* The files are replaced, by what the bridge has or by what was misread.
LEMMA SwapRestart ==
  ASSUME RestartInv, NEW after, NEW manifest, NEW wrong \in BOOLEAN, mode = "boot", live # NoSlot,
         Swap(after, manifest, wrong), UNCHANGED <<stop, closed, req, queue>>,
         wrong \/ manifest = objects
  PROVE  MirrorInv' /\ StoreInv'
<1>1. live \in Slots
  BY LiveSlot DEF RestartInv
<1>2. MirrorInv'
  BY SwapMirror DEF RestartInv
<1>3. live' = NoSlot /\ UNCHANGED objects /\ \A t \in Slots : Free(t)'
  <2>1. \A t \in Slots \ {live} : Free(t)
    BY DEF RestartInv, StoreInv, Alone
  <2> QED
    BY <1>1, <2>1, ReleaseFrees DEF Swap, Consume, RestartInv, Free
<1>4. ObjectsDurable'
  <2> SUFFICES ASSUME ~misread', NEW p \in Paths PROVE objects'[p] \in Durable(p)'
    BY DEF ObjectsDurable
  <2>1. hist'[p] = <<objects'[p]>> /\ acked'[p] = 1
    BY <1>3 DEF Swap
  <2>2. 1 \in acked'[p]..Len(hist'[p]) /\ hist'[p][1] = objects'[p]
    BY <2>1
  <2> QED
    BY <2>2 DEF Durable
<1>5. Alone' /\ CallsDurable' /\ PutsScanned' /\ SeenIsNow' /\ HydratesNow'
  BY <1>3 DEF Alone, CallsDurable, PutsScanned, SeenIsNow, HydratesNow
<1> QED
  BY <1>2, <1>4, <1>5 DEF StoreInv

\* Hydration takes what the bridge has, since nothing else runs there.
LEMMA FetchRestart ==
  ASSUME Serial, RestartInv, ServiceInv', NEW after, mode = "boot", live # NoSlot,
         calls[live].pc = "done", Fetch(after, objects, FALSE)
  PROVE  MirrorInv' /\ StoreInv'
<1>1. live \in Slots /\ flush.pc = "off" /\ UNCHANGED <<stop, closed, req, queue>>
  BY LiveSlot DEF RestartInv, MirrorInv, Asleep, Fetch
<1>2. CASE FetchNext(after, objects)
  <2>1. PICK p \in Remaining(after, objects) : SendAs(live, Call("get", p, objects[p], 0))
    BY <1>2 DEF FetchNext, First
  <2>2. p \in Paths /\ objects[p] \in Contents /\ 0 < ChunkCount[objects[p]]
    BY ChunkCountAssumption DEF Remaining, Gens, RestartInv, ServiceInv, TypeOK, BridgeTypeOK
  <2>3. /\ UNCHANGED <<mode, hist, acked, misread>> /\ flush'.remote = objects
        /\ flush'.pc = flush.pc /\ flush'.scan = flush.scan /\ flush'.owner = flush.owner
    BY <1>2 DEF FetchNext, RestartInv, ServiceInv, TypeOK
  <2> DEFINE c == Call("get", p, objects[p], 0)
  <2>4. c \in Requests /\ c.op = "get"
    BY <2>2, WellFormed DEF Call
  <2>5. SendAs(live, c)
    BY <2>1
  <2> HIDE DEF c
  <2>6. MirrorInv'
    BY <1>1, <2>3, QuietMirror DEF RestartInv
  <2>7. StoreInv'
    BY <1>1, <2>3, <2>4, <2>5, SendStore DEF RestartInv
  <2> QED
    BY <2>6, <2>7
<1>3. CASE Swap(after, objects, FALSE)
  BY <1>1, <1>3, SwapRestart
<1> QED
  BY <1>2, <1>3 DEF Fetch

\* A manifest that could not be read has nothing to fetch.
LEMMA MisreadSwaps ==
  ASSUME NEW after, NEW wrong, Fetch(after, NoObjects, wrong)
  PROVE  Swap(after, NoObjects, wrong) /\ UNCHANGED <<stop, closed, req, queue>>
<1>1. Remaining(after, NoObjects) = {}
  BY DEF Remaining, NoObjects
<1>2. ~FetchNext(after, NoObjects)
  BY <1>1 DEF FetchNext, First
<1> QED
  BY <1>2 DEF Fetch

LEMMA HydrateRestart ==
  ASSUME Serial, RestartInv, ServiceInv', HydrateManifest \/ GetAnswered
  PROVE  MirrorInv' /\ StoreInv'
<1>1. mode = "boot" /\ live # NoSlot /\ live \in Slots /\ calls[live].pc = "done"
  BY LiveSlot DEF HydrateManifest, GetAnswered, Succeeded, Answered, RestartInv
<1>2. CASE HydrateManifest
  <2>1. calls[live].seen = objects
    BY <1>1, <1>2 DEF HydrateManifest, RestartInv, StoreInv, SeenIsNow
  <2>2. PICK manifest \in ManifestRead : Fetch(0, manifest, manifest # objects)
    BY <1>2, <2>1 DEF HydrateManifest
  <2>3. CASE manifest = objects
    <3>1. Fetch(0, objects, FALSE)
      BY <2>2, <2>3
    <3> QED
      BY <1>1, <3>1, FetchRestart
  <2>4. CASE manifest # objects
    <3>1. manifest = NoObjects /\ Fetch(0, manifest, TRUE)
      BY <2>1, <2>2, <2>4 DEF ManifestRead
    <3> QED
      BY <1>1, <3>1, MisreadSwaps, SwapRestart
  <2> QED
    BY <2>3, <2>4
<1>3. CASE GetAnswered
  <2> DEFINE c == calls[live]
  <2>1. c.op = "get" /\ flush.remote = objects
    BY <1>1, <1>3 DEF GetAnswered, Succeeded, Answered, RestartInv, StoreInv, HydratesNow
  <2>2. CASE c.idx + 1 < ChunkCount[c.gen]
    <3> DEFINE next == Call("get", c.path, c.gen, c.idx + 1)
    <3>1. SendAs(live, next) /\ UNCHANGED <<mode, stop, hist, acked, closed, misread, req, queue, flush>>
      BY <1>3, <2>2 DEF GetAnswered
    <3>2. c.path \in Paths /\ c.gen \in Contents /\ c.idx \in Nat
      BY <1>3, AnsweredCall DEF GetAnswered, Calls, RestartInv
    <3>3. next \in Requests /\ next.op = "get"
      <4>1. c.idx + 1 \in Nat
        BY <3>2
      <4> QED
        BY <2>2, <3>2, <4>1, WellFormed DEF Call
    <3> HIDE DEF next, c
    <3>4. MirrorInv'
      BY <3>1, QuietMirror DEF RestartInv
    <3>5. StoreInv'
      BY <1>1, <2>1, <3>1, <3>3, SendStore DEF RestartInv
    <3> QED
      BY <3>4, <3>5
  <2>3. CASE ~(c.idx + 1 < ChunkCount[c.gen])
    BY <1>1, <1>3, <2>1, <2>3, FetchRestart DEF GetAnswered
  <2> QED
    BY <2>2, <2>3
<1> QED
  BY <1>2, <1>3

LEMMA EndsRestart ==
  ASSUME RestartInv, BootFails \/ Crash
  PROVE  MirrorInv' /\ StoreInv'
<1>1. Halt("no") /\ flush' = NoFlush /\ live' = NoSlot
  BY DEF BootFails, Crash, Consume
<1>2. MirrorInv'
  BY <1>1, HaltMirror, NothingRead DEF NoFlush, RestartInv
<1>3. Dropped
  <2>1. CASE live # NoSlot /\ GiveUp
    BY <1>1, <2>1, GiveUpDrops DEF RestartInv
  <2>2. CASE live # NoSlot /\ Consume
    BY <2>2, ConsumeDrops DEF RestartInv
  <2>3. CASE UNCHANGED bridgeVars
    BY <1>1, <2>3 DEF Dropped, bridgeVars
  <2> QED
    BY <2>1, <2>2, <2>3 DEF BootFails, BodyLost, Crash, Refused, Succeeded, Answered
<1>4. UNCHANGED <<hist, acked, misread>>
  BY <1>1 DEF Halt
<1> QED
  BY <1>2, <1>3, <1>4, DropStore DEF RestartInv, Dropped

LEMMA ExitRestart ==
  ASSUME RestartInv, ServiceInv', Exit
  PROVE  MirrorInv' /\ StoreInv'
<1>1. /\ Halt(stop) /\ stop \in {"stopped", "unsynced"} /\ flush.pc = "off"
      /\ UNCHANGED <<bridgeVars, flush, live>>
  BY DEF Exit
<1>2. MirrorInv'
  BY <1>1, HaltMirror DEF RestartInv
<1>3. UNCHANGED <<hist, acked, misread>> /\ mode' = "down"
  BY <1>1 DEF Halt
<1>4. \A p : Durable(p)' = Durable(p)
  BY <1>3 DEF Durable
<1>5. UNCHANGED <<objects, calls>> /\ \A s : Free(s)' <=> Free(s)
  BY <1>1 DEF bridgeVars, Free
<1>6. StoreInv'
  BY <1>1, <1>3, <1>4, <1>5 DEF RestartInv, StoreInv, Alone, CallsDurable, PutsScanned, SeenIsNow,
     HydratesNow, ObjectsDurable, Succeeded, Answered, Scanned
<1> QED
  BY <1>2, <1>6

LEMMA RequestRestart ==
  ASSUME RestartInv, ServiceInv', NEW r \in Reqs,
         Begin(r) \/ Disconnect(r) \/ Throw(r) \/ Persist(r)
  PROVE  MirrorInv' /\ StoreInv'
<1>1. UNCHANGED <<bridgeVars, live, mode, hist, acked, misread, flush>>
  BY DEF Begin, Disconnect, Throw, Persist
<1>2. MirrorInv'
  BY BeginMirror, DisconnectMirror, ThrowMirror, PersistMirror DEF RestartInv
<1>3. Grows
  BY <1>1 DEF Grows, RestartInv, ServiceInv, TypeOK
<1> QED
  BY <1>1, <1>2, <1>3, IdleStore DEF RestartInv

LEMMA WriteRestart ==
  ASSUME RestartInv, ServiceInv', NEW r \in Reqs, NEW p \in Paths, Write(r, p)
  PROVE  MirrorInv' /\ StoreInv'
<1>1. UNCHANGED <<bridgeVars, live, mode, acked, misread, flush>>
  BY DEF Write
<1>2. MirrorInv' /\ Grows
  BY WriteMirror, WriteGrows DEF RestartInv
<1> QED
  BY <1>1, <1>2, IdleStore DEF RestartInv

LEMMA ScanRestart ==
  ASSUME RestartInv, ServiceInv', ListFiles \/ ReadFile
  PROVE  MirrorInv' /\ StoreInv'
<1>1. /\ UNCHANGED <<bridgeVars, live, mode, hist, acked, misread>>
      /\ flush.pc = "scan" /\ flush'.pc = "scan"
  BY DEF ListFiles, ReadFile, RestartInv, ServiceInv, TypeOK
<1>2. MirrorInv'
  BY ScanMirror DEF RestartInv
<1>3. Grows
  BY <1>1 DEF Grows, RestartInv, ServiceInv, TypeOK
<1> QED
  BY <1>1, <1>2, <1>3, IdleStore DEF RestartInv

LEMMA SignalRestart ==
  ASSUME RestartInv, ServiceInv', Sigterm \/ Closed
  PROVE  MirrorInv' /\ StoreInv'
<1>1. UNCHANGED <<bridgeVars, live, mode, hist, acked, misread, flush>>
  BY DEF Sigterm, Closed
<1>2. MirrorInv'
  BY SignalMirror DEF RestartInv
<1>3. Grows
  BY <1>1 DEF Grows, RestartInv, ServiceInv, TypeOK
<1> QED
  BY <1>1, <1>2, <1>3, IdleStore DEF RestartInv

LEMMA BridgeRestart ==
  ASSUME RestartInv, BridgeStep
  PROVE  MirrorInv' /\ StoreInv'
<1>1. MirrorInv'
  BY QuietMirror DEF BridgeStep, clientVars, RestartInv
<1>2. StoreInv'
  BY HandleStore DEF BridgeStep, RestartInv
<1> QED
  BY <1>1, <1>2

LEMMA NextRestart == ASSUME Serial, RestartInv, [Next]_vars PROVE RestartInv'
<1>0. ServiceInv'
  BY NextInv DEF Kept, RestartInv
<1> SUFFICES MirrorInv' /\ StoreInv'
  BY <1>0 DEF RestartInv
<1>1. CASE UNCHANGED vars
  <2>1. MirrorInv'
    BY <1>1, QuietMirror DEF vars, clientVars, RestartInv
  <2>2. Grows
    BY <1>1 DEF vars, clientVars, Grows, RestartInv, ServiceInv, TypeOK
  <2>3. StoreInv'
    BY <1>0, <1>1, <2>2, IdleStore DEF vars, clientVars, bridgeVars, RestartInv
  <2> QED
    BY <2>1, <2>3
<1>2. CASE RequestStep
  BY <1>0, <1>2, RequestRestart, WriteRestart DEF RequestStep
<1>3. CASE FlushStep
  BY <1>0, <1>3, StartFlushRestart, SyncRestart, ScanRestart, GotManifestRestart,
     PutAnsweredRestart, VerifiedRestart, FlushFailsRestart DEF FlushStep
<1>4. CASE BootStep \/ \E s \in Slots : Boot(s)
  BY <1>0, <1>4, BootRestart, HydrateRestart DEF BootStep
<1>5. CASE FlushTimeout \/ BootFails \/ Crash
  BY <1>0, <1>5, FlushFailsRestart, EndsRestart
<1>6. CASE Sigterm \/ Closed \/ Exit \/ BridgeStep
  BY <1>0, <1>6, SignalRestart, ExitRestart, BridgeRestart
<1> QED
  BY <1>1, <1>2, <1>3, <1>4, <1>5, <1>6 DEF Next

LEMMA InitRestart == Init => RestartInv
BY InitInv, InitMirror, InitStore DEF RestartInv

-----------------------------------------------------------------------------
\* What is committed can be read back, and is what a restart comes back with.
LEMMA CommittedRecoverable ==
  ASSUME RestartInv, ManifestBacked, ~misread, NEW p \in Paths, ~DeleteHalfDone(p)
  PROVE  Recoverable(p) \in Durable(p)
<1>1. Recoverable(p) = objects[p]
  BY DEF Recoverable, ManifestBacked
<1> QED
  BY <1>1 DEF RestartInv, StoreInv, ObjectsDurable

(***************************************************************************)
(* Acknowledged state can be brought back at every moment but inside       *)
(* delete_object: for every number of files, requests and slots, while     *)
(* requests write under the flush, through timeouts of the mirror, errors  *)
(* of the database, crashes and restarts.  Assumes calls that do not       *)
(* overtake each other, and no delete of a row that fails alone; and it    *)
(* says nothing of the time from a manifest that was misread to the next   *)
(* start that reads it.                                                    *)
(***************************************************************************)
THEOREM AckedDurability ==
  ASSUME Serial, "rowdelete" \notin FaultKinds
  PROVE  Spec => []AckedDurable
<1>1. RestartInv /\ ManifestBacked => AckedDurable
  BY CommittedRecoverable DEF AckedDurable, Durable
<1>2. RestartInv /\ [Next]_vars => RestartInv'
  BY NextRestart
<1>3. Spec => []ManifestBacked
  BY ServiceManifestBacked
<1> QED
  BY InitRestart, <1>1, <1>2, <1>3, PTL DEF Spec

(***************************************************************************)
(* When a shutdown reports success, and as long as the process goes on     *)
(* after it, every file can be brought back as it was when the server had  *)
(* closed, or as a preview wrote it later, whoever wrote it and whether it *)
(* was acknowledged or not.  Same assumptions and exception.               *)
(***************************************************************************)
THEOREM ShutdownSyncs ==
  ASSUME Serial, "rowdelete" \notin FaultKinds
  PROVE  Spec => []StoppedIsSynced
<1>1. RestartInv /\ ManifestBacked => StoppedIsSynced
  <2> SUFFICES ASSUME RestartInv, ManifestBacked, stop = "stopped", ~misread, NEW p \in Paths,
                      ~DeleteHalfDone(p)
               PROVE  Recoverable(p) \in {hist[p][i] : i \in closed[p]..Len(hist[p])}
    BY DEF StoppedIsSynced
  <2>1. PICK i \in acked[p]..Len(hist[p]) : Recoverable(p) = hist[p][i]
    BY CommittedRecoverable DEF Durable
  <2>2. /\ acked[p] \in Nat /\ closed[p] \in Nat /\ Len(hist[p]) \in Nat
        /\ closed[p] <= acked[p]
    BY DEF RestartInv, ServiceInv, TypeOK, MirrorInv, LastFlush
  <2>3. i \in closed[p]..Len(hist[p])
    BY <2>2
  <2> QED
    BY <2>1, <2>3
<1>2. RestartInv /\ [Next]_vars => RestartInv'
  BY NextRestart
<1>3. Spec => []ManifestBacked
  BY ServiceManifestBacked
<1> QED
  BY InitRestart, <1>1, <1>2, <1>3, PTL DEF Spec

-----------------------------------------------------------------------------
(***************************************************************************)
(* The service implements RestartSafe, step by step.                       *)
(***************************************************************************)
LEMMA InitPromise == Init => Promise!Init
BY DEF Init, Promise!Init

LEMMA WritePromise ==
  ASSUME NEW r \in Reqs, NEW p \in Paths, Write(r, p)
  PROVE  Promise!Next
<1>1. PICK c \in Gens : hist' = [hist EXCEPT ![p] = Append(hist[p], c)] /\ UNCHANGED acked
  BY DEF Write
<1> QED
  BY <1>1 DEF Promise!Next, Promise!Write

LEMMA EndFlushPromise ==
  ASSUME RestartInv, NEW ok \in BOOLEAN, EndFlush(ok), flush.pc # "off"
  PROVE  [Promise!Next]_(Promise!vars)
<1> DEFINE r == flush.owner
<1>1. UNCHANGED hist /\ acked \in [Paths -> Nat] /\ \A p \in Paths : Len(hist[p]) \in Nat
  BY EndFlushCases DEF RestartInv, ServiceInv, TypeOK
<1>2. CASE UNCHANGED acked
  BY <1>1, <1>2 DEF Promise!vars
<1>3. ASSUME NEW marks \in [Paths -> Nat], acked' = Later(marks, acked),
             \A p \in Paths : marks[p] <= Len(hist[p])
      PROVE  Promise!Next
  <2>1. /\ acked' \in [Paths -> Nat]
        /\ \A p \in Paths : acked'[p] \in {acked[p], marks[p]} /\ acked[p] <= acked'[p]
    BY <1>1, <1>3, LaterTyped
  <2>2. \A p \in Paths : acked'[p] <= Len(hist[p])
    BY <1>3, <2>1 DEF RestartInv, MirrorInv, Positions
  <2> QED
    BY <1>1, <2>1, <2>2 DEF Promise!Next, Promise!Acknowledge
<1>4. CASE r \in Reqs /\ acked' = Later(req[r].mark, acked)
  <2>1. req[r].mark \in [Paths -> Nat] /\ \A p \in Paths : req[r].mark[p] <= Len(hist[p])
    BY <1>4 DEF RestartInv, ServiceInv, TypeOK, MirrorInv, MarksFit
  <2> QED
    BY <1>3, <1>4, <2>1
<1>5. CASE stop = "flush2" /\ acked' = Later(closed, acked)
  <2>1. closed \in [Paths -> Nat] /\ \A p \in Paths : closed[p] <= Len(hist[p])
    BY <1>5 DEF RestartInv, ServiceInv, TypeOK, MirrorInv, LastFlush
  <2> QED
    BY <1>3, <1>5, <2>1
<1> QED
  BY <1>2, <1>4, <1>5, EndFlushCases DEF RestartInv

\* Hydration comes back with what the bridge has committed.
LEMMA SwapPromise ==
  ASSUME RestartInv, NEW after, NEW wrong, Swap(after, objects, wrong), ~misread
  PROVE  Promise!Next
<1>1. objects \in [Paths -> Gens] /\ \A p \in Paths : objects[p] \in Promise!Durable(p)
  BY DEF RestartInv, ServiceInv, TypeOK, BridgeTypeOK, StoreInv, ObjectsDurable,
         Durable, Promise!Durable
<1>2. hist' = [p \in Paths |-> <<objects[p]>>] /\ acked' = [p \in Paths |-> 1]
  BY DEF Swap
<1> QED
  BY <1>1, <1>2 DEF Promise!Next, Promise!Restart

\* What a step may do: an abstract step, unless a manifest is or was misread.
Allowed == Promise!Next \/ misread \/ misread' \/ UNCHANGED Promise!vars

LEMMA HydratePromise ==
  ASSUME RestartInv, HydrateManifest \/ GetAnswered
  PROVE  Allowed
<1>1. CASE UNCHANGED <<hist, acked>>
  BY <1>1 DEF Promise!vars, Allowed
<1>2. ASSUME NEW after, NEW manifest, NEW wrong, Swap(after, manifest, wrong),
             wrong \/ manifest = objects
      PROVE  Allowed
  BY <1>2, SwapPromise DEF Swap, Allowed
<1>3. CASE HydrateManifest
  <2>1. live # NoSlot /\ calls[live].seen = objects
    BY <1>3 DEF HydrateManifest, Succeeded, Answered, RestartInv, StoreInv, SeenIsNow
  <2>2. PICK manifest \in ManifestRead : Fetch(0, manifest, manifest # objects)
    BY <1>3, <2>1 DEF HydrateManifest
  <2> QED
    BY <1>1, <1>2, <2>2 DEF Fetch, FetchNext
<1>4. CASE GetAnswered
  <2>1. flush.remote = objects
    BY <1>4 DEF GetAnswered, Succeeded, Answered, RestartInv, StoreInv, HydratesNow
  <2> QED
    BY <1>1, <1>2, <1>4, <2>1 DEF GetAnswered, Fetch, FetchNext
<1> QED
  BY <1>3, <1>4

LEMMA NextPromise ==
  ASSUME RestartInv, [Next]_vars
  PROVE  Allowed
<1>1. CASE UNCHANGED <<hist, acked>>
  BY <1>1 DEF Promise!vars, Allowed
<1>2. CASE RequestStep
  BY <1>1, <1>2, WritePromise DEF RequestStep, Begin, Disconnect, Throw, Persist, Allowed
<1>3. CASE FlushStep
  <2>1. CASE Verified \/ FlushRefused \/ ReadFails
    BY <2>1, EndFlushPromise DEF Verified, FlushRefused, ReadFails, Allowed
  <2>2. CASE \E s \in Slots : StartFlush(s) \/ Diff(s)
    BY <1>1, <2>2 DEF StartFlush, Diff, Proceed
  <2>3. CASE ListFiles \/ ReadFile \/ GotManifest
    BY <1>1, <2>3 DEF ListFiles, ReadFile, GotManifest
  <2>4. CASE PutAnswered \/ CommitAnswered \/ DeleteAnswered
    BY <1>1, <2>4 DEF PutAnswered, CommitAnswered, DeleteAnswered, Proceed
  <2> QED
    BY <1>3, <2>1, <2>2, <2>3, <2>4 DEF FlushStep
<1>4. CASE FlushTimeout
  BY <1>4, EndFlushPromise DEF FlushTimeout, Allowed
<1>5. CASE BootStep \/ \E s \in Slots : Boot(s)
  BY <1>1, <1>5, HydratePromise DEF BootStep, StatusAnswered, Boot
<1>6. CASE BootFails \/ Crash \/ Sigterm \/ Closed \/ Exit
  BY <1>1, <1>6 DEF BootFails, Crash, Halt, Sigterm, Closed, Exit
<1>7. CASE BridgeStep \/ UNCHANGED vars
  BY <1>1, <1>7 DEF BridgeStep, vars, clientVars
<1> QED
  BY <1>2, <1>3, <1>4, <1>5, <1>6, <1>7 DEF Next

(***************************************************************************)
(* The whole service, mirror, bridge and faults, is restart-safe: seen     *)
(* through the files' contents and what has been acknowledged of them it   *)
(* does nothing but write, acknowledge what was written, and restart with  *)
(* the acknowledged content of each file or a later one; but for the time  *)
(* from a manifest that was misread to the start that reads it.  Assumes   *)
(* calls that do not overtake each other, whatever faults occur.           *)
(***************************************************************************)
THEOREM KeepsPromise == ASSUME Serial PROVE Spec => RestartSafety
<1>1. RestartInv /\ [Next]_vars => RestartInv' /\ Allowed
  BY NextRestart, NextPromise
<1>2. Allowed => [Promise!Next \/ misread \/ misread']_(Promise!vars)
  BY DEF Allowed
<1> QED
  BY InitRestart, InitPromise, <1>1, <1>2, PTL DEF Spec, RestartSafety
=============================================================================
