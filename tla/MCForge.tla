------------------------------ MODULE MCForge ------------------------------
(***************************************************************************)
(* Instances of ForgeDurable: content "b" has two chunks, every other one; *)
(* the bridge has room for the live call and an abandoned one.             *)
(***************************************************************************)
EXTENDS ForgeDurable, TLC

MCChunkCount == [c \in Contents |-> IF c = "b" THEN 2 ELSE 1]

\* Requests and slots are interchangeable: nothing compares or orders them.
Symmetry == Permutations(Reqs) \cup Permutations(Slots)
=============================================================================
