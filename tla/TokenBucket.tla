------------------------------ MODULE TokenBucket ------------------------------
(***************************************************************************)
(* What a rate limit promises: a bucket that fills at a steady rate up to  *)
(* its capacity, never beyond, and that is only drawn on for what it       *)
(* holds.  The level is kept in fractions, Unit of them to a credit, so    *)
(* that a tick adds exactly Rate of them.                                  *)
(*                                                                         *)
(* A bucket nobody uses for Patience ticks may be forgotten: if it takes   *)
(* longer than that to fill, it is then full before its time.              *)
(***************************************************************************)
EXTENDS Integers

CONSTANTS Capacity, Rate, Unit, Patience

VARIABLES
  level,
  rest      \* ticks since the bucket was last used, up to Patience

bucket == <<level, rest>>

Capped(n) == IF n > Capacity * Unit THEN Capacity * Unit ELSE n

Init == level = Capacity * Unit /\ rest = Patience

Forgotten == rest + 1 = Patience /\ Patience * Rate < Capacity * Unit

Tick ==
  /\ level' = IF Forgotten THEN Capacity * Unit ELSE Capped(level + Rate)
  /\ rest' = IF rest < Patience THEN rest + 1 ELSE Patience

Draw ==
  /\ \E c \in 1..Capacity : c * Unit <= level /\ level' = level - c * Unit
  /\ rest' = 0

GiveBack ==
  /\ \E c \in 0..Capacity : level' = Capped(level + c * Unit)
  /\ rest' = 0

Spec == Init /\ [][Tick \/ Draw \/ GiveBack]_bucket
=============================================================================
