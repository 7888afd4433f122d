------------------------------ MODULE MCProject ------------------------------
(* An instance of ForgeRuntime for TLC. *)
EXTENDS ForgeRuntime
=============================================================================
