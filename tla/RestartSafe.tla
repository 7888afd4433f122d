---------------------------- MODULE RestartSafe ----------------------------
(***************************************************************************)
(* What Forge durable state promises its callers, with no protocol in it.  *)
(* "Restart-safe" (docs/HERCULES-FORGE-DURABLE-STATE-V1.md:5): each file   *)
(* is a line of versions; an acknowledgement fixes a version as durable;   *)
(* a restart comes back, file by file, with that version or a later one.   *)
(***************************************************************************)
EXTENDS Integers, Sequences

CONSTANTS Files, Versions, Initial

VARIABLES hist,    \* file -> the versions it has had since the last restart
          acked    \* file -> position in hist[f] of the acknowledged version

vars == <<hist, acked>>

Init ==
  /\ hist = [f \in Files |-> <<Initial>>]
  /\ acked = [f \in Files |-> 1]

Durable(f) == {hist[f][i] : i \in acked[f]..Len(hist[f])}

Write(f, v) ==
  /\ hist' = [hist EXCEPT ![f] = Append(hist[f], v)]
  /\ UNCHANGED acked

Acknowledge ==
  /\ acked' \in [Files -> Nat]
  /\ \A f \in Files : acked[f] <= acked'[f] /\ acked'[f] <= Len(hist[f])
  /\ UNCHANGED hist

Restart ==
  /\ \E back \in [Files -> Versions] :
       /\ \A f \in Files : back[f] \in Durable(f)
       /\ hist' = [f \in Files |-> <<back[f]>>]
  /\ acked' = [f \in Files |-> 1]

Next ==
  \/ \E f \in Files, v \in Versions : Write(f, v)
  \/ Acknowledge
  \/ Restart

Spec == Init /\ [][Next]_vars
=============================================================================
