----------------------------- MODULE MCAdmission -----------------------------
\* The instance of RedisAdmission that TLC checks.
EXTENDS RedisAdmission, TLC

MCEstimates == {[cost |-> 2, spend |-> 1]}

\* Cheaper than estimated, and dearer, in tokens and spend.
MCActuals == {[cost |-> 1, spend |-> 0], [cost |-> 3, spend |-> 2]}

\* Ids, callers and days are only compared for equality.
Symmetry == Permutations(Requests) \cup Permutations(Gateways) \cup Permutations(Periods)
=============================================================================
