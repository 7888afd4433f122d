------------------------------ MODULE MCCleaner ------------------------------
\* The instances of CleanerVault that TLC checks.
EXTENDS CleanerVault, TLC

\* Operations and contents are only compared for equality.
Symmetry == Permutations(Ops) \cup Permutations(Contents)
=============================================================================
