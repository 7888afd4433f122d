------------------------------- MODULE MCBank -------------------------------
\* The instance of BankRuntime that TLC checks.
EXTENDS BankRuntime, TLC

\* Nothing orders keys or customers.
Symmetry == Permutations(Keys) \cup Permutations(Customers)
=============================================================================
