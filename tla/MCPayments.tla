------------------------------ MODULE MCPayments ------------------------------
\* The instance of SoftwarePayments that TLC checks.
EXTENDS SoftwarePayments, TLC
=============================================================================
