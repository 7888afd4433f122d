------------------------------ MODULE MCDeploy ------------------------------
\* The instance of DeployPlane that TLC checks.
EXTENDS DeployPlane, TLC

MCJobs == Ids \X (1..MaxAttempts)

\* The HTTP requests are interchangeable, the tick is not.
Symmetry == Permutations(Runners \ {Tick}) \cup Permutations(Ids)
=============================================================================
