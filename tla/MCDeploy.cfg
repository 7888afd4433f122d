SPECIFICATION Spec
CONSTANTS
  Ids = {d1, d2}
  Tick = tick
  Runners = {tick, r1}
  Clients = {tick, r1}
  MaxAttempts = 2
  Jobs <- MCJobs
  MaxCrashes = 2
  IoFails = TRUE
INVARIANTS TypeOK OneRunnerPerJob AdmittedBeforeDeployed
PROPERTIES FailsClosed
SYMMETRY Symmetry
CHECK_DEADLOCK FALSE
