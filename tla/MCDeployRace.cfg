\* No fault: what the interleaving of the tick and a run-once request does alone,
\* and that every job settles under a fair scheduler.
SPECIFICATION FairSpec
CONSTANTS
  Ids = {d1, d2}
  Tick = tick
  Runners = {tick, r1}
  Clients = {tick, r1}
  MaxAttempts = 2
  Jobs <- MCJobs
  MaxCrashes = 0
  IoFails = FALSE
INVARIANTS HeadIsCurrent
PROPERTIES EveryJobSettles
CHECK_DEADLOCK FALSE
