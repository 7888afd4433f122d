\* One file through several contents of different chunk counts, under a fair
\* event loop.
SPECIFICATION FairSpec
CONSTANTS
  NPaths = 1
  Contents = {"a", "b"}
  Absent = "absent"
  ChunkCount <- MCChunkCount
  Slots = {s1, s2}
  Serial = TRUE
  FaultKinds = {"crash", "timeout", "db"}
  Reqs = {r1, r2}
  NoSlot = none
  Shutdown = shutdown
INVARIANTS ManifestBacked
PROPERTIES EveryFlushAnswers
CHECK_DEADLOCK FALSE
