SPECIFICATION Spec
CONSTANTS
  NPaths = 2
  Contents = {"b"}
  Absent = "absent"
  ChunkCount <- MCChunkCount
  Slots = {s1, s2}
  Serial = TRUE
  FaultKinds = {"crash", "timeout", "db", "body"}
  Reqs = {r1, r2}
  NoSlot = none
  Shutdown = shutdown
INVARIANTS TypeOK AckedDurable StoppedIsSynced
PROPERTIES RestartSafety
CHECK_DEADLOCK FALSE
SYMMETRY Symmetry
