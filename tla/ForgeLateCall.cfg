SPECIFICATION Spec
CONSTANTS
  NPaths = 1
  Contents = {"a", "b"}
  Absent = "absent"
  ChunkCount <- MCChunkCount
  Slots = {s1, s2}
  Serial = FALSE
  FaultKinds = {"timeout"}
  Reqs = {r1, r2}
  NoSlot = none
  Shutdown = shutdown
INVARIANT AckedDurable
CHECK_DEADLOCK FALSE
SYMMETRY Symmetry
