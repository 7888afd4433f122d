SPECIFICATION Spec
CONSTANTS
  NRevisions = 2
  MaxServed = 5
  MaxFaults = 2
  NEntities = 2
  NSlots = 2
  NPreviews = 2
  MaxRecords = 3
  Quota = 2
INVARIANTS TypeOK PointersAreSound CertifiedIsImage DataHolds
CHECK_DEADLOCK FALSE
