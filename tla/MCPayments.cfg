SPECIFICATION FairSpec
CONSTANTS
  NSlots = 2
  MaxFaults = 1
  MaxReconciles = 1
INVARIANTS TypeOK CertifiedIsReal AnsweredIsRecorded EntitledIsPaid
PROPERTIES Certifies
CHECK_DEADLOCK FALSE
