SPECIFICATION FairSpec
CONSTANTS
  NShots = 2
  Absent = absent
  Torn = torn
  MaxFaults = 3
INVARIANTS TypeOK StateIsSound FilmIsJudged
PROPERTIES NothingRedone Settles
CHECK_DEADLOCK FALSE
