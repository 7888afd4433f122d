SPECIFICATION Spec
CONSTANTS
  Ops = {o1, o2}
  NPaths = 1
  Contents = {a, b}
  Absent = absent
  NCapsules = 2
  Free = free
  Left = left
  Racing = TRUE
INVARIANTS TypeOK LockIsExclusive VaultIsSound
PROPERTIES NothingLost
SYMMETRY Symmetry
