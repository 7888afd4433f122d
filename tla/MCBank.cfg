\* Four keys: money enough to reverse one transaction twice.
SPECIFICATION Spec
CONSTANTS
  Customers = {alice, bob}
  Cash = cash
  Keys = {k1, k2, k3, k4}
  Amounts = {1}
  NoRef = none
  MaxSafe = 2
  Missing = missing
  MaxPending = 1
INVARIANTS TypeOK RetryIsHarmless AlwaysRestorable AckedIsDurable ShownIsDurable
PROPERTIES IsAtomicBank
SYMMETRY Symmetry
