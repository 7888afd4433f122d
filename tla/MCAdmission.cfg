SPECIFICATION Spec
CONSTANTS
  Requests = {q1, q2, q3}
  Gateways = {g1, g2}
  Estimates <- MCEstimates
  Actuals <- MCActuals
  Capacity = 3
  Rate = 2
  CallCapacity = 2
  CallRate = 2
  Unit = 2
  MaxConcurrent = 2
  Limit = 2
  Ttl = 2
  Periods = {p1, p2}
  Gone = gone
INVARIANTS TypeOK SlotPerReservation BudgetHeld
PROPERTIES IsRateLimited
SYMMETRY Symmetry
