SPECIFICATION Spec
CONSTANTS
  s1 = s1
  s2 = s2
  Seller = {s1, s2}
  Sends = 2
  MaxBuys = 2
  Overlaps = {TRUE, FALSE}
INVARIANTS
  DeliveredIsPaid
  PointerIsFrontier
  NotChargedForErrors
SYMMETRY Symmetry
CHECK_DEADLOCK FALSE
