SPECIFICATION Spec
CONSTANTS
  s1 = s1
  s2 = s2
  Seller = {s1, s2}
  Nobody = Nobody
  Attempts = 2
  MaxCalls = 2
  MaxExpiries = 1
INVARIANTS
  SettledIsFunded
  RecordIsTheSpend
  BareRefusalDidNotSpend
  LeaseCoversDoubt
SYMMETRY Sellers
CHECK_DEADLOCK FALSE
