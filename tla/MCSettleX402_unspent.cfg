SPECIFICATION Spec
CONSTANTS
  s1 = s1
  s2 = s2
  Seller = {s1, s2}
  Nobody = Nobody
  Attempts = 2
  MaxCalls = 2
  MaxExpiries = 0
INVARIANT UnspentIsProven
SYMMETRY Sellers
CHECK_DEADLOCK FALSE
