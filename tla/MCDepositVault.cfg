SPECIFICATION Spec
CONSTANTS
  t1 = t1
  t2 = t2
  b1 = b1
  b2 = b2
  Note = {n1, n2}
  Nothing = Nothing
  Seed = {s1}
  Browser = {b1, b2}
  Tab = {t1, t2}
  BrowserOf <- Apart
  AppTab = {t1}
  Put = {p1, p2}
  MaxVersion = 2
  MaxFaults = 1
INVARIANTS
  
  NeverMemoryOnly

  
SYMMETRY Symmetry
CONSTRAINT Bounded
CHECK_DEADLOCK FALSE
