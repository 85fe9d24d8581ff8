SPECIFICATION Spec
CONSTANTS
  c1 = c1
  c2 = c2
  o1 = o1
  w1 = w1
  None = None
  Orphan = Orphan
  MaxDeposits = 2
  Confirmer = {c1, c2}
  Cron = {o1}
  Withdrawer = {}
  MaxPending = 2
  MaxFaults = 1
  MaxLapses = 1
INVARIANTS
  IncludedWasApproved
  LeaseIsExclusive
  ScreeningsInOrder
PROPERTY
  TerminalIsFinal
SYMMETRY Symmetry
