SPECIFICATION FairSpec
CONSTANTS
  c1 = c1
  c2 = c2
  o1 = o1
  w1 = w1
  None = None
  Orphan = Orphan
  MaxDeposits = 2
  Confirmer = {}
  Cron = {o1}
  Withdrawer = {w1}
  MaxPending = 2
  MaxFaults = 2
  MaxLapses = 1
PROPERTY RootCatchesUp
