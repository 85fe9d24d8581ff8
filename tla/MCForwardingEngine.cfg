SPECIFICATION EngineSpec
CONSTANTS
  Address = {a1}
  Payer = {p1}
  Amount = {1}
  MinAmount = 1
  MaxSpend = 2
  Lookback = 1
  Wirings <- ShippedAndRearmed
  MaxBlocks = 3
  MaxSlots = 2
  MaxStarts = 2
  MaxSent = 1
INVARIANTS
  ScanMissesNothing
  ProcessedIsDeposited
PROPERTY
  QuarantineHolds
CHECK_DEADLOCK FALSE
