CONSTANTS
  Signers = {1, 2, 3}
  THRESHOLD = 2
  MaxDeposits = 2
  Before = 2
  Clean = {1}
  Forwards = FALSE
  MaxNonce = 2
  MaxTxs = 1
  MaxFaults = 2
SPECIFICATION FairSpec
PROPERTIES
  OneDecisionPerRoot
  QuorumGoesOn
CHECK_DEADLOCK FALSE
