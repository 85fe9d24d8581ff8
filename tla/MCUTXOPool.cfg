CONSTANTS
  STATE_ROOT_HISTORY = 3
  MAX_TREE_DEPTH = 3
  Labels = {l1, l2}
  l1 = l1
  l2 = l2
  Amounts = {1}
  OtherNullifiers = {1}
  Approvals = {{l1}, {l2}}
  MaxNotes = 6
  MaxDeposits = 3
  MaxProofs = 2
SPECIFICATION Spec
INVARIANTS
  FrontierIsLeanIMT
  RootWindow
PROPERTIES
  
  LedgerSpec
CHECK_DEADLOCK FALSE
