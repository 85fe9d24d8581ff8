SPECIFICATION Spec
CONSTANTS
  alice = alice
  bob = bob
  pool = pool
  entrypoint = entrypoint
  p1 = p1
  p2 = p2
  p3 = p3
  RootHistorySize = 2
  TreeCapacity = 4
  Precommitments <- MCPrecommitments
  NullifierOf <- MCNullifierOf
  User = {alice, bob}
  PoolAddr = pool
  EntrypointAddr = entrypoint
  Uint128Max = 5
  InitialBalance <- LargeDeposit
  DepositValue <- LargeDepositValue
  WithdrawalData <- MCWithdrawalData
  PoolConfig <- FeesOrRefusals
  MaxProofs = 2
  MaxRootUpdates = 1
INVARIANTS
  ExitAlwaysPossible
  Solvency
  SpentExactly
  OneLiveNotePerLabel
  LabelConservation
  RootWindow
PROPERTIES
  LedgerSpec
CHECK_DEADLOCK FALSE
