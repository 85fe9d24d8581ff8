CONSTANTS
  HISTORICAL_ROOTS = 2
  MAX_TREE_DEPTH = 3
  VETTING_FEE_BPS = 5000
  MAX_RELAY_FEE_BPS = 5000
  MINIMUM_DEPOSIT = 1
  Users = {Buyer, Other}
  Shops = {Shop}
  Orders = {Order}
  Shop = Shop
  Order = Order
  Vault = Vault
  Relayer = Relayer
  Buyer = Buyer
  Other = Other
  Funds = 3
  DepositAmount = 3
  Amounts = {1, 2}
  RelayFees = {5000}
  Approvals = {{1}, {2}}
  PoolKeyByte = 1
  MaxNotes = 4
  MaxRequests = 2
  MaxHanded = 1
  MaxFaults = 1
SPECIFICATION SvmSpec
INVARIANTS
  FrontierIsLeanIMT
  NothingLost
  SpendableIsSafe
  DeliveredIsPaid
PROPERTIES
  LedgerSpec
CHECK_DEADLOCK FALSE
