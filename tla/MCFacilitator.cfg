SPECIFICATION Spec
CONSTANTS
  p1 = p1
  p2 = p2
  n1 = n1
  n2 = n2
  alice = alice
  shop = shop
  stall = stall
  a1 = a1
  r1 = r1
  r2 = r2
  Requests = {r1, r2}
  Payments = {p1, p2}
  Nullifiers = {n1, n2}
  Agents = {a1}
  Payees = {shop, stall}
  Payer <- MCPayer
  Worth <- MCWorth
  SignsFor <- MCSignsFor
  Contracts = {}
  AccessFee <- MCAccessFee
  PremiumFee = 2
  TakeBps <- MCTakeBps
  Floor <- MCFloor
  ProviderTier <- MCProviderTier
  MaxPerTx = 1
  MaxPerDay = 1
  Allowed <- MCAllowed
  MaxForwarded = 1
  Amounts = {1, 2}
  FEE_REQUIRED = TRUE
  OwnershipRequired = TRUE
  MaxLapses = 1
  MaxFaults = 1
INVARIANTS
  PaymentBuysOnce
  TierWasPaid
  DailyLimitUpToFlight
SYMMETRY RequestSymmetry
CHECK_DEADLOCK FALSE
