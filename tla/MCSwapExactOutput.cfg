\* An exact output is not paid for at the pool's price.
CONSTANTS
  alice = alice
  bob = bob
  e1 = e1
  e2 = e2
  other = other
  Accounts = {alice, bob, e1, e2, other}
  Signers = {alice, bob}
  AssetSigners = {}
  MaxAssetId = 2
  MaxBalance = 31
  DIV = 1
  LIMB = 1000
  Amounts = {2}
  PriceFeed = {}
  Genesis <- MCGenesis
  Owner = bob
  GenesisGrant = 2
  Swappers = {alice, bob}
  Providers = {alice, bob}
  PairedIds = {1, 2}
  Inputs = {}
  Outputs = {1, 2}
  Deposits <- MCDeposits
  Removals = {1, 2}
  FeeRates = {1}
  GenesisFeeRate = 1
  Exchange <- MCExchange
  LiquidityBound = 6
SPECIFICATION Spec
CONSTRAINT LiquidityBounded
PROPERTIES PaidInFull
CHECK_DEADLOCK FALSE
