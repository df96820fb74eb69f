\* Every operation of the exchange over two pools, whatever its transfers do, while somebody
\* destroys units and changes the inherent asset.
CONSTANTS
  alice = alice
  bob = bob
  e1 = e1
  e2 = e2
  other = other
  Accounts = {alice, bob, e1, e2, other}
  Signers = {alice, bob}
  AssetSigners = {bob}
  MaxAssetId = 2
  MaxBalance = 31
  DIV = 1
  LIMB = 1000
  Amounts = {}
  PriceFeed = {}
  Genesis <- SmallGenesis
  Owner = bob
  GenesisGrant = 0
  Swappers = {alice}
  Providers = {alice}
  PairedIds = {1, 2}
  Inputs = {1}
  Outputs = {2}
  Deposits <- OneDeposit
  Removals = {1}
  FeeRates = {1}
  GenesisFeeRate = 1
  Exchange <- MCExchange
  LiquidityBound = 2
SPECIFICATION Spec
CONSTRAINT LiquidityBounded
INVARIANTS SwapTypeOK Conservation
PROPERTIES ProductKept QuotesStand SharesKept KeepsCustody
CHECK_DEADLOCK FALSE
