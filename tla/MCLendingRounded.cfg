\* As MCLendingLiquidation, with no interest, and prices and amounts whose products are beyond
\* MaxBalance: what a liquidation buys is rounded to the nearest.
CONSTANTS
  alice = alice
  bob = bob
  pallet = pallet
  None = None
  Accounts = {alice, bob, pallet}
  Signers = {alice, bob}
  AssetSigners = {}
  account_id = pallet
  Owner = alice
  MaxAssetId = 1
  MaxBalance = 4095
  DIV = 20
  LIMB = 5
  Genesis <- RoundedAssets
  GenesisGrant = 30
  Amounts = {30}
  PriceFeed <- RoundedFall
  UtilizationFactor = 0
  InitialInterestRate = 0
  GenesisPools = {0, 1}
  InitPoolAssets = {}
  Liquidators = {alice}
  MaxBlock = 1
  TotalsBound = 60
CONSTRAINT TotalsBounded
SPECIFICATION Spec
PROPERTY WithinCloseFactor
CHECK_DEADLOCK FALSE
