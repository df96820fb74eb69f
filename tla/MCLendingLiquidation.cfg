\* Two pools, a price that falls, and a liquidator.  Bob supplies one asset and borrows the
\* other; Alice supplies and liquidates.  As in the chain one limb is below DIV, and the
\* exchange rates, beyond MaxBalance before they are divided, are rounded to the nearest.
CONSTANTS
  alice = alice
  bob = bob
  pallet = pallet
  None = None
  Accounts = {alice, bob, pallet}
  Signers = {alice, bob}
  AssetSigners = {}
  account_id = pallet
  Owner = alice
  MaxAssetId = 1
  MaxBalance = 16383
  DIV = 100
  LIMB = 50
  Genesis <- OddAssets
  GenesisGrant = 2
  Amounts = {10}
  PriceFeed <- OddFall
  UtilizationFactor = 20
  InitialInterestRate = 10
  GenesisPools = {0, 1}
  InitPoolAssets = {}
  Liquidators = {alice}
  MaxBlock = 2
  TotalsBound = 24
CONSTRAINT TotalsBounded
SPECIFICATION Spec
INVARIANTS PositionsListed Conservation
PROPERTIES OnlyUnhealthyAreSeized SeizureIsPaidFor SupplyIsPaidIn
CHECK_DEADLOCK FALSE
