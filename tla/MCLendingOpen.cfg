\* No pool at genesis: pools are made, and made again, while users hold positions, and
\* Bob also moves, destroys and issues assets directly.
CONSTANTS
  alice = alice
  bob = bob
  pallet = pallet
  None = None
  Accounts = {alice, bob, pallet}
  Signers = {alice, bob}
  AssetSigners = {bob}
  account_id = pallet
  Owner = alice
  MaxAssetId = 1
  MaxBalance = 4095
  DIV = 20
  LIMB = 1000
  Genesis <- OneAsset
  GenesisGrant = 12
  Amounts = {0, 6}
  PriceFeed = {}
  UtilizationFactor = 4
  InitialInterestRate = 2
  GenesisPools = {}
  InitPoolAssets = {0}
  Liquidators = {}
  MaxBlock = 2
  TotalsBound = 4095
SPECIFICATION Spec
INVARIANTS PositionsListed ListedHasPool Conservation
PROPERTIES SupplyOnlyShrinks KeepsCustody
CHECK_DEADLOCK FALSE
