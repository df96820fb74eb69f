\* The market, asking whether a pool knows all of its debt.
CONSTANTS
  alice = alice
  bob = bob
  pallet = pallet
  None = None
  Accounts = {alice, bob, pallet}
  Signers = {alice, bob}
  AssetSigners = {}
  account_id = pallet
  Owner = alice
  MaxAssetId = 0
  MaxBalance = 4095
  DIV = 20
  LIMB = 1000
  Genesis <- OneAsset
  GenesisGrant = 12
  Amounts = {6, 40}
  PriceFeed = {}
  UtilizationFactor = 4
  InitialInterestRate = 2
  GenesisPools = {0}
  InitPoolAssets = {}
  Liquidators = {}
  MaxBlock = 4
  TotalsBound = 4095
SPECIFICATION Spec
INVARIANTS PoolDebtCoversUsers
CHECK_DEADLOCK FALSE
