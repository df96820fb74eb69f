\* The liquidation instance, asking whether every payment is credited.
CONSTANTS
  alice = alice
  bob = bob
  pallet = pallet
  None = None
  Accounts = {alice, bob, pallet}
  Signers = {alice, bob}
  AssetSigners = {}
  account_id = pallet
  Owner = alice
  MaxAssetId = 1
  MaxBalance = 4095
  DIV = 20
  LIMB = 1000
  Genesis <- EvenAssets
  GenesisGrant = 2
  Amounts = {10}
  PriceFeed <- EvenFall
  UtilizationFactor = 4
  InitialInterestRate = 2
  GenesisPools = {0, 1}
  InitPoolAssets = {}
  Liquidators = {alice}
  MaxBlock = 2
  TotalsBound = 24
SPECIFICATION Spec
PROPERTIES PaymentsAreCredited
CHECK_DEADLOCK FALSE
