\* A borrower, a lender and the price feed of the collateral, on one chain.
CONSTANTS
  alice = alice
  bob = bob
  pallet = pallet
  n1 = n1
  None = None
  Accounts = {alice, bob, pallet}
  Signers = {alice, bob}
  AssetSigners = {}
  account_id = pallet
  Owner = alice
  MaxAssetId = 1
  MaxBalance = 4095
  DIV = 20
  LIMB = 1000
  Genesis <- MCGenesis
  GenesisGrant = 0
  Amounts = {10}
  PriceFeed <- MCFeed
  UtilizationFactor = 0
  InitialInterestRate = 0
  GenesisPools = {0, 1}
  InitPoolAssets = {}
  Liquidators = {bob}
  Nodes = {n1}
  Feeders = {n1}
  Authors = {n1}
  Quotes <- MCQuotes
  OtherPrices = {150}
  UnsignedInterval = 1
  longevity = 2
  U32 = 1024
  FeedId = 1
  LastCall = 2
  LastMove = 2
  MaxBlock = 5
SPECIFICATION RuntimeSpec
 
PROPERTIES MarketRefined FeedRefined HealthFollowsMarket
CHECK_DEADLOCK FALSE
