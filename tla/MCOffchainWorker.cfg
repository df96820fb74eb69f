\* Two nodes and somebody else race to deliver prices over two windows; one node builds the
\* blocks.
CONSTANTS
  n1 = n1
  n2 = n2
  None = None
  Nodes = {n1, n2}
  Feeders = {n1, n2}
  Authors = {n2}
  Quotes <- OneQuote
  OtherPrices = {7}
  UnsignedInterval = 2
  longevity = 2
  U32 = 1024
  GenesisPrice = 300
  MaxBlock = 4
  MaxBalance = 4095
  DIV = 100
  LIMB = 1000
SPECIFICATION FairSpec
INVARIANTS WorkerTypeOK
PROPERTIES PricesAreSpaced PricesInOrder PriceArrives
CHECK_DEADLOCK FALSE
