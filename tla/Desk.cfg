SPECIFICATION Spec
CONSTANTS
  Instruments = {"btc", "eth"}
  Prices <- PriceSet
  DayLength = 2
  None = None
  MaxDrops = 1
  BucketVolume = 4
  RollingBuckets = 2
  MaxVerdictDrops = 1
  Desks <- DeskSet
  Makers = {"market_making", "microprice_mm", "grid", "obi_alpha", "avellaneda_stoikov", "glft", "mean_reversion"}
  MaxInventory = 1
  Size = 1
  Levels = 2
  Step = 1
  HalfSpread = 1
  Widened = 2
  Lean = 1
  MinMove = 2
  Bids = {1, 3}
  ToxicBids = {1}
  Offsets = {0, 1}
  MaxSurprise = 1
CHECK_DEADLOCK FALSE
INVARIANTS
  EquityIdentity
  RiskKnowsPositions
  
  NothingAfterLatch
  HaltClears
  ThrottleBounds
  InventoryBounded
PROPERTIES
  LossStops
  VpinSustained
  QuotesReturn
