SPECIFICATION Spec
CONSTANTS
  None = None
  Handlers = {"h1", "h2"}
  QueueSize = 2
  MaxEvents = 4
  Strategies = {"s", "t"}
  Registered <- StrategySeq
  SignalRoom = 1
  Legs <- LegSeq
  Owner <- OwnerOf
  Intent <- IntentOf
  Priced = {"x"}
  Threshold = 2
  MaxSingle = 4
  Profile <- ProfileOf
  Sizes = {4, 6}
  Amounts = {1}
  Bounds <- BoundSet
  SimOrders = {"o"}
  MaxLot = 3
  MaxAsks = 3
  BtOrders = {1, 2}
  Latencies <- LatencySet
  LastTime = 2
  MaxData = 2
  MaxWishes = 1
  MaxLog = 4
  MaxRestarts = 3
CHECK_DEADLOCK FALSE
INVARIANTS
  BusDelivers
  WithinLeg
  WorkingIsKnown
  SimOverfill
  PunctualReplay
  KafkaSkipsOnlyUnreadable
PROPERTIES
  StopReturns
  NoSliceUnwanted
  SimCancelEnds
