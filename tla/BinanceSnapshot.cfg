SPECIFICATION Spec
CONSTANTS
  Strategies = {mm}
  Instruments = {btc}
  MaxPrice = 2
  MaxQty = 1
  MaxLegs = 2
  Ladders <- TwoLegged
  StpEnabled = TRUE
  SignalsExpire = FALSE
  RiskClamps = FALSE
  MaxSignals = 2
  MaxDrops = 1
  Faults = {}
  MaxFaults = 0
  LateResponses = TRUE
INVARIANTS
  NoStacking
PROPERTIES
  PromiseKept
