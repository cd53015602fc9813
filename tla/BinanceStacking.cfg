SPECIFICATION Spec
CONSTANTS
  Strategies = {mm}
  Instruments = {btc}
  MaxPrice = 2
  MaxQty = 2
  MaxLegs = 1
  Ladders <- Resizing
  StpEnabled = TRUE
  SignalsExpire = FALSE
  RiskClamps = FALSE
  MaxSignals = 3
  MaxDrops = 0
  Faults = {}
  MaxFaults = 0
  LateResponses = FALSE
INVARIANTS
  VenueNoStacking
