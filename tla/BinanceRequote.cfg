SPECIFICATION Spec
CONSTANTS
  Strategies = {mm}
  Instruments = {btc}
  MaxPrice = 2
  MaxQty = 2
  MaxLegs = 1
  Ladders <- Requoting
  StpEnabled = TRUE
  SignalsExpire = TRUE
  RiskClamps = FALSE
  MaxSignals = 3
  MaxDrops = 0
  Faults = {}
  MaxFaults = 0
  LateResponses = FALSE
INVARIANTS
  VenueNoStacking
  UntradedAgree
