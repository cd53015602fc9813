SPECIFICATION Spec
CONSTANTS
  Strategies = {mm, arb}
  Instruments = {btc}
  MaxPrice = 2
  MaxQty = 1
  MaxLegs = 1
  Ladders <- SamePrice
  StpEnabled = TRUE
  SignalsExpire = FALSE
  RiskClamps = FALSE
  MaxSignals = 3
  MaxDrops = 0
  Faults = {}
  MaxFaults = 0
  LateResponses = FALSE
INVARIANTS
  NoSelfTrade
