SPECIFICATION FairSpec
CONSTANTS
  Strategies = {mm}
  Instruments = {btc}
  MaxPrice = 2
  MaxQty = 2
  MaxLegs = 1
  Ladders <- Resizing
  StpEnabled = TRUE
  SignalsExpire = FALSE
  RiskClamps = FALSE
  MaxSignals = 2
  MaxDrops = 0
  Faults = {"new_lost", "amend_rejected", "amend_lost", "modify_limit"}
  MaxFaults = 1
  LateResponses = TRUE
PROPERTIES
  PendingResolves
  CancelsComplete
