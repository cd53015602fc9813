SPECIFICATION Spec
CONSTANTS
  Strategies = {mm}
  Instruments = {btc}
  MaxPrice = 2
  MaxQty = 2
  MaxLegs = 1
  Ladders <- Resizing
  StpEnabled = TRUE
  SignalsExpire = FALSE
  RiskClamps = TRUE
  MaxSignals = 2
  MaxDrops = 0
  Faults = {"new_rejected", "cancel_rejected", "cancel_lost", "amend_rejected", "amend_lost",
            "modify_limit", "would_cross", "venue_cancel", "reply_dropped"}
  MaxFaults = 3
  LateResponses = TRUE
INVARIANTS
  FillConservation
  GoneMeansGone
