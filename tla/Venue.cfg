SPECIFICATION Spec
CONSTANTS
  Clients = {"a", "b"}
  Symbols <- SymbolSeq
  Instrument <- InstrumentOf
  None = None
  Envs <- Scenes
  Levels = {"bid", "ask"}
  MaxUpdates = 4
  MaxReconnects = 2
  Requests = {"light", "heavy"}
  Weight <- WeightOf
  Capacity = 2
  Refill = 1
  MaxDrift = 0
  MaxTick = 2
  MaxSkew = 1
CHECK_DEADLOCK FALSE
INVARIANTS
  CountsNoFillTwice
  EndedIsGone
  NoFalseAlarm
  BooksAreTrue
  WithinBudget
  StaleClockHeals
PROPERTIES
  NeverOnGuess
  ResyncHeals
  AdoptsWhatRests
  KeyWakesStream
  NoSilentFeed
  StopEnds
