SPECIFICATION FairSpec
CONSTANTS
  rpm = rpm
  gear = gear
  engine = engine
  transmission = transmission
  NoHeader = NoHeader
  Order <- PidOrder
  Override <- PidHeaders
  Default = engine
  Fallback = TRUE
  MaxFailedCycles = 2
  MaxRetry = 1
  MaxLate = 2
CHECK_DEADLOCK FALSE
INVARIANTS
  OwnAnswer
  OfflineIsCleared
PROPERTIES
  SilenceAnnounced
