SPECIFICATION Spec
CONSTANTS
  rpm = rpm
  gear = gear
  engine = engine
  transmission = transmission
  NoHeader = NoHeader
  Order <- PidOrder
  Override <- PidHeaders
  Default = engine
  Fallback = TRUE
  MaxFailedCycles = 2
  MaxRetry = 1
  MaxLate = 0
CHECK_DEADLOCK FALSE
INVARIANTS
  AskedOnItsHeader
