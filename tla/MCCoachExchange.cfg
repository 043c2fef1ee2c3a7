SPECIFICATION FairSpec
CONSTANTS
  MaxQueue = 1
  MaxCommands = 2
  MaxLosses = 1
  MaxDrops = 2
INVARIANTS
  HonestReport
  EverybodyHears
PROPERTIES
  ExchangeEnds
  TargetCloses
