SPECIFICATION FairSpec
CONSTANTS
  s1 = s1
  fan = fan
  panel = panel
  dimmer = dimmer
  Coach = Coach
  Maintenance = Maintenance
  Free = Free
  Maps <- MCMaps
  Source = {s1}
  Entity = {fan}
  Reading = {panel, dimmer}
  Bound = {panel}
  PublishState = TRUE
  Depth = 1
  MaxReadings = 2
  MaxLog = 4
INVARIANTS
  OneHistory
  EventsAlternate
PROPERTIES
  PublishReturns
  ExpiryAnnounced
