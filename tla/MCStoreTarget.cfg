SPECIFICATION FairStoreSpec
CONSTANTS
  p1 = p1
  p2 = p2
  p3 = p3
  c1 = c1
  c2 = c2
  Free = Free
  Producer = {p1, p2, p3}
  Closer = {c1, c2}
  Targets = 3
  Depth = 2
  MaxSequence = 5
  MaxFailures = 2
CHECK_DEADLOCK FALSE
INVARIANTS
  StoreIsFaithful
PROPERTIES
  ImplementsLog
  EverythingIsOffered
  CloseReturns
