SPECIFICATION FairSpec
CONSTANTS
  Sections = 2
  Hanging = {}
  InterruptAt <- Interruptible
  MaxGenerations = 3
  MaxFailures = 3
  MaxInterrupts = 2
CHECK_DEADLOCK FALSE
INVARIANTS
  HandoverIsClean
  SourcesAreKnown
PROPERTIES
  FailedSourceIsReplaced
  SessionsEnd
