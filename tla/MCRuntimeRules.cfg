SPECIFICATION FairRules
CONSTANTS
  Spot = {s1, s2}
  Word = Word
  None = None
  MaxAge <- MCMaxAge
  Window = 3
  MaxSamples = 4
  ForSeconds = 3
  PollInterval = 1
  RetryDelay = 1
  MaxRetryDelay = 3
  DependencyWait = 5
PROPERTIES
  EventsAreEarned
  OnePlace
  EventSettles
