SPECIFICATION FairSpec
CONSTANTS
  open = open
  lid = lid
  poll = poll
  NoMessage = NoMessage
  Message <- MCMessage
  Ident = {"id1", "id2"}
  IdOf <- MCIdOf
  Issued <- MCIssued
  Expires <- MCExpires
  Steps <- MCSteps
  Queries <- MCQueries
  MaxLifetime = 1
  MaxSkew = 0
  Retention = 1
  JournalLimit = 1
  MaxClock = 4
  MaxSetback = 1
INVARIANTS
  AtMostOnce
  PublishedHonest
  CrashHonest
PROPERTIES
  TerminalIsFinal
  ImplementsLedger
  SlotFreed
  ShutdownCompletes
