SPECIFICATION Spec
CONSTANTS
  Watchdogs = {"hughes"}
  Sections = 2
  MaxRetry = 2
  Managers = {m1, m2, m3, m4}
  NoManager = NoManager
SYMMETRY Interchangeable
CHECK_DEADLOCK FALSE
INVARIANTS
  SlotIsReleased
