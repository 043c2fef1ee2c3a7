SPECIFICATION FairSpec
CONSTANTS
  Section = {"rvc", "wled", "ble"}
  rvc = "rvc"
  wled = "wled"
  Entity = {"lamp", "strip", "tank"}
  FieldsOf <- MCFieldsOf
  SectionOf <- MCSectionOf
  Selections <- MCSelections
  NoReader = NoReader
INVARIANTS
  ObservedHonest
  NoLostWakeup
  RequestsKept
PROPERTIES
  RefreshEnds
