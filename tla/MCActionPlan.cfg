SPECIFICATION PlanSpec
CONSTANTS
  Bad = Bad
  Unknown = Unknown
  MaxInstance = 4
  MaxFrameWait = 1
  Aliases <- MCAliases
  SourceType <- MCSourceType
  Writable = {"rvc", "wled"}
  Wirings <- MCWirings
  Factories <- MCFactories
  Overlays <- MCOverlays
  Policies <- MCPolicies
  Requests <- MCRequests
  Levels = {0, 1, 2, 3, 4}
  MaxChain = 3
  MaxSteps = 5
  MaxDuration = 7
  MaxDepth = 3
CHECK_DEADLOCK FALSE
INVARIANTS
  SourcesStartInOrder
  OverlayOnlyAdds
  PolicyIsSound
  PlanIsAuthorized
  OnlyWholeActions
