SPECIFICATION Spec
CONSTANTS
  EntityRows <- MCEntityRows
  LookupRows <- MCLookupRows
  EventFanout <- MCEventFanout
  DetailFanout <- MCDetailFanout
  BridgeFactor <- MCBridgeFactor
  ChildFactor <- MCChildFactor
  MaxRows = 2
  OptionalRates = {0, 1}
  CalendarEnd = 4
  Ticks = {0, 4}
  MaxParents = 1
  MaxDepth = 2
  MaxPerOwner = 2
  HardFactor = 1
  HardFloor = 2
  Requests <- LagRequests
  MaxAttempts = 2

INVARIANT ChildrenAfterParents
