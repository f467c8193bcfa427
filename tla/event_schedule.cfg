SPECIFICATION Spec
CONSTANTS
  Start = 1
  End = 3
  States = {"active", "idle", "blocked"}
  Terminals = {"blocked"}
  NumChannels = 2
  Clocks = {"event_driven", "duration_driven", "hybrid"}
  Waits = {1, 2}
  Limit = 5
INVARIANTS
  TypeOK
  TransitionsAccepted
  RecordedStatesStand
  EventsDistinctAndInOrder
  OnePendingEach
  NothingAfterTerminal
  TrajectoryReloads
CHECK_DEADLOCK FALSE
PROPERTY ImplementsHistory
