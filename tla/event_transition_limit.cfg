SPECIFICATION Spec
CONSTANTS
  Start = 1
  End = 3
  States = {"active", "idle", "blocked"}
  Terminals = {"blocked"}
  NumChannels = 1
  Clocks = {"duration_driven"}
  Waits = {1, 2}
  Limit = 3
INVARIANT StepsWithinLimit
CHECK_DEADLOCK FALSE
