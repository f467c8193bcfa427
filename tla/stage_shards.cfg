SPECIFICATION Spec
SYMMETRY SlotSymmetry
CONSTANTS
  k1 = k1
  k2 = k2
  NumEntries = 4
  StartIndex = 1
  Count = 3
  NumShards = 2
  Slots = {k1, k2}
  PerEntry = 2
  Attempts = 2
  Overwrites = {TRUE}
  MaxRuns = 2
  MaxFaults = 1
  Crashes = FALSE
  LastFile = 1
  OptionalIn = {}
INVARIANTS
  ManifestInOrder
  ShardsCoverSlice
\* A stage that has run for the last time stops.
CHECK_DEADLOCK FALSE
