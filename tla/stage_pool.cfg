SPECIFICATION Spec
SYMMETRY SlotSymmetry
CONSTANTS
  k1 = k1
  k2 = k2
  NumEntries = 2
  StartIndex = 0
  Count = 2
  NumShards = 1
  Slots = {k1, k2}
  PerEntry = 1
  Attempts = 1
  Overwrites = {TRUE, FALSE}
  MaxRuns = 2
  MaxFaults = 1
  Crashes = TRUE
  LastFile = 1
  OptionalIn = {1}
INVARIANTS
  TypeOK
  SucceededItemsWhole
  ManifestedArtifactsWhole
  NoOrphanWorkers
PROPERTIES
  ImplementsStore
\* A stage that has run for the last time stops.
CHECK_DEADLOCK FALSE
