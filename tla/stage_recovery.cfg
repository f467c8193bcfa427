SPECIFICATION FairSpec
CONSTANTS
  k1 = k1
  k2 = k2
  NumEntries = 1
  StartIndex = 0
  Count = 2
  NumShards = 1
  Slots = {k1, k2}
  PerEntry = 1
  Attempts = 1
  Overwrites = {TRUE}
  MaxRuns = 3
  MaxFaults = 2
  Crashes = TRUE
  LastFile = 1
  OptionalIn = {1}
INVARIANTS
  NoLeftoversPublished
PROPERTIES
  RunsEnd
  OverwritingRunRecovers
\* A stage that has run for the last time stops.
CHECK_DEADLOCK FALSE
