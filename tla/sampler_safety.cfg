SPECIFICATION Spec
CONSTANTS
  Motifs <- DefaultMotifs
  Weighted <- AllMotifTypes
  MinTables = 2
  MaxTables = 5
  TableCounts = {}
  MaxRank = 3
  MaxExtraEdges = 2
  MinOccurrences = 1
  MaxOccurrences = 3
INVARIANTS
  TypeOK
  ForeignKeysLegal
  ConnectedThroughout
  NeverRejected
PROPERTIES
  ImplementsGrowth
  SampleTerminates
\* sample() returns.
CHECK_DEADLOCK FALSE
