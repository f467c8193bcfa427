SPECIFICATION Spec
CONSTANTS
  Motifs <- DefaultMotifs
  Weighted <- AllMotifTypes
  MinTables = 4
  MaxTables = 4
  TableCounts = {}
  MaxRank = 3
  MaxExtraEdges = 0
  MinOccurrences = 3
  MaxOccurrences = 4
INVARIANT MinimumOccurrencesReached
CHECK_DEADLOCK FALSE
