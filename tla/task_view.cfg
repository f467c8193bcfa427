SPECIFICATION Spec
CONSTANTS
  Tables = {"customer", "order", "item", "note"}
  Timed = {"order", "item"}
  Keys <- MCKeys
  Databases <- MCDatabases
  Cutoffs = {0, 1}
INVARIANTS
  TypeOK
  ViewClosed
  NothingHiddenInVain
PROPERTY ViewEnds
CHECK_DEADLOCK FALSE
