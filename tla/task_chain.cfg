SPECIFICATION Spec
CONSTANTS
  Tables <- MCTables
  Role <- MCRole
  Keys <- MCKeys
  Timed <- MCTimed
  Features <- MCFeatures
  MaxCategories = 3
  MaxPathDepth = 2
  MaxPredicates = 1
  PredicateOperators = {"eq", "gt"}
  Position <- MCPosition
  Nullable <- MCNullable
  MinSupport = 4
  MinQuery = 2
  MinClassCount = 1
  SupportFraction <- MCSupportFraction
  CutoffQuantiles <- MCCutoffQuantiles
  HorizonPercent <- MCHorizonPercent
  ShortPercent <- MCShortPercent
  LongPercent <- MCLongPercent
  MaxLabelRetries = 1
  Bundles <- MCBundles
  ProgramCutoffPercent <- MCProgramCutoffPercent
  ProgramHorizonPercent <- MCProgramHorizonPercent
  MinTotalRows = 6
  PositiveRate <- MCPositiveRate
  ValidationFraction <- MCValidationFraction
  MinValidation = 1
  TotalRows = 4
  Requests <- MCRequests
  MaxMaterializations = 2
  MaxAttempts = 2
INVARIANTS
  StagesAgree
  EligibleRowsOnly
  BuildersMeetValidator
  FutureUnseen
  QueriesComeLater
  SplitsKeepClasses
  SamplesHaveBothLabels
