SPECIFICATION SyncSpec
CONSTANTS
  c1 = c1
  c2 = c2
  c3 = c3
  Cases <- Three
  SeedSeq <- One
  NumSeeds = 1
  MaxCases = 3
  MaxCrashes = 1
  SkipDet = TRUE
  MaxStops = 1
  EMPTY = EMPTY
  NONE = NONE
INVARIANTS
  PassedMeansExecuted
PROPERTIES
  ExecutedOnce
