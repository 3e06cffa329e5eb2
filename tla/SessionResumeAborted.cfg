SPECIFICATION Spec
CONSTANTS
  c1 = c1
  c2 = c2
  c3 = c3
  Cases <- Three
  SeedSeq <- Two
  NumSeeds = 2
  MaxCases = 3
  MaxCrashes = 3
  SkipDet = FALSE
  EMPTY = EMPTY
  NONE = NONE
INVARIANTS
  OnlyCopyKept
