SPECIFICATION Spec
CONSTANTS
  MaxEntries = 3
  NumSeeds = 2
  NumBytes = 2
  MaxCost = 2
  CalChances = 2
  SkipMinPaths = 2
  Flaky <- LastFlaky
  NULL = NULL
INVARIANTS
  RefCountExact
  TopRatedIsCheapest
  FavoredCover
  PendingNoUnderflow
