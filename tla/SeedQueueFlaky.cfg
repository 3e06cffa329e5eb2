SPECIFICATION Spec
CONSTANTS
  MaxEntries = 4
  NumSeeds = 2
  Scores = {1, 2}
  U64_MAX = 9
  Step = 2
  Slots = 2
  Wrap = 16
  CalChances = 2
  MaxCycle = 2
  Deterministic = FALSE
  SkipBadSeeds = TRUE
  SyncId = TRUE
  ImportFirst = TRUE
  Tiny <- FirstTiny
  NULL = NULL
INVARIANTS
  NothingLost
  CycleComplete
  SpliceLookupExact
  NoRepeatAfterFirstCycle
  FactorInRange
  ScoreStatsExact
