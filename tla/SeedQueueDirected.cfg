SPECIFICATION FairSpec
CONSTANTS
  MaxEntries = 3
  NumSeeds = 2
  Scores = {1, 2}
  U64_MAX = 9
  Step = 1
  Slots = 3
  Wrap = 16
  CalChances = 2
  MaxCycle = 2
  Deterministic = TRUE
  SkipBadSeeds = TRUE
  SyncId = TRUE
  ImportFirst = FALSE
  Tiny <- FirstTiny
  NULL = NULL
INVARIANTS
  BestUnhandledFirst
PROPERTIES
  EveryEntryHandled
