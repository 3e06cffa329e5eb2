SPECIFICATION Spec
CONSTANTS
  MAP_SIZE = 8
  DFG_MAP_SIZE = 3
  Blocks <- Program
  instr_targets <- Selected
  CurLocs <- Locations
  afl_start_code = 16
  afl_end_code = 120
  afl_inst_rms = 7
  XOR <- BitXor
  Configs <- SomeConfigs
  DfgFiles <- SomeDfgFiles
  Inputs <- SomeInputs
  WordBytes = 2
  CAL_CYCLES = 1
  CAL_CYCLES_LONG = 2
  KEEP_UNIQUE_HANG = 1
  KEEP_UNIQUE_CRASH = 2
  TMOUT_LIMIT = 0
  MaxExecs = 3
  MaxRestarts = 1
CHECK_DEADLOCK FALSE
INVARIANTS
  
  NodesInRange
  ProximityExact
  VirginExact
  
  FaultsUnique
