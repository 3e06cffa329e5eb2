SPECIFICATION Spec
CONSTANTS
  ByteBits = 5
  interesting_8 <- Interesting8
  interesting_16 <- Interesting16
  interesting_32 <- Interesting32
  MAX_AUTO_EXTRAS = 2
  USE_AUTO_EXTRAS = 1
  MIN_AUTO_EXTRA = 2
  MAX_AUTO_EXTRA = 3
  MAX_DICT_FILE = 3
  ToLower <- LowerCase
  UserTokens = {}
  AutoTokens = {}
  MaxExtras = 3
  MaxAdds = 0
  MaxDeaths = 0
  ARITH_MAX = 4
  EFF_MAP_SCALE2 = 1
  EFF_MIN_LEN = 4
  EFF_MAX_PERC = 90
  MAX_DET_EXTRAS = 2
  MAX_FILE = 7
  Cksums = {0, 1, 2}
  XOR <- BitXor
  Entries <- SomeEntries
  avg_exec_us = 10
  avg_bitmap_size = 10
  HAVOC_CYCLES = 1
  HAVOC_CYCLES_INIT = 2
  HAVOC_MIN = 1
  havoc_div = 1
  HAVOC_MAX_MULT = 2
  SPLICE_CYCLES = 2
  SPLICE_HAVOC = 1
  HAVOC_BLK_SMALL = 1
  HAVOC_BLK_MEDIUM = 2
  HAVOC_BLK_LARGE = 2
  HAVOC_BLK_XL = 3
  MaxTweaks = 2
  MaxFinds = 2
CHECK_DEADLOCK FALSE
INVARIANTS
  DetComplete
  StageCountsExact
  TokensExact
  
PROPERTIES
  FuzzOneReturns
