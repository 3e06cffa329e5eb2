SPECIFICATION DictSpec
CONSTANTS
  ByteBits = 4
  interesting_8 <- Interesting8
  interesting_16 <- Interesting16
  interesting_32 <- Interesting32
  MAX_AUTO_EXTRAS = 4
  USE_AUTO_EXTRAS = 2
  MIN_AUTO_EXTRA = 3
  MAX_AUTO_EXTRA = 4
  MAX_DICT_FILE = 5
  ToLower <- LowerCase
  UserTokens <- SomeUserTokens
  AutoTokens <- SomeAutoTokens
  MaxExtras = 2
  MaxAdds = 5
  MaxDeaths = 1
CHECK_DEADLOCK FALSE
INVARIANTS
  AutoFilesCurrent
PROPERTIES
  NewTokensAreNew
  OnlyRareTokensEvicted
