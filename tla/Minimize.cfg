SPECIFICATION Spec
CONSTANTS
  Jobs <- SomeJobs
  Branches = {"x", "y"}
  Outcome <- TargetOutcome
  Symbols <- Alphabet
  TRIM_START_STEPS = 2
  TRIM_END_STEPS = 8
  TRIM_MIN_BYTES = 1
  TMIN_SET_STEPS = 2
  TMIN_SET_MIN_SIZE = 1
  MAX_AUTO_EXTRA = 6
CHECK_DEADLOCK FALSE
INVARIANTS
  OutcomeKept
  OneMinimal
  
PROPERTIES
  MinimizeEnds
