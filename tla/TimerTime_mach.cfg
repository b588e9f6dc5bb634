SPECIFICATION Spec
CONSTANTS
  K = 3
  MaxMac = 31
  UnsignedSec = TRUE
  Step = 2
  MaxSec = 8
INVARIANTS DueAfterDelay RemainingIsExact
CHECK_DEADLOCK FALSE
