SPECIFICATION RandSpec
CONSTANTS
  RAND_MAX = 1000
  IntMax = 8191
  Seeds <- MainSeeds
  MaxDraws = 8
INVARIANT RandInRange
CHECK_DEADLOCK FALSE
