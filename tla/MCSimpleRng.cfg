SPECIFICATION MCSpec
CONSTANTS
  W = 64
  Left1 = 13
  Right = 7
  Left2 = 17
  Golden <- MCGolden
  Seeds <- MCSeeds
CHECK_DEADLOCK FALSE
INVARIANTS StateNeverZero ZeroRunsAreShort
