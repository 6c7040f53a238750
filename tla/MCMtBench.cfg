SPECIFICATION MCSpec
CONSTANTS
  Elem <- MCElem
  Zero <- MCZero
  One <- MCOne
  Plus <- MCPlus
  Times <- MCTimes
  Reciprocal <- MCReciprocal
  Code <- MCCode
  K = 3
  N = 1
  Fixtures <- MCFixtures
  Available <- MCAvailable
  Requested <- MCRequested
  Unlimited = Unlimited
  MAX_CALIBRATED_GENERATIONS = 8
  TuneSamples = 1
  FinalSamples = 2
  Scores <- MCScores
INVARIANTS
  BatchIsExact
  EveryGenerationOnce
  BestIsMeasured
PROPERTY BenchmarkEnds
