SPECIFICATION MCSpec
CONSTANTS
  Elem <- MCBits
  Zero <- MCZero
  One <- MCOne
  Plus <- MCPlus
  Times <- MCTimes
  Reciprocal <- MCReciprocal
  Code <- MCBitsCode
  None = None
  K = 2
  N = 2
  MaxRetries = 1
  RecMaxRetries = 1
  MaxInputs = 2
  MaxInFlight = 3
INVARIANTS NothingInvented NetworkIsCoded
PROPERTY PromiseSafety
