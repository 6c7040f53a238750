SPECIFICATION SendersSpec
CONSTANTS
  Elem <- MCElem
  Zero <- MCZero
  One <- MCOne
  Plus <- MCPlus
  Times <- MCTimes
  Reciprocal <- MCReciprocal
  Code <- MCCode
  K = 2
  N = 2
  RecMaxRetries = 3
  MaxInputs = 2
  MaxRetries = 3
INVARIANTS EncodedIsCode RecodedIsCode
PROPERTY SendersReturn
