SPECIFICATION HSpec
CONSTANTS
  Elem <- MCElem
  Zero <- MCZero
  One <- MCOne
  Plus <- MCPlus
  Times <- MCTimes
  Reciprocal <- MCReciprocal
  Code <- MCCode
  None = None
  K = 2
  N = 2
INVARIANT IInv
PROPERTIES ImplementsPromise CallReturns
