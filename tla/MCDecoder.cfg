SPECIFICATION HSpec
CONSTANTS
  Elem <- MCElem
  Zero <- MCZero
  One <- MCOne
  Plus <- MCPlus
  Times <- MCTimes
  Reciprocal <- MCReciprocal
  Code <- MCCode
  None = None
  K = 3
  N = 1
INVARIANTS RowsInEchelonForm PayloadsFollowCoefficients DecodedIsSource RankIsDimension
