SPECIFICATION MCSpec
CONSTANTS
  Elem <- MCElem
  Zero <- MCZero
  One <- MCOne
  Plus <- MCPlus
  Times <- MCTimes
  Reciprocal <- MCReciprocal
  MatRows = 3
  MatCols = 3
  Align = 2
  NoRank = NoRank
INVARIANTS RowSpaceKept RankIsRowRank FullyReduced ZeroRowMeansDependent PaddingIsZero
