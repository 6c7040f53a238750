SPECIFICATION Spec
CONSTANTS
  Elem <- MCElem
  Zero <- MCZero
  One <- MCOne
  Plus <- MCPlus
  Times <- MCTimes
  Reciprocal <- MCReciprocal
  Lane = 2
  Tiers <- MCTiers
  Memory <- MCMemory
  Calls <- MCCalls
  Block = 16
  FusedLen = 32
  FusedCount = 2
INVARIANTS ValidBeforeMutation SingleIsReference MultiIsReference AccessIsSound
PROPERTY CallEnds
CHECK_DEADLOCK FALSE
