SPECIFICATION Spec
CONSTANTS
  Slots = {b1, b2}
  ALIGN = 2
  UsizeMax = 15
  IsizeMax = 7
  Memory <- MCMemory
  Byte <- MCByte
  Poison = Poison
  Lens <- MCLens
  Sources <- MCSources
  None = None
INVARIANTS
  BuffersFit
  EachOwnsItsBlock
PROPERTY BuffersAreValues
