CONSTANTS
  b1 = b1
  b2 = b2
  b3 = b3
  p1 = p1
  p2 = p2
  a = a
  None = None
  Blank = Blank
  Parts <- MCParts
  Buffers <- MCBuffers
  Kinds <- MCKinds
  Conditions <- MCConditions
  FlagSets <- MCFlagSets
  CardParts <- MCParts
  MaxSettings = 1
SYMMETRY AnyBuffer
SPECIFICATION Spec
INVARIANTS
  BuffersConserved ReadsHeldSectors
PROPERTIES
  ImplementsSectorPool
CHECK_DEADLOCK FALSE
