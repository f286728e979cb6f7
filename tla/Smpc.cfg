SPECIFICATION FairSpec
VIEW LiveView
CONSTANTS
  Nibbles = 4
  Lengths <- MCLengths
  MaxLate = 2
  None = None
INVARIANTS
  PacketsWhole
  PowerAsAsked
PROPERTIES
  CommandsEnd
