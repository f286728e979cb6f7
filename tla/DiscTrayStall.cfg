SPECIFICATION FairSpec
CONSTANTS
  First = 2
  LeadOut = 4
  Audio <- MCAudio
  NumBuffers = 1
  Forever = 2
  Jump = 2
  Discs = {d1}
  NoDisc = NoDisc
  Plays <- MCPlays
  Patient = TRUE
  WaitsForPause = FALSE
  MaxCommands = 3
  MaxDiscs = 2
  MaxCalls = 0
  LoadsEjected = FALSE
PROPERTIES
  PlayEnds
CHECK_DEADLOCK FALSE
