SPECIFICATION FairSpec
CONSTANTS
  First = 2
  LeadOut = 4
  Audio <- MCAudio
  NumBuffers = 1
  Forever = 2
  Jump = 2
  Discs = {d1, d2}
  NoDisc = NoDisc
  Plays <- MCPlays
  Patient = TRUE
  WaitsForPause = TRUE
  MaxCommands = 3
  MaxDiscs = 2
  MaxCalls = 3
  LoadsEjected = FALSE
INVARIANTS
  HeldImageIsOpen
  TocIsOfTheDisc
PROPERTIES
  ImplementsPlayService
  PlayEnds
  DiscIsRead
CHECK_DEADLOCK FALSE
