CONSTANTS
  bram = bram
  NoSaver = NoSaver
  cart = cart
  Order <- TwoSavers
  Jobs = 1
  Interval = 2
  Retry = 1
  MaxVersion = 2
  MaxFaults = 2
  MaxGames = 1
SPECIFICATION FairSpec
INVARIANTS JobsConserved NothingForgotten SavesInOrder ClosedMeansSaved
PROPERTIES CloseEnds ReportedFailureIsRetried EverySaveLands
CHECK_DEADLOCK FALSE
