CONSTANTS
  bram = bram
  NoSaver = NoSaver
  cart = cart
  Order <- OneSaver
  Jobs = 1
  Interval = 1
  Retry = 1
  MaxVersion = 1
  MaxFaults = 1
  MaxGames = 0
SPECIFICATION FairSpec
PROPERTIES FailedSaveIsRetried
CHECK_DEADLOCK FALSE
