CONSTANTS
  MaxLba = 1
  CacheSize = 1
  Circulating = 2
  ReadAhead = 2
  Flaky = {1}
  FastSub = {0}
SPECIFICATION ReaderSpec
VIEW LiveView
INVARIANTS SlotsConserved
PROPERTIES HintSeen CloseEnds ImplementsSectorService
