CONSTANTS
  Levels = {0, 1}
  Write = Write
  Factor <- StartFactor
  Units = 2
  Cost = 2
  Gran = 2
  Half = 10
  FrameLen = 3
  Stride = 2
  FastModes = {FALSE, TRUE}
  BusAccesses = TRUE
SPECIFICATION Spec
INVARIANTS ActiveIsScheduled NotAhead
PROPERTIES VisitMoves
