CONSTANTS
  Phases = 3
  PhaseLen = 3
  Gran = 2
  MaxAccess = 1
  FastModes = {FALSE, TRUE}
VIEW LiveView
SPECIFICATION Spec
INVARIANTS NothingOverdue SwitchIsPrompt RebaseAhead FrameLength
PROPERTIES FrameEndSticks
