CONSTANTS
  Data = {d1, d2}
  Cap = 2
  CursorMod = 4
  MaxBatch = 2
SPECIFICATION Spec
INVARIANTS NoSharedCell WaitedIsReady
PROPERTIES ImplementsFifo WaitEnds
