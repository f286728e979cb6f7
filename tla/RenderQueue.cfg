CONSTANTS
  QueueSize = 2
  BurstSize = 2
  MaxBurst = 1
  CounterMod = 6
  Lines = 2
  BusyLine = 1
  Batch = 2
  SpinBudget = 2
  BusyWaitAllowed = TRUE
  Calls <- AllCalls
SPECIFICATION Spec
VIEW QueueView
INVARIANTS
  CommandsIntact
  DrawSeesItsFrame
  StateIsSettled
  NobodyStranded
