CONSTANTS
  Notifiers = {n1, n2}
  Backends = {"address", "sleep"}
  EpochMod = 3
  SpinBudget = 1
SPECIFICATION EventSpec
INVARIANTS NoLostWakeup
PROPERTIES ImplementsWaitEvent
