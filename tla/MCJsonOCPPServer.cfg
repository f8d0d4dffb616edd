SPECIFICATION Spec
CONSTANTS
  Sockets = {s1, s2}
  Messages = {m1}
  MaxTrials = 2
  MaxPings = 2
  None = None
CHECK_DEADLOCK FALSE
INVARIANTS
  NoStuckLock
PROPERTIES
  OnlyClosedRemoved
  ClosedLeavesCache
  WaitersProceed
