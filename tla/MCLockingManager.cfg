SPECIFICATION LockSpec
CONSTANTS
  NoLock = NoLock
  Procs = {p1, p2}
  Validity = 2
  Timeout = 1
  MaxLockFailures = 2
INVARIANTS
  HolderOwnsLock
  ExclusiveUntilTakeover
  NoOrphanWithoutFailure
PROPERTIES
  NobodyBlocked
