SPECIFICATION Spec
CONSTANTS
  r1 = r1
  r2 = r2
  h1 = h1
  h2 = h2
  Tasks = {t1, t2}
  Unknown = {t2}
  Runs = {r1, r2}
  Hosts = {h1, h2}
  HostOf <- MCHostOf
  Parallel = 2
  MaxCrashes = 1
  MaxFailures = 1
  None = None
CHECK_DEADLOCK FALSE
INVARIANTS
  
  RunningIsRun
  OncePerRunAndCrash
PROPERTIES
  TaskFinishes
