SPECIFICATION FairSpec
CONSTANTS
  r1 = r1
  r2 = r2
  r3 = r3
  None = None
  Runs <- ThreeRuns
  Window = 1
  LockWait = 0
  Ttl = 2
  MaxHead = 0
  MaxCohorts = 2
  Faults <- LocksAndCrashes
PROPERTY WaitersAnswered
