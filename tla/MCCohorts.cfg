SPECIFICATION Spec
CONSTANTS
  r1 = r1
  r2 = r2
  r3 = r3
  None = None
  Runs <- ThreeRuns
  Window = 1
  LockWait = 1
  Ttl = 1
  MaxHead = 1
  MaxCohorts = 2
  Faults <- DelaysAndCrashes
INVARIANTS
  TypeOK
  SharedBaseline
  FreshBaseline
  RefreshExclusive
PROPERTIES
  ClosedForGood
  PromiseKept
SYMMETRY Interchangeable
