SPECIFICATION FairSpec
CONSTANTS
  t1 = t1
  t2 = t2
  t3 = t3
  v1 = v1
  v2 = v2
  v3 = v3
  c1 = c1
  c2 = c2
  None = None
  Tasks <- ThreeTasks
  Versions <- OneVersion
  Clients <- OneClient
  Asked <- OnlyRetries
  Routings <- OnlyMatched
  Arrival <- OneByOne
  MaxRuns = 3
  CleanupRaises = TRUE
  MaxConcurrentTasks = 2
  MaxCrashes = 0
  DatabaseLocks = FALSE
PROPERTIES
  QueuedIsServed
  ExecutorsFinish
