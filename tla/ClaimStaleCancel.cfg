SPECIFICATION Spec
CONSTANTS
  t1 = t1
  t2 = t2
  t3 = t3
  v1 = v1
  v2 = v2
  v3 = v3
  c1 = c1
  c2 = c2
  None = None
  Tasks <- OneTask
  Versions <- OneVersion
  Clients <- OneClient
  Asked <- Anything
  Routings <- AnyRoute
  Arrival <- AnyOrder
  MaxRuns = 1
  CleanupRaises = FALSE
  MaxConcurrentTasks = 1
  MaxCrashes = 0
  DatabaseLocks = FALSE
PROPERTY
  CanceledIsNotDelivered
