SPECIFICATION Spec
CONSTANTS
  t1 = t1
  t2 = t2
  t3 = t3
  v1 = v1
  v2 = v2
  v3 = v3
  c1 = c1
  c2 = c2
  None = None
  Tasks <- OneTask
  Versions <- ThreeVersions
  Clients <- NoClients
  Asked <- Anything
  Routings <- AnyRoute
  Arrival <- AnyOrder
  MaxRuns = 3
  CleanupRaises = FALSE
  MaxConcurrentTasks = 1
  MaxCrashes = 2
  DatabaseLocks = TRUE
INVARIANTS
  TaskMirrorsRun
PROPERTIES
  RunKeepsSnapshot
SYMMETRY Interchangeable
