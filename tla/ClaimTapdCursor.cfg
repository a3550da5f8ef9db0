SPECIFICATION Spec
CONSTANTS
  Format = "tapd"
  NumTickets = 2
  p1 = p1
  p2 = p2
  None = None
  Projects = {p1, p2}
  Priority <- SamePriority
  Filtered <- Everything
  Conditioned <- OneEach
  PageSize = 1
  DayLength = 2
  Quiet <- AllQuiet
  MaxTime = 3
  Edited = {1, 2}
  MaxFailures = 1
  MaxSwitches = 2
  Running <- FirstOnly
  c1 = c1
  Clients = {c1}
  Apart <- PollsApart
CHECK_DEADLOCK FALSE
INVARIANT NothingPassedOver
