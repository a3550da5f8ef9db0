SPECIFICATION FairSpec
CONSTANTS
  Format = "redmine"
  NumTickets = 2
  p1 = p1
  p2 = p2
  None = None
  Projects = {p1, p2}
  Priority <- SamePriority
  Filtered <- Everything
  Conditioned <- OneEach
  PageSize = 1
  DayLength = 2
  Quiet <- SettledQuiet
  MaxTime = 3
  Edited = {1}
  MaxFailures = 1
  MaxSwitches = 2
  Running <- FirstOnly
  c1 = c1
  Clients = {c1}
  Apart <- PollsApart
INVARIANT TypeOK
INVARIANT CursorCovers
PROPERTY TicketsArrive
CHECK_DEADLOCK FALSE
