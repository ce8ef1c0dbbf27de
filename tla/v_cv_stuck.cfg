SPECIFICATION SpecUnattended
CONSTANTS
  c1 = c1
  c2 = c2
  k1 = k1
  k2 = k2
  Nobody = Nobody
  Client = {c1}
  Align = 2
  Core = {k1}
  MaxSessions = 1
  MaxQueue = 2
  MaxJobBytes = 1
  PriorityOf <- Priorities
  AllocSizes = {1}
  JobSizes = {1}
  PoolBytes = 2
  Refusals = {}
  MaxRequests = 2
  PostsOf <- Posts
  MaxHandles = 1
  MaxRefusals = 1
  MaxOpens = 2
  Waiters = {c1}
  Leavers = {}
PROPERTY EveryRequestAnswered
CHECK_DEADLOCK FALSE
