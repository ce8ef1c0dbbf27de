SPECIFICATION Spec
CONSTANTS
  c1 = c1
  c2 = c2
  k1 = k1
  k2 = k2
  Nobody = Nobody
  Client = {c1, c2}
  Align = 2
  Core = {k1}
  MaxSessions = 2
  MaxQueue = 2
  MaxJobBytes = 1
  PriorityOf <- Priorities
  AllocSizes = {1, 3}
  JobSizes = {1}
  PoolBytes = 4
  Refusals = {"BUSY", "HW_ERROR"}
  MaxRequests = 3
  PostsOf <- Posts
  MaxHandles = 2
  MaxRefusals = 1
  MaxOpens = 2
  Waiters = {c1}
  Leavers = {c2}
INVARIANT TypeOK
INVARIANT OnePlace
INVARIANT QueueOrder
INVARIANT Accounts
INVARIANT PoolSound
INVARIANT HwMemory
INVARIANT NothingLost
INVARIANT StatsMatch
INVARIANT NothingLeftBehind
PROPERTY NoLateWake
PROPERTY EveryRequestAnswered
CHECK_DEADLOCK FALSE
