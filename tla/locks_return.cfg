SPECIFICATION FairSpec
CONSTANTS
  p1 = p1
  p2 = p2
  A = A
  B = B
  dir = dir
  file = file
  other = other
  Proc = {p1, p2}
  Owner = {A, B}
  NoOwner = NoOwner
  OwnerOf <- TwoAgents
  Path = {file}
  Below = {}
  PathSets <- FileOnly
  Cmds = {"wait", "break"}
  WaitSecs = {1}
  BusySecs = {}
  StaleAfter = 0
  MutexStaleSecs = 0
  MaxTries = 1
  CanStall = TRUE
  KillPoints = {"mkdir", "stamp", "write", "remove"}
  MaxKills = 1
  MaxTime = 2
INVARIANT TypeOK
PROPERTY EveryCallReturns
PROPERTY DeadMutexRemoved
