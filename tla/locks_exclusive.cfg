SPECIFICATION Spec
CONSTANTS
  p1 = p1
  p2 = p2
  A = A
  B = B
  dir = dir
  file = file
  other = other
  Proc = {p1, p2}
  Owner = {A, B}
  NoOwner = NoOwner
  OwnerOf <- TwoAgents
  Path = {dir, file, other}
  Below <- Inside
  PathSets <- Lists
  Cmds = {"wait", "release", "reap", "alive"}
  WaitSecs = {1}
  BusySecs = {2}
  StaleAfter = 0
  MutexStaleSecs = 1
  MaxTries = 0
  CanStall = FALSE
  KillPoints = {"hbread", "hbwrite", "mkdir", "judge"}
  MaxKills = 1
  MaxTime = 1
INVARIANT MutexExclusion
INVARIANT Exclusive
INVARIANT SuccessMeansHeld
INVARIANT AllOrNothing
PROPERTY ImplementsTable
PROPERTY RemovedOnPurpose
PROPERTY BusyWindowKept
