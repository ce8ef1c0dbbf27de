SPECIFICATION Spec
CONSTANTS
  p1 = p1
  p2 = p2
  A = A
  B = B
  dir = dir
  file = file
  other = other
  Proc = {p1, p2}
  Owner = {A, B}
  NoOwner = NoOwner
  OwnerOf <- TwoAgents
  Path = {dir, file, other}
  Below <- Inside
  PathSets <- Lists
  Cmds = {"acquire", "release"}
  WaitSecs = {}
  BusySecs = {}
  StaleAfter = 0
  MutexStaleSecs = 1
  MaxTries = 0
  CanStall = FALSE
  KillPoints = {"write"}
  MaxKills = 1
  MaxTime = 2
INVARIANT Exclusive
