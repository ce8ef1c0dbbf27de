SPECIFICATION Spec
CONSTANTS
  m1 = m1
  m2 = m2
  j1 = j1
  j2 = j2
  e1 = e1
  e2 = e2
  e3 = e3
  Project = {m1}
  Job = {j1}
  Applicant = {e1}
  None = None
  Cmds = {"say"}
  Readers = {e1}
  SayTo = {}
  TtlJobs = {}
  CalmJoin = FALSE
  MaxViews = 1
  MaxSays = 1
  MaxLog = 20
INVARIANT NothingSkipped
CHECK_DEADLOCK FALSE
