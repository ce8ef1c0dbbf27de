SPECIFICATION Spec
CONSTANTS
  m1 = m1
  m2 = m2
  j1 = j1
  j2 = j2
  e1 = e1
  e2 = e2
  e3 = e3
  Project = {m1}
  Job = {j1}
  Applicant = {e1}
  None = None
  Cmds = {"list"}
  Readers = {}
  SayTo = {}
  TtlJobs = {j1}
  CalmJoin = TRUE
  MaxViews = 1
  MaxSays = 0
  MaxLog = 20
INVARIANT ToldOutcome
CHECK_DEADLOCK FALSE
