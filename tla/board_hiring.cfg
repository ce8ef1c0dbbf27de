SPECIFICATION Spec
CONSTANTS
  m1 = m1
  m2 = m2
  j1 = j1
  j2 = j2
  e1 = e1
  e2 = e2
  e3 = e3
  Project = {m1, m2}
  Job = {j1, j2}
  Applicant = {e1, e2}
  None = None
  Cmds = {"list", "show", "job close"}
  Readers = {}
  SayTo = {}
  TtlJobs = {j1}
  CalmJoin = TRUE
  MaxViews = 2
  MaxSays = 0
  MaxLog = 11
INVARIANT Hiring
PROPERTY NoWayBack
PROPERTY FreshJobsFirst
SYMMETRY Applicants
CHECK_DEADLOCK FALSE
