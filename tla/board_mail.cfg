SPECIFICATION Spec
CONSTANTS
  m1 = m1
  m2 = m2
  j1 = j1
  j2 = j2
  e1 = e1
  e2 = e2
  e3 = e3
  Project = {m1}
  Job = {j1}
  Applicant = {e1, e2}
  None = None
  Cmds = {"say", "job close", "project close", "kill"}
  Readers = {m1, e1}
  SayTo = {"all", "agent"}
  TtlJobs = {}
  CalmJoin = TRUE
  MaxViews = 1
  MaxSays = 1
  MaxLog = 11
INVARIANT TypeOK
INVARIANT NothingSkipped
INVARIANT ChannelsOfMembers
CHECK_DEADLOCK FALSE
