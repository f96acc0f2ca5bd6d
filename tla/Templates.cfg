SPECIFICATION Spec
CONSTANTS
  ua = ua
  ub = ub
  j1 = j1
  j2 = j2
  r1 = r1
  r2 = r2
  r3 = r3
  Users <- TwoUsers
  Admins <- OneAdmin
  Jobs <- TwoJobs
  NoJob = NoJob
  Requests <- ThreeRequests
  Filters = {"", "public"}
  Limit = 1
  MaxClock = 1
SYMMETRY Interchangeable
INVARIANTS
  TypeOK
  SavesAccounted
  AdminPagesComplete
CHECK_DEADLOCK FALSE
