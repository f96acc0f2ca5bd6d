SPECIFICATION FairSpec
CONSTANTS
  j1 = j1
  j2 = j2
  u1 = u1
  u2 = u2
  s1 = s1
  Nobody = Nobody
  Jobs <- OneJob
  Users <- OneUser
  Sessions <- OneSession
  Deployments <- WithDatabase
  MaxFaults = 0
  MaxCrashes = 1
PROPERTY PollingAlwaysEnds
CHECK_DEADLOCK FALSE
