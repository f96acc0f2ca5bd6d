SPECIFICATION Spec
CONSTANTS
  j1 = j1
  j2 = j2
  u1 = u1
  u2 = u2
  s1 = s1
  Nobody = Nobody
  Jobs <- TwoJobs
  Users <- OneUser
  Sessions <- OneSession
  Deployments <- OneOfEach
  MaxFaults = 0
  MaxCrashes = 1
SYMMETRY Symmetry
INVARIANTS
  OneOwner
  UnfinishedHasWorker
PROPERTIES
  TerminalIsFinal
  LifecycleSafeSpec
CHECK_DEADLOCK FALSE
