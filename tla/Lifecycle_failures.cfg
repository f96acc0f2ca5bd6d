SPECIFICATION FairSpec
CONSTANTS
  j1 = j1
  j2 = j2
  u1 = u1
  u2 = u2
  s1 = s1
  Nobody = Nobody
  Jobs <- OneJob
  Users <- TwoUsers
  Sessions <- OneSession
  Deployments <- AllDeployments
  MaxFaults = 2
  MaxCrashes = 1
INVARIANTS
  TypeOK
  ResultMatchesStatus
  ChargedToOwner
  PublishedWithConsent
PROPERTIES
  OwnerIsSticky
  PollingEnds
CHECK_DEADLOCK FALSE
