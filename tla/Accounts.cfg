SPECIFICATION FairSpec
CONSTANTS
  u1 = u1
  u2 = u2
  w1 = w1
  w2 = w2
  r1 = r1
  r2 = r2
  r3 = r3
  Users <- TwoUsers
  Words <- TwoWords
  Requests <- ThreeRequests
  NoAccount = NoAccount
  TTL = 1
  MaxClock = 1
  MaxFaults = 1
INVARIANTS
  TypeOK
  StaleSessionIsLate
  SettingsKept
PROPERTIES
  PasswordOnlyByReset
  ExpiredSwept
CHECK_DEADLOCK FALSE
