SPECIFICATION Spec
CONSTANTS
  v1 = v1
  v2 = v2
  Stores = {"memory", "mysql"}
  Readers = {"list", "feed", "admin", "stats", "models", "series"}
  Jobs = {1, 2, 3}
  Few = {1, 2}
  Owners <- SomeOwners
  Groups <- TwoGroups
  Codes <- TwoCodes
  Requests <- TwoRequests
  TTL = 1
  MaxLag = 1
  MaxClock = 2
  MaxFaults = 1
  Limit = 1
  Bucket = 2
  Zone = 1
  Windows <- SomeWindows
INVARIANTS
  TypeOK
  MemoryBrowseSeesAll
  RepeatOnlyAfterEviction
  AdminBrowseComplete
  StatsAddUp
  SeriesCountsOnce
PROPERTIES
  StampedOnce
CHECK_DEADLOCK FALSE
