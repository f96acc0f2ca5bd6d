SPECIFICATION FairSpec
CONSTANTS
  r1 = r1
  r2 = r2
  u1 = u1
  Users <- OneUser
  Uploads <- TwoUploads
  NoUpload = NoUpload
  MaxSlots = 2
  ImageBytes = 2
  ThumbBytes = 1
  InitQuota = 5
  MaxInt = 7
  Quotas <- AdminQuotas
  Deltas <- AdminDeltas
  MaxFaults = 1
INVARIANTS
  TypeOK
  UsedIsLedgerSum
  ChargedIsStored
  AllOrNothing
  NoFreeStorage
PROPERTIES
  ChargesAreAtomic
  UploadsEnd
CHECK_DEADLOCK FALSE
