SPECIFICATION Spec
CONSTANTS
  g1 = g1
  g2 = g2
  Job = worker
  Requests <- TwoRequests
  MaxErrors = 1
  MaxCalls = 2
  Period = 2
  MaxTime = 5
  MaxAttempts = 7
SYMMETRY Interchangeable
INVARIANTS
  RateBounded
  ThumbWhole
CHECK_DEADLOCK FALSE
