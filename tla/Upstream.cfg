SPECIFICATION FairSpec
CONSTANTS
  Backend <- MCBackend
  Xiangyun = "x"
  Chain <- MCChain
  Skipped = {"blank"}
  GeminiIDs = {"g", "g4"}
  FourK <- MCFourK
  Configured = {"gemini", "openai"}
  MaxN = 2
  MaxRefs = 1
  MaxSlots = 2
INVARIANTS
  TypeOK
  PostsBounded
  AnswerComplete
  FallbackOnlyAfterUpstreamFailure
  GoodAnswerKept
PROPERTIES
  CallEnds
CHECK_DEADLOCK FALSE
