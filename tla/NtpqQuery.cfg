SPECIFICATION FairQuerySpec
CONSTANTS
  MaxFrags = 2
  BufSize = 4
  Layouts <- MCLayouts
  MaxQueries = 2
  MaxReplies = 2
  MaxInterrupts = 1
INVARIANTS
  QueryTypeOK
  AnswersThisRequest
  OneReplyIsWhole
PROPERTY
  EveryQueryEnds
CHECK_DEADLOCK FALSE
