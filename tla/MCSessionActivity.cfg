SPECIFICATION Spec
CONSTANTS
  Window = 2
  Skew = 1
  RingMax = 1
  ConfirmTicks = 2
  Gaps = {0, 2, 3}
  MaxFacts = 2
  MaxRestarts = 1
  None = None
INVARIANTS
  TypeOK
  ReportedOnce
  FeedComplete
PROPERTIES
  ImplementsFeed
  InterruptSeen
  AnswersSummarised
CHECK_DEADLOCK FALSE
