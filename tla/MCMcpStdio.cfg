SPECIFICATION FairSpec
CONSTANTS
  MaxMessages = 3
INVARIANTS
  TypeOK
  AnswersFollowRequests
  AnswersMatchTheHost
PROPERTIES
  EveryMessageIsServed
CHECK_DEADLOCK FALSE
