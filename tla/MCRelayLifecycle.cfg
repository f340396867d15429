SPECIFICATION FairSpec
CONSTANTS
  r1 = r1
  r2 = r2
  r3 = r3
  x1 = x1
  Reqs <- MCReqs
  Executors <- MCExecutors
  MaxLimit = 2
  WaitClosedBlocks = TRUE
INVARIANTS
  TypeOK
  CountsAreExact
  DrainedMeansIdle
  StopHonoursDrain
PROPERTIES
  StopReturns
CHECK_DEADLOCK FALSE
