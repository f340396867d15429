SPECIFICATION FairSpec
CONSTANTS
  e1 = e1
  r1 = r1
  x1 = x1
  x2 = x2
  NoConn = NoConn
  Ops <- MCOps
  Reads <- MCReads
  Conns <- MCConns
  WaitClosedBlocks = FALSE
INVARIANTS
  TypeOK
  NoOrphanWait
  AnsweredAreForgotten
PROPERTIES
  DetachedOnlyByItsOwnEnd
  EveryRequestEnds
  ImplementsForwardedCall
CHECK_DEADLOCK FALSE
