SPECIFICATION FairSpec
CONSTANTS
  e1 = e1
  e2 = e2
  r1 = r1
  NoOp = NoOp
  Ops <- MCOps
  Reads <- MCReads
  Capacity = 1
PROPERTIES
  ExecutionsTimeOut
CHECK_DEADLOCK FALSE
