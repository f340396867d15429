SPECIFICATION Spec
CONSTANTS
  e1 = e1
  r1 = r1
  x1 = x1
  x2 = x2
  NoConn = NoConn
  Ops <- MCOps
  Reads <- MCReads
  Conns <- MCConns
  WaitClosedBlocks = FALSE
PROPERTY CallsFailOnceDisconnected
CHECK_DEADLOCK FALSE
