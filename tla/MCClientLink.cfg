SPECIFICATION FairSpec
CONSTANTS
  t1 = t1
  t2 = t2
  c1 = c1
  c2 = c2
  Tools <- MCTools
  Calls <- MCCalls
  MaxSessions = 2
  ReconnectAttempts = 1
INVARIANTS
  TypeOK
  MirrorIsUpstreams
PROPERTIES
  ForwardedOnlyWhenBound
  CallsEnd
