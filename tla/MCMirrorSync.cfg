SPECIFICATION FairSpec
CONSTANTS
  k1 = k1
  k2 = k2
  d1 = d1
  d2 = d2
  Absent = Absent
  Keys <- MCKeys
  Defs <- MCDefs
  MaxRevision = 4
  ReconnectAttempts = 1
INVARIANTS
  TypeOK
  MirrorIsAPastHost
PROPERTIES
  EventsCarryOneVersion
  ImplementsVersionedRegister
  BindEnds
CHECK_DEADLOCK FALSE
