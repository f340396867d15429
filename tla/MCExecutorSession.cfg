SPECIFICATION Spec
CONSTANTS
  k1 = k1
  k2 = k2
  k3 = k3
  s1 = s1
  s2 = s2
  Absent = Absent
  Keys <- MCKeys
  Defs <- MCSessions
  Batches <- MCBatches
  MaxRevision = 6
  NoConn = NoConn
INVARIANTS
  TypeOK
  ClosedFormIsTheLoop
PROPERTIES
  EachRevisionIsOneChange
  OkIsWhole
  FirstRegistrationHolds
