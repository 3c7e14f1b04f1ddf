SPECIFICATION FairSpec
CONSTANTS
  MaxU32 = 3
  BackoffCap = 1
  c1 = c1
  s1 = s1
  s2 = s2
  Connections = {c1}
  Sessions = {s1, s2}
  MaxInstances = 2
  MaxErrors = 1
  NoOne = NoOne
INVARIANTS
  OneConsumerPerSession
  NoOrphanSink
  ClosedCleanly
PROPERTIES
  EndedSessionsLeave
CHECK_DEADLOCK FALSE
