SPECIFICATION FairSpec
CONSTANTS
  Requests = {1, 2}
  Settings = {s1, s2}
  MaxPending = 2
  MaxErrors = 1
  MaxU32 = 4
  BackoffCap = 2
INVARIANTS
  ConsumersInv
  PicturesInv
PROPERTIES
  WriterGetsIn
CHECK_DEADLOCK FALSE
