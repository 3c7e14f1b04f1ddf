SPECIFICATION FairSpec
CONSTANTS
  MaxU32 = 5
  BackoffCap = 2
  Clients = {c1, c2}
  Grace = 2
  EvictAfter = 3
  MaxPins = 2
INVARIANTS
  WatcherInv
  EvictedOnlyAfterTimeout
PROPERTIES
  FullGrace
  Served
  Released
CHECK_DEADLOCK FALSE
