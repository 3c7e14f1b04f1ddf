SPECIFICATION Spec
CONSTANTS
  MaxU32 = 3
  BackoffCap = 1
  m1 = m1
  m2 = m2
  Media = {m1, m2}
  MaxStreams = 2
  MaxHandles = 2
CONSTRAINT OneMediumForTheSecond
SYMMETRY Symmetry
INVARIANTS
  ValveFollowsClients
  ReachableWhenIdle
  MediaInv
CHECK_DEADLOCK FALSE
