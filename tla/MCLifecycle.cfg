SPECIFICATION FairSpec
CONSTANTS
  MaxU32 = 3
  BackoffCap = 4
  Background = {rtsp1, rtsp2}
  Requesters = {webrtc}
  Watcher = watcher
  NoOne = noone
  Capacity = 2
INVARIANTS
  LifecycleInv
  EagerNeverParks
  ExactCount
  DriftFollowsLoss
PROPERTIES
  ImplementsLease
  EveryRequestReturns
CHECK_DEADLOCK FALSE
