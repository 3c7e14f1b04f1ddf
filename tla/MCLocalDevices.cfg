SPECIFICATION LocalSpec
CONSTANTS
  alpha = alpha
  beta = beta
  gamma = gamma
  twin = twin
  other = other
  h264 = h264
  mjpg = mjpg
  Nodes <- MCNodes
  Buses = {bus1, bus2, bus3}
  Paths = {video0, video1, video2, video3}
  Ids = {i1, i2}
  None = none
  MaxBoots = 2
  MaxPlugs = 2
SYMMETRY Symmetry
INVARIANTS
  DevicesFound
CHECK_DEADLOCK FALSE
