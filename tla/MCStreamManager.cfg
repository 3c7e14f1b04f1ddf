SPECIFICATION Spec
CONSTANTS
  camera = camera
  yard = yard
  front = front
  back = back
  host = host
  none = none
  udp = udp
  rtsp = rtsp
  Configs <- MCConfigs
  Defaults <- MCDefaults
  Requests = {r1, r2}
  Boot = boot
  Torn = torn
  MaxCrashes = 1
  MaxFailures = 1
SYMMETRY RequestSymmetry
INVARIANTS
  FileIsCurrent
  SettledAsWanted
  TableInv
CHECK_DEADLOCK FALSE
