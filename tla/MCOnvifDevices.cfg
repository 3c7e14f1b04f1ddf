SPECIFICATION OnvifSpec
CONSTANTS
  Devices = {open, locked}
  Open = {open}
  Silent = {}
  UrlAuth = {locked}
  Reach <- MCReach
  Slowest = 1
  MaxResets = 1
  MaxCalls = 1
  MaxChanges = 1
INVARIANTS
  DevicesInv
PROPERTIES
  GoneIsForgotten
  UnauthenticatedIsForgotten
