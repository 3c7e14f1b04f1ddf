SPECIFICATION FairSpec
CONSTANTS
    Cameras <- MCCameras
    Unfit <- MCUnfit
    Ids <- MCIds
    Controls <- MCControls
    Requests <- MCRequests
    Recorder = TRUE
    Burst = 2
    MaxReceived = 2
    MaxBreaks = 1
    Capacity = 1
    Exclusive = FALSE
CONSTRAINT OneAtATime
INVARIANTS
  ComponentsInv
  OneAnswerer
  AnswersFit
PROPERTIES
  ManagerIsReleased
CHECK_DEADLOCK FALSE
