SPECIFICATION FairSpec
CONSTANTS
    Cameras <- MCCameras
    Unfit <- MCUnfit
    Ids <- MCIds
    Controls <- MCControls
    Requests <- MCRequests
    Recorder = TRUE
    Burst = 1
    MaxReceived = 1
    MaxBreaks = 1
    Capacity = 1
    Exclusive = TRUE

PROPERTY LinkRestored
CHECK_DEADLOCK FALSE
