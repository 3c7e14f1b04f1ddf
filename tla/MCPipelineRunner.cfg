SPECIFICATION FairRunnerSpec
CONSTANTS
  MaxLost = 2
  MaxTrials = 2
  MaxDue = 2
  MaxBus = 2
INVARIANTS
  RunnerInv
PROPERTIES
  FatalEndsRunner
  FrozenIsNoticed
CHECK_DEADLOCK FALSE
