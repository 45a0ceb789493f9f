SPECIFICATION FairSpec
CONSTANTS
  MinClock = 2
  MinSane = 1
  Errors <- SelectedErrors
  Bound = 4
  MaxFwd = 1
  MaxBack = 2
  MinStep = 2
  Panic = 5
  Options <- SomeOptions
  Far = 7
  MaxDisturb = 1
  MaxFail = 1
  MaxRuns = 1
INVARIANTS
  TypeOK
  InSyncIsClose
PROPERTIES
  SpikesOutlastStepout
  PanicOnce
  Converges
CHECK_DEADLOCK FALSE
