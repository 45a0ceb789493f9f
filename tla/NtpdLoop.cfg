SPECIFICATION FairSpec
CONSTANTS
  ta = ta
  tb = tb
  Tasks <- MCTasks
  RecvInit = 2
  MaxSocket = 4
  MaxDuring = 1
  MaxShortfall = 2
  MaxRuns = 3
INVARIANTS
  TypeOK
  NothingStranded
PROPERTIES
  StopEnds
