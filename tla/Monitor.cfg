SPECIFICATION MonitorSpec
CONSTANTS
  Clients = {c1, c2}
  Lights <- SomeLights
  Headway = 2
  Shift = 2
  MinPkt = 2
  InitAlloc = 1
  Depths <- SomeDepths
  MaxAge = 3
  MonAge = 20
  OldAge = 12
  Steps <- SomeSteps
  MaxSteps = 1
SYMMETRY Symmetry
CHECK_DEADLOCK FALSE
INVARIANTS
  MonitorTypeOK
  AllAccounted
PROPERTIES
  KodSpacing
  QuietClientServed
