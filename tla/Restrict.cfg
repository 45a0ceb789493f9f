SPECIFICATION Spec
CONSTANTS
  Space = 4
  Rules <- SomeRules
  SourceRules <- SomeSourceRules
  Hosts = {2, 3}
  Locals = {1}
  Requests <- SomeRequests
  Window = 2
  MaxTime = 3
INVARIANTS
  TypeOK
  MonitoringOnDemand
  MostSpecificFirst
PROPERTIES
  ConfiguredStays
