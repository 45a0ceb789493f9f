SPECIFICATION FairSpec
CONSTANTS
  h1 = h1
  h2 = h2
  h3 = h3
  p1 = p1
  None = None
  Hosts <- AllHosts
  Pools <- OnePool
  Configurations <- SomeConfigurations
  MaxClock = 2
  MinClock = 2
  Shift = 2
  Unreach = 3
  MaxLookups = 1
  MaxEvents = 1
INVARIANTS
  TypeOK
  GrowthIsBounded
PROPERTIES
  PoolFills
  PoolSettles
CHECK_DEADLOCK FALSE
