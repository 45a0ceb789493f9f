SPECIFICATION LiveSpec
CONSTANTS
  Lookups = {l1, l2}
  NULL = NULL
  RetryMax = 3
  RetryMaxForever = 3
  IgnoreErrors = FALSE
  MaxWakes = 1
INVARIANTS
  TypeOK
  CalledBackOnce
PROPERTIES
  EveryLookupEnds
