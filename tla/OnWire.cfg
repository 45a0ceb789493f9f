SPECIFICATION Spec
CONSTANTS
  A = A
  B = B
  MaxStamp <- SomeStamps
  MaxKisses = 1
  MaxClears = 1
INVARIANTS
  TypeOK
  SampleIsOneExchange
PROPERTIES
  SamplesInOrder
  AnswerAccepted
CHECK_DEADLOCK FALSE
