SPECIFICATION Spec
CONSTANTS
  NULL = NULL
  EXIT = EXIT
  GONE = GONE
  Requests = {r1, r2, r3}
  ItemsInc = 1
  ResponsesInc = 1
INVARIANTS
  TypeOK
  NothingForgotten
PROPERTIES
  ImplementsService
  StayingWorkerAnswers
