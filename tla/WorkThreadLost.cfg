SPECIFICATION Spec
CONSTANTS
  NULL = NULL
  EXIT = EXIT
  GONE = GONE
  Requests = {r1, r2}
  ItemsInc = 1
  ResponsesInc = 1
PROPERTY EveryRequestIsAnswered
