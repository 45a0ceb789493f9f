SPECIFICATION SessionSpec
CONSTANTS
  Callers = {t1, t2}
  MaxCreate = 3
  MaxQuery = 5
SYMMETRY Symmetry
CHECK_DEADLOCK FALSE
INVARIANTS
  SessionTypeOK
  EnvironmentIsWhole
  AnswerIsOwn
