SPECIFICATION ProgramSpec
CONSTANTS
  Tasks = {t1, t2}
  Fds = {f1, f2}
  Streams = {s1}
  Blocks = {b1, b2}
  Destructors = {d1, d2}
  NULL = NULL
INVARIANTS
  ProgramTypeOK
  HandlesAccounted
