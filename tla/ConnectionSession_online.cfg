SPECIFICATION Spec
CONSTANTS
  Sessions = {s1}
  Conns = {c1}
  Closers = {k1}
  WritesFail = FALSE
INVARIANTS ClosedNotOnline
CHECK_DEADLOCK FALSE
