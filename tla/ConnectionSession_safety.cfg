SPECIFICATION Spec
CONSTANTS
  Sessions = {s1}
  Conns = {c1, c2}
  Closers = {k1, k2}
  WritesFail = TRUE
SYMMETRY Symmetry
INVARIANTS MirrorMatches NoSurvivor ActiveIsServed NoLeakedEntry
CHECK_DEADLOCK FALSE
