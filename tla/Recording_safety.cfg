SPECIFICATION RecordingSpec
CONSTANTS
  Jobs = {j1, j2}
  Deletes = {d1, d2}
  HasSession = TRUE
SYMMETRY Symmetry
INVARIANTS OneTranscode VideoIsWhole RefusedDeleteKeeps DeleteIsFinal
CHECK_DEADLOCK FALSE
