SPECIFICATION RecordingSpec
CONSTANTS
  Jobs = {j1}
  Deletes = {d1}
  HasSession = TRUE
PROPERTIES NoDeleteUnderTranscode
CHECK_DEADLOCK FALSE
