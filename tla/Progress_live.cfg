SPECIFICATION PartsSpec
CONSTANTS
  MaxSessions = 2
  MaxRequests = 3
PROPERTIES WaitsEnd ClosesComplete LossIsNoticed OneLiveSession
CHECK_DEADLOCK FALSE
