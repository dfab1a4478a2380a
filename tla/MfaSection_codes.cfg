SPECIFICATION Spec
CONSTANT MaxRequests = 5
INVARIANT CodesWereShown
CHECK_DEADLOCK FALSE
