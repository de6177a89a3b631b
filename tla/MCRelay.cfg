SPECIFICATION Spec
CONSTANTS
  MaxSockets = 2
  MaxRequests = 2
  MaxPairs = 2
  MaxRestarts = 1
  MaxIoFailures = 1
INVARIANT AckedIsBound
PROPERTIES HostReachable RequestsLeave
CHECK_DEADLOCK FALSE
