SPECIFICATION PoolSpec
CONSTANTS
  c1 = c1
  c2 = c2
  Consumers <- MCConsumers
  Devices <- MCDevices
  Reasons = {"network", "unknown"}
  MaxRetryAttempts = 1
  MaxEntries = 2
  MaxAsks = 3
  MaxSlots = 4
INVARIANT ConnectedIsConnected
PROPERTIES UnusedIsLetGo RetriesEnd
CHECK_DEADLOCK FALSE
