SPECIFICATION TaskSpec
CONSTANTS
  Bash = {b1}
  Subagents = {s1}
  b1 = b1
  s1 = s1
  MaxRuntimes = 2
  MaxPolls = 2
  MaxFailures = 1
INVARIANTS DeliveredOnce ShutdownStopsPresent
PROPERTY Reported
CHECK_DEADLOCK FALSE
