SPECIFICATION Spec
CONSTANTS
  MaxMessages = 2
  MaxNotices = 1
  MaxAlerts = 1
  MaxSteers = 1
  MaxContexts = 1
  MaxCalls = 2
  MaxRounds = 1
INVARIANTS TurnIsPath ContextHasTurn ContextHasEarlierTurns
CHECK_DEADLOCK FALSE
