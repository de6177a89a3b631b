SPECIFICATION ContextSpec
CONSTANTS
  Retained = 2
  MaxNodes = 6
  MaxTurns = 3
  MaxSnips = 1
INVARIANTS ResultsHaveCalls CompactionIsFresh
PROPERTY MemoryCatchesUp
CHECK_DEADLOCK FALSE
