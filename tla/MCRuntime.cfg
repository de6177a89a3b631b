SPECIFICATION FairSpec
CONSTANTS
  Call = {c1, c2}
  c1 = c1
  c2 = c2
  MaxAttempts = 2
  MaxDeltas = 2
  MaxRounds = 1
  MaxTurns = 2
INVARIANTS TypeOK TextIsWhatWasStreamed CallsAreUnanswered OnlyCancelLeavesCalls
PROPERTIES TurnEventsSpec NothingBeginsAfterCancel CancelEnds
CHECK_DEADLOCK FALSE
