SPECIFICATION FairSpec
CONSTANTS
  m1 = m1
  m2 = m2
  m3 = m3
  t1 = t1
  Msg = {m1, m2, m3}
  Task = {t1}
  Nobody = Nobody
  MaxRounds = 1
  MaxFaults = 1
  MaxRestarts = 1
INVARIANT QueuedIsAnswerable
PROPERTIES NoRunAfterFailure SerialTurnsSpec Promised NoticeHandled
CHECK_DEADLOCK FALSE
