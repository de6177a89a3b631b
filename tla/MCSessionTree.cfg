CONSTANTS
  EventId = {e1, e2, e3}
  Slot = {s1}
  Content = {c0, c1}
  EmptyContent = c0
  NoEvent = NoEvent
  Garbage = Garbage
  MaxSeq = 3
SPECIFICATION Spec
SYMMETRY Symmetry
INVARIANTS
  LogReplayable
  TreeMirrorsLog
  ActiveLeafIsNewest
  AcknowledgedIsKept
