SPECIFICATION Spec
CONSTANTS
  Client = {c1, c2}
  MaxPersistent = 2
  MaxBuffer = 3
  MaxRestarts = 1
SYMMETRY Symmetry
CHECK_DEADLOCK FALSE
INVARIANTS LogIncreases ShownIsDurable AttachedShowsLog
