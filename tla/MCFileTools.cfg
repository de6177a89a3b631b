SPECIFICATION Spec
CONSTANTS
  a1 = a1
  a2 = a2
  Agents <- MCAgents
  Line = {text, pattern}
  Pattern = pattern
  Absent = Absent
  MaxLines = 2
  MaxCalls = 3
  MaxOutside = 1
  MaxClock = 1
SYMMETRY Agents2
INVARIANT SeenMayBeReplaced
PROPERTY OnlySeenIsReplaced
CHECK_DEADLOCK FALSE
