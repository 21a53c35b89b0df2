SPECIFICATION ScreenSpec
CONSTANTS
    MaxLogEntries = 3
    LogHeight = 2
    MaxId = 4
    MaxDeltas = 2
    MaxReplies = 2
    MaxUpdates = 2
INVARIANTS
  ScreenInv
PROPERTIES
  ProgressIsShown
  TextAppears
CHECK_DEADLOCK FALSE
