CONSTANTS
  Window = 12
  Trigger = 8
  Warm = 0
  MinGrowth = 3
  Target = 5
  Overhead = 1
  MinRoom = 1
  SummaryCap = 1
  MaxTail = 4
  Halvings = 1
  MaxOverflow = 2
  MaxSnapshot = 2
  Lengths = {0, 1}
  Sizes = {2, 7}
  MaxNotes = 1
  MaxCalls = 2
  MaxLen = 5
SPECIFICATION Spec
INVARIANTS
  HistoryInv
  MemoIsCurrent
PROPERTIES
  NewestSurvives
  CompactionsNeedGrowth
CHECK_DEADLOCK FALSE
