SPECIFICATION FairSpec
CONSTANTS
  UserOps = {"send", "command", "clearPlan", "cancel", "quit"}
  Outcomes = {"error", "utf8"}
  Answers = {"calls", "summary"}
  Updates = {"none"}
  MaxCalls = 1
  MaxTasks = 1
  MaxQueued = 1
  MaxCommands = 2
  MaxOverflow = 0
  MaxTruncated = 0
  MaxTimeout = 1
  MaxUtf8 = 0
  MaxSummaryRetries = 0
  TailHalvings = 0
  RepeatLimit = 1
  StallLimit = 0
  AutoResume = FALSE
  DiskFails = TRUE
  Absent = Absent
  Torn = Torn
INVARIANTS
  BusyWhileTurnRuns
PROPERTIES
  CancelEndsTheTask
  QuitEndsUnlessAsked
CHECK_DEADLOCK FALSE
