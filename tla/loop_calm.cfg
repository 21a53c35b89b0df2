SPECIFICATION FairSpec
CONSTANTS
  UserOps = {"send", "queue", "compact", "crash"}
  Outcomes = {"overflow", "truncated", "timeout", "error"}
  Answers = {"text", "calls", "summary"}
  Updates = {"none", "open", "done"}
  MaxCalls = 2
  MaxTasks = 2
  MaxQueued = 1
  MaxCommands = 1
  MaxOverflow = 1
  MaxTruncated = 1
  MaxTimeout = 1
  MaxUtf8 = 1
  MaxSummaryRetries = 1
  TailHalvings = 1
  RepeatLimit = 1
  StallLimit = 1
  AutoResume = TRUE
  DiskFails = FALSE
  Absent = Absent
  Torn = Torn
INVARIANTS
  TornOnlyWhileWriting
  AbandonedCallIsCheckpointed
  FailedCompactionIsSaved
PROPERTIES
  NoOpenPlanForgotten
  RetriesEnd
  ChainSpec
CHECK_DEADLOCK FALSE
