SPECIFICATION FairSpec
CONSTANTS
  MaxTokens = 3
  DeltasPerChunk = 2
  Deadline = TRUE
  WarmPrefill = TRUE
INVARIANTS
  OneController
  BrokenCallIsNoAnswer
PROPERTIES
  CancelIsReported
  RequestsEnd

