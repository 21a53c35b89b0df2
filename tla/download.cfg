SPECIFICATION FairSpec
CONSTANTS
  Size = 3
  Connections = 2
  Servers = {"ranges", "stream", "unsized"}
  Hashed = TRUE
  CrossFs = TRUE
  Deletes = TRUE
  Faults = {"crash", "io", "record", "short"}
  Absent = Absent
INVARIANTS
  FinalIsWhole
PROPERTIES
  CallEnds
