SPECIFICATION Spec
CONSTANTS
  Procs = {p1}
  LastBuild = 5
  Ops = {"publish", "rollback"}
  Faults = {"crash", "disk"}
  MaxSlots = 3
  Nothing = Nothing
  Torn = Torn
INVARIANTS
  RecordsAreTrue
PROPERTIES
  NoReinstall
  NewestSlotIsReplaced
CHECK_DEADLOCK FALSE
