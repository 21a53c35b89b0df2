SPECIFICATION Spec
CONSTANTS
    Machines <- MCMachines
    Models <- MCModels
    OthersUse = {0, 40}
    RaisedTo = {0, 12}
    MaxRestarts = 3
INVARIANTS
  CalibrateInv
PROPERTIES
  ComingBackKeepsMargin
  RecordsWhatServes
CHECK_DEADLOCK FALSE
