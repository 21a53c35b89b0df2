SPECIFICATION Spec
CONSTANTS
    Machines <- MCMachines
    Models <- MCModels
    OthersUse = {0, 40}
    RaisedTo = {0, 12}
    MaxRestarts = 3
PROPERTIES
    CalibrationLeavesTheRest
CHECK_DEADLOCK FALSE
