SPECIFICATION Spec
CONSTANTS
    Models = {"m1", "m2"}
    NewQuants = {"m2"}
    Ladder <- LadderOfTwo
    Prebuilt <- PrebuiltOfTwo
    MaxFaults = 1
    Dirs = {"models", "other"}
    ModelsDir = "models"
    Pick = "m1"
    Fits = {"m1", "m2"}
    Known <- KnownPaths
    Contents = {"none", "whole"}
    MaxCommands = 2
INVARIANTS
  SetupInv
  SelectedIsProvided
PROPERTIES
  ResetKeepsTheSelection
  HaveItDontFetch
  CommandsEnd
CHECK_DEADLOCK FALSE
