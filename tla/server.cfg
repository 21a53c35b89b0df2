SPECIFICATION FairSpec
CONSTANTS
    Ports = {1, 2}
    Common = {1}
    DefaultPort = 1
    Pids = {1, 2, 3}
    Layers = 2
    DefaultTune = 0
    Retries = 3
    Kinds = {"llama", "unit", "stub", "other"}
    MaxStarts = 2
    MaxOps = 1
    MaxHands = 1
    MaxDeaths = 1
    Lingers = FALSE
INVARIANTS
  ServerInv
PROPERTIES
  LaunchesAlone
  StrangersAreSafe
  StartSettles
CHECK_DEADLOCK FALSE
