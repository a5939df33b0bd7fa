SPECIFICATION Spec
CONSTANTS
    Configs <- MCConfigs
    Asks <- MCAsks
    Starts <- Anyhow
    Floating <- AnyHalf
INVARIANTS InitResynchronises CommandArrives NeverBusy
