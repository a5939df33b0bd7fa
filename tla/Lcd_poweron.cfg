SPECIFICATION Spec
CONSTANTS
    Configs <- MCConfigs
    Asks <- MCAsks
    Starts <- PowerOn
    Floating = {}
INVARIANT InitSynchronises
