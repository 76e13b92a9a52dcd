SPECIFICATION Spec
CONSTANTS
    Half = 3
    Reloads = {3, 8}
    Configs <- MCConfigs
INVARIANTS TypeOK ReadSafe ControlKept
PROPERTIES StoppedStays
