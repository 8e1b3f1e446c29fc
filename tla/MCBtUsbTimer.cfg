CONSTANTS
    Lmps = {"cold", "warmSame"}
    CfgLoads = {"ok"}
    FwLoads = {"ok"}
    PatchOk = {TRUE}
    TotalLens = {3}
    FragSize = 2
    MaxPatch = 4
    TimerOk = {TRUE}
    MaxCycles = 2
SPECIFICATION USpec
INVARIANT InitOutcomeReported
