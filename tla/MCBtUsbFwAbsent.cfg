CONSTANTS
    Lmps = {"cold", "warmNew", "warmSame"}
    CfgLoads = {"ok"}
    FwLoads = {"ok", "absent"}
    PatchOk = {TRUE}
    TotalLens = {3}
    FragSize = 2
    MaxPatch = 4
    TimerOk = {TRUE}
    MaxCycles = 2
SPECIFICATION USpec
INVARIANT NoInvalidAccess
