CONSTANTS
    StoreInputs = {0, 50, 101}
    I2cIds = {"de", "c3", "xx", "err"}
    I2cCanFail = TRUE
    ClassCanFail = TRUE
    AttachCanFail = TRUE
    TurnOnCanFail = TRUE
    StoreRaces = FALSE
SPECIFICATION IcnSpec
INVARIANT PowerFollowsRecord
