CONSTANTS
    CapRates = {48000, 96000}
    CapWidths = {24}
    FllIns = {12288000}
    FllRates = {48000}
    Unset = Unset
SPECIFICATION NauSpec
INVARIANT CaptureAdcClockWithinLimit
