CONSTANTS
    BT = BT
    WIFI = WIFI
    NoOwner = NoOwner
    Procs = {"bt", "ioctl"}
    HasPin2 = TRUE
    BootOn = FALSE
    MacLen = 2
    MaxLen = 5
    Garbage = Garbage
    Chars <- MCChars
    Rest <- MCRest
    WpasMaxScanSsids = 2
    DriverMaxScanSsids = 1
    MacBytes = {0, 255}
    IfTypes = {"station"}
    Wiphys <- MCDualBandWiphys
    ScanParams <- MCScanParams
    MaxSupportedRate = 12
    Band2CanFail = TRUE
SPECIFICATION MCSpec
INVARIANT HwCapabilityMatchesReference
