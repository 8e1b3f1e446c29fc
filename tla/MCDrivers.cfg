CONSTANTS
    f1 = f1
    f2 = f2
    f3 = f3
    s1 = s1
    s2 = s2
    Formatters <- MCFormatters
    Streams <- MCStreams
    NoStream = NoStream
    ClkCanFail = TRUE
    NumLanes = 4
    MaskBits = 2
    MaxChannels = 5
    UintMax = 65535
    Bufs = {b1, b2, b3, b4}
    JoinBeforeFlush = TRUE
    CallbackBeforeStream = TRUE
    CapRates = {48000, 96000}
    CapWidths = {8, 16, 24}
    FllIns = {12288000, 24576000, 19200000, 11289600, 8000, 3000, 120000000}
    FllRates = {8000, 44100, 48000, 96000}
    Unset = Unset
    StoreInputs = {0, 50, 101}
    I2cIds = {"de", "c3", "xx", "err"}
    I2cCanFail = TRUE
    ClassCanFail = TRUE
    AttachCanFail = TRUE
    TurnOnCanFail = TRUE
    StoreRaces = TRUE
    sPreview = sPreview
    sVideo = sVideo
    sStill = sStill
    CodecStreams = {sPreview, sVideo, sStill}
    EncodeType <- MCEncodeType
    FrameSizes = {z1, z2}
    NoSize = NoSize
    NoEnc = NoEnc
    LateFrames = FALSE
    BT = BT
    WIFI = WIFI
    NoOwner = NoOwner
    Procs = {"bt", "ioctl"}
    HasPin2 = TRUE
    BootOn = FALSE
    MacLen = 2
    MaxLen = 5
    Garbage = Garbage
    Chars <- MCChars
    Rest <- MCRest
    WpasMaxScanSsids = 2
    DriverMaxScanSsids = 1
    MacBytes = {0, 254, 255}
    IfTypes = {"station", "ap", "p2pDevice", "monitor"}
    Wiphys <- MCWiphys
    ScanParams <- MCScanParams
    MaxSupportedRate = 12
    Band2CanFail = TRUE
    DtNodes <- MCDtNodes
    CanFail = {"region", "class", "cdevAlloc", "cdevAdd", "device"}
    GpioCanFail = TRUE
    MaxProbes = 3
    MaxTimers = 4
    NoTimer = NoTimer
    Lmps = {"cold", "warmNew", "warmSame"}
    CfgLoads = {"ok", "absent", "readFail"}
    FwLoads = {"ok", "absent", "readFail"}
    PatchOk = {TRUE, FALSE}
    TotalLens = {1, 3, 5}
    FragSize = 2
    MaxPatch = 4
    TimerOk = {TRUE, FALSE}
    MaxCycles = 2
    Sides = {"render", "capture"}
    Channels = {2, 3}
    Rates = {12000, 8000}
    Formats = {8, 16, Invalid}
    Invalid = Invalid
    Callers = {c1, c2}
    Volumes = {100, 101}
    Gains = {0, 16}
    OpenCanFail = TRUE
    MixerCanFail = TRUE
    MaxHandles = 1

SPECIFICATION DFairSpec

INVARIANTS ClocksBalanced ListsWellFormed EnabledOnlyWhenStreamReady
INVARIANTS ChannelMasksMatchReference SlotCheckPreventsMaskError
INVARIANTS ExclusiveOwnership FramesAccounted NauTypeOK CaptureCodecConfigured
INVARIANTS FllMatchesReference PanelTypeOK EncoderLifecycle
INVARIANTS UsersPowered MacMatchesReference DevAddrMatchesReference ScanMatchesReference
INVARIANTS ArmedOnlyWhileEnabled NoTimerLeak NoUseAfterFree FullPatchBeforeSuccess
INVARIANTS HTypeOK  
PROPERTY CallsReturn FramesReturned SupplyRefinement FailedProbeReleases
