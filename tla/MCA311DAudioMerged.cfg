CONSTANTS
    play = play  cap = cap  tdmout = tdmout  tdmin = tdmin
    frddr = frddr  toddr = toddr  r1 = r1  r2 = r2  pcm16 = pcm16  pcmBad = pcmBad
    Streams <- MCStreams
    Formatters <- MCFormatters
    Fifos <- MCFifos
    StreamFormatter <- MCStreamFormatter
    StreamFifo <- MCStreamFifo
    StreamSlots <- MCStreamSlots
    Rates = {r1}
    Formats <- MCFormats
    SupportedFormats <- MCSupportedFormats
    NoStream = NoStream
    NoRate = NoRate
    Channels = {2, 4}
    BufSizes = {1, 3}
    DmaArea = 2
    ClkCanFail = TRUE
    FifoCanFail = TRUE
    StopFromPaused = FALSE
    MaxMclk = 2
    RenderStream <- MCRenderStream
    Probed = {"t9015", "toacodec", "tohdmitx"}
    AvddCanFail = TRUE
SPECIFICATION Spec
INVARIANTS TypeOK RunningStreamPlays FifoResourcesBalanced NoRegisterAccessUnclocked MclkOnWhileFormatterEnabled
INVARIANT RenderCodecFollowsStream
PROPERTY PlaybackRefinement
