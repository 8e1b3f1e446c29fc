CONSTANTS
    play = play  cap = cap  tdmout = tdmout  tdmin = tdmin
    frddr = frddr  toddr = toddr  r1 = r1  r2 = r2  pcm16 = pcm16  pcmBad = pcmBad
    Streams <- MCStreams
    Formatters <- MCFormatters
    Fifos <- MCFifos
    StreamFormatter <- MCStreamFormatter
    StreamFifo <- MCStreamFifo
    StreamSlots <- MCStreamSlots
    Rates = {r1}
    Formats = {pcm16}
    SupportedFormats <- MCSupportedFormats
    NoStream = NoStream
    NoRate = NoRate
    Channels = {2}
    BufSizes = {1}
    DmaArea = 2
    ClkCanFail = FALSE
    FifoCanFail = FALSE
    StopFromPaused = TRUE
    MaxMclk = 2
    RenderStream <- MCRenderStream
    Probed = {"t9015", "toacodec", "tohdmitx"}
    AvddCanFail = FALSE
SPECIFICATION Spec
INVARIANT MclkOnWhileFormatterEnabled
