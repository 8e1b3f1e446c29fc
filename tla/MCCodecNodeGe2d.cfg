CONSTANTS
    sPreview = sPreview
    sVideo = sVideo
    sStill = sStill
    CodecStreams = {sPreview, sVideo, sStill}
    EncodeType <- MCEncodeType
    FrameSizes = {z1, z2}
    NoSize = NoSize
    NoEnc = NoEnc
    LateFrames = FALSE
SPECIFICATION CodecSpec
INVARIANT JpegUsesLiveGe2d
