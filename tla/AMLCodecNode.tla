----------------------------- MODULE AMLCodecNode -----------------------------
(***************************************************************************)
(* The camera pipeline's codec node, AMLCodecNode (aml_codec_node.cpp).  *)
(* The constructor allocates a GE2D context and drops it (ge2d_ = nullptr) *)
(* if aml_ge2d_init fails.  The pipeline starts and stops streams on the  *)
(* node and delivers their frames to DeliverBuffer, which dispatches on   *)
(* the frame's encode type:                                                *)
(*   - a preview frame records its size in the static previewWidth_ and    *)
(*     previewHeight_ and is converted in place by two GE2D blits;          *)
(*   - a JPEG frame is blitted to RGB at the recorded preview size into a   *)
(*     dmabuf, mapped and compressed with libjpeg;                          *)
(*   - an H.264/H.265 frame goes to the hardware encoder h264Enc_, created *)
(*     at the recorded preview size on the first video frame and destroyed *)
(*     by Stop of any stream.                                               *)
(*                                                                         *)
(* Pixel data, formats and the blit parameters are left out: a frame is   *)
(* its stream and its status, a size is a model value.  The frame counter *)
(* vencFrameCnt_ only feeds log lines and is left out.  A crash of the    *)
(* camera host ends the node: crash names its cause.                      *)
(***************************************************************************)
EXTENDS Naturals

CONSTANTS
    CodecStreams,   \* stream ids the pipeline routes through the node
    EncodeType,     \* [CodecStreams -> {"preview", "jpeg", "h264"}]
    FrameSizes,     \* stream sizes, as model values
    NoSize,         \* previewWidth_ = previewHeight_ = 0
    NoEnc,          \* h264Enc_ = -1
    LateFrames      \* a frame of a stream may still arrive after its Stop

ASSUME EncodeType \in [CodecStreams -> {"preview", "jpeg", "h264"}]
ASSUME LateFrames \in BOOLEAN

VARIABLES
    ge2d,      \* ge2d_ is not nullptr
    preview,   \* the static previewWidth_ x previewHeight_
    enc,       \* h264Enc_: NoEnc, or the size the encoder was created with
    encLive,   \* encoders the library has created and not destroyed
    phase,     \* per stream: "idle", "running" (Start .. Stop) or "stopped"
    size,      \* per stream: the size of its frames
    alive,     \* the node object exists
    crash      \* "none", or what brought the camera host down

cvars == <<ge2d, preview, enc, encLive, phase, size, alive, crash>>

CodecTypeOK ==
    /\ ge2d \in BOOLEAN
    /\ preview \in FrameSizes \cup {NoSize}
    /\ enc \in FrameSizes \cup {NoSize, NoEnc}
    /\ encLive \in Nat
    /\ phase \in [CodecStreams -> {"idle", "running", "stopped"}]
    /\ size \in [CodecStreams -> FrameSizes]
    /\ alive \in BOOLEAN
    /\ crash \in {"none", "nullGe2d", "mapFailed", "emptyJpeg"}

(* The constructor: calloc and aml_ge2d_init may each fail, leaving      *)
(* ge2d_ nullptr.  The statics start at 0 when the host process starts.  *)
CodecInit ==
    /\ ge2d \in BOOLEAN
    /\ preview = NoSize
    /\ enc = NoEnc
    /\ encLive = 0
    /\ phase = [s \in CodecStreams |-> "idle"]
    /\ size \in [CodecStreams -> FrameSizes]
    /\ alive = TRUE
    /\ crash = "none"

Up == alive /\ crash = "none"

(* Start: the pipeline starts a stream (the node only resets its frame   *)
(* counter).  A restarted stream may have been reconfigured to a new size.*)
Start(s) ==
    /\ Up /\ phase[s] # "running"
    /\ phase' = [phase EXCEPT ![s] = "running"]
    /\ size' \in {[size EXCEPT ![s] = z] : z \in FrameSizes}
    /\ UNCHANGED <<ge2d, preview, enc, encLive, alive, crash>>

(* Stop of any stream: vl_video_encoder_destory if h264Enc_ >= 0, then    *)
(* h264Enc_ = -1.                                                          *)
\* Variant: the encoder is destroyed but h264Enc_ keeps its old value.
StopKeepsHandle(s) ==
    /\ Up /\ phase[s] = "running"
    /\ phase' = [phase EXCEPT ![s] = "stopped"]
    /\ encLive' = IF enc # NoEnc THEN encLive - 1 ELSE encLive
    /\ UNCHANGED <<ge2d, preview, enc, size, alive, crash>>

Stop(s) ==
    /\ Up /\ phase[s] = "running"
    /\ phase' = [phase EXCEPT ![s] = "stopped"]
    /\ encLive' = IF enc # NoEnc THEN encLive - 1 ELSE encLive
    /\ enc' = NoEnc
    /\ UNCHANGED <<ge2d, preview, size, alive, crash>>

(* A frame of stream s may reach DeliverBuffer.                          *)
Delivers(s) == phase[s] = "running" \/ (LateFrames /\ phase[s] = "stopped")

(* EncodeForJpeg, as what each path does to the host: it dereferences    *)
(* ge2d_ with no null check; a failing dmabuf_alloc returns; the blit is  *)
(* refused at a 0 x 0 preview size, and libjpeg's default error handler  *)
(* exits the process on the empty image (before it reads a pixel); a     *)
(* failing mmap returns MAP_FAILED, which the `!srcBuf' check lets        *)
(* through to the encoder's reads.                                         *)
JpegOutcomes ==
    IF ~ge2d THEN {"nullGe2d"}
    ELSE {"none"}                                            \* dmabuf_alloc fails
         \cup {IF preview = NoSize THEN "emptyJpeg" ELSE "none"}  \* mmap succeeds
         \cup {IF preview = NoSize THEN "emptyJpeg" ELSE "mapFailed"}  \* mmap fails

(* DeliverBuffer of a frame with CAMERA_BUFFER_STATUS_OK (a frame with    *)
(* another status is only forwarded to the out port).                     *)
DeliverPreview(s) ==
    /\ Up /\ Delivers(s) /\ EncodeType[s] = "preview"
    /\ preview' = size[s]
    /\ UNCHANGED <<ge2d, enc, encLive, phase, size, alive, crash>>

DeliverJpeg(s) ==
    /\ Up /\ Delivers(s) /\ EncodeType[s] = "jpeg"
    /\ crash' \in JpegOutcomes
    /\ UNCHANGED <<ge2d, preview, enc, encLive, phase, size, alive>>

(* EncodeForVideo: with h264Enc_ < 0, vl_video_encoder_init at the        *)
(* recorded preview size, which may fail (h264Enc_ stays < 0 and the     *)
(* frame is skipped); the encode itself leaves the node's state alone.    *)
DeliverVideo(s) ==
    /\ Up /\ Delivers(s) /\ EncodeType[s] = "h264" /\ enc = NoEnc
    /\ \/ /\ enc' = preview
          /\ encLive' = encLive + 1
       \/ UNCHANGED <<enc, encLive>>
    /\ UNCHANGED <<ge2d, preview, phase, size, alive, crash>>

(* The destructor: aml_ge2d_exit and free of ge2d_; h264Enc_ is left as   *)
(* it is.  The pipeline destroys the node once every stream is stopped.   *)
Destroy ==
    /\ Up /\ \A s \in CodecStreams : phase[s] # "running"
    /\ alive' = FALSE
    /\ UNCHANGED <<ge2d, preview, enc, encLive, phase, size, crash>>

(* A dead host or a destroyed node takes no more steps.                   *)
Halted == ~Up /\ UNCHANGED cvars

CodecNext ==
    \/ \E s \in CodecStreams :
          Start(s) \/ Stop(s) \/ DeliverPreview(s) \/ DeliverJpeg(s) \/ DeliverVideo(s)
    \/ Destroy
    \/ Halted

CodecSpec == CodecInit /\ [][CodecNext]_cvars

-----------------------------------------------------------------------------
(* Every encoder the library has created is named by h264Enc_ and         *)
(* destroyed again: the node holds one exactly while h264Enc_ >= 0, only  *)
(* while a video stream is running, and none when it is destroyed, over  *)
(* any order of Start, Stop of any stream, and video frames whose encoder *)
(* creation fails.                                                         *)
EncoderLifecycle ==
    /\ encLive = IF enc = NoEnc THEN 0 ELSE 1
    /\ enc # NoEnc => \E s \in CodecStreams : EncodeType[s] = "h264" /\ phase[s] = "running"
    /\ ~alive => encLive = 0

(* A still frame is encoded with a GE2D context: EncodeForJpeg, like     *)
(* EncodeForPreview, must not use ge2d_ after the constructor dropped it. *)
JpegUsesLiveGe2d == crash # "nullGe2d"
=============================================================================
