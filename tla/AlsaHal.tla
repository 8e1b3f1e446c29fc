-------------------------------- MODULE AlsaHal --------------------------------
(***************************************************************************)
(* The tinyalsa audio HAL of audio_alsa/src: the render library            *)
(* (audio_interface_lib_render_alsa.c) and the capture library             *)
(* (audio_interface_lib_capture_alsa.c).  Each keeps one static AlsaCtx,   *)
(* s_alsaCtx, made on first use by AlsaCtxInstanceGet: the mixer handle,   *)
(* volume, mute and gain, the pcm_config last asked for and the open pcm.  *)
(* Handles bound with AudioBind* point at it; every command goes through  *)
(* AudioInterfaceLibMode* to one Do* handler.                              *)
(*                                                                         *)
(* A side d is "render" or "capture", each its own library and context.   *)
(* A hw params request is its channel count, sample rate and format; a    *)
(* configuration is the rate and format pcm_open gets, after the          *)
(* PLEASURE_HATS remapping, and Zero is the zeroed config.                 *)
(*                                                                         *)
(* The callers are the threads of the HDI layer above, not in this        *)
(* repository.  A handler is one action, except where the code tests      *)
(* s_alsaCtx and acts on it later without a lock: AudioBindServiceRender  *)
(* (the refcount test, two callocs, the increment) and the write, read   *)
(* and pause commands (the pcmHandler test, then pcm_write, pcm_read or   *)
(* pcm_ioctl).  Those are two steps, and at[t] is what caller t has       *)
(* tested and not yet acted on.                                            *)
(***************************************************************************)
EXTENDS Integers

CONSTANTS
    Sides,         \* subset of {"render", "capture"}
    Channels,      \* channel counts a caller asks for
    Rates,         \* sample rates a caller asks for
    Formats,       \* sample formats (bits) a caller asks for
    Invalid,       \* a format ConvertFormatToAlsa has no pcm_format for
    Callers,       \* threads of the HDI layer calling the library
    Volumes,       \* volumes a caller sets (some outside volMin..volMax)
    Gains,         \* gains a caller sets (some outside gainMin..gainMax)
    OpenCanFail,   \* pcm_open may fail for a good configuration
    MixerCanFail,  \* mixer_open may fail at the first bind
    MaxHandles     \* bound on capture handles bound at once

NoMixer == -1   \* the mixer control never written (every written level is >= 0)

VARIABLES
    inited,   \* s_alsaCtx.initFlag
    mixerOk,  \* s_alsaCtx.mixerHandler is not NULL
    mixer,    \* value last written to the volume control(s)
    volume,   \* s_alsaCtx.volume
    mute,     \* s_alsaCtx.mute
    gain,     \* s_alsaCtx.gain
    cfg,      \* s_alsaCtx.config (its rate; 0 when zeroed)
    pcm,      \* s_alsaCtx.pcmHandler is not NULL
    pcmCfg,   \* the config the open pcm was opened with
    refs,     \* render: renderRefCount and ctlRefCount; capture: handles bound
    ret,      \* result of the side's last command: "ok" or "fail"
    at        \* at[t]: the test caller t has passed and not yet acted on

hvars == <<inited, mixerOk, mixer, volume, mute, gain, cfg, pcm, pcmCfg, refs, ret, at>>

Zero == [rate |-> 0, fmt |-> 0]
Requests == [ch : Channels, rate : Rates, fmt : Formats]
Idle == [op |-> "idle", side |-> "none", name |-> "none"]

(* CheckHwParam and ConvertFormatToAlsa: a channel count other than 1 or *)
(* 2, 8-bit at 8000 Hz, 32-bit at 11025 Hz, or a format with no PCM      *)
(* format is refused.  The test runs on the rate asked for, before the    *)
(* remapping below.                                                        *)
Refused(q) ==
    \/ q.ch \notin {1, 2}
    \/ q.fmt = 8 /\ q.rate = 8000
    \/ q.fmt = 32 /\ q.rate = 11025
    \/ q.fmt = Invalid

(* AlsaConfig's pcm_config, after the PLEASURE_HATS remapping: 12000 and *)
(* 24000 Hz become 8000 and 22050; the capture library also turns 64000  *)
(* and 96000 Hz into 48000 and 24-bit into 16-bit samples.                *)
Config(d, q) ==
    [ch   |-> q.ch,
     rate |-> CASE q.rate = 12000 -> 8000
                [] q.rate = 24000 -> 22050
                [] d = "capture" /\ q.rate \in {64000, 96000} -> 48000
                [] OTHER -> q.rate,
     fmt  |-> IF d = "capture" /\ q.fmt = 24 THEN 16 ELSE q.fmt]

VolMin == 0
VolMax == 100
GainMin == 0
GainMax == 15

\* AlsaVolumeUpdate's volumeSet: volume * 255U (render, both lanes of
\* "TDMOUT_B Lane 0 Volume") or * 1312U ("Linein Mic1 Volume") / 100.
Level(d, m, v) ==
    IF m THEN 0 ELSE (v * (IF d = "render" THEN 255 ELSE 1312)) \div (VolMax - VolMin)

HTypeOK ==
    /\ inited \in [Sides -> BOOLEAN] /\ mixerOk \in [Sides -> BOOLEAN]
    /\ volume \in [Sides -> VolMin..VolMax] /\ mute \in [Sides -> BOOLEAN]
    /\ pcm \in [Sides -> BOOLEAN] /\ ret \in [Sides -> {"ok", "fail"}]
    /\ at \in [Callers -> {Idle} \cup [op : {"bind", "io"}, side : Sides,
                                        name : {"render", "control", "write", "read", "pause"}]]

(* The libraries are loaded: s_alsaCtx is zero.                            *)
HInit ==
    /\ inited = [d \in Sides |-> FALSE]
    /\ mixerOk = [d \in Sides |-> FALSE]
    /\ mixer = [d \in Sides |-> NoMixer]
    /\ volume = [d \in Sides |-> 0]
    /\ mute = [d \in Sides |-> FALSE]
    /\ gain = [d \in Sides |-> 0]
    /\ cfg = [d \in Sides |-> Zero]
    /\ pcm = [d \in Sides |-> FALSE]
    /\ pcmCfg = [d \in Sides |-> Zero]
    /\ refs = [d \in Sides |-> IF d = "render" THEN [render |-> 0, control |-> 0] ELSE 0]
    /\ ret = [d \in Sides |-> "ok"]
    /\ at = [t \in Callers |-> Idle]

Result(d, ok) == ret' = [ret EXCEPT ![d] = IF ok THEN "ok" ELSE "fail"]

(* AlsaVolumeUpdate: nothing without a mixer, else write volumeSet.        *)
\* Variant: the mute flag is not looked at.
VolumeUpdateNoMute(d, ok, m, v) ==
    mixer' = IF ok THEN [mixer EXCEPT ![d] = Level(d, FALSE, v)] ELSE mixer

VolumeUpdate(d, ok, m, v) ==
    mixer' = IF ok THEN [mixer EXCEPT ![d] = Level(d, m, v)] ELSE mixer

(* AlsaCtxInstanceGet: on first use, the defaults (volume 50 for render,  *)
(* volMax for capture, gain gainMax, unmuted), mixer_open, MixerInit and  *)
(* a volume update.                                                        *)
\* The context's controls after the memset of the first AlsaCtxInstanceGet.
Defaults(d) == [volume |-> IF d = "render" THEN 50 ELSE VolMax, mute |-> FALSE, gain |-> GainMax]

InstanceGet(d) ==
    IF inited[d]
    THEN UNCHANGED <<inited, mixerOk, mixer, volume, mute, gain>>
    ELSE LET z == Defaults(d) IN
         /\ inited' = [inited EXCEPT ![d] = TRUE]
         /\ \E ok \in IF MixerCanFail THEN BOOLEAN ELSE {TRUE} :
              /\ mixerOk' = [mixerOk EXCEPT ![d] = ok]
              /\ VolumeUpdate(d, ok, z.mute, z.volume)
         /\ volume' = [volume EXCEPT ![d] = z.volume]
         /\ mute' = [mute EXCEPT ![d] = z.mute]
         /\ gain' = [gain EXCEPT ![d] = z.gain]

Ctl == <<inited, mixerOk, mixer, volume, mute, gain>>

Free(t) == at[t] = Idle

(* AudioBindServiceRender(name), first part: the context is made          *)
(* (AlsaCtxInstanceGet), and a "render" or "control" name whose count is   *)
(* above 0 is refused: "only 1 handle".  A name that passes goes on to    *)
(* allocate its handle.                                                    *)
\* Variant: the refcount test dropped.
BindRenderNoCheck(t, name) ==
    /\ Free(t)
    /\ InstanceGet("render")
    /\ at' = [at EXCEPT ![t] = [op |-> "bind", side |-> "render", name |-> name]]
    /\ UNCHANGED <<cfg, pcm, pcmCfg, refs, ret>>

BindRender(t, name) ==
    /\ Free(t)
    /\ InstanceGet("render")
    /\ IF refs["render"][name] > 0
       THEN Result("render", FALSE) /\ UNCHANGED at
       ELSE /\ at' = [at EXCEPT ![t] = [op |-> "bind", side |-> "render", name |-> name]]
            /\ UNCHANGED ret
    /\ UNCHANGED <<cfg, pcm, pcmCfg, refs>>

(* Its second part: the calloc of the handle and of the AlsaDevObject    *)
(* (either may fail, and the bind returns NULL), then the count goes up.  *)
BindCommit(t) ==
    /\ at[t].op = "bind"
    /\ LET d == at[t].side  n == at[t].name IN
       \E ok \in BOOLEAN :
         /\ refs' = IF ok THEN [refs EXCEPT ![d][n] = @ + 1] ELSE refs
         /\ Result(d, ok)
    /\ at' = [at EXCEPT ![t] = Idle]
    /\ UNCHANGED <<cfg, pcm, pcmCfg>> /\ UNCHANGED Ctl

(* AudioBindServiceCapture: no count and no limit; the handle's calloc   *)
(* may fail, and returns NULL before the context is touched; otherwise    *)
(* the handle gets the context (AlsaCtxInstanceGet).  refs counts the     *)
(* capture handles the callers hold.                                       *)
BindCapture(t) ==
    /\ Free(t)
    /\ refs["capture"] < MaxHandles
    /\ \E ok \in BOOLEAN :
         /\ IF ok THEN InstanceGet("capture") ELSE UNCHANGED <<inited, mixerOk, mixer, volume, mute, gain>>
         /\ refs' = IF ok THEN [refs EXCEPT !["capture"] = @ + 1] ELSE refs
         /\ Result("capture", ok)
    /\ UNCHANGED <<cfg, pcm, pcmCfg, at>>

(* AudioCloseService*: the render count goes down (clamped at 0), the   *)
(* capture handle is freed; the pcm is left as it is.                     *)
CloseService(t, d, name) ==
    /\ Free(t)
    /\ IF d = "render" THEN refs[d][name] > 0 ELSE refs[d] > 0
    /\ refs' = IF d = "render" THEN [refs EXCEPT ![d][name] = @ - 1]
               ELSE [refs EXCEPT ![d] = @ - 1]
    /\ UNCHANGED <<cfg, pcm, pcmCfg, ret, at>> /\ UNCHANGED Ctl

\* A command of side d reaches s_alsaCtx through a bound handle.
Bound(d) == IF d = "render" THEN refs[d].render + refs[d].control > 0 ELSE refs[d] > 0
Cmd(t, d) == Free(t) /\ inited[d] /\ Bound(d)

\* pcm_open's outcomes: the zeroed config never opens.
Outcomes(c) == IF c = Zero THEN {FALSE} ELSE IF OpenCanFail THEN BOOLEAN ELSE {TRUE}

(* AlsaOpen: nothing if a pcm is open; else pcm_open with aCtx->config,  *)
(* and a pcm that is not ready is closed again (pcmHandler stays NULL).   *)
AlsaOpen(d, c, ok) ==
    IF pcm[d] THEN UNCHANGED <<pcm, pcmCfg>>
    ELSE /\ pcm' = [pcm EXCEPT ![d] = ok]
         /\ pcmCfg' = IF ok THEN [pcmCfg EXCEPT ![d] = c] ELSE pcmCfg

(* DoOutput*HwParams -> AlsaConfig: a refused request fails; the same   *)
(* configuration with a pcm open is kept; otherwise aCtx->config is       *)
(* overwritten first, then AlsaClose and AlsaOpen, whose failure fails    *)
(* the call with the pcm closed.                                           *)
\* Variant: a reconfiguration while a pcm is open keeps it (no memcmp).
HwParamsKeepOpen(t, d, q) ==
    /\ Cmd(t, d)
    /\ IF Refused(q) THEN Result(d, FALSE) /\ UNCHANGED <<cfg, pcm, pcmCfg>>
       ELSE IF pcm[d] THEN Result(d, TRUE) /\ cfg' = [cfg EXCEPT ![d] = Config(d, q)]
                           /\ UNCHANGED <<pcm, pcmCfg>>
       ELSE LET c == Config(d, q) IN
            /\ cfg' = [cfg EXCEPT ![d] = c]
            /\ \E ok \in Outcomes(c) :
                 /\ pcm' = [pcm EXCEPT ![d] = ok]
                 /\ pcmCfg' = IF ok THEN [pcmCfg EXCEPT ![d] = c] ELSE pcmCfg
                 /\ Result(d, ok)
    /\ UNCHANGED <<refs, at>> /\ UNCHANGED Ctl

HwParams(t, d, q) ==
    /\ Cmd(t, d)
    /\ IF Refused(q) THEN Result(d, FALSE) /\ UNCHANGED <<cfg, pcm, pcmCfg>>
       ELSE LET c == Config(d, q) IN
            IF pcm[d] /\ c = cfg[d] THEN Result(d, TRUE) /\ UNCHANGED <<cfg, pcm, pcmCfg>>
            ELSE /\ cfg' = [cfg EXCEPT ![d] = c]
                 /\ \E ok \in Outcomes(c) :
                      /\ pcm' = [pcm EXCEPT ![d] = ok]
                      /\ pcmCfg' = IF ok THEN [pcmCfg EXCEPT ![d] = c] ELSE pcmCfg
                      /\ Result(d, ok)
    /\ UNCHANGED <<refs, at>> /\ UNCHANGED Ctl

(* DoOutput*StartPrepare (START and PREPARE): AlsaOpen with the saved    *)
(* config.  Render then fails if no pcm is open (and writes one buffer of *)
(* silence); capture ignores AlsaOpen's result and returns success.       *)
StartPrepare(t, d) ==
    /\ Cmd(t, d)
    /\ \E ok \in Outcomes(cfg[d]) :
         /\ AlsaOpen(d, cfg[d], ok)
         /\ Result(d, IF d = "render" THEN pcm[d] \/ ok ELSE TRUE)
    /\ UNCHANGED <<cfg, refs, at>> /\ UNCHANGED Ctl

\* The commands that test pcmHandler and then use it.
Ops(d) == IF d = "render" THEN {"write", "pause"} ELSE {"read", "pause"}

(* DoOutputRenderWrite, DoOutputCaptureRead, Do*SetPauseStu, first part: *)
(* fail if pcmHandler is NULL; otherwise go on to use it.                 *)
\* Variant: pcmHandler not tested.
IoCheckNoTest(t, d, op) ==
    /\ Cmd(t, d)
    /\ at' = [at EXCEPT ![t] = [op |-> "io", side |-> d, name |-> op]]
    /\ UNCHANGED <<cfg, pcm, pcmCfg, refs, ret>> /\ UNCHANGED Ctl

IoCheck(t, d, op) ==
    /\ Cmd(t, d)
    /\ IF pcm[d]
       THEN at' = [at EXCEPT ![t] = [op |-> "io", side |-> d, name |-> op]] /\ UNCHANGED ret
       ELSE Result(d, FALSE) /\ UNCHANGED at
    /\ UNCHANGED <<cfg, pcm, pcmCfg, refs>> /\ UNCHANGED Ctl

(* Their second part: an empty caller buffer fails, else pcm_write,      *)
(* pcm_read (always 8192 bytes) or pcm_ioctl(PAUSE) on aCtx->pcmHandler,  *)
(* read again here, and any of them may fail.                              *)
IoUse(t) ==
    /\ at[t].op = "io"
    /\ \E ok \in BOOLEAN : Result(at[t].side, ok)
    /\ at' = [at EXCEPT ![t] = Idle]
    /\ UNCHANGED <<cfg, pcm, pcmCfg, refs>> /\ UNCHANGED Ctl

(* DoOutputRenderStop, DoOutputCaptureStop, DoOutputCaptureClose: fail  *)
(* if no pcm is open, else AlsaClose.                                      *)
Stop(t, d) ==
    /\ Cmd(t, d)
    /\ pcm' = [pcm EXCEPT ![d] = FALSE]
    /\ Result(d, pcm[d])
    /\ UNCHANGED <<cfg, pcmCfg, refs, at>> /\ UNCHANGED Ctl

(* DoOutputRenderClose: AlsaClose, successful whether a pcm was open or  *)
(* not.                                                                    *)
RenderClose(t) ==
    /\ Cmd(t, "render")
    /\ pcm' = [pcm EXCEPT !["render"] = FALSE]
    /\ Result("render", TRUE)
    /\ UNCHANGED <<cfg, pcmCfg, refs, at>> /\ UNCHANGED Ctl

(* The commands that leave s_alsaCtx alone and succeed: the getters of   *)
(* volume, mute, gain, channel mode and thresholds, scene select, channel *)
(* and acodec mode writes, the mmap stubs and RENDER_OPEN/CAPTURE_OPEN.   *)
Query(t, d) ==
    /\ Cmd(t, d)
    /\ Result(d, TRUE)
    /\ UNCHANGED <<cfg, pcm, pcmCfg, refs, at>> /\ UNCHANGED Ctl

(* DoCtl*SetVolume: a volume outside volMin..volMax fails; else it is    *)
(* stored and AlsaVolumeUpdate's result returned.  DoCtl*SetMuteStu       *)
(* stores mute and updates.  DoCtl*SetGainStu only stores a gain within   *)
(* gainMin..gainMax.                                                        *)
\* Variant: the volMin..volMax check dropped.
SetVolumeNoRange(t, d, v) ==
    /\ Cmd(t, d)
    /\ volume' = [volume EXCEPT ![d] = v]
    /\ VolumeUpdate(d, mixerOk[d], mute[d], v)
    /\ Result(d, mixerOk[d])
    /\ UNCHANGED <<inited, mixerOk, mute, gain, cfg, pcm, pcmCfg, refs, at>>

SetVolume(t, d, v) ==
    /\ Cmd(t, d)
    /\ IF v < VolMin \/ v > VolMax
       THEN Result(d, FALSE) /\ UNCHANGED <<volume, mixer>>
       ELSE /\ volume' = [volume EXCEPT ![d] = v]
            /\ VolumeUpdate(d, mixerOk[d], mute[d], v)
            /\ Result(d, mixerOk[d])
    /\ UNCHANGED <<inited, mixerOk, mute, gain, cfg, pcm, pcmCfg, refs, at>>

SetMute(t, d, m) ==
    /\ Cmd(t, d)
    /\ mute' = [mute EXCEPT ![d] = m]
    /\ VolumeUpdate(d, mixerOk[d], m, volume[d])
    /\ Result(d, mixerOk[d])
    /\ UNCHANGED <<inited, mixerOk, volume, gain, cfg, pcm, pcmCfg, refs, at>>

SetGain(t, d, g) ==
    /\ Cmd(t, d)
    /\ LET ok == g >= GainMin /\ g <= GainMax IN
       /\ gain' = IF ok THEN [gain EXCEPT ![d] = g] ELSE gain
       /\ Result(d, ok)
    /\ UNCHANGED <<inited, mixerOk, mixer, volume, mute, cfg, pcm, pcmCfg, refs, at>>

(* HandleCtl*Cmd: the ctl commands of a bound handle dispatched by id;   *)
(* an id it does not know fails and changes nothing.                       *)
CtlStep(t, d) ==
    \/ Query(t, d)
    \/ \E v \in Volumes : SetVolume(t, d, v)
    \/ \E m \in BOOLEAN : SetMute(t, d, m)
    \/ \E g \in Gains : SetGain(t, d, g)
    \/ /\ Cmd(t, d) /\ Result(d, FALSE)
       /\ UNCHANGED <<cfg, pcm, pcmCfg, refs, at>> /\ UNCHANGED Ctl

Names(d) == IF d = "render" THEN {"render", "control"} ELSE {"capture"}

(* A step of side d's library.  The two libraries share no state.        *)
HStep(d) == \E t \in Callers :
         \/ at[t].side = d /\ (BindCommit(t) \/ IoUse(t))
         \/ d = "render" /\ \E n \in Names(d) : BindRender(t, n)
         \/ d = "capture" /\ BindCapture(t)
         \/ \E n \in Names(d) : CloseService(t, d, n)
         \/ \E q \in Requests : HwParams(t, d, q)
         \/ StartPrepare(t, d)
         \/ \E op \in Ops(d) : IoCheck(t, d, op)
         \/ Stop(t, d)
         \/ d = "render" /\ RenderClose(t)
         \/ CtlStep(t, d)

HNext == \E d \in Sides : HStep(d)

HSpec == HInit /\ [][HNext]_hvars

-----------------------------------------------------------------------------
(* The open pcm always runs the configuration s_alsaCtx records, the one *)
(* the last accepted hw params asked for: a reconfiguration, a refused    *)
(* request, a failed pcm_open and a later START never leave the stream   *)
(* open with an older configuration than aCtx->config.                    *)
OpenedWithCurrentConfig ==
    \A d \in Sides : pcm[d] => pcmCfg[d] = cfg[d]

(* Once the context exists with a mixer, the volume control holds what   *)
(* volume and mute ask for: 0 while muted, the scaled volume otherwise,   *)
(* from the first bind on, through refused volumes and mute toggles.      *)
MixerMatchesControls ==
    \A d \in Sides : inited[d] /\ mixerOk[d] => mixer[d] = Level(d, mute[d], volume[d])

(* A START or PREPARE that reports success leaves the stream with a pcm   *)
(* open, as the render side's check of pcmHandler after AlsaOpen makes   *)
(* sure: the caller goes on to read or write only after a successful one. *)
StartOpensPcm ==
    [][\A t \in Callers, d \in Sides : StartPrepare(t, d) /\ ret'[d] = "ok" => pcm'[d]]_hvars

(* "Audio Render can only be bound to 1 handle": however binds, failed   *)
(* allocations and closes of the render and control services interleave, *)
(* renderRefCount and ctlRefCount never count a second handle.            *)
RenderBoundOnce ==
    "render" \in Sides => \A n \in Names("render") : refs["render"][n] <= 1

(* A write, read or pause that has found pcmHandler set still finds the  *)
(* pcm open when it calls pcm_write, pcm_read or pcm_ioctl: no STOP,      *)
(* CLOSE or reconfiguration closes it in between.                         *)
NoIoOnClosedPcm ==
    \A t \in Callers : at[t].op = "io" => pcm[at[t].side]
=============================================================================
