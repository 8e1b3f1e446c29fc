------------------------------ MODULE MCDrivers ------------------------------
(***************************************************************************)
(* Independent driver components checked in one run: the TDM formatters  *)
(* and streams with their channel masks (AxgTdmFormatter, TdmSlots), the  *)
(* camera's V4L2 buffer handling (V4l2Buffers), the capture codec         *)
(* (Nau8540), the DSI panel bridge (Icn6211), the camera pipeline's codec *)
(* node (AMLCodecNode), and the Wi-Fi side (MCWifi: the shared Wi-Fi/BT   *)
(* power control, the boot MAC parameter and the HDF adapter's address    *)
(* and scan computations), and the Wi-Fi platform driver's probe and    *)
(* remove (WifiDt), and the user-space libraries: the Realtek Bluetooth  *)
(* vendor library's idle-poll timer (RtkPoll) and USB configuration       *)
(* (BtUsbConfig), and the ALSA audio HAL's render and capture libraries   *)
(* (AlsaHal), each with its own s_alsaCtx.  They share no state, so every reachable       *)
(* state of their interleaving is, component by component, a reachable   *)
(* state of each one alone, and every property below names one component. *)
(* The run therefore explores their disjoint sum rather than their        *)
(* product: each behaviour picks one component at the start (part), which *)
(* takes every step while the others stay in their initial states.        *)
(***************************************************************************)
EXTENDS AxgTdmFormatter, TdmSlots, V4l2Buffers, Nau8540, Icn6211, MCCodecNode, MCWifi, WifiDt, TLC

CONSTANTS f1, f2, f3, s1, s2

CONSTANTS
    MaxTimers, NoTimer,
    Lmps, CfgLoads, FwLoads, PatchOk, TotalLens, FragSize, MaxPatch,
    TimerOk, MaxCycles,
    Sides, Channels, Rates, Formats, Invalid, Callers, Volumes, Gains,
    OpenCanFail, MixerCanFail, MaxHandles

MCFormatters == {f1, f2, f3}
MCStreams == {s1, s2}

\* Device trees: which of the interrupt pin, its trigger type and the two
\* power pins each names.
MCDtNodes == [irq : BOOLEAN, trigger : BOOLEAN, pin1 : BOOLEAN, pin2 : BOOLEAN]
AnyDtNode == CHOOSE d \in MCDtNodes : TRUE

VARIABLE part

\* The libraries' state, renamed where a driver component uses the name.
VARIABLES
    pPhase, pState, pCreated, pTid, pLive, pArmed, pNextId, pFiring,
    uCb, heap, nextId, fault, cmd, timerId, tAlive, armed, reported, cycles, built,
    inited, mixerOk, mixer, volume, mute, gain, cfg, hPcm, pcmCfg, refs, ret, at

Poll == INSTANCE RtkPoll WITH phase <- pPhase, state <- pState, created <- pCreated,
            tid <- pTid, live <- pLive, armed <- pArmed, nextId <- pNextId, firing <- pFiring
Usb == INSTANCE BtUsbConfig WITH cb <- uCb
Hal == INSTANCE AlsaHal WITH pcm <- hPcm

pollvars == <<pPhase, pState, pCreated, pTid, pLive, pArmed, pNextId, pFiring>>
usbvars == <<uCb, heap, nextId, fault, cmd, timerId, tAlive, armed, reported, cycles, built>>
halvars == <<inited, mixerOk, mixer, volume, mute, gain, cfg, hPcm, pcmCfg, refs, ret, at>>
libvars == <<pollvars, usbvars, halvars>>
drvvars == <<fvars, tsvars, bvars, nvars, pvars, cvars, wvars, line, dtvars>>

allvars == <<drvvars, libvars, part>>

DriverParts == {"formatter", "slots", "buffers", "nau", "icn", "codec", "wifi", "mac", "dt"}
LibParts == {"poll", "usb", "render", "capture"}
Parts == DriverParts \cup LibParts

(* A component that is not the chosen one rests in one of its initial    *)
(* states: for those whose Init leaves a choice, these.                     *)
TsRest == mask = [l \in Lanes |-> {}] /\ ch = 0
IcnRest == IcnInit /\ poweron = 0 /\ pwm = 0 /\ porta = "reset"
CodecRest == CodecInit /\ ge2d /\ \A s \in CodecStreams : size[s] = CHOOSE z \in FrameSizes : TRUE

DInit ==
    /\ part \in Parts
    /\ FormatterInit /\ WInit /\ BInit /\ NauInit
    /\ IF part = "slots" THEN TsInit ELSE TsRest
    /\ IF part = "icn" THEN IcnInit ELSE IcnRest
    /\ IF part = "codec" THEN CodecInit ELSE CodecRest
    /\ IF part = "mac" THEN line \in WellFormedLines ELSE line = AnyWellFormedLine
    /\ DtInit /\ (part # "dt" => dt = AnyDtNode)
    /\ Poll!PInit /\ Usb!UInit /\ Hal!HInit

DriverStep ==
    \/ part = "formatter" /\ FormatterNext /\ UNCHANGED <<tsvars, bvars, nvars, pvars, cvars, wvars, line, dtvars>>
    \/ part = "slots" /\ TsNext /\ UNCHANGED <<fvars, bvars, nvars, pvars, cvars, wvars, line, dtvars>>
    \/ part = "buffers" /\ BNext /\ UNCHANGED <<fvars, tsvars, nvars, pvars, cvars, wvars, line, dtvars>>
    \/ part = "nau" /\ NauNext /\ UNCHANGED <<fvars, tsvars, bvars, pvars, cvars, wvars, line, dtvars>>
    \/ part = "icn" /\ IcnNext /\ UNCHANGED <<fvars, tsvars, bvars, nvars, cvars, wvars, line, dtvars>>
    \/ part = "codec" /\ CodecNext /\ UNCHANGED <<fvars, tsvars, bvars, nvars, pvars, wvars, line, dtvars>>
    \/ part = "wifi" /\ WNext /\ UNCHANGED <<fvars, tsvars, bvars, nvars, pvars, cvars, line, dtvars>>
    \/ part = "mac" /\ Boot /\ UNCHANGED <<fvars, tsvars, bvars, nvars, pvars, cvars, dtvars>>
    \/ part = "dt" /\ DtNext /\ UNCHANGED <<fvars, tsvars, bvars, nvars, pvars, cvars, wvars, line>>

LibStep ==
    \/ part = "poll" /\ Poll!PNext /\ UNCHANGED <<usbvars, halvars>>
    \/ part = "usb" /\ Usb!UNext /\ UNCHANGED <<pollvars, halvars>>
    \/ part \in {"render", "capture"} /\ Hal!HStep(part) /\ UNCHANGED <<pollvars, usbvars>>

DNext ==
    /\ UNCHANGED part
    /\ \/ DriverStep /\ UNCHANGED libvars
       \/ LibStep /\ UNCHANGED drvvars

DSpec == DInit /\ [][DNext]_allvars

(* The fairness of the power calls (WifiBtPower's WFairness) and of the  *)
(* camera's dequeue thread and device stop (V4l2Buffers' BFairness).  A   *)
(* component that is not the chosen one stays in its initial state, where *)
(* every action these conditions name is disabled (no call is inside a    *)
(* power call, no buffer is queued, the device is idle), so they constrain *)
(* only the behaviours of the chosen part.  The other components' steps    *)
(* need none, as their properties are invariants.                          *)
DFairSpec == DSpec /\ WFairness /\ BFairness(TRUE)


-----------------------------------------------------------------------------
(* The libraries' properties, each about one part.                         *)

(* rtk_poll.c: the idle-poll timer is armed only while the poll is        *)
(* enabled, and no POSIX timer is leaked across cleanup and a new init.   *)
ArmedOnlyWhileEnabled == Poll!ArmedOnlyWhileEnabled
NoTimerLeak == Poll!NoTimerLeak

(* hardware_usb.c: over every config, firmware and patch outcome, no      *)
(* block is freed twice or read after its free, and init_cb(SUCCESS)      *)
(* comes only after every fragment of the patch went down.                *)
NoUseAfterFree == Usb!NoUseAfterFree
FullPatchBeforeSuccess == Usb!FullPatchBeforeSuccess

(* The ALSA HAL with two HDI threads: the type invariant, the open pcm    *)
(* runs the configuration s_alsaCtx records, and the mixer follows volume *)
(* and mute, however the threads' commands interleave.                     *)
HTypeOK == Hal!HTypeOK
OpenedWithCurrentConfig == Hal!OpenedWithCurrentConfig
MixerMatchesControls == Hal!MixerMatchesControls

=============================================================================
