------------------------------ MODULE A311DAudio ------------------------------
(***************************************************************************)
(* The HDF audio card of the board: the CPU DAI ops (a311d_dai_ops.c) and *)
(* the platform DMA ops (a311d_dma_ops.c) driving one TDM interface with a *)
(* playback and a capture stream, each with its own formatter and fifo.    *)
(*                                                                         *)
(* The HDF audio framework calls these ops from one thread per stream.   *)
(* A call is a sequence of steps, one per function it calls into the      *)
(* drivers, in the code's order; pc[s] is where the call of stream s is.  *)
(* The two streams' calls interleave step by step.  Which calls the       *)
(* framework makes, and when, is its stream lifecycle (life[s]), modelled *)
(* after the ALSA PCM states the framework mirrors:                        *)
(*   open --HwParams--> setup --Prepare--> prepared --Start--> running     *)
(*   running --Pause--> paused --Resume--> running                        *)
(*   running --Stop--> setup, and paused --Stop--> setup if StopFromPaused *)
(* HwParams is allowed in open, setup and prepared and leaves the stream  *)
(* in open when it fails; other failing calls leave life as it was.       *)
(***************************************************************************)
EXTENDS AxgTdmIface, AxgFifo, G12aCodecs

CONSTANTS
    StreamFifo,      \* g_fifoDev[streamType]: FRDDR_B for playback, TODDR_B for capture
    RenderStream,    \* the playback stream, whose codec DAI is the T9015
    Formats,         \* sample formats a caller may pass
    SupportedFormats,\* those FormatToBitWidth accepts
    Channels,        \* channel counts a caller may pass
    BufSizes,        \* cirBufSize values a caller may pass
    StopFromPaused,  \* does the framework issue STOP on a paused stream?
    MaxMclk          \* a trigger fails only while mclk's count is below it

ASSUME /\ StreamFifo \in [Streams -> Fifos]
       /\ SupportedFormats \subseteq Formats
       /\ StopFromPaused \in BOOLEAN
       /\ RenderStream \in Streams

VARIABLES
    life,   \* the framework's state of each stream
    pc,     \* the step the stream's current call is at ("idle" between calls)
    call,   \* the current call: its name and arguments
    err     \* the call's ret so far is nonzero

avars == <<life, pc, call, err>>
vars == <<fvars, ivars, fifovars, avars, gvars>>

Lives == {"open", "setup", "prepared", "running", "paused"}
Calls == {"HwParams", "Prepare", "Start", "Resume", "Pause", "Stop"}

TypeOK ==
    /\ FormatterTypeOK /\ IfaceTypeOK /\ FifoTypeOK /\ GTypeOK
    /\ life \in [Streams -> Lives]
    /\ pc \in [Streams -> STRING]
    /\ err \in [Streams -> BOOLEAN]

Init ==
    /\ FormatterInit /\ IfaceInit /\ FifoInit /\ GInit
    /\ life = [s \in Streams |-> "open"]
    /\ pc = [s \in Streams |-> "idle"]
    /\ call = [s \in Streams |-> [name |-> "none"]]
    /\ err = [s \in Streams |-> FALSE]

\* Move the call of s from step `from' to step `to', recording a failure.
Step(s, from, to, failed) ==
    /\ pc[s] = from
    /\ pc' = [pc EXCEPT ![s] = to]
    /\ err' = [err EXCEPT ![s] = @ \/ failed]

\* The framework issues call c on an idle stream whose life allows it.
Allowed(s, c) ==
    CASE c = "HwParams" -> life[s] \in {"open", "setup", "prepared"}
      [] c = "Prepare"  -> life[s] \in {"setup", "prepared"}
      [] c = "Start"    -> life[s] = "prepared"
      [] c = "Pause"    -> life[s] = "running"
      [] c = "Resume"   -> life[s] = "paused"
      [] c = "Stop"     -> life[s] = "running" \/ (StopFromPaused /\ life[s] = "paused")

\* The life a call leaves behind, given whether it returned 0.
After(s, c, ok) ==
    CASE c = "HwParams" -> IF ok THEN "setup" ELSE "open"
      [] c = "Prepare"  -> IF ok THEN "prepared" ELSE life[s]
      [] c = "Start"    -> IF ok THEN "running" ELSE life[s]
      [] c = "Resume"   -> IF ok THEN "running" ELSE life[s]
      [] c = "Pause"    -> "paused"
      [] c = "Stop"     -> "setup"

\* FormatToBitWidth returns 0: the format is one of PCM 8/16/24/32 bit.
FormatOk(fmt) == fmt \in SupportedFormats

FirstStep(c) ==
    CASE c = "HwParams" -> "hw_close"
      [] c = "Prepare"  -> "dma_config"
      [] c \in {"Start", "Resume"} -> "dma_on"
      [] c \in {"Pause", "Stop"} -> "dma_off"

Begin(s) ==
    /\ pc[s] = "idle"
    /\ \E c \in Calls :
         /\ Allowed(s, c)
         /\ \/ /\ c = "HwParams"
               /\ \E fmt \in Formats, r \in Rates, ch \in Channels :
                    \/ /\ ~FormatOk(fmt)
                       /\ life' = [life EXCEPT ![s] = "open"]
                       /\ UNCHANGED <<pc, call, err>>
                    \/ /\ FormatOk(fmt)
                       /\ call' = [call EXCEPT ![s] = [name |-> c, rate |-> r, ch |-> ch]]
                       /\ pc' = [pc EXCEPT ![s] = FirstStep(c)]
                       /\ err' = [err EXCEPT ![s] = FALSE]
                       /\ UNCHANGED life
            \/ /\ c = "Prepare"
               /\ \E size \in BufSizes :
                    /\ call' = [call EXCEPT ![s] = [name |-> c, size |-> size]]
                    /\ pc' = [pc EXCEPT ![s] = FirstStep(c)]
                    /\ err' = [err EXCEPT ![s] = FALSE]
                    /\ UNCHANGED life
            \/ /\ c \notin {"HwParams", "Prepare"}
               /\ call' = [call EXCEPT ![s] = [name |-> c]]
               /\ pc' = [pc EXCEPT ![s] = FirstStep(c)]
               /\ err' = [err EXCEPT ![s] = FALSE]
               /\ UNCHANGED life
    /\ UNCHANGED <<fvars, ivars, fifovars>>

\* The call returns: the framework moves the stream's life on.
Return(s) ==
    /\ pc[s] = "done"
    /\ life' = [life EXCEPT ![s] = After(s, call[s].name, ~err[s])]
    /\ pc' = [pc EXCEPT ![s] = "idle"]
    /\ UNCHANGED <<call, err, fvars, ivars, fifovars>>

-----------------------------------------------------------------------------
(* A311DDaiHwParams: close then reopen the stream's fifo (ret = close |   *)
(* open, where close returns the reset_control_assert result), return on  *)
(* failure; meson_axg_fifo_dai_hw_params, which cannot fail for a         *)
(* supported format; then meson_axg_tdm_iface_hw_params.                   *)
HwClose(s) ==
    /\ \E failed \in (IF FifoCanFail THEN BOOLEAN ELSE {FALSE}) :
         Step(s, "hw_close", "hw_open", failed /\ opened[StreamFifo[s]])
    /\ PcmClose(StreamFifo[s])
    /\ UNCHANGED <<call, life, fvars, ivars>>

HwOpen(s) ==
    /\ PcmOpen(StreamFifo[s])
    /\ LET ok == opened'[StreamFifo[s]] /\ ~err[s]
       IN Step(s, "hw_open", IF ok THEN "hw_iface" ELSE "done", ~ok)
    /\ UNCHANGED <<call, life, fvars, ivars>>

HwIface(s) ==
    /\ \E ok \in BOOLEAN :
         /\ Step(s, "hw_iface", "done", ~ok)
         /\ IfaceHwParams(s, call[s].rate, call[s].ch, ok)
    /\ UNCHANGED <<call, life, fvars, fifovars>>

(* Prepare: A311DAudioDmaConfigChannel (hw_free, then hw_params with the  *)
(* caller's ring size), then A311DAudioDmaSubmit (pcm_prepare).            *)
DmaConfig(s) ==
    /\ PcmHwFree(StreamFifo[s])
    /\ Step(s, "dma_config", "dma_config2", FALSE)
    /\ UNCHANGED <<call, life, fvars, ivars>>

DmaConfig2(s) ==
    /\ pc[s] = "dma_config2"
    /\ \/ /\ Step(s, "dma_config2", "dma_submit", FALSE)
          /\ PcmHwParams(StreamFifo[s], call[s].size)
       \/ /\ call[s].size > DmaArea
          /\ Step(s, "dma_config2", "done", TRUE)
          /\ UNCHANGED fifovars
    /\ UNCHANGED <<call, life, fvars, ivars>>

DmaSubmit(s) ==
    /\ PcmPrepare(StreamFifo[s])
    /\ Step(s, "dma_submit", "done", FALSE)
    /\ UNCHANGED <<call, life, fvars, ivars>>

(* Start/Resume: A311DAudioDmaPending / Resume (pcm_enable(true)), then   *)
(* A311DDaiTrigger: iface prepare, then iface start (ret |= each).        *)
(* Pause/Stop: A311DAudioDmaPause (pcm_enable(false)), then the trigger:  *)
(* iface unprepare, then iface stop.  The framework issues these only on  *)
(* a stream whose hw_params succeeded, so the fifo is open and the        *)
(* pcm_opened checks of pcm_prepare and pcm_enable pass (a step whose     *)
(* check failed would show as a deadlock).                                  *)
\* Variant: A311DAudioDmaResume calling pcm_enable(false), as DmaPause does.
DmaSwitchResumeOff(s, from, on) ==
    /\ PcmEnable(StreamFifo[s], on /\ call[s].name # "Resume")
    /\ Step(s, from, IF on THEN "tr_prepare" ELSE "tr_unprepare", FALSE)
    /\ UNCHANGED <<call, life, fvars, ivars>>

DmaSwitch(s, from, on) ==
    /\ PcmEnable(StreamFifo[s], on)
    /\ Step(s, from, IF on THEN "tr_prepare" ELSE "tr_unprepare", FALSE)
    /\ UNCHANGED <<call, life, fvars, ivars>>

TrPrepare(s) ==
    /\ pc[s] = "tr_prepare"
    /\ IfacePrepare(s)
    /\ LET failed == \E f \in Attached(s) : ~enabled'[f]
       IN /\ failed => mclk < MaxMclk
          /\ Step(s, "tr_prepare", "tr_start", failed)
    /\ UNCHANGED <<call, life, fifovars>>

\* The step after the CPU DAI trigger: the framework returns at its
\* failure, and goes on to the codec DAI trigger otherwise; the capture
\* stream's codec trigger (the NAU8540's) is modelled in Nau8540.
AfterCpuDai(s, failed) ==
    IF s = RenderStream /\ ~failed THEN "cd_trigger" ELSE "done"

TrStart(s) ==
    /\ \E ok \in BOOLEAN :
         /\ ~ok => mclk < MaxMclk
         /\ IfaceStart(s, ok)
         /\ Step(s, "tr_start", AfterCpuDai(s, err[s] \/ ~ok), ~ok)
    /\ UNCHANGED <<call, life, fifovars>>

TrUnprepare(s) ==
    /\ IfaceUnprepare(s)
    /\ Step(s, "tr_unprepare", "tr_stop", FALSE)
    /\ UNCHANGED <<call, life, fifovars>>

TrStop(s) ==
    /\ IfaceStop(s)
    /\ Step(s, "tr_stop", AfterCpuDai(s, err[s]), FALSE)
    /\ UNCHANGED <<call, life, fifovars>>

(* A311DCodecDaiTrigger on the render stream: RENDER_START and RESUME     *)
(* enable TOACODEC, TOHDMITX and the T9015 (ret |= each); RENDER_STOP and *)
(* PAUSE disable them in the same order.  A failing START leaves the CPU  *)
(* DAI started, and a retried START enables mclk again; like the trigger's *)
(* other failures, AVDD fails only while mclk's count is below MaxMclk.    *)
\* Variant: RENDER_RESUME listed with the disabling commands.
CdTriggerResumeOff(s) ==
    /\ pc[s] = "cd_trigger"
    /\ IF call[s].name = "Start"
       THEN \E en \in (IF AvddCanFail /\ mclk < MaxMclk THEN BOOLEAN ELSE {TRUE}) :
              /\ BridgeEnable(TRUE) /\ T9015Start(en)
              /\ Step(s, "cd_trigger", "done", ~(BridgesOk /\ T9015StartOk(en)))
       ELSE /\ BridgeEnable(FALSE) /\ T9015Stop
            /\ Step(s, "cd_trigger", "done", ~(BridgesOk /\ "t9015" \in Probed))
    /\ UNCHANGED <<call, life, fvars, ivars, fifovars>>

CdTrigger(s) ==
    /\ pc[s] = "cd_trigger"
    /\ IF call[s].name \in {"Start", "Resume"}
       THEN \E en \in (IF AvddCanFail /\ mclk < MaxMclk THEN BOOLEAN ELSE {TRUE}) :
              /\ BridgeEnable(TRUE) /\ T9015Start(en)
              /\ Step(s, "cd_trigger", "done", ~(BridgesOk /\ T9015StartOk(en)))
       ELSE /\ BridgeEnable(FALSE) /\ T9015Stop
            /\ Step(s, "cd_trigger", "done", ~(BridgesOk /\ "t9015" \in Probed))
    /\ UNCHANGED <<call, life, fvars, ivars, fifovars>>

Next ==
    \E s \in Streams :
        \/ /\ \/ Begin(s) \/ Return(s)
              \/ HwClose(s) \/ HwOpen(s) \/ HwIface(s)
              \/ DmaConfig(s) \/ DmaConfig2(s) \/ DmaSubmit(s)
              \/ DmaSwitch(s, "dma_on", TRUE) \/ DmaSwitch(s, "dma_off", FALSE)
              \/ TrPrepare(s) \/ TrStart(s) \/ TrUnprepare(s) \/ TrStop(s)
           /\ UNCHANGED gvars
        \/ CdTrigger(s)

Spec == Init /\ [][Next]_vars

-----------------------------------------------------------------------------
Idle(s) == pc[s] = "idle"

(* A stream the framework believes running really plays: its fifo is     *)
(* open with DMA on, its stream is started, its formatter powered up,     *)
(* attached and enabled, and the shared mclk is on.  This relates the     *)
(* return codes of A311DAudioDmaPending/Resume and A311DDaiTrigger to the *)
(* driver state they report on, under the other stream's interleaved calls *)
(* (its hw_params closing and reopening its own fifo, its stop dropping   *)
(* mclk).                                                                  *)
RunningStreamPlays ==
    \A s \in Streams :
        life[s] = "running" /\ Idle(s) =>
            LET x == StreamFifo[s]
                f == StreamFormatter[s]
            IN /\ opened[x] /\ dmaEn[x]
               /\ ready[s] /\ powerup[f] /\ f \in Attached(s) /\ enabled[f]
               /\ mclk > 0

(* The playback DAC follows the render stream: whenever no call of the    *)
(* render stream is in progress, the T9015 holds exactly one AVDD enable  *)
(* with its analog blocks powered, and both bridges are on, while the     *)
(* framework has the stream running, and holds no enable with every block *)
(* off otherwise; over CPU DAI and AVDD failures of START and RESUME,     *)
(* pause and resume cycles, stops and hw_params of either stream.         *)
RenderCodecFollowsStream ==
    Idle(RenderStream) =>
        IF life[RenderStream] = "running"
        THEN avdd = 1 /\ blocks = Started /\ toacodecOn /\ tohdmitxOn
        ELSE avdd = 0 /\ blocks = {}

(* A PAUSE or STOP of the render stream never makes t9015_stop disable an *)
(* AVDD enable the driver does not hold (the regulator core's unbalanced  *)
(* disable): every codec stop follows a codec start that succeeded.        *)
CodecStopHoldsAvdd ==
    [][\A s \in Streams :
         pc[s] = "cd_trigger" /\ call[s].name \in {"Pause", "Stop"} => T9015StopBalanced]_vars

(* The fifo holds its irq, its pclk and its arbiter exactly while it is    *)
(* pcm_opened, through every close/open pair of A311DDaiHwParams and every *)
(* failure path of pcm_open.                                                *)
FifoResourcesBalanced ==
    \A x \in Fifos :
        /\ irqReq[x] = opened[x]
        /\ fpclk[x] = IF opened[x] THEN 1 ELSE 0
        /\ arbOn[x] = opened[x]

(* No fifo register is written while the fifo's pclk is off: hw_free,     *)
(* hw_params, prepare and enable only reach a clocked fifo in the order    *)
(* the framework calls them.                                               *)
NoRegisterAccessUnclocked == ~offAccess

(* The shared master clock is on whenever a formatter drives the bus: no  *)
(* stop of one stream gates mclk under the other, still running, stream.  *)
MclkOnWhileFormatterEnabled ==
    \A f \in Formatters : enabled[f] => mclk > 0

(* Every enable of mclk is matched by a powered-up formatter: iface_start *)
(* and iface_stop keep mclk's count equal to the number of streams whose  *)
(* formatter they powered up, including when power_up fails.               *)
MclkBalanced ==
    mclk = Cardinality({s \in Streams : powerup[StreamFormatter[s]]})

(* The bus clocks of the interface run at the rate of every stream that   *)
(* is playing: hw_params of one stream keeps mclk, sclk and lrclk at the  *)
(* rate the other, running, stream set ("component symmetry").             *)
RatesMatchRunningStreams ==
    \A s \in Streams :
        enabled[StreamFormatter[s]] =>
            streamRate[s] = mclkRate /\ mclkRate = sclkRate /\ sclkRate = lrclkRate
(* The card implements StreamPlayback: with a stream playing while its   *)
(* formatter is enabled, every step of either stream's calls, including   *)
(* the failing ones, turns playback on only for that stream and only in   *)
(* its START or RESUME, and turns it off only for that stream: a stream   *)
(* reset, power-up or power-down on the shared interface never switches   *)
(* the other stream.                                                       *)
Playback == INSTANCE StreamPlayback WITH
    req <- [s \in Streams |-> IF pc[s] = "idle" THEN "none" ELSE call[s].name],
    playing <- {s \in Streams : enabled[StreamFormatter[s]]}

PlaybackRefinement == Playback!PbSpec
=============================================================================
