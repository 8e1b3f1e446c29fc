----------------------------- MODULE AxgTdmIface -----------------------------
(***************************************************************************)
(* The TDM interface (TDM_B), after axg_tdm_interface.c, on top of the    *)
(* formatters and streams of AxgTdmFormatter.                              *)
(*                                                                         *)
(* One interface serves a playback and a capture stream, each with its    *)
(* own formatter (StreamFormatter), but the master clock and the bit and  *)
(* sample clocks on the pads are the interface's and so shared by both:   *)
(* mclk is enabled once per started stream, and every hw_params re-rates  *)
(* mclk, sclk and lrclk.  A rate stands for the sample rate; mclk runs at *)
(* rate * mclk_fs, sclk at slots * slot_width * rate, lrclk at rate.       *)
(***************************************************************************)
EXTENDS AxgTdmFormatter

CONSTANTS
    StreamFormatter, \* playback_formatter / capture_formatter of the iface
    StreamSlots,     \* tdm_slots_total of the tx / rx slot masks
    Rates,           \* sample rates a caller may ask for
    NoRate           \* a clock never set

ASSUME /\ StreamFormatter \in [Streams -> Formatters]
       /\ StreamSlots \in [Streams -> Nat]
       /\ NoRate \notin Rates

VARIABLES
    mclk,        \* enable count of iface->mclk
    mclkRate,    \* rate iface->mclk was last set to (iface->mclk_rate)
    sclkRate,    \* rate iface->sclk was last set to
    lrclkRate,   \* rate iface->lrclk was last set to
    streamRate   \* rate of the last hw_params that returned 0, per stream

ivars == <<mclk, mclkRate, sclkRate, lrclkRate, streamRate>>

IfaceTypeOK ==
    /\ mclk \in Nat
    /\ {mclkRate, sclkRate, lrclkRate} \subseteq Rates \cup {NoRate}
    /\ streamRate \in [Streams -> Rates \cup {NoRate}]

IfaceInit ==
    /\ mclk = 0
    /\ mclkRate = NoRate
    /\ sclkRate = NoRate
    /\ lrclkRate = NoRate
    /\ streamRate = [s \in Streams |-> NoRate]

-----------------------------------------------------------------------------
(* meson_axg_tdm_iface_hw_params(s, rate, channels), returning 0 iff ok,  *)
(* for the board's I2S,                                                    *)
(* clock-master format with 2 slots of 32 bits.  In order:                *)
(*  - tdm_iface_set_sysclk sets mclk to rate * mclk_fs, or fails;          *)
(*  - tdm_iface_set_stream fails when the stream has fewer slots than      *)
(*    channels (mclk keeps its new rate);                                  *)
(*  - tdm_iface_set_sclk then tdm_iface_set_lrclk re-rate the pad clocks;  *)
(*    the divisibility check of mclk by sclk always passes since mclk was *)
(*    just set to rate * 256 and sclk is rate * 64.  A failing rate,      *)
(*    duty or phase call returns at once, after the rates set before it.  *)
IfaceHwParams(s, r, ch, ok) ==
    \/ /\ ClkCanFail /\ ~ok
       /\ UNCHANGED ivars
    \/ /\ mclkRate' = r
       /\ \/ /\ ch > StreamSlots[s] /\ ~ok
             /\ UNCHANGED <<sclkRate, lrclkRate, streamRate>>
          \/ /\ ch <= StreamSlots[s] /\ ClkCanFail /\ ~ok
             /\ \E k \in 0..2 :
                  /\ sclkRate' = (IF k >= 1 THEN r ELSE sclkRate)
                  /\ lrclkRate' = (IF k >= 2 THEN r ELSE lrclkRate)
             /\ UNCHANGED streamRate
          \/ /\ ch <= StreamSlots[s] /\ ok
             /\ sclkRate' = r
             /\ lrclkRate' = r
             /\ streamRate' = [streamRate EXCEPT ![s] = r]
       /\ UNCHANGED mclk

(* tdm_iface_enable(true) / (false): clk_prepare_enable / disable of mclk. *)
MclkGet == mclk' = mclk + 1
MclkPut == mclk' = ClkPut(mclk)

(* meson_axg_tdm_iface_start(s), returning 0 iff ok: enable mclk (on      *)
(* failure return), then power up the stream's formatter on the stream    *)
(* and return its result.  mclk stays enabled when power_up fails.        *)
\* Variant: iface_start that does not enable mclk.
IfaceStartNoMclk(s, ok) ==
    /\ PowerUp(StreamFormatter[s], s)
    /\ ok = powerup'[StreamFormatter[s]]
    /\ UNCHANGED ivars

IfaceStart(s, ok) ==
    \/ /\ ClkCanFail /\ ~ok
       /\ UNCHANGED <<fvars, ivars>>
    \/ /\ MclkGet
       /\ PowerUp(StreamFormatter[s], s)
       /\ ok = powerup'[StreamFormatter[s]]
       /\ UNCHANGED <<mclkRate, sclkRate, lrclkRate, streamRate>>

(* meson_axg_tdm_iface_stop: power the stream's formatter down, then      *)
(* disable mclk, whatever was enabled before.                              *)
IfaceStop(s) ==
    /\ PowerDown(StreamFormatter[s])
    /\ MclkPut
    /\ UNCHANGED <<mclkRate, sclkRate, lrclkRate, streamRate>>

(* meson_axg_tdm_iface_prepare / unprepare: reset / stop the stream.     *)
IfacePrepare(s) == StreamReset(s) /\ UNCHANGED ivars
IfaceUnprepare(s) == StreamStop(s) /\ UNCHANGED ivars
=============================================================================
