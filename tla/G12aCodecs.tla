------------------------------ MODULE G12aCodecs ------------------------------
(***************************************************************************)
(* The playback codecs the render stream's codec DAI trigger drives: the  *)
(* internal T9015 DAC (meson_t9015.c) and the TOACODEC and TOHDMITX       *)
(* bridges that route TDM_B to it and to HDMI (g12a_toacodec.c,           *)
(* g12a_tohdmitx.c).                                                        *)
(*                                                                         *)
(* Each driver keeps its device in a global set by its probe (g_t9015,    *)
(* g_regmap); every call before a successful probe returns -1 and writes  *)
(* nothing.  Probed is the set of drivers whose probe succeeded before    *)
(* the card was used.  t9015_start holds one enable of the AVDD regulator *)
(* (avdd counts this consumer's enables) and powers the analog blocks     *)
(* BLOCK_EN names; t9015_stop powers them down and drops the enable.      *)
(* The card sets the T9015 format to I2S with the codec as clock slave    *)
(* (probe and meson_axg_snd_card_init both), so t9015_start always clears *)
(* I2S_MODE and that bit is not kept.                                      *)
(***************************************************************************)
EXTENDS Naturals

CONSTANTS
    Probed,       \* the codec drivers whose probe succeeded
    AvddCanFail   \* regulator_enable of AVDD may fail

ASSUME Probed \subseteq {"t9015", "toacodec", "tohdmitx"} /\ AvddCanFail \in BOOLEAN

VARIABLES
    avdd,       \* enables of AVDD the T9015 driver holds
    blocks,     \* the T9015 analog blocks powered in BLOCK_EN
    toacodecOn, \* TOACODEC_CTRL0 enable bit
    tohdmitxOn  \* TOHDMITX_CTRL0 enable bit

gvars == <<avdd, blocks, toacodecOn, tohdmitxOn>>

\* BLOCK_EN after t9015_start: the reference (VMID, REFP), both DACs, the
\* four line-out drivers and the bias current; VMID_GEN_FAST is set for
\* the 200 ms ramp and cleared again.
Started == {"vmid", "refp", "dac", "drivers", "bias"}

GTypeOK ==
    /\ avdd \in Nat
    /\ blocks \subseteq Started \cup {"vmidFast"}
    /\ toacodecOn \in BOOLEAN /\ tohdmitxOn \in BOOLEAN

\* After meson_axg_snd_card_init, which disables both bridges.
GInit == avdd = 0 /\ blocks = {} /\ toacodecOn = FALSE /\ tohdmitxOn = FALSE

(* meson_g12a_toacodec_enable / meson_g12a_tohdmitx_enable: set the       *)
(* enable bit through the driver's regmap, or return -1 unprobed.          *)
ToacodecEnable(on) == toacodecOn' = IF "toacodec" \in Probed THEN on ELSE toacodecOn

TohdmitxEnable(on) == tohdmitxOn' = IF "tohdmitx" \in Probed THEN on ELSE tohdmitxOn

BridgeEnable(on) == ToacodecEnable(on) /\ TohdmitxEnable(on)

BridgesOk == {"toacodec", "tohdmitx"} \subseteq Probed

(* t9015_start: regulator_enable(AVDD), returning its error; then the     *)
(* BLOCK_EN sequence (bias standby, ramp, bias prepare, format, DACs,     *)
(* drivers, bias on), whose regmap writes return nothing it checks.  en   *)
(* is whether regulator_enable succeeds.                                    *)
T9015StartOk(en) == "t9015" \in Probed /\ en

\* Variant: the final `bias On' write is missing.
T9015StartNoBias(en) ==
    IF T9015StartOk(en)
    THEN avdd' = avdd + 1 /\ blocks' = Started \ {"bias"}
    ELSE UNCHANGED <<avdd, blocks>>

T9015Start(en) ==
    IF T9015StartOk(en)
    THEN avdd' = avdd + 1 /\ blocks' = Started
    ELSE UNCHANGED <<avdd, blocks>>

(* t9015_stop: bias, drivers, DACs and reference off, then                *)
(* regulator_disable(AVDD), whose result is ignored; the regulator core   *)
(* refuses (WARN, -EIO) a disable of a consumer with no enable left.       *)
T9015Stop ==
    IF "t9015" \in Probed
    THEN blocks' = {} /\ avdd' = IF avdd > 0 THEN avdd - 1 ELSE 0
    ELSE UNCHANGED <<avdd, blocks>>

\* The codec's AVDD enable is one t9015_stop would drop.
T9015StopBalanced == "t9015" \in Probed => avdd > 0
=============================================================================
