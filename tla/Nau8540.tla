------------------------------- MODULE Nau8540 -------------------------------
(***************************************************************************)
(* The NAU85L40 capture codec driver (linux_drv/src/nau8540.c) as the HDF *)
(* card drives it: the I2C probe (reset and init_regs), the codec part of  *)
(* meson_axg_snd_card_init (set_fmt then set_tdm_slot), the codec DAI ops  *)
(* of a311d_codec_ops.c for the capture stream (hw_params and the capture *)
(* trigger, which calls nau8540_adc_enable), and nau8540_calc_fll_param,   *)
(* the FLL parameter calculation of nau8540_set_pll.                        *)
(*                                                                         *)
(* Registers are abstracted to the fields the driver writes, each Unset   *)
(* until the driver first writes it (the register encodings live in       *)
(* nau8540.h, which is not in this repository).  Writes go through the    *)
(* regmap cache; suspend/resume (regcache only/sync) have no caller and    *)
(* are left out, so cache and chip agree.  The HDF framework issues one   *)
(* capture call at a time, so every call is one action.                    *)
(***************************************************************************)
EXTENDS Integers
LOCAL INSTANCE SequencesExt

CONSTANTS
    CapRates,    \* sample rates the framework passes to hw_params
    CapWidths,   \* bit widths FormatToBitWidth gives (8, 16, 24 or 32)
    FllIns,      \* freq_in values of nau8540_set_pll
    FllRates,    \* Fs values (freq_out / 256) of nau8540_set_pll
    Unset        \* a register field the driver has not written since the reset

-----------------------------------------------------------------------------
(* The driver's constants and tables, in the code's order.                 *)
NauFrefMax == 13500000
NauFvcoMax == 100000000
NauFvcoMin == 90000000
ClkAdcMax  == 6144000

\* mclk_src_scaling: the DCO divider and its register value.
MclkSrcScaling == << [p |-> 1, v |-> 0], [p |-> 2, v |-> 2], [p |-> 4, v |-> 3],
                     [p |-> 8, v |-> 4], [p |-> 16, v |-> 5], [p |-> 32, v |-> 6],
                     [p |-> 3, v |-> 7], [p |-> 6, v |-> 10], [p |-> 12, v |-> 11],
                     [p |-> 24, v |-> 12] >>
\* fll_ratio: the least FREF of a band and the ratio used in it.
FllRatio == << [p |-> 512000, v |-> 1], [p |-> 256000, v |-> 2],
               [p |-> 128000, v |-> 4], [p |-> 64000, v |-> 8],
               [p |-> 32000, v |-> 16], [p |-> 8000, v |-> 32],
               [p |-> 4000, v |-> 64] >>
\* fll_pre_scalar: the divider of freq_in and its register value.
FllPreScalar == << [p |-> 1, v |-> 0], [p |-> 2, v |-> 1],
                   [p |-> 4, v |-> 2], [p |-> 8, v |-> 3] >>
\* osr_adc_sel, indexed by the OSR field of ADC_SAMPLE_RATE.
OsrAdcSel == [i \in 0..3 |-> CASE i = 0 -> [osr |-> 32, clkSrc |-> 3]
                              [] i = 1 -> [osr |-> 64, clkSrc |-> 2]
                              [] i = 2 -> [osr |-> 128, clkSrc |-> 1]
                              [] i = 3 -> [osr |-> 256, clkSrc |-> 0]]
\* NAU8540_ADC_OSR_128, the OSR init_regs selects (and the reset value).
AdcOsr128 == 2

-----------------------------------------------------------------------------
(* nau8540_calc_fll_param.  The u64 division (fvco_max << 16) / (fref *    *)
(* ratio) is the integer quotient q of fvco_max / P and 16 bits of the     *)
(* fraction of its remainder, produced here bit by bit as a long division *)
(* so that no intermediate exceeds 2 * P.                                  *)
RECURSIVE FracBits(_, _, _)
FracBits(r, p, k) ==
    IF k = 0 THEN 0
    ELSE LET b == IF 2 * r >= p THEN 1 ELSE 0
         IN b * 2^(k - 1) + FracBits(2 * r - b * p, p, k - 1)

Fvco(fs, i) == 256 * fs * 2 * MclkSrcScaling[i].p

FvcoOk(fs, i) == NauFvcoMin < Fvco(fs, i) /\ Fvco(fs, i) < NauFvcoMax

\* The scan keeps the first index of the largest FDCO strictly in range.
FvcoSel(fs) ==
    LET ok == {i \in 1..Len(MclkSrcScaling) : FvcoOk(fs, i)}
    IN IF ok = {} THEN 0
       ELSE CHOOSE i \in ok : \A j \in ok : Fvco(fs, j) < Fvco(fs, i)
                                           \/ (Fvco(fs, j) = Fvco(fs, i) /\ i <= j)

\* The FLL fields as the code computes them; ok is FALSE for -EINVAL.
FllResult(fllIn, fs, intMask) ==
    LET pi   == SelectInSeq(FllPreScalar, LAMBDA e : fllIn \div e.p <= NauFrefMax)
        fref == fllIn \div FllPreScalar[pi].p
        ri   == SelectInSeq(FllRatio, LAMBDA e : fref >= e.p)
        sel  == FvcoSel(fs)
        p    == fref * FllRatio[ri].v
        fvco == Fvco(fs, sel)
    IN IF pi = 0 \/ ri = 0 \/ sel = 0 THEN [ok |-> FALSE]
       ELSE [ok |-> TRUE, clkRefDiv |-> FllPreScalar[pi].v, ratio |-> FllRatio[ri].v,
             mclkSrc |-> MclkSrcScaling[sel].v,
             fllInt |-> (fvco \div p) % intMask,
             fllFrac |-> FracBits(fvco % p, p, 16)]

\* An integer field 8 bits wide instead of the FLL's 10.
CalcFllParamNarrowInt(fllIn, fs) ==
    FllResult(fllIn, fs, 2^8)

CalcFllParam(fllIn, fs) ==
    FllResult(fllIn, fs, 2^10)

(* The reference: what the datasheet asks of the FLL, stated without the *)
(* code's table scans.  A reference clock between 4 kHz and 13.5 MHz      *)
(* must be reachable by pre-scaling, and FDCO = 2 * scaling * 256 * Fs    *)
(* strictly between 90 and 100 MHz; the FLL then multiplies FREF by       *)
(* ratio * (int + frac / 2^16), which must be FDCO to within one step of  *)
(* frac.  The fraction is taken four bits at a time by integer division.  *)
RECURSIVE HexFrac(_, _, _)
HexFrac(r, p, k) ==
    IF k = 0 THEN 0
    ELSE ((16 * r) \div p) * 16^(k - 1) + HexFrac((16 * r) % p, p, k - 1)

ScaleOf(v) == (CHOOSE e \in Range(MclkSrcScaling) : e.v = v).p

FllFeasible(fllIn, fs) ==
    /\ \E e \in Range(FllPreScalar) : 4000 <= fllIn \div e.p /\ fllIn \div e.p <= NauFrefMax
    /\ \E e \in Range(MclkSrcScaling) : NauFvcoMin < 512 * fs * e.p /\ 512 * fs * e.p < NauFvcoMax

FllMeetsReference(fllIn, fs, res) ==
    /\ res.ok = FllFeasible(fllIn, fs)
    /\ res.ok =>
         LET fref == fllIn \div 2^res.clkRefDiv
             p    == fref * res.ratio
             fdco == 512 * fs * ScaleOf(res.mclkSrc)
         IN /\ fref <= NauFrefMax
            /\ NauFvcoMin < fdco /\ fdco < NauFvcoMax
            /\ p * res.fllInt <= fdco /\ fdco < p * (res.fllInt + 1)
            /\ res.fllFrac = HexFrac(fdco % p, p, 4)

-----------------------------------------------------------------------------
(* nau8540_fmt_ctrl_val_determine: a DAI format is its master, inversion  *)
(* and format parts; the result is the PCM_CTRL0 and PCM_CTRL1 fields, or *)
(* [ok |-> FALSE] for -EINVAL.                                              *)
FmtCtrlVal(fmt) ==
    IF /\ fmt.master \in {"cbm_cfm", "cbs_cfs"}
       /\ fmt.inv \in {"nb_nf", "ib_nf"}
       /\ fmt.format \in {"i2s", "left_j", "right_j", "dsp_a", "dsp_b"}
    THEN [ok |-> TRUE, master |-> fmt.master = "cbm_cfm", bpInv |-> fmt.inv = "ib_nf",
          df |-> IF fmt.format = "dsp_b" THEN "dsp_a" ELSE fmt.format,
          pcmb |-> fmt.format = "dsp_b"]
    ELSE [ok |-> FALSE]

\* DAI_FORMAT_DEFAULT of axg_snd_card.c: I2S, codec clock and frame slave.
CardFmt == [master |-> "cbs_cfs", inv |-> "nb_nf", format |-> "i2s"]

\* The slots axg_snd_card.c gives the codec: tx/rx mask 0x3, 2 slots, width 0.
CardTdm == [tx |-> 3, slots |-> 2, width |-> 0]

\* The blocks nau8540_powerup turns on: MICBIAS1, ADC CH1, PGA1 and ADC1.
AdcBlocks == {"micbias1", "adcCh1", "pga1", "adc1"}

VARIABLES
    probed,     \* g_nau8540 is set: nau8540_i2c_probe has run
    cardInited, \* g_snd_card->inited
    cardTries,  \* calls of meson_axg_snd_card_init so far
    osr,        \* ADC_SAMPLE_RATE: the OSR field
    adcClkSrc,  \* CLOCK_SRC: the CLK_ADC source field
    sysclk,     \* CLOCK_SRC / FLL6: "mclk" once set_sysclk(DIS) ran, DCO off
    pcm0,       \* PCM_CTRL0: data length, format, bclk inversion, PCM B
    ms,         \* PCM_CTRL1: master mode
    oe12, oe34, \* PCM_CTRL1 / PCM_CTRL2: DO12 and DO34 output enable
    tri12, tri34, \* PCM_CTRL1 / PCM_CTRL2: DO12 and DO34 pads tri-stated
    tdm,        \* PCM_CTRL4 and the PCM_CTRL2 slot offset
    power,      \* the ADC blocks powered
    capLife,    \* the capture stream: "open", "setup", "running" or "paused"
    capRate,    \* the rate and width the capture stream was set up with
    capWidth

nvars == <<probed, cardInited, cardTries, osr, adcClkSrc, sysclk, pcm0, ms, oe12, oe34,
           tri12, tri34, tdm, power, capLife, capRate, capWidth>>

\* The register fields after the chip's reset.
ResetRegs ==
    /\ osr = AdcOsr128
    /\ adcClkSrc = Unset /\ sysclk = Unset /\ pcm0 = Unset /\ ms = Unset
    /\ oe12 = Unset /\ oe34 = Unset /\ tri12 = Unset /\ tri34 = Unset
    /\ tdm = Unset /\ power = {}

NauInit ==
    /\ ResetRegs
    /\ probed = FALSE /\ cardInited = FALSE /\ cardTries = 0
    /\ capLife = "open" /\ capRate = 0 /\ capWidth = 0

(* nau8540_i2c_probe: reset_chip, then init_regs: OSR 128, the DO12 and   *)
(* DO34 pads tri-stated; then g_nau8540 is set.                            *)
Probe ==
    /\ ~probed
    /\ probed' = TRUE
    /\ osr' = AdcOsr128
    /\ tri12' = TRUE /\ tri34' = TRUE
    /\ UNCHANGED <<cardInited, cardTries, adcClkSrc, sysclk, pcm0, ms, oe12, oe34, tdm, power,
                   capLife, capRate, capWidth>>

(* nau8540_set_fmt on the interface fields r: the DL, DF, BP_INV and PCMB  *)
(* bits of PCM_CTRL0 take ctrl1_val (so DL is cleared), MS and DO12_OE of   *)
(* PCM_CTRL1 take ctrl2_val (so DO12_OE is cleared), DO34_OE is cleared.  *)
SetFmt(r, fmt) ==
    LET c == FmtCtrlVal(fmt)
    IN IF ~c.ok THEN [ret |-> -1, r |-> r]
       ELSE [ret |-> 0,
             r |-> [r EXCEPT !.pcm0 = [dl |-> 0, df |-> c.df, bpInv |-> c.bpInv, pcmb |-> c.pcmb],
                             !.ms = c.master, !.oe12 = FALSE, !.oe34 = FALSE]]

(* nau8540_set_tdm_slot: -EINVAL for more than 4 slots or a tx mask in     *)
(* both nibbles; else TDM mode with offset and the tx nibble in PCM_CTRL4, *)
(* DO12_OE and DO34_OE set, and the slot offset 4 * slot_width when the     *)
(* mask is in the high nibble.                                              *)
SetTdmSlot(r, t) ==
    LET high == (t.tx \div 16) % 16 # 0
        low  == t.tx % 16 # 0
    IN IF t.slots > 4 \/ (high /\ low) THEN [ret |-> -1, r |-> r]
       ELSE [ret |-> 0,
             r |-> [r EXCEPT !.tdm = [tx |-> IF high THEN (t.tx \div 16) % 16 ELSE t.tx % 16,
                                      tslot |-> IF high THEN 4 * t.width ELSE 0],
                             !.oe12 = TRUE, !.oe34 = TRUE]]

IfaceRegs == [pcm0 |-> pcm0, ms |-> ms, oe12 |-> oe12, oe34 |-> oe34, tdm |-> tdm]

SetIfaceRegs(r) ==
    /\ pcm0' = r.pcm0 /\ ms' = r.ms /\ oe12' = r.oe12 /\ oe34' = r.oe34 /\ tdm' = r.tdm

\* set_tdm_slot called before set_fmt.
CardCodecInitTdmFirst ==
    LET t == SetTdmSlot(IfaceRegs, CardTdm)
        f == SetFmt(t.r, CardFmt)
    IN IF ~probed THEN [ok |-> FALSE, r |-> IfaceRegs]
       ELSE [ok |-> f.ret = 0 /\ t.ret = 0, r |-> f.r]

(* The codec calls of meson_axg_snd_card_init: set_fmt, then set_tdm_slot *)
(* on what set_fmt left (ret |= both, so the second runs whatever the     *)
(* first returned); both return -1 while g_nau8540 is NULL.                *)
CardCodecInit ==
    LET f == SetFmt(IfaceRegs, CardFmt)
        t == SetTdmSlot(f.r, CardTdm)
    IN IF ~probed THEN [ok |-> FALSE, r |-> IfaceRegs]
       ELSE [ok |-> f.ret = 0 /\ t.ret = 0, r |-> t.r]

(* meson_axg_snd_card_init, called by A311DDaiDeviceInit and by          *)
(* A311DAudioDmaDeviceInit, each once when the card is bound: nothing    *)
(* once inited; otherwise the card is inited only if every call returned *)
(* 0 (its calls to the TDM interface and the fifos are taken to succeed).  *)
CardInit ==
    /\ ~cardInited /\ cardTries < 2
    /\ cardTries' = cardTries + 1
    /\ SetIfaceRegs(CardCodecInit.r)
    /\ cardInited' = CardCodecInit.ok
    /\ UNCHANGED <<probed, osr, adcClkSrc, sysclk, tri12, tri34, power,
                   capLife, capRate, capWidth>>

(* nau8540_clock_check as written: the OSR field itself, not the OSR it   *)
(* selects, is multiplied by the rate.                                     *)
ClockCheck(rate, o) == o < 4 /\ ~(rate * o > ClkAdcMax)

\* nau8540_set_sysclk(NAU8540_CLK_DIS): CLK_SRC to MCLK, then DCO_EN cleared.
SetSysclkDis == sysclk' = "mclk"

(* A311DCodecDaiHwParams on the capture stream: FormatToBitWidth has      *)
(* given width w; nau8540_hw_params sets sysclk to MCLK (DCO off), reads   *)
(* the OSR field, fails on clock_check, sets the CLK_ADC source, fails on  *)
(* a width other than 16/20/24/32, and writes DL.  The framework leaves    *)
(* the stream in open when the call fails.                                 *)
HwParamsFor(rate, w, widths) ==
    /\ cardInited /\ capLife \in {"open", "setup"}
    /\ SetSysclkDis
    /\ IF ~ClockCheck(rate, osr)
       THEN /\ capLife' = "open"
            /\ UNCHANGED <<adcClkSrc, pcm0, capRate, capWidth>>
       ELSE /\ adcClkSrc' = OsrAdcSel[osr].clkSrc
            /\ IF w \in widths
               THEN /\ pcm0' = [pcm0 EXCEPT !.dl = w]
                    /\ capLife' = "setup" /\ capRate' = rate /\ capWidth' = w
               ELSE /\ capLife' = "open"
                    /\ UNCHANGED <<pcm0, capRate, capWidth>>
    /\ UNCHANGED <<probed, cardInited, cardTries, osr, ms, oe12, oe34, tri12, tri34,
                   tdm, power>>

\* The width switch with a case for AXG_BIT_WIDTH8.
HwParamsAny8(rate, w) == HwParamsFor(rate, w, {8, 16, 20, 24, 32})

HwParams(rate, w) == HwParamsFor(rate, w, {16, 20, 24, 32})

(* nau8540_adc_enable(true): powerup, then DO12 and DO34 out of tri-state; *)
(* (false): both pads tri-stated, powerdown, then the digital reset pulse *)
(* (REG_RST, which keeps no register state).                              *)
AdcEnable(on) ==
    /\ power' = IF on THEN AdcBlocks ELSE {}
    /\ tri12' = ~on /\ tri34' = ~on

(* A311DCodecDaiTrigger on the capture stream: CAPTURE_START and _RESUME *)
(* enable the ADC, CAPTURE_STOP and _PAUSE disable it.                     *)
Trigger(cmd) ==
    /\ cardInited
    /\ \/ cmd = "start"  /\ capLife = "setup"  /\ AdcEnable(TRUE) /\ capLife' = "running"
       \/ cmd = "resume" /\ capLife = "paused" /\ AdcEnable(TRUE) /\ capLife' = "running"
       \/ cmd = "pause"  /\ capLife = "running" /\ AdcEnable(FALSE) /\ capLife' = "paused"
       \/ cmd = "stop"   /\ capLife \in {"running", "paused"} /\ AdcEnable(FALSE)
                         /\ capLife' = "setup"
    /\ UNCHANGED <<probed, cardInited, cardTries, osr, adcClkSrc, sysclk, pcm0, ms,
                   oe12, oe34, tdm, capRate, capWidth>>

\* Both card init attempts ran before the codec was probed: the card stays
\* uninited and no capture call reaches the codec.
CardDead ==
    /\ probed /\ ~cardInited /\ cardTries = 2
    /\ UNCHANGED nvars

NauNext ==
    \/ Probe \/ CardInit \/ CardDead
    \/ \E r \in CapRates, w \in CapWidths : HwParams(r, w)
    \/ \E cmd \in {"start", "resume", "pause", "stop"} : Trigger(cmd)

NauSpec == NauInit /\ [][NauNext]_nvars

-----------------------------------------------------------------------------
NauTypeOK ==
    /\ probed \in BOOLEAN /\ cardInited \in BOOLEAN /\ cardTries \in 0..2
    /\ osr \in 0..3
    /\ pcm0 = Unset \/ pcm0.dl \in {0, 16, 20, 24, 32}
    /\ power \subseteq AdcBlocks
    /\ capLife \in {"open", "setup", "running", "paused"}
    /\ capWidth \in {0, 16, 20, 24, 32}

(* While the framework has the capture stream running, the codec really  *)
(* sends it: the ADC path is powered, DO12 and DO34 are enabled and out   *)
(* of tri-state, the interface is the I2S slave with the card's two TDM    *)
(* slots, the ADC clock runs from MCLK at the source its OSR needs, and    *)
(* the data length is the width hw_params was last given.  Outside a      *)
(* running capture the probed codec keeps its pads tri-stated and the ADC *)
(* powered down.  This spans the card init order (set_fmt clears the      *)
(* output enables set_tdm_slot sets), failing hw_params calls that leave  *)
(* earlier fields behind, and pause/resume/stop in any order.             *)
CaptureCodecConfigured ==
    /\ capLife = "running" =>
         /\ power = AdcBlocks /\ tri12 = FALSE /\ tri34 = FALSE
         /\ oe12 = TRUE /\ oe34 = TRUE
         /\ ms = FALSE /\ pcm0.df = "i2s" /\ tdm.tx = CardTdm.tx
         /\ sysclk = "mclk" /\ adcClkSrc = OsrAdcSel[osr].clkSrc
         /\ pcm0.dl = capWidth
    /\ probed /\ capLife # "running" => tri12 = TRUE /\ tri34 = TRUE /\ power = {}

FllAllMeetReference ==
    \A fi \in FllIns, fs \in FllRates : FllMeetsReference(fi, fs, CalcFllParam(fi, fs))

(* Once the codec is probed, nau8540_set_pll programs, for every freq_in  *)
(* and Fs it is given, an FLL that meets the reference: it refuses exactly *)
(* the inputs no pre-scaler and DCO divider can serve, and otherwise its   *)
(* FREF, FDCO, 10-bit integer and 16-bit fraction reproduce FDCO = 512 Fs  *)
(* times the divider to within one step of the fraction.                   *)
FllMatchesReference == probed => FllAllMeetReference

(* The comment in nau8540_hw_params: OSR and Fs must be chosen so that    *)
(* CLK_ADC = OSR * Fs stays within 6.144 MHz.  A running capture stream   *)
(* was accepted by hw_params at a rate whose ADC clock meets that limit.  *)
CaptureAdcClockWithinLimit ==
    capLife = "running" => capRate * OsrAdcSel[osr].osr <= ClkAdcMax
====
