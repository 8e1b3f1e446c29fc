------------------------------- MODULE AxgFifo -------------------------------
(***************************************************************************)
(* The FRDDR/TODDR audio DMA engines, after axg_fifo.c (the meson_axg_fifo *)
(* _pcm_* API that a311d_dai_ops.c and a311d_dma_ops.c call).              *)
(*                                                                         *)
(* A fifo owns an interrupt line, a peripheral clock and the reset of its  *)
(* memory arbiter; pcm_opened says all three are held.  Its registers keep *)
(* the DMA enable bit (CTRL0_DMA_EN), the block-count interrupt enable and *)
(* the programmed ring size.  Register contents survive a close: only     *)
(* pcm_open clears DMA_EN and the interrupt enables.  Register data values *)
(* (addresses, thresholds, formats) are abstracted away; the ring size is *)
(* kept as a member of a small set because pointer and prepare read it.   *)
(***************************************************************************)
EXTENDS Naturals

CONSTANTS
    Fifos,        \* FRDDR_B, TODDR_B, ...
    DmaArea,      \* fifo->dma_area: bytes allocated at probe (DMA_SIZE_MAX)
    FifoCanFail   \* may request_irq / clk / reset calls return an error?

ASSUME DmaArea \in Nat /\ FifoCanFail \in BOOLEAN

VARIABLES
    opened,    \* fifo->pcm_opened
    irqReq,    \* the fifo irq is requested (request_irq .. free_irq)
    fpclk,     \* enable count of fifo->pclk
    arbOn,     \* fifo->arb is deasserted: the memory arbiter runs
    dmaEn,     \* FIFO_CTRL0.DMA_EN
    intEn,     \* FIFO_CTRL0.INT_EN(FIFO_INT_COUNT_REPEAT)
    cirSize,   \* fifo->dma_cir_size
    offAccess  \* a register was written while fpclk was 0 (history)

fifovars == <<opened, irqReq, fpclk, arbOn, dmaEn, intEn, cirSize, offAccess>>

FifoClkPut(c) == IF c = 0 THEN 0 ELSE c - 1

\* Record a register write on fifo x: the bus needs the fifo's pclk.
Touch(x) == offAccess' = (offAccess \/ fpclk[x] = 0)

FifoTypeOK ==
    /\ opened \in [Fifos -> BOOLEAN]
    /\ irqReq \in [Fifos -> BOOLEAN]
    /\ fpclk \in [Fifos -> Nat]
    /\ arbOn \in [Fifos -> BOOLEAN]
    /\ dmaEn \in [Fifos -> BOOLEAN]
    /\ intEn \in [Fifos -> BOOLEAN]
    /\ cirSize \in [Fifos -> 0..DmaArea]
    /\ offAccess \in BOOLEAN

\* After meson_axg_fifo_probe: memory allocated, arbiter in reset, nothing held.
FifoInit ==
    /\ opened = [x \in Fifos |-> FALSE]
    /\ irqReq = [x \in Fifos |-> FALSE]
    /\ fpclk = [x \in Fifos |-> 0]
    /\ arbOn = [x \in Fifos |-> FALSE]
    /\ dmaEn = [x \in Fifos |-> FALSE]
    /\ intEn = [x \in Fifos |-> FALSE]
    /\ cirSize = [x \in Fifos |-> 0]
    /\ offAccess = FALSE

-----------------------------------------------------------------------------
(* meson_axg_fifo_pcm_open.  A no-op on an opened fifo.  request_irq of   *)
(* the non-shared line fails while it is requested; clk_prepare_enable and *)
(* reset_control_deassert may fail and unwind through free_clk/free_irq.   *)
(* On success the DMA and the interrupts are disabled, pending interrupts  *)
(* acked and the startup registers written before pcm_opened is set.       *)
\* Variant: pcm_open without clk_prepare_enable(pclk).
PcmOpenNoClk(x) ==
    \/ /\ opened[x]
       /\ UNCHANGED fifovars
    \/ /\ ~opened[x] /\ ~irqReq[x]
       /\ irqReq' = [irqReq EXCEPT ![x] = TRUE]
       /\ dmaEn' = [dmaEn EXCEPT ![x] = FALSE]
       /\ intEn' = [intEn EXCEPT ![x] = FALSE]
       /\ arbOn' = [arbOn EXCEPT ![x] = TRUE]
       /\ opened' = [opened EXCEPT ![x] = TRUE]
       /\ Touch(x)
       /\ UNCHANGED <<fpclk, cirSize>>

PcmOpen(x) ==
    \/ /\ opened[x]
       /\ UNCHANGED fifovars
    \/ /\ ~opened[x]
       /\ \E step \in (IF FifoCanFail THEN {"irq", "clk", "arb", "ok"} ELSE {"ok"})
                      \cup (IF irqReq[x] THEN {"irq"} ELSE {}) :
            CASE step = "irq" -> UNCHANGED fifovars
              [] step = "clk" -> UNCHANGED fifovars
              [] step = "arb" ->
                    /\ dmaEn' = [dmaEn EXCEPT ![x] = FALSE]
                    /\ intEn' = [intEn EXCEPT ![x] = FALSE]
                    /\ UNCHANGED <<opened, irqReq, fpclk, arbOn, cirSize, offAccess>>
              [] step = "ok" ->
                    /\ ~irqReq[x]
                    /\ irqReq' = [irqReq EXCEPT ![x] = TRUE]
                    /\ fpclk' = [fpclk EXCEPT ![x] = @ + 1]
                    /\ dmaEn' = [dmaEn EXCEPT ![x] = FALSE]
                    /\ intEn' = [intEn EXCEPT ![x] = FALSE]
                    /\ arbOn' = [arbOn EXCEPT ![x] = TRUE]
                    /\ opened' = [opened EXCEPT ![x] = TRUE]
                    /\ UNCHANGED <<cirSize, offAccess>>

(* meson_axg_fifo_pcm_close.  A no-op unless opened; else put the arbiter *)
(* back in reset, drop pclk, free the irq and clear pcm_opened.  DMA_EN   *)
(* and INT_EN are left as they are.                                        *)
\* Variant: pcm_close without free_irq.
PcmCloseKeepIrq(x) ==
    \/ /\ ~opened[x]
       /\ UNCHANGED fifovars
    \/ /\ opened[x]
       /\ arbOn' = [arbOn EXCEPT ![x] = FALSE]
       /\ fpclk' = [fpclk EXCEPT ![x] = FifoClkPut(@)]
       /\ opened' = [opened EXCEPT ![x] = FALSE]
       /\ UNCHANGED <<irqReq, dmaEn, intEn, cirSize, offAccess>>

PcmClose(x) ==
    \/ /\ ~opened[x]
       /\ UNCHANGED fifovars
    \/ /\ opened[x]
       /\ arbOn' = [arbOn EXCEPT ![x] = FALSE]
       /\ fpclk' = [fpclk EXCEPT ![x] = FifoClkPut(@)]
       /\ irqReq' = [irqReq EXCEPT ![x] = FALSE]
       /\ opened' = [opened EXCEPT ![x] = FALSE]
       /\ UNCHANGED <<dmaEn, intEn, cirSize, offAccess>>

(* meson_axg_fifo_pcm_hw_params(x, period, size): fails unless opened or  *)
(* when size exceeds dma_area; else programs the ring, enables the block  *)
(* count interrupt and records dma_cir_size.                               *)
\* Variant: pcm_hw_params without the dma_area size check.
PcmHwParamsNoBound(x, size) ==
    /\ opened[x]
    /\ intEn' = [intEn EXCEPT ![x] = TRUE]
    /\ cirSize' = [cirSize EXCEPT ![x] = size]
    /\ Touch(x)
    /\ UNCHANGED <<opened, irqReq, fpclk, arbOn, dmaEn>>

PcmHwParams(x, size) ==
    /\ opened[x]
    /\ size <= DmaArea
    /\ intEn' = [intEn EXCEPT ![x] = TRUE]
    /\ cirSize' = [cirSize EXCEPT ![x] = size]
    /\ Touch(x)
    /\ UNCHANGED <<opened, irqReq, fpclk, arbOn, dmaEn>>

(* meson_axg_fifo_pcm_hw_free: disables the block count interrupt, with   *)
(* no pcm_opened check.                                                    *)
PcmHwFree(x) ==
    /\ intEn' = [intEn EXCEPT ![x] = FALSE]
    /\ Touch(x)
    /\ UNCHANGED <<opened, irqReq, fpclk, arbOn, dmaEn, cirSize>>

(* meson_axg_fifo_pcm_enable(x, b): sets DMA_EN if opened.                *)
PcmEnable(x, b) ==
    /\ opened[x]
    /\ dmaEn' = [dmaEn EXCEPT ![x] = b]
    /\ Touch(x)
    /\ UNCHANGED <<opened, irqReq, fpclk, arbOn, intEn, cirSize>>

(* meson_axg_fifo_pcm_prepare: if opened, pulse FORCE_FINISH to reset the *)
(* DDR pointer (g12a) and clear the ring.  No modelled state changes.      *)
PcmPrepare(x) ==
    /\ opened[x]
    /\ Touch(x)
    /\ UNCHANGED <<opened, irqReq, fpclk, arbOn, dmaEn, intEn, cirSize>>
=============================================================================
