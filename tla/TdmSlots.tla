------------------------------- MODULE TdmSlots -------------------------------
(***************************************************************************)
(* The slot arithmetic of a TDM stream: tdm_slots_total, which the        *)
(* interface uses to accept or refuse a channel count, and                *)
(* axg_tdm_formatter_set_channel_masks, which spreads the channels over   *)
(* the slots of the four lanes, lowest lane and lowest slot first.        *)
(*                                                                         *)
(* A lane mask is the set of its set bits, over MaskBits bits instead of  *)
(* 32; ch is the unsigned channel count, which the loop decrements.       *)
(* The state is the pair the two functions read (ts->mask, ts->channels), *)
(* changed one lane or the channel count at a time, as set_tdm_slots and  *)
(* hw_params do.                                                           *)
(***************************************************************************)
EXTENDS Integers, FiniteSets, Sequences

CONSTANTS
    NumLanes,     \* AXG_TDM_NUM_LANES
    MaskBits,     \* bits per lane mask (32 in the code)
    MaxChannels,  \* channel counts 0..MaxChannels are tried
    UintMax       \* UINT_MAX; any value above MaxChannels behaves alike here

ASSUME /\ NumLanes \in Nat \ {0} /\ MaskBits \in Nat /\ MaxChannels \in Nat
       /\ UintMax \in Nat /\ UintMax > MaxChannels

VARIABLES mask, ch
tsvars == <<mask, ch>>

Bits == 0..(MaskBits - 1)
Lanes == 1..NumLanes
EINVAL == 22

\* ch -= 1 on an unsigned int: 0 wraps to UINT_MAX.
Dec(c) == IF c = 0 THEN UintMax ELSE c - 1

(* tdm_slots_total: hweight32 of every lane mask, summed.                  *)
RECURSIVE SlotsFrom(_, _)
SlotsFrom(m, i) == IF i > NumLanes THEN 0 ELSE Cardinality(m[i]) + SlotsFrom(m, i + 1)

\* Variant: the lane loop stops one lane early.
SlotsTotalShort(m) == SlotsFrom(m, 2)

SlotsTotal(m) == SlotsFrom(m, 1)

(* The inner loop of set_channel_masks on one lane mask lm, from bit j,   *)
(* while j < 32 and ch != 0: each set bit takes a channel.  Returns the   *)
(* lane's register value (a set of bits) and the channels left.            *)
RECURSIVE LaneFillWild(_, _, _)
\* Variant: the loop without the `&& ch' condition.
LaneFillWild(lm, j, c) ==
    IF j >= MaskBits THEN <<{}, c>>
    ELSE IF j \in lm
         THEN LET r == LaneFillWild(lm, j + 1, Dec(c)) IN <<r[1] \cup {j}, r[2]>>
         ELSE LaneFillWild(lm, j + 1, c)

RECURSIVE LaneFill(_, _, _)
LaneFill(lm, j, c) ==
    IF j >= MaskBits \/ c = 0 THEN <<{}, c>>
    ELSE IF j \in lm
         THEN LET r == LaneFill(lm, j + 1, Dec(c)) IN <<r[1] \cup {j}, r[2]>>
         ELSE LaneFill(lm, j + 1, c)

(* The outer loop from lane i: the values written and the channels left. *)
RECURSIVE FillLanes(_, _, _)
FillLanes(m, i, c) ==
    IF i > NumLanes THEN <<<<>>, c>>
    ELSE LET r == LaneFill(m[i], 0, c)
             rest == FillLanes(m, i + 1, r[2])
         IN <<<<r[1]>> \o rest[1], rest[2]>>

(* axg_tdm_formatter_set_channel_masks: the lane values written and the   *)
(* return code, -EINVAL when channels are left over.                       *)
SetChannelMasks(m, c) ==
    LET r == FillLanes(m, 1, c)
    IN [val |-> r[1], ret |-> IF r[2] # 0 THEN -EINVAL ELSE 0]

TsTypeOK ==
    /\ mask \in [Lanes -> SUBSET Bits]
    /\ ch \in 0..MaxChannels

TsInit ==
    /\ mask \in [Lanes -> SUBSET Bits]
    /\ ch \in 0..MaxChannels

\* meson_axg_tdm_iface_set_tdm_slots on one lane, or a new channel count.
TsNext ==
    \/ \E i \in Lanes, lm \in SUBSET Bits : mask' = [mask EXCEPT ![i] = lm] /\ UNCHANGED ch
    \/ \E c \in 0..MaxChannels : ch' = c /\ UNCHANGED mask

TsSpec == TsInit /\ [][TsNext]_tsvars

-----------------------------------------------------------------------------
(* The reference: order the slots (lane, bit) lexicographically; the      *)
(* first min(ch, slots) of them carry a channel.                            *)
Slots(m) == {<<i, j>> \in Lanes \X Bits : j \in m[i]}
Before(p, q) == p[1] < q[1] \/ (p[1] = q[1] /\ p[2] < q[2])
Rank(m, p) == Cardinality({q \in Slots(m) : Before(q, p)})

(* set_channel_masks gives channel slots to exactly the first ch slots in *)
(* lane-then-bit order, and fails exactly when the stream has more         *)
(* channels than slots: the unsigned countdown neither stops early nor     *)
(* runs past zero.                                                          *)
ChannelMasksMatchReference ==
    SetChannelMasks(mask, ch)
        = [val |-> [i \in Lanes |-> {j \in mask[i] : Rank(mask, <<i, j>>) < ch}],
           ret |-> IF ch > Cardinality(Slots(mask)) THEN -EINVAL ELSE 0]

(* The channel check of tdm_iface_set_stream (tdm_slots_total(mask) <    *)
(* channels is refused) is exactly what keeps the WARN_ON of              *)
(* set_channel_masks from firing: a stream hw_params accepts always gets  *)
(* a channel mask.                                                          *)
SlotCheckPreventsMaskError ==
    (SlotsTotal(mask) >= ch) <=> (SetChannelMasks(mask, ch).ret = 0)
=============================================================================
