------------------------------ MODULE BtUsbConfig ------------------------------
(***************************************************************************)
(* Controller configuration of the Realtek Bluetooth vendor library over  *)
(* USB, after hardware_usb.c (with rtk_get_bt_firmware and                 *)
(* rtk_get_patch_entry of hardware.c).  BT_OP_INIT calls                   *)
(* hw_usb_config_start, which zeroes hw_cfg_cb and sends HCI_VENDOR_RESET; *)
(* every Command Complete event comes back through hw_usb_config_cback,   *)
(* which reads the LMP version, reads the ROM version, loads the config   *)
(* file and the firmware, builds the patch and downloads it fragment by   *)
(* fragment.  Success is reported through init_cb from a one-shot timer   *)
(* (start_fwcfg_cbtimer, local_timer_handler); failure at once.            *)
(*                                                                         *)
(* Memory is a set of live allocation ids; hw_cfg_cb's pointers hold ids  *)
(* (0 is NULL).  A free of something not live, or a read through such a  *)
(* pointer, is recorded in fault; a read through NULL is a segmentation   *)
(* fault that ends the process.  The host stack delivers one event per    *)
(* command; status and payload are chosen by the controller.              *)
(***************************************************************************)
EXTENDS Integers

CONSTANTS
    Lmps,        \* LMP subversion replies: "cold", "warmNew" (lmp != current), "warmSame"
    CfgLoads,    \* outcomes of rtk_usb_get_bt_config: "ok", "absent", "readFail"
    FwLoads,     \* outcomes of rtk_get_bt_firmware: "ok", "absent", "readFail"
    PatchOk,     \* outcomes of rtk_usb_get_bt_final_patch: TRUE, FALSE
    TotalLens,   \* total_len of a built patch, in bytes
    FragSize,    \* PATCH_DATA_FIELD_MAX_SIZE
    MaxPatch,    \* max_patch_size of the fw table entry
    TimerOk,     \* outcomes of timer_create
    MaxCycles    \* bound on BT_OP_INIT calls

LastFlag == 128   \* 0x80 on the index byte of the last fragment

VARIABLES
    cb,        \* hw_cfg_cb: [st, cfgBuf, cfgLen, fwBuf, fwLen, totalBuf, totalLen, dlFlag, fragIdx, fragCnt]
    heap,      \* ids of live allocations
    nextId,    \* id of the next malloc
    fault,     \* the invalid accesses so far: "invalidFree", "invalidRead", "nullRead"
    cmd,       \* HCI command in flight: [op, idx], op "none" when none
    timerId,   \* localtimer: 0, -1 (timer_create failed) or 1
    tAlive,    \* the timer localtimer names exists
    armed,     \* it is armed
    reported,  \* last init_cb result of this cycle: "none", "ok" or "fail"
    cycles,    \* BT_OP_INIT calls so far
    built      \* total_len of the patch built in this cycle (0 if none)

uvars == <<cb, heap, nextId, fault, cmd, timerId, tAlive, armed, reported, cycles, built>>

\* The state of the library, a record threaded through one callback.
W == [cb |-> cb, heap |-> heap, next |-> nextId, fault |-> fault, built |-> built]

ZeroCb == [st |-> "idle", cfgBuf |-> 0, cfgLen |-> 0, fwBuf |-> 0, fwLen |-> 0,
           totalBuf |-> 0, totalLen |-> 0, dlFlag |-> 1, fragIdx |-> 0, fragCnt |-> 0]

Set(w, f, v) == [w EXCEPT !.cb = [@ EXCEPT ![f] = v]]

\* malloc into pointer field f.
Alloc(w, f) ==
    [w EXCEPT !.cb = [@ EXCEPT ![f] = w.next], !.heap = @ \cup {w.next}, !.next = @ + 1]

\* free(p): NULL is a no-op; anything not live is a fault.
Free(w, p) ==
    IF p = 0 THEN w
    ELSE IF p \in w.heap THEN [w EXCEPT !.heap = @ \ {p}]
    ELSE [w EXCEPT !.fault = @ \cup {"invalidFree"}]

\* A read through p of something not live: NULL, or a freed block.
Read(w, p) ==
    IF p \in w.heap THEN w
    ELSE [w EXCEPT !.fault = @ \cup {IF p = 0 THEN "nullRead" ELSE "invalidRead"}]

\* The process died on a NULL dereference: no thread of it runs again.
Crashed == "nullRead" \in fault

(* rtk_usb_get_bt_config: no file: 0; malloc, then a short read frees the *)
(* buffer and returns 0 with *config_buf left pointing at it.              *)
GetBtConfig(w, o) ==
    CASE o = "ok"       -> Set(Alloc(w, "cfgBuf"), "cfgLen", 1)
      [] o = "absent"   -> Set(w, "cfgLen", 0)
      [] o = "readFail" -> LET a == Alloc(w, "cfgBuf") IN Set(Free(a, a.cb.cfgBuf), "cfgLen", 0)

(* rtk_get_bt_firmware: no file: -1 with *fw_buf untouched; a short read  *)
(* frees the buffer, sets *fw_buf to NULL and returns -1.                  *)
GetBtFirmware(w, o) ==
    CASE o = "ok"       -> Set(Alloc(w, "fwBuf"), "fwLen", 1)
      [] o = "absent"   -> Set(w, "fwLen", -1)
      [] o = "readFail" -> LET a == Alloc(w, "fwBuf") IN
                           Set(Set(Free(a, a.cb.fwBuf), "fwBuf", 0), "fwLen", -1)

(* rtk_usb_get_bt_final_patch, after the firmware's signatures are read: *)
(* on success the patch entry is malloc'ed (and never freed), total_buf   *)
(* holds patch and config, fw_buf and config_buf are kept; any failure    *)
(* frees fw_buf and config_buf, zeroes their lengths and clears dl_fw_flag. *)
\* Variant: the failure path frees the buffers but keeps their lengths.
FinalPatchKeepLen(w, ok, len) ==
    LET r == Read(w, w.cb.fwBuf) IN
    IF ok THEN LET e == [r EXCEPT !.heap = @ \cup {r.next}, !.next = @ + 1]
               IN [Set(Set(Alloc(e, "totalBuf"), "totalLen", len), "dlFlag", 1) EXCEPT !.built = len]
    ELSE LET f1 == IF r.cb.fwLen > 0 THEN Free(r, r.cb.fwBuf) ELSE r
             f2 == IF f1.cb.cfgLen > 0 THEN Free(f1, f1.cb.cfgBuf) ELSE f1
         IN Set(f2, "dlFlag", 0)

FinalPatch(w, ok, len) ==
    LET r == Read(w, w.cb.fwBuf) IN
    IF ok THEN LET e == [r EXCEPT !.heap = @ \cup {r.next}, !.next = @ + 1]
               IN [Set(Set(Alloc(e, "totalBuf"), "totalLen", len), "dlFlag", 1) EXCEPT !.built = len]
    ELSE LET f1 == IF r.cb.fwLen > 0 THEN Set(Free(r, r.cb.fwBuf), "fwLen", 0) ELSE r
             f2 == IF f1.cb.cfgLen > 0 THEN Set(Free(f1, f1.cb.cfgBuf), "cfgLen", 0) ELSE f1
         IN Set(f2, "dlFlag", 0)

(* The end of hw_usb_config_cback when is_proceeding is FALSE: init_cb    *)
(* (FAIL), free whatever config_len, fw_len and total_len say is held,     *)
(* state 0.  fw_len is -1 after a failed firmware load, which is not 0.   *)
Abort(w) ==
    LET f1 == IF w.cb.cfgLen # 0 THEN Set(Free(w, w.cb.cfgBuf), "cfgLen", 0) ELSE w
        f2 == IF f1.cb.fwLen # 0 THEN Set(Free(f1, f1.cb.fwBuf), "fwLen", 0) ELSE f1
        f3 == IF f2.cb.totalLen # 0 THEN Set(Free(f2, f2.cb.totalBuf), "totalLen", 0) ELSE f2
    IN [w |-> Set(f3, "st", "idle"), send |-> [op |-> "none", idx |-> 0], go |-> FALSE, timer |-> FALSE]

(* Download complete (or a warm start with the same LMP): DWFW_CMPLT,     *)
(* free(total_buf), total_len = 0, start_fwcfg_cbtimer, state 0.           *)
Complete(w) ==
    [w |-> Set(Set(Free(w, w.cb.totalBuf), "totalLen", 0), "st", "idle"),
     send |-> [op |-> "none", idx |-> 0], go |-> TRUE, timer |-> TRUE]

Go(w, st, op) == [w |-> Set(w, "st", st), send |-> [op |-> op, idx |-> 0], go |-> TRUE, timer |-> FALSE]

(* HW_CFG_DL_FW_PATCH's sending half: the index byte of fragment          *)
(* patch_frag_idx (1..127 cycling after the first, 0x80 on the last;      *)
(* the last received index when none is left), then                        *)
(* usb_hci_download_patch_h4 reads its slice of total_buf and sends it.   *)
SendFragment(w, rx) ==
    LET i == w.cb.fragIdx
        n == w.cb.fragCnt
        idx == IF i < n THEN (IF i = 0 THEN 0 ELSE ((i - 1) % 127) + 1)
                             + (IF i = n - 1 THEN LastFlag ELSE 0)
               ELSE rx
    IN [w |-> Set(Read(w, w.cb.totalBuf), "st", "dlPatch"),
        send |-> [op |-> "dl", idx |-> idx], go |-> TRUE, timer |-> FALSE]

(* HW_CFG_START: the config file and the firmware again, the final patch, *)
(* the size checks, the fragment count, and the first fragment.           *)
\* Variant: the fragment count without the tail fragment.
CfgStartNoTail(w, cfgO, fwO, pOk, len) ==
    LET w1 == GetBtFirmware(GetBtConfig(w, cfgO), fwO) IN
    IF w1.cb.fwLen < 0 THEN Abort(Set(w1, "fwLen", 0))
    ELSE LET w2 == FinalPatch(w1, pOk, len) IN
         IF w2.cb.totalLen > MaxPatch THEN Abort(w2)
         ELSE IF w2.cb.totalLen > 0 /\ w2.cb.dlFlag = 1
         THEN SendFragment(Set(w2, "fragCnt", w2.cb.totalLen \div FragSize), 0)
         ELSE Abort(w2)

CfgStart(w, cfgO, fwO, pOk, len) ==
    LET w1 == GetBtFirmware(GetBtConfig(w, cfgO), fwO) IN
    IF w1.cb.fwLen < 0 THEN Abort(Set(w1, "fwLen", 0))
    ELSE LET w2 == FinalPatch(w1, pOk, len) IN
         IF w2.cb.totalLen > MaxPatch THEN Abort(w2)
         ELSE IF w2.cb.totalLen > 0 /\ w2.cb.dlFlag = 1
         THEN SendFragment(Set(w2, "fragCnt", (w2.cb.totalLen + FragSize - 1) \div FragSize), 0)
         ELSE Abort(w2)

(* HW_CFG_READ_LOCAL_VER with status 0: load the config file and the      *)
(* firmware, read fw_version out of fw_buf (rtk_usb_get_fw_version), then  *)
(* a cold start reads the ROM version, a warm start with another LMP      *)
(* resets the controller (HW_RESET_CONTROLLER) and reads it too, and a    *)
(* warm start with the same LMP is complete.                                *)
LocalVer(w, lmp, cfgO, fwO) ==
    LET w1 == GetBtFirmware(GetBtConfig(w, cfgO), fwO)
        w2 == Read(w1, w1.cb.fwBuf)
    IN IF lmp = "warmSame" THEN Complete(w2) ELSE Go(w2, "readEcoVer", "rom")

(* HW_CFG_DL_FW_PATCH on the event of a download command: count the     *)
(* fragment; the controller's echo of the 0x80 index ends the download,  *)
(* otherwise the next fragment goes.                                        *)
Download(w, rx) ==
    LET w1 == Set(w, "fragIdx", w.cb.fragIdx + 1) IN
    IF rx >= LastFlag THEN Complete(w1) ELSE SendFragment(w1, rx)

(* hw_usb_config_cback(event): a command buffer is allocated when status  *)
(* is 0 or the event answers HCI_VSC_READ_ROM_VERSION; without it, or     *)
(* when a step gives up, the abort path runs.                              *)
Outcomes(status) ==
    IF ~(status = 0 \/ cmd.op = "rom") THEN {Abort(W)}
    ELSE CASE cb.st = "resetChannel" -> {Go(W, "readLocalVer", "lmp")}
           [] cb.st = "readLocalVer" ->
                {LocalVer(W, l, c, f) : l \in Lmps, c \in CfgLoads, f \in FwLoads}
           [] cb.st = "readEcoVer" ->
                IF status = 2 THEN {Abort(W)}
                ELSE {CfgStart(W, c, f, ok, n) : c \in CfgLoads, f \in FwLoads,
                                                  ok \in PatchOk, n \in TotalLens}
           [] cb.st = "dlPatch" -> {Download(W, cmd.idx)}

(* start_fwcfg_cbtimer: timer_create only while localtimer is 0, then     *)
(* timer_settime on localtimer, which fails on a deleted timer.            *)
StartTimer ==
    \E ok \in TimerOk :
        LET id == IF timerId = 0 THEN (IF ok THEN 1 ELSE -1) ELSE timerId
            alive == IF timerId = 0 THEN ok ELSE tAlive
        IN /\ timerId' = id /\ tAlive' = alive
           /\ armed' = (armed \/ (id = 1 /\ alive))

\* The controller answers the command in flight with status 0, 1 or 2.
Event ==
    /\ ~Crashed /\ cmd.op # "none"
    /\ \E status \in (IF cmd.op = "rom" THEN {0, 1, 2} ELSE {0, 2}) :
       \E r \in Outcomes(status) :
          /\ cb' = r.w.cb /\ heap' = r.w.heap /\ nextId' = r.w.next
          /\ fault' = r.w.fault /\ built' = r.w.built
          /\ cmd' = r.send
          /\ reported' = IF r.go THEN reported ELSE "fail"
          /\ IF r.timer THEN StartTimer ELSE UNCHANGED <<timerId, tAlive, armed>>
    /\ UNCHANGED cycles

(* BT_OP_INIT -> hw_usb_config_start, from a stack that waits for the     *)
(* previous configuration to end: zero hw_cfg_cb, then send                *)
(* HCI_VENDOR_RESET, or report FAIL when the command buffer alloc fails.   *)
ConfigStart ==
    /\ ~Crashed /\ cb.st = "idle" /\ cmd.op = "none" /\ ~armed /\ cycles < MaxCycles
    /\ \/ /\ cb' = [ZeroCb EXCEPT !.st = "resetChannel"]
          /\ cmd' = [op |-> "reset", idx |-> 0]
          /\ reported' = "none"
       \/ /\ cb' = ZeroCb /\ cmd' = cmd /\ reported' = "fail"
    /\ built' = 0 /\ cycles' = cycles + 1
    /\ UNCHANGED <<heap, nextId, fault, timerId, tAlive, armed>>

(* local_timer_handler, on the timer's thread: init_cb(SUCCESS), then     *)
(* OsFreeTimer(localtimer); localtimer keeps the deleted id.               *)
TimerFire ==
    /\ ~Crashed /\ armed
    /\ reported' = "ok" /\ tAlive' = FALSE /\ armed' = FALSE
    /\ UNCHANGED <<cb, heap, nextId, fault, cmd, timerId, cycles, built>>

UInit ==
    /\ cb = ZeroCb /\ heap = {} /\ nextId = 1 /\ fault = {}
    /\ cmd = [op |-> "none", idx |-> 0]
    /\ timerId = 0 /\ tAlive = FALSE /\ armed = FALSE
    /\ reported = "none" /\ cycles = 0 /\ built = 0

\* After the last configuration, or once the process is dead, nothing runs.
Finished ==
    /\ \/ Crashed
       \/ cb.st = "idle" /\ cmd.op = "none" /\ ~armed /\ cycles = MaxCycles
    /\ UNCHANGED uvars

UNext == ConfigStart \/ Event \/ TimerFire \/ Finished

USpec == UInit /\ [][UNext]_uvars

-----------------------------------------------------------------------------
(* No block is freed twice or read after its free, over every path of    *)
(* the callback and every load outcome: the lengths that say what is      *)
(* held are cleared wherever their buffer is freed (a short read of the   *)
(* config file leaves config_buf pointing at freed memory with length 0), *)
(* so the abort path and the final patch never touch a freed block.       *)
NoUseAfterFree == fault \subseteq {"nullRead"}

(* No invalid access at all: besides the above, fw_buf is live whenever   *)
(* rtk_usb_get_fw_version reads fw_version through it.                     *)
NoInvalidAccess == fault = {}

(* init_cb(SUCCESS) is reported only after the whole patch went down:     *)
(* the fragments acknowledged cover the total_len that was built.          *)
FullPatchBeforeSuccess == reported = "ok" => cb.fragIdx * FragSize >= built

(* Every BT_OP_INIT ends with an init_cb result: once the configuration  *)
(* is over, a result has been reported or the timer that reports it is   *)
(* armed.                                                                  *)
InitOutcomeReported ==
    cycles > 0 /\ cb.st = "idle" /\ cmd.op = "none" => reported # "none" \/ armed
=============================================================================
