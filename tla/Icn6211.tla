------------------------------- MODULE Icn6211 -------------------------------
(***************************************************************************)
(* panel-chipone-icn6211.c: the ICN6211 MIPI-DSI to RGB bridge of the     *)
(* 7-inch panel.  Two drivers share the chip.  The I2C driver              *)
(* (panel_icn6211_i2c_probe) owns the global context icn6211_i2c, the flag *)
(* panel_icn6211_enable and the "brightness" sysfs class, and the DSI      *)
(* driver (icn6211_probe / remove / shutdown) owns the drm_panel whose     *)
(* callbacks prepare, enable, disable and unprepare the panel.  Both talk  *)
(* to the chip's POWERON, PWM and PORTA registers over I2C, and neither    *)
(* takes a lock: a write to the sysfs attribute (brightness_store) runs    *)
(* beside the DRM callbacks.                                               *)
(*                                                                         *)
(* icn6211_enable sleeps between powering the bridge and lighting the      *)
(* backlight, and brightness_store reads the recorded brightness, writes   *)
(* the registers and only then records the new value; each is split at     *)
(* that point.  With StoreRaces FALSE a store never overlaps a DRM         *)
(* callback (an assumption: nothing in the driver prevents the overlap). *)
(* The I2C driver's remove (which frees the context but leaves the class  *)
(* registered) is not modelled: see the README.                           *)
(***************************************************************************)
EXTENDS Integers

CONSTANTS
    StoreInputs,      \* numbers written to the brightness attribute
    I2cIds,           \* what the read of REG_ID may return: "de", "c3", other or "err"
    I2cCanFail,       \* devm_kzalloc in panel_icn6211_i2c_probe may fail
    ClassCanFail,     \* class_register / device_create may fail
    AttachCanFail,    \* mipi_dsi_attach may fail (host not ready)
    TurnOnCanFail,    \* mipi_dsi_turn_on_peripheral may fail
    StoreRaces        \* brightness_store may interleave with the DRM callbacks

VARIABLES
    icnI2c,       \* icn6211_i2c: "none" (NULL), "alloc" or "freed" (devres released)
    icnEnable,    \* panel_icn6211_enable
    icnClass,     \* the brightness class and its device are registered
    brightness,   \* icn6211_i2c->brightness, 0..255
    poweron,      \* chip register REG_POWERON
    pwm,          \* chip register REG_PWM (backlight duty)
    porta,        \* chip register REG_PORTA: "reset" or "hflip" (BIT(2))
    dsiBound,     \* icn6211_probe succeeded and the panel is added
    prepared,     \* ctx->prepared
    ctxEnabled,   \* ctx->enabled
    drmPc,        \* "idle" or "enabling" (icn6211_enable asleep after POWERON 1)
    storePc,      \* "idle" or "commit" (brightness_store before its last line)
    storeVal      \* the value brightness_store is about to record

pvars == <<icnI2c, icnEnable, icnClass, brightness, poweron, pwm, porta,
           dsiBound, prepared, ctxEnabled, drmPc, storePc, storeVal>>

PwmLevels == 0..255

\* The chip identifiers panel_icn6211_i2c_probe accepts (ver 1 and ver 2).
IcnKnownIds == {"de", "c3"}

\* A store that scales without checking the range.
StoreLevelNoClamp(v) == (v * 255) \div 100

\* brightness_store: a percentage 0..100 scaled to 0..255; anything else is 255.
StoreLevel(v) == IF v >= 0 /\ v <= 100 THEN (v * 255) \div 100 ELSE 255

-----------------------------------------------------------------------------
\* The chip's registers are whatever the boot left; nothing is probed yet.
IcnInit ==
    /\ icnI2c = "none" /\ icnEnable = FALSE /\ icnClass = FALSE
    /\ brightness = 0
    /\ poweron \in {0, 1} /\ pwm \in {0, 255} /\ porta \in {"reset", "hflip"}
    /\ dsiBound = FALSE /\ prepared = FALSE /\ ctxEnabled = FALSE
    /\ drmPc = "idle" /\ storePc = "idle" /\ storeVal = 0

\* No DRM callback and no store is half done.
Quiet == drmPc = "idle" /\ storePc = "idle"

(* A DRM callback may start when no other one is half done: the DRM core *)
(* runs a bridge's callbacks one at a time (the driver takes no lock).    *)
(* The store is held off only with StoreRaces FALSE, an assumption about  *)
(* the user, not a lock of the driver; the drivers run sets it TRUE.      *)
DrmMayRun == drmPc = "idle" /\ (StoreRaces \/ storePc = "idle")

(* panel_icn6211_i2c_probe: allocate the context (zeroed, so brightness 0), *)
(* clear the flag, check the chip id, then set the flag, power the bridge  *)
(* down and register the class.  A failed probe releases the context.      *)
IcnI2cProbe ==
    /\ icnI2c = "none"
    /\ \/ /\ I2cCanFail
          /\ UNCHANGED <<icnI2c, icnEnable, icnClass, brightness, poweron>>
       \/ \E id \in I2cIds :
            /\ id \notin IcnKnownIds
            /\ icnI2c' = "freed" /\ icnEnable' = FALSE /\ brightness' = 0
            /\ UNCHANGED <<icnClass, poweron>>
       \/ /\ \E id \in I2cIds : id \in IcnKnownIds
          /\ icnI2c' = "alloc" /\ icnEnable' = TRUE /\ brightness' = 0
          /\ poweron' = 0
          /\ icnClass' \in IF ClassCanFail THEN BOOLEAN ELSE {TRUE}
    /\ UNCHANGED <<pwm, porta, dsiBound, prepared, ctxEnabled, drmPc, storePc, storeVal>>

(* icn6211_probe: a fresh zeroed ctx, drm_panel_add, then mipi_dsi_attach; *)
(* a failed attach removes the panel again and the probe is retried.       *)
IcnProbe ==
    /\ ~dsiBound /\ drmPc = "idle"
    /\ dsiBound' \in IF AttachCanFail THEN BOOLEAN ELSE {TRUE}
    /\ prepared' = FALSE /\ ctxEnabled' = FALSE
    /\ UNCHANGED <<icnI2c, icnEnable, icnClass, brightness, poweron, pwm, porta,
                   drmPc, storePc, storeVal>>

(* icn6211_prepare: refused before the I2C probe; otherwise turn the      *)
(* peripheral on once.                                                     *)
IcnPrepare ==
    /\ dsiBound /\ DrmMayRun
    /\ icnEnable /\ ~prepared
    /\ prepared' \in IF TurnOnCanFail THEN BOOLEAN ELSE {TRUE}
    /\ UNCHANGED <<icnI2c, icnEnable, icnClass, brightness, poweron, pwm, porta,
                   dsiBound, ctxEnabled, drmPc, storePc, storeVal>>

(* icn6211_enable, up to its sleeps: power the bridge on, wait for it and *)
(* program the DSI side.  Refused before the I2C probe, a no-op when       *)
(* already enabled; ctx->prepared is not checked.                          *)
IcnEnableStart ==
    /\ dsiBound /\ DrmMayRun
    /\ icnEnable /\ ~ctxEnabled
    /\ poweron' = 1 /\ drmPc' = "enabling"
    /\ UNCHANGED <<icnI2c, icnEnable, icnClass, brightness, pwm, porta,
                   dsiBound, prepared, ctxEnabled, storePc, storeVal>>

\* The backlight step without icn6211_i2c->brightness = 255.
IcnEnableBacklightNoRecord ==
    /\ drmPc = "enabling"
    /\ pwm' = 255 /\ porta' = "hflip"
    /\ ctxEnabled' = TRUE /\ drmPc' = "idle"
    /\ UNCHANGED <<icnI2c, icnEnable, icnClass, brightness, poweron, dsiBound,
                   prepared, storePc, storeVal>>

\* icn6211_enable after the sleeps: full backlight, recorded, and PORTA.
IcnEnableBacklight ==
    /\ drmPc = "enabling"
    /\ pwm' = 255 /\ brightness' = 255 /\ porta' = "hflip"
    /\ ctxEnabled' = TRUE /\ drmPc' = "idle"
    /\ UNCHANGED <<icnI2c, icnEnable, icnClass, poweron, dsiBound, prepared,
                   storePc, storeVal>>

\* icn6211_disable without the record: PWM 0, POWERON 0, not enabled.
DisableRegs ==
    /\ pwm' = 0 /\ poweron' = 0 /\ ctxEnabled' = FALSE

(* icn6211_disable: refused before the I2C probe; otherwise backlight and *)
(* bridge off, whatever ctx->enabled was.  The recorded brightness stays.  *)
IcnDisable ==
    /\ dsiBound /\ DrmMayRun /\ icnEnable
    /\ DisableRegs
    /\ UNCHANGED <<icnI2c, icnEnable, icnClass, brightness, porta, dsiBound,
                   prepared, drmPc, storePc, storeVal>>

(* icn6211_unprepare: a no-op before the I2C probe or when not prepared;  *)
(* reset_gpio is never requested, so only the flag changes.                *)
IcnUnprepare ==
    /\ dsiBound /\ DrmMayRun /\ icnEnable /\ prepared
    /\ prepared' = FALSE
    /\ UNCHANGED <<icnI2c, icnEnable, icnClass, brightness, poweron, pwm, porta,
                   dsiBound, ctxEnabled, drmPc, storePc, storeVal>>

\* icn6211_shutdown's two calls, unprepare and then disable, on the state.
ShutdownRegs ==
    /\ prepared' = (prepared /\ ~icnEnable)
    /\ IF icnEnable THEN DisableRegs ELSE UNCHANGED <<pwm, poweron, ctxEnabled>>

\* icn6211_shutdown: the system is going down.
IcnShutdown ==
    /\ dsiBound /\ DrmMayRun
    /\ ShutdownRegs
    /\ UNCHANGED <<icnI2c, icnEnable, icnClass, brightness, porta, dsiBound,
                   drmPc, storePc, storeVal>>

\* icn6211_remove: shutdown, detach and drm_panel_remove; ctx is released.
IcnRemove ==
    /\ dsiBound /\ DrmMayRun
    /\ ShutdownRegs
    /\ dsiBound' = FALSE
    /\ UNCHANGED <<icnI2c, icnEnable, icnClass, brightness, porta,
                   drmPc, storePc, storeVal>>

(* brightness_store up to the record: scale the input, then, by the       *)
(* recorded brightness, either turn backlight and bridge off (0 over a     *)
(* nonzero record), or power the bridge on if the record is 0 and write    *)
(* PWM and PORTA.  The attribute exists only after a successful probe.     *)
IcnStoreWrite(v) ==
    LET b == StoreLevel(v) IN
    /\ icnClass /\ storePc = "idle" /\ (StoreRaces \/ drmPc = "idle")
    /\ icnEnable
    /\ IF b = 0
         THEN IF brightness # 0
                THEN pwm' = 0 /\ poweron' = 0 /\ UNCHANGED porta
                ELSE UNCHANGED <<pwm, poweron, porta>>
         ELSE /\ poweron' = IF brightness = 0 THEN 1 ELSE poweron
              /\ pwm' = b /\ porta' = "hflip"
    /\ storeVal' = b /\ storePc' = "commit"
    /\ UNCHANGED <<icnI2c, icnEnable, icnClass, brightness, dsiBound, prepared,
                   ctxEnabled, drmPc>>

\* brightness_store's last line: icn6211_i2c->brightness = brightness.
IcnStoreCommit ==
    /\ storePc = "commit"
    /\ brightness' = storeVal /\ storePc' = "idle"
    /\ UNCHANGED <<icnI2c, icnEnable, icnClass, poweron, pwm, porta, dsiBound,
                   prepared, ctxEnabled, drmPc, storeVal>>

IcnNext ==
    \/ IcnI2cProbe
    \/ IcnProbe
    \/ IcnPrepare
    \/ IcnEnableStart
    \/ IcnEnableBacklight
    \/ IcnDisable
    \/ IcnUnprepare
    \/ IcnShutdown
    \/ IcnRemove
    \/ \E v \in StoreInputs : IcnStoreWrite(v)
    \/ IcnStoreCommit

IcnSpec == IcnInit /\ [][IcnNext]_pvars

-----------------------------------------------------------------------------
PanelTypeOK ==
    /\ icnI2c \in {"none", "alloc", "freed"}
    /\ icnEnable \in BOOLEAN /\ icnClass \in BOOLEAN
    /\ brightness \in PwmLevels /\ storeVal \in PwmLevels
    /\ poweron \in {0, 1} /\ pwm \in PwmLevels /\ porta \in {"reset", "hflip"}
    /\ dsiBound \in BOOLEAN /\ prepared \in BOOLEAN /\ ctxEnabled \in BOOLEAN
    /\ drmPc \in {"idle", "enabling"} /\ storePc \in {"idle", "commit"}

(* Whenever the bridge is powered and no enable or store is half done,    *)
(* the backlight duty is the brightness the driver has recorded, the value *)
(* brightness_show reports: enable, disable and store keep REG_PWM and     *)
(* icn6211_i2c->brightness in step.                                        *)
PwmMatchesRecordWhilePowered ==
    (icnEnable /\ Quiet /\ poweron = 1) => pwm = brightness

(* brightness_store decides whether to power the bridge on or off from    *)
(* the recorded brightness alone: it relies on the record being 0 exactly  *)
(* when the bridge is powered down.                                        *)
PowerFollowsRecord ==
    (icnEnable /\ Quiet) => (poweron = 0 <=> brightness = 0)
=============================================================================
