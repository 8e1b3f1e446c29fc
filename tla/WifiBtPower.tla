------------------------------ MODULE WifiBtPower ------------------------------
(***************************************************************************)
(* The shared power supply of the Wi-Fi/Bluetooth combo chip, after       *)
(* wifi_dt.c.  Bluetooth (aml_set_bt_power) and Wi-Fi (aml_set_wifi_power, *)
(* and the WIFI_POWER_UP/DOWN ioctls of /dev/wifi_power) each own a bit of *)
(* power_flag; wifi_power_control turns the supply on with the first bit  *)
(* set (then sleeps and re-enumerates the SDIO card) and off with the     *)
(* last bit cleared, all under wifi_bt_mutex.                              *)
(*                                                                         *)
(* The supply has one or two enable pins (power_on_pin, power_on_pin2),   *)
(* written one after the other by set_wifi_power; a pin holds the value   *)
(* last requested (1 = on), whatever its electrical polarity.  Each       *)
(* caller is a process that makes one call at a time; pc[p] is the step   *)
(* of its call.                                                            *)
(***************************************************************************)
EXTENDS Naturals, FiniteSets

CONSTANTS
    BT, WIFI,     \* the two bits of power_flag (BT_BIT, WIFI_BIT)
    Procs,        \* callers: "bt" and "ioctl"
    HasPin2,      \* is power_on_pin2 given in the device tree?
    BootOn,       \* does probe leave the supply on (power_on_pin_level set)?
    NoOwner

ASSUME Procs \subseteq {"bt", "ioctl"} /\ HasPin2 \in BOOLEAN /\ BootOn \in BOOLEAN

VARIABLES
    powerFlag,  \* power_flag, as the set of its bits
    pin1,       \* value last written to power_on_pin
    pin2,       \* value last written to power_on_pin2
    mutexOwner, \* holder of wifi_bt_mutex
    sdioFresh,  \* sdio_reinit ran since the supply last came on
    pc,         \* step of each caller's current call
    arg         \* [on, bit, then]: the call's argument and what follows it

wvars == <<powerFlag, pin1, pin2, mutexOwner, sdioFresh, pc, arg>>

\* The chip is powered when every enable pin there is is on.
Powered(p1, p2) == p1 = 1 /\ (HasPin2 => p2 = 1)

WTypeOK ==
    /\ powerFlag \subseteq {BT, WIFI}
    /\ pin1 \in {0, 1} /\ pin2 \in {0, 1}
    /\ mutexOwner \in Procs \cup {NoOwner}
    /\ sdioFresh \in BOOLEAN

(* wifi_dev_probe -> wifi_setup_dt -> wifi_set_up_power: request the pins *)
(* and drive them with set_power(power_on_pin_level); power_flag is 0.    *)
(* The SDIO card found at boot is enumerated by the host at boot.          *)
WInit ==
    /\ powerFlag = {}
    /\ pin1 = IF BootOn THEN 1 ELSE 0
    /\ pin2 = IF BootOn /\ HasPin2 THEN 1 ELSE 0
    /\ mutexOwner = NoOwner
    /\ sdioFresh = BootOn
    /\ pc = [p \in Procs |-> "idle"]
    /\ arg = [p \in Procs |-> [on |-> 0, bit |-> WIFI, then |-> "none"]]

Goto(p, step) == pc' = [pc EXCEPT ![p] = step]

(* A caller starts a call: Bluetooth aml_set_bt_power(v), the ioctl       *)
(* WIFI_POWER_UP (power 0 then 1) or WIFI_POWER_DOWN (power 0).            *)
Call(p) ==
    /\ pc[p] = "idle"
    /\ \/ /\ p = "bt"
          /\ \E v \in {0, 1} : arg' = [arg EXCEPT ![p] = [on |-> v, bit |-> BT, then |-> "none"]]
          /\ Goto(p, "lock")
       \/ /\ p = "ioctl"
          /\ \E up \in BOOLEAN :
               arg' = [arg EXCEPT ![p] = [on |-> 0, bit |-> WIFI, then |-> IF up THEN "on" ELSE "none"]]
          /\ Goto(p, "lock")
    /\ UNCHANGED <<powerFlag, pin1, pin2, mutexOwner, sdioFresh>>

(* wifi_power_control, first part, under the mutex: powering on with no   *)
(* bit set goes to set_wifi_power(1); otherwise the bit is set at once.   *)
(* Powering off clears the bit and, if none is left, goes to              *)
(* set_wifi_power(0).                                                       *)
\* Variant: powering off without the `!power_flag' check.
LockOffAlways(p) ==
    /\ pc[p] = "lock"
    /\ mutexOwner = NoOwner
    /\ mutexOwner' = p
    /\ LET a == arg[p] IN
       IF a.on = 1
       THEN IF powerFlag = {}
            THEN Goto(p, "pin1") /\ UNCHANGED powerFlag
            ELSE Goto(p, "unlock") /\ powerFlag' = powerFlag \cup {a.bit}
       ELSE /\ powerFlag' = powerFlag \ {a.bit}
            /\ Goto(p, "pin1")
    /\ UNCHANGED <<pin1, pin2, sdioFresh, arg>>

\* Variant: the bit is set before set_wifi_power(1) rather than after it.
LockSetsBitEarly(p) ==
    /\ pc[p] = "lock"
    /\ mutexOwner = NoOwner
    /\ mutexOwner' = p
    /\ LET a == arg[p] IN
       IF a.on = 1
       THEN /\ powerFlag' = powerFlag \cup {a.bit}
            /\ Goto(p, IF powerFlag = {} THEN "pin1" ELSE "unlock")
       ELSE /\ powerFlag' = powerFlag \ {a.bit}
            /\ Goto(p, IF powerFlag' = {} THEN "pin1" ELSE "unlock")
    /\ UNCHANGED <<pin1, pin2, sdioFresh, arg>>

Lock(p) ==
    /\ pc[p] = "lock"
    /\ mutexOwner = NoOwner
    /\ mutexOwner' = p
    /\ LET a == arg[p] IN
       IF a.on = 1
       THEN IF powerFlag = {}
            THEN Goto(p, "pin1") /\ UNCHANGED powerFlag
            ELSE Goto(p, "unlock") /\ powerFlag' = powerFlag \cup {a.bit}
       ELSE /\ powerFlag' = powerFlag \ {a.bit}
            /\ Goto(p, IF powerFlag' = {} THEN "pin1" ELSE "unlock")
    /\ UNCHANGED <<pin1, pin2, sdioFresh, arg>>

(* set_wifi_power(v): power_on_pin, then power_on_pin2 if there is one.   *)
(* After powering on, wifi_power_control sleeps and calls sdio_reinit.    *)
(* Powering off makes the card vanish.                                     *)
AfterPins(p) == IF arg[p].on = 1 THEN "reinit" ELSE "unlock"

SetPin1(p) ==
    /\ pc[p] = "pin1"
    /\ pin1' = arg[p].on
    /\ sdioFresh' = (sdioFresh /\ arg[p].on = 1)
    /\ Goto(p, IF HasPin2 THEN "pin2" ELSE AfterPins(p))
    /\ UNCHANGED <<powerFlag, pin2, mutexOwner, arg>>

SetPin2(p) ==
    /\ pc[p] = "pin2"
    /\ pin2' = arg[p].on
    /\ sdioFresh' = (sdioFresh /\ arg[p].on = 1)
    /\ Goto(p, AfterPins(p))
    /\ UNCHANGED <<powerFlag, pin1, mutexOwner, arg>>

(* msleep(200); sdio_reinit(); power_flag |= bit.  The card is found only *)
(* if the chip is powered when the bus is rescanned.                       *)
Reinit(p) ==
    /\ pc[p] = "reinit"
    /\ sdioFresh' = Powered(pin1, pin2)
    /\ powerFlag' = powerFlag \cup {arg[p].bit}
    /\ Goto(p, "unlock")
    /\ UNCHANGED <<pin1, pin2, mutexOwner, arg>>

\* Variant: the first call of WIFI_POWER_UP returns without mutex_unlock.
UnlockKeptOnPowerUp(p) ==
    /\ pc[p] = "unlock"
    /\ mutexOwner' = IF arg[p].then = "on" THEN p ELSE NoOwner
    /\ IF arg[p].then = "on"
       THEN /\ arg' = [arg EXCEPT ![p] = [on |-> 1, bit |-> WIFI, then |-> "none"]]
            /\ Goto(p, "lock")
       ELSE /\ Goto(p, "done") /\ UNCHANGED arg
    /\ UNCHANGED <<powerFlag, pin1, pin2, sdioFresh>>

(* mutex_unlock; WIFI_POWER_UP then makes its second call, power 1.       *)
Unlock(p) ==
    /\ pc[p] = "unlock"
    /\ mutexOwner' = NoOwner
    /\ IF arg[p].then = "on"
       THEN /\ arg' = [arg EXCEPT ![p] = [on |-> 1, bit |-> WIFI, then |-> "none"]]
            /\ Goto(p, "lock")
       ELSE /\ Goto(p, "done") /\ UNCHANGED arg
    /\ UNCHANGED <<powerFlag, pin1, pin2, sdioFresh>>

Return(p) ==
    /\ pc[p] = "done"
    /\ Goto(p, "idle")
    /\ UNCHANGED <<powerFlag, pin1, pin2, mutexOwner, sdioFresh, arg>>

WNext == \E p \in Procs :
    Call(p) \/ Lock(p) \/ SetPin1(p) \/ SetPin2(p) \/ Reinit(p) \/ Unlock(p) \/ Return(p)

WSpec == WInit /\ [][WNext]_wvars

(* Fairness.  A caller that has entered wifi_power_control keeps running: *)
(* setting the pins, msleep and sdio_reinit, and mutex_unlock always      *)
(* return, so each of those steps is weakly fair.  wifi_bt_mutex is a      *)
(* kernel mutex, whose waiter is handed the lock rather than overtaken     *)
(* forever (the mutex handoff): a waiter whose lock is free again and      *)
(* again gets it, which is strong fairness on Lock.  Starting a call is up *)
(* to the caller and carries no fairness.                                  *)
WFairness == \A p \in Procs :
    /\ SF_wvars(Lock(p))
    /\ WF_wvars(SetPin1(p) \/ SetPin2(p) \/ Reinit(p) \/ Unlock(p) \/ Return(p))

WFairSpec == WSpec /\ WFairness

-----------------------------------------------------------------------------
NoCallInside == mutexOwner = NoOwner /\ \A p \in Procs : pc[p] \in {"idle", "done", "lock"}

(* Whenever nobody is inside a power call, every user whose bit is set in *)
(* power_flag has the chip powered and enumerated on SDIO: no caller's    *)
(* power-off, and no power cycle of another user, takes the supply away   *)
(* from a user that still holds its bit.                                   *)
UsersPowered ==
    NoCallInside /\ powerFlag # {} => Powered(pin1, pin2) /\ sdioFresh

(* Every call that enters wifi_power_control returns: Bluetooth's power    *)
(* call and both halves of WIFI_POWER_UP, each waiting for wifi_bt_mutex   *)
(* while the other caller holds it, never block each other for good, and *)
(* the second lock of WIFI_POWER_UP is taken after the first is released. *)
CallsReturn == \A p \in Procs : pc[p] = "lock" ~> pc[p] = "idle"

(* wifi_power_control implements the shared supply of PowerSupply: with  *)
(* power_flag as its users and the pins as its switch, every step of      *)
(* either caller, at every point of its call and not only between calls,  *)
(* is a step of the supply or leaves it alone.  So a bit is never set in  *)
(* power_flag while a pin is off, and a pin never goes off while a bit is *)
(* set.                                                                     *)
Supply == INSTANCE PowerSupply WITH
    Bits <- {BT, WIFI}, users <- powerFlag, powered <- Powered(pin1, pin2)

SupplyRefinement == Supply!SSpec
=============================================================================
