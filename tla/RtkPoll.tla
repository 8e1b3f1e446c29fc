-------------------------------- MODULE RtkPoll --------------------------------
(***************************************************************************)
(* The Bluetooth idle-poll timer of the Realtek vendor library, after     *)
(* rtk_poll.c.  bt_poll_cb holds the poll state, whether a POSIX timer    *)
(* was created (timer_created) and its id.  poll_timer_flush, called when *)
(* HCI data is sent, creates the timer on first use and re-arms it for    *)
(* timeout_ms; poll_enable(false) disarms it; poll_cleanup deletes it;    *)
(* poll_init clears the control block.                                     *)
(*                                                                         *)
(* Timers are the kernel's objects: live is the set of ids created and    *)
(* not deleted, armed those of them counting down.  Ids are numbered in   *)
(* creation order, at most MaxTimers of them.  The callers are outside    *)
(* this repository; phase is their protocol: poll_init, then enable,     *)
(* flush and disable in any order, then poll_cleanup, and again.          *)
(***************************************************************************)
EXTENDS Naturals

CONSTANTS
    MaxTimers,  \* bound on timer_create calls that succeed
    NoTimer     \* the id of a zeroed control block

VARIABLES
    phase,      \* "down" before poll_init and after poll_cleanup, else "up"
    state,      \* bt_poll_cb.state: "disabled" or "enabled"
    created,    \* bt_poll_cb.timer_created
    tid,        \* bt_poll_cb.timer_id
    live,       \* ids of timers created and not deleted
    armed,      \* ids of live timers that are armed
    nextId,     \* id the next timer_create returns
    firing      \* ids whose expiry thread has not run poll_idle_timeout yet

pvars == <<phase, state, created, tid, live, armed, nextId, firing>>

PTypeOK ==
    /\ phase \in {"down", "up"}
    /\ state \in {"disabled", "enabled"}
    /\ created \in BOOLEAN
    /\ tid \in 1..MaxTimers \cup {NoTimer}
    /\ armed \subseteq live /\ live \subseteq 1..MaxTimers

PInit ==
    /\ phase = "down"
    /\ state = "disabled"
    /\ created = FALSE
    /\ tid = NoTimer
    /\ live = {}
    /\ armed = {}
    /\ nextId = 1
    /\ firing = {}

(* poll_init: memset of the control block, state POLL_DISABLED.           *)
PollInit ==
    /\ phase = "down"
    /\ phase' = "up"
    /\ state' = "disabled"
    /\ created' = FALSE
    /\ tid' = NoTimer
    /\ UNCHANGED <<live, armed, nextId, firing>>

(* poll_cleanup: timer_delete if timer_created; timer_created is kept.    *)
\* Variant: cleanup that never deletes the timer.
PollCleanupKeep ==
    /\ phase = "up"
    /\ phase' = "down"
    /\ UNCHANGED <<state, created, tid, live, armed, nextId, firing>>

PollCleanup ==
    /\ phase = "up"
    /\ phase' = "down"
    /\ live' = IF created THEN live \ {tid} ELSE live
    /\ armed' = IF created THEN armed \ {tid} ELSE armed
    /\ UNCHANGED <<state, created, tid, nextId, firing>>

(* poll_timer_stop: timer_settime to zero if timer_created.               *)
TimerStop == armed' = IF created THEN armed \ {tid} ELSE armed

(* poll_enable(turn_on): nothing if already in that state; off stops the  *)
(* timer then disables; on only enables, the timer waits for a flush.     *)
\* Variant: turning off without poll_timer_stop.
PollEnableNoStop(on) ==
    /\ phase = "up"
    /\ state # (IF on THEN "enabled" ELSE "disabled")
    /\ state' = IF on THEN "enabled" ELSE "disabled"
    /\ UNCHANGED <<phase, created, tid, live, armed, nextId, firing>>

PollEnable(on) ==
    /\ phase = "up"
    /\ state # (IF on THEN "enabled" ELSE "disabled")
    /\ IF on THEN UNCHANGED armed ELSE TimerStop
    /\ state' = IF on THEN "enabled" ELSE "disabled"
    /\ UNCHANGED <<phase, created, tid, live, nextId, firing>>

(* poll_timer_flush, when enabled (it returns at once otherwise): create  *)
(* the timer if there is none (timer_create may fail, and is then tried   *)
(* at the next flush), then, if there is one, arm it for timeout_ms.       *)
PollTimerFlush ==
    /\ phase = "up"
    /\ state = "enabled"
    /\ \/ /\ created
          /\ armed' = armed \cup ({tid} \cap live)
          /\ UNCHANGED <<created, tid, live, nextId>>
       \/ /\ ~created
          /\ nextId <= MaxTimers
          /\ created' = TRUE /\ tid' = nextId
          /\ live' = live \cup {nextId} /\ nextId' = nextId + 1
          /\ armed' = armed \cup {nextId}
       \/ /\ ~created
          /\ UNCHANGED <<created, tid, live, armed, nextId>>
    /\ UNCHANGED <<phase, state, firing>>

(* The timer runs out: a one-shot timer disarms and its SIGEV_THREAD     *)
(* thread runs poll_idle_timeout.                                          *)
TimerExpire ==
    /\ \E t \in armed : armed' = armed \ {t} /\ firing' = firing \cup {t}
    /\ UNCHANGED <<phase, state, created, tid, live, nextId>>

(* The expiry thread calls poll_idle_timeout, whatever the poll state is *)
(* by then: nothing in rtk_poll.c waits for it or checks it.              *)
IdleTimeoutRun ==
    /\ \E t \in firing : firing' = firing \ {t}
    /\ UNCHANGED <<phase, state, created, tid, live, armed, nextId>>

PNext ==
    \/ PollInit \/ PollCleanup \/ PollTimerFlush \/ TimerExpire \/ IdleTimeoutRun
    \/ \E on \in BOOLEAN : PollEnable(on)

PSpec == PInit /\ [][PNext]_pvars

-----------------------------------------------------------------------------
(* The idle timeout only counts down while the poll is enabled between    *)
(* poll_init and poll_cleanup, and only on the control block's own timer: *)
(* disabling, cleanup and a re-init never leave a timer armed that could  *)
(* call poll_idle_timeout later.                                           *)
ArmedOnlyWhileEnabled ==
    \A t \in armed : phase = "up" /\ state = "enabled" /\ created /\ t = tid

(* No timer leaks: the only live timer is the one the control block      *)
(* records, and after poll_cleanup none is left, over any number of        *)
(* init/cleanup cycles.                                                     *)
NoTimerLeak ==
    /\ live \subseteq (IF created THEN {tid} ELSE {})
    /\ phase = "down" => live = {}
=============================================================================
