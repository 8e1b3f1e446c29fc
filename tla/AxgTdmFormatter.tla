--------------------------- MODULE AxgTdmFormatter ---------------------------
(***************************************************************************)
(* The TDM formatter blocks (TDMOUT_x / TDMIN_x) and the TDM streams they  *)
(* attach to, after axg_tdm_formatter.c.                                   *)
(*                                                                         *)
(* A stream (struct axg_tdm_stream) keeps a `ready' flag and the list of   *)
(* formatters attached to it, both under ts->lock.  A formatter keeps its  *)
(* `powerup' and `enabled' flags, the stream it is bound to and the clocks *)
(* it holds: pclk while powered up, sclk and lrclk while enabled.  Every   *)
(* clock is an enable count, as the Linux clock framework keeps it.       *)
(*                                                                         *)
(* Each operation is one action: the whole function runs under ts->lock or *)
(* touches only state of its own formatter, and the callers in this port  *)
(* (meson_axg_tdm_iface_start/stop/prepare/unprepare) never run two of    *)
(* them on one stream at once.  A clock or reset call that can fail is a  *)
(* nondeterministic outcome when ClkCanFail is TRUE.                       *)
(***************************************************************************)
EXTENDS Naturals, Sequences, SequencesExt, FiniteSets

CONSTANTS
    Formatters,   \* the formatter devices (TDMOUT_B, TDMIN_B, ...)
    Streams,      \* the TDM streams an interface allocates
    NoStream,     \* formatter->stream == NULL
    ClkCanFail    \* may clk_*/reset_control_* calls return an error?

ASSUME NoStream \notin Streams /\ ClkCanFail \in BOOLEAN

VARIABLES
    ready,     \* ts->ready
    flist,     \* ts->formatter_list, in list order
    enabled,   \* formatter->enabled
    powerup,   \* formatter->powerup
    fstream,   \* formatter->stream
    pclk,      \* enable count of formatter->pclk
    sclk,      \* enable count of formatter->sclk
    lrclk      \* enable count of formatter->lrclk

fvars == <<ready, flist, enabled, powerup, fstream, pclk, sclk, lrclk>>

\* clk_disable_unprepare: the framework warns and keeps 0 on an unbalanced call.
ClkPut(c) == IF c = 0 THEN 0 ELSE c - 1

Attached(s) == ToSet(flist[s])

FormatterTypeOK ==
    /\ ready \in [Streams -> BOOLEAN]
    /\ flist \in [Streams -> Seq(Formatters)]
    /\ enabled \in [Formatters -> BOOLEAN]
    /\ powerup \in [Formatters -> BOOLEAN]
    /\ fstream \in [Formatters -> Streams \cup {NoStream}]
    /\ \A f \in Formatters : {pclk[f], sclk[f], lrclk[f]} \subseteq Nat

FormatterInit ==
    /\ ready = [s \in Streams |-> FALSE]
    /\ flist = [s \in Streams |-> <<>>]
    /\ enabled = [f \in Formatters |-> FALSE]
    /\ powerup = [f \in Formatters |-> FALSE]
    /\ fstream = [f \in Formatters |-> NoStream]
    /\ pclk = [f \in Formatters |-> 0]
    /\ sclk = [f \in Formatters |-> 0]
    /\ lrclk = [f \in Formatters |-> 0]

-----------------------------------------------------------------------------
(* __tdm_formatter_enable and __tdm_formatter_disable on a set F of       *)
(* formatters.  Enable is a no-op on an enabled formatter; otherwise it    *)
(* resets the block, sets the sclk phase, prepares the registers, takes   *)
(* sclk then lrclk (dropping sclk if lrclk fails) and sets `enabled'.      *)
(* A failure at any of these steps leaves the clock counts as they were.  *)
(***************************************************************************)
\* Variant: __tdm_formatter_enable without its `enabled' early return.
EnableTwice(F) ==
    /\ enabled' = [f \in Formatters |-> enabled[f] \/ f \in F]
    /\ sclk' = [f \in Formatters |-> IF f \in F THEN sclk[f] + 1 ELSE sclk[f]]
    /\ lrclk' = [f \in Formatters |-> IF f \in F THEN lrclk[f] + 1 ELSE lrclk[f]]

Enable(F) ==
    /\ enabled' = [f \in Formatters |-> enabled[f] \/ f \in F]
    /\ sclk' = [f \in Formatters |-> IF f \in F /\ ~enabled[f] THEN sclk[f] + 1 ELSE sclk[f]]
    /\ lrclk' = [f \in Formatters |-> IF f \in F /\ ~enabled[f] THEN lrclk[f] + 1 ELSE lrclk[f]]

Disable(F) ==
    /\ enabled' = [f \in Formatters |-> enabled[f] /\ f \notin F]
    /\ sclk' = [f \in Formatters |-> IF f \in F /\ enabled[f] THEN ClkPut(sclk[f]) ELSE sclk[f]]
    /\ lrclk' = [f \in Formatters |-> IF f \in F /\ enabled[f] THEN ClkPut(lrclk[f]) ELSE lrclk[f]]

(* The formatters of list l that one pass of list_for_each_entry enabling *)
(* them leaves enabled, when the enable at position k fails (k = 0: none  *)
(* fails).  Only a formatter not yet enabled can fail: enable of an        *)
(* enabled one returns 0 at once.                                           *)
FailPoints(l, en) ==
    {0} \cup (IF ClkCanFail THEN {i \in 1..Len(l) : ~en[l[i]]} ELSE {})

EnabledPrefix(l, k) == {l[i] : i \in {j \in 1..Len(l) : k = 0 \/ j < k}}

-----------------------------------------------------------------------------
(* axg_tdm_stream_start: under ts->lock set ready and enable every        *)
(* attached formatter, stopping at the first failure.                      *)
StreamStart(s) ==
    /\ \E k \in FailPoints(flist[s], enabled) :
          Enable(EnabledPrefix(flist[s], k))
    /\ ready' = [ready EXCEPT ![s] = TRUE]
    /\ UNCHANGED <<flist, powerup, fstream, pclk>>

(* axg_tdm_stream_stop: under ts->lock clear ready and disable every      *)
(* attached formatter.                                                     *)
\* Variant: the stop walks every formatter of the interface.
StreamStopAll(s) ==
    /\ Disable(Formatters)
    /\ ready' = [ready EXCEPT ![s] = FALSE]
    /\ UNCHANGED <<flist, powerup, fstream, pclk>>

StreamStop(s) ==
    /\ Disable(Attached(s))
    /\ ready' = [ready EXCEPT ![s] = FALSE]
    /\ UNCHANGED <<flist, powerup, fstream, pclk>>

(* axg_tdm_stream_reset: stop, then start.  The start pass sees every      *)
(* attached formatter disabled, so each may fail.                          *)
StreamReset(s) ==
    /\ \E k \in FailPoints(flist[s], [f \in Formatters |-> enabled[f] /\ f \notin Attached(s)]) :
          LET on == EnabledPrefix(flist[s], k)
              wasOn(f) == enabled[f] /\ f \in Attached(s)
              count(c, f) == IF f \in on
                             THEN (IF wasOn(f) THEN c ELSE c + 1)
                             ELSE (IF wasOn(f) THEN ClkPut(c) ELSE c)
          IN /\ enabled' = [f \in Formatters |-> (enabled[f] /\ f \notin Attached(s)) \/ f \in on]
             /\ sclk' = [f \in Formatters |-> count(sclk[f], f)]
             /\ lrclk' = [f \in Formatters |-> count(lrclk[f], f)]
    /\ ready' = [ready EXCEPT ![s] = TRUE]
    /\ UNCHANGED <<flist, powerup, fstream, pclk>>

-----------------------------------------------------------------------------
(* axg_tdm_formatter_power_up(f, ts).  A powered-up formatter returns 0.  *)
(* Otherwise: take pclk, reparent sclk_sel and lrclk_sel to the interface *)
(* clocks, bind formatter->stream = ts, then attach under ts->lock: if the *)
(* stream is ready the formatter is enabled first and, if that fails, it   *)
(* is not added to the list.  Any failure drops pclk; formatter->stream is *)
(* left set when the attach fails.  A failing clk_prepare_enable(pclk)   *)
(* and a failing reparent (pclk taken, then dropped) are the same step.    *)
(* __tdm_formatter_attach: under ts->lock, a formatter joining a ready   *)
(* stream is enabled first, then added to the tail of the stream's list.  *)
Attach(f, s) ==
    /\ IF ready[s] THEN Enable({f}) ELSE UNCHANGED <<enabled, sclk, lrclk>>
    /\ flist' = [flist EXCEPT ![s] = Append(@, f)]

(* __tdm_formatter_dettach: list_del under ts->lock, disable outside it.  *)
Dettach(f) ==
    /\ flist' = [flist EXCEPT ![fstream[f]] = RemoveFirst(@, f)]
    /\ Disable({f})

\* Variant: power_up without its `powerup' early return.
PowerUpAgain(f, s) ==
    /\ IF ready[s] THEN Enable({f}) ELSE UNCHANGED <<enabled, sclk, lrclk>>
    /\ flist' = [flist EXCEPT ![s] = Append(@, f)]
    /\ fstream' = [fstream EXCEPT ![f] = s]
    /\ powerup' = [powerup EXCEPT ![f] = TRUE]
    /\ pclk' = [pclk EXCEPT ![f] = @ + 1]
    /\ UNCHANGED ready

\* Variant: attach enabling the formatter whether or not the stream is ready.
PowerUpEnableAlways(f, s) ==
    \/ /\ powerup[f]
       /\ UNCHANGED fvars
    \/ /\ ~powerup[f]
       /\ Enable({f})
       /\ flist' = [flist EXCEPT ![s] = Append(@, f)]
       /\ fstream' = [fstream EXCEPT ![f] = s]
       /\ powerup' = [powerup EXCEPT ![f] = TRUE]
       /\ pclk' = [pclk EXCEPT ![f] = @ + 1]
       /\ UNCHANGED ready

PowerUp(f, s) ==
    \/ /\ powerup[f]
       /\ UNCHANGED fvars
    \/ /\ ~powerup[f]
       /\ \E step \in (IF ClkCanFail THEN {"clk", "attach", "ok"} ELSE {"ok"}) :
            CASE step = "clk" ->
                    UNCHANGED fvars
              [] step = "attach" ->
                    /\ ready[s] /\ ~enabled[f]
                    /\ fstream' = [fstream EXCEPT ![f] = s]
                    /\ UNCHANGED <<ready, flist, enabled, powerup, pclk, sclk, lrclk>>
              [] step = "ok" ->
                    /\ Attach(f, s)
                    /\ fstream' = [fstream EXCEPT ![f] = s]
                    /\ powerup' = [powerup EXCEPT ![f] = TRUE]
                    /\ pclk' = [pclk EXCEPT ![f] = @ + 1]
                    /\ UNCHANGED ready

(* axg_tdm_formatter_power_down: a no-op unless powered up; else detach   *)
(* (list_del under ts->lock, then disable outside it), drop pclk and      *)
(* unbind the stream.                                                      *)
PowerDown(f) ==
    \/ /\ ~powerup[f]
       /\ UNCHANGED fvars
    \/ /\ powerup[f]
       /\ Dettach(f)
       /\ pclk' = [pclk EXCEPT ![f] = ClkPut(@)]
       /\ fstream' = [fstream EXCEPT ![f] = NoStream]
       /\ powerup' = [powerup EXCEPT ![f] = FALSE]
       /\ UNCHANGED ready

FormatterNext ==
    \/ \E f \in Formatters, s \in Streams : PowerUp(f, s)
    \/ \E f \in Formatters : PowerDown(f)
    \/ \E s \in Streams : StreamStart(s) \/ StreamStop(s) \/ StreamReset(s)

FormatterSpec == FormatterInit /\ [][FormatterNext]_fvars

-----------------------------------------------------------------------------
(* Every formatter holds each of its clocks exactly while the flag that   *)
(* owns it is set: pclk while powered up, sclk and lrclk while enabled.    *)
(* Broken by an enable, disable, power-up or power-down path, including   *)
(* the failure paths of __tdm_formatter_enable and power_up, that takes   *)
(* or drops a clock without setting or clearing its flag.                  *)
ClocksBalanced ==
    \A f \in Formatters :
        /\ pclk[f] = IF powerup[f] THEN 1 ELSE 0
        /\ sclk[f] = IF enabled[f] THEN 1 ELSE 0
        /\ lrclk[f] = IF enabled[f] THEN 1 ELSE 0

(* The stream lists are well formed: a formatter is on a list iff it is   *)
(* powered up, and then exactly once, on the list of the stream it is     *)
(* bound to.  A second list_add_tail of a listed node corrupts the list. *)
ListsWellFormed ==
    \A f \in Formatters :
        /\ \A s \in Streams : Cardinality({i \in 1..Len(flist[s]) : flist[s][i] = f}) <= 1
        /\ powerup[f] <=> \E s \in Streams : f \in Attached(s)
        /\ \A s \in Streams : f \in Attached(s) => fstream[f] = s

(* A formatter drives the bus only on behalf of a started stream: when it *)
(* is enabled it is attached to a stream that is ready.  Broken if stop   *)
(* or detach leaves a formatter running, or if attach enables it for a    *)
(* stream that is not started.                                             *)
EnabledOnlyWhenStreamReady ==
    \A f \in Formatters :
        enabled[f] => \E s \in Streams : f \in Attached(s) /\ ready[s]
=============================================================================
