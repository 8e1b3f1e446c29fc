---------------------------- MODULE StreamPlayback ----------------------------
(***************************************************************************)
(* What the card promises each of its streams, whatever the other does:  *)
(* a stream is heard only because of its own calls.  The framework makes *)
(* one call at a time on each stream (req[s], "none" between calls); a   *)
(* stream starts playing only inside its own START or RESUME, and stops   *)
(* only inside one of its own calls (a PAUSE or STOP, or a START whose    *)
(* stream reset fails).  The other stream's calls never switch it.         *)
(***************************************************************************)
CONSTANTS
    Streams,   \* the card's streams
    Calls      \* the calls the framework makes on a stream

VARIABLES
    req,       \* the call in progress on each stream, or "none"
    playing    \* the streams whose formatter drives the bus

pbvars == <<req, playing>>

PbInit == req = [s \in Streams |-> "none"] /\ playing = {}

\* The framework calls into the card on an idle stream, or the call returns.
Request(s) ==
    /\ req[s] = "none"
    /\ \E c \in Calls : req' = [req EXCEPT ![s] = c]
    /\ UNCHANGED playing

Complete(s) == req[s] # "none" /\ req' = [req EXCEPT ![s] = "none"] /\ UNCHANGED playing

\* Inside its own START or RESUME a stream begins to play.
Play(s) ==
    /\ req[s] \in {"Start", "Resume"}
    /\ playing' = playing \cup {s}
    /\ UNCHANGED req

\* Inside one of its own calls a stream falls silent.
Silence(s) ==
    /\ req[s] # "none"
    /\ playing' = playing \ {s}
    /\ UNCHANGED req

PbNext == \E s \in Streams : Request(s) \/ Complete(s) \/ Play(s) \/ Silence(s)

PbSpec == PbInit /\ [][PbNext]_pbvars
=============================================================================
