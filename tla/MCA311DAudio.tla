---------------------------- MODULE MCA311DAudio ----------------------------
(* The board's card: TDM_B with TDMOUT_B on the playback stream and        *)
(* TDMIN_B on the capture stream, FRDDR_B and TODDR_B as their fifos.      *)
(* The tx slot masks of axg_snd_card.c give 6 slots, the rx masks 2.       *)
EXTENDS A311DAudio, TLC
CONSTANTS play, cap, tdmout, tdmin, frddr, toddr, r1, r2, pcm16, pcmBad
MCStreams == {play, cap}
MCFormatters == {tdmout, tdmin}
MCFifos == {frddr, toddr}
MCStreamFormatter == (play :> tdmout) @@ (cap :> tdmin)
MCStreamFifo == (play :> frddr) @@ (cap :> toddr)
MCStreamSlots == (play :> 6) @@ (cap :> 2)
MCRenderStream == play
MCRates == {r1, r2}
MCFormats == {pcm16, pcmBad}
MCSupportedFormats == {pcm16}
====
