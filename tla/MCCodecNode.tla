---------------------------- MODULE MCCodecNode ----------------------------
(* The codec node with the three streams a camera session routes through *)
(* it: a preview, a video and a still stream.                             *)
EXTENDS AMLCodecNode, TLC

CONSTANTS sPreview, sVideo, sStill

MCEncodeType == (sPreview :> "preview") @@ (sVideo :> "h264") @@ (sStill :> "jpeg")
=============================================================================
