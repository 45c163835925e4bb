------------------------------- MODULE Outputs -------------------------------
(***************************************************************************)
(* What becomes of the pictures of one camera beside the RTSP server and   *)
(* the recorder: RTMP push and HLS, which main starts on hub subscriptions *)
(* (cmd/server/main.go, steps 5.7 and 5.8), the substream with its own     *)
(* encoder, the hardware encoder, the parameter sets main keeps for the    *)
(* hub, and the formats all of them convert between.  They only share      *)
(* channels whose writer never waits (AUHub shows this of the hub), so     *)
(* each configuration explores the parts that act on each other, and the   *)
(* parts of the others stay as they begin.                                 *)
(***************************************************************************)
EXTENDS RtmpPush, HlsServer, M2MEncoder, Substream, ParamSets, Formats

CONSTANTS Configurations,       \* the sets of parts to explore
          MaxPushed             \* bound: units written while RTMP is enabled

ASSUME ConfigurationsAssumption ==
    Configurations \subseteq SUBSET {"rtmp", "hls", "encoder", "substream", "sets", "formats"}
ASSUME MaxPushedAssumption == MaxPushed \in Nat

VARIABLES enabled, produced

vars == <<rtmpVars, hlsVars, encoderVars, subVars, paramVars, formatVars, enabled, produced>>

Init ==
    /\ enabled \in Configurations /\ produced = 0
    /\ RtmpInit /\ HlsInit /\ EncoderInit /\ SubstreamInit /\ ParamSetsInit
    /\ "substream" \notin enabled => fits /\ run = "none"
    /\ "sets" \notin enabled => everyIDR
    /\ IF "formats" \in enabled THEN FormatsInit
       ELSE subject = [kind |-> "none"] /\ converted = <<>>

OtherParts == <<encoderVars, subVars, paramVars, formatVars>>

(* The camera pump writes a unit into the hub; parameter sets may come alone
   or with a keyframe.  After the context ends the pump is gone. *)
CameraWrites ==
    /\ enabled \intersect {"rtmp", "hls"} # {}
    /\ produced < (IF "rtmp" \in enabled THEN MaxPushed ELSE MaxUnits)
    /\ ~cancelled
    /\ \E key \in BOOLEAN, kind \in ParamKinds :
           /\ IF phase = "push"
              THEN RtmpReceives([key |-> key, params |-> kind])
              ELSE kind = "none" /\ "hls" \in enabled /\ UNCHANGED rtmpVars
           /\ IF "hls" \in enabled
              THEN HlsReceives([key |-> key, id |-> produced + 1])
              ELSE UNCHANGED hlsVars
    /\ produced' = produced + 1
    /\ UNCHANGED <<OtherParts, enabled>>

RtmpStep ==
    /\ "rtmp" \in enabled
    /\ RunLoop \/ RtmpStop \/ RtmpEnv
    /\ UNCHANGED <<hlsVars, OtherParts, enabled, produced>>

HlsStep ==
    /\ "hls" \in enabled
    /\ ~cancelled
    /\ HlsProcessAU \/ HlsClient
    /\ UNCHANGED <<rtmpVars, OtherParts, enabled, produced>>

EncoderStep ==
    /\ "encoder" \in enabled
    /\ EncoderNext
    /\ UNCHANGED <<rtmpVars, hlsVars, subVars, paramVars, formatVars, enabled, produced>>

SubstreamStep ==
    /\ "substream" \in enabled
    /\ SubstreamNext
    /\ UNCHANGED <<rtmpVars, hlsVars, encoderVars, paramVars, formatVars, enabled, produced>>

ParamSetsStep ==
    /\ "sets" \in enabled
    /\ ParamSetsNext
    /\ UNCHANGED <<rtmpVars, hlsVars, encoderVars, subVars, formatVars, enabled, produced>>

FormatsStep ==
    /\ "formats" \in enabled
    /\ FormatsNext
    /\ UNCHANGED <<rtmpVars, hlsVars, encoderVars, subVars, paramVars, enabled, produced>>

Next ==
    \/ CameraWrites \/ RtmpStep \/ HlsStep
    \/ EncoderStep \/ SubstreamStep \/ ParamSetsStep \/ FormatsStep

Spec == Init /\ [][Next]_vars /\ RtmpFairness

===============================================================================
