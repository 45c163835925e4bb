------------------------------ MODULE Detection ------------------------------
(***************************************************************************)
(* From decoded frames to alarms (internal/ai: decoder.go, yuv_source.go,  *)
(* service.go; internal/gbalarm): ffmpeg decodes what the hub delivers, or *)
(* the camera offers its frames directly; the service runs the detector on *)
(* them and publishes an event for each result; the alarm bridge takes the *)
(* events, and so does the web server when it runs (main.go:610-617,       *)
(* web.go:164-173), from the same channel.                                 *)
(***************************************************************************)
EXTENDS Naturals, Sequences, FiniteSets

CONSTANTS FrameCapacity,    \* 2 for the decoder, 1 for the tap
          EventCapacity,    \* 16
          MaxScenes,        \* bound: frames decoded
          MaxRespawns       \* bound: starts of ffmpeg

ASSUME DetectionAssumption ==
    /\ {FrameCapacity, EventCapacity} \subseteq Nat \ {0}
    /\ {MaxScenes, MaxRespawns} \subseteq Nat

VARIABLES tap,          \* the source is the tap of the camera, not ffmpeg
          webRuns,      \* the web server takes events too
          cancelled_ai, \* the context of the process
          decoder,      \* "spawn", "wait", "reap", "pause", "ended"
          subscribed,   \* hub subscriptions the decoder holds
          ffmpeg,       \* the process runs
          writer, reader,   \* its two goroutines run
          writeFailed,  \* a write to ffmpeg failed
          strays,       \* readers of runs that ended without them
          strayed,      \* there was one, at some time
          respawns,
          scenes,       \* Frames(): whether each frame shows a target
          scenesOpen, scenesSent,
          loop,         \* service loop: "wait", "detect", "ended"
          inHand,       \* the frame in the detector
          shown,        \* the snapshot shows a target
          events,       \* Service.events
          published,    \* the last event published, dropped ones included
          edges,        \* rising edges among the events in the channel so far
          lost,         \* an event was dropped, or taken by the web server
          prevTarget, reporting, cooling,   \* Bridge
          alarms, refusedAlarms, decoderPanics

goroutines == <<writer, reader, writeFailed, strays, strayed>>
decoderVars == <<decoder, subscribed, ffmpeg, goroutines, respawns>>
sceneVars == <<scenes, scenesOpen, scenesSent, decoderPanics>>
loopVars == <<loop, inHand, shown, events, published, edges, lost>>
bridgeVars == <<prevTarget, reporting, cooling, alarms, refusedAlarms>>
detectionVars == <<tap, webRuns, cancelled_ai, decoderVars, sceneVars, loopVars, bridgeVars>>

DetectionInit ==
    /\ tap \in BOOLEAN /\ webRuns \in BOOLEAN /\ cancelled_ai = FALSE
    /\ decoder = IF tap THEN "ended" ELSE "spawn"
    /\ subscribed = 0 /\ ffmpeg = FALSE /\ writer = FALSE /\ reader = FALSE
    /\ writeFailed = FALSE /\ strays = 0 /\ strayed = FALSE
    /\ respawns = 0 /\ scenes = <<>> /\ scenesOpen = TRUE /\ scenesSent = 0
    /\ loop = "wait" /\ inHand = FALSE /\ shown = FALSE
    /\ events = <<>> /\ published = FALSE /\ edges = 0 /\ lost = FALSE
    /\ prevTarget = FALSE /\ reporting \in BOOLEAN /\ cooling = FALSE
    /\ alarms = 0 /\ refusedAlarms = 0 /\ decoderPanics = FALSE

Setup == <<tap, webRuns, cancelled_ai>>

CancelAi ==
    /\ ~cancelled_ai /\ cancelled_ai' = TRUE
    /\ UNCHANGED <<tap, webRuns, decoderVars, sceneVars, loopVars, bridgeVars>>

-----------------------------------------------------------------------------
(* runOnce: subscribe, start ffmpeg and its goroutines; a start that fails
   unsubscribes.  Start closes the frames channel once the context ended. *)
Spawn ==
    /\ decoder = "spawn" /\ ~cancelled_ai /\ respawns < MaxRespawns
    /\ respawns' = respawns + 1
    /\ \/ /\ decoder' = "wait" /\ subscribed' = subscribed + 1
          /\ ffmpeg' = TRUE /\ writer' = TRUE /\ reader' = TRUE /\ writeFailed' = FALSE
       \/ decoder' = "pause" /\ UNCHANGED <<subscribed, ffmpeg, writer, reader, writeFailed>>
    /\ UNCHANGED <<Setup, strays, strayed, sceneVars, loopVars, bridgeVars>>

DecoderEnds ==
    /\ decoder \in {"spawn", "pause"} /\ cancelled_ai
    /\ decoder' = "ended" /\ scenesOpen' = FALSE
    /\ UNCHANGED <<Setup, subscribed, ffmpeg, goroutines, respawns,
                   scenes, scenesSent, decoderPanics, loopVars, bridgeVars>>

(* ffmpeg dies, ends with its input, or is killed with the context. *)
FfmpegExits ==
    /\ ffmpeg /\ ffmpeg' = FALSE
    /\ UNCHANGED <<Setup, decoder, subscribed, goroutines, respawns, sceneVars, loopVars, bridgeVars>>

(* cmd.Wait returned: Unsubscribe, and the channel is drained. *)
Reap ==
    /\ decoder = "wait" /\ ~ffmpeg
    /\ decoder' = "reap" /\ subscribed' = subscribed - 1
    /\ UNCHANGED <<Setup, ffmpeg, goroutines, respawns, sceneVars, loopVars, bridgeVars>>

(* The writer ends with its subscription, which ends with the context at the
   latest, or with a write that fails: ffmpeg died or closed its input. *)
WriterEnds ==
    /\ writer /\ writer' = FALSE
    /\ \/ writeFailed' = TRUE
       \/ (subscribed = 0 \/ cancelled_ai) /\ UNCHANGED writeFailed
    /\ UNCHANGED <<Setup, decoder, subscribed, ffmpeg, reader, strays, strayed, respawns,
                   sceneVars, loopVars, bridgeVars>>

(* The output of ffmpeg ended, or was closed by cmd.Wait. *)
ReaderStops ==
    /\ \/ reader /\ ~ffmpeg /\ reader' = FALSE /\ UNCHANGED strays
       \/ strays > 0 /\ strays' = strays - 1 /\ UNCHANGED reader
    /\ UNCHANGED <<Setup, decoder, subscribed, ffmpeg, writer, writeFailed, strayed, respawns,
                   sceneVars, loopVars, bridgeVars>>

(* Mutant of Reaped: runOnce looks at what the writer left, if it left anything,
   and does not wait for its goroutines. *)
ReapedAtOnce ==
    /\ decoder = "reap" /\ decoder' = "pause"
    /\ reader' = FALSE /\ strays' = strays + (IF reader THEN 1 ELSE 0)
    /\ strayed' = (strayed \/ (reader /\ writeFailed))
    /\ UNCHANGED <<Setup, subscribed, ffmpeg, writer, writeFailed, respawns, sceneVars, loopVars, bridgeVars>>

(* <-writeErr, which is an error and not the end of the context: back without
   the reader.  Else <-readErr. *)
Reaped ==
    /\ decoder = "reap" /\ ~writer /\ decoder' = "pause"
    /\ IF reader
       THEN /\ writeFailed /\ ~cancelled_ai
            /\ reader' = FALSE /\ strays' = strays + 1 /\ strayed' = TRUE
       ELSE UNCHANGED <<reader, strays, strayed>>
    /\ UNCHANGED <<Setup, subscribed, ffmpeg, writer, writeFailed, respawns, sceneVars, loopVars, bridgeVars>>

(* A second after a clean end, else the backoff. *)
PauseEnds ==
    /\ decoder = "pause" /\ ~cancelled_ai /\ decoder' = "spawn"
    /\ UNCHANGED <<Setup, subscribed, ffmpeg, goroutines, respawns, sceneVars, loopVars, bridgeVars>>

(* readFrames and YUVSource.Tap: a frame that finds the channel full is
   dropped; Tap does nothing once the context ended, a reader sends what it has. *)
FrameArrives(target) ==
    /\ scenesSent < MaxScenes
    /\ IF tap THEN ~cancelled_ai ELSE reader \/ strays > 0
    /\ scenesSent' = scenesSent + 1
    /\ scenes' = IF scenesOpen /\ Len(scenes) < FrameCapacity THEN Append(scenes, target) ELSE scenes
    /\ decoderPanics' = (decoderPanics \/ ~scenesOpen)
    /\ UNCHANGED <<Setup, decoderVars, scenesOpen, loopVars, bridgeVars>>

DecoderNext ==
    \/ Spawn \/ DecoderEnds \/ FfmpegExits \/ Reap \/ WriterEnds \/ ReaderStops
    \/ Reaped \/ PauseEnds \/ \E target \in BOOLEAN : FrameArrives(target)

-----------------------------------------------------------------------------
(* runLoop; a frame that comes too early is dropped. *)
TakeScene ==
    /\ loop = "wait" /\ scenes # <<>>
    /\ scenes' = Tail(scenes) /\ inHand' = Head(scenes)
    /\ loop' \in IF cancelled_ai THEN {"ended"} ELSE {"wait", "detect"}
    /\ UNCHANGED <<Setup, decoderVars, scenesOpen, scenesSent, decoderPanics,
                   shown, events, published, edges, lost, bridgeVars>>

LoopEnds ==
    /\ loop = "wait" /\ scenes = <<>> /\ ~scenesOpen
    /\ loop' = "ended"
    /\ UNCHANGED <<Setup, decoderVars, sceneVars, inHand, shown, events, published, edges, lost, bridgeVars>>

(* An inference error clears the snapshot and publishes nothing. *)
DetectFails ==
    /\ loop = "detect" /\ loop' = "wait" /\ shown' = FALSE
    /\ UNCHANGED <<Setup, decoderVars, sceneVars, inHand, events, published, edges, lost, bridgeVars>>

Publish ==
    /\ loop = "detect" /\ loop' = "wait" /\ shown' = inHand
    /\ published' = inHand
    /\ IF Len(events) < EventCapacity
       THEN /\ events' = Append(events, inHand)
            /\ edges' = IF inHand /\ ~published THEN edges + 1 ELSE edges
            /\ UNCHANGED lost
       ELSE lost' = TRUE /\ UNCHANGED <<events, edges>>
    /\ UNCHANGED <<Setup, decoderVars, sceneVars, inHand, bridgeVars>>

(* The goroutine of the web server, for its SSE clients. *)
WebTakesEvent ==
    /\ webRuns /\ events # <<>>
    /\ events' = Tail(events) /\ lost' = TRUE
    /\ UNCHANGED <<Setup, decoderVars, sceneVars, loop, inHand, shown, published, edges, bridgeVars>>

-----------------------------------------------------------------------------
(* Mutant of TakesEdge: a target that was refused counts as new next time. *)
TakesEdgeIfAccepted(target) ==
    /\ prevTarget' = (target /\ (prevTarget \/ (reporting /\ ~cooling)))
    /\ LET edge == target /\ ~prevTarget
           accepted == edge /\ reporting /\ ~cooling
       IN  /\ alarms' = IF accepted THEN alarms + 1 ELSE alarms
           /\ refusedAlarms' = IF edge /\ ~accepted THEN refusedAlarms + 1 ELSE refusedAlarms
           /\ cooling' = (cooling \/ accepted)

(* takeEdge: the edge is used up before the gate and the cooldown are asked. *)
TakesEdge(target) ==
    /\ prevTarget' = target
    /\ LET edge == target /\ ~prevTarget
           accepted == edge /\ reporting /\ ~cooling
       IN  /\ alarms' = IF accepted THEN alarms + 1 ELSE alarms
           /\ refusedAlarms' = IF edge /\ ~accepted THEN refusedAlarms + 1 ELSE refusedAlarms
           /\ cooling' = (cooling \/ accepted)

BridgeTakesEvent ==
    /\ events # <<>>
    /\ events' = Tail(events)
    /\ TakesEdge(Head(events))
    /\ UNCHANGED <<Setup, decoderVars, sceneVars, loop, inHand, shown, published, edges, lost, reporting>>

(* SetMotionReporting, by the platform; the end of the cooldown. *)
GateMoves ==
    /\ \/ reporting' = ~reporting /\ UNCHANGED cooling
       \/ cooling /\ cooling' = FALSE /\ UNCHANGED reporting
    /\ UNCHANGED <<Setup, decoderVars, sceneVars, loopVars, prevTarget, alarms, refusedAlarms>>

DetectionNext ==
    \/ CancelAi \/ DecoderNext
    \/ TakeScene \/ LoopEnds \/ DetectFails \/ Publish \/ WebTakesEvent
    \/ BridgeTakesEvent \/ GateMoves

DetectionSpec == DetectionInit /\ [][DetectionNext]_detectionVars

-----------------------------------------------------------------------------
(* The decoder has one process and one subscription at a time, and nothing is
   left of either, nor of the writer, when the next one is started or at the end
   (decoder.go: Start, runOnce).  The reader is waited for, so that nobody sends
   on the frames channel after it was closed, unless feeding ffmpeg failed at
   some time before the context ended: then runOnce returned without its reader
   (decoder.go:150), which may run beside the next process, and send after the
   close when the context ends next, which ends the process. *)
DecoderLeavesNothing ==
    /\ subscribed <= 1
    /\ decoder \in {"spawn", "pause", "ended"} =>
           subscribed = 0 /\ ~ffmpeg /\ ~writer /\ ~reader
    /\ ~strayed => strays = 0 /\ ~decoderPanics

(* The places of a sequence of results where targets appear. *)
Rises(results) == {i \in 2 .. Len(results) : results[i] /\ ~results[i - 1]}

(* Every rising edge of "targets present" reaches the bridge once, which
   accepts or refuses it, and the bridge knows what was detected last
   (gbalarm.go: takeEdge); unless an event was dropped from a full channel,
   or the web server took it: then the bridge misses edges, or sees one that
   was none. *)
EdgesReachBridge ==
    ~lost =>
        LET known == <<prevTarget>> \o events
        IN  /\ edges = alarms + refusedAlarms + Cardinality(Rises(known))
            /\ known[Len(known)] = published

=============================================================================
