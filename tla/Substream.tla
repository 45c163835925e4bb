------------------------------ MODULE Substream ------------------------------
(***************************************************************************)
(* The V4L2 camera and the substream it feeds (internal/camera:            *)
(* v4l2_source.go, substream.go).  The pump of the camera offers each      *)
(* frame to the substream and never waits for it; the Run goroutine        *)
(* encodes what was kept and replaces an encoder that keeps failing, once. *)
(* An ffmpeg encoder brings a process and a reader goroutine that delivers *)
(* what the process writes; the hardware encoder delivers within Encode.   *)
(***************************************************************************)
EXTENDS Naturals

CONSTANTS TapCapacity, FramesCapacity,  \* tapCh and framesCh: 2 and 16
          FailoverBudget,               \* errors in a row, 10
          DecimPeriod, DecimKeep,       \* of DecimPeriod frames, DecimKeep are kept
          MaxCaptured                   \* bound: frames read

ASSUME SubstreamAssumption ==
    /\ {TapCapacity, FramesCapacity, FailoverBudget} \subseteq Nat \ {0}
    /\ DecimKeep \in Nat \ {0} /\ DecimPeriod \in Nat /\ DecimKeep <= DecimPeriod
    /\ MaxCaptured \in Nat

VARIABLES pump,         \* pump of the camera: "off", "read", "tap", "encode", "ended"
          camStopped,   \* stopCh of the camera is closed
          camOpen,      \* its capture device and encoder are open
          captured,     \* frames read, SubstreamPipeline.counter
          fits,         \* the frames have the size the pipeline was built for
          tapped,       \* frames in tapCh
          run,          \* Run goroutine: "none", "wait", "encode", "close", "reopen", "end", "ended"
          enc,          \* p.enc: "none", "m2m", "ffmpeg"
          process,      \* the process of enc runs
          readers,      \* reader goroutines that may still deliver
          failing,      \* consec
          onFallback, disabled,
          subStopped,   \* stopCh of the pipeline, or the context
          frames, framesOpen,
          panicked      \* somebody sent on the closed framesCh

subVars == <<pump, camStopped, camOpen, captured, fits, tapped, run, enc, process,
             readers, failing, onFallback, disabled, subStopped, frames, framesOpen, panicked>>
camVars == <<pump, camStopped, camOpen, captured, fits>>
loopOfRun == <<run, enc, process, readers, failing, onFallback, disabled>>
outVars == <<frames, framesOpen, panicked>>

(* NewSubstreamPipeline: the hardware encoder, else ffmpeg, else no substream. *)
OpenEncoder(kind) == /\ enc = kind
                     /\ process = (kind = "ffmpeg")
                     /\ readers = IF kind = "ffmpeg" THEN 1 ELSE 0

SubstreamInit ==
    /\ pump = "off" /\ camStopped = FALSE /\ camOpen = FALSE /\ captured = 0
    /\ fits \in BOOLEAN /\ tapped = 0 /\ failing = 0
    /\ \E kind \in {"m2m", "ffmpeg", "none"} :
           OpenEncoder(kind) /\ run = IF kind = "none" THEN "none" ELSE "wait"
    /\ onFallback = FALSE /\ disabled = FALSE /\ subStopped = FALSE
    /\ frames = 0 /\ framesOpen = TRUE /\ panicked = FALSE

(* emit: a full channel drops, a closed one panics. *)
Emit ==
    /\ frames' = IF framesOpen /\ frames < FramesCapacity THEN frames + 1 ELSE frames
    /\ panicked' = (panicked \/ ~framesOpen)
    /\ UNCHANGED framesOpen

-----------------------------------------------------------------------------
(* V4L2Source.Start, which takes hardware or ffmpeg as it finds them; a start
   that fails is left out. *)
CamStart ==
    /\ pump = "off" /\ ~camStopped
    /\ camOpen' = TRUE /\ pump' = "read"
    /\ UNCHANGED <<camStopped, captured, fits, tapped, subStopped, loopOfRun, outVars>>

(* ReadFrame blocks while the device delivers nothing; an error is tried again
   after a second. *)
CamRead ==
    /\ pump = "read"
    /\ \/ camStopped /\ pump' = "ended" /\ UNCHANGED captured
       \/ ~camStopped /\ captured < MaxCaptured /\ pump' = "tap" /\ captured' = captured + 1
    /\ UNCHANGED <<camStopped, camOpen, fits, tapped, subStopped, loopOfRun, outVars>>

(* SubstreamPipeline.Tap: geometry, disabled, decimation, room. *)
Kept == /\ fits /\ ~disabled /\ run # "none"
        /\ DecimPeriod > 1 => captured % DecimPeriod < DecimKeep

CamTap ==
    /\ pump = "tap" /\ pump' = "encode"
    /\ tapped' = IF Kept /\ tapped < TapCapacity THEN tapped + 1 ELSE tapped
    /\ UNCHANGED <<camStopped, camOpen, captured, fits, subStopped, loopOfRun, outVars>>

(* The main encoder; its errors are logged. *)
CamEncode ==
    /\ pump = "encode" /\ pump' = "read"
    /\ UNCHANGED <<camStopped, camOpen, captured, fits, tapped, subStopped, loopOfRun, outVars>>

(* Stop waits for the pump, then closes encoder and device. *)
CamStop ==
    /\ camOpen
    /\ \/ ~camStopped /\ camStopped' = TRUE /\ UNCHANGED camOpen
       \/ camStopped /\ pump = "ended" /\ camOpen' = FALSE /\ UNCHANGED camStopped
    /\ UNCHANGED <<pump, captured, fits, tapped, subStopped, loopOfRun, outVars>>

CameraSide == CamStart \/ CamRead \/ CamTap \/ CamEncode \/ CamStop

-----------------------------------------------------------------------------
(* One turn of the select: what is ready may win over the stop. *)
TakeFrame ==
    /\ run = "wait" /\ tapped > 0
    /\ tapped' = tapped - 1
    /\ run' = IF disabled THEN "wait" ELSE "encode"
    /\ UNCHANGED <<camVars, subStopped, enc, process, readers, failing, onFallback, disabled, outVars>>

EncodeWorks ==
    /\ run = "encode"
    /\ enc = "ffmpeg" => process
    /\ run' = "wait" /\ failing' = 0
    /\ IF enc = "m2m" THEN Emit ELSE UNCHANGED outVars
    /\ UNCHANGED <<camVars, tapped, subStopped, enc, process, readers, onFallback, disabled>>

EncodeFails ==
    /\ run = "encode"
    /\ failing' = failing + 1
    /\ run' = IF failing + 1 >= FailoverBudget THEN "close" ELSE "wait"
    /\ UNCHANGED <<camVars, tapped, subStopped, enc, process, readers, onFallback, disabled, outVars>>

(* ffmpegEncoder.Close kills the process and waits for the reader; failover
   then tries the fallback, unless this was the fallback. *)
KillProcess ==
    /\ run \in {"close", "end"} /\ process
    /\ process' = FALSE
    /\ UNCHANGED <<camVars, tapped, subStopped, run, enc, readers, failing, onFallback, disabled, outVars>>

(* Mutant of CloseEncoder: Close does not wait for the reader. *)
CloseEncoderAtOnce ==
    /\ run \in {"close", "end"} /\ ~process
    /\ enc' = "none"

CloseEncoder ==
    /\ run \in {"close", "end"} /\ ~process /\ readers = 0
    /\ enc' = "none"

FailoverCloses ==
    /\ run = "close" /\ CloseEncoder
    /\ failing' = 0
    /\ disabled' = onFallback
    /\ run' = IF onFallback THEN "wait" ELSE "reopen"
    /\ UNCHANGED <<camVars, tapped, subStopped, process, readers, onFallback, outVars>>

FailoverOpens ==
    /\ run = "reopen" /\ run' = "wait"
    /\ \/ /\ enc' = "ffmpeg" /\ process' = TRUE /\ readers' = readers + 1
          /\ onFallback' = TRUE /\ UNCHANGED disabled
       \/ disabled' = TRUE /\ UNCHANGED <<enc, process, readers, onFallback>>
    /\ UNCHANGED <<camVars, tapped, subStopped, failing, outVars>>

(* The deferred calls: the encoder is closed before the channel. *)
RunStops ==
    /\ run = "wait" /\ subStopped /\ run' = "end"
    /\ UNCHANGED <<camVars, tapped, subStopped, enc, process, readers, failing, onFallback, disabled, outVars>>

RunEnds ==
    /\ run = "end" /\ CloseEncoder
    /\ framesOpen' = FALSE /\ run' = "ended"
    /\ UNCHANGED <<camVars, tapped, subStopped, process, readers, failing, onFallback, disabled, frames, panicked>>

SubStop ==
    /\ ~subStopped /\ subStopped' = TRUE
    /\ UNCHANGED <<camVars, tapped, loopOfRun, outVars>>

-----------------------------------------------------------------------------
(* readLoop delivers unit by unit, and what is pending when the pipe ends. *)
ReaderDelivers ==
    /\ readers > 0
    /\ Emit
    /\ readers' \in IF process THEN {readers} ELSE {readers - 1}
    /\ UNCHANGED <<camVars, tapped, subStopped, run, enc, process, failing, onFallback, disabled>>

ReaderEnds ==
    /\ readers > 0 /\ ~process
    /\ readers' = readers - 1
    /\ UNCHANGED <<camVars, tapped, subStopped, run, enc, process, failing, onFallback, disabled, outVars>>

ProcessDies ==
    /\ process /\ process' = FALSE
    /\ UNCHANGED <<camVars, tapped, subStopped, run, enc, readers, failing, onFallback, disabled, outVars>>

(* main: the pump of the sub hub. *)
SubPump ==
    /\ frames > 0 /\ frames' = frames - 1
    /\ UNCHANGED <<camVars, tapped, subStopped, loopOfRun, framesOpen, panicked>>

SubstreamNext ==
    \/ CameraSide
    \/ TakeFrame \/ EncodeWorks \/ EncodeFails \/ KillProcess
    \/ FailoverCloses \/ FailoverOpens \/ RunStops \/ RunEnds \/ SubStop
    \/ ReaderDelivers \/ ReaderEnds \/ ProcessDies \/ SubPump

SubstreamSpec == SubstreamInit /\ [][SubstreamNext]_subVars

-----------------------------------------------------------------------------
(* One encoder session at a time, through failover, disabling and the end: a
   pipeline that is disabled or has ended holds neither encoder nor process,
   a fallback starts only when nothing of the first encoder can deliver any
   more, and nobody sends on framesCh once it is closed (substream.go: Run,
   failover; v4l2_source.go: ffmpegEncoder.Close). *)
OneEncoderSession ==
    /\ ~panicked
    /\ readers <= 1
    /\ (disabled \/ run \in {"reopen", "ended"}) => enc = "none" /\ ~process /\ readers = 0

=============================================================================
