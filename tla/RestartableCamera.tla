-------------------------- MODULE RestartableCamera --------------------------
(***************************************************************************)
(* The restartable camera (internal/camera/restartable.go): a wrapper      *)
(* whose Frames channel survives the replacement of the capture source.    *)
(* Start, Restart and Stop hold the mutex; the pump goroutines, one per    *)
(* source, do not.                                                         *)
(*                                                                         *)
(* A source is what the Camera interface and its backends say: it delivers *)
(* into a bounded channel, dropping when that is full, until it is         *)
(* stopped; none of the backends' Stop returns an error.  Frames are       *)
(* counted, not told apart.                                                *)
(***************************************************************************)
EXTENDS Naturals, FiniteSets

CONSTANTS MaxSources,   \* bound: sources built
          FrameBuffer,  \* capacity of a source's channel (30)
          OutCapacity   \* capacity of the stable channel (4)

ASSUME CameraAssumption ==
    /\ MaxSources \in Nat \ {0}
    /\ FrameBuffer \in Nat \ {0}
    /\ OutCapacity \in Nat \ {0}

VARIABLES closes,       \* camera.backend: its Stop closes the frames channel and
                        \* forgets it (rpicamvid, rtsp), or leaves it alone (v4l2)
          source,       \* state of each source
          frames,       \* frames in its channel
          pump,         \* the pump goroutine of each source
          out,          \* frames in RestartableCamera.out
          outOpen,      \* RestartableCamera.out is not closed
          current,      \* RestartableCamera.current
          built,        \* sources the factory returned so far
          op,           \* what the holder of the mutex does
          stopped,      \* RestartableCamera.stopped
          ctxDone       \* the context of the process is cancelled

vars == <<closes, source, frames, pump, out, outOpen, current, built, op,
          stopped, ctxDone>>

Sources == 1 .. MaxSources

TypeOK ==
    /\ closes \in BOOLEAN
    /\ source \in [Sources -> {"new", "started", "stopped"}]
    /\ frames \in [Sources -> 0 .. FrameBuffer]
    /\ pump \in [Sources -> {"none", "begin", "range", "send", "done", "stuck", "panicked"}]
    /\ out \in 0 .. OutCapacity
    /\ outOpen \in BOOLEAN
    /\ current \in Sources
    /\ built \in Sources
    /\ op \in {"none", "build", "start", "close"}
    /\ stopped \in BOOLEAN
    /\ ctxDone \in BOOLEAN

Init ==
    /\ closes \in BOOLEAN
    /\ source = [s \in Sources |-> "new"]
    /\ frames = [s \in Sources |-> 0]
    /\ pump = [s \in Sources |-> "none"]
    /\ out = 0
    /\ outOpen = TRUE
    /\ current = 1
    /\ built = 1
    /\ op = "none"
    /\ stopped = FALSE
    /\ ctxDone = FALSE

-----------------------------------------------------------------------------
(* Start, Restart and Stop *)

StartSource(s) ==
    /\ source' = [source EXCEPT ![s] = "started"]
    /\ pump' = [pump EXCEPT ![s] = "begin"]

StopSource(s) == source' = [source EXCEPT ![s] = "stopped"]

(* main exits when the first Start fails. *)
Start ==
    /\ op = "none"
    /\ ~stopped
    /\ source[current] = "new"
    /\ StartSource(current)
    /\ UNCHANGED <<closes, frames, out, outOpen, current, built, op, stopped, ctxDone>>

(* Mutants of Restart: the old source is left running; a stopped camera is
   restarted. *)
RestartBeside ==
    /\ op = "none"
    /\ ~stopped
    /\ source[current] # "new"
    /\ built < MaxSources
    /\ op' = "build"
    /\ UNCHANGED <<closes, source, frames, pump, out, outOpen, current, built, stopped, ctxDone>>

RestartAfterStop ==
    /\ op = "none"
    /\ source[current] # "new"
    /\ built < MaxSources
    /\ StopSource(current)
    /\ op' = "build"
    /\ UNCHANGED <<closes, frames, pump, out, outOpen, current, built, stopped, ctxDone>>

(* Restart, from the web layer, once the process is up: the old source stops,
   again when an earlier Restart already stopped it. *)
Restart ==
    /\ op = "none"
    /\ ~stopped
    /\ source[current] # "new"
    /\ built < MaxSources
    /\ StopSource(current)
    /\ op' = "build"
    /\ UNCHANGED <<closes, frames, pump, out, outOpen, current, built, stopped, ctxDone>>

(* The factory builds a source, or fails to load the configuration. *)
Build ==
    /\ op = "build"
    /\ \/ op' = "start" /\ built' = built + 1
       \/ op' = "none" /\ UNCHANGED built
    /\ UNCHANGED <<closes, source, frames, pump, out, outOpen, current, stopped, ctxDone>>

(* Mutant of StartFresh: the fresh source does not become the current one. *)
StartFreshUntracked ==
    /\ op = "start"
    /\ op' = "none"
    /\ StartSource(built) \/ (StopSource(built) /\ UNCHANGED pump)
    /\ UNCHANGED <<closes, frames, out, outOpen, current, built, stopped, ctxDone>>

(* fresh.Start, and fresh.Stop when it fails: then the stopped source stays. *)
StartFresh ==
    /\ op = "start"
    /\ op' = "none"
    /\ \/ StartSource(built) /\ current' = built
       \/ StopSource(built) /\ UNCHANGED <<pump, current>>
    /\ UNCHANGED <<closes, frames, out, outOpen, built, stopped, ctxDone>>

CancelContext ==
    /\ ~ctxDone
    /\ ctxDone' = TRUE
    /\ UNCHANGED <<closes, source, frames, pump, out, outOpen, current, built, op, stopped>>

(* Stop, which main calls after the context was cancelled. *)
Stop ==
    /\ ctxDone
    /\ op = "none"
    /\ ~stopped
    /\ stopped' = TRUE
    /\ StopSource(current)
    /\ op' = "close"
    /\ UNCHANGED <<closes, frames, pump, out, outOpen, current, built, ctxDone>>

CloseOut ==
    /\ op = "close"
    /\ op' = "none"
    /\ outOpen' = FALSE
    /\ UNCHANGED <<closes, source, frames, pump, out, current, built, stopped, ctxDone>>

-----------------------------------------------------------------------------
(* Frames *)

(* A frame that finds the channel full is dropped: nothing changes. *)
Capture(s) ==
    /\ source[s] = "started"
    /\ frames[s] < FrameBuffer
    /\ frames' = [frames EXCEPT ![s] = @ + 1]
    /\ UNCHANGED <<closes, source, pump, out, outOpen, current, built, op, stopped, ctxDone>>

(* pump evaluates src.Frames(), which a stopped source may have forgotten: a
   range over a nil channel never ends. *)
PumpBegins(s) ==
    /\ pump[s] = "begin"
    /\ pump' = [pump EXCEPT ![s] =
                  IF closes /\ source[s] = "stopped" THEN "stuck" ELSE "range"]
    /\ UNCHANGED <<closes, source, frames, out, outOpen, current, built, op, stopped, ctxDone>>

PumpTakes(s) ==
    /\ pump[s] = "range"
    /\ frames[s] > 0
    /\ pump' = [pump EXCEPT ![s] = "send"]
    /\ frames' = [frames EXCEPT ![s] = @ - 1]
    /\ UNCHANGED <<closes, source, out, outOpen, current, built, op, stopped, ctxDone>>

(* Mutant of PumpEnds: only the end of the process ends a pump. *)
PumpEndsWithContext(s) ==
    /\ pump[s] = "range"
    /\ frames[s] = 0
    /\ ctxDone
    /\ pump' = [pump EXCEPT ![s] = "done"]
    /\ UNCHANGED <<closes, source, frames, out, outOpen, current, built, op, stopped, ctxDone>>

(* A closed channel ends the range once it is drained. *)
PumpEnds(s) ==
    /\ pump[s] = "range"
    /\ frames[s] = 0
    /\ closes
    /\ source[s] = "stopped"
    /\ pump' = [pump EXCEPT ![s] = "done"]
    /\ UNCHANGED <<closes, source, frames, out, outOpen, current, built, op, stopped, ctxDone>>

(* The select: the send when there is room (a panic when out is closed), or
   the return when the context is done; either when both are ready. *)
PumpSends(s) ==
    /\ pump[s] = "send"
    /\ \/ /\ outOpen
          /\ out < OutCapacity
          /\ out' = out + 1
          /\ pump' = [pump EXCEPT ![s] = "range"]
       \/ /\ ~outOpen
          /\ pump' = [pump EXCEPT ![s] = "panicked"]
          /\ UNCHANGED out
       \/ /\ ctxDone
          /\ pump' = [pump EXCEPT ![s] = "done"]
          /\ UNCHANGED out
    /\ UNCHANGED <<closes, source, frames, outOpen, current, built, op, stopped, ctxDone>>

(* The hub's pump in main ranges over Frames(). *)
Consume ==
    /\ out > 0
    /\ out' = out - 1
    /\ UNCHANGED <<closes, source, frames, pump, outOpen, current, built, op, stopped, ctxDone>>

Pump(s) == PumpBegins(s) \/ PumpTakes(s) \/ PumpEnds(s) \/ PumpSends(s)

Next ==
    \/ Start
    \/ Restart
    \/ Build
    \/ StartFresh
    \/ CancelContext
    \/ Stop
    \/ CloseOut
    \/ \E s \in Sources : Capture(s) \/ Pump(s)
    \/ Consume

(* Goroutines are scheduled, the hub's pump never blocks on its own, and the
   Go runtime serves the goroutines blocked on a channel in turn: a pump that
   finds the stable channel full again and again gets its slot. *)
Fairness ==
    /\ WF_vars(Build) /\ WF_vars(StartFresh) /\ WF_vars(CloseOut)
    /\ \A s \in Sources : WF_vars(Pump(s)) /\ SF_vars(PumpSends(s))
    /\ WF_vars(Consume)

Spec == Init /\ [][Next]_vars /\ Fairness

-----------------------------------------------------------------------------

(* The capture device has one user at a time, through restarts that fail to
   build or to start and are tried again. *)
DeviceExclusive ==
    \A s, t \in Sources : source[s] = "started" /\ source[t] = "started" => s = t

(* Unless the process is going down, the source that runs is the current one
   and a pump forwards its frames: a Restart neither strands a running source
   nor answers success without a pump. *)
RunningSourceIsPumped ==
    ~ctxDone => \A s \in Sources :
        source[s] = "started" => s = current /\ pump[s] \in {"begin", "range", "send"}

(* Once Stop was called no source runs again: a Restart that waits for the
   mutex meanwhile does not revive the camera. *)
StaysStopped == stopped => \A s \in Sources : source[s] # "started"

(* The pump of a replaced source ends when it has drained the channel, and a
   full stable channel does not hold it for ever; with a backend whose Stop
   closes the channel (the pump of a stopped v4l2 source waits for ever). *)
ReplacedPumpEnds ==
    \A s \in Sources :
        closes /\ pump[s] \in {"range", "send"} /\ source[s] = "stopped"
            ~> pump[s] \in {"done", "panicked"}

===============================================================================
