---------------------------- MODULE CameraProcess ----------------------------
(***************************************************************************)
(* A camera that is a subprocess: rpicam-vid, encoding itself or sending   *)
(* raw frames to an encoder of ours (internal/camera/rpicamvid.go), or     *)
(* mtxrpicam (camera.go).  The goroutine run() spawns the subprocess,      *)
(* reads it, and spawns it again when it ends; Stop and SetParam are       *)
(* called meanwhile, never both at once: RestartableCamera holds its mutex *)
(* around either.                                                          *)
(*                                                                         *)
(* Of os/exec this uses: a command whose context is done does not start,   *)
(* and a started one is killed when its context is done.  Of os: closing a *)
(* pipe wakes its reader, unless the pipe is in blocking mode, as the ones *)
(* made for mtxrpicam are; then only the next read fails.                  *)
(***************************************************************************)
EXTENDS Integers

CONSTANTS MaxFaults,    \* bound: failed spawns, deaths, timeouts
          MaxSets       \* bound: calls of SetParam

ASSUME CameraProcessAssumption == MaxFaults \in Nat /\ MaxSets \in Nat

VARIABLES kind,         \* camera.mode: "mtx" (mtxrpicam), "h264" or "yuv" (rpicam-vid)
          run,          \* where run() is; at "ready" it holds the mutex
          proc,         \* cmd: no process, a live one, one that ended
          pipe,         \* videoPipe or stdout: nil, open, closed
          stop,         \* where Stop is
          ctxDone,      \* ctx is cancelled, by Stop or with the process
          callbacks,    \* read timeouts that fired and did not close the pipe yet
          params,       \* params, as the number of settings so far
          procParams,   \* the params the subprocess runs with
          loopParams,   \* the params readLoopYUV took the frame size from
          setter,       \* SetParam: not running, or about to write
          confOf,       \* confPipe as SetParam read it: nil, the present one, a former one
          faults        \* faults so far

vars == <<kind, run, proc, pipe, stop, ctxDone, callbacks, params, procParams,
          loopParams, setter, confOf, faults>>

subprocess == <<proc, pipe, procParams, confOf>>
settings == <<params, setter>>

TypeOK ==
    /\ kind \in {"mtx", "h264", "yuv"}
    /\ run \in {"idle", "check", "spawn", "ready", "enter", "read", "frame",
                "flush", "ended", "recheck", "backoff", "done", "panicked"}
    /\ proc \in {"none", "alive", "dead"}
    /\ pipe \in {"nil", "open", "closed"}
    /\ stop \in {"none", "cleanup", "encoder", "close", "wait", "done"}
    /\ ctxDone \in BOOLEAN
    /\ callbacks \in 0 .. faults
    /\ params \in 0 .. MaxSets
    /\ procParams \in 0 .. MaxSets
    /\ loopParams \in 0 .. MaxSets
    /\ setter \in {"idle", "write"}
    /\ confOf \in {"nil", "present", "former"}
    /\ faults \in 0 .. MaxFaults

Init ==
    /\ kind \in {"mtx", "h264", "yuv"}
    /\ run = "idle"
    /\ proc = "none"
    /\ pipe = "nil"
    /\ stop = "none"
    /\ ctxDone = FALSE
    /\ callbacks = 0
    /\ params = 0
    /\ procParams = 0
    /\ loopParams = 0
    /\ setter = "idle"
    /\ confOf = "nil"
    /\ faults = 0

stopped == stop # "none"
MutexFree == run # "ready"

(* Stop closes the encoder, then framesCh, and forgets each. *)
EncoderOpen == stop \in {"none", "cleanup", "encoder"}
FramesOpen == EncoderOpen \/ stop = "close"

Fault ==
    /\ faults < MaxFaults
    /\ faults' = faults + 1

-----------------------------------------------------------------------------
(* run() *)

Start ==
    /\ run = "idle"
    /\ ~stopped
    /\ run' = "check"
    /\ UNCHANGED <<kind, subprocess, stop, ctxDone, callbacks, settings, loopParams, faults>>

(* The top of the loop, and the check after the read loop. *)
Check ==
    /\ \/ run = "check" /\ run' = IF stopped THEN "done" ELSE "spawn"
       \/ run = "recheck" /\ run' = IF stopped THEN "done" ELSE "backoff"
    /\ UNCHANGED <<kind, subprocess, stop, ctxDone, callbacks, settings, loopParams, faults>>

(* Mutant of Spawn: the params are those the camera was built with. *)
SpawnWithFirstParams ==
    /\ run = "spawn"
    /\ ~ctxDone
    /\ run' = IF kind = "mtx" THEN "ready" ELSE "enter"
    /\ proc' = "alive"
    /\ pipe' = "open"
    /\ procParams' = 0
    /\ UNCHANGED <<kind, stop, ctxDone, callbacks, settings, loopParams, confOf, faults>>

(* The subprocess starts with the present params; mtxrpicam is sent them, and
   must answer before the mutex is released. *)
Spawn ==
    /\ run = "spawn"
    /\ ~ctxDone
    /\ run' = IF kind = "mtx" THEN "ready" ELSE "enter"
    /\ proc' = "alive"
    /\ pipe' = "open"
    /\ procParams' = params
    /\ UNCHANGED <<kind, stop, ctxDone, callbacks, settings, loopParams, confOf, faults>>

SpawnFails ==
    /\ run = "spawn"
    /\ run' = "backoff"
    /\ IF ctxDone THEN UNCHANGED faults ELSE Fault
    /\ UNCHANGED <<kind, subprocess, stop, ctxDone, callbacks, settings, loopParams>>

(* cleanupSubprocessLocked: the pipes are closed, the process killed and
   waited for. *)
Cleanup ==
    /\ proc' = "none"
    /\ pipe' = "nil"
    /\ confOf' = IF confOf = "present" THEN "former" ELSE confOf
    /\ UNCHANGED procParams

Ready ==
    /\ run = "ready"
    /\ proc = "alive"
    /\ run' = "enter"
    /\ UNCHANGED <<kind, subprocess, stop, ctxDone, callbacks, settings, loopParams, faults>>

(* The subprocess reports an error, ends, or is silent for 10 s. *)
NotReady ==
    /\ run = "ready"
    /\ run' = "backoff"
    /\ Cleanup
    /\ IF proc = "dead" THEN UNCHANGED faults ELSE Fault
    /\ UNCHANGED <<kind, stop, ctxDone, callbacks, settings, loopParams>>

(* The read loop takes stdout and framesCh under the mutex, readLoopYUV the
   frame size after it. *)
EnterLoop ==
    /\ run = "enter"
    /\ run' = IF pipe = "open" /\ FramesOpen /\ (kind = "yuv" => EncoderOpen)
                THEN "read" ELSE "ended"
    /\ loopParams' = IF kind = "yuv" THEN params ELSE loopParams
    /\ UNCHANGED <<kind, subprocess, stop, ctxDone, callbacks, settings, faults>>

(* Data arrives, or was left in a buffer.  A read that the timeout or Stop
   closed the blocking pipe under gets its frame, or the first part of it. *)
ReadFrame ==
    /\ run = "read"
    /\ run' \in IF pipe = "open" \/ kind # "mtx" THEN {"frame"} ELSE {"frame", "ended"}
    /\ UNCHANGED <<kind, subprocess, stop, ctxDone, callbacks, settings, loopParams, faults>>

(* A read fails when the process has ended, or the pipe was closed and that
   wakes the reader.  readLoop flushes a unit it has in part. *)
ReadFails ==
    /\ run = "read"
    /\ proc # "alive" \/ (kind # "mtx" /\ pipe # "open")
    /\ \/ run' = "ended"
       \/ kind = "h264" /\ run' = "flush"
    /\ UNCHANGED <<kind, subprocess, stop, ctxDone, callbacks, settings, loopParams, faults>>

(* mtxrpicam sends an error message and the loop gives up on it. *)
ReadError ==
    /\ run = "read"
    /\ kind = "mtx"
    /\ proc = "alive"
    /\ pipe = "open"
    /\ run' = "ended"
    /\ Fault
    /\ UNCHANGED <<kind, subprocess, stop, ctxDone, callbacks, settings, loopParams>>

(* A frame goes to framesCh, or is dropped when that is full, or goes to the
   encoder.  The send panics when Stop closed the channel meanwhile; so does
   a call of the encoder Stop forgot, unless the unguarded field was read
   before: then a closed encoder refuses the frame. *)
Deliver ==
    LET sinkOpen == IF kind = "yuv" THEN EncoderOpen ELSE FramesOpen
    IN
    /\ run \in {"frame", "flush"}
    /\ \/ /\ sinkOpen \/ kind = "yuv"
          /\ run' = IF run = "frame" /\ (kind = "mtx" => pipe = "open")
                      THEN "read" ELSE "ended"
       \/ /\ ~sinkOpen
          /\ run' = "panicked"
    /\ UNCHANGED <<kind, subprocess, stop, ctxDone, callbacks, settings, loopParams, faults>>

CleanupAfterLoop ==
    /\ run = "ended"
    /\ run' = "recheck"
    /\ Cleanup
    /\ UNCHANGED <<kind, stop, ctxDone, callbacks, settings, loopParams, faults>>

(* Mutant of Backoff: run() gives up. *)
BackoffGivesUp ==
    /\ run = "backoff"
    /\ run' = "done"
    /\ UNCHANGED <<kind, subprocess, stop, ctxDone, callbacks, settings, loopParams, faults>>

(* The wait ends with the context, or after the backoff. *)
Backoff ==
    /\ run = "backoff"
    /\ \/ ctxDone /\ run' = "done"
       \/ run' = "check"
    /\ UNCHANGED <<kind, subprocess, stop, ctxDone, callbacks, settings, loopParams, faults>>

(* What run() does by itself; a frame comes when the subprocess sends one. *)
RunLoop ==
    Check \/ Spawn \/ SpawnFails \/ Ready \/ NotReady \/ EnterLoop \/ ReadFails
    \/ Deliver \/ CleanupAfterLoop \/ Backoff

-----------------------------------------------------------------------------
(* The read timeout of camera.go *)

TimeoutFires ==
    /\ kind = "mtx"
    /\ run \in {"read", "frame"}
    /\ Fault
    /\ callbacks' = callbacks + 1
    /\ UNCHANGED <<kind, run, subprocess, stop, ctxDone, settings, loopParams>>

(* The callback closes the pipe it finds, which may be the next one. *)
TimeoutCloses ==
    /\ callbacks > 0
    /\ MutexFree
    /\ callbacks' = callbacks - 1
    /\ pipe' = IF pipe = "open" THEN "closed" ELSE pipe
    /\ UNCHANGED <<kind, run, proc, procParams, confOf, stop, ctxDone, settings, loopParams, faults>>

-----------------------------------------------------------------------------
(* Stop *)

(* Mutant of StopFlag: the context is left alone. *)
StopFlagOnly ==
    /\ stop = "none"
    /\ setter = "idle"
    /\ MutexFree
    /\ stop' = "cleanup"
    /\ UNCHANGED <<kind, run, subprocess, ctxDone, callbacks, settings, loopParams, faults>>

StopFlag ==
    /\ stop = "none"
    /\ setter = "idle"
    /\ MutexFree
    /\ stop' = "cleanup"
    /\ ctxDone' = TRUE
    /\ UNCHANGED <<kind, run, subprocess, callbacks, settings, loopParams, faults>>

StopCleanup ==
    /\ stop = "cleanup"
    /\ MutexFree
    /\ stop' = "encoder"
    /\ Cleanup
    /\ UNCHANGED <<kind, run, ctxDone, callbacks, settings, loopParams, faults>>

(* The encoder is closed and forgotten, then framesCh. *)
StopSinks ==
    /\ \/ stop = "encoder" /\ stop' = "close"
       \/ stop = "close" /\ MutexFree /\ stop' = "wait"
    /\ UNCHANGED <<kind, run, subprocess, ctxDone, callbacks, settings, loopParams, faults>>

(* waitForShutdown: run() has ended, or 10 s have passed. *)
StopReturns ==
    /\ stop = "wait"
    /\ stop' = "done"
    /\ UNCHANGED <<kind, run, subprocess, ctxDone, callbacks, settings, loopParams, faults>>

Stop == StopFlag \/ StopCleanup \/ StopSinks \/ StopReturns

-----------------------------------------------------------------------------
(* SetParam *)

(* The setting is saved under the mutex; rpicam-vid learns of it when it is
   spawned again. *)
SetParam ==
    /\ setter = "idle"
    /\ run # "idle"
    /\ ~stopped
    /\ MutexFree
    /\ params < MaxSets
    /\ params' = params + 1
    /\ setter' = IF kind = "mtx" THEN "write" ELSE "idle"
    /\ confOf' = IF kind = "mtx" /\ pipe # "nil" THEN "present" ELSE "nil"
    /\ UNCHANGED <<kind, run, proc, pipe, procParams, stop, ctxDone, callbacks, loopParams, faults>>

(* mtxrpicam is sent all params, outside the mutex: through a pipe that may
   have been closed, or have no reader any more, and then SetParam fails. *)
WriteParams ==
    /\ setter = "write"
    /\ setter' = "idle"
    /\ confOf' = "nil"
    /\ procParams' = IF confOf = "present" /\ proc = "alive" THEN params ELSE procParams
    /\ UNCHANGED <<kind, run, proc, pipe, stop, ctxDone, callbacks, params, loopParams, faults>>

-----------------------------------------------------------------------------
(* The surroundings *)

CancelContext ==
    /\ ~ctxDone
    /\ ctxDone' = TRUE
    /\ UNCHANGED <<kind, run, subprocess, stop, callbacks, settings, loopParams, faults>>

(* The subprocess ends by itself, or is killed with the context. *)
ProcEnds ==
    /\ proc = "alive"
    /\ proc' = "dead"
    /\ Fault
    /\ UNCHANGED <<kind, run, pipe, procParams, confOf, stop, ctxDone, callbacks, settings, loopParams>>

ProcKilled ==
    /\ proc = "alive"
    /\ ctxDone
    /\ proc' = "dead"
    /\ UNCHANGED <<kind, run, pipe, procParams, confOf, stop, ctxDone, callbacks, settings, loopParams, faults>>

Next ==
    \/ Start
    \/ RunLoop
    \/ ReadFrame
    \/ ReadError
    \/ TimeoutFires
    \/ TimeoutCloses
    \/ Stop
    \/ SetParam
    \/ WriteParams
    \/ CancelContext
    \/ ProcEnds
    \/ ProcKilled

(* Goroutines are scheduled, waits with a time limit end, a process whose
   context is done is killed, and what a process that ended left in buffers is
   finite.  Whether the subprocess sends frames, and what fails, is open. *)
Fairness ==
    /\ WF_vars(RunLoop) /\ SF_vars(ReadFails)
    /\ WF_vars(TimeoutCloses)
    /\ WF_vars(StopCleanup) /\ WF_vars(StopSinks) /\ WF_vars(StopReturns)
    /\ WF_vars(WriteParams)
    /\ WF_vars(ProcKilled)

Spec == Init /\ [][Next]_vars /\ Fairness

-----------------------------------------------------------------------------

(* Once Stop is past its cleanup there is no subprocess, and none comes: the
   device is free for the next source, also when run() had seen that it is not
   stopped and was about to spawn. *)
StoppedHoldsNoDevice == stop \in {"encoder", "close", "wait", "done"} => proc = "none"

(* mtxrpicam runs with the params that were set last, unless SetParam is about
   to tell it: through a death and a restart between the setting and the write,
   and although the write is made outside the mutex. *)
ParamsReachSubprocess ==
    kind = "mtx" /\ proc = "alive" /\ setter = "idle" => procParams = params

(* "If the subprocess dies, it is automatically restarted": it is read again,
   unless the camera is stopped. *)
SubprocessRestarted ==
    run # "idle" ~> (run \in {"read", "frame"} /\ proc = "alive") \/ ctxDone

(* run() ends after Stop, from wherever it was: in its backoff, waiting for
   mtxrpicam to be ready, or reading a pipe that a close does not wake. *)
StopEndsRun == stopped /\ run # "idle" ~> run \in {"done", "panicked"}

===============================================================================
