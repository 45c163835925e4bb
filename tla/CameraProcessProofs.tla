------------------------- MODULE CameraProcessProofs -------------------------
(***************************************************************************)
(* Theorems about CameraProcess, for any number of faults and settings.    *)
(***************************************************************************)
EXTENDS CameraProcess, TLAPS

(* Stop cancels the context before it cleans up, so that a spawn that follows
   fails; while mtxrpicam gets ready the mutex keeps Stop out. *)
StopCancels == stopped => ctxDone /\ run # "ready"

(* There is a pipe as long as there is a process to be waited for. *)
PipeWithProcess == pipe = "nil" <=> proc = "none"

(* A live mtxrpicam has the present params, unless SetParam is about to write
   them to its own pipe. *)
ToldOrAboutTo ==
    kind = "mtx" /\ proc = "alive" /\ ~(setter = "write" /\ confOf = "present")
        => procParams = params

IInv ==
    /\ TypeOK
    /\ StopCancels
    /\ PipeWithProcess
    /\ StoppedHoldsNoDevice
    /\ ToldOrAboutTo

(* Type correctness is preserved by every step. *)
LEMMA TypeStep == TypeOK /\ [Next]_vars => TypeOK'
<1> SUFFICES ASSUME TypeOK, [Next]_vars PROVE TypeOK'
  OBVIOUS
<1> USE CameraProcessAssumption DEF TypeOK, subprocess, settings
<1>1. CASE Start
  BY <1>1 DEF Start
<1>2. CASE Check
  BY <1>2 DEF Check, stopped
<1>3. CASE Spawn \/ SpawnFails
  BY <1>3 DEF Spawn, SpawnFails, Fault
<1>4. CASE Ready \/ NotReady
  BY <1>4 DEF Ready, NotReady, Cleanup, Fault
<1>5. CASE EnterLoop
  BY <1>5 DEF EnterLoop
<1>6. CASE ReadFrame \/ ReadFails \/ ReadError
  BY <1>6 DEF ReadFrame, ReadFails, ReadError, Fault
<1>7. CASE Deliver
  BY <1>7 DEF Deliver
<1>8. CASE CleanupAfterLoop \/ StopCleanup
  BY <1>8 DEF CleanupAfterLoop, StopCleanup, Cleanup
<1>9. CASE Backoff
  BY <1>9 DEF Backoff
<1>10. CASE TimeoutFires
  <2>1. callbacks' \in 0 .. faults'
    BY <1>10 DEF TimeoutFires, Fault
  <2>2. QED
    BY <1>10, <2>1 DEF TimeoutFires, Fault
<1>11. CASE TimeoutCloses
  BY <1>11 DEF TimeoutCloses
<1>12. CASE StopFlag \/ StopSinks \/ StopReturns
  BY <1>12 DEF StopFlag, StopSinks, StopReturns
<1>13. CASE SetParam \/ WriteParams
  BY <1>13 DEF SetParam, WriteParams
<1>14. CASE CancelContext
  BY <1>14 DEF CancelContext
<1>15. CASE ProcEnds \/ ProcKilled
  BY <1>15 DEF ProcEnds, ProcKilled, Fault
<1>16. CASE UNCHANGED vars
  BY <1>16 DEF vars
<1> HIDE DEF TypeOK, subprocess, settings
<1>17. QED
  BY <1>1, <1>2, <1>3, <1>4, <1>5, <1>6, <1>7, <1>8, <1>9, <1>10, <1>11, <1>12,
     <1>13, <1>14, <1>15, <1>16 DEF Next, RunLoop, Stop

(* The two facts about Stop and the pipe are preserved. *)
LEMMA StopStep ==
    TypeOK /\ StopCancels /\ PipeWithProcess /\ [Next]_vars
        => StopCancels' /\ PipeWithProcess'
<1> SUFFICES ASSUME TypeOK, StopCancels, PipeWithProcess, [Next]_vars
             PROVE  StopCancels' /\ PipeWithProcess'
  OBVIOUS
<1> USE DEF StopCancels, PipeWithProcess, stopped, subprocess, settings
<1>1. CASE Start \/ Check \/ EnterLoop \/ Deliver \/ Backoff
  BY <1>1 DEF Start, Check, EnterLoop, Deliver, Backoff
<1>2. CASE Spawn
  BY <1>2 DEF Spawn
<1>3. CASE SpawnFails \/ Ready \/ NotReady \/ CleanupAfterLoop
  BY <1>3 DEF SpawnFails, Ready, NotReady, CleanupAfterLoop, Cleanup
<1>4. CASE ReadFrame \/ ReadFails \/ ReadError
  BY <1>4 DEF ReadFrame, ReadFails, ReadError
<1>5. CASE TimeoutFires \/ TimeoutCloses
  BY <1>5 DEF TimeoutFires, TimeoutCloses
<1>6. CASE StopFlag
  BY <1>6 DEF StopFlag, MutexFree
<1>7. CASE StopCleanup \/ StopSinks \/ StopReturns
  BY <1>7 DEF StopCleanup, StopSinks, StopReturns, Cleanup
<1>8. CASE SetParam \/ WriteParams
  BY <1>8 DEF SetParam, WriteParams
<1>9. CASE CancelContext \/ ProcEnds \/ ProcKilled
  BY <1>9 DEF TypeOK, CancelContext, ProcEnds, ProcKilled
<1>10. CASE UNCHANGED vars
  BY <1>10 DEF vars
<1>11. QED
  BY <1>1, <1>2, <1>3, <1>4, <1>5, <1>6, <1>7, <1>8, <1>9, <1>10
  DEF Next, RunLoop, Stop

(* No step brings a subprocess back once Stop cleaned up: only Spawn starts
   one, and Stop cancelled the context first. *)
LEMMA DeviceStep ==
    TypeOK /\ StopCancels /\ StoppedHoldsNoDevice /\ [Next]_vars
        => StoppedHoldsNoDevice'
<1> SUFFICES ASSUME TypeOK, StopCancels, StoppedHoldsNoDevice, [Next]_vars
             PROVE  StoppedHoldsNoDevice'
  OBVIOUS
<1> USE DEF StoppedHoldsNoDevice, subprocess, settings
<1>1. CASE Spawn
  <2>1. stop = "none" /\ stop' = stop
    BY <1>1 DEF Spawn, StopCancels, stopped
  <2>2. QED
    BY <2>1
<1>2. CASE StopFlag \/ StopReturns
  BY <1>2 DEF StopFlag, StopReturns
<1>3. CASE StopCleanup \/ StopSinks
  BY <1>3 DEF StopCleanup, StopSinks, Cleanup
<1>4. CASE NotReady \/ CleanupAfterLoop
  BY <1>4 DEF NotReady, CleanupAfterLoop, Cleanup
<1>5. CASE Start \/ Check \/ SpawnFails \/ Ready \/ EnterLoop
  BY <1>5 DEF Start, Check, SpawnFails, Ready, EnterLoop
<1>6. CASE ReadFrame \/ ReadFails \/ ReadError \/ Deliver \/ Backoff
  BY <1>6 DEF ReadFrame, ReadFails, ReadError, Deliver, Backoff
<1>7. CASE TimeoutFires \/ TimeoutCloses \/ SetParam \/ WriteParams
  BY <1>7 DEF TimeoutFires, TimeoutCloses, SetParam, WriteParams
<1>8. CASE CancelContext \/ ProcEnds \/ ProcKilled
  BY <1>8 DEF CancelContext, ProcEnds, ProcKilled
<1>9. CASE UNCHANGED vars
  BY <1>9 DEF vars
<1>10. QED
  BY <1>1, <1>2, <1>3, <1>4, <1>5, <1>6, <1>7, <1>8, <1>9
  DEF Next, RunLoop, Stop

(* A setting is saved before it is written, a new process starts with what is
   saved, and a write reaches no process but the one it was meant for. *)
LEMMA ToldStep ==
    TypeOK /\ PipeWithProcess /\ ToldOrAboutTo /\ [Next]_vars => ToldOrAboutTo'
<1> SUFFICES ASSUME TypeOK, PipeWithProcess, ToldOrAboutTo, [Next]_vars
             PROVE  ToldOrAboutTo'
  OBVIOUS
<1> USE DEF ToldOrAboutTo, subprocess, settings
<1>1. CASE Spawn
  BY <1>1 DEF Spawn
<1>2. CASE NotReady \/ CleanupAfterLoop \/ StopCleanup
  BY <1>2 DEF NotReady, CleanupAfterLoop, StopCleanup, Cleanup
<1>3. CASE SetParam
  <2>1. CASE pipe = "nil"
    BY <1>3, <2>1 DEF SetParam, PipeWithProcess
  <2>2. CASE pipe # "nil"
    BY <1>3, <2>2 DEF SetParam
  <2>3. QED
    BY <2>1, <2>2
<1>4. CASE WriteParams
  BY <1>4 DEF WriteParams
<1>5. CASE Start \/ Check \/ SpawnFails \/ Ready \/ EnterLoop
  BY <1>5 DEF Start, Check, SpawnFails, Ready, EnterLoop
<1>6. CASE ReadFrame \/ ReadFails \/ ReadError \/ Deliver \/ Backoff
  BY <1>6 DEF ReadFrame, ReadFails, ReadError, Deliver, Backoff
<1>7. CASE TimeoutFires \/ TimeoutCloses \/ StopFlag \/ StopSinks \/ StopReturns
  BY <1>7 DEF TimeoutFires, TimeoutCloses, StopFlag, StopSinks, StopReturns
<1>8. CASE CancelContext \/ ProcEnds \/ ProcKilled
  BY <1>8 DEF CancelContext, ProcEnds, ProcKilled
<1>9. CASE UNCHANGED vars
  BY <1>9 DEF vars
<1>10. QED
  BY <1>1, <1>2, <1>3, <1>4, <1>5, <1>6, <1>7, <1>8, <1>9
  DEF Next, RunLoop, Stop

(* The invariant holds in every reachable state of a camera subprocess. *)
THEOREM Inductive == Spec => []IInv
<1>1. Init => IInv
  <2> SUFFICES ASSUME Init PROVE IInv
    OBVIOUS
  <2>1. TypeOK
    <3>1. /\ callbacks \in 0 .. faults /\ faults \in 0 .. MaxFaults
          /\ params \in 0 .. MaxSets
          /\ procParams \in 0 .. MaxSets
          /\ loopParams \in 0 .. MaxSets
      BY CameraProcessAssumption DEF Init
    <3>2. ctxDone \in BOOLEAN
      BY DEF Init
    <3>3. QED
      BY <3>1, <3>2 DEF Init, TypeOK
  <2>2. StopCancels /\ PipeWithProcess
    BY DEF Init, StopCancels, PipeWithProcess, stopped
  <2>3. StoppedHoldsNoDevice /\ ToldOrAboutTo
    BY DEF Init, StoppedHoldsNoDevice, ToldOrAboutTo
  <2>4. QED
    BY <2>1, <2>2, <2>3 DEF IInv
<1>2. IInv /\ [Next]_vars => IInv'
  BY TypeStep, StopStep, DeviceStep, ToldStep DEF IInv
<1>3. QED
  BY <1>1, <1>2, PTL DEF Spec

(* Each variable of the camera subprocess stays in its type, and no more read
   timeouts are pending than fired. *)
THEOREM TypeCorrect == Spec => []TypeOK
<1>1. IInv => TypeOK
  BY DEF IInv
<1>2. QED
  BY <1>1, Inductive, PTL

(* Whatever run() was doing, after the cleanup of Stop the device is free. *)
THEOREM DeviceReleased == Spec => []StoppedHoldsNoDevice
<1>1. IInv => StoppedHoldsNoDevice
  BY DEF IInv
<1>2. QED
  BY <1>1, Inductive, PTL

(* mtxrpicam runs with the params set last, however deaths, restarts and
   settings interleave. *)
THEOREM ParamsReach == Spec => []ParamsReachSubprocess
<1>1. IInv => ParamsReachSubprocess
  BY DEF IInv, ToldOrAboutTo, ParamsReachSubprocess
<1>2. QED
  BY <1>1, Inductive, PTL

===============================================================================
