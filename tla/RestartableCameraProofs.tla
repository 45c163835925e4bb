----------------------- MODULE RestartableCameraProofs -----------------------
(***************************************************************************)
(* Proofs about the restartable camera, for any number of restarts and any *)
(* capacity of the channels, with either kind of backend.                  *)
(***************************************************************************)
EXTENDS RestartableCamera, TLAPS

(* What the holder of the mutex has done so far: while a Restart builds and
   starts the fresh source the old one is stopped, and Stop is final. *)
MutexHeld ==
    /\ op = "build" => built < MaxSources
    /\ op \in {"build", "start"} => source[current] = "stopped" /\ ~stopped
    /\ op = "close" => stopped
    /\ stopped => source[current] = "stopped" /\ ctxDone
    /\ ~outOpen => stopped

Forwarding == {"begin", "range", "send"}

(* A source that runs is the current one; its pump gives up only when the
   process ends. *)
OnlyCurrentRuns ==
    \A s \in Sources : source[s] = "started" =>
        s = current /\ (pump[s] \in Forwarding \/ ctxDone)

IInv == TypeOK /\ MutexHeld /\ OnlyCurrentRuns

(* The state a new RestartableCamera starts in satisfies the invariant. *)
LEMMA InitInv == Init => IInv
  <1> SUFFICES ASSUME Init PROVE IInv
    OBVIOUS
  <1>1. /\ outOpen \in BOOLEAN
        /\ stopped \in BOOLEAN
        /\ ctxDone \in BOOLEAN
    BY Zenon DEF Init
  <1>2. TypeOK
    BY <1>1, CameraAssumption DEF Init, TypeOK, Sources
  <1>3. MutexHeld
    BY DEF Init, MutexHeld
  <1>4. OnlyCurrentRuns
    BY DEF Init, OnlyCurrentRuns, Sources
  <1> QED
    BY <1>2, <1>3, <1>4 DEF IInv

(* Types are kept, by every critical section and every step of a pump. *)
LEMMA NextType == TypeOK /\ MutexHeld /\ [Next]_vars => TypeOK'
  <1> SUFFICES ASSUME TypeOK, MutexHeld, [Next]_vars PROVE TypeOK'
    OBVIOUS
  <1> USE CameraAssumption DEF TypeOK, Sources
  <1>1. CASE Start
    BY <1>1 DEF Start, StartSource
  <1>2. CASE Restart
    BY <1>2 DEF Restart, StopSource
  <1>3. CASE Build
    BY <1>3 DEF Build, MutexHeld
  <1>4. CASE StartFresh
    BY <1>4 DEF StartFresh, StartSource, StopSource
  <1>5. CASE CancelContext
    BY <1>5 DEF CancelContext
  <1>6. CASE Stop
    BY <1>6 DEF Stop, StopSource
  <1>7. CASE CloseOut
    BY <1>7 DEF CloseOut
  <1>8. ASSUME NEW s \in Sources, Capture(s) PROVE TypeOK'
    BY <1>8 DEF Capture
  <1>9. ASSUME NEW s \in Sources, Pump(s) PROVE TypeOK'
    <2>1. CASE PumpBegins(s)
      BY <2>1 DEF PumpBegins
    <2>2. CASE PumpTakes(s)
      BY <2>2 DEF PumpTakes
    <2>3. CASE PumpEnds(s)
      BY <2>3 DEF PumpEnds
    <2>4. CASE PumpSends(s)
      BY <2>4 DEF PumpSends
    <2> QED
      BY <1>9, <2>1, <2>2, <2>3, <2>4 DEF Pump
  <1>10. CASE Consume
    BY <1>10 DEF Consume
  <1>11. CASE UNCHANGED vars
    BY <1>11 DEF vars
  <1> QED
    BY <1>1, <1>2, <1>3, <1>4, <1>5, <1>6, <1>7, <1>8, <1>9, <1>10, <1>11 DEF Next

(* The mutex serialises Start, Restart and Stop; nothing else stops or starts
   a source. *)
LEMMA NextMutex == TypeOK /\ MutexHeld /\ [Next]_vars => MutexHeld'
  <1> SUFFICES ASSUME TypeOK, MutexHeld, [Next]_vars PROVE MutexHeld'
    OBVIOUS
  <1> USE CameraAssumption DEF TypeOK, Sources, MutexHeld
  <1>1. CASE Start
    BY <1>1 DEF Start, StartSource
  <1>2. CASE Restart
    BY <1>2 DEF Restart, StopSource
  <1>3. CASE Build
    BY <1>3 DEF Build
  <1>4. CASE StartFresh
    BY <1>4 DEF StartFresh, StartSource, StopSource
  <1>5. CASE CancelContext
    BY <1>5 DEF CancelContext
  <1>6. CASE Stop
    BY <1>6 DEF Stop, StopSource
  <1>7. CASE CloseOut
    BY <1>7 DEF CloseOut
  <1>8. ASSUME NEW s \in Sources, Capture(s) \/ Pump(s) PROVE MutexHeld'
    BY <1>8 DEF Capture, Pump, PumpBegins, PumpTakes, PumpEnds, PumpSends
  <1>9. CASE Consume
    BY <1>9 DEF Consume
  <1>10. CASE UNCHANGED vars
    BY <1>10 DEF vars
  <1> QED
    BY <1>1, <1>2, <1>3, <1>4, <1>5, <1>6, <1>7, <1>8, <1>9, <1>10 DEF Next

(* A source is started only when no other runs, together with its pump; a pump
   of a running source leaves its loop only after the context is done. *)
LEMMA NextOnlyCurrent == IInv /\ [Next]_vars => OnlyCurrentRuns'
  <1> SUFFICES ASSUME IInv, [Next]_vars, NEW t \in Sources, source'[t] = "started"
               PROVE  t = current' /\ (pump'[t] \in Forwarding \/ ctxDone')
    BY DEF OnlyCurrentRuns
  <1> USE DEF IInv, TypeOK, OnlyCurrentRuns, Forwarding
  <1>1. CASE Start
    BY <1>1 DEF Start, StartSource
  <1>2. CASE Restart
    BY <1>2 DEF Restart, StopSource
  <1>3. CASE StartFresh
    BY <1>3 DEF StartFresh, StartSource, StopSource, MutexHeld
  <1>4. CASE Stop
    BY <1>4 DEF Stop, StopSource
  <1>5. ASSUME NEW s \in Sources, Pump(s)
        PROVE  t = current' /\ (pump'[t] \in Forwarding \/ ctxDone')
    <2>1. CASE PumpBegins(s)
      BY <2>1 DEF PumpBegins
    <2>2. CASE PumpTakes(s)
      BY <2>2 DEF PumpTakes
    <2>3. CASE PumpEnds(s)
      BY <2>3 DEF PumpEnds
    <2>4. CASE PumpSends(s)
      BY <2>4 DEF PumpSends, MutexHeld
    <2> QED
      BY <1>5, <2>1, <2>2, <2>3, <2>4 DEF Pump
  <1>6. CASE Build \/ CancelContext \/ CloseOut \/ Consume \/ UNCHANGED vars
    BY <1>6 DEF Build, CancelContext, CloseOut, Consume, vars
  <1>7. ASSUME NEW s \in Sources, Capture(s)
        PROVE  t = current' /\ (pump'[t] \in Forwarding \/ ctxDone')
    BY <1>7 DEF Capture
  <1> QED
    BY <1>1, <1>2, <1>3, <1>4, <1>5, <1>6, <1>7 DEF Next

(* The invariant holds in every reachable state of Start, Restart, Stop and the
   pumps. *)
THEOREM Inductive == Spec => []IInv
  <1>1. IInv /\ [Next]_vars => IInv'
    BY NextType, NextMutex, NextOnlyCurrent DEF IInv
  <1> QED
    BY <1>1, InitInv, PTL DEF Spec

(* The state of the wrapper, its sources and its pumps keeps its types: no
   channel exceeds its capacity, the current source is one that was built. *)
THEOREM TypeCorrect == Spec => []TypeOK
  <1>1. IInv => TypeOK
    BY DEF IInv
  <1> QED
    BY <1>1, Inductive, PTL

(* Restart never has two sources on the capture device, however many restarts
   fail half-way. *)
THEOREM DeviceHasOneUser == Spec => []DeviceExclusive
  <1>1. IInv => DeviceExclusive
    BY DEF IInv, OnlyCurrentRuns, DeviceExclusive
  <1> QED
    BY <1>1, Inductive, PTL

(* Until the process is told to end, the frames of the running source are
   forwarded: Start and Restart leave no source without a pump. *)
THEOREM RunningIsPumped == Spec => []RunningSourceIsPumped
  <1>1. IInv => RunningSourceIsPumped
    BY DEF IInv, OnlyCurrentRuns, RunningSourceIsPumped, Forwarding
  <1> QED
    BY <1>1, Inductive, PTL

(* After Stop no Restart, waiting for the mutex or half-way through, starts a
   source again. *)
THEOREM StopIsFinal == Spec => []StaysStopped
  <1>1. IInv => StaysStopped
    BY DEF IInv, OnlyCurrentRuns, MutexHeld, StaysStopped
  <1> QED
    BY <1>1, Inductive, PTL

===============================================================================
