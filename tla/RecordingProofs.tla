---------------------------- MODULE RecordingProofs ----------------------------
(***************************************************************************)
(* Proofs about the recording subsystem, for any capacity of the queue,    *)
(* any length of a segment, any limits of retention, and any number of     *)
(* frames, pauses, faults, stops and ticks.                                *)
(*                                                                         *)
(* Where an induction over numbers or sets is needed, the proof takes a    *)
(* smallest counterexample (LeastNat, SmallestSubset).                     *)
(***************************************************************************)
EXTENDS Recording, FiniteSetTheorems, WellFoundedInduction, TLAPS

-----------------------------------------------------------------------------
(* The wake-up of the Run loop.  That a start of the process finds no token and
   no frame is what NoLostWakeup lacks. *)
WakeupInv == NoLostWakeup /\ (~Up => queue = <<>>)

LEMMA WakeupInit == Init => WakeupInv
BY DEF Init, WriterInit, WakeupInv, NoLostWakeup, Up

LEMMA WakeupKept == WakeupInv /\ [Next]_vars => WakeupInv'
<1> SUFFICES ASSUME WakeupInv, [Next]_vars PROVE WakeupInv' OBVIOUS
<1> USE DEF WakeupInv, NoLostWakeup, Up, writerVars, vars
<1>1. CASE Tick BY <1>1 DEF Tick
<1>2. CASE Drain BY <1>2 DEF Drain, Push
<1>3. CASE RunLoop BY <1>3 DEF RunLoop, Wake, Pop, HandleAU
<1>4. CASE RecordCmd BY <1>4 DEF RecordCmd, SetPaused
<1>5. CASE Retention
  BY <1>5 DEF Retention, StartEnforce, NextAged, NextOverLimit, Unlink, Unindex
<1>6. CASE Shutdown BY <1>6 DEF Shutdown, GoDown
<1>7. CASE Crash BY <1>7 DEF Crash, GoDown
<1>8. CASE Boot BY <1>8 DEF Boot
<1>9. CASE UNCHANGED vars BY <1>9
<1> QED BY <1>1, <1>2, <1>3, <1>4, <1>5, <1>6, <1>7, <1>8, <1>9 DEF Next

(* NoLostWakeup: Run never sleeps on a queue that holds frames without a token
   in notify, through pauses, faults, crashes and starts (Writer.push and Run,
   recording/writer.go). *)
THEOREM WakeupsKept == Spec => []NoLostWakeup
<1>1. WakeupInv => NoLostWakeup BY DEF WakeupInv
<1> QED BY WakeupInit, WakeupKept, <1>1, PTL DEF Spec


-----------------------------------------------------------------------------
(* The order of segments in time. *)

Records == index \cup log

Shapes ==
    /\ clock \in Times
    /\ queue \in Seq(AccessUnit) /\ cur \in AccessUnit
    /\ serial \in Nat /\ seg \in Segment
    /\ Records \subseteq SegmentInfo

Ordered(R) ==
    /\ \A si \in R : si.start <= si.end
    /\ \A si, sj \in R : si.id < sj.id => si.end <= sj.start

(* The open segment is the last so far and begins after the others' ends. *)
Timeline ==
    /\ Ordered(Records)
    /\ \A si \in Records : si.id <= serial
    /\ segOpen => /\ seg.id <= serial /\ seg.start <= seg.last
                  /\ \A si \in Records : si.id < seg.id /\ si.end <= seg.start

(* Nothing recorded is later than instant t. *)
Past(t) ==
    /\ \A si \in Records : si.end <= t
    /\ segOpen => seg.last <= t

(* Frames come out of the queue in the order of their instants, none of which
   is before what is recorded or after the clock. *)
Pipeline ==
    /\ Past(clock)
    /\ \A i \in 1 .. Len(queue) : Past(queue[i].ts) /\ queue[i].ts <= clock
    /\ \A i, j \in 1 .. Len(queue) : i <= j => queue[i].ts <= queue[j].ts
    /\ pc = "handle" => /\ Past(cur.ts) /\ cur.ts <= clock
                        /\ \A i \in 1 .. Len(queue) : cur.ts <= queue[i].ts

TimeInv == Shapes /\ Timeline /\ Pipeline

(* The numbers in the records can be compared. *)
LEMMA Comparable ==
  /\ \A t \in Times : t \in Nat
  /\ \A si \in SegmentInfo : si.id \in Nat /\ si.start \in Nat /\ si.end \in Nat
  /\ \A s \in Segment : s.id \in Nat /\ s.start \in Nat /\ s.last \in Nat
  /\ \A au \in AccessUnit : au.ts \in Times
BY ClockAssumption DEF Times, SegmentInfo, Segment, AccessUnit

LEMMA TimeInit == Init => TimeInv
<1> SUFFICES ASSUME Init PROVE TimeInv OBVIOUS
<1>1. /\ clock = 0 /\ queue = <<>> /\ pc = "select" /\ serial = 0
      /\ cur = [ts |-> 0, key |-> FALSE] /\ seg = NewSegment(cur)
      /\ index = {} /\ log = {}
  BY DEF Init, WriterInit, IndexInit
<1>2. ~segOpen BY Zenon DEF Init, WriterInit
<1>3. 0 \in Times BY ClockAssumption DEF Times
<1>4. cur \in AccessUnit BY <1>1, <1>3 DEF AccessUnit
<1>5. seg \in Segment BY <1>1, <1>3 DEF NewSegment, Segment
<1>6. Records = {} BY <1>1 DEF Records
<1>7. Shapes BY <1>1, <1>3, <1>4, <1>5, <1>6 DEF Shapes
<1> QED BY <1>1, <1>2, <1>6, <1>7 DEF TimeInv, Timeline, Ordered, Pipeline, Past

(* Changing a flag of the segment leaves its number and its instants. *)
LEMMA FlagsAside ==
  ASSUME NEW s \in Segment, NEW b \in BOOLEAN
  PROVE  LET x == [s EXCEPT !.broken = b]
             y == [s EXCEPT !.linked = b]
         IN  /\ x \in Segment /\ x.id = s.id /\ x.start = s.start /\ x.last = s.last
             /\ y \in Segment /\ y.id = s.id /\ y.start = s.start /\ y.last = s.last
BY DEF Segment

LEMMA OutcomesAre ==
  ASSUME NEW s, NEW w \in WriteOutcomes(s)
  PROVE  /\ w \in Outcomes /\ w.done \in BOOLEAN /\ w.counted \in 0 .. 1 /\ w.left \in 0 .. 1
         /\ WriteCost(s, w) \in {0, 1}
<1>1. Complete \in Outcomes /\ Nothing \in Outcomes BY DEF Complete, Nothing, Outcomes
<1>2. w \in Outcomes BY <1>1 DEF WriteOutcomes
<1>3. w.done \in BOOLEAN /\ w.counted \in 0 .. 1 /\ w.left \in 0 .. 1 BY <1>2 DEF Outcomes
<1> QED BY <1>2, <1>3 DEF WriteCost

LEMMA FrameWritten ==
  ASSUME NEW s \in Segment, NEW w \in Outcomes, WriteFrame(s, w), cur \in AccessUnit
  PROVE  /\ seg' \in Segment /\ seg'.id = s.id /\ seg'.start = s.start
         /\ seg'.last \in {s.last, cur.ts}
         /\ seg'.file = s.file /\ seg'.size = s.size + w.counted
<1> DEFINE Written(n, t) == [s EXCEPT !.size = n, !.last = t]
           end == IF w.done THEN cur.ts ELSE s.last
<1>1. seg' = Written(s.size + w.counted, end) BY DEF WriteFrame
<1>2. /\ w.counted \in 0 .. 1 /\ s.size \in Nat /\ s.last \in Times /\ cur.ts \in Times
  BY DEF Outcomes, Segment, AccessUnit
<1>3. s.size + w.counted \in Nat /\ end \in Times BY <1>2
<1>4. \A n \in Nat, t \in Times :
         /\ Written(n, t) \in Segment /\ Written(n, t).id = s.id
         /\ Written(n, t).start = s.start /\ Written(n, t).last = t
         /\ Written(n, t).file = s.file /\ Written(n, t).size = n
  BY DEF Segment
<1>5. end \in {s.last, cur.ts} OBVIOUS
<1> HIDE DEF Written, end
<1> QED BY <1>1, <1>3, <1>4, <1>5

(* A closed segment may become a record; nothing else does. *)
LEMMA Finished ==
  ASSUME TimeInv, segOpen, NEW o, FinishSegment(o)
  PROVE  /\ Records' \subseteq Records \cup {InfoOf(seg)}
         /\ o = "unclosed" => Records' = Records
         /\ Records' \subseteq SegmentInfo
         /\ Ordered(Records')
         /\ \A si \in Records' : si.id <= serial
         /\ \A t \in Times : Past(t) => \A si \in Records' : si.end <= t
<1> DEFINE new == InfoOf(seg)
<1>0. Shapes /\ Timeline BY DEF TimeInv
<1>1. /\ new \in SegmentInfo /\ new.id = seg.id
      /\ new.start = seg.start /\ new.end = seg.last
  BY <1>0 DEF InfoOf, SegmentInfo, Shapes, Segment
<1>2. Records' \subseteq Records \cup {new}
  BY DEF FinishSegment, AppendRecord, AppendFails, Records, indexVars
<1>3. o = "unclosed" => Records' = Records
  BY DEF FinishSegment, AppendRecord, AppendFails, Records, indexVars
<1> HIDE DEF new
<1>4. Records' \subseteq SegmentInfo BY <1>0, <1>1, <1>2 DEF Shapes
<1>5. Ordered(Records')
  <2>1. \A si \in Records' : si.start <= si.end
    BY <1>0, <1>1, <1>2 DEF Timeline, Ordered
  <2>2. ASSUME NEW si \in Records', NEW sj \in Records', si.id < sj.id
        PROVE  si.end <= sj.start
    <3>1. CASE si \in Records /\ sj \in Records BY <1>0, <2>2, <3>1 DEF Timeline, Ordered
    <3>2. CASE si \in Records /\ sj = new BY <1>0, <1>1, <3>2 DEF Timeline
    <3>3. CASE si = new /\ sj \in Records
      <4>1. sj.id < seg.id /\ seg.id < sj.id BY <1>0, <1>1, <2>2, <3>3 DEF Timeline
      <4>2. sj.id \in Nat /\ seg.id \in Nat BY <1>0, <3>3, Comparable DEF Shapes
      <4> QED BY <4>1, <4>2
    <3>4. CASE si = new /\ sj = new BY <1>0, <1>1, <2>2, <3>4, Comparable DEF Shapes
    <3> QED BY <1>2, <3>1, <3>2, <3>3, <3>4
  <2> QED BY <2>1, <2>2 DEF Ordered
<1>6. \A si \in Records' : si.id <= serial BY <1>0, <1>1, <1>2 DEF Timeline
<1>7. \A t \in Times : Past(t) => \A si \in Records' : si.end <= t
  BY <1>1, <1>2 DEF Past
<1> QED BY <1>2, <1>3, <1>4, <1>5, <1>6, <1>7 DEF new

(* What most steps do to the order: they move nothing back and open nothing. *)
Keeps ==
    /\ Timeline'
    /\ seg' \in Segment /\ serial' = serial /\ Records' \subseteq SegmentInfo
    /\ \A t \in Times : Past(t) => Past(t)'

SameInstants == seg' \in Segment /\ seg'.id = seg.id /\ seg'.start = seg.start /\ seg'.last = seg.last

(* Records may go, the open segment stays or there is none any more. *)
LEMMA FewerKept ==
  ASSUME TimeInv, Records' \subseteq Records, serial' = serial, segOpen' => segOpen, SameInstants
  PROVE  Keeps
<1>1. Timeline' BY DEF TimeInv, Timeline, Ordered, SameInstants
<1>2. \A t \in Times : Past(t) => Past(t)' BY DEF Past, SameInstants
<1>3. Records' \subseteq SegmentInfo BY DEF TimeInv, Shapes
<1> QED BY <1>1, <1>2, <1>3 DEF Keeps, SameInstants

(* The segment is closed, and recorded unless that failed. *)
LEMMA ClosedKept ==
  ASSUME TimeInv, segOpen, NEW o, FinishSegment(o), segOpen' => o = "unclosed",
         serial' = serial, SameInstants
  PROVE  Keeps
<1>1. CASE o = "unclosed"
  <2>1. Records' \subseteq Records BY <1>1, Finished
  <2> QED BY <2>1, FewerKept
<1>2. CASE o # "unclosed"
  <2>1. ~segOpen' BY <1>2
  <2>2. /\ Ordered(Records') /\ Records' \subseteq SegmentInfo
        /\ \A si \in Records' : si.id <= serial
        /\ \A t \in Times : Past(t) => \A si \in Records' : si.end <= t
    BY Finished
  <2>3. Timeline' BY <2>1, <2>2 DEF Timeline, Ordered
  <2>4. \A t \in Times : Past(t) => Past(t)' BY <2>1, <2>2 DEF Past
  <2> QED BY <2>2, <2>3, <2>4 DEF Keeps, SameInstants
<1> QED BY <1>1, <1>2

(* Such a step, when queue, frame in hand and clock stay too. *)
LEMMA StillInv ==
  ASSUME TimeInv, Keeps, clock' = clock, cur' = cur,
         queue' = queue \/ queue' = <<>>,
         pc' = pc \/ pc' \in {"select", "pop", "down"}
  PROVE  TimeInv'
<1>0. Shapes /\ Pipeline BY DEF TimeInv
<1>1. Timeline' /\ \A t \in Times : Past(t) => Past(t)' BY DEF Keeps
<1>2. queue' \in Seq(AccessUnit)
  <2>1. queue \in Seq(AccessUnit) /\ <<>> \in Seq(AccessUnit) BY <1>0 DEF Shapes
  <2> QED BY <2>1, Zenon
<1>3. Shapes' BY <1>0, <1>2 DEF Shapes, Keeps
<1>4. \A i \in 1 .. Len(queue) : queue[i].ts \in Times
  BY <1>0, Comparable DEF Shapes
<1>5. clock \in Times /\ cur.ts \in Times BY <1>0, Comparable DEF Shapes
<1>6. Pipeline'
  <2>1. Past(clock)' BY <1>0, <1>1, <1>5 DEF Pipeline, Past
  <2>2. pc' = "handle" => Past(cur.ts)' /\ cur'.ts <= clock'
    BY <1>0, <1>1, <1>5 DEF Pipeline, Past
  <2>3. CASE queue' = queue
    <3>1. \A i \in 1 .. Len(queue) : Past(queue[i].ts)' BY <1>0, <1>1, <1>4, <2>3 DEF Pipeline, Past
    <3> QED BY <1>0, <2>1, <2>2, <2>3, <3>1 DEF Pipeline
  <2>4. CASE queue' = <<>> BY <2>1, <2>2, <2>4 DEF Pipeline
  <2> QED BY <2>3, <2>4
<1> QED BY <1>1, <1>3, <1>6 DEF TimeInv

(* The frame in hand has been dealt with: what comes next is not before it. *)
LEMMA FrameDone ==
  ASSUME TimeInv, pc = "handle", pc' = "pop", UNCHANGED <<clock, queue, cur>>,
         Timeline', Past(cur.ts)',
         seg' \in Segment, serial' \in Nat, Records' \subseteq SegmentInfo
  PROVE  TimeInv'
<1>0. Shapes /\ Pipeline BY DEF TimeInv
<1>1. Shapes' BY <1>0 DEF Shapes
<1>2. \A i \in 1 .. Len(queue) : queue[i].ts \in Nat
  BY <1>0, Comparable DEF Shapes
<1>3. clock \in Nat /\ cur.ts \in Nat BY <1>0, Comparable DEF Shapes
<1>4. /\ \A si \in Records' : si.end \in Nat /\ si.end <= cur.ts
      /\ segOpen' => seg'.last \in Nat /\ seg'.last <= cur.ts
  BY Comparable DEF Past
<1>5. \A t \in Nat : cur.ts <= t => /\ \A si \in Records' : si.end <= t
                                    /\ segOpen' => seg'.last <= t
  BY <1>3, <1>4
<1>6. Past(clock)' BY <1>0, <1>3, <1>5 DEF Past, Pipeline
<1>7. \A i \in 1 .. Len(queue) : Past(queue[i].ts)' BY <1>0, <1>2, <1>5 DEF Past, Pipeline
<1>8. Pipeline' BY <1>0, <1>6, <1>7 DEF Pipeline
<1> QED BY <1>1, <1>8 DEF TimeInv

(* A new segment follows every record there is. *)
LEMMA Opened ==
  ASSUME TimeInv, NEW w \in Outcomes, StartSegment(w), cur' = cur,
         Records' \subseteq SegmentInfo, Ordered(Records'),
         \A si \in Records' : si.id <= serial /\ si.end <= cur.ts
  PROVE  Timeline' /\ Past(cur.ts)' /\ seg' \in Segment /\ serial' \in Nat
<1>0. Shapes BY DEF TimeInv
<1> DEFINE new == NewSegment(cur)
<1>1. /\ new \in Segment /\ new.id = serial + 1 /\ new.start = cur.ts /\ new.last = cur.ts
  BY <1>0 DEF NewSegment, Segment, Shapes, AccessUnit
<1>2. WriteFrame(new, w) /\ serial' = serial + 1 BY DEF StartSegment
<1> HIDE DEF new
<1>3. cur \in AccessUnit /\ serial \in Nat BY <1>0 DEF Shapes
<1>4. /\ seg' \in Segment /\ seg'.id = new.id /\ seg'.start = new.start
      /\ seg'.last \in {new.last, cur.ts}
  BY <1>1, <1>2, <1>3, FrameWritten
<1>5. seg'.id = serial + 1 /\ seg'.start = cur.ts /\ seg'.last = cur.ts BY <1>1, <1>4
<1>6. cur.ts \in Nat BY <1>3, Comparable
<1>7. \A si \in Records' : si.id \in Nat BY Comparable
<1>8. Timeline' BY <1>2, <1>3, <1>5, <1>6, <1>7 DEF Timeline, Ordered
<1>9. Past(cur.ts)' BY <1>5, <1>6 DEF Past
<1> QED BY <1>2, <1>3, <1>4, <1>8, <1>9

LEMMA Handled == ASSUME TimeInv, HandleAU PROVE TimeInv'
<1>0. /\ Shapes /\ Timeline /\ Pipeline
      /\ pc = "handle" /\ pc' = "pop" /\ clock' = clock /\ queue' = queue /\ cur' = cur
  BY DEF TimeInv, HandleAU
<1>1. Past(cur.ts) /\ cur.ts \in Times BY <1>0, Comparable DEF Pipeline, Shapes
<1>2. seg \in Segment /\ serial \in Nat /\ Records \subseteq SegmentInfo BY <1>0 DEF Shapes
<1>3. CASE UNCHANGED <<indexVars, segOpen, seg, serial>>
  <2>1. SameInstants /\ Records' \subseteq Records BY <1>2, <1>3 DEF SameInstants, Records, indexVars
  <2>2. Keeps BY <1>3, <2>1, FewerKept
  <2> QED BY <1>0, <2>2, StillInv
<1>4. ASSUME ~segOpen, NEW w \in Outcomes, StartSegment(w), UNCHANGED indexVars
      PROVE  TimeInv'
  <2>1. Records' = Records BY <1>4 DEF Records, indexVars
  <2>2. Ordered(Records') /\ \A si \in Records' : si.id <= serial /\ si.end <= cur.ts
    BY <1>0, <1>1, <2>1 DEF Timeline, Past
  <2>3. Timeline' /\ Past(cur.ts)' /\ seg' \in Segment /\ serial' \in Nat
    BY <1>0, <1>2, <1>4, <2>1, <2>2, Opened
  <2> QED BY <1>0, <1>2, <2>1, <2>3, FrameDone
<1>5. ASSUME segOpen, NEW w \in Outcomes, WriteFrame(seg, w),
             UNCHANGED <<indexVars, segOpen, serial>>
      PROVE  TimeInv'
  <2>1. Records' = Records BY <1>5 DEF Records, indexVars
  <2>2. /\ seg' \in Segment /\ seg'.id = seg.id /\ seg'.start = seg.start
        /\ seg'.last \in {seg.last, cur.ts}
    BY <1>0, <1>2, <1>5, FrameWritten DEF Shapes
  <2>3. seg.last <= cur.ts /\ seg.start <= seg.last BY <1>0, <1>1, <1>5 DEF Past, Timeline
  <2>4. seg.last \in Nat /\ seg.start \in Nat /\ cur.ts \in Nat BY <1>1, <1>2, Comparable
  <2>5. seg'.start <= seg'.last /\ seg'.last <= cur.ts BY <2>2, <2>3, <2>4
  <2>6. Timeline' BY <1>0, <1>5, <2>1, <2>2, <2>5 DEF Timeline, Ordered
  <2>7. Past(cur.ts)' BY <1>0, <1>1, <2>1, <2>5 DEF Past
  <2> QED BY <1>0, <1>2, <1>5, <2>1, <2>2, <2>6, <2>7, FrameDone
<1>6. CASE Roll
  <2>0. segOpen BY <1>6 DEF Roll
  <2>1. PICK o \in CloseOutcomes :
           /\ FinishSegment(o)
           /\ \/ \E w \in Outcomes : StartSegment(w)
              \/ AfterClose(o) /\ serial' = serial
    BY <1>6, OutcomesAre DEF Roll
  <2>2. /\ Records' \subseteq SegmentInfo /\ Ordered(Records')
        /\ \A si \in Records' : si.id <= serial
        /\ \A si \in Records' : si.end <= cur.ts
    BY <1>1, <2>0, <2>1, Finished
  <2>3. ASSUME NEW w \in Outcomes, StartSegment(w) PROVE TimeInv'
    <3>1. Timeline' /\ Past(cur.ts)' /\ seg' \in Segment /\ serial' \in Nat
      BY <1>0, <2>2, <2>3, Opened
    <3> QED BY <1>0, <2>2, <3>1, FrameDone
  <2>4. CASE AfterClose(o) /\ serial' = serial
    <3>1. (o = "unclosed") \in BOOLEAN OBVIOUS
    <3>2. SameInstants BY <1>2, <2>4, <3>1, FlagsAside DEF AfterClose, SameInstants
    <3>3. segOpen' => o = "unclosed" BY <2>4, Zenon DEF AfterClose
    <3>4. Keeps BY <2>0, <2>1, <2>4, <3>2, <3>3, ClosedKept
    <3> QED BY <1>0, <3>4, StillInv
  <2> QED BY <2>1, <2>3, <2>4
<1>7. CASE Discard BY <1>3, <1>7 DEF Discard
<1>8. CASE FirstOfSegment
  <2>1. ~segOpen /\ UNCHANGED indexVars
        /\ \/ \E w \in Outcomes : StartSegment(w)
           \/ UNCHANGED <<segOpen, seg, serial>>
    BY <1>8, OutcomesAre DEF FirstOfSegment
  <2> QED BY <1>3, <1>4, <2>1
<1>9. CASE Continue
  <2>1. segOpen /\ UNCHANGED <<indexVars, segOpen, serial>>
        /\ \E w \in Outcomes : WriteFrame(seg, w)
    BY <1>9, OutcomesAre DEF Continue
  <2> QED BY <1>5, <2>1
<1> QED BY <1>6, <1>7, <1>8, <1>9 DEF HandleAU

(* What a full queue gives up leaves the rest in its order. *)
LEMMA RoomMade ==
  ASSUME NEW q \in Seq(AccessUnit)
  PROVE  LET r == MakeRoom(q) IN
         /\ r \in Seq(AccessUnit)
         /\ \A i \in 1 .. Len(r) : \E k \in 1 .. Len(q) : r[i] = q[k]
         /\ \A i, j \in 1 .. Len(r) : i <= j =>
                \E k, l \in 1 .. Len(q) : k <= l /\ r[i] = q[k] /\ r[j] = q[l]
<1> DEFINE r == MakeRoom(q)
<1> SUFFICES /\ r \in Seq(AccessUnit)
             /\ \A i \in 1 .. Len(r) : \E k \in 1 .. Len(q) : r[i] = q[k]
             /\ \A i, j \in 1 .. Len(r) : i <= j =>
                    \E k, l \in 1 .. Len(q) : k <= l /\ r[i] = q[k] /\ r[j] = q[l]
  BY Zenon
<1>1. CASE Len(q) < QueueCapacity
  <2>1. r = q BY <1>1 DEF MakeRoom
  <2> HIDE DEF r
  <2> QED BY <2>1
<1>2. CASE ~(Len(q) < QueueCapacity)
  <2>1. q # <<>> /\ Len(q) \in Nat /\ Len(q) - 1 \in Nat
    BY <1>2, WriterAssumption
  <2>2. CASE \E i \in 1 .. Len(q) : ~q[i].key
    <3> DEFINE x == FirstDelta(q)
               at(j) == IF j < x THEN j ELSE j + 1
    <3>1. r = [j \in 1 .. Len(q) - 1 |-> IF j < x THEN q[j] ELSE q[j + 1]]
      BY <1>2, <2>2 DEF MakeRoom, Without
    <3> HIDE DEF r, x
    <3>2. \A j \in 1 .. Len(q) - 1 : r[j] = q[at(j)] /\ at(j) \in 1 .. Len(q)
      BY <2>1, <3>1
    <3>3. r \in Seq(AccessUnit) /\ Len(r) = Len(q) - 1 BY <2>1, <3>1
    <3>4. ASSUME NEW i \in 1 .. Len(r), NEW j \in 1 .. Len(r), i <= j
          PROVE  at(i) <= at(j) \/ i = j
      BY <2>1, <3>3, <3>4
    <3>5. \A i, j \in 1 .. Len(r) : i <= j =>
              \E k, l \in 1 .. Len(q) : k <= l /\ r[i] = q[k] /\ r[j] = q[l]
      <4> SUFFICES ASSUME NEW i \in 1 .. Len(r), NEW j \in 1 .. Len(r), i <= j
                   PROVE  \E k, l \in 1 .. Len(q) : k <= l /\ r[i] = q[k] /\ r[j] = q[l]
        OBVIOUS
      <4>1. at(i) \in 1 .. Len(q) /\ at(j) \in 1 .. Len(q) BY <3>2, <3>3
      <4>2. at(i) <= at(j) BY <3>4, <4>1
      <4> HIDE DEF at
      <4> QED BY <3>2, <3>3, <4>1, <4>2
    <3>6. \A i \in 1 .. Len(r) : \E k \in 1 .. Len(q) : r[i] = q[k] BY <3>2, <3>3
    <3> QED BY <3>3, <3>5, <3>6
  <2>3. CASE ~\E i \in 1 .. Len(q) : ~q[i].key
    <3>1. r = Tail(q) BY <1>2, <2>3 DEF MakeRoom
    <3> HIDE DEF r
    <3>2. r \in Seq(AccessUnit) /\ Len(r) = Len(q) - 1
          /\ \A j \in 1 .. Len(r) : r[j] = q[j + 1] /\ j + 1 \in 1 .. Len(q)
      BY <2>1, <3>1
    <3>3. \A i \in 1 .. Len(r) : \E k \in 1 .. Len(q) : r[i] = q[k] BY <3>2
    <3>4. ASSUME NEW i \in 1 .. Len(r), NEW j \in 1 .. Len(r), i <= j
          PROVE  \E k, l \in 1 .. Len(q) : k <= l /\ r[i] = q[k] /\ r[j] = q[l]
      <4>1. i + 1 <= j + 1 BY <3>4
      <4> QED BY <3>2, <4>1
    <3> QED BY <3>2, <3>3, <3>4
  <2> QED BY <2>2, <2>3
<1> QED BY <1>1, <1>2

LEMMA Pushed == ASSUME TimeInv, NEW key \in BOOLEAN, Push(key) PROVE TimeInv'
<1> DEFINE r == MakeRoom(queue)
           unit == [ts |-> clock, key |-> key]
<1>0. /\ Shapes /\ Timeline /\ Pipeline
      /\ queue' = Append(r, unit)
      /\ UNCHANGED <<index, log, clock, pc, cur, segOpen, seg, serial>>
  BY DEF TimeInv, Push, indexVars
<1>1. queue \in Seq(AccessUnit) /\ clock \in Times BY <1>0 DEF Shapes
<1>2. unit \in AccessUnit /\ unit.ts = clock BY <1>1 DEF AccessUnit
<1>3. /\ r \in Seq(AccessUnit)
      /\ \A i \in 1 .. Len(r) : \E k \in 1 .. Len(queue) : r[i] = queue[k]
      /\ \A i, j \in 1 .. Len(r) : i <= j =>
             \E k, l \in 1 .. Len(queue) : k <= l /\ r[i] = queue[k] /\ r[j] = queue[l]
  BY <1>1, RoomMade
<1> HIDE DEF r, unit
<1>4. /\ queue' \in Seq(AccessUnit) /\ Len(queue') = Len(r) + 1 /\ Len(r) \in Nat
      /\ \A i \in 1 .. Len(r) : queue'[i] = r[i]
      /\ queue'[Len(r) + 1] = unit
  BY <1>0, <1>2, <1>3
<1>5. Records' = Records BY <1>0 DEF Records
<1>6. Shapes' /\ Timeline' BY <1>0, <1>4, <1>5 DEF Shapes, Timeline, Ordered
<1>7. \A t \in Times : Past(t) => Past(t)' BY <1>0, <1>5 DEF Past
<1>8. \A i \in 1 .. Len(r) :
          /\ r[i].ts \in Times /\ Past(r[i].ts) /\ r[i].ts <= clock
          /\ pc = "handle" => cur.ts <= r[i].ts
  BY <1>0, <1>1, <1>3, Comparable DEF Pipeline
<1>9. \A i \in 1 .. Len(queue') : Past(queue[i].ts)' /\ queue'[i].ts <= clock
  <2> SUFFICES ASSUME NEW i \in 1 .. Len(queue')
               PROVE  Past(queue[i].ts)' /\ queue'[i].ts <= clock
    OBVIOUS
  <2>1. CASE i \in 1 .. Len(r) BY <1>4, <1>7, <1>8, <2>1 DEF Past
  <2>2. CASE i = Len(r) + 1 BY <1>0, <1>1, <1>2, <1>4, <1>7, <2>2, Comparable DEF Past, Pipeline
  <2> QED BY <1>4, <2>1, <2>2
<1>10. \A i, j \in 1 .. Len(queue') : i <= j => queue'[i].ts <= queue'[j].ts
  <2> SUFFICES ASSUME NEW i \in 1 .. Len(queue'), NEW j \in 1 .. Len(queue'), i <= j
               PROVE  queue'[i].ts <= queue'[j].ts
    OBVIOUS
  <2>1. CASE j \in 1 .. Len(r)
    <3>1. i \in 1 .. Len(r) BY <1>4, <2>1
    <3>2. PICK k \in 1 .. Len(queue), l \in 1 .. Len(queue) :
              k <= l /\ r[i] = queue[k] /\ r[j] = queue[l]
      BY <1>3, <2>1, <3>1
    <3> QED BY <1>0, <1>4, <2>1, <3>1, <3>2 DEF Pipeline
  <2>2. CASE j = Len(r) + 1
    <3>1. queue'[j].ts = clock BY <1>2, <1>4, <2>2
    <3>2. queue'[i].ts <= clock BY <1>9
    <3> QED BY <3>1, <3>2
  <2> QED BY <1>4, <2>1, <2>2
<1>11. pc = "handle" => Past(cur.ts)' /\ \A i \in 1 .. Len(queue') : cur.ts <= queue'[i].ts
  <2> SUFFICES ASSUME pc = "handle", NEW i \in 1 .. Len(queue')
               PROVE  Past(cur.ts)' /\ cur.ts <= queue'[i].ts
    BY <1>0, <1>1, <1>7, Comparable DEF Pipeline, Past, Shapes
  <2>1. Past(cur.ts)' BY <1>0, <1>7, Comparable DEF Pipeline, Shapes, Past
  <2>2. CASE i \in 1 .. Len(r) BY <1>4, <1>8, <2>1, <2>2
  <2>3. CASE i = Len(r) + 1 BY <1>0, <1>2, <1>4, <2>1, <2>3 DEF Pipeline
  <2> QED BY <1>4, <2>2, <2>3
<1>12. Past(clock)' BY <1>0, <1>1, <1>7 DEF Pipeline, Past
<1>13. Pipeline' BY <1>0, <1>9, <1>10, <1>11, <1>12 DEF Pipeline, Past
<1> QED BY <1>6, <1>13 DEF TimeInv

LEMMA Popped == ASSUME TimeInv, Pop PROVE TimeInv'
<1>0. /\ Shapes /\ Timeline /\ Pipeline
      /\ UNCHANGED <<index, log, clock, segOpen, seg, serial>>
  BY DEF TimeInv, Pop, indexVars
<1>1. SameInstants /\ Records' = Records BY <1>0 DEF SameInstants, Records, Shapes
<1>2. CASE queue = <<>>
  <2>1. queue' = queue /\ cur' = cur /\ pc' = "select" BY <1>2 DEF Pop
  <2>2. Keeps BY <1>0, <1>1, FewerKept
  <2> QED BY <1>0, <2>1, <2>2, StillInv
<1>3. CASE queue # <<>>
  <2>1. queue' = Tail(queue) /\ cur' = Head(queue) /\ pc' = "handle" BY <1>3 DEF Pop
  <2>2. queue \in Seq(AccessUnit) BY <1>0 DEF Shapes
  <2>3. /\ queue' \in Seq(AccessUnit) /\ cur' \in AccessUnit /\ cur' = queue[1]
        /\ Len(queue) \in Nat \ {0} /\ Len(queue') = Len(queue) - 1
        /\ \A i \in 1 .. Len(queue') : queue'[i] = queue[i + 1] /\ i + 1 \in 1 .. Len(queue)
        /\ 1 \in 1 .. Len(queue)
    BY <1>3, <2>1, <2>2
  <2>4. \A t \in Times : Past(t) => Past(t)' BY <1>0, <1>1 DEF Past
  <2>5. \A i \in 1 .. Len(queue) : queue[i].ts \in Times BY <2>2, Comparable
  <2>6. Shapes' /\ Timeline' BY <1>0, <1>1, <2>3 DEF Shapes, Timeline, Ordered
  <2>7. \A i \in 1 .. Len(queue') : Past(queue[i].ts)' /\ queue'[i].ts <= clock
    BY <1>0, <2>3, <2>4, <2>5 DEF Pipeline, Past
  <2>8. \A i, j \in 1 .. Len(queue') : i <= j => queue'[i].ts <= queue'[j].ts
    <3> SUFFICES ASSUME NEW i \in 1 .. Len(queue'), NEW j \in 1 .. Len(queue'), i <= j
                 PROVE  queue'[i].ts <= queue'[j].ts
      OBVIOUS
    <3>1. i + 1 <= j + 1 BY <2>3
    <3>2. queue[i + 1].ts <= queue[j + 1].ts BY <1>0, <2>3, <3>1 DEF Pipeline
    <3> QED BY <2>3, <3>2
  <2>9. Past(cur.ts)' /\ cur'.ts <= clock /\ \A i \in 1 .. Len(queue') : cur'.ts <= queue'[i].ts
    BY <1>0, <2>3, <2>4, <2>5 DEF Pipeline, Past
  <2>10. Past(clock)' BY <1>0, <2>4 DEF Pipeline, Shapes, Past
  <2> QED BY <1>0, <2>6, <2>7, <2>8, <2>9, <2>10 DEF TimeInv, Pipeline, Past
<1> QED BY <1>2, <1>3

LEMMA Ticked == ASSUME TimeInv, Tick PROVE TimeInv'
<1>0. /\ Shapes /\ Timeline /\ Pipeline
      /\ UNCHANGED <<index, log, pc, cur, queue, segOpen, seg, serial>>
      /\ clock' = clock + 1 /\ clock < MaxClock
  BY DEF TimeInv, Tick, indexVars
<1>1. Records' = Records BY <1>0 DEF Records
<1>2. clock' \in Times /\ clock \in Nat BY <1>0, ClockAssumption DEF Shapes, Times
<1>3. Shapes' /\ Timeline' BY <1>0, <1>1, <1>2 DEF Shapes, Timeline, Ordered
<1>5. Past(clock)'
  BY <1>0, <1>1, <1>2, Comparable DEF Past, Pipeline, Shapes
<1>6. cur.ts \in Times /\ \A i \in 1 .. Len(queue) : queue[i].ts \in Times
  BY <1>0, Comparable DEF Shapes
<1>7. \A t \in Times : t <= clock => t <= clock' BY <1>0, <1>2, Comparable
<1>8. \A i \in 1 .. Len(queue) : Past(queue[i].ts)' /\ queue[i].ts <= clock'
  <2> SUFFICES ASSUME NEW i \in 1 .. Len(queue)
               PROVE  Past(queue[i].ts)' /\ queue[i].ts <= clock'
    OBVIOUS
  <2>1. Past(queue[i].ts) /\ queue[i].ts <= clock BY <1>0 DEF Pipeline
  <2>2. queue[i].ts \in Times BY <1>6
  <2>3. queue[i].ts <= clock' BY <1>7, <2>1, <2>2
  <2>4. Past(queue[i].ts)' BY <1>0, <1>1, <2>1 DEF Past
  <2> QED BY <2>3, <2>4
<1>9. pc = "handle" => Past(cur.ts)' /\ cur.ts <= clock'
  <2> SUFFICES ASSUME pc = "handle" PROVE Past(cur.ts)' /\ cur.ts <= clock' OBVIOUS
  <2>1. Past(cur.ts) /\ cur.ts <= clock BY <1>0 DEF Pipeline
  <2>2. Past(cur.ts)' BY <1>0, <1>1, <2>1 DEF Past
  <2> QED BY <1>6, <1>7, <2>1, <2>2
<1> QED BY <1>0, <1>3, <1>5, <1>8, <1>9 DEF TimeInv, Pipeline

(* The steps of retention and of the process, and a pause. *)
LEMMA OthersKeep ==
  ASSUME TimeInv,
         RecordCmd \/ Retention \/ Shutdown \/ Crash \/ Boot
  PROVE  TimeInv'
<1>0. Shapes /\ seg \in Segment BY DEF TimeInv, Shapes
<1>1. CASE RecordCmd
  <2>1. PICK p \in BOOLEAN : SetPaused(p) BY <1>1 DEF RecordCmd
  <2>2. clock' = clock /\ cur' = cur /\ queue' = queue /\ pc' = pc /\ serial' = serial
    BY <2>1 DEF SetPaused
  <2>3. CASE segOpen /\ \E o \in CloseOutcomes : FinishSegment(o) /\ AfterClose(o)
    <3>1. PICK o \in CloseOutcomes : FinishSegment(o) /\ AfterClose(o) BY <2>3
    <3>2. (o = "unclosed") \in BOOLEAN OBVIOUS
    <3>3. SameInstants BY <1>0, <3>1, <3>2, FlagsAside DEF AfterClose, SameInstants
    <3>4. segOpen' => o = "unclosed" BY <3>1, Zenon DEF AfterClose
    <3>5. Keeps BY <2>2, <2>3, <3>1, <3>3, <3>4, ClosedKept
    <3> QED BY <2>2, <3>5, StillInv
  <2>4. CASE UNCHANGED <<indexVars, segOpen, seg>>
    <3>1. Records' \subseteq Records /\ SameInstants
      BY <1>0, <2>4 DEF Records, indexVars, SameInstants
    <3>2. Keeps BY <2>2, <2>4, <3>1, FewerKept
    <3> QED BY <2>2, <3>2, StillInv
  <2> QED BY <2>1, <2>3, <2>4 DEF SetPaused
<1>2. CASE Retention
  <2>1. UNCHANGED <<clock, cur, queue, pc, serial, segOpen>>
    BY <1>2 DEF Retention, StartEnforce, NextAged, NextOverLimit, Unlink, Unindex, writerVars
  <2>2. Records' \subseteq Records
    BY <1>2 DEF Retention, StartEnforce, NextAged, NextOverLimit, Unlink, Unindex,
                RemoveRecords, Records, indexVars
  <2>3. SameInstants
    <3>1. CASE Unlink
      <4>1. seg' \in {seg, [seg EXCEPT !.linked = FALSE]} BY <3>1 DEF Unlink
      <4> QED BY <1>0, <4>1, FlagsAside DEF SameInstants
    <3>2. CASE ~Unlink
      <4>1. seg' = seg
        BY <1>2, <3>2 DEF Retention, StartEnforce, NextAged, NextOverLimit, Unindex, writerVars
      <4> QED BY <1>0, <4>1 DEF SameInstants
    <3> QED BY <3>1, <3>2
  <2>4. Keeps BY <2>1, <2>2, <2>3, FewerKept
  <2> QED BY <2>1, <2>4, StillInv
<1>3. CASE Shutdown
  <2>1. /\ clock' = clock /\ cur' = cur /\ queue' = <<>> /\ pc' = "down"
        /\ serial' = serial /\ seg' = seg /\ ~segOpen'
    BY <1>3 DEF Shutdown, GoDown
  <2>2. SameInstants BY <1>0, <2>1 DEF SameInstants
  <2>3. CASE segOpen
    <3>1. PICK o \in CloseOutcomes : FinishSegment(o) BY <1>3, <2>3 DEF Shutdown
    <3>2. Keeps BY <2>1, <2>2, <2>3, <3>1, ClosedKept
    <3> QED BY <2>1, <3>2, StillInv
  <2>4. CASE ~segOpen
    <3>1. Records' = Records BY <1>3, <2>4 DEF Shutdown, Records, indexVars
    <3>2. Keeps BY <2>1, <2>2, <3>1, FewerKept
    <3> QED BY <2>1, <3>2, StillInv
  <2> QED BY <2>3, <2>4
<1>4. CASE Crash
  <2>1. /\ clock' = clock /\ cur' = cur /\ queue' = <<>> /\ pc' = "down"
        /\ serial' = serial /\ seg' = seg /\ ~segOpen'
    BY <1>4 DEF Crash, GoDown
  <2>2. SameInstants BY <1>0, <2>1 DEF SameInstants
  <2>3. Records' = Records BY <1>4 DEF Crash, Records
  <2>4. Keeps BY <2>1, <2>2, <2>3, FewerKept
  <2> QED BY <2>1, <2>4, StillInv
<1>5. CASE Boot
  <2>1. UNCHANGED <<clock, cur, queue, serial, seg, segOpen>> /\ pc' = "select"
    BY <1>5 DEF Boot
  <2>2. Records' \subseteq Records BY <1>5 DEF Boot, LoadIndex, Records
  <2>3. SameInstants BY <1>0, <2>1 DEF SameInstants
  <2>4. Keeps BY <2>1, <2>2, <2>3, FewerKept
  <2> QED BY <2>1, <2>4, StillInv
<1> QED BY <1>1, <1>2, <1>3, <1>4, <1>5

LEMMA TimeKept == TimeInv /\ [Next]_vars => TimeInv'
<1> SUFFICES ASSUME TimeInv, [Next]_vars PROVE TimeInv' OBVIOUS
<1>1. CASE Drain BY <1>1, Pushed DEF Drain
<1>2. CASE RunLoop
  <2>1. CASE Wake
    <3>1. UNCHANGED <<index, log, clock, queue, cur, segOpen, seg, serial>> /\ pc' = "pop"
      BY <2>1 DEF Wake, indexVars
    <3>2. Records' \subseteq Records /\ SameInstants
      BY <3>1 DEF Records, SameInstants, TimeInv, Shapes
    <3>3. Keeps BY <3>1, <3>2, FewerKept
    <3> QED BY <3>1, <3>3, StillInv
  <2> QED BY <1>2, <2>1, Popped, Handled DEF RunLoop
<1>3. CASE UNCHANGED vars
  <2>1. UNCHANGED <<index, log, clock, queue, cur, segOpen, seg, serial, pc>>
    BY <1>3 DEF vars, indexVars, writerVars
  <2>2. Records' \subseteq Records /\ SameInstants
    BY <2>1 DEF Records, SameInstants, TimeInv, Shapes
  <2>3. Keeps BY <2>1, <2>2, FewerKept
  <2> QED BY <2>1, <2>3, StillInv
<1> QED BY <1>1, <1>2, <1>3, Ticked, OthersKeep DEF Next

(* SegmentsDoNotOverlap: the records in the index follow each other in time, in
   the order of their segments, whatever is lost from the queue, fails, is
   paused, pruned or loaded again after a crash (Writer.handleAU and
   closeSegmentLocked, recording/writer.go; Index.Append, index.go). *)
THEOREM NoOverlap == Spec => []SegmentsDoNotOverlap
<1>1. TimeInv => SegmentsDoNotOverlap
  BY DEF TimeInv, Timeline, Ordered, Records, SegmentsDoNotOverlap
<1> QED BY TimeInit, TimeKept, <1>1, PTL DEF Spec

-----------------------------------------------------------------------------
(* Records, files and sizes. *)

FilesOf(R) == {si.file : si \in R}

(* What the index, its file or the retention pass knows of. *)
Known ==
    index \cup log \cup victims
          \cup (IF rpc \in {"unlink", "unindex"} THEN {victim} ELSE {})

(* A name under which a segment is known again is one that was opened again. *)
NamesInv ==
    /\ FilesOf(Known) \subseteq named
    /\ segOpen => /\ seg.file \in named
                  /\ seg.file \in FilesOf(Known) => seg.file \in reopened

Untroubled == faults = 0 /\ stops = 0

(* IndexMatchesFiles says nothing of a process that is down, of what a deletion
   half done leaves, nor of the file that the open segment will leave a record of. *)
MatchInv ==
    /\ faults = 0 => index = log /\ ~torn
    /\ files \subseteq Indexed \cup Current \cup orphaned \cup reopened
    /\ rpc = "unindex" /\ victim.file \in files => victim.file \in orphaned \cup reopened
    /\ Untroubled => /\ segOpen => seg.file \in files \cup reopened
                     /\ Indexed \subseteq files \cup reopened
                            \cup (IF rpc = "unindex" THEN {victim.file} ELSE {})

(* A file holds at most n bytes besides what failing writes left in it. *)
Holds(sizes, strays, file, n) == sizes[file] <= n + strays[file]

(* A record counts what its file holds, and so does the open segment. *)
SizeInv ==
    /\ \A si \in Records : si.file \in reopened \/ Holds(disk, stray, si.file, si.size)
    /\ segOpen => seg.file \in reopened \/ Holds(disk, stray, seg.file, seg.size)
    /\ \A t \in Times \ named : disk[t] = 0

DiskShapes ==
    /\ disk \in [Times -> Nat] /\ stray \in [Times -> Nat] /\ named \subseteq Times
    /\ faults \in Nat /\ stops \in Nat
    /\ IsFiniteSet(Records)

RecordsInv == TimeInv /\ DiskShapes /\ NamesInv /\ MatchInv /\ SizeInv

LEMMA RecordsInit == Init => RecordsInv
<1> SUFFICES ASSUME Init PROVE RecordsInv OBVIOUS
<1>1. /\ index = {} /\ log = {} /\ files = {} /\ named = {} /\ reopened = {} /\ orphaned = {}
      /\ victims = {} /\ rpc = "idle" /\ faults = 0 /\ stops = 0
      /\ disk = [t \in Times |-> 0] /\ stray = [t \in Times |-> 0]
  BY DEF Init, IndexInit, WriterInit
<1>2. ~segOpen /\ ~torn BY Zenon DEF Init, IndexInit, WriterInit
<1>3. Records = {} /\ Known = {} /\ FilesOf(Known) = {} /\ Indexed = {}
  BY <1>1 DEF Records, Known, FilesOf, Indexed
<1>4. DiskShapes BY <1>1, <1>3, FS_EmptySet DEF DiskShapes
<1>5. NamesInv BY <1>2, <1>3 DEF NamesInv
<1>6. MatchInv BY <1>1, <1>2, <1>3 DEF MatchInv
<1>7. SizeInv BY <1>1, <1>2, <1>3 DEF SizeInv
<1> QED BY <1>4, <1>5, <1>6, <1>7, TimeInit DEF RecordsInv

Closed == IF segOpen THEN {InfoOf(seg)} ELSE {}

(* A segment is opened under the second of the frame in hand. *)
Opens ==
    /\ segOpen' /\ cur.ts \in Times /\ seg'.file = cur.ts
    /\ files' = files \cup {cur.ts} /\ named' = named \cup {cur.ts}
    /\ reopened' = reopened \cup (named \cap {cur.ts})
    /\ \E n, e \in 0 .. 1 :
          /\ seg'.size = n
          /\ disk' = [disk EXCEPT ![cur.ts] = @ + (n + e)]
          /\ stray' = [stray EXCEPT ![cur.ts] = @ + e]

(* What is added to the open segment, and to its file when that has its name. *)
Grows ==
    \E n, e \in 0 .. 1 :
       /\ seg'.size = seg.size + n
       /\ \/ UNCHANGED <<disk, stray>>
          \/ /\ disk' = [disk EXCEPT ![seg.file] = @ + (n + e)]
             /\ stray' = [stray EXCEPT ![seg.file] = @ + e]

(* None is opened: the open one goes on, or is closed. *)
OpensNone ==
    /\ files \subseteq files' /\ files' \subseteq files \cup orphaned'
    /\ named' = named /\ reopened' = reopened
    /\ segOpen' => /\ segOpen /\ index' = index /\ log' = log /\ seg'.file = seg.file
                   /\ Grows
    /\ ~segOpen' => UNCHANGED <<disk, stray>>

(* What the writer and the end of the process may do: the open segment gets its
   record, or is left to the orphans, or stays open. *)
WriterStep ==
    /\ index \subseteq index' /\ log \subseteq log'
    /\ index' \cup log' \subseteq index \cup log \cup Closed
    /\ segOpen => InfoOf(seg) \in index' \/ seg.file \in orphaned'
                  \/ (segOpen' /\ seg'.file = seg.file)
    /\ faults' \in Nat /\ stops' \in Nat
    /\ faults' = 0 => faults = 0 /\ (index = log /\ ~torn => index' = log' /\ ~torn')
    /\ orphaned \subseteq orphaned'
    /\ \/ UNCHANGED <<rpc, victim, victims, stops>>
       \/ rpc' = "idle" /\ victims' = {} /\ stops' # 0
    /\ Opens \/ OpensNone

LEMMA ClosedRecord ==
  ASSUME TimeInv
  PROVE  \A si \in Closed : segOpen /\ si.file = seg.file /\ si.size = seg.size
BY DEF Closed, InfoOf

LEMMA WriterStepKeeps == ASSUME RecordsInv, TimeInv', WriterStep PROVE RecordsInv'
<1>0. TimeInv /\ DiskShapes /\ NamesInv /\ MatchInv /\ SizeInv BY DEF RecordsInv
<1>1. /\ named \subseteq named' /\ reopened \subseteq reopened' /\ orphaned \subseteq orphaned'
      /\ files \subseteq files' /\ Records \subseteq Records'
  BY DEF WriterStep, Opens, OpensNone, Records
<1>2. /\ Records' \subseteq Records \cup Closed
      /\ Known' \subseteq Known \cup Closed
      /\ rpc' = "unindex" => rpc = "unindex" /\ victim' = victim
  BY DEF WriterStep, Records, Known
<1>3. \A f \in FilesOf(Known)' : f \in named
  <2> SUFFICES ASSUME NEW si \in Known' PROVE si.file \in named BY DEF FilesOf
  <2>1. CASE si \in Known BY <1>0, <2>1 DEF NamesInv, FilesOf
  <2>2. CASE si \in Closed BY <1>0, <2>2, ClosedRecord DEF NamesInv
  <2> QED BY <1>2, <2>1, <2>2
<1>4. OpensNone /\ segOpen' => Known' \subseteq Known
  BY DEF OpensNone, WriterStep, Known
<1>5. NamesInv'
  <2>1. CASE Opens BY <1>1, <1>3, <2>1 DEF Opens, NamesInv
  <2>2. CASE OpensNone
    <3>1. segOpen' => FilesOf(Known)' \subseteq FilesOf(Known) BY <1>4, <2>2 DEF FilesOf
    <3> QED BY <1>0, <1>1, <1>3, <2>2, <3>1 DEF OpensNone, NamesInv
  <2> QED BY <2>1, <2>2 DEF WriterStep
<1>6. DiskShapes'
  <2>1. disk' \in [Times -> Nat] /\ stray' \in [Times -> Nat] /\ named' \subseteq Times
    <3>1. CASE Opens BY <1>0, <3>1 DEF Opens, DiskShapes
    <3>2. CASE OpensNone
      <4>1. segOpen => seg.file \in Times BY <1>0 DEF NamesInv, DiskShapes
      <4> QED BY <1>0, <3>2, <4>1 DEF OpensNone, Grows, DiskShapes
    <3> QED BY <3>1, <3>2 DEF WriterStep
  <2>2. IsFiniteSet(Records')
    <3>1. Records \cup Closed \in {Records, Records \cup {InfoOf(seg)}} BY DEF Closed
    <3>2. IsFiniteSet(Records \cup Closed) BY <1>0, <3>1, FS_AddElement DEF DiskShapes
    <3> QED BY <1>2, <3>2, FS_Subset
  <2> QED BY <2>1, <2>2 DEF DiskShapes, WriterStep
<1>7. MatchInv'
  <2>1. faults' = 0 => index' = log' /\ ~torn' BY <1>0 DEF WriterStep, MatchInv
  <2>2. Indexed \subseteq Indexed' BY DEF WriterStep, Indexed
  <2>3. segOpen => seg.file \in Indexed' \cup Current' \cup orphaned'
    <3>1. InfoOf(seg) \in index' => seg.file \in Indexed' BY DEF Indexed, InfoOf
    <3> QED BY <3>1 DEF WriterStep, Current
  <2>4. files' \subseteq files \cup Current' \cup orphaned'
    BY DEF WriterStep, Opens, OpensNone, Current
  <2>5. files' \subseteq Indexed' \cup Current' \cup orphaned' \cup reopened'
    <3>1. files \subseteq Indexed \cup orphaned \cup reopened \cup Current BY <1>0 DEF MatchInv
    <3>2. Current \subseteq Indexed' \cup Current' \cup orphaned' BY <2>3 DEF Current
    <3> QED BY <1>1, <2>2, <2>4, <3>1, <3>2
  <2>6. ASSUME rpc' = "unindex", victim'.file \in files'
        PROVE  victim'.file \in orphaned' \cup reopened'
    <3>1. rpc = "unindex" /\ victim' = victim BY <1>2, <2>6
    <3>2. victim.file \in named BY <1>0, <3>1 DEF NamesInv, Known, FilesOf
    <3>3. CASE victim.file \in files BY <1>0, <1>1, <3>1, <3>3 DEF MatchInv
    <3>4. CASE victim.file \notin files BY <2>6, <3>1, <3>2, <3>4 DEF WriterStep, Opens, OpensNone
    <3> QED BY <3>3, <3>4
  <2>7. ASSUME Untroubled'
        PROVE  /\ segOpen' => seg'.file \in files' \cup reopened'
               /\ Indexed' \subseteq files' \cup reopened'
                      \cup (IF rpc' = "unindex" THEN {victim'.file} ELSE {})
    <3>1. Untroubled /\ UNCHANGED <<rpc, victim>> BY <2>7 DEF Untroubled, WriterStep
    <3>2. segOpen' => seg'.file \in files' \cup reopened'
      BY <1>0, <1>1, <3>1 DEF MatchInv, WriterStep, Opens, OpensNone
    <3>3. ASSUME NEW si \in index'
          PROVE  si.file \in files' \cup reopened'
                    \cup (IF rpc' = "unindex" THEN {victim'.file} ELSE {})
      <4>1. CASE si \in index BY <1>0, <1>1, <3>1, <4>1 DEF MatchInv, Indexed
      <4>2. CASE si \in Closed BY <1>0, <1>1, <3>1, <4>2, ClosedRecord DEF MatchInv
      <4>3. CASE si \in log /\ si \notin index
        BY <1>0, <3>1, <4>3 DEF MatchInv, Untroubled
      <4> QED BY <3>3, <4>1, <4>2, <4>3 DEF WriterStep
    <3> QED BY <3>2, <3>3 DEF Indexed
  <2> QED BY <2>1, <2>5, <2>6, <2>7 DEF MatchInv
<1>8. SizeInv'
  <2>0. /\ \A t \in Times : disk[t] \in Nat /\ stray[t] \in Nat
        /\ segOpen => seg.file \in Times /\ seg.size \in Nat
        /\ \A si \in Records \cup Closed : si.file \in named /\ si.file \in Times /\ si.size \in Nat
    <3>1. \A si \in Records : si.file \in named BY <1>0 DEF NamesInv, FilesOf, Known, Records
    <3>2. Records \subseteq SegmentInfo /\ seg \in Segment BY <1>0 DEF TimeInv, Shapes
    <3> QED BY <1>0, <3>1, <3>2, ClosedRecord
            DEF NamesInv, DiskShapes, SegmentInfo, Segment
  <2>1. \A si \in Records \cup Closed : si.file \in reopened \/ Holds(disk, stray, si.file, si.size)
    BY <1>0, ClosedRecord DEF SizeInv
  <2>2. CASE Opens
    <3>0. PICK n \in 0 .. 1, e \in 0 .. 1 :
             /\ seg'.size = n
             /\ disk' = [disk EXCEPT ![cur.ts] = @ + (n + e)]
             /\ stray' = [stray EXCEPT ![cur.ts] = @ + e]
      BY <2>2 DEF Opens
    <3>1. \A t \in Times : t # cur.ts => disk'[t] = disk[t] /\ stray'[t] = stray[t]
      BY <1>0, <3>0 DEF DiskShapes
    <3>2. ASSUME NEW si \in Records' PROVE si.file \in reopened' \/ Holds(disk', stray', si.file, si.size)
      <4>1. si \in Records \cup Closed /\ si.file \in named /\ si.file \in Times BY <1>2, <2>0
      <4>2. CASE si.file = cur.ts BY <2>2, <4>1, <4>2 DEF Opens
      <4>3. CASE si.file # cur.ts
        <5>1. disk'[si.file] = disk[si.file] /\ stray'[si.file] = stray[si.file]
          BY <3>1, <4>1, <4>3
        <5>2. si.file \in reopened \/ Holds(disk, stray, si.file, si.size) BY <2>1, <4>1
        <5> QED BY <1>1, <5>1, <5>2 DEF Holds
      <4> QED BY <4>2, <4>3
    <3>3. cur.ts \in reopened' \/ Holds(disk', stray', cur.ts, seg'.size)
      <4>1. CASE cur.ts \in named BY <2>2, <4>1 DEF Opens
      <4>2. CASE cur.ts \notin named
        <5>1. cur.ts \in Times /\ disk[cur.ts] = 0 BY <1>0, <2>2, <4>2 DEF Opens, SizeInv
        <5>2. disk'[cur.ts] = n + e /\ stray'[cur.ts] = stray[cur.ts] + e
          BY <1>0, <3>0, <5>1 DEF DiskShapes
        <5>3. stray[cur.ts] \in Nat BY <2>0, <5>1
        <5> QED BY <3>0, <5>2, <5>3 DEF Holds
      <4> QED BY <4>1, <4>2
    <3>4. \A t \in Times \ named' : disk'[t] = 0
      <4>1. \A t \in Times \ named' : t # cur.ts /\ t \notin named BY <2>2 DEF Opens
      <4> QED BY <1>0, <3>1, <4>1 DEF SizeInv
    <3>5. seg'.file = cur.ts BY <2>2 DEF Opens
    <3> QED BY <3>2, <3>3, <3>4, <3>5 DEF SizeInv, Holds
  <2>3. CASE OpensNone /\ UNCHANGED <<disk, stray>>
    <3>1. segOpen' => seg'.file \in reopened' \/ Holds(disk', stray', seg'.file, seg'.size)
      <4> SUFFICES ASSUME segOpen', seg.file \notin reopened' PROVE Holds(disk', stray', seg'.file, seg'.size)
        BY <2>3 DEF OpensNone
      <4>1. segOpen /\ seg'.file = seg.file /\ reopened' = reopened /\ Grows
        BY <2>3 DEF OpensNone
      <4>2. PICK n \in 0 .. 1 : seg'.size = seg.size + n BY <4>1 DEF Grows
      <4>3. Holds(disk, stray, seg.file, seg.size) BY <1>0, <4>1 DEF SizeInv
      <4> QED BY <2>0, <2>3, <4>1, <4>2, <4>3 DEF Holds
    <3>2. \A si \in Records' : si.file \in reopened' \/ Holds(disk', stray', si.file, si.size)
      BY <1>1, <1>2, <2>1, <2>3 DEF Holds
    <3>3. \A t \in Times \ named' : disk'[t] = 0 BY <1>0, <2>3 DEF OpensNone, SizeInv
    <3> QED BY <3>1, <3>2, <3>3 DEF SizeInv, Holds
  <2>4. CASE OpensNone /\ ~UNCHANGED <<disk, stray>>
    <3>0. /\ segOpen /\ segOpen' /\ Records' = Records /\ seg'.file = seg.file
          /\ Grows /\ UNCHANGED <<named, reopened>>
      BY <2>4 DEF OpensNone, Records
    <3>1. PICK n \in 0 .. 1, e \in 0 .. 1 :
             /\ seg'.size = seg.size + n
             /\ disk' = [disk EXCEPT ![seg.file] = @ + (n + e)]
             /\ stray' = [stray EXCEPT ![seg.file] = @ + e]
      BY <2>4, <3>0 DEF Grows
    <3>2. \A t \in Times : t # seg.file => disk'[t] = disk[t] /\ stray'[t] = stray[t]
      BY <1>0, <3>1 DEF DiskShapes
    <3>3. disk'[seg.file] = disk[seg.file] + (n + e) /\ stray'[seg.file] = stray[seg.file] + e
      BY <1>0, <2>0, <3>0, <3>1 DEF DiskShapes
    <3>4. ASSUME NEW si \in Records PROVE si.file \in reopened \/ Holds(disk', stray', si.file, si.size)
      <4>1. CASE si.file = seg.file BY <1>0, <3>0, <4>1 DEF NamesInv, Known, FilesOf, Records
      <4>2. CASE si.file # seg.file
        <5>1. disk'[si.file] = disk[si.file] /\ stray'[si.file] = stray[si.file]
          BY <2>0, <3>2, <4>2
        <5> QED BY <2>1, <5>1 DEF Holds
      <4> QED BY <4>1, <4>2
    <3>5. seg.file \in reopened \/ Holds(disk', stray', seg.file, seg'.size)
      <4>1. seg.file \in reopened \/ Holds(disk, stray, seg.file, seg.size) BY <1>0, <3>0 DEF SizeInv
      <4> QED BY <2>0, <3>0, <3>1, <3>3, <4>1 DEF Holds
    <3>6. \A t \in Times \ named : disk'[t] = 0 BY <1>0, <3>0, <3>2 DEF SizeInv, NamesInv
    <3> QED BY <3>0, <3>4, <3>5, <3>6 DEF SizeInv, Holds
  <2> QED BY <2>2, <2>3, <2>4 DEF WriterStep
<1> QED BY <1>5, <1>6, <1>7, <1>8 DEF RecordsInv

LEMMA StartOpens ==
  ASSUME NEW w \in Outcomes, StartSegment(w), cur \in AccessUnit, serial \in Nat
  PROVE  Opens
<1> DEFINE new == NewSegment(cur)
<1>1. /\ new \in Segment /\ new.file = cur.ts /\ new.size = 0 /\ new.linked = TRUE
      /\ cur.ts \in Times
  BY DEF NewSegment, Segment, AccessUnit
<1>2. /\ WriteFrame(new, w) /\ segOpen' /\ files' = files \cup {cur.ts}
      /\ named' = named \cup {cur.ts} /\ reopened' = reopened \cup (named \cap {cur.ts})
  BY DEF StartSegment
<1> HIDE DEF new
<1>3. w.counted \in 0 .. 1 /\ w.left \in 0 .. 1 BY DEF Outcomes
<1>4. seg'.file = cur.ts /\ seg'.size = w.counted BY <1>1, <1>2, <1>3, FrameWritten
<1>5. /\ disk' = [disk EXCEPT ![cur.ts] = @ + (w.counted + w.left)]
      /\ stray' = [stray EXCEPT ![cur.ts] = @ + w.left]
  BY <1>1, <1>2 DEF WriteFrame, Grown
<1> QED BY <1>1, <1>2, <1>3, <1>4, <1>5 DEF Opens

(* What closing the segment leaves in the index, and what it costs. *)
LEMMA ClosedOnDisk ==
  ASSUME segOpen, NEW o \in CloseOutcomes, FinishSegment(o)
  PROVE  /\ index \subseteq index' /\ log \subseteq log'
         /\ index' \cup log' \subseteq index \cup log \cup Closed
         /\ InfoOf(seg) \in index' \/ seg.file \in OrphanedBy(o)
         /\ o = "unclosed" => index' = index /\ log' = log
         /\ CloseCost(o) \in {0, 1}
         /\ CloseCost(o) = 0 => (index = log /\ ~torn => index' = log' /\ ~torn')
<1>1. CASE o = "stored"
  <2>1. AppendRecord(InfoOf(seg)) BY <1>1 DEF FinishSegment, Leftovers
  <2> QED BY <1>1, <2>1 DEF AppendRecord, Closed, CloseCost
<1>2. CASE o \in Leftovers
  BY <1>2 DEF FinishSegment, AppendFails, Closed, CloseOutcomes, CloseCost, OrphanedBy, Leftovers
<1>3. CASE o = "unclosed"
  <2>1. UNCHANGED <<index, log, torn>> BY <1>3 DEF FinishSegment, Leftovers, indexVars
  <2> QED BY <1>3, <2>1 DEF CloseCost, OrphanedBy
<1>4. o \in {"stored", "unclosed"} \cup Leftovers BY DEF CloseOutcomes
<1> QED BY <1>1, <1>2, <1>3, <1>4

(* Frames arrive, wait and are handed over; nothing of the disk changes. *)
LEMMA QuietIsWriterStep ==
  ASSUME RecordsInv,
         UNCHANGED <<index, log, torn, rpc, victim, victims, stops, faults, files, disk, stray,
                     named, reopened, orphaned, segOpen, seg>>
  PROVE  WriterStep
<1>1. seg.size \in Nat BY DEF RecordsInv, TimeInv, Shapes, Segment
<1>2. OpensNone BY <1>1 DEF OpensNone, Grows
<1> QED BY <1>2 DEF WriterStep, RecordsInv, DiskShapes

LEMMA HandleIsWriterStep ==
  ASSUME RecordsInv, HandleAU, UNCHANGED <<rpc, victim, victims, stops>>
  PROVE  WriterStep
<1>0. /\ cur \in AccessUnit /\ seg \in Segment /\ serial \in Nat
      /\ faults \in Nat /\ stops \in Nat
  BY DEF RecordsInv, TimeInv, Shapes, DiskShapes
<1>1. CASE Discard
  <2>1. UNCHANGED <<index, log, torn, faults, files, disk, stray, named, reopened, orphaned, segOpen, seg>>
    BY <1>1 DEF Discard, indexVars
  <2> QED BY <2>1, QuietIsWriterStep
<1>2. CASE FirstOfSegment
  <2>1. ~segOpen /\ UNCHANGED <<index, log, torn>> BY <1>2 DEF FirstOfSegment, indexVars
  <2>2. ASSUME NEW w \in WriteOutcomes(NewSegment(cur)), StartSegment(w),
               Costs(WriteCost(NewSegment(cur), w)), UNCHANGED orphaned
        PROVE  WriterStep
    <3>0. w \in Outcomes /\ WriteCost(NewSegment(cur), w) \in {0, 1} BY OutcomesAre
    <3>1. Opens BY <1>0, <2>2, <3>0, StartOpens
    <3>2. faults' \in Nat /\ (faults' = 0 => faults = 0)
      BY <1>0, <2>2, <3>0 DEF Costs
    <3> QED BY <1>0, <2>1, <2>2, <3>1, <3>2 DEF WriterStep
  <2>3. ASSUME NEW made, files' = files \cup made, orphaned' = orphaned \cup made, Costs(1),
               UNCHANGED <<segOpen, seg, serial, disk, stray, named, reopened>>
        PROVE  WriterStep
    <3>1. OpensNone BY <2>1, <2>3 DEF OpensNone
    <3>2. faults' \in Nat /\ faults' # 0 BY <1>0, <2>3 DEF Costs
    <3> QED BY <1>0, <2>1, <2>3, <3>1, <3>2 DEF WriterStep
  <2> QED BY <1>2, <2>2, <2>3 DEF FirstOfSegment
<1>3. CASE Continue
  <2>0. PICK w \in WriteOutcomes(seg) : WriteFrame(seg, w) /\ Costs(WriteCost(seg, w))
    BY <1>3 DEF Continue
  <2>1. /\ w \in Outcomes /\ w.counted \in 0 .. 1 /\ w.left \in 0 .. 1
        /\ WriteCost(seg, w) \in {0, 1}
    BY OutcomesAre
  <2>2. /\ segOpen /\ segOpen' /\ UNCHANGED <<index, log, torn>>
        /\ UNCHANGED <<files, named, reopened, orphaned>>
    BY <1>3 DEF Continue, indexVars
  <2>3. /\ seg'.file = seg.file /\ seg'.size = seg.size + w.counted
        /\ \/ UNCHANGED <<disk, stray>>
           \/ /\ disk' = [disk EXCEPT ![seg.file] = @ + (w.counted + w.left)]
              /\ stray' = [stray EXCEPT ![seg.file] = @ + w.left]
    BY <1>0, <2>0, <2>1, FrameWritten DEF WriteFrame, Grown
  <2>4. OpensNone BY <2>1, <2>2, <2>3 DEF OpensNone, Grows
  <2>5. faults' \in Nat /\ (faults' = 0 => faults = 0) BY <1>0, <2>0, <2>1 DEF Costs
  <2> QED BY <1>0, <2>2, <2>3, <2>4, <2>5 DEF WriterStep
<1>4. CASE Roll
  <2>0. segOpen BY <1>4 DEF Roll
  <2>1. PICK o \in CloseOutcomes :
           /\ FinishSegment(o)
           /\ \/ \E w \in WriteOutcomes(NewSegment(cur)) :
                    /\ StartSegment(w)
                    /\ Costs(CloseCost(o) + WriteCost(NewSegment(cur), w))
                    /\ orphaned' = orphaned \cup OrphanedBy(o)
              \/ \E made \in {{}, {cur.ts} \ files} :
                    /\ files' = files \cup made
                    /\ orphaned' = orphaned \cup OrphanedBy(o) \cup made
                    /\ AfterClose(o)
                    /\ Costs(CloseCost(o) + 1)
                    /\ UNCHANGED <<serial, disk, stray, named, reopened>>
    BY <1>4 DEF Roll
  <2>2. /\ index \subseteq index' /\ log \subseteq log'
        /\ index' \cup log' \subseteq index \cup log \cup Closed
        /\ InfoOf(seg) \in index' \/ seg.file \in OrphanedBy(o)
        /\ o = "unclosed" => index' = index /\ log' = log
        /\ CloseCost(o) \in {0, 1}
        /\ CloseCost(o) = 0 => (index = log /\ ~torn => index' = log' /\ ~torn')
    BY <2>0, <2>1, ClosedOnDisk
  <2>3. ASSUME NEW w \in WriteOutcomes(NewSegment(cur)), StartSegment(w),
               Costs(CloseCost(o) + WriteCost(NewSegment(cur), w)),
               orphaned' = orphaned \cup OrphanedBy(o)
        PROVE  WriterStep
    <3>2. w \in Outcomes /\ WriteCost(NewSegment(cur), w) \in {0, 1} BY OutcomesAre
    <3>1. Opens BY <1>0, <2>3, <3>2, StartOpens
    <3>3. faults' \in Nat /\ (faults' = 0 => faults = 0 /\ CloseCost(o) = 0)
      BY <1>0, <2>2, <2>3, <3>2 DEF Costs
    <3> QED BY <1>0, <2>2, <2>3, <3>1, <3>3 DEF WriterStep
  <2>4. ASSUME NEW made, files' = files \cup made,
               orphaned' = orphaned \cup OrphanedBy(o) \cup made,
               AfterClose(o), Costs(CloseCost(o) + 1), UNCHANGED <<disk, stray, named, reopened>>
        PROVE  WriterStep
    <3>1. (o = "unclosed") \in BOOLEAN OBVIOUS
    <3>2. seg'.file = seg.file /\ seg'.size = seg.size
      BY <1>0, <2>4, <3>1 DEF AfterClose, Segment
    <3>3. segOpen' => o = "unclosed" BY <2>4, Zenon DEF AfterClose
    <3>4. OpensNone BY <1>0, <2>0, <2>2, <2>4, <3>2, <3>3 DEF OpensNone, Grows, Segment
    <3>5. faults' \in Nat /\ faults' # 0 BY <1>0, <2>2, <2>4 DEF Costs
    <3> QED BY <1>0, <2>2, <2>4, <3>4, <3>5 DEF WriterStep
  <2> QED BY <2>1, <2>3, <2>4
<1> QED BY <1>1, <1>2, <1>3, <1>4 DEF HandleAU

(* A pause and a shutdown close the segment, a crash loses it. *)
LEMMA EndIsWriterStep ==
  ASSUME RecordsInv, RecordCmd \/ Shutdown \/ Crash
  PROVE  WriterStep
<1>0. seg \in Segment /\ faults \in Nat /\ stops \in Nat
  BY DEF RecordsInv, TimeInv, Shapes, DiskShapes
<1>1. ASSUME segOpen, NEW o \in CloseOutcomes, FinishSegment(o), Costs(CloseCost(o)),
             orphaned' = orphaned \cup OrphanedBy(o),
             UNCHANGED <<files, disk, stray, named, reopened>>, stops' \in Nat,
             \/ UNCHANGED <<rpc, victim, victims, stops>>
             \/ rpc' = "idle" /\ victims' = {} /\ stops' # 0,
             ~segOpen' \/ AfterClose(o)
      PROVE  WriterStep
  <2>1. /\ index \subseteq index' /\ log \subseteq log'
        /\ index' \cup log' \subseteq index \cup log \cup Closed
        /\ InfoOf(seg) \in index' \/ seg.file \in OrphanedBy(o)
        /\ o = "unclosed" => index' = index /\ log' = log
        /\ CloseCost(o) \in {0, 1}
        /\ CloseCost(o) = 0 => (index = log /\ ~torn => index' = log' /\ ~torn')
    BY <1>1, ClosedOnDisk
  <2>2. (o = "unclosed") \in BOOLEAN OBVIOUS
  <2>3. segOpen' => o = "unclosed" /\ seg'.file = seg.file /\ seg'.size = seg.size
    <3>1. CASE ~segOpen' BY <3>1
    <3>2. CASE AfterClose(o)
      <4>1. segOpen' => o = "unclosed" BY <3>2, Zenon DEF AfterClose
      <4>2. seg'.file = seg.file /\ seg'.size = seg.size BY <1>0, <2>2, <3>2 DEF AfterClose, Segment
      <4> QED BY <4>1, <4>2
    <3> QED BY <1>1, <3>1, <3>2
  <2>4. OpensNone BY <1>0, <1>1, <2>1, <2>3 DEF OpensNone, Grows, Segment
  <2>5. faults' \in Nat /\ (faults' = 0 => faults = 0 /\ CloseCost(o) = 0)
    BY <1>0, <1>1, <2>1 DEF Costs
  <2> QED BY <1>1, <2>1, <2>4, <2>5 DEF WriterStep
<1>2. CASE RecordCmd
  <2>1. PICK p \in BOOLEAN : SetPaused(p) BY <1>2 DEF RecordCmd
  <2>2. UNCHANGED <<files, disk, stray, named, reopened, rpc, victim, victims, stops>>
    BY <1>2, <2>1 DEF RecordCmd, SetPaused, retentionVars
  <2>3. CASE p /\ segOpen BY <1>0, <1>1, <2>1, <2>2, <2>3 DEF SetPaused
  <2>4. CASE ~(p /\ segOpen)
    <3>1. UNCHANGED <<index, log, torn, segOpen, seg, orphaned, faults>>
      BY <2>1, <2>4 DEF SetPaused, indexVars
    <3> QED BY <2>2, <3>1, QuietIsWriterStep
  <2> QED BY <2>3, <2>4
<1>3. CASE Shutdown
  <2>1. /\ UNCHANGED <<seg, files, disk, stray, named, reopened>> /\ ~segOpen'
        /\ rpc' = "idle" /\ victims' = {} /\ stops' = stops + 1
    BY <1>3 DEF Shutdown, GoDown
  <2>2. stops' \in Nat /\ stops' # 0 BY <1>0, <2>1
  <2>3. CASE segOpen BY <1>1, <1>3, <2>1, <2>2, <2>3 DEF Shutdown
  <2>4. CASE ~segOpen
    <3>1. UNCHANGED <<index, log, torn, orphaned, faults>>
      BY <1>3, <2>4 DEF Shutdown, indexVars
    <3>2. OpensNone BY <2>1, <2>4, <3>1 DEF OpensNone
    <3> QED BY <1>0, <2>1, <2>2, <2>4, <3>1, <3>2 DEF WriterStep
  <2> QED BY <2>3, <2>4
<1>4. CASE Crash
  <2>1. /\ UNCHANGED <<seg, files, disk, stray, named, reopened, index, log>> /\ ~segOpen'
        /\ rpc' = "idle" /\ victims' = {} /\ stops' = stops + 1
        /\ orphaned' = IF segOpen THEN orphaned \cup {seg.file} ELSE orphaned
    BY <1>4 DEF Crash, GoDown
  <2>2. stops' \in Nat /\ stops' # 0 BY <1>0, <2>1
  <2>3. PICK tear \in BOOLEAN : torn' = (torn \/ tear) /\ Costs(IF tear THEN 1 ELSE 0)
    BY <1>4 DEF Crash
  <2>4. faults' \in Nat /\ (faults' = 0 => faults = 0 /\ ~tear) BY <1>0, <2>3 DEF Costs
  <2>5. OpensNone BY <2>1 DEF OpensNone
  <2> QED BY <2>1, <2>2, <2>3, <2>4, <2>5 DEF WriterStep
<1> QED BY <1>2, <1>3, <1>4

(* A retention step that chooses what to delete touches no record and no file. *)
LEMMA ChoosingKeeps ==
  ASSUME RecordsInv, TimeInv', StartEnforce \/ NextAged \/ NextOverLimit
  PROVE  RecordsInv'
<1>0. DiskShapes /\ NamesInv /\ MatchInv /\ SizeInv BY DEF RecordsInv
<1>1. UNCHANGED <<index, log, torn, faults, stops, files, disk, stray, named, reopened, orphaned,
                  segOpen, seg>>
  BY DEF StartEnforce, NextAged, NextOverLimit, indexVars, writerVars
<1>2. rpc # "unindex" /\ rpc' # "unindex" BY DEF StartEnforce, NextAged, NextOverLimit
<1>3. Known' \subseteq Known
  <2>1. CASE StartEnforce
    <3>1. victims' \subseteq index /\ rpc' = "loop" BY <2>1 DEF StartEnforce
    <3> QED BY <1>1, <3>1 DEF Known
  <2>2. CASE NextAged BY <1>1, <2>2 DEF NextAged, Oldest, Known
  <2>3. CASE NextOverLimit BY <1>1, <2>3 DEF NextOverLimit, Oldest, Known
  <2> QED BY <2>1, <2>2, <2>3
<1>4. NamesInv' BY <1>0, <1>1, <1>3 DEF NamesInv, FilesOf
<1>5. MatchInv' BY <1>0, <1>1, <1>2 DEF MatchInv, Untroubled, Indexed, Current
<1>6. SizeInv' /\ DiskShapes' BY <1>0, <1>1 DEF SizeInv, Holds, DiskShapes, Records
<1> QED BY <1>4, <1>5, <1>6 DEF RecordsInv

(* The file goes, or stays as an orphan; its record is still there. *)
LEMMA UnlinkKeeps == ASSUME RecordsInv, TimeInv', Unlink PROVE RecordsInv'
<1>0. DiskShapes /\ NamesInv /\ MatchInv /\ SizeInv BY DEF RecordsInv
<1>1. /\ UNCHANGED <<index, log, torn, stops, named, reopened, segOpen, victim, victims>>
      /\ rpc = "unlink" /\ rpc' = "unindex"
  BY DEF Unlink, indexVars
<1>2. seg'.file = seg.file /\ seg'.size = seg.size
  <2>1. seg \in Segment BY DEF RecordsInv, TimeInv, Shapes
  <2> QED BY <2>1 DEF Unlink, Segment
<1>3. /\ Known' = Known /\ victim \in Known /\ victim.file \in named
      /\ Records' = Records /\ Indexed' = Indexed /\ Current' = Current
      /\ victim.file \in Times
  BY <1>0, <1>1, <1>2 DEF Known, NamesInv, FilesOf, Records, Indexed, Current, DiskShapes
<1>4. NamesInv' BY <1>0, <1>1, <1>2, <1>3 DEF NamesInv, FilesOf
<1>5. CASE /\ files' = files \ {victim.file}
           /\ disk' = [disk EXCEPT ![victim.file] = 0]
           /\ stray' = [stray EXCEPT ![victim.file] = 0]
           /\ UNCHANGED <<faults, orphaned>>
  <2>1. MatchInv'
    <3>1. segOpen /\ seg.file = victim.file => seg.file \in reopened
      BY <1>0, <1>3 DEF NamesInv, FilesOf
    <3>2. Untroubled' = Untroubled BY <1>1, <1>5 DEF Untroubled
    <3>3. victim.file \notin files' BY <1>5
    <3>4. Untroubled' =>
            /\ segOpen => seg.file \in files' \cup reopened
            /\ Indexed \subseteq files' \cup reopened \cup {victim.file}
      BY <1>0, <1>1, <1>5, <3>1, <3>2 DEF MatchInv
    <3> QED BY <1>0, <1>1, <1>2, <1>3, <1>5, <3>3, <3>4 DEF MatchInv
  <2>2. /\ disk' \in [Times -> Nat] /\ stray' \in [Times -> Nat]
        /\ \A t \in Times : \/ disk'[t] = 0 /\ stray'[t] = 0
                            \/ disk'[t] = disk[t] /\ stray'[t] = stray[t]
    BY <1>0, <1>3, <1>5 DEF DiskShapes
  <2>3. /\ \A si \in Records : si.file \in Times /\ si.size \in Nat
        /\ segOpen => seg.file \in Times /\ seg.size \in Nat
    <3>1. Records \subseteq SegmentInfo /\ seg \in Segment BY DEF RecordsInv, TimeInv, Shapes
    <3> QED BY <3>1 DEF SegmentInfo, Segment
  <2>4. \A t \in Times, n \in Nat : Holds(disk, stray, t, n) => Holds(disk', stray', t, n) BY <2>2 DEF Holds
  <2>6. /\ \A si \in Records' : si.file \in reopened' \/ Holds(disk', stray', si.file, si.size)
        /\ segOpen' => seg'.file \in reopened' \/ Holds(disk', stray', seg'.file, seg'.size)
    BY <1>0, <1>1, <1>2, <1>3, <2>3, <2>4 DEF SizeInv, Holds
  <2>7. SizeInv' BY <1>0, <1>1, <2>2, <2>6 DEF SizeInv, Holds
  <2>5. DiskShapes' BY <1>0, <1>1, <1>3, <1>5, <2>2 DEF DiskShapes
  <2> QED BY <1>4, <2>1, <2>5, <2>7 DEF RecordsInv
<1>6. CASE /\ victim.file \in files /\ Costs(1)
           /\ orphaned' = orphaned \cup {victim.file}
           /\ UNCHANGED <<files, disk, stray, seg>>
  <2>1. faults' \in Nat /\ faults' # 0 BY <1>0, <1>6 DEF Costs, DiskShapes
  <2>2. MatchInv' BY <1>0, <1>1, <1>3, <1>6, <2>1 DEF MatchInv, Untroubled
  <2>3. SizeInv' /\ DiskShapes' BY <1>0, <1>1, <1>3, <1>6, <2>1 DEF SizeInv, Holds, DiskShapes
  <2> QED BY <1>4, <2>2, <2>3 DEF RecordsInv
<1> QED BY <1>5, <1>6 DEF Unlink

(* The records of a file that is gone, or orphaned, go. *)
LEMMA UnindexKeeps == ASSUME RecordsInv, TimeInv', Unindex PROVE RecordsInv'
<1>0. DiskShapes /\ NamesInv /\ MatchInv /\ SizeInv BY DEF RecordsInv
<1>1. /\ UNCHANGED <<stops, files, disk, stray, named, reopened, orphaned, segOpen, seg, victim, victims>>
      /\ rpc = "unindex" /\ rpc' = "loop"
  BY DEF Unindex
<1>2. PICK saved \in BOOLEAN : RemoveRecords(victim.file, saved) /\ Costs(IF saved THEN 0 ELSE 1)
  BY DEF Unindex
<1>3. /\ index' = {si \in index : si.file # victim.file}
      /\ log' = IF saved THEN index' ELSE log
      /\ torn' = (torn /\ ~saved)
  BY <1>2 DEF RemoveRecords
<1>4. faults' \in Nat /\ (faults' = 0 => faults = 0 /\ saved)
  BY <1>0, <1>2 DEF Costs, DiskShapes
<1>5. Records' \subseteq Records /\ Known' \subseteq Known
  BY <1>1, <1>3 DEF Records, Known
<1>6. NamesInv' BY <1>0, <1>1, <1>5 DEF NamesInv, FilesOf
<1>7. MatchInv'
  <2>1. Indexed' = Indexed \ {victim.file} BY <1>3 DEF Indexed
  <2>2. Untroubled' => Untroubled BY <1>1, <1>4 DEF Untroubled
  <2>3. faults' = 0 => index' = log' /\ ~torn' BY <1>3, <1>4
  <2>4. files' \subseteq Indexed' \cup Current' \cup orphaned' \cup reopened'
    BY <1>0, <1>1, <2>1 DEF MatchInv, Current
  <2> QED BY <1>0, <1>1, <2>1, <2>2, <2>3, <2>4 DEF MatchInv
<1>8. SizeInv' BY <1>0, <1>1, <1>5 DEF SizeInv, Holds
<1>9. DiskShapes' BY <1>0, <1>1, <1>4, <1>5, FS_Subset DEF DiskShapes
<1> QED BY <1>6, <1>7, <1>8, <1>9 DEF RecordsInv

(* A new process knows what the index file says. *)
LEMMA BootKeeps == ASSUME RecordsInv, TimeInv', Boot PROVE RecordsInv'
<1>0. DiskShapes /\ NamesInv /\ MatchInv /\ SizeInv BY DEF RecordsInv
<1>1. /\ UNCHANGED <<log, torn, faults, stops, files, disk, stray, named, reopened, segOpen, seg,
                     rpc, victim, victims>>
      /\ index' = log /\ orphaned' = orphaned \cup FilesOf(index \ log)
  BY DEF Boot, LoadIndex, retentionVars, FilesOf
<1>2. Records' \subseteq Records /\ Known' \subseteq Known BY <1>1 DEF Records, Known
<1>3. Indexed \subseteq Indexed' \cup orphaned' BY <1>1 DEF Indexed, FilesOf
<1>4. NamesInv' BY <1>0, <1>1, <1>2 DEF NamesInv, FilesOf
<1>5. MatchInv'
  <2>1. faults = 0 => index' = index BY <1>0, <1>1 DEF MatchInv
  <2>2. Untroubled' = Untroubled /\ (Untroubled => Indexed' = Indexed)
    BY <1>1, <2>1 DEF Untroubled, Indexed
  <2>3. files' \subseteq Indexed' \cup Current' \cup orphaned' \cup reopened'
    BY <1>0, <1>1, <1>3 DEF MatchInv, Current
  <2> QED BY <1>0, <1>1, <2>2, <2>3 DEF MatchInv
<1>6. SizeInv' BY <1>0, <1>1, <1>2 DEF SizeInv, Holds
<1>7. DiskShapes' BY <1>0, <1>1, <1>2, FS_Subset DEF DiskShapes
<1> QED BY <1>4, <1>5, <1>6, <1>7 DEF RecordsInv

LEMMA RecordsKept == RecordsInv /\ [Next]_vars => RecordsInv'
<1> SUFFICES ASSUME RecordsInv, [Next]_vars PROVE RecordsInv' OBVIOUS
<1>0. TimeInv' BY TimeKept DEF RecordsInv
<1>1. CASE Tick \/ Drain \/ UNCHANGED vars
  <2>1. UNCHANGED <<index, log, torn, rpc, victim, victims, stops, faults, files, disk, stray,
                    named, reopened, orphaned, segOpen, seg>>
    BY <1>1 DEF Tick, Drain, Push, vars, indexVars, writerVars, retentionVars
  <2> QED BY <1>0, <2>1, QuietIsWriterStep, WriterStepKeeps
<1>2. CASE RunLoop
  <2>1. UNCHANGED <<rpc, victim, victims, stops>> BY <1>2 DEF RunLoop, retentionVars
  <2>2. CASE Wake \/ Pop
    <3>1. UNCHANGED <<index, log, torn, faults, files, disk, stray, named, reopened, orphaned,
                      segOpen, seg>>
      BY <2>2 DEF Wake, Pop, indexVars
    <3> QED BY <1>0, <2>1, <3>1, QuietIsWriterStep, WriterStepKeeps
  <2>3. CASE HandleAU BY <1>0, <2>1, <2>3, HandleIsWriterStep, WriterStepKeeps
  <2> QED BY <1>2, <2>2, <2>3 DEF RunLoop
<1>3. CASE RecordCmd \/ Shutdown \/ Crash BY <1>0, <1>3, EndIsWriterStep, WriterStepKeeps
<1>4. CASE Retention BY <1>0, <1>4, ChoosingKeeps, UnlinkKeeps, UnindexKeeps DEF Retention
<1>5. CASE Boot BY <1>0, <1>5, BootKeeps
<1> QED BY <1>1, <1>2, <1>3, <1>4, <1>5 DEF Next

(* IndexMatchesFiles: without a failure a restart loads the index there was, no
   file on disk is without a record but those that a crash or a failed call left
   and those opened twice, and no record outlives its file (Index.Append, Remove and
   Load, index.go; Writer.closeSegmentLocked, writer.go; deleteSegment, retention.go). *)
THEOREM FilesIndexed == Spec => []IndexMatchesFiles
<1>1. RecordsInv => IndexMatchesFiles
  BY DEF RecordsInv, MatchInv, Untroubled, IndexMatchesFiles, IndexSurvivesRestart,
         NoForgottenFile, RecordsHaveFiles
<1> QED BY RecordsInit, RecordsKept, <1>1, PTL DEF Spec

-----------------------------------------------------------------------------
(* Keyframes in the queue. *)

LEMMA LeastNat ==
  ASSUME NEW T \in SUBSET Nat, T # {}
  PROVE  \E m \in T : \A k \in T : m <= k
<1>1. \E m \in T : \A k \in T : ~(k < m)
  <2>1. PICK m \in T : \A k \in T : ~(<<k, m>> \in OpToRel(<, Nat))
    BY NatLessThanWellFounded, WFMin
  <2>2. \A k \in T : ~(k < m) BY <2>1, Zenon DEF OpToRel
  <2> QED BY <2>2
<1> QED BY <1>1

KeyPlaces(q) == {i \in 1 .. Len(q) : q[i].key}

LEMMA FirstDeltaFound ==
  ASSUME NEW q \in Seq(AccessUnit), \E i \in 1 .. Len(q) : ~q[i].key
  PROVE  FirstDelta(q) \in 1 .. Len(q) /\ ~q[FirstDelta(q)].key
<1> DEFINE deltas == {i \in 1 .. Len(q) : ~q[i].key}
<1>1. deltas \in SUBSET Nat /\ deltas # {} OBVIOUS
<1> HIDE DEF deltas
<1>2. PICK m \in deltas : \A k \in deltas : m <= k BY <1>1, LeastNat
<1> QED BY <1>2 DEF deltas, FirstDelta

LEMMA KeyPlacesFinite ==
  ASSUME NEW q \in Seq(AccessUnit)
  PROVE  /\ IsFiniteSet(KeyPlaces(q)) /\ Cardinality(KeyPlaces(q)) \in Nat
         /\ Cardinality(1 .. Len(q)) = Len(q)
         /\ Cardinality(KeyPlaces(q)) = Len(q) => KeyPlaces(q) = 1 .. Len(q)
<1>0. Len(q) \in Nat /\ Len(q) \in Int /\ 1 \in Int OBVIOUS
<1>1. IsFiniteSet(1 .. Len(q)) /\ Cardinality(1 .. Len(q)) = Len(q)
  <2>1. /\ IsFiniteSet(1 .. Len(q))
        /\ Cardinality(1 .. Len(q)) = IF 1 > Len(q) THEN 0 ELSE Len(q) - 1 + 1
    BY <1>0, FS_Interval
  <2> QED BY <1>0, <2>1
<1>2. KeyPlaces(q) \in SUBSET (1 .. Len(q)) BY DEF KeyPlaces
<1> QED BY <1>1, <1>2, FS_Subset, FS_CardinalityType

(* The places of the keyframes of q move to places of keyframes of r. *)
LEMMA PlacesMoved ==
  ASSUME NEW q \in Seq(AccessUnit), NEW r \in Seq(AccessUnit),
         NEW f \in [KeyPlaces(q) -> KeyPlaces(r)],
         \A i, j \in KeyPlaces(q) : f[i] = f[j] => i = j
  PROVE  Cardinality(KeyPlaces(q)) <= Cardinality(KeyPlaces(r))
<1>1. f \in Injection(KeyPlaces(q), KeyPlaces(r)) BY DEF Injection, IsInjective
<1> QED BY <1>1, FS_Injection, KeyPlacesFinite

LEMMA RoomKeepsKeyframes ==
  ASSUME NEW q \in Seq(AccessUnit), Cardinality(KeyPlaces(q)) < Len(q)
  PROVE  Cardinality(KeyPlaces(MakeRoom(q))) >= Cardinality(KeyPlaces(q))
<1>1. CASE Len(q) < QueueCapacity
  <2>1. MakeRoom(q) = q BY <1>1 DEF MakeRoom
  <2> QED BY <2>1, KeyPlacesFinite
<1>2. CASE ~(Len(q) < QueueCapacity)
  <2> DEFINE d == FirstDelta(q)
  <2>0. Cardinality(KeyPlaces(q)) \in Nat /\ Len(q) \in Nat BY KeyPlacesFinite
  <2>1. \E i \in 1 .. Len(q) : ~q[i].key
    <3>1. KeyPlaces(q) # 1 .. Len(q) BY <2>0, KeyPlacesFinite
    <3> QED BY <3>1 DEF KeyPlaces
  <2>2. d \in 1 .. Len(q) /\ ~q[d].key BY <2>1, FirstDeltaFound
  <2>3. MakeRoom(q) = [j \in 1 .. Len(q) - 1 |-> IF j < d THEN q[j] ELSE q[j + 1]]
    BY <1>2, <2>1 DEF MakeRoom, Without
  <2> DEFINE r == MakeRoom(q)
  <2> HIDE DEF d
  <2>4. r \in Seq(AccessUnit) /\ Len(r) = Len(q) - 1
        /\ \A j \in 1 .. Len(q) - 1 : r[j] = IF j < d THEN q[j] ELSE q[j + 1]
    BY <2>0, <2>2, <2>3
  <2> HIDE DEF r
  <2> DEFINE f == [i \in KeyPlaces(q) |-> IF i < d THEN i ELSE i - 1]
  <2>5. \A i \in KeyPlaces(q) : i \in 1 .. Len(q) /\ i # d /\ q[i].key
    BY <2>2 DEF KeyPlaces
  <2>6. ASSUME NEW i \in KeyPlaces(q) PROVE f[i] \in KeyPlaces(r)
    <3>1. CASE i < d
      <4>1. i \in 1 .. Len(q) - 1 BY <2>0, <2>2, <2>5, <3>1
      <4> QED BY <2>4, <2>5, <3>1, <4>1 DEF KeyPlaces
    <3>2. CASE ~(i < d)
      <4>1. i - 1 \in 1 .. Len(q) - 1 /\ ~(i - 1 < d) /\ (i - 1) + 1 = i
        BY <2>0, <2>2, <2>5, <3>2
      <4>2. r[i - 1] = q[i] BY <2>4, <4>1
      <4> QED BY <2>4, <2>5, <3>2, <4>1, <4>2 DEF KeyPlaces
    <3> QED BY <3>1, <3>2
  <2>7. \A i, j \in KeyPlaces(q) : f[i] = f[j] => i = j BY <2>2, <2>5
  <2>8. f \in [KeyPlaces(q) -> KeyPlaces(r)] BY <2>6
  <2> HIDE DEF f
  <2>9. Cardinality(KeyPlaces(q)) <= Cardinality(KeyPlaces(r)) BY <2>4, <2>7, <2>8, PlacesMoved
  <2>10. Cardinality(KeyPlaces(r)) \in Nat BY <2>4, KeyPlacesFinite
  <2> QED BY <2>0, <2>9, <2>10 DEF r
<1> QED BY <1>1, <1>2

LEMMA AppendKeepsKeyframes ==
  ASSUME NEW q \in Seq(AccessUnit), NEW au \in AccessUnit
  PROVE  Cardinality(KeyPlaces(Append(q, au))) >= Cardinality(KeyPlaces(q))
<1> DEFINE r == Append(q, au)
<1>1. r \in Seq(AccessUnit) /\ Len(r) = Len(q) + 1 /\ \A i \in 1 .. Len(q) : r[i] = q[i]
  OBVIOUS
<1> HIDE DEF r
<1>2. KeyPlaces(q) \in SUBSET KeyPlaces(r) BY <1>1 DEF KeyPlaces
<1>3. Cardinality(KeyPlaces(q)) <= Cardinality(KeyPlaces(r))
  BY <1>1, <1>2, KeyPlacesFinite, FS_Subset
<1>4. Cardinality(KeyPlaces(q)) \in Nat /\ Cardinality(KeyPlaces(r)) \in Nat
  BY <1>1, KeyPlacesFinite
<1> QED BY <1>3, <1>4 DEF r

(* KeyframesOutlastDeltas: a frame that arrives at a full queue costs it a keyframe
   only when the queue holds nothing else (Writer.push, writer.go). *)
THEOREM KeyframesKept == Spec => KeyframesOutlastDeltas
<1>1. TimeInv /\ [Next]_vars =>
        [frames' # frames /\ Keys(queue) < Len(queue) => Keys(queue') >= Keys(queue)]_vars
  <2> SUFFICES ASSUME TimeInv, [Next]_vars, frames' # frames, Keys(queue) < Len(queue)
               PROVE  Keys(queue') >= Keys(queue)
    OBVIOUS
  <2>1. Drain
    <3>1. CASE RunLoop BY <3>1 DEF RunLoop, Wake, Pop, HandleAU, Discard, FirstOfSegment,
                                   Continue, Roll
    <3>2. CASE RecordCmd BY <3>2 DEF RecordCmd, SetPaused
    <3>3. CASE Retention
      BY <3>3 DEF Retention, StartEnforce, NextAged, NextOverLimit, Unlink, Unindex, writerVars
    <3>4. CASE Shutdown \/ Crash BY <3>4 DEF Shutdown, Crash, GoDown
    <3>5. CASE Tick \/ Boot \/ UNCHANGED vars BY <3>5 DEF Tick, Boot, vars, writerVars
    <3> QED BY <3>1, <3>2, <3>3, <3>4, <3>5 DEF Next
  <2>2. PICK key \in BOOLEAN : queue' = Append(MakeRoom(queue), [ts |-> clock, key |-> key])
    BY <2>1 DEF Drain, Push
  <2> DEFINE au == [ts |-> clock, key |-> key]
             r == MakeRoom(queue)
  <2>3. queue \in Seq(AccessUnit) /\ au \in AccessUnit BY DEF TimeInv, Shapes, AccessUnit
  <2>4. r \in Seq(AccessUnit) BY <2>3, RoomMade
  <2>5. \A q : Keys(q) = Cardinality(KeyPlaces(q)) BY DEF Keys, KeyPlaces
  <2>6. Cardinality(KeyPlaces(r)) >= Cardinality(KeyPlaces(queue))
    BY <2>3, <2>5, RoomKeepsKeyframes
  <2> HIDE DEF au, r
  <2>7. queue' = Append(r, au) BY <2>2 DEF au, r
  <2>8. Cardinality(KeyPlaces(Append(r, au))) >= Cardinality(KeyPlaces(r))
    BY <2>3, <2>4, AppendKeepsKeyframes
  <2>9. Append(r, au) \in Seq(AccessUnit) BY <2>3, <2>4
  <2>10. /\ Cardinality(KeyPlaces(r)) \in Nat /\ Cardinality(KeyPlaces(queue)) \in Nat
         /\ Cardinality(KeyPlaces(Append(r, au))) \in Nat
    BY <2>3, <2>4, <2>9, KeyPlacesFinite
  <2>11. Cardinality(KeyPlaces(Append(r, au))) >= Cardinality(KeyPlaces(queue))
    BY <2>6, <2>8, <2>10
  <2>12. Keys(queue') = Cardinality(KeyPlaces(Append(r, au))) BY <2>5, <2>7
  <2> QED BY <2>5, <2>11, <2>12
<1> QED BY TimeInit, TimeKept, <1>1, PTL DEF Spec, KeyframesOutlastDeltas

-----------------------------------------------------------------------------
(* Sums over sets, as FiniteSetsExt computes them: one element after another,
   in an order that nobody knows. *)

One(s) == CHOOSE x \in s : TRUE

Sums(h, g, S) ==
    [s \in SUBSET S |-> IF s = {} THEN 0 ELSE g[One(s)] + h[s \ {One(s)}]]

LEMMA OneOf == ASSUME NEW s, s # {} PROVE One(s) \in s
BY DEF One

(* h adds up g over the subsets of S. *)
AddsUp(h, g, S) == h = Sums(h, g, S)

LEMMA AddedUp ==
  ASSUME NEW S, NEW g, NEW h, AddsUp(h, g, S), NEW s \in SUBSET S
  PROVE  /\ s = {} => h[s] = 0
         /\ s # {} => One(s) \in s /\ h[s] = g[One(s)] + h[s \ {One(s)}]
<1>1. h[s] = Sums(h, g, S)[s] BY DEF AddsUp
<1>2. h[s] = IF s = {} THEN 0 ELSE g[One(s)] + h[s \ {One(s)}] BY <1>1 DEF Sums
<1> QED BY <1>2, OneOf

LEMMA SmallerSubset ==
  ASSUME NEW S, IsFiniteSet(S), NEW s \in SUBSET S, NEW x \in s
  PROVE  /\ s \ {x} \in SUBSET S
         /\ Cardinality(s) \in Nat /\ Cardinality(s \ {x}) \in Nat
         /\ Cardinality(s \ {x}) + 1 = Cardinality(s)
<1>1. IsFiniteSet(s) /\ IsFiniteSet(s \ {x}) BY FS_Subset, FS_RemoveElement
<1>2. Cardinality(s) \in Nat /\ Cardinality(s \ {x}) \in Nat BY <1>1, FS_CardinalityType
<1>3. Cardinality(s \ {x}) = Cardinality(s) - 1 BY <1>1, FS_RemoveElement
<1> QED BY <1>2, <1>3

LEMMA CardOfSubset ==
  ASSUME NEW S, IsFiniteSet(S), NEW s \in SUBSET S
  PROVE  Cardinality(s) \in Nat /\ (Cardinality(s) = 0 <=> s = {})
BY FS_Subset, FS_CardinalityType, FS_EmptySet

(* Among the subsets of S that are not as they should be, a smallest one. *)
LEMMA SmallestSubset ==
  ASSUME NEW S, IsFiniteSet(S), NEW Bad \in SUBSET (SUBSET S), Bad # {}
  PROVE  \E s \in Bad : \A t \in SUBSET S : Cardinality(t) < Cardinality(s) => t \notin Bad
<1> DEFINE sizes == {Cardinality(s) : s \in Bad}
<1>1. sizes \in SUBSET Nat /\ sizes # {} BY CardOfSubset
<1>2. PICK m \in sizes : \A k \in sizes : m <= k
  <2> HIDE DEF sizes
  <2> QED BY <1>1, LeastNat
<1>3. PICK s \in Bad : Cardinality(s) = m BY <1>2
<1>4. ASSUME NEW t \in SUBSET S, Cardinality(t) < Cardinality(s) PROVE t \notin Bad
  <2>1. Cardinality(t) \in Nat /\ Cardinality(s) \in Nat BY CardOfSubset
  <2>2. t \in Bad => Cardinality(s) <= Cardinality(t) BY <1>2, <1>3
  <2> QED BY <1>4, <2>1, <2>2
<1> QED BY <1>4

LEMMA SumNat ==
  ASSUME NEW S, IsFiniteSet(S), NEW g, \A x \in S : g[x] \in Nat, NEW h, AddsUp(h, g, S)
  PROVE  \A s \in SUBSET S : h[s] \in Nat
<1> DEFINE Bad == {s \in SUBSET S : h[s] \notin Nat}
<1> SUFFICES ASSUME Bad # {} PROVE FALSE OBVIOUS
<1>0. Bad \in SUBSET (SUBSET S) OBVIOUS
<1>1. PICK s \in Bad : \A t \in SUBSET S : Cardinality(t) < Cardinality(s) => t \notin Bad
  <2> HIDE DEF Bad
  <2> QED BY <1>0, SmallestSubset
<1>2. s # {} /\ One(s) \in s /\ h[s] = g[One(s)] + h[s \ {One(s)}]
  <2>1. s \in SUBSET S /\ h[s] \notin Nat BY <1>1
  <2> QED BY <2>1, AddedUp
<1>3. s \ {One(s)} \in SUBSET S /\ Cardinality(s \ {One(s)}) < Cardinality(s)
  BY <1>2, SmallerSubset
<1>4. h[s \ {One(s)}] \in Nat /\ g[One(s)] \in Nat BY <1>1, <1>2, <1>3
<1> QED BY <1>2, <1>4

(* Any element may be the one that is added last. *)
LEMMA AnyOne ==
  ASSUME NEW S, IsFiniteSet(S), NEW g, \A x \in S : g[x] \in Nat, NEW h, AddsUp(h, g, S)
  PROVE  \A s \in SUBSET S : \A x \in s : h[s] = g[x] + h[s \ {x}]
<1> DEFINE Bad == {s \in SUBSET S : \E x \in s : h[s] # g[x] + h[s \ {x}]}
<1> SUFFICES ASSUME Bad # {} PROVE FALSE OBVIOUS
<1>0. Bad \in SUBSET (SUBSET S) OBVIOUS
<1>1. PICK s \in Bad : \A t \in SUBSET S : Cardinality(t) < Cardinality(s) => t \notin Bad
  <2> HIDE DEF Bad
  <2> QED BY <1>0, SmallestSubset
<1>2. PICK x \in s : h[s] # g[x] + h[s \ {x}] BY <1>1
<1> DEFINE c == One(s)
           both == (s \ {x}) \ {c}
<1>3. c \in s /\ h[s] = g[c] + h[s \ {c}] BY AddedUp
<1> HIDE DEF c
<1>4. x # c BY <1>2, <1>3
<1>5. /\ s \ {c} \in SUBSET S /\ Cardinality(s \ {c}) < Cardinality(s)
      /\ s \ {x} \in SUBSET S /\ Cardinality(s \ {x}) < Cardinality(s)
  BY <1>3, SmallerSubset
<1>6. (s \ {c}) \ {x} = both OBVIOUS
<1>7. h[s \ {c}] = g[x] + h[both]
  <2>1. s \ {c} \notin Bad /\ x \in s \ {c} BY <1>1, <1>2, <1>4, <1>5
  <2>2. \A y \in s \ {c} : h[s \ {c}] = g[y] + h[(s \ {c}) \ {y}] BY <1>5, <2>1
  <2> QED BY <1>6, <2>1, <2>2
<1>8. h[s \ {x}] = g[c] + h[both]
  <2>1. s \ {x} \notin Bad /\ c \in s \ {x} BY <1>1, <1>3, <1>4, <1>5
  <2>2. \A y \in s \ {x} : h[s \ {x}] = g[y] + h[(s \ {x}) \ {y}] BY <1>5, <2>1
  <2> QED BY <2>1, <2>2
<1>9. g[x] \in Nat /\ g[c] \in Nat /\ h[both] \in Nat BY <1>3, SumNat
<1> QED BY <1>2, <1>3, <1>7, <1>8, <1>9

(* A sum over S is at most one over T, when each element of S has one of its own
   in T that counts as much. *)
LEMMA SumsCompared ==
  ASSUME NEW S, IsFiniteSet(S), NEW g, \A x \in S : g[x] \in Nat, NEW h, AddsUp(h, g, S),
         NEW T, IsFiniteSet(T), NEW w, \A y \in T : w[y] \in Nat, NEW k, AddsUp(k, w, T),
         NEW f \in [S -> T], \A x, y \in S : f[x] = f[y] => x = y,
         \A x \in S : g[x] <= w[f[x]]
  PROVE  h[S] <= k[T]
<1> DEFINE image(s) == {f[x] : x \in s}
           Bad == {s \in SUBSET S : \E t \in SUBSET T : image(s) \subseteq t /\ ~(h[s] <= k[t])}
<1>0. S \notin Bad => h[S] <= k[T] OBVIOUS
<1> SUFFICES ASSUME Bad # {} PROVE FALSE BY <1>0
<1>1. PICK s \in Bad : \A t \in SUBSET S : Cardinality(t) < Cardinality(s) => t \notin Bad
  <2>1. Bad \in SUBSET (SUBSET S) OBVIOUS
  <2> HIDE DEF Bad
  <2> QED BY <2>1, SmallestSubset
<1>2. PICK t \in SUBSET T : image(s) \subseteq t /\ ~(h[s] <= k[t]) BY <1>1
<1>3. k[t] \in Nat BY SumNat
<1>4. s # {} /\ One(s) \in s /\ h[s] = g[One(s)] + h[s \ {One(s)}] BY <1>2, <1>3, AddedUp
<1> DEFINE c == One(s)
<1> HIDE DEF c
<1>5. c \in s /\ c \in S /\ h[s] = g[c] + h[s \ {c}] BY <1>4 DEF c
<1>6. s \ {c} \in SUBSET S /\ Cardinality(s \ {c}) < Cardinality(s) BY <1>5, SmallerSubset
<1>7. f[c] \in t /\ k[t] = w[f[c]] + k[t \ {f[c]}] BY <1>2, <1>5, AnyOne
<1>8. image(s \ {c}) \subseteq t \ {f[c]} BY <1>2, <1>5
<1>9. h[s \ {c}] <= k[t \ {f[c]}] BY <1>1, <1>6, <1>8
<1>10. /\ g[c] \in Nat /\ w[f[c]] \in Nat /\ g[c] <= w[f[c]]
       /\ h[s \ {c}] \in Nat /\ k[t \ {f[c]}] \in Nat
  BY <1>5, <1>6, SumNat
<1> QED BY <1>2, <1>5, <1>7, <1>9, <1>10

(* A sum of at most the sum of two is at most the two sums. *)
LEMMA SumsSplit ==
  ASSUME NEW S, IsFiniteSet(S),
         NEW g, \A x \in S : g[x] \in Nat, NEW h, AddsUp(h, g, S),
         NEW u, \A x \in S : u[x] \in Nat, NEW k, AddsUp(k, u, S),
         NEW v, \A x \in S : v[x] \in Nat, NEW m, AddsUp(m, v, S),
         \A x \in S : g[x] <= u[x] + v[x]
  PROVE  h[S] <= k[S] + m[S]
<1> DEFINE Bad == {s \in SUBSET S : ~(h[s] <= k[s] + m[s])}
<1>0. S \notin Bad => h[S] <= k[S] + m[S] OBVIOUS
<1> SUFFICES ASSUME Bad # {} PROVE FALSE BY <1>0
<1>1. PICK s \in Bad : \A t \in SUBSET S : Cardinality(t) < Cardinality(s) => t \notin Bad
  <2>1. Bad \in SUBSET (SUBSET S) OBVIOUS
  <2> HIDE DEF Bad
  <2> QED BY <2>1, SmallestSubset
<1>2. s \in SUBSET S /\ ~(h[s] <= k[s] + m[s]) BY <1>1
<1>3. s # {}
  <2>1. s = {} => h[s] = 0 /\ k[s] = 0 /\ m[s] = 0 BY <1>2, AddedUp
  <2> QED BY <1>2, <2>1
<1> DEFINE c == One(s)
           rest == s \ {c}
<1>4. c \in s /\ h[s] = g[c] + h[rest] /\ k[s] = u[c] + k[rest] /\ m[s] = v[c] + m[rest]
  <2> HIDE DEF Bad
  <2>1. One(s) \in s /\ h[s] = g[One(s)] + h[s \ {One(s)}] BY ONLY <1>2, <1>3, AddsUp(h, g, S), AddedUp
  <2>2. k[s] = u[One(s)] + k[s \ {One(s)}] BY ONLY <1>2, <1>3, AddsUp(k, u, S), AddedUp
  <2>3. m[s] = v[One(s)] + m[s \ {One(s)}] BY ONLY <1>2, <1>3, AddsUp(m, v, S), AddedUp
  <2> QED BY <2>1, <2>2, <2>3
<1> HIDE DEF c
<1>5. rest \in SUBSET S /\ Cardinality(rest) < Cardinality(s) BY <1>2, <1>4, SmallerSubset
<1>6. h[rest] \in Nat /\ k[rest] \in Nat /\ m[rest] \in Nat BY <1>5, SumNat
<1>7. h[rest] <= k[rest] + m[rest] BY <1>1, <1>5
<1>8. g[c] \in Nat /\ u[c] \in Nat /\ v[c] \in Nat /\ g[c] <= u[c] + v[c] BY <1>2, <1>4
<1> HIDE DEF rest, Bad
<1> QED BY <1>2, <1>4, <1>6, <1>7, <1>8

(* There is such a sum. *)
LEMMA SumExists ==
  ASSUME NEW S, IsFiniteSet(S), NEW g
  PROVE  \E h : AddsUp(h, g, S)
<1> DEFINE Good(n) == \E h : \A s \in SUBSET S : Cardinality(s) <= n => h[s] = Sums(h, g, S)[s]
           Bad == {n \in Nat : ~Good(n)}
<1>1. Good(0)
  <2> DEFINE zero == [s \in SUBSET S |-> 0]
  <2>1. ASSUME NEW s \in SUBSET S, Cardinality(s) <= 0 PROVE zero[s] = Sums(zero, g, S)[s]
    <3>1. s = {} BY <2>1, CardOfSubset
    <3> QED BY <3>1 DEF Sums
  <2> HIDE DEF zero
  <2> QED BY <2>1
<1>2. ASSUME NEW n \in Nat, Good(n) PROVE Good(n + 1)
  <2>1. PICK h : \A s \in SUBSET S : Cardinality(s) <= n => h[s] = Sums(h, g, S)[s] BY <1>2
  <2> DEFINE more == Sums(h, g, S)
  <2>2. ASSUME NEW s \in SUBSET S, Cardinality(s) <= n + 1 PROVE more[s] = Sums(more, g, S)[s]
    <3>1. CASE s = {} BY <3>1 DEF Sums
    <3>2. CASE s # {}
      <4> DEFINE rest == s \ {One(s)}
      <4>1. rest \in SUBSET S /\ Cardinality(rest) <= n
        BY <2>2, <3>2, OneOf, SmallerSubset
      <4>2. more[rest] = h[rest] BY <2>1, <4>1
      <4>3. more[s] = g[One(s)] + h[rest] BY <3>2 DEF Sums
      <4> HIDE DEF more
      <4>4. Sums(more, g, S)[s] = g[One(s)] + more[rest] BY <3>2 DEF Sums
      <4> QED BY <4>2, <4>3, <4>4
    <3> QED BY <3>1, <3>2
  <2> HIDE DEF more
  <2> QED BY <2>2
<1> HIDE DEF Good
<1>3. Bad = {}
  <2> SUFFICES ASSUME Bad # {} PROVE FALSE OBVIOUS
  <2>1. Bad \in SUBSET Nat OBVIOUS
  <2>2. PICK m \in Bad : \A n \in Bad : m <= n
    <3> HIDE DEF Bad
    <3> QED BY <2>1, LeastNat
  <2>3. m # 0 /\ m - 1 \in Nat /\ (m - 1) + 1 = m /\ m - 1 \notin Bad BY <1>1, <2>2
  <2>4. Good(m - 1) BY <2>3
  <2>5. Good((m - 1) + 1) BY <1>2, <2>3, <2>4
  <2> QED BY <2>2, <2>3, <2>5
<1>4. Cardinality(S) \in Nat BY FS_CardinalityType
<1>5. PICK h : \A s \in SUBSET S : Cardinality(s) <= Cardinality(S) => h[s] = Sums(h, g, S)[s]
  BY <1>3, <1>4 DEF Good
<1>6. \A s \in SUBSET S : h[s] = Sums(h, g, S)[s] BY <1>5, FS_Subset
<1> DEFINE all == [s \in SUBSET S |-> h[s]]
<1>7. all = Sums(h, g, S) BY <1>6 DEF Sums
<1>8. Sums(all, g, S) = Sums(h, g, S)
  <2>1. ASSUME NEW s \in SUBSET S, s # {} PROVE all[s \ {One(s)}] = h[s \ {One(s)}] OBVIOUS
  <2> HIDE DEF all
  <2> QED BY <2>1 DEF Sums
<1> QED BY <1>7, <1>8 DEF AddsUp

(* What the files hold, what of it is uncounted, and what the records count are
   such sums. *)
LEMMA UsageAddsUp ==
  ASSUME NEW F, IsFiniteSet(F)
  PROVE  \E h : AddsUp(h, disk, F) /\ Usage(F) = h[F]
<1> DEFINE h == CHOOSE h : AddsUp(h, disk, F)
<1>1. AddsUp(h, disk, F) BY SumExists
<1>2. Usage(F) = h[F]
  BY Zenon DEF Usage, AddsUp, Sums, One, MapThenSumSet, MapThenFoldSet
<1> HIDE DEF h
<1> QED BY <1>1, <1>2

LEMMA UncountedAddsUp ==
  ASSUME NEW F, IsFiniteSet(F)
  PROVE  \E h : AddsUp(h, stray, F) /\ Uncounted(F) = h[F]
<1> DEFINE h == CHOOSE h : AddsUp(h, stray, F)
<1>1. AddsUp(h, stray, F) BY SumExists
<1>2. Uncounted(F) = h[F]
  BY Zenon DEF Uncounted, AddsUp, Sums, One, MapThenSumSet, MapThenFoldSet
<1> HIDE DEF h
<1> QED BY <1>1, <1>2

Sizes == [si \in index |-> si.size]

LEMMA TotalAddsUp ==
  ASSUME IsFiniteSet(index)
  PROVE  \E h : AddsUp(h, Sizes, index) /\ TotalSize = h[index]
<1> DEFINE Counted(h) ==
             [s \in SUBSET index |-> IF s = {} THEN 0 ELSE (One(s)).size + h[s \ {One(s)}]]
           total == CHOOSE h : h = Counted(h)
<1>1. TotalSize = total[index]
  BY Zenon DEF TotalSize, One, MapThenSumSet, MapThenFoldSet
<1>2. \A h : Counted(h) = Sums(h, Sizes, index)
  <2>1. ASSUME NEW s \in SUBSET index, s # {} PROVE Sizes[One(s)] = (One(s)).size
    <3>1. One(s) \in index BY <2>1, OneOf
    <3> QED BY <3>1 DEF Sizes
  <2> QED BY <2>1 DEF Sums
<1>3. \E h : h = Counted(h) BY <1>2, SumExists DEF AddsUp
<1> HIDE DEF Counted
<1>4. total = Counted(total) BY <1>3
<1> HIDE DEF total
<1> QED BY <1>1, <1>2, <1>4 DEF AddsUp

(* IndexedStorageBounded: when a retention pass finds nothing left to prune, the files
   that are neither open nor orphaned, nor shared by two segments, fit the limit but
   for what failing writes left in them: the records count every NALU that was written
   in full (enforceCapacity, retention.go; Index.TotalSize, index.go; Writer.handleAU
   and closeSegmentLocked, writer.go). *)
THEOREM StorageBounded == Spec => []IndexedStorageBounded
<1>1. RecordsInv => IndexedStorageBounded
  <2> DEFINE F == files \ (Current \cup orphaned \cup reopened)
             record(f) == CHOOSE si \in index : si.file = f
             of == [f \in F |-> record(f)]
             recorded == [f \in F |-> Sizes[of[f]]]
  <2> SUFFICES ASSUME RecordsInv, PruneDone PROVE Usage(F) <= MaxStorage + Uncounted(F)
    BY DEF IndexedStorageBounded
  <2>0. /\ IsFiniteSet(index) /\ disk \in [Times -> Nat] /\ stray \in [Times -> Nat]
        /\ \A si \in index : si.file \in Times /\ si.size \in Nat
        /\ \A si \in index : si.file \in reopened \/ Holds(disk, stray, si.file, si.size)
    <3>1. index \in SUBSET Records BY DEF Records
    <3>2. IsFiniteSet(Records) /\ Records \subseteq SegmentInfo
      BY DEF RecordsInv, DiskShapes, TimeInv, Shapes
    <3>3. IsFiniteSet(index) BY <3>1, <3>2, FS_Subset
    <3> QED BY <3>1, <3>2, <3>3 DEF RecordsInv, DiskShapes, SizeInv, SegmentInfo
  <2>1. ASSUME NEW f \in F
        PROVE  /\ of[f] \in index /\ (of[f]).file = f
               /\ disk[f] \in Nat /\ stray[f] \in Nat /\ Sizes[of[f]] \in Nat
               /\ disk[f] <= Sizes[of[f]] + stray[f]
    <3>1. f \in Indexed /\ f \notin reopened BY DEF RecordsInv, MatchInv
    <3>2. record(f) \in index /\ (record(f)).file = f BY <3>1 DEF Indexed
    <3>3. of[f] = record(f) OBVIOUS
    <3> HIDE DEF record
    <3> QED BY <2>0, <3>1, <3>2, <3>3 DEF Sizes, Holds
  <2>2. of \in [F -> index] /\ \A f, g \in F : of[f] = of[g] => f = g BY <2>1
  <2> HIDE DEF of
  <2>3. of \in Injection(F, index) BY <2>2 DEF Injection, IsInjective
  <2>4. IsFiniteSet(F) BY <2>0, <2>3, FS_Injection
  <2>5. PICK h : AddsUp(h, disk, F) /\ Usage(F) = h[F] BY <2>4, UsageAddsUp
  <2>6. PICK k : AddsUp(k, Sizes, index) /\ TotalSize = k[index] BY <2>0, TotalAddsUp
  <2>7. PICK m : AddsUp(m, stray, F) /\ Uncounted(F) = m[F] BY <2>4, UncountedAddsUp
  <2>8. PICK r : AddsUp(r, recorded, F) BY <2>4, SumExists
  <2>9. /\ \A f \in F : disk[f] \in Nat /\ stray[f] \in Nat /\ recorded[f] \in Nat
        /\ \A f \in F : disk[f] <= recorded[f] + stray[f]
        /\ \A f \in F : recorded[f] <= Sizes[of[f]]
    BY <2>1
  <2>10. \A si \in index : Sizes[si] \in Nat BY <2>0 DEF Sizes
  <2> HIDE DEF F, recorded
  <2>11. h[F] <= r[F] + m[F] BY <2>4, <2>5, <2>7, <2>8, <2>9, SumsSplit
  <2>12. r[F] <= k[index] BY <2>0, <2>2, <2>4, <2>6, <2>8, <2>9, <2>10, SumsCompared
  <2>13. h[F] \in Nat /\ k[index] \in Nat /\ m[F] \in Nat /\ r[F] \in Nat
    BY <2>0, <2>4, <2>5, <2>6, <2>7, <2>8, <2>9, <2>10, SumNat
  <2>14. ~(TotalSize > MaxStorage) BY DEF PruneDone, OverLimit
  <2> QED BY <2>5, <2>6, <2>7, <2>11, <2>12, <2>13, <2>14, RetentionAssumption
<1> QED BY RecordsInit, RecordsKept, <1>1, PTL DEF Spec
================================================================================
