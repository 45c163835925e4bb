----------------------------- MODULE SegmentWriter -----------------------------
(***************************************************************************)
(* The segment writer (internal/recording/writer.go): the drain goroutine  *)
(* moves access units from the hub into a bounded queue, the Run loop pops *)
(* them and writes them to segment files, rolled at the first keyframe     *)
(* past the boundary; SetPaused arrives from the platform at any time.     *)
(* One action per critical section of Writer.mu.                           *)
(*                                                                         *)
(* A frame has size 1; a segment file is named by the second of its first  *)
(* frame.  The .ts.jsonl sidecar shares the life of its segment file.      *)
(***************************************************************************)
EXTENDS SegmentIndex, Sequences

CONSTANTS QueueCapacity,    \* queueCapacity (600)
          SegmentSecs,      \* RecordingConfig.SegmentSecs
          MaxFrames,        \* bound: frames the camera produces
          MaxPauses,        \* bound: calls of SetPaused that change something
          MaxFaults         \* bound: failing system calls

ASSUME WriterAssumption ==
    /\ QueueCapacity \in Nat \ {0}
    /\ SegmentSecs \in Nat \ {0}
    /\ MaxFrames \in Nat /\ MaxPauses \in Nat /\ MaxFaults \in Nat

VARIABLES clock,        \* wall clock, in seconds
          frames,       \* frames that reached the drain goroutine
          queue,        \* Writer.queue
          notify,       \* Writer.notify holds a token
          pc,           \* the Run loop; "down" when the process is not running
          cur,          \* the access unit Run popped
          segOpen,      \* segFile is not nil (Writer.active follows it)
          seg,          \* the fields of the open segment
          serial,       \* segments opened so far
          paused,       \* Writer.paused
          pauses, faults,
          files,        \* segment files on disk
          disk,         \* their sizes
          stray,        \* the part of a size that failing writes left
          named,        \* file names segments were opened under
          reopened,     \* names a second segment was opened under
          orphaned      \* files left without a record by a crash or a fault

writerVars == <<clock, frames, queue, notify, pc, cur, segOpen, seg, serial,
                paused, pauses, faults, files, disk, stray, named, reopened, orphaned>>

AccessUnit == [ts : Times, key : BOOLEAN]

Segment == [id : Nat, file : Times, start : Times, last : Times, size : Nat,
            linked : BOOLEAN,   \* the file still has its name
            broken : BOOLEAN]   \* a Close failed: the descriptor is gone

WriterTypeOK ==
    /\ clock \in Times
    /\ frames \in 0 .. MaxFrames
    /\ queue \in Seq(AccessUnit)
    /\ Len(queue) <= QueueCapacity
    /\ notify \in BOOLEAN
    /\ pc \in {"select", "pop", "handle", "down"}
    /\ cur \in AccessUnit
    /\ segOpen \in BOOLEAN
    /\ seg \in Segment
    /\ serial \in Nat
    /\ paused \in BOOLEAN
    /\ pauses \in 0 .. MaxPauses
    /\ faults \in 0 .. MaxFaults
    /\ files \subseteq Times
    /\ disk \in [Times -> Nat]
    /\ stray \in [Times -> Nat]
    /\ named \subseteq Times
    /\ reopened \subseteq named
    /\ orphaned \subseteq Times

NewSegment(au) ==
    [id |-> serial + 1, file |-> au.ts, start |-> au.ts, last |-> au.ts,
     size |-> 0, linked |-> TRUE, broken |-> FALSE]

WriterInit ==
    /\ clock = 0
    /\ frames = 0
    /\ queue = <<>>
    /\ notify = FALSE
    /\ pc = "select"
    /\ cur = [ts |-> 0, key |-> FALSE]
    /\ segOpen = FALSE
    /\ serial = 0
    /\ seg = NewSegment(cur)
    /\ paused = FALSE
    /\ pauses = 0
    /\ faults = 0
    /\ files = {}
    /\ disk = [t \in Times |-> 0]
    /\ stray = [t \in Times |-> 0]
    /\ named = {}
    /\ reopened = {}
    /\ orphaned = {}

Up == pc # "down"

(* Faulty system calls are counted against the bound. *)
Costs(n) ==
    /\ faults + n <= MaxFaults
    /\ faults' = faults + n

-----------------------------------------------------------------------------
(* The queue. *)

FirstDelta(q) ==
    CHOOSE i \in 1 .. Len(q) :
        ~q[i].key /\ \A j \in 1 .. Len(q) : ~q[j].key => i <= j

Without(q, i) ==
    [j \in 1 .. Len(q) - 1 |-> IF j < i THEN q[j] ELSE q[j + 1]]

(* Mutant of MakeRoom: the oldest frame goes, whatever it is. *)
MakeRoomFromFront(q) ==
    IF Len(q) < QueueCapacity THEN q ELSE Tail(q)

(* A full queue gives up its oldest delta frame, or its oldest frame when all
   are keyframes. *)
MakeRoom(q) ==
    IF Len(q) < QueueCapacity THEN q
    ELSE IF \E i \in 1 .. Len(q) : ~q[i].key THEN Without(q, FirstDelta(q))
    ELSE Tail(q)

(* push: the drain goroutine hands over a frame stamped now. *)
Push(key) ==
    /\ Up
    /\ frames < MaxFrames
    /\ frames' = frames + 1
    /\ queue' = Append(MakeRoom(queue), [ts |-> clock, key |-> key])
    /\ notify' = TRUE
    /\ UNCHANGED <<indexVars, clock, pc, cur, segOpen, seg, serial, paused,
                   pauses, faults, files, disk, stray, named, reopened, orphaned>>

(* Run: <-w.notify, then pop until the queue is empty. *)
Wake ==
    /\ pc = "select"
    /\ notify
    /\ notify' = FALSE
    /\ pc' = "pop"
    /\ UNCHANGED <<indexVars, clock, frames, queue, cur, segOpen, seg, serial,
                   paused, pauses, faults, files, disk, stray, named, reopened, orphaned>>

Pop ==
    /\ pc = "pop"
    /\ IF queue = <<>>
       THEN /\ pc' = "select"
            /\ UNCHANGED <<queue, cur>>
       ELSE /\ pc' = "handle"
            /\ cur' = Head(queue)
            /\ queue' = Tail(queue)
    /\ UNCHANGED <<indexVars, clock, frames, notify, segOpen, seg, serial,
                   paused, pauses, faults, files, disk, stray, named, reopened, orphaned>>

-----------------------------------------------------------------------------
(* Opening, writing and closing a segment. *)

(* Mutants of InfoOf: the end is the nominal one; the last frame's bytes are
   not counted. *)
InfoNominal(s) ==
    [id |-> s.id, file |-> s.file, start |-> s.start, end |-> s.start + SegmentSecs,
     size |-> s.size]

InfoWithoutLastFrame(s) ==
    [id |-> s.id, file |-> s.file, start |-> s.start, end |-> s.last,
     size |-> IF s.size = 0 THEN 0 ELSE s.size - 1]

InfoOf(s) ==
    [id |-> s.id, file |-> s.file, start |-> s.start, end |-> s.last,
     size |-> s.size]

PastBoundary(s, au) == au.key /\ au.ts >= s.start + SegmentSecs

(* What becomes of the frame in hand: all its NALUs are written and counted; or
   a write fails, after some NALUs that are counted, or none, and after some bytes
   of the failing one that are not, or none.  Every write on a closed descriptor
   fails. *)
Outcomes == [done : BOOLEAN, counted : 0 .. 1, left : 0 .. 1]

Complete == [done |-> TRUE, counted |-> 1, left |-> 0]
Nothing == [done |-> FALSE, counted |-> 0, left |-> 0]

WriteOutcomes(s) ==
    IF s.broken THEN {Nothing} ELSE {Complete} \cup {w \in Outcomes : ~w.done}

Grown(sizes, s, n) == IF s.linked THEN [sizes EXCEPT ![s.file] = @ + n] ELSE sizes

WriteFrame(s, w) ==
    /\ seg' = [s EXCEPT !.size = @ + w.counted, !.last = IF w.done THEN cur.ts ELSE @]
    /\ disk' = Grown(disk, s, w.counted + w.left)
    /\ stray' = Grown(stray, s, w.left)

WriteCost(s, w) == IF w.done \/ s.broken THEN 0 ELSE 1

(* openSegmentLocked: O_CREATE|O_APPEND on the name of the current second. *)
StartSegment(w) ==
    /\ segOpen' = TRUE
    /\ serial' = serial + 1
    /\ files' = files \cup {cur.ts}
    /\ named' = named \cup {cur.ts}
    /\ reopened' = reopened \cup (named \cap {cur.ts})
    /\ WriteFrame(NewSegment(cur), w)

(* The ways closeSegmentLocked ends: the record is stored; the index append
   fails, leaving nothing, a part of the line or the whole line; or a Close
   fails, which returns before the index is touched and leaves segFile set.  A
   closed descriptor cannot be closed again. *)
Leftovers == {"nothing", "part", "line"}
CloseOutcomes == IF seg.broken THEN {"unclosed"}
                 ELSE {"stored", "unclosed"} \cup Leftovers

(* Mutant of FinishSegment: the file is closed, the index never told. *)
FinishUnindexed(o) == UNCHANGED indexVars

FinishSegment(o) ==
    \/ o = "stored" /\ AppendRecord(InfoOf(seg))
    \/ o \in Leftovers /\ AppendFails(InfoOf(seg), o)
    \/ o = "unclosed" /\ UNCHANGED indexVars

CloseCost(o) == IF o = "stored" \/ seg.broken THEN 0 ELSE 1

OrphanedBy(o) == IF o = "stored" THEN {} ELSE {seg.file}

(* What closing leaves of the writer's segment state. *)
AfterClose(o) ==
    /\ segOpen' = (o = "unclosed")
    /\ seg' = [seg EXCEPT !.broken = (o = "unclosed")]

-----------------------------------------------------------------------------
(* handleAU *)

Discard ==
    /\ paused
    /\ UNCHANGED <<indexVars, segOpen, seg, serial, faults, files, disk, stray,
                   named, reopened, orphaned>>

FirstOfSegment ==
    /\ ~paused
    /\ ~segOpen
    /\ \/ \E w \in WriteOutcomes(NewSegment(cur)) :
             /\ StartSegment(w)
             /\ Costs(WriteCost(NewSegment(cur), w))
             /\ UNCHANGED orphaned
       \/ \E made \in {{}, {cur.ts} \ files} :  \* the sidecar could not be opened
             /\ files' = files \cup made
             /\ orphaned' = orphaned \cup made
             /\ Costs(1)
             /\ UNCHANGED <<segOpen, seg, serial, disk, stray, named, reopened>>
    /\ UNCHANGED indexVars

Continue ==
    /\ ~paused
    /\ segOpen
    /\ ~PastBoundary(seg, cur)
    /\ \E w \in WriteOutcomes(seg) : WriteFrame(seg, w) /\ Costs(WriteCost(seg, w))
    /\ UNCHANGED <<indexVars, segOpen, serial, files, named, reopened,
                   orphaned>>

(* A failed close is logged and the next segment is opened all the same. *)
Roll ==
    /\ ~paused
    /\ segOpen
    /\ PastBoundary(seg, cur)
    /\ \E o \in CloseOutcomes :
          /\ FinishSegment(o)
          /\ \/ \E w \in WriteOutcomes(NewSegment(cur)) :
                   /\ StartSegment(w)
                   /\ Costs(CloseCost(o) + WriteCost(NewSegment(cur), w))
                   /\ orphaned' = orphaned \cup OrphanedBy(o)
             \/ \E made \in {{}, {cur.ts} \ files} :
                   /\ files' = files \cup made
                   /\ orphaned' = orphaned \cup OrphanedBy(o) \cup made
                   /\ AfterClose(o)
                   /\ Costs(CloseCost(o) + 1)
                   /\ UNCHANGED <<serial, disk, stray, named, reopened>>

(* Mutant of HandleAU: one frame per wake-up. *)
HandleOne ==
    /\ pc = "handle"
    /\ Discard \/ FirstOfSegment \/ Continue \/ Roll
    /\ pc' = "select"
    /\ UNCHANGED <<clock, frames, queue, notify, cur, paused, pauses>>

HandleAU ==
    /\ pc = "handle"
    /\ Discard \/ FirstOfSegment \/ Continue \/ Roll
    /\ pc' = "pop"
    /\ UNCHANGED <<clock, frames, queue, notify, cur, paused, pauses>>

(* SetPaused: pausing closes the open segment, resuming opens none. *)
SetPaused(p) ==
    /\ Up
    /\ p # paused
    /\ pauses < MaxPauses
    /\ pauses' = pauses + 1
    /\ paused' = p
    /\ IF p /\ segOpen
       THEN \E o \in CloseOutcomes :
               /\ FinishSegment(o)
               /\ AfterClose(o)
               /\ orphaned' = orphaned \cup OrphanedBy(o)
               /\ Costs(CloseCost(o))
       ELSE UNCHANGED <<indexVars, segOpen, seg, orphaned, faults>>
    /\ UNCHANGED <<clock, frames, queue, notify, pc, cur, serial, files, disk, stray,
                   named, reopened>>

===============================================================================
