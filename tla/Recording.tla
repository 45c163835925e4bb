------------------------------- MODULE Recording -------------------------------
(***************************************************************************)
(* The recording subsystem (internal/recording) as a whole: the segment    *)
(* writer, the retention loop (retention.go) deleting segments behind its  *)
(* back, and the process being stopped, killed and started again           *)
(* (cmd/server/main.go).                                                   *)
(***************************************************************************)
EXTENDS SegmentWriter

CONSTANTS RetentionAge,     \* RetentionDays, in ticks; 0 = keep for ever
          MaxStorage,       \* MaxStorageMB, in frames; 0 = unlimited
          MaxStops          \* bound: stops and crashes of the process

ASSUME RetentionAssumption ==
    /\ RetentionAge \in Nat
    /\ MaxStorage \in Nat
    /\ MaxStops \in Nat

VARIABLES rpc,          \* the retention goroutine
          phase,        \* which loop of Enforce it is in
          victims,      \* enforceAge's snapshot, filtered by the cutoff
          victim,       \* deleteSegment's argument
          stops

retentionVars == <<rpc, phase, victims, victim>>
vars == <<indexVars, writerVars, retentionVars, stops>>

TypeOK ==
    /\ IndexTypeOK
    /\ WriterTypeOK
    /\ rpc \in {"idle", "loop", "unlink", "unindex"}
    /\ phase \in {"age", "capacity"}
    /\ victims \subseteq SegmentInfo
    /\ victim \in SegmentInfo
    /\ stops \in 0 .. MaxStops

Init ==
    /\ IndexInit
    /\ WriterInit
    /\ rpc = "idle"
    /\ phase = "age"
    /\ victims = {}
    /\ victim = InfoOf(seg)
    /\ stops = 0

Tick ==
    /\ clock < MaxClock
    /\ clock' = clock + 1
    /\ UNCHANGED <<indexVars, frames, queue, notify, pc, cur, segOpen, seg,
                   serial, paused, pauses, faults, files, disk, stray, named, reopened,
                   orphaned, retentionVars, stops>>

-----------------------------------------------------------------------------
(* Retention *)

Oldest(S) == {si \in S : \A o \in S : si.start <= o.start}

(* Enforce, from the ticker: the age cutoff and the snapshot are taken. *)
StartEnforce ==
    /\ Up
    /\ rpc = "idle"
    /\ rpc' = "loop"
    /\ phase' = "age"
    /\ victims' = IF RetentionAge = 0 THEN {}
                  ELSE {si \in index : si.end + RetentionAge < clock}
    /\ UNCHANGED <<indexVars, writerVars, victim, stops>>

(* enforceAge deletes what its snapshot holds, whatever the index became. *)
NextAged ==
    /\ rpc = "loop"
    /\ phase = "age"
    /\ \/ /\ victims = {}
          /\ phase' = "capacity"
          /\ UNCHANGED <<rpc, victims, victim>>
       \/ \E si \in Oldest(victims) :
             /\ victim' = si
             /\ victims' = victims \ {si}
             /\ rpc' = "unlink"
             /\ UNCHANGED phase
    /\ UNCHANGED <<indexVars, writerVars, stops>>

OverLimit == MaxStorage > 0 /\ TotalSize > MaxStorage

(* enforceCapacity: one deletion per turn, the oldest segment first. *)
NextOverLimit ==
    /\ rpc = "loop"
    /\ phase = "capacity"
    /\ \/ /\ ~OverLimit
          /\ rpc' = "idle"
          /\ UNCHANGED victim
       \/ /\ OverLimit
          /\ victim' \in Oldest(index)
          /\ rpc' = "unlink"
    /\ UNCHANGED <<indexVars, writerVars, phase, victims, stops>>

(* deleteSegment: os.Remove.  A missing file is as good as a removed one, any
   other failure is logged and the record goes all the same. *)
Unlink ==
    /\ rpc = "unlink"
    /\ rpc' = "unindex"
    /\ \/ /\ files' = files \ {victim.file}
          /\ disk' = [disk EXCEPT ![victim.file] = 0]
          /\ stray' = [stray EXCEPT ![victim.file] = 0]
          /\ seg' = IF segOpen /\ seg.file = victim.file
                    THEN [seg EXCEPT !.linked = FALSE] ELSE seg
          /\ UNCHANGED <<faults, orphaned>>
       \/ /\ victim.file \in files
          /\ Costs(1)
          /\ orphaned' = orphaned \cup {victim.file}
          /\ UNCHANGED <<files, disk, stray, seg>>
    /\ UNCHANGED <<indexVars, clock, frames, queue, notify, pc, cur, segOpen,
                   serial, paused, pauses, named, reopened, phase, victims, victim,
                   stops>>

(* deleteSegment: Index.Remove, by file name. *)
Unindex ==
    /\ rpc = "unindex"
    /\ rpc' = "loop"
    /\ \E saved \in BOOLEAN :
          /\ RemoveRecords(victim.file, saved)
          /\ Costs(IF saved THEN 0 ELSE 1)
    /\ UNCHANGED <<clock, frames, queue, notify, pc, cur, segOpen, seg, serial,
                   paused, pauses, files, disk, stray, named, reopened, orphaned, phase,
                   victims, victim, stops>>

Retention == StartEnforce \/ NextAged \/ NextOverLimit \/ Unlink \/ Unindex

-----------------------------------------------------------------------------
(* The process *)

(* Everything but the disk is gone. *)
GoDown ==
    /\ Up
    /\ stops < MaxStops
    /\ stops' = stops + 1
    /\ pc' = "down"
    /\ queue' = <<>>
    /\ notify' = FALSE
    /\ segOpen' = FALSE
    /\ paused' = FALSE
    /\ rpc' = "idle"
    /\ victims' = {}
    /\ UNCHANGED <<clock, frames, cur, seg, serial, pauses, files, disk, stray,
                   named, reopened, phase, victim>>

(* Run sees ctx.Done() and closes the segment; what is queued is dropped. *)
Shutdown ==
    /\ pc = "select"
    /\ GoDown
    /\ IF segOpen
       THEN \E o \in CloseOutcomes :
               /\ FinishSegment(o)
               /\ orphaned' = orphaned \cup OrphanedBy(o)
               /\ Costs(CloseCost(o))
       ELSE UNCHANGED <<indexVars, orphaned, faults>>

(* The process is killed, possibly inside the index append of a closing
   segment (tear), which counts as a fault. *)
Crash ==
    /\ GoDown
    /\ orphaned' = IF segOpen THEN orphaned \cup {seg.file} ELSE orphaned
    /\ \E tear \in BOOLEAN :
          /\ tear => segOpen
          /\ torn' = (torn \/ tear)
          /\ Costs(IF tear THEN 1 ELSE 0)
    /\ UNCHANGED <<index, log>>

(* A new process: Run loads the index and waits for frames. *)
Boot ==
    /\ ~Up
    /\ LoadIndex
    /\ pc' = "select"
    /\ orphaned' = orphaned \cup {si.file : si \in index \ log}
    /\ UNCHANGED <<clock, frames, queue, notify, cur, segOpen, seg, serial,
                   paused, pauses, faults, files, disk, stray, named, reopened,
                   retentionVars, stops>>

(* The drain goroutine, the Run loop and the platform's RecordCmd. *)
Drain == \E key \in BOOLEAN : Push(key) /\ UNCHANGED <<retentionVars, stops>>
RunLoop == (Wake \/ Pop \/ HandleAU) /\ UNCHANGED <<retentionVars, stops>>
RecordCmd == \E p \in BOOLEAN : SetPaused(p) /\ UNCHANGED <<retentionVars, stops>>

Next ==
    \/ Tick
    \/ Drain
    \/ RunLoop
    \/ RecordCmd
    \/ Retention
    \/ Shutdown
    \/ Crash
    \/ Boot

(* The retention goroutine is scheduled and its system calls return. *)
Fairness == WF_vars(NextAged \/ NextOverLimit \/ Unlink \/ Unindex)

Spec == Init /\ [][Next]_vars /\ Fairness

-----------------------------------------------------------------------------
(* Safety *)

Indexed == {si.file : si \in index}
Current == IF segOpen THEN {seg.file} ELSE {}
Usage(F) == MapThenSumSet(LAMBDA f : disk[f], F)
Uncounted(F) == MapThenSumSet(LAMBDA f : stray[f], F)
PruneDone == Up /\ rpc = "loop" /\ phase = "capacity" /\ MaxStorage > 0 /\ ~OverLimit
Keys(q) == Cardinality({i \in 1 .. Len(q) : q[i].key})

(* A token waits in notify whenever frames are queued and Run sleeps in its
   select: no frame is left behind until the next one arrives. *)
NoLostWakeup == pc = "select" /\ queue # <<>> => notify

(* Indexed segments do not overlap in time, in the order they were recorded:
   a playback lookup over a range returns every instant once. *)
SegmentsDoNotOverlap ==
    /\ \A si \in index : si.start <= si.end
    /\ \A si, sj \in index : si.id < sj.id => si.end <= sj.start

(* As long as no system call failed and no line was torn, the index in memory
   is what a restart would load, whatever writer and retention are doing. *)
IndexSurvivesRestart == Up /\ faults = 0 => index = log

(* Every file on disk is the open segment or has a record, except those a
   crash or a failed call orphaned and those two segments shared: rolling,
   pausing, shutting down and deleting forget none. *)
NoForgottenFile == Up => files \subseteq Indexed \cup Current \cup orphaned \cup reopened

(* A record whose file is gone is the one being deleted, unless its file was
   opened twice in one second, a call failed or the process died. *)
RecordsHaveFiles ==
    Up /\ faults = 0 /\ stops = 0 =>
        Indexed \subseteq files \cup reopened
                    \cup (IF rpc = "unindex" THEN {victim.file} ELSE {})

(* Index and files agree, each way: what a restart loads is what there is,
   recording and retention forget no file, and no record outlives its file. *)
IndexMatchesFiles == IndexSurvivesRestart /\ NoForgottenFile /\ RecordsHaveFiles

(* When the capacity loop ends, what is on disk besides the open segment, the
   orphans and the files that two segments share fits the limit, but for what
   failing writes left in the files: TotalSize undercounts by nothing else. *)
IndexedStorageBounded ==
    PruneDone =>
        LET F == files \ (Current \cup orphaned \cup reopened)
        IN  Usage(F) <= MaxStorage + Uncounted(F)

(* Action: a full queue gives up a keyframe only when it holds nothing else. *)
KeyframesOutlastDeltas ==
    [][frames' # frames /\ Keys(queue) < Len(queue) => Keys(queue') >= Keys(queue)]_vars

(* Liveness: a retention pass ends, although files it cannot remove and an
   index it cannot rewrite never stop it and the writer keeps appending. *)
EnforceTerminates == rpc # "idle" ~> rpc = "idle"

===============================================================================
