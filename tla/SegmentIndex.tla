----------------------------- MODULE SegmentIndex -----------------------------
(***************************************************************************)
(* The recording index (internal/recording/index.go): the in-memory list   *)
(* of finished segments, and the index.jsonl file it is loaded from after  *)
(* a restart.  A finished segment is appended as one line; a deletion      *)
(* rewrites the file through a temporary and a rename.                     *)
(*                                                                         *)
(* A record carries the serial number of its segment, so that the list can *)
(* be a set: readers sort by start time or filter, none depends on the     *)
(* order of equal keys.                                                    *)
(***************************************************************************)
EXTENDS Naturals, FiniteSetsExt

CONSTANTS MaxClock      \* bound: ticks of the clock; one tick is the one second
                        \* by which segment files are named

ASSUME ClockAssumption == MaxClock \in Nat

VARIABLES index,        \* Index.segments
          log,          \* the records a Load of index.jsonl would yield
          torn          \* index.jsonl ends in a partial line

indexVars == <<index, log, torn>>

Times == 0 .. MaxClock

SegmentInfo == [id : Nat, file : Times, start : Times, end : Times,
                size : Nat]

IndexTypeOK ==
    /\ index \subseteq SegmentInfo
    /\ log \subseteq SegmentInfo
    /\ torn \in BOOLEAN

IndexInit ==
    /\ index = {}
    /\ log = {}
    /\ torn = FALSE

(* Append: the line goes to the file first, memory follows when that worked.
   After a partial line the new one is glued to it and neither parses. *)
AppendRecord(si) ==
    /\ index' = index \cup {si}
    /\ log' = IF torn THEN log ELSE log \cup {si}
    /\ torn' = FALSE

(* Append returning an error: the line was not written, or a part of it was,
   or all of it and the Close failed, which memory takes for a failure too. *)
AppendFails(si, left) ==
    /\ log' = IF left = "line" /\ ~torn THEN log \cup {si} ELSE log
    /\ torn' = (left = "part" \/ (left = "nothing" /\ torn))
    /\ UNCHANGED index

(* Mutant of RemoveRecords: the record stays in memory. *)
RemoveFromFileOnly(file, saved) ==
    /\ log' = IF saved THEN {si \in index : si.file # file} ELSE log
    /\ torn' = (torn /\ ~saved)
    /\ UNCHANGED index

(* Remove: memory is changed first, then the file is replaced as a whole;
   when the rewrite fails the old file stays. *)
RemoveRecords(file, saved) ==
    /\ index' = {si \in index : si.file # file}
    /\ log' = IF saved THEN index' ELSE log
    /\ torn' = (torn /\ ~saved)

(* Load, which skips lines that do not parse. *)
LoadIndex ==
    /\ index' = log
    /\ UNCHANGED <<log, torn>>

TotalSize == MapThenSumSet(LAMBDA si : si.size, index)

===============================================================================
