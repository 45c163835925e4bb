------------------------------- MODULE HlsServer ------------------------------
(***************************************************************************)
(* The HLS server (internal/hls/server.go): one goroutine cuts the units   *)
(* of a hub subscription into segments of a fixed number of frames, each   *)
(* begun on a keyframe, and keeps the last few in a window.  HTTP handlers *)
(* serve the playlist, which is cached, and the segments; one client polls *)
(* them.  All of it under one mutex, so handlers and units interleave as   *)
(* whole steps.                                                            *)
(*                                                                         *)
(* A unit is its arrival number and whether it is a keyframe; its bytes    *)
(* and the transport stream packets around them are in MpegTs.             *)
(***************************************************************************)
EXTENDS Naturals, Sequences, SequencesExt

CONSTANTS FramesPerSegment,     \* fps * int(segmentDuration.Seconds())
          WindowSize,           \* Server.windowSize: 5
          HlsQueueSize,         \* capacity of the subscriber channel
          MaxUnits              \* bound: units the camera produces

ASSUME FramesAssumption == FramesPerSegment \in Nat \ {0}
ASSUME WindowAssumption == WindowSize \in Nat \ {0}
ASSUME HlsQueueAssumption == HlsQueueSize \in Nat \ {0}
ASSUME MaxUnitsAssumption == MaxUnits \in Nat

VARIABLES hlsQueue,             \* the subscriber's channel
          segments, sequence,   \* Server.segments, Server.sequence
          currentSeg,           \* units of the segment being built, or <<>>
          currentPTS,           \* Server.currentPTS in frames (ptsIncrement = 1)
          frameCount, waitingForKeyframe,
          cachedPlaylist,       \* the sequence numbers it lists, or <<>>
          consumed,             \* units taken from the channel
          listed, got           \* a client: its last playlist, and what it fetched

segmenterVars == <<segments, sequence, currentSeg, currentPTS, frameCount,
                   waitingForKeyframe, cachedPlaylist, consumed>>
clientVars == <<listed, got>>
hlsVars == <<hlsQueue, segmenterVars, clientVars>>

HlsUnit == [key : BOOLEAN, id : 1 .. MaxUnits]

HlsInit ==
    /\ hlsQueue = <<>>
    /\ segments = <<>> /\ sequence = 0
    /\ currentSeg = <<>> /\ currentPTS = 0 /\ frameCount = 0
    /\ waitingForKeyframe = TRUE
    /\ cachedPlaylist = <<>> /\ consumed = 0
    /\ listed = <<>> /\ got = [n \in {} |-> <<>>]

(* AUHub.Write to this subscription. *)
HlsReceives(unit) ==
    /\ hlsQueue' = IF Len(hlsQueue) < HlsQueueSize THEN Append(hlsQueue, unit)
                   ELSE hlsQueue
    /\ UNCHANGED <<segmenterVars, clientVars>>

(* closeSegment: number it, append it, trim the window, drop the cache. *)
CloseSegment(units) ==
    LET all == Append(segments, [seq |-> sequence, units |-> units])
    IN  /\ segments' = SubSeq(all, IF Len(all) > WindowSize THEN Len(all) - WindowSize + 1
                                   ELSE 1, Len(all))
        /\ sequence' = sequence + 1
        /\ currentSeg' = <<>>
        /\ cachedPlaylist' = <<>>

(* A segment begins on a keyframe only; until then units advance the clock. *)
SkipUnit ==
    /\ currentSeg = <<>>
    /\ ~Head(hlsQueue).key
    /\ UNCHANGED <<segments, sequence, currentSeg, frameCount, waitingForKeyframe,
                   cachedPlaylist>>

(* Mutant of WriteUnit: a segment ends where its own frames were counted from
   the start of the stream's second, not from its first frame. *)
WriteUnitLate ==
    LET units == Append(currentSeg, [unit |-> Head(hlsQueue), pts |-> currentPTS])
    IN  /\ currentSeg = <<>> => Head(hlsQueue).key
        /\ frameCount' = frameCount + 1
        /\ IF (currentPTS + 1) % FramesPerSegment = 0
           THEN CloseSegment(units) /\ waitingForKeyframe' = TRUE
           ELSE /\ currentSeg' = units /\ waitingForKeyframe' = FALSE
                /\ UNCHANGED <<segments, sequence, cachedPlaylist>>

(* writeAU, and the close when the frame count reaches a multiple. *)
WriteUnit ==
    LET units == Append(currentSeg, [unit |-> Head(hlsQueue), pts |-> currentPTS])
    IN  /\ currentSeg = <<>> => Head(hlsQueue).key
        /\ frameCount' = frameCount + 1
        /\ IF (frameCount + 1) % FramesPerSegment = 0
           THEN CloseSegment(units) /\ waitingForKeyframe' = TRUE
           ELSE /\ currentSeg' = units /\ waitingForKeyframe' = FALSE
                /\ UNCHANGED <<segments, sequence, cachedPlaylist>>

(* processAU *)
HlsProcessAU ==
    /\ hlsQueue # <<>>
    /\ hlsQueue' = Tail(hlsQueue)
    /\ consumed' = consumed + 1
    /\ currentPTS' = currentPTS + 1
    /\ SkipUnit \/ WriteUnit
    /\ UNCHANGED clientVars

-----------------------------------------------------------------------------

Window == [i \in DOMAIN segments |-> segments[i].seq]

(* ServePlaylist: the cached text, or one generated from the window, which is
   kept unless the window is empty. *)
ServePlaylist ==
    LET text == IF cachedPlaylist # <<>> THEN cachedPlaylist ELSE Window
    IN  /\ cachedPlaylist' = text
        /\ listed' = text
        /\ UNCHANGED <<hlsQueue, segments, sequence, currentSeg, currentPTS,
                       frameCount, waitingForKeyframe, consumed, got>>

(* ServeSegment for a number of the client's playlist that it has not fetched
   yet: the segment, or 404 when it has left the window. *)
ServeSegment ==
    /\ listed # <<>>
    /\ \E n \in ToSet(listed) \ DOMAIN got :
           \E i \in DOMAIN segments :
               /\ segments[i].seq = n
               /\ got' = [m \in DOMAIN got \union {n} |->
                              IF m = n THEN segments[i].units ELSE got[m]]
    /\ UNCHANGED <<hlsQueue, segmenterVars, listed>>

HlsClient == ServePlaylist \/ ServeSegment

-----------------------------------------------------------------------------

(* Whatever a client put together from playlists and segments fetched at any
   two moments is playable: each segment is FramesPerSegment frames from a
   keyframe on, two segments share no frame and play in the order of their
   numbers, and time stamps only grow (the frame count, the clock that must
   advance on skipped units too, and the numbering agree).  And a playlist is
   never staler than its request: every close drops the cached one. *)
FetchedSegmentsPlayable ==
    /\ \A n \in DOMAIN got :
           /\ Len(got[n]) = FramesPerSegment
           /\ got[n][1].unit.key
           /\ \A i \in 1 .. FramesPerSegment - 1 : got[n][i].pts + 1 = got[n][i + 1].pts
    /\ \A m, n \in DOMAIN got :
           m < n => /\ Last(got[m]).unit.id < got[n][1].unit.id
                    /\ Last(got[m]).pts < got[n][1].pts
    /\ currentPTS = consumed
    /\ cachedPlaylist # <<>> => cachedPlaylist = Window

===============================================================================
