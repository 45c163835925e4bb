------------------------------- MODULE RtmpPush -------------------------------
(***************************************************************************)
(* The RTMP push client (internal/rtmp/push.go): a goroutine that dials,   *)
(* performs the handshake and three commands, then sends the units of a    *)
(* hub subscription, and retries with a growing pause when an attempt      *)
(* fails.  Stop and the end of the context come from main at any point.    *)
(*                                                                         *)
(* The peer is the environment: it may answer, answer something else, say  *)
(* nothing for ever, or go away.  The bytes of the commands are in         *)
(* RtmpWire; here a command is the stage the client waits in.              *)
(***************************************************************************)
EXTENDS Naturals, Sequences

CONSTANTS MaxRetries,   \* Config.MaxRetries after the default of New
          MaxBackoff,   \* doublings until maxBackoff: 1 s, 2 s, ... 30 s
          QueueSize     \* capacity of the subscriber channel

ASSUME RetriesAssumption == MaxRetries \in Nat \ {0}
ASSUME BackoffAssumption == MaxBackoff \in Nat
ASSUME QueueAssumption == QueueSize \in Nat \ {0}

VARIABLES phase,        \* where the run goroutine is
          conn,         \* Push.conn: "nil" or "set"
          socket,       \* "none", "up", "lost" (the peer is gone), "closed" (by us)
          retries, backoff,
          cancelled,    \* the context of run is done
          stopping,     \* Stop: "no", "cancelled", "closed" (waiting), "returned"
          rtmpQueue,    \* the subscriber's channel
          params,       \* Push.sps, Push.pps: "none", "short" (an SPS under 4 bytes), "full"
          seqHeaderSent,
          sent,         \* what the peer of this connection was sent, or was not ("left")
          early         \* conn was set after Stop had closed what there was

connVars == <<conn, socket, early>>
runVars  == <<phase, retries, backoff>>
pushVars == <<rtmpQueue, params, seqHeaderSent, sent>>
rtmpVars == <<connVars, runVars, pushVars, cancelled, stopping>>

ParamKinds == {"none", "short", "full"}
RtmpUnit == [key : BOOLEAN, params : ParamKinds]

(* The peer owes an answer to a handshake, then to three commands. *)
Waiting == <<"handshake", "connect", "createStream", "publish">>
Stages  == {Waiting[i] : i \in DOMAIN Waiting}
Sending == Stages \union {"push"}

After(stage) ==
    LET i == CHOOSE j \in DOMAIN Waiting : Waiting[j] = stage
    IN  IF i = Len(Waiting) THEN "push" ELSE Waiting[i + 1]

RtmpInit ==
    /\ phase = "idle"
    /\ conn = "nil" /\ socket = "none" /\ early = FALSE
    /\ retries = 0 /\ backoff = 0
    /\ cancelled = FALSE /\ stopping = "no"
    /\ rtmpQueue = <<>> /\ params = "none" /\ seqHeaderSent = FALSE
    /\ sent = <<>>

-----------------------------------------------------------------------------

(* The top of run's loop. *)
BeginAttempt ==
    /\ phase = "idle"
    /\ phase' = IF cancelled THEN "ended" ELSE "dial"
    /\ UNCHANGED <<connVars, retries, backoff, pushVars, cancelled, stopping>>

(* DialContext returned a connection; whether the context ended meanwhile is
   not looked at again before the handshake. *)
DialSucceeds ==
    /\ phase = "dial"
    /\ conn' = "set"
    /\ socket' = "up"
    /\ early' = (stopping \in {"closed", "returned"})
    /\ sent' = <<>>
    /\ seqHeaderSent' = FALSE
    /\ phase' = "handshake"
    /\ UNCHANGED <<retries, backoff, rtmpQueue, params, cancelled, stopping>>

(* closeConn: closes and forgets what p.conn holds. *)
CloseConn ==
    /\ conn' = "nil"
    /\ socket' = IF conn = "set" THEN "closed" ELSE socket

(* connectAndPush returned an error: run counts it and pauses or gives up. *)
AttemptFails ==
    IF cancelled
    THEN phase' = "ended" /\ UNCHANGED retries
    ELSE /\ retries' = retries + 1
         /\ phase' = IF retries + 1 >= MaxRetries THEN "ended" ELSE "backoff"

DialFails ==
    /\ phase = "dial"
    /\ AttemptFails
    /\ UNCHANGED <<connVars, backoff, pushVars, cancelled, stopping>>

(* A read or a write of a stage fails, or the peer refuses the handshake or
   answers createStream with something that is no stream number. *)
Refused == phase \in {"handshake", "createStream"}

StageFails ==
    /\ phase \in Stages
    /\ socket # "up" \/ Refused
    /\ CloseConn
    /\ AttemptFails
    /\ UNCHANGED <<early, backoff, pushVars, cancelled, stopping>>

(* The expected answer.  Others (_error among them) are read and dropped by
   waitCommand, which goes on waiting: no step of the client. *)
StageAnswered ==
    /\ phase \in Stages
    /\ socket = "up"
    /\ phase' = After(phase)
    /\ UNCHANGED <<connVars, retries, backoff, pushVars, cancelled, stopping>>

PeerLost ==
    /\ socket = "up"
    /\ socket' = "lost"
    /\ UNCHANGED <<conn, early, runVars, pushVars, cancelled, stopping>>

(* time.After(backoff), or the context ends the pause. *)
Pause ==
    /\ phase = "backoff"
    /\ \/ /\ cancelled
          /\ phase' = "ended"
          /\ UNCHANGED backoff
       \/ /\ phase' = "idle"
          /\ backoff' = IF backoff < MaxBackoff THEN backoff + 1 ELSE MaxBackoff
    /\ UNCHANGED <<connVars, retries, pushVars, cancelled, stopping>>

-----------------------------------------------------------------------------

(* What reaches the peer: the writer's error is sticky and only logged. *)
Transmit(messages) == sent' = IF socket = "up" THEN sent \o messages ELSE sent

Merged(unit) == IF unit.params = "none" THEN params ELSE unit.params

(* What processAU writes for a unit; "bare" is a keyframe whose parameter sets
   were too short for makeAVCSequenceHeader. *)
Messages(unit, known) ==
    CASE ~unit.key                      -> <<"delta">>
      [] unit.key /\ known = "full"     -> <<"header", "key">>
      [] unit.key /\ known = "short"    -> <<"bare">>
      [] unit.key /\ known = "none"     -> <<"key">>

(* Mutant of ProcessAU: the flag is set by any keyframe, with or without
   parameter sets. *)
ProcessAUEager(unit) ==
    /\ params' = Merged(unit)
    /\ seqHeaderSent' = (seqHeaderSent \/ unit.key)
    /\ IF ~unit.key /\ ~seqHeaderSent THEN Transmit(<<"left">>)
       ELSE Transmit(Messages(unit, params'))

(* processAU.  A delta frame is left out until a header was sent; a parameter set that yields no header still counts as sent. *)
ProcessAU(unit) ==
    /\ params' = Merged(unit)
    /\ IF ~unit.key /\ ~seqHeaderSent
       THEN Transmit(<<"left">>) /\ UNCHANGED seqHeaderSent
       ELSE LET header == unit.key /\ params' # "none"
            IN  \/ /\ seqHeaderSent' = (seqHeaderSent \/ header)
                   /\ Transmit(Messages(unit, params'))
                \/ /\ socket # "up"         \* the header's write fails: return
                   /\ header /\ params' = "full"
                   /\ UNCHANGED <<seqHeaderSent, sent>>

PushUnit ==
    /\ phase = "push"
    /\ rtmpQueue # <<>>
    /\ rtmpQueue' = Tail(rtmpQueue)
    /\ ProcessAU(Head(rtmpQueue))
    /\ UNCHANGED <<connVars, runVars, cancelled, stopping>>

(* pushLoop sees the end of the context, or the channel the hub closed for
   it; flush, close, and run returns. *)
PushEnds ==
    /\ phase = "push"
    /\ cancelled
    /\ rtmpQueue' = <<>>
    /\ CloseConn
    /\ phase' = "ended"
    /\ UNCHANGED <<early, retries, backoff, params, seqHeaderSent, sent,
                   cancelled, stopping>>

(* AUHub.Write to this subscription: it exists while pushLoop runs. *)
RtmpReceives(unit) ==
    /\ phase = "push" /\ ~cancelled
    /\ rtmpQueue' = IF Len(rtmpQueue) < QueueSize THEN Append(rtmpQueue, unit)
                    ELSE rtmpQueue
    /\ UNCHANGED <<connVars, runVars, params, seqHeaderSent, sent, cancelled, stopping>>

-----------------------------------------------------------------------------

(* main's signal context ends. *)
RtmpCancel ==
    /\ cancelled' = TRUE
    /\ ~cancelled
    /\ UNCHANGED <<connVars, runVars, pushVars, stopping>>

StopCancels ==
    /\ stopping = "no"
    /\ cancelled
    /\ stopping' = "cancelled"
    /\ UNCHANGED <<connVars, runVars, pushVars, cancelled>>

(* Mutant of StopCloses: Stop relies on the context alone. *)
StopClosesNothing ==
    /\ stopping = "cancelled"
    /\ stopping' = "closed"
    /\ UNCHANGED <<connVars, runVars, pushVars, cancelled>>

StopCloses ==
    /\ stopping = "cancelled"
    /\ stopping' = "closed"
    /\ CloseConn
    /\ UNCHANGED <<early, runVars, pushVars, cancelled>>

StopReturns ==
    /\ stopping = "closed"
    /\ phase = "ended"
    /\ stopping' = "returned"
    /\ UNCHANGED <<connVars, runVars, pushVars, cancelled>>

RunLoop == \/ BeginAttempt \/ DialSucceeds \/ DialFails \/ StageFails
           \/ Pause \/ PushUnit \/ PushEnds
RtmpStop == StopCancels \/ StopCloses \/ StopReturns
RtmpEnv  == StageAnswered \/ PeerLost \/ RtmpCancel

(* The push client on a hub that delivers any units. *)
RtmpNext == RunLoop \/ RtmpStop \/ RtmpEnv \/ \E unit \in RtmpUnit : RtmpReceives(unit)
RtmpSpec == RtmpInit /\ [][RtmpNext]_rtmpVars

(* The goroutine and Stop run when they can; a failing read or write is among
   its steps, an answer of the peer is not. *)
RtmpFairness ==
    /\ WF_rtmpVars(BeginAttempt \/ DialSucceeds \/ DialFails)
    /\ WF_rtmpVars(StageFails /\ socket # "up")
    /\ WF_rtmpVars(Pause)
    /\ WF_rtmpVars(PushUnit)
    /\ WF_rtmpVars(PushEnds)
    /\ WF_rtmpVars(RtmpStop)

-----------------------------------------------------------------------------

(* On each connection a header is directly followed by its keyframe, and a delta
   frame is part of a run that began with a header (or a keyframe whose sets gave
   none) and in which processAU left nothing out and sent no keyframe without a
   header.  This is the order of what is sent, not that the peer can decode it:
   units that the full channel of the subscription dropped are missing unseen. *)
RunsBeginWithHeader ==
    \A i \in DOMAIN sent :
        /\ sent[i] = "header" /\ i < Len(sent) => sent[i + 1] = "key"
        /\ sent[i] = "delta" =>
              \E j \in 1 .. i - 1 :
                  /\ sent[j] \in {"header", "bare"}
                  /\ \A k \in j + 1 .. i :
                        sent[k] = "delta" \/ (sent[k] = "key" /\ sent[k - 1] = "header")

(* Once Stop has closed the connection it waits for run only as long as the
   client itself takes, whatever the peer does, unless the dial was under way
   and set p.conn after closeConn had looked (then only the peer ends it). *)
StopEndsUnlessDialing ==
    (stopping = "closed" /\ ~early) ~> (phase = "ended" \/ early)

(* Package comment of Start: "The push loop auto-reconnects on failure".  A
   push whose peer is gone leads to another attempt or to the end of run. *)
AutoReconnects == (phase = "push" /\ socket = "lost") ~> (phase # "push")

===============================================================================
