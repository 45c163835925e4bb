----------------------------- MODULE M2MEncoder -----------------------------
(***************************************************************************)
(* The hardware H.264 encoder (internal/v4l2/encode.go): one frame at a    *)
(* time goes into an OUTPUT buffer of a V4L2 memory-to-memory device and   *)
(* comes back coded in a CAPTURE buffer.  A step that fails leaves buffers *)
(* with the driver, so Encode resets the queues and tries the frame once   *)
(* more.  Frames are told apart by their number.                           *)
(***************************************************************************)
EXTENDS Naturals, Sequences

CONSTANTS BufferCount,      \* buffers granted for each of the two queues
          MaxFrames,        \* bound: frames handed to Encode
          MaxDriverFaults   \* bound: ioctls that fail, polls that time out

ASSUME EncoderAssumption ==
    /\ BufferCount \in Nat \ {0}
    /\ {MaxFrames, MaxDriverFaults} \subseteq Nat

VARIABLES owned,        \* OUTPUT buffers the driver has yet to read: [buf, frame]
          drained,      \* OUTPUT buffers it has read, to be dequeued
          free,         \* CAPTURE buffers queued with the driver
          coded,        \* frames coded, in CAPTURE buffers to be dequeued
          streaming,    \* STREAMON of both queues
          nextOut,      \* M2MEncoder.nextOut
          frame,        \* the frame that Encode has in hand
          encodePc, retried,
          answer,       \* what Encode returned last: the frame coded, or 0
          calm,         \* nothing failed since this Encode began
          refused,      \* the driver refused the last reset
          driverFaults

encoderVars == <<owned, drained, free, coded, streaming, nextOut, frame,
                 encodePc, retried, answer, calm, refused, driverFaults>>
driverQueues == <<owned, drained, free, coded, streaming>>

(* OpenM2MEncoder: CAPTURE buffers queued, OUTPUT buffers not, both streams on. *)
EncoderInit ==
    /\ owned = <<>> /\ drained = <<>> /\ free = BufferCount /\ coded = <<>>
    /\ streaming = TRUE /\ nextOut = 0 /\ frame = 0
    /\ encodePc = "idle" /\ retried = FALSE
    /\ answer = 0 /\ calm = TRUE /\ refused = FALSE /\ driverFaults = 0

DriverFault ==
    /\ driverFaults < MaxDriverFaults
    /\ driverFaults' = driverFaults + 1
    /\ calm' = FALSE
NoFault == UNCHANGED <<driverFaults, calm>>

Encode ==
    /\ encodePc = "idle" /\ frame < MaxFrames
    /\ frame' = frame + 1
    /\ encodePc' = "queue" /\ retried' = FALSE /\ calm' = TRUE
    /\ UNCHANGED <<driverQueues, nextOut, answer, refused, driverFaults>>

(* Mutant of Fail: the frame is tried again without a reset. *)
FailRetriesAtOnce ==
    /\ encodePc' = IF retried THEN "idle" ELSE "queue"
    /\ retried' = TRUE
    /\ answer' = IF retried THEN 0 ELSE answer
    /\ UNCHANGED <<nextOut, frame, refused>>

(* encodeOnce returned an error: the first one leads to the reset, the second
   is the answer. *)
Fail ==
    /\ encodePc' = IF retried THEN "idle" ELSE "reset"
    /\ answer' = IF retried THEN 0 ELSE answer
    /\ UNCHANGED <<retried, nextOut, frame, refused>>

Goto(pc) == encodePc' = pc /\ UNCHANGED <<retried, answer, frame, refused>>

(* QBUF of an OUTPUT buffer is refused while the driver has that buffer. *)
Buffer == nextOut % BufferCount
WithDriver == Buffer \in {owned[i].buf : i \in DOMAIN owned}
                         \union {drained[i] : i \in DOMAIN drained}

QueueOutput ==
    /\ encodePc = "queue" /\ ~WithDriver
    /\ owned' = Append(owned, [buf |-> Buffer, frame |-> frame])
    /\ nextOut' = nextOut + 1
    /\ Goto("poll") /\ NoFault
    /\ UNCHANGED <<drained, free, coded, streaming>>

QueueFails ==
    /\ encodePc = "queue"
    /\ IF WithDriver THEN NoFault ELSE DriverFault
    /\ Fail /\ UNCHANGED driverQueues

Ready == streaming /\ coded # <<>>
CanCode == streaming /\ owned # <<>> /\ free > 0

Poll == encodePc = "poll" /\ Ready /\ Goto("dequeue output") /\ NoFault
        /\ UNCHANGED <<driverQueues, nextOut>>

(* One second without POLLIN, or POLLERR and then a DQBUF that fails. *)
PollFails ==
    /\ encodePc = "poll" /\ ~Ready
    /\ IF CanCode THEN DriverFault ELSE NoFault
    /\ Fail /\ UNCHANGED driverQueues

DequeueOutput ==
    /\ encodePc = "dequeue output" /\ drained # <<>>
    /\ drained' = Tail(drained)
    /\ Goto("dequeue capture") /\ NoFault
    /\ UNCHANGED <<owned, free, coded, streaming, nextOut>>

DequeueFails ==
    /\ encodePc \in {"dequeue output", "dequeue capture"}
    /\ IF encodePc = "dequeue output" /\ drained = <<>> THEN NoFault ELSE DriverFault
    /\ Fail /\ UNCHANGED driverQueues

(* The coded frame is copied out of its buffer, which goes back. *)
DequeueCapture ==
    /\ encodePc = "dequeue capture"
    /\ coded' = Tail(coded) /\ free' = free + 1
    /\ answer' = Head(coded)
    /\ encodePc' = "idle"
    /\ NoFault
    /\ UNCHANGED <<owned, drained, streaming, nextOut, frame, retried, refused>>

(* The buffer does not go back, or what it holds is no H.264. *)
AnswerSpoilt ==
    /\ encodePc = "dequeue capture"
    /\ coded' = Tail(coded) /\ free' \in {free, free + 1}
    /\ DriverFault /\ Fail
    /\ UNCHANGED <<owned, drained, streaming>>

(* STREAMOFF takes every buffer back from the driver. *)
ResetQueues ==
    /\ encodePc = "reset"
    /\ owned' = <<>> /\ drained' = <<>> /\ coded' = <<>>
    /\ free' = BufferCount /\ streaming' = TRUE
    /\ nextOut' = 0 /\ retried' = TRUE
    /\ encodePc' = "queue" /\ refused' = FALSE /\ NoFault
    /\ UNCHANGED <<answer, frame>>

(* ... and may fail before the OUTPUT queue is off, before the CAPTURE queue
   is, with part of the CAPTURE buffers queued, or before both are on. *)
ResetFails ==
    /\ encodePc = "reset"
    /\ \/ UNCHANGED driverQueues
       \/ /\ owned' = <<>> /\ drained' = <<>> /\ streaming' = FALSE
          /\ \/ UNCHANGED <<coded, free>>
             \/ coded' = <<>> /\ free' \in 0 .. BufferCount
    /\ DriverFault
    /\ encodePc' = "idle" /\ answer' = 0 /\ refused' = TRUE
    /\ UNCHANGED <<nextOut, frame, retried>>

(* The driver codes the oldest frame it has. *)
DriverCodes ==
    /\ CanCode
    /\ drained' = Append(drained, Head(owned).buf)
    /\ coded' = Append(coded, Head(owned).frame)
    /\ owned' = Tail(owned) /\ free' = free - 1
    /\ UNCHANGED <<streaming, nextOut, frame, encodePc, retried, answer, calm, refused, driverFaults>>

EncoderNext ==
    \/ Encode \/ QueueOutput \/ QueueFails \/ Poll \/ PollFails
    \/ DequeueOutput \/ DequeueCapture \/ DequeueFails \/ AnswerSpoilt
    \/ ResetQueues \/ ResetFails \/ DriverCodes

-----------------------------------------------------------------------------
(* The encoder does not wedge and does not fall behind (Encode, resetQueues):
   a call during which the driver fails nowhere returns a coded frame,
   whatever earlier calls left in the queues, and what a call returns is the
   frame it was given or, after a call that failed twice, the one before (as
   long as the driver does not refuse the reset itself). *)
EncoderRecovers ==
    encodePc = "idle" /\ frame > 0 =>
        /\ answer = 0 => ~calm
        /\ answer # 0 /\ ~refused => frame - answer \in {0, 1}

=============================================================================
