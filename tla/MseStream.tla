------------------------------ MODULE MseStream ------------------------------
(***************************************************************************)
(* The chunked fMP4 handler (internal/web/stream_mse.go): one HTTP         *)
(* connection consumes one hub subscription, fast-forwards through backlog *)
(* when it lags and realigns on a keyframe after a loss, because a decoder *)
(* fed a frame whose reference is missing freezes until the next IDR.      *)
(*                                                                         *)
(* Composed with LossyChannel: the camera and the hub run between any two  *)
(* steps of the handler.  A unit is a keyframe or a delta frame, which     *)
(* needs the frame before it.  Keyframes carry SPS and PPS: the camera     *)
(* pump injects them (cmd/server/main.go).                                 *)
(***************************************************************************)
EXTENDS LossyChannel

CONSTANTS Key, Delta

ASSUME UnitsAssumption == Units = {Key, Delta} /\ Key # Delta

VARIABLES pc,           \* where the handler is in the body of its range loop
          au,           \* the unit in hand
          drainedNonKey,\* this iteration skipped units and landed on no keyframe
          initialized,  \* the init segment was sent
          needKey,      \* realignTracker.needKey
          seenDrops,    \* realignTracker.seenDrops
          missing,      \* why units between the last one sent and au are missing
          sent,         \* the last unit sent and what was missing before it
          early         \* when the last keyframe was sent, every loss had been
                        \* acknowledged, and a hole still lay ahead

handlerVars == <<pc, au, drainedNonKey, initialized, needKey, seenDrops,
                 missing, sent, early>>
vars == <<channelVars, handlerVars>>

Reasons == {"lost", "skipped"}

TypeOK ==
    /\ ChannelTypeOK
    /\ pc \in {"start", "range", "drain", "gate", "returned"}
    /\ au \in Item
    /\ drainedNonKey \in BOOLEAN
    /\ initialized \in BOOLEAN
    /\ needKey \in BOOLEAN
    /\ seenDrops \in 0 .. lost
    /\ missing \subseteq Reasons
    /\ sent \in [unit : Units, missing : SUBSET Reasons]
    /\ early \in BOOLEAN

Init ==
    /\ ChannelInit
    /\ pc = "start"
    /\ au = [unit |-> Delta, gap |-> FALSE]
    /\ drainedNonKey = FALSE
    /\ initialized = FALSE
    /\ needKey = FALSE
    /\ seenDrops = 0
    /\ missing = {}
    /\ sent = [unit |-> Key, missing |-> {}]
    /\ early = FALSE

-----------------------------------------------------------------------------

(* realignTracker{seenDrops: sub.Dropped()}, some time after Subscribe. *)
Begin ==
    /\ pc = "start"
    /\ seenDrops' = lost
    /\ pc' = "range"
    /\ UNCHANGED <<channelVars, au, drainedNonKey, initialized, needKey,
                   missing, sent, early>>

(* The oldest queued unit becomes the one in hand. *)
TakeInHand ==
    /\ Take
    /\ au' = Head(queue)

LossBefore(item) == IF item.gap THEN {"lost"} ELSE {}

(* for au := range sub.Channel *)
Receive ==
    /\ pc = "range"
    /\ TakeInHand
    /\ drainedNonKey' = FALSE
    /\ missing' = missing \cup LossBefore(Head(queue))
    /\ pc' = "drain"
    /\ UNCHANGED <<initialized, needKey, seenDrops, sent, early>>

(* One turn of the fast-forward loop: the unit in hand is discarded for the
   next one; a keyframe ends the loop. *)
DrainOne ==
    LET landedOnKey == Head(queue).unit = Key IN
    /\ pc = "drain"
    /\ Len(queue) > 2
    /\ TakeInHand
    /\ missing' = missing \cup {"skipped"} \cup LossBefore(Head(queue))
    /\ drainedNonKey' = ~landedOnKey
    /\ pc' = IF landedOnKey THEN "gate" ELSE "drain"
    /\ UNCHANGED <<initialized, needKey, seenDrops, sent, early>>

DrainDone ==
    /\ pc = "drain"
    /\ Len(queue) <= 2
    /\ pc' = "gate"
    /\ UNCHANGED <<channelVars, au, drainedNonKey, initialized, needKey,
                   seenDrops, missing, sent, early>>

(* A hole the handler has yet to reach. *)
HoleAhead == hole \/ \E i \in 1 .. Len(queue) : queue[i].gap

Send ==
    /\ sent' = [unit |-> au.unit, missing |-> missing]
    /\ missing' = {}

Skip ==
    /\ missing' = missing \cup {"skipped"}
    /\ UNCHANGED sent

(* Nothing is sent before the first keyframe, and that one does not pass the
   realign tracker. *)
Initialize ==
    /\ pc = "gate"
    /\ ~initialized
    /\ IF au.unit = Key
       THEN /\ initialized' = TRUE
            /\ early' = (HoleAhead /\ seenDrops = lost)
            /\ Send
       ELSE /\ UNCHANGED <<initialized, early>>
            /\ Skip
    /\ pc' = "range"
    /\ UNCHANGED <<channelVars, au, drainedNonKey, needKey, seenDrops>>

(* Mutants of Allow: a moved drop counter is not seen; the demand outlives the
   keyframe that meets it. *)
Gate(demand, still) ==
    /\ pc = "gate"
    /\ initialized
    /\ seenDrops' = lost
    /\ needKey' = still
    /\ IF demand /\ au.unit # Key THEN Skip ELSE Send
    /\ early' = IF au.unit = Key THEN HoleAhead ELSE early
    /\ pc' = "range"
    /\ UNCHANGED <<channelVars, au, drainedNonKey, initialized>>

AllowBlindToLosses ==
    LET demand == needKey \/ drainedNonKey
    IN  Gate(demand, demand /\ au.unit # Key)

AllowSticky ==
    LET demand == needKey \/ lost # seenDrops \/ drainedNonKey
    IN  Gate(demand, demand)

(* realignTracker.allow: a moved drop counter or a skipped range demands a
   keyframe; the keyframe in hand meets every demand. *)
Allow ==
    LET demand == needKey \/ lost # seenDrops \/ drainedNonKey IN
    /\ pc = "gate"
    /\ initialized
    /\ seenDrops' = lost
    /\ needKey' = (demand /\ au.unit # Key)
    /\ IF needKey' THEN Skip ELSE Send
    /\ early' = IF au.unit = Key THEN HoleAhead ELSE early
    /\ pc' = "range"
    /\ UNCHANGED <<channelVars, au, drainedNonKey, initialized>>

(* The request context is done, or a write to the client failed: the deferred
   Unsubscribe closes the channel. *)
Return ==
    /\ pc \in {"drain", "gate"}
    /\ IF open THEN Close ELSE UNCHANGED channelVars
    /\ pc' = "returned"
    /\ UNCHANGED <<au, drainedNonKey, initialized, needKey, seenDrops, missing,
                   sent, early>>

(* The range loop ends when the closed channel is empty. *)
RangeEnds ==
    /\ pc = "range"
    /\ ~open
    /\ queue = <<>>
    /\ pc' = "returned"
    /\ UNCHANGED <<channelVars, au, drainedNonKey, initialized, needKey,
                   seenDrops, missing, sent, early>>

(* The handler's own steps, once it has a unit. *)
Handler ==
    \/ Begin
    \/ Receive
    \/ DrainOne
    \/ DrainDone
    \/ Initialize
    \/ Allow
    \/ RangeEnds

(* The camera pump writes a unit; the request's context ends. *)
Camera(u) == Deliver(u) /\ UNCHANGED handlerVars
Overflow == Lose /\ UNCHANGED handlerVars
Disconnect == Close /\ UNCHANGED handlerVars

Next ==
    \/ Handler
    \/ Return
    \/ \E u \in Units : Camera(u)
    \/ Overflow
    \/ Disconnect

(* The handler goroutine is scheduled; the encoder emits an IDR every
   camera.idr_period frames. *)
Spec == Init /\ [][Next]_vars /\ WF_vars(Handler) /\ WF_vars(Camera(Key))

-----------------------------------------------------------------------------

(* A range the handler skipped itself, draining or waiting for a keyframe, is
   always followed by a keyframe. *)
SkippedRangesRealigned == sent.unit = Delta => "skipped" \notin sent.missing

(* A hole the hub left is crossed by a delta frame only when the loss was
   acknowledged too early: before a keyframe queued in front of the hole. *)
LossesRealignedUnlessEarly ==
    sent.unit = Delta /\ "lost" \in sent.missing => early

(* Both: the sequence a client gets is whole between two keyframes, but for
   losses acknowledged too early. *)
HolesRealigned == SkippedRangesRealigned /\ LossesRealignedUnlessEarly

(* A client that keeps up is not left waiting: once at most two units are
   ever queued, a stream that waits for a keyframe resumes. *)
StreamResumes ==
    <>[](Len(queue) <= 2) => (needKey ~> (~needKey \/ pc = "returned"))

===============================================================================
