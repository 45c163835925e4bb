---------------------------- MODULE MseStreamProofs ---------------------------
(***************************************************************************)
(* Proofs about the chunked fMP4 handler, for any capacity of its channel  *)
(* and any number of losses.                                               *)
(***************************************************************************)
EXTENDS MseStream, TLAPS

StreamState ==
    /\ queue \in Seq(Item) /\ hole \in BOOLEAN
    /\ au \in Item
    /\ missing \subseteq Reasons
    /\ lost \in Nat /\ seenDrops \in Nat /\ seenDrops <= lost
    /\ pc = "start" => ~initialized

(* What the handler skipped and has not made up for is remembered: between two
   units in needKey, inside the loop body in drainedNonKey too, and at the gate
   a keyframe in hand will do. *)
SkipsRemembered ==
    initialized /\ "skipped" \in missing =>
        \/ needKey
        \/ pc \in {"drain", "gate"} /\ drainedNonKey
        \/ pc = "gate" /\ au.unit = Key
        \/ pc = "returned"

(* A hole, in the channel or already crossed, is either unacknowledged, or the
   handler waits for a keyframe, or it was acknowledged too early. *)
Owing == HoleAhead \/ "lost" \in missing

HolesRemembered == initialized /\ Owing => needKey \/ seenDrops # lost \/ early

MseInv == StreamState /\ SkipsRemembered /\ HolesRemembered /\ HolesRealigned

GapIn(q) == \E i \in 1 .. Len(q) : q[i].gap

(* The first unit's gap and those of the rest are the gaps of the queue. *)
LEMMA GapsTaken ==
  ASSUME NEW q \in Seq(Item), q # <<>>
  PROVE  /\ Head(q) \in Item /\ Tail(q) \in Seq(Item)
         /\ GapIn(Tail(q)) \/ Head(q).gap => GapIn(q)
<1>1. /\ Head(q) = q[1] /\ Len(q) \in Nat \ {0} /\ Len(Tail(q)) = Len(q) - 1
      /\ \A i \in 1 .. Len(q) - 1 : Tail(q)[i] = q[i + 1]
      /\ Head(q) \in Item /\ Tail(q) \in Seq(Item)
  OBVIOUS
<1>2. Head(q).gap => GapIn(q) BY <1>1 DEF GapIn
<1>3. ASSUME GapIn(Tail(q)) PROVE GapIn(q)
  <2>1. PICK i \in 1 .. Len(Tail(q)) : Tail(q)[i].gap BY <1>3 DEF GapIn
  <2>2. i + 1 \in 1 .. Len(q) /\ q[i + 1].gap BY <1>1, <2>1
  <2> QED BY <2>2 DEF GapIn
<1> QED BY <1>1, <1>2, <1>3

(* A delivered unit carries the hole that preceded it, and adds none. *)
LEMMA GapsDelivered ==
  ASSUME NEW q \in Seq(Item), NEW item \in Item
  PROVE  /\ Append(q, item) \in Seq(Item)
         /\ GapIn(Append(q, item)) => GapIn(q) \/ item.gap
<1>1. /\ Append(q, item) \in Seq(Item) /\ Len(Append(q, item)) = Len(q) + 1
      /\ Len(q) \in Nat
      /\ \A i \in 1 .. Len(q) : Append(q, item)[i] = q[i]
      /\ Append(q, item)[Len(q) + 1] = item
  OBVIOUS
<1>2. ASSUME GapIn(Append(q, item)), ~item.gap PROVE GapIn(q)
  <2>1. PICK i \in 1 .. Len(Append(q, item)) : Append(q, item)[i].gap BY <1>2 DEF GapIn
  <2>2. i # Len(q) + 1 BY <1>1, <1>2, <2>1
  <2>3. i \in 1 .. Len(q) BY <1>1, <2>1, <2>2
  <2> QED BY <1>1, <2>1, <2>3 DEF GapIn
<1> QED BY <1>1, <1>2

LEMMA InitEstablishes == Init => MseInv
<1> SUFFICES ASSUME Init PROVE MseInv OBVIOUS
<1>1. /\ queue = <<>> /\ hole = FALSE /\ lost = 0 /\ seenDrops = 0
      /\ missing = {} /\ pc = "start"
  BY DEF Init, ChannelInit
<1>2. ~initialized BY DEF Init
<1>3. au \in Item BY UnitsAssumption DEF Init, Item
<1>4. StreamState
  <2>1. queue \in Seq(Item) BY <1>1
  <2>2. hole \in BOOLEAN BY <1>1, Zenon
  <2>3. /\ lost \in Nat /\ seenDrops \in Nat /\ seenDrops <= lost
        /\ missing \subseteq Reasons
    BY <1>1
  <2> QED BY <1>2, <1>3, <2>1, <2>2, <2>3, Zenon DEF StreamState
<1>5. sent.unit = Key BY DEF Init
<1>6. HolesRealigned
  BY <1>5, UnitsAssumption
  DEF HolesRealigned, SkippedRangesRealigned, LossesRealignedUnlessEarly
<1> QED BY <1>2, <1>4, <1>6 DEF MseInv, SkipsRemembered, HolesRemembered

(* Steps of the channel alone, or of the handler to its end. *)
LEMMA ChannelKeeps ==
  ASSUME MseInv, (\E u \in Units : Deliver(u)) \/ Lose \/ Close \/ UNCHANGED channelVars
  PROVE  /\ queue' \in Seq(Item) /\ hole' \in BOOLEAN /\ lost' \in Nat /\ lost <= lost'
         /\ HoleAhead' => HoleAhead \/ lost < lost'
<1>1. queue \in Seq(Item) /\ hole \in BOOLEAN /\ lost \in Nat
  BY DEF MseInv, StreamState
<1>2. ASSUME NEW u \in Units, Deliver(u)
      PROVE  /\ queue' \in Seq(Item) /\ hole' \in BOOLEAN /\ lost' = lost
             /\ HoleAhead' => HoleAhead
  <2> DEFINE item == [unit |-> u, gap |-> hole]
  <2>1. item \in Item BY <1>1 DEF Item
  <2>2. queue' = Append(queue, item) BY <1>2 DEF Deliver
  <2>3. queue' \in Seq(Item) /\ (GapIn(queue') => GapIn(queue) \/ item.gap)
    BY <1>1, <2>1, <2>2, GapsDelivered
  <2>4. hole' = FALSE /\ lost' = lost BY <1>2 DEF Deliver
  <2> QED BY <2>3, <2>4 DEF HoleAhead, GapIn
<1>3. CASE Lose
  <2>1. queue' = queue /\ hole' = TRUE /\ lost' = lost + 1 BY <1>3 DEF Lose
  <2>2. hole' \in BOOLEAN BY <2>1
  <2>3. lost' \in Nat /\ lost < lost' BY <1>1, <2>1
  <2> QED BY <1>1, <2>1, <2>2, <2>3
<1>4. CASE Close
  <2>1. queue' = queue /\ hole' = FALSE /\ lost' = lost BY <1>4 DEF Close
  <2>2. hole' \in BOOLEAN BY <2>1, Zenon
  <2>3. HoleAhead' => HoleAhead BY <2>1 DEF HoleAhead
  <2> QED BY <1>1, <2>1, <2>2, <2>3
<1>5. CASE UNCHANGED channelVars
  <2>1. queue' = queue /\ hole' = hole /\ lost' = lost BY <1>5 DEF channelVars
  <2>2. HoleAhead' => HoleAhead BY <2>1 DEF HoleAhead
  <2> QED BY <1>1, <2>1, <2>2
<1> QED BY <1>1, <1>2, <1>3, <1>4, <1>5

LEMMA Elsewhere ==
  ASSUME MseInv,
         (\E u \in Units : Deliver(u)) \/ Lose \/ Close \/ UNCHANGED channelVars,
         au' = au, drainedNonKey' = drainedNonKey, initialized' = initialized,
         needKey' = needKey, seenDrops' = seenDrops, missing' = missing,
         sent' = sent, early' = early,
         pc' = pc \/ pc' = "returned" \/ (pc = "drain" /\ pc' = "gate")
  PROVE  MseInv'
<1>1. /\ queue' \in Seq(Item) /\ hole' \in BOOLEAN /\ lost' \in Nat /\ lost <= lost'
      /\ HoleAhead' => HoleAhead \/ lost < lost'
  BY ChannelKeeps
<1>2. StreamState' BY <1>1 DEF MseInv, StreamState
<1>3. SkipsRemembered' BY DEF MseInv, SkipsRemembered
<1>4. HolesRemembered'
  <2>1. CASE lost < lost' BY <1>1, <2>1 DEF MseInv, StreamState, HolesRemembered
  <2>2. CASE lost' = lost /\ (HoleAhead' => HoleAhead)
    BY <2>2 DEF MseInv, HolesRemembered, Owing
  <2> QED BY <1>1, <2>1, <2>2 DEF MseInv, StreamState
<1>5. HolesRealigned'
  BY DEF MseInv, HolesRealigned, SkippedRangesRealigned, LossesRealignedUnlessEarly
<1> QED BY <1>2, <1>3, <1>4, <1>5 DEF MseInv

(* Receive and DrainOne: the hole before the unit in hand is no longer ahead
   and is now among what is missing. *)
LEMMA HandTakes ==
  ASSUME MseInv, TakeInHand, NEW skipped \in SUBSET {"skipped"},
         missing' = missing \cup skipped \cup LossBefore(Head(queue))
  PROVE  /\ queue' \in Seq(Item) /\ au' \in Item /\ missing' \subseteq Reasons
         /\ hole' \in BOOLEAN /\ lost' = lost
         /\ au' = Head(queue)
         /\ Owing' => Owing
         /\ skipped = {} => ("skipped" \in missing' => "skipped" \in missing)
<1>1. /\ queue # <<>> /\ queue' = Tail(queue) /\ au' = Head(queue)
      /\ hole' = hole /\ lost' = lost
  BY DEF TakeInHand, Take
<1>2. queue \in Seq(Item) /\ hole \in BOOLEAN /\ missing \subseteq Reasons
  BY DEF MseInv, StreamState
<1>3. /\ Head(queue) \in Item /\ Tail(queue) \in Seq(Item)
      /\ GapIn(Tail(queue)) \/ Head(queue).gap => GapIn(queue)
  BY <1>1, <1>2, GapsTaken
<1>4. LossBefore(Head(queue)) \subseteq {"lost"}
      /\ ("lost" \in LossBefore(Head(queue)) => Head(queue).gap)
  BY DEF LossBefore
<1>5. missing' \subseteq Reasons BY <1>2, <1>4 DEF Reasons
<1>6. "lost" \in missing' => "lost" \in missing \/ Head(queue).gap BY <1>4
<1>7. HoleAhead' => hole \/ GapIn(Tail(queue)) BY <1>1 DEF HoleAhead, GapIn
<1>8. Owing' => Owing BY <1>3, <1>6, <1>7 DEF Owing, HoleAhead, GapIn
<1>9. skipped = {} => ("skipped" \in missing' => "skipped" \in missing) BY <1>4
<1>10. hole' \in BOOLEAN BY <1>1, <1>2
<1> QED BY <1>10, <1>1, <1>2, <1>3, <1>5, <1>8, <1>9

LEMMA StepPreserves == MseInv /\ [Next]_vars => MseInv'
<1> SUFFICES ASSUME MseInv, [Next]_vars PROVE MseInv' OBVIOUS
<1>0. /\ queue \in Seq(Item) /\ hole \in BOOLEAN /\ au \in Item /\ missing \subseteq Reasons
      /\ lost \in Nat /\ seenDrops \in Nat /\ seenDrops <= lost
      /\ pc = "start" => ~initialized
      /\ SkipsRemembered /\ HolesRemembered /\ HolesRealigned
  BY DEF MseInv, StreamState
<1>1. CASE Begin
  <2>1. /\ UNCHANGED <<channelVars, au, initialized, missing, sent, early>>
        /\ ~initialized /\ seenDrops' = lost /\ pc' = "range"
    BY <1>0, <1>1 DEF Begin
  <2>2. StreamState' BY <1>0, <2>1 DEF StreamState, channelVars
  <2>3. HolesRealigned'
    BY <1>0, <2>1 DEF HolesRealigned, SkippedRangesRealigned, LossesRealignedUnlessEarly
  <2> QED BY <2>1, <2>2, <2>3 DEF MseInv, SkipsRemembered, HolesRemembered
<1>2. CASE Receive
  <2>1. /\ TakeInHand /\ missing' = missing \cup {} \cup LossBefore(Head(queue))
        /\ UNCHANGED <<initialized, needKey, seenDrops, sent, early>>
        /\ pc = "range" /\ pc' = "drain"
    BY <1>2 DEF Receive
  <2>2. /\ queue' \in Seq(Item) /\ au' \in Item /\ missing' \subseteq Reasons
        /\ hole' \in BOOLEAN /\ lost' = lost /\ (Owing' => Owing)
        /\ "skipped" \in missing' => "skipped" \in missing
    <3> DEFINE none == {}
    <3>1. none \in SUBSET {"skipped"} OBVIOUS
    <3>2. missing' = missing \cup none \cup LossBefore(Head(queue)) BY <2>1
    <3>3. none = {} OBVIOUS
    <3> HIDE DEF none
    <3> QED BY <2>1, <3>1, <3>2, <3>3, HandTakes
  <2>3. StreamState' BY <1>0, <2>1, <2>2 DEF StreamState
  <2>4. SkipsRemembered' BY <1>0, <2>1, <2>2 DEF SkipsRemembered
  <2>5. HolesRemembered' BY <1>0, <2>1, <2>2 DEF HolesRemembered
  <2>6. HolesRealigned'
    BY <1>0, <2>1 DEF HolesRealigned, SkippedRangesRealigned, LossesRealignedUnlessEarly
  <2> QED BY <2>3, <2>4, <2>5, <2>6 DEF MseInv
<1>3. CASE DrainOne
  <2>1. /\ TakeInHand /\ missing' = missing \cup {"skipped"} \cup LossBefore(Head(queue))
        /\ UNCHANGED <<initialized, needKey, seenDrops, sent, early>>
        /\ drainedNonKey' = ~(Head(queue).unit = Key)
        /\ pc = "drain" /\ pc' = IF Head(queue).unit = Key THEN "gate" ELSE "drain"
    BY <1>3 DEF DrainOne
  <2>2. /\ queue' \in Seq(Item) /\ au' \in Item /\ missing' \subseteq Reasons
        /\ hole' \in BOOLEAN /\ lost' = lost /\ (Owing' => Owing)
        /\ au' = Head(queue)
    BY <2>1, HandTakes
  <2>3. StreamState' BY <1>0, <2>1, <2>2 DEF StreamState
  <2>4. SkipsRemembered' BY <2>1, <2>2 DEF SkipsRemembered
  <2>5. HolesRemembered' BY <1>0, <2>1, <2>2 DEF HolesRemembered
  <2>6. HolesRealigned'
    BY <1>0, <2>1 DEF HolesRealigned, SkippedRangesRealigned, LossesRealignedUnlessEarly
  <2> QED BY <2>3, <2>4, <2>5, <2>6 DEF MseInv
<1>4. CASE DrainDone BY <1>4, Elsewhere DEF DrainDone
<1>5. CASE Initialize
  <2>1. /\ UNCHANGED <<channelVars, au, needKey, seenDrops>>
        /\ pc = "gate" /\ pc' = "range" /\ ~initialized
    BY <1>5 DEF Initialize
  <2>2. CASE au.unit = Key
    <3>1. /\ early' = (HoleAhead /\ seenDrops = lost)
          /\ sent' = [unit |-> au.unit, missing |-> missing] /\ missing' = {}
      BY <1>5, <2>2 DEF Initialize, Send
    <3>2. StreamState' BY <1>0, <2>1, <3>1 DEF StreamState, channelVars
    <3>3. HoleAhead' = HoleAhead BY <2>1 DEF HoleAhead, channelVars
    <3>4. Owing' => HoleAhead BY <3>1, <3>3 DEF Owing
    <3>5. lost' = lost BY <2>1 DEF channelVars
    <3>6. HolesRemembered' BY <2>1, <3>1, <3>4, <3>5 DEF HolesRemembered
    <3>7. SkipsRemembered' BY <3>1 DEF SkipsRemembered
    <3>8. sent'.unit = Key BY <2>2, <3>1
    <3>9. HolesRealigned'
      BY <3>8, UnitsAssumption
      DEF HolesRealigned, SkippedRangesRealigned, LossesRealignedUnlessEarly
    <3> QED BY <3>2, <3>6, <3>7, <3>9 DEF MseInv
  <2>3. CASE au.unit # Key
    <3>1. /\ UNCHANGED <<initialized, early, sent>>
          /\ missing' = missing \cup {"skipped"}
      BY <1>5, <2>3 DEF Initialize, Skip
    <3>2. StreamState' BY <1>0, <2>1, <3>1 DEF StreamState, channelVars, Reasons
    <3>3. HolesRealigned'
      BY <1>0, <3>1 DEF HolesRealigned, SkippedRangesRealigned, LossesRealignedUnlessEarly
    <3> QED BY <2>1, <3>1, <3>2, <3>3 DEF MseInv, SkipsRemembered, HolesRemembered
  <2> QED BY <2>2, <2>3
<1>6. CASE Allow
  <2> DEFINE demand == needKey \/ lost # seenDrops \/ drainedNonKey
  <2>1. /\ UNCHANGED <<channelVars, au, drainedNonKey, initialized>>
        /\ pc = "gate" /\ pc' = "range" /\ initialized
        /\ seenDrops' = lost /\ needKey' = (demand /\ au.unit # Key)
        /\ IF needKey' THEN Skip ELSE Send
        /\ early' = IF au.unit = Key THEN HoleAhead ELSE early
    BY <1>6 DEF Allow
  <2>2. lost' = lost /\ HoleAhead' = HoleAhead BY <2>1 DEF HoleAhead, channelVars
  <2>3. CASE demand /\ au.unit # Key
    <3>1. needKey' BY <2>1, <2>3
    <3>2. missing' = missing \cup {"skipped"} /\ sent' = sent /\ early' = early
      BY <2>1, <2>3, <3>1 DEF Skip
    <3>3. StreamState' BY <1>0, <2>1, <3>2 DEF StreamState, channelVars, Reasons
    <3>4. HolesRealigned'
      BY <1>0, <3>2 DEF HolesRealigned, SkippedRangesRealigned, LossesRealignedUnlessEarly
    <3> QED BY <3>1, <3>3, <3>4 DEF MseInv, SkipsRemembered, HolesRemembered
  <2>4. CASE ~(demand /\ au.unit # Key)
    <3>1. ~needKey' BY <2>1, <2>4
    <3>2. sent' = [unit |-> au.unit, missing |-> missing] /\ missing' = {}
      BY <2>1, <3>1 DEF Send
    <3>3. StreamState' BY <1>0, <2>1, <3>2 DEF StreamState, channelVars
    <3>4. SkipsRemembered' BY <3>2 DEF SkipsRemembered
    <3>5. Owing' => HoleAhead BY <2>2, <3>2 DEF Owing
    <3>6. CASE au.unit = Key
      <4>1. early' = HoleAhead BY <2>1, <3>6
      <4>2. HolesRemembered' BY <3>5, <4>1 DEF HolesRemembered
      <4>3. sent'.unit = Key BY <3>2, <3>6
      <4>4. HolesRealigned'
        BY <4>3, UnitsAssumption
        DEF HolesRealigned, SkippedRangesRealigned, LossesRealignedUnlessEarly
      <4> QED BY <3>3, <3>4, <4>2, <4>4 DEF MseInv
    <3>7. CASE au.unit # Key
      <4>1. ~needKey /\ lost = seenDrops /\ ~drainedNonKey BY <2>4, <3>7
      <4>2. early' = early BY <2>1, <3>7
      <4>3. Owing => early BY <1>0, <2>1, <4>1 DEF HolesRemembered
      <4>4. HolesRemembered' BY <3>5, <4>2, <4>3 DEF HolesRemembered, Owing
      <4>5. "skipped" \notin missing BY <1>0, <2>1, <3>7, <4>1 DEF SkipsRemembered
      <4>6. sent'.missing = missing BY <3>2
      <4>7. HolesRealigned'
        BY <4>2, <4>3, <4>5, <4>6
        DEF HolesRealigned, SkippedRangesRealigned, LossesRealignedUnlessEarly, Owing
      <4> QED BY <3>3, <3>4, <4>4, <4>7 DEF MseInv
    <3> QED BY <3>6, <3>7
  <2> QED BY <2>3, <2>4
<1>7. CASE Return \/ RangeEnds
  <2>1. /\ Close \/ UNCHANGED channelVars
        /\ au' = au /\ drainedNonKey' = drainedNonKey /\ initialized' = initialized
        /\ needKey' = needKey /\ seenDrops' = seenDrops /\ missing' = missing
        /\ sent' = sent /\ early' = early /\ pc' = "returned"
    BY <1>7 DEF Return, RangeEnds
  <2> QED BY <2>1, Elsewhere
<1>8. CASE (\E u \in Units : Camera(u)) \/ Overflow \/ Disconnect
  <2>1. (\E u \in Units : Deliver(u)) \/ Lose \/ Close
    BY <1>8 DEF Camera, Overflow, Disconnect
  <2>2. UNCHANGED handlerVars BY <1>8 DEF Camera, Overflow, Disconnect
  <2> QED BY <2>1, <2>2, Elsewhere DEF handlerVars
<1>9. CASE UNCHANGED vars
  <2>1. UNCHANGED channelVars /\ UNCHANGED handlerVars BY <1>9 DEF vars
  <2> QED BY <2>1, Elsewhere DEF handlerVars
<1> QED BY <1>1, <1>2, <1>3, <1>4, <1>5, <1>6, <1>7, <1>8, <1>9 DEF Next, Handler

(* HolesRealigned: a delta frame crosses nothing the handler itself skipped,
   and a loss of the hub's only if it was acknowledged before a keyframe queued
   in front of it (streamMSE and realignTracker.allow, stream_mse.go). *)
THEOREM Realigned == Spec => []HolesRealigned
<1>1. MseInv => HolesRealigned BY DEF MseInv
<1> QED BY InitEstablishes, StepPreserves, <1>1, PTL DEF Spec

=============================================================================
