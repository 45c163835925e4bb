----------------------------- MODULE OutputsProofs -----------------------------
(***************************************************************************)
(* Proofs about the parts of Outputs: the RTMP push client, for any number *)
(* of retries, any backoff, any capacity of the subscription and any       *)
(* units; the substream, for any capacities, any failover budget, any      *)
(* decimation and any number of frames; the HLS segmenter and its client,  *)
(* for any segment length, window and loss; the hardware encoder, for any  *)
(* number of calls; the parameter sets on their way to the hub, for any    *)
(* channels, sessions and units; the transforms of frames, for any sides,  *)
(* boxes and tiles; and the formats, for any lengths, chunks, packets and  *)
(* cuts.                                                                   *)
(***************************************************************************)
EXTENDS Outputs, SequenceTheorems, WellFoundedInduction, TLAPS

-----------------------------------------------------------------------------
(* RTMP push *)

MessageKinds == {"header", "bare", "key", "delta", "left"}

(* The messages after j continue a run that begins at j. *)
RunsOn(s, j, i) ==
    /\ s[j] \in {"header", "bare"}
    /\ \A k \in j + 1 .. i :
          s[k] = "delta" \/ (s[k] = "key" /\ s[k - 1] = "header")

Ordered(s) ==
    \A i \in DOMAIN s :
        /\ s[i] = "header" /\ i < Len(s) => s[i + 1] = "key"
        /\ s[i] = "delta" => \E j \in 1 .. i - 1 : RunsOn(s, j, i)

(* RunsBeginWithHeader is not inductive: a header must never be the last message,
   or another one could follow it ... *)
WellSent(s) ==
    /\ s \in Seq(MessageKinds)
    /\ s # <<>> => s[Len(s)] # "header"
    /\ Ordered(s)

Carries(s) == \E j \in DOMAIN s : RunsOn(s, j, Len(s))

(* ... and a delta frame is let through by the flag, which must therefore speak
   of this connection; once it is set there are parameter sets, so that no
   keyframe goes without a header. *)
PushState ==
    /\ params \in ParamKinds
    /\ rtmpQueue \in Seq(RtmpUnit)
    /\ seqHeaderSent \in BOOLEAN
    /\ seqHeaderSent => params # "none"
    /\ WellSent(sent)

FlagOfThisConnection == seqHeaderSent /\ socket = "up" => Carries(sent)

PushInv == PushState /\ FlagOfThisConnection

(* One message that is no header, and no delta frame before a header. *)
LEMMA AppendOne ==
  ASSUME NEW s, WellSent(s),
         NEW a \in MessageKinds \ {"header"},
         a = "delta" => Carries(s)
  PROVE  /\ WellSent(s \o <<a>>)
         /\ a \in {"delta", "bare"} => Carries(s \o <<a>>)
<1> DEFINE t == s \o <<a>>
<1>1. /\ s \in Seq(MessageKinds) /\ Len(s) \in Nat
      /\ t \in Seq(MessageKinds) /\ Len(t) = Len(s) + 1
      /\ DOMAIN t = DOMAIN s \union {Len(s) + 1} /\ DOMAIN s = 1 .. Len(s)
      /\ \A j \in DOMAIN s : t[j] = s[j]
      /\ t[Len(s) + 1] = a
  BY DEF WellSent
<1>2. Ordered(s) /\ (s # <<>> => s[Len(s)] # "header") BY DEF WellSent
<1> HIDE DEF t
<1>3. ASSUME NEW i \in DOMAIN s, NEW j \in 1 .. i, RunsOn(s, j, i) PROVE RunsOn(t, j, i)
  BY <1>1, <1>3 DEF RunsOn
<1>7. ASSUME a = "delta" PROVE \E j \in DOMAIN s : RunsOn(t, j, Len(s) + 1)
  <2>1. PICK j \in DOMAIN s : RunsOn(s, j, Len(s)) BY <1>7 DEF Carries
  <2>2. RunsOn(t, j, Len(s)) BY <1>1, <1>3, <2>1
  <2> QED BY <1>1, <1>7, <2>2 DEF RunsOn
<1>8. ASSUME NEW i \in DOMAIN t, t[i] = "delta" PROVE \E j \in 1 .. i - 1 : RunsOn(t, j, i)
  <2>1. CASE i \in DOMAIN s
    <3>1. PICK j \in 1 .. i - 1 : RunsOn(s, j, i) BY <1>1, <1>2, <1>8, <2>1 DEF Ordered
    <3> QED BY <1>1, <1>3, <2>1, <3>1
  <2>2. CASE i = Len(s) + 1 BY <1>1, <1>7, <1>8, <2>2
  <2> QED BY <1>1, <2>1, <2>2
<1>4. ASSUME NEW i \in DOMAIN t, t[i] = "header", i < Len(t)
      PROVE  t[i + 1] = "key"
  <2>1. i \in DOMAIN s /\ s[i] = "header" BY <1>1, <1>4
  <2>2. i < Len(s) BY <1>1, <1>2, <2>1
  <2> QED BY <1>1, <1>2, <2>1, <2>2 DEF Ordered
<1>5. WellSent(t) BY <1>1, <1>4, <1>8 DEF WellSent, Ordered
<1>6. a \in {"delta", "bare"} => Carries(t)
  <2>1. a = "bare" => RunsOn(t, Len(t), Len(t)) BY <1>1 DEF RunsOn
  <2> QED BY <1>1, <1>7, <2>1 DEF Carries
<1> QED BY <1>5, <1>6 DEF t

(* A header with its keyframe. *)
LEMMA AppendPair ==
  ASSUME NEW s, WellSent(s)
  PROVE  WellSent(s \o <<"header", "key">>) /\ Carries(s \o <<"header", "key">>)
<1> DEFINE t == s \o <<"header", "key">>
<1>1. /\ s \in Seq(MessageKinds) /\ Len(s) \in Nat
      /\ t \in Seq(MessageKinds) /\ Len(t) = Len(s) + 2
      /\ DOMAIN t = DOMAIN s \union {Len(s) + 1, Len(s) + 2} /\ DOMAIN s = 1 .. Len(s)
      /\ \A j \in DOMAIN s : t[j] = s[j]
      /\ t[Len(s) + 1] = "header" /\ t[Len(s) + 2] = "key"
  BY DEF WellSent, MessageKinds
<1>2. Ordered(s) /\ (s # <<>> => s[Len(s)] # "header") BY DEF WellSent
<1> HIDE DEF t
<1>3. ASSUME NEW i \in DOMAIN t, t[i] = "delta"
      PROVE  \E j \in 1 .. i - 1 : RunsOn(t, j, i)
  <2>1. i \in DOMAIN s BY <1>1, <1>3
  <2>2. PICK j \in 1 .. i - 1 : RunsOn(s, j, i)
    BY <1>1, <1>2, <1>3, <2>1 DEF Ordered
  <2> QED BY <1>1, <2>1, <2>2 DEF RunsOn
<1>4. ASSUME NEW i \in DOMAIN t, t[i] = "header", i < Len(t)
      PROVE  t[i + 1] = "key"
  <2>1. CASE i \in DOMAIN s
    <3>1. i < Len(s) BY <1>1, <1>2, <1>4, <2>1
    <3> QED BY <1>1, <1>2, <1>4, <2>1, <3>1 DEF Ordered
  <2>2. CASE i = Len(s) + 1 BY <1>1, <2>2
  <2> QED BY <1>1, <1>4, <2>1, <2>2
<1>5. WellSent(t) BY <1>1, <1>3, <1>4 DEF WellSent, Ordered
<1>6. Carries(t)
  <2>1. RunsOn(t, Len(s) + 1, Len(t)) BY <1>1 DEF RunsOn
  <2> QED BY <1>1, <2>1 DEF Carries
<1> QED BY <1>5, <1>6 DEF t

(* processAU, the only place that writes units. *)
LEMMA UnitKeepsInv ==
  ASSUME PushInv, NEW unit \in RtmpUnit, ProcessAU(unit), socket' = socket
  PROVE  /\ params' \in ParamKinds
         /\ seqHeaderSent' \in BOOLEAN
         /\ seqHeaderSent' => params' # "none"
         /\ WellSent(sent')
         /\ FlagOfThisConnection'
<1>1. params' \in ParamKinds /\ (params # "none" => params' # "none")
  BY DEF ProcessAU, Merged, RtmpUnit, PushInv, PushState
<1>2. CASE UNCHANGED <<seqHeaderSent, sent>>
  BY <1>1, <1>2 DEF PushInv, PushState, FlagOfThisConnection
<1>4. CASE ~unit.key /\ ~seqHeaderSent /\ Transmit(<<"left">>) /\ UNCHANGED seqHeaderSent
  <2>1. "left" \in MessageKinds \ {"header"} /\ "left" # "delta" BY DEF MessageKinds
  <2>2. WellSent(sent \o <<"left">>) BY <2>1, AppendOne DEF PushInv, PushState
  <2>3. WellSent(sent') BY <1>4, <2>2 DEF Transmit, PushInv, PushState
  <2> QED BY <1>1, <1>4, <2>3 DEF PushInv, PushState, FlagOfThisConnection
<1> DEFINE header == unit.key /\ params' # "none"
<1>3. CASE /\ unit.key \/ seqHeaderSent
           /\ seqHeaderSent' = (seqHeaderSent \/ header)
           /\ Transmit(Messages(unit, params'))
  <2>1. seqHeaderSent' \in BOOLEAN /\ (seqHeaderSent' => params' # "none")
    BY <1>1, <1>3 DEF PushInv, PushState, RtmpUnit
  <2>2. CASE socket # "up"
    <3>1. sent' = sent BY <1>3, <2>2 DEF Transmit
    <3> QED BY <1>1, <2>1, <2>2, <3>1 DEF PushInv, PushState, FlagOfThisConnection
  <2>3. CASE socket = "up"
    <3>1. sent' = sent \o Messages(unit, params') BY <1>3, <2>3 DEF Transmit
    <3>2. CASE ~unit.key
      <4>1. Messages(unit, params') = <<"delta">> BY <3>2 DEF Messages
      <4>2. Carries(sent) BY <1>3, <2>3, <3>2 DEF PushInv, FlagOfThisConnection
      <4>3. "delta" \in MessageKinds \ {"header"} BY DEF MessageKinds
      <4>4. WellSent(sent') /\ Carries(sent')
        BY <3>1, <4>1, <4>2, <4>3, AppendOne DEF PushInv, PushState
      <4> QED BY <1>1, <2>1, <4>4 DEF FlagOfThisConnection
    <3>3. CASE unit.key /\ params' = "full"
      <4>1. Messages(unit, params') = <<"header", "key">> BY <3>3 DEF Messages
      <4>2. WellSent(sent') /\ Carries(sent')
        BY <3>1, <4>1, AppendPair DEF PushInv, PushState
      <4> QED BY <1>1, <2>1, <4>2 DEF FlagOfThisConnection
    <3>4. CASE unit.key /\ params' = "short"
      <4>1. Messages(unit, params') = <<"bare">> BY <3>4 DEF Messages
      <4>2. "bare" \in MessageKinds \ {"header"} BY DEF MessageKinds
      <4>3. WellSent(sent') /\ Carries(sent')
        BY <3>1, <4>1, <4>2, AppendOne DEF PushInv, PushState
      <4> QED BY <1>1, <2>1, <4>3 DEF FlagOfThisConnection
    <3>5. CASE unit.key /\ params' = "none"
      <4>1. Messages(unit, params') = <<"key">> BY <3>5 DEF Messages
      <4>2. "key" \in MessageKinds \ {"header"} /\ "key" # "delta" BY DEF MessageKinds
      <4>3. WellSent(sent')
        BY <3>1, <4>1, <4>2, AppendOne DEF PushInv, PushState
      <4>4. seqHeaderSent' = FALSE
        BY <1>1, <1>3, <3>5 DEF PushInv, PushState
      <4> QED BY <1>1, <2>1, <4>3, <4>4 DEF FlagOfThisConnection
    <3> QED BY <1>1, <3>2, <3>3, <3>4, <3>5 DEF ParamKinds
  <2> QED BY <2>2, <2>3
<1> QED BY <1>2, <1>3, <1>4 DEF ProcessAU

LEMMA PushInvInit == RtmpInit => PushInv
<1> SUFFICES ASSUME RtmpInit PROVE PushInv OBVIOUS
<1>1. WellSent(<<>>) BY DEF WellSent, Ordered
<1>2. sent = <<>> /\ seqHeaderSent = FALSE /\ params = "none" /\ rtmpQueue = <<>>
  BY DEF RtmpInit
<1>3. WellSent(sent) BY <1>1, <1>2, Zenon
<1>4. rtmpQueue \in Seq(RtmpUnit) BY <1>2
<1>5. params \in ParamKinds BY <1>2 DEF ParamKinds
<1>6. seqHeaderSent \in BOOLEAN BY <1>2
<1>7. seqHeaderSent => params # "none" BY <1>2
<1>8. PushState BY <1>3, <1>4, <1>5, <1>6, <1>7, Zenon DEF PushState
<1> QED BY <1>2, <1>8 DEF PushInv, FlagOfThisConnection

(* A step that leaves what was pushed alone can only end the connection. *)
LEMMA PushUntouched ==
  ASSUME PushInv, UNCHANGED <<params, seqHeaderSent, sent>>,
         rtmpQueue' \in Seq(RtmpUnit), socket' = "up" => socket = "up"
  PROVE  PushInv'
BY DEF PushInv, PushState, FlagOfThisConnection

LEMMA PushInvKept == PushInv /\ [RtmpNext]_rtmpVars => PushInv'
<1> SUFFICES ASSUME PushInv, [RtmpNext]_rtmpVars PROVE PushInv' OBVIOUS
<1> USE DEF connVars, runVars, pushVars
<1>0. rtmpQueue \in Seq(RtmpUnit) BY DEF PushInv, PushState
<1>1. CASE BeginAttempt BY <1>0, <1>1, PushUntouched DEF BeginAttempt
<1>2. CASE DialSucceeds
  <2>1. WellSent(<<>>) BY DEF WellSent, Ordered
  <2> QED BY <1>0, <1>2, <2>1 DEF DialSucceeds, PushInv, PushState, FlagOfThisConnection
<1>3. CASE DialFails BY <1>0, <1>3, PushUntouched DEF DialFails
<1>4. CASE StageFails BY <1>0, <1>4, PushUntouched DEF StageFails, CloseConn
<1>5. CASE Pause BY <1>0, <1>5, PushUntouched DEF Pause
<1>6. CASE PushUnit
  <2>1. Head(rtmpQueue) \in RtmpUnit /\ rtmpQueue' \in Seq(RtmpUnit)
    BY <1>0, <1>6 DEF PushUnit
  <2>2. ProcessAU(Head(rtmpQueue)) /\ socket' = socket BY <1>6 DEF PushUnit
  <2> QED BY <2>1, <2>2, UnitKeepsInv DEF PushInv, PushState
<1>7. CASE PushEnds
  <2>1. rtmpQueue' \in Seq(RtmpUnit) BY <1>7 DEF PushEnds
  <2> QED BY <1>7, <2>1, PushUntouched DEF PushEnds, CloseConn
<1>8. CASE RtmpStop
  BY <1>0, <1>8, PushUntouched DEF RtmpStop, StopCancels, StopCloses, StopReturns, CloseConn
<1>9. CASE RtmpEnv
  BY <1>0, <1>9, PushUntouched DEF RtmpEnv, StageAnswered, PeerLost, RtmpCancel
<1>10. ASSUME NEW unit \in RtmpUnit, RtmpReceives(unit) PROVE PushInv'
  <2>1. rtmpQueue' \in Seq(RtmpUnit) BY <1>0, <1>10 DEF RtmpReceives
  <2> QED BY <1>10, <2>1, PushUntouched DEF RtmpReceives
<1>11. CASE UNCHANGED rtmpVars BY <1>0, <1>11, PushUntouched DEF rtmpVars
<1> QED BY <1>1, <1>2, <1>3, <1>4, <1>5, <1>6, <1>7, <1>8, <1>9, <1>10, <1>11
        DEF RtmpNext, RunLoop

(* RunsBeginWithHeader: on every connection, whatever fails and whatever units the
   hub delivers, a delta frame belongs to a run that began with a sequence header,
   which is directly followed by its keyframe, and in which Push.processAU
   (push.go) left nothing out. *)
THEOREM HeaderSentFirst == RtmpSpec => []RunsBeginWithHeader
<1>1. PushInv => RunsBeginWithHeader
  BY DEF PushInv, PushState, WellSent, Ordered, RunsOn, RunsBeginWithHeader
<1> QED BY PushInvInit, PushInvKept, <1>1, PTL DEF RtmpSpec

-----------------------------------------------------------------------------
(* The substream *)

(* OneEncoderSession is not inductive: that a reader never meets a closed
   channel, and that a fallback starts beside nothing, is known from where Run
   is. *)
PlacesOfRun ==
    /\ readers \in Nat
    /\ ~framesOpen => run = "ended"
    /\ disabled => run \notin {"encode", "close", "reopen"}
    /\ run = "none" => enc = "none" /\ ~process /\ readers = 0
    /\ enc = "m2m" => readers = 0

SubstreamInv == OneEncoderSession /\ PlacesOfRun

(* Whichever encoder opened, or none. *)
LEMMA SubstreamInvInit == SubstreamInit => SubstreamInv
<1> SUFFICES ASSUME SubstreamInit PROVE SubstreamInv
  OBVIOUS
<1>1. PICK kind \in {"m2m", "ffmpeg", "none"} :
          OpenEncoder(kind) /\ run = IF kind = "none" THEN "none" ELSE "wait"
  BY DEF SubstreamInit
<1>2. kind # "ffmpeg" => ~process
  BY <1>1, Zenon DEF OpenEncoder
<1>3. ~panicked /\ ~disabled /\ framesOpen
  BY Zenon DEF SubstreamInit
<1> QED BY <1>1, <1>2, <1>3 DEF OpenEncoder, SubstreamInv, OneEncoderSession, PlacesOfRun

(* The camera offers frames and touches nothing of the encoder. *)
LEMMA CameraSideKeeps ==
  ASSUME SubstreamInv, CameraSide \/ SubStop \/ SubPump
  PROVE  SubstreamInv'
<1>1. UNCHANGED <<run, enc, process, readers, disabled, framesOpen, panicked>>
  BY DEF CameraSide, CamStart, CamRead, CamTap, CamEncode, CamStop, SubStop, SubPump,
         loopOfRun, outVars
<1> QED BY <1>1 DEF SubstreamInv, OneEncoderSession, PlacesOfRun

(* Run encodes, fails over and ends. *)
LEMMA RunKeeps ==
  ASSUME SubstreamInv,
         \/ TakeFrame \/ EncodeWorks \/ EncodeFails \/ KillProcess
         \/ FailoverCloses \/ FailoverOpens \/ RunStops \/ RunEnds
  PROVE  SubstreamInv'
<1> USE DEF SubstreamInv, OneEncoderSession, PlacesOfRun, outVars
<1>1. CASE TakeFrame BY <1>1 DEF TakeFrame
<1>2. CASE EncodeWorks BY <1>2 DEF EncodeWorks, Emit
<1>3. CASE EncodeFails BY <1>3 DEF EncodeFails
<1>4. CASE KillProcess BY <1>4 DEF KillProcess
<1>5. CASE FailoverCloses BY <1>5 DEF FailoverCloses, CloseEncoder
<1>6. CASE FailoverOpens BY <1>6 DEF FailoverOpens
<1>7. CASE RunStops BY <1>7 DEF RunStops
<1>8. CASE RunEnds BY <1>8 DEF RunEnds, CloseEncoder
<1> QED BY <1>1, <1>2, <1>3, <1>4, <1>5, <1>6, <1>7, <1>8

(* The process and its reader: while there is a reader the channel is open. *)
LEMMA ReaderKeeps ==
  ASSUME SubstreamInv, ReaderDelivers \/ ReaderEnds \/ ProcessDies
  PROVE  SubstreamInv'
<1> USE DEF SubstreamInv, OneEncoderSession, PlacesOfRun, outVars
<1>1. CASE ReaderDelivers
  <2>1. framesOpen /\ ~panicked BY <1>1 DEF ReaderDelivers
  <2>2. ~panicked' BY <1>1, <2>1, Zenon DEF ReaderDelivers, Emit
  <2>3. readers' \in {readers, readers - 1} BY <1>1, Zenon DEF ReaderDelivers
  <2> QED BY <1>1, <2>1, <2>2, <2>3 DEF ReaderDelivers, Emit
<1>2. CASE ReaderEnds BY <1>2 DEF ReaderEnds
<1>3. CASE ProcessDies BY <1>3 DEF ProcessDies
<1> QED BY <1>1, <1>2, <1>3

(* One encoder session at a time, whatever fails and whenever Stop comes: no
   fallback beside what is left of the first encoder, none once the pipeline is
   disabled or has ended, and no send on the closed channel. *)
THEOREM OneEncoder == SubstreamSpec => []OneEncoderSession
<1>1. SubstreamInv /\ [SubstreamNext]_subVars => SubstreamInv'
  <2> SUFFICES ASSUME SubstreamInv, [SubstreamNext]_subVars PROVE SubstreamInv'
    OBVIOUS
  <2>1. CASE UNCHANGED subVars
    BY <2>1 DEF subVars, SubstreamInv, OneEncoderSession, PlacesOfRun
  <2> QED BY <2>1, CameraSideKeeps, RunKeeps, ReaderKeeps DEF SubstreamNext
<1>2. SubstreamInv => OneEncoderSession BY DEF SubstreamInv
<1> QED BY <1>1, <1>2, SubstreamInvInit, PTL DEF SubstreamSpec

-----------------------------------------------------------------------------
(* HLS *)

(* The arithmetic of frameCount % FramesPerSegment: two divisions of the same
   number leave the same rest, and one frame more adds one to it or wraps. *)
LEMMA SameRest ==
  ASSUME NEW q \in Int, NEW p \in Int, NEW k \in Nat \ {0},
         NEW r \in 0 .. k - 1, NEW s \in 0 .. k - 1, (k * q) + r = (k * p) + s
  PROVE  r = s
<1>1. k * (q - p) = s - r OBVIOUS
<1>2. CASE q - p >= 1
  <2>1. k * (q - p) >= k BY <1>2
  <2> QED BY <1>1, <2>1
<1>3. CASE q - p <= -1
  <2>1. k * (q - p) <= -k BY <1>3
  <2> QED BY <1>1, <2>1
<1>4. CASE q = p BY <1>4
<1> QED BY <1>2, <1>3, <1>4

LEMMA Division ==
  ASSUME NEW n \in Nat, NEW k \in Nat \ {0}
  PROVE  n \div k \in Nat /\ n % k \in 0 .. k - 1 /\ n = (k * (n \div k)) + (n % k)
OBVIOUS

LEMMA NextRest ==
  ASSUME NEW n \in Nat, NEW k \in Nat \ {0}
  PROVE  (n + 1) % k = IF (n % k) + 1 = k THEN 0 ELSE (n % k) + 1
<1> DEFINE q == n \div k  r == n % k  p == (n + 1) \div k  s == (n + 1) % k
<1>1. q \in Nat /\ r \in 0 .. k - 1 /\ n = (k * q) + r BY Division
<1>2. n + 1 \in Nat OBVIOUS
<1>3. p \in Nat /\ s \in 0 .. k - 1 /\ n + 1 = (k * p) + s BY <1>2, Division
<1> HIDE DEF q, r, p, s
<1>4. CASE r + 1 = k
  <2>1. (k * (q + 1)) + 0 = (k * p) + s BY <1>1, <1>3, <1>4
  <2>2. s = 0 BY <1>1, <1>3, <2>1, SameRest
  <2> QED BY <1>4, <2>2 DEF r, s
<1>5. CASE r + 1 # k
  <2>1. (k * q) + (r + 1) = (k * p) + s /\ r + 1 \in 0 .. k - 1 BY <1>1, <1>3, <1>5
  <2>2. s = r + 1 BY <1>1, <1>3, <2>1, SameRest
  <2> QED BY <1>5, <2>2 DEF r, s
<1> QED BY <1>4, <1>5

HubUnit == [key : BOOLEAN, id : Nat]
HlsFrame == [unit : HubUnit, pts : Nat]
HlsSegment == [seq : Nat, units : Seq(HlsFrame)]

(* Frames of one segment: from a keyframe on, each one tick after the other. *)
KeyedRun(s) ==
    /\ s # <<>> => s[1].unit.key
    /\ \A i \in 1 .. Len(s) - 1 : s[i].pts + 1 = s[i + 1].pts

Precedes(s, t) == Last(s).unit.id < t[1].unit.id /\ Last(s).pts < t[1].pts

(* The segments a client can know: those of the window and those it has. *)
KnownSegments ==
    {segments[i] : i \in DOMAIN segments}
        \union {[seq |-> n, units |-> got[n]] : n \in DOMAIN got}

(* Whatever is still in the channel was written after unit n. *)
Spent(n) == n <= produced /\ \A i \in DOMAIN hlsQueue : n < hlsQueue[i].id

HlsTypes ==
    /\ produced \in Nat /\ sequence \in Nat /\ frameCount \in Nat /\ consumed \in Nat
    /\ hlsQueue \in Seq(HubUnit)
    /\ segments \in Seq(HlsSegment)
    /\ currentSeg \in Seq(HlsFrame)
    /\ DOMAIN got \subseteq Nat /\ \A n \in DOMAIN got : got[n] \in Seq(HlsFrame)

QueueInOrder ==
    /\ \A i \in DOMAIN hlsQueue : hlsQueue[i].id <= produced
    /\ \A i, j \in DOMAIN hlsQueue : i < j => hlsQueue[i].id < hlsQueue[j].id

CurrentSound ==
    /\ currentPTS = consumed
    /\ Len(currentSeg) = frameCount % FramesPerSegment
    /\ KeyedRun(currentSeg)
    /\ currentSeg # <<>> => /\ Last(currentSeg).pts + 1 = currentPTS
                            /\ Spent(Last(currentSeg).unit.id)

(* What is known of a segment once it is cut ... *)
CutSound(a) ==
    /\ a.seq < sequence
    /\ Len(a.units) = FramesPerSegment /\ KeyedRun(a.units)
    /\ Last(a.units).pts < currentPTS /\ Spent(Last(a.units).unit.id)
    /\ currentSeg # <<>> => Precedes(a.units, currentSeg)

(* ... and of two. *)
CutsInOrder == \A a, b \in KnownSegments : a.seq < b.seq => Precedes(a.units, b.units)

CacheIsWindow == cachedPlaylist # <<>> => cachedPlaylist = Window

HlsInv ==
    /\ HlsTypes /\ QueueInOrder /\ CurrentSound
    /\ \A a \in KnownSegments : CutSound(a)
    /\ CutsInOrder /\ CacheIsWindow

(* A known segment is a segment. *)
LEMMA KnownAreSegments == ASSUME HlsTypes PROVE KnownSegments \subseteq HlsSegment
<1>1. \A i \in DOMAIN segments : segments[i] \in HlsSegment BY DEF HlsTypes
<1>2. \A n \in DOMAIN got : [seq |-> n, units |-> got[n]] \in HlsSegment
  BY DEF HlsTypes, HlsSegment
<1> QED BY <1>1, <1>2 DEF KnownSegments

(* Append to a sequence. *)
LEMMA Appended ==
  ASSUME NEW S, NEW s \in Seq(S), NEW e \in S, NEW t, t = Append(s, e)
  PROVE  /\ t \in Seq(S) /\ Len(t) = Len(s) + 1 /\ t # <<>>
         /\ t[Len(s) + 1] = e
         /\ \A i \in 1 .. Len(s) : t[i] = s[i]
         /\ DOMAIN t = 1 .. Len(s) + 1 /\ DOMAIN s = 1 .. Len(s) /\ Len(s) \in Nat
OBVIOUS

LEMMA LastIsMember ==
  ASSUME NEW S, NEW s \in Seq(S), s # <<>>
  PROVE  Last(s) \in S
BY EmptySeq DEF Last

(* A frame written to the segment being built. *)
LEMMA WrittenFrame ==
  ASSUME NEW s \in Seq(HlsFrame), KeyedRun(s), NEW f \in HlsFrame,
         s = <<>> => f.unit.key, s # <<>> => Last(s).pts + 1 = f.pts,
         NEW t, t = Append(s, f)
  PROVE  /\ t \in Seq(HlsFrame) /\ KeyedRun(t) /\ t # <<>>
         /\ Len(t) = Len(s) + 1 /\ Last(t) = f
         /\ t[1] = IF s = <<>> THEN f ELSE s[1]
<1>1. PICK k \in Nat : k = Len(s) OBVIOUS
<1>2. /\ t \in Seq(HlsFrame) /\ Len(t) = k + 1 /\ t # <<>>
      /\ t[k + 1] = f /\ \A i \in 1 .. k : t[i] = s[i]
  BY <1>1, Appended
<1>3. s = <<>> <=> k = 0 BY <1>1, EmptySeq
<1>4. Last(t) = f BY <1>2 DEF Last
<1>5. t[1] = IF s = <<>> THEN f ELSE s[1]
  <2>1. CASE k = 0 BY <1>2, <1>3, <2>1
  <2>2. CASE k # 0 BY <1>2, <1>3, <2>2
  <2> QED BY <2>1, <2>2
<1>6. ASSUME NEW i \in 1 .. k PROVE t[i].pts + 1 = t[i + 1].pts
  <2>1. CASE i = k
    <3>1. t[i] = Last(s) /\ s # <<>> /\ t[i + 1] = f BY <1>1, <1>2, <1>3, <2>1 DEF Last
    <3> QED BY <3>1
  <2>2. CASE i # k
    <3>1. i \in 1 .. Len(s) - 1 /\ i + 1 \in 1 .. k BY <1>1, <2>2
    <3>2. s[i].pts + 1 = s[i + 1].pts BY <3>1 DEF KeyedRun
    <3> QED BY <1>2, <3>1, <3>2
  <2> QED BY <2>1, <2>2
<1>7. KeyedRun(t) BY <1>2, <1>5, <1>6 DEF KeyedRun
<1> QED BY <1>1, <1>2, <1>4, <1>5, <1>7

(* Taking a unit: it comes after everything written so far, and everything
   left comes after it. *)
LEMMA TakenFromQueue ==
  ASSUME HlsTypes, QueueInOrder, hlsQueue # <<>>, hlsQueue' = Tail(hlsQueue),
         produced' = produced, NEW unit, unit = Head(hlsQueue)
  PROVE  /\ unit \in HubUnit /\ hlsQueue' \in Seq(HubUnit)
         /\ QueueInOrder' /\ Spent(unit.id)'
         /\ \A n \in Nat : Spent(n) => n < unit.id /\ Spent(n)'
<1>1. PICK k \in Nat \ {0} : k = Len(hlsQueue) BY EmptySeq DEF HlsTypes
<1>2. /\ unit = hlsQueue[1] /\ unit \in HubUnit
      /\ hlsQueue' \in Seq(HubUnit)
      /\ DOMAIN hlsQueue = 1 .. k /\ DOMAIN hlsQueue' = 1 .. k - 1
      /\ \A i \in 1 .. k - 1 : hlsQueue'[i] = hlsQueue[i + 1]
  BY <1>1, HeadTailProperties, LenProperties DEF HlsTypes
<1>3. \A i \in 1 .. k - 1 : i + 1 \in 1 .. k /\ 1 < i + 1 BY <1>1
<1>4. 1 \in 1 .. k BY <1>1
<1>5. QueueInOrder'
  <2>1. ASSUME NEW i \in 1 .. k - 1, NEW j \in 1 .. k - 1, i < j
        PROVE  hlsQueue'[i].id < hlsQueue'[j].id
    <3>1. i + 1 < j + 1 BY <2>1
    <3> QED BY <1>2, <1>3, <3>1 DEF QueueInOrder
  <2>2. ASSUME NEW i \in 1 .. k - 1 PROVE hlsQueue'[i].id <= produced
    BY <1>2, <1>3 DEF QueueInOrder
  <2> QED BY <1>2, <2>1, <2>2 DEF QueueInOrder
<1>6. Spent(unit.id)'
  <2>1. hlsQueue[1].id <= produced BY <1>2, <1>4 DEF QueueInOrder
  <2>2. ASSUME NEW i \in 1 .. k - 1 PROVE hlsQueue[1].id < hlsQueue'[i].id
    <3>1. i + 1 \in 1 .. k /\ 1 < i + 1 BY <1>3
    <3>2. hlsQueue[1].id < hlsQueue[i + 1].id BY <1>2, <1>4, <3>1 DEF QueueInOrder
    <3> QED BY <1>2, <3>2
  <2> QED BY <1>2, <2>1, <2>2 DEF Spent
<1>7. ASSUME NEW n \in Nat, Spent(n) PROVE n < unit.id /\ Spent(n)'
  BY <1>2, <1>3, <1>4, <1>7 DEF Spent
<1> QED BY <1>2, <1>5, <1>6, <1>7

(* AUHub.Write to the subscription, if HLS has one: a new unit, or none when it
   is full. *)
LEMMA UnitArrives ==
  ASSUME HlsInv, NEW key \in BOOLEAN,
         HlsReceives([key |-> key, id |-> produced + 1]) \/ UNCHANGED hlsVars,
         produced' = produced + 1
  PROVE  HlsInv'
<1> DEFINE unit == [key |-> key, id |-> produced + 1]
<1>1. /\ unit \in HubUnit /\ unit.id = produced + 1 /\ produced \in Nat
      /\ hlsQueue \in Seq(HubUnit)
  BY DEF HubUnit, HlsInv, HlsTypes
<1>2. UNCHANGED <<segments, sequence, currentSeg, currentPTS, frameCount, cachedPlaylist,
                  consumed, got>>
  BY DEF HlsReceives, hlsVars, segmenterVars, clientVars
<1>3. hlsQueue' = hlsQueue \/ hlsQueue' = Append(hlsQueue, unit)
  BY DEF HlsReceives, hlsVars
<1> HIDE DEF unit
<1>4. /\ hlsQueue' \in Seq(HubUnit)
      /\ QueueInOrder'
      /\ \A n \in Nat : Spent(n) => Spent(n)'
  <2>1. CASE hlsQueue' = hlsQueue
    <3>1. QueueInOrder
      BY DEF HlsInv
    <3>2. \A i \in DOMAIN hlsQueue : hlsQueue[i].id \in Nat
      <4>1. \A i \in DOMAIN hlsQueue : hlsQueue[i] \in HubUnit BY <1>1
      <4> QED BY <4>1 DEF HubUnit
    <3>3. \A i \in DOMAIN hlsQueue' : hlsQueue'[i].id <= produced'
      BY <1>1, <2>1, <3>1, <3>2 DEF QueueInOrder
    <3>4. \A n \in Nat : n <= produced => n <= produced'
      BY <1>1
    <3> QED BY <1>1, <2>1, <3>1, <3>3, <3>4 DEF QueueInOrder, Spent
  <2>2. CASE hlsQueue' = Append(hlsQueue, unit)
    <3>1. PICK k \in Nat : k = Len(hlsQueue) BY <1>1
    <3>2. /\ hlsQueue' \in Seq(HubUnit) /\ hlsQueue'[k + 1] = unit
          /\ \A i \in 1 .. k : hlsQueue'[i] = hlsQueue[i]
          /\ DOMAIN hlsQueue' = 1 .. k + 1 /\ DOMAIN hlsQueue = 1 .. k
      BY <1>1, <2>2, <3>1, Appended
    <3>3. \A i \in 1 .. k : hlsQueue[i].id <= produced /\ hlsQueue[i].id \in Nat
      <4>1. \A i \in 1 .. k : hlsQueue[i] \in HubUnit BY <1>1, <3>1
      <4> QED BY <3>2, <4>1 DEF HlsInv, QueueInOrder, HubUnit
    <3>4. ASSUME NEW i \in 1 .. k + 1 PROVE hlsQueue'[i].id <= produced + 1
      BY <1>1, <3>2, <3>3
    <3>5. ASSUME NEW i \in 1 .. k + 1, NEW j \in 1 .. k + 1, i < j
          PROVE  hlsQueue'[i].id < hlsQueue'[j].id
      <4>1. i \in 1 .. k BY <3>5
      <4>2. CASE j \in 1 .. k BY <3>2, <3>5, <4>1, <4>2 DEF HlsInv, QueueInOrder
      <4>3. CASE j = k + 1 BY <1>1, <3>2, <3>3, <4>1, <4>3
      <4> QED BY <4>2, <4>3
    <3>6. ASSUME NEW n \in Nat, Spent(n) PROVE Spent(n)'
      <4>1. \A i \in 1 .. k : n < hlsQueue'[i].id BY <3>2, <3>6 DEF Spent
      <4>2. n <= produced BY <3>6 DEF Spent
      <4>3. n < hlsQueue'[k + 1].id BY <1>1, <3>2, <4>2
      <4>4. \A i \in 1 .. k + 1 : n < hlsQueue'[i].id BY <4>1, <4>3
      <4> QED BY <1>1, <3>2, <4>2, <4>4 DEF Spent
    <3> QED BY <3>2, <3>4, <3>5, <3>6 DEF QueueInOrder
  <2> QED BY <1>3, <2>1, <2>2
<1>5. HlsTypes' BY <1>1, <1>2, <1>4 DEF HlsInv, HlsTypes
<1>6. KnownSegments' = KnownSegments BY <1>2 DEF KnownSegments
<1>7. CurrentSound'
  <2>1. currentSeg # <<>> => Last(currentSeg).unit.id \in Nat
    BY LastIsMember DEF HlsInv, HlsTypes, HlsFrame, HubUnit
  <2> QED BY <1>2, <1>4, <2>1 DEF HlsInv, CurrentSound
<1>8. ASSUME NEW a \in KnownSegments PROVE CutSound(a)'
  <2>1. CutSound(a) /\ a \in HlsSegment BY KnownAreSegments DEF HlsInv
  <2>2. a.units # <<>>
    BY <2>1, FramesAssumption, EmptySeq DEF CutSound, HlsSegment
  <2>3. Last(a.units).unit.id \in Nat
    BY <2>1, <2>2, LastIsMember DEF HlsSegment, HlsFrame, HubUnit
  <2> QED BY <1>2, <1>4, <2>1, <2>3 DEF CutSound
<1>9. CacheIsWindow' BY <1>2 DEF HlsInv, CacheIsWindow, Window
<1> QED BY <1>4, <1>5, <1>6, <1>7, <1>8, <1>9 DEF HlsInv, CutsInOrder

(* The client's steps: nothing it can know is new. *)
LEMMA ClientKeeps == ASSUME HlsInv, HlsClient, produced' = produced PROVE HlsInv'
<1>1. UNCHANGED <<hlsQueue, segments, sequence, currentSeg, currentPTS, frameCount, consumed>>
  BY DEF HlsClient, ServePlaylist, ServeSegment, segmenterVars
<1>2. CacheIsWindow'
  BY DEF HlsClient, ServePlaylist, ServeSegment, segmenterVars, HlsInv, CacheIsWindow, Window
<1>3. /\ DOMAIN got' \subseteq Nat /\ \A n \in DOMAIN got' : got'[n] \in Seq(HlsFrame)
      /\ KnownSegments' \subseteq KnownSegments
  <2>1. CASE ServePlaylist
    BY <2>1 DEF ServePlaylist, KnownSegments, HlsInv, HlsTypes
  <2>2. CASE ServeSegment
    <3>1. PICK n, i : /\ i \in DOMAIN segments /\ segments[i].seq = n
                      /\ got' = [m \in DOMAIN got \union {n} |->
                                    IF m = n THEN segments[i].units ELSE got[m]]
      BY <2>2 DEF ServeSegment
    <3>2. segments[i] \in HlsSegment BY <3>1 DEF HlsInv, HlsTypes
    <3>3. segments[i] = [seq |-> n, units |-> got'[n]] BY <3>1, <3>2 DEF HlsSegment
    <3>4. \A m \in DOMAIN got' \ {n} : m \in DOMAIN got /\ got'[m] = got[m] BY <3>1
    <3>5. n \in Nat /\ got'[n] \in Seq(HlsFrame) BY <3>1, <3>2 DEF HlsSegment
    <3>6. \A m \in DOMAIN got' : m \in Nat /\ got'[m] \in Seq(HlsFrame)
      BY <3>4, <3>5 DEF HlsInv, HlsTypes
    <3>7. \A m \in DOMAIN got' : [seq |-> m, units |-> got'[m]] \in KnownSegments
      BY <3>1, <3>3, <3>4 DEF KnownSegments
    <3> QED BY <1>1, <3>6, <3>7 DEF KnownSegments
  <2> QED BY <2>1, <2>2 DEF HlsClient
<1>4. \A n : Spent(n) <=> Spent(n)' BY <1>1 DEF Spent
<1>5. HlsTypes' /\ QueueInOrder' BY <1>1, <1>3 DEF HlsInv, HlsTypes, QueueInOrder
<1>6. CurrentSound' BY <1>1, <1>4 DEF HlsInv, CurrentSound
<1>7. \A a \in KnownSegments' : CutSound(a)' BY <1>1, <1>3, <1>4 DEF HlsInv, CutSound
<1>8. CutsInOrder' BY <1>3 DEF HlsInv, CutsInOrder
<1> QED BY <1>2, <1>5, <1>6, <1>7, <1>8 DEF HlsInv

(* closeSegment: the window is cut from what was known and the new segment. *)
LEMMA ClosedSegment ==
  ASSUME HlsTypes, NEW units \in Seq(HlsFrame), CloseSegment(units), UNCHANGED clientVars
  PROVE  /\ segments' \in Seq(HlsSegment)
         /\ KnownSegments' \subseteq KnownSegments \union {[seq |-> sequence, units |-> units]}
<1> DEFINE new == [seq |-> sequence, units |-> units]
           all == Append(segments, new)
           first == IF Len(all) > WindowSize THEN Len(all) - WindowSize + 1 ELSE 1
<1>1. new \in HlsSegment /\ segments \in Seq(HlsSegment) BY DEF HlsTypes, HlsSegment
<1>2. PICK k \in Nat : k = Len(segments) BY <1>1
<1>3. /\ all \in Seq(HlsSegment) /\ Len(all) = k + 1 /\ all[k + 1] = new
      /\ \A i \in 1 .. k : all[i] = segments[i]
      /\ DOMAIN segments = 1 .. k
  BY <1>1, <1>2, Appended
<1>4. segments' = SubSeq(all, first, Len(all)) /\ got' = got
  BY DEF CloseSegment, clientVars
<1>5. first \in 1 .. k + 1 BY <1>3, WindowAssumption
<1>6. \A i \in first .. Len(all) : all[i] \in HlsSegment BY <1>3, <1>5
<1> HIDE DEF all, first
<1>7. /\ segments' \in Seq(HlsSegment)
      /\ Len(segments') = (k + 1) - first + 1
      /\ \A i \in 1 .. (k + 1) - first + 1 : segments'[i] = all[first + i - 1]
  BY <1>3, <1>4, <1>5, <1>6, SubSeqProperties
<1>8. ASSUME NEW i \in DOMAIN segments' PROVE segments'[i] \in KnownSegments \union {new}
  <2>1. i \in 1 .. (k + 1) - first + 1 BY <1>7, <1>8, LenProperties
  <2>2. PICK j \in 1 .. k + 1 : segments'[i] = all[j] BY <1>5, <1>7, <2>1
  <2>3. CASE j = k + 1 BY <1>3, <2>2, <2>3
  <2>4. CASE j \in 1 .. k BY <1>3, <2>2, <2>4 DEF KnownSegments
  <2> QED BY <2>3, <2>4
<1> HIDE DEF new
<1>9. KnownSegments' \subseteq KnownSegments \union {new} BY <1>4, <1>8 DEF KnownSegments
<1> QED BY <1>7, <1>9 DEF new

(* processAU: a unit skipped only moves the clock, one written goes into the
   segment being built, and the last of a segment closes it. *)
LEMMA UnitProcessed == ASSUME HlsInv, HlsProcessAU, produced' = produced PROVE HlsInv'
<1>1. PICK unit : unit = Head(hlsQueue) OBVIOUS
<1>2. /\ hlsQueue # <<>> /\ hlsQueue' = Tail(hlsQueue)
      /\ consumed' = consumed + 1 /\ currentPTS' = currentPTS + 1
      /\ listed' = listed /\ got' = got /\ UNCHANGED clientVars
  BY DEF HlsProcessAU, clientVars
<1>3. /\ unit \in HubUnit /\ hlsQueue' \in Seq(HubUnit) /\ QueueInOrder'
      /\ Spent(unit.id)'
      /\ \A n \in Nat : Spent(n) => n < unit.id /\ Spent(n)'
  BY <1>1, <1>2, TakenFromQueue DEF HlsInv
<1>4. currentPTS = consumed /\ consumed \in Nat /\ sequence \in Nat /\ frameCount \in Nat
      /\ FramesPerSegment \in Nat \ {0}
  BY FramesAssumption DEF HlsInv, HlsTypes, CurrentSound
<1>5. ASSUME NEW a \in KnownSegments
      PROVE  /\ a \in HlsSegment /\ a.seq < sequence /\ a.seq \in Nat
             /\ Len(a.units) = FramesPerSegment /\ KeyedRun(a.units)
             /\ Last(a.units).pts < currentPTS /\ Last(a.units).pts \in Nat
             /\ Last(a.units).unit.id < unit.id
             /\ Spent(Last(a.units).unit.id)'
             /\ currentSeg # <<>> => Precedes(a.units, currentSeg)
  <2>1. CutSound(a) /\ a \in HlsSegment BY KnownAreSegments DEF HlsInv
  <2>2. a.units # <<>> /\ a.units \in Seq(HlsFrame) /\ a.seq \in Nat
    BY <2>1, FramesAssumption, EmptySeq DEF CutSound, HlsSegment
  <2>3. Last(a.units).unit.id \in Nat /\ Last(a.units).pts \in Nat
    BY <2>2, LastIsMember DEF HlsFrame, HubUnit
  <2> QED BY <1>3, <2>1, <2>2, <2>3 DEF CutSound
<1>6. CASE SkipUnit
  <2>1. UNCHANGED <<segments, sequence, currentSeg, frameCount, cachedPlaylist>>
        /\ currentSeg = <<>>
    BY <1>6 DEF SkipUnit
  <2>2. KnownSegments' = KnownSegments BY <1>2, <2>1 DEF KnownSegments
  <2>3. HlsTypes' BY <1>2, <1>3, <1>4, <2>1 DEF HlsInv, HlsTypes
  <2>4. CurrentSound' BY <1>2, <1>4, <2>1 DEF HlsInv, CurrentSound
  <2>5. \A a \in KnownSegments : CutSound(a)' BY <1>2, <1>4, <1>5, <2>1 DEF CutSound
  <2>6. CacheIsWindow' BY <2>1 DEF HlsInv, CacheIsWindow, Window
  <2> QED BY <1>3, <2>2, <2>3, <2>4, <2>5, <2>6 DEF HlsInv, CutsInOrder
<1>7. CASE WriteUnit
  <2> DEFINE added == [unit |-> unit, pts |-> currentPTS]
  <2>1. PICK units : units = Append(currentSeg, added) OBVIOUS
  <2>2. /\ added \in HlsFrame /\ added.unit = unit /\ added.pts = currentPTS
        /\ currentSeg \in Seq(HlsFrame) /\ KeyedRun(currentSeg)
        /\ currentSeg = <<>> => unit.key
        /\ currentSeg # <<>> => Last(currentSeg).pts + 1 = currentPTS
    BY <1>1, <1>3, <1>4, <1>7 DEF HlsFrame, WriteUnit, HlsInv, HlsTypes, CurrentSound
  <2>3. /\ frameCount' = frameCount + 1
        /\ IF (frameCount + 1) % FramesPerSegment = 0 THEN CloseSegment(units)
           ELSE currentSeg' = units /\ UNCHANGED <<segments, sequence, cachedPlaylist>>
    BY <1>1, <1>7, <2>1 DEF WriteUnit
  <2> HIDE DEF added
  <2>4. /\ units \in Seq(HlsFrame) /\ KeyedRun(units) /\ units # <<>>
        /\ Len(units) = Len(currentSeg) + 1 /\ Last(units) = added
        /\ units[1] = IF currentSeg = <<>> THEN added ELSE currentSeg[1]
    BY <2>1, <2>2, WrittenFrame
  <2>5. \A a \in KnownSegments : Precedes(a.units, units)
    BY <1>5, <2>2, <2>4 DEF Precedes
  <2>6. /\ Len(currentSeg) = frameCount % FramesPerSegment
        /\ (frameCount + 1) % FramesPerSegment =
              IF Len(currentSeg) + 1 = FramesPerSegment THEN 0 ELSE Len(currentSeg) + 1
    <3>1. Len(currentSeg) = frameCount % FramesPerSegment BY DEF HlsInv, CurrentSound
    <3>2. FramesPerSegment \in Nat \ {0} BY FramesAssumption
    <3>3. (frameCount + 1) % FramesPerSegment
            = IF (frameCount % FramesPerSegment) + 1 = FramesPerSegment THEN 0
              ELSE (frameCount % FramesPerSegment) + 1
      BY <1>4, <3>2, NextRest
    <3> QED BY <3>1, <3>3
  <2>7. CASE (frameCount + 1) % FramesPerSegment = 0
    <3>0. PICK new : new = [seq |-> sequence, units |-> units] OBVIOUS
    <3>1. CloseSegment(units) BY <2>3, <2>7
    <3>2. sequence' = sequence + 1 /\ currentSeg' = <<>> /\ cachedPlaylist' = <<>>
      BY <3>1 DEF CloseSegment
    <3>3. segments' \in Seq(HlsSegment) /\ KnownSegments' \subseteq KnownSegments \union {new}
      BY <1>2, <2>4, <3>0, <3>1, ClosedSegment DEF HlsInv
    <3>4. Len(units) = FramesPerSegment
      <4>1. Len(currentSeg) \in Nat BY <2>2
      <4>2. Len(currentSeg) + 1 # 0 BY <4>1
      <4> QED BY <2>4, <2>6, <2>7, <4>2
    <3>5. new.seq = sequence /\ new.units = units BY <3>0
    <3>6. HlsTypes'
      <4>1. currentSeg' \in Seq(HlsFrame) BY <3>2
      <4> QED BY <1>2, <1>3, <1>4, <2>3, <3>2, <3>3, <4>1 DEF HlsInv, HlsTypes
    <3>7. CurrentSound'
      <4>1. KeyedRun(<<>>) /\ Len(<<>>) = 0 BY DEF KeyedRun
      <4> QED BY <1>2, <1>4, <2>3, <2>7, <3>2, <4>1 DEF CurrentSound
    <3>8. \A a \in KnownSegments : CutSound(a)'
      BY <1>2, <1>4, <1>5, <3>2 DEF CutSound
    <3>9. CutSound(new)'
      <4>1. /\ new.seq < sequence' /\ Last(units).pts < currentPTS'
            /\ Last(units).unit.id = unit.id /\ Len(new.units) = FramesPerSegment
            /\ KeyedRun(new.units) /\ currentSeg' = <<>>
        BY <1>2, <1>4, <2>2, <2>4, <3>2, <3>4, <3>5
      <4> QED BY <1>3, <3>5, <4>1 DEF CutSound
    <3>10. CutsInOrder'
      <4>1. ASSUME NEW a \in KnownSegments', NEW b \in KnownSegments', a.seq < b.seq
            PROVE  Precedes(a.units, b.units)
        <5>1. CASE a \in KnownSegments /\ b \in KnownSegments
          BY <4>1, <5>1 DEF HlsInv, CutsInOrder
        <5>2. CASE a \in KnownSegments /\ b = new BY <2>5, <3>5, <5>2
        <5>3. CASE a = new
          <6>1. b \in KnownSegments \/ b = new BY <3>3
          <6> QED BY <1>4, <1>5, <3>5, <4>1, <5>3, <6>1
        <5> QED BY <3>3, <5>1, <5>2, <5>3
      <4> QED BY <4>1 DEF CutsInOrder
    <3>11. CacheIsWindow' BY <3>2 DEF CacheIsWindow
    <3> QED BY <1>3, <3>3, <3>6, <3>7, <3>8, <3>9, <3>10, <3>11 DEF HlsInv
  <2>8. CASE (frameCount + 1) % FramesPerSegment # 0
    <3>1. currentSeg' = units /\ UNCHANGED <<segments, sequence, cachedPlaylist>>
      BY <2>3, <2>8
    <3>2. KnownSegments' = KnownSegments BY <1>2, <3>1 DEF KnownSegments
    <3>3. HlsTypes' BY <1>2, <1>3, <1>4, <2>3, <2>4, <3>1 DEF HlsInv, HlsTypes
    <3>4. CurrentSound'
      <4>1. Len(units) = (frameCount + 1) % FramesPerSegment BY <2>4, <2>6, <2>8
      <4>2. Last(units).pts + 1 = currentPTS' /\ Last(units).unit.id = unit.id
        BY <1>2, <2>2, <2>4
      <4> QED BY <1>2, <1>3, <1>4, <2>3, <2>4, <3>1, <4>1, <4>2 DEF CurrentSound
    <3>5. \A a \in KnownSegments : CutSound(a)'
      BY <1>2, <1>4, <1>5, <2>5, <3>1 DEF CutSound
    <3>6. CacheIsWindow' BY <3>1 DEF HlsInv, CacheIsWindow, Window
    <3> QED BY <1>3, <3>2, <3>3, <3>4, <3>5, <3>6 DEF HlsInv, CutsInOrder
  <2> QED BY <2>7, <2>8
<1> QED BY <1>6, <1>7 DEF HlsProcessAU

(* The invariant is the property: a client has known segments. *)
LEMMA KnownPlayable == HlsInv => FetchedSegmentsPlayable
<1> SUFFICES ASSUME HlsInv PROVE FetchedSegmentsPlayable OBVIOUS
<1>1. ASSUME NEW n \in DOMAIN got
      PROVE  /\ Len(got[n]) = FramesPerSegment /\ got[n][1].unit.key
             /\ \A i \in 1 .. FramesPerSegment - 1 : got[n][i].pts + 1 = got[n][i + 1].pts
  <2>1. [seq |-> n, units |-> got[n]] \in KnownSegments BY DEF KnownSegments
  <2>2. Len(got[n]) = FramesPerSegment /\ KeyedRun(got[n]) BY <2>1 DEF HlsInv, CutSound
  <2>3. got[n] # <<>> BY <2>2, FramesAssumption, EmptySeq
  <2> QED BY <2>2, <2>3 DEF KeyedRun
<1>2. ASSUME NEW m \in DOMAIN got, NEW n \in DOMAIN got, m < n
      PROVE  Precedes(got[m], got[n])
  <2>1. /\ [seq |-> m, units |-> got[m]] \in KnownSegments
        /\ [seq |-> n, units |-> got[n]] \in KnownSegments
    BY DEF KnownSegments
  <2> QED BY <1>2, <2>1 DEF HlsInv, CutsInOrder
<1> QED BY <1>1, <1>2 DEF FetchedSegmentsPlayable, Precedes, HlsInv, CurrentSound, CacheIsWindow

LEMMA HlsInvInit == HlsInit /\ produced = 0 => HlsInv
<1> SUFFICES ASSUME HlsInit, produced = 0 PROVE HlsInv OBVIOUS
<1>1. /\ hlsQueue = <<>> /\ segments = <<>> /\ currentSeg = <<>> /\ cachedPlaylist = <<>>
      /\ sequence = 0 /\ frameCount = 0 /\ consumed = 0 /\ currentPTS = 0 /\ DOMAIN got = {}
  BY DEF HlsInit
<1>2. KnownSegments = {} BY <1>1 DEF KnownSegments
<1>3. HlsTypes BY <1>1 DEF HlsTypes
<1>4. 0 % FramesPerSegment = 0
  <2>1. PICK q \in Nat : (FramesPerSegment * q) + (0 % FramesPerSegment) = (FramesPerSegment * 0) + 0
    BY FramesAssumption, Division
  <2> QED BY <2>1, FramesAssumption, Division, SameRest
<1>5. QueueInOrder /\ CurrentSound /\ CacheIsWindow
  BY <1>1, <1>4 DEF QueueInOrder, CurrentSound, KeyedRun, CacheIsWindow
<1> QED BY <1>2, <1>3, <1>5 DEF HlsInv, CutsInOrder

-----------------------------------------------------------------------------
(* The hardware encoder *)

(* A frame in an OUTPUT buffer. *)
Job(b, f) == [buf |-> b, frame |-> f]

EncoderTypes ==
    /\ encodePc \in {"idle", "queue", "poll", "dequeue output", "dequeue capture", "reset"}
    /\ frame \in Nat /\ (encodePc # "idle" => frame # 0)
    /\ nextOut \in Nat
    /\ coded \in Seq(Nat \ {0})
    /\ owned \in Seq([buf : Nat, frame : Nat \ {0}])
    /\ encodePc \in {"dequeue output", "dequeue capture"} => coded # <<>>
    /\ encodePc = "reset" => ~retried

(* The frames on their way through the driver, coded or not yet: none, one, or
   two, the older one first. *)
NoneInFlight == coded = <<>> /\ owned = <<>>

OneInFlight(f) ==
    \/ coded = <<f>> /\ owned = <<>>
    \/ coded = <<>> /\ \E b : owned = <<Job(b, f)>>

TwoInFlight(f, g) ==
    \/ coded = <<f, g>> /\ owned = <<>>
    \/ coded = <<f>> /\ \E b : owned = <<Job(b, g)>>
    \/ coded = <<>> /\ \E b, c : owned = <<Job(b, f), Job(c, g)>>

(* Unless the driver refused a reset, at most the last frame given is behind
   when a call ends: what a first attempt left was thrown away by the reset. *)
AtMostOneBehind ==
    ~refused =>
        /\ encodePc = "idle" => NoneInFlight \/ OneInFlight(frame)
        /\ encodePc = "queue" => NoneInFlight \/ OneInFlight(frame - 1)
        /\ encodePc \in {"poll", "dequeue output", "dequeue capture"} =>
              OneInFlight(frame) \/ TwoInFlight(frame - 1, frame)

(* After a reset the frame in hand is alone in the queues, in one piece, so
   that nothing but the driver can fail. *)
SecondAttemptAlone ==
    retried =>
        /\ encodePc = "queue" =>
              NoneInFlight /\ drained = <<>> /\ streaming /\ free = BufferCount
        /\ encodePc = "poll" =>
              /\ streaming
              /\ \/ /\ coded = <<>> /\ (\E b : owned = <<Job(b, frame)>>)
                    /\ drained = <<>> /\ free = BufferCount
                 \/ coded = <<frame>> /\ owned = <<>> /\ \E b : drained = <<b>>
        /\ encodePc = "dequeue output" =>
              coded = <<frame>> /\ owned = <<>> /\ \E b : drained = <<b>>
        /\ encodePc = "dequeue capture" => coded = <<frame>> /\ owned = <<>>

EncoderInv == EncoderTypes /\ AtMostOneBehind /\ SecondAttemptAlone /\ EncoderRecovers

LEMMA AppendSecond == ASSUME NEW x, NEW y PROVE Append(<<x>>, y) = <<x, y>>
<1> DEFINE S == {x, y}
<1>1. <<x>> \in Seq(S) /\ Len(<<x>>) = 1 /\ <<x>>[1] = x OBVIOUS
<1>2. <<x, y>> \in Seq(S) /\ Len(<<x, y>>) = 2 /\ <<x, y>>[1] = x /\ <<x, y>>[2] = y OBVIOUS
<1>3. PICK t : t = Append(<<x>>, y) OBVIOUS
<1>4. /\ t \in Seq(S) /\ Len(t) = 2 /\ t[2] = y /\ t[1] = x
  <2>1. y \in S OBVIOUS
  <2>2. /\ t \in Seq(S) /\ Len(t) = Len(<<x>>) + 1 /\ t[Len(<<x>>) + 1] = y /\ \A i \in 1 .. Len(<<x>>) : t[i] = <<x>>[i]
    BY <1>1, <1>3, <2>1, Appended
  <2>3. 1 \in 1 .. Len(<<x>>) BY <1>1
  <2> QED BY <1>1, <2>2, <2>3
<1> HIDE DEF S
<1>5. \A i \in 1 .. Len(t) : t[i] = <<x, y>>[i]
  <2>1. \A i \in 1 .. Len(t) : i = 1 \/ i = 2 BY <1>4
  <2> QED BY <1>2, <1>4, <2>1, Zenon
<1>6. t = <<x, y>> BY <1>2, <1>4, <1>5, SeqEqual
<1> QED BY <1>3, <1>6

LEMMA ShortSequences ==
  ASSUME NEW x, NEW y
  PROVE  /\ Append(<<>>, x) = <<x>> /\ Append(<<x>>, y) = <<x, y>>
         /\ Tail(<<x>>) = <<>> /\ Tail(<<x, y>>) = <<y>>
         /\ Head(<<x>>) = x /\ Head(<<x, y>>) = x
         /\ <<x>> # <<>> /\ <<x, y>> # <<>>
<1>1. Append(<<>>, x) = <<x>> OBVIOUS
<1>2. Tail(<<x>>) = <<>> OBVIOUS
<1>3. Tail(<<x, y>>) = <<y>> OBVIOUS
<1>4. Head(<<x>>) = x /\ Head(<<x, y>>) = x OBVIOUS
<1>5. <<x>> # <<>> /\ <<x, y>> # <<>> OBVIOUS
<1> QED BY <1>1, <1>2, <1>3, <1>4, <1>5, AppendSecond, Zenon

(* A call begins, its frame goes to the driver. *)
LEMMA CallBegins == ASSUME EncoderInv, Encode \/ QueueOutput PROVE EncoderInv'
<1>1. CASE Encode
  <2>1. /\ encodePc = "idle" /\ encodePc' = "queue" /\ frame' = frame + 1 /\ ~retried'
        /\ UNCHANGED <<owned, coded, nextOut, refused>>
    BY <1>1 DEF Encode, driverQueues
  <2>2. EncoderTypes' BY <2>1 DEF EncoderInv, EncoderTypes
  <2>3. AtMostOneBehind'
    <3>1. frame' - 1 = frame BY <2>1 DEF EncoderInv, EncoderTypes
    <3>2. NoneInFlight => NoneInFlight' BY <2>1 DEF NoneInFlight
    <3>3. OneInFlight(frame) => OneInFlight(frame - 1)' BY <2>1, <3>1, Zenon DEF OneInFlight
    <3> QED BY <2>1, <3>2, <3>3 DEF EncoderInv, AtMostOneBehind
  <2> QED BY <2>1, <2>2, <2>3 DEF EncoderInv, SecondAttemptAlone, EncoderRecovers
<1>2. CASE QueueOutput
  <2>1. /\ encodePc = "queue" /\ encodePc' = "poll" /\ nextOut' = nextOut + 1
        /\ owned' = Append(owned, Job(Buffer, frame))
        /\ UNCHANGED <<drained, free, coded, streaming, retried, frame, refused>>
    BY <1>2 DEF QueueOutput, Goto, Job
  <2>2. Buffer \in Nat
    <3>1. nextOut \in Nat /\ BufferCount \in Nat \ {0}
      BY EncoderAssumption DEF EncoderInv, EncoderTypes
    <3>2. nextOut % BufferCount \in 0 .. BufferCount - 1 BY <3>1, Division
    <3> QED BY <3>1, <3>2 DEF Buffer
  <2>3. EncoderTypes'
    <3>1. Job(Buffer, frame) \in [buf : Nat, frame : Nat \ {0}]
      BY <2>1, <2>2 DEF Job, EncoderInv, EncoderTypes
    <3>2. owned' \in Seq([buf : Nat, frame : Nat \ {0}])
      BY <2>1, <3>1 DEF EncoderInv, EncoderTypes
    <3> QED BY <2>1, <3>2 DEF EncoderInv, EncoderTypes
  <2>4. NoneInFlight => OneInFlight(frame)'
    BY <2>1, ShortSequences DEF NoneInFlight, OneInFlight
  <2>5. OneInFlight(frame - 1) => TwoInFlight(frame - 1, frame)'
    <3>1. ASSUME coded = <<frame - 1>>, owned = <<>> PROVE TwoInFlight(frame - 1, frame)'
      <4>1. owned' = <<Job(Buffer, frame)>>
        <5>1. \A x : Append(<<>>, x) = <<x>> BY ShortSequences
        <5> QED BY <2>1, <3>1, <5>1
      <4>2. coded' = <<frame - 1>> /\ frame' = frame BY <2>1, <3>1
      <4> QED BY <4>1, <4>2, Zenon DEF TwoInFlight
    <3>2. ASSUME coded = <<>>, NEW b, owned = <<Job(b, frame - 1)>>
          PROVE  TwoInFlight(frame - 1, frame)'
      <4>1. owned' = <<Job(b, frame - 1), Job(Buffer, frame)>>
        BY <2>1, <3>2, AppendSecond, Zenon
      <4> QED BY <2>1, <3>2, <4>1, Zenon DEF TwoInFlight
    <3> QED BY <3>1, <3>2 DEF OneInFlight
  <2>6. AtMostOneBehind' BY <2>1, <2>4, <2>5 DEF EncoderInv, AtMostOneBehind
  <2>7. SecondAttemptAlone'
    BY <2>1, ShortSequences DEF EncoderInv, SecondAttemptAlone, NoneInFlight
  <2> QED BY <2>1, <2>3, <2>6, <2>7 DEF EncoderInv, EncoderRecovers
<1> QED BY <1>1, <1>2

(* An attempt fails: the first one leads to the reset, and the second one can
   only have failed because the driver did. *)
LEMMA EncodingFails ==
  ASSUME EncoderInv, QueueFails \/ PollFails \/ DequeueFails \/ AnswerSpoilt
  PROVE  EncoderInv'
<1>1. /\ encodePc \in {"queue", "poll", "dequeue output", "dequeue capture"}
      /\ encodePc' = (IF retried THEN "idle" ELSE "reset")
      /\ answer' = (IF retried THEN 0 ELSE answer)
      /\ UNCHANGED <<retried, nextOut, frame, refused, owned, drained, streaming>>
  BY DEF QueueFails, PollFails, DequeueFails, AnswerSpoilt, Fail, driverQueues
<1>2. \/ coded' = coded
      \/ encodePc = "dequeue capture" /\ coded' = Tail(coded)
  BY DEF QueueFails, PollFails, DequeueFails, AnswerSpoilt, driverQueues
<1>3. coded' \in Seq(Nat \ {0})
  <2>1. encodePc = "dequeue capture" => coded # <<>> BY DEF EncoderInv, EncoderTypes
  <2> QED BY <1>2, <2>1, HeadTailProperties DEF EncoderInv, EncoderTypes
<1>4. EncoderTypes' BY <1>1, <1>3 DEF EncoderInv, EncoderTypes
<1>5. CASE ~retried
  BY <1>1, <1>4, <1>5 DEF EncoderInv, AtMostOneBehind, SecondAttemptAlone, EncoderRecovers
<1>6. CASE retried
  <2>1. encodePc' = "idle" /\ answer' = 0 BY <1>1, <1>6
  <2>2. NoneInFlight' \/ OneInFlight(frame)'
    <3>1. CASE encodePc = "queue"
      BY <1>1, <1>2, <1>6, <3>1 DEF EncoderInv, SecondAttemptAlone, NoneInFlight
    <3>2. CASE encodePc \in {"poll", "dequeue output"}
      BY <1>1, <1>2, <1>6, <3>2 DEF EncoderInv, SecondAttemptAlone, OneInFlight
    <3>3. CASE encodePc = "dequeue capture"
      BY <1>1, <1>2, <1>6, <3>3, ShortSequences
      DEF EncoderInv, SecondAttemptAlone, OneInFlight, NoneInFlight
    <3> QED BY <1>1, <3>1, <3>2, <3>3
  <2>3. ~calm'
    <3>1. CASE QueueFails
      <4>1. ~WithDriver
        BY <1>6, <3>1 DEF QueueFails, EncoderInv, SecondAttemptAlone, NoneInFlight, WithDriver
      <4> QED BY <3>1, <4>1 DEF QueueFails, DriverFault
    <3>2. CASE PollFails
      <4>1. CanCode
        <5>1. encodePc = "poll" /\ ~Ready BY <3>2 DEF PollFails
        <5>2. \A b : <<b>> # <<>> BY ShortSequences
        <5>3. streaming /\ coded = <<>> /\ owned # <<>> /\ free = BufferCount
          BY <1>6, <5>1, <5>2 DEF EncoderInv, SecondAttemptAlone, Ready
        <5> QED BY <5>3, EncoderAssumption DEF CanCode
      <4> QED BY <3>2, <4>1 DEF PollFails, DriverFault
    <3>3. CASE DequeueFails
      <4>1. ~(encodePc = "dequeue output" /\ drained = <<>>)
        BY <1>6, ShortSequences DEF EncoderInv, SecondAttemptAlone
      <4> QED BY <3>3, <4>1 DEF DequeueFails, DriverFault
    <3>4. CASE AnswerSpoilt BY <3>4 DEF AnswerSpoilt, DriverFault
    <3> QED BY <3>1, <3>2, <3>3, <3>4
  <2> QED BY <1>4, <2>1, <2>2, <2>3
      DEF EncoderInv, AtMostOneBehind, SecondAttemptAlone, EncoderRecovers
<1> QED BY <1>5, <1>6

(* The coded frame comes back: the one given, or the one left from the call
   before. *)
LEMMA AnswerComes ==
  ASSUME EncoderInv, Poll \/ DequeueOutput \/ DequeueCapture
  PROVE  EncoderInv'
<1>1. CASE Poll
  <2>1. /\ encodePc = "poll" /\ encodePc' = "dequeue output" /\ coded # <<>>
        /\ UNCHANGED <<owned, drained, free, coded, streaming, nextOut, retried, frame, refused>>
    BY <1>1 DEF Poll, Goto, Ready, driverQueues
  <2>2. EncoderTypes' BY <2>1 DEF EncoderInv, EncoderTypes
  <2>3. AtMostOneBehind'
    BY <2>1 DEF EncoderInv, AtMostOneBehind, OneInFlight, TwoInFlight
  <2>4. SecondAttemptAlone' BY <2>1 DEF EncoderInv, SecondAttemptAlone
  <2> QED BY <2>1, <2>2, <2>3, <2>4 DEF EncoderInv, EncoderRecovers
<1>2. CASE DequeueOutput
  <2>1. /\ encodePc = "dequeue output" /\ encodePc' = "dequeue capture"
        /\ UNCHANGED <<owned, free, coded, streaming, nextOut, retried, frame, refused>>
    BY <1>2 DEF DequeueOutput, Goto
  <2>2. EncoderTypes' BY <2>1 DEF EncoderInv, EncoderTypes
  <2>3. AtMostOneBehind'
    BY <2>1 DEF EncoderInv, AtMostOneBehind, OneInFlight, TwoInFlight
  <2>4. SecondAttemptAlone' BY <2>1 DEF EncoderInv, SecondAttemptAlone
  <2> QED BY <2>1, <2>2, <2>3, <2>4 DEF EncoderInv, EncoderRecovers
<1>3. CASE DequeueCapture
  <2>1. /\ encodePc = "dequeue capture" /\ encodePc' = "idle"
        /\ coded' = Tail(coded) /\ answer' = Head(coded)
        /\ UNCHANGED <<owned, nextOut, retried, frame, refused>>
    BY <1>3 DEF DequeueCapture
  <2>2. /\ coded # <<>> /\ coded \in Seq(Nat \ {0}) /\ frame \in Nat
        /\ answer' \in Nat \ {0} /\ coded' \in Seq(Nat \ {0})
    BY <2>1, HeadTailProperties DEF EncoderInv, EncoderTypes
  <2>3. EncoderTypes' BY <2>1, <2>2 DEF EncoderInv, EncoderTypes
  <2>4. OneInFlight(frame) => NoneInFlight' /\ answer' = frame
    <3>1. OneInFlight(frame) => coded = <<frame>> /\ owned = <<>>
      BY <2>2 DEF OneInFlight
    <3> QED BY <2>1, <3>1, ShortSequences DEF NoneInFlight
  <2>5. TwoInFlight(frame - 1, frame) => OneInFlight(frame)' /\ answer' = frame - 1
    <3>1. ASSUME coded = <<frame - 1, frame>>, owned = <<>>
          PROVE  OneInFlight(frame)' /\ answer' = frame - 1
      BY <2>1, <3>1, ShortSequences, Zenon DEF OneInFlight
    <3>2. ASSUME coded = <<frame - 1>>, NEW b, owned = <<Job(b, frame)>>
          PROVE  OneInFlight(frame)' /\ answer' = frame - 1
      <4>1. coded' = <<>> /\ answer' = frame - 1 BY <2>1, <3>2, ShortSequences, Zenon
      <4> QED BY <2>1, <3>2, <4>1, Zenon DEF OneInFlight
    <3> QED BY <2>2, <3>1, <3>2 DEF TwoInFlight
  <2>6. ~refused => /\ NoneInFlight' \/ OneInFlight(frame)'
                    /\ answer' = frame \/ answer' = frame - 1
    BY <2>1, <2>4, <2>5 DEF EncoderInv, AtMostOneBehind
  <2>7. EncoderRecovers'
    <3>1. PICK a \in Nat : a = answer' BY <2>2
    <3>2. PICK f \in Nat : f = frame BY <2>2
    <3>3. a = f \/ a = f - 1 => f - a \in {0, 1} OBVIOUS
    <3>4. ~refused => frame - answer' \in {0, 1} BY <2>6, <3>1, <3>2, <3>3
    <3> QED BY <2>1, <2>2, <3>4 DEF EncoderRecovers
  <2> QED BY <2>1, <2>3, <2>6, <2>7 DEF EncoderInv, AtMostOneBehind, SecondAttemptAlone
<1> QED BY <1>1, <1>2, <1>3

(* The reset empties the queues, or the driver refuses it. *)
LEMMA QueuesReset == ASSUME EncoderInv, ResetQueues \/ ResetFails PROVE EncoderInv'
<1>1. CASE ResetQueues
  <2>1. /\ encodePc = "reset" /\ encodePc' = "queue"
        /\ owned' = <<>> /\ drained' = <<>> /\ coded' = <<>>
        /\ free' = BufferCount /\ streaming' = TRUE /\ nextOut' = 0 /\ frame' = frame
    BY <1>1 DEF ResetQueues
  <2>2. EncoderTypes' BY <2>1 DEF EncoderInv, EncoderTypes
  <2>3. NoneInFlight' BY <2>1 DEF NoneInFlight
  <2> QED BY <2>1, <2>2, <2>3
      DEF EncoderInv, AtMostOneBehind, SecondAttemptAlone, EncoderRecovers
<1>2. CASE ResetFails
  <2>1. /\ encodePc' = "idle" /\ answer' = 0 /\ refused' = TRUE /\ ~calm'
        /\ UNCHANGED <<nextOut, frame>>
        /\ owned' \in {owned, <<>>} /\ coded' \in {coded, <<>>}
    BY <1>2 DEF ResetFails, DriverFault, driverQueues
  <2>2. coded' \in Seq(Nat \ {0}) /\ owned' \in Seq([buf : Nat, frame : Nat \ {0}])
    <3>1. \A S : <<>> \in Seq(S) BY EmptySeq
    <3>2. coded \in Seq(Nat \ {0}) /\ owned \in Seq([buf : Nat, frame : Nat \ {0}])
      BY DEF EncoderInv, EncoderTypes
    <3> QED BY <2>1, <3>1, <3>2, Zenon
  <2>3. EncoderTypes' BY <2>1, <2>2 DEF EncoderInv, EncoderTypes
  <2> QED BY <2>1, <2>3 DEF EncoderInv, AtMostOneBehind, SecondAttemptAlone, EncoderRecovers
<1> QED BY <1>1, <1>2

(* The driver codes a frame: it is in flight as before. *)
LEMMA FrameCoded == ASSUME EncoderInv, DriverCodes PROVE EncoderInv'
<1>1. /\ owned # <<>> /\ owned' = Tail(owned)
      /\ coded' = Append(coded, Head(owned).frame)
      /\ drained' = Append(drained, Head(owned).buf)
      /\ UNCHANGED <<streaming, nextOut, frame, encodePc, retried, answer, calm, refused>>
  BY DEF DriverCodes, CanCode
<1>2. EncoderTypes'
  <2>1. /\ Head(owned) \in [buf : Nat, frame : Nat \ {0}]
        /\ owned' \in Seq([buf : Nat, frame : Nat \ {0}])
    BY <1>1, HeadTailProperties DEF EncoderInv, EncoderTypes
  <2>2. Head(owned).frame \in Nat \ {0} BY <2>1
  <2>3. coded' \in Seq(Nat \ {0}) /\ coded' # <<>>
    <3>1. PICK f \in Nat \ {0} : f = Head(owned).frame BY <2>2
    <3>2. coded \in Seq(Nat \ {0}) BY DEF EncoderInv, EncoderTypes
    <3>3. coded' = Append(coded, f) BY <1>1, <3>1
    <3> QED BY <3>2, <3>3, Appended
  <2> QED BY <1>1, <2>1, <2>3 DEF EncoderInv, EncoderTypes
<1>3. \A b, f : Job(b, f).buf = b /\ Job(b, f).frame = f BY DEF Job
<1>4. ~NoneInFlight BY <1>1 DEF NoneInFlight
<1>5. ASSUME NEW f, coded = <<>>, NEW b, owned = <<Job(b, f)>>
      PROVE  coded' = <<f>> /\ owned' = <<>> /\ drained' = Append(drained, b)
  <2>1. Head(owned) = Job(b, f) /\ Tail(owned) = <<>> BY <1>5, ShortSequences, Zenon
  <2>2. Head(owned).frame = f /\ Head(owned).buf = b BY <1>3, <2>1
  <2>3. coded' = Append(<<>>, f) BY <1>1, <1>5, <2>2
  <2> QED BY <1>1, <2>1, <2>2, <2>3, ShortSequences
<1>6. ASSUME NEW f, OneInFlight(f) PROVE OneInFlight(f)'
  BY <1>1, <1>5, <1>6 DEF OneInFlight
<1>7. ASSUME NEW f, NEW g, TwoInFlight(f, g) PROVE TwoInFlight(f, g)'
  <2>1. ASSUME coded = <<f>>, NEW b, owned = <<Job(b, g)>> PROVE TwoInFlight(f, g)'
    <3>1. Head(owned) = Job(b, g) /\ Tail(owned) = <<>> BY <2>1, ShortSequences, Zenon
    <3>2. coded' = <<f, g>> /\ owned' = <<>>
      BY <1>1, <1>3, <2>1, <3>1, AppendSecond, Zenon
    <3> QED BY <3>2, Zenon DEF TwoInFlight
  <2>2. ASSUME coded = <<>>, NEW b, NEW c, owned = <<Job(b, f), Job(c, g)>>
        PROVE  TwoInFlight(f, g)'
    <3>1. Head(owned) = Job(b, f) /\ Tail(owned) = <<Job(c, g)>>
      BY <2>2, ShortSequences, Zenon
    <3>2. coded' = <<f>> /\ owned' = <<Job(c, g)>>
      <4>1. Head(owned).frame = f BY <1>3, <3>1
      <4>2. coded' = Append(<<>>, f) BY <1>1, <2>2, <4>1
      <4> QED BY <1>1, <3>1, <4>2, ShortSequences
    <3> QED BY <3>2, Zenon DEF TwoInFlight
  <2> QED BY <1>1, <1>7, <2>1, <2>2 DEF TwoInFlight
<1>8. AtMostOneBehind'
  <2>1. OneInFlight(frame) => OneInFlight(frame)'
    BY <1>1, <1>5, Zenon DEF OneInFlight
  <2>2. PICK f, g : f = frame /\ g = frame - 1 OBVIOUS
  <2>3. OneInFlight(frame - 1) => OneInFlight(frame - 1)'
    BY <1>1, <1>6, <2>2, Zenon DEF OneInFlight
  <2>4. TwoInFlight(frame - 1, frame) => TwoInFlight(frame - 1, frame)'
    BY <1>1, <1>7, <2>2, Zenon DEF TwoInFlight
  <2> QED BY <1>1, <1>4, <2>1, <2>3, <2>4 DEF EncoderInv, AtMostOneBehind
<1>9. SecondAttemptAlone'
  <2>1. \A b : Append(<<>>, b) = <<b>> BY ShortSequences
  <2>2. CASE retried /\ encodePc = "poll"
    <3>1. PICK b : coded = <<>> /\ owned = <<Job(b, frame)>> /\ drained = <<>> /\ streaming
      BY <1>1, <2>2 DEF EncoderInv, SecondAttemptAlone
    <3>2. coded' = <<frame>> /\ owned' = <<>> /\ drained' = <<b>>
      BY <1>5, <2>1, <3>1, Zenon
    <3> QED BY <1>1, <2>2, <3>1, <3>2 DEF SecondAttemptAlone
  <2>3. CASE ~retried \/ encodePc # "poll"
    BY <1>1, <1>4, <2>3 DEF EncoderInv, SecondAttemptAlone
  <2> QED BY <2>2, <2>3
<1> QED BY <1>1, <1>2, <1>8, <1>9 DEF EncoderInv, EncoderRecovers

LEMMA EncoderInvInit == EncoderInit => EncoderInv
BY DEF EncoderInit, EncoderInv, EncoderTypes, AtMostOneBehind, NoneInFlight,
       SecondAttemptAlone, EncoderRecovers

LEMMA EncoderInvKept == EncoderInv /\ [EncoderNext]_encoderVars => EncoderInv'
<1>1. ASSUME EncoderInv, UNCHANGED encoderVars PROVE EncoderInv'
  BY <1>1 DEF encoderVars, EncoderInv, EncoderTypes, AtMostOneBehind, NoneInFlight,
     OneInFlight, TwoInFlight, SecondAttemptAlone, EncoderRecovers
<1> QED BY <1>1, CallBegins, EncodingFails, AnswerComes, QueuesReset, FrameCoded DEF EncoderNext
-----------------------------------------------------------------------------
(* Parameter sets *)

SourceUnit == [session : 1 .. MaxSessions, idr : BOOLEAN, sets : BOOLEAN]

ParamTypes ==
    /\ newest \in 1 .. MaxSessions /\ home \in SourceIds
    /\ producing \in Nat /\ cachedSets \in Nat
    /\ channels \in [SourceIds -> Seq(SourceUnit)]
    /\ inHandOf \in [SourceIds -> SourceUnit \union {NoUnit}]
    /\ stable \in Seq(SourceUnit)

Brings(unit, s) == unit.sets /\ unit.session = s

(* The sets of session s need not come any more: they did, or the session is
   one of the exceptions. *)
Settled(s) == s \in setsLost \union passed \/ cachedSets >= s

OnItsWay(s) == \E j \in DOMAIN stable : Brings(stable[j], s)

(* What leaves the channel of source c comes after the sets of session s. *)
Ahead(c, s) == Settled(s) \/ Brings(inHandOf[c], s) \/ OnItsWay(s)

(* Wherever a unit is, the sets of its session are before it. *)
StableCovered ==
    \A i \in DOMAIN stable :
        /\ stable[i].session <= newest
        /\ Settled(stable[i].session) \/ \E j \in 1 .. i : Brings(stable[j], stable[i].session)

HandsCovered ==
    \A c \in SourceIds :
        inHandOf[c] # NoUnit => inHandOf[c].session <= newest /\ Ahead(c, inHandOf[c].session)

ChannelCovered(c) ==
    \A i \in DOMAIN channels[c] :
        /\ channels[c][i].session <= newest
        /\ \/ Ahead(c, channels[c][i].session)
           \/ \E j \in 1 .. i : Brings(channels[c][j], channels[c][i].session)

ChannelsCovered == \A c \in SourceIds : ChannelCovered(c)

(* So for the next unit the encoder produces. *)
NewestCovered ==
    producing > 0 => \/ Ahead(home, newest)
                     \/ \E j \in DOMAIN channels[home] : Brings(channels[home][j], newest)

ParamInv ==
    ParamTypes /\ StableCovered /\ HandsCovered /\ ChannelsCovered /\ NewestCovered
    /\ SetsOfTheirSession

LEMMA ParamInvInit == ParamSetsInit => ParamInv
<1> SUFFICES ASSUME ParamSetsInit PROVE ParamInv OBVIOUS
<1>1. ParamTypes BY ParamSetsAssumption DEF ParamSetsInit, ParamTypes, SourceIds
<1>2. StableCovered /\ HandsCovered /\ ChannelsCovered /\ NewestCovered
  BY DEF ParamSetsInit, StableCovered, HandsCovered, ChannelsCovered, ChannelCovered, NewestCovered
<1>3. SetsOfTheirSession BY DEF ParamSetsInit, SetsOfTheirSession
<1> QED BY <1>1, <1>2, <1>3 DEF ParamInv

(* No source unit is NoUnit, which brings nothing. *)
LEMMA RealUnits ==
  /\ \A u \in SourceUnit : u # NoUnit /\ u.session \in Nat /\ u.sets \in BOOLEAN
  /\ \A s : ~Brings(NoUnit, s)
<1>1. NoUnit.session = 0 /\ NoUnit.sets = FALSE BY DEF NoUnit
<1>2. \A u \in SourceUnit : u.session \in 1 .. MaxSessions /\ u.sets \in BOOLEAN BY DEF SourceUnit
<1>3. \A u \in SourceUnit : u.session \in Nat /\ u.session # 0 BY <1>2, ParamSetsAssumption
<1> QED BY <1>1, <1>2, <1>3 DEF Brings

(* The unit main takes from a channel, and what it leaves. *)
LEMMA FirstUnit ==
  ASSUME NEW S, NEW q \in Seq(S), q # <<>>
  PROVE  /\ Len(q) \in Nat \ {0} /\ DOMAIN q = 1 .. Len(q)
         /\ Head(q) = q[1] /\ q[1] \in S
         /\ Tail(q) \in Seq(S) /\ DOMAIN Tail(q) = 1 .. Len(q) - 1
         /\ \A i \in 1 .. Len(q) - 1 : Tail(q)[i] = q[i + 1]
BY HeadTailProperties, EmptySeq, LenProperties, ElementOfSeq

LEMMA SettledStays ==
  ASSUME ParamTypes, ParamSetsNext, NEW s \in Nat, s <= newest, Settled(s)
  PROVE  Settled(s)'
<1>1. CASE Produce BY <1>1 DEF Produce, Settled
<1>2. CASE BeginSession BY <1>2 DEF BeginSession, Settled
<1>3. CASE WriteToHub
  <2>1. PICK unit \in SourceUnit :
            /\ cachedSets' = Cached(unit)
            /\ passed' = IF unit.session >= cachedSets THEN passed
                         ELSE passed \union IF unit.sets THEN unit.session .. newest
                                            ELSE {unit.session}
    <3>1. stable # <<>> /\ stable \in Seq(SourceUnit) BY <1>3 DEF WriteToHub, ParamTypes
    <3>2. Head(stable) \in SourceUnit BY <3>1, FirstUnit
    <3> QED BY <1>3, <3>2, Zenon DEF WriteToHub
  <2>2. unit.session \in Nat /\ cachedSets \in Nat /\ newest \in Nat /\ setsLost' = setsLost
    BY <1>3, <2>1, RealUnits DEF WriteToHub, ParamTypes, sourceSide
  <2>3. passed \subseteq passed' BY <2>1
  <2>4. CASE s \in setsLost \union passed BY <2>2, <2>3, <2>4 DEF Settled
  <2>5. CASE cachedSets >= s
    <3>1. CASE ~unit.sets BY <2>1, <2>5, <3>1 DEF Cached, Settled
    <3>2. CASE unit.sets /\ unit.session >= s BY <2>1, <3>2 DEF Cached, Settled
    <3>3. CASE unit.sets /\ unit.session < s
      <4>1. unit.session < cachedSets BY <2>2, <2>5, <3>3
      <4>2. s \in unit.session .. newest BY <2>2, <3>3
      <4> QED BY <2>1, <2>2, <3>3, <4>1, <4>2 DEF Settled
    <3> QED BY <2>2, <3>1, <3>2, <3>3
  <2> QED BY <2>4, <2>5 DEF Settled
<1>4. ASSUME NEW c \in SourceIds, PumpTakes(c) \/ PumpForwards(c) PROVE Settled(s)'
  BY <1>4 DEF PumpTakes, PumpForwards, Settled, sourceSide
<1> QED BY <1>1, <1>2, <1>3, <1>4 DEF ParamSetsNext

LEMMA AheadStays ==
  ASSUME ParamTypes, ParamSetsNext, NEW c \in SourceIds, NEW s \in Nat, s <= newest, Ahead(c, s)
  PROVE  Ahead(c, s)'
<1>1. CASE Settled(s) BY <1>1, SettledStays DEF Ahead
<1>2. CASE UNCHANGED <<stable, inHandOf>> /\ ~Settled(s)
  BY <1>2 DEF Ahead, OnItsWay
<1>3. CASE WriteToHub /\ ~Settled(s)
  <2>1. inHandOf' = inHandOf /\ stable # <<>> /\ stable' = Tail(stable)
        /\ cachedSets' = Cached(Head(stable))
    BY <1>3 DEF WriteToHub
  <2>2. CASE Brings(inHandOf[c], s) BY <2>1, <2>2 DEF Ahead
  <2>3. CASE OnItsWay(s)
    <3>1. PICK j \in DOMAIN stable : Brings(stable[j], s) BY <2>3 DEF OnItsWay
    <3>2. /\ Len(stable) \in Nat \ {0} /\ DOMAIN stable = 1 .. Len(stable)
          /\ Head(stable) = stable[1] /\ DOMAIN stable' = 1 .. Len(stable) - 1
          /\ \A i \in 1 .. Len(stable) - 1 : stable'[i] = stable[i + 1]
      BY <2>1, FirstUnit DEF ParamTypes
    <3>3. CASE j = 1
      <4>1. cachedSets' = s BY <2>1, <3>1, <3>2, <3>3 DEF Brings, Cached
      <4> QED BY <4>1 DEF Ahead, Settled
    <3>4. CASE j # 1
      <4>1. j - 1 \in DOMAIN stable' /\ stable'[j - 1] = stable[j] BY <3>1, <3>2, <3>4
      <4> QED BY <3>1, <4>1 DEF Ahead, OnItsWay
    <3> QED BY <3>3, <3>4
  <2> QED BY <1>3, <2>2, <2>3 DEF Ahead
<1>4. ASSUME NEW d \in SourceIds, PumpTakes(d), ~Settled(s) PROVE Ahead(c, s)'
  <2>1. inHandOf[d] = NoUnit /\ stable' = stable
        /\ inHandOf' = [inHandOf EXCEPT ![d] = Head(channels[d])]
    BY <1>4 DEF PumpTakes
  <2>2. CASE OnItsWay(s) BY <2>1, <2>2 DEF Ahead, OnItsWay
  <2>3. CASE Brings(inHandOf[c], s)
    <3>1. c # d BY <2>1, <2>3, RealUnits
    <3>2. inHandOf'[c] = inHandOf[c] BY <2>1, <3>1 DEF ParamTypes
    <3> QED BY <2>3, <3>2 DEF Ahead
  <2> QED BY <1>4, <2>2, <2>3 DEF Ahead
<1>5. ASSUME NEW d \in SourceIds, PumpForwards(d), ~Settled(s) PROVE Ahead(c, s)'
  <2>1. inHandOf[d] # NoUnit /\ stable' = Append(stable, inHandOf[d])
        /\ inHandOf' = [inHandOf EXCEPT ![d] = NoUnit]
    BY <1>5 DEF PumpForwards
  <2>2. stable \in Seq(SourceUnit) /\ inHandOf[d] \in SourceUnit BY <2>1 DEF ParamTypes
  <2>3. /\ Len(stable) \in Nat /\ DOMAIN stable = 1 .. Len(stable)
        /\ DOMAIN stable' = 1 .. Len(stable) + 1
        /\ \A i \in 1 .. Len(stable) : stable'[i] = stable[i]
        /\ stable'[Len(stable) + 1] = inHandOf[d]
    BY <2>1, <2>2, AppendProperties, LenProperties
  <2>4. CASE OnItsWay(s)
    <3>1. PICK j \in DOMAIN stable : Brings(stable[j], s) BY <2>4 DEF OnItsWay
    <3>2. j \in DOMAIN stable' /\ stable'[j] = stable[j] BY <2>3
    <3> QED BY <3>1, <3>2 DEF Ahead, OnItsWay
  <2>5. CASE Brings(inHandOf[c], s)
    <3>1. CASE c = d
      <4>1. Len(stable) + 1 \in DOMAIN stable' BY <2>3
      <4> QED BY <2>3, <2>5, <3>1, <4>1 DEF Ahead, OnItsWay
    <3>2. CASE c # d
      <4>1. inHandOf'[c] = inHandOf[c] BY <2>1, <3>2 DEF ParamTypes
      <4> QED BY <2>5, <4>1 DEF Ahead
    <3> QED BY <3>1, <3>2
  <2> QED BY <1>5, <2>4, <2>5 DEF Ahead
<1> QED BY <1>1, <1>2, <1>3, <1>4, <1>5 DEF ParamSetsNext, Produce, BeginSession
LEMMA ParamTypesKept == ASSUME ParamTypes, ParamSetsNext PROVE ParamTypes'
<1>1. CASE Produce
  <2>1. PICK idr \in BOOLEAN, sets \in BOOLEAN :
            channels' = IF Len(channels[home]) < SourceRoom
                        THEN [channels EXCEPT ![home] =
                                  Append(@, [session |-> newest, idr |-> idr, sets |-> sets])]
                        ELSE channels
    BY <1>1 DEF Produce
  <2>2. [session |-> newest, idr |-> idr, sets |-> sets] \in SourceUnit
    BY DEF SourceUnit, ParamTypes
  <2>3. channels' \in [SourceIds -> Seq(SourceUnit)]
    BY <2>1, <2>2, AppendProperties DEF ParamTypes
  <2> QED BY <1>1, <2>3 DEF Produce, ParamTypes
<1>2. CASE BeginSession
  BY <1>2, ParamSetsAssumption DEF BeginSession, ParamTypes, SourceIds
<1>3. CASE WriteToHub
  <2>1. stable # <<>> /\ stable \in Seq(SourceUnit) /\ stable' = Tail(stable)
        /\ cachedSets' = Cached(Head(stable)) /\ UNCHANGED <<sourceSide, channels, inHandOf>>
    BY <1>3 DEF WriteToHub, ParamTypes
  <2>2. Head(stable) \in SourceUnit /\ stable' \in Seq(SourceUnit) BY <2>1, FirstUnit
  <2>3. cachedSets' \in Nat BY <2>1, <2>2, RealUnits DEF Cached, ParamTypes
  <2> QED BY <2>1, <2>2, <2>3 DEF ParamTypes, sourceSide
<1>4. ASSUME NEW c \in SourceIds, PumpTakes(c) PROVE ParamTypes'
  <2>1. Head(channels[c]) \in SourceUnit /\ Tail(channels[c]) \in Seq(SourceUnit)
    BY <1>4, FirstUnit DEF PumpTakes, ParamTypes
  <2> QED BY <1>4, <2>1 DEF PumpTakes, ParamTypes, sourceSide
<1>5. ASSUME NEW c \in SourceIds, PumpForwards(c) PROVE ParamTypes'
  <2>1. inHandOf[c] \in SourceUnit BY <1>5 DEF PumpForwards, ParamTypes
  <2>2. stable' \in Seq(SourceUnit) BY <1>5, <2>1, AppendProperties DEF PumpForwards, ParamTypes
  <2> QED BY <1>5, <2>2 DEF PumpForwards, ParamTypes, sourceSide
<1> QED BY <1>1, <1>2, <1>3, <1>4, <1>5 DEF ParamSetsNext

(* Where no unit is moved, every part follows from the two lemmas before. *)
LEMMA StillCovered ==
  ASSUME ParamInv, ParamSetsNext
  PROVE  /\ newest \in Nat /\ newest' \in Nat /\ newest <= newest'
         /\ stable' = stable => StableCovered'
         /\ inHandOf' = inHandOf => HandsCovered'
         /\ \A c \in SourceIds : channels'[c] = channels[c] => ChannelCovered(c)'
         /\ UNCHANGED <<producing, home, newest, channels>> => NewestCovered'
<1>1. newest \in Nat /\ newest' \in Nat /\ newest <= newest'
  <2>1. newest \in Nat BY DEF ParamInv, ParamTypes
  <2>2. newest' = newest \/ newest' = newest + 1
    BY DEF ParamSetsNext, Produce, BeginSession, WriteToHub, PumpTakes, PumpForwards, sourceSide
  <2> QED BY <2>1, <2>2
<1>2. ASSUME stable' = stable PROVE StableCovered'
  <2> SUFFICES ASSUME NEW i \in DOMAIN stable
               PROVE  /\ stable[i].session <= newest'
                      /\ \/ Settled(stable[i].session)'
                         \/ \E j \in 1 .. i : Brings(stable[j], stable[i].session)
    BY <1>2 DEF StableCovered, Settled
  <2>1. PICK s \in Nat : s = stable[i].session BY RealUnits, ElementOfSeq DEF ParamInv, ParamTypes
  <2>2. s <= newest /\ (Settled(s) \/ \E j \in 1 .. i : Brings(stable[j], s))
    BY <2>1 DEF ParamInv, StableCovered
  <2>3. Settled(s) => Settled(s)' BY <2>2, SettledStays DEF ParamInv
  <2> QED BY <1>1, <1>2, <2>1, <2>2, <2>3 DEF Settled
<1>3. ASSUME inHandOf' = inHandOf PROVE HandsCovered'
  <2> SUFFICES ASSUME NEW c \in SourceIds, inHandOf[c] # NoUnit
               PROVE  inHandOf[c].session <= newest' /\ Ahead(c, inHandOf[c].session)'
    BY <1>3 DEF HandsCovered, Ahead
  <2>1. PICK s \in Nat : s = inHandOf[c].session BY RealUnits DEF ParamInv, ParamTypes
  <2>2. s <= newest /\ Ahead(c, s) BY <2>1 DEF ParamInv, HandsCovered
  <2>3. Ahead(c, s)' BY <2>2, AheadStays DEF ParamInv
  <2>4. s <= newest' BY <1>1, <2>2
  <2>5. inHandOf'[c].session = s BY <1>3, <2>1
  <2> QED BY <2>1, <2>3, <2>4, <2>5 DEF Ahead, Settled, OnItsWay
<1>4. ASSUME NEW c \in SourceIds, channels'[c] = channels[c] PROVE ChannelCovered(c)'
  <2> SUFFICES ASSUME NEW i \in DOMAIN channels[c]
               PROVE  /\ channels[c][i].session <= newest'
                      /\ \/ Ahead(c, channels[c][i].session)'
                         \/ \E j \in 1 .. i : Brings(channels[c][j], channels[c][i].session)
    BY <1>4 DEF ChannelCovered, Ahead
  <2>1. PICK s \in Nat : s = channels[c][i].session
    BY RealUnits, ElementOfSeq DEF ParamInv, ParamTypes
  <2>2. s <= newest /\ (Ahead(c, s) \/ \E j \in 1 .. i : Brings(channels[c][j], s))
    BY <2>1 DEF ParamInv, ChannelsCovered, ChannelCovered
  <2>3. Ahead(c, s) => Ahead(c, s)' BY <2>2, AheadStays DEF ParamInv
  <2>4. s <= newest' BY <1>1, <2>2
  <2>5. channels'[c][i].session = s BY <1>4, <2>1
  <2> QED BY <2>1, <2>2, <2>3, <2>4, <2>5 DEF Ahead, Settled, OnItsWay
<1>5. ASSUME UNCHANGED <<producing, home, newest, channels>> PROVE NewestCovered'
  <2> SUFFICES ASSUME producing > 0
               PROVE  \/ Ahead(home, newest)'
                      \/ \E j \in DOMAIN channels[home] : Brings(channels[home][j], newest)
    BY <1>5 DEF NewestCovered
  <2>1. PICK s \in Nat, c \in SourceIds : s = newest /\ c = home BY <1>1 DEF ParamInv, ParamTypes
  <2>2. Ahead(c, s) \/ \E j \in DOMAIN channels[c] : Brings(channels[c][j], s)
    BY <2>1 DEF ParamInv, NewestCovered
  <2>3. Ahead(c, s) => Ahead(c, s)' BY <1>1, <2>1, AheadStays DEF ParamInv
  <2>4. home' = c /\ newest' = s BY <1>5, <2>1
  <2> QED BY <2>1, <2>2, <2>3, <2>4 DEF Ahead, Settled, OnItsWay
<1> QED BY <1>1, <1>2, <1>3, <1>4, <1>5
LEMMA ProduceKeeps ==
  ASSUME ParamInv, Produce
  PROVE  StableCovered' /\ HandsCovered' /\ ChannelsCovered' /\ NewestCovered'
<1>1. ParamSetsNext BY DEF ParamSetsNext
<1>2. StableCovered' /\ HandsCovered' BY <1>1, StillCovered DEF Produce
<1>3. PICK c \in SourceIds, s \in Nat : c = home /\ s = newest BY DEF ParamInv, ParamTypes
<1>4. PICK idr \in BOOLEAN, sets \in BOOLEAN :
          /\ producing = 0 => sets
          /\ channels' = IF Len(channels[c]) < SourceRoom
                         THEN [channels EXCEPT ![c] =
                                   Append(@, [session |-> s, idr |-> idr, sets |-> sets])]
                         ELSE channels
          /\ setsLost' = IF sets /\ ~(Len(channels[c]) < SourceRoom) THEN setsLost \union {s}
                         ELSE setsLost
  BY <1>3 DEF Produce, ParamInv, ParamTypes
<1>5. home' = c /\ newest' = s /\ producing' = producing + 1 /\ producing \in Nat
  BY <1>3 DEF Produce, ParamInv, ParamTypes
<1>6. Ahead(c, s) => Ahead(c, s)' BY <1>1, <1>3, AheadStays DEF ParamInv
<1>7. producing > 0 => Ahead(c, s) \/ \E j \in DOMAIN channels[c] : Brings(channels[c][j], s)
  BY <1>3 DEF ParamInv, NewestCovered
<1>8. CASE Len(channels[c]) < SourceRoom
  <2> DEFINE unit == [session |-> s, idr |-> idr, sets |-> sets]
             q == channels[c]
  <2>1. unit \in SourceUnit /\ q \in Seq(SourceUnit)
    BY <1>3 DEF SourceUnit, ParamInv, ParamTypes
  <2>2. channels'[c] = Append(q, unit) /\ \A d \in SourceIds \ {c} : channels'[d] = channels[d]
    BY <1>4, <1>8 DEF ParamInv, ParamTypes
  <2>3. unit.session = s /\ unit.sets = sets OBVIOUS
  <2> HIDE DEF unit
  <2>4. /\ Len(q) \in Nat /\ DOMAIN q = 1 .. Len(q)
        /\ DOMAIN channels'[c] = 1 .. Len(q) + 1
        /\ \A i \in 1 .. Len(q) : channels'[c][i] = q[i]
        /\ channels'[c][Len(q) + 1] = unit
    BY <2>1, <2>2, AppendProperties, LenProperties
  <2>5. Ahead(c, s)' \/ \E j \in 1 .. Len(q) + 1 : Brings(channels'[c][j], s)
    <3>1. CASE producing = 0 BY <1>4, <2>3, <2>4, <3>1 DEF Brings
    <3>2. CASE producing > 0 BY <1>6, <1>7, <2>4, <3>2
    <3> QED BY <1>5, <3>1, <3>2
  <2>6. NewestCovered' BY <1>5, <2>4, <2>5 DEF NewestCovered, Ahead, Settled, OnItsWay
  <2>7. ASSUME NEW i \in 1 .. Len(q)
        PROVE  /\ channels'[c][i].session <= newest'
               /\ \/ Ahead(c, channels[c][i].session)'
                  \/ \E j \in 1 .. i : Brings(channels'[c][j], channels'[c][i].session)
    <3>1. PICK t \in Nat : t = q[i].session BY <2>1, <2>4, RealUnits, ElementOfSeq
    <3>2. t <= newest /\ (Ahead(c, t) \/ \E j \in 1 .. i : Brings(q[j], t))
      BY <2>4, <3>1 DEF ParamInv, ChannelsCovered, ChannelCovered
    <3>3. Ahead(c, t) => Ahead(c, t)' BY <1>1, <3>2, AheadStays DEF ParamInv
    <3>4. channels'[c][i].session = t BY <2>4, <3>1
    <3> QED BY <1>3, <1>5, <2>4, <3>2, <3>3, <3>4 DEF Ahead, Settled, OnItsWay
  <2>8. ChannelCovered(c)'
    BY <1>3, <1>5, <2>3, <2>4, <2>5, <2>7 DEF ChannelCovered, Ahead, Settled, OnItsWay
  <2>9. \A d \in SourceIds \ {c} : ChannelCovered(d)' BY <1>1, <2>2, StillCovered
  <2> QED BY <1>2, <2>6, <2>8, <2>9 DEF ChannelsCovered
<1>9. CASE ~(Len(channels[c]) < SourceRoom)
  <2>1. channels' = channels BY <1>4, <1>9
  <2>2. ChannelsCovered' BY <1>1, <2>1, StillCovered DEF ChannelsCovered
  <2>3. producing = 0 => Settled(s)' BY <1>4, <1>9 DEF Settled
  <2>4. NewestCovered'
    BY <1>5, <1>6, <1>7, <2>1, <2>3 DEF NewestCovered, Ahead, Settled, OnItsWay
  <2> QED BY <1>2, <2>2, <2>4
<1> QED BY <1>8, <1>9

LEMMA WriteKeeps ==
  ASSUME ParamInv, WriteToHub
  PROVE  StableCovered' /\ SetsOfTheirSession'
<1>1. ParamSetsNext BY DEF ParamSetsNext
<1>2. stable # <<>> /\ stable \in Seq(SourceUnit) /\ stable' = Tail(stable)
  BY DEF WriteToHub, ParamInv, ParamTypes
<1>3. /\ Len(stable) \in Nat \ {0} /\ DOMAIN stable = 1 .. Len(stable)
      /\ Head(stable) = stable[1] /\ stable[1] \in SourceUnit
      /\ DOMAIN stable' = 1 .. Len(stable) - 1
      /\ \A i \in 1 .. Len(stable) - 1 : stable'[i] = stable[i + 1]
  BY <1>2, FirstUnit
<1>4. PICK unit \in SourceUnit :
          /\ unit = stable[1]
          /\ cachedSets' = Cached(unit)
          /\ written' = [session |-> unit.session, idr |-> unit.idr,
                         carries |-> IF unit.sets THEN unit.session
                                     ELSE IF unit.idr THEN Cached(unit) ELSE 0]
          /\ passed' = IF unit.session >= cachedSets THEN passed
                       ELSE passed \union IF unit.sets THEN unit.session .. newest
                                          ELSE {unit.session}
          /\ setsLost' = setsLost /\ newest' = newest
  <2>1. UNCHANGED <<setsLost, newest>> BY DEF WriteToHub, sourceSide
  <2> QED BY <1>3, <2>1, Zenon DEF WriteToHub
<1>5. ASSUME NEW i \in DOMAIN stable'
      PROVE  /\ stable'[i].session <= newest'
             /\ \/ Settled(stable[i].session)'
                \/ \E j \in 1 .. i : Brings(stable'[j], stable'[i].session)
  <2>1. i + 1 \in DOMAIN stable /\ stable'[i] = stable[i + 1] BY <1>3
  <2>2. PICK s \in Nat : s = stable[i + 1].session BY <1>2, <2>1, RealUnits, ElementOfSeq
  <2>3. s <= newest /\ (Settled(s) \/ \E j \in 1 .. i + 1 : Brings(stable[j], s))
    BY <2>1, <2>2 DEF ParamInv, StableCovered
  <2>4. CASE Settled(s)
    <3>1. Settled(s)' BY <1>1, <2>3, <2>4, SettledStays DEF ParamInv
    <3> QED BY <1>4, <2>1, <2>2, <2>3, <3>1 DEF Settled
  <2>5. ASSUME NEW j \in 1 .. i + 1, Brings(stable[j], s)
        PROVE  Settled(s)' \/ \E k \in 1 .. i : Brings(stable'[k], s)
    <3>1. CASE j = 1
      <4>1. cachedSets' = s BY <1>4, <2>5, <3>1 DEF Brings, Cached
      <4> QED BY <4>1 DEF Settled
    <3>2. CASE j # 1
      <4>1. j - 1 \in 1 .. i /\ stable'[j - 1] = stable[j] BY <1>3, <3>2
      <4> QED BY <2>5, <4>1
    <3> QED BY <3>1, <3>2
  <2> QED BY <1>4, <2>1, <2>2, <2>3, <2>4, <2>5 DEF Settled
<1>6. StableCovered' BY <1>5 DEF StableCovered
<1>7. ASSUME unit.idr, ~unit.sets
      PROVE  Cached(unit) = unit.session \/ unit.session \in setsLost \union passed'
  <2>1. unit.session \in Nat /\ cachedSets \in Nat BY RealUnits DEF ParamInv, ParamTypes
  <2>2. 1 \in DOMAIN stable BY <1>3
  <2>3. Settled(unit.session) BY <1>4, <1>7, <2>2 DEF ParamInv, StableCovered, Brings
  <2>4. Cached(unit) = cachedSets BY <1>7 DEF Cached
  <2>5. CASE unit.session \in setsLost \union passed BY <1>4, <2>5
  <2>6. CASE cachedSets >= unit.session BY <1>4, <1>7, <2>1, <2>4, <2>6
  <2> QED BY <2>3, <2>5, <2>6 DEF Settled
<1>8. /\ written'.session = unit.session /\ written'.idr = unit.idr
      /\ written'.carries = IF unit.sets THEN unit.session
                            ELSE IF unit.idr THEN Cached(unit) ELSE 0
  BY <1>4
<1>9. SetsOfTheirSession' BY <1>4, <1>7, <1>8 DEF SetsOfTheirSession
<1> QED BY <1>6, <1>9
LEMMA TakeKeeps ==
  ASSUME ParamInv, NEW c \in SourceIds, PumpTakes(c)
  PROVE  StableCovered' /\ HandsCovered' /\ ChannelsCovered' /\ NewestCovered'
<1>1. ParamSetsNext BY DEF ParamSetsNext
<1>2. StableCovered' BY <1>1, StillCovered DEF PumpTakes
<1> DEFINE q == channels[c]
<1>3. q # <<>> /\ q \in Seq(SourceUnit) /\ inHandOf[c] = NoUnit
  BY DEF PumpTakes, ParamInv, ParamTypes
<1>4. /\ channels'[c] = Tail(q) /\ inHandOf'[c] = Head(q)
      /\ \A d \in SourceIds \ {c} : channels'[d] = channels[d] /\ inHandOf'[d] = inHandOf[d]
      /\ newest' = newest /\ home' = home /\ producing' = producing /\ stable' = stable
  BY DEF PumpTakes, ParamInv, ParamTypes, sourceSide
<1>5. /\ Len(q) \in Nat \ {0} /\ DOMAIN q = 1 .. Len(q)
      /\ inHandOf'[c] = q[1] /\ q[1] \in SourceUnit
      /\ DOMAIN channels'[c] = 1 .. Len(q) - 1
      /\ \A i \in 1 .. Len(q) - 1 : channels'[c][i] = q[i + 1]
  BY <1>3, <1>4, FirstUnit
(* What had the sets of session s before it has them still. *)
<1>6. ASSUME NEW s \in Nat, s <= newest, NEW i \in Nat,
             Ahead(c, s) \/ \E j \in 1 .. i + 1 : j \in DOMAIN q /\ Brings(q[j], s)
      PROVE  Ahead(c, s)' \/ \E j \in 1 .. i : j \in DOMAIN channels'[c] /\ Brings(channels'[c][j], s)
  <2>1. CASE Ahead(c, s) BY <1>1, <1>6, <2>1, AheadStays DEF ParamInv
  <2>2. ASSUME NEW j \in 1 .. i + 1, j \in DOMAIN q, Brings(q[j], s)
        PROVE  Ahead(c, s)' \/ \E k \in 1 .. i : k \in DOMAIN channels'[c] /\ Brings(channels'[c][k], s)
    <3>1. CASE j = 1 BY <1>5, <2>2, <3>1 DEF Ahead
    <3>2. CASE j # 1
      <4>1. j - 1 \in 1 .. i /\ j - 1 \in DOMAIN channels'[c] /\ channels'[c][j - 1] = q[j]
        BY <1>5, <2>2, <3>2
      <4> QED BY <2>2, <4>1
    <3> QED BY <3>1, <3>2
  <2> QED BY <1>6, <2>1, <2>2
<1>7. ASSUME NEW i \in Nat, i + 1 \in DOMAIN q
      PROVE  \E s \in Nat :
                /\ s = q[i + 1].session /\ s <= newest
                /\ \/ Ahead(c, s)'
                   \/ \E j \in 1 .. i : j \in DOMAIN channels'[c] /\ Brings(channels'[c][j], s)
  <2>1. PICK s \in Nat : s = q[i + 1].session BY <1>3, <1>7, RealUnits, ElementOfSeq
  <2>2. s <= newest /\ (Ahead(c, s) \/ \E j \in 1 .. i + 1 : Brings(q[j], s))
    BY <1>7, <2>1 DEF ParamInv, ChannelsCovered, ChannelCovered
  <2>3. \A j \in 1 .. i + 1 : j \in DOMAIN q BY <1>5, <1>7
  <2>4. Ahead(c, s) \/ \E j \in 1 .. i + 1 : j \in DOMAIN q /\ Brings(q[j], s) BY <2>2, <2>3
  <2> QED BY <1>6, <2>1, <2>2, <2>4
<1>8. HandsCovered'
  <2>1. ASSUME NEW d \in SourceIds \ {c}, inHandOf[d] # NoUnit
        PROVE  inHandOf'[d].session <= newest' /\ Ahead(d, inHandOf[d].session)'
    <3>1. PICK s \in Nat : s = inHandOf[d].session
      BY <2>1, RealUnits DEF ParamInv, ParamTypes
    <3>2. s <= newest /\ Ahead(d, s) BY <2>1, <3>1 DEF ParamInv, HandsCovered
    <3>3. Ahead(d, s)' BY <1>1, <3>2, AheadStays DEF ParamInv
    <3>4. inHandOf'[d].session = s BY <1>4, <3>1
    <3> QED BY <1>4, <3>2, <3>3, <3>4 DEF Ahead, Settled, OnItsWay
  <2>2. inHandOf'[c].session <= newest' /\ Ahead(c, inHandOf[c].session)'
    <3>1. 0 + 1 \in DOMAIN q BY <1>5
    <3>2. PICK s \in Nat : s = q[0 + 1].session /\ s <= newest
                           /\ (Ahead(c, s)' \/ \E j \in 1 .. 0 :
                                   j \in DOMAIN channels'[c] /\ Brings(channels'[c][j], s))
      BY <1>7, <3>1
    <3>3. Ahead(c, s)' BY <3>2
    <3>4. inHandOf'[c].session = s BY <1>5, <3>2
    <3> QED BY <1>4, <3>2, <3>3, <3>4 DEF Ahead, Settled, OnItsWay
  <2> QED BY <1>4, <2>1, <2>2 DEF HandsCovered
<1>9. ChannelsCovered'
  <2>1. ASSUME NEW i \in DOMAIN channels'[c]
        PROVE  /\ channels'[c][i].session <= newest'
               /\ \/ Ahead(c, channels[c][i].session)'
                  \/ \E j \in 1 .. i : Brings(channels'[c][j], channels'[c][i].session)
    <3>1. i \in Nat /\ i + 1 \in DOMAIN q /\ channels'[c][i] = q[i + 1] BY <1>5
    <3>2. PICK s \in Nat : s = q[i + 1].session /\ s <= newest
                           /\ (Ahead(c, s)' \/ \E j \in 1 .. i :
                                   j \in DOMAIN channels'[c] /\ Brings(channels'[c][j], s))
      BY <1>7, <3>1
    <3>3. channels'[c][i].session = s BY <3>1, <3>2
    <3> QED BY <1>4, <3>2, <3>3 DEF Ahead, Settled, OnItsWay
  <2>2. ChannelCovered(c)' BY <2>1 DEF ChannelCovered
  <2>3. \A d \in SourceIds \ {c} : ChannelCovered(d)' BY <1>1, <1>4, StillCovered
  <2> QED BY <2>2, <2>3 DEF ChannelsCovered
<1>10. NewestCovered'
  <2> SUFFICES ASSUME producing > 0
               PROVE  \/ Ahead(home, newest)'
                      \/ \E j \in DOMAIN channels'[home] : Brings(channels'[home][j], newest)
    BY <1>4 DEF NewestCovered
  <2>1. PICK s \in Nat, d \in SourceIds : s = newest /\ d = home
    BY DEF ParamInv, ParamTypes
  <2>2. Ahead(d, s) \/ \E j \in DOMAIN channels[d] : Brings(channels[d][j], s)
    BY <2>1 DEF ParamInv, NewestCovered
  <2>3. CASE d # c
    <3>1. Ahead(d, s) => Ahead(d, s)' BY <1>1, <2>1, AheadStays DEF ParamInv
    <3>2. channels'[d] = channels[d] BY <1>4, <2>3
    <3> QED BY <1>4, <2>1, <2>2, <3>1, <3>2 DEF Ahead, Settled, OnItsWay
  <2>4. CASE d = c
    <3>1. PICK n \in Nat : n = Len(q) BY <1>5
    <3>2. Ahead(c, s) \/ \E j \in 1 .. n + 1 : j \in DOMAIN q /\ Brings(q[j], s)
      BY <1>5, <2>2, <2>4, <3>1
    <3>3. s <= newest BY <2>1
    <3>4. Ahead(c, s)' \/ \E j \in 1 .. n : j \in DOMAIN channels'[c] /\ Brings(channels'[c][j], s)
      BY <1>6, <3>2, <3>3
    <3> QED BY <1>4, <2>1, <2>4, <3>4 DEF Ahead, Settled, OnItsWay
  <2> QED BY <2>3, <2>4
<1> QED BY <1>2, <1>8, <1>9, <1>10

LEMMA ForwardKeeps ==
  ASSUME ParamInv, NEW c \in SourceIds, PumpForwards(c)
  PROVE  StableCovered' /\ HandsCovered' /\ ChannelsCovered' /\ NewestCovered'
<1>1. ParamSetsNext BY DEF ParamSetsNext
<1>2. channels' = channels /\ newest' = newest /\ home' = home /\ producing' = producing
  BY DEF PumpForwards, sourceSide
<1>3. ChannelsCovered' /\ NewestCovered' BY <1>1, <1>2, StillCovered DEF ChannelsCovered
<1>4. inHandOf[c] # NoUnit /\ inHandOf[c] \in SourceUnit /\ stable \in Seq(SourceUnit)
  BY DEF PumpForwards, ParamInv, ParamTypes
<1>5. /\ Len(stable) \in Nat /\ DOMAIN stable = 1 .. Len(stable)
      /\ DOMAIN stable' = 1 .. Len(stable) + 1
      /\ \A i \in 1 .. Len(stable) : stable'[i] = stable[i]
      /\ stable'[Len(stable) + 1] = inHandOf[c]
  BY <1>4, AppendProperties, LenProperties DEF PumpForwards
<1>6. inHandOf'[c] = NoUnit /\ \A d \in SourceIds \ {c} : inHandOf'[d] = inHandOf[d]
  BY DEF PumpForwards, ParamInv, ParamTypes
<1>7. HandsCovered'
  <2> SUFFICES ASSUME NEW d \in SourceIds \ {c}, inHandOf[d] # NoUnit
               PROVE  inHandOf'[d].session <= newest' /\ Ahead(d, inHandOf[d].session)'
    BY <1>6 DEF HandsCovered
  <2>1. PICK s \in Nat : s = inHandOf[d].session BY RealUnits DEF ParamInv, ParamTypes
  <2>2. s <= newest /\ Ahead(d, s) BY <2>1 DEF ParamInv, HandsCovered
  <2>3. Ahead(d, s)' BY <1>1, <2>2, AheadStays DEF ParamInv
  <2>4. inHandOf'[d].session = s BY <1>6, <2>1
  <2> QED BY <1>2, <2>2, <2>3, <2>4 DEF Ahead, Settled, OnItsWay
<1>8. StableCovered'
  <2>1. ASSUME NEW i \in DOMAIN stable', NEW s \in Nat, s = stable'[i].session, s <= newest,
               Settled(s) \/ \E j \in 1 .. i : Brings(stable'[j], s)
        PROVE  /\ stable'[i].session <= newest'
               /\ \/ Settled(stable[i].session)'
                  \/ \E j \in 1 .. i : Brings(stable'[j], stable'[i].session)
    <3>1. Settled(s) => Settled(s)' BY <1>1, <2>1, SettledStays DEF ParamInv
    <3> QED BY <1>2, <2>1, <3>1 DEF Settled
  <2>2. ASSUME NEW i \in 1 .. Len(stable)
        PROVE  \E s \in Nat : /\ s = stable'[i].session /\ s <= newest
                              /\ Settled(s) \/ \E j \in 1 .. i : Brings(stable'[j], s)
    <3>1. PICK s \in Nat : s = stable[i].session BY <1>4, <1>5, RealUnits, ElementOfSeq
    <3>2. s <= newest /\ (Settled(s) \/ \E j \in 1 .. i : Brings(stable[j], s))
      BY <1>5, <3>1 DEF ParamInv, StableCovered
    <3>3. \A j \in 1 .. i : stable'[j] = stable[j] BY <1>5
    <3>4. stable'[i].session = s BY <3>1, <3>3
    <3> QED BY <3>2, <3>3, <3>4
  <2>3. \E s \in Nat : /\ s = stable'[Len(stable) + 1].session /\ s <= newest
                       /\ Settled(s) \/ \E j \in 1 .. Len(stable) + 1 : Brings(stable'[j], s)
    <3>1. PICK s \in Nat : s = inHandOf[c].session BY <1>4, RealUnits
    <3>2. s <= newest /\ Ahead(c, s) BY <1>4, <3>1 DEF ParamInv, HandsCovered
    <3>3. CASE Brings(inHandOf[c], s)
      <4>1. Len(stable) + 1 \in 1 .. Len(stable) + 1 BY <1>5
      <4> QED BY <1>5, <3>1, <3>2, <3>3, <4>1
    <3>4. CASE OnItsWay(s)
      <4>1. PICK j \in 1 .. Len(stable) : Brings(stable[j], s) BY <1>5, <3>4 DEF OnItsWay
      <4>2. j \in 1 .. Len(stable) + 1 /\ stable'[j] = stable[j] BY <1>5
      <4> QED BY <1>5, <3>1, <3>2, <4>1, <4>2
    <3> QED BY <1>5, <3>1, <3>2, <3>3, <3>4 DEF Ahead
  <2>4. \A i \in DOMAIN stable' : i \in 1 .. Len(stable) \/ i = Len(stable) + 1 BY <1>5
  <2>5. ASSUME NEW i \in DOMAIN stable'
        PROVE  \E s \in Nat : /\ s = stable'[i].session /\ s <= newest
                              /\ Settled(s) \/ \E j \in 1 .. i : Brings(stable'[j], s)
    BY <2>2, <2>3, <2>4
  <2> QED BY <2>1, <2>5 DEF StableCovered
<1> QED BY <1>3, <1>7, <1>8

LEMMA ParamInvKept == ParamInv /\ [ParamSetsNext]_paramVars => ParamInv'
<1> SUFFICES ASSUME ParamInv, [ParamSetsNext]_paramVars PROVE ParamInv' OBVIOUS
<1>1. CASE UNCHANGED paramVars
  BY <1>1 DEF paramVars, ParamInv, ParamTypes, StableCovered, HandsCovered, ChannelsCovered,
              ChannelCovered, NewestCovered, SetsOfTheirSession, Ahead, Settled, OnItsWay
<1>2. CASE ParamSetsNext
  <2>1. ParamTypes' BY <1>2, ParamTypesKept DEF ParamInv
  <2>2. CASE Produce
    <3>1. SetsOfTheirSession' BY <2>2 DEF Produce, ParamInv, SetsOfTheirSession
    <3> QED BY <2>1, <2>2, <3>1, ProduceKeeps DEF ParamInv
  <2>3. CASE BeginSession
    <3>1. SetsOfTheirSession' BY <2>3 DEF BeginSession, ParamInv, SetsOfTheirSession
    <3>2. UNCHANGED <<stable, inHandOf, channels>> /\ producing' = 0 BY <2>3 DEF BeginSession
    <3>3. StableCovered' /\ HandsCovered' /\ ChannelsCovered'
      BY <1>2, <3>2, StillCovered DEF ChannelsCovered
    <3>4. NewestCovered' BY <3>2 DEF NewestCovered
    <3> QED BY <2>1, <3>1, <3>3, <3>4 DEF ParamInv
  <2>4. CASE WriteToHub
    <3>1. UNCHANGED <<newest, home, producing, inHandOf, channels>>
      BY <2>4 DEF WriteToHub, sourceSide
    <3>2. HandsCovered' /\ ChannelsCovered' /\ NewestCovered'
      BY <1>2, <3>1, StillCovered DEF ChannelsCovered
    <3> QED BY <2>1, <2>4, <3>2, WriteKeeps DEF ParamInv
  <2>5. ASSUME NEW c \in SourceIds, PumpTakes(c) PROVE ParamInv'
    <3>1. SetsOfTheirSession' BY <2>5 DEF PumpTakes, sourceSide, ParamInv, SetsOfTheirSession
    <3> QED BY <2>1, <2>5, <3>1, TakeKeeps DEF ParamInv
  <2>6. ASSUME NEW c \in SourceIds, PumpForwards(c) PROVE ParamInv'
    <3>1. SetsOfTheirSession' BY <2>6 DEF PumpForwards, sourceSide, ParamInv, SetsOfTheirSession
    <3> QED BY <2>1, <2>6, <3>1, ForwardKeeps DEF ParamInv
  <2> QED BY <1>2, <2>2, <2>3, <2>4, <2>5, <2>6 DEF ParamSetsNext
<1> QED BY <1>1, <1>2

-----------------------------------------------------------------------------
(* The composition *)

(* A step of Outputs is a step of each of its parts, or leaves the part alone;
   what the camera writes counts for HLS as well. *)
HlsPart ==
    \/ /\ HlsProcessAU \/ HlsClient
       /\ produced' = produced
    \/ /\ \E key \in BOOLEAN :
              HlsReceives([key |-> key, id |-> produced + 1]) \/ UNCHANGED hlsVars
       /\ produced' = produced + 1
    \/ UNCHANGED <<hlsVars, produced>>

LEMMA PartsOfOutputs ==
  [Next]_vars => /\ [RtmpNext]_rtmpVars /\ [SubstreamNext]_subVars
                 /\ [EncoderNext]_encoderVars /\ [ParamSetsNext]_paramVars
                 /\ HlsPart
<1> SUFFICES ASSUME [Next]_vars
             PROVE  /\ [RtmpNext]_rtmpVars /\ [SubstreamNext]_subVars
                    /\ [EncoderNext]_encoderVars /\ [ParamSetsNext]_paramVars
                    /\ HlsPart
  OBVIOUS
<1>1. CASE UNCHANGED vars BY <1>1 DEF vars, HlsPart
<1>2. CASE CameraWrites
  <2>1. PICK key \in BOOLEAN, kind \in ParamKinds :
            /\ IF phase = "push" THEN RtmpReceives([key |-> key, params |-> kind])
               ELSE UNCHANGED rtmpVars
            /\ HlsReceives([key |-> key, id |-> produced + 1]) \/ UNCHANGED hlsVars
    BY <1>2 DEF CameraWrites
  <2>2. [key |-> key, params |-> kind] \in RtmpUnit BY DEF RtmpUnit
  <2>3. UNCHANGED OtherParts /\ produced' = produced + 1 BY <1>2 DEF CameraWrites
  <2>4. HlsPart BY <2>1, <2>3 DEF HlsPart
  <2> QED BY <2>1, <2>2, <2>3, <2>4 DEF RtmpNext, OtherParts
<1>3. CASE RtmpStep BY <1>3 DEF RtmpStep, RtmpNext, OtherParts, HlsPart
<1>4. CASE HlsStep BY <1>4 DEF HlsStep, OtherParts, HlsPart
<1>5. CASE EncoderStep BY <1>5 DEF EncoderStep, HlsPart
<1>6. CASE SubstreamStep BY <1>6 DEF SubstreamStep, HlsPart
<1>7. CASE ParamSetsStep BY <1>7 DEF ParamSetsStep, HlsPart
<1>8. CASE FormatsStep BY <1>8 DEF FormatsStep, HlsPart
<1> QED BY <1>1, <1>2, <1>3, <1>4, <1>5, <1>6, <1>7, <1>8 DEF Next

LEMMA HlsInvKept == HlsInv /\ HlsPart => HlsInv'
<1> SUFFICES ASSUME HlsInv, HlsPart PROVE HlsInv' OBVIOUS
<1>1. CASE UNCHANGED <<hlsVars, produced>>
  BY <1>1 DEF hlsVars, segmenterVars, clientVars, HlsInv, HlsTypes, QueueInOrder, CurrentSound,
              CutSound, CutsInOrder, CacheIsWindow, KnownSegments, Spent, Window
<1> QED BY <1>1, UnitArrives, ClientKeeps, UnitProcessed DEF HlsPart

(* RunsBeginWithHeader and OneEncoderSession of the specification that the run
   Outputs explores, where the hub delivers what the camera writes. *)
THEOREM OutputsSound == Spec => [](RunsBeginWithHeader /\ OneEncoderSession)
<1>1. Init => RtmpInit /\ SubstreamInit BY DEF Init
<1>2. [Next]_vars => [RtmpNext]_rtmpVars /\ [SubstreamNext]_subVars BY PartsOfOutputs
<1>3. Spec => RtmpSpec /\ SubstreamSpec
  BY <1>1, <1>2, PTL DEF Spec, RtmpSpec, SubstreamSpec
<1> QED BY <1>3, HeaderSentFirst, OneEncoder, PTL

(* Whatever an HLS client put together from playlists and segments fetched at
   any moments is playable, for every number of frames to a segment, every
   window, every capacity of the channel, and any units lost to a full one. *)
THEOREM HlsPlayable == Spec => []FetchedSegmentsPlayable
<1>1. Init => HlsInv BY HlsInvInit DEF Init
<1>2. HlsInv /\ [Next]_vars => HlsInv' BY PartsOfOutputs, HlsInvKept
<1> QED BY <1>1, <1>2, KnownPlayable, PTL DEF Spec

(* A call of the hardware encoder during which the driver fails nowhere returns
   a coded frame, the one it was given or the one before, whatever earlier calls
   left in the queues, for any number of buffers, calls and failures. *)
THEOREM EncoderKeepsUp == Spec => []EncoderRecovers
<1>1. Init => EncoderInv BY EncoderInvInit DEF Init
<1>2. EncoderInv /\ [Next]_vars => EncoderInv' BY PartsOfOutputs, EncoderInvKept
<1>3. EncoderInv => EncoderRecovers BY DEF EncoderInv
<1> QED BY <1>1, <1>2, <1>3, PTL DEF Spec

(* An IDR reaches the hub with the parameter sets of its session, or the session
   is one of the exceptions, for every capacity of the channels, every number
   of sessions and units, and any overlap of the forwarding goroutines. *)
THEOREM SetsKept == Spec => []SetsOfTheirSession
<1>1. Init => ParamInv BY ParamInvInit DEF Init
<1>2. ParamInv /\ [Next]_vars => ParamInv' BY PartsOfOutputs, ParamInvKept
<1>3. ParamInv => SetsOfTheirSession BY DEF ParamInv
<1> QED BY <1>1, <1>2, <1>3, PTL DEF Spec

-----------------------------------------------------------------------------
(* Frames *)

(* A smallest counterexample, as inductions over numbers take it. *)
LEMMA LeastNat ==
  ASSUME NEW T \in SUBSET Nat, T # {}
  PROVE  \E m \in T : \A k \in T : m <= k
<1>1. \E m \in T : \A k \in T : ~(k < m)
  <2>1. PICK m \in T : \A k \in T : ~(<<k, m>> \in OpToRel(<, Nat))
    BY NatLessThanWellFounded, WFMin
  <2>2. \A k \in T : ~(k < m) BY <2>1, Zenon DEF OpToRel
  <2> QED BY <2>2
<1> QED BY <1>1

(* Offsets and the rows and columns they stand for. *)
LEMMA DivMod ==
  ASSUME NEW w \in Nat \ {0}, NEW o \in Nat
  PROVE  /\ o \div w \in Nat /\ o % w \in 0 .. w - 1
         /\ o = (o \div w) * w + (o % w)
OBVIOUS

LEMMA Placed ==
  ASSUME NEW w \in Nat \ {0}, NEW r \in Nat, NEW x \in 0 .. w - 1
  PROVE  /\ r * w + x \in Nat
         /\ (r * w + x) \div w = r /\ (r * w + x) % w = x
OBVIOUS

LEMMA InPlane ==
  ASSUME NEW w \in Nat \ {0}, NEW h \in Nat \ {0}, NEW r \in 0 .. h - 1, NEW x \in 0 .. w - 1
  PROVE  /\ r * w + x \in Offsets(w, h)
         /\ (r * w + x) \div w = r /\ (r * w + x) % w = x
<1>1. r * w \in Nat /\ r * w <= (h - 1) * w /\ (h - 1) * w = w * h - w OBVIOUS
<1> QED BY <1>1, Placed DEF Offsets

LEMMA RowAndColumn ==
  ASSUME NEW w \in Nat \ {0}, NEW h \in Nat \ {0}, NEW o \in Offsets(w, h)
  PROVE  /\ o \in Nat /\ o \div w \in 0 .. h - 1 /\ o % w \in 0 .. w - 1
         /\ o = (o \div w) * w + (o % w)
<1>1. o \in Nat /\ o < w * h BY DEF Offsets
<1>2. o \div w \in Nat /\ o % w \in 0 .. w - 1 /\ o = (o \div w) * w + (o % w) BY <1>1, DivMod
<1>3. o \div w < h
  <2>1. PICK r \in Nat : r = o \div w BY <1>2
  <2> SUFFICES ASSUME r >= h PROVE FALSE BY <2>1
  <2>2. r * w >= h * w OBVIOUS
  <2> QED BY <1>1, <1>2, <2>1, <2>2
<1> QED BY <1>1, <1>2, <1>3

(* Rows are turned one after another: a loop over the rows, or over their pairs. *)
Turn(p, w, h, row, hflip, vflip) ==
    IF vflip THEN SwapRows(p, w, row, h - 1 - row, hflip) ELSE MirrorRow(p, w, row)

(* Where a sample comes from once its row was turned ... *)
From(o, w, h, hflip, vflip) ==
    (IF vflip THEN h - 1 - (o \div w) ELSE o \div w) * w + Mirror(o % w, w, hflip)

(* ... which after i rounds these rows were. *)
Turned(row, h, i, vflip) == row < i \/ (vflip /\ row >= h - i)

PlaneAfter(plane, w, h, i, hflip, vflip) ==
    [o \in Offsets(w, h) |->
        plane[IF Turned(o \div w, h, i, vflip) THEN From(o, w, h, hflip, vflip) ELSE o]]

Sides == Nat \ {0}

LEMMA FromWithin ==
  ASSUME NEW w \in Sides, NEW h \in Sides, NEW hflip \in BOOLEAN, NEW vflip \in BOOLEAN,
         NEW o \in Offsets(w, h)
  PROVE  LET from == From(o, w, h, hflip, vflip) IN
         /\ from \in Offsets(w, h)
         /\ from \div w = IF vflip THEN h - 1 - (o \div w) ELSE o \div w
         /\ from % w = Mirror(o % w, w, hflip)
<1> DEFINE r == IF vflip THEN h - 1 - (o \div w) ELSE o \div w
           x == Mirror(o % w, w, hflip)
<1>1. o \div w \in 0 .. h - 1 /\ o % w \in 0 .. w - 1 BY RowAndColumn DEF Sides
<1>2. r \in 0 .. h - 1 /\ x \in 0 .. w - 1
  <2>1. PICK a \in 0 .. h - 1 : a = o \div w BY <1>1
  <2>2. PICK b \in 0 .. w - 1 : b = o % w BY <1>1
  <2> QED BY <2>1, <2>2 DEF Mirror, Sides
<1>3. From(o, w, h, hflip, vflip) = r * w + x BY DEF From
<1> HIDE DEF r, x
<1>4. r * w + x \in Offsets(w, h) /\ (r * w + x) \div w = r /\ (r * w + x) % w = x
  BY <1>2, InPlane DEF Sides
<1> QED BY <1>3, <1>4 DEF r, x

LEMMA RowTurned ==
  ASSUME NEW plane, NEW w \in Sides, NEW h \in Sides,
         NEW hflip \in BOOLEAN, NEW vflip \in BOOLEAN, hflip \/ vflip,
         NEW i \in Nat, IF vflip THEN 2 * i + 1 < h ELSE i < h
  PROVE  Turn(PlaneAfter(plane, w, h, i, hflip, vflip), w, h, i, hflip, vflip)
            = PlaneAfter(plane, w, h, i + 1, hflip, vflip)
<1> DEFINE p == PlaneAfter(plane, w, h, i, hflip, vflip)
           turned == Turn(p, w, h, i, hflip, vflip)
           next == PlaneAfter(plane, w, h, i + 1, hflip, vflip)
<1>1. DOMAIN p = Offsets(w, h) BY DEF PlaneAfter
<1>2. ASSUME NEW o \in Offsets(w, h)
      PROVE  turned[o] = next[o]
  <2>1. PICK r \in 0 .. h - 1 : r = o \div w BY RowAndColumn DEF Sides
  <2>2. PICK x \in 0 .. w - 1 : x = o % w BY RowAndColumn DEF Sides
  <2>3. PICK from \in Offsets(w, h) :
           /\ from = From(o, w, h, hflip, vflip)
           /\ from = (IF vflip THEN h - 1 - r ELSE r) * w + Mirror(x, w, hflip)
           /\ from \div w = IF vflip THEN h - 1 - r ELSE r
    <3> DEFINE f == From(o, w, h, hflip, vflip)
    <3>1. /\ f \in Offsets(w, h)
          /\ f \div w = IF vflip THEN h - 1 - (o \div w) ELSE o \div w
      BY FromWithin
    <3>2. f = (IF vflip THEN h - 1 - r ELSE r) * w + Mirror(x, w, hflip)
      BY <2>1, <2>2 DEF From
    <3> HIDE DEF f
    <3> QED BY <2>1, <3>1, <3>2 DEF f
  <2>4. next[o] = plane[IF Turned(r, h, i + 1, vflip) THEN from ELSE o]
    BY <2>1, <2>3 DEF PlaneAfter
  <2>5. p[o] = plane[IF Turned(r, h, i, vflip) THEN from ELSE o] BY <2>1, <2>3 DEF PlaneAfter
  <2>6. p[from] = plane[IF Turned(from \div w, h, i, vflip)
                        THEN From(from, w, h, hflip, vflip) ELSE from]
    BY DEF PlaneAfter
  <2> DEFINE here == IF vflip THEN r \in {i, h - 1 - i} ELSE r = i
  <2>7. CASE here
    <3>1. ~Turned(from \div w, h, i, vflip) /\ Turned(r, h, i + 1, vflip)
      BY <2>3, <2>7 DEF Turned, Sides
    <3>2. turned[o] = p[from]
      <4>1. CASE vflip
        <5>1. i + (h - 1 - i) - r = h - 1 - r BY DEF Sides
        <5>2. turned[o] = p[(i + (h - 1 - i) - r) * w + Mirror(x, w, hflip)]
          BY <1>1, <2>1, <2>2, <2>7, <4>1 DEF Turn, SwapRows
        <5> QED BY <2>3, <4>1, <5>1, <5>2
      <4>2. CASE ~vflip
        <5>1. turned[o] = p[i * w + w - 1 - x]
          BY <1>1, <2>1, <2>2, <2>7, <4>2 DEF Turn, MirrorRow
        <5>2. i * w + w - 1 - x = i * w + (w - 1 - x) BY DEF Sides
        <5>3. from = i * w + (w - 1 - x) BY <2>3, <2>7, <4>2 DEF Mirror
        <5> QED BY <5>1, <5>2, <5>3
      <4> QED BY <4>1, <4>2
    <3> QED BY <2>4, <2>6, <3>1, <3>2
  <2>8. CASE ~here
    <3>1. Turned(r, h, i, vflip) <=> Turned(r, h, i + 1, vflip)
      BY <2>8 DEF Turned, Sides
    <3>2. turned[o] = p[o]
      BY <1>1, <2>1, <2>8 DEF Turn, SwapRows, MirrorRow
    <3> QED BY <2>4, <2>5, <3>1, <3>2
  <2> QED BY <2>7, <2>8
<1>3. turned = [o \in Offsets(w, h) |-> turned[o]] BY <1>1 DEF Turn, SwapRows, MirrorRow
<1>4. next = [o \in Offsets(w, h) |-> next[o]] BY DEF PlaneAfter
<1> HIDE DEF turned, next, p
<1>5. turned = next BY <1>2, <1>3, <1>4
<1> QED BY <1>5 DEF turned, next, p

(* The rounds, as the fold over the rows computes them. *)
Rounds(f, plane, w, h, n, hflip, vflip) ==
    [s \in SUBSET (1 .. n) |->
        IF s = {} THEN plane
        ELSE Turn(f[s \ {Max(s)}], w, h, Max(s) - 1, hflip, vflip)]
Fits(n, h, vflip) == IF vflip THEN 2 * n <= h ELSE n <= h
IsPlane(plane, w, h) == plane = [o \in Offsets(w, h) |-> plane[o]]
InRounds(f, plane, w, h, n, hflip, vflip) == f = Rounds(f, plane, w, h, n, hflip, vflip)

LEMMA MaxIn ==
  ASSUME NEW n \in Nat, NEW s \in SUBSET (1 .. n), s # {}
  PROVE  Max(s) \in s /\ \A y \in s : Max(s) >= y
<1> DEFINE below == {n - y : y \in s}
<1>1. below \in SUBSET Nat /\ below # {}
  <2>1. \A y \in s : n - y \in Nat OBVIOUS
  <2>2. PICK y \in s : TRUE OBVIOUS
  <2>3. n - y \in below OBVIOUS
  <2> QED BY <2>1, <2>3
<1>2. PICK m \in below : \A k \in below : m <= k
  <2> HIDE DEF below
  <2> QED BY <1>1, LeastNat
<1>3. PICK x \in s : m = n - x BY <1>2
<1>4. ASSUME NEW y \in s PROVE x >= y
  <2>1. n - y \in below OBVIOUS
  <2>2. n - x <= n - y BY <1>2, <1>3, <2>1
  <2> QED BY <2>2
<1> QED BY <1>3, <1>4 DEF Max

(* There are such rounds: a smallest bound up to which there are none has a
   predecessor, from which they can be continued. *)
LEMMA RoundsExist ==
  ASSUME NEW plane, NEW w, NEW h, NEW n \in Nat, NEW hflip, NEW vflip
  PROVE  \E f : InRounds(f, plane, w, h, n, hflip, vflip)
<1> DEFINE R(f) == Rounds(f, plane, w, h, n, hflip, vflip)
           Good(m) == \E f : \A i \in 0 .. m : \A s \in SUBSET (1 .. i) :
                          s \in SUBSET (1 .. n) => f[s] = R(f)[s]
           Bad == {m \in Nat : ~Good(m)}
<1>0. \A f : \A s \in SUBSET (1 .. n) :
          R(f)[s] = IF s = {} THEN plane
                    ELSE Turn(f[s \ {Max(s)}], w, h, Max(s) - 1, hflip, vflip)
  BY DEF Rounds
<1> HIDE DEF R
<1>1. Good(0)
  <2> DEFINE f == [s \in SUBSET (1 .. n) |-> plane]
  <2>1. ASSUME NEW i \in 0 .. 0, NEW s \in SUBSET (1 .. i), s \in SUBSET (1 .. n)
        PROVE  f[s] = R(f)[s]
    <3>1. f[s] = plane BY <2>1
    <3>2. i = 0 /\ 1 .. 0 = {} OBVIOUS
    <3>3. s = {} BY <3>2
    <3> HIDE DEF f
    <3> QED BY <1>0, <2>1, <3>1, <3>3
  <2> HIDE DEF f
  <2> QED BY <2>1
<1>2. ASSUME NEW m \in Nat, Good(m) PROVE Good(m + 1)
  <2>1. PICK f : \A i \in 0 .. m : \A s \in SUBSET (1 .. i) :
                     s \in SUBSET (1 .. n) => f[s] = R(f)[s]
    BY <1>2
  <2> DEFINE more == [s \in SUBSET (1 .. n) |-> R(f)[s]]
  <2>2. ASSUME NEW i \in 0 .. m + 1, NEW s \in SUBSET (1 .. i), s \in SUBSET (1 .. n)
        PROVE  more[s] = R(more)[s]
    <3>1. CASE s = {} BY <1>0, <2>2, <3>1
    <3>2. CASE s # {}
      <4> DEFINE rest == s \ {Max(s)}
      <4>1. Max(s) \in s /\ \A y \in s : Max(s) >= y BY <2>2, <3>2, MaxIn
      <4>2. PICK x \in 1 .. i : x = Max(s) BY <4>1
      <4>3. x - 1 \in 0 .. m /\ rest \in SUBSET (1 .. x - 1) /\ rest \in SUBSET (1 .. n)
        <5>1. \A y \in s : y \in 1 .. n /\ y \in Nat /\ 1 <= y /\ y <= x BY <2>2, <4>1, <4>2
        <5>2. \A y \in rest : y \in s /\ y # x BY <4>2
        <5>3. \A y \in rest : y \in 1 .. x - 1 BY <5>1, <5>2
        <5>4. x - 1 \in 0 .. m OBVIOUS
        <5>5. rest \in SUBSET (1 .. x - 1) BY <5>3
        <5>6. rest \in SUBSET (1 .. n) BY <2>2
        <5> QED BY <5>4, <5>5, <5>6
      <4>4. f[rest] = R(f)[rest] BY <2>1, <4>3
      <4>5. more[rest] = f[rest] BY <4>3, <4>4
      <4>6. more[s] = Turn(f[rest], w, h, Max(s) - 1, hflip, vflip) BY <1>0, <2>2, <3>2
      <4> HIDE DEF more
      <4>7. R(more)[s] = Turn(more[rest], w, h, Max(s) - 1, hflip, vflip)
        BY <1>0, <2>2, <3>2
      <4> QED BY <4>5, <4>6, <4>7
    <3> QED BY <3>1, <3>2
  <2> HIDE DEF more
  <2> QED BY <2>2
<1> HIDE DEF Good
<1>3. Bad = {}
  <2> SUFFICES ASSUME Bad # {} PROVE FALSE OBVIOUS
  <2>1. Bad \in SUBSET Nat OBVIOUS
  <2>2. PICK m \in Bad : \A k \in Bad : m <= k
    <3> HIDE DEF Bad
    <3> QED BY <2>1, LeastNat
  <2>3. m # 0 /\ m - 1 \in Nat /\ (m - 1) + 1 = m /\ m - 1 \notin Bad BY <1>1, <2>2
  <2>4. Good(m - 1) BY <2>3
  <2>5. Good((m - 1) + 1) BY <1>2, <2>3, <2>4
  <2> QED BY <2>2, <2>3, <2>5
<1>4. PICK f : \A i \in 0 .. n : \A s \in SUBSET (1 .. i) :
                   s \in SUBSET (1 .. n) => f[s] = R(f)[s]
  BY <1>3 DEF Good
<1>5. \A s \in SUBSET (1 .. n) : f[s] = R(f)[s] BY <1>4
<1> DEFINE all == [s \in SUBSET (1 .. n) |-> f[s]]
<1>6. ASSUME NEW s \in SUBSET (1 .. n) PROVE R(all)[s] = R(f)[s]
  <2>1. s # {} => all[s \ {Max(s)}] = f[s \ {Max(s)}] OBVIOUS
  <2> HIDE DEF all
  <2> QED BY <1>0, <2>1
<1>7. all = [s \in SUBSET (1 .. n) |-> R(all)[s]] BY <1>5, <1>6
<1>8. R(all) = [s \in SUBSET (1 .. n) |-> R(all)[s]] BY DEF R, Rounds
<1>9. all = R(all)
  <2> HIDE DEF all
  <2> QED BY <1>7, <1>8
<1> QED BY <1>9 DEF R, InRounds

(* The rounds turn one row, or two, after another. *)
LEMMA RoundsTurn ==
  ASSUME NEW plane, NEW w \in Sides, NEW h \in Sides,
         IsPlane(plane, w, h),
         NEW hflip \in BOOLEAN, NEW vflip \in BOOLEAN, hflip \/ vflip,
         NEW n \in Nat, Fits(n, h, vflip),
         NEW f, InRounds(f, plane, w, h, n, hflip, vflip)
  PROVE  f[1 .. n] = PlaneAfter(plane, w, h, n, hflip, vflip)
<1> USE DEF IsPlane, Fits
<1> DEFINE Good(i) == f[1 .. i] = PlaneAfter(plane, w, h, i, hflip, vflip)
           Bad == {i \in Nat : i <= n /\ ~Good(i)}
<1>0. ASSUME NEW s \in SUBSET (1 .. n)
      PROVE  f[s] = IF s = {} THEN plane
                    ELSE Turn(f[s \ {Max(s)}], w, h, Max(s) - 1, hflip, vflip)
  <2>1. f[s] = Rounds(f, plane, w, h, n, hflip, vflip)[s] BY DEF InRounds
  <2> QED BY <2>1 DEF Rounds
<1>1. Good(0)
  <2>1. 1 .. 0 = {} OBVIOUS
  <2>2. f[1 .. 0] = plane BY <1>0, <2>1
  <2>3. ASSUME NEW o \in Offsets(w, h) PROVE ~Turned(o \div w, h, 0, vflip)
    BY RowAndColumn DEF Turned, Sides
  <2>4. PlaneAfter(plane, w, h, 0, hflip, vflip) = [o \in Offsets(w, h) |-> plane[o]]
    BY <2>3 DEF PlaneAfter
  <2> QED BY <2>2, <2>4
<1>2. ASSUME NEW i \in Nat, i + 1 <= n, Good(i) PROVE Good(i + 1)
  <2>1. 1 .. i + 1 \in SUBSET (1 .. n) /\ 1 .. i + 1 # {}
    <3>1. \A y \in 1 .. i + 1 : y \in 1 .. n BY <1>2
    <3>2. 1 \in 1 .. i + 1 OBVIOUS
    <3> QED BY <3>1, <3>2
  <2>2. Max(1 .. i + 1) = i + 1
    <3>1. Max(1 .. i + 1) \in 1 .. i + 1 /\ \A y \in 1 .. i + 1 : Max(1 .. i + 1) >= y
      BY <2>1, MaxIn
    <3>2. PICK x \in 1 .. i + 1 : x = Max(1 .. i + 1) BY <3>1
    <3>3. i + 1 \in 1 .. i + 1 OBVIOUS
    <3>4. x >= i + 1 BY <3>1, <3>2, <3>3
    <3> QED BY <3>2, <3>4
  <2>3. (1 .. i + 1) \ {i + 1} = 1 .. i OBVIOUS
  <2>4. (i + 1) - 1 = i OBVIOUS
  <2>5. f[1 .. i + 1] = Turn(f[1 .. i], w, h, i, hflip, vflip)
    BY <1>0, <2>1, <2>2, <2>3, <2>4
  <2>6. IF vflip THEN 2 * i + 1 < h ELSE i < h BY <1>2 DEF Sides
  <2>7. Turn(PlaneAfter(plane, w, h, i, hflip, vflip), w, h, i, hflip, vflip)
            = PlaneAfter(plane, w, h, i + 1, hflip, vflip)
    BY <2>6, RowTurned
  <2> QED BY <1>2, <2>5, <2>7
<1> HIDE DEF Good
<1>3. Bad = {}
  <2> SUFFICES ASSUME Bad # {} PROVE FALSE OBVIOUS
  <2>1. Bad \in SUBSET Nat OBVIOUS
  <2>2. PICK m \in Bad : \A k \in Bad : m <= k
    <3> HIDE DEF Bad
    <3> QED BY <2>1, LeastNat
  <2>3. /\ m # 0 /\ m - 1 \in Nat /\ (m - 1) + 1 = m /\ m <= n /\ m - 1 <= n
        /\ m - 1 \notin Bad
    BY <1>1, <2>2
  <2>4. Good(m - 1) BY <2>3
  <2>5. Good((m - 1) + 1) BY <1>2, <2>3, <2>4
  <2> QED BY <2>2, <2>3, <2>5
<1> QED BY <1>3 DEF Good

LEMMA Seconds ==
  ASSUME NEW f, NEW n, NEW plane, NEW w, NEW h, NEW hflip, NEW vflip
  PROVE  Rounds(f, plane, w, h, n, hflip, vflip)
           = [s \in SUBSET (1 .. n) |->
                IF s = {} THEN plane
                ELSE IF vflip
                     THEN SwapRows(f[s \ {Max(s)}], w, Max(s) - 1, h - 1 - (Max(s) - 1), hflip)
                     ELSE MirrorRow(f[s \ {Max(s)}], w, Max(s) - 1)]
BY DEF Rounds, Turn

(* The fold over the rows is such rounds. *)
LEMMA RowsMirrored ==
  ASSUME NEW plane, NEW w \in Sides, NEW h \in Sides,
         IsPlane(plane, w, h)
  PROVE  FoldLeft(LAMBDA p, row : MirrorRow(p, w, row), plane, [i \in 1 .. h |-> i - 1])
            = PlaneAfter(plane, w, h, h, TRUE, FALSE)
<1> DEFINE rows == [i \in 1 .. h |-> i - 1]
           Folded(f) == [s \in SUBSET (DOMAIN rows) |->
                           IF s = {} THEN plane
                           ELSE MirrorRow(f[s \ {Max(s)}], w, rows[Max(s)])]
           fold == CHOOSE f : f = Folded(f)
<1>1. FoldLeft(LAMBDA p, row : MirrorRow(p, w, row), plane, rows) = fold[DOMAIN rows]
  BY Zenon DEF FoldLeft, MapThenFoldSet
<1>2. DOMAIN rows = 1 .. h /\ \A s \in SUBSET (1 .. h) : s # {} => rows[Max(s)] = Max(s) - 1
  BY MaxIn DEF Sides
<1> HIDE DEF rows
<1>3. \A f : Folded(f) = Rounds(f, plane, w, h, h, TRUE, FALSE)
  BY <1>2, Seconds
<1> HIDE DEF Folded
<1>4. \E f : f = Folded(f)
  <2>0. h \in Nat BY DEF Sides
  <2>1. \A yes, no : \E f : InRounds(f, plane, w, h, h, yes, no) BY <2>0, RoundsExist
  <2>2. PICK f : InRounds(f, plane, w, h, h, TRUE, FALSE) BY <2>1, Zenon
  <2> QED BY <1>3, <2>2 DEF InRounds
<1>5. fold = Folded(fold) BY <1>4
<1> HIDE DEF fold
<1>6. InRounds(fold, plane, w, h, h, TRUE, FALSE) BY <1>3, <1>5 DEF InRounds
<1>7. ASSUME NEW yes \in BOOLEAN, NEW no \in BOOLEAN, yes \/ no, Fits(h, h, no),
             InRounds(fold, plane, w, h, h, yes, no)
      PROVE  fold[1 .. h] = PlaneAfter(plane, w, h, h, yes, no)
  <2>1. h \in Nat BY DEF Sides
  <2> QED BY <1>7, <2>1, RoundsTurn
<1>8. Fits(h, h, FALSE) BY DEF Fits, Sides
<1>9. fold[1 .. h] = PlaneAfter(plane, w, h, h, TRUE, FALSE) BY <1>6, <1>7, <1>8, Zenon
<1> QED BY <1>1, <1>2, <1>9 DEF rows

LEMMA RowsSwapped ==
  ASSUME NEW plane, NEW w \in Sides, NEW h \in Sides,
         IsPlane(plane, w, h), NEW hflip \in BOOLEAN
  PROVE  FoldLeft(LAMBDA p, top : SwapRows(p, w, top, h - 1 - top, hflip), plane,
                  [i \in 1 .. Half(h) |-> i - 1])
            = PlaneAfter(plane, w, h, Half(h), hflip, TRUE)
<1> DEFINE tops == [i \in 1 .. Half(h) |-> i - 1]
           Folded(f) == [s \in SUBSET (DOMAIN tops) |->
                           IF s = {} THEN plane
                           ELSE SwapRows(f[s \ {Max(s)}], w, tops[Max(s)],
                                         h - 1 - tops[Max(s)], hflip)]
           fold == CHOOSE f : f = Folded(f)
<1>0. Half(h) \in Nat /\ 2 * Half(h) <= h BY DEF Half, Sides
<1>1. FoldLeft(LAMBDA p, top : SwapRows(p, w, top, h - 1 - top, hflip), plane, tops)
        = fold[DOMAIN tops]
  BY Zenon DEF FoldLeft, MapThenFoldSet
<1>2. DOMAIN tops = 1 .. Half(h)
      /\ \A s \in SUBSET (1 .. Half(h)) : s # {} => tops[Max(s)] = Max(s) - 1
  BY <1>0, MaxIn
<1> HIDE DEF tops
<1>3. \A f : Folded(f) = Rounds(f, plane, w, h, Half(h), hflip, TRUE)
  BY <1>2, Seconds
<1> HIDE DEF Folded
<1>4. \E f : f = Folded(f)
  <2>1. \A no : \E f : InRounds(f, plane, w, h, Half(h), hflip, no) BY <1>0, RoundsExist
  <2>2. PICK f : InRounds(f, plane, w, h, Half(h), hflip, TRUE) BY <2>1, Zenon
  <2> QED BY <1>3, <2>2 DEF InRounds
<1>5. fold = Folded(fold) BY <1>4
<1> HIDE DEF fold
<1>6. InRounds(fold, plane, w, h, Half(h), hflip, TRUE) BY <1>3, <1>5 DEF InRounds
<1>7. ASSUME NEW yes \in BOOLEAN, hflip \/ yes, Fits(Half(h), h, yes),
             InRounds(fold, plane, w, h, Half(h), hflip, yes)
      PROVE  fold[1 .. Half(h)] = PlaneAfter(plane, w, h, Half(h), hflip, yes)
  BY <1>0, <1>7, RoundsTurn
<1>8. Fits(Half(h), h, TRUE) BY <1>0 DEF Fits
<1>9. fold[1 .. Half(h)] = PlaneAfter(plane, w, h, Half(h), hflip, TRUE) BY <1>6, <1>7, <1>8, Zenon
<1> QED BY <1>1, <1>2, <1>9 DEF tops

(* flipPlane: each sample comes from its place in the mirrored row and column. *)
LEMMA PlaneFlipped ==
  ASSUME NEW plane, NEW w \in Sides, NEW h \in Sides,
         IsPlane(plane, w, h),
         NEW hflip \in BOOLEAN, NEW vflip \in BOOLEAN
  PROVE  Flipped(plane, w, h, hflip, vflip)
            = [o \in Offsets(w, h) |-> plane[From(o, w, h, hflip, vflip)]]
<1>0. \A o \in Offsets(w, h) :
          o \div w \in 0 .. h - 1 /\ o % w \in 0 .. w - 1 /\ o = (o \div w) * w + (o % w)
  BY RowAndColumn DEF Sides
<1>1. CASE vflip
  <2> DEFINE n == Half(h)
             swapped == PlaneAfter(plane, w, h, n, hflip, TRUE)
  <2>0. n \in Nat /\ (h % 2 = 1 => h = 2 * n + 1) /\ (h % 2 # 1 => h = 2 * n)
    BY DEF Half, Sides
  <2>1. Flipped(plane, w, h, hflip, vflip)
          = IF h % 2 = 1 /\ hflip THEN MirrorRow(swapped, w, n) ELSE swapped
    BY <1>1, RowsSwapped DEF Flipped
  <2> HIDE DEF n
  <2>2. CASE h % 2 # 1
    <3>1. \A o \in Offsets(w, h) : Turned(o \div w, h, n, TRUE) BY <1>0, <2>0, <2>2 DEF Turned
    <3> QED BY <1>1, <2>1, <2>2, <3>1 DEF PlaneAfter
  <2>3. CASE h % 2 = 1
    <3>1. \A o \in Offsets(w, h) : ~Turned(o \div w, h, n, TRUE) <=> o \div w = n
      BY <1>0, <2>0, <2>3 DEF Turned
    <3>2. CASE ~hflip
      <4>1. ASSUME NEW o \in Offsets(w, h), o \div w = n PROVE From(o, w, h, hflip, TRUE) = o
        <5>1. h - 1 - (o \div w) = o \div w BY <2>0, <2>3, <4>1
        <5>2. Mirror(o % w, w, hflip) = o % w BY <3>2 DEF Mirror
        <5> QED BY <1>0, <5>1, <5>2 DEF From
      <4> QED BY <1>1, <2>1, <3>1, <3>2, <4>1 DEF PlaneAfter
    <3>3. CASE hflip
      <4> DEFINE middle(o) == n * w + w - 1 - (o % w)
                 flipped == MirrorRow(swapped, w, n)
      <4>1. ASSUME NEW o \in Offsets(w, h), o \div w = n
            PROVE  /\ middle(o) = From(o, w, h, hflip, TRUE)
                   /\ swapped[middle(o)] = plane[middle(o)]
        <5>1. h - 1 - (o \div w) = n BY <2>0, <2>3, <4>1
        <5>2. PICK x \in 0 .. w - 1 : x = o % w BY <1>0
        <5>3. n * w + w - 1 - x = n * w + (w - 1 - x) BY <2>0 DEF Sides
        <5>4. Mirror(o % w, w, hflip) = w - 1 - x BY <3>3, <5>2 DEF Mirror
        <5>5. middle(o) = From(o, w, h, hflip, TRUE) BY <5>1, <5>2, <5>3, <5>4 DEF From
        <5>6. From(o, w, h, hflip, TRUE) \in Offsets(w, h)
              /\ From(o, w, h, hflip, TRUE) \div w = n
          BY <5>1, FromWithin
        <5> HIDE DEF middle
        <5>7. ~Turned(middle(o) \div w, h, n, TRUE) BY <3>1, <5>5, <5>6
        <5> QED BY <5>5, <5>6, <5>7 DEF PlaneAfter
      <4>2. ASSUME NEW o \in Offsets(w, h) PROVE flipped[o] = plane[From(o, w, h, hflip, TRUE)]
        <5>1. flipped[o] = IF o \div w = n THEN swapped[middle(o)] ELSE swapped[o]
          BY DEF MirrorRow, PlaneAfter
        <5>2. o \div w # n => swapped[o] = plane[From(o, w, h, hflip, TRUE)]
          BY <3>1 DEF PlaneAfter
        <5>3. o \div w = n => /\ middle(o) = From(o, w, h, hflip, TRUE)
                             /\ swapped[middle(o)] = plane[middle(o)]
          BY <4>1, Zenon
        <5> HIDE DEF flipped, swapped, middle
        <5> QED BY <5>1, <5>2, <5>3
      <4>3. flipped = [o \in Offsets(w, h) |-> flipped[o]] BY DEF MirrorRow, PlaneAfter
      <4> HIDE DEF flipped
      <4>4. flipped = [o \in Offsets(w, h) |-> plane[From(o, w, h, hflip, TRUE)]]
        BY <4>2, <4>3
      <4> QED BY <1>1, <2>1, <2>3, <3>3, <4>4 DEF flipped
    <3> QED BY <3>2, <3>3
  <2> QED BY <2>2, <2>3
<1>2. CASE ~vflip /\ hflip
  <2>1. Flipped(plane, w, h, hflip, vflip) = PlaneAfter(plane, w, h, h, TRUE, FALSE)
    BY <1>2, RowsMirrored DEF Flipped
  <2>2. \A o \in Offsets(w, h) : Turned(o \div w, h, h, FALSE) BY <1>0 DEF Turned, Sides
  <2> QED BY <1>2, <2>1, <2>2 DEF PlaneAfter
<1>3. CASE ~vflip /\ ~hflip
  <2>1. Flipped(plane, w, h, hflip, vflip) = plane BY <1>3 DEF Flipped
  <2>2. \A o \in Offsets(w, h) : From(o, w, h, hflip, vflip) = o
    BY <1>0, <1>3 DEF From, Mirror
  <2> QED BY <2>1, <2>2 DEF IsPlane
<1> QED BY <1>1, <1>2, <1>3

LEMMA AtMostIsLeast ==
  ASSUME NEW a \in Nat, NEW b \in Nat
  PROVE  AtMost(a, b) \in Nat /\ AtMost(a, b) <= a /\ AtMost(a, b) <= b
BY DEF AtMost

(* The tiles cover a side: each place lies in one of them. *)
LEMMA TilesCover ==
  ASSUME NEW n \in Sides, NEW x \in 0 .. n - 1
  PROVE  \E s \in {y \in 0 .. n - 1 : y % Tile = 0} :
            x - s \in 0 .. AtMost(Tile, n - s) - 1
<1>0. x \in Nat /\ n \in Nat /\ x < n BY DEF Sides
<1>1. PICK q \in Nat, r \in 0 .. Tile - 1 : x = q * Tile + r
  BY <1>0, DivMod, TileAssumption
<1>2. PICK s \in Nat : s = q * Tile
  <2>1. q * Tile \in Nat BY TileAssumption
  <2> QED BY <2>1
<1>3. s % Tile = 0
  <2>1. 0 \in 0 .. Tile - 1 BY TileAssumption
  <2>2. (q * Tile + 0) % Tile = 0 BY <2>1, Placed, TileAssumption
  <2>3. q * Tile + 0 = s BY <1>2
  <2> QED BY <2>2, <2>3
<1>4. x = s + r BY <1>1, <1>2
<1>5. s \in 0 .. n - 1 /\ x - s \in 0 .. AtMost(Tile, n - s) - 1
  BY <1>0, <1>4, TileAssumption DEF AtMost
<1> QED BY <1>3, <1>5

(* Where a quarter turn stores the sample of a column and a row. *)
StoredAt(x, y, w, h, clockwise) ==
    IF clockwise THEN x * h + (h - 1 - y) ELSE (w - 1 - x) * h + y
Stores(w, h, clockwise) ==
    {<<StoredAt(x, y, w, h, clockwise), y * w + x>> : x \in 0 .. w - 1, y \in 0 .. h - 1}

(* The stores of the tiles are those of the plane. *)
LEMMA StoresOfTiles ==
  ASSUME NEW w \in Sides, NEW h \in Sides, NEW clockwise \in BOOLEAN
  PROVE  TransposeWrites(w, h, clockwise) = Stores(w, h, clockwise)
<1> DEFINE L(n) == {y \in 0 .. n - 1 : y % Tile = 0}
           Row(sy, k) == IF clockwise THEN sy + AtMost(Tile, h - sy) - 1 - k ELSE sy + k
           Tiled(sx, sy) ==
             { IF clockwise
               THEN <<(sx + j) * h + h - sy - AtMost(Tile, h - sy) + k,
                      (sy + AtMost(Tile, h - sy) - 1 - k) * w + sx + j>>
               ELSE <<(w - 1 - sx - j) * h + sy + k, (sy + k) * w + sx + j>> :
               j \in 0 .. AtMost(Tile, w - sx) - 1, k \in 0 .. AtMost(Tile, h - sy) - 1 }
           Store(sx, sy, j, k) ==
             IF clockwise
             THEN <<(sx + j) * h + h - sy - AtMost(Tile, h - sy) + k,
                    (sy + AtMost(Tile, h - sy) - 1 - k) * w + sx + j>>
             ELSE <<(w - 1 - sx - j) * h + sy + k, (sy + k) * w + sx + j>>
<1>1. TransposeWrites(w, h, clockwise) = UNION {Tiled(sx, sy) : sx \in L(w), sy \in L(h)}
  BY DEF TransposeWrites
<1>2. ASSUME NEW sx \in L(w), NEW sy \in L(h), NEW j \in 0 .. AtMost(Tile, w - sx) - 1,
             NEW k \in 0 .. AtMost(Tile, h - sy) - 1
      PROVE  /\ sx + j \in 0 .. w - 1 /\ Row(sy, k) \in 0 .. h - 1
             /\ Store(sx, sy, j, k) = <<StoredAt(sx + j, Row(sy, k), w, h, clockwise),
                                        Row(sy, k) * w + (sx + j)>>
  <2>0. w \in Nat /\ h \in Nat BY DEF Sides
  <2>1. PICK x \in 0 .. w - 1 : x = sx + j
    <3>1. w - sx \in Nat /\ Tile \in Nat BY <2>0, TileAssumption
    <3> QED BY <2>0, <3>1, AtMostIsLeast
  <2>2. PICK th \in Nat : th = AtMost(Tile, h - sy) /\ th <= h - sy
    <3>1. h - sy \in Nat /\ Tile \in Nat BY <2>0, TileAssumption
    <3> QED BY <3>1, AtMostIsLeast
  <2>3. PICK y \in 0 .. h - 1 : y = Row(sy, k)
    <3>1. k \in 0 .. th - 1 BY <2>2
    <3>2. sy + th - 1 - k \in 0 .. h - 1 /\ sy + k \in 0 .. h - 1 BY <2>0, <2>2, <3>1
    <3> QED BY <2>2, <3>2
  <2>4. CASE clockwise
    <3>1. y = sy + th - 1 - k BY <2>2, <2>3, <2>4
    <3>2. x * h \in Nat /\ y * w \in Nat BY <2>0
    <3>3. x * h + h - sy - th + k = x * h + (h - 1 - y) BY <2>0, <2>2, <3>1, <3>2
    <3>4. y * w + sx + j = y * w + x
      <4>1. PICK t \in Nat : t = y * w BY <3>2
      <4>2. t + sx + j = t + x BY <2>0, <2>1
      <4> QED BY <4>1, <4>2
    <3>5. Store(sx, sy, j, k) = <<x * h + h - sy - th + k, y * w + sx + j>>
      <4>1. sx + j = x /\ sy + AtMost(Tile, h - sy) - 1 - k = y BY <2>1, <2>2, <3>1
      <4>2. h - sy - AtMost(Tile, h - sy) = h - sy - th BY <2>2
      <4> QED BY <2>2, <2>4, <4>1, <4>2
    <3> QED BY <2>1, <2>3, <2>4, <3>3, <3>4, <3>5 DEF StoredAt
  <2>5. CASE ~clockwise
    <3>1. y = sy + k BY <2>3, <2>5
    <3>2. w - 1 - sx - j = w - 1 - x BY <2>0, <2>1
    <3>3. (w - 1 - x) * h \in Nat /\ y * w \in Nat BY <2>0
    <3>4. (w - 1 - x) * h + sy + k = (w - 1 - x) * h + y BY <3>1, <3>3
    <3>5. y * w + sx + j = y * w + x BY <2>0, <2>1, <3>3
    <3>6. Store(sx, sy, j, k) = <<(w - 1 - x) * h + sy + k, y * w + sx + j>>
      BY <2>1, <2>5, <3>1, <3>2
    <3> QED BY <2>1, <2>3, <2>5, <3>4, <3>5, <3>6 DEF StoredAt
  <2> QED BY <2>4, <2>5
<1>3. ASSUME NEW sx \in L(w), NEW sy \in L(h)
      PROVE  Tiled(sx, sy) = {Store(sx, sy, j, k) : j \in 0 .. AtMost(Tile, w - sx) - 1,
                                                     k \in 0 .. AtMost(Tile, h - sy) - 1}
  OBVIOUS
<1>4. ASSUME NEW x \in 0 .. w - 1, NEW y \in 0 .. h - 1
      PROVE  \E sx \in L(w), sy \in L(h) :
                <<StoredAt(x, y, w, h, clockwise), y * w + x>> \in Tiled(sx, sy)
  <2>0. w \in Nat /\ h \in Nat BY DEF Sides
  <2>1. PICK sx \in L(w) : x - sx \in 0 .. AtMost(Tile, w - sx) - 1 BY TilesCover
  <2>2. PICK sy \in L(h) : y - sy \in 0 .. AtMost(Tile, h - sy) - 1 BY TilesCover
  <2>3. PICK j \in 0 .. AtMost(Tile, w - sx) - 1 : j = x - sx BY <2>1
  <2>4. PICK k \in 0 .. AtMost(Tile, h - sy) - 1 : y = Row(sy, k)
    <3>1. PICK d \in 0 .. AtMost(Tile, h - sy) - 1 : d = y - sy BY <2>2
    <3>2. CASE clockwise
      <4>1. PICK th \in Nat : th = AtMost(Tile, h - sy)
        <5>1. h - sy \in Nat /\ Tile \in Nat BY <2>0, TileAssumption
        <5> QED BY <5>1, AtMostIsLeast
      <4>2. th - 1 - d \in 0 .. th - 1 /\ y = sy + th - 1 - (th - 1 - d)
        BY <2>0, <3>1, <4>1
      <4> QED BY <3>2, <4>1, <4>2
    <3>3. CASE ~clockwise BY <3>1, <3>3
    <3> QED BY <3>2, <3>3
  <2>5. sx + j = x BY <2>3
  <2> HIDE DEF L, Row, Tiled, Store
  <2>6. Store(sx, sy, j, k) = <<StoredAt(x, y, w, h, clockwise), y * w + x>>
    BY <1>2, <2>4, <2>5
  <2>7. Store(sx, sy, j, k) \in Tiled(sx, sy) BY <1>3
  <2> QED BY <2>6, <2>7
<1> HIDE DEF L, Row, Tiled, Store
<1>5. ASSUME NEW write \in TransposeWrites(w, h, clockwise) PROVE write \in Stores(w, h, clockwise)
  <2>1. PICK sx \in L(w), sy \in L(h) : write \in Tiled(sx, sy) BY <1>1
  <2>2. PICK j \in 0 .. AtMost(Tile, w - sx) - 1, k \in 0 .. AtMost(Tile, h - sy) - 1 :
           write = Store(sx, sy, j, k)
    BY <1>3, <2>1
  <2> QED BY <1>2, <2>2 DEF Stores
<1>6. ASSUME NEW write \in Stores(w, h, clockwise) PROVE write \in TransposeWrites(w, h, clockwise)
  <2>1. PICK x \in 0 .. w - 1, y \in 0 .. h - 1 :
           write = <<StoredAt(x, y, w, h, clockwise), y * w + x>>
    BY DEF Stores
  <2> QED BY <1>1, <1>4, <2>1
<1> QED BY <1>5, <1>6

(* Where the sample of an offset of the turned plane comes from. *)
StoredFrom(o, w, h, clockwise) ==
    IF clockwise THEN (h - 1 - (o % h)) * w + (o \div h)
    ELSE (o % h) * w + (w - 1 - (o \div h))

Quarter(plane, w, h, clockwise) ==
    [o \in Offsets(h, w) |-> plane[StoredFrom(o, w, h, clockwise)]]

LEMMA PlaneTransposed ==
  ASSUME NEW plane, NEW w \in Sides, NEW h \in Sides, NEW clockwise \in BOOLEAN
  PROVE  Transposed(plane, w, h, clockwise)
            = Quarter(plane, w, h, clockwise)
<1> DEFINE writes == Stores(w, h, clockwise)
           source(to) == (CHOOSE write \in writes : write[1] = to)[2]
<1>0. w \in Nat /\ h \in Nat BY DEF Sides
<1>1. Transposed(plane, w, h, clockwise)
         = [to \in {write[1] : write \in writes} |-> plane[source(to)]]
  <2>1. TransposeWrites(w, h, clockwise) = writes BY StoresOfTiles
  <2> HIDE DEF writes
  <2> QED BY <2>1 DEF Transposed
<1>2. ASSUME NEW x \in 0 .. w - 1, NEW y \in 0 .. h - 1
      PROVE  LET at == StoredAt(x, y, w, h, clockwise) IN
             /\ at \in Offsets(h, w)
             /\ at \div h = IF clockwise THEN x ELSE w - 1 - x
             /\ at % h = IF clockwise THEN h - 1 - y ELSE y
  <2>1. CASE clockwise
    <3>1. PICK c \in 0 .. h - 1 : c = h - 1 - y BY <1>0
    <3>2. x * h + c \in Offsets(h, w) /\ (x * h + c) \div h = x /\ (x * h + c) % h = c
      BY InPlane DEF Sides
    <3>3. StoredAt(x, y, w, h, clockwise) = x * h + c BY <2>1, <3>1 DEF StoredAt
    <3> QED BY <2>1, <3>1, <3>2, <3>3
  <2>2. CASE ~clockwise
    <3>1. PICK r \in 0 .. w - 1 : r = w - 1 - x BY <1>0
    <3>2. r * h + y \in Offsets(h, w) /\ (r * h + y) \div h = r /\ (r * h + y) % h = y
      BY InPlane DEF Sides
    <3>3. StoredAt(x, y, w, h, clockwise) = r * h + y BY <2>2, <3>1 DEF StoredAt
    <3> QED BY <2>2, <3>1, <3>2, <3>3
  <2> QED BY <2>1, <2>2
<1>3. ASSUME NEW write \in writes
      PROVE  write[1] \in Offsets(h, w) /\ write[2] = StoredFrom(write[1], w, h, clockwise)
  <2>1. PICK x \in 0 .. w - 1, y \in 0 .. h - 1 :
           write = <<StoredAt(x, y, w, h, clockwise), y * w + x>>
    BY DEF Stores
  <2>2. PICK at \in Offsets(h, w) :
           /\ at = StoredAt(x, y, w, h, clockwise)
           /\ at \div h = IF clockwise THEN x ELSE w - 1 - x
           /\ at % h = IF clockwise THEN h - 1 - y ELSE y
    BY <1>2
  <2>3. StoredFrom(at, w, h, clockwise) = y * w + x
    <3>1. h - 1 - (h - 1 - y) = y /\ w - 1 - (w - 1 - x) = x BY <1>0
    <3> QED BY <2>2, <3>1 DEF StoredFrom
  <2> QED BY <2>1, <2>2, <2>3
<1>4. ASSUME NEW o \in Offsets(h, w) PROVE \E write \in writes : write[1] = o
  <2>1. /\ o \div h \in 0 .. w - 1 /\ o % h \in 0 .. h - 1
        /\ o = (o \div h) * h + (o % h)
    BY RowAndColumn DEF Sides
  <2>2. PICK r \in 0 .. w - 1, c \in 0 .. h - 1 : r = o \div h /\ c = o % h BY <2>1
  <2> DEFINE x == IF clockwise THEN r ELSE w - 1 - r
             y == IF clockwise THEN h - 1 - c ELSE c
  <2>3. x \in 0 .. w - 1 BY <1>0
  <2>4. y \in 0 .. h - 1 BY <1>0
  <2>5. StoredAt(x, y, w, h, clockwise) = r * h + c
    <3>1. h - 1 - (h - 1 - c) = c /\ w - 1 - (w - 1 - r) = r BY <1>0
    <3> QED BY <3>1 DEF StoredAt
  <2>6. <<StoredAt(x, y, w, h, clockwise), y * w + x>> \in writes BY <2>3, <2>4 DEF Stores
  <2> QED BY <2>1, <2>2, <2>5, <2>6
<1> HIDE DEF writes
<1>5. {write[1] : write \in writes} = Offsets(h, w) BY <1>3, <1>4
<1>6. \A o \in Offsets(h, w) : source(o) = StoredFrom(o, w, h, clockwise)
  <2> SUFFICES ASSUME NEW o \in Offsets(h, w) PROVE source(o) = StoredFrom(o, w, h, clockwise)
    OBVIOUS
  <2>1. PICK write \in writes : write = CHOOSE one \in writes : one[1] = o BY <1>4
  <2>2. write[1] = o BY <1>4, <2>1
  <2> QED BY <1>3, <2>1, <2>2
<1> HIDE DEF source
<1> QED BY <1>1, <1>5, <1>6 DEF Quarter

(* Where the sample at x, y of a turned frame comes from, for any turn. *)
Before(x, y, w, h, rotation, hflip, vflip) ==
    LET wide == IF rotation \in {90, 270} THEN h ELSE w
        high == IF rotation \in {90, 270} THEN w ELSE h
        fx == Mirror(x, wide, hflip)
        fy == Mirror(y, high, vflip)
    IN  CASE rotation = 0   -> fy * w + fx
          [] rotation = 90  -> (h - 1 - fx) * w + fy
          [] rotation = 180 -> (h - 1 - fy) * w + w - 1 - fx
          [] rotation = 270 -> fx * w + w - 1 - fy

(* A frame that is flipped only, also as the half turn is. *)
LEMMA FrameFlipped ==
  ASSUME NEW w \in Sides, NEW h \in Sides, NEW hflip \in BOOLEAN, NEW vflip \in BOOLEAN
  PROVE  Flipped(Plane(w, h), w, h, hflip, vflip)
            = [o \in Offsets(w, h) |-> Mirror(o \div w, h, vflip) * w + Mirror(o % w, w, hflip)]
<1> DEFINE plane == Plane(w, h)
<1>1. IsPlane(plane, w, h) BY DEF IsPlane, Plane
<1>2. \A o \in Offsets(w, h) : plane[o] = o BY DEF Plane
<1> HIDE DEF plane
<1>3. Flipped(plane, w, h, hflip, vflip)
        = [o \in Offsets(w, h) |-> plane[From(o, w, h, hflip, vflip)]]
  BY <1>1, PlaneFlipped
<1>4. ASSUME NEW o \in Offsets(w, h)
      PROVE  plane[From(o, w, h, hflip, vflip)]
                = Mirror(o \div w, h, vflip) * w + Mirror(o % w, w, hflip)
  <2>1. From(o, w, h, hflip, vflip) \in Offsets(w, h) BY FromWithin
  <2>2. From(o, w, h, hflip, vflip) = Mirror(o \div w, h, vflip) * w + Mirror(o % w, w, hflip)
    BY DEF From, Mirror
  <2> QED BY <1>2, <2>1, <2>2
<1> QED BY <1>3, <1>4 DEF plane

(* A frame that is turned by a quarter, then flipped. *)
LEMMA FrameTurned ==
  ASSUME NEW w \in Sides, NEW h \in Sides, NEW clockwise \in BOOLEAN,
         NEW hflip \in BOOLEAN, NEW vflip \in BOOLEAN
  PROVE  Flipped(Transposed(Plane(w, h), w, h, clockwise), h, w, hflip, vflip)
            = [o \in Offsets(h, w) |->
                 IF clockwise
                 THEN (h - 1 - Mirror(o % h, h, hflip)) * w + Mirror(o \div h, w, vflip)
                 ELSE Mirror(o % h, h, hflip) * w + (w - 1 - Mirror(o \div h, w, vflip))]
<1> DEFINE plane == Plane(w, h)
           turned == Transposed(plane, w, h, clockwise)
<1>0. w \in Nat /\ h \in Nat BY DEF Sides
<1>1. \A o \in Offsets(w, h) : plane[o] = o BY DEF Plane
<1> HIDE DEF plane
<1>2. turned = [o \in Offsets(h, w) |-> plane[StoredFrom(o, w, h, clockwise)]]
  <2>1. turned = Quarter(plane, w, h, clockwise) BY PlaneTransposed
  <2> QED BY <2>1 DEF Quarter
<1> HIDE DEF turned
<1>3. IsPlane(turned, h, w) BY <1>2 DEF IsPlane
<1>4. Flipped(turned, h, w, hflip, vflip)
        = [o \in Offsets(h, w) |-> turned[From(o, h, w, hflip, vflip)]]
  BY <1>3, PlaneFlipped
<1>5. ASSUME NEW o \in Offsets(h, w)
      PROVE  turned[From(o, h, w, hflip, vflip)]
                = IF clockwise
                  THEN (h - 1 - Mirror(o % h, h, hflip)) * w + Mirror(o \div h, w, vflip)
                  ELSE Mirror(o % h, h, hflip) * w + (w - 1 - Mirror(o \div h, w, vflip))
  <2>1. PICK at \in Offsets(h, w) :
           /\ at = From(o, h, w, hflip, vflip)
           /\ at \div h = Mirror(o \div h, w, vflip) /\ at % h = Mirror(o % h, h, hflip)
    <3>1. LET from == From(o, h, w, hflip, vflip) IN
          /\ from \in Offsets(h, w)
          /\ from \div h = Mirror(o \div h, w, vflip) /\ from % h = Mirror(o % h, h, hflip)
      BY FromWithin DEF Mirror
    <3> QED BY <3>1
  <2>2. at \div h \in 0 .. w - 1 /\ at % h \in 0 .. h - 1 BY RowAndColumn DEF Sides
  <2>3. PICK r \in 0 .. w - 1, c \in 0 .. h - 1 : r = at \div h /\ c = at % h BY <2>2
  <2>4. turned[at] = plane[StoredFrom(at, w, h, clockwise)] BY <1>2
  <2>5. StoredFrom(at, w, h, clockwise)
          = IF clockwise THEN (h - 1 - c) * w + r ELSE c * w + (w - 1 - r)
    BY <2>3 DEF StoredFrom
  <2>6. h - 1 - c \in 0 .. h - 1 /\ w - 1 - r \in 0 .. w - 1 BY <1>0
  <2>7. StoredFrom(at, w, h, clockwise) \in Offsets(w, h)
    <3>1. PICK row \in 0 .. h - 1 : row = h - 1 - c BY <2>6
    <3>2. PICK column \in 0 .. w - 1 : column = w - 1 - r BY <2>6
    <3>3. row * w + r \in Offsets(w, h) /\ c * w + column \in Offsets(w, h)
      BY InPlane DEF Sides
    <3> QED BY <2>5, <3>1, <3>2, <3>3
  <2> QED BY <1>1, <2>1, <2>3, <2>4, <2>5, <2>7
<1> QED BY <1>4, <1>5 DEF turned, plane

(* Every turn of a frame places every sample. *)
LEMMA FramesPlace ==
  ASSUME NEW w \in Sides, NEW h \in Sides, NEW rotation \in {0, 90, 180, 270},
         NEW hflip \in BOOLEAN, NEW vflip \in BOOLEAN
  PROVE  LET result == Transformed(Plane(w, h), w, h, rotation, hflip, vflip)
             wide == IF rotation \in {90, 270} THEN h ELSE w
         IN  /\ DOMAIN result = Offsets(w, h)
             /\ \A o \in Offsets(w, h) :
                    result[o] = Before(o % wide, o \div wide, w, h, rotation, hflip, vflip)
<1> DEFINE plane == Plane(w, h)
           result == Transformed(plane, w, h, rotation, hflip, vflip)
<1>0. w \in Nat /\ h \in Nat BY DEF Sides
<1>1. CASE rotation = 0
  <2>1. result = Flipped(plane, w, h, hflip, vflip) BY <1>1 DEF Transformed, Composed
  <2>2. result = [o \in Offsets(w, h) |->
                    Mirror(o \div w, h, vflip) * w + Mirror(o % w, w, hflip)]
    BY <2>1, FrameFlipped
  <2> HIDE DEF result
  <2> QED BY <1>1, <2>2 DEF Before, result, plane
<1>2. CASE rotation = 180
  <2>1. result = Flipped(plane, w, h, ~hflip, ~vflip) BY <1>2 DEF Transformed, Composed
  <2>2. PICK across \in BOOLEAN, down \in BOOLEAN : across = ~hflip /\ down = ~vflip
    BY Zenon
  <2>3. (across <=> ~hflip) /\ (down <=> ~vflip) BY <2>2, Zenon
  <2>4. result = Flipped(plane, w, h, across, down) BY <2>1, <2>2, Zenon
  <2>5. result = [o \in Offsets(w, h) |->
                    Mirror(o \div w, h, down) * w + Mirror(o % w, w, across)]
    BY <2>4, FrameFlipped
  <2>6. ASSUME NEW o \in Offsets(w, h)
        PROVE  Mirror(o \div w, h, down) * w + Mirror(o % w, w, across)
                 = (h - 1 - Mirror(o \div w, h, vflip)) * w + w - 1 - Mirror(o % w, w, hflip)
    <3>1. PICK r \in 0 .. h - 1, c \in 0 .. w - 1 : r = o \div w /\ c = o % w
      BY RowAndColumn DEF Sides
    <3>2. Mirror(r, h, down) = h - 1 - Mirror(r, h, vflip)
      BY <1>0, <2>3 DEF Mirror
    <3>3. Mirror(c, w, across) = w - 1 - Mirror(c, w, hflip) /\ Mirror(c, w, hflip) \in Int
      BY <1>0, <2>3 DEF Mirror
    <3>4. (h - 1 - Mirror(r, h, vflip)) * w \in Int
      <4>1. h - 1 - Mirror(r, h, vflip) \in Int BY <1>0 DEF Mirror
      <4> QED BY <1>0, <4>1
    <3> QED BY <1>0, <3>1, <3>2, <3>3, <3>4
  <2> HIDE DEF result
  <2> QED BY <1>2, <2>5, <2>6 DEF Before, result, plane
<1>3. CASE rotation \in {90, 270}
  <2>0. PICK clockwise \in BOOLEAN : clockwise = (rotation = 90) BY Zenon
  <2>1. result = Flipped(Transposed(plane, w, h, clockwise), h, w, hflip, vflip)
    BY <1>3, <2>0 DEF Transformed, Composed
  <2>2. Offsets(h, w) = Offsets(w, h) BY <1>0 DEF Offsets
  <2>3. result = [o \in Offsets(w, h) |->
                 IF clockwise
                 THEN (h - 1 - Mirror(o % h, h, hflip)) * w + Mirror(o \div h, w, vflip)
                 ELSE Mirror(o % h, h, hflip) * w + (w - 1 - Mirror(o \div h, w, vflip))]
    BY <2>1, <2>2, FrameTurned
  <2>4. ASSUME NEW o \in Offsets(w, h)
        PROVE  Mirror(o % h, h, hflip) * w + (w - 1 - Mirror(o \div h, w, vflip))
                 = Mirror(o % h, h, hflip) * w + w - 1 - Mirror(o \div h, w, vflip)
    <3>1. PICK r \in 0 .. w - 1, c \in 0 .. h - 1 : r = o \div h /\ c = o % h
      BY <2>2, RowAndColumn DEF Sides
    <3>2. Mirror(r, w, vflip) \in Int /\ Mirror(c, h, hflip) \in Int BY <1>0 DEF Mirror
    <3>3. Mirror(c, h, hflip) * w \in Int BY <1>0, <3>2
    <3> QED BY <1>0, <3>1, <3>2, <3>3
  <2> HIDE DEF result
  <2>5. ASSUME NEW o \in Offsets(w, h)
        PROVE  result[o] = Before(o % h, o \div h, w, h, rotation, hflip, vflip)
    <3> DEFINE fx == Mirror(o % h, h, hflip)
               fy == Mirror(o \div h, w, vflip)
    <3>0. result[o] = IF clockwise THEN (h - 1 - fx) * w + fy ELSE fx * w + (w - 1 - fy)
      BY <2>3
    <3> HIDE DEF fx, fy
    <3>1. CASE rotation = 90
      <4>1. Before(o % h, o \div h, w, h, rotation, hflip, vflip) = (h - 1 - fx) * w + fy
        BY <3>1 DEF Before, fx, fy
      <4> QED BY <2>0, <3>0, <3>1, <4>1
    <3>2. CASE rotation = 270
      <4>1. Before(o % h, o \div h, w, h, rotation, hflip, vflip) = fx * w + w - 1 - fy
        BY <3>2 DEF Before, fx, fy
      <4>2. fx * w + (w - 1 - fy) = fx * w + w - 1 - fy BY <2>4 DEF fx, fy
      <4>3. ~(rotation = 90) BY <3>2
      <4>4. ~clockwise BY <2>0, <4>3, Zenon
      <4> QED BY <3>0, <4>1, <4>2, <4>4
    <3> QED BY <1>3, <3>1, <3>2
  <2> QED BY <1>3, <2>3, <2>5 DEF result, plane
<1> QED BY <1>1, <1>2, <1>3

(* A place of the target is taken from within the source ... *)
LEMMA AxisWithin ==
  ASSUME NEW dst \in Sides, NEW src \in Sides, NEW i \in 0 .. dst - 1
  PROVE  Axis(dst, src, i) \in 0 .. src - 1
<1>0. dst \in Nat /\ dst > 0 /\ src \in Nat /\ src > 0 BY DEF Sides
<1>1. i * src \in Nat /\ i * src <= (dst - 1) * src BY <1>0
<1>2. (dst - 1) * src = dst * src - src BY <1>0
<1>3. PICK q \in Nat, r \in 0 .. dst - 1 : i * src = q * dst + r /\ q = (i * src) \div dst
  BY <1>1, DivMod DEF Sides
<1>4. q < src
  <2> SUFFICES ASSUME q >= src PROVE FALSE BY <1>0
  <2>1. q * dst >= src * dst BY <1>0
  <2>2. src * dst = dst * src BY <1>0
  <2>3. PICK a \in Int, b \in Int : a = q * dst /\ b = dst * src BY <1>0
  <2> QED BY <1>0, <1>1, <1>2, <1>3, <2>1, <2>2, <2>3
<1> QED BY <1>0, <1>3, <1>4 DEF Axis

(* ... and short of its last two when the target's last two are not asked for. *)
LEMMA AxisShort ==
  ASSUME NEW dst \in Sides, NEW src \in Sides, dst <= src, 2 <= dst, NEW i \in 0 .. dst - 2
  PROVE  Axis(dst, src, i) \in 0 .. src - 2
<1>0. dst \in Nat /\ dst > 0 /\ src \in Nat /\ src > 0 BY DEF Sides
<1>1. i * src \in Nat /\ i * src <= (dst - 2) * src BY <1>0
<1>2. (dst - 2) * src = dst * src - 2 * src BY <1>0
<1>3. PICK q \in Nat, r \in 0 .. dst - 1 : i * src = q * dst + r /\ q = (i * src) \div dst
  BY <1>1, DivMod DEF Sides
<1>4. q <= src - 2
  <2> SUFFICES ASSUME q >= src - 1 PROVE FALSE BY <1>0
  <2>1. q * dst >= (src - 1) * dst BY <1>0
  <2>2. (src - 1) * dst = dst * src - dst BY <1>0
  <2>3. PICK a \in Int, b \in Int : a = q * dst /\ b = dst * src BY <1>0
  <2> QED BY <1>0, <1>1, <1>2, <1>3, <2>1, <2>2, <2>3
<1> QED BY <1>0, <1>3, <1>4 DEF Axis

(* fitEven: even sides, of at least two. *)
LEMMA EvenDims ==
  ASSUME NEW n \in Nat
  PROVE  EvenDim(n) \in Nat /\ EvenDim(n) % 2 = 0 /\ EvenDim(n) >= 2
BY DEF EvenDim

LEMMA FitsEven ==
  ASSUME NEW w \in Sides, NEW h \in Sides, NEW box \in Sides
  PROVE  \E a, b \in Nat : FitEven(w, h, box) = <<EvenDim(a), EvenDim(b)>>
<1>0. w \in Nat /\ w > 0 /\ h \in Nat /\ h > 0 /\ box \in Nat BY DEF Sides
<1>1. h * box \in Nat /\ w * box \in Nat BY <1>0
<1>2. (h * box) \div w \in Nat /\ (w * box) \div h \in Nat BY <1>0, <1>1, DivMod DEF Sides
<1>3. CASE w <= box /\ h <= box BY <1>0, <1>3 DEF FitEven
<1>4. CASE ~(w <= box /\ h <= box) /\ w >= h BY <1>0, <1>2, <1>4 DEF FitEven
<1>5. CASE ~(w <= box /\ h <= box) /\ ~(w >= h) BY <1>0, <1>2, <1>5 DEF FitEven
<1> QED BY <1>3, <1>4, <1>5

(* Each plane of a frame that shrinks is read within. *)
LEMMA LumaWithin ==
  ASSUME NEW w \in Sides, NEW h \in Sides, NEW dw \in Sides, NEW dh \in Sides
  PROVE  \A o \in DownscaledLuma(w, h, dw, dh) : o < w * h
<1>1. SUFFICES ASSUME NEW x \in 0 .. dw - 1, NEW y \in 0 .. dh - 1
               PROVE  Axis(dh, h, y) * w + Axis(dw, w, x) < w * h
  BY DEF DownscaledLuma
<1>2. PICK column \in 0 .. w - 1, row \in 0 .. h - 1 :
         column = Axis(dw, w, x) /\ row = Axis(dh, h, y)
  BY AxisWithin
<1>3. row * w + column \in Offsets(w, h) BY InPlane DEF Sides
<1>4. w * h \in Nat BY DEF Sides
<1> QED BY <1>2, <1>3, <1>4 DEF Offsets

LEMMA HalvesWithin ==
  ASSUME NEW src \in Sides, NEW dst \in Sides, dst <= src, dst % 2 = 0, dst >= 2,
         NEW i \in 0 .. (IF Half(dst) = 0 THEN 1 ELSE Half(dst)) - 1
  PROVE  Half(Axis(dst, src, AtMost(2 * i, dst - 1))) < Half(src)
<1>0. dst \in Nat /\ src \in Nat BY DEF Sides
<1>1. PICK n \in Nat : n = Half(dst) /\ n >= 1 /\ 2 * n = dst BY <1>0 DEF Half
<1>2. i \in 0 .. n - 1 BY <1>1
<1>3. 2 * i \in 0 .. dst - 2 /\ AtMost(2 * i, dst - 1) = 2 * i BY <1>1, <1>2 DEF AtMost
<1>4. PICK place \in 0 .. src - 2 : place = Axis(dst, src, 2 * i) BY <1>3, AxisShort
<1>5. Half(place) < Half(src) BY <1>0 DEF Half
<1> QED BY <1>3, <1>4, <1>5

(* copyPaddedI420: the rows of a plane go to places of their own. *)
Block(n, len, to, toStep, from) ==
    {<<to + r * toStep + x, from + r * len + x>> : r \in 0 .. n - 1, x \in 0 .. len - 1}

(* p places from "to" on hold the q samples from "from" on, each once. *)
Apart(block, to, p, from, q) ==
    /\ \A a \in block : a[1] \in to .. to + p - 1 /\ a[2] \in from .. from + q - 1
    /\ \A a, b \in block : a[1] = b[1] <=> a[2] = b[2]
    /\ \A s \in from .. from + q - 1 : \E a \in block : a[2] = s

LEMMA ApartJoined ==
  ASSUME NEW A, NEW B, NEW to \in Nat, NEW p \in Nat, NEW from \in Nat, NEW q \in Nat,
         NEW more \in Nat, NEW rest \in Nat,
         Apart(A, to, p, from, q), Apart(B, to + p, more, from + q, rest)
  PROVE  Apart(A \union B, to, p + more, from, q + rest)
<1>1. ASSUME NEW a \in A \union B
      PROVE  a[1] \in to .. to + (p + more) - 1 /\ a[2] \in from .. from + (q + rest) - 1
  BY DEF Apart
<1>2. ASSUME NEW a \in A \union B, NEW b \in A \union B PROVE a[1] = b[1] <=> a[2] = b[2]
  BY DEF Apart
<1>3. ASSUME NEW s \in from .. from + (q + rest) - 1 PROVE \E a \in A \union B : a[2] = s
  <2>1. s \in from .. from + q - 1 \/ s \in from + q .. (from + q) + rest - 1 OBVIOUS
  <2> QED BY <2>1 DEF Apart
<1> QED BY <1>1, <1>2, <1>3 DEF Apart

LEMMA BlockApart ==
  ASSUME NEW n \in Sides, NEW len \in Sides, NEW toStep \in Sides, len <= toStep,
         NEW to \in Nat, NEW from \in Nat, NEW p, p = toStep * n, NEW q, q = len * n
  PROVE  Apart(Block(n, len, to, toStep, from), to, p, from, q)
<1> DEFINE block == Block(n, len, to, toStep, from)
<1>0. /\ n \in Nat /\ len \in Nat /\ toStep \in Nat /\ p \in Nat /\ q \in Nat
      /\ toStep * n \in Nat /\ len * n \in Nat
  BY DEF Sides
<1>1. ASSUME NEW r \in 0 .. n - 1, NEW x \in 0 .. len - 1
      PROVE  /\ r * toStep + x \in Offsets(toStep, n) /\ r * len + x \in Offsets(len, n)
             /\ (r * toStep + x) \div toStep = r /\ (r * toStep + x) % toStep = x
             /\ (r * len + x) \div len = r /\ (r * len + x) % len = x
  <2>1. x \in 0 .. toStep - 1 BY <1>0
  <2>2. n \in Nat \ {0} /\ len \in Nat \ {0} /\ toStep \in Nat \ {0} BY DEF Sides
  <2>3. /\ r * toStep + x \in Offsets(toStep, n)
        /\ (r * toStep + x) \div toStep = r /\ (r * toStep + x) % toStep = x
    BY <2>1, <2>2, InPlane
  <2>4. /\ r * len + x \in Offsets(len, n)
        /\ (r * len + x) \div len = r /\ (r * len + x) % len = x
    BY <2>2, InPlane
  <2> QED BY <2>3, <2>4
<1>2. ASSUME NEW a \in block
      PROVE  \E r \in 0 .. n - 1, x \in 0 .. len - 1,
                i \in Offsets(toStep, n), j \in Offsets(len, n) :
                /\ i = r * toStep + x /\ j = r * len + x
                /\ a[1] = to + i /\ a[2] = from + j
  <2>1. PICK r \in 0 .. n - 1, x \in 0 .. len - 1 :
           a = <<to + r * toStep + x, from + r * len + x>>
    BY DEF Block
  <2>2. r * toStep + x \in Offsets(toStep, n) /\ r * len + x \in Offsets(len, n) BY <1>1
  <2>3. r * toStep \in Int /\ r * len \in Int BY <1>0
  <2>4. to + r * toStep + x = to + (r * toStep + x) /\ from + r * len + x = from + (r * len + x)
    BY <1>0, <2>3
  <2> QED BY <2>1, <2>2, <2>4
<1>3. ASSUME NEW a \in block
      PROVE  a[1] \in to .. to + p - 1 /\ a[2] \in from .. from + q - 1
  BY <1>0, <1>2 DEF Offsets
<1>4. ASSUME NEW a \in block, NEW b \in block PROVE a[1] = b[1] <=> a[2] = b[2]
  <2>1. PICK r \in 0 .. n - 1, x \in 0 .. len - 1,
             i \in Offsets(toStep, n), j \in Offsets(len, n) :
           i = r * toStep + x /\ j = r * len + x /\ a[1] = to + i /\ a[2] = from + j
    BY <1>2
  <2>2. PICK s \in 0 .. n - 1, y \in 0 .. len - 1,
             t \in Offsets(toStep, n), u \in Offsets(len, n) :
           t = s * toStep + y /\ u = s * len + y /\ b[1] = to + t /\ b[2] = from + u
    BY <1>2
  <2>3. i \div toStep = r /\ i % toStep = x /\ j \div len = r /\ j % len = x
    BY <1>1, <2>1, Zenon
  <2>4. t \div toStep = s /\ t % toStep = y /\ u \div len = s /\ u % len = y
    BY <1>1, <2>2, Zenon
  <2>5. i = t <=> j = u
    <3>1. ASSUME i = t PROVE r = s /\ x = y BY <2>3, <2>4, <3>1, Zenon
    <3>2. ASSUME j = u PROVE r = s /\ x = y BY <2>3, <2>4, <3>2, Zenon
    <3>3. ASSUME r = s, x = y PROVE i = t /\ j = u BY <2>1, <2>2, <3>3, Zenon
    <3> QED BY <3>1, <3>2, <3>3, Zenon
  <2>6. i \in Int /\ j \in Int /\ t \in Int /\ u \in Int BY <1>0 DEF Offsets
  <2>7. (to + i = to + t <=> i = t) /\ (from + j = from + u <=> j = u) BY <2>6
  <2> QED BY <2>1, <2>2, <2>5, <2>7, Zenon
<1>5. ASSUME NEW s \in from .. from + q - 1 PROVE \E a \in block : a[2] = s
  <2>1. PICK j \in Offsets(len, n) : s = from + j
    <3>1. s - from \in 0 .. q - 1 /\ s = from + (s - from) BY <1>0
    <3> QED BY <3>1 DEF Offsets
  <2>2. PICK r \in 0 .. n - 1, x \in 0 .. len - 1 : j = r * len + x
    <3>1. len \in Nat \ {0} /\ n \in Nat \ {0} BY DEF Sides
    <3>2. /\ j \div len \in 0 .. n - 1 /\ j % len \in 0 .. len - 1
          /\ j = (j \div len) * len + (j % len)
      BY <3>1, RowAndColumn
    <3> QED BY <3>2, Zenon
  <2>3. <<to + r * toStep + x, from + r * len + x>> \in block BY DEF Block
  <2>4. r * len \in Int BY <1>0
  <2>5. from + r * len + x = s BY <1>0, <2>1, <2>2, <2>4
  <2> QED BY <2>3, <2>5
<1> HIDE DEF block
<1>6. Apart(block, to, p, from, q) BY <1>3, <1>4, <1>5 DEF Apart
<1> QED BY <1>6 DEF block

LEMMA Padded ==
  ASSUME NEW w \in {2, 4, 6}, NEW h \in {2, 4}, NEW stride \in {8, 9}
  PROVE  Apart(PaddedCopies(w, h, stride), 0, PaddedTotal(h, stride), 0, (w * h * 3) \div 2)
<1> DEFINE cw == Half(w)  ch == Half(h)  hs == Half(stride)
           u == stride * h
           v == u + hs * ch
           luma == Block(h, w, 0, stride, 0)
           first == Block(ch, cw, u, hs, w * h)
           second == Block(ch, cw, v, hs, w * h + cw * ch)
           copies == PaddedCopies(w, h, stride)
<1>1. /\ w \in Sides /\ h \in Sides /\ stride \in Sides /\ w <= stride
      /\ cw \in Sides /\ ch \in Sides /\ hs \in Sides /\ cw <= hs
  BY DEF Sides, Half
<1>2. copies = luma \union first \union second BY DEF PaddedCopies, Block
<1>3. 4 * (cw * ch) = w * h BY DEF Half
<1> HIDE DEF cw, ch, hs
<1>4. stride * h \in Nat /\ hs * ch \in Nat /\ w * h \in Nat /\ cw * ch \in Nat
  BY <1>1 DEF Sides
<1>5. PICK p \in Nat, q \in Nat, s \in Nat, t \in Nat :
         p = stride * h /\ q = hs * ch /\ s = w * h /\ t = cw * ch
  BY <1>4
<1>6. Apart(luma, 0, p, 0, s) BY <1>1, <1>5, BlockApart
<1>7. Apart(first, p, q, s, t) BY <1>1, <1>5, BlockApart
<1>8. Apart(second, p + q, q, s + t, t)
  <2>1. p + q \in Nat /\ s + t \in Nat OBVIOUS
  <2>2. Apart(Block(ch, cw, p + q, hs, s + t), p + q, q, s + t, t)
    BY <1>1, <1>5, <2>1, BlockApart
  <2> QED BY <1>5, <2>2
<1> HIDE DEF luma, first, second
<1>9. Apart(luma \union first, 0, p + q, 0, s + t)
  <2>1. Apart(first, 0 + p, q, 0 + s, t) BY <1>7
  <2> QED BY <1>6, <2>1, ApartJoined
<1>10. Apart(copies, 0, (p + q) + q, 0, (s + t) + t)
  <2>1. Apart(second, 0 + (p + q), q, 0 + (s + t), t) BY <1>8
  <2>2. p + q \in Nat /\ s + t \in Nat OBVIOUS
  <2> HIDE DEF copies
  <2> QED BY <1>2, <1>9, <2>1, <2>2, ApartJoined
<1>11. PaddedTotal(h, stride) = (p + q) + q BY <1>5 DEF PaddedTotal, ch, hs
<1>12. (w * h * 3) \div 2 = (s + t) + t BY <1>3, <1>5
<1> QED BY <1>10, <1>11, <1>12

(* An input of these kinds is one of those enumerated. *)
FramesInv ==
    /\ subject.kind \in {"frame", "scale", "pad"} => subject \in Subjects(subject.kind)
    /\ FramesTransformed

(* An input of the pipe is two units, their start codes and places to cut at. *)
LEMMA PiecesInput ==
  ASSUME NEW input \in Subjects("pieces")
  PROVE  /\ input.kind = "pieces"
         /\ input.units \in TupleOf(NalUnits, 2) /\ input.long \in TupleOf(BOOLEAN, 2)
         /\ input.cuts \in Cuts(Len(Annexed(input.units, input.long)))
<1>1. input \in PipeInputs
  <2> HIDE DEF PipeInputs
  <2> QED BY DEF Subjects
<1>2. PICK all : all = TupleOf(NalUnits, 2) OBVIOUS
<1>3. PICK ways : ways = TupleOf(BOOLEAN, 2) OBVIOUS
<1>4. PICK u \in all, l \in ways : input \in Piped(u, l)
  <2>1. input \in UNION {Piped(u, l) : u \in all, l \in ways}
    BY <1>1, <1>2, <1>3 DEF PipeInputs
  <2> QED BY <2>1
<1>5. PICK places : places = Cuts(Len(Annexed(u, l))) OBVIOUS
<1>6. input \in [kind : {"pieces"}, units : {u}, long : {l}, cuts : places] BY <1>4, <1>5, Zenon DEF Piped
<1>7. input.kind = "pieces" /\ input.units = u /\ input.long = l /\ input.cuts \in places BY <1>6
<1> QED BY <1>2, <1>3, <1>5, <1>7, Zenon

(* An input says which conversion it is for. *)
LEMMA OwnKind ==
  ASSUME NEW input, NEW kind \in {"message", "chunk", "video", "sets", "answer", "pieces", "pictures", "pes",
                                  "frame", "scale", "pad"},
         input \in Subjects(kind)
  PROVE  input.kind = kind
<1>1. CASE kind \in {"message", "chunk", "sets", "video"}
  <2> HIDE DEF NalUnits
  <2> QED BY <1>1 DEF Subjects
<1>2. CASE kind \in {"answer", "pictures", "pes", "frame", "scale", "pad"}
  <2> HIDE DEF AmfObjects
  <2> QED BY <1>2 DEF Subjects
<1>3. CASE kind = "pieces" BY <1>3, PiecesInput
<1> QED BY <1>1, <1>2, <1>3

LEMMA FramesInvInit == FormatsInit \/ (subject = [kind |-> "none"] /\ converted = <<>>) => FramesInv
<1> USE DEF FramesInv, FramesTransformed, SamplesPlaced, ScaledWithin, PaddedApart, Done
<1>1. CASE subject = [kind |-> "none"] /\ converted = <<>> BY <1>1
<1>2. CASE FormatsInit
  <2>1. PICK kind \in SubjectKinds : subject \in Subjects(kind) /\ converted = <<>>
    BY <1>2 DEF FormatsInit
  <2>2. kind \in {"message", "chunk", "video", "sets", "answer", "pieces", "pictures", "pes",
                  "frame", "scale", "pad"}
    BY FormatsAssumption
  <2>3. subject.kind = kind BY <2>1, <2>2, OwnKind
  <2> QED BY <2>1, <2>3
<1> QED BY <1>1, <1>2

LEMMA FramesInvKept == FramesInv /\ [FormatsNext]_formatVars => FramesInv'
<1> SUFFICES ASSUME FramesInv, [FormatsNext]_formatVars PROVE FramesInv' OBVIOUS
<1> USE FormatsAssumption
<1>1. CASE UNCHANGED formatVars
  <2>1. subject' = subject /\ converted' = converted BY <1>1 DEF formatVars
  <2>2. SamplesPlaced' = SamplesPlaced BY <2>1 DEF SamplesPlaced, Done, Result, OffsetBefore
  <2>3. ScaledWithin' = ScaledWithin BY <2>1 DEF ScaledWithin, Done, Result
  <2>4. PaddedApart' = PaddedApart BY <2>1 DEF PaddedApart, Done, Result
  <2> QED BY <2>1, <2>2, <2>3, <2>4 DEF FramesInv, FramesTransformed
<1>2. CASE \/ SendMessage \/ HeadChunk \/ SendSets \/ SendVideo \/ ReadAnswer \/ ReadPipe
           \/ GroupUnits \/ MuxFrame
  <2>1. /\ subject.kind \notin {"frame", "scale", "pad"} /\ UNCHANGED subject
    BY <1>2 DEF SendMessage, HeadChunk, SendSets, SendVideo, ReadAnswer, ReadPipe, GroupUnits,
                MuxFrame, Due, Into
  <2> QED BY <2>1 DEF FramesInv, FramesTransformed, SamplesPlaced, ScaledWithin, PaddedApart, Done
<1>3. CASE TransformFrame
  <2> DEFINE w == subject.w  h == subject.h  turn == subject.turn
             result == Transformed(Plane(w, h), w, h, turn.rotation, turn.hflip, turn.vflip)
  <2>1. subject.kind = "frame" /\ converted' = <<result>> /\ subject' = subject
    BY <1>3 DEF TransformFrame, Due, Into
  <2>2. /\ w \in Sides /\ h \in Sides /\ turn.rotation \in {0, 90, 180, 270}
        /\ turn.hflip \in BOOLEAN /\ turn.vflip \in BOOLEAN
    <3>1. subject \in Subjects("frame") BY <2>1 DEF FramesInv
    <3> QED BY <3>1 DEF Subjects, Turns, Sides
  <2>3. LET wide == IF turn.rotation \in {90, 270} THEN h ELSE w IN
        /\ DOMAIN result = Offsets(w, h)
        /\ \A o \in Offsets(w, h) :
              result[o] = Before(o % wide, o \div wide, w, h, turn.rotation, turn.hflip, turn.vflip)
    BY <2>2, FramesPlace
  <2>4. Result' = result BY <2>1 DEF Result
  <2> HIDE DEF result
  <2>5. ASSUME NEW x, NEW y
        PROVE  OffsetBefore(x, y)' = Before(x, y, w, h, turn.rotation, turn.hflip, turn.vflip)
    BY <2>1 DEF OffsetBefore, Before, Mirror
  <2>6. SamplesPlaced' BY <2>1, <2>3, <2>4, <2>5 DEF SamplesPlaced
  <2> QED BY <2>1, <2>6 DEF FramesInv, FramesTransformed, ScaledWithin, PaddedApart, Done
<1>4. CASE ScaleFrame
  <2> DEFINE w == subject.w  h == subject.h  to == FitEven(w, h, subject.box)
             luma == DownscaledLuma(w, h, to[1], to[2])
             chroma == DownscaledChroma(w, h, to[1], to[2])
  <2>1. /\ subject.kind = "scale" /\ subject' = subject
        /\ converted' = <<[to |-> to, luma |-> luma, chroma |-> chroma]>>
    BY <1>4 DEF ScaleFrame, Due, Into
  <2>2. w \in Sides /\ h \in Sides /\ subject.box \in Sides
    <3>1. subject \in Subjects("scale") BY <2>1 DEF FramesInv
    <3> QED BY <3>1 DEF Subjects, Sides
  <2>3. PICK a \in Nat, b \in Nat : to = <<EvenDim(a), EvenDim(b)>> BY <2>2, FitsEven
  <2>4. /\ to[1] \in Sides /\ to[1] % 2 = 0 /\ to[1] >= 2
        /\ to[2] \in Sides /\ to[2] % 2 = 0 /\ to[2] >= 2
    BY <2>3, EvenDims DEF Sides
  <2> HIDE DEF to, w, h
  <2>5. \A o \in luma : o < w * h BY <2>2, <2>4, LumaWithin
  <2>6. ASSUME to[1] <= w, to[2] <= h, NEW c \in chroma
        PROVE  c.row < Half(h) /\ c.col < Half(w)
    <3>1. PICK x \in 0 .. (IF Half(to[1]) = 0 THEN 1 ELSE Half(to[1])) - 1,
               y \in 0 .. (IF Half(to[2]) = 0 THEN 1 ELSE Half(to[2])) - 1 :
             c = [row |-> Half(Axis(to[2], h, AtMost(2 * y, to[2] - 1))),
                  col |-> Half(Axis(to[1], w, AtMost(2 * x, to[1] - 1)))]
      BY <2>6 DEF DownscaledChroma
    <3> QED BY <2>2, <2>4, <2>6, <3>1, HalvesWithin
  <2> HIDE DEF luma, chroma
  <2>7. /\ Result'.to = to /\ Result'.luma = luma /\ Result'.chroma = chroma
    BY <2>1 DEF Result
  <2>8. ScaledWithin' BY <2>1, <2>4, <2>5, <2>6, <2>7 DEF ScaledWithin, w, h
  <2> QED BY <2>1, <2>8 DEF FramesInv, FramesTransformed, SamplesPlaced, PaddedApart, Done
<1>5. CASE PadFrame
  <2> DEFINE w == subject.w  h == subject.h  copies == PaddedCopies(w, h, subject.stride)
  <2>1. subject.kind = "pad" /\ converted' = <<copies>> /\ subject' = subject
    BY <1>5 DEF PadFrame, Due, Into
  <2>2. w \in {2, 4, 6} /\ h \in {2, 4} /\ subject.stride \in {8, 9}
    <3>1. subject \in Subjects("pad") BY <2>1 DEF FramesInv
    <3> QED BY <3>1 DEF Subjects
  <2> DEFINE total == PaddedTotal(h, subject.stride)  samples == (w * h * 3) \div 2
  <2>3. Apart(copies, 0, total, 0, samples) BY <2>2, Padded
  <2>4. Result' = copies BY <2>1 DEF Result
  <2> HIDE DEF copies, total, samples
  <2>5. total \in Int
    <3>1. \A n \in {2, 4, 8, 9} : Half(n) \in Int BY DEF Half
    <3> QED BY <2>2, <3>1 DEF total, PaddedTotal
  <2>6. samples \in Int BY <2>2 DEF samples
  <2>7. 0 + total - 1 = total - 1 /\ 0 + samples - 1 = samples - 1 BY <2>5, <2>6
  <2>8. /\ \A a, b \in copies : a[1] = b[1] <=> a[2] = b[2]
        /\ {a[2] : a \in copies} = 0 .. samples - 1
        /\ \A a \in copies : a[1] < total
    BY <2>3, <2>5, <2>7 DEF Apart
  <2>9. PaddedApart' BY <2>1, <2>4, <2>8 DEF PaddedApart, total, samples
  <2> QED BY <2>1, <2>9 DEF FramesInv, FramesTransformed, SamplesPlaced, ScaledWithin, Done
<1> QED BY <1>1, <1>2, <1>3, <1>4, <1>5 DEF FormatsNext

(* Rotation and flips place each sample, shrinking reads within the planes and
   padding keeps the rows apart, at every side of a frame and every tile. *)
THEOREM FramesPlaced == Spec => []FramesTransformed
<1>1. Init => FramesInv BY FramesInvInit DEF Init
<1>2. FramesInv /\ [Next]_vars => FramesInv'
  <2>1. [Next]_vars => [FormatsNext]_formatVars
    BY DEF Next, vars, CameraWrites, RtmpStep, HlsStep, EncoderStep, SubstreamStep,
           ParamSetsStep, FormatsStep, OtherParts
  <2> QED BY <2>1, FramesInvKept
<1>3. FramesInv => FramesTransformed
  BY DEF FramesInv
<1> QED BY <1>1, <1>2, <1>3, PTL DEF Spec

-----------------------------------------------------------------------------
(* What follows is read back: inductions, folds and flattening. *)

(* Induction up to a bound, over a set of numbers. *)
LEMMA UpTo ==
  ASSUME NEW n \in Nat, NEW T, 0 \in T, \A i \in 0 .. n : i \in T /\ i < n => i + 1 \in T
  PROVE  \A i \in 0 .. n : i \in T
<1> DEFINE Bad == {i \in 0 .. n : i \notin T}
<1> SUFFICES ASSUME Bad # {} PROVE FALSE OBVIOUS
<1>1. Bad \in SUBSET Nat OBVIOUS
<1>2. PICK m \in Bad : \A k \in Bad : m <= k
  <2> HIDE DEF Bad
  <2> QED BY <1>1, LeastNat
<1>3. m # 0 /\ m - 1 \in 0 .. n /\ m - 1 \notin Bad BY <1>2
<1>4. (m - 1) + 1 = m /\ m - 1 < n BY <1>2
<1>5. m - 1 \in T BY <1>3
<1>6. (m - 1) + 1 \in T BY <1>3, <1>4, <1>5
<1> QED BY <1>2, <1>4, <1>6

(* A recursion along the numbers has a solution. *)
Steps(n, X, base, g) ==
    {f \in [0 .. n -> X] : f[0] = base /\ \A i \in 1 .. n : f[i] = g[<<f[i - 1], i>>]}

LEMMA StepsExist ==
  ASSUME NEW n \in Nat, NEW X, NEW base \in X, NEW g \in [X \X (1 .. n) -> X]
  PROVE  Steps(n, X, base, g) # {}
<1> DEFINE Far(m) == Steps(m, X, base, g)
           T == {m \in Nat : Far(m) # {}}
<1> USE DEF Steps
<1>1. 0 \in T
  <2> DEFINE f == [i \in 0 .. 0 |-> base]
  <2>1. f \in [0 .. 0 -> X] /\ f[0] = base /\ 1 .. 0 = {} OBVIOUS
  <2>2. f \in Far(0) BY <2>1
  <2> QED BY <2>2
<1>2. ASSUME NEW m \in 0 .. n, m \in T, m < n PROVE m + 1 \in T
  <2>1. PICK f \in Far(m) : TRUE BY <1>2
  <2> DEFINE h == [i \in 0 .. m + 1 |-> IF i <= m THEN f[i] ELSE g[<<f[m], m + 1>>]]
  <2>2. f[m] \in X /\ m + 1 \in 1 .. n BY <1>2
  <2>3. <<f[m], m + 1>> \in X \X (1 .. n) BY <2>2
  <2>4. g[<<f[m], m + 1>>] \in X BY <2>3
  <2>5. h \in [0 .. m + 1 -> X] BY <2>4
  <2>6. h[0] = base OBVIOUS
  <2>7. ASSUME NEW i \in 1 .. m + 1 PROVE h[i] = g[<<h[i - 1], i>>]
    <3>1. CASE i <= m
      <4>1. i \in 1 .. m /\ i - 1 \in 0 .. m BY <3>1
      <4>2. h[i] = f[i] /\ h[i - 1] = f[i - 1] BY <4>1
      <4> QED BY <2>1, <4>1, <4>2
    <3>2. CASE i = m + 1
      <4>1. i - 1 = m /\ i - 1 \in 0 .. m BY <3>2
      <4>2. h[i - 1] = f[m] /\ h[i] = g[<<f[m], m + 1>>] BY <3>2, <4>1
      <4> QED BY <3>2, <4>2
    <3> QED BY <3>1, <3>2
  <2> HIDE DEF h
  <2>8. h \in Far(m + 1) BY <2>5, <2>6, <2>7
  <2> QED BY <2>8
<1> HIDE DEF T
<1>3. n \in T BY <1>1, <1>2, UpTo
<1> QED BY <1>3 DEF T

(* A fold reaches a place of a sequence from the one before it. *)
LEMMA InitialSegment ==
  ASSUME NEW n \in Nat, NEW i \in 1 .. n
  PROVE  /\ 1 .. i \in SUBSET (1 .. n) /\ 1 .. i # {} /\ Max(1 .. i) = i
         /\ (1 .. i) \ {i} = 1 .. i - 1
<1>1. 1 .. i \in SUBSET (1 .. n) /\ i \in 1 .. i /\ i \in Nat OBVIOUS
<1>2. Max(1 .. i) \in 1 .. i /\ \A y \in 1 .. i : Max(1 .. i) >= y BY <1>1, MaxIn
<1>3. PICK x \in 1 .. i : x = Max(1 .. i) BY <1>2
<1>4. x >= i BY <1>1, <1>2, <1>3
<1>5. (1 .. i) \ {i} = 1 .. i - 1 OBVIOUS
<1> QED BY <1>1, <1>3, <1>4, <1>5

(* Flattening, one part after another. *)
LEMMA FlattenEmpty == FlattenSeq(<<>>) = <<>>
BY DEF FlattenSeq

FlattenFrom(f, seqs) == [i \in 1 .. Len(seqs) |-> IF i = 1 THEN seqs[i] ELSE f[i - 1] \o seqs[i]]

LEMMA FlattenSteps ==
  ASSUME NEW E, NEW seqs \in Seq(Seq(E)), Len(seqs) # 0
  PROVE  \E f \in [1 .. Len(seqs) -> Seq(E)] :
            f = FlattenFrom(f, seqs) /\ FlattenSeq(seqs) = f[Len(seqs)]
<1> DEFINE n == Len(seqs)
<1>0. n \in Nat /\ 1 \in 1 .. n /\ n \in 1 .. n BY LenProperties
<1>00. \A i \in 1 .. n : seqs[i] \in Seq(E) OBVIOUS
<1>1. \E f \in [1 .. n -> Seq(E)] : f = FlattenFrom(f, seqs)
  <2> DEFINE g == [p \in Seq(E) \X (1 .. n) |-> IF p[2] = 1 THEN seqs[1] ELSE p[1] \o seqs[p[2]]]
  <2>1. g \in [Seq(E) \X (1 .. n) -> Seq(E)]
    <3>1. ASSUME NEW p \in Seq(E) \X (1 .. n) PROVE (IF p[2] = 1 THEN seqs[1] ELSE p[1] \o seqs[p[2]]) \in Seq(E)
      <4>1. p[1] \in Seq(E) /\ p[2] \in 1 .. n OBVIOUS
      <4>2. seqs[p[2]] \in Seq(E) BY <1>00, <4>1
      <4> QED BY <1>0, <1>00, <4>1, <4>2, ConcatProperties
    <3> QED BY <3>1
  <2>2. <<>> \in Seq(E) OBVIOUS
  <2> HIDE DEF g, n
  <2>3. PICK f \in [0 .. n -> Seq(E)] : f[0] = <<>> /\ \A i \in 1 .. n : f[i] = g[<<f[i - 1], i>>]
    <3>1. Steps(n, Seq(E), <<>>, g) # {} BY <1>0, <2>1, <2>2, StepsExist
    <3> QED BY <3>1 DEF Steps
  <2> DEFINE h == [i \in 1 .. n |-> f[i]]
  <2>4. h \in [1 .. n -> Seq(E)] BY <1>0
  <2>5. ASSUME NEW i \in 1 .. n PROVE h[i] = IF i = 1 THEN seqs[i] ELSE h[i - 1] \o seqs[i]
    <3>1. f[i - 1] \in Seq(E)
      <4>1. i - 1 \in 0 .. n BY <1>0
      <4> QED BY <4>1
    <3>2. f[i] = IF i = 1 THEN seqs[1] ELSE f[i - 1] \o seqs[i]
      <4>1. <<f[i - 1], i>> \in Seq(E) \X (1 .. n) BY <3>1
      <4> QED BY <2>3, <4>1 DEF g
    <3>3. CASE i = 1 BY <3>2, <3>3
    <3>4. CASE i # 1
      <4>1. i - 1 \in 1 .. n BY <1>0, <3>4
      <4> QED BY <3>2, <3>4, <4>1
    <3> QED BY <3>3, <3>4
  <2> HIDE DEF h
  <2>6. h = FlattenFrom(h, seqs)
    <3>1. h = [i \in 1 .. n |-> h[i]] BY <2>4
    <3> QED BY <2>5, <3>1 DEF FlattenFrom, n
  <2> QED BY <2>4, <2>6
<1> DEFINE flatten == CHOOSE f : f = [i \in 1 .. Len(seqs) |-> IF i = 1 THEN seqs[i] ELSE f[i - 1] \o seqs[i]]
<1>2. FlattenSeq(seqs) = flatten[Len(seqs)]
  BY Zenon DEF FlattenSeq
<1>3. flatten = FlattenFrom(flatten, seqs)
  BY <1>1 DEF FlattenFrom
<1> HIDE DEF flatten
<1>4. \A i \in 0 .. n : i = 0 \/ flatten[i] \in Seq(E)
  <2> DEFINE T == {i \in 0 .. n : i = 0 \/ flatten[i] \in Seq(E)}
  <2>1. ASSUME NEW i \in 0 .. n, i \in T, i < n PROVE i + 1 \in T
    <3>1. i + 1 \in 1 .. n /\ (i + 1) - 1 = i BY <1>0, <2>1
    <3>2. seqs[i + 1] \in Seq(E) BY <1>00, <3>1
    <3>3. flatten[i + 1] = IF i + 1 = 1 THEN seqs[i + 1] ELSE flatten[i] \o seqs[i + 1]
      BY <1>3, <3>1 DEF FlattenFrom
    <3>4. CASE i = 0 BY <3>1, <3>2, <3>3, <3>4
    <3>5. CASE i # 0
      <4>1. flatten[i] \in Seq(E) /\ i + 1 # 1 BY <2>1, <3>5
      <4>2. flatten[i] \o seqs[i + 1] \in Seq(E) BY <3>2, <4>1, ConcatProperties
      <4>3. flatten[i + 1] \in Seq(E) BY <3>3, <4>1, <4>2
      <4> QED BY <3>1, <4>3
    <3> QED BY <3>4, <3>5
  <2>2. 0 \in T BY <1>0
  <2> HIDE DEF T, n
  <2>3. \A i \in 0 .. n : i \in T BY <1>0, <2>1, <2>2, UpTo
  <2> QED BY <2>3 DEF T
<1>5. \A i \in 1 .. n : flatten[i] \in Seq(E) BY <1>0, <1>4
<1>6. flatten = [i \in 1 .. n |-> flatten[i]] BY <1>3 DEF FlattenFrom
<1>7. flatten \in [1 .. n -> Seq(E)] BY <1>5, <1>6
<1> QED BY <1>2, <1>3, <1>7

LEMMA FlattenType ==
  ASSUME NEW E, NEW seqs \in Seq(Seq(E))
  PROVE  FlattenSeq(seqs) \in Seq(E)
<1>1. CASE Len(seqs) = 0
  <2>1. seqs = <<>> BY <1>1
  <2>2. FlattenSeq(seqs) = <<>> BY <2>1, FlattenEmpty, Zenon
  <2> QED BY <2>2
<1>2. CASE Len(seqs) # 0
  <2>1. Len(seqs) \in 1 .. Len(seqs) BY <1>2, LenProperties
  <2> QED BY <1>2, <2>1, FlattenSteps
<1> QED BY <1>1, <1>2

LEMMA FlattenAppend ==
  ASSUME NEW E, NEW seqs \in Seq(Seq(E)), NEW s \in Seq(E)
  PROVE  FlattenSeq(Append(seqs, s)) = FlattenSeq(seqs) \o s
<1> DEFINE more == Append(seqs, s)
           n == Len(seqs)
<1>1. /\ n \in Nat /\ more \in Seq(Seq(E)) /\ Len(more) = n + 1
      /\ more[n + 1] = s /\ \A i \in 1 .. n : more[i] = seqs[i]
  BY LenProperties, AppendProperties
<1> HIDE DEF more
<1>2. PICK f \in [1 .. n + 1 -> Seq(E)] : f = FlattenFrom(f, more) /\ FlattenSeq(more) = f[n + 1]
  BY <1>1, FlattenSteps
<1>3. \A i \in 1 .. n + 1 : f[i] = IF i = 1 THEN more[i] ELSE f[i - 1] \o more[i]
  BY <1>1, <1>2 DEF FlattenFrom
<1>4. CASE n = 0
  <2>1. seqs = <<>> BY <1>4
  <2>2. FlattenSeq(more) = s BY <1>1, <1>2, <1>3, <1>4
  <2>3. FlattenSeq(seqs) = <<>> BY <2>1, FlattenEmpty
  <2>4. <<>> \o s = s BY ConcatEmptySeq
  <2> QED BY <2>2, <2>3, <2>4 DEF more
<1>5. CASE n # 0
  <2>1. PICK h \in [1 .. n -> Seq(E)] : h = FlattenFrom(h, seqs) /\ FlattenSeq(seqs) = h[n]
    BY <1>5, FlattenSteps
  <2>2. \A i \in 1 .. n : h[i] = IF i = 1 THEN seqs[i] ELSE h[i - 1] \o seqs[i]
    BY <2>1 DEF FlattenFrom
  <2> DEFINE T == {i \in 0 .. n : i = 0 \/ f[i] = h[i]}
  <2>3. ASSUME NEW i \in 0 .. n, i \in T, i < n PROVE i + 1 \in T
    <3>1. i + 1 \in 1 .. n /\ i + 1 \in 1 .. n + 1 /\ (i + 1) - 1 = i BY <1>1, <2>3
    <3>2. more[i + 1] = seqs[i + 1] BY <1>1, <3>1
    <3>3. f[i + 1] = IF i + 1 = 1 THEN more[i + 1] ELSE f[i] \o more[i + 1] BY <1>3, <3>1
    <3>4. h[i + 1] = IF i + 1 = 1 THEN seqs[i + 1] ELSE h[i] \o seqs[i + 1] BY <2>2, <3>1
    <3>5. CASE i = 0 BY <3>1, <3>2, <3>3, <3>4, <3>5
    <3>6. CASE i # 0
      <4>1. f[i] = h[i] BY <2>3, <3>6
      <4> QED BY <3>1, <3>2, <3>3, <3>4, <3>6, <4>1
    <3> QED BY <3>5, <3>6
  <2>4. 0 \in T BY <1>1
  <2> HIDE DEF T, n
  <2>5. \A i \in 0 .. n : i \in T BY <1>1, <2>3, <2>4, UpTo
  <2>6. f[n] = h[n] BY <1>1, <1>5, <2>5 DEF T
  <2>7. n + 1 \in 1 .. n + 1 /\ n + 1 # 1 /\ (n + 1) - 1 = n BY <1>1, <1>5
  <2>8. f[n + 1] = f[n] \o s BY <1>1, <1>3, <2>7
  <2> QED BY <1>2, <2>1, <2>6, <2>8 DEF more
<1> QED BY <1>4, <1>5

(* What the first i parts make. *)
Flat(parts, i) == FlattenSeq([j \in 1 .. i |-> parts[j]])

LEMMA FlatParts ==
  ASSUME NEW E, NEW parts \in Seq(Seq(E)), NEW k \in Nat, k = Len(parts)
  PROVE  /\ Flat(parts, 0) = <<>>
         /\ \A i \in 0 .. k : Flat(parts, i) \in Seq(E)
         /\ \A i \in 1 .. k : Flat(parts, i) = Flat(parts, i - 1) \o parts[i]
         /\ Flat(parts, k) = FlattenSeq(parts)
<1> DEFINE FirstBytes(i) == [j \in 1 .. i |-> parts[j]]
<1>1. ASSUME NEW i \in 0 .. k PROVE FirstBytes(i) \in Seq(Seq(E)) /\ Len(FirstBytes(i)) = i
  <2>1. \A j \in 1 .. i : parts[j] \in Seq(E) BY ElementOfSeq
  <2> QED BY <2>1
<1>2. ASSUME NEW i \in 1 .. k PROVE FirstBytes(i) = Append(FirstBytes(i - 1), parts[i])
  <2>1. i - 1 \in 0 .. k /\ i \in 0 .. k OBVIOUS
  <2>2. parts[i] \in Seq(E) BY ElementOfSeq
  <2>3. PICK more : more = Append(FirstBytes(i - 1), parts[i]) OBVIOUS
  <2>4. /\ more \in Seq(Seq(E)) /\ Len(more) = i
        /\ \A j \in 1 .. i - 1 : more[j] = FirstBytes(i - 1)[j]
        /\ more[i] = parts[i]
    <3>1. FirstBytes(i - 1) \in Seq(Seq(E)) /\ Len(FirstBytes(i - 1)) = i - 1 BY <1>1, <2>1
    <3>2. (i - 1) + 1 = i OBVIOUS
    <3> HIDE DEF FirstBytes
    <3> QED BY <2>2, <2>3, <3>1, <3>2, AppendProperties
  <2>5. FirstBytes(i) \in Seq(Seq(E)) /\ Len(FirstBytes(i)) = i BY <1>1, <2>1
  <2>6. ASSUME NEW j \in 1 .. i PROVE FirstBytes(i)[j] = more[j]
    <3>1. FirstBytes(i)[j] = parts[j] OBVIOUS
    <3>2. j # i => j \in 1 .. i - 1 /\ FirstBytes(i - 1)[j] = parts[j] OBVIOUS
    <3> HIDE DEF FirstBytes
    <3> QED BY <2>4, <3>1, <3>2
  <2> HIDE DEF FirstBytes
  <2>7. FirstBytes(i) = more BY <2>4, <2>5, <2>6, SeqEqual
  <2> QED BY <2>3, <2>7
<1>3. FirstBytes(0) = <<>>
  <2>1. Len(FirstBytes(0)) = 0 /\ FirstBytes(0) \in Seq(Seq(E))
    <3>1. 0 \in 0 .. k OBVIOUS
    <3> QED BY <1>1, <3>1
  <2> HIDE DEF FirstBytes
  <2> QED BY <2>1, EmptySeq
<1>4. FirstBytes(k) = parts BY LenProperties
<1>5. \A i : Flat(parts, i) = FlattenSeq(FirstBytes(i)) BY Zenon DEF Flat
<1> HIDE DEF FirstBytes
<1>6. Flat(parts, 0) = <<>> BY <1>3, <1>5, FlattenEmpty
<1>7. \A i \in 0 .. k : Flat(parts, i) \in Seq(E) BY <1>1, <1>5, FlattenType
<1>8. ASSUME NEW i \in 1 .. k PROVE Flat(parts, i) = Flat(parts, i - 1) \o parts[i]
  <2>1. i - 1 \in 0 .. k OBVIOUS
  <2>2. FirstBytes(i - 1) \in Seq(Seq(E)) /\ parts[i] \in Seq(E) BY <1>1, <2>1, ElementOfSeq
  <2>3. FlattenSeq(Append(FirstBytes(i - 1), parts[i])) = FlattenSeq(FirstBytes(i - 1)) \o parts[i]
    BY <2>2, FlattenAppend
  <2> QED BY <1>2, <1>5, <2>3
<1>9. Flat(parts, k) = FlattenSeq(parts) BY <1>4, <1>5
<1> QED BY <1>6, <1>7, <1>8, <1>9

-----------------------------------------------------------------------------
(* Chunk streams and parameter sets are read back. *)

(* A chunk stream is read as it was wire, whichever form its number takes. *)
LEMMA HeadReadBack ==
  ASSUME NEW format \in 0 .. 3, NEW csID \in Nat, csID >= 2, (csID - 64) \div 256 <= 255
  PROVE  ReadBasicHeader(BasicHeader(format, csID)) = [format |-> format, csID |-> csID]
<1>1. PICK bytes : bytes = BasicHeader(format, csID) OBVIOUS
<1>2. PICK low : low = bytes[1] % 64 OBVIOUS
<1>3. PICK number : number = IF low = 0 THEN 64 + bytes[2]
                             ELSE IF low = 1 THEN 64 + bytes[2] + 256 * bytes[3] ELSE low
  OBVIOUS
<1>4. ReadBasicHeader(bytes) = [format |-> bytes[1] \div 64, csID |-> number]
  BY <1>2, <1>3 DEF ReadBasicHeader
<1>5. bytes[1] \div 64 = format /\ number = csID
  <2>1. CASE csID < 64
    <3>1. bytes[1] = format * 64 + csID BY <1>1, <2>1 DEF BasicHeader
    <3>2. (format * 64 + csID) \div 64 = format /\ (format * 64 + csID) % 64 = csID BY <2>1
    <3>3. low = csID /\ csID # 0 /\ csID # 1 BY <1>2, <3>1, <3>2
    <3>4. number = csID BY <1>3, <3>3
    <3> QED BY <3>1, <3>2, <3>4
  <2>2. CASE csID \in 64 .. 319
    <3>1. bytes[1] = format * 64 /\ bytes[2] = csID - 64 BY <1>1, <2>2 DEF BasicHeader
    <3>2. (format * 64) \div 64 = format /\ (format * 64) % 64 = 0 OBVIOUS
    <3>3. low = 0 BY <1>2, <3>1, <3>2
    <3>4. number = 64 + bytes[2] BY <1>3, <3>3
    <3>5. number = csID BY <3>1, <3>4
    <3> QED BY <3>1, <3>2, <3>5
  <2>3. CASE csID >= 320
    <3>1. /\ bytes[1] = format * 64 + 1 /\ bytes[2] = (csID - 64) % 256
          /\ bytes[3] = ((csID - 64) \div 256) % 256
      BY <1>1, <2>3 DEF BasicHeader
    <3>2. (format * 64 + 1) \div 64 = format /\ (format * 64 + 1) % 64 = 1 OBVIOUS
    <3>3. low = 1 BY <1>2, <3>1, <3>2
    <3>4. number = 64 + bytes[2] + 256 * bytes[3] BY <1>3, <3>3
    <3>5. 64 + ((csID - 64) % 256) + 256 * (((csID - 64) \div 256) % 256) = csID BY <2>3
    <3>6. number = csID BY <3>1, <3>4, <3>5
    <3> QED BY <3>1, <3>2, <3>6
  <2> QED BY <2>1, <2>2, <2>3
<1> QED BY <1>1, <1>4, <1>5

(* A part of a sequence that agrees with another sequence is that sequence. *)
LEMMA PartIs ==
  ASSUME NEW E, NEW s \in Seq(E), NEW t \in Seq(E), NEW k \in Nat, k + Len(t) <= Len(s),
         \A i \in 1 .. Len(t) : s[k + i] = t[i]
  PROVE  SubSeq(s, k + 1, k + Len(t)) = t
<1> DEFINE part == SubSeq(s, k + 1, k + Len(t))
<1>1. Len(t) \in Nat /\ Len(s) \in Nat /\ \A i \in k + 1 .. k + Len(t) : s[i] \in E
  BY LenProperties, ElementOfSeq
<1>2. k + 1 \in Int /\ k + Len(t) \in Int BY <1>1
<1>3. /\ part \in Seq(E)
      /\ Len(part) = IF k + 1 <= k + Len(t) THEN (k + Len(t)) - (k + 1) + 1 ELSE 0
      /\ \A i \in 1 .. (k + Len(t)) - (k + 1) + 1 : part[i] = s[(k + 1) + i - 1]
  BY <1>1, <1>2, SubSeqProperties
<1> HIDE DEF part
<1>4. Len(part) = Len(t) BY <1>1, <1>3
<1>5. ASSUME NEW i \in 1 .. Len(part) PROVE part[i] = t[i]
  <2>1. i \in 1 .. Len(t) /\ i \in 1 .. (k + Len(t)) - (k + 1) + 1 /\ (k + 1) + i - 1 = k + i BY <1>1, <1>4
  <2> QED BY <1>3, <2>1
<1>6. part = t BY <1>3, <1>4, <1>5, SeqEqual
<1> QED BY <1>6 DEF part

(* r is s with t behind it, of n and m elements. *)
Joins(r, s, t, n, m, E) ==
    /\ n \in Nat /\ m \in Nat /\ r \in Seq(E) /\ Len(r) = n + m
    /\ \A i \in 1 .. n : r[i] = s[i]
    /\ \A i \in 1 .. m : r[n + i] = t[i]

LEMMA Joined ==
  ASSUME NEW E, NEW s \in Seq(E), NEW t \in Seq(E)
  PROVE  Joins(s \o t, s, t, Len(s), Len(t), E)
<1>1. PICK n \in Nat : n = Len(s) BY LenProperties
<1>2. PICK m \in Nat : m = Len(t) BY LenProperties
<1>3. \A i \in 1 .. n : i \in 1 .. n + m /\ i <= n OBVIOUS
<1>4. \A i \in 1 .. m : n + i \in 1 .. n + m /\ ~(n + i <= n) /\ (n + i) - n = i OBVIOUS
<1>5. /\ s \o t \in Seq(E) /\ Len(s \o t) = n + m
      /\ \A i \in 1 .. n + m : (s \o t)[i] = IF i <= n THEN s[i] ELSE t[i - n]
  BY <1>1, <1>2, ConcatProperties
<1> QED BY <1>1, <1>2, <1>3, <1>4, <1>5 DEF Joins

(* The sets a configuration record holds. *)
Holds(header, sps, pps) ==
    LET at == 8 + header[7]
    IN  /\ SubSeq(header, 8, at - 1) = sps
        /\ SubSeq(header, at + 2, at + 1 + header[at + 1]) = pps

LEMMA HeaderReadBack ==
  ASSUME NEW sps \in Seq(Nat), NEW pps \in Seq(Nat), Len(sps) >= 4
  PROVE  Holds(SequenceHeader(sps, pps), sps, pps)
<1>h. PICK header : header = SequenceHeader(sps, pps) OBVIOUS
<1>a. PICK at : at = 8 + header[7] OBVIOUS
<1>1. PICK n \in Nat : n = Len(sps) BY LenProperties
<1>2. PICK m \in Nat : m = Len(pps) BY LenProperties
<1>3. PICK front : front = <<1, sps[2], sps[3], sps[4], 255, 225, n>> OBVIOUS
<1>4. PICK mid : mid = <<1, m>> OBVIOUS
<1>5. /\ front \in Seq(Nat) /\ Len(front) = 7 /\ front[7] = n
  <2>1. sps[2] \in Nat /\ sps[3] \in Nat /\ sps[4] \in Nat BY <1>1, ElementOfSeq
  <2> QED BY <1>3, <2>1
<1>6. mid \in Seq(Nat) /\ Len(mid) = 2 /\ mid[2] = m BY <1>4
<1>7. PICK a : a = front \o sps OBVIOUS
<1>8. PICK b : b = a \o mid OBVIOUS
<1>9. header = b \o pps
  BY <1>h, <1>1, <1>2, <1>3, <1>4, <1>7, <1>8, Zenon DEF SequenceHeader
<1>10. Joins(a, front, sps, 7, n, Nat) BY <1>1, <1>5, <1>7, Joined
<1>11. a \in Seq(Nat) /\ Len(a) = 7 + n BY <1>10 DEF Joins
<1>12. Joins(b, a, mid, 7 + n, 2, Nat) BY <1>6, <1>8, <1>11, Joined
<1>13. PICK o \in Nat : o = (7 + n) + 2 OBVIOUS
<1>14. b \in Seq(Nat) /\ Len(b) = o BY <1>12, <1>13 DEF Joins
<1>15. Joins(header, b, pps, o, m, Nat) BY <1>2, <1>9, <1>14, Joined
<1>16. \A i \in 1 .. 7 + n : header[i] = a[i]
  <2>1. \A i \in 1 .. 7 + n : i \in 1 .. o BY <1>13
  <2> QED BY <1>12, <1>15, <2>1 DEF Joins
<1>17. at = 8 + n
  <2>1. 7 \in 1 .. 7 + n /\ 7 \in 1 .. 7 OBVIOUS
  <2>2. header[7] = a[7] BY <1>16, <2>1
  <2>3. a[7] = front[7] BY <1>10, <2>1 DEF Joins
  <2> QED BY <1>a, <1>5, <2>2, <2>3
<1>18. header[o] = m
  <2>1. o \in 1 .. o /\ 2 \in 1 .. 2 BY <1>13
  <2>2. b[o] = mid[2] BY <1>12, <1>13, <2>1 DEF Joins
  <2> QED BY <1>6, <1>15, <2>1, <2>2 DEF Joins
<1>19. header \in Seq(Nat) /\ Len(header) = o + m BY <1>15 DEF Joins
<1>20. SubSeq(header, 7 + 1, 7 + Len(sps)) = sps
  <2>1. ASSUME NEW i \in 1 .. Len(sps) PROVE header[7 + i] = sps[i]
    <3>1. 7 + i \in 1 .. 7 + n /\ i \in 1 .. n BY <1>1
    <3> QED BY <1>10, <1>16, <3>1 DEF Joins
  <2>2. 7 + Len(sps) <= Len(header) BY <1>1, <1>13, <1>19
  <2> QED BY <1>19, <2>1, <2>2, PartIs
<1>21. SubSeq(header, o + 1, o + Len(pps)) = pps
  <2>1. \A i \in 1 .. Len(pps) : header[o + i] = pps[i] BY <1>2, <1>15 DEF Joins
  <2>2. o + Len(pps) <= Len(header) BY <1>2, <1>19
  <2> QED BY <1>19, <2>1, <2>2, PartIs
<1>22. at - 1 = 7 + n /\ at + 2 = o + 1 /\ at + 1 = o BY <1>13, <1>17
<1>23. at + 1 + header[at + 1] = o + m BY <1>18, <1>22
<1>24. SubSeq(header, 8, at - 1) = sps
  <2>1. 7 + 1 = 8 OBVIOUS
  <2>2. SubSeq(header, 8, 7 + n) = sps BY <1>1, <1>20, <2>1, Zenon
  <2> QED BY <1>22, <2>2, Zenon
<1>25. SubSeq(header, at + 2, at + 1 + header[at + 1]) = pps BY <1>2, <1>21, <1>22, <1>23
<1>26. Holds(header, sps, pps) BY <1>a, <1>24, <1>25, Zenon DEF Holds
<1> QED BY <1>h, <1>26, Zenon

-----------------------------------------------------------------------------
(* A stream number is found in an answer. *)

(* Where a value, or the rest of an object, ends, from where later ones do. *)
SkipBody(end, tokens, what, i) ==
    IF i > Len(tokens) THEN 0
    ELSE IF what = "value"
    THEN IF tokens[i] \in Scalars THEN i + 1
         ELSE IF tokens[i] = "object" THEN end[<<"entries", i + 1>>] ELSE 0
    ELSE IF tokens[i] = "end" THEN i + 1
    ELSE LET next == IF tokens[i] = "key" THEN end[<<"value", i + 1>>] ELSE 0
         IN  IF next = 0 THEN 0 ELSE end[<<"entries", next>>]

Parts == {"value", "entries"}
SkipAll(end, tokens, n) == [p \in Parts \X (1 .. n + 1) |-> SkipBody(end, tokens, p[1], p[2])]
Skips(end, tokens, n) == end = SkipAll(end, tokens, n)

(* end is right from place j on: nothing ends before it begins. *)
SkipsFrom(end, tokens, n, j) ==
    \A what \in Parts : \A i \in 1 .. n + 1 : i >= j =>
        /\ end[<<what, i>>] = SkipBody(end, tokens, what, i)
        /\ end[<<what, i>>] \in {0} \union (i + 1 .. n + 1)

LEMMA BodyOfValue ==
  ASSUME NEW f, NEW tokens, NEW i, ~(i > Len(tokens))
  PROVE  SkipBody(f, tokens, "value", i) =
            IF tokens[i] \in Scalars THEN i + 1
            ELSE IF tokens[i] = "object" THEN f[<<"entries", i + 1>>] ELSE 0
BY DEF SkipBody

LEMMA BodyOfEntries ==
  ASSUME NEW f, NEW tokens, NEW i, ~(i > Len(tokens))
  PROVE  SkipBody(f, tokens, "entries", i) =
            IF tokens[i] = "end" THEN i + 1
            ELSE IF tokens[i] = "key" /\ f[<<"value", i + 1>>] # 0
            THEN f[<<"entries", f[<<"value", i + 1>>]>>] ELSE 0
BY DEF SkipBody

LEMMA SkipBack ==
  ASSUME NEW tokens, NEW n \in Nat, n = Len(tokens), NEW j \in 1 .. n + 1,
         NEW f, SkipsFrom(f, tokens, n, j + 1),
         NEW g, g = SkipAll(f, tokens, n)
  PROVE  SkipsFrom(g, tokens, n, j)
<1>1. ASSUME NEW what \in Parts, NEW i \in 1 .. n + 1 PROVE g[<<what, i>>] = SkipBody(f, tokens, what, i)
  BY DEF SkipAll
<1>2. ASSUME NEW what \in Parts, NEW i \in 1 .. n + 1, i >= j + 1 PROVE g[<<what, i>>] = f[<<what, i>>]
  BY <1>1, <1>2 DEF SkipsFrom
<1>3. ASSUME NEW what \in Parts, NEW i \in 1 .. n + 1, i >= j
      PROVE  /\ SkipBody(g, tokens, what, i) = SkipBody(f, tokens, what, i)
             /\ SkipBody(f, tokens, what, i) \in {0} \union (i + 1 .. n + 1)
  <2>1. CASE i > n BY <2>1 DEF SkipBody
  <2>2. CASE i <= n
    <3>0. ~(i > Len(tokens)) BY <2>2
    <3>1. i + 1 \in 1 .. n + 1 /\ i + 1 >= j + 1 /\ "value" \in Parts /\ "entries" \in Parts
      BY <1>3, <2>2 DEF Parts
    <3>2. PICK v : v = f[<<"value", i + 1>>] OBVIOUS
    <3>3. PICK e : e = f[<<"entries", i + 1>>] OBVIOUS
    <3>4. g[<<"value", i + 1>>] = v /\ g[<<"entries", i + 1>>] = e BY <1>2, <3>1, <3>2, <3>3
    <3>5. v \in {0} \union (i + 2 .. n + 1) /\ e \in {0} \union (i + 2 .. n + 1)
      BY <3>1, <3>2, <3>3 DEF SkipsFrom
    <3>6. ASSUME v # 0
          PROVE  /\ g[<<"entries", v>>] = f[<<"entries", v>>]
                  /\ f[<<"entries", v>>] \in {0} \union (v + 1 .. n + 1)
      <4>1. v \in 1 .. n + 1 /\ v >= j + 1 BY <1>3, <3>5, <3>6
      <4> QED BY <1>2, <3>1, <4>1 DEF SkipsFrom
    <3>7. CASE what = "value"
      <4>1. SkipBody(f, tokens, "value", i) = IF tokens[i] \in Scalars THEN i + 1
                                              ELSE IF tokens[i] = "object" THEN e ELSE 0
        BY <3>0, <3>3, BodyOfValue
      <4>2. SkipBody(g, tokens, "value", i) = IF tokens[i] \in Scalars THEN i + 1
                                              ELSE IF tokens[i] = "object" THEN e ELSE 0
        BY <3>0, <3>4, BodyOfValue
      <4> QED BY <2>2, <3>5, <3>7, <4>1, <4>2
    <3>8. CASE what = "entries"
      <4>1. SkipBody(f, tokens, "entries", i) =
              IF tokens[i] = "end" THEN i + 1
              ELSE IF tokens[i] = "key" /\ v # 0 THEN f[<<"entries", v>>] ELSE 0
        BY <3>0, <3>2, BodyOfEntries, Zenon
      <4>2. SkipBody(g, tokens, "entries", i) =
              IF tokens[i] = "end" THEN i + 1
              ELSE IF tokens[i] = "key" /\ v # 0 THEN g[<<"entries", v>>] ELSE 0
        BY <3>0, <3>4, BodyOfEntries, Zenon
      <4>3. v # 0 => f[<<"entries", v>>] \in {0} \union (i + 1 .. n + 1)
        BY <3>5, <3>6
      <4> QED BY <2>2, <3>6, <3>8, <4>1, <4>2, <4>3
    <3> QED BY <3>7, <3>8 DEF Parts
  <2> QED BY <2>1, <2>2
<1> QED BY <1>1, <1>3 DEF SkipsFrom

(* The recursion over the tokens has a solution. *)
LEMMA SkipsExist ==
  ASSUME NEW tokens, NEW n \in Nat, n = Len(tokens)
  PROVE  \E f : Skips(f, tokens, n)
<1> DEFINE T == {k \in Nat : \E f : SkipsFrom(f, tokens, n, n + 2 - k)}
<1>1. 0 \in T
  <2>1. SkipsFrom(0, tokens, n, n + 2) BY DEF SkipsFrom
  <2>2. n + 2 - 0 = n + 2 OBVIOUS
  <2> QED BY <2>1, <2>2
<1>2. ASSUME NEW k \in 0 .. n + 1, k \in T, k < n + 1 PROVE k + 1 \in T
  <2>1. PICK f : SkipsFrom(f, tokens, n, n + 2 - k) BY <1>2
  <2>2. PICK j \in 1 .. n + 1 : j = n + 1 - k BY <1>2
  <2>3. j + 1 = n + 2 - k /\ n + 2 - (k + 1) = j BY <2>2
  <2>4. PICK g : g = SkipAll(f, tokens, n) OBVIOUS
  <2>5. SkipsFrom(g, tokens, n, j) BY <2>1, <2>3, <2>4, SkipBack
  <2> QED BY <2>3, <2>5
<1> HIDE DEF T
<1>3. n + 1 \in Nat /\ n + 1 \in 0 .. n + 1 OBVIOUS
<1>4. n + 1 \in T BY <1>1, <1>2, <1>3, UpTo
<1>5. PICK f : SkipsFrom(f, tokens, n, n + 2 - (n + 1)) BY <1>4 DEF T
<1>6. SkipsFrom(f, tokens, n, 1)
  <2>1. n + 2 - (n + 1) = 1 OBVIOUS
  <2> QED BY <1>5, <2>1
<1>7. PICK g : g = SkipAll(f, tokens, n) OBVIOUS
<1>8. SkipsFrom(g, tokens, n, 1)
  <2>1. SkipsFrom(f, tokens, n, 1 + 1) BY <1>6 DEF SkipsFrom
  <2>2. 1 \in 1 .. n + 1 OBVIOUS
  <2> QED BY <1>7, <2>1, <2>2, SkipBack
<1>9. ASSUME NEW p \in Parts \X (1 .. n + 1) PROVE g[p] = SkipBody(g, tokens, p[1], p[2])
  <2>1. p = <<p[1], p[2]>> /\ p[1] \in Parts /\ p[2] \in 1 .. n + 1 /\ p[2] >= 1 OBVIOUS
  <2>2. g[<<p[1], p[2]>>] = SkipBody(g, tokens, p[1], p[2]) BY <1>8, <2>1 DEF SkipsFrom
  <2> QED BY <2>1, <2>2
<1>10. g = SkipAll(g, tokens, n)
  <2>1. g = [p \in Parts \X (1 .. n + 1) |-> g[p]] BY <1>7 DEF SkipAll
  <2> QED BY <1>9, <2>1 DEF SkipAll
<1> QED BY <1>10 DEF Skips

(* What the skipping rules say of one place. *)
SkipRules(end, tokens, n) ==
    \A i \in 1 .. n :
       /\ tokens[i] \in Scalars => end[<<"value", i>>] = i + 1
       /\ tokens[i] = "object" => end[<<"value", i>>] = end[<<"entries", i + 1>>]
       /\ tokens[i] = "end" => end[<<"entries", i>>] = i + 1
       /\ tokens[i] = "key" /\ end[<<"value", i + 1>>] # 0
             => end[<<"entries", i>>] = end[<<"entries", end[<<"value", i + 1>>]>>]

Tokens == Scalars \union {"object", "key", "end"}

LEMMA Skipped ==
  ASSUME NEW tokens \in Seq(Tokens), NEW n \in Nat, n = Len(tokens), n # 0
  PROVE  \E end : SkipRules(end, tokens, n) /\ SkipFrom(tokens)[1] = end[<<"value", 1>>]
<1> DEFINE end == CHOOSE f : f = [p \in {"value", "entries"} \X (1 .. Len(tokens) + 1) |->
             IF p[2] > Len(tokens) THEN 0
             ELSE IF p[1] = "value"
             THEN IF tokens[p[2]] \in Scalars THEN p[2] + 1
                  ELSE IF tokens[p[2]] = "object" THEN f[<<"entries", p[2] + 1>>] ELSE 0
             ELSE IF tokens[p[2]] = "end" THEN p[2] + 1
             ELSE LET next == IF tokens[p[2]] = "key" THEN f[<<"value", p[2] + 1>>] ELSE 0
                  IN  IF next = 0 THEN 0 ELSE f[<<"entries", next>>]]
<1>1. SkipFrom(tokens) = [i \in 1 .. Len(tokens) |-> end[<<"value", i>>]]
  BY Zenon DEF SkipFrom
<1>2. end = CHOOSE f : Skips(f, tokens, Len(tokens))
  BY Zenon DEF Skips, SkipAll, SkipBody, Parts
<1> HIDE DEF end
<1>3. Skips(end, tokens, n)
  <2>1. \E f : Skips(f, tokens, Len(tokens)) BY SkipsExist
  <2> QED BY <1>2, <2>1, Zenon
<1>4. ASSUME NEW what \in Parts, NEW i \in 1 .. n + 1
      PROVE  end[<<what, i>>] = SkipBody(end, tokens, what, i)
  <2>1. end = SkipAll(end, tokens, n) BY <1>3 DEF Skips
  <2>2. SkipAll(end, tokens, n)[<<what, i>>] = SkipBody(end, tokens, what, i) BY DEF SkipAll
  <2> QED BY <2>1, <2>2
<1>5. SkipRules(end, tokens, n)
  <2> SUFFICES ASSUME NEW i \in 1 .. n
      PROVE  /\ tokens[i] \in Scalars => end[<<"value", i>>] = i + 1
             /\ tokens[i] = "object" => end[<<"value", i>>] = end[<<"entries", i + 1>>]
             /\ tokens[i] = "end" => end[<<"entries", i>>] = i + 1
             /\ tokens[i] = "key" /\ end[<<"value", i + 1>>] # 0
                   => end[<<"entries", i>>] = end[<<"entries", end[<<"value", i + 1>>]>>]
    BY DEF SkipRules
  <2>1. i \in 1 .. n + 1 /\ ~(i > Len(tokens)) /\ "value" \in Parts /\ "entries" \in Parts BY DEF Parts
  <2>2. end[<<"value", i>>] = SkipBody(end, tokens, "value", i) BY <1>4, <2>1
  <2>3. end[<<"entries", i>>] = SkipBody(end, tokens, "entries", i) BY <1>4, <2>1
  <2>4. end[<<"value", i>>] = IF tokens[i] \in Scalars THEN i + 1
                           ELSE IF tokens[i] = "object" THEN end[<<"entries", i + 1>>] ELSE 0
    BY <2>1, <2>2, BodyOfValue
  <2>5. end[<<"entries", i>>] =
          IF tokens[i] = "end" THEN i + 1
          ELSE IF tokens[i] = "key" /\ end[<<"value", i + 1>>] # 0
          THEN end[<<"entries", end[<<"value", i + 1>>]>>] ELSE 0
    BY <2>1, <2>3, BodyOfEntries
  <2> QED BY <2>4, <2>5 DEF Scalars
<1>6. SkipFrom(tokens)[1] = end[<<"value", 1>>]
  <2>1. 1 \in 1 .. Len(tokens) OBVIOUS
  <2> QED BY <1>1, <2>1
<1> QED BY <1>5, <1>6

(* Whatever follows these k tokens, the value they begin with ends behind them. *)
EndsBehind(info, k) ==
    \A end, tokens : SkipRules(end, tokens, k + 1) /\ (\A i \in 1 .. k : tokens[i] = info[i])
                        => end[<<"value", 1>>] = k + 1

LEMMA AnswerFound ==
  ASSUME NEW info \in Seq(Tokens), NEW k \in Nat \ {0}, k = Len(info),
         info[1] \in {"null", "object"}, EndsBehind(info, k)
  PROVE  StreamIDAt(info \o <<"number">>) = k + 1
<1>1. PICK tokens : tokens = info \o <<"number">> OBVIOUS
<1>2. PICK number : number = <<"number">> OBVIOUS
<1>3. number \in Seq(Tokens) /\ Len(number) = 1 /\ number[1] = "number" BY <1>2 DEF Tokens, Scalars
<1>4. Joins(tokens, info, number, k, 1, Tokens)
  <2>1. tokens = info \o number BY <1>1, <1>2
  <2> QED BY <1>3, <2>1, Joined
<1>5. /\ tokens \in Seq(Tokens) /\ Len(tokens) = k + 1 /\ k + 1 \in Nat /\ k + 1 # 0
      /\ \A i \in 1 .. k : tokens[i] = info[i]
      /\ tokens[k + 1] = "number"
  BY <1>3, <1>4 DEF Joins
<1>6. PICK end : SkipRules(end, tokens, k + 1) /\ SkipFrom(tokens)[1] = end[<<"value", 1>>]
  BY <1>5, Skipped
<1>7. SkipFrom(tokens)[1] = k + 1 BY <1>5, <1>6, Zenon DEF EndsBehind
<1>8. tokens # <<>> /\ tokens[1] \in {"null", "object"}
  <2>1. 1 \in 1 .. k OBVIOUS
  <2> QED BY <1>5, <2>1
<1>9. StreamIDAt(tokens) = k + 1
  <2>1. PICK next : next = IF tokens = <<>> \/ tokens[1] \notin {"null", "object"} THEN 0
                            ELSE SkipFrom(tokens)[1]
    OBVIOUS
  <2>2. next = k + 1 BY <1>7, <1>8, <2>1, Zenon
  <2>3. StreamIDAt(tokens) = IF next \in 1 .. Len(tokens) /\ tokens[next] = "number" THEN next ELSE 0
    BY <2>1, Zenon DEF StreamIDAt
  <2>4. next \in 1 .. Len(tokens) /\ tokens[next] = "number" BY <1>5, <2>2
  <2> QED BY <2>2, <2>3, <2>4, Zenon
<1> QED BY <1>1, <1>9

LEMMA AnswersFound ==
  ASSUME NEW info \in {<<"null">>} \union AmfObjects
  PROVE  StreamIDAt(info \o <<"number">>) = Len(info) + 1
<1>0. ASSUME NEW k \in Nat \ {0}, info \in Seq(Tokens), k = Len(info),
             info[1] \in {"null", "object"}, EndsBehind(info, k)
      PROVE  StreamIDAt(info \o <<"number">>) = Len(info) + 1
  BY <1>0, AnswerFound
<1>1. CASE info = <<"null">>
  <2>1. EndsBehind(info, 1)
    <3> SUFFICES ASSUME NEW end, NEW tokens, SkipRules(end, tokens, 1 + 1),
                        \A i \in 1 .. 1 : tokens[i] = info[i]
        PROVE  end[<<"value", 1>>] = 1 + 1
      BY DEF EndsBehind
    <3>1. tokens[1] = "null" BY <1>1
    <3> QED BY <3>1 DEF SkipRules, Scalars
  <2>2. info \in Seq(Tokens) /\ Len(info) = 1 /\ info[1] = "null" BY <1>1 DEF Tokens, Scalars
  <2> QED BY <1>0, <2>1, <2>2
<1>2. CASE info = <<"object", "end">>
  <2>1. EndsBehind(info, 2)
    <3> SUFFICES ASSUME NEW end, NEW tokens, SkipRules(end, tokens, 2 + 1),
                        \A i \in 1 .. 2 : tokens[i] = info[i]
        PROVE  end[<<"value", 1>>] = 2 + 1
      BY DEF EndsBehind
    <3>1. tokens[1] = "object" /\ tokens[2] = "end" BY <1>2
    <3>2. end[<<"value", 1>>] = end[<<"entries", 2>>] BY <3>1 DEF SkipRules
    <3>3. end[<<"entries", 2>>] = 3 BY <3>1 DEF SkipRules
    <3> QED BY <3>2, <3>3
  <2>2. info \in Seq(Tokens) /\ Len(info) = 2 /\ info[1] = "object" BY <1>2 DEF Tokens, Scalars
  <2> QED BY <1>0, <2>1, <2>2
<1>3. CASE info = <<"object", "key", "string", "key", "bool", "end">>
  <2>1. EndsBehind(info, 6)
    <3> SUFFICES ASSUME NEW end, NEW tokens, SkipRules(end, tokens, 6 + 1),
                        \A i \in 1 .. 6 : tokens[i] = info[i]
        PROVE  end[<<"value", 1>>] = 6 + 1
      BY DEF EndsBehind
    <3>1. /\ tokens[1] = "object" /\ tokens[2] = "key" /\ tokens[3] = "string"
          /\ tokens[4] = "key" /\ tokens[5] = "bool" /\ tokens[6] = "end"
      BY <1>3
    <3>2. end[<<"value", 1>>] = end[<<"entries", 2>>] BY <3>1 DEF SkipRules
    <3>3. end[<<"value", 3>>] = 4 /\ end[<<"value", 5>>] = 6 BY <3>1 DEF SkipRules, Scalars
    <3>4. end[<<"entries", 2>>] = end[<<"entries", 4>>] BY <3>1, <3>3 DEF SkipRules
    <3>5. end[<<"entries", 4>>] = end[<<"entries", 6>>] BY <3>1, <3>3 DEF SkipRules
    <3>6. end[<<"entries", 6>>] = 7 BY <3>1 DEF SkipRules
    <3> QED BY <3>2, <3>4, <3>5, <3>6
  <2>2. info \in Seq(Tokens) /\ Len(info) = 6 /\ info[1] = "object" BY <1>3 DEF Tokens, Scalars
  <2> QED BY <1>0, <2>1, <2>2
<1>4. CASE info = <<"object", "key", "object", "key", "null", "end", "key", "number", "end">>
  <2>1. EndsBehind(info, 9)
    <3> SUFFICES ASSUME NEW end, NEW tokens, SkipRules(end, tokens, 9 + 1),
                        \A i \in 1 .. 9 : tokens[i] = info[i]
        PROVE  end[<<"value", 1>>] = 9 + 1
      BY DEF EndsBehind
    <3>1. /\ tokens[1] = "object" /\ tokens[2] = "key" /\ tokens[3] = "object"
          /\ tokens[4] = "key" /\ tokens[5] = "null" /\ tokens[6] = "end"
          /\ tokens[7] = "key" /\ tokens[8] = "number" /\ tokens[9] = "end"
      BY <1>4
    <3>2. end[<<"value", 1>>] = end[<<"entries", 2>>] BY <3>1 DEF SkipRules
    <3>3. end[<<"value", 5>>] = 6 /\ end[<<"value", 8>>] = 9 BY <3>1 DEF SkipRules, Scalars
    <3>4. end[<<"entries", 6>>] = 7 /\ end[<<"entries", 9>>] = 10 BY <3>1 DEF SkipRules
    <3>5. end[<<"value", 3>>] = end[<<"entries", 4>>] BY <3>1 DEF SkipRules
    <3>6. end[<<"entries", 4>>] = 7
      <4>1. end[<<"entries", 4>>] = end[<<"entries", 6>>] BY <3>1, <3>3 DEF SkipRules
      <4> QED BY <3>4, <4>1
    <3>7. end[<<"entries", 2>>] = end[<<"entries", 7>>]
      <4>1. end[<<"value", 3>>] = 7 BY <3>5, <3>6
      <4> QED BY <3>1, <4>1 DEF SkipRules
    <3>8. end[<<"entries", 7>>] = end[<<"entries", 9>>] BY <3>1, <3>3 DEF SkipRules
    <3> QED BY <3>2, <3>4, <3>7, <3>8
  <2>2. info \in Seq(Tokens) /\ Len(info) = 9 /\ info[1] = "object" BY <1>4 DEF Tokens, Scalars
  <2> QED BY <1>0, <2>1, <2>2
<1> QED BY <1>1, <1>2, <1>3, <1>4 DEF AmfObjects

-----------------------------------------------------------------------------
(* Transport packets carry the data. *)

(* Packets *)
LEMMA PacketsMade ==
  ASSUME NEW n \in Nat, NEW r \in Nat \ {0}, NEW k, k = (n + r - 1) \div r
  PROVE  k \in Nat /\ n <= k * r
OBVIOUS

(* Packets that carry data of n bytes. *)
Carry(packets, data, n) ==
    LET payload == FlattenSeq([i \in DOMAIN packets |-> packets[i].payload])
    IN  /\ SubSeq(payload, 1, n) = data
        /\ \A i \in DOMAIN packets :
              /\ packets[i].start = (i = 1)
              /\ i > 1 => packets[i].counter = (packets[i - 1].counter + 1) % 16

LEMMA PacketsKeep ==
  ASSUME NEW data \in Seq(Nat), NEW counter \in Nat
  PROVE  Carry(WritePackets(data, counter), data, Len(data))
<1>n. PICK n \in Nat : n = Len(data) BY LenProperties
<1>p. PICK packets : packets = WritePackets(data, counter) OBVIOUS
<1>l. PICK payload : payload = FlattenSeq([i \in DOMAIN packets |-> packets[i].payload]) OBVIOUS
<1>1. PICK r \in Nat \ {0} : r = PacketRoom BY MpegTsAssumption
<1>2. PICK k \in Nat : k = (n + r - 1) \div r /\ n <= k * r BY PacketsMade
<1> DEFINE Load(i) == [j \in 1 .. r |-> LET o == (i - 1) * r + j IN IF o <= n THEN data[o] ELSE 0]
<1>3. packets = [i \in 1 .. k |->
                   [start |-> i = 1, counter |-> (counter + i - 1) % 16, payload |-> Load(i)]]
  <2>1. (Len(data) + PacketRoom - 1) \div PacketRoom = k BY <1>n, <1>1, <1>2
  <2>2. packets = [i \in 1 .. k |->
                     [start |-> i = 1, counter |-> (counter + i - 1) % 16,
                      payload |-> [j \in 1 .. PacketRoom |->
                                     LET o == (i - 1) * PacketRoom + j
                                     IN  IF o <= Len(data) THEN data[o] ELSE 0]]]
    BY <1>p, <2>1, Zenon DEF WritePackets
  <2>3. \A i : Load(i) = [j \in 1 .. PacketRoom |->
                            LET o == (i - 1) * PacketRoom + j IN IF o <= Len(data) THEN data[o] ELSE 0]
    BY <1>n, <1>1, Zenon
  <2> HIDE DEF Load
  <2> QED BY <2>2, <2>3, Zenon
<1> HIDE DEF Load
<1>4. DOMAIN packets = 1 .. k BY <1>3
<1>5. ASSUME NEW i \in 1 .. k
      PROVE  packets[i].counter = (counter + i - 1) % 16 /\ packets[i].payload = Load(i)
  BY <1>3
<1>6. ASSUME NEW i \in 1 .. k PROVE packets[i].start = (i = 1)
  <2>1. packets[i] = [start |-> i = 1, counter |-> (counter + i - 1) % 16, payload |-> Load(i)]
    BY <1>3, Zenon
  <2>2. PICK first \in BOOLEAN : first = (i = 1) OBVIOUS
  <2>3. packets[i] = [start |-> first, counter |-> (counter + i - 1) % 16, payload |-> Load(i)]
    BY <2>1, <2>2, Zenon
  <2>4. packets[i].start = first BY <2>3
  <2> QED BY <2>2, <2>4, Zenon
<1>7. ASSUME NEW i \in 1 .. k, i > 1 PROVE packets[i].counter = (packets[i - 1].counter + 1) % 16
  <2>1. i - 1 \in 1 .. k BY <1>7
  <2>2. PICK c \in Nat : c = counter + (i - 1) - 1 BY <1>7
  <2>3. counter + i - 1 = c + 1 BY <2>2
  <2>4. (c + 1) % 16 = ((c % 16) + 1) % 16 OBVIOUS
  <2>5. packets[i].counter = (c + 1) % 16 BY <1>5, <2>3
  <2>6. packets[i - 1].counter = c % 16 BY <1>5, <2>1, <2>2
  <2> QED BY <2>4, <2>5, <2>6
<1>8. PICK loads : loads = [i \in 1 .. k |-> Load(i)] OBVIOUS
<1>9. payload = FlattenSeq(loads)
  <2>1. [i \in DOMAIN packets |-> packets[i].payload] = loads BY <1>4, <1>5, <1>8
  <2> QED BY <1>l, <2>1, Zenon
<1>10. ASSUME NEW i \in 1 .. k
       PROVE  /\ loads[i] \in Seq(Nat) /\ Len(loads[i]) = r
              /\ \A j \in 1 .. r : (i - 1) * r + j <= n => loads[i][j] = data[(i - 1) * r + j]
  <2>1. PICK o \in Nat : o = (i - 1) * r OBVIOUS
  <2>2. Load(i) = [j \in 1 .. r |-> IF o + j <= n THEN data[o + j] ELSE 0] BY <2>1, Zenon DEF Load
  <2>3. \A j \in 1 .. r : o + j <= n => data[o + j] \in Nat
    <3> TAKE j \in 1 .. r
    <3> HAVE o + j <= n
    <3>1. PICK p \in 1 .. Len(data) : p = o + j BY <1>n
    <3>2. data[p] \in Nat BY ElementOfSeq
    <3> QED BY <3>1, <3>2
  <2>4. Load(i) \in [1 .. r -> Nat]
    <3>1. \A j \in 1 .. r : (IF o + j <= n THEN data[o + j] ELSE 0) \in Nat BY <2>3
    <3> QED BY <2>2, <3>1
  <2>5. Load(i) \in Seq(Nat) /\ Len(Load(i)) = r BY <2>4
  <2>6. loads[i] = Load(i) BY <1>8
  <2>7. \A j \in 1 .. r : o + j <= n => Load(i)[j] = data[o + j] BY <2>2
  <2> QED BY <2>1, <2>5, <2>6, <2>7
<1>11. loads \in Seq(Seq(Nat)) /\ Len(loads) = k BY <1>8, <1>10
<1> DEFINE T == {i \in 0 .. k : /\ Flat(loads, i) \in Seq(Nat) /\ Len(Flat(loads, i)) = i * r
                                /\ \A o \in 1 .. i * r : o <= n => Flat(loads, i)[o] = data[o]}
<1>12. 0 \in T
  <2>1. Flat(loads, 0) = <<>> BY <1>11, FlatParts
  <2>2. 0 * r = 0 /\ 1 .. 0 = {} /\ 0 \in 0 .. k OBVIOUS
  <2>3. <<>> \in Seq(Nat) /\ Len(<<>>) = 0 OBVIOUS
  <2> QED BY <2>1, <2>2, <2>3, Zenon
<1>13. ASSUME NEW i \in 0 .. k, i \in T, i < k PROVE i + 1 \in T
  <2>1. i + 1 \in 1 .. k /\ (i + 1) - 1 = i BY <1>13
  <2>2. PICK f : f = Flat(loads, i) OBVIOUS
  <2>3. PICK g : g = Flat(loads, i + 1) OBVIOUS
  <2>4. g = f \o loads[i + 1] BY <1>11, <2>1, <2>2, <2>3, FlatParts
  <2>5. PICK o \in Nat : o = i * r OBVIOUS
  <2>6. (i + 1) * r = o + r BY <2>5
  <2>7. f \in Seq(Nat) /\ Len(f) = o /\ \A p \in 1 .. o : p <= n => f[p] = data[p]
    BY <1>13, <2>2, <2>5
  <2>8. /\ loads[i + 1] \in Seq(Nat) /\ Len(loads[i + 1]) = r
        /\ \A j \in 1 .. r : o + j <= n => loads[i + 1][j] = data[o + j]
    BY <1>10, <2>1, <2>5
  <2>9. Joins(g, f, loads[i + 1], o, r, Nat) BY <2>4, <2>7, <2>8, Joined
  <2>10. ASSUME NEW p \in 1 .. o + r, p <= n PROVE g[p] = data[p]
    <3>1. CASE p <= o
      <4>1. p \in 1 .. o BY <3>1
      <4> QED BY <2>7, <2>9, <2>10, <4>1 DEF Joins
    <3>2. CASE p > o
      <4>1. PICK j \in 1 .. r : p = o + j
        <5>1. p - o \in 1 .. r /\ p = o + (p - o) BY <3>2
        <5> QED BY <5>1
      <4> QED BY <2>8, <2>9, <2>10, <4>1 DEF Joins
    <3> QED BY <3>1, <3>2
  <2>11. g \in Seq(Nat) /\ Len(g) = o + r BY <2>9 DEF Joins
  <2>12. i + 1 \in 0 .. k BY <2>1
  <2> QED BY <2>3, <2>6, <2>10, <2>11, <2>12
<1> HIDE DEF T
<1>14. k \in T
  <2>1. \A i \in 0 .. k : i \in T BY <1>12, <1>13, UpTo
  <2> QED BY <2>1
<1>15. SubSeq(payload, 1, n) = data
  <2>1. payload = Flat(loads, k) BY <1>9, <1>11, FlatParts
  <2>2. PICK m \in Nat : m = k * r OBVIOUS
  <2>3. payload \in Seq(Nat) /\ Len(payload) = m /\ \A o \in 1 .. m : o <= n => payload[o] = data[o]
    BY <1>14, <2>1, <2>2 DEF T
  <2>4. \A o \in 1 .. Len(data) : o \in 1 .. m /\ o <= n BY <1>n, <1>2, <2>2
  <2>5. ASSUME NEW o \in 1 .. Len(data) PROVE payload[0 + o] = data[o]
    <3>1. o \in 1 .. m /\ o <= n /\ 0 + o = o BY <2>4
    <3>2. payload[o] = data[o] BY <2>3, <3>1
    <3> QED BY <3>1, <3>2
  <2>6. 0 + Len(data) <= Len(payload) BY <1>n, <1>2, <2>2, <2>3
  <2>7. SubSeq(payload, 0 + 1, 0 + Len(data)) = data BY <2>3, <2>5, <2>6, PartIs
  <2>8. 0 + 1 = 1 /\ 0 + Len(data) = n BY <1>n
  <2> QED BY <2>7, <2>8
<1>16. ASSUME NEW i \in DOMAIN packets
       PROVE  /\ packets[i].start = (i = 1)
              /\ i > 1 => packets[i].counter = (packets[i - 1].counter + 1) % 16
  BY <1>4, <1>6, <1>7
<1>17. Carry(packets, data, n) BY <1>l, <1>15, <1>16, Zenon DEF Carry
<1> QED BY <1>n, <1>p, <1>17, Zenon

-----------------------------------------------------------------------------
(* Bodies of video messages are read back. *)

(* What flattening two parts makes. *)
LEMMA FlattenTwo ==
  ASSUME NEW E, NEW a \in Seq(E), NEW b \in Seq(E), NEW parts, parts = <<a, b>>
  PROVE  FlattenSeq(parts) = a \o b
<1>1. parts \in Seq(Seq(E)) /\ Len(parts) = 2 /\ parts[1] = a /\ parts[2] = b OBVIOUS
<1>2. /\ Flat(parts, 0) = <<>>
      /\ \A i \in 1 .. 2 : Flat(parts, i) = Flat(parts, i - 1) \o parts[i]
      /\ Flat(parts, 2) = FlattenSeq(parts)
  <2>1. 2 \in Nat /\ 2 = Len(parts) BY <1>1
  <2> QED BY <1>1, <2>1, FlatParts
<1>3. 1 \in 1 .. 2 /\ 2 \in 1 .. 2 /\ 1 - 1 = 0 /\ 2 - 1 = 1 OBVIOUS
<1>4. Flat(parts, 1) = <<>> \o a BY <1>1, <1>2, <1>3
<1>5. <<>> \o a = a BY ConcatEmptySeq
<1> QED BY <1>1, <1>2, <1>3, <1>4, <1>5

(* One step of the reader of a body. *)
BodyBegun == [pos |-> 6, units |-> <<>>]
AfterUnit(body, s) ==
    IF s.pos > Len(body) THEN s
    ELSE [pos |-> s.pos + 1 + body[s.pos],
          units |-> Append(s.units, SubSeq(body, s.pos + 1, s.pos + body[s.pos]))]
ReadsBody(read, body) ==
    read = [n \in 0 .. Len(body) |-> IF n = 0 THEN BodyBegun ELSE AfterUnit(body, read[n - 1])]

LEMMA BodyChosen ==
  ASSUME NEW body
  PROVE  ReadVideoBody(body) = (CHOOSE read : ReadsBody(read, body))[Len(body)].units
BY Zenon DEF ReadVideoBody, ReadsBody, BodyBegun, AfterUnit

LEMMA BodySteps ==
  ASSUME NEW body, NEW n \in Nat, n = Len(body), n >= 2,
         NEW s, s = AfterUnit(body, BodyBegun), NEW t, t = AfterUnit(body, s), t = AfterUnit(body, t)
  PROVE  ReadVideoBody(body) = t.units
<1> DEFINE f == [i \in 0 .. n |-> IF i = 0 THEN BodyBegun ELSE IF i = 1 THEN s ELSE t]
<1>1. ReadsBody(f, body)
  <2>1. ASSUME NEW i \in 0 .. n PROVE f[i] = IF i = 0 THEN BodyBegun ELSE AfterUnit(body, f[i - 1])
    <3>1. CASE i = 0 BY <3>1
    <3>2. CASE i = 1
      <4>1. f[i - 1] = BodyBegun /\ f[i] = s BY <3>2
      <4> HIDE DEF f
      <4> QED BY <3>2, <4>1
    <3>3. CASE i = 2
      <4>1. f[i - 1] = s /\ f[i] = t BY <3>3
      <4> HIDE DEF f
      <4> QED BY <3>3, <4>1
    <3>4. CASE i > 2
      <4>1. f[i - 1] = t /\ f[i] = t BY <3>4
      <4> HIDE DEF f
      <4> QED BY <3>4, <4>1
    <3> QED BY <3>1, <3>2, <3>3, <3>4
  <2>2. f = [i \in 0 .. n |-> f[i]] OBVIOUS
  <2> HIDE DEF f
  <2> QED BY <2>1, <2>2 DEF ReadsBody
<1> HIDE DEF f
<1>2. PICK read : ReadsBody(read, body) /\ ReadVideoBody(body) = read[Len(body)].units
  <2>1. ReadsBody(CHOOSE read : ReadsBody(read, body), body) BY <1>1
  <2> QED BY <2>1, BodyChosen
<1>3. read[0] = BodyBegun /\ \A i \in 1 .. n : read[i] = AfterUnit(body, read[i - 1])
  BY <1>2 DEF ReadsBody
<1>4. \A i \in 0 .. n : i \in {j \in 0 .. n : j >= 2 => read[j] = t}
  <2> DEFINE T == {j \in 0 .. n : j >= 2 => read[j] = t}
  <2>1. 0 \in T OBVIOUS
  <2>2. ASSUME NEW i \in 0 .. n, i \in T, i < n PROVE i + 1 \in T
    <3>1. i + 1 \in 1 .. n /\ (i + 1) - 1 = i BY <2>2
    <3>2. read[i + 1] = AfterUnit(body, read[i]) BY <1>3, <3>1
    <3>3. CASE i = 0 BY <3>1, <3>3
    <3>4. CASE i = 1
      <4>1. 1 \in 1 .. n /\ 1 - 1 = 0 OBVIOUS
      <4>2. read[1] = s BY <1>3, <4>1
      <4> QED BY <3>1, <3>2, <3>4, <4>2
    <3>5. CASE i >= 2
      <4>1. read[i] = t BY <2>2, <3>5
      <4> QED BY <3>1, <3>2, <4>1
    <3> QED BY <3>3, <3>4, <3>5
  <2> HIDE DEF T
  <2>3. \A i \in 0 .. n : i \in T BY <2>1, <2>2, UpTo
  <2> QED BY <2>3 DEF T
<1>5. n \in 0 .. n OBVIOUS
<1>6. read[n] = t BY <1>4, <1>5
<1> QED BY <1>2, <1>6

LEMMA AppendToOne ==
  ASSUME NEW E, NEW x \in E, NEW y \in E
  PROVE  Append(<<x>>, y) = <<x, y>>
<1>1. <<x>> \in Seq(E) /\ Len(<<x>>) = 1 /\ <<x>>[1] = x OBVIOUS
<1>2. PICK s : s = Append(<<x>>, y) OBVIOUS
<1>3. s \in Seq(E) /\ Len(s) = 2 /\ s[1] = x /\ s[2] = y
  <2>1. 1 + 1 = 2 /\ 1 \in 1 .. 1 OBVIOUS
  <2> QED BY <1>1, <1>2, <2>1, AppendProperties
<1>4. <<x, y>> \in Seq(E) /\ Len(<<x, y>>) = 2 /\ <<x, y>>[1] = x /\ <<x, y>>[2] = y OBVIOUS
<1>5. \A i \in 1 .. 2 : i = 1 \/ i = 2 OBVIOUS
<1>6. s = <<x, y>> BY <1>3, <1>4, <1>5, SeqEqual
<1> QED BY <1>2, <1>6

LEMMA BehindFirst ==
  ASSUME NEW p \in Nat, NEW q \in Nat
  PROVE  ~(7 + p > 7 + p + q) /\ (7 + p) + 1 + q = (7 + p + q) + 1
OBVIOUS

LEMMA BodyReadBack ==
  ASSUME NEW E, Nat \subseteq E, NEW front \in Seq(E), Len(front) = 5,
         NEW u \in Seq(Nat), NEW v \in Seq(Nat),
         NEW body, body = front \o ((<<Len(u)>> \o u) \o (<<Len(v)>> \o v))
  PROVE  ReadVideoBody(body) = <<u, v>>
<1>1. PICK p \in Nat : p = Len(u) BY LenProperties
<1>2. PICK q \in Nat : q = Len(v) BY LenProperties
<1>3. u \in Seq(E) /\ v \in Seq(E) OBVIOUS
<1>4. <<p>> \in Seq(E) /\ Len(<<p>>) = 1 /\ <<q>> \in Seq(E) /\ Len(<<q>>) = 1 OBVIOUS
<1>5. PICK a : a = <<p>> \o u OBVIOUS
<1>6. PICK b : b = <<q>> \o v OBVIOUS
<1>7. PICK c : c = a \o b OBVIOUS
<1>8. body = front \o c BY <1>1, <1>2, <1>5, <1>6, <1>7
<1>9. Joins(a, <<p>>, u, 1, p, E) BY <1>1, <1>3, <1>4, <1>5, Joined
<1>10. Joins(b, <<q>>, v, 1, q, E) BY <1>2, <1>3, <1>4, <1>6, Joined
<1>11. a \in Seq(E) /\ Len(a) = 1 + p /\ b \in Seq(E) /\ Len(b) = 1 + q BY <1>9, <1>10 DEF Joins
<1>12. Joins(c, a, b, 1 + p, 1 + q, E) BY <1>7, <1>11, Joined
<1>13. PICK m \in Nat : m = (1 + p) + (1 + q) OBVIOUS
<1>14. c \in Seq(E) /\ Len(c) = m BY <1>12, <1>13 DEF Joins
<1>15. Joins(body, front, c, 5, m, E) BY <1>8, <1>14, Joined
<1>16. body \in Seq(E) /\ Len(body) = 5 + m BY <1>15 DEF Joins
<1>17. body[6] = p
  <2>1. 1 \in 1 .. 1 /\ 1 \in 1 .. 1 + p /\ 1 \in 1 .. m /\ 5 + 1 = 6 BY <1>13
  <2>2. body[6] = c[1] BY <1>15, <2>1 DEF Joins
  <2>3. c[1] = a[1] BY <1>12, <2>1 DEF Joins
  <2>4. a[1] = <<p>>[1] BY <1>9, <2>1 DEF Joins
  <2> QED BY <2>2, <2>3, <2>4
<1>18. body[7 + p] = q
  <2>1. /\ 1 \in 1 .. 1 /\ 1 \in 1 .. 1 + q /\ (1 + p) + 1 \in 1 .. m
        /\ 5 + ((1 + p) + 1) = 7 + p
    BY <1>13
  <2>2. body[7 + p] = c[(1 + p) + 1] BY <1>15, <2>1 DEF Joins
  <2>3. c[(1 + p) + 1] = b[1] BY <1>12, <2>1 DEF Joins
  <2>4. b[1] = <<q>>[1] BY <1>10, <2>1 DEF Joins
  <2> QED BY <2>2, <2>3, <2>4
<1>19. SubSeq(body, 6 + 1, 6 + Len(u)) = u
  <2>1. ASSUME NEW i \in 1 .. Len(u) PROVE body[6 + i] = u[i]
    <3>1. i \in 1 .. p /\ 1 + i \in 1 .. 1 + p /\ 1 + i \in 1 .. m /\ 5 + (1 + i) = 6 + i BY <1>1, <1>13
    <3>2. body[6 + i] = c[1 + i] BY <1>15, <3>1 DEF Joins
    <3>3. c[1 + i] = a[1 + i] BY <1>12, <3>1 DEF Joins
    <3>4. a[1 + i] = u[i] BY <1>9, <3>1 DEF Joins
    <3> QED BY <3>2, <3>3, <3>4
  <2>2. 6 + Len(u) <= Len(body) BY <1>1, <1>13, <1>16
  <2> QED BY <1>3, <1>16, <2>1, <2>2, PartIs
<1>20. SubSeq(body, (7 + p) + 1, (7 + p) + Len(v)) = v
  <2>1. ASSUME NEW i \in 1 .. Len(v) PROVE body[(7 + p) + i] = v[i]
    <3>1. /\ i \in 1 .. q /\ 1 + i \in 1 .. 1 + q /\ (1 + p) + (1 + i) \in 1 .. m
          /\ 5 + ((1 + p) + (1 + i)) = (7 + p) + i
      BY <1>2, <1>13
    <3>2. body[(7 + p) + i] = c[(1 + p) + (1 + i)] BY <1>15, <3>1 DEF Joins
    <3>3. c[(1 + p) + (1 + i)] = b[1 + i] BY <1>12, <3>1 DEF Joins
    <3>4. b[1 + i] = v[i] BY <1>10, <3>1 DEF Joins
    <3> QED BY <3>2, <3>3, <3>4
  <2>2. (7 + p) + Len(v) <= Len(body) BY <1>2, <1>13, <1>16
  <2>3. 7 + p \in Nat OBVIOUS
  <2> QED BY <1>3, <1>16, <2>1, <2>2, <2>3, PartIs
<1>21. PICK n \in Nat : n = Len(body) /\ n = 7 + p + q BY <1>13, <1>16
<1>22. PICK s : s = [pos |-> 7 + p, units |-> <<u>>] OBVIOUS
<1>23. PICK t : t = [pos |-> n + 1, units |-> <<u, v>>] OBVIOUS
<1>24. s = AfterUnit(body, BodyBegun)
  <2>1. BodyBegun.pos = 6 /\ BodyBegun.units = <<>> BY DEF BodyBegun
  <2>2. ~(6 > Len(body)) /\ 6 + 1 + p = 7 + p BY <1>21
  <2>3. AfterUnit(body, BodyBegun) = [pos |-> 6 + 1 + body[6],
                                      units |-> Append(<<>>, SubSeq(body, 6 + 1, 6 + body[6]))]
    BY <2>1, <2>2, Zenon DEF AfterUnit
  <2>4. SubSeq(body, 6 + 1, 6 + body[6]) = u BY <1>1, <1>17, <1>19, Zenon
  <2>5. Append(<<>>, u) = <<u>> OBVIOUS
  <2> QED BY <1>17, <1>22, <2>2, <2>3, <2>4, <2>5, Zenon
<1>25. t = AfterUnit(body, s)
  <2>1. s.pos = 7 + p /\ s.units = <<u>> BY <1>22
  <2>2. ~(7 + p > Len(body)) /\ (7 + p) + 1 + q = n + 1
    <3>1. n = 7 + p + q BY <1>21, Zenon
    <3>2. ~(7 + p > 7 + p + q) /\ (7 + p) + 1 + q = (7 + p + q) + 1 BY BehindFirst, Zenon
    <3>3. ~(7 + p > n) /\ (7 + p) + 1 + q = n + 1 BY <3>1, <3>2, Zenon
    <3> QED BY <1>21, <3>3, Zenon
  <2>3. AfterUnit(body, s) = [pos |-> (7 + p) + 1 + body[7 + p],
                              units |-> Append(<<u>>, SubSeq(body, (7 + p) + 1, (7 + p) + body[7 + p]))]
    BY <2>1, <2>2, Zenon DEF AfterUnit
  <2>4. SubSeq(body, (7 + p) + 1, (7 + p) + body[7 + p]) = v BY <1>2, <1>18, <1>20, Zenon
  <2>5. Append(<<u>>, v) = <<u, v>> BY AppendToOne
  <2> QED BY <1>18, <1>23, <2>2, <2>3, <2>4, <2>5, Zenon
<1>26. t = AfterUnit(body, t)
  <2>1. t.pos = n + 1 BY <1>23
  <2>2. n + 1 > Len(body) BY <1>21
  <2> QED BY <2>1, <2>2, Zenon DEF AfterUnit
<1>27. ReadVideoBody(body) = t.units
  <2>1. n >= 2 BY <1>21
  <2> QED BY <1>21, <1>24, <1>25, <1>26, <2>1, BodySteps
<1> QED BY <1>23, <1>27

(* A video message of two units is read as it was wire. *)
LEMMA UnitsReadBack ==
  ASSUME NEW key \in BOOLEAN, NEW u \in Seq(Nat), NEW v \in Seq(Nat), NEW units, units = <<u, v>>
  PROVE  ReadVideoBody(VideoBody(key, units)) = units
<1> DEFINE E == Nat \union {"key", "delta", "units"}
           front == <<IF key THEN "key" ELSE "delta", "units", 0, 0, 0>>
<1>1. front \in Seq(E) /\ Len(front) = 5 /\ Nat \subseteq E
  <2>1. PICK mark \in {"key", "delta"} : mark = IF key THEN "key" ELSE "delta" OBVIOUS
  <2>2. front = <<mark, "units", 0, 0, 0>> BY <2>1, Zenon
  <2>3. Nat \subseteq E /\ mark \in E /\ "units" \in E /\ 0 \in E OBVIOUS
  <2> HIDE DEF E, front
  <2>4. <<mark, "units", 0, 0, 0>> \in Seq(E) /\ Len(<<mark, "units", 0, 0, 0>>) = 5 BY <2>3
  <2> QED BY <2>2, <2>3, <2>4
<1>2. PICK a : a = <<Len(u)>> \o u OBVIOUS
<1>3. PICK b : b = <<Len(v)>> \o v OBVIOUS
<1>4. a \in Seq(Nat) /\ b \in Seq(Nat)
  <2>1. Len(u) \in Nat /\ Len(v) \in Nat BY LenProperties
  <2>2. <<Len(u)>> \in Seq(Nat) /\ <<Len(v)>> \in Seq(Nat) BY <2>1
  <2> QED BY <1>2, <1>3, <2>2, ConcatProperties
<1>5. PICK parts : parts = [i \in DOMAIN units |-> <<Len(units[i])>> \o units[i]] OBVIOUS
<1>6. parts = <<a, b>>
  <2>1. DOMAIN units = {1, 2} /\ units[1] = u /\ units[2] = v OBVIOUS
  <2>2. parts[1] = a /\ parts[2] = b /\ parts = [i \in {1, 2} |-> parts[i]] BY <1>2, <1>3, <1>5, <2>1
  <2> QED BY <2>2
<1>7. FlattenSeq(parts) = a \o b BY <1>4, <1>6, FlattenTwo
<1>8. VideoBody(key, units) = front \o FlattenSeq(parts) BY <1>5, Zenon DEF VideoBody
<1> HIDE DEF front, E
<1>9. VideoBody(key, units) = front \o ((<<Len(u)>> \o u) \o (<<Len(v)>> \o v))
  BY <1>2, <1>3, <1>7, <1>8
<1> QED BY <1>1, <1>9, BodyReadBack

-----------------------------------------------------------------------------
(* Folds over a stream. *)

(* The steps of the folds over a stream: what one element makes of what was read. *)
Grown(groups, unit) ==
    IF groups = <<>> \/ StartsNewAU(unit, Last(groups)) THEN Append(groups, <<unit>>)
    ELSE [groups EXCEPT ![Len(groups)] = Append(@, unit)]
Found(data, found, i) == IF CodeAt(data, i) THEN Append(found, CodeBegin(data, i)) ELSE found
UnitKept(units, unit) == IF unit = <<>> THEN units ELSE Append(units, unit)
PieceRead(s, piece) ==
    LET c == Complete(s.rest \o piece) IN [units |-> s.units \o c.units, rest |-> c.rest]

Reader(name, x) == [name |-> name, of |-> x]
ReaderStep(reader, s, e) ==
    CASE reader.name = "message" -> ElementRead(s, e, reader.of)
      [] reader.name = "groups"  -> Grown(s, e)
      [] reader.name = "codes"   -> Found(reader.of, s, e)
      [] reader.name = "units"   -> UnitKept(s, e)
      [] reader.name = "pieces"  -> PieceRead(s, e)

(* The fold of a reader over n elements of a stream. *)
ReadFold(f, reader, base, stream, n) ==
    [s \in SUBSET (1 .. n) |->
        IF s = {} THEN base ELSE ReaderStep(reader, f[s \ {Max(s)}], stream[Max(s)])]
IsRead(f, reader, base, stream, n) == f = ReadFold(f, reader, base, stream, n)

LEMMA ReadExists ==
  ASSUME NEW n \in Nat, NEW reader, NEW base, NEW stream
  PROVE  \E f : IsRead(f, reader, base, stream, n)
<1> DEFINE T == {m \in 0 .. n : \E f : IsRead(f, reader, base, stream, m)}
           Start(f, s) == IF s = {} THEN base ELSE ReaderStep(reader, f[s \ {Max(s)}], stream[Max(s)])
<1>0. \A f, m : IsRead(f, reader, base, stream, m) <=> f = [s \in SUBSET (1 .. m) |-> Start(f, s)]
  BY DEF IsRead, ReadFold
<1>1. 0 \in T
  <2> DEFINE f == [s \in SUBSET (1 .. 0) |-> base]
  <2>1. \A s \in SUBSET (1 .. 0) : s = {} OBVIOUS
  <2>2. \A s \in SUBSET (1 .. 0) : f[s] = Start(f, s) BY <2>1
  <2>3. f = [s \in SUBSET (1 .. 0) |-> f[s]] OBVIOUS
  <2> HIDE DEF f, Start
  <2>4. f = [s \in SUBSET (1 .. 0) |-> Start(f, s)] BY <2>2, <2>3
  <2>5. IsRead(f, reader, base, stream, 0) BY <1>0, <2>4
  <2> QED BY <2>5
<1>2. ASSUME NEW m \in 0 .. n, m \in T, m < n PROVE m + 1 \in T
  <2>0. m \in Nat OBVIOUS
  <2>1. PICK f : f = [s \in SUBSET (1 .. m) |-> Start(f, s)]
    <3>1. PICK f : IsRead(f, reader, base, stream, m) BY <1>2
    <3> HIDE DEF Start
    <3> QED BY <1>0, <3>1
  <2>2. \A s \in SUBSET (1 .. m) : f[s] = Start(f, s)
    <3> HIDE DEF Start
    <3> QED BY <2>1
  <2> DEFINE h == [s \in SUBSET (1 .. m + 1) |->
                     IF s \in SUBSET (1 .. m) THEN f[s]
                     ELSE ReaderStep(reader, f[s \ {m + 1}], stream[m + 1])]
  <2>3. ASSUME NEW s \in SUBSET (1 .. m + 1), s \notin SUBSET (1 .. m)
        PROVE  Max(s) = m + 1 /\ s # {} /\ s \ {m + 1} \in SUBSET (1 .. m)
    <3>1. PICK x \in s : x \notin 1 .. m BY <2>3
    <3>2. x = m + 1 BY <3>1
    <3>3. Max(s) \in s /\ \A y \in s : Max(s) >= y
      <4>1. m + 1 \in Nat BY <2>0
      <4> QED BY <3>1, <4>1, MaxIn
    <3>4. Max(s) = m + 1
      <4>1. PICK y \in 1 .. m + 1 : y = Max(s) BY <3>3
      <4>2. y >= m + 1 BY <3>1, <3>2, <3>3, <4>1
      <4> QED BY <4>1, <4>2
    <3>5. s \ {m + 1} \in SUBSET (1 .. m) BY <2>0
    <3> QED BY <3>1, <3>4, <3>5
  <2>4. ASSUME NEW s \in SUBSET (1 .. m + 1) PROVE h[s] = Start(h, s)
    <3>1. CASE s = {} BY <2>2, <3>1
    <3>2. CASE s # {} /\ s \in SUBSET (1 .. m)
      <4>1. Max(s) \in s BY <2>0, <3>2, MaxIn
      <4>2. s \ {Max(s)} \in SUBSET (1 .. m) /\ s \ {Max(s)} \in SUBSET (1 .. m + 1) BY <3>2
      <4>3. h[s \ {Max(s)}] = f[s \ {Max(s)}] BY <4>2
      <4>4. h[s] = f[s] BY <3>2
      <4>5. f[s] = ReaderStep(reader, f[s \ {Max(s)}], stream[Max(s)]) BY <2>2, <3>2
      <4> HIDE DEF h
      <4> QED BY <3>2, <4>3, <4>4, <4>5
    <3>3. CASE s \notin SUBSET (1 .. m)
      <4>1. /\ Max(s) = m + 1 /\ s # {} /\ s \ {m + 1} \in SUBSET (1 .. m) BY <2>3, <3>3
      <4>2. s \ {m + 1} \in SUBSET (1 .. m + 1) OBVIOUS
      <4>3. h[s \ {m + 1}] = f[s \ {m + 1}] BY <4>1, <4>2
      <4>4. h[s] = ReaderStep(reader, f[s \ {m + 1}], stream[m + 1]) BY <3>3
      <4> HIDE DEF h
      <4> QED BY <4>1, <4>3, <4>4
    <3> QED BY <3>1, <3>2, <3>3
  <2>5. h = [s \in SUBSET (1 .. m + 1) |-> h[s]] OBVIOUS
  <2> HIDE DEF h, Start
  <2>6. h = [s \in SUBSET (1 .. m + 1) |-> Start(h, s)] BY <2>4, <2>5
  <2>7. IsRead(h, reader, base, stream, m + 1) BY <1>0, <2>6
  <2>8. m + 1 \in 0 .. n BY <1>2
  <2> QED BY <2>7, <2>8
<1> HIDE DEF T
<1>3. n \in T
  <2>1. \A i \in 0 .. n : i \in T BY <1>1, <1>2, UpTo
  <2> QED BY <2>1
<1> QED BY <1>3 DEF T

(* What a reader makes of a stream: a state for each element, from the one before. *)
Reads(reader, base, stream, n, result) ==
    \E state : /\ state[0] = base
               /\ \A i \in 1 .. n : state[i] = ReaderStep(reader, state[i - 1], stream[i])
               /\ state[n] = result

LEMMA FoldReads ==
  ASSUME NEW n \in Nat, NEW reader, NEW base, NEW stream, NEW fold,
         IsRead(fold, reader, base, stream, n)
  PROVE  Reads(reader, base, stream, n, fold[1 .. n])
<1>6. \A s \in SUBSET (1 .. n) :
         fold[s] = IF s = {} THEN base ELSE ReaderStep(reader, fold[s \ {Max(s)}], stream[Max(s)])
  BY DEF IsRead, ReadFold
<1> DEFINE state == [i \in 0 .. n |-> fold[1 .. i]]
<1>7. state[0] = base
  <2>1. 1 .. 0 = {} /\ {} \in SUBSET (1 .. n) /\ 0 \in 0 .. n OBVIOUS
  <2> QED BY <1>6, <2>1
<1>8. ASSUME NEW i \in 1 .. n PROVE state[i] = ReaderStep(reader, state[i - 1], stream[i])
  <2>1. /\ 1 .. i \in SUBSET (1 .. n) /\ 1 .. i # {} /\ Max(1 .. i) = i
        /\ (1 .. i) \ {i} = 1 .. i - 1
    BY InitialSegment
  <2>2. fold[1 .. i] = ReaderStep(reader, fold[(1 .. i) \ {i}], stream[i]) BY <1>6, <2>1
  <2>3. i \in 0 .. n /\ i - 1 \in 0 .. n OBVIOUS
  <2>4. state[i] = fold[1 .. i] /\ state[i - 1] = fold[1 .. i - 1] BY <2>3
  <2> HIDE DEF state
  <2> QED BY <2>1, <2>2, <2>4
<1>9. state[n] = fold[1 .. n]
  <2>1. n \in 0 .. n OBVIOUS
  <2> QED BY <2>1
<1> HIDE DEF state
<1> QED BY <1>7, <1>8, <1>9, Zenon DEF Reads

LEMMA GroupsRead ==
  ASSUME NEW stream, NEW n \in Nat, DOMAIN stream = 1 .. n
  PROVE  Reads(Reader("groups", 0), <<>>, stream, n, Grouped(stream))
<1> DEFINE Folded(f) == [s \in SUBSET (DOMAIN stream) |->
                           IF s = {} THEN <<>> ELSE Grown(f[s \ {Max(s)}], stream[Max(s)])]
           fold == CHOOSE f : f = Folded(f)
<1>1. FoldLeft(LAMBDA groups, unit : Grown(groups, unit), <<>>, stream) = fold[DOMAIN stream]
  BY Zenon DEF FoldLeft, MapThenFoldSet
<1>2. Grouped(stream) = fold[DOMAIN stream]
  <2> HIDE DEF fold
  <2> QED BY <1>1, Zenon DEF Grouped, Grown
<1>3. PICK reader : reader = Reader("groups", 0) OBVIOUS
<1>4. \A s, e : ReaderStep(reader, s, e) = Grown(s, e)
  <2>1. reader.name = "groups" BY <1>3 DEF Reader
  <2> QED BY <2>1 DEF ReaderStep
<1>5. \A f : Folded(f) = ReadFold(f, reader, <<>>, stream, n) BY <1>4, Zenon DEF ReadFold
<1> HIDE DEF Folded
<1>6. \E f : f = Folded(f) BY <1>5, ReadExists DEF IsRead
<1>7. fold = Folded(fold) BY <1>6
<1> HIDE DEF fold
<1>8. IsRead(fold, reader, <<>>, stream, n) BY <1>5, <1>7, Zenon DEF IsRead
<1>9. Reads(reader, <<>>, stream, n, fold[1 .. n]) BY <1>8, FoldReads
<1> QED BY <1>2, <1>3, <1>9, Zenon

LEMMA CodesRead ==
  ASSUME NEW data, NEW stream, NEW n \in Nat, DOMAIN stream = 1 .. n, stream = [i \in DOMAIN data |-> i]
  PROVE  Reads(Reader("codes", data), <<>>, stream, n, StartCodes(data))
<1> DEFINE Folded(f) == [s \in SUBSET (DOMAIN stream) |->
                           IF s = {} THEN <<>> ELSE Found(data, f[s \ {Max(s)}], stream[Max(s)])]
           fold == CHOOSE f : f = Folded(f)
<1>1. FoldLeft(LAMBDA s, e : Found(data, s, e), <<>>, stream) = fold[DOMAIN stream]
  BY Zenon DEF FoldLeft, MapThenFoldSet
<1>2. StartCodes(data) = fold[DOMAIN stream]
  <2> HIDE DEF fold
  <2> QED BY <1>1, Zenon DEF StartCodes, Found
<1>3. PICK reader : reader = Reader("codes", data) OBVIOUS
<1>4. \A s, e : ReaderStep(reader, s, e) = Found(data, s, e)
  <2>1. reader.name = "codes" /\ reader.of = data BY <1>3 DEF Reader
  <2> QED BY <2>1 DEF ReaderStep
<1>5. \A f : Folded(f) = ReadFold(f, reader, <<>>, stream, n) BY <1>4, Zenon DEF ReadFold
<1> HIDE DEF Folded
<1>6. \E f : f = Folded(f) BY <1>5, ReadExists DEF IsRead
<1>7. fold = Folded(fold) BY <1>6
<1> HIDE DEF fold
<1>8. IsRead(fold, reader, <<>>, stream, n) BY <1>5, <1>7, Zenon DEF IsRead
<1>9. Reads(reader, <<>>, stream, n, fold[1 .. n]) BY <1>8, FoldReads
<1> QED BY <1>2, <1>3, <1>9, Zenon

LEMMA PiecesRead ==
  ASSUME NEW stream, NEW n \in Nat, DOMAIN stream = 1 .. n
  PROVE  Reads(Reader("pieces", 0), [units |-> <<>>, rest |-> <<>>], stream, n, ReadPieces(stream))
<1> DEFINE Folded(f) == [s \in SUBSET (DOMAIN stream) |->
                           IF s = {} THEN [units |-> <<>>, rest |-> <<>>] ELSE PieceRead(f[s \ {Max(s)}], stream[Max(s)])]
           fold == CHOOSE f : f = Folded(f)
<1>1. FoldLeft(LAMBDA s, e : PieceRead(s, e), [units |-> <<>>, rest |-> <<>>], stream) = fold[DOMAIN stream]
  BY Zenon DEF FoldLeft, MapThenFoldSet
<1>2. ReadPieces(stream) = fold[DOMAIN stream]
  <2> HIDE DEF fold
  <2> QED BY <1>1, Zenon DEF ReadPieces, PieceRead
<1>3. PICK reader : reader = Reader("pieces", 0) OBVIOUS
<1>4. \A s, e : ReaderStep(reader, s, e) = PieceRead(s, e)
  <2>1. reader.name = "pieces" /\ reader.of = 0 BY <1>3 DEF Reader
  <2> QED BY <2>1 DEF ReaderStep
<1>5. \A f : Folded(f) = ReadFold(f, reader, [units |-> <<>>, rest |-> <<>>], stream, n) BY <1>4, Zenon DEF ReadFold
<1> HIDE DEF Folded
<1>6. \E f : f = Folded(f) BY <1>5, ReadExists DEF IsRead
<1>7. fold = Folded(fold) BY <1>6
<1> HIDE DEF fold
<1>8. IsRead(fold, reader, [units |-> <<>>, rest |-> <<>>], stream, n) BY <1>5, <1>7, Zenon DEF IsRead
<1>9. Reads(reader, [units |-> <<>>, rest |-> <<>>], stream, n, fold[1 .. n]) BY <1>8, FoldReads
<1> QED BY <1>2, <1>3, <1>9, Zenon

-----------------------------------------------------------------------------
(* Messages are read back: their payload. *)

(* r begins with s. *)
Begins(r, s, E) ==
    /\ r \in Seq(E) /\ s \in Seq(E) /\ Len(s) <= Len(r)
    /\ \A j \in 1 .. Len(s) : r[j] = s[j]

LEMMA BeginsOn ==
  ASSUME NEW E, NEW r, NEW s, NEW t \in Seq(E), Begins(r, s, E)
  PROVE  Begins(r \o t, s, E)
<1>1. PICK q : q = r \o t OBVIOUS
<1>2. PICK n \in Nat : n = Len(r) BY LenProperties DEF Begins
<1>3. PICK m \in Nat : m = Len(t) BY LenProperties
<1>4. r \in Seq(E) BY DEF Begins
<1>5. Joins(q, r, t, n, m, E) BY <1>1, <1>2, <1>3, <1>4, Joined
<1>6. PICK l \in Nat : l = Len(s) BY LenProperties DEF Begins
<1>7. l <= n /\ \A j \in 1 .. l : r[j] = s[j] BY <1>2, <1>6 DEF Begins
<1>8. q \in Seq(E) /\ Len(q) = n + m /\ \A j \in 1 .. n : q[j] = r[j] BY <1>5 DEF Joins
<1>9. \A j \in 1 .. l : q[j] = s[j]
  <2>1. \A j \in 1 .. l : j \in 1 .. n BY <1>7
  <2> QED BY <1>7, <1>8, <2>1
<1>10. l <= Len(q) BY <1>7, <1>8
<1>11. s \in Seq(E) BY DEF Begins
<1> QED BY <1>1, <1>6, <1>8, <1>9, <1>10, <1>11 DEF Begins

(* The part t is in r, behind the n elements before it. *)
Behind(r, n, t) ==
    /\ n \in Nat /\ n + Len(t) <= Len(r)
    /\ \A j \in 1 .. Len(t) : r[n + j] = t[j]

LEMMA FlatPlaces ==
  ASSUME NEW E, NEW parts \in Seq(Seq(E)), NEW k \in Nat, k = Len(parts), NEW c \in 1 .. k
  PROVE  /\ Behind(FlattenSeq(parts), Len(Flat(parts, c - 1)), parts[c])
         /\ Len(Flat(parts, c)) = Len(Flat(parts, c - 1)) + Len(parts[c])
<1>1. /\ \A i \in 0 .. k : Flat(parts, i) \in Seq(E)
      /\ \A i \in 1 .. k : Flat(parts, i) = Flat(parts, i - 1) \o parts[i]
      /\ Flat(parts, k) = FlattenSeq(parts)
  BY FlatParts
<1>2. PICK s : s = Flat(parts, c - 1) OBVIOUS
<1>3. PICK r : r = Flat(parts, c) OBVIOUS
<1>4. PICK t : t = parts[c] OBVIOUS
<1>5. t \in Seq(E) BY <1>4, ElementOfSeq
<1>6. s \in Seq(E) /\ r \in Seq(E)
  <2>1. c - 1 \in 0 .. k /\ c \in 0 .. k OBVIOUS
  <2> QED BY <1>1, <1>2, <1>3, <2>1
<1>7. r = s \o t BY <1>1, <1>2, <1>3, <1>4
<1>8. PICK n \in Nat : n = Len(s) BY <1>6, LenProperties
<1>9. PICK m \in Nat : m = Len(t) BY <1>5, LenProperties
<1>10. Joins(r, s, t, n, m, E) BY <1>5, <1>6, <1>7, <1>8, <1>9, Joined
<1> DEFINE T == {i \in 0 .. k : i >= c => Begins(Flat(parts, i), r, E)}
<1>11. 0 \in T OBVIOUS
<1>12. ASSUME NEW i \in 0 .. k, i \in T, i < k PROVE i + 1 \in T
  <2>1. i + 1 \in 1 .. k /\ (i + 1) - 1 = i /\ i + 1 \in 0 .. k BY <1>12
  <2>2. CASE i + 1 < c BY <2>1, <2>2
  <2>3. CASE i + 1 = c
    <3>1. Flat(parts, i + 1) = r BY <1>3, <2>3
    <3>2. Begins(r, r, E) BY <1>6, LenProperties DEF Begins
    <3> QED BY <2>1, <3>1, <3>2
  <2>4. CASE i >= c
    <3>1. Begins(Flat(parts, i), r, E) BY <1>12, <2>4
    <3>2. parts[i + 1] \in Seq(E) BY <2>1, ElementOfSeq
    <3>3. Begins(Flat(parts, i) \o parts[i + 1], r, E) BY <3>1, <3>2, BeginsOn
    <3>4. Flat(parts, i + 1) = Flat(parts, i) \o parts[i + 1] BY <1>1, <2>1
    <3> QED BY <2>1, <3>3, <3>4
  <2> QED BY <2>2, <2>3, <2>4
<1> HIDE DEF T
<1>13. \A i \in 0 .. k : i \in T BY <1>11, <1>12, UpTo
<1>14. Begins(FlattenSeq(parts), r, E)
  <2>1. k \in 0 .. k /\ k >= c OBVIOUS
  <2> QED BY <1>1, <1>13, <2>1 DEF T
<1>15. PICK all : all = FlattenSeq(parts) OBVIOUS
<1>16. all \in Seq(E) /\ Len(r) <= Len(all) /\ \A j \in 1 .. Len(r) : all[j] = r[j]
  BY <1>14, <1>15 DEF Begins
<1>17. Len(r) = n + m BY <1>10 DEF Joins
<1>18. ASSUME NEW j \in 1 .. m PROVE all[n + j] = t[j]
  <2>1. n + j \in 1 .. Len(r) BY <1>17
  <2>2. r[n + j] = t[j] BY <1>10 DEF Joins
  <2> QED BY <1>16, <2>1, <2>2
<1>19. Behind(all, n, t) BY <1>9, <1>16, <1>17, <1>18 DEF Behind
<1> QED BY <1>2, <1>3, <1>4, <1>8, <1>9, <1>15, <1>17, <1>19

(* What was read of a stream is a state for each element, from the one before. *)
LEMMA ReadSteps ==
  ASSUME NEW stream, NEW n \in Nat, DOMAIN stream = 1 .. n, NEW size
  PROVE  \E state : /\ state[0] = NothingRead
                    /\ \A i \in 1 .. n : state[i] = ElementRead(state[i - 1], stream[i], size)
                    /\ ReadMessage(stream, size)
                         = IF state[n].over THEN [time |-> state[n].time, bytes |-> state[n].bytes]
                           ELSE Garbled
<1> DEFINE Folded(f) == [s \in SUBSET (DOMAIN stream) |->
                           IF s = {} THEN NothingRead
                           ELSE ElementRead(f[s \ {Max(s)}], stream[Max(s)], size)]
           fold == CHOOSE f : f = Folded(f)
           last == fold[DOMAIN stream]
<1>1. FoldLeft(LAMBDA s, e : ElementRead(s, e, size), NothingRead, stream) = last
  BY Zenon DEF FoldLeft, MapThenFoldSet
<1>2. ReadMessage(stream, size) = IF last.over THEN [time |-> last.time, bytes |-> last.bytes] ELSE Garbled
  <2> HIDE DEF last
  <2> QED BY <1>1, Zenon DEF ReadMessage
<1>3. PICK reader : reader = Reader("message", size) OBVIOUS
<1>4. \A s, e : ReaderStep(reader, s, e) = ElementRead(s, e, size)
  <2>1. reader.name = "message" /\ reader.of = size BY <1>3 DEF Reader
  <2> QED BY <2>1 DEF ReaderStep
<1>5. \A f : Folded(f) = ReadFold(f, reader, NothingRead, stream, n) BY <1>4, Zenon DEF ReadFold
<1> HIDE DEF Folded
<1>6. \E f : f = Folded(f) BY <1>5, ReadExists DEF IsRead
<1>7. fold = Folded(fold) BY <1>6
<1> HIDE DEF fold
<1>8. IsRead(fold, reader, NothingRead, stream, n) BY <1>5, <1>7, Zenon DEF IsRead
<1>9. Reads(reader, NothingRead, stream, n, last)
  <2>1. Reads(reader, NothingRead, stream, n, fold[1 .. n]) BY <1>8, FoldReads
  <2> QED BY <2>1, Zenon
<1> HIDE DEF last
<1>10. PICK state : /\ state[0] = NothingRead
                    /\ \A i \in 1 .. n : state[i] = ReaderStep(reader, state[i - 1], stream[i])
                    /\ state[n] = last
  BY <1>9, Zenon DEF Reads
<1>11. \A i \in 1 .. n : state[i] = ElementRead(state[i - 1], stream[i], size) BY <1>4, <1>10, Zenon
<1>12. ReadMessage(stream, size) = IF state[n].over THEN [time |-> state[n].time, bytes |-> state[n].bytes]
                                   ELSE Garbled
  BY <1>2, <1>10, Zenon
<1> QED BY <1>10, <1>11, <1>12, Zenon

-----------------------------------------------------------------------------
StateOf(time, length, bytes, due, long, over) ==
    [time |-> time, length |-> length, bytes |-> bytes, due |-> due, long |-> long, over |-> over]

LEMMA SetTime ==
  ASSUME NEW time, NEW length, NEW bytes, NEW due, NEW long, NEW over, NEW x
  PROVE  [StateOf(time, length, bytes, due, long, over) EXCEPT !.time = x] = StateOf(x, length, bytes, due, long, over)
BY DEF StateOf

LEMMA SetLength ==
  ASSUME NEW time, NEW length, NEW bytes, NEW due, NEW long, NEW over, NEW x
  PROVE  [StateOf(time, length, bytes, due, long, over) EXCEPT !.length = x] = StateOf(time, x, bytes, due, long, over)
BY DEF StateOf

LEMMA SetBytes ==
  ASSUME NEW time, NEW length, NEW bytes, NEW due, NEW long, NEW over, NEW x
  PROVE  [StateOf(time, length, bytes, due, long, over) EXCEPT !.bytes = x] = StateOf(time, length, x, due, long, over)
BY DEF StateOf

LEMMA SetDue ==
  ASSUME NEW time, NEW length, NEW bytes, NEW due, NEW long, NEW over, NEW x
  PROVE  [StateOf(time, length, bytes, due, long, over) EXCEPT !.due = x] = StateOf(time, length, bytes, x, long, over)
BY DEF StateOf

LEMMA SetLong ==
  ASSUME NEW time, NEW length, NEW bytes, NEW due, NEW long, NEW over, NEW x
  PROVE  [StateOf(time, length, bytes, due, long, over) EXCEPT !.long = x] = StateOf(time, length, bytes, due, x, over)
BY DEF StateOf

LEMMA SetOver ==
  ASSUME NEW time, NEW length, NEW bytes, NEW due, NEW long, NEW over, NEW x
  PROVE  [StateOf(time, length, bytes, due, long, over) EXCEPT !.over = x] = StateOf(time, length, bytes, due, long, x)
BY DEF StateOf

(* Fields of a state set, as operators. *)
WithTime(s, x) == [s EXCEPT !.time = x]
WithDueOver(s, x, y) == [s EXCEPT !.due = x, !.over = y]
WithDueBytesOver(s, x, y, z) == [s EXCEPT !.due = x, !.bytes = y, !.over = z]
WithLengthBytes(s, x, y) == [s EXCEPT !.length = x, !.bytes = y]
WithTimeLong(s, x, y) == [s EXCEPT !.time = x, !.long = y]
WithLongTime(s, x, y) == [s EXCEPT !.long = x, !.time = y]

LEMMA TimeSet ==
  ASSUME NEW time, NEW length, NEW bytes, NEW due, NEW long, NEW over, NEW x
  PROVE  WithTime(StateOf(time, length, bytes, due, long, over), x) = StateOf(x, length, bytes, due, long, over)
BY SetTime DEF WithTime

LEMMA DueOverSet ==
  ASSUME NEW time, NEW length, NEW bytes, NEW due, NEW long, NEW over, NEW x, NEW y
  PROVE  WithDueOver(StateOf(time, length, bytes, due, long, over), x, y) = StateOf(time, length, bytes, x, long, y)
<1>1. PICK a : a = StateOf(time, length, bytes, due, long, over) OBVIOUS
<1>2. PICK b : b = [a EXCEPT !.due = x] OBVIOUS
<1>3. b = StateOf(time, length, bytes, x, long, over) BY <1>1, <1>2, SetDue
<1>4. PICK c : c = [b EXCEPT !.over = y] OBVIOUS
<1>5. c = StateOf(time, length, bytes, x, long, y) BY <1>3, <1>4, SetOver
<1> QED BY <1>1, <1>2, <1>4, <1>5, Zenon DEF WithDueOver

LEMMA DueBytesOverSet ==
  ASSUME NEW time, NEW length, NEW bytes, NEW due, NEW long, NEW over, NEW x, NEW y, NEW z
  PROVE  WithDueBytesOver(StateOf(time, length, bytes, due, long, over), x, y, z) = StateOf(time, length, y, x, long, z)
<1>1. PICK a : a = StateOf(time, length, bytes, due, long, over) OBVIOUS
<1>2. PICK b : b = [a EXCEPT !.due = x] OBVIOUS
<1>3. b = StateOf(time, length, bytes, x, long, over) BY <1>1, <1>2, SetDue
<1>4. PICK c : c = [b EXCEPT !.bytes = y] OBVIOUS
<1>5. c = StateOf(time, length, y, x, long, over) BY <1>3, <1>4, SetBytes
<1>6. PICK d : d = [c EXCEPT !.over = z] OBVIOUS
<1>7. d = StateOf(time, length, y, x, long, z) BY <1>5, <1>6, SetOver
<1> QED BY <1>1, <1>2, <1>4, <1>6, <1>7, Zenon DEF WithDueBytesOver

LEMMA LengthBytesSet ==
  ASSUME NEW time, NEW length, NEW bytes, NEW due, NEW long, NEW over, NEW x, NEW y
  PROVE  WithLengthBytes(StateOf(time, length, bytes, due, long, over), x, y) = StateOf(time, x, y, due, long, over)
<1>1. PICK a : a = StateOf(time, length, bytes, due, long, over) OBVIOUS
<1>2. PICK b : b = [a EXCEPT !.length = x] OBVIOUS
<1>3. b = StateOf(time, x, bytes, due, long, over) BY <1>1, <1>2, SetLength
<1>4. PICK c : c = [b EXCEPT !.bytes = y] OBVIOUS
<1>5. c = StateOf(time, x, y, due, long, over) BY <1>3, <1>4, SetBytes
<1> QED BY <1>1, <1>2, <1>4, <1>5, Zenon DEF WithLengthBytes

LEMMA TimeLongSet ==
  ASSUME NEW time, NEW length, NEW bytes, NEW due, NEW long, NEW over, NEW x, NEW y
  PROVE  WithTimeLong(StateOf(time, length, bytes, due, long, over), x, y) = StateOf(x, length, bytes, due, y, over)
<1>1. PICK a : a = StateOf(time, length, bytes, due, long, over) OBVIOUS
<1>2. PICK b : b = [a EXCEPT !.time = x] OBVIOUS
<1>3. b = StateOf(x, length, bytes, due, long, over) BY <1>1, <1>2, SetTime
<1>4. PICK c : c = [b EXCEPT !.long = y] OBVIOUS
<1>5. c = StateOf(x, length, bytes, due, y, over) BY <1>3, <1>4, SetLong
<1> QED BY <1>1, <1>2, <1>4, <1>5, Zenon DEF WithTimeLong

LEMMA LongTimeSet ==
  ASSUME NEW time, NEW length, NEW bytes, NEW due, NEW long, NEW over, NEW x, NEW y
  PROVE  WithLongTime(StateOf(time, length, bytes, due, long, over), x, y) = StateOf(y, length, bytes, due, x, over)
<1>1. PICK a : a = StateOf(time, length, bytes, due, long, over) OBVIOUS
<1>2. PICK b : b = [a EXCEPT !.long = x] OBVIOUS
<1>3. b = StateOf(time, length, bytes, due, x, over) BY <1>1, <1>2, SetLong
<1>4. PICK c : c = [b EXCEPT !.time = y] OBVIOUS
<1>5. c = StateOf(y, length, bytes, due, x, over) BY <1>3, <1>4, SetTime
<1> QED BY <1>1, <1>2, <1>4, <1>5, Zenon DEF WithLongTime

LEMMA NothingIs == NothingRead = StateOf(0, 0, <<>>, 0, FALSE, FALSE)
BY DEF NothingRead, StateOf

NextHeader == [kind |-> "header", format |-> 3]
FirstHeader(t, length) == [kind |-> "header", format |-> 0, length |-> length, time |-> t]
Extension(time) == [kind |-> "extension", time |-> time]

(* Nothing is due in s, of a message at this time and of this length. *)
BetweenChunks(s, time, length, bytes, long) == s = StateOf(time, length, bytes, 0, long, FALSE)
WithinChunk(s, time, length, bytes, m) == s = StateOf(time, length, bytes, m, FALSE, FALSE)

(* So much is due in the next chunk. *)
DueNext(m, length, bytes, size) ==
    /\ {m, length, size, Len(bytes)} \subseteq Nat /\ Len(bytes) < length
    /\ m = IF length - Len(bytes) < size THEN length - Len(bytes) ELSE size

LEMMA BeginChunk ==
  ASSUME NEW s, NEW time, NEW length, NEW bytes, BetweenChunks(s, time, length, bytes, FALSE),
         NEW size, NEW m, DueNext(m, length, bytes, size)
  PROVE  WithinChunk(ChunkBegun(s, size), time, length, bytes, m)
<1>0. PICK i \in Nat : i = Len(bytes) BY DEF DueNext
<1>1. s.length = length /\ s.bytes = bytes BY DEF StateOf, BetweenChunks
<1>2. Missing(s) = length - i BY <1>0, <1>1, Zenon DEF Missing
<1>3. (Missing(s) = 0) = FALSE
  <2>1. length - i # 0 BY <1>0 DEF DueNext
  <2> QED BY <1>2, <2>1, Zenon
<1>4. (IF Missing(s) < size THEN Missing(s) ELSE size) = m BY <1>0, <1>2, Zenon DEF DueNext
<1>5. ChunkBegun(s, size) = [s EXCEPT !.due = m, !.over = FALSE]
  BY <1>3, <1>4, Zenon DEF ChunkBegun
<1>6. PICK no : no = FALSE OBVIOUS
<1>7. PICK p : p = StateOf(time, length, bytes, 0, no, no) OBVIOUS
<1>8. WithDueOver(p, m, no) = StateOf(time, length, bytes, m, no, no) BY <1>7, DueOverSet
<1>9. s = p BY <1>6, <1>7, Zenon DEF BetweenChunks
<1>10. ChunkBegun(s, size) = WithDueOver(s, m, no) BY <1>5, <1>6, Zenon DEF WithDueOver
<1> QED BY <1>6, <1>8, <1>9, <1>10, Zenon DEF WithinChunk

LEMMA ReadNextHeader ==
  ASSUME NEW s, NEW time, NEW length, NEW bytes, BetweenChunks(s, time, length, bytes, FALSE), NEW size
  PROVE  ElementRead(s, NextHeader, size) = ChunkBegun(s, size)
<1>1. s.due = 0 /\ s.long = FALSE /\ s.over = FALSE BY DEF StateOf, BetweenChunks
<1>2. ~(0 > 0) OBVIOUS
<1>3. ~s.long /\ ~s.over /\ ~(s.due > 0) BY <1>1, <1>2, Zenon
<1>4. PICK e : e = NextHeader OBVIOUS
<1>5. e.kind = "header" /\ e.format = 3 BY <1>4 DEF NextHeader
<1> QED BY <1>1, <1>3, <1>4, <1>5, Zenon DEF ElementRead

LEMMA ReadFirstHeader ==
  ASSUME NEW length, NEW size, NEW t \in Nat
  PROVE  /\ t = TimeField => BetweenChunks(ElementRead(NothingRead, FirstHeader(t, length), size), 0, length, <<>>, TRUE)
         /\ t # TimeField => ElementRead(NothingRead, FirstHeader(t, length), size)
                              = ChunkBegun(StateOf(t, length, <<>>, 0, FALSE, FALSE), size)
<1>s. PICK s : s = ElementRead(NothingRead, FirstHeader(t, length), size) OBVIOUS
<1>1. PICK r : r = NothingRead OBVIOUS
<1>0. r = StateOf(0, 0, <<>>, 0, FALSE, FALSE) BY <1>1, NothingIs
<1>2. r.time = 0 /\ r.due = 0 /\ r.long = FALSE /\ r.over = FALSE BY <1>0 DEF StateOf
<1>e. PICK e : e = FirstHeader(t, length) OBVIOUS
<1>3. e.kind = "header" /\ e.format = 0 /\ e.length = length /\ e.time = t BY <1>e DEF FirstHeader
<1>4. s = HeaderRead(r, e, size)
  <2>1. ~(0 > 0) /\ 0 # 3 OBVIOUS
  <2>2. ~r.long /\ ~r.over /\ ~(r.due > 0) /\ e.format # 3 BY <1>2, <1>3, <2>1, Zenon
  <2> QED BY <1>1, <1>2, <1>3, <1>e, <1>s, <2>2, Zenon DEF ElementRead
<1>5. PICK b : b = WithLengthBytes(r, length, <<>>) OBVIOUS
<1>no. PICK no : no = FALSE OBVIOUS
<1>yes. PICK yes : yes = TRUE OBVIOUS
<1>6. b = StateOf(0, length, <<>>, 0, no, no)
  <2>1. r = StateOf(0, 0, <<>>, 0, no, no) BY <1>0, <1>no, Zenon
  <2> QED BY <1>5, <2>1, LengthBytesSet
<1>7. HeaderRead(r, e, size) = IF t = TimeField THEN WithTimeLong(b, 0, yes)
                               ELSE ChunkBegun(WithTime(b, 0 + t), size)
  <2>1. 0 # 2 OBVIOUS
  <2>2. e.format # 2 BY <1>3, <2>1, Zenon
  <2> QED BY <1>2, <1>3, <1>5, <1>yes, <2>2, Zenon DEF HeaderRead, WithLengthBytes, WithTimeLong, WithTime
<1>8. WithTimeLong(b, 0, yes) = StateOf(0, length, <<>>, 0, yes, no) BY <1>6, TimeLongSet
<1>9. WithTime(b, t) = StateOf(t, length, <<>>, 0, no, no) BY <1>6, TimeSet
<1>10. 0 + t = t OBVIOUS
<1> QED BY <1>4, <1>7, <1>8, <1>9, <1>10, <1>no, <1>s, <1>yes, Zenon DEF BetweenChunks

LEMMA ReadExtension ==
  ASSUME NEW time \in Nat, NEW length, NEW size, NEW s, BetweenChunks(s, 0, length, <<>>, TRUE)
  PROVE  ElementRead(s, Extension(time), size) = ChunkBegun(StateOf(time, length, <<>>, 0, FALSE, FALSE), size)
<1>1. s.time = 0 /\ s.due = 0 /\ s.long = TRUE /\ s.over = FALSE BY DEF StateOf, BetweenChunks
<1>e. PICK e : e = Extension(time) OBVIOUS
<1>2. e.kind = "extension" /\ e.time = time BY <1>e DEF Extension
<1>h. "extension" # "header" OBVIOUS
<1>3. ElementRead(s, e, size) = ChunkBegun([s EXCEPT !.long = FALSE, !.time = @ + e.time], size)
  <2>1. ~(0 > 0) OBVIOUS
  <2>2. s.long /\ ~s.over /\ ~(s.due > 0) BY <1>1, <2>1, Zenon
  <2> QED BY <1>1, <1>2, <1>h, <2>2, Zenon DEF ElementRead
<1>4. 0 + time = time OBVIOUS
<1>5. [s EXCEPT !.long = FALSE, !.time = @ + e.time] = [s EXCEPT !.long = FALSE, !.time = time]
  BY <1>1, <1>2, <1>4, Zenon
<1>no. PICK no : no = FALSE OBVIOUS
<1>yes. PICK yes : yes = TRUE OBVIOUS
<1>6. s = StateOf(0, length, <<>>, 0, yes, no) BY <1>no, <1>yes, Zenon DEF BetweenChunks
<1>7. WithLongTime(s, no, time) = StateOf(time, length, <<>>, 0, no, no)
  <2>1. PICK p : p = StateOf(0, length, <<>>, 0, yes, no) OBVIOUS
  <2>2. WithLongTime(p, no, time) = StateOf(time, length, <<>>, 0, no, no) BY <2>1, LongTimeSet
  <2> QED BY <1>6, <2>1, <2>2
<1>8. [s EXCEPT !.long = FALSE, !.time = time] = WithLongTime(s, no, time) BY <1>no, Zenon DEF WithLongTime
<1> QED BY <1>3, <1>5, <1>7, <1>8, <1>e, <1>no, Zenon

(* The payload of a message of bytes 1, 2, ...: the first of them, or a part. *)
Byte(v) == [kind |-> "byte", value |-> v]
AllBytes == {Byte(v) : v \in Nat}
FirstBytes(i) == [q \in 1 .. i |-> Byte(q)]
BytesAfter(o, m) == [j \in 1 .. m |-> Byte(o + j)]

LEMMA FirstGrows ==
  ASSUME NEW i \in Nat
  PROVE  /\ FirstBytes(i) \in Seq(AllBytes) /\ Len(FirstBytes(i)) = i
         /\ Append(FirstBytes(i), Byte(i + 1)) = FirstBytes(i + 1)
<1>1. \A v \in Nat : Byte(v) \in AllBytes BY DEF AllBytes
<1>2. ASSUME NEW n \in Nat
      PROVE  /\ FirstBytes(n) \in Seq(AllBytes) /\ Len(FirstBytes(n)) = n
             /\ \A q \in 1 .. n : FirstBytes(n)[q] = Byte(q)
  <2>1. FirstBytes(n) = [q \in 1 .. n |-> Byte(q)] BY DEF FirstBytes
  <2>2. \A q \in 1 .. n : Byte(q) \in AllBytes BY <1>1
  <2> QED BY <2>1, <2>2
<1>3. i + 1 \in Nat /\ Byte(i + 1) \in AllBytes BY <1>1
<1>4. PICK more : more = Append(FirstBytes(i), Byte(i + 1)) OBVIOUS
<1>5. /\ more \in Seq(AllBytes) /\ Len(more) = i + 1 /\ more[i + 1] = Byte(i + 1)
      /\ \A q \in 1 .. i : more[q] = Byte(q)
  BY <1>2, <1>3, <1>4, AppendProperties
<1>6. ASSUME NEW q \in 1 .. Len(more) PROVE more[q] = FirstBytes(i + 1)[q]
  <2>1. q \in 1 .. i + 1 /\ (q = i + 1 \/ q \in 1 .. i) BY <1>5
  <2> QED BY <1>2, <1>3, <1>5, <2>1
<1>7. more = FirstBytes(i + 1) BY <1>2, <1>3, <1>5, <1>6, SeqEqual
<1> QED BY <1>2, <1>4, <1>7

LEMMA FirstIsPayload ==
  ASSUME NEW length \in Nat
  PROVE  Payload(Bytes(length)) = FirstBytes(length) /\ FirstBytes(0) = <<>> /\ Len(Bytes(length)) = length
<1>1. PICK bytes : bytes = Bytes(length) OBVIOUS
<1>2. DOMAIN bytes = 1 .. length /\ (\A i \in 1 .. length : bytes[i] = i) /\ Len(bytes) = length
  BY <1>1 DEF Bytes
<1>3. Payload(bytes) = FirstBytes(length) BY <1>2 DEF Payload, FirstBytes, Byte
<1>4. FirstBytes(0) \in Seq(AllBytes) /\ Len(FirstBytes(0)) = 0 BY FirstGrows
<1>5. FirstBytes(0) = <<>> BY <1>4, EmptySeq
<1> QED BY <1>1, <1>2, <1>3, <1>5

LEMMA NextBytes ==
  ASSUME NEW o \in Nat, NEW m \in Nat
  PROVE  /\ BytesAfter(o, m) \in Seq(AllBytes) /\ Len(BytesAfter(o, m)) = m
         /\ \A j \in 1 .. m : BytesAfter(o, m)[j] = Byte(o + j)
<1>1. \A j \in 1 .. m : Byte(o + j) \in AllBytes BY DEF AllBytes
<1>2. BytesAfter(o, m) \in Seq(AllBytes) /\ Len(BytesAfter(o, m)) = m BY <1>1 DEF BytesAfter
<1>3. \A j \in 1 .. m : BytesAfter(o, m)[j] = Byte(o + j) BY DEF BytesAfter
<1> QED BY <1>2, <1>3

LEMMA PartIsPayload ==
  ASSUME NEW length \in Nat, NEW o \in Nat, NEW m \in Nat, o + m <= length,
         NEW to, to = o + m
  PROVE  Payload(SubSeq(Bytes(length), o + 1, to)) = BytesAfter(o, m)
<1>1. PICK part : part = SubSeq(Bytes(length), o + 1, to) OBVIOUS
<1>2. DOMAIN part = 1 .. m /\ \A j \in 1 .. m : part[j] = o + j
  <2>1. PICK bytes : bytes = Bytes(length) OBVIOUS
  <2>2. bytes \in Seq(Nat) /\ Len(bytes) = length /\ \A i \in 1 .. length : bytes[i] = i
    BY <2>1 DEF Bytes
  <2>3. \A i \in o + 1 .. to : bytes[i] = i /\ bytes[i] \in Nat
    <3>1. \A i \in o + 1 .. to : i \in 1 .. length OBVIOUS
    <3> QED BY <2>2, <3>1
  <2>4. part = [j \in 1 .. m |-> bytes[(o + 1) + j - 1]]
    <3>1. to - (o + 1) + 1 = m OBVIOUS
    <3> QED BY <1>1, <2>1, <3>1, SubSeqProperties
  <2>5. \A j \in 1 .. m : (o + 1) + j - 1 = o + j /\ o + j \in o + 1 .. to OBVIOUS
  <2> QED BY <2>3, <2>4, <2>5
<1>3. Payload(part) = [j \in 1 .. m |-> Byte(part[j])] BY <1>2 DEF Payload, Byte
<1>4. Payload(part) = BytesAfter(o, m) BY <1>2, <1>3 DEF BytesAfter
<1> QED BY <1>1, <1>4

(* state follows the elements of a stream. *)
Follows(state, stream, n, size) == \A i \in 1 .. n : state[i] = ElementRead(state[i - 1], stream[i], size)

(* The payload behind place p. *)
Loaded(stream, p, o, m) == \A j \in 1 .. m : stream[p + j] = Byte(o + j)

(* The first o bytes of a message were read, perhaps the last ones. *)
ReadUpTo(s, time, length, o) ==
    \E last \in BOOLEAN : last = (o = length) /\ s = StateOf(time, length, FirstBytes(o), 0, FALSE, last)

(* The payload of a chunk is read to its end. *)
LEMMA PayloadRead ==
  ASSUME NEW state, NEW stream, NEW n \in Nat, NEW size, Follows(state, stream, n, size),
         NEW length \in Nat, NEW o \in Nat, NEW m \in Nat, m >= 1, o + m <= length,
         NEW p \in Nat, p + m <= n, Loaded(stream, p, o, m),
         NEW time, WithinChunk(state[p], time, length, FirstBytes(o), m)
  PROVE  ReadUpTo(state[p + m], time, length, o + m)
<1>last. PICK last \in BOOLEAN : last = (o + m = length) OBVIOUS
<1> DEFINE T == {j \in 0 .. m :
                   /\ j < m => state[p + j] = StateOf(time, length, FirstBytes(o + j), m - j, FALSE, FALSE)
                   /\ j = m => state[p + j] = StateOf(time, length, FirstBytes(o + j), m - j, FALSE, last)}
<1>1. 0 \in T
  <2>1. p + 0 = p /\ o + 0 = o /\ m - 0 = m /\ 0 < m /\ 0 # m /\ 0 \in 0 .. m OBVIOUS
  <2>2. state[p + 0] = StateOf(time, length, FirstBytes(o + 0), m - 0, FALSE, FALSE) BY <2>1, Zenon DEF WithinChunk
  <2> QED BY <2>1, <2>2, Zenon
<1>2. ASSUME NEW j \in 0 .. m, j \in T, j < m PROVE j + 1 \in T
  <2>1. j + 1 \in 1 .. m /\ p + (j + 1) \in 1 .. n /\ p + (j + 1) - 1 = p + j BY <1>2
  <2>2. PICK s : s = state[p + j] OBVIOUS
  <2>3. s = StateOf(time, length, FirstBytes(o + j), m - j, FALSE, FALSE) BY <1>2, <2>2, Zenon
  <2>4. PICK e : e = Byte((o + j) + 1) OBVIOUS
  <2>5. stream[p + (j + 1)] = e
    <3>1. o + (j + 1) = (o + j) + 1 OBVIOUS
    <3> QED BY <2>1, <2>4, <3>1 DEF Loaded
  <2>6. state[p + (j + 1)] = ElementRead(s, e, size)
    <3>1. state[p + (j + 1)] = ElementRead(state[p + (j + 1) - 1], stream[p + (j + 1)], size)
      BY <2>1 DEF Follows
    <3> QED BY <2>1, <2>2, <2>5, <3>1, Zenon
  <2>7. PICK i \in Nat : i = o + j OBVIOUS
  <2>8. PICK over \in BOOLEAN : over = (length - i = 1) OBVIOUS
  <2>9. ElementRead(s, e, size) = StateOf(time, length, Append(FirstBytes(i), e), (m - j) - 1, FALSE, over)
    <3>1. i = Len(FirstBytes(i)) BY FirstGrows
    <3>2. PICK due \in Nat : due = m - j /\ due > 0 BY <1>2
    <3>3. PICK bytes : bytes = FirstBytes(i) OBVIOUS
    <3>4. s = StateOf(time, length, bytes, due, FALSE, FALSE) BY <2>3, <2>7, <3>2, <3>3, Zenon
    <3>5. ElementRead(s, e, size) = StateOf(time, length, Append(bytes, e), due - 1, FALSE, over)
      <4>1. s.length = length /\ s.bytes = bytes /\ s.due = due /\ s.over = FALSE BY <3>4 DEF StateOf
      <4>2. (Missing(s) = 1) = over BY <2>8, <3>1, <3>3, <4>1, Zenon DEF Missing
      <4>3. due # 0 BY <3>2
      <4>4. ~s.over /\ s.due > 0 /\ s.due # 0 BY <3>2, <4>1, <4>3, Zenon
      <4>5. ElementRead(s, e, size) =
              [s EXCEPT !.due = @ - 1, !.bytes = Append(@, e), !.over = Missing(s) = 1]
        BY <4>4, Zenon DEF ElementRead
      <4>6. PICK no : no = FALSE OBVIOUS
      <4>7. PICK q : q = StateOf(time, length, bytes, due, no, no) OBVIOUS
      <4>8. PICK longer : longer = Append(bytes, e) OBVIOUS
      <4>9. PICK left : left = due - 1 OBVIOUS
      <4>10. WithDueBytesOver(q, left, longer, over) = StateOf(time, length, longer, left, no, over)
        BY <4>7, DueBytesOverSet
      <4>11. s = q BY <3>4, <4>6, <4>7, Zenon
      <4>12. ElementRead(s, e, size) = WithDueBytesOver(s, left, longer, over)
        BY <4>1, <4>2, <4>5, <4>8, <4>9, Zenon DEF WithDueBytesOver
      <4> QED BY <4>6, <4>8, <4>9, <4>10, <4>11, <4>12, Zenon
    <3> QED BY <3>2, <3>3, <3>5, Zenon
  <2>10. Append(FirstBytes(i), e) = FirstBytes(o + (j + 1))
    <3>1. i + 1 = o + (j + 1) /\ (o + j) + 1 = i + 1 BY <2>7
    <3>2. Append(FirstBytes(i), Byte(i + 1)) = FirstBytes(i + 1) BY FirstGrows
    <3> QED BY <2>4, <3>1, <3>2, Zenon
  <2>11. state[p + (j + 1)] = StateOf(time, length, FirstBytes(o + (j + 1)), m - (j + 1), FALSE, over)
    <3>1. (m - j) - 1 = m - (j + 1) OBVIOUS
    <3> QED BY <2>6, <2>9, <2>10, <3>1, Zenon
  <2>12. (j + 1 < m => over = FALSE) /\ (j + 1 = m => over = last)
    <3>1. j + 1 < m => length - i # 1 BY <2>7
    <3>2. j + 1 = m => ((length - i = 1) <=> (o + m = length))
      <4>1. j + 1 = m => o + m = i + 1 BY <2>7
      <4> QED BY <4>1
    <3> QED BY <2>8, <3>1, <3>2, <1>last, Zenon
  <2>13. j + 1 \in 0 .. m BY <2>1
  <2> QED BY <2>11, <2>12, <2>13, Zenon
<1> HIDE DEF T
<1>3. m \in T
  <2>1. \A j \in 0 .. m : j \in T BY <1>1, <1>2, UpTo
  <2> QED BY <2>1
<1>4. state[p + m] = StateOf(time, length, FirstBytes(o + m), m - m, FALSE, last) BY <1>3, Zenon DEF T
<1>5. m - m = 0 OBVIOUS
<1>6. state[p + m] = StateOf(time, length, FirstBytes(o + m), 0, FALSE, last) BY <1>4, <1>5, Zenon
<1> QED BY <1>6, <1>last, Zenon DEF ReadUpTo

LEMMA ProductBelow ==
  ASSUME NEW k \in Nat, NEW size \in Nat \ {0}, NEW c \in 1 .. k
  PROVE  (c - 1) * size + size <= k * size
<1>1. PICK d \in Nat : d = k - c OBVIOUS
<1>2. k * size = ((c - 1) * size + size) + d * size BY <1>1
<1>3. d * size >= 0 /\ d * size \in Int /\ (c - 1) * size \in Int OBVIOUS
<1>4. PICK a \in Int : a = (c - 1) * size BY <1>3
<1>5. PICK b \in Int : b = d * size BY <1>3
<1> QED BY <1>2, <1>3, <1>4, <1>5

LEMMA ChunkBounds ==
  ASSUME NEW length \in Nat, length >= 1, NEW size \in Nat \ {0},
         NEW k, k = (length + size - 1) \div size
  PROVE  /\ k \in Nat /\ k >= 1 /\ length <= k * size
         /\ \A c \in 1 .. k : (c - 1) * size < length
<1>1. k \in Nat /\ k * size <= length + size - 1 /\ length + size - 1 < k * size + size OBVIOUS
<1>2. length <= k * size BY <1>1
<1>3. k >= 1
  <2>1. k = 0 => k * size = 0 BY <1>1
  <2> QED BY <1>1, <1>2, <2>1
<1>4. ASSUME NEW c \in 1 .. k PROVE (c - 1) * size < length
  <2>1. (c - 1) * size + size <= k * size BY <1>1, ProductBelow
  <2>2. PICK a \in Int : a = (c - 1) * size BY <1>1
  <2>3. PICK b \in Int : b = k * size BY <1>1
  <2>4. a + size <= b /\ b <= length + size - 1 BY <1>1, <2>1, <2>2, <2>3
  <2> QED BY <2>2, <2>4
<1> QED BY <1>1, <1>2, <1>3, <1>4

LEMMA Heads ==
  ASSUME NEW time \in Nat, NEW length
  PROVE  /\ MessageHeader(3, time, length) = <<NextHeader>>
         /\ time < TimeField => MessageHeader(0, time, length) = <<FirstHeader(time, length)>>
         /\ time >= TimeField => MessageHeader(0, time, length)
                                  = <<FirstHeader(TimeField, length), Extension(time)>>
<1>0. TimeField \in Nat BY RtmpWireAssumption
<1>1. MessageHeader(3, time, length) = <<NextHeader>> BY Zenon DEF MessageHeader, NextHeader
<1>2. 0 # 3 OBVIOUS
<1>3. MessageHeader(0, time, length)
        = <<FirstHeader(IF time >= TimeField THEN TimeField ELSE time, length)>>
          \o (IF time >= TimeField THEN <<Extension(time)>> ELSE <<>>)
  BY <1>2, Zenon DEF MessageHeader, FirstHeader, Extension
<1>4. CASE time < TimeField
  <2>1. ~(time >= TimeField) BY <1>0, <1>4
  <2>2. PICK h : h = FirstHeader(time, length) OBVIOUS
  <2>3. MessageHeader(0, time, length) = <<h>> \o <<>> BY <1>3, <2>1, <2>2, Zenon
  <2>4. <<h>> \o <<>> = <<h>>
    <3>1. <<h>> \in Seq({h}) OBVIOUS
    <3> QED BY <3>1, ConcatEmptySeq
  <2> QED BY <1>1, <2>1, <2>2, <2>3, <2>4, Zenon
<1>5. CASE time >= TimeField
  <2>1. ~(time < TimeField) BY <1>0, <1>5
  <2>2. PICK h : h = FirstHeader(TimeField, length) OBVIOUS
  <2>3. PICK e : e = Extension(time) OBVIOUS
  <2>4. MessageHeader(0, time, length) = <<h>> \o <<e>> BY <1>3, <1>5, <2>2, <2>3, Zenon
  <2>5. <<h>> \o <<e>> = <<h, e>>
    <3>1. PICK q : q = <<h>> \o <<e>> OBVIOUS
    <3>2. <<h>> \in Seq({h, e}) /\ <<e>> \in Seq({h, e}) /\ Len(<<h>>) = 1 /\ Len(<<e>>) = 1 OBVIOUS
    <3>3. Joins(q, <<h>>, <<e>>, 1, 1, {h, e}) BY <3>1, <3>2, Joined
    <3>4. 1 \in 1 .. 1 /\ 1 + 1 = 2 OBVIOUS
    <3>5. q \in Seq({h, e}) /\ Len(q) = 2 /\ q[1] = <<h>>[1] /\ q[2] = <<e>>[1]
      BY <3>3, <3>4 DEF Joins
    <3>6. q[1] = h /\ q[2] = e BY <3>5
    <3>7. \A i \in 1 .. 2 : i = 1 \/ i = 2 OBVIOUS
    <3>8. <<h, e>> \in Seq({h, e}) /\ Len(<<h, e>>) = 2 /\ <<h, e>>[1] = h /\ <<h, e>>[2] = e OBVIOUS
    <3>9. q = <<h, e>> BY <3>5, <3>6, <3>7, <3>8, SeqEqual
    <3> QED BY <3>1, <3>9
  <2> QED BY <1>1, <2>1, <2>2, <2>3, <2>4, <2>5, Zenon
<1> QED BY <1>0, <1>4, <1>5

(* The head is at the beginning of a stream. *)
StartsWith(stream, n, head) == Len(head) <= n /\ \A j \in 1 .. Len(head) : stream[j] = head[j]

(* A chunk is begun when its head was read. *)
LEMMA FirstHeadRead ==
  ASSUME NEW time \in Nat, NEW length, NEW size, NEW m, DueNext(m, length, FirstBytes(0), size),
         NEW state, NEW stream, NEW n \in Nat, Follows(state, stream, n, size), state[0] = NothingRead,
         StartsWith(stream, n, MessageHeader(0, time, length))
  PROVE  WithinChunk(state[Len(MessageHeader(0, time, length))], time, length, FirstBytes(0), m)
<1>head. PICK head : head = MessageHeader(0, time, length) OBVIOUS
<1>at. Len(head) <= n /\ \A j \in 1 .. Len(head) : stream[j] = head[j] BY <1>head DEF StartsWith
<1>0. TimeField \in Nat BY RtmpWireAssumption
<1>1. FirstBytes(0) = <<>>
  <2>1. 0 \in Nat OBVIOUS
  <2> QED BY <2>1, FirstIsPayload
<1>2. ChunkBegun(StateOf(time, length, <<>>, 0, FALSE, FALSE), size) = StateOf(time, length, <<>>, m, FALSE, FALSE)
  <2>1. PICK s : s = StateOf(time, length, <<>>, 0, FALSE, FALSE) OBVIOUS
  <2>2. BetweenChunks(s, time, length, <<>>, FALSE) BY <2>1, Zenon DEF BetweenChunks
  <2>3. DueNext(m, length, <<>>, size) BY <1>1, Zenon
  <2>4. ChunkBegun(s, size) = StateOf(time, length, <<>>, m, FALSE, FALSE) 
    <3>1. WithinChunk(ChunkBegun(s, size), time, length, <<>>, m) BY <2>2, <2>3, BeginChunk, Zenon
    <3> QED BY <3>1, Zenon DEF WithinChunk
  <2> QED BY <2>1, <2>4, Zenon
<1>3. CASE time < TimeField
  <2>1. PICK h : h = FirstHeader(time, length) OBVIOUS
  <2>2. head = <<h>> /\ Len(head) = 1 /\ head[1] = h
    <3>1. head = <<h>> BY <1>3, <1>head, <2>1, Heads
    <3> QED BY <3>1
  <2>3. 1 \in 1 .. n /\ 1 \in 1 .. 1 /\ 1 - 1 = 0 BY <1>at, <2>2
  <2>4. stream[1] = h BY <1>at, <2>2, <2>3
  <2>5. state[1] = ElementRead(NothingRead, h, size) BY <2>3, <2>4 DEF Follows
  <2>6. time # TimeField BY <1>0, <1>3
  <2>7. ElementRead(NothingRead, h, size) = ChunkBegun(StateOf(time, length, <<>>, 0, FALSE, FALSE), size)
    BY <2>1, <2>6, ReadFirstHeader, Zenon
  <2> QED BY <1>1, <1>2, <1>head, <2>2, <2>5, <2>7, Zenon DEF WithinChunk
<1>4. CASE time >= TimeField
  <2>1. PICK h : h = FirstHeader(TimeField, length) OBVIOUS
  <2>2. PICK e : e = Extension(time) OBVIOUS
  <2>3. head = <<h, e>> /\ Len(head) = 2 /\ head[1] = h /\ head[2] = e
    <3>1. head = <<h, e>> BY <1>4, <1>head, <2>1, <2>2, Heads
    <3> QED BY <3>1
  <2>4. 1 \in 1 .. n /\ 1 \in 1 .. 2 /\ 1 - 1 = 0 /\ 2 \in 1 .. n /\ 2 \in 1 .. 2 /\ 2 - 1 = 1 BY <1>at, <2>3
  <2>5. stream[1] = h /\ stream[2] = e BY <1>at, <2>3, <2>4
  <2>6. PICK s : s = state[1] OBVIOUS
  <2>7. s = ElementRead(NothingRead, h, size) /\ state[2] = ElementRead(s, e, size)
    BY <2>4, <2>5, <2>6 DEF Follows
  <2>8. BetweenChunks(s, 0, length, <<>>, TRUE)
    <3>1. BetweenChunks(ElementRead(NothingRead, FirstHeader(TimeField, length), size), 0, length, <<>>, TRUE)
      <4>1. PICK t \in Nat : t = TimeField BY <1>0
      <4>2. /\ t = TimeField => BetweenChunks(ElementRead(NothingRead, FirstHeader(t, length), size), 0, length, <<>>, TRUE)
            /\ t # TimeField => ElementRead(NothingRead, FirstHeader(t, length), size)
                                 = ChunkBegun(StateOf(t, length, <<>>, 0, FALSE, FALSE), size)
        BY ReadFirstHeader
      <4> QED BY <4>1, <4>2, Zenon
    <3> QED BY <2>1, <2>7, <3>1, Zenon
  <2>9. state[2] = ChunkBegun(StateOf(time, length, <<>>, 0, FALSE, FALSE), size)
    <3>1. ElementRead(s, Extension(time), size) = ChunkBegun(StateOf(time, length, <<>>, 0, FALSE, FALSE), size)
      BY <2>8, ReadExtension
    <3> QED BY <2>2, <2>7, <3>1, Zenon
  <2> QED BY <1>1, <1>2, <1>head, <2>3, <2>9, Zenon DEF WithinChunk
<1>5. time < TimeField \/ time >= TimeField BY <1>0
<1> QED BY <1>3, <1>4, <1>5, Zenon

LEMMA NextHeadRead ==
  ASSUME NEW time, NEW length, NEW size,
         NEW state, NEW stream, NEW n \in Nat, Follows(state, stream, n, size),
         NEW p \in Nat, p < n, stream[p + 1] = NextHeader,
         NEW o \in Nat, BetweenChunks(state[p], time, length, FirstBytes(o), FALSE),
         NEW m, DueNext(m, length, FirstBytes(o), size)
  PROVE  WithinChunk(state[p + 1], time, length, FirstBytes(o), m)
<1>1. p + 1 \in 1 .. n /\ (p + 1) - 1 = p OBVIOUS
<1>2. state[p + 1] = ElementRead(state[p], NextHeader, size)
  <2>1. state[p + 1] = ElementRead(state[(p + 1) - 1], stream[p + 1], size) BY <1>1 DEF Follows
  <2> QED BY <1>1, <2>1, Zenon
<1>3. ElementRead(state[p], NextHeader, size) = ChunkBegun(state[p], size) BY ReadNextHeader, Zenon
<1>4. ChunkBegun(state[p], size) = StateOf(time, length, FirstBytes(o), m, FALSE, FALSE)
  <2>1. WithinChunk(ChunkBegun(state[p], size), time, length, FirstBytes(o), m) BY BeginChunk, Zenon
  <2> QED BY <2>1, Zenon DEF WithinChunk
<1> QED BY <1>2, <1>3, <1>4, Zenon DEF WithinChunk

(* The elements of a message. *)
Elements(time, length) ==
    AllBytes \union {NextHeader, FirstHeader(time, length), FirstHeader(TimeField, length), Extension(time)}

LEMMA HeadTypes ==
  ASSUME NEW time \in Nat, NEW length, NEW format \in {0, 3}, NEW E, E = Elements(time, length)
  PROVE  /\ MessageHeader(format, time, length) \in Seq(E)
         /\ Len(MessageHeader(format, time, length)) \in Nat \ {0}
<1>1. {NextHeader, FirstHeader(time, length), FirstHeader(TimeField, length), Extension(time)} \subseteq E
  BY DEF Elements
<1>2. \A x \in E : <<x>> \in Seq(E) /\ Len(<<x>>) = 1 OBVIOUS
<1>3. \A x, y \in E : <<x, y>> \in Seq(E) /\ Len(<<x, y>>) = 2 OBVIOUS
<1>4. {1, 2} \subseteq Nat \ {0} OBVIOUS
<1>5. CASE format = 3
  <2>1. MessageHeader(format, time, length) = <<NextHeader>> BY <1>5, Heads, Zenon
  <2>2. NextHeader \in E BY <1>1
  <2> QED BY <1>2, <1>4, <2>1, <2>2
<1>6. CASE format = 0 /\ time < TimeField
  <2>1. MessageHeader(format, time, length) = <<FirstHeader(time, length)>> BY <1>6, Heads, Zenon
  <2>2. FirstHeader(time, length) \in E BY <1>1
  <2> QED BY <1>2, <1>4, <2>1, <2>2
<1>7. CASE format = 0 /\ time >= TimeField
  <2>1. MessageHeader(format, time, length) = <<FirstHeader(TimeField, length), Extension(time)>>
    BY <1>7, Heads, Zenon
  <2>2. FirstHeader(TimeField, length) \in E /\ Extension(time) \in E BY <1>1
  <2> QED BY <1>3, <1>4, <2>1, <2>2
<1>8. time < TimeField \/ time >= TimeField
  <2>1. TimeField \in Nat BY RtmpWireAssumption
  <2> QED BY <2>1
<1> QED BY <1>5, <1>6, <1>7, <1>8

(* A chunk with m bytes of payload behind the first o. *)
Chunk(format, time, length, o, m) == MessageHeader(format, time, length) \o BytesAfter(o, m)

(* A chunk is read from its head to its end. *)
LEMMA ChunkRead ==
  ASSUME NEW time \in Nat, NEW length \in Nat, NEW size \in Nat \ {0},
         NEW state, NEW stream, NEW n \in Nat, n = Len(stream), Follows(state, stream, n, size),
         NEW o \in Nat, o < length, NEW m \in Nat, m = IF length - o < size THEN length - o ELSE size,
         NEW format \in {0, 3}, NEW p \in Nat, Behind(stream, p, Chunk(format, time, length, o, m)),
         format = 0 => o = 0 /\ p = 0 /\ state[0] = NothingRead,
         format = 3 => BetweenChunks(state[p], time, length, FirstBytes(o), FALSE)
  PROVE  ReadUpTo(state[p + Len(Chunk(format, time, length, o, m))], time, length, o + m)
<1>E. PICK E : E = Elements(time, length) OBVIOUS
<1>head. PICK head : head = MessageHeader(format, time, length) OBVIOUS
<1>chunk. PICK chunk : chunk = Chunk(format, time, length, o, m) OBVIOUS
<1>at. chunk = head \o BytesAfter(o, m) /\ Behind(stream, p, chunk) BY <1>head, <1>chunk DEF Chunk
<1>1. m >= 1 /\ o + m <= length OBVIOUS
<1>2. head \in Seq(E) /\ Len(head) \in Nat \ {0} BY <1>E, <1>head, HeadTypes
<1>3. PICK l \in Nat \ {0} : l = Len(head) BY <1>2
<1>4. PICK load : load = BytesAfter(o, m) OBVIOUS
<1>5. load \in Seq(E) /\ Len(load) = m /\ \A j \in 1 .. m : load[j] = Byte(o + j)
  <2>1. load \in Seq(AllBytes) /\ Len(load) = m /\ \A j \in 1 .. m : load[j] = Byte(o + j)
    <3>1. /\ BytesAfter(o, m) \in Seq(AllBytes) /\ Len(BytesAfter(o, m)) = m
          /\ \A j \in 1 .. m : BytesAfter(o, m)[j] = Byte(o + j)
      BY NextBytes, Zenon
    <3> QED BY <1>4, <3>1, Zenon
  <2>2. AllBytes \subseteq E BY <1>E DEF Elements
  <2> QED BY <2>1, <2>2
<1>6. Joins(chunk, head, load, l, m, E) BY <1>at, <1>2, <1>3, <1>4, <1>5, Joined
<1>7. Len(chunk) = l + m /\ (\A j \in 1 .. l : chunk[j] = head[j]) /\ \A j \in 1 .. m : chunk[l + j] = load[j]
  BY <1>6 DEF Joins
<1>8. p + (l + m) <= n /\ \A j \in 1 .. l + m : stream[p + j] = chunk[j] BY <1>7, <1>at DEF Behind
<1>9. \A j \in 1 .. l : stream[p + j] = head[j]
  <2>1. \A j \in 1 .. l : j \in 1 .. l + m OBVIOUS
  <2> QED BY <1>7, <1>8, <2>1
<1>10. ASSUME NEW j \in 1 .. m PROVE stream[(p + l) + j] = Byte(o + j)
  <2>1. l + j \in 1 .. l + m /\ p + (l + j) = (p + l) + j OBVIOUS
  <2>2. stream[p + (l + j)] = chunk[l + j] BY <1>8, <2>1
  <2> QED BY <1>5, <1>7, <2>1, <2>2
<1>11. DueNext(m, length, FirstBytes(o), size)
  <2>1. Len(FirstBytes(o)) = o BY FirstGrows
  <2>2. {m, length, size, o} \subseteq Nat OBVIOUS
  <2> QED BY <2>1, <2>2, Zenon DEF DueNext
<1>12. WithinChunk(state[p + l], time, length, FirstBytes(o), m)
  <2>1. CASE format = 0
    <3>1. o = 0 /\ p = 0 /\ state[0] = NothingRead BY <2>1
    <3>2. p + l = l /\ l <= n BY <1>8, <3>1
    <3>3. \A j \in 1 .. l : stream[j] = head[j]
      <4>1. \A j \in 1 .. l : p + j = j BY <3>1
      <4> QED BY <1>9, <4>1
    <3>4. DueNext(m, length, FirstBytes(0), size) BY <1>11, <3>1, Zenon
    <3>5. head = MessageHeader(0, time, length) BY <1>head, <2>1, Zenon
    <3>6. StartsWith(stream, n, MessageHeader(0, time, length)) BY <1>3, <3>2, <3>3, <3>5, Zenon DEF StartsWith
    <3>7. WithinChunk(state[Len(MessageHeader(0, time, length))], time, length, FirstBytes(0), m)
      BY <3>1, <3>4, <3>6, FirstHeadRead, Zenon
    <3> QED BY <1>3, <3>1, <3>2, <3>5, <3>7, Zenon
  <2>2. CASE format = 3
    <3>1. head = <<NextHeader>> BY <1>head, <2>2, Heads
    <3>2. l = 1 /\ head[1] = NextHeader BY <1>3, <3>1
    <3>3. p < n /\ stream[p + 1] = NextHeader
      <4>1. 1 \in 1 .. l /\ p + 1 <= n BY <1>8, <3>2
      <4>2. p < n BY <4>1
      <4> QED BY <1>9, <3>2, <4>1, <4>2
    <3>4. BetweenChunks(state[p], time, length, FirstBytes(o), FALSE) BY <2>2
    <3>5. WithinChunk(state[p + 1], time, length, FirstBytes(o), m)
      BY <1>11, <3>3, <3>4, NextHeadRead, Zenon
    <3> QED BY <3>2, <3>5, Zenon
  <2>3. format = 0 \/ format = 3 OBVIOUS
  <2> QED BY <2>1, <2>2, <2>3, Zenon
<1>13. PICK q \in Nat : q = p + l OBVIOUS
<1>14. q + m <= n /\ q + m = p + (l + m) BY <1>8, <1>13
<1>15. ReadUpTo(state[q + m], time, length, o + m)
  <2>1. Loaded(stream, q, o, m) BY <1>10, <1>13, Zenon DEF Loaded
  <2>2. WithinChunk(state[q], time, length, FirstBytes(o), m) BY <1>12, <1>13, Zenon
  <2> QED BY <1>1, <1>14, <2>1, <2>2, PayloadRead, Zenon
<1>16. p + Len(chunk) = q + m BY <1>7, <1>14
<1> QED BY <1>15, <1>16, <1>chunk, Zenon

(* Where the chunk behind c others begins in the payload, and what it holds. *)
Room(o, length, size) == IF length - o < size THEN length - o ELSE size

LEMMA ChunksOf ==
  ASSUME NEW time \in Nat, NEW length \in Nat, length >= 1, NEW size \in Nat \ {0},
         NEW k, k = (length + size - 1) \div size
  PROVE  \E parts : /\ parts \in Seq(Seq(Elements(time, length))) /\ Len(parts) = k
                    /\ WriteMessage(time, Bytes(length), size) = FlattenSeq(parts)
                    /\ \A c \in 1 .. k : parts[c] = Chunk(IF c = 1 THEN 0 ELSE 3, time, length, (c - 1) * size,
                                                          Room((c - 1) * size, length, size))
<1>1. /\ k \in Nat /\ k >= 1 /\ length <= k * size
      /\ \A c \in 1 .. k : (c - 1) * size < length
  BY ChunkBounds
<1>2. Len(Bytes(length)) = length BY FirstIsPayload
<1> DEFINE UpTo2(i) == IF i * size > length THEN length ELSE i * size
           Part(i) == MessageHeader(IF i = 1 THEN 0 ELSE 3, time, length)
                      \o Payload(SubSeq(Bytes(length), (i - 1) * size + 1, UpTo2(i)))
<1>3. PICK parts : parts = [i \in 1 .. k |-> Part(i)] OBVIOUS
<1>4. WriteMessage(time, Bytes(length), size) = FlattenSeq(parts)
  BY <1>2, <1>3, Zenon DEF WriteMessage
<1>5. ASSUME NEW c \in 1 .. k
      PROVE  /\ Part(c) = Chunk(IF c = 1 THEN 0 ELSE 3, time, length, (c - 1) * size,
                                Room((c - 1) * size, length, size))
             /\ Part(c) \in Seq(Elements(time, length))
  <2>1. PICK o \in Nat : o = (c - 1) * size BY <1>1
  <2>2. o < length BY <1>1, <2>1
  <2>3. PICK m \in Nat : m = Room(o, length, size)
    <3>1. Room(o, length, size) \in Nat BY <2>2 DEF Room
    <3> QED BY <3>1
  <2>4. o + m <= length BY <2>2, <2>3 DEF Room
  <2>5. UpTo2(c) = o + m
    <3>1. c * size = o + size BY <1>1, <2>1
    <3>2. PICK e \in Nat : e = c * size BY <3>1
    <3>3. UpTo2(c) = IF e > length THEN length ELSE e BY <3>2
    <3> HIDE DEF UpTo2
    <3> QED BY <2>2, <2>3, <3>1, <3>2, <3>3 DEF Room
  <2>6. Payload(SubSeq(Bytes(length), o + 1, UpTo2(c))) = BytesAfter(o, m)
    <3>1. PICK to : to = UpTo2(c) OBVIOUS
    <3>2. to = o + m BY <2>5, <3>1
    <3> HIDE DEF UpTo2
    <3>3. Payload(SubSeq(Bytes(length), o + 1, to)) = BytesAfter(o, m) BY <2>4, <3>2, PartIsPayload
    <3> QED BY <3>1, <3>3
  <2> HIDE DEF UpTo2
  <2>7. PICK format \in {0, 3} : format = IF c = 1 THEN 0 ELSE 3 OBVIOUS
  <2>8. Part(c) = Chunk(format, time, length, o, m) BY <2>1, <2>6, <2>7, Zenon DEF Chunk
  <2>9. MessageHeader(format, time, length) \in Seq(Elements(time, length)) BY HeadTypes, Zenon
  <2>10. BytesAfter(o, m) \in Seq(Elements(time, length))
    <3>1. BytesAfter(o, m) \in Seq(AllBytes) BY NextBytes, Zenon
    <3>2. AllBytes \subseteq Elements(time, length) BY Zenon DEF Elements
    <3> QED BY <3>1, <3>2
  <2>11. Chunk(format, time, length, o, m) \in Seq(Elements(time, length))
    BY <2>9, <2>10, ConcatProperties DEF Chunk
  <2> HIDE DEF Part
  <2> QED BY <2>1, <2>3, <2>7, <2>8, <2>11, Zenon
<1> HIDE DEF Part
<1>6. parts \in Seq(Seq(Elements(time, length))) /\ Len(parts) = k
  <2>1. PICK E : E = Elements(time, length) OBVIOUS
  <2>2. \A c \in 1 .. k : Part(c) \in Seq(E) BY <1>5, <2>1, Zenon
  <2>3. parts \in [1 .. k -> Seq(E)] BY <1>3, <2>2, Zenon
  <2>4. parts \in Seq(Seq(E)) /\ Len(parts) = k BY <1>1, <2>3
  <2> QED BY <2>1, <2>4, Zenon
<1>7. \A c \in 1 .. k : parts[c] = Part(c) BY <1>3
<1> QED BY <1>4, <1>5, <1>6, <1>7

(* A message is read as it was wire. *)
LEMMA MessageReadBack ==
  ASSUME NEW time \in Nat, NEW length \in Nat, length >= 1, NEW size \in Nat \ {0}
  PROVE  ReadMessage(WriteMessage(time, Bytes(length), size), size)
           = [time |-> time, bytes |-> Payload(Bytes(length))]
<1>1. PICK k : k = (length + size - 1) \div size OBVIOUS
<1>2. /\ k \in Nat /\ k >= 1 /\ length <= k * size
      /\ \A c \in 1 .. k : (c - 1) * size < length
  BY <1>1, ChunkBounds
<1>3. PICK stream : stream = WriteMessage(time, Bytes(length), size) OBVIOUS
<1>4. PICK E : E = Elements(time, length) OBVIOUS
<1>5. PICK parts \in Seq(Seq(E)) :
         /\ Len(parts) = k /\ stream = FlattenSeq(parts)
         /\ \A c \in 1 .. k : parts[c] = Chunk(IF c = 1 THEN 0 ELSE 3, time, length, (c - 1) * size,
                                               Room((c - 1) * size, length, size))
  BY <1>1, <1>3, <1>4, ChunksOf
<1>6. stream \in Seq(E) BY <1>5, FlattenType
<1>7. PICK n \in Nat : n = Len(stream) /\ DOMAIN stream = 1 .. n BY <1>6, LenProperties
<1>8. PICK state : /\ state[0] = NothingRead /\ Follows(state, stream, n, size)
                   /\ ReadMessage(stream, size)
                        = IF state[n].over THEN [time |-> state[n].time, bytes |-> state[n].bytes]
                          ELSE Garbled
  <2>1. DOMAIN stream = 1 .. n BY <1>7
  <2>2. \E state : /\ state[0] = NothingRead
                   /\ \A i \in 1 .. n : state[i] = ElementRead(state[i - 1], stream[i], size)
                   /\ ReadMessage(stream, size)
                        = IF state[n].over THEN [time |-> state[n].time, bytes |-> state[n].bytes]
                          ELSE Garbled
    BY <2>1, ReadSteps
  <2> QED BY <2>2, Zenon DEF Follows
<1> DEFINE P(c) == Len(Flat(parts, c))
           Reached(c) == IF c = 0 THEN state[P(c)] = NothingRead /\ P(c) = 0
                         ELSE ReadUpTo(state[P(c)], time, length, IF c = k THEN length ELSE c * size)
           T == {c \in 0 .. k : Reached(c)}
<1>9. /\ \A c \in 0 .. k : P(c) \in Nat
      /\ \A c \in 1 .. k : Behind(stream, P(c - 1), parts[c]) /\ P(c) = P(c - 1) + Len(parts[c])
      /\ P(0) = 0 /\ P(k) = n
  <2>1. /\ Flat(parts, 0) = <<>> /\ (\A c \in 0 .. k : Flat(parts, c) \in Seq(E))
        /\ Flat(parts, k) = stream
    BY <1>2, <1>5, FlatParts
  <2>2. \A c \in 1 .. k : Behind(stream, P(c - 1), parts[c]) /\ P(c) = P(c - 1) + Len(parts[c])
    BY <1>2, <1>5, FlatPlaces
  <2>3. \A c \in 0 .. k : P(c) \in Nat BY <2>1, LenProperties
  <2>4. P(0) = 0 BY <2>1
  <2>5. P(k) = n BY <1>7, <2>1
  <2> QED BY <2>2, <2>3, <2>4, <2>5
<1> HIDE DEF P
<1>10. 0 \in T
  <2>1. 0 \in 0 .. k BY <1>2
  <2> QED BY <1>8, <1>9, <2>1, Zenon
<1>11. ASSUME NEW c \in 0 .. k, c \in T, c < k PROVE c + 1 \in T
  <2>1. c + 1 \in 1 .. k /\ (c + 1) - 1 = c /\ c + 1 # 0 /\ c + 1 \in 0 .. k BY <1>2, <1>11
  <2>2. PICK o \in Nat : o = c * size BY <1>2
  <2>3. o < length
    <3>1. ((c + 1) - 1) * size < length BY <1>2, <2>1
    <3> QED BY <2>1, <2>2, <3>1, Zenon
  <2>4. PICK m \in Nat : m = IF length - o < size THEN length - o ELSE size
    <3>1. (IF length - o < size THEN length - o ELSE size) \in Nat BY <2>3
    <3> QED BY <3>1
  <2>5. PICK format \in {0, 3} : format = IF c + 1 = 1 THEN 0 ELSE 3 OBVIOUS
  <2>6. parts[c + 1] = Chunk(format, time, length, o, m)
    <3>1. parts[c + 1] = Chunk(IF c + 1 = 1 THEN 0 ELSE 3, time, length, ((c + 1) - 1) * size,
                               Room(((c + 1) - 1) * size, length, size))
      BY <1>5, <2>1, Zenon
    <3>2. m = Room(o, length, size) BY <2>4, Zenon DEF Room
    <3> QED BY <2>1, <2>2, <2>5, <3>1, <3>2, Zenon
  <2>7. PICK p \in Nat : p = P(c) BY <1>9
  <2>8. Behind(stream, p, Chunk(format, time, length, o, m))
        /\ P(c + 1) = p + Len(Chunk(format, time, length, o, m))
    BY <1>9, <2>1, <2>6, <2>7, Zenon
  <2>9. format = 0 => o = 0 /\ p = 0 /\ state[0] = NothingRead
    <3>1. format = 0 => c = 0 BY <2>5
    <3>2. c = 0 => o = 0 BY <2>2
    <3> QED BY <1>8, <1>9, <2>7, <3>1, <3>2, Zenon
  <2>10. format = 3 => BetweenChunks(state[p], time, length, FirstBytes(o), FALSE)
    <3>1. SUFFICES ASSUME format = 3 PROVE BetweenChunks(state[p], time, length, FirstBytes(o), FALSE)
      OBVIOUS
    <3>2. c # 0 /\ c # k BY <1>11, <2>5, <3>1
    <3>3. ReadUpTo(state[p], time, length, o) BY <1>11, <2>2, <2>7, <3>2, Zenon
    <3>4. (o = length) = FALSE
      <4>1. o # length BY <2>3
      <4> QED BY <4>1, Zenon
    <3> QED BY <3>3, <3>4, Zenon DEF ReadUpTo, BetweenChunks
  <2>11. ReadUpTo(state[P(c + 1)], time, length, o + m)
    <3>1. ReadUpTo(state[p + Len(Chunk(format, time, length, o, m))], time, length, o + m)
      BY <1>7, <1>8, <2>3, <2>4, <2>8, <2>9, <2>10, ChunkRead, Zenon
    <3> QED BY <2>8, <3>1, Zenon
  <2>12. o + m = IF c + 1 = k THEN length ELSE (c + 1) * size
    <3>1. (c + 1) * size = o + size BY <1>2, <2>2
    <3>2. CASE c + 1 = k
      <4>1. length <= o + size BY <1>2, <3>1, <3>2
      <4> QED BY <2>3, <2>4, <3>2, <4>1
    <3>3. CASE c + 1 # k
      <4>1. c + 2 \in 1 .. k /\ (c + 2) - 1 = c + 1 BY <1>2, <2>1, <3>3
      <4>2. ((c + 2) - 1) * size < length BY <1>2, <4>1
      <4>3. (c + 1) * size < length BY <4>1, <4>2, Zenon
      <4>4. o + size < length BY <3>1, <4>3, Zenon
      <4>5. m = size BY <2>4, <4>4
      <4> QED BY <3>1, <3>3, <4>5, Zenon
    <3> QED BY <3>2, <3>3
  <2> QED BY <2>1, <2>11, <2>12, Zenon
<1> HIDE DEF T
<1>12. k \in T
  <2>1. \A c \in 0 .. k : c \in T BY <1>2, <1>10, <1>11, UpTo
  <2>2. k \in 0 .. k BY <1>2
  <2> QED BY <2>1, <2>2
<1>13. ReadUpTo(state[n], time, length, length)
  <2>1. k # 0 BY <1>2
  <2>2. ReadUpTo(state[P(k)], time, length, length) BY <1>12, <2>1, Zenon DEF T
  <2> QED BY <1>9, <2>2, Zenon
<1>14. PICK last \in BOOLEAN : last /\ state[n] = StateOf(time, length, FirstBytes(length), 0, FALSE, last)
  BY <1>13, Zenon DEF ReadUpTo
<1>15. state[n].over = last /\ state[n].time = time /\ state[n].bytes = FirstBytes(length) BY <1>14 DEF StateOf
<1>16. ReadMessage(stream, size) = [time |-> time, bytes |-> FirstBytes(length)] BY <1>8, <1>14, <1>15, Zenon
<1>17. Payload(Bytes(length)) = FirstBytes(length) BY FirstIsPayload
<1> QED BY <1>3, <1>16, <1>17, Zenon

-----------------------------------------------------------------------------
(* Pictures come out as access units. *)

PictureKinds == {"sps", "pps", "idr", "other"}

LEMMA LastGrown ==
  ASSUME NEW g \in Seq(Seq(PictureKinds)), NEW s \in Seq(PictureKinds), NEW u \in PictureKinds,
         ~StartsNewAU(u, s)
  PROVE  Grown(Append(g, s), u) = Append(g, Append(s, u))
<1>1. PICK h : h = Append(g, s) OBVIOUS
<1>2. PICK n \in Nat : n = Len(g) BY LenProperties
<1>3. /\ h \in Seq(Seq(PictureKinds)) /\ Len(h) = n + 1 /\ h[n + 1] = s /\ \A i \in 1 .. n : h[i] = g[i]
  BY <1>1, <1>2, AppendProperties
<1>4. h # <<>> /\ Last(h) = s BY <1>3 DEF Last
<1>5. PICK t : t = Append(s, u) OBVIOUS
<1>6. t \in Seq(PictureKinds) BY <1>5
<1>7. Grown(h, u) = [h EXCEPT ![n + 1] = t] BY <1>3, <1>4, <1>5, Zenon DEF Grown
<1>8. PICK r : r = [h EXCEPT ![n + 1] = t] OBVIOUS
<1>9. r \in Seq(Seq(PictureKinds)) /\ Len(r) = n + 1 /\ r[n + 1] = t /\ \A i \in 1 .. n : r[i] = g[i]
  BY <1>3, <1>6, <1>8
<1>10. PICK q : q = Append(g, t) OBVIOUS
<1>11. /\ q \in Seq(Seq(PictureKinds)) /\ Len(q) = n + 1 /\ q[n + 1] = t /\ \A i \in 1 .. n : q[i] = g[i]
  BY <1>2, <1>6, <1>10, AppendProperties
<1>12. ASSUME NEW i \in 1 .. n + 1 PROVE r[i] = q[i]
  <2>1. i \in 1 .. n \/ i = n + 1 OBVIOUS
  <2> QED BY <1>9, <1>11, <2>1
<1>13. r = q BY <1>9, <1>11, <1>12, SeqEqual
<1> QED BY <1>1, <1>5, <1>7, <1>8, <1>10, <1>13, Zenon

LEMMA AppendToTwo ==
  ASSUME NEW E, NEW x \in E, NEW y \in E, NEW z \in E
  PROVE  Append(<<x, y>>, z) = <<x, y, z>>
<1>1. <<x, y>> \in Seq(E) /\ Len(<<x, y>>) = 2 /\ <<x, y>>[1] = x /\ <<x, y>>[2] = y OBVIOUS
<1>2. PICK s : s = Append(<<x, y>>, z) OBVIOUS
<1>3. s \in Seq(E) /\ Len(s) = 3 /\ s[1] = x /\ s[2] = y /\ s[3] = z
  <2>1. 2 + 1 = 3 /\ 1 \in 1 .. 2 /\ 2 \in 1 .. 2 OBVIOUS
  <2> QED BY <1>1, <1>2, <2>1, AppendProperties
<1>4. /\ <<x, y, z>> \in Seq(E) /\ Len(<<x, y, z>>) = 3
      /\ <<x, y, z>>[1] = x /\ <<x, y, z>>[2] = y /\ <<x, y, z>>[3] = z
  OBVIOUS
<1>5. \A i \in 1 .. 3 : i = 1 \/ i = 2 \/ i = 3 OBVIOUS
<1>6. s = <<x, y, z>> BY <1>3, <1>4, <1>5, SeqEqual
<1> QED BY <1>2, <1>6

LEMMA FirstOfAU ==
  ASSUME NEW g, NEW u \in {"sps", "other"}
  PROVE  Grown(g, u) = Append(g, <<u>>)
<1>1. StartsNewAU(u, Last(g)) BY DEF StartsNewAU
<1> QED BY <1>1, Zenon DEF Grown

LEMMA SetsTogether ==
  ASSUME NEW g \in Seq(Seq(PictureKinds))
  PROVE  /\ Grown(Append(g, <<"sps">>), "pps") = Append(g, <<"sps", "pps">>)
         /\ Grown(Append(g, <<"sps", "pps">>), "idr") = Append(g, <<"sps", "pps", "idr">>)
<1>1. /\ <<"sps">> \in Seq(PictureKinds) /\ <<"sps", "pps">> \in Seq(PictureKinds)
      /\ "sps" \in PictureKinds /\ "pps" \in PictureKinds /\ "idr" \in PictureKinds
  BY DEF PictureKinds
<1>2. ~StartsNewAU("pps", <<"sps">>)
  <2>1. "sps" \in ToSet(<<"sps">>) BY DEF ToSet
  <2> QED BY <2>1 DEF StartsNewAU
<1>3. ~StartsNewAU("idr", <<"sps", "pps">>)
  <2>1. "sps" \in ToSet(<<"sps", "pps">>) BY DEF ToSet
  <2>2. "sps" \in {"sps", "pps"} \intersect ToSet(<<"sps", "pps">>) BY <2>1
  <2> QED BY <2>2 DEF StartsNewAU
<1> HIDE DEF PictureKinds
<1>4. Append(<<"sps">>, "pps") = <<"sps", "pps">> BY <1>1, AppendToOne
<1>5. Append(<<"sps", "pps">>, "idr") = <<"sps", "pps", "idr">> BY <1>1, AppendToTwo
<1>6. Grown(Append(g, <<"sps">>), "pps") = Append(g, <<"sps", "pps">>)
  <2>1. Grown(Append(g, <<"sps">>), "pps") = Append(g, Append(<<"sps">>, "pps"))
    BY <1>1, <1>2, LastGrown, Zenon
  <2> QED BY <1>4, <2>1, Zenon
<1>7. Grown(Append(g, <<"sps", "pps">>), "idr") = Append(g, <<"sps", "pps", "idr">>)
  <2>1. Grown(Append(g, <<"sps", "pps">>), "idr") = Append(g, Append(<<"sps", "pps">>, "idr"))
    BY <1>1, <1>3, LastGrown, Zenon
  <2> QED BY <1>5, <2>1, Zenon
<1> QED BY <1>6, <1>7

LEMMA PictureType ==
  ASSUME NEW key \in BOOLEAN
  PROVE  Picture(key) \in Seq(PictureKinds)
<1>1. <<"other">> \in Seq(PictureKinds) /\ <<"sps", "pps", "idr">> \in Seq(PictureKinds) BY DEF PictureKinds
<1>2. Picture(key) = <<"other">> \/ Picture(key) = <<"sps", "pps", "idr">> BY DEF Picture
<1> QED BY <1>1, <1>2, Zenon

GrownAlong(state, stream) == \A i \in 1 .. Len(stream) : state[i] = Grown(state[i - 1], stream[i])

(* The groups after a picture are those before it and the picture. *)
LEMMA PictureRead ==
  ASSUME NEW stream \in Seq(PictureKinds), NEW state, GrownAlong(state, stream),
         NEW p \in Nat, NEW key \in BOOLEAN, Behind(stream, p, Picture(key)),
         state[p] \in Seq(Seq(PictureKinds))
  PROVE  state[p + Len(Picture(key))] = Append(state[p], Picture(key))
<1>0. PICK n \in Nat : n = Len(stream) BY LenProperties
<1>00. /\ \A i \in 1 .. n : state[i] = Grown(state[i - 1], stream[i])
       /\ p + Len(Picture(key)) <= n
       /\ \A j \in 1 .. Len(Picture(key)) : stream[p + j] = Picture(key)[j]
  BY <1>0, Zenon DEF GrownAlong, Behind
<1>1. CASE ~key
  <2>1. Picture(key) = <<"other">> BY <1>1 DEF Picture
  <2>2. p + 1 \in 1 .. n /\ (p + 1) - 1 = p /\ stream[p + 1] = "other" BY <1>00, <2>1
  <2>3. state[p + 1] = Grown(state[p], "other") BY <1>00, <2>2
  <2>4. Len(Picture(key)) = 1 BY <2>1
  <2> QED BY <2>1, <2>3, <2>4, FirstOfAU, Zenon
<1>2. CASE key
  <2>1. Picture(key) = <<"sps", "pps", "idr">> BY <1>2 DEF Picture
  <2>2. /\ p + 1 \in 1 .. n /\ (p + 1) - 1 = p /\ stream[p + 1] = "sps"
        /\ p + 2 \in 1 .. n /\ (p + 2) - 1 = p + 1 /\ stream[p + 2] = "pps"
        /\ p + 3 \in 1 .. n /\ (p + 3) - 1 = p + 2 /\ stream[p + 3] = "idr"
    BY <1>00, <2>1
  <2>3. /\ state[p + 1] = Grown(state[p], "sps")
        /\ state[p + 2] = Grown(state[p + 1], "pps")
        /\ state[p + 3] = Grown(state[p + 2], "idr")
    BY <1>00, <2>2, Zenon
  <2>4. Len(Picture(key)) = 3 BY <2>1
  <2>5. state[p + 1] = Append(state[p], <<"sps">>)
    <3>1. "sps" \in {"sps", "other"} OBVIOUS
    <3> QED BY <2>3, <3>1, FirstOfAU, Zenon
  <2>6. state[p + 2] = Append(state[p], <<"sps", "pps">>) BY <2>3, <2>5, SetsTogether, Zenon
  <2>7. state[p + 3] = Append(state[p], <<"sps", "pps", "idr">>) BY <2>3, <2>6, SetsTogether, Zenon
  <2> QED BY <2>1, <2>4, <2>7, Zenon
<1> QED BY <1>1, <1>2

LEMMA PicturesRead ==
  ASSUME NEW keys \in Seq(BOOLEAN), NEW pictures, pictures = [i \in DOMAIN keys |-> Picture(keys[i])]
  PROVE  Grouped(FlattenSeq(pictures)) = pictures
<1>1. PICK k \in Nat : k = Len(keys) /\ DOMAIN keys = 1 .. k BY LenProperties
<1>2. \A i \in 1 .. k : keys[i] \in BOOLEAN /\ pictures[i] = Picture(keys[i]) BY <1>1
<1>3. pictures \in Seq(Seq(PictureKinds)) /\ Len(pictures) = k
  <2>2. \A i \in 1 .. k : Picture(keys[i]) \in Seq(PictureKinds) BY <1>2, PictureType, Zenon
  <2>3. pictures \in [1 .. k -> Seq(PictureKinds)] BY <1>1, <2>2, Zenon
  <2> QED BY <1>1, <2>3
<1>4. PICK stream \in Seq(PictureKinds) : stream = FlattenSeq(pictures) BY <1>3, FlattenType
<1>5. PICK n \in Nat : n = Len(stream) /\ DOMAIN stream = 1 .. n BY LenProperties
<1>6. PICK state : /\ state[0] = <<>>
                   /\ GrownAlong(state, stream)
                   /\ state[n] = Grouped(stream)
  <2>1. PICK reader : reader = Reader("groups", 0) OBVIOUS
  <2>2. \A s, e : ReaderStep(reader, s, e) = Grown(s, e)
    <3>1. reader.name = "groups" BY <2>1 DEF Reader
    <3> QED BY <3>1 DEF ReaderStep
  <2>3. DOMAIN stream = 1 .. n BY <1>5
  <2>4. Reads(reader, <<>>, stream, n, Grouped(stream)) BY <2>1, <2>3, GroupsRead
  <2>5. PICK state : /\ state[0] = <<>>
                     /\ \A i \in 1 .. n : state[i] = ReaderStep(reader, state[i - 1], stream[i])
                     /\ state[n] = Grouped(stream)
    BY <2>4, Zenon DEF Reads
  <2>6. \A i \in 1 .. Len(stream) : state[i] = Grown(state[i - 1], stream[i]) BY <1>5, <2>2, <2>5, Zenon
  <2> QED BY <2>5, <2>6, Zenon DEF GrownAlong
<1> DEFINE P(c) == Len(Flat(pictures, c))
           Earlier(c) == [i \in 1 .. c |-> pictures[i]]
           T == {c \in 0 .. k : state[P(c)] = Earlier(c)}
<1>7. /\ \A c \in 0 .. k : P(c) \in Nat
      /\ \A c \in 1 .. k : Behind(stream, P(c - 1), pictures[c]) /\ P(c) = P(c - 1) + Len(pictures[c])
      /\ P(0) = 0 /\ P(k) = n
  <2>1. /\ Flat(pictures, 0) = <<>> /\ (\A c \in 0 .. k : Flat(pictures, c) \in Seq(PictureKinds))
        /\ Flat(pictures, k) = stream
    BY <1>3, <1>4, FlatParts
  <2>2. \A c \in 1 .. k : Behind(stream, P(c - 1), pictures[c]) /\ P(c) = P(c - 1) + Len(pictures[c])
    BY <1>3, <1>4, FlatPlaces
  <2>3. \A c \in 0 .. k : P(c) \in Nat BY <2>1, LenProperties
  <2>4. P(0) = 0 BY <2>1
  <2>5. P(k) = n BY <1>5, <2>1
  <2> QED BY <2>2, <2>3, <2>4, <2>5
<1> HIDE DEF P
<1>8. \A c \in 0 .. k : Earlier(c) \in Seq(Seq(PictureKinds)) /\ Len(Earlier(c)) = c
  <2>1. \A i \in 1 .. k : pictures[i] \in Seq(PictureKinds) BY <1>3
  <2> QED BY <2>1
<1>9. ASSUME NEW c \in 0 .. k, c < k PROVE Earlier(c + 1) = Append(Earlier(c), pictures[c + 1])
  <2>1. c + 1 \in 0 .. k /\ c + 1 \in 1 .. k BY <1>9
  <2>2. pictures[c + 1] \in Seq(PictureKinds) BY <1>3, <2>1
  <2>3. PICK more : more = Append(Earlier(c), pictures[c + 1]) OBVIOUS
  <2>4. /\ more \in Seq(Seq(PictureKinds)) /\ Len(more) = c + 1
        /\ \A j \in 1 .. c : more[j] = Earlier(c)[j]
        /\ more[c + 1] = pictures[c + 1]
    <3>1. Earlier(c) \in Seq(Seq(PictureKinds)) /\ Len(Earlier(c)) = c BY <1>8
    <3> HIDE DEF Earlier
    <3> QED BY <2>2, <2>3, <3>1, AppendProperties
  <2>5. Earlier(c + 1) \in Seq(Seq(PictureKinds)) /\ Len(Earlier(c + 1)) = c + 1 BY <1>8, <2>1
  <2>6. ASSUME NEW j \in 1 .. c + 1 PROVE Earlier(c + 1)[j] = more[j]
    <3>1. Earlier(c + 1)[j] = pictures[j] OBVIOUS
    <3>2. j # c + 1 => j \in 1 .. c /\ Earlier(c)[j] = pictures[j] OBVIOUS
    <3> HIDE DEF Earlier
    <3> QED BY <2>4, <3>1, <3>2
  <2> HIDE DEF Earlier
  <2>7. Earlier(c + 1) = more BY <2>4, <2>5, <2>6, SeqEqual
  <2> QED BY <2>3, <2>7
<1>10. 0 \in T
  <2>1. 0 \in 0 .. k /\ 1 .. 0 = {} OBVIOUS
  <2>2. Earlier(0) = <<>>
    <3>1. Earlier(0) \in Seq(Seq(PictureKinds)) /\ Len(Earlier(0)) = 0 BY <1>8, <2>1
    <3> HIDE DEF Earlier
    <3> QED BY <3>1, EmptySeq
  <2> HIDE DEF Earlier
  <2> QED BY <1>6, <1>7, <2>1, <2>2
<1>11. ASSUME NEW c \in 0 .. k, c \in T, c < k PROVE c + 1 \in T
  <2>1. c + 1 \in 1 .. k /\ c + 1 \in 0 .. k /\ (c + 1) - 1 = c BY <1>11
  <2>2. PICK key \in BOOLEAN : key = keys[c + 1] BY <1>2, <2>1
  <2>3. pictures[c + 1] = Picture(key) BY <1>2, <2>1, <2>2
  <2>4. PICK p \in Nat : p = P(c) BY <1>7
  <2>5. Behind(stream, p, Picture(key)) /\ P(c + 1) = p + Len(Picture(key))
    BY <1>7, <2>1, <2>3, <2>4, Zenon
  <2>6. state[p] = Earlier(c) BY <1>11, <2>4, Zenon
  <2>7. state[p] \in Seq(Seq(PictureKinds)) BY <1>8, <2>6, Zenon
  <2> HIDE DEF Earlier
  <2>9. state[p + Len(Picture(key))] = Append(state[p], Picture(key))
    BY <1>6, <2>5, <2>7, PictureRead, Zenon
  <2>10. state[P(c + 1)] = Append(Earlier(c), pictures[c + 1]) BY <2>3, <2>5, <2>6, <2>9, Zenon
  <2>11. Earlier(c + 1) = Append(Earlier(c), pictures[c + 1]) BY <1>9, <1>11, Zenon
  <2> QED BY <2>1, <2>10, <2>11, Zenon
<1> HIDE DEF T
<1>12. \A c \in 0 .. k : c \in T BY <1>10, <1>11, UpTo
<1>13. state[n] = Earlier(k)
  <2>1. k \in 0 .. k OBVIOUS
  <2> QED BY <1>7, <1>12, <2>1, Zenon DEF T
<1>14. Earlier(k) = pictures BY <1>3
<1> HIDE DEF Earlier
<1> QED BY <1>4, <1>6, <1>13, <1>14, Zenon

-----------------------------------------------------------------------------
(* Units come out of the pipe. *)

(* The places of data where a start code is, after its leading zero if it has one. *)
CodesAt(data, places) ==
    /\ data \in Seq(Nat)
    /\ \A i \in 1 .. Len(data) : CodeAt(data, i) <=> i \in places

LEMMA CodesFound ==
  ASSUME NEW data, NEW n \in Nat, n = Len(data), NEW i1 \in Nat, NEW i2 \in Nat, 1 <= i1, i1 < i2,
         CodesAt(data, {i1, i2})
  PROVE  StartCodes(data) = IF n < i1 THEN <<>>
                            ELSE IF n < i2 THEN <<CodeBegin(data, i1)>>
                            ELSE <<CodeBegin(data, i1), CodeBegin(data, i2)>>
<1>1. data \in Seq(Nat) /\ DOMAIN data = 1 .. n BY LenProperties DEF CodesAt
<1>2. PICK stream : stream = [i \in DOMAIN data |-> i] OBVIOUS
<1>3. DOMAIN stream = 1 .. n /\ \A i \in 1 .. n : stream[i] = i BY <1>1, <1>2
<1>4. PICK state : /\ state[0] = <<>>
                   /\ \A i \in 1 .. n : state[i] = Found(data, state[i - 1], i)
                   /\ state[n] = StartCodes(data)
  <2>1. PICK reader : reader = Reader("codes", data) OBVIOUS
  <2>2. \A s, e : ReaderStep(reader, s, e) = Found(data, s, e)
    <3>1. reader.name = "codes" /\ reader.of = data BY <2>1 DEF Reader
    <3> QED BY <3>1 DEF ReaderStep
  <2>3. Reads(reader, <<>>, stream, n, StartCodes(data)) BY <1>2, <1>3, <2>1, CodesRead
  <2>4. PICK state : /\ state[0] = <<>>
                     /\ \A i \in 1 .. n : state[i] = ReaderStep(reader, state[i - 1], stream[i])
                     /\ state[n] = StartCodes(data)
    BY <2>3, Zenon DEF Reads
  <2>5. ASSUME NEW i \in 1 .. n PROVE state[i] = Found(data, state[i - 1], i)
    <3>1. stream[i] = i BY <1>3
    <3>2. state[i] = ReaderStep(reader, state[i - 1], stream[i]) BY <2>4
    <3>3. state[i] = ReaderStep(reader, state[i - 1], i) BY <3>1, <3>2, Zenon
    <3> QED BY <2>2, <3>3, Zenon
  <2> QED BY <2>4, <2>5, Zenon
<1>5. PICK x1 : x1 = CodeBegin(data, i1) OBVIOUS
<1>6. PICK x2 : x2 = CodeBegin(data, i2) OBVIOUS
<1> DEFINE Of(i) == IF i < i1 THEN <<>> ELSE IF i < i2 THEN <<x1>> ELSE <<x1, x2>>
           T == {i \in 0 .. n : state[i] = Of(i)}
<1>7. \A i \in 1 .. n : CodeAt(data, i) <=> i = i1 \/ i = i2 BY <1>1 DEF CodesAt
<1>8. 0 \in T BY <1>4
<1>9. ASSUME NEW i \in 0 .. n, i \in T, i < n PROVE i + 1 \in T
  <2>1. i + 1 \in 1 .. n /\ (i + 1) - 1 = i /\ i + 1 \in 0 .. n BY <1>9
  <2>2. state[i + 1] = Found(data, state[i], i + 1) BY <1>4, <2>1
  <2>3. state[i] = Of(i) BY <1>9
  <2>4. CASE i + 1 = i1
    <3>1. Of(i) = <<>> /\ Of(i + 1) = <<x1>> BY <2>4
    <3>2. CodeAt(data, i + 1) BY <1>7, <2>1, <2>4
    <3>3. state[i + 1] = Append(<<>>, x1) BY <1>5, <2>2, <2>3, <2>4, <3>1, <3>2, Zenon DEF Found
    <3>4. Append(<<>>, x1) = <<x1>> OBVIOUS
    <3> QED BY <2>1, <3>1, <3>3, <3>4, Zenon
  <2>5. CASE i + 1 = i2
    <3>1. Of(i) = <<x1>> /\ Of(i + 1) = <<x1, x2>> BY <2>5
    <3>2. CodeAt(data, i + 1) BY <1>7, <2>1, <2>5
    <3>3. state[i + 1] = Append(<<x1>>, x2) BY <1>6, <2>2, <2>3, <2>5, <3>1, <3>2, Zenon DEF Found
    <3>4. Append(<<x1>>, x2) = <<x1, x2>>
      <4>1. x1 \in {x1, x2} /\ x2 \in {x1, x2} OBVIOUS
      <4> QED BY <4>1, AppendToOne
    <3> QED BY <2>1, <3>1, <3>3, <3>4, Zenon
  <2>6. CASE i + 1 # i1 /\ i + 1 # i2
    <3>1. Of(i + 1) = Of(i) BY <2>6
    <3>2. ~CodeAt(data, i + 1) BY <1>7, <2>1, <2>6
    <3> QED BY <2>1, <2>2, <2>3, <3>1, <3>2, Zenon DEF Found
  <2> QED BY <2>4, <2>5, <2>6
<1> HIDE DEF T
<1>10. \A i \in 0 .. n : i \in T BY <1>8, <1>9, UpTo
<1>11. state[n] = Of(n)
  <2>1. n \in 0 .. n OBVIOUS
  <2> QED BY <1>10, <2>1 DEF T
<1> QED BY <1>4, <1>5, <1>6, <1>11, Zenon

LEMMA NoCodes ==
  ASSUME NEW data, CodesAt(data, {})
  PROVE  StartCodes(data) = <<>>
<1>1. PICK n \in Nat : n = Len(data) BY LenProperties DEF CodesAt
<1>2. CodesAt(data, {n + 1, n + 2})
  <2>1. \A i \in 1 .. n : i \notin {n + 1, n + 2} OBVIOUS
  <2> QED BY <1>1, <2>1, Zenon DEF CodesAt
<1>3. n + 1 \in Nat /\ n + 2 \in Nat /\ 1 <= n + 1 /\ n + 1 < n + 2 /\ n < n + 1 OBVIOUS
<1> QED BY <1>1, <1>2, <1>3, CodesFound

LEMMA OneCode ==
  ASSUME NEW data, NEW at \in 1 .. Len(data), CodesAt(data, {at})
  PROVE  StartCodes(data) = <<CodeBegin(data, at)>>
<1>1. PICK n \in Nat : n = Len(data) BY LenProperties DEF CodesAt
<1>2. CodesAt(data, {at, n + 1})
  <2>1. \A i \in 1 .. n : i \in {at} <=> i \in {at, n + 1} OBVIOUS
  <2> QED BY <1>1, <2>1, Zenon DEF CodesAt
<1>3. at \in Nat /\ n + 1 \in Nat /\ 1 <= at /\ at < n + 1 /\ ~(n < at) /\ n < n + 1 BY <1>1
<1> QED BY <1>1, <1>2, <1>3, CodesFound

LEMMA TwoCodes ==
  ASSUME NEW data, NEW first \in 1 .. Len(data), NEW second \in 1 .. Len(data), first < second,
         CodesAt(data, {first, second})
  PROVE  StartCodes(data) = <<CodeBegin(data, first), CodeBegin(data, second)>>
<1>1. PICK n \in Nat : n = Len(data) BY LenProperties DEF CodesAt
<1>2. first \in Nat /\ second \in Nat /\ 1 <= first /\ ~(n < first) /\ ~(n < second) BY <1>1
<1> QED BY <1>1, <1>2, CodesFound

(* A part of a stream holds the start codes that are in it as a whole. *)
IsPart(data, E, x, e) ==
    /\ data \in Seq(Nat) /\ E \in Seq(Nat) /\ x \in Nat /\ e \in Nat /\ 1 <= x /\ x <= e + 1 /\ e <= Len(E)
    /\ Len(data) = e + 1 - x
    /\ \A i \in 1 .. e + 1 - x : data[i] = E[x - 1 + i]

LEMMA PartTaken ==
  ASSUME NEW E \in Seq(Nat), NEW x \in Nat, NEW e \in Nat, 1 <= x, x <= e + 1, e <= Len(E)
  PROVE  IsPart(SubSeq(E, x, e), E, x, e)
<1>1. PICK n \in Nat : n = Len(E) BY LenProperties
<1>2. PICK data : data = SubSeq(E, x, e) OBVIOUS
<1>3. /\ Len(data) = e + 1 - x
      /\ \A i \in 1 .. e + 1 - x : data[i] = E[x - 1 + i]
  BY <1>1, <1>2
<1>4. data \in Seq(Nat)
  <2>1. \A i \in x .. e : i \in 1 .. n BY <1>1
  <2>2. \A i \in x .. e : E[i] \in Nat BY <1>1, <2>1, ElementOfSeq
  <2> QED BY <1>2, <2>2, SubSeqProperties
<1> QED BY <1>2, <1>3, <1>4, Zenon DEF IsPart

LEMMA PartCodes ==
  ASSUME NEW data, NEW E, NEW x, NEW e, IsPart(data, E, x, e), NEW i \in 1 .. Len(data)
  PROVE  CodeAt(data, i) <=> x - 1 + i + 2 <= e /\ CodeAt(E, x - 1 + i)
<1>1. PICK n \in Nat : n = Len(E) BY LenProperties DEF IsPart
<1>2. PICK m \in Nat : m = e + 1 - x BY DEF IsPart
<1>3. /\ x \in Nat /\ e \in Nat /\ 1 <= x /\ e <= n /\ Len(data) = m
      /\ \A j \in 1 .. m : data[j] = E[x - 1 + j]
  BY <1>1, <1>2 DEF IsPart
<1>4. PICK o \in Nat : o = x - 1 + i BY <1>3
<1>5. CASE i + 2 <= m
  <2>1. i \in 1 .. m /\ i + 1 \in 1 .. m /\ i + 2 \in 1 .. m BY <1>3, <1>5
  <2>2. x - 1 + i = o /\ x - 1 + (i + 1) = o + 1 /\ x - 1 + (i + 2) = o + 2 /\ o + 2 <= e /\ o + 2 <= n
    BY <1>2, <1>3, <1>4, <1>5
  <2>3. data[i] = E[o] /\ data[i + 1] = E[o + 1] /\ data[i + 2] = E[o + 2] BY <1>3, <2>1, <2>2
  <2>4. CodeAt(data, i) <=> CodeAt(E, o) BY <1>1, <1>3, <1>5, <2>2, <2>3, Zenon DEF CodeAt
  <2> QED BY <1>4, <2>2, <2>4, Zenon
<1>6. CASE ~(i + 2 <= m)
  <2>1. ~CodeAt(data, i) BY <1>3, <1>6 DEF CodeAt
  <2>2. ~(x - 1 + i + 2 <= e) BY <1>2, <1>3, <1>6
  <2> QED BY <2>1, <2>2
<1> QED BY <1>5, <1>6

(* Units as encoders write them, and such a unit after its start code. *)
Clean(u) ==
    /\ u \in Seq(Nat) /\ Len(u) >= 1 /\ u[Len(u)] # 0
    /\ \A i \in 1 .. Len(u) : ~CodeAt(u, i)
StartCode(long) == IF long THEN <<0, 0, 0, 1>> ELSE <<0, 0, 1>>
Coded(D, u, a) ==
    /\ a \in {3, 4} /\ D \in Seq(Nat) /\ u \in Seq(Nat) /\ Len(u) >= 1 /\ Len(D) = a + Len(u)
    /\ \A i \in 1 .. a - 1 : D[i] = 0
    /\ D[a] = 1 /\ D[a + Len(u)] # 0
    /\ \A i \in 1 .. Len(u) : D[a + i] = u[i]
    /\ \A i \in 1 .. a + Len(u) : CodeAt(D, i) <=> i = a - 2

LEMMA UnitCoded ==
  ASSUME NEW u, Clean(u), NEW long \in BOOLEAN
  PROVE  \E a : Coded(StartCode(long) \o u, u, a)
<1>1. PICK m \in Nat : m = Len(u) /\ m >= 1 BY LenProperties DEF Clean
<1>2. u \in Seq(Nat) /\ u[m] # 0 /\ \A i \in 1 .. m : ~CodeAt(u, i) BY <1>1 DEF Clean
<1>3. PICK c \in Seq(Nat), a \in {3, 4} :
         c = StartCode(long) /\ Len(c) = a /\ c[a] = 1 /\ \A i \in 1 .. a - 1 : c[i] = 0
  <2>1. CASE long
    <3>1. PICK c : c = <<0, 0, 0, 1>> OBVIOUS
    <3>2. c \in Seq(Nat) /\ Len(c) = 4 /\ c[4] = 1 /\ c[1] = 0 /\ c[2] = 0 /\ c[3] = 0 BY <3>1
    <3>3. \A i \in 1 .. 4 - 1 : i = 1 \/ i = 2 \/ i = 3 OBVIOUS
    <3>4. c = StartCode(long) BY <2>1, <3>1, Zenon DEF StartCode
    <3> QED BY <3>2, <3>3, <3>4
  <2>2. CASE ~long
    <3>1. PICK c : c = <<0, 0, 1>> OBVIOUS
    <3>2. c \in Seq(Nat) /\ Len(c) = 3 /\ c[3] = 1 /\ c[1] = 0 /\ c[2] = 0 BY <3>1
    <3>3. \A i \in 1 .. 3 - 1 : i = 1 \/ i = 2 OBVIOUS
    <3>4. c = StartCode(long) BY <2>2, <3>1, Zenon DEF StartCode
    <3> QED BY <3>2, <3>3, <3>4
  <2> QED BY <2>1, <2>2
<1>4. PICK D : D = c \o u OBVIOUS
<1>5. Joins(D, c, u, a, m, Nat) BY <1>1, <1>2, <1>3, <1>4, Joined
<1>6. /\ D \in Seq(Nat) /\ Len(D) = a + m
      /\ \A i \in 1 .. a : D[i] = c[i]
      /\ \A i \in 1 .. m : D[a + i] = u[i]
  BY <1>5 DEF Joins
<1>7. (\A i \in 1 .. a - 1 : D[i] = 0) /\ D[a] = 1 /\ D[a + m] # 0
  <2>1. \A i \in 1 .. a - 1 : i \in 1 .. a OBVIOUS
  <2>2. a \in 1 .. a /\ m \in 1 .. m BY <1>1
  <2> QED BY <1>2, <1>3, <1>6, <2>1, <2>2
<1>8. ASSUME NEW i \in 1 .. a + m PROVE CodeAt(D, i) <=> i = a - 2
  <2>1. CASE i < a - 2
    <3>1. i + 2 \in 1 .. a - 1 BY <2>1
    <3>2. D[i + 2] # 1 BY <1>7, <3>1
    <3> QED BY <2>1, <3>2 DEF CodeAt
  <2>2. CASE i = a - 2
    <3>1. i \in 1 .. a - 1 /\ i + 1 \in 1 .. a - 1 /\ i + 2 = a /\ a <= a + m BY <1>1, <2>2
    <3> QED BY <1>6, <1>7, <2>2, <3>1 DEF CodeAt
  <2>3. CASE i = a - 1
    <3>1. i + 1 = a BY <2>3
    <3> QED BY <1>7, <2>3, <3>1 DEF CodeAt
  <2>4. CASE i = a BY <1>7, <2>4 DEF CodeAt
  <2>5. CASE i > a
    <3>1. PICK j \in 1 .. m : i = a + j
      <4>1. i - a \in 1 .. m /\ i = a + (i - a) BY <2>5
      <4> QED BY <4>1
    <3>2. CASE j + 2 <= m
      <4>1. j + 1 \in 1 .. m /\ j + 2 \in 1 .. m /\ i + 1 = a + (j + 1) /\ i + 2 = a + (j + 2) BY <3>1, <3>2
      <4>2. D[i] = u[j] /\ D[i + 1] = u[j + 1] /\ D[i + 2] = u[j + 2] BY <1>6, <3>1, <4>1
      <4>3. ~CodeAt(u, j) BY <1>2
      <4>4. ~(u[j] = 0 /\ u[j + 1] = 0 /\ u[j + 2] = 1) BY <1>1, <3>2, <4>3 DEF CodeAt
      <4> QED BY <2>5, <4>2, <4>4 DEF CodeAt
    <3>3. CASE ~(j + 2 <= m)
      <4>1. ~(i + 2 <= a + m) BY <3>1, <3>3
      <4> QED BY <1>6, <2>5, <4>1 DEF CodeAt
    <3> QED BY <3>2, <3>3
  <2> QED BY <2>1, <2>2, <2>3, <2>4, <2>5
<1>9. Coded(D, u, a) BY <1>1, <1>2, <1>6, <1>7, <1>8 DEF Coded
<1> QED BY <1>3, <1>4, <1>9

LEMMA UnitsFound ==
  ASSUME NEW stream, NEW n \in Nat, DOMAIN stream = 1 .. n
  PROVE  Reads(Reader("units", 0), <<>>, stream, n,
               FoldLeft(LAMBDA s, unit : IF unit = <<>> THEN s ELSE Append(s, unit), <<>>, stream))
<1> DEFINE Folded(f) == [s \in SUBSET (DOMAIN stream) |->
                           IF s = {} THEN <<>> ELSE UnitKept(f[s \ {Max(s)}], stream[Max(s)])]
           fold == CHOOSE f : f = Folded(f)
           units == FoldLeft(LAMBDA s, unit : IF unit = <<>> THEN s ELSE Append(s, unit), <<>>, stream)
<1>1. units = fold[DOMAIN stream]
  BY Zenon DEF FoldLeft, MapThenFoldSet, UnitKept
<1> HIDE DEF units
<1>2. PICK reader : reader = Reader("units", 0) OBVIOUS
<1>3. \A s, e : ReaderStep(reader, s, e) = UnitKept(s, e)
  <2>1. reader.name = "units" BY <1>2 DEF Reader
  <2> QED BY <2>1 DEF ReaderStep
<1>4. \A f : Folded(f) = ReadFold(f, reader, <<>>, stream, n) BY <1>3, Zenon DEF ReadFold
<1> HIDE DEF Folded
<1>5. \E f : f = Folded(f) BY <1>4, ReadExists DEF IsRead
<1>6. fold = Folded(fold) BY <1>5
<1> HIDE DEF fold
<1>7. IsRead(fold, reader, <<>>, stream, n) BY <1>4, <1>6, Zenon DEF IsRead
<1>8. Reads(reader, <<>>, stream, n, fold[1 .. n]) BY <1>7, FoldReads
<1>9. Reads(Reader("units", 0), <<>>, stream, n, units) BY <1>1, <1>2, <1>8, Zenon
<1> QED BY <1>9 DEF units

(* A stream with one start code holds one unit, one without holds none. *)
LEMMA ParseNone == Parse(<<>>) = <<>>
<1>1. CodesAt(<<>>, {}) BY DEF CodesAt
<1>2. StartCodes(<<>>) = <<>> BY <1>1, NoCodes
<1> DEFINE data == <<>>
           codes == StartCodes(data)
           end(i) == IF i < Len(codes) THEN codes[i + 1] - 1 ELSE Len(data)
<1>3. PICK stream : stream = [i \in DOMAIN codes |-> SubSeq(data, UnitStart(data, codes[i]), end(i))] OBVIOUS
<1>4. DOMAIN stream = 1 .. 0 BY <1>2, <1>3
<1>5. PICK units : units = FoldLeft(LAMBDA s, unit : IF unit = <<>> THEN s ELSE Append(s, unit), <<>>, stream)
  OBVIOUS
<1>6. Parse(<<>>) = units BY <1>3, <1>5, Zenon DEF Parse
<1>7. Reads(Reader("units", 0), <<>>, stream, 0, units)
  <2>1. 0 \in Nat OBVIOUS
  <2> QED BY <1>4, <1>5, <2>1, UnitsFound, Zenon
<1>8. units = <<>> BY <1>7, Zenon DEF Reads
<1> QED BY <1>6, <1>8

LEMMA ParseOne ==
  ASSUME NEW data, NEW unit, unit # <<>>, StartCodes(data) = << 1 >>,
         SubSeq(data, UnitStart(data, 1), Len(data)) = unit
  PROVE  Parse(data) = <<unit>>
<1> DEFINE codes == StartCodes(data)
           end(i) == IF i < Len(codes) THEN codes[i + 1] - 1 ELSE Len(data)
<1>1. DOMAIN codes = 1 .. 1 /\ Len(codes) = 1 /\ codes[1] = 1 OBVIOUS
<1> HIDE DEF codes
<1>2. end(1) = Len(data)
  <2>1. ~(1 < 1) OBVIOUS
  <2> QED BY <1>1, <2>1, Zenon
<1> HIDE DEF end
<1>3. PICK stream : stream = [i \in DOMAIN codes |-> SubSeq(data, UnitStart(data, codes[i]), end(i))] OBVIOUS
<1>4. DOMAIN stream = 1 .. 1 BY <1>1, <1>3
<1>5. stream[1] = unit
  <2>1. 1 \in 1 .. 1 OBVIOUS
  <2>2. stream[1] = SubSeq(data, UnitStart(data, codes[1]), end(1)) BY <1>1, <1>3, <2>1
  <2> QED BY <1>1, <1>2, <2>2, Zenon
<1>6. PICK units : units = FoldLeft(LAMBDA s, u : IF u = <<>> THEN s ELSE Append(s, u), <<>>, stream)
  OBVIOUS
<1>7. Parse(data) = units BY <1>3, <1>6, Zenon DEF Parse, codes, end
<1>8. PICK reader : reader = Reader("units", 0) OBVIOUS
<1>9. Reads(reader, <<>>, stream, 1, units)
  <2>1. 1 \in Nat OBVIOUS
  <2> QED BY <1>4, <1>6, <1>8, <2>1, UnitsFound, Zenon
<1>10. \A s, e : ReaderStep(reader, s, e) = UnitKept(s, e)
  <2>1. reader.name = "units" BY <1>8 DEF Reader
  <2> QED BY <2>1 DEF ReaderStep
<1>11. units = UnitKept(<<>>, unit)
  <2>1. PICK state : /\ state[0] = <<>>
                     /\ \A i \in 1 .. 1 : state[i] = ReaderStep(reader, state[i - 1], stream[i])
                     /\ state[1] = units
    BY <1>9, Zenon DEF Reads
  <2>2. 1 \in 1 .. 1 /\ 1 - 1 = 0 OBVIOUS
  <2> QED BY <1>5, <1>10, <2>1, <2>2, Zenon
<1>12. UnitKept(<<>>, unit) = Append(<<>>, unit) BY Zenon DEF UnitKept
<1>13. Append(<<>>, unit) = <<unit>> OBVIOUS
<1> QED BY <1>7, <1>11, <1>12, <1>13, Zenon

LEMMA CodedParsed ==
  ASSUME NEW D, NEW u, NEW a, Coded(D, u, a)
  PROVE  StartCodes(D) = <<1>> /\ Parse(D) = <<u>>
<1>1. PICK m \in Nat : m = Len(u) /\ m >= 1 BY LenProperties DEF Coded
<1>2. /\ a \in {3, 4} /\ D \in Seq(Nat) /\ u \in Seq(Nat) /\ Len(D) = a + m
      /\ \A i \in 1 .. a - 1 : D[i] = 0
      /\ D[a] = 1
      /\ \A i \in 1 .. m : D[a + i] = u[i]
      /\ \A i \in 1 .. a + m : CodeAt(D, i) <=> i = a - 2
  BY <1>1, Zenon DEF Coded
<1>3. CodesAt(D, {a - 2})
  <2>1. \A i \in 1 .. Len(D) : CodeAt(D, i) <=> i \in {a - 2} BY <1>2
  <2> QED BY <1>2, <2>1, Zenon DEF CodesAt
<1>4. CodeBegin(D, a - 2) = 1
  <2>1. CASE a = 3 BY <2>1 DEF CodeBegin
  <2>2. CASE a = 4
    <3>1. D[1] = 0 BY <1>2, <2>2
    <3> QED BY <2>2, <3>1 DEF CodeBegin
  <2> QED BY <1>2, <2>1, <2>2
<1>5. StartCodes(D) = <<1>>
  <2>1. a - 2 \in 1 .. Len(D) BY <1>1, <1>2
  <2>2. StartCodes(D) = <<CodeBegin(D, a - 2)>> BY <1>3, <2>1, OneCode
  <2> QED BY <1>4, <2>2
<1>6. UnitStart(D, 1) = a + 1
  <2>1. 1 + 3 <= Len(D) BY <1>1, <1>2
  <2>2. PICK head : head = SubSeq(D, 1, 1 + 3) OBVIOUS
  <2>3. Len(head) = 4 /\ head[1] = D[1] /\ head[2] = D[2] /\ head[3] = D[3] /\ head[4] = D[4] /\ head \in Seq(Nat)
    <3>1. IsPart(head, D, 1, 4)
      <4>1. 1 + 3 = 4 /\ 4 <= Len(D) BY <2>1
      <4> QED BY <1>2, <2>2, <4>1, PartTaken
    <3>2. head \in Seq(Nat) /\ Len(head) = 4 BY <3>1 DEF IsPart
    <3>3. \A i \in 1 .. 4 : head[i] = D[i] BY <3>1 DEF IsPart
    <3>4. 1 \in 1 .. 4 /\ 2 \in 1 .. 4 /\ 3 \in 1 .. 4 /\ 4 \in 1 .. 4 OBVIOUS
    <3> QED BY <3>2, <3>3, <3>4, Zenon
  <2>6. UnitStart(D, 1) = IF head = <<0, 0, 0, 1>> THEN 1 + 4 ELSE 1 + 3
    BY <2>1, <2>2, Zenon DEF UnitStart
  <2>4. CASE a = 3
    <3>1. head[3] # 0 BY <1>2, <2>3, <2>4
    <3>2. head # <<0, 0, 0, 1>> BY <3>1
    <3> QED BY <2>4, <2>6, <3>2
  <2>5. CASE a = 4
    <3>1. head[1] = 0 /\ head[2] = 0 /\ head[3] = 0 /\ head[4] = 1 BY <1>2, <2>3, <2>5
    <3>2. head = <<0, 0, 0, 1>> BY <2>3, <3>1
    <3> QED BY <2>5, <2>6, <3>2
  <2> QED BY <1>2, <2>4, <2>5
<1>7. SubSeq(D, a + 1, Len(D)) = u
  <2>1. a \in Nat /\ a + Len(u) <= Len(D) /\ Len(D) = a + Len(u) BY <1>1, <1>2
  <2>2. \A i \in 1 .. Len(u) : D[a + i] = u[i] BY <1>1, <1>2
  <2>3. SubSeq(D, a + 1, a + Len(u)) = u BY <1>2, <2>1, <2>2, PartIs
  <2> QED BY <2>1, <2>3
<1>8. u # <<>> BY <1>1
<1> QED BY <1>5, <1>6, <1>7, <1>8, ParseOne

(* A stream of two units, the second behind the first w bytes: where its start
   codes are, of a and of d bytes. *)
TwoUnits(E, w, a, d) ==
    /\ E \in Seq(Nat) /\ w \in Nat /\ a \in {3, 4} /\ d \in {3, 4}
    /\ w >= a + 1 /\ Len(E) >= w + d + 1
    /\ \A i \in 1 .. Len(E) : CodeAt(E, i) <=> i = a - 2 \/ i = w + d - 2
    /\ a = 4 => E[1] = 0
    /\ E[w] # 0
    /\ d = 4 => E[w + 1] = 0

LEMMA StreamOfTwo ==
  ASSUME NEW D1, NEW u1, NEW a, Coded(D1, u1, a), NEW D2, NEW u2, NEW d, Coded(D2, u2, d)
  PROVE  TwoUnits(D1 \o D2, Len(D1), a, d)
<1>1. PICK m \in Nat : m = Len(u1) /\ m >= 1 BY LenProperties DEF Coded
<1>2. PICK q \in Nat : q = Len(u2) /\ q >= 1 BY LenProperties DEF Coded
<1>3. /\ a \in {3, 4} /\ D1 \in Seq(Nat) /\ Len(D1) = a + m
      /\ \A i \in 1 .. a - 1 : D1[i] = 0
      /\ D1[a + m] # 0
      /\ \A i \in 1 .. a + m : CodeAt(D1, i) <=> i = a - 2
  BY <1>1, Zenon DEF Coded
<1>4. /\ d \in {3, 4} /\ D2 \in Seq(Nat) /\ Len(D2) = d + q
      /\ \A i \in 1 .. d - 1 : D2[i] = 0
      /\ \A i \in 1 .. d + q : CodeAt(D2, i) <=> i = d - 2
  BY <1>2, Zenon DEF Coded
<1>5. PICK w \in Nat : w = a + m BY <1>3
<1>6. PICK v \in Nat : v = d + q BY <1>4
<1>7. PICK E : E = D1 \o D2 OBVIOUS
<1>8. /\ E \in Seq(Nat) /\ Len(E) = w + v
      /\ \A i \in 1 .. w : E[i] = D1[i]
      /\ \A i \in 1 .. v : E[w + i] = D2[i]
  <2>1. Joins(E, D1, D2, w, v, Nat) BY <1>3, <1>4, <1>5, <1>6, <1>7, Joined
  <2> QED BY <2>1 DEF Joins
<1>9. E[w] # 0
  <2>1. w \in 1 .. w BY <1>1, <1>3, <1>5
  <2> QED BY <1>3, <1>5, <1>8, <2>1
<1>10. a = 4 => E[1] = 0
  <2>1. a = 4 => 1 \in 1 .. a - 1 /\ 1 \in 1 .. w BY <1>5
  <2> QED BY <1>3, <1>8, <2>1
<1>11. d = 4 => E[w + 1] = 0
  <2>1. d = 4 => 1 \in 1 .. d - 1 /\ 1 \in 1 .. v BY <1>6
  <2> QED BY <1>4, <1>8, <2>1
<1>12. ASSUME NEW i \in 1 .. w + v PROVE CodeAt(E, i) <=> i = a - 2 \/ i = w + d - 2
  <2>1. CASE i + 2 <= w
    <3>1. i \in 1 .. w /\ i + 1 \in 1 .. w /\ i + 2 \in 1 .. w /\ i + 2 <= w + v BY <2>1
    <3>2. E[i] = D1[i] /\ E[i + 1] = D1[i + 1] /\ E[i + 2] = D1[i + 2] BY <1>8, <3>1
    <3>3. Len(D1) = w /\ Len(E) = w + v BY <1>3, <1>5, <1>8
    <3>4. CodeAt(E, i) <=> CodeAt(D1, i) BY <2>1, <3>1, <3>2, <3>3, Zenon DEF CodeAt
    <3>5. i # w + d - 2 BY <1>4, <2>1
    <3>6. CodeAt(D1, i) <=> i = a - 2 BY <1>3, <1>5, <3>1, Zenon
    <3> QED BY <3>4, <3>5, <3>6
  <2>2. CASE i + 1 = w
    <3>1. ~CodeAt(E, i) BY <1>9, <2>2 DEF CodeAt
    <3>2. i # a - 2 /\ i # w + d - 2 BY <1>1, <1>3, <1>4, <1>5, <2>2
    <3> QED BY <3>1, <3>2
  <2>3. CASE i = w
    <3>1. ~CodeAt(E, i) BY <1>9, <2>3 DEF CodeAt
    <3>2. i # a - 2 /\ i # w + d - 2 BY <1>1, <1>3, <1>4, <1>5, <2>3
    <3> QED BY <3>1, <3>2
  <2>4. CASE i > w
    <3>1. PICK j \in 1 .. v : i = w + j
      <4>1. i - w \in 1 .. v /\ i = w + (i - w) BY <2>4
      <4> QED BY <4>1
    <3>2. i # a - 2 /\ (i = w + d - 2 <=> j = d - 2) BY <1>3, <1>4, <1>5, <2>4, <3>1
    <3>3. CodeAt(D2, j) <=> j = d - 2 BY <1>4, <1>6, Zenon
    <3>4. CASE j + 2 <= v
      <4>1. j + 1 \in 1 .. v /\ j + 2 \in 1 .. v /\ i + 1 = w + (j + 1) /\ i + 2 = w + (j + 2) /\ i + 2 <= w + v
        BY <3>1, <3>4
      <4>2. E[i] = D2[j] /\ E[i + 1] = D2[j + 1] /\ E[i + 2] = D2[j + 2] BY <1>8, <3>1, <4>1
      <4>3. Len(D2) = v /\ Len(E) = w + v BY <1>4, <1>6, <1>8
      <4>4. CodeAt(E, i) <=> CodeAt(D2, j) BY <3>4, <4>1, <4>2, <4>3, Zenon DEF CodeAt
      <4> QED BY <3>2, <3>3, <4>4
    <3>5. CASE ~(j + 2 <= v)
      <4>1. ~(i + 2 <= w + v) BY <3>1, <3>5
      <4>2. ~CodeAt(E, i) BY <1>8, <4>1 DEF CodeAt
      <4>3. j # d - 2 BY <1>2, <1>4, <1>6, <3>5
      <4> QED BY <3>2, <4>2, <4>3
    <3> QED BY <3>4, <3>5
  <2> QED BY <2>1, <2>2, <2>3, <2>4
<1>13. w >= a + 1 /\ w + v >= w + d + 1 BY <1>1, <1>2, <1>3, <1>4, <1>5, <1>6
<1>14. TwoUnits(E, w, a, d) BY <1>3, <1>4, <1>8, <1>9, <1>10, <1>11, <1>12, <1>13 DEF TwoUnits
<1> QED BY <1>3, <1>5, <1>7, <1>14

(* The start codes of what was read of it: from its begin, or from its second unit. *)
LEMMA CodesSoFar ==
  ASSUME NEW E, NEW w, NEW a, NEW d, TwoUnits(E, w, a, d), NEW e \in Nat, e < w + d,
         NEW data, IsPart(data, E, 1, e)
  PROVE  StartCodes(data) \in {<<>>, <<1>>}
<1>1. PICK L \in Nat : L = Len(E) BY LenProperties DEF TwoUnits
<1>2. /\ w \in Nat /\ a \in {3, 4} /\ d \in {3, 4} /\ w >= a + 1 /\ L >= w + d + 1
      /\ \A i \in 1 .. L : CodeAt(E, i) <=> i = a - 2 \/ i = w + d - 2
      /\ a = 4 => E[1] = 0
  BY <1>1, Zenon DEF TwoUnits
<1>3. data \in Seq(Nat) /\ Len(data) = e /\ \A i \in 1 .. e : data[i] = E[i]
  BY DEF IsPart
<1>4. ASSUME NEW i \in 1 .. e PROVE CodeAt(data, i) <=> i + 2 <= e /\ i = a - 2
  <2>1. i \in 1 .. Len(data) BY <1>3
  <2>2. CodeAt(data, i) <=> 1 - 1 + i + 2 <= e /\ CodeAt(E, 1 - 1 + i) BY <2>1, PartCodes
  <2>3. 1 - 1 + i = i /\ i \in 1 .. L BY <1>2
  <2>4. CodeAt(data, i) <=> i + 2 <= e /\ CodeAt(E, i) BY <2>2, <2>3, Zenon
  <2>5. CodeAt(E, i) <=> i = a - 2 \/ i = w + d - 2 BY <1>2, <2>3
  <2>6. i + 2 <= e => i # w + d - 2 BY <1>2
  <2> QED BY <2>4, <2>5, <2>6
<1>5. CASE e < a
  <2>1. \A i \in 1 .. Len(data) : CodeAt(data, i) <=> i \in {} BY <1>2, <1>3, <1>4, <1>5
  <2>2. CodesAt(data, {}) BY <1>3, <2>1, Zenon DEF CodesAt
  <2> QED BY <2>2, NoCodes
<1>6. CASE a <= e
  <2>1. \A i \in 1 .. Len(data) : CodeAt(data, i) <=> i \in {a - 2} BY <1>2, <1>3, <1>4, <1>6
  <2>2. CodesAt(data, {a - 2}) BY <1>3, <2>1, Zenon DEF CodesAt
  <2>3. a - 2 \in 1 .. Len(data) BY <1>2, <1>3, <1>6
  <2>4. StartCodes(data) = <<CodeBegin(data, a - 2)>> BY <2>2, <2>3, OneCode
  <2>5. CodeBegin(data, a - 2) = 1
    <3>1. CASE a = 3 BY <3>1 DEF CodeBegin
    <3>2. CASE a = 4
      <4>1. data[1] = 0 BY <1>2, <1>3, <1>6, <3>2
      <4> QED BY <3>2, <4>1 DEF CodeBegin
    <3> QED BY <1>2, <3>1, <3>2
  <2> QED BY <2>4, <2>5
<1> QED BY <1>2, <1>5, <1>6

LEMMA CodesOfBoth ==
  ASSUME NEW E, NEW w, NEW a, NEW d, TwoUnits(E, w, a, d), NEW e \in Nat, w + d <= e,
         NEW data, IsPart(data, E, 1, e)
  PROVE  StartCodes(data) = <<1, w + 1>>
<1>1. PICK L \in Nat : L = Len(E) BY LenProperties DEF TwoUnits
<1>2. /\ w \in Nat /\ a \in {3, 4} /\ d \in {3, 4} /\ w >= a + 1 /\ L >= w + d + 1
      /\ \A i \in 1 .. L : CodeAt(E, i) <=> i = a - 2 \/ i = w + d - 2
      /\ a = 4 => E[1] = 0
      /\ E[w] # 0
      /\ d = 4 => E[w + 1] = 0
  BY <1>1, Zenon DEF TwoUnits
<1>3. data \in Seq(Nat) /\ Len(data) = e /\ (\A i \in 1 .. e : data[i] = E[i]) /\ e <= L
  BY <1>1 DEF IsPart
<1>4. ASSUME NEW i \in 1 .. e PROVE CodeAt(data, i) <=> i = a - 2 \/ i = w + d - 2
  <2>1. i \in 1 .. Len(data) BY <1>3
  <2>2. CodeAt(data, i) <=> 1 - 1 + i + 2 <= e /\ CodeAt(E, 1 - 1 + i) BY <2>1, PartCodes
  <2>3. 1 - 1 + i = i /\ i \in 1 .. L BY <1>3
  <2>4. CodeAt(data, i) <=> i + 2 <= e /\ CodeAt(E, i) BY <2>2, <2>3, Zenon
  <2>5. CodeAt(E, i) <=> i = a - 2 \/ i = w + d - 2 BY <1>2, <2>3
  <2>6. i = a - 2 \/ i = w + d - 2 => i + 2 <= e BY <1>2
  <2> QED BY <2>4, <2>5, <2>6
<1>5. PICK second \in Nat : second = w + d - 2 BY <1>2
<1>6. \A i \in 1 .. Len(data) : CodeAt(data, i) <=> i \in {a - 2, second} BY <1>3, <1>4, <1>5
<1>7. CodesAt(data, {a - 2, second}) BY <1>3, <1>6, Zenon DEF CodesAt
<1>8. a - 2 \in 1 .. Len(data) /\ second \in 1 .. Len(data) /\ a - 2 < second BY <1>2, <1>3, <1>5
<1>9. StartCodes(data) = <<CodeBegin(data, a - 2), CodeBegin(data, second)>> BY <1>7, <1>8, TwoCodes
<1>10. CodeBegin(data, a - 2) = 1
  <2>1. CASE a = 3 BY <2>1 DEF CodeBegin
  <2>2. CASE a = 4
    <3>1. data[1] = 0 BY <1>2, <1>3, <2>2
    <3> QED BY <2>2, <3>1 DEF CodeBegin
  <2> QED BY <1>2, <2>1, <2>2
<1>11. CodeBegin(data, second) = w + 1
  <2>1. w \in 1 .. e /\ w + 1 \in 1 .. e BY <1>2
  <2>2. data[w] # 0 /\ (d = 4 => data[w + 1] = 0) BY <1>2, <1>3, <2>1
  <2>3. CASE d = 3
    <3>1. second = w + 1 /\ second - 1 = w BY <1>2, <1>5, <2>3
    <3> QED BY <2>2, <3>1 DEF CodeBegin
  <2>4. CASE d = 4
    <3>1. second = w + 2 /\ second - 1 = w + 1 /\ second > 1 BY <1>2, <1>5, <2>4
    <3> QED BY <2>2, <2>4, <3>1 DEF CodeBegin
  <2> QED BY <1>2, <2>3, <2>4
<1> QED BY <1>9, <1>10, <1>11

LEMMA CodesOfSecond ==
  ASSUME NEW E, NEW w, NEW a, NEW d, TwoUnits(E, w, a, d), NEW e \in Nat, w + d <= e,
         NEW data, IsPart(data, E, w + 1, e)
  PROVE  StartCodes(data) = <<1>>
<1>1. PICK L \in Nat : L = Len(E) BY LenProperties DEF TwoUnits
<1>2. /\ w \in Nat /\ a \in {3, 4} /\ d \in {3, 4} /\ w >= a + 1 /\ L >= w + d + 1
      /\ \A i \in 1 .. L : CodeAt(E, i) <=> i = a - 2 \/ i = w + d - 2
      /\ d = 4 => E[w + 1] = 0
  BY <1>1, Zenon DEF TwoUnits
<1>3. PICK n \in Nat : n = e - w BY <1>2
<1>4. data \in Seq(Nat) /\ Len(data) = n /\ (\A i \in 1 .. n : data[i] = E[w + i]) /\ e <= L
  <2>1. /\ data \in Seq(Nat) /\ Len(data) = e + 1 - (w + 1) /\ e <= L
        /\ \A i \in 1 .. e + 1 - (w + 1) : data[i] = E[(w + 1) - 1 + i]
    BY <1>1, Zenon DEF IsPart
  <2>2. e + 1 - (w + 1) = n /\ \A i \in 1 .. n : (w + 1) - 1 + i = w + i BY <1>2, <1>3
  <2> QED BY <2>1, <2>2
<1>5. ASSUME NEW i \in 1 .. n PROVE CodeAt(data, i) <=> i = d - 2
  <2>1. i \in 1 .. Len(data) BY <1>4
  <2>2. CodeAt(data, i) <=> (w + 1) - 1 + i + 2 <= e /\ CodeAt(E, (w + 1) - 1 + i) BY <2>1, PartCodes
  <2>3. (w + 1) - 1 + i = w + i /\ w + i \in 1 .. L BY <1>2, <1>3, <1>4
  <2>4. CodeAt(data, i) <=> w + i + 2 <= e /\ CodeAt(E, w + i) BY <2>2, <2>3, Zenon
  <2>5. CodeAt(E, w + i) <=> w + i = a - 2 \/ w + i = w + d - 2 BY <1>2, <2>3
  <2>6. w + i # a - 2 /\ (w + i = w + d - 2 <=> i = d - 2) /\ (i = d - 2 => w + i + 2 <= e) BY <1>2
  <2> QED BY <2>4, <2>5, <2>6
<1>6. \A i \in 1 .. Len(data) : CodeAt(data, i) <=> i \in {d - 2} BY <1>2, <1>4, <1>5
<1>7. CodesAt(data, {d - 2}) BY <1>4, <1>6, Zenon DEF CodesAt
<1>8. d - 2 \in 1 .. Len(data) BY <1>2, <1>3, <1>4
<1>9. StartCodes(data) = <<CodeBegin(data, d - 2)>> BY <1>7, <1>8, OneCode
<1>10. CodeBegin(data, d - 2) = 1
  <2>1. CASE d = 3 BY <2>1 DEF CodeBegin
  <2>2. CASE d = 4
    <3>1. 1 \in 1 .. n BY <1>2, <1>3
    <3>2. data[1] = 0 BY <1>2, <1>4, <2>2, <3>1
    <3> QED BY <2>2, <3>2 DEF CodeBegin
  <2> QED BY <1>2, <2>1, <2>2
<1> QED BY <1>9, <1>10

(* Without a start code behind its begin, data holds no complete unit. *)
LEMMA NothingComplete ==
  ASSUME NEW data \in Seq(Nat), StartCodes(data) \in {<<>>, << 1 >>}
  PROVE  Complete(data) = [units |-> <<>>, rest |-> data]
<1>1. CASE StartCodes(data) = <<>> BY <1>1, Zenon DEF Complete
<1>2. CASE StartCodes(data) = <<1>>
  <2>1. PICK codes : codes = <<1>> OBVIOUS
  <2>2. codes # <<>> /\ Last(codes) = 1 BY <2>1 DEF Last
  <2>3. Complete(data) = [units |-> Parse(SubSeq(data, 1, 1 - 1)), rest |-> SubSeq(data, 1, Len(data))]
    BY <1>2, <2>1, <2>2, Zenon DEF Complete
  <2>4. SubSeq(data, 1, 1 - 1) = <<>>
    <3>1. 1 \in Int /\ 1 - 1 \in Int /\ 1 - 1 < 1 OBVIOUS
    <3> QED BY <3>1, SubSeqEmpty
  <2>5. SubSeq(data, 1, Len(data)) = data BY SubSeqFull
  <2> QED BY <2>3, <2>4, <2>5, ParseNone, Zenon
<1> QED BY <1>1, <1>2

LEMMA FirstComplete ==
  ASSUME NEW data, NEW x \in Nat, StartCodes(data) = <<1, x>>
  PROVE  Complete(data) = [units |-> Parse(SubSeq(data, 1, x - 1)), rest |-> SubSeq(data, x, Len(data))]
<1>1. PICK codes : codes = <<1, x>> OBVIOUS
<1>2. codes # <<>> /\ Last(codes) = x BY <1>1 DEF Last
<1> QED BY <1>1, <1>2, Zenon DEF Complete

(* What readLoop has when it read e bytes of a stream of two units, the first of w
   bytes, the start code of the second ending at t. *)
SoFar(E, w, t, u, e) ==
    IF e < t THEN [units |-> <<>>, rest |-> SubSeq(E, 1, e)]
    ELSE [units |-> <<u>>, rest |-> SubSeq(E, w + 1, e)]

LEMMA PartGrows ==
  ASSUME NEW E \in Seq(Nat), NEW x \in Nat, NEW e \in Nat, NEW f \in Nat,
         1 <= x, x <= e + 1, e <= f, f <= Len(E)
  PROVE  SubSeq(E, x, e) \o SubSeq(E, e + 1, f) = SubSeq(E, x, f)
<1>1. x \in 1 .. Len(E) + 1 /\ e \in x - 1 .. Len(E) /\ f \in e .. Len(E) BY LenProperties
<1> QED BY <1>1, ConcatAdjacentSubSeq

LEMMA PieceStep ==
  ASSUME NEW E, NEW w, NEW a, NEW d, TwoUnits(E, w, a, d), NEW u, Parse(SubSeq(E, 1, w)) = <<u>>,
         NEW e \in Nat, NEW f \in Nat, e <= f, f <= Len(E)
  PROVE  PieceRead(SoFar(E, w, w + d, u, e), SubSeq(E, e + 1, f)) = SoFar(E, w, w + d, u, f)
<1>1. PICK L \in Nat : L = Len(E) BY LenProperties DEF TwoUnits
<1>2. E \in Seq(Nat) /\ w \in Nat /\ d \in {3, 4} /\ w >= 1 /\ L >= w + d + 1
  BY <1>1 DEF TwoUnits
<1>3. PICK t \in Nat : t = w + d BY <1>2
<1>4. PICK piece : piece = SubSeq(E, e + 1, f) OBVIOUS
<1>5. PICK s : s = SoFar(E, w, t, u, e) OBVIOUS
<1>6. PICK data : data = s.rest \o piece OBVIOUS
<1>7. PICK c : c = Complete(data) OBVIOUS
<1>8. PieceRead(s, piece) = [units |-> s.units \o c.units, rest |-> c.rest]
  BY <1>6, <1>7, Zenon DEF PieceRead
<1>9. CASE f < t
  <2>1. e < t BY <1>9
  <2>2. s = [units |-> <<>>, rest |-> SubSeq(E, 1, e)] BY <1>5, <2>1, Zenon DEF SoFar
  <2>3. s.units = <<>> /\ s.rest = SubSeq(E, 1, e) BY <2>2
  <2>4. data = SubSeq(E, 1, f)
    <3>1. 1 \in Nat /\ 1 <= 1 /\ 1 <= e + 1 OBVIOUS
    <3>2. SubSeq(E, 1, e) \o SubSeq(E, e + 1, f) = SubSeq(E, 1, f) BY <1>2, <3>1, PartGrows
    <3> QED BY <1>4, <1>6, <2>3, <3>2, Zenon
  <2>5. IsPart(data, E, 1, f)
    <3>1. 1 \in Nat /\ 1 <= 1 /\ 1 <= f + 1 OBVIOUS
    <3> QED BY <1>2, <2>4, <3>1, PartTaken
  <2>6. StartCodes(data) \in {<<>>, <<1>>} BY <1>3, <1>9, <2>5, CodesSoFar
  <2>7. data \in Seq(Nat) BY <2>5, Zenon DEF IsPart
  <2>8. c = [units |-> <<>>, rest |-> data] BY <1>7, <2>6, <2>7, NothingComplete
  <2>9. c.units = <<>> /\ c.rest = data BY <2>8
  <2>10. <<>> \o <<>> = <<>> OBVIOUS
  <2>11. PieceRead(s, piece) = [units |-> <<>>, rest |-> SubSeq(E, 1, f)]
    BY <1>8, <2>3, <2>4, <2>9, <2>10, Zenon
  <2>12. SoFar(E, w, t, u, f) = [units |-> <<>>, rest |-> SubSeq(E, 1, f)] BY <1>9, Zenon DEF SoFar
  <2> QED BY <1>3, <1>4, <1>5, <2>11, <2>12, Zenon
<1>10. CASE e < t /\ ~(f < t)
  <2>2. s = [units |-> <<>>, rest |-> SubSeq(E, 1, e)] BY <1>5, <1>10, Zenon DEF SoFar
  <2>3. s.units = <<>> /\ s.rest = SubSeq(E, 1, e) BY <2>2
  <2>4. data = SubSeq(E, 1, f)
    <3>1. 1 \in Nat /\ 1 <= 1 /\ 1 <= e + 1 OBVIOUS
    <3>2. SubSeq(E, 1, e) \o SubSeq(E, e + 1, f) = SubSeq(E, 1, f) BY <1>2, <3>1, PartGrows
    <3> QED BY <1>4, <1>6, <2>3, <3>2, Zenon
  <2>5. IsPart(data, E, 1, f)
    <3>1. 1 \in Nat /\ 1 <= 1 /\ 1 <= f + 1 OBVIOUS
    <3> QED BY <1>2, <2>4, <3>1, PartTaken
  <2>6. StartCodes(data) = <<1, w + 1>>
    <3>1. w + d <= f BY <1>3, <1>10
    <3> QED BY <2>5, <3>1, CodesOfBoth
  <2>7. c = [units |-> Parse(SubSeq(data, 1, (w + 1) - 1)), rest |-> SubSeq(data, w + 1, Len(data))]
    <3>1. w + 1 \in Nat BY <1>2
    <3> QED BY <1>7, <2>6, <3>1, FirstComplete
  <2>8. SubSeq(data, 1, (w + 1) - 1) = SubSeq(E, 1, w)
    <3>1. (w + 1) - 1 = w BY <1>2
    <3>2. 1 \in 1 .. L /\ f \in 1 .. L /\ 1 \in 1 .. f - 1 + 1 /\ w \in 1 .. f - 1 + 1
          /\ 1 + 1 - 1 = 1 /\ 1 + w - 1 = w
      BY <1>1, <1>2, <1>3, <1>10
    <3>3. SubSeq(SubSeq(E, 1, f), 1, w) = SubSeq(E, 1 + 1 - 1, 1 + w - 1)
      BY <1>1, <1>2, <3>2, SubSeqOfSubSeq
    <3> QED BY <2>4, <3>1, <3>2, <3>3, Zenon
  <2>9. SubSeq(data, w + 1, Len(data)) = SubSeq(E, w + 1, f)
    <3>1. Len(data) = f BY <2>5 DEF IsPart
    <3>2. 1 \in 1 .. L /\ f \in 1 .. L /\ w + 1 \in 1 .. f - 1 + 1 /\ f \in 1 .. f - 1 + 1
          /\ 1 + (w + 1) - 1 = w + 1 /\ 1 + f - 1 = f
      BY <1>1, <1>2, <1>3, <1>10
    <3>3. SubSeq(SubSeq(E, 1, f), w + 1, f) = SubSeq(E, 1 + (w + 1) - 1, 1 + f - 1)
      BY <1>1, <1>2, <3>2, SubSeqOfSubSeq
    <3> QED BY <2>4, <3>1, <3>2, <3>3, Zenon
  <2>10. c = [units |-> <<u>>, rest |-> SubSeq(E, w + 1, f)] BY <2>7, <2>8, <2>9, Zenon
  <2>11. c.units = <<u>> /\ c.rest = SubSeq(E, w + 1, f) BY <2>10
  <2>12. <<>> \o <<u>> = <<u>> OBVIOUS
  <2>13. PieceRead(s, piece) = [units |-> <<u>>, rest |-> SubSeq(E, w + 1, f)]
    BY <1>8, <2>3, <2>11, <2>12, Zenon
  <2>14. SoFar(E, w, t, u, f) = [units |-> <<u>>, rest |-> SubSeq(E, w + 1, f)] BY <1>10, Zenon DEF SoFar
  <2> QED BY <1>3, <1>4, <1>5, <2>13, <2>14, Zenon
<1>11. CASE ~(e < t)
  <2>1. ~(f < t) /\ w + 1 \in Nat /\ 1 <= w + 1 /\ w + 1 <= e + 1 /\ w + 1 <= f + 1 /\ w + d <= f
    BY <1>2, <1>3, <1>11
  <2>2. s = [units |-> <<u>>, rest |-> SubSeq(E, w + 1, e)] BY <1>5, <1>11, Zenon DEF SoFar
  <2>3. s.units = <<u>> /\ s.rest = SubSeq(E, w + 1, e) BY <2>2
  <2>4. data = SubSeq(E, w + 1, f)
    <3>1. SubSeq(E, w + 1, e) \o SubSeq(E, e + 1, f) = SubSeq(E, w + 1, f) BY <1>2, <2>1, PartGrows
    <3> QED BY <1>4, <1>6, <2>3, <3>1, Zenon
  <2>5. IsPart(data, E, w + 1, f) BY <1>2, <2>1, <2>4, PartTaken
  <2>6. StartCodes(data) \in {<<>>, <<1>>} BY <2>1, <2>5, CodesOfSecond
  <2>7. data \in Seq(Nat) BY <2>5, Zenon DEF IsPart
  <2>8. c = [units |-> <<>>, rest |-> data] BY <1>7, <2>6, <2>7, NothingComplete
  <2>9. c.units = <<>> /\ c.rest = data BY <2>8
  <2>10. <<u>> \o <<>> = <<u>> OBVIOUS
  <2>11. PieceRead(s, piece) = [units |-> <<u>>, rest |-> SubSeq(E, w + 1, f)]
    BY <1>8, <2>3, <2>4, <2>9, <2>10, Zenon
  <2>12. SoFar(E, w, t, u, f) = [units |-> <<u>>, rest |-> SubSeq(E, w + 1, f)] BY <2>1, Zenon DEF SoFar
  <2> QED BY <1>3, <1>4, <1>5, <2>11, <2>12, Zenon
<1> QED BY <1>9, <1>10, <1>11

(* The pieces of a stream between the places where reads end. *)
PieceAt(E, ends, i) == SubSeq(E, IF i = 1 THEN 1 ELSE ends[i - 1] + 1, ends[i])

CutInto(pieces, E, ends, k) ==
    /\ k \in Nat \ {0} /\ ends \in [1 .. k -> 1 .. Len(E)] /\ ends[k] = Len(E)
    /\ \A i \in 2 .. k : ends[i - 1] <= ends[i]
    /\ pieces = [i \in 1 .. k |-> PieceAt(E, ends, i)]

LEMMA PipeRead ==
  ASSUME NEW E, NEW w, NEW a, NEW d, TwoUnits(E, w, a, d), NEW u, Parse(SubSeq(E, 1, w)) = <<u>>,
         NEW pieces, NEW ends, NEW k, CutInto(pieces, E, ends, k)
  PROVE  ReadPieces(pieces) = [units |-> <<u>>, rest |-> SubSeq(E, w + 1, Len(E))]
<1>1. PICK L \in Nat : L = Len(E) BY LenProperties DEF TwoUnits
<1>2. E \in Seq(Nat) /\ w \in Nat /\ d \in {3, 4} /\ w >= 1 /\ L >= w + d + 1
  BY <1>1 DEF TwoUnits
<1>0. /\ k \in Nat \ {0} /\ ends \in [1 .. k -> 1 .. L] /\ ends[k] = L
      /\ (\A i \in 2 .. k : ends[i - 1] <= ends[i])
      /\ pieces = [i \in 1 .. k |-> PieceAt(E, ends, i)]
  BY <1>1, Zenon DEF CutInto
<1>00. DOMAIN pieces = 1 .. k /\ \A i \in 1 .. k : pieces[i] = PieceAt(E, ends, i) BY <1>0
<1>3. PICK base : base = [units |-> <<>>, rest |-> <<>>] OBVIOUS
<1>4. PICK state : /\ state[0] = base
                   /\ \A i \in 1 .. k : state[i] = PieceRead(state[i - 1], pieces[i])
                   /\ state[k] = ReadPieces(pieces)
  <2>1. PICK reader : reader = Reader("pieces", 0) OBVIOUS
  <2>2. \A s, e : ReaderStep(reader, s, e) = PieceRead(s, e)
    <3>1. reader.name = "pieces" BY <2>1 DEF Reader
    <3> QED BY <3>1 DEF ReaderStep
  <2>3. Reads(reader, base, pieces, k, ReadPieces(pieces))
    <3>1. k \in Nat BY <1>0
    <3> QED BY <1>00, <1>3, <2>1, <3>1, PiecesRead
  <2>4. PICK state : /\ state[0] = base
                     /\ \A i \in 1 .. k : state[i] = ReaderStep(reader, state[i - 1], pieces[i])
                     /\ state[k] = ReadPieces(pieces)
    BY <2>3, Zenon DEF Reads
  <2> QED BY <2>2, <2>4, Zenon
<1> DEFINE At(i) == IF i = 0 THEN 0 ELSE ends[i]
           T == {i \in 0 .. k : state[i] = SoFar(E, w, w + d, u, At(i))}
<1>5. 0 \in T
  <2>1. 0 < w + d /\ 0 \in 0 .. k /\ At(0) = 0 BY <1>0, <1>2
  <2>2. SubSeq(E, 1, 0) = <<>>
    <3>1. 1 \in Int /\ 0 \in Int /\ 0 < 1 OBVIOUS
    <3> QED BY <3>1, SubSeqEmpty
  <2>3. SoFar(E, w, w + d, u, 0) = base BY <1>3, <2>1, <2>2, Zenon DEF SoFar
  <2> QED BY <1>4, <2>1, <2>3, Zenon
<1>6. ASSUME NEW i \in 0 .. k, i \in T, i < k PROVE i + 1 \in T
  <2>1. i + 1 \in 1 .. k /\ (i + 1) - 1 = i /\ i + 1 \in 0 .. k /\ i + 1 # 0 BY <1>0, <1>6
  <2>2. PICK f \in Nat : f = ends[i + 1] /\ f <= L /\ f >= 1
    <3>1. ends[i + 1] \in 1 .. L BY <1>0, <2>1
    <3> QED BY <3>1
  <2>3. PICK e \in Nat : e = At(i) /\ e <= f
    <3>1. CASE i = 0 BY <2>2, <3>1
    <3>2. CASE i # 0
      <4>1. i \in 1 .. k /\ i + 1 \in 2 .. k BY <2>1, <3>2
      <4>2. ends[i] \in 1 .. L BY <1>0, <4>1
      <4>3. ends[(i + 1) - 1] <= ends[i + 1] BY <1>0, <4>1, Zenon
      <4>4. ends[i] <= f BY <2>1, <2>2, <4>3
      <4>5. At(i) = ends[i] BY <3>2
      <4>6. ends[i] \in Nat BY <4>2
      <4> QED BY <4>4, <4>5, <4>6
    <3> QED BY <3>1, <3>2
  <2>4. At(i + 1) = f BY <2>1, <2>2
  <2>5. pieces[i + 1] = SubSeq(E, e + 1, f)
    <3>1. pieces[i + 1] = SubSeq(E, IF i + 1 = 1 THEN 1 ELSE ends[i] + 1, f)
      <4>1. pieces[i + 1] = PieceAt(E, ends, i + 1) BY <1>00, <2>1, Zenon
      <4> QED BY <2>1, <2>2, <4>1, Zenon DEF PieceAt
    <3>2. (IF i + 1 = 1 THEN 1 ELSE ends[i] + 1) = e + 1
      <4>1. CASE i = 0 BY <2>3, <4>1
      <4>2. CASE i # 0 BY <2>3, <4>2
      <4> QED BY <4>1, <4>2
    <3> QED BY <3>1, <3>2, Zenon
  <2>6. state[i] = SoFar(E, w, w + d, u, e) BY <1>6, <2>3, Zenon
  <2>7. state[i + 1] = PieceRead(state[i], pieces[i + 1]) BY <1>4, <2>1, Zenon
  <2>8. PieceRead(SoFar(E, w, w + d, u, e), SubSeq(E, e + 1, f)) = SoFar(E, w, w + d, u, f)
    BY <1>1, <2>2, <2>3, PieceStep
  <2> QED BY <2>1, <2>4, <2>5, <2>6, <2>7, <2>8, Zenon
<1> HIDE DEF T
<1>7. \A i \in 0 .. k : i \in T
  <2>1. k \in Nat BY <1>0
  <2> QED BY <1>5, <1>6, <2>1, UpTo
<1>8. state[k] = SoFar(E, w, w + d, u, Len(E))
  <2>1. k \in 0 .. k /\ At(k) = Len(E) BY <1>0, <1>1
  <2> QED BY <1>7, <2>1, Zenon DEF T
<1>9. ~(Len(E) < w + d) BY <1>1, <1>2
<1>10. SoFar(E, w, w + d, u, Len(E)) = [units |-> <<u>>, rest |-> SubSeq(E, w + 1, Len(E))]
  BY <1>9, Zenon DEF SoFar
<1> QED BY <1>4, <1>8, <1>10, Zenon

LEMMA UnitsClean ==
  ASSUME NEW u \in NalUnits
  PROVE  Clean(u)
<1>1. CASE u = <<7>>
  <2>1. u \in Seq(Nat) /\ Len(u) = 1 /\ u[1] = 7 BY <1>1
  <2>2. \A i \in 1 .. Len(u) : ~CodeAt(u, i) BY <2>1 DEF CodeAt
  <2> QED BY <2>1, <2>2 DEF Clean
<1>2. CASE u = <<5, 1>>
  <2>1. u \in Seq(Nat) /\ Len(u) = 2 /\ u[2] = 1 BY <1>2
  <2>2. \A i \in 1 .. Len(u) : ~CodeAt(u, i) BY <2>1 DEF CodeAt
  <2> QED BY <2>1, <2>2 DEF Clean
<1>3. CASE u = <<8, 0, 3>>
  <2>1. u \in Seq(Nat) /\ Len(u) = 3 /\ u[1] = 8 /\ u[3] = 3 BY <1>3
  <2>2. ASSUME NEW i \in 1 .. Len(u) PROVE ~CodeAt(u, i)
    <3>1. i = 1 \/ i + 2 > Len(u) BY <2>1
    <3> QED BY <2>1, <3>1 DEF CodeAt
  <2> QED BY <2>1, <2>2 DEF Clean
<1>4. CASE u = <<6, 0, 0, 3, 1>>
  <2>1. u \in Seq(Nat) /\ Len(u) = 5 /\ u[1] = 6 /\ u[4] = 3 /\ u[5] = 1 BY <1>4
  <2>2. ASSUME NEW i \in 1 .. Len(u) PROVE ~CodeAt(u, i)
    <3>1. i = 1 \/ i = 2 \/ i = 3 \/ i + 2 > Len(u) BY <2>1
    <3>2. CASE i = 1 BY <2>1, <3>2 DEF CodeAt
    <3>3. CASE i = 2 BY <2>1, <3>3 DEF CodeAt
    <3>4. CASE i = 3 BY <2>1, <3>4 DEF CodeAt
    <3>5. CASE i + 2 > Len(u) BY <2>1, <3>5 DEF CodeAt
    <3> QED BY <3>1, <3>2, <3>3, <3>4, <3>5
  <2> QED BY <2>1, <2>2 DEF Clean
<1> QED BY <1>1, <1>2, <1>3, <1>4 DEF NalUnits

LEMMA AnnexedTwo ==
  ASSUME NEW u1, NEW u2, Clean(u1), Clean(u2), NEW long1 \in BOOLEAN, NEW long2 \in BOOLEAN,
         NEW units, units = <<u1, u2>>, NEW long, long = <<long1, long2>>
  PROVE  Annexed(units, long) = (StartCode(long1) \o u1) \o (StartCode(long2) \o u2)
<1>1. PICK D1 : D1 = StartCode(long1) \o u1 OBVIOUS
<1>2. PICK D2 : D2 = StartCode(long2) \o u2 OBVIOUS
<1>3. D1 \in Seq(Nat) /\ D2 \in Seq(Nat)
  <2>1. \E a : Coded(D1, u1, a) BY <1>1, UnitCoded
  <2>2. \E a : Coded(D2, u2, a) BY <1>2, UnitCoded
  <2> QED BY <2>1, <2>2, Zenon DEF Coded
<1>4. PICK parts : parts = [i \in DOMAIN units |-> (IF long[i] THEN <<0, 0, 0, 1>> ELSE <<0, 0, 1>>) \o units[i]]
  OBVIOUS
<1>5. parts = <<D1, D2>>
  <2>1. DOMAIN units = {1, 2} /\ units[1] = u1 /\ units[2] = u2 OBVIOUS
  <2>2. long[1] = long1 /\ long[2] = long2 OBVIOUS
  <2>3. parts = [i \in {1, 2} |-> StartCode(long[i]) \o units[i]] BY <1>4, <2>1, Zenon DEF StartCode
  <2>4. parts[1] = StartCode(long[1]) \o units[1] /\ parts[2] = StartCode(long[2]) \o units[2] BY <2>3
  <2>5. parts[1] = D1 /\ parts[2] = D2 BY <1>1, <1>2, <2>1, <2>2, <2>4, Zenon
  <2>6. parts = [i \in {1, 2} |-> parts[i]] BY <2>3
  <2> QED BY <2>5, <2>6
<1>6. FlattenSeq(parts) = D1 \o D2 BY <1>3, <1>5, FlattenTwo
<1> QED BY <1>1, <1>2, <1>4, <1>6, Zenon DEF Annexed

(* TwoUnits units come out of a pipe as they were wire, wherever reads cut the stream. *)
LEMMA PipeReadBack ==
  ASSUME NEW u1, NEW u2, Clean(u1), Clean(u2), NEW long1 \in BOOLEAN, NEW long2 \in BOOLEAN,
         NEW pieces, NEW ends, NEW k,
         CutInto(pieces, (StartCode(long1) \o u1) \o (StartCode(long2) \o u2), ends, k)
  PROVE  ReadPieces(pieces).units \o Parse(ReadPieces(pieces).rest) = <<u1, u2>>
<1>1. PICK D1 : D1 = StartCode(long1) \o u1 OBVIOUS
<1>2. PICK D2 : D2 = StartCode(long2) \o u2 OBVIOUS
<1>3. PICK a : Coded(D1, u1, a) BY <1>1, UnitCoded
<1>4. PICK d : Coded(D2, u2, d) BY <1>2, UnitCoded
<1>5. PICK E : E = D1 \o D2 OBVIOUS
<1>50. CutInto(pieces, E, ends, k) BY <1>1, <1>2, <1>5, Zenon
<1>6. D1 \in Seq(Nat) /\ D2 \in Seq(Nat) BY <1>3, <1>4, Zenon DEF Coded
<1>7. PICK w \in Nat : w = Len(D1) BY <1>6, LenProperties
<1>8. PICK v \in Nat : v = Len(D2) BY <1>6, LenProperties
<1>9. TwoUnits(E, w, a, d) BY <1>3, <1>4, <1>5, <1>7, StreamOfTwo, Zenon
<1>10. Joins(E, D1, D2, w, v, Nat) BY <1>5, <1>6, <1>7, <1>8, Joined
<1>11. /\ E \in Seq(Nat) /\ Len(E) = w + v
       /\ \A i \in 1 .. w : E[i] = D1[i]
       /\ \A i \in 1 .. v : E[w + i] = D2[i]
  BY <1>10 DEF Joins
<1>12. SubSeq(E, 1, w) = D1
  <2>1. 0 \in Nat /\ 0 + Len(D1) <= Len(E) /\ 0 + 1 = 1 /\ 0 + Len(D1) = w BY <1>7, <1>11
  <2>2. \A i \in 1 .. Len(D1) : E[0 + i] = D1[i] BY <1>7, <1>11
  <2>3. SubSeq(E, 0 + 1, 0 + Len(D1)) = D1 BY <1>6, <1>11, <2>1, <2>2, PartIs
  <2> QED BY <2>1, <2>3, Zenon
<1>13. SubSeq(E, w + 1, Len(E)) = D2
  <2>1. w + Len(D2) <= Len(E) /\ w + Len(D2) = Len(E) BY <1>8, <1>11
  <2>2. \A i \in 1 .. Len(D2) : E[w + i] = D2[i] BY <1>8, <1>11
  <2>3. SubSeq(E, w + 1, w + Len(D2)) = D2 BY <1>6, <1>11, <2>1, <2>2, PartIs
  <2> QED BY <2>1, <2>3, Zenon
<1>14. Parse(D1) = <<u1>> /\ Parse(D2) = <<u2>> BY <1>3, <1>4, CodedParsed, Zenon
<1>15. PICK r : r = ReadPieces(pieces) OBVIOUS
<1>16. r = [units |-> <<u1>>, rest |-> D2]
  <2>1. Parse(SubSeq(E, 1, w)) = <<u1>> BY <1>12, <1>14, Zenon
  <2>2. ReadPieces(pieces) = [units |-> <<u1>>, rest |-> SubSeq(E, w + 1, Len(E))]
    BY <1>9, <1>50, <2>1, PipeRead, Zenon
  <2> QED BY <1>13, <1>15, <2>2, Zenon
<1>17. r.units = <<u1>> /\ r.rest = D2 BY <1>16
<1>18. <<u1>> \o <<u2>> = <<u1, u2>>
  <2>1. u1 \in {u1, u2} /\ u2 \in {u1, u2} /\ <<u1>> \in Seq({u1, u2}) OBVIOUS
  <2>2. Append(<<u1>>, u2) = <<u1>> \o <<u2>> BY <2>1, AppendIsConcat
  <2>3. Append(<<u1>>, u2) = <<u1, u2>> BY <2>1, AppendToOne
  <2> QED BY <2>2, <2>3, Zenon
<1> QED BY <1>14, <1>15, <1>17, <1>18, Zenon

(* Where the reads of a pipe end: at its cuts, the last one at its end. *)
LEMMA EndsOfReads ==
  ASSUME NEW L \in Nat \ {0}, NEW cuts \in Cuts(L), NEW ends, ends = Append(cuts, L)
  PROVE  \E k \in Nat \ {0} : /\ ends \in [1 .. k -> 1 .. L] /\ ends[k] = L /\ DOMAIN ends = 1 .. k
                              /\ \A i \in 2 .. k : ends[i - 1] <= ends[i]
<1>1. PICK n \in Nat : cuts \in [1 .. n -> 1 .. L - 1]
  <2>1. cuts \in SeqOf(1 .. L - 1, MaxCuts) BY DEF Cuts
  <2>2. MaxCuts \in Nat BY FormatsAssumption
  <2> QED BY <2>1, <2>2 DEF SeqOf
<1>2. \A i \in 1 .. n : i > 1 => cuts[i - 1] < cuts[i]
  <2>1. DOMAIN cuts = 1 .. n BY <1>1
  <2> QED BY <2>1 DEF Cuts
<1>3. cuts \in Seq(1 .. L) /\ Len(cuts) = n /\ \A i \in 1 .. n : cuts[i] \in 1 .. L - 1
  <2>1. \A i \in 1 .. n : cuts[i] \in 1 .. L BY <1>1
  <2>2. cuts \in [1 .. n -> 1 .. L] BY <1>1, <2>1
  <2> QED BY <1>1, <2>2
<1>4. L \in 1 .. L OBVIOUS
<1>5. /\ ends \in Seq(1 .. L) /\ Len(ends) = n + 1 /\ ends[n + 1] = L
      /\ \A i \in 1 .. n : ends[i] = cuts[i]
  BY <1>3, <1>4, AppendProperties
<1>6. ends \in [1 .. n + 1 -> 1 .. L] /\ DOMAIN ends = 1 .. n + 1
  <2>1. ends \in [1 .. Len(ends) -> 1 .. L] /\ DOMAIN ends = 1 .. Len(ends) BY <1>5, LenProperties
  <2> QED BY <1>5, <2>1, Zenon
<1>7. ASSUME NEW i \in 2 .. n + 1 PROVE ends[i - 1] <= ends[i]
  <2>1. i - 1 \in 1 .. n BY <1>7
  <2>2. ends[i - 1] = cuts[i - 1] /\ cuts[i - 1] \in 1 .. L - 1 BY <1>3, <1>5, <2>1
  <2>3. CASE i = n + 1 BY <1>5, <2>2, <2>3
  <2>4. CASE i # n + 1
    <3>1. i \in 1 .. n /\ i > 1 BY <2>4
    <3>2. ends[i] = cuts[i] /\ cuts[i] \in 1 .. L - 1 /\ cuts[i - 1] < cuts[i] BY <1>2, <1>3, <1>5, <3>1
    <3> QED BY <2>2, <3>2
  <2> QED BY <2>3, <2>4
<1>8. n + 1 \in Nat \ {0} OBVIOUS
<1> QED BY <1>5, <1>6, <1>7, <1>8

(* A stream as it is read, up to each of these places and to its end. *)
PiecesOf(E, cuts) ==
    LET ends == Append(cuts, Len(E))
    IN  [i \in DOMAIN ends |-> SubSeq(E, IF i = 1 THEN 1 ELSE ends[i - 1] + 1, ends[i])]

(* What a reader of these pieces has seen, and what it parses at the end. *)
Whole(pieces) == ReadPieces(pieces).units \o Parse(ReadPieces(pieces).rest)

LEMMA UnitsThroughPipe ==
  ASSUME NEW units \in TupleOf(NalUnits, 2), NEW long \in TupleOf(BOOLEAN, 2),
         NEW cuts \in Cuts(Len(Annexed(units, long)))
  PROVE  Whole(PiecesOf(Annexed(units, long), cuts)) = units
<1>e. PICK E : E = Annexed(units, long) OBVIOUS
<1>c. PICK ends : ends = Append(cuts, Len(E)) OBVIOUS
<1>p. PICK pieces : pieces = PiecesOf(E, cuts) OBVIOUS
<1>1. PICK u1 \in NalUnits, u2 \in NalUnits : units = <<u1, u2>>
  <2>1. units \in [1 .. 2 -> NalUnits] BY DEF TupleOf
  <2>2. units[1] \in NalUnits /\ units[2] \in NalUnits /\ units = <<units[1], units[2]>>
    <3> HIDE DEF NalUnits
    <3> QED BY <2>1
  <2> QED BY <2>2
<1>2. PICK long1 \in BOOLEAN, long2 \in BOOLEAN : long = <<long1, long2>>
  <2>1. long \in [1 .. 2 -> BOOLEAN] BY DEF TupleOf
  <2>2. long[1] \in BOOLEAN /\ long[2] \in BOOLEAN /\ long = <<long[1], long[2]>> BY <2>1
  <2> QED BY <2>2
<1>3. Clean(u1) /\ Clean(u2) BY UnitsClean, Zenon
<1>4. E = (StartCode(long1) \o u1) \o (StartCode(long2) \o u2) BY <1>e, <1>1, <1>2, <1>3, AnnexedTwo
<1>5. PICK L \in Nat \ {0} : L = Len(E)
  <2>1. PICK a : Coded(StartCode(long1) \o u1, u1, a) BY <1>3, UnitCoded
  <2>2. PICK d : Coded(StartCode(long2) \o u2, u2, d) BY <1>3, UnitCoded
  <2>3. TwoUnits(E, Len(StartCode(long1) \o u1), a, d) BY <1>4, <2>1, <2>2, StreamOfTwo, Zenon
  <2>4. E \in Seq(Nat) /\ \E w \in Nat : w >= 1 /\ Len(E) >= w BY <2>3 DEF TwoUnits
  <2>5. Len(E) \in Nat BY <2>4, LenProperties
  <2> QED BY <2>4, <2>5
<1>6. cuts \in Cuts(L) BY <1>e, <1>5, Zenon
<1>7. PICK k \in Nat \ {0} : /\ ends \in [1 .. k -> 1 .. L] /\ ends[k] = L /\ DOMAIN ends = 1 .. k
                             /\ \A i \in 2 .. k : ends[i - 1] <= ends[i]
  BY <1>c, <1>5, <1>6, EndsOfReads
<1>8. pieces = [i \in 1 .. k |-> PieceAt(E, ends, i)] BY <1>p, <1>c, <1>7, Zenon DEF PieceAt, PiecesOf
<1>9. CutInto(pieces, E, ends, k) BY <1>5, <1>7, <1>8, Zenon DEF CutInto
<1>10. ReadPieces(pieces).units \o Parse(ReadPieces(pieces).rest) = <<u1, u2>>
  <2>1. CutInto(pieces, (StartCode(long1) \o u1) \o (StartCode(long2) \o u2), ends, k) BY <1>4, <1>9, Zenon
  <2> QED BY <1>3, <2>1, PipeReadBack, Zenon
<1>11. Whole(pieces) = units BY <1>1, <1>10, Zenon DEF Whole
<1> QED BY <1>e, <1>p, <1>11, Zenon

-----------------------------------------------------------------------------
(* The conversions of Formats. *)

(* An input of these kinds is one of those enumerated. *)
ReadKinds == {"message", "chunk", "sets", "video", "answer", "pieces", "pictures", "pes"}
ReadInv ==
    /\ subject.kind \in ReadKinds => subject \in Subjects(subject.kind)
    /\ FormatsReadBack

LEMMA ReadInvInit == FormatsInit \/ (subject = [kind |-> "none"] /\ converted = <<>>) => ReadInv
<1> SUFFICES ASSUME FormatsInit \/ (subject = [kind |-> "none"] /\ converted = <<>>) PROVE ReadInv
  OBVIOUS
<1>1. converted = <<>> BY DEF FormatsInit
<1>2. FormatsReadBack
  BY <1>1, Zenon DEF FormatsReadBack, MessagesReadBack, ChunksReadBack, SetsReadBack, BodiesReadBack,
           AnswersUnderstood, PiecesReadBack, PicturesKept, PacketsKeepData, Done
<1>3. subject.kind \in ReadKinds => subject \in Subjects(subject.kind)
  <2>1. CASE subject = [kind |-> "none"] BY <2>1 DEF ReadKinds
  <2>2. CASE FormatsInit
    <3>1. PICK kind \in SubjectKinds : subject \in Subjects(kind) BY <2>2 DEF FormatsInit
    <3>2. kind \in {"message", "chunk", "video", "sets", "answer", "pieces", "pictures", "pes",
                    "frame", "scale", "pad"}
      BY FormatsAssumption
    <3>3. subject.kind = kind BY <3>1, <3>2, OwnKind
    <3> QED BY <3>1, <3>3
  <2> QED BY <2>1, <2>2
<1> QED BY <1>2, <1>3 DEF ReadInv

(* A conversion of one kind leaves the others as they are. *)
LEMMA OtherKinds ==
  /\ subject'.kind # "message" => MessagesReadBack'
  /\ subject'.kind # "chunk" => ChunksReadBack'
  /\ subject'.kind # "sets" => SetsReadBack'
  /\ subject'.kind # "video" => BodiesReadBack'
  /\ subject'.kind # "answer" => AnswersUnderstood'
  /\ subject'.kind # "pieces" => PiecesReadBack'
  /\ subject'.kind # "pictures" => PicturesKept'
  /\ subject'.kind # "pes" => PacketsKeepData'
BY Zenon DEF MessagesReadBack, ChunksReadBack, SetsReadBack, BodiesReadBack,
             AnswersUnderstood, PiecesReadBack, PicturesKept, PacketsKeepData, Done

LEMMA MessageKept == ReadInv /\ SendMessage => MessagesReadBack'
<1> SUFFICES ASSUME ReadInv, SendMessage PROVE MessagesReadBack' OBVIOUS
<1>1. PICK wire : wire = WriteMessage(subject.time, Bytes(subject.length), DefaultChunkSize) OBVIOUS
<1>2. subject.kind = "message" /\ subject' = subject /\ converted' = <<wire>>
  BY <1>1, Zenon DEF SendMessage, Due, Into
<1>3. Result' = wire
  <2>1. Result' = Head(converted') BY Zenon DEF Result
  <2> QED BY <1>2, <2>1
<1>4. /\ subject.time \in Nat /\ subject.length \in Nat /\ subject.length >= 1
      /\ DefaultChunkSize \in Nat \ {0}
  <2>1. subject \in Subjects("message") BY <1>2 DEF ReadInv, ReadKinds
  <2>2. subject.time \in 0 .. TimeField + 1 /\ subject.length \in 1 .. MaxLength BY <2>1 DEF Subjects
  <2> QED BY <2>2, RtmpWireAssumption, FormatsAssumption
<1>5. ReadMessage(wire, DefaultChunkSize) = [time |-> subject.time, bytes |-> Payload(Bytes(subject.length))]
  <2>1. PICK time \in Nat, length \in Nat : time = subject.time /\ length = subject.length BY <1>4
  <2>2. ReadMessage(WriteMessage(time, Bytes(length), DefaultChunkSize), DefaultChunkSize)
          = [time |-> time, bytes |-> Payload(Bytes(length))]
    BY <1>4, <2>1, MessageReadBack
  <2> QED BY <1>1, <2>1, <2>2, Zenon
<1> QED BY <1>2, <1>3, <1>5, Zenon DEF MessagesReadBack

LEMMA ChunkKept == ReadInv /\ HeadChunk => ChunksReadBack'
<1> SUFFICES ASSUME ReadInv, HeadChunk PROVE ChunksReadBack' OBVIOUS
<1>1. PICK header : header = BasicHeader(subject.format, subject.csID) OBVIOUS
<1>2. subject.kind = "chunk" /\ subject' = subject /\ converted' = <<header>>
  BY <1>1, Zenon DEF HeadChunk, Due, Into
<1>3. Result' = header
  <2>1. Result' = Head(converted') BY Zenon DEF Result
  <2> QED BY <1>2, <2>1
<1>4. ReadBasicHeader(header) = [format |-> subject.format, csID |-> subject.csID]
  <2>1. subject \in Subjects("chunk") BY <1>2 DEF ReadInv, ReadKinds
  <2>2. PICK format, csID : format = subject.format /\ csID = subject.csID OBVIOUS
  <2>3. format \in 0 .. 3 /\ csID \in Nat /\ csID >= 2 /\ (csID - 64) \div 256 <= 255
    <3>1. format \in 0 .. 3 /\ csID \in {2, 63, 64, 319, 320, 575, 576, 65599} BY <2>1, <2>2 DEF Subjects
    <3> QED BY <3>1
  <2>4. ReadBasicHeader(BasicHeader(format, csID)) = [format |-> format, csID |-> csID] BY <2>3, HeadReadBack
  <2>5. header = BasicHeader(format, csID) BY <1>1, <2>2, Zenon
  <2>6. ReadBasicHeader(header) = [format |-> format, csID |-> csID] BY <2>4, <2>5, Zenon
  <2> QED BY <2>2, <2>6, Zenon
<1> QED BY <1>2, <1>3, <1>4, Zenon DEF ChunksReadBack

LEMMA HeaderKept == ReadInv /\ SendSets => SetsReadBack'
<1> SUFFICES ASSUME ReadInv, SendSets PROVE SetsReadBack' OBVIOUS
<1>1. PICK header : header = SequenceHeader(subject.sps, subject.pps) OBVIOUS
<1>2. subject.kind = "sets" /\ subject' = subject /\ converted' = <<header>>
  BY <1>1, Zenon DEF SendSets, Due, Into
<1>3. Result' = header
  <2>1. Result' = Head(converted') BY Zenon DEF Result
  <2> QED BY <1>2, <2>1
<1>4. PICK sps, pps : sps = subject.sps /\ pps = subject.pps OBVIOUS
<1>5. sps \in Seq(Nat) /\ pps \in Seq(Nat) /\ Len(sps) >= 4
  <2>1. subject \in Subjects("sets") BY <1>2 DEF ReadInv, ReadKinds
  <2>2. sps \in {<<103, 66, 0, 30>>, <<103, 77, 64, 40, 9>>} /\ pps \in {<<104>>, <<104, 2>>}
    BY <1>4, <2>1 DEF Subjects
  <2>3. sps \in Seq(Nat) /\ Len(sps) >= 4
    <3>1. CASE sps = <<103, 66, 0, 30>> BY <3>1
    <3>2. CASE sps = <<103, 77, 64, 40, 9>> BY <3>2
    <3> QED BY <2>2, <3>1, <3>2
  <2>4. pps \in Seq(Nat)
    <3>1. CASE pps = <<104>> BY <3>1
    <3>2. CASE pps = <<104, 2>> BY <3>2
    <3> QED BY <2>2, <3>1, <3>2
  <2> QED BY <2>3, <2>4
<1>6. Holds(SequenceHeader(sps, pps), sps, pps) BY <1>5, HeaderReadBack
<1>7. Holds(header, subject.sps, subject.pps) BY <1>1, <1>4, <1>6, Zenon
<1>8. Holds(Result', subject'.sps, subject'.pps) BY <1>2, <1>3, <1>7, Zenon
<1> QED BY <1>8, Zenon DEF SetsReadBack, Holds

LEMMA VideoKept == ReadInv /\ SendVideo => BodiesReadBack'
<1> SUFFICES ASSUME ReadInv, SendVideo PROVE BodiesReadBack' OBVIOUS
<1>1. PICK key, units : key = subject.key /\ units = subject.units OBVIOUS
<1>2. PICK body : body = VideoBody(key, units) OBVIOUS
<1>3. subject.kind = "video" /\ subject' = subject /\ converted' = <<body>>
  BY <1>1, <1>2, Zenon DEF SendVideo, Due, Into
<1>4. Result' = body
  <2>1. Result' = Head(converted') BY Zenon DEF Result
  <2> QED BY <1>3, <2>1
<1>5. key \in BOOLEAN /\ units \in TupleOf(NalUnits, 2)
  <2>1. subject \in Subjects("video") BY <1>3 DEF ReadInv, ReadKinds
  <2> QED BY <1>1, <2>1 DEF Subjects
<1>6. PICK u \in Seq(Nat), v \in Seq(Nat) : units = <<u, v>>
  <2>1. units \in [1 .. 2 -> NalUnits] BY <1>5 DEF TupleOf
  <2>2. units[1] \in NalUnits /\ units[2] \in NalUnits /\ units = <<units[1], units[2]>>
    <3> HIDE DEF NalUnits
    <3> QED BY <2>1
  <2>3. \A u \in NalUnits : u \in Seq(Nat) BY UnitsClean, Zenon DEF Clean
  <2> QED BY <2>2, <2>3
<1>7. ReadVideoBody(body) = units BY <1>2, <1>5, <1>6, UnitsReadBack
<1> QED BY <1>1, <1>3, <1>4, <1>7, Zenon DEF BodiesReadBack

LEMMA AnswerKept == ReadInv /\ ReadAnswer => AnswersUnderstood'
<1> SUFFICES ASSUME ReadInv, ReadAnswer PROVE AnswersUnderstood' OBVIOUS
<1>1. PICK at : at = StreamIDAt(subject.info \o <<"number">>) OBVIOUS
<1>2. subject.kind = "answer" /\ subject' = subject /\ converted' = <<at>>
  BY <1>1, Zenon DEF ReadAnswer, Due, Into
<1>3. Result' = at
  <2>1. Result' = Head(converted') BY Zenon DEF Result
  <2> QED BY <1>2, <2>1
<1>4. at = Len(subject.info) + 1
  <2>1. subject \in Subjects("answer") BY <1>2 DEF ReadInv, ReadKinds
  <2>2. subject.info \in {<<"null">>} \union AmfObjects
    <3> HIDE DEF AmfObjects
    <3> QED BY <2>1 DEF Subjects
  <2> QED BY <1>1, <2>2, AnswersFound, Zenon
<1> QED BY <1>1, <1>2, <1>3, <1>4, Zenon DEF AnswersUnderstood

LEMMA PiecesKept == ReadInv /\ ReadPipe => PiecesReadBack'
<1> SUFFICES ASSUME ReadInv, ReadPipe PROVE PiecesReadBack' OBVIOUS
<1>1. PICK read : read = ReadPieces(Pieces) OBVIOUS
<1>2. subject.kind = "pieces" /\ subject' = subject /\ converted' = <<read>>
  BY <1>1, Zenon DEF ReadPipe, Due, Into
<1>3. Result' = read
  <2>1. Result' = Head(converted') BY Zenon DEF Result
  <2> QED BY <1>2, <2>1
<1>4. PICK units, long, cuts : units = subject.units /\ long = subject.long /\ cuts = subject.cuts OBVIOUS
<1>5. /\ units \in TupleOf(NalUnits, 2) /\ long \in TupleOf(BOOLEAN, 2)
      /\ cuts \in Cuts(Len(Annexed(units, long)))
  <2>1. subject \in Subjects("pieces") BY <1>2 DEF ReadInv, ReadKinds
  <2> QED BY <1>4, <2>1, PiecesInput, Zenon
<1>6. Pieces = PiecesOf(Annexed(units, long), cuts) BY <1>4, Zenon DEF Pieces, PiecesOf
<1>7. Whole(PiecesOf(Annexed(units, long), cuts)) = units BY <1>5, UnitsThroughPipe
<1>11. read.units \o Parse(read.rest) = units BY <1>1, <1>6, <1>7, Zenon DEF Whole
<1> QED BY <1>2, <1>3, <1>4, <1>11, Zenon DEF PiecesReadBack

LEMMA PicturesStay == ReadInv /\ GroupUnits => PicturesKept'
<1> SUFFICES ASSUME ReadInv, GroupUnits PROVE PicturesKept' OBVIOUS
<1>1. PICK pictures : pictures = [i \in DOMAIN subject.keys |-> Picture(subject.keys[i])] OBVIOUS
<1>2. PICK groups : groups = Grouped(FlattenSeq(pictures)) OBVIOUS
<1>3. subject.kind = "pictures" /\ subject' = subject /\ converted' = <<groups>>
  BY <1>1, <1>2, Zenon DEF GroupUnits, Due, Into
<1>4. Result' = groups
  <2>1. Result' = Head(converted') BY Zenon DEF Result
  <2> QED BY <1>3, <2>1
<1>5. PICK keys : keys = subject.keys OBVIOUS
<1>6. keys \in Seq(BOOLEAN)
  <2>1. subject \in Subjects("pictures") BY <1>3 DEF ReadInv, ReadKinds
  <2>2. PICK n \in 1 .. 4 : keys \in TupleOf(BOOLEAN, n) BY <1>5, <2>1 DEF Subjects
  <2>3. keys \in [1 .. n -> BOOLEAN] BY <2>2 DEF TupleOf
  <2> QED BY <2>3
<1>7. pictures = [i \in DOMAIN keys |-> Picture(keys[i])] BY <1>1, <1>5, Zenon
<1>8. groups = pictures BY <1>2, <1>6, <1>7, PicturesRead
<1> QED BY <1>1, <1>3, <1>4, <1>8, Zenon DEF PicturesKept

LEMMA FrameKept == ReadInv /\ MuxFrame => PacketsKeepData'
<1> SUFFICES ASSUME ReadInv, MuxFrame PROVE PacketsKeepData' OBVIOUS
<1>1. PICK packets : packets = WritePackets(Bytes(subject.length), subject.counter) OBVIOUS
<1>2. PICK pts : pts = PtsBytes(subject.time) OBVIOUS
<1>3. subject.kind = "pes" /\ subject' = subject /\ converted' = <<[pts |-> pts, packets |-> packets]>>
  BY <1>1, <1>2, Zenon DEF MuxFrame, Due, Into
<1>4. Result' = [pts |-> pts, packets |-> packets]
  <2>1. Result' = Head(converted') BY Zenon DEF Result
  <2> QED BY <1>3, <2>1
<1>5. Result'.packets = packets BY <1>4
<1>6. PICK n \in Nat, counter \in Nat : n = subject.length /\ counter = subject.counter
  <2>1. subject \in Subjects("pes") BY <1>3 DEF ReadInv, ReadKinds
  <2>2. subject.length \in 1 .. MaxLength /\ subject.counter \in {0, 14} BY <2>1 DEF Subjects
  <2> QED BY <2>2, FormatsAssumption
<1>7. PICK data : data = Bytes(n) OBVIOUS
<1>8. data \in Seq(Nat) /\ n = Len(data) BY <1>7 DEF Bytes
<1>9. packets = WritePackets(data, counter) BY <1>1, <1>6, <1>7, Zenon
<1>10. Carry(packets, data, n) BY <1>8, <1>9, PacketsKeep
<1>11. Carry(Result'.packets, Bytes(subject'.length), subject'.length) BY <1>3, <1>5, <1>6, <1>7, <1>10, Zenon
<1> QED BY <1>11, Zenon DEF PacketsKeepData, Carry

LEMMA ReadInvKept == ReadInv /\ [FormatsNext]_formatVars => ReadInv'
<1> SUFFICES ASSUME ReadInv, [FormatsNext]_formatVars PROVE ReadInv' OBVIOUS
<1>1. subject' = subject
  BY DEF FormatsNext, formatVars, SendMessage, HeadChunk, SendSets, SendVideo, ReadAnswer, ReadPipe,
         GroupUnits, MuxFrame, TransformFrame, ScaleFrame, PadFrame, Into
<1>2. (subject.kind \in ReadKinds => subject \in Subjects(subject.kind))'
  BY <1>1, Zenon DEF ReadInv
<1>3. FormatsReadBack'
  <2>1. CASE UNCHANGED formatVars
    <3>1. subject' = subject /\ converted' = converted BY <2>1 DEF formatVars
    <3>2. FormatsReadBack' = FormatsReadBack
      BY <3>1 DEF FormatsReadBack, MessagesReadBack, ChunksReadBack, SetsReadBack, BodiesReadBack,
           AnswersUnderstood, PiecesReadBack, PicturesKept, PacketsKeepData, Done, Result
    <3> QED BY <3>2 DEF ReadInv
  <2>2. CASE SendMessage
    <3>1. subject.kind = "message" BY <2>2 DEF SendMessage, Due
    <3> QED BY <1>1, <2>2, <3>1, MessageKept, OtherKinds DEF FormatsReadBack
  <2>3. CASE HeadChunk
    <3>1. subject.kind = "chunk" BY <2>3 DEF HeadChunk, Due
    <3> QED BY <1>1, <2>3, <3>1, ChunkKept, OtherKinds DEF FormatsReadBack
  <2>4. CASE SendSets
    <3>1. subject.kind = "sets" BY <2>4 DEF SendSets, Due
    <3> QED BY <1>1, <2>4, <3>1, HeaderKept, OtherKinds DEF FormatsReadBack
  <2>5. CASE SendVideo
    <3>1. subject.kind = "video" BY <2>5 DEF SendVideo, Due
    <3> QED BY <1>1, <2>5, <3>1, VideoKept, OtherKinds DEF FormatsReadBack
  <2>6. CASE ReadAnswer
    <3>1. subject.kind = "answer" BY <2>6 DEF ReadAnswer, Due
    <3> QED BY <1>1, <2>6, <3>1, AnswerKept, OtherKinds DEF FormatsReadBack
  <2>7. CASE ReadPipe
    <3>1. subject.kind = "pieces" BY <2>7 DEF ReadPipe, Due
    <3> QED BY <1>1, <2>7, <3>1, PiecesKept, OtherKinds DEF FormatsReadBack
  <2>8. CASE GroupUnits
    <3>1. subject.kind = "pictures" BY <2>8 DEF GroupUnits, Due
    <3> QED BY <1>1, <2>8, <3>1, PicturesStay, OtherKinds DEF FormatsReadBack
  <2>9. CASE MuxFrame
    <3>1. subject.kind = "pes" BY <2>9 DEF MuxFrame, Due
    <3> QED BY <1>1, <2>9, <3>1, FrameKept, OtherKinds DEF FormatsReadBack
  <2>10. CASE TransformFrame \/ ScaleFrame \/ PadFrame
    <3>1. subject.kind \in {"frame", "scale", "pad"} BY <2>10 DEF TransformFrame, ScaleFrame, PadFrame, Due
    <3> QED BY <1>1, <3>1, OtherKinds DEF FormatsReadBack
  <2> QED BY <2>1, <2>2, <2>3, <2>4, <2>5, <2>6, <2>7, <2>8, <2>9, <2>10 DEF FormatsNext
<1> QED BY <1>2, <1>3, Zenon DEF ReadInv

(* What leaves in one format is read back as it was: RTMP messages of any
   length and time stamp in chunks of any size, the numbers of chunk streams,
   parameter sets, video bodies, answers, the pipe of rpicam-vid however often
   and wherever reads cut it, pictures in any order, and data of any length in
   transport packets of any room (push.go, amf.go, flv.go, rpicamvid.go,
   parser.go, muxts.go). *)
THEOREM ReadBack == Spec => []FormatsReadBack
<1>1. Init => ReadInv BY ReadInvInit DEF Init
<1>2. ReadInv /\ [Next]_vars => ReadInv'
  <2>1. [Next]_vars => [FormatsNext]_formatVars
    BY DEF Next, vars, CameraWrites, RtmpStep, HlsStep, EncoderStep, SubstreamStep,
           ParamSetsStep, FormatsStep, OtherParts
  <2> QED BY <2>1, ReadInvKept
<1>3. ReadInv => FormatsReadBack BY DEF ReadInv
<1> QED BY <1>1, <1>2, <1>3, PTL DEF Spec

=============================================================================
