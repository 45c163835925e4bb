----------------------------- MODULE ServicesProofs ----------------------------
(***************************************************************************)
(* Proofs about the parts of Services: the decoder and the edges of AI     *)
(* detection, the session store, the saved configuration and the geometry  *)
(* it may change, the registry and the detectors of the AI models and the  *)
(* login limiter; for any bounds, any limits and any number of requests in *)
(* flight.                                                                 *)
(***************************************************************************)
EXTENDS Services, FiniteSetTheorems, FunctionTheorems, TLAPS

-----------------------------------------------------------------------------
(* The decoder *)

(* What runOnce holds at each place, and when the frames channel is open:
   DecoderLeavesNothing says neither what "wait" holds, which makes Reap end
   with nothing, nor why a reader never meets a closed channel. *)
DecoderHolds ==
    /\ decoder = "wait" => subscribed = 1
    /\ decoder = "reap" => subscribed = 0 /\ ~ffmpeg
    /\ decoder \in {"spawn", "wait", "reap", "pause", "ended"}
    /\ tap => decoder = "ended"
    /\ ~scenesOpen => decoder = "ended" /\ ~tap
    /\ strays \in Nat

DecoderInv == DecoderLeavesNothing /\ DecoderHolds

LEMMA DecoderInvInit == DetectionInit => DecoderInv
<1> SUFFICES ASSUME DetectionInit PROVE DecoderInv
  OBVIOUS
<1>1. ~decoderPanics /\ scenesOpen /\ ~ffmpeg /\ ~writer /\ ~reader /\ strays = 0
  BY Zenon DEF DetectionInit
<1> QED BY <1>1 DEF DetectionInit, DecoderInv, DecoderLeavesNothing, DecoderHolds

(* The service loop, the web server and the bridge take what the decoder sent;
   none of them acts on it. *)
LEMMA ConsumersKeep ==
  ASSUME DecoderInv,
         \/ CancelAi \/ TakeScene \/ LoopEnds \/ DetectFails \/ Publish
         \/ WebTakesEvent \/ BridgeTakesEvent \/ GateMoves
  PROVE  DecoderInv'
<1>1. UNCHANGED <<decoder, subscribed, ffmpeg, writer, reader, strays, strayed, scenesOpen,
                  decoderPanics, tap>>
  BY DEF CancelAi, TakeScene, LoopEnds, DetectFails, Publish, WebTakesEvent,
         BridgeTakesEvent, GateMoves, decoderVars, goroutines, sceneVars, Setup
<1> QED BY <1>1 DEF DecoderInv, DecoderLeavesNothing, DecoderHolds

(* The decoder, its process and its goroutines. *)
LEMMA DecoderKeeps ==
  ASSUME DecoderInv, DecoderNext PROVE DecoderInv'
<1> USE DEF DecoderInv, DecoderLeavesNothing, DecoderHolds, sceneVars, goroutines, Setup
<1>1. CASE Spawn BY <1>1 DEF Spawn
<1>2. CASE DecoderEnds BY <1>2 DEF DecoderEnds
<1>3. CASE FfmpegExits BY <1>3 DEF FfmpegExits
<1>4. CASE Reap BY <1>4 DEF Reap
<1>5. CASE WriterEnds BY <1>5 DEF WriterEnds
<1>6. CASE ReaderStops BY <1>6 DEF ReaderStops
<1>7. CASE Reaped BY <1>7 DEF Reaped
<1>8. CASE PauseEnds BY <1>8 DEF PauseEnds
<1>9. ASSUME NEW target \in BOOLEAN, FrameArrives(target) PROVE DecoderInv'
  <2>1. strayed \/ scenesOpen BY <1>9 DEF FrameArrives
  <2>2. strayed \/ ~decoderPanics' BY <1>9, <2>1, Zenon DEF FrameArrives
  <2>3. UNCHANGED <<decoder, subscribed, ffmpeg, writer, reader, strays, strayed, scenesOpen, tap>>
    BY <1>9 DEF FrameArrives, decoderVars
  <2> QED BY <2>2, <2>3
<1> QED BY <1>1, <1>2, <1>3, <1>4, <1>5, <1>6, <1>7, <1>8, <1>9 DEF DecoderNext

(* One process and one subscription at a time, neither they nor the writer left
   between two starts or at the end; and as long as no run ended without its
   reader, no reader is left, and nobody sends on the closed frames channel. *)
THEOREM NothingLeft == DetectionSpec => []DecoderLeavesNothing
<1>1. DecoderInv /\ [DetectionNext]_detectionVars => DecoderInv'
  <2> SUFFICES ASSUME DecoderInv, [DetectionNext]_detectionVars PROVE DecoderInv'
    OBVIOUS
  <2>1. CASE UNCHANGED detectionVars
    BY <2>1 DEF detectionVars, decoderVars, goroutines, sceneVars, DecoderInv, DecoderLeavesNothing, DecoderHolds
  <2> QED BY <2>1, ConsumersKeep, DecoderKeeps DEF DetectionNext
<1>2. DecoderInv => DecoderLeavesNothing BY DEF DecoderInv
<1> QED BY <1>1, <1>2, DecoderInvInit, PTL DEF DetectionSpec

-----------------------------------------------------------------------------
(* Edges on their way to the bridge *)

(* What is known of the frames is FALSE or TRUE, and the edges are numbers. *)
EdgeTypes ==
    /\ scenes \in Seq(BOOLEAN) /\ events \in Seq(BOOLEAN)
    /\ inHand \in BOOLEAN /\ published \in BOOLEAN /\ prevTarget \in BOOLEAN
    /\ edges \in Nat /\ alarms \in Nat /\ refusedAlarms \in Nat

EdgeInv == EdgeTypes /\ EdgesReachBridge

LEMMA RisesFinite ==
  ASSUME NEW q \in Seq(BOOLEAN)
  PROVE  IsFiniteSet(Rises(q)) /\ Cardinality(Rises(q)) \in Nat
<1>1. Len(q) \in Nat OBVIOUS
<1>2. IsFiniteSet(2 .. Len(q)) BY <1>1, FS_Interval
<1>3. Rises(q) \subseteq 2 .. Len(q) BY DEF Rises
<1> QED BY <1>2, <1>3, FS_Subset, FS_CardinalityType

(* One more result at the end may be one more edge. *)
LEMMA RisesWithLast ==
  ASSUME NEW q \in Seq(BOOLEAN), q # <<>>, NEW b \in BOOLEAN
  PROVE  Cardinality(Rises(Append(q, b))) =
             Cardinality(Rises(q)) + (IF b /\ ~q[Len(q)] THEN 1 ELSE 0)
<1>1. /\ Len(q) \in Nat /\ Len(q) >= 1 /\ Len(Append(q, b)) = Len(q) + 1
      /\ \A i \in 1 .. Len(q) : Append(q, b)[i] = q[i]
      /\ Append(q, b)[Len(q) + 1] = b
  OBVIOUS
<1> DEFINE n == Len(q)
           r == Append(q, b)
<1>2. Rises(r) = Rises(q) \union (IF b /\ ~q[n] THEN {n + 1} ELSE {})
  <2> SUFFICES ASSUME NEW i
               PROVE  i \in Rises(r) <=> i \in Rises(q) \/ (i = n + 1 /\ b /\ ~q[n])
    OBVIOUS
  <2> HIDE DEF r
  <2>1. i \in Rises(r) <=> i \in 2 .. n + 1 /\ r[i] /\ ~r[i - 1] BY <1>1 DEF Rises, r
  <2>2. i \in Rises(q) <=> i \in 2 .. n /\ q[i] /\ ~q[i - 1] BY DEF Rises
  <2>3. CASE i \in 2 .. n
    <3>1. r[i] = q[i] /\ r[i - 1] = q[i - 1] BY <1>1, <2>3 DEF r
    <3> QED BY <1>1, <2>1, <2>2, <2>3, <3>1
  <2>4. CASE i = n + 1
    <3>1. r[i] = b /\ r[i - 1] = q[n] BY <1>1, <2>4 DEF r
    <3> QED BY <1>1, <2>1, <2>2, <2>4, <3>1
  <2>5. CASE i \notin 2 .. n + 1 BY <1>1, <2>1, <2>2, <2>5
  <2> QED BY <1>1, <2>3, <2>4, <2>5
<1>3. n + 1 \notin Rises(q) BY <1>1 DEF Rises
<1>4. IsFiniteSet(Rises(q)) /\ Cardinality(Rises(q)) \in Nat BY RisesFinite
<1> HIDE DEF n, r
<1>5. CASE b /\ ~q[n]
  <2>1. Cardinality(Rises(q) \union {n + 1}) = Cardinality(Rises(q)) + 1
    BY <1>3, <1>4, FS_AddElement
  <2> QED BY <1>2, <1>5, <2>1 DEF r, n
<1>6. CASE ~(b /\ ~q[n])
  <2>1. Rises(r) = Rises(q) BY <1>2, <1>6
  <2> QED BY <1>4, <1>6, <2>1 DEF r, n
<1> QED BY <1>5, <1>6

(* The first of two results goes; the edge between them, if there is one, too. *)
LEMMA RisesWithoutFirst ==
  ASSUME NEW q \in Seq(BOOLEAN), Len(q) >= 2
  PROVE  Cardinality(Rises(q)) =
             Cardinality(Rises(Tail(q))) + (IF q[2] /\ ~q[1] THEN 1 ELSE 0)
<1> DEFINE n == Len(q)
           r == Tail(q)
           later == Rises(q) \ {2}
           f == [i \in Rises(r) |-> i + 1]
<1>1. n \in Nat /\ r \in Seq(BOOLEAN) /\ Len(r) = n - 1 /\ \A i \in 1 .. n - 1 : r[i] = q[i + 1]
  OBVIOUS
<1>2. \A i : i \in Rises(q) <=> i \in 2 .. n /\ q[i] /\ ~q[i - 1] BY DEF Rises
<1> HIDE DEF r
<1>3. \A i : i \in Rises(r) <=> i \in 2 .. n - 1 /\ r[i] /\ ~r[i - 1] BY <1>1 DEF Rises
<1>4. \A i \in 2 .. n - 1 : r[i] = q[i + 1] /\ r[i - 1] = q[i] BY <1>1
<1> HIDE DEF n
<1>5. \A i \in Rises(r) : i \in Nat /\ i + 1 \in later
  <2> SUFFICES ASSUME NEW i \in Rises(r) PROVE i \in Nat /\ i + 1 \in later OBVIOUS
  <2>1. i \in 2 .. n - 1 /\ r[i] /\ ~r[i - 1] BY <1>3
  <2>2. q[i + 1] /\ ~q[i] BY <1>4, <2>1
  <2>3. i + 1 \in 2 .. n /\ i + 1 # 2 /\ (i + 1) - 1 = i BY <1>1, <2>1
  <2>4. i + 1 \in Rises(q) BY <1>2, <2>2, <2>3
  <2> QED BY <2>1, <2>3, <2>4
<1>6. \A k \in later : k - 1 \in Rises(r) /\ k = (k - 1) + 1
  <2> SUFFICES ASSUME NEW k \in later PROVE k - 1 \in Rises(r) /\ k = (k - 1) + 1 OBVIOUS
  <2>1. k \in 2 .. n /\ k # 2 /\ q[k] /\ ~q[k - 1] BY <1>2
  <2>2. k - 1 \in 2 .. n - 1 /\ k = (k - 1) + 1 BY <1>1, <2>1
  <2>3. r[k - 1] = q[k] /\ r[(k - 1) - 1] = q[k - 1] BY <1>4, <2>2
  <2> QED BY <1>3, <2>1, <2>2, <2>3
<1>7. IsFiniteSet(Rises(q)) /\ IsFiniteSet(Rises(r))
      /\ Cardinality(Rises(q)) \in Nat /\ Cardinality(Rises(r)) \in Nat
  BY <1>1, RisesFinite
<1>8. f \in Bijection(Rises(r), later)
  <2>1. f \in [Rises(r) -> later] BY <1>5
  <2>2. \A i, k \in Rises(r) : f[i] = f[k] => i = k BY <1>5
  <2>3. \A k \in later : \E i \in Rises(r) : f[i] = k BY <1>6
  <2> QED BY <2>1, <2>2, <2>3, Fun_IsBij
<1>9. Cardinality(later) = Cardinality(Rises(r))
  <2>1. ExistsBijection(Rises(r), later) BY <1>8 DEF ExistsBijection
  <2> QED BY <1>7, <2>1, FS_Bijection
<1>10. 2 \in Rises(q) <=> q[2] /\ ~q[1] BY <1>1, <1>2 DEF n
<1> HIDE DEF f, later
<1>11. CASE 2 \in Rises(q)
  <2>1. Cardinality(later) = Cardinality(Rises(q)) - 1
    BY <1>7, <1>11, FS_RemoveElement DEF later
  <2> QED BY <1>7, <1>9, <1>10, <1>11, <2>1 DEF r
<1>12. CASE 2 \notin Rises(q)
  <2>1. later = Rises(q) BY <1>12 DEF later
  <2> QED BY <1>7, <1>9, <1>10, <1>12, <2>1 DEF r
<1> QED BY <1>11, <1>12

LEMMA EdgeInit == DetectionInit => EdgeInv
<1> SUFFICES ASSUME DetectionInit PROVE EdgeInv OBVIOUS
<1>1. /\ scenes = <<>> /\ events = <<>> /\ inHand = FALSE /\ published = FALSE
      /\ prevTarget = FALSE /\ edges = 0 /\ alarms = 0 /\ refusedAlarms = 0
  BY Zenon DEF DetectionInit
<1>2. ASSUME NEW b PROVE <<b>> \o <<>> = <<b>> OBVIOUS
<1>3. <<prevTarget>> \o events = <<FALSE>> BY <1>1, <1>2, Zenon
<1>4. ASSUME NEW b PROVE Rises(<<b>>) = {} /\ <<b>>[Len(<<b>>)] = b BY DEF Rises
<1>5. Cardinality({}) = 0 BY FS_EmptySet
<1>6. edges = alarms + refusedAlarms + Cardinality({}) BY <1>1, <1>5
<1>7. EdgesReachBridge BY <1>1, <1>3, <1>4, <1>6, Zenon DEF EdgesReachBridge
<1>8. <<>> \in Seq(BOOLEAN) /\ 0 \in Nat /\ FALSE \in BOOLEAN OBVIOUS
<1>9. EdgeTypes BY <1>1, <1>8, Zenon DEF EdgeTypes
<1> QED BY <1>7, <1>9 DEF EdgeInv

(* A step that neither publishes nor takes an event. *)
LEMMA EdgesAside ==
  ASSUME EdgeInv, scenes' \in Seq(BOOLEAN), inHand' \in BOOLEAN,
         UNCHANGED <<events, published, edges, lost, prevTarget, alarms, refusedAlarms>>
  PROVE  EdgeInv'
BY DEF EdgeInv, EdgeTypes, EdgesReachBridge

LEMMA PublishKeepsEdges == ASSUME EdgeInv, Publish PROVE EdgeInv'
<1>1. /\ published' = inHand
      /\ UNCHANGED <<scenes, inHand, prevTarget, alarms, refusedAlarms>>
      /\ \/ /\ events' = Append(events, inHand) /\ lost' = lost
            /\ edges' = IF inHand /\ ~published THEN edges + 1 ELSE edges
         \/ lost' /\ UNCHANGED <<events, edges>>
  BY DEF Publish, sceneVars, bridgeVars
<1>2. EdgeTypes' BY <1>1 DEF EdgeInv, EdgeTypes
<1>3. CASE lost' BY <1>2, <1>3 DEF EdgeInv, EdgesReachBridge
<1>4. CASE ~lost'
  <2> DEFINE known == <<prevTarget>> \o events
  <2>1. /\ events' = Append(events, inHand) /\ ~lost
        /\ edges' = IF inHand /\ ~published THEN edges + 1 ELSE edges
    BY <1>1, <1>4
  <2>2. /\ known \in Seq(BOOLEAN) /\ known # <<>>
        /\ <<prevTarget>> \o events' = Append(known, inHand)
    BY <2>1 DEF EdgeInv, EdgeTypes
  <2>3. edges = alarms + refusedAlarms + Cardinality(Rises(known))
        /\ known[Len(known)] = published
    BY <2>1 DEF EdgeInv, EdgesReachBridge
  <2> HIDE DEF known
  <2>4. Cardinality(Rises(known)) \in Nat BY <2>2, RisesFinite
  <2>5. Cardinality(Rises(Append(known, inHand))) =
            Cardinality(Rises(known)) + (IF inHand /\ ~published THEN 1 ELSE 0)
    BY <2>2, <2>3, RisesWithLast DEF EdgeInv, EdgeTypes
  <2>6. edges' = alarms + refusedAlarms + Cardinality(Rises(Append(known, inHand)))
    BY <2>1, <2>3, <2>4, <2>5 DEF EdgeInv, EdgeTypes
  <2>7. Append(known, inHand)[Len(Append(known, inHand))] = inHand BY <2>2
  <2>8. EdgesReachBridge' BY <1>1, <2>2, <2>6, <2>7 DEF EdgesReachBridge
  <2> QED BY <1>2, <2>8 DEF EdgeInv
<1> QED BY <1>3, <1>4

LEMMA Balance ==
  ASSUME NEW total \in Nat, NEW a \in Nat, NEW r \in Nat, NEW before \in Nat,
         NEW a2 \in Nat, NEW r2 \in Nat, NEW after \in Nat, NEW one \in Nat,
         total = a + r + before, a2 + r2 = a + r + one, before = after + one
  PROVE  total = a2 + r2 + after
OBVIOUS

LEMMA BridgeKeepsEdges == ASSUME EdgeInv, BridgeTakesEvent PROVE EdgeInv'
<1> DEFINE new == Head(events)
           edge == new /\ ~prevTarget
<1>1. events # <<>> /\ new \in BOOLEAN /\ events \in Seq(BOOLEAN)
  BY DEF EdgeInv, EdgeTypes, BridgeTakesEvent
<1>2. /\ events' = Tail(events) /\ prevTarget' = new
      /\ UNCHANGED <<scenes, inHand, published, edges, lost>>
  BY DEF BridgeTakesEvent, TakesEdge, sceneVars
<1> DEFINE taken == reporting /\ ~cooling
<1>3. /\ alarms' = IF edge /\ taken THEN alarms + 1 ELSE alarms
      /\ refusedAlarms' = IF edge /\ ~taken THEN refusedAlarms + 1 ELSE refusedAlarms
  BY DEF BridgeTakesEvent, TakesEdge
<1>4. PICK a \in Nat, r \in Nat :
          /\ a = alarms' /\ r = refusedAlarms'
          /\ a + r = alarms + refusedAlarms + (IF edge THEN 1 ELSE 0)
  <2>1. alarms \in Nat /\ refusedAlarms \in Nat BY DEF EdgeInv, EdgeTypes
  <2> HIDE DEF edge, taken
  <2> QED BY <1>3, <2>1
<1>5. EdgeTypes'
  <2>1. events' \in Seq(BOOLEAN) /\ prevTarget' \in BOOLEAN BY <1>1, <1>2
  <2> QED BY <1>2, <1>4, <2>1, Zenon DEF EdgeInv, EdgeTypes
<1>6. CASE lost BY <1>2, <1>5, <1>6 DEF EdgeInv, EdgesReachBridge
<1>7. CASE ~lost
  <2> DEFINE known == <<prevTarget>> \o events
  <2>1. /\ known \in Seq(BOOLEAN) /\ Len(known) >= 2 /\ Tail(known) = events
        /\ known[1] = prevTarget /\ known[2] = new
        /\ <<new>> \o Tail(events) = events
    BY <1>1 DEF EdgeInv, EdgeTypes
  <2>2. edges = alarms + refusedAlarms + Cardinality(Rises(known))
        /\ known[Len(known)] = published
    BY <1>7 DEF EdgeInv, EdgesReachBridge
  <2>3. known[Len(known)] = events[Len(events)] BY <1>1 DEF EdgeInv, EdgeTypes
  <2> HIDE DEF known
  <2>4. Cardinality(Rises(known)) = Cardinality(Rises(events)) + (IF edge THEN 1 ELSE 0)
    BY <2>1, RisesWithoutFirst
  <2>5. Cardinality(Rises(events)) \in Nat BY <1>1, RisesFinite
  <2> HIDE DEF edge
  <2>6. edges = alarms' + refusedAlarms' + Cardinality(Rises(events))
    <3>1. edges \in Nat /\ alarms \in Nat /\ refusedAlarms \in Nat BY DEF EdgeInv, EdgeTypes
    <3>2. edges = alarms + refusedAlarms + Cardinality(Rises(known)) BY <2>2, Zenon
    <3>3. Cardinality(Rises(known)) \in Nat BY <2>1, RisesFinite
    <3>4. PICK one \in Nat : one = IF edge THEN 1 ELSE 0 OBVIOUS
    <3>5. a + r = alarms + refusedAlarms + one BY <1>4, <3>4, Zenon
    <3>6. Cardinality(Rises(known)) = Cardinality(Rises(events)) + one BY <2>4, <3>4, Zenon
    <3>7. edges = a + r + Cardinality(Rises(events))
      BY <2>5, <3>1, <3>2, <3>3, <3>5, <3>6, Balance
    <3> QED BY <1>4, <3>7, Zenon
  <2>7. <<prevTarget'>> \o events' = events BY <1>2, <2>1
  <2>8. EdgesReachBridge' BY <1>2, <2>2, <2>3, <2>6, <2>7 DEF EdgesReachBridge
  <2> QED BY <1>5, <2>8 DEF EdgeInv
<1> QED BY <1>6, <1>7

LEMMA EdgeInvKept == EdgeInv /\ [DetectionNext]_detectionVars => EdgeInv'
<1> SUFFICES ASSUME EdgeInv, [DetectionNext]_detectionVars PROVE EdgeInv' OBVIOUS
<1>0. scenes \in Seq(BOOLEAN) /\ inHand \in BOOLEAN BY DEF EdgeInv, EdgeTypes
<1>1. CASE UNCHANGED detectionVars \/ CancelAi \/ LoopEnds \/ DetectFails \/ GateMoves
  <2>1. UNCHANGED <<scenes, inHand, events, published, edges, lost, prevTarget, alarms, refusedAlarms>>
    BY <1>1 DEF detectionVars, sceneVars, loopVars, bridgeVars, CancelAi, LoopEnds, DetectFails,
                GateMoves
  <2> QED BY <1>0, <2>1, EdgesAside
<1>2. CASE DecoderNext
  <2>1. UNCHANGED <<inHand, events, published, edges, lost, prevTarget, alarms, refusedAlarms>>
    BY <1>2 DEF DecoderNext, Spawn, DecoderEnds, FfmpegExits, Reap, WriterEnds, ReaderStops,
                Reaped, PauseEnds, FrameArrives, loopVars, bridgeVars
  <2>2. scenes' = scenes \/ \E target \in BOOLEAN : scenes' = Append(scenes, target)
    BY <1>2 DEF DecoderNext, Spawn, DecoderEnds, FfmpegExits, Reap, WriterEnds, ReaderStops,
                Reaped, PauseEnds, FrameArrives, sceneVars
  <2>3. scenes' \in Seq(BOOLEAN) BY <1>0, <2>2
  <2> QED BY <1>0, <2>1, <2>3, EdgesAside
<1>3. CASE TakeScene
  <2>1. /\ scenes # <<>> /\ scenes' = Tail(scenes) /\ inHand' = Head(scenes)
        /\ UNCHANGED <<events, published, edges, lost, prevTarget, alarms, refusedAlarms>>
    BY <1>3 DEF TakeScene, bridgeVars
  <2>2. scenes' \in Seq(BOOLEAN) /\ inHand' \in BOOLEAN BY <1>0, <2>1
  <2> QED BY <2>1, <2>2, EdgesAside
<1>4. CASE WebTakesEvent
  <2>1. /\ events # <<>> /\ events' = Tail(events) /\ lost' = TRUE
        /\ UNCHANGED <<scenes, inHand, published, edges, prevTarget, alarms, refusedAlarms>>
    BY <1>4 DEF WebTakesEvent, sceneVars, bridgeVars
  <2> QED BY <2>1 DEF EdgeInv, EdgeTypes, EdgesReachBridge
<1> QED BY <1>1, <1>2, <1>3, <1>4, PublishKeepsEdges, BridgeKeepsEdges DEF DetectionNext

(* EdgesReachBridge: no rising edge is lost or counted twice between the service
   and the bridge, whatever the gate, the cooldown and the detector do, as long
   as the bridge gets every event (service.go: publish; gbalarm.go: takeEdge). *)
THEOREM EdgesCounted == DetectionSpec => []EdgesReachBridge
<1>1. EdgeInv => EdgesReachBridge BY DEF EdgeInv
<1> QED BY <1>1, EdgeInit, EdgeInvKept, PTL DEF DetectionSpec

-----------------------------------------------------------------------------
(* Sessions *)

(* SessionsAsPromised speaks of the memory; that a restart keeps it needs the
   same of the disk. *)
StoreInv ==
    /\ issued \in Nat
    /\ live \subseteq 1 .. issued /\ onDisk \subseteq 1 .. issued
    /\ revoked \subseteq 1 .. issued
    /\ SessionsAsPromised
    /\ ~unsaved => onDisk \ expired = live \ expired

SessionSteps ==
    \/ \E ok \in BOOLEAN : Create(ok)
    \/ \E token \in Tokens, ok \in BOOLEAN : Logout(token, ok)
    \/ \E ok \in BOOLEAN : Clear(ok)
    \/ SessionsAge
    \/ LoadSessions
    \/ UNCHANGED sessionVars

LEMMA StoreKept == ASSUME StoreInv, SessionSteps PROVE StoreInv'
<1> USE DEF StoreInv, SessionsAsPromised
<1>1. ASSUME NEW ok \in BOOLEAN, Create(ok) PROVE StoreInv'
  <2>1. /\ issued' = issued + 1 /\ live' = live \union {issued + 1}
        /\ UNCHANGED <<expired, revoked>>
    BY <1>1 DEF Create
  <2>2. CASE ok
    <3>1. onDisk' = live' /\ (unsaved => unsaved') BY <1>1, <2>2 DEF Create, Persist
    <3> QED BY <2>1, <3>1
  <2>3. CASE ~ok
    <3>1. onDisk' = onDisk /\ unsaved' BY <1>1, <2>3 DEF Create, Persist
    <3> QED BY <2>1, <3>1
  <2> QED BY <2>2, <2>3
<1>2. ASSUME NEW token \in Tokens, NEW ok \in BOOLEAN, Logout(token, ok) PROVE StoreInv'
  <2>1. /\ token \in live /\ live' = live \ {token} /\ revoked' = revoked \union {token}
        /\ UNCHANGED <<issued, expired>>
    BY <1>2 DEF Logout, Valid
  <2>2. CASE ok
    <3>1. onDisk' = live' /\ (unsaved => unsaved') BY <1>2, <2>2 DEF Logout, Persist
    <3> QED BY <2>1, <3>1
  <2>3. CASE ~ok
    <3>1. onDisk' = onDisk /\ unsaved' BY <1>2, <2>3 DEF Logout, Persist
    <3> QED BY <2>1, <3>1
  <2> QED BY <2>2, <2>3
<1>3. ASSUME NEW ok \in BOOLEAN, Clear(ok) PROVE StoreInv'
  <2>1. /\ live' = {} /\ revoked' = revoked \union live
        /\ UNCHANGED <<issued, expired>>
    BY <1>3 DEF Clear
  <2>2. CASE ok
    <3>1. onDisk' = {} /\ (unsaved => unsaved') BY <1>3, <2>2 DEF Clear, Persist
    <3> QED BY <2>1, <3>1
  <2>3. CASE ~ok
    <3>1. onDisk' = onDisk /\ unsaved' BY <1>3, <2>3 DEF Clear, Persist
    <3> QED BY <2>1, <3>1
  <2> QED BY <2>2, <2>3
<1>4. CASE SessionsAge
  <2>1. CASE Expire BY <2>1 DEF Expire
  <2>2. CASE Cleanup BY <2>2 DEF Cleanup
  <2>3. ASSUME NEW token \in Tokens, Validate(token) PROVE StoreInv'
    BY <2>3 DEF Validate
  <2> QED BY <1>4, <2>1, <2>2, <2>3 DEF SessionsAge
<1>5. CASE LoadSessions BY <1>5 DEF LoadSessions
<1>6. CASE UNCHANGED sessionVars BY <1>6 DEF sessionVars
<1> QED BY <1>1, <1>2, <1>3, <1>4, <1>5, <1>6 DEF SessionSteps

(* What the requests of the web server do to the store. *)
LEMMA WebStepsOfStore == [WebNext]_webVars => SessionSteps
<1> SUFFICES ASSUME [WebNext]_webVars PROVE SessionSteps OBVIOUS
<1>0. TRUE \in BOOLEAN /\ FALSE \in BOOLEAN OBVIOUS
<1>1. CASE UNCHANGED webVars BY <1>1 DEF webVars, SessionSteps
<1>2. ASSUME NEW h \in Handlers, NEW r \in Requests, Begin(h, r) PROVE SessionSteps
  BY <1>2 DEF Begin, SessionSteps
<1>3. ASSUME NEW h \in Handlers, Handle(h) PROVE SessionSteps
  <2>1. CASE ResetSessions(h)
    BY <1>0, <2>1 DEF ResetSessions, SessionSteps
  <2>2. CASE ~ResetSessions(h)
    BY <1>3, <2>2 DEF Handle, SessionSteps, SetInMemory, FlipFails, NothingToSet, Read, Write,
                      NotSaved, ApplyInPlace, ApplyByRestart, Done
  <2> QED BY <2>1, <2>2
<1>4. CASE SessionRequest BY <1>0, <1>4 DEF SessionRequest, SessionSteps
<1>5. CASE SystemRestart BY <1>5 DEF SystemRestart, SessionSteps
<1>6. CASE Reboot BY <1>6 DEF Reboot, SessionSteps
<1> QED BY <1>1, <1>2, <1>3, <1>4, <1>5, <1>6 DEF WebNext

(* SessionsAsPromised: as long as the store could be written, a restart of the
   process loses no session and brings no revoked one back, wherever between
   the steps of a reset it comes (SessionStore, auth.go). *)
THEOREM SessionsKept == WebSpec => []SessionsAsPromised
<1>1. WebInit => StoreInv
  BY DEF WebInit, SessionsInit, StoreInv, SessionsAsPromised
<1>2. StoreInv /\ [WebNext]_webVars => StoreInv' BY StoreKept, WebStepsOfStore
<1>3. StoreInv => SessionsAsPromised BY DEF StoreInv
<1> QED BY <1>1, <1>2, <1>3, PTL DEF WebSpec

-----------------------------------------------------------------------------
(* Geometry *)

Vals == Nat \union {"true", "false", "1"}
Configs == [Keys -> Vals]
Changes == UNION {[S -> Vals] : S \in SUBSET Keys}
Kinds == {"none", "put", "flip", "model", "reset", "setup"}
Places == {"idle", "set", "read", "write", "apply", "clear", "create", "done"}

WebShapes ==
    /\ req \in [Handlers -> [kind : Kinds, pc : Places, change : Changes, copy : Configs]]
    /\ file \in Configs /\ boot \in Configs
    /\ "user" \in DOMAIN memory /\ memory.user \in Vals

(* What a request of a kind changes, and what only a PUT does. *)
KindFits(request) ==
    /\ "rotation" \in DOMAIN request.change => request.kind = "put"
    /\ request.kind = "setup" => "user" \in DOMAIN request.change

(* Somebody will restart the process, or has asked for it. *)
RestartDue == restarting \/ \E g \in Handlers : req[g].pc = "apply" /\ ~InPlace(g)

Turned(rotation) == Portrait(rotation) # Portrait(boot.rotation)

(* A restart is due not only when the camera has the other shape, but as soon
   as the file has, and as long as a request holds such a copy of it. *)
GeometryInv ==
    /\ WebShapes
    /\ \A h \in Handlers : KindFits(req[h])
    /\ Turned(file.rotation) => RestartDue
    /\ Turned(camera) => RestartDue
    /\ \A h \in Handlers : req[h].pc = "write" /\ Turned(req[h].copy.rotation) => RestartDue

LEMMA Originals == Original \in Configs /\ Idle \in [kind : Kinds, pc : Places, change : Changes, copy : Configs]
<1>1. Original \in Configs BY DEF Original, Configs, Keys, Vals
<1>2. <<>> \in [{} -> Vals] OBVIOUS
<1>3. <<>> \in Changes BY <1>2 DEF Changes
<1> QED BY <1>1, <1>3 DEF Idle, Kinds, Places

LEMMA RequestShapes ==
  ASSUME NEW r \in Requests
  PROVE  /\ r.kind \in Kinds /\ r.change \in Changes
         /\ KindFits(r)
<1> USE DEF KindFits
<1>1. ASSUME NEW c \in Puts PROVE c \in Changes
  <2>1. /\ [rotation |-> 90] \in [{"rotation"} -> Vals]
        /\ [rotation |-> 180] \in [{"rotation"} -> Vals]
        /\ [rotation |-> 45] \in [{"rotation"} -> Vals]
        /\ [rotation |-> 0, gb |-> 1] \in [{"rotation", "gb"} -> Vals]
        /\ [user |-> 1, pass |-> 2] \in [{"user", "pass"} -> Vals]
    BY DEF Vals
  <2> QED BY <1>1, <2>1 DEF Puts, Changes, Keys
<1>2. CASE r \in [kind : {"put"}, change : Puts] BY <1>1, <1>2 DEF Kinds
<1>3. CASE r \in [kind : {"flip"}, change : {[hflip |-> f] : f \in {"true", "false", "1"}}]
  <2>1. PICK f \in {"true", "false", "1"} : r.change = [hflip |-> f] /\ r.kind = "flip" BY <1>3
  <2>2. r.change \in [{"hflip"} -> Vals] /\ DOMAIN r.change = {"hflip"} BY <2>1 DEF Vals
  <2> QED BY <2>1, <2>2 DEF Changes, Keys, Kinds
<1>4. CASE r \in [kind : {"model"}, change : {[model |-> 1]}]
  <2>1. r.change = [model |-> 1] /\ r.kind = "model" BY <1>4
  <2>2. r.change \in [{"model"} -> Vals] /\ DOMAIN r.change = {"model"} BY <2>1 DEF Vals
  <2> QED BY <2>1, <2>2 DEF Changes, Keys, Kinds
<1>5. CASE r \in [kind : {"reset"}, change : {[user |-> 0, pass |-> p, origins |-> 0] : p \in {2, 3}}]
  <2>1. PICK p \in {2, 3} : r.change = [user |-> 0, pass |-> p, origins |-> 0] /\ r.kind = "reset"
    BY <1>5
  <2>2. r.change \in [{"user", "pass", "origins"} -> Vals]
        /\ DOMAIN r.change = {"user", "pass", "origins"}
    BY <2>1 DEF Vals
  <2> QED BY <2>1, <2>2 DEF Changes, Keys, Kinds
<1>6. CASE r \in [kind : {"setup"}, change : {[user |-> 1, pass |-> 2, origins |-> 0]}]
  <2>1. r.change = [user |-> 1, pass |-> 2, origins |-> 0] /\ r.kind = "setup" BY <1>6
  <2>2. r.change \in [{"user", "pass", "origins"} -> Vals]
        /\ DOMAIN r.change = {"user", "pass", "origins"}
    BY <2>1 DEF Vals
  <2> QED BY <2>1, <2>2 DEF Changes, Keys, Kinds
<1> QED BY <1>2, <1>3, <1>4, <1>5, <1>6 DEF Requests

LEMMA MemoryOfConfig ==
  ASSUME NEW config \in Configs
  PROVE  "user" \in DOMAIN InMemoryOf(config) /\ InMemoryOf(config).user \in Vals
BY DEF InMemoryOf, Configs, Keys

LEMMA ChangeShape ==
  ASSUME WebShapes, NEW h \in Handlers
  PROVE  \E S \in SUBSET Keys : req[h].change \in [S -> Vals]
<1>1. req \in [Handlers -> [kind : Kinds, pc : Places, change : Changes, copy : Configs]]
  BY DEF WebShapes
<1>2. req[h].change \in Changes BY <1>1
<1> QED BY <1>2 DEF Changes

LEMMA MergedShape ==
  ASSUME WebShapes, NEW h \in Handlers
  PROVE  /\ Merged(h) \in Configs
         /\ Merged(h).rotation = IF "rotation" \in Changing(h) THEN req[h].change["rotation"]
                                 ELSE req[h].copy.rotation
<1>1. PICK S \in SUBSET Keys : req[h].change \in [S -> Vals] BY ChangeShape
<1>2. req[h].copy \in Configs BY DEF WebShapes
<1>3. \A k \in Keys : (IF k \in Changing(h) THEN req[h].change[k] ELSE req[h].copy[k]) \in Vals
  BY <1>1, <1>2 DEF Changing, Configs
<1>4. Merged(h) \in Configs BY <1>3 DEF Merged, Configs
<1>5. "rotation" \in Keys BY DEF Keys
<1> QED BY <1>4, <1>5 DEF Merged

(* A request that others do not touch stays in place or not. *)
LEMMA InPlaceKept ==
  ASSUME NEW g \in Handlers, req'[g] = req[g]
  PROVE  InPlace(g)' <=> InPlace(g)
BY DEF InPlace, TouchesCamera, CameraRestartEligible, Merged, Changing

LEMMA DueKept ==
  ASSUME NEW h \in Handlers, \A g \in Handlers \ {h} : req'[g] = req[g],
         restarting => restarting',
         req[h].pc = "apply" => InPlace(h) \/ restarting',
         RestartDue
  PROVE  RestartDue'
<1>1. CASE restarting BY <1>1 DEF RestartDue
<1>2. CASE ~restarting
  <2>1. PICK g \in Handlers : req[g].pc = "apply" /\ ~InPlace(g) BY <1>2 DEF RestartDue
  <2>2. CASE g = h BY <2>1, <2>2 DEF RestartDue
  <2>3. CASE g # h
    <3>1. req'[g] = req[g] BY <2>3
    <3>2. ~InPlace(g)' BY <2>1, <3>1, InPlaceKept
    <3> QED BY <2>1, <3>1, <3>2 DEF RestartDue
  <2> QED BY <2>2, <2>3
<1> QED BY <1>1, <1>2

(* A step of one request that does not write the file. *)
LEMMA FileSame ==
  ASSUME GeometryInv, WebShapes', NEW h \in Handlers,
         \A g \in Handlers \ {h} : req'[g] = req[g],
         file' = file, boot' = boot, camera' \in {camera, file.rotation},
         restarting => restarting',
         req[h].pc = "apply" => InPlace(h) \/ restarting',
         KindFits(req'[h]),
         req'[h].pc = "write" => req'[h].copy = file
  PROVE  GeometryInv'
<1>1. RestartDue => RestartDue' BY DueKept
<1>2. \A g \in Handlers : KindFits(req[g])' BY DEF GeometryInv, KindFits
<1>3. Turned(file.rotation) => RestartDue' BY <1>1 DEF GeometryInv
<1>4. Turned(camera) => RestartDue' BY <1>1 DEF GeometryInv
<1>5. \A g \in Handlers : req'[g].pc = "write" /\ Turned(req'[g].copy.rotation) => RestartDue'
  <2> SUFFICES ASSUME NEW g \in Handlers, req'[g].pc = "write", Turned(req'[g].copy.rotation)
               PROVE  RestartDue'
    OBVIOUS
  <2>1. CASE g = h BY <1>3, <2>1
  <2>2. CASE g # h BY <1>1, <2>2 DEF GeometryInv
  <2> QED BY <2>1, <2>2
<1>6. \A r : Turned(r)' <=> Turned(r) BY DEF Turned
<1>7. (Turned(file.rotation) => RestartDue)' BY <1>3 DEF Turned
<1>8. (Turned(camera) => RestartDue)' BY <1>3, <1>4 DEF Turned
<1>9. \A g \in Handlers : (req[g].pc = "write" /\ Turned(req[g].copy.rotation) => RestartDue)'
  BY <1>5 DEF Turned
<1> QED BY <1>2, <1>7, <1>8, <1>9 DEF GeometryInv

(* Moving a request on, and answering it. *)
LEMMA Moves ==
  ASSUME WebShapes, NEW h \in Handlers
  PROVE  /\ \A p \in Places :
               LET next == [req EXCEPT ![h].pc = p] IN
               /\ next \in [Handlers -> [kind : Kinds, pc : Places, change : Changes, copy : Configs]]
               /\ next[h] = [req[h] EXCEPT !.pc = p]
               /\ next[h].kind = req[h].kind /\ next[h].pc = p
               /\ next[h].change = req[h].change /\ next[h].copy = req[h].copy
               /\ \A g \in Handlers \ {h} : next[g] = req[g]
         /\ LET next == [req EXCEPT ![h] = Idle] IN
               /\ next \in [Handlers -> [kind : Kinds, pc : Places, change : Changes, copy : Configs]]
               /\ next[h] = Idle
               /\ \A g \in Handlers \ {h} : next[g] = req[g]
<1>1. Idle \in [kind : Kinds, pc : Places, change : Changes, copy : Configs] BY Originals
<1>2. req \in [Handlers -> [kind : Kinds, pc : Places, change : Changes, copy : Configs]]
  BY DEF WebShapes
<1> HIDE DEF Idle
<1> QED BY <1>1, <1>2

(* The steps of a request that answer it, or move it on without the file. *)
LEMMA Onward ==
  ASSUME GeometryInv, NEW h \in Handlers,
         \/ Answer(h)
         \/ \E p \in Places \ {"write"} : Goto(h, p),
         file' = file, boot' = boot, camera' \in {camera, file.rotation},
         "user" \in DOMAIN memory' /\ memory'.user \in Vals, restarting => restarting',
         req[h].pc = "apply" => InPlace(h) \/ restarting'
  PROVE  GeometryInv'
<1>1. WebShapes BY DEF GeometryInv
<1>2. CASE Answer(h)
  <2>1. /\ req' \in [Handlers -> [kind : Kinds, pc : Places, change : Changes, copy : Configs]]
        /\ req'[h] = Idle
        /\ \A g \in Handlers \ {h} : req'[g] = req[g]
    BY <1>1, <1>2, Moves DEF Answer
  <2>2. WebShapes' BY <1>1, <2>1 DEF WebShapes
  <2>3. KindFits(req'[h]) /\ req'[h].pc = "idle" BY <2>1 DEF Idle, KindFits
  <2> QED BY <2>1, <2>2, <2>3, FileSame
<1>3. ASSUME NEW p \in Places \ {"write"}, Goto(h, p) PROVE GeometryInv'
  <2>1. /\ req' \in [Handlers -> [kind : Kinds, pc : Places, change : Changes, copy : Configs]]
        /\ req'[h].kind = req[h].kind /\ req'[h].pc = p /\ req'[h].change = req[h].change
        /\ \A g \in Handlers \ {h} : req'[g] = req[g]
    BY <1>1, <1>3, Moves DEF Goto
  <2>2. WebShapes' BY <1>1, <2>1 DEF WebShapes
  <2>3. KindFits(req'[h]) BY <2>1 DEF GeometryInv, KindFits
  <2> QED BY <2>1, <2>2, <2>3, FileSame
<1> QED BY <1>2, <1>3

LEMMA BeginKeeps ==
  ASSUME GeometryInv, NEW h \in Handlers, NEW r \in Requests, Begin(h, r) PROVE GeometryInv'
<1>1. WebShapes BY DEF GeometryInv
<1> DEFINE new == [kind |-> r.kind, change |-> r.change, copy |-> file,
                   pc |-> IF r.kind = "put" THEN "read" ELSE "set"]
<1>2. new \in [kind : Kinds, pc : Places, change : Changes, copy : Configs]
  BY <1>1, RequestShapes DEF WebShapes, Places
<1>3. req' = [req EXCEPT ![h] = new] BY DEF Begin
<1>4. /\ req' \in [Handlers -> [kind : Kinds, pc : Places, change : Changes, copy : Configs]]
      /\ req'[h] = new
      /\ \A g \in Handlers \ {h} : req'[g] = req[g]
  BY <1>1, <1>2, <1>3 DEF WebShapes
<1>5. UNCHANGED <<file, boot, camera, memory, restarting>> BY DEF Begin
<1>6. WebShapes' BY <1>1, <1>4, <1>5 DEF WebShapes
<1>7. KindFits(new) BY RequestShapes DEF KindFits
<1>8. req[h].pc = "idle" /\ new.pc # "write" BY DEF Begin
<1> QED BY <1>4, <1>5, <1>6, <1>7, <1>8, FileSame

(* The change a request makes in memory; a reset puts the user name there is
   into its own change. *)
LEMMA SetInMemoryKeeps ==
  ASSUME GeometryInv, NEW h \in Handlers, SetInMemory(h) PROVE GeometryInv'
<1>1. WebShapes BY DEF GeometryInv
<1> DEFINE change == IF req[h].kind = "reset"
                     THEN [req[h].change EXCEPT !.user = memory.user] ELSE req[h].change
           new == [req[h] EXCEPT !.pc = "read", !.change = change]
<1>2. PICK S \in SUBSET Keys : req[h].change \in [S -> Vals] BY <1>1, ChangeShape
<1>3. memory.user \in Vals BY <1>1 DEF WebShapes
<1>4. change \in [S -> Vals] /\ DOMAIN change = Changing(h) BY <1>2, <1>3 DEF Changing
<1>5. new \in [kind : Kinds, pc : Places, change : Changes, copy : Configs]
      /\ new.kind = req[h].kind /\ new.pc = "read" /\ new.change = change
  BY <1>1, <1>4 DEF WebShapes, Changes, Places
<1>6. req' = [req EXCEPT ![h] = new] BY <1>1 DEF SetInMemory, WebShapes
<1> HIDE DEF new
<1>7. /\ req' \in [Handlers -> [kind : Kinds, pc : Places, change : Changes, copy : Configs]]
      /\ req'[h] = new
      /\ \A g \in Handlers \ {h} : req'[g] = req[g]
  BY <1>1, <1>5, <1>6 DEF WebShapes
<1>8. "user" \in DOMAIN memory' /\ memory'.user \in Vals
  <2>1. "user" \in DOMAIN memory /\ memory.user \in Vals BY <1>1 DEF WebShapes
  <2>2. CASE req[h].kind = "setup"
    <3>1. req[h].change.user \in Vals BY <1>2, <2>2 DEF GeometryInv, KindFits
    <3>2. memory' = [memory EXCEPT !.user = req[h].change.user, !.pass = req[h].change.pass]
      BY <2>2 DEF SetInMemory
    <3> QED BY <2>1, <3>1, <3>2
  <2>3. CASE req[h].kind # "setup"
    <3>1. \/ memory' = [memory EXCEPT !.hflip = AsBool(req[h].change.hflip)]
          \/ memory' = [memory EXCEPT !.model = req[h].change.model]
          \/ memory' = [memory EXCEPT !.pass = req[h].change.pass]
      BY <2>3 DEF SetInMemory
    <3> QED BY <2>1, <3>1
  <2> QED BY <2>2, <2>3
<1>9. UNCHANGED <<file, boot, camera, restarting>> BY DEF SetInMemory
<1>10. WebShapes' BY <1>1, <1>7, <1>8, <1>9 DEF WebShapes
<1>11. KindFits(req'[h])
  BY <1>4, <1>5, <1>7 DEF GeometryInv, KindFits, Changing
<1>12. req[h].pc = "set" BY DEF SetInMemory
<1> QED BY <1>5, <1>7, <1>9, <1>10, <1>11, <1>12, FileSame

LEMMA ReadKeeps ==
  ASSUME GeometryInv, NEW h \in Handlers, Read(h) PROVE GeometryInv'
<1>1. WebShapes BY DEF GeometryInv
<1> DEFINE new == [req[h] EXCEPT !.copy = file, !.pc = "write"]
<1>2. new \in [kind : Kinds, pc : Places, change : Changes, copy : Configs]
      /\ new.kind = req[h].kind /\ new.copy = file /\ new.change = req[h].change
  BY <1>1 DEF WebShapes, Places
<1>3. req' = [req EXCEPT ![h] = new] BY <1>1 DEF Read, WebShapes
<1> HIDE DEF new
<1>4. /\ req' \in [Handlers -> [kind : Kinds, pc : Places, change : Changes, copy : Configs]]
      /\ req'[h] = new
      /\ \A g \in Handlers \ {h} : req'[g] = req[g]
  BY <1>1, <1>2, <1>3 DEF WebShapes
<1>5. UNCHANGED <<file, boot, camera, memory, restarting>> /\ req[h].pc = "read" BY DEF Read
<1>6. WebShapes' BY <1>1, <1>4, <1>5 DEF WebShapes
<1>7. KindFits(req'[h]) BY <1>2, <1>4 DEF GeometryInv, KindFits
<1> QED BY <1>2, <1>4, <1>5, <1>6, <1>7, FileSame

(* The file turns with the document a request writes.  Either the copy it was
   merged with was turned already, and a restart is due since, or the request
   is a PUT that asks for one now. *)
LEMMA WriteKeeps ==
  ASSUME GeometryInv, NEW h \in Handlers, Write(h) PROVE GeometryInv'
<1>1. WebShapes /\ KindFits(req[h]) BY DEF GeometryInv
<1>2. /\ req[h].pc = "write" /\ file' = Merged(h)
      /\ UNCHANGED <<boot, camera, memory, restarting>>
      /\ Goto(h, AfterSave(h))
  BY DEF Write
<1>3. AfterSave(h) \in Places \ {"write"} /\ (req[h].kind = "put" => AfterSave(h) = "apply")
  BY DEF AfterSave, Places
<1>4. /\ req' \in [Handlers -> [kind : Kinds, pc : Places, change : Changes, copy : Configs]]
      /\ req'[h].kind = req[h].kind /\ req'[h].pc = AfterSave(h)
      /\ req'[h].change = req[h].change /\ req'[h].copy = req[h].copy
      /\ \A g \in Handlers \ {h} : req'[g] = req[g]
  BY <1>1, <1>2, <1>3, Moves DEF Goto
<1>5. Merged(h) \in Configs
      /\ Merged(h).rotation = IF "rotation" \in Changing(h) THEN req[h].change["rotation"]
                              ELSE req[h].copy.rotation
  BY <1>1, MergedShape
<1>6. WebShapes' BY <1>1, <1>2, <1>4, <1>5 DEF WebShapes
<1>7. RestartDue => RestartDue' BY <1>2, <1>4, DueKept
<1>8. \A r : Turned(r)' <=> Turned(r) BY <1>2 DEF Turned
<1>9. Turned(Merged(h).rotation) => RestartDue'
  <2>1. CASE Portrait(req[h].copy.rotation) = Portrait(Merged(h).rotation)
    BY <1>2, <1>7, <2>1 DEF GeometryInv, Turned
  <2>2. CASE Portrait(req[h].copy.rotation) # Portrait(Merged(h).rotation)
    <3>1. "rotation" \in Changing(h) BY <1>5, <2>2
    <3>2. req[h].kind = "put" BY <1>1, <3>1 DEF KindFits, Changing
    <3>3. Merged(h)' = Merged(h) BY <1>4 DEF Merged, Changing
    <3>4. ~InPlace(h)' BY <1>4, <2>2, <3>2, <3>3 DEF InPlace, CameraRestartEligible
    <3> QED BY <1>3, <1>4, <3>2, <3>4 DEF RestartDue
  <2> QED BY <2>1, <2>2
<1>10. (Turned(file.rotation) => RestartDue)' BY <1>2, <1>9 DEF Turned
<1>11. (Turned(camera) => RestartDue)' BY <1>2, <1>7 DEF GeometryInv, Turned
<1>12. \A g \in Handlers : KindFits(req[g])' BY <1>4 DEF GeometryInv, KindFits
<1>13. \A g \in Handlers : (req[g].pc = "write" /\ Turned(req[g].copy.rotation) => RestartDue)'
  <2> SUFFICES ASSUME NEW g \in Handlers, req'[g].pc = "write", Turned(req'[g].copy.rotation)
               PROVE  RestartDue'
    BY <1>2 DEF Turned
  <2>1. g # h BY <1>3, <1>4
  <2> QED BY <1>4, <1>7, <2>1 DEF GeometryInv
<1> QED BY <1>6, <1>10, <1>11, <1>12, <1>13 DEF GeometryInv

LEMMA NewUserShape ==
  ASSUME WebShapes, NEW h \in Handlers
  PROVE  "user" \in DOMAIN NewUser(h) /\ NewUser(h).user \in Vals
<1>1. PICK S \in SUBSET Keys : req[h].change \in [S -> Vals] BY ChangeShape
<1>2. "user" \in DOMAIN memory /\ memory.user \in Vals BY DEF WebShapes
<1> QED BY <1>1, <1>2 DEF NewUser, Changing

LEMMA HandleKeeps ==
  ASSUME GeometryInv, NEW h \in Handlers, Handle(h) PROVE GeometryInv'
<1>1. WebShapes /\ "user" \in DOMAIN memory /\ memory.user \in Vals
  BY DEF GeometryInv, WebShapes
<1>2. CASE SetInMemory(h) BY <1>2, SetInMemoryKeeps
<1>3. CASE Read(h) BY <1>3, ReadKeeps
<1>4. CASE Write(h) BY <1>4, WriteKeeps
<1>5. CASE NothingToSet(h) BY <1>1, <1>5, Onward DEF NothingToSet
<1>6. CASE NotSaved(h)
  <2>1. Answer(h) \/ (req[h].kind \in {"reset", "setup"} /\ Goto(h, AfterSave(h)))
    BY <1>6 DEF NotSaved
  <2>2. req[h].kind \in {"reset", "setup"} => AfterSave(h) \in Places \ {"write"}
    BY DEF AfterSave, Places
  <2>3. req[h].pc # "apply" /\ UNCHANGED <<file, boot, camera, memory, restarting>>
    BY <1>6 DEF NotSaved
  <2> QED BY <1>1, <2>1, <2>2, <2>3, Onward
<1>7. CASE ApplyInPlace(h)
  <2>1. memory' = [NewUser(h) EXCEPT !.hflip = AsBool(file.hflip)] BY <1>7 DEF ApplyInPlace
  <2>2. "user" \in DOMAIN memory' /\ memory'.user \in Vals BY <1>1, <2>1, NewUserShape
  <2>3. Answer(h) /\ InPlace(h) /\ camera' = file.rotation
        /\ UNCHANGED <<file, boot, restarting>>
    BY <1>7 DEF ApplyInPlace
  <2> QED BY <2>2, <2>3, Onward
<1>8. CASE ApplyByRestart(h)
  <2>1. "user" \in DOMAIN memory' /\ memory'.user \in Vals
    BY <1>1, <1>8, NewUserShape DEF ApplyByRestart
  <2>2. Answer(h) /\ restarting' /\ UNCHANGED <<file, boot, camera>>
    BY <1>8 DEF ApplyByRestart
  <2> QED BY <2>1, <2>2, Onward
<1>9. CASE ResetSessions(h)
  <2>1. Answer(h) \/ Goto(h, "create") BY <1>9 DEF ResetSessions
  <2>2. req[h].pc # "apply" /\ UNCHANGED <<file, boot, camera, memory, restarting>>
    BY <1>9 DEF ResetSessions
  <2>3. "create" \in Places \ {"write"} BY DEF Places
  <2> QED BY <1>1, <2>1, <2>2, <2>3, Onward
<1>10. CASE Done(h) BY <1>1, <1>10, Onward DEF Done
<1>11. CASE FlipFails(h)
  <2>1. /\ req[h].pc = "set" /\ Answer(h) /\ UNCHANGED <<file, boot, camera, restarting>>
        /\ memory' \in {memory, [memory EXCEPT !.hflip = AsBool(req[h].change.hflip)]}
    BY <1>11 DEF FlipFails
  <2>2. "user" \in DOMAIN memory' /\ memory'.user \in Vals BY <1>1, <2>1
  <2>3. file' = file /\ boot' = boot /\ camera' = camera /\ restarting' = restarting
        /\ req[h].pc # "apply" /\ Answer(h)
    BY <2>1
  <2> QED BY <2>2, <2>3, Onward
<1> QED BY <1>2, <1>3, <1>4, <1>5, <1>6, <1>7, <1>8, <1>9, <1>10, <1>11 DEF Handle

(* A step that leaves the requests alone. *)
LEMMA OthersKeep ==
  ASSUME GeometryInv, UNCHANGED <<file, boot, camera, memory, req>>, restarting => restarting'
  PROVE  GeometryInv'
<1>1. \A g \in Handlers : InPlace(g)' <=> InPlace(g) BY InPlaceKept
<1>2. RestartDue => RestartDue' BY <1>1 DEF RestartDue
<1>3. \A r : Turned(r)' <=> Turned(r) BY DEF Turned
<1>4. WebShapes' BY DEF GeometryInv, WebShapes
<1>5. (Turned(file.rotation) => RestartDue)' BY <1>2 DEF GeometryInv, Turned
<1>6. (Turned(camera) => RestartDue)' BY <1>2 DEF GeometryInv, Turned
<1>7. \A g \in Handlers : KindFits(req[g])' BY DEF GeometryInv, KindFits
<1>8. \A g \in Handlers : (req[g].pc = "write" /\ Turned(req[g].copy.rotation) => RestartDue)'
  BY <1>2 DEF GeometryInv, Turned
<1> QED BY <1>4, <1>5, <1>6, <1>7, <1>8 DEF GeometryInv

(* The process starts with what the file says and no request in flight. *)
LEMMA Fresh ==
  ASSUME file \in Configs, boot = file, camera = file.rotation, memory = InMemoryOf(file),
         req = [h \in Handlers |-> Idle]
  PROVE  GeometryInv
<1>1. req \in [Handlers -> [kind : Kinds, pc : Places, change : Changes, copy : Configs]]
  BY Originals
<1>2. WebShapes BY <1>1, MemoryOfConfig DEF WebShapes
<1>3. \A h \in Handlers : KindFits(req[h]) /\ req[h].pc = "idle" BY DEF Idle, KindFits
<1> QED BY <1>2, <1>3 DEF GeometryInv, Turned

LEMMA GeometryInit == WebInit => GeometryInv
<1> SUFFICES ASSUME WebInit PROVE GeometryInv OBVIOUS
<1>1. PICK pass \in {0, 1} : file = [Original EXCEPT !.pass = pass] BY DEF WebInit
<1>2. file \in Configs BY <1>1, Originals DEF Configs, Vals
<1> QED BY <1>2, Fresh DEF WebInit

LEMMA RebootKeeps == ASSUME GeometryInv, Reboot PROVE GeometryInv'
<1>1. file' \in Configs BY DEF GeometryInv, WebShapes, Reboot
<1>2. /\ boot' = file' /\ camera' = file'.rotation /\ memory' = InMemoryOf(file)'
      /\ req' = [h \in Handlers |-> Idle]
  BY DEF Reboot, InMemoryOf, AsBool
<1>3. req' \in [Handlers -> [kind : Kinds, pc : Places, change : Changes, copy : Configs]]
  BY <1>2, Originals
<1>4. "user" \in DOMAIN memory' /\ memory'.user \in Vals
  BY <1>1, MemoryOfConfig DEF Reboot
<1>5. WebShapes' BY <1>1, <1>2, <1>3, <1>4 DEF WebShapes
<1>6. \A h \in Handlers : KindFits(req'[h]) /\ req'[h].pc = "idle"
  BY <1>2 DEF Idle, KindFits
<1> QED BY <1>2, <1>5, <1>6 DEF GeometryInv, Turned, KindFits

LEMMA GeometryInvKept == GeometryInv /\ [WebNext]_webVars => GeometryInv'
<1> SUFFICES ASSUME GeometryInv, [WebNext]_webVars PROVE GeometryInv' OBVIOUS
<1>1. CASE UNCHANGED webVars BY <1>1, OthersKeep DEF webVars
<1>2. ASSUME NEW h \in Handlers, NEW r \in Requests, Begin(h, r) PROVE GeometryInv'
  BY <1>2, BeginKeeps
<1>3. ASSUME NEW h \in Handlers, Handle(h) PROVE GeometryInv' BY <1>3, HandleKeeps
<1>4. CASE SessionRequest BY <1>4, OthersKeep DEF SessionRequest
<1>5. CASE SystemRestart BY <1>5, OthersKeep DEF SystemRestart
<1>6. CASE Reboot BY <1>6, RebootKeeps
<1> QED BY <1>1, <1>2, <1>3, <1>4, <1>5, <1>6 DEF WebNext

(* GeometryAnnounced: however PUTs, other writes of the file and restarts in
   place interleave, the camera has the shape the process announced when it
   started, or the process is about to start again (handlers.go:183-203). *)
THEOREM GeometryKept == WebSpec => []GeometryAnnounced
<1>1. GeometryInv => GeometryAnnounced
  BY DEF GeometryInv, GeometryAnnounced, Turned, RestartDue
<1> QED BY <1>1, GeometryInvKept, GeometryInit, PTL DEF WebSpec
-----------------------------------------------------------------------------
(* The saved configuration *)

Flies(h) == req[h].pc # "idle"
Agrees(k) == Running[k] = Saved[k]

(* A request that made its change in memory before it wrote the file, or wrote
   the file and did not apply it yet. *)
Pending(h, k) ==
    /\ k \in Changing(h)
    /\ \/ req[h].pc = "apply"
       \/ req[h].pc \in {"read", "write"} /\ req[h].kind # "put"

(* What it writes must be what is in memory; a flip is read back from the file. *)
Owed(h, k) == Pending(h, k) /\ req[h].pc \in {"read", "write"} /\ req[h].kind # "flip"

(* What requests of a kind change, and where they can be. *)
Fits(r) ==
    /\ r.kind = "put" =>
           /\ r.pc # "set"
           /\ "user" \in DOMAIN r.change => DOMAIN r.change \intersect {"rotation", "hflip"} = {}
    /\ r.kind = "flip" => \E f \in {"true", "false", "1"} : r.change = [hflip |-> f]
    /\ r.kind = "model" => DOMAIN r.change = {"model"}
    /\ r.kind \in {"reset", "setup"} => DOMAIN r.change = {"user", "pass", "origins"}
    /\ r.kind = "none" => r.pc = "idle"
    /\ r.pc = "apply" => r.kind \in {"put", "flip"}
    /\ r.pc \in {"clear", "create"} => r.kind \in {"reset", "setup"}

(* No two requests change a setting at a time, unless it is excused. *)
OneEach ==
    \A k \in Keys \ excused : \A g, h \in Handlers :
        Flies(g) /\ Flies(h) /\ k \in Changing(g) \intersect Changing(h) => g = h

KeyOk(k) ==
    /\ (\A h \in Handlers : ~Pending(h, k)) => Agrees(k)
    /\ \A h \in Handlers :
           Owed(h, k) => IF k \in InMemory THEN memory[k] = req[h].change[k] ELSE Agrees(k)

(* What a request may write back loads as well. *)
FileSound ==
    \/ numeric
    \/ Loads(file) /\ \A h \in Handlers : req[h].pc = "write" => Loads(req[h].copy)

SavedInv ==
    /\ GeometryInv
    /\ \A h \in Handlers : Fits(req[h])
    /\ InMemory \subseteq DOMAIN memory
    /\ OneEach
    /\ restarting \/ \A k \in Keys \ excused : KeyOk(k)
    /\ FileSound

(* Where a setting takes effect, and how it is saved; now and after the step. *)
LEMMA AgreesMeans ==
  /\ file \in Configs =>
       \A k \in Keys :
          Agrees(k) <=> (IF k \in InMemory THEN memory[k]
                         ELSE IF k = "rotation" THEN camera ELSE boot[k])
                        = (IF k = "hflip" THEN AsBool(file[k]) ELSE file[k])
  /\ file' \in Configs =>
       \A k \in Keys :
          Agrees(k)' <=> (IF k \in InMemory THEN memory'[k]
                          ELSE IF k = "rotation" THEN camera' ELSE boot'[k])
                         = (IF k = "hflip" THEN AsBool(file'[k]) ELSE file'[k])
<1>1. \A k \in Keys : Running[k] = IF k \in InMemory THEN memory[k]
                                   ELSE IF k = "rotation" THEN camera ELSE boot[k]
  BY DEF Keys, Running, InMemory
<1>2. \A k \in Keys : Running'[k] = IF k \in InMemory THEN memory'[k]
                                    ELSE IF k = "rotation" THEN camera' ELSE boot'[k]
  BY DEF Keys, Running, InMemory
<1>3. file \in Configs =>
        \A k \in Keys : Saved[k] = IF k = "hflip" THEN AsBool(file[k]) ELSE file[k]
  BY DEF Saved, Configs, AsBool
<1>4. file' \in Configs =>
        \A k \in Keys : Saved'[k] = IF k = "hflip" THEN AsBool(file'[k]) ELSE file'[k]
  BY DEF Saved, Configs, AsBool
<1> QED BY <1>1, <1>2, <1>3, <1>4 DEF Agrees

(* A setting that the request neither has nor had in its hands. *)
LEMMA Aside ==
  ASSUME NEW h \in Handlers, \A g \in Handlers \ {h} : req'[g] = req[g],
         NEW k \in Keys, KeyOk(k),
         ~Pending(h, k), ~Pending(h, k)',
         Agrees(k) => Agrees(k)', k \in InMemory => memory'[k] = memory[k]
  PROVE  KeyOk(k)'
<1>1. \A g \in Handlers \ {h} : (Pending(g, k)' <=> Pending(g, k)) /\ (Owed(g, k)' <=> Owed(g, k))
  BY DEF Pending, Owed, Changing
<1>2. ~Owed(h, k) /\ ~Owed(h, k)' BY DEF Owed
<1>3. (\A g \in Handlers : ~Pending(g, k)') => Agrees(k)' BY <1>1 DEF KeyOk
<1>4. ASSUME NEW g \in Handlers, Owed(g, k)'
      PROVE  IF k \in InMemory THEN memory'[k] = req'[g].change[k] ELSE Agrees(k)'
  <2>1. g # h /\ Owed(g, k) BY <1>1, <1>2, <1>4
  <2> QED BY <2>1 DEF KeyOk
<1> QED BY <1>3, <1>4 DEF KeyOk

(* A setting that the request alone changes. *)
LEMMA Owned ==
  ASSUME OneEach, NEW h \in Handlers, \A g \in Handlers \ {h} : req'[g] = req[g],
         NEW k \in Keys \ excused, Flies(h), k \in Changing(h),
         ~Pending(h, k)' => Agrees(k)',
         Owed(h, k)' => IF k \in InMemory THEN memory'[k] = req'[h].change[k] ELSE Agrees(k)'
  PROVE  KeyOk(k)'
<1>1. \A g \in Handlers \ {h} : ~(Flies(g) /\ k \in Changing(g)) BY DEF OneEach
<1>2. \A g \in Handlers \ {h} : ~Pending(g, k) BY <1>1 DEF Pending, Flies
<1>3. \A g \in Handlers \ {h} : ~Pending(g, k)' BY <1>2 DEF Pending, Changing
<1>4. \A g \in Handlers \ {h} : ~Owed(g, k)' BY <1>3 DEF Owed
<1>5. (\A g \in Handlers : ~Pending(g, k)') => Agrees(k)' OBVIOUS
<1> QED BY <1>4, <1>5 DEF KeyOk

(* The parts that a step of one request leaves to be shown. *)
LEMMA OneRequestSteps ==
  ASSUME SavedInv, GeometryInv', NEW h \in Handlers,
         \A g \in Handlers \ {h} : req'[g] = req[g],
         Fits(req'[h]), InMemory \subseteq DOMAIN memory', excused \subseteq excused',
         Flies(h)' => Flies(h) /\ Changing(h)' = Changing(h),
         restarting' \/ (~restarting /\ \A k \in Keys \ excused' : KeyOk(k)'),
         FileSound'
  PROVE  SavedInv'
<1>1. \A g \in Handlers : Fits(req[g])' BY DEF SavedInv, Fits
<1>2. ASSUME NEW k \in Keys \ excused', NEW f \in Handlers, NEW g \in Handlers,
             Flies(f)', Flies(g)', k \in Changing(f)', k \in Changing(g)'
      PROVE  f = g
  <2>1. \A e \in Handlers : Flies(e)' /\ k \in Changing(e)' => Flies(e) /\ k \in Changing(e)
    BY DEF Flies, Changing
  <2>2. k \in Keys \ excused OBVIOUS
  <2> QED BY <1>2, <2>1, <2>2 DEF SavedInv, OneEach
<1>3. OneEach' BY <1>2 DEF OneEach
<1> QED BY <1>1, <1>3 DEF SavedInv

(* Steps that do not touch the file: FileSound needs only what the request
   holds to be written. *)
LEMMA FileUntouched ==
  ASSUME FileSound, NEW h \in Handlers, \A g \in Handlers \ {h} : req'[g] = req[g],
         UNCHANGED <<file, numeric>>,
         req'[h].pc = "write" => req'[h].copy = file
  PROVE  FileSound'
<1> SUFFICES ASSUME ~numeric PROVE FileSound' BY DEF FileSound
<1>1. Loads(file') BY DEF FileSound
<1>2. \A g \in Handlers : req'[g].pc = "write" => Loads(req'[g].copy) BY DEF FileSound
<1> QED BY <1>1, <1>2 DEF FileSound

(* A request that is answered, or goes on to the sessions, and has no setting in
   its hands that is not excused. *)
LEMMA RequestLeaves ==
  ASSUME SavedInv, GeometryInv', NEW h \in Handlers,
         Answer(h) \/ (\E p \in {"clear", "create"} :
                           Goto(h, p) /\ req[h].kind \in {"reset", "setup"} /\ Flies(h)),
         UNCHANGED <<file, boot, camera, memory, restarting, numeric>>,
         excused \subseteq excused',
         \A k \in Keys \ excused' : ~Pending(h, k)
  PROVE  SavedInv'
<1>1. WebShapes BY DEF SavedInv, GeometryInv
<1>2. /\ \A g \in Handlers \ {h} : req'[g] = req[g]
      /\ Fits(req'[h])
      /\ Flies(h)' => Flies(h) /\ Changing(h)' = Changing(h)
      /\ \A k : ~Pending(h, k)'
      /\ req'[h].pc # "write"
  <2>1. CASE Answer(h)
    <3>1. req'[h] = Idle /\ \A g \in Handlers \ {h} : req'[g] = req[g]
      BY <1>1, <2>1, Moves DEF Answer
    <3>2. req'[h].pc = "idle" /\ req'[h].kind = "none" BY <3>1 DEF Idle
    <3> QED BY <3>1, <3>2 DEF Fits, Flies, Pending
  <2>2. ASSUME NEW p \in {"clear", "create"}, Goto(h, p), req[h].kind \in {"reset", "setup"}, Flies(h)
        PROVE  /\ \A g \in Handlers \ {h} : req'[g] = req[g]
               /\ Fits(req'[h])
               /\ Flies(h)' => Flies(h) /\ Changing(h)' = Changing(h)
               /\ \A k : ~Pending(h, k)'
               /\ req'[h].pc # "write"
    <3>1. p \in Places BY DEF Places
    <3>2. /\ req'[h].kind = req[h].kind /\ req'[h].pc = p /\ req'[h].change = req[h].change
          /\ \A g \in Handlers \ {h} : req'[g] = req[g]
      BY <1>1, <2>2, <3>1, Moves DEF Goto
    <3>3. Fits(req[h]) BY DEF SavedInv
    <3>4. Fits(req'[h]) BY <2>2, <3>2, <3>3 DEF Fits
    <3> QED BY <2>2, <3>2, <3>4 DEF Flies, Pending, Changing
  <2> QED BY <2>1, <2>2
<1>3. ASSUME NEW k \in Keys \ excused', ~restarting PROVE KeyOk(k)'
  <2>1. Agrees(k)' <=> Agrees(k) BY DEF Agrees, Running, Saved
  <2>2. KeyOk(k) BY <1>3 DEF SavedInv
  <2> QED BY <1>2, <2>1, <2>2, Aside
<1>4. FileSound' BY <1>2, FileUntouched DEF SavedInv
<1>5. InMemory \subseteq DOMAIN memory' BY DEF SavedInv
<1> QED BY <1>2, <1>3, <1>4, <1>5, OneRequestSteps
LEMMA BeginSaves ==
  ASSUME SavedInv, GeometryInv', NEW h \in Handlers, NEW r \in Requests, Begin(h, r)
  PROVE  SavedInv'
<1>1. WebShapes BY DEF SavedInv, GeometryInv
<1> DEFINE new == [kind |-> r.kind, change |-> r.change, copy |-> file,
                   pc |-> IF r.kind = "put" THEN "read" ELSE "set"]
<1>2. /\ new.kind = r.kind /\ new.change = r.change
      /\ new.pc = IF r.kind = "put" THEN "read" ELSE "set"
  OBVIOUS
<1>3. req' = [req EXCEPT ![h] = new] BY DEF Begin
<1> HIDE DEF new
<1>4. req'[h] = new /\ \A g \in Handlers \ {h} : req'[g] = req[g] BY <1>1, <1>3 DEF WebShapes
<1>5. Fits(new)
  <2>1. CASE r \in [kind : {"put"}, change : Puts]
    <3>1. r.change \in Puts /\ r.kind = "put" BY <2>1
    <3>2. "user" \in DOMAIN r.change => DOMAIN r.change \intersect {"rotation", "hflip"} = {}
      BY <3>1 DEF Puts
    <3> QED BY <1>2, <3>1, <3>2 DEF Fits
  <2>2. CASE r \in [kind : {"flip"}, change : {[hflip |-> f] : f \in {"true", "false", "1"}}]
    <3>1. r.kind = "flip" /\ \E f \in {"true", "false", "1"} : r.change = [hflip |-> f] BY <2>2
    <3> QED BY <1>2, <3>1 DEF Fits
  <2>3. CASE r \in [kind : {"model"}, change : {[model |-> 1]}]
    <3>1. r.kind = "model" /\ DOMAIN r.change = {"model"} BY <2>3
    <3> QED BY <1>2, <3>1 DEF Fits
  <2>4. CASE \/ r \in [kind : {"reset"}, change : {[user |-> 0, pass |-> p, origins |-> 0] : p \in {2, 3}}]
             \/ r \in [kind : {"setup"}, change : {[user |-> 1, pass |-> 2, origins |-> 0]}]
    <3>1. r.kind \in {"reset", "setup"} /\ DOMAIN r.change = {"user", "pass", "origins"} BY <2>4
    <3> QED BY <1>2, <3>1 DEF Fits
  <2> QED BY <2>1, <2>2, <2>3, <2>4 DEF Requests
<1>6. \A g \in Handlers : Fits(req[g])' BY <1>4, <1>5 DEF SavedInv, Fits
<1>7. UNCHANGED <<file, boot, camera, memory, restarting, numeric>> /\ req[h].pc = "idle"
      /\ excused' = excused \union
                      UNION {Changing(g) \intersect DOMAIN r.change : g \in InFlight(h)}
  BY DEF Begin
<1>8. OneEach'
  <2>1. \A k \in Keys \ excused' : \A g \in Handlers \ {h} :
            ~(Flies(g) /\ k \in Changing(g) /\ k \in DOMAIN r.change)
    BY <1>7 DEF InFlight, Flies
  <2>2. \A g \in Handlers \ {h} : (Flies(g)' <=> Flies(g)) /\ Changing(g)' = Changing(g)
    BY <1>4 DEF Flies, Changing
  <2>3. Changing(h)' = DOMAIN r.change BY <1>2, <1>4 DEF Changing
  <2>4. ASSUME NEW k \in Keys \ excused', NEW f \in Handlers, NEW g \in Handlers,
               Flies(f)', Flies(g)', k \in Changing(f)', k \in Changing(g)', f # g
        PROVE  FALSE
    <3>1. CASE f = h BY <2>1, <2>2, <2>3, <2>4, <3>1
    <3>2. CASE g = h BY <2>1, <2>2, <2>3, <2>4, <3>2
    <3>3. CASE f # h /\ g # h
      <4>1. k \in Keys \ excused BY <1>7
      <4> QED BY <2>2, <2>4, <3>3, <4>1 DEF SavedInv, OneEach
    <3> QED BY <3>1, <3>2, <3>3
  <2> QED BY <2>4 DEF OneEach
<1>9. ASSUME NEW k \in Keys \ excused', ~restarting PROVE KeyOk(k)'
  <2>1. Agrees(k)' <=> Agrees(k) BY <1>7 DEF Agrees, Running, Saved
  <2>2. ~Pending(h, k) /\ ~Pending(h, k)' BY <1>2, <1>4, <1>7 DEF Pending
  <2>3. KeyOk(k) BY <1>7, <1>9 DEF SavedInv
  <2> QED BY <1>4, <1>7, <2>1, <2>2, <2>3, Aside
<1>10. FileSound' BY <1>2, <1>4, <1>7, FileUntouched DEF SavedInv
<1> QED BY <1>6, <1>7, <1>8, <1>9, <1>10 DEF SavedInv

LEMMA SetInMemorySaves ==
  ASSUME SavedInv, GeometryInv', NEW h \in Handlers, SetInMemory(h) PROVE SavedInv'
<1>1. WebShapes /\ Fits(req[h]) /\ InMemory \subseteq DOMAIN memory /\ OneEach
  BY DEF SavedInv, GeometryInv
<1> DEFINE change == IF req[h].kind = "reset"
                     THEN [req[h].change EXCEPT !.user = memory.user] ELSE req[h].change
           new == [req[h] EXCEPT !.pc = "read", !.change = change]
<1>2. PICK S \in SUBSET Keys : req[h].change \in [S -> Vals] BY <1>1, ChangeShape
<1>3. new.kind = req[h].kind /\ new.pc = "read" /\ new.change = change BY <1>1 DEF WebShapes
<1>4. req' = [req EXCEPT ![h] = new] BY <1>1 DEF SetInMemory, WebShapes
<1>5. DOMAIN change = Changing(h) /\ (req[h].kind # "reset" => change = req[h].change)
      /\ (req[h].kind = "reset" => /\ "user" \in Changing(h) => change["user"] = memory.user
                                   /\ change["pass"] = req[h].change["pass"])
  BY <1>2 DEF Changing
<1> HIDE DEF new, change
<1>6. req'[h] = new /\ \A g \in Handlers \ {h} : req'[g] = req[g] BY <1>1, <1>4 DEF WebShapes
<1>7. UNCHANGED <<file, boot, camera, restarting, excused, numeric>> /\ req[h].pc = "set"
  BY DEF SetInMemory
<1>8. Changing(h)' = Changing(h) /\ Flies(h) BY <1>3, <1>5, <1>6, <1>7 DEF Changing, Flies
<1>9. Fits(req'[h]) BY <1>1, <1>3, <1>5, <1>6, <1>7 DEF Fits, Changing
<1>10. req[h].kind \in {"flip", "model", "reset", "setup"} BY <1>1, <1>7 DEF Fits, WebShapes, Kinds
(* Memory has what the request will write, and nothing else is new. *)
<1>11. /\ InMemory \subseteq DOMAIN memory'
       /\ \A k \in InMemory \ Changing(h) : memory'[k] = memory[k]
       /\ req[h].kind # "flip" =>
            \A k \in InMemory \intersect Changing(h) : memory'[k] = change[k]
  <2>1. CASE req[h].kind = "flip"
    <3>1. memory' = [memory EXCEPT !.hflip = AsBool(req[h].change.hflip)]
      BY <2>1 DEF SetInMemory
    <3>2. Changing(h) = {"hflip"} BY <1>1, <2>1 DEF Fits, Changing
    <3> QED BY <1>1, <2>1, <3>1, <3>2
  <2>2. CASE req[h].kind = "model"
    <3>1. memory' = [memory EXCEPT !.model = req[h].change.model] BY <2>2 DEF SetInMemory
    <3>2. Changing(h) = {"model"} BY <1>1, <2>2 DEF Fits, Changing
    <3> QED BY <1>1, <1>5, <2>2, <3>1, <3>2 DEF InMemory
  <2>3. CASE req[h].kind = "setup"
    <3>1. memory' = [memory EXCEPT !.user = req[h].change.user, !.pass = req[h].change.pass]
      BY <2>3 DEF SetInMemory
    <3>2. Changing(h) = {"user", "pass", "origins"} BY <1>1, <2>3 DEF Fits, Changing
    <3> QED BY <1>1, <1>5, <2>3, <3>1, <3>2 DEF InMemory
  <2>4. CASE req[h].kind = "reset"
    <3>1. memory' = [memory EXCEPT !.pass = req[h].change.pass] BY <2>4 DEF SetInMemory
    <3>2. Changing(h) = {"user", "pass", "origins"} BY <1>1, <2>4 DEF Fits, Changing
    <3> QED BY <1>1, <1>5, <2>4, <3>1, <3>2 DEF InMemory
  <2> QED BY <1>10, <2>1, <2>2, <2>3, <2>4
<1>12. ASSUME NEW k \in Keys \ excused, ~restarting PROVE KeyOk(k)'
  <2>1. KeyOk(k) BY <1>12 DEF SavedInv
  <2>2. file \in Configs /\ file' \in Configs BY <1>1, <1>7 DEF WebShapes
  <2>3. CASE k \notin Changing(h)
    <3>1. ~Pending(h, k) /\ ~Pending(h, k)' BY <1>8, <2>3 DEF Pending
    <3>2. Agrees(k) => Agrees(k)' BY <1>7, <1>11, <2>2, <2>3, AgreesMeans
    <3> QED BY <1>6, <1>11, <2>1, <2>3, <3>1, <3>2, Aside
  <2>4. CASE k \in Changing(h)
    <3>1. \A g \in Handlers \ {h} : ~(Flies(g) /\ k \in Changing(g))
      BY <1>1, <1>8, <2>4 DEF OneEach
    <3>2. \A g \in Handlers : ~Pending(g, k) BY <1>7, <3>1 DEF Pending, Flies
    <3>3. Agrees(k) BY <2>1, <3>2 DEF KeyOk
    <3>4. k \notin InMemory => Agrees(k)' BY <1>7, <2>2, <3>3, AgreesMeans
    <3>5. Pending(h, k)' BY <1>3, <1>6, <1>8, <1>10, <2>4 DEF Pending
    <3>6. Owed(h, k)' => req[h].kind # "flip" BY <1>3, <1>6 DEF Owed
    <3>7. Owed(h, k)' => IF k \in InMemory THEN memory'[k] = req'[h].change[k] ELSE Agrees(k)'
      BY <1>3, <1>6, <1>11, <2>4, <3>4, <3>6
    <3> QED BY <1>1, <1>6, <1>8, <2>4, <3>5, <3>7, Owned
  <2> QED BY <2>3, <2>4
<1>13. FileSound' BY <1>3, <1>6, <1>7, FileUntouched DEF SavedInv
<1> QED BY <1>6, <1>7, <1>8, <1>9, <1>11, <1>12, <1>13, OneRequestSteps

(* A flip that the camera stored and did not take is excused; no other setting
   moves. *)
LEMMA FlipFailsSaves ==
  ASSUME SavedInv, GeometryInv', NEW h \in Handlers, FlipFails(h) PROVE SavedInv'
<1>1. WebShapes /\ WebShapes' /\ InMemory \subseteq DOMAIN memory BY DEF SavedInv, GeometryInv
<1>2. /\ req[h].pc = "set" /\ Answer(h)
      /\ UNCHANGED <<file, boot, camera, restarting, numeric>>
  BY DEF FlipFails
<1>3. CASE UNCHANGED <<memory, excused>>
  <2>1. \A k \in Keys : ~Pending(h, k) BY <1>2 DEF Pending
  <2> QED BY <1>2, <1>3, <2>1, RequestLeaves
<1>4. CASE /\ memory' = [memory EXCEPT !.hflip = AsBool(req[h].change.hflip)]
           /\ excused' = excused \union {"hflip"}
  <2>1. req'[h] = Idle /\ \A g \in Handlers \ {h} : req'[g] = req[g]
    BY <1>1, <1>2, Moves DEF Answer
  <2>2. req'[h].pc = "idle" /\ req'[h].kind = "none" BY <2>1 DEF Idle
  <2>3. Fits(req'[h]) /\ ~Flies(h)' BY <2>2 DEF Fits, Flies
  <2>4. /\ InMemory \subseteq DOMAIN memory'
        /\ \A k \in InMemory \ {"hflip"} : memory'[k] = memory[k]
    BY <1>1, <1>4
  <2>5. ASSUME NEW k \in Keys \ excused', ~restarting PROVE KeyOk(k)'
    <3>1. k # "hflip" /\ k \in Keys \ excused BY <1>4
    <3>2. KeyOk(k) BY <2>5, <3>1 DEF SavedInv
    <3>3. ~Pending(h, k) /\ ~Pending(h, k)' BY <1>2, <2>2 DEF Pending
    <3>4. file \in Configs /\ file' \in Configs BY <1>1 DEF WebShapes
    <3>5. Agrees(k) => Agrees(k)' BY <1>2, <2>4, <3>1, <3>4, AgreesMeans
    <3>6. k \in InMemory => memory'[k] = memory[k] BY <2>4, <3>1
    <3> QED BY <2>1, <3>2, <3>3, <3>5, <3>6, Aside
  <2>6. FileSound' BY <1>2, <2>1, <2>2, FileUntouched DEF SavedInv
  <2> QED BY <1>2, <1>4, <2>1, <2>3, <2>4, <2>5, <2>6, OneRequestSteps
<1> QED BY <1>3, <1>4 DEF FlipFails

LEMMA ReadSaves ==
  ASSUME SavedInv, GeometryInv', NEW h \in Handlers, Read(h) PROVE SavedInv'
<1>1. WebShapes /\ Fits(req[h]) BY DEF SavedInv, GeometryInv
<1> DEFINE new == [req[h] EXCEPT !.copy = file, !.pc = "write"]
<1>2. new.kind = req[h].kind /\ new.pc = "write" /\ new.copy = file /\ new.change = req[h].change
  BY <1>1 DEF WebShapes
<1>3. req' = [req EXCEPT ![h] = new] BY <1>1 DEF Read, WebShapes
<1> HIDE DEF new
<1>4. req'[h] = new /\ \A g \in Handlers \ {h} : req'[g] = req[g] BY <1>1, <1>3 DEF WebShapes
<1>5. /\ UNCHANGED <<file, boot, camera, memory, restarting, excused, numeric>>
      /\ req[h].pc = "read"
  BY DEF Read
<1>6. Fits(req'[h]) /\ Changing(h)' = Changing(h) /\ Flies(h)
  BY <1>1, <1>2, <1>4, <1>5 DEF Fits, Changing, Flies
<1>7. ASSUME NEW k \in Keys \ excused, ~restarting PROVE KeyOk(k)'
  <2>1. KeyOk(k) BY <1>7 DEF SavedInv
  <2>2. \A g \in Handlers : (Pending(g, k)' <=> Pending(g, k)) /\ (Owed(g, k)' <=> Owed(g, k))
                            /\ req'[g].change = req[g].change
    BY <1>2, <1>4, <1>5 DEF Pending, Owed, Changing
  <2>3. Agrees(k)' <=> Agrees(k) BY <1>5 DEF Agrees, Running, Saved
  <2> QED BY <1>5, <2>1, <2>2, <2>3 DEF KeyOk
<1>8. FileSound' BY <1>2, <1>4, <1>5, FileUntouched DEF SavedInv
<1>9. InMemory \subseteq DOMAIN memory' BY <1>5 DEF SavedInv
<1> QED BY <1>4, <1>5, <1>6, <1>7, <1>8, <1>9, OneRequestSteps
(* What a request writes loads, if its copy of the file did, unless it is a flip
   posted as a number. *)
LEMMA MergedLoads ==
  ASSUME WebShapes, NEW h \in Handlers, Fits(req[h]), req[h].pc = "write", ~Rejected(h),
         Loads(req[h].copy)
  PROVE  Loads(Merged(h)) \/ req[h].change = [hflip |-> "1"]
<1>1. /\ Merged(h).hflip = IF "hflip" \in Changing(h) THEN req[h].change["hflip"]
                           ELSE req[h].copy["hflip"]
      /\ Merged(h).rotation = IF "rotation" \in Changing(h) THEN req[h].change["rotation"]
                              ELSE req[h].copy["rotation"]
  BY DEF Merged, Keys
<1>2. CASE req[h].kind = "put" BY <1>2 DEF Rejected
<1>3. CASE req[h].kind = "flip"
  <2>1. PICK f \in {"true", "false", "1"} : req[h].change = [hflip |-> f] BY <1>3 DEF Fits
  <2>2. CASE f = "1" BY <2>1, <2>2
  <2>3. CASE f # "1"
    <3>1. Changing(h) = {"hflip"} /\ req[h].change["hflip"] = f BY <2>1 DEF Changing
    <3> QED BY <1>1, <2>3, <3>1 DEF Loads
  <2> QED BY <2>2, <2>3
<1>4. CASE req[h].kind \in {"model", "reset", "setup"}
  <2>1. "hflip" \notin Changing(h) /\ "rotation" \notin Changing(h) BY <1>4 DEF Fits, Changing
  <2> QED BY <1>1, <2>1 DEF Loads
<1>5. req[h].kind \in Kinds \ {"none"} BY DEF Fits, WebShapes
<1> QED BY <1>2, <1>3, <1>4, <1>5 DEF Kinds

LEMMA WriteSaves ==
  ASSUME SavedInv, GeometryInv', NEW h \in Handlers, Write(h) PROVE SavedInv'
<1>1. WebShapes /\ WebShapes' /\ Fits(req[h]) /\ InMemory \subseteq DOMAIN memory /\ OneEach
  BY DEF SavedInv, GeometryInv
<1>2. /\ req[h].pc = "write" /\ ~Rejected(h) /\ file' = Merged(h)
      /\ UNCHANGED <<boot, camera, memory, restarting>>
      /\ numeric' = (numeric \/ req[h].change = [hflip |-> "1"])
      /\ Goto(h, AfterSave(h))
  BY DEF Write
<1>3. excused' = excused \union {k \in Keys \ Changing(h) : file[k] # req[h].copy[k]}
                   \union (Changing(h) \intersect {"origins"})
  BY DEF Write
<1>4. /\ AfterSave(h) \in Places
      /\ req[h].kind \in {"put", "flip"} => AfterSave(h) = "apply"
      /\ req[h].kind = "reset" => AfterSave(h) = "clear"
      /\ req[h].kind = "setup" => AfterSave(h) = "create"
      /\ req[h].kind \in {"none", "model"} => AfterSave(h) = "done"
  BY <1>1 DEF AfterSave, Places, WebShapes, Kinds
<1>5. /\ req'[h].kind = req[h].kind /\ req'[h].pc = AfterSave(h)
      /\ req'[h].change = req[h].change /\ req'[h].copy = req[h].copy
      /\ \A g \in Handlers \ {h} : req'[g] = req[g]
  BY <1>1, <1>2, <1>4, Moves DEF Goto
<1>6. Changing(h)' = Changing(h) /\ Flies(h) BY <1>2, <1>5 DEF Changing, Flies
<1>7. req[h].kind \in {"put", "flip", "model", "reset", "setup"}
  BY <1>1, <1>2 DEF Fits, WebShapes, Kinds
<1>8. Fits(req'[h])
  <2>1. CASE req[h].kind = "put" BY <1>1, <1>4, <1>5, <2>1 DEF Fits
  <2>2. CASE req[h].kind = "flip" BY <1>1, <1>4, <1>5, <2>2 DEF Fits
  <2>3. CASE req[h].kind \in {"model", "reset", "setup"} BY <1>1, <1>4, <1>5, <2>3 DEF Fits
  <2> QED BY <1>7, <2>1, <2>2, <2>3
<1>9. file \in Configs /\ file' \in Configs BY <1>1 DEF WebShapes
<1>10. \A k \in Keys : file'[k] = IF k \in Changing(h) THEN req[h].change[k] ELSE req[h].copy[k]
  BY <1>2 DEF Merged
<1>11. ASSUME NEW k \in Keys \ excused', ~restarting PROVE KeyOk(k)'
  <2>1. k \in Keys \ excused BY <1>3
  <2>2. KeyOk(k) BY <1>11, <2>1 DEF SavedInv
  <2>3. CASE k \notin Changing(h)
    <3>1. file'[k] = file[k] BY <1>3, <1>10, <2>3
    <3>2. Agrees(k) => Agrees(k)' BY <1>2, <1>9, <3>1, AgreesMeans
    <3>3. ~Pending(h, k) /\ ~Pending(h, k)' BY <1>6, <2>3 DEF Pending
    <3> QED BY <1>2, <1>5, <2>2, <3>2, <3>3, Aside
  <2>4. CASE k \in Changing(h)
    <3>1. k # "origins" BY <1>3, <2>4
    <3>2. ~Owed(h, k)' BY <1>4, <1>5, <1>7 DEF Owed
    <3>3. CASE req[h].kind \in {"put", "flip"}
      <4>1. Pending(h, k)' BY <1>4, <1>5, <1>6, <2>4, <3>3 DEF Pending
      <4> QED BY <1>1, <1>5, <1>6, <2>1, <2>4, <3>2, <4>1, Owned
    <3>4. CASE req[h].kind \in {"model", "reset", "setup"}
      <4>1. k \in InMemory /\ k # "hflip"
        BY <1>1, <2>4, <3>1, <3>4 DEF Fits, Changing, InMemory
      <4>2. Owed(h, k) BY <1>2, <2>4, <3>4 DEF Owed, Pending
      <4>3. memory[k] = req[h].change[k] BY <2>2, <4>1, <4>2 DEF KeyOk
      <4>4. Agrees(k)' BY <1>2, <1>9, <1>10, <2>4, <4>1, <4>3, AgreesMeans
      <4> QED BY <1>1, <1>5, <1>6, <2>1, <2>4, <3>2, <4>4, Owned
    <3> QED BY <1>7, <3>3, <3>4
  <2> QED BY <2>3, <2>4
<1>12. FileSound'
  <2> SUFFICES ASSUME ~numeric, req[h].change # [hflip |-> "1"] PROVE FileSound'
    BY <1>2 DEF FileSound
  <2>1. Loads(req[h].copy) BY <1>2 DEF SavedInv, FileSound
  <2>2. Loads(file') BY <1>1, <1>2, <2>1, MergedLoads
  <2>3. req'[h].pc # "write" BY <1>4, <1>5, <1>7
  <2>4. \A g \in Handlers : req'[g].pc = "write" => Loads(req'[g].copy)
    BY <1>5, <2>3 DEF SavedInv, FileSound
  <2> QED BY <2>2, <2>4 DEF FileSound
<1>13. InMemory \subseteq DOMAIN memory' BY <1>1, <1>2
<1>14. excused \subseteq excused' BY <1>3
<1> QED BY <1>2, <1>5, <1>6, <1>8, <1>11, <1>12, <1>13, <1>14, OneRequestSteps

LEMMA NotSavedSaves ==
  ASSUME SavedInv, GeometryInv', NEW h \in Handlers, NotSaved(h) PROVE SavedInv'
<1>1. WebShapes /\ Fits(req[h]) BY DEF SavedInv, GeometryInv
<1>2. /\ req[h].pc \in {"read", "write"}
      /\ IF req[h].kind \in {"reset", "setup"} THEN Goto(h, AfterSave(h)) ELSE Answer(h)
      /\ excused' = IF req[h].kind = "put" THEN excused ELSE excused \union Changing(h)
      /\ UNCHANGED <<file, boot, camera, memory, restarting, numeric>>
  BY DEF NotSaved
<1>3. req[h].kind \in {"reset", "setup"} => AfterSave(h) \in {"clear", "create"}
  BY DEF AfterSave
<1>4. \A k \in Keys \ excused' : ~Pending(h, k) BY <1>2 DEF Pending
<1>5. excused \subseteq excused' /\ Flies(h) BY <1>2 DEF Flies
<1> QED BY <1>2, <1>3, <1>4, <1>5, RequestLeaves

(* A restart in place takes the camera's settings from the file; what else the
   request changed waits for a start of the process and is excused. *)
LEMMA ApplyInPlaceSaves ==
  ASSUME SavedInv, GeometryInv', NEW h \in Handlers, ApplyInPlace(h) PROVE SavedInv'
<1>1. WebShapes /\ WebShapes' /\ Fits(req[h]) /\ InMemory \subseteq DOMAIN memory /\ OneEach
  BY DEF SavedInv, GeometryInv
<1>2. /\ req[h].pc = "apply" /\ InPlace(h) /\ Answer(h)
      /\ camera' = file.rotation
      /\ memory' = [NewUser(h) EXCEPT !.hflip = AsBool(file.hflip)]
      /\ excused' = excused \union (Changing(h) \ {"rotation", "hflip", "user"})
      /\ UNCHANGED <<file, boot, restarting, numeric>>
  BY DEF ApplyInPlace
<1>3. req'[h] = Idle /\ \A g \in Handlers \ {h} : req'[g] = req[g]
  BY <1>1, <1>2, Moves DEF Answer
<1>4. req'[h].pc = "idle" /\ req'[h].kind = "none" BY <1>3 DEF Idle
<1>5. "user" \notin Changing(h)
  <2>1. req[h].kind \in {"put", "flip"} BY <1>1, <1>2 DEF Fits
  <2>2. Changing(h) \intersect {"rotation", "hflip"} # {} BY <1>2 DEF InPlace, TouchesCamera
  <2>3. CASE req[h].kind = "put" BY <1>1, <2>2, <2>3 DEF Fits, Changing
  <2>4. CASE req[h].kind = "flip" BY <1>1, <2>4 DEF Fits, Changing
  <2> QED BY <2>1, <2>3, <2>4
<1>6. memory' = [memory EXCEPT !.hflip = AsBool(file.hflip)] BY <1>2, <1>5 DEF NewUser
<1>7. /\ InMemory \subseteq DOMAIN memory'
      /\ "hflip" \in DOMAIN memory /\ memory'["hflip"] = AsBool(file["hflip"])
      /\ \A k \in InMemory \ {"hflip"} : memory'[k] = memory[k]
  BY <1>1, <1>6 DEF InMemory
<1>8. file \in Configs /\ file' \in Configs BY <1>1 DEF WebShapes
<1>9. ASSUME NEW k \in Keys \ excused', ~restarting PROVE KeyOk(k)'
  <2>1. KeyOk(k) BY <1>2, <1>9 DEF SavedInv
  <2>2. ~Pending(h, k)' BY <1>4 DEF Pending
  <2>3. CASE k \in {"rotation", "hflip"}
    <3>1. Agrees(k)' BY <1>2, <1>7, <1>8, <2>3, AgreesMeans DEF InMemory
    <3>2. \A g \in Handlers : Fits(req'[g]) BY <1>3, <1>4 DEF SavedInv, Fits
    <3>3. ASSUME NEW g \in Handlers, Owed(g, k)' PROVE FALSE
      <4>1. g # h BY <1>4, <3>3 DEF Owed
      <4>2. Fits(req[g]) /\ req[g].kind \in Kinds BY <1>1 DEF SavedInv, WebShapes
      <4>3. k \in Changing(g) /\ req[g].kind \notin {"put", "flip"} /\ req[g].pc \in {"read", "write"}
        BY <1>3, <3>3, <4>1 DEF Owed, Pending, Changing
      <4>4. req[g].kind \in {"model", "reset", "setup"} BY <4>2, <4>3 DEF Fits, Kinds
      <4> QED BY <2>3, <4>2, <4>3, <4>4 DEF Fits, Changing
    <3> QED BY <3>1, <3>3 DEF KeyOk
  <2>4. CASE k \notin {"rotation", "hflip"}
    <3>1. k \notin Changing(h) BY <1>2, <1>5, <2>4
    <3>2. ~Pending(h, k) BY <3>1 DEF Pending
    <3>3. Agrees(k) => Agrees(k)' BY <1>2, <1>7, <1>8, <2>4, AgreesMeans
    <3>4. k \in InMemory => memory'[k] = memory[k] BY <1>7, <2>4
    <3> QED BY <1>3, <2>1, <2>2, <3>2, <3>3, <3>4, Aside
  <2> QED BY <2>3, <2>4
<1>10. Fits(req'[h]) /\ ~Flies(h)' BY <1>4 DEF Fits, Flies
<1>11. FileSound' BY <1>2, <1>3, <1>4, FileUntouched DEF SavedInv
<1> QED BY <1>2, <1>3, <1>7, <1>9, <1>10, <1>11, OneRequestSteps

LEMMA HandleSaves ==
  ASSUME SavedInv, GeometryInv', NEW h \in Handlers, Handle(h) PROVE SavedInv'
<1>1. WebShapes /\ Fits(req[h]) BY DEF SavedInv, GeometryInv
<1>2. CASE SetInMemory(h) BY <1>2, SetInMemorySaves
<1>3. CASE Read(h) BY <1>3, ReadSaves
<1>4. CASE Write(h) BY <1>4, WriteSaves
<1>5. CASE NotSaved(h) BY <1>5, NotSavedSaves
<1>6. CASE ApplyInPlace(h) BY <1>6, ApplyInPlaceSaves
<1>7. CASE NothingToSet(h)
  <2>1. req[h].pc = "set" /\ Answer(h)
        /\ UNCHANGED <<file, boot, camera, memory, restarting, excused, numeric>>
    BY <1>7 DEF NothingToSet
  <2>2. \A k \in Keys : ~Pending(h, k) BY <2>1 DEF Pending
  <2> QED BY <2>1, <2>2, RequestLeaves
<1>8. CASE ApplyByRestart(h)
  <2>1. /\ restarting' /\ Answer(h) /\ memory' = NewUser(h)
        /\ UNCHANGED <<file, boot, camera, excused, numeric>>
    BY <1>8 DEF ApplyByRestart
  <2>2. req'[h] = Idle /\ \A g \in Handlers \ {h} : req'[g] = req[g]
    BY <1>1, <2>1, Moves DEF Answer
  <2>3. req'[h].pc = "idle" /\ req'[h].kind = "none" BY <2>2 DEF Idle
  <2>4. InMemory \subseteq DOMAIN memory' BY <2>1 DEF NewUser, SavedInv
  <2>5. Fits(req'[h]) /\ ~Flies(h)' BY <2>3 DEF Fits, Flies
  <2>6. FileSound' BY <2>1, <2>2, <2>3, FileUntouched DEF SavedInv
  <2> QED BY <2>1, <2>2, <2>4, <2>5, <2>6, OneRequestSteps
<1>9. CASE ResetSessions(h)
  <2>1. /\ req[h].pc \in {"clear", "create"} /\ (Answer(h) \/ Goto(h, "create"))
        /\ UNCHANGED <<file, boot, camera, memory, restarting, excused, numeric>>
    BY <1>9 DEF ResetSessions
  <2>2. \A k \in Keys : ~Pending(h, k) BY <2>1 DEF Pending
  <2>3. req[h].kind \in {"reset", "setup"} BY <1>1, <2>1 DEF Fits
  <2> QED BY <2>1, <2>2, <2>3, RequestLeaves DEF Flies
<1>10. CASE Done(h)
  <2>1. req[h].pc = "done" /\ Answer(h)
        /\ UNCHANGED <<file, boot, camera, memory, restarting, excused, numeric>>
    BY <1>10 DEF Done
  <2>2. \A k \in Keys : ~Pending(h, k) BY <2>1 DEF Pending
  <2> QED BY <2>1, <2>2, RequestLeaves
<1>11. CASE FlipFails(h) BY <1>11, FlipFailsSaves
<1> QED BY <1>2, <1>3, <1>4, <1>5, <1>6, <1>7, <1>8, <1>9, <1>10, <1>11 DEF Handle

(* Sessions, and a restart that somebody asks for. *)
LEMMA OthersSave ==
  ASSUME SavedInv, GeometryInv', restarting => restarting',
         UNCHANGED <<file, boot, camera, memory, req, excused, numeric>>
  PROVE  SavedInv'
<1>1. \A h \in Handlers : Fits(req[h])' BY DEF SavedInv, Fits
<1>2. OneEach' BY DEF SavedInv, OneEach, Flies, Changing
<1>3. ASSUME ~restarting', NEW k \in Keys \ excused PROVE KeyOk(k)'
  <2>1. KeyOk(k) BY <1>3 DEF SavedInv
  <2>2. \A h \in Handlers : (Pending(h, k)' <=> Pending(h, k)) /\ (Owed(h, k)' <=> Owed(h, k))
    BY DEF Pending, Owed, Changing
  <2>3. Agrees(k)' <=> Agrees(k) BY DEF Agrees, Running, Saved
  <2> QED BY <2>1, <2>2, <2>3 DEF KeyOk
<1>4. FileSound' BY DEF SavedInv, FileSound
<1> QED BY <1>1, <1>2, <1>3, <1>4 DEF SavedInv
(* The process starts with what the file says. *)
LEMMA AtStart ==
  /\ file \in Configs /\ memory = InMemoryOf(file) /\ camera = file.rotation /\ boot = file =>
       \A k \in Keys : Agrees(k)
  /\ file' \in Configs /\ memory' = InMemoryOf(file') /\ camera' = file'.rotation /\ boot' = file' =>
       \A k \in Keys : Agrees(k)'
<1> USE AgreesMeans DEF InMemoryOf, InMemory, Keys
<1>1. ASSUME file \in Configs, memory = InMemoryOf(file), camera = file.rotation, boot = file,
             NEW k \in Keys
      PROVE  Agrees(k)
  BY <1>1
<1>2. ASSUME file' \in Configs, memory' = InMemoryOf(file'), camera' = file'.rotation, boot' = file',
             NEW k \in Keys
      PROVE  Agrees(k)'
  BY <1>2
<1> QED BY <1>1, <1>2

LEMMA SavedInit == WebInit => SavedInv
<1> SUFFICES ASSUME WebInit PROVE SavedInv OBVIOUS
<1>1. GeometryInv BY GeometryInit
<1>2. \A h \in Handlers : req[h].pc = "idle" /\ req[h].kind = "none" BY DEF WebInit, Idle
<1>3. file \in Configs BY <1>1 DEF GeometryInv, WebShapes
<1>4. \A k \in Keys : Agrees(k) BY <1>3, AtStart DEF WebInit
<1>5. \A k \in Keys : KeyOk(k) BY <1>2, <1>4 DEF KeyOk, Owed, Pending
<1>6. (\A h \in Handlers : Fits(req[h])) /\ OneEach BY <1>2 DEF Fits, OneEach, Flies
<1>7. InMemory \subseteq DOMAIN memory BY DEF WebInit, InMemoryOf, InMemory
<1>8. Loads(file)
  <2>1. PICK pass \in {0, 1} : file = [Original EXCEPT !.pass = pass] BY DEF WebInit
  <2>2. file.hflip = "false" /\ file.rotation = 0 BY <2>1 DEF Original
  <2> QED BY <2>2 DEF Loads
<1>9. FileSound BY <1>2, <1>8 DEF FileSound
<1> QED BY <1>1, <1>5, <1>6, <1>7, <1>9 DEF SavedInv

LEMMA RebootSaves == ASSUME SavedInv, GeometryInv', Reboot PROVE SavedInv'
<1>1. /\ file' = file /\ boot' = file /\ camera' = file.rotation /\ memory' = InMemoryOf(file)
      /\ req' = [h \in Handlers |-> Idle] /\ numeric' = numeric
  BY DEF Reboot
<1>2. \A h \in Handlers : req'[h].pc = "idle" /\ req'[h].kind = "none" BY <1>1 DEF Idle
<1>3. file' \in Configs BY DEF GeometryInv, WebShapes
<1>4. \A k \in Keys : Agrees(k)' BY <1>1, <1>3, AtStart
<1>5. \A k \in Keys : KeyOk(k)' BY <1>2, <1>4 DEF KeyOk, Owed, Pending
<1>6. (\A h \in Handlers : Fits(req[h])') /\ OneEach' BY <1>2 DEF Fits, OneEach, Flies
<1>7. InMemory \subseteq DOMAIN memory' BY <1>1 DEF InMemoryOf, InMemory
<1>8. FileSound' BY <1>1, <1>2 DEF SavedInv, FileSound
<1> QED BY <1>5, <1>6, <1>7, <1>8 DEF SavedInv

(* SavedIsRunning: with any number of requests in flight, reading, merging and
   writing the file in any order, failing or not, and any number of starts of
   the process, what runs once nothing is in flight is what the file says, for
   every setting that is not excused, and a file that only a flip posted as a
   number can spoil loads (handlers.go, api.go, auth.go). *)
THEOREM ConfigKept == WebSpec => []SavedIsRunning
<1>1. SavedInv /\ [WebNext]_webVars => SavedInv'
  <2> SUFFICES ASSUME SavedInv, [WebNext]_webVars PROVE SavedInv' OBVIOUS
  <2>1. GeometryInv' BY GeometryInvKept DEF SavedInv
  <2>2. CASE UNCHANGED webVars BY <2>1, <2>2, OthersSave DEF webVars
  <2>3. ASSUME NEW h \in Handlers, NEW r \in Requests, Begin(h, r) PROVE SavedInv'
    BY <2>1, <2>3, BeginSaves
  <2>4. ASSUME NEW h \in Handlers, Handle(h) PROVE SavedInv' BY <2>1, <2>4, HandleSaves
  <2>5. CASE SessionRequest BY <2>1, <2>5, OthersSave DEF SessionRequest
  <2>6. CASE SystemRestart BY <2>1, <2>6, OthersSave DEF SystemRestart
  <2>7. CASE Reboot BY <2>1, <2>7, RebootSaves
  <2> QED BY <2>2, <2>3, <2>4, <2>5, <2>6, <2>7 DEF WebNext
<1>2. SavedInv => SavedIsRunning
  <2> SUFFICES ASSUME SavedInv PROVE SavedIsRunning OBVIOUS
  <2>1. ASSUME Settled, NEW k \in Keys \ excused PROVE Running[k] = Saved[k]
    <3>1. KeyOk(k) BY <2>1 DEF SavedInv, Settled
    <3>2. \A h \in Handlers : ~Pending(h, k) BY <2>1 DEF Settled, Pending
    <3> QED BY <3>1, <3>2 DEF KeyOk, Agrees
  <2>2. numeric \/ Loads(file) BY DEF SavedInv, FileSound
  <2> QED BY <2>1, <2>2 DEF SavedIsRunning
<1> QED BY <1>1, <1>2, SavedInit, PTL DEF WebSpec

-----------------------------------------------------------------------------
(* Models *)

RequestPlaces == {"idle", "upload", "validate", "rename", "register", "delete", "remove", "unlink",
                  "activate", "build", "swap", "close", "persist"}
RequestsInFlight == [kind : {"none", "upload", "delete", "activate"}, id : Ids,
                     pc : RequestPlaces, det : Nat]

(* An activation that has a session in hand: a new one before the swap, the
   old one after it. *)
Holding(c) == client[c].pc \in {"swap", "close"}

(* The session in use and those in hand are open and all different, so the
   one an activation closes is never the one another installs. *)
DetectorsInv ==
    /\ client \in [Clients -> RequestsInFlight]
    /\ saved \in Ids
    /\ built \in Nat /\ opened \subseteq 1 .. built /\ validated \subseteq opened
    /\ active # Disabled => slot \in opened \ validated
    /\ \A c \in Clients :
          /\ client[c].pc = "build" => active # Disabled
          /\ Holding(c) => /\ active # Disabled
                           /\ client[c].det \in opened \ validated
                           /\ client[c].det # slot
          /\ ~Holding(c) => client[c].det = 0
          /\ Holding(c) => \A d \in Clients \ {c} : client[d].det # client[c].det
    /\ \A s \in opened \ validated :
          \/ active # Disabled /\ s = slot
          \/ \E c \in Clients : Holding(c) /\ s = client[c].det

LEMMA DetectorsInit == ModelsInit => DetectorsInv
<1> SUFFICES ASSUME ModelsInit PROVE DetectorsInv OBVIOUS
<1>1. NoRequest \in RequestsInFlight BY DEF NoRequest, RequestsInFlight, RequestPlaces, Ids
<1>2. client \in [Clients -> RequestsInFlight] BY <1>1 DEF ModelsInit
<1>3. \A c \in Clients : client[c].pc = "idle" /\ client[c].det = 0
  BY DEF ModelsInit, NoRequest
<1>4. saved \in Ids BY DEF ModelsInit, Ids
<1> QED BY <1>2, <1>3, <1>4 DEF ModelsInit, DetectorsInv, Holding, Builtin, Disabled

(* A step of one request that has no session in hand and takes none. *)
LEMMA Quiet ==
  ASSUME DetectorsInv, NEW c \in Clients, NEW new \in RequestsInFlight,
         client' = [client EXCEPT ![c] = new], ~Holding(c),
         new.det = 0, new.pc \notin {"swap", "close"}, new.pc = "build" => active # Disabled,
         saved' \in Ids,
         UNCHANGED <<active, slot, built, opened, validated>>
  PROVE  DetectorsInv'
<1>1. client' \in [Clients -> RequestsInFlight] /\ client'[c] = new
      /\ \A d \in Clients \ {c} : client'[d] = client[d]
  BY DEF DetectorsInv
<1>2. ~Holding(c)' /\ \A d \in Clients \ {c} : Holding(d)' <=> Holding(d)
  BY <1>1 DEF Holding
<1>3. client[c].det = 0 BY DEF DetectorsInv
<1>4. \A s \in opened \ validated :
        (active # Disabled /\ s = slot) \/ \E d \in Clients : Holding(d)' /\ s = client'[d].det
  BY <1>1, <1>2 DEF DetectorsInv
<1>5. \A d \in Clients :
        /\ client'[d].pc = "build" => active # Disabled
        /\ Holding(d)' => /\ active # Disabled
                          /\ client'[d].det \in opened \ validated
                          /\ client'[d].det # slot
        /\ ~Holding(d)' => client'[d].det = 0
        /\ Holding(d)' => \A e \in Clients \ {d} : client'[e].det # client'[d].det
  BY <1>1, <1>2, <1>3 DEF DetectorsInv
<1> QED BY <1>1, <1>4, <1>5 DEF DetectorsInv

LEMMA StepShape ==
  ASSUME DetectorsInv, NEW c \in Clients, NEW pc \in RequestPlaces, Step(c, pc)
  PROVE  \E new \in RequestsInFlight :
            /\ client' = [client EXCEPT ![c] = new]
            /\ new.pc = pc /\ new.det = client[c].det
<1>1. client \in [Clients -> RequestsInFlight] BY DEF DetectorsInv
<1>2. [client[c] EXCEPT !.pc = pc] \in RequestsInFlight BY <1>1 DEF RequestsInFlight
<1>3. client' = [client EXCEPT ![c] = [client[c] EXCEPT !.pc = pc]] BY <1>1 DEF Step
<1> QED BY <1>1, <1>2, <1>3 DEF RequestsInFlight

(* What a request does before, after and instead of building a session. *)
LEMMA QuietSteps ==
  ASSUME DetectorsInv, NEW c \in Clients,
         ~Holding(c),
         \/ Answered(c)
         \/ \E pc \in RequestPlaces \ {"swap", "close"} :
               Step(c, pc) /\ (pc = "build" => active # Disabled),
         saved' \in Ids, UNCHANGED <<active, slot, built, opened, validated>>
  PROVE  DetectorsInv'
<1>1. client[c].det = 0 BY DEF DetectorsInv
<1>2. CASE Answered(c)
  <2>1. NoRequest \in RequestsInFlight /\ NoRequest.det = 0 /\ NoRequest.pc = "idle"
    BY DEF NoRequest, RequestsInFlight, RequestPlaces, Ids
  <2> QED BY <1>2, <2>1, Quiet DEF Answered
<1>3. ASSUME NEW pc \in RequestPlaces \ {"swap", "close"}, Step(c, pc),
             pc = "build" => active # Disabled
      PROVE  DetectorsInv'
  <2>1. PICK new \in RequestsInFlight :
            client' = [client EXCEPT ![c] = new] /\ new.pc = pc /\ new.det = 0
    BY <1>1, <1>3, StepShape
  <2> QED BY <1>3, <2>1, Quiet
<1> QED BY <1>2, <1>3

LEMMA ValidatedKeeps == ASSUME DetectorsInv, NEW c \in Clients, Validated(c) PROVE DetectorsInv'
<1>1. PICK new \in RequestsInFlight :
          client' = [client EXCEPT ![c] = new] /\ new.pc = "rename" /\ new.det = client[c].det
  BY StepShape DEF Validated, RequestPlaces
<1>2. ~Holding(c) /\ client[c].det = 0 BY DEF Validated, Holding, DetectorsInv
<1>3. client' \in [Clients -> RequestsInFlight] /\ client'[c] = new
      /\ \A d \in Clients \ {c} : client'[d] = client[d]
  BY <1>1 DEF DetectorsInv
<1>4. ~Holding(c)' /\ \A d \in Clients \ {c} : Holding(d)' <=> Holding(d)
  BY <1>1, <1>3 DEF Holding
<1>5. /\ built' = built + 1 /\ opened' = opened \union {built + 1}
      /\ validated' = validated \union {built + 1}
      /\ UNCHANGED <<active, slot, saved>>
  BY DEF Validated, choice
<1>6. built \in Nat /\ opened \subseteq 1 .. built /\ validated \subseteq opened
  BY DEF DetectorsInv
<1>7. built' \in Nat /\ opened' \subseteq 1 .. built' /\ validated' \subseteq opened'
      /\ opened' \ validated' = opened \ validated
  BY <1>5, <1>6
<1>8. \A s \in opened \ validated :
        (active # Disabled /\ s = slot) \/ \E d \in Clients : Holding(d)' /\ s = client'[d].det
  BY <1>2, <1>3, <1>4 DEF DetectorsInv
<1>9. \A d \in Clients :
        /\ client'[d].pc = "build" => active # Disabled
        /\ Holding(d)' => /\ active # Disabled
                          /\ client'[d].det \in opened \ validated
                          /\ client'[d].det # slot
        /\ ~Holding(d)' => client'[d].det = 0
        /\ Holding(d)' => \A e \in Clients \ {d} : client'[e].det # client'[d].det
  BY <1>1, <1>2, <1>3, <1>4 DEF DetectorsInv
<1> QED BY <1>3, <1>5, <1>7, <1>8, <1>9 DEF DetectorsInv

(* A request that goes to another place with another session in hand. *)
Hand(r, pc, det) == [r EXCEPT !.pc = pc, !.det = det]

LEMMA HandShape ==
  ASSUME NEW r \in RequestsInFlight, NEW pc \in RequestPlaces, NEW det \in Nat
  PROVE  /\ Hand(r, pc, det) \in RequestsInFlight
         /\ Hand(r, pc, det).pc = pc
         /\ Hand(r, pc, det).det = det
<1> DEFINE kinds4 == {"none", "upload", "delete", "activate"}
<1>1. r \in [kind : kinds4, id : Ids, pc : RequestPlaces, det : Nat] BY DEF RequestsInFlight
<1> HIDE DEF kinds4
<1>2. Hand(r, pc, det) \in [kind : kinds4, id : Ids, pc : RequestPlaces, det : Nat]
  BY <1>1 DEF Hand
<1> QED BY <1>1, <1>2 DEF RequestsInFlight, kinds4, Hand

(* The new session goes into the hand of its activation. *)
LEMMA BuildsKeeps == ASSUME DetectorsInv, NEW c \in Clients, Builds(c) PROVE DetectorsInv'
<1>0. ~Holding(c) /\ client[c].det = 0 /\ active # Disabled
      /\ built \in Nat /\ opened \subseteq 1 .. built /\ validated \subseteq opened
      /\ client \in [Clients -> RequestsInFlight]
      /\ slot \in opened
  BY DEF Builds, Holding, DetectorsInv
<1>1. CASE ~OnDevice(client[c].id)
  BY <1>0, <1>1, QuietSteps DEF Builds, choice, DetectorsInv
<1>2. CASE OnDevice(client[c].id)
  <2> DEFINE new == Hand(client[c], "swap", built + 1)
  <2>1. new \in RequestsInFlight /\ new.pc = "swap" /\ new.det = built + 1
    <3>1. built + 1 \in Nat /\ client[c] \in RequestsInFlight /\ "swap" \in RequestPlaces
      BY <1>0 DEF RequestPlaces
    <3> QED BY <3>1, HandShape
  <2>2. /\ built' = built + 1 /\ opened' = opened \union {built + 1}
        /\ UNCHANGED <<active, slot, validated, saved>>
    BY <1>2 DEF Builds, choice
  <2>3. client' = [client EXCEPT ![c] = new] BY <1>0, <1>2, <2>2 DEF Builds, Hand
  <2> HIDE DEF new
  <2>4. client' \in [Clients -> RequestsInFlight] /\ client'[c] = new
        /\ \A d \in Clients \ {c} : client'[d] = client[d]
    BY <1>0, <2>1, <2>3
  <2>5. Holding(c)' /\ \A d \in Clients \ {c} : Holding(d)' <=> Holding(d)
    BY <2>1, <2>4 DEF Holding
  <2>6. /\ built' \in Nat /\ opened' \subseteq 1 .. built' /\ validated' \subseteq opened'
        /\ opened' \ validated' = (opened \ validated) \union {built + 1}
        /\ built + 1 \notin opened
    BY <1>0, <2>2
  <2>7. \A s \in opened' \ validated' :
          (active # Disabled /\ s = slot) \/ \E d \in Clients : Holding(d)' /\ s = client'[d].det
    BY <1>0, <2>1, <2>4, <2>5, <2>6 DEF DetectorsInv
  <2>8. \A d \in Clients \ {c} : client[d].det # built + 1
    BY <1>0, <2>6 DEF DetectorsInv
  <2>9. \A d \in Clients :
          /\ Holding(d)' => /\ client'[d].det \in opened' \ validated'
                            /\ client'[d].det # slot
          /\ ~Holding(d)' => client'[d].det = 0
          /\ Holding(d)' => \A e \in Clients \ {d} : client'[e].det # client'[d].det
    BY <1>0, <2>1, <2>4, <2>5, <2>6, <2>8 DEF DetectorsInv
  <2> QED BY <1>0, <2>2, <2>4, <2>6, <2>7, <2>9 DEF DetectorsInv
<1> QED BY <1>1, <1>2

(* The session in the slot and the one in hand change places. *)
LEMMA SwapsKeeps == ASSUME DetectorsInv, NEW c \in Clients, Swaps(c) PROVE DetectorsInv'
<1>0. Holding(c) /\ active # Disabled /\ slot \in opened \ validated
      /\ client[c].det \in opened \ validated /\ client[c].det # slot
      /\ opened \subseteq 1 .. built /\ built \in Nat /\ validated \subseteq opened
      /\ client \in [Clients -> RequestsInFlight]
  BY DEF Swaps, Holding, DetectorsInv
<1> DEFINE new == Hand(client[c], "close", slot)
<1>1. new \in RequestsInFlight /\ new.pc = "close" /\ new.det = slot
  <2>1. slot \in Nat /\ client[c] \in RequestsInFlight /\ "close" \in RequestPlaces
    BY <1>0 DEF RequestPlaces
  <2> QED BY <2>1, HandShape
<1>2. client' = [client EXCEPT ![c] = new] BY <1>0 DEF Swaps, Hand
<1>3. client[c].id \in Ids BY <1>0 DEF RequestsInFlight
<1>4. /\ slot' = client[c].det /\ active' = client[c].id
      /\ UNCHANGED <<built, opened, validated, saved>>
  BY DEF Swaps, choice
<1>5. active' # Disabled BY <1>3, <1>4, ModelsAssumption DEF Ids, Builtin, Disabled
<1> HIDE DEF new
<1>6. client' \in [Clients -> RequestsInFlight] /\ client'[c] = new
      /\ \A d \in Clients \ {c} : client'[d] = client[d]
  BY <1>0, <1>1, <1>2
<1>7. Holding(c)' /\ \A d \in Clients \ {c} : Holding(d)' <=> Holding(d)
  BY <1>1, <1>6 DEF Holding
<1>8. \A s \in opened \ validated :
        s = slot' \/ \E d \in Clients : Holding(d)' /\ s = client'[d].det
  <2> SUFFICES ASSUME NEW s \in opened \ validated
               PROVE  s = slot' \/ \E d \in Clients : Holding(d)' /\ s = client'[d].det
    OBVIOUS
  <2>1. CASE s = slot BY <1>1, <1>6, <1>7, <2>1
  <2>2. ASSUME NEW d \in Clients, Holding(d), s = client[d].det
        PROVE  s = slot' \/ \E e \in Clients : Holding(e)' /\ s = client'[e].det
    BY <1>4, <1>6, <1>7, <2>2
  <2> QED BY <2>1, <2>2 DEF DetectorsInv
<1>9. \A d \in Clients \ {c} : client[d].det # slot /\ client[d].det # client[c].det
  BY <1>0 DEF DetectorsInv
<1>10. \A d \in Clients :
         /\ Holding(d)' => /\ client'[d].det \in opened \ validated
                           /\ client'[d].det # slot'
         /\ ~Holding(d)' => client'[d].det = 0
         /\ Holding(d)' => \A e \in Clients \ {d} : client'[e].det # client'[d].det
  BY <1>0, <1>1, <1>4, <1>6, <1>7, <1>9 DEF DetectorsInv
<1> QED BY <1>0, <1>4, <1>5, <1>6, <1>8, <1>10 DEF DetectorsInv

(* The session in hand is closed. *)
LEMMA ClosesKeeps == ASSUME DetectorsInv, NEW c \in Clients, Closes(c) PROVE DetectorsInv'
<1>0. Holding(c) /\ active # Disabled /\ slot \in opened \ validated
      /\ client[c].det \in opened \ validated /\ client[c].det # slot /\ client[c].det # 0
      /\ opened \subseteq 1 .. built /\ built \in Nat /\ validated \subseteq opened
      /\ client \in [Clients -> RequestsInFlight]
  BY DEF Closes, Holding, DetectorsInv
<1> DEFINE new == [client[c] EXCEPT !.pc = "persist", !.det = 0]
<1>1. new \in RequestsInFlight /\ new.pc = "persist" /\ new.det = 0
  BY <1>0 DEF RequestsInFlight, RequestPlaces
<1>2. client' = [client EXCEPT ![c] = new] BY <1>0 DEF Closes
<1>3. opened' = opened \ {client[c].det} /\ UNCHANGED <<active, slot, built, validated, saved>>
  BY DEF Closes, choice
<1> HIDE DEF new
<1>4. client' \in [Clients -> RequestsInFlight] /\ client'[c] = new
      /\ \A d \in Clients \ {c} : client'[d] = client[d]
  BY <1>0, <1>1, <1>2
<1>5. ~Holding(c)' /\ \A d \in Clients \ {c} : Holding(d)' <=> Holding(d)
  BY <1>1, <1>4 DEF Holding
<1>6. /\ opened' \subseteq 1 .. built /\ validated \subseteq opened'
      /\ opened' \ validated = (opened \ validated) \ {client[c].det}
  BY <1>0, <1>3
<1>7. \A s \in opened' \ validated :
        s = slot \/ \E d \in Clients : Holding(d)' /\ s = client'[d].det
  BY <1>4, <1>5, <1>6 DEF DetectorsInv
<1>8. \A d \in Clients \ {c} : client[d].det # client[c].det BY <1>0 DEF DetectorsInv
<1>9. \A d \in Clients :
        /\ client'[d].pc = "build" => active # Disabled
        /\ Holding(d)' => /\ client'[d].det \in opened' \ validated
                          /\ client'[d].det # slot
        /\ ~Holding(d)' => client'[d].det = 0
        /\ Holding(d)' => \A e \in Clients \ {d} : client'[e].det # client'[d].det
  <2> SUFFICES ASSUME NEW d \in Clients
               PROVE  /\ client'[d].pc = "build" => active # Disabled
                      /\ Holding(d)' => /\ client'[d].det \in opened' \ validated
                                        /\ client'[d].det # slot
                      /\ ~Holding(d)' => client'[d].det = 0
                      /\ Holding(d)' => \A e \in Clients \ {d} : client'[e].det # client'[d].det
    OBVIOUS
  <2>1. CASE d = c BY <1>1, <1>4, <1>5, <2>1
  <2>2. CASE d # c
    <3>1. client'[d] = client[d] /\ (Holding(d)' <=> Holding(d)) BY <1>4, <1>5, <2>2
    <3>2. ASSUME Holding(d), NEW e \in Clients \ {d} PROVE client'[e].det # client[d].det
      <4>1. CASE e = c BY <1>0, <1>1, <1>4, <2>2, <3>2, <4>1 DEF DetectorsInv
      <4>2. CASE e # c BY <1>4, <3>2, <4>2 DEF DetectorsInv
      <4> QED BY <4>1, <4>2
    <3> QED BY <1>6, <1>8, <2>2, <3>1, <3>2 DEF DetectorsInv
  <2> QED BY <2>1, <2>2
<1> QED BY <1>0, <1>3, <1>4, <1>6, <1>7, <1>9 DEF DetectorsInv

(* A killed process loses its sessions; the next one opens its own. *)
LEMMA RestartsKeeps == ASSUME DetectorsInv, Restarts PROVE DetectorsInv'
<1>1. NoRequest \in RequestsInFlight /\ NoRequest.pc = "idle" /\ NoRequest.det = 0
  BY DEF NoRequest, RequestsInFlight, RequestPlaces, Ids
<1>2. client' = [c \in Clients |-> NoRequest] /\ validated' = {} /\ saved' = saved
  BY DEF Restarts, choice
<1>3. client' \in [Clients -> RequestsInFlight]
      /\ \A c \in Clients : client'[c].pc = "idle" /\ client'[c].det = 0 /\ ~Holding(c)'
  BY <1>1, <1>2 DEF Holding
<1>4. saved \in Ids /\ saved # Disabled
  BY ModelsAssumption DEF DetectorsInv, Ids, Builtin, Disabled
<1>5. built \in Nat BY DEF DetectorsInv
<1>6. \/ active' # Disabled /\ built' = built + 1 /\ slot' = built + 1 /\ opened' = {built + 1}
      \/ active' = Disabled /\ built' = built /\ opened' = {}
  BY <1>4 DEF Restarts
<1> QED BY <1>2, <1>3, <1>4, <1>5, <1>6 DEF DetectorsInv

LEMMA ModelRequestKeeps ==
  ASSUME DetectorsInv, NEW c \in Clients,
         \/ Refuse(c) \/ UploadChecked(c) \/ Renamed(c) \/ Registered(c)
         \/ DeleteChecked(c) \/ RemoveUploaded(c) \/ Unlinked(c)
         \/ ActivateFinds(c) \/ Persists(c)
  PROVE  DetectorsInv'
<1>1. ~Holding(c)
  BY DEF Holding, Refuse, UploadChecked, Renamed, Registered, DeleteChecked, RemoveUploaded,
         Unlinked, ActivateFinds, Persists
<1>2. saved \in Ids /\ client[c].id \in Ids BY DEF DetectorsInv, RequestsInFlight
<1>3. saved' \in Ids /\ UNCHANGED <<active, slot, built, opened, validated>>
  BY <1>2 DEF Refuse, UploadChecked, Renamed, Registered, DeleteChecked, RemoveUploaded,
              Unlinked, ActivateFinds, Persists, service, choice
<1>4. {"validate", "register", "rename", "remove", "unlink", "build"}
        \subseteq RequestPlaces \ {"swap", "close"}
  BY DEF RequestPlaces
<1>5. \/ Answered(c)
      \/ Step(c, "validate") \/ Step(c, "register") \/ Step(c, "remove") \/ Step(c, "unlink")
      \/ Step(c, "build") /\ active # Disabled
  BY DEF Refuse, UploadChecked, Renamed, Registered, DeleteChecked, RemoveUploaded,
         Unlinked, ActivateFinds, Persists
<1> QED BY <1>1, <1>3, <1>4, <1>5, QuietSteps

LEMMA DetectorsInvKept == DetectorsInv /\ [ModelsNext]_modelVars => DetectorsInv'
<1> SUFFICES ASSUME DetectorsInv, [ModelsNext]_modelVars PROVE DetectorsInv' OBVIOUS
<1>1. CASE UNCHANGED modelVars BY <1>1 DEF modelVars, DetectorsInv, Holding
<1>2. ASSUME NEW c \in Clients, NEW kind \in {"upload", "delete", "activate"}, NEW id \in Ids,
             BeginRequest(c, kind, id)
      PROVE  DetectorsInv'
  <2> DEFINE new == [kind |-> kind, id |-> id, pc |-> kind, det |-> 0]
  <2>1. new \in RequestsInFlight BY DEF RequestsInFlight, RequestPlaces
  <2>2. client' = [client EXCEPT ![c] = new] /\ client[c].pc = "idle"
        /\ UNCHANGED <<active, slot, built, opened, validated, saved>>
    BY <1>2 DEF BeginRequest, service, choice
  <2>3. saved \in Ids BY DEF DetectorsInv
  <2> QED BY <2>1, <2>2, <2>3, Quiet DEF Holding
<1>3. ASSUME NEW c \in Clients,
             Validated(c) \/ Builds(c) \/ Swaps(c) \/ Closes(c)
      PROVE  DetectorsInv'
  BY <1>3, ValidatedKeeps, BuildsKeeps, SwapsKeeps, ClosesKeeps
<1>4. CASE LoopDetects BY <1>4 DEF LoopDetects, choice, DetectorsInv, Holding
<1>5. CASE Restarts BY <1>5, RestartsKeeps
<1> QED BY <1>1, <1>2, <1>3, <1>4, <1>5, ModelRequestKeeps DEF ModelsNext

(* DetectorsReleased, the first half of ModelsSound: no inference session is
   lost or closed twice, whatever uploads, activations, inference and restarts
   overlap (service.go: ActivateModel swaps under the lock and closes the old
   detector after it). *)
THEOREM SessionsReleased == ModelsSpec => []DetectorsReleased
<1>1. DetectorsInv => DetectorsReleased
  <2> SUFFICES ASSUME DetectorsInv PROVE DetectorsReleased OBVIOUS
  <2>1. \A c \in Clients : Holding(c) => client[c].det \in opened \ validated
    BY DEF DetectorsInv
  <2>2. \A c \in Clients : ~Holding(c) => client[c].det = 0 BY DEF DetectorsInv
  <2>3. 0 \notin opened BY DEF DetectorsInv
  <2>4. {client[c].det : c \in Clients} \ {0} =
          {s \in opened \ validated : \E c \in Clients : Holding(c) /\ s = client[c].det}
    BY <2>1, <2>2, <2>3
  <2> QED BY <2>4 DEF DetectorsReleased, DetectorsInv
<1> QED BY <1>1, DetectorsInvKept, DetectorsInit, PTL DEF ModelsSpec
-----------------------------------------------------------------------------
(* The registry of models *)

Busy(c) == client[c].pc # "idle"
ActivePlaces == {"activate", "build", "swap", "close", "persist"}
Activates(c) == client[c].pc \in ActivePlaces

(* The place tells the kind of a request and what it is about. *)
Coherent(r) ==
    /\ r.pc # "idle" => (r.kind = "activate" <=> r.pc \in ActivePlaces)
    /\ r.pc \in {"upload", "validate", "rename", "register", "remove", "unlink"} => r.id \in Uploads

(* Ids that requests overlap about are raced, also where one takes the active
   model out of use. *)
Overlaps ==
    /\ \A c, d \in Clients :
           c # d /\ Busy(c) /\ Busy(d) /\ client[c].id = client[d].id => client[c].id \in raced
    /\ \A c, d \in Clients :
           c # d /\ Activates(c) /\ Busy(d) /\ client[d].id \in {active, saved} =>
               client[d].id \in raced
    /\ \A c, d \in Clients :
           c # d /\ Activates(c) /\ Activates(d) =>
               {client[c].id, client[d].id, active, saved} \subseteq raced

(* What a request found out about its id in an earlier step still holds. *)
Knows(c) ==
    \/ client[c].id \in raced \union {Builtin}
    \/ /\ client[c].pc \in {"validate", "rename", "register", "unlink"} => entries[client[c].id] = 0
       /\ client[c].pc = "register" => client[c].id \in modelFiles
       /\ client[c].pc \in {"build", "swap", "close", "persist"} => entries[client[c].id] = 1

EntrySound(i) ==
    \/ i \in raced
    \/ /\ entries[i] \in {0, 1} /\ manifest[i] \in {0, 1}
       /\ entries[i] = 1 => (manifest[i] = 1 \/ torn) /\ i \in modelFiles

SavedFound == saved \in raced \union {Builtin} \/ unsavedChoice \/ forgotten \/ entries[saved] = 1

(* The saved model is the active one, but while an activation has swapped and
   not yet saved; so a delete that passed the check is not about the saved one. *)
LastChosen ==
    /\ \/ saved \in raced \union {Builtin} \/ unsavedChoice \/ forgotten \/ active = saved
       \/ \E c \in Clients : client[c].pc \in {"close", "persist"}
    /\ \A c \in Clients :
           client[c].pc \in {"close", "persist"} => active = client[c].id \/ client[c].id \in raced
    /\ \A c \in Clients :
           client[c].pc \in {"remove", "unlink"} /\ client[c].id = saved =>
               unsavedChoice \/ forgotten \/ saved \in raced

RegistryInv ==
    /\ DetectorsInv
    /\ entries \in [Uploads -> Nat] /\ manifest \in [Uploads -> Nat]
    /\ \A c \in Clients : Coherent(client[c])
    /\ Overlaps
    /\ \A c \in Clients : Knows(c)
    /\ \A i \in Uploads : EntrySound(i)
    /\ SavedFound
    /\ LastChosen

LEMMA RegistryInit == ModelsInit => RegistryInv
<1> SUFFICES ASSUME ModelsInit PROVE RegistryInv OBVIOUS
<1>1. \A c \in Clients : client[c].pc = "idle" BY DEF ModelsInit, NoRequest
<1>2. DetectorsInv BY DetectorsInit
<1>3. entries \in [Uploads -> Nat] /\ manifest \in [Uploads -> Nat]
      /\ \A i \in Uploads : entries[i] = 0 /\ manifest[i] = 0
  BY DEF ModelsInit
<1>4. \A c \in Clients : Coherent(client[c]) /\ Knows(c)
  BY <1>1 DEF Coherent, Knows
<1>5. Overlaps BY <1>1 DEF Overlaps, Busy, Activates, ActivePlaces
<1>6. \A i \in Uploads : EntrySound(i) BY <1>3 DEF EntrySound
<1>7. SavedFound /\ LastChosen BY <1>1 DEF SavedFound, LastChosen, ModelsInit
<1> QED BY <1>2, <1>3, <1>4, <1>5, <1>6, <1>7 DEF RegistryInv

(* A request goes to another place, or leaves. *)
Goes(c, new) ==
    /\ \A d \in Clients \ {c} : client'[d] = client[d]
    /\ client'[c] = new
    /\ new.pc # "idle" => new.kind = client[c].kind /\ new.id = client[c].id

LEMMA Going ==
  ASSUME DetectorsInv, NEW c \in Clients
  PROVE  /\ Answered(c) => \E new : Goes(c, new) /\ new.pc = "idle"
         /\ \A pc : Step(c, pc) => \E new : Goes(c, new) /\ new.pc = pc
         /\ \A pc, det : client' = [client EXCEPT ![c].pc = pc, ![c].det = det] =>
                \E new : Goes(c, new) /\ new.pc = pc
<1>1. client \in [Clients -> RequestsInFlight]
      /\ client[c] \in [kind : {"none", "upload", "delete", "activate"}, id : Ids,
                        pc : RequestPlaces, det : Nat]
  BY DEF DetectorsInv, RequestsInFlight
<1>2. ASSUME Answered(c) PROVE \E new : Goes(c, new) /\ new.pc = "idle"
  <2>1. NoRequest.pc = "idle" BY DEF NoRequest
  <2>2. Goes(c, NoRequest) BY <1>1, <1>2, <2>1 DEF Answered, Goes
  <2> QED BY <2>1, <2>2
<1>3. ASSUME NEW pc, Step(c, pc) PROVE \E new : Goes(c, new) /\ new.pc = pc
  <2> DEFINE new == [client[c] EXCEPT !.pc = pc]
  <2>1. new.pc = pc /\ new.kind = client[c].kind /\ new.id = client[c].id BY <1>1
  <2>2. client' = [client EXCEPT ![c] = new] BY <1>1, <1>3 DEF Step
  <2> HIDE DEF new
  <2>3. Goes(c, new) BY <1>1, <2>1, <2>2 DEF Goes
  <2> QED BY <2>1, <2>3
<1>4. ASSUME NEW pc, NEW det, client' = [client EXCEPT ![c].pc = pc, ![c].det = det]
      PROVE  \E new : Goes(c, new) /\ new.pc = pc
  <2> DEFINE new == [client[c] EXCEPT !.pc = pc, !.det = det]
  <2>1. new.pc = pc /\ new.kind = client[c].kind /\ new.id = client[c].id BY <1>1
  <2>2. client' = [client EXCEPT ![c] = new] BY <1>1, <1>4
  <2> HIDE DEF new
  <2>3. Goes(c, new) BY <1>1, <2>1, <2>2 DEF Goes
  <2> QED BY <2>1, <2>3
<1> QED BY <1>2, <1>3, <1>4

(* Overlaps stays, when a request moves inside its part of the places. *)
LEMMA OverlapsStay ==
  ASSUME RegistryInv, NEW c \in Clients, NEW new, Goes(c, new), raced' = raced,
         new.pc # "idle" => Busy(c),
         new.pc \in ActivePlaces => Activates(c),
         active' = active \/ (Activates(c) /\ active' = client[c].id),
         saved' = saved \/ (Activates(c) /\ saved' = client[c].id)
  PROVE  Overlaps'
<1>1. \A d \in Clients : /\ Busy(d)' => Busy(d) /\ client'[d].id = client[d].id
                         /\ Activates(d)' => Activates(d)
                         /\ Activates(d) => Busy(d)
  BY DEF Goes, Busy, Activates, ActivePlaces
<1>2. \A d, e \in Clients :
          d # e /\ Busy(d)' /\ Busy(e)' /\ client'[d].id = client'[e].id => client'[d].id \in raced
  BY <1>1 DEF RegistryInv, Overlaps
<1>3. ASSUME NEW d \in Clients, NEW e \in Clients, d # e, Activates(d)', Busy(e)',
             client'[e].id \in {active', saved'}
      PROVE  client'[e].id \in raced
  <2>1. Activates(d) /\ Busy(e) /\ client'[e].id = client[e].id BY <1>1, <1>3
  <2>2. CASE client[e].id \in {active, saved} BY <1>3, <2>1, <2>2 DEF RegistryInv, Overlaps
  <2>3. CASE Activates(c) /\ client[e].id = client[c].id
    <3>1. CASE e = c BY <1>3, <2>1, <2>3, <3>1 DEF RegistryInv, Overlaps
    <3>2. CASE e # c BY <1>1, <2>1, <2>3, <3>2 DEF RegistryInv, Overlaps
    <3> QED BY <3>1, <3>2
  <2> QED BY <1>3, <2>1, <2>2, <2>3
<1>4. ASSUME NEW d \in Clients, NEW e \in Clients, d # e, Activates(d)', Activates(e)'
      PROVE  {client'[d].id, client'[e].id, active', saved'} \subseteq raced
  <2>1. Activates(d) /\ Activates(e) /\ Busy(d)' /\ Busy(e)'
    BY <1>1, <1>4 DEF Busy, Activates, ActivePlaces
  <2>2. {client[d].id, client[e].id, active, saved} \subseteq raced
    BY <1>4, <2>1 DEF RegistryInv, Overlaps
  <2>3. Activates(c) => client[c].id \in raced BY <1>4, <2>1 DEF RegistryInv, Overlaps
  <2>4. client'[d].id = client[d].id /\ client'[e].id = client[e].id BY <1>1, <2>1
  <2> QED BY <2>2, <2>3, <2>4
<1> QED BY <1>2, <1>3, <1>4 DEF Overlaps

(* What uploaded.json lists of an id that the step is not about. *)
Listed(i) ==
    \/ manifest'[i] = manifest[i] /\ torn' = torn
    \/ manifest'[i] = entries[i]
    \/ manifest'[i] = 0 /\ torn'

LEMMA ManifestWrites ==
  ASSUME NEW list \in [Uploads -> Nat], manifest \in [Uploads -> Nat],
         ManifestWritten(list) \/ ManifestFails(list)
  PROVE  /\ manifest' \in [Uploads -> Nat]
         /\ \A i \in Uploads : \/ manifest'[i] = manifest[i] /\ torn' = torn
                               \/ manifest'[i] = list[i]
                               \/ manifest'[i] = 0 /\ torn'
BY DEF ManifestWritten, ManifestFails, Unreadable

(* Steps of a request that choose nothing: what it changes in the registry is
   about its own id, and no other request that is about it need be heeded. *)
LEMMA RequestSteps ==
  ASSUME RegistryInv, DetectorsInv', NEW c \in Clients, NEW new, Goes(c, new),
         NEW id \in Ids, id = client[c].id,
         UNCHANGED <<raced, active, saved, unsavedChoice, forgotten>>,
         Busy(c), Coherent(new), new.pc \in ActivePlaces => Activates(c),
         client[c].pc \in {"close", "persist"} <=> new.pc \in {"close", "persist"},
         new.pc \in {"remove", "unlink"} =>
             \/ client[c].pc \in {"remove", "unlink"}
             \/ id = saved => unsavedChoice \/ forgotten \/ saved \in raced,
         entries' \in [Uploads -> Nat], manifest' \in [Uploads -> Nat],
         \A i \in Uploads \ {id} :
             /\ entries'[i] = entries[i] /\ Listed(i)
             /\ i \in modelFiles => i \in modelFiles',
         id \in Uploads => EntrySound(id)',
         Knows(c)',
         id = saved => SavedFound'
  PROVE  RegistryInv'
<1>1. Overlaps' BY OverlapsStay
<1>2. \A d \in Clients : Coherent(client[d])' BY DEF Goes, RegistryInv, Coherent
<1>3. ASSUME NEW i \in Uploads PROVE EntrySound(i)'
  <2>1. CASE i = id BY <2>1
  <2>2. CASE i # id
    <3>1. EntrySound(i) BY DEF RegistryInv
    <3>2. entries'[i] = entries[i] /\ Listed(i) /\ (i \in modelFiles => i \in modelFiles')
      BY <2>2
    <3> QED BY <3>1, <3>2 DEF EntrySound, Listed
  <2> QED BY <2>1, <2>2
<1>4. ASSUME NEW d \in Clients PROVE Knows(d)'
  <2>1. CASE d = c BY <2>1
  <2>2. CASE d # c /\ ~Busy(d)
    <3>1. client'[d].pc = "idle" BY <2>2 DEF Goes, Busy
    <3> QED BY <3>1 DEF Knows
  <2>3. CASE d # c /\ Busy(d)
    <3>1. client'[d] = client[d] /\ Knows(d) BY <2>3 DEF Goes, RegistryInv
    <3>2. CASE client[d].id \in raced \union {Builtin} BY <3>1, <3>2 DEF Knows
    <3>3. CASE client[d].id \notin raced \union {Builtin}
      <4>1. client[d].id \in Uploads
        <5>1. client[d] \in RequestsInFlight BY DEF RegistryInv, DetectorsInv
        <5> QED BY <3>3, <5>1 DEF RequestsInFlight, Ids
      <4>2. client[d].id # client[c].id BY <2>3, <3>3 DEF RegistryInv, Overlaps
      <4> QED BY <3>1, <3>3, <4>1, <4>2 DEF Knows
    <3> QED BY <3>2, <3>3
  <2> QED BY <2>1, <2>2, <2>3
<1>5. SavedFound'
  <2>1. SavedFound /\ saved \in Ids BY DEF RegistryInv, DetectorsInv
  <2> QED BY <2>1 DEF SavedFound, Ids
<1>6. LastChosen'
  <2>1. \A d \in Clients :
          /\ client'[d].pc \in {"close", "persist"} <=> client[d].pc \in {"close", "persist"}
          /\ client'[d].pc # "idle" => client'[d].id = client[d].id
    BY DEF Goes
  <2>2. \A d \in Clients :
          client'[d].pc \in {"remove", "unlink"} /\ client'[d].id = saved =>
              unsavedChoice \/ forgotten \/ saved \in raced
    BY <2>1 DEF Goes, RegistryInv, LastChosen
  <2>3. \A d \in Clients :
          client'[d].pc \in {"close", "persist"} => active = client'[d].id \/ client'[d].id \in raced
    BY <2>1 DEF RegistryInv, LastChosen
  <2>4. \/ saved \in raced \union {Builtin} \/ unsavedChoice \/ forgotten \/ active = saved
        \/ \E d \in Clients : client'[d].pc \in {"close", "persist"}
    BY <2>1 DEF RegistryInv, LastChosen
  <2> QED BY <2>2, <2>3, <2>4 DEF LastChosen
<1> QED BY <1>1, <1>2, <1>3, <1>4, <1>5, <1>6 DEF RegistryInv
(* ... and changes nothing in the registry either. *)
LEMMA QuietRequest ==
  ASSUME RegistryInv, DetectorsInv', NEW c \in Clients, NEW new, Goes(c, new),
         UNCHANGED <<registry, raced, active, saved, unsavedChoice, forgotten>>,
         Busy(c), Coherent(new), new.pc \in ActivePlaces => Activates(c),
         client[c].pc \in {"close", "persist"} <=> new.pc \in {"close", "persist"},
         new.pc \in {"remove", "unlink"} =>
             \/ client[c].pc \in {"remove", "unlink"}
             \/ client[c].id = saved => unsavedChoice \/ forgotten \/ saved \in raced,
         Knows(c)'
  PROVE  RegistryInv'
<1>1. PICK id \in Ids : id = client[c].id BY DEF RegistryInv, DetectorsInv, RequestsInFlight
<1>2. entries' = entries /\ manifest' = manifest /\ torn' = torn /\ modelFiles' = modelFiles
  BY DEF registry, lists
<1>3. entries' \in [Uploads -> Nat] /\ manifest' \in [Uploads -> Nat] BY <1>2 DEF RegistryInv
<1>4. \A i \in Uploads \ {id} :
          /\ entries'[i] = entries[i] /\ Listed(i)
          /\ i \in modelFiles => i \in modelFiles'
  BY <1>2 DEF Listed
<1>5. id \in Uploads => EntrySound(id)' BY <1>2 DEF RegistryInv, EntrySound
<1>6. SavedFound' BY <1>2 DEF RegistryInv, SavedFound
<1> QED BY <1>1, <1>3, <1>4, <1>5, <1>6, RequestSteps

LEMMA AnswerKeeps ==
  ASSUME RegistryInv, DetectorsInv', NEW c \in Clients, Answered(c), Busy(c),
         client[c].pc \notin {"close", "persist"},
         UNCHANGED <<registry, raced, active, saved, unsavedChoice, forgotten>>
  PROVE  RegistryInv'
<1>1. PICK new : Goes(c, new) /\ new.pc = "idle" BY Going DEF RegistryInv
<1>2. Coherent(new) /\ new.pc \notin ActivePlaces BY <1>1 DEF Coherent, ActivePlaces
<1>3. client'[c].pc = "idle" BY <1>1 DEF Goes
<1>4. Knows(c)' BY <1>3 DEF Knows
<1> QED BY <1>1, <1>2, <1>4, QuietRequest

LEMMA CheckedKeeps ==
  ASSUME RegistryInv, DetectorsInv', NEW c \in Clients,
         \/ UploadChecked(c) \/ Validated(c) \/ DeleteChecked(c) \/ ActivateFinds(c)
         \/ Builds(c) \/ Closes(c)
  PROVE  RegistryInv'
<1>1. /\ DetectorsInv /\ Coherent(client[c]) /\ Knows(c) /\ Overlaps /\ LastChosen /\ saved \in Ids
      /\ \A i \in Uploads : EntrySound(i)
      /\ client[c].id \in Ids
  BY DEF RegistryInv, DetectorsInv, RequestsInFlight
<1>2. UNCHANGED <<registry, raced, active, saved, unsavedChoice, forgotten>>
  BY DEF UploadChecked, Validated, DeleteChecked, ActivateFinds, Builds, Closes, registry, lists,
         service, choice
<1>3. UNCHANGED <<entries, modelFiles, raced>> BY <1>2 DEF registry, lists
<1>4. CASE UploadChecked(c)
  <2>1. client[c].pc = "upload" /\ ~Found(client[c].id) /\ Step(c, "validate")
    BY <1>4 DEF UploadChecked
  <2>2. PICK new : Goes(c, new) /\ new.pc = "validate" BY <1>1, <2>1, Going
  <2>3. client[c].id \in Uploads /\ client'[c] = new /\ new.id = client[c].id
        /\ new.kind = client[c].kind
    BY <1>1, <2>1, <2>2 DEF Goes, Coherent
  <2>4. entries[client[c].id] = 0 BY <2>1, <2>3 DEF Found, RegistryInv
  <2>5. Knows(c)' BY <1>3, <2>2, <2>3, <2>4 DEF Knows
  <2>6. Busy(c) /\ Coherent(new) /\ new.pc \notin ActivePlaces
    BY <1>1, <2>1, <2>2, <2>3 DEF Busy, Coherent, ActivePlaces
  <2> QED BY <1>2, <2>1, <2>2, <2>5, <2>6, QuietRequest
<1>5. CASE Validated(c)
  <2>1. client[c].pc = "validate" /\ Step(c, "rename") BY <1>5 DEF Validated
  <2>2. PICK new : Goes(c, new) /\ new.pc = "rename" BY <1>1, <2>1, Going
  <2>3. client'[c] = new /\ new.id = client[c].id /\ new.kind = client[c].kind
    BY <2>2 DEF Goes
  <2>4. Knows(c)' BY <1>1, <1>3, <2>1, <2>2, <2>3 DEF Knows
  <2>5. Busy(c) /\ Coherent(new) /\ new.pc \notin ActivePlaces
    BY <1>1, <2>1, <2>2, <2>3 DEF Busy, Coherent, ActivePlaces
  <2> QED BY <1>2, <2>1, <2>2, <2>4, <2>5, QuietRequest
<1>6. CASE DeleteChecked(c)
  <2>1. client[c].pc = "delete" /\ active # client[c].id /\ client[c].id # Builtin
        /\ Step(c, "remove")
    BY <1>6 DEF DeleteChecked
  <2>2. PICK new : Goes(c, new) /\ new.pc = "remove" BY <1>1, <2>1, Going
  <2>3. client'[c] = new /\ new.id = client[c].id /\ new.kind = client[c].kind
    BY <2>2 DEF Goes
  <2>4. Knows(c)' BY <1>1, <1>3, <2>2, <2>3 DEF Knows
  <2>5. Busy(c) /\ Coherent(new) /\ new.pc \notin ActivePlaces
    BY <1>1, <2>1, <2>2, <2>3 DEF Busy, Coherent, ActivePlaces, Ids
  <2>6. client[c].id = saved => unsavedChoice \/ forgotten \/ saved \in raced
    <3> SUFFICES ASSUME client[c].id = saved, ~unsavedChoice, ~forgotten, saved \notin raced
                 PROVE  FALSE
      OBVIOUS
    <3>1. PICK d \in Clients : client[d].pc \in {"close", "persist"} BY <1>1, <2>1 DEF LastChosen
    <3>2. d # c /\ Activates(d) /\ Busy(c) BY <2>1, <3>1 DEF Activates, ActivePlaces, Busy
    <3> QED BY <1>1, <3>2 DEF Overlaps
  <2> QED BY <1>2, <2>1, <2>2, <2>4, <2>5, <2>6, QuietRequest
<1>7. CASE ActivateFinds(c)
  <2>1. client[c].pc = "activate" /\ Found(client[c].id) /\ Step(c, "build")
    BY <1>7 DEF ActivateFinds
  <2>2. PICK new : Goes(c, new) /\ new.pc = "build" BY <1>1, <2>1, Going
  <2>3. client'[c] = new /\ new.id = client[c].id /\ new.kind = client[c].kind
    BY <2>2 DEF Goes
  <2>4. Knows(c)'
    <3>1. client[c].id \in raced \union {Builtin} \/ entries[client[c].id] = 1
      <4>1. CASE client[c].id = Builtin BY <4>1
      <4>2. CASE client[c].id # Builtin
        <5>1. client[c].id \in Uploads /\ entries[client[c].id] > 0
          BY <1>1, <2>1, <4>2 DEF Ids, Found
        <5>2. EntrySound(client[c].id) BY <1>1, <5>1
        <5> QED BY <5>1, <5>2 DEF EntrySound
      <4> QED BY <4>1, <4>2
    <3> QED BY <1>3, <2>2, <2>3, <3>1 DEF Knows
  <2>5. Busy(c) /\ Coherent(new) /\ Activates(c)
    BY <1>1, <2>1, <2>2, <2>3 DEF Busy, Coherent, ActivePlaces, Activates
  <2> QED BY <1>2, <2>1, <2>2, <2>4, <2>5, QuietRequest
<1>8. CASE Builds(c)
  <2>1. client[c].pc = "build" BY <1>8 DEF Builds
  <2>2. CASE Answered(c) BY <1>2, <2>1, <2>2, AnswerKeeps DEF Busy
  <2>3. CASE ~Answered(c)
    <3>1. client' = [client EXCEPT ![c].pc = "swap", ![c].det = built'] BY <1>8, <2>3 DEF Builds
    <3>2. PICK new : Goes(c, new) /\ new.pc = "swap" BY <1>1, <3>1, Going
    <3>3. client'[c] = new /\ new.id = client[c].id /\ new.kind = client[c].kind
      BY <3>2 DEF Goes
    <3>4. Knows(c)' BY <1>1, <1>3, <2>1, <3>2, <3>3 DEF Knows
    <3>5. Busy(c) /\ Coherent(new) /\ Activates(c)
      BY <1>1, <2>1, <3>2, <3>3 DEF Busy, Coherent, ActivePlaces, Activates
    <3> QED BY <1>2, <2>1, <3>2, <3>4, <3>5, QuietRequest
  <2> QED BY <2>2, <2>3
<1>9. CASE Closes(c)
  <2>1. client[c].pc = "close" /\ client' = [client EXCEPT ![c].pc = "persist", ![c].det = 0]
    BY <1>9 DEF Closes
  <2>2. PICK new : Goes(c, new) /\ new.pc = "persist" BY <1>1, <2>1, Going
  <2>3. client'[c] = new /\ new.id = client[c].id /\ new.kind = client[c].kind
    BY <2>2 DEF Goes
  <2>4. Knows(c)' BY <1>1, <1>3, <2>1, <2>2, <2>3 DEF Knows
  <2>5. Busy(c) /\ Coherent(new) /\ Activates(c)
    BY <1>1, <2>1, <2>2, <2>3 DEF Busy, Coherent, ActivePlaces, Activates
  <2> QED BY <1>2, <2>1, <2>2, <2>4, <2>5, QuietRequest
<1> QED BY <1>4, <1>5, <1>6, <1>7, <1>8, <1>9

(* The steps that change the registry. *)
LEMMA RegistryChanges ==
  ASSUME RegistryInv, DetectorsInv', NEW c \in Clients,
         Renamed(c) \/ Registered(c) \/ RemoveUploaded(c) \/ Unlinked(c)
  PROVE  RegistryInv'
<1>1. PICK id \in Uploads : id = client[c].id
  <2>1. client[c].pc \in {"rename", "register", "remove", "unlink"}
    BY DEF Renamed, Registered, RemoveUploaded, Unlinked
  <2> QED BY <2>1 DEF RegistryInv, Coherent
<1>2. /\ DetectorsInv /\ Coherent(client[c]) /\ Knows(c) /\ EntrySound(id) /\ SavedFound /\ LastChosen
      /\ entries \in [Uploads -> Nat] /\ manifest \in [Uploads -> Nat]
      /\ id \in Ids /\ id # Builtin
  BY ModelsAssumption DEF RegistryInv, Ids
<1>3. UNCHANGED <<raced, active, saved, unsavedChoice, forgotten>>
  BY DEF Renamed, Registered, RemoveUploaded, Unlinked, lists, service, choice
<1>4. CASE Renamed(c)
  <2>1. client[c].pc = "rename" /\ UNCHANGED <<entries, manifest, torn>> /\ UNCHANGED lists
        /\ \A i \in Uploads : Listed(i)
    BY <1>4 DEF Renamed, lists, Listed
  <2>2. CASE Answered(c) /\ UNCHANGED modelFiles
    BY <1>3, <2>1, <2>2, AnswerKeeps DEF Busy, registry
  <2>3. CASE modelFiles' = modelFiles \union {id} /\ Step(c, "register")
    <3>1. PICK new : Goes(c, new) /\ new.pc = "register" BY <1>2, <2>3, Going
    <3>2. client'[c] = new /\ new.id = id /\ new.kind = client[c].kind BY <1>1, <3>1 DEF Goes
    <3>3. Knows(c)' BY <1>1, <1>2, <1>3, <2>1, <2>3, <3>1, <3>2 DEF Knows
    <3>4. Busy(c) /\ Coherent(new) /\ new.pc \notin ActivePlaces
      BY <1>2, <2>1, <3>1, <3>2 DEF Busy, Coherent, ActivePlaces
    <3>5. EntrySound(id)' BY <1>2, <1>3, <2>1, <2>3 DEF EntrySound
    <3>6. SavedFound' BY <1>2, <1>3, <2>1 DEF SavedFound
    <3> QED BY <1>1, <1>2, <1>3, <2>1, <2>3, <3>1, <3>3, <3>4, <3>5, <3>6, RequestSteps
  <2> QED BY <1>1, <1>4, <2>2, <2>3 DEF Renamed
<1>5. CASE Registered(c)
  <2>1. client[c].pc = "register" /\ Answered(c) BY <1>5 DEF Registered
  <2>2. PICK new : Goes(c, new) /\ new.pc = "idle" BY <1>2, <2>1, Going
  <2>3. client'[c].pc = "idle" BY <2>2 DEF Goes
  <2>4. Knows(c)' BY <2>3 DEF Knows
  <2>5. Busy(c) /\ Coherent(new) /\ new.pc \notin ActivePlaces
    BY <2>1, <2>2 DEF Busy, Coherent, ActivePlaces
  <2>6. id \in raced \/ (entries[id] = 0 /\ id \in modelFiles) BY <1>1, <1>2, <2>1 DEF Knows
  <2> DEFINE added == [entries EXCEPT ![id] = @ + 1]
  <2>7. CASE ManifestWritten(added) /\ entries' = added /\ UNCHANGED modelFiles
    <3>1. /\ entries' \in [Uploads -> Nat] /\ entries'[id] = entries[id] + 1
          /\ manifest' = entries'
          /\ \A i \in Uploads \ {id} : entries'[i] = entries[i] /\ Listed(i)
      BY <1>2, <2>7 DEF ManifestWritten, Listed
    <3>2. EntrySound(id)' BY <1>3, <2>6, <2>7, <3>1 DEF EntrySound
    <3>3. id = saved => SavedFound' BY <1>3, <2>6, <3>1 DEF SavedFound
    <3> QED BY <1>1, <1>2, <1>3, <2>1, <2>2, <2>4, <2>5, <2>7, <3>1, <3>2, <3>3, RequestSteps
  <2>8. CASE ManifestFails(added) /\ modelFiles' = modelFiles \ {id} /\ UNCHANGED entries
    <3>1. /\ added \in [Uploads -> Nat] /\ added[id] = entries[id] + 1
          /\ \A i \in Uploads \ {id} : added[i] = entries[i]
      BY <1>2
    <3> HIDE DEF added
    <3>2. /\ manifest' \in [Uploads -> Nat]
          /\ \A i \in Uploads : \/ manifest'[i] = manifest[i] /\ torn' = torn
                                \/ manifest'[i] = added[i]
                                \/ manifest'[i] = 0 /\ torn'
      BY <1>2, <2>8, <3>1, ManifestWrites
    <3>3. \A i \in Uploads \ {id} :
              entries'[i] = entries[i] /\ Listed(i) /\ (i \in modelFiles => i \in modelFiles')
      BY <2>8, <3>1, <3>2 DEF Listed
    <3>4. id \in raced \/ (entries'[id] = 0 /\ manifest'[id] \in {0, 1})
      BY <1>2, <2>6, <2>8, <3>1, <3>2 DEF EntrySound
    <3>5. EntrySound(id)' BY <1>3, <3>4 DEF EntrySound
    <3>6. SavedFound' BY <1>2, <1>3, <2>8 DEF SavedFound
    <3>7. entries' \in [Uploads -> Nat] BY <1>2, <2>8
    <3> QED BY <1>1, <1>2, <1>3, <2>1, <2>2, <2>4, <2>5, <3>2, <3>3, <3>5, <3>6, <3>7, RequestSteps
  <2> QED BY <1>1, <1>5, <2>7, <2>8 DEF Registered
<1>6. CASE RemoveUploaded(c)
  <2>1. /\ client[c].pc = "remove" /\ Found(id) /\ Step(c, "unlink")
        /\ entries' = [entries EXCEPT ![id] = @ - 1]
        /\ ManifestWritten(entries') \/ ManifestFails(entries')
        /\ UNCHANGED modelFiles
    BY <1>1, <1>6 DEF RemoveUploaded
  <2>2. PICK new : Goes(c, new) /\ new.pc = "unlink" BY <1>2, <2>1, Going
  <2>3. client'[c] = new /\ new.id = id /\ new.kind = client[c].kind BY <1>1, <2>2 DEF Goes
  <2>4. entries[id] > 0 BY <1>2, <2>1 DEF Found
  <2>5. /\ entries' \in [Uploads -> Nat] /\ entries'[id] = entries[id] - 1
        /\ \A i \in Uploads \ {id} : entries'[i] = entries[i]
    BY <1>2, <2>1, <2>4
  <2>6. /\ manifest' \in [Uploads -> Nat] /\ manifest'[id] \in {0, manifest[id], entries[id] - 1}
        /\ \A i \in Uploads \ {id} : Listed(i)
    <3>1. PICK list \in [Uploads -> Nat] : list = entries' BY <2>5
    <3>2. ManifestWritten(list) \/ ManifestFails(list)
      BY <2>1, <3>1 DEF ManifestWritten, ManifestFails
    <3>3. /\ manifest' \in [Uploads -> Nat]
          /\ \A i \in Uploads : \/ manifest'[i] = manifest[i] /\ torn' = torn
                                \/ manifest'[i] = list[i]
                                \/ manifest'[i] = 0 /\ torn'
      BY <1>2, <3>2, ManifestWrites
    <3> QED BY <2>5, <3>1, <3>3 DEF Listed
  <2>7. id \in raced \/ entries'[id] = 0 BY <1>2, <2>4, <2>5 DEF EntrySound
  <2>8. Knows(c)' BY <1>3, <2>2, <2>3, <2>7 DEF Knows
  <2>9. EntrySound(id)' BY <1>2, <1>3, <2>6, <2>7, <2>4 DEF EntrySound
  <2>10. id = saved => SavedFound' BY <1>1, <1>2, <1>3, <2>1 DEF LastChosen, SavedFound
  <2>11. Busy(c) /\ Coherent(new) /\ new.pc \notin ActivePlaces
    BY <1>1, <1>2, <2>1, <2>2, <2>3 DEF Busy, Coherent, ActivePlaces
  <2> QED BY <1>1, <1>2, <1>3, <2>1, <2>2, <2>5, <2>6, <2>8, <2>9, <2>10, <2>11, RequestSteps
<1>7. CASE Unlinked(c)
  <2>1. client[c].pc = "unlink" /\ Answered(c) /\ modelFiles' = modelFiles \ {id}
        /\ UNCHANGED <<entries, manifest, torn>> /\ \A i \in Uploads : Listed(i)
    BY <1>1, <1>7 DEF Unlinked, lists, Listed
  <2>2. PICK new : Goes(c, new) /\ new.pc = "idle" BY <1>2, <2>1, Going
  <2>3. client'[c].pc = "idle" BY <2>2 DEF Goes
  <2>4. Knows(c)' BY <2>3 DEF Knows
  <2>5. Busy(c) /\ Coherent(new) /\ new.pc \notin ActivePlaces
    BY <2>1, <2>2 DEF Busy, Coherent, ActivePlaces
  <2>6. id \in raced \/ entries[id] = 0 BY <1>1, <1>2, <2>1 DEF Knows
  <2>7. EntrySound(id)' BY <1>2, <1>3, <2>1, <2>6 DEF EntrySound
  <2>8. SavedFound' BY <1>2, <1>3, <2>1 DEF SavedFound
  <2> QED BY <1>1, <1>2, <1>3, <2>1, <2>2, <2>4, <2>5, <2>7, <2>8, RequestSteps
<1> QED BY <1>4, <1>5, <1>6, <1>7

(* The detector is exchanged: the activation that does it is the only one, or
   everything it is about is raced. *)
LEMMA SwapKeepsRegistry ==
  ASSUME RegistryInv, DetectorsInv', NEW c \in Clients, Swaps(c) PROVE RegistryInv'
<1>1. PICK id \in Ids : id = client[c].id BY DEF RegistryInv, DetectorsInv, RequestsInFlight
<1>2. /\ client[c].pc = "swap" /\ active' = id
      /\ client' = [client EXCEPT ![c].pc = "close", ![c].det = slot]
      /\ UNCHANGED <<entries, manifest, torn, modelFiles, raced, saved, unsavedChoice, forgotten>>
  BY <1>1 DEF Swaps, registry, lists, choice
<1>3. PICK new : Goes(c, new) /\ new.pc = "close" BY <1>2, Going DEF RegistryInv
<1>4. /\ client'[c] = new /\ new.id = id /\ new.kind = client[c].kind
      /\ \A d \in Clients \ {c} : client'[d] = client[d]
  BY <1>1, <1>3 DEF Goes
<1>5. Activates(c) /\ Busy(c) /\ Coherent(client[c]) /\ Knows(c)
  BY <1>2 DEF Activates, ActivePlaces, Busy, RegistryInv
<1>6. Overlaps' BY <1>1, <1>2, <1>3, <1>5, OverlapsStay
<1>7. \A d \in Clients : Coherent(client[d])'
  BY <1>2, <1>3, <1>4, <1>5 DEF RegistryInv, Coherent, ActivePlaces
<1>8. Knows(c)' BY <1>1, <1>2, <1>3, <1>4, <1>5 DEF Knows
<1>9. ASSUME NEW d \in Clients \ {c} PROVE Knows(d)'
  <2>1. Knows(d) /\ client'[d] = client[d] BY <1>4 DEF RegistryInv
  <2> QED BY <1>2, <2>1 DEF Knows
<1>10. (\A i \in Uploads : EntrySound(i)') /\ SavedFound'
  BY <1>2 DEF RegistryInv, EntrySound, SavedFound
<1>11. LastChosen'
  <2>1. client'[c].pc = "close" BY <1>3, <1>4
  <2>2. ASSUME NEW d \in Clients, client'[d].pc \in {"close", "persist"}
        PROVE  active' = client'[d].id \/ client'[d].id \in raced
    <3>1. CASE d = c BY <1>2, <1>4, <3>1
    <3>2. CASE d # c
      <4>1. client'[d] = client[d] /\ Activates(d) BY <1>4, <2>2, <3>2 DEF Activates, ActivePlaces
      <4> QED BY <1>5, <3>2, <4>1 DEF RegistryInv, Overlaps
    <3> QED BY <3>1, <3>2
  <2>3. \A d \in Clients :
          client'[d].pc \in {"remove", "unlink"} /\ client'[d].id = saved =>
              unsavedChoice \/ forgotten \/ saved \in raced
    BY <1>4, <2>1 DEF RegistryInv, LastChosen
  <2> QED BY <1>2, <2>1, <2>2, <2>3 DEF LastChosen
<1>12. entries' \in [Uploads -> Nat] /\ manifest' \in [Uploads -> Nat]
  BY <1>2 DEF RegistryInv
<1> QED BY <1>6, <1>7, <1>8, <1>9, <1>10, <1>11, <1>12 DEF RegistryInv

(* What was activated is written to config.yaml, or could not be. *)
LEMMA PersistKeepsRegistry ==
  ASSUME RegistryInv, DetectorsInv', NEW c \in Clients, Persists(c) PROVE RegistryInv'
<1>1. PICK id \in Ids : id = client[c].id BY DEF RegistryInv, DetectorsInv, RequestsInFlight
<1>2. /\ client[c].pc = "persist" /\ Answered(c)
      /\ \/ saved' = id /\ unsavedChoice' = unsavedChoice
         \/ unsavedChoice' = TRUE /\ saved' = saved
      /\ UNCHANGED <<entries, manifest, torn, forgotten, modelFiles, raced, active>>
  BY <1>1 DEF Persists, registry, lists, service
<1>3. PICK new : Goes(c, new) /\ new.pc = "idle" BY <1>2, Going DEF RegistryInv
<1>4. client'[c].pc = "idle" /\ \A d \in Clients \ {c} : client'[d] = client[d]
  BY <1>3 DEF Goes
<1>5. Activates(c) /\ Busy(c) /\ Knows(c)
  BY <1>2 DEF Activates, ActivePlaces, Busy, RegistryInv
<1>6. Overlaps'
  <2>1. new.pc \notin ActivePlaces BY <1>3 DEF ActivePlaces
  <2> QED BY <1>1, <1>2, <1>3, <1>5, <2>1, OverlapsStay
<1>7. \A d \in Clients : Coherent(client[d])'
  BY <1>4 DEF RegistryInv, Coherent, ActivePlaces
<1>8. \A d \in Clients : Knows(d)' BY <1>2, <1>4 DEF RegistryInv, Knows
<1>9. \A i \in Uploads : EntrySound(i)' BY <1>2 DEF RegistryInv, EntrySound
<1>10. SavedFound'
  <2>1. CASE unsavedChoice' = TRUE BY <2>1 DEF SavedFound
  <2>2. CASE saved' = id
    <3>1. id \in raced \union {Builtin} \/ entries[id] = 1 BY <1>1, <1>2, <1>5 DEF Knows
    <3> QED BY <1>2, <2>2, <3>1 DEF SavedFound
  <2> QED BY <1>2, <2>1, <2>2
<1>11. LastChosen'
  <2>1. CASE saved' = id /\ unsavedChoice' = unsavedChoice
    <3>1. active = id \/ id \in raced BY <1>1, <1>2 DEF RegistryInv, LastChosen
    <3>2. \A d \in Clients :
            client'[d].pc \in {"close", "persist"} => active = client'[d].id \/ client'[d].id \in raced
      BY <1>4 DEF RegistryInv, LastChosen
    <3>3. ASSUME NEW d \in Clients, client'[d].pc \in {"remove", "unlink"}, client'[d].id = id
          PROVE  id \in raced
      <4>1. d # c /\ client'[d] = client[d] /\ Busy(d) BY <1>4, <3>3 DEF Busy
      <4> QED BY <1>1, <1>5, <3>3, <4>1 DEF RegistryInv, Overlaps
    <3> QED BY <1>2, <2>1, <3>1, <3>2, <3>3 DEF LastChosen
  <2>2. CASE unsavedChoice' = TRUE /\ saved' = saved
    <3>1. \A d \in Clients :
            client'[d].pc \in {"close", "persist"} => active = client'[d].id \/ client'[d].id \in raced
      BY <1>4 DEF RegistryInv, LastChosen
    <3> QED BY <1>2, <2>2, <3>1 DEF LastChosen
  <2> QED BY <1>2, <2>1, <2>2
<1>12. entries' \in [Uploads -> Nat] /\ manifest' \in [Uploads -> Nat]
  BY <1>2 DEF RegistryInv
<1> QED BY <1>6, <1>7, <1>8, <1>9, <1>10, <1>11, <1>12 DEF RegistryInv

(* A request begins: what it and another one are both about is raced from now on. *)
LEMMA BeginKeepsRegistry ==
  ASSUME RegistryInv, DetectorsInv', NEW c \in Clients,
         NEW kind \in {"upload", "delete", "activate"}, NEW id \in Ids, BeginRequest(c, kind, id)
  PROVE  RegistryInv'
<1> DEFINE new == [kind |-> kind, id |-> id, pc |-> kind, det |-> 0]
<1>1. /\ client[c].pc = "idle" /\ (kind = "upload" => id # Builtin)
      /\ client' = [client EXCEPT ![c] = new]
      /\ UNCHANGED <<entries, manifest, torn, modelFiles, active, saved, unsavedChoice, forgotten>>
  BY DEF BeginRequest, registry, lists, service, choice
<1>2. client \in [Clients -> RequestsInFlight] BY DEF RegistryInv, DetectorsInv
<1>3. new.kind = kind /\ new.id = id /\ new.pc = kind OBVIOUS
<1> HIDE DEF new
<1>4. client'[c] = new /\ \A d \in Clients \ {c} : client'[d] = client[d] BY <1>1, <1>2
<1>5. /\ raced \subseteq raced'
      /\ About(kind, id) \intersect InProgress # {} =>
             About(kind, id) \union InProgress \subseteq raced'
  BY DEF BeginRequest
<1>6. id \in About(kind, id) /\ (kind = "activate" => {active, saved} \subseteq About(kind, id))
  BY DEF About
<1>7. ASSUME NEW d \in Clients, Busy(d)
      PROVE  /\ client[d].id \in InProgress
             /\ Activates(d) => {active, saved} \subseteq InProgress
  <2>1. \A i \in About(client[d].kind, client[d].id) : i \in InProgress
    BY <1>7 DEF InProgress, Busy
  <2>2. client[d].id \in About(client[d].kind, client[d].id) BY DEF About
  <2>3. Activates(d) => client[d].kind = "activate"
    BY <1>7 DEF Activates, Busy, RegistryInv, Coherent
  <2>4. Activates(d) => {active, saved} \subseteq About(client[d].kind, client[d].id)
    BY <2>3 DEF About
  <2> QED BY <2>1, <2>2, <2>4
<1>8. /\ Busy(c)' /\ ~Busy(c) /\ (Activates(c)' <=> kind = "activate")
      /\ \A d \in Clients \ {c} : /\ Busy(d)' <=> Busy(d)
                                  /\ Activates(d)' <=> Activates(d)
                                  /\ Activates(d) => Busy(d)
  BY <1>1, <1>3, <1>4 DEF Busy, Activates, ActivePlaces
<1>9. ASSUME NEW d \in Clients \ {c}, Busy(d)
      PROVE  /\ client[d].id = id => id \in raced'
             /\ kind = "activate" /\ client[d].id \in {active, saved} => client[d].id \in raced'
             /\ Activates(d) /\ id \in {active, saved} => id \in raced'
             /\ kind = "activate" /\ Activates(d) =>
                    {id, client[d].id, active, saved} \subseteq raced'
  BY <1>5, <1>6, <1>7, <1>9
<1>10. Overlaps'
  <2>1. ASSUME NEW d \in Clients, NEW e \in Clients, d # e, Busy(d)', Busy(e)',
               client'[d].id = client'[e].id
        PROVE  client'[d].id \in raced'
    <3>1. CASE d = c BY <1>3, <1>4, <1>8, <1>9, <2>1, <3>1
    <3>2. CASE e = c BY <1>3, <1>4, <1>8, <1>9, <2>1, <3>2
    <3>3. CASE d # c /\ e # c BY <1>4, <1>5, <1>8, <2>1, <3>3 DEF RegistryInv, Overlaps
    <3> QED BY <3>1, <3>2, <3>3
  <2>2. ASSUME NEW d \in Clients, NEW e \in Clients, d # e, Activates(d)', Busy(e)',
               client'[e].id \in {active, saved}
        PROVE  client'[e].id \in raced'
    <3>1. CASE d = c BY <1>4, <1>8, <1>9, <2>2, <3>1
    <3>2. CASE e = c BY <1>3, <1>4, <1>8, <1>9, <2>2, <3>2
    <3>3. CASE d # c /\ e # c BY <1>4, <1>5, <1>8, <2>2, <3>3 DEF RegistryInv, Overlaps
    <3> QED BY <3>1, <3>2, <3>3
  <2>3. ASSUME NEW d \in Clients, NEW e \in Clients, d # e, Activates(d)', Activates(e)'
        PROVE  {client'[d].id, client'[e].id, active, saved} \subseteq raced'
    <3>1. CASE d = c BY <1>3, <1>4, <1>8, <1>9, <2>3, <3>1
    <3>2. CASE e = c BY <1>3, <1>4, <1>8, <1>9, <2>3, <3>2
    <3>3. CASE d # c /\ e # c
      <4>1. {client[d].id, client[e].id, active, saved} \subseteq raced
        BY <1>8, <2>3, <3>3 DEF RegistryInv, Overlaps
      <4> QED BY <1>4, <1>5, <3>3, <4>1
    <3> QED BY <3>1, <3>2, <3>3
  <2> QED BY <1>1, <2>1, <2>2, <2>3 DEF Overlaps
<1>11. \A d \in Clients : Coherent(client[d])'
  <2>1. Coherent(new) BY <1>1, <1>3 DEF Coherent, ActivePlaces, Ids
  <2> QED BY <1>4, <2>1 DEF RegistryInv, Coherent
<1>12. Knows(c)' BY <1>3, <1>4 DEF Knows
<1>13. \A d \in Clients \ {c} : Knows(d)' BY <1>1, <1>4, <1>5 DEF RegistryInv, Knows
<1>14. (\A i \in Uploads : EntrySound(i)') /\ SavedFound'
  BY <1>1, <1>5 DEF RegistryInv, EntrySound, SavedFound
<1>15. LastChosen'
  <2>1. \A d \in Clients :
          client'[d].pc \in {"close", "persist", "remove", "unlink"} => client'[d] = client[d]
    BY <1>3, <1>4
  <2>2. \A d \in Clients :
          client[d].pc \in {"close", "persist"} => client'[d] = client[d]
    BY <1>1, <1>4
  <2> QED BY <1>1, <1>5, <2>1, <2>2 DEF RegistryInv, LastChosen
<1>16. entries' \in [Uploads -> Nat] /\ manifest' \in [Uploads -> Nat]
  BY <1>1 DEF RegistryInv
<1> QED BY <1>10, <1>11, <1>12, <1>13, <1>14, <1>15, <1>16 DEF RegistryInv

(* What a restart reads from the disk is as sound as what the process had. *)
LEMMA RestartKeepsRegistry ==
  ASSUME RegistryInv, DetectorsInv', Restarts PROVE RegistryInv'
<1>1. /\ UNCHANGED <<modelFiles, raced, saved, unsavedChoice>>
      /\ client' = [c \in Clients |-> NoRequest]
  BY DEF Restarts, choice
<1> PICK list \in CutShort(manifest) : InitRegistry(list, torn \/ list # manifest) BY DEF Restarts
<1>2. \A c \in Clients : client'[c].pc = "idle" BY <1>1 DEF NoRequest
<1>3. /\ list \in [Uploads -> Nat] /\ \A i \in Uploads : list[i] \in {0, manifest[i]}
      /\ list # manifest \/ torn => forgotten'
      /\ forgotten => forgotten'
  <2>1. manifest \in [Uploads -> Nat] BY DEF RegistryInv
  <2>2. list = manifest \/ list = Unreadable BY DEF CutShort
  <2>3. Unreadable \in [Uploads -> Nat] /\ \A i \in Uploads : Unreadable[i] = 0 BY DEF Unreadable
  <2>4. forgotten' = (forgotten \/ (torn \/ list # manifest)) BY Zenon DEF InitRegistry
  <2>5. (list # manifest \/ torn => forgotten') /\ (forgotten => forgotten') BY <2>4, Zenon
  <2> QED BY <2>1, <2>2, <2>3, <2>5
<1>9. /\ Kept(list) \in [Uploads -> Nat] /\ entries' = Kept(list)
      /\ \A i \in Uploads : Kept(list)[i] = IF i \in modelFiles THEN list[i] ELSE 0
  BY <1>3 DEF Kept, InitRegistry
<1>10. /\ manifest' \in [Uploads -> Nat]
       /\ \/ manifest' = Kept(list)
          \/ Kept(list) # list /\ manifest' = manifest
          \/ manifest' = Unreadable /\ torn'
  BY <1>9 DEF RegistryInv, InitRegistry, ManifestFails, Unreadable
<1>4. Overlaps' /\ \A c \in Clients : Coherent(client[c])' /\ Knows(c)'
  BY <1>2 DEF Overlaps, Coherent, Knows, Busy, Activates, ActivePlaces
<1>5. ASSUME NEW i \in Uploads PROVE EntrySound(i)'
  <2>1. EntrySound(i) BY DEF RegistryInv
  <2>2. manifest'[i] \in {Kept(list)[i], manifest[i]} \/ (manifest'[i] = 0 /\ torn')
    BY <1>10 DEF Unreadable
  <2>3. entries'[i] = 1 => i \in modelFiles /\ list[i] = 1 /\ manifest[i] = 1
    BY <1>3, <1>9
  <2> QED BY <1>1, <1>3, <1>9, <2>1, <2>2, <2>3 DEF EntrySound
<1>6. saved \in raced \union {Builtin} \/ unsavedChoice \/ forgotten' \/ entries'[saved] = 1
  <2>1. CASE saved \in Uploads /\ saved \notin raced /\ ~unsavedChoice /\ ~forgotten'
    <3>1. list = manifest /\ ~torn /\ ~forgotten BY <1>3, <2>1
    <3>2. entries[saved] = 1 \/ saved = Builtin BY <2>1, <3>1 DEF RegistryInv, SavedFound
    <3>3. saved # Builtin BY <2>1, ModelsAssumption
    <3>4. manifest[saved] = 1 /\ saved \in modelFiles
      BY <2>1, <3>1, <3>2, <3>3 DEF RegistryInv, EntrySound
    <3> QED BY <1>9, <2>1, <3>1, <3>4
  <2>2. saved \in Uploads \union {Builtin} BY DEF RegistryInv, DetectorsInv, Ids
  <2> QED BY <2>1, <2>2
<1>7. SavedFound' BY <1>1, <1>6 DEF SavedFound
<1>8. LastChosen'
  <2>1. saved \in raced \union {Builtin} \/ unsavedChoice \/ forgotten' \/ active' = saved
    BY <1>6 DEF Restarts
  <2> QED BY <1>1, <1>2, <2>1 DEF LastChosen
<1>11. entries' \in [Uploads -> Nat] BY <1>9
<1> QED BY <1>4, <1>5, <1>7, <1>8, <1>10, <1>11 DEF RegistryInv

LEMMA RegistryInvKept == RegistryInv /\ [ModelsNext]_modelVars => RegistryInv'
<1> SUFFICES ASSUME RegistryInv, [ModelsNext]_modelVars PROVE RegistryInv' OBVIOUS
<1>1. DetectorsInv' BY DetectorsInvKept DEF RegistryInv
<1>2. CASE UNCHANGED <<registry, active, client, choice, raced>>
  <2>1. /\ UNCHANGED <<entries, manifest, torn, forgotten, modelFiles>>
        /\ UNCHANGED <<active, client, raced>> /\ UNCHANGED <<saved, unsavedChoice>>
    BY <1>2 DEF registry, lists, choice
  <2>2. Overlaps' BY <2>1 DEF RegistryInv, Overlaps, Busy, Activates
  <2>3. \A c \in Clients : Coherent(client[c])' BY <2>1 DEF RegistryInv, Coherent
  <2>4. \A c \in Clients : Knows(c)' BY <2>1 DEF RegistryInv, Knows
  <2>5. (\A i \in Uploads : EntrySound(i)') /\ SavedFound'
    BY <2>1 DEF RegistryInv, EntrySound, SavedFound
  <2>6. LastChosen' BY <2>1 DEF RegistryInv, LastChosen
  <2> QED BY <1>1, <2>1, <2>2, <2>3, <2>4, <2>5, <2>6 DEF RegistryInv
<1>3. CASE UNCHANGED modelVars BY <1>2, <1>3 DEF modelVars, registry, lists, choice
<1>4. CASE LoopDetects BY <1>2, <1>4 DEF LoopDetects
<1>5. ASSUME NEW c \in Clients, Refuse(c) PROVE RegistryInv'
  <2>1. /\ Answered(c) /\ Busy(c) /\ client[c].pc \notin {"close", "persist"}
        /\ UNCHANGED <<registry, raced, active, saved, unsavedChoice, forgotten>>
    BY <1>5 DEF Refuse, Busy, registry, lists, service, choice
  <2> QED BY <1>1, <2>1, AnswerKeeps
<1> QED BY <1>1, <1>3, <1>4, <1>5, CheckedKeeps, RegistryChanges, SwapKeepsRegistry,
           PersistKeepsRegistry, BeginKeepsRegistry, RestartKeepsRegistry DEF ModelsNext

(* ModelsSound: no session is lost, every uploaded entry is there once and has
   its file, and the model in config.yaml is found, also by the next start, unless
   requests about that id overlapped, a choice could not be saved, or the last
   write of uploaded.json was cut short (registry.go: RegisterUploaded,
   RemoveUploaded, InitRegistry; api.go: the handlers). *)
THEOREM ModelsKept == ModelsSpec => []ModelsSound
<1>1. RegistryInv => RegistrySound
  <2> SUFFICES ASSUME RegistryInv PROVE RegistrySound OBVIOUS
  <2>1. \A id \in Uploads \ raced : entries[id] <= 1 /\ (entries[id] = 1 => id \in modelFiles)
    BY DEF RegistryInv, EntrySound
  <2>2. ASSUME saved # Builtin, saved \notin raced, ~(unsavedChoice \/ forgotten)
        PROVE  entries[saved] > 0 /\ (torn \/ Kept(manifest)[saved] > 0)
    <3>1. saved \in Uploads BY <2>2 DEF RegistryInv, DetectorsInv, Ids
    <3>2. entries[saved] = 1 BY <2>2 DEF RegistryInv, SavedFound
    <3>3. (torn \/ manifest[saved] = 1) /\ saved \in modelFiles
      BY <2>2, <3>1, <3>2 DEF RegistryInv, EntrySound
    <3> QED BY <3>1, <3>2, <3>3 DEF Kept
  <2> QED BY <2>1, <2>2 DEF RegistrySound
<1>2. ModelsSpec => []RegistryInv BY RegistryInit, RegistryInvKept, PTL DEF ModelsSpec
<1>3. ModelsSound <=> DetectorsReleased /\ RegistrySound BY DEF ModelsSound
<1> QED BY <1>1, <1>2, <1>3, SessionsReleased, PTL

-----------------------------------------------------------------------------
(* The login limiter *)

Since(set, start) == {f \in set : f[2] >= start}
Within(set, start, end) == {f \in set : f[2] \in start .. end /\ end - f[2] <= LoginWindow}

Entries == [count : Nat, windowStart : Nat, blockedUntil : Nat]

LimiterTypes ==
    /\ now \in Nat /\ entry \in Entries
    /\ IsFiniteSet(failures)
    /\ failures \subseteq (1 .. Cardinality(failures)) \X (0 .. now)

(* The count speaks of failures of this window, none of which a success has
   forgotten, and the block of those that made it. *)
Began == entry.blockedUntil - LoginBlock
CountIsEarned == entry.count <= Cardinality(Since(failures, entry.windowStart))
BlockIsEarned ==
    entry.blockedUntil # 0 =>
        /\ Began \in entry.windowStart .. now
        /\ Cardinality(Within(failures, entry.windowStart, Began)) >= MaxLoginAttempts

LimiterInv == LimiterTypes /\ entry.windowStart <= now /\ CountIsEarned /\ BlockIsEarned

LEMMA Counting ==
  ASSUME NEW set, IsFiniteSet(set)
  PROVE  /\ \A start : IsFiniteSet(Since(set, start)) /\ Cardinality(Since(set, start)) \in Nat
         /\ \A start, end : /\ IsFiniteSet(Within(set, start, end))
                            /\ Cardinality(Within(set, start, end)) \in Nat
         /\ Cardinality(set) \in Nat
<1>1. \A start : Since(set, start) \subseteq set BY DEF Since
<1>2. \A start, end : Within(set, start, end) \subseteq set BY DEF Within
<1> QED BY <1>1, <1>2, FS_Subset, FS_CardinalityType

(* What one more failure adds to the sets. *)
More(set, t) == set \union {<<Cardinality(set) + 1, t>>}

LEMMA OneMore ==
  ASSUME NEW set, NEW t \in Nat, IsFiniteSet(set),
         set \subseteq (1 .. Cardinality(set)) \X (0 .. t)
  PROVE  /\ IsFiniteSet(More(set, t))
         /\ More(set, t) \subseteq (1 .. Cardinality(More(set, t))) \X (0 .. t)
         /\ \A start \in 0 .. t :
               Cardinality(Since(More(set, t), start)) = Cardinality(Since(set, start)) + 1
         /\ \A start, end :
               Cardinality(Within(set, start, end)) <= Cardinality(Within(More(set, t), start, end))
<1> DEFINE new == <<Cardinality(set) + 1, t>>
           more == More(set, t)
<1>1. Cardinality(set) \in Nat BY Counting
<1>2. new \notin set
  <2>1. ASSUME new \in set PROVE FALSE
    <3>1. new \in (1 .. Cardinality(set)) \X (0 .. t) BY <2>1
    <3>2. Cardinality(set) + 1 \in 1 .. Cardinality(set) BY <3>1
    <3> QED BY <1>1, <3>2
  <2> QED BY <2>1
<1>3. new[2] = t OBVIOUS
<1>4. new \in (1 .. Cardinality(set) + 1) \X (0 .. t) BY <1>1
<1>5. more = set \union {new} BY DEF More
<1> HIDE DEF new, more
<1>6. IsFiniteSet(more) /\ Cardinality(more) = Cardinality(set) + 1
  BY <1>2, <1>5, FS_AddElement
<1>7. more \subseteq (1 .. Cardinality(more)) \X (0 .. t)
  <2>1. 1 .. Cardinality(set) \subseteq 1 .. Cardinality(more) BY <1>1, <1>6
  <2> QED BY <1>4, <1>5, <1>6, <2>1
<1>8. ASSUME NEW start \in 0 .. t
      PROVE  Cardinality(Since(more, start)) = Cardinality(Since(set, start)) + 1
  <2>1. Since(more, start) = Since(set, start) \union {new} BY <1>3, <1>5 DEF Since
  <2>2. new \notin Since(set, start) BY <1>2 DEF Since
  <2> QED BY <2>1, <2>2, Counting, FS_AddElement
<1>9. ASSUME NEW start, NEW end
      PROVE  Cardinality(Within(set, start, end)) <= Cardinality(Within(more, start, end))
  <2>1. Within(set, start, end) \subseteq Within(more, start, end) BY <1>5 DEF Within
  <2> QED BY <1>6, <2>1, Counting, FS_Subset
<1> QED BY <1>6, <1>7, <1>8, <1>9 DEF more

LEMMA FailureKeeps == ASSUME LimiterInv, RecordFailure PROVE LimiterInv'
<1>1. /\ entry.windowStart <= now /\ CountIsEarned /\ BlockIsEarned
      /\ now \in Nat /\ entry \in Entries
      /\ IsFiniteSet(failures)
      /\ failures \subseteq (1 .. Cardinality(failures)) \X (0 .. now)
  BY DEF LimiterInv, LimiterTypes
<1>2. /\ entry' = AfterFailure /\ now' = now
      /\ failures' = More(failures, now)
  BY DEF RecordFailure, More
<1>3. /\ IsFiniteSet(failures')
      /\ failures' \subseteq (1 .. Cardinality(failures')) \X (0 .. now)
      /\ \A start \in 0 .. now : Cardinality(Since(failures', start)) = Cardinality(Since(failures, start)) + 1
      /\ \A start, end : Cardinality(Within(failures, start, end)) <= Cardinality(Within(failures', start, end))
  BY <1>1, <1>2, OneMore
<1>4. /\ \A start : Cardinality(Since(failures, start)) \in Nat
      /\ \A start, end : Cardinality(Within(failures, start, end)) \in Nat
      /\ \A start, end : Cardinality(Within(failures', start, end)) \in Nat
  BY <1>1, <1>3, Counting
<1>5. {MaxLoginAttempts, LoginWindow, LoginBlock} \subseteq Nat \ {0} BY LimiterAssumption
<1>6. entry.count \in Nat /\ entry.windowStart \in 0 .. now /\ entry.blockedUntil \in Nat
  BY <1>1 DEF Entries
<1>7. ASSUME entry'.blockedUntil = entry.blockedUntil, entry'.windowStart = entry.windowStart
      PROVE  BlockIsEarned'
  BY <1>1, <1>2, <1>3, <1>4, <1>5, <1>6, <1>7 DEF BlockIsEarned, Began
<1>8. CASE entry' = First(now)
  <2>1. /\ entry'.count = 1 /\ entry'.windowStart = now /\ entry'.blockedUntil = 0
        /\ entry' \in Entries
    BY <1>1, <1>8 DEF First, Entries
  <2>2. Cardinality(Since(failures', now)) >= 1 BY <1>1, <1>3, <1>4
  <2> QED BY <1>1, <1>2, <1>3, <2>1, <2>2
          DEF LimiterInv, LimiterTypes, CountIsEarned, BlockIsEarned
<1>9. CASE entry' = entry
  <2>1. CountIsEarned' BY <1>1, <1>3, <1>4, <1>6, <1>9 DEF CountIsEarned
  <2> QED BY <1>1, <1>2, <1>3, <1>7, <1>9, <2>1 DEF LimiterInv, LimiterTypes
<1>10. ASSUME now - entry.windowStart <= LoginWindow,
              NEW until \in {entry.blockedUntil, now + LoginBlock},
              until # entry.blockedUntil => entry.count + 1 >= MaxLoginAttempts,
              entry' = [entry EXCEPT !.count = @ + 1, !.blockedUntil = until]
       PROVE  LimiterInv'
  <2>1. entry'.count = entry.count + 1 /\ entry'.windowStart = entry.windowStart
        /\ entry'.blockedUntil = until
    BY <1>1, <1>10 DEF Entries
  <2>2. entry' \in Entries
    <3>1. entry.count + 1 \in Nat /\ until \in Nat BY <1>1, <1>5, <1>6
    <3> QED BY <1>1, <1>10, <3>1 DEF Entries
  <2>3. Cardinality(Since(failures', entry.windowStart)) >= entry.count + 1
    BY <1>1, <1>3, <1>4, <1>6 DEF CountIsEarned
  <2>4. CountIsEarned' BY <2>1, <2>3 DEF CountIsEarned
  <2>5. BlockIsEarned'
    <3>1. CASE until = entry.blockedUntil BY <1>7, <2>1, <3>1
    <3>2. CASE until # entry.blockedUntil
      <4>1. Began' = now BY <1>1, <1>5, <1>10, <2>1, <3>2 DEF Began
      <4>2. \A f \in failures' : f[2] \in 0 .. now BY <1>3
      <4>3. Within(failures', entry.windowStart, now) = Since(failures', entry.windowStart)
        BY <1>1, <1>5, <1>6, <1>10, <4>2 DEF Within, Since
      <4>4. Cardinality(Within(failures', entry.windowStart, now)) >= MaxLoginAttempts
        BY <1>4, <1>5, <1>6, <1>10, <2>3, <3>2, <4>3
      <4>5. Began' \in entry'.windowStart .. now' BY <1>1, <1>2, <1>6, <2>1, <4>1
      <4>6. Cardinality(Within(failures', entry'.windowStart, Began')) >= MaxLoginAttempts
        BY <2>1, <4>1, <4>4
      <4> QED BY <4>5, <4>6 DEF BlockIsEarned
    <3> QED BY <3>1, <3>2
  <2> QED BY <1>1, <1>2, <1>3, <2>1, <2>2, <2>4, <2>5 DEF LimiterInv, LimiterTypes
<1>11. \/ entry' = First(now)
       \/ entry' = entry
       \/ /\ now - entry.windowStart <= LoginWindow
          /\ entry' = [entry EXCEPT !.count = @ + 1,
                                    !.blockedUntil = IF entry.count + 1 >= MaxLoginAttempts
                                                     THEN now + LoginBlock ELSE @]
  BY <1>1, <1>2, <1>5, <1>6 DEF AfterFailure
<1> QED BY <1>8, <1>9, <1>10, <1>11

LEMMA LimiterKeeps == ASSUME LimiterInv, [LimiterNext]_limiterVars PROVE LimiterInv'
<1>1. /\ now \in Nat /\ entry \in Entries
      /\ IsFiniteSet(failures)
      /\ failures \subseteq (1 .. Cardinality(failures)) \X (0 .. now)
      /\ entry.windowStart \in Nat
  BY DEF LimiterInv, LimiterTypes, Entries
<1>2. CASE entry' = entry /\ failures' = failures /\ now' \in {now, now + 1}
  <2>1. LimiterTypes'
    <3>1. 0 .. now \subseteq 0 .. now' BY <1>1, <1>2
    <3> QED BY <1>1, <1>2, <3>1 DEF LimiterTypes
  <2>2. BlockIsEarned' BY <1>1, <1>2 DEF LimiterInv, BlockIsEarned, Began
  <2> QED BY <1>1, <1>2, <2>1, <2>2 DEF LimiterInv, CountIsEarned
<1>3. CASE entry' = NoEntry /\ failures' \in {failures, {}} /\ now' = now
  <2>1. IsFiniteSet(failures') /\ failures' \subseteq (1 .. Cardinality(failures')) \X (0 .. now)
    BY <1>1, <1>3, FS_EmptySet
  <2>2. entry' \in Entries BY <1>3 DEF NoEntry, Entries
  <2>3. Cardinality(Since(failures', 0)) \in Nat BY <2>1, Counting
  <2> QED BY <1>1, <1>3, <2>1, <2>2, <2>3
          DEF LimiterInv, LimiterTypes, CountIsEarned, BlockIsEarned, NoEntry
<1>4. CASE Allow BY <1>2, <1>3, <1>4 DEF Allow
<1>5. CASE RecordFailure BY <1>5, FailureKeeps
<1>6. CASE RecordSuccess BY <1>3, <1>6 DEF RecordSuccess
<1>7. CASE Tick BY <1>2, <1>7 DEF Tick
<1>8. CASE UNCHANGED limiterVars BY <1>2, <1>8 DEF limiterVars
<1> QED BY <1>4, <1>5, <1>6, <1>7, <1>8 DEF LimiterNext

(* LockoutsEarned: for any limits, and however attempts overlap, an address is
   locked out only after maxLoginAttempts failures within one window, with no
   success since (loginRateLimiter, auth.go). *)
THEOREM LockoutsAreEarned == LimiterSpec => []LockoutsEarned
<1>1. LimiterInit => LimiterInv
  <2> SUFFICES ASSUME LimiterInit PROVE LimiterInv OBVIOUS
  <2>1. LimiterTypes BY FS_EmptySet DEF LimiterInit, LimiterTypes, NoEntry, Entries
  <2>2. Cardinality(Since(failures, entry.windowStart)) \in Nat BY <2>1, Counting DEF LimiterTypes
  <2> QED BY <2>1, <2>2 DEF LimiterInit, LimiterInv, CountIsEarned, BlockIsEarned, NoEntry
<1>2. LimiterInv => LockoutsEarned
  <2> SUFFICES ASSUME LimiterInv, Blocked
               PROVE  Cardinality(Within(failures, entry.windowStart, Began)) >= MaxLoginAttempts
    BY DEF LockoutsEarned, Within, Began
  <2>1. entry.blockedUntil # 0 BY DEF LimiterInv, LimiterTypes, Entries, Blocked
  <2> QED BY <2>1 DEF LimiterInv, BlockIsEarned
<1>3. LimiterInv /\ [LimiterNext]_limiterVars => LimiterInv' BY LimiterKeeps
<1> QED BY <1>1, <1>2, <1>3, PTL DEF LimiterSpec

-----------------------------------------------------------------------------
(* The composition *)

LEMMA PartsOfServices ==
  [Next]_vars => /\ [WebNext]_webVars /\ [LimiterNext]_limiterVars
                 /\ [ModelsNext]_modelVars /\ [DetectionNext]_detectionVars
<1> SUFFICES ASSUME [Next]_vars
             PROVE  /\ [WebNext]_webVars /\ [LimiterNext]_limiterVars
                    /\ [ModelsNext]_modelVars /\ [DetectionNext]_detectionVars
  OBVIOUS
<1>1. CASE UNCHANGED vars BY <1>1 DEF vars
<1>2. CASE WebStep BY <1>2 DEF WebStep
<1>3. CASE LimiterStep BY <1>3 DEF LimiterStep
<1>4. CASE ModelsStep BY <1>4 DEF ModelsStep
<1>5. CASE DetectionStep BY <1>5 DEF DetectionStep
<1> QED BY <1>1, <1>2, <1>3, <1>4, <1>5 DEF Next

(* The same of the specification that the run Services explores. *)
THEOREM ServicesSound ==
  Spec => [](/\ GeometryAnnounced /\ SavedIsRunning /\ SessionsAsPromised
             /\ LockoutsEarned /\ ModelsSound /\ DecoderLeavesNothing
             /\ EdgesReachBridge)
<1>1. Init => WebInit /\ LimiterInit /\ ModelsInit /\ DetectionInit BY DEF Init
<1>2. [Next]_vars => /\ [WebNext]_webVars /\ [LimiterNext]_limiterVars
                     /\ [ModelsNext]_modelVars /\ [DetectionNext]_detectionVars
  BY PartsOfServices
<1>3. Spec => WebSpec /\ LimiterSpec /\ ModelsSpec /\ DetectionSpec
  BY <1>1, <1>2, PTL DEF Spec, WebSpec, LimiterSpec, ModelsSpec, DetectionSpec
<1> QED BY <1>3, GeometryKept, ConfigKept, SessionsKept, LockoutsAreEarned, ModelsKept,
           NothingLeft, EdgesCounted, PTL

=============================================================================
