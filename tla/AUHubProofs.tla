----------------------------- MODULE AUHubProofs -----------------------------
(***************************************************************************)
(* Proofs about the hub, for any number of subscriptions and access units, *)
(* any channel capacity and any set of counters without an ID of their own.*)
(***************************************************************************)
EXTENDS AUHubChannels, FiniteSetTheorems, SequenceTheorems, TLAPS

(* A map entry holds a subscription made, under the ID of that subscription:
   a handle is registered under one ID at most. *)
EntriesAreTheirOwn ==
    \A id \in Ids : subscribers[id] # 0 =>
        /\ subscribers[id] <= nextID
        /\ IdOf(subscribers[id]) = id

OnlySubscribedUsed ==
    /\ closed \subseteq Subscribed
    /\ watching \subseteq Subscribed
    /\ ended \subseteq Subscribed
    /\ \A h \in Handles : h > nextID =>
          chan[h] = <<>> /\ taken[h] = 0 /\ dropped[h] = 0

(* Queued numbers grow, lie past the last one taken and were written. *)
NumbersInOrder ==
    \A h \in Handles :
        /\ latest[h] <= written
        /\ \A i \in 1 .. Len(chan[h]) : latest[h] < chan[h][i] /\ chan[h][i] <= written
        /\ \A i, j \in 1 .. Len(chan[h]) : i < j => chan[h][i] < chan[h][j]

IInv ==
    /\ TypeOK
    /\ EntriesAreTheirOwn
    /\ OnlySubscribedUsed
    /\ NumbersInOrder
    /\ RegisteredChannelsOpen
    /\ EveryUnitAccountedFor

(* Taking the first element of a queue keeps the order of the others. *)
LEMMA TakenUnit ==
    ASSUME NEW S, NEW q \in Seq(S), q # <<>>
    PROVE  /\ Len(q) \in Nat \ {0}
           /\ Head(q) = q[1] /\ Head(q) \in S
           /\ Tail(q) \in Seq(S)
           /\ Len(Tail(q)) = Len(q) - 1
           /\ \A i \in 1 .. Len(Tail(q)) : i + 1 \in 1 .. Len(q) /\ Tail(q)[i] = q[i + 1]
  <1>1. Len(q) \in Nat \ {0}
    BY EmptySeq
  <1>2. Head(q) = q[1]
    OBVIOUS
  <1> QED
    BY <1>1, <1>2, HeadTailProperties

(* Every subscription has an ID the map may hold. *)
LEMMA IdsOfHandles == \A h \in Handles : IdOf(h) \in Ids
  BY DEF Ids

(* The subscriptions are finitely many, so that losses can be counted. *)
LEMMA HandlesFinite == IsFiniteSet(Handles)
  BY FS_Interval, BoundsAssumption DEF Handles

-----------------------------------------------------------------------------
(* The type invariant. *)

(* A new hub has no subscriber and empty counters. *)
LEMMA InitType == Init => TypeOK
  BY BoundsAssumption, CapacityAssumption DEF Init, TypeOK, Handles

(* A map entry is absent or a subscription. *)
LEMMA EntryTypes ==
    ASSUME TypeOK, NEW h \in Handles
    PROVE  /\ subscribers[IdOf(h)] \in 0 .. MaxSubs
           /\ subscribers[IdOf(h)] # 0 => subscribers[IdOf(h)] \in Handles
  BY BoundsAssumption, IdsOfHandles DEF TypeOK, Handles

(* What Write adds to the hub's own drop counter is a number. *)
LEMMA FullCount ==
    ASSUME TypeOK
    PROVE  Cardinality({h \in Registered : ~HasRoom(h)}) \in Nat
  <1>1. {h \in Registered : ~HasRoom(h)} \subseteq Handles
    BY DEF Registered
  <1>2. IsFiniteSet({h \in Registered : ~HasRoom(h)})
    BY <1>1, HandlesFinite, FS_Subset
  <1> QED
    BY <1>2, FS_CardinalityType

(* Each of Unsubscribe and Watch is a Remove. *)
LEMMA RemoveType ==
    ASSUME TypeOK, NEW h \in Handles, Remove(IdOf(h))
    PROVE  /\ nextID' \in 0 .. MaxSubs
           /\ subscribers' \in [Ids -> 0 .. MaxSubs]
           /\ closed' \subseteq Handles
           /\ cancelling' \subseteq Handles
  <1>1. subscribers' \in [Ids -> 0 .. MaxSubs]
    <2>1. subscribers' = [subscribers EXCEPT ![IdOf(h)] = 0]
      BY DEF Remove
    <2>2. 0 \in 0 .. MaxSubs
      BY BoundsAssumption
    <2> QED
      BY <2>1, <2>2 DEF TypeOK
  <1>2. closed' \subseteq Handles /\ cancelling' \subseteq Handles
    <2>1. CASE subscribers[IdOf(h)] = 0
      BY <2>1 DEF Remove, TypeOK
    <2>2. CASE subscribers[IdOf(h)] # 0
      <3>1. subscribers[IdOf(h)] \in Handles
        BY <2>2, EntryTypes
      <3> QED
        BY <2>2, <3>1 DEF Remove, TypeOK
    <2> QED
      BY <2>1, <2>2
  <1> QED
    BY <1>1, <1>2 DEF Remove, TypeOK

(* No operation of the hub leaves the types: a send is made only when the
   channel has room, a receive shortens it. *)
LEMMA NextType == TypeOK /\ [Next]_hubVars => TypeOK'
  <1> SUFFICES ASSUME TypeOK, [Next]_hubVars PROVE TypeOK'
    OBVIOUS
  <1>1. CASE Subscribe
    <2> DEFINE n == nextID + 1
    <2>1. n \in Handles /\ n \in 0 .. MaxSubs
      BY <1>1, BoundsAssumption DEF Subscribe, Handles
    <2>2. nextID' \in 0 .. MaxSubs /\ subscribers' \in [Ids -> 0 .. MaxSubs]
      BY <1>1, <2>1 DEF Subscribe, TypeOK
    <2>3. watching' \subseteq Handles
      BY <1>1, <2>1 DEF Subscribe, TypeOK
    <2>4. base' \in [Handles -> 0 .. MaxAUs] /\ latest' \in [Handles -> 0 .. MaxAUs]
      BY <1>1, <2>1 DEF Subscribe, TypeOK
    <2> QED
      BY <1>1, <2>2, <2>3, <2>4 DEF Subscribe, TypeOK
  <1>2. CASE Write
    <2>1. droppedAUs' \in Nat
      BY <1>2, FullCount DEF Write, TypeOK
    <2>2. written' \in 0 .. MaxAUs /\ written' \in 1 .. MaxAUs
      BY <1>2, BoundsAssumption DEF Write, TypeOK
    <2>3. \A h \in Handles : chan'[h] \in Seq(1 .. MaxAUs) /\ Len(chan'[h]) <= Capacity
      <3> SUFFICES ASSUME NEW h \in Handles
                   PROVE chan'[h] \in Seq(1 .. MaxAUs) /\ Len(chan'[h]) <= Capacity
        OBVIOUS
      <3>1. chan'[h] = chan[h] \/ (HasRoom(h) /\ chan'[h] = Append(chan[h], written'))
        BY <1>2 DEF Write
      <3>2. chan[h] \in Seq(1 .. MaxAUs) /\ Len(chan[h]) <= Capacity
        BY DEF TypeOK
      <3>3. /\ Append(chan[h], written') \in Seq(1 .. MaxAUs)
            /\ Len(Append(chan[h], written')) = Len(chan[h]) + 1
        BY <3>2, <2>2, AppendProperties
      <3>4. Len(chan[h]) \in Nat
        BY <3>2, LenProperties
      <3>5. CASE chan'[h] = chan[h]
        BY <3>2, <3>5
      <3>6. CASE HasRoom(h) /\ chan'[h] = Append(chan[h], written')
        <4>1. Len(chan[h]) + 1 <= Capacity
          BY <3>6, <3>4, CapacityAssumption DEF HasRoom
        <4> QED
          BY <4>1, <3>3, <3>6
      <3> QED
        BY <3>1, <3>5, <3>6
    <2>4. chan' = [h \in Handles |-> chan'[h]]
      BY <1>2 DEF Write
    <2>5. chan' \in [Handles -> Seq(1 .. MaxAUs)]
      BY <2>3, <2>4
    <2>6. dropped' \in [Handles -> Nat]
      BY <1>2 DEF Write, TypeOK
    <2> QED
      BY <1>2, <2>1, <2>2, <2>3, <2>5, <2>6 DEF Write, TypeOK
  <1>3. ASSUME NEW h \in Handles, Unsubscribe(h) PROVE TypeOK'
    <2>1. Remove(IdOf(h))
      BY <1>3 DEF Unsubscribe
    <2> QED
      BY <1>3, <2>1, RemoveType DEF Unsubscribe, Remove, TypeOK
  <1>4. ASSUME NEW h \in Handles, CancelSub(h) PROVE TypeOK'
    BY <1>4 DEF CancelSub, TypeOK
  <1>5. ASSUME NEW h \in Handles, CancelContext(h) PROVE TypeOK'
    BY <1>5 DEF CancelContext, TypeOK
  <1>6. ASSUME NEW h \in Handles, Watch(h) PROVE TypeOK'
    <2>1. Remove(IdOf(h))
      BY <1>6 DEF Watch
    <2> QED
      BY <1>6, <2>1, RemoveType DEF Watch, Remove, TypeOK
  <1>7. ASSUME NEW h \in Handles, Receive(h) PROVE TypeOK'
    <2>1. /\ chan[h] \in Seq(1 .. MaxAUs)
          /\ Len(chan[h]) <= Capacity
          /\ chan[h] # <<>>
      BY <1>7 DEF Receive, TypeOK
    <2>2. /\ Tail(chan[h]) \in Seq(1 .. MaxAUs)
          /\ Len(Tail(chan[h])) <= Capacity
          /\ Head(chan[h]) \in 1 .. MaxAUs
      <3> DEFINE q == chan[h]
      <3>1. Tail(q) \in Seq(1 .. MaxAUs) /\ Head(q) \in 1 .. MaxAUs
        BY <2>1, TakenUnit
      <3>2. Len(q) \in Nat \ {0} /\ Len(Tail(q)) = Len(q) - 1
        BY <2>1, TakenUnit
      <3> QED
        BY <2>1, <3>1, <3>2, CapacityAssumption
    <2>3. /\ chan' \in [Handles -> Seq(1 .. MaxAUs)]
          /\ \A g \in Handles : Len(chan'[g]) <= Capacity
      BY <1>7, <2>2 DEF Receive, TypeOK
    <2>4. /\ taken' \in [Handles -> Nat]
          /\ latest' \in [Handles -> 0 .. MaxAUs]
      BY <1>7, <2>2, BoundsAssumption DEF Receive, TypeOK
    <2> QED
      BY <1>7, <2>3, <2>4 DEF Receive, TypeOK
  <1>8. CASE UNCHANGED hubVars
    BY <1>8 DEF hubVars, TypeOK
  <1> QED
    BY <1>1, <1>2, <1>3, <1>4, <1>5, <1>6, <1>7, <1>8 DEF Next

(* Channels never hold more than the subscriber buffer, handles and counters
   stay in range, whatever users, watchers, camera and consumers do. *)
THEOREM TypeCorrect == Spec => []TypeOK
  <1> QED
    BY InitType, NextType, PTL DEF Spec

-----------------------------------------------------------------------------
(* The inductive invariant, one conjunct at a time. *)

(* Subscribe stores a subscription under its own ID and Unsubscribe only clears
   entries. *)
LEMMA NextEntries ==
    TypeOK /\ EntriesAreTheirOwn /\ [Next]_hubVars => EntriesAreTheirOwn'
  <1> SUFFICES ASSUME TypeOK, EntriesAreTheirOwn, [Next]_hubVars
               PROVE EntriesAreTheirOwn'
    OBVIOUS
  <1> USE DEF EntriesAreTheirOwn
  <1>1. CASE Subscribe
    <2> DEFINE n == nextID + 1
    <2>1. n \in Handles /\ nextID \in Nat /\ nextID' = n
      BY <1>1, BoundsAssumption DEF Subscribe, TypeOK
    <2> SUFFICES ASSUME NEW id \in Ids, subscribers'[id] # 0
                 PROVE subscribers'[id] <= n /\ IdOf(subscribers'[id]) = id
      BY <2>1
    <2>2. CASE id = IdOf(n)
      <3>1. subscribers'[id] = n
        BY <1>1, <2>2 DEF Subscribe, TypeOK
      <3> QED
        BY <3>1, <2>1, <2>2
    <2>3. CASE id # IdOf(n)
      <3>1. subscribers'[id] = subscribers[id] /\ subscribers[id] \in Nat
        BY <1>1, <2>3, BoundsAssumption DEF Subscribe, TypeOK
      <3> QED
        BY <3>1, <2>1
    <2> QED
      BY <2>2, <2>3
  <1>2. ASSUME NEW h \in Handles, Remove(IdOf(h)) PROVE EntriesAreTheirOwn'
    <2>1. nextID' = nextID /\ subscribers' = [subscribers EXCEPT ![IdOf(h)] = 0]
      BY <1>2 DEF Remove
    <2>2. \A id \in Ids : subscribers'[id] = 0 \/ subscribers'[id] = subscribers[id]
      BY <2>1 DEF TypeOK
    <2> QED
      BY <2>1, <2>2
  <1>3. CASE UNCHANGED <<nextID, subscribers>>
    BY <1>3
  <1> QED
    BY <1>1, <1>2, <1>3
    DEF Next, Write, Unsubscribe, CancelSub, CancelContext, Watch, Receive, hubVars

(* A registered handle is found under its own ID. *)
LEMMA RegisteredByOwnId ==
    ASSUME TypeOK, EntriesAreTheirOwn, NEW h \in Handles
    PROVE  h \in Registered <=> subscribers[IdOf(h)] = h
  <1>1. h # 0
    BY DEF Handles
  <1> QED
    BY <1>1, IdsOfHandles DEF Registered, EntriesAreTheirOwn

(* What is registered has been subscribed. *)
LEMMA RegisteredSubscribed ==
    ASSUME TypeOK, EntriesAreTheirOwn
    PROVE  Registered \subseteq Subscribed
  <1> SUFFICES ASSUME NEW h \in Registered PROVE h \in Subscribed
    OBVIOUS
  <1>1. h \in Handles /\ h # 0 /\ h \in Nat \ {0}
    BY BoundsAssumption DEF Registered, Handles
  <1>2. h <= nextID
    BY <1>1 DEF Registered, EntriesAreTheirOwn
  <1> QED
    BY <1>1, <1>2 DEF Subscribed, TypeOK

(* Subscribe registers the new handle and at most evicts another. *)
LEMMA SubscribeRegisters ==
    ASSUME TypeOK, EntriesAreTheirOwn, Subscribe
    PROVE  Registered' \subseteq Registered \cup {nextID + 1}
  <1> DEFINE n == nextID + 1
  <1> SUFFICES ASSUME NEW h \in Handles, NEW id \in Ids, subscribers'[id] = h
               PROVE h \in Registered \cup {n}
    BY DEF Registered
  <1>1. subscribers'[id] = n \/ subscribers'[id] = subscribers[id]
    BY DEF Subscribe, TypeOK
  <1> QED
    BY <1>1 DEF Registered

(* Remove unregisters exactly the handle whose channel it closes. *)
LEMMA RemoveUnregisters ==
    ASSUME TypeOK, EntriesAreTheirOwn, NEW h \in Handles, Remove(IdOf(h))
    PROVE  /\ Registered' \subseteq Registered
           /\ subscribers[IdOf(h)] \notin Registered'
  <1>1. \A id \in Ids : subscribers'[id] = IF id = IdOf(h) THEN 0 ELSE subscribers[id]
    BY DEF Remove, TypeOK
  <1>2. 0 \notin Handles
    BY DEF Handles
  <1>3. Registered' \subseteq Registered
    BY <1>1, <1>2 DEF Registered
  <1>4. ASSUME NEW id \in Ids, subscribers'[id] = subscribers[IdOf(h)],
               subscribers[IdOf(h)] \in Handles
        PROVE FALSE
    <2>1. id # IdOf(h) /\ subscribers[id] = subscribers[IdOf(h)]
      BY <1>1, <1>2, <1>4
    <2> QED
      BY <2>1, <1>2, <1>4, IdsOfHandles DEF EntriesAreTheirOwn
  <1> QED
    BY <1>3, <1>4 DEF Registered

(* A handle not handed out by Subscribe yet has no channel contents, no watcher
   and no loss. *)
LEMMA NextUsed ==
    TypeOK /\ EntriesAreTheirOwn /\ OnlySubscribedUsed /\ [Next]_hubVars
        => OnlySubscribedUsed'
  <1> SUFFICES ASSUME TypeOK, EntriesAreTheirOwn, OnlySubscribedUsed, [Next]_hubVars
               PROVE OnlySubscribedUsed'
    OBVIOUS
  <1>0. nextID \in Nat /\ nextID' \in Nat /\ nextID <= nextID'
    <2>1. nextID' = nextID \/ nextID' = nextID + 1
      BY DEF Next, Subscribe, Write, Unsubscribe, CancelSub, CancelContext, Watch,
             Receive, Remove, hubVars
    <2> QED
      BY <2>1, BoundsAssumption DEF TypeOK
  <1>1. Subscribed \subseteq Subscribed'
    BY <1>0 DEF Subscribed
  <1>2. CASE Subscribe
    <2>1. nextID + 1 \in Subscribed'
      BY <1>0, <1>2 DEF Subscribe, Subscribed
    <2> QED
      BY <1>0, <1>1, <1>2, <2>1, BoundsAssumption DEF Subscribe, OnlySubscribedUsed, Handles
  <1>3. CASE Write
    <2>1. \A h \in Handles : h > nextID => h \notin Registered
      BY <1>0, RegisteredSubscribed DEF Subscribed
    <2>2. \A h \in Handles : h > nextID => chan'[h] = chan[h] /\ dropped'[h] = dropped[h]
      BY <1>3, <2>1 DEF Write
    <2> QED
      BY <1>3, <2>2 DEF Write, OnlySubscribedUsed, Subscribed
  <1>4. ASSUME NEW h \in Handles, Remove(IdOf(h)) PROVE closed' \subseteq Subscribed'
    <2>1. CASE subscribers[IdOf(h)] = 0
      BY <1>1, <1>4, <2>1 DEF Remove, OnlySubscribedUsed
    <2>2. CASE subscribers[IdOf(h)] # 0
      <3>1. subscribers[IdOf(h)] \in Registered
        BY <2>2, EntryTypes, IdsOfHandles DEF Registered
      <3> QED
        BY <1>1, <1>4, <2>2, <3>1, RegisteredSubscribed DEF Remove, OnlySubscribedUsed
    <2> QED
      BY <2>1, <2>2
  <1>5. ASSUME NEW h \in Handles, Unsubscribe(h) PROVE OnlySubscribedUsed'
    <2>1. Remove(IdOf(h))
      BY <1>5 DEF Unsubscribe
    <2> QED
      BY <1>4, <1>5, <2>1 DEF Unsubscribe, Remove, OnlySubscribedUsed, Subscribed
  <1>6. ASSUME NEW h \in Handles, Watch(h) PROVE OnlySubscribedUsed'
    <2>1. Remove(IdOf(h))
      BY <1>6 DEF Watch
    <2> QED
      BY <1>4, <1>6, <2>1 DEF Watch, Remove, OnlySubscribedUsed, Subscribed
  <1>7. ASSUME NEW h \in Handles, CancelSub(h) \/ CancelContext(h)
        PROVE OnlySubscribedUsed'
    BY <1>7 DEF CancelSub, CancelContext, OnlySubscribedUsed, Subscribed
  <1>8. ASSUME NEW h \in Handles, Receive(h) PROVE OnlySubscribedUsed'
    <2>1. ~(h > nextID)
      BY <1>0, <1>8, BoundsAssumption DEF Receive, Subscribed, Handles
    <2>2. \A g \in Handles : g > nextID => chan'[g] = chan[g] /\ taken'[g] = taken[g]
      BY <1>8, <2>1 DEF Receive, TypeOK
    <2> QED
      BY <1>8, <2>2 DEF Receive, OnlySubscribedUsed, Subscribed
  <1>9. CASE UNCHANGED hubVars
    BY <1>9 DEF hubVars, OnlySubscribedUsed, Subscribed
  <1> QED
    BY <1>2, <1>3, <1>5, <1>6, <1>7, <1>8, <1>9 DEF Next

(* Unsubscribe closes a channel in the step that takes it out of the map. *)
LEMMA NextOpen ==
    TypeOK /\ EntriesAreTheirOwn /\ OnlySubscribedUsed /\ RegisteredChannelsOpen
        /\ [Next]_hubVars => RegisteredChannelsOpen'
  <1> SUFFICES ASSUME TypeOK, EntriesAreTheirOwn, OnlySubscribedUsed,
                      RegisteredChannelsOpen, [Next]_hubVars
               PROVE RegisteredChannelsOpen'
    OBVIOUS
  <1>1. CASE Subscribe
    <2>1. nextID + 1 \notin closed
      BY <1>1, BoundsAssumption DEF OnlySubscribedUsed, Subscribed, TypeOK
    <2> QED
      BY <1>1, <2>1, SubscribeRegisters DEF Subscribe, RegisteredChannelsOpen
  <1>2. ASSUME NEW h \in Handles, Remove(IdOf(h)) PROVE RegisteredChannelsOpen'
    BY <1>2, RemoveUnregisters DEF Remove, RegisteredChannelsOpen
  <1>3. CASE UNCHANGED <<subscribers, closed>>
    BY <1>3 DEF RegisteredChannelsOpen, Registered
  <1> QED
    BY <1>1, <1>2, <1>3
    DEF Next, Write, Unsubscribe, CancelSub, CancelContext, Watch, Receive, hubVars

(* Write appends the largest number so far, a receive takes the smallest. *)
LEMMA NextOrder ==
    TypeOK /\ OnlySubscribedUsed /\ NumbersInOrder /\ [Next]_hubVars => NumbersInOrder'
  <1> SUFFICES ASSUME TypeOK, OnlySubscribedUsed, NumbersInOrder, [Next]_hubVars,
                      NEW h \in Handles
               PROVE /\ latest'[h] <= written'
                     /\ \A i \in 1 .. Len(chan'[h]) :
                           latest'[h] < chan'[h][i] /\ chan'[h][i] <= written'
                     /\ \A i, j \in 1 .. Len(chan'[h]) : i < j => chan'[h][i] < chan'[h][j]
    BY DEF NumbersInOrder
  <1>0. /\ chan[h] \in Seq(1 .. MaxAUs)
        /\ Len(chan[h]) \in Nat
        /\ \A i \in 1 .. Len(chan[h]) : chan[h][i] \in Nat
        /\ latest[h] \in Nat
        /\ written \in Nat
    <2>1. chan[h] \in Seq(1 .. MaxAUs)
      BY DEF TypeOK
    <2>2. \A i \in 1 .. Len(chan[h]) : chan[h][i] \in 1 .. MaxAUs
      BY <2>1, ElementOfSeq
    <2> QED
      BY <2>1, <2>2, LenProperties, BoundsAssumption DEF TypeOK
  <1>old. /\ latest[h] <= written
          /\ \A i \in 1 .. Len(chan[h]) : latest[h] < chan[h][i] /\ chan[h][i] <= written
          /\ \A i, j \in 1 .. Len(chan[h]) : i < j => chan[h][i] < chan[h][j]
    BY DEF NumbersInOrder
  <1>1. ASSUME chan'[h] = chan[h], latest'[h] = latest[h], written' = written PROVE
          /\ latest'[h] <= written'
          /\ \A i \in 1 .. Len(chan'[h]) :
                latest'[h] < chan'[h][i] /\ chan'[h][i] <= written'
          /\ \A i, j \in 1 .. Len(chan'[h]) : i < j => chan'[h][i] < chan'[h][j]
    BY <1>1, <1>old
  <1>2. CASE Write
    <2>1. written' = written + 1 /\ latest' = latest /\ written' \in 1 .. MaxAUs
      BY <1>2, BoundsAssumption DEF Write, TypeOK
    <2>2. CASE chan'[h] = chan[h]
      BY <1>0, <1>old, <2>1, <2>2
    <2>3. CASE chan'[h] = Append(chan[h], written')
      <3>1. /\ Len(chan'[h]) = Len(chan[h]) + 1
            /\ \A i \in 1 .. Len(chan[h]) : chan'[h][i] = chan[h][i]
            /\ chan'[h][Len(chan[h]) + 1] = written'
        BY <1>0, <2>1, <2>3, AppendProperties
      <3>2. \A i \in 1 .. Len(chan'[h]) : i \in 1 .. Len(chan[h]) \/ i = Len(chan[h]) + 1
        BY <1>0, <3>1
      <3>3. ASSUME NEW i \in 1 .. Len(chan'[h])
            PROVE latest'[h] < chan'[h][i] /\ chan'[h][i] <= written'
        <4>1. CASE i \in 1 .. Len(chan[h])
          <5>1. chan'[h][i] = chan[h][i] /\ chan[h][i] \in Nat
            BY <1>0, <3>1, <4>1
          <5>2. latest[h] < chan[h][i] /\ chan[h][i] <= written
            BY <1>old, <4>1
          <5> QED
            BY <1>0, <2>1, <5>1, <5>2
        <4>2. CASE i = Len(chan[h]) + 1
          <5>1. chan'[h][i] = written'
            BY <3>1, <4>2
          <5> QED
            BY <1>0, <1>old, <2>1, <5>1
        <4> QED
          BY <3>2, <4>1, <4>2
      <3>4. ASSUME NEW i \in 1 .. Len(chan'[h]), NEW j \in 1 .. Len(chan'[h]), i < j
            PROVE chan'[h][i] < chan'[h][j]
        <4>1. i \in 1 .. Len(chan[h]) /\ chan'[h][i] = chan[h][i]
          BY <1>0, <3>1, <3>4
        <4>2. CASE j \in 1 .. Len(chan[h])
          BY <1>old, <3>1, <3>4, <4>1, <4>2
        <4>3. CASE j = Len(chan[h]) + 1
          BY <1>0, <1>old, <2>1, <3>1, <4>1, <4>3
        <4> QED
          BY <3>2, <4>2, <4>3
      <3> QED
        BY <1>0, <1>old, <2>1, <3>3, <3>4
    <2> QED
      BY <1>2, <2>1, <2>2, <2>3 DEF Write
  <1>3. CASE Receive(h)
    <2>1. /\ chan'[h] = Tail(chan[h])
          /\ latest'[h] = Head(chan[h])
          /\ written' = written
          /\ chan[h] # <<>>
      BY <1>3 DEF Receive, TypeOK
    <2>2. /\ Len(chan[h]) \in Nat \ {0}
          /\ latest'[h] = chan[h][1]
          /\ Len(chan'[h]) = Len(chan[h]) - 1
          /\ \A i \in 1 .. Len(chan'[h]) :
                i + 1 \in 1 .. Len(chan[h]) /\ chan'[h][i] = chan[h][i + 1]
      BY <1>0, <2>1, TakenUnit
    <2> QED
      BY <1>0, <1>old, <2>1, <2>2
  <1>4. ASSUME NEW g \in Handles, Receive(g), g # h
        PROVE chan'[h] = chan[h] /\ latest'[h] = latest[h] /\ written' = written
    BY <1>4 DEF Receive, TypeOK
  <1>5. CASE Subscribe
    <2>1. chan' = chan /\ written' = written
      BY <1>5 DEF Subscribe
    <2>2. CASE h = nextID + 1
      <3>1. latest'[h] = written
        BY <1>5, <2>2 DEF Subscribe, TypeOK
      <3>2. chan[h] = <<>>
        BY <2>2, BoundsAssumption DEF OnlySubscribedUsed, TypeOK
      <3> QED
        BY <1>0, <2>1, <3>1, <3>2
    <2>3. CASE h # nextID + 1
      <3>1. latest'[h] = latest[h]
        BY <1>5, <2>3 DEF Subscribe, TypeOK
      <3> QED
        BY <1>1, <2>1, <3>1
    <2> QED
      BY <2>2, <2>3
  <1>6. CASE UNCHANGED <<chan, latest, written>>
    BY <1>1, <1>6
  <1> QED
    BY <1>1, <1>2, <1>3, <1>4, <1>5, <1>6
    DEF Next, Unsubscribe, CancelSub, CancelContext, Watch, Remove, hubVars

(* Write hands a unit over or counts it, for each registered subscriber; a
   receive moves it from the channel to the consumer. *)
LEMMA NextAccounted ==
    TypeOK /\ EntriesAreTheirOwn /\ OnlySubscribedUsed /\ EveryUnitAccountedFor
        /\ [Next]_hubVars => EveryUnitAccountedFor'
  <1> SUFFICES ASSUME TypeOK, EntriesAreTheirOwn, OnlySubscribedUsed,
                      EveryUnitAccountedFor, [Next]_hubVars,
                      NEW h \in Registered'
               PROVE taken'[h] + Len(chan'[h]) + dropped'[h] = written' - base'[h]
    BY DEF EveryUnitAccountedFor
  <1>0. /\ h \in Handles
        /\ chan[h] \in Seq(1 .. MaxAUs)
        /\ Len(chan[h]) \in Nat
        /\ taken[h] \in Nat /\ dropped[h] \in Nat
        /\ written \in Nat /\ base[h] \in Nat
    <2>1. h \in Handles
      BY DEF Registered
    <2>2. chan[h] \in Seq(1 .. MaxAUs)
      BY <2>1 DEF TypeOK
    <2> QED
      BY <2>1, <2>2, LenProperties, BoundsAssumption DEF TypeOK
  <1>old. h \in Registered => taken[h] + Len(chan[h]) + dropped[h] = written - base[h]
    BY DEF EveryUnitAccountedFor
  <1>1. CASE Subscribe
    <2>1. chan' = chan /\ written' = written /\ taken' = taken /\ dropped' = dropped
      BY <1>1 DEF Subscribe
    <2>2. CASE h = nextID + 1
      <3>1. base'[h] = written
        BY <1>0, <1>1, <2>2 DEF Subscribe, TypeOK
      <3>2. chan[h] = <<>> /\ taken[h] = 0 /\ dropped[h] = 0
        BY <1>0, <2>2, BoundsAssumption DEF OnlySubscribedUsed, TypeOK
      <3> QED
        BY <1>0, <2>1, <3>1, <3>2
    <2>3. CASE h # nextID + 1
      <3>1. base'[h] = base[h]
        BY <1>0, <1>1, <2>3 DEF Subscribe, TypeOK
      <3>2. h \in Registered
        BY <1>1, <2>3, SubscribeRegisters
      <3> QED
        BY <1>old, <2>1, <3>1, <3>2
    <2> QED
      BY <2>2, <2>3
  <1>2. CASE Write
    <2>1. /\ h \in Registered
          /\ written' = written + 1 /\ written' \in 1 .. MaxAUs
          /\ base' = base /\ taken' = taken
      BY <1>2, BoundsAssumption DEF Write, TypeOK, Registered
    <2> DEFINE size == Len(chan[h])
    <2>nat. taken[h] \in Nat /\ size \in Nat /\ dropped[h] \in Nat
            /\ written \in Nat /\ base[h] \in Nat
      BY <1>0
    <2>was. taken[h] + size + dropped[h] = written - base[h]
      BY <1>old, <2>1
    <2>one. /\ taken[h] + (size + 1) + dropped[h] = (written + 1) - base[h]
            /\ taken[h] + size + (dropped[h] + 1) = (written + 1) - base[h]
      <3> HIDE DEF size
      <3> QED
        BY <2>nat, <2>was
    <2>sum. /\ taken[h] + Len(chan[h]) + dropped[h] = written - base[h]
            /\ written' = written + 1 /\ base'[h] = base[h] /\ taken'[h] = taken[h]
      BY <1>old, <2>1
    <2>2. CASE HasRoom(h)
      <3>1. chan'[h] = Append(chan[h], written') /\ dropped'[h] = dropped[h]
        BY <1>0, <1>2, <2>1, <2>2 DEF Write
      <3>2. Len(chan'[h]) = Len(chan[h]) + 1
        BY <1>0, <2>1, <3>1, AppendProperties
      <3> QED
        BY <2>sum, <2>one, <3>1, <3>2
    <2>3. CASE ~HasRoom(h)
      <3>1. chan'[h] = chan[h] /\ dropped'[h] = dropped[h] + 1
        BY <1>0, <1>2, <2>1, <2>3 DEF Write
      <3> QED
        BY <2>sum, <2>one, <3>1
    <2> QED
      BY <2>2, <2>3
  <1>3. ASSUME NEW g \in Handles, Remove(IdOf(g))
        PROVE taken'[h] + Len(chan'[h]) + dropped'[h] = written' - base'[h]
    <2>1. h \in Registered
      BY <1>3, RemoveUnregisters
    <2> QED
      BY <1>3, <1>old, <2>1 DEF Remove
  <1>4. ASSUME NEW g \in Handles, Receive(g)
        PROVE taken'[h] + Len(chan'[h]) + dropped'[h] = written' - base'[h]
    <2>1. /\ h \in Registered
          /\ written' = written /\ dropped' = dropped /\ base' = base
      BY <1>4 DEF Receive, Registered
    <2>2. CASE g = h
      <3>1. chan[h] # <<>> /\ chan'[h] = Tail(chan[h]) /\ taken'[h] = taken[h] + 1
        BY <1>0, <1>4, <2>2 DEF Receive, TypeOK
      <3>2. Len(chan'[h]) = Len(chan[h]) - 1
        BY <1>0, <3>1, HeadTailProperties
      <3> DEFINE t == taken[h]  size == Len(chan[h])  d == dropped[h]
      <3>3. t \in Nat /\ size \in Nat /\ d \in Nat
        BY <1>0
      <3>4. t + size + d = written - base[h]
        BY <1>old, <2>1
      <3>5. taken'[h] = t + 1 /\ Len(chan'[h]) = size - 1 /\ dropped'[h] = d
            /\ written' - base'[h] = written - base[h]
        BY <2>1, <3>1, <3>2
      <3> HIDE DEF t, size, d
      <3>6. (t + 1) + (size - 1) + d = t + size + d
        BY <3>3
      <3> QED
        BY <3>4, <3>5, <3>6
    <2>3. CASE g # h
      <3>1. chan'[h] = chan[h] /\ taken'[h] = taken[h]
        BY <1>0, <1>4, <2>3 DEF Receive, TypeOK
      <3> QED
        BY <1>old, <2>1, <3>1
    <2> QED
      BY <2>2, <2>3
  <1>5. CASE UNCHANGED <<subscribers, chan, dropped, written, base, taken>>
    BY <1>5, <1>old DEF Registered
  <1> QED
    BY <1>1, <1>2, <1>3, <1>4, <1>5
    DEF Next, Unsubscribe, CancelSub, CancelContext, Watch, hubVars

-----------------------------------------------------------------------------
(* The invariants of the specification. *)

(* A new hub satisfies the inductive invariant. *)
LEMMA InitInv == Init => IInv
  <1> SUFFICES ASSUME Init PROVE IInv
    OBVIOUS
  <1>1. TypeOK
    BY InitType
  <1>2. Registered = {} /\ closed = {}
    BY DEF Init, Registered, Handles
  <1>3. EntriesAreTheirOwn /\ OnlySubscribedUsed
    BY DEF Init, EntriesAreTheirOwn, OnlySubscribedUsed
  <1>4. NumbersInOrder
    BY DEF Init, NumbersInOrder
  <1> QED
    BY <1>1, <1>2, <1>3, <1>4 DEF IInv, RegisteredChannelsOpen, EveryUnitAccountedFor

(* The inductive invariant: the map holds each subscription under its own ID,
   and channels, counters and closes agree with it. *)
THEOREM Inductive == Spec => []IInv
  <1>1. IInv /\ [Next]_hubVars => IInv'
    BY NextType, NextEntries, NextUsed, NextOpen, NextOrder, NextAccounted DEF IInv
  <1> QED
    BY <1>1, InitInv, PTL DEF Spec

(* Write, which sends to everything in the map, never meets a closed channel. *)
THEOREM NeverSendsOnClosed == Spec => []RegisteredChannelsOpen
  <1>1. IInv => RegisteredChannelsOpen
    BY DEF IInv
  <1> QED
    BY <1>1, Inductive, PTL

(* Write loses no unit without counting it in the subscriber's Dropped(). *)
THEOREM LossesAreCounted == Spec => []EveryUnitAccountedFor
  <1>1. IInv => EveryUnitAccountedFor
    BY DEF IInv
  <1> QED
    BY <1>1, Inductive, PTL

(* Consumers receive in the order of the writes, each unit at most once and
   none from before their Subscribe. *)
THEOREM OrderKept == Spec => []DeliveredInOrder
  <1>1. IInv => DeliveredInOrder
    <2>1. ASSUME IInv PROVE Subscribed \subseteq Handles
      BY <2>1, BoundsAssumption DEF IInv, TypeOK, Subscribed, Handles
    <2> QED
      BY <2>1 DEF IInv, NumbersInOrder, DeliveredInOrder
  <1> QED
    BY <1>1, Inductive, PTL

-----------------------------------------------------------------------------
(* As long as every counter has an ID of its own, subscribers do not end one
   another.  With the real encoding that is the first 55295 subscriptions. *)

UserEnded ==
    /\ closed \subseteq ended
    /\ cancelling \subseteq closed
    /\ done \subseteq ended

(* With distinct IDs, Unsubscribe finds its own subscription or none. *)
LEMMA NextUserEnded ==
    ASSUME Unencodable \cap Handles = {}, IInv, UserEnded, [Next]_hubVars
    PROVE  UserEnded'
  <1>1. ASSUME NEW h \in Handles, Remove(IdOf(h)), h \in ended', ended \subseteq ended',
               done' = done
        PROVE UserEnded'
    <2>1. subscribers[IdOf(h)] \in {0, h}
      BY EntryTypes, IdsOfHandles DEF IInv, EntriesAreTheirOwn, IdOf
    <2> QED
      BY <1>1, <2>1 DEF Remove, UserEnded
  <1>2. ASSUME NEW h \in Handles, Unsubscribe(h) PROVE UserEnded'
    BY <1>1, <1>2 DEF Unsubscribe
  <1>3. ASSUME NEW h \in Handles, Watch(h) PROVE UserEnded'
    BY <1>1, <1>3 DEF Watch, UserEnded
  <1>4. ASSUME NEW h \in Handles, CancelSub(h) \/ CancelContext(h) PROVE UserEnded'
    BY <1>4 DEF CancelSub, CancelContext, UserEnded
  <1>5. CASE UNCHANGED <<closed, cancelling, done, ended>>
    BY <1>5 DEF UserEnded
  <1> QED
    BY <1>2, <1>3, <1>4, <1>5 DEF Next, Subscribe, Write, Receive, hubVars

(* A subscription is closed only after its own context ended or its own user
   called Unsubscribe, as long as the simple unique IDs are unique. *)
THEOREM OnlyItsUserCloses ==
    ASSUME Unencodable \cap Handles = {}
    PROVE  Spec => []ClosedOnlyByItsUser
  <1>1. Init => UserEnded
    BY DEF Init, UserEnded
  <1>2. IInv /\ UserEnded /\ [Next]_hubVars => UserEnded'
    BY NextUserEnded
  <1>3. UserEnded => ClosedOnlyByItsUser
    BY DEF UserEnded, ClosedOnlyByItsUser
  <1> QED
    BY <1>1, <1>2, <1>3, Inductive, PTL DEF Spec

-----------------------------------------------------------------------------
(* The hub implements one LossyChannel per subscriber, while IDs are distinct:
   a subscription that another one pushed out of the map would see units pass
   that its channel knows nothing of. *)

OpenAreRegistered == \A h \in Subscribed \ closed : h \in Registered

(* A subscription leaves the map in the step that closes its channel. *)
LEMMA NextRegistered ==
    ASSUME Unencodable \cap Handles = {}, IInv, OpenAreRegistered, [Next]_hubVars
    PROVE  OpenAreRegistered'
  <1>0. /\ Ids = Handles /\ \A n \in Handles : IdOf(n) = n
        /\ subscribers \in [Handles -> 0 .. MaxSubs]
        /\ nextID \in 0 .. MaxSubs /\ MaxSubs \in Nat
    <2>1. \A n \in Handles : IdOf(n) = n
      BY DEF IdOf
    <2>2. Ids = Handles
      BY <2>1 DEF Ids
    <2> QED
      BY <2>1, <2>2, BoundsAssumption DEF IInv, TypeOK
  <1>1. \A h \in Subscribed \ closed : h \in Handles /\ subscribers[h] = h
    <2>1. \A id \in Handles : subscribers[id] # 0 => subscribers[id] = id
      BY <1>0, EntryTypes DEF IInv, EntriesAreTheirOwn, Handles
    <2> QED
      BY <1>0, <2>1 DEF OpenAreRegistered, Registered, Subscribed, Handles
  <1>2. SUFFICES \A h \in (Subscribed \ closed)' : h \in Handles /\ subscribers'[h] = h
    BY <1>0 DEF OpenAreRegistered, Registered
  <1>3. CASE Subscribe
    BY <1>0, <1>1, <1>3 DEF Subscribe, Subscribed, Handles
  <1>4. ASSUME NEW g \in Handles, Remove(IdOf(g)), nextID' = nextID
        PROVE \A h \in (Subscribed \ closed)' : h \in Handles /\ subscribers'[h] = h
    BY <1>0, <1>1, <1>4 DEF Remove, Subscribed, Handles
  <1>5. ASSUME NEW g \in Handles, Unsubscribe(g) \/ Watch(g)
        PROVE \A h \in (Subscribed \ closed)' : h \in Handles /\ subscribers'[h] = h
    BY <1>4, <1>5 DEF Unsubscribe, Watch, Remove
  <1>6. CASE UNCHANGED <<nextID, subscribers, closed>>
    BY <1>1, <1>6 DEF Subscribed
  <1> QED
    BY <1>3, <1>5, <1>6
    DEF Next, Write, CancelSub, CancelContext, Receive, hubVars

(* The queue of the mapping has a record for each number in the channel. *)
Marks == [unit : {"au"}, gap : BOOLEAN]

LEMMA FunctionSeq ==
    ASSUME NEW S, NEW n \in Nat, NEW q \in [1 .. n -> S]
    PROVE  q \in Seq(S) /\ Len(q) = n
  OBVIOUS

LEMMA AppendedSeq ==
    ASSUME NEW S, NEW q \in Seq(S), NEW e \in S
    PROVE  /\ Append(q, e) \in Seq(S) /\ Len(Append(q, e)) = Len(q) + 1
           /\ Append(q, e)[Len(q) + 1] = e
           /\ \A i \in 1 .. Len(q) : Append(q, e)[i] = q[i]
  OBVIOUS

(* What the mapping reads of a subscription. *)
LEMMA ChannelKept ==
    ASSUME NEW h \in Handles,
           chan'[h] = chan[h], latest'[h] = latest[h],
           dropped'[h] = dropped[h], written' = written,
           h \in closed' <=> h \in closed,
           h \in Subscribed' <=> h \in Subscribed
    PROVE  UNCHANGED Channel(h)!channelVars
  BY DEF Channel!channelVars, QueueOf, LastOf, Previous

(* Write is a Deliver or a Lose for a registered subscription, and nothing for
   the others: the numbers show whether a hole precedes the unit. *)
LEMMA WriteStep ==
    ASSUME IInv, OpenAreRegistered, Write, NEW h \in Handles
    PROVE  [Channel(h)!ChannelNext]_(Channel(h)!channelVars)
  <1> DEFINE n == Len(chan[h])
  <1>0. /\ chan[h] \in Seq(1 .. MaxAUs) /\ n \in Nat
        /\ latest[h] \in 0 .. MaxAUs /\ written \in 0 .. MaxAUs
        /\ dropped[h] \in Nat /\ taken[h] \in Nat /\ base[h] \in 0 .. MaxAUs
        /\ MaxAUs \in Nat /\ Capacity \in Nat
    BY BoundsAssumption, CapacityAssumption DEF IInv, TypeOK
  <1>1. /\ latest'[h] = latest[h] /\ written' = written + 1 /\ written < MaxAUs
        /\ closed' = closed /\ Subscribed' = Subscribed
    BY DEF Write, Subscribed
  <1>2. LastOf(h) \in Int /\ LastOf(h) <= written
    BY <1>0 DEF LastOf, IInv, NumbersInOrder
  <1>3. CASE h \notin Registered
    <2>1. chan'[h] = chan[h] /\ dropped'[h] = dropped[h]
      BY <1>3 DEF Write
    <2>2. h \notin Subscribed \ closed
      BY <1>3 DEF OpenAreRegistered
    <2> QED
      BY <1>1, <2>1, <2>2 DEF Channel!channelVars, QueueOf, LastOf, Previous
  <1>4. ASSUME h \in Registered PROVE h \in Subscribed \ closed
    BY <1>4, RegisteredSubscribed DEF IInv, RegisteredChannelsOpen
  <1>5. CASE h \in Registered /\ HasRoom(h)
    <2>1. chan'[h] = Append(chan[h], written + 1) /\ dropped'[h] = dropped[h]
      BY <1>5 DEF Write
    <2>2. /\ Len(chan'[h]) = n + 1 /\ chan'[h][n + 1] = written + 1
          /\ \A i \in 1 .. n : chan'[h][i] = chan[h][i]
          /\ chan'[h] # <<>>
      <3>1. PICK next \in 1 .. MaxAUs : next = written + 1
        BY <1>0, <1>1
      <3> DEFINE longer == Append(chan[h], next)
      <3>2. /\ longer \in Seq(1 .. MaxAUs) /\ Len(longer) = n + 1 /\ longer[n + 1] = next
            /\ \A i \in 1 .. n : longer[i] = chan[h][i]
        BY <1>0, AppendedSeq
      <3>3. chan'[h] = longer
        BY <2>1, <3>1
      <3> HIDE DEF longer
      <3>4. longer # <<>>
        BY <1>0, <3>2
      <3> QED
        BY <3>1, <3>2, <3>3, <3>4
    <2>3. QueueOf(h)' = Append(QueueOf(h), [unit |-> "au", gap |-> LastOf(h) # written])
      <3> DEFINE mark == [unit |-> "au", gap |-> LastOf(h) # written]
      <3>1. QueueOf(h) \in Seq(Marks) /\ Len(QueueOf(h)) = n
        BY <1>0, FunctionSeq DEF QueueOf, Marks
      <3>2. QueueOf(h)' \in Seq(Marks) /\ Len(QueueOf(h)') = n + 1
        BY <1>0, <2>2, FunctionSeq DEF QueueOf, Marks
      <3>3. mark \in Marks
        BY DEF Marks
      <3>4. /\ Append(QueueOf(h), mark) \in Seq(Marks)
            /\ Len(Append(QueueOf(h), mark)) = n + 1
            /\ Append(QueueOf(h), mark)[n + 1] = mark
            /\ \A i \in 1 .. n : Append(QueueOf(h), mark)[i] = QueueOf(h)[i]
        BY <3>1, <3>3, AppendedSeq
      <3>5. QueueOf(h)'[n + 1] = mark
        <4>1. PICK m \in Nat : m = n
          BY <1>0
        <4>2. Previous(h, m + 1)' = LastOf(h)
          <5>1. CASE m = 0
            <6>1. chan[h] = <<>>
              BY <1>0, <4>1, <5>1, EmptySeq
            <6>2. m + 1 = 1
              BY <5>1
            <6> QED
              BY <1>1, <6>1, <6>2 DEF Previous, LastOf
          <5>2. CASE m # 0
            <6>1. m \in 1 .. n /\ m + 1 # 1 /\ (m + 1) - 1 = m
              BY <4>1, <5>2
            <6>2. chan[h] # <<>>
              BY <4>1, <5>2, EmptySeq
            <6>3. chan'[h][m] = chan[h][m]
              BY <2>2, <6>1
            <6> QED
              BY <4>1, <6>1, <6>2, <6>3 DEF Previous, LastOf
          <5> QED
            BY <5>1, <5>2
        <4>3. m + 1 \in 1 .. Len(chan'[h])
          BY <2>2, <4>1
        <4>4. QueueOf(h)'[m + 1] = [unit |-> "au", gap |-> written + 1 # LastOf(h) + 1]
          BY <2>2, <4>1, <4>2, <4>3 DEF QueueOf
        <4> QED
          BY <1>0, <1>2, <4>1, <4>4
      <3>6. ASSUME NEW i \in 1 .. n PROVE QueueOf(h)'[i] = QueueOf(h)[i]
        <4>1. Previous(h, i)' = Previous(h, i)
          <5>1. i = 1 \/ i - 1 \in 1 .. n
            BY <1>0
          <5> QED
            BY <1>1, <2>2, <5>1 DEF Previous
        <4>2. i \in 1 .. Len(chan'[h])
          BY <1>0, <2>2
        <4> QED
          BY <2>2, <4>1, <4>2 DEF QueueOf
      <3>7. \A i \in 1 .. Len(QueueOf(h)') :
                QueueOf(h)'[i] = Append(QueueOf(h), mark)[i]
        BY <1>0, <3>2, <3>4, <3>5, <3>6
      <3> QED
        BY <3>2, <3>4, <3>7, SeqEqual
    <2>4. LastOf(h)' = written'
      BY <1>1, <2>2 DEF LastOf
    <2>5. Channel(h)!Deliver("au")
      <3>1. Len(QueueOf(h)) = n
        BY <1>0, FunctionSeq DEF QueueOf, Marks
      <3> QED
        BY <1>0, <1>1, <1>4, <1>5, <2>1, <2>3, <2>4, <3>1 DEF Channel!Deliver, HasRoom
    <2> QED
      BY <2>5 DEF Channel!ChannelNext
  <1>6. CASE h \in Registered /\ ~HasRoom(h)
    <2>1. chan'[h] = chan[h] /\ dropped'[h] = dropped[h] + 1
      BY <1>6 DEF Write
    <2>2. QueueOf(h)' = QueueOf(h) /\ LastOf(h)' = LastOf(h)
      BY <1>1, <2>1 DEF QueueOf, LastOf, Previous
    <2>3. dropped[h] < MaxAUs
      BY <1>0, <1>1, <1>6 DEF IInv, EveryUnitAccountedFor
    <2>4. Channel(h)!Lose
      BY <1>0, <1>1, <1>2, <1>4, <1>6, <2>1, <2>2, <2>3 DEF Channel!Lose, HasRoom, QueueOf
    <2> QED
      BY <2>4 DEF Channel!ChannelNext
  <1> QED
    BY <1>3, <1>5, <1>6

(* Receive is a Take: the number of the unit taken is what the next one in the
   queue is compared with. *)
LEMMA ReceiveStep ==
    ASSUME IInv, NEW g \in Handles, Receive(g), NEW h \in Handles
    PROVE  [Channel(h)!ChannelNext]_(Channel(h)!channelVars)
  <1>1. CASE h # g
    BY <1>1, ChannelKept DEF Receive, Subscribed, IInv, TypeOK
  <1>2. CASE h = g
    <2> DEFINE n == Len(chan[h])
    <2>1. /\ chan[h] \in Seq(1 .. MaxAUs) /\ chan[h] # <<>>
          /\ chan'[h] = Tail(chan[h]) /\ latest'[h] = Head(chan[h])
          /\ UNCHANGED <<dropped, written, closed>> /\ Subscribed' = Subscribed
      BY <1>2 DEF Receive, IInv, TypeOK, Subscribed
    <2>2. /\ n \in Nat \ {0} /\ Len(chan'[h]) = n - 1 /\ latest'[h] = chan[h][1]
          /\ \A i \in 1 .. n - 1 : chan'[h][i] = chan[h][i + 1]
      BY <2>1, TakenUnit
    <2>3. QueueOf(h)' = Tail(QueueOf(h)) /\ QueueOf(h) # <<>>
      <3>1. QueueOf(h) \in Seq(Marks) /\ Len(QueueOf(h)) = n /\ QueueOf(h) # <<>>
        BY <2>2, FunctionSeq DEF QueueOf, Marks
      <3>2. QueueOf(h)' \in Seq(Marks) /\ Len(QueueOf(h)') = n - 1
        BY <2>2, FunctionSeq DEF QueueOf, Marks
      <3>3. /\ Tail(QueueOf(h)) \in Seq(Marks) /\ Len(Tail(QueueOf(h))) = n - 1
            /\ \A i \in 1 .. n - 1 : Tail(QueueOf(h))[i] = QueueOf(h)[i + 1]
        BY <3>1, HeadTailProperties
      <3>4. ASSUME NEW i \in 1 .. n - 1 PROVE QueueOf(h)'[i] = QueueOf(h)[i + 1]
        <4>1. Previous(h, i)' = Previous(h, i + 1)
          BY <2>1, <2>2 DEF Previous
        <4> QED
          BY <2>2, <4>1 DEF QueueOf
      <3> QED
        BY <3>1, <3>2, <3>3, <3>4, SeqEqual
    <2>4. LastOf(h)' = LastOf(h)
      <3>1. PICK k \in Nat \ {0} : k = n
        BY <2>2
      <3>2. Len(chan'[h]) = k - 1 /\ \A i \in 1 .. k - 1 : chan'[h][i] = chan[h][i + 1]
        BY <2>2, <3>1
      <3>3. LastOf(h) = chan[h][k]
        BY <2>1, <3>1 DEF LastOf
      <3>4. CASE k = 1
        <4>1. chan'[h] = <<>>
          <5>1. Tail(chan[h]) \in Seq(1 .. MaxAUs)
            BY <2>1, HeadTailProperties
          <5>2. Len(chan'[h]) = 0
            BY <3>2, <3>4
          <5> QED
            BY <2>1, <5>1, <5>2, EmptySeq
        <4> QED
          BY <2>2, <3>3, <3>4, <4>1 DEF LastOf
      <3>5. CASE k # 1
        <4>1. k - 1 \in 1 .. k - 1 /\ (k - 1) + 1 = k /\ k - 1 # 0
          <5> HIDE DEF n
          <5> QED
            BY <3>5
        <4>2. chan'[h][k - 1] = chan[h][k]
          BY <3>2, <4>1
        <4>3. chan'[h] # <<>>
          BY <3>2, <4>1, EmptySeq
        <4> QED
          BY <3>2, <3>3, <4>2, <4>3 DEF LastOf
      <3> QED
        BY <3>4, <3>5
    <2>5. Channel(h)!Take
      BY <2>1, <2>3, <2>4 DEF Channel!Take
    <2> QED
      BY <2>5 DEF Channel!ChannelNext
  <1> QED
    BY <1>1, <1>2

(* Unsubscribe and the watcher close the channel they find in the map, if any. *)
LEMMA RemoveStep ==
    ASSUME IInv, NEW g \in Handles, Remove(IdOf(g)), NEW h \in Handles
    PROVE  [Channel(h)!ChannelNext]_(Channel(h)!channelVars)
  <1>1. /\ UNCHANGED <<chan, dropped, written, latest>> /\ Subscribed' = Subscribed
        /\ closed' \in {closed, closed \cup {subscribers[IdOf(g)]}}
    BY DEF Remove, Subscribed
  <1>2. CASE h \in closed' /\ h \notin closed
    <2>1. QueueOf(h)' = QueueOf(h)
      BY <1>1 DEF QueueOf, Previous
    <2>2. Channel(h)!Close
      BY <1>1, <1>2, <2>1 DEF Channel!Close
    <2> QED
      BY <2>2 DEF Channel!ChannelNext
  <1>3. CASE h \in closed' <=> h \in closed
    BY <1>1, <1>3, ChannelKept
  <1> QED
    BY <1>1, <1>2, <1>3

(* A new subscription finds the channel it was given empty, and has missed
   nothing. *)
LEMMA SubscribeStep ==
    ASSUME IInv, Subscribe, NEW h \in Handles
    PROVE  UNCHANGED Channel(h)!channelVars
  <1>1. CASE h = nextID + 1
    <2>1. /\ chan[h] = <<>> /\ h \notin Subscribed
          /\ chan' = chan /\ dropped' = dropped /\ written' = written /\ closed' = closed
          /\ latest'[h] = written
      <3>1. nextID \in Nat /\ h > nextID
        BY <1>1, BoundsAssumption DEF IInv, TypeOK
      <3>2. chan[h] = <<>>
        BY <3>1 DEF IInv, OnlySubscribedUsed
      <3>3. h \notin Subscribed
        BY <3>1 DEF Subscribed, Handles
      <3>4. latest' = [latest EXCEPT ![h] = written] /\ latest \in [Handles -> 0 .. MaxAUs]
        BY <1>1 DEF Subscribe, IInv, TypeOK
      <3>5. chan' = chan /\ dropped' = dropped /\ written' = written /\ closed' = closed
        BY DEF Subscribe
      <3> QED
        BY <3>2, <3>3, <3>4, <3>5
    <2>2. QueueOf(h)' = QueueOf(h)
      BY <2>1 DEF QueueOf, Previous
    <2>3. LastOf(h)' = written'
      BY <2>1 DEF LastOf
    <2> QED
      BY <2>1, <2>2, <2>3 DEF Channel!channelVars
  <1>2. CASE h # nextID + 1
    <2>1. /\ chan' = chan /\ dropped' = dropped /\ written' = written /\ closed' = closed
          /\ latest'[h] = latest[h]
      BY <1>2 DEF Subscribe, IInv, TypeOK
    <2>2. h \in Subscribed' <=> h \in Subscribed
      <3>1. nextID \in Nat /\ h \in Nat
        BY BoundsAssumption DEF IInv, TypeOK, Handles
      <3>2. nextID' = nextID + 1
        BY DEF Subscribe
      <3>3. h \in 1 .. nextID + 1 <=> h \in 1 .. nextID
        BY <1>2, <3>1
      <3> QED
        BY <3>2, <3>3 DEF Subscribed
    <2> QED
      BY <2>1, <2>2, ChannelKept
  <1> QED
    BY <1>1, <1>2

(* Each step of the hub is, for each subscription, a step of its channel or
   none. *)
LEMMA HubStep ==
    ASSUME IInv, OpenAreRegistered, [Next]_hubVars, NEW h \in Handles
    PROVE  [Channel(h)!ChannelNext]_(Channel(h)!channelVars)
  <1>1. CASE Subscribe
    BY <1>1, SubscribeStep
  <1>2. CASE Write
    BY <1>2, WriteStep
  <1>3. ASSUME NEW g \in Handles, Unsubscribe(g) \/ Watch(g)
        PROVE  [Channel(h)!ChannelNext]_(Channel(h)!channelVars)
    BY <1>3, RemoveStep DEF Unsubscribe, Watch
  <1>4. ASSUME NEW g \in Handles, Receive(g)
        PROVE  [Channel(h)!ChannelNext]_(Channel(h)!channelVars)
    BY <1>4, ReceiveStep
  <1>5. CASE UNCHANGED <<nextID, chan, closed, dropped, written, latest>>
    BY <1>5, ChannelKept DEF Subscribed
  <1> QED
    BY <1>1, <1>2, <1>3, <1>4, <1>5 DEF Next, CancelSub, CancelContext, hubVars

(* The hub implements LossyChannel for every subscription, whatever the others
   do, as long as every counter has an ID of its own: losses are counted when
   they happen, and a hole is where the numbers skip (Write, Subscribe,
   Unsubscribe in hub.go). *)
THEOREM HubIsLossyChannels ==
    ASSUME Unencodable \cap Handles = {}
    PROVE  Spec => ChannelsImplemented
  <1>1. Init => OpenAreRegistered
    BY DEF Init, OpenAreRegistered, Subscribed
  <1>2. IInv /\ OpenAreRegistered /\ [Next]_hubVars => OpenAreRegistered'
    BY NextRegistered
  <1>3. Init => \A h \in Handles : Channel(h)!ChannelInit
    BY DEF Init, Channel!ChannelInit, QueueOf, LastOf, Subscribed
  <1>4. IInv /\ OpenAreRegistered /\ [Next]_hubVars
            => [\A h \in Handles : [Channel(h)!ChannelNext]_(Channel(h)!channelVars)]_hubVars
    BY HubStep
  <1> QED
    BY <1>1, <1>2, <1>3, <1>4, Inductive, PTL DEF Spec, ChannelsImplemented

===============================================================================
