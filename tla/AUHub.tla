-------------------------------- MODULE AUHub --------------------------------
(***************************************************************************)
(* The access-unit hub (internal/h264/hub.go): one producer, the camera    *)
(* pump, fans every access unit out to the subscribers (RTSP, MSE,         *)
(* recording, snapshot, AI decoder, GB28181) over bounded channels.        *)
(*                                                                         *)
(* Handle n is the subscription made by the n-th Subscribe call.  Access   *)
(* units are numbered in the order they are written.  The hub's map is     *)
(* keyed by an ID string computed from the call counter, not by handle.    *)
(***************************************************************************)
EXTENDS Naturals, Sequences, FiniteSets

CONSTANTS MaxSubs,      \* bound: Subscribe calls
          MaxAUs,       \* bound: access units written
          Capacity,     \* subscriberBufferSize (config rejects values <= 0)
          Unencodable,  \* counters that are no Unicode scalar value: U+D800..U+DFFF
                        \* and everything above U+10FFFF
          Replacement   \* U+FFFD, what string(rune(n)) yields for those

ASSUME BoundsAssumption == MaxSubs \in Nat /\ MaxAUs \in Nat
ASSUME CapacityAssumption == Capacity \in Nat \ {0}
ASSUME IdAssumption == Unencodable \subseteq Nat /\ Replacement \in Nat

VARIABLES nextID,       \* AUHub.nextID
          subscribers,  \* AUHub.subscribers: ID -> handle, 0 when absent
          chan,         \* Subscriber.Channel of each handle
          closed,       \* handles whose channel was closed
          dropped,      \* Subscriber.dropped of each handle
          droppedAUs,   \* AUHub.droppedAUs
          done,         \* handles whose context is cancelled
          watching,     \* handles whose watcher goroutine still waits
          cancelling,   \* handles between close(sub.Channel) and sub.cancel()
          ended,        \* handles whose own user gave up: its context was
                        \* cancelled from outside, or it called Unsubscribe
          written,      \* access units written so far
          base,         \* value of written at the Subscribe call
          taken,        \* units each consumer has received
          latest        \* the last unit each consumer received

hubVars == <<nextID, subscribers, chan, closed, dropped, droppedAUs, done,
             watching, cancelling, ended, written, base, taken, latest>>

Handles == 1 .. MaxSubs

(* string(rune(h.nextID)), "simple unique ID" *)
IdOf(n) == IF n \in Unencodable THEN Replacement ELSE n

Ids == {IdOf(n) : n \in Handles}

Subscribed == 1 .. nextID

(* The handles a Write reaches: the values of the map. *)
Registered == {h \in Handles : \E id \in Ids : subscribers[id] = h}

TypeOK ==
    /\ nextID \in 0 .. MaxSubs
    /\ subscribers \in [Ids -> 0 .. MaxSubs]
    /\ chan \in [Handles -> Seq(1 .. MaxAUs)]
    /\ \A h \in Handles : Len(chan[h]) <= Capacity
    /\ closed \subseteq Handles
    /\ dropped \in [Handles -> Nat]
    /\ droppedAUs \in Nat
    /\ done \subseteq Handles
    /\ watching \subseteq Handles
    /\ cancelling \subseteq Handles
    /\ ended \subseteq Handles
    /\ written \in 0 .. MaxAUs
    /\ base \in [Handles -> 0 .. MaxAUs]
    /\ taken \in [Handles -> Nat]
    /\ latest \in [Handles -> 0 .. MaxAUs]

Init ==
    /\ nextID = 0
    /\ subscribers = [id \in Ids |-> 0]
    /\ chan = [h \in Handles |-> <<>>]
    /\ closed = {}
    /\ dropped = [h \in Handles |-> 0]
    /\ droppedAUs = 0
    /\ done = {}
    /\ watching = {}
    /\ cancelling = {}
    /\ ended = {}
    /\ written = 0
    /\ base = [h \in Handles |-> 0]
    /\ taken = [h \in Handles |-> 0]
    /\ latest = [h \in Handles |-> 0]

-----------------------------------------------------------------------------

HasRoom(h) == Len(chan[h]) < Capacity

(* Mutant of Subscribe: the new channel is primed with the last unit written. *)
SubscribePrimed ==
    LET n == nextID + 1 IN
    /\ n \in Handles
    /\ nextID' = n
    /\ subscribers' = [subscribers EXCEPT ![IdOf(n)] = n]
    /\ watching' = watching \cup {n}
    /\ base' = [base EXCEPT ![n] = written]
    /\ latest' = [latest EXCEPT ![n] = written]
    /\ chan' = IF written > 0 THEN [chan EXCEPT ![n] = <<written>>] ELSE chan
    /\ UNCHANGED <<closed, dropped, droppedAUs, done, cancelling, ended,
                   written, taken>>

(* Subscribe: the map entry of a colliding ID is overwritten. *)
Subscribe ==
    LET n == nextID + 1 IN
    /\ n \in Handles
    /\ nextID' = n
    /\ subscribers' = [subscribers EXCEPT ![IdOf(n)] = n]
    /\ watching' = watching \cup {n}
    /\ base' = [base EXCEPT ![n] = written]
    /\ latest' = [latest EXCEPT ![n] = written]
    /\ UNCHANGED <<chan, closed, dropped, droppedAUs, done, cancelling, ended,
                   written, taken>>

(* Mutants of Write: only the hub's own counter counts a loss; a full channel
   gives up its oldest unit for the new one. *)
WriteUncounted ==
    LET full == {h \in Registered : ~HasRoom(h)} IN
    /\ written < MaxAUs
    /\ written' = written + 1
    /\ chan' = [h \in Handles |->
                  IF h \in Registered \ full THEN Append(chan[h], written + 1)
                  ELSE chan[h]]
    /\ droppedAUs' = droppedAUs + Cardinality(full)
    /\ UNCHANGED <<nextID, subscribers, closed, dropped, done, watching,
                   cancelling, ended, base, taken, latest>>

WriteEvicting ==
    LET full == {h \in Registered : ~HasRoom(h)} IN
    /\ written < MaxAUs
    /\ written' = written + 1
    /\ chan' = [h \in Handles |->
                  IF h \notin Registered THEN chan[h]
                  ELSE Append(IF h \in full THEN Tail(chan[h]) ELSE chan[h],
                              written + 1)]
    /\ dropped' = [h \in Handles |->
                     IF h \in full THEN dropped[h] + 1 ELSE dropped[h]]
    /\ droppedAUs' = droppedAUs + Cardinality(full)
    /\ UNCHANGED <<nextID, subscribers, closed, done, watching, cancelling,
                   ended, base, taken, latest>>

(* Write: under the mutex, one non-blocking send per registered subscriber. *)
Write ==
    LET full == {h \in Registered : ~HasRoom(h)} IN
    /\ written < MaxAUs
    /\ written' = written + 1
    /\ chan' = [h \in Handles |->
                  IF h \in Registered \ full THEN Append(chan[h], written + 1)
                  ELSE chan[h]]
    /\ dropped' = [h \in Handles |->
                     IF h \in full THEN dropped[h] + 1 ELSE dropped[h]]
    /\ droppedAUs' = droppedAUs + Cardinality(full)
    /\ UNCHANGED <<nextID, subscribers, closed, done, watching, cancelling,
                   ended, base, taken, latest>>

(* Mutant of Remove: the channel is closed, the entry stays. *)
RemoveKeepsEntry(id) ==
    LET sub == subscribers[id] IN
    /\ closed' = IF sub = 0 THEN closed ELSE closed \cup {sub}
    /\ cancelling' = IF sub = 0 THEN cancelling ELSE cancelling \cup {sub}
    /\ UNCHANGED <<nextID, subscribers, chan, dropped, droppedAUs, written,
                   base, taken, latest>>

(* Unsubscribe(id) up to the unlock: a missing ID is a no-op, otherwise the
   entry is deleted and the channel it holds is closed. *)
Remove(id) ==
    LET sub == subscribers[id] IN
    /\ subscribers' = [subscribers EXCEPT ![id] = 0]
    /\ closed' = IF sub = 0 THEN closed ELSE closed \cup {sub}
    /\ cancelling' = IF sub = 0 THEN cancelling ELSE cancelling \cup {sub}
    /\ UNCHANGED <<nextID, chan, dropped, droppedAUs, written, base, taken, latest>>

(* A user that is finished calls Unsubscribe with the ID it was given. *)
Unsubscribe(h) ==
    /\ h \in Subscribed \ ended
    /\ ended' = ended \cup {h}
    /\ Remove(IdOf(h))
    /\ UNCHANGED <<done, watching>>

(* sub.cancel(), after the mutex is released. *)
CancelSub(h) ==
    /\ h \in cancelling
    /\ cancelling' = cancelling \ {h}
    /\ done' = done \cup {h}
    /\ UNCHANGED <<nextID, subscribers, chan, closed, dropped, droppedAUs,
                   watching, ended, written, base, taken, latest>>

(* The context the subscriber was created under is cancelled. *)
CancelContext(h) ==
    /\ h \in Subscribed \ done
    /\ done' = done \cup {h}
    /\ ended' = ended \cup {h}
    /\ UNCHANGED <<nextID, subscribers, chan, closed, dropped, droppedAUs,
                   watching, cancelling, written, base, taken, latest>>

(* Mutants of Watch: Unsubscribe is not deferred to the end of the context;
   the goroutine ends without it. *)
WatchWithoutWaiting(h) ==
    /\ h \in watching
    /\ watching' = watching \ {h}
    /\ Remove(IdOf(h))
    /\ UNCHANGED <<done, ended>>

WatchForgets(h) ==
    /\ h \in watching \cap done
    /\ watching' = watching \ {h}
    /\ UNCHANGED <<nextID, subscribers, chan, closed, dropped, droppedAUs, done,
                   cancelling, ended, written, base, taken, latest>>

(* The watcher goroutine: <-ctx.Done(), then the deferred Unsubscribe. *)
Watch(h) ==
    /\ h \in watching \cap done
    /\ watching' = watching \ {h}
    /\ Remove(IdOf(h))
    /\ UNCHANGED <<done, ended>>

(* The consumer takes the oldest unit of its channel. *)
Receive(h) ==
    /\ h \in Subscribed
    /\ chan[h] # <<>>
    /\ chan' = [chan EXCEPT ![h] = Tail(@)]
    /\ taken' = [taken EXCEPT ![h] = @ + 1]
    /\ latest' = [latest EXCEPT ![h] = Head(chan[h])]
    /\ UNCHANGED <<nextID, subscribers, closed, dropped, droppedAUs, done,
                   watching, cancelling, ended, written, base>>

Next ==
    \/ Subscribe
    \/ Write
    \/ \E h \in Handles :
          \/ Unsubscribe(h)
          \/ CancelSub(h)
          \/ CancelContext(h)
          \/ Watch(h)
          \/ Receive(h)

(* Goroutines the hub itself starts are scheduled; users and the camera owe
   it nothing. *)
Fairness ==
    \A h \in Handles : WF_hubVars(CancelSub(h)) /\ WF_hubVars(Watch(h))

Spec == Init /\ [][Next]_hubVars /\ Fairness

-----------------------------------------------------------------------------

(* Write never sends on a closed channel (which would panic the camera pump):
   a channel is closed only in the critical section that removes its map
   entry, whoever of the two possible callers of Unsubscribe comes first. *)
RegisteredChannelsOpen == Registered \cap closed = {}

(* Every unit written while a subscriber was registered was handed over, is
   still buffered, or is in the subscriber's drop counter: a consumer that
   watches Dropped() can tell a hole from a quiet camera. *)
EveryUnitAccountedFor ==
    \A h \in Registered :
        taken[h] + Len(chan[h]) + dropped[h] = written - base[h]

(* A consumer sees the units in the order they were written, each at most
   once, and none from before its subscription. *)
DeliveredInOrder ==
    \A h \in Subscribed :
        /\ \A i \in 1 .. Len(chan[h]) : latest[h] < chan[h][i]
        /\ \A i, j \in 1 .. Len(chan[h]) : i < j => chan[h][i] < chan[h][j]

(* A subscription ends only through its own context or its own Unsubscribe,
   never because of another subscriber: what the "simple unique ID" is for. *)
ClosedOnlyByItsUser == closed \subseteq ended

(* The subscriber is automatically removed when its context is cancelled: its
   channel is eventually closed, so that its consumer's loop ends. *)
CancelledSubscribersClosed ==
    \A h \in Handles : h \in ended ~> h \in closed

===============================================================================
