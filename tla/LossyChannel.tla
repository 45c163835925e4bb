----------------------------- MODULE LossyChannel -----------------------------
(***************************************************************************)
(* What the access-unit hub promises each of its subscribers               *)
(* (internal/h264/hub.go): a bounded first-in first-out channel that never *)
(* blocks the producer.  A unit that finds the channel full is lost, the   *)
(* loss is counted, and the hole it leaves in the stream lies just before  *)
(* the next unit that does get through.  The abstract specification of one *)
(* subscription; AUHub implements it for every subscriber at once, and the *)
(* consumers (MseStream) are written against it.                           *)
(***************************************************************************)
EXTENDS Naturals, Sequences

CONSTANTS Units,        \* the kinds of access unit a consumer tells apart
          Capacity,     \* AUHub.subscriberBufferSize
          MaxLost       \* bound: losses the model counts before it stops losing

ASSUME CapacityAssumption == Capacity \in Nat \ {0}
ASSUME MaxLostAssumption == MaxLost \in Nat

VARIABLES queue,        \* Subscriber.Channel: units with a flag, "a hole precedes me"
          hole,         \* the units written last were lost, nothing queued since
          lost,         \* Subscriber.dropped
          open          \* registered with the hub, channel not closed

channelVars == <<queue, hole, lost, open>>

Item == [unit : Units, gap : BOOLEAN]

ChannelTypeOK ==
    /\ queue \in Seq(Item)
    /\ Len(queue) <= Capacity
    /\ hole \in BOOLEAN
    /\ lost \in 0 .. MaxLost
    /\ open \in BOOLEAN

ChannelInit ==
    /\ queue = <<>>
    /\ hole = FALSE
    /\ lost = 0
    /\ open = TRUE

(* The producer's non-blocking send finds room. *)
Deliver(u) ==
    /\ open
    /\ Len(queue) < Capacity
    /\ queue' = Append(queue, [unit |-> u, gap |-> hole])
    /\ hole' = FALSE
    /\ UNCHANGED <<lost, open>>

(* The producer's non-blocking send takes the default branch. *)
Lose ==
    /\ open
    /\ Len(queue) >= Capacity
    /\ lost < MaxLost
    /\ lost' = lost + 1
    /\ hole' = TRUE
    /\ UNCHANGED <<queue, open>>

(* The consumer takes the oldest unit: also after the close, until empty. *)
Take ==
    /\ queue # <<>>
    /\ queue' = Tail(queue)
    /\ UNCHANGED <<hole, lost, open>>

(* Unsubscribe closes the channel: nothing is ever sent on it again, so there
   is no next unit for a hole to precede. *)
Close ==
    /\ open
    /\ open' = FALSE
    /\ hole' = FALSE
    /\ UNCHANGED <<queue, lost>>

ChannelNext ==
    \/ \E u \in Units : Deliver(u)
    \/ Lose
    \/ Take
    \/ Close

ChannelSpec == ChannelInit /\ [][ChannelNext]_channelVars

===============================================================================
