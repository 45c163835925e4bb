----------------------------- MODULE AUHubChannels ----------------------------
(***************************************************************************)
(* The hub implements, for every subscriber, the bounded lossy FIFO that   *)
(* its consumers (MSE, recording, RTSP) are written against.               *)
(***************************************************************************)
EXTENDS AUHub

(* Refinement: the view of one subscriber is a LossyChannel. *)

Previous(h, i) == IF i = 1 THEN latest[h] ELSE chan[h][i - 1]

(* A unit is preceded by a hole when its number skips one. *)
QueueOf(h) ==
    [i \in 1 .. Len(chan[h]) |->
        [unit |-> "au", gap |-> chan[h][i] # Previous(h, i) + 1]]

LastOf(h) == IF chan[h] = <<>> THEN latest[h] ELSE chan[h][Len(chan[h])]

Channel(h) ==
    INSTANCE LossyChannel
        WITH Units <- {"au"}, MaxLost <- MaxAUs,
             queue <- QueueOf(h),
             lost <- dropped[h],
             hole <- h \in Subscribed \ closed /\ LastOf(h) # written,
             open <- h \notin closed

(* Every subscriber gets the channel the hub promises: whatever the others,
   the hub and the watchers do, each step is one of that channel or none.  The
   conjunction over the handles of Channel(h)!ChannelSpec, written with the
   quantifier inside the box. *)
ChannelsImplemented ==
    /\ \A h \in Handles : Channel(h)!ChannelInit
    /\ [][\A h \in Handles :
            [Channel(h)!ChannelNext]_(Channel(h)!channelVars)]_hubVars

===============================================================================
