------------------------------ MODULE ParamSets ------------------------------
(***************************************************************************)
(* Parameter sets on their way to the hub (cmd/server/main.go:475-540).    *)
(* An encoder session has an SPS and a PPS of its own.  Some encoders send *)
(* them with the first unit of a session only (mtxrpicam), others with     *)
(* each IDR.  The camera pump of main caches the latest and puts them      *)
(* before an IDR that comes without.  A session begins when the subprocess *)
(* of a source is started again, on the same channel, or with the source a *)
(* Restart builds, on a channel of its own; the forwarding goroutine of    *)
(* the source before may still have units to forward then                  *)
(* (restartable.go:88-134).                                                *)
(***************************************************************************)
EXTENDS Naturals, Sequences

CONSTANTS SourceRoom,       \* capacity of a source's frames channel (30)
          OutRoom,          \* capacity of RestartableCamera.out (4)
          MaxSessions, MaxSessionUnits

ASSUME ParamSetsAssumption ==
    /\ {SourceRoom, OutRoom, MaxSessions} \subseteq Nat \ {0}
    /\ MaxSessionUnits \in Nat

VARIABLES everyIDR,     \* the encoder sends its sets with each IDR
          newest,       \* the session that produces now
          producing,    \* units of that session so far
          home,         \* the source whose channel it delivers to
          channels, inHandOf,   \* of each source: frames channel, unit its pump holds
          stable,       \* RestartableCamera.out
          cachedSets,   \* session of cachedSPS and cachedPPS, or 0
          setsLost,     \* sessions whose sets were dropped from a full channel
          passed,       \* sessions with a unit that came after the sets of a later
                        \* one; when it came with sets, the later ones too
          written       \* the unit AUHub.Write had last: its session, whether it is
                        \* an IDR, the session of the sets it carries

paramVars == <<everyIDR, newest, producing, home, channels, inHandOf, stable,
               cachedSets, setsLost, passed, written>>
sourceSide == <<everyIDR, newest, producing, home, setsLost>>

SourceIds == 1 .. MaxSessions
NoUnit == [session |-> 0, idr |-> FALSE, sets |-> FALSE]

ParamSetsInit ==
    /\ everyIDR \in BOOLEAN
    /\ newest = 1 /\ producing = 0 /\ home = 1
    /\ channels = [c \in SourceIds |-> <<>>] /\ inHandOf = [c \in SourceIds |-> NoUnit]
    /\ stable = <<>> /\ cachedSets = 0
    /\ setsLost = {} /\ passed = {} /\ written = [session |-> 0, idr |-> FALSE, carries |-> 0]

(* A unit of the session; its first one is an IDR with the sets.  A full
   channel drops it. *)
Produce ==
    /\ producing < MaxSessionUnits
    /\ producing' = producing + 1
    /\ \E idr \in (IF producing = 0 THEN {TRUE} ELSE BOOLEAN) :
           LET sets == idr /\ (producing = 0 \/ everyIDR)
               room == Len(channels[home]) < SourceRoom
           IN  /\ channels' = IF room THEN [channels EXCEPT ![home] =
                                  Append(@, [session |-> newest, idr |-> idr, sets |-> sets])]
                              ELSE channels
               /\ setsLost' = IF sets /\ ~room THEN setsLost \union {newest} ELSE setsLost
    /\ UNCHANGED <<everyIDR, newest, home, inHandOf, stable, cachedSets, passed, written>>

(* The subprocess is started again, or Restart replaced the source. *)
BeginSession ==
    /\ newest < MaxSessions
    /\ newest' = newest + 1 /\ producing' = 0
    /\ home' \in {home, newest + 1}
    /\ UNCHANGED <<everyIDR, setsLost, channels, inHandOf, stable, cachedSets, passed, written>>

(* RestartableCamera.pump, in the goroutine of source c. *)
PumpTakes(c) ==
    /\ inHandOf[c] = NoUnit /\ channels[c] # <<>>
    /\ inHandOf' = [inHandOf EXCEPT ![c] = Head(channels[c])]
    /\ channels' = [channels EXCEPT ![c] = Tail(@)]
    /\ UNCHANGED <<sourceSide, stable, cachedSets, passed, written>>

PumpForwards(c) ==
    /\ inHandOf[c] # NoUnit /\ Len(stable) < OutRoom
    /\ stable' = Append(stable, inHandOf[c])
    /\ inHandOf' = [inHandOf EXCEPT ![c] = NoUnit]
    /\ UNCHANGED <<sourceSide, channels, cachedSets, passed, written>>

(* Mutant of Cached: what is cached stays. *)
CachedOnce(unit) == IF unit.sets /\ cachedSets = 0 THEN unit.session ELSE cachedSets

(* The cache after a unit. *)
Cached(unit) == IF unit.sets THEN unit.session ELSE cachedSets

(* One turn of main's loop: cache, inject, write. *)
WriteToHub ==
    /\ stable # <<>>
    /\ LET unit == Head(stable) IN
           /\ cachedSets' = Cached(unit)
           /\ written' = [session |-> unit.session, idr |-> unit.idr,
                          carries |-> IF unit.sets THEN unit.session
                                      ELSE IF unit.idr THEN Cached(unit) ELSE 0]
           /\ passed' = IF unit.session >= cachedSets THEN passed
                        ELSE passed \union IF unit.sets THEN unit.session .. newest
                                           ELSE {unit.session}
    /\ stable' = Tail(stable)
    /\ UNCHANGED <<sourceSide, channels, inHandOf>>

ParamSetsNext ==
    \/ Produce \/ BeginSession \/ WriteToHub
    \/ \E c \in SourceIds : PumpTakes(c) \/ PumpForwards(c)

-----------------------------------------------------------------------------
(* Every IDR reaches the hub with the parameter sets it was coded with, also
   after the encoder was started again, unless the unit that brought them was
   dropped, or a restart let units of two sources overlap (main.go:491-538,
   restartable.go:122-134): a late unit of the old source gets the sets of the
   new one, and its own may stay in the cache. *)
SetsOfTheirSession ==
    written.idr => \/ written.carries = written.session
                   \/ written.session \in setsLost \union passed

=============================================================================
