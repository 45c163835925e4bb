------------------------------ MODULE RtspMounts ------------------------------
(***************************************************************************)
(* The RTSP server (internal/rtsp/server.go): sessions on the main and the *)
(* sub mount, the client count that starts and stops the frame reader of a *)
(* mount, the lazily created stream that is replaced when new parameter    *)
(* sets arrive, and Stop.  The sub mount has a frame source only when the  *)
(* substream is on, and only after the server began to listen.             *)
(*                                                                         *)
(* gortsplib calls the handlers; it is modelled by the order it calls them *)
(* in: SETUP, PLAY, PLAY again, a close at any time, and a close of every session   *)
(* whose stream was closed.  One action per critical section of Server.mu. *)
(***************************************************************************)
EXTENDS Integers, FiniteSets

CONSTANTS Mounts,       \* the main and the sub mount
          SubMount,     \* the mount of the substream, which may be off
          Sessions,     \* bound: the sessions clients open
          Readers,      \* bound: reader goroutines alive at a time
          MaxPlays      \* bound: below this count a playing session plays again

ASSUME MountsAssumption == SubMount \in Mounts /\ MaxPlays \in Nat

VARIABLES session,      \* where a session is in its life
          mountOf,      \* Server.sessions, for sessions that are in the map
          attached,     \* sessions whose stream was not closed
          clientCount,  \* mount.clientCount
          cancel,       \* the readers whose cancel func is in mount.cancel
          reader,       \* the reader goroutines
          stream,       \* mounts with a stream
          source,       \* mount.frameSource: nil, or a channel of the hub
          phase,        \* how far shutting down got
          aborted,      \* while up: mounts where a session closed before its PLAY
          replayed      \* while up: mounts where a playing session sent PLAY again

vars == <<session, mountOf, attached, clientCount, cancel, reader, stream,
          source, phase, aborted, replayed>>

Off == [m |-> SubMount, pc |-> "off", cancelled |-> FALSE, deaf |-> FALSE]

TypeOK ==
    /\ session \in [Sessions -> {"none", "setting", "setup", "playing", "closed"}]
    /\ mountOf \in [Sessions -> Mounts]
    /\ attached \subseteq Sessions
    /\ clientCount \in [Mounts -> -Cardinality(Sessions) .. Cardinality(Sessions) + MaxPlays]
    /\ cancel \in [Mounts -> SUBSET Readers]
    /\ reader \in [Readers -> [m : Mounts, pc : {"off", "select", "process"},
                               cancelled : BOOLEAN, deaf : BOOLEAN]]
    /\ stream \subseteq Mounts
    /\ source \in [Mounts -> {"none", "open", "closed"}]
    /\ phase \in {"up", "cancelled", "waiting", "closing", "down"}
    /\ aborted \subseteq Mounts
    /\ replayed \subseteq Mounts

Init ==
    /\ session = [s \in Sessions |-> "none"]
    /\ mountOf = [s \in Sessions |-> Off.m]
    /\ attached = {}
    /\ clientCount = [m \in Mounts |-> 0]
    /\ cancel = [m \in Mounts |-> {}]
    /\ reader = [r \in Readers |-> Off]
    /\ stream = {}
    /\ source = [m \in Mounts |-> IF m = SubMount THEN "none" ELSE "open"]
    /\ phase = "up"
    /\ aborted = {}
    /\ replayed = {}

Players(m) == {s \in Sessions : session[s] = "playing" /\ mountOf[s] = m}
Running(m) == {r \in Readers : reader[r].pc # "off" /\ reader[r].m = m}
Live(m) == {r \in Running(m) : ~reader[r].cancelled}
Serving == phase # "down"

-----------------------------------------------------------------------------
(* Readers *)

(* startFrameReaderLocked.  The reader is deaf when its select finds no channel
   in the mount: it waits there for its context only. *)
StartReader(m) ==
    LET idle == {r \in Readers : reader[r].pc = "off"}
        r == CHOOSE r \in idle : TRUE
    IN  /\ idle # {}
        /\ \E deaf \in IF source[m] = "none" THEN BOOLEAN ELSE {FALSE} :
              reader' = [reader EXCEPT ![r] =
                  [m |-> m, pc |-> "select", cancelled |-> FALSE, deaf |-> deaf]]
        /\ cancel' = [cancel EXCEPT ![m] = {r}]

Cancelled(R) ==
    [r \in Readers |-> IF r \in R THEN [reader[r] EXCEPT !.cancelled = TRUE] ELSE reader[r]]

(* Mutant of StopReader: the cancel func is dropped, not called. *)
StopReaderForgets(m) ==
    /\ cancel' = [cancel EXCEPT ![m] = {}]
    /\ UNCHANGED reader

(* stopFrameReaderLocked *)
StopReader(m) ==
    /\ reader' = Cancelled(cancel[m])
    /\ cancel' = [cancel EXCEPT ![m] = {}]

(* Mutant of ReaderEnds: a closed channel is not an end. *)
ReaderEndsCancelled(r) ==
    /\ reader[r].pc = "select"
    /\ reader[r].cancelled
    /\ reader' = [reader EXCEPT ![r] = Off]
    /\ cancel' = [m \in Mounts |-> cancel[m] \ {r}]
    /\ UNCHANGED <<session, mountOf, attached, clientCount, stream, source, phase, aborted, replayed>>

(* readFrames ends: its context is done or its channel is closed and empty. *)
ReaderEnds(r) ==
    /\ reader[r].pc = "select"
    /\ reader[r].cancelled \/ (~reader[r].deaf /\ source[reader[r].m] = "closed")
    /\ reader' = [reader EXCEPT ![r] = Off]
    /\ cancel' = [m \in Mounts |-> cancel[m] \ {r}]
    /\ UNCHANGED <<session, mountOf, attached, clientCount, stream, source, phase, aborted, replayed>>

(* The select of a cancelled reader may still prefer a frame. *)
TakeFrame(r) ==
    /\ reader[r].pc = "select"
    /\ ~reader[r].deaf /\ source[reader[r].m] = "open"
    /\ reader' = [reader EXCEPT ![r].pc = "process"]
    /\ UNCHANGED <<session, mountOf, attached, clientCount, cancel, stream,
                   source, phase, aborted, replayed>>

(* A closed stream takes its sessions with it. *)
CloseStreams(M) == attached' = {s \in attached : mountOf[s] \notin M}

(* processAccessUnit; with both parameter sets in the unit updateFormat
   replaces the stream of a mount nobody plays (the new one may fail to
   initialize). *)
Process(r) ==
    LET m == reader[r].m IN
    /\ reader[r].pc = "process"
    /\ reader' = [reader EXCEPT ![r].pc = "select"]
    /\ \E parameterSets \in BOOLEAN :
          IF parameterSets /\ m \in stream /\ clientCount[m] = 0
          THEN /\ CloseStreams({m})
               /\ stream' \in {stream, stream \ {m}}
          ELSE UNCHANGED <<attached, stream>>
    /\ UNCHANGED <<session, mountOf, clientCount, cancel, source, phase, aborted, replayed>>

-----------------------------------------------------------------------------
(* Handlers *)

(* streamFor, called by OnDescribe and OnSetup. *)
HaveStream(m) == stream' \in {stream, stream \cup {m}}

OnDescribe(m) ==
    /\ Serving
    /\ HaveStream(m)
    /\ UNCHANGED <<session, mountOf, attached, clientCount, cancel, reader,
                   source, phase, aborted, replayed>>

(* OnSetup up to streamFor; without a stream the answer is 404. *)
OnSetup(s, m) ==
    /\ Serving
    /\ session[s] = "none"
    /\ s = CHOOSE t \in Sessions : session[t] = "none"     \* any new name will do
    /\ HaveStream(m)
    /\ m \in stream'
    /\ session' = [session EXCEPT ![s] = "setting"]
    /\ mountOf' = [mountOf EXCEPT ![s] = m]
    /\ attached' = attached \cup {s}
    /\ UNCHANGED <<clientCount, cancel, reader, source, phase, aborted, replayed>>

(* The rest of OnSetup: the session is entered in the map. *)
RecordSetup(s) ==
    /\ session[s] = "setting"
    /\ session' = [session EXCEPT ![s] = "setup"]
    /\ UNCHANGED <<mountOf, attached, clientCount, cancel, reader, stream,
                   source, phase, aborted, replayed>>

(* What aborted and replayed hold is asked for only while the process is up. *)
Noted(M, m) == IF phase = "up" THEN M \cup {m} ELSE M

(* gortsplib passes PLAY on for a session that was set up or already plays. *)
MayPlay(s) ==
    \/ session[s] = "setup"
    \/ session[s] = "playing" /\ clientCount[mountOf[s]] < MaxPlays

(* Mutant of OnPlay: every PLAY starts a reader. *)
OnPlayStarts(s) ==
    LET m == mountOf[s] IN
    /\ Serving
    /\ MayPlay(s)
    /\ session' = [session EXCEPT ![s] = "playing"]
    /\ clientCount' = [clientCount EXCEPT ![m] = @ + 1]
    /\ StartReader(m)
    /\ replayed' = IF session[s] = "playing" THEN Noted(replayed, m) ELSE replayed
    /\ UNCHANGED <<mountOf, attached, stream, source, phase, aborted>>

(* Every PLAY is counted, the repeated one of a session as well. *)
OnPlay(s) ==
    LET m == mountOf[s] IN
    /\ Serving
    /\ MayPlay(s)
    /\ session' = [session EXCEPT ![s] = "playing"]
    /\ clientCount' = [clientCount EXCEPT ![m] = @ + 1]
    /\ IF clientCount[m] + 1 = 1 THEN StartReader(m) ELSE UNCHANGED <<cancel, reader>>
    /\ replayed' = IF session[s] = "playing" THEN Noted(replayed, m) ELSE replayed
    /\ UNCHANGED <<mountOf, attached, stream, source, phase, aborted>>

(* TEARDOWN, a lost connection, a timeout, a closed stream or server. *)
OnSessionClose(s) ==
    LET m == mountOf[s] IN
    /\ session[s] \in {"setup", "playing"}
    /\ session' = [session EXCEPT ![s] = "closed"]
    /\ mountOf' = [mountOf EXCEPT ![s] = Off.m]
    /\ attached' = attached \ {s}
    /\ clientCount' = [clientCount EXCEPT ![m] = @ - 1]
    /\ IF clientCount[m] - 1 = 0 THEN StopReader(m) ELSE UNCHANGED <<cancel, reader>>
    /\ aborted' = IF session[s] = "setup" THEN Noted(aborted, m) ELSE aborted
    /\ UNCHANGED <<stream, source, phase, replayed>>

-----------------------------------------------------------------------------
(* SetSubFrameSource: main calls it after Start, when the substream is on. *)
SetSubFrameSource ==
    /\ phase = "up"
    /\ source[SubMount] = "none"
    /\ source' = [source EXCEPT ![SubMount] = "open"]
    /\ UNCHANGED <<session, mountOf, attached, clientCount, cancel, reader,
                   stream, phase, aborted, replayed>>

(* Shutting down: the context of the process is cancelled, upon which the hub
   closes the frame sources; main calls Stop. *)

CancelContext ==
    /\ phase = "up"
    /\ phase' = "cancelled"
    /\ aborted' = {} /\ replayed' = {}
    /\ UNCHANGED <<session, mountOf, attached, clientCount, cancel, reader,
                   stream, source>>

SourceCloses(m) ==
    /\ phase # "up"
    /\ source[m] = "open"
    /\ source' = [source EXCEPT ![m] = "closed"]
    /\ UNCHANGED <<session, mountOf, attached, clientCount, cancel, reader,
                   stream, phase, aborted, replayed>>

Stop ==
    /\ phase = "cancelled"
    /\ phase' = "waiting"
    /\ reader' = Cancelled(UNION {cancel[m] : m \in Mounts})
    /\ cancel' = [m \in Mounts |-> {}]
    /\ UNCHANGED <<session, mountOf, attached, clientCount, stream, source, aborted, replayed>>

(* wg.Wait returns; the streams are closed. *)
StopWaited ==
    /\ phase = "waiting"
    /\ \A m \in Mounts : Running(m) = {}
    /\ phase' = "closing"
    /\ CloseStreams(stream)
    /\ stream' = {}
    /\ UNCHANGED <<session, mountOf, clientCount, cancel, reader, source, aborted, replayed>>

(* rtspServer.Close *)
StopServer ==
    /\ phase = "closing"
    /\ phase' = "down"
    /\ UNCHANGED <<session, mountOf, attached, clientCount, cancel, reader,
                   stream, source, aborted, replayed>>

Shutdown ==
    \/ CancelContext
    \/ \E m \in Mounts : SourceCloses(m)
    \/ Stop
    \/ StopWaited
    \/ StopServer

Next ==
    \/ \E r \in Readers : ReaderEnds(r) \/ TakeFrame(r) \/ Process(r)
    \/ \E m \in Mounts : OnDescribe(m)
    \/ \E s \in Sessions, m \in Mounts : OnSetup(s, m)
    \/ \E s \in Sessions : RecordSetup(s) \/ OnPlay(s) \/ OnSessionClose(s)
    \/ SetSubFrameSource
    \/ Shutdown

(* The server's goroutines are scheduled; gortsplib closes a session whose
   stream, or the server, is gone.  Clients owe nothing. *)
Fairness ==
    /\ \A r \in Readers : WF_vars(ReaderEnds(r)) /\ WF_vars(Process(r))
    /\ \A m \in Mounts : WF_vars(SourceCloses(m))
    /\ WF_vars(StopWaited) /\ WF_vars(StopServer)
    /\ \A s \in Sessions :
          /\ WF_vars(RecordSetup(s))
          /\ WF_vars((s \notin attached \/ ~Serving) /\ OnSessionClose(s))

Spec == Init /\ [][Next]_vars /\ Fairness

-----------------------------------------------------------------------------

(* Whatever sessions do, a mount has at most one reader that is not about to
   end: two of them would split the frames between themselves. *)
OneLiveReader == \A m \in Mounts : Cardinality(Live(m)) <= 1

(* Until the process goes down, a mount that somebody plays has a reader, unless
   a session of it was closed before its PLAY; and no reader goes on for nobody,
   unless a session of it sent PLAY twice.  The count alone does not show it:
   the reader is a goroutine of its own, and Stop, sources and streams end
   sessions and readers in their own order. *)
ReadWhilePlayed ==
    phase = "up" =>
        \A m \in Mounts \ aborted :
            /\ Players(m) # {} => Live(m) # {}
            /\ m \notin replayed /\ Live(m) # {} => Players(m) # {}

(* Nothing but the close of its sessions ends this reader. *)
WaitsForever(r) ==
    /\ reader[r].pc # "off" /\ ~reader[r].cancelled
    /\ reader[r].deaf \/ source[reader[r].m] = "none"

(* Stop ends, although sessions may still be set up and start to play while it
   waits (it cancels only the readers it finds), and no session is left behind,
   nor a reader that has a source: unless again and again a PLAY that came after
   Stop's cancels keeps a reader on a mount without a source. *)
StopCompletes ==
    \/ []<>(phase = "waiting" /\ \E r \in Readers : WaitsForever(r))
    \/ phase = "waiting" ~>
           /\ phase = "down"
           /\ \A r \in Readers : reader[r].pc = "off" \/ WaitsForever(r)
           /\ \A s \in Sessions : session[s] \in {"none", "closed"}

===============================================================================
