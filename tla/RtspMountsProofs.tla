--------------------------- MODULE RtspMountsProofs ---------------------------
(***************************************************************************)
(* Proofs about the readers of the RTSP server, for any number of mounts,  *)
(* sessions and reader goroutines.                                         *)
(***************************************************************************)
EXTENDS RtspMounts, FiniteSetTheorems, TLAPS

(* What the argument needs of the types. *)
Reader == [m : Mounts, pc : {"off", "select", "process"}, cancelled : BOOLEAN,
           deaf : BOOLEAN]

ReaderTypes ==
    /\ mountOf \in [Sessions -> Mounts]
    /\ clientCount \in [Mounts -> Int]
    /\ cancel \in [Mounts -> SUBSET Readers]
    /\ reader \in [Readers -> Reader]

(* mount.cancel reaches the readers of the mount that are not about to end, and
   no other. *)
CancelReachesLive == \A m \in Mounts : cancel[m] = Live(m)

(* A mount without players by its count has no reader that goes on. *)
NoReaderWithoutCount == \A m \in Mounts : clientCount[m] <= 0 => Live(m) = {}

(* OneLiveReader without cardinalities. *)
LiveReadersAreOne == \A m \in Mounts : \A r, t \in Live(m) : r = t

IInv ==
    /\ ReaderTypes
    /\ CancelReachesLive
    /\ NoReaderWithoutCount
    /\ LiveReadersAreOne

(* A server that was not played from has no reader. *)
LEMMA InitInv == Init => IInv
  <1> SUFFICES ASSUME Init PROVE IInv
    OBVIOUS
  <1>1. Off.m \in Mounts /\ Off \in Reader /\ Off.pc = "off"
    BY MountsAssumption DEF Off, Reader
  <1>2. ReaderTypes
    BY <1>1 DEF Init, ReaderTypes
  <1>3. \A m \in Mounts : Live(m) = {}
    BY <1>1 DEF Init, Live, Running
  <1>4. \A m \in Mounts : cancel[m] = {}
    BY DEF Init
  <1> QED
    BY <1>2, <1>3, <1>4 DEF IInv, CancelReachesLive, NoReaderWithoutCount, LiveReadersAreOne

(* startFrameReaderLocked on a mount whose readers have all ended or been
   cancelled: the new reader is the one that goes on, and it is in mount.cancel. *)
LEMMA StartedReader ==
    ASSUME ReaderTypes, CancelReachesLive, NEW m \in Mounts, Live(m) = {}, StartReader(m)
    PROVE  /\ cancel' \in [Mounts -> SUBSET Readers]
           /\ reader' \in [Readers -> Reader]
           /\ \E r \in Readers : Live(m)' = {r} /\ cancel'[m] = {r}
           /\ \A n \in Mounts \ {m} : Live(n)' = Live(n) /\ cancel'[n] = cancel[n]
  <1> DEFINE idle == {r \in Readers : reader[r].pc = "off"}
  <1>1. PICK r \in idle, d \in BOOLEAN :
            /\ reader' = [reader EXCEPT ![r] =
                   [m |-> m, pc |-> "select", cancelled |-> FALSE, deaf |-> d]]
            /\ cancel' = [cancel EXCEPT ![m] = {r}]
    <2> DEFINE r0 == CHOOSE r \in idle : TRUE
    <2>1. r0 \in idle
      BY DEF StartReader
    <2> QED
      BY <2>1 DEF StartReader
  <1>2. reader'[r] = [m |-> m, pc |-> "select", cancelled |-> FALSE, deaf |-> d]
    BY <1>1 DEF ReaderTypes
  <1>3. \A t \in Readers : t # r => reader'[t] = reader[t]
    BY <1>1 DEF ReaderTypes
  <1>4. reader' \in [Readers -> Reader]
    BY <1>1 DEF ReaderTypes, Reader
  <1>5. cancel' \in [Mounts -> SUBSET Readers] /\ cancel'[m] = {r}
        /\ \A n \in Mounts \ {m} : cancel'[n] = cancel[n]
    BY <1>1 DEF ReaderTypes
  <1>6. Live(m)' = {r}
    BY <1>1, <1>2, <1>3 DEF Live, Running
  <1>7. \A n \in Mounts \ {m} : Live(n)' = Live(n)
    BY <1>1, <1>2, <1>3 DEF Live, Running
  <1> QED
    BY <1>1, <1>4, <1>5, <1>6, <1>7

(* What a cancel func does to a reader. *)
LEMMA CancelledReader ==
    ASSUME NEW x \in Reader, NEW y, y = [x EXCEPT !.cancelled = TRUE]
    PROVE  y \in Reader /\ y.m = x.m /\ y.pc = x.pc /\ y.cancelled
  BY DEF Reader

(* Cancelling every reader a mount's cancel reaches leaves it without a reader
   that goes on: stopFrameReaderLocked, and Stop for all mounts at once. *)
LEMMA CancelledReaders ==
    ASSUME ReaderTypes, CancelReachesLive, NEW M \in SUBSET Mounts,
           reader' = Cancelled(UNION {cancel[m] : m \in M}),
           cancel' = [m \in Mounts |-> IF m \in M THEN {} ELSE cancel[m]]
    PROVE  /\ cancel' \in [Mounts -> SUBSET Readers]
           /\ reader' \in [Readers -> Reader]
           /\ \A m \in M : Live(m)' = {} /\ cancel'[m] = {}
           /\ \A m \in Mounts \ M : Live(m)' = Live(m) /\ cancel'[m] = cancel[m]
  <1> DEFINE R == UNION {cancel[m] : m \in M}
  <1>1. \A r \in Readers :
            reader'[r] = IF r \in R THEN [reader[r] EXCEPT !.cancelled = TRUE] ELSE reader[r]
    BY DEF Cancelled
  <1>2. \A r \in Readers : r \in R <=> r \in Live(reader[r].m) /\ reader[r].m \in M
    BY DEF CancelReachesLive, Live, Running, ReaderTypes, Reader
  <1>3. ASSUME NEW r \in Readers
        PROVE  /\ reader'[r] \in Reader
               /\ reader'[r].m = reader[r].m
               /\ reader'[r].pc = reader[r].pc
               /\ reader'[r].cancelled <=> reader[r].cancelled \/ r \in R
    <2>1. reader[r] \in Reader
      BY DEF ReaderTypes
    <2>2. CASE r \in R
      <3>1. reader'[r] = [reader[r] EXCEPT !.cancelled = TRUE]
        BY <1>1, <2>2
      <3>2. /\ reader'[r] \in Reader
            /\ reader'[r].m = reader[r].m
            /\ reader'[r].pc = reader[r].pc
            /\ reader'[r].cancelled
        BY <2>1, <3>1, CancelledReader
      <3> QED
        BY <2>2, <3>2
    <2>3. CASE r \notin R
      <3>1. reader'[r] = reader[r]
        BY <1>1, <2>3
      <3> QED
        BY <2>1, <2>3, <3>1
    <2> QED
      BY <2>2, <2>3
  <1>4. reader' \in [Readers -> Reader]
    BY <1>3 DEF Cancelled
  <1> HIDE DEF R
  <1>5. ASSUME NEW m \in M PROVE Live(m)' = {}
    <2>1. ASSUME NEW r \in Readers, reader'[r].pc # "off", reader'[r].m = m
          PROVE  reader'[r].cancelled
      BY <1>2, <1>3, <2>1 DEF Live, Running
    <2> QED
      BY <2>1 DEF Live, Running
  <1>6. ASSUME NEW m \in Mounts \ M PROVE Live(m)' = Live(m)
    <2>1. ASSUME NEW r \in Readers PROVE r \in Live(m)' <=> r \in Live(m)
      BY <1>2, <1>3, <2>1 DEF Live, Running
    <2> QED
      BY <2>1 DEF Live, Running
  <1> QED
    BY <1>4, <1>5, <1>6 DEF ReaderTypes

(* Mounts are only compared: what happens to one leaves the others as they are. *)
Unchanged(n) == clientCount'[n] = clientCount[n] /\ cancel'[n] = cancel[n] /\ Live(n)' = Live(n)

(* The invariant for one mount. *)
MountInv(n) ==
    /\ cancel[n] = Live(n)
    /\ clientCount[n] <= 0 => Live(n) = {}
    /\ \A r, t \in Live(n) : r = t

(* A step that keeps the invariant of the mounts it touches keeps it. *)
LEMMA MountByMount ==
    ASSUME IInv, ReaderTypes', \A n \in Mounts : Unchanged(n) \/ MountInv(n)'
    PROVE  IInv'
  BY DEF IInv, MountInv, Unchanged, CancelReachesLive, NoReaderWithoutCount, LiveReadersAreOne

(* The reader's own steps: a reader that ends is in no cancel any more, and one
   that takes or finishes a frame is as much alive as before. *)
LEMMA ReaderSteps ==
    ASSUME IInv, NEW r \in Readers, ReaderEnds(r) \/ TakeFrame(r) \/ Process(r)
    PROVE  IInv'
  <1>1. CASE ReaderEnds(r)
    <2>1. Off \in Reader /\ Off.pc = "off"
      BY MountsAssumption DEF Off, Reader
    <2>2. ReaderTypes'
      BY <1>1, <2>1 DEF ReaderEnds, IInv, ReaderTypes
    <2>3. \A n \in Mounts : Live(n)' = Live(n) \ {r} /\ cancel'[n] = cancel[n] \ {r}
      BY <1>1, <2>1 DEF ReaderEnds, IInv, ReaderTypes, Live, Running
    <2> QED
      BY <1>1, <2>2, <2>3, MountByMount DEF ReaderEnds, IInv, MountInv,
         CancelReachesLive, NoReaderWithoutCount, LiveReadersAreOne
  <1>2. CASE TakeFrame(r) \/ Process(r)
    <2>1. /\ UNCHANGED <<mountOf, clientCount, cancel>>
          /\ reader[r].pc # "off"
          /\ \E p \in {"select", "process"} : reader' = [reader EXCEPT ![r].pc = p]
      BY <1>2 DEF TakeFrame, Process
    <2>2. ReaderTypes'
      BY <2>1 DEF IInv, ReaderTypes, Reader
    <2>3. \A n \in Mounts : Live(n)' = Live(n)
      BY <2>1 DEF IInv, ReaderTypes, Reader, Live, Running
    <2> QED
      BY <2>1, <2>2, <2>3, MountByMount DEF Unchanged
  <1> QED
    BY <1>1, <1>2

(* PLAY starts a reader only when the count comes from 0, and then no reader of
   the mount goes on. *)
LEMMA PlaySteps ==
    ASSUME IInv, NEW s \in Sessions, OnPlay(s)
    PROVE  IInv'
  <1>0. PICK m \in Mounts : m = mountOf[s]
    BY DEF IInv, ReaderTypes
  <1>1. clientCount[m] \in Int
    BY DEF IInv, ReaderTypes
  <1>2. /\ mountOf' = mountOf
        /\ clientCount' = [clientCount EXCEPT ![m] = @ + 1]
        /\ IF clientCount[m] + 1 = 1 THEN StartReader(m) ELSE UNCHANGED <<cancel, reader>>
    BY <1>0 DEF OnPlay
  <1>3. clientCount' \in [Mounts -> Int] /\ clientCount'[m] = clientCount[m] + 1
        /\ \A n \in Mounts \ {m} : clientCount'[n] = clientCount[n]
    BY <1>1, <1>2 DEF IInv, ReaderTypes
  <1>4. CASE clientCount[m] = 0
    <2>1. StartReader(m) /\ Live(m) = {}
      BY <1>1, <1>2, <1>4 DEF IInv, NoReaderWithoutCount
    <2>2. /\ cancel' \in [Mounts -> SUBSET Readers]
          /\ reader' \in [Readers -> Reader]
          /\ \E r \in Readers : Live(m)' = {r} /\ cancel'[m] = {r}
          /\ \A n \in Mounts \ {m} : Live(n)' = Live(n) /\ cancel'[n] = cancel[n]
      BY <1>1, <2>1, StartedReader DEF IInv
    <2>3. ReaderTypes'
      BY <1>2, <1>3, <2>2 DEF IInv, ReaderTypes
    <2>4. MountInv(m)'
      <3>1. clientCount'[m] = 1
        BY <1>3, <1>4
      <3> QED
        BY <2>2, <3>1 DEF MountInv
    <2>5. \A n \in Mounts \ {m} : Unchanged(n)
      BY <1>3, <2>2 DEF Unchanged
    <2> QED
      BY <2>3, <2>4, <2>5, MountByMount
  <1>5. CASE clientCount[m] # 0
    <2>1. cancel' = cancel /\ reader' = reader
      BY <1>1, <1>2, <1>5
    <2>2. ReaderTypes'
      BY <1>2, <1>3, <2>1 DEF IInv, ReaderTypes
    <2>3. \A n \in Mounts : Live(n)' = Live(n)
      BY <2>1 DEF Live, Running
    <2>4. MountInv(m)'
      BY <1>1, <1>3, <1>5, <2>1, <2>3 DEF MountInv, IInv, CancelReachesLive,
         NoReaderWithoutCount, LiveReadersAreOne
    <2>5. \A n \in Mounts \ {m} : Unchanged(n)
      BY <1>3, <2>1, <2>3 DEF Unchanged
    <2> QED
      BY <2>2, <2>4, <2>5, MountByMount
  <1> QED
    BY <1>4, <1>5

(* A close stops the reader when the count reaches 0; below 0 none runs. *)
LEMMA CloseSteps ==
    ASSUME IInv, NEW s \in Sessions, OnSessionClose(s)
    PROVE  IInv'
  <1>0. PICK m \in Mounts : m = mountOf[s]
    BY DEF IInv, ReaderTypes
  <1>1. clientCount[m] \in Int
    BY DEF IInv, ReaderTypes
  <1>2. /\ mountOf' \in [Sessions -> Mounts]
        /\ clientCount' = [clientCount EXCEPT ![m] = @ - 1]
        /\ IF clientCount[m] - 1 = 0 THEN StopReader(m) ELSE UNCHANGED <<cancel, reader>>
    BY <1>0, MountsAssumption DEF OnSessionClose, Off, IInv, ReaderTypes
  <1>3. clientCount' \in [Mounts -> Int] /\ clientCount'[m] = clientCount[m] - 1
        /\ \A n \in Mounts \ {m} : clientCount'[n] = clientCount[n]
    BY <1>1, <1>2 DEF IInv, ReaderTypes
  <1>4. CASE clientCount[m] = 1
    <2>1. reader' = Cancelled(cancel[m]) /\ cancel' = [cancel EXCEPT ![m] = {}]
      BY <1>1, <1>2, <1>4 DEF StopReader
    <2>2. reader' = Cancelled(UNION {cancel[n] : n \in {m}})
      <3>1. UNION {cancel[n] : n \in {m}} = cancel[m]
        OBVIOUS
      <3> QED
        BY <2>1, <3>1
    <2>3. cancel' = [n \in Mounts |-> IF n \in {m} THEN {} ELSE cancel[n]]
      BY <1>1, <2>1 DEF IInv, ReaderTypes
    <2>4. /\ cancel' \in [Mounts -> SUBSET Readers]
          /\ reader' \in [Readers -> Reader]
          /\ Live(m)' = {} /\ cancel'[m] = {}
          /\ \A n \in Mounts \ {m} : Live(n)' = Live(n) /\ cancel'[n] = cancel[n]
      <3>1. {m} \in SUBSET Mounts
        BY <1>1
      <3> QED
        BY <2>2, <2>3, <3>1, CancelledReaders DEF IInv
    <2>5. ReaderTypes'
      BY <1>2, <1>3, <2>4 DEF IInv, ReaderTypes
    <2>6. MountInv(m)'
      BY <2>4 DEF MountInv
    <2>7. \A n \in Mounts \ {m} : Unchanged(n)
      BY <1>3, <2>4 DEF Unchanged
    <2> QED
      BY <2>5, <2>6, <2>7, MountByMount
  <1>5. CASE clientCount[m] # 1
    <2>1. cancel' = cancel /\ reader' = reader
      BY <1>1, <1>2, <1>5
    <2>2. ReaderTypes'
      BY <1>2, <1>3, <2>1 DEF IInv, ReaderTypes
    <2>3. \A n \in Mounts : Live(n)' = Live(n)
      BY <2>1 DEF Live, Running
    <2>4. MountInv(m)'
      BY <1>1, <1>3, <1>5, <2>1, <2>3 DEF MountInv, IInv, CancelReachesLive,
         NoReaderWithoutCount, LiveReadersAreOne
    <2>5. \A n \in Mounts \ {m} : Unchanged(n)
      BY <1>3, <2>1, <2>3 DEF Unchanged
    <2> QED
      BY <2>2, <2>4, <2>5, MountByMount
  <1> QED
    BY <1>4, <1>5

(* Stop cancels the readers of every mount at once. *)
LEMMA StopSteps == ASSUME IInv, Stop PROVE IInv'
  <1>1. /\ reader' = Cancelled(UNION {cancel[m] : m \in Mounts})
        /\ cancel' = [m \in Mounts |-> IF m \in Mounts THEN {} ELSE cancel[m]]
        /\ mountOf' = mountOf /\ clientCount' = clientCount
    BY DEF Stop
  <1>2. /\ cancel' \in [Mounts -> SUBSET Readers]
        /\ reader' \in [Readers -> Reader]
        /\ \A m \in Mounts : Live(m)' = {} /\ cancel'[m] = {}
    <2>1. Mounts \in SUBSET Mounts
      OBVIOUS
    <2> QED
      BY <1>1, <2>1, CancelledReaders DEF IInv
  <1>3. ReaderTypes'
    BY <1>1, <1>2 DEF IInv, ReaderTypes
  <1>4. \A m \in Mounts : MountInv(m)'
    BY <1>2 DEF MountInv
  <1> QED
    BY <1>3, <1>4, MountByMount

(* Every other step leaves counts and readers alone. *)
LEMMA OtherSteps ==
    ASSUME IInv, UNCHANGED <<clientCount, cancel, reader>>, mountOf' \in [Sessions -> Mounts]
    PROVE  IInv'
  <1>1. ReaderTypes'
    BY DEF IInv, ReaderTypes
  <1>2. \A n \in Mounts : Unchanged(n)
    BY DEF Unchanged, Live, Running
  <1> QED
    BY <1>1, <1>2, MountByMount

(* mount.cancel holds exactly the reader that goes on, and there is none on a
   mount whose count is not positive, whatever clients, sources and Stop do. *)
THEOREM Inductive == Spec => []IInv
  <1>1. IInv /\ [Next]_vars => IInv'
    <2> SUFFICES ASSUME IInv, [Next]_vars PROVE IInv'
      OBVIOUS
    <2>0. mountOf \in [Sessions -> Mounts]
      BY DEF IInv, ReaderTypes
    <2>1. ASSUME NEW r \in Readers, ReaderEnds(r) \/ TakeFrame(r) \/ Process(r) PROVE IInv'
      BY <2>1, ReaderSteps
    <2>2. ASSUME NEW m \in Mounts, OnDescribe(m) PROVE IInv'
      BY <2>0, <2>2, OtherSteps DEF OnDescribe
    <2>3. ASSUME NEW s \in Sessions, NEW m \in Mounts, OnSetup(s, m) PROVE IInv'
      BY <2>0, <2>3, OtherSteps DEF OnSetup
    <2>4. ASSUME NEW s \in Sessions, RecordSetup(s) PROVE IInv'
      BY <2>0, <2>4, OtherSteps DEF RecordSetup
    <2>5. ASSUME NEW s \in Sessions, OnPlay(s) PROVE IInv'
      BY <2>5, PlaySteps
    <2>6. ASSUME NEW s \in Sessions, OnSessionClose(s) PROVE IInv'
      BY <2>6, CloseSteps
    <2>7. CASE Stop
      BY <2>7, StopSteps
    <2>8. CASE SetSubFrameSource \/ CancelContext \/ (\E m \in Mounts : SourceCloses(m)) \/ StopWaited \/ StopServer
      BY <2>0, <2>8, OtherSteps DEF SetSubFrameSource, CancelContext, SourceCloses, StopWaited, StopServer
    <2>9. CASE UNCHANGED vars
      BY <2>0, <2>9, OtherSteps DEF vars
    <2> QED
      BY <2>1, <2>2, <2>3, <2>4, <2>5, <2>6, <2>7, <2>8, <2>9 DEF Next, Shutdown
  <1> QED
    BY <1>1, InitInv, PTL DEF Spec

(* The frames of a mount are never split between two readers that both go on:
   starts and stops decided from the client count do not overlap. *)
THEOREM OneReader == Spec => []OneLiveReader
  <1>1. IInv => OneLiveReader
    <2> SUFFICES ASSUME IInv, NEW m \in Mounts PROVE Cardinality(Live(m)) <= 1
      BY DEF OneLiveReader
    <2>1. CASE Live(m) = {}
      BY <2>1, FS_EmptySet
    <2>2. CASE Live(m) # {}
      <3>1. PICK r : Live(m) = {r}
        BY <2>2 DEF IInv, LiveReadersAreOne
      <3> QED
        BY <3>1, FS_Singleton
    <2> QED
      BY <2>1, <2>2
  <1> QED
    BY <1>1, Inductive, PTL


-----------------------------------------------------------------------------
(* The count against the players, while the process is up. *)

SessionTypes ==
    /\ session \in [Sessions -> {"none", "setting", "setup", "playing", "closed"}]
    /\ source \in [Mounts -> {"none", "open", "closed"}]

(* On a mount where every session came to play the count is at least that of its
   players, and just that when none played again; counted players have a reader. *)
Counted(m) ==
    /\ IsFiniteSet(Players(m))
    /\ clientCount[m] >= Cardinality(Players(m))
    /\ m \notin replayed => clientCount[m] = Cardinality(Players(m))
    /\ clientCount[m] > 0 => Live(m) # {}

(* A reader ends only after its cancel while no source is closed, and none is
   until the context of the process is cancelled. *)
AllCounted ==
    phase = "up" =>
        /\ \A m \in Mounts : source[m] # "closed"
        /\ \A m \in Mounts \ aborted : Counted(m)

SInv == IInv /\ SessionTypes /\ AllCounted

(* A mount of which a step changes neither players, count nor live reader. *)
LEMMA CountKept ==
    ASSUME NEW m \in Mounts, Counted(m), Players(m)' = Players(m),
           clientCount'[m] = clientCount[m], replayed \subseteq replayed', Live(m) # {} => Live(m)' # {}
    PROVE  Counted(m)'
  BY DEF Counted

(* The steps of a reader: while no source is closed it ends only when it was
   cancelled, and then it was not a live one. *)
LEMMA ReaderKeepsCount ==
    ASSUME SInv, NEW r \in Readers, ReaderEnds(r) \/ TakeFrame(r) \/ Process(r),
           phase = "up", NEW m \in Mounts \ aborted
    PROVE  Counted(m)'
  <1>1. /\ \A n \in Mounts : source[n] # "closed"
        /\ Counted(m)
        /\ UNCHANGED <<session, mountOf, clientCount, replayed>>
    BY DEF SInv, AllCounted, ReaderEnds, TakeFrame, Process
  <1>2. Players(m)' = Players(m)
    BY <1>1 DEF Players
  <1>3. \A t \in Live(m) : t \in Live(m)'
    <2>1. CASE ReaderEnds(r)
      <3>1. reader[r].cancelled
        BY <1>1, <2>1 DEF ReaderEnds, SInv, IInv, ReaderTypes, Reader
      <3> QED
        BY <2>1, <3>1 DEF ReaderEnds, Live, Running, SInv, IInv, ReaderTypes
    <2>2. CASE TakeFrame(r) \/ Process(r)
      <3>1. \E p \in {"select", "process"} : reader' = [reader EXCEPT ![r].pc = p]
        BY <2>2 DEF TakeFrame, Process
      <3> QED
        BY <3>1 DEF SInv, IInv, ReaderTypes, Reader, Live, Running
    <2> QED
      BY <2>1, <2>2
  <1> QED
    BY <1>1, <1>2, <1>3, CountKept

(* PLAY: one more counted, and one more player or a mount where one played again;
   the first one counted gets a reader. *)
LEMMA PlayCounts ==
    ASSUME SInv, NEW s \in Sessions, OnPlay(s), phase = "up", NEW m \in Mounts \ aborted
    PROVE  Counted(m)'
  <1>0. Counted(m) /\ mountOf' = mountOf /\ session' = [session EXCEPT ![s] = "playing"]
        /\ clientCount[m] \in Int /\ session[s] \in {"setup", "playing"}
        /\ replayed' = IF session[s] = "playing" THEN replayed \cup {mountOf[s]} ELSE replayed
    BY DEF SInv, IInv, ReaderTypes, AllCounted, OnPlay, MayPlay, Noted
  <1>1. CASE mountOf[s] = m
    <2>1. /\ clientCount'[m] = clientCount[m] + 1
          /\ IF clientCount[m] + 1 = 1 THEN StartReader(m) ELSE UNCHANGED <<cancel, reader>>
      BY <1>1 DEF OnPlay, SInv, IInv, ReaderTypes
    <2>2. Players(m)' = Players(m) \cup {s}
      BY <1>0, <1>1 DEF Players, SInv, SessionTypes
    <2>3. /\ IsFiniteSet(Players(m)') /\ Cardinality(Players(m)) \in Nat
          /\ Cardinality(Players(m)') \in {Cardinality(Players(m)), Cardinality(Players(m)) + 1}
          /\ m \notin replayed' => Cardinality(Players(m)') = Cardinality(Players(m)) + 1
      <3>1. m \notin replayed' => s \notin Players(m)
        BY <1>0, <1>1 DEF Players
      <3>2. IsFiniteSet(Players(m))
        BY <1>0 DEF Counted
      <3> QED
        BY <2>2, <3>1, <3>2, FS_AddElement, FS_CardinalityType
    <2>5. m \notin replayed' => m \notin replayed
      BY <1>0
    <2>4. Live(m)' # {}
      <3>1. CASE clientCount[m] = 0
        <4>1. StartReader(m) /\ Live(m) = {}
          BY <2>1, <3>1 DEF SInv, IInv, NoReaderWithoutCount
        <4> QED
          BY <4>1, StartedReader DEF SInv, IInv
      <3>2. CASE clientCount[m] # 0
        <4>1. Live(m) # {} /\ reader' = reader
          BY <1>0, <2>1, <2>3, <3>2 DEF Counted
        <4> QED
          BY <4>1 DEF Live, Running
      <3> QED
        BY <3>1, <3>2
    <2> QED
      BY <1>0, <2>1, <2>3, <2>4, <2>5 DEF Counted
  <1>2. CASE mountOf[s] # m
    <2>0. PICK n \in Mounts : n = mountOf[s]
      BY DEF SInv, IInv, ReaderTypes
    <2>1. Players(m)' = Players(m)
      BY <1>0, <1>2 DEF Players, SInv, SessionTypes
    <2>2. /\ clientCount'[m] = clientCount[m]
          /\ IF clientCount[n] + 1 = 1 THEN StartReader(n) ELSE UNCHANGED <<cancel, reader>>
      BY <1>2, <2>0 DEF OnPlay, SInv, IInv, ReaderTypes
    <2>3. Live(m)' = Live(m)
      <3>1. CASE clientCount[n] + 1 = 1
        <4>1. clientCount[n] = 0 /\ StartReader(n)
          BY <2>2, <3>1 DEF SInv, IInv, ReaderTypes
        <4>2. Live(n) = {}
          BY <4>1 DEF SInv, IInv, NoReaderWithoutCount
        <4> QED
          BY <1>2, <2>0, <4>1, <4>2, StartedReader DEF SInv, IInv
      <3>2. CASE clientCount[n] + 1 # 1
        BY <2>2, <3>2 DEF Live, Running
      <3> QED
        BY <3>1, <3>2
    <2> QED
      BY <1>0, <2>1, <2>2, <2>3, CountKept
  <1> QED
    BY <1>1, <1>2

(* A close: one player and one counted less, or the mount is among the aborted. *)
LEMMA CloseCounts ==
    ASSUME SInv, NEW s \in Sessions, OnSessionClose(s), phase = "up",
           NEW m \in Mounts \ aborted'
    PROVE  Counted(m)'
  <1>0. /\ m \notin aborted /\ Counted(m)
        /\ mountOf' = [mountOf EXCEPT ![s] = Off.m]
        /\ session' = [session EXCEPT ![s] = "closed"]
        /\ clientCount[m] \in Int /\ replayed' = replayed
    BY DEF SInv, IInv, ReaderTypes, AllCounted, OnSessionClose, Noted
  <1>1. PICK n \in Mounts : n = mountOf[s]
    BY DEF SInv, IInv, ReaderTypes
  <1>2. /\ clientCount[n] \in Int
        /\ clientCount'[n] = clientCount[n] - 1
        /\ \A k \in Mounts \ {n} : clientCount'[k] = clientCount[k]
        /\ IF clientCount[n] - 1 = 0 THEN StopReader(n) ELSE UNCHANGED <<cancel, reader>>
    BY <1>1 DEF OnSessionClose, SInv, IInv, ReaderTypes
  <1>3. CASE clientCount[n] = 1
    <2>1. reader' = Cancelled(cancel[n]) /\ cancel' = [cancel EXCEPT ![n] = {}]
      BY <1>2, <1>3 DEF StopReader
    <2>2. reader' = Cancelled(UNION {cancel[k] : k \in {n}})
      <3>1. UNION {cancel[k] : k \in {n}} = cancel[n]
        OBVIOUS
      <3> QED
        BY <2>1, <3>1
    <2>3. cancel' = [k \in Mounts |-> IF k \in {n} THEN {} ELSE cancel[k]]
      BY <2>1 DEF SInv, IInv, ReaderTypes
    <2>4. {n} \in SUBSET Mounts
      OBVIOUS
    <2>5. \A k \in Mounts \ {n} : Live(k)' = Live(k)
      BY <2>2, <2>3, <2>4, CancelledReaders DEF SInv, IInv
    <2>6. CASE m # n
      <3>1. Players(m)' = Players(m)
        BY <1>0, <1>1, <2>6 DEF Players, SInv, SessionTypes
      <3> QED
        BY <1>0, <1>2, <2>5, <2>6, <3>1, CountKept
    <2>7. CASE m = n
      <3>1. session[s] = "playing"
        BY <1>1, <2>7 DEF OnSessionClose, Noted
      <3>2. Players(m)' = Players(m) \ {s} /\ s \in Players(m)
        BY <1>0, <1>1, <2>7, <3>1 DEF Players, SInv, SessionTypes
      <3>3. /\ IsFiniteSet(Players(m)') /\ Cardinality(Players(m)') = Cardinality(Players(m)) - 1
            /\ Cardinality(Players(m)) \in Nat
        BY <1>0, <3>2, FS_RemoveElement, FS_CardinalityType DEF Counted
      <3> QED
        BY <1>0, <1>2, <1>3, <2>7, <3>3 DEF Counted
    <2> QED
      BY <2>6, <2>7
  <1>4. CASE clientCount[n] # 1
    <2>1. Live(m)' = Live(m)
      BY <1>2, <1>4 DEF Live, Running
    <2>6. CASE m # n
      <3>1. Players(m)' = Players(m)
        BY <1>0, <1>1, <2>6 DEF Players, SInv, SessionTypes
      <3> QED
        BY <1>0, <1>2, <2>1, <2>6, <3>1, CountKept
    <2>7. CASE m = n
      <3>1. session[s] = "playing"
        BY <1>1, <2>7 DEF OnSessionClose, Noted
      <3>2. Players(m)' = Players(m) \ {s} /\ s \in Players(m)
        BY <1>0, <1>1, <2>7, <3>1 DEF Players, SInv, SessionTypes
      <3>3. /\ IsFiniteSet(Players(m)') /\ Cardinality(Players(m)') = Cardinality(Players(m)) - 1
            /\ Cardinality(Players(m)) \in Nat
        BY <1>0, <3>2, FS_RemoveElement, FS_CardinalityType DEF Counted
      <3> QED
        BY <1>0, <1>2, <2>1, <2>7, <3>3 DEF Counted
    <2> QED
      BY <2>6, <2>7
  <1> QED
    BY <1>3, <1>4

(* Every step keeps the count, as long as the process is up. *)
LEMMA NextCounted == ASSUME SInv, [Next]_vars PROVE SessionTypes' /\ AllCounted'
  <1>0. /\ phase' = "up" => phase = "up"
        /\ \/ source' = source
           \/ source' = [source EXCEPT ![SubMount] = "open"]
           \/ /\ phase' # "up"
              /\ \E n \in Mounts : source' = [source EXCEPT ![n] = "closed"]
    BY DEF Next, Shutdown, vars, ReaderEnds, TakeFrame, Process, OnDescribe, OnSetup,
       RecordSetup, OnPlay, OnSessionClose, SetSubFrameSource, CancelContext,
       SourceCloses, Stop, StopWaited, StopServer
  <1>13. phase' = "up" => \A n \in Mounts : source'[n] # "closed"
    BY <1>0 DEF SInv, SessionTypes, AllCounted
  <1>1. SessionTypes'
    <2>1. \/ session' = session
          \/ \E s \in Sessions, pc \in {"setting", "setup", "playing", "closed"} :
                session' = [session EXCEPT ![s] = pc]
      BY DEF Next, Shutdown, vars, ReaderEnds, TakeFrame, Process, OnDescribe, OnSetup,
         RecordSetup, OnPlay, OnSessionClose, SetSubFrameSource, CancelContext,
         SourceCloses, Stop, StopWaited, StopServer
    <2> QED
      BY <1>0, <2>1 DEF SInv, SessionTypes
  <1>2. SUFFICES ASSUME phase' = "up", NEW m \in Mounts \ aborted' PROVE Counted(m)'
    BY <1>1, <1>13 DEF SInv, AllCounted
  <1>3. ASSUME NEW r \in Readers, ReaderEnds(r) \/ TakeFrame(r) \/ Process(r)
        PROVE  Counted(m)'
    <2>1. phase = "up" /\ m \notin aborted
      BY <1>2, <1>3 DEF ReaderEnds, TakeFrame, Process
    <2> QED
      BY <1>3, <2>1, ReaderKeepsCount
  <1>4. ASSUME NEW s \in Sessions, OnPlay(s) PROVE Counted(m)'
    <2>1. phase = "up" /\ m \notin aborted
      BY <1>2, <1>4 DEF OnPlay
    <2> QED
      BY <1>4, <2>1, PlayCounts DEF SInv, AllCounted
  <1>5. ASSUME NEW s \in Sessions, OnSessionClose(s) PROVE Counted(m)'
    <2>1. phase = "up"
      BY <1>2, <1>5 DEF OnSessionClose
    <2> QED
      BY <1>5, <2>1, CloseCounts DEF SInv, AllCounted
  <1>6. ASSUME Players(m)' = Players(m), UNCHANGED <<clientCount, reader, phase, aborted, replayed>>
        PROVE  Counted(m)'
    <2>1. Live(m)' = Live(m)
      BY <1>6 DEF Live, Running
    <2> QED
      BY <1>2, <1>6, <2>1, CountKept DEF SInv, AllCounted
  <1>7. ASSUME NEW n \in Mounts, OnDescribe(n) PROVE Counted(m)'
    BY <1>6, <1>7 DEF OnDescribe, Players
  <1>8. ASSUME NEW s \in Sessions, NEW n \in Mounts, OnSetup(s, n)
        PROVE  Counted(m)'
    <2>1. Players(m)' = Players(m)
      BY <1>8 DEF OnSetup, Players, SInv, SessionTypes, IInv, ReaderTypes
    <2> QED
      BY <1>6, <1>8, <2>1 DEF OnSetup
  <1>9. ASSUME NEW s \in Sessions, RecordSetup(s) PROVE Counted(m)'
    <2>1. Players(m)' = Players(m)
      BY <1>9 DEF RecordSetup, Players, SInv, SessionTypes
    <2> QED
      BY <1>6, <1>9, <2>1 DEF RecordSetup
  <1>12. CASE SetSubFrameSource
    BY <1>6, <1>12 DEF SetSubFrameSource, Players
  <1>10. CASE UNCHANGED vars
    BY <1>6, <1>10 DEF vars, Players
  <1>11. CASE Shutdown
    BY <1>2, <1>11 DEF Shutdown, CancelContext, SourceCloses, Stop, StopWaited, StopServer
  <1> QED
    BY <1>3, <1>4, <1>5, <1>7, <1>8, <1>9, <1>10, <1>11, <1>12 DEF Next

(* Until the process goes down a mount that is played has a reader if each session
   that was set up came to play, and then a reader goes on for players only if
   none of them played again: the counts of OnPlay and OnSessionClose are at
   least, or just, those of the players, although readers, streams and sessions
   end in their own order. *)
THEOREM MountsServed == Spec => []ReadWhilePlayed
  <1>1. Init => SessionTypes /\ AllCounted
    <2> SUFFICES ASSUME Init PROVE SessionTypes /\ AllCounted
      OBVIOUS
    <2>1. \A m \in Mounts : Players(m) = {} /\ clientCount[m] = 0
      BY DEF Init, Players
    <2> QED
      BY <2>1, FS_EmptySet DEF Init, SessionTypes, AllCounted, Counted
  <1>2. IInv /\ SessionTypes /\ AllCounted /\ [Next]_vars => SessionTypes' /\ AllCounted'
    BY NextCounted DEF SInv
  <1>3. IInv /\ AllCounted => ReadWhilePlayed
    <2> SUFFICES ASSUME IInv, AllCounted, phase = "up", NEW m \in Mounts \ aborted
                 PROVE  /\ Players(m) # {} => Live(m) # {}
                        /\ m \notin replayed /\ Live(m) # {} => Players(m) # {}
      BY DEF ReadWhilePlayed
    <2>1. Counted(m) /\ Cardinality(Players(m)) \in Nat /\ clientCount[m] \in Int
      BY FS_CardinalityType DEF AllCounted, Counted, IInv, ReaderTypes
    <2>2. /\ Players(m) # {} => clientCount[m] > 0
          /\ m \notin replayed /\ Players(m) = {} => clientCount[m] = 0
      BY <2>1, FS_EmptySet DEF Counted
    <2> QED
      BY <2>1, <2>2 DEF Counted, IInv, NoReaderWithoutCount
  <1> QED
    BY <1>1, <1>2, <1>3, Inductive, PTL DEF Spec
===============================================================================
