------------------------------- MODULE RtmpWire ------------------------------
(***************************************************************************)
(* The wire formats of the RTMP client (internal/rtmp: push.go, amf.go,    *)
(* flv.go) as operators: chunks, AMF0 values, the body of a video message. *)
(* A stream is a sequence of elements: a message header, an extended time  *)
(* stamp, or a byte of payload.                                            *)
(***************************************************************************)
EXTENDS Integers, Sequences, SequencesExt

CONSTANTS DefaultChunkSize, PreferredChunkSize,     \* 128, 4096
          TimeField         \* the largest value of the time stamp field, 0xFFFFFF

ASSUME RtmpWireAssumption ==
    /\ {DefaultChunkSize, PreferredChunkSize, TimeField} \subseteq Nat \ {0}

-----------------------------------------------------------------------------
(* makeChunkHeader, the basic header: format and chunk stream id. *)
BasicHeader(format, csID) ==
    IF csID < 64 THEN <<format * 64 + csID>>
    ELSE IF csID < 320 THEN <<format * 64, csID - 64>>
    ELSE <<format * 64 + 1, (csID - 64) % 256, ((csID - 64) \div 256) % 256>>

(* readMessage, the same three forms. *)
ReadBasicHeader(bytes) ==
    [format |-> bytes[1] \div 64,
     csID |-> LET low == bytes[1] % 64 IN
              IF low = 0 THEN 64 + bytes[2]
              ELSE IF low = 1 THEN 64 + bytes[2] + 256 * bytes[3]
              ELSE low]

(* Mutant of MessageHeader: the boundary of the time stamp field is missed. *)
MessageHeaderOff(format, time, length) ==
    IF format = 3 THEN <<[kind |-> "header", format |-> 3]>>
    ELSE <<[kind |-> "header", format |-> format, length |-> length,
            time |-> IF time > TimeField THEN TimeField ELSE time]>>
         \o (IF time > TimeField THEN <<[kind |-> "extension", time |-> time]>> ELSE <<>>)

(* makeChunkHeader, the message header: the time stamp or the delta, then the
   length (not in format 2); format 3 has neither, nor the extension. *)
MessageHeader(format, time, length) ==
    IF format = 3 THEN <<[kind |-> "header", format |-> 3]>>
    ELSE <<[kind |-> "header", format |-> format, length |-> length,
            time |-> IF time >= TimeField THEN TimeField ELSE time]>>
         \o (IF time >= TimeField THEN <<[kind |-> "extension", time |-> time]>> ELSE <<>>)

Payload(bytes) == [i \in DOMAIN bytes |-> [kind |-> "byte", value |-> bytes[i]]]

(* writeRawMessage: chunks of at most size bytes, the first with a full header;
   a message without payload writes nothing. *)
WriteMessage(time, bytes, size) ==
    LET chunks == (Len(bytes) + size - 1) \div size
        upTo(i) == IF i * size > Len(bytes) THEN Len(bytes) ELSE i * size
        chunk(i) == MessageHeader(IF i = 1 THEN 0 ELSE 3, time, Len(bytes))
                    \o Payload(SubSeq(bytes, (i - 1) * size + 1, upTo(i)))
    IN  FlattenSeq([i \in 1 .. chunks |-> chunk(i)])

(* readMessage on one chunk stream, an element after another: what is known of
   the message, the payload due in this chunk, an extension that is due, the end. *)
NothingRead == [time |-> 0, length |-> 0, bytes |-> <<>>, due |-> 0, long |-> FALSE, over |-> FALSE]
Missing(s) == s.length - Len(s.bytes)

ChunkBegun(s, size) ==
    [s EXCEPT !.due = IF Missing(s) < size THEN Missing(s) ELSE size, !.over = Missing(s) = 0]

(* Format 0 gives the time, 1 and 2 what is added to it; 2 keeps the length. *)
HeaderRead(s, h, size) ==
    LET base == IF h.format = 0 THEN 0 ELSE s.time
        t == IF h.format = 2 THEN s ELSE [s EXCEPT !.length = h.length, !.bytes = <<>>]
    IN  IF h.time = TimeField THEN [t EXCEPT !.time = base, !.long = TRUE]
        ELSE ChunkBegun([t EXCEPT !.time = base + h.time], size)

(* Whatever comes in place of payload is payload; in place of a header it
   leaves a garbled message. *)
ElementRead(s, e, size) ==
    CASE s.over -> s
      [] ~s.over /\ s.due > 0 ->
             [s EXCEPT !.due = @ - 1, !.bytes = Append(@, e), !.over = Missing(s) = 1]
      [] ~s.over /\ s.due = 0 /\ s.long /\ e.kind = "extension" ->
             ChunkBegun([s EXCEPT !.long = FALSE, !.time = @ + e.time], size)
      [] ~s.over /\ s.due = 0 /\ ~s.long /\ e.kind = "header" ->
             IF e.format = 3 THEN ChunkBegun(s, size) ELSE HeaderRead(s, e, size)
      [] OTHER -> [NothingRead EXCEPT !.over = TRUE, !.time = -1]

(* The first complete message of a stream with chunks of at most size bytes. *)
Garbled == [time |-> -1, bytes |-> <<>>]
ReadMessage(stream, size) ==
    LET last == FoldLeft(LAMBDA s, e : ElementRead(s, e, size), NothingRead, stream)
    IN  IF last.over THEN [time |-> last.time, bytes |-> last.bytes] ELSE Garbled

-----------------------------------------------------------------------------
(* amfReader.skipValue over a sequence of AMF0 tokens: where the value that
   begins at a place ends, or where the rest of an object does; 0 is an error. *)
Scalars == {"number", "bool", "string", "null"}
SkipFrom(tokens) ==
    LET end[p \in {"value", "entries"} \X (1 .. Len(tokens) + 1)] ==
          LET i == p[2] IN
          IF i > Len(tokens) THEN 0
          ELSE IF p[1] = "value"
          THEN IF tokens[i] \in Scalars THEN i + 1
               ELSE IF tokens[i] = "object" THEN end[<<"entries", i + 1>>] ELSE 0
          ELSE IF tokens[i] = "end" THEN i + 1
          ELSE LET next == IF tokens[i] = "key" THEN end[<<"value", i + 1>>] ELSE 0
               IN  IF next = 0 THEN 0 ELSE end[<<"entries", next>>]
    IN  [i \in 1 .. Len(tokens) |-> end[<<"value", i>>]]

(* parseStreamID, on what follows command and transaction of a _result: null
   or an object, then the number of the stream. *)
StreamIDAt(tokens) ==
    LET next == IF tokens = <<>> \/ tokens[1] \notin {"null", "object"} THEN 0
                ELSE SkipFrom(tokens)[1]
    IN  IF next \in 1 .. Len(tokens) /\ tokens[next] = "number" THEN next ELSE 0

-----------------------------------------------------------------------------
(* makeAVCSequenceHeader: profile, compatibility and level come from the SPS,
   then one SPS and one PPS, each after its length. *)
SequenceHeader(sps, pps) ==
    <<1, sps[2], sps[3], sps[4], 255, 225, Len(sps)>> \o sps \o <<1, Len(pps)>> \o pps

(* makeAVCNALU and makeFLVVideoTag(...)[11:]: five bytes, then each unit after
   its length. *)
VideoBody(key, units) ==
    <<IF key THEN "key" ELSE "delta", "units", 0, 0, 0>>
    \o FlattenSeq([i \in DOMAIN units |-> <<Len(units[i])>> \o units[i]])

(* What a reader of the length-prefixed form finds in a body. *)
ReadVideoBody(body) ==
    LET read[n \in 0 .. Len(body)] ==
          IF n = 0 THEN [pos |-> 6, units |-> <<>>]
          ELSE LET s == read[n - 1] IN
               IF s.pos > Len(body) THEN s
               ELSE [pos |-> s.pos + 1 + body[s.pos],
                     units |-> Append(s.units, SubSeq(body, s.pos + 1, s.pos + body[s.pos]))]
    IN  read[Len(body)].units

=============================================================================
