-------------------------------- MODULE Formats -------------------------------
(***************************************************************************)
(* The conversions of the output path, each on small inputs: what an RTMP  *)
(* peer, an AVC decoder, a player or an encoder gets back is compared with *)
(* what went in.  A state is one input, before and after its conversion.   *)
(***************************************************************************)
EXTENDS RtmpWire, MpegTs, AnnexB, ImagePlanes

CONSTANTS MaxLength,        \* bound: bytes of a message
          MaxSide,          \* bound: samples of a side of a frame
          MaxCuts,          \* bound: reads of a pipe before the last one
          TimeStamps,       \* time stamps of frames, in 90 kHz
          SubjectKinds      \* the conversions to look at

ASSUME FormatsAssumption ==
    /\ {MaxLength, MaxSide} \subseteq Nat \ {0} /\ MaxCuts \in Nat
    /\ TimeStamps \subseteq Nat
    /\ SubjectKinds \subseteq {"message", "chunk", "video", "sets", "answer", "pieces", "pictures", "pes",
                               "frame", "scale", "pad"}

VARIABLES subject, converted

formatVars == <<subject, converted>>

-----------------------------------------------------------------------------
(* Inputs. *)
Bytes(n) == [i \in 1 .. n |-> i]

(* Units as encoders write them: no start code inside, no zero at an end. *)
NalUnits == {<<7>>, <<5, 1>>, <<8, 0, 3>>, <<6, 0, 0, 3, 1>>}

(* The token sequences of AMF0 objects, empty, flat and nested. *)
AmfObjects == {<<"object", "end">>, <<"object", "key", "string", "key", "bool", "end">>,
               <<"object", "key", "object", "key", "null", "end", "key", "number", "end">>}

(* Where the reads of a pipe end before its last one, in n bytes. *)
Cuts(n) == {cuts \in SeqOf(1 .. n - 1, MaxCuts) : \A i \in DOMAIN cuts : i > 1 => cuts[i - 1] < cuts[i]}

(* A stream of units, with these start codes, that reads cut anywhere. *)
Piped(units, long) ==
    [kind : {"pieces"}, units : {units}, long : {long}, cuts : Cuts(Len(Annexed(units, long)))]
PipeInputs == UNION {Piped(units, long) : units \in TupleOf(NalUnits, 2), long \in TupleOf(BOOLEAN, 2)}

Turns == [rotation : {0, 90, 180, 270}, hflip : BOOLEAN, vflip : BOOLEAN]

Subjects(kind) ==
    CASE kind = "message"  -> [kind : {kind}, time : 0 .. TimeField + 1, length : 1 .. MaxLength]
      [] kind = "chunk"    -> [kind : {kind}, format : 0 .. 3, csID : {2, 63, 64, 319, 320, 575, 576, 65599}]
      [] kind = "sets"     -> [kind : {kind}, sps : {<<103, 66, 0, 30>>, <<103, 77, 64, 40, 9>>},
                               pps : {<<104>>, <<104, 2>>}]
      [] kind = "video"    -> [kind : {kind}, units : TupleOf(NalUnits, 2), key : BOOLEAN]
      [] kind = "answer"   -> [kind : {kind}, info : {<<"null">>} \union AmfObjects]
      [] kind = "pieces"   -> PipeInputs
      [] kind = "pictures" -> [kind : {kind}, keys : UNION {TupleOf(BOOLEAN, n) : n \in 1 .. 4}]
      [] kind = "pes"      -> [kind : {kind}, time : TimeStamps, length : 1 .. MaxLength, counter : {0, 14}]
      [] kind = "frame"    -> [kind : {kind}, w : 1 .. MaxSide, h : 1 .. MaxSide, turn : Turns]
      [] kind = "scale"    -> [kind : {kind}, w : 2 .. 3 * MaxSide, h : 2 .. 3 * MaxSide, box : {2, 3, MaxSide}]
      [] kind = "pad"      -> [kind : {kind}, w : {2, 4, 6}, h : {2, 4}, stride : {8, 9}]

FormatsInit == \E kind \in SubjectKinds : subject \in Subjects(kind) /\ converted = <<>>

(* The stream of a "pieces" input, as reads return it. *)
Pieces ==
    LET stream == Annexed(subject.units, subject.long)
        ends == Append(subject.cuts, Len(stream))
    IN  [i \in DOMAIN ends |-> SubSeq(stream, IF i = 1 THEN 1 ELSE ends[i - 1] + 1, ends[i])]

(* rpicam-vid writes the sets before each keyframe. *)
Picture(key) == IF key THEN <<"sps", "pps", "idr">> ELSE <<"other">>

Plane(w, h) == [o \in Offsets(w, h) |-> o]

(* The input is of this kind and its conversion is due. *)
Due(kind) == subject.kind = kind /\ converted = <<>>
Into(result) == converted' = <<result>> /\ UNCHANGED subject

-----------------------------------------------------------------------------
SendMessage ==
    Due("message") /\ Into(WriteMessage(subject.time, Bytes(subject.length), DefaultChunkSize))

HeadChunk ==
    Due("chunk") /\ Into(BasicHeader(subject.format, subject.csID))

SendSets ==
    Due("sets") /\ Into(SequenceHeader(subject.sps, subject.pps))

SendVideo ==
    Due("video") /\ Into(VideoBody(subject.key, subject.units))

ReadAnswer ==
    Due("answer") /\ Into(StreamIDAt(subject.info \o <<"number">>))

ReadPipe ==
    Due("pieces") /\ Into(ReadPieces(Pieces))

GroupUnits ==
    /\ Due("pictures")
    /\ Into(Grouped(FlattenSeq([i \in DOMAIN subject.keys |-> Picture(subject.keys[i])])))

MuxFrame ==
    Due("pes") /\ Into([pts |-> PtsBytes(subject.time),
                        packets |-> WritePackets(Bytes(subject.length), subject.counter)])

TransformFrame ==
    /\ Due("frame")
    /\ LET turn == subject.turn
       IN  Into(Transformed(Plane(subject.w, subject.h), subject.w, subject.h,
                            turn.rotation, turn.hflip, turn.vflip))

(* The AI tap shrinks a frame into a box, unless it would grow. *)
ScaleFrame ==
    /\ Due("scale")
    /\ LET to == FitEven(subject.w, subject.h, subject.box)
       IN  Into([to |-> to,
                 luma |-> DownscaledLuma(subject.w, subject.h, to[1], to[2]),
                 chroma |-> DownscaledChroma(subject.w, subject.h, to[1], to[2])])

PadFrame ==
    Due("pad") /\ Into(PaddedCopies(subject.w, subject.h, subject.stride))

FormatsNext ==
    \/ SendMessage \/ HeadChunk \/ SendSets \/ SendVideo \/ ReadAnswer \/ ReadPipe \/ GroupUnits
    \/ MuxFrame \/ TransformFrame \/ ScaleFrame \/ PadFrame

-----------------------------------------------------------------------------
Done(kind) == subject.kind = kind /\ converted # <<>>
Result == Head(converted)

(* A peer with the writer's chunk size reads the message that was sent, with
   its time stamp, extended or not. *)
MessagesReadBack ==
    Done("message") =>
        ReadMessage(Result, DefaultChunkSize)
            = [time |-> subject.time, bytes |-> Payload(Bytes(subject.length))]

(* A chunk stream is recognised at every length its number can have. *)
ChunksReadBack ==
    Done("chunk") =>
        ReadBasicHeader(Result) = [format |-> subject.format, csID |-> subject.csID]

(* A decoder is configured with the sets the camera wrote. *)
SetsReadBack ==
    Done("sets") =>
        LET pps == 8 + Result[7]
        IN  /\ SubSeq(Result, 8, pps - 1) = subject.sps
            /\ SubSeq(Result, pps + 2, pps + 1 + Result[pps + 1]) = subject.pps

(* The stream a server creates is found behind whatever description precedes. *)
AnswersUnderstood ==
    Done("answer") => StreamIDAt(subject.info \o <<"number">>) = Result /\ Result = Len(subject.info) + 1

(* Units survive the length-prefixed form of a video message. *)
BodiesReadBack ==
    Done("video") => ReadVideoBody(Result) = subject.units

(* Wherever reads cut the stream, and whichever start codes it has, the units
   come out whole and in order, the last one once nothing follows. *)
PiecesReadBack ==
    Done("pieces") => Result.units \o Parse(Result.rest) = subject.units

(* Pictures come out as access units: the sets with their keyframe. *)
PicturesKept ==
    Done("pictures") => Result = [i \in DOMAIN subject.keys |-> Picture(subject.keys[i])]

(* Transport packets carry the data in order, marked once, counted on. *)
PacketsKeepData ==
    Done("pes") =>
        LET packets == Result.packets
            payload == FlattenSeq([i \in DOMAIN packets |-> packets[i].payload])
        IN  /\ SubSeq(payload, 1, subject.length) = Bytes(subject.length)
            /\ \A i \in DOMAIN packets :
                   /\ packets[i].start = (i = 1)
                   /\ i > 1 => packets[i].counter = (packets[i - 1].counter + 1) % 16

(* What leaves in one format is read back as it was: RTMP messages, bodies and
   answers, the pipe of rpicam-vid, access units and transport packets
   (push.go, amf.go, flv.go, rpicamvid.go, parser.go, muxts.go). *)
FormatsReadBack ==
    /\ MessagesReadBack /\ ChunksReadBack /\ SetsReadBack /\ BodiesReadBack /\ AnswersUnderstood
    /\ PiecesReadBack /\ PicturesKept /\ PacketsKeepData

-----------------------------------------------------------------------------
(* Where the sample at x, y of a turned frame comes from: the flips act on the
   turned frame; a quarter turn clockwise takes (sx, sy) to (h-1-sy, sx). *)
OffsetBefore(x, y) ==
    LET turn == subject.turn
        quarter == turn.rotation \in {90, 270}
        w == IF quarter THEN subject.h ELSE subject.w
        h == IF quarter THEN subject.w ELSE subject.h
        fx == IF turn.hflip THEN w - 1 - x ELSE x
        fy == IF turn.vflip THEN h - 1 - y ELSE y
    IN  CASE turn.rotation = 0   -> fy * subject.w + fx
          [] turn.rotation = 90  -> (subject.h - 1 - fx) * subject.w + fy
          [] turn.rotation = 180 -> (subject.h - 1 - fy) * subject.w + subject.w - 1 - fx
          [] turn.rotation = 270 -> fx * subject.w + subject.w - 1 - fy

(* The tiled rotation and the in-place flips place each sample, at odd sides
   and in tiles that are not full too. *)
SamplesPlaced ==
    Done("frame") =>
        LET w == IF subject.turn.rotation \in {90, 270} THEN subject.h ELSE subject.w
        IN  /\ DOMAIN Result = Offsets(subject.w, subject.h)
            /\ \A o \in Offsets(subject.w, subject.h) : Result[o] = OffsetBefore(o % w, o \div w)

(* A frame that is shrunk gets even sides and is read within its planes. *)
ScaledWithin ==
    Done("scale") =>
        /\ \A side \in {Result.to[1], Result.to[2]} : side % 2 = 0 /\ side >= 2
        /\ Result.to[1] <= subject.w /\ Result.to[2] <= subject.h =>
               /\ \A o \in Result.luma : o < subject.w * subject.h
               /\ \A c \in Result.chroma : c.row < Half(subject.h) /\ c.col < Half(subject.w)

(* Each sample of a frame goes to one place of the padded buffer, within it. *)
PaddedApart ==
    Done("pad") =>
        /\ \A a, b \in Result : a[1] = b[1] <=> a[2] = b[2]
        /\ {a[2] : a \in Result} = 0 .. (subject.w * subject.h * 3) \div 2 - 1
        /\ \A a \in Result : a[1] < PaddedTotal(subject.h, subject.stride)

(* Frames are transformed as documented, sample by sample (yuv_transform.go,
   downscale.go, encode.go, yuv_source.go). *)
FramesTransformed == SamplesPlaced /\ ScaledWithin /\ PaddedApart

-----------------------------------------------------------------------------
(* push.go:213 announces "chunk size for outgoing messages": a peer that reads
   chunks of the announced size finds the bytes that were sent. *)
AnnouncedChunksRead ==
    Done("message") =>
        ReadMessage(Result, PreferredChunkSize).bytes = Payload(Bytes(subject.length))

(* muxts.go:239-244 lays out the time stamp: a player reads the one given. *)
PtsRoundTrips == Done("pes") => PtsOf(Result.pts) = subject.time

===============================================================================
