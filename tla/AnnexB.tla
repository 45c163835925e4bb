-------------------------------- MODULE AnnexB -------------------------------
(***************************************************************************)
(* The Annex-B parser (internal/h264/parser.go) and its use on a pipe that *)
(* delivers the stream in pieces (internal/camera/rpicamvid.go: readLoop,  *)
(* extractCompleteNALUs) as operators.  A byte other than 0 and 1 stands   *)
(* for any; a unit is its bytes, the first of which is its type.           *)
(***************************************************************************)
EXTENDS Naturals, Sequences, SequencesExt

(* FindStartCodes: a code of four bytes begins at its first zero. *)
CodeAt(data, i) ==
    i + 2 <= Len(data) /\ data[i] = 0 /\ data[i + 1] = 0 /\ data[i + 2] = 1
CodeBegin(data, i) == IF i > 1 /\ data[i - 1] = 0 THEN i - 1 ELSE i
StartCodes(data) ==
    FoldLeft(LAMBDA found, i : IF CodeAt(data, i) THEN Append(found, CodeBegin(data, i)) ELSE found,
             <<>>, [i \in DOMAIN data |-> i])

(* Where the unit after the start code at pos begins. *)
UnitStart(data, pos) ==
    IF pos + 3 <= Len(data) /\ SubSeq(data, pos, pos + 3) = <<0, 0, 0, 1>> THEN pos + 4 ELSE pos + 3

(* Parse: every unit; an empty one is left out. *)
Parse(data) ==
    LET codes == StartCodes(data)
        end(i) == IF i < Len(codes) THEN codes[i + 1] - 1 ELSE Len(data)
    IN  FoldLeft(LAMBDA units, unit : IF unit = <<>> THEN units ELSE Append(units, unit), <<>>,
                 [i \in DOMAIN codes |-> SubSeq(data, UnitStart(data, codes[i]), end(i))])

(* extractCompleteNALUs: the units a start code follows, and the rest from the
   last start code on. *)
Complete(data) ==
    LET codes == StartCodes(data) IN
    IF codes = <<>> THEN [units |-> <<>>, rest |-> data]
    ELSE [units |-> Parse(SubSeq(data, 1, Last(codes) - 1)),
          rest |-> SubSeq(data, Last(codes), Len(data))]

(* The loop of readLoop over the pieces that reads return: what was left is
   put before the next piece. *)
ReadPieces(pieces) ==
    FoldLeft(LAMBDA s, piece :
                 LET c == Complete(s.rest \o piece)
                 IN  [units |-> s.units \o c.units, rest |-> c.rest],
             [units |-> <<>>, rest |-> <<>>], pieces)

(* sendFrame and annexB write each unit after a code of four bytes; other
   encoders also use the one of three. *)
Annexed(units, long) ==
    FlattenSeq([i \in DOMAIN units |-> (IF long[i] THEN <<0, 0, 0, 1>> ELSE <<0, 0, 1>>) \o units[i]])

(* startsNewAU: here a unit is its type; one of type "sps", "pps", "idr" or "other" begins an access
   unit, unless it belongs to the sets before it. *)
StartsNewAU(unit, current) ==
    CASE unit = "pps" -> "sps" \notin ToSet(current)
      [] unit = "idr" -> {"sps", "pps"} \intersect ToSet(current) = {}
      [] OTHER        -> TRUE

(* Units grouped into access units, in the order read. *)
Grouped(units) ==
    FoldLeft(LAMBDA groups, unit :
                 IF groups = <<>> \/ StartsNewAU(unit, Last(groups)) THEN Append(groups, <<unit>>)
                 ELSE [groups EXCEPT ![Len(groups)] = Append(@, unit)],
             <<>>, units)

=============================================================================
