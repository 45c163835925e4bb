-------------------------------- MODULE MpegTs -------------------------------
(***************************************************************************)
(* The MPEG-TS muxer of the HLS server (internal/hls/muxts.go) as          *)
(* operators: how the time stamp of a frame is put into a PES header, and  *)
(* how a section or a PES packet is cut into transport stream packets.     *)
(***************************************************************************)
EXTENDS Integers, Sequences

CONSTANT PacketRoom     \* payload bytes of a packet: 188 - 4

ASSUME MpegTsAssumption == PacketRoom \in Nat \ {0}

(* The bits first..last of n, moved down. *)
Bits(n, last, first) == (n \div 2^first) % 2^(last - first + 1)

(* buildPESHeader, bytes 9 to 13, for a time stamp below 2^31. *)
PtsBytes(pts) ==
    <<33,                                               \* (pts>>30) & 0x0E is 0
      Bits(pts, 29, 22),
      2 * Bits(pts, 22, 16) + 1,                        \* (pts>>15) & 0xFE
      Bits(pts, 14, 7),
      2 * Bits(pts, 6, 0) + 1>>

(* The layout of the comment above them: PTS[32:30], PTS[29:22], PTS[21:15],
   PTS[14:7], PTS[6:0], with a marker bit after the odd ones. *)
PtsOf(bytes) ==
    Bits(bytes[1], 3, 1) * 2^30 + bytes[2] * 2^22 + Bits(bytes[3], 7, 1) * 2^15
    + bytes[4] * 2^7 + Bits(bytes[5], 7, 1)

(* writePackets: the rest of the last packet is zeros. *)
WritePackets(data, counter) ==
    [i \in 1 .. (Len(data) + PacketRoom - 1) \div PacketRoom |->
        [start |-> i = 1,
         counter |-> (counter + i - 1) % 16,
         payload |-> [j \in 1 .. PacketRoom |->
                        LET k == (i - 1) * PacketRoom + j IN
                        IF k <= Len(data) THEN data[k] ELSE 0]]]

=============================================================================
