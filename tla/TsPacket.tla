------------------------------ MODULE TsPacket ------------------------------
(***************************************************************************)
(* How mpegts_parser.c reads and writes one transport packet.  A packet    *)
(* is its four header bytes and its payload, bytes numbered from 0 as in   *)
(* the code; a segment is what the program keeps of it in memory.  Only    *)
(* fields that reach a file again, or decide what does, are kept.          *)
(*                                                                         *)
(* Times: TLC's integers have 32 bits, so a pcr is the pair of its base    *)
(* (pcr / 300) and its extension (pcr % 300), and packets whose times      *)
(* exceed 31 bits, where the C shifts overflow too, are outside the model. *)
(***************************************************************************)
EXTENDS Integers, Sequences

CONSTANT PayloadSize        \* sizeof(segment->payload), 184 in the code

ASSUME PayloadAssumption == PayloadSize \in Nat \ {0}

Byte    == 0 .. 255
Offsets == 0 .. PayloadSize - 1
Payload == [Offsets -> Byte]
Packet  == [head : [1 .. 4 -> Byte], body : Payload]

TS_SYNC == 71               \* 0x47

Bit(v, k)    == (v \div 2^k) % 2
Flag(v, k)   == Bit(v, k) = 1
WithBit(v, k) == IF Flag(v, k) THEN v ELSE v + 2^k      \* v | (1 << k)

(* Bytes behind the payload belong to segment->pes_header; the model       *)
(* takes them as 255, which no start code contains, and drops writes there *)
At(body, i)         == IF i \in Offsets THEN body[i] ELSE 255
Put(body, i, bytes) == [k \in Offsets |->
    IF k - i + 1 \in DOMAIN bytes THEN bytes[k - i + 1] ELSE body[k]]

(***************************************************************************)
(* The packet header.                                                      *)
(***************************************************************************)

(* The two scrambling bits are shifted by 4 instead of 6 into a field of   *)
(* two bits: what is kept of them is always 0.                             *)
parse_header(h) == [tei   |-> Bit(h[2], 7),
                    pusi  |-> Bit(h[2], 6),
                    prior |-> Bit(h[2], 5),
                    pid   |-> 256 * (h[2] % 32) + h[3],
                    tscramble_control     |-> (4 * (h[4] \div 64)) % 4,
                    adaptation_field_ctrl |-> (h[4] \div 16) % 4,
                    continuity_counter    |-> h[4] % 16]

write_header(hd) == << TS_SYNC,
                       128 * hd.tei + 64 * hd.pusi + 32 * hd.prior
                         + ((hd.pid \div 256) % 32),
                       hd.pid % 256,
                       64 * (hd.tscramble_control \div 4)
                         + 16 * hd.adaptation_field_ctrl
                         + (hd.continuity_counter % 16) >>

HasField(hd) == hd.adaptation_field_ctrl \in {2, 3}

(***************************************************************************)
(* The clock reference: 33 bits of base, 6 reserved, 9 of extension.  Bit  *)
(* 7 of the fifth byte, the LOWEST bit of the base, is read and written as *)
(* bit 7 of the base, and that byte is only ever ORed into.                *)
(***************************************************************************)
parse_pcr(body, i) ==
    LET low  == 2 * At(body, i + 3)
        base == At(body, i) * 2^25 + At(body, i + 1) * 2^17
                  + At(body, i + 2) * 2^9
                  + (IF Flag(At(body, i + 4), 7) THEN WithBit(low, 7) ELSE low)
        ext  == 256 * Bit(At(body, i + 4), 0) + At(body, i + 5)
    IN  [base |-> base + ext \div 300, ext |-> ext % 300]

PcrFifthByte(old, pcr) ==
    LET low == IF Flag(pcr.base, 7) THEN WithBit(old, 7) ELSE old
    IN  IF Flag(pcr.ext, 8) THEN WithBit(low, 0) ELSE low

write_pcr(body, i, pcr) ==
    Put(body, i, << (pcr.base \div 2^25) % 256, (pcr.base \div 2^17) % 256,
                    (pcr.base \div 2^9) % 256, (pcr.base \div 2) % 256,
                    PcrFifthByte(At(body, i + 4), pcr), pcr.ext % 256 >>)

(***************************************************************************)
(* The adaptation field.  "mem" is what the memory of the segment held     *)
(* when it was allocated: mpegts_segment_init clears sizeof(segment) bytes *)
(* only, the size of a pointer, so a field that is not parsed keeps it.    *)
(***************************************************************************)
parse_adaptation_field(hd, body, mem) ==
    IF ~HasField(hd)
    THEN [f \in {"len", "rand_acc", "has_pcr", "pcr", "priv_len"} |-> mem[f]]
    ELSE LET flags == At(body, 1)
             private == 2 + 6 * Bit(flags, 4) + 6 * Bit(flags, 3) + Bit(flags, 2)
         IN  [len      |-> body[0],
              rand_acc |-> Bit(flags, 6),
              has_pcr  |-> Bit(flags, 4),
              pcr      |-> IF Flag(flags, 4) THEN parse_pcr(body, 2) ELSE mem.pcr,
              priv_len |-> IF Flag(flags, 1) THEN At(body, private) ELSE mem.priv_len]

\* Where the parser looks for a PES header.
PayloadStart(hd, body) == IF HasField(hd) THEN 1 + body[0] ELSE 0

\* Mutant of PesCursor: the length byte itself is not counted.
PesCursorShort(hd, adp) == IF HasField(hd) /\ adp.len # 0
                           THEN adp.len + adp.priv_len ELSE 0

(* Where the writer puts it: the same place only if the field is not empty *)
(* and priv_len, which the field's length includes, is 0.                  *)
PesCursor(hd, adp) == IF HasField(hd) /\ adp.len # 0
                      THEN adp.len + 1 + adp.priv_len ELSE 0

write_adaptation_field(adp, body) ==
    LET flagged == IF adp.rand_acc = 1
                   THEN Put(body, 1, << WithBit(At(body, 1), 6) >>) ELSE body
    IN  IF adp.has_pcr = 1 THEN write_pcr(flagged, 2, adp.pcr) ELSE flagged

(***************************************************************************)
(* The PES header at offset i: <<>> when there is none, which is a null    *)
(* pes_header pointer in the code.                                         *)
(***************************************************************************)
PTS_ONLY_MASK(b) == Flag(b, 5) /\ Flag(b, 0)
PTS_MASK(b)      == PTS_ONLY_MASK(b) /\ Flag(b, 4)

get_pes_pts(marked, body, i) ==
    IF ~marked THEN 0
    ELSE ((At(body, i) % 16) \div 2) * 2^30
           + (At(body, i + 1) * 2^7 + At(body, i + 2) \div 2) * 2^15
           + At(body, i + 3) * 2^7 + At(body, i + 4) \div 2

(* A header of length 0 is not read any further, and one without a time    *)
(* stamp leaves pts as malloc returned it.                                 *)
parse_pes_header(body, i, mem) ==
    LET len    == 256 * At(body, i + 4) + At(body, i + 5)
        ind    == At(body, i + 7) \div 64
        marker == At(body, i + 9)
        pts    == IF len = 0 \/ ind \notin {2, 3} THEN mem.pts
                  ELSE get_pes_pts(IF ind = 2 THEN PTS_ONLY_MASK(marker)
                                              ELSE PTS_MASK(marker), body, i + 9)
    IN  IF <<At(body, i), At(body, i + 1), At(body, i + 2)>> # <<0, 0, 1>> THEN <<>>
        ELSE << [stream_id |-> At(body, i + 3), len |-> len, pts |-> pts] >>

\* Mutant of PesBytes: the length in the wrong byte order.
PesBytesSwapped(pes) == <<1, pes.stream_id, pes.len % 256, pes.len \div 256>>

PesBytes(pes) == <<1, pes.stream_id, pes.len \div 256, pes.len % 256>>

write_pes_header(pes, i, body) ==
    IF pes = <<>> THEN body ELSE Put(body, i + 2, PesBytes(pes[1]))

(***************************************************************************)
(* Whole packets.                                                          *)
(***************************************************************************)
parse_ts_segment(packet, mem) ==
    LET hd == parse_header(packet.head)
    IN  [header |-> hd,
         adaptation_field |-> parse_adaptation_field(hd, packet.body, mem),
         pes_header |-> parse_pes_header(packet.body, PayloadStart(hd, packet.body), mem),
         payload |-> packet.body]

\* The payload write_ts_segment leaves in the segment and writes to the file.
written_payload(seg) ==
    write_pes_header(seg.pes_header, PesCursor(seg.header, seg.adaptation_field),
                     write_adaptation_field(seg.adaptation_field, seg.payload))

IsPacket(packet) == packet.head[1] = TS_SYNC
=============================================================================
