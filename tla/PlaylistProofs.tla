---------------------------- MODULE PlaylistProofs ----------------------------
(***************************************************************************)
(* Theorems about the editor, for every size of the payload, all files and *)
(* every order of fixes, updates and ends of the program.                  *)
(***************************************************************************)
EXTENDS Playlist, FiniteSetTheorems, WellFoundedInduction, TLAPS

\* The provers enumerate an interval with constant bounds, but not this set.
Below(n) == {v \in Nat : v < n}

Header == [tei : Below(2), pusi : Below(2), prior : Below(2), pid : Below(8192),
           tscramble_control : Below(4), adaptation_field_ctrl : Below(4),
           continuity_counter : Below(16)]

AdaptationField == [len : Byte, rand_acc : 0 .. 1, has_pcr : 0 .. 1, pcr : Time,
                    priv_len : Byte]

PesHeader == [stream_id : Byte, len : Below(65536), pts : Nat]

Segment == [header : Header, adaptation_field : AdaptationField,
            pes_header : Seq(PesHeader), payload : Payload]

-----------------------------------------------------------------------------
(* Bits and bytes *)

\* What a byte is.
LEMMA ByteIs == Byte = Below(256)
BY DEF Byte, Below

\* A bit is 0 or 1.
LEMMA BitType ==
    ASSUME NEW v \in Nat
    PROVE  \A k \in {0, 1, 2, 3, 4, 5, 6, 7, 8} : Bit(v, k) \in 0 .. 1
BY DEF Bit

\* Setting a bit of a byte leaves a byte, and sets it.
LEMMA WithBitSets ==
    ASSUME NEW v \in Byte
    PROVE  \A k \in {0, 6, 7} : WithBit(v, k) \in Byte /\ Flag(WithBit(v, k), k)
<1>1. WithBit(v, 0) \in Byte /\ Flag(WithBit(v, 0), 0)
  BY ByteIs DEF Below, WithBit, Flag, Bit
<1>2. WithBit(v, 6) \in Byte /\ Flag(WithBit(v, 6), 6)
  BY ByteIs DEF Below, WithBit, Flag, Bit
<1>3. WithBit(v, 7) \in Byte /\ Flag(WithBit(v, 7), 7)
  BY ByteIs DEF Below, WithBit, Flag, Bit
<1> QED BY <1>1, <1>2, <1>3

\* Setting the flag of a random access point keeps the bits below it.
LEMMA WithBitKeeps ==
    ASSUME NEW v \in Byte
    PROVE  \A k \in {1, 2, 3, 4} : Bit(WithBit(v, 6), k) = Bit(v, k)
<1>1. v \in Nat
  BY ByteIs DEF Below
<1>2. CASE (v \div 64) % 2 = 1
  BY <1>2 DEF WithBit, Flag, Bit
<1>3. CASE (v \div 64) % 2 # 1
  <2>1. WithBit(v, 6) = v + 64
    BY <1>3 DEF WithBit, Flag, Bit
  <2>2. /\ ((v + 64) \div 2) % 2 = (v \div 2) % 2
        /\ ((v + 64) \div 4) % 2 = (v \div 4) % 2
        /\ ((v + 64) \div 8) % 2 = (v \div 8) % 2
        /\ ((v + 64) \div 16) % 2 = (v \div 16) % 2
    BY <1>1
  <2>3. /\ Bit(v + 64, 1) = Bit(v, 1) /\ Bit(v + 64, 2) = Bit(v, 2)
        /\ Bit(v + 64, 3) = Bit(v, 3) /\ Bit(v + 64, 4) = Bit(v, 4)
    BY <2>2 DEF Bit
  <2> QED BY <2>1, <2>3
<1> QED BY <1>2, <1>3

\* Setting it twice does no more than setting it once.
LEMMA WithBitTwice ==
    ASSUME NEW v \in Byte
    PROVE  /\ WithBit(WithBit(v, 6), 6) = WithBit(v, 6)
           /\ Flag(v, 6) => WithBit(v, 6) = v
<1>1. Flag(WithBit(v, 6), 6)
  BY WithBitSets
<1> QED BY <1>1 DEF WithBit

\* The parts of a byte that a header has.
LEMMA BytePart ==
    ASSUME NEW b \in Below(256)
    PROVE  /\ b % 32 \in Below(32) /\ (b % 32) % 32 = b % 32
           /\ (b \div 16) % 4 \in Below(4) /\ b % 16 \in Below(16)
           /\ (4 * (b \div 64)) % 4 = 0
           /\ b \div 64 = 0 => (b \div 16) % 4 = b \div 16
BY DEF Below

\* The three flags of a header and the five bits below them.
LEMMA TopBits ==
    ASSUME NEW b \in Below(256)
    PROVE  128 * ((b \div 128) % 2) + 64 * ((b \div 64) % 2)
             + 32 * ((b \div 32) % 2) + (b % 32) = b
<1> DEFINE q == b \div 32
<1>1. /\ q \in 0 .. 7 /\ b = 32 * q + (b % 32) /\ b % 32 \in Nat
      /\ b \div 64 = q \div 2 /\ b \div 128 = q \div 4
  BY DEF Below
<1>2. \A n \in 0 .. 7 : 4 * ((n \div 4) % 2) + 2 * ((n \div 2) % 2) + (n % 2) = n
  OBVIOUS
<1>3. 4 * ((q \div 4) % 2) + 2 * ((q \div 2) % 2) + (q % 2) = q
  BY <1>1, <1>2
<1>4. 128 * ((b \div 128) % 2) = 32 * (4 * ((q \div 4) % 2))
  BY <1>1
<1>5. 64 * ((b \div 64) % 2) = 32 * (2 * ((q \div 2) % 2))
  BY <1>1
<1>6. b \div 32 = q
  OBVIOUS
<1> HIDE DEF q
<1> QED BY <1>1, <1>3, <1>4, <1>5, <1>6

\* The pid in two bytes.
LEMMA PidPart ==
    ASSUME NEW a \in Below(32), NEW b \in Below(256)
    PROVE  /\ 256 * a + b \in Below(8192)
           /\ (256 * a + b) \div 256 = a
           /\ (256 * a + b) % 256 = b
BY DEF Below

\* The last byte of a header that is not scrambled.
LEMMA CounterPart ==
    ASSUME NEW a \in Below(4), NEW c \in Below(16)
    PROVE  /\ 16 * a + c \in Below(256)
           /\ (16 * a + c) \div 16 = a
           /\ (16 * a + c) % 16 = c
           /\ c % 16 = c
BY DEF Below

-----------------------------------------------------------------------------
(* The packet header *)

\* A header is read with every field in its range.
LEMMA HeaderRead ==
    ASSUME NEW h \in [1 .. 4 -> Byte]
    PROVE  parse_header(h) \in Header
<1>1. h[2] \in Below(256) /\ h[3] \in Below(256) /\ h[4] \in Below(256)
  BY ByteIs
<1>2. Bit(h[2], 7) \in Below(2) /\ Bit(h[2], 6) \in Below(2) /\ Bit(h[2], 5) \in Below(2)
  BY <1>1, BitType DEF Below
<1>3. 256 * (h[2] % 32) + h[3] \in Below(8192)
  BY <1>1, BytePart, PidPart
<1>4. (4 * (h[4] \div 64)) % 4 \in Below(4)
  BY <1>1, BytePart DEF Below
<1>5. (h[4] \div 16) % 4 \in Below(4) /\ h[4] % 16 \in Below(16)
  BY <1>1, BytePart
<1> QED BY <1>2, <1>3, <1>4, <1>5 DEF parse_header, Header

\* A header is written as four bytes.
LEMMA HeaderWritten ==
    ASSUME NEW hd \in Header
    PROVE  write_header(hd) \in [1 .. 4 -> Byte]
<1>1. /\ hd.tei \in Below(2) /\ hd.pusi \in Below(2) /\ hd.prior \in Below(2)
      /\ hd.pid \in Below(8192) /\ hd.tscramble_control \in Below(4)
      /\ hd.adaptation_field_ctrl \in Below(4) /\ hd.continuity_counter \in Below(16)
  BY DEF Header
<1>2. 128 * hd.tei + 64 * hd.pusi + 32 * hd.prior + ((hd.pid \div 256) % 32) \in Below(256)
  <2>1. (hd.pid \div 256) % 32 \in Below(32)
    BY <1>1 DEF Below
  <2> QED BY <1>1, <2>1 DEF Below
<1>3. hd.pid % 256 \in Below(256)
  BY <1>1 DEF Below
<1>4. 64 * (hd.tscramble_control \div 4) + 16 * hd.adaptation_field_ctrl
        + (hd.continuity_counter % 16) \in Below(256)
  <2>1. hd.tscramble_control \div 4 = 0
    BY <1>1 DEF Below
  <2> QED BY <1>1, <2>1, CounterPart DEF Below
<1>5. TS_SYNC \in Byte
  BY DEF TS_SYNC, Byte
<1> QED BY <1>2, <1>3, <1>4, <1>5, ByteIs DEF write_header

\* hd is what is read from the header h, with any counter.
ReadsAs(hd, h) ==
    /\ hd \in Header
    /\ \A f \in {"tei", "pusi", "prior", "pid", "tscramble_control", "adaptation_field_ctrl"} :
          hd[f] = parse_header(h)[f]

(* write_header inverts parse_header: a header that is read and written     *)
(* keeps all its bits but the counter, which is the one it was given in    *)
(* between, if the packet is not scrambled.                                *)
THEOREM HeaderKept ==
    ASSUME NEW h \in [1 .. 4 -> Byte], h[1] = TS_SYNC, h[4] \div 64 = 0,
           NEW hd, ReadsAs(hd, h)
    PROVE  /\ \A i \in 1 .. 3 : write_header(hd)[i] = h[i]
           /\ write_header(hd)[4] \div 16 = h[4] \div 16
           /\ write_header(hd)[4] % 16 = hd.continuity_counter
<1>1. /\ hd.tei = Bit(h[2], 7) /\ hd.pusi = Bit(h[2], 6) /\ hd.prior = Bit(h[2], 5)
      /\ hd.pid = 256 * (h[2] % 32) + h[3]
      /\ hd.tscramble_control = (4 * (h[4] \div 64)) % 4
      /\ hd.adaptation_field_ctrl = (h[4] \div 16) % 4
  BY DEF parse_header, ReadsAs
<1>2. /\ h[2] \in Below(256) /\ h[3] \in Below(256) /\ h[4] \in Below(256)
      /\ hd.continuity_counter \in Below(16)
  BY ByteIs DEF ReadsAs, Header
<1>3. 128 * hd.tei + 64 * hd.pusi + 32 * hd.prior + ((hd.pid \div 256) % 32) = h[2]
  <2>1. (hd.pid \div 256) % 32 = h[2] % 32
    BY <1>1, <1>2, BytePart, PidPart
  <2>2. /\ Bit(h[2], 7) = (h[2] \div 128) % 2
        /\ Bit(h[2], 6) = (h[2] \div 64) % 2
        /\ Bit(h[2], 5) = (h[2] \div 32) % 2
    BY DEF Bit
  <2> QED BY <1>1, <1>2, <2>1, <2>2, TopBits
<1>4. hd.pid % 256 = h[3]
  BY <1>1, <1>2, BytePart, PidPart
<1>5. 64 * (hd.tscramble_control \div 4) + 16 * hd.adaptation_field_ctrl
        + (hd.continuity_counter % 16) = 16 * (h[4] \div 16) + hd.continuity_counter
  <2>1. hd.tscramble_control = 0 /\ hd.adaptation_field_ctrl = h[4] \div 16
    BY <1>1, <1>2, BytePart
  <2>2. hd.continuity_counter % 16 = hd.continuity_counter
    BY <1>2 DEF Below
  <2> QED BY <1>2, <2>1, <2>2 DEF Below
<1>6. h[4] \div 16 \in Below(4)
  BY <1>2, BytePart
<1> QED BY <1>2, <1>3, <1>4, <1>5, <1>6, CounterPart DEF write_header

\* Reading a header again that differs in the counter at most gives the same fields.
LEMMA HeaderReread ==
    ASSUME NEW g \in [1 .. 4 -> Byte], NEW h \in [1 .. 4 -> Byte],
           \A i \in 1 .. 3 : g[i] = h[i], g[4] \div 16 = h[4] \div 16
    PROVE  ReadsAs(parse_header(g), h)
<1>1. g[4] \in Below(256) /\ h[4] \in Below(256)
  BY ByteIs
<1>2. (4 * (g[4] \div 64)) % 4 = 0 /\ (4 * (h[4] \div 64)) % 4 = 0
  BY <1>1, BytePart
<1>3. parse_header(g) \in Header
  BY HeaderRead
<1> QED BY <1>2, <1>3 DEF ReadsAs, parse_header

-----------------------------------------------------------------------------
(* The types of what is read and written *)

\* Reading a byte anywhere gives a byte.
LEMMA AtType ==
    ASSUME NEW body \in Payload
    PROVE  \A i : At(body, i) \in Byte
BY DEF Payload, At, Byte

\* Bytes put into a payload leave a payload.
LEMMA PutType ==
    ASSUME NEW body \in Payload, NEW i \in Nat, NEW bytes \in Seq(Byte)
    PROVE  Put(body, i, bytes) \in Payload
BY DEF Put, Payload, Offsets

\* A bit that is set in a number leaves a number.
LEMMA WithBitNat ==
    ASSUME NEW v \in Nat
    PROVE  WithBit(v, 7) \in Nat
BY DEF WithBit

\* A clock reference is read as one.
LEMMA PcrRead ==
    ASSUME NEW body \in Payload, NEW i \in Nat
    PROVE  parse_pcr(body, i) \in Time
<1>1. \A k : At(body, k) \in Nat
  BY AtType, ByteIs DEF Below
<1>2. Bit(At(body, i + 4), 0) \in Nat
  BY <1>1, BitType
<1>3. /\ 2 * At(body, i + 3) \in Nat
      /\ WithBit(2 * At(body, i + 3), 7) \in Nat
  BY <1>1, WithBitNat
<1> DEFINE low  == 2 * At(body, i + 3)
           last == IF Flag(At(body, i + 4), 7) THEN WithBit(low, 7) ELSE low
           base == At(body, i) * 2^25 + At(body, i + 1) * 2^17 + At(body, i + 2) * 2^9 + last
           ext  == 256 * Bit(At(body, i + 4), 0) + At(body, i + 5)
<1>4. last \in Nat
  BY <1>3
<1>5. base \in Nat
  <2> HIDE DEF last
  <2> QED BY <1>1, <1>4
<1>6. ext \in Nat
  BY <1>1, <1>2
<1>7. parse_pcr(body, i) = [base |-> base + ext \div 300, ext |-> ext % 300]
  BY DEF parse_pcr
<1> HIDE DEF base, ext
<1>8. base + ext \div 300 \in Nat /\ ext % 300 \in Nat
  BY <1>5, <1>6
<1> QED BY <1>7, <1>8 DEF Time

\* An adaptation field is read as one.
LEMMA FieldRead ==
    ASSUME NEW hd, NEW body \in Payload, NEW mem \in Memory
    PROVE  parse_adaptation_field(hd, body, mem) \in AdaptationField
<1>1. CASE ~HasField(hd)
  BY <1>1 DEF parse_adaptation_field, Memory, AdaptationField
<1>2. CASE HasField(hd)
  <2>1. \A i : At(body, i) \in Byte
    BY AtType
  <2>2. Bit(At(body, 1), 6) \in 0 .. 1 /\ Bit(At(body, 1), 4) \in 0 .. 1
    BY <2>1, BitType, ByteIs DEF Below
  <2>3. body[0] \in Byte
    BY PayloadAssumption DEF Payload, Offsets
  <2>4. parse_pcr(body, 2) \in Time
    BY PcrRead
  <2> QED BY <1>2, <2>1, <2>2, <2>3, <2>4 DEF parse_adaptation_field, Memory, AdaptationField
<1> QED BY <1>1, <1>2

\* A time stamp is read as a number.
LEMMA PtsRead ==
    ASSUME NEW marked \in BOOLEAN, NEW body \in Payload, NEW i \in Nat
    PROVE  get_pes_pts(marked, body, i) \in Nat
<1>1. \A k : At(body, k) \in Nat
  BY AtType, ByteIs DEF Below
<1> DEFINE high == ((At(body, i) % 16) \div 2) * 2^30
           mid  == (At(body, i + 1) * 2^7 + (At(body, i + 2) \div 2)) * 2^15
           low  == At(body, i + 3) * 2^7
           last == At(body, i + 4) \div 2
<1>2. high \in Nat
  BY <1>1
<1>3. mid \in Nat
  BY <1>1
<1>4. low \in Nat /\ last \in Nat
  BY <1>1
<1>5. get_pes_pts(marked, body, i) = IF ~marked THEN 0 ELSE high + mid + low + last
  BY DEF get_pes_pts
<1> HIDE DEF high, mid, low, last
<1> QED BY <1>2, <1>3, <1>4, <1>5

\* A PES header is read as one, if there is one.
LEMMA PesRead ==
    ASSUME NEW body \in Payload, NEW i \in Nat, NEW mem \in Memory
    PROVE  parse_pes_header(body, i, mem) \in Seq(PesHeader)
<1>1. At(body, i + 3) \in Byte /\ 256 * At(body, i + 4) + At(body, i + 5) \in Below(65536)
  BY AtType, ByteIs DEF Below
<1> DEFINE len    == 256 * At(body, i + 4) + At(body, i + 5)
           ind    == At(body, i + 7) \div 64
           marker == At(body, i + 9)
           marked == IF ind = 2 THEN PTS_ONLY_MASK(marker) ELSE PTS_MASK(marker)
           pts    == IF len = 0 \/ ind \notin {2, 3} THEN mem.pts
                     ELSE get_pes_pts(marked, body, i + 9)
<1>2. marked \in BOOLEAN
  BY DEF PTS_ONLY_MASK, PTS_MASK, Flag
<1>3. get_pes_pts(marked, body, i + 9) \in Nat
  <2> HIDE DEF marked
  <2> QED BY <1>2, PtsRead
<1>4. pts \in Nat
  BY <1>3 DEF Memory
<1>5. parse_pes_header(body, i, mem) =
        IF <<At(body, i), At(body, i + 1), At(body, i + 2)>> # <<0, 0, 1>> THEN <<>>
        ELSE << [stream_id |-> At(body, i + 3), len |-> len, pts |-> pts] >>
  BY DEF parse_pes_header
<1> HIDE DEF pts
<1>6. [stream_id |-> At(body, i + 3), len |-> len, pts |-> pts] \in PesHeader
  BY <1>1, <1>4 DEF PesHeader
<1> QED BY <1>5, <1>6

\* Where the PES header is looked for.
LEMMA StartType ==
    ASSUME NEW hd, NEW body \in Payload
    PROVE  PayloadStart(hd, body) \in Nat
BY PayloadAssumption, ByteIs DEF PayloadStart, Payload, Offsets, Below

\* A packet is read as a segment.
LEMMA SegmentRead ==
    ASSUME NEW packet \in Packet, NEW mem \in Memory
    PROVE  parse_ts_segment(packet, mem) \in Segment
<1>1. packet.head \in [1 .. 4 -> Byte] /\ packet.body \in Payload
  BY DEF Packet
<1> QED BY <1>1, HeaderRead, FieldRead, StartType, PesRead DEF parse_ts_segment, Segment

\* Bytes put into a payload.
LEMMA PutAt ==
    ASSUME NEW body \in Payload, NEW i \in Nat, NEW bytes \in Seq(Byte), NEW k \in Offsets
    PROVE  Put(body, i, bytes)[k] = IF k \in i .. i + Len(bytes) - 1 THEN bytes[k - i + 1] ELSE body[k]
BY DEF Put, Offsets

\* A clock reference is written into six bytes.
LEMMA PcrWritten ==
    ASSUME NEW body \in Payload, NEW pcr \in Time
    PROVE  /\ write_pcr(body, 2, pcr) \in Payload
           /\ \A k \in Offsets \ (2 .. 7) : write_pcr(body, 2, pcr)[k] = body[k]
<1> DEFINE fifth == PcrFifthByte(At(body, 6), pcr)
           bytes == << (pcr.base \div 2^25) % 256, (pcr.base \div 2^17) % 256,
                       (pcr.base \div 2^9) % 256, (pcr.base \div 2) % 256,
                       fifth, pcr.ext % 256 >>
<1>1. fifth \in Byte
  BY AtType, WithBitSets DEF PcrFifthByte
<1>2. /\ (pcr.base \div 2^25) % 256 \in Byte /\ (pcr.base \div 2^17) % 256 \in Byte
      /\ (pcr.base \div 2^9) % 256 \in Byte /\ (pcr.base \div 2) % 256 \in Byte
      /\ pcr.ext % 256 \in Byte
  <2>1. pcr.base \in Nat /\ pcr.ext \in Nat
    BY DEF Time
  <2> QED BY <2>1, ByteIs DEF Below
<1>3. write_pcr(body, 2, pcr) = Put(body, 2, bytes)
  BY DEF write_pcr
<1> HIDE DEF fifth
<1>4. bytes \in Seq(Byte) /\ Len(bytes) = 6
  BY <1>1, <1>2
<1> HIDE DEF bytes
<1>5. \A k \in Offsets \ (2 .. 7) : Put(body, 2, bytes)[k] = body[k]
  <2> TAKE k \in Offsets \ (2 .. 7)
  <2>1. k \notin 2 .. 2 + Len(bytes) - 1
    BY <1>4 DEF Offsets
  <2>2. k \in Offsets /\ 2 \in Nat
    OBVIOUS
  <2>3. Put(body, 2, bytes)[k] = IF k \in 2 .. 2 + Len(bytes) - 1 THEN bytes[k - 2 + 1] ELSE body[k]
    BY <1>4, <2>2, PutAt
  <2> QED BY <2>1, <2>3
<1> QED BY <1>3, <1>4, <1>5, PutType

\* An adaptation field is written into the payload: one bit of the second
\* byte, and the clock reference.
LEMMA FieldWritten ==
    ASSUME NEW adp \in AdaptationField, NEW body \in Payload
    PROVE  /\ write_adaptation_field(adp, body) \in Payload
           /\ \A k \in Offsets :
                 ~ (adp.has_pcr = 1 /\ k \in 2 .. 7) =>
                 write_adaptation_field(adp, body)[k] =
                       IF k = 1 /\ adp.rand_acc = 1 THEN WithBit(body[1], 6) ELSE body[k]
<1> DEFINE flagged == IF adp.rand_acc = 1 THEN Put(body, 1, << WithBit(At(body, 1), 6) >>) ELSE body
<1>1. << WithBit(At(body, 1), 6) >> \in Seq(Byte)
  BY AtType, WithBitSets
<1>2. flagged \in Payload
  BY <1>1, PutType
<1>3. \A k \in Offsets :
         flagged[k] = IF k = 1 /\ adp.rand_acc = 1 THEN WithBit(body[1], 6) ELSE body[k]
  <2> TAKE k \in Offsets
  <2>1. k \in Nat
    BY DEF Offsets
  <2>2. CASE adp.rand_acc = 1
    <3> DEFINE bytes == << WithBit(At(body, 1), 6) >>
    <3>1. bytes \in Seq(Byte) /\ Len(bytes) = 1 /\ bytes[1] = WithBit(At(body, 1), 6)
      BY <1>1
    <3>2. flagged = Put(body, 1, bytes)
      BY <2>2
    <3> HIDE DEF bytes, flagged
    <3>3. Put(body, 1, bytes)[k] = IF k \in 1 .. 1 + Len(bytes) - 1 THEN bytes[k - 1 + 1] ELSE body[k]
      BY <3>1, PutAt
    <3>4. k \in 1 .. 1 + Len(bytes) - 1 <=> k = 1
      BY <2>1, <3>1
    <3>5. flagged[k] = IF k = 1 THEN WithBit(At(body, 1), 6) ELSE body[k]
      BY <3>1, <3>2, <3>3, <3>4
    <3> QED BY <3>5, <2>2 DEF At
  <2> QED BY <2>2
<1>4. write_adaptation_field(adp, body) =
        IF adp.has_pcr = 1 THEN write_pcr(flagged, 2, adp.pcr) ELSE flagged
  BY DEF write_adaptation_field
<1>5. adp.pcr \in Time
  BY DEF AdaptationField
<1> HIDE DEF flagged
<1>6. /\ write_pcr(flagged, 2, adp.pcr) \in Payload
      /\ \A k \in Offsets \ (2 .. 7) : write_pcr(flagged, 2, adp.pcr)[k] = flagged[k]
  BY <1>2, <1>5, PcrWritten
<1> QED BY <1>2, <1>3, <1>4, <1>6

\* A PES header is written into four bytes: the last of the start code, the
\* stream id, and the length.
LEMMA PesWritten ==
    ASSUME NEW pes \in Seq(PesHeader), NEW i \in Nat, NEW body \in Payload
    PROVE  /\ write_pes_header(pes, i, body) \in Payload
           /\ pes = <<>> => write_pes_header(pes, i, body) = body
           /\ pes # <<>> => \A k \in Offsets :
                 /\ k \notin i + 2 .. i + 5 => write_pes_header(pes, i, body)[k] = body[k]
                 /\ k = i + 2 => write_pes_header(pes, i, body)[k] = 1
                 /\ k = i + 3 => write_pes_header(pes, i, body)[k] = pes[1].stream_id
                 /\ k = i + 4 => write_pes_header(pes, i, body)[k] = pes[1].len \div 256
                 /\ k = i + 5 => write_pes_header(pes, i, body)[k] = pes[1].len % 256
<1>1. CASE pes = <<>>
  BY <1>1 DEF write_pes_header
<1>2. CASE pes # <<>>
  <2> DEFINE bytes == PesBytes(pes[1])
  <2>1. pes[1] \in PesHeader
    BY <1>2
  <2>2. /\ 1 \in Byte /\ pes[1].stream_id \in Byte
        /\ pes[1].len \div 256 \in Byte /\ pes[1].len % 256 \in Byte
    BY <2>1, ByteIs DEF PesHeader, Below
  <2>3. /\ bytes \in Seq(Byte) /\ Len(bytes) = 4
        /\ bytes[1] = 1 /\ bytes[2] = pes[1].stream_id
        /\ bytes[3] = pes[1].len \div 256 /\ bytes[4] = pes[1].len % 256
    BY <2>2 DEF PesBytes
  <2>4. write_pes_header(pes, i, body) = Put(body, i + 2, bytes)
    BY <1>2 DEF write_pes_header
  <2> HIDE DEF bytes
  <2>5. i + 2 \in Nat /\ i + 2 + Len(bytes) - 1 = i + 5
    BY <2>3
  <2>6. \A k \in Offsets : Put(body, i + 2, bytes)[k] =
           IF k \in i + 2 .. i + 5 THEN bytes[k - (i + 2) + 1] ELSE body[k]
    <3>1. bytes \in Seq(Byte)
      BY <2>3
    <3> QED BY <2>5, <3>1, PutAt
  <2>7. /\ (i + 2) - (i + 2) + 1 = 1 /\ (i + 3) - (i + 2) + 1 = 2
        /\ (i + 4) - (i + 2) + 1 = 3 /\ (i + 5) - (i + 2) + 1 = 4
    OBVIOUS
  <2>8. Put(body, i + 2, bytes) \in Payload
    BY <2>3, <2>5, PutType
  <2>9. ASSUME NEW k \in Offsets
        PROVE  /\ k \notin i + 2 .. i + 5 => Put(body, i + 2, bytes)[k] = body[k]
               /\ k = i + 2 => Put(body, i + 2, bytes)[k] = 1
               /\ k = i + 3 => Put(body, i + 2, bytes)[k] = pes[1].stream_id
               /\ k = i + 4 => Put(body, i + 2, bytes)[k] = pes[1].len \div 256
               /\ k = i + 5 => Put(body, i + 2, bytes)[k] = pes[1].len % 256
    <3>1. Put(body, i + 2, bytes)[k] =
             IF k \in i + 2 .. i + 5 THEN bytes[k - (i + 2) + 1] ELSE body[k]
      BY <2>6
    <3>2. i + 2 \in i + 2 .. i + 5 /\ i + 3 \in i + 2 .. i + 5
          /\ i + 4 \in i + 2 .. i + 5 /\ i + 5 \in i + 2 .. i + 5
      OBVIOUS
    <3> QED BY <2>3, <2>7, <3>1, <3>2
  <2> QED BY <1>2, <2>4, <2>8, <2>9
<1> QED BY <1>1, <1>2

\* What is written of a segment is a payload.
LEMMA PayloadWritten ==
    ASSUME NEW seg \in Segment
    PROVE  written_payload(seg) \in Payload
<1>1. /\ seg.adaptation_field \in AdaptationField /\ seg.payload \in Payload
      /\ seg.pes_header \in Seq(PesHeader)
  BY DEF Segment
<1>2. PesCursor(seg.header, seg.adaptation_field) \in Nat
  BY <1>1, ByteIs DEF PesCursor, AdaptationField, Below
<1> QED BY <1>1, <1>2, FieldWritten, PesWritten DEF written_payload

-----------------------------------------------------------------------------
(* What reading, fixing and writing keep of a packet *)

\* Of a packet: it has an adaptation field, a clock reference, a PES header, is a key frame.
HasAdp(old)  == HasField(parse_header(old.head))
HasPcr(old)  == HasAdp(old) /\ Flag(At(old.body, 1), 4)
Start(old)   == PayloadStart(parse_header(old.head), old.body)
HasPes(old)  == parse_pes_header(old.body, Start(old), Clean) # <<>>
KeyFrame(old) == \E pid \in Pids : IsKeyFrame(parse_ts_segment(old, Clean), pid)

\* The part of SameBut that is about the payload.
BodyKept(body, old) ==
    \A i \in Offsets \ MeantToChange(old) :
       \/ body[i] = old.body[i]
       \/ i = 1 /\ KeyFrame(old) /\ body[1] = WithBit(old.body[1], 6)

\* A segment as it was read from some state of the packet, and fixed.
Kept(seg, old) ==
    /\ IsPacket(old)
    /\ ReadsAs(seg.header, old.head)
    /\ BodyKept(seg.payload, old)
    /\ seg.adaptation_field.has_pcr = 1 <=> HasPcr(old)
    /\ HasAdp(old) => seg.adaptation_field.len = old.body[0]
    /\ seg.adaptation_field.priv_len = 0
    /\ seg.adaptation_field.rand_acc = 1 =>
          HasAdp(old) /\ (Flag(At(old.body, 1), 6) \/ KeyFrame(old))
    /\ HasAdp(old) /\ Flag(At(seg.payload, 1), 6) => seg.adaptation_field.rand_acc = 1
    /\ seg.pes_header # <<>> <=> HasPes(old)
    /\ seg.pes_header # <<>> => seg.pes_header[1].stream_id = At(old.body, Start(old) + 3)

\* SameBut in two parts.
LEMMA SameParts ==
    ASSUME NEW packet, NEW old
    PROVE  SameBut(packet, old) <=>
               /\ \A i \in 1 .. 3 : packet.head[i] = old.head[i]
               /\ packet.head[4] \div 16 = old.head[4] \div 16
               /\ BodyKept(packet.body, old)
BY Zenon DEF SameBut, BodyKept, KeyFrame

\* Reading a packet into clean memory.
LEMMA CleanRead ==
    ASSUME NEW old \in Packet
    PROVE  /\ parse_ts_segment(old, Clean).header = parse_header(old.head)
           /\ parse_ts_segment(old, Clean).pes_header
                = parse_pes_header(old.body, Start(old), Clean)
           /\ parse_ts_segment(old, Clean).adaptation_field.has_pcr = 1 <=> HasPcr(old)
<1> DEFINE hd == parse_header(old.head)
<1>1. parse_ts_segment(old, Clean).adaptation_field = parse_adaptation_field(hd, old.body, Clean)
  BY DEF parse_ts_segment
<1>2. CASE HasField(hd)
  <2>1. parse_adaptation_field(hd, old.body, Clean).has_pcr = Bit(At(old.body, 1), 4)
    BY <1>2 DEF parse_adaptation_field
  <2> QED BY <1>1, <1>2, <2>1 DEF parse_ts_segment, HasPcr, HasAdp, Start, Flag
<1>3. CASE ~HasField(hd)
  <2>1. parse_adaptation_field(hd, old.body, Clean).has_pcr = 0
    BY <1>3 DEF parse_adaptation_field, Clean
  <2> QED BY <1>1, <1>3, <2>1 DEF parse_ts_segment, HasPcr, HasAdp, Start
<1> QED BY <1>2, <1>3

\* The bytes that may change, in these words.
LEMMA Meant ==
    ASSUME NEW old \in Packet
    PROVE  MeantToChange(old) = (IF HasPcr(old) THEN 2 .. 7 ELSE {})
                                  \cup (IF HasPes(old) THEN {Start(old) + 4, Start(old) + 5} ELSE {})
<1> DEFINE seg == parse_ts_segment(old, Clean)
<1>1. /\ seg.header = parse_header(old.head)
      /\ seg.pes_header # <<>> <=> HasPes(old)
      /\ seg.adaptation_field.has_pcr = 1 <=> HasPcr(old)
  BY CleanRead DEF HasPes
<1>2. PayloadStart(seg.header, old.body) = Start(old)
  BY <1>1 DEF Start
<1>3. MeantToChange(old) =
        (IF seg.adaptation_field.has_pcr = 1 THEN 2 .. 7 ELSE {})
          \cup (IF seg.pes_header # <<>>
                THEN {PayloadStart(seg.header, old.body) + 4, PayloadStart(seg.header, old.body) + 5}
                ELSE {})
  BY DEF MeantToChange
<1> HIDE DEF seg
<1> QED BY <1>1, <1>2, <1>3

\* The parts of a well formed packet do not overlap.
LEMMA PartsApart ==
    ASSUME NEW old \in Packet, WellFormed(old)
    PROVE  /\ Start(old) \in Nat /\ Start(old) # 1
           /\ 0 \notin MeantToChange(old) /\ 1 \notin MeantToChange(old)
           /\ \A j \in {0, 1, 2, 3} : Start(old) + j \notin MeantToChange(old)
           /\ KeyFrame(old) => HasAdp(old)
           /\ HasAdp(old) => /\ Start(old) = old.body[0] + 1 /\ old.body[0] # 0
                             /\ Start(old) >= 2 /\ ~Flag(At(old.body, 1), 1)
           /\ ~HasAdp(old) => Start(old) = 0
<1>1. old.body[0] \in Nat
  BY PayloadAssumption, ByteIs DEF Packet, Payload, Offsets, Below
<1>2. /\ HasAdp(old) => /\ Start(old) = old.body[0] + 1 /\ old.body[0] # 0
                        /\ ~Flag(At(old.body, 1), 1)
      /\ ~HasAdp(old) => Start(old) = 0
  BY <1>1 DEF Start, HasAdp, PayloadStart, WellFormed
<1>3. Start(old) \in Nat /\ Start(old) # 1
  BY <1>1, <1>2
<1>4. HasPcr(old) => Start(old) >= 8
  BY <1>1, <1>2 DEF HasPcr, HasAdp, WellFormed
<1>5. /\ 0 \notin MeantToChange(old) /\ 1 \notin MeantToChange(old)
      /\ \A j \in {0, 1, 2, 3} : Start(old) + j \notin MeantToChange(old)
  BY <1>3, <1>4, Meant
<1>6. KeyFrame(old) => HasAdp(old)
  BY CleanRead DEF KeyFrame, IsKeyFrame, HasPcr
<1> QED BY <1>1, <1>2, <1>3, <1>5, <1>6

\* So in a payload that was kept the start code and the stream id stand where
\* they stood, and so do the length and the flags of the field but one.
LEMMA PartsKept ==
    ASSUME NEW old \in Packet, WellFormed(old), NEW body \in Payload, BodyKept(body, old)
    PROVE  /\ body[0] = old.body[0]
           /\ \A j \in {0, 1, 2, 3} : At(body, Start(old) + j) = At(old.body, Start(old) + j)
           /\ \/ At(body, 1) = At(old.body, 1)
              \/ KeyFrame(old) /\ At(body, 1) = WithBit(At(old.body, 1), 6)
<1>1. /\ Start(old) \in Nat /\ Start(old) # 1
      /\ 0 \notin MeantToChange(old) /\ 1 \notin MeantToChange(old)
      /\ \A j \in {0, 1, 2, 3} : Start(old) + j \notin MeantToChange(old)
      /\ KeyFrame(old) => Start(old) >= 2
  BY PartsApart
<1>2. 0 \in Offsets
  BY PayloadAssumption DEF Offsets
<1>3. body[0] = old.body[0]
  BY <1>1, <1>2 DEF BodyKept
<1>4. ASSUME NEW j \in {0, 1, 2, 3}
      PROVE  At(body, Start(old) + j) = At(old.body, Start(old) + j)
  <2>1. CASE Start(old) + j \in Offsets
    <3>1. Start(old) + j = 1 => ~KeyFrame(old)
      BY <1>1
    <3> QED BY <1>1, <2>1, <3>1 DEF BodyKept, At
  <2>2. CASE Start(old) + j \notin Offsets
    BY <2>2 DEF At
  <2> QED BY <2>1, <2>2
<1>5. \/ At(body, 1) = At(old.body, 1)
      \/ KeyFrame(old) /\ At(body, 1) = WithBit(At(old.body, 1), 6)
  BY <1>1 DEF BodyKept, At
<1> QED BY <1>3, <1>4, <1>5

\* A packet of which only the meant parts have changed is read as a segment
\* that keeps the others, if memory is zero where the reader leaves it.
LEMMA ReadKept ==
    ASSUME NEW old \in Packet, WellFormed(old), NEW packet \in Packet, SameBut(packet, old),
           IsPacket(packet), NEW mem \in Memory,
           mem.rand_acc = 0, mem.has_pcr = 0, mem.priv_len = 0
    PROVE  Kept(parse_ts_segment(packet, mem), old)
<1> DEFINE seg == parse_ts_segment(packet, mem)
           hd  == parse_header(packet.head)
           adp == parse_adaptation_field(hd, packet.body, mem)
<1>1. /\ packet.head \in [1 .. 4 -> Byte] /\ old.head \in [1 .. 4 -> Byte]
      /\ packet.body \in Payload /\ old.body \in Payload
  BY DEF Packet
<1>2. /\ \A i \in 1 .. 3 : packet.head[i] = old.head[i]
      /\ packet.head[4] \div 16 = old.head[4] \div 16
      /\ BodyKept(packet.body, old)
  BY SameParts
<1>3. ReadsAs(hd, old.head)
  BY <1>1, <1>2, HeaderReread
<1>4. IsPacket(old)
  BY <1>2 DEF IsPacket
<1>5. HasField(hd) <=> HasAdp(old)
  BY <1>3 DEF ReadsAs, HasField, HasAdp
<1>6. /\ packet.body[0] = old.body[0]
      /\ \A j \in {0, 1, 2, 3} : At(packet.body, Start(old) + j) = At(old.body, Start(old) + j)
      /\ \/ At(packet.body, 1) = At(old.body, 1)
         \/ KeyFrame(old) /\ At(packet.body, 1) = WithBit(At(old.body, 1), 6)
  BY <1>1, <1>2, PartsKept
<1>7. PayloadStart(hd, packet.body) = Start(old) /\ Start(old) \in Nat
  BY <1>5, <1>6, PartsApart DEF PayloadStart, Start, HasAdp
<1>8. Bit(At(packet.body, 1), 4) = Bit(At(old.body, 1), 4)
      /\ Bit(At(packet.body, 1), 1) = Bit(At(old.body, 1), 1)
  BY <1>1, <1>6, AtType, WithBitKeeps
<1>9. /\ seg.header = hd /\ seg.payload = packet.body /\ seg.adaptation_field = adp
      /\ seg.pes_header = parse_pes_header(packet.body, Start(old), mem)
  BY <1>7 DEF parse_ts_segment
<1>10. adp.has_pcr = 1 <=> HasPcr(old)
  <2>1. CASE HasField(hd)
    <3>1. adp.has_pcr = Bit(At(packet.body, 1), 4)
      BY <2>1 DEF parse_adaptation_field
    <3> QED BY <2>1, <3>1, <1>5, <1>8 DEF HasPcr, Flag
  <2>2. CASE ~HasField(hd)
    <3>1. adp.has_pcr = 0
      BY <2>2 DEF parse_adaptation_field
    <3> QED BY <2>2, <3>1, <1>5 DEF HasPcr
  <2> QED BY <2>1, <2>2
<1>11. (HasAdp(old) => adp.len = old.body[0]) /\ adp.priv_len = 0
  <2>1. HasAdp(old) => ~Flag(At(packet.body, 1), 1)
    BY <1>8, PartsApart DEF Flag
  <2> QED BY <2>1, <1>5, <1>6 DEF parse_adaptation_field
<1>12. adp.rand_acc = 1 => HasAdp(old) /\ (Flag(At(old.body, 1), 6) \/ KeyFrame(old))
  <2>1. CASE HasField(hd)
    <3>1. adp.rand_acc = Bit(At(packet.body, 1), 6)
      BY <2>1 DEF parse_adaptation_field
    <3> QED BY <2>1, <3>1, <1>5, <1>6 DEF Flag
  <2>2. CASE ~HasField(hd)
    <3>1. adp.rand_acc = 0
      BY <2>2 DEF parse_adaptation_field
    <3> QED BY <3>1
  <2> QED BY <2>1, <2>2
<1>13. /\ seg.pes_header # <<>> <=> HasPes(old)
       /\ seg.pes_header # <<>> => seg.pes_header[1].stream_id = At(old.body, Start(old) + 3)
  <2>1. /\ At(packet.body, Start(old)) = At(old.body, Start(old))
        /\ At(packet.body, Start(old) + 1) = At(old.body, Start(old) + 1)
        /\ At(packet.body, Start(old) + 2) = At(old.body, Start(old) + 2)
        /\ At(packet.body, Start(old) + 3) = At(old.body, Start(old) + 3)
    <3>1. Start(old) + 0 = Start(old)
      BY <1>7
    <3> QED BY <1>6, <3>1
  <2>2. \A body, m : parse_pes_header(body, Start(old), m) # <<>> <=>
            <<At(body, Start(old)), At(body, Start(old) + 1), At(body, Start(old) + 2)>> = <<0, 0, 1>>
    BY DEF parse_pes_header
  <2>3. parse_pes_header(packet.body, Start(old), mem) # <<>> =>
           parse_pes_header(packet.body, Start(old), mem)[1].stream_id = At(packet.body, Start(old) + 3)
    BY DEF parse_pes_header
  <2> QED BY <1>9, <2>1, <2>2, <2>3 DEF HasPes
<1>14. HasAdp(old) /\ Flag(At(packet.body, 1), 6) => adp.rand_acc = 1
  BY <1>5 DEF parse_adaptation_field, Flag
<1> HIDE DEF seg, hd, adp
<1>15. Kept(seg, old)
  BY <1>2, <1>3, <1>4, <1>9, <1>10, <1>11, <1>12, <1>13, <1>14 DEF Kept
<1> QED BY <1>15 DEF seg

\* The writer puts the PES header where the reader found it.
LEMMA CursorKept ==
    ASSUME NEW old \in Packet, WellFormed(old), NEW seg \in Segment, Kept(seg, old)
    PROVE  PesCursor(seg.header, seg.adaptation_field) = Start(old) /\ Start(old) \in Nat
<1> DEFINE adp == seg.adaptation_field
<1>1. HasField(seg.header) <=> HasAdp(old)
  BY DEF Kept, ReadsAs, HasField, HasAdp
<1>2. HasAdp(old) => adp.len = old.body[0] /\ adp.priv_len = 0 /\ adp.len # 0
  BY PartsApart DEF Kept
<1>3. HasAdp(old) => adp.len + 1 + adp.priv_len = Start(old)
  <2>1. adp.len \in Nat
    BY ByteIs DEF Segment, AdaptationField, Below
  <2> QED BY <1>2, <2>1, PartsApart
<1> QED BY <1>1, <1>2, <1>3, PartsApart DEF PesCursor

\* Writing such a segment changes only the meant parts.
LEMMA WriteKept ==
    ASSUME NEW old \in Packet, WellFormed(old), NEW seg \in Segment, Kept(seg, old)
    PROVE  /\ BodyKept(written_payload(seg), old)
           /\ HasAdp(old) /\ Flag(At(written_payload(seg), 1), 6) => seg.adaptation_field.rand_acc = 1
           /\ \A i \in 1 .. 3 : write_header(seg.header)[i] = old.head[i]
           /\ write_header(seg.header)[4] \div 16 = old.head[4] \div 16
           /\ write_header(seg.header)[1] = TS_SYNC
<1> DEFINE adp   == seg.adaptation_field
           field == write_adaptation_field(adp, seg.payload)
           body  == written_payload(seg)
<1>1. /\ adp \in AdaptationField /\ seg.payload \in Payload /\ seg.pes_header \in Seq(PesHeader)
      /\ old.body \in Payload /\ old.head \in [1 .. 4 -> Byte]
  BY DEF Segment, Packet
<1>2. /\ \A i \in 1 .. 3 : write_header(seg.header)[i] = old.head[i]
      /\ write_header(seg.header)[4] \div 16 = old.head[4] \div 16
      /\ write_header(seg.header)[1] = TS_SYNC
  <2>1. old.head[1] = TS_SYNC /\ old.head[4] \div 64 = 0 /\ ReadsAs(seg.header, old.head)
    BY DEF Kept, IsPacket, WellFormed
  <2> QED BY <1>1, <2>1, HeaderKept
<1>3. PesCursor(seg.header, adp) = Start(old) /\ Start(old) \in Nat
  BY CursorKept
<1>4. /\ field \in Payload
      /\ \A k \in Offsets : ~ (adp.has_pcr = 1 /\ k \in 2 .. 7) =>
            field[k] = IF k = 1 /\ adp.rand_acc = 1 THEN WithBit(seg.payload[1], 6)
                       ELSE seg.payload[k]
  BY <1>1, FieldWritten
<1>5. body = write_pes_header(seg.pes_header, Start(old), field)
  BY <1>3 DEF written_payload
<1> HIDE DEF field, body
<1>6. BodyKept(field, old)
  <2> SUFFICES ASSUME NEW i \in Offsets \ MeantToChange(old)
               PROVE  \/ field[i] = old.body[i]
                      \/ i = 1 /\ KeyFrame(old) /\ field[1] = WithBit(old.body[1], 6)
    BY DEF BodyKept
  <2>1. ~ (adp.has_pcr = 1 /\ i \in 2 .. 7)
    <3>1. adp.has_pcr = 1 => HasPcr(old)
      BY DEF Kept
    <3>2. HasPcr(old) => 2 .. 7 \subseteq MeantToChange(old)
      BY Meant
    <3> QED BY <3>1, <3>2
  <2>2. \/ seg.payload[i] = old.body[i]
        \/ i = 1 /\ KeyFrame(old) /\ seg.payload[1] = WithBit(old.body[1], 6)
    BY DEF Kept, BodyKept
  <2>3. CASE i = 1 /\ adp.rand_acc = 1
    <3>1. field[1] = WithBit(seg.payload[1], 6) /\ 1 \in Offsets
      BY <1>4, <2>1, <2>3
    <3>2. old.body[1] \in Byte /\ At(old.body, 1) = old.body[1]
      BY <1>1, <3>1 DEF Payload, At
    <3>3. WithBit(seg.payload[1], 6) = WithBit(old.body[1], 6)
      BY <2>2, <2>3, <3>2, WithBitTwice
    <3>4. Flag(old.body[1], 6) \/ KeyFrame(old)
      BY <2>3, <3>2 DEF Kept
    <3> QED BY <2>3, <3>1, <3>2, <3>3, <3>4, WithBitTwice
  <2>4. CASE ~ (i = 1 /\ adp.rand_acc = 1)
    BY <1>4, <2>1, <2>2, <2>4
  <2> QED BY <2>3, <2>4
<1>7. HasAdp(old) /\ Flag(At(field, 1), 6) => adp.rand_acc = 1
  <2> SUFFICES ASSUME HasAdp(old), Flag(At(field, 1), 6), adp.rand_acc # 1 PROVE FALSE
    OBVIOUS
  <2>1. At(field, 1) = At(seg.payload, 1)
    BY <1>4 DEF At
  <2> QED BY <2>1 DEF Kept
<1>8. CASE seg.pes_header = <<>>
  <2>1. body = field
    BY <1>1, <1>3, <1>4, <1>5, <1>8, PesWritten
  <2> QED BY <1>2, <1>6, <1>7, <2>1 DEF body
<1>9. CASE seg.pes_header # <<>>
  <2>1. /\ HasPes(old)
        /\ seg.pes_header[1].stream_id = At(old.body, Start(old) + 3)
    BY <1>9 DEF Kept
  <2>2. At(old.body, Start(old) + 2) = 1
    BY <2>1 DEF HasPes, parse_pes_header
  <2>3. \A k \in Offsets :
           /\ k \notin Start(old) + 2 .. Start(old) + 5 => body[k] = field[k]
           /\ k = Start(old) + 2 => body[k] = 1
           /\ k = Start(old) + 3 => body[k] = seg.pes_header[1].stream_id
    BY <1>1, <1>3, <1>4, <1>5, <1>9, PesWritten
  <2>4. ASSUME NEW i \in Offsets \ MeantToChange(old)
        PROVE  \/ body[i] = old.body[i]
               \/ i = 1 /\ KeyFrame(old) /\ body[1] = WithBit(old.body[1], 6)
    <3>1. i # Start(old) + 4 /\ i # Start(old) + 5 /\ i \in Int
      BY <2>1, Meant DEF Offsets
    <3>2. CASE i = Start(old) + 2
      BY <2>2, <2>3, <3>2 DEF At
    <3>3. CASE i = Start(old) + 3
      BY <2>1, <2>3, <3>3 DEF At
    <3>4. CASE i # Start(old) + 2 /\ i # Start(old) + 3
      <4>1. body[i] = field[i]
        <5>1. i \notin Start(old) + 2 .. Start(old) + 5
          BY <1>3, <3>1, <3>4
        <5> QED BY <2>3, <5>1
      <4> QED BY <1>6, <4>1 DEF BodyKept
    <3> QED BY <3>2, <3>3, <3>4
  <2>5. BodyKept(body, old)
    BY <2>4 DEF BodyKept
  <2>6. At(body, 1) = At(field, 1)
    <3>1. 1 \notin Start(old) + 2 .. Start(old) + 5
      BY <1>3
    <3> QED BY <2>3, <3>1 DEF At
  <2>7. HasAdp(old) /\ Flag(At(body, 1), 6) => adp.rand_acc = 1
    BY <1>7, <2>6
  <2> QED BY <1>2, <2>5, <2>7 DEF body
<1> QED BY <1>8, <1>9

-----------------------------------------------------------------------------
(* The counters *)

\* A set of natural numbers has a least one.
LEMMA LeastNatural ==
    ASSUME NEW T, T \subseteq Nat, T # {}
    PROVE  \E x \in T : \A y \in T : ~ (y < x)
<1> DEFINE R == {p \in Nat \X Nat : p[1] < p[2]}
<1>1. IsWellFoundedOn(R, Nat)
  BY NatLessThanWellFounded DEF OpToRel
<1>2. \E x \in T : \A y \in T : ~ (<<y, x>> \in R)
  <2> HIDE DEF R
  <2> QED BY <1>1, WFMin
<1> QED BY <1>2

\* f is computed from base by the steps up to n.
Computes(f, a, n, base, step) ==
    \A m \in a .. n : f[m] = IF m = a THEN base ELSE step[<<m, f[m - 1]>>]

\* A loop that takes a step for every number computes a function.
LEMMA LoopsEnd ==
    ASSUME NEW a \in Nat, NEW N \in Nat, NEW S, NEW base \in S,
           NEW step \in [(a .. N) \X S -> S]
    PROVE  \E f \in [a .. N -> S] : Computes(f, a, N, base, step)
<1> DEFINE T == {n \in 0 .. N : ~ \E f \in [a .. n -> S] : Computes(f, a, n, base, step)}
<1>1. SUFFICES ASSUME T # {} PROVE FALSE
  BY DEF T
<1>2. PICK n \in T : \A y \in T : ~ (y < n)
  <2>1. T \subseteq Nat
    OBVIOUS
  <2> HIDE DEF T
  <2> QED BY <1>1, <2>1, LeastNatural
<1>3. n \in Nat /\ n <= N
  OBVIOUS
<1>4. CASE n < a
  <2>1. [m \in a .. n |-> base] \in [a .. n -> S]
    OBVIOUS
  <2>2. Computes([m \in a .. n |-> base], a, n, base, step)
    BY <1>3, <1>4 DEF Computes
  <2> QED BY <2>1, <2>2
<1>5. CASE n = a
  <2>1. [m \in a .. n |-> base] \in [a .. n -> S]
    OBVIOUS
  <2>2. Computes([m \in a .. n |-> base], a, n, base, step)
    BY <1>3, <1>5 DEF Computes
  <2> QED BY <2>1, <2>2
<1>6. CASE n > a
  <2>1. n - 1 \in 0 .. N /\ n - 1 < n
    BY <1>3, <1>6
  <2>2. PICK f \in [a .. n - 1 -> S] : Computes(f, a, n - 1, base, step)
    BY <1>2, <2>1
  <2> DEFINE v == step[<<n, f[n - 1]>>]
             g == [m \in a .. n |-> IF m = n THEN v ELSE f[m]]
  <2>3. v \in S
    <3>1. f[n - 1] \in S /\ n \in a .. N
      BY <1>3, <1>6
    <3> QED BY <3>1
  <2> HIDE DEF v
  <2>4. g \in [a .. n -> S]
    BY <1>3, <1>6, <2>3
  <2>5. Computes(g, a, n, base, step)
    <3> SUFFICES ASSUME NEW m \in a .. n
                 PROVE  g[m] = IF m = a THEN base ELSE step[<<m, g[m - 1]>>]
      BY DEF Computes
    <3>1. CASE m = n
      <4>1. g[m] = step[<<n, f[n - 1]>>] /\ g[m - 1] = f[n - 1] /\ m # a
        BY <1>3, <1>6, <3>1 DEF v
      <4> QED BY <3>1, <4>1
    <3>2. CASE m # n
      <4>1. m \in a .. n - 1 /\ g[m] = f[m]
        BY <1>3, <3>2
      <4>2. m # a => g[m - 1] = f[m - 1]
        BY <1>3, <3>2, <4>1
      <4>3. f[m] = IF m = a THEN base ELSE step[<<m, f[m - 1]>>]
        BY <2>2, <4>1 DEF Computes
      <4> QED BY <4>1, <4>2, <4>3
    <3> QED BY <3>1, <3>2
  <2> HIDE DEF g
  <2> QED BY <2>4, <2>5
<1> QED BY <1>3, <1>4, <1>5, <1>6

\* The equation of counted.
IsCount(cc, stream, pid, init_cc) ==
    cc = [n \in 0 .. Len(stream) |->
            IF n = 0 THEN init_cc
            ELSE IF stream[n].header.pid = pid THEN (cc[n - 1] + 1) % 16 ELSE cc[n - 1]]

\* The counters of update_cc are four bits wide, and the first is the given one.
LEMMA Counted ==
    ASSUME NEW stream, Len(stream) \in Nat, NEW pid, NEW init_cc \in Below(16)
    PROVE  /\ IsCount(counted(stream, pid, init_cc), stream, pid, init_cc)
           /\ \A n \in 0 .. Len(stream) : counted(stream, pid, init_cc)[n] \in Below(16)
<1> DEFINE N    == Len(stream)
           S    == Below(16)
           step == [p \in (0 .. N) \X S |->
                      IF stream[p[1]].header.pid = pid THEN (p[2] + 1) % 16 ELSE p[2]]
           cc   == counted(stream, pid, init_cc)
<1>1. step \in [(0 .. N) \X S -> S]
  BY DEF Below
<1>2. PICK f \in [0 .. N -> S] : Computes(f, 0, N, init_cc, step)
  <2> HIDE DEF step, S, N
  <2>1. N \in Nat /\ init_cc \in S
    BY DEF N, S
  <2> QED BY <1>1, <2>1, LoopsEnd
<1>3. IsCount(f, stream, pid, init_cc)
  <2>1. ASSUME NEW n \in 0 .. N
        PROVE  f[n] = IF n = 0 THEN init_cc
                      ELSE IF stream[n].header.pid = pid THEN (f[n - 1] + 1) % 16 ELSE f[n - 1]
    <3>1. n # 0 => <<n, f[n - 1]>> \in (0 .. N) \X S
      <4> HIDE DEF S
      <4> QED OBVIOUS
    <3>2. f[n] = IF n = 0 THEN init_cc ELSE step[<<n, f[n - 1]>>]
      BY <1>2 DEF Computes
    <3> HIDE DEF S
    <3> QED BY <3>1, <3>2
  <2> QED BY <2>1 DEF IsCount
<1>4. IsCount(cc, stream, pid, init_cc)
  BY <1>3, Zenon DEF counted, IsCount
<1> HIDE DEF cc
<1>5. ASSUME NEW n \in 0 .. N, cc[n] \notin Below(16) PROVE FALSE
  <2> DEFINE T == {m \in 0 .. N : cc[m] \notin Below(16)}
  <2>1. PICK m \in T : \A y \in T : ~ (y < m)
    <3>1. T \subseteq Nat /\ T # {}
      BY <1>5
    <3> HIDE DEF T
    <3> QED BY <3>1, LeastNatural
  <2>2. cc[m] = IF m = 0 THEN init_cc
                ELSE IF stream[m].header.pid = pid THEN (cc[m - 1] + 1) % 16 ELSE cc[m - 1]
    BY <1>4, <2>1 DEF IsCount
  <2>3. m # 0 => cc[m - 1] \in Below(16)
    <3>1. m # 0 => m - 1 \in 0 .. N /\ m - 1 < m
      BY <2>1
    <3> QED BY <2>1, <3>1
  <2>4. cc[m] \in Below(16)
    BY <2>2, <2>3 DEF Below
  <2> QED BY <2>1, <2>4
<1> QED BY <1>4, <1>5 DEF cc

\* The equation of first_ccs.
IsFirstCcs(cc, streams) ==
    cc = [s \in 1 .. Len(streams) |->
            IF s = 1 THEN first_cc(streams)
            ELSE LET last == streams[s - 1]
                 IN  next_cc(counted(last, FixedPid, cc[s - 1])[Len(last)])]

\* Every stream is counted from a number of four bits on.
LEMMA FirstCounted ==
    ASSUME NEW streams, Len(streams) \in Nat,
           \A s \in 1 .. Len(streams) : Len(streams[s]) \in Nat
    PROVE  /\ IsFirstCcs(first_ccs(streams), streams)
           /\ \A s \in 1 .. Len(streams) : first_ccs(streams)[s] \in Below(16)
<1> DEFINE N    == Len(streams)
           S    == Below(16)
           goes(s, c) == next_cc(counted(streams[s - 1], FixedPid, c)[Len(streams[s - 1])])
           step == [p \in (1 .. N) \X S |-> IF p[1] = 1 THEN 0 ELSE goes(p[1], p[2])]
           cc   == first_ccs(streams)
<1>1. \A s \in 2 .. N : \A c \in S : goes(s, c) \in S
  <2> TAKE s \in 2 .. N
  <2> TAKE c \in S
  <2>1. s - 1 \in 1 .. N
    OBVIOUS
  <2>2. Len(streams[s - 1]) \in 0 .. Len(streams[s - 1]) /\ Len(streams[s - 1]) \in Nat
    BY <2>1
  <2>3. c \in Below(16)
    OBVIOUS
  <2>4. counted(streams[s - 1], FixedPid, c)[Len(streams[s - 1])] \in Below(16)
    <3> HIDE DEF N, S
    <3> QED BY <2>2, <2>3, Counted
  <2> QED BY <2>4 DEF next_cc
<1>2. first_cc(streams) = 0 /\ 0 \in S
  BY DEF first_cc, Below
<1>3. step \in [(1 .. N) \X S -> S]
  <2> HIDE DEF S, goes
  <2>1. \A p \in (1 .. N) \X S : (IF p[1] = 1 THEN 0 ELSE goes(p[1], p[2])) \in S
    <3> TAKE p \in (1 .. N) \X S
    <3>1. p[1] \in 1 .. N /\ p[2] \in S
      OBVIOUS
    <3>2. p[1] # 1 => p[1] \in 2 .. N
      BY <3>1
    <3> QED BY <1>1, <1>2, <3>1, <3>2
  <2> QED BY <2>1
<1>4. PICK f \in [1 .. N -> S] : Computes(f, 1, N, 0, step)
  <2> HIDE DEF step, S, N
  <2>1. N \in Nat /\ 1 \in Nat
    BY DEF N
  <2> QED BY <1>2, <1>3, <2>1, LoopsEnd
<1>5. IsFirstCcs(f, streams)
  <2>1. ASSUME NEW s \in 1 .. N
        PROVE  f[s] = IF s = 1 THEN first_cc(streams) ELSE goes(s, f[s - 1])
    <3> HIDE DEF S, goes
    <3>1. s # 1 => <<s, f[s - 1]>> \in (1 .. N) \X S
      OBVIOUS
    <3>2. f[s] = IF s = 1 THEN 0 ELSE step[<<s, f[s - 1]>>]
      BY <1>4 DEF Computes
    <3> QED BY <1>2, <3>1, <3>2
  <2> HIDE DEF S
  <2> QED BY <2>1 DEF IsFirstCcs
<1>6. IsFirstCcs(cc, streams)
  BY <1>5, Zenon DEF first_ccs, IsFirstCcs
<1> HIDE DEF cc
<1>7. ASSUME NEW s \in 1 .. N PROVE cc[s] = IF s = 1 THEN first_cc(streams) ELSE goes(s, cc[s - 1])
  BY <1>6 DEF IsFirstCcs
<1> HIDE DEF goes
<1>8. ASSUME NEW n \in 1 .. N, cc[n] \notin S PROVE FALSE
  <2> DEFINE T == {m \in 1 .. N : cc[m] \notin S}
  <2>1. PICK m \in T : \A y \in T : ~ (y < m)
    <3>1. T \subseteq Nat /\ T # {}
      BY <1>8
    <3> HIDE DEF T
    <3> QED BY <3>1, LeastNatural
  <2>2. cc[m] = IF m = 1 THEN first_cc(streams) ELSE goes(m, cc[m - 1])
    BY <1>7, <2>1
  <2> HIDE DEF S
  <2>3. m # 1 => m \in 2 .. N /\ cc[m - 1] \in S
    <3>1. m # 1 => m \in 2 .. N /\ m - 1 \in 1 .. N /\ m - 1 < m
      BY <2>1
    <3> QED BY <2>1, <3>1
  <2> QED BY <1>1, <1>2, <2>1, <2>2, <2>3
<1> QED BY <1>6, <1>8 DEF cc

-----------------------------------------------------------------------------
(* The fixes *)

\* A segment that was fixed: still a segment, and it keeps what it kept.
FixOf(new, seg) == /\ new \in Segment
                   /\ \A old \in Packet : Kept(seg, old) => Kept(new, old)

\* A stream all of whose segments are the same or fixed.
FixedStream(new, stream) == /\ new \in Seq(Segment)
                            /\ DOMAIN new = DOMAIN stream
                            /\ \A k \in DOMAIN stream : FixOf(new[k], stream[k])

\* A segment that is left alone.
LEMMA FixNone ==
    ASSUME NEW seg \in Segment
    PROVE  FixOf(seg, seg)
BY DEF FixOf

\* A key frame is marked.
LEMMA FixKey ==
    ASSUME NEW seg \in Segment, NEW pid \in Pids, IsKeyFrame(seg, pid)
    PROVE  FixOf([seg EXCEPT !.adaptation_field.rand_acc = 1], seg)
<1> DEFINE new == [seg EXCEPT !.adaptation_field.rand_acc = 1]
<1>1. /\ new.header = seg.header /\ new.payload = seg.payload /\ new.pes_header = seg.pes_header
      /\ new.adaptation_field.len = seg.adaptation_field.len
      /\ new.adaptation_field.has_pcr = seg.adaptation_field.has_pcr
      /\ new.adaptation_field.rand_acc = 1
      /\ new.adaptation_field.priv_len = seg.adaptation_field.priv_len
  BY DEF Segment, AdaptationField
<1>2. new \in Segment
  BY DEF Segment, AdaptationField
<1> HIDE DEF new
<1>3. ASSUME NEW old \in Packet, Kept(seg, old) PROVE Kept(new, old)
  <2>1. HasPcr(old) /\ HasAdp(old)
    BY <1>3 DEF IsKeyFrame, Kept, HasPcr
  <2>2. parse_header(old.head).pusi = 1 /\ parse_header(old.head).pid = pid
    BY <1>3 DEF IsKeyFrame, Kept, ReadsAs
  <2>3. KeyFrame(old)
    BY <2>1, <2>2, CleanRead DEF KeyFrame, IsKeyFrame
  <2> QED BY <1>1, <1>3, <2>1, <2>3 DEF Kept
<1>4. FixOf(new, seg)
  BY <1>2, <1>3 DEF FixOf
<1> QED BY <1>4 DEF new

\* A clock reference is set.
LEMMA FixPcr ==
    ASSUME NEW seg \in Segment, HasBothTimes(seg)
    PROVE  FixOf([seg EXCEPT !.adaptation_field.pcr =
                     [base |-> seg.pes_header[1].pts, ext |-> 0]], seg)
<1> DEFINE pcr == [base |-> seg.pes_header[1].pts, ext |-> 0]
           new == [seg EXCEPT !.adaptation_field.pcr = pcr]
<1>1. pcr \in Time
  <2>1. seg.pes_header \in Seq(PesHeader) /\ seg.pes_header # <<>>
    BY DEF HasBothTimes, Segment
  <2>2. seg.pes_header[1] \in PesHeader
    BY <2>1
  <2> QED BY <2>2 DEF PesHeader, Time
<1> HIDE DEF pcr
<1>2. /\ new.header = seg.header /\ new.payload = seg.payload /\ new.pes_header = seg.pes_header
      /\ new.adaptation_field.len = seg.adaptation_field.len
      /\ new.adaptation_field.has_pcr = seg.adaptation_field.has_pcr
      /\ new.adaptation_field.rand_acc = seg.adaptation_field.rand_acc
      /\ new.adaptation_field.priv_len = seg.adaptation_field.priv_len
  BY DEF Segment, AdaptationField
<1>3. new \in Segment
  BY <1>1 DEF Segment, AdaptationField
<1> HIDE DEF new
<1>4. FixOf(new, seg)
  BY <1>2, <1>3 DEF FixOf, Kept
<1> QED BY <1>4 DEF new, pcr

\* The length of a PES header is reset.
LEMMA FixLen ==
    ASSUME NEW seg \in Segment, seg.pes_header # <<>>
    PROVE  FixOf([seg EXCEPT !.pes_header = << [@[1] EXCEPT !.len = 0] >>], seg)
<1> DEFINE pes == [seg.pes_header[1] EXCEPT !.len = 0]
           new == [seg EXCEPT !.pes_header = << pes >>]
<1>1. seg.pes_header[1] \in PesHeader
  BY DEF Segment
<1>2. pes \in PesHeader /\ pes.stream_id = seg.pes_header[1].stream_id
  BY <1>1 DEF PesHeader, Below
<1> HIDE DEF pes
<1>3. /\ new.header = seg.header /\ new.payload = seg.payload
      /\ new.adaptation_field = seg.adaptation_field
      /\ new.pes_header = << pes >>
  BY DEF Segment
<1>4. new \in Segment
  <2> DEFINE one == << pes >>
  <2>1. one \in Seq(PesHeader)
    BY <1>2
  <2>2. new = [seg EXCEPT !.pes_header = one]
    OBVIOUS
  <2> HIDE DEF one
  <2>3. [seg EXCEPT !.pes_header = one] \in Segment
    BY <2>1 DEF Segment
  <2> QED BY <2>2, <2>3
<1>5. new.pes_header # <<>> /\ new.pes_header[1] = pes
  BY <1>3
<1> HIDE DEF new
<1>6. FixOf(new, seg)
  BY <1>2, <1>3, <1>4, <1>5 DEF FixOf, Kept
<1> QED BY <1>6 DEF new, pes

\* A counter is set.
LEMMA FixCounter ==
    ASSUME NEW seg \in Segment, NEW cc \in Below(16)
    PROVE  FixOf([seg EXCEPT !.header.continuity_counter = cc], seg)
<1> DEFINE new == [seg EXCEPT !.header.continuity_counter = cc]
<1>1. /\ new.payload = seg.payload /\ new.pes_header = seg.pes_header
      /\ new.adaptation_field = seg.adaptation_field
      /\ \A f \in {"tei", "pusi", "prior", "pid", "tscramble_control", "adaptation_field_ctrl"} :
            new.header[f] = seg.header[f]
  BY DEF Segment, Header
<1>2. new \in Segment /\ new.header \in Header
  BY DEF Segment, Header
<1> HIDE DEF new
<1>3. \A h : ReadsAs(seg.header, h) => ReadsAs(new.header, h)
  BY <1>1, <1>2 DEF ReadsAs
<1>4. FixOf(new, seg)
  BY <1>1, <1>2, <1>3 DEF FixOf, Kept
<1> QED BY <1>4 DEF new

\* What was written becomes the payload.
LEMMA FixPayload ==
    ASSUME NEW seg \in Segment, NEW body \in Payload
    PROVE  /\ [seg EXCEPT !.payload = body] \in Segment
           /\ \A old : /\ Kept(seg, old) /\ BodyKept(body, old)
                       /\ HasAdp(old) /\ Flag(At(body, 1), 6) => seg.adaptation_field.rand_acc = 1
                       => Kept([seg EXCEPT !.payload = body], old)
<1> DEFINE new == [seg EXCEPT !.payload = body]
<1>1. /\ new.header = seg.header /\ new.payload = body /\ new.pes_header = seg.pes_header
      /\ new.adaptation_field = seg.adaptation_field
  BY DEF Segment
<1>2. new \in Segment
  BY DEF Segment
<1> HIDE DEF new
<1>3. \A old : /\ Kept(seg, old) /\ BodyKept(body, old)
               /\ HasAdp(old) /\ Flag(At(body, 1), 6) => seg.adaptation_field.rand_acc = 1
               => Kept(new, old)
  BY <1>1 DEF Kept
<1> QED BY <1>2, <1>3 DEF new

\* A stream is fixed segment by segment.
LEMMA StreamFixed ==
    ASSUME NEW stream \in Seq(Segment), NEW new,
           new = [k \in DOMAIN stream |-> new[k]],
           \A k \in DOMAIN stream : FixOf(new[k], stream[k])
    PROVE  FixedStream(new, stream)
<1>1. new \in Seq(Segment)
  <2>1. Len(stream) \in Nat /\ DOMAIN stream = 1 .. Len(stream)
    OBVIOUS
  <2>2. \A k \in 1 .. Len(stream) : new[k] \in Segment
    BY <2>1 DEF FixOf
  <2>3. new = [k \in 1 .. Len(stream) |-> new[k]]
    BY <2>1
  <2>4. [k \in 1 .. Len(stream) |-> new[k]] \in Seq(Segment)
    BY <2>1, <2>2
  <2> QED BY <2>3, <2>4
<1> QED BY <1>1 DEF FixedStream

\* The four fixes of a stream.
LEMMA FixesStreams ==
    ASSUME NEW stream \in Seq(Segment)
    PROVE  /\ \A pid \in Pids : FixedStream(fix_keyframe(stream, pid), stream)
           /\ \A pid : FixedStream(update_pcr_by_pts(stream, pid), stream)
           /\ FixedStream(pes_reset_len(stream), stream)
           /\ \A pid : \A cc \in Below(16) : FixedStream(update_cc(stream, pid, cc), stream)
<1>0. \A k \in DOMAIN stream : stream[k] \in Segment
  OBVIOUS
<1>1. ASSUME NEW pid \in Pids PROVE FixedStream(fix_keyframe(stream, pid), stream)
  <2> DEFINE new == fix_keyframe(stream, pid)
  <2>1. new = [k \in DOMAIN stream |-> new[k]]
    BY DEF fix_keyframe
  <2>2. ASSUME NEW k \in DOMAIN stream PROVE FixOf(new[k], stream[k])
    <3>1. CASE IsKeyFrame(stream[k], pid)
      <4>1. new[k] = [stream[k] EXCEPT !.adaptation_field.rand_acc = 1]
        BY <3>1 DEF fix_keyframe
      <4> HIDE DEF new
      <4> QED BY <1>0, <3>1, <4>1, FixKey
    <3>2. CASE ~IsKeyFrame(stream[k], pid)
      <4>1. new[k] = stream[k]
        BY <3>2 DEF fix_keyframe
      <4> QED BY <1>0, <4>1, FixNone
    <3> QED BY <3>1, <3>2
  <2> HIDE DEF new
  <2>3. FixedStream(new, stream)
    BY <2>1, <2>2, StreamFixed
  <2> QED BY <2>3 DEF new
<1>2. ASSUME NEW pid PROVE FixedStream(update_pcr_by_pts(stream, pid), stream)
  <2> DEFINE new == update_pcr_by_pts(stream, pid)
  <2>1. new = [k \in DOMAIN stream |-> new[k]]
    BY DEF update_pcr_by_pts
  <2>2. ASSUME NEW k \in DOMAIN stream PROVE FixOf(new[k], stream[k])
    <3>1. CASE HasBothTimes(stream[k])
      <4>1. new[k] = [stream[k] EXCEPT !.adaptation_field.pcr =
                         [base |-> stream[k].pes_header[1].pts, ext |-> 0]]
        BY <3>1 DEF update_pcr_by_pts
      <4> HIDE DEF new
      <4> QED BY <1>0, <3>1, <4>1, FixPcr
    <3>2. CASE ~HasBothTimes(stream[k])
      <4>1. new[k] = stream[k]
        BY <3>2 DEF update_pcr_by_pts
      <4> QED BY <1>0, <4>1, FixNone
    <3> QED BY <3>1, <3>2
  <2> HIDE DEF new
  <2>3. FixedStream(new, stream)
    BY <2>1, <2>2, StreamFixed
  <2> QED BY <2>3 DEF new
<1>3. FixedStream(pes_reset_len(stream), stream)
  <2> DEFINE new == pes_reset_len(stream)
  <2>1. new = [k \in DOMAIN stream |-> new[k]]
    BY DEF pes_reset_len
  <2>2. ASSUME NEW k \in DOMAIN stream PROVE FixOf(new[k], stream[k])
    <3>1. CASE stream[k].pes_header # <<>>
      <4>1. new[k] = [stream[k] EXCEPT !.pes_header = << [@[1] EXCEPT !.len = 0] >>]
        BY <3>1 DEF pes_reset_len
      <4> HIDE DEF new
      <4> QED BY <1>0, <3>1, <4>1, FixLen
    <3>2. CASE stream[k].pes_header = <<>>
      <4>1. new[k] = stream[k]
        BY <3>2 DEF pes_reset_len
      <4> QED BY <1>0, <4>1, FixNone
    <3> QED BY <3>1, <3>2
  <2> HIDE DEF new
  <2>3. FixedStream(new, stream)
    BY <2>1, <2>2, StreamFixed
  <2> QED BY <2>3 DEF new
<1>4. ASSUME NEW pid, NEW cc \in Below(16) PROVE FixedStream(update_cc(stream, pid, cc), stream)
  <2> DEFINE new == update_cc(stream, pid, cc)
             at(k) == counted(stream, pid, cc)[k - 1]
  <2>1. new = [k \in DOMAIN stream |-> new[k]]
    BY DEF update_cc
  <2>2. ASSUME NEW k \in DOMAIN stream PROVE FixOf(new[k], stream[k])
    <3>1. CASE stream[k].header.pid = pid
      <4>1. new[k] = [stream[k] EXCEPT !.header.continuity_counter = at(k)]
        BY <3>1 DEF update_cc
      <4>2. at(k) \in Below(16)
        <5>1. k - 1 \in 0 .. Len(stream) /\ Len(stream) \in Nat
          OBVIOUS
        <5> QED BY <5>1, Counted
      <4> HIDE DEF new, at
      <4> QED BY <1>0, <4>1, <4>2, FixCounter
    <3>2. CASE stream[k].header.pid # pid
      <4>1. new[k] = stream[k]
        BY <3>2 DEF update_cc
      <4> QED BY <1>0, <4>1, FixNone
    <3> QED BY <3>1, <3>2
  <2> HIDE DEF new
  <2>3. FixedStream(new, stream)
    BY <2>1, <2>2, StreamFixed
  <2> QED BY <2>3 DEF new
<1> QED BY <1>1, <1>2, <1>3, <1>4

-----------------------------------------------------------------------------
(* Reading files *)

\* A file that can be read holds whole packets, and what is read of it is a
\* stream with one segment for each.
LEMMA StreamRead ==
    ASSUME NEW file \in Seq(Block), Readable(file), NEW mem \in Memory
    PROVE  /\ file \in Seq(Packet)
           /\ read_segment(file, mem) \in Seq(Segment)
           /\ Len(read_segment(file, mem)) = Len(file)
           /\ DOMAIN read_segment(file, mem) = DOMAIN file
           /\ \A k \in DOMAIN file :
                 /\ file[k] \in Packet /\ IsPacket(file[k])
                 /\ read_segment(file, mem)[k] = parse_ts_segment(file[k], mem)
<1> DEFINE stream == read_segment(file, mem)
<1>1. Len(file) \in Nat /\ DOMAIN file = 1 .. Len(file) /\ file = [k \in 1 .. Len(file) |-> file[k]]
  OBVIOUS
<1>2. ASSUME NEW k \in 1 .. Len(file) PROVE file[k] \in Packet /\ IsPacket(file[k])
  <2>1. file[k] \in Block
    BY <1>1
  <2>2. Whole(file[k])
    BY <1>1 DEF Readable
  <2> QED BY <2>1, <2>2 DEF Block, Packet, Whole
<1>3. file \in Seq(Packet)
  <2>1. [k \in 1 .. Len(file) |-> file[k]] \in Seq(Packet)
    BY <1>1, <1>2
  <2> QED BY <1>1, <2>1
<1>4. stream = [k \in 1 .. Len(file) |-> parse_ts_segment(file[k], mem)]
  BY <1>1 DEF read_segment
<1>5. \A k \in 1 .. Len(file) : parse_ts_segment(file[k], mem) \in Segment
  BY <1>2, SegmentRead
<1> HIDE DEF stream
<1>6. stream \in Seq(Segment) /\ Len(stream) = Len(file) /\ DOMAIN stream = DOMAIN file
  BY <1>1, <1>4, <1>5
<1>7. \A k \in DOMAIN file : stream[k] = parse_ts_segment(file[k], mem)
  BY <1>1, <1>4
<1> QED BY <1>1, <1>2, <1>3, <1>6, <1>7 DEF stream

-----------------------------------------------------------------------------
(* The types *)

\* The write() calls for some streams of a playlist.
WritesOf(streams, playlist) ==
    UNION { {n} \X (DOMAIN playlist[streams[n]]) \X {HeaderPart, PayloadPart}
            : n \in DOMAIN streams }

FilesOk == /\ files \in Seq(Seq(Block))
           /\ Len(files) = Len(Files) + Len(Outputs)

ListOk == /\ list \in Seq(Seq(Segment))
          /\ \/ list = <<>>
             \/ DOMAIN list = Media /\ \A s \in Media : files[s] \in Seq(Packet)
          /\ \A s \in DOMAIN list : Len(list[s]) <= Len(files[s])

JobOk == /\ \A n \in DOMAIN job.streams : job.streams[n] \in DOMAIN list
         /\ job.path \in {OwnPath} \cup Paths
         /\ call \in {Idle} \cup WritesOf(job.streams, list)

TypeInv == /\ FilesOk /\ ListOk /\ JobOk
           /\ edits \subseteq Ops /\ saved \subseteq Ops
           /\ runs \in 0 .. MaxRuns

\* The files of the playlist are the first ones.
LEMMA PathsAre ==
    /\ Len(Files) \in Nat /\ Len(Outputs) \in Nat
    /\ Media = 1 .. Len(Files)
    /\ \A p \in Paths : p \notin Media
    /\ OwnPath \notin Paths
<1>1. Len(Files) \in Nat /\ Len(Outputs) \in Nat /\ Media = 1 .. Len(Files)
  BY PlaylistAssumption DEF Media
<1> QED BY <1>1 DEF Paths, OwnPath

\* A stream of the list is a file of the playlist.
LEMMA StreamsAreMedia ==
    ASSUME FilesOk, ListOk
    PROVE  /\ DOMAIN list \subseteq Media
           /\ Media \subseteq DOMAIN files
           /\ DOMAIN files = Media \cup Paths
           /\ \A s \in DOMAIN list : /\ DOMAIN list[s] \subseteq DOMAIN files[s]
                                     /\ files[s] \in Seq(Packet)
<1>1. DOMAIN list \subseteq Media
  BY DEF ListOk
<1>2. DOMAIN files = Media \cup Paths
  BY PathsAre DEF FilesOk, Paths
<1>3. ASSUME NEW s \in DOMAIN list
      PROVE  DOMAIN list[s] \subseteq DOMAIN files[s] /\ files[s] \in Seq(Packet)
  <2>1. list[s] \in Seq(Segment)
    BY DEF ListOk
  <2>2. files[s] \in Seq(Packet)
    BY <1>1 DEF ListOk
  <2>3. Len(list[s]) <= Len(files[s])
    BY DEF ListOk
  <2> QED BY <2>1, <2>2, <2>3
<1> QED BY <1>1, <1>2, <1>3

\* What TypeInv says is what TypeOK says and more.
LEMMA TypesAreOk == TypeInv => TypeOK
<1> SUFFICES ASSUME TypeInv PROVE TypeOK
  OBVIOUS
<1>1. Writes(job.streams) = WritesOf(job.streams, list)
  BY DEF Writes, WritesOf
<1>2. \A f \in DOMAIN files : files[f] \in Seq(Block)
  BY DEF TypeInv, FilesOk
<1> QED BY <1>1, <1>2, StreamsAreMedia DEF TypeInv, ListOk, JobOk, TypeOK

\* The state before the first run.
LEMMA TypeInit == Init => TypeInv
<1> SUFFICES ASSUME Init PROVE TypeInv
  OBVIOUS
<1>1. /\ Files \in Seq(Seq(Block)) /\ Outputs \in Seq(Seq(Block))
      /\ MaxRuns \in Nat
  BY PlaylistAssumption
<1>2. files \in Seq(Seq(Block)) /\ Len(files) = Len(Files) + Len(Outputs)
  BY <1>1 DEF Init
<1>5. ListOk
  BY DEF Init, ListOk
<1>6. JobOk
  BY DEF Init, JobOk, NoJob
<1>7. FilesOk
  BY <1>2 DEF FilesOk
<1>8. edits = {} /\ saved = {} /\ runs \in 0 .. MaxRuns
  BY <1>1 DEF Init
<1> QED BY <1>5, <1>6, <1>7, <1>8 DEF TypeInv

\* The list is fixed, or streams of it are freed, while nothing is written.
FixedList(new, old) == /\ new \in Seq(Seq(Segment))
                       /\ DOMAIN new = DOMAIN old
                       /\ \A s \in DOMAIN old : new[s] = <<>> \/ FixedStream(new[s], old[s])

\* They keep the types.
LEMMA TypeFixed ==
    ASSUME TypeInv, call' = Idle, files' = files, job' = job, FixedList(list', list),
           edits' \subseteq Ops, saved' = saved, runs' = runs
    PROVE  TypeInv'
<1>1. FilesOk'
  BY DEF TypeInv, FilesOk
<1>2. \A s \in DOMAIN list : Len(list'[s]) <= Len(files[s])
  <2> TAKE s \in DOMAIN list
  <2>1. list[s] \in Seq(Segment) /\ Len(list[s]) <= Len(files[s])
    BY DEF TypeInv, ListOk
  <2>2. files[s] \in Seq(Packet)
    BY StreamsAreMedia DEF TypeInv
  <2>3. CASE list'[s] = <<>>
    BY <2>2, <2>3
  <2>4. CASE FixedStream(list'[s], list[s])
    <3>1. list'[s] \in Seq(Segment) /\ DOMAIN list'[s] = DOMAIN list[s]
      BY <2>4 DEF FixedStream
    <3>2. Len(list'[s]) = Len(list[s])
      BY <2>1, <3>1
    <3> QED BY <2>1, <3>2
  <2> QED BY <2>3, <2>4 DEF FixedList
<1>3. ListOk'
  <2>1. list = <<>> => list' = <<>>
    BY DEF FixedList
  <2> QED BY <1>2, <2>1 DEF TypeInv, ListOk, FixedList
<1>4. JobOk'
  BY DEF TypeInv, JobOk, FixedList
<1> QED BY <1>1, <1>3, <1>4 DEF TypeInv

\* A playlist fixed stream by stream.
LEMMA ListFixed ==
    ASSUME ListOk, NEW new, new = [s \in DOMAIN list |-> new[s]],
           \A s \in DOMAIN list : new[s] = <<>> \/ FixedStream(new[s], list[s])
    PROVE  FixedList(new, list)
<1>1. Len(list) \in Nat /\ DOMAIN list = 1 .. Len(list)
  BY DEF ListOk
<1>2. \A s \in 1 .. Len(list) : new[s] \in Seq(Segment)
  <2>1. <<>> \in Seq(Segment)
    OBVIOUS
  <2>2. \A s \in DOMAIN list : new[s] \in Seq(Segment)
    BY <2>1, Zenon DEF FixedStream
  <2> QED BY <1>1, <2>2
<1>3. new = [s \in 1 .. Len(list) |-> new[s]]
  BY <1>1
<1>4. [s \in 1 .. Len(list) |-> new[s]] \in Seq(Seq(Segment))
  BY <1>1, <1>2
<1>5. new \in Seq(Seq(Segment))
  BY <1>3, <1>4
<1> QED BY <1>5 DEF FixedList

-----------------------------------------------------------------------------
(* The steps that fix or free what is in memory *)

FixingStep == /\ FixedList(list', list)
              /\ call = Idle /\ call' = Idle
              /\ UNCHANGED <<files, job, saved, runs>>
              /\ edits' \subseteq Ops

\* hls_fix_keyframe marks key frames.
LEMMA FixKeyFrameFixes ==
    ASSUME TypeInv, NEW pid \in Pids, FixKeyFrame(pid)
    PROVE  FixingStep
<1>1. ListOk /\ list \in Seq(Seq(Segment))
  BY DEF TypeInv, ListOk
<1>2. list' = [s \in DOMAIN list |-> fix_keyframe(list[s], pid)]
  BY DEF FixKeyFrame, OnEvery
<1>3. ASSUME NEW s \in DOMAIN list PROVE FixedStream(list'[s], list[s])
  <2>1. list[s] \in Seq(Segment) /\ list'[s] = fix_keyframe(list[s], pid)
    BY <1>1, <1>2
  <2> QED BY <2>1, FixesStreams
<1>4. FixedList(list', list)
  <2>1. list' = [s \in DOMAIN list |-> list'[s]]
    BY <1>2
  <2> QED BY <1>1, <1>3, <2>1, ListFixed
<1> QED BY <1>4 DEF FixingStep, FixKeyFrame, Loaded, TypeInv

\* hls_update_pcr_by_pts sets clock references.
LEMMA UpdatePcrFixes ==
    ASSUME TypeInv, NEW pid \in Pids, UpdatePcr(pid)
    PROVE  FixingStep
<1>1. ListOk /\ list \in Seq(Seq(Segment))
  BY DEF TypeInv, ListOk
<1>2. list' = [s \in DOMAIN list |-> update_pcr_by_pts(list[s], pid)]
  BY DEF UpdatePcr, OnEvery
<1>3. ASSUME NEW s \in DOMAIN list PROVE FixedStream(list'[s], list[s])
  <2>1. list[s] \in Seq(Segment) /\ list'[s] = update_pcr_by_pts(list[s], pid)
    BY <1>1, <1>2
  <2> QED BY <2>1, FixesStreams
<1>4. FixedList(list', list)
  <2>1. list' = [s \in DOMAIN list |-> list'[s]]
    BY <1>2
  <2> QED BY <1>1, <1>3, <2>1, ListFixed
<1> QED BY <1>4 DEF FixingStep, UpdatePcr, Loaded, TypeInv

\* hls_fix_discontinuity sets counters.
LEMMA FixDiscontinuityFixes ==
    ASSUME TypeInv, NEW pids, FixDiscontinuity(pids)
    PROVE  FixingStep
<1>1. ListOk /\ list \in Seq(Seq(Segment))
  BY DEF TypeInv, ListOk
<1>2. \A s \in DOMAIN list : list[s] \in Seq(Segment)
  BY <1>1
<1>3. FixedList(list', list)
  <2>1. CASE pids = <<>>
    <3>1. list' = list
      BY <2>1 DEF FixDiscontinuity, fix_discontinuity
    <3>2. \A s \in DOMAIN list : FixedStream(list[s], list[s])
      <4> TAKE s \in DOMAIN list
      <4>1. \A k \in DOMAIN list[s] : FixOf(list[s][k], list[s][k])
        <5>1. \A k \in DOMAIN list[s] : list[s][k] \in Segment
          BY <1>2
        <5> QED BY <5>1, FixNone
      <4> QED BY <1>2, <4>1 DEF FixedStream
    <3> QED BY <1>1, <3>1, <3>2 DEF FixedList
  <2>2. CASE pids # <<>>
    <3> DEFINE cc == first_ccs(list)
    <3>1. list' = [s \in DOMAIN list |-> update_cc(list[s], FixedPid, cc[s])]
      BY <2>2 DEF FixDiscontinuity, fix_discontinuity
    <3>2. \A s \in 1 .. Len(list) : cc[s] \in Below(16)
      <4>1. Len(list) \in Nat /\ \A s \in 1 .. Len(list) : Len(list[s]) \in Nat
        BY <1>1, <1>2
      <4> QED BY <4>1, FirstCounted
    <3> HIDE DEF cc
    <3>3. ASSUME NEW s \in DOMAIN list PROVE FixedStream(list'[s], list[s])
      <4>1. list'[s] = update_cc(list[s], FixedPid, cc[s])
        BY <3>1
      <4>2. cc[s] \in Below(16)
        BY <1>1, <3>2
      <4> QED BY <1>2, <4>1, <4>2, FixesStreams
    <3>4. list' = [s \in DOMAIN list |-> list'[s]]
      BY <3>1
    <3> QED BY <1>1, <3>3, <3>4, ListFixed
  <2> QED BY <2>1, <2>2
<1> QED BY <1>3 DEF FixingStep, FixDiscontinuity, Loaded, TypeInv

\* Where one stream is fixed or freed, the others stay.
LEMMA OneFixed ==
    ASSUME TypeInv, NEW s \in DOMAIN list, NEW new, new = <<>> \/ FixedStream(new, list[s]),
           list' = [list EXCEPT ![s] = new]
    PROVE  FixedList(list', list)
<1>1. ListOk /\ list \in Seq(Seq(Segment))
  BY DEF TypeInv, ListOk
<1>2. ASSUME NEW r \in DOMAIN list PROVE list'[r] = <<>> \/ FixedStream(list'[r], list[r])
  <2>1. CASE r = s
    BY <2>1
  <2>2. CASE r # s
    <3>1. list'[r] = list[r]
      BY <2>2
    <3>2. list[r] \in Seq(Segment)
      BY <1>1
    <3>3. \A k \in DOMAIN list[r] : FixOf(list[r][k], list[r][k])
      <4>1. \A k \in DOMAIN list[r] : list[r][k] \in Segment
        BY <3>2
      <4> QED BY <4>1, FixNone
    <3> QED BY <3>1, <3>2, <3>3 DEF FixedStream
  <2> QED BY <2>1, <2>2
<1>3. list' = [r \in DOMAIN list |-> list'[r]]
  OBVIOUS
<1> QED BY <1>1, <1>2, <1>3, ListFixed

\* mpegts_stream_pes_reset_len fixes one stream.
LEMMA PesResetLenFixes ==
    ASSUME TypeInv, NEW s \in DOMAIN list, PesResetLen(s)
    PROVE  FixingStep
<1>1. list[s] \in Seq(Segment)
  BY DEF TypeInv, ListOk
<1>2. FixedStream(pes_reset_len(list[s]), list[s])
  BY <1>1, FixesStreams
<1>3. FixedList(list', list)
  BY <1>2, OneFixed DEF PesResetLen
<1> QED BY <1>3 DEF FixingStep, PesResetLen, Loaded, TypeInv

\* mpegts_stream_free empties one stream.
LEMMA FreeStreamFixes ==
    ASSUME TypeInv, NEW s \in DOMAIN list, FreeStream(s)
    PROVE  FixingStep
<1>1. FixedList(list', list)
  BY OneFixed DEF FreeStream
<1> QED BY <1>1 DEF FixingStep, FreeStream, Loaded, TypeInv

-----------------------------------------------------------------------------
(* The steps that read and write files *)

\* hls_parse loads the playlist.
LEMMA TypeParse == TypeInv /\ Parse => TypeInv'
<1> SUFFICES ASSUME TypeInv, Parse PROVE TypeInv'
  OBVIOUS
<1>1. PICK mem \in Leftovers :
         list' = OnEvery(MediaFiles, LAMBDA file : read_segment(file, mem))
  BY DEF Parse
<1>2. mem \in Memory /\ \A s \in Media : Readable(files[s])
  BY PlaylistAssumption DEF Parse
<1>3. files \in Seq(Seq(Block)) /\ Len(files) = Len(Files) + Len(Outputs)
  BY DEF TypeInv, FilesOk
<1>4. DOMAIN MediaFiles = Media /\ \A s \in Media : MediaFiles[s] = files[s] /\ files[s] \in Seq(Block)
  BY <1>3, PathsAre DEF MediaFiles
<1>5. list' = [s \in Media |-> read_segment(files[s], mem)]
  <2>1. list' = [s \in DOMAIN MediaFiles |-> read_segment(MediaFiles[s], mem)]
    BY <1>1 DEF OnEvery
  <2> QED BY <1>4, <2>1
<1>6. \A s \in Media : /\ list'[s] \in Seq(Segment)
                       /\ Len(list'[s]) <= Len(files[s])
                       /\ files[s] \in Seq(Packet)
  <2> TAKE s \in Media
  <2>1. list'[s] = read_segment(files[s], mem)
    BY <1>5
  <2>2. /\ files[s] \in Seq(Packet) /\ list'[s] \in Seq(Segment)
        /\ Len(list'[s]) = Len(files[s])
    BY <1>2, <1>4, <2>1, StreamRead
  <2> QED BY <2>2
<1>7. list' \in Seq(Seq(Segment)) /\ DOMAIN list' = Media
  <2>1. Media = 1 .. Len(Files) /\ Len(Files) \in Nat
    BY PathsAre
  <2>2. list' = [s \in 1 .. Len(Files) |-> list'[s]]
    BY <1>5, <2>1
  <2>3. [s \in 1 .. Len(Files) |-> list'[s]] \in Seq(Seq(Segment))
    BY <1>6, <2>1
  <2> QED BY <1>5, <2>2, <2>3
<1>8. call = Idle /\ job' = job /\ call' = call /\ files' = files /\ list = <<>>
  <2>1. call = Idle
    <3>1. list = <<>> => job.streams = <<>> \/ \A n \in DOMAIN job.streams : FALSE
      BY DEF TypeInv, JobOk
    <3>2. list = <<>> => WritesOf(job.streams, list) = {}
      BY <3>1 DEF WritesOf
    <3> QED BY <3>2 DEF TypeInv, JobOk, Parse
  <2> QED BY <2>1 DEF Parse
<1>9. JobOk'
  <2>1. \A n \in DOMAIN job.streams : job.streams[n] \in DOMAIN list'
    <3>1. DOMAIN list = {}
      BY <1>8
    <3> QED BY <3>1 DEF TypeInv, JobOk
  <2> QED BY <1>8, <2>1 DEF TypeInv, JobOk
<1>10. FilesOk'
  BY <1>8 DEF TypeInv, FilesOk
<1>11. ListOk'
  BY <1>6, <1>7, <1>8 DEF ListOk
<1>12. runs' \in 0 .. MaxRuns /\ edits' = edits /\ saved' = saved
  BY PlaylistAssumption DEF Parse, TypeInv
<1> QED BY <1>9, <1>10, <1>11, <1>12 DEF TypeInv

\* An update or a copy begins with the first write() of its streams.
LEMMA TypeBegin ==
    ASSUME TypeInv, NEW streams, \A n \in DOMAIN streams : streams[n] \in DOMAIN list,
           NEW path \in {OwnPath} \cup Paths, Begin(streams, path), saved' \subseteq Ops
    PROVE  TypeInv'
<1>1. /\ files' = files /\ list' = list /\ edits' = edits /\ runs' = runs
      /\ job'.streams = streams /\ job'.path = path
  BY DEF Begin
<1>2. call' \in Writes(streams)
  BY DEF Begin, IsFirst
<1>3. call' \in WritesOf(job'.streams, list')
  BY <1>1, <1>2 DEF Writes, WritesOf
<1>4. JobOk'
  BY <1>1, <1>3 DEF JobOk
<1>5. FilesOk' /\ ListOk'
  BY <1>1 DEF TypeInv, FilesOk, ListOk
<1> QED BY <1>1, <1>4, <1>5 DEF TypeInv

\* What the write() that comes next is about.
LEMMA CallIs ==
    ASSUME TypeInv, call # Idle
    PROVE  /\ call[1] \in DOMAIN job.streams
           /\ job.streams[call[1]] \in DOMAIN list
           /\ call[2] \in DOMAIN list[job.streams[call[1]]]
           /\ list[job.streams[call[1]]][call[2]] \in Segment
           /\ call[2] \in DOMAIN files[job.streams[call[1]]]
           /\ Dest(job.streams[call[1]]) \in DOMAIN files
           /\ Dest(job.streams[call[1]]) \in Media =>
                 Dest(job.streams[call[1]]) = job.streams[call[1]]
<1> DEFINE s == job.streams[call[1]]
<1>1. call \in WritesOf(job.streams, list)
  BY DEF TypeInv, JobOk
<1>2. call[1] \in DOMAIN job.streams /\ call[2] \in DOMAIN list[s]
  BY <1>1 DEF WritesOf
<1>3. s \in DOMAIN list
  BY <1>2 DEF TypeInv, JobOk
<1>4. list \in Seq(Seq(Segment))
  BY DEF TypeInv, ListOk
<1> HIDE DEF s
<1>5. list[s] \in Seq(Segment)
  BY <1>3, <1>4
<1>6. list[s][call[2]] \in Segment
  BY <1>2, <1>5
<1>7. call[2] \in DOMAIN files[s] /\ s \in DOMAIN files
  BY <1>2, <1>3, StreamsAreMedia DEF TypeInv
<1>8. Dest(s) \in DOMAIN files /\ (Dest(s) \in Media => Dest(s) = s)
  BY <1>7, StreamsAreMedia, PathsAre DEF Dest, TypeInv, JobOk
<1> QED BY <1>2, <1>3, <1>6, <1>7, <1>8 DEF s

\* One file of several is changed.
LEMMA FileChanged ==
    ASSUME FilesOk, ListOk, NEW d \in DOMAIN files, NEW new \in Seq(Block),
           Len(new) >= Len(files[d]), d \in Media => new \in Seq(Packet),
           files' = [files EXCEPT ![d] = new], list' \in Seq(Seq(Segment)),
           DOMAIN list' = DOMAIN list, \A s \in DOMAIN list : DOMAIN list'[s] = DOMAIN list[s]
    PROVE  FilesOk' /\ ListOk'
<1>1. files' \in Seq(Seq(Block)) /\ Len(files') = Len(files) /\ DOMAIN files' = DOMAIN files
  <2>1. files \in Seq(Seq(Block))
    BY DEF FilesOk
  <2> QED BY <2>1
<1>2. \A s \in DOMAIN files : files'[s] = IF s = d THEN new ELSE files[s]
  OBVIOUS
<1>3. FilesOk'
  BY <1>1, <1>2, StreamsAreMedia DEF FilesOk
<1>4. ASSUME NEW s \in DOMAIN list PROVE Len(list'[s]) <= Len(files'[s])
  <2>1. s \in DOMAIN files /\ files[s] \in Seq(Packet)
    BY StreamsAreMedia
  <2>2. list[s] \in Seq(Segment) /\ list'[s] \in Seq(Segment)
    BY DEF ListOk
  <2>3. Len(list'[s]) = Len(list[s])
    BY <2>2
  <2>4. Len(list[s]) <= Len(files[s]) /\ Len(list[s]) \in Nat
    BY <2>2 DEF ListOk
  <2>5. s = d => Len(files'[s]) >= Len(files[s]) /\ Len(files'[s]) \in Nat
    BY <1>2, <2>1
  <2>6. s # d => Len(files'[s]) = Len(files[s])
    BY <1>2, <2>1
  <2> QED BY <2>1, <2>3, <2>4, <2>5, <2>6
<1>5. ListOk'
  <2>1. list = <<>> => list' = <<>>
    <3>1. Len(list') \in Nat /\ DOMAIN list' = 1 .. Len(list')
      OBVIOUS
    <3> QED OBVIOUS
  <2>2. list # <<>> => DOMAIN list' = Media /\ \A s \in Media : files'[s] \in Seq(Packet)
    BY <1>2, StreamsAreMedia DEF ListOk
  <2> QED BY <1>4, <2>1, <2>2 DEF ListOk
<1> QED BY <1>3, <1>5

\* One element of a sequence is replaced.
LEMMA PutOne ==
    ASSUME NEW S, NEW q \in Seq(S), NEW k \in DOMAIN q, NEW v \in S
    PROVE  /\ [q EXCEPT ![k] = v] \in Seq(S)
           /\ Len([q EXCEPT ![k] = v]) = Len(q)
           /\ DOMAIN [q EXCEPT ![k] = v] = DOMAIN q
<1>1. Len(q) \in Nat /\ DOMAIN q = 1 .. Len(q) /\ \A i \in 1 .. Len(q) : q[i] \in S
  OBVIOUS
<1> DEFINE new == [q EXCEPT ![k] = v]
<1>2. new = [i \in 1 .. Len(q) |-> IF i = k THEN v ELSE q[i]]
  BY <1>1
<1>3. [i \in 1 .. Len(q) |-> IF i = k THEN v ELSE q[i]] \in Seq(S)
  BY <1>1
<1> HIDE DEF new
<1>4. new \in Seq(S) /\ DOMAIN new = 1 .. Len(q)
  BY <1>2, <1>3
<1>5. Len(new) = Len(q)
  BY <1>1, <1>4
<1> QED BY <1>1, <1>4, <1>5 DEF new

\* A header goes into a file.
LEMMA HeadPut ==
    ASSUME NEW file \in Seq(Block), NEW k \in Nat, NEW h \in [1 .. 4 -> Byte]
    PROVE  /\ WithHead(file, k, h) \in Seq(Block)
           /\ Len(WithHead(file, k, h)) >= Len(file)
           /\ k \in DOMAIN file =>
                 /\ DOMAIN WithHead(file, k, h) = DOMAIN file
                 /\ \A i \in DOMAIN file :
                       /\ WithHead(file, k, h)[i].body = file[i].body
                       /\ WithHead(file, k, h)[i].head = IF i = k THEN h ELSE file[i].head
                 /\ file \in Seq(Packet) => WithHead(file, k, h) \in Seq(Packet)
<1> DEFINE new == WithHead(file, k, h)
<1>1. CASE k \in DOMAIN file
  <2>1. new = [file EXCEPT ![k] = [file[k] EXCEPT !.head = h]]
    BY <1>1 DEF WithHead
  <2> DEFINE put == [file[k] EXCEPT !.head = h]
  <2>2. file[k] \in Block
    BY <1>1
  <2>3. put \in Block /\ put.body = file[k].body /\ put.head = h
    BY <2>2 DEF Block
  <2>4. file \in Seq(Packet) => put \in Packet
    <3>1. file \in Seq(Packet) => file[k] \in Packet
      BY <1>1
    <3> QED BY <3>1 DEF Packet
  <2> HIDE DEF new, put
  <2>5. new = [file EXCEPT ![k] = put]
    BY <2>1 DEF put
  <2>6. new \in Seq(Block) /\ Len(new) = Len(file) /\ DOMAIN new = DOMAIN file
    BY <1>1, <2>3, <2>5, PutOne
  <2>7. \A i \in DOMAIN file : new[i] = IF i = k THEN put ELSE file[i]
    BY <2>5
  <2>8. file \in Seq(Packet) => new \in Seq(Packet)
    BY <1>1, <2>4, <2>5, PutOne
  <2>9. \A i \in DOMAIN file : /\ new[i].body = file[i].body
                               /\ new[i].head = IF i = k THEN h ELSE file[i].head
    BY <2>3, <2>7
  <2>10. Len(file) >= Len(file)
    OBVIOUS
  <2> QED BY <2>6, <2>8, <2>9, <2>10 DEF new
<1>2. CASE k \notin DOMAIN file
  <2> DEFINE put == [head |-> h, body |-> <<>>]
  <2>1. put \in Block
    BY DEF Block
  <2>2. new = Append(file, put)
    BY <1>2 DEF WithHead
  <2> HIDE DEF put, new
  <2>3. new \in Seq(Block) /\ Len(new) >= Len(file)
    BY <2>1, <2>2
  <2> QED BY <1>2, <2>3 DEF new
<1> QED BY <1>1, <1>2

\* A file after the write() of a payload.
WithBody(file, k, body) == [file EXCEPT ![k].body = body]

\* A payload goes into a file.
LEMMA BodyPut ==
    ASSUME NEW file \in Seq(Block), NEW k, NEW body \in Payload,
           NEW new, new = WithBody(file, k, body)
    PROVE  /\ new \in Seq(Block)
           /\ Len(new) >= Len(file)
           /\ DOMAIN new = DOMAIN file
           /\ \A i \in DOMAIN file :
                 /\ new[i].head = file[i].head
                 /\ new[i].body = IF i = k THEN body ELSE file[i].body
           /\ file \in Seq(Packet) => new \in Seq(Packet)
<1>1. CASE k \in DOMAIN file
  <2> DEFINE put == [file[k] EXCEPT !.body = body]
  <2>1. file[k] \in Block
    BY <1>1
  <2>2. put \in Block /\ put.body = body /\ put.head = file[k].head
    BY <2>1 DEF Block
  <2>3. file \in Seq(Packet) => put \in Packet
    <3>1. file \in Seq(Packet) => file[k] \in Packet
      BY <1>1
    <3> QED BY <3>1 DEF Packet
  <2> HIDE DEF put
  <2>4. new = [file EXCEPT ![k] = put]
    BY DEF put, WithBody
  <2>5. new \in Seq(Block) /\ Len(new) = Len(file) /\ DOMAIN new = DOMAIN file
    BY <1>1, <2>2, <2>4, PutOne
  <2>6. \A i \in DOMAIN file : new[i] = IF i = k THEN put ELSE file[i]
    BY <2>4
  <2>7. file \in Seq(Packet) => new \in Seq(Packet)
    BY <1>1, <2>3, <2>4, PutOne
  <2>8. Len(file) >= Len(file)
    OBVIOUS
  <2>9. \A i \in DOMAIN file : /\ new[i].head = file[i].head
                               /\ new[i].body = IF i = k THEN body ELSE file[i].body
    BY <2>2, <2>6
  <2> QED BY <2>5, <2>7, <2>8, <2>9
<1>2. CASE k \notin DOMAIN file
  <2>1. new = file
    <3>1. \A i \in DOMAIN file : new[i] = file[i]
      BY <1>2 DEF WithBody
    <3>2. new = [i \in DOMAIN file |-> new[i]]
      BY DEF WithBody
    <3> QED BY <3>1, <3>2
  <2>2. Len(file) >= Len(file)
    OBVIOUS
  <2> QED BY <1>2, <2>1, <2>2
<1> QED BY <1>1, <1>2

\* write() of a header.
LEMMA HeaderStep ==
    ASSUME TypeInv, WriteHeader
    PROVE  \E s, k, d, new :
              /\ s \in DOMAIN list /\ k \in DOMAIN list[s] /\ d \in DOMAIN files
              /\ d \in Media => d = s
              /\ new = WithHead(files[d], k, write_header(list[s][k].header))
              /\ files' = [files EXCEPT ![d] = new]
              /\ files[d] \in Seq(Block)
              /\ k \in Nat
              /\ list[s][k] \in Segment
              /\ write_header(list[s][k].header) \in [1 .. 4 -> Byte]
              /\ d \in Media => k \in DOMAIN files[d] /\ files[d] \in Seq(Packet)
<1> DEFINE s == job.streams[call[1]]
           k == call[2]
           d == Dest(s)
           new == WithHead(files[d], k, write_header(list[s][k].header))
<1>1. /\ s \in DOMAIN list /\ k \in DOMAIN list[s] /\ list[s][k] \in Segment
      /\ d \in DOMAIN files /\ (d \in Media => d = s) /\ k \in DOMAIN files[s]
  BY CallIs DEF WriteHeader
<1>2. files' = [files EXCEPT ![d] = new]
  BY DEF WriteHeader
<1> HIDE DEF s, k, d, new
<1>3. files[d] \in Seq(Block) /\ (d \in Media => files[d] \in Seq(Packet))
  BY <1>1, StreamsAreMedia DEF TypeInv, FilesOk
<1>4. k \in Nat
  <2>1. list[s] \in Seq(Segment)
    BY <1>1 DEF TypeInv, ListOk
  <2> QED BY <1>1, <2>1
<1>5. write_header(list[s][k].header) \in [1 .. 4 -> Byte]
  BY <1>1, HeaderWritten DEF Segment
<1> QED BY <1>1, <1>2, <1>3, <1>4, <1>5, Zenon DEF new

\* write() of a payload, which is the segment's own.
LEMMA PayloadStep ==
    ASSUME TypeInv, WritePayload
    PROVE  \E s, k, d, new :
              /\ s \in DOMAIN list /\ k \in DOMAIN list[s] /\ d \in DOMAIN files
              /\ d \in Media => d = s
              /\ list[s][k] \in Segment
              /\ written_payload(list[s][k]) \in Payload
              /\ list' = [list EXCEPT ![s][k].payload = written_payload(list[s][k])]
              /\ new = WithBody(files[d], k, written_payload(list[s][k]))
              /\ files' = [files EXCEPT ![d] = new]
              /\ files[d] \in Seq(Block)
              /\ d \in Media => k \in DOMAIN files[d] /\ files[d] \in Seq(Packet)
<1> DEFINE s == job.streams[call[1]]
           k == call[2]
           d == Dest(s)
           body == written_payload(list[s][k])
           new == WithBody(files[d], k, body)
<1>1. /\ s \in DOMAIN list /\ k \in DOMAIN list[s] /\ list[s][k] \in Segment
      /\ d \in DOMAIN files /\ (d \in Media => d = s) /\ k \in DOMAIN files[s]
  BY CallIs DEF WritePayload
<1>2. files' = [files EXCEPT ![d][k].body = body]
  BY DEF WritePayload
<1>3. list' = [list EXCEPT ![s][k].payload = body]
  BY DEF WritePayload
<1>4. body \in Payload
  BY <1>1, PayloadWritten
<1> HIDE DEF s, k, d, body
<1>5. files' = [files EXCEPT ![d] = new]
  BY <1>2 DEF WithBody
<1> HIDE DEF new
<1>6. files[d] \in Seq(Block) /\ (d \in Media => files[d] \in Seq(Packet))
  BY <1>1, StreamsAreMedia DEF TypeInv, FilesOk
<1> QED BY <1>1, <1>3, <1>4, <1>5, <1>6, Zenon DEF new, body

\* A payload is changed in memory: the playlist keeps its shape.
LEMMA PayloadSet ==
    ASSUME list \in Seq(Seq(Segment)), NEW s \in DOMAIN list, NEW k \in DOMAIN list[s],
           NEW body \in Payload, list' = [list EXCEPT ![s][k].payload = body]
    PROVE  /\ list' \in Seq(Seq(Segment))
           /\ DOMAIN list' = DOMAIN list
           /\ \A r \in DOMAIN list : DOMAIN list'[r] = DOMAIN list[r]
           /\ \A r \in DOMAIN list : \A i \in DOMAIN list[r] :
                 list'[r][i] = IF r = s /\ i = k THEN [list[s][k] EXCEPT !.payload = body]
                                                 ELSE list[r][i]
<1> DEFINE seg    == [list[s][k] EXCEPT !.payload = body]
           stream == [list[s] EXCEPT ![k] = seg]
<1>1. list[s] \in Seq(Segment)
  OBVIOUS
<1>2. list[s][k] \in Segment
  BY <1>1
<1>3. seg \in Segment
  BY <1>2, FixPayload
<1>4. list' = [list EXCEPT ![s] = stream]
  OBVIOUS
<1> HIDE DEF seg
<1>5. stream \in Seq(Segment) /\ DOMAIN stream = DOMAIN list[s]
  BY <1>1, <1>3, PutOne
<1>6. \A i \in DOMAIN list[s] : stream[i] = IF i = k THEN seg ELSE list[s][i]
  OBVIOUS
<1> HIDE DEF stream
<1>7. list' \in Seq(Seq(Segment)) /\ DOMAIN list' = DOMAIN list
  <2> DEFINE new == [list EXCEPT ![s] = stream]
  <2>1. new \in Seq(Seq(Segment)) /\ DOMAIN new = DOMAIN list
    BY <1>5, PutOne, Zenon
  <2>2. list' = new
    BY <1>4
  <2> QED BY <2>1, <2>2, Zenon
<1>8. \A r \in DOMAIN list : list'[r] = IF r = s THEN stream ELSE list[r]
  BY <1>4
<1>9. \A r \in DOMAIN list : DOMAIN list'[r] = DOMAIN list[r]
  BY <1>5, <1>8
<1>10. \A r \in DOMAIN list : \A i \in DOMAIN list[r] :
          list'[r][i] = IF r = s /\ i = k THEN seg ELSE list[r][i]
  BY <1>6, <1>8
<1> QED BY <1>7, <1>9, <1>10 DEF seg

\* write() of a header keeps the types.
LEMMA TypeWriteHeader == TypeInv /\ WriteHeader => TypeInv'
<1> SUFFICES ASSUME TypeInv, WriteHeader PROVE TypeInv'
  OBVIOUS
<1>1. PICK s, k, d, new :
         /\ s \in DOMAIN list /\ k \in DOMAIN list[s] /\ d \in DOMAIN files
         /\ d \in Media => d = s
         /\ new = WithHead(files[d], k, write_header(list[s][k].header))
         /\ files' = [files EXCEPT ![d] = new]
         /\ files[d] \in Seq(Block)
         /\ k \in Nat
         /\ list[s][k] \in Segment
         /\ write_header(list[s][k].header) \in [1 .. 4 -> Byte]
         /\ d \in Media => k \in DOMAIN files[d] /\ files[d] \in Seq(Packet)
  BY HeaderStep, Zenon
<1>2. new \in Seq(Block) /\ Len(new) >= Len(files[d]) /\ (d \in Media => new \in Seq(Packet))
  BY <1>1, HeadPut
<1>3. list' = list /\ job' = job /\ edits' = edits /\ saved' = saved /\ runs' = runs
  BY DEF WriteHeader
<1>4. list \in Seq(Seq(Segment))
  BY DEF TypeInv, ListOk
<1>5. FilesOk' /\ ListOk'
  BY <1>1, <1>2, <1>3, <1>4, FileChanged DEF TypeInv
<1>6. call' \in WritesOf(job.streams, list)
  BY DEF WriteHeader, IsFirst, Rest, Writes, WritesOf
<1>7. JobOk'
  BY <1>3, <1>6 DEF TypeInv, JobOk
<1> QED BY <1>3, <1>5, <1>7 DEF TypeInv

\* write() of a payload keeps the types.
LEMMA TypeWritePayload == TypeInv /\ WritePayload => TypeInv'
<1> SUFFICES ASSUME TypeInv, WritePayload PROVE TypeInv'
  OBVIOUS
<1>1. PICK s, k, d, new :
         /\ s \in DOMAIN list /\ k \in DOMAIN list[s] /\ d \in DOMAIN files
         /\ d \in Media => d = s
         /\ list[s][k] \in Segment
         /\ written_payload(list[s][k]) \in Payload
         /\ list' = [list EXCEPT ![s][k].payload = written_payload(list[s][k])]
         /\ new = WithBody(files[d], k, written_payload(list[s][k]))
         /\ files' = [files EXCEPT ![d] = new]
         /\ files[d] \in Seq(Block)
         /\ d \in Media => k \in DOMAIN files[d] /\ files[d] \in Seq(Packet)
  BY PayloadStep, Zenon
<1>2. new \in Seq(Block) /\ Len(new) >= Len(files[d]) /\ (d \in Media => new \in Seq(Packet))
  <2> DEFINE file == files[d]
             body == written_payload(list[s][k])
  <2>1. /\ file \in Seq(Block) /\ body \in Payload
        /\ new = WithBody(file, k, body)
    BY <1>1
  <2>2. d \in Media => file \in Seq(Packet)
    BY <1>1
  <2> HIDE DEF file, body
  <2>3. new \in Seq(Block) /\ Len(new) >= Len(file) /\ (file \in Seq(Packet) => new \in Seq(Packet))
    BY <2>1, BodyPut
  <2> QED BY <2>2, <2>3 DEF file
<1>3. list \in Seq(Seq(Segment))
  BY DEF TypeInv, ListOk
<1>4. /\ list' \in Seq(Seq(Segment)) /\ DOMAIN list' = DOMAIN list
      /\ \A r \in DOMAIN list : DOMAIN list'[r] = DOMAIN list[r]
  BY <1>1, <1>3, PayloadSet, Zenon
<1>5. FilesOk' /\ ListOk'
  BY <1>1, <1>2, <1>4, FileChanged DEF TypeInv
<1>6. edits' = edits /\ runs' = runs /\ saved' \subseteq Ops
  BY DEF WritePayload, TypeInv
<1>7. JobOk'
  <2>1. CASE call' = Idle /\ job' = NoJob
    BY <2>1 DEF JobOk, NoJob
  <2>2. CASE call' \in Rest /\ job' = job
    <3>1. call' \in WritesOf(job.streams, list)
      BY <2>2 DEF Rest, Writes, WritesOf
    <3>2. WritesOf(job.streams, list') = WritesOf(job.streams, list)
      <4>1. \A n \in DOMAIN job.streams : DOMAIN list'[job.streams[n]] = DOMAIN list[job.streams[n]]
        BY <1>4 DEF TypeInv, JobOk
      <4> QED BY <4>1 DEF WritesOf
    <3> QED BY <1>4, <2>2, <3>1, <3>2 DEF TypeInv, JobOk
  <2> QED BY <2>1, <2>2 DEF WritePayload, IsFirst
<1> QED BY <1>5, <1>6, <1>7 DEF TypeInv

\* The program ends, and its memory is gone.
LEMMA TypeExit == TypeInv /\ Exit => TypeInv'
<1> SUFFICES ASSUME TypeInv, Exit PROVE TypeInv'
  OBVIOUS
<1>1. /\ list' = <<>> /\ job' = NoJob /\ call' = Idle /\ edits' = {}
      /\ files' = files /\ saved' = saved /\ runs' = runs
  BY DEF Exit
<1>2. ListOk' /\ JobOk'
  BY <1>1 DEF ListOk, JobOk, NoJob
<1>3. FilesOk'
  BY <1>1 DEF TypeInv, FilesOk
<1> QED BY <1>1, <1>2, <1>3 DEF TypeInv

\* A run that ends in hls_parse has changed nothing.
LEMMA TypeParseExits == TypeInv /\ ParseExits => TypeInv'
<1> SUFFICES ASSUME TypeInv, ParseExits PROVE TypeInv'
  OBVIOUS
<1>1. runs' \in 0 .. MaxRuns
  BY PlaylistAssumption DEF TypeInv, ParseExits
<1> QED BY <1>1 DEF ParseExits, TypeInv, FilesOk, ListOk, JobOk

\* A step that fixes keeps the types.
LEMMA TypeFixing == TypeInv /\ FixingStep => TypeInv'
BY TypeFixed DEF FixingStep

\* What a step of the editor is, given the types.
LEMMA Steps ==
    ASSUME TypeInv, [Next]_vars
    PROVE  \/ Parse \/ ParseExits
           \/ FixingStep
           \/ /\ \/ BeginUpdate
                 \/ \E s \in DOMAIN list : \E path \in Paths : BeginCopy(s, path)
           \/ WriteHeader
           \/ WritePayload
           \/ Exit
           \/ UNCHANGED vars
BY FixKeyFrameFixes, UpdatePcrFixes, FixDiscontinuityFixes, PesResetLenFixes, FreeStreamFixes
   DEF Next

\* The beginning of an update or a copy keeps the types.
LEMMA TypeBegins ==
    ASSUME TypeInv,
           \/ BeginUpdate
           \/ \E s \in DOMAIN list : \E path \in Paths : BeginCopy(s, path)
    PROVE  TypeInv'
<1>1. CASE BeginUpdate
  <2> DEFINE streams == [s \in DOMAIN list |-> s]
  <2>1. \A n \in DOMAIN streams : streams[n] \in DOMAIN list
    OBVIOUS
  <2>2. Begin(streams, OwnPath) /\ saved' \subseteq Ops
    BY <1>1 DEF BeginUpdate
  <2> HIDE DEF streams
  <2> QED BY <2>1, <2>2, TypeBegin
<1>2. ASSUME NEW s \in DOMAIN list, NEW path \in Paths, BeginCopy(s, path) PROVE TypeInv'
  <2> DEFINE streams == <<s>>
  <2>1. \A n \in DOMAIN streams : streams[n] \in DOMAIN list
    OBVIOUS
  <2>2. Begin(streams, path) /\ saved' \subseteq Ops
    BY <1>2 DEF BeginCopy, TypeInv
  <2> HIDE DEF streams
  <2> QED BY <2>1, <2>2, TypeBegin
<1> QED BY <1>1, <1>2

\* Every step keeps the types.
LEMMA TypeNext == TypeInv /\ [Next]_vars => TypeInv'
<1> SUFFICES ASSUME TypeInv, [Next]_vars PROVE TypeInv'
  OBVIOUS
<1>1. CASE Parse \/ ParseExits
  BY <1>1, TypeParse, TypeParseExits
<1>2. CASE FixingStep
  BY <1>2, TypeFixing
<1>3. CASE BeginUpdate \/ \E s \in DOMAIN list : \E path \in Paths : BeginCopy(s, path)
  BY <1>3, TypeBegins
<1>4. CASE WriteHeader \/ WritePayload \/ Exit
  BY <1>4, TypeWriteHeader, TypeWritePayload, TypeExit
<1>5. CASE UNCHANGED vars
  BY <1>5 DEF vars, TypeInv, FilesOk, ListOk, JobOk
<1> QED BY <1>1, <1>2, <1>3, <1>4, <1>5, Steps

(* Every file stays a sequence of packets, those of a playlist in memory   *)
(* one of packets with their payloads, streams are no longer than their    *)
(* files, and the write() that comes next is about a packet of a stream    *)
(* that is there, whatever is fixed, freed, written or interrupted, and    *)
(* whatever the packets hold.                                              *)
THEOREM PlaylistTypes == Spec => []TypeOK
<1>1. Spec => []TypeInv
  BY TypeInit, TypeNext, PTL DEF Spec
<1> QED BY <1>1, TypesAreOk, PTL

-----------------------------------------------------------------------------
(* Only fixes show *)

\* Of a run that starts in the packets the code handles.
Handled == WellFormedFiles /\ ZeroedMemory

MemoryKept == \A s \in DOMAIN list : \A k \in DOMAIN list[s] : Kept(list[s][k], Files[s][k])

KeepInv == TypeInv /\ OnlyFixesShow /\ MemoryKept

\* What is known of the packets a playlist is made of.
LEMMA PacketsAre ==
    ASSUME Handled, NEW s \in Media, NEW k \in DOMAIN Files[s]
    PROVE  Files[s][k] \in Packet /\ WellFormed(Files[s][k])
<1>1. Files \in Seq(Seq(Block)) /\ s \in DOMAIN Files
  BY PlaylistAssumption DEF Media
<1>2. WellFormed(Files[s][k])
  BY <1>1 DEF Handled, WellFormedFiles
<1>3. Files[s][k] \in Block
  BY <1>1
<1>4. Files[s][k] \in Packet
  BY <1>2, <1>3 DEF WellFormed, Whole, Block, Packet
<1> QED BY <1>2, <1>4

\* A file of the playlist has the packets it had at first.
LEMMA SamePackets ==
    ASSUME TypeInv, OnlyFixesShow, NEW s \in Media
    PROVE  DOMAIN files[s] = DOMAIN Files[s]
<1>1. Files \in Seq(Seq(Block)) /\ s \in DOMAIN Files /\ s \in DOMAIN files
  BY PlaylistAssumption, StreamsAreMedia DEF Media, TypeInv
<1>2. Files[s] \in Seq(Block) /\ files[s] \in Seq(Block)
  BY <1>1 DEF TypeInv, FilesOk
<1>3. Len(files[s]) = Len(Files[s])
  BY <1>1 DEF OnlyFixesShow
<1> QED BY <1>2, <1>3

\* A segment in memory stands for a packet of its file.
LEMMA SegmentsAre ==
    ASSUME Handled, TypeInv, OnlyFixesShow, NEW s \in DOMAIN list, NEW k \in DOMAIN list[s]
    PROVE  /\ s \in Media /\ k \in DOMAIN Files[s]
           /\ Files[s][k] \in Packet /\ WellFormed(Files[s][k])
           /\ list[s][k] \in Segment
<1>1. s \in Media /\ k \in DOMAIN files[s]
  BY StreamsAreMedia DEF TypeInv
<1>2. k \in DOMAIN Files[s]
  BY <1>1, SamePackets
<1>3. list[s] \in Seq(Segment)
  BY DEF TypeInv, ListOk
<1> QED BY <1>1, <1>2, <1>3, PacketsAre

\* Before the first run nothing has changed.
LEMMA KeepInit == Handled /\ Init => KeepInv
<1> SUFFICES ASSUME Handled, Init PROVE KeepInv
  OBVIOUS
<1>1. TypeInv
  BY TypeInit
<1>2. ASSUME NEW s \in Media PROVE files[s] = Files[s]
  <2>1. s \in 1 .. Len(Files) /\ Len(Files) \in Nat
    BY PathsAre, <1>2
  <2>2. (Files \o Outputs)[s] = Files[s]
    BY <2>1, PlaylistAssumption
  <2> QED BY <2>2 DEF Init
<1>3. \A packet : SameBut(packet, packet)
  <2>1. \A packet : BodyKept(packet.body, packet)
    BY DEF BodyKept
  <2> QED BY <2>1, SameParts
<1>4. OnlyFixesShow
  BY <1>2, <1>3 DEF OnlyFixesShow, Media
<1>5. MemoryKept
  BY DEF Init, MemoryKept
<1> QED BY <1>1, <1>4, <1>5 DEF KeepInv

\* Reading the files gives segments that keep what the files keep.
LEMMA KeepParse == Handled /\ KeepInv /\ Parse => KeepInv'
<1> SUFFICES ASSUME Handled, KeepInv, Parse PROVE KeepInv'
  OBVIOUS
<1>1. TypeInv /\ TypeInv' /\ OnlyFixesShow
  BY TypeParse DEF KeepInv
<1>2. files' = files
  BY DEF Parse
<1>3. OnlyFixesShow'
  BY <1>1, <1>2 DEF OnlyFixesShow
<1>4. PICK mem \in Leftovers :
         list' = OnEvery(MediaFiles, LAMBDA file : read_segment(file, mem))
  BY DEF Parse
<1>5. /\ mem \in Memory
      /\ mem.rand_acc = 0 /\ mem.has_pcr = 0 /\ mem.priv_len = 0
  BY PlaylistAssumption DEF Handled, ZeroedMemory
<1>6. files \in Seq(Seq(Block)) /\ Len(files) = Len(Files) + Len(Outputs)
  BY <1>1 DEF TypeInv, FilesOk
<1>7. DOMAIN MediaFiles = Media /\ \A s \in Media : MediaFiles[s] = files[s] /\ files[s] \in Seq(Block)
  BY <1>6, PathsAre DEF MediaFiles
<1>8. list' = [s \in Media |-> read_segment(files[s], mem)]
  <2>1. list' = [s \in DOMAIN MediaFiles |-> read_segment(MediaFiles[s], mem)]
    BY <1>4 DEF OnEvery
  <2> QED BY <1>7, <2>1
<1>9. ASSUME NEW s \in Media, NEW k \in DOMAIN list'[s] PROVE Kept(list'[s][k], Files[s][k])
  <2>1. list'[s] = read_segment(files[s], mem) /\ Readable(files[s])
    BY <1>8 DEF Parse
  <2>2. DOMAIN list'[s] = DOMAIN files[s]
    BY <1>5, <1>7, <2>1, StreamRead
  <2>3. /\ k \in DOMAIN files[s]
        /\ files[s][k] \in Packet /\ IsPacket(files[s][k])
        /\ list'[s][k] = parse_ts_segment(files[s][k], mem)
    BY <1>5, <1>7, <1>9, <2>1, <2>2, StreamRead
  <2>4. k \in DOMAIN Files[s]
    BY <1>1, <2>3, SamePackets
  <2>5. Files[s][k] \in Packet /\ WellFormed(Files[s][k])
    BY <2>4, PacketsAre
  <2>6. SameBut(files[s][k], Files[s][k])
    BY <1>1, <2>4 DEF OnlyFixesShow, Media
  <2> QED BY <1>5, <2>3, <2>5, <2>6, ReadKept
<1>10. MemoryKept'
  BY <1>8, <1>9 DEF MemoryKept
<1> QED BY <1>1, <1>3, <1>10 DEF KeepInv

\* A fix keeps it, by what a fix of a segment is.
LEMMA KeepFixing == Handled /\ KeepInv /\ FixingStep => KeepInv'
<1> SUFFICES ASSUME Handled, KeepInv, FixingStep PROVE KeepInv'
  OBVIOUS
<1>1. TypeInv /\ TypeInv' /\ OnlyFixesShow /\ MemoryKept
  BY TypeFixing DEF KeepInv
<1>2. files' = files /\ FixedList(list', list)
  BY DEF FixingStep
<1>3. OnlyFixesShow'
  BY <1>1, <1>2 DEF OnlyFixesShow
<1>4. ASSUME NEW s \in DOMAIN list, NEW k \in DOMAIN list'[s] PROVE Kept(list'[s][k], Files[s][k])
  <2>1. list'[s] # <<>>
    BY <1>4
  <2>2. FixedStream(list'[s], list[s])
    BY <1>2, <2>1 DEF FixedList
  <2>3. k \in DOMAIN list[s] /\ FixOf(list'[s][k], list[s][k])
    BY <1>4, <2>2 DEF FixedStream
  <2>4. Files[s][k] \in Packet /\ Kept(list[s][k], Files[s][k])
    BY <1>1, <2>3, SegmentsAre DEF MemoryKept
  <2> QED BY <2>3, <2>4 DEF FixOf
<1>5. MemoryKept'
  BY <1>2, <1>4 DEF MemoryKept, FixedList
<1> QED BY <1>1, <1>3, <1>5 DEF KeepInv

\* One file is changed in one packet.
LEMMA OneShows ==
    ASSUME TypeInv, OnlyFixesShow, NEW d \in DOMAIN files, NEW new,
           files' = [files EXCEPT ![d] = new],
           d \in Media => /\ DOMAIN new = DOMAIN files[d] /\ new \in Seq(Packet)
                          /\ \A k \in DOMAIN Files[d] : SameBut(new[k], Files[d][k])
    PROVE  OnlyFixesShow'
<1> SUFFICES ASSUME NEW s \in DOMAIN Files
             PROVE  /\ Len(files'[s]) = Len(Files[s])
                    /\ \A k \in DOMAIN Files[s] : SameBut(files'[s][k], Files[s][k])
  BY DEF OnlyFixesShow
<1>1. /\ Len(files[s]) = Len(Files[s])
      /\ \A k \in DOMAIN Files[s] : SameBut(files[s][k], Files[s][k])
  BY DEF OnlyFixesShow
<1>2. s \in DOMAIN files /\ s \in Media /\ files[s] \in Seq(Block)
  BY StreamsAreMedia DEF TypeInv, FilesOk, Media
<1>3. CASE s = d
  <2>1. files'[s] = new /\ new \in Seq(Packet) /\ DOMAIN new = DOMAIN files[s]
    BY <1>2, <1>3
  <2>2. Len(new) = Len(files[s])
    BY <1>2, <2>1
  <2> QED BY <1>1, <1>2, <1>3, <2>1, <2>2
<1>4. CASE s # d
  <2>1. files'[s] = files[s]
    BY <1>2, <1>4
  <2> QED BY <1>1, <2>1
<1> QED BY <1>3, <1>4

\* A header written back differs in its counter at most.
LEMMA KeepWriteHeader == Handled /\ KeepInv /\ WriteHeader => KeepInv'
<1> SUFFICES ASSUME Handled, KeepInv, WriteHeader PROVE KeepInv'
  OBVIOUS
<1>1. TypeInv /\ TypeInv' /\ OnlyFixesShow /\ MemoryKept
  BY TypeWriteHeader DEF KeepInv
<1>2. PICK s, k, d, new :
         /\ s \in DOMAIN list /\ k \in DOMAIN list[s] /\ d \in DOMAIN files
         /\ d \in Media => d = s
         /\ new = WithHead(files[d], k, write_header(list[s][k].header))
         /\ files' = [files EXCEPT ![d] = new]
         /\ files[d] \in Seq(Block)
         /\ k \in Nat
         /\ list[s][k] \in Segment
         /\ write_header(list[s][k].header) \in [1 .. 4 -> Byte]
         /\ d \in Media => k \in DOMAIN files[d] /\ files[d] \in Seq(Packet)
  BY <1>1, HeaderStep, Zenon
<1> DEFINE h   == write_header(list[s][k].header)
           old == Files[s][k]
<1>3. old \in Packet /\ WellFormed(old) /\ k \in DOMAIN Files[s]
  BY <1>1, <1>2, SegmentsAre
<1>4. Kept(list[s][k], old)
  BY <1>1, <1>2 DEF MemoryKept
<1>5. /\ \A i \in 1 .. 3 : h[i] = old.head[i]
      /\ h[4] \div 16 = old.head[4] \div 16
  <2> DEFINE seg == list[s][k]
  <2>1. seg \in Segment /\ Kept(seg, old) /\ h = write_header(seg.header)
    BY <1>2, <1>4
  <2> HIDE DEF seg, old, h
  <2> QED BY <1>3, <2>1, WriteKept
<1>6. h \in [1 .. 4 -> Byte] /\ new = WithHead(files[d], k, h)
  BY <1>2
<1> HIDE DEF h
<1>7. ASSUME d \in Media
      PROVE  /\ DOMAIN new = DOMAIN files[d] /\ new \in Seq(Packet)
             /\ \A i \in DOMAIN Files[d] : SameBut(new[i], Files[d][i])
  <2>1. d = s /\ k \in DOMAIN files[d] /\ files[d] \in Seq(Packet) /\ files[d] \in Seq(Block)
    BY <1>2, <1>7
  <2>2. /\ DOMAIN new = DOMAIN files[d] /\ new \in Seq(Packet)
        /\ \A i \in DOMAIN files[d] : /\ new[i].body = files[d][i].body
                                      /\ new[i].head = IF i = k THEN h ELSE files[d][i].head
    BY <1>2, <1>6, <2>1, HeadPut
  <2>3. ASSUME NEW i \in DOMAIN Files[d] PROVE SameBut(new[i], Files[d][i])
    <3>1. i \in DOMAIN files[d]
      BY <1>1, <1>7, SamePackets
    <3>2. SameBut(files[d][i], Files[d][i])
      BY <1>1, <1>7 DEF OnlyFixesShow, Media
    <3>3. /\ \A j \in 1 .. 3 : files[d][i].head[j] = Files[d][i].head[j]
          /\ files[d][i].head[4] \div 16 = Files[d][i].head[4] \div 16
          /\ BodyKept(files[d][i].body, Files[d][i])
      BY <3>2, SameParts
    <3>4. new[i].body = files[d][i].body /\ new[i].head = IF i = k THEN h ELSE files[d][i].head
      BY <2>2, <3>1
    <3>5. i = k => Files[d][i] = old
      BY <2>1
    <3> HIDE DEF old
    <3>6. /\ \A j \in 1 .. 3 : new[i].head[j] = Files[d][i].head[j]
          /\ new[i].head[4] \div 16 = Files[d][i].head[4] \div 16
          /\ BodyKept(new[i].body, Files[d][i])
      BY <1>5, <3>3, <3>4, <3>5
    <3> QED BY <3>6, SameParts
  <2> QED BY <2>2, <2>3
<1>8. OnlyFixesShow'
  BY <1>1, <1>2, <1>7, OneShows
<1>9. MemoryKept'
  BY <1>1 DEF WriteHeader, MemoryKept
<1> QED BY <1>1, <1>8, <1>9 DEF KeepInv

\* A payload written back differs in the meant parts at most, and so does the
\* segment's, which it becomes.
LEMMA KeepWritePayload == Handled /\ KeepInv /\ WritePayload => KeepInv'
<1> SUFFICES ASSUME Handled, KeepInv, WritePayload PROVE KeepInv'
  OBVIOUS
<1>1. TypeInv /\ TypeInv' /\ OnlyFixesShow /\ MemoryKept
  BY TypeWritePayload DEF KeepInv
<1>2. PICK s, k, d, new :
         /\ s \in DOMAIN list /\ k \in DOMAIN list[s] /\ d \in DOMAIN files
         /\ d \in Media => d = s
         /\ list[s][k] \in Segment
         /\ written_payload(list[s][k]) \in Payload
         /\ list' = [list EXCEPT ![s][k].payload = written_payload(list[s][k])]
         /\ new = WithBody(files[d], k, written_payload(list[s][k]))
         /\ files' = [files EXCEPT ![d] = new]
         /\ files[d] \in Seq(Block)
         /\ d \in Media => k \in DOMAIN files[d] /\ files[d] \in Seq(Packet)
  BY <1>1, PayloadStep, Zenon
<1> DEFINE body == written_payload(list[s][k])
           old  == Files[s][k]
           seg  == list[s][k]
<1>3. old \in Packet /\ WellFormed(old) /\ k \in DOMAIN Files[s]
  BY <1>1, <1>2, SegmentsAre
<1>4. seg \in Segment /\ Kept(seg, old) /\ body = written_payload(seg) /\ body \in Payload
  BY <1>1, <1>2 DEF MemoryKept
<1>5. new = WithBody(files[d], k, body) /\ list' = [list EXCEPT ![s][k].payload = body]
  BY <1>2
<1> HIDE DEF body, old, seg
<1>6. /\ BodyKept(body, old)
      /\ HasAdp(old) /\ Flag(At(body, 1), 6) => seg.adaptation_field.rand_acc = 1
  BY <1>3, <1>4, WriteKept
<1>7. ASSUME d \in Media
      PROVE  /\ DOMAIN new = DOMAIN files[d] /\ new \in Seq(Packet)
             /\ \A i \in DOMAIN Files[d] : SameBut(new[i], Files[d][i])
  <2> DEFINE file == files[d]
  <2>1. /\ d = s /\ k \in DOMAIN file /\ file \in Seq(Packet) /\ file \in Seq(Block)
        /\ new = WithBody(file, k, body)
    BY <1>2, <1>5, <1>7
  <2> HIDE DEF file
  <2>2. /\ DOMAIN new = DOMAIN file /\ new \in Seq(Packet)
        /\ \A i \in DOMAIN file : /\ new[i].head = file[i].head
                                  /\ new[i].body = IF i = k THEN body ELSE file[i].body
    BY <1>4, <2>1, BodyPut
  <2>3. ASSUME NEW i \in DOMAIN Files[d] PROVE SameBut(new[i], Files[d][i])
    <3>1. i \in DOMAIN file
      BY <1>1, <1>7, SamePackets DEF file
    <3>2. SameBut(file[i], Files[d][i])
      BY <1>1, <1>7 DEF OnlyFixesShow, Media, file
    <3>3. /\ \A j \in 1 .. 3 : file[i].head[j] = Files[d][i].head[j]
          /\ file[i].head[4] \div 16 = Files[d][i].head[4] \div 16
          /\ BodyKept(file[i].body, Files[d][i])
      BY <3>2, SameParts
    <3>4. new[i].head = file[i].head /\ new[i].body = IF i = k THEN body ELSE file[i].body
      BY <2>2, <3>1
    <3>5. i = k => Files[d][i] = old
      BY <2>1 DEF old
    <3>6. /\ \A j \in 1 .. 3 : new[i].head[j] = Files[d][i].head[j]
          /\ new[i].head[4] \div 16 = Files[d][i].head[4] \div 16
          /\ BodyKept(new[i].body, Files[d][i])
      <4>1. BodyKept(new[i].body, Files[d][i])
        BY <1>6, <3>3, <3>4, <3>5
      <4> QED BY <3>3, <3>4, <4>1
    <3> QED BY <3>6, SameParts
  <2> QED BY <2>2, <2>3 DEF file
<1>8. OnlyFixesShow'
  BY <1>1, <1>2, <1>7, OneShows
<1>9. ASSUME NEW r \in DOMAIN list, NEW i \in DOMAIN list[r]
      PROVE  Kept(list'[r][i], Files[r][i])
  <2>1. list'[r][i] = IF r = s /\ i = k THEN [list[s][k] EXCEPT !.payload = body] ELSE list[r][i]
    <3>1. list \in Seq(Seq(Segment))
      BY <1>1 DEF TypeInv, ListOk
    <3>2. s \in DOMAIN list /\ k \in DOMAIN list[s]
      BY <1>2
    <3>3. \A q \in DOMAIN list : \A n \in DOMAIN list[q] :
             list'[q][n] = IF q = s /\ n = k THEN [list[s][k] EXCEPT !.payload = body] ELSE list[q][n]
      BY <1>4, <1>5, <3>1, <3>2, PayloadSet, Zenon
    <3> QED BY <3>3, Zenon
  <2>2. CASE r = s /\ i = k
    <3>1. Kept([seg EXCEPT !.payload = body], old)
      BY <1>4, <1>6, FixPayload
    <3> QED BY <2>1, <2>2, <3>1 DEF seg, old
  <2>3. CASE ~ (r = s /\ i = k)
    BY <1>1, <2>1, <2>3 DEF MemoryKept
  <2> QED BY <2>2, <2>3
<1>10. DOMAIN list' = DOMAIN list /\ \A r \in DOMAIN list : DOMAIN list'[r] = DOMAIN list[r]
  <2>1. list \in Seq(Seq(Segment))
    BY <1>1 DEF TypeInv, ListOk
  <2> QED BY <1>2, <1>4, <1>5, <2>1, PayloadSet, Zenon
<1>11. MemoryKept'
  BY <1>9, <1>10 DEF MemoryKept
<1> QED BY <1>1, <1>8, <1>11 DEF KeepInv

\* Every step keeps what only fixes may change.
LEMMA KeepNext == Handled /\ KeepInv /\ [Next]_vars => KeepInv'
<1> SUFFICES ASSUME Handled, KeepInv, [Next]_vars PROVE KeepInv'
  OBVIOUS
<1>1. TypeInv /\ TypeInv'
  BY TypeNext DEF KeepInv
<1>2. CASE UNCHANGED <<files, list>>
  BY <1>1, <1>2 DEF KeepInv, OnlyFixesShow, MemoryKept
<1>3. CASE BeginUpdate \/ \E s \in DOMAIN list : \E path \in Paths : BeginCopy(s, path)
  BY <1>2, <1>3 DEF BeginUpdate, BeginCopy, Begin
<1>4. CASE Exit
  <2>1. files' = files /\ list' = <<>>
    BY <1>4 DEF Exit
  <2> QED BY <1>1, <2>1 DEF KeepInv, OnlyFixesShow, MemoryKept
<1>5. CASE Parse \/ FixingStep \/ WriteHeader \/ WritePayload
  BY <1>5, KeepParse, KeepFixing, KeepWriteHeader, KeepWritePayload
<1>6. CASE UNCHANGED vars
  BY <1>2, <1>6 DEF vars
<1>7. CASE ParseExits
  BY <1>2, <1>7 DEF ParseExits
<1> QED BY <1>1, <1>3, <1>4, <1>5, <1>6, <1>7, Steps

(* Of packets the code handles, only fixes show: whatever is fixed, in     *)
(* whatever order, and wherever an update is interrupted, every file of    *)
(* the playlist keeps its packets, and every packet all its bits but the   *)
(* counter, the random access flag of a key frame, the clock reference and *)
(* the PES length.                                                         *)
THEOREM FixesOnlyShow ==
    ASSUME WellFormedFiles, ZeroedMemory
    PROVE  Spec => []OnlyFixesShow
<1>1. Handled
  BY DEF Handled
<1>2. Init => KeepInv
  BY <1>1, KeepInit
<1>3. KeepInv /\ [Next]_vars => KeepInv'
  BY <1>1, KeepNext
<1>4. KeepInv => OnlyFixesShow
  BY DEF KeepInv
<1> QED BY <1>2, <1>3, <1>4, PTL DEF Spec

-----------------------------------------------------------------------------
(* Counters that run *)

\* The packets of FixedPid, one by one.
LEMMA FixedAre ==
    ASSUME NEW h, NEW p
    PROVE  p \in Fixed(h) <=> \E s \in DOMAIN h : \E k \in DOMAIN h[s] :
                                 p = <<s, k>> /\ h[s][k].pid = FixedPid
BY DEF Fixed

\* Headers of the same packets, whose counters may differ.
SamePids(g, h) == /\ DOMAIN g = DOMAIN h
                  /\ \A s \in DOMAIN h : /\ DOMAIN g[s] = DOMAIN h[s]
                                         /\ \A k \in DOMAIN h[s] : g[s][k].pid = h[s][k].pid

\* The places depend on the pids only.
LEMMA SameFixed ==
    ASSUME NEW g, NEW h, SamePids(g, h)
    PROVE  Fixed(g) = Fixed(h)
<1>1. ASSUME NEW p PROVE p \in Fixed(g) <=> p \in Fixed(h)
  BY FixedAre DEF SamePids
<1> QED BY <1>1

\* Where every counter is one of two runs, they run.
LEMMA Mixed ==
    ASSUME NEW f, NEW g, NEW h, SamePids(f, g), SamePids(f, h),
           Continuous(g), Continuous(h),
           \A s \in DOMAIN f : \A k \in DOMAIN f[s] :
              f[s][k].continuity_counter \in {g[s][k].continuity_counter, h[s][k].continuity_counter}
    PROVE  Continuous(f)
<1>1. Fixed(f) = Fixed(g) /\ Fixed(f) = Fixed(h)
  BY SameFixed
<1>2. ASSUME NEW p \in Fixed(f)
      PROVE  f[p[1]][p[2]].continuity_counter = Cardinality(Earlier(p, Fixed(f))) % 16
  <2>1. p[1] \in DOMAIN f /\ p[2] \in DOMAIN f[p[1]]
    BY FixedAre
  <2>2. /\ g[p[1]][p[2]].continuity_counter = Cardinality(Earlier(p, Fixed(f))) % 16
        /\ h[p[1]][p[2]].continuity_counter = Cardinality(Earlier(p, Fixed(f))) % 16
    BY <1>1 DEF Continuous
  <2> QED BY <2>1, <2>2
<1> QED BY <1>2 DEF Continuous

\* The headers of a playlist in memory.
HeadersOf(streams) == [s \in DOMAIN streams |-> [k \in DOMAIN streams[s] |-> streams[s][k].header]]

\* What comes before packet k of stream s.
EarlierThan(streams, s, k) == Earlier(<<s, k>>, Fixed(HeadersOf(streams)))

\* Packet by packet, one more is before.
LEMMA EarlierGrows ==
    ASSUME NEW streams \in Seq(Seq(Segment))
    PROVE  /\ EarlierThan(streams, 1, 1) = {}
           /\ \A s \in DOMAIN streams : \A k \in DOMAIN streams[s] :
                 EarlierThan(streams, s, k + 1) =
                    IF streams[s][k].header.pid = FixedPid
                    THEN EarlierThan(streams, s, k) \cup {<<s, k>>}
                    ELSE EarlierThan(streams, s, k)
           /\ \A s \in DOMAIN streams : \A k \in DOMAIN streams[s] :
                 <<s, k>> \notin EarlierThan(streams, s, k)
           /\ \A s \in DOMAIN streams :
                 EarlierThan(streams, s + 1, 1) = EarlierThan(streams, s, Len(streams[s]) + 1)
<1> DEFINE fixed == Fixed(HeadersOf(streams))
<1>1. /\ Len(streams) \in Nat /\ DOMAIN streams = 1 .. Len(streams)
      /\ \A s \in DOMAIN streams : Len(streams[s]) \in Nat /\ DOMAIN streams[s] = 1 .. Len(streams[s])
  <2>1. \A s \in DOMAIN streams : streams[s] \in Seq(Segment)
    OBVIOUS
  <2> QED BY <2>1
<1>2. \A p : p \in fixed <=> \E s \in DOMAIN streams : \E k \in DOMAIN streams[s] :
                               p = <<s, k>> /\ streams[s][k].header.pid = FixedPid
  <2> TAKE p
  <2> DEFINE h == HeadersOf(streams)
  <2>1. /\ DOMAIN h = DOMAIN streams
        /\ \A s \in DOMAIN streams : /\ DOMAIN h[s] = DOMAIN streams[s]
                                     /\ \A k \in DOMAIN streams[s] : h[s][k] = streams[s][k].header
    BY DEF HeadersOf
  <2> HIDE DEF h
  <2>2. p \in Fixed(h) <=> \E s \in DOMAIN h : \E k \in DOMAIN h[s] :
                              p = <<s, k>> /\ h[s][k].pid = FixedPid
    BY FixedAre
  <2>3. p \in Fixed(h) <=> \E s \in DOMAIN streams : \E k \in DOMAIN streams[s] :
                              p = <<s, k>> /\ streams[s][k].header.pid = FixedPid
    BY <2>1, <2>2
  <2> QED BY <2>3 DEF h
<1> HIDE DEF fixed
<1>3. \A p \in fixed : /\ p[1] \in 1 .. Len(streams) /\ p[2] \in 1 .. Len(streams[p[1]])
                       /\ p = <<p[1], p[2]>> /\ streams[p[1]][p[2]].header.pid = FixedPid
                       /\ p[1] \in Int /\ p[2] \in Int
  BY <1>1, <1>2
<1>4. \A s, k, q : q \in EarlierThan(streams, s, k) <=>
                      q \in fixed /\ (q[1] < s \/ (q[1] = s /\ q[2] < k))
  BY DEF EarlierThan, Earlier, fixed
<1>5. EarlierThan(streams, 1, 1) = {}
  <2>1. \A q \in fixed : ~ (q[1] < 1 \/ (q[1] = 1 /\ q[2] < 1))
    BY <1>3
  <2>2. \A q : q \notin EarlierThan(streams, 1, 1)
    BY <1>4, <2>1, Zenon
  <2> QED BY <2>2
<1>6. ASSUME NEW s \in DOMAIN streams, NEW k \in DOMAIN streams[s]
      PROVE  /\ EarlierThan(streams, s, k + 1) =
                   IF streams[s][k].header.pid = FixedPid
                   THEN EarlierThan(streams, s, k) \cup {<<s, k>>}
                   ELSE EarlierThan(streams, s, k)
             /\ <<s, k>> \notin EarlierThan(streams, s, k)
  <2>1. s \in Nat /\ k \in Nat
    BY <1>1
  <2>2. \A q \in fixed : q[2] < k + 1 <=> q[2] < k \/ q[2] = k
    BY <1>3, <2>1
  <2>3. <<s, k>> \in fixed <=> streams[s][k].header.pid = FixedPid
    BY <1>2
  <2>4. \A q \in fixed : q[1] = s /\ q[2] = k => q = <<s, k>>
    BY <1>3
  <2>5. <<s, k>> \notin EarlierThan(streams, s, k)
    <3>1. <<s, k>>[1] = s /\ <<s, k>>[2] = k /\ ~ (s < s) /\ ~ (k < k)
      BY <2>1
    <3> QED BY <1>4, <3>1, Zenon
  <2>6. ~ (s < s)
    BY <2>1
  <2>7. \A q : q \in EarlierThan(streams, s, k + 1) <=>
                 \/ q \in EarlierThan(streams, s, k)
                 \/ q = <<s, k>> /\ streams[s][k].header.pid = FixedPid
    <3> TAKE q
    <3>1. q = <<s, k>> => q[1] = s /\ q[2] = k
      OBVIOUS
    <3>2. /\ q \in EarlierThan(streams, s, k + 1) <=> q \in fixed /\ (q[1] < s \/ (q[1] = s /\ q[2] < k + 1))
          /\ q \in EarlierThan(streams, s, k) <=> q \in fixed /\ (q[1] < s \/ (q[1] = s /\ q[2] < k))
      BY <1>4, Zenon
    <3>3. q \in fixed => (q[2] < k + 1 <=> q[2] < k \/ q[2] = k)
      BY <2>2
    <3> QED BY <2>3, <2>4, <3>1, <3>2, <3>3, Zenon
  <2> QED BY <2>5, <2>7
<1>7. ASSUME NEW s \in DOMAIN streams
      PROVE  EarlierThan(streams, s + 1, 1) = EarlierThan(streams, s, Len(streams[s]) + 1)
  <2>1. s \in Nat /\ Len(streams[s]) \in Nat
    BY <1>1
  <2>2. \A q \in fixed : /\ q[1] < s + 1 <=> q[1] < s \/ q[1] = s
                         /\ ~ (q[2] < 1)
                         /\ q[1] = s => q[2] < Len(streams[s]) + 1
    BY <1>3, <2>1
  <2>3. \A q : q \in EarlierThan(streams, s + 1, 1) <=> q \in EarlierThan(streams, s, Len(streams[s]) + 1)
    BY <1>4, <2>2
  <2> QED BY <2>3
<1> QED BY <1>5, <1>6, <1>7

\* A set of known size, modulo the range of the counter.
Counts(c, S) == IsFiniteSet(S) /\ c \in Below(16) /\ c = Cardinality(S) % 16

\* One more packet, one more on the counter.
LEMMA CountsOn ==
    ASSUME NEW c, NEW S, Counts(c, S), NEW p, p \notin S
    PROVE  Counts((c + 1) % 16, S \cup {p})
<1>1. /\ IsFiniteSet(S \cup {p})
      /\ Cardinality(S \cup {p}) = Cardinality(S) + 1
  BY FS_AddElement DEF Counts
<1>2. Cardinality(S) \in Nat
  BY FS_CardinalityType DEF Counts
<1> DEFINE n == Cardinality(S)
<1>3. c = n % 16 /\ n \in Nat
  BY <1>2 DEF Counts
<1> HIDE DEF n
<1>4. (c + 1) % 16 = (n + 1) % 16 /\ (n + 1) % 16 \in Below(16)
  BY <1>3 DEF Below
<1> QED BY <1>1, <1>4 DEF Counts, n

\* update_cc counts the packets of the pid in a stream.
LEMMA StreamCounts ==
    ASSUME NEW streams \in Seq(Seq(Segment)), NEW s \in DOMAIN streams, NEW init_cc,
           Counts(init_cc, EarlierThan(streams, s, 1)),
           NEW n \in 0 .. Len(streams[s])
    PROVE  Counts(counted(streams[s], FixedPid, init_cc)[n], EarlierThan(streams, s, n + 1))
<1> DEFINE cc   == counted(streams[s], FixedPid, init_cc)
           N    == Len(streams[s])
           T    == {m \in 0 .. N : ~ Counts(cc[m], EarlierThan(streams, s, m + 1))}
<1>1. streams[s] \in Seq(Segment) /\ N \in Nat /\ DOMAIN streams[s] = 1 .. N
  OBVIOUS
<1>2. IsCount(cc, streams[s], FixedPid, init_cc)
  BY <1>1, Counted DEF Counts
<1> HIDE DEF cc
<1>3. SUFFICES ASSUME n \in T PROVE FALSE
  BY DEF T, cc
<1>4. PICK m \in T : \A y \in T : ~ (y < m)
  <2>1. T \subseteq Nat /\ T # {}
    <3>1. T \subseteq 0 .. N
      OBVIOUS
    <3>2. 0 .. N \subseteq Nat
      BY <1>1
    <3> HIDE DEF T, N
    <3> QED BY <1>3, <3>1, <3>2
  <2> HIDE DEF T
  <2> QED BY <2>1, LeastNatural
<1>5. m \in 0 .. N /\ m \in Nat
  BY <1>1, <1>4
<1>6. cc[m] = IF m = 0 THEN init_cc
              ELSE IF streams[s][m].header.pid = FixedPid THEN (cc[m - 1] + 1) % 16 ELSE cc[m - 1]
  BY <1>2, <1>5 DEF IsCount
<1>7. CASE m = 0
  <2>1. cc[m] = init_cc /\ m + 1 = 1
    BY <1>6, <1>7
  <2>2. Counts(cc[m], EarlierThan(streams, s, m + 1))
    BY <2>1
  <2> QED BY <1>4, <2>2
<1>8. CASE m # 0
  <2>1. m - 1 \in 0 .. N /\ m - 1 < m /\ (m - 1) + 1 = m /\ m \in DOMAIN streams[s]
    BY <1>1, <1>5, <1>8
  <2>2. m - 1 \notin T
    BY <1>4, <2>1
  <2>3. Counts(cc[m - 1], EarlierThan(streams, s, m))
    <3>1. Counts(cc[m - 1], EarlierThan(streams, s, (m - 1) + 1))
      BY <2>1, <2>2
    <3> QED BY <2>1, <3>1
  <2>4. /\ EarlierThan(streams, s, m + 1) =
              IF streams[s][m].header.pid = FixedPid
              THEN EarlierThan(streams, s, m) \cup {<<s, m>>}
              ELSE EarlierThan(streams, s, m)
        /\ <<s, m>> \notin EarlierThan(streams, s, m)
    BY <2>1, EarlierGrows
  <2>5. Counts(cc[m], EarlierThan(streams, s, m + 1))
    <3>1. CASE streams[s][m].header.pid = FixedPid
      <4>1. Counts((cc[m - 1] + 1) % 16, EarlierThan(streams, s, m) \cup {<<s, m>>})
        BY <2>3, <2>4, CountsOn
      <4> QED BY <1>6, <1>8, <2>4, <3>1, <4>1
    <3>2. CASE streams[s][m].header.pid # FixedPid
      BY <1>6, <1>8, <2>3, <2>4, <3>2
    <3> QED BY <3>1, <3>2
  <2> QED BY <1>4, <2>5
<1> QED BY <1>7, <1>8

\* hls_fix_discontinuity counts them in all streams.
LEMMA FirstCounts ==
    ASSUME NEW streams \in Seq(Seq(Segment)), NEW s \in DOMAIN streams
    PROVE  Counts(first_ccs(streams)[s], EarlierThan(streams, s, 1))
<1> DEFINE cc == first_ccs(streams)
           N  == Len(streams)
           T  == {m \in 1 .. N : ~ Counts(cc[m], EarlierThan(streams, m, 1))}
<1>1. /\ N \in Nat /\ DOMAIN streams = 1 .. N
      /\ \A m \in 1 .. N : streams[m] \in Seq(Segment) /\ Len(streams[m]) \in Nat
  <2>1. \A m \in DOMAIN streams : streams[m] \in Seq(Segment)
    OBVIOUS
  <2> QED BY <2>1
<1>2. IsFirstCcs(cc, streams)
  BY <1>1, FirstCounted
<1> HIDE DEF cc
<1>3. SUFFICES ASSUME s \in T PROVE FALSE
  BY <1>1 DEF T, cc
<1>4. PICK m \in T : \A y \in T : ~ (y < m)
  <2>1. T \subseteq Nat /\ T # {}
    BY <1>1, <1>3
  <2> HIDE DEF T
  <2> QED BY <2>1, LeastNatural
<1>5. m \in 1 .. N /\ m \in Nat
  BY <1>1, <1>4
<1>6. cc[m] = IF m = 1 THEN 0
              ELSE counted(streams[m - 1], FixedPid, cc[m - 1])[Len(streams[m - 1])]
  BY <1>2, <1>5 DEF IsFirstCcs, first_cc, next_cc
<1>7. CASE m = 1
  <2>1. EarlierThan(streams, m, 1) = {}
    BY <1>7, EarlierGrows
  <2>2. Counts(0, {})
    <3>1. IsFiniteSet({}) /\ Cardinality({}) = 0
      BY FS_EmptySet
    <3> QED BY <3>1 DEF Counts, Below
  <2> QED BY <1>4, <1>6, <1>7, <2>1, <2>2
<1>8. CASE m # 1
  <2> DEFINE r == m - 1
             L == Len(streams[r])
  <2>1. r \in 1 .. N /\ r < m /\ r + 1 = m /\ r \in DOMAIN streams
    BY <1>1, <1>5, <1>8
  <2>2. r \notin T
    BY <1>4, <2>1
  <2>3. Counts(cc[r], EarlierThan(streams, r, 1))
    BY <2>1, <2>2
  <2>4. L \in 0 .. L
    BY <1>1, <2>1
  <2>5. cc[m] = counted(streams[r], FixedPid, cc[r])[L]
    BY <1>6, <1>8
  <2> HIDE DEF r, L
  <2>6. Counts(counted(streams[r], FixedPid, cc[r])[L], EarlierThan(streams, r, L + 1))
    BY <2>1, <2>3, <2>4, StreamCounts DEF L
  <2>7. EarlierThan(streams, m, 1) = EarlierThan(streams, r, L + 1)
    BY <2>1, EarlierGrows DEF L
  <2>8. Counts(cc[m], EarlierThan(streams, m, 1))
    BY <2>5, <2>6, <2>7
  <2> QED BY <1>4, <2>8
<1> QED BY <1>7, <1>8

\* After hls_fix_discontinuity the counters of the playlist run.
LEMMA DiscontinuityRuns ==
    ASSUME NEW streams \in Seq(Seq(Segment)), NEW pids, pids # <<>>,
           NEW new, new = fix_discontinuity(streams, pids)
    PROVE  /\ SamePids(HeadersOf(new), HeadersOf(streams))
           /\ Continuous(HeadersOf(new))
<1> DEFINE cc   == first_ccs(streams)
           g    == HeadersOf(new)
           h    == HeadersOf(streams)
           at(s, k) == counted(streams[s], FixedPid, cc[s])[k - 1]
<1>1. new = [s \in DOMAIN streams |-> update_cc(streams[s], FixedPid, cc[s])]
  BY DEF fix_discontinuity
<1>2. /\ DOMAIN new = DOMAIN streams
      /\ \A s \in DOMAIN streams :
            /\ DOMAIN new[s] = DOMAIN streams[s]
            /\ \A k \in DOMAIN streams[s] :
                  new[s][k] = IF streams[s][k].header.pid = FixedPid
                              THEN [streams[s][k] EXCEPT !.header.continuity_counter = at(s, k)]
                              ELSE streams[s][k]
  BY <1>1 DEF update_cc
<1> HIDE DEF at, cc
<1>3. ASSUME NEW s \in DOMAIN streams, NEW k \in DOMAIN streams[s]
      PROVE  /\ new[s][k].header.pid = streams[s][k].header.pid
             /\ streams[s][k].header.pid = FixedPid =>
                   new[s][k].header.continuity_counter = at(s, k)
  <2>1. streams[s][k] \in Segment
    <3>1. streams[s] \in Seq(Segment)
      OBVIOUS
    <3> QED BY <3>1
  <2>2. streams[s][k].header \in Header
    BY <2>1 DEF Segment
  <2> DEFINE seg == [streams[s][k] EXCEPT !.header.continuity_counter = at(s, k)]
  <2>3. seg.header.pid = streams[s][k].header.pid /\ seg.header.continuity_counter = at(s, k)
    BY <2>1, <2>2 DEF Segment, Header
  <2>4. new[s][k] = IF streams[s][k].header.pid = FixedPid THEN seg ELSE streams[s][k]
    BY <1>2
  <2> HIDE DEF seg
  <2> QED BY <2>3, <2>4
<1>4. /\ DOMAIN g = DOMAIN streams /\ DOMAIN h = DOMAIN streams
      /\ \A s \in DOMAIN streams :
            /\ DOMAIN g[s] = DOMAIN streams[s] /\ DOMAIN h[s] = DOMAIN streams[s]
            /\ \A k \in DOMAIN streams[s] : /\ g[s][k] = new[s][k].header
                                            /\ h[s][k] = streams[s][k].header
  BY <1>2 DEF HeadersOf
<1> HIDE DEF g, h
<1>5. SamePids(g, h)
  <2>1. ASSUME NEW s \in DOMAIN h, NEW k \in DOMAIN h[s] PROVE g[s][k].pid = h[s][k].pid
    <3>1. s \in DOMAIN streams /\ k \in DOMAIN streams[s]
      BY <1>4, <2>1
    <3>2. new[s][k].header.pid = streams[s][k].header.pid
      BY <1>3, <3>1
    <3>3. g[s][k] = new[s][k].header /\ h[s][k] = streams[s][k].header
      BY <1>4, <3>1
    <3> QED BY <3>2, <3>3
  <2>2. DOMAIN g = DOMAIN h /\ \A s \in DOMAIN h : DOMAIN g[s] = DOMAIN h[s]
    BY <1>4
  <2> QED BY <2>1, <2>2 DEF SamePids
<1>6. Fixed(g) = Fixed(h)
  BY <1>5, SameFixed
<1>7. ASSUME NEW p \in Fixed(g)
      PROVE  g[p[1]][p[2]].continuity_counter = Cardinality(Earlier(p, Fixed(g))) % 16
  <2>0. PICK s \in DOMAIN h : \E k \in DOMAIN h[s] : p = <<s, k>> /\ h[s][k].pid = FixedPid
    BY <1>6, FixedAre
  <2>1. PICK k \in DOMAIN h[s] : p = <<s, k>> /\ h[s][k].pid = FixedPid
    BY <2>0
  <2>2. s \in DOMAIN streams /\ k \in DOMAIN streams[s] /\ streams[s][k].header.pid = FixedPid
    BY <1>4, <2>1
  <2>3. g[s][k].continuity_counter = at(s, k)
    BY <1>3, <1>4, <2>2
  <2>4. k \in Nat /\ k - 1 \in 0 .. Len(streams[s]) /\ (k - 1) + 1 = k
    <3>1. streams[s] \in Seq(Segment)
      BY <2>2
    <3> QED BY <2>2, <3>1
  <2>5. Counts(cc[s], EarlierThan(streams, s, 1))
    BY <2>2, FirstCounts DEF cc
  <2>6. Counts(at(s, k), EarlierThan(streams, s, (k - 1) + 1))
    BY <2>2, <2>4, <2>5, StreamCounts DEF at
  <2>7. EarlierThan(streams, s, (k - 1) + 1) = Earlier(p, Fixed(g))
    BY <1>6, <2>1, <2>4 DEF EarlierThan, h
  <2>8. p[1] = s /\ p[2] = k
    BY <2>1
  <2> QED BY <2>3, <2>6, <2>7, <2>8 DEF Counts
<1>8. Continuous(g)
  BY <1>7 DEF Continuous
<1> QED BY <1>5, <1>8 DEF g, h

-----------------------------------------------------------------------------
(* What the headers in the files and in memory have to do with each other *)

\* A header that is written and read again has its pid and its counter.
LEMMA HeaderReadsBack ==
    ASSUME NEW hd \in Header
    PROVE  /\ parse_header(write_header(hd)).pid = hd.pid
           /\ parse_header(write_header(hd)).continuity_counter = hd.continuity_counter
<1> DEFINE h == write_header(hd)
           top == 4 * hd.tei + 2 * hd.pusi + hd.prior
           high == hd.pid \div 256
<1>1. /\ hd.tei \in Nat /\ hd.pusi \in Nat /\ hd.prior \in Nat
      /\ hd.pid \in Nat /\ hd.pid < 8192
      /\ hd.tscramble_control \div 4 = 0 /\ hd.adaptation_field_ctrl \in Nat
      /\ hd.continuity_counter \in Nat /\ hd.continuity_counter < 16
  BY DEF Header, Below
<1>2. top \in Nat /\ high \in Nat /\ high < 32 /\ high % 32 = high
  BY <1>1
<1>3. h[2] = 32 * top + high
  <2>1. h[2] = 128 * hd.tei + 64 * hd.pusi + 32 * hd.prior + ((hd.pid \div 256) % 32)
    BY DEF write_header
  <2>2. 128 * hd.tei + 64 * hd.pusi + 32 * hd.prior = 32 * top
    BY <1>1
  <2> QED BY <1>1, <1>2, <2>1, <2>2
<1>4. h[3] = hd.pid % 256
  BY DEF write_header
<1>5. h[4] = 16 * hd.adaptation_field_ctrl + hd.continuity_counter
  <2>1. h[4] = 64 * (hd.tscramble_control \div 4) + 16 * hd.adaptation_field_ctrl
                 + (hd.continuity_counter % 16)
    BY DEF write_header
  <2>2. hd.continuity_counter % 16 = hd.continuity_counter
    BY <1>1
  <2> QED BY <1>1, <2>1, <2>2
<1> HIDE DEF h, top
<1>6. h[2] % 32 = high
  BY <1>2, <1>3
<1>7. 256 * high + (hd.pid % 256) = hd.pid
  <2>1. \A v \in Nat : 256 * (v \div 256) + (v % 256) = v
    OBVIOUS
  <2> QED BY <1>1, <2>1
<1>8. h[4] % 16 = hd.continuity_counter
  BY <1>1, <1>5
<1>9. /\ parse_header(h).pid = 256 * (h[2] % 32) + h[3]
      /\ parse_header(h).continuity_counter = h[4] % 16
  BY DEF parse_header
<1> QED BY <1>4, <1>6, <1>7, <1>8, <1>9 DEF h

\* The headers of the playlist's packets in some files.
HeadersIn(fs) == [s \in Media |-> [k \in DOMAIN fs[s] |-> parse_header(fs[s][k].head)]]

\* As the properties say it.
LEMMA HeadersAre ==
    ASSUME NEW fs \in Seq(Seq(Block)), Len(fs) = Len(Files) + Len(Outputs)
    PROVE  OnEvery(SubSeq(fs, 1, Len(Files)),
                   LAMBDA file : [k \in DOMAIN file |-> parse_header(file[k].head)])
              = HeadersIn(fs)
<1> DEFINE media == SubSeq(fs, 1, Len(Files))
<1>1. DOMAIN media = Media /\ \A s \in Media : media[s] = fs[s]
  BY PathsAre
<1> HIDE DEF media
<1>2. OnEvery(media, LAMBDA file : [k \in DOMAIN file |-> parse_header(file[k].head)])
        = [s \in DOMAIN media |-> [k \in DOMAIN media[s] |-> parse_header(media[s][k].head)]]
  BY DEF OnEvery
<1>3. [s \in DOMAIN media |-> [k \in DOMAIN media[s] |-> parse_header(media[s][k].head)]]
        = HeadersIn(fs)
  BY <1>1 DEF HeadersIn
<1> QED BY <1>2, <1>3 DEF media

\* A payload is never empty.
LEMMA PayloadThere == \A body \in Payload : body # <<>>
<1> SUFFICES ASSUME NEW body \in Payload PROVE body # <<>>
  OBVIOUS
<1>1. 0 \in DOMAIN body
  BY PayloadAssumption DEF Payload, Offsets
<1>2. 0 \notin DOMAIN <<>>
  OBVIOUS
<1> QED BY <1>1, <1>2

\* Where the packets of the playlist have the same heads, its headers are the same.
LEMMA HeadsStay ==
    ASSUME NEW fs, NEW gs,
           \A s \in Media : /\ DOMAIN gs[s] = DOMAIN fs[s]
                            /\ \A k \in DOMAIN fs[s] : gs[s][k].head = fs[s][k].head
    PROVE  HeadersIn(gs) = HeadersIn(fs)
BY DEF HeadersIn

\* The places a write() is about, in their order.
LEMMA WritesAre ==
    ASSUME NEW streams, NEW playlist, NEW w
    PROVE  w \in WritesOf(streams, playlist) <=>
              \E n \in DOMAIN streams : \E k \in DOMAIN playlist[streams[n]] :
                 \E part \in {HeaderPart, PayloadPart} : w = <<n, k, part>>
BY DEF WritesOf

\* write() calls are made one after the other.
LEMMA InOrder ==
    ASSUME NEW v \in Nat \X Nat \X Nat, NEW w \in Nat \X Nat \X Nat
    PROVE  /\ ~ Before(v, v)
           /\ ~ (Before(v, w) /\ Before(w, v))
           /\ v = w \/ Before(v, w) \/ Before(w, v)
<1>1. /\ v[1] \in Nat /\ v[2] \in Nat /\ v[3] \in Nat /\ v = <<v[1], v[2], v[3]>>
      /\ w[1] \in Nat /\ w[2] \in Nat /\ w[3] \in Nat /\ w = <<w[1], w[2], w[3]>>
  OBVIOUS
<1> QED BY <1>1 DEF Before

SameCounters(g, h) ==
    \A s \in DOMAIN h : \A k \in DOMAIN h[s] :
       g[s][k].continuity_counter = h[s][k].continuity_counter

\* The headers before a write() have the counters they are to get.
WrittenUpTo(g, h, w) ==
    \A s \in DOMAIN h : \A k \in DOMAIN h[s] :
       Before(<<s, k, HeaderPart>>, w) => g[s][k].continuity_counter = h[s][k].continuity_counter

(* The streams in memory are those of the files until one is freed.        *)
ShapeInv == freed = {} /\ list # <<>> => SamePids(HeadersIn(files), HeadersOf(list))

(* Until they are fixed the counters are those of the files, then they run. *)
UnfixedInv == freed = {} /\ list # <<>> /\ "cc" \notin edits
                 => SameCounters(HeadersIn(files), HeadersOf(list))

FixedInv == freed = {} /\ "cc" \in edits => Continuous(HeadersOf(list))

(* While the playlist is written back, nothing is freed, and what comes    *)
(* before the write() to be made is done.                                  *)
ProgressInv == call # Idle /\ job.path = OwnPath =>
                  /\ freed = {} /\ saved = {}
                  /\ job.streams = [s \in DOMAIN list |-> s]
                  /\ WrittenUpTo(HeadersIn(files), HeadersOf(list), call)

SavedInv == "cc" \in saved => Continuous(HeadersIn(files))

EndedInv == list = <<>> => edits = {} /\ freed = {} /\ call = Idle

CounterInv == /\ ShapeInv /\ UnfixedInv /\ FixedInv
              /\ ProgressInv /\ SavedInv /\ EndedInv

\* The same headers, whatever else changed in the segments.
LEMMA HeadersSame ==
    ASSUME NEW new, NEW old, DOMAIN new = DOMAIN old,
           \A s \in DOMAIN old :
              /\ DOMAIN new[s] = DOMAIN old[s]
              /\ \A k \in DOMAIN old[s] : new[s][k].header = old[s][k].header
    PROVE  HeadersOf(new) = HeadersOf(old)
BY DEF HeadersOf

\* A step that fixes anything but the counters.
QuietStep == /\ list # <<>> /\ list' # <<>>
             /\ DOMAIN list' = DOMAIN list
             /\ HeadersOf(list') = HeadersOf(list)
             /\ "cc" \in edits' <=> "cc" \in edits
             /\ UNCHANGED <<files, freed, job, call, saved>>

\* It disturbs nothing the counters depend on.
LEMMA QuietNext == CounterInv /\ QuietStep => CounterInv'
<1> SUFFICES ASSUME CounterInv, QuietStep PROVE CounterInv'
  OBVIOUS
<1>1. /\ files' = files /\ freed' = freed /\ job' = job /\ call' = call /\ saved' = saved
      /\ list # <<>> /\ list' # <<>> /\ DOMAIN list' = DOMAIN list
      /\ HeadersOf(list') = HeadersOf(list)
      /\ ("cc" \in edits' <=> "cc" \in edits)
  BY DEF QuietStep
<1>2. ShapeInv' /\ UnfixedInv' /\ FixedInv'
  BY <1>1 DEF CounterInv, ShapeInv, UnfixedInv, FixedInv
<1>3. ProgressInv'
  BY <1>1 DEF CounterInv, ProgressInv
<1>4. SavedInv' /\ EndedInv'
  BY <1>1 DEF CounterInv, SavedInv, EndedInv
<1> QED BY <1>2, <1>3, <1>4 DEF CounterInv

\* The fixes that leave headers alone.
LEMMA HeadersFixed ==
    ASSUME NEW stream \in Seq(Segment), NEW pid
    PROVE  \A new \in {fix_keyframe(stream, pid), update_pcr_by_pts(stream, pid), pes_reset_len(stream)} :
              /\ DOMAIN new = DOMAIN stream
              /\ \A k \in DOMAIN stream : new[k].header = stream[k].header
<1>1. \A k \in DOMAIN stream : stream[k] \in Segment
  OBVIOUS
<1>2. ASSUME NEW k \in DOMAIN stream
      PROVE  /\ fix_keyframe(stream, pid)[k].header = stream[k].header
             /\ update_pcr_by_pts(stream, pid)[k].header = stream[k].header
             /\ pes_reset_len(stream)[k].header = stream[k].header
  <2> DEFINE seg == stream[k]
  <2>1. seg \in Segment
    BY <1>1
  <2>2. /\ fix_keyframe(stream, pid)[k] =
              IF IsKeyFrame(seg, pid) THEN [seg EXCEPT !.adaptation_field.rand_acc = 1] ELSE seg
        /\ update_pcr_by_pts(stream, pid)[k] =
              IF HasBothTimes(seg)
              THEN [seg EXCEPT !.adaptation_field.pcr = [base |-> seg.pes_header[1].pts, ext |-> 0]]
              ELSE seg
        /\ pes_reset_len(stream)[k] =
              IF seg.pes_header = <<>> THEN seg
              ELSE [seg EXCEPT !.pes_header = << [@[1] EXCEPT !.len = 0] >>]
    BY DEF fix_keyframe, update_pcr_by_pts, pes_reset_len
  <2> HIDE DEF seg
  <2>3. /\ [seg EXCEPT !.adaptation_field.rand_acc = 1].header = seg.header
        /\ [seg EXCEPT !.adaptation_field.pcr = [base |-> seg.pes_header[1].pts, ext |-> 0]].header
              = seg.header
        /\ [seg EXCEPT !.pes_header = << [@[1] EXCEPT !.len = 0] >>].header = seg.header
    BY <2>1 DEF Segment
  <2> QED BY <2>2, <2>3 DEF seg
<1>3. /\ DOMAIN fix_keyframe(stream, pid) = DOMAIN stream
      /\ DOMAIN update_pcr_by_pts(stream, pid) = DOMAIN stream
      /\ DOMAIN pes_reset_len(stream) = DOMAIN stream
  BY DEF fix_keyframe, update_pcr_by_pts, pes_reset_len
<1> QED BY <1>2, <1>3

\* A playlist with something in it is one after a fix, too.
LEMMA NotEmptied ==
    ASSUME list \in Seq(Seq(Segment)), list # <<>>, DOMAIN list' = DOMAIN list
    PROVE  list' # <<>>
<1>1. Len(list) \in Nat /\ DOMAIN list = 1 .. Len(list) /\ Len(list) # 0
  OBVIOUS
<1>2. 1 \in DOMAIN list
  BY <1>1
<1> QED BY <1>2

\* The fixes other than hls_fix_discontinuity are such steps.
LEMMA FixesAreQuiet ==
    ASSUME TypeInv,
           \/ \E pid \in Pids : FixKeyFrame(pid) \/ UpdatePcr(pid)
           \/ \E s \in DOMAIN list : PesResetLen(s)
           \/ FixDiscontinuity(<<>>)
    PROVE  QuietStep
<1>0. list \in Seq(Seq(Segment)) /\ \A s \in DOMAIN list : list[s] \in Seq(Segment)
  BY DEF TypeInv, ListOk
<1>1. /\ list # <<>> /\ ("cc" \in edits' <=> "cc" \in edits)
      /\ UNCHANGED <<files, freed, job, call, saved>>
  BY DEF FixKeyFrame, UpdatePcr, PesResetLen, FixDiscontinuity, Loaded
<1>2. DOMAIN list' = DOMAIN list /\ HeadersOf(list') = HeadersOf(list)
  <2>1. ASSUME NEW pid \in Pids, FixKeyFrame(pid) \/ UpdatePcr(pid)
        PROVE  DOMAIN list' = DOMAIN list /\ HeadersOf(list') = HeadersOf(list)
    <3>1. /\ DOMAIN list' = DOMAIN list
          /\ \A s \in DOMAIN list :
                list'[s] = fix_keyframe(list[s], pid) \/ list'[s] = update_pcr_by_pts(list[s], pid)
      BY <2>1 DEF FixKeyFrame, UpdatePcr, OnEvery
    <3>2. \A s \in DOMAIN list : /\ DOMAIN list'[s] = DOMAIN list[s]
                                 /\ \A k \in DOMAIN list[s] : list'[s][k].header = list[s][k].header
      BY <1>0, <3>1, HeadersFixed
    <3> QED BY <3>1, <3>2, HeadersSame
  <2>2. ASSUME NEW s \in DOMAIN list, PesResetLen(s)
        PROVE  DOMAIN list' = DOMAIN list /\ HeadersOf(list') = HeadersOf(list)
    <3>1. /\ DOMAIN list' = DOMAIN list
          /\ \A r \in DOMAIN list : list'[r] = IF r = s THEN pes_reset_len(list[s]) ELSE list[r]
      BY <2>2 DEF PesResetLen
    <3>2. \A k \in DOMAIN list[s] : pes_reset_len(list[s])[k].header = list[s][k].header
      <4>1. pes_reset_len(list[s]) \in {fix_keyframe(list[s], FixedPid),
                                      update_pcr_by_pts(list[s], FixedPid), pes_reset_len(list[s])}
        OBVIOUS
      <4> QED BY <1>0, <4>1, HeadersFixed
    <3>3. DOMAIN pes_reset_len(list[s]) = DOMAIN list[s]
      BY DEF pes_reset_len
    <3>4. \A r \in DOMAIN list : /\ DOMAIN list'[r] = DOMAIN list[r]
                                 /\ \A k \in DOMAIN list[r] : list'[r][k].header = list[r][k].header
      BY <3>1, <3>2, <3>3
    <3> QED BY <3>1, <3>4, HeadersSame
  <2>3. FixDiscontinuity(<<>>) => list' = list
    BY DEF FixDiscontinuity, fix_discontinuity
  <2> QED BY <2>1, <2>2, <2>3
<1>3. list' # <<>>
  BY <1>0, <1>1, <1>2, NotEmptied
<1> QED BY <1>1, <1>2, <1>3 DEF QuietStep

\* hls_fix_discontinuity sets the counters, if it does anything.
LEMMA CounterDiscontinuity ==
    ASSUME TypeInv, CounterInv, NEW pids, FixDiscontinuity(pids)
    PROVE  CounterInv'
<1>1. CASE pids = <<>>
  BY <1>1, FixesAreQuiet, QuietNext
<1>2. CASE pids # <<>>
  <2>1. /\ list # <<>> /\ call = Idle
        /\ files' = files /\ freed' = freed /\ job' = job /\ call' = call /\ saved' = saved
        /\ "cc" \in edits'
        /\ list' = fix_discontinuity(list, pids)
    BY <1>2 DEF FixDiscontinuity, Loaded
  <2>2. list \in Seq(Seq(Segment))
    BY DEF TypeInv, ListOk
  <2>3. SamePids(HeadersOf(list'), HeadersOf(list)) /\ Continuous(HeadersOf(list'))
    BY <1>2, <2>1, <2>2, DiscontinuityRuns
  <2>4. DOMAIN list' = DOMAIN list
    BY <2>3 DEF SamePids, HeadersOf
  <2>5. list' # <<>>
    BY <2>1, <2>2, <2>4, NotEmptied
  <2>6. ShapeInv'
    BY <2>1, <2>3 DEF CounterInv, ShapeInv, SamePids
  <2>7. UnfixedInv' /\ FixedInv'
    BY <2>1, <2>3 DEF UnfixedInv, FixedInv
  <2>8. ProgressInv' /\ SavedInv' /\ EndedInv'
    BY <2>1, <2>5 DEF CounterInv, ProgressInv, SavedInv, EndedInv
  <2> QED BY <2>6, <2>7, <2>8 DEF CounterInv
<1> QED BY <1>1, <1>2

\* A stream that is freed has no headers to speak of.
LEMMA CounterFree ==
    ASSUME TypeInv, CounterInv, NEW s \in DOMAIN list, FreeStream(s)
    PROVE  CounterInv'
<1>1. /\ list # <<>> /\ call = Idle /\ freed' # {}
      /\ files' = files /\ call' = call /\ saved' = saved
      /\ list' = [list EXCEPT ![s] = <<>>]
  BY DEF FreeStream, Loaded
<1>2. DOMAIN list' = DOMAIN list
  BY <1>1
<1>3. list' # <<>>
  BY <1>1, <1>2, NotEmptied DEF TypeInv, ListOk
<1>4. ShapeInv' /\ UnfixedInv' /\ FixedInv'
  BY <1>1 DEF ShapeInv, UnfixedInv, FixedInv
<1>5. ProgressInv' /\ SavedInv' /\ EndedInv'
  BY <1>1, <1>3 DEF CounterInv, ProgressInv, SavedInv, EndedInv
<1> QED BY <1>4, <1>5 DEF CounterInv

\* What hls_parse loads has the headers of the files.
LEMMA CounterParse == TypeInv /\ CounterInv /\ Parse => CounterInv'
<1> SUFFICES ASSUME TypeInv, CounterInv, Parse PROVE CounterInv'
  OBVIOUS
<1>1. PICK mem \in Leftovers :
         list' = OnEvery(MediaFiles, LAMBDA file : read_segment(file, mem))
  BY DEF Parse
<1>2. DOMAIN MediaFiles = Media /\ \A s \in Media : MediaFiles[s] = files[s]
  <2>1. files \in Seq(Seq(Block)) /\ Len(files) = Len(Files) + Len(Outputs)
    BY DEF TypeInv, FilesOk
  <2> QED BY <2>1, PathsAre DEF MediaFiles
<1>3. list' = [s \in Media |-> read_segment(files[s], mem)]
  <2>1. list' = [s \in DOMAIN MediaFiles |-> read_segment(MediaFiles[s], mem)]
    BY <1>1 DEF OnEvery
  <2> QED BY <1>2, <2>1
<1>4. /\ files' = files /\ freed' = freed /\ job' = job /\ call' = call /\ saved' = saved
      /\ edits' = edits /\ list = <<>>
  BY DEF Parse
<1>5. edits = {} /\ freed = {} /\ call = Idle
  BY <1>4 DEF CounterInv, EndedInv
<1>6. ASSUME NEW s \in Media
      PROVE  /\ DOMAIN list'[s] = DOMAIN files[s]
             /\ \A k \in DOMAIN list'[s] : list'[s][k].header = parse_header(files[s][k].head)
  <2>1. list'[s] = [k \in DOMAIN files[s] |-> parse_ts_segment(files[s][k], mem)]
    BY <1>3 DEF read_segment
  <2>2. \A packet : parse_ts_segment(packet, mem).header = parse_header(packet.head)
    BY DEF parse_ts_segment
  <2> QED BY <2>1, <2>2
<1>7. HeadersOf(list') = HeadersIn(files)
  <2>1. HeadersOf(list') = [s \in Media |-> [k \in DOMAIN list'[s] |-> list'[s][k].header]]
    BY <1>3 DEF HeadersOf
  <2>2. \A s \in Media : [k \in DOMAIN list'[s] |-> list'[s][k].header]
                            = [k \in DOMAIN files[s] |-> parse_header(files[s][k].head)]
    BY <1>6
  <2> QED BY <2>1, <2>2 DEF HeadersIn
<1>8. ShapeInv' /\ UnfixedInv'
  BY <1>4, <1>7 DEF ShapeInv, UnfixedInv, SamePids, SameCounters
<1>9. FixedInv' /\ ProgressInv'
  BY <1>4, <1>5 DEF FixedInv, ProgressInv
<1>10. SavedInv' /\ EndedInv'
  BY <1>4, <1>5 DEF CounterInv, SavedInv, EndedInv
<1> QED BY <1>8, <1>9, <1>10 DEF CounterInv

\* The write() of a header is one of those of its streams.
LEMMA HeaderWrite ==
    ASSUME ListOk, NEW s \in DOMAIN list, NEW k \in DOMAIN list[s]
    PROVE  /\ <<s, k, HeaderPart>> \in WritesOf([n \in DOMAIN list |-> n], list)
           /\ <<s, k, HeaderPart>> \in Nat \X Nat \X Nat
<1>1. s \in Nat /\ k \in Nat
  <2>1. list \in Seq(Seq(Segment)) /\ list[s] \in Seq(Segment)
    BY DEF ListOk
  <2> QED BY <2>1
<1> QED BY <1>1, WritesAre DEF HeaderPart

\* The write() calls of some streams are in the order.
LEMMA WritesInOrder ==
    ASSUME ListOk, NEW streams, DOMAIN streams \subseteq Nat,
           \A n \in DOMAIN streams : streams[n] \in DOMAIN list
    PROVE  WritesOf(streams, list) \subseteq Nat \X Nat \X Nat
<1> SUFFICES ASSUME NEW w \in WritesOf(streams, list)
             PROVE  w \in Nat \X Nat \X Nat
  OBVIOUS
<1>1. PICK n \in DOMAIN streams : \E k \in DOMAIN list[streams[n]] :
         \E part \in {HeaderPart, PayloadPart} : w = <<n, k, part>>
  BY WritesAre
<1>2. PICK k \in DOMAIN list[streams[n]] :
         \E part \in {HeaderPart, PayloadPart} : w = <<n, k, part>>
  BY <1>1
<1>3. n \in Nat /\ k \in Nat
  <2>1. list \in Seq(Seq(Segment)) /\ streams[n] \in DOMAIN list
    BY DEF ListOk
  <2>2. list[streams[n]] \in Seq(Segment)
    BY <2>1
  <2> QED BY <2>2
<1> QED BY <1>2, <1>3 DEF HeaderPart, PayloadPart

\* One write() further, nothing that was passed is left out.
LEMMA Onward ==
    ASSUME TypeInv, DOMAIN job.streams \subseteq Nat, call # Idle,
           NEW w \in WritesOf(job.streams, list)
    PROVE  /\ w = call \/ Before(w, call) \/ w \in Rest
           /\ \A next \in Rest : IsFirst(next, Rest) /\ Before(w, next)
                                    => w = call \/ Before(w, call)
<1> DEFINE all == WritesOf(job.streams, list)
<1>1. all \subseteq Nat \X Nat \X Nat
  BY WritesInOrder DEF TypeInv, JobOk
<1>2. call \in all /\ w \in all
  BY DEF TypeInv, JobOk
<1>3. Rest = {v \in all : Before(call, v)}
  BY DEF Rest, Writes, WritesOf
<1> HIDE DEF all
<1>4. w = call \/ Before(w, call) \/ w \in Rest
  BY <1>1, <1>2, <1>3, InOrder
<1>5. ASSUME NEW next \in Rest, IsFirst(next, Rest), Before(w, next)
      PROVE  w \notin Rest
  <2>1. next \in Nat \X Nat \X Nat
    BY <1>1, <1>3
  <2>2. w \in Rest => next = w \/ Before(next, w)
    BY <1>5 DEF IsFirst
  <2> QED BY <1>1, <1>2, <1>5, <2>1, <2>2, InOrder
<1> QED BY <1>4, <1>5

\* So are those for the playlist's own streams.
LEMMA WritesOrdered ==
    ASSUME ListOk
    PROVE  WritesOf([n \in DOMAIN list |-> n], list) \subseteq Nat \X Nat \X Nat
<1> DEFINE streams == [n \in DOMAIN list |-> n]
<1>1. DOMAIN list \subseteq Nat
  <2>1. list \in Seq(Seq(Segment))
    BY DEF ListOk
  <2> QED BY <2>1
<1>2. DOMAIN streams \subseteq Nat /\ \A n \in DOMAIN streams : streams[n] \in DOMAIN list
  BY <1>1
<1> HIDE DEF streams
<1>3. WritesOf(streams, list) \subseteq Nat \X Nat \X Nat
  BY <1>2, WritesInOrder
<1> QED BY <1>3 DEF streams

\* An update begins with nothing written, and a copy writes elsewhere.
LEMMA CounterBegins ==
    ASSUME TypeInv, CounterInv,
           \/ BeginUpdate
           \/ \E s \in DOMAIN list : \E path \in Paths : BeginCopy(s, path)
    PROVE  CounterInv'
<1>1. /\ list # <<>> /\ list' = list /\ files' = files /\ freed' = freed /\ edits' = edits
  BY DEF BeginUpdate, BeginCopy, Begin, Loaded
<1>2. ShapeInv' /\ UnfixedInv' /\ FixedInv' /\ EndedInv'
  BY <1>1 DEF CounterInv, ShapeInv, UnfixedInv, FixedInv, EndedInv
<1>3. CASE BeginUpdate
  <2> DEFINE streams == [s \in DOMAIN list |-> s]
             h == HeadersOf(list)
  <2>1. /\ job' = [streams |-> streams, path |-> OwnPath] /\ saved' = {} /\ freed = {}
        /\ \E first \in Writes(streams) : IsFirst(first, Writes(streams)) /\ call' = first
    BY <1>3 DEF BeginUpdate, Begin
  <2>2. Writes(streams) = WritesOf(streams, list)
    BY DEF Writes, WritesOf
  <2>3. ListOk
    BY DEF TypeInv
  <2>4. ASSUME NEW s \in DOMAIN h, NEW k \in DOMAIN h[s], Before(<<s, k, HeaderPart>>, call')
        PROVE  FALSE
    <3>1. s \in DOMAIN list /\ k \in DOMAIN list[s]
      BY <2>4 DEF HeadersOf
    <3>2. <<s, k, HeaderPart>> \in Writes(streams) /\ <<s, k, HeaderPart>> \in Nat \X Nat \X Nat
      BY <2>2, <2>3, <3>1, HeaderWrite
    <3>3. call' \in Writes(streams)
      BY <2>1
    <3>4. call' \in Nat \X Nat \X Nat
      BY <2>2, <2>3, <3>3, WritesOrdered
    <3>5. <<s, k, HeaderPart>> = call' \/ Before(call', <<s, k, HeaderPart>>)
      BY <2>1, <3>2 DEF IsFirst
    <3> QED BY <2>4, <3>2, <3>4, <3>5, InOrder
  <2>5. WrittenUpTo(HeadersIn(files), h, call')
    BY <2>4 DEF WrittenUpTo
  <2> HIDE DEF streams
  <2>6. job'.streams = streams /\ job'.path = OwnPath
    BY <2>1
  <2>7. ProgressInv'
    BY <1>1, <2>1, <2>5, <2>6 DEF ProgressInv, streams
  <2>8. SavedInv'
    BY <2>1 DEF SavedInv
  <2> QED BY <1>2, <2>7, <2>8 DEF CounterInv
<1>4. ASSUME NEW s \in DOMAIN list, NEW path \in Paths, BeginCopy(s, path)
      PROVE  CounterInv'
  <2>1. job'.path = path /\ saved' = saved
    BY <1>4 DEF BeginCopy, Begin
  <2>2. ProgressInv'
    BY <2>1, PathsAre DEF ProgressInv
  <2>3. SavedInv'
    BY <1>1, <2>1 DEF CounterInv, SavedInv
  <2> QED BY <1>2, <2>2, <2>3 DEF CounterInv
<1> QED BY <1>3, <1>4

\* The same for the headers of an update.
LEMMA Advance ==
    ASSUME TypeInv, job.streams = [n \in DOMAIN list |-> n], call # Idle,
           NEW s \in DOMAIN list, NEW k \in DOMAIN list[s]
    PROVE  LET w == <<s, k, HeaderPart>>
           IN  /\ w = call \/ Before(w, call) \/ w \in Rest
               /\ \A next \in Rest : IsFirst(next, Rest) /\ Before(w, next)
                                        => w = call \/ Before(w, call)
<1> DEFINE w == <<s, k, HeaderPart>>
<1>1. ListOk
  BY DEF TypeInv
<1>2. w \in WritesOf(job.streams, list)
  BY <1>1, HeaderWrite
<1>3. DOMAIN job.streams \subseteq Nat
  <2>1. list \in Seq(Seq(Segment)) /\ DOMAIN job.streams = DOMAIN list
    BY <1>1 DEF ListOk
  <2> QED BY <2>1
<1> HIDE DEF w
<1>4. /\ w = call \/ Before(w, call) \/ w \in Rest
      /\ \A next \in Rest : IsFirst(next, Rest) /\ Before(w, next) => w = call \/ Before(w, call)
  BY <1>2, <1>3, Onward
<1> QED BY <1>4 DEF w

\* What write() of a header does to the headers in the files.
HeaderGoesTo(g, f, h, s, k) ==
    /\ SamePids(g, f)
    /\ \A r \in DOMAIN f : \A i \in DOMAIN f[r] :
          g[r][i].continuity_counter = IF r = s /\ i = k THEN h[s][k].continuity_counter
                                                          ELSE f[r][i].continuity_counter

\* Of an update it is the header in memory.
LEMMA OwnHeader ==
    ASSUME TypeInv, CounterInv, WriteHeader, job.path = OwnPath
    PROVE  /\ call[1] \in DOMAIN list /\ call[2] \in DOMAIN list[call[1]]
           /\ SamePids(HeadersIn(files), HeadersOf(list))
           /\ HeaderGoesTo(HeadersIn(files'), HeadersIn(files), HeadersOf(list), call[1], call[2])
<1> DEFINE s == call[1]
           k == call[2]
           hd == list[s][k].header
           h == write_header(hd)
           file == files[s]
           new == WithHead(file, k, h)
<1>1. /\ call # Idle /\ freed = {}
      /\ job.streams = [n \in DOMAIN list |-> n]
  BY DEF WriteHeader, CounterInv, ProgressInv
<1>2. /\ call[1] \in DOMAIN job.streams
      /\ job.streams[call[1]] \in DOMAIN list
      /\ call[2] \in DOMAIN list[job.streams[call[1]]]
      /\ list[job.streams[call[1]]][call[2]] \in Segment
      /\ call[2] \in DOMAIN files[job.streams[call[1]]]
  BY <1>1, CallIs
<1>3. job.streams[call[1]] = s /\ Dest(s) = s
  BY <1>1, <1>2 DEF Dest
<1>4. /\ s \in DOMAIN list /\ k \in DOMAIN list[s] /\ list[s][k] \in Segment
      /\ k \in DOMAIN files[s] /\ s \in Media /\ s \in DOMAIN files
  <2>1. DOMAIN list \subseteq Media /\ Media \subseteq DOMAIN files
    BY StreamsAreMedia DEF TypeInv
  <2> QED BY <1>2, <1>3, <2>1
<1>5. files' = [files EXCEPT ![s] = new]
  BY <1>3 DEF WriteHeader
<1>6. file \in Seq(Block) /\ k \in Nat /\ hd \in Header /\ h \in [1 .. 4 -> Byte]
  <2>1. file \in Seq(Block)
    BY <1>4 DEF TypeInv, FilesOk
  <2>2. k \in Nat
    BY <1>4, <2>1
  <2>3. hd \in Header
    BY <1>4 DEF Segment
  <2> QED BY <2>1, <2>2, <2>3, HeaderWritten
<1>7. /\ parse_header(h).pid = hd.pid
      /\ parse_header(h).continuity_counter = hd.continuity_counter
  BY <1>6, HeaderReadsBack
<1>9. SamePids(HeadersIn(files), HeadersOf(list))
  BY <1>1, <1>4 DEF CounterInv, ShapeInv
<1>10. DOMAIN file = DOMAIN list[s] /\ parse_header(file[k].head).pid = hd.pid
  <2>1. DOMAIN HeadersIn(files)[s] = DOMAIN file
    BY <1>4 DEF HeadersIn
  <2>2. DOMAIN HeadersOf(list)[s] = DOMAIN list[s] /\ HeadersOf(list)[s][k] = hd
    BY <1>4 DEF HeadersOf
  <2>3. DOMAIN file = DOMAIN list[s]
    BY <1>4, <1>9, <2>1, <2>2 DEF SamePids, HeadersOf
  <2>4. HeadersIn(files)[s][k] = parse_header(file[k].head)
    BY <1>4, <2>3 DEF HeadersIn
  <2> QED BY <1>4, <1>9, <2>2, <2>3, <2>4 DEF SamePids, HeadersOf
<1>11. /\ DOMAIN new = DOMAIN file
       /\ \A i \in DOMAIN file : /\ new[i].body = file[i].body
                                 /\ new[i].head = IF i = k THEN h ELSE file[i].head
  <2>1. k \in DOMAIN file
    BY <1>4
  <2> HIDE DEF hd, h, file, k
  <2> QED BY <1>6, <2>1, HeadPut
<1>12. new \in Seq(Block)
  BY <1>6, HeadPut
<1>13. \A r \in Media : files'[r] = IF r = s THEN new ELSE files[r]
  <2>1. Media \subseteq DOMAIN files
    BY StreamsAreMedia DEF TypeInv
  <2> QED BY <1>5, <2>1
<1>14. HeadersOf(list)[s][k].continuity_counter = hd.continuity_counter
  BY <1>4 DEF HeadersOf
<1> HIDE DEF hd, h, file, new
<1>18. ASSUME NEW r \in Media
       PROVE  /\ DOMAIN files'[r] = DOMAIN files[r]
              /\ \A i \in DOMAIN files[r] :
                    parse_header(files'[r][i].head).pid = parse_header(files[r][i].head).pid
              /\ \A i \in DOMAIN files[r] :
                    parse_header(files'[r][i].head).continuity_counter =
                       IF r = s /\ i = k THEN hd.continuity_counter
                       ELSE parse_header(files[r][i].head).continuity_counter
  <2>1. CASE r # s
    BY <1>13, <2>1
  <2>2. CASE r = s
    <3>1. files'[r] = new /\ files[r] = file
      BY <1>13, <2>2 DEF file
    <3>2. ASSUME NEW i \in DOMAIN file
          PROVE  /\ parse_header(new[i].head).pid = parse_header(file[i].head).pid
                 /\ parse_header(new[i].head).continuity_counter =
                       IF i = k THEN hd.continuity_counter
                       ELSE parse_header(file[i].head).continuity_counter
      <4>1. new[i].head = IF i = k THEN h ELSE file[i].head
        BY <1>11
      <4> QED BY <1>7, <1>10, <4>1
    <3> QED BY <1>11, <2>2, <3>1, <3>2
  <2> QED BY <2>1, <2>2
<1>19. SamePids(HeadersIn(files'), HeadersIn(files))
  BY <1>18 DEF SamePids, HeadersIn
<1>20. \A r \in DOMAIN HeadersIn(files) : \A i \in DOMAIN HeadersIn(files)[r] :
          HeadersIn(files')[r][i].continuity_counter =
             IF r = s /\ i = k THEN HeadersOf(list)[s][k].continuity_counter
             ELSE HeadersIn(files)[r][i].continuity_counter
  BY <1>14, <1>18 DEF HeadersIn
<1> QED BY <1>4, <1>9, <1>19, <1>20 DEF HeaderGoesTo

\* write() of a header of another file leaves those of the playlist alone.
LEMMA OtherHeader ==
    ASSUME TypeInv, WriteHeader, job.path # OwnPath
    PROVE  HeadersIn(files') = HeadersIn(files)
<1> DEFINE d == Dest(job.streams[call[1]])
<1>1. d \in Paths
  BY DEF Dest, TypeInv, JobOk
<1>2. PICK new : files' = [files EXCEPT ![d] = new]
  BY DEF WriteHeader
<1>3. \A s \in Media : files'[s] = files[s]
  <2>1. d \notin Media
    BY <1>1, PathsAre
  <2> HIDE DEF d
  <2>2. Media \subseteq DOMAIN files
    BY StreamsAreMedia DEF TypeInv
  <2> QED BY <1>2, <2>1, <2>2
<1> QED BY <1>3 DEF HeadersIn

\* write() of a payload changes no header, in memory or in a file.
LEMMA PayloadQuiet ==
    ASSUME TypeInv, WritePayload
    PROVE  /\ DOMAIN list' = DOMAIN list
           /\ HeadersOf(list') = HeadersOf(list)
           /\ HeadersIn(files') = HeadersIn(files)
<1>1. PICK s, k, d, new :
         /\ s \in DOMAIN list /\ k \in DOMAIN list[s] /\ d \in DOMAIN files
         /\ d \in Media => d = s
         /\ list[s][k] \in Segment
         /\ written_payload(list[s][k]) \in Payload
         /\ list' = [list EXCEPT ![s][k].payload = written_payload(list[s][k])]
         /\ new = WithBody(files[d], k, written_payload(list[s][k]))
         /\ files' = [files EXCEPT ![d] = new]
         /\ files[d] \in Seq(Block)
         /\ d \in Media => k \in DOMAIN files[d] /\ files[d] \in Seq(Packet)
  BY PayloadStep, Zenon
<1> DEFINE body == written_payload(list[s][k])
           put  == [list[s][k] EXCEPT !.payload = body]
<1>2. /\ DOMAIN list' = DOMAIN list
      /\ \A r \in DOMAIN list : DOMAIN list'[r] = DOMAIN list[r]
      /\ \A r \in DOMAIN list : \A i \in DOMAIN list[r] :
            list'[r][i] = IF r = s /\ i = k THEN put ELSE list[r][i]
  <2>1. list \in Seq(Seq(Segment))
    BY DEF TypeInv, ListOk
  <2> QED BY <1>1, <2>1, PayloadSet, Zenon
<1>3. put.header = list[s][k].header
  BY <1>1 DEF Segment
<1> HIDE DEF put
<1>4. HeadersOf(list') = HeadersOf(list)
  <2>1. \A r \in DOMAIN list : \A i \in DOMAIN list[r] : list'[r][i].header = list[r][i].header
    BY <1>2, <1>3
  <2> QED BY <1>2, <2>1, HeadersSame
<1> DEFINE file == files[d]
<1>5. body \in Payload /\ new = WithBody(file, k, body) /\ file \in Seq(Block)
  BY <1>1
<1>7. files' = [files EXCEPT ![d] = new] /\ d \in DOMAIN files
  BY <1>1
<1> HIDE DEF body
<1>8. /\ DOMAIN new = DOMAIN file
      /\ \A i \in DOMAIN file : new[i].head = file[i].head
  <2> HIDE DEF file
  <2> QED BY <1>5, BodyPut
<1>9. ASSUME NEW r \in Media
      PROVE  /\ DOMAIN files'[r] = DOMAIN files[r]
             /\ \A i \in DOMAIN files[r] : files'[r][i].head = files[r][i].head
  <2>1. r \in DOMAIN files
    BY StreamsAreMedia DEF TypeInv
  <2>2. CASE r = d
    <3>1. files'[r] = new /\ files[r] = file
      BY <1>7, <2>2
    <3> HIDE DEF file
    <3> QED BY <1>8, <3>1
  <2>3. CASE r # d
    <3>1. files'[r] = files[r]
      BY <1>7, <2>1, <2>3
    <3> QED BY <2>1, <3>1
  <2> QED BY <2>2, <2>3
<1>10. HeadersIn(files') = HeadersIn(files)
  BY <1>9, HeadsStay
<1> QED BY <1>2, <1>4, <1>10

\* What was written stays written when the next write() is due.
LEMMA CounterWriteHeader == TypeInv /\ CounterInv /\ WriteHeader => CounterInv'
<1> SUFFICES ASSUME TypeInv, CounterInv, WriteHeader PROVE CounterInv'
  OBVIOUS
<1>1. /\ list' = list /\ freed' = freed /\ job' = job /\ edits' = edits /\ saved' = saved
      /\ call # Idle
      /\ \E next \in Rest : IsFirst(next, Rest) /\ call' = next
  BY DEF WriteHeader
<1>2. list # <<>>
  BY <1>1 DEF CounterInv, EndedInv
<1>3. FixedInv' /\ EndedInv'
  BY <1>1, <1>2 DEF CounterInv, FixedInv, EndedInv
<1>4. CASE job.path # OwnPath
  <2>1. HeadersIn(files') = HeadersIn(files)
    BY <1>4, OtherHeader
  <2>2. ShapeInv' /\ UnfixedInv' /\ SavedInv'
    BY <1>1, <2>1 DEF CounterInv, ShapeInv, UnfixedInv, SavedInv
  <2>3. ProgressInv'
    BY <1>1, <1>4 DEF ProgressInv
  <2> QED BY <1>3, <2>2, <2>3 DEF CounterInv
<1>5. CASE job.path = OwnPath
  <2> DEFINE s == call[1]
             k == call[2]
             f == HeadersIn(files)
             g == HeadersIn(files')
             h == HeadersOf(list)
  <2>1. /\ s \in DOMAIN list /\ k \in DOMAIN list[s]
        /\ SamePids(f, h) /\ HeaderGoesTo(g, f, h, s, k)
    BY <1>5, OwnHeader
  <2>2. /\ freed = {} /\ saved = {} /\ job.streams = [n \in DOMAIN list |-> n]
        /\ WrittenUpTo(f, h, call)
    BY <1>1, <1>5 DEF CounterInv, ProgressInv
  <2>3. DOMAIN h = DOMAIN list /\ \A r \in DOMAIN list : DOMAIN h[r] = DOMAIN list[r]
    BY DEF HeadersOf
  <2>4. ASSUME NEW r \in DOMAIN h, NEW i \in DOMAIN h[r], Before(<<r, i, HeaderPart>>, call')
        PROVE  <<r, i, HeaderPart>> = call \/ Before(<<r, i, HeaderPart>>, call)
    BY <1>1, <2>2, <2>3, <2>4, Advance
  <2>5. \A r \in DOMAIN h : \A i \in DOMAIN h[r] : <<r, i, HeaderPart>> = call => r = s /\ i = k
    OBVIOUS
  <2>6. UnfixedInv => ("cc" \notin edits => SameCounters(f, h))
    BY <1>2, <2>2 DEF UnfixedInv
  <2> HIDE DEF f, g, h, s, k
  <2>7. SamePids(g, h)
    BY <2>1 DEF SamePids, HeaderGoesTo
  <2>8. WrittenUpTo(g, h, call')
    <3>1. ASSUME NEW r \in DOMAIN h, NEW i \in DOMAIN h[r], Before(<<r, i, HeaderPart>>, call')
          PROVE  g[r][i].continuity_counter = h[r][i].continuity_counter
      <4>1. r \in DOMAIN f /\ i \in DOMAIN f[r]
        BY <2>1, <3>1 DEF SamePids
      <4>2. (r = s /\ i = k) \/ f[r][i].continuity_counter = h[r][i].continuity_counter
        BY <2>2, <2>4, <2>5, <3>1 DEF WrittenUpTo
      <4> QED BY <2>1, <4>1, <4>2 DEF HeaderGoesTo
    <3> QED BY <3>1 DEF WrittenUpTo
  <2>9. "cc" \notin edits => SameCounters(g, h)
    <3> SUFFICES ASSUME "cc" \notin edits PROVE SameCounters(g, h)
      OBVIOUS
    <3>1. SameCounters(f, h)
      BY <2>6 DEF CounterInv
    <3> QED BY <2>1, <3>1 DEF SameCounters, SamePids, HeaderGoesTo
  <2>10. ShapeInv' /\ UnfixedInv'
    BY <1>1, <2>7, <2>9 DEF ShapeInv, UnfixedInv, g, h
  <2>11. ProgressInv' /\ SavedInv'
    BY <1>1, <2>2, <2>8 DEF ProgressInv, SavedInv, g, h
  <2> QED BY <1>3, <2>10, <2>11 DEF CounterInv
<1> QED BY <1>4, <1>5

\* When the last write() is done, every header is the one in memory.
LEMMA CounterWritePayload == TypeInv /\ CounterInv /\ WritePayload => CounterInv'
<1> SUFFICES ASSUME TypeInv, CounterInv, WritePayload PROVE CounterInv'
  OBVIOUS
<1>1. /\ freed' = freed /\ edits' = edits /\ call # Idle /\ call[3] = PayloadPart
      /\ \/ /\ Rest = {} /\ call' = Idle /\ job' = NoJob
            /\ saved' = IF job.path = OwnPath THEN edits ELSE saved
         \/ /\ \E next \in Rest : IsFirst(next, Rest) /\ call' = next
            /\ job' = job /\ saved' = saved
  BY DEF WritePayload
<1>2. /\ DOMAIN list' = DOMAIN list /\ HeadersOf(list') = HeadersOf(list)
      /\ HeadersIn(files') = HeadersIn(files)
  BY PayloadQuiet
<1>3. list # <<>> /\ list' # <<>>
  <2>1. list # <<>>
    BY <1>1 DEF CounterInv, EndedInv
  <2> QED BY <1>2, <2>1, NotEmptied DEF TypeInv, ListOk
<1>4. ShapeInv' /\ UnfixedInv' /\ FixedInv' /\ EndedInv'
  BY <1>1, <1>2, <1>3 DEF CounterInv, ShapeInv, UnfixedInv, FixedInv, EndedInv
<1> DEFINE f == HeadersIn(files)
           h == HeadersOf(list)
<1>5. DOMAIN h = DOMAIN list /\ \A r \in DOMAIN list : DOMAIN h[r] = DOMAIN list[r]
  BY DEF HeadersOf
<1>6. CASE job.path # OwnPath
  <2>1. saved' = saved
    BY <1>1, <1>6
  <2>2. ProgressInv' /\ SavedInv'
    BY <1>1, <1>2, <1>6, <2>1 DEF CounterInv, ProgressInv, SavedInv
  <2> QED BY <1>4, <2>2 DEF CounterInv
<1>7. CASE job.path = OwnPath
  <2>1. /\ freed = {} /\ saved = {} /\ job.streams = [n \in DOMAIN list |-> n]
        /\ WrittenUpTo(f, h, call)
    BY <1>1, <1>7 DEF CounterInv, ProgressInv
  <2>2. SamePids(f, h) /\ ("cc" \in edits => Continuous(h))
    BY <1>3, <2>1 DEF CounterInv, ShapeInv, FixedInv
  <2>3. \A r \in DOMAIN h : \A i \in DOMAIN h[r] : <<r, i, HeaderPart>> # call
    BY <1>1 DEF HeaderPart, PayloadPart
  <2>4. \A r \in DOMAIN h : \A i \in DOMAIN h[r] :
           /\ Before(<<r, i, HeaderPart>>, call) \/ <<r, i, HeaderPart>> \in Rest
           /\ \A next \in Rest : IsFirst(next, Rest) /\ Before(<<r, i, HeaderPart>>, next)
                                    => Before(<<r, i, HeaderPart>>, call)
    BY <1>1, <1>5, <2>1, <2>3, Advance
  <2> HIDE DEF f, h
  <2>5. CASE Rest = {} /\ call' = Idle /\ saved' = edits
    <3>1. SameCounters(f, h)
      BY <2>1, <2>4, <2>5 DEF WrittenUpTo, SameCounters
    <3>2. "cc" \in edits => Continuous(f)
      <4>1. \A s \in DOMAIN f : \A k \in DOMAIN f[s] :
               f[s][k].continuity_counter = h[s][k].continuity_counter
        BY <2>2, <3>1 DEF SamePids, SameCounters
      <4> QED BY <2>2, <4>1, Mixed
    <3>3. ProgressInv' /\ SavedInv'
      BY <1>2, <2>5, <3>2 DEF ProgressInv, SavedInv, f
    <3> QED BY <1>4, <3>3 DEF CounterInv
  <2>6. CASE \E next \in Rest : IsFirst(next, Rest) /\ call' = next /\ job' = job /\ saved' = saved
    <3>1. WrittenUpTo(f, h, call')
      BY <2>1, <2>4, <2>6 DEF WrittenUpTo
    <3>2. ProgressInv'
      BY <1>1, <1>2, <2>1, <2>6, <3>1 DEF ProgressInv, f, h
    <3>3. SavedInv'
      BY <2>1, <2>6 DEF SavedInv
    <3> QED BY <1>4, <3>2, <3>3 DEF CounterInv
  <2> QED BY <1>1, <1>7, <2>5, <2>6
<1> QED BY <1>6, <1>7

\* Before the first run nothing is loaded and nothing saved.
LEMMA CounterInit == Init => CounterInv
BY DEF Init, CounterInv, ShapeInv, UnfixedInv, FixedInv, ProgressInv, SavedInv, EndedInv

\* Every step keeps CounterInv.
LEMMA CounterNext == TypeInv /\ CounterInv /\ [Next]_vars => CounterInv'
<1> SUFFICES ASSUME TypeInv, CounterInv, [Next]_vars PROVE CounterInv'
  OBVIOUS
<1>1. CASE Parse
  BY <1>1, CounterParse
<1>2. CASE \/ \E pid \in Pids : FixKeyFrame(pid) \/ UpdatePcr(pid)
           \/ \E s \in DOMAIN list : PesResetLen(s)
  BY <1>2, FixesAreQuiet, QuietNext
<1>3. CASE \E pids \in { <<>>, SetToSeq(Pids) } : FixDiscontinuity(pids)
  BY <1>3, CounterDiscontinuity
<1>4. CASE \E s \in DOMAIN list : FreeStream(s)
  BY <1>4, CounterFree
<1>5. CASE BeginUpdate \/ \E s \in DOMAIN list : \E path \in Paths : BeginCopy(s, path)
  BY <1>5, CounterBegins
<1>6. CASE WriteHeader
  BY <1>6, CounterWriteHeader
<1>7. CASE WritePayload
  BY <1>7, CounterWritePayload
<1>8. CASE Exit
  <2>1. /\ list' = <<>> /\ freed' = {} /\ call' = Idle /\ edits' = {}
        /\ files' = files /\ saved' = saved
    BY <1>8 DEF Exit
  <2>2. ShapeInv' /\ UnfixedInv' /\ FixedInv'
    BY <2>1 DEF ShapeInv, UnfixedInv, FixedInv
  <2>3. ProgressInv' /\ SavedInv' /\ EndedInv'
    BY <2>1 DEF CounterInv, ProgressInv, SavedInv, EndedInv
  <2> QED BY <2>2, <2>3 DEF CounterInv
<1>9. CASE UNCHANGED vars
  <2>1. /\ list' = list /\ freed' = freed /\ call' = call /\ edits' = edits
        /\ files' = files /\ saved' = saved /\ job' = job
    BY <1>9 DEF vars
  <2>2. ShapeInv' /\ UnfixedInv' /\ FixedInv'
    BY <2>1 DEF CounterInv, ShapeInv, UnfixedInv, FixedInv
  <2>3. ProgressInv' /\ SavedInv' /\ EndedInv'
    BY <2>1 DEF CounterInv, ProgressInv, SavedInv, EndedInv
  <2> QED BY <2>2, <2>3 DEF CounterInv
<1>10. CASE ParseExits
  <2>1. /\ list' = list /\ freed' = freed /\ call' = call /\ edits' = edits
        /\ files' = files /\ saved' = saved /\ job' = job
    BY <1>10 DEF ParseExits
  <2>2. ShapeInv' /\ UnfixedInv' /\ FixedInv'
    BY <2>1 DEF CounterInv, ShapeInv, UnfixedInv, FixedInv
  <2>3. ProgressInv' /\ SavedInv' /\ EndedInv'
    BY <2>1 DEF CounterInv, ProgressInv, SavedInv, EndedInv
  <2> QED BY <2>2, <2>3 DEF CounterInv
<1> QED BY <1>1, <1>2, <1>3, <1>4, <1>5, <1>6, <1>7, <1>8, <1>9, <1>10 DEF Next

\* The headers as the properties say it.
LEMMA HeadersAsStated ==
    ASSUME FilesOk
    PROVE  ListHeaders = HeadersOf(list) /\ FileHeaders = HeadersIn(files)
<1>1. ListHeaders = HeadersOf(list)
  BY DEF ListHeaders, OnEvery, HeadersOf
<1>2. FileHeaders = HeadersIn(files)
  BY HeadersAre DEF FilesOk, FileHeaders, MediaFiles
<1> QED BY <1>1, <1>2

(* Once the playlist has been fixed, the counters of the pid run from 0    *)
(* through all its streams, in memory and, after an update that completed, *)
(* in the files, whatever else was fixed, copied or interrupted, and       *)
(* whatever the packets hold.                                              *)
THEOREM CountersAreRun == Spec => []CountersRun
<1>1. TypeInv /\ CounterInv => CountersRun
  <2> SUFFICES ASSUME TypeInv, CounterInv PROVE CountersRun
    OBVIOUS
  <2>1. ListHeaders = HeadersOf(list) /\ FileHeaders = HeadersIn(files)
    BY HeadersAsStated DEF TypeInv
  <2> QED BY <2>1 DEF CountersRun, CounterInv, FixedInv, SavedInv
<1>2. Spec => []TypeInv
  BY TypeInit, TypeNext, PTL DEF Spec
<1>3. Spec => []CounterInv
  BY <1>2, CounterInit, CounterNext, PTL DEF Spec
<1> QED BY <1>1, <1>2, <1>3, PTL

\* No step takes the running counters from the files.
LEMMA ContinuityStep ==
    ASSUME TypeInv, CounterInv, [Next]_vars, Continuous(HeadersIn(files))
    PROVE  Continuous(HeadersIn(files'))
<1>1. CASE files' = files
  BY <1>1
<1>2. CASE WritePayload
  BY <1>2, PayloadQuiet
<1>3. CASE WriteHeader /\ job.path # OwnPath
  BY <1>3, OtherHeader
<1>4. CASE WriteHeader /\ job.path = OwnPath
  <2> DEFINE s == call[1]
             k == call[2]
             f == HeadersIn(files)
             g == HeadersIn(files')
             h == HeadersOf(list)
  <2>1. /\ s \in DOMAIN list /\ k \in DOMAIN list[s]
        /\ SamePids(f, h) /\ HeaderGoesTo(g, f, h, s, k)
    BY <1>4, OwnHeader
  <2>2. list # <<>> /\ freed = {}
    BY <1>4 DEF WriteHeader, CounterInv, EndedInv, ProgressInv
  <2>3. "cc" \notin edits => SameCounters(f, h)
    BY <2>2 DEF CounterInv, UnfixedInv
  <2>4. "cc" \in edits => Continuous(h)
    BY <2>2 DEF CounterInv, FixedInv
  <2>5. s \in DOMAIN h /\ k \in DOMAIN h[s]
    BY <2>1 DEF HeadersOf
  <2>6. Continuous(f)
    OBVIOUS
  <2> HIDE DEF s, k, f, g, h
  <2>7. SamePids(g, f) /\ SamePids(g, h)
    BY <2>1 DEF SamePids, HeaderGoesTo
  <2>8. CASE "cc" \notin edits
    <3>1. \A r \in DOMAIN g : \A i \in DOMAIN g[r] :
             g[r][i].continuity_counter = f[r][i].continuity_counter
      BY <2>1, <2>3, <2>5, <2>7, <2>8 DEF SameCounters, SamePids, HeaderGoesTo
    <3>2. Continuous(g)
      BY <2>6, <2>7, <3>1, Mixed
    <3> QED BY <3>2 DEF g
  <2>9. CASE "cc" \in edits
    <3>1. \A r \in DOMAIN g : \A i \in DOMAIN g[r] :
             g[r][i].continuity_counter \in {f[r][i].continuity_counter, h[r][i].continuity_counter}
      BY <2>1, <2>5, <2>7 DEF SamePids, HeaderGoesTo
    <3>2. Continuous(g)
      BY <2>4, <2>6, <2>7, <2>9, <3>1, Mixed
    <3> QED BY <3>2 DEF g
  <2> QED BY <2>8, <2>9
<1>5. files' = files \/ WritePayload \/ WriteHeader
  BY DEF Next, vars, Parse, ParseExits, FixKeyFrame, UpdatePcr, FixDiscontinuity, PesResetLen, FreeStream,
         BeginCopy, BeginUpdate, Begin, Exit
<1> QED BY <1>1, <1>2, <1>3, <1>4, <1>5

(* Files whose counters run from 0 never lose that again: an update that   *)
(* has got only part of the way leaves each counter as it was or as it is  *)
(* to be, and both run.                                                    *)
THEOREM ContinuityIsKept == Spec => ContinuityStays
<1>1. Spec => []TypeInv
  BY TypeInit, TypeNext, PTL DEF Spec
<1>2. Spec => []CounterInv
  BY <1>1, CounterInit, CounterNext, PTL DEF Spec
<1>3. TypeInv /\ TypeInv' /\ CounterInv /\ [Next]_vars
         => [Continuous(FileHeaders) => Continuous(FileHeaders')]_vars
  <2> SUFFICES ASSUME TypeInv, TypeInv', CounterInv, [Next]_vars, Continuous(FileHeaders)
               PROVE  Continuous(FileHeaders')
    OBVIOUS
  <2>1. FileHeaders = HeadersIn(files)
    BY HeadersAsStated DEF TypeInv
  <2>2. FileHeaders' = HeadersIn(files')
    <3>1. files' \in Seq(Seq(Block)) /\ Len(files') = Len(Files) + Len(Outputs)
      BY DEF TypeInv, FilesOk
    <3> QED BY <3>1, HeadersAre DEF FileHeaders, MediaFiles, OnEvery
  <2> QED BY <2>1, <2>2, ContinuityStep
<1> QED BY <1>1, <1>2, <1>3, PTL DEF Spec, ContinuityStays

-----------------------------------------------------------------------------
(* The readers invert the writers *)

\* What is in the payload of a segment is what the segment says.
Settled(seg, old) ==
    /\ seg.adaptation_field.rand_acc = 1 => Flag(At(seg.payload, 1), 6)
    /\ HasPes(old) => 256 * At(seg.payload, Start(old) + 4) + At(seg.payload, Start(old) + 5)
                         = seg.pes_header[1].len

\* It has room for the length of its PES header.
Roomy(old) == HasPes(old) => Start(old) + 5 \in Offsets

\* After it has been written, it is.
LEMMA WriteSettles ==
    ASSUME NEW old \in Packet, WellFormed(old), Roomy(old), NEW seg \in Segment, Kept(seg, old)
    PROVE  Settled([seg EXCEPT !.payload = written_payload(seg)], old)
<1> DEFINE adp   == seg.adaptation_field
           field == write_adaptation_field(adp, seg.payload)
           body  == written_payload(seg)
           new   == [seg EXCEPT !.payload = body]
<1>1. adp \in AdaptationField /\ seg.payload \in Payload /\ seg.pes_header \in Seq(PesHeader)
  BY DEF Segment
<1>2. /\ new.adaptation_field = adp /\ new.pes_header = seg.pes_header /\ new.payload = body
  BY DEF Segment
<1>3. Start(old) \in Nat /\ PesCursor(seg.header, adp) = Start(old)
  BY CursorKept
<1>4. /\ field \in Payload
      /\ \A k \in Offsets : ~ (adp.has_pcr = 1 /\ k \in 2 .. 7) =>
            field[k] = IF k = 1 /\ adp.rand_acc = 1 THEN WithBit(seg.payload[1], 6)
                       ELSE seg.payload[k]
  BY <1>1, FieldWritten
<1>5. body = write_pes_header(seg.pes_header, Start(old), field)
  BY <1>3 DEF written_payload
<1>6. seg.pes_header # <<>> <=> HasPes(old)
  BY DEF Kept
<1> HIDE DEF field, body, new
<1>7. adp.rand_acc = 1 => Flag(At(field, 1), 6)
  <2>1. 1 \notin 2 .. 7
    OBVIOUS
  <2>2. CASE 1 \in Offsets /\ adp.rand_acc = 1
    <3>1. field[1] = WithBit(seg.payload[1], 6) /\ seg.payload[1] \in Byte
      BY <1>1, <1>4, <2>1, <2>2 DEF Payload
    <3> QED BY <2>2, <3>1, WithBitSets DEF At
  <2>3. CASE 1 \notin Offsets
    BY <2>3 DEF At, Flag, Bit
  <2> QED BY <2>2, <2>3
<1>8. CASE ~HasPes(old)
  <2>1. body = field
    BY <1>1, <1>3, <1>4, <1>5, <1>6, <1>8, PesWritten
  <2>2. Settled(new, old)
    BY <1>2, <1>7, <1>8, <2>1 DEF Settled
  <2> QED BY <2>2 DEF new, body
<1>9. CASE HasPes(old)
  <2> DEFINE len == seg.pes_header[1].len
  <2>1. \A k \in Offsets :
           /\ k \notin Start(old) + 2 .. Start(old) + 5 => body[k] = field[k]
           /\ k = Start(old) + 4 => body[k] = len \div 256
           /\ k = Start(old) + 5 => body[k] = len % 256
    BY <1>1, <1>3, <1>4, <1>5, <1>6, <1>9, PesWritten
  <2>2. At(body, 1) = At(field, 1)
    <3>1. 1 \notin Start(old) + 2 .. Start(old) + 5
      BY <1>3
    <3> QED BY <2>1, <3>1 DEF At
  <2>3. Start(old) + 4 \in Offsets /\ Start(old) + 5 \in Offsets
    BY <1>3, <1>9, PayloadAssumption DEF Roomy, Offsets
  <2>4. len \in Nat
    <3>1. seg.pes_header[1] \in PesHeader
      BY <1>1, <1>6, <1>9
    <3> QED BY <3>1 DEF PesHeader, Below
  <2>5. \A v \in Nat : 256 * (v \div 256) + (v % 256) = v
    OBVIOUS
  <2>6. At(body, Start(old) + 4) = len \div 256 /\ At(body, Start(old) + 5) = len % 256
    BY <2>1, <2>3 DEF At
  <2>7. 256 * At(body, Start(old) + 4) + At(body, Start(old) + 5) = len
    BY <2>4, <2>5, <2>6
  <2>8. Settled(new, old)
    BY <1>2, <1>7, <2>2, <2>7 DEF Settled
  <2> QED BY <2>8 DEF new, body
<1> QED BY <1>8, <1>9

\* What is left of a segment when the times are forgotten.
LEMMA ForgetIs ==
    ASSUME NEW seg \in Segment
    PROVE  Forget(seg) =
             [header |-> seg.header,
              adaptation_field |->
                 [len      |-> IF HasField(seg.header) THEN seg.adaptation_field.len ELSE 0,
                  rand_acc |-> seg.adaptation_field.rand_acc,
                  has_pcr  |-> seg.adaptation_field.has_pcr,
                  pcr      |-> Clean.pcr,
                  priv_len |-> seg.adaptation_field.priv_len],
              pes_header |->
                 IF seg.pes_header = <<>> THEN <<>>
                 ELSE << [stream_id |-> seg.pes_header[1].stream_id,
                          len       |-> seg.pes_header[1].len,
                          pts       |-> 0] >>,
              payload |-> seg.payload]
<1>1. seg.pes_header # <<>> =>
         [seg.pes_header[1] EXCEPT !.pts = 0]
           = [stream_id |-> seg.pes_header[1].stream_id, len |-> seg.pes_header[1].len, pts |-> 0]
  <2>1. seg.pes_header # <<>> => seg.pes_header[1] \in PesHeader
    BY DEF Segment
  <2> QED BY <2>1 DEF PesHeader
<1> DEFINE pes == IF seg.pes_header = <<>> THEN seg.pes_header
                  ELSE << [seg.pes_header[1] EXCEPT !.pts = 0] >>
           len == IF HasField(seg.header) THEN seg.adaptation_field.len ELSE 0
           pcr == Clean.pcr
<1>2. Forget(seg) = [seg EXCEPT !.adaptation_field.pcr = pcr, !.adaptation_field.len = len,
                                !.pes_header = pes]
  BY DEF Forget
<1>3. pes = IF seg.pes_header = <<>> THEN <<>>
            ELSE << [stream_id |-> seg.pes_header[1].stream_id, len |-> seg.pes_header[1].len,
                     pts |-> 0] >>
  BY <1>1
<1> HIDE DEF pes, len, pcr
<1>4. Forget(seg) =
        [header |-> seg.header,
         adaptation_field |->
            [len |-> len, rand_acc |-> seg.adaptation_field.rand_acc,
             has_pcr |-> seg.adaptation_field.has_pcr, pcr |-> pcr,
             priv_len |-> seg.adaptation_field.priv_len],
         pes_header |-> pes,
         payload |-> seg.payload]
  BY <1>2 DEF Segment, AdaptationField
<1> QED BY <1>3, <1>4 DEF len, pcr

\* A bit that is there is the other one when it is not.
LEMMA SameBits ==
    ASSUME NEW a \in 0 .. 1, NEW b \in 0 .. 1, a = 1 <=> b = 1
    PROVE  a = b
OBVIOUS

(* A packet that was written from a segment reads as that segment again,   *)
(* but for the times.                                                      *)
LEMMA ReadWritten ==
    ASSUME NEW old \in Packet, WellFormed(old), NEW seg \in Segment, Kept(seg, old),
           Settled(seg, old), NEW packet \in Packet,
           packet.head = write_header(seg.header), packet.body = seg.payload
    PROVE  IsPacket(packet) /\ Forget(parse_ts_segment(packet, Clean)) = Forget(seg)
<1> DEFINE again == parse_ts_segment(packet, Clean)
           hd    == parse_header(packet.head)
<1>1. /\ \A i \in 1 .. 3 : packet.head[i] = old.head[i]
      /\ packet.head[4] \div 16 = old.head[4] \div 16
      /\ packet.head[1] = TS_SYNC
  BY WriteKept
<1>2. SameBut(packet, old) /\ IsPacket(packet)
  BY <1>1, SameParts DEF Kept, IsPacket
<1>3. Clean \in Memory /\ Clean.rand_acc = 0 /\ Clean.has_pcr = 0 /\ Clean.priv_len = 0
  BY DEF Clean, Memory, Time, Byte
<1>4. Kept(again, old) /\ again \in Segment
  BY <1>2, <1>3, ReadKept, SegmentRead
<1>5. /\ again.header = hd /\ again.payload = packet.body
      /\ again.adaptation_field = parse_adaptation_field(hd, packet.body, Clean)
      /\ again.pes_header = parse_pes_header(packet.body, PayloadStart(hd, packet.body), Clean)
  BY DEF parse_ts_segment
<1>6. HasField(hd) <=> HasAdp(old)
  BY <1>4, <1>5 DEF Kept, ReadsAs, HasField, HasAdp
<1>7. PayloadStart(hd, packet.body) = Start(old)
  <2>1. packet.body \in Payload /\ BodyKept(packet.body, old)
    BY DEF Kept, Segment
  <2>2. packet.body[0] = old.body[0]
    BY <2>1, PartsKept
  <2> QED BY <1>6, <2>2 DEF PayloadStart, Start, HasAdp
<1> HIDE DEF again, hd
<1>8. again.header = seg.header
  <2>1. seg.header \in Header /\ hd \in Header
    BY <1>4, <1>5 DEF Kept, ReadsAs
  <2>2. hd.continuity_counter = seg.header.continuity_counter
    BY <2>1, HeaderReadsBack DEF hd
  <2>3. \A f \in {"tei", "pusi", "prior", "pid", "tscramble_control", "adaptation_field_ctrl"} :
           hd[f] = seg.header[f]
    BY <1>4, <1>5 DEF Kept, ReadsAs
  <2> QED BY <1>5, <2>1, <2>2, <2>3 DEF Header
<1>9. /\ again.adaptation_field \in AdaptationField /\ seg.adaptation_field \in AdaptationField
      /\ again.pes_header \in Seq(PesHeader) /\ seg.pes_header \in Seq(PesHeader)
  BY <1>4 DEF Segment
<1>10. again.adaptation_field.rand_acc = seg.adaptation_field.rand_acc
  <2>1. seg.adaptation_field.rand_acc = 1 => again.adaptation_field.rand_acc = 1
    BY <1>4, <1>5 DEF Kept, Settled
  <2>2. CASE HasAdp(old)
    <3>1. again.adaptation_field.rand_acc = Bit(At(packet.body, 1), 6)
      BY <1>5, <1>6, <2>2 DEF parse_adaptation_field
    <3>2. again.adaptation_field.rand_acc = 1 => seg.adaptation_field.rand_acc = 1
      BY <2>2, <3>1 DEF Kept, Flag
    <3> QED BY <1>9, <2>1, <3>2, SameBits DEF AdaptationField
  <2>3. CASE ~HasAdp(old)
    <3>1. again.adaptation_field.rand_acc # 1 /\ seg.adaptation_field.rand_acc # 1
      BY <1>4, <2>3 DEF Kept
    <3> QED BY <1>9, <3>1, SameBits DEF AdaptationField
  <2> QED BY <2>2, <2>3
<1>11. again.adaptation_field.has_pcr = seg.adaptation_field.has_pcr
  <2>1. again.adaptation_field.has_pcr = 1 <=> seg.adaptation_field.has_pcr = 1
    BY <1>4 DEF Kept
  <2> QED BY <1>9, <2>1, SameBits DEF AdaptationField
<1>12. /\ HasField(seg.header) => again.adaptation_field.len = seg.adaptation_field.len
       /\ again.adaptation_field.priv_len = seg.adaptation_field.priv_len
  <2>1. HasField(seg.header) => HasAdp(old)
    BY <1>5, <1>6, <1>8
  <2> QED BY <1>4, <2>1 DEF Kept
<1>13. /\ again.pes_header = <<>> <=> seg.pes_header = <<>>
       /\ seg.pes_header # <<>> =>
             /\ again.pes_header[1].stream_id = seg.pes_header[1].stream_id
             /\ again.pes_header[1].len = seg.pes_header[1].len
  <2>1. again.pes_header # <<>> =>
           again.pes_header[1].len = 256 * At(packet.body, Start(old) + 4)
                                       + At(packet.body, Start(old) + 5)
    BY <1>5, <1>7 DEF parse_pes_header
  <2>2. HasPes(old) => 256 * At(packet.body, Start(old) + 4) + At(packet.body, Start(old) + 5)
                         = seg.pes_header[1].len
    BY DEF Settled
  <2> QED BY <1>4, <2>1, <2>2 DEF Kept
<1>14. Forget(again) = Forget(seg)
  BY <1>4, <1>5, <1>8, <1>10, <1>11, <1>12, <1>13, ForgetIs
<1> QED BY <1>2, <1>14 DEF again

\* And so does a stream.
LEMMA StreamReadsAgain ==
    ASSUME NEW file \in Seq(Block), NEW stream \in Seq(Segment), NEW olds,
           \A k \in DOMAIN stream :
              /\ olds[k] \in Packet /\ WellFormed(olds[k])
              /\ Kept(stream[k], olds[k]) /\ Settled(stream[k], olds[k])
              /\ k \in DOMAIN file
              /\ file[k].head = write_header(stream[k].header)
              /\ file[k].body = stream[k].payload,
           \A k \in DOMAIN file : k > Len(stream) => Whole(file[k])
    PROVE  ReadsAgain(file, stream)
<1>1. ASSUME NEW k \in DOMAIN stream
      PROVE  /\ Whole(file[k])
             /\ Forget(parse_ts_segment(file[k], Clean)) = Forget(stream[k])
  <2> DEFINE old == olds[k]
             seg == stream[k]
             packet == file[k]
  <2>1. /\ old \in Packet /\ WellFormed(old) /\ Kept(seg, old) /\ Settled(seg, old)
        /\ packet.head = write_header(seg.header) /\ packet.body = seg.payload
        /\ k \in DOMAIN file
    OBVIOUS
  <2>2. seg \in Segment /\ packet \in Block
    BY <2>1
  <2>3. packet.body \in Payload
    BY <2>1, <2>2 DEF Segment
  <2>4. packet \in Packet
    BY <2>2, <2>3 DEF Block, Packet
  <2> HIDE DEF old, seg, packet
  <2>5. IsPacket(packet) /\ Forget(parse_ts_segment(packet, Clean)) = Forget(seg)
    BY <2>1, <2>2, <2>4, ReadWritten
  <2> QED BY <2>3, <2>5, PayloadThere DEF Whole, seg, packet
<1>2. Len(file) \in Nat /\ DOMAIN file = 1 .. Len(file)
      /\ Len(stream) \in Nat /\ DOMAIN stream = 1 .. Len(stream)
  OBVIOUS
<1>3. Readable(file)
  <2> SUFFICES ASSUME NEW k \in DOMAIN file PROVE Whole(file[k])
    BY DEF Readable
  <2>1. k \in DOMAIN stream \/ k > Len(stream)
    BY <1>2
  <2> QED BY <1>1, <2>1
<1>4. \A k \in DOMAIN stream : /\ k \in DOMAIN read_segment(file, Clean)
                              /\ read_segment(file, Clean)[k] = parse_ts_segment(file[k], Clean)
  BY DEF read_segment
<1> QED BY <1>1, <1>3, <1>4 DEF ReadsAgain

\* A file of which only fixes show can be read.
LEMMA FixedReadable ==
    ASSUME Handled, NEW s \in Media, NEW file \in Seq(Packet), DOMAIN file = DOMAIN Files[s],
           \A k \in DOMAIN Files[s] : SameBut(file[k], Files[s][k])
    PROVE  Readable(file)
<1> SUFFICES ASSUME NEW k \in DOMAIN file PROVE Whole(file[k])
  BY DEF Readable
<1>1. WellFormed(Files[s][k]) /\ SameBut(file[k], Files[s][k])
  BY PacketsAre
<1>2. IsPacket(file[k])
  BY <1>1 DEF WellFormed, Whole, IsPacket, SameBut
<1>3. file[k] \in Packet
  OBVIOUS
<1>4. file[k].body # <<>>
  BY <1>3, PayloadThere DEF Packet
<1> QED BY <1>2, <1>4 DEF Whole

-----------------------------------------------------------------------------
(* What has been written *)

(* Every stream is written to its own file, or one to another.             *)
TargetInv == call # Idle =>
    \/ job.path = OwnPath /\ job.streams = [s \in DOMAIN list |-> s]
    \/ job.path \in Paths /\ \E s \in DOMAIN list : job.streams = <<s>>

\* The write() w of a job j is done: what it wrote is in the file.
Written(j, fs, playlist, w) ==
    LET s    == j.streams[w[1]]
        file == fs[IF j.path = OwnPath THEN s ELSE j.path]
        seg  == playlist[s][w[2]]
    IN  /\ w[2] \in DOMAIN file
        /\ w[3] = HeaderPart => file[w[2]].head = write_header(seg.header)
        /\ w[3] = PayloadPart => /\ file[w[2]].body = seg.payload
                                 /\ Settled(seg, Files[s][w[2]])

(* What comes before the write() to be made is done.                       *)
DoneInv == call # Idle =>
    \A w \in WritesOf(job.streams, list) : Before(w, call) => Written(job, files, list, w)

BackInv == TargetInv /\ DoneInv

\* Streams are numbered, and none is written to the file of another.
LEMMA TargetsApart ==
    ASSUME TypeInv, TargetInv, call # Idle
    PROVE  /\ DOMAIN job.streams \subseteq Nat
           /\ \A n, m \in DOMAIN job.streams :
                 Dest(job.streams[n]) = Dest(job.streams[m]) => n = m
<1>1. DOMAIN list \subseteq Nat
  <2>1. list \in Seq(Seq(Segment))
    BY DEF TypeInv, ListOk
  <2> QED BY <2>1
<1>2. CASE job.path = OwnPath /\ job.streams = [s \in DOMAIN list |-> s]
  <2>1. DOMAIN job.streams = DOMAIN list /\ \A n \in DOMAIN job.streams : job.streams[n] = n
    BY <1>2
  <2>2. \A s : Dest(s) = s
    BY <1>2 DEF Dest
  <2> QED BY <1>1, <2>1, <2>2
<1>3. CASE job.path \in Paths /\ \E s \in DOMAIN list : job.streams = <<s>>
  <2>1. DOMAIN job.streams = {1}
    BY <1>3
  <2> QED BY <2>1
<1> QED BY <1>2, <1>3 DEF TargetInv

\* Of a packet the header comes first.
LEMMA BeforePart ==
    ASSUME NEW n \in Nat, NEW k \in Nat, NEW part \in {HeaderPart, PayloadPart}
    PROVE  /\ ~ Before(<<n, k, part>>, <<n, k, HeaderPart>>)
           /\ Before(<<n, k, part>>, <<n, k, PayloadPart>>) <=> part = HeaderPart
BY DEF Before, HeaderPart, PayloadPart

\* A header that goes into a file or behind it.
LEMMA HeadAt ==
    ASSUME NEW file \in Seq(Block), NEW k \in Nat, k \in DOMAIN file \/ k = Len(file) + 1,
           NEW h \in [1 .. 4 -> Byte]
    PROVE  /\ k \in DOMAIN WithHead(file, k, h) /\ WithHead(file, k, h)[k].head = h
           /\ \A i \in DOMAIN file :
                 /\ i \in DOMAIN WithHead(file, k, h)
                 /\ WithHead(file, k, h)[i].body = file[i].body
                 /\ i # k => WithHead(file, k, h)[i].head = file[i].head
<1>1. CASE k \in DOMAIN file
  <2> DEFINE new == WithHead(file, k, h)
  <2>1. /\ DOMAIN new = DOMAIN file
        /\ \A i \in DOMAIN file : /\ new[i].body = file[i].body
                                  /\ new[i].head = IF i = k THEN h ELSE file[i].head
    BY <1>1, HeadPut, Zenon
  <2> HIDE DEF new
  <2>2. k \in DOMAIN new /\ new[k].head = h
    BY <1>1, <2>1
  <2>3. \A i \in DOMAIN file : /\ i \in DOMAIN new /\ new[i].body = file[i].body
                               /\ i # k => new[i].head = file[i].head
    BY <2>1
  <2> QED BY <2>2, <2>3 DEF new
<1>2. CASE k = Len(file) + 1
  <2> DEFINE put == [head |-> h, body |-> <<>>]
             new == WithHead(file, k, h)
  <2>1. put \in Block /\ put.head = h
    BY DEF Block
  <2>2. k \notin DOMAIN file
    BY <1>2
  <2>3. new = Append(file, put)
    BY <2>2 DEF WithHead
  <2> HIDE DEF put, new
  <2>4. k \in DOMAIN new /\ new[k] = put
    BY <1>2, <2>1, <2>3
  <2>5. \A i \in DOMAIN file : i \in DOMAIN new /\ new[i] = file[i]
    BY <2>1, <2>3
  <2> QED BY <2>1, <2>4, <2>5 DEF new
<1> QED BY <1>1, <1>2

\* A write() that is done stays done, and the one that is made is done then.
LEMMA HeaderDone ==
    ASSUME TypeInv, TargetInv, DoneInv, WriteHeader,
           NEW w \in WritesOf(job.streams, list), w = call \/ Before(w, call)
    PROVE  Written(job, files', list', w)
<1> DEFINE s0 == job.streams[call[1]]
           k0 == call[2]
           d0 == Dest(s0)
           file == files[d0]
           h  == write_header(list[s0][k0].header)
<1>1. call # Idle /\ call[3] = HeaderPart /\ list' = list
      /\ files' = [files EXCEPT ![d0] = WithHead(file, k0, h)]
  BY DEF WriteHeader
<1>2. /\ call[1] \in DOMAIN job.streams /\ s0 \in DOMAIN list /\ k0 \in DOMAIN list[s0]
      /\ list[s0][k0] \in Segment /\ d0 \in DOMAIN files
  BY <1>1, CallIs
<1>3. h \in [1 .. 4 -> Byte]
  BY <1>2, HeaderWritten DEF Segment
<1>4. file \in Seq(Block)
  BY <1>2 DEF TypeInv, FilesOk
<1>5. /\ DOMAIN job.streams \subseteq Nat
      /\ \A n, m \in DOMAIN job.streams : Dest(job.streams[n]) = Dest(job.streams[m]) => n = m
  BY <1>1, TargetsApart
<1>6. WritesOf(job.streams, list) \subseteq Nat \X Nat \X Nat
  BY <1>5, WritesInOrder DEF TypeInv, JobOk
<1>7. call \in WritesOf(job.streams, list) /\ call \in Nat \X Nat \X Nat
  BY <1>1, <1>6 DEF TypeInv, JobOk
<1>8. \A v \in WritesOf(job.streams, list) : Before(v, call) => Written(job, files, list, v)
  BY <1>1 DEF DoneInv
<1>9. call = <<call[1], k0, HeaderPart>>
  BY <1>1, <1>7
<1>10. list[s0] \in Seq(Segment) /\ k0 \in Nat
  BY <1>2, <1>7 DEF TypeInv, ListOk
<1>11. k0 \in DOMAIN file \/ k0 = Len(file) + 1
  <2>1. CASE k0 = 1
    BY <1>4, <2>1
  <2>2. CASE k0 # 1
    <3> DEFINE v == <<call[1], k0 - 1, HeaderPart>>
    <3>1. k0 - 1 \in DOMAIN list[s0]
      BY <1>2, <1>10, <2>2
    <3>2. v \in WritesOf(job.streams, list)
      BY <1>2, <3>1, WritesAre
    <3>3. Before(v, call)
      BY <1>10 DEF Before
    <3>4. v[1] = call[1] /\ v[2] = k0 - 1
      OBVIOUS
    <3> HIDE DEF v
    <3>5. k0 - 1 \in DOMAIN file
      BY <1>8, <3>2, <3>3, <3>4 DEF Written, Dest
    <3> QED BY <1>4, <1>10, <3>5
  <2> QED BY <2>1, <2>2
<1> DEFINE new == WithHead(file, k0, h)
<1>12. /\ k0 \in DOMAIN new /\ new[k0].head = h
       /\ \A i \in DOMAIN file : /\ i \in DOMAIN new /\ new[i].body = file[i].body
                                 /\ i # k0 => new[i].head = file[i].head
  BY <1>3, <1>4, <1>10, <1>11, HeadAt
<1>13. PICK n \in DOMAIN job.streams : \E k \in DOMAIN list[job.streams[n]] :
          \E part \in {HeaderPart, PayloadPart} : w = <<n, k, part>>
  BY WritesAre
<1>14. PICK k \in DOMAIN list[job.streams[n]] :
          \E part \in {HeaderPart, PayloadPart} : w = <<n, k, part>>
  BY <1>13
<1>15. PICK part \in {HeaderPart, PayloadPart} : w = <<n, k, part>>
  BY <1>14
<1> DEFINE s == job.streams[n]
           d == Dest(s)
<1>16. d \in DOMAIN files
  <2>1. s \in DOMAIN list
    BY DEF TypeInv, JobOk
  <2> QED BY <2>1, StreamsAreMedia DEF Dest, TypeInv, JobOk
<1>17. Written(job, files', list', w) <=>
          /\ k \in DOMAIN files'[d]
          /\ part = HeaderPart => files'[d][k].head = write_header(list[s][k].header)
          /\ part = PayloadPart => /\ files'[d][k].body = list[s][k].payload
                                  /\ Settled(list[s][k], Files[s][k])
  BY <1>1, <1>15 DEF Written, Dest
<1>18. w = call => part = HeaderPart /\ n = call[1] /\ k = k0
  BY <1>9, <1>15
<1>19. Before(w, call) =>
          /\ k \in DOMAIN files[d]
          /\ part = HeaderPart => files[d][k].head = write_header(list[s][k].header)
          /\ part = PayloadPart => /\ files[d][k].body = list[s][k].payload
                                  /\ Settled(list[s][k], Files[s][k])
  BY <1>8, <1>15 DEF Written, Dest
<1>20. Before(w, call) => n # call[1] \/ k # k0
  <2>1. n \in Nat /\ k0 \in Nat
    BY <1>5, <1>10
  <2>2. ~ Before(<<n, k0, part>>, <<n, k0, HeaderPart>>)
    BY <2>1, BeforePart
  <2> HIDE DEF k0
  <2> QED BY <1>9, <1>15, <2>2
<1> HIDE DEF new, file, h, d0
<1>21. files'[d] = IF d = d0 THEN new ELSE files[d]
  BY <1>1, <1>16 DEF new
<1>22. CASE w = call
  <2>1. n = call[1] /\ k = k0 /\ part = HeaderPart /\ d = d0
    BY <1>18, <1>22 DEF d0
  <2> HIDE DEF d
  <2>2. files'[d][k].head = h /\ k \in DOMAIN files'[d]
    BY <1>12, <1>21, <2>1
  <2> QED BY <1>17, <2>1, <2>2 DEF h, HeaderPart, PayloadPart
<1>23. CASE Before(w, call) /\ d = d0
  <2>1. n = call[1]
    BY <1>2, <1>5, <1>23 DEF d0
  <2>2. k # k0 /\ files'[d] = new /\ files[d] = file
    BY <1>20, <1>21, <1>23, <2>1 DEF file
  <2> HIDE DEF d
  <2>3. k \in DOMAIN new /\ new[k].body = file[k].body /\ new[k].head = file[k].head
    <3>1. k \in DOMAIN file
      BY <1>19, <1>23, <2>2
    <3> QED BY <1>12, <2>2, <3>1
  <2> QED BY <1>17, <1>19, <1>23, <2>2, <2>3
<1>24. CASE Before(w, call) /\ d # d0
  <2>1. files'[d] = files[d]
    BY <1>21, <1>24
  <2> HIDE DEF d
  <2> QED BY <1>17, <1>19, <1>24, <2>1
<1> QED BY <1>22, <1>23, <1>24

\* The same of a payload, which becomes the segment's own.
LEMMA PayloadDone ==
    ASSUME Handled, WholeLengths, KeepInv, TargetInv, DoneInv, WritePayload,
           NEW w \in WritesOf(job.streams, list), w = call \/ Before(w, call)
    PROVE  Written(job, files', list', w)
<1> DEFINE s0 == job.streams[call[1]]
           k0 == call[2]
           d0 == Dest(s0)
           file == files[d0]
           seg  == list[s0][k0]
           old  == Files[s0][k0]
           body == written_payload(seg)
           new  == WithBody(file, k0, body)
<1>1. /\ call # Idle /\ call[3] = PayloadPart
      /\ list' = [list EXCEPT ![s0][k0].payload = body]
      /\ files' = [files EXCEPT ![d0] = new]
  BY DEF WritePayload, WithBody
<1>2. TypeInv /\ OnlyFixesShow /\ MemoryKept
  BY DEF KeepInv
<1>3. /\ call[1] \in DOMAIN job.streams /\ s0 \in DOMAIN list /\ k0 \in DOMAIN list[s0]
      /\ seg \in Segment /\ d0 \in DOMAIN files
  BY <1>1, <1>2, CallIs
<1>4. body \in Payload
  BY <1>3, PayloadWritten
<1>5. /\ DOMAIN job.streams \subseteq Nat
      /\ \A n, m \in DOMAIN job.streams : Dest(job.streams[n]) = Dest(job.streams[m]) => n = m
  BY <1>1, <1>2, TargetsApart
<1>6. WritesOf(job.streams, list) \subseteq Nat \X Nat \X Nat
  BY <1>2, <1>5, WritesInOrder DEF TypeInv, JobOk
<1>7. call \in WritesOf(job.streams, list) /\ call \in Nat \X Nat \X Nat
  BY <1>1, <1>2, <1>6 DEF TypeInv, JobOk
<1>8. \A v \in WritesOf(job.streams, list) : Before(v, call) => Written(job, files, list, v)
  BY <1>1 DEF DoneInv
<1>9. call = <<call[1], k0, PayloadPart>> /\ call[1] \in Nat /\ k0 \in Nat
  BY <1>1, <1>7
<1>10. k0 \in DOMAIN file
  <2> DEFINE v == <<call[1], k0, HeaderPart>>
  <2>1. v \in WritesOf(job.streams, list)
    BY <1>3, WritesAre
  <2>2. Before(v, <<call[1], k0, PayloadPart>>)
    BY <1>9, BeforePart
  <2>3. v[1] = call[1] /\ v[2] = k0
    OBVIOUS
  <2> HIDE DEF v
  <2>4. Before(v, call)
    BY <1>9, <2>2, Zenon
  <2> QED BY <1>8, <2>1, <2>3, <2>4 DEF Written, Dest
<1>11. /\ old \in Packet /\ WellFormed(old) /\ Kept(seg, old) /\ Roomy(old)
  <2>1. s0 \in Media /\ k0 \in DOMAIN Files[s0] /\ old \in Packet /\ WellFormed(old)
    BY <1>2, <1>3, SegmentsAre
  <2>2. Kept(seg, old)
    BY <1>2, <1>3 DEF MemoryKept
  <2>3. Roomy(old)
    BY <2>1 DEF WholeLengths, Roomy, HasPes, Start, Media
  <2> QED BY <2>1, <2>2, <2>3
<1>12. Settled([seg EXCEPT !.payload = body], old)
  <2> HIDE DEF seg, old
  <2> QED BY <1>3, <1>11, WriteSettles
<1>13. list \in Seq(Seq(Segment)) /\ file \in Seq(Block)
  BY <1>2, <1>3 DEF TypeInv, ListOk, FilesOk
<1> HIDE DEF s0, k0, d0, file, seg, old, body, new
<1>14. /\ DOMAIN new = DOMAIN file
       /\ \A i \in DOMAIN file : /\ new[i].head = file[i].head
                                 /\ new[i].body = IF i = k0 THEN body ELSE file[i].body
  BY <1>4, <1>13, BodyPut DEF new
<1>15. \A r \in DOMAIN list : \A i \in DOMAIN list[r] :
          list'[r][i] = IF r = s0 /\ i = k0 THEN [seg EXCEPT !.payload = body] ELSE list[r][i]
  <2>1. \A r \in DOMAIN list : \A i \in DOMAIN list[r] :
          list'[r][i] = IF r = s0 /\ i = k0 THEN [list[s0][k0] EXCEPT !.payload = body] ELSE list[r][i]
    BY <1>1, <1>3, <1>4, <1>13, PayloadSet, Zenon
  <2> QED BY <2>1 DEF seg
<1>16. /\ [seg EXCEPT !.payload = body].header = seg.header
       /\ [seg EXCEPT !.payload = body].payload = body
  BY <1>3 DEF Segment
<1>17. PICK n \in DOMAIN job.streams : \E k \in DOMAIN list[job.streams[n]] :
          \E part \in {HeaderPart, PayloadPart} : w = <<n, k, part>>
  BY WritesAre
<1>18. PICK k \in DOMAIN list[job.streams[n]] :
          \E part \in {HeaderPart, PayloadPart} : w = <<n, k, part>>
  BY <1>17
<1>19. PICK part \in {HeaderPart, PayloadPart} : w = <<n, k, part>>
  BY <1>18
<1> DEFINE s == job.streams[n]
           d == Dest(s)
           now == list'[s][k]
<1>20. d \in DOMAIN files /\ s \in DOMAIN list
  <2>1. s \in DOMAIN list
    BY <1>2 DEF TypeInv, JobOk
  <2> QED BY <1>2, <2>1, StreamsAreMedia DEF Dest, TypeInv, JobOk
<1>21. Written(job, files', list', w) <=>
          /\ k \in DOMAIN files'[d]
          /\ part = HeaderPart => files'[d][k].head = write_header(now.header)
          /\ part = PayloadPart => files'[d][k].body = now.payload /\ Settled(now, Files[s][k])
  BY <1>19 DEF Written, Dest
<1>22. Before(w, call) =>
          /\ k \in DOMAIN files[d]
          /\ part = HeaderPart => files[d][k].head = write_header(list[s][k].header)
          /\ part = PayloadPart => /\ files[d][k].body = list[s][k].payload
                                   /\ Settled(list[s][k], Files[s][k])
  BY <1>8, <1>19 DEF Written, Dest
<1>23. w = call => part = PayloadPart /\ n = call[1] /\ k = k0
  BY <1>9, <1>19
<1>24. Before(w, call) /\ n = call[1] /\ k = k0 => part = HeaderPart
  <2>1. Before(<<n, k0, part>>, <<n, k0, PayloadPart>>) => part = HeaderPart
    BY <1>5, <1>9, BeforePart
  <2> QED BY <1>9, <1>19, <2>1
<1>25. files'[d] = IF d = d0 THEN new ELSE files[d]
  BY <1>1, <1>20
<1>26. d = d0 <=> n = call[1]
  BY <1>3, <1>5 DEF d0, s0
<1>27. n = call[1] => s = s0
  BY DEF s0
<1>28. s = s0 => n = call[1]
  BY <1>26 DEF d0
<1>29. now = IF n = call[1] /\ k = k0 THEN [seg EXCEPT !.payload = body] ELSE list[s][k]
  BY <1>15, <1>20, <1>27, <1>28
<1>30. d = d0 => files[d] = file
  BY DEF file
<1> HIDE DEF d, now
<1>31. CASE n = call[1] /\ k = k0
  <2>1. k \in DOMAIN files'[d] /\ files'[d] = new
    BY <1>10, <1>14, <1>25, <1>26, <1>31
  <2>2. now.header = list[s][k].header /\ now.payload = body
    BY <1>16, <1>27, <1>29, <1>31 DEF seg
  <2>3. part = PayloadPart => files'[d][k].body = now.payload /\ Settled(now, Files[s][k])
    BY <1>10, <1>12, <1>14, <1>27, <1>29, <1>31, <2>1, <2>2 DEF old
  <2>4. part = HeaderPart => files'[d][k].head = write_header(now.header)
    <3>1. part = HeaderPart => Before(w, call)
      BY <1>23 DEF HeaderPart, PayloadPart
    <3> QED BY <1>10, <1>14, <1>22, <1>26, <1>30, <1>31, <2>1, <2>2, <3>1
  <2> QED BY <1>21, <2>1, <2>3, <2>4
<1>32. CASE ~ (n = call[1] /\ k = k0)
  <2>1. now = list[s][k] /\ Before(w, call)
    BY <1>23, <1>29, <1>32
  <2>2. /\ k \in DOMAIN files'[d]
        /\ files'[d][k].head = files[d][k].head /\ files'[d][k].body = files[d][k].body
    <3>1. CASE d = d0
      <4>1. k # k0 /\ k \in DOMAIN file
        BY <1>22, <1>26, <1>30, <1>32, <2>1, <3>1
      <4> QED BY <1>14, <1>25, <1>30, <3>1, <4>1
    <3>2. CASE d # d0
      BY <1>22, <1>25, <2>1, <3>2
    <3> QED BY <3>1, <3>2
  <2> QED BY <1>21, <1>22, <2>1, <2>2
<1> QED BY <1>31, <1>32

\* While a payload is written the playlist keeps its shape.
LEMMA ShapeStays ==
    ASSUME TypeInv, WritePayload
    PROVE  /\ DOMAIN list' = DOMAIN list
           /\ \A r \in DOMAIN list : DOMAIN list'[r] = DOMAIN list[r]
           /\ WritesOf(job.streams, list') = WritesOf(job.streams, list)
<1>1. PICK s, k, d, new :
         /\ s \in DOMAIN list /\ k \in DOMAIN list[s] /\ d \in DOMAIN files
         /\ d \in Media => d = s
         /\ list[s][k] \in Segment
         /\ written_payload(list[s][k]) \in Payload
         /\ list' = [list EXCEPT ![s][k].payload = written_payload(list[s][k])]
         /\ new = WithBody(files[d], k, written_payload(list[s][k]))
         /\ files' = [files EXCEPT ![d] = new]
         /\ files[d] \in Seq(Block)
         /\ d \in Media => k \in DOMAIN files[d] /\ files[d] \in Seq(Packet)
  BY PayloadStep, Zenon
<1>2. list \in Seq(Seq(Segment))
  BY DEF TypeInv, ListOk
<1>3. DOMAIN list' = DOMAIN list /\ \A r \in DOMAIN list : DOMAIN list'[r] = DOMAIN list[r]
  BY <1>1, <1>2, PayloadSet, Zenon
<1>4. \A n \in DOMAIN job.streams : DOMAIN list'[job.streams[n]] = DOMAIN list[job.streams[n]]
  BY <1>3 DEF TypeInv, JobOk
<1>5. WritesOf(job.streams, list') = WritesOf(job.streams, list)
  BY <1>4 DEF WritesOf
<1> QED BY <1>3, <1>5

\* Nothing is written while nothing is loaded, and a write() is not Idle.
LEMMA IdleIs ==
    ASSUME TypeInv
    PROVE  /\ list = <<>> => call = Idle
           /\ \A streams : Idle \notin WritesOf(streams, list)
<1>1. list = <<>> => WritesOf(job.streams, list) = {}
  BY DEF TypeInv, JobOk, WritesOf
<1>2. \A n, k, part : <<n, k, part>> # Idle
  BY DEF Idle
<1>3. \A streams : Idle \notin WritesOf(streams, list)
  BY <1>2, WritesAre
<1> QED BY <1>1, <1>3 DEF TypeInv, JobOk

\* At the beginning of a job nothing comes before the first write().
LEMMA BeginBack ==
    ASSUME TypeInv, NEW streams, DOMAIN streams \subseteq Nat,
           \A n \in DOMAIN streams : streams[n] \in DOMAIN list,
           NEW path, Begin(streams, path)
    PROVE  DoneInv'
<1>1. /\ files' = files /\ list' = list /\ job'.streams = streams
      /\ \E first \in Writes(streams) : IsFirst(first, Writes(streams)) /\ call' = first
  BY DEF Begin
<1>2. Writes(streams) = WritesOf(streams, list)
  BY DEF Writes, WritesOf
<1>3. WritesOf(streams, list) \subseteq Nat \X Nat \X Nat
  BY WritesInOrder DEF TypeInv
<1>4. ASSUME NEW w \in WritesOf(streams, list), Before(w, call') PROVE FALSE
  <2>1. call' \in Nat \X Nat \X Nat /\ w \in Nat \X Nat \X Nat
    BY <1>1, <1>2, <1>3
  <2>2. w = call' \/ Before(call', w)
    BY <1>1, <1>2 DEF IsFirst
  <2> QED BY <1>4, <2>1, <2>2, InOrder
<1> QED BY <1>1, <1>4 DEF DoneInv

\* The same for both kinds of jobs.
LEMMA BackBegins ==
    ASSUME TypeInv,
           \/ BeginUpdate
           \/ \E s \in DOMAIN list : \E path \in Paths : BeginCopy(s, path)
    PROVE  BackInv'
<1>1. DOMAIN list \subseteq Nat
  <2>1. list \in Seq(Seq(Segment))
    BY DEF TypeInv, ListOk
  <2> QED BY <2>1
<1>2. CASE BeginUpdate
  <2> DEFINE streams == [s \in DOMAIN list |-> s]
  <2>1. DOMAIN streams \subseteq Nat /\ \A n \in DOMAIN streams : streams[n] \in DOMAIN list
    BY <1>1
  <2>2. Begin(streams, OwnPath)
    BY <1>2 DEF BeginUpdate
  <2>3. job'.path = OwnPath /\ job'.streams = [s \in DOMAIN list' |-> s]
    BY <1>2 DEF BeginUpdate, Begin
  <2> HIDE DEF streams
  <2>4. DoneInv'
    BY <2>1, <2>2, BeginBack
  <2> QED BY <2>3, <2>4 DEF BackInv, TargetInv
<1>3. ASSUME NEW s \in DOMAIN list, NEW path \in Paths, BeginCopy(s, path) PROVE BackInv'
  <2> DEFINE streams == <<s>>
  <2>1. DOMAIN streams \subseteq Nat /\ \A n \in DOMAIN streams : streams[n] \in DOMAIN list
    OBVIOUS
  <2>2. Begin(streams, path)
    BY <1>3 DEF BeginCopy
  <2>3. job'.path = path /\ job'.streams = <<s>> /\ list' = list
    BY <1>3 DEF BeginCopy, Begin
  <2> HIDE DEF streams
  <2>4. DoneInv'
    BY <2>1, <2>2, BeginBack
  <2>5. TargetInv'
    BY <2>3 DEF TargetInv
  <2> QED BY <2>4, <2>5 DEF BackInv
<1> QED BY <1>2, <1>3

\* A write() with another one behind it.
LEMMA BackOnward ==
    ASSUME TypeInv, BackInv, call # Idle, job' = job, DOMAIN list' = DOMAIN list,
           WritesOf(job.streams, list') = WritesOf(job.streams, list),
           \E next \in Rest : IsFirst(next, Rest) /\ call' = next,
           \A w \in WritesOf(job.streams, list) :
              w = call \/ Before(w, call) => Written(job, files', list', w)
    PROVE  BackInv'
<1>1. DOMAIN job.streams \subseteq Nat
  BY TargetsApart DEF BackInv
<1>2. \A w \in WritesOf(job.streams, list) : Before(w, call') => w = call \/ Before(w, call)
  BY <1>1, Onward
<1>3. DoneInv'
  BY <1>2 DEF DoneInv
<1>4. TargetInv'
  BY DEF BackInv, TargetInv
<1> QED BY <1>3, <1>4 DEF BackInv

\* Every step keeps what has been written.
LEMMA BackNext == Handled /\ WholeLengths /\ KeepInv /\ BackInv /\ [Next]_vars => BackInv'
<1> SUFFICES ASSUME Handled, WholeLengths, KeepInv, BackInv, [Next]_vars PROVE BackInv'
  OBVIOUS
<1>1. TypeInv /\ TargetInv /\ DoneInv
  BY DEF KeepInv, BackInv
<1>2. CASE call' = Idle
  BY <1>2 DEF BackInv, TargetInv, DoneInv
<1>3. CASE Parse
  <2>1. call' = Idle
    BY <1>1, <1>3, IdleIs DEF Parse
  <2> QED BY <1>2, <2>1
<1>4. CASE BeginUpdate \/ \E s \in DOMAIN list : \E path \in Paths : BeginCopy(s, path)
  BY <1>1, <1>4, BackBegins
<1>5. CASE WriteHeader
  <2>1. /\ call # Idle /\ job' = job /\ list' = list
        /\ \E next \in Rest : IsFirst(next, Rest) /\ call' = next
    BY <1>5 DEF WriteHeader
  <2>2. \A w \in WritesOf(job.streams, list) :
           w = call \/ Before(w, call) => Written(job, files', list', w)
    BY <1>1, <1>5, HeaderDone
  <2> QED BY <1>1, <2>1, <2>2, BackOnward
<1>6. CASE WritePayload /\ call' # Idle
  <2>1. /\ call # Idle /\ job' = job
        /\ \E next \in Rest : IsFirst(next, Rest) /\ call' = next
    BY <1>6 DEF WritePayload
  <2>2. \A w \in WritesOf(job.streams, list) :
           w = call \/ Before(w, call) => Written(job, files', list', w)
    BY <1>1, <1>6, PayloadDone
  <2>3. DOMAIN list' = DOMAIN list /\ WritesOf(job.streams, list') = WritesOf(job.streams, list)
    BY <1>1, <1>6, ShapeStays
  <2> QED BY <1>1, <2>1, <2>2, <2>3, BackOnward
<1>7. CASE FixingStep \/ Exit
  BY <1>2, <1>7 DEF FixingStep, Exit
<1>8. CASE UNCHANGED vars \/ ParseExits
  BY <1>8 DEF vars, ParseExits, BackInv, TargetInv, DoneInv
<1> QED BY <1>1, <1>2, <1>3, <1>4, <1>5, <1>6, <1>7, <1>8, Steps

\* A stream reads back from a file, unless that has a tail that cannot be read.
ReadsIfWhole(file, stream) ==
    (\A k \in DOMAIN file : k > Len(stream) => Whole(file[k])) => ReadsAgain(file, stream)

\* When a job ends, what was written reads as what is in memory.
LEMMA JobEnds ==
    ASSUME Handled, WholeLengths, KeepInv, BackInv, [Next]_vars,
           call # Idle, call' = Idle, list' # <<>>
    PROVE  /\ DOMAIN list' = DOMAIN list
           /\ \A n \in DOMAIN job.streams :
                 ReadsIfWhole(files'[Dest(job.streams[n])], list'[job.streams[n]])
<1>1. TypeInv /\ TargetInv /\ DoneInv /\ TypeInv' /\ MemoryKept' /\ OnlyFixesShow
  BY KeepNext DEF KeepInv, BackInv
<1>2. ~ Parse /\ ~ ParseExits
  BY <1>1, IdleIs DEF Parse, ParseExits
<1>3. ~ BeginUpdate /\ \A s \in DOMAIN list : \A path \in Paths : ~ BeginCopy(s, path)
  BY DEF BeginUpdate, BeginCopy, Loaded
<1>4. \A next \in Rest : next # Idle
  <2>1. Rest \subseteq WritesOf(job.streams, list)
    BY DEF Rest, Writes, WritesOf
  <2> QED BY <1>1, <2>1, IdleIs
<1>5. ~ WriteHeader
  BY <1>4 DEF WriteHeader
<1>6. WritePayload
  BY <1>1, <1>2, <1>3, <1>5, Steps DEF FixingStep, Exit, vars
<1>7. Rest = {}
  BY <1>4, <1>6 DEF WritePayload
<1>8. DOMAIN job.streams \subseteq Nat
  BY <1>1, TargetsApart
<1>9. \A w \in WritesOf(job.streams, list) : Written(job, files', list', w)
  <2>1. \A w \in WritesOf(job.streams, list) : w = call \/ Before(w, call)
    BY <1>1, <1>7, <1>8, Onward
  <2> QED BY <1>1, <1>6, <2>1, PayloadDone
<1>10. DOMAIN list' = DOMAIN list /\ \A r \in DOMAIN list : DOMAIN list'[r] = DOMAIN list[r]
  BY <1>1, <1>6, ShapeStays
<1>11. ASSUME NEW n \in DOMAIN job.streams
       PROVE  ReadsIfWhole(files'[Dest(job.streams[n])], list'[job.streams[n]])
  <2> DEFINE s == job.streams[n]
             file == files'[Dest(s)]
             stream == list'[s]
             olds == Files[s]
  <2>1. s \in DOMAIN list /\ Dest(s) \in DOMAIN files
    <3>1. s \in DOMAIN list
      BY <1>1 DEF TypeInv, JobOk
    <3> QED BY <1>1, <3>1, StreamsAreMedia DEF Dest, TypeInv, JobOk
  <2>2. DOMAIN files' = DOMAIN files
    BY <1>6 DEF WritePayload
  <2>3. file \in Seq(Block) /\ stream \in Seq(Segment)
    <3>1. files' \in Seq(Seq(Block)) /\ list' \in Seq(Seq(Segment))
      BY <1>1 DEF TypeInv, FilesOk, ListOk
    <3> QED BY <1>10, <2>1, <2>2, <3>1
  <2>4. ASSUME NEW k \in DOMAIN stream
        PROVE  /\ olds[k] \in Packet /\ WellFormed(olds[k])
               /\ Kept(stream[k], olds[k]) /\ Settled(stream[k], olds[k])
               /\ k \in DOMAIN file
               /\ file[k].head = write_header(stream[k].header)
               /\ file[k].body = stream[k].payload
    <3>1. k \in DOMAIN list[s]
      BY <1>10, <2>1
    <3>2. olds[k] \in Packet /\ WellFormed(olds[k])
      BY <1>1, <2>1, <3>1, SegmentsAre
    <3>3. Kept(stream[k], olds[k])
      BY <1>1, <1>10, <2>1 DEF MemoryKept
    <3>4. <<n, k, HeaderPart>> \in WritesOf(job.streams, list)
          /\ <<n, k, PayloadPart>> \in WritesOf(job.streams, list)
      BY <3>1, WritesAre
    <3>5. /\ Written(job, files', list', <<n, k, HeaderPart>>)
          /\ Written(job, files', list', <<n, k, PayloadPart>>)
      BY <1>9, <3>4
    <3>6. /\ k \in DOMAIN file
          /\ file[k].head = write_header(stream[k].header)
          /\ file[k].body = stream[k].payload /\ Settled(stream[k], olds[k])
      BY <3>5 DEF Written, Dest
    <3> QED BY <3>2, <3>3, <3>6
  <2> HIDE DEF s, file, stream, olds
  <2>5. ReadsIfWhole(file, stream)
    BY <2>3, <2>4, StreamReadsAgain DEF ReadsIfWhole
  <2> QED BY <2>5 DEF s, file, stream
<1> QED BY <1>10, <1>11

(* The steps behind which a file reads as what was written to it.          *)
LEMMA ReadsBackStep ==
    ASSUME Handled, WholeLengths, KeepInv, BackInv, [Next]_vars,
           call # Idle, call' = Idle, list' # <<>>
    PROVE  /\ job.path = OwnPath =>
                 \A s \in DOMAIN list' : ReadsAgain(files'[s], list'[s])
           /\ job.path # OwnPath =>
                 ReadsIfWhole(files'[job.path], list'[job.streams[1]])
<1>1. /\ DOMAIN list' = DOMAIN list
      /\ \A n \in DOMAIN job.streams :
            ReadsIfWhole(files'[Dest(job.streams[n])], list'[job.streams[n]])
  BY JobEnds
<1>2. CASE job.path = OwnPath
  <2>1. job.streams = [s \in DOMAIN list |-> s]
    BY <1>2, PathsAre DEF BackInv, TargetInv
  <2>2. DOMAIN job.streams = DOMAIN list /\ \A s \in DOMAIN list : job.streams[s] = s
    BY <2>1
  <2>3. \A s \in DOMAIN list : Dest(s) = s
    BY <1>2 DEF Dest
  <2>4. ASSUME NEW s \in DOMAIN list' PROVE Readable(files'[s])
    <3>1. TypeInv' /\ OnlyFixesShow'
      BY KeepNext DEF KeepInv
    <3>2. s \in Media /\ files'[s] \in Seq(Packet)
      BY <3>1 DEF TypeInv, ListOk
    <3>3. /\ Len(files'[s]) = Len(Files[s])
          /\ \A k \in DOMAIN Files[s] : SameBut(files'[s][k], Files[s][k])
      BY <3>1, <3>2 DEF OnlyFixesShow, Media
    <3>4. Files[s] \in Seq(Block)
      BY <3>2, PlaylistAssumption DEF Media
    <3>5. DOMAIN files'[s] = DOMAIN Files[s]
      BY <3>2, <3>3, <3>4
    <3> QED BY <3>2, <3>3, <3>5, FixedReadable
  <2> QED BY <1>1, <1>2, <2>2, <2>3, <2>4 DEF ReadsIfWhole, Readable
<1>3. CASE job.path # OwnPath
  <2>1. 1 \in DOMAIN job.streams
    BY <1>3 DEF BackInv, TargetInv
  <2>2. Dest(job.streams[1]) = job.path
    BY <1>3 DEF Dest
  <2> QED BY <1>1, <1>3, <2>1, <2>2
<1> QED BY <1>2, <1>3

(* Of packets the code handles, after an update that completed the files   *)
(* of the playlist read as what is in memory, whatever was fixed before    *)
(* and however often an update was interrupted: the readers invert the     *)
(* writers.                                                                *)
THEOREM FilesReadBack ==
    ASSUME WellFormedFiles, ZeroedMemory, WholeLengths
    PROVE  Spec => ReadsBack
<1>1. Handled
  BY DEF Handled
<1>2. Init => KeepInv /\ BackInv
  <2>1. Init => BackInv
    BY DEF Init, BackInv, TargetInv, DoneInv
  <2> QED BY <1>1, <2>1, KeepInit
<1>3. KeepInv /\ BackInv /\ [Next]_vars => KeepInv' /\ BackInv'
  BY <1>1, KeepNext, BackNext
<1>4. KeepInv /\ BackInv /\ [Next]_vars =>
         (call # Idle /\ job.path = OwnPath /\ call' = Idle /\ list' # <<>> =>
             \A s \in DOMAIN list' : ReadsAgain(files'[s], list'[s]))
  BY <1>1, ReadsBackStep
<1> QED BY <1>2, <1>3, <1>4, PTL DEF Spec, ReadsBack

(* And a stream that was written over another file reads back from there,  *)
(* whether that file was shorter, longer or cut off; unless it was longer  *)
(* and cut off behind the stream, where the program that reads it exits.   *)
THEOREM CopiesReadBack ==
    ASSUME WellFormedFiles, ZeroedMemory, WholeLengths
    PROVE  Spec => CopyReads
<1>1. Handled
  BY DEF Handled
<1>2. Init => KeepInv /\ BackInv
  <2>1. Init => TargetInv /\ DoneInv
    BY DEF Init, TargetInv, DoneInv
  <2> QED BY <1>1, <2>1, KeepInit DEF BackInv
<1>3. KeepInv /\ BackInv /\ [Next]_vars => (KeepInv /\ BackInv)'
  BY <1>1, KeepNext, BackNext
<1>4. KeepInv /\ BackInv /\ [Next]_vars =>
         (call # Idle /\ job.path # OwnPath /\ call' = Idle /\ list' # <<>> =>
             LET stream == list'[job.streams[1]]
                 copy   == files'[job.path]
             IN  (\A k \in DOMAIN copy : k > Len(stream) => Whole(copy[k]))
                    => ReadsAgain(copy, stream))
  BY <1>1, ReadsBackStep DEF ReadsIfWhole
<1> QED BY <1>2, <1>3, <1>4, PTL DEF Spec, CopyReads

-----------------------------------------------------------------------------
(* A file that cannot be read *)

\* Of a playlist with a file that cannot be read, nothing ever gets into memory.
BadInv == list = <<>> /\ call = Idle /\ files = Files \o Outputs

(* Where one media file holds a packet without the sync byte or is cut     *)
(* off, the program exits in every run before it has the playlist in       *)
(* memory: no fix, update or copy ever takes place, of the files that can  *)
(* be read neither, and no file changes (mpegts_parser.c:310-314, 440-444).*)
THEOREM BadFilesStay ==
    ASSUME \E s \in DOMAIN Files : ~ Readable(Files[s])
    PROVE  Spec => [](list = <<>> /\ files = Files \o Outputs)
<1>1. Init => BadInv
  BY DEF Init, BadInv
<1>2. BadInv /\ [Next]_vars => BadInv'
  <2> SUFFICES ASSUME BadInv, [Next]_vars PROVE BadInv'
    OBVIOUS
  <2>1. ~ Parse
    <3>1. PICK s \in DOMAIN Files : ~ Readable(Files[s])
      OBVIOUS
    <3>2. (Files \o Outputs)[s] = Files[s]
      BY PlaylistAssumption
    <3> QED BY <3>1, <3>2 DEF BadInv, Parse, Media
  <2>2. CASE UNCHANGED <<files, list, call>>
    BY <2>2 DEF BadInv
  <2>3. list = <<>> /\ call = Idle /\ ~ Loaded
    BY DEF BadInv, Loaded
  <2>4. DOMAIN list = {}
    BY <2>3
  <2> QED BY <2>1, <2>2, <2>3, <2>4
          DEF Next, vars, ParseExits, FixKeyFrame, UpdatePcr, FixDiscontinuity, BeginUpdate,
              WriteHeader, WritePayload, Exit
<1>3. BadInv => list = <<>> /\ files = Files \o Outputs
  BY DEF BadInv
<1> QED BY <1>1, <1>2, <1>3, PTL DEF Spec
=============================================================================
