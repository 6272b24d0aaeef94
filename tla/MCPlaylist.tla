----------------------------- MODULE MCPlaylist -----------------------------
(* Instances of Playlist for TLC: packets as they occur in media files, with *)
(* a payload just long enough for the longest of their headers.              *)
EXTENDS Playlist

Head4(pid, pusi, afc, cc) == <<71, 64 * pusi + (pid \div 256), pid % 256, 16 * afc + cc>>

\* Stuffed with the byte v.
Body(bytes, v) == [i \in Offsets |-> IF i + 1 \in DOMAIN bytes THEN bytes[i + 1] ELSE v]

Pkt(head, body) == [head |-> head, body |-> body]

Video == 256
Audio == 257

\* A clock reference with an odd base and set reserved bits, then a PES
\* header with a time stamp whose bit 7 is clear.
KeyA == Pkt(Head4(Video, 1, 3, 3),
            Body(<<7, 16, 0, 1, 2, 10, 254, 20,
                   0, 0, 1, 224, 1, 12, 128, 128, 5, 33, 0, 1, 2, 5>>, 255))

\* An even base, an odd time stamp, a second time stamp, the flag already set.
KeyB == Pkt(Head4(Video, 1, 3, 9),
            Body(<<7, 80, 0, 0, 0, 77, 126, 0,
                   0, 0, 1, 224, 0, 12, 128, 192, 10, 49, 0, 1, 0, 3, 17, 0, 1, 0, 1>>, 255))

\* Audio without an adaptation field: the PES header comes first.
Sound == Pkt(Head4(Audio, 1, 1, 4),
             Body(<<0, 0, 1, 192, 2, 3, 128, 128, 5, 33, 0, 1, 0, 9>>, 6))

More     == Pkt(Head4(Video, 0, 1, 4), Body(<<16, 0, 7>>, 9))
Stuffed  == Pkt(Head4(Video, 0, 3, 15), Body(<<3, 0, 255, 255, 1>>, 2))
ClockOnly == Pkt(Head4(Video, 0, 2, 5),
                 Body(<<PayloadSize - 1, 16, 0, 0, 1, 3, 126, 1>>, 255))
HighPid  == Pkt(Head4(6700, 0, 1, 15), Body(<<0, 2>>, 4))

\* Two media files: every kind of packet.
TwoFiles == << <<KeyA, Sound, HighPid, ClockOnly>>, <<KeyB, More>> >>

\* Seventeen packets of one pid over three files, the second without any.
LongFiles == << [k \in 1 .. 9 |-> IF k = 1 THEN KeyA ELSE More],
                <<Sound>>,
                [k \in 1 .. 9 |-> IF k = 2 THEN HighPid ELSE Stuffed] >>

\* A file that is there before a stream is written to it; its last packet has
\* been cut off by a program that ended.  The first stream covers it, the
\* second does not.
Copies == << <<HighPid, More, [KeyB EXCEPT !.body = <<>>]>> >>
NoOutputs == <<>>

\* What a segment freed earlier leaves behind.
Stale == [len |-> 7, rand_acc |-> 1, has_pcr |-> 1, pcr |-> [base |-> 300, ext |-> 260],
          priv_len |-> 2, pts |-> 90000]

CleanMemory == {Clean}
AnyMemory   == {Clean, Stale}

ASSUME FilesAreWellFormed == WellFormedFiles /\ WholeLengths
=============================================================================
