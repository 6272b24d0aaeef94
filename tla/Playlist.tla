------------------------------ MODULE Playlist ------------------------------
(***************************************************************************)
(* The HLS editor: hls_parser.c on top of the stream functions of          *)
(* mpegts_parser.c.  hls_parse reads the media files of a playlist into    *)
(* memory, the fixing functions edit what is in memory, and hls_update     *)
(* writes every packet back in place, header and payload with one write()  *)
(* each; a stream may also be written over another file, which is there.   *)
(* The program may end, or be killed, between any two of these writes; the *)
(* files stay and the memory is gone.                                      *)
(*                                                                         *)
(* A file is a sequence of packets; where it is cut off behind a header,   *)
(* the last one has no payload.  Every error of reading ends the program:  *)
(* LOG_ERR is exit().  The playlist names the files of Media in order,     *)
(* each once.                                                              *)
(***************************************************************************)
EXTENDS TsPacket, FiniteSets, SequencesExt

CONSTANTS Files,            \* the media files as they are at first
          Outputs,          \* other files that streams are written to
          Leftovers,        \* what freshly allocated memory may hold
          FixedPid,         \* the 0x100 of hls_fix_discontinuity
          Pids,             \* the pids callers pass
          Ops,              \* the fixing functions callers use
          MaxRuns,          \* bound: how often the program is started
          CopyRuns          \* bound: the starts after which it copies and frees

\* A packet in a file; the payload is there once it has been written.
Block == [head : [1 .. 4 -> Byte], body : Payload \cup {<<>>}]

(* What a segment's memory may hold, and the types of the parameters.      *)
Time   == [base : Nat, ext : Nat]
Memory == [len : Byte, rand_acc : 0 .. 1, has_pcr : 0 .. 1, pcr : Time,
           priv_len : Byte, pts : Nat]

ASSUME PlaylistAssumption ==
    /\ Files \in Seq(Seq(Block))
    /\ Outputs \in Seq(Seq(Block))
    /\ Leftovers \subseteq Memory
    /\ MaxRuns \in Nat

Idle == <<>>

Media == DOMAIN Files
Paths == Len(Files) + 1 .. Len(Files) + Len(Outputs)

VARIABLES files,            \* the media files, then the other ones
          list,             \* playlist->sublist; <<>> when nothing is loaded
          freed,            \* the streams mpegts_stream_free was called for
          job,              \* what is being written: streams, path or OwnPath
          call,             \* the write() that comes next for it, or Idle
          edits,            \* ghost: the fixes applied to the list
          saved,            \* ghost: those of the last update if it completed
          runs              \* ghost: how often the program has been started

vars == <<files, list, freed, job, call, edits, saved, runs>>

OwnPath == 0
NoJob == [streams |-> <<>>, path |-> OwnPath]

\* Memory as malloc returns it from pages never used before.
Clean == [len |-> 0, rand_acc |-> 0, has_pcr |-> 0, pcr |-> [base |-> 0, ext |-> 0],
          priv_len |-> 0, pts |-> 0]

(***************************************************************************)
(* The stream functions: one stream in, one stream out.                    *)
(***************************************************************************)

(* Only the end of the file ends reading; a header without the sync byte,  *)
(* or without a whole payload behind it, ends the program.                 *)
Whole(packet) == IsPacket(packet) /\ packet.body # <<>>

Readable(file) == \A k \in DOMAIN file : Whole(file[k])

read_segment(file, mem) ==
    [k \in DOMAIN file |-> parse_ts_segment(file[k], mem)]

IsKeyFrame(seg, pid) == /\ seg.header.pusi = 1
                        /\ seg.header.pid = pid
                        /\ seg.adaptation_field.has_pcr = 1

fix_keyframe(stream, pid) ==
    [k \in DOMAIN stream |->
        IF IsKeyFrame(stream[k], pid)
        THEN [stream[k] EXCEPT !.adaptation_field.rand_acc = 1]
        ELSE stream[k]]

\* A packet that carries both a clock reference and a time stamp.
HasBothTimes(seg) == /\ seg.adaptation_field.has_pcr = 1
                     /\ seg.pes_header # <<>>
                     /\ seg.pes_header[1].pts # 0

(* The pid the caller gives is not looked at.                              *)
update_pcr_by_pts(stream, pid) ==
    [k \in DOMAIN stream |->
        IF HasBothTimes(stream[k])
        THEN [stream[k] EXCEPT !.adaptation_field.pcr =
                [base |-> stream[k].pes_header[1].pts, ext |-> 0]]
        ELSE stream[k]]

pes_reset_len(stream) ==
    [k \in DOMAIN stream |->
        IF stream[k].pes_header = <<>> THEN stream[k]
        ELSE [stream[k] EXCEPT !.pes_header = << [@[1] EXCEPT !.len = 0] >>]]

\* The counter of the loop behind the first n packets, for every n.
counted(stream, pid, init_cc) ==
    LET cc[n \in 0 .. Len(stream)] ==
            IF n = 0 THEN init_cc
            ELSE IF stream[n].header.pid = pid THEN (cc[n - 1] + 1) % 16 ELSE cc[n - 1]
    IN  cc

\* The packets of pid are counted from init_cc on.
update_cc(stream, pid, init_cc) ==
    LET cc == counted(stream, pid, init_cc)
    IN  [k \in DOMAIN stream |->
            IF stream[k].header.pid = pid
            THEN [stream[k] EXCEPT !.header.continuity_counter = cc[k - 1]]
            ELSE stream[k]]

\* The counter of the last packet of pid.
get_last_cc(stream, pid) ==
    FoldLeft(LAMBDA last, seg : IF seg.header.pid = pid
                                THEN seg.header.continuity_counter ELSE last,
             0, stream)

(***************************************************************************)
(* The playlist functions.                                                 *)
(***************************************************************************)
OnEvery(streams, F(_)) == [s \in DOMAIN streams |-> F(streams[s])]

\* Mutant of first_cc: count on from the last packet of the playlist.
FirstCcContinues(streams) == (get_last_cc(Last(streams), FixedPid) + 1) % 16

first_cc(streams) == 0

\* Mutant of next_cc: the counter is not carried into the next stream.
NextCcForgotten(cc) == 0

next_cc(cc) == cc

\* The counter the first packet of FixedPid in stream s gets, for every s.
first_ccs(streams) ==
    LET cc[s \in 1 .. Len(streams)] ==
            IF s = 1 THEN first_cc(streams)
            ELSE LET last == streams[s - 1]
                 IN  next_cc(counted(last, FixedPid, cc[s - 1])[Len(last)])
    IN  cc

(* The iterator is set before the loop over the pids, so only its first    *)
(* round meets streams; and that round is for the pid 0x100 whatever pids  *)
(* holds.                                                                  *)
fix_discontinuity(streams, pids) ==
    IF pids = <<>> THEN streams
    ELSE LET cc == first_ccs(streams)
         IN  [s \in DOMAIN streams |-> update_cc(streams[s], FixedPid, cc[s])]

Loaded == list # <<>> /\ call = Idle
MediaFiles == SubSeq(files, 1, Len(Files))

Parse == /\ list = <<>> /\ runs < MaxRuns
         /\ \A s \in Media : Readable(files[s])
         /\ \E mem \in Leftovers :
                list' = OnEvery(MediaFiles, LAMBDA file : read_segment(file, mem))
         /\ runs' = runs + 1
         /\ UNCHANGED <<files, freed, job, call, edits, saved>>

(* A media file cannot be opened, or holds a packet that is not whole: the  *)
(* program exits from inside hls_parse, and nothing it read is used.       *)
ParseExits == /\ list = <<>> /\ runs < MaxRuns
              /\ runs' = runs + 1
              /\ UNCHANGED <<files, list, freed, job, call, edits, saved>>

FixKeyFrame(pid) ==
    /\ "key" \in Ops /\ Loaded
    /\ list' = OnEvery(list, LAMBDA stream : fix_keyframe(stream, pid))
    /\ edits' = edits \cup {"key"}
    /\ UNCHANGED <<files, freed, job, call, saved, runs>>

UpdatePcr(pid) ==
    /\ "pcr" \in Ops /\ Loaded
    /\ list' = OnEvery(list, LAMBDA stream : update_pcr_by_pts(stream, pid))
    /\ edits' = edits \cup {"pcr"}
    /\ UNCHANGED <<files, freed, job, call, saved, runs>>

FixDiscontinuity(pids) ==
    /\ "cc" \in Ops /\ Loaded
    /\ list' = fix_discontinuity(list, pids)
    /\ edits' = edits \cup (IF pids = <<>> THEN {} ELSE {"cc"})
    /\ UNCHANGED <<files, freed, job, call, saved, runs>>

\* Called by the program for one stream at a time.
PesResetLen(s) ==
    /\ "len" \in Ops /\ Loaded
    /\ list' = [list EXCEPT ![s] = pes_reset_len(@)]
    /\ edits' = edits \cup {"len"}
    /\ UNCHANGED <<files, freed, job, call, saved, runs>>

\* mpegts_stream_free dequeues and frees every segment, and frees the url.
FreeStream(s) ==
    /\ runs \in CopyRuns /\ Loaded
    /\ s \notin freed
    /\ list' = [list EXCEPT ![s] = <<>>]
    /\ freed' = freed \cup {s}
    /\ UNCHANGED <<files, job, call, edits, saved, runs>>

-----------------------------------------------------------------------------
(* mpegts_stream_write, for every stream of hls_update or for one.         *)

\* The write() calls for some streams: which of them, its packet, header or payload.
HeaderPart == 1
PayloadPart == 2

Writes(streams) ==
    UNION { {n} \X (DOMAIN list[streams[n]]) \X {HeaderPart, PayloadPart} : n \in DOMAIN streams }

Before(v, w) == \/ v[1] < w[1]
                \/ v[1] = w[1] /\ v[2] < w[2]
                \/ v[1] = w[1] /\ v[2] = w[2] /\ v[3] < w[3]

IsFirst(v, writes) == v \in writes /\ \A w \in writes : w = v \/ Before(v, w)

\* The calls that come behind the one to be made.
Rest == {w \in Writes(job.streams) : Before(call, w)}

\* Mutant of Dest: a stream is always written where it came from.
DestOwn(s) == s

Dest(s) == IF job.path = OwnPath THEN s ELSE job.path

Begin(streams, path) == /\ job' = [streams |-> streams, path |-> path]
                        /\ \E first \in Writes(streams) :
                               IsFirst(first, Writes(streams)) /\ call' = first
                        /\ UNCHANGED <<files, list, freed, edits, runs>>

\* A stream that was freed has no url any more: the caller does not update it.
BeginUpdate == /\ Loaded
               /\ freed = {}
               /\ Begin([s \in DOMAIN list |-> s], OwnPath)
               /\ saved' = {}

BeginCopy(s, path) == /\ runs \in CopyRuns /\ Loaded
                      /\ Begin(<<s>>, path)
                      /\ UNCHANGED saved

\* Mutant of WithHead: a file opened for appending.
WithHeadAppended(file, k, h) == Append(file, [head |-> h, body |-> <<>>])

\* The file is neither truncated nor appended to, but it grows.
WithHead(file, k, h) == IF k \in DOMAIN file THEN [file EXCEPT ![k].head = h]
                        ELSE Append(file, [head |-> h, body |-> <<>>])

WriteHeader ==
    /\ call # Idle /\ call[3] = HeaderPart
    /\ LET s == job.streams[call[1]]
           k == call[2]
       IN  files' = [files EXCEPT ![Dest(s)] =
                        WithHead(@, k, write_header(list[s][k].header))]
    /\ \E next \in Rest : IsFirst(next, Rest) /\ call' = next
    /\ UNCHANGED <<list, freed, job, edits, saved, runs>>

(* The fields are put into the segment's own payload, which is then written *)
WritePayload ==
    /\ call # Idle /\ call[3] = PayloadPart
    /\ LET s == job.streams[call[1]]
           k == call[2]
           body == written_payload(list[s][k])
       IN  /\ list'  = [list EXCEPT ![s][k].payload = body]
           /\ files' = [files EXCEPT ![Dest(s)][k].body = body]
    /\ \/ /\ Rest = {}
          /\ call' = Idle
          /\ job' = NoJob
          /\ saved' = IF job.path = OwnPath THEN edits ELSE saved
       \/ /\ \E next \in Rest : IsFirst(next, Rest) /\ call' = next
          /\ UNCHANGED <<job, saved>>
    /\ UNCHANGED <<freed, edits, runs>>

\* The program ends or is killed.
Exit == /\ list # <<>>
        /\ list' = <<>>
        /\ freed' = {}
        /\ job' = NoJob
        /\ call' = Idle
        /\ edits' = {}
        /\ UNCHANGED <<files, saved, runs>>

Init == /\ files = Files \o Outputs
        /\ list = <<>>
        /\ freed = {}
        /\ job = NoJob
        /\ call = Idle
        /\ edits = {}
        /\ saved = {}
        /\ runs = 0

Next == \/ Parse \/ ParseExits
        \/ \E pid \in Pids : FixKeyFrame(pid) \/ UpdatePcr(pid)
        \/ \E pids \in { <<>>, SetToSeq(Pids) } : FixDiscontinuity(pids)
        \/ \E s \in DOMAIN list : \/ PesResetLen(s) \/ FreeStream(s)
                                  \/ \E path \in Paths : BeginCopy(s, path)
        \/ BeginUpdate \/ WriteHeader \/ WritePayload
        \/ Exit

Spec == Init /\ [][Next]_vars

(***************************************************************************)
(* Properties                                                              *)
(***************************************************************************)

TypeOK == /\ DOMAIN files = Media \cup Paths
          /\ \A f \in DOMAIN files : files[f] \in Seq(Block)
          /\ \/ list = <<>>
             \/ /\ DOMAIN list = Media
                /\ \A s \in Media : files[s] \in Seq(Packet)
          /\ \A s \in DOMAIN list : DOMAIN list[s] \subseteq DOMAIN files[s]
          /\ call \in {Idle} \cup Writes(job.streams)
          /\ edits \subseteq Ops /\ saved \subseteq Ops
          /\ runs \in 0 .. MaxRuns

(* The headers in memory and in the files, and the counters of FixedPid in  *)
(* the order of the playlist.                                              *)
ListHeaders == OnEvery(list, LAMBDA stream : [k \in DOMAIN stream |-> stream[k].header])
FileHeaders == OnEvery(MediaFiles, LAMBDA file :
                   [k \in DOMAIN file |-> parse_header(file[k].head)])

\* The places of the packets of FixedPid, in that order.
Fixed(headers) == UNION { {s} \X {k \in DOMAIN headers[s] : headers[s][k].pid = FixedPid}
                          : s \in DOMAIN headers }

Earlier(p, places) == {q \in places : q[1] < p[1] \/ (q[1] = p[1] /\ q[2] < p[2])}

Continuous(headers) ==
    LET places == Fixed(headers)
    IN  \A p \in places :
            headers[p[1]][p[2]].continuity_counter = Cardinality(Earlier(p, places)) % 16

(* Once the playlist has been fixed, the counters of the pid run from 0    *)
(* through all its streams without a gap, in memory and, after an update   *)
(* that completed, in the files (hls_parser.c:150-170).                    *)
CountersRun == /\ "cc" \in edits /\ freed = {} => Continuous(ListHeaders)
               /\ "cc" \in saved => Continuous(FileHeaders)

(* Files whose counters run from 0 never lose that again, whatever is      *)
(* fixed, written or interrupted later.                                    *)
ContinuityStays == [][Continuous(FileHeaders) => Continuous(FileHeaders')]_vars

(* The bytes of a packet that some fix is meant to change: the clock       *)
(* reference and the PES length.                                           *)
MeantToChange(packet) ==
    LET seg   == parse_ts_segment(packet, Clean)
        start == PayloadStart(seg.header, packet.body)
    IN  (IF seg.adaptation_field.has_pcr = 1 THEN 2 .. 7 ELSE {})
        \cup (IF seg.pes_header # <<>> THEN {start + 4, start + 5} ELSE {})

SameBut(packet, old) ==
    /\ \A i \in 1 .. 3 : packet.head[i] = old.head[i]
    /\ packet.head[4] \div 16 = old.head[4] \div 16
    /\ \A i \in Offsets \ MeantToChange(old) :
          \/ packet.body[i] = old.body[i]
          \/ /\ i = 1
             /\ \E pid \in Pids : IsKeyFrame(parse_ts_segment(old, Clean), pid)
             /\ packet.body[1] = WithBit(old.body[1], 6)

(* The packets the code handles: whole, not scrambled, and a field that is  *)
(* there is not empty, has no private data, and has room for the clock reference *)
(* it announces.  Memory is zero where the code forgets to set it.         *)
WellFormed(packet) ==
    /\ Whole(packet)
    /\ packet.head[4] \div 64 = 0
    /\ HasField(parse_header(packet.head)) =>
          /\ packet.body[0] # 0
          /\ ~Flag(At(packet.body, 1), 1)
          /\ Flag(At(packet.body, 1), 4) => packet.body[0] >= 7

WellFormedFiles == \A s \in DOMAIN Files : \A k \in DOMAIN Files[s] : WellFormed(Files[s][k])

(* A PES header that starts in a packet has its length there, too.          *)
WholeLengths ==
    \A s \in DOMAIN Files : \A k \in DOMAIN Files[s] :
        LET packet == Files[s][k]
            start  == PayloadStart(parse_header(packet.head), packet.body)
        IN  parse_pes_header(packet.body, start, Clean) # <<>> => start + 5 \in Offsets

ZeroedMemory == \A mem \in Leftovers : mem.rand_acc = 0 /\ mem.has_pcr = 0 /\ mem.priv_len = 0

(* Whatever is fixed, in whatever order, and wherever an update is         *)
(* interrupted, every file keeps its packets, and every packet all its     *)
(* bits but the counter, the random access flag of a key frame, the clock  *)
(* reference and the PES length (mpegts_parser.c:165-176).  Streams        *)
(* written to other files leave those of the playlist alone.               *)
OnlyFixesShow ==
    \A s \in DOMAIN Files :
        /\ Len(files[s]) = Len(Files[s])
        /\ \A k \in DOMAIN Files[s] : SameBut(files[s][k], Files[s][k])

AllFixes(streams) ==
    LET keyed == OnEvery(streams, LAMBDA stream : fix_keyframe(stream, FixedPid))
        timed == OnEvery(keyed, LAMBDA stream : update_pcr_by_pts(stream, FixedPid))
    IN  fix_discontinuity(timed, <<FixedPid>>)

(* The files after one undisturbed run with all fixes. *)
Goal == LET fixed == AllFixes(OnEvery(Files, LAMBDA file : read_segment(file, Clean)))
        IN  [s \in DOMAIN Files |-> [k \in DOMAIN Files[s] |->
                [head |-> write_header(fixed[s][k].header),
                 body |-> written_payload(fixed[s][k])]]]

(* Bits 7 and 0 of the byte write_pcr ORs into depend on what was there.   *)
UpToSticky(packet) == IF parse_ts_segment(packet, Clean).adaptation_field.has_pcr = 0
                      THEN packet
                      ELSE [packet EXCEPT !.body[6] = (@ % 128) \div 2]

(* A run with all fixes whose update completes leaves the same files       *)
(* whatever earlier runs fixed and wherever they were interrupted, up to   *)
(* two bits of the clock reference.                                        *)
Repaired == saved = {"key", "pcr", "cc"} =>
    \A s \in DOMAIN Files : \A k \in DOMAIN Files[s] :
        UpToSticky(files[s][k]) = UpToSticky(Goal[s][k])

\* The clock reference, the time stamp, and the length of a field that is not there aside.
Forget(seg) ==
    [seg EXCEPT !.adaptation_field.pcr = Clean.pcr,
                !.adaptation_field.len = IF HasField(seg.header) THEN @ ELSE 0,
                !.pes_header = IF @ = <<>> THEN @ ELSE << [@[1] EXCEPT !.pts = 0] >>]

ReadsAgain(file, stream) ==
    LET again == read_segment(file, Clean)
    IN  /\ Readable(file)
        /\ \A k \in DOMAIN stream : /\ k \in DOMAIN again
                                    /\ Forget(again[k]) = Forget(stream[k])

(* After an update, whatever was fixed before and whatever the files and    *)
(* the memory held, the files read as what is in memory, the clock         *)
(* reference and the time stamp aside: the readers invert the writers      *)
(* (mpegts_parser.c:165-176).                                              *)
ReadsBack == [][call # Idle /\ job.path = OwnPath /\ call' = Idle /\ list' # <<>> =>
    \A s \in DOMAIN list' : ReadsAgain(files'[s], list'[s])]_vars

(* A stream written to another path reads back from there, whether that    *)
(* file was shorter or longer, or cut off by a program that ended while    *)
(* it wrote.  What a longer one holds behind the stream stays, and has to  *)
(* be whole: the program that reads it exits there otherwise               *)
(* (mpegts_parser.c:128-142, 310-314).                                     *)
CopyReads == [][call # Idle /\ job.path # OwnPath /\ call' = Idle /\ list' # <<>> =>
    LET stream == list'[job.streams[1]]
        copy   == files'[job.path]
    IN  (\A k \in DOMAIN copy : k > Len(stream) => Whole(copy[k]))
            => ReadsAgain(copy, stream)]_vars

(* After hls_update_pcr_by_pts and an update, the clock reference of a     *)
(* packet is the time stamp it carries (mpegts_parser.c:257).              *)
PcrFollowsPts == "pcr" \in saved =>
    \A s \in Media : \A k \in DOMAIN files[s] :
        LET seg == parse_ts_segment(files[s][k], Clean)
        IN  HasBothTimes(seg) =>
                seg.adaptation_field.pcr = [base |-> seg.pes_header[1].pts, ext |-> 0]
=============================================================================
