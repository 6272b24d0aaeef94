# A verification project for mpegts-reader

mpegts-reader is a small C program (compiled as C++) with two halves that do not
call each other: an audio player that runs GStreamer pipelines on a thread pool,
and an MPEG-TS / HLS editor that reads transport streams, repairs their headers
and writes them back in place. Both rest on a handful of intrusive containers in
`utils/`. This directory holds TLA+ models of the code, TLC runs over small
instances of them, and TLAPS proofs for all instances.

## 1. Inventory

| component | source | state | operations | hard behaviour |
|---|---|---|---|---|
| thread pool | `thread_pool.c` | ring of 16 containers, two cursors, a count, one mutex, one condition variable | `thread_pool_new`, `thread_pool_submit`, the worker `handle_task` | container used after the mutex is released; cursors that wrap; wakeups |
| audio player | `gst_aplay.c` | two play tasks (state, pipeline, loop, type, id, mutex), the next id | play, seek, stop, stop_all, pause, resume, is_playing; handler, pool callback and bus message handler on the workers | three kinds of threads on one task, half of the accesses unlocked; stop against start; task reuse |
| MPEG-TS parser | `mpegts_parser.c` | a list of packets per stream | read, write, continuity counters, key frames, PCR from PTS, PES lengths | bit fields, 33-bit times, in-place writing, packets without adaptation field |
| HLS playlist | `hls_parser.c` | a list of streams | parse, fix key frames, fix discontinuity, update PCR, update files | counters that run across streams; in-place update |
| lists | `utils/cdsl_dlist.c`, `cdsl_slist.c`, `base_list.c` | intrusive nodes, an entry with head and tail | put, dequeue, remove, merge, by priority, iterate | the entry is cast to a node; the tail pointer; nodes that come back with old links |
| trees | `utils/cdsl_avltree.c`, `base_tree.c` | intrusive nodes with a height, the root with a balance factor | insert, set, update, delete with a replacer, delete least and greatest, lookup, traversal | contents and order under rotations and deletion; not used by the program |
| main | `main.c` | none | plays one URI, seeks for ever | |

How they interact. `gst_player_new` makes a pool of two workers whose handler is
`handle_play_task`. `gst_player_play` fills a task in and submits it;
a worker calls the handler, which runs a GLib main loop until it is quit by a stop or
by a bus message, then the user's callback; the pool then calls
`play_task_callback`. Bus messages are dispatched by whichever worker owns GLib's
default main context, so one worker runs `cb_message` for the task of the other.
On the editing side `hls_parse` builds a list of streams, each a list of packets,
the fixing functions walk them, and `hls_update` writes every packet back.

What would make each correct:

- *pool*: an accepted task is handed to one worker, in order, once, and is
  neither lost nor forgotten; a waiting task is taken if a worker is free; a
  refusal means the pool is busy; a container is its worker's own.
- *player*: an idle task is played by nobody; a playback is reported once under
  its own id; a stop is never undone and ends the playback; what is released is
  not used; a medium that ends is reported.
- *parser and playlist*: counters of a pid run without a gap through all the
  streams; a packet written and read again is the same; only the edited fields of
  a file change; a stream written to another file reads back from there.
- *lists and trees*: a list behaves as a sequence, a tree as a collection ordered by
  keys, and every call answers accordingly.

The hazards, each at its line and with the properties aimed at it, are in
`PROJECT.json`.

## 2. Modules

| module | models | corresponds to the code |
|---|---|---|
| `ThreadPool` | `thread_pool.c` | one action per critical section (`Accept`, `Refuse`, `Block`, `Take`); each unlocked access of a worker to its container is an action (`StartHandler`, `Callback`, `Release`) |
| `HandoffQueue` | the abstract promise of a pool | jobs as serial numbers: `Offer`, `Hand`, `Done` |
| `Player` | `gst_aplay.c` on top of `Pool == INSTANCE ThreadPool` | API calls of `Clients`; `handle_play_task` as the program points `at[w]`; `cb_message` as `Dispatch`, `React`, `QuitLoop` |
| `TsPacket` | packet readers and writers of `mpegts_parser.c` | an operator per function, on bytes; no state |
| `Playlist` | stream functions of `mpegts_parser.c`, `hls_parser.c` | `files` on disk, `list` in memory, `job` being written, `call`, the `write()` that comes next; an action per `hls_` function and per `write()` |
| `ListSeq` | the abstract promise of a list library | `items[l]`, a sequence per list; one action per call, with its answer |
| `ListHeap` | `base_list.c` and what the two list libraries share | `next`, the first field of nodes and list heads; the iterator |
| `DList`, `SList` | `cdsl_dlist.c`, `cdsl_slist.c` | an action per function on `next` (and `prev`) |
| `OrderedBag` | the abstract promise of the tree | `contents`, a set of nodes with keys |
| `AvlTree` | `cdsl_avltree.c`, readers of `base_tree.c` | `root`, a tree of records; a recursive function per recursive function, an action per call |
| `ThreadPoolProofs` | | inductive invariant and theorems about `ThreadPool` |
| `PlayerProofs` | | types and stops; then ownership of tasks, reports and releases |
| `ListHeapProofs`, `DListProofs`, `SListProofs`, `ListsProofs` | | walks through a heap of links; each library; both, as instantiated for the run `lists` |
| `PlaylistProofs` | | bits and bytes, types, what a fix may change, counters, reading back |
| `AvlTreeProofs` | | trees and recursion on them, rotations, each call, refinement, lookup, traversals |
| `MCThreadPool`, `MCPlayer`, `MCPlaylist`, `MCLists`, `MCAvlTree` | | instances for TLC |

A definition named after another with a suffix and introduced as "Mutant of X" is a plausible bug;
it is used by no action, and putting it in the place of X must break the property
that `PROJECT.json` names.

**ThreadPool.** `slots`, `to_put`, `to_take` and `size` are the fields of
`struct thread_pool`; a container is a job and its state, IDLE or RUN. A job is the
task pointer with the serial number of its submission: a ghost, as are `took`
(what a worker found in its container), `submitted` and `reported`. The mutex is
not a variable: a critical section that neither blocks nor leaks the mutex is atomic, and
the one that could leak it, the not-idle branch of `handle_task` with a null
callback, is shown never to be reached (`NeverRejects`). The delay before a handler is the time between
`Take` and `StartHandler`. Failing allocations and failing mutex calls are left out.

**Player.** The pool's variables are the player's, and every step of the pool is
taken through `Pool!`. A task's mutex is `lock[s]`: free, held by a worker during
the two steps of its clean-up, or `Leaked` by pause or resume of an idle task.
Clients call anything at any time. `gst_player_play` is three steps because it
takes three locks. GStreamer and GLib are external: `element[p]` is the state of
a pipeline (`set_state` on a null pointer is refused, and may fail for others),
`running[n]` the flag of a loop (`g_main_loop_run` sets it whatever was done
before, `g_main_loop_quit` clears it), `owner` the thread that holds the default
main context, `watch[p]` the task that hears the bus of p. Any message of `Msgs`
may arrive as long as the pipeline is not down. `touched` remembers who used
something after its release, `told` the user callbacks made. The reading of a pointer and its use
in one statement are one step; `gst_player_is_playing` changes nothing and has no action.

**TsPacket and Playlist.** A packet is four header bytes and a payload, a file a
sequence of packets, and a segment has the fields of `mpegts_segement_t` that are
written again or decide what is; `pes_header` is empty for a null pointer. The codecs
work on bytes, since what they do to single bits is what can be wrong with them. Only the end of the
file ends reading: a header without the sync byte (`mpegts_parser.c:442`), a payload that is cut off (`:312`)
and a file that cannot be opened (`:188`) are `LOG_ERR`, which calls `exit` in every build (`gplayer_defs.h:21`;
`Makefile` defines `MAJOR`). `Parse` is the run of `hls_parse` that meets none of these, `ParseExits` the
one that does; any start may fail to open a file, so `ParseExits` has no guard of its own. A last header that is
cut off itself is read like a whole one and fails at its payload, so it is not told from one without a payload.
`update_cc` and `fix_discontinuity` are recursive functions, like the loops. `WritePayload` also
changes the segment, because the code puts its fields into the payload it keeps. `Exit` is
the end of the program, anywhere: the files stay, the list is gone. `edits` and
`saved` are ghosts: the fixes applied since the files were read, and those of the last
update if it completed. Fields that the code leaves uninitialised come from a member of
`Leftovers`; one choice serves all packets of a run, since packets do not
read each other. `BeginUpdate` and `BeginCopy` are `mpegts_stream_write` with the
stream's own path and with another one, `job` says which; a packet without a body is one
whose payload was not written any more; only in a file of `Paths` can there be one. After `FreeStream` the url of the stream is gone,
so a playlist with a freed stream is not updated. Limits: times below 2^31, no scrambled packets, no adaptation field of
length 0 or with private data in the instances (section 6), bytes behind the payload are
no start code, `write()` succeeds, a file that was read can be opened for writing, a playlist is parsed once per run, and the other path
exists (if not, nothing is written, and the answer is 0 as always).

**ListHeap, DList, SList.** A list head is cast to a node all over the code, so cells are nodes
and heads, `next[l]` is the head of the list and `prev[l]` its tail. `Items(l)` is the walk
from the head that every loop of the libraries makes, and the refinement maps
each list to it. `last` is the latest call with its answer, and `ListSeq` constrains both.
Where a call is right only for certain callers, the guard says so, and the module's head lists
these guards with the line that needs them: `Loose` (a node to put in is in
no list), `NotLast` and `NotEmpty` for the calls that forget the tail, `Fresh` for
`cdsl_slistEnqueuePriority`, `IterValid` for iterators whose node has left. Section 6 says what
happens otherwise. `ListSeq` allows what differs between the libraries: what the put calls
answer, and that an iterator may remove nothing.

**AvlTree.** Trees are values: a function that rewrites links through a pointer to a pointer
returns the new subtree. A null pointer is `Nil`, and the recursive functions are functions on `Trees`, the
trees with no more levels than there are nodes. What the code writes twice, for left and right, is one
operator with a side, except where the two differ (`HighAfterInsert`). The
height is a field, as in the code, which compares it and seldom
computes it from both children: nothing in the model is balanced by depth. The replacer of
`cdsl_avltreeDeleteReplace` refuses or is missing (`NoReplacer`), gives a spare node of the same key, or,
if `MayAgree`, agrees without a node (`Null`). For the last case `OrderedBag` says what `base_tree.h:73` says,
that nothing is found, and the code does otherwise (section 6): what is said of `OrderedBag` is said of callers
with `MayAgree = FALSE`.

## 3. Runs

| run | instance | shows |
|---|---|---|
| `pool_ring` | 2 workers, the real ring of 16, 19 submissions | type correctness; the not-idle branch is dead; a holder keeps its job, no two workers share a container and nothing is lost, until the ring comes round; the pool implements `HandoffQueue` with capacity 1; a waiting task is taken if some worker is not in a handler |
| `player_clients` | 2 clients, 2 plays, stop/stop_all/seek, ERROR and BUFFERING | an idle task is played by nobody; every report has its own id, once |
| `player_all_calls` | 1 client, 2 plays, all calls, types and messages | SUCCESS releases pipeline and loop; no use after release by the workers and by stop, pause, resume; a worker is stuck only on a mutex left locked by pause or resume |
| `player_stop` | 2 plays, stop and EOS, fair workers | stop is never undone; once in its loop, a playback that is stopped ends |
| `player_media_end` | 1 play, seek, all messages, a medium that ends | the playback is reported |
| `player_lost_stop`, `player_task_reused` | 1 to 3 plays | violations, see section 6 |
| `playlist_repair` | 2 files with 6 packets, 3 program runs, all fixes, a third file that is cut off | only counter, random access flag, clock reference and PES length of a packet ever change; when an update completes, the files read as what is in memory; a complete run with all fixes leaves the same files whatever happened before; a stream written over another file reads back from there, if what the file holds behind it is whole |
| `playlist_counters` | 3 files, 17 packets of the pid, 2 program runs, counters and PES lengths | the counters run from 0 through all files, and stay so through later updates that are interrupted |
| `playlist_pcr` | 2 files, 1 run | violation, see section 6 |
| `lists` | either library, 2 lists, 3 nodes, 2 priorities, 1 iterator, all calls within the guards of section 2 | a list is the sequence `ListSeq` says after every call, and answers so; the doubly linked one can be walked both ways and its tail is right; no node is in two lists |
| `search_tree` | 7 nodes with 6 keys, balance factors 1 and 2, replacers that refuse or give a node | the tree is the collection `OrderedBag` says after every call, and answers so; traversal, size, least and greatest agree with it; what is there is found |

*Bounds.* Nineteen submissions exceed the ring by three, so every cursor value and a
full turn under a slow worker occur; the task pointer plays no role in the pool,
so one suffices. Two plays fill both tasks, and make the workers compete for the
main context; a third one, which reuses a task, is what the run
`player_task_reused` adds: most of what holds for two plays does not survive it,
and the code gives a caller no way to know when a task may be reused.
Two clients suffice for a call to fall between the locks of another.
Seventeen packets are one more than the counter has values. A payload of 28 bytes
holds the longest header that is read, with a clock reference and two time stamps; no
function looks further. In three program runs the last one meets what two, each interrupted
anywhere, have left. The packets differ in the bits the clock reference depends on. Copies and frees are made in the
last program run only (`CopyRuns`), whose beginning is every state earlier ones can
leave; what an earlier copy can leave, a file cut off in a packet, is what the other file is at first; one of the
two streams covers the packet that is cut off, the other one ends before it. The files of a playlist are whole in the
runs, because with others nothing happens (`BadFilesStay`, section 4).
Three nodes make lists with a first, a middle and a last node, or one
list of two beside one of one, or a node out of use with the links of either; two of the nodes have equal
priority, and these and the lists are interchangeable. Seven tree nodes, two of which share a
key, make trees of depth four, with rotations of both kinds on both sides at and below the root. In `lists`
and `search_tree` `last` is left out of the `VIEW`: no guard and no other variable depends on
it, and TLC checks the refinement on every step it generates, also on one into a state
it knows.

*Fairness.* Weak fairness of every worker's own steps: threads are scheduled.
Handlers of the bare pool may run forever, so returning from one is not fair there. In the player,
`LeaveLoop` is strongly fair: an iteration of a GLib loop dispatches finitely many
sources and then tests the flag, while the model lets dispatches interrupt it
again and again. `MediaEnd`, used by `player_media_end` only, says that the
medium ends. Nothing is assumed of clients, signals, or spurious wakeups.
The lists, the tree and their abstract specifications have no fairness: only their callers act.
Deadlock is checked except in `player_all_calls`, where a leaked mutex can stop everything,
and in the playlist runs, which end when the program is not started again.

## 4. Proofs

Most of the runs' safety properties are theorems, for all values of the constants. Nothing is
assumed beyond what the modules assume of their constants (`PoolAssumption` and its like)
unless it is named below.

**Thread pool.** `TypeOK`, `NeverRejects`, `HolderKeepsJob`, `NoSharedContainer`,
`NothingLost`, and that the pool implements `HandoffQueue` with capacity 1, for every set of
workers and tasks, every ring size of at least 2 and every number of submissions.

The argument is the inductive invariant `IInv`. `CursorInv`: the cursors are equal
when nothing waits and one apart when one task does; it never holds two, because
`get_available` counts a gap of one as full (`FullMeansOne`). `SerialInv`: the serial
in container i is fixed by the distance from i back to `to_put` (`LastInto`), so a
submission overwrites exactly the one QSize before it (`AcceptAges`), and the one
waiting is the newest (`HeadIsNewest`). `HolderInv` and `UniqueInv`: what a worker
holds was handed out, is its own, and is in its container or overwritten by one at
least QSize later. `HandedInv`: what was handed out is held, reported or
overwritten. Type correctness alone is not inductive, since `to_take` stays in range
only because `size` and the cursors agree. One lemma per action shows that it is preserved.
`HandlerHasTask` says what the player relies on: a handler is called with a task that was
submitted, whatever the ring did meanwhile.

**Player.** The types and `StopSticks` (a stop is never undone) hold always. `TInv` is the
pool's invariant, taken over by `PlayerUsesPool` (every step of the player is one of the pool
or leaves it alone), with the types and what ties the program points `at[w]` to the
pool's `pc[w]`, a client's to the id it was given, and a worker's to its message and result.

`IdleMeansFinished`, `ReportsOwnId`, `SuccessReleases` and `NoUseAfterFree` do not hold
of all behaviours: they break when a task is played again before the pool has called
`play_task_callback` for its last playback (run `player_task_reused`), and when the ring comes
round under a slow worker. `TurnsSpec` excludes these two steps (`TakesTurns`, `NotLapped`)
and nothing else, and the four theorems are about it. `TwoPlaysTakeTurns` shows that the
exclusion is empty when there are no more plays than tasks, which is the bound of the passing
runs, so `TwoPlaysAreSafe` is about `Spec` itself. The invariant is `SInv`. Its first part,
`OwnInv`, says that a task is with one of the clients, the queue or the workers at a time, which
is what makes the accesses the code makes without a lock harmless; its second, `KeepInv`, says
for each point of `handle_play_task` which pipeline and loop the worker has, that they are
its own and not yet released, who holds the task's mutex, and what its client has been told.
Without the first the second is not inductive: another play could replace the pipeline
under the worker that runs it.

`OnlyLeaksStopWorkers` is about `Spec` again: workers never wait for each other in a circle, and
the only mutex that is never given back is one that pause or resume left locked. `CanStep(w)` writes
out what the worker's next step asks for. `BlockInv` says that a worker holds a mutex only between the
two halves of the clean-up, where nothing stops it, and that the main context's owner is the one worker that
iterates it, so whoever waits for either waits for a worker that steps or waits for a message.

**Lists.** That both libraries implement `ListSeq`, and `TwoWays` and `Chains`, for all
lists, nodes and priorities. `ListsProofs` carries this over to the specification that the run `lists`
checks. `HeapInv` says that the links lay sequences out (`Walks`): the provers cannot do
induction over a sequence here, so that a loop finds its node, or that `Items` is a
walk, is shown by the least counterexample, and `LinkIn` and `LinkOut` say once and for all what
linking a node in and out does to every walk. One lemma per call says which of the two it is.
For the doubly linked list `DInv` adds that each `prev` is the way back (`BackIn`,
`BackOut`; a replacement is one out and one in).

**Playlist.** `TypeOK`, `CountersRun` and `ContinuityStays` hold for all files,
whatever their packets hold, for every payload size and every content of uninitialised memory.
A loop of the code is a recursive function on the packets; that it ends, and what it has
computed at each packet, is again shown by the least counterexample (`LoopsEnd`).
`DiscontinuityRuns` gives the counters that `hls_fix_discontinuity` sets a closed form: the
counter of a packet is the number of packets of its pid before it, in its and all earlier streams
(`Earlier`), modulo 16. `CounterInv` says that in memory the counters are those or the ones that were
read, that the packets an update has passed have them in the file, and that files that had
them keep them: in the middle of an update, every counter is the old or the new one, and both
run.

`OnlyFixesShow`, `ReadsBack` and `CopyReads` assume `WellFormedFiles` and `ZeroedMemory`,
and the last two `WholeLengths`; section 6 says what the code does to other packets, and
`MCPlaylist` has TLC evaluate what is assumed of its files. `CopyReads` excepts what its reader exits on: a stream that
ends before a packet that is cut off. `BadFilesStay` is the other side of the exits: if a
media file is not whole, nothing is ever loaded or written. `HeaderKept` says that
the header's writer inverts its reader. The invariant for `OnlyFixesShow` is that every segment
in memory stands for its packet (`Kept`, `BodyKept`): writing it at any time changes but the fields named,
because adaptation field and PES header lie apart (`PartsApart`). For `ReadsBack` and
`CopyReads`, `BackInv` says that of the streams being written everything before the next `write()` is in the file and
settled, that is, reads as the segment in memory; `ReadWritten` is the lemma that a written
packet does.

**Tree.** `Found` and `Ordered`, for all nodes, keys and balance factors from 1 and every replacer, and that the tree
implements `OrderedBag` if replacers that agree give a node (`~MayAgree`). Of a tree the provers know nothing but how `Upto` builds it, so the
first lemmas are induction on trees (`TreeInduction`, by the least number of levels) and recursion (`TreeRecursion`, by the
least relation that has the steps of the function: that there is a function like `insert_rc[t]` at all has to be
proved). `OneWay` is the form for functions that go down one side only, and
`DeleteEndEquation` goes by levels, because of some trees `Settle` makes no tree (the height read is that of a missing child).

The invariant is `Good(root)`. `Sorted` says that each node is between its subtrees and in neither;
`SortedFits` concludes that the tree is within `Trees`, so the functions are applied where
they are defined. `Low` says that no leaf is higher than 1. Heights are otherwise arbitrary, since the code sets them
from one child only, and `tree_update` leaves the 0 of the new node: balance plays no part in any
of the theorems. But without `Low` a leaf could be taken for a subtree to be rotated, and
the child whose height the code reads after the rotation might be missing. Rotations keep
what a tree holds (`Same`, `SameIs`), and for each recursive function a lemma says what its
answer holds, that it is `Good`, and what it answers (`InsertIs`, `TakeIs`, `SettleIs`,
`DeleteEndIs`, `DeleteIs`, `UpdateIs`). `SeekFinds` and `PickFinds` follow the lookups. For
`Ordered`, `Order(d)` is the sequence of a tree's nodes; `OrderSorted`, `OrderHas` and
`OrderTurned` say what it is, and `ForeachIs` that a traversal visits it as far as the break.

**What stays with TLC.** Liveness (`StopEnds`, `PlaybackEnds`, `WaitingTaskIsTaken`) and `ENABLED` are
out of the prover's reach: of `OnlyLeaksBlock` the first conjunct, `OnlyLeaksStop`, is a theorem, and the
second, that a worker can step exactly when `CanStep` says so, is checked by TLC in the run `player_all_calls`. `Repaired` is not
a theorem as it stands: clock references take up old bits each time they are read and written (section 6),
so that complete runs leave the same files only for packets like those of the run, and for
one pid and no reset of PES lengths.

## 5. Plan

1. `ThreadPool`, `HandoffQueue`, `Player` and the pool's proofs: done.
2. `TsPacket` and `Playlist`: done, but for a playlist parsed twice or within another one.
3. `DList`, `SList`, `AvlTree` and what they implement: done.
4. Proofs: the pool, the player, the lists, and of the playlist types, changed bytes,
   counters and reading back, and the tree: done.
5. Next: a form of `Repaired` that holds for all well-formed files (its clock references have to
   be described as the code computes them).

## 6. Divergences met while modelling

- `get_available` reports no room as soon as one task waits: the queue of 16 holds one
  (no run of its own: `HandoffQueue` with capacity 1 is what the pool implements), so a
  second task is refused while both workers are free.
- A stop before `g_main_loop_run` is lost, and the task is never idle again.
- The task goes idle before its callbacks have run; a play in between is marked idle by
  `play_task_callback` while it plays, and stop ignores it. (For the same reason the
  user callback may carry the id of the next playback.)
- `write_pcr` and `parse_pcr` treat the lowest bit of the clock reference's base as its bit 7,
  and old bits of that byte stay: the clock reference set from a time stamp reads back as another
  (`playlist_pcr`), and even an update without any fix may change one.
- Without a run, in the editor: one packet that is not whole ends the program inside `hls_parse`
  (above), also when the other files could be repaired; an adaptation field of length 0, or with private data, makes the
  writer put the PES header in the wrong place (`mpegts_parser.c:591`, `:593`); a packet
  without an adaptation field is given the one that was in its memory (`:78`), which with
  `Leftovers <- AnyMemory` violates `OnlyFixesShow`; the scrambling bits are lost (`:454`); time
  stamps of PES headers of length 0 are not read (`:681`); `hls_fix_discontinuity` fixes the
  pid 0x100 whatever it is given (`hls_parser.c:166`), and also counts packets that carry an adaptation field only;
  `hls_update_pcr_by_pts` ignores its pid. `WellFormedFiles`, `ZeroedMemory` and
  `WholeLengths`, the assumptions of some theorems, exclude the first two of these, a field too short for
  the clock reference it announces, scrambled packets, and PES headers cut off before their length.
- Without a run, in the player: a playback stopped before its loop exists is reported canceled
  (`gst_aplay.c:284`), but its pipeline was set PLAYING and is neither stopped nor released;
  `cb_message` runs without a lock on the other task's worker and may use what that
  task's own worker has just released (`:301`, `:348`); pause and resume of an idle task leave its mutex locked
  (`gst_aplay.c:214`, `:234`); a refused play leaves its released pipeline in the task, where
  seek uses it (`:133`, `:156`); buffering messages are ignored exactly while the task
  plays (`:375`); after sixteen later submissions a slow worker's callback is given another
  task (`thread_pool.c:144`).

- Without a run, in the lists: `cdsl_dlistIterRemove` links around the wrong node and removes
  nothing (`cdsl_dlist.c:190`). The tail of a list is wrong after dequeuing its only node (`:55`),
  after putting by priority into an empty list (`:43`), and after removing, replacing or inserting behind its last node (`:138`,
  `:149`, `:71`); what uses the tail next follows a stale or a null pointer. In the singly linked list, merging into an
  empty list reads a null pointer (`cdsl_slist.c:27`), putting by priority at the end
  keeps the node's old link (`:47`), and `cdsl_slistRemoveAt` does not look at the size (`:145`). The
  program makes none of these calls, but for the dequeuing in `mpegts_stream_free`, after which the list is not used.
- Without a run, in the tree: "balance factor for AVL tree" (`cdsl_avltree.h:147`) is not kept: at
  factor 1, inserting 10, 30, 31, 20 and deleting the key of 31 leaves a root with a left side of depth
  two and no right one, since `delete_rc` does not rebalance a node it fills. With factor 0
  a height is read through a null pointer (`cdsl_avltree.c:242`, `:250`). After a rotation a node of an equal key
  may stand on the right, where `cdsl_avltreeConditionalLookup` does not look (`cdsl_avltree.h:201`). A replacer that agrees without giving a
  node is to mean "the element not found. nothing happen" (`base_tree.h:73`), but the node is answered as the
  "deleted item" (`cdsl_avltree.h:216`) while it stays in the tree (`cdsl_avltree.c:322`, `:146`, `:206`): with
  `MayAgree = TRUE` in `MCAvlTree.cfg`, `BagSpec` is violated after two calls.

## 7. Not modelled

Sorting (`sort.h`) and the command line of `main.c`; logging and printing; failing
allocations. GStreamer and GLib beyond what is described above.
A playlist that is parsed twice or hangs in another one (`hls_playlist_init` with a parent, which
no caller gives). Of the tree, comparing, printing, the depth and the traversal to a target.
Printing of streams and lists.
