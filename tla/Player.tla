------------------------------- MODULE Player -------------------------------
(***************************************************************************)
(* The audio player of gst_aplay.c on top of the worker pool: two play     *)
(* tasks, each with a mutex, played by the pool's threads while other      *)
(* threads call the API.                                                   *)
(*                                                                         *)
(* A critical section of a task mutex is one action, except where code     *)
(* that takes no lock can tell its parts apart: the clean-up of a finished *)
(* playback is two, since cb_message, which runs on whichever worker owns  *)
(* the main context, reads task->pipeline and task->loop unlocked.         *)
(*                                                                         *)
(* GStreamer and GLib are external: an element has a state and a lifetime, *)
(* a loop a running flag, and the default main context one owner.          *)
(***************************************************************************)
EXTENDS Integers

CONSTANTS Clients,      \* threads that call the API
          Workers,      \* the pool's threads
          NoTask, Free, Leaked, NoWorker,   \* model values
          QSize,        \* the pool's TASK_QUEUE_SIZE
          MaxPlays,     \* bound: calls of gst_player_play
          Ops,          \* the API calls the clients make besides play
          Types,        \* the play types they ask for
          Msgs          \* the bus messages a pipeline may post

TASK_QSZ == 2
Tasks    == 0 .. TASK_QSZ - 1
Plays    == 1 .. MaxPlays        \* play id + 1; 0 stands for a null pointer

ASSUME PlayerAssumption ==
    /\ MaxPlays \in Nat
    /\ QSize \in Nat \ {0, 1}
    /\ Ops \subseteq {"stop", "stop_all", "seek", "pause", "resume"}
    /\ Types \subseteq {"SINGLE", "LOOP"}
    /\ Msgs \subseteq {"ERROR", "EOS", "BUFFERING", "BUFFERED", "CLOCK_LOST"}
    /\ NoTask \notin Tasks
    /\ {Free, Leaked, NoWorker} \cap Workers = {}

VARIABLES
    \* the worker pool, see ThreadPool
    slots, to_put, to_take, size, pc, container, arg, took, submitted, reported,
    \* the player: player->id, player->tasks, and the mutex of each task
    id, task, lock,
    client,      \* where each client is in gst_player_play or _stop_all
    at,          \* where each worker is in handle_play_task
    bus,         \* the worker's local variable: the pipeline whose bus it is
    loop,        \* the loop the worker is running
    result,      \* the result handle_play_task will report to the user
    msg,         \* the message the worker is dispatching
    \* external: GStreamer elements, GLib loops, the default main context
    element, watch, running, owner,
    \* ghosts: user callbacks made, play of each submission, use after free
    told, playOf, touched

pool   == <<slots, to_put, to_take, size, pc, container, arg, took, submitted,
            reported>>
player == <<id, task, lock, client>>
local  == <<at, bus, loop, result, msg>>
extern == <<element, watch, running, owner>>
ghost  == <<told, playOf, touched>>
vars   == <<slots, to_put, to_take, size, pc, container, arg, took, submitted,
            reported, id, task, lock, client, at, bus, loop, result, msg,
            element, watch, running, owner, told, playOf, touched>>

Pool == INSTANCE ThreadPool WITH MaxSubmits <- MaxPlays

\* Mutant of TaskOf: every play gets the first task.
TaskOfFirst(p) == 0

\* The task of a play id: play_task_id & TASK_QMSK.
TaskOf(p) == p % TASK_QSZ

NoMsg == [task |-> NoTask, kind |-> "none"]

Init == /\ Pool!Init
        /\ id = 0
        /\ task = [s \in Tasks |-> [state |-> "IDLE", pipeline |-> 0, loop |-> 0,
                                    type |-> "SINGLE", id |-> 0]]
        /\ lock = [s \in Tasks |-> Free]
        /\ client = [c \in Clients |-> [at |-> "idle", id |-> 0]]
        /\ at = [w \in Workers |-> "pool"]
        /\ bus = [w \in Workers |-> 0]
        /\ loop = [w \in Workers |-> 0]
        /\ result = [w \in Workers |-> "none"]
        /\ msg = [w \in Workers |-> NoMsg]
        /\ element = [p \in Plays |-> "none"]
        /\ watch = [p \in Plays |-> NoTask]
        /\ running = [n \in Plays |-> "none"]
        /\ owner = NoWorker
        /\ told = {}
        /\ playOf = [n \in Plays |-> 0]
        /\ touched = {}

-----------------------------------------------------------------------------
(* GStreamer and GLib (external) *)

\* gst_element_set_state: refuses a null pointer; a freed element is not ours.
Set(p, st) == IF p = 0 \/ element[p] = "freed" THEN element
              ELSE [element EXCEPT ![p] = st]

\* Who used a pointer to something already freed.
Touch(who, p, l) ==
    touched' = IF \/ p # 0 /\ element[p] = "freed"
                  \/ l # 0 /\ running[l] = "freed"
               THEN touched \cup {who} ELSE touched

\* g_main_loop_quit: nothing for a null pointer; a loop that is not running
\* yet is not running afterwards either.
Quit(l) == IF l = 0 \/ running[l] = "freed" THEN running
           ELSE [running EXCEPT ![l] = "no"]

-----------------------------------------------------------------------------
(* What the player does with them *)

\* Mutant of Released: stopped, but not unreferenced.
ReleasedNot(p) == Set(p, "NULL")

\* The pipeline is stopped and unreferenced.
Released(p) == Set(p, "freed")

\* Mutant of QuitTask: the loop goes on.
QuitTaskNot(s) == running

\* g_main_loop_quit on the loop the task points to.
QuitTask(s) == Quit(task[s].loop)

\* Mutant of Withdrawn: the task stays in state START.
WithdrawnNot(s) == task

\* A task the pool refused is idle again; its pointers are left as they are.
Withdrawn(s) == [task EXCEPT ![s].state = "IDLE"]

\* Mutant of Canceled: a stop is not looked for.
CanceledNever(s) == FALSE

Canceled(s) == task[s].state = "CANCEL"

\* Mutant of Unlocked: an early return without unlocking.
UnlockedNot(s) == lock

\* The end of the clean-up's critical section.
Unlocked(s) == [lock EXCEPT ![s] = Free]

\* Mutant of Outcome: the result is not kept.
OutcomeLost(w, r) == result

\* What handle_play_task will report.
Outcome(w, r) == [result EXCEPT ![w] = r]

-----------------------------------------------------------------------------
(* The API, called by clients *)

\* gst_player_play, under the player's mutex: the next id.
PlayId(c) == /\ client[c].at = "idle"
             /\ id < MaxPlays
             /\ id' = id + 1
             /\ client' = [client EXCEPT ![c] = [at |-> "prepare", id |-> id]]
             /\ UNCHANGED <<pool, task, lock, local, extern, ghost>>

\* Under the task's mutex: give up unless the task is idle, else fill it in.
\* gst_parse_launch may fail, and the task then holds a null pipeline.
PlayPrepare(c) ==
    LET p == client[c].id
        s == TaskOf(p)
    IN  /\ client[c].at = "prepare"
        /\ lock[s] = Free
        /\ \/ /\ task[s].state # "IDLE"
              /\ client' = [client EXCEPT ![c].at = "idle"]
              /\ UNCHANGED <<task, element>>
           \/ /\ task[s].state = "IDLE"
              /\ client' = [client EXCEPT ![c].at = "submit"]
              /\ \E pipeline \in {0, p + 1}, type \in Types :
                    /\ task' = [task EXCEPT ![s] =
                                 [@ EXCEPT !.id = p, !.pipeline = pipeline,
                                           !.type = type, !.state = "START"]]
                    /\ element' = IF pipeline = 0 THEN element
                                  ELSE [element EXCEPT ![pipeline] = "NULL"]
        /\ UNCHANGED <<pool, id, lock, local, watch, running, owner, ghost>>

\* Under the task's mutex again: hand the task to the pool, or, when that is
\* busy, give it up; the pointer to the released pipeline stays in the task.
PlaySubmit(c) ==
    LET s == TaskOf(client[c].id)
    IN  /\ client[c].at = "submit"
        /\ lock[s] = Free
        /\ client' = [client EXCEPT ![c].at = "idle"]
        /\ \/ /\ Pool!Accept(s)
              /\ playOf' = [playOf EXCEPT ![submitted + 1] = client[c].id + 1]
              /\ UNCHANGED <<task, element, touched>>
           \/ /\ Pool!Refuse
              /\ task' = Withdrawn(s)
              /\ Touch("play", task[s].pipeline, 0)
              /\ element' = Released(task[s].pipeline)
              /\ UNCHANGED playOf
        /\ UNCHANGED <<id, lock, local, watch, running, owner, told>>

\* gst_player_seek asks no state: it uses whatever pointer the task holds.
Seek(c, s) == /\ client[c].at = "idle"
              /\ lock[s] = Free
              /\ Touch("seek", task[s].pipeline, 0)
              /\ UNCHANGED <<pool, player, local, extern, told, playOf>>

\* The body of gst_player_stop.
StopTask(s) ==
    /\ lock[s] = Free
    /\ IF task[s].state = "IDLE"
       THEN UNCHANGED <<task, element, running, touched>>
       ELSE /\ Touch("stop", task[s].pipeline, task[s].loop)
            /\ element' = Set(task[s].pipeline, "READY")
            /\ running' = QuitTask(s)
            /\ task' = [task EXCEPT ![s].state = "CANCEL"]
    /\ UNCHANGED <<pool, id, lock, local, watch, owner, told, playOf>>

Stop(c, s) == client[c].at = "idle" /\ StopTask(s) /\ UNCHANGED client

\* gst_player_stop_all: task 0, then task 1.
StopAll(c) == /\ client[c].at = "idle"
              /\ StopTask(0)
              /\ client' = [client EXCEPT ![c].at = "stop_all"]

StopAllNext(c) == /\ client[c].at = "stop_all"
                  /\ StopTask(1)
                  /\ client' = [client EXCEPT ![c].at = "idle"]

\* gst_player_pause and gst_player_resume: on an idle task both return
\* without unlocking.
PauseOrResume(c, s, st) ==
    /\ client[c].at = "idle"
    /\ lock[s] = Free
    /\ IF task[s].state = "IDLE"
       THEN /\ lock' = [lock EXCEPT ![s] = Leaked]
            /\ UNCHANGED <<element, touched>>
       ELSE /\ Touch("pause", task[s].pipeline, 0)
            /\ element' = Set(task[s].pipeline, st)
            /\ UNCHANGED lock
    /\ UNCHANGED <<pool, id, task, client, local, watch, running, owner, told,
                   playOf>>

Pause(c, s)  == PauseOrResume(c, s, "PAUSED")
Resume(c, s) == PauseOrResume(c, s, "PLAYING")

Client(c) == \/ PlayId(c) \/ PlayPrepare(c) \/ PlaySubmit(c)
             \/ "stop_all" \in Ops /\ StopAll(c)
             \/ StopAllNext(c)
             \/ \E s \in Tasks : \/ "seek" \in Ops /\ Seek(c, s)
                                 \/ "stop" \in Ops /\ Stop(c, s)
                                 \/ "pause" \in Ops /\ Pause(c, s)
                                 \/ "resume" \in Ops /\ Resume(c, s)

-----------------------------------------------------------------------------
(* handle_play_task, run by the pool's workers *)

MyTask(w) == arg[w].task

\* The worker moves from one program point to another.
Go(w, from, to) == at[w] = from /\ at' = [at EXCEPT ![w] = to]

Enter(w) == /\ Pool!StartHandler(w)
            /\ Go(w, "pool", "start")
            /\ UNCHANGED <<player, bus, loop, result, msg, extern, ghost>>

\* gst_element_get_bus(p_task->pipeline), without the lock.
GetBus(w) == /\ Go(w, "start", "set_state")
             /\ bus' = [bus EXCEPT ![w] = task[MyTask(w)].pipeline]
             /\ Touch("handler", task[MyTask(w)].pipeline, 0)
             /\ UNCHANGED <<pool, player, loop, result, msg, extern, told, playOf>>

\* gst_element_set_state(PLAYING), without the lock; it may fail.
SetPlaying(w) ==
    LET p == task[MyTask(w)].pipeline
    IN  /\ at[w] = "set_state"
        /\ \/ /\ p # 0
              /\ Go(w, "set_state", "check")
              /\ element' = Set(p, "PLAYING")
              /\ UNCHANGED result
           \/ /\ Go(w, "set_state", "user")
              /\ result' = Outcome(w, "UNABLE_TO_PLAY")
              /\ UNCHANGED element
        /\ Touch("handler", p, 0)
        /\ UNCHANGED <<pool, player, bus, loop, msg, watch, running, owner, told,
                       playOf>>

\* Under the lock: give up when stopped meanwhile, else make the loop and
\* watch the bus.  A loop is known by the submission whose worker made it.
CheckState(w) ==
    LET s == MyTask(w)
        n == arg[w].sub
    IN  /\ at[w] = "check"
        /\ lock[s] = Free
        /\ \/ /\ ~Canceled(s)
              /\ Go(w, "check", "run")
              /\ task' = [task EXCEPT ![s].state = "PLAYING", ![s].loop = n]
              /\ running' = [running EXCEPT ![n] = "no"]
              /\ watch' = IF bus[w] = 0 THEN watch ELSE [watch EXCEPT ![bus[w]] = s]
              /\ UNCHANGED result
           \/ /\ Canceled(s)
              /\ Go(w, "check", "user")
              /\ result' = Outcome(w, "CANCELED")
              /\ UNCHANGED <<task, running, watch>>
        /\ UNCHANGED <<pool, id, lock, client, bus, loop, msg, element, owner, ghost>>

\* g_main_loop_run(p_task->loop) marks the loop running, whatever g_main_loop_quit
\* did to it before, and waits for the context; a null loop returns at once.
RunLoop(w) ==
    LET l == task[MyTask(w)].loop
    IN  /\ at[w] = "run"
        /\ Go(w, "run", IF l = 0 THEN "clean" ELSE "waiting")
        /\ loop' = [loop EXCEPT ![w] = l]
        /\ Touch("handler", 0, l)
        /\ running' = IF l = 0 \/ running[l] = "freed" THEN running
                      ELSE [running EXCEPT ![l] = "yes"]
        /\ UNCHANGED <<pool, player, bus, result, msg, element, watch, owner, told,
                       playOf>>

\* Only one thread iterates the default context.
Acquire(w) == /\ Go(w, "waiting", "looping")
              /\ running[loop[w]] = "yes"
              /\ owner = NoWorker
              /\ owner' = w
              /\ UNCHANGED <<pool, player, bus, loop, result, msg, element, watch,
                             running, ghost>>

\* The loop was quit: g_main_loop_run returns, and the context is released.
LeaveLoop(w) == /\ at[w] \in {"waiting", "looping"}
                /\ running[loop[w]] # "yes"
                /\ Go(w, at[w], "clean")
                /\ owner' = IF owner = w THEN NoWorker ELSE owner
                /\ UNCHANGED <<pool, player, bus, loop, result, msg, element, watch,
                               running, ghost>>

\* Locked: release loop, bus and pipeline, which is stopped first ...
CleanUp(w) == LET s == MyTask(w)
                  p == task[s].pipeline
                  l == task[s].loop
              IN  /\ Go(w, "clean", "reset")
                  /\ lock[s] = Free
                  /\ lock' = [lock EXCEPT ![s] = w]
                  /\ Touch("handler", p, l)
                  /\ element' = Released(p)
                  /\ running' = IF l = 0 THEN running
                                ELSE [running EXCEPT ![l] = "freed"]
                  /\ UNCHANGED <<pool, id, task, client, bus, loop, result, msg,
                                 watch, owner, told, playOf>>

\* ... then clear the pointers, go idle, unlock.
Reset(w) == LET s == MyTask(w)
            IN  /\ Go(w, "reset", "user")
                /\ task' = [task EXCEPT ![s].pipeline = 0, ![s].loop = 0,
                                        ![s].state = "IDLE"]
                /\ lock' = Unlocked(s)
                /\ result' = Outcome(w, "SUCCESS")
                /\ UNCHANGED <<pool, id, client, bus, loop, msg, extern, ghost>>

\* The user's callback, with the id the task holds by now.
UserCallback(w) ==
    /\ Go(w, "user", "return")
    /\ told' = told \cup {[sub |-> arg[w].sub, id |-> task[MyTask(w)].id,
                           res |-> result[w]]}
    /\ UNCHANGED <<pool, player, bus, loop, result, msg, extern, playOf, touched>>

Return(w) == /\ Pool!HandlerReturns(w)
             /\ Go(w, "return", "pool")
             /\ bus' = [bus EXCEPT ![w] = 0]
             /\ loop' = [loop EXCEPT ![w] = 0]
             /\ result' = [result EXCEPT ![w] = "none"]
             /\ UNCHANGED <<player, msg, extern, ghost>>

\* The pool calls play_task_callback: the task goes idle, under its lock.
TaskCallback(w) == LET s == slots[container[w]].job.task
                   IN  /\ Pool!Callback(w)
                       /\ lock[s] = Free
                       /\ task' = [task EXCEPT ![s].state = "IDLE"]
                       /\ UNCHANGED <<id, lock, client, local, extern, ghost>>


-----------------------------------------------------------------------------
(* cb_message, run by the worker that owns the context, without any lock *)

\* A watched bus delivers a message, unless the pipeline is down: the bus of
\* a pipeline in state NULL has been flushed.
Dispatch(w, p, kind) ==
    /\ Go(w, "looping", "message")
    /\ watch[p] # NoTask
    /\ element[p] \notin {"NULL", "freed"}
    /\ msg' = [msg EXCEPT ![w] = [task |-> watch[p], kind |-> kind]]
    /\ UNCHANGED <<pool, player, bus, loop, result, extern, ghost>>

\* ERROR, and EOS of a SINGLE playback, end it: the pipeline is stopped, and
\* in a second step the loop is quit.
Ends(m) == \/ m.kind = "ERROR"
           \/ m.kind = "EOS" /\ task[m.task].type = "SINGLE"

\* BUFFERING is ignored while the task is PLAYING.
Ignored(m) == m.kind \in {"BUFFERING", "BUFFERED"} /\ task[m.task].state = "PLAYING"

\* The state a message puts the pipeline in (CLOCK_LOST pauses it before).
StateFor(m) == CASE Ends(m)               -> "READY"
                 [] m.kind = "BUFFERING"  -> "PAUSED"
                 [] m.kind = "BUFFERED"   -> "PLAYING"
                 [] m.kind = "CLOCK_LOST" -> "PLAYING"

React(w) ==
    LET m == msg[w]
        p == task[m.task].pipeline
    IN  /\ at[w] = "message"
        /\ \/ Ends(m) /\ Go(w, "message", "quit") /\ UNCHANGED msg
           \/ ~Ends(m) /\ Go(w, "message", "looping") /\ msg' = [msg EXCEPT ![w] = NoMsg]
        /\ \/ Ignored(m) /\ UNCHANGED <<element, touched>>
           \/ /\ ~Ignored(m)
              /\ Touch("message", p, 0)
              /\ element' = IF m.kind = "EOS" /\ ~Ends(m)
                            THEN element       \* LOOP: seek to the start
                            ELSE Set(p, StateFor(m))
        /\ UNCHANGED <<pool, player, bus, loop, result, watch, running, owner,
                       told, playOf>>

QuitLoop(w) == LET l == task[msg[w].task].loop
               IN  /\ Go(w, "quit", "looping")
                   /\ msg' = [msg EXCEPT ![w] = NoMsg]
                   /\ Touch("message", 0, l)
                   /\ running' = QuitTask(msg[w].task)
                   /\ UNCHANGED <<pool, player, bus, loop, result, element, watch,
                                  owner, told, playOf>>

-----------------------------------------------------------------------------

\* Every step a worker takes by itself.
WorkerStep(w) == \/ Pool!Block(w) /\ UNCHANGED <<player, local, extern, ghost>>
                 \/ Pool!Take(w) /\ UNCHANGED <<player, local, extern, ghost>>
                 \/ Pool!Release(w) /\ UNCHANGED <<player, local, extern, ghost>>
                 \/ Enter(w) \/ GetBus(w) \/ SetPlaying(w) \/ CheckState(w)
                 \/ RunLoop(w) \/ Acquire(w) \/ CleanUp(w) \/ Reset(w)
                 \/ UserCallback(w) \/ Return(w) \/ TaskCallback(w)
                 \/ React(w) \/ QuitLoop(w)

SpuriousWake(w) == Pool!SpuriousWake(w) /\ UNCHANGED <<player, local, extern, ghost>>

Next == \/ \E c \in Clients : Client(c)
        \/ \E w \in Workers : \/ WorkerStep(w) \/ LeaveLoop(w) \/ SpuriousWake(w)
                              \/ \E p \in Plays, kind \in Msgs : Dispatch(w, p, kind)

(* Worker threads run; a loop that was quit returns, however many messages *)
(* it still dispatches before it looks (an iteration dispatches finitely   *)
(* many).  Nothing is assumed of clients or of what pipelines post.        *)
Fairness == \A w \in Workers : /\ WF_vars(WorkerStep(w))
                               /\ SF_vars(LeaveLoop(w))

(* A medium that ends: the worker that owns the context is eventually      *)
(* given the end of stream, or an error, of each pipeline it can hear.     *)
MediaEnd == \A w \in Workers, p \in Plays :
               SF_vars(Dispatch(w, p, "EOS") \/ Dispatch(w, p, "ERROR"))

Spec          == Init /\ [][Next]_vars
FairSpec      == Spec /\ Fairness
FairMediaSpec == FairSpec /\ MediaEnd

-----------------------------------------------------------------------------
(* Properties *)

HandlerPoints == {"start", "set_state", "check", "run", "waiting", "looping",
                  "message", "quit", "clean", "reset", "user", "return"}

\* What a task, a client, an element and a loop may hold.
TaskType     == [state : {"IDLE", "START", "PLAYING", "CANCEL"},
                 pipeline : 0 .. MaxPlays, loop : 0 .. MaxPlays,
                 type : {"SINGLE", "LOOP"}, id : 0 .. MaxPlays]
ClientType   == [at : {"idle", "prepare", "submit", "stop_all"}, id : 0 .. MaxPlays]
ElementState == {"none", "NULL", "READY", "PAUSED", "PLAYING", "freed"}
LoopState    == {"none", "no", "yes", "freed"}

TypeOK ==
    /\ Pool!TypeOK
    /\ id \in 0 .. MaxPlays
    /\ task \in [Tasks -> TaskType]
    /\ lock \in [Tasks -> Workers \cup {Free, Leaked}]
    /\ client \in [Clients -> ClientType]
    /\ at \in [Workers -> HandlerPoints \cup {"pool"}]
    /\ bus \in [Workers -> 0 .. MaxPlays]
    /\ loop \in [Workers -> 0 .. MaxPlays]
    /\ result \in [Workers -> {"none", "SUCCESS", "UNABLE_TO_PLAY", "CANCELED"}]
    /\ msg \in [Workers -> [task : Tasks, kind : Msgs] \cup {NoMsg}]
    /\ element \in [Plays -> ElementState]
    /\ watch \in [Plays -> Tasks \cup {NoTask}]
    /\ running \in [Plays -> LoopState]
    /\ owner \in Workers \cup {NoWorker}
    /\ told \subseteq [sub : Plays, id : 0 .. MaxPlays,
                       res : {"SUCCESS", "UNABLE_TO_PLAY", "CANCELED"}]
    /\ playOf \in [Plays -> 0 .. MaxPlays]

\* The points of handle_play_task before the task is cleaned up.
Playing(w) == pc[w] = "ready" \/ at[w] \in HandlerPoints \ {"reset", "user", "return"}

\* "task (%d) is already finished" (gst_aplay.c:177), which is what stop says
\* of an idle task: no worker plays that task.  The state is set to IDLE in
\* three places, twice by a worker and once by the submitter, and a stop that
\* comes too early to see it does nothing at all.
IdleMeansFinished ==
    \A s \in Tasks : task[s].state = "IDLE" =>
        \A w \in Workers : Playing(w) => took[w].task # s

\* (*play callback*)(int play_task_id, ...) of gst_aplay.h:21: the id given to
\* the user's callback is that of the playback whose handler makes it, and no
\* playback is reported twice.
ReportsOwnId == /\ \A r \in told : r.id + 1 = playOf[r.sub]
                /\ \A r1, r2 \in told : r1.id = r2.id => r1 = r2

\* A playback that ended with SUCCESS has given back its pipeline and its loop.
SuccessReleases == \A r \in told :
    r.res = "SUCCESS" => element[r.id + 1] = "freed" /\ running[r.sub] = "freed"

CanGoOn(w) == ENABLED (WorkerStep(w) \/ LeaveLoop(w))

\* The task whose mutex the worker may need next.
NeededTask(w) == IF at[w] = "pool" THEN slots[container[w]].job.task ELSE MyTask(w)

\* What the worker's next step asks for, written out.
CanStep(w) ==
    /\ pc[w] # "blocked"
    /\ pc[w] \in {"callback", "reject"} \/ at[w] \in {"check", "clean"} =>
          lock[NeededTask(w)] = Free
    /\ at[w] = "waiting" => owner = NoWorker \/ running[loop[w]] # "yes"
    /\ at[w] = "looping" => running[loop[w]] # "yes"

\* No worker is stuck.  One that has a task to play goes on, or waits for
\* messages, for the context of a worker that does, or for a mutex whose holder
\* goes on; only a mutex that pause or resume left locked (:214, :234) blocks it.
OnlyLeaksStop == \A w \in Workers :
    \/ CanStep(w)
    \/ pc[w] = "blocked"
    \/ at[w] = "looping"
    \/ at[w] = "waiting" /\ owner \in Workers /\ (CanStep(owner) \/ at[owner] = "looping")
    \/ LET holder == lock[NeededTask(w)]
       IN  holder = Leaked \/ (holder \in Workers /\ CanStep(holder))

\* pthread_mutex_lock(&p_task->lock) (gst_aplay.c:270, 295, 323) always returns
\* but for such a mutex: only leaks stop a worker, and one that can step does.
OnlyLeaksBlock == OnlyLeaksStop /\ \A w \in Workers : CanStep(w) <=> CanGoOn(w)

\* What is freed is not used again by the worker, nor by stop, pause and
\* resume, which look at the state first.
NoUseAfterFree == touched \cap {"handler", "stop", "pause", "play"} = {}

\* A stop that was accepted stays: a canceled task becomes idle, and never
\* starts or goes on playing, whatever the worker was doing at the time.
StopSticks == [][\A s \in Tasks : task[s].state = "CANCEL" =>
                    task'[s].state \in {"CANCEL", "IDLE"}]_vars

\* The worker of a task is in g_main_loop_run.
InLoop(s) == \E w \in Workers : at[w] \in {"waiting", "looping"} /\ arg[w].task = s

\* Once a playback is in its loop, a stop ends it, although the worker that
\* must notice may be waiting for the other one to release the context.
StopEnds == \A s \in Tasks :
    [](task[s].state = "PLAYING" /\ InLoop(s) =>
          []((task[s].state = "CANCEL") => <>(task[s].state = "IDLE")))

\* "stop player : %d (%p)" (gst_aplay.c:172): a stop that found the task busy
\* ends it.
StoppedEnds == \A s \in Tasks :
    (task[s].state = "CANCEL") ~> (task[s].state = "IDLE")

\* A playback of a medium that ends is reported to its user.
PlaybackEnds == \A n \in Plays : (submitted >= n) ~> (\E r \in told : r.sub = n)

=============================================================================
