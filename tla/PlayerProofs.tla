----------------------------- MODULE PlayerProofs -----------------------------
(***************************************************************************)
(* What the player does in every execution, for every number of clients,   *)
(* workers and plays: its types, that it uses the worker pool as the pool  *)
(* is meant to be used, and that a stop stays; and, on two conditions,     *)
(* that a task has one owner and a play one report (the second part).      *)
(*                                                                         *)
(* TypeOK is not inductive by itself: that a handler's task is one of the  *)
(* player's depends on what the pool keeps (IInv and TaskInv there), and   *)
(* on which points a worker and a client can be at.                        *)
(***************************************************************************)
EXTENDS Player, TLAPS

\* The pool's theorems, for the player's pool.
P == INSTANCE ThreadPoolProofs WITH MaxSubmits <- MaxPlays

\* What the pool assumes of its constants, the player's constants satisfy.
LEMMA PoolConstants == P!PoolAssumption
BY PlayerAssumption DEF P!PoolAssumption

\* The two instances of ThreadPool are one.
LEMMA OnePool == /\ Pool!Init <=> P!Init
                 /\ [Pool!Next]_(Pool!vars) <=> [P!Next]_(P!vars)
                 /\ Pool!TypeOK <=> P!TypeOK
<1>1. Pool!Init <=> P!Init
  BY DEF Pool!Init, P!Init, Pool!Indices, P!Indices, Pool!NoJob, P!NoJob
<1>2. \A t \in Tasks : Pool!Submit(t) <=> P!Submit(t)
  BY DEF Pool!Submit, P!Submit, Pool!Accept, P!Accept, Pool!Refuse, P!Refuse,
         Pool!IsFull, P!IsFull, Pool!Available, P!Available, Pool!Mask, P!Mask,
         Pool!NewContainer, P!NewContainer, Pool!Signal, P!Signal,
         Pool!vars, P!vars
<1>3. \A w \in Workers : 
       /\ Pool!WorkerStep(w) <=> P!WorkerStep(w)
       /\ Pool!SpuriousWake(w) <=> P!SpuriousWake(w)
       /\ Pool!HandlerReturns(w) <=> P!HandlerReturns(w)
  BY DEF Pool!WorkerStep, P!WorkerStep, Pool!Block, P!Block, Pool!Take, P!Take,
         Pool!StartHandler, P!StartHandler, Pool!Callback, P!Callback,
         Pool!CalledWith, P!CalledWith, Pool!Release, P!Release,
         Pool!NoJob, P!NoJob, Pool!Mask, P!Mask,
         Pool!SpuriousWake, P!SpuriousWake, Pool!HandlerReturns, P!HandlerReturns
<1>4. Pool!TypeOK <=> P!TypeOK
  BY DEF Pool!TypeOK, P!TypeOK, Pool!Indices, P!Indices, Pool!Job, P!Job,
         Pool!Points, P!Points
<1>5. Pool!vars = P!vars
  BY DEF Pool!vars, P!vars
<1>6. Pool!Next <=> P!Next
  BY <1>2, <1>3 DEF Pool!Next, P!Next
<1>7. [Pool!Next]_(Pool!vars) <=> [P!Next]_(P!vars)
  BY <1>6 DEF Pool!vars, P!vars
<1> QED BY <1>1, <1>4, <1>7


-----------------------------------------------------------------------------
(* Types *)

\* A worker is in handle_play_task when its thread is in the pool's handler, a
\* client's play has an id that was given out, a worker that handles a message
\* has one, and one that reports has a result.
PointInv  == \A w \in Workers : at[w] = "pool" <=> pc[w] # "handling"
ClientInv == \A c \in Clients :
                client[c].at \in {"prepare", "submit"} => client[c].id < id
MsgInv    == \A w \in Workers : at[w] \in {"message", "quit"} => msg[w] # NoMsg
ResultInv == \A w \in Workers : at[w] = "user" => result[w] # "none"

TInv == /\ P!IInv
        /\ P!TaskInv
        /\ TypeOK
        /\ PointInv
        /\ ClientInv
        /\ MsgInv
        /\ ResultInv

\* A play id names a task.
LEMMA TaskOfType == \A p \in Int : TaskOf(p) \in Tasks
BY DEF TaskOf, Tasks, TASK_QSZ

\* A client moves on; the others stay where they are.
LEMMA ClientMoves ==
    ASSUME TInv, NEW c \in Clients, NEW point \in {"idle", "submit", "stop_all"},
           client' = [client EXCEPT ![c].at = point],
           point = "submit" => client[c].at = "prepare",
           UNCHANGED id
    PROVE  /\ client' \in [Clients -> ClientType]
           /\ client'[c] = [at |-> point, id |-> client[c].id]
           /\ \A d \in Clients \ {c} : client'[d] = client[d]
           /\ ClientInv'
<1>1. client \in [Clients -> ClientType] /\ client[c] \in ClientType
  BY DEF TInv, TypeOK
<1>2. [client[c] EXCEPT !.at = point] = [at |-> point, id |-> client[c].id]
  BY <1>1 DEF ClientType
<1>3. client' = [client EXCEPT ![c] = [at |-> point, id |-> client[c].id]]
  BY <1>2
<1>4. [at |-> point, id |-> client[c].id] \in ClientType
  BY <1>1 DEF ClientType
<1>5. /\ client' \in [Clients -> ClientType]
      /\ client'[c] = [at |-> point, id |-> client[c].id]
      /\ \A d \in Clients \ {c} : client'[d] = client[d]
  BY <1>1, <1>3, <1>4
<1>6. ClientInv'
  BY <1>5 DEF TInv, ClientInv
<1> QED BY <1>5, <1>6

\* Every step of the player is a step of the pool, or leaves it alone.
LEMMA StepsPool ==
    ASSUME TypeOK, [Next]_vars
    PROVE  [Pool!Next]_(Pool!vars)
<1> SUFFICES Pool!Next \/ UNCHANGED pool
  BY DEF Pool!vars, pool
<1>1. CASE UNCHANGED vars
  BY <1>1 DEF vars, pool
<1>2. ASSUME NEW c \in Clients, Client(c) PROVE Pool!Next \/ UNCHANGED pool
  <2>1. CASE PlaySubmit(c)
    <3>1. TaskOf(client[c].id) \in Tasks
      BY TaskOfType, PlayerAssumption DEF TypeOK, ClientType
    <3>2. CASE Pool!Accept(TaskOf(client[c].id))
      BY <3>1, <3>2 DEF Pool!Next, Pool!Submit
    <3>3. CASE Pool!Refuse
      BY <3>3 DEF Pool!Refuse, Pool!vars, pool
    <3> QED BY <2>1, <3>2, <3>3 DEF PlaySubmit
  <2>2. CASE ~PlaySubmit(c)
    BY <1>2, <2>2 DEF Client, PlayId, PlayPrepare, Seek, StopTask, Stop, StopAll,
                      StopAllNext, PauseOrResume, Pause, Resume
  <2> QED BY <2>1, <2>2
<1>3. ASSUME NEW w \in Workers, WorkerStep(w) PROVE Pool!Next \/ UNCHANGED pool
  BY <1>3 DEF WorkerStep, Enter, GetBus, SetPlaying, CheckState, RunLoop, Acquire,
              CleanUp, Reset, UserCallback, Return, TaskCallback, React, QuitLoop,
              Pool!Next, Pool!WorkerStep
<1>4. ASSUME NEW w \in Workers, LeaveLoop(w) \/ SpuriousWake(w)
      PROVE  Pool!Next \/ UNCHANGED pool
  BY <1>4 DEF LeaveLoop, SpuriousWake, Pool!Next
<1>5. ASSUME NEW w \in Workers, NEW p \in Plays, NEW kind \in Msgs, Dispatch(w, p, kind)
      PROVE  Pool!Next \/ UNCHANGED pool
  BY <1>5 DEF Dispatch
<1> QED BY <1>1, <1>2, <1>3, <1>4, <1>5 DEF Next

\* What the pool keeps, it keeps under the player.
LEMMA PoolKept ==
    ASSUME TInv, [Next]_vars
    PROVE  P!IInv' /\ P!TaskInv' /\ Pool!TypeOK'
<1>1. [P!Next]_(P!vars)
  BY StepsPool, OnePool DEF TInv
<1>2. P!IInv' /\ P!TaskInv'
  BY <1>1, PoolConstants, P!NextIInv, P!NextTaskInv DEF TInv
<1>3. P!IInv' => P!TypeOK'
  BY DEF P!IInv
<1>4. P!TypeOK' <=> Pool!TypeOK'
  BY DEF Pool!TypeOK, P!TypeOK, Pool!Indices, P!Indices, Pool!Job, P!Job,
         Pool!Points, P!Points
<1> QED BY <1>2, <1>3, <1>4

\* What the element of a pipeline may become.
LEMMA SetType ==
    ASSUME TypeOK, NEW p \in 0 .. MaxPlays,
           NEW st \in ElementState
    PROVE  Set(p, st) \in [Plays -> ElementState]
BY PlayerAssumption DEF TypeOK, Set, Plays

\* And the loop that is quit.
LEMMA QuitType ==
    ASSUME TypeOK, NEW l \in 0 .. MaxPlays
    PROVE  Quit(l) \in [Plays -> LoopState]
BY PlayerAssumption DEF TypeOK, Quit, Plays, LoopState

\* The initial states are typed.
LEMMA InitTInv == Init => TInv
<1> SUFFICES ASSUME Init PROVE TInv
  OBVIOUS
<1>1. P!IInv
  BY OnePool, P!InitIInv, PoolConstants DEF Init
<1>2. P!TaskInv
  BY DEF Init, Pool!Init, P!TaskInv, Pool!NoJob, P!Holding, P!InHandler, Pool!Indices, P!Indices
<1>3. Pool!TypeOK
  BY <1>1, OnePool DEF P!IInv
<1>4. TypeOK
  BY <1>3, PlayerAssumption DEF Init, TypeOK, Tasks, Plays, TASK_QSZ, HandlerPoints,
                                       TaskType, ClientType, ElementState, LoopState
<1>5. PointInv
  BY DEF Init, PointInv, Pool!Init
<1>6. ClientInv /\ MsgInv /\ ResultInv
  BY DEF Init, ClientInv, MsgInv, ResultInv
<1> QED BY <1>1, <1>2, <1>4, <1>5, <1>6 DEF TInv

\* A step that leaves the handlers alone preserves the invariants on them.
LEMMA HandlersKept ==
    ASSUME TInv, UNCHANGED <<at, result, msg>>,
           \A w \in Workers : pc'[w] = "handling" <=> pc[w] = "handling"
    PROVE  PointInv' /\ MsgInv' /\ ResultInv'
BY DEF TInv, PointInv, MsgInv, ResultInv

\* Calls of the API.
LEMMA ClientTInv ==
    ASSUME TInv, NEW c \in Clients, Client(c), Pool!TypeOK'
    PROVE  TypeOK' /\ PointInv' /\ ClientInv' /\ MsgInv' /\ ResultInv'
<1> USE PlayerAssumption
<1>0. TypeOK /\ ClientInv /\ Pool!TypeOK
  BY DEF TInv, TypeOK
<1>1. \A p \in Int : TaskOf(p) \in Tasks
  BY TaskOfType
<1>2. CASE PlayId(c)
  <2>1. id' \in 0 .. MaxPlays /\ id' = id + 1
    BY <1>0, <1>2 DEF PlayId, TypeOK
  <2>2. client' = [client EXCEPT ![c] = [at |-> "prepare", id |-> id]]
    BY <1>2 DEF PlayId
  <2>3. client' \in [Clients -> ClientType]
    BY <1>0, <2>2 DEF TypeOK, ClientType
  <2>4. ClientInv'
    BY <1>0, <2>1, <2>2 DEF ClientInv, TypeOK, ClientType
  <2>5. UNCHANGED <<pool, task, lock, local, extern, ghost>>
    BY <1>2 DEF PlayId
  <2> QED BY <1>0, <2>1, <2>3, <2>4, <2>5, HandlersKept DEF TypeOK, pool, local, extern, ghost
<1>3. CASE PlayPrepare(c)
  <2> DEFINE s == TaskOf(client[c].id)
  <2>1. client[c].id \in 0 .. MaxPlays - 1 /\ s \in Tasks
    <3>1. client[c].id \in 0 .. MaxPlays /\ id \in 0 .. MaxPlays
      BY <1>0 DEF TypeOK, ClientType
    <3>2. client[c].id < id
      BY <1>0, <1>3 DEF PlayPrepare, ClientInv
    <3> QED BY <1>1, <3>1, <3>2
  <2>2. task' \in [Tasks -> TaskType]
    <3>1. CASE UNCHANGED task
      BY <1>0, <3>1 DEF TypeOK
    <3>2. ASSUME NEW pipeline \in {0, client[c].id + 1}, NEW type \in Types,
                 task' = [task EXCEPT ![s] =
                            [@ EXCEPT !.id = client[c].id, !.pipeline = pipeline,
                                      !.type = type, !.state = "START"]]
          PROVE  task' \in [Tasks -> TaskType]
      <4>1. task[s] \in TaskType /\ pipeline \in 0 .. MaxPlays /\ client[c].id \in 0 .. MaxPlays
        BY <1>0, <2>1 DEF TypeOK
      <4>2. [task[s] EXCEPT !.id = client[c].id, !.pipeline = pipeline,
                            !.type = type, !.state = "START"] \in TaskType
        BY <4>1 DEF TaskType
      <4> QED BY <1>0, <3>2, <4>2 DEF TypeOK
    <3> QED BY <1>3, <3>1, <3>2 DEF PlayPrepare
  <2>3. element' \in [Plays -> ElementState]
    BY <1>0, <1>3, <2>1 DEF PlayPrepare, TypeOK, ElementState, Plays
  <2>4. client' \in [Clients -> ClientType] /\ ClientInv'
    <3>1. /\ \/ client' = [client EXCEPT ![c].at = "idle"]
             \/ client' = [client EXCEPT ![c].at = "submit"]
          /\ client[c].at = "prepare"
          /\ UNCHANGED id
      BY <1>3 DEF PlayPrepare
    <3>2. CASE client' = [client EXCEPT ![c].at = "idle"]
      BY <3>1, <3>2, ClientMoves
    <3>3. CASE client' = [client EXCEPT ![c].at = "submit"]
      BY <3>1, <3>3, ClientMoves
    <3> QED BY <3>1, <3>2, <3>3
  <2>5. UNCHANGED <<pool, id, lock, local, watch, running, owner, ghost>>
    BY <1>3 DEF PlayPrepare
  <2> QED BY <1>0, <2>2, <2>3, <2>4, <2>5, HandlersKept DEF TypeOK, pool, local, ghost
<1>4. CASE PlaySubmit(c)
  <2> DEFINE s == TaskOf(client[c].id)
  <2>1. s \in Tasks
    BY <1>0, <1>1 DEF TypeOK, ClientType
  <2>2. \A w \in Workers : pc'[w] = "handling" <=> pc[w] = "handling"
    BY <1>0, <1>4 DEF PlaySubmit, Pool!Accept, Pool!Signal, Pool!Refuse, Pool!vars, Pool!TypeOK
  <2>3. client' \in [Clients -> ClientType] /\ ClientInv'
    <3>1. client' = [client EXCEPT ![c].at = "idle"] /\ UNCHANGED id
      BY <1>4 DEF PlaySubmit
    <3> QED BY <3>1, ClientMoves
  <2>4. playOf' \in [Plays -> 0 .. MaxPlays]
    <3>1. CASE Pool!Accept(s)
      <4>1. client[c].id + 1 \in 0 .. MaxPlays
        BY <1>0, <1>4 DEF PlaySubmit, ClientInv, TypeOK, ClientType
      <4> QED BY <1>0, <1>4, <4>1 DEF PlaySubmit, TypeOK
    <3> QED BY <1>0, <1>4, <3>1 DEF PlaySubmit, TypeOK
  <2>5. task' \in [Tasks -> TaskType]
    <3>1. Withdrawn(s) \in [Tasks -> TaskType]
      BY <1>0, <2>1 DEF Withdrawn, TypeOK, TaskType
    <3> QED BY <1>0, <1>4, <3>1 DEF PlaySubmit, TypeOK
  <2>6. element' \in [Plays -> ElementState]
    <3>1. Released(task[s].pipeline) \in [Plays -> ElementState]
      BY <1>0, <2>1, SetType DEF Released, TypeOK, TaskType, ElementState
    <3> QED BY <1>0, <1>4, <3>1 DEF PlaySubmit, TypeOK
  <2>7. UNCHANGED <<id, lock, local, watch, running, owner, told>>
    BY <1>4 DEF PlaySubmit
  <2> QED BY <1>0, <2>2, <2>3, <2>4, <2>5, <2>6, <2>7, HandlersKept DEF TypeOK, local
<1>5. ASSUME NEW s \in Tasks, StopTask(s)
      PROVE  /\ UNCHANGED <<pool, id, lock, local, watch, owner, told, playOf>>
             /\ task' \in [Tasks -> TaskType]
             /\ element' \in [Plays -> ElementState]
             /\ running' \in [Plays -> LoopState]
  <2>1. /\ Set(task[s].pipeline, "READY") \in [Plays -> ElementState]
        /\ QuitTask(s) \in [Plays -> LoopState]
    BY <1>0, SetType, QuitType DEF TypeOK, QuitTask, TaskType, ElementState
  <2>2. [task EXCEPT ![s].state = "CANCEL"] \in [Tasks -> TaskType]
    BY <1>0 DEF TypeOK, TaskType
  <2> QED BY <1>0, <1>5, <2>1, <2>2 DEF StopTask, TypeOK
<1>6. CASE (\E s \in Tasks : Stop(c, s)) \/ StopAll(c) \/ StopAllNext(c)
  <2>1. PICK s \in Tasks : StopTask(s)
    BY <1>6 DEF Stop, StopAll, StopAllNext, Tasks, TASK_QSZ
  <2>2. /\ UNCHANGED <<pool, id, lock, local, watch, owner, told, playOf>>
        /\ task' \in [Tasks -> TaskType]
        /\ element' \in [Plays -> ElementState]
        /\ running' \in [Plays -> LoopState]
    BY <1>5, <2>1
  <2>3. client' \in [Clients -> ClientType] /\ ClientInv'
    <3>1. CASE UNCHANGED client
      BY <1>0, <2>2, <3>1 DEF TypeOK, ClientInv
    <3>2. ASSUME NEW point \in {"idle", "stop_all"}, client' = [client EXCEPT ![c].at = point]
          PROVE  client' \in [Clients -> ClientType] /\ ClientInv'
      <4>1. point \in {"idle", "submit", "stop_all"} /\ point # "submit"
        OBVIOUS
      <4> QED BY <2>2, <3>2, <4>1, ClientMoves
    <3> QED BY <1>6, <3>1, <3>2 DEF Stop, StopAll, StopAllNext
  <2> QED BY <1>0, <2>2, <2>3, HandlersKept DEF TypeOK, local, pool
<1>7. ASSUME NEW s \in Tasks, Seek(c, s) \/ Pause(c, s) \/ Resume(c, s)
      PROVE  TypeOK' /\ PointInv' /\ ClientInv' /\ MsgInv' /\ ResultInv'
  <2>1. UNCHANGED <<pool, id, task, client, local, watch, running, owner, told, playOf>>
    BY <1>7 DEF Seek, Pause, Resume, PauseOrResume, player, extern
  <2>2. /\ lock' \in [Tasks -> Workers \cup {Free, Leaked}]
        /\ element' \in [Plays -> ElementState]
    <3>1. \A st \in {"PAUSED", "PLAYING"} :
             Set(task[s].pipeline, st) \in [Plays -> ElementState]
      BY <1>0, SetType DEF TypeOK, TaskType, ElementState
    <3> QED BY <1>0, <1>7, <3>1 DEF Seek, Pause, Resume, PauseOrResume, TypeOK, player, extern
  <2> QED BY <1>0, <2>1, <2>2, HandlersKept DEF TypeOK, local, pool, ClientInv
<1> QED BY <1>2, <1>3, <1>4, <1>6, <1>7 DEF Client

\* A worker moves from one point of handle_play_task to another.
LEMMA WorkerGoes ==
    ASSUME TypeOK, NEW w \in Workers, NEW from, NEW to \in HandlerPoints \cup {"pool"},
           Go(w, from, to)
    PROVE  /\ at' \in [Workers -> HandlerPoints \cup {"pool"}]
           /\ at[w] = from /\ at'[w] = to
           /\ \A v \in Workers \ {w} : at'[v] = at[v]
BY DEF TypeOK, Go

\* A worker in the handler has a task, whose pointers are of their types.
LEMMA HandlerTyped ==
    ASSUME TInv, NEW w \in Workers, at[w] # "pool"
    PROVE  LET s == MyTask(w)
           IN  /\ pc[w] = "handling"
               /\ s \in Tasks
               /\ task[s] \in TaskType
               /\ task[s].pipeline \in 0 .. MaxPlays /\ task[s].loop \in 0 .. MaxPlays
               /\ arg[w].sub \in Plays
<1> DEFINE s == MyTask(w)
<1> USE PlayerAssumption
<1>1. pc[w] = "handling"
  BY DEF TInv, PointInv
<1>2. s \in Tasks /\ arg[w].sub # 0
  BY <1>1 DEF TInv, P!TaskInv, P!InHandler, MyTask
<1>3. arg[w].sub \in 0 .. MaxPlays
  BY DEF TInv, P!IInv, P!TypeOK, P!Job
<1>4. task[s] \in TaskType
  BY <1>2 DEF TInv, TypeOK
<1> QED BY <1>1, <1>2, <1>3, <1>4 DEF TaskType, Plays

\* The handler's steps before g_main_loop_run.
LEMMA HandlerTInv ==
    ASSUME TInv, NEW w \in Workers, Pool!TypeOK',
           GetBus(w) \/ SetPlaying(w) \/ CheckState(w) \/ RunLoop(w)
    PROVE  TypeOK' /\ PointInv' /\ ClientInv' /\ MsgInv' /\ ResultInv'
<1> USE PlayerAssumption
<1> DEFINE s == MyTask(w)
           p == task[s].pipeline
           l == task[s].loop
<1>0. TypeOK /\ PointInv /\ ClientInv /\ MsgInv /\ ResultInv
  BY DEF TInv
<1>1. /\ pc[w] = "handling"
      /\ s \in Tasks
      /\ task[s] \in TaskType
      /\ p \in 0 .. MaxPlays /\ l \in 0 .. MaxPlays
      /\ arg[w].sub \in Plays
  BY HandlerTyped DEF GetBus, SetPlaying, CheckState, RunLoop, Go
<1>2. CASE GetBus(w)
  <2>1. bus' \in [Workers -> 0 .. MaxPlays]
    BY <1>0, <1>1, <1>2 DEF GetBus, TypeOK
  <2>2. /\ at' \in [Workers -> HandlerPoints \cup {"pool"}]
        /\ at[w] = "start" /\ at'[w] = "set_state"
        /\ \A v \in Workers \ {w} : at'[v] = at[v]
    BY <1>0, <1>2, WorkerGoes DEF GetBus, HandlerPoints
  <2>3. UNCHANGED <<pool, player, loop, result, msg, extern, told, playOf>>
    BY <1>2 DEF GetBus
  <2>4. TypeOK'
    BY <1>0, <2>1, <2>2, <2>3 DEF TypeOK, player, extern
  <2> QED BY <1>0, <2>2, <2>3, <2>4 DEF pool, player, PointInv, ClientInv, MsgInv, ResultInv
<1>3. CASE SetPlaying(w)
  <2>1. element' \in [Plays -> ElementState]
    BY <1>0, <1>1, <1>3, SetType DEF SetPlaying, TypeOK, ElementState
  <2>2. PICK to \in {"check", "user"} : Go(w, "set_state", to) /\ 
           result' = IF to = "user" THEN [result EXCEPT ![w] = "UNABLE_TO_PLAY"] ELSE result
    BY <1>3 DEF SetPlaying, Outcome
  <2>3. /\ at' \in [Workers -> HandlerPoints \cup {"pool"}]
        /\ at[w] = "set_state" /\ at'[w] = to
        /\ \A v \in Workers \ {w} : at'[v] = at[v]
    BY <1>0, <2>2, WorkerGoes DEF HandlerPoints
  <2>4. UNCHANGED <<pool, player, bus, loop, msg, watch, running, owner, told, playOf>>
    BY <1>3 DEF SetPlaying
  <2>5. TypeOK'
    BY <1>0, <2>1, <2>2, <2>3, <2>4 DEF TypeOK, player
  <2> QED BY <1>0, <2>2, <2>3, <2>4, <2>5 DEF TypeOK, pool, player, PointInv, ClientInv, MsgInv, ResultInv
<1>4. CASE CheckState(w)
  <2> DEFINE n == arg[w].sub
  <2>1. PICK to \in {"run", "user"} : Go(w, "check", to) /\ 
           result' = IF to = "user" THEN [result EXCEPT ![w] = "CANCELED"] ELSE result
    BY <1>4 DEF CheckState, Outcome
  <2>2. task' \in [Tasks -> TaskType]
    <3>1. n \in 0 .. MaxPlays
      BY <1>1 DEF Plays
    <3>2. [task EXCEPT ![s].state = "PLAYING", ![s].loop = n] \in [Tasks -> TaskType]
      BY <1>0, <1>1, <3>1 DEF TypeOK, TaskType
    <3> QED BY <1>0, <1>4, <3>2 DEF CheckState, TypeOK
  <2>3. running' \in [Plays -> LoopState]
    BY <1>0, <1>1, <1>4 DEF CheckState, TypeOK, LoopState
  <2>4. watch' \in [Plays -> Tasks \cup {NoTask}]
    <3>1. bus[w] \in 0 .. MaxPlays
      BY <1>0 DEF TypeOK
    <3>2. \/ UNCHANGED watch
          \/ bus[w] # 0 /\ watch' = [watch EXCEPT ![bus[w]] = s]
      BY <1>4 DEF CheckState
    <3> HIDE DEF s
    <3> QED BY <1>0, <1>1, <3>1, <3>2 DEF TypeOK, Plays
  <2>5. /\ at' \in [Workers -> HandlerPoints \cup {"pool"}]
        /\ at[w] = "check" /\ at'[w] = to
        /\ \A v \in Workers \ {w} : at'[v] = at[v]
    BY <1>0, <2>1, WorkerGoes DEF HandlerPoints
  <2>6. UNCHANGED <<pool, id, lock, client, bus, loop, msg, element, owner, ghost>>
    BY <1>4 DEF CheckState
  <2>7. TypeOK'
    BY <1>0, <2>1, <2>2, <2>3, <2>4, <2>5, <2>6 DEF TypeOK, ghost
  <2>8. PointInv' /\ ClientInv' /\ MsgInv'
    BY <1>0, <1>1, <2>5, <2>6 DEF pool, PointInv, ClientInv, MsgInv
  <2>9. ResultInv'
    BY <1>0, <2>1, <2>5 DEF TypeOK, ResultInv
  <2> QED BY <2>7, <2>8, <2>9
<1>5. CASE RunLoop(w)
  <2>1. running' \in [Plays -> LoopState] /\ loop' \in [Workers -> 0 .. MaxPlays]
    BY <1>0, <1>1, <1>5 DEF RunLoop, TypeOK, LoopState, Plays
  <2>2. PICK to \in {"clean", "waiting"} : Go(w, "run", to)
    BY <1>5 DEF RunLoop
  <2>3. /\ at' \in [Workers -> HandlerPoints \cup {"pool"}]
        /\ at[w] = "run" /\ at'[w] = to
        /\ \A v \in Workers \ {w} : at'[v] = at[v]
    BY <1>0, <2>2, WorkerGoes DEF HandlerPoints
  <2>4. UNCHANGED <<pool, player, bus, result, msg, element, watch, owner, told, playOf>>
    BY <1>5 DEF RunLoop
  <2>5. TypeOK'
    BY <1>0, <2>1, <2>3, <2>4 DEF TypeOK, player
  <2> QED BY <1>0, <2>3, <2>4, <2>5 DEF pool, player, PointInv, ClientInv, MsgInv, ResultInv
<1> QED BY <1>2, <1>3, <1>4, <1>5

\* The steps around g_main_loop_run, and those after it.
LEMMA LoopTInv ==
    ASSUME TInv, NEW w \in Workers, Pool!TypeOK',
           \/ Acquire(w) \/ LeaveLoop(w) \/ CleanUp(w) \/ Reset(w) \/ UserCallback(w)
    PROVE  TypeOK' /\ PointInv' /\ ClientInv' /\ MsgInv' /\ ResultInv'
<1> USE PlayerAssumption
<1> DEFINE s == MyTask(w)
           p == task[s].pipeline
           l == task[s].loop
<1>0. TypeOK /\ PointInv /\ ClientInv /\ MsgInv /\ ResultInv
  BY DEF TInv
<1>1. /\ pc[w] = "handling"
      /\ s \in Tasks
      /\ task[s] \in TaskType
      /\ p \in 0 .. MaxPlays /\ l \in 0 .. MaxPlays
      /\ arg[w].sub \in Plays
  BY HandlerTyped DEF Acquire, LeaveLoop, CleanUp, Reset, UserCallback, Go
<1>2. CASE Acquire(w) \/ LeaveLoop(w)
  <2>1. PICK from \in {"waiting", "looping"}, to \in {"looping", "clean"} : Go(w, from, to)
    BY <1>2 DEF Acquire, LeaveLoop
  <2>2. /\ at' \in [Workers -> HandlerPoints \cup {"pool"}]
        /\ at[w] = from /\ at'[w] = to
        /\ \A v \in Workers \ {w} : at'[v] = at[v]
    BY <1>0, <2>1, WorkerGoes DEF HandlerPoints
  <2>3. UNCHANGED <<pool, player, bus, loop, result, msg, element, watch, running, ghost>>
    BY <1>2 DEF Acquire, LeaveLoop
  <2>4. owner' \in Workers \cup {NoWorker}
    BY <1>0, <1>2 DEF Acquire, LeaveLoop, TypeOK
  <2>5. TypeOK'
    BY <1>0, <2>2, <2>3, <2>4 DEF TypeOK, player, ghost
  <2> QED BY <1>0, <1>1, <2>2, <2>3, <2>5 DEF pool, player, PointInv, ClientInv, MsgInv, ResultInv
<1>3. CASE CleanUp(w)
  <2>1. /\ at' \in [Workers -> HandlerPoints \cup {"pool"}]
        /\ at[w] = "clean" /\ at'[w] = "reset"
        /\ \A v \in Workers \ {w} : at'[v] = at[v]
    BY <1>0, <1>3, WorkerGoes DEF CleanUp, HandlerPoints
  <2>2. element' \in [Plays -> ElementState]
    BY <1>0, <1>1, <1>3, SetType DEF CleanUp, Released, ElementState
  <2>3. running' \in [Plays -> LoopState]
    BY <1>0, <1>1, <1>3 DEF CleanUp, TypeOK, LoopState, Plays
  <2>4. lock' \in [Tasks -> Workers \cup {Free, Leaked}]
    BY <1>0, <1>3 DEF CleanUp, TypeOK
  <2>5. UNCHANGED <<pool, id, task, client, bus, loop, result, msg, watch, owner, told, playOf>>
    BY <1>3 DEF CleanUp
  <2>6. TypeOK'
    BY <1>0, <2>1, <2>2, <2>3, <2>4, <2>5 DEF TypeOK
  <2> QED BY <1>0, <1>1, <2>1, <2>5, <2>6 DEF pool, PointInv, ClientInv, MsgInv, ResultInv
<1>4. CASE Reset(w)
  <2>1. /\ at' \in [Workers -> HandlerPoints \cup {"pool"}]
        /\ at[w] = "reset" /\ at'[w] = "user"
        /\ \A v \in Workers \ {w} : at'[v] = at[v]
    BY <1>0, <1>4, WorkerGoes DEF Reset, HandlerPoints
  <2>2. task' \in [Tasks -> TaskType]
    <3> DEFINE t1 == [task EXCEPT ![s].pipeline = 0]
               t2 == [t1 EXCEPT ![s].loop = 0]
               t3 == [t2 EXCEPT ![s].state = "IDLE"]
    <3>1. t1 \in [Tasks -> TaskType]
      BY <1>0, <1>1 DEF TypeOK, TaskType
    <3>2. t2 \in [Tasks -> TaskType]
      <4> HIDE DEF t1
      <4> QED BY <1>1, <3>1 DEF TaskType
    <3>3. t3 \in [Tasks -> TaskType]
      <4> HIDE DEF t2
      <4> QED BY <1>1, <3>2 DEF TaskType
    <3>4. task' = t3
      BY <1>4 DEF Reset
    <3> QED BY <3>3, <3>4
  <2>3. lock' \in [Tasks -> Workers \cup {Free, Leaked}]
    BY <1>0, <1>4 DEF Reset, Unlocked, TypeOK
  <2>4. result' = [result EXCEPT ![w] = "SUCCESS"]
    BY <1>4 DEF Reset, Outcome
  <2>5. UNCHANGED <<pool, id, client, bus, loop, msg, extern, ghost>>
    BY <1>4 DEF Reset
  <2>6. TypeOK'
    BY <1>0, <2>1, <2>2, <2>3, <2>4, <2>5 DEF TypeOK, extern, ghost
  <2>7. PointInv' /\ ClientInv' /\ MsgInv'
    BY <1>0, <1>1, <2>1, <2>5 DEF pool, PointInv, ClientInv, MsgInv
  <2>8. ResultInv'
    BY <1>0, <2>1, <2>4 DEF TypeOK, ResultInv
  <2> QED BY <2>6, <2>7, <2>8
<1>5. CASE UserCallback(w)
  <2>1. /\ at' \in [Workers -> HandlerPoints \cup {"pool"}]
        /\ at[w] = "user" /\ at'[w] = "return"
        /\ \A v \in Workers \ {w} : at'[v] = at[v]
    BY <1>0, <1>5, WorkerGoes DEF UserCallback, HandlerPoints
  <2>2. result[w] \in {"SUCCESS", "UNABLE_TO_PLAY", "CANCELED"}
    BY <1>0, <2>1 DEF TypeOK, ResultInv
  <2>3. [sub |-> arg[w].sub, id |-> task[s].id, res |-> result[w]]
           \in [sub : Plays, id : 0 .. MaxPlays,
                res : {"SUCCESS", "UNABLE_TO_PLAY", "CANCELED"}]
    BY <1>1, <2>2 DEF TaskType
  <2>4. UNCHANGED <<pool, player, bus, loop, result, msg, extern, playOf, touched>>
    BY <1>5 DEF UserCallback
  <2>5. TypeOK'
    <3>1. told' = told \cup {[sub |-> arg[w].sub, id |-> task[s].id, res |-> result[w]]}
      BY <1>5 DEF UserCallback
    <3> QED BY <1>0, <2>1, <2>3, <2>4, <3>1 DEF TypeOK, player, extern
  <2> QED BY <1>0, <1>1, <2>1, <2>4, <2>5 DEF pool, player, PointInv, ClientInv, MsgInv, ResultInv
<1> QED BY <1>2, <1>3, <1>4, <1>5

\* cb_message.
LEMMA MessageTInv ==
    ASSUME TInv, NEW w \in Workers, Pool!TypeOK',
           \/ \E p \in Plays, kind \in Msgs : Dispatch(w, p, kind)
           \/ React(w) \/ QuitLoop(w)
    PROVE  TypeOK' /\ PointInv' /\ ClientInv' /\ MsgInv' /\ ResultInv'
<1> USE PlayerAssumption
<1>0. TypeOK /\ PointInv /\ ClientInv /\ MsgInv /\ ResultInv
  BY DEF TInv
<1>1. pc[w] = "handling"
  BY HandlerTyped DEF Dispatch, React, QuitLoop, Go
<1>2. ASSUME at[w] \in {"message", "quit"}
      PROVE  LET m == msg[w]
             IN  /\ m.task \in Tasks
                 /\ m.kind \in Msgs
                 /\ task[m.task].pipeline \in 0 .. MaxPlays
                 /\ task[m.task].loop \in 0 .. MaxPlays
  BY <1>0, <1>2 DEF TypeOK, MsgInv, TaskType
<1>3. ASSUME NEW p \in Plays, NEW kind \in Msgs, Dispatch(w, p, kind)
      PROVE  TypeOK' /\ PointInv' /\ ClientInv' /\ MsgInv' /\ ResultInv'
  <2>1. /\ at' \in [Workers -> HandlerPoints \cup {"pool"}]
        /\ at[w] = "looping" /\ at'[w] = "message"
        /\ \A v \in Workers \ {w} : at'[v] = at[v]
    BY <1>0, <1>3, WorkerGoes DEF Dispatch, HandlerPoints
  <2>2. [task |-> watch[p], kind |-> kind] \in [task : Tasks, kind : Msgs]
    BY <1>0, <1>3 DEF Dispatch, TypeOK
  <2>3. [task |-> watch[p], kind |-> kind] # NoMsg
    BY <2>2 DEF NoMsg
  <2>4. msg' = [msg EXCEPT ![w] = [task |-> watch[p], kind |-> kind]]
    BY <1>3 DEF Dispatch
  <2>5. UNCHANGED <<pool, player, bus, loop, result, extern, ghost>>
    BY <1>3 DEF Dispatch
  <2>6. TypeOK'
    BY <1>0, <2>1, <2>2, <2>4, <2>5 DEF TypeOK, player, extern, ghost
  <2>7. MsgInv'
    BY <1>0, <2>1, <2>3, <2>4 DEF TypeOK, MsgInv
  <2>8. PointInv' /\ ClientInv' /\ ResultInv'
    BY <1>0, <1>1, <2>1, <2>5 DEF pool, player, PointInv, ClientInv, ResultInv
  <2> QED BY <2>6, <2>7, <2>8
<1>4. CASE React(w) \/ QuitLoop(w)
  <2>1. PICK from \in {"message", "quit"}, to \in {"quit", "looping"} :
          /\ Go(w, from, to)
          /\ msg' = IF to = "quit" THEN msg ELSE [msg EXCEPT ![w] = NoMsg]
    BY <1>4 DEF React, QuitLoop
  <2>2. /\ at' \in [Workers -> HandlerPoints \cup {"pool"}]
        /\ at[w] = from /\ at'[w] = to
        /\ \A v \in Workers \ {w} : at'[v] = at[v]
    BY <1>0, <2>1, WorkerGoes DEF HandlerPoints
  <2>3. UNCHANGED <<pool, player, bus, loop, result, watch, owner, told, playOf>>
    BY <1>4 DEF React, QuitLoop
  <2>4. element' \in [Plays -> ElementState]
    <3>1. \A st \in {"READY", "PAUSED", "PLAYING"} :
             Set(task[msg[w].task].pipeline, st) \in [Plays -> ElementState]
      BY <1>0, <1>2, <2>2, SetType DEF ElementState
    <3>2. CASE React(w)
      <4> DEFINE m == msg[w]
      <4>1. m.kind \in {"ERROR", "EOS", "BUFFERING", "BUFFERED", "CLOCK_LOST"}
        BY <1>2, <2>2
      <4>2. \/ m.kind = "EOS" /\ ~Ends(m)
            \/ StateFor(m) \in {"READY", "PAUSED", "PLAYING"}
        BY <4>1 DEF Ends, StateFor
      <4>3. \/ UNCHANGED element
            \/ StateFor(m) \in {"READY", "PAUSED", "PLAYING"} /\ element' = Set(task[m.task].pipeline, StateFor(m))
        BY <3>2, <4>2 DEF React
      <4> QED BY <1>0, <3>1, <4>3 DEF TypeOK
    <3>3. CASE QuitLoop(w)
      BY <1>0, <3>3 DEF QuitLoop, TypeOK
    <3> QED BY <1>4, <3>2, <3>3
  <2>5. running' \in [Plays -> LoopState]
    <3>1. CASE React(w)
      BY <1>0, <3>1 DEF React, TypeOK
    <3>2. CASE QuitLoop(w)
      BY <1>0, <1>2, <2>2, <3>2, QuitType DEF QuitLoop, QuitTask
    <3> QED BY <1>4, <3>1, <3>2
  <2>6. msg' \in [Workers -> [task : Tasks, kind : Msgs] \cup {NoMsg}]
    BY <1>0, <2>1 DEF TypeOK
  <2>7. TypeOK'
    BY <1>0, <2>2, <2>3, <2>4, <2>5, <2>6 DEF TypeOK, player
  <2>8. MsgInv'
    BY <1>0, <2>1, <2>2 DEF TypeOK, MsgInv
  <2>9. PointInv' /\ ClientInv' /\ ResultInv'
    BY <1>0, <1>1, <2>2, <2>3 DEF pool, player, PointInv, ClientInv, ResultInv
  <2> QED BY <2>7, <2>8, <2>9
<1> QED BY <1>3, <1>4

\* The steps that are steps of the pool as well.
LEMMA PoolStepTInv ==
    ASSUME TInv, NEW w \in Workers, Pool!TypeOK',
           \/ (Pool!Block(w) \/ Pool!Take(w) \/ Pool!Release(w) \/ Pool!SpuriousWake(w))
                /\ UNCHANGED <<player, local, extern, ghost>>
           \/ Enter(w) \/ Return(w) \/ TaskCallback(w)
    PROVE  TypeOK' /\ PointInv' /\ ClientInv' /\ MsgInv' /\ ResultInv'
<1> USE PlayerAssumption
<1>0. TypeOK /\ PointInv /\ ClientInv /\ MsgInv /\ ResultInv /\ Pool!TypeOK
  BY DEF TInv, TypeOK
<1>1. ASSUME \/ Pool!Block(w) \/ Pool!Take(w) \/ Pool!Release(w) \/ Pool!SpuriousWake(w)
             \/ Pool!Callback(w)
      PROVE  \A v \in Workers : pc'[v] = "handling" <=> pc[v] = "handling"
  BY <1>0, <1>1 DEF Pool!TypeOK, Pool!Block, Pool!Take, Pool!Release,
                    Pool!SpuriousWake, Pool!Callback
<1>2. CASE /\ Pool!Block(w) \/ Pool!Take(w) \/ Pool!Release(w) \/ Pool!SpuriousWake(w)
           /\ UNCHANGED <<player, local, extern, ghost>>
  <2>1. TypeOK' /\ ClientInv'
    BY <1>0, <1>2 DEF TypeOK, ClientInv, player, local, extern, ghost
  <2> QED BY <1>1, <1>2, <2>1, HandlersKept DEF local
<1>3. CASE TaskCallback(w)
  <2> DEFINE s == slots[container[w]].job.task
  <2>1. s \in Tasks
    <3>1. pc[w] \in P!Holding
      BY <1>3 DEF TaskCallback, Pool!Callback, P!Holding
    <3> QED BY <3>1, P!HeldIsSubmitted, PoolConstants DEF TInv
  <2>2. task' \in [Tasks -> TaskType]
    <3>1. [task EXCEPT ![s].state = "IDLE"] \in [Tasks -> TaskType]
      BY <1>0, <2>1 DEF TypeOK, TaskType
    <3> QED BY <1>3, <3>1 DEF TaskCallback
  <2>3. UNCHANGED <<id, lock, client, local, extern, ghost>>
    BY <1>3 DEF TaskCallback
  <2>4. TypeOK' /\ ClientInv'
    BY <1>0, <2>2, <2>3 DEF TypeOK, ClientInv, local, extern, ghost
  <2>5. Pool!Callback(w)
    BY <1>3 DEF TaskCallback
  <2> QED BY <1>1, <2>3, <2>4, <2>5, HandlersKept DEF local
<1>4. CASE Enter(w)
  <2>1. /\ at' \in [Workers -> HandlerPoints \cup {"pool"}]
        /\ at[w] = "pool" /\ at'[w] = "start"
        /\ \A v \in Workers \ {w} : at'[v] = at[v]
    BY <1>0, <1>4, WorkerGoes DEF Enter, HandlerPoints
  <2>2. UNCHANGED <<player, bus, loop, result, msg, extern, ghost>>
    BY <1>4 DEF Enter
  <2>3. \A v \in Workers : IF v = w THEN pc'[v] = "handling" ELSE pc'[v] = pc[v]
    BY <1>0, <1>4 DEF Enter, Pool!StartHandler, Pool!TypeOK
  <2>4. TypeOK'
    BY <1>0, <2>1, <2>2 DEF TypeOK, player, extern, ghost
  <2> QED BY <1>0, <2>1, <2>2, <2>3, <2>4 DEF player, PointInv, ClientInv, MsgInv, ResultInv
<1>5. CASE Return(w)
  <2>1. /\ at' \in [Workers -> HandlerPoints \cup {"pool"}]
        /\ at[w] = "return" /\ at'[w] = "pool"
        /\ \A v \in Workers \ {w} : at'[v] = at[v]
    BY <1>0, <1>5, WorkerGoes DEF Return
  <2>2. /\ UNCHANGED <<player, msg, extern, ghost>>
        /\ bus' = [bus EXCEPT ![w] = 0]
        /\ loop' = [loop EXCEPT ![w] = 0]
        /\ result' = [result EXCEPT ![w] = "none"]
    BY <1>5 DEF Return
  <2>3. \A v \in Workers : IF v = w THEN pc'[v] = "callback" ELSE pc'[v] = pc[v]
    BY <1>0, <1>5 DEF Return, Pool!HandlerReturns, Pool!TypeOK
  <2>4. TypeOK'
    BY <1>0, <2>1, <2>2 DEF TypeOK, player, extern, ghost
  <2>5. PointInv' /\ ClientInv' /\ MsgInv'
    BY <1>0, <2>1, <2>2, <2>3 DEF player, PointInv, ClientInv, MsgInv
  <2>6. ResultInv'
    BY <1>0, <2>1, <2>2 DEF TypeOK, ResultInv
  <2> QED BY <2>4, <2>5, <2>6
<1> QED BY <1>2, <1>3, <1>4, <1>5

\* Every step of the player, and every stuttering step, preserves TInv.
LEMMA NextTInv == TInv /\ [Next]_vars => TInv'
<1> SUFFICES ASSUME TInv, [Next]_vars PROVE TInv'
  OBVIOUS
<1>1. P!IInv' /\ P!TaskInv' /\ Pool!TypeOK'
  BY PoolKept
<1> DEFINE Rest == TypeOK' /\ PointInv' /\ ClientInv' /\ MsgInv' /\ ResultInv'
<1>2. ASSUME NEW c \in Clients, Client(c) PROVE Rest
  BY <1>1, <1>2, ClientTInv
<1>3. ASSUME NEW w \in Workers, WorkerStep(w) PROVE Rest
  BY <1>1, <1>3, HandlerTInv, LoopTInv, MessageTInv, PoolStepTInv DEF WorkerStep
<1>4. ASSUME NEW w \in Workers,
             \/ LeaveLoop(w) \/ SpuriousWake(w)
             \/ \E p \in Plays, kind \in Msgs : Dispatch(w, p, kind)
      PROVE  Rest
  BY <1>1, <1>4, LoopTInv, MessageTInv, PoolStepTInv DEF SpuriousWake
<1>5. CASE UNCHANGED vars
  BY <1>1, <1>5 DEF vars, TInv, TypeOK, PointInv, ClientInv, MsgInv, ResultInv
<1> QED BY <1>1, <1>2, <1>3, <1>4, <1>5 DEF Next, TInv

-----------------------------------------------------------------------------
(* Theorems *)

\* The player keeps its types, and the pool its invariant.
THEOREM TypesInvariant == Spec => []TInv
<1> QED BY InitTInv, NextTInv, PTL DEF Spec

\* The player, its tasks and GStreamer's objects keep their types; a worker in
\* handle_play_task always has a task to play, and a message one to act on.
THEOREM PlayerTypes == Spec => []TypeOK
<1>1. TInv => TypeOK
  BY DEF TInv
<1> QED BY <1>1, TypesInvariant, PTL

\* The player implements the worker pool's specification: it submits only its
\* tasks, and its handlers and callbacks step as the pool's may.  So all that
\* is proved of the pool holds in the player.
THEOREM PlayerUsesPool == Spec => Pool!Spec
<1>1. Init => Pool!Init
  BY DEF Init
<1>2. TInv /\ [Next]_vars => [Pool!Next]_(Pool!vars)
  BY StepsPool DEF TInv
<1> QED BY <1>1, <1>2, TypesInvariant, PTL DEF Spec, Pool!Spec

\* The step that a canceled task may take.
LEMMA NextStaysCanceled ==
    ASSUME TInv, [Next]_vars, NEW s \in Tasks, task[s].state = "CANCEL"
    PROVE  task'[s].state \in {"CANCEL", "IDLE"}
<1>0. TypeOK /\ task \in [Tasks -> TaskType]
  BY DEF TInv, TypeOK
<1>1. ASSUME NEW r \in Tasks, NEW st \in {"CANCEL", "IDLE"},
             task' = [task EXCEPT ![r].state = st]
      PROVE  task'[s].state \in {"CANCEL", "IDLE"}
  BY <1>0, <1>1 DEF TaskType
<1>2. CASE UNCHANGED task
  BY <1>2
<1>3. ASSUME NEW c \in Clients, Client(c) PROVE task'[s].state \in {"CANCEL", "IDLE"}
  <2>1. TaskOf(client[c].id) \in Tasks
    BY <1>0, TaskOfType DEF TypeOK, ClientType
  <2>2. CASE PlayPrepare(c)
    <3>1. task[TaskOf(client[c].id)].state = "IDLE" \/ UNCHANGED task
      BY <2>2 DEF PlayPrepare
    <3>2. TaskOf(client[c].id) # s => task'[s] = task[s]
      BY <1>0, <2>1, <2>2 DEF PlayPrepare
    <3> QED BY <3>1, <3>2
  <2>3. CASE PlaySubmit(c)
    <3>1. UNCHANGED task \/ task' = [task EXCEPT ![TaskOf(client[c].id)].state = "IDLE"]
      BY <2>3 DEF PlaySubmit, Withdrawn
    <3> QED BY <1>1, <2>1, <3>1
  <2>4. ASSUME NEW r \in Tasks, StopTask(r) PROVE task'[s].state \in {"CANCEL", "IDLE"}
    <3>1. UNCHANGED task \/ task' = [task EXCEPT ![r].state = "CANCEL"]
      BY <2>4 DEF StopTask
    <3> QED BY <1>1, <3>1
  <2>5. CASE (\E r \in Tasks : Stop(c, r)) \/ StopAll(c) \/ StopAllNext(c)
    BY <2>4, <2>5 DEF Stop, StopAll, StopAllNext, Tasks, TASK_QSZ
  <2>6. CASE PlayId(c) \/ \E r \in Tasks : Seek(c, r) \/ Pause(c, r) \/ Resume(c, r)
    BY <1>2, <2>6 DEF PlayId, Seek, Pause, Resume, PauseOrResume, player
  <2> QED BY <1>3, <2>2, <2>3, <2>5, <2>6 DEF Client
<1>4. ASSUME NEW w \in Workers, WorkerStep(w) PROVE task'[s].state \in {"CANCEL", "IDLE"}
  <2>1. CASE CheckState(w)
    <3>1. UNCHANGED task \/ /\ task[MyTask(w)].state # "CANCEL"
                            /\ task' = [task EXCEPT ![MyTask(w)].state = "PLAYING",
                                                    ![MyTask(w)].loop = arg[w].sub]
      BY <2>1 DEF CheckState, Canceled
    <3>2. MyTask(w) # s => task'[s] = task[s]
      BY <1>0, <3>1
    <3> QED BY <3>1, <3>2
  <2>2. CASE Reset(w)
    <3>1. MyTask(w) \in Tasks
      BY <2>2, HandlerTyped DEF Reset, Go
    <3>2. task' = [task EXCEPT ![MyTask(w)].pipeline = 0, ![MyTask(w)].loop = 0,
                               ![MyTask(w)].state = "IDLE"]
      BY <2>2 DEF Reset
    <3>3. IF MyTask(w) = s THEN task'[s].state = "IDLE" ELSE task'[s] = task[s]
      BY <1>0, <3>1, <3>2 DEF TaskType
    <3> QED BY <3>3
  <2>3. CASE TaskCallback(w)
    <3> DEFINE r == slots[container[w]].job.task
    <3>1. r \in Tasks
      <4>1. pc[w] \in P!Holding
        BY <2>3 DEF TaskCallback, Pool!Callback, P!Holding
      <4> QED BY <4>1, P!HeldIsSubmitted, PoolConstants DEF TInv
    <3>2. task' = [task EXCEPT ![r].state = "IDLE"]
      BY <2>3 DEF TaskCallback
    <3> HIDE DEF r
    <3> QED BY <1>1, <3>1, <3>2
  <2> QED BY <1>2, <1>4, <2>1, <2>2, <2>3
          DEF WorkerStep, Enter, GetBus, SetPlaying, RunLoop, Acquire, CleanUp,
              UserCallback, Return, React, QuitLoop, player
<1>5. ASSUME NEW w \in Workers,
             \/ LeaveLoop(w) \/ SpuriousWake(w)
             \/ \E p \in Plays, kind \in Msgs : Dispatch(w, p, kind)
      PROVE  UNCHANGED task
  BY <1>5 DEF LeaveLoop, SpuriousWake, Dispatch, player
<1>6. CASE UNCHANGED vars
  BY <1>2, <1>6 DEF vars
<1> QED BY <1>2, <1>3, <1>4, <1>5, <1>6 DEF Next

\* A task that gst_player_stop canceled becomes idle before it starts or plays
\* again, however the stop falls between the steps of the worker, and however
\* often the task is played.
THEOREM StopsStick == Spec => StopSticks
<1>1. TInv /\ [Next]_vars =>
        [\A s \in Tasks : task[s].state = "CANCEL" => task'[s].state \in {"CANCEL", "IDLE"}]_vars
  BY NextStaysCanceled
<1> QED BY <1>1, TypesInvariant, PTL DEF Spec, StopSticks

-----------------------------------------------------------------------------
(* What blocks a worker *)

\* A worker holds a task's mutex between the two halves of the clean-up.
LockInv ==
    /\ \A s \in Tasks : lock[s] \in Workers =>
          at[lock[s]] = "reset" /\ MyTask(lock[s]) = s
    /\ \A w \in Workers : at[w] = "reset" => lock[MyTask(w)] = w

\* The owner of the main context is the worker that iterates it.
Iterating  == {"looping", "message", "quit"}
ContextInv == \A w \in Workers : at[w] \in Iterating <=> owner = w

BlockInv == LockInv /\ ContextInv

\* A step that takes or gives back neither a mutex nor the context.
LEMMA BlockKept ==
    ASSUME BlockInv, NEW w \in Workers, UNCHANGED <<lock, owner>>,
           \A v \in Workers \ {w} :
              at'[v] = at[v] /\ (at[v] = "reset" => MyTask(v)' = MyTask(v)),
           at[w] # "reset", at'[w] # "reset",
           at'[w] \in Iterating <=> at[w] \in Iterating
    PROVE  BlockInv'
<1>1. LockInv'
  BY DEF BlockInv, LockInv
<1>2. ContextInv'
  BY DEF BlockInv, ContextInv
<1> QED BY <1>1, <1>2 DEF BlockInv

\* Clients take mutexes, but give them back, or leave them locked.
LEMMA ClientBlockInv ==
    ASSUME TInv, BlockInv, NEW c \in Clients, Client(c)
    PROVE  BlockInv'
<1>1. /\ UNCHANGED <<at, owner, arg>>
      /\ UNCHANGED lock \/ \E s \in Tasks : lock[s] = Free /\ lock' = [lock EXCEPT ![s] = Leaked]
  BY DEF Client, PlayId, PlayPrepare, PlaySubmit, Pool!Accept, Pool!Refuse, Pool!vars,
         Seek, Stop, StopAll, StopAllNext, StopTask, Pause, Resume, PauseOrResume,
         pool, player, local, extern
<1>2. lock \in [Tasks -> Workers \cup {Free, Leaked}]
  BY DEF TInv, TypeOK
<1>3. \A s \in Tasks : lock'[s] = lock[s] \/ (lock[s] = Free /\ lock'[s] = Leaked)
  BY <1>1, <1>2
<1>4. \A w \in Workers : at[w] = "reset" => MyTask(w) \in Tasks
  BY HandlerTyped
<1>5. \A w \in Workers : MyTask(w)' = MyTask(w)
  BY <1>1 DEF MyTask
<1>6. LockInv'
  BY <1>1, <1>3, <1>4, <1>5, PlayerAssumption DEF BlockInv, LockInv
<1>7. ContextInv'
  BY <1>1 DEF BlockInv, ContextInv
<1> QED BY <1>6, <1>7 DEF BlockInv

\* The clean-up takes the task's mutex for two steps.
LEMMA CleanUpBlockInv ==
    ASSUME TInv, BlockInv, NEW w \in Workers, CleanUp(w) \/ Reset(w)
    PROVE  BlockInv'
<1> DEFINE s == MyTask(w)
<1>0. TypeOK /\ lock \in [Tasks -> Workers \cup {Free, Leaked}]
  BY DEF TInv, TypeOK
<1>1. /\ UNCHANGED <<owner, arg>>
      /\ \A v \in Workers \ {w} : at'[v] = at[v]
      /\ at[w] \in {"clean", "reset"} /\ at'[w] \in {"reset", "user"}
  BY <1>0, WorkerGoes DEF CleanUp, Reset, pool, extern, HandlerPoints
<1>2. s \in Tasks
  BY <1>1, HandlerTyped
<1>3. \A v \in Workers : MyTask(v)' = MyTask(v)
  BY <1>1 DEF MyTask
<1>4. ContextInv'
  BY <1>1 DEF BlockInv, ContextInv, Iterating
<1>5. CASE CleanUp(w)
  <2>1. lock[s] = Free /\ lock' = [lock EXCEPT ![s] = w] /\ at'[w] = "reset" /\ at[w] = "clean"
    BY <1>0, <1>5, WorkerGoes DEF CleanUp, HandlerPoints
  <2>2. \A v \in Workers \ {w} : at[v] = "reset" => MyTask(v) # s
    BY <2>1, PlayerAssumption DEF BlockInv, LockInv
  <2>3. lock'[s] = w /\ \A r \in Tasks \ {s} : lock'[r] = lock[r]
    BY <1>0, <1>2, <2>1
  <2>4. \A v \in Workers : at[v] = "reset" => MyTask(v) \in Tasks
    BY HandlerTyped
  <2>5. LockInv'
    BY <1>1, <1>2, <1>3, <2>1, <2>2, <2>3, <2>4 DEF BlockInv, LockInv
  <2> QED BY <1>4, <2>5 DEF BlockInv
<1>6. CASE Reset(w)
  <2>1. at[w] = "reset" /\ at'[w] = "user" /\ lock' = [lock EXCEPT ![s] = Free]
    BY <1>0, <1>6, WorkerGoes DEF Reset, Unlocked, HandlerPoints
  <2>2. lock[s] = w
    BY <2>1 DEF BlockInv, LockInv
  <2>3. lock'[s] = Free /\ \A r \in Tasks \ {s} : lock'[r] = lock[r]
    BY <1>0, <1>2, <2>1
  <2>4. \A v \in Workers : at[v] = "reset" => MyTask(v) \in Tasks
    BY HandlerTyped
  <2>5. LockInv'
    BY <1>1, <1>2, <1>3, <2>1, <2>2, <2>3, <2>4, PlayerAssumption DEF BlockInv, LockInv
  <2> QED BY <1>4, <2>5 DEF BlockInv
<1> QED BY <1>5, <1>6

\* g_main_loop_run acquires the context and releases it.
LEMMA ContextBlockInv ==
    ASSUME TInv, BlockInv, NEW w \in Workers, Acquire(w) \/ LeaveLoop(w)
    PROVE  BlockInv'
<1>0. TypeOK
  BY DEF TInv
<1>1. /\ UNCHANGED <<lock, arg>>
      /\ \A v \in Workers \ {w} : at'[v] = at[v]
      /\ at[w] \in {"waiting", "looping"} /\ at'[w] \in {"looping", "clean"}
      /\ at'[w] = "looping" => owner = NoWorker /\ owner' = w
      /\ at'[w] = "clean" => owner' = IF owner = w THEN NoWorker ELSE owner
  BY <1>0, WorkerGoes DEF Acquire, LeaveLoop, pool, player, HandlerPoints
<1>2. \A v \in Workers : MyTask(v)' = MyTask(v)
  BY <1>1 DEF MyTask
<1>3. LockInv'
  BY <1>1, <1>2 DEF BlockInv, LockInv
<1>4. ContextInv'
  BY <1>1, PlayerAssumption DEF BlockInv, ContextInv, Iterating
<1> QED BY <1>3, <1>4 DEF BlockInv

LEMMA NextBlockInv == TInv /\ BlockInv /\ [Next]_vars => BlockInv'
<1> SUFFICES ASSUME TInv, BlockInv, [Next]_vars PROVE BlockInv'
  OBVIOUS
<1>0. TypeOK
  BY DEF TInv
<1>1. ASSUME NEW w \in Workers,
             \/ GetBus(w) \/ SetPlaying(w) \/ CheckState(w) \/ RunLoop(w)
             \/ UserCallback(w) \/ Return(w) \/ React(w) \/ QuitLoop(w)
             \/ \E p \in Plays, kind \in Msgs : Dispatch(w, p, kind)
      PROVE  BlockInv'
  <2>1. UNCHANGED <<lock, owner, arg>>
    BY <1>1 DEF GetBus, SetPlaying, CheckState, RunLoop, UserCallback, Return, React,
                QuitLoop, Dispatch, Pool!HandlerReturns, pool, player, extern
  <2>2. \E from, to \in HandlerPoints \cup {"pool"} :
           /\ Go(w, from, to)
           /\ from # "reset" /\ to # "reset"
           /\ from \in Iterating <=> to \in Iterating
    BY <1>1 DEF GetBus, SetPlaying, CheckState, RunLoop, UserCallback, Return, React,
                QuitLoop, Dispatch, HandlerPoints, Iterating
  <2>3. /\ \A v \in Workers \ {w} : at'[v] = at[v]
        /\ at[w] # "reset" /\ at'[w] # "reset"
        /\ at'[w] \in Iterating <=> at[w] \in Iterating
    BY <1>0, <2>2, WorkerGoes
  <2> QED BY <2>1, <2>3, BlockKept DEF MyTask
<1>2. ASSUME NEW w \in Workers, Enter(w) PROVE BlockInv'
  <2>1. UNCHANGED <<lock, owner>>
    BY <1>2 DEF Enter, player, extern
  <2>2. at[w] = "pool" /\ at'[w] = "start" /\ \A v \in Workers \ {w} : at'[v] = at[v]
    BY <1>0, <1>2, WorkerGoes DEF Enter, HandlerPoints
  <2>3. \A v \in Workers \ {w} : MyTask(v)' = MyTask(v)
    BY <1>2 DEF Enter, Pool!StartHandler, MyTask
  <2> QED BY <2>1, <2>2, <2>3, BlockKept DEF Iterating
<1>3. ASSUME NEW w \in Workers,
             \/ Pool!Block(w) /\ UNCHANGED <<player, local, extern, ghost>>
             \/ Pool!Take(w) /\ UNCHANGED <<player, local, extern, ghost>>
             \/ Pool!Release(w) /\ UNCHANGED <<player, local, extern, ghost>>
             \/ SpuriousWake(w) \/ TaskCallback(w)
      PROVE  BlockInv'
  <2>1. UNCHANGED <<lock, owner, at>>
    BY <1>3 DEF SpuriousWake, TaskCallback, player, local, extern
  <2>2. pc[w] # "handling"
    BY <1>3 DEF Pool!Block, Pool!Take, Pool!Release, SpuriousWake, Pool!SpuriousWake,
                TaskCallback, Pool!Callback
  <2>3. at[w] = "pool"
    BY <2>2 DEF TInv, PointInv
  <2>4. UNCHANGED arg \/ arg' = [arg EXCEPT ![w] = Pool!NoJob]
    BY <1>3 DEF Pool!Block, Pool!Take, Pool!Release, SpuriousWake, Pool!SpuriousWake,
                TaskCallback, Pool!Callback
  <2>5. \A v \in Workers \ {w} : MyTask(v)' = MyTask(v)
    BY <1>0, <2>4 DEF MyTask, TypeOK, Pool!TypeOK
  <2> QED BY <2>1, <2>3, <2>5, BlockKept
<1>4. ASSUME NEW w \in Workers, WorkerStep(w) PROVE BlockInv'
  BY <1>1, <1>2, <1>3, <1>4, CleanUpBlockInv, ContextBlockInv DEF WorkerStep
<1>5. ASSUME NEW w \in Workers,
             \/ LeaveLoop(w) \/ SpuriousWake(w)
             \/ \E p \in Plays, kind \in Msgs : Dispatch(w, p, kind)
      PROVE  BlockInv'
  BY <1>1, <1>3, <1>5, ContextBlockInv
<1>6. CASE UNCHANGED vars
  BY <1>6 DEF vars, BlockInv, LockInv, ContextInv, MyTask
<1> QED BY <1>4, <1>5, <1>6, ClientBlockInv DEF Next

LEMMA InitBlockInv == Init => BlockInv
BY PlayerAssumption DEF Init, BlockInv, LockInv, ContextInv, Iterating

\* A worker that holds a mutex is about to reset its task, which nothing stops.
LEMMA HolderSteps ==
    ASSUME TInv, BlockInv, NEW s \in Tasks, lock[s] \in Workers
    PROVE  CanStep(lock[s])
<1> DEFINE v == lock[s]
<1>1. at[v] = "reset"
  BY DEF BlockInv, LockInv
<1>2. pc[v] = "handling"
  BY <1>1, HandlerTyped
<1> QED BY <1>1, <1>2 DEF CanStep

\* So does the owner of the context, unless it waits for a message.
LEMMA OwnerSteps ==
    ASSUME TInv, BlockInv, owner \in Workers
    PROVE  CanStep(owner) \/ at[owner] = "looping"
<1>1. at[owner] \in Iterating
  BY DEF BlockInv, ContextInv
<1>2. pc[owner] = "handling"
  BY <1>1, HandlerTyped DEF Iterating
<1> QED BY <1>1, <1>2 DEF CanStep, Iterating

LEMMA BlockInvLeaks == TInv /\ BlockInv => OnlyLeaksStop
<1> SUFFICES ASSUME TInv, BlockInv, NEW w \in Workers, ~CanStep(w), pc[w] # "blocked",
                    at[w] # "looping"
             PROVE  \/ /\ at[w] = "waiting" /\ owner \in Workers
                       /\ CanStep(owner) \/ at[owner] = "looping"
                    \/ LET holder == lock[NeededTask(w)]
                       IN  holder = Leaked \/ (holder \in Workers /\ CanStep(holder))
  BY DEF OnlyLeaksStop
<1>1. CASE at[w] = "waiting"
  <2>1. pc[w] = "handling"
    BY <1>1, HandlerTyped
  <2>2. owner # NoWorker
    BY <1>1, <2>1 DEF CanStep
  <2>3. owner \in Workers
    BY <2>2 DEF TInv, TypeOK
  <2> QED BY <1>1, <2>3, OwnerSteps
<1>2. CASE at[w] # "waiting"
  <2>1. /\ pc[w] \in {"callback", "reject"} \/ at[w] \in {"check", "clean"}
        /\ lock[NeededTask(w)] # Free
    BY <1>2 DEF CanStep
  <2>2. NeededTask(w) \in Tasks
    <3>1. CASE at[w] = "pool"
      <4>1. pc[w] \in P!Holding
        BY <2>1, <3>1 DEF P!Holding
      <4> QED BY <3>1, <4>1, P!HeldIsSubmitted, PoolConstants DEF TInv, NeededTask
    <3>2. CASE at[w] # "pool"
      BY <3>2, HandlerTyped DEF NeededTask
    <3> QED BY <3>1, <3>2
  <2>3. lock[NeededTask(w)] \in Workers \cup {Free, Leaked}
    BY <2>2 DEF TInv, TypeOK
  <2> QED BY <2>1, <2>2, <2>3, HolderSteps
<1> QED BY <1>1, <1>2

\* Whatever is played, stopped, paused and resumed: a worker that cannot step
\* waits for a job or a message, for the context of one that steps or waits for a
\* message, or for a mutex, and whoever holds that steps, unless pause or resume
\* left it locked (gst_aplay.c:214, :234).  So no workers wait for each other.
THEOREM OnlyLeaksStopWorkers == Spec => []OnlyLeaksStop
<1> QED BY InitTInv, NextTInv, InitBlockInv, NextBlockInv, BlockInvLeaks, PTL DEF Spec

-----------------------------------------------------------------------------
(***************************************************************************)
(* What goes right with the player's tasks, and on what condition.  Their  *)
(* invariants hold in no run that plays a task again while the pool has    *)
(* not yet called play_task_callback for its last playback (run            *)
(* player_task_reused), and the pool's containers are safe only while the  *)
(* ring does not come round.  TakesTurns and NotLapped exclude these two   *)
(* things and nothing else.                                                *)
(***************************************************************************)

\* The points between taking a job and its callback.
Busy == {"ready", "handling", "callback"}

\* gst_player_play finds a task idle only when no worker has it.
TakesTurns == \A s \in Tasks :
    task[s].state = "IDLE" /\ task'[s].state = "START" =>
        \A w \in Workers : pc[w] \in Busy => took[w].task # s

\* No worker is so slow that QSize later submissions pass it.
NotLapped == \A w \in Workers : pc[w] \in Busy => submitted < took[w].sub + QSize

-----------------------------------------------------------------------------
(* The inductive invariant *)

\* Who has task s: a worker, the pool's queue, or a client about to submit it.
Has(w, s)    == pc[w] \in Busy /\ took[w].task = s
Waits(s)     == size = 1 /\ slots[P!Mask(to_take)].job.task = s
Offers(c, s) == client[c].at = "submit" /\ TaskOf(client[c].id) = s

\* One of them at a time.
OwnerInv == \A s \in Tasks :
    /\ \A v, w \in Workers : Has(v, s) /\ Has(w, s) => v = w
    /\ \A w \in Workers : Has(w, s) => ~Waits(s)
    /\ \A c \in Clients : Offers(c, s) => ~Waits(s) /\ \A w \in Workers : ~Has(w, s)
    /\ \A c, d \in Clients : Offers(c, s) /\ Offers(d, s) => c = d

\* A task is idle when nobody has it, or a worker that is done with it.
IdleInv == \A s \in Tasks : task[s].state = "IDLE" =>
    /\ ~Waits(s)
    /\ \A c \in Clients : ~Offers(c, s)
    /\ \A w \in Workers : Has(w, s) => at[w] \in {"user", "return"} \/ pc[w] = "callback"

\* The handler plays the job its worker took.
ArgInv == \A w \in Workers : pc[w] \in P!InHandler => arg[w] = took[w]

\* Every play has an id of its own.
Calling(c) == client[c].at \in {"prepare", "submit"}

IdInv ==
    /\ \A n \in 1 .. submitted : playOf[n] \in 1 .. id
    /\ \A m, n \in 1 .. submitted : playOf[m] = playOf[n] => m = n
    /\ \A c \in Clients : Calling(c) => \A n \in 1 .. submitted : playOf[n] # client[c].id + 1
    /\ \A c, d \in Clients : Calling(c) /\ Calling(d) /\ client[c].id = client[d].id => c = d

\* A task carries the id of the play it was submitted for.
TaskIdInv == \A s \in Tasks :
    /\ Waits(s) => task[s].id + 1 = playOf[submitted] /\ TaskOf(task[s].id) = s
    /\ \A w \in Workers : Has(w, s) => /\ task[s].id + 1 = playOf[took[w].sub]
                                       /\ TaskOf(task[s].id) = s
    /\ \A c \in Clients : Offers(c, s) => task[s].id = client[c].id

\* From the check of its state to the reset, a playback has a pipeline, and
\* from the making of its loop it has that.
LoopPoints == {"run", "waiting", "looping", "message", "quit", "clean", "reset"}

PipelineInv ==
    /\ \A s \in Tasks :
          /\ task[s].pipeline # 0 => /\ task[s].pipeline = task[s].id + 1
                                     /\ TaskOf(task[s].id) = s
          /\ task[s].state # "IDLE" /\ lock[s] \notin Workers =>
                task[s].pipeline = 0 \/ element[task[s].pipeline] # "freed"
    /\ \A w \in Workers :
          at[w] \in LoopPoints \cup {"check"} => task[MyTask(w)].pipeline # 0

LoopInv ==
    /\ \A s \in Tasks : task[s].loop # 0 =>
          \E w \in Workers : at[w] \in LoopPoints /\ MyTask(w) = s
    /\ \A w \in Workers : at[w] \in LoopPoints =>
          /\ task[MyTask(w)].loop = arg[w].sub
          /\ at[w] # "reset" => running[arg[w].sub] # "freed"

\* By the end of it, loop and pipeline are gone.
ReleasedInv == \A w \in Workers :
    at[w] = "reset" \/ (at[w] = "user" /\ result[w] = "SUCCESS") =>
        element[task[MyTask(w)].id + 1] = "freed" /\ running[arg[w].sub] = "freed"

\* Every job is reported once, with the id of its play, and after its end.
Unreported(w) == pc[w] = "ready" \/ (pc[w] = "handling" /\ at[w] # "return")

ToldInv ==
    /\ \A r \in told :
          /\ r.sub <= submitted - size
          /\ r.id + 1 = playOf[r.sub]
          /\ r.res = "SUCCESS" => element[r.id + 1] = "freed" /\ running[r.sub] = "freed"
          /\ \A w \in Workers : Unreported(w) => took[w].sub # r.sub
    /\ \A r1, r2 \in told : r1.sub = r2.sub => r1 = r2

OwnInv  == OwnerInv /\ IdleInv /\ ArgInv /\ IdInv /\ TaskIdInv
KeepInv == PipelineInv /\ LoopInv /\ LockInv /\ ReleasedInv /\ ToldInv
SInv    == TInv /\ OwnInv /\ KeepInv

-----------------------------------------------------------------------------
(* What the invariant says of a worker in the handler *)

\* It has its task, alone, and its own submission.
LEMMA HandlerHas ==
    ASSUME SInv, NEW w \in Workers, at[w] # "pool"
    PROVE  /\ pc[w] = "handling"
           /\ MyTask(w) \in Tasks
           /\ Has(w, MyTask(w))
           /\ arg[w] = took[w]
           /\ arg[w].sub \in Plays
           /\ \A v \in Workers \ {w} : ~Has(v, MyTask(w))
           /\ \A v \in Workers \ {w} : at[v] # "pool" =>
                 MyTask(v) # MyTask(w) /\ arg[v].sub # arg[w].sub
<1>1. \A v \in Workers : at[v] # "pool" =>
         /\ pc[v] = "handling" /\ MyTask(v) \in Tasks /\ arg[v] = took[v]
         /\ Has(v, MyTask(v)) /\ pc[v] \in P!Holding /\ arg[v].sub \in Plays
  <2> SUFFICES ASSUME NEW v \in Workers, at[v] # "pool"
               PROVE  /\ pc[v] = "handling" /\ MyTask(v) \in Tasks /\ arg[v] = took[v]
                      /\ Has(v, MyTask(v)) /\ pc[v] \in P!Holding /\ arg[v].sub \in Plays
    OBVIOUS
  <2>1. pc[v] = "handling" /\ MyTask(v) \in Tasks /\ arg[v].sub \in Plays
    BY HandlerTyped DEF SInv
  <2>2. arg[v] = took[v]
    BY <2>1 DEF SInv, OwnInv, ArgInv, P!InHandler
  <2> QED BY <2>1, <2>2 DEF Has, Busy, MyTask, P!Holding
<1>2. \A v \in Workers : Has(v, MyTask(w)) => v = w
  BY <1>1 DEF SInv, OwnInv, OwnerInv
<1>3. P!UniqueInv
  BY DEF SInv, TInv, P!IInv
<1> QED BY <1>1, <1>2, <1>3 DEF P!UniqueInv

\* Every job that was handed out is counted in submitted - size.
LEMMA Counts ==
    ASSUME TInv
    PROVE  /\ submitted \in 0 .. MaxPlays /\ size \in {0, 1} /\ submitted - size \in 0 .. MaxPlays
           /\ MaxPlays \in Nat
           /\ \A w \in Workers : pc[w] \in Busy => took[w].sub \in 1 .. submitted - size
<1>1. submitted \in 0 .. MaxPlays /\ size \in {0, 1} /\ size <= submitted /\ MaxPlays \in Nat
  BY PlayerAssumption DEF TInv, P!IInv, P!TypeOK, P!CursorInv
<1>2. Busy \subseteq P!Holding
  BY DEF Busy, P!Holding
<1> QED BY <1>1, <1>2 DEF TInv, P!IInv, P!HolderInv

\* The task it plays carries the id of a play.
LEMMA HandlersPlay ==
    ASSUME SInv, NEW w \in Workers, at[w] # "pool"
    PROVE  LET s == MyTask(w)
           IN  /\ task[s].id + 1 = playOf[arg[w].sub]
               /\ task[s].id + 1 \in Plays
               /\ TaskOf(task[s].id) = s
<1> DEFINE s == MyTask(w)
           n == took[w].sub
<1>1. s \in Tasks /\ Has(w, s) /\ arg[w] = took[w]
  BY HandlerHas
<1>2. task[s].id + 1 = playOf[n] /\ TaskOf(task[s].id) = s
  BY <1>1 DEF SInv, OwnInv, TaskIdInv
<1>3. n \in 1 .. submitted /\ id \in 0 .. MaxPlays /\ MaxPlays \in Nat
  BY <1>1, Counts, PlayerAssumption DEF SInv, TInv, TypeOK, Has
<1>4. playOf[n] \in 1 .. id
  BY <1>3 DEF SInv, OwnInv, IdInv
<1> QED BY <1>1, <1>2, <1>3, <1>4 DEF Plays

\* Until the clean-up, its task is not idle, nobody holds the task's mutex but
\* to leak it, and the pipeline is alive.
LEMMA TaskInUse ==
    ASSUME SInv, NEW w \in Workers, at[w] \notin {"pool", "reset", "user", "return"}
    PROVE  LET s == MyTask(w)
           IN  /\ task[s].state # "IDLE"
               /\ lock[s] \notin Workers
               /\ task[s].pipeline = 0 \/ element[task[s].pipeline] # "freed"
<1> DEFINE s == MyTask(w)
<1>1. /\ s \in Tasks /\ Has(w, s) /\ pc[w] = "handling"
      /\ \A v \in Workers \ {w} : at[v] # "pool" => MyTask(v) # s
  BY HandlerHas
<1>2. task[s].state # "IDLE"
  BY <1>1 DEF SInv, OwnInv, IdleInv
<1>3. lock[s] \notin Workers
  BY <1>1 DEF SInv, KeepInv, LockInv
<1> QED BY <1>1, <1>2, <1>3 DEF SInv, KeepInv, PipelineInv

\* What is freed stays freed, and only what is freed is.
LEMMA SetFrees ==
    ASSUME TypeOK, NEW p \in 0 .. MaxPlays, NEW st \in ElementState
    PROVE  \A q \in Plays : Set(p, st)[q] = "freed" <=>
              element[q] = "freed" \/ (q = p /\ st = "freed")
BY PlayerAssumption DEF TypeOK, Set, Plays

\* Quitting a loop frees none.
LEMMA QuitFrees ==
    ASSUME TypeOK, NEW l \in 0 .. MaxPlays
    PROVE  \A n \in Plays : Quit(l)[n] = "freed" <=> running[n] = "freed"
BY PlayerAssumption DEF TypeOK, Quit, Plays


-----------------------------------------------------------------------------
(* Steps that change no owner *)

\* The invariants on owners depend on these only.
LEMMA OwnSame ==
    ASSUME OwnInv, UNCHANGED <<pool, id, playOf>>,
           \A c \in Clients : Calling(c)' => client'[c] = client[c],
           \A s \in Tasks : /\ task'[s].id = task[s].id
                            /\ task'[s].state = "IDLE" => task[s].state = "IDLE",
           \A w \in Workers : at[w] \in {"user", "return"} => at'[w] \in {"user", "return"}
    PROVE  OwnInv'
<1>1. /\ \A w \in Workers, s \in Tasks : Has(w, s)' <=> Has(w, s)
      /\ \A s \in Tasks : Waits(s)' <=> Waits(s)
      /\ \A c \in Clients, s \in Tasks : Offers(c, s)' => Offers(c, s) /\ client'[c] = client[c]
      /\ \A c \in Clients : Calling(c)' => Calling(c) /\ client'[c] = client[c]
  BY DEF Has, Waits, Offers, Calling, Busy, pool, P!Mask, TaskOf
<1>2. OwnerInv'
  BY <1>1 DEF OwnInv, OwnerInv
<1>3. IdleInv'
  BY <1>1 DEF OwnInv, IdleInv, pool
<1>4. ArgInv'
  BY DEF OwnInv, ArgInv, pool, P!InHandler
<1>5. IdInv'
  BY <1>1 DEF OwnInv, IdInv, pool
<1>6. TaskIdInv'
  BY <1>1 DEF OwnInv, TaskIdInv, pool, TaskOf
<1> QED BY <1>2, <1>3, <1>4, <1>5, <1>6 DEF OwnInv

\* The playbacks reported so far are known ones.
LEMMA ToldPlays ==
    ASSUME SInv
    PROVE  \A r \in told : /\ r.sub \in 1 .. submitted /\ r.sub \in Plays
                           /\ r.id + 1 = playOf[r.sub]
                           /\ r.id + 1 \in Plays
<1> SUFFICES ASSUME NEW r \in told
             PROVE  /\ r.sub \in 1 .. submitted /\ r.sub \in Plays
                    /\ r.id + 1 = playOf[r.sub] /\ r.id + 1 \in Plays
  OBVIOUS
<1>1. r.sub \in 1 .. submitted /\ r.sub \in Plays
  BY Counts DEF SInv, TInv, TypeOK, KeepInv, ToldInv, Plays
<1>2. r.id + 1 = playOf[r.sub]
  BY DEF SInv, KeepInv, ToldInv
<1>3. playOf[r.sub] \in 1 .. id /\ id \in 0 .. MaxPlays /\ MaxPlays \in Nat
  BY <1>1, PlayerAssumption DEF SInv, OwnInv, IdInv, TInv, TypeOK
<1> QED BY <1>1, <1>2, <1>3 DEF Plays

\* What was reported stays true, unless a freed pipeline is made anew or a
\* worker plays a reported job again.
LEMMA ToldSame ==
    ASSUME SInv, UNCHANGED told,
           submitted' - size' >= submitted - size,
           submitted' - size' \in Nat,
           \A n \in 1 .. submitted : playOf'[n] = playOf[n],
           \A r \in told : /\ element[r.id + 1] = "freed" => element'[r.id + 1] = "freed"
                           /\ running[r.sub] = "freed" => running'[r.sub] = "freed",
           \A w \in Workers : Unreported(w)' =>
              \/ Unreported(w) /\ took'[w] = took[w]
              \/ took'[w].sub > submitted - size
    PROVE  ToldInv'
<1>1. ToldInv
  BY DEF SInv, KeepInv
<1>2. \A r \in told : r.sub \in 1 .. submitted /\ r.id + 1 = playOf[r.sub]
  BY ToldPlays
<1>3. submitted - size \in Nat
  BY Counts DEF SInv
<1> SUFFICES ASSUME NEW r \in told
             PROVE  /\ r.sub <= submitted' - size'
                    /\ r.id + 1 = playOf'[r.sub]
                    /\ r.res = "SUCCESS" => element'[r.id + 1] = "freed" /\ running'[r.sub] = "freed"
                    /\ \A w \in Workers : Unreported(w)' => took'[w].sub # r.sub
  BY <1>1 DEF ToldInv, Unreported
<1>4. r.sub <= submitted - size /\ r.sub \in Int
  BY <1>1, <1>2, Counts DEF ToldInv, SInv
<1>5. \A w \in Workers : Unreported(w)' => took'[w].sub # r.sub
  BY <1>1, <1>3, <1>4 DEF ToldInv
<1> QED BY <1>1, <1>2, <1>3, <1>4, <1>5 DEF ToldInv

\* A worker in its handler does something that neither frees anything nor
\* touches a task.
LEMMA QuietStep ==
    ASSUME SInv, NEW w \in Workers,
           UNCHANGED <<pool, id, task, lock, client, told, playOf>>,
           at[w] \notin {"pool", "reset", "user", "return"},
           at'[w] \notin {"pool", "reset", "return"},
           at'[w] \in LoopPoints <=> at[w] \in LoopPoints,
           at'[w] = "check" => task[MyTask(w)].pipeline # 0,
           at'[w] = "user" => result'[w] # "SUCCESS",
           \A v \in Workers \ {w} : at'[v] = at[v] /\ result'[v] = result[v],
           \A p \in Plays : /\ element'[p] = "freed" <=> element[p] = "freed"
                            /\ running'[p] = "freed" <=> running[p] = "freed"
    PROVE  OwnInv' /\ KeepInv'
<1> USE PlayerAssumption
<1>0. TypeOK /\ TInv /\ OwnInv /\ PipelineInv /\ LoopInv /\ LockInv /\ ReleasedInv /\ ToldInv
  BY DEF SInv, TInv, KeepInv
<1>1. OwnInv'
  BY <1>0, OwnSame
<1>2. \A v \in Workers : MyTask(v)' = MyTask(v) /\ arg'[v] = arg[v]
  BY DEF MyTask, pool
<1>3. \A s \in Tasks : task[s].pipeline \in 0 .. MaxPlays
  BY <1>0 DEF TypeOK, TaskType
<1>4. PipelineInv'
  BY <1>0, <1>2, <1>3 DEF PipelineInv, LoopPoints, Plays, TaskOf
<1>5. LoopInv'
  <2>1. \A v \in Workers : at[v] \in LoopPoints => arg[v].sub \in Plays
    BY HandlerHas DEF LoopPoints
  <2>2. \A v \in Workers : at'[v] \in LoopPoints <=> at[v] \in LoopPoints
    OBVIOUS
  <2>3. \A v \in Workers : at'[v] = "reset" <=> at[v] = "reset"
    OBVIOUS
  <2> QED BY <1>0, <1>2, <2>1, <2>2, <2>3 DEF LoopInv, LoopPoints
<1>6. LockInv'
  BY <1>0, <1>2 DEF LockInv
<1>7. ReleasedInv'
  <2> SUFFICES ASSUME NEW v \in Workers,
                      at'[v] = "reset" \/ (at'[v] = "user" /\ result'[v] = "SUCCESS")
               PROVE  element'[task[MyTask(v)].id + 1] = "freed" /\ running'[arg[v].sub] = "freed"
    BY <1>2 DEF ReleasedInv
  <2>1. v # w /\ at[v] # "pool"
    OBVIOUS
  <2>2. /\ element[task[MyTask(v)].id + 1] = "freed" /\ running[arg[v].sub] = "freed"
    BY <1>0, <2>1 DEF ReleasedInv
  <2>3. arg[v].sub \in Plays
    BY <2>1, HandlerHas
  <2>4. task[MyTask(v)].id + 1 \in Plays
    BY <1>0, <2>1, HandlersPlay
  <2> QED BY <2>2, <2>3, <2>4
<1>8. ToldInv'
  <2>1. submitted' - size' >= submitted - size /\ submitted' - size' \in Nat
    BY <1>0, Counts DEF pool
  <2>2. \A v \in Workers : Unreported(v)' => Unreported(v) /\ took'[v] = took[v]
    BY DEF Unreported, pool
  <2>3. \A r \in told : /\ element[r.id + 1] = "freed" => element'[r.id + 1] = "freed"
                        /\ running[r.sub] = "freed" => running'[r.sub] = "freed"
    BY ToldPlays
  <2> QED BY <2>1, <2>2, <2>3, ToldSame
<1> QED BY <1>1, <1>4, <1>5, <1>6, <1>7, <1>8 DEF KeepInv

\* The steps of the handler and of cb_message that are like this.
LEMMA HandlerQuiet ==
    ASSUME SInv, NEW w \in Workers,
           \/ GetBus(w) \/ SetPlaying(w) \/ (CheckState(w) /\ at'[w] = "user")
           \/ RunLoop(w) \/ Acquire(w) \/ LeaveLoop(w)
           \/ (\E p \in Plays, kind \in Msgs : Dispatch(w, p, kind))
           \/ React(w) \/ QuitLoop(w)
    PROVE  OwnInv' /\ KeepInv'
<1> USE PlayerAssumption
<1>0. TypeOK /\ TInv /\ MsgInv
  BY DEF SInv, TInv
<1>1. \A from, to : Go(w, from, to) =>
         at[w] = from /\ at'[w] = to /\ \A v \in Workers \ {w} : at'[v] = at[v]
  BY <1>0 DEF Go, TypeOK
<1>2. /\ MyTask(w) \in Tasks
      /\ task[MyTask(w)].pipeline \in 0 .. MaxPlays
      /\ task[MyTask(w)].loop \in 0 .. MaxPlays
  BY <1>0, HandlerTyped DEF GetBus, SetPlaying, CheckState, RunLoop, Acquire, LeaveLoop,
                            Dispatch, React, QuitLoop, Go
<1>3. CASE GetBus(w)
  <2>1. UNCHANGED <<pool, id, task, lock, client, told, playOf, result, element, running>>
    BY <1>3 DEF GetBus, player, extern
  <2>2. at[w] = "start" /\ at'[w] = "set_state" /\ \A v \in Workers \ {w} : at'[v] = at[v]
    BY <1>1, <1>3 DEF GetBus
  <2> QED BY <2>1, <2>2, QuietStep DEF LoopPoints
<1>4. CASE SetPlaying(w)
  <2> DEFINE p == task[MyTask(w)].pipeline
  <2>1. UNCHANGED <<pool, id, task, lock, client, told, playOf, running>>
    BY <1>4 DEF SetPlaying, player
  <2>2. /\ at[w] = "set_state" /\ \A v \in Workers \ {w} : at'[v] = at[v]
        /\ \/ at'[w] = "check" /\ p # 0 /\ UNCHANGED result
           \/ at'[w] = "user" /\ result' = [result EXCEPT ![w] = "UNABLE_TO_PLAY"]
    BY <1>1, <1>4 DEF SetPlaying, Outcome
  <2>3. \A q \in Plays : element'[q] = "freed" <=> element[q] = "freed"
    <3>1. element' = element \/ element' = Set(p, "PLAYING")
      BY <1>4 DEF SetPlaying
    <3>2. "PLAYING" \in ElementState /\ "PLAYING" # "freed"
      BY DEF ElementState
    <3> HIDE DEF p
    <3> QED BY <1>0, <1>2, <3>1, <3>2, SetFrees DEF p
  <2>4. /\ at'[w] = "user" => result'[w] # "SUCCESS"
        /\ \A v \in Workers \ {w} : result'[v] = result[v]
    BY <1>0, <2>2 DEF TypeOK
  <2> QED BY <2>1, <2>2, <2>3, <2>4, QuietStep DEF LoopPoints
<1>5. CASE CheckState(w) /\ at'[w] = "user"
  <2>1. at[w] = "check" /\ \A v \in Workers \ {w} : at'[v] = at[v]
    BY <1>1, <1>5 DEF CheckState
  <2>2. /\ UNCHANGED <<pool, id, task, lock, client, told, playOf, running, element>>
        /\ result' = [result EXCEPT ![w] = "CANCELED"]
    BY <1>1, <1>5 DEF CheckState, ghost, Outcome
  <2>3. /\ at'[w] = "user" => result'[w] # "SUCCESS"
        /\ \A v \in Workers \ {w} : result'[v] = result[v]
    BY <1>0, <2>2 DEF TypeOK
  <2> QED BY <1>5, <2>1, <2>2, <2>3, QuietStep DEF LoopPoints
<1>6. CASE RunLoop(w)
  <2> DEFINE l == task[MyTask(w)].loop
  <2>1. /\ at[w] = "run" /\ at'[w] \in {"clean", "waiting"}
        /\ \A v \in Workers \ {w} : at'[v] = at[v]
    BY <1>1, <1>6 DEF RunLoop
  <2>2. UNCHANGED <<pool, id, task, lock, client, told, playOf, result, element>>
    BY <1>6 DEF RunLoop, player
  <2>3. \A n \in Plays : running'[n] = "freed" <=> running[n] = "freed"
    BY <1>0, <1>2, <1>6 DEF RunLoop, TypeOK, Plays
  <2> QED BY <2>1, <2>2, <2>3, QuietStep DEF LoopPoints
<1>7. CASE Acquire(w) \/ LeaveLoop(w)
  <2>1. /\ at[w] \in {"waiting", "looping"} /\ at'[w] \in {"looping", "clean"}
        /\ \A v \in Workers \ {w} : at'[v] = at[v]
    BY <1>1, <1>7 DEF Acquire, LeaveLoop
  <2>2. UNCHANGED <<pool, id, task, lock, client, told, playOf, result, element, running>>
    BY <1>7 DEF Acquire, LeaveLoop, player, ghost
  <2> QED BY <2>1, <2>2, QuietStep DEF LoopPoints
<1>8. CASE \E p \in Plays, kind \in Msgs : Dispatch(w, p, kind)
  <2>1. /\ at[w] = "looping" /\ at'[w] = "message"
        /\ \A v \in Workers \ {w} : at'[v] = at[v]
    BY <1>1, <1>8 DEF Dispatch
  <2>2. UNCHANGED <<pool, id, task, lock, client, told, playOf, result, element, running>>
    BY <1>8 DEF Dispatch, player, ghost, extern
  <2> QED BY <2>1, <2>2, QuietStep DEF LoopPoints
<1>9. CASE React(w) \/ QuitLoop(w)
  <2> DEFINE m == msg[w]
  <2>1. /\ at[w] \in {"message", "quit"} /\ at'[w] \in {"quit", "looping"}
        /\ \A v \in Workers \ {w} : at'[v] = at[v]
    BY <1>1, <1>9 DEF React, QuitLoop
  <2>2. /\ m.task \in Tasks /\ m.kind \in Msgs
        /\ task[m.task].pipeline \in 0 .. MaxPlays
        /\ task[m.task].loop \in 0 .. MaxPlays
    BY <1>0, <2>1 DEF TypeOK, MsgInv, TaskType
  <2>3. UNCHANGED <<pool, id, task, lock, client, told, playOf, result>>
    BY <1>9 DEF React, QuitLoop, player
  <2>4. \A q \in Plays : element'[q] = "freed" <=> element[q] = "freed"
    <3>1. \/ UNCHANGED element
          \/ \E st \in {"READY", "PAUSED", "PLAYING"} : element' = Set(task[m.task].pipeline, st)
      <4>1. m.kind \in {"ERROR", "EOS", "BUFFERING", "BUFFERED", "CLOCK_LOST"}
        BY <2>2
      <4>2. \/ m.kind = "EOS" /\ ~Ends(m)
            \/ StateFor(m) \in {"READY", "PAUSED", "PLAYING"}
        BY <4>1 DEF Ends, StateFor
      <4> QED BY <1>9, <4>2 DEF React, QuitLoop
    <3>2. \A st \in {"READY", "PAUSED", "PLAYING"} : st \in ElementState /\ st # "freed"
      BY DEF ElementState
    <3> QED BY <1>0, <2>2, <3>1, <3>2, SetFrees
  <2>5. \A n \in Plays : running'[n] = "freed" <=> running[n] = "freed"
    <3>1. UNCHANGED running \/ running' = Quit(task[m.task].loop)
      BY <1>9 DEF React, QuitLoop, QuitTask
    <3> QED BY <1>0, <2>2, <3>1, QuitFrees
  <2> QED BY <2>1, <2>3, <2>4, <2>5, QuietStep DEF LoopPoints
<1> QED BY <1>3, <1>4, <1>5, <1>6, <1>7, <1>8, <1>9

\* A client does something that neither frees anything nor gives a task away.
LEMMA ClientQuietStep ==
    ASSUME SInv,
           UNCHANGED <<pool, id, at, result, told, playOf>>,
           \A c \in Clients : Calling(c)' => client'[c] = client[c],
           \A s \in Tasks : /\ task'[s].id = task[s].id
                            /\ task'[s].pipeline = task[s].pipeline
                            /\ task'[s].loop = task[s].loop
                            /\ task'[s].state = "IDLE" <=> task[s].state = "IDLE"
                            /\ lock'[s] = lock[s] \/ (lock[s] = Free /\ lock'[s] = Leaked),
           \A p \in Plays : /\ element'[p] = "freed" <=> element[p] = "freed"
                            /\ running'[p] = "freed" <=> running[p] = "freed"
    PROVE  OwnInv' /\ KeepInv'
<1> USE PlayerAssumption
<1>0. TypeOK /\ TInv /\ OwnInv /\ PipelineInv /\ LoopInv /\ LockInv /\ ReleasedInv /\ ToldInv
  BY DEF SInv, TInv, KeepInv
<1>1. OwnInv'
  BY <1>0, OwnSame
<1>2. \A v \in Workers : MyTask(v)' = MyTask(v) /\ arg'[v] = arg[v]
  BY DEF MyTask, pool
<1>3. \A v \in Workers : at[v] # "pool" => /\ MyTask(v) \in Tasks /\ arg[v].sub \in Plays
                                           /\ task[MyTask(v)].id + 1 \in Plays
  BY HandlerHas, HandlersPlay
<1>4. PipelineInv'
  <2>1. \A s \in Tasks : task[s].pipeline \in 0 .. MaxPlays
    BY <1>0 DEF TypeOK, TaskType
  <2>2. \A s \in Tasks : lock'[s] \notin Workers => lock[s] \notin Workers
    OBVIOUS
  <2> QED BY <1>0, <1>2, <1>3, <2>1, <2>2 DEF PipelineInv, LoopPoints, Plays, TaskOf
<1>5. LoopInv'
  BY <1>0, <1>2, <1>3 DEF LoopInv, LoopPoints
<1>6. LockInv'
  <2>1. \A s \in Tasks : lock[s] \in Workers => lock'[s] = lock[s]
    OBVIOUS
  <2>2. \A s \in Tasks : lock'[s] \in Workers => lock'[s] = lock[s]
    OBVIOUS
  <2> QED BY <1>0, <1>2, <1>3, <2>1, <2>2 DEF LockInv
<1>7. ReleasedInv'
  BY <1>0, <1>2, <1>3 DEF ReleasedInv
<1>8. ToldInv'
  <2>1. submitted' - size' >= submitted - size /\ submitted' - size' \in Nat
    BY <1>0, Counts DEF pool
  <2>2. \A v \in Workers : Unreported(v)' => Unreported(v) /\ took'[v] = took[v]
    BY DEF Unreported, pool
  <2>3. \A r \in told : /\ element[r.id + 1] = "freed" => element'[r.id + 1] = "freed"
                        /\ running[r.sub] = "freed" => running'[r.sub] = "freed"
    BY ToldPlays
  <2> QED BY <2>1, <2>2, <2>3, ToldSame
<1> QED BY <1>1, <1>4, <1>5, <1>6, <1>7, <1>8 DEF KeepInv

\* The calls that are like this, and a play that finds its task busy.
LEMMA ClientQuiet ==
    ASSUME SInv, NEW c \in Clients,
           \/ \E s \in Tasks : Seek(c, s) \/ Stop(c, s) \/ Pause(c, s) \/ Resume(c, s)
           \/ StopAll(c) \/ StopAllNext(c)
           \/ PlayPrepare(c) /\ client' = [client EXCEPT ![c].at = "idle"] /\ UNCHANGED <<task, element>>
    PROVE  OwnInv' /\ KeepInv'
<1> USE PlayerAssumption
<1>0. TypeOK
  BY DEF SInv, TInv
<1>1. \A s \in Tasks : /\ task[s].pipeline \in 0 .. MaxPlays /\ task[s].loop \in 0 .. MaxPlays
                       /\ task[s] \in TaskType
  BY <1>0 DEF TypeOK, TaskType
<1>2. "READY" \in ElementState /\ "PAUSED" \in ElementState /\ "PLAYING" \in ElementState
  BY DEF ElementState
<1>3. ASSUME NEW s \in Tasks, Seek(c, s) PROVE OwnInv' /\ KeepInv'
  <2>1. UNCHANGED <<pool, id, at, result, told, playOf, client, task, lock, element, running>>
    BY <1>3 DEF Seek, player, local, extern
  <2> QED BY <2>1, ClientQuietStep
<1>4. ASSUME NEW s \in Tasks, StopTask(s),
             \A d \in Clients : Calling(d)' => client'[d] = client[d]
      PROVE  OwnInv' /\ KeepInv'
  <2>1. UNCHANGED <<pool, id, at, result, told, playOf, lock>>
    BY <1>4 DEF StopTask, local
  <2>2. \A r \in Tasks : /\ task'[r].id = task[r].id
                         /\ task'[r].pipeline = task[r].pipeline
                         /\ task'[r].loop = task[r].loop
                         /\ task'[r].state = "IDLE" <=> task[r].state = "IDLE"
    BY <1>0, <1>4 DEF StopTask, TypeOK, TaskType
  <2>3. \A p \in Plays : /\ element'[p] = "freed" <=> element[p] = "freed"
                         /\ running'[p] = "freed" <=> running[p] = "freed"
    <3>1. \/ UNCHANGED <<element, running>>
          \/ element' = Set(task[s].pipeline, "READY") /\ running' = Quit(task[s].loop)
      BY <1>4 DEF StopTask, QuitTask
    <3> QED BY <1>0, <1>1, <1>2, <3>1, SetFrees, QuitFrees
  <2> QED BY <1>4, <2>1, <2>2, <2>3, ClientQuietStep
<1>5. CASE (\E s \in Tasks : Stop(c, s)) \/ StopAll(c) \/ StopAllNext(c)
  <2>1. PICK s \in Tasks : StopTask(s)
    BY <1>5 DEF Stop, StopAll, StopAllNext, Tasks, TASK_QSZ
  <2>2. \A d \in Clients : Calling(d)' => client'[d] = client[d]
    BY <1>0, <1>5 DEF Stop, StopAll, StopAllNext, TypeOK, ClientType, Calling
  <2> QED BY <1>4, <2>1, <2>2
<1>6. ASSUME NEW s \in Tasks, Pause(c, s) \/ Resume(c, s) PROVE OwnInv' /\ KeepInv'
  <2>1. UNCHANGED <<pool, id, at, result, told, playOf, client, task, running>>
    BY <1>6 DEF Pause, Resume, PauseOrResume, local
  <2>2. \A r \in Tasks : lock'[r] = lock[r] \/ (lock[r] = Free /\ lock'[r] = Leaked)
    BY <1>0, <1>6 DEF Pause, Resume, PauseOrResume, TypeOK
  <2>3. \A p \in Plays : element'[p] = "freed" <=> element[p] = "freed"
    <3>1. \/ UNCHANGED element
          \/ element' = Set(task[s].pipeline, "PAUSED")
          \/ element' = Set(task[s].pipeline, "PLAYING")
      BY <1>6 DEF Pause, Resume, PauseOrResume
    <3> QED BY <1>0, <1>1, <1>2, <3>1, SetFrees
  <2> QED BY <2>1, <2>2, <2>3, ClientQuietStep
<1>7. CASE PlayPrepare(c) /\ client' = [client EXCEPT ![c].at = "idle"] /\ UNCHANGED <<task, element>>
  <2>1. UNCHANGED <<pool, id, at, result, told, playOf, lock, running>>
    BY <1>7 DEF PlayPrepare, local, ghost
  <2>2. \A d \in Clients : Calling(d)' => client'[d] = client[d]
    BY <1>0, <1>7 DEF TypeOK, ClientType, Calling
  <2> QED BY <1>7, <2>1, <2>2, ClientQuietStep
<1> QED BY <1>3, <1>5, <1>6, <1>7

-----------------------------------------------------------------------------
(* gst_player_play *)

\* The invariants on the playbacks under way depend on these only.
LEMMA KeepSame ==
    ASSUME SInv, UNCHANGED <<arg, took, task, lock, at, result, told, element, running>>,
           submitted' - size' = submitted - size,
           \A n \in 1 .. submitted : playOf'[n] = playOf[n],
           \A w \in Workers : Unreported(w)' => Unreported(w)
    PROVE  KeepInv'
<1>0. PipelineInv /\ LoopInv /\ LockInv /\ ReleasedInv
  BY DEF SInv, KeepInv
<1>1. PipelineInv'
  BY <1>0 DEF PipelineInv, MyTask
<1>2. LoopInv'
  BY <1>0 DEF LoopInv, MyTask
<1>3. LockInv'
  BY <1>0 DEF LockInv, MyTask
<1>4. ReleasedInv'
  BY <1>0 DEF ReleasedInv, MyTask
<1>5. ToldInv'
  <2>1. submitted' - size' >= submitted - size /\ submitted' - size' \in Nat
    BY Counts DEF SInv
  <2> QED BY <2>1, ToldSame
<1> QED BY <1>1, <1>2, <1>3, <1>4, <1>5 DEF KeepInv

\* A new id is that of no other play.
LEMMA PlayIdSInv ==
    ASSUME SInv, NEW c \in Clients, PlayId(c)
    PROVE  OwnInv' /\ KeepInv'
<1>0. TInv /\ TypeOK /\ OwnInv /\ ClientInv /\ MaxPlays \in Nat
  BY PlayerAssumption DEF SInv, TInv
<1>1. /\ UNCHANGED <<pool, task, lock, at, result, told, playOf, element, running>>
      /\ id' = id + 1
      /\ client' = [client EXCEPT ![c] = [at |-> "prepare", id |-> id]]
  BY DEF PlayId, local, extern, ghost
<1>2. /\ client'[c] = [at |-> "prepare", id |-> id]
      /\ \A d \in Clients \ {c} : client'[d] = client[d]
      /\ id \in Nat
      /\ \A d \in Clients : client[d].id \in Nat
  BY <1>0, <1>1 DEF TypeOK, ClientType
<1>3. /\ \A w \in Workers, s \in Tasks : Has(w, s)' <=> Has(w, s)
      /\ \A s \in Tasks : Waits(s)' <=> Waits(s)
      /\ \A d \in Clients, s \in Tasks :
            Offers(d, s)' => Offers(d, s) /\ client'[d] = client[d]
  BY <1>1, <1>2 DEF Has, Waits, Offers, Busy, pool, P!Mask, TaskOf
<1>4. OwnerInv'
  BY <1>0, <1>3 DEF OwnInv, OwnerInv
<1>5. IdleInv'
  BY <1>0, <1>1, <1>3 DEF OwnInv, IdleInv, pool
<1>6. ArgInv'
  BY <1>0, <1>1 DEF OwnInv, ArgInv, pool, P!InHandler
<1>7. IdInv'
  <2>1. \A n \in 1 .. submitted : playOf[n] \in 1 .. id
    BY <1>0 DEF OwnInv, IdInv
  <2>2. submitted' = submitted /\ playOf' = playOf
    BY <1>1 DEF pool
  <2>3. \A d \in Clients : Calling(d)' => d = c \/ (Calling(d) /\ client'[d] = client[d])
    BY <1>2 DEF Calling
  <2>4. \A d \in Clients : Calling(d) => client[d].id < id
    BY <1>0 DEF ClientInv, Calling
  <2>5. \A n \in 1 .. submitted : playOf[n] \in 1 .. id'
    BY <1>1, <1>2, <2>1
  <2>6. \A d \in Clients : Calling(d)' => \A n \in 1 .. submitted : playOf[n] # client'[d].id + 1
    BY <1>0, <1>2, <2>1, <2>3 DEF OwnInv, IdInv
  <2>7. \A d, e \in Clients :
           Calling(d)' /\ Calling(e)' /\ client'[d].id = client'[e].id => d = e
    BY <1>0, <1>2, <2>3, <2>4 DEF OwnInv, IdInv
  <2> QED BY <1>0, <2>2, <2>5, <2>6, <2>7 DEF OwnInv, IdInv
<1>8. TaskIdInv'
  BY <1>0, <1>1, <1>3 DEF OwnInv, TaskIdInv, pool, TaskOf
<1>9. KeepInv'
  BY <1>1, KeepSame DEF pool, Unreported
<1> QED BY <1>4, <1>5, <1>6, <1>7, <1>8, <1>9 DEF OwnInv

\* A play that finds its task idle has it for itself, if plays take turns.
LEMMA PlayPrepareSInv ==
    ASSUME SInv, NEW c \in Clients, PlayPrepare(c), TakesTurns,
           ~UNCHANGED <<task, element>>
    PROVE  OwnInv' /\ KeepInv'
<1> DEFINE p == client[c].id
           s == TaskOf(p)
<1> USE PlayerAssumption
<1>0. TInv /\ TypeOK /\ OwnInv /\ ClientInv /\ MaxPlays \in Nat
  BY DEF SInv, TInv
<1>1. client[c].at = "prepare" /\ p \in 0 .. MaxPlays - 1 /\ s \in Tasks
  <2>1. client[c].at = "prepare"
    BY DEF PlayPrepare
  <2>2. p < id /\ p \in Nat /\ id \in 0 .. MaxPlays
    BY <1>0, <2>1 DEF ClientInv, TypeOK, ClientType
  <2> QED BY <1>0, <2>1, <2>2, TaskOfType
<1>2. /\ UNCHANGED <<pool, id, lock, at, result, running, told, playOf>>
      /\ task[s].state = "IDLE"
      /\ client' = [client EXCEPT ![c].at = "submit"]
  BY DEF PlayPrepare, local, ghost
<1>3. PICK pipeline \in {0, p + 1}, type \in Types :
         /\ task' = [task EXCEPT ![s] =
                      [@ EXCEPT !.id = p, !.pipeline = pipeline,
                                !.type = type, !.state = "START"]]
         /\ element' = IF pipeline = 0 THEN element
                       ELSE [element EXCEPT ![pipeline] = "NULL"]
  BY DEF PlayPrepare
<1>4. /\ task'[s].id = p /\ task'[s].pipeline = pipeline
      /\ task'[s].state = "START" /\ task'[s].loop = task[s].loop
      /\ \A r \in Tasks \ {s} : task'[r] = task[r]
  BY <1>0, <1>1, <1>3 DEF TypeOK, TaskType
<1>5. /\ \A q \in Plays \ {p + 1} : element'[q] = element[q]
      /\ pipeline # 0 => element'[pipeline] = "NULL"
  BY <1>0, <1>1, <1>3 DEF TypeOK, Plays
<1>6. /\ client'[c].at = "submit" /\ client'[c].id = p
      /\ \A d \in Clients \ {c} : client'[d] = client[d]
  BY <1>0, <1>2 DEF TypeOK, ClientType
<1> HIDE DEF s
<1>7. \A w \in Workers : ~Has(w, s)
  BY <1>1, <1>2, <1>4 DEF TakesTurns, Has
<1>8. ~Waits(s) /\ \A d \in Clients : ~Offers(d, s)
  BY <1>0, <1>1, <1>2 DEF OwnInv, IdleInv
<1>9. /\ \A w \in Workers, r \in Tasks : Has(w, r)' <=> Has(w, r)
      /\ \A r \in Tasks : Waits(r)' <=> Waits(r)
      /\ \A d \in Clients, r \in Tasks :
            Offers(d, r)' <=> (d = c /\ r = s) \/ (d # c /\ Offers(d, r))
  BY <1>1, <1>2, <1>6 DEF Has, Waits, Offers, Busy, pool, P!Mask, TaskOf, s
<1>10. OwnInv'
  <2>1. OwnerInv'
    BY <1>0, <1>7, <1>8, <1>9 DEF OwnInv, OwnerInv
  <2>2. IdleInv'
    BY <1>0, <1>2, <1>4, <1>9 DEF OwnInv, IdleInv, pool
  <2>3. ArgInv'
    BY <1>0, <1>2 DEF OwnInv, ArgInv, pool, P!InHandler
  <2>4. IdInv'
    <3>1. \A d \in Clients : Calling(d)' => Calling(d) /\ client'[d].id = client[d].id
      BY <1>1, <1>6 DEF Calling
    <3> QED BY <1>0, <1>2, <3>1 DEF OwnInv, IdInv, pool
  <2>5. TaskIdInv'
    BY <1>0, <1>2, <1>4, <1>6, <1>7, <1>8, <1>9 DEF OwnInv, TaskIdInv, pool, TaskOf
  <2> QED BY <2>1, <2>2, <2>3, <2>4, <2>5 DEF OwnInv
<1>11. \A v \in Workers : at[v] # "pool" =>
          /\ MyTask(v) \in Tasks \ {s}
          /\ task[MyTask(v)].id + 1 \in Plays \ {p + 1}
  <2> SUFFICES ASSUME NEW v \in Workers, at[v] # "pool"
               PROVE  /\ MyTask(v) \in Tasks \ {s}
                      /\ task[MyTask(v)].id + 1 \in Plays \ {p + 1}
    OBVIOUS
  <2>1. MyTask(v) \in Tasks \ {s}
    BY <1>7, HandlerHas
  <2>2. task[MyTask(v)].id + 1 \in Plays /\ TaskOf(task[MyTask(v)].id) = MyTask(v)
    BY HandlersPlay
  <2>3. task[MyTask(v)].id # p
    BY <2>1, <2>2 DEF s
  <2>4. task[MyTask(v)].id \in Int
    BY <1>0, <2>1 DEF TypeOK, TaskType
  <2> QED BY <1>1, <2>1, <2>2, <2>3, <2>4
<1>12. PipelineInv /\ LoopInv /\ LockInv /\ ReleasedInv /\ ToldInv
  BY DEF SInv, KeepInv
<1>13. \A v \in Workers : MyTask(v)' = MyTask(v)
  BY <1>2 DEF MyTask, pool
<1>14. PipelineInv'
  <2>1. task'[s].pipeline # 0 => /\ task'[s].pipeline = task'[s].id + 1
                                 /\ TaskOf(task'[s].id) = s
                                 /\ element'[task'[s].pipeline] # "freed"
    BY <1>4, <1>5 DEF s
  <2>2. \A r \in Tasks \ {s} : task[r].pipeline # 0 =>
           task[r].pipeline \in Plays \ {p + 1}
    <3> SUFFICES ASSUME NEW r \in Tasks \ {s}, task[r].pipeline # 0
                 PROVE  task[r].pipeline \in Plays \ {p + 1}
      OBVIOUS
    <3>1. task[r].pipeline = task[r].id + 1 /\ TaskOf(task[r].id) = r
      BY <1>12 DEF PipelineInv
    <3>2. task[r].id # p /\ task[r].id \in Int /\ task[r].pipeline \in 0 .. MaxPlays
      BY <1>0, <3>1 DEF s, TypeOK, TaskType
    <3> QED BY <1>1, <3>1, <3>2 DEF Plays
  <2>3. \A r \in Tasks :
          /\ task'[r].pipeline # 0 => /\ task'[r].pipeline = task'[r].id + 1
                                      /\ TaskOf(task'[r].id) = r
          /\ task'[r].state # "IDLE" /\ lock[r] \notin Workers =>
                task'[r].pipeline = 0 \/ element'[task'[r].pipeline] # "freed"
    BY <1>4, <1>5, <1>12, <2>1, <2>2 DEF PipelineInv
  <2>4. \A w \in Workers :
          at[w] \in LoopPoints \cup {"check"} => task'[MyTask(w)].pipeline # 0
    BY <1>4, <1>11, <1>12 DEF PipelineInv, LoopPoints
  <2> QED BY <1>2, <1>13, <2>3, <2>4 DEF PipelineInv, TaskOf
<1>15. LoopInv'
  <2>1. \A r \in Tasks : task'[r].loop = task[r].loop
    BY <1>4
  <2>2. \A w \in Workers : at[w] \in LoopPoints => MyTask(w) \in Tasks
    BY <1>11 DEF LoopPoints
  <2> QED BY <1>2, <1>12, <1>13, <2>1, <2>2 DEF LoopInv, pool
<1>16. LockInv'
  BY <1>2, <1>12, <1>13 DEF LockInv
<1>17. ReleasedInv'
  BY <1>2, <1>4, <1>5, <1>11, <1>12, <1>13 DEF ReleasedInv, pool
<1>18. ToldInv'
  <2>1. \A r \in told : r.id + 1 \in Plays \ {p + 1}
    BY <1>0, <1>1, ToldPlays DEF OwnInv, IdInv, Calling
  <2>2. submitted' - size' >= submitted - size /\ submitted' - size' \in Nat
    BY <1>0, <1>2, Counts DEF pool
  <2> QED BY <1>2, <1>5, <2>1, <2>2, ToldSame DEF pool, Unreported
<1> QED BY <1>10, <1>14, <1>15, <1>16, <1>17, <1>18 DEF KeepInv

\* The pool takes the task over from the client ...
LEMMA AcceptSInv ==
    ASSUME SInv, NEW c \in Clients, PlaySubmit(c), submitted' # submitted
    PROVE  OwnInv' /\ KeepInv'
<1> DEFINE s == TaskOf(client[c].id)
           n == submitted + 1
           p == client[c].id + 1
<1> USE PlayerAssumption
<1>0. TInv /\ TypeOK /\ OwnInv /\ ClientInv /\ Pool!TypeOK /\ P!IInv /\ MaxPlays \in Nat
  BY DEF SInv, TInv, TypeOK
<1>1. /\ client[c].at = "submit" /\ client' = [client EXCEPT ![c].at = "idle"]
      /\ Pool!Accept(s)
      /\ playOf' = [playOf EXCEPT ![n] = p]
      /\ UNCHANGED <<id, task, element, lock, at, result, running, told>>
  BY DEF PlaySubmit, Pool!Refuse, Pool!vars, local
<1>2. s \in Tasks
  BY <1>0, TaskOfType DEF TypeOK, ClientType
<1>3. P!Accept(s)
  BY <1>1 DEF Pool!Accept, P!Accept, Pool!IsFull, P!IsFull, Pool!Available, P!Available,
              Pool!Mask, P!Mask, Pool!NewContainer, P!NewContainer, Pool!Signal, P!Signal
<1>4. size = 0 /\ size' = 1 /\ to_put = to_take
  <2>1. P!IsFull <=> size = 1
    BY <1>0, P!FullMeansOne, PoolConstants DEF P!IInv
  <2> QED BY <1>0, <1>3, <2>1 DEF P!Accept, P!IInv, P!CursorInv
<1>5. /\ UNCHANGED <<to_take, arg, took>>
      /\ submitted' = n /\ n \in Plays /\ submitted \in Nat
      /\ slots' = [slots EXCEPT ![P!Mask(to_put)] =
                    [job |-> [task |-> s, sub |-> n], state |-> "IDLE"]]
  BY <1>0, <1>3 DEF P!Accept, P!NewContainer, Pool!TypeOK, Plays
<1>6. slots'[P!Mask(to_take)].job.task = s
  <2>1. P!Mask(to_take) \in P!Indices
    BY <1>0, P!MaskOfCursor, PoolConstants DEF P!IInv, P!TypeOK
  <2> QED BY <1>0, <1>4, <1>5, <2>1 DEF P!IInv, P!TypeOK
<1>7. \A w \in Workers : pc'[w] = pc[w] \/ (pc[w] = "blocked" /\ pc'[w] = "loop")
  BY <1>0, <1>3 DEF P!Accept, P!Signal, Pool!TypeOK
<1>8. /\ client'[c].at = "idle"
      /\ \A d \in Clients \ {c} : client'[d] = client[d]
  BY <1>0, <1>1 DEF TypeOK, ClientType
<1>9. playOf'[n] = p /\ \A m \in 1 .. submitted : playOf'[m] = playOf[m]
  BY <1>0, <1>1, <1>5 DEF TypeOK, Plays
<1> HIDE DEF s, n, p
<1>10. /\ \A w \in Workers, r \in Tasks : Has(w, r)' <=> Has(w, r)
       /\ \A r \in Tasks : ~Waits(r) /\ (Waits(r)' <=> r = s)
       /\ \A d \in Clients, r \in Tasks : Offers(d, r)' <=> d # c /\ Offers(d, r)
       /\ Offers(c, s)
  <2>1. \A w \in Workers, r \in Tasks : Has(w, r)' <=> Has(w, r)
    BY <1>5, <1>7 DEF Has, Busy
  <2>2. \A r \in Tasks : ~Waits(r) /\ (Waits(r)' <=> r = s)
    BY <1>4, <1>5, <1>6 DEF Waits, P!Mask
  <2>3. \A d \in Clients, r \in Tasks : Offers(d, r)' <=> d # c /\ Offers(d, r)
    BY <1>8 DEF Offers, TaskOf
  <2>4. Offers(c, s)
    BY <1>1 DEF Offers, s
  <2> QED BY <2>1, <2>2, <2>3, <2>4
<1>11. OwnerInv'
  BY <1>0, <1>2, <1>10 DEF OwnInv, OwnerInv
<1>12. IdleInv'
  <2>1. \A w \in Workers : pc[w] = "callback" => pc'[w] = "callback"
    BY <1>7
  <2> QED BY <1>0, <1>1, <1>2, <1>10, <2>1 DEF OwnInv, IdleInv
<1>13. ArgInv'
  BY <1>0, <1>5, <1>7 DEF OwnInv, ArgInv, P!InHandler
<1>14. IdInv'
  <2>1. p \in 1 .. id
    BY <1>0, <1>1 DEF ClientInv, TypeOK, ClientType, p
  <2>2. \A m \in 1 .. n : m = n \/ m \in 1 .. submitted
    BY <1>5 DEF n
  <2>3. \A m \in 1 .. submitted : playOf[m] # p /\ playOf[m] \in 1 .. id
    BY <1>0, <1>1 DEF OwnInv, IdInv, Calling, p
  <2>4. \A d \in Clients : Calling(d)' => d # c /\ Calling(d) /\ client'[d] = client[d]
    BY <1>8 DEF Calling
  <2>5. \A d \in Clients : Calling(d) /\ d # c => client[d].id + 1 # p
    <3>1. \A d \in Clients : Calling(d) /\ d # c => client[d].id # client[c].id
      BY <1>0, <1>1 DEF OwnInv, IdInv, Calling
    <3>2. \A d \in Clients : client[d].id \in Int
      BY <1>0 DEF TypeOK, ClientType
    <3> QED BY <3>1, <3>2 DEF p
  <2>6. \A m \in 1 .. n : playOf'[m] \in 1 .. id
    BY <1>9, <2>1, <2>2, <2>3
  <2>7. \A l, m \in 1 .. n : playOf'[l] = playOf'[m] => l = m
    BY <1>0, <1>9, <2>2, <2>3 DEF OwnInv, IdInv
  <2>8. \A d \in Clients : Calling(d)' => \A m \in 1 .. n : playOf'[m] # client'[d].id + 1
    BY <1>0, <1>9, <2>2, <2>4, <2>5 DEF OwnInv, IdInv
  <2>9. \A d, e \in Clients : Calling(d)' /\ Calling(e)' /\ client'[d].id = client'[e].id => d = e
    BY <1>0, <2>4 DEF OwnInv, IdInv
  <2> QED BY <1>1, <1>5, <2>6, <2>7, <2>8, <2>9 DEF IdInv
<1>15. TaskIdInv'
  <2>1. \A w \in Workers, r \in Tasks : Has(w, r) => took[w].sub \in 1 .. submitted
    BY Counts DEF SInv, Has
  <2>2. task[s].id = client[c].id /\ TaskOf(task[s].id) = s
    BY <1>0, <1>2, <1>10 DEF OwnInv, TaskIdInv, s
  <2>3. \A r \in Tasks : Waits(r)' =>
            task'[r].id + 1 = playOf'[submitted'] /\ TaskOf(task'[r].id) = r
    BY <1>1, <1>5, <1>9, <1>10, <2>2 DEF p
  <2>4. \A r \in Tasks, w \in Workers : Has(w, r)' =>
            task'[r].id + 1 = playOf'[took'[w].sub] /\ TaskOf(task'[r].id) = r
    BY <1>0, <1>1, <1>5, <1>9, <1>10, <2>1 DEF OwnInv, TaskIdInv
  <2>5. \A r \in Tasks, d \in Clients : Offers(d, r)' => task'[r].id = client'[d].id
    BY <1>0, <1>1, <1>8, <1>10 DEF OwnInv, TaskIdInv
  <2> QED BY <2>3, <2>4, <2>5 DEF TaskIdInv, TaskOf
<1>16. KeepInv'
  <2>1. submitted' - size' = submitted - size
    BY <1>0, <1>4, <1>5 DEF n
  <2>2. \A w \in Workers : Unreported(w)' => Unreported(w)
    BY <1>1, <1>7 DEF Unreported
  <2> QED BY <1>1, <1>5, <1>9, <2>1, <2>2, KeepSame
<1> QED BY <1>11, <1>12, <1>13, <1>14, <1>15, <1>16 DEF OwnInv

\* ... or refuses it, and the client gives it up and frees its pipeline,
\* which is no other task's.
LEMMA RefuseSInv ==
    ASSUME SInv, NEW c \in Clients, PlaySubmit(c), submitted' = submitted
    PROVE  OwnInv' /\ KeepInv'
<1> DEFINE s == TaskOf(client[c].id)
           p == task[s].pipeline
<1> USE PlayerAssumption
<1>0. TInv /\ TypeOK /\ OwnInv /\ submitted \in Nat /\ MaxPlays \in Nat
  BY DEF SInv, TInv, TypeOK, Pool!TypeOK
<1>1. /\ client[c].at = "submit" /\ client' = [client EXCEPT ![c].at = "idle"]
      /\ Pool!Refuse
      /\ task' = [task EXCEPT ![s].state = "IDLE"]
      /\ element' = Set(p, "freed")
      /\ UNCHANGED <<id, lock, at, result, running, told, playOf>>
  BY <1>0 DEF PlaySubmit, Pool!Accept, local, Withdrawn, Released
<1>2. UNCHANGED pool
  BY <1>1 DEF Pool!Refuse, Pool!vars, pool
<1>3. s \in Tasks
  BY <1>0, TaskOfType DEF TypeOK, ClientType
<1>4. /\ client'[c].at = "idle"
      /\ \A d \in Clients \ {c} : client'[d] = client[d]
  BY <1>0, <1>1 DEF TypeOK, ClientType
<1>5. /\ task'[s].state = "IDLE"
      /\ \A r \in Tasks \ {s} : task'[r] = task[r]
      /\ \A r \in Tasks : /\ task'[r].id = task[r].id
                          /\ task'[r].pipeline = task[r].pipeline
                          /\ task'[r].loop = task[r].loop
  BY <1>0, <1>1, <1>3 DEF TypeOK, TaskType
<1>6. \A q \in Plays : element'[q] = "freed" <=> element[q] = "freed" \/ q = p
  <2>1. p \in 0 .. MaxPlays /\ "freed" \in ElementState
    BY <1>0, <1>3 DEF TypeOK, TaskType, ElementState
  <2> HIDE DEF p
  <2> QED BY <1>0, <1>1, <2>1, SetFrees
<1>7. /\ \A w \in Workers, r \in Tasks : Has(w, r)' <=> Has(w, r)
      /\ \A r \in Tasks : Waits(r)' <=> Waits(r)
      /\ \A d \in Clients, r \in Tasks : Offers(d, r)' <=> d # c /\ Offers(d, r)
      /\ Offers(c, s)
  BY <1>1, <1>2, <1>4 DEF Has, Waits, Offers, Busy, pool, P!Mask, TaskOf
<1> HIDE DEF s
<1>8. OwnInv'
  <2>1. OwnerInv'
    BY <1>0, <1>7 DEF OwnInv, OwnerInv
  <2>2. IdleInv'
    BY <1>0, <1>1, <1>2, <1>3, <1>5, <1>7 DEF OwnInv, OwnerInv, IdleInv, pool
  <2>3. ArgInv'
    BY <1>0, <1>2 DEF OwnInv, ArgInv, pool, P!InHandler
  <2>4. IdInv'
    <3>1. \A d \in Clients : Calling(d)' => Calling(d) /\ client'[d] = client[d]
      BY <1>4 DEF Calling
    <3> QED BY <1>0, <1>1, <1>2, <3>1 DEF OwnInv, IdInv, pool
  <2>5. TaskIdInv'
    BY <1>0, <1>1, <1>2, <1>4, <1>5, <1>7 DEF OwnInv, TaskIdInv, pool, TaskOf
  <2> QED BY <2>1, <2>2, <2>3, <2>4, <2>5 DEF OwnInv
<1>9. PipelineInv /\ LoopInv /\ LockInv /\ ReleasedInv /\ ToldInv
  BY DEF SInv, KeepInv
<1>10. \A v \in Workers : /\ MyTask(v)' = MyTask(v)
                          /\ at[v] # "pool" => /\ MyTask(v) \in Tasks
                                               /\ task[MyTask(v)].id + 1 \in Plays
                                               /\ arg[v].sub \in Plays
  BY <1>2, HandlerHas, HandlersPlay DEF MyTask, pool
<1>11. PipelineInv'
  <2>1. \A r \in Tasks \ {s} : task[r].pipeline # 0 => task[r].pipeline # p
    <3> SUFFICES ASSUME NEW r \in Tasks \ {s}, task[r].pipeline # 0, task[r].pipeline = p
                 PROVE  FALSE
      OBVIOUS
    <3>1. task[r].id + 1 = task[s].id + 1 /\ TaskOf(task[r].id) = r /\ TaskOf(task[s].id) = s
      BY <1>3, <1>9 DEF PipelineInv
    <3>2. task[r].id \in Int /\ task[s].id \in Int
      BY <1>0, <1>3 DEF TypeOK, TaskType
    <3> QED BY <3>1, <3>2
  <2>2. \A r \in Tasks : task[r].pipeline # 0 => task[r].pipeline \in Plays
    BY <1>0 DEF TypeOK, TaskType, Plays
  <2>3. \A r \in Tasks :
          /\ task'[r].pipeline # 0 => /\ task'[r].pipeline = task'[r].id + 1
                                      /\ TaskOf(task'[r].id) = r
          /\ task'[r].state # "IDLE" /\ lock[r] \notin Workers =>
                task'[r].pipeline = 0 \/ element'[task'[r].pipeline] # "freed"
    BY <1>5, <1>6, <1>9, <2>1, <2>2 DEF PipelineInv
  <2>4. \A w \in Workers :
          at[w] \in LoopPoints \cup {"check"} => task'[MyTask(w)].pipeline # 0
    BY <1>5, <1>9, <1>10 DEF PipelineInv, LoopPoints
  <2> QED BY <1>1, <1>10, <2>3, <2>4 DEF PipelineInv, TaskOf
<1>12. LoopInv'
  <2>1. \A w \in Workers : at[w] \in LoopPoints => MyTask(w) \in Tasks
    BY <1>10 DEF LoopPoints
  <2> QED BY <1>1, <1>2, <1>5, <1>9, <1>10, <2>1 DEF LoopInv, pool
<1>13. LockInv'
  BY <1>1, <1>9, <1>10 DEF LockInv
<1>14. ReleasedInv'
  BY <1>1, <1>2, <1>5, <1>6, <1>9, <1>10 DEF ReleasedInv, pool
<1>15. ToldInv'
  <2>1. submitted' - size' >= submitted - size /\ submitted' - size' \in Nat
    BY <1>0, <1>2, Counts DEF pool
  <2> QED BY <1>1, <1>2, <1>6, <2>1, ToldSame, ToldPlays DEF pool, Unreported
<1> QED BY <1>8, <1>11, <1>12, <1>13, <1>14, <1>15 DEF KeepInv

-----------------------------------------------------------------------------
(* The pool's steps around the handler *)

\* A worker blocks, wakes up, or gives back its container.
LEMMA IdleWorkerSInv ==
    ASSUME SInv, NEW w \in Workers,
           Pool!Block(w) \/ Pool!SpuriousWake(w) \/ Pool!Release(w),
           UNCHANGED <<player, local, extern, ghost>>
    PROVE  OwnInv' /\ KeepInv'
<1>0. TInv /\ OwnInv /\ Pool!TypeOK /\ PipelineInv /\ LoopInv /\ LockInv /\ ReleasedInv
  BY DEF SInv, TInv, TypeOK, KeepInv
<1>1. /\ UNCHANGED <<size, to_take, submitted, id, task, lock, client, at, result,
                     told, playOf, element, running>>
      /\ \A i \in P!Indices : slots'[i].job = slots[i].job
  <2>1. \A i \in P!Indices : slots[i] \in [job : Pool!Job, state : {"IDLE", "RUN"}]
    BY <1>0 DEF Pool!TypeOK, Pool!Indices, P!Indices
  <2>2. CASE slots' = slots
    BY <2>2 DEF Pool!Block, Pool!SpuriousWake, Pool!Release, player, local, extern, ghost
  <2>3. CASE Pool!Release(w)
    <3>1. slots' = [slots EXCEPT ![container[w]].state = "IDLE"]
      BY <2>3 DEF Pool!Release
    <3>2. \A i \in P!Indices : slots'[i].job = slots[i].job
      BY <1>0, <2>1, <3>1 DEF Pool!TypeOK, Pool!Indices, P!Indices
    <3> QED BY <2>3, <3>2 DEF Pool!Release, player, local, extern, ghost
  <2> QED BY <2>2, <2>3 DEF Pool!Block, Pool!SpuriousWake
<1>2. /\ pc[w] \in {"loop", "blocked", "cleanup"} /\ pc'[w] \in {"loop", "blocked"}
      /\ \A v \in Workers \ {w} : pc'[v] = pc[v] /\ took'[v] = took[v] /\ arg'[v] = arg[v]
  BY <1>0 DEF Pool!Block, Pool!SpuriousWake, Pool!Release, Pool!TypeOK
<1>3. at[w] = "pool"
  BY <1>0, <1>2 DEF TInv, PointInv
<1>4. /\ \A v \in Workers, s \in Tasks : Has(v, s)' <=> Has(v, s)
      /\ \A v \in Workers, s \in Tasks : Has(v, s) => v # w
      /\ \A s \in Tasks : Waits(s)' <=> Waits(s)
      /\ \A d \in Clients, s \in Tasks : Offers(d, s)' <=> Offers(d, s)
  <2>1. P!Mask(to_take) \in P!Indices
    BY <1>0, P!MaskOfCursor, PoolConstants DEF TInv, P!IInv, P!TypeOK
  <2>2. \A s \in Tasks : Waits(s)' <=> Waits(s)
    BY <1>1, <2>1 DEF Waits, P!Mask
  <2> QED BY <1>1, <1>2, <2>2 DEF Has, Offers, Busy, TaskOf
<1>5. OwnInv'
  <2>1. OwnerInv'
    BY <1>0, <1>4 DEF OwnInv, OwnerInv
  <2>2. IdleInv'
    BY <1>0, <1>1, <1>2, <1>4 DEF OwnInv, IdleInv
  <2>3. ArgInv'
    BY <1>0, <1>2 DEF OwnInv, ArgInv, P!InHandler
  <2>4. IdInv'
    BY <1>0, <1>1 DEF OwnInv, IdInv, Calling
  <2>5. TaskIdInv'
    BY <1>0, <1>1, <1>2, <1>4 DEF OwnInv, TaskIdInv, TaskOf
  <2> QED BY <2>1, <2>2, <2>3, <2>4, <2>5 DEF OwnInv
<1>6. \A v \in Workers : at[v] # "pool" => MyTask(v)' = MyTask(v) /\ arg'[v] = arg[v]
  BY <1>2, <1>3 DEF MyTask
<1>7. PipelineInv'
  BY <1>0, <1>1, <1>6 DEF PipelineInv, LoopPoints, TaskOf
<1>8. LoopInv'
  BY <1>0, <1>1, <1>6 DEF LoopInv, LoopPoints
<1>9. LockInv'
  BY <1>0, <1>1, <1>6 DEF LockInv
<1>10. ReleasedInv'
  BY <1>0, <1>1, <1>6 DEF ReleasedInv
<1>11. ToldInv'
  <2>1. submitted' - size' >= submitted - size /\ submitted' - size' \in Nat
    BY <1>0, <1>1, Counts
  <2>2. \A v \in Workers : Unreported(v)' => Unreported(v) /\ took'[v] = took[v]
    BY <1>1, <1>2 DEF Unreported
  <2> QED BY <1>1, <2>1, <2>2, ToldSame
<1> QED BY <1>5, <1>7, <1>8, <1>9, <1>10, <1>11 DEF KeepInv

\* A worker takes the task from the pool's queue.
LEMMA TakeSInv ==
    ASSUME SInv, NEW w \in Workers, Pool!Take(w), UNCHANGED <<player, local, extern, ghost>>
    PROVE  OwnInv' /\ KeepInv'
<1>0. TInv /\ OwnInv /\ Pool!TypeOK /\ P!IInv /\ PipelineInv /\ LoopInv /\ LockInv /\ ReleasedInv
  BY DEF SInv, TInv, TypeOK, KeepInv
<1> DEFINE job == slots[P!Mask(to_take)].job
<1>1. P!Take(w)
  BY DEF Pool!Take, P!Take, Pool!Mask, P!Mask
<1>2. /\ size = 1 /\ took' = [took EXCEPT ![w] = job] /\ job.sub = submitted
      /\ pc'[w] # "reject"
  BY <1>0, <1>1, P!TakeIInv, PoolConstants DEF P!IInv, P!HolderInv
<1>3. /\ UNCHANGED <<arg, submitted, id, task, lock, client, at, result, told, playOf,
                     element, running>>
      /\ size' = 0
  BY <1>1, <1>2 DEF P!Take, player, local, extern, ghost
<1>4. /\ pc[w] = "loop" /\ pc'[w] = "ready"
      /\ \A v \in Workers \ {w} : pc'[v] = pc[v] /\ took'[v] = took[v]
      /\ took'[w] = job
  BY <1>0, <1>1, <1>2 DEF P!Take, Pool!TypeOK
<1> HIDE DEF job
<1>5. at[w] = "pool"
  BY <1>0, <1>4 DEF TInv, PointInv
<1>6. /\ \A v \in Workers, s \in Tasks : Has(v, s)' <=> (v = w /\ Waits(s)) \/ Has(v, s)
      /\ \A s \in Tasks : ~Waits(s)'
      /\ \A s \in Tasks : ~Has(w, s)
      /\ \A d \in Clients, s \in Tasks : Offers(d, s)' <=> Offers(d, s)
  BY <1>2, <1>3, <1>4 DEF Has, Waits, Offers, Busy, TaskOf, job
<1>7. OwnInv'
  <2>1. OwnerInv'
    BY <1>0, <1>6, <1>2 DEF OwnInv, OwnerInv, Waits
  <2>2. IdleInv'
    BY <1>0, <1>3, <1>4, <1>6 DEF OwnInv, IdleInv
  <2>3. ArgInv'
    BY <1>0, <1>3, <1>4 DEF OwnInv, ArgInv, P!InHandler
  <2>4. IdInv'
    BY <1>0, <1>3 DEF OwnInv, IdInv, Calling
  <2>5. TaskIdInv'
    BY <1>0, <1>2, <1>3, <1>4, <1>6 DEF OwnInv, TaskIdInv, TaskOf
  <2> QED BY <2>1, <2>2, <2>3, <2>4, <2>5 DEF OwnInv
<1>8. PipelineInv'
  BY <1>0, <1>3 DEF PipelineInv, MyTask, TaskOf
<1>9. LoopInv'
  BY <1>0, <1>3 DEF LoopInv, MyTask
<1>10. LockInv'
  BY <1>0, <1>3 DEF LockInv, MyTask
<1>11. ReleasedInv'
  BY <1>0, <1>3 DEF ReleasedInv, MyTask
<1>12. ToldInv'
  <2>1. /\ submitted' - size' >= submitted - size /\ submitted' - size' \in Nat
        /\ took'[w].sub > submitted - size
    BY <1>0, <1>2, <1>3, <1>4, Counts
  <2>2. \A v \in Workers : Unreported(v)' => v = w \/ (Unreported(v) /\ took'[v] = took[v])
    BY <1>3, <1>4 DEF Unreported
  <2> QED BY <1>3, <2>1, <2>2, ToldSame
<1> QED BY <1>7, <1>8, <1>9, <1>10, <1>11, <1>12 DEF KeepInv

\* A busy worker that was not lapped has its job in its container.
LEMMA ContainerHasJob ==
    ASSUME TInv, NotLapped, NEW w \in Workers, pc[w] \in Busy
    PROVE  slots[container[w]].job = took[w]
<1>1. submitted < took[w].sub + QSize /\ pc[w] \in P!Holding
  BY DEF NotLapped, Busy, P!Holding
<1>2. took[w].sub \in Int /\ submitted \in Int /\ QSize \in Int
  BY PlayerAssumption DEF TInv, P!IInv, P!TypeOK, P!Job
<1> QED BY <1>1, <1>2, P!OtherJobIsLater, PoolConstants DEF TInv

\* A worker that is busy stays so and keeps its job.
LEMMA BusySame ==
    ASSUME SInv, NEW w \in Workers,
           UNCHANGED <<slots, to_take, size, submitted, took, id, task, lock, client, told,
                       playOf, element, running>>,
           \A v \in Workers \ {w} : /\ pc'[v] = pc[v] /\ at'[v] = at[v]
                                    /\ arg'[v] = arg[v] /\ result'[v] = result[v],
           at[w] \notin LoopPoints \cup {"check"},
           at'[w] \notin LoopPoints \cup {"check", "user"},
           pc[w] \in Busy, pc'[w] \in Busy \ {"ready"},
           Unreported(w)' => Unreported(w),
           pc'[w] \in P!InHandler => arg'[w] = took[w],
           pc'[w] = "handling" => pc[w] = "ready" /\ at[w] = "pool"
    PROVE  OwnInv' /\ KeepInv'
<1>0. TInv /\ OwnInv /\ PipelineInv /\ LoopInv /\ LockInv /\ ReleasedInv
  BY DEF SInv, KeepInv
<1>1. /\ \A v \in Workers, s \in Tasks : Has(v, s)' <=> Has(v, s)
      /\ \A s \in Tasks : Waits(s)' <=> Waits(s)
      /\ \A d \in Clients, s \in Tasks : Offers(d, s)' <=> Offers(d, s)
  BY DEF Has, Waits, Offers, TaskOf, P!Mask
<1>2. OwnInv'
  <2>1. OwnerInv'
    BY <1>0, <1>1 DEF OwnInv, OwnerInv
  <2>2. IdleInv'
    <3> SUFFICES ASSUME NEW s \in Tasks, task[s].state = "IDLE"
                 PROVE  \A v \in Workers : Has(v, s) =>
                           at'[v] \in {"user", "return"} \/ pc'[v] = "callback"
      BY <1>0, <1>1 DEF OwnInv, IdleInv
    <3>1. \A v \in Workers : Has(v, s) => at[v] \in {"user", "return"} \/ pc[v] = "callback"
      BY <1>0 DEF OwnInv, IdleInv
    <3>2. pc'[w] # "callback" => pc[w] # "callback" /\ at[w] \notin {"user", "return"}
      BY <1>0 DEF Busy, Unreported, TInv, PointInv
    <3> QED BY <3>1, <3>2
  <2>3. ArgInv'
    BY <1>0 DEF OwnInv, ArgInv, P!InHandler
  <2>4. IdInv'
    BY <1>0 DEF OwnInv, IdInv, Calling
  <2>5. TaskIdInv'
    BY <1>0, <1>1 DEF OwnInv, TaskIdInv, TaskOf
  <2> QED BY <2>1, <2>2, <2>3, <2>4, <2>5 DEF OwnInv
<1>3. \A v \in Workers \ {w} : MyTask(v)' = MyTask(v)
  BY DEF MyTask
<1>4. PipelineInv'
  BY <1>0, <1>3 DEF PipelineInv, TaskOf
<1>5. LoopInv'
  BY <1>0, <1>3 DEF LoopInv
<1>6. LockInv'
  BY <1>0, <1>3 DEF LockInv, LoopPoints
<1>7. ReleasedInv'
  BY <1>0, <1>3 DEF ReleasedInv, LoopPoints
<1>8. ToldInv'
  <2>1. submitted' - size' >= submitted - size /\ submitted' - size' \in Nat
    BY <1>0, Counts
  <2>2. \A v \in Workers : Unreported(v)' => Unreported(v) /\ took'[v] = took[v]
    BY DEF Unreported
  <2> QED BY <2>1, <2>2, ToldSame
<1> QED BY <1>2, <1>4, <1>5, <1>6, <1>7, <1>8 DEF KeepInv

\* It enters the handler with its own job, unless it was lapped, and returns.
LEMMA EnterReturnSInv ==
    ASSUME SInv, NotLapped, NEW w \in Workers, Enter(w) \/ Return(w)
    PROVE  OwnInv' /\ KeepInv'
<1>0. TInv /\ TypeOK /\ Pool!TypeOK /\ OwnInv
  BY DEF SInv, TInv, TypeOK
<1>1. /\ UNCHANGED <<slots, to_take, size, submitted, took, id, task, lock, client, told,
                     playOf, element, running>>
      /\ \A v \in Workers \ {w} : /\ pc'[v] = pc[v] /\ at'[v] = at[v]
                                  /\ arg'[v] = arg[v] /\ result'[v] = result[v]
  BY <1>0 DEF Enter, Return, Go, Pool!StartHandler, Pool!HandlerReturns, player, extern,
              ghost, TypeOK, Pool!TypeOK
<1>2. CASE Enter(w)
  <2>1. /\ at[w] = "pool" /\ at'[w] = "start" /\ pc[w] = "ready" /\ pc'[w] = "handling"
        /\ arg'[w] = slots[container[w]].job
    BY <1>0, <1>2 DEF Enter, Go, Pool!StartHandler, TypeOK, Pool!TypeOK
  <2>2. arg'[w] = took[w]
    BY <1>0, <2>1, ContainerHasJob DEF Busy
  <2> QED BY <1>1, <2>1, <2>2, BusySame DEF LoopPoints, Busy, Unreported
<1>3. CASE Return(w)
  <2>1. /\ at[w] = "return" /\ at'[w] = "pool" /\ pc[w] = "handling" /\ pc'[w] = "callback"
        /\ arg'[w] = arg[w]
    BY <1>0, <1>3 DEF Return, Go, Pool!HandlerReturns, TypeOK, Pool!TypeOK
  <2>2. arg'[w] = took[w]
    BY <1>0, <2>1 DEF OwnInv, ArgInv, P!InHandler
  <2> QED BY <1>1, <2>1, <2>2, BusySame DEF LoopPoints, Busy, Unreported
<1> QED BY <1>2, <1>3

\* The pool's callback makes the task idle, which was the worker's.
LEMMA TaskCallbackSInv ==
    ASSUME SInv, NotLapped, NEW w \in Workers, TaskCallback(w)
    PROVE  OwnInv' /\ KeepInv'
<1> DEFINE s == slots[container[w]].job.task
<1>0. TInv /\ TypeOK /\ Pool!TypeOK /\ OwnInv /\ PipelineInv /\ LoopInv /\ LockInv /\ ReleasedInv
  BY DEF SInv, TInv, TypeOK, KeepInv
<1>1. /\ UNCHANGED <<slots, to_take, size, submitted, arg, id, lock, client, at, result,
                     told, playOf, element, running>>
      /\ task' = [task EXCEPT ![s].state = "IDLE"]
  BY DEF TaskCallback, Pool!Callback, local, extern, ghost
<1>2. /\ pc[w] = "callback" /\ pc' = [pc EXCEPT ![w] = "cleanup"] /\ took' = took
  BY <1>0 DEF TaskCallback, Pool!Callback, TInv, P!IInv, P!HolderInv
<1>3. /\ pc'[w] = "cleanup"
      /\ \A v \in Workers \ {w} : pc'[v] = pc[v]
  BY <1>0, <1>2 DEF Pool!TypeOK
<1>4. s = took[w].task
  BY <1>0, <1>2, ContainerHasJob DEF Busy
<1>5. s \in Tasks
  BY <1>0, <1>2, <1>4 DEF TInv, P!TaskInv, P!Holding
<1> HIDE DEF s
<1>6. /\ \A r \in Tasks \ {s} : task'[r] = task[r]
      /\ \A r \in Tasks : /\ task'[r].id = task[r].id
                          /\ task'[r].pipeline = task[r].pipeline
                          /\ task'[r].loop = task[r].loop
                          /\ task'[r].state # "IDLE" => task[r].state # "IDLE"
  BY <1>0, <1>1, <1>5 DEF TypeOK, TaskType
<1>7. /\ \A v \in Workers, r \in Tasks : Has(v, r)' <=> v # w /\ Has(v, r)
      /\ \A r \in Tasks : Waits(r)' <=> Waits(r)
      /\ \A d \in Clients, r \in Tasks : Offers(d, r)' <=> Offers(d, r)
      /\ Has(w, s)
  BY <1>1, <1>2, <1>3, <1>4 DEF Has, Waits, Offers, Busy, TaskOf, P!Mask
<1>8. OwnInv'
  <2>1. OwnerInv'
    BY <1>0, <1>7 DEF OwnInv, OwnerInv
  <2>2. IdleInv'
    <3>1. ~Waits(s) /\ (\A c \in Clients : ~Offers(c, s)) /\ \A v \in Workers : Has(v, s) => v = w
      BY <1>0, <1>5, <1>7 DEF OwnInv, OwnerInv
    <3> QED BY <1>0, <1>1, <1>3, <1>6, <1>7, <3>1 DEF OwnInv, IdleInv
  <2>3. ArgInv'
    BY <1>0, <1>1, <1>2, <1>3 DEF OwnInv, ArgInv, P!InHandler
  <2>4. IdInv'
    BY <1>0, <1>1 DEF OwnInv, IdInv, Calling
  <2>5. TaskIdInv'
    BY <1>0, <1>1, <1>2, <1>6, <1>7 DEF OwnInv, TaskIdInv, TaskOf
  <2> QED BY <2>1, <2>2, <2>3, <2>4, <2>5 DEF OwnInv
<1>9. \A v \in Workers : /\ MyTask(v)' = MyTask(v)
                         /\ at[v] # "pool" => MyTask(v) \in Tasks
  BY <1>1, HandlerHas DEF MyTask
<1>10. PipelineInv'
  BY <1>0, <1>1, <1>6, <1>9 DEF PipelineInv, TaskOf, LoopPoints
<1>11. LoopInv'
  BY <1>0, <1>1, <1>6, <1>9 DEF LoopInv, LoopPoints
<1>12. LockInv'
  BY <1>0, <1>1, <1>9 DEF LockInv
<1>13. ReleasedInv'
  BY <1>0, <1>1, <1>6, <1>9 DEF ReleasedInv
<1>14. ToldInv'
  <2>1. submitted' - size' >= submitted - size /\ submitted' - size' \in Nat
    BY <1>0, <1>1, Counts
  <2>2. \A v \in Workers : Unreported(v)' => Unreported(v) /\ took'[v] = took[v]
    BY <1>1, <1>2, <1>3 DEF Unreported
  <2> QED BY <1>1, <2>1, <2>2, ToldSame
<1> QED BY <1>8, <1>10, <1>11, <1>12, <1>13, <1>14 DEF KeepInv

-----------------------------------------------------------------------------
(* The handler's steps that make and free what a playback needs *)

\* What such a step of worker w leaves alone, and where it leads.
LEMMA HandlerFrame ==
    ASSUME SInv, NEW w \in Workers,
           (CheckState(w) /\ at'[w] # "user") \/ CleanUp(w) \/ Reset(w) \/ UserCallback(w)
    PROVE  /\ UNCHANGED <<pool, id, client, playOf>>
           /\ \A v \in Workers \ {w} : at'[v] = at[v] /\ result'[v] = result[v]
           /\ at[w] # "pool"
           /\ \/ CheckState(w) /\ at[w] = "check" /\ at'[w] = "run"
              \/ CleanUp(w) /\ at[w] = "clean" /\ at'[w] = "reset"
              \/ Reset(w) /\ at[w] = "reset" /\ at'[w] = "user" /\ result'[w] = "SUCCESS"
              \/ UserCallback(w) /\ at[w] = "user" /\ at'[w] = "return"
           /\ \A v \in Workers : MyTask(v)' = MyTask(v) /\ arg'[v] = arg[v]
           /\ \A v \in Workers : at[v] # "pool" =>
                 /\ MyTask(v) \in Tasks /\ arg[v].sub \in Plays
                 /\ task[MyTask(v)].id + 1 \in Plays
                 /\ v # w => MyTask(v) # MyTask(w) /\ arg[v].sub # arg[w].sub
<1>0. TypeOK
  BY DEF SInv, TInv
<1>1. UNCHANGED <<pool, id, client, playOf>>
  BY DEF CheckState, CleanUp, Reset, UserCallback, player, ghost
<1>2. /\ \A v \in Workers \ {w} : at'[v] = at[v] /\ result'[v] = result[v]
      /\ \/ CheckState(w) /\ at[w] = "check" /\ at'[w] = "run"
         \/ CleanUp(w) /\ at[w] = "clean" /\ at'[w] = "reset"
         \/ Reset(w) /\ at[w] = "reset" /\ at'[w] = "user" /\ result'[w] = "SUCCESS"
         \/ UserCallback(w) /\ at[w] = "user" /\ at'[w] = "return"
  <2>1. \A from, to : Go(w, from, to) =>
           at[w] = from /\ at'[w] = to /\ \A v \in Workers \ {w} : at'[v] = at[v]
    BY <1>0 DEF Go, TypeOK
  <2> QED BY <1>0, <2>1 DEF CheckState, CleanUp, Reset, UserCallback, Outcome, TypeOK
<1>3. \A v \in Workers : MyTask(v)' = MyTask(v) /\ arg'[v] = arg[v]
  BY <1>1 DEF MyTask, pool
<1>4. at[w] # "pool"
  BY <1>2
<1>5. \A v \in Workers : at[v] # "pool" =>
         /\ MyTask(v) \in Tasks /\ arg[v].sub \in Plays
         /\ task[MyTask(v)].id + 1 \in Plays
         /\ v # w => MyTask(v) # MyTask(w) /\ arg[v].sub # arg[w].sub
  BY <1>4, HandlerHas, HandlersPlay
<1> QED BY <1>1, <1>2, <1>3, <1>4, <1>5

\* The counters of ToldSame, when the pool does not move.
LEMMA PoolSameCounts ==
    ASSUME SInv, UNCHANGED pool
    PROVE  submitted' - size' >= submitted - size /\ submitted' - size' \in Nat
BY Counts DEF SInv, pool

\* It makes the loop, which no other playback has.
LEMMA CheckStateSInv ==
    ASSUME SInv, NEW w \in Workers, CheckState(w), at'[w] # "user"
    PROVE  OwnInv' /\ KeepInv'
<1> DEFINE s == MyTask(w)
           n == arg[w].sub
<1>0. TInv /\ TypeOK /\ OwnInv /\ PipelineInv /\ LoopInv /\ LockInv /\ ReleasedInv
  BY DEF SInv, TInv, KeepInv
<1>1. /\ UNCHANGED <<pool, id, client, playOf>>
      /\ \A v \in Workers \ {w} : at'[v] = at[v] /\ result'[v] = result[v]
      /\ at[w] = "check" /\ at'[w] = "run"
      /\ \A v \in Workers : MyTask(v)' = MyTask(v) /\ arg'[v] = arg[v]
      /\ \A v \in Workers : at[v] # "pool" =>
            /\ MyTask(v) \in Tasks /\ arg[v].sub \in Plays
            /\ v # w => MyTask(v) # s /\ arg[v].sub # n
  BY HandlerFrame DEF CheckState, CleanUp, Reset, UserCallback, Go
<1>2. /\ task' = [task EXCEPT ![s].state = "PLAYING", ![s].loop = n]
      /\ running' = [running EXCEPT ![n] = "no"]
      /\ UNCHANGED <<lock, element, told>>
  BY <1>0, <1>1 DEF CheckState, Go, ghost, TypeOK
<1>3. s \in Tasks /\ n \in Plays
  BY <1>1
<1> HIDE DEF s, n
<1>4. /\ task'[s].state = "PLAYING" /\ task'[s].loop = n
      /\ task'[s].id = task[s].id /\ task'[s].pipeline = task[s].pipeline
      /\ \A r \in Tasks \ {s} : task'[r] = task[r]
  BY <1>0, <1>2, <1>3 DEF TypeOK, TaskType
<1>5. running'[n] = "no" /\ \A m \in Plays \ {n} : running'[m] = running[m]
  BY <1>0, <1>2, <1>3 DEF TypeOK
<1>6. task[s].state # "IDLE"
  BY <1>1, TaskInUse DEF s
<1>7. OwnInv'
  BY <1>0, <1>1, <1>4, <1>6, OwnSame DEF Calling
<1>8. PipelineInv'
  <2>1. \A r \in Tasks :
          /\ task'[r].pipeline # 0 => /\ task'[r].pipeline = task'[r].id + 1
                                      /\ TaskOf(task'[r].id) = r
          /\ task'[r].state # "IDLE" /\ lock[r] \notin Workers =>
                task'[r].pipeline = 0 \/ element[task'[r].pipeline] # "freed"
    BY <1>0, <1>3, <1>4, <1>6 DEF PipelineInv
  <2>2. \A v \in Workers : at'[v] \in LoopPoints \cup {"check"} =>
           MyTask(v) \in Tasks /\ at[v] \in LoopPoints \cup {"check"}
    BY <1>1 DEF LoopPoints
  <2>3. \A v \in Workers :
          at'[v] \in LoopPoints \cup {"check"} => task'[MyTask(v)].pipeline # 0
    BY <1>0, <1>4, <2>2 DEF PipelineInv
  <2>4. lock' = lock /\ element' = element
    BY <1>2
  <2> QED BY <1>1, <2>1, <2>3, <2>4 DEF PipelineInv, TaskOf
<1>9. LoopInv'
  <2>1. MyTask(w) = s /\ arg[w].sub = n
    BY DEF s, n
  <2>2. \A r \in Tasks : task'[r].loop # 0 =>
           \E v \in Workers : at'[v] \in LoopPoints /\ MyTask(v) = r
    <3>1. \A r \in Tasks \ {s} : task'[r].loop # 0 =>
             \E v \in Workers \ {w} : at[v] \in LoopPoints /\ MyTask(v) = r
      BY <1>0, <1>4, <2>1 DEF LoopInv
    <3> QED BY <1>1, <2>1, <3>1 DEF LoopPoints
  <2>3. ASSUME NEW v \in Workers, at'[v] \in LoopPoints
        PROVE  /\ task'[MyTask(v)].loop = arg[v].sub
               /\ at'[v] # "reset" => running'[arg[v].sub] # "freed"
    <3>1. CASE v = w
      BY <1>4, <1>5, <2>1, <3>1
    <3>2. CASE v # w
      <4>1. at[v] \in LoopPoints /\ MyTask(v) \in Tasks \ {s} /\ arg[v].sub \in Plays \ {n}
        BY <1>1, <2>3, <3>2 DEF LoopPoints
      <4> QED BY <1>0, <1>1, <1>4, <1>5, <3>2, <4>1 DEF LoopInv
    <3> QED BY <3>1, <3>2
  <2> QED BY <1>1, <2>2, <2>3 DEF LoopInv
<1>10. LockInv'
  BY <1>0, <1>1, <1>2 DEF LockInv
<1>11. ReleasedInv'
  <2> SUFFICES ASSUME NEW v \in Workers,
                      at'[v] = "reset" \/ (at'[v] = "user" /\ result'[v] = "SUCCESS")
               PROVE  element'[task'[MyTask(v)].id + 1] = "freed" /\ running'[arg[v].sub] = "freed"
    BY <1>1 DEF ReleasedInv
  <2>1. v # w /\ at[v] # "pool"
    BY <1>1
  <2>2. MyTask(v) \in Tasks \ {s} /\ arg[v].sub \in Plays \ {n}
    BY <1>1, <2>1
  <2> QED BY <1>0, <1>1, <1>2, <1>4, <1>5, <2>1, <2>2 DEF ReleasedInv
<1>12. ToldInv'
  <2>1. \A r \in told : r.sub # n /\ r.sub \in Plays
    <3>1. Unreported(w) /\ took[w].sub = n
      BY <1>1, HandlerHas DEF Unreported, n
    <3> QED BY <3>1, ToldPlays DEF SInv, KeepInv, ToldInv
  <2>2. \A v \in Workers : Unreported(v)' => Unreported(v) /\ took'[v] = took[v]
    BY <1>1, HandlerHas DEF Unreported, pool
  <2> QED BY <1>1, <1>2, <1>5, <2>1, <2>2, PoolSameCounts, ToldSame DEF pool
<1> QED BY <1>7, <1>8, <1>9, <1>10, <1>11, <1>12 DEF KeepInv

\* It frees its pipeline and its loop, under the task's mutex.
LEMMA CleanUpSInv ==
    ASSUME SInv, NEW w \in Workers, CleanUp(w)
    PROVE  OwnInv' /\ KeepInv'
<1> DEFINE s == MyTask(w)
           n == arg[w].sub
           p == task[s].id + 1
<1> USE PlayerAssumption
<1>0. TInv /\ TypeOK /\ OwnInv /\ PipelineInv /\ LoopInv /\ LockInv /\ ReleasedInv
  BY DEF SInv, TInv, KeepInv
<1>1. /\ UNCHANGED <<pool, id, client, playOf>>
      /\ \A v \in Workers \ {w} : at'[v] = at[v] /\ result'[v] = result[v]
      /\ at[w] = "clean" /\ at'[w] = "reset"
      /\ \A v \in Workers : MyTask(v)' = MyTask(v) /\ arg'[v] = arg[v]
      /\ \A v \in Workers : at[v] # "pool" =>
            /\ MyTask(v) \in Tasks /\ arg[v].sub \in Plays
            /\ task[MyTask(v)].id + 1 \in Plays
            /\ v # w => MyTask(v) # s /\ arg[v].sub # n
  BY HandlerFrame DEF CheckState, CleanUp, Reset, UserCallback, Go
<1>2. s \in Tasks /\ n \in Plays /\ p \in Plays
  BY <1>1
<1>3. /\ task[s].pipeline = p /\ task[s].loop = n
      /\ TaskOf(task[s].id) = s
  BY <1>0, <1>1, <1>2 DEF PipelineInv, LoopInv, LoopPoints
<1>4. /\ lock[s] = Free /\ lock' = [lock EXCEPT ![s] = w]
      /\ element' = Set(p, "freed")
      /\ running' = [running EXCEPT ![n] = "freed"]
      /\ UNCHANGED <<task, told, result>>
  BY <1>2, <1>3 DEF CleanUp, Released, Plays
<1> HIDE DEF s, n, p
<1>5. /\ \A q \in Plays : element'[q] = "freed" <=> element[q] = "freed" \/ q = p
      /\ \A m \in Plays : running'[m] = "freed" <=> running[m] = "freed" \/ m = n
  <2>1. p \in 0 .. MaxPlays /\ "freed" \in ElementState
    BY <1>2 DEF Plays, ElementState
  <2> QED BY <1>0, <1>2, <1>4, <2>1, SetFrees DEF TypeOK
<1>6. lock'[s] = w /\ \A r \in Tasks \ {s} : lock'[r] = lock[r]
  BY <1>0, <1>2, <1>4 DEF TypeOK
<1>7. OwnInv'
  BY <1>0, <1>1, <1>4, OwnSame DEF Calling
<1>8. PipelineInv'
  <2>1. \A r \in Tasks \ {s} : task[r].pipeline # 0 => task[r].pipeline \in Plays \ {p}
    <3> SUFFICES ASSUME NEW r \in Tasks \ {s}, task[r].pipeline # 0
                 PROVE  task[r].pipeline \in Plays \ {p}
      OBVIOUS
    <3>1. task[r].pipeline = task[r].id + 1 /\ TaskOf(task[r].id) = r
      BY <1>0 DEF PipelineInv
    <3>2. task[r].id \in Int /\ task[s].id \in Int /\ task[r].pipeline \in 0 .. MaxPlays
      BY <1>0, <1>2 DEF TypeOK, TaskType
    <3> QED BY <1>3, <3>1, <3>2 DEF p, Plays
  <2>2. \A r \in Tasks : task[r].state # "IDLE" /\ lock'[r] \notin Workers =>
           task[r].pipeline = 0 \/ element'[task[r].pipeline] # "freed"
    BY <1>0, <1>5, <1>6, <2>1 DEF PipelineInv
  <2> QED BY <1>0, <1>1, <1>4, <2>2 DEF PipelineInv, LoopPoints, TaskOf
<1>9. LoopInv'
  <2>1. \A v \in Workers : at'[v] \in LoopPoints => at[v] \in LoopPoints
    BY <1>1 DEF LoopPoints
  <2>2. \A v \in Workers : at[v] \in LoopPoints => at'[v] \in LoopPoints
    BY <1>1 DEF LoopPoints
  <2>3. \A v \in Workers : at[v] \in LoopPoints /\ v # w => arg[v].sub \in Plays \ {n}
    BY <1>1 DEF LoopPoints
  <2> QED BY <1>0, <1>1, <1>4, <1>5, <2>1, <2>2, <2>3 DEF LoopInv
<1>10. LockInv'
  <2>1. \A r \in Tasks : lock'[r] \in Workers => at'[lock'[r]] = "reset" /\ MyTask(lock'[r]) = r
    BY <1>0, <1>1, <1>6 DEF LockInv, s
  <2>2. \A v \in Workers : at'[v] = "reset" => lock'[MyTask(v)] = v
    BY <1>0, <1>1, <1>6 DEF LockInv, s
  <2> QED BY <1>1, <2>1, <2>2 DEF LockInv
<1>11. ReleasedInv'
  <2> SUFFICES ASSUME NEW v \in Workers,
                      at'[v] = "reset" \/ (at'[v] = "user" /\ result'[v] = "SUCCESS")
               PROVE  element'[task[MyTask(v)].id + 1] = "freed" /\ running'[arg[v].sub] = "freed"
    BY <1>1, <1>4 DEF ReleasedInv
  <2>1. at[v] # "pool" /\ arg[v].sub \in Plays /\ task[MyTask(v)].id + 1 \in Plays
    BY <1>1
  <2>2. CASE v = w
    BY <1>2, <1>5, <2>2 DEF s, n, p
  <2>3. CASE v # w
    BY <1>0, <1>1, <1>5, <2>1, <2>3 DEF ReleasedInv
  <2> QED BY <2>2, <2>3
<1>12. ToldInv'
  <2>1. \A v \in Workers : Unreported(v)' => Unreported(v) /\ took'[v] = took[v]
    BY <1>1 DEF Unreported, pool
  <2> QED BY <1>1, <1>4, <1>5, <2>1, PoolSameCounts, ToldPlays, ToldSame DEF pool
<1> QED BY <1>7, <1>8, <1>9, <1>10, <1>11, <1>12 DEF KeepInv

\* It clears the pointers and lets the task go.
LEMMA ResetSInv ==
    ASSUME SInv, NEW w \in Workers, Reset(w)
    PROVE  OwnInv' /\ KeepInv'
<1> DEFINE s == MyTask(w)
<1> USE PlayerAssumption
<1>0. TInv /\ TypeOK /\ OwnInv /\ PipelineInv /\ LoopInv /\ LockInv /\ ReleasedInv
  BY DEF SInv, TInv, KeepInv
<1>1. /\ UNCHANGED <<pool, id, client, playOf>>
      /\ \A v \in Workers \ {w} : at'[v] = at[v] /\ result'[v] = result[v]
      /\ at[w] = "reset" /\ at'[w] = "user" /\ result'[w] = "SUCCESS"
      /\ \A v \in Workers : MyTask(v)' = MyTask(v) /\ arg'[v] = arg[v]
      /\ \A v \in Workers : at[v] # "pool" =>
            /\ MyTask(v) \in Tasks /\ (v # w => MyTask(v) # s)
  BY HandlerFrame DEF CheckState, CleanUp, Reset, UserCallback, Go
<1>2. s \in Tasks /\ Has(w, s)
  BY <1>1, HandlerHas
<1>3. /\ task' = [task EXCEPT ![s].pipeline = 0, ![s].loop = 0, ![s].state = "IDLE"]
      /\ lock' = [lock EXCEPT ![s] = Free]
  BY DEF Reset, Unlocked
<1>3a. UNCHANGED <<element, running, told>>
  BY DEF Reset, extern, ghost
<1> HIDE DEF s
<1>4. /\ task'[s].pipeline = 0 /\ task'[s].loop = 0 /\ task'[s].state = "IDLE"
      /\ \A r \in Tasks : task'[r].id = task[r].id
      /\ \A r \in Tasks \ {s} : task'[r] = task[r]
  BY <1>0, <1>2, <1>3 DEF TypeOK, TaskType
<1>5. lock'[s] = Free /\ Free \notin Workers /\ \A r \in Tasks \ {s} : lock'[r] = lock[r]
  BY <1>0, <1>2, <1>3 DEF TypeOK
<1>6. OwnInv'
  <2>1. /\ \A v \in Workers, r \in Tasks : Has(v, r)' <=> Has(v, r)
        /\ \A r \in Tasks : Waits(r)' <=> Waits(r)
        /\ \A d \in Clients, r \in Tasks : Offers(d, r)' <=> Offers(d, r)
    BY <1>1 DEF Has, Waits, Offers, Busy, TaskOf, P!Mask, pool
  <2>2. OwnerInv'
    BY <1>0, <2>1 DEF OwnInv, OwnerInv
  <2>3. IdleInv'
    <3>1. ~Waits(s) /\ (\A c \in Clients : ~Offers(c, s)) /\ \A v \in Workers : Has(v, s) => v = w
      BY <1>0, <1>2 DEF OwnInv, OwnerInv
    <3>2. \A r \in Tasks \ {s} : task'[r].state = "IDLE" => \A v \in Workers : Has(v, r) =>
             at'[v] \in {"user", "return"} \/ pc[v] = "callback"
      BY <1>0, <1>1, <1>4 DEF OwnInv, IdleInv
    <3>3. \A r \in Tasks \ {s} : task'[r].state = "IDLE" =>
             ~Waits(r) /\ \A c \in Clients : ~Offers(c, r)
      BY <1>0, <1>4 DEF OwnInv, IdleInv
    <3> QED BY <1>1, <2>1, <3>1, <3>2, <3>3 DEF IdleInv, pool
  <2>4. ArgInv'
    BY <1>0, <1>1 DEF OwnInv, ArgInv, P!InHandler, pool
  <2>5. IdInv'
    BY <1>0, <1>1 DEF OwnInv, IdInv, Calling, pool
  <2>6. TaskIdInv'
    BY <1>0, <1>1, <1>4, <2>1 DEF OwnInv, TaskIdInv, TaskOf, pool
  <2> QED BY <2>2, <2>3, <2>4, <2>5, <2>6 DEF OwnInv
<1>7. PipelineInv'
  <2>1. \A r \in Tasks :
          /\ task'[r].pipeline # 0 => /\ task'[r].pipeline = task'[r].id + 1
                                      /\ TaskOf(task'[r].id) = r
          /\ task'[r].state # "IDLE" /\ lock'[r] \notin Workers =>
                task'[r].pipeline = 0 \/ element[task'[r].pipeline] # "freed"
    BY <1>0, <1>4, <1>5 DEF PipelineInv
  <2>2. \A v \in Workers :
          at'[v] \in LoopPoints \cup {"check"} => task'[MyTask(v)].pipeline # 0
    BY <1>0, <1>1, <1>4 DEF PipelineInv, LoopPoints
  <2> QED BY <1>1, <1>3a, <2>1, <2>2 DEF PipelineInv, TaskOf
<1>8. LoopInv'
  <2>1. \A r \in Tasks : task'[r].loop # 0 =>
           \E v \in Workers \ {w} : at[v] \in LoopPoints /\ MyTask(v) = r
    <3>1. \A r \in Tasks : task'[r].loop # 0 => r # s /\ task[r].loop # 0
      BY <1>4
    <3> QED BY <1>0, <3>1 DEF LoopInv, s
  <2>2. \A v \in Workers : at'[v] \in LoopPoints =>
           v # w /\ at[v] \in LoopPoints /\ MyTask(v) \in Tasks \ {s}
    BY <1>1 DEF LoopPoints
  <2> QED BY <1>0, <1>1, <1>4, <1>3a, <2>1, <2>2 DEF LoopInv
<1>9. LockInv'
  <2>1. \A r \in Tasks : lock'[r] \in Workers =>
           r # s /\ lock'[r] = lock[r] /\ lock[r] # w /\ at[lock[r]] = "reset" /\ MyTask(lock[r]) = r
    BY <1>0, <1>5 DEF LockInv, s
  <2>2. \A v \in Workers : at'[v] = "reset" => v # w /\ lock'[MyTask(v)] = v
    BY <1>0, <1>1, <1>5 DEF LockInv
  <2> QED BY <1>1, <2>1, <2>2 DEF LockInv
<1>10. ReleasedInv'
  <2>1. \A v \in Workers : at'[v] = "reset" \/ (at'[v] = "user" /\ result'[v] = "SUCCESS") =>
           /\ MyTask(v) \in Tasks
           /\ at[v] = "reset" \/ (at[v] = "user" /\ result[v] = "SUCCESS")
    BY <1>1
  <2> QED BY <1>0, <1>1, <1>4, <1>3a, <2>1 DEF ReleasedInv
<1>11. ToldInv'
  <2>1. \A v \in Workers : Unreported(v)' => Unreported(v) /\ took'[v] = took[v]
    BY <1>1 DEF Unreported, pool
  <2> QED BY <1>1, <1>3a, <2>1, PoolSameCounts, ToldSame DEF pool
<1> QED BY <1>6, <1>7, <1>8, <1>9, <1>10, <1>11 DEF KeepInv

\* It reports its play, for the first time.
LEMMA UserCallbackSInv ==
    ASSUME SInv, NEW w \in Workers, UserCallback(w)
    PROVE  OwnInv' /\ KeepInv'
<1> DEFINE s == MyTask(w)
           new == [sub |-> arg[w].sub, id |-> task[s].id, res |-> result[w]]
<1>0. TInv /\ TypeOK /\ OwnInv /\ PipelineInv /\ LoopInv /\ LockInv /\ ReleasedInv /\ ToldInv
  BY DEF SInv, TInv, KeepInv
<1>1. /\ UNCHANGED <<pool, id, client, playOf>>
      /\ \A v \in Workers \ {w} : at'[v] = at[v] /\ result'[v] = result[v]
      /\ at[w] = "user" /\ at'[w] = "return"
      /\ \A v \in Workers : MyTask(v)' = MyTask(v) /\ arg'[v] = arg[v]
      /\ \A v \in Workers : at[v] # "pool" /\ v # w => arg[v].sub # arg[w].sub
  BY HandlerFrame DEF CheckState, CleanUp, Reset, UserCallback, Go
<1>2. told' = told \cup {new} /\ UNCHANGED <<task, lock, result, element, running>>
  BY DEF UserCallback, player, extern
<1>3. OwnInv'
  BY <1>0, <1>1, <1>2, OwnSame DEF Calling
<1>4. PipelineInv'
  BY <1>0, <1>1, <1>2 DEF PipelineInv, LoopPoints, TaskOf
<1>5. LoopInv'
  BY <1>0, <1>1, <1>2 DEF LoopInv, LoopPoints
<1>6. LockInv'
  BY <1>0, <1>1, <1>2 DEF LockInv
<1>7. ReleasedInv'
  BY <1>0, <1>1, <1>2 DEF ReleasedInv
<1>8. ToldInv'
  <2>1. pc[w] = "handling" /\ arg[w] = took[w] /\ Unreported(w)
    BY <1>1, HandlerHas DEF Unreported
  <2>2. new.sub <= submitted - size /\ new.id + 1 = playOf[new.sub]
    BY <1>0, <1>1, <2>1, Counts, HandlersPlay DEF Busy
  <2>3. new.res = "SUCCESS" => element[new.id + 1] = "freed" /\ running[new.sub] = "freed"
    BY <1>0, <1>1 DEF ReleasedInv
  <2>4. \A v \in Workers : Unreported(v)' => Unreported(v) /\ took[v].sub # new.sub
    <3>1. \A v \in Workers : Unreported(v)' => v # w /\ Unreported(v)
      BY <1>1, <2>1 DEF Unreported, pool
    <3>2. P!UniqueInv
      BY <1>0 DEF TInv, P!IInv
    <3> QED BY <2>1, <3>1, <3>2 DEF P!UniqueInv, Unreported, P!Holding
  <2>5. \A r \in told : r.sub # new.sub
    BY <1>0, <2>1 DEF ToldInv
  <2> HIDE DEF new
  <2> QED BY <1>0, <1>1, <1>2, <2>2, <2>3, <2>4, <2>5 DEF ToldInv, pool
<1> QED BY <1>3, <1>4, <1>5, <1>6, <1>7, <1>8 DEF KeepInv

-----------------------------------------------------------------------------
(* The invariant *)

\* Nobody has a task before the first play.
LEMMA InitSInv == Init => SInv
<1> SUFFICES ASSUME Init PROVE SInv
  OBVIOUS
<1>1. /\ size = 0 /\ submitted = 0 /\ told = {}
      /\ \A w \in Workers : pc[w] = "loop" /\ at[w] = "pool"
      /\ \A c \in Clients : client[c].at = "idle"
      /\ \A s \in Tasks : /\ task[s].pipeline = 0 /\ task[s].loop = 0
                          /\ task[s].state = "IDLE" /\ lock[s] = Free
  BY DEF Init, Pool!Init
<1>2. OwnInv
  BY <1>1 DEF OwnInv, OwnerInv, IdleInv, ArgInv, IdInv, TaskIdInv, Has, Waits, Offers,
              Calling, Busy, P!InHandler
<1>3. KeepInv
  BY <1>1, PlayerAssumption DEF KeepInv, PipelineInv, LoopInv, LockInv, ReleasedInv, ToldInv,
                                LoopPoints
<1> QED BY <1>2, <1>3, InitTInv DEF SInv

\* The invariant is inductive where plays take turns and no worker is lapped.
LEMMA NextSInv == SInv /\ NotLapped /\ [Next]_vars /\ [TakesTurns]_vars => SInv'
<1> SUFFICES ASSUME SInv, NotLapped, [Next]_vars, [TakesTurns]_vars
             PROVE  OwnInv' /\ KeepInv'
  BY NextTInv DEF SInv
<1>1. CASE UNCHANGED vars
  <2>1. UNCHANGED <<pool, id, playOf, client, task, at, arg, took, lock, result, told, element,
                    running, submitted, size>>
    BY <1>1 DEF vars, pool
  <2>2. OwnInv'
    BY <2>1, OwnSame DEF SInv
  <2>3. KeepInv'
    BY <2>1, KeepSame DEF Unreported, pool
  <2> QED BY <2>2, <2>3
<1>2. ASSUME NEW c \in Clients, Client(c), TakesTurns PROVE OwnInv' /\ KeepInv'
  <2>1. CASE PlayPrepare(c)
    <3>1. CASE UNCHANGED <<task, element>>
      <4>1. client' = [client EXCEPT ![c].at = "idle"]
        <5>1. TypeOK /\ ClientInv
          BY DEF SInv, TInv
        <5>2. TaskOf(client[c].id) \in Tasks
          BY <5>1, TaskOfType DEF TypeOK, ClientType
        <5>3. task' = task
          BY <3>1
        <5>4. task[TaskOf(client[c].id)] \in TaskType
          BY <5>1, <5>2 DEF TypeOK
        <5>5. ASSUME NEW pipeline, NEW type,
                     task' = [task EXCEPT ![TaskOf(client[c].id)] =
                                [@ EXCEPT !.id = client[c].id, !.pipeline = pipeline,
                                          !.type = type, !.state = "START"]]
              PROVE  task[TaskOf(client[c].id)].state = "START"
          BY <5>1, <5>2, <5>3, <5>4, <5>5 DEF TypeOK, TaskType
        <5> QED BY <2>1, <5>5 DEF PlayPrepare
      <4> QED BY <2>1, <3>1, <4>1, ClientQuiet
    <3> QED BY <1>2, <2>1, <3>1, PlayPrepareSInv
  <2>2. CASE ~PlayPrepare(c)
    BY <1>2, <2>2, PlayIdSInv, AcceptSInv, RefuseSInv, ClientQuiet DEF Client
  <2> QED BY <2>1, <2>2
<1>3. ASSUME NEW w \in Workers, WorkerStep(w) PROVE OwnInv' /\ KeepInv'
  BY <1>3, IdleWorkerSInv, TakeSInv, EnterReturnSInv, TaskCallbackSInv, HandlerQuiet,
     CheckStateSInv, CleanUpSInv, ResetSInv, UserCallbackSInv DEF WorkerStep
<1>4. ASSUME NEW w \in Workers,
             \/ LeaveLoop(w) \/ SpuriousWake(w)
             \/ \E p \in Plays, kind \in Msgs : Dispatch(w, p, kind)
      PROVE  OwnInv' /\ KeepInv'
  BY <1>4, IdleWorkerSInv, HandlerQuiet DEF SpuriousWake
<1> QED BY <1>1, <1>2, <1>3, <1>4 DEF Next

\* Pointers to what is alive touch nothing freed.
LEMMA TouchesNothing ==
    ASSUME NEW who, NEW p, NEW l, Touch(who, p, l),
           p = 0 \/ element[p] # "freed", l = 0 \/ running[l] # "freed"
    PROVE  touched' = touched
BY DEF Touch

\* The handler, stop, pause, resume and a failed play use only what is alive.
LEMMA NextNoUse == SInv /\ NoUseAfterFree /\ [Next]_vars => NoUseAfterFree'
<1> SUFFICES ASSUME SInv, NoUseAfterFree, [Next]_vars PROVE NoUseAfterFree'
  OBVIOUS
<1> USE PlayerAssumption
<1>0. TInv /\ TypeOK /\ OwnInv /\ PipelineInv /\ LoopInv /\ LockInv
  BY DEF SInv, TInv, KeepInv
<1>1. \A s \in Tasks : task[s].state # "IDLE" /\ lock[s] = Free =>
         /\ task[s].pipeline = 0 \/ element[task[s].pipeline] # "freed"
         /\ task[s].loop = 0 \/ running[task[s].loop] # "freed"
  <2> SUFFICES ASSUME NEW s \in Tasks, task[s].state # "IDLE", lock[s] = Free
               PROVE  /\ task[s].pipeline = 0 \/ element[task[s].pipeline] # "freed"
                      /\ task[s].loop = 0 \/ running[task[s].loop] # "freed"
    OBVIOUS
  <2>1. Free \notin Workers
    OBVIOUS
  <2>2. task[s].loop # 0 => running[task[s].loop] # "freed"
    BY <1>0, <2>1 DEF LoopInv, LockInv
  <2> QED BY <1>0, <2>1, <2>2 DEF PipelineInv
<1>2. \/ touched' = touched
      \/ \E who \in {"seek", "message"} : touched' = touched \cup {who}
  <2>1. ASSUME NEW c \in Clients, Client(c)
        PROVE  touched' = touched \/ touched' = touched \cup {"seek"}
    <3>1. CASE PlayId(c) \/ PlayPrepare(c)
      BY <3>1 DEF PlayId, PlayPrepare, ghost
    <3>2. CASE PlaySubmit(c)
      <4> DEFINE s == TaskOf(client[c].id)
      <4>1. s \in Tasks /\ Offers(c, s) /\ lock[s] = Free
        BY <1>0, <3>2, TaskOfType DEF PlaySubmit, Offers, TypeOK, ClientType
      <4>2. task[s].state # "IDLE"
        BY <1>0, <4>1 DEF OwnInv, IdleInv
      <4>3. touched' = touched \/ Touch("play", task[s].pipeline, 0)
        BY <3>2 DEF PlaySubmit
      <4> QED BY <1>1, <4>1, <4>2, <4>3, TouchesNothing
    <3>3. ASSUME NEW s \in Tasks, StopTask(s) PROVE touched' = touched
      <4>1. CASE task[s].state = "IDLE"
        BY <3>3, <4>1 DEF StopTask
      <4>2. CASE task[s].state # "IDLE"
        <5>1. lock[s] = Free /\ Touch("stop", task[s].pipeline, task[s].loop)
          BY <3>3, <4>2 DEF StopTask
        <5> QED BY <1>1, <4>2, <5>1, TouchesNothing
      <4> QED BY <4>1, <4>2
    <3>4. CASE (\E s \in Tasks : Stop(c, s)) \/ StopAll(c) \/ StopAllNext(c)
      BY <3>3, <3>4 DEF Stop, StopAll, StopAllNext, Tasks, TASK_QSZ
    <3>5. ASSUME NEW s \in Tasks, Pause(c, s) \/ Resume(c, s) PROVE touched' = touched
      <4>1. CASE task[s].state = "IDLE"
        BY <3>5, <4>1 DEF Pause, Resume, PauseOrResume
      <4>2. CASE task[s].state # "IDLE"
        <5>1. lock[s] = Free /\ Touch("pause", task[s].pipeline, 0)
          BY <3>5, <4>2 DEF Pause, Resume, PauseOrResume
        <5> QED BY <1>1, <4>2, <5>1, TouchesNothing
      <4> QED BY <4>1, <4>2
    <3>6. ASSUME NEW s \in Tasks, Seek(c, s)
          PROVE  touched' = touched \/ touched' = touched \cup {"seek"}
      BY <3>6 DEF Seek, Touch
    <3> QED BY <2>1, <3>1, <3>2, <3>4, <3>5, <3>6 DEF Client
  <2>2. ASSUME NEW w \in Workers, WorkerStep(w)
        PROVE  touched' = touched \/ touched' = touched \cup {"message"}
    <3> DEFINE s == MyTask(w)
               p == task[s].pipeline
               l == task[s].loop
    <3>1. CASE GetBus(w) \/ SetPlaying(w)
      <4>1. at[w] \in {"start", "set_state"} /\ Touch("handler", p, 0)
        BY <3>1 DEF GetBus, SetPlaying, Go
      <4>2. p = 0 \/ element[p] # "freed"
        BY <4>1, TaskInUse
      <4> QED BY <4>1, <4>2, TouchesNothing
    <3>2. CASE RunLoop(w)
      <4>1. at[w] = "run" /\ Touch("handler", 0, l)
        BY <3>2 DEF RunLoop
      <4>2. l = 0 \/ running[l] # "freed"
        BY <1>0, <4>1 DEF LoopInv, LoopPoints
      <4> QED BY <4>1, <4>2, TouchesNothing
    <3>3. CASE CleanUp(w)
      <4>1. at[w] = "clean" /\ Touch("handler", p, l)
        BY <3>3 DEF CleanUp, Go
      <4>2. p = 0 \/ element[p] # "freed"
        BY <4>1, TaskInUse
      <4>3. l = 0 \/ running[l] # "freed"
        BY <1>0, <4>1 DEF LoopInv, LoopPoints
      <4> QED BY <4>1, <4>2, <4>3, TouchesNothing
    <3>4. CASE React(w) \/ QuitLoop(w)
      BY <3>4 DEF React, QuitLoop, Touch
    <3> QED BY <2>2, <3>1, <3>2, <3>3, <3>4
            DEF WorkerStep, Enter, CheckState, Acquire, Reset, UserCallback, Return,
                TaskCallback, ghost
  <2>3. ASSUME NEW w \in Workers,
               \/ LeaveLoop(w) \/ SpuriousWake(w)
               \/ \E p \in Plays, kind \in Msgs : Dispatch(w, p, kind)
        PROVE  touched' = touched
    BY <2>3 DEF LeaveLoop, SpuriousWake, Dispatch, ghost
  <2>4. CASE UNCHANGED vars
    BY <2>4 DEF vars
  <2> QED BY <2>1, <2>2, <2>3, <2>4 DEF Next
<1> QED BY <1>2 DEF NoUseAfterFree

-----------------------------------------------------------------------------
(* What it implies *)

\* No worker plays an idle task.
LEMMA SInvIdle == SInv => IdleMeansFinished
<1> SUFFICES ASSUME SInv, NEW s \in Tasks, task[s].state = "IDLE",
                    NEW w \in Workers, Playing(w), took[w].task = s
             PROVE  FALSE
  BY DEF IdleMeansFinished
<1>1. PointInv /\ IdleInv
  BY DEF SInv, TInv, OwnInv
<1>2. at[w] \in HandlerPoints => pc[w] = "handling"
  BY <1>1 DEF PointInv, HandlerPoints
<1>3. pc[w] \in {"ready", "handling"} /\ at[w] \notin {"user", "return"}
  BY <1>1, <1>2 DEF Playing, PointInv, HandlerPoints
<1>4. Has(w, s)
  BY <1>3 DEF Has, Busy
<1> QED BY <1>1, <1>3, <1>4 DEF IdleInv

\* A report has the id of its play, and no play has two.
LEMMA SInvReports == SInv => ReportsOwnId
<1> SUFFICES ASSUME SInv PROVE ReportsOwnId
  OBVIOUS
<1>1. \A r \in told : r.sub \in 1 .. submitted /\ r.id + 1 = playOf[r.sub]
  BY ToldPlays
<1>2. \A r1, r2 \in told : r1.id = r2.id => r1.sub = r2.sub
  BY <1>1 DEF SInv, OwnInv, IdInv
<1> QED BY <1>1, <1>2 DEF SInv, KeepInv, ToldInv, ReportsOwnId

-----------------------------------------------------------------------------
(* Theorems *)

\* The executions in which plays take turns and no worker is lapped.
TurnsSpec == Spec /\ [][TakesTurns]_vars /\ []NotLapped

\* In these, the player keeps its invariant.
THEOREM PlayerSafe == TurnsSpec => [](SInv /\ NoUseAfterFree)
<1>1. Init => SInv /\ NoUseAfterFree
  BY InitSInv DEF Init, NoUseAfterFree
<1>2. /\ SInv /\ NoUseAfterFree
      /\ NotLapped /\ [Next]_vars /\ [TakesTurns]_vars
      => (SInv /\ NoUseAfterFree)'
  BY NextSInv, NextNoUse
<1> QED BY <1>1, <1>2, PTL DEF TurnsSpec, Spec

\* A task that says IDLE is played by no worker, so a stop that answers "already
\* finished" (gst_aplay.c:177) is right.
THEOREM IdleIsFinished == TurnsSpec => []IdleMeansFinished
<1> QED BY PlayerSafe, SInvIdle, PTL

\* The user's callback gets the id of the play whose handler makes it, and no
\* play is reported twice.
THEOREM ReportsAreOwn == TurnsSpec => []ReportsOwnId
<1> QED BY PlayerSafe, SInvReports, PTL

\* A playback that ended with SUCCESS has given back its pipeline and loop.
THEOREM SuccessHasReleased == TurnsSpec => []SuccessReleases
<1>1. SInv => SuccessReleases
  BY DEF SInv, KeepInv, ToldInv, SuccessReleases
<1> QED BY <1>1, PlayerSafe, PTL

\* The worker, stop, pause, resume and a failed play use no freed pointer.
THEOREM FreedIsNotUsed == TurnsSpec => []NoUseAfterFree
<1> QED BY PlayerSafe, PTL

\* As many plays as there are tasks take turns by themselves, each having a
\* task of its own, and are too few to lap a worker.
LEMMA FewTakeTurns ==
    ASSUME MaxPlays <= TASK_QSZ, SInv, [Next]_vars
    PROVE  NotLapped /\ [TakesTurns]_vars
<1> USE PlayerAssumption
<1>0. TypeOK /\ OwnInv /\ ClientInv
  BY DEF SInv, TInv
<1>1. NotLapped
  <2>1. submitted \in Int /\ submitted <= 2 /\ QSize \in Int /\ QSize >= 2
    BY Counts DEF SInv, TASK_QSZ
  <2>2. \A w \in Workers : pc[w] \in Busy => took[w].sub \in Int /\ took[w].sub >= 1
    BY Counts DEF SInv
  <2> QED BY <2>1, <2>2 DEF NotLapped
<1>2. TakesTurns \/ UNCHANGED vars
  <2> SUFFICES ASSUME Next, NEW s \in Tasks, task[s].state = "IDLE", task'[s].state = "START",
                      NEW w \in Workers, Has(w, s)
               PROVE  FALSE
    BY DEF TakesTurns, Has
  <2>1. PICK c \in Clients : PlayPrepare(c) /\ TaskOf(client[c].id) = s
    <3>1. ASSUME NEW c \in Clients, Client(c) PROVE PlayPrepare(c) /\ TaskOf(client[c].id) = s
      <4>1. task' # task /\ task \in [Tasks -> TaskType]
        BY <1>0 DEF TypeOK
      <4>2. CASE PlayPrepare(c)
        <5>1. TaskOf(client[c].id) \in Tasks
          BY <1>0, TaskOfType DEF TypeOK, ClientType
        <5>2. TaskOf(client[c].id) # s => task'[s] = task[s]
          BY <4>1, <4>2, <5>1 DEF PlayPrepare
        <5> QED BY <4>2, <5>2
      <4>3. CASE PlaySubmit(c)
        <5>1. TaskOf(client[c].id) \in Tasks
          BY <1>0, TaskOfType DEF TypeOK, ClientType
        <5>2. task' = [task EXCEPT ![TaskOf(client[c].id)].state = "IDLE"]
          BY <4>1, <4>3 DEF PlaySubmit, Withdrawn
        <5> QED BY <4>1, <5>1, <5>2 DEF TaskType
      <4>4. ASSUME NEW r \in Tasks, StopTask(r) PROVE FALSE
        <5>1. task' = [task EXCEPT ![r].state = "CANCEL"]
          BY <4>1, <4>4 DEF StopTask
        <5> QED BY <4>1, <5>1 DEF TaskType
      <4>5. ~(StopAll(c) \/ StopAllNext(c) \/ \E r \in Tasks : Stop(c, r))
        BY <4>4 DEF StopAll, StopAllNext, Stop, Tasks, TASK_QSZ
      <4> QED BY <3>1, <4>1, <4>2, <4>3, <4>5
              DEF Client, PlayId, Seek, PauseOrResume, Pause, Resume, player
    <3>2. ASSUME NEW v \in Workers, WorkerStep(v) PROVE FALSE
      BY <1>0, <3>2 DEF WorkerStep, Enter, GetBus, SetPlaying, CheckState, RunLoop, Acquire,
                        CleanUp, Reset, UserCallback, Return, TaskCallback, React, QuitLoop,
                        player, TypeOK, TaskType
    <3>3. ASSUME NEW v \in Workers,
                 \/ LeaveLoop(v) \/ SpuriousWake(v)
                 \/ \E p \in Plays, kind \in Msgs : Dispatch(v, p, kind)
          PROVE  FALSE
      BY <3>3 DEF LeaveLoop, SpuriousWake, Dispatch, player
    <3> QED BY <3>1, <3>2, <3>3 DEF Next
  <2>2. Calling(c)
    BY <2>1 DEF PlayPrepare, Calling
  <2>3. client[c].id = s
    <3>1. client[c].id \in 0 .. 1
      <4>1. client[c].id < id
        BY <1>0, <2>2 DEF ClientInv, Calling
      <4>2. client[c].id \in 0 .. MaxPlays /\ id \in 0 .. MaxPlays /\ MaxPlays <= 2
        BY <1>0 DEF TypeOK, ClientType, TASK_QSZ
      <4> QED BY <4>1, <4>2
    <3> QED BY <2>1, <3>1 DEF TaskOf, TASK_QSZ
  <2>4. /\ task[s].id + 1 = playOf[took[w].sub] /\ TaskOf(task[s].id) = s
        /\ took[w].sub \in 1 .. submitted /\ submitted \in Nat
    BY <1>0, Counts DEF OwnInv, TaskIdInv, SInv, Has
  <2>5. task[s].id = s
    <3>1. playOf[took[w].sub] \in 1 .. id /\ id <= 2 /\ id \in Int /\ task[s].id \in Int
      BY <1>0, <2>4 DEF OwnInv, IdInv, TypeOK, TaskType, TASK_QSZ
    <3>2. task[s].id \in 0 .. 1
      BY <2>4, <3>1
    <3> QED BY <2>4, <3>2 DEF TaskOf, TASK_QSZ
  <2>6. playOf[took[w].sub] # client[c].id + 1
    BY <1>0, <2>2, <2>4 DEF OwnInv, IdInv
  <2> QED BY <2>3, <2>4, <2>5, <2>6
<1> QED BY <1>1, <1>2

\* With as many plays as there are tasks, which is what the runs allow, both
\* conditions hold by themselves: no task is played again, and the ring is
\* longer than the number of submissions.
THEOREM TwoPlaysTakeTurns ==
    ASSUME MaxPlays <= TASK_QSZ
    PROVE  Spec => TurnsSpec
<1>1. SInv /\ [Next]_vars => NotLapped /\ [TakesTurns]_vars
  BY FewTakeTurns
<1>2. SInv /\ [Next]_vars => SInv'
  BY <1>1, NextSInv
<1> QED BY <1>1, <1>2, InitSInv, PTL DEF TurnsSpec, Spec

\* So they are safe, whatever the clients, the workers and the messages.
THEOREM TwoPlaysAreSafe ==
    ASSUME MaxPlays <= TASK_QSZ
    PROVE  Spec => [](/\ IdleMeansFinished
                      /\ ReportsOwnId
                      /\ SuccessReleases
                      /\ NoUseAfterFree)
<1> QED BY TwoPlaysTakeTurns, IdleIsFinished, ReportsAreOwn, SuccessHasReleased,
           FreedIsNotUsed, PTL
=============================================================================
