----------------------------- MODULE ThreadPool -----------------------------
(***************************************************************************)
(* The worker pool of thread_pool.c: a ring of QSize task containers, one  *)
(* mutex, one condition variable, and threads that run handle_task.        *)
(*                                                                         *)
(* A critical section that neither blocks nor leaves the mutex locked is   *)
(* one action.  Everything a worker does with its container AFTER it has   *)
(* released the mutex (thread_pool.c:132-145) is a step of its own, since  *)
(* the container is shared memory that a later submit may overwrite.       *)
(* usleep(container->delay) is the time between Take and StartHandler.     *)
(***************************************************************************)
EXTENDS Integers

CONSTANTS Workers,      \* the threads created by thread_pool_new
          Tasks,        \* the task pointers callers submit
          NoTask,       \* the null task pointer of an unused container
          QSize,        \* TASK_QUEUE_SIZE; QUEUE_INDX_MSK is QSize - 1
          MaxSubmits    \* bound: how many submissions are accepted in all

ASSUME PoolAssumption == /\ QSize \in Nat \ {0, 1}
                         /\ MaxSubmits \in Nat
                         /\ NoTask \notin Tasks

VARIABLES slots,        \* pool->tasks: the ring of containers
          to_put,       \* pool->to_put
          to_take,      \* pool->to_take
          size,         \* pool->size
          pc,           \* where each worker is in handle_task
          container,    \* the worker's container pointer, as a ring index
          arg,          \* the job the worker called the handler with
          took,         \* ghost: the job in the container when it was taken
          submitted,    \* ghost: number of submissions accepted
          reported      \* ghost: serials whose callback has been called

ring    == <<slots, to_put, to_take, size>>
threads == <<pc, container, arg, took>>
vars    == <<slots, to_put, to_take, size, pc, container, arg, took,
             submitted, reported>>

Indices == 0 .. QSize - 1

(* A job is a task pointer with the serial number of its submission, a     *)
(* ghost that tells two submissions of one pointer apart.                  *)
Job   == [task : Tasks \cup {NoTask}, sub : 0 .. MaxSubmits]
NoJob == [task |-> NoTask, sub |-> 0]

\* The program points of handle_task.
Points == {"loop",      \* about to lock the mutex and test pool->size
           "blocked",   \* in pthread_cond_wait
           "reject",    \* took a container that was not idle
           "ready",     \* mutex released, container->handler not yet read
           "handling",  \* inside the handler
           "callback",  \* handler returned, container->callback not yet read
           "cleanup"}   \* callback returned, container->state not yet written

\* The points at which a worker still uses its container.
Holding == {"reject", "ready", "handling", "callback", "cleanup"}

Init == /\ slots = [i \in Indices |-> [job |-> NoJob, state |-> "IDLE"]]
        /\ to_put = 0
        /\ to_take = 0
        /\ size = 0
        /\ pc = [w \in Workers |-> "loop"]
        /\ container = [w \in Workers |-> 0]
        /\ arg = [w \in Workers |-> NoJob]
        /\ took = [w \in Workers |-> NoJob]
        /\ submitted = 0
        /\ reported = {}

\* Mutants of Mask: a mask one too small, and none at all.
MaskShort(x) == x % (QSize - 1)
MaskNone(x)  == x

\* x & QUEUE_INDX_MSK
Mask(x) == x % QSize

\* Mutant of Available: one container too many.
AvailableOneMore == LET gap == to_put - to_take
                    IN  IF gap <= 0 THEN gap + QSize ELSE gap

\* The code's count of free containers.
Available == LET gap == to_put - to_take
             IN  IF gap <= 0 THEN gap + QSize - 1 ELSE gap - 1

IsFull == ~(Available > 0)

\* Mutant of Signal: nobody is woken.
SignalNone == UNCHANGED pc

\* pthread_cond_signal: wakes one of the blocked threads, if there is one.
Signal == \/ /\ \A w \in Workers : pc[w] # "blocked"
             /\ UNCHANGED pc
          \/ \E w \in Workers : /\ pc[w] = "blocked"
                                /\ pc' = [pc EXCEPT ![w] = "loop"]

\* Mutant of NewContainer: the state of the last user is left in place.
StaleContainer(t) == [job   |-> [task |-> t, sub |-> submitted + 1],
                      state |-> slots[Mask(to_put)].state]

\* What a submission of t writes into its container.
NewContainer(t) == [job   |-> [task |-> t, sub |-> submitted + 1],
                    state |-> "IDLE"]

\* thread_pool_submit finds room.
Accept(t) ==
    /\ ~IsFull
    /\ submitted < MaxSubmits
    /\ LET id == Mask(to_put)
       IN  /\ to_put' = id + 1
           /\ slots' = [slots EXCEPT ![id] = NewContainer(t)]
    /\ size' = size + 1
    /\ submitted' = submitted + 1
    /\ Signal
    /\ UNCHANGED <<to_take, container, arg, took, reported>>

\* thread_pool_submit finds none and returns -1.
Refuse == IsFull /\ UNCHANGED vars

Submit(t) == Accept(t) \/ Refuse

\* A worker finds nothing to do and waits, which releases the mutex.
Block(w) == /\ pc[w] = "loop"
            /\ size = 0
            /\ pc' = [pc EXCEPT ![w] = "blocked"]
            /\ UNCHANGED <<slots, to_put, to_take, size, container, arg, took,
                           submitted, reported>>

\* POSIX lets pthread_cond_wait return without a signal.
SpuriousWake(w) == /\ pc[w] = "blocked"
                   /\ pc' = [pc EXCEPT ![w] = "loop"]
                   /\ UNCHANGED <<slots, to_put, to_take, size, container, arg,
                                  took, submitted, reported>>

\* A worker takes the oldest container and marks it running, or is about to
\* fail it when it is not idle; either way it releases the mutex.
Take(w) ==
    /\ pc[w] = "loop"
    /\ size # 0
    /\ LET i == Mask(to_take)
           idle == slots[i].state = "IDLE"
       IN  /\ to_take' = i + 1
           /\ container' = [container EXCEPT ![w] = i]
           /\ took' = [took EXCEPT ![w] = slots[i].job]
           /\ slots' = IF idle THEN [slots EXCEPT ![i].state = "RUN"] ELSE slots
           /\ pc' = [pc EXCEPT ![w] = IF idle THEN "ready" ELSE "reject"]
    /\ size' = size - 1
    /\ UNCHANGED <<to_put, arg, submitted, reported>>

\* container->handler(container->task): the task is read here, unlocked.
StartHandler(w) ==
    /\ pc[w] = "ready"
    /\ arg' = [arg EXCEPT ![w] = slots[container[w]].job]
    /\ pc' = [pc EXCEPT ![w] = "handling"]
    /\ UNCHANGED <<slots, to_put, to_take, size, container, took, submitted,
                   reported>>

HandlerReturns(w) ==
    /\ pc[w] = "handling"
    /\ pc' = [pc EXCEPT ![w] = "callback"]
    /\ UNCHANGED <<slots, to_put, to_take, size, container, arg, took,
                   submitted, reported>>

\* Mutant of CalledWith: the callback is left out.
CalledWithNone(w) == {}

\* The job that container->callback(res, container->task) is about.
CalledWith(w) == {slots[container[w]].job.sub}

\* The callback: container->task is read AGAIN.  A
\* rejected container gets its callback too, and nothing more.
Callback(w) ==
    /\ pc[w] \in {"callback", "reject"}
    /\ reported' = reported \cup CalledWith(w)
    /\ pc' = [pc EXCEPT ![w] = IF @ = "callback" THEN "cleanup" ELSE "loop"]
    /\ took' = IF pc[w] = "callback" THEN took ELSE [took EXCEPT ![w] = NoJob]
    /\ UNCHANGED <<slots, to_put, to_take, size, container, arg, submitted>>

\* container->state = TASK_STATE_IDLE, without the mutex.
Release(w) ==
    /\ pc[w] = "cleanup"
    /\ slots' = [slots EXCEPT ![container[w]].state = "IDLE"]
    /\ pc' = [pc EXCEPT ![w] = "loop"]
    /\ arg' = [arg EXCEPT ![w] = NoJob]
    /\ took' = [took EXCEPT ![w] = NoJob]
    /\ UNCHANGED <<to_put, to_take, size, container, submitted, reported>>

\* What a worker thread does by itself: everything but return from the handler.
WorkerStep(w) ==
    Block(w) \/ Take(w) \/ StartHandler(w) \/ Callback(w) \/ Release(w)

Next == \/ \E t \in Tasks : Submit(t)
        \/ \E w \in Workers : \/ WorkerStep(w)
                              \/ SpuriousWake(w)
                              \/ HandlerReturns(w)

(* A worker thread that can run does run.  Nothing is assumed of callers,  *)
(* of spurious wakeups, or of handlers: a handler may never return.        *)
Fairness == \A w \in Workers : WF_vars(WorkerStep(w))

Spec     == Init /\ [][Next]_vars
FairSpec == Spec /\ Fairness

-----------------------------------------------------------------------------
(* Properties *)

TypeOK == /\ slots \in [Indices -> [job : Job, state : {"IDLE", "RUN"}]]
          /\ to_put \in 0 .. QSize
          /\ to_take \in 0 .. QSize
          /\ size \in Nat
          /\ pc \in [Workers -> Points]
          /\ container \in [Workers -> Indices]
          /\ arg \in [Workers -> Job]
          /\ took \in [Workers -> Job]
          /\ submitted \in 0 .. MaxSubmits
          /\ reported \subseteq 0 .. MaxSubmits

\* The branch of handle_task for a container that is not idle
\* (thread_pool.c:119-131), which would `continue` with the mutex locked if
\* the callback were null, is never reached: whatever a slow worker does to
\* its old container, the container at the head of the queue is idle.
NeverRejects == \A w \in Workers : pc[w] # "reject"

\* The job under a worker's feet: until it is done, a worker's container
\* still holds the job it took, unless at least QSize later submissions were
\* accepted meanwhile and the ring came round to it (thread_pool.c:79-87
\* never looks at the state of the container it overwrites).
HolderKeepsJob ==
    \A w \in Workers :
        /\ pc[w] \in Holding
        /\ slots[container[w]].job # took[w]
        => submitted >= took[w].sub + QSize

\* No accepted task is forgotten: it waits in the ring, or a worker holds it,
\* or its callback has been called, unless the ring came round.
NothingLost ==
    \A n \in 1 .. submitted :
        \/ n > submitted - size
        \/ \E w \in Workers : pc[w] \in Holding /\ took[w].sub = n
        \/ n \in reported
        \/ submitted >= n + QSize

\* Two workers use one container only if the ring came round.
NoSharedContainer ==
    \A v, w \in Workers :
        /\ v # w
        /\ pc[v] \in Holding
        /\ pc[w] \in Holding
        /\ container[v] = container[w]
        => submitted >= took[v].sub + QSize \/ submitted >= took[w].sub + QSize

(* The ring, seen through the serial numbers, is a first-in first-out      *)
(* hand-off queue that holds one job, not QSize of them.                   *)
Handoff == INSTANCE HandoffQueue WITH
              Capacity <- 1,
              offered  <- submitted,
              handed   <- submitted - size,
              held     <- [w \in Workers |-> took[w].sub]

\* thread_pool_submit and handle_task implement that queue: no job is taken
\* twice, skipped, or taken out of order, for any number of submissions.
HandoffSpec == Handoff!Spec

\* No wakeup is lost: if a task waits and some worker is not in a handler,
\* the task is eventually taken, even if every other handler runs forever.
WaitingTaskIsTaken ==
    (size > 0 /\ \E w \in Workers : pc[w] \in {"loop", "blocked"}) ~> (size = 0)
=============================================================================
