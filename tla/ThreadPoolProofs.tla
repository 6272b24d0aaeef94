-------------------------- MODULE ThreadPoolProofs --------------------------
(***************************************************************************)
(* Safety of the worker pool, for every set of workers, every ring size    *)
(* and every number of submissions.                                        *)
(***************************************************************************)
EXTENDS ThreadPool, TLAPS

-----------------------------------------------------------------------------
(* The inductive invariant *)

\* The serial of the last submission into container i: the most recent one
\* went into container to_put-1, the one before it one step back, and so on
\* round the ring.  (Written without a modulus, which the provers dislike.)
Age(i) == IF i < to_put THEN to_put - 1 - i ELSE to_put + QSize - 1 - i
LastInto(i) == IF submitted > Age(i) THEN submitted - Age(i) ELSE 0

\* The cursors meet when the queue is empty and are one apart when it holds
\* a task; it never holds two, since Available is then 0.
CursorInv == /\ \/ size = 0 /\ to_put = to_take
                \/ /\ size = 1
                   /\ \/ to_put = to_take + 1
                      \/ to_put = 1 /\ to_take = QSize
             /\ size <= submitted

SerialInv == \A i \in Indices : slots[i].job.sub = LastInto(i)

HeadInv == size = 1 => slots[Mask(to_take)].state = "IDLE"

\* What each worker holds: a job already handed out, its own, still in the
\* container or overwritten by one at least QSize later; and once it has made
\* the callback, that job is reported, unless the ring came round.
Overwritten(n) == submitted >= n + QSize

HolderInv ==
    \A w \in Workers :
        /\ pc[w] # "reject"
        /\ pc[w] \notin Holding => took[w] = NoJob
        /\ pc[w] \in Holding =>
              /\ took[w].sub \in 1 .. submitted - size
              /\ \/ slots[container[w]].job = took[w]
                 \/ slots[container[w]].job.sub >= took[w].sub + QSize
        /\ pc[w] = "cleanup" =>
              took[w].sub \in reported \/ Overwritten(took[w].sub)

UniqueInv ==
    \A v, w \in Workers :
        v # w /\ pc[v] \in Holding /\ pc[w] \in Holding
           => took[v].sub # took[w].sub

\* Every job handed out is still held, or reported, or overwritten.
HandedInv ==
    \A n \in 1 .. submitted - size :
        \/ \E w \in Workers : pc[w] \in Holding /\ took[w].sub = n
        \/ n \in reported
        \/ Overwritten(n)

IInv == /\ TypeOK
        /\ CursorInv
        /\ SerialInv
        /\ HeadInv
        /\ HolderInv
        /\ UniqueInv
        /\ HandedInv

-----------------------------------------------------------------------------
(* Lemmas on the arithmetic of the ring *)

\* Masking a cursor, which runs from 0 to QSize, wraps QSize to 0 and leaves
\* the rest alone (thread_pool.c:79 and :116).
LEMMA MaskOfCursor ==
    ASSUME NEW x \in 0 .. QSize
    PROVE  /\ Mask(x) = IF x = QSize THEN 0 ELSE x
           /\ Mask(x) \in Indices
<1>1. CASE x = QSize
  BY <1>1, PoolAssumption DEF Mask, Indices
<1>2. CASE x # QSize
  BY <1>2, PoolAssumption DEF Mask, Indices
<1> QED BY <1>1, <1>2

\* is_queue_full_unsafe answers "full" exactly when one task waits: the
\* queue of QSize containers has room for one.
LEMMA FullMeansOne ==
    ASSUME TypeOK, CursorInv
    PROVE  IsFull <=> size = 1
BY PoolAssumption DEF TypeOK, CursorInv, IsFull, Available


\* The container a submission overwrites is the one the submission QSize
\* before it went to; every other container keeps its last serial.
LEMMA AcceptAges ==
    ASSUME TypeOK,
           to_put' = Mask(to_put) + 1,
           submitted' = submitted + 1
    PROVE  \A i \in Indices :
             IF i = Mask(to_put)
             THEN /\ LastInto(i)' = submitted + 1
                  /\ LastInto(i) \in {0, submitted + 1 - QSize}
             ELSE LastInto(i)' = LastInto(i)
<1> SUFFICES ASSUME NEW i \in Indices
             PROVE  IF i = Mask(to_put)
                    THEN /\ LastInto(i)' = submitted + 1
                         /\ LastInto(i) \in {0, submitted + 1 - QSize}
                    ELSE LastInto(i)' = LastInto(i)
  OBVIOUS
<1>1. to_put \in 0 .. QSize /\ submitted \in Nat /\ i \in 0 .. QSize - 1
  BY PoolAssumption DEF TypeOK, Indices
<1>2. Mask(to_put) = IF to_put = QSize THEN 0 ELSE to_put
  BY <1>1, MaskOfCursor
<1> QED
  BY <1>1, <1>2, PoolAssumption DEF LastInto, Age

\* The waiting task, when there is one, is the last one submitted.
LEMMA HeadIsNewest ==
    ASSUME TypeOK, CursorInv, SerialInv, size = 1
    PROVE  slots[Mask(to_take)].job.sub = submitted
<1>1. /\ to_put \in 0 .. QSize /\ to_take \in 0 .. QSize /\ submitted \in Nat
      /\ submitted >= 1
  BY PoolAssumption DEF TypeOK, CursorInv
<1>2. /\ Mask(to_take) = IF to_take = QSize THEN 0 ELSE to_take
      /\ Mask(to_take) \in Indices
  BY <1>1, MaskOfCursor
<1>3. Age(Mask(to_take)) = 0
  BY <1>1, <1>2, PoolAssumption DEF CursorInv, Age
<1>4. LastInto(Mask(to_take)) = submitted
  BY <1>1, <1>3 DEF LastInto
<1> QED BY <1>2, <1>4 DEF SerialInv

-----------------------------------------------------------------------------
(* IInv is inductive: one lemma per action *)

\* The initial states satisfy the invariant.
LEMMA InitIInv == Init => IInv
<1> SUFFICES ASSUME Init PROVE IInv
  OBVIOUS
<1> USE PoolAssumption
<1>1. TypeOK
  BY DEF Init, TypeOK, Indices, Job, NoJob, Points
<1>2. CursorInv
  BY DEF Init, CursorInv
<1>3. SerialInv
  BY DEF Init, SerialInv, LastInto, Age, NoJob, Indices
<1>4. HeadInv
  BY DEF Init, HeadInv
<1>5. HolderInv /\ UniqueInv
  BY DEF Init, HolderInv, UniqueInv, Holding
<1>6. HandedInv
  BY DEF Init, HandedInv
<1> QED BY <1>1, <1>2, <1>3, <1>4, <1>5, <1>6 DEF IInv

\* thread_pool_submit preserves it.
LEMMA AcceptIInv ==
    ASSUME IInv, NEW t \in Tasks, Accept(t)
    PROVE  IInv'
<1> DEFINE id == Mask(to_put)
           new == [job |-> [task |-> t, sub |-> submitted + 1], state |-> "IDLE"]
<1>0. TypeOK /\ CursorInv /\ SerialInv /\ HeadInv /\ HolderInv /\ UniqueInv /\ HandedInv
  BY DEF IInv
<1>1. size = 0 /\ to_put = to_take
  BY <1>0, FullMeansOne DEF Accept, CursorInv
<1>2. /\ to_put \in 0 .. QSize
      /\ submitted \in Nat /\ submitted + 1 \in 0 .. MaxSubmits
      /\ id \in Indices
      /\ id = IF to_put = QSize THEN 0 ELSE to_put
  BY <1>0, MaskOfCursor, PoolAssumption DEF TypeOK, Accept
<1>3. /\ to_put' = id + 1 /\ size' = 1 /\ submitted' = submitted + 1
      /\ slots' = [slots EXCEPT ![id] = new]
      /\ UNCHANGED <<to_take, container, arg, took, reported>>
  BY <1>1 DEF Accept, NewContainer
\* A signal moves a worker between two points at which it holds nothing.
<1>4. /\ pc' \in [Workers -> Points]
      /\ \A w \in Workers : \/ pc'[w] = pc[w]
                            \/ pc[w] = "blocked" /\ pc'[w] = "loop"
  BY <1>0 DEF Accept, Signal, TypeOK, Points
<1>5. \A w \in Workers : /\ pc'[w] \in Holding <=> pc[w] \in Holding
                         /\ pc'[w] = "reject" <=> pc[w] = "reject"
                         /\ pc'[w] = "cleanup" <=> pc[w] = "cleanup"
  <2> SUFFICES ASSUME NEW w \in Workers
               PROVE  /\ pc'[w] \in Holding <=> pc[w] \in Holding
                      /\ pc'[w] = "reject" <=> pc[w] = "reject"
                      /\ pc'[w] = "cleanup" <=> pc[w] = "cleanup"
    OBVIOUS
  <2>1. CASE pc'[w] = pc[w]
    BY <2>1
  <2>2. CASE pc[w] = "blocked" /\ pc'[w] = "loop"
    BY <2>2 DEF Holding
  <2> QED BY <1>4, <2>1, <2>2
<1>6. TypeOK'
  <2>1. new \in [job : Job, state : {"IDLE", "RUN"}]
    BY <1>2 DEF Job
  <2>2. slots' \in [Indices -> [job : Job, state : {"IDLE", "RUN"}]]
    BY <1>0, <1>3, <2>1 DEF TypeOK
  <2>3. to_put' \in 0 .. QSize
    BY <1>2, <1>3, PoolAssumption
  <2> QED BY <1>0, <1>2, <1>3, <1>4, <2>2, <2>3 DEF TypeOK
<1>7. CursorInv'
  BY <1>1, <1>2, <1>3, PoolAssumption DEF CursorInv
<1>8. SerialInv'
  <2> SUFFICES ASSUME NEW i \in Indices
               PROVE  slots'[i].job.sub = LastInto(i)'
    BY DEF SerialInv
  <2>1. slots'[i] = IF i = id THEN new ELSE slots[i]
    BY <1>0, <1>3 DEF TypeOK
  <2>2. IF i = id THEN LastInto(i)' = submitted + 1
                  ELSE LastInto(i)' = LastInto(i)
    BY <1>0, <1>3, AcceptAges
  <2> QED BY <1>0, <2>1, <2>2 DEF SerialInv
<1>9. HeadInv'
  BY <1>0, <1>1, <1>2, <1>3 DEF HeadInv, TypeOK
<1>10. HolderInv'
  <2> SUFFICES ASSUME NEW w \in Workers
               PROVE  /\ pc'[w] # "reject"
                      /\ pc'[w] \notin Holding => took[w] = NoJob
                      /\ pc'[w] \in Holding =>
                            /\ took[w].sub \in 1 .. submitted' - size'
                            /\ \/ slots'[container[w]].job = took[w]
                               \/ slots'[container[w]].job.sub >= took[w].sub + QSize
                      /\ pc'[w] = "cleanup" =>
                            took[w].sub \in reported \/ submitted' >= took[w].sub + QSize
    BY <1>3 DEF HolderInv, Holding, NoJob, Overwritten
  <2>1. container[w] \in Indices
    BY <1>0 DEF TypeOK
  <2>2. ASSUME pc[w] \in Holding
        PROVE  took[w].sub \in 1 .. submitted
    BY <1>0, <1>1, <1>2, <2>2 DEF HolderInv
  <2>3. ASSUME pc[w] \in Holding, container[w] = id
        PROVE  slots'[container[w]].job.sub >= took[w].sub + QSize
    <3>1. slots'[id].job.sub = submitted + 1
      BY <1>0, <1>2, <1>3 DEF TypeOK
    <3>2. slots[id].job.sub = 0 \/ slots[id].job.sub = submitted + 1 - QSize
      BY <1>0, <1>2, <1>3, AcceptAges DEF SerialInv
    <3>3. \/ slots[id].job.sub = took[w].sub
          \/ slots[id].job.sub >= took[w].sub + QSize
      BY <1>0, <2>3 DEF HolderInv
    <3> QED BY <1>2, <2>2, <2>3, <3>1, <3>2, <3>3, PoolAssumption
  <2>4. ASSUME pc[w] \in Holding, container[w] # id
        PROVE  slots'[container[w]] = slots[container[w]]
    BY <1>0, <1>2, <1>3, <2>1, <2>4 DEF TypeOK
  <2>5. Overwritten(took[w].sub) => Overwritten(took[w].sub)'
    <3>1. took[w].sub \in Nat
      BY <1>0, PoolAssumption DEF TypeOK, Job
    <3> QED BY <3>1, <1>2, <1>3, PoolAssumption DEF Overwritten
  <2> QED BY <1>0, <1>2, <1>3, <1>5, <2>2, <2>3, <2>4, <2>5 DEF HolderInv, Overwritten
<1>11. UniqueInv'
  BY <1>0, <1>3, <1>5 DEF UniqueInv, Holding
<1>12. HandedInv'
  <2> SUFFICES ASSUME NEW n \in 1 .. submitted
               PROVE  \/ \E w \in Workers : pc'[w] \in Holding /\ took[w].sub = n
                      \/ n \in reported
                      \/ Overwritten(n)'
    BY <1>2, <1>3 DEF HandedInv, Holding
  <2>1. Overwritten(n) => Overwritten(n)'
    BY <1>2, <1>3, PoolAssumption DEF Overwritten
  <2> QED BY <1>0, <1>1, <1>2, <1>5, <2>1 DEF HandedInv
<1> QED BY <1>6, <1>7, <1>8, <1>9, <1>10, <1>11, <1>12 DEF IInv

\* A worker that takes the waiting task preserves it: the task is idle, and it
\* is the newest, so no other worker holds it.
LEMMA TakeIInv ==
    ASSUME IInv, NEW u \in Workers, Take(u)
    PROVE  /\ IInv'
           /\ size = 1
           /\ took' = [took EXCEPT ![u] = slots[Mask(to_take)].job]
           /\ slots[Mask(to_take)].job.sub = submitted
<1> DEFINE i == Mask(to_take)
<1>0. TypeOK /\ CursorInv /\ SerialInv /\ HeadInv /\ HolderInv /\ UniqueInv /\ HandedInv
  BY DEF IInv
<1>1. size = 1
  BY <1>0 DEF Take, CursorInv
<1>2. /\ to_take \in 0 .. QSize /\ to_put \in 0 .. QSize
      /\ submitted \in Nat /\ submitted >= 1
      /\ i \in Indices
      /\ i = IF to_take = QSize THEN 0 ELSE to_take
  BY <1>0, <1>1, MaskOfCursor, PoolAssumption DEF TypeOK, CursorInv
<1>3. /\ slots[i].state = "IDLE"
      /\ slots[i].job.sub = submitted
  BY <1>0, <1>1, HeadIsNewest DEF HeadInv
<1>4. /\ to_take' = i + 1 /\ size' = 0
      /\ container' = [container EXCEPT ![u] = i]
      /\ took' = [took EXCEPT ![u] = slots[i].job]
      /\ slots' = [slots EXCEPT ![i].state = "RUN"]
      /\ pc' = [pc EXCEPT ![u] = "ready"]
      /\ pc[u] = "loop"
      /\ UNCHANGED <<to_put, arg, submitted, reported>>
  BY <1>1, <1>3 DEF Take
\* Only the state of a container changes, so every container keeps its job.
<1>5. \A j \in Indices : slots'[j].job = slots[j].job
  BY <1>0, <1>2, <1>4 DEF TypeOK
<1>6. TypeOK'
  <2>1. slots' \in [Indices -> [job : Job, state : {"IDLE", "RUN"}]]
    BY <1>0, <1>2, <1>4 DEF TypeOK
  <2>2. slots[i].job \in Job
    BY <1>0, <1>2 DEF TypeOK
  <2>3. to_take' \in 0 .. QSize
    BY <1>2, <1>4, PoolAssumption
  <2> QED BY <1>0, <1>2, <1>4, <2>1, <2>2, <2>3 DEF TypeOK, Points
<1>7. CursorInv'
  BY <1>0, <1>1, <1>2, <1>4, PoolAssumption DEF CursorInv
<1>8. SerialInv'
  BY <1>0, <1>4, <1>5 DEF SerialInv, LastInto, Age, Indices
<1>9. HeadInv'
  BY <1>4 DEF HeadInv
<1>10. pc[u] \notin Holding
  BY <1>4 DEF Holding
<1>11. HolderInv'
  <2> SUFFICES ASSUME NEW w \in Workers
               PROVE  /\ pc'[w] # "reject"
                      /\ pc'[w] \notin Holding => took'[w] = NoJob
                      /\ pc'[w] \in Holding =>
                            /\ took'[w].sub \in 1 .. submitted
                            /\ \/ slots'[container'[w]].job = took'[w]
                               \/ slots'[container'[w]].job.sub >= took'[w].sub + QSize
                      /\ pc'[w] = "cleanup" =>
                            took'[w].sub \in reported \/ Overwritten(took'[w].sub)
    BY <1>2, <1>4 DEF HolderInv, Holding, NoJob, Overwritten
  <2>1. CASE w = u
    <3>1. pc'[w] = "ready" /\ took'[w] = slots[i].job /\ container'[w] = i
      BY <1>0, <1>4, <2>1 DEF TypeOK
    <3> QED BY <1>2, <1>3, <1>5, <3>1 DEF Holding
  <2>2. CASE w # u
    <3>1. pc'[w] = pc[w] /\ took'[w] = took[w] /\ container'[w] = container[w]
      BY <1>0, <1>4, <2>2 DEF TypeOK
    <3>2. container[w] \in Indices
      BY <1>0 DEF TypeOK
    <3>3. slots'[container[w]].job = slots[container[w]].job
      BY <1>5, <3>2
    <3>4. pc[w] \in Holding => took[w].sub \in 1 .. submitted
      BY <1>0, <1>1, <1>2 DEF HolderInv
    <3> QED BY <1>0, <3>1, <3>3, <3>4 DEF HolderInv
  <2> QED BY <2>1, <2>2
<1>12. \A w \in Workers : pc[w] \in Holding => took[w].sub \in 1 .. submitted - 1
  BY <1>0, <1>1 DEF HolderInv
<1>13. UniqueInv'
  <2> SUFFICES ASSUME NEW v \in Workers, NEW w \in Workers,
                      v # w, pc'[v] \in Holding, pc'[w] \in Holding
               PROVE  took'[v].sub # took'[w].sub
    BY DEF UniqueInv, Holding
  <2>1. /\ v = u => took'[v].sub = submitted
        /\ w = u => took'[w].sub = submitted
        /\ v # u => took'[v] = took[v] /\ pc'[v] = pc[v]
        /\ w # u => took'[w] = took[w] /\ pc'[w] = pc[w]
    BY <1>0, <1>3, <1>4 DEF TypeOK
  <2> QED BY <1>0, <1>2, <1>12, <2>1 DEF UniqueInv
<1>14. HandedInv'
  <2> SUFFICES ASSUME NEW n \in 1 .. submitted
               PROVE  \/ \E w \in Workers : pc'[w] \in Holding /\ took'[w].sub = n
                      \/ n \in reported
                      \/ Overwritten(n)
    BY <1>2, <1>4 DEF HandedInv, Holding, Overwritten
  <2>1. CASE n = submitted
    <3>1. pc'[u] = "ready" /\ took'[u].sub = n
      BY <1>0, <1>3, <1>4, <2>1 DEF TypeOK
    <3> QED BY <3>1 DEF Holding
  <2>2. CASE n # submitted
    <3>1. n \in 1 .. submitted - size
      BY <1>1, <1>2, <2>2
    <3>2. \A w \in Workers : pc[w] \in Holding =>
             pc'[w] \in Holding /\ took'[w] = took[w]
      BY <1>0, <1>4, <1>10 DEF TypeOK
    <3> QED BY <1>0, <3>1, <3>2 DEF HandedInv
  <2> QED BY <2>1, <2>2
<1> QED BY <1>1, <1>3, <1>4, <1>6, <1>7, <1>8, <1>9, <1>11, <1>13, <1>14 DEF IInv

\* So does a worker that waits, wakes, enters or leaves the handler: the ring
\* and what each worker holds stay as they are.
LEMMA MoveIInv ==
    ASSUME IInv, NEW u \in Workers,
           Block(u) \/ SpuriousWake(u) \/ StartHandler(u) \/ HandlerReturns(u)
    PROVE  IInv' /\ UNCHANGED <<submitted, size, took>>
<1>0. TypeOK /\ CursorInv /\ SerialInv /\ HeadInv /\ HolderInv /\ UniqueInv /\ HandedInv
  BY DEF IInv
<1>1. UNCHANGED <<slots, to_put, to_take, size, container, took, submitted, reported>>
  BY DEF Block, SpuriousWake, StartHandler, HandlerReturns
<1>2. /\ pc' \in [Workers -> Points]
      /\ arg' \in [Workers -> Job]
  <2>1. ASSUME StartHandler(u) PROVE slots[container[u]].job \in Job
    BY <1>0 DEF TypeOK
  <2> QED
    BY <1>0, <2>1 DEF TypeOK, Points, Block, SpuriousWake, StartHandler, HandlerReturns
<1>3. \A w \in Workers : /\ pc'[w] \in Holding <=> pc[w] \in Holding
                         /\ pc'[w] = "reject" <=> pc[w] = "reject"
                         /\ pc'[w] = "cleanup" <=> pc[w] = "cleanup"
  BY <1>0 DEF TypeOK, Holding, Block, SpuriousWake, StartHandler, HandlerReturns
<1>4. TypeOK'
  BY <1>0, <1>1, <1>2 DEF TypeOK
<1>5. CursorInv' /\ SerialInv' /\ HeadInv'
  BY <1>0, <1>1 DEF CursorInv, SerialInv, LastInto, Age, HeadInv, Mask, Indices
<1>6. HolderInv'
  BY <1>0, <1>1, <1>3 DEF HolderInv, Holding, NoJob, Overwritten
<1>7. UniqueInv'
  BY <1>0, <1>1, <1>3 DEF UniqueInv, Holding
<1>8. HandedInv'
  BY <1>0, <1>1, <1>3 DEF HandedInv, Holding, Overwritten
<1> QED BY <1>1, <1>4, <1>5, <1>6, <1>7, <1>8 DEF IInv

\* So does the callback, which reports the job now in the container: the one
\* the worker took, or a later one if that is already overwritten.
LEMMA CallbackIInv ==
    ASSUME IInv, NEW u \in Workers, Callback(u)
    PROVE  IInv' /\ UNCHANGED <<submitted, size, took>>
<1> DEFINE n == slots[container[u]].job.sub
<1>0. TypeOK /\ CursorInv /\ SerialInv /\ HeadInv /\ HolderInv /\ UniqueInv /\ HandedInv
  BY DEF IInv
<1>1. /\ pc[u] = "callback"
      /\ pc' = [pc EXCEPT ![u] = "cleanup"]
      /\ reported' = reported \cup {n}
      /\ UNCHANGED <<slots, to_put, to_take, size, container, arg, took, submitted>>
  BY <1>0 DEF Callback, CalledWith, HolderInv
<1>2. container[u] \in Indices /\ n \in 0 .. MaxSubmits
  BY <1>0 DEF TypeOK, Job
<1>3. TypeOK'
  BY <1>0, <1>1, <1>2 DEF TypeOK, Points
<1>4. CursorInv' /\ SerialInv' /\ HeadInv'
  BY <1>0, <1>1 DEF CursorInv, SerialInv, LastInto, Age, HeadInv, Mask, Indices
<1>5. \A w \in Workers : pc'[w] \in Holding <=> pc[w] \in Holding
  BY <1>0, <1>1 DEF TypeOK, Holding
<1>6. n = took[u].sub \/ Overwritten(took[u].sub)
  <2>1. /\ took[u].sub \in Nat /\ n \in Nat /\ submitted \in Nat
        /\ to_put \in Nat /\ container[u] \in 0 .. QSize - 1
    BY <1>0, <1>2, PoolAssumption DEF TypeOK, Job, Indices
  <2>2. n = LastInto(container[u])
    BY <1>0, <1>2 DEF SerialInv
  <2>3. n <= submitted
    BY <2>1, <2>2, PoolAssumption DEF LastInto, Age
  <2>4. n = took[u].sub \/ n >= took[u].sub + QSize
    BY <1>0, <1>1 DEF HolderInv, Holding
  <2> QED BY <2>1, <2>3, <2>4, PoolAssumption DEF Overwritten
<1>7. HolderInv'
  <2> SUFFICES ASSUME NEW w \in Workers
               PROVE  /\ pc'[w] # "reject"
                      /\ pc'[w] \notin Holding => took[w] = NoJob
                      /\ pc'[w] \in Holding =>
                            /\ took[w].sub \in 1 .. submitted - size
                            /\ \/ slots[container[w]].job = took[w]
                               \/ slots[container[w]].job.sub >= took[w].sub + QSize
                      /\ pc'[w] = "cleanup" =>
                            took[w].sub \in reported' \/ Overwritten(took[w].sub)
    BY <1>1 DEF HolderInv, Holding, NoJob, Overwritten
  <2>1. CASE w = u
    <3>1. pc'[w] = "cleanup"
      BY <1>0, <1>1, <2>1 DEF TypeOK
    <3> QED BY <1>0, <1>1, <1>5, <1>6, <2>1, <3>1 DEF HolderInv
  <2>2. CASE w # u
    <3>1. pc'[w] = pc[w]
      BY <1>0, <1>1, <2>2 DEF TypeOK
    <3> QED BY <1>0, <1>1, <3>1 DEF HolderInv
  <2> QED BY <2>1, <2>2
<1>8. UniqueInv'
  BY <1>0, <1>1, <1>5 DEF UniqueInv, Holding
<1>9. HandedInv'
  BY <1>0, <1>1, <1>5 DEF HandedInv, Holding, Overwritten
<1> QED BY <1>1, <1>3, <1>4, <1>7, <1>8, <1>9 DEF IInv

\* So does the store that ends a worker's use of its container, although the
\* mutex is not held and the container may hold a later task by then.
LEMMA ReleaseIInv ==
    ASSUME IInv, NEW u \in Workers, Release(u)
    PROVE  /\ IInv'
           /\ UNCHANGED <<submitted, size>>
           /\ took[u].sub # 0
           /\ took' = [took EXCEPT ![u] = NoJob]
<1> DEFINE c == container[u]
<1>0. TypeOK /\ CursorInv /\ SerialInv /\ HeadInv /\ HolderInv /\ UniqueInv /\ HandedInv
  BY DEF IInv
<1>1. /\ pc[u] = "cleanup"
      /\ slots' = [slots EXCEPT ![c].state = "IDLE"]
      /\ pc' = [pc EXCEPT ![u] = "loop"]
      /\ arg' = [arg EXCEPT ![u] = NoJob]
      /\ took' = [took EXCEPT ![u] = NoJob]
      /\ UNCHANGED <<to_put, to_take, size, container, submitted, reported>>
  BY DEF Release
<1>2. c \in Indices
  BY <1>0 DEF TypeOK
<1>3. \A j \in Indices : /\ slots'[j].job = slots[j].job
                         /\ slots[j].state = "IDLE" => slots'[j].state = "IDLE"
  BY <1>0, <1>1, <1>2 DEF TypeOK
<1>4. took[u].sub \in 1 .. submitted - size /\ submitted \in Nat /\ size \in Nat
  BY <1>0, <1>1, PoolAssumption DEF HolderInv, Holding, TypeOK
<1>5. TypeOK'
  <2>1. slots' \in [Indices -> [job : Job, state : {"IDLE", "RUN"}]]
    BY <1>0, <1>1, <1>2 DEF TypeOK
  <2>2. NoJob \in Job
    BY PoolAssumption DEF NoJob, Job
  <2> QED BY <1>0, <1>1, <2>1, <2>2 DEF TypeOK, Points
<1>6. CursorInv' /\ SerialInv'
  BY <1>0, <1>1, <1>3 DEF CursorInv, SerialInv, LastInto, Age, Indices
<1>7. HeadInv'
  <2>1. Mask(to_take) \in Indices
    BY <1>0, MaskOfCursor DEF TypeOK
  <2> QED BY <1>0, <1>1, <1>3, <2>1 DEF HeadInv, Mask
<1>8. \A w \in Workers : IF w = u THEN pc'[w] = "loop" /\ took'[w] = NoJob
                                  ELSE pc'[w] = pc[w] /\ took'[w] = took[w]
  BY <1>0, <1>1 DEF TypeOK
<1>9. HolderInv'
  <2> SUFFICES ASSUME NEW w \in Workers
               PROVE  /\ pc'[w] # "reject"
                      /\ pc'[w] \notin Holding => took'[w] = NoJob
                      /\ pc'[w] \in Holding =>
                            /\ took'[w].sub \in 1 .. submitted - size
                            /\ \/ slots'[container[w]].job = took'[w]
                               \/ slots'[container[w]].job.sub >= took'[w].sub + QSize
                      /\ pc'[w] = "cleanup" =>
                            took'[w].sub \in reported \/ Overwritten(took'[w].sub)
    BY <1>1 DEF HolderInv, Holding, NoJob, Overwritten
  <2>1. CASE w = u
    BY <1>8, <2>1 DEF Holding
  <2>2. CASE w # u
    <3>1. container[w] \in Indices
      BY <1>0 DEF TypeOK
    <3>2. slots'[container[w]].job = slots[container[w]].job
      BY <1>3, <3>1
    <3> QED BY <1>0, <1>8, <2>2, <3>2 DEF HolderInv
  <2> QED BY <2>1, <2>2
<1>10. UniqueInv'
  BY <1>0, <1>8 DEF UniqueInv, Holding
<1>11. HandedInv'
  <2> SUFFICES ASSUME NEW n \in 1 .. submitted - size
               PROVE  \/ \E w \in Workers : pc'[w] \in Holding /\ took'[w].sub = n
                      \/ n \in reported
                      \/ Overwritten(n)
    BY <1>1 DEF HandedInv, Holding, Overwritten
  <2>1. took[u].sub \in reported \/ Overwritten(took[u].sub)
    BY <1>0, <1>1 DEF HolderInv
  <2> QED BY <1>0, <1>8, <2>1 DEF HandedInv
<1> QED BY <1>1, <1>4, <1>5, <1>6, <1>7, <1>9, <1>10, <1>11 DEF IInv

-----------------------------------------------------------------------------
(* The theorems *)

\* Every step of the pool, and every stuttering step, preserves the invariant.
LEMMA NextIInv == IInv /\ [Next]_vars => IInv'
<1> SUFFICES ASSUME IInv, [Next]_vars PROVE IInv'
  OBVIOUS
<1>1. ASSUME NEW t \in Tasks, Submit(t) PROVE IInv'
  <2>1. CASE Accept(t)
    BY <2>1, AcceptIInv
  <2>2. CASE UNCHANGED vars
    BY <2>2 DEF vars, IInv, TypeOK, CursorInv, SerialInv, LastInto, Age, HeadInv,
                Mask, HolderInv, UniqueInv, HandedInv, Overwritten, Indices,
                Holding, NoJob, Points, Job
  <2> QED BY <1>1, <2>1, <2>2 DEF Submit, Refuse
<1>2. ASSUME NEW w \in Workers, WorkerStep(w) PROVE IInv'
  BY <1>2, MoveIInv, TakeIInv, CallbackIInv, ReleaseIInv DEF WorkerStep
<1>3. ASSUME NEW w \in Workers, SpuriousWake(w) \/ HandlerReturns(w) PROVE IInv'
  BY <1>3, MoveIInv
<1>4. CASE UNCHANGED vars
  BY <1>4 DEF vars, IInv, TypeOK, CursorInv, SerialInv, LastInto, Age, HeadInv,
              Mask, HolderInv, UniqueInv, HandedInv, Overwritten, Indices,
              Holding, NoJob, Points, Job
<1> QED BY <1>1, <1>2, <1>3, <1>4 DEF Next

\* The strengthened invariant holds in every reachable state of the pool.
THEOREM PoolInvariant == Spec => []IInv
<1> QED BY InitIInv, NextIInv, PTL DEF Spec

\* The ring, the cursors and the workers keep their types; in particular the
\* cursors never leave 0 .. QSize, so every container index is in the array.
THEOREM TypeCorrect == Spec => []TypeOK
<1>1. IInv => TypeOK
  BY DEF IInv
<1> QED BY <1>1, PoolInvariant, PTL

\* handle_task never meets a container that is not idle at the head of the
\* queue, so the branch that fails a task unrun is dead code.
THEOREM NoRejection == Spec => []NeverRejects
<1>1. IInv => NeverRejects
  BY DEF IInv, HolderInv, NeverRejects
<1> QED BY <1>1, PoolInvariant, PTL

\* A worker whose container holds another job than the one it took has let at
\* least QSize later submissions pass: the container's job is one of those.
LEMMA OtherJobIsLater ==
    ASSUME IInv, NEW w \in Workers, pc[w] \in Holding,
           slots[container[w]].job # took[w]
    PROVE  submitted >= took[w].sub + QSize
<1> DEFINE n == slots[container[w]].job.sub
<1>1. /\ took[w].sub \in Nat /\ submitted \in Nat /\ to_put \in Nat
      /\ container[w] \in Indices /\ container[w] \in 0 .. QSize - 1
  BY PoolAssumption DEF IInv, TypeOK, Job, Indices
<1>2. n = LastInto(container[w])
  BY <1>1 DEF IInv, SerialInv
<1>3. n \in Nat /\ n <= submitted
  BY <1>1, <1>2, PoolAssumption DEF LastInto, Age
<1>4. n >= took[w].sub + QSize
  BY DEF IInv, HolderInv
<1> QED BY <1>1, <1>3, <1>4, PoolAssumption

\* A worker's container holds the worker's own job as long as fewer than QSize
\* later submissions were accepted, although no submit looks who uses it.
THEOREM HoldersKeepTheirJobs == Spec => []HolderKeepsJob
<1>1. IInv => HolderKeepsJob
  BY OtherJobIsLater DEF HolderKeepsJob
<1> QED BY <1>1, PoolInvariant, PTL

\* No two workers use one container, on the same condition: jobs are handed out
\* once, so one of the two has lost its own.
THEOREM ContainersAreExclusive == Spec => []NoSharedContainer
<1>1. IInv => NoSharedContainer
  <2> SUFFICES ASSUME IInv, NEW v \in Workers, NEW w \in Workers,
                      v # w, pc[v] \in Holding, pc[w] \in Holding,
                      container[v] = container[w]
               PROVE  \/ submitted >= took[v].sub + QSize
                      \/ submitted >= took[w].sub + QSize
    BY DEF NoSharedContainer
  <2>1. took[v].sub # took[w].sub
    BY DEF IInv, UniqueInv
  <2> QED BY <2>1, OtherJobIsLater
<1> QED BY <1>1, PoolInvariant, PTL

\* No accepted task is forgotten, for any number of workers and submissions.
THEOREM NoTaskLost == Spec => []NothingLost
<1>1. IInv => NothingLost
  <2> SUFFICES ASSUME IInv, NEW n \in 1 .. submitted, n <= submitted - size
               PROVE  \/ \E w \in Workers : pc[w] \in Holding /\ took[w].sub = n
                      \/ n \in reported
                      \/ submitted >= n + QSize
    BY PoolAssumption DEF NothingLost, IInv, TypeOK
  <2>1. n \in 1 .. submitted - size
    BY PoolAssumption DEF IInv, TypeOK
  <2> QED BY <2>1 DEF IInv, HandedInv, Overwritten
<1> QED BY <1>1, PoolInvariant, PTL

-----------------------------------------------------------------------------
(* What the handler is called with *)

\* A container that was ever submitted to holds a task, and so does every job
\* that a worker took or called its handler with.
InHandler == {"handling", "callback", "cleanup"}

TaskInv ==
    /\ \A i \in Indices : slots[i].job.sub # 0 => slots[i].job.task \in Tasks
    /\ \A w \in Workers : /\ pc[w] \in Holding => took[w].task \in Tasks
                          /\ pc[w] \in InHandler => /\ arg[w].task \in Tasks
                                                    /\ arg[w].sub # 0

\* The container of a worker that uses it was submitted to: its own job is
\* there, or a later one.
LEMMA HeldIsSubmitted ==
    ASSUME IInv, TaskInv, NEW w \in Workers, pc[w] \in Holding
    PROVE  /\ container[w] \in Indices
           /\ slots[container[w]].job.sub # 0
           /\ slots[container[w]].job.task \in Tasks
<1>1. container[w] \in Indices
  BY DEF IInv, TypeOK
<1>2. took[w].sub \in 1 .. submitted - size /\ submitted - size \in Int
  BY PoolAssumption DEF IInv, HolderInv, TypeOK
<1>3. slots[container[w]].job.sub \in Nat
  BY <1>1 DEF IInv, TypeOK, Job
<1>4. slots[container[w]].job.sub # 0
  BY <1>2, <1>3, PoolAssumption DEF IInv, HolderInv
<1> QED BY <1>1, <1>4 DEF TaskInv

\* Every step preserves it.
LEMMA NextTaskInv == IInv /\ TaskInv /\ [Next]_vars => TaskInv'
<1> SUFFICES ASSUME IInv, TaskInv, [Next]_vars PROVE TaskInv'
  OBVIOUS
<1>0. TypeOK /\ TypeOK'
  BY NextIInv DEF IInv
<1>1. ASSUME NEW t \in Tasks, Accept(t) PROVE TaskInv'
  <2>1. Mask(to_put) \in Indices
    BY <1>0, MaskOfCursor DEF TypeOK
  <2>2. \A i \in Indices : slots'[i] = IF i = Mask(to_put) THEN NewContainer(t) ELSE slots[i]
    BY <1>0, <1>1, <2>1 DEF Accept, TypeOK
  <2>3. \A w \in Workers : /\ pc'[w] \in Holding => pc[w] \in Holding
                           /\ pc'[w] \in InHandler => pc[w] \in InHandler
    BY <1>0, <1>1 DEF Accept, Signal, TypeOK, Holding, InHandler
  <2>4. UNCHANGED <<arg, took>>
    BY <1>1 DEF Accept
  <2> QED BY <2>2, <2>3, <2>4 DEF TaskInv, NewContainer, Indices, Holding, InHandler
<1>2. ASSUME NEW u \in Workers, Take(u) PROVE TaskInv'
  <2> DEFINE i == Mask(to_take)
  <2>1. /\ i \in Indices /\ size = 1 /\ submitted # 0
        /\ slots[i].job.sub = submitted /\ slots[i].state = "IDLE"
    <3>1. size = 1 /\ slots[i].job.sub = submitted
      BY <1>2, TakeIInv
    <3>2. i \in Indices
      BY <1>0, MaskOfCursor DEF TypeOK
    <3>3. submitted # 0
      BY <1>0, <3>1, PoolAssumption DEF IInv, CursorInv, TypeOK
    <3> QED BY <3>1, <3>2, <3>3 DEF IInv, HeadInv
  <2>2. \A j \in Indices : slots'[j].job = slots[j].job
    BY <1>0, <1>2, <2>1 DEF Take, TypeOK
  <2>3. \A w \in Workers : IF w = u THEN pc'[w] = "ready" /\ took'[w] = slots[i].job
                                    ELSE pc'[w] = pc[w] /\ took'[w] = took[w]
    BY <1>0, <1>2, <2>1 DEF Take, TypeOK
  <2>4. UNCHANGED arg
    BY <1>2 DEF Take
  <2>5. slots[i].job.task \in Tasks
    BY <2>1 DEF TaskInv
  <2>6. "ready" \notin InHandler
    BY DEF InHandler
  <2> QED BY <2>2, <2>3, <2>4, <2>5, <2>6 DEF TaskInv, Indices, Holding, InHandler
<1>3. ASSUME NEW u \in Workers, StartHandler(u) PROVE TaskInv'
  <2>1. slots[container[u]].job.sub # 0 /\ slots[container[u]].job.task \in Tasks
    BY <1>3, HeldIsSubmitted DEF StartHandler, Holding
  <2>2. \A w \in Workers : IF w = u THEN arg'[w] = slots[container[u]].job
                                    ELSE arg'[w] = arg[w] /\ pc'[w] = pc[w]
    BY <1>0, <1>3 DEF StartHandler, TypeOK
  <2>3. pc[u] \in Holding
    BY <1>3 DEF StartHandler, Holding
  <2> QED BY <1>3, <2>1, <2>2, <2>3 DEF StartHandler, TaskInv, Indices, Holding, InHandler
<1>4. ASSUME NEW u \in Workers,
             Block(u) \/ SpuriousWake(u) \/ HandlerReturns(u) \/ Callback(u)
      PROVE  TaskInv'
  <2>1. UNCHANGED <<slots, arg, took>>
    BY <1>4, MoveIInv, CallbackIInv DEF Block, SpuriousWake, HandlerReturns, Callback
  <2>2. \A w \in Workers : /\ pc'[w] \in Holding => pc[w] \in Holding
                           /\ pc'[w] \in InHandler => pc[w] \in InHandler
    BY <1>0, <1>4 DEF TypeOK, Holding, InHandler, IInv, HolderInv,
                      Block, SpuriousWake, HandlerReturns, Callback
  <2> QED BY <2>1, <2>2 DEF TaskInv, Indices, Holding, InHandler
<1>5. ASSUME NEW u \in Workers, Release(u) PROVE TaskInv'
  <2>1. \A j \in Indices : slots'[j].job = slots[j].job
    BY <1>0, <1>5 DEF Release, TypeOK
  <2>2. \A w \in Workers : IF w = u THEN pc'[w] = "loop"
                           ELSE pc'[w] = pc[w] /\ took'[w] = took[w] /\ arg'[w] = arg[w]
    BY <1>0, <1>5 DEF Release, TypeOK
  <2> QED BY <2>1, <2>2 DEF TaskInv, Indices, Holding, InHandler
<1>6. CASE UNCHANGED vars
  BY <1>6 DEF vars, TaskInv, Indices, Holding, InHandler
<1> QED BY <1>1, <1>2, <1>3, <1>4, <1>5, <1>6
        DEF Next, Submit, Refuse, WorkerStep

\* container->handler is called with a task that was submitted, never with the
\* null pointer of an unused container, whatever the ring did meanwhile.
THEOREM HandlerHasTask ==
    Spec => [](\A w \in Workers : pc[w] = "handling" => arg[w].task \in Tasks)
<1>1. Init => TaskInv
  BY DEF Init, TaskInv, NoJob, Holding, InHandler
<1>2. TaskInv => \A w \in Workers : pc[w] = "handling" => arg[w].task \in Tasks
  BY DEF TaskInv, InHandler
<1> QED BY <1>1, <1>2, NextTaskInv, PoolInvariant, PTL DEF Spec

-----------------------------------------------------------------------------
(* Refinement *)

\* The ring implements the abstract hand-off queue of capacity one: jobs leave
\* it in the order of submission, each to exactly one free worker.
THEOREM PoolIsHandoffQueue == Spec => HandoffSpec
<1> DEFINE held == [w \in Workers |-> took[w].sub]
<1>1. Init => Handoff!Init
  BY DEF Init, Handoff!Init, NoJob
<1>2. ASSUME IInv, [Next]_vars PROVE [Handoff!Next]_(Handoff!vars)
  <2>1. size \in Nat /\ submitted \in Nat
    BY <1>2, PoolAssumption DEF IInv, TypeOK
  <2>2. ASSUME UNCHANGED <<submitted, size, took>>
        PROVE  UNCHANGED Handoff!vars
    BY <2>2 DEF Handoff!vars
  <2>3. ASSUME NEW t \in Tasks, Accept(t) PROVE Handoff!Offer
    <3>1. size = 0
      BY <1>2, <2>3, FullMeansOne DEF IInv, CursorInv, Accept
    <3>2. size' = size + 1 /\ submitted' = submitted + 1 /\ took' = took
      BY <2>3 DEF Accept
    <3> QED BY <2>1, <3>1, <3>2 DEF Handoff!Offer
  <2>4. ASSUME NEW w \in Workers, Take(w) PROVE Handoff!Hand(w)
    <3> DEFINE j == slots[Mask(to_take)].job
    <3>1. /\ size = 1 /\ j.sub = submitted
          /\ took' = [took EXCEPT ![w] = j]
      BY <1>2, <2>4, TakeIInv
    <3>2. size' = 0 /\ submitted' = submitted
      BY <2>1, <2>4, <3>1 DEF Take
    <3>3. took[w].sub = 0
      BY <1>2, <2>4 DEF IInv, HolderInv, Take, Holding, NoJob
    <3>4. took \in [Workers -> Job]
      BY <1>2 DEF IInv, TypeOK
    <3>5. held' = [held EXCEPT ![w] = submitted]
      BY <3>1, <3>4
    <3>6. held' = [held EXCEPT ![w] = (submitted - size) + 1]
      <4>1. (submitted - size) + 1 = submitted
        BY <2>1, <3>1
      <4> QED BY <3>5, <4>1
    <3>7. held[w] = 0
      BY <3>3
    <3>8. /\ submitted - size < submitted
          /\ submitted' - size' = (submitted - size) + 1
      BY <2>1, <3>1, <3>2
    <3> QED BY <3>2, <3>6, <3>7, <3>8 DEF Handoff!Hand
  <2>5. ASSUME NEW w \in Workers, Release(w) PROVE Handoff!Done(w)
    <3>1. /\ took[w].sub # 0 /\ took' = [took EXCEPT ![w] = NoJob]
          /\ UNCHANGED <<submitted, size>>
      BY <1>2, <2>5, ReleaseIInv
    <3>2. took \in [Workers -> Job]
      BY <1>2 DEF IInv, TypeOK
    <3>3. held' = [held EXCEPT ![w] = 0]
      BY <3>1, <3>2 DEF NoJob
    <3> QED BY <3>1, <3>3 DEF Handoff!Done
  <2>6. CASE \E t \in Tasks : Submit(t)
    BY <2>2, <2>3, <2>6 DEF Submit, Refuse, vars, Handoff!Next
  <2>7. ASSUME NEW w \in Workers, WorkerStep(w)
        PROVE  [Handoff!Next]_(Handoff!vars)
    BY <1>2, <2>2, <2>4, <2>5, <2>7, MoveIInv, CallbackIInv
       DEF WorkerStep, Handoff!Next
  <2>8. ASSUME NEW w \in Workers, SpuriousWake(w) \/ HandlerReturns(w)
        PROVE  [Handoff!Next]_(Handoff!vars)
    BY <1>2, <2>2, <2>8, MoveIInv
  <2>9. CASE UNCHANGED vars
    BY <2>2, <2>9 DEF vars
  <2> QED BY <1>2, <2>6, <2>7, <2>8, <2>9 DEF Next
<1> QED BY <1>1, <1>2, PoolInvariant, PTL DEF Spec, HandoffSpec, Handoff!Spec

=============================================================================
