---------------------------- MODULE HandoffQueue ----------------------------
(***************************************************************************)
(* What a work queue promises its users, with nothing said about rings,    *)
(* indices or containers: jobs are accepted one after the other, at most   *)
(* Capacity of them wait at a time, and each is handed, in the order of    *)
(* acceptance, to exactly one worker that holds nothing else.  A job is    *)
(* known by its serial number, the number of jobs accepted up to and       *)
(* including it, so the waiting jobs are those in handed+1 .. offered.     *)
(***************************************************************************)
EXTENDS Integers

CONSTANTS Workers,    \* the worker threads
          Capacity    \* how many accepted jobs may wait for a worker

VARIABLES offered,    \* number of jobs accepted so far
          handed,     \* number of jobs handed to a worker so far
          held        \* held[w]: serial of the job w holds, 0 if none

vars == <<offered, handed, held>>

Init == /\ offered = 0
        /\ handed = 0
        /\ held = [w \in Workers |-> 0]

\* A job is accepted while fewer than Capacity jobs wait.
Offer == /\ offered - handed < Capacity
         /\ offered' = offered + 1
         /\ UNCHANGED <<handed, held>>

\* The oldest waiting job goes to a worker that holds none.
Hand(w) == /\ handed < offered
           /\ held[w] = 0
           /\ handed' = handed + 1
           /\ held' = [held EXCEPT ![w] = handed + 1]
           /\ UNCHANGED offered

\* A worker is done with its job.
Done(w) == /\ held[w] # 0
           /\ held' = [held EXCEPT ![w] = 0]
           /\ UNCHANGED <<offered, handed>>

Next == Offer \/ \E w \in Workers : Hand(w) \/ Done(w)

Spec == Init /\ [][Next]_vars

=============================================================================
