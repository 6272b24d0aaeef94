------------------------------ MODULE ListHeap ------------------------------
(***************************************************************************)
(* What the two list libraries share (base_list.c): cells linked by their  *)
(* first field.  A list head is cast to a node by the code, so it is a     *)
(* cell too, whose `next` is the head of its list.                         *)
(*                                                                         *)
(* `last` records the latest call and its answer, so that the answers can  *)
(* be compared with what ListSeq promises.                                 *)
(***************************************************************************)
EXTENDS Integers, Sequences, FiniteSets

CONSTANTS Nodes,      \* list nodes
          Lists,      \* list heads
          Null,       \* the null pointer
          Prio        \* [Nodes -> Int]: what the caller's compare rule compares

ASSUME ListAssumption == /\ IsFiniteSet(Nodes)
                         /\ Nodes \cap Lists = {}
                         /\ Null \notin Nodes \cup Lists
                         /\ Prio \in [Nodes -> Int]

Cells == Nodes \cup Lists

VARIABLES next,       \* the first field of every cell
          iter,       \* a listIter_t of the caller: entry and prev
          last        \* ghost: the latest call

-----------------------------------------------------------------------------
(* The cells of a list, as every loop of the libraries finds them. *)

\* while (cnode->next) cnode = cnode->next; a walk longer than there are nodes
\* runs in a circle, and is cut.
Items(l) ==
    LET cell[k \in 0 .. Cardinality(Nodes) + 1] ==
            IF k = 0 THEN l ELSE IF cell[k - 1] = Null THEN Null ELSE next[cell[k - 1]]
        size == Cardinality({k \in 1 .. Cardinality(Nodes) + 1 : cell[k] # Null})
    IN  [k \in 1 .. size |-> cell[k]]

Members(l) == {Items(l)[k] : k \in DOMAIN Items(l)}

\* The caller's side: only a node of no list is put into one.
Loose(n) == \A l \in Lists : n \notin Members(l)

\* rule(node, item) == item
Beats(n, c) == Prio[n] > Prio[c]

LastCell(l) == IF Items(l) = <<>> THEN l ELSE Items(l)[Len(Items(l))]

\* The first node that n beats, at which EnqueuePriority stops; Null at the end.
FirstBeaten(l, n) == LET beaten == {k \in DOMAIN Items(l) : Beats(n, Items(l)[k])}
                     IN  IF beaten = {} THEN Null
                         ELSE Items(l)[CHOOSE k \in beaten : \A j \in beaten : k <= j]

-----------------------------------------------------------------------------
(* Calls *)

Called(op, l, n, r) == last' = [op |-> op, list |-> l, node |-> n, ret |-> r]
AsBOOL(b) == IF b THEN 1 ELSE 0


\* A call that leaves the iterator alone, and one that changes nothing at all.
Answer(op, l, n, r) == UNCHANGED iter /\ Called(op, l, n, r)
Ask(op, l, n, r)    == UNCHANGED next /\ Answer(op, l, n, r)

Size(l)       == Ask("Size", l, Null, Len(Items(l)))
Contain(l, n) == Ask("Contain", l, n, AsBOOL(n \in Members(l)))
GetHead(l)    == Ask("GetHead", l, Null, next[l])
IsEmpty(l)    == Ask("IsEmpty", l, Null, AsBOOL(next[l] = Null))

\* cdsl_listGetLast reads the head without asking whether there is one.
ListGetLast(l) == next[l] # Null /\ Ask("GetLast", l, Null, LastCell(l))

IterInit(l) == /\ iter' = [list |-> l, prev |-> Null]
               /\ UNCHANGED next
               /\ Called("IterInit", l, Null, Null)

\* The cell an iterator stands on.
IterCell == IF iter.prev = Null THEN iter.list ELSE iter.prev

\* The caller's side: the iterator's node has not been taken from the list.
IterValid == iter.prev \in Members(iter.list) \cup {Null, iter.list}

HasNext == /\ IterValid
           /\ Ask("HasNext", iter.list, Null, AsBOOL(next[IterCell] # Null))

\* Mutant of IterNext: the iterator starts after the head.
IterNextSkips == /\ IterValid
                 /\ next[IterCell] # Null
                 /\ iter' = [iter EXCEPT !.prev = IF @ = Null THEN next[next[iter.list]]
                                                  ELSE next[@]]
                 /\ UNCHANGED next
                 /\ Called("IterNext", iter.list, Null, iter'.prev)

\* At the end the iterator becomes null again, and so starts anew.
IterNext == /\ IterValid
            /\ iter' = [iter EXCEPT !.prev = next[IterCell]]
            /\ UNCHANGED next
            /\ Called("IterNext", iter.list, Null, next[IterCell])

Question(l) == \/ Size(l) \/ GetHead(l) \/ IsEmpty(l) \/ IterInit(l)
               \/ \E n \in Nodes : Contain(l, n)

HeapInit == /\ next = [c \in Cells |-> Null]
            /\ iter \in [list : Lists, prev : {Null}]
            /\ last = [op |-> "none", list |-> Null, node |-> Null, ret |-> Null]

-----------------------------------------------------------------------------

L == INSTANCE ListSeq WITH items <- [l \in Lists |-> Items(l)]

\* cdsl_dlist.h:4, base_list.h:31-42: a list is the sequence of the nodes that
\* a walk finds; every call does to that sequence what its name says, leaves
\* the other lists alone, and answers accordingly.
ListSpec == L!Spec
=============================================================================
