------------------------------- MODULE SList -------------------------------
(***************************************************************************)
(* cdsl_slist.c, the singly linked list of the same library.  Where a call *)
(* is right only if its caller keeps to something, the guard says so:      *)
(*   - Merge reads the next of the head: not into an empty list (:27);     *)
(*   - EnqueuePriority at the end leaves item->next as it is (:47): only a *)
(*     node that points nowhere;                                           *)
(*   - RemoveAt does not compare the position with the size (:145).        *)
(***************************************************************************)
EXTENDS ListHeap

vars == <<next, iter, last>>

Fresh(n) == Loose(n) /\ next[n] = Null

\* The cell before n, where the loops that look for n in l stop.
Before(l, n) == CHOOSE c \in Members(l) \cup {l} : next[c] = n

NodeInit(n) == /\ Loose(n)
               /\ next' = [next EXCEPT ![n] = Null]
               /\ Answer("NodeInit", Null, n, Null)

EntryInit(l) == /\ next' = [next EXCEPT ![l] = Null]
                /\ Answer("EntryInit", l, Null, Null)

\* Mutant of Merge: the other list keeps its nodes.
MergeShares(to, from) ==
    /\ to # from
    /\ next[to] # Null
    /\ next' = [next EXCEPT ![LastCell(to)] = next[from]]
    /\ Answer("Merge", to, from, Null)

Merge(to, from) ==
    /\ to # from
    /\ next[to] # Null
    /\ next' = [next EXCEPT ![LastCell(to)] = next[from], ![from] = Null]
    /\ Answer("Merge", to, from, Null)

EnqueuePriority(l, n) ==
    LET c == FirstBeaten(l, n)
    IN  /\ Fresh(n)
        /\ \/ /\ c # Null
              /\ next' = [next EXCEPT ![n] = c, ![Before(l, c)] = n]
           \/ /\ c = Null
              /\ next' = [next EXCEPT ![LastCell(l)] = n]
        /\ Answer("EnqueuePriority", l, n, Null)

InsertAfter(a, n) == /\ Loose(n)
                     /\ ~Loose(a)
                     /\ next' = [next EXCEPT ![n] = next[a], ![a] = n]
                     /\ Answer("InsertAfter", a, n, Null)

Dequeue(l, op) == /\ next' = IF next[l] = Null THEN next
                             ELSE [next EXCEPT ![l] = next[next[l]]]
                  /\ Answer(op, l, Null, next[l])

PutHead(l, n) == /\ Loose(n)
                 /\ next' = [next EXCEPT ![n] = next[l], ![l] = n]
                 /\ Answer("PutHead", l, n, 0)

\* Clears the node's link, walks to the end, counting, and links it there.
PutTail(l, n) == /\ Loose(n)
                 /\ next' = [next EXCEPT ![LastCell(l)] = n, ![n] = Null]
                 /\ Answer("PutTail", l, n, Len(Items(l)))

RemoveTail(l) ==
    /\ IF next[l] = Null THEN UNCHANGED next
       ELSE next' = [next EXCEPT ![Before(l, LastCell(l))] = Null]
    /\ Answer("RemoveTail", l, Null, IF next[l] = Null THEN Null ELSE LastCell(l))

Remove(l, n) ==
    /\ IF n \in Members(l) THEN next' = [next EXCEPT ![Before(l, n)] = next[n]]
       ELSE UNCHANGED next
    /\ Answer("Remove", l, n, AsBOOL(n \in Members(l)))

RemoveAt(l, k) == LET found == Items(l)[k + 1]
                  IN  /\ k \in 0 .. Len(Items(l)) - 1
                      /\ next' = [next EXCEPT ![Before(l, found)] = next[found]]
                      /\ Answer("RemoveAt", l, k, found)

\* cdsl_slistIterRemove: what it takes is the node after the one that IterNext
\* gave last; nothing before the first and after the last.
SlistIterRemove ==
    LET n == next[IterCell]
    IN  /\ IterValid
        /\ next' = IF iter.prev = Null \/ n = Null THEN next
                   ELSE [next EXCEPT ![iter.prev] = next[n]]
        /\ Answer("IterRemove", iter.list, Null,
                  IF iter.prev = Null THEN Null ELSE n)

\* cdsl_iterRemove takes the head, too, and reads a null pointer at the end.
IterRemove ==
    LET n == next[IterCell]
    IN  /\ IterValid
        /\ n # Null
        /\ next' = [next EXCEPT ![IterCell] = next[n], ![n] = Null]
        /\ iter' = [iter EXCEPT !.prev = IterCell]
        /\ Called("IterRemove", iter.list, Null, n)

Init == HeapInit

Next == \/ \E n \in Nodes : NodeInit(n)
        \/ \E l \in Lists :
              \/ EntryInit(l) \/ RemoveTail(l) \/ Question(l) \/ ListGetLast(l)
              \/ \E op \in {"Dequeue", "RemoveHead"} : Dequeue(l, op)
              \/ \E other \in Lists : Merge(l, other)
              \/ \E k \in 0 .. Cardinality(Nodes) : RemoveAt(l, k)
              \/ \E n \in Nodes : \/ PutHead(l, n) \/ PutTail(l, n)
                                  \/ EnqueuePriority(l, n) \/ Remove(l, n)
        \/ \E a, n \in Nodes : InsertAfter(a, n)
        \/ HasNext \/ IterNext \/ SlistIterRemove \/ IterRemove

Spec == Init /\ [][Next]_vars

-----------------------------------------------------------------------------
(* Properties *)

\* cdsl_slist.h: each list ends, and no node is in two of them, although a node
\* taken out keeps its link into the list it left.
Chains == \A l \in Lists :
    /\ \A i, j \in DOMAIN Items(l) : Items(l)[i] = Items(l)[j] => i = j
    /\ next[LastCell(l)] = Null
    /\ \A m \in Lists \ {l} : Members(l) \cap Members(m) = {}
=============================================================================
