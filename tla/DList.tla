------------------------------- MODULE DList -------------------------------
(***************************************************************************)
(* cdsl_dlist.c, the doubly linked list that streams, segments and         *)
(* playlists hang in.  The tail of a list is where its head, cast to a     *)
(* node, has its second field, so prev[l] is the tail of l.                *)
(*                                                                         *)
(* Several calls leave the tail behind, and are right only where their     *)
(* caller keeps to what is named here:                                     *)
(*   - Remove, Replace and InsertAfter know no list head: not at the tail  *)
(*     (cdsl_dlist.c:71, 138, 149);                                        *)
(*   - EnqueuePriority into an empty list sets no tail (:43);              *)
(*   - Dequeue of the only node keeps it as the tail (:55), so RemoveTail  *)
(*     and GetLast are for lists that are not empty;                       *)
(*   - IterRemove links the node it removes to itself's place (:190), and  *)
(*     removes nothing: it is not called.                                  *)
(* NotLast and NotEmpty stand for these in the guards.                     *)
(***************************************************************************)
EXTENDS ListHeap

VARIABLES prev        \* the second field of every cell

vars == <<next, prev, iter, last>>

NotEmpty(l) == next[l] # Null
NotLast(n)  == next[n] # Null

Init == HeapInit /\ prev = [c \in Cells |-> Null]

NodeInit(n) == /\ Loose(n)
               /\ next' = [next EXCEPT ![n] = Null]
               /\ prev' = [prev EXCEPT ![n] = Null]
               /\ Answer("NodeInit", Null, n, Null)

EntryInit(l) == /\ next' = [next EXCEPT ![l] = Null]
                /\ prev' = [prev EXCEPT ![l] = Null]
                /\ Answer("EntryInit", l, Null, Null)

PutHead(l, n) ==
    /\ Loose(n)
    /\ next' = [next EXCEPT ![n] = next[l], ![l] = n]
    /\ prev' = [prev EXCEPT ![n] = l, ![IF NotEmpty(l) THEN next[l] ELSE l] = n]
    /\ Answer("PutHead", l, n, Null)

\* Mutant of PutTail: the node keeps the successor it had in an earlier list.
PutTailKeepsNext(l, n) ==
    /\ Loose(n)
    /\ next' = [next EXCEPT ![IF NotEmpty(l) THEN prev[l] ELSE l] = n]
    /\ prev' = [prev EXCEPT ![n] = IF NotEmpty(l) THEN prev[l] ELSE l, ![l] = n]
    /\ Answer("PutTail", l, n, Null)

PutTail(l, n) ==
    LET end == IF NotEmpty(l) THEN prev[l] ELSE l
    IN  /\ Loose(n)
        /\ next' = [next EXCEPT ![end] = n, ![n] = Null]
        /\ prev' = [prev EXCEPT ![n] = end, ![l] = n]
        /\ Answer("PutTail", l, n, Null)

EnqueuePriority(l, n) ==
    LET c == FirstBeaten(l, n)
        end == LastCell(l)
    IN  /\ Loose(n)
        /\ NotEmpty(l)
        /\ \/ /\ c # Null
              /\ next' = [next EXCEPT ![prev[c]] = n, ![n] = c]
              /\ prev' = [prev EXCEPT ![n] = prev[c], ![c] = n]
           \/ /\ c = Null
              /\ next' = [next EXCEPT ![end] = n, ![n] = Null]
              /\ prev' = [prev EXCEPT ![n] = end, ![l] = n]
        /\ Answer("EnqueuePriority", l, n, Null)

InsertAfter(a, n) ==
    /\ Loose(n)
    /\ ~Loose(a)
    /\ NotLast(a)
    /\ next' = [next EXCEPT ![n] = next[a], ![a] = n]
    /\ prev' = [prev EXCEPT ![n] = a, ![next[a]] = n]
    /\ Answer("InsertAfter", a, n, Null)

\* The tail stays, also when the list becomes empty.
Dequeue(l) ==
    LET h == next[l]
    IN  /\ IF h = Null THEN UNCHANGED <<next, prev>>
           ELSE /\ next' = [next EXCEPT ![l] = next[h]]
                /\ prev' = IF NotLast(h) THEN [prev EXCEPT ![next[h]] = l] ELSE prev
        /\ Answer("Dequeue", l, Null, h)

RemoveHead(l) ==
    LET h == next[l]
    IN  /\ IF h = Null THEN UNCHANGED <<next, prev>>
           ELSE /\ next' = [next EXCEPT ![l] = next[h]]
                /\ prev' = IF NotLast(h) THEN [prev EXCEPT ![next[h]] = l]
                           ELSE [prev EXCEPT ![l] = Null]
        /\ Answer("RemoveHead", l, Null, h)

RemoveTail(l) ==
    LET t == prev[l]
        only == prev[t] = l
    IN  /\ NotEmpty(l)
        /\ next' = [next EXCEPT ![prev[t]] = Null]
        /\ prev' = [prev EXCEPT ![l] = IF only THEN Null ELSE prev[t]]
        /\ Answer("RemoveTail", l, Null, t)

Remove(l, n) ==
    /\ n \in Members(l)
    /\ NotLast(n)
    /\ next' = [next EXCEPT ![prev[n]] = next[n]]
    /\ prev' = [prev EXCEPT ![next[n]] = prev[n]]
    /\ Answer("Remove", l, n, 1)

Replace(o, n) ==
    /\ Loose(n)
    /\ ~Loose(o)
    /\ NotLast(o)
    /\ next' = [next EXCEPT ![n] = next[o], ![prev[o]] = n, ![o] = Null]
    /\ prev' = [prev EXCEPT ![n] = prev[o], ![next[o]] = n, ![o] = Null]
    /\ Answer("Replace", o, n, Null)

GetLast(l) == /\ NotEmpty(l)
              /\ Ask("GetLast", l, Null, prev[l])
              /\ UNCHANGED prev

Next == \/ \E n \in Nodes : NodeInit(n)
        \/ \E l \in Lists :
              \/ EntryInit(l) \/ Dequeue(l) \/ RemoveHead(l) \/ RemoveTail(l) \/ GetLast(l)
              \/ (Question(l) \/ ListGetLast(l)) /\ UNCHANGED prev
              \/ \E n \in Nodes : \/ PutHead(l, n) \/ PutTail(l, n)
                                  \/ EnqueuePriority(l, n) \/ Remove(l, n)
        \/ \E a, n \in Nodes : InsertAfter(a, n) \/ Replace(a, n)
        \/ (HasNext \/ IterNext) /\ UNCHANGED prev

Spec == Init /\ [][Next]_vars

-----------------------------------------------------------------------------
(* Properties *)

\* The list l holds the items of s, and can be walked both ways.
Holds(l, s) ==
    /\ \A i, j \in DOMAIN s : s[i] = s[j] => i = j
    /\ s = <<>> => next[l] = Null
    /\ s # <<>> => next[l] = s[1] /\ prev[l] = s[Len(s)]
    /\ \A i \in DOMAIN s : /\ prev[s[i]] = IF i = 1 THEN l ELSE s[i - 1]
                           /\ next[s[i]] = IF i = Len(s) THEN Null ELSE s[i + 1]

\* "doubly linked list" (cdsl_dlist.h:4): what the forward links hold, the
\* backward links and the tail hold too, and no node is in two lists, whatever
\* calls came before, and although Dequeue and Remove do not look after the
\* tail and nodes come back with the links of an earlier list.
TwoWays == \A l \in Lists :
    /\ Holds(l, Items(l))
    /\ \A m \in Lists \ {l} : Members(l) \cap Members(m) = {}
=============================================================================
