------------------------------ MODULE ListSeq ------------------------------
(***************************************************************************)
(* What the list libraries promise: every list is a sequence of items,     *)
(* every call does to it what its name says and gives the answer that      *)
(* follows from it.  `last` is the latest call with its answer.            *)
(***************************************************************************)
EXTENDS Integers, Sequences

CONSTANTS Nodes,      \* items
          Lists,      \* lists
          Null,       \* no item, and the answer of a call without one
          Prio        \* [Nodes -> Int]: the order EnqueuePriority is given

VARIABLES items,      \* the items of each list
          iter,       \* the iterator: its list, the item it gave last
          last        \* the latest call: op, list, node, ret

vars == <<items, iter, last>>

Seqs == INSTANCE SequencesExt

Items(l)  == Seqs!ToSet(items[l])
Loose(n)  == \A l \in Lists : n \notin Items(l)
Index(s, n) == CHOOSE i \in 1 .. Len(s) : s[i] = n
After(s, n) == IF n = s[Len(s)] THEN Null ELSE s[Index(s, n) + 1]
HeadOf(l) == IF items[l] = <<>> THEN Null ELSE Head(items[l])
LastOf(l) == IF items[l] = <<>> THEN Null ELSE items[l][Len(items[l])]

Called(op, l, n, r) == last' = [op |-> op, list |-> l, node |-> n, ret |-> r]
Becomes(l, s) == items' = [items EXCEPT ![l] = s] /\ UNCHANGED iter

\* A library whose PutTail tells the position, or 0 for the head, may do so.
Position(l) == {Null, Len(items[l])}

EntryInit(l) == Becomes(l, <<>>) /\ Called("EntryInit", l, Null, Null)
NodeInit(n) == /\ Loose(n)
               /\ UNCHANGED <<items, iter>>
               /\ Called("NodeInit", Null, n, Null)

PutHead(l, n) == /\ Loose(n)
                 /\ Becomes(l, <<n>> \o items[l])
                 /\ \E r \in {Null, 0} : Called("PutHead", l, n, r)

PutTail(l, n) == /\ Loose(n)
                 /\ Becomes(l, Append(items[l], n))
                 /\ \E r \in Position(l) : Called("PutTail", l, n, r)

\* Before the first item the new one has priority over.
EnqueuePriority(l, n) ==
    /\ Loose(n)
    /\ \E i \in 1 .. Len(items[l]) + 1 :
          /\ \A j \in 1 .. i - 1 : Prio[items[l][j]] >= Prio[n]
          /\ i <= Len(items[l]) => Prio[n] > Prio[items[l][i]]
          /\ Becomes(l, Seqs!InsertAt(items[l], i, n))
    /\ Called("EnqueuePriority", l, n, Null)

InsertAfter(l, a, n) == /\ Loose(n)
                        /\ a \in Items(l)
                        /\ Becomes(l, Seqs!InsertAt(items[l], Index(items[l], a) + 1, n))
                        /\ Called("InsertAfter", a, n, Null)

TakeHead(l, op) == /\ Becomes(l, IF items[l] = <<>> THEN <<>> ELSE Tail(items[l]))
                   /\ Called(op, l, Null, HeadOf(l))

RemoveTail(l) == /\ Becomes(l, IF items[l] = <<>> THEN <<>> ELSE Seqs!Front(items[l]))
                 /\ Called("RemoveTail", l, Null, LastOf(l))

\* s without the item n, which is in it once at most.
Without(s, n) == IF n \in Seqs!ToSet(s) THEN Seqs!RemoveAt(s, Index(s, n)) ELSE s

Remove(l, n) == /\ Becomes(l, Without(items[l], n))
                /\ Called("Remove", l, n, IF n \in Items(l) THEN 1 ELSE 0)

RemoveAt(l, k) == /\ k \in 0 .. Len(items[l]) - 1
                  /\ Becomes(l, Seqs!RemoveAt(items[l], k + 1))
                  /\ Called("RemoveAt", l, k, items[l][k + 1])

Replace(l, o, n) == /\ Loose(n)
                    /\ o \in Items(l)
                    /\ Becomes(l, Seqs!ReplaceAt(items[l], Index(items[l], o), n))
                    /\ Called("Replace", o, n, Null)

Merge(to, from) == /\ items' = [items EXCEPT ![to] = @ \o items[from], ![from] = <<>>]
                   /\ to # from
                   /\ UNCHANGED iter
                   /\ Called("Merge", to, from, Null)

Ask(op, l, n, r) == UNCHANGED <<items, iter>> /\ Called(op, l, n, r)

Question(l) == \/ Ask("Size", l, Null, Len(items[l]))
               \/ Ask("IsEmpty", l, Null, IF items[l] = <<>> THEN 1 ELSE 0)
               \/ Ask("GetHead", l, Null, HeadOf(l))
               \/ Ask("GetLast", l, Null, LastOf(l))
               \/ \E n \in Nodes : Ask("Contain", l, n, IF n \in Items(l) THEN 1 ELSE 0)

-----------------------------------------------------------------------------
(* Iteration: forward from the head, one item a call. *)

\* The iterator's item has not left the list.
Valid == iter.prev \in Items(iter.list) \cup {Null, iter.list}

\* The item the iterator gives next.
Upcoming == IF iter.prev \in Nodes THEN After(items[iter.list], iter.prev)
            ELSE HeadOf(iter.list)

IterInit(l) == /\ iter' = [list |-> l, prev |-> Null]
               /\ UNCHANGED items
               /\ Called("IterInit", l, Null, Null)

HasNext == /\ Valid
           /\ Ask("HasNext", iter.list, Null, IF Upcoming = Null THEN 0 ELSE 1)

IterNext == /\ Valid
            /\ iter' = [iter EXCEPT !.prev = Upcoming]
            /\ UNCHANGED items
            /\ Called("IterNext", iter.list, Null, Upcoming)

\* The item the iterator would give next leaves the list.
IterRemove == /\ Valid
              /\ Upcoming # Null
              /\ items' = [items EXCEPT ![iter.list] = Without(@, Upcoming)]
              /\ iter' \in {iter, [iter EXCEPT !.prev = iter.list]}
              /\ Called("IterRemove", iter.list, Null, Upcoming)

IterRemoveNothing == Ask("IterRemove", iter.list, Null, Null)

Iteration == \/ \E l \in Lists : IterInit(l)
             \/ HasNext \/ IterNext \/ IterRemove \/ IterRemoveNothing

-----------------------------------------------------------------------------

Init == /\ items = [l \in Lists |-> <<>>]
        /\ iter \in [list : Lists, prev : {Null}]
        /\ last = [op |-> "none", list |-> Null, node |-> Null, ret |-> Null]

Next == \/ Iteration
        \/ \E n \in Nodes : NodeInit(n)
        \/ \E l \in Lists :
              \/ EntryInit(l) \/ RemoveTail(l) \/ Question(l)
              \/ \E op \in {"Dequeue", "RemoveHead"} : TakeHead(l, op)
              \/ \E k \in 0 .. Len(items[l]) : RemoveAt(l, k)
              \/ \E other \in Lists : Merge(l, other)
              \/ \E n \in Nodes : \/ PutHead(l, n) \/ PutTail(l, n)
                                  \/ EnqueuePriority(l, n) \/ Remove(l, n)
                                  \/ \E a \in Nodes : InsertAfter(l, a, n) \/ Replace(l, a, n)

Spec == Init /\ [][Next]_vars
=============================================================================
