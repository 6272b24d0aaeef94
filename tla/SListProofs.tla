----------------------------- MODULE SListProofs -----------------------------
(***************************************************************************)
(* cdsl_slist.c implements ListSeq: in every execution, for every number   *)
(* of nodes and lists and every order of priority, each call does what its *)
(* name says to the sequence that a walk finds, and answers accordingly.   *)
(***************************************************************************)
EXTENDS SList, ListHeapProofs

\* The loops that look for an item stop at the cell before it.
LEMMA BeforeIs ==
    ASSUME HeapInv, NEW l \in Lists, NEW i \in 1 .. Len(Walks[l])
    PROVE  Before(l, Walks[l][i]) = At(l, Walks[l], i - 1)
<1> DEFINE s == Walks[l]
           a == At(l, s, i - 1)
<1>1. /\ s \in Seq(Nodes) /\ Len(s) \in Nat
      /\ \A j, k \in 1 .. Len(s) : s[j] = s[k] => j = k
      /\ \A k \in 1 .. Len(s) : s[k] \in Nodes
      /\ Members(l) = {s[k] : k \in 1 .. Len(s)}
      /\ \A k \in 0 .. Len(s) : next[At(l, s, k)] = IF k = Len(s) THEN Null ELSE s[k + 1]
  BY ListView
<1>2. i - 1 \in 0 .. Len(s) /\ i - 1 # Len(s) /\ (i - 1) + 1 = i
  BY <1>1
<1>3. a \in Members(l) \cup {l} /\ next[a] = s[i]
  <2>1. i - 1 = 0 \/ i - 1 \in 1 .. Len(s)
    BY <1>1
  <2>2. next[a] = s[i]
    BY <1>1, <1>2
  <2> QED BY <1>1, <2>1, <2>2 DEF At
<1>4. ASSUME NEW c \in Members(l) \cup {l}, next[c] = s[i] PROVE c = a
  <2>1. PICK k \in 0 .. Len(s) : c = At(l, s, k)
    <3>1. CASE c = l
      <4>1. 0 \in 0 .. Len(s) /\ At(l, s, 0) = l
        BY <1>1 DEF At
      <4> QED BY <3>1, <4>1
    <3>2. CASE c \in Members(l)
      <4>1. PICK k \in 1 .. Len(s) : c = s[k]
        BY <1>1, <3>2
      <4>2. k \in 0 .. Len(s) /\ At(l, s, k) = s[k]
        BY DEF At
      <4> QED BY <4>1, <4>2
    <3> QED BY <3>1, <3>2
  <2>2. s[i] # Null
    BY <1>1, ListAssumption
  <2>3. k # Len(s) /\ s[k + 1] = s[i]
    BY <1>1, <1>4, <2>1, <2>2
  <2>4. k + 1 \in 1 .. Len(s)
    BY <1>1, <2>3
  <2>5. k + 1 = i
    BY <1>1, <2>3, <2>4
  <2> QED BY <2>1, <2>5
<1> HIDE DEF a, s
<1>5. Before(l, s[i]) = a
  BY <1>3, <1>4 DEF Before
<1> QED BY <1>5 DEF a, s

-----------------------------------------------------------------------------
(* Putting in *)

\* PutHead and PutTail.
LEMMA PutsAtEnds ==
    ASSUME HeapInv, NEW l \in Lists, NEW n \in Nodes, PutHead(l, n) \/ PutTail(l, n)
    PROVE  HeapInv' /\ L!Next
<1> DEFINE s == Walks[l]
<1>1. /\ s \in Seq(Nodes) /\ Len(s) \in Nat /\ Items(l) = s
      /\ LastCell(l) = At(l, s, Len(s)) /\ next[At(l, s, Len(s))] = Null
  BY ListView
<1>2. 0 \in 0 .. Len(s) /\ Len(s) \in 0 .. Len(s) /\ At(l, s, 0) = l
  BY <1>1 DEF At
<1>3. Loose(n) /\ L!Loose(n) /\ UNCHANGED iter /\ IterType'
  BY LooseView DEF PutHead, PutTail, Answer, HeapInv, IterType
<1>4. next \in [Cells -> Nodes \cup {Null}] /\ n \in Cells
  BY DEF HeapInv, NextType, Cells
<1>5. CASE PutHead(l, n)
  <2>1. l \in Cells /\ l # n /\ next[l] \in Nodes \cup {Null}
    BY <1>2, <1>3, CellView
  <2>2. next' = [next EXCEPT ![n] = next[l], ![l] = n]
    BY <1>5 DEF PutHead
  <2>3. NextType'
    BY <1>4, <2>1, <2>2 DEF NextType
  <2>4. Lays(next, Walks)' /\ L!Becomes(l, <<n>> \o s)
    <3>1. Adds(<<n>> \o s, s, 0, n)
      BY <1>1, Added
    <3>2. /\ next'[l] = n /\ next'[n] = next[l]
          /\ \A c \in Cells : c # n /\ c # l => next'[c] = next[c]
      BY <1>4, <2>1, <2>2
    <3> QED BY <1>2, <1>3, <3>1, <3>2, PutIn
  <2>5. L!PutHead(l, n)
    BY <1>3, <1>5, <2>4 DEF PutHead, Answer, Called, L!PutHead, L!Called, Walks
  <2> QED BY <1>3, <2>3, <2>4, <2>5 DEF HeapInv, L!Next
<1>6. CASE PutTail(l, n)
  <2> DEFINE a == At(l, s, Len(s))
  <2>1. a \in Cells /\ a # n
    BY <1>2, <1>3, CellView
  <2>2. next' = [next EXCEPT ![a] = n, ![n] = Null]
    BY <1>1, <1>6 DEF PutTail
  <2>3. NextType'
    BY <1>4, <2>1, <2>2 DEF NextType
  <2>4. Lays(next, Walks)' /\ L!Becomes(l, Append(s, n))
    <3>1. Adds(Append(s, n), s, Len(s), n)
      BY <1>1, Added
    <3>2. /\ next'[a] = n /\ next'[n] = next[a]
          /\ \A c \in Cells : c # n /\ c # a => next'[c] = next[c]
      BY <1>1, <1>4, <2>1, <2>2
    <3>3. a = At(l, s, Len(s))
      OBVIOUS
    <3> HIDE DEF a
    <3> QED BY <3>3, <1>2, <1>3, <3>1, <3>2, PutIn
  <2>5. L!PutTail(l, n)
    BY <1>1, <1>3, <1>6, <2>4
       DEF PutTail, Answer, Called, L!PutTail, L!Called, L!Position, Walks
  <2> QED BY <1>3, <2>3, <2>4, <2>5 DEF HeapInv, L!Next
<1> QED BY <1>5, <1>6

\* By priority.
LEMMA Enqueues ==
    ASSUME HeapInv, NEW l \in Lists, NEW n \in Nodes, EnqueuePriority(l, n)
    PROVE  HeapInv' /\ L!Next
<1> DEFINE s == Walks[l]
           c == FirstBeaten(l, n)
<1>1. /\ s \in Seq(Nodes) /\ Len(s) \in Nat
      /\ LastCell(l) = At(l, s, Len(s))
      /\ \A k \in 0 .. Len(s) : next[At(l, s, k)] = IF k = Len(s) THEN Null ELSE s[k + 1]
  BY ListView
<1>2. Loose(n) /\ L!Loose(n) /\ UNCHANGED iter /\ IterType' /\ next[n] = Null
  BY LooseView DEF EnqueuePriority, Fresh, Answer, HeapInv, IterType
<1>3. next \in [Cells -> Nodes \cup {Null}] /\ n \in Cells
  BY DEF HeapInv, NextType, Cells
<1>4. \A i \in 0 .. Len(s) : At(l, s, i) \in Cells /\ At(l, s, i) # n
                             /\ next[At(l, s, i)] \in Nodes \cup {Null}
  BY <1>2, CellView
<1>5. ASSUME NEW i \in 0 .. Len(s), NEW a, a = At(l, s, i),
             next' = [next EXCEPT ![n] = next[a], ![a] = n],
             \A j \in 1 .. i : Prio[s[j]] >= Prio[n],
             i + 1 <= Len(s) => Prio[n] > Prio[s[i + 1]]
      PROVE  HeapInv' /\ L!Next
  <2>1. NextType'
    BY <1>3, <1>4, <1>5 DEF NextType
  <2> DEFINE t == L!Seqs!InsertAt(s, i + 1, n)
  <2>2. Adds(t, s, i, n) /\ a = At(l, s, i)
    BY <1>1, <1>5, Added
  <2>3. /\ next'[a] = n /\ next'[n] = next[a]
        /\ \A d \in Cells : d # n /\ d # a => next'[d] = next[d]
    BY <1>3, <1>4, <1>5
  <2>4. Lays(next, Walks)' /\ L!Becomes(l, t)
    <3> HIDE DEF t
    <3> QED BY <1>2, <2>2, <2>3, PutIn
  <2> DEFINE p == i + 1
  <2>5. /\ p \in 1 .. Len(s) + 1
        /\ \A j \in 1 .. p - 1 : Prio[s[j]] >= Prio[n]
        /\ p <= Len(s) => Prio[n] > Prio[s[p]]
        /\ L!Becomes(l, L!Seqs!InsertAt(s, p, n))
    <3>1. p - 1 = i
      OBVIOUS
    <3>2. p \in 1 .. Len(s) + 1
      BY <1>1
    <3> QED BY <1>5, <2>4, <3>1, <3>2
  <2>6. L!EnqueuePriority(l, n)
    <3> HIDE DEF p
    <3> QED BY <1>2, <2>5
            DEF EnqueuePriority, Answer, Called, L!EnqueuePriority, L!Called, Walks
  <2> QED BY <1>2, <2>1, <2>4, <2>6 DEF HeapInv, L!Next
<1>6. CASE c # Null
  <2>1. PICK i \in 1 .. Len(s) : /\ c = s[i] /\ Prio[n] > Prio[s[i]]
                                 /\ \A j \in 1 .. i - 1 : Prio[s[j]] >= Prio[n]
    BY <1>6, BeatenView
  <2> DEFINE a == At(l, s, i - 1)
  <2>2. i - 1 \in 0 .. Len(s) /\ (i - 1) + 1 = i /\ i - 1 # Len(s)
    BY <1>1
  <2>3. Before(l, c) = a /\ next[a] = c
    BY <1>1, <2>1, <2>2, BeforeIs
  <2>4. next' = [next EXCEPT ![n] = next[a], ![a] = n]
    BY <1>6, <2>3 DEF EnqueuePriority
  <2> HIDE DEF s
  <2> QED BY <1>5, <2>1, <2>2, <2>4
<1>7. CASE c = Null
  <2>1. \A j \in 1 .. Len(s) : Prio[s[j]] >= Prio[n]
    BY <1>7, BeatenView
  <2> DEFINE a == At(l, s, Len(s))
  <2>2. Len(s) \in 0 .. Len(s) /\ ~(Len(s) + 1 <= Len(s)) /\ next[a] = Null /\ LastCell(l) = a
    BY <1>1
  <2>3. next' = [next EXCEPT ![a] = n]
    BY <1>7, <2>2 DEF EnqueuePriority
  <2>4. a \in Cells /\ a # n
    BY <1>4, <2>2
  <2>5. next' = [next EXCEPT ![n] = next[a], ![a] = n]
    BY <1>2, <1>3, <2>2, <2>3, <2>4
  <2> HIDE DEF s
  <2> QED BY <1>5, <2>1, <2>2, <2>5
<1> QED BY <1>6, <1>7

\* A node after an item.
LEMMA InsertsAfter ==
    ASSUME HeapInv, NEW b \in Nodes, NEW n \in Nodes, InsertAfter(b, n)
    PROVE  HeapInv' /\ L!Next
<1>1. Loose(n) /\ L!Loose(n) /\ UNCHANGED iter /\ IterType'
  BY LooseView DEF InsertAfter, Answer, HeapInv, IterType
<1>2. PICK l \in Lists : \E i \in 1 .. Len(Walks[l]) : Walks[l][i] = b
  BY LooseView DEF InsertAfter
<1> DEFINE s == Walks[l]
<1>3. PICK i \in 1 .. Len(s) : s[i] = b
  BY <1>2
<1>4. /\ s \in Seq(Nodes) /\ Len(s) \in Nat
      /\ \A j, k \in 1 .. Len(s) : s[j] = s[k] => j = k
      /\ Members(l) = {s[k] : k \in 1 .. Len(s)}
  BY ListView
<1>5. i \in 0 .. Len(s) /\ At(l, s, i) = b
  BY <1>3, <1>4 DEF At
<1>6. /\ next \in [Cells -> Nodes \cup {Null}] /\ n \in Cells /\ b \in Cells /\ b # n
      /\ next[b] \in Nodes \cup {Null}
  BY <1>1, <1>5, CellView DEF HeapInv, NextType, Cells
<1>7. next' = [next EXCEPT ![n] = next[b], ![b] = n]
  BY DEF InsertAfter
<1>8. NextType'
  BY <1>6, <1>7 DEF NextType
<1>9. Lays(next, Walks)' /\ L!Becomes(l, L!Seqs!InsertAt(s, i + 1, n))
  <2>1. Adds(L!Seqs!InsertAt(s, i + 1, n), s, i, n)
    BY <1>4, <1>5, Added
  <2>2. /\ next'[b] = n /\ next'[n] = next[b]
        /\ \A c \in Cells : c # n /\ c # b => next'[c] = next[c]
    BY <1>6, <1>7
  <2> QED BY <1>1, <1>5, <2>1, <2>2, PutIn
<1>10. L!Index(s, b) = i /\ b \in L!Items(l)
  BY <1>3, <1>4, IndexIs, LooseView
<1>11. L!InsertAfter(l, b, n)
  BY <1>1, <1>9, <1>10 DEF InsertAfter, Answer, Called, L!InsertAfter, L!Called, Walks
<1> QED BY <1>1, <1>8, <1>9, <1>11 DEF HeapInv, L!Next

-----------------------------------------------------------------------------
(* Taking out *)

\* Dequeue and RemoveHead.
LEMMA Dequeues ==
    ASSUME HeapInv, NEW l \in Lists, NEW op \in {"Dequeue", "RemoveHead"}, Dequeue(l, op)
    PROVE  HeapInv' /\ L!Next
<1> DEFINE s == Walks[l]
           n == next[l]
<1>1. /\ s \in Seq(Nodes) /\ Len(s) \in Nat
      /\ n = Null <=> s = <<>>
      /\ s # <<>> => n = s[1] /\ 1 \in 1 .. Len(s)
  BY ListView
<1>2. UNCHANGED iter /\ IterType'
  BY DEF Dequeue, Answer, HeapInv, IterType
<1>3. CASE s = <<>>
  <2>1. HeapInv' /\ L!Becomes(l, <<>>)
    BY <1>1, <1>2, <1>3, Nothing DEF Dequeue
  <2>2. L!TakeHead(l, op)
    BY <1>1, <1>3, <2>1 DEF Dequeue, Answer, Called, L!TakeHead, L!HeadOf, L!Called, Walks
  <2> QED BY <2>1, <2>2 DEF L!Next
<1>4. CASE s # <<>>
  <2>1. 0 \in 0 .. Len(s) - 1 /\ l = At(l, s, 0) /\ n = s[0 + 1]
    BY <1>1, <1>4 DEF At
  <2>2. Unlink(l, n)
    BY <1>1, <1>4 DEF Dequeue, Unlink
  <2>3. Drops(Tail(s), s, 0)
    BY <1>1, <1>4, Dropped
  <2>4. NextType' /\ Lays(next, Walks)' /\ L!Becomes(l, Tail(s))
    BY <1>2, <2>1, <2>2, <2>3, Unlinks
  <2>5. L!HeadOf(l) = n
    BY <1>1, <1>4 DEF L!HeadOf, Walks
  <2>6. L!TakeHead(l, op)
    BY <1>4, <2>4, <2>5 DEF Dequeue, Answer, Called, L!TakeHead, L!Called, Walks
  <2> QED BY <1>2, <2>4, <2>6 DEF HeapInv, L!Next
<1> QED BY <1>3, <1>4

\* The last item.
LEMMA RemovesTail ==
    ASSUME HeapInv, NEW l \in Lists, RemoveTail(l)
    PROVE  HeapInv' /\ L!Next
<1> DEFINE s == Walks[l]
<1>1. /\ s \in Seq(Nodes) /\ Len(s) \in Nat
      /\ next[l] = Null <=> s = <<>>
      /\ s # <<>> => Len(s) \in 1 .. Len(s) /\ LastCell(l) = s[Len(s)]
      /\ \A k \in 0 .. Len(s) : next[At(l, s, k)] = IF k = Len(s) THEN Null ELSE s[k + 1]
  BY ListView DEF At
<1>2. UNCHANGED iter /\ IterType'
  BY DEF RemoveTail, Answer, HeapInv, IterType
<1>3. CASE s = <<>>
  <2>1. HeapInv' /\ L!Becomes(l, <<>>)
    BY <1>1, <1>2, <1>3, Nothing DEF RemoveTail
  <2>2. L!RemoveTail(l)
    BY <1>1, <1>3, <2>1 DEF RemoveTail, Answer, Called, L!RemoveTail, L!LastOf, L!Called, Walks
  <2> QED BY <2>1, <2>2 DEF L!Next
<1>4. CASE s # <<>>
  <2> DEFINE i == Len(s) - 1
             n == s[Len(s)]
             a == At(l, s, i)
  <2>1. i \in 0 .. Len(s) - 1 /\ i + 1 = Len(s)
    BY <1>1, <1>4
  <2>2. Before(l, n) = a
    BY <1>1, <1>4, BeforeIs
  <2>3. next[n] = Null
    <3>1. At(l, s, Len(s)) = n /\ Len(s) \in 0 .. Len(s)
      BY <1>1, <1>4 DEF At
    <3> QED BY <1>1, <3>1
  <2>4. Unlink(a, n)
    BY <1>1, <1>4, <2>2, <2>3 DEF RemoveTail, Unlink
  <2>5. Drops(L!Seqs!Front(s), s, i)
    BY <1>1, <1>4, Dropped
  <2>6. NextType' /\ Lays(next, Walks)' /\ L!Becomes(l, L!Seqs!Front(s))
    <3>1. a = At(l, s, i) /\ n = s[i + 1]
      BY <2>1
    <3> HIDE DEF a, n, i
    <3> QED BY <1>2, <2>1, <2>4, <2>5, <3>1, Unlinks
  <2>7. L!LastOf(l) = LastCell(l)
    BY <1>1, <1>4 DEF L!LastOf, Walks
  <2>8. L!RemoveTail(l)
    BY <1>1, <1>4, <2>6, <2>7 DEF RemoveTail, Answer, Called, L!RemoveTail, L!Called, Walks
  <2> QED BY <1>2, <2>6, <2>8 DEF HeapInv, L!Next
<1> QED BY <1>3, <1>4

\* Remove and RemoveAt take the item at its place.
LEMMA TakesItem ==
    ASSUME HeapInv, NEW l \in Lists, NEW i \in 0 .. Len(Walks[l]) - 1,
           NEW n, n = Walks[l][i + 1],
           UNCHANGED iter, next' = [next EXCEPT ![Before(l, n)] = next[n]]
    PROVE  /\ HeapInv'
           /\ L!Becomes(l, L!Without(Walks[l], n))
           /\ L!Becomes(l, L!Seqs!RemoveAt(Walks[l], i + 1))
<1> DEFINE s == Walks[l]
           a == At(l, s, i)
<1>1. Len(s) \in Nat
  BY ListView
<1>2. Before(l, n) = a
  <2>1. i + 1 \in 1 .. Len(s) /\ (i + 1) - 1 = i
    BY <1>1
  <2> QED BY <2>1, BeforeIs
<1>3. Unlink(a, n) /\ a = At(l, Walks[l], i)
  BY <1>2 DEF Unlink
<1>4. /\ Drops(L!Without(s, n), s, i)
      /\ L!Without(s, n) = L!Seqs!RemoveAt(s, i + 1)
  BY WithoutDrops
<1> HIDE DEF a
<1>5. NextType' /\ Lays(next, Walks)' /\ L!Becomes(l, L!Without(s, n))
  BY <1>3, <1>4, Unlinks
<1> QED BY <1>4, <1>5 DEF HeapInv, IterType

\* An item, or none.
LEMMA Removes ==
    ASSUME HeapInv, NEW l \in Lists, NEW n \in Nodes, Remove(l, n)
    PROVE  HeapInv' /\ L!Next
<1> DEFINE s == Walks[l]
<1>1. /\ s \in Seq(Nodes) /\ Len(s) \in Nat /\ DOMAIN s = 1 .. Len(s)
      /\ Members(l) = {s[k] : k \in 1 .. Len(s)}
  BY ListView
<1>2. UNCHANGED iter /\ L!Items(l) = Members(l)
  BY LooseView DEF Remove, Answer
<1>3. HeapInv' /\ L!Becomes(l, L!Without(s, n))
  <2>1. CASE n \in Members(l)
    <3>1. PICK k \in 1 .. Len(s) : n = s[k]
      BY <1>1, <2>1
    <3>2. k - 1 \in 0 .. Len(s) - 1 /\ (k - 1) + 1 = k
      BY <1>1
    <3>3. next' = [next EXCEPT ![Before(l, n)] = next[n]]
      BY <2>1 DEF Remove
    <3> QED BY <1>2, <3>1, <3>2, <3>3, TakesItem
  <2>2. CASE n \notin Members(l)
    <3>1. UNCHANGED next
      BY <2>2 DEF Remove
    <3>2. n \notin L!Seqs!ToSet(s)
      BY <1>1, <2>2 DEF L!Seqs!ToSet
    <3>3. L!Without(s, n) = s
      BY <3>2 DEF L!Without
    <3> QED BY <1>2, <3>1, <3>3, Nothing
  <2> QED BY <2>1, <2>2
<1>4. L!Remove(l, n)
  BY <1>2, <1>3 DEF Remove, Answer, Called, AsBOOL, L!Remove, L!Called, Walks
<1> QED BY <1>3, <1>4 DEF L!Next

\* The item at a position.
LEMMA RemovesAt ==
    ASSUME HeapInv, NEW l \in Lists, NEW k, RemoveAt(l, k)
    PROVE  HeapInv' /\ L!Next
<1> DEFINE s == Walks[l]
           n == s[k + 1]
<1>1. /\ Items(l) = s /\ Len(s) \in Nat
  BY ListView
<1>2. k \in 0 .. Len(s) - 1 /\ next' = [next EXCEPT ![Before(l, n)] = next[n]] /\ UNCHANGED iter
  BY <1>1 DEF RemoveAt, Answer
<1>3. HeapInv' /\ L!Becomes(l, L!Seqs!RemoveAt(s, k + 1))
  <2> HIDE DEF n
  <2>1. n = Walks[l][k + 1]
    BY DEF n
  <2> QED BY <1>2, <2>1, TakesItem
<1>4. L!RemoveAt(l, k)
  BY <1>1, <1>2, <1>3 DEF RemoveAt, Answer, Called, L!RemoveAt, L!Called, Walks
<1>5. k \in 0 .. Len([m \in Lists |-> Items(m)][l])
  BY <1>1, <1>2
<1> QED BY <1>3, <1>4, <1>5 DEF L!Next

-----------------------------------------------------------------------------
(* Through the iterator *)

\* The node after the iterator's cell is taken out by both.
LEMMA IterRemoves ==
    ASSUME HeapInv, SlistIterRemove \/ IterRemove
    PROVE  HeapInv' /\ L!Next
<1> DEFINE l == iter.list
           s == Walks[l]
           a == IterCell
           n == next[a]
<1>1. IterValid
  BY DEF SlistIterRemove, IterRemove
<1>2. /\ l \in Lists /\ L!Valid /\ L!Upcoming = n
      /\ iter \in [list : Lists, prev : Nodes \cup Lists \cup {Null}]
  BY <1>1, Iterating DEF HeapInv, IterType
<1>3. PICK i \in 0 .. Len(s) : a = At(l, s, i)
  BY <1>1, Iterating
<1>4. Len(s) \in Nat /\ \A k \in 0 .. Len(s) :
                            next[At(l, s, k)] = IF k = Len(s) THEN Null ELSE s[k + 1]
  BY <1>2, ListView
<1>5. ASSUME n # Null, Unlink(a, n)
      PROVE  /\ NextType' /\ Lays(next, Walks)'
             /\ Walks' = [Walks EXCEPT ![l] = L!Without(s, n)]
  <2>1. i \in 0 .. Len(s) - 1 /\ n = s[i + 1]
    BY <1>3, <1>4, <1>5
  <2>2. Drops(L!Without(s, n), s, i)
    BY <1>2, <2>1, WithoutDrops
  <2>3. /\ NextType' /\ Lays(next, Walks)' /\ Now(l, L!Without(s, n))
    <3> HIDE DEF a, n, s
    <3> QED BY <1>2, <1>3, <1>5, <2>1, <2>2, Unlinks DEF s
  <2> QED BY <2>3 DEF Now
<1>6. CASE SlistIterRemove /\ (iter.prev = Null \/ n = Null)
  <2>1. UNCHANGED <<next, iter>>
    BY <1>6 DEF SlistIterRemove, Answer
  <2>2. HeapInv' /\ Walks' = Walks
    BY <2>1, Standing DEF HeapInv, IterType
  <2>3. L!IterRemoveNothing
    BY <1>6, <2>1, <2>2 DEF SlistIterRemove, Answer, Called, L!IterRemoveNothing, L!Ask, L!Called, Walks
  <2> QED BY <2>2, <2>3 DEF L!Next, L!Iteration
<1>7. CASE SlistIterRemove /\ iter.prev # Null /\ n # Null
  <2>1. a = iter.prev
    BY <1>7 DEF IterCell
  <2>2. Unlink(a, n) /\ UNCHANGED iter
    BY <1>7, <2>1 DEF SlistIterRemove, Answer, Unlink
  <2>3. /\ NextType' /\ Lays(next, Walks)'
        /\ Walks' = [Walks EXCEPT ![l] = L!Without(s, n)]
    BY <1>5, <1>7, <2>2
  <2>4. last' = [op |-> "IterRemove", list |-> iter.list, node |-> Null, ret |-> n]
    BY <1>7 DEF SlistIterRemove, Answer, Called
  <2>5. L!IterRemove
    BY <1>2, <1>7, <2>2, <2>3, <2>4 DEF L!IterRemove, L!Called, Walks
  <2> QED BY <2>2, <2>3, <2>5 DEF HeapInv, IterType, L!Next, L!Iteration
<1>8. CASE IterRemove
  <2>1. Unlink(a, n) /\ n # Null
    BY <1>8 DEF IterRemove, Unlink
  <2>2. iter' \in {iter, [iter EXCEPT !.prev = iter.list]} /\ IterType'
    <3>1. iter' = [iter EXCEPT !.prev = a]
      BY <1>8 DEF IterRemove
    <3>2. a = iter.prev \/ a = iter.list
      BY DEF IterCell
    <3> QED BY <1>2, <3>1, <3>2 DEF IterType
  <2>3. /\ NextType' /\ Lays(next, Walks)'
        /\ Walks' = [Walks EXCEPT ![l] = L!Without(s, n)]
    BY <1>5, <2>1
  <2>4. last' = [op |-> "IterRemove", list |-> iter.list, node |-> Null, ret |-> n]
    BY <1>8 DEF IterRemove, Called
  <2>5. L!IterRemove
    BY <1>2, <2>1, <2>2, <2>3, <2>4 DEF L!IterRemove, L!Called, Walks
  <2> QED BY <2>2, <2>3, <2>5 DEF HeapInv, L!Next, L!Iteration
<1> QED BY <1>6, <1>7, <1>8

-----------------------------------------------------------------------------
(* Whole lists *)

\* Nodes and lists made anew.
LEMMA Inits ==
    ASSUME HeapInv
    PROVE  /\ \A n \in Nodes : NodeInit(n) => HeapInv' /\ L!Next
           /\ \A l \in Lists : EntryInit(l) => HeapInv' /\ L!Next
<1>1. ASSUME NEW n \in Nodes, NodeInit(n) PROVE HeapInv' /\ L!Next
  <2>1. /\ Loose(n) /\ L!Loose(n) /\ UNCHANGED iter /\ IterType'
        /\ next' = [next EXCEPT ![n] = Null]
    BY <1>1, LooseView DEF NodeInit, Answer, HeapInv, IterType
  <2>2. NextType'
    BY <2>1 DEF HeapInv, NextType
  <2>3. ASSUME NEW l \in Lists, NEW k \in 0 .. Len(Walks[l])
        PROVE  next'[At(l, Walks[l], k)] = next[At(l, Walks[l], k)]
    BY <2>1, CellView DEF HeapInv, NextType
  <2>4. Lays(next, Walks)' /\ Walks' = Walks
    BY <2>3, Staying
  <2>5. L!NodeInit(n)
    BY <1>1, <2>1, <2>4 DEF NodeInit, Answer, Called, L!NodeInit, L!Called, Walks
  <2> QED BY <2>1, <2>2, <2>4, <2>5 DEF HeapInv, L!Next
<1>2. ASSUME NEW l \in Lists, EntryInit(l) PROVE HeapInv' /\ L!Next
  <2>1. UNCHANGED iter /\ IterType' /\ next' = [next EXCEPT ![l] = Null]
    BY <1>2 DEF EntryInit, Answer, HeapInv, IterType
  <2>2. NextType' /\ next'[l] = Null /\ \A c \in Cells : c # l => next'[c] = next[c]
    BY <2>1 DEF HeapInv, NextType, Cells
  <2>3. Lays(next', [Walks EXCEPT ![l] = <<>>])
    BY <2>2, Forget DEF HeapInv
  <2>4. Lays(next, Walks)' /\ L!Becomes(l, <<>>)
    BY <2>1, <2>3, Becoming
  <2>5. L!EntryInit(l)
    BY <1>2, <2>4 DEF EntryInit, Answer, Called, L!EntryInit, L!Called
  <2> QED BY <2>1, <2>2, <2>4, <2>5 DEF HeapInv, L!Next
<1> QED BY <1>1, <1>2

\* One list of a layout replaced: what OthersStay says, with a name for it.
Then(x, l, t) == [x EXCEPT ![l] = t]

\* OthersStay, said with Then.
LEMMA OthersStayThen ==
    ASSUME NEW nx, NEW ny, NEW x, Lays(nx, x), NEW l \in Lists, NEW t, Chain(ny, l, t),
           \A m \in Lists \ {l} : \A k \in 0 .. Len(x[m]) :
               ny[At(m, x[m], k)] = nx[At(m, x[m], k)],
           \A m \in Lists \ {l} : \A k \in 1 .. Len(x[m]), i \in 1 .. Len(t) : x[m][k] # t[i]
    PROVE  Lays(ny, Then(x, l, t))
BY OthersStay DEF Then

\* The end of one list is linked to the head of another, which is forgotten.
LEMMA Joins ==
    ASSUME NEW nx, NEW ny, NEW x, Lays(nx, x),
           NEW to \in Lists, NEW from \in Lists, to # from,
           x[to] # <<>>,
           ny[x[to][Len(x[to])]] = nx[from],
           ny[from] = Null,
           \A c \in Cells : c # from /\ c # x[to][Len(x[to])] => ny[c] = nx[c]
    PROVE  Lays(ny, [x EXCEPT ![to] = @ \o x[from], ![from] = <<>>])
<1> DEFINE s == x[to]
           r == x[from]
           t == s \o r
           nz == [c \in Cells |-> IF c = from THEN Null ELSE nx[c]]
           z == [x EXCEPT ![from] = <<>>]
<1>1. /\ s \in Seq(Nodes) /\ r \in Seq(Nodes) /\ Len(s) \in Nat /\ Len(r) \in Nat
      /\ Len(s) # 0 /\ Len(s) \in 1 .. Len(s) /\ Len(s) \in 0 .. Len(s)
      /\ At(to, s, Len(s)) = s[Len(s)]
      /\ x \in [Lists -> Seq(Nodes)]
  BY DEF Lays, At
<1>2. /\ from \in Cells /\ nz[from] = Null
      /\ \A c \in Cells : c # from => nz[c] = nx[c]
  BY DEF Cells
<1>3. Lays(nz, z)
  <2> HIDE DEF nz
  <2> QED BY <1>2, Forget
<1>4. /\ z \in [Lists -> Seq(Nodes)] /\ z[from] = <<>>
      /\ \A m \in Lists \ {from} : z[m] = x[m]
  BY <1>1
<1>5. /\ t \in Seq(Nodes) /\ Len(t) = Len(s) + Len(r)
      /\ \A k \in 1 .. Len(s) + Len(r) :
            t[k] = IF k <= Len(s) THEN s[k] ELSE r[k - Len(s)]
  BY <1>1, ConcatProperties
<1>6. /\ \A k \in 0 .. Len(s) : nx[At(to, s, k)] = IF k = Len(s) THEN Null ELSE s[k + 1]
      /\ \A k \in 0 .. Len(r) : nx[At(from, r, k)] = IF k = Len(r) THEN Null ELSE r[k + 1]
      /\ \A i, j \in 1 .. Len(s) : s[i] = s[j] => i = j
      /\ \A i, j \in 1 .. Len(r) : r[i] = r[j] => i = j
      /\ \A i \in 1 .. Len(s), j \in 1 .. Len(r) : s[i] # r[j]
      /\ \A i \in 1 .. Len(s) : s[i] \in Nodes
      /\ \A i \in 1 .. Len(r) : r[i] \in Nodes
      /\ Nodes \cap Lists = {}
  <2>1. Chain(nx, to, s) /\ Chain(nx, from, r)
    BY DEF Lays
  <2>2. \A i \in 1 .. Len(s), j \in 1 .. Len(r) : s[i] # r[j]
    BY DEF Lays
  <2>3. /\ \A i \in 1 .. Len(s) : s[i] \in Nodes
        /\ \A i \in 1 .. Len(r) : r[i] \in Nodes
    BY <1>1
  <2> HIDE DEF s, r
  <2> QED BY <2>1, <2>2, <2>3, ListAssumption DEF Chain
<1>7. /\ \A k \in 0 .. Len(s) - 1 : ny[At(to, s, k)] = s[k + 1]
      /\ ny[s[Len(s)]] = IF Len(r) = 0 THEN Null ELSE r[1]
      /\ \A k \in 1 .. Len(r) : ny[r[k]] = IF k = Len(r) THEN Null ELSE r[k + 1]
  <2>1. ASSUME NEW k \in 0 .. Len(s) - 1 PROVE ny[At(to, s, k)] = s[k + 1]
    <3>1. k \in 0 .. Len(s) /\ k # Len(s) /\ (k = 0 \/ k \in 1 .. Len(s))
      BY <1>1
    <3>2. At(to, s, k) \in Cells /\ At(to, s, k) # from /\ At(to, s, k) # s[Len(s)]
      BY <3>1, <1>1, <1>6 DEF At, Cells
    <3> QED BY <3>1, <3>2, <1>6
  <2>2. ny[s[Len(s)]] = IF Len(r) = 0 THEN Null ELSE r[1]
    <3>1. nx[At(from, r, 0)] = IF 0 = Len(r) THEN Null ELSE r[0 + 1]
      BY <1>1, <1>6
    <3> QED BY <3>1 DEF At
  <2>3. ASSUME NEW k \in 1 .. Len(r)
        PROVE  ny[r[k]] = IF k = Len(r) THEN Null ELSE r[k + 1]
    <3>1. k \in 0 .. Len(r) /\ At(from, r, k) = r[k]
      BY DEF At
    <3>2. r[k] \in Cells /\ r[k] # from /\ r[k] # s[Len(s)]
      BY <1>1, <1>6 DEF Cells
    <3> QED BY <3>1, <3>2, <1>6
  <2> QED BY <2>1, <2>2, <2>3
<1> HIDE DEF s, r, t, z, nz
<1>8. Chain(ny, to, t)
  <2>1. ASSUME NEW i \in 1 .. Len(t), NEW j \in 1 .. Len(t), t[i] = t[j] PROVE i = j
    <3> DEFINE ii == i - Len(s)
               jj == j - Len(s)
    <3>1. /\ i <= Len(s) => i \in 1 .. Len(s) /\ t[i] = s[i]
          /\ ~(i <= Len(s)) => ii \in 1 .. Len(r) /\ t[i] = r[ii]
          /\ j <= Len(s) => j \in 1 .. Len(s) /\ t[j] = s[j]
          /\ ~(j <= Len(s)) => jj \in 1 .. Len(r) /\ t[j] = r[jj]
      BY <1>1, <1>5
    <3>2. ii = jj => i = j
      BY <1>1, <1>5
    <3> HIDE DEF ii, jj
    <3> QED BY <1>6, <2>1, <3>1, <3>2
  <2>2. ASSUME NEW k \in 0 .. Len(t)
        PROVE  ny[At(to, t, k)] = IF k = Len(t) THEN Null ELSE t[k + 1]
    <3>1. CASE k < Len(s)
      <4>1. /\ k \in 0 .. Len(s) - 1 /\ k # Len(t) /\ k + 1 \in 1 .. Len(s) + Len(r)
            /\ k + 1 <= Len(s)
            /\ k # 0 => k \in 1 .. Len(s) + Len(r) /\ k <= Len(s)
        BY <1>1, <1>5, <3>1
      <4>2. At(to, t, k) = At(to, s, k) /\ t[k + 1] = s[k + 1]
        BY <1>5, <4>1 DEF At
      <4> QED BY <1>7, <4>1, <4>2
    <3>2. CASE k = Len(s)
      <4>1. At(to, t, k) = s[Len(s)]
        BY <1>1, <1>5, <3>2 DEF At
      <4>2. Len(r) # 0 => t[k + 1] = r[1]
        <5>1. Len(r) # 0 => k + 1 \in 1 .. Len(s) + Len(r) /\ ~(k + 1 <= Len(s)) /\ (k + 1) - Len(s) = 1
          BY <1>1, <3>2
        <5> QED BY <1>5, <5>1
      <4>3. k = Len(t) <=> Len(r) = 0
        BY <1>1, <1>5, <3>2
      <4> QED BY <1>7, <4>1, <4>2, <4>3
    <3>3. CASE k > Len(s)
      <4> DEFINE j == k - Len(s)
      <4>0. Len(s) \in Nat /\ Len(r) \in Nat /\ Len(t) = Len(s) + Len(r) /\ k \in Nat /\ k <= Len(t)
        BY <1>1, <1>5
      <4>1. /\ j \in 1 .. Len(r) /\ k \in 1 .. Len(s) + Len(r) /\ k # 0 /\ ~(k <= Len(s))
            /\ k = Len(t) <=> j = Len(r)
            /\ k # Len(t) => /\ k + 1 \in 1 .. Len(s) + Len(r) /\ ~(k + 1 <= Len(s))
                             /\ (k + 1) - Len(s) = j + 1
        BY <4>0, <3>3
      <4>2. At(to, t, k) = r[j]
        BY <1>5, <4>1 DEF At
      <4>3. k # Len(t) => t[k + 1] = r[j + 1]
        BY <1>5, <4>1
      <4> HIDE DEF j
      <4> QED BY <1>7, <4>1, <4>2, <4>3
    <3> QED BY <1>1, <1>5, <3>1, <3>2, <3>3
  <2> QED BY <1>5, <2>1, <2>2 DEF Chain
<1>9. ASSUME NEW m \in Lists \ {to}, NEW k \in 0 .. Len(z[m])
      PROVE  ny[At(m, z[m], k)] = nz[At(m, z[m], k)]
  <2>1. CASE m = from
    <3>1. k = 0 /\ At(m, z[m], k) = from
      BY <1>4, <1>9, <2>1 DEF At
    <3> QED BY <1>2, <3>1
  <2>2. CASE m # from
    <3>1. z[m] = x[m] /\ At(m, x[m], k) \in Cells
      BY <1>4, <2>2, Apart
    <3>2. At(m, x[m], k) # At(from, x[from], 0) /\ At(m, x[m], k) # At(to, x[to], Len(s))
      <4>1. 0 \in 0 .. Len(x[from]) /\ Len(s) \in 0 .. Len(x[to])
        BY <1>1 DEF r, s
      <4>2. m \in Lists \ {from} /\ m \in Lists \ {to}
        BY <2>2
      <4> QED BY <3>1, <4>1, <4>2, Apart
    <3>3. At(m, x[m], k) # from /\ At(m, x[m], k) # s[Len(s)]
      BY <1>1, <3>2 DEF At, s
    <3> QED BY <1>2, <3>1, <3>3 DEF s
  <2> QED BY <2>1, <2>2
<1>10. ASSUME NEW m \in Lists \ {to}, NEW k \in 1 .. Len(z[m]), NEW i \in 1 .. Len(t)
       PROVE  z[m][k] # t[i]
  <2>1. m # from /\ z[m] = x[m]
    BY <1>4, <1>10
  <2>2. (\E j \in 1 .. Len(s) : t[i] = s[j]) \/ (\E j \in 1 .. Len(r) : t[i] = r[j])
    <3>1. CASE i <= Len(s)
      BY <1>1, <1>5, <3>1
    <3>2. CASE ~(i <= Len(s))
      <4>1. i - Len(s) \in 1 .. Len(r) /\ t[i] = r[i - Len(s)]
        BY <1>1, <1>5, <3>2
      <4> QED BY <4>1
    <3> QED BY <3>1, <3>2
  <2> QED BY <2>1, <2>2 DEF Lays, s, r
<1>11. Lays(ny, Then(z, to, t))
  <2>1. \A m \in Lists \ {to} : \A k \in 0 .. Len(z[m]) :
           ny[At(m, z[m], k)] = nz[At(m, z[m], k)]
    BY <1>9
  <2>2. \A m \in Lists \ {to} : \A k \in 1 .. Len(z[m]), i \in 1 .. Len(t) : z[m][k] # t[i]
    BY <1>10
  <2> QED BY <1>3, <1>8, <2>1, <2>2, OthersStayThen
<1>12. Then(z, to, t) = [x EXCEPT ![to] = @ \o x[from], ![from] = <<>>]
  BY <1>1 DEF z, t, s, r, Then
<1> QED BY <1>11, <1>12

\* Two lists become one.
LEMMA Merges ==
    ASSUME HeapInv, NEW to \in Lists, NEW from \in Lists, Merge(to, from)
    PROVE  HeapInv' /\ L!Next
<1> DEFINE s == Walks[to]
           e == s[Len(s)]
           y == [Walks EXCEPT ![to] = @ \o Walks[from], ![from] = <<>>]
<1>1. to # from /\ next[to] # Null /\ UNCHANGED iter /\ IterType'
  BY DEF Merge, Answer, HeapInv, IterType
<1>2. s # <<>> /\ LastCell(to) = e /\ e \in Nodes
  BY <1>1, ListView DEF At
<1>3. next' = [next EXCEPT ![e] = next[from], ![from] = Null]
  BY <1>2 DEF Merge
<1>4. e \in Cells /\ from \in Cells /\ e # from
  BY <1>2, ListAssumption DEF Cells
<1>5. next \in [Cells -> Nodes \cup {Null}]
  BY DEF HeapInv, NextType
<1>6. NextType'
  BY <1>3, <1>4, <1>5 DEF NextType
<1>7. /\ next'[e] = next[from] /\ next'[from] = Null
      /\ \A c \in Cells : c # from /\ c # e => next'[c] = next[c]
  BY <1>3, <1>4, <1>5
<1>8. Lays(next', y)
  BY <1>1, <1>2, <1>7, Joins DEF HeapInv
<1>9. Walks' = y
  BY <1>8, WalksAre
<1>10. L!Merge(to, from)
  BY <1>1, <1>9 DEF Merge, Answer, Called, L!Merge, L!Called, Walks
<1> QED BY <1>1, <1>6, <1>8, <1>9, <1>10 DEF HeapInv, L!Next

-----------------------------------------------------------------------------
(* Theorems *)

\* Every step keeps the cells in order and is one of ListSeq.
LEMMA Steps ==
    ASSUME HeapInv, [Next]_vars
    PROVE  HeapInv' /\ [L!Next]_(L!vars)
<1>1. CASE \E n \in Nodes : NodeInit(n)
  BY <1>1, Inits
<1>2. ASSUME NEW l \in Lists,
             \/ EntryInit(l) \/ RemoveTail(l) \/ Question(l) \/ ListGetLast(l)
             \/ \E op \in {"Dequeue", "RemoveHead"} : Dequeue(l, op)
             \/ \E other \in Lists : Merge(l, other)
             \/ \E k \in 0 .. Cardinality(Nodes) : RemoveAt(l, k)
             \/ \E n \in Nodes : \/ PutHead(l, n) \/ PutTail(l, n)
                                 \/ EnqueuePriority(l, n) \/ Remove(l, n)
      PROVE  HeapInv' /\ L!Next
  <2>1. CASE EntryInit(l)
    BY <2>1, Inits
  <2>2. CASE RemoveTail(l)
    BY <2>2, RemovesTail
  <2>3. CASE Question(l) \/ ListGetLast(l)
    BY <2>3, QuestionAsks
  <2>4. CASE \E op \in {"Dequeue", "RemoveHead"} : Dequeue(l, op)
    BY <2>4, Dequeues
  <2>5. CASE \E other \in Lists : Merge(l, other)
    BY <2>5, Merges
  <2>6. CASE \E k \in 0 .. Cardinality(Nodes) : RemoveAt(l, k)
    BY <2>6, RemovesAt
  <2>7. ASSUME NEW n \in Nodes, PutHead(l, n) \/ PutTail(l, n) PROVE HeapInv' /\ L!Next
    BY <2>7, PutsAtEnds
  <2>8. ASSUME NEW n \in Nodes, EnqueuePriority(l, n) PROVE HeapInv' /\ L!Next
    BY <2>8, Enqueues
  <2>9. ASSUME NEW n \in Nodes, Remove(l, n) PROVE HeapInv' /\ L!Next
    BY <2>9, Removes
  <2> QED BY <1>2, <2>1, <2>2, <2>3, <2>4, <2>5, <2>6, <2>7, <2>8, <2>9
<1>3. CASE \E a, n \in Nodes : InsertAfter(a, n)
  BY <1>3, InsertsAfter
<1>4. CASE HasNext \/ IterNext
  BY <1>4, IterationMoves
<1>5. CASE SlistIterRemove \/ IterRemove
  BY <1>5, IterRemoves
<1>6. CASE UNCHANGED vars
  <2>1. UNCHANGED <<next, iter, last>>
    BY <1>6 DEF vars
  <2>2. HeapInv' /\ Walks' = Walks
    BY <2>1, Standing DEF HeapInv, IterType
  <2> QED BY <2>1, <2>2 DEF L!vars, Walks
<1> QED BY <1>1, <1>2, <1>3, <1>4, <1>5, <1>6 DEF Next

\* What the invariant says of a list that is walked.
LEMMA Chained == HeapInv => Chains
<1> SUFFICES ASSUME HeapInv, NEW l \in Lists
             PROVE  /\ \A i, j \in DOMAIN Items(l) : Items(l)[i] = Items(l)[j] => i = j
                    /\ next[LastCell(l)] = Null
                    /\ \A m \in Lists \ {l} : Members(l) \cap Members(m) = {}
  BY DEF Chains
<1>1. /\ Items(l) = Walks[l] /\ DOMAIN Walks[l] = 1 .. Len(Walks[l])
      /\ \A i, j \in 1 .. Len(Walks[l]) : Walks[l][i] = Walks[l][j] => i = j
      /\ next[LastCell(l)] = Null
  BY ListView
<1>2. \A m \in Lists \ {l} : Members(l) \cap Members(m) = {}
  BY ListView DEF HeapInv, Lays
<1> QED BY <1>1, <1>2

\* In every execution each list ends, runs in no circle, and shares no node
\* with another, although a node taken out keeps its link.
THEOREM SListChains == Spec => []Chains
<1>1. HeapInv /\ [Next]_vars => HeapInv'
  BY Steps
<1> QED BY <1>1, Chained, HeapStarts, PTL DEF Spec, Init

\* Every call of cdsl_slist.c, in every execution, does to the sequence of a
\* list what ListSeq says, and answers accordingly.
THEOREM SListIsListSeq == Spec => ListSpec
<1>1. HeapInv /\ [Next]_vars => HeapInv' /\ [L!Next]_(L!vars)
  BY Steps
<1> QED BY <1>1, HeapStarts, PTL DEF Spec, Init, ListSpec, L!Spec
=============================================================================
