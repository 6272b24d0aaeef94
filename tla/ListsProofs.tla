----------------------------- MODULE ListsProofs -----------------------------
(***************************************************************************)
(* The two list libraries together, as the run lists checks them: whichever *)
(* a program uses, its lists are ListSeq and stay walkable.                *)
(***************************************************************************)
EXTENDS MCLists, DListProofs

SP == INSTANCE SListProofs

\* The walks are one.
LEMMA OneWalk ==
   /\ S!Cardinality(Nodes) = Cardinality(Nodes)
   /\ SP!Cardinality(Nodes) = Cardinality(Nodes)
   /\ \A l : S!Items(l) = Items(l)
   /\ \A l : SP!Items(l) = Items(l)
<1>1. S!Cardinality(Nodes) = Cardinality(Nodes)
  BY DEF S!Cardinality, Cardinality
<1>2. SP!Cardinality(Nodes) = Cardinality(Nodes)
  BY DEF SP!Cardinality, Cardinality
<1>3. \A l : S!Items(l) = Items(l)
  BY DEF S!Items, Items, S!Cardinality, Cardinality
<1>4. \A l : SP!Items(l) = Items(l)
  BY DEF SP!Items, Items, SP!Cardinality, Cardinality
<1> QED BY <1>1, <1>2, <1>3, <1>4

\* The singly linked list of the run is the one proved about.
LEMMA OneLibrary == (S!Next <=> SP!Next) /\ (S!Chains <=> SP!Chains)
<1>1. S!Next <=> SP!Next
  BY DEF S!Cells, SP!Cells, S!Items, SP!Items, S!Members, SP!Members, S!Loose,
         SP!Loose, S!Beats, SP!Beats, S!LastCell, SP!LastCell, S!FirstBeaten,
         SP!FirstBeaten, S!Called, SP!Called, S!AsBOOL, SP!AsBOOL, S!Answer,
         SP!Answer, S!Ask, SP!Ask, S!Size, SP!Size, S!Contain, SP!Contain,
         S!GetHead, SP!GetHead, S!IsEmpty, SP!IsEmpty, S!ListGetLast,
         SP!ListGetLast, S!IterInit, SP!IterInit, S!IterCell, SP!IterCell,
         S!IterValid, SP!IterValid, S!HasNext, SP!HasNext, S!IterNext,
         SP!IterNext, S!Question, SP!Question, S!HeapInit, SP!HeapInit,
         S!Cardinality, SP!Cardinality, S!IsFiniteSet, SP!IsFiniteSet,
         S!Fresh, SP!Fresh, S!Before, SP!Before, S!NodeInit, SP!NodeInit,
         S!EntryInit, SP!EntryInit, S!Merge, SP!Merge, S!EnqueuePriority,
         SP!EnqueuePriority, S!InsertAfter, SP!InsertAfter, S!Dequeue,
         SP!Dequeue, S!PutHead, SP!PutHead, S!PutTail, SP!PutTail,
         S!RemoveTail, SP!RemoveTail, S!Remove, SP!Remove, S!RemoveAt,
         SP!RemoveAt, S!SlistIterRemove, SP!SlistIterRemove, S!IterRemove,
         SP!IterRemove, S!Init, SP!Init, S!Next, SP!Next, S!Chains, SP!Chains,
         S!vars, SP!vars
<1>2. S!Chains <=> SP!Chains
  BY DEF S!Cells, SP!Cells, S!Items, SP!Items, S!Members, SP!Members, S!Loose,
         SP!Loose, S!Beats, SP!Beats, S!LastCell, SP!LastCell, S!FirstBeaten,
         SP!FirstBeaten, S!Called, SP!Called, S!AsBOOL, SP!AsBOOL, S!Answer,
         SP!Answer, S!Ask, SP!Ask, S!Size, SP!Size, S!Contain, SP!Contain,
         S!GetHead, SP!GetHead, S!IsEmpty, SP!IsEmpty, S!ListGetLast,
         SP!ListGetLast, S!IterInit, SP!IterInit, S!IterCell, SP!IterCell,
         S!IterValid, SP!IterValid, S!HasNext, SP!HasNext, S!IterNext,
         SP!IterNext, S!Question, SP!Question, S!HeapInit, SP!HeapInit,
         S!Cardinality, SP!Cardinality, S!IsFiniteSet, SP!IsFiniteSet,
         S!Fresh, SP!Fresh, S!Before, SP!Before, S!NodeInit, SP!NodeInit,
         S!EntryInit, SP!EntryInit, S!Merge, SP!Merge, S!EnqueuePriority,
         SP!EnqueuePriority, S!InsertAfter, SP!InsertAfter, S!Dequeue,
         SP!Dequeue, S!PutHead, SP!PutHead, S!PutTail, SP!PutTail,
         S!RemoveTail, SP!RemoveTail, S!Remove, SP!Remove, S!RemoveAt,
         SP!RemoveAt, S!SlistIterRemove, SP!SlistIterRemove, S!IterRemove,
         SP!IterRemove, S!Init, SP!Init, S!Next, SP!Next, S!Chains, SP!Chains,
         S!vars, SP!vars
<1> QED BY <1>1, <1>2

\* The constants are what the proofs about it assume.
LEMMA OneAssumption == SP!ListAssumption
BY ListAssumption DEF SP!ListAssumption, SP!IsFiniteSet, IsFiniteSet

\* It keeps to the same promise.
LEMMA OnePromise == (SP!L!Next <=> L!Next) /\ (UNCHANGED SP!L!vars <=> UNCHANGED L!vars)
<1> USE DEF L!Items, SP!L!Items, L!Loose, SP!L!Loose, L!Index, SP!L!Index,
            L!After, SP!L!After, L!HeadOf, SP!L!HeadOf, L!LastOf, SP!L!LastOf,
            L!Called, SP!L!Called, L!Becomes, SP!L!Becomes, L!Position, SP!L!Position,
            L!Without, SP!L!Without, L!Ask, SP!L!Ask,
            L!Seqs!ToSet, SP!L!Seqs!ToSet, L!Seqs!InsertAt, SP!L!Seqs!InsertAt,
            L!Seqs!RemoveAt, SP!L!Seqs!RemoveAt, L!Seqs!ReplaceAt, SP!L!Seqs!ReplaceAt,
            L!Seqs!Front, SP!L!Seqs!Front,
            Items, SP!Items, Cardinality, SP!Cardinality
<1>1. /\ \A n : SP!L!NodeInit(n) <=> L!NodeInit(n)
      /\ \A l : SP!L!EntryInit(l) <=> L!EntryInit(l)
      /\ \A l, n : SP!L!PutHead(l, n) <=> L!PutHead(l, n)
      /\ \A l, n : SP!L!PutTail(l, n) <=> L!PutTail(l, n)
  BY DEF L!NodeInit, SP!L!NodeInit, L!EntryInit, SP!L!EntryInit,
         L!PutHead, SP!L!PutHead, L!PutTail, SP!L!PutTail
<1>2. /\ \A l, n : SP!L!EnqueuePriority(l, n) <=> L!EnqueuePriority(l, n)
      /\ \A l, a, n : SP!L!InsertAfter(l, a, n) <=> L!InsertAfter(l, a, n)
      /\ \A l, o, n : SP!L!Replace(l, o, n) <=> L!Replace(l, o, n)
      /\ \A l, m : SP!L!Merge(l, m) <=> L!Merge(l, m)
  BY DEF L!EnqueuePriority, SP!L!EnqueuePriority, L!InsertAfter, SP!L!InsertAfter,
         L!Replace, SP!L!Replace, L!Merge, SP!L!Merge
<1>3. /\ \A l, op : SP!L!TakeHead(l, op) <=> L!TakeHead(l, op)
      /\ \A l : SP!L!RemoveTail(l) <=> L!RemoveTail(l)
      /\ \A l, n : SP!L!Remove(l, n) <=> L!Remove(l, n)
      /\ \A l, k : SP!L!RemoveAt(l, k) <=> L!RemoveAt(l, k)
  BY DEF L!TakeHead, SP!L!TakeHead, L!RemoveTail, SP!L!RemoveTail,
         L!Remove, SP!L!Remove, L!RemoveAt, SP!L!RemoveAt
<1>4. \A l : SP!L!Question(l) <=> L!Question(l)
  BY DEF L!Question, SP!L!Question
<1>5. SP!L!Iteration <=> L!Iteration
  BY DEF L!Iteration, SP!L!Iteration, L!IterInit, SP!L!IterInit, L!HasNext, SP!L!HasNext,
         L!IterNext, SP!L!IterNext, L!IterRemove, SP!L!IterRemove, L!Valid, SP!L!Valid,
         L!IterRemoveNothing, SP!L!IterRemoveNothing, L!Upcoming, SP!L!Upcoming
<1>6. \A l : [m \in Lists |-> SP!Items(m)][l] = [m \in Lists |-> Items(m)][l]
  OBVIOUS
<1>7. UNCHANGED SP!L!vars <=> UNCHANGED L!vars
  BY DEF L!vars, SP!L!vars
<1>8. SP!L!Next <=> L!Next
  <2> HIDE DEF Items, SP!Items
  <2> QED BY <1>1, <1>2, <1>3, <1>4, <1>5, <1>6 DEF L!Next, SP!L!Next
<1> QED BY <1>7, <1>8

\* The invariant of the library in use: the other one leaves the cells alone.
MCInv == /\ library = "cdsl_dlist" => DInv
         /\ library = "cdsl_slist" => SP!HeapInv
         /\ library \in {"cdsl_dlist", "cdsl_slist"}

\* In the beginning all lists are empty, in either library.
LEMMA LibraryStarts == MCInit => MCInv /\ L!Init
<1> SUFFICES ASSUME MCInit PROVE MCInv /\ L!Init
  OBVIOUS
<1>1. DInv /\ L!Init
  BY Starts DEF MCInit
<1>2. HeapInit <=> SP!HeapInit
  BY DEF HeapInit, SP!HeapInit, Cells, SP!Cells
<1>3. SP!HeapInv
  BY <1>2, OneAssumption, SP!HeapStarts DEF MCInit, Init
<1> QED BY <1>1, <1>3 DEF MCInv, MCInit

\* Every step keeps the invariant and is one of ListSeq.
LEMMA LibrarySteps ==
    ASSUME MCInv, [MCNext]_<<vars, library>>
    PROVE  MCInv' /\ [L!Next]_(L!vars)
<1>1. UNCHANGED library
  BY DEF MCNext
<1>2. CASE library = "cdsl_dlist"
  <2>1. [Next]_vars
    BY <1>2 DEF MCNext
  <2>2. DInv' /\ [L!Next]_(L!vars)
    BY <1>2, <2>1, Steps DEF MCInv
  <2> QED BY <1>1, <1>2, <2>2 DEF MCInv
<1>3. CASE library = "cdsl_slist"
  <2>1. [SP!Next]_(SP!vars)
    BY <1>3, OneLibrary DEF MCNext, vars, SP!vars
  <2>2. SP!HeapInv' /\ [SP!L!Next]_(SP!L!vars)
    BY <1>3, <2>1, OneAssumption, SP!Steps DEF MCInv
  <2>3. [L!Next]_(L!vars)
    BY <2>2, OnePromise
  <2> QED BY <1>1, <1>3, <2>2, <2>3 DEF MCInv
<1> QED BY <1>2, <1>3 DEF MCInv

-----------------------------------------------------------------------------

\* A program that uses cdsl_dlist.c can walk its lists both ways, whatever calls
\* it made before.
THEOREM DoublyLinkedLists == MCSpec => []DoublyTwoWays
<1>1. MCInv => DoublyTwoWays
  BY BothWays DEF MCInv, DoublyTwoWays
<1>2. MCInv /\ [MCNext]_<<vars, library>> => MCInv'
  BY LibrarySteps
<1> QED BY <1>1, <1>2, LibraryStarts, PTL DEF MCSpec

\* Of a program that uses cdsl_slist.c every list ends, and shares no node.
THEOREM SinglyLinkedLists == MCSpec => []SinglyChains
<1>1. MCInv => SinglyChains
  <2>1. SP!HeapInv => SP!Chains
    BY OneAssumption, SP!Chained
  <2> QED BY <2>1, OneLibrary DEF MCInv, SinglyChains
<1>2. MCInv /\ [MCNext]_<<vars, library>> => MCInv'
  BY LibrarySteps
<1> QED BY <1>1, <1>2, LibraryStarts, PTL DEF MCSpec

\* Whichever library it uses, every call does to the sequence of a list what
\* ListSeq says, and answers accordingly.
THEOREM ListsAreListSeq == MCSpec => ListSpec
<1>1. MCInv /\ [MCNext]_<<vars, library>> => MCInv' /\ [L!Next]_(L!vars)
  BY LibrarySteps
<1> QED BY <1>1, LibraryStarts, PTL DEF MCSpec, ListSpec, L!Spec
=============================================================================
