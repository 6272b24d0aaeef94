----------------------------- MODULE DListProofs -----------------------------
(***************************************************************************)
(* cdsl_dlist.c implements ListSeq, and its lists can always be walked     *)
(* both ways: for every number of nodes and lists and every order of       *)
(* priority.  What has to be shown beyond the links forward is that every  *)
(* call leaves the second fields of the cells of a list, head included, as *)
(* the ring backwards, except the head's while the list is empty.          *)
(***************************************************************************)
EXTENDS DList, ListHeapProofs

\* The cell whose second field leads to the cell before the item k + 1.
From(l, s, k) == IF k = Len(s) THEN l ELSE s[k + 1]

\* The second fields pv lead back through the items s of l.
Back(pv, l, s) == s # <<>> => \A k \in 0 .. Len(s) : pv[From(l, s, k)] = At(l, s, k)

Backs(pv, x) == \A l \in Lists : Back(pv, l, x[l])

PrevType == prev \in [Cells -> Cells \cup {Null}]

\* The invariant of both directions.
DInv == HeapInv /\ PrevType /\ Backs(prev, Walks)

\* A node n is linked in between a and b, or p becomes what is before b.
Between(a, n, b) == /\ next' = [next EXCEPT ![n] = next[a], ![a] = n]
                    /\ prev' = [prev EXCEPT ![n] = a, ![b] = n]
Closes(b, p) == prev' = [prev EXCEPT ![b] = p]

\* It takes the place of o between a and b.
Swaps(a, o, n, b) == /\ next' = [next EXCEPT ![n] = b, ![a] = n, ![o] = Null]
                     /\ prev' = [prev EXCEPT ![n] = a, ![b] = n, ![o] = Null]

-----------------------------------------------------------------------------
(* The way back *)

\* The cells in which the way back is kept are cells of the list.
LEMMA FromView ==
    ASSUME NEW nx, NEW x, Lays(nx, x), NEW l \in Lists
    PROVE  LET s == x[l]
           IN  /\ s \in Seq(Nodes) /\ Len(s) \in Nat
               /\ \A j, k \in 1 .. Len(s) : s[j] = s[k] => j = k
               /\ \A k \in 1 .. Len(s) : s[k] \in Nodes /\ s[k] \in Cells /\ s[k] # l
               /\ \A k \in 0 .. Len(s) : From(l, s, k) \in Cells
               /\ \A j, k \in 0 .. Len(s) : From(l, s, j) = From(l, s, k) => j = k
               /\ l \in Cells /\ l \notin Nodes
<1> DEFINE s == x[l]
<1>1. /\ s \in Seq(Nodes) /\ Len(s) \in Nat
      /\ \A j, k \in 1 .. Len(s) : s[j] = s[k] => j = k
  BY DEF Lays, Chain
<1>2. l \in Cells /\ l \notin Nodes
  BY ListAssumption DEF Cells
<1>3. \A k \in 1 .. Len(s) : s[k] \in Nodes /\ s[k] \in Cells /\ s[k] # l
  BY <1>1, <1>2 DEF Cells
<1>4. \A k \in 0 .. Len(s) : k = Len(s) \/ k + 1 \in 1 .. Len(s)
  BY <1>1
<1>5. \A k \in 0 .. Len(s) : From(l, s, k) \in Cells
  BY <1>2, <1>3, <1>4 DEF From
<1>6. ASSUME NEW j \in 0 .. Len(s), NEW k \in 0 .. Len(s), From(l, s, j) = From(l, s, k)
      PROVE  j = k
  <2>1. j = Len(s) <=> k = Len(s)
    BY <1>3, <1>4, <1>6 DEF From
  <2>2. j # Len(s) => j + 1 = k + 1
    BY <1>1, <1>4, <1>6, <2>1 DEF From
  <2> QED BY <2>1, <2>2
<1> QED BY <1>1, <1>2, <1>3, <1>5, <1>6

\* One list gets another way back, and the others keep theirs.
LEMMA BackStays ==
    ASSUME NEW nx, NEW x, Lays(nx, x), NEW pv, NEW pw, Backs(pv, x), NEW l \in Lists,
           NEW t, Back(pw, l, t),
           \A m \in Lists \ {l} : \A k \in 0 .. Len(x[m]) : pw[At(m, x[m], k)] = pv[At(m, x[m], k)]
    PROVE  Backs(pw, [x EXCEPT ![l] = t])
<1> SUFFICES ASSUME NEW m \in Lists \ {l} PROVE Back(pw, m, x[m])
  BY DEF Backs, Lays
<1> DEFINE s == x[m]
<1>1. s \in Seq(Nodes) /\ Len(s) \in Nat /\ Back(pv, m, s)
  BY DEF Lays, Backs
<1>2. SUFFICES ASSUME s # <<>>, NEW k \in 0 .. Len(s)
               PROVE  pw[From(m, s, k)] = At(m, s, k)
  BY DEF Back
<1>3. \E j \in 0 .. Len(s) : From(m, s, k) = At(m, s, j)
  <2>1. CASE k = Len(s)
    <3>1. 0 \in 0 .. Len(s) /\ At(m, s, 0) = m
      BY <1>1 DEF At
    <3> QED BY <2>1, <3>1 DEF From
  <2>2. CASE k # Len(s)
    <3>1. k + 1 \in 0 .. Len(s) /\ k + 1 # 0
      BY <1>1, <2>2
    <3>2. At(m, s, k + 1) = s[k + 1]
      BY <3>1 DEF At
    <3> QED BY <2>2, <3>1, <3>2 DEF From
  <2> QED BY <2>1, <2>2
<1>4. pw[From(m, s, k)] = pv[From(m, s, k)]
  BY <1>3
<1> QED BY <1>1, <1>2, <1>4 DEF Back

\* A node linked in after the first i items.
LEMMA BackIn ==
    ASSUME NEW nx, NEW x, Lays(nx, x), NEW pv, NEW pw, Backs(pv, x), NEW l \in Lists,
           NEW n \in Nodes, \A m \in Lists : \A k \in 1 .. Len(x[m]) : x[m][k] # n,
           NEW i \in 0 .. Len(x[l]), NEW t, Adds(t, x[l], i, n),
           pw[n] = At(l, x[l], i), pw[From(l, x[l], i)] = n,
           \A c \in Cells : c # n /\ c # From(l, x[l], i) => pw[c] = pv[c]
    PROVE  Backs(pw, [x EXCEPT ![l] = t])
<1> DEFINE s == x[l]
           b == From(l, s, i)
<1>1. /\ s \in Seq(Nodes) /\ Len(s) \in Nat
      /\ \A k \in 1 .. Len(s) : s[k] \in Nodes
      /\ \A k \in 0 .. Len(s) : From(l, s, k) \in Cells
      /\ \A j, k \in 0 .. Len(s) : From(l, s, j) = From(l, s, k) => j = k
      /\ l \in Cells /\ l \notin Nodes
      /\ \A k \in 1 .. Len(s) : s[k] # n
  BY FromView
<1>2. /\ t \in Seq(Nodes) /\ Len(t) = Len(s) + 1
      /\ \A k \in 1 .. Len(t) : t[k] = IF k <= i THEN s[k] ELSE IF k = i + 1 THEN n ELSE s[k - 1]
  BY DEF Adds
<1>3. \A k \in 0 .. Len(s) : From(l, s, k) # n
  <2>1. \A k \in 0 .. Len(s) : k = Len(s) \/ k + 1 \in 1 .. Len(s)
    BY <1>1
  <2> QED BY <1>1, <2>1 DEF From
<1>4. s # <<>> => \A k \in 0 .. Len(s) : pv[From(l, s, k)] = At(l, s, k)
  BY DEF Backs, Back
<1>5. ASSUME NEW k \in 0 .. Len(t) PROVE pw[From(l, t, k)] = At(l, t, k)
  <2>1. CASE ~(k >= i)
    <3>1. /\ k + 1 \in 1 .. Len(t) /\ k + 1 <= i /\ k # Len(t) /\ k # Len(s)
          /\ k \in 0 .. Len(s) /\ s # <<>> /\ k # i
          /\ k # 0 => k \in 1 .. Len(t) /\ k <= i
      BY <1>1, <1>2, <2>1
    <3>2. From(l, t, k) = From(l, s, k) /\ At(l, t, k) = At(l, s, k)
      BY <1>2, <3>1 DEF From, At
    <3>3. pw[From(l, s, k)] = pv[From(l, s, k)]
      BY <1>1, <1>3, <3>1
    <3> QED BY <1>4, <3>1, <3>2, <3>3
  <2>2. CASE k = i
    <3>1. /\ k + 1 \in 1 .. Len(t) /\ ~(k + 1 <= i) /\ k # Len(t)
          /\ k # 0 => k \in 1 .. Len(t) /\ k <= i
      BY <1>1, <1>2, <2>2
    <3>2. From(l, t, k) = n /\ At(l, t, k) = At(l, s, i)
      BY <1>2, <2>2, <3>1 DEF From, At
    <3> QED BY <3>2
  <2>3. CASE k = i + 1
    <3>1. /\ k \in 1 .. Len(t) /\ ~(k <= i) /\ k # 0
          /\ k = Len(t) <=> i = Len(s)
          /\ k # Len(t) => k + 1 \in 1 .. Len(t) /\ ~(k + 1 <= i) /\ k + 1 # i + 1
                           /\ (k + 1) - 1 = i + 1
      BY <1>1, <1>2, <2>3
    <3>2. At(l, t, k) = n
      BY <1>2, <2>3, <3>1 DEF At
    <3>3. From(l, t, k) = b
      BY <1>2, <3>1 DEF From
    <3> QED BY <3>2, <3>3
  <2>4. CASE k > i + 1
    <3> DEFINE j == k - 1
    <3>1. /\ k \in 1 .. Len(t) /\ ~(k <= i) /\ k # i + 1 /\ k # 0
          /\ j \in 0 .. Len(s) /\ j # i /\ j # 0 /\ s # <<>>
          /\ k = Len(t) <=> j = Len(s)
          /\ k # Len(t) => k + 1 \in 1 .. Len(t) /\ ~(k + 1 <= i) /\ k + 1 # i + 1
                           /\ (k + 1) - 1 = j + 1
      BY <1>1, <1>2, <2>4
    <3>2. At(l, t, k) = At(l, s, j)
      BY <1>2, <3>1 DEF At
    <3>3. From(l, t, k) = From(l, s, j)
      BY <1>2, <3>1 DEF From
    <3> HIDE DEF j
    <3>4. pw[From(l, s, j)] = pv[From(l, s, j)]
      BY <1>1, <1>3, <3>1
    <3> QED BY <1>4, <3>1, <3>2, <3>3, <3>4
  <2> QED BY <1>1, <1>2, <2>1, <2>2, <2>3, <2>4
<1>6. ASSUME NEW m \in Lists \ {l}, NEW k \in 0 .. Len(x[m])
      PROVE  pw[At(m, x[m], k)] = pv[At(m, x[m], k)]
  <2>1. At(m, x[m], k) \in Cells /\ \A j \in 0 .. Len(s) : At(m, x[m], k) # At(l, s, j)
    BY Apart
  <2>2. At(m, x[m], k) # n
    <3>1. k = 0 \/ k \in 1 .. Len(x[m])
      BY DEF Lays
    <3> QED BY <3>1, ListAssumption DEF At
  <2>3. \E j \in 0 .. Len(s) : b = At(l, s, j)
    <3>1. CASE i = Len(s)
      <4>1. 0 \in 0 .. Len(s) /\ At(l, s, 0) = l
        BY <1>1 DEF At
      <4> QED BY <3>1, <4>1 DEF From
    <3>2. CASE i # Len(s)
      <4>1. i + 1 \in 0 .. Len(s) /\ i + 1 # 0
        BY <1>1, <3>2
      <4> QED BY <3>2, <4>1 DEF From, At
    <3> QED BY <3>1, <3>2
  <2> QED BY <2>1, <2>2, <2>3
<1>7. Back(pw, l, t)
  BY <1>5 DEF Back
<1> QED BY <1>6, <1>7, BackStays

\* The item after the first i is linked out.
LEMMA BackOut ==
    ASSUME NEW nx, NEW x, Lays(nx, x), NEW pv, NEW pw, Backs(pv, x), NEW l \in Lists,
           NEW i \in 0 .. Len(x[l]) - 1, NEW t, Drops(t, x[l], i),
           t # <<>> => pw[From(l, x[l], i + 1)] = At(l, x[l], i),
           \A c \in Cells : c # x[l][i + 1] /\ c # From(l, x[l], i + 1) => pw[c] = pv[c]
    PROVE  Backs(pw, [x EXCEPT ![l] = t])
<1> DEFINE s == x[l]
<1>1. /\ s \in Seq(Nodes) /\ Len(s) \in Nat
      /\ \A k \in 1 .. Len(s) : s[k] \in Nodes
      /\ \A k \in 0 .. Len(s) : From(l, s, k) \in Cells
      /\ \A j, k \in 0 .. Len(s) : From(l, s, j) = From(l, s, k) => j = k
  BY FromView
<1>2. /\ t \in Seq(Nodes) /\ Len(t) = Len(s) - 1
      /\ \A k \in 1 .. Len(t) : t[k] = IF k <= i THEN s[k] ELSE s[k + 1]
  BY DEF Drops
<1>3. /\ i \in 0 .. Len(s) /\ i + 1 \in 0 .. Len(s) /\ i # Len(s) /\ s # <<>>
      /\ s[i + 1] = From(l, s, i)
  BY <1>1 DEF From
<1>4. \A k \in 0 .. Len(s) : pv[From(l, s, k)] = At(l, s, k)
  BY <1>3 DEF Backs, Back
<1>5. \A k \in 0 .. Len(s) : k # i /\ k # i + 1 => pw[From(l, s, k)] = At(l, s, k)
  BY <1>1, <1>3, <1>4
<1>6. ASSUME t # <<>>, NEW k \in 0 .. Len(t) PROVE pw[From(l, t, k)] = At(l, t, k)
  <2>1. CASE ~(k >= i)
    <3>1. /\ k + 1 \in 1 .. Len(t) /\ k + 1 <= i /\ k # Len(t) /\ k # Len(s)
          /\ k \in 0 .. Len(s) /\ k # i /\ k # i + 1
          /\ k # 0 => k \in 1 .. Len(t) /\ k <= i
      BY <1>1, <1>2, <2>1
    <3>2. From(l, t, k) = From(l, s, k) /\ At(l, t, k) = At(l, s, k)
      BY <1>2, <3>1 DEF From, At
    <3> QED BY <1>5, <3>1, <3>2
  <2>2. CASE k = i
    <3>1. /\ k = Len(t) <=> i + 1 = Len(s)
          /\ k # Len(t) => k + 1 \in 1 .. Len(t) /\ ~(k + 1 <= i)
          /\ k # 0 => k \in 1 .. Len(t) /\ k <= i
      BY <1>1, <1>2, <2>2
    <3>2. From(l, t, k) = From(l, s, i + 1) /\ At(l, t, k) = At(l, s, i)
      BY <1>2, <2>2, <3>1 DEF From, At
    <3> QED BY <1>6, <3>2
  <2>3. CASE k > i
    <3> DEFINE j == k + 1
    <3>1. /\ k \in 1 .. Len(t) /\ ~(k <= i) /\ k # 0
          /\ j \in 0 .. Len(s) /\ j # i /\ j # i + 1 /\ j # 0
          /\ k = Len(t) <=> j = Len(s)
          /\ k # Len(t) => j \in 1 .. Len(t) /\ ~(j <= i)
      BY <1>1, <1>2, <2>3
    <3>2. At(l, t, k) = At(l, s, j)
      BY <1>2, <3>1 DEF At
    <3>3. From(l, t, k) = From(l, s, j)
      BY <1>2, <3>1 DEF From
    <3> HIDE DEF j
    <3> QED BY <1>5, <3>1, <3>2, <3>3
  <2> QED BY <1>1, <1>2, <2>1, <2>2, <2>3
<1>7. ASSUME NEW m \in Lists \ {l}, NEW k \in 0 .. Len(x[m])
      PROVE  pw[At(m, x[m], k)] = pv[At(m, x[m], k)]
  <2>1. At(m, x[m], k) \in Cells /\ \A j \in 0 .. Len(s) : At(m, x[m], k) # At(l, s, j)
    BY Apart
  <2>2. s[i + 1] = At(l, s, i + 1)
    BY <1>1, <1>3 DEF At
  <2>3. \E j \in 0 .. Len(s) : From(l, s, i + 1) = At(l, s, j)
    <3>1. CASE i + 1 = Len(s)
      <4>1. 0 \in 0 .. Len(s) /\ At(l, s, 0) = l
        BY <1>1 DEF At
      <4> QED BY <3>1, <4>1 DEF From
    <3>2. CASE i + 1 # Len(s)
      <4> DEFINE j == (i + 1) + 1
      <4>1. j \in 0 .. Len(s) /\ j # 0
        BY <1>1, <3>2
      <4>2. From(l, s, i + 1) = At(l, s, j)
        BY <3>2, <4>1 DEF From, At
      <4> QED BY <4>1, <4>2
    <3> QED BY <3>1, <3>2
  <2> QED BY <1>3, <2>1, <2>2, <2>3
<1>8. Back(pw, l, t)
  BY <1>6 DEF Back
<1> QED BY <1>7, <1>8, BackStays

-----------------------------------------------------------------------------
(* Steps of both directions *)

\* One list and its cells, both ways.
LEMMA WayView ==
    ASSUME DInv, NEW l \in Lists
    PROVE  LET s == Walks[l]
           IN  /\ s \in Seq(Nodes) /\ Len(s) \in Nat
               /\ NotEmpty(l) <=> s # <<>>
               /\ \A k \in 1 .. Len(s) : NotLast(s[k]) <=> k # Len(s)
               /\ s # <<>> => prev[l] = s[Len(s)] /\ prev[l] = At(l, s, Len(s))
               /\ \A k \in 1 .. Len(s) : prev[s[k]] = At(l, s, k - 1)
               /\ \A k \in 0 .. Len(s) : From(l, s, k) = IF k = Len(s) THEN l
                                                         ELSE next[At(l, s, k)]
               /\ \A k \in 0 .. Len(s) : From(l, s, k) \in Cells
               /\ \A k \in 0 .. Len(s) : At(l, s, k) = l <=> k = 0
<1> DEFINE s == Walks[l]
<1>1. /\ s \in Seq(Nodes) /\ Len(s) \in Nat
      /\ \A k \in 1 .. Len(s) : s[k] \in Nodes
      /\ next[l] = Null <=> s = <<>>
      /\ \A k \in 0 .. Len(s) : next[At(l, s, k)] = IF k = Len(s) THEN Null ELSE s[k + 1]
  BY ListView DEF DInv
<1>2. /\ \A k \in 0 .. Len(s) : From(l, s, k) \in Cells
      /\ \A k \in 1 .. Len(s) : s[k] # l
  BY FromView DEF DInv, HeapInv
<1>3. ASSUME NEW k \in 1 .. Len(s) PROVE NotLast(s[k]) <=> k # Len(s)
  <2>1. k \in 0 .. Len(s) /\ At(l, s, k) = s[k]
    BY DEF At
  <2>2. k # Len(s) => k + 1 \in 1 .. Len(s)
    BY <1>1
  <2>3. Null \notin Nodes
    BY ListAssumption
  <2> QED BY <1>1, <2>1, <2>2, <2>3 DEF NotLast
<1>4. s # <<>> => \A k \in 0 .. Len(s) : prev[From(l, s, k)] = At(l, s, k)
  BY DEF DInv, Backs, Back
<1>5. s # <<>> => prev[l] = At(l, s, Len(s)) /\ At(l, s, Len(s)) = s[Len(s)]
  <2>1. Len(s) \in 0 .. Len(s) /\ From(l, s, Len(s)) = l /\ (s # <<>> => Len(s) # 0)
    BY <1>1 DEF From
  <2> QED BY <1>4, <2>1 DEF At
<1>6. ASSUME NEW k \in 1 .. Len(s) PROVE prev[s[k]] = At(l, s, k - 1)
  <2>1. k - 1 \in 0 .. Len(s) /\ k - 1 # Len(s) /\ (k - 1) + 1 = k /\ s # <<>>
    BY <1>1
  <2>2. From(l, s, k - 1) = s[k]
    BY <2>1 DEF From
  <2> QED BY <1>4, <2>1, <2>2
<1>7. \A k \in 0 .. Len(s) : From(l, s, k) = IF k = Len(s) THEN l ELSE next[At(l, s, k)]
  BY <1>1 DEF From
<1>8. \A k \in 0 .. Len(s) : At(l, s, k) = l <=> k = 0
  <2>1. \A k \in 0 .. Len(s) : k # 0 => k \in 1 .. Len(s)
    OBVIOUS
  <2> QED BY <1>2, <2>1 DEF At
<1> QED BY <1>1, <1>2, <1>3, <1>5, <1>6, <1>7, <1>8 DEF NotEmpty

\* A loose node is put in between two cells that follow each other.
LEMMA PutBetween ==
    ASSUME DInv, NEW l \in Lists, NEW n \in Nodes, Loose(n),
           NEW i \in 0 .. Len(Walks[l]), NEW t, Adds(t, Walks[l], i, n),
           NEW a, a = At(l, Walks[l], i), NEW b, b = From(l, Walks[l], i),
           Between(a, n, b), UNCHANGED iter
    PROVE  DInv' /\ L!Becomes(l, t)
<1> DEFINE s == Walks[l]
<1>1. HeapInv /\ Lays(next, Walks) /\ Backs(prev, Walks) /\ prev \in [Cells -> Cells \cup {Null}]
      /\ next \in [Cells -> Nodes \cup {Null}] /\ n \in Cells
  BY DEF DInv, HeapInv, NextType, PrevType, Cells
<1>2. a \in Cells /\ a # n /\ next[a] \in Nodes \cup {Null}
  BY <1>1, CellView
<1>3. \A m \in Lists : \A k \in 1 .. Len(Walks[m]) : Walks[m][k] # n
  BY <1>1, LooseView
<1>4. b \in Cells /\ b # n
  <2>1. i = Len(s) \/ i + 1 \in 1 .. Len(s)
    BY <1>1, FromView
  <2> QED BY <1>1, <1>3, <2>1, FromView DEF From
<1>5. NextType' /\ PrevType'
  BY <1>1, <1>2, <1>4 DEF Between, NextType, PrevType
<1>6. Lays(next, Walks)' /\ Now(l, t) /\ L!Becomes(l, t)
  <2>1. /\ next'[a] = n /\ next'[n] = next[a]
        /\ \A c \in Cells : c # n /\ c # a => next'[c] = next[c]
    BY <1>1, <1>2 DEF Between
  <2> QED BY <1>1, <2>1, PutIn
<1>7. Backs(prev', [Walks EXCEPT ![l] = t])
  <2>1. /\ prev'[n] = a /\ prev'[b] = n
        /\ \A c \in Cells : c # n /\ c # b => prev'[c] = prev[c]
    BY <1>1, <1>4 DEF Between
  <2>2. /\ prev'[n] = At(l, Walks[l], i) /\ prev'[From(l, Walks[l], i)] = n
        /\ \A c \in Cells : c # n /\ c # From(l, Walks[l], i) => prev'[c] = prev[c]
    BY <2>1
  <2> QED BY <1>1, <1>3, <2>2, BackIn
<1>8. Backs(prev, Walks)'
  BY <1>6, <1>7 DEF Now
<1> QED BY <1>1, <1>5, <1>6, <1>8 DEF DInv, HeapInv, IterType

\* An item is taken out, and what follows it gets the cell before it.
LEMMA TakeBetween ==
    ASSUME DInv, NEW l \in Lists, NEW i \in 0 .. Len(Walks[l]) - 1,
           NEW t, Drops(t, Walks[l], i),
           NEW a, a = At(l, Walks[l], i), NEW n, n = Walks[l][i + 1],
           NEW b, b = From(l, Walks[l], i + 1), NEW p \in Cells \cup {Null},
           Len(Walks[l]) # 1 => p = a,
           Unlink(a, n), Closes(b, p), UNCHANGED iter
    PROVE  DInv' /\ L!Becomes(l, t)
<1> DEFINE s == Walks[l]
<1>1. HeapInv /\ Lays(next, Walks) /\ Backs(prev, Walks) /\ prev \in [Cells -> Cells \cup {Null}]
  BY DEF DInv, HeapInv, PrevType
<1>2. Len(s) \in Nat /\ i + 1 \in 0 .. Len(s)
  BY <1>1, FromView
<1>3. b \in Cells
  BY <1>1, <1>2, FromView
<1>4. PrevType'
  BY <1>1, <1>3 DEF Closes, PrevType
<1>5. NextType' /\ Lays(next, Walks)' /\ Now(l, t) /\ L!Becomes(l, t)
  BY <1>1, Unlinks
<1>6. Backs(prev', [Walks EXCEPT ![l] = t])
  <2>1. /\ prev'[b] = p
        /\ \A c \in Cells : c # n /\ c # b => prev'[c] = prev[c]
    BY <1>1, <1>3 DEF Closes
  <2>2. t # <<>> => p = a
    <3>1. t \in Seq(Nodes) /\ Len(t) = Len(s) - 1
      BY DEF Drops
    <3>2. t # <<>> => Len(t) # 0
      BY <3>1, EmptySeq
    <3>3. Len(t) # 0 => Len(s) # 1
      BY <1>2, <3>1
    <3> QED BY <3>2, <3>3
  <2> QED BY <1>1, <2>1, <2>2, BackOut
<1>7. Backs(prev, Walks)'
  BY <1>5, <1>6 DEF Now
<1> QED BY <1>1, <1>4, <1>5, <1>7 DEF DInv, HeapInv, IterType

-----------------------------------------------------------------------------
(* Putting in *)

\* PutHead and PutTail.
LEMMA PutsAtEnds ==
    ASSUME DInv, NEW l \in Lists, NEW n \in Nodes, PutHead(l, n) \/ PutTail(l, n)
    PROVE  DInv' /\ L!Next
<1> DEFINE s == Walks[l]
<1>1. /\ HeapInv
      /\ s \in Seq(Nodes) /\ Len(s) \in Nat
      /\ NotEmpty(l) <=> s # <<>>
      /\ s # <<>> => prev[l] = At(l, s, Len(s))
      /\ next[At(l, s, Len(s))] = Null
      /\ From(l, s, 0) = IF Len(s) = 0 THEN l ELSE next[At(l, s, 0)]
      /\ From(l, s, Len(s)) = l
  BY WayView, ListView DEF DInv
<1>2. /\ 0 \in 0 .. Len(s) /\ Len(s) \in 0 .. Len(s) /\ At(l, s, 0) = l
      /\ s = <<>> <=> Len(s) = 0
  BY <1>1, EmptySeq DEF At
<1>3. Loose(n) /\ L!Loose(n) /\ UNCHANGED iter
  BY <1>1, LooseView DEF PutHead, PutTail, Answer
<1>4. CASE PutHead(l, n)
  <2> DEFINE b == IF NotEmpty(l) THEN next[l] ELSE l
  <2>1. Between(l, n, b)
    BY <1>4 DEF PutHead, Between
  <2>2. b = From(l, s, 0) /\ l = At(l, s, 0)
    BY <1>1, <1>2
  <2>3. Adds(<<n>> \o s, s, 0, n)
    BY <1>1, Added
  <2> HIDE DEF b
  <2>4. DInv' /\ L!Becomes(l, <<n>> \o s)
    BY <1>2, <1>3, <2>1, <2>2, <2>3, PutBetween
  <2>5. L!PutHead(l, n)
    BY <1>3, <1>4, <2>4 DEF PutHead, Answer, Called, L!PutHead, L!Called, Walks
  <2> QED BY <2>4, <2>5 DEF L!Next
<1>5. CASE PutTail(l, n)
  <2> DEFINE a == IF NotEmpty(l) THEN prev[l] ELSE l
  <2>1. a = At(l, s, Len(s)) /\ next[a] = Null
    BY <1>1, <1>2
  <2>2. a \in Cells /\ a # n /\ n \in Cells
    BY <1>1, <1>2, <1>3, <2>1, CellView DEF Cells
  <2>3. next \in [Cells -> Nodes \cup {Null}]
    BY <1>1 DEF HeapInv, NextType
  <2>4. next' = [next EXCEPT ![a] = n, ![n] = Null] /\ prev' = [prev EXCEPT ![n] = a, ![l] = n]
    BY <1>5 DEF PutTail
  <2> HIDE DEF a
  <2>5. Between(a, n, l)
    BY <2>1, <2>2, <2>3, <2>4 DEF Between
  <2>6. Adds(Append(s, n), s, Len(s), n)
    BY <1>1, Added
  <2>7. DInv' /\ L!Becomes(l, Append(s, n))
    BY <1>1, <1>2, <1>3, <2>1, <2>5, <2>6, PutBetween
  <2>8. L!PutTail(l, n)
    BY <1>3, <1>5, <2>7 DEF PutTail, Answer, Called, L!PutTail, L!Called, L!Position, Walks
  <2> QED BY <2>7, <2>8 DEF L!Next
<1> QED BY <1>4, <1>5

\* By priority, into a list that is not empty.
LEMMA Enqueues ==
    ASSUME DInv, NEW l \in Lists, NEW n \in Nodes, EnqueuePriority(l, n)
    PROVE  DInv' /\ L!Next
<1> DEFINE s == Walks[l]
           c == FirstBeaten(l, n)
           end == LastCell(l)
<1>1. /\ HeapInv
      /\ s \in Seq(Nodes) /\ Len(s) \in Nat
      /\ LastCell(l) = At(l, s, Len(s)) /\ next[At(l, s, Len(s))] = Null
      /\ \A k \in 1 .. Len(s) : prev[s[k]] = At(l, s, k - 1)
      /\ \A k \in 0 .. Len(s) : next[At(l, s, k)] = IF k = Len(s) THEN Null ELSE s[k + 1]
  BY WayView, ListView DEF DInv
<1>2. Loose(n) /\ L!Loose(n) /\ UNCHANGED iter
  BY <1>1, LooseView DEF EnqueuePriority, Answer
<1>3. next \in [Cells -> Nodes \cup {Null}] /\ n \in Cells
  BY <1>1 DEF HeapInv, NextType, Cells
<1>4. \A i \in 0 .. Len(s) : At(l, s, i) \in Cells /\ At(l, s, i) # n
  BY <1>1, <1>2, CellView
<1>5. ASSUME NEW i \in 0 .. Len(s), NEW a, a = At(l, s, i), NEW b, b = From(l, s, i),
             Between(a, n, b),
             \A j \in 1 .. i : Prio[s[j]] >= Prio[n],
             i + 1 <= Len(s) => Prio[n] > Prio[s[i + 1]]
      PROVE  DInv' /\ L!Next
  <2> DEFINE t == L!Seqs!InsertAt(s, i + 1, n)
  <2>1. Adds(t, s, i, n)
    BY <1>1, Added
  <2>2. DInv' /\ L!Becomes(l, t)
    <3> HIDE DEF t
    <3> QED BY <1>2, <1>5, <2>1, PutBetween
  <2> DEFINE p == i + 1
  <2>3. /\ p \in 1 .. Len(s) + 1
        /\ \A j \in 1 .. p - 1 : Prio[s[j]] >= Prio[n]
        /\ p <= Len(s) => Prio[n] > Prio[s[p]]
        /\ L!Becomes(l, L!Seqs!InsertAt(s, p, n))
    <3>1. p - 1 = i
      OBVIOUS
    <3>2. p \in 1 .. Len(s) + 1
      BY <1>1
    <3> QED BY <1>5, <2>2, <3>1, <3>2
  <2>4. L!EnqueuePriority(l, n)
    <3> HIDE DEF p
    <3> QED BY <1>2, <2>3
            DEF EnqueuePriority, Answer, Called, L!EnqueuePriority, L!Called, Walks
  <2> QED BY <2>2, <2>4 DEF L!Next
<1>6. CASE c # Null
  <2>1. PICK i \in 1 .. Len(s) : /\ c = s[i] /\ Prio[n] > Prio[s[i]]
                                 /\ \A j \in 1 .. i - 1 : Prio[s[j]] >= Prio[n]
    BY <1>1, <1>6, BeatenView
  <2> DEFINE k == i - 1
             a == prev[c]
  <2>2. k \in 0 .. Len(s) /\ k + 1 = i /\ k # Len(s)
    BY <1>1
  <2>3. a = At(l, s, k) /\ next[a] = c /\ c = From(l, s, k)
    BY <1>1, <2>1, <2>2 DEF From
  <2>4. next' = [next EXCEPT ![a] = n, ![n] = c] /\ prev' = [prev EXCEPT ![n] = a, ![c] = n]
    BY <1>6 DEF EnqueuePriority
  <2>5. /\ \A j \in 1 .. k : Prio[s[j]] >= Prio[n]
        /\ k + 1 <= Len(s) => Prio[n] > Prio[s[k + 1]]
    BY <2>1, <2>2
  <2> HIDE DEF a, s, c, k
  <2>6. Between(a, n, c)
    <3>1. a \in Cells /\ a # n
      BY <1>4, <2>2, <2>3
    <3> QED BY <1>3, <2>3, <2>4, <3>1 DEF Between
  <2> QED BY <1>5, <2>2, <2>3, <2>5, <2>6
<1>7. CASE c = Null
  <2>1. \A j \in 1 .. Len(s) : Prio[s[j]] >= Prio[n]
    BY <1>1, <1>7, BeatenView
  <2>2. /\ Len(s) \in 0 .. Len(s) /\ ~(Len(s) + 1 <= Len(s)) /\ next[end] = Null
        /\ end = At(l, s, Len(s)) /\ l = From(l, s, Len(s))
    BY <1>1 DEF From
  <2>3. \/ next' = [next EXCEPT ![end] = n, ![n] = Null] /\ prev' = [prev EXCEPT ![n] = end, ![l] = n]
    BY <1>7 DEF EnqueuePriority
  <2>4. end \in Cells /\ end # n
    BY <1>4, <2>2
  <2> HIDE DEF s, end
  <2>5. Between(end, n, l)
    BY <1>3, <2>2, <2>3, <2>4 DEF Between
  <2> QED BY <1>5, <2>1, <2>2, <2>5
<1> QED BY <1>6, <1>7

\* A node after an item that is not the last.
LEMMA InsertsAfter ==
    ASSUME DInv, NEW a \in Nodes, NEW n \in Nodes, InsertAfter(a, n)
    PROVE  DInv' /\ L!Next
<1>1. HeapInv /\ Loose(n) /\ L!Loose(n) /\ UNCHANGED iter
  BY LooseView DEF InsertAfter, Answer, DInv
<1>2. PICK l \in Lists : \E i \in 1 .. Len(Walks[l]) : Walks[l][i] = a
  BY <1>1, LooseView DEF InsertAfter
<1> DEFINE s == Walks[l]
<1>3. PICK i \in 1 .. Len(s) : s[i] = a
  BY <1>2
<1>4. /\ s \in Seq(Nodes) /\ Len(s) \in Nat
      /\ \A j, k \in 1 .. Len(s) : s[j] = s[k] => j = k
      /\ Members(l) = {s[k] : k \in 1 .. Len(s)}
      /\ NotLast(s[i]) <=> i # Len(s)
      /\ \A k \in 0 .. Len(s) : From(l, s, k) = IF k = Len(s) THEN l ELSE next[At(l, s, k)]
  BY <1>1, ListView, WayView
<1>5. i \in 0 .. Len(s) /\ a = At(l, s, i) /\ next[a] = From(l, s, i)
  <2>1. i # Len(s)
    BY <1>3, <1>4 DEF InsertAfter
  <2>2. i \in 0 .. Len(s) /\ a = At(l, s, i)
    BY <1>3, <1>4 DEF At
  <2> QED BY <1>4, <2>1, <2>2
<1> DEFINE b == next[a]
           t == L!Seqs!InsertAt(s, i + 1, n)
<1>6. Between(a, n, b) /\ b = From(l, s, i)
  BY <1>5 DEF InsertAfter, Between
<1>7. Adds(t, s, i, n)
  BY <1>4, <1>5, Added
<1>8. DInv' /\ L!Becomes(l, t)
  <2> HIDE DEF b, t
  <2> QED BY <1>1, <1>5, <1>6, <1>7, PutBetween
<1>9. L!Index(s, a) = i /\ a \in L!Items(l)
  BY <1>1, <1>3, <1>4, IndexIs, LooseView
<1>10. L!InsertAfter(l, a, n)
  BY <1>1, <1>8, <1>9 DEF InsertAfter, Answer, Called, L!InsertAfter, L!Called, Walks
<1> QED BY <1>8, <1>10 DEF L!Next

-----------------------------------------------------------------------------
(* Taking out *)

\* A call on an empty list.
LEMMA NothingTaken ==
    ASSUME DInv, NEW l \in Lists, UNCHANGED <<next, iter>>, PrevType',
           prev' = prev \/ (Walks[l] = <<>> /\ \E p : Closes(l, p))
    PROVE  DInv' /\ L!Becomes(l, Walks[l])
<1>1. HeapInv' /\ L!Becomes(l, Walks[l])
  BY Nothing DEF DInv
<1>2. Walks' = Walks
  BY Standing DEF DInv
<1>3. Backs(prev', Walks)
  <2>1. CASE prev' = prev
    BY <2>1 DEF DInv, Backs, Back
  <2>2. CASE Walks[l] = <<>> /\ \E p : Closes(l, p)
    <3> SUFFICES ASSUME NEW m \in Lists, Walks[m] # <<>>, NEW k \in 0 .. Len(Walks[m])
                 PROVE  prev'[From(m, Walks[m], k)] = At(m, Walks[m], k)
      BY DEF Backs, Back
    <3>1. prev[From(m, Walks[m], k)] = At(m, Walks[m], k)
      BY DEF DInv, Backs, Back
    <3>2. From(m, Walks[m], k) # l /\ From(m, Walks[m], k) \in Cells
      <4>1. m # l
        BY <2>2
      <4>2. k = Len(Walks[m]) \/ k + 1 \in 1 .. Len(Walks[m])
        BY FromView DEF DInv, HeapInv
      <4>3. l \notin Nodes /\ \A j \in 1 .. Len(Walks[m]) : Walks[m][j] \in Nodes
        BY FromView DEF DInv, HeapInv
      <4>4. From(m, Walks[m], k) \in Cells
        BY FromView DEF DInv, HeapInv
      <4> QED BY <4>1, <4>2, <4>3, <4>4 DEF From
    <3> QED BY <2>2, <3>1, <3>2 DEF Closes, DInv, PrevType
  <2> QED BY <2>1, <2>2
<1> QED BY <1>1, <1>2, <1>3 DEF DInv

\* Dequeue and RemoveHead: they differ in what an empty list is left with.
LEMMA Dequeues ==
    ASSUME DInv, NEW l \in Lists, Dequeue(l) \/ RemoveHead(l)
    PROVE  DInv' /\ L!Next
<1> DEFINE s == Walks[l]
           n == next[l]
<1>1. /\ HeapInv /\ PrevType
      /\ s \in Seq(Nodes) /\ Len(s) \in Nat
      /\ n = Null <=> s = <<>>
      /\ s # <<>> => n = s[1] /\ 1 \in 1 .. Len(s)
      /\ \A k \in 1 .. Len(s) : NotLast(s[k]) <=> k # Len(s)
      /\ \A k \in 0 .. Len(s) : From(l, s, k) = IF k = Len(s) THEN l ELSE next[At(l, s, k)]
      /\ \A k \in 0 .. Len(s) : From(l, s, k) \in Cells
      /\ l \in Cells
  BY ListView, WayView DEF DInv, Cells
<1>2. UNCHANGED iter
  BY DEF Dequeue, RemoveHead, Answer
<1>3. CASE s = <<>>
  <2>1. UNCHANGED <<next, prev>>
    BY <1>1, <1>3 DEF Dequeue, RemoveHead
  <2>2. PrevType'
    BY <1>1, <2>1 DEF PrevType
  <2>3. DInv' /\ L!Becomes(l, <<>>)
    BY <1>2, <1>3, <2>1, <2>2, NothingTaken
  <2>4. \E op \in {"Dequeue", "RemoveHead"} : L!TakeHead(l, op)
    BY <1>1, <1>3, <2>3
       DEF Dequeue, RemoveHead, Answer, Called, L!TakeHead, L!HeadOf, L!Called, Walks
  <2> QED BY <2>3, <2>4 DEF L!Next
<1>4. CASE s # <<>>
  <2> DEFINE b == From(l, s, 1)
             t == Tail(s)
  <2>1. 0 \in 0 .. Len(s) - 1 /\ l = At(l, s, 0) /\ n = s[0 + 1] /\ 0 + 1 = 1
    BY <1>1, <1>4 DEF At
  <2>2. n # Null /\ (NotLast(n) <=> Len(s) # 1) /\ b \in Cells
    <3>1. 1 \in 0 .. Len(s) /\ 1 \in 1 .. Len(s) /\ n = s[1] /\ n # Null
      BY <1>1, <1>4
    <3>2. NotLast(s[1]) <=> 1 # Len(s)
      BY <1>1, <3>1
    <3> QED BY <1>1, <3>1, <3>2
  <2>3. Len(s) # 1 => b = next[n]
    <3>1. 1 \in 0 .. Len(s) /\ At(l, s, 1) = n
      BY <1>1, <1>4 DEF At
    <3> QED BY <1>1, <3>1
  <2>4. Len(s) = 1 => b = l
    BY DEF From
  <2>5. Unlink(l, n)
    BY <2>2 DEF Dequeue, RemoveHead, Unlink
  <2>6. \E p \in Cells \cup {Null} : (Len(s) # 1 => p = l) /\ Closes(b, p)
    <3>1. CASE Len(s) # 1
      <4>1. prev' = [prev EXCEPT ![b] = l]
        BY <2>2, <2>3, <3>1 DEF Dequeue, RemoveHead
      <4> QED BY <1>1, <4>1 DEF Closes
    <3>2. CASE Len(s) = 1
      <4>1. prev' = prev \/ prev' = [prev EXCEPT ![b] = Null]
        BY <2>2, <2>4, <3>2 DEF Dequeue, RemoveHead
      <4>2. prev = [prev EXCEPT ![b] = prev[b]] /\ prev[b] \in Cells \cup {Null}
        BY <1>1, <2>2 DEF PrevType
      <4> QED BY <3>2, <4>1, <4>2 DEF Closes
    <3> QED BY <3>1, <3>2
  <2>7. PICK p \in Cells \cup {Null} : (Len(s) # 1 => p = l) /\ Closes(b, p)
    BY <2>6
  <2>8. Drops(t, s, 0)
    BY <1>1, <1>4, Dropped
  <2>9. b = From(l, s, 0 + 1)
    BY <2>1
  <2> HIDE DEF b, t, n
  <2>10. DInv' /\ L!Becomes(l, t)
    BY <1>2, <2>1, <2>5, <2>7, <2>8, <2>9, TakeBetween
  <2>11. L!HeadOf(l) = n
    BY <1>1, <1>4 DEF L!HeadOf, Walks
  <2>12. \E op \in {"Dequeue", "RemoveHead"} : L!TakeHead(l, op)
    BY <1>4, <2>10, <2>11
       DEF Dequeue, RemoveHead, Answer, Called, L!TakeHead, L!Called, Walks, n, t
  <2> QED BY <2>10, <2>12 DEF L!Next
<1> QED BY <1>3, <1>4

\* The last item, of a list that is not empty.
LEMMA RemovesTail ==
    ASSUME DInv, NEW l \in Lists, RemoveTail(l)
    PROVE  DInv' /\ L!Next
<1> DEFINE s == Walks[l]
           i == Len(s) - 1
           n == prev[l]
           a == prev[n]
           p == IF a = l THEN Null ELSE a
           t == L!Seqs!Front(s)
<1>1. /\ HeapInv
      /\ s \in Seq(Nodes) /\ Len(s) \in Nat /\ s # <<>>
      /\ n = s[Len(s)] /\ n = At(l, s, Len(s))
      /\ \A k \in 1 .. Len(s) : prev[s[k]] = At(l, s, k - 1)
      /\ \A k \in 0 .. Len(s) : At(l, s, k) = l <=> k = 0
      /\ next[At(l, s, Len(s))] = Null
  BY ListView, WayView DEF DInv, RemoveTail
<1>2. i \in 0 .. Len(s) - 1 /\ i + 1 = Len(s) /\ Len(s) \in 1 .. Len(s) /\ i \in 0 .. Len(s)
  BY <1>1, EmptySeq
<1>3. a = At(l, s, i) /\ n = s[i + 1] /\ l = From(l, s, i + 1) /\ next[n] = Null
  BY <1>1, <1>2 DEF From
<1>4. Len(s) # 1 => p = a
  <2>1. At(l, s, i) = l <=> i = 0
    BY <1>1, <1>2
  <2>2. i = 0 => Len(s) = 1
    BY <1>2
  <2> QED BY <1>3, <2>1, <2>2
<1>5. a \in Cells
  BY <1>1, <1>2, <1>3, CellView
<1>6. Unlink(a, n) /\ Closes(l, p) /\ UNCHANGED iter
  BY <1>3 DEF RemoveTail, Unlink, Closes, Answer
<1>7. Drops(t, s, i)
  BY <1>1, Dropped
<1> HIDE DEF i, n, a, p, t
<1>8. p \in Cells \cup {Null}
  BY <1>5 DEF p
<1>9. DInv' /\ L!Becomes(l, t)
  BY <1>2, <1>3, <1>4, <1>6, <1>7, <1>8, TakeBetween
<1>10. L!LastOf(l) = n
  BY <1>1 DEF L!LastOf, Walks
<1>11. L!RemoveTail(l)
  BY <1>1, <1>9, <1>10 DEF RemoveTail, Answer, Called, L!RemoveTail, L!Called, Walks, n, t
<1> QED BY <1>9, <1>11 DEF L!Next

\* An item that is not the last.
LEMMA Removes ==
    ASSUME DInv, NEW l \in Lists, NEW n \in Nodes, Remove(l, n)
    PROVE  DInv' /\ L!Next
<1> DEFINE s == Walks[l]
<1>1. /\ HeapInv
      /\ s \in Seq(Nodes) /\ Len(s) \in Nat
      /\ Members(l) = {s[k] : k \in 1 .. Len(s)}
      /\ \A k \in 1 .. Len(s) : prev[s[k]] = At(l, s, k - 1)
      /\ \A k \in 1 .. Len(s) : NotLast(s[k]) <=> k # Len(s)
      /\ \A k \in 0 .. Len(s) : From(l, s, k) = IF k = Len(s) THEN l ELSE next[At(l, s, k)]
  BY ListView, WayView DEF DInv
<1>2. PICK k \in 1 .. Len(s) : n = s[k]
  BY <1>1 DEF Remove
<1> DEFINE i == k - 1
           a == prev[n]
           b == next[n]
           t == L!Without(s, n)
<1>3. i \in 0 .. Len(s) - 1 /\ i + 1 = k /\ i \in 0 .. Len(s) /\ k # Len(s) /\ Len(s) # 1
  BY <1>1, <1>2 DEF Remove
<1>4. a = At(l, s, i) /\ n = s[i + 1] /\ b = From(l, s, i + 1)
  <2>1. n = At(l, s, k) /\ k \in 0 .. Len(s)
    BY <1>2 DEF At
  <2> QED BY <1>1, <1>2, <1>3, <2>1
<1>5. a \in Cells
  BY <1>1, <1>3, <1>4, CellView
<1>6. Unlink(a, n) /\ Closes(b, a) /\ UNCHANGED iter
  BY DEF Remove, Unlink, Closes, Answer
<1>7. Drops(t, s, i)
  BY <1>1, <1>3, <1>4, WithoutDrops
<1>8. DInv' /\ L!Becomes(l, t)
  <2> HIDE DEF i, a, b, t
  <2> QED BY <1>3, <1>4, <1>5, <1>6, <1>7, TakeBetween
<1>9. n \in L!Items(l)
  BY <1>1, LooseView DEF Remove
<1>10. L!Remove(l, n)
  BY <1>8, <1>9 DEF Remove, Answer, Called, L!Remove, L!Called, Walks
<1> QED BY <1>8, <1>10 DEF L!Next

-----------------------------------------------------------------------------
(* One for another *)

\* The item after the first i is linked out, and a loose node in, in its place:
\* the replaced item is not the last.
LEMMA SwapBetween ==
    ASSUME DInv, NEW l \in Lists, NEW n \in Nodes, Loose(n),
           NEW i \in 0 .. Len(Walks[l]) - 2, NEW o, o = Walks[l][i + 1],
           NEW a, a = At(l, Walks[l], i), NEW b, b = From(l, Walks[l], i + 1),
           NEW u, Drops(u, Walks[l], i), NEW t, Adds(t, u, i, n),
           Swaps(a, o, n, b), UNCHANGED iter
    PROVE  DInv' /\ L!Becomes(l, t)
<1> DEFINE s == Walks[l]
           y == [Walks EXCEPT ![l] = u]
           nm == [next EXCEPT ![a] = b, ![o] = Null]
           pm == [prev EXCEPT ![b] = a, ![o] = Null]
<1>1. /\ HeapInv /\ Lays(next, Walks) /\ Backs(prev, Walks)
      /\ prev \in [Cells -> Cells \cup {Null}] /\ next \in [Cells -> Nodes \cup {Null}]
      /\ n \in Cells
  BY DEF DInv, HeapInv, NextType, PrevType, Cells
<1>2. /\ s \in Seq(Nodes) /\ Len(s) \in Nat
      /\ \A j, k \in 1 .. Len(s) : s[j] = s[k] => j = k
      /\ \A k \in 1 .. Len(s) : s[k] \in Nodes /\ s[k] \in Cells /\ s[k] # l
      /\ \A m \in Lists : \A k \in 1 .. Len(Walks[m]) : Walks[m][k] # n
  BY <1>1, FromView, LooseView
<1>3. /\ i \in 0 .. Len(s) /\ i \in 0 .. Len(s) - 1
      /\ i + 1 \in 1 .. Len(s) /\ i + 1 # Len(s) /\ (i + 1) + 1 \in 1 .. Len(s)
      /\ i # 0 => i \in 1 .. Len(s) /\ i # i + 1
      /\ (i + 1) + 1 # i + 1 /\ (i + 1) + 1 # i
  BY <1>2
<1>4. b = s[(i + 1) + 1]
  BY <1>3 DEF From
<1>5. /\ a \in Cells /\ a # n /\ a # o /\ a # b
      /\ o \in Cells /\ o # n /\ o # b
      /\ b \in Cells /\ b # n /\ b \in Nodes
  BY <1>1, <1>2, <1>3, <1>4, CellView DEF At
<1>6. next[o] = b
  <2>1. At(l, s, i + 1) = o /\ i + 1 \in 0 .. Len(s)
    BY <1>3 DEF At
  <2> QED BY <1>1, <1>3, <1>4, <2>1, ListView
<1>7. /\ u \in Seq(Nodes) /\ Len(u) = Len(s) - 1 /\ t \in Seq(Nodes)
      /\ \A k \in 1 .. Len(u) : u[k] = IF k <= i THEN s[k] ELSE s[k + 1]
  BY DEF Drops, Adds
<1>8. y[l] = u /\ (\A m \in Lists \ {l} : y[m] = Walks[m]) /\ [y EXCEPT ![l] = t] = [Walks EXCEPT ![l] = t]
  BY <1>1 DEF Lays
<1>9. At(l, u, i) = a /\ From(l, u, i) = b /\ i \in 0 .. Len(u)
  <2>1. /\ i # 0 => i \in 1 .. Len(u) /\ i <= i
        /\ i # Len(u) /\ i + 1 \in 1 .. Len(u) /\ ~(i + 1 <= i)
    BY <1>3, <1>7
  <2>2. At(l, u, i) = a
    BY <1>7, <2>1 DEF At
  <2> QED BY <1>4, <1>3, <1>7, <2>1, <2>2 DEF From
<1>10. \A m \in Lists : \A k \in 1 .. Len(y[m]) : y[m][k] # n
  <2>1. \A k \in 1 .. Len(u) : k \in 1 .. Len(s) /\ k + 1 \in 1 .. Len(s)
    BY <1>2, <1>7
  <2>2. \A k \in 1 .. Len(u) : u[k] # n
    BY <1>2, <1>7, <2>1
  <2> HIDE DEF y
  <2> QED BY <1>2, <1>8, <2>2
<1>11. Lays(nm, y)
  <2>1. /\ nm[a] = next[o]
        /\ \A c \in Cells : c # o /\ c # a => nm[c] = next[c]
    BY <1>1, <1>5, <1>6
  <2>2. /\ nm[At(l, Walks[l], i)] = next[Walks[l][i + 1]]
        /\ \A c \in Cells : c # Walks[l][i + 1] /\ c # At(l, Walks[l], i) => nm[c] = next[c]
    BY <2>1
  <2> HIDE DEF nm
  <2> QED BY <1>1, <1>3, <2>2, LinkOut
<1>12. Backs(pm, y)
  <2>1. /\ pm[b] = a
        /\ \A c \in Cells : c # o /\ c # b => pm[c] = prev[c]
    BY <1>1, <1>5
  <2>2. /\ pm[From(l, Walks[l], i + 1)] = At(l, Walks[l], i)
        /\ \A c \in Cells : c # Walks[l][i + 1] /\ c # From(l, Walks[l], i + 1) => pm[c] = prev[c]
    BY <2>1
  <2> HIDE DEF pm
  <2> QED BY <1>1, <1>3, <2>2, BackOut
<1>13. Lays(next', [y EXCEPT ![l] = t])
  <2>1. /\ next'[a] = n /\ next'[n] = nm[a]
        /\ \A c \in Cells : c # n /\ c # a => next'[c] = nm[c]
    BY <1>1, <1>5 DEF Swaps
  <2> HIDE DEF nm, y
  <2>2. /\ next'[At(l, y[l], i)] = n /\ next'[n] = nm[At(l, y[l], i)]
        /\ \A c \in Cells : c # n /\ c # At(l, y[l], i) => next'[c] = nm[c]
    BY <1>8, <1>9, <2>1
  <2>3. i \in 0 .. Len(y[l]) /\ Adds(t, y[l], i, n)
    BY <1>8, <1>9
  <2> QED BY <1>10, <1>11, <2>2, <2>3, LinkIn
<1>14. Backs(prev', [y EXCEPT ![l] = t])
  <2>1. /\ prev'[n] = a /\ prev'[b] = n
        /\ \A c \in Cells : c # n /\ c # b => prev'[c] = pm[c]
    BY <1>1, <1>5 DEF Swaps
  <2>2. /\ prev'[n] = At(l, y[l], i) /\ prev'[From(l, y[l], i)] = n
        /\ \A c \in Cells : c # n /\ c # From(l, y[l], i) => prev'[c] = pm[c]
    BY <1>8, <1>9, <2>1
  <2>3. i \in 0 .. Len(y[l]) /\ Adds(t, y[l], i, n)
    BY <1>8, <1>9
  <2> HIDE DEF nm, pm, y
  <2> QED BY <1>10, <1>11, <1>12, <2>2, <2>3, BackIn
<1>15. NextType' /\ PrevType'
  BY <1>1, <1>5 DEF Swaps, NextType, PrevType
<1>16. Lays(next', [Walks EXCEPT ![l] = t]) /\ Backs(prev', [Walks EXCEPT ![l] = t])
  <2> HIDE DEF y
  <2> QED BY <1>8, <1>13, <1>14
<1>17. Lays(next, Walks)' /\ L!Becomes(l, t) /\ Now(l, t)
  BY <1>1, <1>16, Becoming, WalksAre DEF Now
<1>18. Backs(prev, Walks)'
  BY <1>16, <1>17 DEF Now
<1> QED BY <1>1, <1>15, <1>17, <1>18 DEF DInv, HeapInv, IterType

\* An item that is not the last, and the node that takes its place.
LEMMA Replaces ==
    ASSUME DInv, NEW o \in Nodes, NEW n \in Nodes, Replace(o, n)
    PROVE  DInv' /\ L!Next
<1>1. HeapInv /\ Loose(n) /\ L!Loose(n) /\ UNCHANGED iter
  BY LooseView DEF Replace, Answer, DInv
<1>2. PICK l \in Lists : \E k \in 1 .. Len(Walks[l]) : Walks[l][k] = o
  BY <1>1, LooseView DEF Replace
<1> DEFINE s == Walks[l]
<1>3. PICK k \in 1 .. Len(s) : s[k] = o
  BY <1>2
<1>4. /\ s \in Seq(Nodes) /\ Len(s) \in Nat
      /\ \A j, m \in 1 .. Len(s) : s[j] = s[m] => j = m
      /\ Members(l) = {s[m] : m \in 1 .. Len(s)}
      /\ \A m \in 1 .. Len(s) : NotLast(s[m]) <=> m # Len(s)
      /\ \A m \in 1 .. Len(s) : prev[s[m]] = At(l, s, m - 1)
      /\ \A m \in 0 .. Len(s) : From(l, s, m) = IF m = Len(s) THEN l ELSE next[At(l, s, m)]
  BY <1>1, ListView, WayView
<1> DEFINE i == k - 1
           a == prev[o]
           b == next[o]
           u == L!Seqs!RemoveAt(s, i + 1)
           t == L!Seqs!ReplaceAt(s, k, n)
<1>5. i \in 0 .. Len(s) - 2 /\ i + 1 = k /\ k # Len(s)
  BY <1>3, <1>4 DEF Replace
<1>6. a = At(l, s, i) /\ o = s[i + 1] /\ b = From(l, s, i + 1)
  <2>1. o = At(l, s, k) /\ k \in 0 .. Len(s)
    BY <1>3, <1>4 DEF At
  <2> QED BY <1>3, <1>4, <1>5, <2>1
<1>7. Drops(u, s, i)
  <2>1. i \in 0 .. Len(s) - 1
    BY <1>4, <1>5
  <2> QED BY <1>4, <2>1, Dropped
<1>8. Adds(t, u, i, n)
  <2>1. /\ u \in Seq(Nodes) /\ Len(u) = Len(s) - 1
        /\ \A m \in 1 .. Len(u) : u[m] = IF m <= i THEN s[m] ELSE s[m + 1]
    BY <1>7 DEF Drops
  <2> HIDE DEF u
  <2>2. /\ t \in Seq(Nodes) /\ Len(t) = Len(s)
        /\ \A m \in 1 .. Len(s) : t[m] = IF m = k THEN n ELSE s[m]
    BY <1>4 DEF L!Seqs!ReplaceAt
  <2> HIDE DEF t
  <2>3. ASSUME NEW m \in 1 .. Len(t)
        PROVE  t[m] = IF m <= i THEN u[m] ELSE IF m = i + 1 THEN n ELSE u[m - 1]
    <3>1. CASE m <= i
      <4>1. m \in 1 .. Len(u) /\ m \in 1 .. Len(s) /\ m # k
        BY <1>4, <1>5, <2>1, <2>2, <3>1
      <4> QED BY <2>1, <2>2, <3>1, <4>1
    <3>2. CASE m = i + 1
      BY <1>4, <1>5, <2>2, <3>2
    <3>3. CASE m > i + 1
      <4>1. m - 1 \in 1 .. Len(u) /\ ~(m - 1 <= i) /\ (m - 1) + 1 = m /\ m # k
        BY <1>4, <1>5, <2>1, <2>2, <3>3
      <4>2. u[m - 1] = s[m]
        BY <2>1, <4>1
      <4> QED BY <1>5, <2>2, <3>3, <4>1, <4>2
    <3> QED BY <1>5, <2>2, <3>1, <3>2, <3>3
  <2> QED BY <1>4, <2>1, <2>2, <2>3 DEF Adds
<1>9. Swaps(a, o, n, b)
  BY DEF Replace, Swaps
<1>10. DInv' /\ L!Becomes(l, t)
  <2> HIDE DEF i, a, b, u, t
  <2> QED BY <1>1, <1>5, <1>6, <1>7, <1>8, <1>9, SwapBetween
<1>11. L!Index(s, o) = k /\ o \in L!Items(l)
  BY <1>1, <1>3, <1>4, IndexIs, LooseView
<1>12. L!Replace(l, o, n)
  BY <1>1, <1>10, <1>11 DEF Replace, Answer, Called, L!Replace, L!Called, Walks
<1> QED BY <1>10, <1>12 DEF L!Next

-----------------------------------------------------------------------------
(* The whole library *)

\* Nodes and lists made anew.
LEMMA Inits ==
    ASSUME DInv
    PROVE  /\ \A n \in Nodes : NodeInit(n) => DInv' /\ L!Next
           /\ \A l \in Lists : EntryInit(l) => DInv' /\ L!Next
<1>1. /\ HeapInv /\ Lays(next, Walks) /\ Backs(prev, Walks)
      /\ prev \in [Cells -> Cells \cup {Null}] /\ next \in [Cells -> Nodes \cup {Null}]
  BY DEF DInv, HeapInv, NextType, PrevType
<1>2. ASSUME NEW n \in Nodes, NodeInit(n) PROVE DInv' /\ L!Next
  <2>1. /\ Loose(n) /\ L!Loose(n) /\ UNCHANGED iter /\ IterType'
        /\ next' = [next EXCEPT ![n] = Null] /\ prev' = [prev EXCEPT ![n] = Null]
    BY <1>1, <1>2, LooseView DEF NodeInit, Answer, HeapInv, IterType
  <2>2. NextType' /\ PrevType'
    BY <1>1, <2>1 DEF NextType, PrevType
  <2>3. ASSUME NEW l \in Lists, NEW k \in 0 .. Len(Walks[l])
        PROVE  next'[At(l, Walks[l], k)] = next[At(l, Walks[l], k)]
    BY <1>1, <2>1, CellView
  <2>4. Lays(next, Walks)' /\ Walks' = Walks
    BY <1>1, <2>3, Staying
  <2>5. Backs(prev', Walks)
    <3>1. ASSUME NEW l \in Lists, NEW k \in 0 .. Len(Walks[l])
          PROVE  From(l, Walks[l], k) \in Cells /\ From(l, Walks[l], k) # n
      <4>1. k = Len(Walks[l]) \/ k + 1 \in 1 .. Len(Walks[l])
        BY <1>1, FromView
      <4>2. l # n /\ From(l, Walks[l], k) \in Cells
        BY <1>1, FromView
      <4> QED BY <1>1, <2>1, <4>1, <4>2, LooseView DEF From
    <3>2. ASSUME NEW l \in Lists, NEW k \in 0 .. Len(Walks[l])
          PROVE  prev'[From(l, Walks[l], k)] = prev[From(l, Walks[l], k)]
      BY <1>1, <2>1, <3>1
    <3> QED BY <1>1, <3>2 DEF Backs, Back
  <2>6. L!NodeInit(n)
    BY <1>2, <2>1, <2>4 DEF NodeInit, Answer, Called, L!NodeInit, L!Called, Walks
  <2> QED BY <2>1, <2>2, <2>4, <2>5, <2>6 DEF DInv, HeapInv, L!Next
<1>3. ASSUME NEW l \in Lists, EntryInit(l) PROVE DInv' /\ L!Next
  <2>1. /\ UNCHANGED iter /\ IterType'
        /\ next' = [next EXCEPT ![l] = Null] /\ prev' = [prev EXCEPT ![l] = Null]
    BY <1>1, <1>3 DEF EntryInit, Answer, HeapInv, IterType
  <2>2. /\ NextType' /\ PrevType' /\ next'[l] = Null
        /\ \A c \in Cells : c # l => next'[c] = next[c] /\ prev'[c] = prev[c]
    BY <1>1, <2>1 DEF NextType, PrevType, Cells
  <2>3. Lays(next', [Walks EXCEPT ![l] = <<>>])
    BY <1>1, <2>2, Forget
  <2>4. Lays(next, Walks)' /\ L!Becomes(l, <<>>) /\ Now(l, <<>>)
    BY <1>1, <2>1, <2>3, Becoming, WalksAre DEF Now
  <2>5. Backs(prev', [Walks EXCEPT ![l] = <<>>])
    <3>1. Back(prev', l, <<>>)
      BY DEF Back
    <3>2. ASSUME NEW m \in Lists \ {l}, NEW k \in 0 .. Len(Walks[m])
          PROVE  prev'[At(m, Walks[m], k)] = prev[At(m, Walks[m], k)]
      <4>1. 0 \in 0 .. Len(Walks[l]) /\ At(l, Walks[l], 0) = l
        BY <1>1 DEF At, Lays
      <4> QED BY <1>1, <2>2, <4>1, Apart
    <3> QED BY <1>1, <3>1, <3>2, BackStays
  <2>6. Backs(prev, Walks)'
    BY <2>4, <2>5 DEF Now
  <2>7. L!EntryInit(l)
    BY <1>3, <2>4 DEF EntryInit, Answer, Called, L!EntryInit, L!Called
  <2> QED BY <2>1, <2>2, <2>4, <2>6, <2>7 DEF DInv, HeapInv, L!Next
<1> QED BY <1>2, <1>3

\* Nothing that is only asked, and no move of the iterator, touches a cell.
LEMMA Asks ==
    ASSUME DInv
    PROVE  /\ \A l \in Lists : GetLast(l) => DInv' /\ L!Next
           /\ \A l \in Lists : (Question(l) \/ ListGetLast(l)) /\ UNCHANGED prev => DInv' /\ L!Next
           /\ (HasNext \/ IterNext) /\ UNCHANGED prev => DInv' /\ L!Next
<1>1. HeapInv
  BY DEF DInv
<1>2. ASSUME UNCHANGED <<next, prev>>, HeapInv' PROVE DInv'
  <2>1. Walks' = Walks
    BY <1>1, <1>2, Standing
  <2> QED BY <1>2, <2>1 DEF DInv, PrevType, Backs, Back
<1>3. ASSUME NEW l \in Lists, GetLast(l) PROVE DInv' /\ L!Next
  <2> DEFINE s == Walks[l]
  <2>1. UNCHANGED <<next, prev, iter>>
    BY <1>3 DEF GetLast, Ask, Answer
  <2>2. HeapInv' /\ Walks' = Walks
    BY <1>1, <2>1, Standing DEF HeapInv, IterType
  <2>3. s # <<>> /\ prev[l] = s[Len(s)]
    BY <1>3, WayView DEF GetLast
  <2>4. L!LastOf(l) = prev[l]
    BY <2>3 DEF L!LastOf, Walks
  <2>5. last' = [op |-> "GetLast", list |-> l, node |-> Null, ret |-> prev[l]]
    BY <1>3 DEF GetLast, Ask, Answer, Called
  <2>6. L!Question(l)
    BY <2>1, <2>2, <2>4, <2>5 DEF L!Question, L!Ask, L!Called, Walks
  <2> QED BY <1>2, <2>1, <2>2, <2>6 DEF L!Next
<1>4. ASSUME NEW l \in Lists, (Question(l) \/ ListGetLast(l)) /\ UNCHANGED prev
      PROVE  DInv' /\ L!Next
  <2>1. HeapInv' /\ L!Next
    BY <1>1, <1>4, QuestionAsks
  <2>2. UNCHANGED <<next, prev>>
    BY <1>4 DEF Question, Size, Contain, GetHead, IsEmpty, ListGetLast, IterInit, Ask
  <2> QED BY <1>2, <2>1, <2>2
<1>5. ASSUME (HasNext \/ IterNext) /\ UNCHANGED prev PROVE DInv' /\ L!Next
  <2>1. HeapInv' /\ L!Next
    BY <1>1, <1>5, IterationMoves
  <2>2. UNCHANGED <<next, prev>>
    BY <1>5 DEF HasNext, IterNext, Ask
  <2> QED BY <1>2, <2>1, <2>2
<1> QED BY <1>3, <1>4, <1>5

\* In the beginning all lists are empty.
LEMMA Starts == Init => DInv /\ L!Init
<1> SUFFICES ASSUME Init PROVE DInv /\ L!Init
  OBVIOUS
<1>1. HeapInv /\ L!Init
  BY HeapStarts DEF Init
<1>2. \A l \in Lists : Walks[l] = <<>>
  BY <1>1 DEF L!Init, Walks
<1>3. PrevType /\ Backs(prev, Walks)
  BY <1>2 DEF Init, PrevType, Backs, Back
<1> QED BY <1>1, <1>3 DEF DInv

\* Every step keeps both directions and is one of ListSeq.
LEMMA Steps ==
    ASSUME DInv, [Next]_vars
    PROVE  DInv' /\ [L!Next]_(L!vars)
<1>1. CASE \E n \in Nodes : NodeInit(n)
  BY <1>1, Inits
<1>2. ASSUME NEW l \in Lists,
             \/ EntryInit(l) \/ Dequeue(l) \/ RemoveHead(l) \/ RemoveTail(l) \/ GetLast(l)
             \/ (Question(l) \/ ListGetLast(l)) /\ UNCHANGED prev
             \/ \E n \in Nodes : \/ PutHead(l, n) \/ PutTail(l, n)
                                 \/ EnqueuePriority(l, n) \/ Remove(l, n)
      PROVE  DInv' /\ L!Next
  <2>1. CASE EntryInit(l)
    BY <2>1, Inits
  <2>2. CASE Dequeue(l) \/ RemoveHead(l)
    BY <2>2, Dequeues
  <2>3. CASE RemoveTail(l)
    BY <2>3, RemovesTail
  <2>4. CASE GetLast(l) \/ ((Question(l) \/ ListGetLast(l)) /\ UNCHANGED prev)
    BY <2>4, Asks
  <2>5. ASSUME NEW n \in Nodes, PutHead(l, n) \/ PutTail(l, n) PROVE DInv' /\ L!Next
    BY <2>5, PutsAtEnds
  <2>6. ASSUME NEW n \in Nodes, EnqueuePriority(l, n) PROVE DInv' /\ L!Next
    BY <2>6, Enqueues
  <2>7. ASSUME NEW n \in Nodes, Remove(l, n) PROVE DInv' /\ L!Next
    BY <2>7, Removes
  <2> QED BY <1>2, <2>1, <2>2, <2>3, <2>4, <2>5, <2>6, <2>7
<1>3. ASSUME NEW a \in Nodes, NEW n \in Nodes, InsertAfter(a, n) \/ Replace(a, n)
      PROVE  DInv' /\ L!Next
  <2>1. CASE InsertAfter(a, n)
    BY <2>1, InsertsAfter
  <2>2. CASE Replace(a, n)
    BY <2>2, Replaces
  <2> QED BY <1>3, <2>1, <2>2
<1>4. CASE (HasNext \/ IterNext) /\ UNCHANGED prev
  BY <1>4, Asks
<1>5. CASE UNCHANGED vars
  <2>1. UNCHANGED <<next, prev, iter, last>>
    BY <1>5 DEF vars
  <2>2. HeapInv' /\ Walks' = Walks
    BY <2>1, Standing DEF DInv, HeapInv, IterType
  <2> QED BY <2>1, <2>2 DEF DInv, PrevType, Backs, Back, L!vars, Walks
<1> QED BY <1>1, <1>2, <1>3, <1>4, <1>5 DEF Next

\* What the invariant says of a list that is walked.
LEMMA BothWays == DInv => TwoWays
<1> SUFFICES ASSUME DInv, NEW l \in Lists
             PROVE  /\ Holds(l, Items(l))
                    /\ \A m \in Lists \ {l} : Members(l) \cap Members(m) = {}
  BY DEF TwoWays
<1> DEFINE s == Walks[l]
<1>1. /\ Items(l) = s /\ DOMAIN s = 1 .. Len(s) /\ Len(s) \in Nat
      /\ \A i, j \in 1 .. Len(s) : s[i] = s[j] => i = j
      /\ next[l] = Null <=> s = <<>>
      /\ s # <<>> => next[l] = s[1]
      /\ \A k \in 0 .. Len(s) : next[At(l, s, k)] = IF k = Len(s) THEN Null ELSE s[k + 1]
  BY ListView DEF DInv
<1>2. /\ s # <<>> => prev[l] = s[Len(s)]
      /\ \A k \in 1 .. Len(s) : prev[s[k]] = At(l, s, k - 1)
  BY WayView
<1>3. \A i \in 1 .. Len(s) : prev[s[i]] = IF i = 1 THEN l ELSE s[i - 1]
  <2>1. \A i \in 1 .. Len(s) : i - 1 = 0 <=> i = 1
    BY <1>1
  <2> QED BY <1>2, <2>1 DEF At
<1>4. \A i \in 1 .. Len(s) : next[s[i]] = IF i = Len(s) THEN Null ELSE s[i + 1]
  <2>1. \A i \in 1 .. Len(s) : i \in 0 .. Len(s) /\ At(l, s, i) = s[i]
    BY DEF At
  <2> QED BY <1>1, <2>1
<1>5. Holds(l, s)
  BY <1>1, <1>2, <1>3, <1>4 DEF Holds
<1>6. \A m \in Lists \ {l} : Members(l) \cap Members(m) = {}
  BY ListView DEF DInv, HeapInv, Lays
<1> QED BY <1>1, <1>5, <1>6

\* In every execution each list can be walked forward and backward, from its
\* head and from its tail, and shares no node with another, although Dequeue,
\* Remove and Replace do not look after the tail.
THEOREM DListTwoWays == Spec => []TwoWays
<1>1. DInv /\ [Next]_vars => DInv'
  BY Steps
<1> QED BY <1>1, Starts, BothWays, PTL DEF Spec

\* Every call of cdsl_dlist.c, in every execution, does to the sequence of a
\* list what ListSeq says, and answers accordingly.
THEOREM DListIsListSeq == Spec => ListSpec
<1>1. DInv /\ [Next]_vars => DInv' /\ [L!Next]_(L!vars)
  BY Steps
<1> QED BY <1>1, Starts, PTL DEF Spec, ListSpec, L!Spec
=============================================================================
