---------------------------- MODULE ListHeapProofs ----------------------------
(***************************************************************************)
(* What both list libraries rest on, for every set of nodes and lists: a   *)
(* chain of links that ends is what Items finds, and linking a node in or  *)
(* out changes the sequence as ListSeq says and leaves other lists alone.  *)
(***************************************************************************)
EXTENDS ListHeap, SequenceTheorems, FiniteSetTheorems, WellFoundedInduction, TLAPS

\* The cell before the item k + 1 of a list with items s.
At(l, s, k) == IF k = 0 THEN l ELSE s[k]

\* The links nx lead from l through the items of s to the null pointer.
Chain(nx, l, s) ==
    /\ s \in Seq(Nodes)
    /\ \A i, j \in 1 .. Len(s) : s[i] = s[j] => i = j
    /\ \A k \in 0 .. Len(s) : nx[At(l, s, k)] = IF k = Len(s) THEN Null ELSE s[k + 1]

\* They do so for all lists, and no node is in two.
Lays(nx, x) ==
    /\ x \in [Lists -> Seq(Nodes)]
    /\ \A l \in Lists : Chain(nx, l, x[l])
    /\ \A l, m \in Lists : \A i \in 1 .. Len(x[l]), j \in 1 .. Len(x[m]) :
          x[l][i] = x[m][j] => l = m

\* t is s with n after the first i items, or without the item after these.
Adds(t, s, i, n) ==
    /\ t \in Seq(Nodes)
    /\ Len(t) = Len(s) + 1
    /\ \A k \in 1 .. Len(t) : t[k] = IF k <= i THEN s[k] ELSE IF k = i + 1 THEN n ELSE s[k - 1]

Drops(t, s, i) ==
    /\ t \in Seq(Nodes)
    /\ Len(t) = Len(s) - 1
    /\ \A k \in 1 .. Len(t) : t[k] = IF k <= i THEN s[k] ELSE s[k + 1]

\* What the walks find: the items of ListSeq.
Walks == [l \in Lists |-> Items(l)]

\* The list l becomes t in this step, and the others stay.
Now(l, t) == Walks' = [Walks EXCEPT ![l] = t]

\* The cell a is linked to what n is, and n may lose its link.
Unlink(a, n) == \/ next' = [next EXCEPT ![a] = next[n]]
                \/ next' = [next EXCEPT ![a] = next[n], ![n] = Null]

NextType == next \in [Cells -> Nodes \cup {Null}]
IterType == iter \in [list : Lists, prev : Nodes \cup Lists \cup {Null}]

\* The invariant of the cells and of the iterator.
HeapInv == NextType /\ IterType /\ Lays(next, Walks)

-----------------------------------------------------------------------------
(* The walk *)

\* A set of natural numbers has a least one.
LEMMA LeastNatural ==
    ASSUME NEW T, T \subseteq Nat, T # {}
    PROVE  \E x \in T : \A y \in T : ~ (y < x)
<1> DEFINE R == {p \in Nat \X Nat : p[1] < p[2]}
<1>1. IsWellFoundedOn(R, Nat)
  BY NatLessThanWellFounded DEF OpToRel
<1>2. \E x \in T : \A y \in T : ~ (<<y, x>> \in R)
  <2> HIDE DEF R
  <2> QED BY <1>1, WFMin
<1> QED BY <1>2

\* The numbers up to n.
LEMMA CountTo ==
    ASSUME NEW n \in Nat
    PROVE  IsFiniteSet(1 .. n) /\ Cardinality(1 .. n) = n
<1>1. /\ IsFiniteSet(1 .. n)
      /\ Cardinality(1 .. n) = IF 1 > n THEN 0 ELSE n - 1 + 1
  <2>1. 1 \in Int /\ n \in Int
    OBVIOUS
  <2> QED BY <2>1, FS_Interval, Zenon
<1> QED BY <1>1

\* There are not more items than nodes.
LEMMA ItemsFit ==
    ASSUME NEW s \in Seq(Nodes), \A i, j \in 1 .. Len(s) : s[i] = s[j] => i = j
    PROVE  Len(s) <= Cardinality(Nodes) /\ Cardinality(Nodes) \in Nat
<1>1. IsFiniteSet(Nodes)
  BY ListAssumption
<1>2. s \in [1 .. Len(s) -> Nodes] /\ Len(s) \in Nat
  BY LenProperties
<1>3. Cardinality(1 .. Len(s)) = Len(s) /\ IsFiniteSet(1 .. Len(s))
  BY <1>2, CountTo
<1>4. Cardinality(Nodes) \in Nat
  BY <1>1, FS_CardinalityType
<1>5. ~ Cardinality(Nodes) < Cardinality(1 .. Len(s))
  <2> SUFFICES ASSUME Cardinality(Nodes) < Cardinality(1 .. Len(s)) PROVE FALSE
    OBVIOUS
  <2>1. \E i, j \in 1 .. Len(s) : i # j /\ s[i] = s[j]
    BY <1>1, <1>2, <1>3, FS_PigeonHole
  <2> QED BY <2>1
<1> QED BY <1>2, <1>3, <1>4, <1>5

\* What Items finds is the chain.
LEMMA WalkFinds ==
    ASSUME NEW nx, NEW l \in Lists, NEW s, Chain(nx, l, s)
    PROVE  LET cell[k \in 0 .. Cardinality(Nodes) + 1] ==
                   IF k = 0 THEN l
                   ELSE IF cell[k - 1] = Null THEN Null ELSE nx[cell[k - 1]]
               size == Cardinality({k \in 1 .. Cardinality(Nodes) + 1 : cell[k] # Null})
           IN  [k \in 1 .. size |-> cell[k]] = s
<1> DEFINE N == Cardinality(Nodes)
           D == 0 .. N + 1
           Walk(g) == [k \in D |-> IF k = 0 THEN l
                                   ELSE IF g[k - 1] = Null THEN Null ELSE nx[g[k - 1]]]
           W == [k \in D |-> IF k = 0 THEN l ELSE IF k \in 1 .. Len(s) THEN s[k] ELSE Null]
           C == CHOOSE g : g = Walk(g)
<1> SUFFICES [k \in 1 .. Cardinality({k \in 1 .. N + 1 : C[k] # Null}) |-> C[k]] = s
  OBVIOUS
<1>1. /\ s \in Seq(Nodes)
      /\ \A i, j \in 1 .. Len(s) : s[i] = s[j] => i = j
      /\ \A k \in 0 .. Len(s) : nx[At(l, s, k)] = IF k = Len(s) THEN Null ELSE s[k + 1]
  BY DEF Chain
<1>2. Len(s) <= N /\ N \in Nat /\ Len(s) \in Nat /\ s \in [1 .. Len(s) -> Nodes]
  BY <1>1, ItemsFit, LenProperties
<1>3. l # Null /\ Null \notin Nodes
  BY ListAssumption
<1>4. W = Walk(W)
  <2> SUFFICES ASSUME NEW k \in D, k # 0
               PROVE  W[k] = IF W[k - 1] = Null THEN Null ELSE nx[W[k - 1]]
    OBVIOUS
  <2>1. k \in 1 .. N + 1 /\ k - 1 \in D
    BY <1>2
  <2>2. CASE k <= Len(s) + 1
    <3>1. W[k - 1] = At(l, s, k - 1) /\ W[k - 1] # Null
      <4>1. k = 1 \/ (k - 1 \in 1 .. Len(s) /\ s[k - 1] \in Nodes)
        BY <1>2, <2>1, <2>2
      <4> QED BY <1>2, <1>3, <2>1, <4>1 DEF At
    <3>2. W[k] = IF k - 1 = Len(s) THEN Null ELSE s[k]
      BY <1>2, <2>1, <2>2
    <3>3. nx[At(l, s, k - 1)] = IF k - 1 = Len(s) THEN Null ELSE s[k]
      <4>1. k - 1 \in 0 .. Len(s) /\ (k - 1) + 1 = k
        BY <1>2, <2>1, <2>2
      <4> QED BY <1>1, <4>1
    <3> HIDE DEF W
    <3> QED BY <3>1, <3>2, <3>3
  <2>3. CASE k > Len(s) + 1
    BY <1>2, <2>1, <2>3
  <2> QED BY <2>1, <2>2, <2>3, <1>2
<1>5. C = Walk(C)
  BY <1>4
<1>6. C = W
  <2> DEFINE T == {k \in D : C[k] # W[k]}
  <2> HIDE DEF C, W
  <2>1. DOMAIN C = D /\ C = [k \in D |-> C[k]]
    BY <1>5
  <2>2. W = [k \in D |-> W[k]]
    BY DEF W
  <2>3. T = {}
    <3> SUFFICES ASSUME T # {} PROVE FALSE
      OBVIOUS
    <3>1. D \subseteq Nat
      BY <1>2
    <3>2. PICK x \in T : \A y \in T : ~ (y < x)
      BY <3>1, LeastNatural
    <3>3. x \in D /\ C[x] # W[x]
      BY <3>2
    <3>4. x # 0
      BY <1>5, <1>4, <3>3
    <3>5. x - 1 \in D /\ x - 1 < x
      BY <3>3, <3>4, <1>2
    <3>6. C[x - 1] = W[x - 1]
      BY <3>2, <3>5
    <3>7. /\ C[x] = IF C[x - 1] = Null THEN Null ELSE nx[C[x - 1]]
          /\ W[x] = IF W[x - 1] = Null THEN Null ELSE nx[W[x - 1]]
      BY <1>4, <1>5, <3>3, <3>4
    <3> QED BY <3>3, <3>6, <3>7
  <2> QED BY <2>1, <2>2, <2>3
<1>7. {k \in 1 .. N + 1 : W[k] # Null} = 1 .. Len(s)
  BY <1>2, <1>3
<1>8. Cardinality(1 .. Len(s)) = Len(s)
  BY <1>2, CountTo
<1>9. [k \in 1 .. Len(s) |-> W[k]] = s
  BY <1>2
<1> HIDE DEF W, C
<1> QED BY <1>6, <1>7, <1>8, <1>9

\* Lists are laid out as Items says, before and after a step.
LEMMA ItemsAre ==
    ASSUME NEW x
    PROVE  /\ Lays(next, x) => \A l \in Lists : Items(l) = x[l]
           /\ Lays(next', x) => \A l \in Lists : Items(l)' = x[l]
<1>1. ASSUME Lays(next, x), NEW l \in Lists PROVE Items(l) = x[l]
  BY <1>1, WalkFinds DEF Lays, Items
<1>2. ASSUME Lays(next', x), NEW l \in Lists PROVE Items(l)' = x[l]
  BY <1>2, WalkFinds DEF Lays, Items
<1> QED BY <1>1, <1>2

-----------------------------------------------------------------------------
(* Linking in and out *)

\* The cells of different lists differ.
LEMMA Apart ==
    ASSUME NEW nx, NEW x, Lays(nx, x), NEW l \in Lists, NEW m \in Lists \ {l}
    PROVE  /\ \A k \in 0 .. Len(x[m]) : At(m, x[m], k) \in Cells
           /\ \A k \in 0 .. Len(x[m]), i \in 0 .. Len(x[l]) :
                 At(m, x[m], k) # At(l, x[l], i)
<1>1. /\ x[l] \in Seq(Nodes) /\ x[m] \in Seq(Nodes) /\ Nodes \cap Lists = {}
      /\ \A i \in 1 .. Len(x[l]), k \in 1 .. Len(x[m]) : x[l][i] # x[m][k]
  BY ListAssumption DEF Lays
<1>2. /\ \A i \in 1 .. Len(x[l]) : x[l][i] \in Nodes
      /\ \A k \in 1 .. Len(x[m]) : x[m][k] \in Nodes
  BY <1>1
<1>3. /\ \A i \in 0 .. Len(x[l]) : i = 0 \/ i \in 1 .. Len(x[l])
      /\ \A k \in 0 .. Len(x[m]) : k = 0 \/ k \in 1 .. Len(x[m])
  BY <1>1
<1> QED BY <1>1, <1>2, <1>3 DEF At, Cells

\* One list gets other items, of which no other list has one, and the links of
\* the other lists stay.
LEMMA OthersStay ==
    ASSUME NEW nx, NEW ny, NEW x, Lays(nx, x), NEW l \in Lists, NEW t, Chain(ny, l, t),
           \A m \in Lists \ {l} : \A k \in 0 .. Len(x[m]) :
               ny[At(m, x[m], k)] = nx[At(m, x[m], k)],
           \A m \in Lists \ {l} : \A k \in 1 .. Len(x[m]), i \in 1 .. Len(t) : x[m][k] # t[i]
    PROVE  Lays(ny, [x EXCEPT ![l] = t])
<1> DEFINE y == [x EXCEPT ![l] = t]
<1>1. /\ y \in [Lists -> Seq(Nodes)] /\ y[l] = t
      /\ \A m \in Lists \ {l} : y[m] = x[m]
  BY DEF Lays, Chain
<1>2. \A m \in Lists \ {l} : Chain(ny, m, x[m])
  BY DEF Lays, Chain
<1>3. \A m1, m2 \in Lists : \A j \in 1 .. Len(y[m1]), k \in 1 .. Len(y[m2]) :
         y[m1][j] = y[m2][k] => m1 = m2
  <2> HIDE DEF y
  <2>1. \A m1, m2 \in Lists \ {l} : \A j \in 1 .. Len(x[m1]), k \in 1 .. Len(x[m2]) :
           x[m1][j] = x[m2][k] => m1 = m2
    BY DEF Lays
  <2>2. \A m \in Lists : m = l \/ m \in Lists \ {l}
    OBVIOUS
  <2> SUFFICES ASSUME NEW m1 \in Lists, NEW m2 \in Lists, NEW j \in 1 .. Len(y[m1]),
                      NEW k \in 1 .. Len(y[m2]), y[m1][j] = y[m2][k], m1 # m2
               PROVE  FALSE
    OBVIOUS
  <2>3. CASE m1 = l
    BY <1>1, <2>2, <2>3
  <2>4. CASE m2 = l
    BY <1>1, <2>2, <2>4
  <2>5. CASE m1 # l /\ m2 # l
    BY <1>1, <2>1, <2>5
  <2> QED BY <2>3, <2>4, <2>5
<1> HIDE DEF y
<1> QED BY <1>1, <1>2, <1>3 DEF Lays

\* A node is linked in after the first i items of l.
LEMMA LinkIn ==
    ASSUME NEW nx, NEW ny, NEW x, Lays(nx, x), NEW l \in Lists, NEW n \in Nodes,
           NEW i \in 0 .. Len(x[l]), NEW t, Adds(t, x[l], i, n),
           \A m \in Lists : \A k \in 1 .. Len(x[m]) : x[m][k] # n,
           ny[At(l, x[l], i)] = n,
           ny[n] = nx[At(l, x[l], i)],
           \A c \in Cells : c # n /\ c # At(l, x[l], i) => ny[c] = nx[c]
    PROVE  Lays(ny, [x EXCEPT ![l] = t])
<1> DEFINE s == x[l]
<1>1. /\ s \in Seq(Nodes) /\ Len(s) \in Nat
      /\ t \in Seq(Nodes) /\ Len(t) = Len(s) + 1
  BY DEF Lays, Adds
<1>3. /\ Nodes \cap Lists = {} /\ Null \notin Nodes
      /\ \A k \in 1 .. Len(s) : s[k] \in Nodes /\ s[k] # n
  BY <1>1, ListAssumption
<1>4. \A k \in 1 .. Len(t) : t[k] = IF k <= i THEN s[k] ELSE IF k = i + 1 THEN n ELSE s[k - 1]
  BY DEF Adds
<1>5. /\ \A j, k \in 1 .. Len(s) : s[j] = s[k] => j = k
      /\ \A k \in 0 .. Len(s) : nx[At(l, s, k)] = IF k = Len(s) THEN Null ELSE s[k + 1]
  BY DEF Lays, Chain
<1>6. Chain(ny, l, t)
  <2>1. ASSUME NEW j \in 1 .. Len(t), NEW k \in 1 .. Len(t), t[j] = t[k] PROVE j = k
    <3>1. /\ j <= i => j \in 1 .. Len(s)
          /\ j > i + 1 => j - 1 \in 1 .. Len(s)
          /\ k <= i => k \in 1 .. Len(s)
          /\ k > i + 1 => k - 1 \in 1 .. Len(s)
      BY <1>1
    <3>2. ASSUME NEW m \in 1 .. Len(t) PROVE t[m] = n <=> m = i + 1
      <4>1. CASE m = i + 1
        BY <4>1, <1>1, <1>4
      <4>2. CASE m <= i
        <5>1. t[m] = s[m] /\ m \in 1 .. Len(s)
          BY <4>2, <1>1, <1>4
        <5> QED BY <4>2, <5>1, <1>3
      <4>3. CASE m > i + 1
        <5>1. t[m] = s[m - 1] /\ m - 1 \in 1 .. Len(s)
          BY <4>3, <1>1, <1>4
        <5> QED BY <4>3, <5>1, <1>3
      <4> QED BY <4>1, <4>2, <4>3
    <3>3. j = i + 1 <=> k = i + 1
      BY <2>1, <3>2
    <3>4. CASE j # i + 1 /\ k # i + 1
      <4> DEFINE jj == IF j <= i THEN j ELSE j - 1
                 kk == IF k <= i THEN k ELSE k - 1
      <4>1. jj \in 1 .. Len(s) /\ kk \in 1 .. Len(s)
        BY <3>1, <3>4, <1>1
      <4>2. s[jj] = s[kk]
        BY <2>1, <3>4, <1>4
      <4>3. jj = kk
        BY <4>1, <4>2, <1>5
      <4> QED BY <4>3, <3>4, <1>1
    <3> QED BY <3>3, <3>4
  <2>2. ASSUME NEW k \in 0 .. Len(t)
        PROVE  ny[At(l, t, k)] = IF k = Len(t) THEN Null ELSE t[k + 1]
    <3>1. CASE k < i
      <4>1. At(l, t, k) = At(l, s, k) /\ t[k + 1] = s[k + 1]
        BY <1>1, <1>4, <3>1 DEF At
      <4>2. At(l, s, k) # At(l, s, i) /\ At(l, s, k) # n /\ At(l, s, k) \in Cells
        BY <1>1, <1>3, <1>5, <3>1 DEF At, Cells
      <4> QED BY <1>1, <1>5, <3>1, <4>1, <4>2
    <3>2. CASE k = i
      <4>1. At(l, t, k) = At(l, s, i) /\ t[k + 1] = n
        BY <1>1, <1>4, <3>2 DEF At
      <4> QED BY <1>1, <3>2, <4>1
    <3>3. CASE k = i + 1
      <4>1. At(l, t, k) = n
        <5>1. k # 0 /\ k \in 1 .. Len(t)
          BY <1>1, <3>3
        <5> QED BY <1>4, <3>3, <5>1 DEF At
      <4>2. k # Len(t) => t[k + 1] = s[i + 1]
        BY <1>1, <1>4, <3>3
      <4>3. nx[At(l, s, i)] = IF i = Len(s) THEN Null ELSE s[i + 1]
        BY <1>5
      <4> QED BY <1>1, <3>3, <4>1, <4>2, <4>3
    <3>4. CASE k > i + 1
      <4>1. k - 1 \in 1 .. Len(s) /\ k - 1 > i /\ (k - 1) + 1 = k
        BY <1>1, <3>4
      <4>2. At(l, t, k) = s[k - 1] /\ At(l, s, k - 1) = s[k - 1]
        <5>1. k # 0 /\ k - 1 # 0 /\ k \in 1 .. Len(t) /\ ~(k <= i) /\ k # i + 1
          BY <1>1, <3>4, <4>1
        <5> QED BY <1>4, <5>1 DEF At
      <4>3. s[k - 1] # At(l, s, i) /\ s[k - 1] # n /\ s[k - 1] \in Cells
        BY <1>1, <1>3, <1>5, <4>1 DEF At, Cells
      <4>4. nx[s[k - 1]] = IF k - 1 = Len(s) THEN Null ELSE s[k]
        <5>1. k - 1 \in 0 .. Len(s)
          BY <4>1
        <5> QED BY <1>5, <4>1, <4>2, <5>1
      <4>5. k # Len(t) => t[k + 1] = s[k]
        <5>1. k # Len(t) => k + 1 \in 1 .. Len(t) /\ ~(k + 1 <= i) /\ k + 1 # i + 1
          BY <1>1, <3>4
        <5>2. (k + 1) - 1 = k
          OBVIOUS
        <5> QED BY <1>4, <5>1, <5>2
      <4> QED BY <1>1, <4>1, <4>2, <4>3, <4>4, <4>5
    <3> QED BY <3>1, <3>2, <3>3, <3>4
  <2> QED BY <1>1, <2>1, <2>2 DEF Chain
<1>7. \A m \in Lists \ {l} : \A k \in 0 .. Len(x[m]) :
         ny[At(m, x[m], k)] = nx[At(m, x[m], k)]
  <2> SUFFICES ASSUME NEW m \in Lists \ {l}, NEW k \in 0 .. Len(x[m])
               PROVE  At(m, x[m], k) \in Cells \ {n, At(l, s, i)}
    OBVIOUS
  <2>1. k # 0 => k \in 1 .. Len(x[m])
    BY DEF Lays
  <2> QED BY <2>1, <1>3, Apart DEF At
<1>8. ASSUME NEW m \in Lists \ {l}, NEW k \in 1 .. Len(x[m]), NEW p \in 1 .. Len(t)
      PROVE  x[m][k] # t[p]
  <2>1. t[p] = n \/ \E r \in 1 .. Len(s) : t[p] = s[r]
    <3>1. (p <= i => p \in 1 .. Len(s)) /\ (p > i + 1 => p - 1 \in 1 .. Len(s))
      BY <1>1
    <3> QED BY <3>1, <1>1, <1>4
  <2> QED BY <2>1 DEF Lays
<1> QED BY <1>6, <1>7, <1>8, OthersStay

\* The item after the first i of l is linked out; its own link does not matter.
LEMMA LinkOut ==
    ASSUME NEW nx, NEW ny, NEW x, Lays(nx, x), NEW l \in Lists,
           NEW i \in 0 .. Len(x[l]) - 1, NEW t, Drops(t, x[l], i),
           ny[At(l, x[l], i)] = nx[x[l][i + 1]],
           \A c \in Cells : c # x[l][i + 1] /\ c # At(l, x[l], i) => ny[c] = nx[c]
    PROVE  Lays(ny, [x EXCEPT ![l] = t])
<1> DEFINE s == x[l]
<1>1. /\ s \in Seq(Nodes) /\ Len(s) \in Nat
      /\ t \in Seq(Nodes) /\ Len(t) = Len(s) - 1
  BY DEF Lays, Drops
<1>2. i + 1 \in 1 .. Len(s) /\ i + 1 \in 0 .. Len(s) /\ i \in 0 .. Len(s) /\ i # Len(s)
  BY <1>1
<1>3. /\ Nodes \cap Lists = {} /\ Null \notin Nodes
      /\ \A k \in 1 .. Len(s) : s[k] \in Nodes
  BY <1>1, ListAssumption
<1>4. \A k \in 1 .. Len(t) : t[k] = IF k <= i THEN s[k] ELSE s[k + 1]
  BY DEF Drops
<1>5. /\ \A j, k \in 1 .. Len(s) : s[j] = s[k] => j = k
      /\ \A k \in 0 .. Len(s) : nx[At(l, s, k)] = IF k = Len(s) THEN Null ELSE s[k + 1]
  BY DEF Lays, Chain
<1>6. Chain(ny, l, t)
  <2>1. ASSUME NEW j \in 1 .. Len(t), NEW k \in 1 .. Len(t), t[j] = t[k] PROVE j = k
    <3> DEFINE jj == IF j <= i THEN j ELSE j + 1
               kk == IF k <= i THEN k ELSE k + 1
    <3>1. jj \in 1 .. Len(s) /\ kk \in 1 .. Len(s)
      BY <1>1
    <3>2. s[jj] = s[kk]
      BY <2>1, <1>4
    <3>3. jj = kk
      BY <3>1, <3>2, <1>5
    <3> QED BY <3>3, <1>1
  <2>2. ASSUME NEW k \in 0 .. Len(t)
        PROVE  ny[At(l, t, k)] = IF k = Len(t) THEN Null ELSE t[k + 1]
    <3>1. CASE k < i
      <4>1. /\ k # 0 => k \in 1 .. Len(t) /\ k <= i /\ k \in 1 .. Len(s)
            /\ k + 1 \in 1 .. Len(t) /\ k + 1 <= i /\ k # Len(t) /\ k # Len(s)
            /\ k \in 0 .. Len(s)
        BY <1>1, <3>1
      <4>2. At(l, t, k) = At(l, s, k) /\ t[k + 1] = s[k + 1]
        BY <1>4, <4>1 DEF At
      <4>3. At(l, s, k) # At(l, s, i) /\ At(l, s, k) # s[i + 1] /\ At(l, s, k) \in Cells
        BY <1>2, <1>3, <1>5, <3>1, <4>1 DEF At, Cells
      <4> QED BY <1>5, <4>1, <4>2, <4>3
    <3>2. CASE k = i
      <4>1. /\ k # 0 => k \in 1 .. Len(t) /\ k <= i
            /\ k # Len(t) => k + 1 \in 1 .. Len(t) /\ ~(k + 1 <= i)
            /\ k = Len(t) <=> i + 1 = Len(s)
        BY <1>1, <3>2
      <4>2. At(l, t, k) = At(l, s, i) /\ (k # Len(t) => t[k + 1] = s[(i + 1) + 1])
        BY <1>4, <3>2, <4>1 DEF At
      <4>3. nx[s[i + 1]] = IF i + 1 = Len(s) THEN Null ELSE s[(i + 1) + 1]
        <5>1. At(l, s, i + 1) = s[i + 1]
          BY <1>2 DEF At
        <5> QED BY <1>2, <1>5, <5>1
      <4> QED BY <4>1, <4>2, <4>3
    <3>3. CASE k > i
      <4>1. /\ k # 0 /\ k \in 1 .. Len(t) /\ ~(k <= i)
            /\ k + 1 \in 1 .. Len(s) /\ k + 1 \in 0 .. Len(s) /\ k + 1 # i + 1 /\ k + 1 # i
            /\ k + 1 # 0
            /\ k # Len(t) => k + 1 \in 1 .. Len(t) /\ ~(k + 1 <= i)
            /\ k = Len(t) <=> k + 1 = Len(s)
        BY <1>1, <3>3
      <4>2. /\ At(l, t, k) = s[k + 1] /\ At(l, s, k + 1) = s[k + 1]
            /\ k # Len(t) => t[k + 1] = s[(k + 1) + 1]
        BY <1>4, <4>1 DEF At
      <4>3. s[k + 1] # At(l, s, i) /\ s[k + 1] # s[i + 1] /\ s[k + 1] \in Cells
        <5>1. i # 0 => i \in 1 .. Len(s)
          BY <1>2
        <5> QED BY <1>2, <1>3, <1>5, <4>1, <5>1 DEF At, Cells
      <4>4. nx[s[k + 1]] = IF k + 1 = Len(s) THEN Null ELSE s[(k + 1) + 1]
        BY <1>5, <4>1, <4>2
      <4> QED BY <4>1, <4>2, <4>3, <4>4
    <3> QED BY <1>1, <3>1, <3>2, <3>3
  <2> QED BY <1>1, <2>1, <2>2 DEF Chain
<1>7. \A m \in Lists \ {l} : \A k \in 0 .. Len(x[m]) :
         ny[At(m, x[m], k)] = nx[At(m, x[m], k)]
  <2> SUFFICES ASSUME NEW m \in Lists \ {l}, NEW k \in 0 .. Len(x[m])
               PROVE  At(m, x[m], k) \in Cells \ {s[i + 1], At(l, s, i)}
    OBVIOUS
  <2>1. At(l, s, i + 1) = s[i + 1]
    BY <1>2 DEF At
  <2> QED BY <2>1, <1>2, Apart
<1>8. ASSUME NEW m \in Lists \ {l}, NEW k \in 1 .. Len(x[m]), NEW p \in 1 .. Len(t)
      PROVE  x[m][k] # t[p]
  <2>1. \E r \in 1 .. Len(s) : t[p] = s[r]
    <3>1. p \in 1 .. Len(s) /\ p + 1 \in 1 .. Len(s)
      BY <1>1
    <3> QED BY <3>1, <1>4
  <2> QED BY <2>1 DEF Lays
<1> QED BY <1>6, <1>7, <1>8, OthersStay

\* A list is forgotten.
LEMMA Forget ==
    ASSUME NEW nx, NEW ny, NEW x, Lays(nx, x), NEW l \in Lists,
           ny[l] = Null,
           \A c \in Cells : c # l => ny[c] = nx[c]
    PROVE  Lays(ny, [x EXCEPT ![l] = <<>>])
<1>1. Chain(ny, l, <<>>)
  <2>1. Len(<<>>) = 0 /\ <<>> \in Seq(Nodes)
    OBVIOUS
  <2> QED BY <2>1 DEF Chain, At
<1>2. ASSUME NEW m \in Lists \ {l}, NEW k \in 0 .. Len(x[m])
      PROVE  ny[At(m, x[m], k)] = nx[At(m, x[m], k)]
  <2>1. 0 \in 0 .. Len(x[l]) /\ At(l, x[l], 0) = l
    BY DEF At, Lays
  <2> QED BY <2>1, Apart
<1>3. \A m \in Lists \ {l} : \A k \in 1 .. Len(x[m]), i \in 1 .. Len(<<>>) : x[m][k] # <<>>[i]
  OBVIOUS
<1> QED BY <1>1, <1>2, <1>3, OthersStay

-----------------------------------------------------------------------------
(* The sequences of ListSeq *)

\* What it puts a node in with.
LEMMA Added ==
    ASSUME NEW s \in Seq(Nodes), NEW n \in Nodes
    PROVE  /\ \A i \in 0 .. Len(s) : Adds(L!Seqs!InsertAt(s, i + 1, n), s, i, n)
           /\ Adds(<<n>> \o s, s, 0, n)
           /\ Adds(Append(s, n), s, Len(s), n)
<1>1. ASSUME NEW i \in 0 .. Len(s)
      PROVE  Adds(L!Seqs!InsertAt(s, i + 1, n), s, i, n)
  <2> DEFINE a == SubSeq(s, 1, (i + 1) - 1)
             b == SubSeq(s, i + 1, Len(s))
             c == a \o <<n>>
  <2>1. a \in Seq(Nodes) /\ Len(a) = i /\ \A k \in 1 .. i : a[k] = s[k]
    OBVIOUS
  <2>2. /\ b \in Seq(Nodes) /\ Len(b) = Len(s) - i
        /\ \A k \in 1 .. Len(s) - i : b[k] = s[i + k]
    OBVIOUS
  <2>3. L!Seqs!InsertAt(s, i + 1, n) = c \o b
    BY DEF L!Seqs!InsertAt
  <2> HIDE DEF a, b
  <2>4. /\ c \in Seq(Nodes) /\ Len(c) = i + 1
        /\ \A k \in 1 .. i + 1 : c[k] = IF k <= i THEN s[k] ELSE n
    BY <2>1
  <2> HIDE DEF c
  <2>5. /\ c \o b \in Seq(Nodes) /\ Len(c \o b) = Len(s) + 1
        /\ \A k \in 1 .. Len(s) + 1 : (c \o b)[k] =
              IF k <= i + 1 THEN c[k] ELSE b[k - (i + 1)]
    BY <2>2, <2>4, ConcatProperties
  <2>6. ASSUME NEW k \in 1 .. Len(s) + 1
        PROVE  (c \o b)[k] = IF k <= i THEN s[k] ELSE IF k = i + 1 THEN n ELSE s[k - 1]
    <3>1. CASE k <= i + 1
      BY <2>4, <2>5, <3>1
    <3>2. CASE ~(k <= i + 1)
      <4> DEFINE j == k - (i + 1)
      <4>1. j \in 1 .. Len(s) - i /\ i + j = k - 1 /\ ~(k <= i) /\ k # i + 1
        BY <3>2
      <4>2. (c \o b)[k] = b[j]
        BY <2>5, <3>2
      <4> HIDE DEF j
      <4>3. b[j] = s[i + j]
        BY <2>2, <4>1
      <4> QED BY <4>1, <4>2, <4>3
    <3> QED BY <3>1, <3>2
  <2> DEFINE d == c \o b
  <2>7. /\ d \in Seq(Nodes) /\ Len(d) = Len(s) + 1
        /\ \A k \in 1 .. Len(s) + 1 :
              d[k] = IF k <= i THEN s[k] ELSE IF k = i + 1 THEN n ELSE s[k - 1]
    BY <2>5, <2>6
  <2> HIDE DEF d
  <2>8. Adds(d, s, i, n)
    BY <2>7 DEF Adds
  <2> QED BY <2>3, <2>8 DEF d
<1>2. Adds(<<n>> \o s, s, 0, n)
  BY DEF Adds
<1>3. Adds(Append(s, n), s, Len(s), n)
  BY DEF Adds
<1> QED BY <1>1, <1>2, <1>3

\* What it takes one out with.
LEMMA Dropped ==
    ASSUME NEW s \in Seq(Nodes)
    PROVE  /\ \A i \in 0 .. Len(s) - 1 : Drops(L!Seqs!RemoveAt(s, i + 1), s, i)
           /\ s # <<>> => Drops(Tail(s), s, 0) /\ Drops(L!Seqs!Front(s), s, Len(s) - 1)
<1>1. ASSUME NEW i \in 0 .. Len(s) - 1
      PROVE  Drops(L!Seqs!RemoveAt(s, i + 1), s, i)
  <2> DEFINE a == SubSeq(s, 1, (i + 1) - 1)
             b == SubSeq(s, (i + 1) + 1, Len(s))
  <2>1. a \in Seq(Nodes) /\ Len(a) = i /\ \A k \in 1 .. i : a[k] = s[k]
    OBVIOUS
  <2>2. /\ b \in Seq(Nodes) /\ Len(b) = Len(s) - i - 1
        /\ \A k \in 1 .. Len(s) - i - 1 : b[k] = s[i + 1 + k]
    OBVIOUS
  <2>3. L!Seqs!RemoveAt(s, i + 1) = a \o b
    BY DEF L!Seqs!RemoveAt
  <2> HIDE DEF a, b
  <2>4. /\ a \o b \in Seq(Nodes) /\ Len(a \o b) = Len(a) + Len(b)
        /\ \A k \in 1 .. Len(a) + Len(b) :
              (a \o b)[k] = IF k <= Len(a) THEN a[k] ELSE b[k - Len(a)]
    BY <2>1, <2>2, ConcatProperties
  <2>5. /\ a \o b \in Seq(Nodes) /\ Len(a \o b) = Len(s) - 1
        /\ \A k \in 1 .. Len(s) - 1 : (a \o b)[k] = IF k <= i THEN a[k] ELSE b[k - i]
    BY <2>1, <2>2, <2>4
  <2>6. ASSUME NEW k \in 1 .. Len(s) - 1
        PROVE  (a \o b)[k] = IF k <= i THEN s[k] ELSE s[k + 1]
    <3>1. CASE k <= i
      BY <2>1, <2>5, <3>1
    <3>2. CASE ~(k <= i)
      <4> DEFINE j == k - i
      <4>1. j \in 1 .. Len(s) - i - 1 /\ i + 1 + j = k + 1 /\ ~(k <= i)
        BY <3>2
      <4>2. (a \o b)[k] = b[j]
        BY <2>5, <3>2
      <4> HIDE DEF j
      <4>3. b[j] = s[i + 1 + j]
        BY <2>2, <4>1
      <4> QED BY <4>1, <4>2, <4>3
    <3> QED BY <3>1, <3>2
  <2> DEFINE d == a \o b
  <2>7. /\ d \in Seq(Nodes) /\ Len(d) = Len(s) - 1
        /\ \A k \in 1 .. Len(s) - 1 : d[k] = IF k <= i THEN s[k] ELSE s[k + 1]
    BY <2>5, <2>6
  <2> HIDE DEF d
  <2>8. Drops(d, s, i)
    BY <2>7 DEF Drops
  <2> QED BY <2>3, <2>8 DEF d
<1>2. ASSUME s # <<>> PROVE Drops(Tail(s), s, 0) /\ Drops(L!Seqs!Front(s), s, Len(s) - 1)
  <2>1. Len(s) \in Nat \ {0}
    BY <1>2
  <2>2. Drops(Tail(s), s, 0)
    BY <1>2, <2>1 DEF Drops
  <2>3. Drops(SubSeq(s, 1, Len(s) - 1), s, Len(s) - 1)
    <3> DEFINE t == SubSeq(s, 1, Len(s) - 1)
    <3>1. /\ t \in Seq(Nodes) /\ Len(t) = Len(s) - 1
          /\ \A k \in 1 .. Len(s) - 1 : t[k] = s[k]
      <4>1. ASSUME NEW m \in 0 .. Len(s)
            PROVE  /\ SubSeq(s, 1, m) \in Seq(Nodes) /\ Len(SubSeq(s, 1, m)) = m
                   /\ \A k \in 1 .. m : SubSeq(s, 1, m)[k] = s[k]
        OBVIOUS
      <4>2. Len(s) - 1 \in 0 .. Len(s)
        BY <2>1
      <4> QED BY <4>1, <4>2
    <3> HIDE DEF t
    <3>2. Drops(t, s, Len(s) - 1)
      BY <2>1, <3>1 DEF Drops
    <3> QED BY <3>2 DEF t
  <2> QED BY <2>2, <2>3 DEF L!Seqs!Front
<1> QED BY <1>1, <1>2

\* A node's place in its list.
LEMMA IndexIs ==
    ASSUME NEW s, \A i, j \in 1 .. Len(s) : s[i] = s[j] => i = j, NEW i \in 1 .. Len(s)
    PROVE  L!Index(s, s[i]) = i
BY DEF L!Index

-----------------------------------------------------------------------------
(* What the libraries see *)

\* A layout of the cells is what the walks find.
LEMMA WalksAre ==
    ASSUME NEW x
    PROVE  /\ Lays(next, x) => Walks = x
           /\ Lays(next', x) => Walks' = x
<1>1. ASSUME Lays(next, x) PROVE Walks = x
  BY <1>1, ItemsAre DEF Walks, Lays
<1>2. ASSUME Lays(next', x) PROVE Walks' = x
  BY <1>2, ItemsAre DEF Walks, Lays
<1> QED BY <1>1, <1>2

\* One list and its cells.
LEMMA ListView ==
    ASSUME HeapInv, NEW l \in Lists
    PROVE  LET s == Walks[l]
           IN  /\ Items(l) = s /\ s \in Seq(Nodes) /\ Len(s) \in Nat
               /\ \A i, j \in 1 .. Len(s) : s[i] = s[j] => i = j
               /\ \A k \in 1 .. Len(s) : s[k] \in Nodes
               /\ Members(l) = {s[k] : k \in 1 .. Len(s)}
               /\ LastCell(l) = At(l, s, Len(s))
               /\ next[l] = Null <=> s = <<>>
               /\ s # <<>> => next[l] = s[1] /\ 1 \in 1 .. Len(s) /\ Len(s) \in 1 .. Len(s)
               /\ \A k \in 0 .. Len(s) : next[At(l, s, k)] = IF k = Len(s) THEN Null ELSE s[k + 1]
<1> DEFINE s == Walks[l]
<1>1. /\ Items(l) = s /\ s \in Seq(Nodes) /\ Len(s) \in Nat
      /\ \A i, j \in 1 .. Len(s) : s[i] = s[j] => i = j
      /\ \A k \in 0 .. Len(s) : next[At(l, s, k)] = IF k = Len(s) THEN Null ELSE s[k + 1]
  BY DEF Walks, HeapInv, Lays, Chain
<1> HIDE DEF s
<1>2. DOMAIN s = 1 .. Len(s) /\ \A k \in 1 .. Len(s) : s[k] \in Nodes
  BY <1>1
<1>3. Members(l) = {s[k] : k \in 1 .. Len(s)}
  BY <1>1, <1>2 DEF Members
<1>4. LastCell(l) = At(l, s, Len(s))
  BY <1>1 DEF LastCell, At
<1>5. s # <<>> => 1 \in 1 .. Len(s) /\ Len(s) \in 1 .. Len(s) /\ Len(s) # 0
  BY <1>1
<1>6. s = <<>> => next[l] = Null
  BY <1>1 DEF At
<1>7. s # <<>> => next[l] = s[1]
  <2>1. next[At(l, s, 0)] = IF 0 = Len(s) THEN Null ELSE s[0 + 1]
    BY <1>1
  <2> QED BY <2>1, <1>5 DEF At
<1>8. Null \notin Nodes
  BY ListAssumption
<1> QED BY <1>1, <1>2, <1>3, <1>4, <1>5, <1>6, <1>7, <1>8 DEF s

\* Which nodes are in lists.
LEMMA LooseView ==
    ASSUME HeapInv, NEW n
    PROVE  /\ Loose(n) <=> \A l \in Lists : \A k \in 1 .. Len(Walks[l]) : Walks[l][k] # n
           /\ L!Loose(n) <=> Loose(n)
           /\ \A l \in Lists : L!Items(l) = Members(l)
<1>1. \A l \in Lists : L!Items(l) = Members(l)
  <2> SUFFICES ASSUME NEW l \in Lists PROVE L!Items(l) = Members(l)
    OBVIOUS
  <2> QED BY DEF L!Items, L!Seqs!ToSet, Members
<1>2. L!Loose(n) <=> Loose(n)
  BY <1>1 DEF Loose, L!Loose
<1>3. \A l \in Lists : n \notin Members(l) <=> \A k \in 1 .. Len(Walks[l]) : Walks[l][k] # n
  BY ListView
<1> QED BY <1>1, <1>2, <1>3 DEF Loose

\* A new layout is a step of ListSeq.
LEMMA Becoming ==
    ASSUME HeapInv, NEW l \in Lists, NEW t, Lays(next', [Walks EXCEPT ![l] = t])
    PROVE  /\ Lays(next, Walks)' 
           /\ UNCHANGED iter => L!Becomes(l, t)
<1>1. Walks' = [Walks EXCEPT ![l] = t]
  BY WalksAre
<1>2. Lays(next', Walks')
  BY <1>1
<1>3. Lays(next, Walks)'
  BY <1>2
<1>4. UNCHANGED iter => L!Becomes(l, t)
  BY <1>1 DEF L!Becomes, Walks
<1> QED BY <1>3, <1>4

\* A loose node put in after the first i items of l, as ListSeq does it.
LEMMA PutIn ==
    ASSUME HeapInv, NEW l \in Lists, NEW n \in Nodes, Loose(n),
           NEW i \in 0 .. Len(Walks[l]), NEW t, Adds(t, Walks[l], i, n),
           NEW a, a = At(l, Walks[l], i),
           next'[a] = n, next'[n] = next[a],
           \A c \in Cells : c # n /\ c # a => next'[c] = next[c]
    PROVE  Lays(next, Walks)' /\ Now(l, t) /\ (UNCHANGED iter => L!Becomes(l, t))
<1>1. Lays(next', [Walks EXCEPT ![l] = t])
  BY LooseView, LinkIn DEF HeapInv
<1> QED BY <1>1, Becoming, WalksAre DEF Now

\* The item after the first i of l taken out, as ListSeq does it.
LEMMA TakeOut ==
    ASSUME HeapInv, NEW l \in Lists, NEW i \in 0 .. Len(Walks[l]) - 1, NEW t, Drops(t, Walks[l], i),
           NEW a, a = At(l, Walks[l], i), NEW n, n = Walks[l][i + 1],
           next'[a] = next[n],
           \A c \in Cells : c # n /\ c # a => next'[c] = next[c]
    PROVE  Lays(next, Walks)' /\ Now(l, t) /\ (UNCHANGED iter => L!Becomes(l, t))
<1>1. Lays(next', [Walks EXCEPT ![l] = t])
  BY LinkOut DEF HeapInv
<1> QED BY <1>1, Becoming, WalksAre DEF Now

\* What links an item in front of others, or no item, links nodes.
LEMMA CellView ==
    ASSUME HeapInv, NEW l \in Lists, NEW i \in 0 .. Len(Walks[l])
    PROVE  /\ At(l, Walks[l], i) \in Cells
           /\ \A n \in Nodes : Loose(n) => At(l, Walks[l], i) # n
           /\ next[At(l, Walks[l], i)] \in Nodes \cup {Null}
<1> DEFINE s == Walks[l]
<1>1. Nodes \cap Lists = {}
  BY ListAssumption
<1>2. i = 0 \/ (i \in 1 .. Len(s) /\ s[i] \in Nodes)
  BY ListView
<1>3. At(l, s, i) \in Cells
  BY <1>2 DEF At, Cells
<1>4. \A n \in Nodes : Loose(n) => At(l, s, i) # n
  BY <1>1, <1>2, LooseView DEF At
<1> QED BY <1>3, <1>4 DEF HeapInv, NextType

\* Links that lead nowhere new change no list.
LEMMA Staying ==
    ASSUME HeapInv,
           \A l \in Lists : \A k \in 0 .. Len(Walks[l]) :
               next'[At(l, Walks[l], k)] = next[At(l, Walks[l], k)]
    PROVE  Lays(next, Walks)' /\ Walks' = Walks
<1>1. Lays(next', Walks)
  BY DEF HeapInv, Lays, Chain
<1>2. Walks' = Walks
  BY <1>1, WalksAre
<1> QED BY <1>1, <1>2

\* No link changes.
LEMMA Standing ==
    ASSUME HeapInv, UNCHANGED next
    PROVE  NextType' /\ Lays(next, Walks)' /\ Walks' = Walks
<1>1. Lays(next, Walks)' /\ Walks' = Walks
  BY Staying
<1> QED BY <1>1 DEF HeapInv, NextType

\* Where EnqueuePriority stops.
LEMMA BeatenView ==
    ASSUME HeapInv, NEW l \in Lists, NEW n \in Nodes
    PROVE  LET s == Walks[l]
               c == FirstBeaten(l, n)
           IN  \/ c = Null /\ \A j \in 1 .. Len(s) : Prio[s[j]] >= Prio[n]
               \/ \E i \in 1 .. Len(s) : /\ c = s[i] /\ c # Null /\ Prio[n] > Prio[c]
                                         /\ \A j \in 1 .. i - 1 : Prio[s[j]] >= Prio[n]
<1> DEFINE s == Walks[l]
           beaten == {k \in DOMAIN s : Beats(n, s[k])}
<1>1. /\ Items(l) = s /\ s \in Seq(Nodes) /\ Len(s) \in Nat
      /\ \A k \in 1 .. Len(s) : s[k] \in Nodes
  BY ListView
<1>2. beaten \subseteq 1 .. Len(s) /\ \A k \in 1 .. Len(s) : k \notin beaten => Prio[s[k]] >= Prio[n]
  BY <1>1, ListAssumption DEF Beats
<1>3. FirstBeaten(l, n) = IF beaten = {} THEN Null
                          ELSE s[CHOOSE k \in beaten : \A j \in beaten : k <= j]
  BY <1>1 DEF FirstBeaten
<1>4. ASSUME beaten # {}
      PROVE  \E i \in 1 .. Len(s) :
                /\ FirstBeaten(l, n) = s[i] /\ s[i] # Null /\ Prio[n] > Prio[s[i]]
                /\ \A j \in 1 .. i - 1 : Prio[s[j]] >= Prio[n]
  <2> DEFINE i == CHOOSE k \in beaten : \A j \in beaten : k <= j
  <2>1. beaten \subseteq Nat
    BY <1>2
  <2>2. \E k \in beaten : \A j \in beaten : k <= j
    <3>1. PICK k \in beaten : \A j \in beaten : ~ (j < k)
      BY <2>1, <1>4, LeastNatural
    <3> HIDE DEF beaten
    <3>2. \A j \in beaten : k <= j
      BY <2>1, <3>1
    <3> QED BY <3>2
  <2>3. i \in beaten /\ \A j \in beaten : i <= j
    <3> HIDE DEF beaten
    <3> QED BY <2>2
  <2>4. FirstBeaten(l, n) = s[i]
    BY <1>3, <1>4
  <2>5. i \in 1 .. Len(s) /\ Beats(n, s[i])
    BY <2>3, <1>2
  <2> HIDE DEF i
  <2>6. \A j \in 1 .. i - 1 : j \notin beaten /\ j \in 1 .. Len(s)
    <3> HIDE DEF beaten
    <3> QED BY <2>3, <2>5, <1>1
  <2>7. s[i] # Null
    BY <1>1, <2>5, ListAssumption
  <2> HIDE DEF beaten
  <2> QED BY <1>2, <2>4, <2>5, <2>6, <2>7 DEF Beats
<1>5. ASSUME beaten = {}
      PROVE  FirstBeaten(l, n) = Null /\ \A j \in 1 .. Len(s) : Prio[s[j]] >= Prio[n]
  BY <1>2, <1>3, <1>5
<1> HIDE DEF beaten
<1> QED BY <1>4, <1>5

\* The cell before an item gets the item's link, and the item may lose it.
LEMMA Unlinks ==
    ASSUME HeapInv, NEW l \in Lists, NEW i \in 0 .. Len(Walks[l]) - 1,
           NEW a, a = At(l, Walks[l], i), NEW n, n = Walks[l][i + 1],
           Unlink(a, n)
    PROVE  /\ NextType'
           /\ n \in Nodes /\ n # Null /\ n = next[a] /\ n \in Members(l)
           /\ \A t : Drops(t, Walks[l], i) =>
                     /\ Lays(next, Walks)'
                     /\ Now(l, t)
                     /\ UNCHANGED iter => L!Becomes(l, t)
<1> DEFINE s == Walks[l]
<1>1. /\ s \in Seq(Nodes) /\ Len(s) \in Nat
      /\ \A j, k \in 1 .. Len(s) : s[j] = s[k] => j = k
      /\ \A k \in 1 .. Len(s) : s[k] \in Nodes
      /\ Members(l) = {s[k] : k \in 1 .. Len(s)}
      /\ \A k \in 0 .. Len(s) : next[At(l, s, k)] = IF k = Len(s) THEN Null ELSE s[k + 1]
  BY ListView
<1>2. /\ i \in 0 .. Len(s) /\ i + 1 \in 0 .. Len(s) /\ i + 1 \in 1 .. Len(s) /\ i # Len(s)
      /\ i # i + 1 /\ i + 1 # 0
  BY <1>1
<1>3. a \in Cells /\ n = At(l, s, i + 1) /\ n \in Cells
  BY <1>2, CellView DEF At
<1>4. n \in Nodes /\ n # Null /\ n = next[a] /\ n \in Members(l)
  BY <1>1, <1>2, ListAssumption
<1>5. a # n
  <2>1. i = 0 \/ i \in 1 .. Len(s)
    BY <1>2
  <2> QED BY <1>1, <1>2, <1>4, <2>1, ListAssumption DEF At
<1>6. next \in [Cells -> Nodes \cup {Null}] /\ next[n] \in Nodes \cup {Null}
  BY <1>3 DEF HeapInv, NextType
<1>7. NextType'
  BY <1>3, <1>6 DEF NextType, Unlink
<1>8. /\ next'[a] = next[n]
      /\ \A c \in Cells : c # n /\ c # a => next'[c] = next[c]
  BY <1>3, <1>5, <1>6 DEF Unlink
<1>9. ASSUME NEW t, Drops(t, Walks[l], i)
      PROVE  /\ Lays(next, Walks)'
             /\ Now(l, t)
             /\ UNCHANGED iter => L!Becomes(l, t)
  BY <1>8, <1>9, TakeOut
<1> QED BY <1>4, <1>7, <1>9

\* Without a node of a list, in ListSeq.
LEMMA WithoutDrops ==
    ASSUME HeapInv, NEW l \in Lists, NEW i \in 0 .. Len(Walks[l]) - 1
    PROVE  LET s == Walks[l]
           IN  /\ Drops(L!Without(s, s[i + 1]), s, i)
               /\ L!Without(s, s[i + 1]) = L!Seqs!RemoveAt(s, i + 1)
<1> DEFINE s == Walks[l]
<1>1. /\ s \in Seq(Nodes) /\ Len(s) \in Nat /\ DOMAIN s = 1 .. Len(s)
      /\ \A j, k \in 1 .. Len(s) : s[j] = s[k] => j = k
  BY ListView
<1>2. i + 1 \in 1 .. Len(s)
  BY <1>1
<1>3. L!Index(s, s[i + 1]) = i + 1 /\ s[i + 1] \in L!Seqs!ToSet(s)
  BY <1>1, <1>2, IndexIs DEF L!Seqs!ToSet
<1>4. L!Without(s, s[i + 1]) = L!Seqs!RemoveAt(s, i + 1)
  BY <1>3 DEF L!Without
<1>5. Drops(L!Seqs!RemoveAt(s, i + 1), s, i)
  BY <1>1, Dropped
<1> QED BY <1>4, <1>5

\* Nothing was there to take.
LEMMA Nothing ==
    ASSUME HeapInv, NEW l \in Lists, UNCHANGED <<next, iter>>
    PROVE  HeapInv' /\ L!Becomes(l, Walks[l])
<1>1. NextType' /\ Lays(next, Walks)' /\ Walks' = Walks
  BY Standing
<1>2. [Walks EXCEPT ![l] = Walks[l]] = Walks
  BY DEF Walks
<1>3. L!Becomes(l, Walks[l])
  BY <1>1, <1>2 DEF L!Becomes, Walks
<1> QED BY <1>1, <1>3 DEF HeapInv, IterType

-----------------------------------------------------------------------------
(* The calls the libraries share *)

\* What a question finds is what ListSeq answers.
LEMMA QuestionAsks ==
    ASSUME HeapInv, NEW l \in Lists, Question(l) \/ ListGetLast(l)
    PROVE  HeapInv' /\ L!Next
<1> DEFINE s == Walks[l]
<1>1. UNCHANGED next
  BY DEF Question, Size, Contain, GetHead, IsEmpty, ListGetLast, IterInit, Ask
<1>2. NextType' /\ Lays(next, Walks)' /\ Walks' = Walks
  BY <1>1, Standing
<1>3. IterType'
  BY DEF Question, Size, Contain, GetHead, IsEmpty, ListGetLast, IterInit, Ask, Answer,
         HeapInv, IterType
<1>4. /\ Items(l) = s /\ (next[l] = Null <=> s = <<>>) /\ (s # <<>> => next[l] = s[1])
      /\ LastCell(l) = IF s = <<>> THEN l ELSE s[Len(s)]
  BY ListView DEF At
<1>5. L!Items(l) = Members(l)
  BY LooseView
<1>6. UNCHANGED [m \in Lists |-> Items(m)]
  BY <1>2 DEF Walks
<1>7. L!HeadOf(l) = next[l] /\ (next[l] # Null => L!LastOf(l) = LastCell(l))
  BY <1>4 DEF L!HeadOf, L!LastOf, Walks
<1>8. CASE IterInit(l)
  <2>1. L!IterInit(l)
    BY <1>6, <1>8 DEF IterInit, Called, L!IterInit, L!Called
  <2> QED BY <2>1, <1>2, <1>3 DEF HeapInv, L!Next, L!Iteration
<1>9. CASE Size(l) \/ (\E n \in Nodes : Contain(l, n)) \/ GetHead(l)
           \/ IsEmpty(l) \/ ListGetLast(l)
  <2>1. L!Question(l)
    <3>1. CASE Size(l)
      BY <1>4, <1>6, <3>1 DEF Size, Ask, Answer, Called, L!Question, L!Ask, L!Called
    <3>2. CASE \E n \in Nodes : Contain(l, n)
      BY <1>5, <1>6, <3>2 DEF Contain, Ask, Answer, Called, AsBOOL, L!Question, L!Ask, L!Called
    <3>3. CASE GetHead(l)
      BY <1>6, <1>7, <3>3 DEF GetHead, Ask, Answer, Called, L!Question, L!Ask, L!Called
    <3>4. CASE IsEmpty(l)
      BY <1>4, <1>6, <3>4 DEF IsEmpty, Ask, Answer, Called, AsBOOL, L!Question, L!Ask, L!Called
    <3>5. CASE ListGetLast(l)
      BY <1>6, <1>7, <3>5 DEF ListGetLast, Ask, Answer, Called, L!Question, L!Ask, L!Called
    <3> QED BY <1>9, <3>1, <3>2, <3>3, <3>4, <3>5
  <2> QED BY <2>1, <1>2, <1>3 DEF HeapInv, L!Next
<1> QED BY <1>8, <1>9 DEF Question

\* The cell of a valid iterator is in its list, and its link leads to the item
\* that comes next.
LEMMA Iterating ==
    ASSUME HeapInv, IterValid
    PROVE  LET s == Walks[iter.list]
           IN  /\ iter.list \in Lists /\ L!Valid
               /\ \E k \in 0 .. Len(s) : IterCell = At(iter.list, s, k)
               /\ L!Upcoming = next[IterCell]
               /\ iter.prev \in Nodes => iter.prev \in Members(iter.list)
<1> DEFINE l == iter.list
           s == Walks[l]
<1>1. l \in Lists /\ iter.prev \in Members(l) \cup {Null, l}
  BY DEF HeapInv, IterType, IterValid
<1>2. /\ Items(l) = s /\ s \in Seq(Nodes) /\ Len(s) \in Nat
      /\ \A i, j \in 1 .. Len(s) : s[i] = s[j] => i = j
      /\ \A k \in 1 .. Len(s) : s[k] \in Nodes
      /\ Members(l) = {s[k] : k \in 1 .. Len(s)}
      /\ next[l] = Null <=> s = <<>>
      /\ s # <<>> => next[l] = s[1]
      /\ \A k \in 0 .. Len(s) : next[At(l, s, k)] = IF k = Len(s) THEN Null ELSE s[k + 1]
  BY <1>1, ListView
<1>3. L!Valid
  BY <1>1, LooseView DEF L!Valid
<1>4. Nodes \cap Lists = {} /\ Null \notin Nodes /\ Null \notin Lists
  BY ListAssumption
<1>5. CASE iter.prev \notin Nodes
  <2>1. IterCell = At(l, s, 0)
    BY <1>1, <1>2, <1>5 DEF IterCell, At
  <2>2. L!Upcoming = IF s = <<>> THEN Null ELSE Head(s)
    BY <1>1, <1>5 DEF L!Upcoming, L!HeadOf, Walks
  <2>3. L!Upcoming = next[IterCell]
    BY <1>2, <2>1, <2>2 DEF At
  <2> QED BY <1>1, <1>2, <1>3, <1>5, <2>1, <2>3
<1>6. CASE iter.prev \in Nodes
  <2>1. PICK k \in 1 .. Len(s) : iter.prev = s[k]
    BY <1>1, <1>2, <1>4, <1>6
  <2>2. IterCell = At(l, s, k) /\ IterCell = s[k] /\ k \in 0 .. Len(s)
    BY <1>4, <1>6, <2>1 DEF IterCell, At
  <2>3. L!Index(s, s[k]) = k
    BY <1>2, IndexIs
  <2>4. L!Upcoming = L!After(s, s[k])
    BY <1>1, <1>6, <2>1 DEF L!Upcoming, Walks
  <2>5. L!After(s, s[k]) = IF s[k] = s[Len(s)] THEN Null ELSE s[k + 1]
    BY <2>3 DEF L!After
  <2>6. s[k] = s[Len(s)] <=> k = Len(s)
    BY <1>2
  <2>7. next[IterCell] = IF k = Len(s) THEN Null ELSE s[k + 1]
    BY <1>2, <2>2
  <2> QED BY <1>1, <1>2, <1>3, <2>1, <2>2, <2>4, <2>5, <2>6, <2>7
<1> QED BY <1>5, <1>6

\* The iterator moves as in ListSeq.
LEMMA IterationMoves ==
    ASSUME HeapInv, HasNext \/ IterNext
    PROVE  HeapInv' /\ L!Next
<1>1. IterValid /\ UNCHANGED next
  BY DEF HasNext, IterNext, Ask
<1>2. NextType' /\ Lays(next, Walks)' /\ Walks' = Walks
  BY <1>1, Standing
<1>3. UNCHANGED [m \in Lists |-> Items(m)]
  BY <1>2 DEF Walks
<1>4. L!Valid /\ L!Upcoming = next[IterCell] /\ IterCell \in Cells
  BY <1>1, Iterating DEF IterCell, Cells, HeapInv, IterType
<1>5. IterType'
  BY <1>4 DEF HasNext, IterNext, Ask, Answer, HeapInv, IterType, NextType
<1>6. CASE HasNext
  <2>1. L!HasNext
    BY <1>3, <1>4, <1>6 DEF HasNext, Ask, Answer, Called, AsBOOL, L!HasNext, L!Ask, L!Called
  <2> QED BY <1>2, <1>5, <2>1 DEF HeapInv, L!Next, L!Iteration
<1>7. CASE IterNext
  <2>1. L!IterNext
    BY <1>3, <1>4, <1>7 DEF IterNext, Called, L!IterNext, L!Called
  <2> QED BY <1>2, <1>5, <2>1 DEF HeapInv, L!Next, L!Iteration
<1> QED BY <1>6, <1>7

\* In the beginning all lists are empty.
LEMMA HeapStarts == HeapInit => HeapInv /\ L!Init
<1> SUFFICES ASSUME HeapInit PROVE HeapInv /\ L!Init
  OBVIOUS
<1> DEFINE x == [l \in Lists |-> <<>>]
<1>1. NextType /\ IterType
  BY ListAssumption DEF HeapInit, NextType, IterType
<1>2. ASSUME NEW l \in Lists PROVE Chain(next, l, <<>>)
  BY DEF HeapInit, Chain, At, Cells
<1>3. Lays(next, x)
  <2>1. x \in [Lists -> Seq(Nodes)] /\ \A l \in Lists : x[l] = <<>>
    OBVIOUS
  <2> HIDE DEF x
  <2> QED BY <1>2, <2>1 DEF Lays
<1>4. Walks = x
  BY <1>3, WalksAre
<1>5. L!Init
  BY <1>4 DEF L!Init, HeapInit, Walks
<1> QED BY <1>1, <1>3, <1>4, <1>5 DEF HeapInv
=============================================================================
