---------------------------- MODULE AvlTreeProofs ----------------------------
(***************************************************************************)
(* Theorems about the search tree, for all nodes, keys and balance         *)
(* factors: its calls do what OrderedBag says, and its readers see the     *)
(* nodes in the order of their keys.                                       *)
(***************************************************************************)
EXTENDS AvlTree, SequenceTheorems, FiniteSetTheorems, WellFoundedInduction, TLAPS

Branch(S) == [id : Nodes, height : Nat, left : S, right : S]

AllTrees == UNION {Upto[d] : d \in Nat}
Branches == AllTrees \ {Nil}

-----------------------------------------------------------------------------
(* Trees *)

\* Every non-empty set of numbers has a least element.
LEMMA LeastNumber ==
    ASSUME NEW T, T \subseteq Nat, T # {}
    PROVE  \E x \in T : \A y \in T : ~ (y < x)
<1> DEFINE R == {p \in Nat \X Nat : p[1] < p[2]}
<1>1. IsWellFoundedOn(R, Nat)
  BY NatLessThanWellFounded DEF OpToRel
<1>2. \E x \in T : \A y \in T : ~ (<<y, x>> \in R)
  <2> HIDE DEF R
  <2> QED BY <1>1, WFMin
<1> QED BY <1>2

\* The equation of Upto, as far as n.
UptoAsFar(f, n) ==
    f = [d \in 0 .. n |-> IF d = 0 THEN {Nil} ELSE {Nil} \cup Branch(f[d - 1])]

\* Upto is the function its definition describes.
LEMMA UptoIs ==
    /\ Upto[0] = {Nil}
    /\ \A d \in Nat \ {0} : Upto[d] = {Nil} \cup Branch(Upto[d - 1])
<1>1. \A n \in Nat : \E f : UptoAsFar(f, n)
  <2> DEFINE T == {n \in Nat : ~ \E f : UptoAsFar(f, n)}
  <2>1. SUFFICES ASSUME T # {} PROVE FALSE
    OBVIOUS
  <2>2. PICK n \in T : \A y \in T : ~ (y < n)
    <3>1. T \subseteq Nat
      OBVIOUS
    <3> HIDE DEF T
    <3> QED BY <2>1, <3>1, LeastNumber
  <2>3. CASE n = 0
    <3>1. UptoAsFar([d \in 0 .. n |-> {Nil}], n)
      BY <2>3 DEF UptoAsFar
    <3> QED BY <3>1
  <2>4. CASE n # 0
    <3>1. n - 1 \in Nat /\ n - 1 < n
      BY <2>4
    <3>2. PICK f : UptoAsFar(f, n - 1)
      BY <2>2, <3>1
    <3> DEFINE g == [d \in 0 .. n |-> IF d = n THEN {Nil} \cup Branch(f[n - 1]) ELSE f[d]]
    <3>3. \A d \in 0 .. n - 1 : g[d] = f[d]
      BY <3>1
    <3>4. ASSUME NEW d \in 0 .. n
          PROVE  g[d] = IF d = 0 THEN {Nil} ELSE {Nil} \cup Branch(g[d - 1])
      <4>1. CASE d = n
        <5>1. g[d - 1] = f[n - 1] /\ d # 0
          BY <4>1, <3>1, <3>3, <2>4
        <5> QED BY <4>1, <5>1
      <4>2. CASE d # n
        <5>1. d \in 0 .. n - 1
          BY <4>2
        <5>2. f[d] = IF d = 0 THEN {Nil} ELSE {Nil} \cup Branch(f[d - 1])
          BY <5>1, <3>2 DEF UptoAsFar
        <5>3. d # 0 => d - 1 \in 0 .. n - 1
          BY <5>1
        <5> HIDE DEF g
        <5> QED BY <5>1, <5>2, <5>3, <3>3
      <4> QED BY <4>1, <4>2
    <3>5. g = [d \in 0 .. n |-> g[d]]
      OBVIOUS
    <3> HIDE DEF g
    <3>6. UptoAsFar(g, n)
      BY <3>4, <3>5 DEF UptoAsFar
    <3> QED BY <3>6
  <2> QED BY <2>3, <2>4
<1>2. ASSUME NEW m \in Nat, NEW n \in Nat, NEW f, NEW g,
             UptoAsFar(f, m), UptoAsFar(g, n), m <= n
      PROVE  f[m] = g[m]
  <2> DEFINE T == {d \in 0 .. m : f[d] # g[d]}
  <2>1. SUFFICES ASSUME T # {} PROVE FALSE
    OBVIOUS
  <2>2. PICK d \in T : \A y \in T : ~ (y < d)
    <3>1. T \subseteq Nat
      OBVIOUS
    <3> HIDE DEF T
    <3> QED BY <2>1, <3>1, LeastNumber
  <2>3. /\ f[d] = IF d = 0 THEN {Nil} ELSE {Nil} \cup Branch(f[d - 1])
        /\ g[d] = IF d = 0 THEN {Nil} ELSE {Nil} \cup Branch(g[d - 1])
    <3>1. d \in 0 .. m /\ d \in 0 .. n
      BY <1>2
    <3> QED BY <3>1, <1>2 DEF UptoAsFar
  <2>4. d # 0 => f[d - 1] = g[d - 1]
    BY <2>2
  <2> QED BY <2>3, <2>4
<1> DEFINE F == [n \in Nat |-> (CHOOSE f : UptoAsFar(f, n))[n]]
<1>3. F = [d \in Nat |-> IF d = 0 THEN {Nil} ELSE {Nil} \cup Branch(F[d - 1])]
  <2>1. ASSUME NEW d \in Nat
        PROVE  F[d] = IF d = 0 THEN {Nil} ELSE {Nil} \cup Branch(F[d - 1])
    <3> DEFINE f == CHOOSE f : UptoAsFar(f, d)
               g == CHOOSE g : UptoAsFar(g, d - 1)
    <3>1. UptoAsFar(f, d)
      BY <1>1
    <3>2. d # 0 => UptoAsFar(g, d - 1) /\ d - 1 \in Nat
      BY <1>1
    <3>3. F[d] = f[d] /\ (d # 0 => F[d - 1] = g[d - 1])
      BY <3>2
    <3> HIDE DEF f, g, F
    <3>4. d # 0 => g[d - 1] = f[d - 1]
      BY <1>2, <3>1, <3>2
    <3>5. f[d] = IF d = 0 THEN {Nil} ELSE {Nil} \cup Branch(f[d - 1])
      <4>1. d \in 0 .. d
        OBVIOUS
      <4> QED BY <3>1, <4>1 DEF UptoAsFar
    <3> QED BY <3>3, <3>4, <3>5
  <2>2. F = [d \in Nat |-> F[d]]
    OBVIOUS
  <2> HIDE DEF F
  <2> QED BY <2>1, <2>2
<1>4. Upto = [d \in Nat |-> IF d = 0 THEN {Nil} ELSE {Nil} \cup Branch(Upto[d - 1])]
  <2> HIDE DEF F
  <2> QED BY <1>3 DEF Upto, Branch
<1> QED BY <1>4

\* A node is not the empty tree.
LEMMA NilIsNoBranch == \A S : Nil \notin Branch(S)
<1> SUFFICES ASSUME NEW S, Nil \in Branch(S) PROVE FALSE
  OBVIOUS
<1>1. DOMAIN Nil = {}
  BY DEF Nil
<1>2. "id" \in DOMAIN Nil
  BY DEF Branch
<1> QED BY <1>1, <1>2

\* More levels, more trees.
LEMMA UptoGrows ==
    ASSUME NEW m \in Nat, NEW n \in Nat, m <= n
    PROVE  Upto[m] \subseteq Upto[n]
<1>1. \A d \in Nat : Upto[d] \subseteq Upto[d + 1]
  <2> DEFINE T == {d \in Nat : ~ (Upto[d] \subseteq Upto[d + 1])}
  <2>1. SUFFICES ASSUME T # {} PROVE FALSE
    OBVIOUS
  <2>2. PICK d \in T : \A y \in T : ~ (y < d)
    <3>1. T \subseteq Nat
      OBVIOUS
    <3> HIDE DEF T
    <3> QED BY <2>1, <3>1, LeastNumber
  <2>3. CASE d = 0
    <3>1. Upto[1] = {Nil} \cup Branch(Upto[1 - 1])
      BY UptoIs
    <3> QED BY <2>3, <3>1, UptoIs
  <2>4. CASE d # 0
    <3>1. d - 1 \in Nat /\ d - 1 < d /\ d \in Nat \ {0} /\ d + 1 \in Nat \ {0}
      BY <2>4
    <3>2. Upto[d - 1] \subseteq Upto[(d - 1) + 1]
      BY <2>2, <3>1
    <3>3. (d - 1) + 1 = d /\ (d + 1) - 1 = d
      BY <3>1
    <3>4. Upto[d] = {Nil} \cup Branch(Upto[d - 1])
      BY <3>1, UptoIs
    <3>5. Upto[d + 1] = {Nil} \cup Branch(Upto[d])
      BY <3>1, <3>3, UptoIs
    <3>6. Branch(Upto[d - 1]) \subseteq Branch(Upto[d])
      BY <3>2, <3>3 DEF Branch
    <3> QED BY <3>4, <3>5, <3>6
  <2> QED BY <2>3, <2>4
<1> DEFINE T == {d \in Nat : m <= d /\ ~ (Upto[m] \subseteq Upto[d])}
<1>2. SUFFICES ASSUME T # {} PROVE FALSE
  OBVIOUS
<1>3. PICK d \in T : \A y \in T : ~ (y < d)
  <2>1. T \subseteq Nat
    OBVIOUS
  <2> HIDE DEF T
  <2> QED BY <1>2, <2>1, LeastNumber
<1>4. d # m
  OBVIOUS
<1>5. d - 1 \in Nat /\ m <= d - 1 /\ d - 1 < d /\ (d - 1) + 1 = d
  BY <1>4
<1>6. Upto[m] \subseteq Upto[d - 1]
  BY <1>3, <1>5
<1>7. Upto[d - 1] \subseteq Upto[(d - 1) + 1]
  BY <1>1, <1>5
<1> QED BY <1>5, <1>6, <1>7

\* A tree is empty or a node with two trees.
LEMMA TreeIs == AllTrees = {Nil} \cup Branch(AllTrees) /\ Branches = Branch(AllTrees)
<1>1. ASSUME NEW t \in AllTrees, t # Nil
      PROVE  t \in Branch(AllTrees)
  <2>1. PICK d \in Nat : t \in Upto[d]
    BY DEF AllTrees
  <2>2. d # 0
    BY <1>1, <2>1, UptoIs
  <2>3. d - 1 \in Nat
    BY <2>2
  <2>4. t \in Branch(Upto[d - 1])
    BY <1>1, <2>1, <2>2, UptoIs
  <2> QED BY <2>3, <2>4 DEF Branch, AllTrees
<1>2. ASSUME NEW t \in Branch(AllTrees)
      PROVE  t \in AllTrees
  <2>1. t.left \in AllTrees /\ t.right \in AllTrees
    BY DEF Branch
  <2>2. PICK l \in Nat : t.left \in Upto[l]
    BY <2>1 DEF AllTrees
  <2>3. PICK r \in Nat : t.right \in Upto[r]
    BY <2>1 DEF AllTrees
  <2>4. PICK d \in Nat : l <= d /\ r <= d
    OBVIOUS
  <2>5. Upto[l] \subseteq Upto[d] /\ Upto[r] \subseteq Upto[d]
    BY <2>4, UptoGrows
  <2>6. t \in Branch(Upto[d])
    BY <2>2, <2>3, <2>5 DEF Branch
  <2>7. d + 1 \in Nat \ {0} /\ (d + 1) - 1 = d
    OBVIOUS
  <2>8. Upto[d + 1] = {Nil} \cup Branch(Upto[d])
    BY <2>7, UptoIs
  <2> QED BY <2>6, <2>7, <2>8 DEF AllTrees
<1>3. Nil \in AllTrees
  BY UptoIs DEF AllTrees
<1> QED BY <1>1, <1>2, <1>3, NilIsNoBranch DEF Branches

\* What holds of the empty tree and of a node if it does of its children holds of
\* all trees.
LEMMA TreeInduction ==
    ASSUME NEW S, Nil \in S,
           \A t \in Branches : t.left \in S /\ t.right \in S => t \in S
    PROVE  AllTrees \subseteq S
<1> DEFINE T == {d \in Nat : ~ (Upto[d] \subseteq S)}
<1>1. SUFFICES ASSUME T # {} PROVE FALSE
  BY DEF AllTrees
<1>2. PICK d \in T : \A y \in T : ~ (y < d)
  <2>1. T \subseteq Nat
    OBVIOUS
  <2> HIDE DEF T
  <2> QED BY <1>1, <2>1, LeastNumber
<1>3. d # 0
  BY UptoIs
<1>4. d - 1 \in Nat /\ d - 1 < d
  BY <1>3
<1>5. Upto[d - 1] \subseteq S
  BY <1>2, <1>4
<1>6. Upto[d] = {Nil} \cup Branch(Upto[d - 1])
  BY <1>3, UptoIs
<1>7. ASSUME NEW t \in Branch(Upto[d - 1])
      PROVE  t \in S
  <2>1. t.left \in S /\ t.right \in S
    BY <1>5 DEF Branch
  <2>2. Branch(Upto[d - 1]) \subseteq Branch(AllTrees)
    BY <1>4 DEF Branch, AllTrees
  <2> QED BY <2>1, <2>2, TreeIs
<1> QED BY <1>6, <1>7

\* The trees of the calls: no deeper than there are nodes.
LEMMA TreesAre ==
    /\ Nil \in Trees
    /\ Trees \subseteq AllTrees
    /\ \A t \in Trees \ {Nil} : t.left \in Trees /\ t.right \in Trees
<1>1. Cardinality(Nodes) \in Nat
  BY TreeAssumption, FS_CardinalityType
<1> DEFINE N == Cardinality(Nodes)
<1> HIDE DEF N
<1>2. N \in Nat /\ Trees = Upto[N]
  BY <1>1 DEF N, Trees
<1>3. CASE N = 0
  BY <1>2, <1>3, UptoIs DEF AllTrees
<1>4. CASE N # 0
  <2>1. Upto[N] = {Nil} \cup Branch(Upto[N - 1]) /\ N - 1 \in Nat /\ N - 1 <= N
    BY <1>2, <1>4, UptoIs
  <2>2. Upto[N - 1] \subseteq Upto[N]
    BY <1>2, <2>1, UptoGrows
  <2> QED BY <1>2, <2>1, <2>2 DEF AllTrees, Branch
<1> QED BY <1>3, <1>4

\* D holds the children of its members, and R the value of every tree whose children
\* have theirs in R.
DownClosed(D) == /\ Nil \in D
                 /\ D \subseteq AllTrees
                 /\ \A t \in D \ {Nil} : t.left \in D /\ t.right \in D

Steps(D, V, base, step, R) ==
    /\ <<Nil, base>> \in R
    /\ \A t \in D \ {Nil}, a \in V, b \in V :
          <<t.left, a>> \in R /\ <<t.right, b>> \in R => <<t, step[<<t, a, b>>]>> \in R

\* A function of a tree may be defined by its value for the empty tree and, for
\* a node, by those of the children.
LEMMA TreeRecursion ==
    ASSUME NEW D, DownClosed(D), NEW V, NEW base \in V,
           NEW step \in [(D \ {Nil}) \X V \X V -> V]
    PROVE  \E f \in [D -> V] :
              /\ f[Nil] = base
              /\ \A t \in D \ {Nil} : f[t] = step[<<t, f[t.left], f[t.right]>>]
<1> DEFINE Least == {x \in D \X V : \A R \in SUBSET (D \X V) :
                                       Steps(D, V, base, step, R) => x \in R}
<1>1. Steps(D, V, base, step, Least)
  <2>1. <<Nil, base>> \in Least
    BY DEF Steps, DownClosed
  <2>2. ASSUME NEW t \in D \ {Nil}, NEW a \in V, NEW b \in V,
               <<t.left, a>> \in Least, <<t.right, b>> \in Least
        PROVE  <<t, step[<<t, a, b>>]>> \in Least
    <3>1. <<t, a, b>> \in (D \ {Nil}) \X V \X V
      OBVIOUS
    <3>2. step[<<t, a, b>>] \in V
      BY <3>1
    <3>3. ASSUME NEW R \in SUBSET (D \X V), Steps(D, V, base, step, R)
          PROVE  <<t, step[<<t, a, b>>]>> \in R
      <4>1. <<t.left, a>> \in R /\ <<t.right, b>> \in R
        BY <2>2, <3>3
      <4> QED BY <3>3, <4>1 DEF Steps
    <3>4. <<t, step[<<t, a, b>>]>> \in D \X V
      BY <3>2
    <3> QED BY <3>3, <3>4
  <2> HIDE DEF Least
  <2> QED BY <2>1, <2>2 DEF Steps
<1>2. \A R \in SUBSET (D \X V) : Steps(D, V, base, step, R) => Least \subseteq R
  OBVIOUS
<1>3. Least \subseteq D \X V
  OBVIOUS
<1> HIDE DEF Least
<1>4. \A t \in D : \E v \in V : <<t, v>> \in Least
  <2> DEFINE S == {t \in AllTrees : t \in D => \E v \in V : <<t, v>> \in Least}
  <2>1. Nil \in S
    BY <1>1, TreeIs DEF Steps
  <2>2. ASSUME NEW t \in Branches, t.left \in S, t.right \in S
        PROVE  t \in S
    <3>1. SUFFICES ASSUME t \in D PROVE \E v \in V : <<t, v>> \in Least
      BY DEF Branches
    <3>2. t \in D \ {Nil} /\ t.left \in D /\ t.right \in D
      BY <3>1 DEF DownClosed, Branches
    <3>3. PICK a \in V : <<t.left, a>> \in Least
      BY <2>2, <3>2
    <3>4. PICK b \in V : <<t.right, b>> \in Least
      BY <2>2, <3>2
    <3>5. <<t, step[<<t, a, b>>]>> \in Least
      BY <1>1, <3>2, <3>3, <3>4 DEF Steps
    <3> QED BY <1>3, <3>5
  <2> HIDE DEF S
  <2>3. AllTrees \subseteq S
    BY <2>1, <2>2, TreeInduction
  <2> QED BY <2>3 DEF S, DownClosed
<1>5. \A t \in D : \A u, v \in V : <<t, u>> \in Least /\ <<t, v>> \in Least => u = v
  <2> DEFINE S == {t \in AllTrees : t \in D =>
                     \A u, v \in V : <<t, u>> \in Least /\ <<t, v>> \in Least => u = v}
  <2>1. Nil \in S
    <3>1. SUFFICES ASSUME NEW v \in V, <<Nil, v>> \in Least, v # base PROVE FALSE
      BY TreeIs
    <3> DEFINE R == Least \ {<<Nil, v>>}
    <3>2. Steps(D, V, base, step, R)
      <4>1. <<Nil, base>> \in R
        BY <1>1, <3>1 DEF Steps
      <4>2. ASSUME NEW t \in D \ {Nil}, NEW a \in V, NEW b \in V,
                   <<t.left, a>> \in R, <<t.right, b>> \in R
            PROVE  <<t, step[<<t, a, b>>]>> \in R
        <5>1. <<t, step[<<t, a, b>>]>> \in Least
          BY <1>1, <4>2 DEF Steps
        <5> QED BY <5>1
      <4> HIDE DEF R
      <4> QED BY <4>1, <4>2 DEF Steps
    <3>3. Least \subseteq R
      BY <1>2, <1>3, <3>2
    <3> QED BY <3>1, <3>3
  <2>2. ASSUME NEW t \in Branches, t.left \in S, t.right \in S
        PROVE  t \in S
    <3>1. SUFFICES ASSUME t \in D
                   PROVE  \A u, v \in V : <<t, u>> \in Least /\ <<t, v>> \in Least => u = v
      BY DEF Branches
    <3>2. t \in D \ {Nil} /\ t.left \in D /\ t.right \in D
      BY <3>1 DEF DownClosed, Branches
    <3>3. PICK a \in V : <<t.left, a>> \in Least
      BY <1>4, <3>2
    <3>4. PICK b \in V : <<t.right, b>> \in Least
      BY <1>4, <3>2
    <3> DEFINE w == step[<<t, a, b>>]
    <3>5. SUFFICES ASSUME NEW v \in V, <<t, v>> \in Least, v # w PROVE FALSE
      OBVIOUS
    <3> DEFINE R == Least \ {<<t, v>>}
    <3>6. Steps(D, V, base, step, R)
      <4>1. <<Nil, base>> \in R
        BY <1>1, <3>2 DEF Steps
      <4>2. ASSUME NEW s \in D \ {Nil}, NEW c \in V, NEW d \in V,
                   <<s.left, c>> \in R, <<s.right, d>> \in R
            PROVE  <<s, step[<<s, c, d>>]>> \in R
        <5>1. <<s, step[<<s, c, d>>]>> \in Least
          BY <1>1, <4>2 DEF Steps
        <5>2. CASE s # t
          BY <5>1, <5>2
        <5>3. CASE s = t
          <6>1. c = a /\ d = b
            BY <2>2, <3>2, <3>3, <3>4, <4>2, <5>3
          <6> QED BY <3>5, <5>1, <5>3, <6>1
        <5> QED BY <5>2, <5>3
      <4> HIDE DEF R
      <4> QED BY <4>1, <4>2 DEF Steps
    <3>7. Least \subseteq R
      BY <1>2, <1>3, <3>6
    <3> QED BY <3>5, <3>7
  <2> HIDE DEF S
  <2>3. AllTrees \subseteq S
    BY <2>1, <2>2, TreeInduction
  <2> QED BY <2>3 DEF S, DownClosed
<1> DEFINE f == [t \in D |-> CHOOSE v \in V : <<t, v>> \in Least]
<1>6. \A t \in D : f[t] \in V /\ <<t, f[t]>> \in Least
  BY <1>4
<1>7. f \in [D -> V]
  BY <1>6
<1> HIDE DEF f
<1>8. f[Nil] = base
  BY <1>1, <1>5, <1>6 DEF Steps, DownClosed
<1>9. ASSUME NEW t \in D \ {Nil}
      PROVE  f[t] = step[<<t, f[t.left], f[t.right]>>]
  <2>1. t.left \in D /\ t.right \in D
    BY DEF DownClosed
  <2>2. f[t.left] \in V /\ f[t.right] \in V
    BY <1>6, <2>1
  <2>3. <<t, step[<<t, f[t.left], f[t.right]>>]>> \in Least
    BY <1>1, <1>6, <2>1, <2>2 DEF Steps
  <2>4. step[<<t, f[t.left], f[t.right]>>] \in V
    BY <1>3, <2>3
  <2> QED BY <1>5, <1>6, <2>3, <2>4
<1> QED BY <1>7, <1>8, <1>9

-----------------------------------------------------------------------------
(* Nodes and their sides *)

\* u is a node n with the subtree x on side d and y on the other one.
Built(u, d, x, n, y) == u \in Branches /\ u[d] = x /\ u.id = n /\ u[Other(d)] = y

\* The other side of the other side is the side.
LEMMA OtherSide == \A d \in Sides : Other(d) \in Sides /\ Other(Other(d)) = d /\ Other(d) # d
BY DEF Sides, Other

\* Every node is built of its parts, from either side.
LEMMA PartsOf ==
    ASSUME NEW t \in Branches, NEW d \in Sides
    PROVE  /\ t.id \in Nodes /\ t.height \in Nat
           /\ t[d] \in AllTrees /\ t[Other(d)] \in AllTrees
           /\ Built(t, d, t[d], t.id, t[Other(d)])
           /\ {t[d], t[Other(d)]} = {t.left, t.right}
           /\ t # Nil
<1>1. t \in Branch(AllTrees)
  BY TreeIs
<1>2. CASE d = "left"
  BY <1>1, <1>2 DEF Branch, Other, Built, Branches
<1>3. CASE d = "right"
  BY <1>1, <1>3 DEF Branch, Other, Built, Branches
<1> QED BY <1>2, <1>3 DEF Sides

\* A node may be given another subtree and height,
LEMMA WithChild ==
    ASSUME NEW t \in Branches, NEW d \in Sides, NEW x \in AllTrees, NEW h \in Nat
    PROVE  /\ Built([t EXCEPT ![d] = x], d, x, t.id, t[Other(d)])
           /\ [t EXCEPT ![d] = x].height = t.height
           /\ Built([t EXCEPT ![d] = x, !.height = h], d, x, t.id, t[Other(d)])
           /\ [t EXCEPT ![d] = x, !.height = h].height = h
<1>1. t \in Branch(AllTrees)
  BY TreeIs
<1>2. CASE d = "left"
  <2>1. /\ [t EXCEPT !.left = x] \in Branch(AllTrees)
        /\ [t EXCEPT !.left = x, !.height = h] \in Branch(AllTrees)
    BY <1>1 DEF Branch
  <2>2. /\ [t EXCEPT !.left = x].left = x
        /\ [t EXCEPT !.left = x].right = t.right
        /\ [t EXCEPT !.left = x].id = t.id
        /\ [t EXCEPT !.left = x].height = t.height
    BY <1>1 DEF Branch
  <2>3. /\ [t EXCEPT !.left = x, !.height = h].left = x
        /\ [t EXCEPT !.left = x, !.height = h].right = t.right
        /\ [t EXCEPT !.left = x, !.height = h].id = t.id
        /\ [t EXCEPT !.left = x, !.height = h].height = h
    BY <1>1 DEF Branch
  <2>4. Other(d) = "right"
    BY <1>2 DEF Other
  <2> QED BY <1>2, <2>1, <2>2, <2>3, <2>4, TreeIs, Zenon DEF Built
<1>3. CASE d = "right"
  <2>1. /\ [t EXCEPT !.right = x] \in Branch(AllTrees)
        /\ [t EXCEPT !.right = x, !.height = h] \in Branch(AllTrees)
    BY <1>1 DEF Branch
  <2>2. /\ [t EXCEPT !.right = x].right = x
        /\ [t EXCEPT !.right = x].left = t.left
        /\ [t EXCEPT !.right = x].id = t.id
        /\ [t EXCEPT !.right = x].height = t.height
    BY <1>1 DEF Branch
  <2>3. /\ [t EXCEPT !.right = x, !.height = h].right = x
        /\ [t EXCEPT !.right = x, !.height = h].left = t.left
        /\ [t EXCEPT !.right = x, !.height = h].id = t.id
        /\ [t EXCEPT !.right = x, !.height = h].height = h
    BY <1>1 DEF Branch
  <2>4. Other(d) = "left"
    BY <1>3 DEF Other
  <2> QED BY <1>3, <2>1, <2>2, <2>3, <2>4, TreeIs, Zenon DEF Built
<1> QED BY <1>2, <1>3 DEF Sides

\* another height alone,
LEMMA WithHeight ==
    ASSUME NEW t \in Branches, NEW d \in Sides, NEW h \in Nat
    PROVE  Built([t EXCEPT !.height = h], d, t[d], t.id, t[Other(d)])
<1>1. t \in Branch(AllTrees)
  BY TreeIs
<1>2. [t EXCEPT !.height = h] \in Branches
  BY <1>1, TreeIs DEF Branch
<1>3. CASE d = "left"
  BY <1>1, <1>2, <1>3 DEF Branch, Other, Built
<1>4. CASE d = "right"
  BY <1>1, <1>2, <1>4 DEF Branch, Other, Built
<1> QED BY <1>3, <1>4 DEF Sides

\* or another name, by which one node takes the place of another.
LEMMA WithName ==
    ASSUME NEW t \in Branches, NEW d \in Sides, NEW n \in Nodes, NEW x \in AllTrees, NEW h \in Nat
    PROVE  /\ Built([t EXCEPT !.id = n], d, t[d], n, t[Other(d)])
           /\ Built([t EXCEPT !.id = n, !.height = h], d, t[d], n, t[Other(d)])
           /\ Built([t EXCEPT !.id = n, ![d] = x], d, x, n, t[Other(d)])
<1>1. t \in Branch(AllTrees)
  BY TreeIs
<1>2. /\ [t EXCEPT !.id = n] \in Branch(AllTrees)
      /\ [t EXCEPT !.id = n].id = n
      /\ [t EXCEPT !.id = n].left = t.left
      /\ [t EXCEPT !.id = n].right = t.right
  BY <1>1 DEF Branch
<1>3. /\ [t EXCEPT !.id = n, !.height = h] \in Branch(AllTrees)
      /\ [t EXCEPT !.id = n, !.height = h].id = n
      /\ [t EXCEPT !.id = n, !.height = h].left = t.left
      /\ [t EXCEPT !.id = n, !.height = h].right = t.right
  BY <1>1 DEF Branch
<1>4. CASE d = "left"
  <2>1. [t EXCEPT !.id = n, !.left = x] \in Branch(AllTrees)
    BY <1>1 DEF Branch
  <2>2. /\ [t EXCEPT !.id = n, !.left = x].left = x
        /\ [t EXCEPT !.id = n, !.left = x].right = t.right
        /\ [t EXCEPT !.id = n, !.left = x].id = n
    BY <1>1 DEF Branch
  <2>3. Other(d) = "right"
    BY <1>4 DEF Other
  <2> QED BY <1>2, <1>3, <1>4, <2>1, <2>2, <2>3, TreeIs, Zenon DEF Built
<1>5. CASE d = "right"
  <2>1. [t EXCEPT !.id = n, !.right = x] \in Branch(AllTrees)
    BY <1>1 DEF Branch
  <2>2. /\ [t EXCEPT !.id = n, !.right = x].right = x
        /\ [t EXCEPT !.id = n, !.right = x].left = t.left
        /\ [t EXCEPT !.id = n, !.right = x].id = n
    BY <1>1 DEF Branch
  <2>3. Other(d) = "left"
    BY <1>5 DEF Other
  <2> QED BY <1>2, <1>3, <1>5, <2>1, <2>2, <2>3, TreeIs, Zenon DEF Built
<1> QED BY <1>4, <1>5 DEF Sides

-----------------------------------------------------------------------------
(* What is in a tree, and in which order *)

Ids[t \in AllTrees] == IF t = Nil THEN {} ELSE Ids[t.left] \cup {t.id} \cup Ids[t.right]

\* Node m may be on side d of node n.
Before(d, m, n) == IF d = "left" THEN Key[m] <= Key[n] ELSE Key[m] >= Key[n]

Between(t) == /\ \A m \in Ids[t.left] : Before("left", m, t.id)
              /\ \A m \in Ids[t.right] : Before("right", m, t.id)
              /\ t.id \notin Ids[t.left] \cup Ids[t.right]
              /\ Ids[t.left] \cap Ids[t.right] = {}

\* A search tree: no key is on the wrong side of another, and no node there twice.
Sorted[t \in AllTrees] == IF t = Nil THEN TRUE ELSE Sorted[t.left] /\ Sorted[t.right] /\ Between(t)

\* All trees hold their children, and so do those of the calls.
LEMMA TreesDownClosed == DownClosed(AllTrees) /\ DownClosed(Trees)
<1>1. DownClosed(AllTrees)
  BY TreeIs DEF DownClosed, Branch
<1> QED BY <1>1, TreesAre DEF DownClosed

\* The equation of Ids.
LEMMA IdsAre ==
    Ids = [t \in AllTrees |-> IF t = Nil THEN {} ELSE Ids[t.left] \cup {t.id} \cup Ids[t.right]]
<1> DEFINE V    == SUBSET Nodes
           step == [x \in (AllTrees \ {Nil}) \X V \X V |-> x[2] \cup {x[1].id} \cup x[3]]
<1>1. step \in [(AllTrees \ {Nil}) \X V \X V -> V]
  BY TreeIs DEF Branch
<1>2. PICK f \in [AllTrees -> V] :
         /\ f[Nil] = {}
         /\ \A t \in AllTrees \ {Nil} : f[t] = step[<<t, f[t.left], f[t.right]>>]
  <2> HIDE DEF step, V
  <2>1. {} \in V
    BY DEF V
  <2> QED BY <1>1, <2>1, TreeRecursion, TreesDownClosed
<1>3. ASSUME NEW t \in AllTrees
      PROVE  f[t] = IF t = Nil THEN {} ELSE f[t.left] \cup {t.id} \cup f[t.right]
  <2>1. CASE t # Nil
    <3>1. t.left \in AllTrees /\ t.right \in AllTrees
      BY <2>1, TreesDownClosed DEF DownClosed
    <3>2. <<t, f[t.left], f[t.right]>> \in (AllTrees \ {Nil}) \X V \X V
      BY <2>1, <3>1
    <3> QED BY <1>2, <2>1, <3>2
  <2> QED BY <1>2, <2>1
<1>4. f = [t \in AllTrees |-> IF t = Nil THEN {} ELSE f[t.left] \cup {t.id} \cup f[t.right]]
  BY <1>3
<1> QED BY <1>4 DEF Ids

\* The equation of Sorted.
LEMMA SortedAre ==
    /\ Sorted = [t \in AllTrees |->
                   IF t = Nil THEN TRUE ELSE Sorted[t.left] /\ Sorted[t.right] /\ Between(t)]
    /\ \A t \in AllTrees : Sorted[t] \in BOOLEAN
<1> DEFINE V    == BOOLEAN
           step == [x \in (AllTrees \ {Nil}) \X V \X V |-> x[2] /\ x[3] /\ Between(x[1])]
<1>1. step \in [(AllTrees \ {Nil}) \X V \X V -> V]
  OBVIOUS
<1> DEFINE base == TRUE
<1>2. PICK f \in [AllTrees -> V] :
         /\ f[Nil] = base
         /\ \A t \in AllTrees \ {Nil} : f[t] = step[<<t, f[t.left], f[t.right]>>]
  <2>1. base \in V
    OBVIOUS
  <2> HIDE DEF step, V, base
  <2> QED BY <1>1, <2>1, TreeRecursion, TreesDownClosed
<1>3. ASSUME NEW t \in AllTrees
      PROVE  f[t] = IF t = Nil THEN TRUE ELSE f[t.left] /\ f[t.right] /\ Between(t)
  <2>1. CASE t # Nil
    <3>1. t.left \in AllTrees /\ t.right \in AllTrees
      BY <2>1, TreesDownClosed DEF DownClosed
    <3>2. <<t, f[t.left], f[t.right]>> \in (AllTrees \ {Nil}) \X V \X V
      BY <2>1, <3>1
    <3> QED BY <1>2, <2>1, <3>2
  <2> QED BY <1>2, <2>1
<1>4. f = [t \in AllTrees |-> IF t = Nil THEN TRUE ELSE f[t.left] /\ f[t.right] /\ Between(t)]
  BY <1>3
<1>5. Sorted = [t \in AllTrees |->
                  IF t = Nil THEN TRUE ELSE Sorted[t.left] /\ Sorted[t.right] /\ Between(t)]
  BY <1>4 DEF Sorted
<1>6. ASSUME NEW t \in AllTrees
      PROVE  Sorted[t] \in BOOLEAN
  BY <1>5
<1> QED BY <1>5, <1>6

\* The empty tree.
LEMMA NilIs == Nil \in AllTrees /\ Ids[Nil] = {} /\ Sorted[Nil]
BY IdsAre, SortedAre, TreeIs

\* A tree holds nodes.
LEMMA IdsType == \A t \in AllTrees : Ids[t] \subseteq Nodes
<1> DEFINE S == {t \in AllTrees : Ids[t] \subseteq Nodes}
<1>1. Nil \in S
  BY NilIs
<1>2. ASSUME NEW t \in Branches, t.left \in S, t.right \in S
      PROVE  t \in S
  <2>1. t \in AllTrees /\ t # Nil /\ t.id \in Nodes
    BY TreeIs, NilIsNoBranch DEF Branch
  <2> QED BY <1>2, <2>1, IdsAre
<1> HIDE DEF S
<1>3. AllTrees \subseteq S
  BY <1>1, <1>2, TreeInduction
<1> QED BY <1>3 DEF S

\* From either side, a node holds what its subtrees do and itself, and is sorted if
\* they are and lie on their sides.
LEMMA BuiltIs ==
    ASSUME NEW d \in Sides, NEW x \in AllTrees, NEW y \in AllTrees, NEW u, NEW n,
           Built(u, d, x, n, y)
    PROVE  /\ n \in Nodes
           /\ Ids[u] = Ids[x] \cup {n} \cup Ids[y]
           /\ Sorted[u] <=> /\ Sorted[x] /\ Sorted[y]
                            /\ \A m \in Ids[x] : Before(d, m, n)
                            /\ \A m \in Ids[y] : Before(Other(d), m, n)
                            /\ n \notin Ids[x] \cup Ids[y]
                            /\ Ids[x] \cap Ids[y] = {}
<1>1. u \in AllTrees /\ u # Nil /\ u.id = n /\ n \in Nodes
  BY TreeIs, NilIsNoBranch DEF Built, Branch
<1>2. Ids[u] = Ids[u.left] \cup {n} \cup Ids[u.right]
  BY <1>1, IdsAre
<1>3. Sorted[u] <=> Sorted[u.left] /\ Sorted[u.right] /\ Between(u)
  BY <1>1, SortedAre
<1>4. CASE d = "left"
  <2>1. u.left = x /\ u.right = y /\ Other(d) = "right"
    BY <1>4 DEF Built, Other
  <2> QED BY <1>1, <1>2, <1>3, <1>4, <2>1 DEF Between
<1>5. CASE d = "right"
  <2>1. u.left = y /\ u.right = x /\ Other(d) = "left"
    BY <1>5 DEF Built, Other
  <2> QED BY <1>1, <1>2, <1>3, <1>5, <2>1 DEF Between
<1> QED BY <1>1, <1>4, <1>5 DEF Sides

\* Sides are opposite, and an order.
LEMMA BeforeIs ==
    ASSUME NEW d \in Sides, NEW a \in Nodes, NEW b \in Nodes
    PROVE  /\ Before(d, a, b) <=> Before(Other(d), b, a)
           /\ \A c \in Nodes : Before(d, a, b) /\ Before(d, b, c) => Before(d, a, c)
<1>1. Key[a] \in Int /\ Key[b] \in Int /\ \A c \in Nodes : Key[c] \in Int
  BY TreeAssumption
<1> QED BY <1>1 DEF Before, Other, Sides

\* The contents of the trees of the calls.
LEMMA ContentsAre == \A t \in Trees : Contents[t] = Ids[t]
<1> DEFINE f == [t \in Trees |-> Ids[t]]
<1>1. f = [t \in Trees |-> IF t = Nil THEN {} ELSE f[t.left] \cup {t.id} \cup f[t.right]]
  <2>1. ASSUME NEW t \in Trees
        PROVE  f[t] = IF t = Nil THEN {} ELSE f[t.left] \cup {t.id} \cup f[t.right]
    <3>1. t \in AllTrees /\ (t # Nil => t.left \in Trees /\ t.right \in Trees)
      BY TreesAre
    <3> QED BY <3>1, IdsAre
  <2> HIDE DEF f
  <2>2. f = [t \in Trees |-> f[t]]
    BY DEF f
  <2> QED BY <2>1, <2>2
<1>2. Contents = [t \in Trees |->
                    IF t = Nil THEN {} ELSE Contents[t.left] \cup {t.id} \cup Contents[t.right]]
  <2> HIDE DEF f
  <2> QED BY <1>1 DEF Contents
<1> DEFINE S == {t \in AllTrees : t \in Trees => Contents[t] = Ids[t]}
<1>3. Nil \in S
  BY <1>2, NilIs
<1>4. ASSUME NEW t \in Branches, t.left \in S, t.right \in S
      PROVE  t \in S
  <2>1. SUFFICES ASSUME t \in Trees PROVE Contents[t] = Ids[t]
    BY DEF Branches
  <2>2. t \in AllTrees /\ t # Nil /\ t.left \in Trees /\ t.right \in Trees
    BY <2>1, TreesAre DEF Branches
  <2>3. Contents[t.left] = Ids[t.left] /\ Contents[t.right] = Ids[t.right]
    BY <1>4, <2>2
  <2>4. Contents[t] = Contents[t.left] \cup {t.id} \cup Contents[t.right]
    BY <1>2, <2>1, <2>2
  <2>5. Ids[t] = Ids[t.left] \cup {t.id} \cup Ids[t.right]
    BY <2>2, IdsAre
  <2> QED BY <2>3, <2>4, <2>5
<1> HIDE DEF S
<1>5. AllTrees \subseteq S
  BY <1>3, <1>4, TreeInduction
<1> QED BY <1>5, TreesAre DEF S

\* A search tree has no more levels than nodes: the trees of the calls are all
\* search trees there are.
LEMMA SortedFits == \A t \in AllTrees : Sorted[t] => t \in Trees
<1> DEFINE S == {t \in AllTrees : Sorted[t] => t \in Upto[Cardinality(Ids[t])]}
<1>1. \A t \in AllTrees : /\ IsFiniteSet(Ids[t])
                          /\ Cardinality(Ids[t]) \in Nat
                          /\ Cardinality(Ids[t]) <= Cardinality(Nodes)
  BY IdsType, TreeAssumption, FS_Subset, FS_CardinalityType
<1>2. Nil \in S
  BY NilIs, UptoIs, FS_EmptySet
<1>3. ASSUME NEW t \in Branches, t.left \in S, t.right \in S
      PROVE  t \in S
  <2>1. t \in Branch(AllTrees)
    BY TreeIs
  <2>2. SUFFICES ASSUME Sorted[t] PROVE t \in Upto[Cardinality(Ids[t])]
    BY DEF Branches
  <2>3. "left" \in Sides /\ Built(t, "left", t.left, t.id, t.right)
        /\ t.left \in AllTrees /\ t.right \in AllTrees /\ t \in AllTrees
    BY <2>1 DEF Sides, Built, Other, Branch, Branches
  <2> DEFINE A == Ids[t.left]
             B == Ids[t.right]
  <2>4. /\ Ids[t] = A \cup {t.id} \cup B
        /\ Sorted[t.left] /\ Sorted[t.right]
        /\ t.id \notin A \cup B
    BY <2>2, <2>3, BuiltIs
  <2>5. Cardinality(A) + 1 <= Cardinality(Ids[t]) /\ Cardinality(B) + 1 <= Cardinality(Ids[t])
    <3>1. IsFiniteSet(A) /\ IsFiniteSet(B) /\ IsFiniteSet(Ids[t])
      BY <1>1, <2>3
    <3>2. Cardinality(A \cup {t.id}) = Cardinality(A) + 1
      BY <2>4, <3>1, FS_AddElement
    <3>3. Cardinality(B \cup {t.id}) = Cardinality(B) + 1
      BY <2>4, <3>1, FS_AddElement
    <3>4. A \cup {t.id} \subseteq Ids[t] /\ B \cup {t.id} \subseteq Ids[t]
      BY <2>4
    <3>5. /\ Cardinality(A \cup {t.id}) <= Cardinality(Ids[t])
          /\ Cardinality(B \cup {t.id}) <= Cardinality(Ids[t])
      BY <3>1, <3>4, FS_Subset
    <3> QED BY <3>2, <3>3, <3>5
  <2> DEFINE c == Cardinality(Ids[t])
  <2>6. c \in Nat /\ Cardinality(A) \in Nat /\ Cardinality(B) \in Nat
    BY <1>1, <2>3
  <2>7. t.left \in Upto[Cardinality(A)] /\ t.right \in Upto[Cardinality(B)]
    BY <1>3, <2>4
  <2> HIDE DEF A, B, c
  <2>8. c # 0 /\ c - 1 \in Nat /\ Cardinality(A) <= c - 1 /\ Cardinality(B) <= c - 1
    BY <2>5, <2>6 DEF c
  <2>9. t.left \in Upto[c - 1] /\ t.right \in Upto[c - 1]
    BY <2>6, <2>7, <2>8, UptoGrows
  <2>10. t \in Branch(Upto[c - 1])
    BY <2>1, <2>9 DEF Branch
  <2>11. Upto[c] = {Nil} \cup Branch(Upto[c - 1])
    BY <2>6, <2>8, UptoIs
  <2> QED BY <2>10, <2>11 DEF c
<1>4. AllTrees \subseteq S
  <2> HIDE DEF S
  <2> QED BY <1>2, <1>3, TreeInduction
<1>5. ASSUME NEW t \in AllTrees, Sorted[t]
      PROVE  t \in Trees
  <2>1. t \in Upto[Cardinality(Ids[t])]
    BY <1>4, <1>5
  <2>2. Cardinality(Nodes) \in Nat
    BY TreeAssumption, FS_CardinalityType
  <2> QED BY <1>1, <2>1, <2>2, UptoGrows DEF Trees
<1> QED BY <1>5

-----------------------------------------------------------------------------
(* Rotations *)

\* u is t with its nodes arranged otherwise, and sorted if t is.
Same(u, t) == /\ u \in AllTrees
              /\ u = Nil <=> t = Nil
              /\ Ids[u] = Ids[t]
              /\ Sorted[t] => Sorted[u]

\* Heights are numbers.
LEMMA HeightsAre == \A t \in AllTrees : HeightOf(t) \in Nat
BY TreeIs DEF HeightOf, Branch

\* max_child_height and what is made of it.
LEMMA MeasuredIs ==
    ASSUME NEW t \in Branches, NEW d \in Sides
    PROVE  Built(Measured(t), d, t[d], t.id, t[Other(d)])
<1>1. HeightOf(t.left) \in Nat /\ HeightOf(t.right) \in Nat
  BY TreeIs, HeightsAre DEF Branch
<1>2. max_child_height(t) + 1 \in Nat
  BY <1>1 DEF max_child_height
<1> QED BY <1>2, WithHeight DEF Measured

\* Built looks the same from the other side.
LEMMA BuiltTurned ==
    ASSUME NEW d \in Sides, NEW u, NEW x, NEW n, NEW y
    PROVE  Built(u, Other(d), x, n, y) <=> Built(u, d, y, n, x)
BY OtherSide DEF Built

\* What is built of equal parts is the same.
LEMMA SameParts ==
    ASSUME NEW t \in Branches, NEW d \in Sides, NEW u, NEW x,
           Built(u, d, x, t.id, t[Other(d)]), Same(x, t[d])
    PROVE  Same(u, t)
<1>1. /\ t[d] \in AllTrees /\ t[Other(d)] \in AllTrees /\ x \in AllTrees
      /\ Built(t, d, t[d], t.id, t[Other(d)])
  BY PartsOf DEF Same
<1>2. u \in AllTrees /\ t \in AllTrees /\ u # Nil /\ t # Nil
  BY DEF Built, Branches
<1>3. /\ Ids[u] = Ids[x] \cup {t.id} \cup Ids[t[Other(d)]]
      /\ Sorted[u] <=> /\ Sorted[x] /\ Sorted[t[Other(d)]]
                       /\ \A m \in Ids[x] : Before(d, m, t.id)
                       /\ \A m \in Ids[t[Other(d)]] : Before(Other(d), m, t.id)
                       /\ t.id \notin Ids[x] \cup Ids[t[Other(d)]]
                       /\ Ids[x] \cap Ids[t[Other(d)]] = {}
  BY <1>1, BuiltIs
<1>4. /\ Ids[t] = Ids[t[d]] \cup {t.id} \cup Ids[t[Other(d)]]
      /\ Sorted[t] <=> /\ Sorted[t[d]] /\ Sorted[t[Other(d)]]
                       /\ \A m \in Ids[t[d]] : Before(d, m, t.id)
                       /\ \A m \in Ids[t[Other(d)]] : Before(Other(d), m, t.id)
                       /\ t.id \notin Ids[t[d]] \cup Ids[t[Other(d)]]
                       /\ Ids[t[d]] \cap Ids[t[Other(d)]] = {}
  BY <1>1, BuiltIs
<1> QED BY <1>2, <1>3, <1>4 DEF Same

\* A tree is the same as itself, and as what the same tree is the same as.
LEMMA SameIs ==
    /\ \A t \in AllTrees : Same(t, t)
    /\ \A t, u, v : Same(u, t) /\ Same(v, u) => Same(v, t)
BY DEF Same

\* Another height changes nothing else.
LEMMA SameHeights ==
    ASSUME NEW t \in Branches
    PROVE  /\ Same(Measured(t), t)
           /\ \A h \in Nat : Same([t EXCEPT !.height = h], t)
<1>1. "left" \in Sides /\ Same(t["left"], t["left"])
  BY PartsOf, SameIs DEF Sides
<1>2. Same(Measured(t), t)
  BY <1>1, MeasuredIs, SameParts
<1>3. ASSUME NEW h \in Nat PROVE Same([t EXCEPT !.height = h], t)
  BY <1>1, WithHeight, SameParts
<1> QED BY <1>2, <1>3

\* rotate_left and rotate_right keep the nodes and their order.
LEMMA LiftIs ==
    ASSUME NEW t \in AllTrees, NEW d \in Sides
    PROVE  Same(Lift(t, d), t)
<1>1. CASE t = Nil \/ t[d] = Nil
  BY <1>1, SameIs DEF Lift
<1>2. CASE t # Nil /\ t[d] # Nil
  <2> DEFINE o    == Other(d)
             up   == t[d]
             half == [t EXCEPT ![d] = up[o]]
             sunk == Measured(half)
             new  == [up EXCEPT ![o] = sunk, !.height = HeightOf(up[d]) + 1]
  <2>1. t \in Branches /\ o \in Sides /\ Other(o) = d
    BY <1>2, OtherSide DEF Branches
  <2>2. up \in Branches
    BY <1>2, <2>1, PartsOf DEF Branches
  <2>3. up[d] \in AllTrees /\ up[o] \in AllTrees /\ t[o] \in AllTrees /\ up \in AllTrees
    BY <2>1, <2>2, PartsOf DEF Branches
  <2>4. Built(half, d, up[o], t.id, t[o])
    BY <2>1, <2>3, WithChild
  <2>5. Built(sunk, d, up[o], t.id, t[o])
    BY <2>4, MeasuredIs DEF Built
  <2>6. HeightOf(up[d]) + 1 \in Nat /\ sunk \in AllTrees
    BY <2>3, <2>5, HeightsAre DEF Built, Branches
  <2>7. Built(new, o, sunk, up.id, up[d])
    BY <2>1, <2>2, <2>6, WithChild
  <2>8. Built(new, d, up[d], up.id, sunk)
    BY <2>7, BuiltTurned
  <2>9. Built(t, d, up, t.id, t[o]) /\ Built(up, d, up[d], up.id, up[o])
    BY <2>1, <2>2, PartsOf
  <2>10. Lift(t, d) = new
    BY <1>2 DEF Lift
  <2> HIDE DEF o, up, half, sunk, new
  <2> DEFINE A == Ids[up[d]]
             B == Ids[up[o]]
             C == Ids[t[o]]
             p == up.id
             q == t.id
  <2>11. /\ p \in Nodes /\ q \in Nodes
         /\ Ids[t] = Ids[up] \cup {q} \cup C
         /\ Ids[up] = A \cup {p} \cup B
         /\ Ids[sunk] = B \cup {q} \cup C
         /\ Ids[new] = A \cup {p} \cup Ids[sunk]
    BY <2>3, <2>5, <2>6, <2>8, <2>9, BuiltIs DEF o
  <2>12. ASSUME Sorted[t] PROVE Sorted[new]
    <3>1. /\ Sorted[up] /\ Sorted[t[o]]
          /\ \A m \in Ids[up] : Before(d, m, q)
          /\ \A m \in C : Before(o, m, q)
          /\ q \notin Ids[up] \cup C /\ Ids[up] \cap C = {}
      BY <2>3, <2>9, <2>12, BuiltIs DEF o
    <3>2. /\ Sorted[up[d]] /\ Sorted[up[o]]
          /\ \A m \in A : Before(d, m, p)
          /\ \A m \in B : Before(o, m, p)
          /\ p \notin A \cup B /\ A \cap B = {}
      BY <2>3, <2>9, <3>1, BuiltIs DEF o
    <3>3. Sorted[sunk]
      <4>1. \A m \in B : Before(d, m, q)
        BY <2>11, <3>1
      <4>2. q \notin B \cup C /\ B \cap C = {}
        BY <2>11, <3>1
      <4> QED BY <2>3, <2>5, <3>1, <3>2, <4>1, <4>2, BuiltIs DEF o
    <3>4. \A m \in Ids[sunk] : Before(o, m, p)
      <4>1. Before(o, q, p)
        BY <2>11, <3>1, BeforeIs DEF o
      <4>2. \A m \in C : Before(o, m, p)
        <5>1. C \subseteq Nodes
          BY <2>3, IdsType
        <5> QED BY <2>1, <2>11, <3>1, <4>1, <5>1, BeforeIs
      <4> QED BY <2>11, <3>2, <4>1, <4>2
    <3>5. p \notin A \cup Ids[sunk] /\ A \cap Ids[sunk] = {}
      BY <2>11, <3>1, <3>2
    <3> QED BY <2>3, <2>6, <2>8, <3>2, <3>3, <3>4, <3>5, BuiltIs DEF o
  <2> QED BY <1>2, <2>8, <2>10, <2>11, <2>12 DEF Same, Built, Branches
<1> QED BY <1>1, <1>2

\* And so do two rotations.
LEMMA LiftTwiceIs ==
    ASSUME NEW t \in Branches, NEW d \in Sides
    PROVE  Same(LiftTwice(t, d), t) /\ Same(LiftOuter(t, d), t)
<1> DEFINE x == Lift(t[d], Other(d))
           u == [t EXCEPT ![d] = x]
<1>1. Same(x, t[d]) /\ x \in AllTrees
  BY PartsOf, OtherSide, LiftIs DEF Same
<1>2. Built(u, d, x, t.id, t[Other(d)])
  BY <1>1, WithChild
<1>3. Same(u, t)
  BY <1>1, <1>2, SameParts
<1>4. Same(Lift(u, d), u)
  BY <1>3, LiftIs DEF Same
<1>5. Same(LiftTwice(t, d), t)
  BY <1>3, <1>4, SameIs DEF LiftTwice
<1>6. Same(Lift(t, d), t)
  BY LiftIs DEF Branches
<1> QED BY <1>5, <1>6 DEF LiftOuter

-----------------------------------------------------------------------------
(* Heights of leaves *)

\* No leaf is higher than 1: so none is taken for a subtree to be rotated, which
\* would leave the child that is measured afterwards missing.
Low[t \in AllTrees] ==
    IF t = Nil THEN TRUE
    ELSE Low[t.left] /\ Low[t.right] /\ (t.left = Nil /\ t.right = Nil => t.height <= 1)

LowBelow(t) == Low[t.left] /\ Low[t.right]

\* The equation of Low.
LEMMA LowAre ==
    /\ Low = [t \in AllTrees |->
                IF t = Nil THEN TRUE
                ELSE Low[t.left] /\ Low[t.right] /\ (t.left = Nil /\ t.right = Nil => t.height <= 1)]
    /\ \A t \in AllTrees : Low[t] \in BOOLEAN
<1> DEFINE V    == BOOLEAN
           low(t) == t.left = Nil /\ t.right = Nil => t.height <= 1
           step == [x \in (AllTrees \ {Nil}) \X V \X V |-> x[2] /\ x[3] /\ low(x[1])]
<1> HIDE DEF low
<1>1. step \in [(AllTrees \ {Nil}) \X V \X V -> V]
  OBVIOUS
<1> DEFINE base == TRUE
<1>2. PICK f \in [AllTrees -> V] :
         /\ f[Nil] = base
         /\ \A t \in AllTrees \ {Nil} : f[t] = step[<<t, f[t.left], f[t.right]>>]
  <2>1. base \in V
    OBVIOUS
  <2> HIDE DEF step, V, base
  <2> QED BY <1>1, <2>1, TreeRecursion, TreesDownClosed
<1>3. ASSUME NEW t \in AllTrees
      PROVE  f[t] = IF t = Nil THEN TRUE ELSE f[t.left] /\ f[t.right] /\ low(t)
  <2>1. CASE t # Nil
    <3>1. t.left \in AllTrees /\ t.right \in AllTrees
      BY <2>1, TreesDownClosed DEF DownClosed
    <3> QED BY <1>2, <2>1, <3>1
  <2> QED BY <1>2, <2>1
<1>4. f = [t \in AllTrees |-> IF t = Nil THEN TRUE ELSE f[t.left] /\ f[t.right] /\ low(t)]
  <2>1. f = [t \in AllTrees |-> f[t]]
    OBVIOUS
  <2> QED BY <1>3, <2>1, Zenon
<1>5. Low = [t \in AllTrees |-> IF t = Nil THEN TRUE ELSE Low[t.left] /\ Low[t.right] /\ low(t)]
  BY <1>4 DEF Low, low
<1>6. ASSUME NEW t \in AllTrees
      PROVE  Low[t] \in BOOLEAN
  BY <1>5
<1> QED BY <1>5, <1>6 DEF low

\* The same from either side.
LEMMA LowIs ==
    /\ Low[Nil]
    /\ \A d \in Sides : \A u, x, n, y :
          Built(u, d, x, n, y) => /\ LowBelow(u) <=> Low[x] /\ Low[y]
                                  /\ Low[u] <=> /\ Low[x] /\ Low[y]
                                                /\ x = Nil /\ y = Nil => u.height <= 1
<1>1. Low[Nil]
  BY LowAre, TreeIs
<1>2. ASSUME NEW d \in Sides, NEW u, NEW x, NEW n, NEW y, Built(u, d, x, n, y)
      PROVE  /\ LowBelow(u) <=> Low[x] /\ Low[y]
             /\ Low[u] <=> /\ Low[x] /\ Low[y]
                           /\ x = Nil /\ y = Nil => u.height <= 1
  <2>1. u \in AllTrees /\ u # Nil
    BY <1>2 DEF Built, Branches
  <2>2. Low[u] <=> /\ Low[u.left] /\ Low[u.right]
                   /\ u.left = Nil /\ u.right = Nil => u.height <= 1
    BY <2>1, LowAre
  <2>3. CASE d = "left"
    <3>1. u.left = x /\ u.right = y
      BY <1>2, <2>3 DEF Built, Other
    <3> QED BY <2>2, <3>1 DEF LowBelow
  <2>4. CASE d = "right"
    <3>1. u.left = y /\ u.right = x
      BY <1>2, <2>4 DEF Built, Other
    <3> QED BY <2>2, <3>1 DEF LowBelow
  <2> QED BY <2>3, <2>4 DEF Sides
<1> QED BY <1>1, <1>2

\* Measuring a node whose children are low makes it low.
LEMMA LowMeasured ==
    ASSUME NEW t \in Branches, LowBelow(t)
    PROVE  Low[Measured(t)] /\ LowBelow(Measured(t))
<1>1. "left" \in Sides
  BY DEF Sides
<1>2. /\ Built(Measured(t), "left", t["left"], t.id, t[Other("left")])
      /\ Built(t, "left", t["left"], t.id, t[Other("left")])
  BY <1>1, MeasuredIs, PartsOf
<1>3. t.left = Nil /\ t.right = Nil => Measured(t).height <= 1
  <2>1. SUFFICES ASSUME t.left = Nil, t.right = Nil PROVE Measured(t).height <= 1
    OBVIOUS
  <2>2. max_child_height(t) + 1 = 1
    BY <2>1 DEF max_child_height, HeightOf
  <2>3. t \in Branch(AllTrees)
    BY TreeIs
  <2>4. Measured(t).height = max_child_height(t) + 1
    BY <2>3 DEF Measured, Branch
  <2> QED BY <2>2, <2>4
<1> QED BY <1>1, <1>2, <1>3, LowIs DEF Other

\* A rotation brings a child up, and what was below it.
LEMMA LiftParts ==
    ASSUME NEW t \in Branches, NEW d \in Sides, t[d] # Nil
    PROVE  /\ Lift(t, d) \in Branches
           /\ Lift(t, d)[d] = t[d][d]
           /\ Lift(t, d)[Other(d)] # Nil
           /\ LowBelow(t) => Low[Lift(t, d)] /\ LowBelow(Lift(t, d))
<1> DEFINE o    == Other(d)
           up   == t[d]
           half == [t EXCEPT ![d] = up[o]]
           sunk == Measured(half)
           new  == [up EXCEPT ![o] = sunk, !.height = HeightOf(up[d]) + 1]
<1>1. o \in Sides /\ Other(o) = d /\ t \in AllTrees /\ t # Nil
  BY OtherSide DEF Branches
<1>2. up \in Branches
  BY PartsOf DEF Branches
<1>3. up[d] \in AllTrees /\ up[o] \in AllTrees /\ t[o] \in AllTrees
  BY <1>1, <1>2, PartsOf
<1>4. Built(half, d, up[o], t.id, t[o])
  BY <1>3, WithChild
<1>5. Built(sunk, d, up[o], t.id, t[o])
  BY <1>4, MeasuredIs DEF Built
<1>6. sunk \in Branches /\ sunk # Nil /\ sunk \in AllTrees
  BY <1>5 DEF Built, Branches
<1>7. HeightOf(up[d]) + 1 \in Nat
  BY <1>3, HeightsAre
<1>8. Built(new, o, sunk, up.id, up[d])
  BY <1>1, <1>2, <1>6, <1>7, WithChild
<1>9. Lift(t, d) = new
  BY <1>1 DEF Lift
<1>10. Built(t, d, up, t.id, t[o]) /\ Built(up, d, up[d], up.id, up[o])
  BY <1>2, PartsOf
<1> HIDE DEF o, up, half, sunk, new
<1>11. ASSUME LowBelow(t)
       PROVE  Low[new] /\ LowBelow(new)
  <2>1. Low[up] /\ Low[t[o]]
    BY <1>10, <1>11, LowIs
  <2>2. Low[up[d]] /\ Low[up[o]]
    BY <1>10, <2>1, LowIs
  <2>3. LowBelow(half)
    BY <1>4, <2>1, <2>2, LowIs
  <2>4. Low[sunk]
    BY <1>4, <2>3, LowMeasured DEF sunk, Built
  <2> QED BY <1>1, <1>6, <1>8, <2>2, <2>4, LowIs
<1> QED BY <1>1, <1>6, <1>8, <1>9, <1>11 DEF Built, o, up

\* So do two, when there is something below the child.
LEMMA LiftTwiceParts ==
    ASSUME NEW t \in Branches, NEW d \in Sides, t[d] # Nil
    PROVE  /\ LiftTwice(t, d) \in Branches /\ LiftOuter(t, d) \in Branches
           /\ LowBelow(t) => /\ Low[LiftTwice(t, d)] /\ LowBelow(LiftTwice(t, d))
                             /\ Low[LiftOuter(t, d)] /\ LowBelow(LiftOuter(t, d))
           /\ t[d][d] # Nil \/ t[d][Other(d)] # Nil => LiftOuter(t, d)[d] # Nil
<1> DEFINE o == Other(d)
           x == Lift(t[d], o)
           u == [t EXCEPT ![d] = x]
<1>1. o \in Sides /\ Other(o) = d /\ t[d] \in Branches /\ t[d] \in AllTrees /\ t[o] \in AllTrees
  BY OtherSide, PartsOf DEF Branches
<1>2. x \in Branches /\ x \in AllTrees /\ x # Nil
  BY <1>1, LiftIs DEF Same, Branches
<1>3. Built(u, d, x, t.id, t[o])
  BY <1>2, WithChild
<1>4. u \in Branches /\ u[d] = x
  BY <1>3 DEF Built
<1>5. Built(t, d, t[d], t.id, t[o])
  BY PartsOf
<1>6. LowBelow(t) => LowBelow(u)
  <2>1. SUFFICES ASSUME LowBelow(t) PROVE LowBelow(u)
    OBVIOUS
  <2>2. Low[t[d]] /\ Low[t[o]]
    BY <1>5, <2>1, LowIs
  <2>3. LowBelow(t[d])
    <3>1. Built(t[d], o, t[d][o], t[d].id, t[d][Other(o)])
      BY <1>1, PartsOf
    <3> QED BY <1>1, <2>2, <3>1, LowIs
  <2>4. Low[x]
    <3>1. CASE t[d][o] = Nil
      BY <2>2, <3>1 DEF Lift
    <3>2. CASE t[d][o] # Nil
      BY <1>1, <2>3, <3>2, LiftParts
    <3> QED BY <3>1, <3>2
  <2> HIDE DEF x, u, o
  <2> QED BY <1>3, <2>2, <2>4, LowIs
<1>7. LiftTwice(t, d) = Lift(u, d)
  BY DEF LiftTwice
<1>8. /\ Lift(u, d) \in Branches
      /\ Lift(u, d)[d] = x[d]
      /\ LowBelow(u) => Low[Lift(u, d)] /\ LowBelow(Lift(u, d))
  <2> HIDE DEF u, x
  <2> QED BY <1>2, <1>4, LiftParts
<1>9. t[d][o] # Nil => x[d] # Nil
  BY <1>1, LiftParts
<1> HIDE DEF o, x, u
<1>10. CASE t[d][d] = Nil
  <2>1. LiftOuter(t, d) = Lift(u, d)
    BY <1>7, <1>10 DEF LiftOuter
  <2> QED BY <1>6, <1>7, <1>8, <1>9, <1>10, <2>1 DEF o
<1>11. CASE t[d][d] # Nil
  <2>1. LiftOuter(t, d) = Lift(t, d)
    BY <1>11 DEF LiftOuter
  <2>2. /\ Lift(t, d) \in Branches
        /\ Lift(t, d)[d] = t[d][d]
        /\ LowBelow(t) => Low[Lift(t, d)] /\ LowBelow(Lift(t, d))
    BY LiftParts
  <2> QED BY <1>6, <1>7, <1>8, <1>11, <2>1, <2>2
<1> QED BY <1>10, <1>11

\* What is low is low below; a node with a child is low at any height.
LEMMA LowAnyway ==
    ASSUME NEW t \in Branches
    PROVE  /\ Low[t] => LowBelow(t)
           /\ \A d \in Sides : LowBelow(t) /\ t[d] # Nil => Low[t]
           /\ \A d \in Sides : LowBelow(t) <=> Low[t[d]] /\ Low[t[Other(d)]]
<1>1. \A d \in Sides : Built(t, d, t[d], t.id, t[Other(d)])
  BY PartsOf
<1>2. "left" \in Sides
  BY DEF Sides
<1> QED BY <1>1, <1>2, LowIs

-----------------------------------------------------------------------------
(* Insertion *)

InsertAnswer == [tree : Branches, side : {"none", "left", "right"}, replaced : Nodes \cup {Null}]

\* A new leaf.
LEMMA LeafIs ==
    ASSUME NEW n \in Nodes
    PROVE  Built(Leaf(n), "left", Nil, n, Nil)
<1>1. Leaf(n) \in Branches
  BY TreeIs, NilIs DEF Leaf, Branch
<1> QED BY <1>1 DEF Leaf, Built, Other

\* After an insertion further down: whatever is rotated, the node keeps its place
\* between the two sides.
LEMMA InsertedIs ==
    ASSUME NEW t \in Branches, NEW d \in Sides, NEW down \in InsertAnswer
    PROVE  /\ Inserted(t, d, down) \in InsertAnswer
           /\ Inserted(t, d, down).replaced = down.replaced
           /\ Ids[Inserted(t, d, down).tree] =
                 Ids[down.tree] \cup {t.id} \cup Ids[t[Other(d)]]
           /\ /\ Sorted[t] /\ Sorted[down.tree]
              /\ \A m \in Ids[down.tree] : /\ Before(d, m, t.id)
                                           /\ m # t.id /\ m \notin Ids[t[Other(d)]]
              => Sorted[Inserted(t, d, down).tree]
<1> DEFINE grown == [t EXCEPT ![d] = down.tree, !.height = down.tree.height + 1]
           new   == IF down.side = "none" \/ ~HighAfterInsert(grown, d) THEN grown
                    ELSE IF down.side = d THEN Lift(grown, d)
                    ELSE LiftTwice(grown, d)
<1>1. down.tree \in Branches /\ down.tree \in AllTrees /\ down.replaced \in Nodes \cup {Null}
  BY DEF InsertAnswer, Branches
<1>2. down.tree.height + 1 \in Nat
  BY <1>1, PartsOf DEF Sides
<1>3. Built(grown, d, down.tree, t.id, t[Other(d)])
  BY <1>1, <1>2, WithChild
<1>4. grown \in Branches /\ grown \in AllTrees
  BY <1>3 DEF Built, Branches
<1>5. Same(new, grown)
  <2> HIDE DEF grown
  <2> QED BY <1>4, SameIs, LiftIs, LiftTwiceIs
<1>6. Inserted(t, d, down) = [tree |-> new, side |-> d, replaced |-> down.replaced]
  BY DEF Inserted
<1> HIDE DEF grown, new
<1>7. t[Other(d)] \in AllTrees /\ Built(t, d, t[d], t.id, t[Other(d)]) /\ t[d] \in AllTrees
  BY PartsOf
<1>8. new \in Branches
  BY <1>4, <1>5 DEF Same, Branches
<1>9. Inserted(t, d, down) \in InsertAnswer
  BY <1>1, <1>6, <1>8 DEF InsertAnswer, Sides
<1>10. Ids[grown] = Ids[down.tree] \cup {t.id} \cup Ids[t[Other(d)]]
  BY <1>1, <1>3, <1>7, BuiltIs
<1>11. ASSUME Sorted[t], Sorted[down.tree],
              \A m \in Ids[down.tree] : /\ Before(d, m, t.id)
                                        /\ m # t.id /\ m \notin Ids[t[Other(d)]]
       PROVE  Sorted[grown]
  <2>1. /\ Sorted[t[Other(d)]]
        /\ \A m \in Ids[t[Other(d)]] : Before(Other(d), m, t.id)
        /\ t.id \notin Ids[t[Other(d)]]
    BY <1>7, <1>11, BuiltIs
  <2> QED BY <1>1, <1>3, <1>7, <1>11, <2>1, BuiltIs
<1> QED BY <1>5, <1>6, <1>9, <1>10, <1>11 DEF Same

\* The side that insert_rc takes.
InsertSide(t, n) == IF KeyOf(t) < Key[n] THEN "right" ELSE "left"

\* The equation of insert_rc.
LEMMA InsertEquation ==
    ASSUME NEW n \in Nodes, NEW is_set \in BOOLEAN
    PROVE  /\ insert_rc(n, is_set)[Nil] =
                 [tree |-> Leaf(n), side |-> "none", replaced |-> Null]
           /\ \A t \in Trees \ {Nil} :
                 insert_rc(n, is_set)[t] =
                    IF KeyOf(t) = Key[n] /\ is_set
                    THEN [tree |-> [t EXCEPT !.id = n], side |-> "none", replaced |-> t.id]
                    ELSE Inserted(t, InsertSide(t, n), insert_rc(n, is_set)[t[InsertSide(t, n)]])
<1> DEFINE D    == Trees
           V    == InsertAnswer
           base == [tree |-> Leaf(n), side |-> "none", replaced |-> Null]
           at(t, a, b) ==
                   IF KeyOf(t) = Key[n] /\ is_set
                   THEN [tree |-> [t EXCEPT !.id = n], side |-> "none", replaced |-> t.id]
                   ELSE Inserted(t, InsertSide(t, n), IF InsertSide(t, n) = "left" THEN a ELSE b)
           step == [x \in (D \ {Nil}) \X V \X V |-> at(x[1], x[2], x[3])]
<1>1. base \in V
  BY LeafIs DEF Built, InsertAnswer
<1>2. step \in [(D \ {Nil}) \X V \X V -> V]
  <2>1. ASSUME NEW t \in D \ {Nil}, NEW a \in V, NEW b \in V PROVE at(t, a, b) \in V
    <3>1. t \in Branches
      BY TreesAre DEF Branches
    <3>2. "left" \in Sides /\ InsertSide(t, n) \in Sides
      BY DEF Sides, InsertSide
    <3>3. [t EXCEPT !.id = n] \in Branches /\ t.id \in Nodes
      BY <3>1, <3>2, WithName, PartsOf, NilIs DEF Built
    <3>4. CASE KeyOf(t) = Key[n] /\ is_set
      BY <3>3, <3>4 DEF InsertAnswer
    <3>5. CASE ~ (KeyOf(t) = Key[n] /\ is_set)
      <4>1. (IF InsertSide(t, n) = "left" THEN a ELSE b) \in InsertAnswer
        OBVIOUS
      <4> QED BY <3>1, <3>2, <3>5, <4>1, InsertedIs
    <3> QED BY <3>4, <3>5
  <2> HIDE DEF at, V, D
  <2> QED BY <2>1
<1>3. PICK f \in [D -> V] :
         /\ f[Nil] = base
         /\ \A t \in D \ {Nil} : f[t] = step[<<t, f[t.left], f[t.right]>>]
  <2> HIDE DEF step, V, base, D
  <2>1. DownClosed(D)
    BY TreesDownClosed DEF D
  <2> QED BY <1>1, <1>2, <2>1, TreeRecursion
<1>4. \A t \in D \ {Nil} : f[t] = at(t, f[t.left], f[t.right])
  <2>1. \A t \in D \ {Nil} : t.left \in D /\ t.right \in D
    BY TreesAre
  <2>2. \A t \in D \ {Nil} : <<t, f[t.left], f[t.right]>> \in (D \ {Nil}) \X V \X V
    <3> HIDE DEF V, D
    <3> QED BY <2>1
  <2> HIDE DEF at
  <2> QED BY <1>3, <2>2
<1>5. f = [t \in D |->
            IF t = Nil THEN base
            ELSE IF KeyOf(t) = Key[n] /\ is_set
            THEN [tree |-> [t EXCEPT !.id = n], side |-> "none", replaced |-> t.id]
            ELSE LET d == IF KeyOf(t) < Key[n] THEN "right" ELSE "left"
                 IN  Inserted(t, d, f[t[d]])]
  <2>1. \A t \in D : f[t] =
            IF t = Nil THEN base
            ELSE IF KeyOf(t) = Key[n] /\ is_set
            THEN [tree |-> [t EXCEPT !.id = n], side |-> "none", replaced |-> t.id]
            ELSE LET d == IF KeyOf(t) < Key[n] THEN "right" ELSE "left"
                 IN  Inserted(t, d, f[t[d]])
    <3> HIDE DEF base
    <3> QED BY <1>3, <1>4 DEF InsertSide
  <2> QED BY <1>3, <2>1
<1>6. insert_rc(n, is_set) = [t \in D |->
            IF t = Nil THEN base
            ELSE IF KeyOf(t) = Key[n] /\ is_set
            THEN [tree |-> [t EXCEPT !.id = n], side |-> "none", replaced |-> t.id]
            ELSE LET d == IF KeyOf(t) < Key[n] THEN "right" ELSE "left"
                 IN  Inserted(t, d, insert_rc(n, is_set)[t[d]])]
  BY <1>5 DEF insert_rc
<1> QED BY <1>6, TreesAre DEF InsertSide

\* insert_rc adds the node, or in set mode puts it in the place of one of its key.
InsertWorks(t, n, is_set, done) ==
    /\ done \in InsertAnswer
    /\ Sorted[t] /\ n \notin Ids[t] =>
          /\ Sorted[done.tree]
          /\ \/ /\ is_set
                /\ done.replaced \in Ids[t]
                /\ Key[done.replaced] = Key[n]
                /\ Ids[done.tree] = (Ids[t] \ {done.replaced}) \cup {n}
             \/ /\ is_set => \A m \in Ids[t] : Key[m] # Key[n]
                /\ done.replaced = Null
                /\ Ids[done.tree] = Ids[t] \cup {n}

\* By induction on the tree.
LEMMA InsertIs ==
    ASSUME NEW n \in Nodes, NEW is_set \in BOOLEAN
    PROVE  \A t \in Trees : InsertWorks(t, n, is_set, insert_rc(n, is_set)[t])
<1> DEFINE rc == insert_rc(n, is_set)
           S  == {t \in AllTrees : t \in Trees => InsertWorks(t, n, is_set, rc[t])}
<1>1. /\ rc[Nil] = [tree |-> Leaf(n), side |-> "none", replaced |-> Null]
      /\ \A t \in Trees \ {Nil} :
            rc[t] = IF KeyOf(t) = Key[n] /\ is_set
                    THEN [tree |-> [t EXCEPT !.id = n], side |-> "none", replaced |-> t.id]
                    ELSE Inserted(t, InsertSide(t, n), rc[t[InsertSide(t, n)]])
  BY InsertEquation
<1> HIDE DEF rc
<1>2. Nil \in S
  <2>1. "left" \in Sides
    BY DEF Sides
  <2>2. Built(Leaf(n), "left", Nil, n, Nil) /\ Leaf(n) \in Branches
    BY LeafIs DEF Built
  <2>3. Ids[Leaf(n)] = {n} /\ Sorted[Leaf(n)]
    BY <2>1, <2>2, BuiltIs, NilIs
  <2> QED BY <1>1, <2>2, <2>3, NilIs DEF InsertWorks, InsertAnswer
<1>3. ASSUME NEW t \in Branches, t.left \in S, t.right \in S
      PROVE  t \in S
  <2>1. SUFFICES ASSUME t \in Trees PROVE InsertWorks(t, n, is_set, rc[t])
    BY DEF Branches
  <2>2. t \in Trees \ {Nil} /\ t.left \in Trees /\ t.right \in Trees
    BY <2>1, TreesAre DEF Branches
  <2>3. "left" \in Sides /\ t.id \in Nodes
    BY PartsOf DEF Sides
  <2>4. CASE KeyOf(t) = Key[n] /\ is_set
    <3> DEFINE x == t["left"]
               y == t[Other("left")]
               u == [t EXCEPT !.id = n]
    <3>1. Built(u, "left", x, n, y) /\ Built(t, "left", x, t.id, y)
      BY <2>3, WithName, PartsOf, NilIs
    <3>2. x \in AllTrees /\ y \in AllTrees /\ u \in Branches
      BY <2>3, <3>1, PartsOf DEF Built
    <3>3. rc[t] = [tree |-> u, side |-> "none", replaced |-> t.id]
      BY <1>1, <2>2, <2>4
    <3>4. rc[t] \in InsertAnswer
      BY <2>3, <3>2, <3>3 DEF InsertAnswer
    <3> HIDE DEF x, y, u
    <3>5. Ids[u] = Ids[x] \cup {n} \cup Ids[y] /\ Ids[t] = Ids[x] \cup {t.id} \cup Ids[y]
      BY <2>3, <3>1, <3>2, BuiltIs
    <3>6. ASSUME Sorted[t], n \notin Ids[t]
          PROVE  Sorted[u] /\ Ids[u] = (Ids[t] \ {t.id}) \cup {n} /\ t.id \in Ids[t]
      <4>1. /\ Sorted[x] /\ Sorted[y]
            /\ \A m \in Ids[x] : Before("left", m, t.id)
            /\ \A m \in Ids[y] : Before(Other("left"), m, t.id)
            /\ t.id \notin Ids[x] \cup Ids[y]
            /\ Ids[x] \cap Ids[y] = {}
        BY <2>3, <3>1, <3>2, <3>6, BuiltIs
      <4>2. /\ \A m \in Ids[x] : Before("left", m, n)
            /\ \A m \in Ids[y] : Before(Other("left"), m, n)
        BY <2>4, <4>1 DEF Before, KeyOf
      <4>3. Sorted[u]
        BY <2>3, <3>1, <3>2, <3>5, <3>6, <4>1, <4>2, BuiltIs
      <4> QED BY <3>5, <3>6, <4>1, <4>3
    <3> QED BY <2>4, <3>3, <3>4, <3>6 DEF InsertWorks, KeyOf
  <2>5. CASE ~ (KeyOf(t) = Key[n] /\ is_set)
    <3> DEFINE d    == InsertSide(t, n)
               o    == Other(d)
               down == rc[t[d]]
               new  == Inserted(t, d, down)
    <3>1. rc[t] = new
      BY <1>1, <2>2, <2>5
    <3>2. d \in Sides /\ (t[d] = t.left \/ t[d] = t.right)
      BY DEF InsertSide, Sides
    <3>3. t[d] \in Trees /\ InsertWorks(t[d], n, is_set, down)
      BY <1>3, <2>2, <3>2
    <3>4. Key[n] \in Int /\ \A m \in Nodes : Key[m] \in Int
      BY TreeAssumption
    <3>5. Before(d, n, t.id)
      BY <2>3, <3>4 DEF InsertSide, Before, KeyOf
    <3>6. t[d] \in AllTrees /\ t[o] \in AllTrees /\ Built(t, d, t[d], t.id, t[o])
      BY <3>2, PartsOf
    <3>7. down \in InsertAnswer
      BY <3>3 DEF InsertWorks
    <3>8. is_set => \A m \in {t.id} \cup Ids[t[o]] : Sorted[t] => Key[m] # Key[n]
      <4> SUFFICES ASSUME is_set, Sorted[t], NEW m \in {t.id} \cup Ids[t[o]]
                   PROVE  Key[m] # Key[n]
        OBVIOUS
      <4>1. m # t.id => Before(o, m, t.id) /\ m \in Nodes
        BY <3>2, <3>6, BuiltIs, IdsType
      <4> QED BY <2>3, <2>5, <3>4, <4>1 DEF InsertSide, Before, KeyOf, Other
    <3> HIDE DEF d, o, down, new
    <3>9. Ids[t] = Ids[t[d]] \cup {t.id} \cup Ids[t[o]]
      BY <3>2, <3>6, BuiltIs
    <3>10. /\ new \in InsertAnswer
           /\ new.replaced = down.replaced
           /\ Ids[new.tree] = Ids[down.tree] \cup {t.id} \cup Ids[t[o]]
      BY <3>2, <3>7, InsertedIs DEF new, o
    <3>11. ASSUME Sorted[t], n \notin Ids[t]
           PROVE  /\ Sorted[new.tree]
                  /\ \/ /\ is_set
                        /\ new.replaced \in Ids[t]
                        /\ Key[new.replaced] = Key[n]
                        /\ Ids[new.tree] = (Ids[t] \ {new.replaced}) \cup {n}
                     \/ /\ is_set => \A m \in Ids[t] : Key[m] # Key[n]
                        /\ new.replaced = Null
                        /\ Ids[new.tree] = Ids[t] \cup {n}
      <4>1. /\ Sorted[t[d]]
            /\ \A m \in Ids[t[d]] : Before(d, m, t.id)
            /\ t.id \notin Ids[t[d]] \cup Ids[t[o]]
            /\ Ids[t[d]] \cap Ids[t[o]] = {}
        BY <3>2, <3>6, <3>11, BuiltIs DEF o
      <4>2. n \notin Ids[t[d]]
        BY <3>9, <3>11
      <4>3. /\ Sorted[down.tree]
            /\ \/ /\ is_set
                  /\ down.replaced \in Ids[t[d]]
                  /\ Key[down.replaced] = Key[n]
                  /\ Ids[down.tree] = (Ids[t[d]] \ {down.replaced}) \cup {n}
               \/ /\ is_set => \A m \in Ids[t[d]] : Key[m] # Key[n]
                  /\ down.replaced = Null
                  /\ Ids[down.tree] = Ids[t[d]] \cup {n}
        BY <3>3, <4>1, <4>2 DEF InsertWorks
      <4>4. Ids[down.tree] \subseteq Ids[t[d]] \cup {n}
        BY <4>3
      <4>5. \A m \in Ids[down.tree] : Before(d, m, t.id) /\ m # t.id /\ m \notin Ids[t[o]]
        BY <3>5, <3>9, <3>11, <4>1, <4>4
      <4>6. Sorted[new.tree]
        BY <3>2, <3>7, <3>11, <4>3, <4>5, InsertedIs DEF new, o
      <4>7. CASE /\ is_set
                 /\ down.replaced \in Ids[t[d]]
                 /\ Key[down.replaced] = Key[n]
                 /\ Ids[down.tree] = (Ids[t[d]] \ {down.replaced}) \cup {n}
        BY <3>9, <3>10, <4>1, <4>6, <4>7
      <4>8. CASE /\ is_set => \A m \in Ids[t[d]] : Key[m] # Key[n]
                 /\ down.replaced = Null
                 /\ Ids[down.tree] = Ids[t[d]] \cup {n}
        <5>1. is_set => \A m \in Ids[t] : Key[m] # Key[n]
          BY <3>8, <3>9, <3>11, <4>8
        <5> QED BY <3>9, <3>10, <4>6, <4>8, <5>1
      <4> QED BY <4>3, <4>7, <4>8
    <3> QED BY <3>1, <3>10, <3>11 DEF InsertWorks
  <2> QED BY <2>4, <2>5
<1>4. AllTrees \subseteq S
  <2> HIDE DEF S
  <2> QED BY <1>2, <1>3, TreeInduction
<1> QED BY <1>4, TreesAre DEF rc

-----------------------------------------------------------------------------
(* Deletion *)

\* A function may be defined by a side for each node, and what the node makes of the
\* value of the subtree there.
Ways(D, V, side, step) == /\ side \in [D \ {Nil} -> Sides]
                          /\ step \in [(D \ {Nil}) \X V -> V]

\* It is a function of both subtrees that uses one.
LEMMA OneWay ==
    ASSUME NEW D, DownClosed(D), NEW V, NEW base \in V,
           NEW side, NEW step, Ways(D, V, side, step)
    PROVE  \E f \in [D -> V] :
              /\ f[Nil] = base
              /\ \A t \in D \ {Nil} : t[side[t]] \in D /\ f[t] = step[<<t, f[t[side[t]]]>>]
<1> DEFINE way(t, a, b) == IF side[t] = "left" THEN a ELSE b
           both == [x \in (D \ {Nil}) \X V \X V |-> step[<<x[1], way(x[1], x[2], x[3])>>]]
<1>1. both \in [(D \ {Nil}) \X V \X V -> V]
  <2>1. ASSUME NEW t \in D \ {Nil}, NEW a \in V, NEW b \in V
        PROVE  step[<<t, way(t, a, b)>>] \in V
    BY DEF Ways
  <2> HIDE DEF way
  <2> QED BY <2>1
<1>2. PICK f \in [D -> V] :
         /\ f[Nil] = base
         /\ \A t \in D \ {Nil} : f[t] = both[<<t, f[t.left], f[t.right]>>]
  <2> HIDE DEF both, way
  <2> QED BY <1>1, TreeRecursion
<1>3. ASSUME NEW t \in D \ {Nil}
      PROVE  t[side[t]] \in D /\ f[t] = step[<<t, f[t[side[t]]]>>]
  <2>1. t.left \in D /\ t.right \in D /\ side[t] \in Sides
    BY DEF DownClosed, Ways
  <2>2. f[t] = step[<<t, way(t, f[t.left], f[t.right])>>]
    <3>1. <<t, f[t.left], f[t.right]>> \in (D \ {Nil}) \X V \X V
      BY <2>1
    <3> HIDE DEF way
    <3> QED BY <1>2, <3>1
  <2>3. CASE side[t] = "left"
    BY <2>1, <2>2, <2>3
  <2>4. CASE side[t] = "right"
    BY <2>1, <2>2, <2>4
  <2> QED BY <2>1, <2>3, <2>4 DEF Sides
<1> QED BY <1>2, <1>3

TakeAnswer == [tree : AllTrees, leaf : Nodes \cup {Null}]

\* What take_rc makes of t when the call for its subtree d has answered `down`.
Taken(t, d, down) ==
    LET o    == Other(d)
        less == [t EXCEPT ![d] = down.tree]
    IN  IF t[d] = Nil THEN [tree |-> t[o], leaf |-> t.id]
        ELSE [tree |-> IF less[o] = Nil THEN Measured(less)
                       ELSE IF High(less, o) THEN Lift(less, o)
                       ELSE less,
              leaf |-> down.leaf]

\* It gives up the node, or keeps it with what is left of the subtree.
LEMMA TakenIs ==
    ASSUME NEW t \in Branches, NEW d \in Sides, NEW down \in TakeAnswer
    PROVE  /\ Taken(t, d, down) \in TakeAnswer
           /\ t[d] = Nil => Taken(t, d, down) = [tree |-> t[Other(d)], leaf |-> t.id]
           /\ t[d] # Nil =>
                 /\ Taken(t, d, down).leaf = down.leaf
                 /\ Built([t EXCEPT ![d] = down.tree], d, down.tree, t.id, t[Other(d)])
                 /\ Same(Taken(t, d, down).tree, [t EXCEPT ![d] = down.tree])
                 /\ LowBelow([t EXCEPT ![d] = down.tree]) => Low[Taken(t, d, down).tree]
<1> DEFINE o    == Other(d)
           less == [t EXCEPT ![d] = down.tree]
           new  == IF less[o] = Nil THEN Measured(less)
                   ELSE IF High(less, o) THEN Lift(less, o)
                   ELSE less
<1>1. down.tree \in AllTrees /\ down.leaf \in Nodes \cup {Null}
  BY DEF TakeAnswer
<1>2. t[o] \in AllTrees /\ t.id \in Nodes /\ o \in Sides
  BY PartsOf, OtherSide
<1>3. Built(less, d, down.tree, t.id, t[o])
  BY <1>1, PartsOf, WithChild
<1>4. less \in Branches /\ less \in AllTrees
  BY <1>3 DEF Built, Branches
<1>5. CASE t[d] = Nil
  <2>1. Taken(t, d, down) = [tree |-> t[o], leaf |-> t.id]
    BY <1>5 DEF Taken
  <2> QED BY <1>2, <1>5, <2>1 DEF TakeAnswer
<1>6. CASE t[d] # Nil
  <2>1. Taken(t, d, down) = [tree |-> new, leaf |-> down.leaf]
    BY <1>6 DEF Taken
  <2>2. Same(new, less)
    <3> HIDE DEF less, o
    <3> QED BY <1>2, <1>4, SameIs, SameHeights, LiftIs
  <2>3. LowBelow(less) => Low[new]
    <3> HIDE DEF less, o
    <3>1. less[o] # Nil /\ LowBelow(less) => Low[less]
      BY <1>2, <1>4, LowAnyway
    <3>2. less[o] # Nil /\ LowBelow(less) => Low[Lift(less, o)]
      BY <1>2, <1>4, LiftParts
    <3> QED BY <1>4, <3>1, <3>2, LowMeasured
  <2> HIDE DEF new
  <2>4. new \in AllTrees
    BY <2>2 DEF Same
  <2> QED BY <1>1, <1>3, <1>6, <2>1, <2>2, <2>3, <2>4 DEF TakeAnswer
<1> QED BY <1>5, <1>6

\* The equation of take_rc.
LEMMA TakeEquation ==
    ASSUME NEW d \in Sides
    PROVE  \A t \in Trees \ {Nil} : take_rc(d)[t] = Taken(t, d, take_rc(d)[t[d]])
<1> DEFINE D    == Trees
           V    == TakeAnswer
           base == [tree |-> Nil, leaf |-> Null]
           side == [t \in D \ {Nil} |-> d]
           step == [x \in (D \ {Nil}) \X V |-> Taken(x[1], d, x[2])]
<1>1. base \in V
  BY TreeIs DEF TakeAnswer
<1>2. step \in [(D \ {Nil}) \X V -> V]
  <2>1. \A t \in D \ {Nil}, a \in V : Taken(t, d, a) \in V
    BY TreesAre, TakenIs DEF Branches
  <2> HIDE DEF V, D
  <2> QED BY <2>1
<1>3. PICK f \in [D -> V] :
         /\ f[Nil] = base
         /\ \A t \in D \ {Nil} : t[side[t]] \in D /\ f[t] = step[<<t, f[t[side[t]]]>>]
  <2>1. DownClosed(D) /\ Ways(D, V, side, step)
    BY <1>2, TreesDownClosed DEF Ways
  <2> HIDE DEF step, V, base, D, side
  <2> QED BY <1>1, <2>1, OneWay
<1>4. \A t \in D \ {Nil} : t[d] \in D /\ f[t] = Taken(t, d, f[t[d]])
  <2> HIDE DEF V, D
  <2> QED BY <1>3
<1> DEFINE g == [t \in Trees \ {Nil} |-> f[t]]
<1>5. \A t \in Trees \ {Nil} : g[t] = Taken(t, d, g[t[d]])
  <2> SUFFICES ASSUME NEW t \in Trees \ {Nil} PROVE g[t] = Taken(t, d, g[t[d]])
    OBVIOUS
  <2>1. CASE t[d] = Nil
    BY <1>4, <2>1 DEF Taken
  <2>2. CASE t[d] # Nil
    <3>1. g[t[d]] = f[t[d]]
      BY <1>4, <2>2
    <3> QED BY <1>4, <3>1
  <2> QED BY <2>1, <2>2
<1>6. g = [t \in Trees \ {Nil} |->
             IF t[d] = Nil THEN [tree |-> t[Other(d)], leaf |-> t.id]
             ELSE LET less == [t EXCEPT ![d] = g[t[d]].tree]
                  IN  [tree |-> IF less[Other(d)] = Nil THEN Measured(less)
                                ELSE IF High(less, Other(d)) THEN Lift(less, Other(d))
                                ELSE less,
                       leaf |-> g[t[d]].leaf]]
  <2>1. g = [t \in Trees \ {Nil} |-> g[t]]
    OBVIOUS
  <2> HIDE DEF g
  <2>2. g = [t \in Trees \ {Nil} |-> Taken(t, d, g[t[d]])]
    BY <1>5, <2>1
  <2> QED BY <2>2 DEF Taken
<1>7. take_rc(d) = [t \in Trees \ {Nil} |->
             IF t[d] = Nil THEN [tree |-> t[Other(d)], leaf |-> t.id]
             ELSE LET less == [t EXCEPT ![d] = take_rc(d)[t[d]].tree]
                  IN  [tree |-> IF less[Other(d)] = Nil THEN Measured(less)
                                ELSE IF High(less, Other(d)) THEN Lift(less, Other(d))
                                ELSE less,
                       leaf |-> take_rc(d)[t[d]].leaf]]
  <2> HIDE DEF g
  <2> QED BY <1>6 DEF take_rc
<1> QED BY <1>7 DEF Taken

\* take_rc takes the outermost node.
TakeWorks(t, d, got) ==
    /\ got \in TakeAnswer
    /\ got.leaf \in Nodes
    /\ Sorted[t] => /\ Sorted[got.tree]
                    /\ got.leaf \in Ids[t]
                    /\ Ids[got.tree] = Ids[t] \ {got.leaf}
                    /\ \A m \in Ids[got.tree] : Before(Other(d), m, got.leaf)
    /\ Low[t] => Low[got.tree]

\* By induction on the tree.
LEMMA TakeIs ==
    ASSUME NEW d \in Sides
    PROVE  \A t \in Trees \ {Nil} : TakeWorks(t, d, take_rc(d)[t])
<1> DEFINE rc == take_rc(d)
           o  == Other(d)
           S  == {t \in AllTrees : t \in Trees \ {Nil} => TakeWorks(t, d, rc[t])}
<1>1. \A t \in Trees \ {Nil} : rc[t] = Taken(t, d, rc[t[d]])
  BY TakeEquation
<1> HIDE DEF rc
<1>2. Nil \in S
  BY NilIs
<1>3. ASSUME NEW t \in Branches, t.left \in S, t.right \in S
      PROVE  t \in S
  <2>1. SUFFICES ASSUME t \in Trees PROVE TakeWorks(t, d, rc[t])
    BY DEF Branches
  <2>2. t \in Trees \ {Nil} /\ t.left \in Trees /\ t.right \in Trees
    BY <2>1, TreesAre DEF Branches
  <2>3. /\ t[d] \in AllTrees /\ t[o] \in AllTrees /\ t.id \in Nodes
        /\ Built(t, d, t[d], t.id, t[o]) /\ (t[d] = t.left \/ t[d] = t.right) /\ o \in Sides
    BY PartsOf, OtherSide DEF Sides
  <2>4. rc[t] = Taken(t, d, rc[t[d]])
    BY <1>1, <2>2
  <2>5. CASE t[d] = Nil
    <3>1. rc[t] = [tree |-> t[o], leaf |-> t.id]
      BY <2>4, <2>5 DEF Taken
    <3>2. rc[t] \in TakeAnswer
      BY <2>3, <3>1 DEF TakeAnswer
    <3> HIDE DEF o
    <3>3. Ids[t] = Ids[Nil] \cup {t.id} \cup Ids[t[o]]
      BY <2>3, <2>5, BuiltIs DEF o
    <3>4. Sorted[t] => /\ Sorted[t[o]]
                       /\ t.id \notin Ids[t[o]]
                       /\ \A m \in Ids[t[o]] : Before(o, m, t.id)
      BY <2>3, BuiltIs DEF o
    <3>5. Low[t] => Low[t[o]]
      BY <2>3, LowIs
    <3> QED BY <2>3, <3>1, <3>2, <3>3, <3>4, <3>5, NilIs DEF TakeWorks, o
  <2>6. CASE t[d] # Nil
    <3> DEFINE down == rc[t[d]]
               less == [t EXCEPT ![d] = down.tree]
    <3>1. TakeWorks(t[d], d, down)
      BY <1>3, <2>2, <2>3, <2>6
    <3>2. down \in TakeAnswer /\ down.leaf \in Nodes /\ down.tree \in AllTrees
      BY <3>1 DEF TakeWorks, TakeAnswer
    <3>3. /\ rc[t] \in TakeAnswer
          /\ rc[t].leaf = down.leaf
          /\ Built(less, d, down.tree, t.id, t[o])
          /\ Same(rc[t].tree, less)
          /\ LowBelow(less) => Low[rc[t].tree]
      BY <2>4, <2>6, <3>2, TakenIs
    <3> HIDE DEF down, less, o
    <3>4. ASSUME Sorted[t]
          PROVE  /\ Sorted[rc[t].tree]
                 /\ rc[t].leaf \in Ids[t]
                 /\ Ids[rc[t].tree] = Ids[t] \ {rc[t].leaf}
                 /\ \A m \in Ids[rc[t].tree] : Before(o, m, rc[t].leaf)
      <4>1. /\ Ids[t] = Ids[t[d]] \cup {t.id} \cup Ids[t[o]]
            /\ Sorted[t[d]] /\ Sorted[t[o]]
            /\ \A m \in Ids[t[d]] : Before(d, m, t.id)
            /\ \A m \in Ids[t[o]] : Before(o, m, t.id)
            /\ t.id \notin Ids[t[d]] \cup Ids[t[o]]
            /\ Ids[t[d]] \cap Ids[t[o]] = {}
        BY <2>3, <3>4, BuiltIs DEF o
      <4>2. /\ Sorted[down.tree]
            /\ down.leaf \in Ids[t[d]]
            /\ Ids[down.tree] = Ids[t[d]] \ {down.leaf}
            /\ \A m \in Ids[down.tree] : Before(o, m, down.leaf)
        BY <3>1, <4>1 DEF TakeWorks, o
      <4>3. Ids[less] = Ids[down.tree] \cup {t.id} \cup Ids[t[o]]
        BY <2>3, <3>2, <3>3, BuiltIs
      <4>4. Sorted[less]
        <5>1. \A m \in Ids[down.tree] : Before(d, m, t.id)
          BY <4>1, <4>2
        <5>2. t.id \notin Ids[down.tree] \cup Ids[t[o]] /\ Ids[down.tree] \cap Ids[t[o]] = {}
          BY <4>1, <4>2
        <5> QED BY <2>3, <3>2, <3>3, <4>1, <4>2, <5>1, <5>2, BuiltIs DEF o
      <4>5. Before(o, t.id, down.leaf)
        BY <2>3, <3>2, <4>1, <4>2, BeforeIs DEF o
      <4>6. \A m \in Ids[t[o]] : Before(o, m, down.leaf)
        <5>1. Ids[t[o]] \subseteq Nodes
          BY <2>3, IdsType
        <5> QED BY <2>3, <3>2, <4>1, <4>5, <5>1, BeforeIs
      <4>7. Sorted[rc[t].tree] /\ Ids[rc[t].tree] = Ids[less]
        BY <3>3, <4>4 DEF Same
      <4>8. down.leaf \in Ids[t] /\ Ids[less] = Ids[t] \ {down.leaf}
        BY <4>1, <4>2, <4>3
      <4> QED BY <3>3, <4>2, <4>3, <4>5, <4>6, <4>7, <4>8
    <3>5. ASSUME Low[t]
          PROVE  Low[rc[t].tree]
      <4>1. Low[t[d]] /\ Low[t[o]]
        BY <2>3, <3>5, LowIs
      <4>2. Low[down.tree]
        BY <3>1, <4>1 DEF TakeWorks
      <4> QED BY <2>3, <3>3, <4>1, <4>2, LowIs
    <3> QED BY <3>2, <3>3, <3>4, <3>5 DEF TakeWorks, o
  <2> QED BY <2>5, <2>6
<1>4. AllTrees \subseteq S
  <2> HIDE DEF S
  <2> QED BY <1>2, <1>3, TreeInduction
<1> QED BY <1>4, TreesAre DEF rc

\* FillFrom puts the nearest node of a subtree in the place of the root.
LEMMA FillFromIs ==
    ASSUME NEW t \in Branches, t \in Trees, NEW d \in Sides, t[d] # Nil
    PROVE  /\ FillFrom(t, d) \in Branches
           /\ Sorted[t] => /\ Sorted[FillFrom(t, d)]
                           /\ Ids[FillFrom(t, d)] = Ids[t] \ {t.id}
           /\ LowBelow(t) => LowBelow(FillFrom(t, d))
<1> DEFINE o   == Other(d)
           got == take_rc(o)[t[d]]
           new == [t EXCEPT !.id = got.leaf, ![d] = got.tree]
<1>1. /\ t[d] \in AllTrees /\ t[o] \in AllTrees /\ t.id \in Nodes /\ t \in AllTrees
      /\ Built(t, d, t[d], t.id, t[o]) /\ (t[d] = t.left \/ t[d] = t.right)
      /\ o \in Sides /\ Other(o) = d
  BY PartsOf, OtherSide DEF Branches, Sides
<1>2. t[d] \in Trees \ {Nil}
  BY <1>1, TreesAre DEF Branches
<1>3. TakeWorks(t[d], o, got)
  BY <1>1, <1>2, TakeIs
<1>4. got.leaf \in Nodes /\ got.tree \in AllTrees
  BY <1>3 DEF TakeWorks, TakeAnswer
<1>5. Built(new, d, got.tree, got.leaf, t[o])
  BY <1>4, WithName DEF Branches
<1>6. FillFrom(t, d) = new /\ new \in Branches
  BY <1>5 DEF FillFrom, Built
<1> HIDE DEF o, got, new
<1>7. ASSUME Sorted[t]
      PROVE  Sorted[new] /\ Ids[new] = Ids[t] \ {t.id}
  <2>1. /\ Ids[t] = Ids[t[d]] \cup {t.id} \cup Ids[t[o]]
        /\ Sorted[t[d]] /\ Sorted[t[o]]
        /\ \A m \in Ids[t[d]] : Before(d, m, t.id)
        /\ \A m \in Ids[t[o]] : Before(o, m, t.id)
        /\ t.id \notin Ids[t[d]] \cup Ids[t[o]]
        /\ Ids[t[d]] \cap Ids[t[o]] = {}
    BY <1>1, <1>7, BuiltIs DEF o
  <2>2. /\ Sorted[got.tree]
        /\ got.leaf \in Ids[t[d]]
        /\ Ids[got.tree] = Ids[t[d]] \ {got.leaf}
        /\ \A m \in Ids[got.tree] : Before(d, m, got.leaf)
    BY <1>1, <1>3, <2>1 DEF TakeWorks
  <2>3. Ids[new] = Ids[got.tree] \cup {got.leaf} \cup Ids[t[o]]
    BY <1>1, <1>4, <1>5, BuiltIs
  <2>4. \A m \in Ids[t[o]] : Before(o, m, got.leaf)
    <3>1. Ids[t[o]] \subseteq Nodes
      BY <1>1, IdsType
    <3>2. Before(o, t.id, got.leaf)
      BY <1>1, <1>4, <2>1, <2>2, BeforeIs
    <3> QED BY <1>1, <1>4, <2>1, <3>1, <3>2, BeforeIs
  <2>5. got.leaf \notin Ids[got.tree] \cup Ids[t[o]] /\ Ids[got.tree] \cap Ids[t[o]] = {}
    BY <2>1, <2>2
  <2>6. Sorted[new]
    BY <1>1, <1>4, <1>5, <2>1, <2>2, <2>4, <2>5, BuiltIs DEF o
  <2>7. Ids[new] = Ids[t] \ {t.id}
    BY <2>1, <2>2, <2>3
  <2> QED BY <2>6, <2>7
<1>8. LowBelow(t) => LowBelow(new)
  BY <1>1, <1>3, <1>5, LowIs DEF TakeWorks
<1> QED BY <1>6, <1>7, <1>8

\* A child that is high has a child.
LEMMA HighIs ==
    ASSUME NEW t \in Branches, NEW d \in Sides, bal \in Bals, LowBelow(t), High(t, d)
    PROVE  t[d] # Nil /\ (t[d][d] # Nil \/ t[d][Other(d)] # Nil)
<1>1. t[d] # Nil /\ t[d].height - HeightOf(t[Other(d)]) > bal
  BY DEF High
<1>2. t[d] \in Branches /\ t[Other(d)] \in AllTrees
  BY <1>1, PartsOf DEF Branches
<1>3. HeightOf(t[Other(d)]) \in Nat /\ t[d].height \in Nat /\ bal \in 1 .. 255
  <2>1. t[d] \in Branch(AllTrees)
    BY <1>2, TreeIs
  <2> QED BY <1>2, <2>1, HeightsAre, TreeAssumption DEF Branch
<1>4. t[d].height > 1
  BY <1>1, <1>3
<1>5. Low[t[d]]
  BY LowAnyway
<1>6. Built(t[d], d, t[d][d], t[d].id, t[d][Other(d)])
  BY <1>2, PartsOf
<1>7. t[d][d] = Nil /\ t[d][Other(d)] = Nil => t[d].height <= 1
  BY <1>5, <1>6, LowIs
<1> QED BY <1>1, <1>3, <1>4, <1>7

\* The end of delete_lm_rc and delete_rm_rc keeps the nodes and their order; the
\* child it measures is there.
LEMMA SettleIs ==
    ASSUME NEW t \in Branches, NEW d \in Sides, bal \in Bals, LowBelow(t)
    PROVE  Same(Settle(t, d), t) /\ Low[Settle(t, d)]
<1> DEFINE o    == Other(d)
           side == IF t[o] # Nil THEN o ELSE d
           high == High(t, side) /\ (side = o \/ t[o] = Nil)
           new  == IF high THEN LiftOuter(t, side) ELSE t
<1>1. side \in Sides /\ t \in AllTrees
  BY OtherSide DEF Branches
<1>2. Settle(t, d) = IF t.left # Nil /\ t.right # Nil THEN Measured(new)
                     ELSE IF t[side] = Nil THEN [t EXCEPT !.height = 1]
                     ELSE [new EXCEPT !.height = new[side].height + 1]
  BY DEF Settle
<1>3. t[side] = Nil => t.left = Nil /\ t.right = Nil
  <2>1. {t[d], t[o]} = {t.left, t.right}
    BY PartsOf
  <2> QED BY <2>1
<1>4. high => t[side] # Nil /\ (t[side][side] # Nil \/ t[side][Other(side)] # Nil)
  <2> HIDE DEF side
  <2> QED BY <1>1, HighIs
<1> HIDE DEF side, high
<1>5. Same(new, t)
  BY <1>1, LiftTwiceIs, SameIs
<1>6. new \in Branches
  BY <1>5 DEF Same, Branches
<1>7. LowBelow(new) /\ (t[side] # Nil => new[side] # Nil)
  BY <1>1, <1>4, LiftTwiceParts
<1> HIDE DEF new
<1>8. Same(Measured(new), t) /\ Low[Measured(new)]
  BY <1>5, <1>6, <1>7, SameHeights, SameIs, LowMeasured
<1>9. CASE t[side] = Nil
  <2> DEFINE u == [t EXCEPT !.height = 1]
  <2>1. Same(u, t)
    BY SameHeights
  <2>2. Built(u, "left", t["left"], t.id, t[Other("left")])
    BY WithHeight DEF Sides
  <2>3. u.height <= 1
    BY TreeIs DEF Branch
  <2>4. Low[t["left"]] /\ Low[t[Other("left")]] /\ "left" \in Sides
    BY DEF LowBelow, Other, Sides
  <2> HIDE DEF u
  <2>5. Low[u]
    BY <2>2, <2>3, <2>4, LowIs
  <2> QED BY <1>2, <1>3, <1>9, <2>1, <2>5 DEF u
<1>10. CASE t[side] # Nil
  <2> DEFINE h == new[side].height + 1
             u == [new EXCEPT !.height = h]
  <2>1. new[side] \in Branch(AllTrees)
    BY <1>1, <1>6, <1>7, <1>10, PartsOf, TreeIs
  <2>2. h \in Nat
    BY <2>1 DEF Branch
  <2> HIDE DEF h
  <2>3. Same(u, new)
    BY <1>6, <2>2, SameHeights
  <2>4. Built(u, side, new[side], new.id, new[Other(side)])
    BY <1>1, <1>6, <2>2, WithHeight
  <2>5. Low[new[side]] /\ Low[new[Other(side)]]
    BY <1>1, <1>6, <1>7, LowAnyway
  <2> HIDE DEF u
  <2>6. Low[u]
    BY <1>1, <1>7, <1>10, <2>4, <2>5, LowIs
  <2>7. Same(u, t)
    BY <1>5, <2>3, SameIs
  <2> QED BY <1>2, <1>8, <1>10, <2>6, <2>7 DEF u, h
<1> QED BY <1>9, <1>10

\* What delete_end_rc makes of t when the call for its subtree d has answered `down`.
Ended(t, d, r, down) ==
    IF t[d] # Nil
    THEN [tree |-> Settle([t EXCEPT ![d] = down.tree], d), deleted |-> down.deleted]
    ELSE [tree |-> IF r # NoReplacer THEN Replaced(t, r)
                   ELSE IF t[Other(d)] = Nil THEN Nil
                   ELSE Settle(FillFrom(t, Other(d)), d),
          deleted |-> t.id]

\* The equation of delete_end_rc, as far as n levels.
EndedAsFar(f, n, d, r) ==
    f = [t \in Upto[n] |-> IF t = Nil THEN [tree |-> Nil, deleted |-> Null]
                           ELSE Ended(t, d, r, f[t[d]])]

\* The equation of delete_end_rc.  It holds of all trees, those too of which Settle
\* makes no tree.
LEMMA DeleteEndEquation ==
    ASSUME NEW d \in Sides, NEW r
    PROVE  /\ delete_end_rc(d, r)[Nil] = [tree |-> Nil, deleted |-> Null]
           /\ \A t \in Trees \ {Nil} :
                 delete_end_rc(d, r)[t] = Ended(t, d, r, delete_end_rc(d, r)[t[d]])
<1> DEFINE base == [tree |-> Nil, deleted |-> Null]
<1>1. \A n \in Nat : \E f : EndedAsFar(f, n, d, r)
  <2> DEFINE T == {n \in Nat : ~ \E f : EndedAsFar(f, n, d, r)}
  <2>1. SUFFICES ASSUME T # {} PROVE FALSE
    OBVIOUS
  <2>2. PICK n \in T : \A y \in T : ~ (y < n)
    <3>1. T \subseteq Nat
      OBVIOUS
    <3> HIDE DEF T
    <3> QED BY <2>1, <3>1, LeastNumber
  <2>3. CASE n = 0
    <3> DEFINE f == [t \in Upto[n] |-> base]
    <3>1. \A t \in Upto[n] : t = Nil
      BY <2>3, UptoIs
    <3>2. f = [t \in Upto[n] |-> IF t = Nil THEN base ELSE Ended(t, d, r, f[t[d]])]
      <4>1. \A t \in Upto[n] : f[t] = IF t = Nil THEN base ELSE Ended(t, d, r, f[t[d]])
        BY <3>1
      <4>2. f = [t \in Upto[n] |-> f[t]]
        OBVIOUS
      <4> HIDE DEF f
      <4> QED BY <4>1, <4>2
    <3>3. EndedAsFar(f, n, d, r)
      <4> HIDE DEF f
      <4> QED BY <3>2 DEF EndedAsFar
    <3> QED BY <3>3
  <2>4. CASE n # 0
    <3>1. n - 1 \in Nat /\ n - 1 < n /\ n - 1 <= n /\ n \in Nat \ {0}
      BY <2>4
    <3>2. PICK f : EndedAsFar(f, n - 1, d, r)
      BY <2>2, <3>1
    <3>3. \A t \in Upto[n - 1] :
             f[t] = IF t = Nil THEN base ELSE Ended(t, d, r, f[t[d]])
      <4>1. f = [t \in Upto[n - 1] |-> IF t = Nil THEN base ELSE Ended(t, d, r, f[t[d]])]
        BY <3>2 DEF EndedAsFar
      <4> HIDE DEF base
      <4> QED BY <4>1, Zenon
    <3>4. Upto[n] = {Nil} \cup Branch(Upto[n - 1]) /\ Upto[n - 1] \subseteq Upto[n]
      BY <3>1, UptoIs, UptoGrows
    <3>5. \A t \in Upto[n] : t # Nil => t[d] \in Upto[n - 1]
      BY <3>4 DEF Branch, Sides
    <3> DEFINE g == [t \in Upto[n] |-> IF t = Nil THEN base ELSE Ended(t, d, r, f[t[d]])]
    <3>6. \A t \in Upto[n - 1] : g[t] = f[t]
      <4> HIDE DEF base
      <4> QED BY <3>3, <3>4
    <3>7. g = [t \in Upto[n] |-> IF t = Nil THEN base ELSE Ended(t, d, r, g[t[d]])]
      <4>1. \A t \in Upto[n] : g[t] = IF t = Nil THEN base ELSE Ended(t, d, r, g[t[d]])
        <5>1. \A t \in Upto[n] : g[t] = IF t = Nil THEN base ELSE Ended(t, d, r, f[t[d]])
          OBVIOUS
        <5> HIDE DEF g, base
        <5> QED BY <3>5, <3>6, <5>1
      <4>2. g = [t \in Upto[n] |-> g[t]]
        OBVIOUS
      <4> HIDE DEF g, base
      <4> QED BY <4>1, <4>2
    <3>8. EndedAsFar(g, n, d, r)
      <4> HIDE DEF g
      <4> QED BY <3>7 DEF EndedAsFar
    <3> QED BY <3>8
  <2> QED BY <2>3, <2>4
<1>2. PICK f : EndedAsFar(f, Cardinality(Nodes), d, r)
  BY <1>1, TreeAssumption, FS_CardinalityType
<1>3. f = [t \in Trees |->
            IF t = Nil THEN base
            ELSE IF t[d] # Nil
            THEN [tree |-> Settle([t EXCEPT ![d] = f[t[d]].tree], d),
                  deleted |-> f[t[d]].deleted]
            ELSE [tree |-> IF r # NoReplacer THEN Replaced(t, r)
                           ELSE IF t[Other(d)] = Nil THEN Nil
                           ELSE Settle(FillFrom(t, Other(d)), d),
                  deleted |-> t.id]]
  BY <1>2 DEF EndedAsFar, Trees, Ended
<1>4. delete_end_rc(d, r) = [t \in Trees |->
            IF t = Nil THEN base
            ELSE IF t[d] # Nil
            THEN [tree |-> Settle([t EXCEPT ![d] = delete_end_rc(d, r)[t[d]].tree], d),
                  deleted |-> delete_end_rc(d, r)[t[d]].deleted]
            ELSE [tree |-> IF r # NoReplacer THEN Replaced(t, r)
                           ELSE IF t[Other(d)] = Nil THEN Nil
                           ELSE Settle(FillFrom(t, Other(d)), d),
                  deleted |-> t.id]]
  BY <1>3 DEF delete_end_rc
<1>5. delete_end_rc(d, r) = [t \in Trees |->
            IF t = Nil THEN base ELSE Ended(t, d, r, delete_end_rc(d, r)[t[d]])]
  BY <1>4 DEF Ended
<1>6. Nil \in Trees
  BY TreesAre
<1> HIDE DEF base
<1>7. /\ delete_end_rc(d, r)[Nil] = base
      /\ \A t \in Trees \ {Nil} :
            delete_end_rc(d, r)[t] = Ended(t, d, r, delete_end_rc(d, r)[t[d]])
  BY <1>5, <1>6, Zenon
<1> QED BY <1>7 DEF base

\* A search tree with low leaves.
Good(t) == t \in AllTrees /\ Sorted[t] /\ Low[t]

\* What is left of S when the replacer gave r for the node `gone`.
After(S, gone, r) == IF r = NoReplacer THEN S \ {gone}
                     ELSE IF r = Null THEN S
                     ELSE (S \ {gone}) \cup {r}

MayReplace(t, gone, r) == r \in {NoReplacer, Null} \/ (r \in Nodes \ Ids[t] /\ Key[r] = Key[gone])

\* A node keeps its place above another subtree that fits there.
LEMMA GraftIs ==
    ASSUME NEW t \in Branches, Good(t), NEW d \in Sides, NEW x, Good(x),
           \A m \in Ids[x] : /\ Before(d, m, t.id)
                             /\ m # t.id /\ m \notin Ids[t[Other(d)]]
    PROVE  /\ [t EXCEPT ![d] = x] \in Branches
           /\ Sorted[[t EXCEPT ![d] = x]]
           /\ LowBelow([t EXCEPT ![d] = x])
           /\ Ids[[t EXCEPT ![d] = x]] = Ids[x] \cup {t.id} \cup Ids[t[Other(d)]]
<1> DEFINE o == Other(d)
           u == [t EXCEPT ![d] = x]
<1>1. x \in AllTrees /\ t[o] \in AllTrees /\ t[d] \in AllTrees
      /\ Built(t, d, t[d], t.id, t[o])
  BY PartsOf DEF Good
<1>2. Built(u, d, x, t.id, t[o])
  BY <1>1, WithChild
<1> HIDE DEF u
<1>3. /\ Sorted[t[o]]
      /\ \A m \in Ids[t[o]] : Before(o, m, t.id)
      /\ t.id \notin Ids[t[o]]
  BY <1>1, BuiltIs DEF Good
<1>4. Sorted[u]
  BY <1>1, <1>2, <1>3, BuiltIs DEF Good
<1>5. Ids[u] = Ids[x] \cup {t.id} \cup Ids[t[o]]
  BY <1>1, <1>2, BuiltIs
<1>6. LowBelow(u)
  BY <1>1, <1>2, LowIs DEF Good
<1>7. u \in Branches
  BY <1>2 DEF Built
<1> QED BY <1>4, <1>5, <1>6, <1>7 DEF u

\* The subtrees of a search tree are search trees, and know where they are.
LEMMA GoodParts ==
    ASSUME NEW t \in Branches, Good(t), NEW d \in Sides
    PROVE  /\ Good(t[d]) /\ t.id \in Nodes /\ t.id \in Ids[t] /\ LowBelow(t)
           /\ Ids[t] = Ids[t[d]] \cup {t.id} \cup Ids[t[Other(d)]]
           /\ \A m \in Ids[t[d]] : Before(d, m, t.id)
           /\ t.id \notin Ids[t[d]] \cup Ids[t[Other(d)]]
           /\ Ids[t[d]] \cap Ids[t[Other(d)]] = {}
<1>1. t[d] \in AllTrees /\ t[Other(d)] \in AllTrees /\ Built(t, d, t[d], t.id, t[Other(d)])
  BY PartsOf
<1>2. /\ Ids[t] = Ids[t[d]] \cup {t.id} \cup Ids[t[Other(d)]]
      /\ t.id \in Nodes /\ Sorted[t[d]]
      /\ \A m \in Ids[t[d]] : Before(d, m, t.id)
      /\ t.id \notin Ids[t[d]] \cup Ids[t[Other(d)]]
      /\ Ids[t[d]] \cap Ids[t[Other(d)]] = {}
  BY <1>1, BuiltIs DEF Good
<1>3. Low[t[d]] /\ LowBelow(t)
  BY <1>1, LowIs DEF Good
<1> QED BY <1>1, <1>2, <1>3 DEF Good

\* The caller's node takes the place of another.
LEMMA ReplacedIs ==
    ASSUME NEW t \in Branches, Good(t), NEW r, MayReplace(t, t.id, r), r # NoReplacer
    PROVE  Good(Replaced(t, r)) /\ Ids[Replaced(t, r)] = After(Ids[t], t.id, r)
<1>1. CASE r = Null
  BY <1>1 DEF Replaced, After
<1>2. CASE r # Null
  <2> DEFINE u == [t EXCEPT !.id = r]
             x == t["left"]
             y == t[Other("left")]
  <2>1. r \in Nodes /\ r \notin Ids[t] /\ Key[r] = Key[t.id]
    BY <1>2 DEF MayReplace
  <2>2. "left" \in Sides /\ Replaced(t, r) = u
    BY <1>2 DEF Sides, Replaced
  <2>3. Built(u, "left", x, r, y) /\ Built(t, "left", x, t.id, y)
    BY <2>1, <2>2, WithName, PartsOf, NilIs
  <2>4. x \in AllTrees /\ y \in AllTrees /\ u.height = t.height
    BY <2>2, PartsOf, TreeIs DEF Branch
  <2> HIDE DEF u, x, y
  <2>5. /\ Sorted[x] /\ Sorted[y]
        /\ \A m \in Ids[x] : Before("left", m, t.id)
        /\ \A m \in Ids[y] : Before(Other("left"), m, t.id)
        /\ t.id \notin Ids[x] \cup Ids[y]
        /\ Ids[x] \cap Ids[y] = {}
        /\ Ids[t] = Ids[x] \cup {t.id} \cup Ids[y]
    BY <2>2, <2>3, <2>4, BuiltIs DEF Good
  <2>6. /\ \A m \in Ids[x] : Before("left", m, r)
        /\ \A m \in Ids[y] : Before(Other("left"), m, r)
    BY <2>1, <2>5 DEF Before
  <2>7. Ids[u] = Ids[x] \cup {r} \cup Ids[y]
    BY <2>2, <2>3, <2>4, BuiltIs
  <2>8. Sorted[u]
    BY <2>1, <2>2, <2>3, <2>4, <2>5, <2>6, BuiltIs
  <2>9. Low[u]
    BY <2>2, <2>3, <2>4, LowIs DEF Good
  <2>10. u \in AllTrees
    BY <2>3 DEF Built, Branches
  <2>11. Ids[u] = (Ids[t] \ {t.id}) \cup {r}
    BY <2>5, <2>7
  <2> QED BY <1>2, <2>2, <2>8, <2>9, <2>10, <2>11 DEF Good, After
<1> QED BY <1>1, <1>2

\* delete_lm_rc and delete_rm_rc find an outermost node and do with it what the
\* replacer says.
EndWorks(t, d, r, done) ==
    IF t = Nil THEN done = [tree |-> Nil, deleted |-> Null]
    ELSE /\ done.deleted \in Ids[t]
         /\ \A m \in Ids[t] : Before(Other(d), m, done.deleted)
         /\ MayReplace(t, done.deleted, r) =>
               Good(done.tree) /\ Ids[done.tree] = After(Ids[t], done.deleted, r)

\* By induction on the tree.
LEMMA DeleteEndIs ==
    ASSUME NEW d \in Sides, NEW r, bal \in Bals
    PROVE  \A t \in Trees : Good(t) => EndWorks(t, d, r, delete_end_rc(d, r)[t])
<1> DEFINE rc == delete_end_rc(d, r)
           o  == Other(d)
           S  == {t \in AllTrees : t \in Trees /\ Good(t) => EndWorks(t, d, r, rc[t])}
<1>1. /\ rc[Nil] = [tree |-> Nil, deleted |-> Null]
      /\ \A t \in Trees \ {Nil} : rc[t] = Ended(t, d, r, rc[t[d]])
  BY DeleteEndEquation
<1> HIDE DEF rc
<1>2. Nil \in S
  BY <1>1, NilIs DEF EndWorks
<1>3. ASSUME NEW t \in Branches, t.left \in S, t.right \in S
      PROVE  t \in S
  <2>1. SUFFICES ASSUME t \in Trees, Good(t) PROVE EndWorks(t, d, r, rc[t])
    BY DEF Branches
  <2>2. t \in Trees \ {Nil} /\ t # Nil /\ t.left \in Trees /\ t.right \in Trees
    BY <2>1, TreesAre DEF Branches
  <2>3. o \in Sides /\ Other(o) = d /\ (t[d] = t.left \/ t[d] = t.right) /\ t[d] \in Trees
    BY <2>2, OtherSide DEF Sides
  <2>4. rc[t] = Ended(t, d, r, rc[t[d]])
    BY <1>1, <2>2
  <2> HIDE DEF o
  <2>5. /\ Good(t[d]) /\ Good(t[o]) /\ t.id \in Nodes /\ t.id \in Ids[t] /\ LowBelow(t)
        /\ Ids[t] = Ids[t[d]] \cup {t.id} \cup Ids[t[o]]
        /\ \A m \in Ids[t[d]] : Before(d, m, t.id)
        /\ \A m \in Ids[t[o]] : Before(o, m, t.id)
        /\ t.id \notin Ids[t[d]] \cup Ids[t[o]]
        /\ Ids[t[d]] \cap Ids[t[o]] = {}
    BY <2>1, <2>3, GoodParts DEF o
  <2>6. Before(o, t.id, t.id)
    BY <2>5, TreeAssumption DEF Before
  <2>7. CASE t[d] = Nil
    <3>1. /\ rc[t].deleted = t.id
          /\ rc[t].tree = IF r # NoReplacer THEN Replaced(t, r)
                          ELSE IF t[o] = Nil THEN Nil
                          ELSE Settle(FillFrom(t, o), d)
      BY <2>4, <2>7 DEF Ended, o
    <3>2. Ids[t] = {t.id} \cup Ids[t[o]]
      BY <2>5, <2>7, NilIs
    <3>3. \A m \in Ids[t] : Before(o, m, t.id)
      BY <2>5, <2>6, <3>2
    <3>4. ASSUME MayReplace(t, t.id, r)
          PROVE  Good(rc[t].tree) /\ Ids[rc[t].tree] = After(Ids[t], t.id, r)
      <4>1. CASE r # NoReplacer
        BY <2>1, <3>1, <3>4, <4>1, ReplacedIs
      <4>2. CASE r = NoReplacer /\ t[o] = Nil
        BY <2>5, <3>1, <3>2, <4>2, NilIs, LowIs DEF Good, After
      <4>3. CASE r = NoReplacer /\ t[o] # Nil
        <5> DEFINE u == FillFrom(t, o)
        <5>1. u \in Branches /\ Sorted[u] /\ Ids[u] = Ids[t] \ {t.id} /\ LowBelow(u)
          BY <2>1, <2>3, <2>5, <4>3, FillFromIs DEF Good
        <5> HIDE DEF u
        <5>2. Same(Settle(u, d), u) /\ Low[Settle(u, d)]
          BY <5>1, SettleIs
        <5>3. rc[t].tree = Settle(u, d)
          BY <3>1, <4>3 DEF u
        <5> QED BY <4>3, <5>1, <5>2, <5>3 DEF Same, Good, After
      <4> QED BY <4>1, <4>2, <4>3
    <3> QED BY <2>2, <2>5, <3>1, <3>3, <3>4 DEF EndWorks, o
  <2>8. CASE t[d] # Nil
    <3> DEFINE down == rc[t[d]]
               u    == [t EXCEPT ![d] = down.tree]
    <3>1. rc[t].deleted = down.deleted /\ rc[t].tree = Settle(u, d)
      BY <2>4, <2>8 DEF Ended
    <3>2. EndWorks(t[d], d, r, down)
      BY <1>3, <2>3, <2>5
    <3> DEFINE gone == down.deleted
    <3>3. /\ gone \in Ids[t[d]]
          /\ \A m \in Ids[t[d]] : Before(o, m, gone)
          /\ MayReplace(t[d], gone, r) =>
                Good(down.tree) /\ Ids[down.tree] = After(Ids[t[d]], gone, r)
      BY <2>8, <3>2 DEF EndWorks, o
    <3> HIDE DEF down, gone
    <3>4. gone \in Nodes /\ gone \in Ids[t] /\ Ids[t] \subseteq Nodes
      BY <2>1, <2>5, <3>3, IdsType DEF Good
    <3>5. Before(o, t.id, gone)
      BY <2>3, <2>5, <3>3, <3>4, BeforeIs DEF o
    <3>6. \A m \in Ids[t] : Before(o, m, gone)
      BY <2>3, <2>5, <3>3, <3>4, <3>5, BeforeIs
    <3>7. ASSUME MayReplace(t, gone, r)
          PROVE  Good(rc[t].tree) /\ Ids[rc[t].tree] = After(Ids[t], gone, r)
      <4>1. MayReplace(t[d], gone, r)
        BY <2>5, <3>7 DEF MayReplace
      <4>2. Good(down.tree) /\ Ids[down.tree] = After(Ids[t[d]], gone, r)
        BY <3>3, <4>1
      <4>3. r \notin {NoReplacer, Null} => r \in Nodes /\ r \notin Ids[t] /\ Before(d, r, t.id)
        BY <2>5, <3>3, <3>7 DEF MayReplace, Before
      <4>4. \A m \in Ids[down.tree] : Before(d, m, t.id) /\ m # t.id /\ m \notin Ids[t[o]]
        BY <2>5, <4>2, <4>3 DEF After
      <4>5. /\ u \in Branches /\ Sorted[u] /\ LowBelow(u)
            /\ Ids[u] = Ids[down.tree] \cup {t.id} \cup Ids[t[o]]
        BY <2>1, <4>2, <4>4, GraftIs DEF o
      <4> HIDE DEF u
      <4>6. Same(Settle(u, d), u) /\ Low[Settle(u, d)]
        BY <4>5, SettleIs
      <4>7. Ids[u] = After(Ids[t], gone, r)
        BY <2>5, <3>3, <4>2, <4>3, <4>5 DEF After
      <4> QED BY <3>1, <4>5, <4>6, <4>7 DEF Same, Good
    <3> QED BY <2>2, <3>1, <3>4, <3>6, <3>7 DEF EndWorks, gone, o
  <2> QED BY <2>7, <2>8
<1>4. AllTrees \subseteq S
  <2> HIDE DEF S
  <2> QED BY <1>2, <1>3, TreeInduction
<1> QED BY <1>4, TreesAre DEF rc

DeleteAnswer == [tree : AllTrees, deleted : Nodes \cup {Null}]

\* The side that delete_rc takes, and what it makes of the node it looks for.
DeleteSide(t, k) == IF KeyOf(t) > k THEN "left" ELSE "right"

Removed(t, r) == IF r # NoReplacer THEN Replaced(t, r)
                 ELSE IF t.right # Nil THEN Measured(FillFrom(t, "right"))
                 ELSE IF t.left # Nil THEN Measured(FillFrom(t, "left"))
                 ELSE Nil

DeleteStep(t, k, r, down) == IF KeyOf(t) # k THEN Deleted(t, DeleteSide(t, k), down)
                             ELSE [tree |-> Removed(t, r), deleted |-> t.id]

\* A deletion further down rotates nothing away.
LEMMA DeletedIs ==
    ASSUME NEW t \in Branches, NEW d \in Sides, NEW down \in DeleteAnswer
    PROVE  /\ Deleted(t, d, down) \in DeleteAnswer
           /\ Deleted(t, d, down).deleted = down.deleted
           /\ Same(Deleted(t, d, down).tree, [t EXCEPT ![d] = down.tree])
           /\ LowBelow([t EXCEPT ![d] = down.tree]) => Low[Deleted(t, d, down).tree]
<1> DEFINE o    == Other(d)
           u    == [t EXCEPT ![d] = down.tree]
           less == Measured(u)
           new  == IF High(less, o) THEN LiftOuter(less, o) ELSE less
<1>1. down.tree \in AllTrees /\ down.deleted \in Nodes \cup {Null} /\ o \in Sides
  BY OtherSide DEF DeleteAnswer
<1>2. u \in Branches
  BY <1>1, WithChild DEF Built
<1>3. Deleted(t, d, down) = [tree |-> new, deleted |-> down.deleted]
  BY DEF Deleted
<1> HIDE DEF u, o
<1>4. Same(less, u) /\ (LowBelow(u) => Low[less] /\ LowBelow(less))
  BY <1>2, SameHeights, LowMeasured
<1>5. less \in Branches /\ less \in AllTrees
  BY <1>2, <1>4 DEF Same, Branches
<1> HIDE DEF less
<1>6. Same(new, u)
  BY <1>1, <1>4, <1>5, LiftTwiceIs, SameIs
<1>7. LowBelow(u) => Low[new]
  BY <1>1, <1>4, <1>5, LiftTwiceParts DEF High
<1> HIDE DEF new
<1>8. new \in AllTrees
  BY <1>6 DEF Same
<1> QED BY <1>1, <1>3, <1>6, <1>7, <1>8 DEF DeleteAnswer, u

\* The node itself goes, or gives way to the caller's.
LEMMA RemovedIs ==
    ASSUME NEW t \in Branches, t \in Trees, NEW r \in Nodes \cup {Null, NoReplacer}
    PROVE  /\ Removed(t, r) \in AllTrees
           /\ Good(t) /\ MayReplace(t, t.id, r) =>
                 Good(Removed(t, r)) /\ Ids[Removed(t, r)] = After(Ids[t], t.id, r)
<1>1. CASE r # NoReplacer
  <2>1. Removed(t, r) = Replaced(t, r)
    BY <1>1 DEF Removed
  <2>2. Replaced(t, r) \in AllTrees
    <3>1. r # Null => [t EXCEPT !.id = r] \in Branches
      BY <1>1, WithName, NilIs DEF Built, Sides
    <3> QED BY <3>1 DEF Replaced, Branches
  <2> QED BY <1>1, <2>1, <2>2, ReplacedIs
<1>2. ASSUME r = NoReplacer, NEW d \in Sides, t[d] # Nil, Removed(t, r) = Measured(FillFrom(t, d))
      PROVE  /\ Removed(t, r) \in AllTrees
             /\ Good(t) => Good(Removed(t, r)) /\ Ids[Removed(t, r)] = After(Ids[t], t.id, r)
  <2> DEFINE u == FillFrom(t, d)
  <2>1. /\ u \in Branches
        /\ Sorted[t] => Sorted[u] /\ Ids[u] = Ids[t] \ {t.id}
        /\ LowBelow(t) => LowBelow(u)
    BY <1>2, FillFromIs
  <2> HIDE DEF u
  <2>2. Same(Measured(u), u) /\ (LowBelow(u) => Low[Measured(u)])
    BY <2>1, SameHeights, LowMeasured
  <2>3. Low[t] => LowBelow(t)
    BY LowAnyway
  <2>4. Removed(t, r) = Measured(u)
    BY <1>2 DEF u
  <2> QED BY <1>2, <2>1, <2>2, <2>3, <2>4 DEF Good, After, Same
<1>3. CASE r = NoReplacer /\ t.right # Nil
  <2>1. "right" \in Sides /\ t["right"] # Nil /\ Removed(t, r) = Measured(FillFrom(t, "right"))
    BY <1>3 DEF Sides, Removed
  <2> QED BY <1>2, <1>3, <2>1
<1>4. CASE r = NoReplacer /\ t.right = Nil /\ t.left # Nil
  <2>1. "left" \in Sides /\ t["left"] # Nil /\ Removed(t, r) = Measured(FillFrom(t, "left"))
    BY <1>4 DEF Sides, Removed
  <2> QED BY <1>2, <1>4, <2>1
<1>5. CASE r = NoReplacer /\ t.right = Nil /\ t.left = Nil
  <2>1. Removed(t, r) = Nil
    BY <1>5 DEF Removed
  <2>2. Good(t) => Ids[t] = {t.id}
    <3>1. "left" \in Sides /\ t["left"] = Nil /\ t[Other("left")] = Nil
      BY <1>5 DEF Sides, Other
    <3> QED BY <3>1, GoodParts, NilIs
  <2> QED BY <1>5, <2>1, <2>2, NilIs, LowIs DEF Good, After
<1> QED BY <1>1, <1>3, <1>4, <1>5

\* The equation of delete_rc.
LEMMA DeleteEquation ==
    ASSUME NEW k, NEW r \in Nodes \cup {Null, NoReplacer}
    PROVE  /\ delete_rc(k, r) \in [Trees -> DeleteAnswer]
           /\ delete_rc(k, r)[Nil] = [tree |-> Nil, deleted |-> Null]
           /\ \A t \in Trees \ {Nil} :
                 /\ t[DeleteSide(t, k)] \in Trees
                 /\ delete_rc(k, r)[t] = DeleteStep(t, k, r, delete_rc(k, r)[t[DeleteSide(t, k)]])
<1> DEFINE D    == Trees
           V    == DeleteAnswer
           base == [tree |-> Nil, deleted |-> Null]
           side == [t \in D \ {Nil} |-> DeleteSide(t, k)]
           step == [x \in (D \ {Nil}) \X V |-> DeleteStep(x[1], k, r, x[2])]
<1>1. base \in V
  BY TreeIs DEF DeleteAnswer
<1>2. step \in [(D \ {Nil}) \X V -> V]
  <2>1. ASSUME NEW t \in D \ {Nil}, NEW a \in V PROVE DeleteStep(t, k, r, a) \in V
    <3>1. t \in Branches /\ t \in Trees /\ DeleteSide(t, k) \in Sides
      BY TreesAre DEF Branches, DeleteSide, Sides
    <3>2. t.id \in Nodes /\ Removed(t, r) \in AllTrees
      BY <3>1, PartsOf, RemovedIs
    <3>3. CASE KeyOf(t) # k
      BY <3>1, <3>3, DeletedIs DEF DeleteStep
    <3>4. CASE KeyOf(t) = k
      BY <3>2, <3>4 DEF DeleteStep, DeleteAnswer
    <3> QED BY <3>3, <3>4
  <2> HIDE DEF V, D
  <2> QED BY <2>1
<1>3. PICK f \in [D -> V] :
         /\ f[Nil] = base
         /\ \A t \in D \ {Nil} : t[side[t]] \in D /\ f[t] = step[<<t, f[t[side[t]]]>>]
  <2>1. DownClosed(D) /\ Ways(D, V, side, step)
    BY <1>2, TreesDownClosed DEF Ways, DeleteSide, Sides
  <2> HIDE DEF step, V, base, D, side
  <2> QED BY <1>1, <2>1, OneWay
<1>4. \A t \in D \ {Nil} : /\ t[DeleteSide(t, k)] \in D
                           /\ f[t] = DeleteStep(t, k, r, f[t[DeleteSide(t, k)]])
  <2> HIDE DEF V, D
  <2> QED BY <1>3
<1>5. f = [t \in Trees |->
            IF t = Nil THEN base
            ELSE IF KeyOf(t) # k
            THEN LET d == IF KeyOf(t) > k THEN "left" ELSE "right"
                 IN  Deleted(t, d, f[t[d]])
            ELSE [tree |-> IF r # NoReplacer THEN Replaced(t, r)
                           ELSE IF t.right # Nil THEN Measured(FillFrom(t, "right"))
                           ELSE IF t.left # Nil THEN Measured(FillFrom(t, "left"))
                           ELSE Nil,
                  deleted |-> t.id]]
  <2>1. \A t \in Trees : f[t] = IF t = Nil THEN base
                                ELSE DeleteStep(t, k, r, f[t[DeleteSide(t, k)]])
    <3> HIDE DEF base
    <3> QED BY <1>3, <1>4
  <2>2. f = [t \in Trees |-> f[t]]
    BY <1>3
  <2> HIDE DEF base
  <2>3. f = [t \in Trees |-> IF t = Nil THEN base
                             ELSE DeleteStep(t, k, r, f[t[DeleteSide(t, k)]])]
    BY <2>1, <2>2
  <2> QED BY <2>3 DEF DeleteStep, DeleteSide, Removed
<1>6. /\ delete_rc(k, r) = [t \in Trees |->
            IF t = Nil THEN base
            ELSE IF KeyOf(t) # k
            THEN LET d == IF KeyOf(t) > k THEN "left" ELSE "right"
                 IN  Deleted(t, d, delete_rc(k, r)[t[d]])
            ELSE [tree |-> IF r # NoReplacer THEN Replaced(t, r)
                           ELSE IF t.right # Nil THEN Measured(FillFrom(t, "right"))
                           ELSE IF t.left # Nil THEN Measured(FillFrom(t, "left"))
                           ELSE Nil,
                  deleted |-> t.id]]
  BY <1>5 DEF delete_rc
<1> DEFINE g == delete_rc(k, r)
<1> HIDE DEF g
<1>7. g = [t \in Trees |-> IF t = Nil THEN base
                           ELSE DeleteStep(t, k, r, g[t[DeleteSide(t, k)]])]
  BY <1>6 DEF g, DeleteStep, DeleteSide, Removed
<1>8. /\ g[Nil] = base
      /\ \A t \in Trees \ {Nil} : g[t] = DeleteStep(t, k, r, g[t[DeleteSide(t, k)]])
  <2> HIDE DEF base
  <2>1. Nil \in Trees
    BY TreesAre
  <2> QED BY <1>7, <2>1, Zenon
<1>9. g \in [Trees -> DeleteAnswer]
  <2> DEFINE S == {t \in AllTrees : t \in Trees => g[t] \in V}
  <2>1. Nil \in S
    <3> HIDE DEF V, base
    <3> QED BY <1>1, <1>8, TreeIs
  <2>2. ASSUME NEW t \in Branches, t.left \in S, t.right \in S
        PROVE  t \in S
    <3>1. SUFFICES ASSUME t \in Trees PROVE g[t] \in V
      BY DEF Branches
    <3>2. t \in Trees \ {Nil} /\ t.left \in Trees /\ t.right \in Trees
      BY <3>1, TreesAre DEF Branches
    <3>3. t[DeleteSide(t, k)] \in {t.left, t.right}
      BY DEF DeleteSide
    <3>4. g[t[DeleteSide(t, k)]] \in V
      BY <2>2, <3>2, <3>3
    <3> HIDE DEF V
    <3>5. step[<<t, g[t[DeleteSide(t, k)]]>>] \in V
      BY <1>2, <3>2, <3>4
    <3> QED BY <1>8, <3>2, <3>4, <3>5
  <2>3. AllTrees \subseteq S
    <3> HIDE DEF S
    <3> QED BY <2>1, <2>2, TreeInduction
  <2>4. \A t \in Trees : g[t] \in V
    BY <2>3, TreesAre
  <2>5. g = [t \in Trees |-> g[t]]
    BY <1>7
  <2> HIDE DEF V
  <2>6. g \in [Trees -> V]
    BY <2>4, <2>5
  <2> QED BY <2>6 DEF V
<1> QED BY <1>4, <1>8, <1>9 DEF g

\* delete_rc finds a node of the key if there is one, and does with it what the
\* replacer says.
DeleteWorks(t, k, r, done) ==
    \/ /\ done.deleted \in Ids[t]
       /\ Key[done.deleted] = k
       /\ MayReplace(t, done.deleted, r) =>
             Good(done.tree) /\ Ids[done.tree] = After(Ids[t], done.deleted, r)
    \/ /\ \A m \in Ids[t] : Key[m] # k
       /\ done.deleted = Null
       /\ Good(done.tree)
       /\ Ids[done.tree] = Ids[t]

\* By induction on the tree.
LEMMA DeleteIs ==
    ASSUME NEW k \in Int, NEW r \in Nodes \cup {Null, NoReplacer}
    PROVE  \A t \in Trees : Good(t) => DeleteWorks(t, k, r, delete_rc(k, r)[t])
<1> DEFINE rc == delete_rc(k, r)
           S  == {t \in AllTrees : t \in Trees /\ Good(t) => DeleteWorks(t, k, r, rc[t])}
<1>1. /\ rc \in [Trees -> DeleteAnswer]
      /\ rc[Nil] = [tree |-> Nil, deleted |-> Null]
      /\ \A t \in Trees \ {Nil} : rc[t] = DeleteStep(t, k, r, rc[t[DeleteSide(t, k)]])
  BY DeleteEquation
<1> HIDE DEF rc
<1>2. Nil \in S
  BY <1>1, NilIs, LowIs DEF DeleteWorks, Good
<1>3. ASSUME NEW t \in Branches, t.left \in S, t.right \in S
      PROVE  t \in S
  <2>1. SUFFICES ASSUME t \in Trees, Good(t) PROVE DeleteWorks(t, k, r, rc[t])
    BY DEF Branches
  <2>2. t \in Trees \ {Nil} /\ t.left \in Trees /\ t.right \in Trees
    BY <2>1, TreesAre DEF Branches
  <2> DEFINE d == DeleteSide(t, k)
             o == Other(d)
  <2>3. d \in Sides /\ o \in Sides /\ Other(o) = d /\ (t[d] = t.left \/ t[d] = t.right)
    BY OtherSide DEF DeleteSide, Sides
  <2>4. rc[t] = DeleteStep(t, k, r, rc[t[d]])
    BY <1>1, <2>2
  <2>5. KeyOf(t) # k => \A m : Before(o, m, t.id) /\ m \in Nodes => Key[m] # k
    <3>1. t.id \in Nodes /\ \A m \in Nodes : Key[m] \in Int
      BY <2>3, PartsOf, TreeAssumption
    <3> QED BY <3>1 DEF KeyOf, DeleteSide, Before, Other
  <2> HIDE DEF d, o
  <2>6. /\ Good(t[d]) /\ t.id \in Nodes /\ t.id \in Ids[t]
        /\ Ids[t] = Ids[t[d]] \cup {t.id} \cup Ids[t[o]]
        /\ \A m \in Ids[t[d]] : Before(d, m, t.id)
        /\ \A m \in Ids[t[o]] : Before(o, m, t.id)
        /\ t.id \notin Ids[t[d]] \cup Ids[t[o]]
        /\ Ids[t[d]] \cap Ids[t[o]] = {}
    BY <2>1, <2>3, GoodParts DEF o
  <2>7. CASE KeyOf(t) = k
    <3>1. rc[t].tree = Removed(t, r) /\ rc[t].deleted = t.id
      BY <2>4, <2>7 DEF DeleteStep
    <3>2. MayReplace(t, t.id, r) =>
             Good(rc[t].tree) /\ Ids[rc[t].tree] = After(Ids[t], t.id, r)
      BY <2>1, <3>1, RemovedIs
    <3> QED BY <2>6, <2>7, <3>1, <3>2 DEF DeleteWorks, KeyOf
  <2>8. CASE KeyOf(t) # k
    <3> DEFINE down == rc[t[d]]
               gone == down.deleted
               new  == Deleted(t, d, down)
               u    == [t EXCEPT ![d] = down.tree]
    <3>1. t[d] \in Trees /\ down \in DeleteAnswer
      BY <1>1, <2>2, <2>3
    <3>2. rc[t] = new
      BY <2>4, <2>8 DEF DeleteStep, d
    <3>3. DeleteWorks(t[d], k, r, down)
      BY <1>3, <2>3, <2>6, <3>1
    <3>4. /\ new.deleted = gone
          /\ Same(new.tree, u)
          /\ LowBelow(u) => Low[new.tree]
      BY <2>3, <3>1, DeletedIs
    <3>5. ASSUME Good(down.tree),
                 \A m \in Ids[down.tree] : Before(d, m, t.id) /\ m # t.id /\ m \notin Ids[t[o]]
          PROVE  Good(new.tree) /\ Ids[new.tree] = Ids[down.tree] \cup {t.id} \cup Ids[t[o]]
      <4>1. /\ Sorted[u] /\ LowBelow(u)
            /\ Ids[u] = Ids[down.tree] \cup {t.id} \cup Ids[t[o]]
        <5> HIDE DEF down
        <5> QED BY <2>1, <2>3, <3>5, GraftIs DEF o
      <4> HIDE DEF u, down, new
      <4> QED BY <3>4, <4>1 DEF Same, Good
    <3> HIDE DEF down, gone, new, u
    <3>6. Ids[t[o]] \subseteq Nodes
      BY <2>3, PartsOf, IdsType
    <3>7. \A m \in {t.id} \cup Ids[t[o]] : Key[m] # k
      BY <2>5, <2>6, <2>8, <3>6 DEF KeyOf
    <3>8. CASE /\ gone \in Ids[t[d]]
               /\ Key[gone] = k
               /\ MayReplace(t[d], gone, r) =>
                     Good(down.tree) /\ Ids[down.tree] = After(Ids[t[d]], gone, r)
      <4>1. ASSUME MayReplace(t, gone, r)
            PROVE  Good(new.tree) /\ Ids[new.tree] = After(Ids[t], gone, r)
        <5>1. MayReplace(t[d], gone, r)
          BY <2>6, <4>1 DEF MayReplace
        <5>2. r \notin {NoReplacer, Null} => r \in Nodes /\ r \notin Ids[t] /\ Before(d, r, t.id)
          BY <2>6, <3>8, <4>1 DEF MayReplace, Before
        <5>3. \A m \in Ids[down.tree] : Before(d, m, t.id) /\ m # t.id /\ m \notin Ids[t[o]]
          BY <2>6, <3>8, <5>1, <5>2 DEF After
        <5>4. Good(new.tree) /\ Ids[new.tree] = Ids[down.tree] \cup {t.id} \cup Ids[t[o]]
          BY <3>5, <3>8, <5>1, <5>3
        <5> QED BY <2>6, <3>8, <5>1, <5>2, <5>4 DEF After
      <4> QED BY <2>6, <3>2, <3>4, <3>8, <4>1 DEF DeleteWorks
    <3>9. CASE /\ \A m \in Ids[t[d]] : Key[m] # k
               /\ gone = Null
               /\ Good(down.tree)
               /\ Ids[down.tree] = Ids[t[d]]
      <4>1. Good(new.tree) /\ Ids[new.tree] = Ids[t]
        BY <2>6, <3>5, <3>9
      <4>2. \A m \in Ids[t] : Key[m] # k
        BY <2>6, <3>7, <3>9
      <4> QED BY <3>2, <3>4, <3>9, <4>1, <4>2 DEF DeleteWorks
    <3> QED BY <3>3, <3>8, <3>9 DEF DeleteWorks, gone
  <2> QED BY <2>7, <2>8
<1>4. AllTrees \subseteq S
  <2> HIDE DEF S
  <2> QED BY <1>2, <1>3, TreeInduction
<1> QED BY <1>4, TreesAre DEF rc

-----------------------------------------------------------------------------
(* Update *)

UpdateAnswer == [tree : AllTrees, old : Nodes \cup {Null}]

\* The side that tree_update takes, and what it makes of a node.
UpdateSide(t, n) == IF Key[n] > KeyOf(t) THEN "right" ELSE "left"

UpdateStep(t, n, down) ==
    IF KeyOf(t) = Key[n] THEN [tree |-> [t EXCEPT !.id = n, !.height = 0], old |-> t.id]
    ELSE [tree |-> [t EXCEPT ![UpdateSide(t, n)] = down.tree], old |-> down.old]

\* The equation of update_rc.
LEMMA UpdateEquation ==
    ASSUME NEW n \in Nodes
    PROVE  /\ update_rc(n)[Nil] = [tree |-> Nil, old |-> Null]
           /\ \A t \in Trees \ {Nil} :
                 update_rc(n)[t] = UpdateStep(t, n, update_rc(n)[t[UpdateSide(t, n)]])
<1> DEFINE D    == Trees
           V    == UpdateAnswer
           base == [tree |-> Nil, old |-> Null]
           side == [t \in D \ {Nil} |-> UpdateSide(t, n)]
           step == [x \in (D \ {Nil}) \X V |-> UpdateStep(x[1], n, x[2])]
<1>1. base \in V
  BY TreeIs DEF UpdateAnswer
<1>2. step \in [(D \ {Nil}) \X V -> V]
  <2>1. ASSUME NEW t \in D \ {Nil}, NEW a \in V PROVE UpdateStep(t, n, a) \in V
    <3>1. t \in Branches /\ UpdateSide(t, n) \in Sides
      BY TreesAre DEF Branches, UpdateSide, Sides
    <3>2. a.tree \in AllTrees /\ a.old \in Nodes \cup {Null} /\ t.id \in Nodes
      BY <3>1, PartsOf DEF UpdateAnswer
    <3>3. [t EXCEPT !.id = n, !.height = 0] \in AllTrees
      BY <3>1, WithName, NilIs DEF Built, Branches
    <3>4. [t EXCEPT ![UpdateSide(t, n)] = a.tree] \in AllTrees
      BY <3>1, <3>2, WithChild DEF Built, Branches
    <3> QED BY <3>2, <3>3, <3>4 DEF UpdateStep, UpdateAnswer
  <2> HIDE DEF V, D
  <2> QED BY <2>1
<1>3. PICK f \in [D -> V] :
         /\ f[Nil] = base
         /\ \A t \in D \ {Nil} : t[side[t]] \in D /\ f[t] = step[<<t, f[t[side[t]]]>>]
  <2>1. DownClosed(D) /\ Ways(D, V, side, step)
    BY <1>2, TreesDownClosed DEF Ways, UpdateSide, Sides
  <2> HIDE DEF step, V, base, D, side
  <2> QED BY <1>1, <2>1, OneWay
<1>4. \A t \in D \ {Nil} : f[t] = UpdateStep(t, n, f[t[UpdateSide(t, n)]])
  <2> HIDE DEF V, D
  <2> QED BY <1>3
<1>5. f = [t \in Trees |->
            IF t = Nil THEN base
            ELSE IF KeyOf(t) = Key[n]
            THEN [tree |-> [t EXCEPT !.id = n, !.height = 0], old |-> t.id]
            ELSE LET d == IF Key[n] > KeyOf(t) THEN "right" ELSE "left"
                 IN  [tree |-> [t EXCEPT ![d] = f[t[d]].tree], old |-> f[t[d]].old]]
  <2> HIDE DEF base
  <2>1. \A t \in Trees : f[t] = IF t = Nil THEN base
                                ELSE UpdateStep(t, n, f[t[UpdateSide(t, n)]])
    BY <1>3, <1>4
  <2>2. f = [t \in Trees |-> f[t]]
    BY <1>3
  <2>3. f = [t \in Trees |-> IF t = Nil THEN base
                             ELSE UpdateStep(t, n, f[t[UpdateSide(t, n)]])]
    BY <2>1, <2>2
  <2> QED BY <2>3 DEF UpdateStep, UpdateSide
<1> DEFINE g == update_rc(n)
<1>6. g = [t \in Trees |->
            IF t = Nil THEN base
            ELSE IF KeyOf(t) = Key[n]
            THEN [tree |-> [t EXCEPT !.id = n, !.height = 0], old |-> t.id]
            ELSE LET d == IF Key[n] > KeyOf(t) THEN "right" ELSE "left"
                 IN  [tree |-> [t EXCEPT ![d] = g[t[d]].tree], old |-> g[t[d]].old]]
  BY <1>5 DEF update_rc
<1> HIDE DEF g
<1>7. g = [t \in Trees |-> IF t = Nil THEN base
                           ELSE UpdateStep(t, n, g[t[UpdateSide(t, n)]])]
  BY <1>6 DEF UpdateStep, UpdateSide
<1>8. /\ g[Nil] = base
      /\ \A t \in Trees \ {Nil} : g[t] = UpdateStep(t, n, g[t[UpdateSide(t, n)]])
  <2> HIDE DEF base
  <2>1. Nil \in Trees
    BY TreesAre
  <2> QED BY <1>7, <2>1, Zenon
<1> QED BY <1>8 DEF g

\* tree_update exchanges a node of the key, if there is one.
UpdateWorks(t, n, done) ==
    /\ Good(done.tree)
    /\ \/ /\ done.old \in Ids[t]
          /\ Key[done.old] = Key[n]
          /\ Ids[done.tree] = (Ids[t] \ {done.old}) \cup {n}
       \/ /\ \A m \in Ids[t] : Key[m] # Key[n]
          /\ done.old = Null
          /\ Ids[done.tree] = Ids[t]

\* By induction on the tree.
LEMMA UpdateIs ==
    ASSUME NEW n \in Nodes
    PROVE  \A t \in Trees : Good(t) /\ n \notin Ids[t] => UpdateWorks(t, n, update_rc(n)[t])
<1> DEFINE rc == update_rc(n)
           S  == {t \in AllTrees :
                    t \in Trees /\ Good(t) /\ n \notin Ids[t] => UpdateWorks(t, n, rc[t])}
<1>1. /\ rc[Nil] = [tree |-> Nil, old |-> Null]
      /\ \A t \in Trees \ {Nil} : rc[t] = UpdateStep(t, n, rc[t[UpdateSide(t, n)]])
  BY UpdateEquation
<1> HIDE DEF rc
<1>2. Nil \in S
  BY <1>1, NilIs, LowIs DEF UpdateWorks, Good
<1>3. ASSUME NEW t \in Branches, t.left \in S, t.right \in S
      PROVE  t \in S
  <2>1. SUFFICES ASSUME t \in Trees, Good(t), n \notin Ids[t] PROVE UpdateWorks(t, n, rc[t])
    BY DEF Branches
  <2>2. t \in Trees \ {Nil} /\ t.left \in Trees /\ t.right \in Trees
    BY <2>1, TreesAre DEF Branches
  <2> DEFINE d == UpdateSide(t, n)
             o == Other(d)
  <2>3. d \in Sides /\ o \in Sides /\ Other(o) = d /\ (t[d] = t.left \/ t[d] = t.right)
    BY OtherSide DEF UpdateSide, Sides
  <2>4. rc[t] = UpdateStep(t, n, rc[t[d]])
    BY <1>1, <2>2
  <2>5. /\ KeyOf(t) # Key[n] => \A m : Before(o, m, t.id) /\ m \in Nodes => Key[m] # Key[n]
        /\ Before(d, n, t.id)
    <3>1. t.id \in Nodes /\ \A m \in Nodes : Key[m] \in Int
      BY <2>3, PartsOf, TreeAssumption
    <3> QED BY <3>1 DEF KeyOf, UpdateSide, Before, Other
  <2>6. CASE KeyOf(t) = Key[n]
    <3> HIDE DEF d, o
    <3>1. MayReplace(t, t.id, n) /\ n # NoReplacer
      BY <2>1, <2>6, TreeAssumption DEF MayReplace, KeyOf
    <3>2. n # Null
      BY TreeAssumption
    <3> DEFINE v == [t EXCEPT !.id = n]
               u == [t EXCEPT !.id = n, !.height = 0]
    <3>3. Good(v) /\ Ids[v] = (Ids[t] \ {t.id}) \cup {n}
      BY <2>1, <3>1, <3>2, ReplacedIs DEF Replaced, After
    <3>4. Built(u, d, t[d], n, t[o]) /\ Built(v, d, t[d], n, t[o]) /\ u.height <= 1
      <4>1. Built(u, d, t[d], n, t[o]) /\ Built(v, d, t[d], n, t[o])
        <5>1. 0 \in Nat /\ Nil \in AllTrees
          BY NilIs
        <5> QED BY <2>3, <5>1, WithName DEF o
      <4>2. u.height = 0
        BY TreeIs DEF Branch
      <4> QED BY <4>1, <4>2
    <3>5. t[d] \in AllTrees /\ t[o] \in AllTrees
      BY <2>3, PartsOf
    <3> HIDE DEF u, v
    <3>6. Ids[u] = Ids[v] /\ (Sorted[u] <=> Sorted[v])
      <4>1. /\ Ids[u] = Ids[t[d]] \cup {n} \cup Ids[t[o]]
            /\ Ids[v] = Ids[t[d]] \cup {n} \cup Ids[t[o]]
        BY <2>3, <3>4, <3>5, BuiltIs DEF o
      <4>2. Sorted[u] <=> Sorted[v]
        BY <2>3, <3>4, <3>5, BuiltIs DEF o
      <4> QED BY <4>1, <4>2
    <3>7. Low[u]
      BY <2>3, <3>3, <3>4, LowIs DEF Good
    <3>8. u \in AllTrees
      BY <3>4 DEF Built, Branches
    <3>9. rc[t].tree = u /\ rc[t].old = t.id
      BY <2>4, <2>6 DEF UpdateStep, u
    <3>10. t.id \in Ids[t]
      BY <2>1, <2>3, GoodParts
    <3> QED BY <2>6, <3>3, <3>6, <3>7, <3>8, <3>9, <3>10 DEF UpdateWorks, Good, KeyOf
  <2>7. CASE KeyOf(t) # Key[n]
    <3> DEFINE down == rc[t[d]]
               u    == [t EXCEPT ![d] = down.tree]
    <3>1. rc[t].tree = u /\ rc[t].old = down.old
      BY <2>4, <2>7 DEF UpdateStep
    <3> HIDE DEF d, o
    <3>2. /\ Good(t[d]) /\ t.id \in Nodes /\ t.id \in Ids[t]
          /\ Ids[t] = Ids[t[d]] \cup {t.id} \cup Ids[t[o]]
          /\ \A m \in Ids[t[d]] : Before(d, m, t.id)
          /\ \A m \in Ids[t[o]] : Before(o, m, t.id)
          /\ t.id \notin Ids[t[d]] \cup Ids[t[o]]
          /\ Ids[t[d]] \cap Ids[t[o]] = {}
      BY <2>1, <2>3, GoodParts DEF o
    <3>3. UpdateWorks(t[d], n, down)
      BY <1>3, <2>1, <2>2, <2>3, <3>2
    <3> HIDE DEF down
    <3>4. \A m \in Ids[down.tree] : Before(d, m, t.id) /\ m # t.id /\ m \notin Ids[t[o]]
      BY <2>1, <2>5, <3>2, <3>3 DEF UpdateWorks
    <3>5. /\ u \in Branches /\ Sorted[u] /\ LowBelow(u)
          /\ Ids[u] = Ids[down.tree] \cup {t.id} \cup Ids[t[o]]
      <4>1. Good(down.tree)
        BY <3>3 DEF UpdateWorks
      <4> DEFINE x == down.tree
      <4>2. \A m \in Ids[x] : Before(d, m, t.id) /\ m # t.id /\ m \notin Ids[t[Other(d)]]
        BY <3>4 DEF o
      <4>3. u = [t EXCEPT ![d] = x] /\ Good(x)
        BY <4>1
      <4> HIDE DEF u, x
      <4>4. /\ u \in Branches /\ Sorted[u] /\ LowBelow(u)
            /\ Ids[u] = Ids[x] \cup {t.id} \cup Ids[t[Other(d)]]
        BY <2>1, <2>3, <4>2, <4>3, GraftIs
      <4> QED BY <4>4 DEF x, o
    <3>6. Good(u)
      <4> DEFINE x == down.tree
      <4>0. x \in AllTrees /\ Low[x] /\ 0 \in Nat
        BY <3>3 DEF Good, UpdateWorks
      <4> HIDE DEF x
      <4>1. Built(u, d, x, t.id, t[o]) /\ u.height = t.height
        <5>1. u = [t EXCEPT ![d] = x]
          BY DEF u, x
        <5>2. Built([t EXCEPT ![d] = x], d, x, t.id, t[o])
          BY <2>3, <4>0, WithChild DEF o
        <5>3. [t EXCEPT ![d] = x].height = t.height
          BY <2>3, <4>0, WithChild DEF o
        <5> QED BY <5>1, <5>2, <5>3
      <4>2. Built(t, d, t[d], t.id, t[o])
        BY <2>3, PartsOf DEF o
      <4>3. x = Nil => t[d] = Nil
        <5>1. x = Nil => Ids[t[d]] = {}
          BY <3>3, NilIs DEF UpdateWorks, x
        <5>2. t[d] # Nil => t[d].id \in Ids[t[d]]
          BY <2>3, <3>2, GoodParts DEF Good, Branches
        <5> QED BY <5>1, <5>2
      <4>4. Low[u]
        <5>1. Low[t]
          BY <2>1 DEF Good
        <5>2. Low[t[o]] /\ (t[d] = Nil /\ t[o] = Nil => t.height <= 1)
          BY <2>3, <4>2, <5>1, LowIs
        <5> QED BY <2>3, <4>0, <4>1, <4>3, <5>2, LowIs
      <4> QED BY <3>5, <4>4 DEF Good, Branches
    <3> HIDE DEF u
    <3>7. Ids[t[o]] \subseteq Nodes
      BY <2>3, PartsOf, IdsType DEF o
    <3>8. \A m \in {t.id} \cup Ids[t[o]] : Key[m] # Key[n]
      BY <2>5, <2>7, <3>2, <3>7 DEF KeyOf
    <3>9. CASE /\ down.old \in Ids[t[d]]
               /\ Key[down.old] = Key[n]
               /\ Ids[down.tree] = (Ids[t[d]] \ {down.old}) \cup {n}
      BY <3>1, <3>2, <3>5, <3>6, <3>9 DEF UpdateWorks
    <3>10. CASE /\ \A m \in Ids[t[d]] : Key[m] # Key[n]
                /\ down.old = Null
                /\ Ids[down.tree] = Ids[t[d]]
      BY <3>1, <3>2, <3>5, <3>6, <3>8, <3>10 DEF UpdateWorks
    <3> QED BY <3>3, <3>9, <3>10 DEF UpdateWorks
  <2> QED BY <2>6, <2>7
<1>4. AllTrees \subseteq S
  <2> HIDE DEF S
  <2> QED BY <1>2, <1>3, TreeInduction
<1> QED BY <1>4, TreesAre DEF rc

-----------------------------------------------------------------------------
(* The calls *)

\* Insertion leaves the leaves low.
LEMMA InsertLow ==
    ASSUME NEW n \in Nodes, NEW is_set \in BOOLEAN
    PROVE  \A t \in Trees : Low[t] => Low[insert_rc(n, is_set)[t].tree]
<1> DEFINE rc == insert_rc(n, is_set)
           S  == {t \in AllTrees : t \in Trees /\ Low[t] => Low[rc[t].tree]}
<1>1. /\ rc[Nil] = [tree |-> Leaf(n), side |-> "none", replaced |-> Null]
      /\ \A t \in Trees \ {Nil} :
            rc[t] = IF KeyOf(t) = Key[n] /\ is_set
                    THEN [tree |-> [t EXCEPT !.id = n], side |-> "none", replaced |-> t.id]
                    ELSE Inserted(t, InsertSide(t, n), rc[t[InsertSide(t, n)]])
  BY InsertEquation
<1>2. \A t \in Trees : rc[t] \in InsertAnswer
  BY InsertIs DEF InsertWorks
<1> HIDE DEF rc
<1>3. Nil \in S
  <2>1. Built(Leaf(n), "left", Nil, n, Nil) /\ Leaf(n).height = 1 /\ "left" \in Sides
    BY LeafIs DEF Leaf, Sides
  <2>2. Low[Leaf(n)]
    BY <2>1, LowIs
  <2> QED BY <1>1, <2>2, NilIs
<1>4. ASSUME NEW t \in Branches, t.left \in S, t.right \in S
      PROVE  t \in S
  <2>1. SUFFICES ASSUME t \in Trees, Low[t] PROVE Low[rc[t].tree]
    BY DEF Branches
  <2>2. t \in Trees \ {Nil} /\ t.left \in Trees /\ t.right \in Trees
    BY <2>1, TreesAre DEF Branches
  <2>3. CASE KeyOf(t) = Key[n] /\ is_set
    <3> DEFINE u == [t EXCEPT !.id = n]
    <3>1. "left" \in Sides /\ Built(u, "left", t["left"], n, t[Other("left")])
          /\ Built(t, "left", t["left"], t.id, t[Other("left")])
      BY WithName, PartsOf, NilIs DEF Sides
    <3>2. u.height = t.height
      BY TreeIs DEF Branch
    <3>3. rc[t] = [tree |-> u, side |-> "none", replaced |-> t.id]
      BY <1>1, <2>2, <2>3
    <3> HIDE DEF u
    <3>4. Low[u]
      BY <2>1, <3>1, <3>2, LowIs
    <3> QED BY <3>3, <3>4
  <2>4. CASE ~ (KeyOf(t) = Key[n] /\ is_set)
    <3> DEFINE d    == InsertSide(t, n)
               o    == Other(d)
               down == rc[t[d]]
               grown == [t EXCEPT ![d] = down.tree, !.height = down.tree.height + 1]
    <3>1. d \in Sides /\ (t[d] = t.left \/ t[d] = t.right) /\ t[d] \in Trees
      BY <2>2 DEF InsertSide, Sides
    <3>2. down \in InsertAnswer
      BY <1>2, <3>1
    <3>3. down.tree \in Branches /\ down.tree \in AllTrees /\ down.tree # Nil
      BY <3>2 DEF InsertAnswer, Branches
    <3>4. Low[t[d]] /\ Low[t[o]]
      BY <2>1, <3>1, LowAnyway
    <3>5. Low[down.tree]
      BY <1>4, <3>1, <3>4
    <3>6. down.tree.height + 1 \in Nat
      BY <3>3, TreeIs DEF Branch
    <3>7. Built(grown, d, down.tree, t.id, t[o])
      <4> DEFINE x == down.tree
                 h == down.tree.height + 1
      <4>1. grown = [t EXCEPT ![d] = x, !.height = h] /\ x \in AllTrees /\ h \in Nat
        BY <3>3, <3>6
      <4> HIDE DEF d, x, h, grown
      <4>2. Built([t EXCEPT ![d] = x, !.height = h], d, x, t.id, t[Other(d)])
        BY <3>1, <4>1, WithChild
      <4> QED BY <4>1, <4>2 DEF x, o
    <3> DEFINE new == IF down.side = "none" \/ ~HighAfterInsert(grown, d) THEN grown
                      ELSE IF down.side = d THEN Lift(grown, d)
                      ELSE LiftTwice(grown, d)
    <3>8. rc[t].tree = new
      <4>1. rc[t] = Inserted(t, d, down)
        BY <1>1, <2>2, <2>4
      <4>2. Inserted(t, d, down) = [tree |-> new, side |-> d, replaced |-> down.replaced]
        BY DEF Inserted
      <4> HIDE DEF new
      <4> QED BY <4>1, <4>2
    <3> HIDE DEF d, o, down, grown
    <3>9. /\ LowBelow(grown) /\ Low[grown]
          /\ grown \in Branches /\ grown[d] # Nil
      BY <3>1, <3>3, <3>4, <3>5, <3>7, LowIs DEF Built
    <3>10. Low[Lift(grown, d)] /\ Low[LiftTwice(grown, d)]
      BY <3>1, <3>9, LiftParts, LiftTwiceParts
    <3> QED BY <3>8, <3>9, <3>10
  <2> QED BY <2>3, <2>4
<1>5. AllTrees \subseteq S
  <2> HIDE DEF S
  <2> QED BY <1>3, <1>4, TreeInduction
<1> QED BY <1>5, TreesAre DEF rc

\* The walk of tree_min and tree_max.
Walks(w, d) == w = [t \in Trees \ {Nil} |-> IF t[d] = Nil THEN t.id ELSE w[t[d]]]

\* There is one, and Outermost is where it ends.
LEMMA WalkIs ==
    ASSUME NEW d \in Sides
    PROVE  \E w : Walks(w, d) /\ Outermost(d) = w[root]
<1> DEFINE D    == Trees
           V    == Nodes \cup {Null}
           base == Null
           side == [t \in D \ {Nil} |-> d]
           step == [x \in (D \ {Nil}) \X V |-> IF x[1][d] = Nil THEN x[1].id ELSE x[2]]
<1>1. base \in V
  OBVIOUS
<1>2. step \in [(D \ {Nil}) \X V -> V]
  <2>1. \A t \in D \ {Nil} : t.id \in V
    BY TreesAre, TreeIs DEF Branch
  <2> HIDE DEF V, D
  <2> QED BY <2>1
<1>3. PICK f \in [D -> V] :
         /\ f[Nil] = base
         /\ \A t \in D \ {Nil} : t[side[t]] \in D /\ f[t] = step[<<t, f[t[side[t]]]>>]
  <2>1. DownClosed(D) /\ Ways(D, V, side, step)
    BY <1>2, TreesDownClosed DEF Ways
  <2> HIDE DEF step, V, base, D, side
  <2> QED BY <1>1, <2>1, OneWay
<1>4. \A t \in D \ {Nil} : t[d] \in D /\ f[t] = IF t[d] = Nil THEN t.id ELSE f[t[d]]
  <2> HIDE DEF V, D
  <2> QED BY <1>3
<1> DEFINE g == [t \in Trees \ {Nil} |-> f[t]]
<1>5. \A t \in Trees \ {Nil} : g[t] = IF t[d] = Nil THEN t.id ELSE g[t[d]]
  BY <1>4
<1>6. g = [t \in Trees \ {Nil} |-> g[t]]
  OBVIOUS
<1> HIDE DEF g
<1>7. Walks(g, d)
  BY <1>5, <1>6, Zenon DEF Walks
<1> DEFINE w == CHOOSE w : Walks(w, d)
<1>8. Walks(w, d)
  BY <1>7
<1>9. Outermost(d) = w[root]
  BY DEF Outermost, Walks
<1> QED BY <1>8, <1>9

\* It is at an end of a search tree.
LEMMA WalkEnds ==
    ASSUME NEW d \in Sides, NEW w, Walks(w, d)
    PROVE  \A t \in Trees \ {Nil} : Good(t) => /\ w[t] \in Ids[t]
                                               /\ \A m \in Ids[t] : Before(Other(d), m, w[t])
<1> DEFINE o == Other(d)
           S == {t \in AllTrees : t \in Trees \ {Nil} /\ Good(t) =>
                    w[t] \in Ids[t] /\ \A m \in Ids[t] : Before(o, m, w[t])}
<1>1. Nil \in S
  BY TreeIs
<1>2. ASSUME NEW t \in Branches, t.left \in S, t.right \in S
      PROVE  t \in S
  <2>1. SUFFICES ASSUME t \in Trees, Good(t)
                 PROVE  w[t] \in Ids[t] /\ \A m \in Ids[t] : Before(o, m, w[t])
    BY DEF Branches
  <2>2. t \in Trees \ {Nil} /\ t.left \in Trees /\ t.right \in Trees
    BY <2>1, TreesAre DEF Branches
  <2>3. o \in Sides /\ Other(o) = d /\ (t[d] = t.left \/ t[d] = t.right)
    BY OtherSide DEF Sides
  <2>4. w[t] = IF t[d] = Nil THEN t.id ELSE w[t[d]]
    BY <2>2 DEF Walks
  <2> HIDE DEF o
  <2>5. /\ Good(t[d]) /\ t.id \in Nodes /\ t.id \in Ids[t]
        /\ Ids[t] = Ids[t[d]] \cup {t.id} \cup Ids[t[o]]
        /\ \A m \in Ids[t[d]] : Before(d, m, t.id)
        /\ \A m \in Ids[t[o]] : Before(o, m, t.id)
    BY <2>1, <2>3, GoodParts DEF o
  <2>6. CASE t[d] = Nil
    <3>1. Before(o, t.id, t.id)
      BY <2>5, TreeAssumption DEF Before
    <3> QED BY <2>4, <2>5, <2>6, <3>1, NilIs
  <2>7. CASE t[d] # Nil
    <3>1. w[t[d]] \in Ids[t[d]] /\ \A m \in Ids[t[d]] : Before(o, m, w[t[d]])
      BY <1>2, <2>2, <2>3, <2>5, <2>7
    <3>2. w[t[d]] \in Nodes /\ Ids[t] \subseteq Nodes
      BY <2>1, <2>5, <3>1, IdsType DEF Good
    <3>3. Before(o, t.id, w[t[d]])
      BY <2>5, <3>1, <3>2, BeforeIs DEF o
    <3>4. \A m \in Ids[t] : Before(o, m, w[t[d]])
      BY <2>3, <2>5, <3>1, <3>2, <3>3, BeforeIs
    <3> QED BY <2>4, <2>5, <2>7, <3>1, <3>4
  <2> QED BY <2>6, <2>7
<1>3. AllTrees \subseteq S
  <2> HIDE DEF S
  <2> QED BY <1>1, <1>2, TreeInduction
<1> QED BY <1>3, TreesAre

\* The inductive invariant: the root is a search tree with low leaves, and so one of
\* those the calls are defined on; the balance factor is one the caller asked for.
TreeInvariant == Good(root) /\ bal \in Bals

\* What it says at once.
LEMMA InvariantIs ==
    ASSUME TreeInvariant
    PROVE  /\ root \in Trees /\ root \in AllTrees
           /\ Contents[root] = Ids[root] /\ Ids[root] \subseteq Nodes
           /\ root = Nil <=> Contents[root] = {}
           /\ root # Nil => \A d \in Sides : /\ Outermost(d) \in Contents[root]
                                             /\ \A m \in Contents[root] :
                                                   Before(Other(d), m, Outermost(d))
<1>1. root \in Trees /\ root \in AllTrees /\ Contents[root] = Ids[root]
  BY SortedFits, ContentsAre DEF TreeInvariant, Good
<1>2. Ids[root] \subseteq Nodes
  BY <1>1, IdsType
<1>3. root = Nil <=> Ids[root] = {}
  <2>1. root # Nil => root.id \in Ids[root]
    BY <1>1, GoodParts DEF TreeInvariant, Branches, Sides
  <2> QED BY <2>1, NilIs
<1>4. ASSUME root # Nil, NEW d \in Sides
      PROVE  Outermost(d) \in Ids[root] /\ \A m \in Ids[root] : Before(Other(d), m, Outermost(d))
  <2>1. PICK w : Walks(w, d) /\ Outermost(d) = w[root]
    BY WalkIs
  <2> QED BY <1>1, <1>4, <2>1, WalkEnds DEF TreeInvariant
<1> QED BY <1>1, <1>2, <1>3, <1>4

\* An insertion keeps the invariant and does what the bag does.
LEMMA InsertStep ==
    ASSUME TreeInvariant, NEW n \in Nodes, NEW is_set \in BOOLEAN, Insert(n, is_set)
    PROVE  TreeInvariant' /\ Bag!Next
<1> DEFINE done == insert_rc(n, is_set)[root]
<1>1. /\ root \in Trees /\ Contents[root] = Ids[root]
      /\ Sorted[root] /\ Low[root] /\ bal \in Bals
  BY InvariantIs DEF TreeInvariant, Good
<1>2. /\ n \notin Ids[root] /\ root' = done.tree /\ bal' = bal
      /\ last' = [op |-> IF is_set THEN "Set" ELSE "Insert", arg |-> n, ret |-> done.replaced]
  BY <1>1 DEF Insert, Called, Spare
<1>3. InsertWorks(root, n, is_set, done) /\ Low[done.tree]
  BY <1>1, InsertIs, InsertLow
<1> HIDE DEF done
<1>4. Good(done.tree) /\ TreeInvariant'
  <2>1. done.tree \in AllTrees
    BY <1>3 DEF InsertWorks, InsertAnswer, Branches
  <2>2. Good(done.tree)
    BY <1>1, <1>2, <1>3, <2>1 DEF InsertWorks, Good
  <2> QED BY <1>1, <1>2, <2>2 DEF TreeInvariant
<1>5. Contents[root'] = Ids[done.tree]
  BY <1>2, <1>4, SortedFits, ContentsAre DEF Good
<1>6. CASE /\ is_set
           /\ done.replaced \in Ids[root]
           /\ Key[done.replaced] = Key[n]
           /\ Ids[done.tree] = (Ids[root] \ {done.replaced}) \cup {n}
  <2>1. done.replaced \in Bag!With(Key[n]) /\ n \in Bag!Spare
    BY <1>1, <1>2, <1>6 DEF Bag!With, Bag!Spare
  <2>2. Bag!Exchange("Set", n)
    BY <1>1, <1>2, <1>5, <1>6, <2>1 DEF Bag!Exchange, Bag!Called
  <2> QED BY <1>4, <2>2 DEF Bag!Next
<1>7. CASE /\ is_set => \A m \in Ids[root] : Key[m] # Key[n]
           /\ done.replaced = Null
           /\ Ids[done.tree] = Ids[root] \cup {n}
  <2>1. n \in Bag!Spare
    BY <1>1, <1>2 DEF Bag!Spare
  <2>2. is_set => Bag!With(Key[n]) = {}
    BY <1>1, <1>7 DEF Bag!With
  <2>3. CASE is_set
    <3>1. Bag!AddAlone(n)
      BY <1>1, <1>2, <1>5, <1>7, <2>1, <2>2, <2>3 DEF Bag!AddAlone, Bag!Called
    <3> QED BY <1>4, <3>1 DEF Bag!Next
  <2>4. CASE ~is_set
    <3>1. Bag!Add(n)
      BY <1>1, <1>2, <1>5, <1>7, <2>1, <2>4 DEF Bag!Add, Bag!Called
    <3> QED BY <1>4, <3>1 DEF Bag!Next
  <2> QED BY <2>3, <2>4
<1> QED BY <1>1, <1>2, <1>3, <1>6, <1>7 DEF InsertWorks

\* So does an update.
LEMMA UpdateStepIs ==
    ASSUME TreeInvariant, NEW n \in Nodes, Update(n)
    PROVE  TreeInvariant' /\ Bag!Next
<1> DEFINE done == update_rc(n)[root]
<1>1. root \in Trees /\ Contents[root] = Ids[root] /\ Good(root) /\ bal \in Bals
  BY InvariantIs DEF TreeInvariant
<1>2. /\ n \notin Ids[root] /\ root' = done.tree /\ bal' = bal
      /\ last' = [op |-> "Update", arg |-> n, ret |-> done.old]
  BY <1>1 DEF Update, Called, Spare
<1>3. UpdateWorks(root, n, done)
  BY <1>1, <1>2, UpdateIs
<1> HIDE DEF done
<1>4. Good(done.tree) /\ TreeInvariant'
  BY <1>1, <1>2, <1>3 DEF UpdateWorks, TreeInvariant
<1>5. Contents[root'] = Ids[done.tree]
  BY <1>2, <1>4, SortedFits, ContentsAre DEF Good
<1>6. CASE /\ done.old \in Ids[root]
           /\ Key[done.old] = Key[n]
           /\ Ids[done.tree] = (Ids[root] \ {done.old}) \cup {n}
  <2>1. done.old \in Bag!With(Key[n]) /\ n \in Bag!Spare
    BY <1>1, <1>2, <1>6 DEF Bag!With, Bag!Spare
  <2>2. Bag!Exchange("Update", n)
    BY <1>1, <1>2, <1>5, <1>6, <2>1 DEF Bag!Exchange, Bag!Called
  <2> QED BY <1>4, <2>2 DEF Bag!Next
<1>7. CASE /\ \A m \in Ids[root] : Key[m] # Key[n]
           /\ done.old = Null
           /\ Ids[done.tree] = Ids[root]
  <2>1. Bag!With(Key[n]) = {}
    BY <1>1, <1>7 DEF Bag!With
  <2>2. Bag!NotFound("Update", Bag!With(Key[n]), n)
    BY <1>1, <1>2, <1>5, <1>7, <2>1 DEF Bag!NotFound, Bag!Called
  <2> QED BY <1>4, <2>2 DEF Bag!Next
<1> QED BY <1>3, <1>6, <1>7 DEF UpdateWorks

\* A deletion that found one of S, or nothing when S is empty.
LEMMA DeletionIs ==
    ASSUME TreeInvariant, NEW op, NEW S, NEW arg, NEW r \in Nodes \cup {Null, NoReplacer}, NEW done,
           Deletion(op, done, r, arg),
           \/ /\ S = {} /\ done.deleted = Null
              /\ Good(done.tree) /\ Ids[done.tree] = Ids[root]
           \/ /\ done.deleted \in S /\ S \subseteq Ids[root]
              /\ MayReplace(root, done.deleted, r)
              /\ Good(done.tree)
              /\ Ids[done.tree] = After(Ids[root], done.deleted, r)
    PROVE  TreeInvariant' /\ (r # Null => Bag!Deletion(op, S, arg))
<1>1. Contents[root] = Ids[root] /\ bal \in Bals /\ Ids[root] \subseteq Nodes
  BY InvariantIs DEF TreeInvariant
<1>2. /\ root' = done.tree /\ bal' = bal
      /\ IF r = Null
         THEN last' = [op |-> op \o "Keep", arg |-> arg, ret |-> done.deleted]
         ELSE last' = [op |-> op, arg |-> IF r = NoReplacer THEN arg ELSE r, ret |-> done.deleted]
  BY DEF Deletion, Called
<1>3. Good(done.tree) /\ TreeInvariant'
  BY <1>1, <1>2 DEF TreeInvariant
<1>4. Contents[root'] = Ids[done.tree]
  BY <1>2, <1>3, SortedFits, ContentsAre DEF Good
<1>5. NoReplacer # Null
  BY TreeAssumption
<1>6. CASE S = {} /\ done.deleted = Null /\ Ids[done.tree] = Ids[root]
  <2>1. CASE r = Null
    BY <1>3, <2>1
  <2>2. CASE r = NoReplacer
    <3>1. Bag!NotFound(op, S, arg)
      BY <1>1, <1>2, <1>4, <1>5, <1>6, <2>2 DEF Bag!NotFound, Bag!Called
    <3> QED BY <1>3, <3>1 DEF Bag!Deletion
  <2>3. CASE r # Null /\ r # NoReplacer
    <3>1. Bag!NotFound(op, S, r) /\ r \in Nodes
      BY <1>1, <1>2, <1>4, <1>6, <2>3 DEF Bag!NotFound, Bag!Called
    <3> QED BY <1>3, <3>1 DEF Bag!Deletion
  <2> QED BY <2>1, <2>2, <2>3
<1>7. CASE /\ done.deleted \in S /\ S \subseteq Ids[root]
           /\ MayReplace(root, done.deleted, r)
           /\ Ids[done.tree] = After(Ids[root], done.deleted, r)
  <2>1. CASE r = Null
    BY <1>3, <2>1
  <2>2. CASE r = NoReplacer
    <3>1. Ids[done.tree] = Ids[root] \ {done.deleted}
      BY <1>7, <2>2 DEF After
    <3>2. Bag!Take(op, S, arg)
      BY <1>1, <1>2, <1>4, <1>5, <1>7, <2>2, <3>1 DEF Bag!Take, Bag!Called
    <3> QED BY <1>3, <3>2 DEF Bag!Deletion
  <2>3. CASE r # Null /\ r # NoReplacer
    <3>1. Ids[done.tree] = (Ids[root] \ {done.deleted}) \cup {r}
      BY <1>7, <2>3 DEF After
    <3>2. r \in Bag!Spare /\ r \in Nodes /\ Key[r] = Key[done.deleted]
      BY <1>1, <1>7, <2>3 DEF MayReplace, Bag!Spare
    <3>3. Bag!Fill(op, S, r)
      BY <1>1, <1>2, <1>4, <1>7, <2>3, <3>1, <3>2 DEF Bag!Fill, Bag!Called
    <3> QED BY <1>3, <3>2, <3>3 DEF Bag!Deletion
  <2> QED BY <2>1, <2>2, <2>3
<1> QED BY <1>3, <1>6, <1>7

\* The deletion of a key finds a node of that key,
LEMMA DeleteReplaceStep ==
    ASSUME TreeInvariant, NEW k \in Keys, DeleteReplace(k)
    PROVE  TreeInvariant' /\ (~MayAgree => Bag!Deletion("Delete", Bag!With(k), k))
<1>1. root \in Trees /\ Contents[root] = Ids[root] /\ Good(root)
  BY InvariantIs DEF TreeInvariant
<1>2. PICK r \in Replacers(k) : Deletion("Delete", delete_rc(k, r)[root], r, k)
  BY DEF DeleteReplace
<1> DEFINE done == delete_rc(k, r)[root]
<1>3. k \in Int /\ r \in Nodes \cup {Null, NoReplacer} /\ (~MayAgree => r # Null)
  BY TreeAssumption DEF Keys, Replacers, Spare
<1>4. r \in {NoReplacer, Null} \/ (r \in Nodes \ Ids[root] /\ Key[r] = k)
  BY <1>1 DEF Replacers, Spare
<1>5. DeleteWorks(root, k, r, done)
  BY <1>1, <1>3, DeleteIs
<1>6. Deletion("Delete", done, r, k)
  BY <1>2
<1> HIDE DEF done
<1>7. Bag!With(k) = {m \in Ids[root] : Key[m] = k}
  BY <1>1 DEF Bag!With
<1>8. CASE /\ done.deleted \in Ids[root]
           /\ Key[done.deleted] = k
           /\ MayReplace(root, done.deleted, r) =>
                 Good(done.tree) /\ Ids[done.tree] = After(Ids[root], done.deleted, r)
  <2>1. MayReplace(root, done.deleted, r)
    BY <1>4, <1>8 DEF MayReplace
  <2>2. done.deleted \in Bag!With(k) /\ Bag!With(k) \subseteq Ids[root]
    BY <1>7, <1>8
  <2> HIDE DEF Bag!With, Bag!Deletion
  <2> QED BY <1>3, <1>6, <1>8, <2>1, <2>2, DeletionIs
<1>9. CASE /\ \A m \in Ids[root] : Key[m] # k
           /\ done.deleted = Null
           /\ Good(done.tree)
           /\ Ids[done.tree] = Ids[root]
  <2>1. Bag!With(k) = {}
    BY <1>7, <1>9
  <2> HIDE DEF Bag!With, Bag!Deletion
  <2> QED BY <1>3, <1>6, <1>9, <2>1, DeletionIs
<1> QED BY <1>5, <1>8, <1>9 DEF DeleteWorks

\* that of an end a node at that end: of the same key as the one that the replacer
\* was told.
LEMMA DeleteEndStep ==
    ASSUME TreeInvariant, NEW d \in Sides, NEW op, NEW S,
           S = {n \in Ids[root] : \A m \in Ids[root] : Before(Other(d), m, n)},
           DeleteEnd(d, op)
    PROVE  TreeInvariant' /\ (~MayAgree => Bag!Deletion(op, S, Null))
<1>1. /\ root \in Trees /\ Contents[root] = Ids[root] /\ Good(root) /\ bal \in Bals
      /\ Ids[root] \subseteq Nodes /\ (root = Nil <=> Ids[root] = {})
  BY InvariantIs DEF TreeInvariant
<1> DEFINE k == IF root = Nil THEN Null ELSE Key[Outermost(d)]
<1>2. PICK r \in Replacers(k) : Deletion(op, delete_end_rc(d, r)[root], r, Null)
  BY DEF DeleteEnd
<1> DEFINE done == delete_end_rc(d, r)[root]
<1>3. r \in Nodes \cup {Null, NoReplacer} /\ (~MayAgree => r # Null)
  BY TreeAssumption DEF Replacers, Spare
<1>4. r \in {NoReplacer, Null} \/ (r \in Nodes \ Ids[root] /\ Key[r] = k)
  BY <1>1 DEF Replacers, Spare
<1>5. EndWorks(root, d, r, done)
  BY <1>1, DeleteEndIs
<1>6. Deletion(op, done, r, Null)
  BY <1>2
<1> HIDE DEF done
<1>7. CASE root = Nil
  <2>1. S = {}
    BY <1>1, <1>7
  <2>2. done.tree = Nil /\ done.deleted = Null
    BY <1>5, <1>7 DEF EndWorks
  <2>3. Good(Nil)
    BY NilIs, LowIs DEF Good
  <2> HIDE DEF Bag!Deletion
  <2> QED BY <1>3, <1>6, <1>7, <2>1, <2>2, <2>3, DeletionIs
<1>8. CASE root # Nil
  <2>1. /\ done.deleted \in Ids[root]
        /\ \A m \in Ids[root] : Before(Other(d), m, done.deleted)
        /\ MayReplace(root, done.deleted, r) =>
              Good(done.tree) /\ Ids[done.tree] = After(Ids[root], done.deleted, r)
    BY <1>5, <1>8 DEF EndWorks
  <2>2. /\ Outermost(d) \in Ids[root]
        /\ \A m \in Ids[root] : Before(Other(d), m, Outermost(d))
    BY <1>1, <1>8, InvariantIs
  <2>3. k = Key[done.deleted]
    <3>1. /\ Before(Other(d), Outermost(d), done.deleted)
          /\ Before(Other(d), done.deleted, Outermost(d))
      BY <2>1, <2>2
    <3>2. Key[Outermost(d)] \in Int /\ Key[done.deleted] \in Int
      BY <1>1, <2>1, <2>2, TreeAssumption
    <3>3. Key[Outermost(d)] = Key[done.deleted]
      BY <3>1, <3>2 DEF Before
    <3> QED BY <1>8, <3>3
  <2> HIDE DEF k
  <2>4. MayReplace(root, done.deleted, r)
    BY <1>4, <2>3 DEF MayReplace
  <2>5. done.deleted \in S /\ S \subseteq Ids[root]
    BY <2>1
  <2> HIDE DEF Bag!Deletion
  <2> QED BY <1>3, <1>6, <2>1, <2>4, <2>5, DeletionIs
<1> QED BY <1>7, <1>8

\* Every call keeps the invariant and, with replacers that give a node when they
\* agree, does what the bag does.
LEMMA TreeStep ==
    TreeInvariant /\ [Next]_vars => TreeInvariant' /\ (~MayAgree => [Bag!Next]_(Bag!vars))
<1> SUFFICES ASSUME TreeInvariant, [Next]_vars
             PROVE  TreeInvariant' /\ (~MayAgree => [Bag!Next]_(Bag!vars))
  OBVIOUS
<1>1. /\ root \in Trees /\ Contents[root] = Ids[root] /\ Good(root) /\ bal \in Bals
      /\ Ids[root] \subseteq Nodes
  BY InvariantIs DEF TreeInvariant
<1>2. Good(Nil) /\ Contents[Nil] = {}
  BY NilIs, LowIs, TreesAre, ContentsAre DEF Good
<1>3. CASE DeleteAll
  BY <1>1, <1>2, <1>3 DEF DeleteAll, TreeInvariant, Called, Bag!Next, Bag!DeleteAll, Bag!Called
<1>4. ASSUME NEW b \in Bals, RootInit(b) PROVE TreeInvariant' /\ Bag!Next
  BY <1>1, <1>2, <1>4 DEF RootInit, TreeInvariant, Called, Bag!Next, Bag!DeleteAll, Bag!Called
<1>5. ASSUME NEW n \in Nodes, Insert(n, TRUE) \/ Insert(n, FALSE) PROVE TreeInvariant' /\ Bag!Next
  <2> HIDE DEF Bag!Next
  <2> QED BY <1>5, InsertStep
<1>6. ASSUME NEW n \in Nodes, Update(n) PROVE TreeInvariant' /\ Bag!Next
  <2> HIDE DEF Bag!Next
  <2> QED BY <1>6, UpdateStepIs
<1>7. ASSUME NEW k \in Keys, DeleteReplace(k) PROVE TreeInvariant' /\ (~MayAgree => Bag!Next)
  <2>1. TreeInvariant' /\ (~MayAgree => Bag!Deletion("Delete", Bag!With(k), k))
    <3> HIDE DEF Bag!With, Bag!Deletion
    <3> QED BY <1>7, DeleteReplaceStep
  <2> HIDE DEF Bag!Deletion, Bag!With
  <2> QED BY <2>1 DEF Bag!Next, Keys
<1>8. CASE DeleteEnd("left", "DeleteMin")
  <2> DEFINE S == {n \in Ids[root] : \A m \in Ids[root] : Before(Other("left"), m, n)}
  <2>1. "left" \in Sides
    BY DEF Sides
  <2>2. Bag!Least = S
    BY <1>1, TreeAssumption DEF Bag!Least, Before, Other
  <2>3. TreeInvariant' /\ (~MayAgree => Bag!Deletion("DeleteMin", S, Null))
    <3> HIDE DEF Bag!Deletion
    <3> QED BY <1>8, <2>1, DeleteEndStep
  <2> HIDE DEF Bag!Deletion, Bag!Least, S
  <2> QED BY <2>2, <2>3 DEF Bag!Next
<1>9. CASE DeleteEnd("right", "DeleteMax")
  <2> DEFINE S == {n \in Ids[root] : \A m \in Ids[root] : Before(Other("right"), m, n)}
  <2>1. "right" \in Sides
    BY DEF Sides
  <2>2. Bag!Greatest = S
    BY <1>1, TreeAssumption DEF Bag!Greatest, Before, Other
  <2>3. TreeInvariant' /\ (~MayAgree => Bag!Deletion("DeleteMax", S, Null))
    <3> HIDE DEF Bag!Deletion
    <3> QED BY <1>9, <2>1, DeleteEndStep
  <2> HIDE DEF Bag!Deletion, Bag!Greatest, S
  <2> QED BY <2>2, <2>3 DEF Bag!Next
<1>10. CASE UNCHANGED vars
  BY <1>10 DEF vars, TreeInvariant, Bag!vars
<1> HIDE DEF Bag!Next, Bag!vars
<1> QED BY <1>3, <1>4, <1>5, <1>6, <1>7, <1>8, <1>9, <1>10 DEF Next

\* The root is always a search tree with low leaves, whatever was rotated on heights
\* that insert_rc and tree_update left wrong.
THEOREM TreeStaysSorted == Spec => []TreeInvariant
<1>1. Init => TreeInvariant
  BY NilIs, LowIs DEF Init, TreeInvariant, Good
<1>2. TreeInvariant /\ [Next]_vars => TreeInvariant'
  <2> HIDE DEF Bag!Next, Bag!vars
  <2> QED BY TreeStep
<1> QED BY <1>1, <1>2, PTL DEF Spec

\* Each call adds, takes or exchanges the node it should, and answers with it
\* (cdsl_avltree.c:66, 110, 118, 129; base_tree.c, tree_update): no rotation loses or
\* doubles a node, and none is decided on a missing child. A replacer that agrees without
\* a node is excluded: what is answered then is not what base_tree.h:73 says.
THEOREM TreeIsBag == ~MayAgree => (Spec => BagSpec)
<1>1. Init => Bag!Init
  BY NilIs, TreesAre, ContentsAre DEF Init, Bag!Init
<1>2. Init => TreeInvariant
  BY NilIs, LowIs DEF Init, TreeInvariant, Good
<1>3. ~MayAgree /\ TreeInvariant /\ [Next]_vars => TreeInvariant' /\ [Bag!Next]_(Bag!vars)
  BY TreeStep
<1> SUFFICES ASSUME ~MayAgree PROVE Spec => BagSpec
  OBVIOUS
<1>4. TreeInvariant /\ [Next]_vars => TreeInvariant' /\ [Bag!Next]_(Bag!vars)
  BY <1>3
<1> QED BY <1>1, <1>2, <1>4, PTL DEF Spec, BagSpec, Bag!Spec

-----------------------------------------------------------------------------
(* Lookup *)

\* The walk of cdsl_avltreeLookup.
Seeks(w, k) == w = [t \in Trees |-> IF t = Nil THEN Null
                                    ELSE IF KeyOf(t) > k THEN w[t.left]
                                    ELSE IF KeyOf(t) < k THEN w[t.right]
                                    ELSE t.id]

\* There is one, and Lookup is where it ends.
LEMMA SeekIs ==
    ASSUME NEW k
    PROVE  \E w : Seeks(w, k) /\ Lookup(k) = w[root]
<1> DEFINE D    == Trees
           V    == Nodes \cup {Null}
           base == Null
           way(t)  == IF KeyOf(t) > k THEN "left" ELSE "right"
           at(t, a) == IF KeyOf(t) > k \/ KeyOf(t) < k THEN a ELSE t.id
           side == [t \in D \ {Nil} |-> way(t)]
           step == [x \in (D \ {Nil}) \X V |-> at(x[1], x[2])]
<1>1. base \in V
  OBVIOUS
<1>2. step \in [(D \ {Nil}) \X V -> V] /\ side \in [D \ {Nil} -> Sides]
  <2>1. \A t \in D \ {Nil} : t.id \in V
    BY TreesAre, TreeIs DEF Branch
  <2> HIDE DEF V, D
  <2>2. \A t \in D \ {Nil}, a \in V : at(t, a) \in V
    BY <2>1
  <2>3. \A t : way(t) \in Sides
    BY DEF Sides
  <2> HIDE DEF at, way
  <2> QED BY <2>2, <2>3
<1>3. PICK f \in [D -> V] :
         /\ f[Nil] = base
         /\ \A t \in D \ {Nil} : t[side[t]] \in D /\ f[t] = step[<<t, f[t[side[t]]]>>]
  <2>1. DownClosed(D) /\ Ways(D, V, side, step)
    BY <1>2, TreesDownClosed DEF Ways
  <2> HIDE DEF step, V, base, D, side
  <2> QED BY <1>1, <2>1, OneWay
<1>4. \A t \in D \ {Nil} : f[t] = at(t, f[t[way(t)]])
  <2> HIDE DEF V, D, at, way
  <2> QED BY <1>3
<1>5. \A t \in Trees : f[t] = IF t = Nil THEN Null
                              ELSE IF KeyOf(t) > k THEN f[t.left]
                              ELSE IF KeyOf(t) < k THEN f[t.right]
                              ELSE t.id
  BY <1>3, <1>4
<1>6. f = [t \in Trees |-> f[t]]
  BY <1>3
<1>7. Seeks(f, k)
  BY <1>5, <1>6, Zenon DEF Seeks
<1> DEFINE w == CHOOSE w : Seeks(w, k)
<1>8. Seeks(w, k)
  BY <1>7
<1>9. Lookup(k) = w[root]
  BY DEF Lookup, Seeks
<1> QED BY <1>8, <1>9

\* In a search tree it misses no key.
LEMMA SeekFinds ==
    ASSUME NEW k \in Int, NEW w, Seeks(w, k)
    PROVE  \A t \in Trees : Good(t) => \/ w[t] \in Ids[t] /\ Key[w[t]] = k
                                       \/ w[t] = Null /\ \A m \in Ids[t] : Key[m] # k
<1> DEFINE found(t) == \/ w[t] \in Ids[t] /\ Key[w[t]] = k
                       \/ w[t] = Null /\ \A m \in Ids[t] : Key[m] # k
           S == {t \in AllTrees : t \in Trees /\ Good(t) => found(t)}
<1>1. Nil \in S
  BY NilIs, TreesAre DEF Seeks
<1>2. ASSUME NEW t \in Branches, t.left \in S, t.right \in S
      PROVE  t \in S
  <2>1. SUFFICES ASSUME t \in Trees, Good(t) PROVE found(t)
    BY DEF Branches
  <2>2. t # Nil /\ t.left \in Trees /\ t.right \in Trees
    BY <2>1, TreesAre DEF Branches
  <2>3. w[t] = IF KeyOf(t) > k THEN w[t.left]
               ELSE IF KeyOf(t) < k THEN w[t.right]
               ELSE t.id
    BY <2>1, <2>2, Zenon DEF Seeks
  <2>4. "left" \in Sides /\ "right" \in Sides /\ Other("left") = "right" /\ Other("right") = "left"
    BY DEF Sides, Other
  <2>5. /\ Good(t.left) /\ Good(t.right) /\ t.id \in Nodes
        /\ Ids[t] = Ids[t.left] \cup {t.id} \cup Ids[t.right]
        /\ \A m \in Ids[t.left] : Key[m] <= KeyOf(t)
        /\ \A m \in Ids[t.right] : Key[m] >= KeyOf(t)
    BY <2>1, <2>4, GoodParts DEF Before, KeyOf
  <2>6. Ids[t] \subseteq Nodes /\ \A m \in Nodes : Key[m] \in Int
    BY <2>1, IdsType, TreeAssumption DEF Good
  <2>7. found(t.left) /\ found(t.right)
    BY <1>2, <2>2, <2>5
  <2>8. CASE KeyOf(t) > k
    <3>1. \A m \in {t.id} \cup Ids[t.right] : Key[m] # k
      BY <2>5, <2>6, <2>8 DEF KeyOf
    <3> QED BY <2>3, <2>5, <2>7, <2>8, <3>1
  <2>9. CASE KeyOf(t) < k
    <3>1. \A m \in {t.id} \cup Ids[t.left] : Key[m] # k
      BY <2>5, <2>6, <2>9 DEF KeyOf
    <3>2. w[t] = w[t.right]
      BY <2>3, <2>5, <2>6, <2>9 DEF KeyOf
    <3> QED BY <2>5, <2>7, <3>1, <3>2
  <2>10. CASE KeyOf(t) = k
    <3>1. w[t] = t.id
      BY <2>3, <2>10
    <3> QED BY <2>5, <2>10, <3>1 DEF KeyOf
  <2> QED BY <2>5, <2>6, <2>8, <2>9, <2>10 DEF KeyOf
<1>3. AllTrees \subseteq S
  <2> HIDE DEF S
  <2> QED BY <1>1, <1>2, TreeInduction
<1> QED BY <1>3, TreesAre

\* The walk of cdsl_avltreeConditionalLookup.
Picks(w, n) == w = [t \in Trees |-> IF t = Nil THEN Null
                                    ELSE IF t.id = n THEN n
                                    ELSE IF KeyOf(t) < Key[n] THEN w[t.right]
                                    ELSE w[t.left]]

\* There is one, and ConditionalLookup is where it ends.
LEMMA PickIs ==
    ASSUME NEW n \in Nodes
    PROVE  \E w : Picks(w, n) /\ ConditionalLookup(n) = w[root]
<1> DEFINE D    == Trees
           V    == Nodes \cup {Null}
           base == Null
           way(t)  == IF KeyOf(t) < Key[n] THEN "right" ELSE "left"
           at(t, a) == IF t.id = n THEN n ELSE a
           side == [t \in D \ {Nil} |-> way(t)]
           step == [x \in (D \ {Nil}) \X V |-> at(x[1], x[2])]
<1>1. base \in V
  OBVIOUS
<1>2. step \in [(D \ {Nil}) \X V -> V] /\ side \in [D \ {Nil} -> Sides]
  <2>1. \A t \in D \ {Nil}, a \in V : at(t, a) \in V
    OBVIOUS
  <2>2. \A t : way(t) \in Sides
    BY DEF Sides
  <2> HIDE DEF at, way, V, D
  <2> QED BY <2>1, <2>2
<1>3. PICK f \in [D -> V] :
         /\ f[Nil] = base
         /\ \A t \in D \ {Nil} : t[side[t]] \in D /\ f[t] = step[<<t, f[t[side[t]]]>>]
  <2>1. DownClosed(D) /\ Ways(D, V, side, step)
    BY <1>2, TreesDownClosed DEF Ways
  <2> HIDE DEF step, V, base, D, side
  <2> QED BY <1>1, <2>1, OneWay
<1>4. \A t \in D \ {Nil} : f[t] = at(t, f[t[way(t)]])
  <2> HIDE DEF V, D, at, way
  <2> QED BY <1>3
<1>5. \A t \in Trees : f[t] = IF t = Nil THEN Null
                              ELSE IF t.id = n THEN n
                              ELSE IF KeyOf(t) < Key[n] THEN f[t.right]
                              ELSE f[t.left]
  BY <1>3, <1>4
<1>6. f = [t \in Trees |-> f[t]]
  BY <1>3
<1>7. Picks(f, n)
  BY <1>5, <1>6, Zenon DEF Picks
<1> DEFINE w == CHOOSE w : Picks(w, n)
<1>8. Picks(w, n)
  BY <1>7
<1>9. ConditionalLookup(n) = w[root]
  BY DEF ConditionalLookup, Picks
<1> QED BY <1>8, <1>9

\* It meets the node that it looks for, if no other has its key.
LEMMA PickFinds ==
    ASSUME NEW n \in Nodes, NEW w, Picks(w, n)
    PROVE  \A t \in Trees :
              Good(t) /\ n \in Ids[t] /\ (\A m \in Ids[t] : Key[m] = Key[n] => m = n) => w[t] = n
<1> DEFINE S == {t \in AllTrees : t \in Trees =>
                   (Good(t) /\ n \in Ids[t] /\ (\A m \in Ids[t] : Key[m] = Key[n] => m = n)
                      => w[t] = n)}
<1>1. Nil \in S
  BY NilIs
<1>2. ASSUME NEW t \in Branches, t.left \in S, t.right \in S
      PROVE  t \in S
  <2>1. SUFFICES ASSUME t \in Trees, Good(t), n \in Ids[t],
                        \A m \in Ids[t] : Key[m] = Key[n] => m = n
                 PROVE  w[t] = n
    BY DEF Branches
  <2>2. t # Nil /\ t.left \in Trees /\ t.right \in Trees
    BY <2>1, TreesAre DEF Branches
  <2>3. w[t] = IF t.id = n THEN n
               ELSE IF KeyOf(t) < Key[n] THEN w[t.right]
               ELSE w[t.left]
    BY <2>1, <2>2, Zenon DEF Picks
  <2>4. "left" \in Sides /\ "right" \in Sides /\ Other("left") = "right" /\ Other("right") = "left"
    BY DEF Sides, Other
  <2>5. /\ Good(t.left) /\ Good(t.right) /\ t.id \in Nodes /\ t.id \in Ids[t]
        /\ Ids[t] = Ids[t.left] \cup {t.id} \cup Ids[t.right]
        /\ \A m \in Ids[t.left] : Key[m] <= KeyOf(t)
        /\ \A m \in Ids[t.right] : Key[m] >= KeyOf(t)
    BY <2>1, <2>4, GoodParts DEF Before, KeyOf
  <2>6. KeyOf(t) \in Int /\ Key[n] \in Int
    BY <2>5, TreeAssumption DEF KeyOf
  <2>7. CASE t.id = n
    BY <2>3, <2>7
  <2>8. CASE t.id # n
    <3>1. KeyOf(t) # Key[n]
      BY <2>1, <2>5, <2>8 DEF KeyOf
    <3>2. CASE KeyOf(t) < Key[n]
      <4>1. n \in Ids[t.right]
        BY <2>1, <2>5, <2>6, <2>8, <3>2
      <4>2. w[t.right] = n
        BY <1>2, <2>1, <2>2, <2>5, <4>1
      <4> QED BY <2>3, <2>8, <3>2, <4>2
    <3>3. CASE KeyOf(t) > Key[n]
      <4>1. n \in Ids[t.left] /\ ~ (KeyOf(t) < Key[n])
        BY <2>1, <2>5, <2>6, <2>8, <3>3
      <4>2. w[t.left] = n
        BY <1>2, <2>1, <2>2, <2>5, <4>1
      <4> QED BY <2>3, <2>8, <4>1, <4>2
    <3> QED BY <2>6, <3>1, <3>2, <3>3
  <2> QED BY <2>7, <2>8
<1>3. AllTrees \subseteq S
  <2> HIDE DEF S
  <2> QED BY <1>1, <1>2, TreeInduction
<1> QED BY <1>3, TreesAre

\* A key that a node of the tree has is found, whichever side rotations brought it to,
\* and by a condition the node itself, if it is alone with its key (cdsl_avltree.c:74,
\* 92; cdsl_avltree.h:191).
THEOREM TreeFinds == Spec => []Found
<1>1. TreeInvariant => Found
  <2> SUFFICES ASSUME TreeInvariant PROVE Found
    OBVIOUS
  <2>1. root \in Trees /\ Contents[root] = Ids[root] /\ Good(root) /\ Ids[root] \subseteq Nodes
    BY InvariantIs DEF TreeInvariant
  <2>2. ASSUME NEW k \in Keys
        PROVE  IF With(k) # {} THEN Lookup(k) \in With(k) ELSE Lookup(k) = Null
    <3>1. k \in Int
      BY <2>2, TreeAssumption DEF Keys
    <3>2. PICK w : Seeks(w, k) /\ Lookup(k) = w[root]
      BY SeekIs
    <3>3. \/ w[root] \in Ids[root] /\ Key[w[root]] = k
          \/ w[root] = Null /\ \A m \in Ids[root] : Key[m] # k
      BY <2>1, <3>1, <3>2, SeekFinds
    <3> QED BY <2>1, <3>2, <3>3 DEF With
  <2>3. ASSUME NEW n \in Contents[root], \A m \in Contents[root] : Key[m] = Key[n] => m = n
        PROVE  ConditionalLookup(n) = n
    <3>1. n \in Nodes
      BY <2>1
    <3>2. PICK w : Picks(w, n) /\ ConditionalLookup(n) = w[root]
      BY <3>1, PickIs
    <3> QED BY <2>1, <2>3, <3>1, <3>2, PickFinds
  <2> QED BY <2>2, <2>3 DEF Found
<1> QED BY <1>1, TreeStaysSorted, PTL

-----------------------------------------------------------------------------
(* Traversals *)

\* The nodes of a tree from side d to the other.
Order(d) == LET order[t \in AllTrees] ==
                    IF t = Nil THEN <<>> ELSE order[t[d]] \o <<t.id>> \o order[t[Other(d)]]
            IN  order

\* One sequence, a node and another sequence.
LEMMA JoinIs ==
    ASSUME NEW a \in Seq(Nodes), NEW b \in Seq(Nodes), NEW n \in Nodes
    PROVE  /\ a \o <<n>> \o b \in Seq(Nodes)
           /\ Len(a \o <<n>> \o b) = Len(a) + 1 + Len(b)
           /\ \A i \in 1 .. Len(a) : (a \o <<n>> \o b)[i] = a[i]
           /\ (a \o <<n>> \o b)[Len(a) + 1] = n
           /\ \A i \in 1 .. Len(b) : (a \o <<n>> \o b)[Len(a) + 1 + i] = b[i]
  OBVIOUS

\* The equation of Order.
LEMMA OrderIs ==
    ASSUME NEW d \in Sides
    PROVE  /\ Order(d) \in [AllTrees -> Seq(Nodes)]
           /\ Order(d)[Nil] = <<>>
           /\ \A t \in Branches :
                 Order(d)[t] = Order(d)[t[d]] \o <<t.id>> \o Order(d)[t[Other(d)]]
<1> DEFINE V    == Seq(Nodes)
           base == <<>>
           at(t, a, b) == IF d = "left" THEN a \o <<t.id>> \o b ELSE b \o <<t.id>> \o a
           step == [x \in (AllTrees \ {Nil}) \X V \X V |-> at(x[1], x[2], x[3])]
<1>1. base \in V
  OBVIOUS
<1>2. step \in [(AllTrees \ {Nil}) \X V \X V -> V]
  <2>1. ASSUME NEW t \in AllTrees \ {Nil}, NEW a \in V, NEW b \in V PROVE at(t, a, b) \in V
    <3>1. t.id \in Nodes
      BY TreeIs DEF Branch
    <3> QED BY <3>1, JoinIs
  <2> HIDE DEF at, V
  <2> QED BY <2>1
<1>3. PICK f \in [AllTrees -> V] :
         /\ f[Nil] = base
         /\ \A t \in AllTrees \ {Nil} : f[t] = step[<<t, f[t.left], f[t.right]>>]
  <2>1. DownClosed(AllTrees)
    BY TreesDownClosed
  <2> HIDE DEF step, V, base, at
  <2> QED BY <1>1, <1>2, <2>1, TreeRecursion, SMTT(60)
<1>4. \A t \in AllTrees \ {Nil} : f[t] = f[t[d]] \o <<t.id>> \o f[t[Other(d)]]
  <2> SUFFICES ASSUME NEW t \in AllTrees \ {Nil}
               PROVE  f[t] = f[t[d]] \o <<t.id>> \o f[t[Other(d)]]
    OBVIOUS
  <2>1. t.left \in AllTrees /\ t.right \in AllTrees
    BY TreesDownClosed DEF DownClosed
  <2>2. f[t] = at(t, f[t.left], f[t.right])
    <3> HIDE DEF at, V
    <3>1. <<t, f[t.left], f[t.right]>> \in (AllTrees \ {Nil}) \X V \X V
      BY <2>1
    <3> QED BY <1>3, <3>1
  <2>3. CASE d = "left"
    BY <2>2, <2>3 DEF Other
  <2>4. CASE d = "right"
    BY <2>2, <2>4 DEF Other
  <2> QED BY <2>3, <2>4 DEF Sides
<1>5. \A t \in AllTrees : f[t] = IF t = Nil THEN <<>>
                                 ELSE f[t[d]] \o <<t.id>> \o f[t[Other(d)]]
  BY <1>3, <1>4
<1>6. f = [t \in AllTrees |-> f[t]]
  BY <1>3
<1>7. f = [t \in AllTrees |-> IF t = Nil THEN <<>>
                              ELSE f[t[d]] \o <<t.id>> \o f[t[Other(d)]]]
  BY <1>5, <1>6, Zenon
<1> DEFINE g == Order(d)
<1>8. g = [t \in AllTrees |-> IF t = Nil THEN <<>>
                              ELSE g[t[d]] \o <<t.id>> \o g[t[Other(d)]]]
  BY <1>7 DEF Order
<1> HIDE DEF g
<1>9. \A t \in AllTrees : g[t] = IF t = Nil THEN <<>>
                                 ELSE g[t[d]] \o <<t.id>> \o g[t[Other(d)]]
  BY <1>8, Zenon
<1> DEFINE S == {t \in AllTrees : g[t] \in Seq(Nodes)}
<1>10. Nil \in S
  <2>1. Nil \in AllTrees
    BY TreeIs
  <2>2. g[Nil] = <<>>
    BY <1>9, <2>1
  <2>3. <<>> \in Seq(Nodes)
    OBVIOUS
  <2> QED BY <2>1, <2>2, <2>3
<1>11. ASSUME NEW t \in Branches, t.left \in S, t.right \in S
       PROVE  t \in S
  <2>1. t \in AllTrees /\ t # Nil /\ t.id \in Nodes
    BY TreeIs DEF Branch, Branches
  <2>2. {t[d], t[Other(d)]} = {t.left, t.right}
    BY PartsOf
  <2>3. g[t[d]] \in Seq(Nodes) /\ g[t[Other(d)]] \in Seq(Nodes)
    BY <1>11, <2>2
  <2>4. g[t] = g[t[d]] \o <<t.id>> \o g[t[Other(d)]]
    BY <1>9, <2>1
  <2>5. g[t[d]] \o <<t.id>> \o g[t[Other(d)]] \in Seq(Nodes)
    BY <2>1, <2>3, JoinIs
  <2> QED BY <2>1, <2>4, <2>5
<1>12. AllTrees \subseteq S
  <2> HIDE DEF S
  <2> QED BY <1>10, <1>11, TreeInduction
<1>13. g \in [AllTrees -> Seq(Nodes)]
  <2>1. g = [t \in AllTrees |-> g[t]]
    BY <1>8
  <2> QED BY <1>12, <2>1
<1> QED BY <1>9, <1>13, TreeIs DEF g, Branches

\* The same, with what JoinIs says of it.
LEMMA OrderParts ==
    ASSUME NEW t \in Branches, NEW d \in Sides
    PROVE  LET s == Order(d)[t]
               a == Order(d)[t[d]]
               b == Order(d)[t[Other(d)]]
           IN  /\ a \in Seq(Nodes) /\ b \in Seq(Nodes) /\ s \in Seq(Nodes)
               /\ Len(a) \in Nat /\ Len(b) \in Nat
               /\ Len(s) = Len(a) + 1 + Len(b)
               /\ \A i \in 1 .. Len(a) : s[i] = a[i]
               /\ s[Len(a) + 1] = t.id
               /\ \A i \in 1 .. Len(b) : s[Len(a) + 1 + i] = b[i]
<1>1. t[d] \in AllTrees /\ t[Other(d)] \in AllTrees /\ t.id \in Nodes
  BY PartsOf
<1> DEFINE a == Order(d)[t[d]]
           b == Order(d)[t[Other(d)]]
<1>2. a \in Seq(Nodes) /\ b \in Seq(Nodes) /\ Order(d)[t] = a \o <<t.id>> \o b
  BY <1>1, OrderIs
<1>3. Len(a) \in Nat /\ Len(b) \in Nat
  BY <1>2
<1> HIDE DEF a, b
<1>4. /\ Order(d)[t] \in Seq(Nodes)
      /\ Len(Order(d)[t]) = Len(a) + 1 + Len(b)
      /\ \A i \in 1 .. Len(a) : Order(d)[t][i] = a[i]
      /\ Order(d)[t][Len(a) + 1] = t.id
      /\ \A i \in 1 .. Len(b) : Order(d)[t][Len(a) + 1 + i] = b[i]
  BY <1>1, <1>2, JoinIs
<1> QED BY <1>2, <1>3, <1>4 DEF a, b

\* The order of t joins those of the subtrees x and y.
OrderJoins(d, t, x, y) ==
    LET s == Order(d)[t]
        a == Order(d)[x]
        b == Order(d)[y]
    IN  /\ Len(a) \in Nat /\ Len(b) \in Nat
        /\ Len(s) = Len(a) + 1 + Len(b)
        /\ \A i \in 1 .. Len(a) : s[i] = a[i]
        /\ s[Len(a) + 1] = t.id
        /\ \A i \in 1 .. Len(b) : s[Len(a) + 1 + i] = b[i]

\* The same with the names of the two subtrees.
LEMMA OrderTwoWays ==
    ASSUME NEW t \in Branches
    PROVE  OrderJoins("left", t, t.left, t.right) /\ OrderJoins("right", t, t.right, t.left)
<1>1. ASSUME NEW d \in Sides, NEW x, NEW y, x = t[d], y = t[Other(d)]
      PROVE  OrderJoins(d, t, x, y)
  BY <1>1, OrderParts DEF OrderJoins
<1>2. /\ "left" \in Sides /\ "right" \in Sides
      /\ t.left = t["left"] /\ t.right = t["right"]
      /\ Other("left") = "right" /\ Other("right") = "left"
  BY DEF Sides, Other
<1> QED BY <1>1, <1>2

\* It has each node of the tree once,
LEMMA OrderHas ==
    ASSUME NEW d \in Sides
    PROVE  \A t \in AllTrees : /\ Ids[t] = {Order(d)[t][i] : i \in 1 .. Len(Order(d)[t])}
                               /\ Sorted[t] => Cardinality(Ids[t]) = Len(Order(d)[t])
<1> DEFINE Has(t) == /\ Ids[t] = {Order(d)[t][i] : i \in 1 .. Len(Order(d)[t])}
                     /\ Sorted[t] => Cardinality(Ids[t]) = Len(Order(d)[t])
           S == {t \in AllTrees : Has(t)}
<1>1. Nil \in S
  <2>1. Nil \in AllTrees /\ Ids[Nil] = {} /\ Order(d)[Nil] = <<>>
    BY NilIs, OrderIs
  <2>2. Cardinality({}) = 0
    BY FS_EmptySet
  <2>3. Len(Order(d)[Nil]) = 0
    BY <2>1
  <2>4. Has(Nil)
    BY <2>1, <2>2, <2>3
  <2> HIDE DEF Has
  <2> QED BY <2>1, <2>4
<1>2. ASSUME NEW t \in Branches, t.left \in S, t.right \in S
      PROVE  t \in S
  <2> DEFINE o == Other(d)
             s == Order(d)[t]
             a == Order(d)[t[d]]
             b == Order(d)[t[o]]
  <2>1. /\ t[d] \in AllTrees /\ t[o] \in AllTrees /\ t.id \in Nodes /\ t \in AllTrees
        /\ Built(t, d, t[d], t.id, t[o]) /\ {t[d], t[o]} = {t.left, t.right}
    BY PartsOf DEF Branches
  <2>2. Has(t[d]) /\ Has(t[o])
    <3>1. Has(t.left) /\ Has(t.right)
      BY <1>2
    <3> HIDE DEF Has, o, S
    <3>2. \A x \in {t.left, t.right} : Has(x)
      BY <3>1
    <3> QED BY <2>1, <3>2
  <2>3. /\ Len(a) \in Nat /\ Len(b) \in Nat
        /\ Len(s) = Len(a) + 1 + Len(b)
        /\ \A i \in 1 .. Len(a) : s[i] = a[i]
        /\ s[Len(a) + 1] = t.id
        /\ \A i \in 1 .. Len(b) : s[Len(a) + 1 + i] = b[i]
    BY OrderParts
  <2>4. /\ Ids[t[d]] = {a[i] : i \in 1 .. Len(a)}
        /\ Ids[t[o]] = {b[i] : i \in 1 .. Len(b)}
        /\ Sorted[t[d]] => Cardinality(Ids[t[d]]) = Len(a)
        /\ Sorted[t[o]] => Cardinality(Ids[t[o]]) = Len(b)
    BY <2>2
  <2> HIDE DEF s, a, b
  <2>5. /\ Ids[t] = Ids[t[d]] \cup {t.id} \cup Ids[t[o]]
        /\ Sorted[t] => /\ Sorted[t[d]] /\ Sorted[t[o]]
                        /\ t.id \notin Ids[t[d]] \cup Ids[t[o]]
                        /\ Ids[t[d]] \cap Ids[t[o]] = {}
    BY <2>1, BuiltIs
  <2> HIDE DEF o
  <2>6. Ids[t] = {s[i] : i \in 1 .. Len(s)}
    <3>1. ASSUME NEW m \in Ids[t] PROVE \E i \in 1 .. Len(s) : m = s[i]
      <4>1. CASE m \in Ids[t[d]]
        <5>1. PICK i \in 1 .. Len(a) : m = a[i]
          BY <2>4, <4>1
        <5>2. i \in 1 .. Len(s) /\ s[i] = m
          BY <2>3, <5>1
        <5> QED BY <5>2
      <4>2. CASE m = t.id
        <5>1. Len(a) + 1 \in 1 .. Len(s)
          BY <2>3
        <5> QED BY <2>3, <4>2, <5>1
      <4>3. CASE m \in Ids[t[o]]
        <5>1. PICK i \in 1 .. Len(b) : m = b[i]
          BY <2>4, <4>3
        <5>2. Len(a) + 1 + i \in 1 .. Len(s) /\ s[Len(a) + 1 + i] = m
          BY <2>3, <5>1
        <5> QED BY <5>2
      <4> QED BY <2>5, <4>1, <4>2, <4>3
    <3>2. ASSUME NEW i \in 1 .. Len(s) PROVE s[i] \in Ids[t]
      <4>1. CASE i <= Len(a)
        BY <2>3, <2>4, <2>5, <4>1
      <4>2. CASE i = Len(a) + 1
        BY <2>3, <2>5, <4>2
      <4>3. CASE i > Len(a) + 1
        <5> DEFINE j == i - (Len(a) + 1)
        <5>1. j \in 1 .. Len(b) /\ i = Len(a) + 1 + j
          BY <2>3, <4>3
        <5> HIDE DEF j
        <5>2. s[i] = b[j]
          BY <2>3, <5>1
        <5> QED BY <2>4, <2>5, <5>1, <5>2
      <4> QED BY <2>3, <4>1, <4>2, <4>3
    <3> QED BY <3>1, <3>2
  <2>7. ASSUME Sorted[t] PROVE Cardinality(Ids[t]) = Len(s)
    <3> DEFINE A == Ids[t[d]]
               B == Ids[t[o]]
    <3>1. IsFiniteSet(A) /\ IsFiniteSet(B)
      BY <2>1, IdsType, TreeAssumption, FS_Subset
    <3>2. Cardinality(A) = Len(a) /\ Cardinality(B) = Len(b)
      BY <2>4, <2>5, <2>7
    <3>3. Ids[t] = (A \cup B) \cup {t.id} /\ t.id \notin A \cup B /\ A \cap B = {}
      BY <2>5, <2>7
    <3> HIDE DEF A, B
    <3>4. IsFiniteSet(A \cup B) /\ Cardinality(A \cup B) = Len(a) + Len(b)
      <4>1. /\ IsFiniteSet(A \cup B)
            /\ Cardinality(A \cup B) = Cardinality(A) + Cardinality(B) - Cardinality(A \cap B)
        BY <3>1, FS_Union
      <4>2. Cardinality(A \cap B) = 0
        BY <3>3, FS_EmptySet
      <4> QED BY <2>3, <3>2, <4>1, <4>2
    <3>5. Cardinality((A \cup B) \cup {t.id}) = Cardinality(A \cup B) + 1
      BY <3>3, <3>4, FS_AddElement
    <3> QED BY <2>3, <3>3, <3>4, <3>5
  <2> QED BY <2>1, <2>6, <2>7 DEF s
<1>3. AllTrees \subseteq S
  <2> HIDE DEF S
  <2> QED BY <1>1, <1>2, TreeInduction
<1> QED BY <1>3

\* in the order of the keys,
LEMMA OrderSorted ==
    \A t \in AllTrees : Sorted[t] =>
        \A i \in 1 .. Len(Order("left")[t]) - 1 :
            Key[Order("left")[t][i]] <= Key[Order("left")[t][i + 1]]
<1> DEFINE d == "left"
           Keyed(s) == \A i \in 1 .. Len(s) - 1 : Key[s[i]] <= Key[s[i + 1]]
           S == {t \in AllTrees : Sorted[t] => Keyed(Order(d)[t])}
<1>1. Nil \in S
  <2>1. Nil \in AllTrees /\ Order(d)[Nil] = <<>>
    BY NilIs, OrderIs DEF Sides
  <2>2. Keyed(Order(d)[Nil])
    BY <2>1
  <2> QED BY <2>1, <2>2
<1>2. ASSUME NEW t \in Branches, t.left \in S, t.right \in S
      PROVE  t \in S
  <2> DEFINE s == Order(d)[t]
             a == Order(d)[t.left]
             b == Order(d)[t.right]
  <2> SUFFICES ASSUME Sorted[t] PROVE Keyed(s)
    BY DEF Branches
  <2>1. d \in Sides /\ t[d] = t.left /\ t[Other(d)] = t.right
    BY DEF Sides, Other
  <2>2. /\ Len(a) \in Nat /\ Len(b) \in Nat
        /\ Len(s) = Len(a) + 1 + Len(b)
        /\ \A i \in 1 .. Len(a) : s[i] = a[i]
        /\ s[Len(a) + 1] = t.id
        /\ \A i \in 1 .. Len(b) : s[Len(a) + 1 + i] = b[i]
    BY OrderTwoWays DEF OrderJoins
  <2>3. t.left \in AllTrees /\ t.right \in AllTrees /\ t.id \in Nodes
    BY <2>1, PartsOf
  <2>4. /\ Sorted[t.left] /\ Sorted[t.right]
        /\ \A m \in Ids[t.left] : Key[m] <= Key[t.id]
        /\ \A m \in Ids[t.right] : Key[m] >= Key[t.id]
    BY SortedAre DEF Branches, Between, Before
  <2>5. Keyed(a) /\ Keyed(b)
    BY <1>2, <2>4
  <2>6. /\ \A i \in 1 .. Len(a) : a[i] \in Ids[t.left]
        /\ \A i \in 1 .. Len(b) : b[i] \in Ids[t.right]
    <3>1. Ids[t.left] = {a[i] : i \in 1 .. Len(a)} /\ Ids[t.right] = {b[i] : i \in 1 .. Len(b)}
      BY <2>1, <2>3, OrderHas
    <3> HIDE DEF a, b
    <3> QED BY <3>1
  <2> HIDE DEF s, a, b
  <2>7. ASSUME NEW i \in 1 .. Len(s) - 1
        PROVE  Key[s[i]] <= Key[s[i + 1]]
    <3>1. CASE i < Len(a)
      <4>1. i \in 1 .. Len(a) - 1 /\ i \in 1 .. Len(a) /\ i + 1 \in 1 .. Len(a)
        BY <2>2, <3>1
      <4>2. s[i] = a[i] /\ s[i + 1] = a[i + 1]
        BY <2>2, <4>1
      <4> QED BY <2>5, <4>1, <4>2
    <3>2. CASE i = Len(a)
      <4>1. s[i] = a[i] /\ s[i + 1] = t.id /\ a[i] \in Ids[t.left]
        BY <2>2, <2>6, <3>2
      <4> QED BY <2>4, <4>1
    <3>3. CASE i = Len(a) + 1
      <4>1. 1 \in 1 .. Len(b) /\ i + 1 = Len(a) + 1 + 1
        BY <2>2, <3>3
      <4>2. s[i] = t.id /\ s[i + 1] = b[1] /\ b[1] \in Ids[t.right]
        BY <2>2, <2>6, <3>3, <4>1
      <4>3. Key[b[1]] \in Int /\ Key[t.id] \in Int
        BY <2>3, <4>2, IdsType, TreeAssumption
      <4> QED BY <2>4, <4>2, <4>3
    <3>4. CASE i > Len(a) + 1
      <4> DEFINE j == i - (Len(a) + 1)
      <4>1. /\ j \in 1 .. Len(b) - 1 /\ j \in 1 .. Len(b) /\ j + 1 \in 1 .. Len(b)
            /\ i = Len(a) + 1 + j /\ i + 1 = Len(a) + 1 + (j + 1)
        BY <2>2, <3>4
      <4> HIDE DEF j
      <4>2. s[i] = b[j] /\ s[i + 1] = b[j + 1]
        BY <2>2, <4>1
      <4> QED BY <2>5, <4>1, <4>2
    <3> QED BY <2>2, <3>1, <3>2, <3>3, <3>4
  <2> QED BY <2>7
<1>3. AllTrees \subseteq S
  <2> HIDE DEF S
  <2> QED BY <1>1, <1>2, TreeInduction
<1> QED BY <1>3

\* and from the other side the same backwards.
LEMMA OrderTurned ==
    \A t \in AllTrees :
        /\ Len(Order("right")[t]) = Len(Order("left")[t])
        /\ \A i \in 1 .. Len(Order("left")[t]) :
              Order("right")[t][i] = Order("left")[t][Len(Order("left")[t]) + 1 - i]
<1> DEFINE Turned(s, r) == Len(r) = Len(s) /\ \A i \in 1 .. Len(s) : r[i] = s[Len(s) + 1 - i]
           S == {t \in AllTrees : Turned(Order("left")[t], Order("right")[t])}
<1>1. Nil \in S
  <2>1. Nil \in AllTrees /\ Order("left")[Nil] = <<>> /\ Order("right")[Nil] = <<>>
    BY NilIs, OrderIs DEF Sides
  <2>2. Turned(<<>>, <<>>)
    OBVIOUS
  <2> HIDE DEF Turned
  <2> QED BY <2>1, <2>2
<1>2. ASSUME NEW t \in Branches, t.left \in S, t.right \in S
      PROVE  t \in S
  <2> DEFINE s == Order("left")[t]
             a == Order("left")[t.left]
             b == Order("left")[t.right]
             r == Order("right")[t]
             e == Order("right")[t.left]
             f == Order("right")[t.right]
  <2>2. /\ Len(a) \in Nat /\ Len(b) \in Nat
        /\ Len(s) = Len(a) + 1 + Len(b)
        /\ \A i \in 1 .. Len(a) : s[i] = a[i]
        /\ s[Len(a) + 1] = t.id
        /\ \A i \in 1 .. Len(b) : s[Len(a) + 1 + i] = b[i]
    BY OrderTwoWays DEF OrderJoins
  <2>3. /\ Len(e) \in Nat /\ Len(f) \in Nat
        /\ Len(r) = Len(f) + 1 + Len(e)
        /\ \A i \in 1 .. Len(f) : r[i] = f[i]
        /\ r[Len(f) + 1] = t.id
        /\ \A i \in 1 .. Len(e) : r[Len(f) + 1 + i] = e[i]
    BY OrderTwoWays DEF OrderJoins
  <2>4. Turned(a, e) /\ Turned(b, f)
    BY <1>2
  <2> HIDE DEF s, a, b, r, e, f
  <2>5. Len(r) = Len(s) /\ Len(e) = Len(a) /\ Len(f) = Len(b)
    BY <2>2, <2>3, <2>4
  <2>6. ASSUME NEW i \in 1 .. Len(s)
        PROVE  r[i] = s[Len(s) + 1 - i]
    <3>1. CASE i <= Len(b)
      <4> DEFINE j == Len(b) + 1 - i
      <4>1. i \in 1 .. Len(b) /\ j \in 1 .. Len(b) /\ Len(s) + 1 - i = Len(a) + 1 + j
        BY <2>2, <3>1
      <4>2. r[i] = f[i] /\ f[i] = b[j]
        BY <2>3, <2>4, <2>5, <4>1
      <4> HIDE DEF j
      <4> QED BY <2>2, <4>1, <4>2
    <3>2. CASE i = Len(b) + 1
      <4>1. Len(s) + 1 - i = Len(a) + 1
        BY <2>2, <3>2
      <4> QED BY <2>2, <2>3, <2>5, <3>2, <4>1
    <3>3. CASE i > Len(b) + 1
      <4> DEFINE j == i - (Len(b) + 1)
                 k == Len(a) + 1 - j
      <4>1. j \in 1 .. Len(a) /\ k \in 1 .. Len(a) /\ i = Len(b) + 1 + j /\ Len(s) + 1 - i = k
        BY <2>2, <3>3
      <4>2. e[j] = a[k]
        BY <2>4, <4>1
      <4> HIDE DEF j, k
      <4>3. r[i] = e[j] /\ s[k] = a[k]
        BY <2>2, <2>3, <2>5, <4>1
      <4> QED BY <4>1, <4>2, <4>3
    <3> QED BY <2>2, <3>1, <3>2, <3>3
  <2>7. Turned(s, r)
    BY <2>5, <2>6
  <2> HIDE DEF Turned
  <2> QED BY <2>7 DEF s, r, Branches
<1>3. AllTrees \subseteq S
  <2> HIDE DEF S
  <2> QED BY <1>1, <1>2, TreeInduction
<1> QED BY <1>3

\* calc_size_rc counts them.
LEMMA SizeIs == \A t \in Trees : calc_size_rc[t] = Len(Order("left")[t])
<1> DEFINE f == [t \in Trees |-> Len(Order("left")[t])]
<1>1. \A t \in Trees \ {Nil} : /\ t \in Branches /\ t.left \in Trees /\ t.right \in Trees
                               /\ f[t] = 1 + f[t.left] + f[t.right]
  <2> SUFFICES ASSUME NEW t \in Trees \ {Nil}
               PROVE  /\ t \in Branches /\ t.left \in Trees /\ t.right \in Trees
                      /\ f[t] = 1 + f[t.left] + f[t.right]
    OBVIOUS
  <2>1. t \in Branches /\ t.left \in Trees /\ t.right \in Trees
    BY TreesAre DEF Branches
  <2>2. /\ Len(Order("left")[t.left]) \in Nat /\ Len(Order("left")[t.right]) \in Nat
        /\ Len(Order("left")[t]) = Len(Order("left")[t.left]) + 1 + Len(Order("left")[t.right])
    BY <2>1, OrderTwoWays DEF OrderJoins
  <2>3. /\ f[t] = Len(Order("left")[t])
        /\ f[t.left] = Len(Order("left")[t.left]) /\ f[t.right] = Len(Order("left")[t.right])
    BY <2>1
  <2> DEFINE x == Len(Order("left")[t.left])
             y == Len(Order("left")[t.right])
             z == Len(Order("left")[t])
  <2>4. x \in Nat /\ y \in Nat /\ z = x + 1 + y /\ f[t] = z /\ f[t.left] = x /\ f[t.right] = y
    BY <2>2, <2>3
  <2> HIDE DEF f, x, y, z
  <2>5. f[t] = 1 + f[t.left] + f[t.right]
    BY <2>4
  <2> QED BY <2>1, <2>5
<1>2. f[Nil] = 0 /\ Nil \in Trees
  BY TreesAre, OrderIs DEF Sides
<1>3. f = [t \in Trees |-> f[t]]
  OBVIOUS
<1> HIDE DEF f
<1>4. \A t \in Trees : f[t] = IF t = Nil THEN 0 ELSE 1 + f[t.left] + f[t.right]
  BY <1>1, <1>2
<1>5. f = [t \in Trees |-> IF t = Nil THEN 0 ELSE 1 + f[t.left] + f[t.right]]
  BY <1>3, <1>4, Zenon
<1> DEFINE g == calc_size_rc
<1>6. g = [t \in Trees |-> IF t = Nil THEN 0 ELSE 1 + g[t.left] + g[t.right]]
  BY <1>5 DEF calc_size_rc
<1> HIDE DEF g
<1>7. \A t \in Trees : g[t] = IF t = Nil THEN 0 ELSE 1 + g[t.left] + g[t.right]
  BY <1>6, Zenon
<1> DEFINE S == {t \in AllTrees : t \in Trees => g[t] = f[t]}
<1>8. Nil \in S
  BY <1>2, <1>7, TreesAre
<1>9. ASSUME NEW t \in Branches, t.left \in S, t.right \in S
      PROVE  t \in S
  BY <1>1, <1>7, <1>9 DEF Branches
<1>10. AllTrees \subseteq S
  <2> HIDE DEF S
  <2> QED BY <1>8, <1>9, TreeInduction
<1> QED BY <1>10, TreesAre DEF f, g

\* A walk to the side d ends at the first of them.
LEMMA WalkIsFirst ==
    ASSUME NEW d \in Sides, NEW w, Walks(w, d)
    PROVE  \A t \in Trees \ {Nil} : Len(Order(d)[t]) > 0 /\ w[t] = Order(d)[t][1]
<1> DEFINE S == {t \in AllTrees : t \in Trees \ {Nil} =>
                                     Len(Order(d)[t]) > 0 /\ w[t] = Order(d)[t][1]}
<1>1. Nil \in S
  BY TreeIs
<1>2. ASSUME NEW t \in Branches, t.left \in S, t.right \in S
      PROVE  t \in S
  <2>1. SUFFICES ASSUME t \in Trees PROVE Len(Order(d)[t]) > 0 /\ w[t] = Order(d)[t][1]
    BY DEF Branches
  <2>2. t \in Trees \ {Nil} /\ t.left \in Trees /\ t.right \in Trees
    BY <2>1, TreesAre DEF Branches
  <2>3. t[d] = t.left \/ t[d] = t.right
    BY DEF Sides
  <2>4. w[t] = IF t[d] = Nil THEN t.id ELSE w[t[d]]
    BY <2>2 DEF Walks
  <2> DEFINE s == Order(d)[t]
             a == Order(d)[t[d]]
             b == Order(d)[t[Other(d)]]
  <2>5. /\ Len(a) \in Nat /\ Len(b) \in Nat
        /\ Len(s) = Len(a) + 1 + Len(b)
        /\ \A i \in 1 .. Len(a) : s[i] = a[i]
        /\ s[Len(a) + 1] = t.id
    BY OrderParts
  <2>6. t[d] = Nil => a = <<>>
    BY OrderIs
  <2>7. t[d] # Nil => Len(a) > 0 /\ w[t[d]] = a[1]
    BY <1>2, <2>2, <2>3
  <2> HIDE DEF s, a, b
  <2>8. Len(s) > 0 /\ w[t] = s[1]
    <3>1. CASE t[d] = Nil
      <4>1. Len(a) = 0
        BY <2>6, <3>1
      <4> QED BY <2>4, <2>5, <3>1, <4>1
    <3>2. CASE t[d] # Nil
      <4>1. 1 \in 1 .. Len(a)
        BY <2>5, <2>7, <3>2
      <4> QED BY <2>4, <2>5, <2>7, <3>2, <4>1
    <3> QED BY <3>1, <3>2
  <2> QED BY <2>8 DEF s
<1>3. AllTrees \subseteq S
  <2> HIDE DEF S
  <2> QED BY <1>1, <1>2, TreeInduction
<1> QED BY <1>3, TreesAre

\* What the callbacks have seen after the nodes of s, of which the one with number
\* stop breaks.
Visited(s, seen, stop) ==
    LET all == seen.nodes \o s
    IN  IF seen.broken THEN seen
        ELSE IF Len(seen.nodes) <= stop /\ stop < Len(all)
        THEN [nodes |-> SubSeq(all, 1, stop + 1), broken |-> TRUE]
        ELSE [nodes |-> all, broken |-> FALSE]

\* The callback for the node n.
Calls(before, n, stop) == [nodes |-> Append(before.nodes, n), broken |-> Len(before.nodes) = stop]

\* They have seen a sequence of nodes.
LEMMA VisitedType ==
    ASSUME NEW s \in Seq(Nodes), NEW seen \in Seen, NEW stop \in Int
    PROVE  Visited(s, seen, stop) \in Seen
<1> DEFINE all == seen.nodes \o s
<1>1. seen.nodes \in Seq(Nodes)
  BY DEF Seen
<1>2. all \in Seq(Nodes)
  BY <1>1, ConcatProperties
<1> HIDE DEF all
<1>3. CASE Len(seen.nodes) <= stop /\ stop < Len(all)
  <2>1. SubSeq(all, 1, stop + 1) \in Seq(Nodes)
    <3>1. Len(seen.nodes) \in Nat /\ Len(all) \in Nat
      BY <1>1, <1>2
    <3>2. stop + 1 \in 0 .. Len(all)
      BY <1>3, <3>1
    <3>3. \A i \in 1 .. stop + 1 : all[i] \in Nodes
      BY <1>2, <3>2
    <3>4. stop + 1 \in Int /\ 1 \in Int
      OBVIOUS
    <3> QED BY <3>3, <3>4, SubSeqProperties
  <2> QED BY <1>3, <2>1 DEF Visited, Seen, all
<1>4. CASE ~ (Len(seen.nodes) <= stop /\ stop < Len(all))
  BY <1>2, <1>4 DEF Visited, Seen, all
<1> QED BY <1>3, <1>4

\* A prefix is the same in every sequence that goes on from one.
LEMMA PrefixIs ==
    ASSUME NEW p \in Seq(Nodes), NEW q \in Seq(Nodes), NEW k \in Nat, k <= Len(p)
    PROVE  SubSeq(p \o q, 1, k) = SubSeq(p, 1, k)
<1> DEFINE all == p \o q
<1>1. all \in Seq(Nodes) /\ Len(all) = Len(p) + Len(q) /\ Len(p) \in Nat /\ Len(q) \in Nat
  BY ConcatProperties
<1>2. \A i \in 1 .. k : all[i] = p[i] /\ p[i] \in Nodes
  <2> SUFFICES ASSUME NEW i \in 1 .. k PROVE all[i] = p[i] /\ p[i] \in Nodes
    OBVIOUS
  <2>1. i \in 1 .. Len(p) + Len(q) /\ i <= Len(p) /\ i \in 1 .. Len(p)
    BY <1>1
  <2>2. (p \o q)[i] = IF i <= Len(p) THEN p[i] ELSE q[i - Len(p)]
    BY <2>1, ConcatProperties
  <2> QED BY <2>1, <2>2
<1> HIDE DEF all
<1>3. 1 \in Int /\ k \in Int /\ \A i \in 1 .. k : all[i] \in Nodes /\ p[i] \in Nodes
  BY <1>2
<1>4. /\ SubSeq(all, 1, k) \in Seq(Nodes)
      /\ Len(SubSeq(all, 1, k)) = k
      /\ \A i \in 1 .. k : SubSeq(all, 1, k)[i] = all[i]
  BY <1>3, SubSeqProperties
<1>5. /\ SubSeq(p, 1, k) \in Seq(Nodes)
      /\ Len(SubSeq(p, 1, k)) = k
      /\ \A i \in 1 .. k : SubSeq(p, 1, k)[i] = p[i]
  BY <1>3, SubSeqProperties
<1>6. SubSeq(all, 1, k) = SubSeq(p, 1, k)
  BY <1>2, <1>4, <1>5, SeqEqual
<1> QED BY <1>6 DEF all

\* The whole is a prefix of itself.
LEMMA WholeIs ==
    ASSUME NEW p \in Seq(Nodes)
    PROVE  SubSeq(p, 1, Len(p)) = p
<1>1. Len(p) \in Nat /\ \A i \in 1 .. Len(p) : p[i] \in Nodes
  OBVIOUS
<1>2. 1 \in Int /\ Len(p) \in Int
  BY <1>1
<1>3. /\ SubSeq(p, 1, Len(p)) \in Seq(Nodes)
      /\ Len(SubSeq(p, 1, Len(p))) = Len(p)
      /\ \A i \in 1 .. Len(p) : SubSeq(p, 1, Len(p))[i] = p[i]
  BY <1>1, <1>2, SubSeqProperties
<1> QED BY <1>3, SeqEqual

\* What they have seen after both subtrees and the node between.
LEMMA VisitedJoins ==
    ASSUME NEW a \in Seq(Nodes), NEW n \in Nodes, NEW b \in Seq(Nodes),
           NEW seen \in Seen, NEW stop \in Int
    PROVE  LET before == Visited(a, seen, stop)
               own == Calls(before, n, stop)
           IN  /\ own \in Seen
               /\ Visited(a \o <<n>> \o b, seen, stop) =
                    IF before.broken THEN before
                    ELSE IF own.broken THEN own
                    ELSE Visited(b, own, stop)
<1> DEFINE before == Visited(a, seen, stop)
           own == Calls(before, n, stop)
           c == seen.nodes
           p == c \o a
           m == p \o <<n>>
           all == c \o (a \o <<n>> \o b)
<1>1. c \in Seq(Nodes) /\ before \in Seen /\ seen.broken \in BOOLEAN
  BY VisitedType DEF Seen
<1>2. own \in Seen
  BY <1>1, AppendProperties DEF Calls, Seen
<1>3. p \in Seq(Nodes) /\ Len(p) = Len(c) + Len(a)
  BY <1>1, ConcatProperties
<1>4. m \in Seq(Nodes) /\ Len(m) = Len(p) + 1 /\ Append(p, n) = m
  <2> HIDE DEF p
  <2>1. <<n>> \in Seq(Nodes) /\ Len(<<n>>) = 1
    OBVIOUS
  <2> QED BY <1>3, <2>1, ConcatProperties, AppendIsConcat
<1>5. all = m \o b /\ a \o <<n>> \o b \in Seq(Nodes)
  <2>1. <<n>> \in Seq(Nodes)
    OBVIOUS
  <2> DEFINE x == <<n>>
  <2> HIDE DEF x, c
  <2>2. x \in Seq(Nodes)
    BY <2>1 DEF x
  <2>3. a \o x \in Seq(Nodes) /\ (a \o x) \o b \in Seq(Nodes)
    <3> DEFINE y == a \o x
    <3>1. y \in Seq(Nodes)
      BY <2>2, ConcatProperties
    <3> HIDE DEF y
    <3>2. y \o b \in Seq(Nodes)
      BY <3>1, ConcatProperties
    <3> QED BY <3>1, <3>2 DEF y
  <2>4. c \o ((a \o x) \o b) = (c \o (a \o x)) \o b
    <3> DEFINE y == a \o x
    <3>1. y \in Seq(Nodes)
      BY <2>3
    <3> HIDE DEF y
    <3>2. c \o (y \o b) = (c \o y) \o b
      BY <1>1, <3>1, ConcatAssociative
    <3> QED BY <3>2 DEF y
  <2>5. c \o (a \o x) = (c \o a) \o x
    BY <1>1, <2>2, ConcatAssociative
  <2> QED BY <2>3, <2>4, <2>5 DEF x
<1>6. all \in Seq(Nodes) /\ Len(all) = Len(m) + Len(b) /\ Len(b) \in Nat /\ Len(c) \in Nat /\ Len(a) \in Nat
  <2>1. Len(b) \in Nat /\ Len(c) \in Nat /\ Len(a) \in Nat
    BY <1>1
  <2> HIDE DEF m, all
  <2>2. m \o b \in Seq(Nodes) /\ Len(m \o b) = Len(m) + Len(b)
    BY <1>4, ConcatProperties
  <2>3. all = m \o b
    BY <1>5
  <2> QED BY <2>1, <2>2, <2>3
<1>7. \A k \in 0 .. Len(p) : SubSeq(all, 1, k) = SubSeq(p, 1, k)
  <2> SUFFICES ASSUME NEW k \in 0 .. Len(p) PROVE SubSeq(all, 1, k) = SubSeq(p, 1, k)
    OBVIOUS
  <2>1. k \in Nat /\ k <= Len(p) /\ k <= Len(m) /\ <<n>> \in Seq(Nodes)
    BY <1>3, <1>4, <1>6
  <2>2. SubSeq(m, 1, k) = SubSeq(p, 1, k)
    <3> HIDE DEF p
    <3> QED BY <1>3, <2>1, PrefixIs
  <2>3. SubSeq(m \o b, 1, k) = SubSeq(m, 1, k)
    <3> HIDE DEF m
    <3> QED BY <1>4, <2>1, PrefixIs
  <2> QED BY <1>5, <2>2, <2>3
<1>8. SubSeq(all, 1, Len(m)) = m
  <2>1. Len(m) \in Nat /\ Len(m) <= Len(m)
    BY <1>3, <1>4, <1>6
  <2> HIDE DEF m, all
  <2>2. SubSeq(m \o b, 1, Len(m)) = SubSeq(m, 1, Len(m))
    BY <1>4, <2>1, PrefixIs
  <2> QED BY <1>4, <1>5, <2>2, WholeIs
<1> DEFINE whole == Visited(a \o <<n>> \o b, seen, stop)
           rest == Visited(b, own, stop)
<1>9. /\ whole = IF seen.broken THEN seen
                 ELSE IF Len(c) <= stop /\ stop < Len(all)
                 THEN [nodes |-> SubSeq(all, 1, stop + 1), broken |-> TRUE]
                 ELSE [nodes |-> all, broken |-> FALSE]
      /\ before = IF seen.broken THEN seen
                  ELSE IF Len(c) <= stop /\ stop < Len(p)
                  THEN [nodes |-> SubSeq(p, 1, stop + 1), broken |-> TRUE]
                  ELSE [nodes |-> p, broken |-> FALSE]
      /\ own = [nodes |-> Append(before.nodes, n), broken |-> Len(before.nodes) = stop]
  BY DEF Visited, Calls
<1>10. rest = IF own.broken THEN own
              ELSE IF Len(own.nodes) <= stop /\ stop < Len(own.nodes \o b)
              THEN [nodes |-> SubSeq(own.nodes \o b, 1, stop + 1), broken |-> TRUE]
              ELSE [nodes |-> own.nodes \o b, broken |-> FALSE]
  <2> HIDE DEF own
  <2> QED BY DEF Visited
<1> HIDE DEF before, own, whole, rest, all, m, p
<1>11. whole = IF before.broken THEN before ELSE IF own.broken THEN own ELSE rest
  <2>1. CASE seen.broken
    BY <1>9, <2>1
  <2>2. CASE ~ seen.broken /\ Len(c) <= stop /\ stop < Len(p)
    <3>1. stop < Len(all) /\ stop + 1 \in 0 .. Len(p)
      BY <1>3, <1>4, <1>6, <2>2
    <3>2. SubSeq(all, 1, stop + 1) = SubSeq(p, 1, stop + 1)
      BY <1>7, <3>1
    <3> HIDE DEF c
    <3> QED BY <1>9, <2>2, <3>1, <3>2
  <2>3. CASE ~ seen.broken /\ ~ (Len(c) <= stop /\ stop < Len(p))
    <3>1. before = [nodes |-> p, broken |-> FALSE]
      BY <1>9, <2>3
    <3>2. own = [nodes |-> m, broken |-> Len(p) = stop]
      <4>1. before.nodes = p
        BY <3>1
      <4>2. own = [nodes |-> Append(before.nodes, n), broken |-> Len(before.nodes) = stop]
        BY <1>9
      <4> QED BY <1>4, <4>1, <4>2
    <3>3. ~ before.broken /\ own.nodes = m /\ (own.broken <=> Len(p) = stop)
      BY <3>1, <3>2
    <3>4. CASE Len(p) = stop
      <4>1. Len(c) <= stop /\ stop < Len(all) /\ stop + 1 = Len(m)
        BY <1>3, <1>4, <1>6, <3>4
      <4>2. whole = [nodes |-> m, broken |-> TRUE]
        BY <1>8, <1>9, <2>3, <4>1
      <4>3. own = [nodes |-> m, broken |-> TRUE]
        BY <3>2, <3>4
      <4> QED BY <3>3, <3>4, <4>2, <4>3
    <3>5. CASE Len(p) # stop
      <4>1. rest = IF Len(m) <= stop /\ stop < Len(all)
                   THEN [nodes |-> SubSeq(all, 1, stop + 1), broken |-> TRUE]
                   ELSE [nodes |-> all, broken |-> FALSE]
        <5>1. ~ own.broken /\ own.nodes = m /\ all = m \o b
          BY <1>5, <3>3, <3>5
        <5>2. rest = IF Len(own.nodes) <= stop /\ stop < Len(own.nodes \o b)
                     THEN [nodes |-> SubSeq(own.nodes \o b, 1, stop + 1), broken |-> TRUE]
                     ELSE [nodes |-> own.nodes \o b, broken |-> FALSE]
          BY <1>10, <5>1
        <5> QED BY <5>1, <5>2
      <4>2. Len(m) <= stop <=> Len(c) <= stop
        <5> DEFINE i == Len(c)
                   j == Len(p)
        <5>1. i \in Nat /\ j \in Nat /\ i <= j /\ Len(m) = j + 1 /\ stop # j
          BY <1>3, <1>4, <1>6, <3>5
        <5>2. ~ (i <= stop /\ stop < j)
          BY <2>3
        <5> HIDE DEF i, j
        <5>3. Len(m) <= stop <=> i <= stop
          BY <5>1, <5>2
        <5> QED BY <5>3 DEF i
      <4>3. whole = rest
        BY <1>9, <2>3, <4>1, <4>2
      <4> QED BY <3>3, <3>5, <4>3
    <3> QED BY <3>4, <3>5
  <2> QED BY <2>1, <2>2, <2>3
<1> QED BY <1>2, <1>11 DEF before, own, whole, rest

\* After no nodes they have seen what they had.
LEMMA VisitedNone ==
    ASSUME NEW seen \in Seen, NEW stop \in Int
    PROVE  Visited(<<>>, seen, stop) = seen
<1>1. /\ seen.nodes \in Seq(Nodes) /\ seen.broken \in BOOLEAN
      /\ seen = [nodes |-> seen.nodes, broken |-> seen.broken]
  BY DEF Seen
<1>2. seen.nodes \o <<>> = seen.nodes
  BY <1>1, ConcatEmptySeq
<1>3. Len(seen.nodes) \in Nat
  BY <1>1
<1>4. Visited(<<>>, seen, stop) = IF seen.broken THEN seen
                                  ELSE [nodes |-> seen.nodes, broken |-> FALSE]
  BY <1>2, <1>3 DEF Visited
<1> QED BY <1>1, <1>4

\* The equation of foreach_rc.
Visits(rc, t, seen, d, stop) ==
    LET before == rc[t[d]][seen]
        own == Calls(before, t.id, stop)
    IN  IF before.broken THEN before
        ELSE IF own.broken THEN own
        ELSE rc[t[Other(d)]][own]

VisitsAll(rc, d, stop) == rc = [t \in Trees |-> [seen \in Seen |->
                                   IF t = Nil THEN seen ELSE Visits(rc, t, seen, d, stop)]]

\* One step of it, if it is right about the subtrees.
LEMMA VisitsIs ==
    ASSUME NEW d \in Sides, NEW stop \in Int, NEW rc, NEW t \in Branches, NEW seen \in Seen,
           \A other \in Seen :
              /\ rc[t[d]][other] = Visited(Order(d)[t[d]], other, stop)
              /\ rc[t[Other(d)]][other] = Visited(Order(d)[t[Other(d)]], other, stop)
    PROVE  Visits(rc, t, seen, d, stop) = Visited(Order(d)[t], seen, stop)
<1> DEFINE a == Order(d)[t[d]]
           b == Order(d)[t[Other(d)]]
           before == Visited(a, seen, stop)
           own == Calls(before, t.id, stop)
<1>1. a \in Seq(Nodes) /\ b \in Seq(Nodes) /\ t.id \in Nodes /\ Order(d)[t] = a \o <<t.id>> \o b
  BY PartsOf, OrderIs
<1>2. rc[t[d]][seen] = before
  OBVIOUS
<1>3. /\ own \in Seen
      /\ Visited(Order(d)[t], seen, stop) = IF before.broken THEN before
                                            ELSE IF own.broken THEN own
                                            ELSE Visited(b, own, stop)
  <2> DEFINE n == t.id
             whole == Visited(a \o <<n>> \o b, seen, stop)
  <2>1. n \in Nodes
    BY <1>1
  <2> HIDE DEF a, b, n
  <2>2. /\ own \in Seen
        /\ whole = IF before.broken THEN before
                   ELSE IF own.broken THEN own
                   ELSE Visited(b, own, stop)
    BY <1>1, <2>1, VisitedJoins DEF n
  <2>3. whole = Visited(Order(d)[t], seen, stop)
    BY <1>1 DEF n
  <2> HIDE DEF before, own, whole
  <2> QED BY <2>2, <2>3
<1>4. rc[t[Other(d)]][own] = Visited(b, own, stop)
  <2> HIDE DEF own
  <2> QED BY <1>3
<1>5. Visits(rc, t, seen, d, stop) = IF before.broken THEN before
                                     ELSE IF own.broken THEN own
                                     ELSE rc[t[Other(d)]][own]
  BY <1>2 DEF Visits
<1> HIDE DEF before, own, a, b
<1> QED BY <1>3, <1>4, <1>5

\* foreach_rc visits the nodes in their order, as far as the break.
LEMMA ForeachIs ==
    ASSUME NEW d \in Sides, NEW stop \in Int
    PROVE  \A t \in Trees, seen \in Seen :
              foreach_rc(d, stop)[t][seen] = Visited(Order(d)[t], seen, stop)
<1> DEFINE f == [t \in Trees |-> [seen \in Seen |-> Visited(Order(d)[t], seen, stop)]]
<1>1. \A t \in Trees \ {Nil} : t \in Branches /\ t[d] \in Trees /\ t[Other(d)] \in Trees
  <2> SUFFICES ASSUME NEW t \in Trees \ {Nil}
               PROVE  t \in Branches /\ t[d] \in Trees /\ t[Other(d)] \in Trees
    OBVIOUS
  <2>1. t \in Branches /\ t.left \in Trees /\ t.right \in Trees
    BY TreesAre DEF Branches
  <2> QED BY <2>1 DEF Sides, Other
<1>2. \A t \in Trees, seen \in Seen : f[t][seen] = Visited(Order(d)[t], seen, stop)
  OBVIOUS
<1>3. f = [t \in Trees |-> [seen \in Seen |-> f[t][seen]]]
  OBVIOUS
<1> HIDE DEF f
<1>4. \A t \in Trees, seen \in Seen :
         f[t][seen] = IF t = Nil THEN seen ELSE Visits(f, t, seen, d, stop)
  <2> SUFFICES ASSUME NEW t \in Trees, NEW seen \in Seen
               PROVE  f[t][seen] = IF t = Nil THEN seen ELSE Visits(f, t, seen, d, stop)
    OBVIOUS
  <2>1. CASE t = Nil
    <3>1. Order(d)[t] = <<>>
      BY <2>1, OrderIs
    <3> QED BY <1>2, <2>1, <3>1, VisitedNone
  <2>2. CASE t # Nil
    <3>1. t \in Branches /\ t[d] \in Trees /\ t[Other(d)] \in Trees
      BY <1>1, <2>2
    <3>2. \A other \in Seen :
             /\ f[t[d]][other] = Visited(Order(d)[t[d]], other, stop)
             /\ f[t[Other(d)]][other] = Visited(Order(d)[t[Other(d)]], other, stop)
      BY <1>2, <3>1
    <3>3. Visits(f, t, seen, d, stop) = Visited(Order(d)[t], seen, stop)
      BY <3>1, <3>2, VisitsIs
    <3> QED BY <1>2, <2>2, <3>3
  <2> QED BY <2>1, <2>2
<1>5. VisitsAll(f, d, stop)
  BY <1>3, <1>4, Zenon DEF VisitsAll
<1> DEFINE rc == foreach_rc(d, stop)
<1>6. rc = CHOOSE g : VisitsAll(g, d, stop)
  BY DEF foreach_rc, VisitsAll, Visits, Calls
<1> HIDE DEF rc
<1>7. VisitsAll(rc, d, stop)
  BY <1>5, <1>6
<1>8. \A t \in Trees, seen \in Seen :
         rc[t][seen] = IF t = Nil THEN seen ELSE Visits(rc, t, seen, d, stop)
  <2>1. \A t \in Trees : rc[t] = [seen \in Seen |->
                                    IF t = Nil THEN seen ELSE Visits(rc, t, seen, d, stop)]
    BY <1>7, Zenon DEF VisitsAll
  <2> QED BY <2>1
<1> DEFINE Right(t) == \A seen \in Seen : rc[t][seen] = Visited(Order(d)[t], seen, stop)
           S == {t \in AllTrees : t \in Trees => Right(t)}
<1>9. Nil \in S
  <2>1. Order(d)[Nil] = <<>> /\ Nil \in Trees /\ Nil \in AllTrees
    BY OrderIs, TreesAre
  <2>2. Right(Nil)
    BY <1>8, <2>1, VisitedNone
  <2> HIDE DEF Right
  <2> QED BY <2>1, <2>2
<1>10. ASSUME NEW t \in Branches, t.left \in S, t.right \in S
       PROVE  t \in S
  <2>1. SUFFICES ASSUME t \in Trees PROVE Right(t)
    BY DEF Branches
  <2>2. t \in Trees \ {Nil} /\ t[d] \in Trees /\ t[Other(d)] \in Trees
    BY <1>1, <2>1 DEF Branches
  <2>3. Right(t[d]) /\ Right(t[Other(d)])
    <3>1. \A x \in {t.left, t.right} : x \in Trees => Right(x)
      BY <1>10
    <3> HIDE DEF Right, S
    <3>2. {t[d], t[Other(d)]} = {t.left, t.right}
      BY PartsOf
    <3> QED BY <2>2, <3>1, <3>2
  <2>4. ASSUME NEW seen \in Seen PROVE rc[t][seen] = Visited(Order(d)[t], seen, stop)
    <3>1. rc[t][seen] = Visits(rc, t, seen, d, stop)
      BY <1>8, <2>2
    <3>2. Visits(rc, t, seen, d, stop) = Visited(Order(d)[t], seen, stop)
      BY <2>3, VisitsIs
    <3> QED BY <3>1, <3>2
  <2> QED BY <2>4
<1>11. AllTrees \subseteq S
  <2> HIDE DEF S
  <2> QED BY <1>9, <1>10, TreeInduction
<1> QED BY <1>11, TreesAre DEF rc

\* Without a break the traversal sees all nodes, with one the first of them.
LEMMA TraversalIs ==
    ASSUME root \in Trees, NEW d \in Sides
    PROVE  /\ tree_for_each(d, -1) = Order(d)[root]
           /\ \A stop \in 0 .. Len(Order(d)[root]) - 1 :
                 tree_for_each(d, stop) = SubSeq(Order(d)[root], 1, stop + 1)
<1> DEFINE s == Order(d)[root]
           start == [nodes |-> <<>>, broken |-> FALSE]
<1>1. s \in Seq(Nodes)
  BY TreesAre, OrderIs
<1>2. start \in Seen /\ start.nodes = <<>> /\ ~ start.broken /\ Len(<<>>) = 0
  BY DEF Seen
<1>3. <<>> \o s = s
  <2> HIDE DEF s
  <2> QED BY <1>1, ConcatEmptySeq
<1>4. \A stop \in Int : tree_for_each(d, stop) = Visited(s, start, stop).nodes
  BY <1>2, ForeachIs DEF tree_for_each
<1> HIDE DEF s, start
<1>5. \A stop \in Int : Visited(s, start, stop) =
         IF 0 <= stop /\ stop < Len(s) THEN [nodes |-> SubSeq(s, 1, stop + 1), broken |-> TRUE]
         ELSE [nodes |-> s, broken |-> FALSE]
  BY <1>2, <1>3 DEF Visited
<1>6. Len(s) \in Nat /\ -1 \in Int
  BY <1>1
<1>7. tree_for_each(d, -1) = s
  <2>1. Visited(s, start, -1) = [nodes |-> s, broken |-> FALSE]
    BY <1>5, <1>6
  <2> QED BY <1>4, <1>6, <2>1
<1>8. \A stop \in 0 .. Len(s) - 1 : tree_for_each(d, stop) = SubSeq(s, 1, stop + 1)
  <2> SUFFICES ASSUME NEW stop \in 0 .. Len(s) - 1
               PROVE  tree_for_each(d, stop) = SubSeq(s, 1, stop + 1)
    OBVIOUS
  <2>1. stop \in Int /\ 0 <= stop /\ stop < Len(s)
    BY <1>6
  <2>2. Visited(s, start, stop) = [nodes |-> SubSeq(s, 1, stop + 1), broken |-> TRUE]
    BY <1>5, <2>1
  <2> QED BY <1>4, <2>1, <2>2
<1> QED BY <1>7, <1>8 DEF s

\* Whatever rotations were made, a traversal meets every node once and in the order
\* of the keys, the other one meets them backwards, a break ends it where it was
\* asked for, and size, minimum and maximum agree (base_tree.c:85, 133, 156, 166).
THEOREM TreeIsOrdered == Spec => []Ordered
<1>1. TreeInvariant => Ordered
  <2> SUFFICES ASSUME TreeInvariant PROVE Ordered
    OBVIOUS
  <2> DEFINE l == Order("left")[root]
             r == Order("right")[root]
             s == tree_for_each("left", -1)
  <2>1. root \in Trees /\ root \in AllTrees /\ Contents[root] = Ids[root] /\ Sorted[root]
    BY InvariantIs DEF TreeInvariant, Good
  <2>2. "left" \in Sides /\ "right" \in Sides
    BY DEF Sides
  <2>3. l \in Seq(Nodes) /\ r \in Seq(Nodes) /\ Len(l) \in Nat
    <3>1. \A d \in Sides : Order(d)[root] \in Seq(Nodes)
      BY <2>1, OrderIs
    <3>2. l \in Seq(Nodes) /\ r \in Seq(Nodes)
      BY <2>2, <3>1
    <3> HIDE DEF l, r
    <3> QED BY <3>2
  <2>4. s = l /\ tree_for_each("right", -1) = r
    BY <2>1, <2>2, TraversalIs
  <2>5. \A i \in 1 .. Len(l) - 1 : Key[l[i]] <= Key[l[i + 1]]
    BY <2>1, OrderSorted
  <2>6. Contents[root] = {l[i] : i \in 1 .. Len(l)} /\ Cardinality(Contents[root]) = Len(l)
    BY <2>1, <2>2, OrderHas
  <2>7. Len(r) = Len(l) /\ \A i \in 1 .. Len(l) : r[i] = l[Len(l) + 1 - i]
    BY <2>1, OrderTurned
  <2>8. \A stop \in 0 .. Len(l) - 1 : tree_for_each("left", stop) = SubSeq(l, 1, stop + 1)
    BY <2>1, <2>2, TraversalIs
  <2>9. calc_size_rc[root] = Len(l)
    BY <2>1, SizeIs
  <2>10. ASSUME root # Nil
         PROVE  Outermost("left") = l[1] /\ Outermost("right") = l[Len(l)]
    <3>1. \A d \in Sides : Len(Order(d)[root]) > 0 /\ Outermost(d) = Order(d)[root][1]
      <4> SUFFICES ASSUME NEW d \in Sides
                   PROVE  Len(Order(d)[root]) > 0 /\ Outermost(d) = Order(d)[root][1]
        OBVIOUS
      <4>1. PICK w : Walks(w, d) /\ Outermost(d) = w[root]
        BY WalkIs
      <4> QED BY <2>1, <2>10, <4>1, WalkIsFirst
    <3>2. Len(l) > 0 /\ Outermost("left") = l[1] /\ Outermost("right") = r[1]
      BY <2>2, <3>1
    <3> HIDE DEF l, r
    <3>3. 1 \in 1 .. Len(l) /\ Len(l) + 1 - 1 = Len(l)
      BY <2>3, <3>2
    <3> QED BY <2>7, <3>2, <3>3
  <2> HIDE DEF l, r, s
  <2>11. r = [i \in 1 .. Len(l) |-> l[Len(l) + 1 - i]]
    <3>1. r = [i \in 1 .. Len(r) |-> r[i]]
      BY <2>3
    <3> QED BY <2>7, <3>1, Zenon
  <2>12. s = l /\ tree_for_each("right", -1) = [i \in 1 .. Len(s) |-> s[Len(s) + 1 - i]]
    BY <2>4, <2>11
  <2> QED BY <2>5, <2>6, <2>8, <2>9, <2>10, <2>12 DEF Ordered, s
<1> QED BY <1>1, TreeStaysSorted, PTL
=============================================================================
