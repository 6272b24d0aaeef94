------------------------------ MODULE AvlTree ------------------------------
(***************************************************************************)
(* The search tree of cdsl_avltree.c and the readers of base_tree.c.       *)
(*                                                                         *)
(* A subtree is the record of its root, or Nil; a function that returns    *)
(* through pointers returns a record.  The code is written out for left    *)
(* and right; where the two are mirror images the definitions take the     *)
(* side d.  Its recursive functions are recursive functions on Trees, with *)
(* the arguments that stay the same as parameters of an operator.  Nothing *)
(* here rebalances by depth: what the code compares is the height field,   *)
(* which several calls set from one child only.                            *)
(*                                                                         *)
(* A node is initialised (cdsl_avltreeNodeInit) before it is inserted, as  *)
(* insert_rc keeps its links, and a node that replaces another, by update  *)
(* or by the caller's replacer, has the same key.  The balance factor is   *)
(* not 0: with it the heights left after a rotation would be read through  *)
(* a null pointer (cdsl_avltree.c:250).                                    *)
(***************************************************************************)
EXTENDS Integers, Sequences, FiniteSets

CONSTANTS Nodes,      \* tree nodes
          Key,        \* [Nodes -> Int]
          Null,       \* no node
          NoReplacer, \* a replacer that is missing, or refuses
          Bals,       \* the balance factors the caller asks for
          MayAgree    \* whether replacers agree without giving a node

ASSUME TreeAssumption == /\ Key \in [Nodes -> Int]
                         /\ IsFiniteSet(Nodes)
                         /\ Null \notin Nodes
                         /\ NoReplacer \notin Nodes \cup {Null}
                         /\ Bals \subseteq 1 .. 255
                         /\ MayAgree \in BOOLEAN

VARIABLES root,       \* rootp->entry
          bal,        \* rootp->balance_factor
          last        \* ghost: the latest call and its answer

vars == <<root, bal, last>>

Sides == {"left", "right"}
Other(d) == IF d = "left" THEN "right" ELSE "left"

\* The empty tree.
Nil == <<>>

\* Trees of at most d levels.
Upto[d \in Nat] ==
    IF d = 0 THEN {Nil}
    ELSE {Nil} \cup [id : Nodes, height : Nat, left : Upto[d - 1], right : Upto[d - 1]]

\* A tree has no more levels than there are nodes.
Trees == Upto[Cardinality(Nodes)]

Leaf(n) == [id |-> n, height |-> 1, left |-> Nil, right |-> Nil]
KeyOf(t) == Key[t.id]

Contents[t \in Trees] ==
    IF t = Nil THEN {} ELSE Contents[t.left] \cup {t.id} \cup Contents[t.right]

\* The height of a child that may be missing.
HeightOf(t) == IF t = Nil THEN 0 ELSE t.height

-----------------------------------------------------------------------------
(* Rotations *)

max_child_height(t) == IF HeightOf(t.right) > HeightOf(t.left) THEN HeightOf(t.right)
                       ELSE HeightOf(t.left)

Measured(t) == [t EXCEPT !.height = max_child_height(t) + 1]

\* Mutant of Lift: the inner subtree of the child is lost.
LiftDrops(t, d) ==
    IF t = Nil \/ t[d] = Nil THEN t
    ELSE [t[d] EXCEPT ![Other(d)] = Measured([t EXCEPT ![d] = Nil]),
                      !.height = HeightOf(t[d][d]) + 1]

\* rotate_right(t) is Lift(t, "left"): the left child comes up.  Its height is
\* taken from its own side, that of the node that sinks from both.
Lift(t, d) ==
    IF t = Nil \/ t[d] = Nil THEN t
    ELSE LET up == t[d]
             sunk == Measured([t EXCEPT ![d] = up[Other(d)]])
         IN  [up EXCEPT ![Other(d)] = sunk, !.height = HeightOf(up[d]) + 1]

\* The two rotations of a child whose own child is on the inner side.
LiftTwice(t, d) == Lift([t EXCEPT ![d] = Lift(t[d], Other(d))], d)

LiftOuter(t, d) == IF t[d][d] = Nil THEN LiftTwice(t, d) ELSE Lift(t, d)

\* Child d is there, and higher than the other one by more than allowed.
High(t, d) == t[d] # Nil /\ t[d].height - HeightOf(t[Other(d)]) > bal

-----------------------------------------------------------------------------
(* Insertion *)

\* On the right, without a left child, it is the node's own height that is
\* compared with the balance factor.
HighAfterInsert(t, d) == IF t.left = Nil /\ d = "right" THEN t.height > bal ELSE High(t, d)

\* What insert_rc makes of t when the call for its subtree d has answered `down`.
\* `side` is the side taken there: the caller sees it as the last two bits of
\* *rc_dir before its own.
Inserted(t, d, down) ==
    LET grown == [t EXCEPT ![d] = down.tree, !.height = down.tree.height + 1]
    IN  [tree |-> IF down.side = "none" \/ ~HighAfterInsert(grown, d) THEN grown
                  ELSE IF down.side = d THEN Lift(grown, d)
                  ELSE LiftTwice(grown, d),
         side |-> d,
         replaced |-> down.replaced]

\* A node replaced shifts nothing.
insert_rc(n, is_set) ==
    LET rc[t \in Trees] ==
            IF t = Nil THEN [tree |-> Leaf(n), side |-> "none", replaced |-> Null]
            ELSE IF KeyOf(t) = Key[n] /\ is_set
            THEN [tree |-> [t EXCEPT !.id = n], side |-> "none", replaced |-> t.id]
            ELSE LET d == IF KeyOf(t) < Key[n] THEN "right" ELSE "left"
                 IN  Inserted(t, d, rc[t[d]])
    IN  rc

-----------------------------------------------------------------------------
(* Deletion *)

\* take_leftmost_rc is take_rc(t, "left"): the outermost node leaves.
take_rc(d) ==
    LET o == Other(d)
        rc[t \in Trees \ {Nil}] ==
            IF t[d] = Nil THEN [tree |-> t[o], leaf |-> t.id]
            ELSE LET less == [t EXCEPT ![d] = rc[t[d]].tree]
                 IN  [tree |-> IF less[o] = Nil THEN Measured(less)
                               ELSE IF High(less, o) THEN Lift(less, o)
                               ELSE less,
                      leaf |-> rc[t[d]].leaf]
    IN  rc

\* Mutant of FillFrom: the wrong end of the subtree is taken.
FillFromFar(t, d) == LET got == take_rc(d)[t[d]]
                     IN  [t EXCEPT !.id = got.leaf, ![d] = got.tree]

\* The root of t is filled from its subtree d.
FillFrom(t, d) == LET got == take_rc(Other(d))[t[d]]
                  IN  [t EXCEPT !.id = got.leaf, ![d] = got.tree]

\* The caller's replacer gave a node, or agreed without giving one.
Replaced(t, r) == IF r = Null THEN t ELSE [t EXCEPT !.id = r]

\* The end of delete_lm_rc for d = left, of delete_rm_rc for d = right.
Settle(t, d) ==
    LET o == Other(d)
        side == IF t[o] # Nil THEN o ELSE d
        new  == IF High(t, side) /\ (side = o \/ t[o] = Nil) THEN LiftOuter(t, side) ELSE t
    IN  IF t.left # Nil /\ t.right # Nil THEN Measured(new)
        ELSE IF t[side] = Nil THEN [t EXCEPT !.height = 1]
        ELSE [new EXCEPT !.height = new[side].height + 1]

delete_end_rc(d, r) ==
    LET rc[t \in Trees] ==
            IF t = Nil THEN [tree |-> Nil, deleted |-> Null]
            ELSE IF t[d] # Nil
            THEN [tree |-> Settle([t EXCEPT ![d] = rc[t[d]].tree], d),
                  deleted |-> rc[t[d]].deleted]
            ELSE [tree |-> IF r # NoReplacer THEN Replaced(t, r)
                           ELSE IF t[Other(d)] = Nil THEN Nil
                           ELSE Settle(FillFrom(t, Other(d)), d),
                  deleted |-> t.id]
    IN  rc

\* What delete_rc makes of t when the call for its subtree d has answered `down`.
Deleted(t, d, down) ==
    LET less == Measured([t EXCEPT ![d] = down.tree])
    IN  [tree |-> IF High(less, Other(d)) THEN LiftOuter(less, Other(d)) ELSE less,
         deleted |-> down.deleted]

delete_rc(k, r) ==
    LET rc[t \in Trees] ==
            IF t = Nil THEN [tree |-> Nil, deleted |-> Null]
            ELSE IF KeyOf(t) # k
            THEN LET d == IF KeyOf(t) > k THEN "left" ELSE "right"
                 IN  Deleted(t, d, rc[t[d]])
            ELSE [tree |-> IF r # NoReplacer THEN Replaced(t, r)
                           ELSE IF t.right # Nil THEN Measured(FillFrom(t, "right"))
                           ELSE IF t.left # Nil THEN Measured(FillFrom(t, "left"))
                           ELSE Nil,
                  deleted |-> t.id]
    IN  rc

-----------------------------------------------------------------------------
(* Readers (base_tree.c) *)

Lookup(k) == LET walk[t \in Trees] == IF t = Nil THEN Null
                                      ELSE IF KeyOf(t) > k THEN walk[t.left]
                                      ELSE IF KeyOf(t) < k THEN walk[t.right]
                                      ELSE t.id
             IN  walk[root]

\* The caller's condition picks the node n; on equal keys the search goes left.
ConditionalLookup(n) ==
    LET walk[t \in Trees] == IF t = Nil THEN Null
                             ELSE IF t.id = n THEN n
                             ELSE IF KeyOf(t) < Key[n] THEN walk[t.right]
                             ELSE walk[t.left]
    IN  walk[root]

calc_size_rc[t \in Trees] ==
    IF t = Nil THEN 0 ELSE 1 + calc_size_rc[t.left] + calc_size_rc[t.right]

\* tree_min goes left, tree_max right, from a node that is there.
Outermost(d) == LET walk[t \in Trees \ {Nil}] == IF t[d] = Nil THEN t.id ELSE walk[t[d]]
                IN  walk[root]

\* The nodes called back so far, and whether a callback broke.
Seen == [nodes : Seq(Nodes), broken : BOOLEAN]

\* tree_for_each: the nodes in the order of their callbacks, of which the one
\* with number `stop` asks to break.
foreach_rc(d, stop) ==
    LET rc[t \in Trees] == [seen \in Seen |->
            IF t = Nil THEN seen
            ELSE LET before == rc[t[d]][seen]
                     own == [nodes  |-> Append(before.nodes, t.id),
                             broken |-> Len(before.nodes) = stop]
                 IN  IF before.broken THEN before
                     ELSE IF own.broken THEN own
                     ELSE rc[t[Other(d)]][own]]
    IN  rc

tree_for_each(d, stop) == foreach_rc(d, stop)[root][ [nodes |-> <<>>, broken |-> FALSE] ].nodes

-----------------------------------------------------------------------------
(* Calls *)

Called(op, arg, ret) == last' = [op |-> op, arg |-> arg, ret |-> ret]
Spare == Nodes \ Contents[root]
Keys  == {Key[n] : n \in Nodes}
With(k) == {n \in Contents[root] : Key[n] = k}

Init == /\ root = Nil
        /\ bal \in Bals
        /\ last = [op |-> "none", arg |-> Null, ret |-> Null]

Insert(n, is_set) ==
    LET done == insert_rc(n, is_set)[root]
    IN  /\ n \in Spare
        /\ root' = done.tree
        /\ UNCHANGED bal
        /\ Called(IF is_set THEN "Set" ELSE "Insert", n, done.replaced)

\* tree_update copies the links, and leaves the height the new node has.
update_rc(n) ==
    LET rc[t \in Trees] ==
            IF t = Nil THEN [tree |-> Nil, old |-> Null]
            ELSE IF KeyOf(t) = Key[n]
            THEN [tree |-> [t EXCEPT !.id = n, !.height = 0], old |-> t.id]
            ELSE LET d == IF Key[n] > KeyOf(t) THEN "right" ELSE "left"
                 IN  [tree |-> [t EXCEPT ![d] = rc[t[d]].tree], old |-> rc[t[d]].old]
    IN  rc

Update(n) == LET done == update_rc(n)[root]
             IN  /\ n \in Spare
                 /\ root' = done.tree
                 /\ UNCHANGED bal
                 /\ Called("Update", n, done.old)

\* What a replacer may do about the nodes of key k: refuse, agree, or give a node.
Replacers(k) == {NoReplacer} \cup {r \in {Null} : MayAgree} \cup {n \in Spare : Key[n] = k}

Deletion(op, done, r, arg) ==
    /\ root' = done.tree
    /\ UNCHANGED bal
    /\ IF r = Null THEN Called(op \o "Keep", arg, done.deleted)
       ELSE Called(op, IF r = NoReplacer THEN arg ELSE r, done.deleted)

DeleteReplace(k) == \E r \in Replacers(k) : Deletion("Delete", delete_rc(k, r)[root], r, k)

DeleteEnd(d, op) ==
    LET k == IF root = Nil THEN Null ELSE Key[Outermost(d)]
    IN  \E r \in Replacers(k) : Deletion(op, delete_end_rc(d, r)[root], r, Null)

\* tree_deleteAll frees in depth; cdsl_avltreeRootInit just drops the nodes.
DeleteAll == root' = Nil /\ UNCHANGED bal /\ Called("DeleteAll", Null, Null)
RootInit(b) == root' = Nil /\ bal' = b /\ Called("DeleteAll", Null, Null)

Next == \/ DeleteAll
        \/ \E b \in Bals : RootInit(b)
        \/ \E n \in Nodes : Insert(n, TRUE) \/ Insert(n, FALSE) \/ Update(n)
        \/ \E k \in Keys : DeleteReplace(k)
        \/ DeleteEnd("left", "DeleteMin") \/ DeleteEnd("right", "DeleteMax")

Spec == Init /\ [][Next]_vars

-----------------------------------------------------------------------------
(* Properties *)

\* "traverse tree" (base_tree.h:100): whatever rotations were made, every node
\* comes once, in the order of the keys; the other order is the reverse, a
\* callback that breaks ends it there, and size, minimum and maximum agree.
Ordered ==
    LET s == tree_for_each("left", -1)
    IN  /\ \A i \in 1 .. Len(s) - 1 : Key[s[i]] <= Key[s[i + 1]]
        /\ Contents[root] = {s[i] : i \in 1 .. Len(s)}
        /\ Cardinality(Contents[root]) = Len(s)
        /\ tree_for_each("right", -1) = [i \in 1 .. Len(s) |-> s[Len(s) + 1 - i]]
        /\ \A stop \in 0 .. Len(s) - 1 : tree_for_each("left", stop) = SubSeq(s, 1, stop + 1)
        /\ calc_size_rc[root] = Len(s)
        /\ root # Nil => Outermost("left") = s[1] /\ Outermost("right") = s[Len(s)]

\* cdsl_avltree.h:191: a key that a node of the tree has is found, and so is,
\* by a condition that only it meets, a node whose key no other node has.
Found ==
    LET alone(n) == \A m \in Contents[root] : Key[m] = Key[n] => m = n
    IN  /\ \A k \in Keys : IF With(k) # {}
                           THEN Lookup(k) \in With(k)
                           ELSE Lookup(k) = Null
        /\ \A n \in Contents[root] : alone(n) => ConditionalLookup(n) = n

\* Each call adds, takes or exchanges the node it should, and answers with it, unless
\* MayAgree: what the code answers then is not what base_tree.h:73 says.
Bag == INSTANCE OrderedBag WITH contents <- Contents[root]
BagSpec == Bag!Spec
=============================================================================
