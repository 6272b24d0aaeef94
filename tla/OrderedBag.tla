----------------------------- MODULE OrderedBag -----------------------------
(***************************************************************************)
(* What the search tree promises: a collection of nodes with keys, of      *)
(* which each call adds, takes or exchanges one.  `last` is the latest     *)
(* call and its answer.                                                    *)
(***************************************************************************)
EXTENDS Integers, Sequences

CONSTANTS Nodes,      \* tree nodes
          Key,        \* [Nodes -> Int]
          Null        \* no node

VARIABLES contents, last

vars == <<contents, last>>

Called(op, arg, ret) == last' = [op |-> op, arg |-> arg, ret |-> ret]

With(k)  == {n \in contents : Key[n] = k}
Least    == {n \in contents : \A m \in contents : Key[n] <= Key[m]}
Greatest == {n \in contents : \A m \in contents : Key[n] >= Key[m]}
Spare    == Nodes \ contents

Add(n) == /\ n \in Spare
          /\ contents' = contents \cup {n}
          /\ Called("Insert", n, Null)

\* A node of the same key gives way to n; the answer is that node.
Exchange(op, n) == /\ n \in Spare
                   /\ \E m \in With(Key[n]) : /\ contents' = (contents \ {m}) \cup {n}
                                              /\ Called(op, n, m)

AddAlone(n) == /\ n \in Spare
               /\ With(Key[n]) = {}
               /\ contents' = contents \cup {n}
               /\ Called("Set", n, Null)

NotFound(op, S, arg) == S = {} /\ UNCHANGED contents /\ Called(op, arg, Null)

\* One of S is the answer: it leaves, or a node of its key takes its place.
Take(op, S, arg) == \E m \in S : contents' = contents \ {m} /\ Called(op, arg, m)
Fill(op, S, n)   == \E m \in S : /\ n \in Spare
                                 /\ Key[n] = Key[m]
                                 /\ contents' = (contents \ {m}) \cup {n}
                                 /\ Called(op, n, m)

\* The replacer agreed and gave no node: "the element not found. nothing happen"
\* (base_tree.h:73), whatever was there.
Agreed(op, arg) == UNCHANGED contents /\ Called(op \o "Keep", arg, Null)

Deletion(op, S, arg) == \/ NotFound(op, S, arg)
                        \/ Take(op, S, arg)
                        \/ \E n \in Nodes : Fill(op, S, n) \/ NotFound(op, S, n)
                        \/ Agreed(op, arg)

DeleteAll == contents' = {} /\ Called("DeleteAll", Null, Null)

Init == contents = {} /\ last = [op |-> "none", arg |-> Null, ret |-> Null]

Next == \/ DeleteAll
        \/ \E n \in Nodes : \/ Add(n) \/ AddAlone(n)
                            \/ Exchange("Set", n) \/ Exchange("Update", n)
                            \/ NotFound("Update", With(Key[n]), n)
        \/ \E k \in {Key[n] : n \in Nodes} : Deletion("Delete", With(k), k)
        \/ Deletion("DeleteMin", Least, Null)
        \/ Deletion("DeleteMax", Greatest, Null)

Spec == Init /\ [][Next]_vars
=============================================================================
