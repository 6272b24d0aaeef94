------------------------------ MODULE MCLists ------------------------------
(* Both list libraries for TLC: a behaviour uses one of them. *)
EXTENDS DList, TLC

CONSTANTS n1, n2, n3

VARIABLE library

S == INSTANCE SList

\* Two nodes of equal priority and one above them.
TwoRanks == [n \in Nodes |-> IF n = n2 THEN 1 ELSE 0]

\* The lists are alike, and so are the nodes of equal priority.
Symmetry == Permutations(Lists) \cup Permutations({n1, n3})

\* No step depends on the latest call; what it answers is checked on every step.
Heap == <<library, next, prev, iter>>

MCInit == Init /\ library \in {"cdsl_dlist", "cdsl_slist"}

MCNext == /\ \/ library = "cdsl_dlist" /\ Next
             \/ library = "cdsl_slist" /\ S!Next /\ UNCHANGED prev
          /\ UNCHANGED library

MCSpec == MCInit /\ [][MCNext]_<<vars, library>>

DoublyTwoWays == library = "cdsl_dlist" => TwoWays
SinglyChains  == library = "cdsl_slist" => S!Chains
=============================================================================
