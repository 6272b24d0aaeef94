\* Two lists of three nodes: each call is made of empty lists, of lists of one
\* node and of longer ones, with nodes that come from either list.
CONSTANTS
    n1 = n1
    n2 = n2
    n3 = n3
    Nodes = {n1, n2, n3}
    Lists = {l1, l2}
    Null = Null
    Prio <- TwoRanks
SPECIFICATION MCSpec
VIEW Heap
SYMMETRY Symmetry
INVARIANTS
    DoublyTwoWays
    SinglyChains
PROPERTIES
    ListSpec
