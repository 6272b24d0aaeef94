\* Six keys, one of them with two nodes, and two balance factors: trees of depth
\* four, rotations of both kinds on both sides, at the root and below it.
CONSTANTS
    Nodes = {10, 20, 30, 31, 40, 50, 60}
    Key <- Tens
    Null = Null
    NoReplacer = NoReplacer
    Bals = {1, 2}
    MayAgree = FALSE
SPECIFICATION Spec
VIEW Tree
INVARIANTS
    Ordered
    Found
PROPERTIES
    BagSpec
