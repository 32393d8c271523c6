SPECIFICATION Spec
CONSTANTS
    Node = {n1, n2, n3, n4}
    Tree = {t1, t2, t3}
    Nil = nil
    Null = null
    Dangling = dangling
    NoTree = none
SYMMETRY Symmetry
CHECK_DEADLOCK FALSE
INVARIANTS
    TypeOK
    SizeCounts
    Shaped
    NoneLeft
    Safe
