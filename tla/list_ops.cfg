SPECIFICATION Spec
CONSTANTS
    Node = {n1, n2, n3}
    Key = {k1, k2, k3}
    nil = nil
    Null = Null
SYMMETRY Symmetry
INVARIANTS
    TypeOK
    Linked
    OneRing
    NoUseAfterFree
    KeysOwned
PROPERTY
    IsDeque
