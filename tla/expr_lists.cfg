SPECIFICATION Spec
CONSTANTS
    Expr = {e1, e2, e3, e4}
    Null = Null
    MaxCompounds = 2
SYMMETRY Symmetry
VIEW View
CHECK_DEADLOCK FALSE
INVARIANTS
    TypeOK
    OneOwner
    PipesPaired
    BlocksBracketed
    KeepsAll
    ScopesNest
