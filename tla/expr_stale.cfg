SPECIFICATION Spec
CONSTANTS
    Expr = {e1, e2}
    Null = Null
    MaxCompounds = 1
CHECK_DEADLOCK FALSE
INVARIANTS
    DestroyedOnce
