SPECIFICATION Spec
CONSTANTS
    Texts <- ManyTexts
CHECK_DEADLOCK FALSE
INVARIANTS
    TypeOK
    NothingLost
    TokenSpelled
PROPERTIES
    ReachesEOF
    CommandRead
