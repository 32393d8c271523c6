SPECIFICATION Spec
CONSTANTS
    Texts <- ShortTexts
CHECK_DEADLOCK FALSE
PROPERTIES
    ParseReturns
