CONSTANTS
    ManualProvider = TRUE

SPECIFICATION Spec

PROPERTIES
    RetryIsPossible

CHECK_DEADLOCK FALSE
