SPECIFICATION Spec
CONSTANTS
    Headers <- MCHeaders
    NameOrder <- MCNameOrder
INVARIANTS
    MeaningExact
    FaultsTold
    TypeNormal
CHECK_DEADLOCK FALSE
