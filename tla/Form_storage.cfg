SPECIFICATION Spec
CONSTANTS
    Messages <- MCMessages
    MemoryLimits <- MCLimits
    MaxValueBytes = 3
    MaxInt = 7
INVARIANTS
    TypeOK
    NothingLeft
    FormExact
    BudgetsKept
CHECK_DEADLOCK FALSE
