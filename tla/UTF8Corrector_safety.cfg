SPECIFICATION FairSpec
CONSTANTS
    BufMax = 4
    Sizes = {0, 1, 3, 6, 7}
    Inputs <- MCInputs
INVARIANTS
    TypeOK
    OwnFits
    NoOverrun
    NoCarry
    OnlyStrayRemoved
    CompleteAtError
PROPERTIES
    DropsOnlyFirst
    ReachesError
