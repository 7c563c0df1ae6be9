SPECIFICATION Spec
CONSTANTS
    BufMax = 8
    Sizes = {6}
    Inputs <- MCLongInputs
INVARIANT OnlyEndOfLineFiltered
