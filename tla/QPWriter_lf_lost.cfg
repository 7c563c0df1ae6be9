SPECIFICATION Spec
CONSTANTS
    LineMax = 6
    Inputs <- MCInputs
    Sizes = {1}
    MaxFailures = 0
INVARIANTS
    LineBreakOnce
