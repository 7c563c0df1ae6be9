SPECIFICATION Spec
CONSTANTS
    LineMax = 5
    Inputs <- MCInputs
    Sizes = {1, 4}
    MaxFailures = 1
INVARIANTS
    TypeOK
    LineFits
    InBounds
    NoTrailingWhitespace
    RoundTrip
    ReportedKept
