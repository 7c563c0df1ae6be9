SPECIFICATION Spec
CONSTANTS
    Boundaries = {"b", "c", "bad"}
    Valid = {"b", "c"}
    Random = "r"
    Chunks <- MCChunks
    MaxCalls = 5
    MaxFailures = 1
    PeekSize = 8
    Sizes = {2}
INVARIANTS
    WTypeOK
    RoundTrip
PROPERTIES
    ErrorIsFinal
