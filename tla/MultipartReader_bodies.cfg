SPECIFICATION FairSpec
CONSTANTS
    PeekSize = 8
    Sizes = {1, 4}
    Streams <- MCStreams
    Endings = {"eof", "fail"}
INVARIANTS
    TypeOK
    BodyExact
PROPERTIES
    BoundaryAccepted
    CheckAgrees
    ReachesEOF
