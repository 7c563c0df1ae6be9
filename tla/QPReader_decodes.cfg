SPECIFICATION FairSpec
CONSTANTS
    BufSize = 4
    Sizes = {1, 3}
    Streams <- MCStreams
    Endings = {"eof", "fail"}
INVARIANTS
    TypeOK
    DecodesReference
    StrictAccepts
PROPERTIES
    ReachesEnd
