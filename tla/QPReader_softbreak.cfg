SPECIFICATION Spec
CONSTANTS
    BufSize = 4
    Sizes = {1}
    Streams <- MCFormed
    Endings = {"eof"}
INVARIANT SoftBreakRemoved
