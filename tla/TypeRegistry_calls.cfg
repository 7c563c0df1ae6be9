SPECIFICATION Spec
CONSTANTS
    Exts = {".a", ".A", ".b", "a"}
    Dotted = {".a", ".A", ".b"}
    Lower <- MCLower
    MimeTypes <- MCMimeTypes
    Builtin <- MCBuiltin
    Threads = {t1, t2, t3}
    Asked <- MCAsked
    Files <- MCFiles
    MaxCalls = 3
INVARIANTS
    TypeOK
    NoRace
    ListsAgree
PROPERTIES
    Implements
    EveryCallReturns
