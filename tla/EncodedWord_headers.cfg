SPECIFICATION Spec
CONSTANTS
    Strings <- MCStrings
    Headers <- MCHeaders
    Readers = {"nil", "reads"}
    MaxEncodedWordLen = 14
    Hex <- MCHex
    Sixty <- MCSixty
INVARIANTS
    WordsFit
    HeaderExact
CHECK_DEADLOCK FALSE
