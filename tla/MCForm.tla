------------------------------- MODULE MCForm -------------------------------
(* Instances of Form for TLC. *)
EXTENDS Form, SequencesExt

Part(named, file, size, f) == [named |-> named, file |-> file, size |-> size, fails |-> f]
MCParts ==
    { Part(TRUE, TRUE, n, FALSE) : n \in {0, 1, 2, 3} } \union { Part(TRUE, TRUE, n, TRUE) : n \in {1, 3} }
    \union { Part(TRUE, FALSE, n, FALSE) : n \in {0, 1, 2} } \union {Part(TRUE, FALSE, 1, TRUE), Part(FALSE, TRUE, 1, FALSE)}

MCLimits == {-1, 0, 2, 3, 7}
MCMessages == [parts : BoundedSeq(MCParts, 3), fails : BOOLEAN]
=============================================================================
