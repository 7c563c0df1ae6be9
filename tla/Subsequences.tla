---------------------------- MODULE Subsequences ----------------------------
(* What is picked from a sequence, as a recursion on its length.            *)
EXTENDS Integers, Sequences

(* The members of q that are in S, in order.                               *)
Only(q, S) ==
    LET first[k \in 0 .. Len(q)] ==
            IF k = 0 THEN <<>>
            ELSE IF q[k] \in S THEN Append(first[k - 1], q[k]) ELSE first[k - 1]
    IN  first[Len(q)]

(* A sequence of numbers that is in order and has none of them twice.       *)
Rising(q) == \A a, b \in DOMAIN q : a < b => q[a] < q[b]
=============================================================================
