---------------------------- MODULE MCQPReader ----------------------------
(* Instances of QPReader for TLC. *)
EXTENDS QPReader

Pieces == { <<"=", "A", "F">>, <<"=", "cr", "lf">>, <<"=", "lf">>, <<"cr", "lf">>, <<"x">>, <<"F">> }

(* What an encoder writes, of any line length. *)
MCFormed == { FlattenSeq(s) : s \in BoundedSeq(Pieces, 4) }

(* Every short stream, well formed or not; some are longer than a buffer   *)
(* of four bytes.                                                          *)
MCStreams ==
    MCFormed \union BoundedSeq({"=", "A", "sp", "cr", "lf"}, 4) \union BoundedSeq({"=", "x", "8", "lf"}, 4)
             \union BoundedSeq({"=", "A", "lf"}, 5)
=============================================================================
