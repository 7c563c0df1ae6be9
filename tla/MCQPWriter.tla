----------------------------- MODULE MCQPWriter -----------------------------
(* Instances of QPWriter for TLC. *)
EXTENDS QPWriter

(* Every short text, and texts long enough for several lines. *)
MCInputs ==
    BoundedSeq(Classes, 4) \union
    { [j \in 1 .. a |-> "plain"] \o s \o t : a \in {0, 2}, s \in SeqOf({"plain", "ws", "special"}, 3),
                                            t \in { <<>>, <<"cr", "lf">>, <<"lf", "ws">>, <<"special", "cr">> } }
=============================================================================
