-------------------------- MODULE MCUTF8Corrector --------------------------
(* Instances of UTF8Corrector for TLC. *)
EXTENDS UTF8Corrector

Pad(k) == [j \in 1 .. k |-> "other"]
Conts(k) == [j \in 1 .. k |-> "cont"]
Eols == {<<>>, <<"lf">>, <<"cr">>, <<"cr", "lf">>, <<"lf", "lf">>}

(* A character cut by an end of line, with every short continuation: the   *)
(* padding moves it across the end of a slice.                             *)
Cut(pads, conts, tails) ==
    { Pad(a) \o <<"lead">> \o Conts(b) \o e \o Conts(c) \o t :
        a \in pads, b \in 0 .. 3, e \in Eols, c \in conts, t \in tails }

MCInputs == BoundedSeq(Classes, 4) \union Cut({0, 5}, {0, 1, 3}, BoundedSeq(Classes, 1))
MCSmallInputs == BoundedSeq(Classes, 4)
MCLongInputs == Cut({5}, {0}, {<<"other", "other">>})
=============================================================================
