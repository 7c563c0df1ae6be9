------------------------- MODULE MCMultipartReader -------------------------
(* Instances of MultipartReader for TLC. *)
EXTENDS MultipartReader

CRLF == <<"cr", "lf">>
LF   == <<"lf">>

(* Pieces of a body: the ones that come near to a separator. *)
Pieces(eol) == { <<"x">>, <<"cr">>, <<"lf">>, eol, <<"-">>, Dash,
                 eol \o <<"-", "-">>, eol \o Dash \o <<"x">> }
Bodies(eol, max) == { FlattenSeq(s) : s \in BoundedSeq(Pieces(eol), max) }

(* What follows the first body. *)
Tails(eol) ==
    { eol \o DashDash \o eol,
      eol \o DashDash,
      DashDash \o eol,
      <<>>,
      eol \o Dash \o <<"sp">> \o eol \o <<"H", "x">> \o eol \o DashDash \o eol,
      eol \o Dash \o eol \o <<"x", "x">> \o eol \o Dash \o eol,
      Dash \o eol \o <<"H">> \o eol \o Dash }

Messages(pre, eol, max, tails) ==
    { p \o Dash \o eol \o <<"H">> \o b \o t : p \in pre, b \in Bodies(eol, max), t \in tails }

(* Line ends mixed, and lines that only begin like a boundary. *)
OddStreams ==
    Messages({<<>>}, CRLF, 1, { LF \o Dash \o LF \o <<"H">> \o CRLF \o DashDash,
                                CRLF \o Dash \o LF \o <<"H">>,
                                CRLF \o DashDash \o <<"x">> \o CRLF \o Dash \o CRLF })

(* White space behind the boundary that does not fit in the peek buffer. *)
PaddedStreams ==
    Messages({<<>>}, CRLF, 1, { CRLF \o Dash \o <<"sp", "sp">> \o CRLF \o <<"H", "x">> \o CRLF \o DashDash,
                                DashDash \o <<"sp", "sp">> \o CRLF })

MCStreams ==
    Messages({<<>>}, CRLF, 2, Tails(CRLF)) \union Messages({<<"x">> \o LF}, LF, 2, Tails(LF))
    \union Messages({<<"x">> \o CRLF}, CRLF, 1, Tails(CRLF)) \union OddStreams \union PaddedStreams

MCFewStreams ==
    { Dash \o CRLF \o <<"H">> \o b \o t : b \in {<<"x", "-">>, CRLF \o Dash \o <<"x">>}, t \in Tails(CRLF) }
=============================================================================
