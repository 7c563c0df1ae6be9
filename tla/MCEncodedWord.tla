--------------------------- MODULE MCEncodedWord ---------------------------
(* An instance of EncodedWord for TLC. *)
EXTENDS EncodedWord

MCHex   == ("=" :> <<"3", "D">>) @@ ("?" :> <<"3", "F">>) @@ ("_" :> <<"5", "F">>)
           @@ ("b1" :> <<"C", "3">>) @@ ("b2" :> <<"A", "9">>)
MCSixty == ("x" :> "X") @@ ("sp" :> "S") @@ ("=" :> "E") @@ ("?" :> "M") @@ ("_" :> "L") @@ ("b1" :> "Y") @@ ("b2" :> "Z")

Characters == { <<"x">>, <<"sp">>, <<"?">>, <<"b1", "b2">> }
MCStrings ==
    [chars : BoundedSeq(Characters, 5), charset : {"u"}, enc : {"q", "b"}]
    \union [chars : BoundedSeq(Characters, 2), charset : {"z"}, enc : {"q", "b"}]

Piece(kind, text, means) ==
    [kind |-> kind, text |-> text, means |-> means, foreign |-> kind = "word" /\ text[3] = "z"]
Verbatim(kind, text) == Piece(kind, text, text)
WordOf(cs, enc, s)   == Piece("word", Word(cs, enc, s), s)

(* "broken" has the form of a word and cannot be decoded; "stray" has not  *)
(* even its form.                                                          *)
MCPieces ==
    { WordOf("u", "q", <<"b1", "b2", "sp">>), WordOf("u", "b", <<"x">>), WordOf("z", "q", <<"=">>), WordOf("u", "q", <<>>),
      Verbatim("space", <<"sp">>), Verbatim("text", <<"x">>), Verbatim("text", <<"x", "?">>),
      Verbatim("broken", <<"=", "?", "u", "?", "q", "?", "=", "x", "?", "=">>),
      Verbatim("broken", <<"=", "?", "u", "?", "b", "?", "X", "?", "=">>),
      Verbatim("stray", <<"=", "?", "x", "?", "x", "x">>) }
MCHeaders == { [pieces |-> s] : s \in BoundedSeq(MCPieces, 4) }
=============================================================================
