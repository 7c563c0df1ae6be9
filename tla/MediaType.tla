----------------------------- MODULE MediaType -----------------------------
(***************************************************************************)
(* mediatype.go, grammer.go: ParseMediaType as its loop runs, one step per *)
(* turn, and FormatMediaType.  Faults that can be passed over are noted    *)
(* and parsing goes on.                                                    *)
(*                                                                         *)
(* Symbols: "n", "m", "x", "*", digits, "'" and "%" are token characters,  *)
(* "u" is a charset that is understood; "hi" and "wide" are characters     *)
(* outside ASCII, of which FormatMediaType's test of bit 7 finds the one   *)
(* and not the other (U+00E5, U+0100); "esc" is the byte that a %-escape   *)
(* stands for.  Case is left out.                                          *)
(***************************************************************************)
EXTENDS Integers, Sequences, SequencesExt, FiniteSets, FiniteSetsExt

CONSTANTS
    Headers,    \* what is parsed: text, and how it came about
    NameOrder   \* the names of parameters, sorted

Digits     == <<"0", "1", "2">>
TokenChars == {"n", "m", "x", "*", "'", "%", "u", "unknown"} \union Range(Digits)
Chars      == TokenChars \union {"sp", ";", "=", "quote", "bs", "cr", "/", "hi", "wide", "esc"}

ASSUME HeadersAssumption == \A h \in Headers : h.text \in Seq(Chars)

VARIABLES
    header,         \* the header that is parsed
    v,              \* what is left of it
    mediatype,
    params,
    continuation,   \* the parameters with a '*' in their names
    stitched,       \* the base names that have been put together
    errs,           \* the faults noted, all of them recoverable
    pc

vars == <<header, v, mediatype, params, continuation, stitched, errs, pc>>

-----------------------------------------------------------------------------
From(s, j)  == SubSeq(s, j, Len(s))
TrimLeft(s) == LET j == SelectInSeq(s, LAMBDA c : c \notin {"sp", "cr"}) IN IF j = 0 THEN <<>> ELSE From(s, j)
TrimSpace(s) == Reverse(TrimLeft(Reverse(TrimLeft(s))))

(* consumeToken: how much of s is a token *)
TokenLen(s) == LET j == SelectInSeq(s, LAMBDA c : c \notin TokenChars) IN IF j = 0 THEN Len(s) ELSE j - 1
Token(s)    == SubSeq(s, 1, TokenLen(s))
Rest(s)     == From(s, TokenLen(s) + 1)
IsToken(s)  == s # <<>> /\ TokenLen(s) = Len(s)

(* A quoted string, from behind its opening quote. *)
QuotedTurn(st, c) ==
    IF st.state \in {"end", "bad"} THEN st
    ELSE IF st.state = "literal" THEN [out |-> Append(st.out, c), state |-> "in", used |-> st.used + 1]
    ELSE IF c = "quote" THEN [st EXCEPT !.state = "end", !.used = @ + 1]
    ELSE IF c = "bs" THEN [st EXCEPT !.state = "literal", !.used = @ + 1]
    ELSE IF c = "cr" THEN [st EXCEPT !.state = "bad"]
    ELSE [st EXCEPT !.out = Append(@, c), !.used = @ + 1]

(* consumeValue; an empty value is the sign of failure. *)
ConsumeValue(s) ==
    IF s = <<>> \/ s[1] # "quote" THEN [value |-> Token(s), rest |-> Rest(s)]
    ELSE LET q == FoldLeft(QuotedTurn, [out |-> <<>>, state |-> "in", used |-> 0], Tail(s))
         IN  IF q.state = "end" THEN [value |-> q.out, rest |-> From(s, q.used + 2)]
             ELSE [value |-> <<>>, rest |-> s]

(* consumeMediaParam: an empty key is the sign of failure. *)
ConsumeMediaParam(s) ==
    LET t     == TrimLeft(s)
        named == TrimLeft(Tail(t))
        eq    == TrimLeft(Rest(named))
        val   == ConsumeValue(TrimLeft(Tail(eq)))
    IN  IF t # <<>> /\ t[1] = ";" /\ Token(named) # <<>> /\ eq # <<>> /\ eq[1] = "=" /\ val.value # <<>>
        THEN [key |-> Token(named), value |-> val.value, rest |-> val.rest]
        ELSE [key |-> <<>>, value |-> <<>>, rest |-> s]

-----------------------------------------------------------------------------
(* percentHexUnescape: an escape that is none spoils all of the value. *)
EscapeTurn(st, c) ==
    IF st.need = 0 THEN (IF c = "%" THEN [st EXCEPT !.need = 2] ELSE [st EXCEPT !.out = Append(@, c)])
    ELSE IF c \notin Range(Digits) THEN [st EXCEPT !.bad = TRUE]
    ELSE IF st.need = 2 THEN [st EXCEPT !.need = 1]
    ELSE [st EXCEPT !.need = 0, !.out = Append(@, "esc")]

PercentHexUnescape(s) ==
    LET st == FoldLeft(EscapeTurn, [out |-> <<>>, need |-> 0, bad |-> FALSE], s)
    IN  IF st.bad \/ st.need # 0 THEN <<>> ELSE st.out

(* decode2231Enc: charset'language'text *)
Decode2231Enc(s) ==
    LET first  == SelectInSeq(s, LAMBDA c : c = "'")
        second == SelectInSeq(From(s, first + 1), LAMBDA c : c = "'")
    IN  IF first = 0 \/ second = 0 \/ SubSeq(s, 1, first - 1) # <<"u">> THEN <<>>
        ELSE PercentHexUnescape(From(s, first + second + 1))

(* The parameter that the pieces of base give: base* goes before all       *)
(* others; base*0, base*1* ... are put together as far as there is no gap. *)
Star(base)      == Append(base, "*")
Simple(base, n) == Star(base) \o <<Digits[n]>>
Encoded(base, n) == Append(Simple(base, n), "*")
Has(base, n)    == {Simple(base, n), Encoded(base, n)} \intersect DOMAIN continuation # {}
Run(base)       == { n \in DOMAIN Digits : \A k \in 1 .. n : Has(base, k) }

PieceAll(base, n) ==    \* mutant: every encoded piece is taken for one with a charset
    IF Simple(base, n) \in DOMAIN continuation THEN continuation[Simple(base, n)]
    ELSE Decode2231Enc(continuation[Encoded(base, n)])

Piece(base, n) ==
    IF Simple(base, n) \in DOMAIN continuation THEN continuation[Simple(base, n)]
    ELSE IF n = 1 THEN Decode2231Enc(continuation[Encoded(base, n)])
    ELSE PercentHexUnescape(continuation[Encoded(base, n)])

Stitch(base) ==
    IF Star(base) \in DOMAIN continuation THEN Decode2231Enc(continuation[Star(base)])
    ELSE FlattenSeq([n \in 1 .. Cardinality(Run(base)) |-> Piece(base, n)])
Stitches(base) == Star(base) \in DOMAIN continuation \/ Run(base) # {}

BaseName(key) == SubSeq(key, 1, SelectInSeq(key, LAMBDA c : c = "*") - 1)

-----------------------------------------------------------------------------
(* FormatMediaType: the parts of the type and the names must be tokens;    *)
(* a value that is none is quoted, with line ends in it as they are.  The  *)
(* empty text is the sign of failure.                                      *)
Slash(t) == SelectInSeq(t, LAMBDA c : c = "/")
IsType(t) ==
    IF Slash(t) = 0 THEN IsToken(t) ELSE IsToken(SubSeq(t, 1, Slash(t) - 1)) /\ IsToken(From(t, Slash(t) + 1))

Quoted(val) ==
    <<"quote">> \o FlattenSeq([j \in DOMAIN val |-> IF val[j] \in {"quote", "bs"} THEN <<"bs", val[j]>> ELSE <<val[j]>>])
    \o <<"quote">>

FormatMediaType(t, ps) ==
    LET attrs == SelectSeq(NameOrder, LAMBDA a : a \in DOMAIN ps)
        Attr(a) == <<";", "sp">> \o a \o <<"=">> \o (IF IsToken(ps[a]) THEN ps[a] ELSE Quoted(ps[a]))
    IN  IF ~IsType(t) \/ \E a \in DOMAIN ps : ~IsToken(a) \/ "hi" \in Range(ps[a]) THEN <<>>
        ELSE t \o FlattenSeq([j \in DOMAIN attrs |-> Attr(attrs[j])])

-----------------------------------------------------------------------------
Init ==
    /\ header \in Headers
    /\ v = header.text
    /\ mediatype = <<>> /\ params = <<>> /\ continuation = <<>>
    /\ stitched = {} /\ errs = {} /\ pc = "type"

LossyTypeKept(s) ==     \* mutant: faults are noted and not mended
    [type |-> s, errs |-> IF IsType(s) THEN {} ELSE {"unexpected content"}]

(* lossyCheckMediaTypeDisposition: what can be saved of the type, and the  *)
(* fault if there is one.                                                  *)
LossyType(s) ==
    LET typ == Token(s)
        sub == Token(Tail(Rest(s)))
        end == Rest(Tail(Rest(s)))
    IN  IF typ = <<>> THEN [type |-> <<"unknown">>, errs |-> {"no media type"}]
        ELSE IF Rest(s) = <<>> THEN [type |-> typ, errs |-> {}]
        ELSE IF Rest(s)[1] # "/" THEN [type |-> typ \o <<"/", "unknown">>, errs |-> {"no slash"}]
        ELSE IF sub = <<>> THEN [type |-> typ \o <<"/", "unknown">>, errs |-> {"token slash"}]
        ELSE [type |-> typ \o <<"/">> \o sub, errs |-> IF end # <<>> THEN {"unexpected content"} ELSE {}]

CheckType ==
    /\ pc = "type" /\ v # <<>>
    /\ LET i == SelectInSeq(v \o <<";">>, LAMBDA c : c = ";")
           t == LossyType(TrimSpace(SubSeq(v, 1, i - 1)))
       IN  mediatype' = t.type /\ errs' = t.errs /\ v' = From(v, i)
    /\ pc' = "params"
    /\ UNCHANGED <<header, params, continuation, stitched>>

(* The one error that is not recoverable: no map is returned. *)
NoMediaType ==
    /\ pc = "type" /\ v = <<>>
    /\ pc' = "failed"
    /\ UNCHANGED <<header, v, mediatype, params, continuation, stitched, errs>>

With(f, k, x) == [j \in DOMAIN f \union {k} |-> IF j = k THEN x ELSE f[j]]

(* One parameter more; of two with one name the first is kept. *)
Param ==
    LET p == ConsumeMediaParam(v) IN
    /\ pc = "params" /\ p.key # <<>> /\ v' = p.rest
    /\ IF p.key \in DOMAIN params \union DOMAIN continuation
       THEN errs' = errs \union {"duplicate"} /\ UNCHANGED <<params, continuation>>
       ELSE /\ UNCHANGED errs
            /\ IF "*" \in Range(p.key)
               THEN continuation' = With(continuation, p.key, p.value) /\ UNCHANGED params
               ELSE params' = With(params, p.key, p.value) /\ UNCHANGED continuation
    /\ UNCHANGED <<header, mediatype, stitched, pc>>

NoMoreParams ==
    /\ pc = "params" /\ TrimLeft(v) = <<>>
    /\ pc' = "stitch" /\ v' = <<>>
    /\ UNCHANGED <<header, mediatype, params, continuation, stitched, errs>>

NotAParam == pc = "params" /\ TrimLeft(v) # <<>> /\ ConsumeMediaParam(v).key = <<>>

(* Both returns leave the continuations as they are. *)
TrailingSemicolon ==
    /\ NotAParam /\ TrimSpace(v) = <<";">>
    /\ pc' = "done"
    /\ UNCHANGED <<header, v, mediatype, params, continuation, stitched, errs>>

InvalidUntold ==    \* mutant: what is no parameter ends the header like a semicolon
    /\ NotAParam /\ TrimSpace(v) # <<";">>
    /\ pc' = "done"
    /\ UNCHANGED <<header, v, mediatype, params, continuation, stitched, errs>>

InvalidParam ==
    /\ NotAParam /\ TrimSpace(v) # <<";">>
    /\ pc' = "done" /\ errs' = errs \union {"invalid"}
    /\ UNCHANGED <<header, v, mediatype, params, continuation, stitched>>

Bases == { BaseName(key) : key \in DOMAIN continuation }

(* The base names come in the order of a map, that is in any. *)
StitchOne ==
    /\ pc = "stitch"
    /\ \E base \in Bases \ stitched :
           /\ stitched' = stitched \union {base}
           /\ params' = IF Stitches(base) THEN With(params, base, Stitch(base)) ELSE params
    /\ UNCHANGED <<header, v, mediatype, continuation, errs, pc>>

Return ==
    /\ pc = "stitch" /\ Bases = stitched
    /\ pc' = "done"
    /\ UNCHANGED <<header, v, mediatype, params, continuation, stitched, errs>>

Next ==
    \/ CheckType \/ NoMediaType \/ Param \/ NoMoreParams \/ TrailingSemicolon \/ InvalidParam
    \/ StitchOne \/ Return

Spec == Init /\ [][Next]_vars

-----------------------------------------------------------------------------
(* What a header means, said of the parameters it was made of: each has a  *)
(* base name, a form ("plain", "all" for base*, or the number of a piece,  *)
(* encoded or not), and the text it stands for.                            *)
Items        == header.items
FirstOf(set) == Items[Min({ k \in DOMAIN Items : Items[k] \in set })].means
InForm(base, form) == { it \in Range(Items) : it.base = base /\ it.form = form }
PieceForms(base, n) == { f \in {"simple", "encoded"} : InForm(base, <<f, n>>) # {} }
MeantPiece(base, n) == FirstOf(InForm(base, <<IF "simple" \in PieceForms(base, n) THEN "simple" ELSE "encoded", n>>))
Gapless(base) == { n \in DOMAIN Digits : \A k \in 1 .. n : PieceForms(base, k) # {} }
MeantBases == { it.base : it \in { it \in Range(Items) : it.form \in {<<"plain">>, <<"all">>} \/ Gapless(it.base) # {} } }
Meant ==
    [base \in MeantBases |->
        IF InForm(base, <<"all">>) # {} THEN FirstOf(InForm(base, <<"all">>))
        ELSE IF Gapless(base) # {} THEN FlattenSeq([n \in 1 .. Cardinality(Gapless(base)) |-> MeantPiece(base, n)])
        ELSE FirstOf(InForm(base, <<"plain">>))]
Pieces == { it \in Range(Items) : it.form # <<"plain">> }

(* The map that is returned holds what was meant, whatever the order of    *)
(* the parameters, of the pieces of a continuation and of the map they are *)
(* kept in, however values are quoted and spaced; what FormatMediaType has *)
(* written comes back as it was.  (Behind a trailing semicolon or a fault  *)
(* only if there are no continuations: see TrailingIgnored.)               *)
MeaningExact == pc = "done" /\ (header.tail = "none" \/ Pieces = {}) => params = Meant

(* The faults noted are those that are there: a name given twice, a fault  *)
(* of the type, and something behind the parameters that is none; an empty *)
(* header, and nothing else, is beyond recovery.                           *)
Twice == \E j, k \in DOMAIN Items : j # k /\ Items[j].base = Items[k].base /\ Items[j].form = Items[k].form
FaultsTold ==
    /\ pc = "failed" => header.text = <<>>
    /\ pc = "done" =>
           /\ "duplicate" \in errs <=> Twice
           /\ "invalid" \in errs <=> header.tail = "junk"
           /\ errs \ {"duplicate", "invalid"} = {} <=> IsType(header.type)

(* The type that is returned is always one that checkMediaTypeDisposition  *)
(* finds in order, and one that was in order is returned as it was.        *)
TypeNormal ==
    pc = "done" => IsType(mediatype) /\ (IsType(header.type) => mediatype = header.type)

(* The comment at the return: "Ignore trailing semicolons. Not an error."  *)
TrailingIgnored == pc = "done" /\ header.tail = "semicolon" => params = Meant
=============================================================================
