---------------------------- MODULE MCMediaType ----------------------------
(* Instances of MediaType for TLC: headers put together from parameters,   *)
(* and headers that FormatMediaType writes.                                *)
EXTENDS MediaType

N == <<"n">>
M == <<"m">>

(* A parameter: its name, how its value is written, what it stands for. *)
Item(base, form, name, text, means) ==
    [base |-> base, form |-> form, name |-> name, text |-> text, means |-> means]
PlainItem(base, text, means) == Item(base, <<"plain">>, base, text, means)

CharsetText == <<"u", "'", "'", "%", "0", "1", "x">>
MCItems ==
    { PlainItem(N, <<"x">>, <<"x">>), PlainItem(M, Quoted(<<"quote", "sp", ";">>), <<"quote", "sp", ";">>),
      Item(N, <<"all">>, Star(N), CharsetText, <<"esc", "x">>),
      Item(N, <<"all">>, Star(N), <<"x", "x">>, <<>>),
      Item(N, <<"simple", 1>>, Simple(N, 1), <<"quote", "'", "quote">>, <<"'">>),
      Item(N, <<"encoded", 1>>, Encoded(N, 1), CharsetText, <<"esc", "x">>),
      Item(N, <<"simple", 2>>, Simple(N, 2), <<"m">>, <<"m">>),
      Item(N, <<"encoded", 2>>, Encoded(N, 2), <<"%", "0", "1">>, <<"esc">>),
      Item(N, <<"encoded", 3>>, Encoded(N, 3), <<"n", "%", "0">>, <<>>),
      Item(M, <<"simple", 1>>, Simple(M, 1), <<"n">>, <<"n">>) }

Lists == BoundedSeq(MCItems, 3)

Tails == [none |-> <<>>, semicolon |-> <<"sp", ";", "sp">>, junk |-> <<";", "sp", "x">>]
Types == { <<"x", "/", "m">>, <<"x">>, <<"sp", "x", "/">>, <<"x", "/", "m", "sp", "x">>, <<"x", "sp">>, <<"x", "=">>, <<"sp">>, <<>> }
Rendered(type, items, tail, space) ==
    [type |-> TrimSpace(type), items |-> items, tail |-> tail,
     text |-> type \o FlattenSeq([k \in DOMAIN items |->
                  <<";">> \o space \o items[k].name \o space \o <<"=">> \o space \o items[k].text]) \o Tails[tail]]

MCNameOrder == <<M, N>>
Texts == { <<"x">>, <<"sp", "bs", "x">>, <<"quote">>, <<";", "n", "=", "x">>, <<"hi">>, <<"wide", "sp">>, <<"%", "bs">> }
Maps == UNION { [names -> Texts] : names \in SUBSET {M, N} }
ItemsOf(ps) == LET attrs == SelectSeq(MCNameOrder, LAMBDA a : a \in DOMAIN ps)
               IN  [k \in DOMAIN attrs |-> PlainItem(attrs[k], ps[attrs[k]], ps[attrs[k]])]
Formatted ==
    { [type |-> t, items |-> ItemsOf(ps), tail |-> "none", text |-> FormatMediaType(t, ps)] :
          t \in { <<"x", "/", "m">>, <<"n">> }, ps \in { ps \in Maps : FormatMediaType(<<"n">>, ps) # <<>> } }

MCHeaders ==
    { Rendered(<<"x", "/", "m">>, items, tail, <<>>) : items \in Lists, tail \in DOMAIN Tails }
    \union { Rendered(type, <<it>>, tail, <<"sp">>) : type \in Types, it \in MCItems, tail \in DOMAIN Tails }
    \union { Rendered(<<>>, <<>>, "none", <<>>) }
    \union Formatted
=============================================================================
