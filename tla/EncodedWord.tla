---------------------------- MODULE EncodedWord ----------------------------
(***************************************************************************)
(* encodedword.go: WordEncoder.Encode, one step per character, and         *)
(* WordDecoder.DecodeHeader, one step per turn of its loop, with Decode    *)
(* for a single word.  What has been encoded is then decoded.              *)
(*                                                                         *)
(* Symbols: one per byte, but for the charset: "u" is UTF-8, "z" one that  *)
(* needs a CharsetReader.  "b1" and "b2" are the bytes of a character      *)
(* outside ASCII.  Hex gives the two digits of a byte, Sixty the symbol    *)
(* that stands for it in a base64 text, where three of them make four      *)
(* symbols, filled up with '='.                                            *)
(***************************************************************************)
EXTENDS Integers, Sequences, SequencesExt, FiniteSets, FiniteSetsExt

CONSTANTS
    Strings,            \* what is encoded: characters, charset and encoding
    Headers,            \* what else is decoded: pieces with their meaning
    Readers,            \* CharsetReader: "nil", "reads" or "fails"
    MaxEncodedWordLen,  \* 75 in the code
    Hex, Sixty          \* for the bytes that are written so

(* Room for any one character. *)
ASSUME LenAssumption     == MaxEncodedWordLen \in Nat /\ MaxEncodedWordLen >= 4 + 6 + 2
ASSUME ReadersAssumption == Readers \subseteq {"nil", "reads", "fails"}

(* maxContentLen: the length without "=?UTF-8?" and "?=". *)
MaxContentLen == MaxEncodedWordLen - 4 - 2
MaxBase64Len  == (MaxContentLen \div 4) * 3

VARIABLES
    source,     \* what is encoded, or the header to be decoded
    i,          \* the next character of the string
    currentLen,
    words,      \* the contents of the encoded words so far, before encoding
    charset,    \* CharsetReader of the decoder
    header,     \* what is left to be decoded
    buf,        \* what has been decoded
    betweenWords,
    pc

vars == <<source, i, currentLen, words, charset, header, buf, betweenWords, pc>>

From(s, j) == SubSeq(s, j, Len(s))
Index(s, t) ==
    LET found == { j \in 1 .. Len(s) - Len(t) + 1 : SubSeq(s, j, j + Len(t) - 1) = t }
    IN  IF found = {} THEN 0 ELSE Min(found)

-----------------------------------------------------------------------------
(* Q encoding of bytes: '=', '?', '_' and all but printable ASCII escaped. *)
Escaped   == DOMAIN Hex
QByte(c)  == IF c = "sp" THEN <<"_">> ELSE IF c \in Escaped THEN <<"=">> \o Hex[c] ELSE <<c>>
QText(s)  == FlattenSeq([j \in DOMAIN s |-> QByte(s[j])])

(* base64 *)
BGroup(g) ==
    CASE Len(g) = 3 -> <<Sixty[g[1]], Sixty[g[2]], Sixty[g[3]], "+">>
      [] Len(g) = 2 -> <<Sixty[g[1]], Sixty[g[2]], "+", "=">>
      [] OTHER      -> <<Sixty[g[1]], "+", "=", "=">>
BText(s) ==
    FlattenSeq([k \in 1 .. (Len(s) + 2) \div 3 |-> BGroup(SubSeq(s, 3 * k - 2, Min({3 * k, Len(s)})))])

Text(enc, s) == IF enc = "q" THEN QText(s) ELSE BText(s)

(* openWord, closeWord; splitWord puts a space between two words. *)
Word(cs, enc, s) == <<"=", "?", cs, "?", enc, "?">> \o Text(enc, s) \o <<"?", "=">>
Words(cs, enc, ws) ==
    FlattenSeq([k \in DOMAIN ws |-> (IF k = 1 THEN <<>> ELSE <<"sp">>) \o Word(cs, enc, ws[k])])

-----------------------------------------------------------------------------
(* Decoding a text; "error" is the sign of failure. *)
Invalid  == <<"error">>
Digits   == UNION { Range(Hex[c]) : c \in DOMAIN Hex }
Printable == {"=", "?", "_", "u", "z", "q", "b", "x", "sp", "+"} \union Digits \union Range(Sixty)

QTurn(st, c) ==
    IF st.bad THEN st
    ELSE IF st.hex = <<>> THEN
        (CASE c = "_" -> [st EXCEPT !.out = Append(@, "sp")]
           [] c = "=" -> [st EXCEPT !.hex = <<"=">>]
           [] c \in Printable \ {"_", "="} -> [st EXCEPT !.out = Append(@, c)]
           [] OTHER -> [st EXCEPT !.bad = TRUE])
    ELSE IF c \notin Digits THEN [st EXCEPT !.bad = TRUE]
    ELSE IF Len(st.hex) = 1 THEN [st EXCEPT !.hex = Append(@, c)]
    ELSE [st EXCEPT !.hex = <<>>,
                    !.out = Append(@, CHOOSE d \in DOMAIN Hex : Hex[d] = <<st.hex[2], c>>)]

QDecode(s) ==
    LET st == FoldLeft(QTurn, [out |-> <<>>, hex |-> <<>>, bad |-> FALSE], s)
    IN  IF st.bad \/ st.hex # <<>> THEN Invalid ELSE st.out

BDecode(s) ==
    LET n    == Cardinality({ j \in DOMAIN s : s[j] \notin {"+", "="} })
        from == SelectSeq(s, LAMBDA c : c \notin {"+", "="})
        out  == [j \in 1 .. n |-> CHOOSE c \in DOMAIN Sixty : Sixty[c] = from[j]]
    IN  IF Range(from) \subseteq Range(Sixty) /\ BText(out) = s THEN out ELSE Invalid

DecodeText(enc, s) ==
    CASE enc = "q" -> QDecode(s) [] enc = "b" -> BDecode(s) [] OTHER -> Invalid

(* convert: the charset "z" is left to the CharsetReader. *)
Converts(cs) == cs = <<"u">> \/ charset = "reads"

(* Decode: one word; it looks two bytes behind the first '?' inside, which *)
(* may lie behind the end.                                                 *)
Decode(word) ==
    LET inner == SubSeq(word, 3, Len(word) - 2)
        split == Index(inner, <<"?">>)
    IN  IF Len(word) < 4 \/ SubSeq(word, 1, 2) # <<"=", "?">> \/ From(word, Len(word) - 1) # <<"?", "=">>
           \/ Cardinality({ j \in DOMAIN word : word[j] = "?" }) # 4
        THEN Invalid
        ELSE IF Len(inner) < split + 2 THEN <<"panic">>
        ELSE IF inner[split + 2] # "?" THEN Invalid
        ELSE LET content == DecodeText(inner[split + 1], From(inner, split + 3))
             IN  IF content # Invalid /\ Converts(SubSeq(inner, 1, split - 1)) THEN content ELSE Invalid

-----------------------------------------------------------------------------
IsString == "chars" \in DOMAIN source
Bytes    == FlattenSeq(source.chars)

(* needsEncoding *)
NeedsEncoding(s) == \E j \in DOMAIN s : s[j] \in {"b1", "b2"}

Init ==
    /\ source \in Strings \union Headers /\ charset \in Readers
    /\ i = 1 /\ currentLen = 0 /\ words = <<<<>>>>
    /\ header = (IF IsString THEN Bytes ELSE FlattenSeq([k \in DOMAIN source.pieces |-> source.pieces[k].text]))
    /\ buf = <<>> /\ betweenWords = FALSE
    /\ pc = IF IsString /\ NeedsEncoding(Bytes) THEN "encode" ELSE "decode"

(* qEncode counts what is written, bEncode the bytes that are encoded; a   *)
(* word is begun when a character does not fit any more, but never for     *)
(* another charset than UTF-8 nor for a short base64 text.                 *)
EncLen(c) == IF source.enc = "q" THEN Len(QText(c)) ELSE Len(c)
Room      == IF source.enc = "q" THEN MaxContentLen ELSE MaxBase64Len
Splits    == source.charset = "u" /\ (source.enc = "q" \/ Len(BText(Bytes)) > MaxContentLen)

EncodeFirst ==      \* mutant: of a character only the first byte is counted
    /\ pc = "encode" /\ i <= Len(source.chars) /\ i' = i + 1
    /\ LET c == source.chars[i] IN
       IF Splits /\ currentLen + EncLen(<<c[1]>>) > Room
       THEN words' = Append(words, c) /\ currentLen' = EncLen(c)
       ELSE words' = [words EXCEPT ![Len(words)] = @ \o c] /\ currentLen' = currentLen + EncLen(c)
    /\ UNCHANGED <<source, charset, header, buf, betweenWords, pc>>

EncodeChar ==
    /\ pc = "encode" /\ i <= Len(source.chars) /\ i' = i + 1
    /\ LET c == source.chars[i] IN
       IF Splits /\ currentLen + EncLen(c) > Room
       THEN words' = Append(words, c) /\ currentLen' = EncLen(c)
       ELSE words' = [words EXCEPT ![Len(words)] = @ \o c] /\ currentLen' = currentLen + EncLen(c)
    /\ UNCHANGED <<source, charset, header, buf, betweenWords, pc>>

EncodeEnd ==
    /\ pc = "encode" /\ i > Len(source.chars)
    /\ pc' = "decode" /\ header' = Words(source.charset, source.enc, words)
    /\ UNCHANGED <<source, i, currentLen, words, charset, buf, betweenWords>>

-----------------------------------------------------------------------------
(* DecodeHeader begins at the first "=?"; without one there is nothing to  *)
(* decode.                                                                 *)
Begin ==
    /\ pc = "decode"
    /\ LET first == Index(header, <<"=", "?">>)
           len   == IF first = 0 THEN Len(header) ELSE first - 1
       IN  /\ buf' = SubSeq(header, 1, len) /\ header' = From(header, len + 1)
           /\ pc' = IF first = 0 THEN "done" ELSE "words"
    /\ UNCHANGED <<source, i, currentLen, words, charset, betweenWords>>

(* What looks like an encoded word: where its fields begin. *)
Start  == Index(header, <<"=", "?">>)
Mark   == Index(From(header, Start + 2), <<"?">>)
Enc    == Start + 2 + Mark
Close  == Index(From(header, Enc + 2), <<"?", "=">>)
IsWord == /\ Start # 0 /\ Mark # 0 /\ Len(header) - Enc + 1 >= 4
          /\ header[Enc + 1] = "?" /\ Close # 0
Content == DecodeText(header[Enc], SubSeq(header, Enc + 2, Enc + Close))

(* The loop ends at the first thing that is not even the form of a word,   *)
(* and leaves all that follows as it is.                                   *)
NoWord ==
    /\ pc = "words" /\ ~IsWord
    /\ pc' = "done" /\ buf' = buf \o header
    /\ UNCHANGED <<source, i, currentLen, words, charset, header, betweenWords>>

BadWord ==
    /\ pc = "words" /\ IsWord /\ Content = Invalid
    /\ betweenWords' = FALSE
    /\ buf' = buf \o SubSeq(header, 1, Start + 1) /\ header' = From(header, Start + 2)
    /\ UNCHANGED <<source, i, currentLen, words, charset, pc>>

HasNonWhitespace(s) == \E j \in DOMAIN s : s[j] # "sp"

GapDropped(gap) == IF betweenWords THEN <<>> ELSE gap    \* mutant: whatever is between two words goes

(* White space between two encoded words is deleted. *)
Gap(gap) == IF ~betweenWords \/ HasNonWhitespace(gap) THEN gap ELSE <<>>

GoodWord ==
    /\ pc = "words" /\ IsWord /\ Content # Invalid
    /\ IF Converts(SubSeq(header, Start + 2, Enc - 2))
       THEN /\ buf' = buf \o Gap(SubSeq(header, 1, Start - 1)) \o Content
            /\ header' = From(header, Enc + Close + 3) /\ betweenWords' = TRUE
            /\ UNCHANGED pc
       ELSE pc' = "error" /\ UNCHANGED <<header, buf, betweenWords>>
    /\ UNCHANGED <<source, i, currentLen, words, charset>>

Next == EncodeChar \/ EncodeEnd \/ Begin \/ NoWord \/ BadWord \/ GoodWord

Spec == Init /\ [][Next]_vars

-----------------------------------------------------------------------------
(* No word's content is longer than the limit, none is empty, and each is  *)
(* begun only when the character it begins with had no room in the one     *)
(* before, whichever way the encoding counts.                              *)
WordsFit ==
    IsString /\ NeedsEncoding(Bytes) /\ source.charset = "u" /\ pc # "encode" =>
        /\ \A k \in DOMAIN words : words[k] # <<>> /\ Len(Text(source.enc, words[k])) <= MaxContentLen
        /\ \A k \in 2 .. Len(words) :
               LET c == IF Head(words[k]) = "b1" THEN <<"b1", "b2">> ELSE <<Head(words[k])>>
               IN  Len(Text(source.enc, words[k - 1] \o c)) > MaxContentLen

(* What the pieces of a header mean: a word its content, everything else   *)
(* itself, but for white space between two words; and behind something     *)
(* that only begins like a word ("stray") all is left as it is.            *)
Pieces == source.pieces
Neighbour(k, step) ==
    LET near == IF step < 0 THEN { j \in 1 .. k - 1 : Pieces[j].kind # "space" }
                ELSE { j \in k + 1 .. Len(Pieces) : Pieces[j].kind # "space" }
    IN  IF near = {} THEN "none" ELSE Pieces[IF step < 0 THEN Max(near) ELSE Min(near)].kind
AfterStray(k) == \E j \in 1 .. k - 1 : Pieces[j].kind = "stray"
Meant(k) ==
    IF AfterStray(k) THEN Pieces[k].text
    ELSE IF Pieces[k].kind = "space" /\ Neighbour(k, -1) = "word" /\ Neighbour(k, 1) = "word" THEN <<>>
    ELSE Pieces[k].means

(* What has been encoded decodes to what it was; a header decodes to what  *)
(* it means, no byte of it lost, doubled or out of place; only a charset   *)
(* that cannot be converted is an error; and Decode says of a single word  *)
(* what DecodeHeader says.                                                 *)
HeaderExact ==
    /\ pc = "done" => buf = IF IsString THEN Bytes ELSE FlattenSeq([k \in DOMAIN Pieces |-> Meant(k)])
    /\ pc = "error" => charset # "reads" /\ (IF IsString THEN source.charset = "z" ELSE \E k \in DOMAIN Pieces : Pieces[k].foreign)
    /\ pc = "done" /\ ~IsString /\ Len(Pieces) = 1 =>
           Decode(Pieces[1].text) = IF Pieces[1].kind = "word" THEN buf ELSE Invalid

(* The comment at maxEncodedWordLen: "The maximum length of an             *)
(* encoded-word is 75 characters."  It is missed by the encoding and its   *)
(* '?', which maxContentLen does not count.                                *)
WordLimit ==
    IsString /\ pc = "decode" /\ NeedsEncoding(Bytes) /\ source.charset = "u" =>
        \A k \in DOMAIN words : Len(Word("u", source.enc, words[k])) <= MaxEncodedWordLen

(* DecodeHeader's comment: it "decodes all encoded-words of the given      *)
(* string".                                                                *)
AllDecoded ==
    pc = "done" /\ ~IsString => \A k \in DOMAIN Pieces : Pieces[k].kind = "word" => ~AfterStray(k)
=============================================================================
