------------------------------ MODULE QPReader ------------------------------
(***************************************************************************)
(* quotedprintable/reader.go: the quoted-printable decoder.  It takes a    *)
(* line at a time out of a bufio.Reader; of a line longer than the buffer  *)
(* it gets pieces, without being told where the line ends, and keeps an    *)
(* escape that a piece cuts in the array prev until the next piece comes.  *)
(*                                                                         *)
(* A byte is its position in the stream.  Two hexadecimal digits, "A" and  *)
(* "F", stand for all; "8" is a byte that must not occur unescaped.        *)
(***************************************************************************)
EXTENDS Integers, Sequences, SequencesExt, Subsequences

CONSTANTS
    BufSize,    \* the size of br, 4096 in the code
    Sizes,      \* the lengths of the slices passed to Read
    Streams,    \* what the source may hold
    Endings     \* how it may end: "eof" or "fail"

Symbols == {"=", "A", "F", "x", "8", "sp", "cr", "lf"}
HexDigits == {"A", "F"}
Space == {"sp", "cr", "lf"}     \* isQPDiscardWhitespace

MaxQPBuf == 3                   \* "=" and two digits

ASSUME BufSizeAssumption == BufSize \in Nat \ {0}
ASSUME SizesAssumption   == Sizes \subseteq Nat
ASSUME StreamsAssumption == Streams \subseteq Seq(Symbols) /\ Endings \subseteq {"eof", "fail"}

VARIABLES
    stream,     \* all that the source will deliver
    ending,     \* what it says after that
    strict,     \* the reader is from NewStrictReader
    at,         \* how many bytes br has handed out
    line,       \* r.line
    full,       \* r.rerr is bufio.ErrBufferFull
    prev,       \* r.prev
    lo, hi,     \* r.last is prev[lo:hi]
    first,      \* r.gerr.errs[0]: the first error that can be ignored
    err,        \* r.gerr.err
    pc,         \* where the call of Read is
    room,       \* len(p)
    ret,        \* the error of the last call
    out,        \* what has been stored: <<j>> for byte j as it is, and
                \* <<j, k>> for the byte whose digits are bytes j and k
    cuts        \* where ReadSlice has cut a line that is too long

source == <<stream, ending, strict>>
reader == <<at, line, full, first, err>>
pending == <<prev, lo, hi>>
vars == <<source, reader, pending, pc, room, ret, out, cuts>>

Init ==
    /\ stream \in Streams /\ ending \in Endings /\ strict \in BOOLEAN
    /\ at = 0 /\ line = <<>> /\ full = FALSE
    /\ prev = [k \in 0 .. 3 |-> 0] /\ lo = 0 /\ hi = 0
    /\ first = "nil" /\ err = "nil"
    /\ pc = "idle" /\ room = 0 /\ ret = "nil" /\ out = <<>> /\ cuts = {}

-----------------------------------------------------------------------------
(* The bytes at a sequence of positions. *)
Bytes(s) == [j \in DOMAIN s |-> stream[s[j]]]
Rest == [j \in 1 .. Len(stream) - at |-> at + j]

(* readHexByte succeeds on v. *)
IsHex(v) == Len(v) >= 2 /\ stream[v[1]] \in HexDigits /\ stream[v[2]] \in HexDigits

FnFirst == first        \* mutant: errors of the source are forgotten

(* errs[0] is set once; NewReader's Fn does not look at it. *)
AddError(e) == first' = IF first = "nil" THEN e ELSE first
Fn == IF strict /\ first # "nil" THEN first ELSE err

TrimNone(s) == s        \* mutant: white space stays

TrimRight(s) ==
    LET j == SelectLastInSeq(s, LAMBDA b : stream[b] \notin Space) IN SubSeq(s, 1, j)

EndsLine(s, eol) == IsSuffix(eol, Bytes(s))
StartsLineLF(s) == IsPrefix(<<"lf">>, Bytes(s))     \* mutant: CR LF is no line end
StartsLine(s) == IsPrefix(<<"lf">>, Bytes(s)) \/ IsPrefix(<<"cr", "lf">>, Bytes(s))

Lasting == hi - lo      \* len(r.last)

(* mutant: counts the digits, not the byte *)
EmitDigits(what) == out' = Append(out, what) /\ room' = room - Len(what)

Emit(what) == out' = Append(out, what) /\ room' = room - 1

-----------------------------------------------------------------------------
Read(k) ==
    /\ pc = "idle"
    /\ pc' = "loop" /\ room' = k /\ ret' = "nil"
    /\ UNCHANGED <<source, reader, pending, out, cuts>>

Return ==
    /\ pc = "loop" /\ room = 0
    /\ pc' = "idle"
    /\ UNCHANGED <<source, reader, pending, room, ret, out, cuts>>

(* An error is returned, after as much of last as there is room for. *)
ReturnError ==
    /\ pc = "loop" /\ room > 0 /\ line = <<>> /\ Fn # "nil"
    /\ LET n == IF Lasting < room THEN Lasting ELSE room
       IN  /\ out' = out \o [j \in 1 .. n |-> <<prev[lo + j - 1]>>]
           /\ lo' = lo + n /\ room' = room - n
    /\ ret' = Fn /\ pc' = "ended"
    /\ UNCHANGED <<source, reader, prev, hi, cuts>>

Fetching == pc = "loop" /\ room > 0 /\ line = <<>> /\ Fn = "nil"

FirstLF == SelectInSeq(Rest, LAMBDA b : stream[b] = "lf")

(* ReadSlice returns ErrBufferFull: the piece is taken as it is. *)
FetchPiece ==
    /\ Fetching /\ FirstLF \notin 1 .. BufSize /\ Len(Rest) >= BufSize
    /\ line' = SubSeq(Rest, 1, BufSize) /\ at' = at + BufSize
    /\ full' = TRUE /\ AddError("full") /\ cuts' = cuts \union {at'}
    /\ UNCHANGED <<source, err, pending, pc, room, ret, out>>

(* A line, or what is left: white space at its end goes, and then one "="; *)
(* if none is there, the end of line comes back.  When what is left just   *)
(* fills the buffer, the source may give its error with it or later.       *)
Decoded(whole) ==
    LET trimmed  == TrimRight(whole)
        stripped == SubSeq(whole, Len(trimmed) + 1, Len(whole))
        eol      == IF EndsLine(whole, <<"cr", "lf">>) THEN 2
                    ELSE IF EndsLine(whole, <<"lf">>) THEN 1 ELSE 0
    IN  IF EndsLine(trimmed, <<"=">>)
        THEN [line |-> SubSeq(trimmed, 1, Len(trimmed) - 1), bad |-> ~StartsLine(stripped)]
        ELSE [line |-> trimmed \o SubSeq(whole, Len(whole) - eol + 1, Len(whole)), bad |-> FALSE]

(* The line that ReadSlice returns: with its "\n", or all that is left. *)
Whole == SubSeq(Rest, 1, IF FirstLF # 0 THEN FirstLF ELSE Len(Rest))

FetchLine ==
    /\ Fetching
    /\ FirstLF \in 1 .. BufSize \/ Len(Rest) <= BufSize
    /\ \E whole \in {Whole} : \E decoded \in {Decoded(whole)} :
           /\ line' = decoded.line /\ at' = at + Len(whole)
           /\ IF decoded.bad THEN AddError("softbreak") ELSE UNCHANGED first
    /\ err' = IF FirstLF = 0 THEN ending ELSE err
    /\ full' = FALSE
    /\ UNCHANGED <<source, pending, pc, room, ret, out, cuts>>

-----------------------------------------------------------------------------
Decoding == pc = "loop" /\ room > 0 /\ line # <<>>
AtEscape == Lasting > 0 /\ stream[prev[lo]] = "="

(* The "=" at the end of the last piece was a soft line break. *)
SoftBreak ==
    /\ Decoding /\ AtEscape /\ Lasting = 1 /\ StartsLine(line)
    /\ line' = SubSeq(line, IF stream[line[1]] = "lf" THEN 2 ELSE 3, Len(line))
    /\ lo' = 0 /\ hi' = 0
    /\ UNCHANGED <<source, at, full, first, err, prev, pc, room, ret, out, cuts>>

SaveOne ==
    /\ Decoding /\ AtEscape /\ Lasting = 1 /\ ~StartsLine(line) /\ Len(line) < 2
    /\ prev' = [prev EXCEPT ![1] = line[1]] /\ lo' = 0 /\ hi' = 2
    /\ line' = Tail(line)
    /\ UNCHANGED <<source, at, full, first, err, pc, room, ret, out, cuts>>

(* last is filled up to three bytes, from the start of prev. *)
Join ==
    /\ Decoding /\ AtEscape
    /\ Lasting = 1 => ~StartsLine(line) /\ Len(line) >= 2
    /\ LET n      == MaxQPBuf - Lasting
           joined == [k \in 0 .. 3 |-> IF k \in Lasting .. MaxQPBuf - 1
                                       THEN line[k - Lasting + 1] ELSE prev[k]]
           digits == <<joined[1], joined[2]>>
       IN  /\ prev' = joined /\ line' = SubSeq(line, n + 1, Len(line))
           /\ hi' = MaxQPBuf
           /\ IF IsHex(digits)
              THEN Emit(digits) /\ lo' = MaxQPBuf /\ UNCHANGED first
              ELSE Emit(<<joined[0]>>) /\ lo' = 1 /\ AddError("hex")
    /\ UNCHANGED <<source, at, full, err, pc, ret, cuts>>

Flush ==
    /\ Decoding /\ Lasting > 0 /\ ~AtEscape
    /\ Emit(<<prev[lo]>>) /\ lo' = lo + 1
    /\ UNCHANGED <<source, reader, prev, hi, pc, ret, cuts>>

Escaped == Decoding /\ Lasting = 0 /\ stream[line[1]] = "="

Escape ==
    /\ Escaped /\ IsHex(Tail(line))
    /\ Emit(<<line[2], line[3]>>) /\ line' = SubSeq(line, 4, Len(line))
    /\ UNCHANGED <<source, at, full, first, err, pending, pc, ret, cuts>>

(* The piece ends inside an escape, it may be. *)
Save ==
    /\ Escaped /\ Len(line) < 3 /\ full
    /\ prev' = [k \in 0 .. 3 |-> IF k < Len(line) THEN line[k + 1] ELSE prev[k]]
    /\ lo' = 0 /\ hi' = Len(line) /\ line' = <<>>
    /\ UNCHANGED <<source, at, full, first, err, pc, room, ret, out, cuts>>

BadEscape ==
    /\ Escaped /\ ~IsHex(Tail(line)) /\ ~(Len(line) < 3 /\ full)
    /\ Emit(<<line[1]>>) /\ line' = Tail(line) /\ AddError("hex")
    /\ UNCHANGED <<source, at, full, err, pending, pc, ret, cuts>>

Literal ==
    /\ Decoding /\ Lasting = 0 /\ stream[line[1]] # "="
    /\ Emit(<<line[1]>>) /\ line' = Tail(line)
    /\ IF stream[line[1]] = "8" THEN AddError("byte") ELSE UNCHANGED first
    /\ UNCHANGED <<source, at, full, err, pending, pc, ret, cuts>>

(* The caller stops at the first error. *)
Stopped == pc = "ended" /\ UNCHANGED vars

Loop ==
    \/ Return \/ ReturnError \/ FetchPiece \/ FetchLine
    \/ SoftBreak \/ SaveOne \/ Join \/ Flush
    \/ Escape \/ Save \/ BadEscape \/ Literal

Next == (\E k \in Sizes : Read(k)) \/ Loop \/ Stopped

Spec == Init /\ [][Next]_vars

(* The caller reads until an error, and a call that has begun goes on. *)
FairSpec == Spec /\ WF_vars(Next)

-----------------------------------------------------------------------------
(* What a stream decodes to, said position by position of the whole of it. *)
Is(j, s) == j \in DOMAIN stream /\ stream[j] \in s

(* j is among the white space at the end of a line, or of the stream. *)
Trailing(j) ==
    \E e \in j .. Len(stream) :
        /\ \A l \in j .. e : stream[l] \in Space
        /\ stream[e] = "lf" \/ e = Len(stream)
        /\ \A l \in j .. e - 1 : stream[l] # "lf"

(* j is the end of line itself. *)
LineEnd(j) == Is(j, {"lf"}) \/ (Is(j, {"cr"}) /\ Is(j + 1, {"lf"}))

(* The "=" at j is the last of its line. *)
Soft(j) == Is(j, {"="}) /\ (j = Len(stream) \/ Trailing(j + 1))

(* j belongs to the white space behind such a "=". *)
AfterSoft(j) ==
    \E k \in 1 .. j - 1 : Soft(k) /\ \A l \in k + 1 .. j : Is(l, Space) /\ (l < j => ~Is(l, {"lf"}))

Escapes(j) == Is(j, {"="}) /\ Is(j + 1, HexDigits) /\ Is(j + 2, HexDigits)

Stays(j) ==
    /\ ~Soft(j) /\ ~AfterSoft(j)
    /\ Trailing(j) => LineEnd(j)
    /\ ~Escapes(j - 1) /\ ~Escapes(j - 2)

Reference ==
    LET stays == Only([j \in DOMAIN stream |-> j], { j \in DOMAIN stream : Stays(j) })
    IN  [j \in DOMAIN stays |-> IF Escapes(stays[j]) THEN <<stays[j] + 1, stays[j] + 2>>
                                ELSE <<stays[j]>>]

(* Every "=" is an escape or a soft line break, no white space ends a      *)
(* line, and the stream does not end with a "=".                           *)
WellFormed ==
    \A j \in DOMAIN stream :
        /\ Is(j, {"="}) => Escapes(j) \/ (Soft(j) /\ LineEnd(j + 1))
        /\ Trailing(j) => LineEnd(j)

(* A piece ends between the CR and the LF of a soft line break. *)
BreakCut == \E j \in cuts : Is(j, {"cr"}) /\ Is(j - 1, {"="}) /\ Is(j + 1, {"lf"})

TypeOK ==
    /\ stream \in Seq(Symbols) /\ ending \in {"eof", "fail"} /\ strict \in BOOLEAN
    /\ at \in 0 .. Len(stream)
    /\ line \in Seq(1 .. at) /\ full \in BOOLEAN
    /\ prev \in [0 .. 3 -> 0 .. at]
    /\ lo \in 0 .. hi /\ hi \in 0 .. MaxQPBuf
    /\ first \in {"nil", "full", "softbreak", "hex", "byte"}
    /\ err \in {"nil", "eof", "fail"}
    /\ pc \in {"idle", "loop", "ended"} /\ room \in Nat
    /\ ret \in {"nil", "eof", "fail", "full", "softbreak", "hex", "byte"}
    /\ out \in Seq(Seq(1 .. at)) /\ cuts \subseteq 1 .. at

(* The decoder delivers what the stream decodes to, whatever the sizes of  *)
(* the caller's slices: always if no line is longer than the buffer, and   *)
(* for a well-formed stream wherever the buffer cuts it, unless it cuts    *)
(* the line end of a soft line break.  (The strict reader gives up where   *)
(* the buffer cuts.)  At io.EOF all of it is delivered.                    *)
DecodesReference ==
    cuts = {} \/ (WellFormed /\ ~BreakCut /\ ~strict) =>
        /\ IsPrefix(out, Reference)
        /\ pc = "ended" /\ ret = ending => out = Reference

(* The strict reader has no complaint about a well-formed stream whose     *)
(* lines fit in the buffer.                                                *)
StrictAccepts ==
    pc = "ended" /\ cuts = {} /\ WellFormed /\ (\A j \in DOMAIN stream : ~Is(j, {"8"})) => ret = ending

(* A caller that reads on comes to an error, at the latest to io.EOF. *)
ReachesEnd == <>(pc = "ended")

(* "in addition to "=\r\n", "=\n" is also treated as soft line break." *)
SoftBreakRemoved ==
    \A j \in DOMAIN stream :
        Is(j, {"="}) /\ Is(j + 1, {"cr"}) /\ Is(j + 2, {"lf"}) =>
            \A k \in DOMAIN out : out[k] # <<j + 2>>
=============================================================================
