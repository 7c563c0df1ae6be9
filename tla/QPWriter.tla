------------------------------ MODULE QPWriter ------------------------------
(***************************************************************************)
(* quotedprintable/writer.go: the quoted-printable encoder.  It builds one *)
(* output line in a fixed array and hands it to the underlying writer at a *)
(* hard or a soft line break, and at Close.  Any of these hand-overs may   *)
(* fail.                                                                   *)
(*                                                                         *)
(* An input byte is its position; the code looks at its class: printable   *)
(* as it is, space or tab, end of line, or to be encoded.  A character of  *)
(* the output is a pair of what it is and the byte it stands for (0 when   *)
(* it stands for none).                                                    *)
(***************************************************************************)
EXTENDS Integers, Sequences, SequencesExt

CONSTANTS
    LineMax,    \* lineMaxLen, 76 in the code; the array line has two more bytes
    Inputs,     \* the texts to be written: sequences of byte classes
    Sizes,      \* the lengths of the slices passed to Write
    MaxFailures \* how often the underlying writer may fail

Classes == {"plain", "ws", "cr", "lf", "special"}

ASSUME LineMaxAssumption == LineMax \in Nat /\ LineMax >= 4
ASSUME FailureAssumption == MaxFailures \in Nat
ASSUME InputsAssumption  == Inputs \subseteq Seq(Classes)
ASSUME SizesAssumption   == Sizes \subseteq Nat

VARIABLES
    input,      \* the text
    binary,     \* w.Binary
    next,       \* bytes of it that calls of Write have reported as written
    line,       \* w.line[:w.i]
    cr,         \* w.cr
    out,        \* the lines the underlying writer has taken
    pc,         \* where the call of Write or Close is
    hi,         \* end of the slice passed to Write
    n,          \* Write's n: start of the batch
    at,         \* end of the batch, the byte to encode if it is below hi
    k,          \* bytes of the batch done by write
    failures    \* how often the underlying writer has failed

vars == <<input, binary, next, line, cr, out, pc, hi, n, at, k, failures>>

failed == failures > 0

-----------------------------------------------------------------------------
(* The functions below take and return the part of the writer they work    *)
(* on: the line, what was handed over, and how it went.  fail says which   *)
(* hand-overs of the step fail.                                            *)
W == [line |-> line, out |-> out, status |-> "ok"]

Raw(j)     == <<"raw", j>>
Escaped(j) == << <<"=", j>>, <<"hi", j>>, <<"lo", j>> >>
Soft       == <<"soft", 0>>
CRLF       == << <<"cr", 0>>, <<"lf", 0>> >>

(* The characters of the output. *)
Chars == {"raw", "=", "hi", "lo", "soft", "cr", "lf"} \X (0 .. Len(input))

(* w.line[w.i] = ...; w.i++: behind the end of the array it panics. *)
Put(w, chars) ==
    IF Len(w.line) + Len(chars) > LineMax + 2 THEN [w EXCEPT !.status = "panic"]
    ELSE [w EXCEPT !.line = @ \o chars]

(* mutant: a failed hand-over empties the line as well *)
FlushAway(w, fail) ==
    IF w.status # "ok" THEN w
    ELSE IF fail THEN [w EXCEPT !.status = "failed", !.line = <<>>]
    ELSE [w EXCEPT !.line = <<>>, !.out = Append(@, w.line)]

(* A failed hand-over leaves w.i as it is. *)
Flush(w, fail) ==
    IF w.status # "ok" THEN w
    ELSE IF fail THEN [w EXCEPT !.status = "failed"]
    ELSE [w EXCEPT !.line = <<>>, !.out = Append(@, w.line)]

InsertCRLF(w, fail) == IF w.status # "ok" THEN w ELSE Flush(Put(w, CRLF), fail)

InsertHardLineBreak(w, fail) == InsertCRLF(w, fail)     \* mutant: no "=" before it

InsertSoftLineBreak(w, fail) == InsertCRLF(Put(w, <<Soft>>), fail)

EncodeUnbroken(w, j, fail) == Put(w, Escaped(j))        \* mutant: no look at the room

(* mutant: room for two where three are needed *)
EncodeTight(w, j, fail) ==
    LET r == IF LineMax - 1 - Len(w.line) < 2 THEN InsertSoftLineBreak(w, fail) ELSE w
    IN  IF r.status # "ok" THEN r ELSE Put(r, Escaped(j))

Encode(w, j, fail) ==
    LET r == IF LineMax - 1 - Len(w.line) < 3 THEN InsertSoftLineBreak(w, fail) ELSE w
    IN  IF r.status # "ok" THEN r ELSE Put(r, Escaped(j))

EndsInWhitespace(s) ==
    Len(s) > 0 /\ s[Len(s)][1] = "raw" /\ input[s[Len(s)][2]] = "ws"

CheckNothing(w, fail) == w      \* mutant: the last byte is not looked at

(* A line must not end in a space or a tab: the last one is encoded. *)
CheckLastByte(w, fail) ==
    IF EndsInWhitespace(w.line)
    THEN Encode([w EXCEPT !.line = Front(@)], Last(w.line)[2], fail)
    ELSE w

-----------------------------------------------------------------------------
Init ==
    /\ input \in Inputs /\ binary \in BOOLEAN
    /\ next = 0 /\ line = <<>> /\ cr = FALSE /\ out = <<>>
    /\ pc = "idle" /\ hi = 0 /\ n = 0 /\ at = 0 /\ k = 0
    /\ failures = 0

(* The bytes Write leaves to a batch. *)
Simple(j) == input[j] \in {"plain", "ws"} \/ (~binary /\ input[j] \in {"cr", "lf"})

(* Write(p): the caller goes on where the last call stopped. *)
Write(m) ==
    /\ pc = "idle" /\ next + m <= Len(input)
    /\ hi' = next + m /\ n' = next /\ at' = next /\ k' = next
    /\ pc' = "scan"
    /\ UNCHANGED <<input, binary, next, line, cr, out, failures>>

(* for i, b := range p: on to the next byte that is not simple. *)
Scan ==
    /\ pc = "scan"
    /\ \E e \in at .. hi :
          /\ \A j \in at + 1 .. e : Simple(j)
          /\ e < hi => ~Simple(e + 1)
          /\ at' = e
          /\ pc' = IF e > n THEN "write" ELSE IF e < hi THEN "encode" ELSE "return"
    /\ k' = n
    /\ UNCHANGED <<input, binary, next, line, cr, out, hi, n, failures>>

(* The outcome r of a step of write, encode or Close. *)
Outcome(r, then) ==
    /\ line' = r.line /\ out' = r.out
    /\ failures' = IF r.status = "failed" THEN failures + 1 ELSE failures
    /\ pc' = CASE r.status = "ok" -> then
               [] r.status = "failed" -> "return"
               [] OTHER -> "panic"

Fails == IF failures < MaxFailures THEN BOOLEAN ELSE {FALSE}

InBatch == pc = "write" /\ k < at

(* The LF of a CR LF whose line break is out already. *)
SkipLF ==
    /\ InBatch /\ input[k + 1] = "lf" /\ cr
    /\ cr' = FALSE /\ k' = k + 1
    /\ UNCHANGED <<input, binary, next, line, out, pc, hi, n, at, failures>>

BreakLine ==
    /\ InBatch /\ input[k + 1] \in {"cr", "lf"}
    /\ ~(input[k + 1] = "lf" /\ cr)
    /\ cr' = (cr \/ input[k + 1] = "cr")
    /\ \E soft, hard \in Fails :
          Outcome(InsertCRLF(CheckLastByte(W, soft), hard), "write")
    /\ k' = IF pc' = "write" THEN k + 1 ELSE k
    /\ UNCHANGED <<input, binary, next, hi, n, at>>

PutByte ==
    /\ InBatch /\ input[k + 1] \notin {"cr", "lf"}
    /\ \E soft \in Fails :
          LET r == IF Len(line) = LineMax - 1 THEN InsertSoftLineBreak(W, soft) ELSE W
          IN  Outcome(IF r.status = "ok" THEN Put(r, <<Raw(k + 1)>>) ELSE r, "write")
    /\ IF pc' = "write" THEN cr' = FALSE /\ k' = k + 1 ELSE UNCHANGED <<cr, k>>
    /\ UNCHANGED <<input, binary, next, hi, n, at>>

(* The batch is done: n = i, and the byte that ended it is encoded. *)
BatchDone ==
    /\ pc = "write" /\ k = at
    /\ n' = at /\ pc' = IF at < hi THEN "encode" ELSE "return"
    /\ UNCHANGED <<input, binary, next, line, cr, out, hi, at, k, failures>>

(* encode does not look at cr and does not clear it. *)
EncodeByte ==
    /\ pc = "encode"
    /\ \E soft \in Fails : Outcome(Encode(W, at + 1, soft), "scan")
    /\ IF pc' = "scan" THEN n' = n + 1 /\ at' = at + 1 ELSE UNCHANGED <<n, at>>
    /\ UNCHANGED <<input, binary, next, cr, hi, k>>

(* mutant: counts the byte that failed *)
ReturnOneMore ==
    /\ pc = "return"
    /\ next' = n + 1 /\ pc' = "idle"
    /\ UNCHANGED <<input, binary, line, cr, out, hi, n, at, k, failures>>

(* Write returns n, with or without an error. *)
Return ==
    /\ pc = "return"
    /\ next' = n /\ pc' = "idle"
    /\ UNCHANGED <<input, binary, line, cr, out, hi, n, at, k, failures>>

Close ==
    /\ pc = "idle"
    /\ next = Len(input) \/ failed
    /\ \E soft, hard \in Fails :
          LET r == CheckLastByte(W, soft) IN Outcome(Flush(r, hard), "closed")
    /\ UNCHANGED <<input, binary, next, cr, hi, n, at, k>>

Stopped == pc \in {"closed", "panic"} /\ UNCHANGED vars

Next ==
    \/ \E m \in Sizes : Write(m)
    \/ Scan \/ SkipLF \/ BreakLine \/ PutByte \/ BatchDone \/ EncodeByte \/ Return
    \/ Close \/ Stopped

Spec == Init /\ [][Next]_vars

-----------------------------------------------------------------------------
(* What a decoder makes of the lines: data bytes, and 0 for a line break   *)
(* that is not a soft one.                                                 *)
Data(l, x) ==
    IF l[x][1] \in {"raw", "="} THEN <<l[x][2]>>
    ELSE IF l[x][1] = "lf" /\ (x > 2 => l[x - 2] # Soft) THEN <<0>>
    ELSE <<>>

LineData(l)    == FlattenSeq([x \in DOMAIN l |-> Data(l, x)])
Decoded(lines) == FlattenSeq([x \in DOMAIN lines |-> LineData(lines[x])])

(* What the first m bytes of the text mean: in text mode CR LF, a CR and   *)
(* an LF alone are each one line break.                                    *)
Meaning(j) ==
    IF binary \/ input[j] \notin {"cr", "lf"} THEN <<j>>
    ELSE IF input[j] = "lf" /\ j > 1 /\ input[j - 1] = "cr" THEN <<>>
    ELSE <<0>>

Meant(m) == FlattenSeq([j \in 1 .. m |-> Meaning(j)])

Body(l) == IF Len(l) >= 2 /\ l[Len(l)] = <<"lf", 0>> THEN SubSeq(l, 1, Len(l) - 2) ELSE l
IsSoft(l) == Len(Body(l)) > 0 /\ Last(Body(l)) = Soft

TypeOK ==
    /\ input \in Seq(Classes) /\ binary \in BOOLEAN
    /\ next \in 0 .. Len(input)
    /\ line \in Seq(Chars) /\ Len(line) <= LineMax + 2
    /\ out \in Seq(Seq(Chars))
    /\ cr \in BOOLEAN /\ failures \in Nat
    /\ pc \in {"idle", "scan", "write", "encode", "return", "closed", "panic"}
    /\ hi \in 0 .. Len(input) /\ at \in 0 .. hi /\ n \in 0 .. at /\ k \in 0 .. at

(* "It limits line length to 76 characters": every line handed over fits,  *)
(* with its soft line break; and a soft line break stands only where the   *)
(* next character might not have fitted.  After a failed hand-over the     *)
(* line is not reset, and nothing is promised.                             *)
LineFits ==
    ~failed => \A x \in DOMAIN out :
                  /\ Len(Body(out[x])) <= LineMax
                  /\ IsSoft(out[x]) => Len(Body(out[x])) >= LineMax - 2

(* The array line is never indexed behind its end before the underlying    *)
(* writer has failed (after that it may be: w.i is not reset).             *)
InBounds == pc = "panic" => failed

(* No line handed over ends in a space or a tab, where a mail system could *)
(* strip it, whatever the calls and the line breaks.                       *)
NoTrailingWhitespace == ~failed => \A x \in DOMAIN out : ~EndsInWhitespace(Body(out[x]))

(* Between calls, the lines handed over and the one being built decode to  *)
(* exactly what has been written, however the text was cut into calls: a   *)
(* CR LF split over two calls is still one line break.  A text where an    *)
(* encoded byte follows a CR is left out (see LineBreakOnce).              *)
EscapeAfterCR == ~binary /\ \E j \in 1 .. Len(input) - 1 : input[j] = "cr" /\ input[j + 1] = "special"

RoundTrip ==
    pc \in {"idle", "closed"} /\ ~failed /\ ~EscapeAfterCR
        => Decoded(Append(out, line)) = Meant(next)

(* Whatever the underlying writer refuses, a byte that Write has reported  *)
(* as written is in a line that was handed over or in the one being built, *)
(* so that a caller may go on behind it: a call that fails reports only    *)
(* what is kept.  White space may be lost: checkLastByte takes it off the  *)
(* line before the hand-over that fails.                                   *)
ReportedKept ==
    LET kept == UNION { { c[2] : c \in ToSet(l) } : l \in ToSet(out) \union {line} }
    IN  \A j \in 1 .. next :
            input[j] = "plain" \/ input[j] = "special" \/ (binary /\ input[j] # "ws") => j \in kept

(* "If the previous byte was \r, the CRLF has already been inserted": an   *)
(* LF is skipped only when the byte before it is a CR.                     *)
LineBreakOnce == pc = "closed" /\ ~failed => Decoded(out) = Meant(next)
=============================================================================
