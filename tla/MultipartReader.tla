--------------------------- MODULE MultipartReader ---------------------------
(***************************************************************************)
(* multipart/multipart.go: Reader and Part.  The reader splits a stream    *)
(* at boundary lines, seeing it only through the peek buffer of a          *)
(* bufio.Reader of fixed size.  A part is read by looking for a separator  *)
(* in the peek buffer, and taking no more than surely belongs to the part. *)
(*                                                                         *)
(* A byte of the stream is one symbol; the boundary is the one symbol "b". *)
(* "H" stands for a whole header block, with its blank line: header        *)
(* parsing (textproto) is not part of this repository.  Reads are of the   *)
(* raw part, before a transfer encoding is undone.                         *)
(***************************************************************************)
EXTENDS Integers, Sequences, SequencesExt, FiniteSetsExt

CONSTANTS
    PeekSize,   \* peekBufferSize, 4096 in the code
    Sizes,      \* the lengths of the slices passed to Part.Read
    Streams,    \* what the source may hold
    Endings     \* how it may end: "eof" or "fail"

Symbols == {"cr", "lf", "-", "b", "sp", "x", "H"}

Dash     == <<"-", "-", "b">>           \* dashBoundary
DashDash == Dash \o <<"-", "-">>        \* dashBoundaryDash

(* "This constant needs to be at least 76 for this package to work": room  *)
(* for nl, the dashes and a boundary, and two bytes more.                  *)
ASSUME PeekAssumption    == PeekSize \in Nat /\ PeekSize >= 2 + Len(Dash) + 2
ASSUME SizesAssumption   == Sizes \subseteq Nat \ {0}
ASSUME StreamsAssumption == Streams \subseteq Seq(Symbols) /\ Endings \subseteq {"eof", "fail"}

VARIABLES
    stream,     \* all that the source will deliver
    ending,     \* what the source says after it
    at,         \* how many bytes of the stream bufReader has handed out
    buffered,   \* bufReader.Buffered()
    nl,         \* r.nl; nlDashBoundary is nl and dashBoundary
    partsRead,  \* r.partsRead
    part,       \* r.currentPart: its buffer, whether bytesRead is 0, and
                \* whether no call of NextPart has returned since it was given
    pc,         \* where the call of NextPart is
    expect,     \* expectNewPart
    ret,        \* what the last call returned
    start,      \* where the body of the current part starts
    delivered,  \* the bytes of the current part that the caller has got
    ended,      \* Read of the current part has returned io.EOF
    checked     \* what CheckNextPart said at the end of the current part,
                \* or before the first

vars == <<stream, ending, at, buffered, nl, partsRead, part, pc, expect, ret,
          start, delivered, ended, checked>>

NoPart == [buffer |-> <<>>, fresh |-> FALSE, open |-> FALSE, some |-> FALSE]

Init ==
    /\ stream \in Streams /\ ending \in Endings
    /\ at = 0 /\ buffered = 0
    /\ nl = <<"cr", "lf">> /\ partsRead = 0
    /\ part = NoPart
    /\ pc = "idle" /\ expect = FALSE /\ ret = "none"
    /\ start = 0 /\ delivered = <<>> /\ ended = FALSE /\ checked = "none"

-----------------------------------------------------------------------------
Rest == SubSeq(stream, at + 1, Len(stream))
Window(m) == SubSeq(Rest, 1, Min({m, Len(Rest)}))
After(s, t) == SubSeq(t, Len(s) + 1, Len(t))    \* t without its prefix s

SkipLWSP(s) ==
    LET j == SelectInSeq(s, LAMBDA c : c # "sp")
    IN  IF j = 0 THEN <<>> ELSE SubSeq(s, j, Len(s))

(* peekBufferIsEmptyPart: the boundary stands right at the body's start. *)
IsEmptyPart(peek) ==
    IF IsPrefix(DashDash, peek)
    THEN LET rest == SkipLWSP(After(DashDash, peek)) IN IsPrefix(nl, rest) \/ rest = <<>>
    ELSE IsPrefix(Dash, peek) /\ IsPrefix(nl, SkipLWSP(After(Dash, peek)))

(* What must follow nlDashBoundary for it to end the part. *)
Ends(rest) ==
    \/ IsPrefix(<<"-", "-">>, rest)
    \/ IsPrefix(<<"lf">>, SkipLWSP(rest))
    \/ IsPrefix(<<"cr", "lf">>, SkipLWSP(rest))

(* bytes.Index(peek, nlDashBoundary), or -1 *)
Separators(peek) ==
    { j \in 0 .. Len(peek) - Len(nl \o Dash) : SubSeq(peek, j + 1, j + Len(nl \o Dash)) = nl \o Dash }
SeparatorIndex(peek) == IF Separators(peek) = {} THEN -1 ELSE Min(Separators(peek))

SafeHalf(peek) == Max({0, Len(peek) - Len(Dash)})   \* mutant: room for the dashes only

(* How much of the peek buffer is taken: what surely belongs to the part,  *)
(* and at a separator that is none, one byte "to make some progress".      *)
Safe(peek) == Max({0, Len(peek) - Len(nl \o Dash)})

IsEnd(peek) ==
    \E idx \in {SeparatorIndex(peek)} \ {-1} :
        \E rest \in {SubSeq(peek, idx + Len(nl \o Dash) + 1, Len(peek))} : Ends(rest)

(* Peek has come to the end of the source. *)
Short(peek) == Len(peek) < PeekSize

(* mutant: no progress at a separator that is none *)
StuckNCopy(peek) ==
    IF SeparatorIndex(peek) # -1 THEN SeparatorIndex(peek)
    ELSE IF Short(peek) THEN Len(peek) ELSE Safe(peek)

(* mutant: -1 taken for an index *)
UnfoundNCopy(peek) == SeparatorIndex(peek)

NCopy(peek) ==
    IF SeparatorIndex(peek) # -1
    THEN (IF SeparatorIndex(peek) = 0 /\ ~IsEnd(peek) THEN 1 ELSE SeparatorIndex(peek))
    ELSE IF Short(peek) THEN Len(peek) ELSE Safe(peek)

(* partReader.Read with len(d) = k: what it returns and leaves behind.    *)
(* Peek fills the buffer as far as the source goes.                        *)
PartRead(k, peek, nCopy) ==
    LET p     == part.buffer
        have  == p \o [j \in 1 .. nCopy |-> at + j]
        m     == IF Len(have) < k THEN Len(have) ELSE k
    IN  IF Len(p) >= k
        THEN [data |-> SubSeq(p, 1, k), err |-> "nil", buffer |-> SubSeq(p, k + 1, Len(p)),
              at |-> at, buffered |-> buffered]
        ELSE IF part.fresh /\ IsEmptyPart(peek)
        THEN [data |-> <<>>, err |-> "eof", buffer |-> p, at |-> at, buffered |-> Len(peek)]
        ELSE IF Short(peek) /\ ending = "fail"
        THEN [data |-> <<>>, err |-> "error", buffer |-> p, at |-> at, buffered |-> Len(peek)]
        ELSE [data |-> SubSeq(have, 1, m), buffer |-> SubSeq(have, m + 1, Len(have)),
              err |-> IF have = <<>> /\ (Short(peek) \/ IsEnd(peek)) THEN "eof" ELSE "nil",
              at |-> at + nCopy, buffered |-> Len(peek) - nCopy]

Took(r) ==
    /\ at' = r.at /\ buffered' = r.buffered
    /\ part' = [part EXCEPT !.buffer = r.buffer, !.fresh = @ /\ r.data = <<>>]

(* The caller reads the part it was given last. *)
Read(k) ==
    /\ pc = "idle" /\ part.open
    /\ \E peek \in {Window(PeekSize)} : \E nCopy \in {NCopy(peek)} : \E r \in {PartRead(k, peek, nCopy)} :
           /\ Took(r)
           /\ delivered' = delivered \o r.data
           /\ ended' = (ended \/ r.err = "eof")
           /\ ret' = CASE r.err = "nil" -> "data" [] OTHER -> r.err
    /\ checked' = "none"
    /\ UNCHANGED <<stream, ending, nl, partsRead, pc, expect, start>>

-----------------------------------------------------------------------------
(* What NextPart and CheckNextPart make of a line: st is the newline in    *)
(* force, expectNewPart, and the verdict so far.  isBoundaryDelimiterLine  *)
(* goes over to LF line ends at the first boundary.                        *)
Judge(st, line) ==
    LET rest     == SkipLWSP(After(Dash, line))
        switches == IsPrefix(Dash, line) /\ partsRead = 0 /\ rest = <<"lf">>
        nl1      == IF switches THEN Tail(st.nl) ELSE st.nl
        final    == SkipLWSP(After(DashDash, line))
        verdict  == IF IsPrefix(Dash, line) /\ rest = nl1 THEN "part"
                    ELSE IF IsPrefix(DashDash, line) /\ final \in {<<>>, nl1} THEN "eof"
                    ELSE IF st.expect THEN "error"
                    ELSE IF partsRead = 0 \/ line = nl1 THEN "none"
                    ELSE "error"
    IN  IF switches /\ st.nl = <<>> THEN [st EXCEPT !.verdict = "panic"]
        ELSE [nl |-> nl1, verdict |-> verdict,
              expect |-> verdict = "none" /\ partsRead > 0]

FirstLF == SelectInSeq(Rest, LAMBDA c : c = "lf")

(* What CheckNextPart says when no line has given a verdict: the end, or   *)
(* an error if its own bufio.Reader, which is as large as the peek buffer, *)
(* is full of bytes without a line end.                                    *)
OutOfLines == IF buffered = PeekSize /\ FirstLF \notin 1 .. buffered THEN "error" ELSE "eof"

(* mutant: the blank line before a boundary is not skipped *)
CheckFirstLine ==
    /\ pc = "idle"
    /\ LET verdict == IF FirstLF \notin 1 .. buffered THEN OutOfLines
                      ELSE Judge([nl |-> nl, expect |-> TRUE, verdict |-> "none"], SubSeq(Rest, 1, FirstLF)).verdict
       IN  ret' = verdict /\ checked' = IF ended \/ ~part.some THEN verdict ELSE "none"
    /\ UNCHANGED <<stream, ending, at, buffered, nl, partsRead, part, pc, expect, start, delivered, ended>>

(* The line that ends with byte j of the rest. *)
LineTo(j) == SubSeq(Rest, 1 + Max({0} \union { l \in 1 .. j - 1 : Rest[l] = "lf" }), j)

(* The lines that are buffered, judged in turn until there is a verdict. *)
Judged ==
    LET judged[j \in 0 .. buffered] ==
            IF j = 0 THEN [nl |-> nl, expect |-> FALSE, verdict |-> "none"]
            ELSE IF Rest[j] = "lf" /\ judged[j - 1].verdict = "none" THEN Judge(judged[j - 1], LineTo(j))
            ELSE judged[j - 1]
    IN  judged[buffered]

(* CheckNextPart looks at what is buffered and at nothing more. *)
CheckNextPart ==
    /\ pc = "idle"
    /\ \E st \in {Judged} :
       LET verdict == IF st.verdict = "none" THEN OutOfLines ELSE st.verdict
       IN  /\ nl' = st.nl
           /\ ret' = verdict
           /\ pc' = IF verdict = "panic" THEN "panic" ELSE pc
           /\ checked' = IF ended \/ ~part.some THEN verdict ELSE "none"
    /\ UNCHANGED <<stream, ending, at, buffered, partsRead, part, expect, start, delivered, ended>>

-----------------------------------------------------------------------------
(* NextPart: the current part is read to its end first. *)
NextPart ==
    /\ pc = "idle"
    /\ pc' = IF part.some THEN "closing" ELSE "lines"
    /\ expect' = FALSE
    /\ UNCHANGED <<stream, ending, at, buffered, nl, partsRead, part, ret, start, delivered, ended, checked>>

(* mutant: one read and no more *)
CloseReadOnce ==
    /\ pc = "closing"
    /\ \E peek \in {Window(PeekSize)} : \E nCopy \in {NCopy(peek)} : \E r \in {PartRead(PeekSize, peek, nCopy)} : Took(r) /\ pc' = "lines"
    /\ UNCHANGED <<stream, ending, nl, partsRead, expect, ret, start, delivered, ended, checked>>

(* Close copies to ioutil.Discard and drops the error. *)
CloseRead ==
    /\ pc = "closing"
    /\ \E peek \in {Window(PeekSize)} : \E nCopy \in {NCopy(peek)} : \E r \in {PartRead(PeekSize, peek, nCopy)} :
           /\ Took(r)
           /\ pc' = IF r.err = "nil" THEN "closing" ELSE "lines"
    /\ UNCHANGED <<stream, ending, nl, partsRead, expect, ret, start, delivered, ended, checked>>

(* bufReader hands out m bytes; if it has to read for them, it may read    *)
(* ahead as far as its buffer goes.                                        *)
Advance(m, room) ==
    /\ at' = at + m
    /\ IF m <= buffered THEN buffered' = buffered - m
       ELSE buffered' \in 0 .. Min({Len(Rest) - m, room})

(* NextPart returns v; the part it closed is not to be read any more. *)
Returns(v) ==
    /\ ret' = v
    /\ pc' = IF v \in {"eof", "panic"} THEN v ELSE "idle"
    /\ checked' = "none" /\ ended' = FALSE

Closed == part' = [part EXCEPT !.open = FALSE]

(* ReadSlice finds a line. *)
NextLine ==
    /\ pc = "lines"
    /\ FirstLF \in 1 .. PeekSize
    /\ Advance(FirstLF, PeekSize - FirstLF)
    /\ \E line \in {SubSeq(Rest, 1, FirstLF)} :
       \E st \in {Judge([nl |-> nl, expect |-> expect, verdict |-> "none"], line)} :
           /\ nl' = st.nl /\ expect' = st.expect
           /\ CASE st.verdict = "none" -> UNCHANGED <<pc, ret, partsRead, part, ended, checked>>
                [] st.verdict = "part" -> /\ pc' = "header" /\ partsRead' = partsRead + 1
                                          /\ UNCHANGED <<ret, part, ended, checked>>
                [] OTHER -> Returns(st.verdict) /\ Closed /\ UNCHANGED partsRead
    /\ UNCHANGED <<stream, ending, start, delivered>>

(* ReadSlice has no line to give: the buffer is full, or the source ends;  *)
(* what is left in the buffer is handed out all the same.                  *)
NoLine ==
    /\ pc = "lines"
    /\ FirstLF \notin 1 .. PeekSize
    /\ buffered' = 0 /\ Closed
    /\ IF Len(Rest) >= PeekSize
       THEN at' = at + PeekSize /\ Returns("error")
       ELSE at' = Len(stream) /\ Returns(IF ending = "eof" THEN "eof" ELSE "error")
    /\ UNCHANGED <<stream, ending, nl, partsRead, expect, start, delivered>>

AtHeader == IsPrefix(<<"H">>, Rest)

(* newPart gives a part, with or without an error of the header. *)
NewPart(v) ==
    /\ Returns(v)
    /\ part' = [buffer |-> <<>>, fresh |-> TRUE, open |-> TRUE, some |-> TRUE]
    /\ start' = at' /\ delivered' = <<>>
    /\ UNCHANGED <<stream, ending, nl, partsRead, expect>>

Header ==
    /\ pc = "header" /\ AtHeader
    /\ Advance(1, PeekSize) /\ NewPart("part")

(* A blank line is an empty header; another line is no header, and the     *)
(* part is kept with the error.                                            *)
OtherHeader ==
    /\ pc = "header" /\ ~AtHeader /\ FirstLF # 0
    /\ Advance(FirstLF, PeekSize)
    /\ NewPart(IF SubSeq(Rest, 1, FirstLF) \in {<<"lf">>, <<"cr", "lf">>} THEN "part" ELSE "malformed")

(* The stream ends inside the header: r.currentPart stays the old one. *)
HeaderError ==
    /\ pc = "header" /\ ~AtHeader /\ FirstLF = 0
    /\ at' = Len(stream) /\ buffered' = 0
    /\ Returns("headererror") /\ Closed
    /\ UNCHANGED <<stream, ending, nl, partsRead, expect, start, delivered>>

(* NextPart, once called, goes on. *)
Proceed == CloseRead \/ NextLine \/ NoLine \/ Header \/ OtherHeader \/ HeaderError

Stopped == pc \in {"eof", "panic"} /\ UNCHANGED vars

Next ==
    \/ \E k \in Sizes : Read(k)
    \/ CheckNextPart \/ NextPart \/ Proceed
    \/ Stopped

Spec == Init /\ [][Next]_vars

(* The caller asks for the next part until there are no more. *)
FairSpec ==
    Spec /\ WF_vars(NextPart) /\ WF_vars(Proceed)

-----------------------------------------------------------------------------
(* What the parts are, said of the whole stream and not of a buffer.       *)
From(j) == SubSeq(stream, j + 1, Len(stream))

(* A separator that ends a part stands at j. *)
EndsAt(j) == IsPrefix(nl \o Dash, From(j)) /\ Ends(After(nl \o Dash, From(j)))

(* A boundary line, or the final one, stands at j: its line is complete.   *)
BoundaryLine(s) ==
    \/ IsPrefix(DashDash, s) /\ LET q == SkipLWSP(After(DashDash, s)) IN q = <<>> \/ IsPrefix(nl, q)
    \/ IsPrefix(Dash, s) /\ IsPrefix(nl, SkipLWSP(After(Dash, s)))

EmptyBody == IsEmptyPart(From(start))
BodyEnd ==
    LET ends == { j \in start .. Len(stream) : EndsAt(j) }
    IN  IF EmptyBody THEN start ELSE IF ends = {} THEN Len(stream) ELSE Min(ends)

(* The body ends at a boundary line in good order. *)
Separated == IF EmptyBody THEN TRUE ELSE IsPrefix(nl, From(BodyEnd)) /\ BoundaryLine(After(nl, From(BodyEnd)))

TypeOK ==
    /\ stream \in Seq(Symbols) /\ ending \in {"eof", "fail"}
    /\ at \in 0 .. Len(stream) /\ buffered \in 0 .. PeekSize /\ at + buffered <= Len(stream)
    /\ nl \in {<<"cr", "lf">>, <<"lf">>}
    /\ partsRead \in Nat /\ expect \in BOOLEAN /\ ended \in BOOLEAN
    /\ part \in [buffer : Seq(1 .. at), fresh : BOOLEAN, open : BOOLEAN, some : BOOLEAN]
    /\ pc \in {"idle", "closing", "lines", "header", "eof", "panic"}
    /\ ret \in {"none", "data", "part", "malformed", "headererror", "eof", "error", "panic"}
    /\ start \in 0 .. at /\ delivered \in Seq(1 .. at)
    /\ checked \in {"none", "part", "eof", "error", "panic"}

(* The white space behind a boundary, and a line end, fit in the peek      *)
(* buffer together with it.  If they do not, Read cannot see that the      *)
(* boundary is one, and takes it for text.                                 *)
Blank(n) == [k \in 1 .. n |-> "sp"]
PaddingFits ==
    \A j \in 0 .. Len(stream), d \in {Dash, DashDash} :
        ~IsPrefix(d \o Blank(PeekSize - Len(DashDash) - 1), From(j))

(* Whatever the sizes of the peek buffer and of the reads, the caller gets *)
(* the bytes of the body, once and in order, and nothing of the separator  *)
(* or behind it; what has been taken from bufReader is delivered or        *)
(* buffered; and io.EOF is returned only when all of the body has been     *)
(* delivered.                                                              *)
BodyExact ==
    part.open /\ pc = "idle" =>
        /\ delivered \o part.buffer = [j \in 1 .. at - start |-> start + j]
        /\ PaddingFits => at <= BodyEnd /\ (ended => start + Len(delivered) = BodyEnd)

(* A boundary that the part's Read has taken for one, and whose line is in *)
(* order, is one for NextPart: the three recognisers of a boundary agree,  *)
(* also over line ends and white space.                                    *)
BoundaryAccepted ==
    [][part.open /\ pc = "lines" /\ ret' = "error" /\ pc' = "idle" /\ ending = "eof" /\ PaddingFits => ~Separated]_vars

(* Once the part has been read to its end, and the end is a boundary in    *)
(* good order or the end of the stream, CheckNextPart says of the next     *)
(* part what NextPart then finds, however little is buffered, if the       *)
(* source does not fail.                                                   *)
Agrees(check, found) ==
    IF check = "part" THEN found \in {"part", "malformed", "headererror"} ELSE found = check

NextPartReturns == pc \in {"lines", "header"} /\ pc' \in {"idle", "eof", "panic"}

CheckAgrees ==
    [][NextPartReturns /\ ended /\ ending = "eof" /\ checked # "none" /\ PaddingFits
       /\ (Separated \/ BodyEnd = Len(stream)) => Agrees(checked, ret')]_vars

(* CheckNextPart's comment: "it can tell whether next part is EOF or not". *)
CheckTellsEOF == [][NextPartReturns /\ checked = "eof" => ret' = "eof"]_vars

(* A caller that asks for part after part comes to io.EOF, unless the      *)
(* source fails, as NextPart then does every time.                         *)
ReachesEOF == <>(pc = "eof" \/ ending = "fail")

(* TestMultipartTruncated: a part whose body is not ended by a boundary    *)
(* does not end with a plain io.EOF.                                       *)
TruncationReported == part.open /\ ended => EmptyBody \/ BodyEnd < Len(stream)
=============================================================================
