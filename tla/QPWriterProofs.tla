--------------------------- MODULE QPWriterProofs ---------------------------
(***************************************************************************)
(* Proofs about QPWriter, for every line length of at least four, every    *)
(* text, every way of cutting it into calls and any number of failures.    *)
(***************************************************************************)
EXTENDS QPWriter, SequenceTheorems, NatRecursion, TLAPS

(* A line being built, before it is broken. *)
Building(l) ==
    /\ l \in Seq(Chars) /\ Len(l) <= LineMax - 1
    /\ \A x \in 1 .. Len(l) : l[x][1] \in {"raw", "=", "hi", "lo"}

(* A line that may be handed over. *)
Fit(l) ==
    /\ Len(Body(l)) <= LineMax
    /\ IsSoft(l) => Len(Body(l)) >= LineMax - 2
    /\ ~EndsInWhitespace(Body(l))

AllFit(lines) == \A x \in DOMAIN lines : Fit(lines[x])

(* The part of the writer that the functions pass on. *)
Typed(w) == w \in [line : Seq(Chars), out : Seq(Seq(Chars)), status : {"ok", "failed", "panic"}]
Sized(w) == Typed(w) /\ Len(w.line) <= LineMax + 2
Good(w)  == Typed(w) /\ w.status = "ok" /\ Building(w.line) /\ AllFit(w.out)
Fine(w)  == Typed(w) /\ (w.status = "failed" \/ Good(w))

USE LineMaxAssumption

-----------------------------------------------------------------------------
(* The characters that write, encode and the line breaks put in a line.    *)
LEMMA CharTypes ==
    ASSUME input \in Seq(Classes)
    PROVE  /\ Len(input) \in Nat
           /\ Soft \in Chars
           /\ CRLF \in Seq(Chars) /\ Len(CRLF) = 2 /\ CRLF[1] = <<"cr", 0>> /\ CRLF[2] = <<"lf", 0>>
           /\ \A j \in 0 .. Len(input) :
                 /\ Raw(j) \in Chars
                 /\ Escaped(j) \in Seq(Chars) /\ Len(Escaped(j)) = 3
                 /\ \A x \in 1 .. 3 : Escaped(j)[x][1] \in {"=", "hi", "lo"}
<1>1. Len(input) \in Nat
  BY LenProperties
<1>2. Soft \in Chars /\ <<"cr", 0>> \in Chars /\ <<"lf", 0>> \in Chars
  BY <1>1 DEF Soft, Chars
<1>3. CRLF \in Seq(Chars) /\ Len(CRLF) = 2 /\ CRLF[1] = <<"cr", 0>> /\ CRLF[2] = <<"lf", 0>>
  BY <1>2 DEF CRLF
<1>4. ASSUME NEW j \in 0 .. Len(input)
      PROVE  /\ Raw(j) \in Chars
             /\ Escaped(j) \in Seq(Chars) /\ Len(Escaped(j)) = 3
             /\ \A x \in 1 .. 3 : Escaped(j)[x][1] \in {"=", "hi", "lo"}
  <2>1. Raw(j) \in Chars /\ <<"=", j>> \in Chars /\ <<"hi", j>> \in Chars /\ <<"lo", j>> \in Chars
    BY <1>1 DEF Raw, Chars
  <2> QED
    BY <2>1 DEF Escaped
<1> QED
  BY <1>1, <1>2, <1>3, <1>4

(* A line broken by CR LF has the rest as its body. *)
LEMMA BodyOfBroken ==
    ASSUME input \in Seq(Classes), NEW l \in Seq(Chars)
    PROVE  l \o CRLF \in Seq(Chars) /\ Len(l \o CRLF) = Len(l) + 2 /\ Body(l \o CRLF) = l
<1> DEFINE b == l \o CRLF
<1>1. /\ b \in Seq(Chars) /\ Len(b) = Len(l) + 2 /\ Len(l) \in Nat
      /\ \A x \in 1 .. Len(l) : b[x] = l[x]
      /\ b[Len(b)] = <<"lf", 0>>
  <2>1. CRLF \in Seq(Chars) /\ Len(CRLF) = 2 /\ CRLF[2] = <<"lf", 0>> /\ Len(l) \in Nat
    BY CharTypes, LenProperties
  <2>2. /\ b \in Seq(Chars) /\ Len(b) = Len(l) + Len(CRLF)
        /\ \A x \in 1 .. Len(l) + Len(CRLF) : b[x] = IF x <= Len(l) THEN l[x] ELSE CRLF[x - Len(l)]
    BY <2>1, ConcatProperties
  <2> HIDE DEF b
  <2> QED
    BY <2>1, <2>2
<1>2. Body(b) = SubSeq(b, 1, Len(l))
  BY <1>1 DEF Body
<1>3. /\ SubSeq(b, 1, Len(l)) \in Seq(Chars)
      /\ Len(SubSeq(b, 1, Len(l))) = Len(l)
      /\ \A x \in 1 .. Len(l) : SubSeq(b, 1, Len(l))[x] = b[x]
  <2>1. \A x \in 1 .. Len(l) : b[x] \in Chars
    BY <1>1, ElementOfSeq
  <2> HIDE DEF b
  <2>2. Len(l) \in Int /\ 1 \in Int
    BY <1>1
  <2> QED
    BY <1>1, <2>1, <2>2, SubSeqProperties
<1>4. SubSeq(b, 1, Len(l)) = l
  BY <1>1, <1>3, SeqEqual
<1> QED
  BY <1>1, <1>2, <1>4

(* Putting characters within the array. *)
LEMMA PutOK ==
    ASSUME NEW w, Typed(w), NEW c \in Seq(Chars)
    PROVE  /\ Typed(Put(w, c))
           /\ Put(w, c).out = w.out
           /\ Sized(w) => Sized(Put(w, c))
           /\ Len(w.line) + Len(c) <= LineMax + 2 =>
                 Put(w, c).status = w.status /\ Put(w, c).line = w.line \o c
<1>1. /\ w = [line |-> w.line, out |-> w.out, status |-> w.status]
      /\ w.line \in Seq(Chars) /\ w.out \in Seq(Seq(Chars)) /\ w.status \in {"ok", "failed", "panic"}
  BY DEF Typed
<1>2. w.line \o c \in Seq(Chars) /\ Len(w.line \o c) = Len(w.line) + Len(c)
      /\ Len(w.line) \in Nat /\ Len(c) \in Nat
  BY <1>1, ConcatProperties, LenProperties
<1>3. CASE Len(w.line) + Len(c) > LineMax + 2
  <2>1. Put(w, c) = [line |-> w.line, out |-> w.out, status |-> "panic"]
    BY <1>1, <1>3 DEF Put
  <2> QED
    BY <1>1, <1>2, <1>3, <2>1 DEF Typed, Sized
<1>4. CASE ~(Len(w.line) + Len(c) > LineMax + 2)
  <2>1. Put(w, c) = [line |-> w.line \o c, out |-> w.out, status |-> w.status]
    BY <1>1, <1>4 DEF Put
  <2> QED
    BY <1>1, <1>2, <1>4, <2>1 DEF Typed, Sized
<1> QED
  BY <1>3, <1>4

(* flush hands over a line that fits, and starts an empty one.              *)
LEMMA FlushOK ==
    ASSUME NEW w, Typed(w), NEW f \in BOOLEAN
    PROVE  /\ Typed(Flush(w, f))
           /\ Sized(w) => Sized(Flush(w, f))
           /\ w.status # "ok" => Flush(w, f) = w
           /\ w.status = "ok" =>
                 IF f THEN Flush(w, f).status = "failed"
                 ELSE Flush(w, f) = [line |-> <<>>, out |-> Append(w.out, w.line), status |-> "ok"]
<1>1. /\ w = [line |-> w.line, out |-> w.out, status |-> w.status]
      /\ w.line \in Seq(Chars) /\ w.out \in Seq(Seq(Chars)) /\ w.status \in {"ok", "failed", "panic"}
  BY DEF Typed
<1>2. CASE w.status # "ok"
  BY <1>2 DEF Flush
<1>3. CASE w.status = "ok" /\ f
  <2>1. Flush(w, f) = [line |-> w.line, out |-> w.out, status |-> "failed"]
    BY <1>1, <1>3 DEF Flush
  <2>2. Typed(Flush(w, f))
    BY <1>1, <2>1 DEF Typed
  <2>3. Sized(w) => Sized(Flush(w, f))
    BY <2>1, <2>2 DEF Sized
  <2>4. Flush(w, f).status = "failed"
    BY <2>1
  <2> QED
    BY <1>3, <2>2, <2>3, <2>4
<1>4. CASE w.status = "ok" /\ ~f
  <2>1. Flush(w, f) = [line |-> <<>>, out |-> Append(w.out, w.line), status |-> "ok"]
    BY <1>1, <1>4 DEF Flush
  <2>2. Append(w.out, w.line) \in Seq(Seq(Chars)) /\ <<>> \in Seq(Chars) /\ Len(<<>>) = 0
    BY <1>1
  <2> QED
    BY <1>4, <2>1, <2>2 DEF Typed, Sized
<1> QED
  BY <1>2, <1>3, <1>4

(* A fit line more keeps all lines fit. *)
LEMMA AppendFit ==
    ASSUME NEW lines \in Seq(Seq(Chars)), AllFit(lines), NEW l \in Seq(Chars), Fit(l)
    PROVE  Append(lines, l) \in Seq(Seq(Chars)) /\ AllFit(Append(lines, l))
<1>1. /\ Append(lines, l) \in Seq(Seq(Chars))
      /\ Len(lines) \in Nat /\ Len(Append(lines, l)) = Len(lines) + 1
      /\ \A x \in 1 .. Len(lines) : Append(lines, l)[x] = lines[x]
      /\ Append(lines, l)[Len(lines) + 1] = l
  BY AppendProperties, LenProperties
<1>2. DOMAIN lines = 1 .. Len(lines) /\ DOMAIN Append(lines, l) = 1 .. Len(lines) + 1
  BY <1>1, LenProperties
<1> QED
  BY <1>1, <1>2 DEF AllFit

(* Ending a line that is being built, with CR LF: as InsertCRLF does.      *)
LEMMA CRLFOK ==
    ASSUME input \in Seq(Classes), NEW w, Typed(w), w.status = "ok", AllFit(w.out),
           Len(w.line) <= LineMax, IsSoft(w.line \o CRLF) => Len(w.line) >= LineMax - 2,
           ~EndsInWhitespace(w.line), NEW f \in BOOLEAN
    PROVE  /\ Fine(InsertCRLF(w, f))
           /\ InsertCRLF(w, f).status = "ok" => InsertCRLF(w, f).line = <<>>
<1>1. w.line \in Seq(Chars) /\ Len(w.line) \in Nat /\ w.out \in Seq(Seq(Chars))
  BY LenProperties DEF Typed
<1>2. /\ w.line \o CRLF \in Seq(Chars) /\ Body(w.line \o CRLF) = w.line
  BY <1>1, BodyOfBroken
<1>3. Fit(w.line \o CRLF)
  BY <1>2 DEF Fit
<1> DEFINE p == Put(w, CRLF)
<1>4. Typed(p) /\ p.out = w.out /\ p.status = "ok" /\ p.line = w.line \o CRLF
  <2>1. CRLF \in Seq(Chars) /\ Len(CRLF) = 2
    BY CharTypes
  <2> QED
    <3>1. Len(w.line) + Len(CRLF) <= LineMax + 2
      BY <1>1, <2>1
    <3> QED
      BY <2>1, <3>1, PutOK
<1>5. InsertCRLF(w, f) = Flush(p, f)
  BY DEF InsertCRLF
<1>10. /\ Typed(Flush(p, f))
       /\ IF f THEN Flush(p, f).status = "failed"
          ELSE Flush(p, f) = [line |-> <<>>, out |-> Append(p.out, p.line), status |-> "ok"]
  BY <1>4, FlushOK
<1>6. Append(w.out, w.line \o CRLF) \in Seq(Seq(Chars)) /\ AllFit(Append(w.out, w.line \o CRLF))
  BY <1>1, <1>2, <1>3, AppendFit
<1>7. Building(<<>>)
  BY DEF Building
<1> HIDE DEF p
<1>8. CASE f
  BY <1>5, <1>8, <1>10 DEF Fine
<1>9. CASE ~f
  <2>1. Flush(p, f) = [line |-> <<>>, out |-> Append(w.out, w.line \o CRLF), status |-> "ok"]
    BY <1>4, <1>9, <1>10
  <2> QED
    BY <1>5, <1>6, <1>7, <1>10, <2>1 DEF Fine, Good
<1> QED
  BY <1>8, <1>9

(* A line being built never ends in a soft line break: it is its own body.  *)
LEMMA BuildingNotSoft ==
    ASSUME input \in Seq(Classes), NEW l, Building(l)
    PROVE  ~IsSoft(l \o CRLF) /\ ~IsSoft(l) /\ Body(l) = l
<1>1. l \in Seq(Chars) /\ Len(l) \in Nat /\ \A x \in 1 .. Len(l) : l[x][1] \in {"raw", "=", "hi", "lo"}
  BY LenProperties DEF Building
<1>2. Body(l \o CRLF) = l
  BY <1>1, BodyOfBroken
<1>3. Len(l) > 0 => l[Len(l)][1] \in {"raw", "=", "hi", "lo"}
  BY <1>1
<1>4. Len(l) > 0 => l[Len(l)] # Soft /\ l[Len(l)] # <<"lf", 0>>
  BY <1>3 DEF Soft
<1>5. Body(l) = l
  BY <1>1, <1>4 DEF Body
<1> QED
  BY <1>2, <1>4, <1>5 DEF IsSoft, Last

(* insertSoftLineBreak on a line that is as good as full hands over a line  *)
(* that fits.                                                              *)
LEMMA SoftBreakOK ==
    ASSUME input \in Seq(Classes), NEW w, Good(w), Len(w.line) >= LineMax - 3, NEW f \in BOOLEAN
    PROVE  /\ Fine(InsertSoftLineBreak(w, f))
           /\ InsertSoftLineBreak(w, f).status = "ok" => InsertSoftLineBreak(w, f).line = <<>>
<1> DEFINE p == Put(w, <<Soft>>)
<1>1. /\ w.line \in Seq(Chars) /\ Len(w.line) \in Nat /\ Len(w.line) <= LineMax - 1
      /\ Typed(w) /\ w.status = "ok" /\ AllFit(w.out)
  BY LenProperties DEF Good, Building
<1>2. <<Soft>> \in Seq(Chars) /\ Len(<<Soft>>) = 1
  BY CharTypes
<1>3. Len(w.line) + Len(<<Soft>>) <= LineMax + 2
  BY <1>1, <1>2
<1>4. Typed(p) /\ p.status = "ok" /\ p.out = w.out /\ p.line = w.line \o <<Soft>>
  BY <1>1, <1>2, <1>3, PutOK
<1>5. Len(p.line) = Len(w.line) + 1 /\ p.line[Len(p.line)] = Soft
  <2>1. /\ Len(w.line \o <<Soft>>) = Len(w.line) + Len(<<Soft>>)
        /\ \A x \in 1 .. Len(w.line) + Len(<<Soft>>) :
              (w.line \o <<Soft>>)[x] = IF x <= Len(w.line) THEN w.line[x] ELSE <<Soft>>[x - Len(w.line)]
    BY <1>1, <1>2, ConcatProperties
  <2>2. <<Soft>>[1] = Soft
    OBVIOUS
  <2> HIDE DEF p
  <2> QED
    BY <1>1, <1>2, <1>4, <2>1, <2>2
<1>6. ~EndsInWhitespace(p.line)
  BY <1>5 DEF EndsInWhitespace, Soft
<1> HIDE DEF p
<1>7. Len(p.line) <= LineMax /\ Len(p.line) >= LineMax - 2
  BY <1>1, <1>5
<1>8. /\ Fine(InsertCRLF(p, f))
      /\ InsertCRLF(p, f).status = "ok" => InsertCRLF(p, f).line = <<>>
  BY <1>1, <1>4, <1>6, <1>7, CRLFOK
<1> QED
  BY <1>8 DEF InsertSoftLineBreak, p

(* Putting characters at the end of a line that is being built. *)
LEMMA BuildOK ==
    ASSUME input \in Seq(Classes), NEW w, Good(w), NEW c \in Seq(Chars),
           Len(w.line) + Len(c) <= LineMax - 1,
           \A x \in 1 .. Len(c) : c[x][1] \in {"raw", "=", "hi", "lo"}
    PROVE  Good(Put(w, c)) /\ Put(w, c).line = w.line \o c
<1>1. /\ w.line \in Seq(Chars) /\ Len(w.line) \in Nat /\ Len(c) \in Nat
      /\ \A x \in 1 .. Len(w.line) : w.line[x][1] \in {"raw", "=", "hi", "lo"}
      /\ Typed(w) /\ w.status = "ok" /\ AllFit(w.out)
  BY LenProperties DEF Good, Building
<1>2. Len(w.line) + Len(c) <= LineMax + 2
  BY <1>1
<1>3. /\ Typed(Put(w, c)) /\ Put(w, c).out = w.out
      /\ Put(w, c).status = "ok" /\ Put(w, c).line = w.line \o c
  BY <1>1, <1>2, PutOK
<1>4. /\ w.line \o c \in Seq(Chars) /\ Len(w.line \o c) = Len(w.line) + Len(c)
      /\ \A x \in 1 .. Len(w.line) + Len(c) :
            (w.line \o c)[x] = IF x <= Len(w.line) THEN w.line[x] ELSE c[x - Len(w.line)]
  BY <1>1, ConcatProperties
<1>5. \A x \in 1 .. Len(w.line) + Len(c) : (w.line \o c)[x][1] \in {"raw", "=", "hi", "lo"}
  <2> TAKE x \in 1 .. Len(w.line) + Len(c)
  <2>1. CASE x <= Len(w.line)
    BY <1>1, <1>4, <2>1
  <2>2. CASE ~(x <= Len(w.line))
    <3>1. x - Len(w.line) \in 1 .. Len(c)
      BY <1>1, <2>2
    <3> QED
      BY <1>4, <2>2, <3>1
  <2> QED
    BY <2>1, <2>2
<1>6. Building(w.line \o c)
  BY <1>4, <1>5 DEF Building
<1> QED
  BY <1>1, <1>3, <1>6 DEF Good

(* encode leaves a line that has room for a soft line break, whatever it    *)
(* had to break before.                                                    *)
LEMMA EncodeOK ==
    ASSUME input \in Seq(Classes), NEW w, Good(w), NEW j \in 0 .. Len(input), NEW f \in BOOLEAN
    PROVE  /\ Fine(Encode(w, j, f))
           /\ Encode(w, j, f).status = "ok" => ~EndsInWhitespace(Encode(w, j, f).line)
<1> DEFINE r == IF LineMax - 1 - Len(w.line) < 3 THEN InsertSoftLineBreak(w, f) ELSE w
<1>1. Len(w.line) \in Nat /\ Len(w.line) <= LineMax - 1
  BY LenProperties DEF Good, Building
<1>2. Fine(r) /\ (r.status = "ok" => Len(r.line) + 3 <= LineMax - 1)
  <2>1. CASE LineMax - 1 - Len(w.line) < 3
    <3>1. Len(w.line) >= LineMax - 3
      <4> DEFINE a == Len(w.line)
      <4>1. a \in Nat /\ LineMax - 1 - a < 3
        BY <1>1, <2>1
      <4> HIDE DEF a
      <4>2. a >= LineMax - 3
        BY <4>1
      <4> QED
        BY <4>2 DEF a
    <3> QED
      BY <2>1, <3>1, SoftBreakOK
  <2>2. CASE ~(LineMax - 1 - Len(w.line) < 3)
    <3> DEFINE a == Len(w.line)
    <3>1. a \in Nat /\ ~(LineMax - 1 - a < 3) /\ r = w
      BY <1>1, <2>2
    <3> HIDE DEF a, r
    <3>2. a + 3 <= LineMax - 1
      BY <3>1
    <3>3. Fine(w)
      BY DEF Fine, Good
    <3> QED
      BY <3>1, <3>2, <3>3 DEF a
  <2> QED
    BY <2>1, <2>2
<1>3. Encode(w, j, f) = IF r.status # "ok" THEN r ELSE Put(r, Escaped(j))
  BY DEF Encode
<1> HIDE DEF r
<1>4. CASE r.status # "ok"
  BY <1>2, <1>3, <1>4
<1>5. CASE r.status = "ok"
  <2>1. Good(r) /\ r.line \in Seq(Chars) /\ Len(r.line) \in Nat
    BY <1>2, <1>5, LenProperties DEF Fine, Good, Building
  <2>2. /\ Escaped(j) \in Seq(Chars) /\ Len(Escaped(j)) = 3
        /\ \A x \in 1 .. 3 : Escaped(j)[x][1] \in {"=", "hi", "lo"}
    BY CharTypes
  <2>3. \A x \in 1 .. Len(Escaped(j)) : Escaped(j)[x][1] \in {"raw", "=", "hi", "lo"}
    BY <2>2
  <2>4. Good(Put(r, Escaped(j))) /\ Put(r, Escaped(j)).line = r.line \o Escaped(j)
    BY <1>2, <1>5, <2>1, <2>2, <2>3, BuildOK
  <2> DEFINE l == r.line \o Escaped(j)
  <2>5. Len(l) = Len(r.line) + 3 /\ l[Len(l)] = Escaped(j)[3]
    <3>1. /\ Len(l) = Len(r.line) + Len(Escaped(j))
          /\ \A x \in 1 .. Len(r.line) + Len(Escaped(j)) :
                l[x] = IF x <= Len(r.line) THEN r.line[x] ELSE Escaped(j)[x - Len(r.line)]
      BY <2>1, <2>2, ConcatProperties
    <3> HIDE DEF l
    <3> QED
      BY <2>1, <2>2, <3>1
  <2>6. Escaped(j)[3][1] \in {"=", "hi", "lo"}
    BY <2>2
  <2>7. ~EndsInWhitespace(l)
    BY <2>5, <2>6 DEF EndsInWhitespace
  <2> HIDE DEF l
  <2> QED
    BY <1>3, <1>5, <2>4, <2>7 DEF Fine, Good, l
<1> QED
  BY <1>4, <1>5

(* The last character of a line, taken off it. *)
LEMMA FrontOK ==
    ASSUME input \in Seq(Classes), NEW l \in Seq(Chars), EndsInWhitespace(l)
    PROVE  /\ Front(l) \in Seq(Chars) /\ Len(Front(l)) = Len(l) - 1
           /\ \A x \in 1 .. Len(l) - 1 : Front(l)[x] = l[x]
           /\ Last(l)[2] \in 0 .. Len(input) /\ l[Len(l)] = Raw(Last(l)[2])
           /\ l = Front(l) \o <<Raw(Last(l)[2])>>
<1> DEFINE m == Len(l) - 1
           h == Front(l)
           j == Last(l)[2]
<1>1. /\ m \in Nat /\ m + 1 = Len(l) /\ \A x \in 1 .. m + 1 : l[x] \in Chars
      /\ l[m + 1][1] = "raw"
  BY LenProperties, ElementOfSeq DEF EndsInWhitespace
<1>2. h \in Seq(Chars) /\ Len(h) = m /\ \A x \in 1 .. m : h[x] = l[x]
  <2>1. h = SubSeq(l, 1, m)
    BY DEF Front
  <2> HIDE DEF h, m
  <2>2. /\ SubSeq(l, 1, m) \in Seq(Chars)
        /\ Len(SubSeq(l, 1, m)) = IF 1 <= m THEN m - 1 + 1 ELSE 0
        /\ \A x \in 1 .. m - 1 + 1 : SubSeq(l, 1, m)[x] = l[1 + x - 1]
    BY <1>1, SubSeqProperties
  <2> QED
    BY <1>1, <2>1, <2>2
<1>3. j \in 0 .. Len(input) /\ l[m + 1] = Raw(j)
  <2>1. l[m + 1] \in Chars /\ Last(l) = l[m + 1]
    BY <1>1 DEF Last
  <2> QED
    BY <1>1, <2>1 DEF Chars, Raw
<1> HIDE DEF m, h, j
<1>4. l = h \o <<Raw(j)>>
  <2>1. Raw(j) \in Chars
    BY <1>3, CharTypes
  <2>2. /\ Append(h, Raw(j)) \in Seq(Chars) /\ Len(Append(h, Raw(j))) = m + 1
        /\ \A x \in 1 .. m : Append(h, Raw(j))[x] = h[x]
        /\ Append(h, Raw(j))[m + 1] = Raw(j)
    BY <1>2, <2>1, AppendProperties
  <2>3. \A x \in 1 .. m + 1 : l[x] = Append(h, Raw(j))[x]
    <3> SUFFICES ASSUME NEW x \in 1 .. m + 1 PROVE l[x] = Append(h, Raw(j))[x]
      OBVIOUS
    <3>1. x \in 1 .. m \/ x = m + 1
      BY <1>1
    <3>2. CASE x \in 1 .. m
      BY <1>2, <2>2, <3>2
    <3>3. CASE x = m + 1
      BY <1>3, <2>2, <3>3
    <3> QED
      BY <3>1, <3>2, <3>3
  <2>4. l = Append(h, Raw(j))
    BY <1>1, <2>2, <2>3, SeqEqual
  <2> QED
    BY <1>2, <2>1, <2>4, AppendIsConcat
<1> QED
  BY <1>1, <1>2, <1>3, <1>4 DEF m, h, j

(* checkLastByte leaves no white space at the end of the line.              *)
LEMMA CheckOK ==
    ASSUME input \in Seq(Classes), NEW w, Good(w), NEW f \in BOOLEAN
    PROVE  /\ Fine(CheckLastByte(w, f))
           /\ CheckLastByte(w, f).status = "ok" => ~EndsInWhitespace(CheckLastByte(w, f).line)
<1>1. CASE ~EndsInWhitespace(w.line)
  BY <1>1 DEF CheckLastByte, Fine, Good
<1>2. CASE EndsInWhitespace(w.line)
  <2>1. /\ w.line \in Seq(Chars) /\ Len(w.line) \in Nat /\ Len(w.line) <= LineMax - 1
        /\ w.out \in Seq(Seq(Chars)) /\ AllFit(w.out)
    BY LenProperties DEF Good, Building, Typed
  <2> DEFINE l == Front(w.line)
             v == [w EXCEPT !.line = l]
             j == Last(w.line)[2]
  <2>2. /\ l \in Seq(Chars) /\ Len(l) = Len(w.line) - 1
        /\ \A x \in 1 .. Len(w.line) - 1 : l[x] = w.line[x]
        /\ j \in 0 .. Len(input)
    BY <1>2, <2>1, FrontOK
  <2>3. CheckLastByte(w, f) = Encode(v, j, f)
    BY <1>2 DEF CheckLastByte
  <2> HIDE DEF l, j
  <2>4. v = [line |-> l, out |-> w.out, status |-> "ok"]
    <3>1. v = [w EXCEPT !.line = l] /\ w = [line |-> w.line, out |-> w.out, status |-> "ok"]
      BY DEF Good, Typed
    <3> HIDE DEF v
    <3> QED
      BY SMTT(30), <3>1
  <2>5. Building(l)
    <3>1. \A x \in 1 .. Len(w.line) : w.line[x][1] \in {"raw", "=", "hi", "lo"}
      BY DEF Good, Building
    <3>2. \A x \in 1 .. Len(l) : l[x][1] \in {"raw", "=", "hi", "lo"}
      BY SMTT(30), <2>1, <2>2, <3>1
    <3>3. Len(l) <= LineMax - 1
      BY <2>1, <2>2
    <3> QED
      BY <2>2, <3>2, <3>3 DEF Building
  <2>6. Good(v)
    BY <2>1, <2>2, <2>4, <2>5 DEF Good, Typed
  <2> HIDE DEF v
  <2> QED
    BY <2>2, <2>3, <2>6, EncodeOK
<1> QED
  BY <1>1, <1>2

(* The functions keep the line within the array in any case, also after a  *)
(* failure.                                                                *)
LEMMA SizedOK ==
    ASSUME input \in Seq(Classes), NEW w, Sized(w), NEW f \in BOOLEAN
    PROVE  /\ Sized(InsertCRLF(w, f))
           /\ Sized(InsertSoftLineBreak(w, f))
           /\ \A j \in 0 .. Len(input) : Sized(Encode(w, j, f))
           /\ Sized(CheckLastByte(w, f))
<1>1. CRLF \in Seq(Chars) /\ <<Soft>> \in Seq(Chars) /\ \A j \in 0 .. Len(input) : Escaped(j) \in Seq(Chars)
  BY CharTypes
<1>2. ASSUME NEW v, Sized(v), NEW c \in Seq(Chars) PROVE Sized(Put(v, c))
  BY <1>2, PutOK DEF Sized
<1>3. ASSUME NEW v, Sized(v) PROVE Sized(InsertCRLF(v, f))
  <2>1. Sized(Put(v, CRLF))
    BY <1>1, <1>2, <1>3
  <2>2. Sized(Flush(Put(v, CRLF), f))
    BY <2>1, FlushOK DEF Sized
  <2> QED
    BY <1>3, <2>2 DEF InsertCRLF
<1>4. ASSUME NEW v, Sized(v) PROVE Sized(InsertSoftLineBreak(v, f))
  BY <1>1, <1>2, <1>3, <1>4 DEF InsertSoftLineBreak
<1>5. ASSUME NEW v, Sized(v), NEW j \in 0 .. Len(input) PROVE Sized(Encode(v, j, f))
  <2> DEFINE r == IF LineMax - 1 - Len(v.line) < 3 THEN InsertSoftLineBreak(v, f) ELSE v
  <2>1. Sized(r)
    BY <1>4, <1>5
  <2>2. Encode(v, j, f) = IF r.status # "ok" THEN r ELSE Put(r, Escaped(j))
    BY DEF Encode
  <2> HIDE DEF r
  <2>3. Sized(Put(r, Escaped(j)))
    BY <1>1, <1>2, <2>1
  <2> QED
    BY <2>1, <2>2, <2>3
<1>6. Sized(CheckLastByte(w, f))
  <2>1. CASE ~EndsInWhitespace(w.line)
    BY <2>1 DEF CheckLastByte
  <2>2. CASE EndsInWhitespace(w.line)
    <3> DEFINE l == Front(w.line)
               v == [w EXCEPT !.line = l]
               j == Last(w.line)[2]
    <3>1. w.line \in Seq(Chars) /\ Len(w.line) \in Nat /\ Len(w.line) <= LineMax + 2
      BY LenProperties DEF Sized, Typed
    <3>2. l \in Seq(Chars) /\ Len(l) = Len(w.line) - 1 /\ j \in 0 .. Len(input)
      BY <2>2, <3>1, FrontOK
    <3>3. CheckLastByte(w, f) = Encode(v, j, f)
      BY <2>2 DEF CheckLastByte
    <3> HIDE DEF l
    <3>4. Len(l) <= LineMax + 2
      BY <3>1, <3>2
    <3>5. Sized(v)
      <4>1. v = [w EXCEPT !.line = l]
        OBVIOUS
      <4> HIDE DEF v, l
      <4> QED
        BY <3>2, <3>4, <4>1 DEF Sized, Typed
    <3> HIDE DEF v, j
    <3> QED
      BY <1>5, <3>2, <3>3, <3>5
  <2> QED
    BY <2>1, <2>2
<1> QED
  BY <1>3, <1>4, <1>5, <1>6

-----------------------------------------------------------------------------
(* Before the first failure, what is being built and what was handed over  *)
(* are in order.                                                           *)
Sound == ~failed => pc # "panic" /\ Building(line) /\ AllFit(out)

IInv ==
    /\ TypeOK
    /\ Sound
    /\ pc = "encode" => at < hi /\ n = at

(* NewWriter: nothing in the line, nothing handed over.                     *)
LEMMA InitOK == Init => IInv
<1> SUFFICES ASSUME Init PROVE IInv
  OBVIOUS
<1>1. input \in Seq(Classes) /\ Len(input) \in Nat
  BY InputsAssumption, LenProperties DEF Init
<1>2. /\ <<>> \in Seq(Chars) /\ <<>> \in Seq(Seq(Chars)) /\ Len(<<>>) = 0 /\ DOMAIN <<>> = {}
  OBVIOUS
<1>3. TypeOK
  <2>1. line \in Seq(Chars) /\ Len(line) <= LineMax + 2 /\ out \in Seq(Seq(Chars))
    BY <1>2 DEF Init
  <2>2. /\ next \in 0 .. Len(input) /\ hi \in 0 .. Len(input)
        /\ at \in 0 .. hi /\ n \in 0 .. at /\ k \in 0 .. at
    BY <1>1 DEF Init
  <2>3. /\ cr \in BOOLEAN /\ binary \in BOOLEAN /\ failures \in Nat
        /\ pc \in {"idle", "scan", "write", "encode", "return", "closed", "panic"}
    BY DEF Init
  <2> QED
    BY <1>1, <2>1, <2>2, <2>3 DEF TypeOK
<1>4. Sound
  BY <1>2 DEF Init, Sound, Building, AllFit, failed
<1> QED
  BY <1>3, <1>4 DEF IInv, Init

(* What fits depends on the text only. *)
LEMMA AllFitKept ==
    ASSUME UNCHANGED input, NEW o, out' = o
    PROVE  AllFit(out)' <=> AllFit(o)
  BY DEF AllFit, Fit, Body, IsSoft, EndsInWhitespace, Last, Soft

(* A step that leaves the lines alone. *)
LEMMA SoundKept == UNCHANGED <<input, line, out, failures>> /\ pc' # "panic" /\ Sound => Sound'
<1> SUFFICES ASSUME UNCHANGED <<input, line, out, failures>>, pc' # "panic", Sound PROVE Sound'
  OBVIOUS
<1>1. AllFit(out)' <=> AllFit(out)
  BY AllFitKept
<1>2. Building(line)' <=> Building(line)
  BY DEF Building, Chars
<1> QED
  BY <1>1, <1>2 DEF Sound, failed

(* A step of write, encode or Close with outcome r. *)
LEMMA OutcomeOK ==
    ASSUME TypeOK, Sound, NEW r, Sized(r), ~failed => Fine(r), NEW then,
           Outcome(r, then), then # "panic", UNCHANGED <<input, binary>>
    PROVE  /\ line' \in Seq(Chars)' /\ Len(line') <= LineMax + 2 /\ out' \in Seq(Seq(Chars))'
           /\ failures' \in Nat /\ pc' \in {then, "return", "panic"}
           /\ Sound'
<1>1. /\ r.line \in Seq(Chars) /\ Len(r.line) <= LineMax + 2 /\ r.out \in Seq(Seq(Chars))
      /\ r.status \in {"ok", "failed", "panic"}
  BY DEF Sized, Typed
<1>2. line' = r.line /\ out' = r.out
      /\ failures' = (IF r.status = "failed" THEN failures + 1 ELSE failures)
      /\ (r.status = "ok" => pc' = then)
      /\ pc' \in {then, "return", "panic"}
  BY <1>1 DEF Outcome
<1>3. Chars' = Chars
  BY DEF Chars
<1>4. failures \in Nat
  BY DEF TypeOK
<1>5. ASSUME ~failed' PROVE pc' # "panic" /\ Building(line)' /\ AllFit(out)'
  <2>1. r.status # "failed" /\ ~failed
    BY <1>2, <1>4, <1>5 DEF failed
  <2>2. Good(r)
    BY <2>1 DEF Fine
  <2>3. pc' # "panic"
    BY <1>2, <2>2 DEF Good
  <2>4. Building(line)'
    BY <1>2, <1>3, <2>2 DEF Good, Building
  <2>5. AllFit(out)'
    BY <1>2, <2>2, AllFitKept DEF Good
  <2> QED
    BY <2>3, <2>4, <2>5
<1>6. line' \in Seq(Chars)' /\ Len(line') <= LineMax + 2 /\ out' \in Seq(Seq(Chars))'
  BY <1>1, <1>2, <1>3
<1> QED
  BY <1>2, <1>4, <1>5, <1>6 DEF Sound

(* The writer as a step finds it. *)
LEMMA StartOK ==
    ASSUME TypeOK, Sound, pc # "panic"
    PROVE  /\ input \in Seq(Classes) /\ Len(input) \in Nat
           /\ Sized(W) /\ Typed(W) /\ W.line = line /\ W.out = out /\ W.status = "ok"
           /\ ~failed => Good(W)
  BY LenProperties DEF TypeOK, Sound, W, Sized, Typed, Good

(* Steps that touch neither the line nor what was handed over. *)
LEMMA QuietOK ==
    ASSUME IInv, UNCHANGED <<input, binary, line, out, failures>>, pc # "panic",
           next' \in 0 .. Len(input), hi' \in 0 .. Len(input), at' \in 0 .. hi',
           n' \in 0 .. at', k' \in 0 .. at', cr' \in BOOLEAN,
           pc' \in {"idle", "scan", "write", "encode", "return"},
           pc' = "encode" => at' < hi' /\ n' = at'
    PROVE  IInv'
<1>1. Chars' = Chars
  BY DEF Chars
<1>2. TypeOK'
  BY <1>1 DEF IInv, TypeOK
<1>3. Sound'
  <2>1. pc' # "panic"
    OBVIOUS
  <2> QED
    BY <2>1, SoundKept DEF IInv
<1> QED
  BY <1>2, <1>3 DEF IInv

(* Steps of write, encode and Close with outcome r. *)
LEMMA LoudOK ==
    ASSUME IInv, NEW r, Sized(r), ~failed => Fine(r), NEW then, Outcome(r, then),
           then \in {"scan", "write", "closed"}, UNCHANGED <<input, binary>>,
           next' \in 0 .. Len(input), hi' \in 0 .. Len(input), at' \in 0 .. hi',
           n' \in 0 .. at', k' \in 0 .. at', cr' \in BOOLEAN
    PROVE  IInv'
<1>1. TypeOK /\ Sound /\ then # "panic"
  BY DEF IInv
<1>2. /\ line' \in Seq(Chars)' /\ Len(line') <= LineMax + 2 /\ out' \in Seq(Seq(Chars))'
      /\ failures' \in Nat /\ pc' \in {then, "return", "panic"}
      /\ Sound'
  BY <1>1, OutcomeOK
<1>3. TypeOK'
  BY <1>1, <1>2 DEF TypeOK
<1> QED
  BY <1>2, <1>3 DEF IInv

(* Every step of the calls keeps the invariant, failed hand-overs too.      *)
LEMMA StepOK == IInv /\ [Next]_vars => IInv'
<1> SUFFICES ASSUME IInv, [Next]_vars PROVE IInv'
  OBVIOUS
<1>1. /\ TypeOK /\ Sound /\ input \in Seq(Classes) /\ Len(input) \in Nat
      /\ next \in 0 .. Len(input) /\ hi \in 0 .. Len(input) /\ at \in 0 .. hi
      /\ n \in 0 .. at /\ k \in 0 .. at /\ cr \in BOOLEAN
  BY LenProperties DEF IInv, TypeOK
<1>2. Fails \subseteq BOOLEAN
  BY DEF Fails
<1>3. ASSUME NEW m \in Sizes, Write(m) PROVE IInv'
  <2>1. m \in Nat
    BY SizesAssumption
  <2> QED
    BY <1>1, <1>3, <2>1, QuietOK DEF Write
<1>4. ASSUME Scan PROVE IInv'
  <2>1. PICK e \in at .. hi : /\ at' = e
                            /\ pc' = IF e > n THEN "write" ELSE IF e < hi THEN "encode" ELSE "return"
    BY <1>4 DEF Scan
  <2>2. /\ UNCHANGED <<input, binary, next, line, cr, out, hi, n, failures>> /\ k' = n /\ pc = "scan"
    BY <1>4 DEF Scan
  <2>3. n' \in 0 .. at' /\ k' \in 0 .. at' /\ at' \in 0 .. hi' /\ (pc' = "encode" => at' < hi' /\ n' = at')
    BY <1>1, <2>1, <2>2
  <2> QED
    BY <1>1, <2>1, <2>2, <2>3, QuietOK
<1>5. ASSUME SkipLF PROVE IInv'
  <2>1. /\ UNCHANGED <<input, binary, next, line, out, pc, hi, n, at, failures>> /\ pc = "write"
        /\ k < at /\ k' = k + 1 /\ cr' = FALSE
    BY <1>5 DEF SkipLF, InBatch
  <2>2. k' \in 0 .. at'
    BY <1>1, <2>1
  <2> QED
    BY <1>1, <2>1, <2>2, QuietOK
<1>6. ASSUME BreakLine PROVE IInv'
  <2>1. PICK soft \in Fails, hard \in Fails : Outcome(InsertCRLF(CheckLastByte(W, soft), hard), "write")
    BY <1>6 DEF BreakLine
  <2> DEFINE c == CheckLastByte(W, soft)
             r == InsertCRLF(c, hard)
  <2>2. soft \in BOOLEAN /\ hard \in BOOLEAN /\ pc # "panic"
    BY <1>2, <1>6 DEF BreakLine, InBatch
  <2>3. Sized(W) /\ (~failed => Good(W))
    BY <1>1, <2>2, StartOK
  <2>4. Sized(c) /\ (~failed => Fine(c) /\ (c.status = "ok" => ~EndsInWhitespace(c.line)))
    BY <1>1, <2>2, <2>3, SizedOK, CheckOK
  <2> HIDE DEF c
  <2>5. Sized(r)
    BY <1>1, <2>2, <2>4, SizedOK
  <2>6. ASSUME ~failed PROVE Fine(r)
    <3>1. CASE c.status # "ok"
      BY <2>4, <2>6, <3>1 DEF InsertCRLF
    <3>2. CASE c.status = "ok"
      <4>1. Good(c) /\ ~EndsInWhitespace(c.line)
        BY <2>4, <2>6, <3>2 DEF Fine
      <4>2. Typed(c) /\ AllFit(c.out) /\ Building(c.line)
        BY <4>1 DEF Good
      <4>3. ~IsSoft(c.line \o CRLF)
        BY <1>1, <4>2, BuildingNotSoft
      <4>4. Len(c.line) <= LineMax
        BY <4>2, LenProperties DEF Building
      <4> QED
        BY <1>1, <2>2, <3>2, <4>1, <4>2, <4>3, <4>4, CRLFOK
    <3> QED
      BY <3>1, <3>2
  <2>7. /\ UNCHANGED <<input, binary, next, hi, n, at>>
        /\ k' \in {k, k + 1} /\ k < at /\ cr' \in BOOLEAN
    BY <1>6 DEF BreakLine, InBatch
  <2>8. Outcome(r, "write")
    BY <2>1 DEF c
  <2> HIDE DEF r
  <2>9. k' \in 0 .. at'
    BY <1>1, <2>7
  <2> QED
    BY <1>1, <2>5, <2>6, <2>7, <2>8, <2>9, LoudOK
<1>7. ASSUME PutByte PROVE IInv'
  <2> DEFINE s(f) == IF Len(line) = LineMax - 1 THEN InsertSoftLineBreak(W, f) ELSE W
             r(f) == IF s(f).status = "ok" THEN Put(s(f), <<Raw(k + 1)>>) ELSE s(f)
  <2>1. PICK soft \in Fails : Outcome(r(soft), "write")
    BY <1>7 DEF PutByte
  <2>2. soft \in BOOLEAN /\ pc # "panic" /\ k < at
    BY <1>2, <1>7 DEF PutByte, InBatch
  <2>3. Sized(W) /\ (~failed => Good(W)) /\ W.line = line
    BY <1>1, <2>2, StartOK
  <2>4. Sized(s(soft)) /\ (~failed => Fine(s(soft)))
    <3>1. CASE Len(line) = LineMax - 1
      <4>1. s(soft) = InsertSoftLineBreak(W, soft)
        BY <3>1
      <4>2. Sized(InsertSoftLineBreak(W, soft))
        BY <1>1, <2>2, <2>3, SizedOK
      <4>3. Len(W.line) >= LineMax - 3
        BY <2>3, <3>1
      <4>4. ~failed => Fine(InsertSoftLineBreak(W, soft))
        BY <1>1, <2>2, <2>3, <4>3, SoftBreakOK
      <4> QED
        BY <4>1, <4>2, <4>4
    <3>2. CASE Len(line) # LineMax - 1
      BY <2>3, <3>2 DEF Fine, Good
    <3> QED
      BY <3>1, <3>2
  <2>5. ~failed /\ s(soft).status = "ok" => Good(s(soft)) /\ Len(s(soft).line) + 1 <= LineMax - 1
    <3>1. CASE Len(line) = LineMax - 1
      <4>1. ~failed /\ s(soft).status = "ok" => s(soft).line = <<>>
        BY <1>1, <2>2, <2>3, <3>1, SoftBreakOK
      <4> QED
        BY <2>4, <4>1 DEF Fine
    <3>2. CASE Len(line) # LineMax - 1
      <4>1. s(soft) = W /\ (~failed => Building(line))
        BY <2>3, <3>2 DEF Good
      <4>2. ~failed => Len(line) \in Nat /\ Len(line) <= LineMax - 1
        BY <4>1, LenProperties DEF Building
      <4> QED
        BY <2>3, <3>2, <4>1, <4>2
    <3> QED
      BY <3>1, <3>2
  <2>6. <<Raw(k + 1)>> \in Seq(Chars) /\ Len(<<Raw(k + 1)>>) = 1 /\ <<Raw(k + 1)>>[1][1] = "raw"
    <3>1. k + 1 \in 0 .. Len(input)
      BY <1>1, <2>2
    <3>2. Raw(k + 1) \in Chars
      BY <1>1, <3>1, CharTypes
    <3> QED
      BY <3>2 DEF Raw
  <2> HIDE DEF s
  <2>7. Sized(r(soft))
    BY <2>4, <2>6, PutOK DEF Sized
  <2>8. ASSUME ~failed PROVE Fine(r(soft))
    <3>1. CASE s(soft).status # "ok"
      BY <2>4, <2>8, <3>1
    <3>2. CASE s(soft).status = "ok"
      <4> DEFINE c == <<Raw(k + 1)>>
      <4>1. c \in Seq(Chars) /\ Len(c) = 1 /\ c[1][1] = "raw"
        BY <2>6
      <4> HIDE DEF c
      <4>2. \A x \in 1 .. Len(c) : c[x][1] \in {"raw", "=", "hi", "lo"}
        BY <4>1
      <4>3. Good(Put(s(soft), c))
        BY <1>1, <2>5, <2>8, <3>2, <4>1, <4>2, BuildOK
      <4> QED
        BY <3>2, <4>3 DEF Fine, Good, c
    <3> QED
      BY <3>1, <3>2
  <2>9. /\ UNCHANGED <<input, binary, next, hi, n, at>>
        /\ k' \in {k, k + 1} /\ cr' \in BOOLEAN
    BY <1>1, <1>7 DEF PutByte
  <2> HIDE DEF r
  <2>10. k' \in 0 .. at'
    BY <1>1, <2>2, <2>9
  <2> QED
    BY <1>1, <2>1, <2>7, <2>8, <2>9, <2>10, LoudOK
<1>8. ASSUME BatchDone PROVE IInv'
  BY <1>1, <1>8, QuietOK DEF BatchDone
<1>9. ASSUME EncodeByte PROVE IInv'
  <2>1. PICK soft \in Fails : Outcome(Encode(W, at + 1, soft), "scan")
    BY <1>9 DEF EncodeByte
  <2>2. soft \in BOOLEAN /\ pc # "panic" /\ pc = "encode" /\ at < hi /\ n = at
    BY <1>2, <1>9 DEF EncodeByte, IInv
  <2>3. Sized(W) /\ (~failed => Good(W)) /\ at + 1 \in 0 .. Len(input)
    BY <1>1, <2>2, StartOK
  <2>4. Sized(Encode(W, at + 1, soft)) /\ (~failed => Fine(Encode(W, at + 1, soft)))
    BY <1>1, <2>2, <2>3, SizedOK, EncodeOK
  <2>5. /\ UNCHANGED <<input, binary, next, cr, hi, k>>
        /\ \/ n' = n + 1 /\ at' = at + 1
           \/ UNCHANGED <<n, at>>
    BY <1>9 DEF EncodeByte
  <2>6. at' \in 0 .. hi' /\ n' \in 0 .. at' /\ k' \in 0 .. at'
    BY <1>1, <2>2, <2>5
  <2> QED
    BY <1>1, <2>1, <2>4, <2>5, <2>6, LoudOK
<1>10. ASSUME Return PROVE IInv'
  BY <1>1, <1>10, QuietOK DEF Return
<1>11. ASSUME Close PROVE IInv'
  <2>1. PICK soft \in Fails, hard \in Fails : Outcome(Flush(CheckLastByte(W, soft), hard), "closed")
    BY <1>11 DEF Close
  <2> DEFINE c == CheckLastByte(W, soft)
             r == Flush(c, hard)
  <2>2. soft \in BOOLEAN /\ hard \in BOOLEAN /\ pc # "panic"
    BY <1>2, <1>11 DEF Close
  <2>3. Sized(W) /\ (~failed => Good(W))
    BY <1>1, <2>2, StartOK
  <2>4. Sized(c) /\ (~failed => Fine(c) /\ (c.status = "ok" => ~EndsInWhitespace(c.line)))
    BY <1>1, <2>2, <2>3, SizedOK, CheckOK
  <2> HIDE DEF c
  <2>5. /\ Sized(r)
        /\ c.status # "ok" => r = c
        /\ c.status = "ok" => IF hard THEN r.status = "failed"
              ELSE r = [line |-> <<>>, out |-> Append(c.out, c.line), status |-> "ok"]
    BY <2>2, <2>4, FlushOK DEF Sized
  <2>6. ASSUME ~failed PROVE Fine(r)
    <3>1. CASE c.status # "ok"
      BY <2>4, <2>5, <2>6, <3>1
    <3>2. CASE c.status = "ok" /\ hard
      BY <2>5, <3>2 DEF Fine, Sized
    <3>3. CASE c.status = "ok" /\ ~hard
      <4>1. Good(c) /\ ~EndsInWhitespace(c.line)
        BY <2>4, <2>6, <3>3 DEF Fine
      <4>2. c.out \in Seq(Seq(Chars)) /\ AllFit(c.out) /\ Building(c.line) /\ c.line \in Seq(Chars)
        BY <4>1 DEF Good, Typed
      <4>3. Fit(c.line)
        <5>1. ~IsSoft(c.line) /\ Body(c.line) = c.line
          BY <1>1, <4>2, BuildingNotSoft
        <5>2. Len(c.line) <= LineMax
          BY <4>2, LenProperties DEF Building
        <5> QED
          BY <4>1, <5>1, <5>2 DEF Fit
      <4>4. AllFit(Append(c.out, c.line))
        BY <4>2, <4>3, AppendFit
      <4>5. r = [line |-> <<>>, out |-> Append(c.out, c.line), status |-> "ok"]
        BY <2>5, <3>3
      <4>6. Building(<<>>)
        BY DEF Building
      <4> HIDE DEF r
      <4> QED
        BY <2>5, <4>4, <4>5, <4>6 DEF Fine, Good, Sized
    <3> QED
      BY <3>1, <3>2, <3>3
  <2>7. UNCHANGED <<input, binary, next, cr, hi, n, at, k>>
    BY <1>11 DEF Close
  <2>8. Outcome(r, "closed")
    BY <2>1 DEF c
  <2> HIDE DEF r
  <2> QED
    BY <1>1, <2>5, <2>6, <2>7, <2>8, LoudOK
<1>12. CASE UNCHANGED vars
  <2>1. UNCHANGED <<input, binary, next, line, cr, out, pc, hi, n, at, k, failures>>
    BY <1>12 DEF vars
  <2>2. Chars' = Chars
    BY <2>1 DEF Chars
  <2>3. Sound'
    <3>1. CASE pc = "panic"
      BY <2>1, <3>1 DEF IInv, Sound, failed
    <3>2. CASE pc # "panic"
      BY <2>1, <3>2, SoundKept DEF IInv
    <3> QED
      BY <3>1, <3>2
  <2>4. TypeOK'
    BY <2>1, <2>2 DEF IInv, TypeOK
  <2> QED
    BY <2>1, <2>3, <2>4 DEF IInv
<1> QED
  BY <1>3, <1>4, <1>5, <1>6, <1>7, <1>8, <1>9, <1>10, <1>11, <1>12 DEF Next, Stopped

(* The invariant holds in every state, between and within calls.            *)
LEMMA Inductive == Spec => []IInv
<1>1. Init => IInv
  BY InitOK
<1>2. IInv /\ [Next]_vars => IInv'
  BY StepOK
<1> QED
  BY <1>1, <1>2, PTL DEF Spec

(* Every reachable state of the writer is well-typed: w.i stays within the *)
(* array, and Write's indices stay within the slice, also after failures.  *)
THEOREM TypeCorrect == Spec => []TypeOK
<1>1. IInv => TypeOK
  BY DEF IInv
<1> QED
  BY <1>1, Inductive, PTL

(* Until the underlying writer fails, no line handed over is longer than   *)
(* lineMaxLen, and a soft line break stands only near the end of a line.   *)
THEOREM LinesFit == Spec => []LineFits
<1>1. IInv => LineFits
  BY DEF IInv, Sound, LineFits, AllFit, Fit
<1> QED
  BY <1>1, Inductive, PTL

(* Until the underlying writer fails, the array line is never overrun.     *)
THEOREM LineNeverOverrun == Spec => []InBounds
<1>1. IInv => InBounds
  BY DEF IInv, Sound, InBounds
<1> QED
  BY <1>1, Inductive, PTL

(* Until the underlying writer fails, no line handed over ends in a space  *)
(* or a tab.                                                               *)
THEOREM WhitespaceProtected == Spec => []NoTrailingWhitespace
<1>1. IInv => NoTrailingWhitespace
  BY DEF IInv, Sound, NoTrailingWhitespace, AllFit, Fit
<1> QED
  BY <1>1, Inductive, PTL

-----------------------------------------------------------------------------
(* FlattenSeq, unfolded from its end. *)
LEMMA FlattenIs ==
    ASSUME NEW T, NEW s \in Seq(Seq(T)), NEW f \in [0 .. Len(s) -> Seq(T)],
           f[0] = <<>>, \A i \in 1 .. Len(s) : f[i] = f[i - 1] \o s[i]
    PROVE  FlattenSeq(s) = f[Len(s)]
<1> DEFINE N == Len(s)
<1>1. N \in Nat /\ \A i \in 1 .. N : s[i] \in Seq(T)
  BY LenProperties, ElementOfSeq
<1>a. N # 0 => s[1] \in Seq(T) /\ f[1] = s[1]
  <2> SUFFICES ASSUME N # 0 PROVE s[1] \in Seq(T) /\ f[1] = s[1]
    OBVIOUS
  <2>1. 1 \in 1 .. N /\ 1 - 1 = 0
    BY <1>1
  <2>2. s[1] \in Seq(T) /\ f[1] = f[1 - 1] \o s[1]
    BY <1>1, <2>1
  <2>3. f[1] = <<>> \o s[1]
    BY <2>1, <2>2
  <2> QED
    BY <2>2, <2>3, ConcatEmptySeq
<1>2. CASE N = 0
  BY <1>2 DEF FlattenSeq
<1>3. CASE N # 0
  <2> DEFINE F(h) == h = [i \in 1 .. N |-> IF i = 1 THEN s[i] ELSE h[i - 1] \o s[i]]
             g == [i \in 1 .. N |-> f[i]]
             c == CHOOSE h : F(h)
  <2>1. \A i \in 1 .. N : f[i] = IF i = 1 THEN s[i] ELSE g[i - 1] \o s[i]
    <3> SUFFICES ASSUME NEW i \in 1 .. N PROVE f[i] = IF i = 1 THEN s[i] ELSE g[i - 1] \o s[i]
      OBVIOUS
    <3>1. CASE i = 1
      BY <1>3, <1>a, <3>1
    <3>2. CASE i # 1
      <4>1. i - 1 \in 1 .. N
        BY <1>1, <3>2
      <4> QED
        BY <3>2, <4>1
    <3> QED
      BY <3>1, <3>2
  <2>2. F(g)
    BY <2>1
  <2>3. F(c)
    BY <2>2, Zenon
  <2> HIDE DEF F, c, g
  <2> DEFINE S == { i \in 0 .. N : i = 0 \/ c[i] = f[i] }
  <2>4. 0 \in S
    BY <1>1
  <2>5. ASSUME NEW i \in 0 .. N - 1, i \in S PROVE i + 1 \in S
    <3>1. i + 1 \in 1 .. N /\ f[i + 1] = f[i] \o s[i + 1]
      <4>1. i + 1 \in 1 .. N /\ (i + 1) - 1 = i
        BY <1>1
      <4> QED
        BY <4>1
    <3>2. c[i + 1] = IF i + 1 = 1 THEN s[i + 1] ELSE c[(i + 1) - 1] \o s[i + 1]
      BY <2>3, <3>1 DEF F
    <3>3. CASE i = 0
      <4>1. c[i + 1] = f[i + 1]
        BY <1>3, <1>a, <3>2, <3>3
      <4>2. i + 1 \in 0 .. N
        BY <3>1
      <4> QED
        BY <4>1, <4>2
    <3>4. CASE i # 0
      <4>1. c[i] = f[i] /\ (i + 1) - 1 = i /\ i + 1 # 1
        BY <2>5, <3>4
      <4>2. c[i + 1] = f[i + 1]
        BY <3>1, <3>2, <4>1
      <4>3. i + 1 \in 0 .. N
        BY <3>1
      <4> QED
        BY <4>2, <4>3
    <3> QED
      BY <3>3, <3>4
  <2> HIDE DEF S
  <2>6. N \in S
    <3>1. 0 .. N \subseteq S
      BY <1>1, <2>4, <2>5, SetInductionUpTo
    <3> QED
      BY <1>1, <3>1
  <2>7. c[N] = f[N]
    BY <1>3, <2>6 DEF S
  <2>8. FlattenSeq(s) = c[N]
    BY <1>3 DEF FlattenSeq, c, F
  <2> QED
    BY <2>7, <2>8
<1> QED
  BY <1>2, <1>3

(* The concatenation of the first i sequences, as a function of i. *)
LEMMA FlattenFunction ==
    ASSUME NEW T, NEW s \in Seq(Seq(T))
    PROVE  \E f \in [0 .. Len(s) -> Seq(T)] : f[0] = <<>> /\ \A i \in 1 .. Len(s) : f[i] = f[i - 1] \o s[i]
<1> DEFINE N == Len(s)
           g == [p \in (1 .. N) \X Seq(T) |-> p[2] \o s[p[1]]]
<1>1. N \in Nat /\ \A i \in 1 .. N : s[i] \in Seq(T)
  BY LenProperties, ElementOfSeq
<1>2. \A i \in 1 .. N, w \in Seq(T) : w \o s[i] \in Seq(T)
  BY <1>1, ConcatProperties
<1>3. g \in [(1 .. N) \X Seq(T) -> Seq(T)] /\ <<>> \in Seq(T)
  BY <1>2
<1>4. \A i \in 1 .. N, w \in Seq(T) : g[<<i, w>>] = w \o s[i]
  <2> SUFFICES ASSUME NEW i \in 1 .. N, NEW w \in Seq(T) PROVE g[<<i, w>>] = w \o s[i]
    OBVIOUS
  <2>1. <<i, w>> \in (1 .. N) \X Seq(T)
    OBVIOUS
  <2> QED
    BY <2>1
<1> HIDE DEF g
<1>5. HasRecursiveFunction(N, Seq(T), <<>>, g)
  BY <1>1, <1>3, RecursiveFunction
<1>6. PICK f \in [0 .. N -> Seq(T)] : f[0] = <<>> /\ \A i \in 1 .. N : f[i] = g[<<i, f[i - 1]>>]
  BY <1>5 DEF HasRecursiveFunction
<1>7. \A i \in 1 .. N : f[i] = f[i - 1] \o s[i]
  <2> SUFFICES ASSUME NEW i \in 1 .. N PROVE f[i] = f[i - 1] \o s[i]
    OBVIOUS
  <2>1. f[i - 1] \in Seq(T)
    BY <1>1, <1>6
  <2> QED
    BY <1>4, <1>6, <2>1
<1> QED
  BY <1>6, <1>7

(* One sequence more is one more at the end. *)
LEMMA FlattenAppend ==
    ASSUME NEW T, NEW s \in Seq(Seq(T)), NEW p \in Seq(T)
    PROVE  /\ FlattenSeq(s) \in Seq(T)
           /\ FlattenSeq(Append(s, p)) = FlattenSeq(s) \o p
<1> DEFINE t == Append(s, p)
           N == Len(s)
<1>1. /\ t \in Seq(Seq(T)) /\ N \in Nat /\ Len(t) = N + 1
      /\ \A i \in 1 .. N : t[i] = s[i]
      /\ t[N + 1] = p
  BY AppendProperties, LenProperties
<1> HIDE DEF t
<1>2. PICK f \in [0 .. Len(t) -> Seq(T)] : f[0] = <<>> /\ \A i \in 1 .. Len(t) : f[i] = f[i - 1] \o t[i]
  BY <1>1, FlattenFunction
<1>3. FlattenSeq(t) = f[N + 1]
  BY <1>1, <1>2, FlattenIs
<1> DEFINE g == [i \in 0 .. N |-> f[i]]
<1>4. g \in [0 .. N -> Seq(T)] /\ g[0] = <<>> /\ g[N] = f[N]
  BY <1>1, <1>2
<1>5. \A i \in 1 .. N : g[i] = g[i - 1] \o s[i]
  <2> SUFFICES ASSUME NEW i \in 1 .. N PROVE g[i] = g[i - 1] \o s[i]
    OBVIOUS
  <2>1. i \in 1 .. Len(t) /\ i - 1 \in 0 .. N /\ i \in 0 .. N
    BY <1>1
  <2> QED
    BY <1>1, <1>2, <2>1
<1> HIDE DEF g
<1>6. FlattenSeq(s) = g[N]
  BY <1>4, <1>5, FlattenIs
<1>7. f[N + 1] = f[N] \o p /\ f[N] \in Seq(T)
  <2>1. N + 1 \in 1 .. Len(t) /\ (N + 1) - 1 = N /\ N \in 0 .. Len(t)
    BY <1>1
  <2> QED
    BY <1>1, <1>2, <2>1
<1> QED
  BY <1>3, <1>4, <1>6, <1>7 DEF t

(* Nothing to concatenate. *)
LEMMA FlattenEmpty == FlattenSeq(<<>>) = <<>>
  BY DEF FlattenSeq

-----------------------------------------------------------------------------
(* The parts of a character. *)
LEMMA CharIs ==
    ASSUME input \in Seq(Classes), NEW c \in Chars
    PROVE  c[1] \in {"raw", "=", "hi", "lo", "soft", "cr", "lf"} /\ c[2] \in Nat
  BY LenProperties DEF Chars

(* What a decoder makes of one character is data. *)
LEMMA DataTyped ==
    ASSUME input \in Seq(Classes), NEW l \in Seq(Chars), NEW x \in 1 .. Len(l)
    PROVE  Data(l, x) \in Seq(Nat)
<1>1. l[x] \in Chars
  BY ElementOfSeq
<1>2. <<l[x][2]>> \in Seq(Nat) /\ <<0>> \in Seq(Nat) /\ <<>> \in Seq(Nat)
  BY <1>1, CharIs
<1> QED
  BY <1>2, Zenon DEF Data

(* What a character adds to a line. *)
New(l, c) ==
    IF c[1] \in {"raw", "="} THEN <<c[2]>>
    ELSE IF c[1] = "lf" /\ (Len(l) >= 2 => l[Len(l) - 1] # Soft) THEN <<0>>
    ELSE <<>>

(* A character more on a line: what it adds to the data. *)
LEMMA LineDataAppend ==
    ASSUME input \in Seq(Classes), NEW l \in Seq(Chars), NEW c \in Chars
    PROVE  /\ LineData(l) \in Seq(Nat)
           /\ LineData(Append(l, c)) = LineData(l) \o New(l, c)
<1> DEFINE m == Append(l, c)
           N == Len(l)
<1>1. /\ m \in Seq(Chars) /\ N \in Nat /\ Len(m) = N + 1
      /\ \A x \in 1 .. N : m[x] = l[x]
      /\ m[N + 1] = c
      /\ DOMAIN l = 1 .. N /\ DOMAIN m = 1 .. N + 1
  BY AppendProperties, LenProperties
<1> HIDE DEF m
<1> DEFINE s == [x \in 1 .. N |-> Data(l, x)]
           t == [x \in 1 .. N + 1 |-> Data(m, x)]
           p == Data(m, N + 1)
<1>2. \A x \in 1 .. N : Data(m, x) = Data(l, x) /\ Data(l, x) \in Seq(Nat)
  <2> SUFFICES ASSUME NEW x \in 1 .. N PROVE Data(m, x) = Data(l, x) /\ Data(l, x) \in Seq(Nat)
    OBVIOUS
  <2>1. m[x] = l[x] /\ (x > 2 => m[x - 2] = l[x - 2])
    BY <1>1
  <2> QED
    BY <2>1, DataTyped DEF Data
<1>3. p = New(l, c) /\ p \in Seq(Nat)
  <2>1. p \in Seq(Nat)
    BY <1>1, DataTyped
  <2>2. m[N + 1] = c /\ (N + 1 > 2 <=> N >= 2) /\ (N >= 2 => m[(N + 1) - 2] = l[N - 1])
    BY <1>1
  <2> QED
    BY <2>1, <2>2 DEF Data, New
<1>4. s \in Seq(Seq(Nat)) /\ Len(s) = N /\ \A x \in 1 .. N : s[x] = Data(l, x)
  BY <1>1, <1>2
<1>5. t \in Seq(Seq(Nat)) /\ Len(t) = N + 1 /\ \A x \in 1 .. N + 1 : t[x] = Data(m, x)
  <2>1. \A x \in 1 .. N + 1 : Data(m, x) \in Seq(Nat)
    BY <1>1, DataTyped
  <2> QED
    BY <1>1, <2>1
<1>6. LineData(l) = FlattenSeq(s) /\ LineData(m) = FlattenSeq(t)
  BY <1>1 DEF LineData
<1> HIDE DEF s, t, p
<1>7. t = Append(s, p)
  <2>1. /\ Append(s, p) \in Seq(Seq(Nat)) /\ Len(Append(s, p)) = N + 1
        /\ \A x \in 1 .. N : Append(s, p)[x] = s[x]
        /\ Append(s, p)[N + 1] = p
    BY <1>3, <1>4, AppendProperties
  <2>2. \A x \in 1 .. N + 1 : t[x] = Append(s, p)[x]
    <3> SUFFICES ASSUME NEW x \in 1 .. N + 1 PROVE t[x] = Append(s, p)[x]
      OBVIOUS
    <3>1. CASE x \in 1 .. N
      BY <1>2, <1>4, <1>5, <2>1, <3>1
    <3>2. CASE x = N + 1
      BY <1>1, <1>5, <2>1, <3>2 DEF p
    <3>3. x \in 1 .. N \/ x = N + 1
      BY <1>1
    <3> QED
      BY <3>1, <3>2, <3>3
  <2> QED
    BY <1>5, <2>1, <2>2, SeqEqual
<1>8. FlattenSeq(s) \in Seq(Nat) /\ FlattenSeq(Append(s, p)) = FlattenSeq(s) \o p
  BY <1>3, <1>4, FlattenAppend
<1> QED
  BY <1>3, <1>6, <1>7, <1>8 DEF m

(* An empty line has no data. *)
LEMMA LineDataEmpty == LineData(<<>>) = <<>>
<1>1. [x \in DOMAIN <<>> |-> Data(<<>>, x)] = <<>>
  OBVIOUS
<1> QED
  BY <1>1, FlattenEmpty DEF LineData

(* A data byte, raw or escaped; a soft line break; the end of a line. *)
LEMMA LineDataPut ==
    ASSUME input \in Seq(Classes), NEW l \in Seq(Chars)
    PROVE  /\ \A j \in 0 .. Len(input) :
                 /\ LineData(l \o <<Raw(j)>>) = LineData(l) \o <<j>>
                 /\ LineData(l \o Escaped(j)) = LineData(l) \o <<j>>
           /\ LineData(l \o <<Soft>>) = LineData(l)
           /\ LineData(l \o CRLF) = LineData(l) \o IF Len(l) > 0 /\ l[Len(l)] = Soft THEN <<>> ELSE <<0>>
<1>1. /\ LineData(l) \in Seq(Nat) /\ Len(input) \in Nat /\ Len(l) \in Nat
      /\ Soft \in Chars /\ <<"cr", 0>> \in Chars /\ <<"lf", 0>> \in Chars
  <2>1. Soft \in Chars
    BY CharTypes
  <2> QED
    BY <2>1, LineDataAppend, LenProperties DEF Chars, Soft
<1>a. LineData(l) \o <<>> = LineData(l)
  BY <1>1, ConcatEmptySeq
<1>2. ASSUME NEW j \in 0 .. Len(input) PROVE LineData(l \o <<Raw(j)>>) = LineData(l) \o <<j>>
  <2>1. Raw(j) \in Chars
    BY CharTypes
  <2>2. l \o <<Raw(j)>> = Append(l, Raw(j))
    BY <2>1, AppendIsConcat
  <2>3. New(l, Raw(j)) = <<j>>
    BY DEF New, Raw
  <2> QED
    BY <2>1, <2>2, <2>3, LineDataAppend
<1>3. ASSUME NEW j \in 0 .. Len(input) PROVE LineData(l \o Escaped(j)) = LineData(l) \o <<j>>
  <2> DEFINE a == Append(l, <<"=", j>>)
             b == Append(a, <<"hi", j>>)
             c == Append(b, <<"lo", j>>)
  <2>1. <<"=", j>> \in Chars /\ <<"hi", j>> \in Chars /\ <<"lo", j>> \in Chars
    BY <1>1 DEF Chars
  <2>2. a \in Seq(Chars) /\ b \in Seq(Chars)
    BY <2>1, AppendProperties
  <2>3. l \o Escaped(j) = c
    <3> DEFINE N == Len(l)
               d == l \o Escaped(j)
    <3>0. N \in Nat
      BY <1>1
    <3>1. /\ a \in Seq(Chars) /\ Len(a) = N + 1 /\ (\A x \in 1 .. N : a[x] = l[x]) /\ a[N + 1] = <<"=", j>>
      BY <2>1, AppendProperties
    <3> HIDE DEF a
    <3>2. /\ b \in Seq(Chars) /\ Len(b) = N + 2
          /\ (\A x \in 1 .. N : b[x] = l[x]) /\ b[N + 1] = <<"=", j>> /\ b[N + 2] = <<"hi", j>>
      BY <2>1, <3>0, <3>1, AppendProperties
    <3> HIDE DEF b
    <3>3. /\ c \in Seq(Chars) /\ Len(c) = N + 3
          /\ (\A x \in 1 .. N : c[x] = l[x])
          /\ c[N + 1] = <<"=", j>> /\ c[N + 2] = <<"hi", j>> /\ c[N + 3] = <<"lo", j>>
      BY <2>1, <3>0, <3>2, AppendProperties
    <3> HIDE DEF c
    <3>4. /\ Escaped(j) \in Seq(Chars) /\ Len(Escaped(j)) = 3
          /\ Escaped(j)[1] = <<"=", j>> /\ Escaped(j)[2] = <<"hi", j>> /\ Escaped(j)[3] = <<"lo", j>>
      BY <2>1 DEF Escaped
    <3>5. /\ d \in Seq(Chars) /\ Len(d) = N + 3
          /\ (\A x \in 1 .. N : d[x] = l[x])
          /\ d[N + 1] = Escaped(j)[1] /\ d[N + 2] = Escaped(j)[2] /\ d[N + 3] = Escaped(j)[3]
      <4> DEFINE t == Escaped(j)
      <4>1. t \in Seq(Chars) /\ Len(t) = 3
        BY <3>4
      <4> HIDE DEF t
      <4>2. /\ d \in Seq(Chars) /\ Len(d) = N + Len(t)
            /\ \A x \in 1 .. N + Len(t) : d[x] = IF x <= N THEN l[x] ELSE t[x - N]
        BY <4>1, ConcatProperties DEF t
      <4> HIDE DEF d, N
      <4>3. \A x \in 1 .. N + 3 : d[x] = IF x <= N THEN l[x] ELSE t[x - N]
        BY <4>1, <4>2
      <4>4. \A x \in 1 .. N : d[x] = l[x]
        BY <3>0, <4>3
      <4>5. ASSUME NEW y \in 1 .. 3 PROVE d[N + y] = t[y]
        <5>1. N + y \in 1 .. N + 3 /\ ~(N + y <= N) /\ (N + y) - N = y
          BY <3>0
        <5> QED
          BY <4>3, <5>1
      <4> QED
        BY <4>1, <4>2, <4>4, <4>5 DEF t
    <3> HIDE DEF d
    <3>6. \A x \in 1 .. N + 3 : c[x] = d[x]
      <4> SUFFICES ASSUME NEW x \in 1 .. N + 3 PROVE c[x] = d[x]
        OBVIOUS
      <4>1. x \in 1 .. N \/ x = N + 1 \/ x = N + 2 \/ x = N + 3
        BY <3>0
      <4>2. CASE x \in 1 .. N
        BY <3>0, <3>3, <3>5, <4>2
      <4>3. CASE x = N + 1
        BY <3>0, <3>3, <3>4, <3>5, <4>3
      <4>4. CASE x = N + 2
        BY <3>0, <3>3, <3>4, <3>5, <4>4
      <4>5. CASE x = N + 3
        BY <3>0, <3>3, <3>4, <3>5, <4>5
      <4> QED
        BY <4>1, <4>2, <4>3, <4>4, <4>5
    <3> QED
      BY <3>3, <3>5, <3>6, SeqEqual DEF d
  <2>4. New(l, <<"=", j>>) = <<j>> /\ New(a, <<"hi", j>>) = <<>> /\ New(b, <<"lo", j>>) = <<>>
    BY DEF New
  <2> HIDE DEF a, b, c
  <2>5. LineData(a) = LineData(l) \o <<j>>
    BY <2>1, <2>4, LineDataAppend DEF a
  <2>6. LineData(a) \in Seq(Nat) /\ LineData(b) \in Seq(Nat)
    BY <2>1, <2>2, LineDataAppend
  <2>7. LineData(b) = LineData(a) \o <<>>
    BY <2>1, <2>2, <2>4, LineDataAppend DEF b
  <2>8. LineData(c) = LineData(b) \o <<>>
    BY <2>1, <2>2, <2>4, LineDataAppend DEF c
  <2>9. LineData(c) = LineData(a)
    BY <2>6, <2>7, <2>8, ConcatEmptySeq
  <2> QED
    BY <2>3, <2>5, <2>9
<1>4. LineData(l \o <<Soft>>) = LineData(l)
  <2>1. l \o <<Soft>> = Append(l, Soft)
    BY <1>1, AppendIsConcat
  <2>2. New(l, Soft) = <<>>
    BY DEF New, Soft
  <2> QED
    BY <1>1, <1>a, <2>1, <2>2, LineDataAppend
<1>5. LineData(l \o CRLF) = LineData(l) \o IF Len(l) > 0 /\ l[Len(l)] = Soft THEN <<>> ELSE <<0>>
  <2> DEFINE a == Append(l, <<"cr", 0>>)
             b == Append(a, <<"lf", 0>>)
  <2>1. /\ a \in Seq(Chars) /\ Len(a) = Len(l) + 1
        /\ \A x \in 1 .. Len(l) : a[x] = l[x]
    BY <1>1, AppendProperties
  <2>2. l \o CRLF = b
    BY <1>1 DEF CRLF
  <2>3. New(l, <<"cr", 0>>) = <<>>
    BY DEF New
  <2>4. New(a, <<"lf", 0>>) = IF Len(l) > 0 /\ l[Len(l)] = Soft THEN <<>> ELSE <<0>>
    <3>1. (Len(a) >= 2 <=> Len(l) > 0) /\ (Len(l) > 0 => a[Len(a) - 1] = l[Len(l)])
      BY <1>1, <2>1
    <3> QED
      BY <3>1 DEF New
  <2> HIDE DEF a, b
  <2>5. LineData(a) = LineData(l)
    BY <1>1, <1>a, <2>3, LineDataAppend DEF a
  <2>6. LineData(b) = LineData(a) \o New(a, <<"lf", 0>>)
    BY <1>1, <2>1, LineDataAppend DEF b
  <2> QED
    BY <2>2, <2>4, <2>5, <2>6
<1> QED
  BY <1>2, <1>3, <1>4, <1>5

(* What a writer has taken so far means the same as its lines. *)
Sent(w) == Decoded(w.out) \o LineData(w.line)

(* A line more. *)
LEMMA DecodedAppend ==
    ASSUME input \in Seq(Classes), NEW lines \in Seq(Seq(Chars)), NEW l \in Seq(Chars)
    PROVE  /\ Decoded(lines) \in Seq(Nat) /\ LineData(l) \in Seq(Nat)
           /\ Decoded(Append(lines, l)) = Decoded(lines) \o LineData(l)
<1> DEFINE m == Append(lines, l)
           N == Len(lines)
<1>0. \A x \in Seq(Chars) : LineData(x) \in Seq(Nat)
  <2>1. Soft \in Chars
    BY CharTypes
  <2> QED
    BY <2>1, LineDataAppend
<1>1. /\ m \in Seq(Seq(Chars)) /\ N \in Nat /\ Len(m) = N + 1
      /\ \A x \in 1 .. N : m[x] = lines[x] /\ lines[x] \in Seq(Chars)
      /\ m[N + 1] = l
      /\ DOMAIN lines = 1 .. N /\ DOMAIN m = 1 .. N + 1
  BY AppendProperties, LenProperties, ElementOfSeq
<1> HIDE DEF m
<1> DEFINE s == [x \in 1 .. N |-> LineData(lines[x])]
           t == [x \in 1 .. N + 1 |-> LineData(m[x])]
           p == LineData(l)
<1>3. p \in Seq(Nat)
  BY <1>0
<1>4. s \in Seq(Seq(Nat)) /\ Len(s) = N /\ \A x \in 1 .. N : s[x] = LineData(lines[x])
  BY <1>0, <1>1
<1>5. t \in Seq(Seq(Nat)) /\ Len(t) = N + 1 /\ \A x \in 1 .. N + 1 : t[x] = LineData(m[x])
  <2>1. \A x \in 1 .. N + 1 : LineData(m[x]) \in Seq(Nat)
    BY <1>0, <1>1
  <2> QED
    BY <1>1, <2>1
<1>6. Decoded(lines) = FlattenSeq(s) /\ Decoded(m) = FlattenSeq(t)
  BY <1>1 DEF Decoded
<1> HIDE DEF s, t, p
<1>7. t = Append(s, p)
  <2>1. /\ Append(s, p) \in Seq(Seq(Nat)) /\ Len(Append(s, p)) = N + 1
        /\ \A x \in 1 .. N : Append(s, p)[x] = s[x]
        /\ Append(s, p)[N + 1] = p
    BY <1>3, <1>4, AppendProperties
  <2>2. \A x \in 1 .. N + 1 : t[x] = Append(s, p)[x]
    <3> SUFFICES ASSUME NEW x \in 1 .. N + 1 PROVE t[x] = Append(s, p)[x]
      OBVIOUS
    <3>1. CASE x \in 1 .. N
      BY <1>1, <1>4, <1>5, <2>1, <3>1
    <3>2. CASE x = N + 1
      BY <1>1, <1>5, <2>1, <3>2 DEF p
    <3>3. x \in 1 .. N \/ x = N + 1
      BY <1>1
    <3> QED
      BY <3>1, <3>2, <3>3
  <2> QED
    BY <1>5, <2>1, <2>2, SeqEqual
<1>8. FlattenSeq(s) \in Seq(Nat) /\ FlattenSeq(Append(s, p)) = FlattenSeq(s) \o p
  BY <1>3, <1>4, FlattenAppend
<1> QED
  BY <1>3, <1>6, <1>7, <1>8 DEF m, p

(* A byte of the text more. *)
LEMMA MeantAppend ==
    ASSUME NEW m \in Nat
    PROVE  Meant(0) = <<>> /\ Meant(m) \in Seq(Nat) /\ Meant(m + 1) = Meant(m) \o Meaning(m + 1)
<1>1. ASSUME NEW j \in Nat PROVE Meaning(j) \in Seq(Nat)
  <2>1. <<j>> \in Seq(Nat) /\ <<0>> \in Seq(Nat) /\ <<>> \in Seq(Nat)
    OBVIOUS
  <2> QED
    BY <2>1, Zenon DEF Meaning
<1> DEFINE s == [j \in 1 .. m |-> Meaning(j)]
           t == [j \in 1 .. m + 1 |-> Meaning(j)]
           p == Meaning(m + 1)
<1>2. Meant(0) = <<>>
  <2>1. [j \in 1 .. 0 |-> Meaning(j)] = <<>>
    OBVIOUS
  <2> QED
    BY <2>1, FlattenEmpty DEF Meant
<1>3. p \in Seq(Nat)
  BY <1>1
<1>4. s \in Seq(Seq(Nat)) /\ Len(s) = m /\ \A x \in 1 .. m : s[x] = Meaning(x)
  BY <1>1
<1>5. t \in Seq(Seq(Nat)) /\ Len(t) = m + 1 /\ \A x \in 1 .. m + 1 : t[x] = Meaning(x)
  BY <1>1
<1>6. Meant(m) = FlattenSeq(s) /\ Meant(m + 1) = FlattenSeq(t)
  BY DEF Meant
<1> HIDE DEF s, t
<1>7. t = Append(s, p)
  <2> HIDE DEF p
  <2>1. /\ Append(s, p) \in Seq(Seq(Nat)) /\ Len(Append(s, p)) = m + 1
        /\ \A x \in 1 .. m : Append(s, p)[x] = s[x]
        /\ Append(s, p)[m + 1] = p
    BY <1>3, <1>4, AppendProperties
  <2>2. \A x \in 1 .. m + 1 : t[x] = Append(s, p)[x]
    <3> SUFFICES ASSUME NEW x \in 1 .. m + 1 PROVE t[x] = Append(s, p)[x]
      OBVIOUS
    <3>1. CASE x \in 1 .. m
      BY <1>4, <1>5, <2>1, <3>1
    <3>2. CASE x = m + 1
      BY <1>5, <2>1, <3>2 DEF p
    <3>3. x \in 1 .. m \/ x = m + 1
      OBVIOUS
    <3> QED
      BY <3>1, <3>2, <3>3
  <2> QED
    BY <1>5, <2>1, <2>2, SeqEqual
<1> HIDE DEF p
<1>8. FlattenSeq(s) \in Seq(Nat) /\ FlattenSeq(Append(s, p)) = FlattenSeq(s) \o p
  BY <1>3, <1>4, FlattenAppend
<1> QED
  BY <1>2, <1>3, <1>6, <1>7, <1>8 DEF p

-----------------------------------------------------------------------------
(* What the functions add to what has been sent. *)
LEMMA SentTyped ==
    ASSUME input \in Seq(Classes), NEW w, Typed(w)
    PROVE  /\ Sent(w) \in Seq(Nat) /\ Decoded(w.out) \in Seq(Nat) /\ LineData(w.line) \in Seq(Nat)
           /\ Decoded(Append(w.out, w.line)) = Sent(w)
<1>1. w.line \in Seq(Chars) /\ w.out \in Seq(Seq(Chars))
  BY DEF Typed
<1>2. /\ Decoded(w.out) \in Seq(Nat) /\ LineData(w.line) \in Seq(Nat)
      /\ Decoded(Append(w.out, w.line)) = Decoded(w.out) \o LineData(w.line)
  BY <1>1, DecodedAppend
<1> QED
  BY <1>2, ConcatProperties DEF Sent

(* Concatenation is associative, for data. *)
LEMMA DataConcat == \A a, b, c \in Seq(Nat) : a \o (b \o c) = (a \o b) \o c
  BY SMTT(30), ConcatAssociative

(* Put adds what the characters add to the line. *)
LEMMA SentPut ==
    ASSUME input \in Seq(Classes), NEW w, Typed(w), NEW c \in Seq(Chars), NEW d \in Seq(Nat),
           Len(w.line) + Len(c) <= LineMax + 2, LineData(w.line \o c) = LineData(w.line) \o d
    PROVE  Sent(Put(w, c)) = Sent(w) \o d
<1>1. Put(w, c).out = w.out /\ Put(w, c).line = w.line \o c
  BY PutOK
<1>2. Decoded(w.out) \in Seq(Nat) /\ LineData(w.line) \in Seq(Nat)
  BY SentTyped
<1>3. Sent(Put(w, c)) = Decoded(w.out) \o (LineData(w.line) \o d)
  BY <1>1 DEF Sent
<1>4. Decoded(w.out) \o (LineData(w.line) \o d) = (Decoded(w.out) \o LineData(w.line)) \o d
  BY <1>2, DataConcat, Zenon
<1> QED
  BY <1>3, <1>4 DEF Sent

(* A line that is handed over has been sent before. *)
LEMMA SentFlush ==
    ASSUME input \in Seq(Classes), NEW w, Typed(w), NEW f \in BOOLEAN, Flush(w, f).status = "ok"
    PROVE  Sent(Flush(w, f)) = Sent(w) /\ Flush(w, f).line = <<>>
<1>1. Flush(w, f) = [line |-> <<>>, out |-> Append(w.out, w.line), status |-> "ok"]
  BY FlushOK
<1>2. Sent(Flush(w, f)) = Sent(w) \o <<>>
  <2>1. Sent(Flush(w, f)) = Decoded(Append(w.out, w.line)) \o LineData(<<>>)
    BY <1>1 DEF Sent
  <2> QED
    BY <2>1, SentTyped, LineDataEmpty
<1> QED
  BY <1>1, <1>2, SentTyped, ConcatEmptySeq

(* A line break means 0, behind a soft line break nothing. *)
LEMMA SentCRLF ==
    ASSUME input \in Seq(Classes), NEW w, Typed(w), w.status = "ok", Len(w.line) <= LineMax,
           NEW f \in BOOLEAN, InsertCRLF(w, f).status = "ok"
    PROVE  Sent(InsertCRLF(w, f)) =
              Sent(w) \o IF Len(w.line) > 0 /\ w.line[Len(w.line)] = Soft THEN <<>> ELSE <<0>>
<1> DEFINE d == IF Len(w.line) > 0 /\ w.line[Len(w.line)] = Soft THEN <<>> ELSE <<0>>
           p == Put(w, CRLF)
<1>1. w.line \in Seq(Chars) /\ Len(w.line) \in Nat /\ CRLF \in Seq(Chars) /\ Len(CRLF) = 2
  BY CharTypes, LenProperties DEF Typed
<1>2. d \in Seq(Nat)
  <2>1. <<>> \in Seq(Nat) /\ <<0>> \in Seq(Nat)
    OBVIOUS
  <2> QED
    BY <2>1, Zenon
<1>3. LineData(w.line \o CRLF) = LineData(w.line) \o d
  BY <1>1, LineDataPut
<1> HIDE DEF d
<1>4. Len(w.line) + Len(CRLF) <= LineMax + 2
  BY <1>1
<1>5. Sent(p) = Sent(w) \o d /\ Typed(p)
  BY <1>1, <1>2, <1>3, <1>4, SentPut, PutOK
<1>6. InsertCRLF(w, f) = Flush(p, f)
  BY DEF InsertCRLF
<1> HIDE DEF p
<1>7. Sent(Flush(p, f)) = Sent(p)
  BY <1>5, <1>6, SentFlush
<1> QED
  BY <1>5, <1>6, <1>7 DEF d

(* A soft line break means nothing. *)
LEMMA SentSoftBreak ==
    ASSUME input \in Seq(Classes), NEW w, Good(w), NEW f \in BOOLEAN,
           InsertSoftLineBreak(w, f).status = "ok"
    PROVE  Sent(InsertSoftLineBreak(w, f)) = Sent(w)
<1> DEFINE p == Put(w, <<Soft>>)
<1>1. w.line \in Seq(Chars) /\ Len(w.line) \in Nat /\ Len(w.line) <= LineMax - 1 /\ Typed(w) /\ w.status = "ok"
  BY LenProperties DEF Good, Building
<1>2. <<Soft>> \in Seq(Chars) /\ Len(<<Soft>>) = 1 /\ <<>> \in Seq(Nat)
  BY CharTypes
<1>3. Len(w.line) + Len(<<Soft>>) <= LineMax + 2
  BY <1>1, <1>2
<1>4. Sent(p) = Sent(w)
  <2>1. LineData(w.line \o <<Soft>>) = LineData(w.line) \o <<>>
    BY <1>1, LineDataPut, SentTyped, ConcatEmptySeq
  <2>2. Sent(p) = Sent(w) \o <<>>
    BY <1>1, <1>2, <1>3, <2>1, SentPut
  <2> QED
    BY <1>1, <2>2, SentTyped, ConcatEmptySeq
<1>5. Typed(p) /\ p.status = "ok" /\ p.line = w.line \o <<Soft>>
  BY <1>1, <1>2, <1>3, PutOK
<1>6. Len(p.line) = Len(w.line) + 1 /\ p.line[Len(p.line)] = Soft
  <2>1. w.line \o <<Soft>> = Append(w.line, Soft)
    BY <1>1, CharTypes, AppendIsConcat
  <2>2. Soft \in Chars
    BY CharTypes
  <2> HIDE DEF p
  <2> QED
    BY <1>1, <1>5, <2>1, <2>2, AppendProperties
<1>7. InsertSoftLineBreak(w, f) = InsertCRLF(p, f)
  BY DEF InsertSoftLineBreak
<1> HIDE DEF p
<1>8. Len(p.line) <= LineMax /\ Len(p.line) > 0
  BY <1>1, <1>6
<1>9. Sent(InsertCRLF(p, f)) = Sent(p) \o <<>>
  BY <1>5, <1>6, <1>7, <1>8, SentCRLF
<1> QED
  BY <1>4, <1>5, <1>7, <1>9, SentTyped, ConcatEmptySeq

(* An encoded byte means itself, whatever had to be broken before. *)
LEMMA SentEncode ==
    ASSUME input \in Seq(Classes), NEW w, Good(w), NEW j \in 0 .. Len(input), NEW f \in BOOLEAN,
           Encode(w, j, f).status = "ok"
    PROVE  Sent(Encode(w, j, f)) = Sent(w) \o <<j>>
<1> DEFINE r == IF LineMax - 1 - Len(w.line) < 3 THEN InsertSoftLineBreak(w, f) ELSE w
<1>1. Encode(w, j, f) = IF r.status # "ok" THEN r ELSE Put(r, Escaped(j))
  BY DEF Encode
<1>2. r.status = "ok"
  BY <1>1
<1>3. Sent(r) = Sent(w) /\ Good(r)
  <2>1. CASE LineMax - 1 - Len(w.line) < 3
    <3>1. Len(w.line) >= LineMax - 3
      <4> DEFINE a == Len(w.line)
      <4>1. a \in Nat /\ LineMax - 1 - a < 3
        BY <2>1, LenProperties DEF Good, Building
      <4> HIDE DEF a
      <4>2. a >= LineMax - 3
        BY <4>1
      <4> QED
        BY <4>2 DEF a
    <3> QED
      BY <1>2, <2>1, <3>1, SoftBreakOK, SentSoftBreak DEF Fine
  <2>2. CASE ~(LineMax - 1 - Len(w.line) < 3)
    BY <2>2
  <2> QED
    BY <2>1, <2>2
<1>4. Escaped(j) \in Seq(Chars) /\ Len(Escaped(j)) = 3 /\ <<j>> \in Seq(Nat)
  BY CharTypes
<1> HIDE DEF r
<1>5. r.line \in Seq(Chars) /\ Len(r.line) + Len(Escaped(j)) <= LineMax + 2 /\ Typed(r)
  BY <1>3, <1>4, LenProperties DEF Good, Building
<1>6. LineData(r.line \o Escaped(j)) = LineData(r.line) \o <<j>>
  BY <1>5, LineDataPut
<1>7. Sent(Put(r, Escaped(j))) = Sent(r) \o <<j>>
  BY <1>4, <1>5, <1>6, SentPut
<1> QED
  BY <1>1, <1>2, <1>3, <1>7

(* The white space that is encoded after all means what it meant before. *)
LEMMA SentCheck ==
    ASSUME input \in Seq(Classes), NEW w, Good(w), NEW f \in BOOLEAN, CheckLastByte(w, f).status = "ok"
    PROVE  Sent(CheckLastByte(w, f)) = Sent(w)
<1>1. CASE ~EndsInWhitespace(w.line)
  BY <1>1 DEF CheckLastByte
<1>2. CASE EndsInWhitespace(w.line)
  <2> DEFINE l == Front(w.line)
             v == [w EXCEPT !.line = l]
             j == Last(w.line)[2]
  <2>1. /\ w = [line |-> w.line, out |-> w.out, status |-> "ok"] /\ AllFit(w.out)
        /\ w.line \in Seq(Chars) /\ w.out \in Seq(Seq(Chars)) /\ Len(w.line) \in Nat /\ Typed(w)
    BY LenProperties DEF Good, Typed, Building
  <2>a. Len(w.line) <= LineMax - 1 /\ \A x \in 1 .. Len(w.line) : w.line[x][1] \in {"raw", "=", "hi", "lo"}
    BY DEF Good, Building
  <2>2. /\ l \in Seq(Chars) /\ Len(l) = Len(w.line) - 1
        /\ \A x \in 1 .. Len(w.line) - 1 : l[x] = w.line[x]
        /\ j \in 0 .. Len(input) /\ w.line = l \o <<Raw(j)>>
    BY <1>2, <2>1, FrontOK
  <2>3. CheckLastByte(w, f) = Encode(v, j, f)
    BY <1>2 DEF CheckLastByte
  <2> HIDE DEF l, j
  <2>4. v = [line |-> l, out |-> w.out, status |-> "ok"]
    <3>1. v = [w EXCEPT !.line = l] /\ w = [line |-> w.line, out |-> w.out, status |-> "ok"]
      BY <2>1
    <3> HIDE DEF v
    <3> QED
      BY SMTT(30), <3>1
  <2>5. Building(l)
    <3>1. \A x \in 1 .. Len(l) : l[x][1] \in {"raw", "=", "hi", "lo"}
      BY SMTT(30), <2>1, <2>2, <2>a
    <3>2. Len(l) <= LineMax - 1
      BY <2>1, <2>2, <2>a
    <3> QED
      BY <2>2, <3>1, <3>2 DEF Building
  <2>6. Good(v) /\ Typed(v)
    BY <2>1, <2>2, <2>4, <2>5 DEF Good, Typed
  <2>7. Sent(Encode(v, j, f)) = Sent(v) \o <<j>>
    <3> HIDE DEF v
    <3> QED
      BY <2>2, <2>3, <2>6, SentEncode
  <2>8. Sent(v) = Decoded(w.out) \o LineData(l)
    BY <2>4 DEF Sent
  <2>9. Sent(w) = Decoded(w.out) \o (LineData(l) \o <<j>>)
    BY <2>2, LineDataPut DEF Sent
  <2>10. Decoded(w.out) \in Seq(Nat) /\ LineData(l) \in Seq(Nat) /\ <<j>> \in Seq(Nat)
    BY <2>1, <2>2, DecodedAppend
  <2> HIDE DEF v
  <2>11. Decoded(w.out) \o (LineData(l) \o <<j>>) = (Decoded(w.out) \o LineData(l)) \o <<j>>
    BY <2>10, DataConcat
  <2> QED
    BY <2>3, <2>7, <2>8, <2>9, <2>11
<1> QED
  BY <1>1, <1>2

-----------------------------------------------------------------------------
(* A byte that some character of a line stands for, of any line. *)
Carries(l, j) == \E x \in 1 .. Len(l) : l[x][2] = j
Has(w, j)     == Carries(w.line, j) \/ \E x \in 1 .. Len(w.out) : Carries(w.out[x], j)

(* Put keeps what is there, and adds the bytes of what it puts. *)
LEMMA HasPut ==
    ASSUME NEW w, Typed(w), NEW c \in Seq(Chars), NEW j
    PROVE  /\ Has(w, j) => Has(Put(w, c), j)
           /\ Put(w, c).status = "ok" /\ Carries(c, j) => Has(Put(w, c), j)
<1>1. /\ w = [line |-> w.line, out |-> w.out, status |-> w.status]
      /\ w.line \in Seq(Chars)
  BY DEF Typed
<1>2. /\ Len(w.line \o c) = Len(w.line) + Len(c) /\ Len(w.line) \in Nat /\ Len(c) \in Nat
      /\ \A x \in 1 .. Len(w.line) + Len(c) :
            (w.line \o c)[x] = IF x <= Len(w.line) THEN w.line[x] ELSE c[x - Len(w.line)]
  BY <1>1, ConcatProperties, LenProperties
<1>3. CASE Len(w.line) + Len(c) > LineMax + 2
  <2>1. Put(w, c) = [line |-> w.line, out |-> w.out, status |-> "panic"]
    BY <1>1, <1>3 DEF Put
  <2> QED
    BY <2>1 DEF Has
<1>4. CASE ~(Len(w.line) + Len(c) > LineMax + 2)
  <2>1. Put(w, c) = [line |-> w.line \o c, out |-> w.out, status |-> w.status]
    BY <1>1, <1>4 DEF Put
  <2>2. ASSUME Carries(w.line, j) PROVE Carries(w.line \o c, j)
    <3>1. PICK x \in 1 .. Len(w.line) : w.line[x][2] = j
      BY <2>2 DEF Carries
    <3>2. x \in 1 .. Len(w.line \o c) /\ (w.line \o c)[x][2] = j
      BY <1>2, <3>1
    <3> QED
      BY <3>2 DEF Carries
  <2>3. ASSUME Carries(c, j) PROVE Carries(w.line \o c, j)
    <3>1. PICK x \in 1 .. Len(c) : c[x][2] = j
      BY <2>3 DEF Carries
    <3> DEFINE y == Len(w.line) + x
    <3>2. y \in 1 .. Len(w.line) + Len(c) /\ ~(y <= Len(w.line)) /\ y - Len(w.line) = x
      BY <1>2, <3>1
    <3> HIDE DEF y
    <3>3. y \in 1 .. Len(w.line \o c) /\ (w.line \o c)[y][2] = j
      BY <1>2, <3>1, <3>2
    <3> QED
      BY <3>3 DEF Carries
  <2> QED
    BY <2>1, <2>2, <2>3 DEF Has
<1> QED
  BY <1>3, <1>4

(* So does flush: a line that is handed over is still there. *)
LEMMA HasFlush ==
    ASSUME NEW w, Typed(w), NEW f \in BOOLEAN, NEW j, Has(w, j)
    PROVE  Has(Flush(w, f), j)
<1>1. /\ w = [line |-> w.line, out |-> w.out, status |-> w.status]
      /\ w.line \in Seq(Chars) /\ w.out \in Seq(Seq(Chars))
  BY DEF Typed
<1>2. CASE w.status # "ok"
  BY <1>2 DEF Flush
<1>3. CASE w.status = "ok" /\ f
  <2>1. Flush(w, f) = [line |-> w.line, out |-> w.out, status |-> "failed"]
    BY <1>1, <1>3 DEF Flush
  <2> QED
    BY <2>1 DEF Has
<1>4. CASE w.status = "ok" /\ ~f
  <2> DEFINE o == Append(w.out, w.line)
  <2>1. Flush(w, f) = [line |-> <<>>, out |-> o, status |-> "ok"]
    BY <1>1, <1>4 DEF Flush
  <2>2. /\ Len(w.out) \in Nat /\ Len(o) = Len(w.out) + 1
        /\ \A x \in 1 .. Len(w.out) : o[x] = w.out[x]
        /\ o[Len(w.out) + 1] = w.line
    BY <1>1, AppendProperties, LenProperties
  <2> HIDE DEF o
  <2>3. \E x \in 1 .. Len(o) : Carries(o[x], j)
    <3>1. CASE Carries(w.line, j)
      BY <2>2, <3>1
    <3>2. CASE ~Carries(w.line, j)
      <4>1. PICK x \in 1 .. Len(w.out) : Carries(w.out[x], j)
        BY <3>2 DEF Has
      <4> QED
        BY <2>2, <4>1
    <3> QED
      BY <3>1, <3>2
  <2> QED
    BY <2>1, <2>3 DEF Has
<1> QED
  BY <1>2, <1>3, <1>4

(* Line breaks, encode and checkLastByte lose nothing but white space. *)
LEMMA HasKept ==
    ASSUME input \in Seq(Classes), NEW w, Sized(w), NEW f \in BOOLEAN, NEW j, Has(w, j)
    PROVE  /\ Has(InsertCRLF(w, f), j)
           /\ Has(InsertSoftLineBreak(w, f), j)
           /\ \A i \in 0 .. Len(input) : Has(Encode(w, i, f), j)
<1>1. CRLF \in Seq(Chars) /\ <<Soft>> \in Seq(Chars) /\ \A i \in 0 .. Len(input) : Escaped(i) \in Seq(Chars)
  BY CharTypes
<1>2. ASSUME NEW v, Typed(v), Has(v, j) PROVE Has(InsertCRLF(v, f), j)
  <2>1. Typed(Put(v, CRLF)) /\ Has(Put(v, CRLF), j)
    BY <1>1, <1>2, PutOK, HasPut
  <2>2. Has(Flush(Put(v, CRLF), f), j)
    BY <2>1, HasFlush
  <2> QED
    BY <1>2, <2>2 DEF InsertCRLF
<1>3. Typed(w)
  BY DEF Sized
<1>4. Has(InsertSoftLineBreak(w, f), j)
  <2>1. Typed(Put(w, <<Soft>>)) /\ Has(Put(w, <<Soft>>), j)
    BY <1>1, <1>3, PutOK, HasPut
  <2> QED
    BY <1>2, <2>1 DEF InsertSoftLineBreak
<1>5. ASSUME NEW i \in 0 .. Len(input) PROVE Has(Encode(w, i, f), j)
  <2> DEFINE r == IF LineMax - 1 - Len(w.line) < 3 THEN InsertSoftLineBreak(w, f) ELSE w
  <2>1. Has(r, j)
    BY <1>4
  <2>2. Encode(w, i, f) = IF r.status # "ok" THEN r ELSE Put(r, Escaped(i))
    BY DEF Encode
  <2>3. Typed(r)
    BY <1>3, SizedOK DEF Sized
  <2> HIDE DEF r
  <2>4. Has(Put(r, Escaped(i)), j)
    BY <1>1, <2>1, <2>3, HasPut
  <2> QED
    BY <2>1, <2>2, <2>4
<1> QED
  BY <1>2, <1>3, <1>4, <1>5

(* A byte that encode has put in the line is there. *)
LEMMA HasEncoded ==
    ASSUME input \in Seq(Classes), NEW w, Sized(w), NEW f \in BOOLEAN, NEW j \in 0 .. Len(input),
           Encode(w, j, f).status = "ok"
    PROVE  Has(Encode(w, j, f), j)
<1> DEFINE r == IF LineMax - 1 - Len(w.line) < 3 THEN InsertSoftLineBreak(w, f) ELSE w
<1>1. Encode(w, j, f) = IF r.status # "ok" THEN r ELSE Put(r, Escaped(j))
  BY DEF Encode
<1>2. Typed(r)
  BY SizedOK DEF Sized
<1> HIDE DEF r
<1>3. Escaped(j) \in Seq(Chars) /\ Carries(Escaped(j), j)
  <2>1. Escaped(j) \in Seq(Chars) /\ Len(Escaped(j)) = 3
    BY CharTypes
  <2>2. Escaped(j)[1][2] = j
    BY DEF Escaped
  <2>3. 1 \in 1 .. Len(Escaped(j))
    BY <2>1
  <2> QED
    BY <2>1, <2>2, <2>3 DEF Carries
<1> QED
  BY <1>1, <1>2, <1>3, HasPut

(* checkLastByte takes only white space off the line. *)
LEMMA HasChecked ==
    ASSUME input \in Seq(Classes), NEW w, Sized(w), NEW f \in BOOLEAN, NEW j, Has(w, j), input[j] # "ws"
    PROVE  Has(CheckLastByte(w, f), j)
<1>1. CASE ~EndsInWhitespace(w.line)
  BY <1>1 DEF CheckLastByte
<1>2. CASE EndsInWhitespace(w.line)
  <2> DEFINE l == Front(w.line)
             v == [w EXCEPT !.line = l]
             i == Last(w.line)[2]
  <2>1. w.line \in Seq(Chars) /\ Len(w.line) \in Nat /\ Len(w.line) <= LineMax + 2
    BY LenProperties DEF Sized, Typed
  <2>2. /\ l \in Seq(Chars) /\ Len(l) = Len(w.line) - 1
        /\ \A x \in 1 .. Len(w.line) - 1 : l[x] = w.line[x]
        /\ i \in 0 .. Len(input) /\ w.line[Len(w.line)] = Raw(i)
    BY <1>2, <2>1, FrontOK
  <2>3. CheckLastByte(w, f) = Encode(v, i, f)
    BY <1>2 DEF CheckLastByte
  <2> HIDE DEF l, i
  <2>4. Typed(v) /\ v.line = l /\ v.out = w.out
    <3>1. v = [w EXCEPT !.line = l] /\ w = [line |-> w.line, out |-> w.out, status |-> w.status]
      BY DEF Sized, Typed
    <3> HIDE DEF v
    <3>2. v = [line |-> l, out |-> w.out, status |-> w.status]
      BY SMTT(30), <3>1
    <3> QED
      BY <2>2, <3>2 DEF Sized, Typed
  <2>5. Sized(v)
    <3>1. Len(l) <= LineMax + 2
      BY <2>1, <2>2
    <3> QED
      BY <2>4, <3>1 DEF Sized
  <2>6. w.line[Len(w.line)][2] # j
    <3>1. input[w.line[Len(w.line)][2]] = "ws"
      BY <1>2 DEF EndsInWhitespace
    <3> QED
      BY <3>1
  <2>7. Carries(w.line, j) => Carries(l, j)
    BY SMTT(30), <2>1, <2>2, <2>6 DEF Carries
  <2>8. Has(v, j)
    BY <2>4, <2>7 DEF Has
  <2> HIDE DEF v
  <2> QED
    BY <2>2, <2>3, <2>5, <2>8, HasKept
<1> QED
  BY <1>1, <1>2

-----------------------------------------------------------------------------
(* How much of the text is done: in a batch up to k, else up to n. *)
Done == IF pc = "write" THEN k ELSE n

(* What Write's indices say of each other and of the text: a batch is of   *)
(* bytes that need not be encoded, and the byte behind it must be.         *)
BatchInv ==
    /\ next <= n
    /\ pc \in {"idle", "closed"} => n = next
    /\ pc = "scan" => at = n
    /\ pc = "write" => n <= k /\ \A j \in n + 1 .. at : Simple(j)
    /\ pc \in {"write", "encode"} => (at < hi => ~Simple(at + 1))

(* Before the first call. *)
LEMMA BatchInit == Init => BatchInv
  BY DEF Init, BatchInv

(* Where a step of write, encode or Close leads. *)
LEMMA OutcomeLeads ==
    ASSUME NEW r, Typed(r), NEW then, Outcome(r, then), then \notin {"return", "panic"}
    PROVE  /\ line' = r.line /\ out' = r.out
           /\ pc' \in {then, "return", "panic"}
           /\ pc' = then <=> r.status = "ok"
           /\ failures' = IF r.status = "failed" THEN failures + 1 ELSE failures
<1>1. r.status \in {"ok", "failed", "panic"}
  BY DEF Typed
<1> QED
  BY <1>1 DEF Outcome

(* The outcomes of the steps that work on the line. *)
BreakResult(soft, hard) == InsertCRLF(CheckLastByte(W, soft), hard)
PutRoom(soft)   == IF Len(line) = LineMax - 1 THEN InsertSoftLineBreak(W, soft) ELSE W
PutResult(soft) == IF PutRoom(soft).status = "ok" THEN Put(PutRoom(soft), <<Raw(k + 1)>>) ELSE PutRoom(soft)
CloseResult(soft, hard) == Flush(CheckLastByte(W, soft), hard)

(* They stay within the array. *)
LEMMA ResultsTyped ==
    ASSUME TypeOK, NEW soft \in BOOLEAN, NEW hard \in BOOLEAN
    PROVE  /\ Sized(W) /\ Sized(CheckLastByte(W, soft))
           /\ Sized(BreakResult(soft, hard)) /\ Sized(CloseResult(soft, hard))
           /\ Sized(PutRoom(soft))
           /\ k + 1 \in 0 .. Len(input) => Sized(PutResult(soft))
           /\ \A j \in 0 .. Len(input) : Sized(Encode(W, j, soft))
<1>1. input \in Seq(Classes) /\ Sized(W)
  BY LenProperties DEF TypeOK, W, Sized, Typed
<1>2. Sized(CheckLastByte(W, soft)) /\ Sized(InsertSoftLineBreak(W, soft))
      /\ \A j \in 0 .. Len(input) : Sized(Encode(W, j, soft))
  BY <1>1, SizedOK
<1>3. Sized(BreakResult(soft, hard))
  BY <1>1, <1>2, SizedOK DEF BreakResult
<1>4. Sized(CloseResult(soft, hard))
  BY <1>2, FlushOK DEF CloseResult, Sized
<1>5. Sized(PutRoom(soft))
  BY <1>1, <1>2 DEF PutRoom
<1>6. ASSUME k + 1 \in 0 .. Len(input) PROVE Sized(PutResult(soft))
  <2>1. <<Raw(k + 1)>> \in Seq(Chars)
    BY <1>1, <1>6, CharTypes
  <2>2. Sized(Put(PutRoom(soft), <<Raw(k + 1)>>))
    BY <1>5, <2>1, PutOK DEF Sized
  <2> QED
    BY <1>5, <2>2 DEF PutResult
<1> QED
  BY <1>1, <1>2, <1>3, <1>4, <1>5, <1>6

(* The steps that work on the line, with their results. *)
LEMMA Steps ==
    ASSUME TypeOK
    PROVE  /\ BreakLine => \E soft, hard \in BOOLEAN :
                 Sized(BreakResult(soft, hard)) /\ Outcome(BreakResult(soft, hard), "write")
           /\ PutByte => \E soft \in BOOLEAN :
                 Sized(PutResult(soft)) /\ Outcome(PutResult(soft), "write")
           /\ EncodeByte => \E soft \in BOOLEAN : Outcome(Encode(W, at + 1, soft), "scan")
           /\ Close => \E soft, hard \in BOOLEAN :
                 Sized(CloseResult(soft, hard)) /\ Outcome(CloseResult(soft, hard), "closed")
<1>1. Fails \subseteq BOOLEAN
  BY DEF Fails
<1>2. ASSUME BreakLine PROVE \E soft, hard \in BOOLEAN :
                 Sized(BreakResult(soft, hard)) /\ Outcome(BreakResult(soft, hard), "write")
  <2>1. PICK soft \in Fails, hard \in Fails : Outcome(BreakResult(soft, hard), "write")
    BY <1>2 DEF BreakLine, BreakResult
  <2> QED
    BY <1>1, <2>1, ResultsTyped
<1>3. ASSUME PutByte PROVE \E soft \in BOOLEAN :
                 Sized(PutResult(soft)) /\ Outcome(PutResult(soft), "write")
  <2>1. PICK soft \in Fails : Outcome(PutResult(soft), "write")
    BY <1>3 DEF PutByte, PutResult, PutRoom
  <2>2. k + 1 \in 0 .. Len(input)
    <3>1. k < at
      BY <1>3 DEF PutByte, InBatch
    <3> QED
      BY <3>1, LenProperties DEF TypeOK
  <2> QED
    BY <1>1, <2>1, <2>2, ResultsTyped
<1>4. ASSUME EncodeByte PROVE \E soft \in BOOLEAN : Outcome(Encode(W, at + 1, soft), "scan")
  <2>1. PICK soft \in Fails : Outcome(Encode(W, at + 1, soft), "scan")
    BY <1>4 DEF EncodeByte
  <2> QED
    BY <1>1, <2>1
<1>5. ASSUME Close PROVE \E soft, hard \in BOOLEAN :
                 Sized(CloseResult(soft, hard)) /\ Outcome(CloseResult(soft, hard), "closed")
  <2>1. PICK soft \in Fails, hard \in Fails : Outcome(CloseResult(soft, hard), "closed")
    BY <1>5 DEF Close, CloseResult
  <2> QED
    BY <1>1, <2>1, ResultsTyped
<1> QED
  BY <1>2, <1>3, <1>4, <1>5

(* Every step of the calls keeps the order of the indices. *)
LEMMA BatchStep == IInv /\ BatchInv /\ [Next]_vars => BatchInv'
<1> SUFFICES ASSUME IInv, BatchInv, [Next]_vars PROVE BatchInv'
  OBVIOUS
<1>1. /\ TypeOK /\ input \in Seq(Classes) /\ Len(input) \in Nat
      /\ next \in 0 .. Len(input) /\ hi \in 0 .. Len(input) /\ at \in 0 .. hi
      /\ n \in 0 .. at /\ k \in 0 .. at
      /\ (pc = "encode" => at < hi /\ n = at)
  BY LenProperties DEF IInv, TypeOK
<1>2. ASSUME NEW m \in Sizes, Write(m) PROVE BatchInv'
  BY <1>1, <1>2, SizesAssumption DEF Write, BatchInv
<1>3. ASSUME Scan PROVE BatchInv'
  <2>1. /\ at' \in at .. hi
        /\ pc' \in {"write", "encode", "return"}
        /\ UNCHANGED <<input, binary, next, hi, n>> /\ k' = n /\ pc = "scan" /\ at = n
    BY <1>3 DEF Scan, BatchInv
  <2>2. (\A j \in at + 1 .. at' : Simple(j)) /\ (at' < hi => ~Simple(at' + 1))
    BY <1>3 DEF Scan
  <2>4. (\A j \in n + 1 .. at : Simple(j))' /\ (at < hi => ~Simple(at + 1))'
    BY <2>1, <2>2 DEF Simple
  <2>5. next' <= n' /\ n' <= k'
    BY <1>1, <2>1 DEF BatchInv
  <2> QED
    BY <2>1, <2>4, <2>5 DEF BatchInv
<1>4. ASSUME UNCHANGED <<input, binary, next, hi, n, at>>, pc = "write",
             k' \in {k, k + 1}, pc' \in {"write", "return", "panic"}
      PROVE  BatchInv'
  <2>1. \A j : Simple(j)' <=> Simple(j)
    BY <1>4 DEF Simple
  <2> QED
    BY <1>1, <1>4, <2>1 DEF BatchInv
<1>5. ASSUME SkipLF PROVE BatchInv'
  BY <1>4, <1>5 DEF SkipLF, InBatch
<1>6. ASSUME BreakLine PROVE BatchInv'
  <2>1. PICK soft, hard \in BOOLEAN : Sized(BreakResult(soft, hard)) /\ Outcome(BreakResult(soft, hard), "write")
    BY <1>1, <1>6, Steps
  <2>2. pc' \in {"write", "return", "panic"}
    BY <2>1, OutcomeLeads DEF Sized
  <2> QED
    BY <1>4, <1>6, <2>2 DEF BreakLine, InBatch
<1>7. ASSUME PutByte PROVE BatchInv'
  <2>1. PICK soft \in BOOLEAN : Sized(PutResult(soft)) /\ Outcome(PutResult(soft), "write")
    BY <1>1, <1>7, Steps
  <2>2. pc' \in {"write", "return", "panic"}
    BY <2>1, OutcomeLeads DEF Sized
  <2> QED
    BY <1>4, <1>7, <2>2 DEF PutByte, InBatch
<1>8. ASSUME BatchDone PROVE BatchInv'
  <2>1. /\ UNCHANGED <<input, binary, next, line, cr, out, hi, at, k, failures>> /\ n' = at
        /\ pc = "write" /\ pc' = IF at < hi THEN "encode" ELSE "return"
    BY <1>8 DEF BatchDone
  <2>2. \A j : Simple(j)' <=> Simple(j)
    BY <2>1 DEF Simple
  <2> QED
    BY <1>1, <2>1, <2>2 DEF BatchInv
<1>9. ASSUME EncodeByte PROVE BatchInv'
  <2>1. PICK soft \in BOOLEAN : Outcome(Encode(W, at + 1, soft), "scan")
    BY <1>1, <1>9, Steps
  <2>2. pc = "encode" /\ at < hi /\ n = at /\ at + 1 \in 0 .. Len(input)
    BY <1>1, <1>9 DEF EncodeByte
  <2>3. Typed(Encode(W, at + 1, soft))
    BY <1>1, <2>2, ResultsTyped DEF Sized
  <2>4. pc' \in {"scan", "return", "panic"}
    BY <2>1, <2>3, OutcomeLeads
  <2>5. /\ UNCHANGED <<input, binary, next, cr, hi, k>>
        /\ IF pc' = "scan" THEN n' = n + 1 /\ at' = at + 1 ELSE UNCHANGED <<n, at>>
    BY <1>9 DEF EncodeByte
  <2> QED
    BY <1>1, <2>2, <2>4, <2>5 DEF BatchInv
<1>10. ASSUME Return PROVE BatchInv'
  BY <1>1, <1>10 DEF Return, BatchInv
<1>11. ASSUME Close PROVE BatchInv'
  <2>1. PICK soft, hard \in BOOLEAN : Sized(CloseResult(soft, hard)) /\ Outcome(CloseResult(soft, hard), "closed")
    BY <1>1, <1>11, Steps
  <2>2. pc' \in {"closed", "return", "panic"}
    BY <2>1, OutcomeLeads DEF Sized
  <2>3. UNCHANGED <<input, binary, next, cr, hi, n, at, k>> /\ pc = "idle"
    BY <1>11 DEF Close
  <2> QED
    BY <1>1, <2>2, <2>3 DEF BatchInv
<1>12. CASE UNCHANGED vars
  <2>1. UNCHANGED <<input, binary, next, line, cr, out, pc, hi, n, at, k, failures>>
    BY <1>12 DEF vars
  <2>2. \A j : Simple(j)' <=> Simple(j)
    BY <2>1 DEF Simple
  <2> QED
    BY <2>1, <2>2 DEF BatchInv
<1> QED
  BY <1>2, <1>3, <1>5, <1>6, <1>7, <1>8, <1>9, <1>10, <1>11, <1>12 DEF Next, Stopped

-----------------------------------------------------------------------------
(* The bytes that may not be lost, and that they are not: also after a     *)
(* failure, and in the middle of a call.                                   *)
Must(j) == input[j] \in {"plain", "special"} \/ (binary /\ input[j] # "ws")

KeptInv == \A j \in 1 .. Done : Must(j) => Has(W, j)

(* Before the first call. *)
LEMMA KeptInit == Init => KeptInv
  BY DEF Init, KeptInv, Done

(* A step with result r that gets no further than one byte. *)
LEMMA KeptMore ==
    ASSUME KeptInv, UNCHANGED <<input, binary>>, Done \in Nat, Done' \in Nat,
           NEW r, line' = r.line, out' = r.out,
           \A j : Has(W, j) /\ Must(j) => Has(r, j),
           Done' > Done => Done' = Done + 1 /\ (Must(Done + 1) => Has(r, Done + 1))
    PROVE  KeptInv'
<1> SUFFICES ASSUME NEW j \in 1 .. Done', Must(j)' PROVE Has(W, j)'
  BY DEF KeptInv
<1>1. Must(j)
  BY DEF Must
<1>2. Has(r, j)
  <2>1. j \in 1 .. Done \/ (j = Done + 1 /\ Done' = Done + 1)
    <3> DEFINE d == Done
               e == Done'
    <3>1. d \in Nat /\ e \in Nat /\ j \in 1 .. e /\ (e > d => e = d + 1)
      OBVIOUS
    <3> HIDE DEF d, e
    <3>2. j \in 1 .. d \/ (j = d + 1 /\ e = d + 1)
      BY <3>1
    <3> QED
      BY <3>2 DEF d, e
  <2>2. CASE j \in 1 .. Done
    BY <1>1, <2>2 DEF KeptInv
  <2>3. CASE j = Done + 1 /\ Done' = Done + 1
    BY <1>1, <2>3
  <2> QED
    BY <2>1, <2>2, <2>3
<1> QED
  BY <1>2 DEF Has, W, Carries

(* No step loses such a byte, and none gets past one that is not kept. *)
LEMMA KeptStep == IInv /\ BatchInv /\ KeptInv /\ [Next]_vars => KeptInv'
<1> SUFFICES ASSUME IInv, BatchInv, KeptInv, [Next]_vars PROVE KeptInv'
  OBVIOUS
<1>1. /\ TypeOK /\ input \in Seq(Classes) /\ Len(input) \in Nat
      /\ next \in 0 .. Len(input) /\ hi \in 0 .. Len(input) /\ at \in 0 .. hi
      /\ n \in 0 .. at /\ k \in 0 .. at
      /\ (pc = "encode" => at < hi /\ n = at)
  BY LenProperties DEF IInv, TypeOK
<1>2. TypeOK' /\ Done \in Nat /\ Done' \in Nat
  <2>1. TypeOK'
    BY StepOK DEF IInv
  <2> QED
    BY <1>1, <2>1 DEF TypeOK, Done
<1>3. ASSUME UNCHANGED <<input, binary, line, out>>, Done' = Done PROVE KeptInv'
  BY <1>2, <1>3, KeptMore DEF W
<1>4. \A j : Must(j) => input[j] # "ws"
  BY DEF Must
<1>5. ASSUME NEW m \in Sizes, Write(m) PROVE KeptInv'
  BY <1>3, <1>5 DEF Write, BatchInv, Done
<1>6. ASSUME Scan PROVE KeptInv'
  <2>1. /\ pc' \in {"write", "encode", "return"}
        /\ UNCHANGED <<input, binary, line, out, n>> /\ k' = n /\ pc = "scan"
    BY <1>6 DEF Scan
  <2> QED
    BY <1>3, <2>1 DEF Done
<1>7. ASSUME SkipLF PROVE KeptInv'
  <2>1. /\ UNCHANGED <<input, binary, line, out, pc>> /\ pc = "write" /\ k' = k + 1
        /\ k < at /\ input[k + 1] = "lf"
    BY <1>7 DEF SkipLF, InBatch
  <2>2. ~Must(k + 1)
    <3>1. Simple(k + 1)
      <4>1. k + 1 \in n + 1 .. at
        BY <1>1, <2>1 DEF BatchInv
      <4> QED
        BY <2>1, <4>1 DEF BatchInv
    <3> QED
      BY <2>1, <3>1 DEF Simple, Must
  <2>3. Done = k /\ Done' = k + 1
    BY <2>1 DEF Done
  <2>4. line' = W.line /\ out' = W.out
    BY <2>1 DEF W
  <2> QED
    BY <1>2, <2>1, <2>2, <2>3, <2>4, KeptMore
<1>8. ASSUME BreakLine PROVE KeptInv'
  <2>1. PICK soft, hard \in BOOLEAN : Sized(BreakResult(soft, hard)) /\ Outcome(BreakResult(soft, hard), "write")
    BY <1>1, <1>8, Steps
  <2> DEFINE r == BreakResult(soft, hard)
  <2>2. /\ line' = r.line /\ out' = r.out /\ pc' \in {"write", "return", "panic"}
    BY <2>1, OutcomeLeads DEF Sized
  <2>3. /\ UNCHANGED <<input, binary, n>> /\ pc = "write" /\ k < at
        /\ input[k + 1] \in {"cr", "lf"} /\ k' = IF pc' = "write" THEN k + 1 ELSE k
    BY <1>8 DEF BreakLine, InBatch
  <2>4. \A j : Has(W, j) /\ Must(j) => Has(r, j)
    <3>1. Sized(W) /\ Sized(CheckLastByte(W, soft))
      BY <1>1, ResultsTyped
    <3> QED
      BY <1>1, <1>4, <3>1, HasChecked, HasKept DEF BreakResult
  <2>5. ~Must(k + 1)
    <3>1. Simple(k + 1)
      <4>1. k + 1 \in n + 1 .. at
        BY <1>1, <2>3 DEF BatchInv
      <4> QED
        BY <2>3, <4>1 DEF BatchInv
    <3> QED
      BY <2>3, <3>1 DEF Simple, Must
  <2>6. Done = k /\ (Done' > Done => Done' = Done + 1)
    BY <1>1, <2>2, <2>3 DEF Done, BatchInv
  <2> HIDE DEF r
  <2> QED
    BY <1>2, <2>2, <2>3, <2>4, <2>5, <2>6, KeptMore
<1>9. ASSUME PutByte PROVE KeptInv'
  <2>1. PICK soft \in BOOLEAN : Sized(PutResult(soft)) /\ Outcome(PutResult(soft), "write")
    BY <1>1, <1>9, Steps
  <2> DEFINE r == PutResult(soft)
             c == <<Raw(k + 1)>>
  <2>2. /\ line' = r.line /\ out' = r.out /\ pc' \in {"write", "return", "panic"}
        /\ (pc' = "write" <=> r.status = "ok")
    BY <2>1, OutcomeLeads DEF Sized
  <2>3. UNCHANGED <<input, binary, n>> /\ pc = "write" /\ k < at /\ k' = IF pc' = "write" THEN k + 1 ELSE k
    BY <1>9 DEF PutByte, InBatch
  <2>4. c \in Seq(Chars) /\ Carries(c, k + 1)
    <3>1. k + 1 \in 0 .. Len(input)
      BY <1>1, <2>3
    <3>2. Raw(k + 1) \in Chars
      BY <1>1, <3>1, CharTypes
    <3>3. c \in Seq(Chars) /\ Len(c) = 1 /\ c[1] = Raw(k + 1)
      BY <3>2
    <3>4. 1 \in 1 .. Len(c) /\ c[1][2] = k + 1
      BY <3>3 DEF Raw
    <3> QED
      BY <3>3, <3>4 DEF Carries
  <2>5. Sized(W) /\ Sized(PutRoom(soft)) /\ Typed(PutRoom(soft))
    BY <1>1, ResultsTyped DEF Sized
  <2> HIDE DEF c
  <2>6. ASSUME NEW j, Has(W, j) PROVE Has(r, j)
    <3>1. Has(PutRoom(soft), j)
      BY <1>1, <2>5, <2>6, HasKept DEF PutRoom
    <3>2. Has(Put(PutRoom(soft), c), j)
      BY <2>4, <2>5, <3>1, HasPut
    <3> QED
      BY <3>1, <3>2 DEF PutResult, c
  <2>7. r.status = "ok" => Has(r, k + 1)
    <3>1. r.status = "ok" => r = Put(PutRoom(soft), c)
      BY DEF PutResult, c
    <3> QED
      BY <2>4, <2>5, <3>1, HasPut
  <2>8. Done = k /\ (Done' > Done => Done' = Done + 1 /\ pc' = "write")
    BY <1>1, <2>2, <2>3 DEF Done, BatchInv
  <2> HIDE DEF r
  <2> QED
    BY <1>2, <2>2, <2>3, <2>6, <2>7, <2>8, KeptMore
<1>10. ASSUME BatchDone PROVE KeptInv'
  BY <1>3, <1>10 DEF BatchDone, Done
<1>11. ASSUME EncodeByte PROVE KeptInv'
  <2>1. PICK soft \in BOOLEAN : Outcome(Encode(W, at + 1, soft), "scan")
    BY <1>1, <1>11, Steps
  <2> DEFINE r == Encode(W, at + 1, soft)
  <2>2. pc = "encode" /\ at < hi /\ n = at /\ at + 1 \in 0 .. Len(input)
    BY <1>1, <1>11 DEF EncodeByte
  <2>3. Sized(W) /\ Typed(r)
    BY <1>1, <2>2, ResultsTyped DEF Sized
  <2>4. /\ line' = r.line /\ out' = r.out /\ pc' \in {"scan", "return", "panic"}
        /\ (pc' = "scan" <=> r.status = "ok")
    BY <2>1, <2>3, OutcomeLeads
  <2>5. /\ UNCHANGED <<input, binary>>
        /\ IF pc' = "scan" THEN n' = n + 1 ELSE n' = n
    BY <1>11 DEF EncodeByte
  <2>6. \A j : Has(W, j) => Has(r, j)
    BY <1>1, <2>2, <2>3, HasKept
  <2>7. r.status = "ok" => Has(r, at + 1)
    BY <1>1, <2>2, <2>3, HasEncoded
  <2>8. Done = at /\ (Done' > Done => Done' = Done + 1 /\ pc' = "scan")
    BY <1>1, <2>2, <2>4, <2>5 DEF Done
  <2> HIDE DEF r
  <2> QED
    BY <1>2, <2>4, <2>5, <2>6, <2>7, <2>8, KeptMore
<1>12. ASSUME Return PROVE KeptInv'
  BY <1>3, <1>12 DEF Return, Done
<1>13. ASSUME Close PROVE KeptInv'
  <2>1. PICK soft, hard \in BOOLEAN : Sized(CloseResult(soft, hard)) /\ Outcome(CloseResult(soft, hard), "closed")
    BY <1>1, <1>13, Steps
  <2> DEFINE r == CloseResult(soft, hard)
  <2>2. line' = r.line /\ out' = r.out /\ pc' \in {"closed", "return", "panic"}
    BY <2>1, OutcomeLeads DEF Sized
  <2>3. UNCHANGED <<input, binary, n>> /\ pc = "idle"
    BY <1>13 DEF Close
  <2>4. \A j : Has(W, j) /\ Must(j) => Has(r, j)
    <3>1. Sized(W) /\ Typed(CheckLastByte(W, soft))
      BY <1>1, ResultsTyped DEF Sized
    <3> QED
      BY <1>1, <1>4, <3>1, HasChecked, HasFlush DEF CloseResult
  <2>5. Done' = Done
    BY <2>2, <2>3 DEF Done
  <2> HIDE DEF r
  <2> QED
    BY <1>2, <2>2, <2>3, <2>4, <2>5, KeptMore
<1>14. CASE UNCHANGED vars
  BY <1>3, <1>14 DEF vars, Done
<1> QED
  BY <1>5, <1>6, <1>7, <1>8, <1>9, <1>10, <1>11, <1>12, <1>13, <1>14 DEF Next, Stopped

-----------------------------------------------------------------------------
(* Before the first failure, what has been sent is what the part that is   *)
(* done means, and cr says whether it ends in a CR of a text.              *)
CROK(d) == cr <=> d > 0 /\ ~binary /\ input[d] = "cr"

MeantInv == ~failed /\ ~EscapeAfterCR => Sent(W) = Meant(Done) /\ CROK(Done)

(* Before the first call. *)
LEMMA MeantInit == Init => MeantInv
<1> SUFFICES ASSUME Init PROVE Sent(W) = Meant(Done) /\ CROK(Done)
  BY DEF MeantInv
<1>1. Done = 0 /\ line = <<>> /\ out = <<>> /\ cr = FALSE
  BY DEF Init, Done
<1>2. Decoded(<<>>) = <<>>
  <2>1. [x \in DOMAIN <<>> |-> LineData(<<>>[x])] = <<>>
    OBVIOUS
  <2> QED
    BY <2>1, FlattenEmpty DEF Decoded
<1>3. Sent(W) = <<>> \o <<>>
  BY <1>1, <1>2, LineDataEmpty DEF Sent, W
<1>4. Meant(0) = <<>>
  BY MeantAppend
<1> QED
  BY <1>1, <1>3, <1>4 DEF CROK

(* The text and the mode stay what they are. *)
LEMMA TextKept == [Next]_vars => UNCHANGED <<input, binary>>
  BY DEF Next, vars, Write, Scan, SkipLF, BreakLine, PutByte, BatchDone, EncodeByte, Return, Close, Stopped

(* What the text means depends on the text and the mode only. *)
LEMMA MeantSame ==
    ASSUME UNCHANGED <<input, binary>>
    PROVE  Meant(Done)' = Meant(Done')
  BY DEF Meant, Meaning

(* A step after which d bytes are done, with result r. *)
LEMMA MeantMore ==
    ASSUME UNCHANGED <<input, binary>>, NEW d, Done' = d, NEW r, line' = r.line, out' = r.out,
           Sent(r) = Meant(d), cr' <=> d > 0 /\ ~binary /\ input[d] = "cr"
    PROVE  MeantInv'
<1>1. Sent(W)' = Sent(r)
  BY DEF Sent, W, Decoded, LineData, Data, Soft
<1>2. Meant(Done)' = Meant(d)
  BY MeantSame
<1>3. CROK(Done)'
  BY DEF CROK
<1> QED
  BY <1>1, <1>2, <1>3 DEF MeantInv

(* A step of write, encode or Close that is not the first failure, nor     *)
(* behind it.                                                              *)
LEMMA OutcomeGood ==
    ASSUME TypeOK, Sound', ~failed', NEW r, Typed(r), NEW then, Outcome(r, then)
    PROVE  ~failed /\ r.status = "ok" /\ line' = r.line /\ out' = r.out /\ pc' = then
<1>1. r.status \in {"ok", "failed", "panic"} /\ failures \in Nat
  BY DEF Typed, TypeOK
<1>2. pc' # "panic"
  BY DEF Sound
<1>3. r.status # "failed" /\ ~failed
  BY <1>1 DEF Outcome, failed
<1> QED
  BY <1>1, <1>2, <1>3 DEF Outcome

(* Every step sends what the byte it gets past means. *)
LEMMA MeantStep == IInv /\ BatchInv /\ MeantInv /\ [Next]_vars => MeantInv'
<1> SUFFICES ASSUME IInv, BatchInv, MeantInv, [Next]_vars, ~failed', ~EscapeAfterCR' PROVE MeantInv'
  BY DEF MeantInv
<1>1. /\ TypeOK /\ Sound /\ input \in Seq(Classes) /\ Len(input) \in Nat
      /\ next \in 0 .. Len(input) /\ hi \in 0 .. Len(input) /\ at \in 0 .. hi
      /\ n \in 0 .. at /\ k \in 0 .. at
      /\ (pc = "encode" => at < hi /\ n = at) /\ cr \in BOOLEAN /\ binary \in BOOLEAN
  BY LenProperties DEF IInv, TypeOK
<1>2. UNCHANGED <<input, binary>> /\ ~EscapeAfterCR
  BY TextKept DEF EscapeAfterCR
<1>3. Sound'
  BY StepOK DEF IInv
<1>4. ASSUME ~failed PROVE Sent(W) = Meant(Done) /\ CROK(Done)
  BY <1>2, <1>4 DEF MeantInv
<1>5. ASSUME UNCHANGED <<line, out, cr, failures>>, Done' = Done PROVE MeantInv'
  <2>1. Sent(W) = Meant(Done) /\ CROK(Done)
    BY <1>4, <1>5 DEF failed
  <2>2. line' = W.line /\ out' = W.out
    BY <1>5 DEF W
  <2>3. cr' <=> Done > 0 /\ ~binary /\ input[Done] = "cr"
    BY <1>5, <2>1 DEF CROK
  <2> QED
    BY <1>2, <1>5, <2>1, <2>2, <2>3, MeantMore
<1>6. ASSUME NEW m \in Sizes, Write(m) PROVE MeantInv'
  BY <1>5, <1>6 DEF Write, BatchInv, Done
<1>7. ASSUME Scan PROVE MeantInv'
  <2>1. /\ pc' \in {"write", "encode", "return"}
        /\ UNCHANGED <<input, binary, line, cr, out, failures, n>> /\ k' = n /\ pc = "scan"
    BY <1>7 DEF Scan
  <2> QED
    BY <1>5, <2>1 DEF Done
<1>8. ASSUME pc = "write", ~failed
      PROVE  k < at => /\ Sent(W) = Meant(k) /\ CROK(k) /\ Simple(k + 1)
                       /\ k + 1 \in 0 .. Len(input) /\ k \in Nat
                       /\ Sent(W) \o Meaning(k + 1) = Meant(k + 1)
  <2> SUFFICES ASSUME k < at
               PROVE  /\ Sent(W) = Meant(k) /\ CROK(k) /\ Simple(k + 1)
                      /\ k + 1 \in 0 .. Len(input) /\ k \in Nat
                      /\ Sent(W) \o Meaning(k + 1) = Meant(k + 1)
    OBVIOUS
  <2>1. Sent(W) = Meant(k) /\ CROK(k)
    BY <1>4, <1>8 DEF Done
  <2>2. k \in Nat /\ k + 1 \in 0 .. Len(input) /\ k + 1 \in n + 1 .. at
    BY <1>1, <1>8 DEF BatchInv
  <2>3. Simple(k + 1)
    BY <1>8, <2>2 DEF BatchInv
  <2> QED
    BY <2>1, <2>2, <2>3, MeantAppend
<1>9. ASSUME SkipLF PROVE MeantInv'
  <2>1. /\ UNCHANGED <<input, binary, line, out, pc, failures>> /\ pc = "write" /\ k' = k + 1
        /\ k < at /\ input[k + 1] = "lf" /\ cr = TRUE /\ cr' = FALSE
    BY <1>1, <1>9 DEF SkipLF, InBatch
  <2>2. ~failed
    BY <2>1 DEF failed
  <2>3. /\ CROK(k) /\ k \in Nat /\ k + 1 \in 0 .. Len(input)
        /\ Sent(W) \o Meaning(k + 1) = Meant(k + 1)
    BY <1>8, <2>1, <2>2
  <2>4. Meaning(k + 1) = <<>>
    <3>1. k > 0 /\ ~binary /\ input[k] = "cr"
      BY <2>1, <2>3 DEF CROK
    <3>2. k + 1 > 1 /\ (k + 1) - 1 = k
      BY <2>3, <3>1
    <3> QED
      BY <2>1, <3>1, <3>2 DEF Meaning
  <2>5. Sent(W) = Meant(k + 1)
    <3>1. Sent(W) \in Seq(Nat)
      BY <1>1, ResultsTyped, SentTyped DEF Sized
    <3> QED
      BY <2>3, <2>4, <3>1, ConcatEmptySeq
  <2>6. Done' = k + 1 /\ line' = W.line /\ out' = W.out
    BY <2>1 DEF Done, W
  <2>7. cr' <=> k + 1 > 0 /\ ~binary /\ input[k + 1] = "cr"
    BY <2>1
  <2> QED
    BY <1>2, <2>5, <2>6, <2>7, MeantMore
<1>10. ASSUME BreakLine PROVE MeantInv'
  <2>1. PICK soft, hard \in BOOLEAN : Sized(BreakResult(soft, hard)) /\ Outcome(BreakResult(soft, hard), "write")
    BY <1>1, <1>10, Steps
  <2> DEFINE c == CheckLastByte(W, soft)
             r == BreakResult(soft, hard)
  <2>2. /\ ~failed /\ r.status = "ok" /\ line' = r.line /\ out' = r.out /\ pc' = "write"
    BY <1>1, <1>3, <2>1, OutcomeGood DEF Sized
  <2>3. /\ pc = "write" /\ k < at /\ input[k + 1] \in {"cr", "lf"} /\ ~(input[k + 1] = "lf" /\ cr)
        /\ cr' = (cr \/ input[k + 1] = "cr") /\ k' = k + 1
    BY <1>10, <2>2 DEF BreakLine, InBatch
  <2>4. /\ CROK(k) /\ k \in Nat /\ k + 1 \in 0 .. Len(input) /\ Simple(k + 1)
        /\ Sent(W) \o Meaning(k + 1) = Meant(k + 1)
    BY <1>8, <2>2, <2>3
  <2>5. Good(W)
    BY <1>1, <2>2, <2>3, StartOK
  <2>6. r = InsertCRLF(c, hard)
    BY DEF BreakResult
  <2>7. c.status = "ok"
    BY <2>2, <2>6 DEF InsertCRLF
  <2>8. Good(c) /\ Sent(c) = Sent(W)
    BY <1>1, <2>5, <2>7, CheckOK, SentCheck DEF Fine
  <2> HIDE DEF c, r
  <2>9. Sent(r) = Sent(c) \o <<0>>
    <3>1. Typed(c) /\ Len(c.line) <= LineMax
      BY <2>8, LenProperties DEF Good, Building
    <3>2. ~(Len(c.line) > 0 /\ c.line[Len(c.line)] = Soft)
      BY <1>1, <2>8, BuildingNotSoft DEF Good, IsSoft, Last
    <3> QED
      BY <1>1, <2>2, <2>6, <2>7, <3>1, <3>2, SentCRLF
  <2>10. ~binary
    BY <2>3, <2>4 DEF Simple
  <2>11. Meaning(k + 1) = <<0>>
    <3>1. ~(input[k + 1] = "lf" /\ k + 1 > 1 /\ input[(k + 1) - 1] = "cr")
      <4>1. k + 1 > 1 => k > 0 /\ (k + 1) - 1 = k
        BY <2>4
      <4> QED
        BY <2>3, <2>4, <2>10, <4>1 DEF CROK
    <3> QED
      BY <2>3, <2>10, <3>1 DEF Meaning
  <2>12. Sent(r) = Meant(k + 1)
    BY <2>4, <2>8, <2>9, <2>11
  <2>13. cr' <=> k + 1 > 0 /\ ~binary /\ input[k + 1] = "cr"
    <3>1. k + 1 > 0
      BY <2>4
    <3> QED
      BY <2>3, <2>10, <3>1
  <2>14. Done' = k + 1
    BY <2>2, <2>3 DEF Done
  <2> QED
    BY <1>2, <2>2, <2>12, <2>13, <2>14, MeantMore
<1>11. ASSUME PutByte PROVE MeantInv'
  <2>1. PICK soft \in BOOLEAN : Sized(PutResult(soft)) /\ Outcome(PutResult(soft), "write")
    BY <1>1, <1>11, Steps
  <2> DEFINE s == PutRoom(soft)
             r == PutResult(soft)
             c == <<Raw(k + 1)>>
  <2>2. /\ ~failed /\ r.status = "ok" /\ line' = r.line /\ out' = r.out /\ pc' = "write"
    BY <1>1, <1>3, <2>1, OutcomeGood DEF Sized
  <2>3. /\ pc = "write" /\ k < at /\ input[k + 1] \notin {"cr", "lf"}
        /\ cr' = FALSE /\ k' = k + 1
    BY <1>11, <2>2 DEF PutByte, InBatch
  <2>4. /\ k \in Nat /\ k + 1 \in 0 .. Len(input)
        /\ Sent(W) \o Meaning(k + 1) = Meant(k + 1)
    BY <1>8, <2>2, <2>3
  <2>5. Good(W) /\ W.line = line
    BY <1>1, <2>2, <2>3, StartOK
  <2>6. s.status = "ok" /\ r = Put(s, c)
    BY <2>2 DEF PutResult
  <2>7. Good(s) /\ Sent(s) = Sent(W)
    <3>1. CASE Len(line) = LineMax - 1
      <4>1. s = InsertSoftLineBreak(W, soft) /\ Len(W.line) >= LineMax - 3
        BY <2>5, <3>1 DEF PutRoom
      <4> QED
        BY <1>1, <2>5, <2>6, <4>1, SoftBreakOK, SentSoftBreak DEF Fine
    <3>2. CASE Len(line) # LineMax - 1
      BY <2>5, <3>2 DEF PutRoom
    <3> QED
      BY <3>1, <3>2
  <2>8. c \in Seq(Chars) /\ Len(c) = 1 /\ <<k + 1>> \in Seq(Nat)
    <3>1. Raw(k + 1) \in Chars
      BY <1>1, <2>4, CharTypes
    <3> QED
      BY <2>4, <3>1
  <2>9. LineData(s.line \o c) = LineData(s.line) \o <<k + 1>>
    <3>1. s.line \in Seq(Chars)
      BY <2>7 DEF Good, Building
    <3> QED
      BY <1>1, <2>4, <3>1, LineDataPut
  <2> HIDE DEF c, s, r
  <2>10. Typed(s) /\ Len(s.line) + Len(c) <= LineMax + 2
    BY <2>7, <2>8, LenProperties DEF Good, Building
  <2>11. Sent(r) = Sent(W) \o <<k + 1>>
    BY <1>1, <2>6, <2>7, <2>8, <2>9, <2>10, SentPut
  <2>12. Meaning(k + 1) = <<k + 1>>
    BY <2>3 DEF Meaning
  <2>13. Done' = k + 1 /\ (cr' <=> k + 1 > 0 /\ ~binary /\ input[k + 1] = "cr")
    BY <2>2, <2>3 DEF Done
  <2> QED
    BY <1>2, <2>2, <2>4, <2>11, <2>12, <2>13, MeantMore
<1>12. ASSUME BatchDone PROVE MeantInv'
  BY <1>5, <1>12 DEF BatchDone, Done
<1>13. ASSUME EncodeByte PROVE MeantInv'
  <2>1. PICK soft \in BOOLEAN : Outcome(Encode(W, at + 1, soft), "scan")
    BY <1>1, <1>13, Steps
  <2> DEFINE r == Encode(W, at + 1, soft)
  <2>2. pc = "encode" /\ at < hi /\ n = at /\ at + 1 \in 0 .. Len(input) /\ at \in Nat
    BY <1>1, <1>13 DEF EncodeByte
  <2>3. Typed(r)
    BY <1>1, <2>2, ResultsTyped DEF Sized
  <2>4. ~failed /\ r.status = "ok" /\ line' = r.line /\ out' = r.out /\ pc' = "scan"
    BY <1>1, <1>3, <2>1, <2>3, OutcomeGood
  <2>5. n' = at + 1 /\ cr' = cr
    BY <1>13, <2>2, <2>4 DEF EncodeByte
  <2>6. Done = at /\ Done' = at + 1 /\ Sent(W) = Meant(at) /\ CROK(at)
    BY <1>4, <2>2, <2>4, <2>5 DEF Done
  <2>7. Sent(r) = Sent(W) \o <<at + 1>>
    <3>1. Good(W)
      BY <1>1, <2>2, <2>4, StartOK
    <3> QED
      BY <1>1, <2>2, <2>4, <3>1, SentEncode
  <2> HIDE DEF r
  <2>8. ~Simple(at + 1)
    BY <2>2 DEF BatchInv
  <2>9. binary \/ input[at + 1] = "special"
    <3>1. input[at + 1] \in Classes
      <4>1. at + 1 \in 1 .. Len(input)
        BY <2>2
      <4> QED
        BY <1>1, <4>1, ElementOfSeq
    <3> QED
      BY <2>8, <3>1 DEF Simple, Classes
  <2>10. Meaning(at + 1) = <<at + 1>>
    BY <2>9 DEF Meaning
  <2>11. Sent(r) = Meant(at + 1)
    BY <2>2, <2>6, <2>7, <2>10, MeantAppend
  <2>12. ~cr
    <3>1. CASE binary
      BY <2>6, <3>1 DEF CROK
    <3>2. CASE ~binary
      <4>1. input[at + 1] = "special"
        BY <2>9, <3>2
      <4>2. at > 0 => at \in 1 .. Len(input) - 1
        BY <1>1, <2>2
      <4>3. at > 0 => input[at] # "cr"
        BY <1>2, <3>2, <4>1, <4>2 DEF EscapeAfterCR
      <4> QED
        BY <2>6, <4>3 DEF CROK
    <3> QED
      BY <3>1, <3>2
  <2>13. cr' <=> at + 1 > 0 /\ ~binary /\ input[at + 1] = "cr"
    BY <2>5, <2>9, <2>12
  <2> QED
    BY <1>2, <2>4, <2>6, <2>11, <2>13, MeantMore
<1>14. ASSUME Return PROVE MeantInv'
  BY <1>5, <1>14 DEF Return, Done
<1>15. ASSUME Close PROVE MeantInv'
  <2>1. PICK soft, hard \in BOOLEAN : Sized(CloseResult(soft, hard)) /\ Outcome(CloseResult(soft, hard), "closed")
    BY <1>1, <1>15, Steps
  <2> DEFINE c == CheckLastByte(W, soft)
             r == CloseResult(soft, hard)
  <2>2. /\ ~failed /\ r.status = "ok" /\ line' = r.line /\ out' = r.out /\ pc' = "closed"
    BY <1>1, <1>3, <2>1, OutcomeGood DEF Sized
  <2>3. UNCHANGED <<n, cr>> /\ pc = "idle"
    BY <1>15 DEF Close
  <2>4. Done = n /\ Done' = n /\ Sent(W) = Meant(n) /\ CROK(n)
    BY <1>4, <2>2, <2>3 DEF Done
  <2>5. Good(W)
    BY <1>1, <2>2, <2>3, StartOK
  <2>6. r = Flush(c, hard)
    BY DEF CloseResult
  <2>7. c.status = "ok"
    BY <2>2, <2>6 DEF Flush
  <2>8. Good(c) /\ Sent(c) = Sent(W)
    BY <1>1, <2>5, <2>7, CheckOK, SentCheck DEF Fine
  <2> HIDE DEF c, r
  <2>9. Sent(r) = Meant(n)
    BY <1>1, <2>2, <2>4, <2>6, <2>8, SentFlush DEF Good
  <2>10. cr' <=> n > 0 /\ ~binary /\ input[n] = "cr"
    BY <2>3, <2>4 DEF CROK
  <2> QED
    BY <1>2, <2>2, <2>4, <2>9, <2>10, MeantMore
<1>16. CASE UNCHANGED vars
  BY <1>5, <1>16 DEF vars, Done
<1> QED
  BY <1>6, <1>7, <1>9, <1>10, <1>11, <1>12, <1>13, <1>14, <1>15, <1>16 DEF Next, Stopped

-----------------------------------------------------------------------------
(* All of it in every state, between and within calls. *)
LEMMA Progress == Spec => [](IInv /\ BatchInv /\ KeptInv /\ MeantInv)
<1>1. Init => IInv /\ BatchInv /\ KeptInv /\ MeantInv
  BY InitOK, BatchInit, KeptInit, MeantInit
<1>2. IInv /\ BatchInv /\ KeptInv /\ MeantInv /\ [Next]_vars => (IInv /\ BatchInv /\ KeptInv /\ MeantInv)'
  BY StepOK, BatchStep, KeptStep, MeantStep
<1> QED
  BY <1>1, <1>2, PTL DEF Spec

(* Whatever the underlying writer refuses, a byte that Write has reported  *)
(* as written is in a line that was handed over or in the one being built, *)
(* white space aside.                                                      *)
THEOREM ReportedIsKept == Spec => []ReportedKept
<1>1. ASSUME IInv, BatchInv, KeptInv PROVE ReportedKept
  <2> DEFINE S == { { c[2] : c \in ToSet(l) } : l \in ToSet(out) \union {line} }
  <2> SUFFICES ASSUME NEW j \in 1 .. next,
                      input[j] = "plain" \/ input[j] = "special" \/ (binary /\ input[j] # "ws")
               PROVE  j \in UNION S
    BY DEF ReportedKept
  <2>1. /\ line \in Seq(Chars) /\ out \in Seq(Seq(Chars))
        /\ next \in Nat /\ n \in Nat /\ k \in Nat
    BY <1>1, LenProperties DEF IInv, TypeOK
  <2>2. j \in 1 .. Done
    BY <1>1, <2>1 DEF BatchInv, Done
  <2>3. Has(W, j)
    BY <1>1, <2>2 DEF KeptInv, Must
  <2>4. PICK l \in ToSet(out) \union {line} : l \in Seq(Chars) /\ Carries(l, j)
    <3>1. CASE Carries(line, j)
      BY <2>1, <3>1
    <3>2. CASE ~Carries(line, j)
      <4>1. PICK x \in 1 .. Len(out) : Carries(out[x], j)
        BY <2>3, <3>2 DEF Has, W
      <4>2. out[x] \in Seq(Chars) /\ x \in DOMAIN out
        BY <2>1, ElementOfSeq, LenProperties
      <4> QED
        BY <4>1, <4>2 DEF ToSet
    <3> QED
      BY <3>1, <3>2
  <2>5. PICK x \in 1 .. Len(l) : l[x][2] = j
    BY <2>4 DEF Carries
  <2>6. l[x] \in ToSet(l)
    BY <2>4, <2>5, LenProperties DEF ToSet
  <2>7. j \in { c[2] : c \in ToSet(l) }
    BY <2>5, <2>6
  <2> QED
    BY <2>4, <2>7
<1> QED
  BY <1>1, Progress, PTL

(* Until the underlying writer fails, the lines decode to exactly what has *)
(* been written, however the text was cut into calls.                      *)
THEOREM RoundTrips == Spec => []RoundTrip
<1>1. ASSUME IInv, BatchInv, MeantInv PROVE RoundTrip
  <2> SUFFICES ASSUME pc \in {"idle", "closed"}, ~failed, ~EscapeAfterCR
               PROVE  Decoded(Append(out, line)) = Meant(next)
    BY DEF RoundTrip
  <2>1. Done = next
    BY <1>1 DEF BatchInv, Done
  <2>2. Decoded(Append(out, line)) = Sent(W)
    <3>1. input \in Seq(Classes) /\ Typed(W) /\ W.out = out /\ W.line = line
      BY <1>1 DEF IInv, TypeOK, Typed, W
    <3> QED
      BY <3>1, SentTyped
  <2> QED
    BY <1>1, <2>1, <2>2 DEF MeantInv
<1> QED
  BY <1>1, Progress, PTL
=============================================================================
