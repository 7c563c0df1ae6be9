----------------------- MODULE MultipartReaderProofs -----------------------
(***************************************************************************)
(* Proofs about MultipartReader, for streams of any length, every size of  *)
(* the peek buffer and of the caller's slices: what a part's Read delivers *)
(* is the part's body, and what Read, CheckNextPart and NextPart make of   *)
(* the boundary behind it is the same.                                     *)
(***************************************************************************)
EXTENDS MultipartReader, NatRecursion, SequenceTheorems

PartType(n) == [buffer : Seq(1 .. n), fresh : BOOLEAN, open : BOOLEAN, some : BOOLEAN]
CR == <<"cr", "lf">>
LF == <<"lf">>

(* What is known of the lines before the first part, and of r.currentPart. *)
CountInv ==
    /\ part.open \/ part.some \/ pc \in {"header", "closing"} => partsRead > 0
    /\ part.open => part.some
    /\ partsRead = 0 => nl = CR /\ (pc = "idle" => buffered = 0) /\ (pc = "lines" => ~expect)

(* The bytes from behind a to b. *)
Taken(a, b) == [j \in 1 .. b - a |-> a + j]

(* What has been taken of the body is delivered or in the part's buffer.   *)
TakenInv ==
    part.open /\ pc = "idle" =>
        /\ delivered \o part.buffer = Taken(start, at)
        /\ part.fresh <=> at = start

(* Nothing behind the body has been taken. *)
EndInv ==
    part.open /\ pc = "idle" /\ PaddingFits => at <= BodyEnd /\ (ended => start + Len(delivered) = BodyEnd)

IInv == TypeOK /\ CountInv /\ TakenInv /\ EndInv
-----------------------------------------------------------------------------
(* All that the reader sees is a stretch of the stream, from behind byte j *)
(* to byte e.                                                              *)
View(j, e) == SubSeq(stream, j + 1, e)

LEMMA ViewIs ==
    ASSUME stream \in Seq(Symbols), NEW e \in 0 .. Len(stream), NEW j \in 0 .. e
    PROVE  /\ View(j, e) \in Seq(Symbols)
           /\ Len(View(j, e)) = e - j /\ Len(View(j, e)) \in Nat
           /\ \A i \in 1 .. Len(View(j, e)) : View(j, e)[i] = stream[j + i]
           /\ j \in Nat /\ e \in Nat /\ j <= e /\ e <= Len(stream) /\ Len(stream) \in Nat
<1>1. Len(stream) \in Nat /\ j \in Nat /\ e \in Nat /\ j <= e /\ e <= Len(stream)
  OBVIOUS
<1>2. /\ View(j, e) \in Seq(Symbols)
      /\ Len(View(j, e)) = e - j
      /\ \A i \in 1 .. Len(View(j, e)) : View(j, e)[i] = stream[j + i]
  BY <1>1 DEF View
<1> QED
  BY <1>1, <1>2

LEMMA ViewOfView ==
    ASSUME stream \in Seq(Symbols), NEW e \in 0 .. Len(stream), NEW j \in 0 .. e,
           NEW a \in Nat, NEW b \in 0 .. Len(View(j, e))
    PROVE  SubSeq(View(j, e), a + 1, b) = View(j + a, j + b)
<1>1. Len(View(j, e)) = e - j /\ j \in Nat /\ e \in Nat /\ j <= e /\ Len(stream) \in Nat
  BY ViewIs
<1>2. CASE a + 1 <= b
  <2>1. /\ j + 1 \in 1 .. Len(stream) /\ e \in 1 .. Len(stream)
        /\ a + 1 \in 1 .. e - (j + 1) + 1 /\ b \in 1 .. e - (j + 1) + 1
    BY <1>1, <1>2
  <2>2. SubSeq(SubSeq(stream, j + 1, e), a + 1, b) = SubSeq(stream, (j + 1) + (a + 1) - 1, (j + 1) + b - 1)
    BY <2>1, SubSeqOfSubSeq
  <2>3. (j + 1) + (a + 1) - 1 = j + a + 1 /\ (j + 1) + b - 1 = j + b
    BY <1>1
  <2> QED
    BY <2>2, <2>3 DEF View
<1>3. CASE b < a + 1
  <2>1. j + b < j + a + 1 /\ j + b \in Int /\ j + a + 1 \in Int /\ a + 1 \in Int /\ b \in Int
    BY <1>1, <1>3
  <2>2. SubSeq(View(j, e), a + 1, b) = <<>> /\ SubSeq(stream, j + a + 1, j + b) = <<>>
    BY <1>3, <2>1, SubSeqEmpty
  <2> QED
    BY <2>2 DEF View
<1> QED
  BY <1>1, <1>2, <1>3

(* The sequence p stands behind byte j, before byte e. *)
Stands(p, j, e) == j + Len(p) <= e /\ \A i \in 1 .. Len(p) : stream[j + i] = p[i]

LEMMA PrefixIs ==
    ASSUME stream \in Seq(Symbols), NEW e \in 0 .. Len(stream), NEW j \in 0 .. e, NEW p \in Seq(Symbols)
    PROVE  IsPrefix(p, View(j, e)) <=> Stands(p, j, e)
<1> DEFINE v == View(j, e)
           n == Len(p)
<1>1. /\ v \in Seq(Symbols) /\ Len(v) = e - j /\ \A i \in 1 .. Len(v) : v[i] = stream[j + i]
      /\ Len(v) \in Nat /\ j \in Nat /\ e \in Nat
  BY ViewIs
<1>a. n \in Nat
  OBVIOUS
<1> HIDE DEF v
<1>2. n <= Len(v) <=> j + n <= e
  BY <1>1, <1>a
<1>3. ASSUME n <= Len(v) PROVE SubSeq(p, 1, n) = SubSeq(v, 1, n) <=> \A i \in 1 .. n : stream[j + i] = p[i]
  <2>1. SubSeq(p, 1, n) = p
    BY SubSeqFull
  <2>2. SubSeq(v, 1, n) \in Seq(Symbols) /\ Len(SubSeq(v, 1, n)) = n /\ \A i \in 1 .. n : SubSeq(v, 1, n)[i] = stream[j + i]
    BY <1>1, <1>3, <1>a
  <2> HIDE DEF n
  <2>3. (p = SubSeq(v, 1, n)) <=> \A i \in 1 .. n : p[i] = SubSeq(v, 1, n)[i]
    BY <2>2, SeqEqual, Zenon DEF n
  <2> QED
    BY <2>1, <2>2, <2>3
<1> QED
  BY <1>2, <1>3 DEF IsPrefix, Stands, v, n

LEMMA MinIs ==
    ASSUME NEW S \in SUBSET Nat, S # {}
    PROVE  Min(S) \in S /\ \A y \in S : Min(S) <= y
<1>1. \E x \in S : \A y \in S : x <= y
  BY LeastNumber
<1> QED
  BY <1>1, Zenon DEF Min

LEMMA AfterIs ==
    ASSUME stream \in Seq(Symbols), NEW e \in 0 .. Len(stream), NEW j \in 0 .. e, NEW p \in Seq(Symbols)
    PROVE  After(p, View(j, e)) = View(j + Len(p), e)
<1>1. Len(p) \in Nat /\ Len(View(j, e)) \in 0 .. Len(View(j, e)) /\ j + Len(View(j, e)) = e
  <2>1. Len(View(j, e)) = e - j /\ Len(View(j, e)) \in Nat /\ j \in Nat /\ e \in Nat
    BY ViewIs
  <2> QED
    BY <2>1, LenProperties
<1>2. SubSeq(View(j, e), Len(p) + 1, Len(View(j, e))) = View(j + Len(p), j + Len(View(j, e)))
  BY <1>1, ViewOfView
<1> QED
  BY <1>1, <1>2 DEF After

(* White space from behind j to s, and none behind s before e. *)
Spaces(j, s) == \A i \in j + 1 .. s : stream[i] = "sp"
Skipped(j, s, e) == Spaces(j, s) /\ (s < e => stream[s + 1] # "sp")

LEMMA SkipIs ==
    ASSUME stream \in Seq(Symbols), NEW e \in 0 .. Len(stream), NEW j \in 0 .. e
    PROVE  \E s \in j .. e : Skipped(j, s, e) /\ SkipLWSP(View(j, e)) = View(s, e)
<1> DEFINE v == View(j, e)
           I == { i \in 1 .. Len(v) : v[i] # "sp" }
           m == SelectInSeq(v, LAMBDA c : c # "sp")
<1>1. /\ v \in Seq(Symbols) /\ Len(v) = e - j /\ (\A i \in 1 .. Len(v) : v[i] = stream[j + i]) /\ Len(v) \in Nat
      /\ j \in Nat /\ e \in Nat /\ j <= e
  BY ViewIs
<1>2. m = IF I # {} THEN Min(I) ELSE 0
  BY Zenon DEF SelectInSeq
<1>3. SkipLWSP(v) = IF m = 0 THEN <<>> ELSE SubSeq(v, m, Len(v))
  BY DEF SkipLWSP
<1>4. CASE I = {}
  <2>1. SkipLWSP(v) = <<>>
    BY <1>2, <1>3, <1>4
  <2>2. ASSUME NEW i \in j + 1 .. e PROVE stream[i] = "sp"
    <3>1. i - j \in 1 .. Len(v) /\ j + (i - j) = i
      BY <1>1
    <3>2. v[i - j] = stream[i] /\ v[i - j] = "sp"
      BY <1>1, <1>4, <3>1
    <3> QED
      BY <3>2
  <2>3. View(e, e) = <<>>
    BY <1>1, SubSeqEmpty DEF View
  <2> QED
    BY <1>1, <2>1, <2>2, <2>3 DEF Spaces, Skipped
<1>5. CASE I # {}
  <2>1. m \in I /\ \A y \in I : m <= y
    <3>1. I \in SUBSET Nat
      BY <1>1
    <3>2. Min(I) \in I /\ \A y \in I : Min(I) <= y
      BY <1>5, <3>1, MinIs
    <3> QED
      BY <1>2, <1>5, <3>2
  <2> HIDE DEF m
  <2>2. m \in 1 .. e - j /\ m # 0 /\ v[m] # "sp" /\ m \in Nat
    BY <1>1, <2>1
  <2> DEFINE s == j + (m - 1)
  <2>3. s \in j .. e /\ s < e /\ s + 1 = j + m /\ stream[s + 1] # "sp"
    BY <1>1, <2>2
  <2>4. SkipLWSP(v) = View(s, e)
    <3>1. m - 1 \in Nat /\ Len(v) \in 0 .. Len(View(j, e)) /\ (m - 1) + 1 = m /\ j + Len(v) = e
      BY <1>1, <2>2
    <3>2. SubSeq(View(j, e), (m - 1) + 1, Len(v)) = View(j + (m - 1), j + Len(v))
      BY <3>1, ViewOfView
    <3> QED
      BY <1>3, <2>2, <3>1, <3>2
  <2>5. ASSUME NEW i \in j + 1 .. s PROVE stream[i] = "sp"
    <3>1. i - j \in 1 .. Len(v) /\ j + (i - j) = i /\ i - j < m /\ i - j \in Nat
      BY <1>1, <2>2
    <3>2. v[i - j] = stream[i] /\ i - j \notin I
      BY <1>1, <2>1, <3>1
    <3> QED
      BY <3>1, <3>2
  <2> HIDE DEF s
  <2> QED
    BY <2>3, <2>4, <2>5 DEF Spaces, Skipped
<1> QED
  BY <1>4, <1>5

LEMMA SkipUnique ==
    ASSUME NEW e \in Nat, NEW j \in 0 .. e, NEW s \in j .. e, NEW t \in j .. e, Skipped(j, s, e), Skipped(j, t, e)
    PROVE  s = t
<1>1. ASSUME NEW a \in j .. e, NEW b \in j .. e, Skipped(j, a, e), Skipped(j, b, e) PROVE ~(a < b)
  BY <1>1 DEF Skipped, Spaces
<1>2. ~(s < t) /\ ~(t < s)
  BY <1>1
<1> QED
  BY <1>2

LEMMA Words ==
    /\ Dash \in Seq(Symbols) /\ Len(Dash) = 3
    /\ DashDash \in Seq(Symbols) /\ Len(DashDash) = 5
    /\ <<"-", "-">> \in Seq(Symbols) /\ Len(<<"-", "-">>) = 2
    /\ LF \in Seq(Symbols) /\ Len(LF) = 1 /\ LF[1] = "lf"
    /\ CR \in Seq(Symbols) /\ Len(CR) = 2 /\ CR[1] = "cr" /\ CR[2] = "lf"
    /\ PeekSize \in Nat /\ PeekSize >= 7
<1>1. {"-", "b", "cr", "lf"} \subseteq Symbols
  BY DEF Symbols
<1> HIDE DEF Symbols
<1>2. Dash \in Seq(Symbols) /\ Len(Dash) = 3
  BY <1>1 DEF Dash
<1>3. <<"-", "-">> \in Seq(Symbols) /\ Len(<<"-", "-">>) = 2
  BY <1>1
<1>4. DashDash \in Seq(Symbols) /\ Len(DashDash) = 5
  <2>1. \A s, t \in Seq(Symbols) : s \o t \in Seq(Symbols) /\ Len(s \o t) = Len(s) + Len(t)
    BY ConcatProperties
  <2>2. DashDash \in Seq(Symbols) /\ Len(DashDash) = Len(Dash) + Len(<<"-", "-">>)
    BY <1>2, <1>3, <2>1, Zenon DEF DashDash
  <2> QED
    BY <1>2, <1>3, <2>2
<1>5. LF \in Seq(Symbols) /\ Len(LF) = 1 /\ CR \in Seq(Symbols) /\ Len(CR) = 2
  BY <1>1 DEF LF, CR
<1>6. LF[1] = "lf" /\ CR[1] = "cr" /\ CR[2] = "lf"
  BY DEF LF, CR
<1>7. PeekSize \in Nat /\ PeekSize >= 7
  BY <1>2, PeekAssumption
<1> QED
  BY <1>2, <1>3, <1>4, <1>5, <1>6, <1>7

(* One sequence stands behind the other. *)
LEMMA StandsConcat ==
    ASSUME NEW S, NEW p \in Seq(S), NEW q \in Seq(S), NEW j \in Nat, NEW e \in Nat
    PROVE  Stands(p \o q, j, e) <=> Stands(p, j, e) /\ Stands(q, j + Len(p), e)
<1>1. /\ Len(p) \in Nat /\ Len(q) \in Nat /\ Len(p \o q) = Len(p) + Len(q)
      /\ \A i \in 1 .. Len(p) : (p \o q)[i] = p[i]
      /\ \A i \in 1 .. Len(q) : (p \o q)[Len(p) + i] = q[i]
  BY ConcatProperties
<1> DEFINE r == p \o q
<1> HIDE DEF r
<1>2. ASSUME Stands(r, j, e) PROVE Stands(p, j, e) /\ Stands(q, j + Len(p), e)
  <2>1. j + Len(p) + Len(q) <= e /\ \A i \in 1 .. Len(p) + Len(q) : stream[j + i] = r[i]
    BY <1>1, <1>2 DEF Stands, r
  <2>2. \A i \in 1 .. Len(p) : stream[j + i] = p[i]
    BY <1>1, <2>1 DEF r
  <2>3. ASSUME NEW i \in 1 .. Len(q) PROVE stream[j + Len(p) + i] = q[i]
    <3>1. Len(p) + i \in 1 .. Len(p) + Len(q) /\ j + (Len(p) + i) = j + Len(p) + i
      BY <1>1
    <3> QED
      BY <1>1, <2>1, <3>1 DEF r
  <2>4. j + Len(p) <= e
    BY <1>1, <2>1
  <2> QED
    BY <2>1, <2>2, <2>3, <2>4 DEF Stands
<1>3. ASSUME Stands(p, j, e), Stands(q, j + Len(p), e) PROVE Stands(r, j, e)
  <2>1. /\ j + Len(p) + Len(q) <= e /\ \A i \in 1 .. Len(p) : stream[j + i] = p[i]
        /\ \A i \in 1 .. Len(q) : stream[j + Len(p) + i] = q[i]
    BY <1>3 DEF Stands
  <2>2. ASSUME NEW i \in 1 .. Len(p) + Len(q) PROVE stream[j + i] = r[i]
    <3>1. CASE i <= Len(p)
      BY <1>1, <2>1, <3>1 DEF r
    <3>2. CASE i > Len(p)
      <4>1. i - Len(p) \in 1 .. Len(q) /\ Len(p) + (i - Len(p)) = i /\ j + Len(p) + (i - Len(p)) = j + i
        BY <1>1, <3>2
      <4> QED
        BY <1>1, <2>1, <4>1 DEF r
    <3> QED
      BY <1>1, <3>1, <3>2
  <2> QED
    BY <1>1, <2>1, <2>2 DEF Stands, r
<1> QED
  BY <1>2, <1>3 DEF r

(* What ends a part, and an empty one, said position by position.          *)
EndsHere(j, e) ==
    \/ Stands(<<"-", "-">>, j, e)
    \/ \E s \in j .. e : Skipped(j, s, e) /\ (Stands(LF, s, e) \/ Stands(CR, s, e))

LEMMA EndsIs ==
    ASSUME stream \in Seq(Symbols), NEW e \in 0 .. Len(stream), NEW j \in 0 .. e
    PROVE  Ends(View(j, e)) <=> EndsHere(j, e)
<1>1. PICK s \in j .. e : Skipped(j, s, e) /\ SkipLWSP(View(j, e)) = View(s, e)
  BY SkipIs
<1>2. e \in Nat /\ s \in 0 .. e
  BY ViewIs
<1>3. Ends(View(j, e)) <=> Stands(<<"-", "-">>, j, e) \/ Stands(LF, s, e) \/ Stands(CR, s, e)
  <2>1. IsPrefix(<<"-", "-">>, View(j, e)) <=> Stands(<<"-", "-">>, j, e)
    BY PrefixIs, Words
  <2>2. (IsPrefix(LF, View(s, e)) <=> Stands(LF, s, e)) /\ (IsPrefix(CR, View(s, e)) <=> Stands(CR, s, e))
    BY <1>2, PrefixIs, Words
  <2>3. Ends(View(j, e)) <=> \/ IsPrefix(<<"-", "-">>, View(j, e))
                             \/ IsPrefix(LF, View(s, e)) \/ IsPrefix(CR, View(s, e))
    BY <1>1, Zenon DEF Ends, LF, CR
  <2> QED
    BY <2>1, <2>2, <2>3
<1>4. \A t \in j .. e : Skipped(j, t, e) => t = s
  BY <1>1, <1>2, SkipUnique
<1> QED
  BY <1>1, <1>3, <1>4 DEF EndsHere

EmptyHere(j, e) ==
    IF Stands(DashDash, j, e)
    THEN \E s \in j + 5 .. e : Skipped(j + 5, s, e) /\ (Stands(nl, s, e) \/ s = e)
    ELSE Stands(Dash, j, e) /\ \E s \in j + 3 .. e : Skipped(j + 3, s, e) /\ Stands(nl, s, e)

LEMMA EmptyIs ==
    ASSUME stream \in Seq(Symbols), NEW e \in 0 .. Len(stream), NEW j \in 0 .. e, nl \in {CR, LF}
    PROVE  IsEmptyPart(View(j, e)) <=> EmptyHere(j, e)
<1> DEFINE v == View(j, e)
<1>1. j \in Nat /\ e \in Nat /\ nl \in Seq(Symbols)
  <2>1. j \in Nat /\ e \in Nat
    BY ViewIs
  <2> QED
    BY <2>1, Words
<1>2. (IsPrefix(DashDash, v) <=> Stands(DashDash, j, e)) /\ (IsPrefix(Dash, v) <=> Stands(Dash, j, e))
  BY PrefixIs, Words
<1>3. CASE Stands(DashDash, j, e)
  <2>1. j + 5 \in 0 .. e
    BY <1>1, <1>3, Words DEF Stands
  <2>2. After(DashDash, v) = View(j + 5, e)
    BY AfterIs, Words
  <2>3. PICK s \in j + 5 .. e : Skipped(j + 5, s, e) /\ SkipLWSP(View(j + 5, e)) = View(s, e)
    BY <2>1, SkipIs
  <2>4. s \in 0 .. e
    BY <1>1, <2>1
  <2>5. View(s, e) = <<>> <=> s = e
    <3>1. Len(View(s, e)) = e - s /\ View(s, e) \in Seq(Symbols) /\ s \in Nat
      BY <2>4, ViewIs
    <3> QED
      BY <1>1, <3>1, EmptySeq
  <2>6. IsPrefix(nl, View(s, e)) <=> Stands(nl, s, e)
    BY <1>1, <2>4, PrefixIs
  <2>7. \A t \in j + 5 .. e : Skipped(j + 5, t, e) => t = s
    BY <1>1, <2>1, <2>3, SkipUnique
  <2>8. IsEmptyPart(v) <=> IsPrefix(nl, View(s, e)) \/ View(s, e) = <<>>
    BY <1>2, <1>3, <2>2, <2>3, Zenon DEF IsEmptyPart
  <2> HIDE DEF v
  <2> QED
    BY <1>3, <2>3, <2>5, <2>6, <2>7, <2>8 DEF EmptyHere, v
<1>4. CASE ~Stands(DashDash, j, e) /\ Stands(Dash, j, e)
  <2>1. j + 3 \in 0 .. e
    BY <1>1, <1>4, Words DEF Stands
  <2>2. After(Dash, v) = View(j + 3, e)
    BY AfterIs, Words
  <2>3. PICK s \in j + 3 .. e : Skipped(j + 3, s, e) /\ SkipLWSP(View(j + 3, e)) = View(s, e)
    BY <2>1, SkipIs
  <2>4. s \in 0 .. e
    BY <1>1, <2>1
  <2>6. IsPrefix(nl, View(s, e)) <=> Stands(nl, s, e)
    BY <1>1, <2>4, PrefixIs
  <2>7. \A t \in j + 3 .. e : Skipped(j + 3, t, e) => t = s
    BY <1>1, <2>1, <2>3, SkipUnique
  <2>8. IsEmptyPart(v) <=> IsPrefix(nl, View(s, e))
    BY <1>2, <1>4, <2>2, <2>3, Zenon DEF IsEmptyPart
  <2> HIDE DEF v
  <2> QED
    BY <1>4, <2>3, <2>6, <2>7, <2>8 DEF EmptyHere, v
<1>5. CASE ~Stands(DashDash, j, e) /\ ~Stands(Dash, j, e)
  <2>1. ~IsEmptyPart(v)
    BY <1>2, <1>5, Zenon DEF IsEmptyPart
  <2> QED
    BY <1>5, <2>1 DEF EmptyHere
<1> QED
  BY <1>3, <1>4, <1>5

(* If the padding fits, what follows a boundary looks the same in the peek *)
(* buffer as in the whole stream.                                          *)
LEMMA PadFits ==
    ASSUME stream \in Seq(Symbols), PaddingFits, NEW d \in {Dash, DashDash}, NEW j \in 0 .. Len(stream),
           Stands(d, j, Len(stream)), NEW s \in j + Len(d) .. Len(stream), Spaces(j + Len(d), s)
    PROVE  s < j + Len(d) + PeekSize - 6
<1> DEFINE K == PeekSize - 6
           L == Len(stream)
<1>1. L \in Nat /\ d \in Seq(Symbols) /\ Len(d) \in Nat /\ K \in Nat /\ j \in Nat /\ K = PeekSize - Len(DashDash) - 1
  BY Words
<1>2. Blank(K) \in Seq(Symbols) /\ Len(Blank(K)) = K /\ \A i \in 1 .. K : Blank(K)[i] = "sp"
  BY <1>1 DEF Blank, Symbols
<1> HIDE DEF K, L
<1> SUFFICES ASSUME s >= j + Len(d) + K PROVE FALSE
  BY <1>1 DEF K
<1>3. Stands(Blank(K), j + Len(d), L)
  BY SMTT(30), <1>1, <1>2 DEF Stands, Spaces, L
<1>4. Stands(d \o Blank(K), j, L)
  BY <1>1, <1>2, <1>3, StandsConcat DEF L
<1>5. d \o Blank(K) \in Seq(Symbols) /\ L \in 0 .. L
  BY <1>1, <1>2
<1>6. IsPrefix(d \o Blank(K), View(j, L))
  BY <1>1, <1>4, <1>5, PrefixIs DEF L
<1> QED
  BY <1>1, <1>6 DEF PaddingFits, From, View, L

LEMMA PadSame ==
    ASSUME stream \in Seq(Symbols), PaddingFits, NEW d \in {Dash, DashDash}, NEW j \in 0 .. Len(stream),
           Stands(d, j, Len(stream)), NEW e \in 0 .. Len(stream), j + Len(d) + PeekSize - 5 <= e
    PROVE  \A s \in Nat : /\ s \in j + Len(d) .. e /\ Skipped(j + Len(d), s, e)
                             <=> s \in j + Len(d) .. Len(stream) /\ Skipped(j + Len(d), s, Len(stream))
                          /\ s \in j + Len(d) .. e /\ Skipped(j + Len(d), s, e) => s + 2 <= e
<1> DEFINE c == j + Len(d)
           L == Len(stream)
<1>1. L \in Nat /\ Len(d) \in Nat /\ j \in Nat /\ e \in Nat /\ e <= L /\ PeekSize \in Nat /\ c \in Nat
  BY Words
<1> HIDE DEF L, c
<1>2. ASSUME NEW s \in c .. L, Spaces(c, s) PROVE s + 2 <= e
  <2>1. s < c + PeekSize - 6
    BY <1>2, PadFits DEF c, L
  <2> QED
    BY <1>1, <1>2, <2>1 DEF c
<1>3. \A s \in Nat : s \in c .. e /\ Skipped(c, s, e) => s \in c .. L /\ Skipped(c, s, L) /\ s + 2 <= e
  BY <1>1, <1>2 DEF Skipped
<1>4. \A s \in Nat : s \in c .. L /\ Skipped(c, s, L) => s \in c .. e /\ Skipped(c, s, e)
  BY <1>1, <1>2 DEF Skipped
<1> QED
  BY <1>3, <1>4 DEF c, L

(* A sequence that stands, and its end before e. *)
LEMMA StandsTo ==
    ASSUME NEW p, NEW j \in Nat, NEW e \in Nat, NEW f \in Nat, Len(p) \in Nat, j + Len(p) <= e, e <= f
    PROVE  Stands(p, j, e) <=> Stands(p, j, f)
BY DEF Stands

LEMMA LinesStand ==
    ASSUME NEW e \in Nat, NEW f \in Nat, e <= f
    PROVE  \A s \in Nat : s + 2 <= e => /\ Stands(LF, s, e) <=> Stands(LF, s, f)
                                        /\ Stands(CR, s, e) <=> Stands(CR, s, f)
<1> SUFFICES ASSUME NEW s \in Nat, s + 2 <= e
             PROVE  (Stands(LF, s, e) <=> Stands(LF, s, f)) /\ (Stands(CR, s, e) <=> Stands(CR, s, f))
  OBVIOUS
<1>1. Len(LF) \in Nat /\ s + Len(LF) <= e /\ Len(CR) \in Nat /\ s + Len(CR) <= e
  BY Words
<1>2. Stands(LF, s, e) <=> Stands(LF, s, f)
  BY <1>1, StandsTo
<1>3. Stands(CR, s, e) <=> Stands(CR, s, f)
  BY <1>1, StandsTo
<1> QED
  BY <1>2, <1>3

LEMMA EndsSame ==
    ASSUME stream \in Seq(Symbols), PaddingFits, NEW j \in 0 .. Len(stream),
           Stands(Dash, j, Len(stream)), NEW e \in 0 .. Len(stream), j + PeekSize - 2 <= e
    PROVE  EndsHere(j + 3, e) <=> EndsHere(j + 3, Len(stream))
<1>1. Len(stream) \in Nat /\ j \in Nat /\ e \in Nat /\ e <= Len(stream) /\ PeekSize \in Nat /\ PeekSize >= 7
  BY Words
<1>2. j + Len(Dash) + PeekSize - 5 <= e
  BY <1>1, Words
<1>3. \A s \in Nat : /\ s \in j + 3 .. e /\ Skipped(j + 3, s, e)
                        <=> s \in j + 3 .. Len(stream) /\ Skipped(j + 3, s, Len(stream))
                     /\ s \in j + 3 .. e /\ Skipped(j + 3, s, e) => s + 2 <= e
  BY <1>2, PadSame, Words
<1>4. \A s \in Nat : s + 2 <= e => /\ Stands(LF, s, e) <=> Stands(LF, s, Len(stream))
                                   /\ Stands(CR, s, e) <=> Stands(CR, s, Len(stream))
  BY <1>1, LinesStand
<1>5. Stands(<<"-", "-">>, j + 3, e) <=> Stands(<<"-", "-">>, j + 3, Len(stream))
  <2>1. j + 3 \in Nat /\ Len(<<"-", "-">>) \in Nat /\ j + 3 + Len(<<"-", "-">>) <= e
    BY <1>1, Words
  <2> QED
    BY <1>1, <2>1, StandsTo
<1>6. \A s : s \in j + 3 .. e \/ s \in j + 3 .. Len(stream) => s \in Nat
  BY <1>1
<1> QED
  BY <1>3, <1>4, <1>5, <1>6 DEF EndsHere

LEMMA EmptySame ==
    ASSUME stream \in Seq(Symbols), PaddingFits, nl \in {CR, LF}, NEW j \in 0 .. Len(stream),
           NEW e \in 0 .. Len(stream), j + PeekSize <= e
    PROVE  EmptyHere(j, e) <=> EmptyHere(j, Len(stream))
<1>1. Len(stream) \in Nat /\ j \in Nat /\ e \in Nat /\ e <= Len(stream) /\ PeekSize \in Nat /\ PeekSize >= 7
  BY Words
<1>2. \A s \in Nat : s + 2 <= e => (Stands(nl, s, e) <=> Stands(nl, s, Len(stream)))
  <2>1. \A s \in Nat : s + 2 <= e => /\ Stands(LF, s, e) <=> Stands(LF, s, Len(stream))
                                     /\ Stands(CR, s, e) <=> Stands(CR, s, Len(stream))
    BY <1>1, LinesStand
  <2> QED
    BY <2>1
<1>3. /\ Stands(DashDash, j, e) <=> Stands(DashDash, j, Len(stream))
      /\ Stands(Dash, j, e) <=> Stands(Dash, j, Len(stream))
  <2>1. Len(DashDash) \in Nat /\ j + Len(DashDash) <= e /\ Len(Dash) \in Nat /\ j + Len(Dash) <= e
    BY <1>1, Words
  <2>2. Stands(DashDash, j, e) <=> Stands(DashDash, j, Len(stream))
    BY <1>1, <2>1, StandsTo
  <2>3. Stands(Dash, j, e) <=> Stands(Dash, j, Len(stream))
    BY <1>1, <2>1, StandsTo
  <2> QED
    BY <2>2, <2>3
<1>4. CASE Stands(DashDash, j, e)
  <2>1. j + Len(DashDash) + PeekSize - 5 <= e /\ Stands(DashDash, j, Len(stream))
    BY <1>1, <1>3, <1>4, Words
  <2>2. \A s \in Nat : /\ s \in j + 5 .. e /\ Skipped(j + 5, s, e)
                          <=> s \in j + 5 .. Len(stream) /\ Skipped(j + 5, s, Len(stream))
                       /\ s \in j + 5 .. e /\ Skipped(j + 5, s, e) => s + 2 <= e
    BY <2>1, PadSame, Words
  <2>3. \A s : s \in j + 5 .. e \/ s \in j + 5 .. Len(stream) => s \in Nat
    BY <1>1
  <2>4. \A s \in Nat : s + 2 <= e => s # e /\ s # Len(stream)
    BY <1>1
  <2> QED
    BY <1>2, <1>3, <1>4, <2>2, <2>3, <2>4 DEF EmptyHere
<1>5. CASE ~Stands(DashDash, j, e) /\ Stands(Dash, j, e)
  <2>1. j + Len(Dash) + PeekSize - 5 <= e /\ Stands(Dash, j, Len(stream))
    BY <1>1, <1>3, <1>5, Words
  <2>2. \A s \in Nat : /\ s \in j + 3 .. e /\ Skipped(j + 3, s, e)
                          <=> s \in j + 3 .. Len(stream) /\ Skipped(j + 3, s, Len(stream))
                       /\ s \in j + 3 .. e /\ Skipped(j + 3, s, e) => s + 2 <= e
    BY <2>1, PadSame, Words
  <2>3. \A s : s \in j + 3 .. e \/ s \in j + 3 .. Len(stream) => s \in Nat
    BY <1>1
  <2> QED
    BY <1>2, <1>3, <1>5, <2>2, <2>3 DEF EmptyHere
<1>6. CASE ~Stands(DashDash, j, e) /\ ~Stands(Dash, j, e)
  BY <1>3, <1>6 DEF EmptyHere
<1> QED
  BY <1>4, <1>5, <1>6

-----------------------------------------------------------------------------
LEMMA MinOfTwo ==
    ASSUME NEW a \in Int, NEW b \in Int
    PROVE  Min({a, b}) = IF a <= b THEN a ELSE b
<1>1. \E x \in {a, b} : \A y \in {a, b} : x <= y
  OBVIOUS
<1>2. Min({a, b}) \in {a, b} /\ \A y \in {a, b} : Min({a, b}) <= y
  BY <1>1, Zenon DEF Min
<1> QED
  BY <1>2

LEMMA MaxOfTwo ==
    ASSUME NEW a \in Int, NEW b \in Int
    PROVE  Max({a, b}) = IF a >= b THEN a ELSE b
<1>1. \E x \in {a, b} : \A y \in {a, b} : x >= y
  OBVIOUS
<1>2. Max({a, b}) \in {a, b} /\ \A y \in {a, b} : Max({a, b}) >= y
  BY <1>1, Zenon DEF Max
<1> QED
  BY <1>2

(* Where the peek buffer ends. *)
PeekEnd == IF at + PeekSize <= Len(stream) THEN at + PeekSize ELSE Len(stream)

LEMMA WindowIs ==
    ASSUME stream \in Seq(Symbols), at \in 0 .. Len(stream)
    PROVE  /\ Rest = View(at, Len(stream)) /\ Window(PeekSize) = View(at, PeekEnd)
           /\ PeekEnd \in at .. Len(stream) /\ PeekEnd \in 0 .. Len(stream) /\ at \in 0 .. PeekEnd
           /\ Len(Rest) = Len(stream) - at
           /\ Window(PeekSize) \in Seq(Symbols) /\ Len(Window(PeekSize)) = PeekEnd - at
           /\ Len(stream) \in Nat /\ at \in Nat /\ PeekEnd \in Nat
           /\ Short(Window(PeekSize)) <=> at + PeekSize > Len(stream)
           /\ ~Short(Window(PeekSize)) => PeekEnd = at + PeekSize
<1>1. Len(stream) \in Nat /\ at \in Nat /\ PeekSize \in Nat /\ at <= Len(stream)
  BY Words
<1>2. PeekEnd \in at .. Len(stream) /\ PeekEnd \in 0 .. Len(stream) /\ PeekEnd \in Nat /\ at \in 0 .. PeekEnd
  BY <1>1 DEF PeekEnd
<1>3. Rest = View(at, Len(stream)) /\ Len(stream) \in 0 .. Len(stream)
  BY <1>1 DEF Rest, View
<1>4. Len(Rest) = Len(stream) - at
  BY <1>1, <1>3, ViewIs
<1>5. Min({PeekSize, Len(Rest)}) = PeekEnd - at
  <2>1. Len(Rest) \in Int /\ PeekSize \in Int
    BY <1>1, <1>4
  <2>2. Min({PeekSize, Len(Rest)}) = IF PeekSize <= Len(Rest) THEN PeekSize ELSE Len(Rest)
    BY <2>1, MinOfTwo
  <2> QED
    BY <1>1, <1>4, <2>2 DEF PeekEnd
<1>6. Window(PeekSize) = View(at, PeekEnd)
  <2>1. 0 \in Nat /\ PeekEnd - at \in 0 .. Len(View(at, Len(stream))) /\ 0 + 1 = 1 /\ at + 0 = at /\ at + (PeekEnd - at) = PeekEnd
    BY <1>1, <1>2, <1>3, <1>4
  <2>2. SubSeq(View(at, Len(stream)), 0 + 1, PeekEnd - at) = View(at + 0, at + (PeekEnd - at))
    BY <1>3, <2>1, ViewOfView
  <2> QED
    BY <1>3, <1>5, <2>1, <2>2 DEF Window
<1>7. View(at, PeekEnd) \in Seq(Symbols) /\ Len(View(at, PeekEnd)) = PeekEnd - at
  BY <1>2, ViewIs
<1>8. Short(Window(PeekSize)) <=> PeekEnd - at < PeekSize
  BY <1>6, <1>7 DEF Short
<1> QED
  BY <1>1, <1>2, <1>3, <1>4, <1>6, <1>7, <1>8 DEF PeekEnd

Sep == nl \o Dash

LEMMA SepIs ==
    ASSUME nl \in {CR, LF}
    PROVE  /\ Sep \in Seq(Symbols) /\ nl \in Seq(Symbols)
           /\ Len(nl) \in Nat /\ 1 <= Len(nl) /\ Len(nl) <= 2
           /\ Len(Sep) = Len(nl) + 3 /\ Len(Sep) \in Nat /\ Len(Sep) > 0 /\ Len(Sep) <= 5
<1>1. nl \in Seq(Symbols) /\ Len(nl) \in Nat /\ 1 <= Len(nl) /\ Len(nl) <= 2
  <2>1. CASE nl = CR
    BY <2>1, Words
  <2>2. CASE nl = LF
    BY <2>2, Words
  <2> QED
    BY <2>1, <2>2
<1>2. Dash \in Seq(Symbols) /\ Len(Dash) = 3
  BY Words
<1>3. Sep \in Seq(Symbols) /\ Len(Sep) = Len(nl) + Len(Dash)
  BY <1>1, <1>2, ConcatProperties DEF Sep
<1> QED
  BY <1>1, <1>2, <1>3

LEMMA SeparatorsAre ==
    ASSUME stream \in Seq(Symbols), nl \in {CR, LF}, NEW e \in 0 .. Len(stream), NEW j \in 0 .. e
    PROVE  /\ Separators(View(j, e)) \in SUBSET Nat
           /\ \A i \in Nat : i \in Separators(View(j, e)) <=> Stands(Sep, j + i, e)
<1> DEFINE v == View(j, e)
           n == Len(Sep)
<1>1. Len(v) = e - j /\ j \in Nat /\ e \in Nat /\ j <= e /\ e <= Len(stream) /\ Len(stream) \in Nat
  BY ViewIs
<1>2. Sep \in Seq(Symbols) /\ n \in Nat /\ n > 0
  BY SepIs
<1> HIDE DEF v, n
<1>3. Separators(v) = { i \in 0 .. Len(v) - n : SubSeq(v, i + 1, i + n) = Sep }
  BY DEF Separators, Sep, n
<1>4. ASSUME NEW i \in 0 .. Len(v) - n PROVE SubSeq(v, i + 1, i + n) = Sep <=> Stands(Sep, j + i, e)
  <2>1. i \in Nat /\ i + n \in 0 .. Len(v) /\ j + i \in 0 .. j + i + n /\ j + i + n \in 0 .. Len(stream) /\ j + i + n <= e
    BY <1>1, <1>2
  <2>a. SubSeq(View(j, e), i + 1, i + n) = View(j + i, j + (i + n))
    BY <2>1, ViewOfView DEF v
  <2>2. SubSeq(v, i + 1, i + n) = View(j + i, j + i + n)
    <3>1. j + (i + n) = j + i + n
      BY <1>1, <1>2
    <3> QED
      BY <2>a, <3>1 DEF v
  <2>3. /\ View(j + i, j + i + n) \in Seq(Symbols) /\ Len(View(j + i, j + i + n)) = (j + i + n) - (j + i)
        /\ \A k \in 1 .. Len(View(j + i, j + i + n)) : View(j + i, j + i + n)[k] = stream[j + i + k]
    BY <2>1, ViewIs
  <2>4. Len(View(j + i, j + i + n)) = n
    BY SMTT(30), <1>1, <1>2, <2>1, <2>3
  <2>5. View(j + i, j + i + n) = Sep <=> \A k \in 1 .. n : View(j + i, j + i + n)[k] = Sep[k]
    BY <1>2, <2>3, <2>4, SeqEqual, Zenon DEF n
  <2>6. View(j + i, j + i + n) = Sep <=> \A k \in 1 .. n : stream[j + i + k] = Sep[k]
    BY <2>3, <2>4, <2>5
  <2> QED
    BY <2>1, <2>2, <2>6, <1>2 DEF Stands, n
<1>5. ASSUME NEW i \in Nat, Stands(Sep, j + i, e) PROVE i \in 0 .. Len(v) - n
  BY <1>1, <1>2, <1>5 DEF Stands, n
<1>6. Separators(v) \in SUBSET Nat
  BY <1>1, <1>2, <1>3
<1>7. \A i \in Nat : i \in Separators(v) <=> Stands(Sep, j + i, e)
  BY <1>3, <1>4, <1>5
<1> QED
  BY <1>6, <1>7 DEF v

(* SeparatorIndex is the first separator that can be seen. *)
LEMMA IndexIs ==
    ASSUME stream \in Seq(Symbols), nl \in {CR, LF}, NEW e \in 0 .. Len(stream), NEW j \in 0 .. e
    PROVE  LET idx == SeparatorIndex(View(j, e))
           IN  \/ idx = -1 /\ \A i \in Nat : ~Stands(Sep, j + i, e)
               \/ idx \in Nat /\ Stands(Sep, j + idx, e) /\ \A i \in Nat : Stands(Sep, j + i, e) => idx <= i
<1> DEFINE S == Separators(View(j, e))
<1>1. S \in SUBSET Nat /\ \A i \in Nat : i \in S <=> Stands(Sep, j + i, e)
  BY SeparatorsAre
<1>2. SeparatorIndex(View(j, e)) = IF S = {} THEN -1 ELSE Min(S)
  BY DEF SeparatorIndex
<1> HIDE DEF S
<1>3. CASE S = {}
  BY <1>1, <1>2, <1>3
<1>4. CASE S # {}
  <2>1. Min(S) \in S /\ \A i \in S : Min(S) <= i
    BY <1>1, <1>4, MinIs
  <2> QED
    BY <1>1, <1>2, <1>4, <2>1
<1> QED
  BY <1>3, <1>4

LEMMA IsEndIs ==
    ASSUME stream \in Seq(Symbols), nl \in {CR, LF}, NEW e \in 0 .. Len(stream), NEW j \in 0 .. e,
           SeparatorIndex(View(j, e)) = 0
    PROVE  IsEnd(View(j, e)) <=> EndsHere(j + Len(Sep), e)
<1> DEFINE v == View(j, e)
           n == Len(Sep)
<1>1. Len(v) = e - j /\ Len(v) \in Nat /\ j \in Nat /\ e \in Nat /\ j <= e /\ e <= Len(stream) /\ Len(stream) \in Nat
  BY ViewIs
<1>2. Sep \in Seq(Symbols) /\ n \in Nat
  BY SepIs
<1>3. j + n <= e
  <2>1. Stands(Sep, j + 0, e)
    BY IndexIs
  <2> QED
    BY <1>1, <1>2, <2>1 DEF Stands
<1> HIDE DEF v, n
<1>4. IsEnd(v) <=> Ends(SubSeq(v, n + 1, Len(v)))
  <2>1. SeparatorIndex(v) = 0 /\ 0 + Len(nl \o Dash) = n
    BY <1>2 DEF v, n, Sep
  <2>2. IsEnd(v) <=> Ends(SubSeq(v, 0 + Len(nl \o Dash) + 1, Len(v)))
    BY <2>1 DEF IsEnd
  <2> QED
    BY <2>1, <2>2
<1>5. SubSeq(v, n + 1, Len(v)) = View(j + n, e)
  <2>1. Len(v) \in 0 .. Len(v) /\ j + Len(v) = e
    BY <1>1
  <2>2. SubSeq(View(j, e), n + 1, Len(v)) = View(j + n, j + Len(v))
    BY <1>2, <2>1, ViewOfView DEF v
  <2> QED
    BY <2>1, <2>2 DEF v
<1>6. Ends(View(j + n, e)) <=> EndsHere(j + n, e)
  <2>1. j + n \in 0 .. e
    BY <1>1, <1>2, <1>3
  <2> QED
    BY <2>1, EndsIs
<1> QED
  BY <1>4, <1>5, <1>6 DEF v, n

-----------------------------------------------------------------------------
(* Where the body ends. *)
EndsBody(j) == Stands(Sep, j, Len(stream)) /\ EndsHere(j + Len(Sep), Len(stream))

LEMMA EndsAtIs ==
    ASSUME stream \in Seq(Symbols), nl \in {CR, LF}, NEW j \in 0 .. Len(stream)
    PROVE  EndsAt(j) <=> EndsBody(j)
<1>1. Sep \in Seq(Symbols) /\ Len(Sep) \in Nat /\ Len(stream) \in 0 .. Len(stream) /\ j \in Nat /\ Len(stream) \in Nat
  BY SepIs
<1>2. From(j) = View(j, Len(stream))
  BY DEF From, View
<1>3. IsPrefix(Sep, From(j)) <=> Stands(Sep, j, Len(stream))
  BY <1>1, <1>2, PrefixIs
<1>4. After(Sep, From(j)) = View(j + Len(Sep), Len(stream))
  BY <1>1, <1>2, AfterIs
<1>5. ASSUME Stands(Sep, j, Len(stream)) PROVE Ends(After(Sep, From(j))) <=> EndsHere(j + Len(Sep), Len(stream))
  <2>1. j + Len(Sep) \in 0 .. Len(stream)
    BY <1>1, <1>5 DEF Stands
  <2> QED
    BY <1>1, <1>4, <2>1, EndsIs
<1> QED
  BY <1>3, <1>5 DEF EndsAt, EndsBody, Sep

LEMMA EmptyBodyIs ==
    ASSUME stream \in Seq(Symbols), nl \in {CR, LF}, start \in 0 .. Len(stream)
    PROVE  EmptyBody <=> EmptyHere(start, Len(stream))
<1>1. Len(stream) \in 0 .. Len(stream) /\ From(start) = View(start, Len(stream))
  BY DEF From, View
<1> QED
  BY <1>1, EmptyIs DEF EmptyBody

LEMMA BodyEndIs ==
    ASSUME stream \in Seq(Symbols), nl \in {CR, LF}, start \in 0 .. Len(stream)
    PROVE  /\ BodyEnd \in start .. Len(stream)
           /\ EmptyBody => BodyEnd = start
           /\ ~EmptyBody => /\ BodyEnd = Len(stream) \/ EndsBody(BodyEnd)
                            /\ \A j \in start .. Len(stream) : EndsBody(j) => BodyEnd <= j
<1> DEFINE ends == { j \in start .. Len(stream) : EndsAt(j) }
<1>1. Len(stream) \in Nat /\ start \in Nat /\ start <= Len(stream)
  OBVIOUS
<1>2. BodyEnd = IF EmptyBody THEN start ELSE IF ends = {} THEN Len(stream) ELSE Min(ends)
  BY DEF BodyEnd
<1>3. ends \in SUBSET Nat /\ \A j \in ends : j \in start .. Len(stream)
  BY <1>1
<1>4. \A j \in start .. Len(stream) : j \in ends <=> EndsBody(j)
  BY <1>1, EndsAtIs
<1> HIDE DEF ends
<1>5. CASE EmptyBody
  BY <1>1, <1>2, <1>5
<1>6. CASE ~EmptyBody /\ ends = {}
  BY <1>1, <1>2, <1>4, <1>6
<1>7. CASE ~EmptyBody /\ ends # {}
  <2>1. Min(ends) \in ends /\ \A j \in ends : Min(ends) <= j
    BY <1>3, <1>7, MinIs
  <2> QED
    BY <1>1, <1>2, <1>3, <1>4, <1>7, <2>1
<1> QED
  BY <1>5, <1>6, <1>7

(* Reading has come so far, and is not at an empty body. *)
Inside ==
    /\ stream \in Seq(Symbols) /\ nl \in {CR, LF} /\ start \in 0 .. Len(stream) /\ at \in start .. Len(stream)
    /\ PaddingFits /\ at <= BodyEnd
    /\ at = start => ~IsEmptyPart(Window(PeekSize))

LEMMA SameEmpty ==
    ASSUME stream \in Seq(Symbols), nl \in {CR, LF}, start \in 0 .. Len(stream), at = start, PaddingFits
    PROVE  IsEmptyPart(Window(PeekSize)) <=> EmptyBody
<1>1. /\ Window(PeekSize) = View(at, PeekEnd) /\ PeekEnd \in 0 .. Len(stream) /\ at \in 0 .. PeekEnd
      /\ Len(stream) \in Nat
  BY WindowIs
<1>2. IsEmptyPart(Window(PeekSize)) <=> EmptyHere(at, PeekEnd)
  BY <1>1, EmptyIs
<1>3. EmptyHere(at, PeekEnd) <=> EmptyHere(at, Len(stream))
  <2>1. CASE at + PeekSize <= Len(stream)
    <3>1. PeekEnd = at + PeekSize
      BY <2>1 DEF PeekEnd
    <3>2. at + PeekSize <= PeekEnd
      BY <1>1, <3>1
    <3> QED
      BY <1>1, <3>2, EmptySame
  <2>2. CASE ~(at + PeekSize <= Len(stream))
    BY <2>2 DEF PeekEnd
  <2> QED
    BY <2>1, <2>2
<1> QED
  BY <1>2, <1>3, EmptyBodyIs

LEMMA InsideIs ==
    ASSUME Inside
    PROVE  /\ ~EmptyBody /\ BodyEnd \in at .. Len(stream)
           /\ BodyEnd = Len(stream) \/ EndsBody(BodyEnd)
           /\ EndsBody(at) => BodyEnd = at
<1>1. /\ stream \in Seq(Symbols) /\ nl \in {CR, LF} /\ start \in 0 .. Len(stream) /\ at \in start .. Len(stream)
      /\ PaddingFits /\ at <= BodyEnd /\ (at = start => ~IsEmptyPart(Window(PeekSize)))
  BY DEF Inside
<1>2. BodyEnd \in start .. Len(stream) /\ (EmptyBody => BodyEnd = start)
  BY <1>1, BodyEndIs
<1>3. ~EmptyBody
  <2> SUFFICES ASSUME EmptyBody PROVE FALSE
    OBVIOUS
  <2>1. at = start
    BY <1>1, <1>2
  <2> QED
    BY <1>1, <2>1, SameEmpty
<1>4. (BodyEnd = Len(stream) \/ EndsBody(BodyEnd)) /\ \A j \in start .. Len(stream) : EndsBody(j) => BodyEnd <= j
  BY <1>1, <1>3, BodyEndIs
<1> QED
  BY <1>1, <1>2, <1>3, <1>4

(* A separator that can be seen is at the end of the body exactly if the   *)
(* peek buffer shows it, however little of what follows it can be seen.    *)
LEMMA SeenEnd ==
    ASSUME Inside, SeparatorIndex(Window(PeekSize)) = 0
    PROVE  IsEnd(Window(PeekSize)) <=> EndsBody(at)
<1>1. /\ stream \in Seq(Symbols) /\ nl \in {CR, LF} /\ start \in 0 .. Len(stream) /\ at \in start .. Len(stream)
      /\ PaddingFits /\ at \in 0 .. Len(stream)
  BY DEF Inside
<1>2. /\ Window(PeekSize) = View(at, PeekEnd) /\ PeekEnd \in 0 .. Len(stream) /\ at \in 0 .. PeekEnd
      /\ Len(stream) \in Nat /\ at \in Nat /\ PeekEnd \in Nat /\ PeekEnd <= Len(stream)
  BY <1>1, WindowIs
<1>3. Stands(Sep, at + 0, PeekEnd)
  BY <1>1, <1>2, IndexIs
<1>4. /\ Sep \in Seq(Symbols) /\ nl \in Seq(Symbols) /\ Len(Sep) = Len(nl) + 3
      /\ Len(nl) \in Nat /\ Len(nl) <= 2 /\ Len(Sep) \in Nat
  BY <1>1, SepIs
<1>5. Stands(Sep, at, Len(stream)) /\ at + Len(Sep) <= PeekEnd
  BY <1>2, <1>3, <1>4 DEF Stands
<1>6. IsEnd(Window(PeekSize)) <=> EndsHere(at + Len(Sep), PeekEnd)
  BY <1>1, <1>2, IsEndIs
<1>7. EndsHere(at + Len(Sep), PeekEnd) <=> EndsHere(at + Len(Sep), Len(stream))
  <2>1. CASE at + PeekSize <= Len(stream)
    <3> DEFINE j == at + Len(nl)
    <3>1. PeekEnd = at + PeekSize /\ PeekSize \in Nat
      BY <2>1, Words DEF PeekEnd
    <3>2. j \in 0 .. Len(stream) /\ j + PeekSize - 2 <= PeekEnd /\ j + 3 = at + Len(Sep)
      BY <1>2, <1>4, <1>5, <3>1
    <3>3. Stands(Dash, j, Len(stream))
      BY <1>2, <1>4, <1>5, StandsConcat, Words DEF Sep
    <3> HIDE DEF j
    <3>4. EndsHere(j + 3, PeekEnd) <=> EndsHere(j + 3, Len(stream))
      BY <1>1, <1>2, <3>2, <3>3, EndsSame
    <3> QED
      BY <3>2, <3>4
  <2>2. CASE ~(at + PeekSize <= Len(stream))
    BY <2>2 DEF PeekEnd
  <2> QED
    BY <2>1, <2>2
<1> QED
  BY <1>5, <1>6, <1>7 DEF EndsBody

(* What is taken is in the peek buffer. *)
LEMMA NCopyTyped ==
    ASSUME stream \in Seq(Symbols), nl \in {CR, LF}, at \in 0 .. Len(stream)
    PROVE  NCopy(Window(PeekSize)) \in 0 .. PeekEnd - at
<1> DEFINE peek == Window(PeekSize)
           idx == SeparatorIndex(peek)
<1>1. /\ peek = View(at, PeekEnd) /\ PeekEnd \in 0 .. Len(stream) /\ at \in 0 .. PeekEnd
      /\ Len(stream) \in Nat /\ at \in Nat /\ PeekEnd \in Nat /\ Len(peek) = PeekEnd - at
  BY WindowIs
<1>2. Len(Sep) \in Nat /\ Len(Sep) > 0
  BY SepIs
<1>3. \/ idx = -1 /\ \A i \in Nat : ~Stands(Sep, at + i, PeekEnd)
      \/ idx \in Nat /\ Stands(Sep, at + idx, PeekEnd) /\ \A i \in Nat : Stands(Sep, at + i, PeekEnd) => idx <= i
  BY <1>1, IndexIs
<1>4. Safe(peek) \in 0 .. PeekEnd - at
  <2>1. Safe(peek) = Max({0, Len(peek) - Len(Sep)})
    BY DEF Safe, Sep
  <2>2. Len(peek) - Len(Sep) \in Int /\ 0 \in Int
    BY <1>1, <1>2
  <2>3. Max({0, Len(peek) - Len(Sep)}) = IF 0 >= Len(peek) - Len(Sep) THEN 0 ELSE Len(peek) - Len(Sep)
    BY <2>2, MaxOfTwo
  <2> QED
    BY <1>1, <1>2, <2>1, <2>3
<1>5. NCopy(peek) = IF idx # -1 THEN (IF idx = 0 /\ ~IsEnd(peek) THEN 1 ELSE idx)
                    ELSE IF Short(peek) THEN Len(peek) ELSE Safe(peek)
  BY DEF NCopy
<1>6. idx # -1 => idx \in 0 .. PeekEnd - at /\ 1 \in 0 .. PeekEnd - at
  BY <1>1, <1>2, <1>3 DEF Stands
<1> HIDE DEF idx, peek
<1> QED
  BY <1>1, <1>4, <1>5, <1>6 DEF peek

(* Nothing behind the body is taken. *)
LEMMA NCopyInside ==
    ASSUME Inside
    PROVE  at + NCopy(Window(PeekSize)) <= BodyEnd
<1> DEFINE peek == Window(PeekSize)
           idx == SeparatorIndex(peek)
<1>1. /\ stream \in Seq(Symbols) /\ nl \in {CR, LF} /\ at \in 0 .. Len(stream)
  BY DEF Inside
<1>2. /\ peek = View(at, PeekEnd) /\ PeekEnd \in 0 .. Len(stream) /\ at \in 0 .. PeekEnd
      /\ Len(stream) \in Nat /\ at \in Nat /\ PeekEnd \in Nat /\ PeekEnd <= Len(stream) /\ Len(peek) = PeekEnd - at
      /\ Short(peek) <=> at + PeekSize > Len(stream)
      /\ ~Short(peek) => PeekEnd = at + PeekSize
  BY <1>1, WindowIs
<1>3. Len(Sep) \in Nat /\ Len(Sep) > 0 /\ Len(Sep) <= 5
  BY <1>1, SepIs
<1>4. \/ idx = -1 /\ \A i \in Nat : ~Stands(Sep, at + i, PeekEnd)
      \/ idx \in Nat /\ Stands(Sep, at + idx, PeekEnd) /\ \A i \in Nat : Stands(Sep, at + i, PeekEnd) => idx <= i
  BY <1>1, <1>2, IndexIs
<1>5. BodyEnd \in at .. Len(stream) /\ (BodyEnd = Len(stream) \/ EndsBody(BodyEnd)) /\ (EndsBody(at) => BodyEnd = at)
  BY InsideIs
<1>6. BodyEnd \in Nat /\ at <= BodyEnd /\ BodyEnd <= Len(stream)
  BY <1>2, <1>5
<1>7. NCopy(peek) = IF idx # -1 THEN (IF idx = 0 /\ ~IsEnd(peek) THEN 1 ELSE idx)
                    ELSE IF Short(peek) THEN Len(peek) ELSE Safe(peek)
  BY DEF NCopy
<1>8. PeekSize \in Nat /\ PeekSize >= 7
  BY Words
(* the end of the body is seen if it is far enough from the end of the peek buffer *)
<1>9. ASSUME EndsBody(BodyEnd), BodyEnd + Len(Sep) <= PeekEnd PROVE Stands(Sep, at + (BodyEnd - at), PeekEnd) /\ BodyEnd - at \in Nat
  <2>1. Stands(Sep, BodyEnd, PeekEnd)
    BY <1>2, <1>3, <1>6, <1>9 DEF EndsBody, Stands
  <2>2. at + (BodyEnd - at) = BodyEnd /\ BodyEnd - at \in Nat
    BY <1>2, <1>6
  <2> QED
    BY <2>1, <2>2
<1>a. Short(peek) => PeekEnd = Len(stream)
  BY <1>2, <1>8 DEF PeekEnd
<1>b. EndsBody(BodyEnd) => BodyEnd + Len(Sep) <= Len(stream)
  BY DEF EndsBody, Stands
<1>c. SeparatorIndex(Window(PeekSize)) = 0 /\ EndsBody(at) => IsEnd(Window(PeekSize))
  BY SeenEnd
<1> HIDE DEF peek, idx
<1>10. CASE idx = -1 /\ Short(peek)
  <2>1. ~EndsBody(BodyEnd)
    BY <1>4, <1>9, <1>10, <1>a, <1>b
  <2> QED
    BY <1>2, <1>5, <1>7, <1>10, <1>a, <2>1 DEF peek
<1>11. CASE idx = -1 /\ ~Short(peek)
  <2>1. Safe(peek) = Max({0, Len(peek) - Len(Sep)})
    BY DEF Safe, Sep
  <2>2. Len(peek) - Len(Sep) \in Int /\ 0 \in Int /\ Len(peek) = PeekSize
    BY <1>2, <1>3, <1>8, <1>11
  <2>3. Max({0, Len(peek) - Len(Sep)}) = IF 0 >= Len(peek) - Len(Sep) THEN 0 ELSE Len(peek) - Len(Sep)
    BY <2>2, MaxOfTwo
  <2>4. Safe(peek) = PeekSize - Len(Sep)
    BY <1>3, <1>8, <2>1, <2>2, <2>3
  <2>5. BodyEnd + Len(Sep) > PeekEnd
    BY <1>2, <1>3, <1>4, <1>5, <1>6, <1>9, <1>11
  <2>6. PeekEnd = at + PeekSize /\ NCopy(peek) = PeekSize - Len(Sep)
    BY <1>2, <1>7, <1>11, <2>4
  <2> QED
    BY <1>2, <1>3, <1>6, <1>8, <2>5, <2>6 DEF peek
<1>12. CASE idx \in Nat
  <2>1. Stands(Sep, at + idx, PeekEnd) /\ (\A i \in Nat : Stands(Sep, at + i, PeekEnd) => idx <= i) /\ idx # -1
    BY <1>4, <1>12
  <2>2. at + idx + Len(Sep) <= PeekEnd
    BY <2>1 DEF Stands
  <2>3. at + idx <= BodyEnd
    <3>1. CASE EndsBody(BodyEnd) /\ BodyEnd + Len(Sep) <= PeekEnd
      <4>1. idx <= BodyEnd - at
        BY <1>9, <2>1, <3>1
      <4> QED
        BY <1>2, <1>6, <1>12, <4>1
    <3>2. CASE EndsBody(BodyEnd) /\ BodyEnd + Len(Sep) > PeekEnd
      BY <1>2, <1>3, <1>6, <1>12, <2>2, <3>2
    <3>3. CASE BodyEnd = Len(stream)
      BY <1>2, <1>3, <1>12, <2>2, <3>3
    <3> QED
      BY <1>2, <1>3, <1>5, <1>6, <3>1, <3>2, <3>3
  <2>4. CASE idx = 0 /\ ~IsEnd(peek)
    <3>1. BodyEnd # at
      <4>1. BodyEnd = Len(stream) => BodyEnd # at
        BY <1>2, <1>3, <2>2, <2>4
      <4>2. EndsBody(BodyEnd) => BodyEnd # at
        BY <1>c, <2>4 DEF peek, idx
      <4> QED
        BY <1>5, <4>1, <4>2
    <3>2. NCopy(peek) = 1
      BY <1>7, <2>1, <2>4
    <3> QED
      BY <1>2, <1>6, <3>1, <3>2 DEF peek
  <2>5. CASE ~(idx = 0 /\ ~IsEnd(peek))
    <3>1. NCopy(peek) = idx
      BY <1>7, <2>1, <2>5
    <3> QED
      BY <2>3, <3>1 DEF peek
  <2> QED
    BY <2>4, <2>5
<1> QED
  BY <1>4, <1>10, <1>11, <1>12

(* io.EOF is for the end of the body. *)
LEMMA EOFAtEnd ==
    ASSUME Inside, NCopy(Window(PeekSize)) = 0, Short(Window(PeekSize)) \/ IsEnd(Window(PeekSize))
    PROVE  BodyEnd = at
<1> DEFINE peek == Window(PeekSize)
           idx == SeparatorIndex(peek)
<1>1. /\ stream \in Seq(Symbols) /\ nl \in {CR, LF} /\ at \in 0 .. Len(stream)
  BY DEF Inside
<1>2. /\ peek = View(at, PeekEnd) /\ PeekEnd \in 0 .. Len(stream) /\ at \in 0 .. PeekEnd
      /\ Len(stream) \in Nat /\ at \in Nat /\ PeekEnd \in Nat /\ Len(peek) = PeekEnd - at
      /\ Short(peek) <=> at + PeekSize > Len(stream)
  BY <1>1, WindowIs
<1>3. idx = -1 \/ idx \in Nat
  BY <1>1, <1>2, IndexIs
<1>4. BodyEnd \in at .. Len(stream) /\ (EndsBody(at) => BodyEnd = at)
  BY InsideIs
<1>5. NCopy(peek) = IF idx # -1 THEN (IF idx = 0 /\ ~IsEnd(peek) THEN 1 ELSE idx)
                    ELSE IF Short(peek) THEN Len(peek) ELSE Safe(peek)
  BY DEF NCopy
<1>6. IsEnd(peek) => idx # -1
  BY DEF IsEnd
<1>7. CASE idx = -1
  <2>1. Short(peek) /\ Len(peek) = 0
    BY <1>5, <1>6, <1>7
  <2>2. PeekEnd = Len(stream)
    BY <1>2, <2>1, Words DEF PeekEnd
  <2> HIDE DEF peek
  <2> QED
    BY <1>2, <1>4, <2>1, <2>2
<1>8. CASE idx # -1
  <2>1. idx = 0 /\ IsEnd(peek)
    BY <1>5, <1>8
  <2>2. EndsBody(at)
    BY <2>1, SeenEnd
  <2> QED
    BY <1>4, <2>2
<1> QED
  BY <1>7, <1>8

-----------------------------------------------------------------------------
LEMMA TakenIs ==
    ASSUME NEW a \in Nat, NEW b \in Nat, a <= b
    PROVE  Taken(a, b) \in Seq(1 .. b) /\ Len(Taken(a, b)) = b - a /\ \A j \in 1 .. b - a : Taken(a, b)[j] = a + j
<1>1. b - a \in Nat /\ \A j \in 1 .. b - a : a + j \in 1 .. b
  OBVIOUS
<1>2. Taken(a, b) \in [1 .. b - a -> 1 .. b]
  BY <1>1 DEF Taken
<1> QED
  BY <1>1, <1>2 DEF Taken

LEMMA TakenConcat ==
    ASSUME NEW a \in Nat, NEW b \in Nat, NEW c \in Nat, a <= b, b <= c
    PROVE  Taken(a, b) \o Taken(b, c) = Taken(a, c)
<1> DEFINE s == Taken(a, b)
           t == Taken(b, c)
           u == Taken(a, c)
<1>1. /\ s \in Seq(Nat) /\ Len(s) = b - a /\ \A j \in 1 .. b - a : s[j] = a + j
      /\ t \in Seq(Nat) /\ Len(t) = c - b /\ \A j \in 1 .. c - b : t[j] = b + j
      /\ u \in Seq(Nat) /\ Len(u) = c - a /\ \A j \in 1 .. c - a : u[j] = a + j
  <2>1. a <= c /\ 1 .. b \subseteq Nat /\ 1 .. c \subseteq Nat
    OBVIOUS
  <2>2. Seq(1 .. b) \subseteq Seq(Nat) /\ Seq(1 .. c) \subseteq Seq(Nat)
    BY <2>1, SeqMonotonic
  <2> QED
    BY <2>1, <2>2, TakenIs
<1> HIDE DEF s, t, u
<1>2. /\ s \o t \in Seq(Nat) /\ Len(s \o t) = c - a
      /\ \A j \in 1 .. c - a : (s \o t)[j] = IF j <= b - a THEN s[j] ELSE t[j - (b - a)]
  <2>1. Len(s) + Len(t) = c - a
    BY <1>1
  <2>2. /\ s \o t \in Seq(Nat) /\ Len(s \o t) = Len(s) + Len(t)
        /\ \A j \in 1 .. Len(s) + Len(t) : (s \o t)[j] = IF j <= Len(s) THEN s[j] ELSE t[j - Len(s)]
    BY <1>1, ConcatProperties, Zenon
  <2> QED
    BY <1>1, <2>1, <2>2
<1>3. ASSUME NEW j \in 1 .. c - a PROVE (s \o t)[j] = u[j]
  <2>e. (s \o t)[j] = IF j <= b - a THEN s[j] ELSE t[j - (b - a)]
    BY <1>2
  <2>u. u[j] = a + j
    BY <1>1
  <2>1. CASE j <= b - a
    <3>1. j \in 1 .. b - a
      BY <2>1
    <3>2. s[j] = a + j
      BY <1>1, <3>1
    <3> QED
      BY <2>1, <2>e, <2>u, <3>2
  <2>2. CASE ~(j <= b - a)
    <3> DEFINE i == j - (b - a)
    <3>1. i \in 1 .. c - b /\ b + i = a + j
      BY <2>2
    <3>2. t[i] = b + i
      BY <1>1, <3>1
    <3> QED
      BY <2>2, <2>e, <2>u, <3>1, <3>2
  <2> QED
    BY <2>1, <2>2
<1>4. s \o t = u
  <2> DEFINE v == s \o t
  <2>1. v \in Seq(Nat) /\ Len(v) = Len(u) /\ \A j \in 1 .. Len(v) : v[j] = u[j]
    BY <1>1, <1>2, <1>3
  <2> HIDE DEF v
  <2>2. v = u
    BY <1>1, <2>1
  <2> QED
    BY <2>2 DEF v
<1> QED
  BY <1>4 DEF s, t, u

(* A sequence is what comes up to a place, and what comes after it. *)
LEMMA SplitAt ==
    ASSUME NEW S, NEW s \in Seq(S), NEW m \in 0 .. Len(s)
    PROVE  /\ SubSeq(s, 1, m) \in Seq(S) /\ SubSeq(s, m + 1, Len(s)) \in Seq(S)
           /\ Len(SubSeq(s, 1, m)) = m
           /\ SubSeq(s, 1, m) \o SubSeq(s, m + 1, Len(s)) = s
<1> DEFINE n == Len(s)
<1>1. n \in Nat /\ m \in Nat /\ m <= n /\ n \in Int /\ m \in Int /\ m + 1 \in Int /\ 1 \in Int
  BY LenProperties
<1>2. \A i \in 1 .. n : s[i] \in S
  BY ElementOfSeq
<1>3. SubSeq(s, 1, m) \o SubSeq(s, m + 1, n) = SubSeq(s, 1, n)
  <2>1. 1 \in 1 .. n + 1 /\ m \in 1 - 1 .. n /\ n \in m .. n
    BY <1>1
  <2> QED
    BY <2>1, ConcatAdjacentSubSeq
<1>4. SubSeq(s, 1, n) = s
  BY SubSeqFull
<1> HIDE DEF n
<1>5. (\A i \in 1 .. m : s[i] \in S) /\ (\A i \in m + 1 .. n : s[i] \in S)
  BY <1>1, <1>2
<1>6. SubSeq(s, 1, m) \in Seq(S) /\ Len(SubSeq(s, 1, m)) = IF 1 <= m THEN m - 1 + 1 ELSE 0
  BY <1>1, <1>5, SubSeqProperties
<1>7. SubSeq(s, m + 1, n) \in Seq(S)
  BY <1>1, <1>5, SubSeqProperties
<1>8. Len(SubSeq(s, 1, m)) = m
  BY <1>1, <1>6
<1> QED
  BY <1>3, <1>4, <1>6, <1>7, <1>8 DEF n

LEMMA Facts ==
    ASSUME TypeOK
    PROVE  /\ stream \in Seq(Symbols) /\ Len(stream) \in Nat /\ nl \in {CR, LF}
           /\ at \in 0 .. Len(stream) /\ at \in Nat /\ at <= Len(stream)
           /\ buffered \in Nat /\ buffered <= PeekSize /\ at + buffered <= Len(stream)
           /\ start \in Nat /\ start <= at /\ start \in 0 .. Len(stream)
           /\ PeekSize \in Nat /\ PeekSize >= 7
<1>1. PeekSize \in Nat /\ PeekSize >= 7
  BY Words
<1>2. stream \in Seq(Symbols) /\ Len(stream) \in Nat /\ nl \in {CR, LF}
  BY DEF TypeOK, CR, LF
<1>3. at \in 0 .. Len(stream) /\ buffered \in 0 .. PeekSize /\ at + buffered <= Len(stream) /\ start \in 0 .. at
  BY DEF TypeOK
<1> QED
  BY <1>1, <1>2, <1>3

(* What Read of a part does with the peek buffer. *)
Seen    == Window(PeekSize)
AtEmpty == part.fresh /\ IsEmptyPart(Seen)

ReadOK(r) ==
    /\ r.at \in at .. Len(stream) /\ r.buffered \in 0 .. PeekSize /\ r.at + r.buffered <= Len(stream)
    /\ r.data \in Seq(1 .. r.at) /\ r.buffer \in Seq(1 .. r.at) /\ r.err \in {"nil", "eof", "error"}
    /\ r.data \o r.buffer = part.buffer \o Taken(at, r.at)
    /\ r.at = at \/ (r.at = at + NCopy(Seen) /\ ~AtEmpty)
    /\ r.data = <<>> => r.at = at
    /\ r.err = "eof" => /\ r.at = at /\ r.data = <<>>
                        /\ \/ AtEmpty
                           \/ /\ ~AtEmpty /\ NCopy(Seen) = 0
                              /\ part.buffer = <<>> /\ (Short(Seen) \/ IsEnd(Seen))

LEMMA PartReadIs ==
    ASSUME TypeOK, NEW k \in Nat \ {0}
    PROVE  ReadOK(PartRead(k, Seen, NCopy(Seen)))
<1> DEFINE peek == Seen
           n    == NCopy(peek)
           p    == part.buffer
           have == p \o [j \in 1 .. n |-> at + j]
           m    == IF Len(have) < k THEN Len(have) ELSE k
<1> SUFFICES ASSUME NEW r, r = PartRead(k, peek, n) PROVE ReadOK(r)
  OBVIOUS
<1>r. r = PartRead(k, peek, n)
  OBVIOUS
<1>1. /\ stream \in Seq(Symbols) /\ Len(stream) \in Nat /\ nl \in {CR, LF}
      /\ at \in 0 .. Len(stream) /\ at \in Nat /\ at <= Len(stream)
      /\ buffered \in Nat /\ buffered <= PeekSize /\ at + buffered <= Len(stream) /\ PeekSize \in Nat
  BY Facts
<1>2. p \in Seq(1 .. at) /\ Len(p) \in Nat /\ part.fresh \in BOOLEAN
  BY DEF TypeOK
<1>3. n \in 0 .. PeekEnd - at /\ n \in Nat
  BY <1>1, NCopyTyped DEF Seen
<1>4. Len(peek) = PeekEnd - at /\ PeekEnd \in Nat /\ PeekEnd <= Len(stream) /\ at <= PeekEnd /\ PeekEnd <= at + PeekSize
  <2>1. Len(peek) = PeekEnd - at /\ PeekEnd \in at .. Len(stream) /\ PeekEnd \in Nat
    BY <1>1, WindowIs DEF Seen
  <2>2. PeekEnd <= at + PeekSize
    BY <1>1 DEF PeekEnd
  <2> HIDE DEF peek
  <2> QED
    BY <1>1, <2>1, <2>2
<1> HIDE DEF peek, n, p
<1>5. Taken(at, at) = <<>> /\ p \o Taken(at, at) = p
  <2>1. Taken(at, at) \in Seq(1 .. at) /\ Len(Taken(at, at)) = 0
    BY <1>1, TakenIs
  <2> QED
    BY <1>2, <2>1
<1>6. /\ Taken(at, at + n) = [j \in 1 .. n |-> at + j]
      /\ Taken(at, at + n) \in Seq(1 .. at + n) /\ Len(Taken(at, at + n)) = n
  <2>1. (at + n) - at = n /\ at + n \in Nat /\ at <= at + n
    BY <1>1, <1>3
  <2> QED
    BY <1>1, <2>1, TakenIs DEF Taken
<1>7. have \in Seq(1 .. at + n) /\ Len(have) = Len(p) + n /\ have = p \o Taken(at, at + n)
  <2>1. 1 .. at \subseteq 1 .. at + n
    BY <1>1, <1>3
  <2>2. p \in Seq(1 .. at + n)
    BY <1>2, <2>1, SeqMonotonic
  <2>3. p \o Taken(at, at + n) \in Seq(1 .. at + n) /\ Len(p \o Taken(at, at + n)) = Len(p) + n
    <3> DEFINE T == Taken(at, at + n)
               S == 1 .. at + n
    <3>1. T \in Seq(S) /\ Len(T) = n /\ p \in Seq(S)
      BY <1>6, <2>2
    <3> HIDE DEF T, S
    <3>2. p \o T \in Seq(S) /\ Len(p \o T) = Len(p) + n
      BY <3>1, ConcatProperties
    <3> QED
      BY <3>2 DEF T, S
  <2> QED
    BY <1>6, <2>3
<1> HIDE DEF have
<1>e. <<>> \o p = p /\ <<>> \in Seq(1 .. at)
  BY <1>2
<1>f. (AtEmpty <=> part.fresh /\ IsEmptyPart(peek)) /\ n = NCopy(Seen) /\ p = part.buffer
  BY DEF AtEmpty, peek, n, p
<1>g. at \in at .. Len(stream) /\ buffered \in 0 .. PeekSize /\ at + buffered <= Len(stream)
      /\ Len(peek) \in 0 .. PeekSize /\ at + Len(peek) <= Len(stream)
  BY <1>1, <1>4
<1>8. CASE Len(p) >= k
  <2>1. r = [data |-> SubSeq(p, 1, k), err |-> "nil", buffer |-> SubSeq(p, k + 1, Len(p)),
             at |-> at, buffered |-> buffered]
    BY <1>r, <1>8 DEF PartRead, p
  <2>2. r.data = SubSeq(p, 1, k) /\ r.err = "nil" /\ r.buffer = SubSeq(p, k + 1, Len(p)) /\ r.at = at /\ r.buffered = buffered
    BY <2>1
  <2>3. k \in 0 .. Len(p)
    BY <1>2, <1>8
  <2>4. r.data \in Seq(1 .. at) /\ r.buffer \in Seq(1 .. at) /\ Len(r.data) = k /\ r.data \o r.buffer = p
    <3>1. /\ SubSeq(p, 1, k) \in Seq(1 .. at) /\ SubSeq(p, k + 1, Len(p)) \in Seq(1 .. at)
          /\ Len(SubSeq(p, 1, k)) = k /\ SubSeq(p, 1, k) \o SubSeq(p, k + 1, Len(p)) = p
      BY <1>2, <2>3, SplitAt, Zenon
    <3> QED
      BY <2>2, <3>1, Zenon
  <2>5. r.data # <<>>
    BY <2>4, EmptySeq
  <2> QED
    BY <1>5, <1>f, <1>g, <2>2, <2>4, <2>5 DEF ReadOK
<1>9. CASE Len(p) < k /\ part.fresh /\ IsEmptyPart(peek)
  <2>1. r = [data |-> <<>>, err |-> "eof", buffer |-> p, at |-> at, buffered |-> Len(peek)]
    BY <1>r, <1>2, <1>9 DEF PartRead, p
  <2>2. r.data = <<>> /\ r.err = "eof" /\ r.buffer = p /\ r.at = at /\ r.buffered = Len(peek)
    BY <2>1
  <2> QED
    BY <1>2, <1>5, <1>9, <1>e, <1>f, <1>g, <2>2 DEF ReadOK
<1>10. CASE Len(p) < k /\ ~(part.fresh /\ IsEmptyPart(peek)) /\ Short(peek) /\ ending = "fail"
  <2>1. r = [data |-> <<>>, err |-> "error", buffer |-> p, at |-> at, buffered |-> Len(peek)]
    BY <1>r, <1>2, <1>10 DEF PartRead, p
  <2>2. r.data = <<>> /\ r.err = "error" /\ r.buffer = p /\ r.at = at /\ r.buffered = Len(peek)
    BY <2>1
  <2> QED
    BY <1>2, <1>5, <1>e, <1>f, <1>g, <2>2 DEF ReadOK
<1>11. CASE Len(p) < k /\ ~(part.fresh /\ IsEmptyPart(peek)) /\ ~(Short(peek) /\ ending = "fail")
  <2> DEFINE err == IF have = <<>> /\ (Short(peek) \/ IsEnd(peek)) THEN "eof" ELSE "nil"
  <2>2. Len(have) \in Nat /\ m \in 0 .. Len(have) /\ (Len(have) > 0 => m > 0)
    BY <1>2, <1>3, <1>7
  <2>1. r = [data |-> SubSeq(have, 1, m), buffer |-> SubSeq(have, m + 1, Len(have)),
             err |-> err,
             at |-> at + n, buffered |-> Len(peek) - n]
    <3>1. ~(Len(p) >= k)
      BY <1>2, <1>11
    <3> QED
      BY <1>r, <1>11, <3>1, Zenon DEF PartRead, p, have
  <2> HIDE DEF m, err
  <2>8. r.at = at + n /\ r.buffered = Len(peek) - n /\ r.data = SubSeq(have, 1, m)
        /\ r.buffer = SubSeq(have, m + 1, Len(have)) /\ r.err = err
    <3> DEFINE to == at + n
               left == Len(peek) - n
               data == SubSeq(have, 1, m)
               buf == SubSeq(have, m + 1, Len(have))
    <3>1. r = [data |-> data, buffer |-> buf, err |-> err, at |-> to, buffered |-> left]
      BY <2>1
    <3> HIDE DEF to, left, data, buf
    <3>2. r.at = to /\ r.buffered = left /\ r.data = data /\ r.buffer = buf /\ r.err = err
      BY <3>1
    <3> QED
      BY <3>2 DEF to, left, data, buf
  <2>e. r.err \in {"nil", "eof", "error"} /\ (r.err = "eof" => have = <<>> /\ (Short(peek) \/ IsEnd(peek)))
    BY <2>8 DEF err
  <2>3. /\ r.data \in Seq(1 .. r.at) /\ r.buffer \in Seq(1 .. r.at) /\ Len(r.data) = m
        /\ r.data \o r.buffer = have
    <3>1. /\ SubSeq(have, 1, m) \in Seq(1 .. at + n) /\ SubSeq(have, m + 1, Len(have)) \in Seq(1 .. at + n)
          /\ Len(SubSeq(have, 1, m)) = m /\ SubSeq(have, 1, m) \o SubSeq(have, m + 1, Len(have)) = have
      BY <1>7, <2>2, SplitAt, Zenon
    <3> QED
      BY <2>8, <3>1, Zenon
  <2>5. r.data = <<>> => have = <<>> /\ n = 0 /\ p = <<>>
    <3>1. r.data = <<>> => m = 0
      BY <2>3, EmptySeq
    <3>2. m = 0 => Len(have) = 0 /\ n = 0 /\ Len(p) = 0
      BY <1>2, <1>3, <1>7, <2>2
    <3>3. (Len(have) = 0 => have = <<>>) /\ (Len(p) = 0 => p = <<>>)
      BY <1>2, <1>7, EmptySeq
    <3> QED
      BY <3>1, <3>2, <3>3
  <2>6. have = <<>> => r.data = <<>>
    <3>1. have = <<>> => m = 0
      BY <2>2
    <3>2. Len(r.data) = 0 => r.data = <<>>
      BY <2>3, EmptySeq
    <3> QED
      BY <2>3, <3>1, <3>2
  <2>7. r.at \in at .. Len(stream) /\ r.buffered \in 0 .. PeekSize /\ r.at + r.buffered <= Len(stream)
    <3>1. at + n \in at .. Len(stream) /\ Len(peek) - n \in 0 .. PeekSize /\ at + n + (Len(peek) - n) <= Len(stream)
      BY <1>1, <1>3, <1>4
    <3> QED
      BY <2>8, <3>1
  <2>9. n = 0 => r.at = at
    BY <1>1, <2>8
  <2>10. r.err = "eof" => r.at = at /\ r.data = <<>> /\ n = 0 /\ p = <<>> /\ (Short(peek) \/ IsEnd(peek))
    BY <2>5, <2>6, <2>9, <2>e
  <2>11. r.data \o r.buffer = p \o Taken(at, r.at)
    BY <1>7, <2>3, <2>8
  <2>12. ~AtEmpty /\ Seen = peek
    BY <1>11, <1>f DEF peek
  <2>13. /\ r.at = at \/ (r.at = at + NCopy(Seen) /\ ~AtEmpty)
         /\ r.data = <<>> => r.at = at
         /\ r.err = "eof" => /\ r.at = at /\ r.data = <<>>
                        /\ \/ AtEmpty
                           \/ /\ ~AtEmpty /\ NCopy(Seen) = 0
                              /\ part.buffer = <<>> /\ (Short(Seen) \/ IsEnd(Seen))
    BY <1>f, <2>5, <2>8, <2>9, <2>10, <2>12
  <2> QED
    BY <1>f, <2>3, <2>7, <2>e, <2>11, <2>13 DEF ReadOK
<1>12. Len(p) >= k \/ Len(p) < k
  BY <1>2
<1> QED
  BY <1>8, <1>9, <1>10, <1>11, <1>12

(* It leaves the peek buffer filled, if it has looked at it.                *)
ReadFills(r) ==
    /\ \/ r.at = at /\ r.buffered = buffered /\ r.err = "nil"
       \/ r.at + r.buffered = PeekEnd
    /\ r.err = "error" => ending = "fail"

LEMMA PartReadFills ==
    ASSUME TypeOK, NEW k \in Nat \ {0}
    PROVE  ReadFills(PartRead(k, Seen, NCopy(Seen)))
<1> DEFINE peek == Seen
           n    == NCopy(peek)
           p    == part.buffer
           have == p \o [j \in 1 .. n |-> at + j]
           m    == IF Len(have) < k THEN Len(have) ELSE k
           err  == IF have = <<>> /\ (Short(peek) \/ IsEnd(peek)) THEN "eof" ELSE "nil"
           data == SubSeq(have, 1, m)
           buf  == SubSeq(have, m + 1, Len(have))
<1> SUFFICES ASSUME NEW r, r = PartRead(k, peek, n) PROVE ReadFills(r)
  OBVIOUS
<1>1. /\ stream \in Seq(Symbols) /\ nl \in {CR, LF} /\ at \in 0 .. Len(stream) /\ at \in Nat
  BY Facts
<1>2. n \in 0 .. PeekEnd - at /\ n \in Nat /\ Len(peek) = PeekEnd - at /\ PeekEnd \in Nat
  <2>1. n \in 0 .. PeekEnd - at
    BY <1>1, NCopyTyped DEF Seen
  <2> HIDE DEF n
  <2>2. Len(peek) = PeekEnd - at /\ PeekEnd \in Nat
    BY <1>1, WindowIs DEF Seen
  <2> HIDE DEF peek
  <2> QED
    BY <1>1, <2>1, <2>2
<1>3. r = IF Len(p) >= k
          THEN [data |-> SubSeq(p, 1, k), err |-> "nil", buffer |-> SubSeq(p, k + 1, Len(p)),
                at |-> at, buffered |-> buffered]
          ELSE IF part.fresh /\ IsEmptyPart(peek)
          THEN [data |-> <<>>, err |-> "eof", buffer |-> p, at |-> at, buffered |-> Len(peek)]
          ELSE IF Short(peek) /\ ending = "fail"
          THEN [data |-> <<>>, err |-> "error", buffer |-> p, at |-> at, buffered |-> Len(peek)]
          ELSE [data |-> data, buffer |-> buf, err |-> err, at |-> at + n, buffered |-> Len(peek) - n]
  BY Zenon DEF PartRead
<1>4. err # "error"
  OBVIOUS
<1> HIDE DEF n, peek, p, have, err, data, buf
<1>5. \/ r.at = at /\ r.buffered = buffered /\ r.err = "nil"
      \/ r.at = at /\ r.buffered = Len(peek) /\ (r.err = "error" => ending = "fail")
      \/ r.at = at + n /\ r.buffered = Len(peek) - n /\ r.err # "error"
  <2>1. CASE Len(p) >= k
    BY <1>3, <2>1
  <2>2. CASE ~(Len(p) >= k) /\ part.fresh /\ IsEmptyPart(peek)
    BY <1>3, <2>2
  <2>3. CASE ~(Len(p) >= k) /\ ~(part.fresh /\ IsEmptyPart(peek)) /\ Short(peek) /\ ending = "fail"
    BY <1>3, <2>3
  <2>4. CASE ~(Len(p) >= k) /\ ~(part.fresh /\ IsEmptyPart(peek)) /\ ~(Short(peek) /\ ending = "fail")
    <3> DEFINE to == at + n
               left == Len(peek) - n
    <3>1. r = [data |-> data, buffer |-> buf, err |-> err, at |-> to, buffered |-> left]
      BY <1>3, <2>4
    <3> HIDE DEF to, left
    <3>2. r.at = to /\ r.buffered = left /\ r.err = err
      BY <3>1
    <3> QED
      BY <1>4, <3>2 DEF to, left
  <2> QED
    BY <2>1, <2>2, <2>3, <2>4
<1> QED
  BY <1>1, <1>2, <1>5 DEF ReadFills

-----------------------------------------------------------------------------
(* The lines between the parts. *)
Verdicts == {"part", "eof", "error", "none"}

LEMMA JudgeIs ==
    ASSUME NEW st, NEW line, st.nl \in {CR, LF}, partsRead \in Nat, st.expect \in BOOLEAN,
           partsRead = 0 => st.nl = CR /\ ~st.expect
    PROVE  LET o == Judge(st, line)
           IN  /\ o = [nl |-> o.nl, verdict |-> o.verdict, expect |-> o.expect]
               /\ o.nl \in {CR, LF} /\ o.expect \in BOOLEAN /\ o.verdict \in Verdicts
               /\ partsRead > 0 => o.nl = st.nl
               /\ partsRead = 0 => ~o.expect /\ o.verdict # "error" /\ (o.nl = CR \/ o.verdict = "part")
<1> DEFINE rest     == SkipLWSP(After(Dash, line))
           is       == IsPrefix(Dash, line)
           isFinal  == IsPrefix(DashDash, line)
           switches == is /\ partsRead = 0 /\ rest = LF
           nl1      == IF switches THEN Tail(st.nl) ELSE st.nl
           final    == SkipLWSP(After(DashDash, line))
           lastly   == isFinal /\ final \in {<<>>, nl1}
           first    == is /\ rest = nl1
           verdict  == IF first THEN "part" ELSE IF lastly THEN "eof" ELSE IF st.expect THEN "error"
                       ELSE IF partsRead = 0 \/ line = nl1 THEN "none" ELSE "error"
           on       == verdict = "none" /\ partsRead > 0
<1>1. Tail(CR) = LF /\ CR # <<>> /\ LF # <<>>
  BY Words DEF CR, LF
<1>2. Judge(st, line) = IF switches /\ st.nl = <<>> THEN [st EXCEPT !.verdict = "panic"]
                        ELSE [nl |-> nl1, verdict |-> verdict, expect |-> on]
  BY Zenon DEF Judge, LF
<1>3. nl1 \in {CR, LF} /\ (partsRead > 0 => nl1 = st.nl) /\ (partsRead = 0 => nl1 = CR \/ first)
  <2>1. partsRead > 0 => ~switches
    OBVIOUS
  <2>2. switches => st.nl = CR
    OBVIOUS
  <2>3. switches => nl1 = LF
    BY <1>1, <2>2
  <2>4. ~switches => nl1 = st.nl
    OBVIOUS
  <2>5. switches => first
    BY <2>3
  <2> HIDE DEF nl1, first, switches
  <2> QED
    BY <2>1, <2>3, <2>4, <2>5
<1>4. st.nl # <<>>
  BY <1>1
<1> HIDE DEF nl1, switches, first, lastly, CR, LF
<1>5. verdict \in Verdicts /\ (first => verdict = "part") /\ on \in BOOLEAN /\ (partsRead = 0 => ~on /\ verdict # "error")
  BY DEF Verdicts
<1> HIDE DEF verdict, on
<1>6. Judge(st, line) = [nl |-> nl1, verdict |-> verdict, expect |-> on]
  BY <1>2, <1>4
<1> QED
  BY <1>3, <1>5, <1>6

(* What CheckNextPart makes of the buffered bytes, one after the other.    *)
Onward(j, st) == IF Rest[j] = "lf" /\ st.verdict = "none" THEN Judge(st, LineTo(j)) ELSE st

Trace(t) ==
    /\ t[0] = [nl |-> nl, expect |-> FALSE, verdict |-> "none"]
    /\ \A j \in 1 .. buffered : t[j] = Onward(j, t[j - 1])

States == [nl : {nl}, verdict : Verdicts, expect : BOOLEAN]

LEMMA OnwardIs ==
    ASSUME TypeOK, CountInv, pc = "idle", NEW j \in 1 .. buffered, NEW st \in States
    PROVE  Onward(j, st) \in States
<1>1. buffered \in Nat /\ nl \in {CR, LF} /\ partsRead \in Nat
  BY Facts DEF TypeOK
<1>2. partsRead > 0
  BY <1>1 DEF CountInv
<1>3. st.nl = nl /\ st.expect \in BOOLEAN /\ st.nl \in {CR, LF}
  BY <1>1 DEF States
<1> DEFINE o == Judge(st, LineTo(j))
<1>4. /\ o = [nl |-> o.nl, verdict |-> o.verdict, expect |-> o.expect]
      /\ o.expect \in BOOLEAN /\ o.verdict \in Verdicts /\ o.nl = nl
  BY <1>1, <1>2, <1>3, JudgeIs
<1> HIDE DEF o
<1>5. o \in States
  BY <1>4 DEF States
<1> QED
  BY <1>5 DEF Onward, o

LEMMA JudgedTrace ==
    ASSUME TypeOK, CountInv, pc = "idle"
    PROVE  \E t : Trace(t) /\ Judged = t[buffered]
<1> DEFINE b == [nl |-> nl, expect |-> FALSE, verdict |-> "none"]
           N == buffered
           g == [p \in (1 .. N) \X States |-> Onward(p[1], p[2])]
<1>1. N \in Nat
  BY Facts
<1>2. b \in States
  BY DEF Verdicts, States
<1>3. \A j \in 1 .. N, st \in States : Onward(j, st) \in States
  BY OnwardIs
<1>4. g \in [(1 .. N) \X States -> States]
  BY <1>3
<1>5. \A j \in 1 .. N, st \in States : g[<<j, st>>] = Onward(j, st)
  <2> SUFFICES ASSUME NEW j \in 1 .. N, NEW st \in States PROVE g[<<j, st>>] = Onward(j, st)
    OBVIOUS
  <2>1. <<j, st>> \in (1 .. N) \X States
    OBVIOUS
  <2> QED
    BY <2>1
<1> HIDE DEF g, N, b
<1>6. HasRecursiveFunction(N, States, b, g)
  BY <1>1, <1>2, <1>4, RecursiveFunction
<1>7. PICK f \in [0 .. N -> States] : f[0] = b /\ \A j \in 1 .. N : f[j] = g[<<j, f[j - 1]>>]
  BY <1>6 DEF HasRecursiveFunction
<1>8. f = [j \in 0 .. N |-> IF j = 0 THEN b ELSE Onward(j, f[j - 1])]
  <2>1. ASSUME NEW j \in 0 .. N PROVE f[j] = IF j = 0 THEN b ELSE Onward(j, f[j - 1])
    <3>1. CASE j = 0
      BY <1>7, <3>1
    <3>2. CASE j # 0
      <4>1. j \in 1 .. N /\ j - 1 \in 0 .. N
        BY <1>1, <3>2
      <4> QED
        BY <1>5, <1>7, <3>2, <4>1
    <3> QED
      BY <3>1, <3>2
  <2> QED
    BY <2>1
<1> DEFINE Whole(h) == h = [j \in 0 .. N |-> IF j = 0 THEN b ELSE Onward(j, h[j - 1])]
           t == CHOOSE h : Whole(h)
<1>9. Whole(t)
  BY <1>8, Zenon
<1>10. Judged = t[N]
  BY Zenon DEF Judged, Onward, N, b
<1> HIDE DEF t
<1>11. t[0] = b /\ \A j \in 1 .. N : t[j] = Onward(j, t[j - 1])
  <2>1. ASSUME NEW j \in 0 .. N PROVE t[j] = IF j = 0 THEN b ELSE Onward(j, t[j - 1])
    BY <1>9, Zenon
  <2>2. 0 \in 0 .. N /\ \A j \in 1 .. N : j \in 0 .. N /\ j # 0
    BY <1>1
  <2> QED
    BY <2>1, <2>2
<1> QED
  BY <1>10, <1>11 DEF Trace, N, b

(* What is judged without NextPart being called keeps the newline. *)
LEMMA JudgedIs ==
    ASSUME TypeOK, CountInv, pc = "idle"
    PROVE  Judged.nl = nl /\ Judged.verdict \in Verdicts
<1>1. PICK t : Trace(t) /\ Judged = t[buffered]
  BY JudgedTrace
<1>2. buffered \in Nat
  BY Facts
<1>3. t[0] \in States
  BY <1>1 DEF Trace, States, Verdicts
<1>4. \A j \in 1 .. buffered : t[j - 1] \in States => t[j] \in States
  BY <1>1, OnwardIs DEF Trace
<1>5. \A j \in 0 .. buffered : t[j] \in States
  BY <1>2, <1>3, <1>4, AllValues
<1>6. t[buffered] \in States
  BY <1>2, <1>5
<1> QED
  BY <1>1, <1>6 DEF States

LEMMA FirstLFIs ==
    ASSUME TypeOK
    PROVE  FirstLF \in Nat /\ at + FirstLF <= Len(stream)
<1> DEFINE I == { i \in 1 .. Len(Rest) : Rest[i] = "lf" }
<1>1. Len(Rest) = Len(stream) - at /\ Len(stream) \in Nat /\ at \in Nat /\ at <= Len(stream)
  <2>1. stream \in Seq(Symbols) /\ at \in 0 .. Len(stream)
    BY Facts
  <2> QED
    BY <2>1, WindowIs
<1>2. FirstLF = IF I # {} THEN Min(I) ELSE 0
  BY Zenon DEF FirstLF, SelectInSeq
<1>3. CASE I = {}
  BY <1>1, <1>2, <1>3
<1>4. CASE I # {}
  <2>1. I \in SUBSET Nat
    BY <1>1
  <2>2. Min(I) \in I
    BY <1>4, <2>1, MinIs
  <2>3. FirstLF \in 1 .. Len(stream) - at
    BY <1>1, <1>2, <1>4, <2>2
  <2> QED
    BY <1>1, <2>3
<1> QED
  BY <1>3, <1>4

LEMMA AdvanceIs ==
    ASSUME TypeOK, NEW m \in Nat, at + m <= Len(stream), NEW room \in Nat, room <= PeekSize, Advance(m, room)
    PROVE  at' = at + m /\ at' \in at .. Len(stream) /\ buffered' \in 0 .. PeekSize /\ at' + buffered' <= Len(stream)
<1>1. /\ Len(stream) \in Nat /\ at \in Nat /\ at <= Len(stream)
      /\ buffered \in Nat /\ buffered <= PeekSize /\ at + buffered <= Len(stream) /\ PeekSize \in Nat
  BY Facts
<1>2. at' = at + m /\ at' \in at .. Len(stream)
  BY <1>1 DEF Advance
<1>3. CASE m <= buffered
  <2>1. buffered' = buffered - m
    BY <1>3 DEF Advance
  <2> QED
    BY <1>1, <1>2, <1>3, <2>1
<1>4. CASE ~(m <= buffered)
  <2>1. Len(Rest) = Len(stream) - at
    <3>1. stream \in Seq(Symbols) /\ at \in 0 .. Len(stream)
      BY Facts
    <3> QED
      BY <3>1, WindowIs
  <2>2. buffered' \in 0 .. Min({Len(Rest) - m, room})
    BY <1>4 DEF Advance
  <2>3. Len(Rest) - m \in Int /\ room \in Int
    BY <1>1, <2>1
  <2>4. Min({Len(Rest) - m, room}) = IF Len(Rest) - m <= room THEN Len(Rest) - m ELSE room
    BY <2>3, MinOfTwo
  <2>5. buffered' \in Nat /\ buffered' <= room /\ buffered' <= (Len(stream) - at) - m
    BY <1>1, <2>1, <2>2, <2>4
  <2> QED
    BY <1>1, <1>2, <2>5
<1> QED
  BY <1>3, <1>4

LEMMA Grows ==
    ASSUME NEW a \in Nat, NEW b \in Nat, a <= b, NEW s \in Seq(1 .. a)
    PROVE  s \in Seq(1 .. b)
<1>1. 1 .. a \subseteq 1 .. b
  OBVIOUS
<1> QED
  BY <1>1, SeqMonotonic

(* The part after a read. *)
LEMMA TookIs ==
    ASSUME TypeOK, NEW r, ReadOK(r), Took(r)
    PROVE  /\ at' = r.at /\ at' \in Nat /\ at <= at' /\ at' <= Len(stream)
           /\ buffered' \in 0 .. PeekSize /\ at' + buffered' <= Len(stream)
           /\ part'.buffer = r.buffer /\ part'.fresh = (part.fresh /\ r.data = <<>>)
           /\ part'.open = part.open /\ part'.some = part.some
           /\ part' \in PartType(at')
           /\ r.data \in Seq(1 .. at')
<1>1. at \in Nat /\ Len(stream) \in Nat
  BY Facts
<1>2. /\ r.at \in at .. Len(stream) /\ r.buffered \in 0 .. PeekSize /\ r.at + r.buffered <= Len(stream)
      /\ r.data \in Seq(1 .. r.at) /\ r.buffer \in Seq(1 .. r.at)
  BY DEF ReadOK
<1>3. at' = r.at /\ buffered' = r.buffered
  BY DEF Took
<1>4. part \in PartType(at)
  BY DEF TypeOK, PartType
<1> DEFINE fresh == part.fresh /\ r.data = <<>>
<1>5. part' = [part EXCEPT !.buffer = r.buffer, !.fresh = fresh]
  BY DEF Took
<1>6. fresh \in BOOLEAN
  OBVIOUS
<1> HIDE DEF fresh
<1>7. /\ part'.buffer = r.buffer /\ part'.fresh = fresh /\ part'.open = part.open /\ part'.some = part.some
      /\ part' \in PartType(r.at)
  BY <1>2, <1>4, <1>5, <1>6 DEF PartType
<1> QED
  BY <1>1, <1>2, <1>3, <1>7 DEF fresh

LEMMA ClosedIs ==
    ASSUME TypeOK, Closed, at' \in Nat, at <= at'
    PROVE  part' \in PartType(at') /\ ~part'.open /\ part'.some = part.some /\ part'.buffer = part.buffer
<1>1. part \in PartType(at) /\ at \in Nat
  BY Facts DEF TypeOK, PartType
<1>2. part' = [part EXCEPT !.open = FALSE]
  BY DEF Closed
<1>3. part.buffer \in Seq(1 .. at')
  BY <1>1, Grows DEF PartType
<1> QED
  BY <1>1, <1>2, <1>3 DEF PartType

LEMMA PartGrows ==
    ASSUME TypeOK, part' = part, at' \in Nat, at <= at'
    PROVE  part' \in PartType(at')
<1>1. part \in PartType(at) /\ at \in Nat
  BY Facts DEF TypeOK, PartType
<1>2. part.buffer \in Seq(1 .. at')
  BY <1>1, Grows DEF PartType
<1> QED
  BY <1>1, <1>2 DEF PartType

-----------------------------------------------------------------------------
(* The type invariant. *)
Pcs  == {"idle", "closing", "lines", "header", "eof", "panic"}
Rets == {"none", "data", "part", "malformed", "headererror", "eof", "error", "panic"}
Says == {"none", "part", "eof", "error", "panic"}

(* The variables that hold no place in the stream. *)
FlagsOK ==
    /\ nl \in {CR, LF} /\ partsRead \in Nat /\ expect \in BOOLEAN /\ ended \in BOOLEAN
    /\ pc \in Pcs /\ ret \in Rets /\ checked \in Says

(* The others. *)
PlacesOK ==
    /\ at \in Nat /\ at <= Len(stream) /\ buffered \in 0 .. PeekSize /\ at + buffered <= Len(stream)
    /\ start \in 0 .. at /\ delivered \in Seq(1 .. at) /\ part \in PartType(at)

LEMMA TypeParts == TypeOK <=> FlagsOK /\ PlacesOK /\ stream \in Seq(Symbols) /\ ending \in {"eof", "fail"}
<1>1. ASSUME stream \in Seq(Symbols) PROVE at \in 0 .. Len(stream) <=> at \in Nat /\ at <= Len(stream)
  BY <1>1, LenProperties
<1>2. TypeOK => FlagsOK /\ PlacesOK /\ stream \in Seq(Symbols) /\ ending \in {"eof", "fail"}
  <2> SUFFICES ASSUME TypeOK PROVE FlagsOK /\ PlacesOK /\ stream \in Seq(Symbols) /\ ending \in {"eof", "fail"}
    OBVIOUS
  <2>1. FlagsOK
    BY DEF TypeOK, FlagsOK, Pcs, Rets, Says, CR, LF
  <2>2. stream \in Seq(Symbols) /\ ending \in {"eof", "fail"}
    BY DEF TypeOK
  <2>3. PlacesOK
    BY <1>1, <2>2, Zenon DEF TypeOK, PlacesOK, PartType
  <2> QED
    BY <2>1, <2>2, <2>3
<1>3. FlagsOK /\ PlacesOK /\ stream \in Seq(Symbols) /\ ending \in {"eof", "fail"} => TypeOK
  BY <1>1, Zenon DEF TypeOK, FlagsOK, PlacesOK, PartType, Pcs, Rets, Says, CR, LF
<1> QED
  BY <1>2, <1>3

LEMMA TypePartsNext ==
    ASSUME TypeOK, UNCHANGED <<stream, ending>>, FlagsOK', PlacesOK'
    PROVE  TypeOK'
<1>1. stream' \in Seq(Symbols) /\ ending' \in {"eof", "fail"}
  BY DEF TypeOK
<1>2. (TypeOK <=> FlagsOK /\ PlacesOK /\ stream \in Seq(Symbols) /\ ending \in {"eof", "fail"})'
  BY TypeParts, PTL
<1> QED
  BY <1>1, <1>2

(* What was taken stays what it was when more is taken. *)
LEMMA PlacesKept ==
    ASSUME TypeOK, at' \in Nat, at <= at', at' <= Len(stream), UNCHANGED <<start, delivered>>
    PROVE  start' \in 0 .. at' /\ delivered' \in Seq(1 .. at')
<1>1. at \in Nat /\ start \in Nat /\ start <= at /\ delivered \in Seq(1 .. at)
  BY Facts DEF TypeOK
<1>2. delivered \in Seq(1 .. at')
  BY <1>1, Grows
<1> QED
  BY <1>1, <1>2

(* The actions that read lines or bytes, in terms of what they found. *)
ReadBy(r) ==
    /\ ReadOK(r) /\ ReadFills(r) /\ Took(r) /\ delivered' = delivered \o r.data
    /\ (r.err = "eof" \/ r.err = "nil" \/ r.err = "error")
    /\ ended' = (ended \/ r.err = "eof")
    /\ ret' = (CASE r.err = "nil" -> "data" [] OTHER -> r.err)

LEMMA ReadIs ==
    ASSUME TypeOK, NEW k \in Sizes, Read(k)
    PROVE  \E r : ReadBy(r)
<1>1. k \in Nat \ {0}
  BY SizesAssumption
<1>2. ReadOK(PartRead(k, Seen, NCopy(Seen))) /\ ReadFills(PartRead(k, Seen, NCopy(Seen)))
  BY <1>1, PartReadIs, PartReadFills
<1>3. \A r : ReadOK(r) => (r.err = "eof" \/ r.err = "nil" \/ r.err = "error")
  BY DEF ReadOK
<1> QED
  BY <1>2, <1>3, Zenon DEF Read, Seen, ReadBy

ClosedBy(r) == ReadOK(r) /\ ReadFills(r) /\ Took(r) /\ pc' = IF r.err = "nil" THEN "closing" ELSE "lines"

LEMMA CloseReadIs ==
    ASSUME TypeOK, CloseRead
    PROVE  \E r : ClosedBy(r)
<1>1. PeekSize \in Nat \ {0}
  BY Facts
<1>2. ReadOK(PartRead(PeekSize, Seen, NCopy(Seen))) /\ ReadFills(PartRead(PeekSize, Seen, NCopy(Seen)))
  BY <1>1, PartReadIs, PartReadFills
<1> QED
  BY <1>2, Zenon DEF CloseRead, Seen, ClosedBy

LineFound(st) ==
    /\ st.nl \in {CR, LF} /\ st.expect \in BOOLEAN /\ st.verdict \in Verdicts
    /\ partsRead > 0 => st.nl = nl
    /\ partsRead = 0 => ~st.expect /\ st.verdict # "error" /\ (st.nl = CR \/ st.verdict = "part")
    /\ nl' = st.nl /\ expect' = st.expect
    /\ CASE st.verdict = "none" -> UNCHANGED <<pc, ret, partsRead, part, ended, checked>>
         [] st.verdict = "part" -> /\ pc' = "header" /\ partsRead' = partsRead + 1
                                   /\ UNCHANGED <<ret, part, ended, checked>>
         [] OTHER -> Returns(st.verdict) /\ Closed /\ UNCHANGED partsRead

LEMMA NextLineIs ==
    ASSUME TypeOK, CountInv, NextLine
    PROVE  \E st : LineFound(st)
<1> DEFINE from == [nl |-> nl, expect |-> expect, verdict |-> "none"]
           st == Judge(from, SubSeq(Rest, 1, FirstLF))
<1>1. from.nl = nl /\ from.expect = expect
  OBVIOUS
<1> HIDE DEF from
<1>2. from.nl \in {CR, LF} /\ partsRead \in Nat /\ from.expect \in BOOLEAN /\ (partsRead = 0 => from.nl = CR /\ ~from.expect)
  BY <1>1, TypeParts DEF FlagsOK, CountInv, NextLine
<1>3. /\ st.nl \in {CR, LF} /\ st.expect \in BOOLEAN /\ st.verdict \in Verdicts
      /\ partsRead > 0 => st.nl = nl
      /\ partsRead = 0 => ~st.expect /\ st.verdict # "error" /\ (st.nl = CR \/ st.verdict = "part")
  BY <1>1, <1>2, JudgeIs
<1>4. LineFound(st)
  <2>1. /\ nl' = st.nl /\ expect' = st.expect
        /\ CASE st.verdict = "none" -> UNCHANGED <<pc, ret, partsRead, part, ended, checked>>
              [] st.verdict = "part" -> /\ pc' = "header" /\ partsRead' = partsRead + 1
                                        /\ UNCHANGED <<ret, part, ended, checked>>
              [] OTHER -> Returns(st.verdict) /\ Closed /\ UNCHANGED partsRead
    BY Zenon DEF NextLine, from
  <2> HIDE DEF st
  <2> QED
    BY <1>3, <2>1, Zenon DEF LineFound
<1> HIDE DEF st
<1> QED
  BY <1>4

LEMMA TypeStep == TypeOK /\ CountInv /\ [Next]_vars => TypeOK'
<1> SUFFICES ASSUME TypeOK, CountInv, [Next]_vars PROVE TypeOK'
  OBVIOUS
<1>a. /\ FlagsOK /\ PlacesOK
      /\ at \in Nat /\ Len(stream) \in Nat /\ at <= Len(stream) /\ PeekSize \in Nat /\ PeekSize >= 7
      /\ at + buffered <= Len(stream) /\ buffered \in 0 .. PeekSize
  BY TypeParts, Facts DEF PlacesOK
<1>b. ASSUME at' \in Nat, at <= at', at' <= Len(stream), buffered' \in 0 .. PeekSize, at' + buffered' <= Len(stream),
             UNCHANGED stream, UNCHANGED <<start, delivered>>, part' \in PartType(at')
      PROVE  PlacesOK'
  BY <1>b, PlacesKept DEF PlacesOK
<1>c. ASSUME UNCHANGED <<stream, at, buffered, start, delivered>>, UNCHANGED part
      PROVE  PlacesOK'
  BY <1>a, <1>c DEF PlacesOK
<1>1. ASSUME NEW k \in Sizes, Read(k) PROVE TypeOK'
  <2>1. PICK r : ReadBy(r)
    BY <1>1, ReadIs
  <2>2. UNCHANGED <<stream, ending, nl, partsRead, pc, expect, start>> /\ checked' = "none"
    BY <1>1 DEF Read
  <2>3. /\ at' \in Nat /\ at <= at' /\ at' <= Len(stream)
        /\ buffered' \in 0 .. PeekSize /\ at' + buffered' <= Len(stream)
        /\ part' \in PartType(at') /\ r.data \in Seq(1 .. at')
    BY <2>1, TookIs DEF ReadBy
  <2>4. delivered' \in Seq(1 .. at')
    <3>1. delivered \in Seq(1 .. at')
      BY <1>a, <2>3, Grows DEF PlacesOK
    <3> QED
      BY <2>1, <2>3, <3>1, ConcatProperties DEF ReadBy
  <2>5. start' \in 0 .. at'
    BY <1>a, <2>2, <2>3 DEF PlacesOK
  <2>6. PlacesOK'
    BY <2>2, <2>3, <2>4, <2>5 DEF PlacesOK
  <2>7. FlagsOK'
    <3>1. ret' \in Rets
      BY <2>1 DEF ReadBy, Rets
    <3>2. ended' \in BOOLEAN
      BY <2>1 DEF ReadBy
    <3> QED
      BY <1>a, <2>2, <3>1, <3>2 DEF FlagsOK, Says
  <2> QED
    BY <2>2, <2>6, <2>7, TypePartsNext
<1>2. ASSUME CheckNextPart PROVE TypeOK'
  <2>1. Judged.nl = nl /\ Judged.verdict \in Verdicts
    BY <1>2, JudgedIs DEF CheckNextPart
  <2> DEFINE v == IF Judged.verdict = "none" THEN OutOfLines ELSE Judged.verdict
  <2>2. /\ nl' = Judged.nl /\ ret' = v /\ pc' = (IF v = "panic" THEN "panic" ELSE pc)
        /\ checked' = (IF ended \/ ~part.some THEN v ELSE "none")
    BY <1>2, Zenon DEF CheckNextPart
  <2>3. UNCHANGED <<stream, ending, at, buffered, partsRead, part, expect, start, delivered, ended>>
    BY <1>2 DEF CheckNextPart
  <2>4. nl' = nl /\ ret' \in Rets /\ pc' = pc /\ checked' \in Says
    BY <2>1, <2>2 DEF Verdicts, Rets, Says, OutOfLines
  <2>5. FlagsOK'
    BY <1>a, <2>3, <2>4 DEF FlagsOK
  <2> QED
    BY <1>c, <2>3, <2>5, TypePartsNext
<1>3. ASSUME NextPart PROVE TypeOK'
  <2>1. UNCHANGED <<stream, ending, at, buffered, nl, partsRead, part, ret, start, delivered, ended, checked>>
        /\ expect' = FALSE /\ pc' \in {"closing", "lines"}
    BY <1>3 DEF NextPart
  <2>2. FlagsOK'
    BY <1>a, <2>1 DEF FlagsOK, Pcs
  <2> QED
    BY <1>c, <2>1, <2>2, TypePartsNext
<1>4. ASSUME CloseRead PROVE TypeOK'
  <2>1. PICK r : ClosedBy(r)
    BY <1>4, CloseReadIs
  <2>2. UNCHANGED <<stream, ending, nl, partsRead, expect, ret, start, delivered, ended, checked>>
    BY <1>4 DEF CloseRead
  <2>3. /\ at' \in Nat /\ at <= at' /\ at' <= Len(stream)
        /\ buffered' \in 0 .. PeekSize /\ at' + buffered' <= Len(stream)
        /\ part' \in PartType(at')
    BY <2>1, TookIs DEF ClosedBy
  <2>4. PlacesOK'
    BY <1>b, <2>2, <2>3
  <2>5. FlagsOK'
    BY <1>a, <2>1, <2>2 DEF ClosedBy, FlagsOK, Pcs
  <2> QED
    BY <2>2, <2>4, <2>5, TypePartsNext
<1>5. ASSUME NextLine PROVE TypeOK'
  <2>1. PICK st : LineFound(st)
    BY <1>5, NextLineIs
  <2>2. st.nl \in {CR, LF} /\ st.expect \in BOOLEAN /\ st.verdict \in Verdicts /\ nl' = st.nl /\ expect' = st.expect
    BY <2>1 DEF LineFound
  <2>3. UNCHANGED <<stream, ending, start, delivered>> /\ FirstLF \in 1 .. PeekSize /\ Advance(FirstLF, PeekSize - FirstLF)
    BY <1>5 DEF NextLine
  <2>4. /\ at' \in Nat /\ at <= at' /\ at' <= Len(stream)
        /\ buffered' \in 0 .. PeekSize /\ at' + buffered' <= Len(stream)
    <3>1. FirstLF \in Nat /\ at + FirstLF <= Len(stream) /\ PeekSize - FirstLF \in Nat /\ PeekSize - FirstLF <= PeekSize
      BY <1>a, <2>3, FirstLFIs
    <3>2. at' \in at .. Len(stream) /\ buffered' \in 0 .. PeekSize /\ at' + buffered' <= Len(stream)
      BY <2>3, <3>1, AdvanceIs
    <3> QED
      BY <1>a, <3>2
  <2>5. CASE st.verdict = "none"
    <3>1. UNCHANGED <<pc, ret, partsRead, part, ended, checked>>
      BY <2>1, <2>5 DEF LineFound
    <3>2. part' \in PartType(at')
      BY <2>4, <3>1, PartGrows
    <3>3. FlagsOK'
      BY <1>a, <2>1, <2>2, <3>1 DEF FlagsOK
    <3> QED
      BY <1>b, <2>3, <2>4, <3>2, <3>3, TypePartsNext
  <2>6. CASE st.verdict = "part"
    <3>1. pc' = "header" /\ partsRead' = partsRead + 1 /\ UNCHANGED <<ret, part, ended, checked>>
      BY <2>1, <2>6 DEF LineFound
    <3>2. part' \in PartType(at')
      BY <2>4, <3>1, PartGrows
    <3>3. FlagsOK'
      BY <1>a, <2>1, <2>2, <3>1 DEF FlagsOK, Pcs
    <3> QED
      BY <1>b, <2>3, <2>4, <3>2, <3>3, TypePartsNext
  <2>7. CASE st.verdict \in {"eof", "error"}
    <3>1. Returns(st.verdict) /\ Closed /\ UNCHANGED partsRead
      BY <2>1, <2>7 DEF LineFound
    <3>2. part' \in PartType(at')
      BY <2>4, <3>1, ClosedIs
    <3>3. ret' \in Rets /\ pc' \in Pcs /\ checked' = "none" /\ ended' = FALSE
      BY <2>7, <3>1 DEF Returns, Rets, Pcs
    <3>4. FlagsOK'
      BY <1>a, <2>1, <2>2, <3>1, <3>3 DEF FlagsOK, Says
    <3> QED
      BY <1>b, <2>3, <2>4, <3>2, <3>4, TypePartsNext
  <2> QED
    BY <2>2, <2>5, <2>6, <2>7 DEF Verdicts
<1>6. ASSUME NoLine PROVE TypeOK'
  <2>1. /\ buffered' = 0 /\ Closed /\ UNCHANGED <<stream, ending, nl, partsRead, expect, start, delivered>>
        /\ \E v \in {"eof", "error"} : Returns(v)
    BY <1>6 DEF NoLine
  <2>2. at' = at + PeekSize \/ at' = Len(stream)
    BY <1>6 DEF NoLine
  <2>3. at' = at + PeekSize => at' <= Len(stream)
    <3>1. Len(Rest) = Len(stream) - at
      <4>1. stream \in Seq(Symbols) /\ at \in 0 .. Len(stream)
        BY Facts
      <4> QED
        BY <4>1, WindowIs
    <3> QED
      BY <1>6, <1>a, <3>1 DEF NoLine
  <2>4. at' \in Nat /\ at <= at' /\ at' <= Len(stream) /\ buffered' \in 0 .. PeekSize /\ at' + buffered' <= Len(stream)
    BY <1>a, <2>1, <2>2, <2>3
  <2>5. part' \in PartType(at')
    BY <2>1, <2>4, ClosedIs
  <2>6. ret' \in Rets /\ pc' \in Pcs /\ checked' = "none" /\ ended' = FALSE
    BY <2>1 DEF Returns, Rets, Pcs
  <2>7. FlagsOK'
    BY <1>a, <2>1, <2>6 DEF FlagsOK, Says
  <2> QED
    BY <1>b, <2>1, <2>4, <2>5, <2>7, TypePartsNext
<1>n. ASSUME NEW v \in {"part", "malformed"}, NewPart(v), NEW m \in Nat, at + m <= Len(stream), Advance(m, PeekSize)
      PROVE  TypeOK'
  <2>1. /\ Returns(v) /\ part' = [buffer |-> <<>>, fresh |-> TRUE, open |-> TRUE, some |-> TRUE]
        /\ start' = at' /\ delivered' = <<>> /\ UNCHANGED <<stream, ending, nl, partsRead, expect>>
    BY <1>n DEF NewPart
  <2>2. at' \in at .. Len(stream) /\ buffered' \in 0 .. PeekSize /\ at' + buffered' <= Len(stream)
    BY <1>a, <1>n, AdvanceIs
  <2>3. at' \in Nat /\ at' <= Len(stream)
    BY <1>a, <2>2
  <2>4. <<>> \in Seq(1 .. at')
    BY EmptySeq
  <2>5. part' \in PartType(at')
    BY <2>1, <2>4 DEF PartType
  <2>6. PlacesOK'
    BY <2>1, <2>2, <2>3, <2>4, <2>5 DEF PlacesOK
  <2>7. ret' \in Rets /\ pc' \in Pcs /\ checked' = "none" /\ ended' = FALSE
    BY <2>1 DEF Returns, Rets, Pcs
  <2>8. FlagsOK'
    BY <1>a, <2>1, <2>7 DEF FlagsOK, Says
  <2> QED
    BY <2>1, <2>6, <2>8, TypePartsNext
<1>7. ASSUME Header PROVE TypeOK'
  <2>1. at + 1 <= Len(stream)
    <3>1. stream \in Seq(Symbols) /\ at \in 0 .. Len(stream) /\ Len(stream) \in 0 .. Len(stream)
      BY Facts
    <3>2. Rest = View(at, Len(stream))
      BY <3>1, WindowIs
    <3>3. <<"H">> \in Seq(Symbols) /\ Len(<<"H">>) = 1
      BY DEF Symbols
    <3>4. Stands(<<"H">>, at, Len(stream))
      BY <1>7, <3>1, <3>2, <3>3, PrefixIs DEF Header, AtHeader
    <3> QED
      BY <3>3, <3>4 DEF Stands
  <2> QED
    BY <1>7, <1>n, <2>1 DEF Header
<1>8. ASSUME OtherHeader PROVE TypeOK'
  <2>1. FirstLF \in Nat /\ at + FirstLF <= Len(stream)
    BY FirstLFIs
  <2>2. PICK v \in {"part", "malformed"} : NewPart(v)
    BY <1>8 DEF OtherHeader
  <2>3. Advance(FirstLF, PeekSize)
    BY <1>8 DEF OtherHeader
  <2> QED
    BY <1>n, <2>1, <2>2, <2>3
<1>9. ASSUME HeaderError PROVE TypeOK'
  <2>1. /\ buffered' = 0 /\ at' = Len(stream) /\ Closed /\ Returns("headererror")
        /\ UNCHANGED <<stream, ending, nl, partsRead, expect, start, delivered>>
    BY <1>9 DEF HeaderError
  <2>2. at' \in Nat /\ at <= at' /\ at' <= Len(stream) /\ buffered' \in 0 .. PeekSize /\ at' + buffered' <= Len(stream)
    BY <1>a, <2>1
  <2>3. part' \in PartType(at')
    BY <2>1, <2>2, ClosedIs
  <2>4. ret' \in Rets /\ pc' \in Pcs /\ checked' = "none" /\ ended' = FALSE
    BY <2>1 DEF Returns, Rets, Pcs
  <2>5. FlagsOK'
    BY <1>a, <2>1, <2>4 DEF FlagsOK, Says
  <2> QED
    BY <1>b, <2>1, <2>2, <2>3, <2>5, TypePartsNext
<1>10. ASSUME UNCHANGED vars PROVE TypeOK'
  BY <1>10 DEF TypeOK, vars
<1> QED
  BY <1>1, <1>2, <1>3, <1>4, <1>5, <1>6, <1>7, <1>8, <1>9, <1>10 DEF Next, Proceed, Stopped

-----------------------------------------------------------------------------
LEMMA CountStep == TypeOK /\ CountInv /\ [Next]_vars => CountInv'
<1> SUFFICES ASSUME TypeOK, CountInv, [Next]_vars PROVE CountInv'
  OBVIOUS
<1>a. partsRead \in Nat
  BY TypeParts DEF FlagsOK
<1>1. ASSUME NEW k \in Sizes, Read(k) PROVE CountInv'
  <2>1. PICK r : ReadBy(r)
    BY <1>1, ReadIs
  <2>2. part'.open = part.open /\ part'.some = part.some
    BY <2>1, TookIs DEF ReadBy
  <2> QED
    BY <1>1, <1>a, <2>2 DEF Read, CountInv
<1>2. ASSUME CheckNextPart PROVE CountInv'
  <2>1. Judged.nl = nl /\ Judged.verdict \in Verdicts /\ pc = "idle"
    BY <1>2, JudgedIs DEF CheckNextPart
  <2>2. nl' = nl /\ pc' = pc /\ UNCHANGED <<buffered, partsRead, part, expect>>
    <3>1. PICK st : st = Judged /\ nl' = st.nl /\ pc' = (IF (IF st.verdict = "none" THEN OutOfLines ELSE st.verdict) = "panic" THEN "panic" ELSE pc)
      BY <1>2, Zenon DEF CheckNextPart
    <3>2. UNCHANGED <<buffered, partsRead, part, expect>>
      BY <1>2 DEF CheckNextPart
    <3> QED
      BY <2>1, <3>1, <3>2 DEF Verdicts, OutOfLines
  <2> QED
    BY <2>2 DEF CountInv
<1>3. ASSUME NextPart PROVE CountInv'
  BY <1>3, <1>a DEF NextPart, CountInv
<1>4. ASSUME CloseRead PROVE CountInv'
  <2>1. PICK r : ClosedBy(r)
    BY <1>4, CloseReadIs
  <2>2. part'.open = part.open /\ part'.some = part.some /\ pc' \in {"closing", "lines"}
    BY <2>1, TookIs DEF ClosedBy
  <2> QED
    BY <1>4, <1>a, <2>2 DEF CloseRead, CountInv
<1>5. ASSUME NextLine PROVE CountInv'
  <2>1. PICK st : LineFound(st)
    BY <1>5, NextLineIs
  <2>2. CASE st.verdict = "none"
    <3>1. UNCHANGED <<pc, partsRead, part>> /\ nl' = st.nl /\ expect' = st.expect /\ pc = "lines"
      BY <1>5, <2>1, <2>2 DEF LineFound, NextLine
    <3> QED
      BY <2>1, <2>2, <3>1 DEF LineFound, CountInv
  <2>3. CASE st.verdict = "part"
    <3>1. partsRead' = partsRead + 1 /\ part' = part
      BY <2>1, <2>3 DEF LineFound
    <3> QED
      BY <1>a, <3>1 DEF CountInv
  <2>4. CASE st.verdict \in {"eof", "error"}
    <3>1. Returns(st.verdict) /\ Closed /\ UNCHANGED partsRead /\ nl' = st.nl
      BY <2>1, <2>4 DEF LineFound
    <3>2. part'.open = FALSE /\ part'.some = part.some
      <4>1. part \in PartType(at) /\ part' = [part EXCEPT !.open = FALSE]
        BY <3>1, TypeParts DEF Closed, PlacesOK
      <4> QED
        BY <4>1 DEF PartType
    <3>3. pc' \in {"eof", "idle"} /\ (pc' = "idle" => st.verdict = "error")
      BY <2>4, <3>1 DEF Returns
    <3> QED
      BY <1>a, <2>1, <2>4, <3>1, <3>2, <3>3 DEF LineFound, CountInv
  <2> QED
    BY <2>1, <2>2, <2>3, <2>4 DEF LineFound, Verdicts
<1>6. ASSUME NoLine \/ HeaderError PROVE CountInv'
  <2>1. /\ buffered' = 0 /\ Closed /\ UNCHANGED <<nl, partsRead>>
        /\ \E v \in {"eof", "error", "headererror"} : Returns(v)
    BY <1>6 DEF NoLine, HeaderError
  <2>2. part'.open = FALSE /\ part'.some = part.some
    <3>1. part \in PartType(at) /\ part' = [part EXCEPT !.open = FALSE]
      BY <2>1, TypeParts DEF Closed, PlacesOK
    <3> QED
      BY <3>1 DEF PartType
  <2>3. pc' \in {"eof", "idle"}
    BY <2>1 DEF Returns
  <2> QED
    BY <1>a, <2>1, <2>2, <2>3 DEF CountInv
<1>7. ASSUME Header \/ OtherHeader PROVE CountInv'
  <2>1. partsRead' > 0
    BY <1>7 DEF Header, OtherHeader, NewPart, CountInv
  <2>2. part' = [buffer |-> <<>>, fresh |-> TRUE, open |-> TRUE, some |-> TRUE]
    BY <1>7 DEF Header, OtherHeader, NewPart
  <2> QED
    BY <1>a, <2>1, <2>2 DEF CountInv
<1>8. ASSUME UNCHANGED vars PROVE CountInv'
  BY <1>8 DEF CountInv, vars
<1> QED
  BY <1>1, <1>2, <1>3, <1>4, <1>5, <1>6, <1>7, <1>8 DEF Next, Proceed, Stopped

(* A step that leaves what was taken alone, or gives the part up. *)
LEMMA ClosedPart ==
    ASSUME TypeOK, Closed
    PROVE  part'.open = FALSE
<1>1. part \in PartType(at) /\ part' = [part EXCEPT !.open = FALSE]
  BY TypeParts DEF Closed, PlacesOK
<1> QED
  BY <1>1 DEF PartType

LEMMA LinesClosed ==
    ASSUME TypeOK, CountInv, NextLine \/ NoLine \/ HeaderError
    PROVE  ~(part'.open /\ pc' = "idle")
<1>1. ASSUME NextLine PROVE ~(part'.open /\ pc' = "idle")
  <2>1. PICK st : LineFound(st)
    BY <1>1, NextLineIs
  <2>2. CASE st.verdict \in {"none", "part"}
    BY <1>1, <2>1, <2>2 DEF LineFound, NextLine
  <2>3. CASE st.verdict \in {"eof", "error"}
    BY <2>1, <2>3, ClosedPart DEF LineFound
  <2> QED
    BY <2>1, <2>2, <2>3 DEF LineFound, Verdicts
<1> QED
  BY <1>1, ClosedPart DEF NoLine, HeaderError

Associate(s, t, u) == (s \o t) \o u = s \o (t \o u)

LEMMA Associative ==
    ASSUME NEW S, NEW s \in Seq(S), NEW t \in Seq(S), NEW u \in Seq(S)
    PROVE  Associate(s, t, u)
  BY ConcatAssociative DEF Associate

LEMMA TakenRead ==
    ASSUME TypeOK, TakenInv, part.open, pc = "idle", NEW r, ReadBy(r), UNCHANGED start
    PROVE  /\ delivered' \o part'.buffer = Taken(start, at')
           /\ part'.fresh <=> at' = start
<1>1. /\ at' = r.at /\ at' \in Nat /\ at <= at' /\ part'.buffer = r.buffer
      /\ part'.fresh = (part.fresh /\ r.data = <<>>) /\ r.data \in Seq(1 .. at')
  BY TookIs DEF ReadBy
<1>2. /\ delivered' = delivered \o r.data /\ r.data \o r.buffer = part.buffer \o Taken(at, r.at)
      /\ r.data = <<>> => r.at = at
      /\ r.buffer \in Seq(1 .. r.at)
  BY DEF ReadBy, ReadOK
<1>3. /\ delivered \in Seq(1 .. at) /\ part.buffer \in Seq(1 .. at)
      /\ at \in Nat /\ start \in Nat /\ start <= at
  BY TypeParts, Facts DEF PlacesOK, PartType
<1>4. delivered \o part.buffer = Taken(start, at) /\ (part.fresh <=> at = start)
  BY DEF TakenInv
<1>5. delivered \in Seq(1 .. at') /\ part.buffer \in Seq(1 .. at')
  BY <1>1, <1>3, Grows
<1>6. Taken(at, at') \in Seq(1 .. at')
  BY <1>1, <1>3, TakenIs
<1>b. r.buffer \in Seq(1 .. at')
  BY <1>1, <1>2
<1>7. delivered' \o part'.buffer = Taken(start, at')
  <2>1. Associate(delivered, r.data, r.buffer) /\ Associate(delivered, part.buffer, Taken(at, at'))
    BY <1>1, <1>5, <1>6, <1>b, Associative
  <2>2. (delivered \o r.data) \o r.buffer = (delivered \o part.buffer) \o Taken(at, at')
    BY <1>1, <1>2, <2>1, Zenon DEF Associate
  <2>3. Taken(start, at) \o Taken(at, at') = Taken(start, at')
    BY <1>1, <1>3, TakenConcat
  <2> QED
    BY <1>1, <1>2, <1>4, <2>1, <2>2, <2>3, Zenon
<1>8. at' = start => part.fresh /\ r.data = <<>>
  <2> SUFFICES ASSUME at' = start PROVE part.fresh /\ r.data = <<>>
    OBVIOUS
  <2>1. at = start /\ at' = at
    BY <1>1, <1>3
  <2>2. Len(Taken(start, start)) = 0
    BY <1>3, TakenIs
  <2>3. Len(delivered \o r.data) + Len(r.buffer) = 0
    <3>1. delivered \o r.data \in Seq(1 .. at')
      BY <1>1, <1>5, ConcatProperties
    <3>2. Len((delivered \o r.data) \o r.buffer) = Len(delivered \o r.data) + Len(r.buffer)
      BY <1>1, <1>2, <3>1, ConcatProperties
    <3> QED
      BY <1>1, <1>2, <1>7, <2>1, <2>2, <3>2
  <2>4. Len(delivered \o r.data) = Len(delivered) + Len(r.data)
    BY <1>1, <1>5, ConcatProperties
  <2>5. Len(r.data) \in Nat /\ Len(delivered) \in Nat /\ Len(r.buffer) \in Nat
    BY <1>1, <1>2, <1>3, LenProperties
  <2>6. Len(r.data) = 0
    <3> DEFINE d == Len(r.data)
               e == Len(delivered)
               b == Len(r.buffer)
    <3>1. (e + d) + b = 0 /\ d \in Nat /\ e \in Nat /\ b \in Nat
      BY <2>3, <2>4, <2>5
    <3> HIDE DEF d, e, b
    <3>2. d = 0
      BY <3>1
    <3> QED
      BY <3>2 DEF d
  <2> QED
    BY <1>1, <1>4, <2>1, <2>6, EmptySeq
<1>9. part.fresh /\ r.data = <<>> => at' = start
  BY <1>1, <1>2, <1>4
<1> QED
  BY <1>1, <1>7, <1>8, <1>9

LEMMA StartIs == TypeOK => start \in Nat
  BY Facts

LEMMA TakenStep == TypeOK /\ CountInv /\ TakenInv /\ [Next]_vars => TakenInv'
<1> SUFFICES ASSUME TypeOK, CountInv, TakenInv, [Next]_vars PROVE TakenInv'
  OBVIOUS
<1>0. ASSUME start' = start, at' = at, delivered' = delivered, part' = part, pc' = "idle" => pc = "idle"
      PROVE  TakenInv'
  BY <1>0 DEF TakenInv, Taken
<1>1. ASSUME NEW k \in Sizes, Read(k) PROVE TakenInv'
  <2>1. PICK r : ReadBy(r)
    BY <1>1, ReadIs
  <2>2. pc = "idle" /\ part.open /\ start' = start
    BY <1>1 DEF Read
  <2>3. delivered' \o part'.buffer = Taken(start, at') /\ (part'.fresh <=> at' = start)
    BY <2>1, <2>2, TakenRead
  <2> QED
    BY <2>2, <2>3 DEF TakenInv, Taken
<1>2. ASSUME CheckNextPart PROVE TakenInv'
  BY <1>0, <1>2 DEF CheckNextPart
<1>3. ASSUME NextPart PROVE TakenInv'
  BY <1>3 DEF NextPart, TakenInv
<1>4. ASSUME CloseRead PROVE TakenInv'
  <2>1. PICK r : ClosedBy(r)
    BY <1>4, CloseReadIs
  <2>2. pc' # "idle"
    BY <2>1 DEF ClosedBy
  <2> QED
    BY <2>2 DEF TakenInv
<1>5. ASSUME NextLine \/ NoLine \/ HeaderError PROVE TakenInv'
  <2>1. ~(part'.open /\ pc' = "idle")
    BY <1>5, LinesClosed
  <2> QED
    BY <2>1 DEF TakenInv
<1>6. ASSUME Header \/ OtherHeader PROVE TakenInv'
  <2>1. /\ part' = [buffer |-> <<>>, fresh |-> TRUE, open |-> TRUE, some |-> TRUE]
        /\ start' = at' /\ delivered' = <<>>
    BY <1>6 DEF Header, OtherHeader, NewPart
  <2>2. start' \in Nat
    <3>1. TypeOK'
      BY TypeStep
    <3>2. (TypeOK => start \in Nat)'
      BY StartIs, PTL
    <3> QED
      BY <3>1, <3>2
  <2>3. [j \in 1 .. at' - start' |-> start' + j] = <<>>
    <3> SUFFICES ASSUME NEW n \in Nat PROVE [j \in 1 .. n - n |-> n + j] = <<>>
      BY <2>1, <2>2
    <3>1. Taken(n, n) \in Seq(1 .. n) /\ Len(Taken(n, n)) = n - n
      BY TakenIs
    <3>2. n - n = 0
      OBVIOUS
    <3>3. Taken(n, n) = <<>>
      BY <3>1, <3>2, EmptySeq
    <3> QED
      BY <3>3 DEF Taken
  <2> QED
    BY <2>1, <2>3 DEF TakenInv, Taken
<1>7. ASSUME UNCHANGED vars PROVE TakenInv'
  BY <1>0, <1>7 DEF vars
<1> QED
  BY <1>1, <1>2, <1>3, <1>4, <1>5, <1>6, <1>7 DEF Next, Proceed, Stopped

-----------------------------------------------------------------------------
(* Where the body ends is said of the stream, and does not move. *)
LEMMA EndStays ==
    ASSUME UNCHANGED <<stream, nl, start>>
    PROVE  BodyEnd' = BodyEnd /\ PaddingFits' = PaddingFits
  BY DEF BodyEnd, EmptyBody, EndsAt, From, IsEmptyPart, PaddingFits

LEMMA EndBehind == TypeOK => start <= BodyEnd
<1> SUFFICES ASSUME TypeOK PROVE start <= BodyEnd
  OBVIOUS
<1>1. stream \in Seq(Symbols) /\ nl \in {CR, LF} /\ start \in 0 .. Len(stream) /\ Len(stream) \in Nat
  BY Facts
<1>2. BodyEnd \in start .. Len(stream)
  BY <1>1, BodyEndIs
<1> QED
  BY <1>1, <1>2

(* Of the bytes from b to t, d were delivered and n more are, and p are    *)
(* held; d reach to e, and t does not go beyond it.                        *)
AllDelivered(b, d, n, p, t, e) ==
    /\ b \in Nat /\ d \in Nat /\ n \in Nat /\ p \in Nat /\ t \in Nat /\ e \in Nat
    /\ (d + n) + p = t - b /\ t <= e /\ b + d = e

LEMMA Squeeze ==
    ASSUME NEW b, NEW d, NEW n, NEW p, NEW t, NEW e, AllDelivered(b, d, n, p, t, e)
    PROVE  b + (d + n) = e
<1>1. n = 0
  BY DEF AllDelivered
<1> QED
  BY <1>1 DEF AllDelivered

LEMMA EndRead ==
    ASSUME TypeOK, TakenInv, part.open, pc = "idle", PaddingFits, at <= BodyEnd,
           ended => start + Len(delivered) = BodyEnd, NEW r, ReadBy(r), UNCHANGED start
    PROVE  at' <= BodyEnd /\ (ended' => start + Len(delivered') = BodyEnd)
<1>1. /\ at' = r.at /\ at' \in Nat /\ at <= at' /\ part'.buffer = r.buffer /\ r.data \in Seq(1 .. at')
  BY TookIs DEF ReadBy
<1>2. /\ delivered' = delivered \o r.data /\ (ended' <=> ended \/ r.err = "eof")
      /\ r.at = at \/ (r.at = at + NCopy(Seen) /\ ~AtEmpty)
      /\ r.err = "eof" => /\ r.at = at /\ r.data = <<>>
                          /\ \/ AtEmpty
                             \/ /\ ~AtEmpty /\ NCopy(Seen) = 0
                                /\ part.buffer = <<>> /\ (Short(Seen) \/ IsEnd(Seen))
      /\ r.buffer \in Seq(1 .. r.at)
  BY DEF ReadBy, ReadOK
<1>3. /\ stream \in Seq(Symbols) /\ nl \in {CR, LF} /\ Len(stream) \in Nat
      /\ at \in 0 .. Len(stream) /\ at \in Nat /\ at <= Len(stream)
      /\ start \in Nat /\ start <= at /\ start \in 0 .. Len(stream)
      /\ delivered \in Seq(1 .. at) /\ part.buffer \in Seq(1 .. at) /\ part.fresh \in BOOLEAN
  BY Facts, TypeParts DEF PlacesOK, PartType
<1>4. delivered \o part.buffer = Taken(start, at) /\ (part.fresh <=> at = start)
  BY DEF TakenInv
<1>5. BodyEnd \in Nat /\ start <= BodyEnd
  <2>1. BodyEnd \in start .. Len(stream)
    BY <1>3, BodyEndIs
  <2> QED
    BY <1>3, <2>1
<1>6. ~AtEmpty => Inside
  BY <1>3, <1>4 DEF Inside, AtEmpty, Seen
<1>7. at' <= BodyEnd
  <2>1. CASE r.at = at
    BY <1>1, <2>1
  <2>2. CASE r.at = at + NCopy(Seen) /\ ~AtEmpty
    BY <1>1, <1>6, <2>2, NCopyInside DEF Seen
  <2> QED
    BY <1>2, <2>1, <2>2
<1>8. /\ Len(delivered) + Len(part.buffer) = at - start
      /\ Len(delivered') + Len(part'.buffer) = at' - start
      /\ Len(delivered') = Len(delivered) + Len(r.data)
      /\ Len(delivered) \in Nat /\ Len(part.buffer) \in Nat /\ Len(r.data) \in Nat /\ Len(part'.buffer) \in Nat
  <2>1. Len(delivered \o part.buffer) = Len(delivered) + Len(part.buffer)
    BY <1>3, ConcatProperties
  <2>2. Len(Taken(start, at)) = at - start
    BY <1>3, TakenIs
  <2>3. delivered \in Seq(1 .. at')
    BY <1>1, <1>3, Grows
  <2>4. Len(delivered \o r.data) = Len(delivered) + Len(r.data) /\ delivered \o r.data \in Seq(1 .. at')
    BY <1>1, <2>3, ConcatProperties
  <2>5. Len(delivered' \o part'.buffer) = Len(delivered') + Len(part'.buffer)
    BY <1>1, <1>2, <2>4, ConcatProperties
  <2>6. delivered' \o part'.buffer = Taken(start, at')
    BY TakenRead
  <2>7. Len(Taken(start, at')) = at' - start
    <3>1. start <= at'
      BY <1>1, <1>3
    <3> QED
      BY <1>1, <1>3, <3>1, TakenIs
  <2>8. Len(delivered) \in Nat /\ Len(part.buffer) \in Nat /\ Len(r.data) \in Nat /\ Len(part'.buffer) \in Nat
    BY <1>1, <1>2, <1>3, LenProperties
  <2> QED
    BY <1>2, <1>4, <2>1, <2>2, <2>4, <2>5, <2>6, <2>7, <2>8
<1>9. ASSUME ended PROVE start + Len(delivered') = BodyEnd
  <2>1. start + Len(delivered) = BodyEnd
    BY <1>9
  <2>2. (Len(delivered) + Len(r.data)) + Len(part'.buffer) = at' - start
    BY <1>8
  <2>3. start + (Len(delivered) + Len(r.data)) = BodyEnd
    <3>1. /\ Len(delivered) \in Nat /\ Len(r.data) \in Nat /\ Len(part'.buffer) \in Nat
          /\ BodyEnd \in Nat /\ start \in Nat /\ at' \in Nat
      BY <1>1, <1>3, <1>5, <1>8
    <3>2. AllDelivered(start, Len(delivered), Len(r.data), Len(part'.buffer), at', BodyEnd)
      BY <1>7, <2>1, <2>2, <3>1, Zenon DEF AllDelivered
    <3> QED
      BY <3>2, Squeeze, Zenon
  <2> QED
    BY <1>8, <2>3
<1>10. ASSUME r.err = "eof" PROVE start + Len(delivered') = BodyEnd
  <2>1. at' = at /\ Len(r.data) = 0
    BY <1>1, <1>2, <1>10, EmptySeq
  <2>2. CASE AtEmpty
    <3>1. at = start /\ IsEmptyPart(Seen)
      BY <1>4, <2>2 DEF AtEmpty
    <3>2. EmptyBody
      BY <1>3, <3>1, SameEmpty DEF Seen
    <3>3. BodyEnd = start
      BY <1>3, <3>2, BodyEndIs
    <3> QED
      BY <1>3, <1>8, <2>1, <3>1, <3>3
  <2>3. CASE ~AtEmpty /\ NCopy(Seen) = 0 /\ part.buffer = <<>> /\ (Short(Seen) \/ IsEnd(Seen))
    <3>1. BodyEnd = at
      BY <1>6, <2>3, EOFAtEnd DEF Seen
    <3>2. Len(part.buffer) = 0
      BY <2>3, EmptySeq
    <3> QED
      BY <1>3, <1>8, <2>1, <3>1, <3>2
  <2> QED
    BY <1>2, <1>10, <2>2, <2>3
<1> QED
  BY <1>2, <1>7, <1>9, <1>10

LEMMA EndStep == TypeOK /\ CountInv /\ TakenInv /\ EndInv /\ [Next]_vars => EndInv'
<1> SUFFICES ASSUME TypeOK, CountInv, TakenInv, EndInv, [Next]_vars PROVE EndInv'
  OBVIOUS
<1>0. ASSUME UNCHANGED <<stream, nl, start, at, delivered, ended, part, pc>>
      PROVE  EndInv'
  BY <1>0, EndStays DEF EndInv
<1>1. ASSUME NEW k \in Sizes, Read(k) PROVE EndInv'
  <2>1. PICK r : ReadBy(r)
    BY <1>1, ReadIs
  <2>2. pc = "idle" /\ part.open /\ UNCHANGED <<stream, nl, start>>
    BY <1>1 DEF Read
  <2>3. BodyEnd' = BodyEnd /\ PaddingFits' = PaddingFits
    BY <2>2, EndStays
  <2>4. ASSUME PaddingFits PROVE at' <= BodyEnd /\ (ended' => start + Len(delivered') = BodyEnd)
    <3>1. at <= BodyEnd /\ (ended => start + Len(delivered) = BodyEnd)
      BY <2>2, <2>4 DEF EndInv
    <3> QED
      BY <2>1, <2>2, <2>4, <3>1, EndRead
  <2> QED
    BY <2>2, <2>3, <2>4 DEF EndInv
<1>2. ASSUME CheckNextPart PROVE EndInv'
  <2>1. Judged.nl = nl /\ Judged.verdict \in Verdicts /\ pc = "idle"
    BY <1>2, JudgedIs DEF CheckNextPart
  <2>2. nl' = nl /\ pc' = pc
    <3>1. PICK st : st = Judged /\ nl' = st.nl /\ pc' = (IF (IF st.verdict = "none" THEN OutOfLines ELSE st.verdict) = "panic" THEN "panic" ELSE pc)
      BY <1>2, Zenon DEF CheckNextPart
    <3> QED
      BY <2>1, <3>1 DEF Verdicts, OutOfLines
  <2> QED
    BY <1>0, <1>2, <2>2 DEF CheckNextPart
<1>3. ASSUME NextPart PROVE EndInv'
  BY <1>3 DEF NextPart, EndInv
<1>4. ASSUME CloseRead PROVE EndInv'
  <2>1. PICK r : ClosedBy(r)
    BY <1>4, CloseReadIs
  <2>2. pc' # "idle"
    BY <2>1 DEF ClosedBy
  <2> QED
    BY <2>2 DEF EndInv
<1>5. ASSUME NextLine \/ NoLine \/ HeaderError PROVE EndInv'
  <2>1. ~(part'.open /\ pc' = "idle")
    BY <1>5, LinesClosed
  <2> QED
    BY <2>1 DEF EndInv
<1>6. ASSUME Header \/ OtherHeader PROVE EndInv'
  <2>1. start' = at' /\ ended' = FALSE
    BY <1>6 DEF Header, OtherHeader, NewPart, Returns
  <2>2. start' <= BodyEnd'
    <3>1. TypeOK'
      BY TypeStep
    <3>2. (TypeOK => start <= BodyEnd)'
      BY EndBehind, PTL
    <3> QED
      BY <3>1, <3>2
  <2> QED
    BY <2>1, <2>2 DEF EndInv
<1>7. ASSUME UNCHANGED vars PROVE EndInv'
  BY <1>0, <1>7 DEF vars
<1> QED
  BY <1>1, <1>2, <1>3, <1>4, <1>5, <1>6, <1>7 DEF Next, Proceed, Stopped

LEMMA InitOK == Init => IInv
<1> SUFFICES ASSUME Init PROVE IInv
  OBVIOUS
<1>1. stream \in Seq(Symbols) /\ ending \in {"eof", "fail"}
  BY StreamsAssumption DEF Init
<1>2. /\ at = 0 /\ buffered = 0 /\ nl = CR /\ partsRead = 0 /\ part = NoPart /\ pc = "idle" /\ expect = FALSE
      /\ ret = "none" /\ start = 0 /\ delivered = <<>> /\ ended = FALSE /\ checked = "none"
  BY DEF Init, CR
<1>3. FlagsOK
  BY <1>2 DEF FlagsOK, Pcs, Rets, Says
<1>4. NoPart \in PartType(0) /\ <<>> \in Seq(1 .. 0) /\ NoPart.open = FALSE /\ NoPart.some = FALSE
  BY EmptySeq DEF NoPart, PartType
<1>5. PlacesOK
  <2>1. Len(stream) \in Nat /\ PeekSize \in Nat
    BY <1>1, LenProperties, Words
  <2> QED
    BY <1>2, <1>4, <2>1 DEF PlacesOK
<1>6. TypeOK
  BY <1>1, <1>3, <1>5, TypeParts
<1>7. CountInv /\ TakenInv /\ EndInv
  BY <1>2, <1>4 DEF CountInv, TakenInv, EndInv
<1> QED
  BY <1>6, <1>7 DEF IInv

LEMMA Inductive == IInv /\ [Next]_vars => IInv'
  BY TypeStep, CountStep, TakenStep, EndStep DEF IInv

LEMMA Invariance == Spec => []IInv
  BY InitOK, Inductive, PTL DEF Spec

(* The type invariant of the reader: what has been taken from the stream,  *)
(* what is buffered and where the body of the part starts lie in order,    *)
(* and the newline is one of two.                                          *)
THEOREM TypeCorrect == Spec => []TypeOK
<1>1. IInv => TypeOK
  BY DEF IInv
<1> QED
  BY <1>1, Invariance, PTL

(* Part.Read delivers the bytes of the body, once and in order, none of    *)
(* the separator's, and io.EOF only at the end of the body: for streams of *)
(* any length, and every size of the peek buffer and of the reads.         *)
THEOREM BodyDelivered == Spec => []BodyExact
<1>1. IInv => BodyExact
  BY DEF IInv, TakenInv, EndInv, BodyExact, Taken
<1> QED
  BY <1>1, Invariance, PTL

-----------------------------------------------------------------------------
(* What NextPart and CheckNextPart read: lines of the whole stream.         *)
NoLF(a, b) == \A i \in a + 1 .. b : stream[i] # "lf"

(* The line from behind byte j ends with byte c.                            *)
LineEnds(j, c) == j < c /\ c <= Len(stream) /\ stream[c] = "lf" /\ NoLF(j, c - 1)

(* bufReader.ReadSlice finds the next LF of the stream.                     *)
LEMMA NextLF ==
    ASSUME TypeOK
    PROVE  \/ FirstLF = 0 /\ NoLF(at, Len(stream))
           \/ FirstLF \in Nat /\ LineEnds(at, at + FirstLF)
<1> DEFINE I == { i \in 1 .. Len(Rest) : Rest[i] = "lf" }
<1>1. /\ stream \in Seq(Symbols) /\ at \in 0 .. Len(stream) /\ Len(stream) \in Nat /\ at \in Nat /\ at <= Len(stream)
      /\ Len(stream) \in 0 .. Len(stream) /\ at \in 0 .. Len(stream)
  BY Facts
<1>2. Rest = View(at, Len(stream)) /\ Len(Rest) = Len(stream) - at
  BY <1>1, WindowIs
<1>3. \A i \in 1 .. Len(stream) - at : Rest[i] = stream[at + i]
  BY <1>1, <1>2, ViewIs
<1>4. FirstLF = IF I # {} THEN Min(I) ELSE 0
  BY Zenon DEF FirstLF, SelectInSeq
<1>5. CASE I = {}
  <2>1. ASSUME NEW i \in at + 1 .. Len(stream), stream[i] = "lf" PROVE FALSE
    <3>1. i - at \in 1 .. Len(stream) - at /\ at + (i - at) = i
      BY <1>1
    <3>2. Rest[i - at] = "lf"
      BY <1>3, <2>1, <3>1
    <3> QED
      BY <1>2, <1>5, <3>1, <3>2
  <2> QED
    BY <1>4, <1>5, <2>1 DEF NoLF
<1>6. CASE I # {}
  <2>1. I \in SUBSET Nat
    BY <1>1, <1>2
  <2>2. Min(I) \in I /\ \A y \in I : Min(I) <= y
    BY <1>6, <2>1, MinIs
  <2>3. PICK m : m = FirstLF
    OBVIOUS
  <2>4. m \in I /\ \A y \in I : m <= y
    BY <1>4, <1>6, <2>2, <2>3
  <2>5. m \in 1 .. Len(stream) - at /\ Rest[m] = "lf"
    BY <1>2, <2>4
  <2>6. stream[at + m] = "lf" /\ at < at + m /\ at + m <= Len(stream) /\ m \in Nat
    BY <1>1, <1>3, <2>5
  <2>7. ASSUME NEW i \in at + 1 .. (at + m) - 1, stream[i] = "lf" PROVE FALSE
    <3>1. i - at \in 1 .. Len(stream) - at /\ at + (i - at) = i /\ i - at < m
      BY <1>1, <2>5
    <3>2. i - at \in I
      BY <1>2, <1>3, <2>7, <3>1
    <3> QED
      BY <1>1, <2>4, <2>6, <3>1, <3>2
  <2> QED
    BY <2>3, <2>6, <2>7 DEF LineEnds, NoLF
<1> QED
  BY <1>5, <1>6

(* There is but one.                                                        *)
LEMMA LineUnique ==
    ASSUME NEW j \in Nat, NEW c \in Nat, LineEnds(j, c), NEW d \in Nat, LineEnds(j, d)
    PROVE  c = d
<1>1. ASSUME NEW a \in Nat, NEW b \in Nat, LineEnds(j, a), LineEnds(j, b) PROVE ~(a < b)
  BY <1>1 DEF LineEnds, NoLF
<1>2. ~(c < d) /\ ~(d < c)
  BY <1>1
<1> QED
  BY <1>2

LEMMA FirstLFOf ==
    ASSUME TypeOK
    PROVE  /\ \A c \in Nat : LineEnds(at, c) => FirstLF = c - at
           /\ NoLF(at, Len(stream)) => FirstLF = 0
<1>1. at \in Nat /\ Len(stream) \in Nat
  BY Facts
<1>2. ASSUME NEW c \in Nat, LineEnds(at, c) PROVE FirstLF = c - at
  <2>1. ~NoLF(at, Len(stream))
    BY <1>1, <1>2 DEF LineEnds, NoLF
  <2>2. FirstLF \in Nat /\ LineEnds(at, at + FirstLF)
    BY <2>1, NextLF
  <2>3. PICK d \in Nat : d = at + FirstLF
    BY <1>1, <2>2
  <2>4. d = c
    BY <1>1, <1>2, <2>2, <2>3, LineUnique
  <2> QED
    BY <1>1, <2>2, <2>3, <2>4
<1>3. ASSUME NoLF(at, Len(stream)) PROVE FirstLF = 0
  <2>1. ASSUME FirstLF \in Nat, LineEnds(at, at + FirstLF) PROVE FALSE
    <3>1. PICK d \in Nat : d = at + FirstLF
      BY <1>1, <2>1
    <3>2. LineEnds(at, d)
      BY <2>1, <3>1
    <3> QED
      BY <1>1, <1>3, <3>2 DEF LineEnds, NoLF
  <2> QED
    BY <2>1, NextLF
<1> QED
  BY <1>2, <1>3

(* What a boundary is made of has no line end in it.                        *)
LEMMA DashStands ==
    ASSUME NEW j \in Nat, NEW e \in Nat, Stands(Dash, j, e)
    PROVE  stream[j + 1] = "-" /\ stream[j + 2] = "-" /\ stream[j + 3] = "b"
<1>1. Dash[1] = "-" /\ Dash[2] = "-" /\ Dash[3] = "b"
  BY DEF Dash
<1>2. Len(Dash) = 3
  BY Words
<1>3. \A i \in 1 .. 3 : stream[j + i] = Dash[i]
  BY <1>2 DEF Stands
<1> QED
  BY <1>1, <1>3

LEMMA TwoStand ==
    ASSUME NEW j \in Nat, NEW e \in Nat, Stands(<<"-", "-">>, j, e)
    PROVE  stream[j + 1] = "-" /\ stream[j + 2] = "-"
<1>1. Len(<<"-", "-">>) = 2
  BY Words
<1>2. PICK t : t = <<"-", "-">> /\ Len(t) = 2
  BY <1>1
<1>3. t[1] = "-" /\ t[2] = "-"
  BY <1>2
<1>4. \A i \in 1 .. 2 : stream[j + i] = t[i]
  BY <1>2 DEF Stands
<1> QED
  BY <1>3, <1>4

LEMMA DashDashStands ==
    ASSUME NEW j \in Nat, NEW e \in Nat
    PROVE  Stands(DashDash, j, e) <=> Stands(Dash, j, e) /\ Stands(<<"-", "-">>, j + 3, e)
<1>1. Dash \in Seq(Symbols) /\ Len(Dash) = 3 /\ <<"-", "-">> \in Seq(Symbols)
  BY Words
<1>2. PICK p : p = Dash /\ p \in Seq(Symbols) /\ Len(p) = 3
  BY <1>1
<1>3. PICK q : q = <<"-", "-">> /\ q \in Seq(Symbols)
  BY <1>1
<1>4. Stands(p \o q, j, e) <=> Stands(p, j, e) /\ Stands(q, j + Len(p), e)
  BY <1>2, <1>3, StandsConcat, Zenon
<1> QED
  BY <1>2, <1>3, <1>4 DEF DashDash

LEMMA BoundaryNoLF ==
    ASSUME NEW j \in Nat, NEW e \in Nat
    PROVE  /\ Stands(Dash, j, e) => NoLF(j, j + 3) /\ j + 3 <= e
           /\ Stands(DashDash, j, e) => NoLF(j, j + 5) /\ j + 5 <= e
<1>1. ASSUME Stands(Dash, j, e) PROVE NoLF(j, j + 3) /\ j + 3 <= e
  <2>1. stream[j + 1] = "-" /\ stream[j + 2] = "-" /\ stream[j + 3] = "b"
    BY <1>1, DashStands
  <2>2. j + 3 <= e
    BY <1>1, Words DEF Stands
  <2>3. \A i \in j + 1 .. j + 3 : i = j + 1 \/ i = j + 2 \/ i = j + 3
    OBVIOUS
  <2> QED
    BY <2>1, <2>2, <2>3 DEF NoLF
<1>2. ASSUME Stands(DashDash, j, e) PROVE NoLF(j, j + 5) /\ j + 5 <= e
  <2>1. Stands(Dash, j, e) /\ Stands(<<"-", "-">>, j + 3, e)
    BY <1>2, DashDashStands
  <2>2. NoLF(j, j + 3)
    BY <1>1, <2>1
  <2>3. PICK k \in Nat : k = j + 3
    OBVIOUS
  <2>4. stream[k + 1] = "-" /\ stream[k + 2] = "-"
    BY <2>1, <2>3, TwoStand
  <2>5. j + 5 <= e
    BY <1>2, Words DEF Stands
  <2>6. \A i \in j + 1 .. j + 5 : i \in j + 1 .. j + 3 \/ i = k + 1 \/ i = k + 2
    BY <2>3
  <2> QED
    BY <2>2, <2>4, <2>5, <2>6 DEF NoLF
<1> QED
  BY <1>1, <1>2

(* The line of a boundary ends behind the white space that follows it.      *)
LEMMA BoundaryLF ==
    ASSUME stream \in Seq(Symbols), nl \in {CR, LF}, NEW j \in Nat, NEW b \in Nat, j < b, NoLF(j, b),
           NEW s \in b .. Len(stream), Skipped(b, s, Len(stream))
    PROVE  /\ Stands(nl, s, Len(stream)) => LineEnds(j, s + Len(nl))
           /\ NoLF(j, s)
<1>1. Len(stream) \in Nat /\ s \in Nat /\ s <= Len(stream) /\ b <= s
  BY LenProperties
<1>2. PICK N \in Nat : N = Len(stream)
  BY <1>1
<1>4. NoLF(j, s)
  <2> SUFFICES ASSUME NEW i \in j + 1 .. s PROVE stream[i] # "lf"
    BY DEF NoLF
  <2>1. CASE i <= b
    <3>1. i \in j + 1 .. b
      BY <1>1, <2>1
    <3> QED
      BY <3>1 DEF NoLF
  <2>2. CASE ~(i <= b)
    <3>1. i \in b + 1 .. s
      BY <1>1, <2>2
    <3>2. stream[i] = "sp"
      BY <3>1 DEF Skipped, Spaces
    <3> QED
      BY <3>2
  <2> QED
    BY <2>1, <2>2
<1>5. ASSUME Stands(nl, s, Len(stream)) PROVE LineEnds(j, s + Len(nl))
  <2>1. CASE nl = LF
    <3>1. Len(nl) = 1 /\ s + 1 <= Len(stream) /\ stream[s + 1] = "lf"
      BY <1>5, <2>1, Words DEF Stands
    <3>2. (s + 1) - 1 = s /\ j < s + 1
      BY <1>1
    <3> QED
      BY <1>4, <3>1, <3>2 DEF LineEnds
  <2>2. CASE nl = CR
    <3>1. Len(nl) = 2 /\ s + 2 <= Len(stream) /\ stream[s + 1] = "cr" /\ stream[s + 2] = "lf"
      BY <1>5, <2>2, Words DEF Stands
    <3>2. (s + 2) - 1 = s + 1 /\ j < s + 2
      BY <1>1
    <3>3. NoLF(j, s + 1)
      BY <1>1, <1>4, <3>1 DEF NoLF
    <3> QED
      BY <3>1, <3>2, <3>3 DEF LineEnds
  <2> QED
    BY <2>1, <2>2
<1> QED
  BY <1>4, <1>5

(* A boundary, behind byte j.                                               *)
Boundary(j)     == EmptyHere(j, Len(stream))
LastBoundary(j) == Stands(DashDash, j, Len(stream))

(* As in PadFits, the line of a boundary is not longer than the peek        *)
(* buffer; the last one may have no line end.                               *)
LEMMA BoundaryEnds ==
    ASSUME stream \in Seq(Symbols), nl \in {CR, LF}, PaddingFits, NEW j \in 0 .. Len(stream), Boundary(j)
    PROVE  \/ LastBoundary(j) /\ NoLF(j, Len(stream)) /\ Len(stream) < j + PeekSize
           \/ \E c \in Nat : LineEnds(j, c) /\ c <= j + PeekSize /\ (~LastBoundary(j) => c <= j + PeekSize - 2)
<1>1. Len(stream) \in Nat /\ j \in Nat /\ PeekSize \in Nat /\ PeekSize >= 7 /\ Len(nl) \in Nat /\ Len(nl) <= 2
  BY Words, SepIs
<1>2. CASE LastBoundary(j)
  <2>1. PICK s \in j + 5 .. Len(stream) : Skipped(j + 5, s, Len(stream)) /\ (Stands(nl, s, Len(stream)) \/ s = Len(stream))
    BY <1>2 DEF Boundary, LastBoundary, EmptyHere
  <2>2. PICK d \in {Dash, DashDash} : d = DashDash /\ Len(d) = 5
    BY Words
  <2>3. Stands(d, j, Len(stream)) /\ s \in j + Len(d) .. Len(stream) /\ Skipped(j + Len(d), s, Len(stream))
    BY <1>2, <2>1, <2>2 DEF LastBoundary
  <2>a. NoLF(j, j + 5) /\ j < j + 5 /\ j + 5 \in Nat
    BY <1>1, <1>2, BoundaryNoLF DEF LastBoundary
  <2>4. (Stands(nl, s, Len(stream)) => LineEnds(j, s + Len(nl))) /\ NoLF(j, s)
    BY <1>1, <2>1, <2>a, BoundaryLF
  <2>5. s < j + 5 + PeekSize - 6
    <3>1. Spaces(j + Len(d), s)
      BY <2>3 DEF Skipped
    <3> QED
      BY <2>2, <2>3, <3>1, PadFits
  <2>6. s \in Nat /\ s <= (j + PeekSize) - 2
    BY <1>1, <2>1, <2>5
  <2>7. CASE s = Len(stream)
    <3>1. Len(stream) < j + PeekSize
      BY <1>1, <2>6, <2>7
    <3> QED
      BY <1>2, <2>4, <2>7, <3>1
  <2>8. CASE Stands(nl, s, Len(stream))
    <3>1. s + Len(nl) \in Nat /\ s + Len(nl) <= j + PeekSize
      BY <1>1, <2>6
    <3> QED
      BY <1>2, <2>4, <2>8, <3>1
  <2> QED
    BY <2>1, <2>7, <2>8
<1>3. CASE ~LastBoundary(j)
  <2>1. /\ Stands(Dash, j, Len(stream))
        /\ \E s \in j + 3 .. Len(stream) : Skipped(j + 3, s, Len(stream)) /\ Stands(nl, s, Len(stream))
    BY <1>3 DEF Boundary, LastBoundary, EmptyHere
  <2>2. PICK s \in j + 3 .. Len(stream) : Skipped(j + 3, s, Len(stream)) /\ Stands(nl, s, Len(stream))
    BY <2>1
  <2>3. PICK d \in {Dash, DashDash} : d = Dash /\ Len(d) = 3
    BY Words
  <2>4. Stands(d, j, Len(stream)) /\ s \in j + Len(d) .. Len(stream) /\ Skipped(j + Len(d), s, Len(stream))
    BY <2>1, <2>2, <2>3
  <2>a. NoLF(j, j + 3) /\ j < j + 3 /\ j + 3 \in Nat
    BY <1>1, <2>1, BoundaryNoLF
  <2>5. LineEnds(j, s + Len(nl))
    BY <1>1, <2>2, <2>a, BoundaryLF
  <2>6. s < j + 3 + PeekSize - 6
    <3>1. Spaces(j + Len(d), s)
      BY <2>4 DEF Skipped
    <3> QED
      BY <2>3, <2>4, <3>1, PadFits
  <2>7. s \in Nat /\ s <= (j + PeekSize) - 4
    BY <1>1, <2>2, <2>6
  <2>8. s + Len(nl) \in Nat /\ s + Len(nl) <= j + PeekSize - 2 /\ s + Len(nl) <= j + PeekSize
    BY <1>1, <2>7
  <2> QED
    BY <2>5, <2>8
<1> QED
  BY <1>2, <1>3

(* What is made of a line behind the first part.                            *)
Verdict(line, ex) ==
    IF IsPrefix(Dash, line) /\ SkipLWSP(After(Dash, line)) = nl THEN "part"
    ELSE IF IsPrefix(DashDash, line) /\ SkipLWSP(After(DashDash, line)) \in {<<>>, nl} THEN "eof"
    ELSE IF ex THEN "error" ELSE IF line = nl THEN "none" ELSE "error"

LEMMA JudgeOf ==
    ASSUME partsRead \in Nat, partsRead > 0, NEW st, NEW line, st.nl = nl
    PROVE  Judge(st, line) = [nl |-> nl, verdict |-> Verdict(line, st.expect),
                              expect |-> Verdict(line, st.expect) = "none"]
<1> DEFINE rest     == SkipLWSP(After(Dash, line))
           is       == IsPrefix(Dash, line)
           isFinal  == IsPrefix(DashDash, line)
           switches == is /\ partsRead = 0 /\ rest = LF
           nl1      == IF switches THEN Tail(st.nl) ELSE st.nl
           final    == SkipLWSP(After(DashDash, line))
           verdict  == IF is /\ rest = nl1 THEN "part" ELSE IF isFinal /\ final \in {<<>>, nl1} THEN "eof"
                       ELSE IF st.expect THEN "error"
                       ELSE IF partsRead = 0 \/ line = nl1 THEN "none" ELSE "error"
           on       == verdict = "none" /\ partsRead > 0
<1>1. Judge(st, line) = IF switches /\ st.nl = <<>> THEN [st EXCEPT !.verdict = "panic"]
                        ELSE [nl |-> nl1, verdict |-> verdict, expect |-> on]
  BY Zenon DEF Judge, LF
<1>2. ~(partsRead = 0)
  OBVIOUS
<1>3. ~switches /\ nl1 = nl
  BY <1>2
<1>4. verdict = Verdict(line, st.expect)
  BY <1>2, <1>3, Zenon DEF Verdict
<1>5. on <=> Verdict(line, st.expect) = "none"
  BY <1>4
<1>6. (on = TRUE \/ on = FALSE) /\ (Verdict(line, st.expect) = "none") \in BOOLEAN
  OBVIOUS
<1> HIDE DEF switches, nl1, verdict, on
<1>7. on = (Verdict(line, st.expect) = "none")
  BY <1>5, <1>6
<1> QED
  BY <1>1, <1>3, <1>4, <1>7

(* The line of a boundary is one for NextPart.                              *)
LEMMA ViewNl ==
    ASSUME stream \in Seq(Symbols), nl \in {CR, LF}, NEW c \in 0 .. Len(stream), NEW s \in 0 .. c,
           Stands(nl, s, c), c = s + Len(nl)
    PROVE  View(s, c) = nl
<1>1. /\ View(s, c) \in Seq(Symbols) /\ Len(View(s, c)) = c - s
      /\ \A i \in 1 .. Len(View(s, c)) : View(s, c)[i] = stream[s + i]
      /\ s \in Nat /\ c \in Nat
  BY ViewIs
<1>2. nl \in Seq(Symbols) /\ Len(nl) \in Nat /\ \A i \in 1 .. Len(nl) : stream[s + i] = nl[i]
  BY SepIs DEF Stands
<1>3. PICK v : v = View(s, c)
  OBVIOUS
<1>4. PICK w : w = nl
  OBVIOUS
<1>5. v \in Seq(Symbols) /\ w \in Seq(Symbols) /\ Len(v) = Len(w) /\ \A i \in 1 .. Len(w) : v[i] = w[i]
  BY <1>1, <1>2, <1>3, <1>4
<1>6. v = w
  BY <1>5, SeqEqual
<1> QED
  BY <1>3, <1>4, <1>6

(* Behind the boundary the white space is skipped, and its line end is left. *)
LEMMA Padded ==
    ASSUME stream \in Seq(Symbols), nl \in {CR, LF}, NEW b \in 0 .. Len(stream), NEW s \in b .. Len(stream),
           Skipped(b, s, Len(stream)), Stands(nl, s, Len(stream)), NEW c \in Nat, c = s + Len(nl)
    PROVE  c \in 0 .. Len(stream) /\ b \in 0 .. c /\ SkipLWSP(View(b, c)) = nl
<1>1. Len(stream) \in Nat /\ b \in Nat /\ s \in Nat /\ b <= s /\ s <= Len(stream) /\ Len(nl) \in Nat /\ Len(nl) >= 1
  BY SepIs
<1>2. c <= Len(stream) /\ Stands(nl, s, c)
  <2>1. s + Len(nl) <= Len(stream)
    BY DEF Stands
  <2> QED
    BY <2>1 DEF Stands
<1>3. c \in 0 .. Len(stream) /\ b \in 0 .. c /\ s \in b .. c /\ s \in 0 .. c /\ s < c
  BY <1>1, <1>2
<1>4. Skipped(b, s, c)
  BY <1>1, <1>2, <1>3 DEF Skipped
<1>5. PICK t \in b .. c : Skipped(b, t, c) /\ SkipLWSP(View(b, c)) = View(t, c)
  BY <1>3, SkipIs
<1>6. t = s
  BY <1>3, <1>4, <1>5, SkipUnique
<1>7. View(s, c) = nl
  BY <1>2, <1>3, ViewNl
<1> QED
  BY <1>3, <1>5, <1>6, <1>7

LEMMA BoundaryJudged ==
    ASSUME stream \in Seq(Symbols), nl \in {CR, LF}, NEW j \in 0 .. Len(stream), Boundary(j),
           NEW c \in Nat, LineEnds(j, c), NEW ex
    PROVE  Verdict(View(j, c), ex) = IF LastBoundary(j) THEN "eof" ELSE "part"
<1>1. Len(stream) \in Nat /\ j \in Nat /\ j < c /\ c <= Len(stream) /\ j \in 0 .. c /\ c \in 0 .. Len(stream)
  BY DEF LineEnds
<1>2. Dash \in Seq(Symbols) /\ DashDash \in Seq(Symbols) /\ Len(Dash) = 3 /\ Len(DashDash) = 5
  BY Words
<1>3. (IsPrefix(Dash, View(j, c)) <=> Stands(Dash, j, c)) /\ (IsPrefix(DashDash, View(j, c)) <=> Stands(DashDash, j, c))
  BY <1>1, <1>2, PrefixIs
<1>4. After(Dash, View(j, c)) = View(j + 3, c) /\ After(DashDash, View(j, c)) = View(j + 5, c)
  BY <1>1, <1>2, AfterIs
<1>5. Len(nl) \in Nat /\ Len(nl) >= 1
  BY SepIs
<1>6. CASE ~LastBoundary(j)
  <2>1. /\ Stands(Dash, j, Len(stream))
        /\ \E s \in j + 3 .. Len(stream) : Skipped(j + 3, s, Len(stream)) /\ Stands(nl, s, Len(stream))
    BY <1>6 DEF Boundary, LastBoundary, EmptyHere
  <2>2. PICK s \in j + 3 .. Len(stream) : Skipped(j + 3, s, Len(stream)) /\ Stands(nl, s, Len(stream))
    BY <2>1
  <2>3. NoLF(j, j + 3) /\ j < j + 3 /\ j + 3 \in Nat /\ j + 3 \in 0 .. Len(stream) /\ s \in Nat
    BY <1>1, <2>1, <2>2, BoundaryNoLF
  <2>4. LineEnds(j, s + Len(nl))
    BY <1>1, <2>2, <2>3, BoundaryLF
  <2>5. s + Len(nl) = c
    <3>1. PICK e \in Nat : e = s + Len(nl)
      BY <1>5, <2>3
    <3> QED
      BY <1>1, <2>4, <3>1, LineUnique
  <2>6. SkipLWSP(View(j + 3, c)) = nl /\ j + 3 \in 0 .. c
    BY <2>2, <2>3, <2>5, Padded
  <2>7. Stands(Dash, j, c)
    BY <1>2, <2>1, <2>6 DEF Stands
  <2> QED
    BY <1>3, <1>4, <1>6, <2>6, <2>7 DEF Verdict
<1>7. CASE LastBoundary(j)
  <2>1. PICK s \in j + 5 .. Len(stream) : Skipped(j + 5, s, Len(stream)) /\ (Stands(nl, s, Len(stream)) \/ s = Len(stream))
    BY <1>7 DEF Boundary, LastBoundary, EmptyHere
  <2>2. NoLF(j, j + 5) /\ j < j + 5 /\ j + 5 \in Nat /\ j + 5 \in 0 .. Len(stream) /\ s \in Nat /\ s <= Len(stream)
    BY <1>1, <1>7, <2>1, BoundaryNoLF DEF LastBoundary
  <2>3. (Stands(nl, s, Len(stream)) => LineEnds(j, s + Len(nl))) /\ NoLF(j, s)
    BY <1>1, <2>1, <2>2, BoundaryLF
  <2>4. Stands(nl, s, Len(stream))
    <3>1. s # Len(stream)
      BY <1>1, <2>2, <2>3 DEF LineEnds, NoLF
    <3> QED
      BY <2>1, <3>1
  <2>5. s + Len(nl) = c
    <3>1. PICK e \in Nat : e = s + Len(nl)
      BY <1>5, <2>2
    <3> QED
      BY <1>1, <2>3, <2>4, <3>1, LineUnique
  <2>6. SkipLWSP(View(j + 5, c)) = nl /\ j + 5 \in 0 .. c
    BY <2>1, <2>2, <2>4, <2>5, Padded
  <2>7. Stands(DashDash, j, c)
    BY <1>2, <1>7, <2>6 DEF Stands, LastBoundary
  <2>8. SkipLWSP(View(j + 3, c)) # nl
    <3>1. Stands(<<"-", "-">>, j + 3, Len(stream))
      BY <1>1, <1>7, DashDashStands DEF LastBoundary
    <3>2. PICK k \in Nat : k = j + 3
      BY <1>1
    <3>3. stream[k + 1] = "-"
      BY <1>1, <3>1, <3>2, TwoStand
    <3>4. k \in 0 .. c /\ k < c
      BY <1>1, <2>6, <3>2
    <3>5. PICK u \in k .. c : Skipped(k, u, c) /\ SkipLWSP(View(k, c)) = View(u, c)
      BY <1>1, <3>4, SkipIs
    <3>6. Skipped(k, k, c)
      BY <3>3 DEF Skipped, Spaces
    <3>7. u = k
      <4>1. k \in k .. c
        BY <3>4
      <4> QED
        BY <1>1, <3>4, <3>5, <3>6, <4>1, SkipUnique
    <3>8. View(k, c)[1] = "-"
      <4>1. Len(View(k, c)) = c - k /\ \A i \in 1 .. Len(View(k, c)) : View(k, c)[i] = stream[k + i]
        BY <1>1, <3>4, ViewIs
      <4>2. 1 \in 1 .. c - k
        BY <1>1, <3>4
      <4> QED
        BY <3>3, <4>1, <4>2
    <3>9. nl[1] # "-"
      BY Words
    <3> QED
      BY <3>2, <3>5, <3>7, <3>8, <3>9
  <2> QED
    BY <1>3, <1>4, <1>7, <2>6, <2>7, <2>8 DEF Verdict
<1> QED
  BY <1>6, <1>7

(* The line end before a boundary is a blank line.                          *)
LEMMA BlankJudged ==
    ASSUME nl \in {CR, LF}
    PROVE  Verdict(nl, FALSE) = "none"
<1>1. Dash \in Seq(Symbols) /\ DashDash \in Seq(Symbols) /\ Len(Dash) = 3 /\ Len(DashDash) = 5
  BY Words
<1>2. Len(nl) <= 2 /\ Len(nl) \in Nat /\ nl \in Seq(Symbols)
  BY SepIs
<1>3. ~IsPrefix(Dash, nl)
  <2> SUFFICES ASSUME IsPrefix(Dash, nl) PROVE FALSE
    OBVIOUS
  <2>1. Len(Dash) <= Len(nl)
    BY DEF IsPrefix
  <2> QED
    BY <1>1, <1>2, <2>1
<1>4. ~IsPrefix(DashDash, nl)
  <2> SUFFICES ASSUME IsPrefix(DashDash, nl) PROVE FALSE
    OBVIOUS
  <2>1. Len(DashDash) <= Len(nl)
    BY DEF IsPrefix
  <2> QED
    BY <1>1, <1>2, <2>1
<1> QED
  BY <1>3, <1>4 DEF Verdict

(* No white space is skipped before a dash.                                 *)
LEMMA SkipNone ==
    ASSUME stream \in Seq(Symbols), NEW c \in 0 .. Len(stream), NEW k \in 0 .. c, k < c, stream[k + 1] = "-",
           nl \in {CR, LF}
    PROVE  ~IsPrefix(nl, SkipLWSP(View(k, c)))
<1>1. Len(stream) \in Nat /\ c \in Nat /\ k \in Nat /\ k \in k .. c
  BY LenProperties
<1>2. PICK u \in k .. c : Skipped(k, u, c) /\ SkipLWSP(View(k, c)) = View(u, c)
  BY SkipIs
<1>3. Skipped(k, k, c)
  BY <1>1 DEF Skipped, Spaces
<1>4. u = k
  BY <1>1, <1>2, <1>3, SkipUnique
<1>5. IsPrefix(nl, View(k, c)) <=> Stands(nl, k, c)
  BY PrefixIs, SepIs
<1>a. nl[1] # "-"
  BY Words
<1>b. Len(nl) \in Nat /\ Len(nl) >= 1
  BY SepIs
<1>6. nl[1] # "-" /\ 1 \in 1 .. Len(nl)
  BY <1>a, <1>b
<1>7. ~Stands(nl, k, c)
  BY <1>6 DEF Stands
<1> QED
  BY <1>2, <1>4, <1>5, <1>7

(* A boundary in good order is one for Read.                                *)
LEMMA BoundaryLineIs ==
    ASSUME stream \in Seq(Symbols), nl \in {CR, LF}, NEW j \in 0 .. Len(stream), BoundaryLine(From(j))
    PROVE  Boundary(j)
<1> DEFINE v == View(j, Len(stream))
<1>1. Len(stream) \in Nat /\ j \in Nat /\ Len(stream) \in 0 .. Len(stream) /\ From(j) = v
  BY LenProperties DEF From, View
<1>2. Dash \in Seq(Symbols) /\ DashDash \in Seq(Symbols) /\ Len(Dash) = 3 /\ Len(DashDash) = 5
  BY Words
<1>3. After(Dash, v) = View(j + 3, Len(stream)) /\ (IsPrefix(DashDash, v) <=> Stands(DashDash, j, Len(stream)))
  BY <1>1, <1>2, AfterIs, PrefixIs
<1>4. ASSUME IsPrefix(DashDash, v) PROVE ~IsPrefix(nl, SkipLWSP(After(Dash, v)))
  <2>1. Stands(<<"-", "-">>, j + 3, Len(stream)) /\ Stands(DashDash, j, Len(stream))
    BY <1>1, <1>3, <1>4, DashDashStands
  <2>2. j + 5 <= Len(stream)
    BY <1>2, <2>1 DEF Stands
  <2>3. PICK k \in Nat : k = j + 3
    BY <1>1
  <2>4. k \in 0 .. Len(stream) /\ k < Len(stream) /\ stream[k + 1] = "-"
    BY <1>1, <2>1, <2>2, <2>3, TwoStand
  <2>5. ~IsPrefix(nl, SkipLWSP(View(k, Len(stream))))
    BY <1>1, <2>4, SkipNone
  <2> QED
    BY <1>3, <2>3, <2>5
<1> HIDE DEF v
<1>5. IsEmptyPart(v)
  BY <1>1, <1>4 DEF BoundaryLine, IsEmptyPart
<1>6. IsEmptyPart(v) <=> EmptyHere(j, Len(stream))
  BY <1>1, EmptyIs DEF v
<1> QED
  BY <1>5, <1>6 DEF Boundary

(* Where the boundary behind the body begins, and what NextPart is to make  *)
(* of it.                                                                   *)
LineBegin == IF EmptyBody THEN BodyEnd ELSE BodyEnd + Len(nl)
Foretold  == IF Separated /\ ~LastBoundary(LineBegin) THEN "part" ELSE "eof"

(* What BoundaryAccepted and CheckAgrees ask for.                           *)
Orderly == ending = "eof" /\ PaddingFits /\ (Separated \/ BodyEnd = Len(stream))

LEMMA SeparatedIs ==
    ASSUME TypeOK
    PROVE  /\ BodyEnd \in Nat /\ BodyEnd \in start .. Len(stream) /\ BodyEnd \in 0 .. Len(stream)
           /\ Separated => /\ LineBegin \in 0 .. Len(stream) /\ Boundary(LineBegin)
                           /\ EmptyBody => LineBegin = BodyEnd
                           /\ ~EmptyBody => Stands(nl, BodyEnd, Len(stream)) /\ LineBegin = BodyEnd + Len(nl)
<1>1. /\ stream \in Seq(Symbols) /\ nl \in {CR, LF} /\ start \in 0 .. Len(stream) /\ start \in Nat
      /\ Len(stream) \in Nat /\ Len(stream) \in 0 .. Len(stream)
  BY Facts
<1>2. BodyEnd \in start .. Len(stream) /\ (EmptyBody => BodyEnd = start)
  BY <1>1, BodyEndIs
<1>3. BodyEnd \in Nat /\ BodyEnd \in 0 .. Len(stream)
  BY <1>1, <1>2
<1>4. CASE EmptyBody
  <2>1. EmptyHere(start, Len(stream))
    BY <1>1, <1>4, EmptyBodyIs
  <2> QED
    BY <1>2, <1>3, <1>4, <2>1 DEF LineBegin, Boundary
<1>5. CASE ~EmptyBody /\ Separated
  <2>1. IsPrefix(nl, From(BodyEnd)) /\ BoundaryLine(After(nl, From(BodyEnd)))
    BY <1>5 DEF Separated
  <2>2. PICK b \in 0 .. Len(stream) : b = BodyEnd
    BY <1>3
  <2>3. From(b) = View(b, Len(stream)) /\ nl \in Seq(Symbols) /\ Len(nl) \in Nat
    BY <1>1, SepIs DEF From, View
  <2>4. Stands(nl, b, Len(stream))
    BY <1>1, <2>1, <2>2, <2>3, PrefixIs
  <2>5. PICK k : k = b + Len(nl)
    OBVIOUS
  <2>6. k \in 0 .. Len(stream)
    BY <1>1, <2>3, <2>4, <2>5 DEF Stands
  <2>7. After(nl, From(b)) = From(k)
    <3>1. After(nl, View(b, Len(stream))) = View(b + Len(nl), Len(stream))
      BY <1>1, <2>3, AfterIs
    <3> QED
      BY <2>3, <2>5, <3>1 DEF From, View
  <2>8. Boundary(k)
    BY <1>1, <2>1, <2>2, <2>6, <2>7, BoundaryLineIs
  <2> QED
    BY <1>2, <1>3, <1>5, <2>2, <2>4, <2>5, <2>6, <2>8 DEF LineBegin
<1> QED
  BY <1>2, <1>3, <1>4, <1>5

LEMMA OrderlyStays ==
    ASSUME UNCHANGED <<stream, nl, start, ending>>
    PROVE  /\ BodyEnd' = BodyEnd /\ (Orderly' <=> Orderly) /\ Foretold' = Foretold /\ LineBegin' = LineBegin
           /\ (Separated' <=> Separated) /\ (EmptyBody' <=> EmptyBody)
<1>1. BodyEnd' = BodyEnd /\ (PaddingFits' <=> PaddingFits)
  BY EndStays
<1>2. EmptyBody' = EmptyBody
  BY DEF EmptyBody, From, IsEmptyPart
<1>3. \A j : From(j)' = From(j)
  BY DEF From
<1>4. \A s : BoundaryLine(s)' = BoundaryLine(s)
  BY DEF BoundaryLine
<1>5. Separated' = Separated
  BY <1>1, <1>2, <1>3, <1>4 DEF Separated, From, BoundaryLine
<1>6. LineBegin' = LineBegin
  BY <1>1, <1>2 DEF LineBegin
<1>7. \A j : LastBoundary(j)' = LastBoundary(j)
  BY DEF LastBoundary, Stands
<1>8. LastBoundary(LineBegin)' = LastBoundary(LineBegin)
  BY <1>6 DEF LastBoundary, Stands
<1>9. Foretold' = Foretold
  BY <1>5, <1>8 DEF Foretold
<1>10. Orderly' = Orderly
  BY <1>1, <1>5 DEF Orderly
<1> QED
  BY <1>1, <1>2, <1>5, <1>6, <1>9, <1>10

-----------------------------------------------------------------------------
(* What is to be read behind the body: a blank line, unless the body is     *)
(* empty, and the line of the boundary.                                     *)
LEMMA BlankAhead ==
    ASSUME TypeOK, Separated, ~EmptyBody
    PROVE  /\ LineEnds(BodyEnd, LineBegin) /\ View(BodyEnd, LineBegin) = nl
           /\ LineBegin \in Nat /\ BodyEnd < LineBegin /\ LineBegin <= BodyEnd + 2
<1>1. stream \in Seq(Symbols) /\ nl \in {CR, LF} /\ Len(stream) \in Nat
  BY Facts
<1>2. /\ BodyEnd \in Nat /\ BodyEnd \in 0 .. Len(stream) /\ LineBegin \in 0 .. Len(stream)
      /\ Stands(nl, BodyEnd, Len(stream)) /\ LineBegin = BodyEnd + Len(nl)
  BY SeparatedIs
<1>3. Len(nl) \in Nat /\ Len(nl) >= 1 /\ Len(nl) <= 2
  BY <1>1, SepIs
<1>4. PICK b \in Nat : b = BodyEnd
  BY <1>2
<1>5. PICK c \in Nat : c = LineBegin
  BY <1>2
<1>6. b < c /\ c <= b + 2 /\ c <= Len(stream) /\ c = b + Len(nl)
  BY <1>2, <1>3, <1>4, <1>5
<1>7. LineEnds(b, c)
  <2>1. CASE nl = LF
    <3>1. Len(nl) = 1 /\ stream[b + 1] = "lf"
      BY <1>2, <1>4, <2>1, Words DEF Stands
    <3>2. c = b + 1 /\ c - 1 = b
      BY <1>6, <3>1
    <3> QED
      BY <1>6, <3>1, <3>2 DEF LineEnds, NoLF
  <2>2. CASE nl = CR
    <3>1. Len(nl) = 2 /\ stream[b + 1] = "cr" /\ stream[b + 2] = "lf"
      BY <1>2, <1>4, <2>2, Words DEF Stands
    <3>2. c = b + 2 /\ c - 1 = b + 1
      BY <1>6, <3>1
    <3> QED
      BY <1>6, <3>1, <3>2 DEF LineEnds, NoLF
  <2> QED
    BY <1>1, <2>1, <2>2
<1>8. View(b, c) = nl
  <2>1. c \in 0 .. Len(stream) /\ b \in 0 .. c
    BY <1>6
  <2>2. Stands(nl, b, c)
    BY <1>2, <1>4, <1>6 DEF Stands
  <2> QED
    BY <1>1, <1>6, <2>1, <2>2, ViewNl
<1> QED
  BY <1>4, <1>5, <1>6, <1>7, <1>8

(* The line of the boundary ends with byte c.                               *)
BoundaryLineEnds(c) ==
    /\ LineEnds(LineBegin, c) /\ c <= LineBegin + PeekSize
    /\ Foretold = "part" => c <= LineBegin + PeekSize - 2
    /\ \A ex : Verdict(View(LineBegin, c), ex) = Foretold

LEMMA BoundaryAhead ==
    ASSUME TypeOK, PaddingFits, Separated
    PROVE  /\ LineBegin \in 0 .. Len(stream) /\ LineBegin \in Nat
           /\ \/ Foretold = "eof" /\ NoLF(LineBegin, Len(stream)) /\ Len(stream) < LineBegin + PeekSize
              \/ \E c \in Nat : BoundaryLineEnds(c)
<1>1. stream \in Seq(Symbols) /\ nl \in {CR, LF} /\ Len(stream) \in Nat
  BY Facts
<1>2. LineBegin \in 0 .. Len(stream) /\ Boundary(LineBegin)
  BY SeparatedIs
<1>3. PICK j \in 0 .. Len(stream) : j = LineBegin /\ Boundary(j)
  BY <1>2
<1>4. Foretold = IF LastBoundary(j) THEN "eof" ELSE "part"
  BY <1>3 DEF Foretold
<1>5. CASE LastBoundary(j) /\ NoLF(j, Len(stream)) /\ Len(stream) < j + PeekSize
  BY <1>1, <1>3, <1>4, <1>5
<1>6. ASSUME NEW c \in Nat, LineEnds(j, c), c <= j + PeekSize, ~LastBoundary(j) => c <= j + PeekSize - 2
      PROVE  BoundaryLineEnds(c)
  <2>1. \A ex : Verdict(View(j, c), ex) = IF LastBoundary(j) THEN "eof" ELSE "part"
    BY <1>1, <1>3, <1>6, BoundaryJudged
  <2>2. Foretold = "part" => ~LastBoundary(j)
    BY <1>4
  <2> QED
    BY <1>3, <1>4, <1>6, <2>1, <2>2 DEF BoundaryLineEnds
<1>7. \/ LastBoundary(j) /\ NoLF(j, Len(stream)) /\ Len(stream) < j + PeekSize
      \/ \E c \in Nat : LineEnds(j, c) /\ c <= j + PeekSize /\ (~LastBoundary(j) => c <= j + PeekSize - 2)
  BY <1>1, <1>3, BoundaryEnds
<1>8. j \in Nat
  BY <1>1
<1> QED
  BY <1>3, <1>5, <1>6, <1>7, <1>8

(* The next line, if it ends with byte c.                                   *)
LEMMA LineIs ==
    ASSUME TypeOK, NEW c \in Nat, LineEnds(at, c)
    PROVE  FirstLF = c - at /\ SubSeq(Rest, 1, FirstLF) = View(at, c) /\ at + FirstLF = c /\ at < c
<1>1. stream \in Seq(Symbols) /\ at \in 0 .. Len(stream) /\ at \in Nat /\ Len(stream) \in Nat /\ Len(stream) \in 0 .. Len(stream)
  BY Facts
<1>2. FirstLF = c - at
  BY FirstLFOf
<1>3. at < c /\ c <= Len(stream)
  BY DEF LineEnds
<1>4. Rest = View(at, Len(stream)) /\ Len(Rest) = Len(stream) - at
  BY <1>1, WindowIs
<1>5. 0 \in Nat /\ c - at \in 0 .. Len(View(at, Len(stream))) /\ 0 + 1 = 1 /\ at + 0 = at /\ at + (c - at) = c
  BY <1>1, <1>3, <1>4
<1>6. SubSeq(View(at, Len(stream)), 0 + 1, c - at) = View(at + 0, at + (c - at))
  BY <1>1, <1>5, ViewOfView
<1> QED
  BY <1>2, <1>3, <1>4, <1>5, <1>6

(* Where NextPart is when it reads the lines behind a body.                 *)
BetweenLines ==
    \/ at = BodyEnd /\ ~expect
    \/ Separated /\ ~EmptyBody /\ at = LineBegin /\ expect

(* NextPart goes over the blank line, or finds what is foretold.            *)
OverBlank   == /\ pc' = "lines" /\ at' = LineBegin /\ expect' /\ Separated /\ ~EmptyBody
               /\ UNCHANGED <<part, ended, checked>>
FoundPart   == /\ Foretold = "part" /\ at = LineBegin /\ pc' = "header" /\ partsRead' = partsRead + 1
               /\ UNCHANGED <<part, ended, checked>>
FoundNoMore == /\ Foretold = "eof" /\ pc' = "eof" /\ ret' = "eof" /\ ~part'.open /\ ~ended'
               /\ partsRead' = partsRead

LEMMA Behind ==
    ASSUME TypeOK, Orderly, BetweenLines
    PROVE  \/ at = Len(stream) /\ ~Separated
           \/ Separated /\ at = LineBegin
           \/ Separated /\ ~EmptyBody /\ at = BodyEnd /\ ~expect
<1>1. Separated \/ BodyEnd = Len(stream)
  BY DEF Orderly
<1>2. Separated /\ EmptyBody => LineBegin = BodyEnd
  BY SeparatedIs
<1> QED
  BY <1>1, <1>2 DEF BetweenLines

LEMMA LineStep ==
    ASSUME TypeOK, CountInv, part.open, Orderly, BetweenLines, NextLine
    PROVE  OverBlank \/ FoundPart \/ FoundNoMore
<1> DEFINE from == [nl |-> nl, expect |-> expect, verdict |-> "none"]
           line == SubSeq(Rest, 1, FirstLF)
           st == Judge(from, line)
<1>1. at \in Nat /\ Len(stream) \in Nat /\ at \in 0 .. Len(stream) /\ PaddingFits
  BY Facts DEF Orderly
<1>2. partsRead \in Nat /\ partsRead > 0
  BY TypeParts DEF FlagsOK, CountInv
<1>3. /\ st.verdict = Verdict(line, expect) /\ (st.expect <=> Verdict(line, expect) = "none")
  <2>1. from.nl = nl /\ from.expect = expect
    OBVIOUS
  <2> HIDE DEF from, line
  <2>2. st = [nl |-> nl, verdict |-> Verdict(line, from.expect), expect |-> Verdict(line, from.expect) = "none"]
    BY <1>2, <2>1, JudgeOf
  <2> HIDE DEF st
  <2>3. st.verdict = Verdict(line, from.expect) /\ st.expect = (Verdict(line, from.expect) = "none")
    BY <2>2
  <2> QED
    BY <2>1, <2>3
<1>4. /\ at' = at + FirstLF /\ FirstLF \in 1 .. PeekSize /\ pc = "lines" /\ expect' = st.expect
      /\ CASE st.verdict = "none" -> UNCHANGED <<pc, ret, partsRead, part, ended, checked>>
           [] st.verdict = "part" -> /\ pc' = "header" /\ partsRead' = partsRead + 1
                                     /\ UNCHANGED <<ret, part, ended, checked>>
           [] OTHER -> Returns(st.verdict) /\ Closed /\ UNCHANGED partsRead
  BY Zenon DEF NextLine, Advance
<1> HIDE DEF st
<1>5. ASSUME st.verdict = Foretold, at = LineBegin PROVE FoundPart \/ FoundNoMore
  <2>1. Foretold \in {"part", "eof"}
    BY DEF Foretold
  <2>2. CASE Foretold = "part"
    BY <1>4, <1>5, <2>2 DEF FoundPart
  <2>3. CASE Foretold = "eof"
    <3>1. Returns("eof") /\ Closed /\ UNCHANGED partsRead
      BY <1>4, <1>5, <2>3
    <3>2. part'.open = FALSE
      BY <3>1, ClosedPart
    <3> QED
      BY <2>3, <3>1, <3>2 DEF Returns, FoundNoMore
  <2> QED
    BY <2>1, <2>2, <2>3
<1>6. \A c \in Nat : LineEnds(at, c) => line = View(at, c) /\ at + FirstLF = c
  BY LineIs
<1>7. \E c \in Nat : LineEnds(at, c)
  <2>1. FirstLF \in Nat /\ FirstLF # 0
    BY <1>4
  <2>2. LineEnds(at, at + FirstLF)
    BY <2>1, NextLF
  <2> QED
    BY <1>1, <2>1, <2>2
<1> HIDE DEF line
<1>8. CASE at = Len(stream)
  BY <1>1, <1>7, <1>8 DEF LineEnds
<1>9. CASE Separated /\ at = LineBegin
  <2>1. ~NoLF(at, Len(stream))
    BY <1>1, <1>7 DEF LineEnds, NoLF
  <2>2. PICK c \in Nat : BoundaryLineEnds(c)
    BY <1>1, <1>9, <2>1, BoundaryAhead
  <2>3. LineEnds(at, c) /\ Verdict(View(at, c), expect) = Foretold
    BY <1>9, <2>2 DEF BoundaryLineEnds
  <2> QED
    BY <1>3, <1>5, <1>6, <1>9, <2>3
<1>10. CASE Separated /\ ~EmptyBody /\ at = BodyEnd /\ ~expect
  <2>1. LineEnds(at, LineBegin) /\ View(at, LineBegin) = nl /\ LineBegin \in Nat
    BY <1>10, BlankAhead
  <2>2. line = nl /\ at + FirstLF = LineBegin
    BY <1>6, <2>1
  <2>3. nl \in {CR, LF} /\ expect = FALSE
    BY <1>10, Facts, TypeParts DEF FlagsOK
  <2>4. Verdict(line, expect) = "none"
    BY <2>2, <2>3, BlankJudged
  <2> QED
    BY <1>3, <1>4, <1>10, <2>2, <2>4 DEF OverBlank
<1> QED
  BY <1>8, <1>9, <1>10, Behind

LEMMA NoLineStep ==
    ASSUME TypeOK, part.open, Orderly, BetweenLines, NoLine
    PROVE  FoundNoMore
<1>1. at \in Nat /\ Len(stream) \in Nat /\ at \in 0 .. Len(stream) /\ PaddingFits /\ PeekSize \in Nat /\ PeekSize >= 7
      /\ Len(Rest) = Len(stream) - at /\ at <= Len(stream)
  BY Facts, WindowIs DEF Orderly
<1>2. FirstLF \notin 1 .. PeekSize
  BY DEF NoLine
<1>3. \A c \in Nat : LineEnds(at, c) => c > at + PeekSize
  <2> SUFFICES ASSUME NEW c \in Nat, LineEnds(at, c) PROVE c > at + PeekSize
    OBVIOUS
  <2>1. FirstLF = c - at /\ at < c
    BY LineIs
  <2> QED
    BY <1>1, <1>2, <2>1
<1>4. Foretold = "eof" /\ Len(stream) < at + PeekSize
  <2>1. CASE at = Len(stream) /\ ~Separated
    BY <1>1, <2>1 DEF Foretold
  <2>2. CASE Separated /\ at = LineBegin
    <3>1. ~(\E c \in Nat : BoundaryLineEnds(c))
      BY <1>1, <1>3, <2>2 DEF BoundaryLineEnds
    <3> QED
      BY <1>1, <2>2, <3>1, BoundaryAhead
  <2>3. CASE Separated /\ ~EmptyBody /\ at = BodyEnd
    <3>1. LineEnds(at, LineBegin) /\ LineBegin \in Nat /\ LineBegin <= at + 2
      BY <2>3, BlankAhead
    <3> QED
      BY <1>1, <1>3, <3>1
  <2> QED
    BY <2>1, <2>2, <2>3, Behind
<1>5. Len(Rest) < PeekSize /\ ending = "eof"
  BY <1>1, <1>4 DEF Orderly
<1>6. Closed /\ Returns("eof") /\ UNCHANGED partsRead
  BY <1>1, <1>5 DEF NoLine
<1>7. part'.open = FALSE
  BY <1>6, ClosedPart
<1> QED
  BY <1>4, <1>6, <1>7 DEF Returns, FoundNoMore

-----------------------------------------------------------------------------
(* What CheckNextPart finds, where the body ends.                           *)

(* Nothing is made of bytes that end no line, or when the verdict is given. *)
LEMMA Quiet ==
    ASSUME NEW t, Trace(t), buffered \in Nat, NEW a \in 0 .. buffered, NEW b \in a .. buffered,
           t[a].verdict # "none" \/ \A j \in a + 1 .. b : Rest[j] # "lf"
    PROVE  t[b] = t[a]
<1>1. a \in Nat /\ b \in Nat /\ a <= b /\ b <= buffered
  OBVIOUS
<1>2. \A j \in a + 1 .. b : t[j - 1] = t[a] => t[j] = t[a]
  <2> SUFFICES ASSUME NEW j \in a + 1 .. b, t[j - 1] = t[a] PROVE t[j] = t[a]
    OBVIOUS
  <2>1. j \in 1 .. buffered
    BY <1>1
  <2>2. t[j] = Onward(j, t[a])
    BY <2>1 DEF Trace
  <2>3. ~(Rest[j] = "lf" /\ t[a].verdict = "none")
    OBVIOUS
  <2> QED
    BY <2>2, <2>3 DEF Onward
<1> DEFINE T == { n \in 0 .. b - a : t[a + n] = t[a] }
<1>3. b - a \in Nat /\ 0 \in T
  BY <1>1
<1>4. ASSUME NEW n \in 0 .. (b - a) - 1, n \in T PROVE n + 1 \in T
  <2>1. a + n + 1 \in a + 1 .. b /\ (a + n + 1) - 1 = a + n /\ n + 1 \in 0 .. b - a /\ a + (n + 1) = a + n + 1
    BY <1>1
  <2>2. t[a + n] = t[a]
    BY <1>4
  <2>3. t[a + n + 1] = t[a]
    BY <1>2, <2>1, <2>2
  <2> QED
    BY <2>1, <2>3
<1> HIDE DEF T
<1>5. 0 .. b - a \subseteq T
  BY <1>3, <1>4, SetInductionUpTo
<1>6. b - a \in T
  BY <1>3, <1>5
<1>7. a + (b - a) = b
  BY <1>1
<1> QED
  BY <1>6, <1>7 DEF T

(* The rest, said of the stream.                                            *)
LEMMA RestIs ==
    ASSUME TypeOK
    PROVE  \A j \in 1 .. buffered : Rest[j] = stream[at + j] /\ j \in 1 .. Len(Rest)
<1>1. /\ stream \in Seq(Symbols) /\ at \in 0 .. Len(stream) /\ at \in Nat /\ Len(stream) \in Nat
      /\ buffered \in Nat /\ at + buffered <= Len(stream) /\ Len(stream) \in 0 .. Len(stream)
  BY Facts
<1>2. Rest = View(at, Len(stream)) /\ Len(Rest) = Len(stream) - at
  BY <1>1, WindowIs
<1>3. \A i \in 1 .. Len(Rest) : Rest[i] = stream[at + i]
  BY <1>1, <1>2, ViewIs
<1>4. \A j \in 1 .. buffered : j \in 1 .. Len(Rest)
  BY <1>1, <1>2
<1> QED
  BY <1>3, <1>4

(* A line of the buffer, from behind byte k of the rest.                    *)
LEMMA LineToIs ==
    ASSUME TypeOK, NEW k \in Nat, k = 0 \/ Rest[k] = "lf", NEW c \in Nat, LineEnds(at + k, c), c <= at + buffered
    PROVE  c - at \in 1 .. buffered /\ k < c - at /\ LineTo(c - at) = View(at + k, c)
<1>1. /\ stream \in Seq(Symbols) /\ at \in 0 .. Len(stream) /\ at \in Nat /\ Len(stream) \in Nat
      /\ buffered \in Nat /\ at + buffered <= Len(stream) /\ Len(stream) \in 0 .. Len(stream)
  BY Facts
<1>2. at + k < c /\ c <= Len(stream) /\ NoLF(at + k, c - 1)
  BY DEF LineEnds
<1>3. PICK j \in Nat : j = c - at /\ at + j = c
  BY <1>1, <1>2
<1>4. j \in 1 .. buffered /\ k < j
  BY <1>1, <1>2, <1>3
<1> DEFINE I == { l \in 1 .. j - 1 : Rest[l] = "lf" }
<1>5. \A l \in k + 1 .. j - 1 : Rest[l] # "lf"
  <2> SUFFICES ASSUME NEW l \in k + 1 .. j - 1 PROVE Rest[l] # "lf"
    OBVIOUS
  <2>1. l \in 1 .. buffered /\ at + l \in at + k + 1 .. c - 1
    BY <1>1, <1>3, <1>4
  <2>2. stream[at + l] # "lf"
    BY <1>2, <2>1 DEF NoLF
  <2> QED
    BY <2>1, <2>2, RestIs
<1>6. k \in {0} \union I /\ \A x \in {0} \union I : k >= x
  <2>1. k = 0 \/ k \in I
    BY <1>4
  <2>2. \A x \in I : k >= x
    BY <1>4, <1>5
  <2> QED
    BY <2>1, <2>2
<1>7. Max({0} \union I) = k
  <2> DEFINE U == {0} \union I
  <2>1. U \subseteq Nat /\ k \in U /\ \A x \in U : k >= x
    BY <1>4, <1>6
  <2> HIDE DEF U
  <2>2. Max(U) \in U /\ \A y \in U : Max(U) >= y
    BY <2>1, Zenon DEF Max
  <2>3. PICK m \in U : m = Max(U) /\ \A y \in U : m >= y
    BY <2>2
  <2>4. m = k
    BY <2>1, <2>3
  <2> QED
    BY <2>3, <2>4 DEF U
<1>8. LineTo(j) = SubSeq(Rest, 1 + k, j)
  BY <1>7 DEF LineTo
<1>9. Rest = View(at, Len(stream)) /\ Len(Rest) = Len(stream) - at
  BY <1>1, WindowIs
<1>10. 1 + k = k + 1 /\ j \in 0 .. Len(View(at, Len(stream)))
  BY <1>1, <1>4, <1>9
<1>11. SubSeq(View(at, Len(stream)), k + 1, j) = View(at + k, at + j)
  BY <1>1, <1>10, ViewOfView
<1> QED
  BY <1>3, <1>4, <1>8, <1>9, <1>10, <1>11

(* A line of the buffer, judged.                                            *)
LEMMA LineJudged ==
    ASSUME TypeOK, partsRead > 0, NEW t, Trace(t), NEW k \in 0 .. buffered, k = 0 \/ Rest[k] = "lf",
           t[k].verdict = "none", t[k].nl = nl, NEW c \in Nat, LineEnds(at + k, c), c <= at + buffered
    PROVE  /\ c - at \in 1 .. buffered
           /\ t[c - at].verdict = Verdict(View(at + k, c), t[k].expect) /\ t[c - at].nl = nl
<1>1. /\ at \in Nat /\ Len(stream) \in Nat /\ buffered \in Nat /\ k \in Nat /\ partsRead \in Nat
  BY Facts, TypeParts DEF FlagsOK
<1>2. c - at \in 1 .. buffered /\ k < c - at /\ LineTo(c - at) = View(at + k, c)
  BY <1>1, LineToIs
<1>3. PICK j \in 1 .. buffered : j = c - at /\ at + j = c /\ k < j
  BY <1>1, <1>2
<1>4. NoLF(at + k, c - 1) /\ stream[c] = "lf"
  BY DEF LineEnds
<1>5. t[j - 1] = t[k]
  <2>1. j - 1 \in k .. buffered
    BY <1>1, <1>3
  <2>2. \A i \in k + 1 .. j - 1 : Rest[i] # "lf"
    <3> SUFFICES ASSUME NEW i \in k + 1 .. j - 1 PROVE Rest[i] # "lf"
      OBVIOUS
    <3>1. i \in 1 .. buffered /\ at + i \in at + k + 1 .. c - 1
      BY <1>1, <1>3
    <3>2. stream[at + i] # "lf"
      BY <1>4, <3>1 DEF NoLF
    <3> QED
      BY <3>1, <3>2, RestIs
  <2> QED
    BY <1>1, <2>1, <2>2, Quiet
<1>6. Rest[j] = "lf"
  BY <1>3, <1>4, RestIs
<1>7. t[j] = Judge(t[k], LineTo(j))
  <2>1. t[j] = Onward(j, t[k])
    BY <1>3, <1>5 DEF Trace
  <2> QED
    BY <1>6, <2>1 DEF Onward
<1>8. Judge(t[k], LineTo(j)) = [nl |-> nl, verdict |-> Verdict(LineTo(j), t[k].expect),
                                expect |-> Verdict(LineTo(j), t[k].expect) = "none"]
  BY <1>1, JudgeOf
<1>9. t[j].verdict = Verdict(LineTo(j), t[k].expect) /\ t[j].nl = nl
  BY <1>7, <1>8
<1> QED
  BY <1>2, <1>3, <1>9

(* The line of the boundary lies behind byte k of what is buffered, and     *)
(* nothing before it has given a verdict.                                   *)
LEMMA BoundarySeen ==
    ASSUME TypeOK, CountInv, partsRead > 0, PaddingFits, Separated, NEW t, Trace(t), NEW k \in 0 .. buffered,
           k = 0 \/ Rest[k] = "lf", t[k].verdict = "none", t[k].nl = nl, at + k = LineBegin, k <= 2,
           at + buffered = PeekEnd
    PROVE  (IF t[buffered].verdict = "none" THEN "eof" ELSE t[buffered].verdict) = Foretold
<1>1. /\ at \in Nat /\ Len(stream) \in Nat /\ buffered \in Nat /\ k \in Nat /\ PeekSize \in Nat
      /\ at + buffered <= Len(stream) /\ k \in 0 .. buffered /\ buffered \in k .. buffered
  BY Facts
<1>2. Foretold \in {"part", "eof"}
  BY DEF Foretold
<1>3. ASSUME NoLF(at + k, at + buffered) PROVE t[buffered] = t[k]
  <2>1. \A i \in k + 1 .. buffered : Rest[i] # "lf"
    <3> SUFFICES ASSUME NEW i \in k + 1 .. buffered PROVE Rest[i] # "lf"
      OBVIOUS
    <3>1. i \in 1 .. buffered /\ at + i \in at + k + 1 .. at + buffered
      BY <1>1
    <3>2. stream[at + i] # "lf"
      BY <1>3, <3>1 DEF NoLF
    <3> QED
      BY <3>1, <3>2, RestIs
  <2> QED
    BY <1>1, <2>1, Quiet
<1>4. CASE Foretold = "eof" /\ NoLF(LineBegin, Len(stream))
  <2>1. NoLF(at + k, at + buffered)
    BY <1>1, <1>4 DEF NoLF
  <2> QED
    BY <1>3, <1>4, <2>1
<1>5. ASSUME NEW c \in Nat, BoundaryLineEnds(c)
      PROVE  (IF t[buffered].verdict = "none" THEN "eof" ELSE t[buffered].verdict) = Foretold
  <2>1. /\ LineEnds(at + k, c) /\ (Foretold = "part" => c <= (at + k) + PeekSize - 2)
        /\ \A ex : Verdict(View(at + k, c), ex) = Foretold
    BY <1>5 DEF BoundaryLineEnds
  <2>2. c <= Len(stream) /\ NoLF(at + k, c - 1)
    BY <2>1 DEF LineEnds
  <2>3. CASE c <= at + buffered
    <3>1. c - at \in 1 .. buffered /\ t[c - at].verdict = Foretold
      BY <2>1, <2>3, LineJudged
    <3>2. PICK j \in 0 .. buffered : j = c - at /\ buffered \in j .. buffered
      BY <1>1, <3>1
    <3>3. t[j].verdict # "none"
      BY <1>2, <3>1, <3>2
    <3>4. t[buffered] = t[j]
      BY <1>1, <3>2, <3>3, Quiet
    <3> QED
      BY <1>2, <3>1, <3>2, <3>4
  <2>4. CASE ~(c <= at + buffered)
    <3>1. at + buffered <= c - 1
      BY <1>1, <2>4
    <3>2. NoLF(at + k, at + buffered)
      BY <1>1, <2>2, <3>1 DEF NoLF
    <3>3. Foretold # "part"
      <4>1. at + buffered = at + PeekSize
        BY <1>1, <2>2, <2>4 DEF PeekEnd
      <4> QED
        BY <1>1, <2>1, <2>4, <4>1
    <3> QED
      BY <1>2, <1>3, <3>2, <3>3
  <2> QED
    BY <2>3, <2>4
<1> QED
  BY <1>4, <1>5, BoundaryAhead

(* At the end of the body, with the peek buffer filled, CheckNextPart tells *)
(* what the next part is.                                                   *)
LEMMA Told ==
    ASSUME TypeOK, CountInv, pc = "idle", part.open, Orderly, at = BodyEnd, at + buffered = PeekEnd
    PROVE  (IF Judged.verdict = "none" THEN "eof" ELSE Judged.verdict) = Foretold
<1>1. /\ at \in Nat /\ Len(stream) \in Nat /\ buffered \in Nat /\ PeekSize \in Nat /\ PeekSize >= 7
      /\ at + buffered <= Len(stream)
  BY Facts
<1>2. partsRead > 0
  BY DEF CountInv
<1>3. PICK t : Trace(t) /\ Judged = t[buffered]
  BY JudgedTrace
<1>4. t[0].verdict = "none" /\ t[0].nl = nl /\ t[0].expect = FALSE
  BY <1>3 DEF Trace
<1>5. PaddingFits /\ (Separated \/ at = Len(stream))
  BY DEF Orderly
<1>6. CASE ~Separated
  <2>1. buffered = 0
    BY <1>1, <1>5, <1>6
  <2> QED
    BY <1>3, <1>4, <1>6, <2>1 DEF Foretold
<1>7. CASE Separated /\ EmptyBody
  <2>1. at + 0 = LineBegin /\ 0 \in 0 .. buffered /\ 0 <= 2
    BY <1>1, <1>7, SeparatedIs
  <2>2. (IF t[buffered].verdict = "none" THEN "eof" ELSE t[buffered].verdict) = Foretold
    BY <1>2, <1>3, <1>4, <1>5, <1>7, <2>1, BoundarySeen
  <2> QED
    BY <1>3, <2>2
<1>8. CASE Separated /\ ~EmptyBody
  <2>1. LineEnds(at, LineBegin) /\ View(at, LineBegin) = nl /\ LineBegin \in Nat /\ at < LineBegin /\ LineBegin <= at + 2
    BY <1>8, BlankAhead
  <2>2. PICK c \in Nat : c = LineBegin
    BY <2>1
  <2>3. c <= at + buffered
    <3>1. c <= Len(stream)
      BY <2>1, <2>2 DEF LineEnds
    <3> QED
      BY <1>1, <2>1, <2>2, <3>1 DEF PeekEnd
  <2>4. at + 0 = at /\ 0 \in 0 .. buffered
    BY <1>1
  <2>5. c - at \in 1 .. buffered /\ t[c - at].verdict = Verdict(View(at + 0, c), t[0].expect) /\ t[c - at].nl = nl
    BY <1>2, <1>3, <1>4, <2>1, <2>2, <2>3, <2>4, LineJudged
  <2>6. t[c - at].verdict = "none"
    BY <1>4, <2>1, <2>2, <2>4, <2>5, BlankJudged, Facts
  <2>7. PICK k \in 0 .. buffered : k = c - at /\ at + k = c /\ k \in 1 .. buffered /\ k <= 2
    BY <1>1, <2>1, <2>2, <2>5
  <2>8. Rest[k] = "lf"
    <3>1. stream[c] = "lf"
      BY <2>1, <2>2 DEF LineEnds
    <3> QED
      BY <2>7, <3>1, RestIs
  <2>9. t[k].verdict = "none" /\ t[k].nl = nl /\ at + k = LineBegin
    BY <2>2, <2>5, <2>6, <2>7
  <2>10. (IF t[buffered].verdict = "none" THEN "eof" ELSE t[buffered].verdict) = Foretold
    BY <1>2, <1>3, <1>5, <1>8, <2>7, <2>8, <2>9, BoundarySeen
  <2> QED
    BY <1>3, <2>10
<1> QED
  BY <1>6, <1>7, <1>8

(* Nor is that buffer full of bytes without a line end: the boundary's      *)
(* line, or the blank one before it, ends in it, or it is not full.         *)
LEMMA LinesBuffered ==
    ASSUME TypeOK, CountInv, part.open, Orderly, at = BodyEnd, at + buffered = PeekEnd
    PROVE  OutOfLines = "eof"
<1>1. /\ at \in Nat /\ Len(stream) \in Nat /\ buffered \in Nat /\ PeekSize \in Nat /\ PeekSize >= 7
      /\ at + buffered <= Len(stream) /\ stream \in Seq(Symbols) /\ nl \in {CR, LF}
  BY Facts
<1>2. PaddingFits /\ (Separated \/ at = Len(stream))
  BY DEF Orderly
<1>3. SUFFICES ASSUME buffered = PeekSize PROVE FirstLF \in 1 .. buffered
  BY DEF OutOfLines
<1>4. ASSUME NEW c \in Nat, LineEnds(at, c), c <= at + PeekSize PROVE FirstLF \in 1 .. buffered
  <2>1. FirstLF = c - at
    BY <1>4, FirstLFOf
  <2>2. at < c
    BY <1>4 DEF LineEnds
  <2> QED
    BY <1>1, <1>3, <1>4, <2>1, <2>2
<1>5. Separated
  BY <1>1, <1>2, <1>3
<1>6. CASE EmptyBody
  <2>1. PICK j \in 0 .. Len(stream) : j = at /\ Boundary(j)
    BY <1>5, <1>6, SeparatedIs
  <2>2. \/ Len(stream) < j + PeekSize
        \/ \E c \in Nat : LineEnds(j, c) /\ c <= j + PeekSize
    BY <1>1, <1>2, <2>1, BoundaryEnds
  <2>3. ~(Len(stream) < j + PeekSize)
    BY <1>1, <1>3, <2>1
  <2> QED
    BY <1>4, <2>1, <2>2, <2>3
<1>7. CASE ~EmptyBody
  <2>1. LineEnds(at, LineBegin) /\ LineBegin \in Nat /\ LineBegin <= at + 2
    BY <1>5, <1>7, BlankAhead
  <2>2. PICK c \in Nat : c = LineBegin
    BY <2>1
  <2>3. c <= at + PeekSize
    BY <1>1, <2>1, <2>2
  <2> QED
    BY <1>4, <2>1, <2>2, <2>3
<1> QED
  BY <1>6, <1>7

-----------------------------------------------------------------------------
(* What holds between a part and the next one, if the body of the part ends *)
(* in good order.                                                           *)
ClosingInv == pc = "closing" => ~expect /\ at <= BodyEnd /\ (part.fresh <=> at = start) /\ (at = start => part.buffer = <<>>)
LinesInv   == (pc = "lines" => BetweenLines) /\ (pc = "header" => Foretold = "part")
FilledInv  == pc = "idle" /\ ended => at + buffered = PeekEnd
ToldInv    == ended /\ checked # "none" => checked = Foretold

BetweenInv == part.open /\ Orderly => ClosingInv /\ LinesInv /\ FilledInv /\ ToldInv

(* io.EOF is remembered of the part that can be read, and of no other.      *)
EndedInv == ended => part.open

NInv == IInv /\ BetweenInv /\ EndedInv

(* The part's end has been reached: nothing more is taken from bufReader.   *)
LEMMA AtTheEnd ==
    ASSUME IInv, part.open, pc = "idle", PaddingFits, ended
    PROVE  at = BodyEnd
<1>1. /\ at \in Nat /\ start \in Nat /\ start <= at /\ delivered \in Seq(1 .. at) /\ part.buffer \in Seq(1 .. at)
      /\ BodyEnd \in Nat
  BY Facts, TypeParts, SeparatedIs DEF IInv, PlacesOK, PartType
<1>2. delivered \o part.buffer = Taken(start, at) /\ at <= BodyEnd /\ start + Len(delivered) = BodyEnd
  BY DEF IInv, TakenInv, EndInv
<1>3. Len(delivered) + Len(part.buffer) = at - start
  <2>1. Len(delivered \o part.buffer) = Len(delivered) + Len(part.buffer)
    BY <1>1, ConcatProperties
  <2>2. Len(Taken(start, at)) = at - start
    BY <1>1, TakenIs
  <2> QED
    BY <1>2, <2>1, <2>2
<1>4. Len(delivered) \in Nat /\ Len(part.buffer) \in Nat
  BY <1>1, LenProperties
<1>5. PICK d \in Nat : d = Len(delivered)
  BY <1>4
<1>6. PICK p \in Nat : p = Len(part.buffer)
  BY <1>4
<1>7. d + p = at - start /\ start + d = BodyEnd
  BY <1>2, <1>3, <1>5, <1>6
<1> QED
  BY <1>1, <1>2, <1>7

LEMMA ReadBetween ==
    ASSUME NInv, IInv', NEW k \in Sizes, Read(k)
    PROVE  BetweenInv' /\ EndedInv'
<1>1. TypeOK /\ TakenInv /\ pc = "idle" /\ part.open /\ UNCHANGED <<stream, ending, nl, pc, start>> /\ checked' = "none"
  BY DEF Read, NInv, IInv
<1>2. PICK r : ReadBy(r)
  BY <1>1, ReadIs
<1>a. ReadOK(r) /\ Took(r)
  BY <1>2 DEF ReadBy
<1>b. buffered' = r.buffered
  BY <1>a DEF Took
<1>3. /\ at' = r.at /\ at <= at' /\ at' \in Nat /\ buffered' = r.buffered
      /\ part'.open = part.open
  BY <1>1, <1>a, <1>b, TookIs
<1>4. BodyEnd' = BodyEnd /\ (Orderly' <=> Orderly)
  BY <1>1, OrderlyStays
<1>5. at \in Nat /\ Len(stream) \in Nat
  BY <1>1, Facts
<1>6. ASSUME Orderly, ended' PROVE at' + buffered' = PeekEnd'
  <2>1. PaddingFits /\ PaddingFits'
    BY <1>4, <1>6 DEF Orderly
  <2>2. ended \/ r.err = "eof"
    BY <1>2, <1>6 DEF ReadBy
  <2>3. at' = at
    <3>1. CASE ended
      <4>1. at = BodyEnd
        BY <1>1, <2>1, <3>1, AtTheEnd DEF NInv
      <4>2. at' <= BodyEnd'
        BY <1>1, <1>3, <2>1 DEF IInv, EndInv
      <4> QED
        BY <1>3, <1>4, <1>5, <4>1, <4>2
    <3>2. CASE r.err = "eof"
      BY <1>2, <1>3, <3>2 DEF ReadBy, ReadOK
    <3> QED
      BY <2>2, <3>1, <3>2
  <2>4. PeekEnd' = PeekEnd
    BY <1>1, <2>3 DEF PeekEnd
  <2>5. r.at + r.buffered = PeekEnd \/ (r.buffered = buffered /\ r.err = "nil")
    BY <1>2 DEF ReadBy, ReadFills
  <2>6. CASE r.buffered = buffered /\ r.err = "nil"
    <3>1. ended
      BY <2>2, <2>6
    <3>2. at + buffered = PeekEnd
      BY <1>1, <1>6, <3>1 DEF NInv, BetweenInv, FilledInv
    <3> QED
      BY <1>3, <2>3, <2>4, <2>6, <3>2
  <2> QED
    BY <1>3, <2>4, <2>5, <2>6
<1>7. BetweenInv'
  BY <1>1, <1>4, <1>6 DEF BetweenInv, ClosingInv, LinesInv, FilledInv, ToldInv
<1>8. EndedInv'
  BY <1>1, <1>3 DEF EndedInv
<1> QED
  BY <1>7, <1>8

LEMMA CheckBetween ==
    ASSUME NInv, CheckNextPart
    PROVE  BetweenInv' /\ EndedInv'
<1>1. TypeOK /\ CountInv /\ pc = "idle" /\ UNCHANGED <<stream, ending, at, buffered, partsRead, part, start, ended>>
  BY DEF CheckNextPart, NInv, IInv
<1> DEFINE v == IF Judged.verdict = "none" THEN OutOfLines ELSE Judged.verdict
<1>2. Judged.nl = nl /\ Judged.verdict \in Verdicts
  BY <1>1, JudgedIs
<1>3. nl' = Judged.nl /\ pc' = (IF v = "panic" THEN "panic" ELSE pc) /\ checked' = (IF ended \/ ~part.some THEN v ELSE "none")
  BY Zenon DEF CheckNextPart
<1>4. v # "panic"
  BY <1>2 DEF Verdicts, OutOfLines
<1>5. nl' = nl /\ pc' = "idle"
  BY <1>1, <1>2, <1>3, <1>4
<1>6. (Orderly' <=> Orderly) /\ Foretold' = Foretold
  BY <1>1, <1>5, OrderlyStays
<1>7. PeekEnd' = PeekEnd
  BY <1>1 DEF PeekEnd
<1>8. ASSUME part.open, Orderly, ended PROVE v = Foretold /\ at + buffered = PeekEnd
  <2>1. at + buffered = PeekEnd
    BY <1>1, <1>8 DEF NInv, BetweenInv, FilledInv
  <2>2. at = BodyEnd
    BY <1>1, <1>8, AtTheEnd DEF NInv, Orderly
  <2>3. OutOfLines = "eof"
    BY <1>1, <1>8, <2>1, <2>2, LinesBuffered
  <2> QED
    BY <1>1, <1>8, <2>1, <2>2, <2>3, Told
<1> HIDE DEF v
<1>9. BetweenInv'
  <2>1. ASSUME part.open, Orderly, ended PROVE checked' = Foretold /\ at' + buffered' = PeekEnd'
    BY <1>1, <1>3, <1>7, <1>8, <2>1
  <2> QED
    BY <1>1, <1>5, <1>6, <2>1 DEF BetweenInv, ClosingInv, LinesInv, FilledInv, ToldInv
<1>10. EndedInv'
  BY <1>1 DEF EndedInv, NInv
<1> QED
  BY <1>9, <1>10

LEMMA NextBetween ==
    ASSUME NInv, NextPart
    PROVE  BetweenInv' /\ EndedInv'
<1>1. TypeOK /\ CountInv /\ pc = "idle" /\ expect' = FALSE
      /\ UNCHANGED <<stream, ending, at, buffered, nl, partsRead, part, start, delivered, ended, checked>>
      /\ pc' = IF part.some THEN "closing" ELSE "lines"
  BY DEF NextPart, NInv, IInv
<1>2. BodyEnd' = BodyEnd /\ (Orderly' <=> Orderly) /\ Foretold' = Foretold
  BY <1>1, OrderlyStays
<1>3. ASSUME part.open, Orderly
      PROVE  /\ pc' = "closing" /\ at <= BodyEnd /\ (part.fresh <=> at = start)
             /\ (at = start => part.buffer = <<>>)
             /\ (ended /\ checked # "none" => checked = Foretold)
  <2>1. pc' = "closing"
    BY <1>1, <1>3 DEF CountInv
  <2>2. at <= BodyEnd /\ (part.fresh <=> at = start) /\ delivered \o part.buffer = Taken(start, at)
    BY <1>1, <1>3 DEF NInv, IInv, EndInv, TakenInv, Orderly
  <2>3. at = start => part.buffer = <<>>
    <3>1. at \in Nat /\ start \in Nat /\ delivered \in Seq(1 .. at) /\ part.buffer \in Seq(1 .. at)
      BY <1>1, Facts, TypeParts DEF PlacesOK, PartType
    <3> SUFFICES ASSUME at = start PROVE part.buffer = <<>>
      OBVIOUS
    <3>2. Len(Taken(start, at)) = 0
      BY <3>1, TakenIs
    <3>3. Len(delivered \o part.buffer) = Len(delivered) + Len(part.buffer)
      BY <3>1, ConcatProperties
    <3>4. PICK p \in Nat : p = Len(part.buffer)
      BY <3>1, LenProperties
    <3>5. PICK d \in Nat : d = Len(delivered)
      BY <3>1, LenProperties
    <3>6. d + p = 0
      BY <2>2, <3>2, <3>3, <3>4, <3>5
    <3>7. p = 0
      BY <3>6
    <3> QED
      BY <3>1, <3>4, <3>7, EmptySeq
  <2>4. ended /\ checked # "none" => checked = Foretold
    BY <1>3 DEF NInv, BetweenInv, ToldInv
  <2> QED
    BY <2>1, <2>2, <2>3, <2>4
<1>4. BetweenInv'
  BY <1>1, <1>2, <1>3 DEF BetweenInv, ClosingInv, LinesInv, FilledInv, ToldInv
<1>5. EndedInv'
  BY <1>1 DEF EndedInv, NInv
<1> QED
  BY <1>4, <1>5

LEMMA CloseBetween ==
    ASSUME NInv, CloseRead
    PROVE  BetweenInv' /\ EndedInv'
<1>1. TypeOK /\ pc = "closing" /\ UNCHANGED <<stream, ending, nl, partsRead, expect, start, ended, checked>>
  BY DEF CloseRead, NInv, IInv
<1>2. PICK r : ClosedBy(r)
  BY <1>1, CloseReadIs
<1>3. ReadOK(r) /\ ReadFills(r) /\ Took(r) /\ pc' = IF r.err = "nil" THEN "closing" ELSE "lines"
  BY <1>2 DEF ClosedBy
<1>4. /\ at' = r.at /\ at <= at' /\ at' \in Nat
      /\ part'.open = part.open /\ part'.buffer = r.buffer /\ part'.fresh = (part.fresh /\ r.data = <<>>)
      /\ r.data \in Seq(1 .. at')
  BY <1>1, <1>3, TookIs
<1>5. BodyEnd' = BodyEnd /\ (Orderly' <=> Orderly) /\ Foretold' = Foretold
  BY <1>1, OrderlyStays
<1>6. /\ stream \in Seq(Symbols) /\ nl \in {CR, LF} /\ Len(stream) \in Nat
      /\ at \in 0 .. Len(stream) /\ at \in Nat /\ at <= Len(stream)
      /\ start \in Nat /\ start <= at /\ start \in 0 .. Len(stream)
      /\ part.buffer \in Seq(1 .. at) /\ part.fresh \in BOOLEAN /\ BodyEnd \in Nat
  BY <1>1, Facts, TypeParts, SeparatedIs DEF PlacesOK, PartType
<1>7. /\ r.at = at \/ (r.at = at + NCopy(Seen) /\ ~AtEmpty)
      /\ r.err \in {"nil", "eof", "error"} /\ (r.data = <<>> => r.at = at)
      /\ r.data \o r.buffer = part.buffer \o Taken(at, r.at)
      /\ r.err = "eof" => /\ r.at = at
                          /\ \/ AtEmpty
                             \/ /\ ~AtEmpty /\ NCopy(Seen) = 0
                                /\ part.buffer = <<>> /\ (Short(Seen) \/ IsEnd(Seen))
      /\ r.buffer \in Seq(1 .. r.at)
  BY <1>3 DEF ReadOK
<1>8. ASSUME part.open, Orderly
      PROVE  /\ ~expect' /\ at' <= BodyEnd /\ (part'.fresh <=> at' = start) /\ (at' = start => part'.buffer = <<>>)
             /\ pc' \in {"closing", "lines"} /\ (pc' = "lines" => at' = BodyEnd)
             /\ (ended /\ checked # "none" => checked = Foretold)
  <2>1. ~expect /\ at <= BodyEnd /\ (part.fresh <=> at = start) /\ (at = start => part.buffer = <<>>)
    BY <1>1, <1>8 DEF NInv, BetweenInv, ClosingInv
  <2>2. PaddingFits /\ ending = "eof"
    BY <1>8 DEF Orderly
  <2>3. ~AtEmpty => Inside
    BY <1>6, <2>1, <2>2 DEF Inside, AtEmpty, Seen
  <2>4. at' <= BodyEnd
    <3>1. CASE r.at = at
      BY <1>4, <2>1, <3>1
    <3>2. CASE r.at = at + NCopy(Seen) /\ ~AtEmpty
      BY <1>4, <2>3, <3>2, NCopyInside DEF Seen
    <3> QED
      BY <1>7, <3>1, <3>2
  <2>5. at' = start => at = start /\ r.data = <<>> /\ r.buffer = <<>>
    <3> SUFFICES ASSUME at' = start PROVE at = start /\ r.data = <<>> /\ r.buffer = <<>>
      OBVIOUS
    <3>1. at = start /\ r.at = at /\ part.buffer = <<>>
      BY <1>4, <1>6, <2>1
    <3>2. Taken(at, at) \in Seq(1 .. at) /\ Len(Taken(at, at)) = 0
      <4>1. at \in Nat /\ at <= at /\ at - at = 0
        BY <1>6
      <4> QED
        BY <4>1, TakenIs
    <3>3. Len(part.buffer \o Taken(at, at)) = Len(part.buffer) + Len(Taken(at, at)) /\ Len(part.buffer) = 0
      BY <1>6, <3>1, <3>2, ConcatProperties, EmptySeq
    <3>4. r.data \in Seq(1 .. at) /\ r.buffer \in Seq(1 .. at)
      BY <1>4, <1>7, <3>1
    <3>5. Len(r.data \o r.buffer) = Len(r.data) + Len(r.buffer)
      BY <3>4, ConcatProperties
    <3>6. PICK d \in Nat : d = Len(r.data)
      BY <3>4, LenProperties
    <3>7. PICK b \in Nat : b = Len(r.buffer)
      BY <3>4, LenProperties
    <3>8. d + b = 0
      <4>1. Len(r.data \o r.buffer) = 0
        BY <1>7, <3>1, <3>2, <3>3
      <4> QED
        BY <3>5, <3>6, <3>7, <4>1
    <3>9. d = 0 /\ b = 0
      BY <3>8
    <3> QED
      BY <3>1, <3>4, <3>6, <3>7, <3>9, EmptySeq
  <2>6. part'.fresh <=> at' = start
    BY <1>4, <1>7, <2>1, <2>5
  <2>7. at' = start => part'.buffer = <<>>
    BY <1>4, <2>5
  <2>8. r.err = "eof" => at' = BodyEnd
    <3> SUFFICES ASSUME r.err = "eof" PROVE at = BodyEnd
      BY <1>4, <1>7
    <3>1. CASE AtEmpty
      <4>1. at = start /\ IsEmptyPart(Seen)
        BY <2>1, <3>1 DEF AtEmpty
      <4>2. EmptyBody
        BY <1>6, <2>2, <4>1, SameEmpty DEF Seen
      <4> QED
        BY <1>6, <4>1, <4>2, BodyEndIs
    <3>2. CASE ~AtEmpty /\ NCopy(Seen) = 0 /\ (Short(Seen) \/ IsEnd(Seen))
      BY <2>3, <3>2, EOFAtEnd DEF Seen
    <3> QED
      BY <1>7, <3>1, <3>2
  <2>9. r.err # "error"
    BY <1>3, <2>2 DEF ReadFills
  <2>10. pc' \in {"closing", "lines"} /\ (pc' = "lines" => r.err = "eof")
    BY <1>3, <1>7, <2>9
  <2>11. ended /\ checked # "none" => checked = Foretold
    BY <1>8 DEF NInv, BetweenInv, ToldInv
  <2> QED
    BY <1>1, <2>1, <2>4, <2>6, <2>7, <2>8, <2>10, <2>11
<1>9. BetweenInv'
  BY <1>1, <1>4, <1>5, <1>8 DEF BetweenInv, ClosingInv, LinesInv, FilledInv, ToldInv, BetweenLines
<1>10. EndedInv'
  BY <1>1, <1>4 DEF EndedInv, NInv
<1> QED
  BY <1>9, <1>10

(* A part that is given up is not asked about any more.                     *)
LEMMA GivenUp ==
    ASSUME TypeOK, Closed, NEW v, Returns(v)
    PROVE  BetweenInv' /\ EndedInv' /\ ~part'.open
<1>1. part'.open = FALSE /\ ended' = FALSE
  BY ClosedPart DEF Returns
<1> QED
  BY <1>1 DEF BetweenInv, EndedInv

LEMMA LineBetween ==
    ASSUME NInv, NextLine
    PROVE  BetweenInv' /\ EndedInv'
<1>1. TypeOK /\ CountInv /\ pc = "lines" /\ UNCHANGED <<stream, ending, start>>
  BY DEF NextLine, NInv, IInv
<1>2. PICK st : LineFound(st)
  BY <1>1, NextLineIs
<1>3. CASE st.verdict \in {"none", "part"}
  <2>1. UNCHANGED <<part, ended, checked>> /\ (partsRead > 0 => nl' = nl) /\ pc' \in {"lines", "header"}
    BY <1>1, <1>2, <1>3 DEF LineFound
  <2>2. ASSUME part.open, Orderly' PROVE ClosingInv' /\ LinesInv' /\ FilledInv' /\ ToldInv'
    <3>1. UNCHANGED <<stream, nl, start, ending>>
      BY <1>1, <2>1, <2>2 DEF CountInv
    <3>2. Orderly /\ BodyEnd' = BodyEnd /\ Foretold' = Foretold /\ LineBegin' = LineBegin
          /\ (Separated' <=> Separated) /\ (EmptyBody' <=> EmptyBody)
      BY <2>2, <3>1, OrderlyStays
    <3>3. BetweenLines /\ ToldInv
      BY <1>1, <2>2, <3>2 DEF NInv, BetweenInv, LinesInv
    <3>4. OverBlank \/ FoundPart
      <4>1. OverBlank \/ FoundPart \/ FoundNoMore
        BY <1>1, <2>2, <3>2, <3>3, LineStep
      <4> QED
        BY <2>1, <4>1 DEF FoundNoMore
    <3>5. ClosingInv' /\ FilledInv' /\ ToldInv'
      BY <2>1, <3>2, <3>3 DEF ClosingInv, FilledInv, ToldInv
    <3>6. LinesInv'
      <4>1. CASE OverBlank
        BY <3>2, <4>1 DEF OverBlank, LinesInv, BetweenLines
      <4>2. CASE FoundPart
        BY <3>2, <4>2 DEF FoundPart, LinesInv
      <4> QED
        BY <3>4, <4>1, <4>2
    <3> QED
      BY <3>5, <3>6
  <2>3. BetweenInv'
    BY <2>1, <2>2 DEF BetweenInv
  <2>4. EndedInv'
    BY <2>1 DEF EndedInv, NInv
  <2> QED
    BY <2>3, <2>4
<1>4. CASE st.verdict \in {"eof", "error"}
  <2>1. Returns(st.verdict) /\ Closed
    BY <1>2, <1>4 DEF LineFound
  <2> QED
    BY <1>1, <2>1, GivenUp
<1> QED
  BY <1>2, <1>3, <1>4 DEF LineFound, Verdicts

LEMMA BetweenStep == NInv /\ IInv' /\ [Next]_vars => BetweenInv' /\ EndedInv'
<1> SUFFICES ASSUME NInv, IInv', [Next]_vars PROVE BetweenInv' /\ EndedInv'
  OBVIOUS
<1>a. TypeOK
  BY DEF NInv, IInv
<1>1. ASSUME NEW k \in Sizes, Read(k) PROVE BetweenInv' /\ EndedInv'
  BY <1>1, ReadBetween
<1>2. ASSUME CheckNextPart PROVE BetweenInv' /\ EndedInv'
  BY <1>2, CheckBetween
<1>3. ASSUME NextPart PROVE BetweenInv' /\ EndedInv'
  BY <1>3, NextBetween
<1>4. ASSUME CloseRead PROVE BetweenInv' /\ EndedInv'
  BY <1>4, CloseBetween
<1>5. ASSUME NextLine PROVE BetweenInv' /\ EndedInv'
  BY <1>5, LineBetween
<1>6. ASSUME NoLine \/ HeaderError PROVE BetweenInv' /\ EndedInv'
  <2>1. Closed /\ \E v : Returns(v)
    BY <1>6 DEF NoLine, HeaderError
  <2> QED
    BY <1>a, <2>1, GivenUp
<1>7. ASSUME Header \/ OtherHeader PROVE BetweenInv' /\ EndedInv'
  <2>1. \E v \in {"part", "malformed"} : NewPart(v)
    BY <1>7 DEF Header, OtherHeader
  <2>2. ended' = FALSE /\ checked' = "none" /\ pc' = "idle"
    BY <2>1 DEF NewPart, Returns
  <2> QED
    BY <2>2 DEF BetweenInv, EndedInv, ClosingInv, LinesInv, FilledInv, ToldInv
<1>8. ASSUME UNCHANGED vars PROVE BetweenInv' /\ EndedInv'
  <2>1. UNCHANGED <<stream, nl, start, ending>> /\ UNCHANGED <<at, buffered, part, pc, expect, ended, checked>>
    BY <1>8 DEF vars
  <2>2. /\ BodyEnd' = BodyEnd /\ (Orderly' <=> Orderly) /\ Foretold' = Foretold /\ LineBegin' = LineBegin
        /\ (Separated' <=> Separated) /\ (EmptyBody' <=> EmptyBody)
    BY <2>1, OrderlyStays
  <2>3. PeekEnd' = PeekEnd
    BY <2>1 DEF PeekEnd
  <2>4. (BetweenLines' <=> BetweenLines) /\ (ClosingInv' <=> ClosingInv) /\ (FilledInv' <=> FilledInv) /\ (ToldInv' <=> ToldInv)
    BY <2>1, <2>2, <2>3 DEF BetweenLines, ClosingInv, FilledInv, ToldInv
  <2>5. LinesInv' <=> LinesInv
    BY <2>1, <2>2, <2>4 DEF LinesInv
  <2> QED
    BY <2>1, <2>2, <2>4, <2>5 DEF NInv, BetweenInv, EndedInv
<1> QED
  BY <1>1, <1>2, <1>3, <1>4, <1>5, <1>6, <1>7, <1>8 DEF Next, Proceed, Stopped

LEMMA NInitOK == Init => NInv
<1>1. Init => part.open = FALSE /\ ended = FALSE
  BY DEF Init, NoPart
<1>2. Init => IInv
  BY InitOK
<1> QED
  BY <1>1, <1>2 DEF NInv, BetweenInv, EndedInv

LEMMA NInductive == NInv /\ [Next]_vars => NInv'
<1>1. NInv => IInv
  BY DEF NInv
<1> QED
  BY <1>1, Inductive, BetweenStep DEF NInv

LEMMA NInvariance == Spec => []NInv
  BY NInitOK, NInductive, PTL DEF Spec

(* A boundary that the part's Read has taken for one, and whose line is in *)
(* order, is one for NextPart: it is never refused as out of place, for    *)
(* every stream whose padding fits in the peek buffer.                     *)
THEOREM BoundaryTaken == Spec => BoundaryAccepted
<1> DEFINE Accepts == part.open /\ pc = "lines" /\ ret' = "error" /\ pc' = "idle" /\ ending = "eof" /\ PaddingFits
                      => ~Separated
<1>1. NInv /\ [Next]_vars => [Accepts]_vars
  <2> SUFFICES ASSUME NInv, Next, part.open, pc = "lines", pc' = "idle", ending = "eof", PaddingFits, Separated
               PROVE  FALSE
    OBVIOUS
  <2>1. TypeOK /\ CountInv /\ Orderly
    BY DEF NInv, IInv, Orderly
  <2>2. BetweenLines
    BY <2>1 DEF NInv, BetweenInv, LinesInv
  <2>3. NextLine \/ NoLine
    BY DEF Next, Proceed, Stopped, Read, CheckNextPart, NextPart, CloseRead, Header, OtherHeader, HeaderError
  <2>4. OverBlank \/ FoundPart \/ FoundNoMore
    BY <2>1, <2>2, <2>3, LineStep, NoLineStep
  <2> QED
    BY <2>4 DEF OverBlank, FoundPart, FoundNoMore
<1> QED
  BY <1>1, NInvariance, PTL DEF Spec, BoundaryAccepted

(* CheckNextPart at the end of a part says of the next part what NextPart   *)
(* then finds, though it looks at nothing but what is buffered: the peek    *)
(* buffer was filled by the Read that returned io.EOF.                      *)
THEOREM CheckTells == Spec => CheckAgrees
<1> DEFINE Tells == NextPartReturns /\ ended /\ ending = "eof" /\ checked # "none" /\ PaddingFits
                    /\ (Separated \/ BodyEnd = Len(stream)) => Agrees(checked, ret')
<1>1. NInv /\ [Next]_vars => [Tells]_vars
  <2> SUFFICES ASSUME NInv, Next, NextPartReturns, ended, checked # "none", Orderly
               PROVE  Agrees(checked, ret')
    BY DEF Orderly
  <2>1. TypeOK /\ CountInv /\ part.open
    BY DEF NInv, IInv, EndedInv
  <2>2. checked = Foretold /\ LinesInv
    BY <2>1 DEF NInv, BetweenInv, ToldInv
  <2>3. CASE pc = "lines"
    <3>1. NextLine \/ NoLine
      BY <2>3 DEF Next, Proceed, Stopped, Read, CheckNextPart, NextPart, CloseRead, Header, OtherHeader, HeaderError
    <3>2. OverBlank \/ FoundPart \/ FoundNoMore
      BY <2>1, <2>2, <2>3, <3>1, LineStep, NoLineStep DEF LinesInv
    <3>3. FoundNoMore
      BY <3>2 DEF OverBlank, FoundPart, NextPartReturns
    <3> QED
      BY <2>2, <3>3 DEF FoundNoMore, Agrees
  <2>4. CASE pc = "header"
    <3>1. checked = "part"
      BY <2>2, <2>4 DEF LinesInv
    <3>2. Header \/ OtherHeader \/ HeaderError
      BY <2>4 DEF Next, Proceed, Stopped, Read, CheckNextPart, NextPart, CloseRead, NextLine, NoLine
    <3>3. ret' \in {"part", "malformed", "headererror"}
      BY <3>2 DEF Header, OtherHeader, HeaderError, NewPart, Returns
    <3> QED
      BY <3>1, <3>3 DEF Agrees
  <2> QED
    BY <2>3, <2>4 DEF NextPartReturns
<1> QED
  BY <1>1, NInvariance, PTL DEF Spec, CheckAgrees

-----------------------------------------------------------------------------
(* A whole message, as multipart.Writer writes it: what the reader makes of *)
(* it (MultipartWriterProofs shows that the writer's messages are such).    *)
(* The line of a boundary, and the header of a part, that begin behind      *)
(* byte l, before a body that begins behind byte s.                         *)
Opening(l, s) ==
    /\ Stands(Dash, l, Len(stream)) /\ Stands(CR, l + 3, Len(stream))
    /\ \/ Stands(<<"H">>, l + 5, Len(stream)) /\ s = l + 6
       \/ Stands(CR, l + 5, Len(stream)) /\ s = l + 7

(* A body from behind byte s, and the line end before what begins behind l. *)
Content(s, l) ==
    s + 2 <= l /\ Stands(CR, l - 2, Len(stream)) /\ \A i \in s + 1 .. l - 2 : stream[i] # "b"

Closing(l) == Stands(DashDash, l, Len(stream)) /\ Stands(CR, l + 5, Len(stream))

(* A message of n parts: part p has its boundary behind byte L[p] and its   *)
(* body behind byte S[p].                                                   *)
Laid(n, L, S) ==
    /\ n \in Nat /\ L \in [1 .. n + 1 -> Nat] /\ S \in [1 .. n -> Nat]
    /\ IF n = 0 THEN L[1] = 2 /\ Stands(CR, 0, Len(stream)) ELSE L[1] = 0
    /\ \A p \in 1 .. n : Opening(L[p], S[p]) /\ Content(S[p], L[p + 1])
    /\ Closing(L[n + 1])
    /\ \A i \in 1 .. Len(stream) : stream[i] # "sp"

LEMMA NoPadding ==
    ASSUME stream \in Seq(Symbols), \A i \in 1 .. Len(stream) : stream[i] # "sp"
    PROVE  PaddingFits
<1> SUFFICES ASSUME NEW j \in 0 .. Len(stream), NEW d \in {Dash, DashDash},
                    IsPrefix(d \o Blank(PeekSize - Len(DashDash) - 1), From(j))
             PROVE  FALSE
  BY DEF PaddingFits
<1>1. PICK M \in Nat : M = Len(stream)
  BY LenProperties
<1>2. PICK K \in Nat : K = PeekSize - Len(DashDash) - 1 /\ K > 0
  BY Words
<1>3. d \in Seq(Symbols) /\ Len(d) \in Nat
  BY Words
<1>4. Blank(K) \in Seq(Symbols) /\ Len(Blank(K)) = K /\ Blank(K)[1] = "sp"
  BY <1>2 DEF Blank, Symbols
<1>5. d \o Blank(K) \in Seq(Symbols)
  BY <1>3, <1>4
<1>6. j \in 0 .. M /\ j \in Nat /\ M \in 0 .. Len(stream)
  BY <1>1
<1>7. Stands(d \o Blank(K), j, M)
  <2>1. IsPrefix(d \o Blank(K), View(j, M))
    BY <1>1, <1>2, Zenon DEF From, View
  <2> QED
    BY <1>5, <1>6, <2>1, PrefixIs
<1>8. Stands(Blank(K), j + Len(d), M)
  BY <1>1, <1>3, <1>4, <1>6, <1>7, StandsConcat
<1>9. PICK c \in Nat : c = j + Len(d)
  BY <1>3, <1>6
<1>10. PICK q : q = Blank(K) /\ Len(q) = K /\ q[1] = "sp"
  BY <1>4
<1>11. c + K <= M /\ stream[c + 1] = "sp"
  <2>1. Stands(q, c, M)
    BY <1>8, <1>9, <1>10, Zenon
  <2> QED
    BY <1>2, <1>10, <2>1 DEF Stands
<1> QED
  BY <1>1, <1>2, <1>11

LEMMA CRStands ==
    ASSUME NEW j \in Nat, NEW e \in Nat, Stands(CR, j, e)
    PROVE  stream[j + 1] = "cr" /\ stream[j + 2] = "lf" /\ j + 2 <= e
<1>1. Len(CR) = 2 /\ CR[1] = "cr" /\ CR[2] = "lf"
  BY Words
<1> QED
  BY <1>1 DEF Stands

(* The line of a boundary before a part, and the last one.                  *)
LEMMA OpeningLine ==
    ASSUME stream \in Seq(Symbols), nl = CR, NEW l \in Nat, NEW s \in Nat, Opening(l, s)
    PROVE  /\ l \in 0 .. Len(stream) /\ Boundary(l) /\ ~LastBoundary(l) /\ LineEnds(l, l + 5)
           /\ stream[l + 4] = "cr" /\ l + 5 < s /\ s <= Len(stream) /\ EndsHere(l + 3, Len(stream))
<1>1. PICK M \in Nat : M = Len(stream)
  BY LenProperties
<1>2. Stands(Dash, l, M) /\ Stands(CR, l + 3, M)
  BY <1>1 DEF Opening
<1>3. PICK k \in Nat : k = l + 3
  OBVIOUS
<1>4. stream[k + 1] = "cr" /\ stream[k + 2] = "lf" /\ k + 2 <= M
  BY <1>2, <1>3, CRStands
<1>5. ~Stands(DashDash, l, M)
  <2> SUFFICES ASSUME Stands(DashDash, l, M) PROVE FALSE
    OBVIOUS
  <2>1. Stands(<<"-", "-">>, k, M)
    BY <1>3, DashDashStands
  <2>2. stream[k + 1] = "-"
    BY <2>1, TwoStand
  <2> QED
    BY <1>4, <2>2
<1>6. Skipped(k, k, M)
  BY <1>4 DEF Skipped, Spaces
<1>7. k \in k .. M
  BY <1>4
<1>8. Boundary(l)
  BY <1>1, <1>2, <1>3, <1>5, <1>6, <1>7 DEF Boundary, EmptyHere
<1>9. EndsHere(k, M)
  BY <1>2, <1>3, <1>6, <1>7 DEF EndsHere
<1>10. NoLF(l, l + 3)
  BY <1>2, BoundaryNoLF
<1>11. LineEnds(l, k + 2)
  <2>1. \A i \in l + 1 .. k + 1 : i \in l + 1 .. l + 3 \/ i = k + 1
    BY <1>3
  <2>2. NoLF(l, k + 1)
    BY <1>4, <1>10, <2>1 DEF NoLF
  <2>3. (k + 2) - 1 = k + 1 /\ l < k + 2
    BY <1>3
  <2> QED
    BY <1>1, <1>4, <2>2, <2>3 DEF LineEnds
<1>12. l + 5 < s /\ s <= M
  <2>1. CASE Stands(<<"H">>, l + 5, M) /\ s = l + 6
    <3>1. Len(<<"H">>) = 1
      OBVIOUS
    <3> QED
      BY <2>1, <3>1 DEF Stands
  <2>2. CASE Stands(CR, l + 5, M) /\ s = l + 7
    <3>1. (l + 5) + 2 <= M
      BY <2>2, CRStands
    <3> QED
      BY <2>2, <3>1
  <2> QED
    BY <1>1, <2>1, <2>2 DEF Opening
<1>13. l \in 0 .. M /\ k + 2 = l + 5 /\ k + 1 = l + 4
  BY <1>3, <1>4
<1> QED
  BY <1>1, <1>3, <1>4, <1>5, <1>8, <1>9, <1>11, <1>12, <1>13 DEF LastBoundary

LEMMA ClosingLine ==
    ASSUME stream \in Seq(Symbols), nl = CR, NEW l \in Nat, Closing(l)
    PROVE  /\ l \in 0 .. Len(stream) /\ Boundary(l) /\ LastBoundary(l) /\ LineEnds(l, l + 7)
           /\ stream[l + 1] = "-" /\ stream[l + 2] = "-" /\ stream[l + 3] = "b" /\ stream[l + 4] = "-" 
           /\ EndsHere(l + 3, Len(stream))
<1>1. PICK M \in Nat : M = Len(stream)
  BY LenProperties
<1>2. Stands(DashDash, l, M) /\ Stands(CR, l + 5, M)
  BY <1>1 DEF Closing
<1>3. Stands(Dash, l, M) /\ Stands(<<"-", "-">>, l + 3, M)
  BY <1>2, DashDashStands
<1>4. PICK k \in Nat : k = l + 5
  OBVIOUS
<1>5. stream[k + 1] = "cr" /\ stream[k + 2] = "lf" /\ k + 2 <= M
  BY <1>2, <1>4, CRStands
<1>6. Skipped(k, k, M) /\ k \in k .. M
  BY <1>5 DEF Skipped, Spaces
<1>7. Boundary(l)
  BY <1>1, <1>2, <1>4, <1>6 DEF Boundary, EmptyHere
<1>8. EndsHere(l + 3, M)
  BY <1>3 DEF EndsHere
<1>9. NoLF(l, l + 5)
  BY <1>2, BoundaryNoLF
<1>10. LineEnds(l, k + 2)
  <2>1. \A i \in l + 1 .. k + 1 : i \in l + 1 .. l + 5 \/ i = k + 1
    BY <1>4
  <2>2. NoLF(l, k + 1)
    BY <1>5, <1>9, <2>1 DEF NoLF
  <2>3. (k + 2) - 1 = k + 1 /\ l < k + 2
    BY <1>4
  <2> QED
    BY <1>1, <1>5, <2>2, <2>3 DEF LineEnds
<1>11. stream[l + 1] = "-" /\ stream[l + 2] = "-" /\ stream[l + 3] = "b"
  BY <1>3, DashStands
<1>12. stream[l + 4] = "-"
  <2>1. PICK m \in Nat : m = l + 3
    OBVIOUS
  <2>2. stream[m + 1] = "-"
    BY <1>3, <2>1, TwoStand
  <2>3. m + 1 = l + 4
    BY <2>1
  <2> QED
    BY <2>2, <2>3
<1>13. l \in 0 .. M /\ k + 2 = l + 7
  BY <1>4, <1>5
<1> QED
  BY <1>1, <1>2, <1>7, <1>8, <1>10, <1>11, <1>12, <1>13 DEF LastBoundary

(* The bodies of a message end where its boundaries begin.                  *)
LEMMA BodyOf ==
    ASSUME TypeOK, nl = CR, NEW n, NEW L, NEW S, Laid(n, L, S), NEW p \in 1 .. n, start = S[p]
    PROVE  /\ ~EmptyBody /\ BodyEnd = L[p + 1] - 2 /\ Separated /\ LineBegin = L[p + 1]
           /\ Foretold = IF p < n THEN "part" ELSE "eof"
<1>1. /\ stream \in Seq(Symbols) /\ start \in Nat /\ start \in 0 .. Len(stream) /\ nl \in {CR, LF}
      /\ p \in Nat /\ n \in Nat
  BY Facts DEF Laid
<1>2. PICK M \in Nat : M = Len(stream)
  BY <1>1, LenProperties
<1>3. PICK l \in Nat : l = L[p + 1]
  <2>1. p + 1 \in 1 .. n + 1
    BY <1>1
  <2> QED
    BY <2>1 DEF Laid
<1>4. /\ l \in 0 .. M /\ Boundary(l) /\ (LastBoundary(l) <=> p = n) /\ EndsHere(l + 3, M)
      /\ Stands(Dash, l, M)
  <2>1. CASE p < n
    <3>1. p + 1 \in 1 .. n
      BY <1>1, <2>1
    <3>2. Opening(l, S[p + 1]) /\ S[p + 1] \in Nat
      BY <1>3, <3>1 DEF Laid
    <3> QED
      BY <1>1, <1>2, <2>1, <3>2, OpeningLine DEF Opening
  <2>2. CASE p = n
    <3>1. Closing(l)
      BY <1>3, <2>2 DEF Laid
    <3> QED
      BY <1>1, <1>2, <2>2, <3>1, ClosingLine, DashDashStands DEF Closing
  <2> QED
    BY <1>1, <2>1, <2>2
<1>5. start + 2 <= l /\ Stands(CR, l - 2, M) /\ \A i \in start + 1 .. l - 2 : stream[i] # "b"
  BY <1>2, <1>3 DEF Laid, Content
<1>6. PICK e \in Nat : e + 2 = l /\ e = l - 2
  BY <1>1, <1>5
<1>7. /\ stream[e + 1] = "cr" /\ stream[e + 2] = "lf"
  <2>1. Stands(CR, e, M)
    BY <1>5, <1>6
  <2> QED
    BY <2>1, CRStands
<1>8. stream[l + 1] = "-" /\ stream[l + 2] = "-"
  BY <1>4, DashStands
<1>9. \A i \in Nat : start < i /\ stream[i] = "b" => i > l + 2
  <2> SUFFICES ASSUME NEW i \in Nat, start < i, stream[i] = "b", i <= l + 2 PROVE FALSE
    BY <1>1, <1>3
  <2>1. i \in start + 1 .. e \/ i = e + 1 \/ i = e + 2 \/ i = l + 1 \/ i = l + 2
    BY <1>1, <1>6
  <2> QED
    BY <1>5, <1>6, <1>7, <1>8, <2>1
<1>10. ~EmptyBody
  <2> SUFFICES ASSUME EmptyBody PROVE FALSE
    OBVIOUS
  <2>1. EmptyHere(start, M)
    BY <1>1, <1>2, EmptyBodyIs
  <2>2. Stands(Dash, start, M)
    BY <1>1, <2>1, DashDashStands DEF EmptyHere
  <2>3. stream[start + 3] = "b"
    BY <1>1, <2>2, DashStands
  <2>4. start + 3 \in Nat /\ start < start + 3 /\ start + 3 <= l + 2
    <3>1. PICK a \in Nat : a = start
      BY <1>1
    <3>2. a + 2 <= l
      BY <1>5, <3>1
    <3>3. a + 3 \in Nat /\ a < a + 3 /\ a + 3 <= l + 2
      BY <3>2
    <3> QED
      BY <3>1, <3>3
  <2> QED
    BY <1>9, <2>3, <2>4
<1>11. \A j \in Nat : Stands(Sep, j, M) <=> Stands(CR, j, M) /\ Stands(Dash, j + 2, M)
  <2>1. CR \in Seq(Symbols) /\ Dash \in Seq(Symbols) /\ Len(CR) = 2 /\ Sep = CR \o Dash
    BY Words DEF Sep
  <2> QED
    BY <2>1, StandsConcat
<1>12. Len(Sep) = 5
  BY SepIs, Words DEF CR, LF, Sep
<1>13. EndsBody(e)
  <2>1. Stands(Sep, e, M)
    BY <1>4, <1>5, <1>6, <1>11
  <2>2. e + 5 = l + 3
    BY <1>6
  <2> QED
    BY <1>2, <1>4, <1>12, <2>1, <2>2 DEF EndsBody
<1>14. \A j \in start .. M : EndsBody(j) => e <= j
  <2> SUFFICES ASSUME NEW j \in start .. M, EndsBody(j) PROVE e <= j
    OBVIOUS
  <2>1. j \in Nat /\ start <= j
    BY <1>1
  <2>2. Stands(Dash, j + 2, M)
    BY <1>2, <1>11, <2>1 DEF EndsBody
  <2>3. PICK k \in Nat : k = j + 2
    BY <2>1
  <2>4. stream[k + 3] = "b"
    BY <2>2, <2>3, DashStands
  <2>5. k + 3 \in Nat /\ start < k + 3
    BY <1>1, <2>1, <2>3
  <2>6. k + 3 > l + 2
    BY <1>9, <2>4, <2>5
  <2> QED
    BY <1>6, <2>1, <2>3, <2>6
<1>15. BodyEnd = e
  <2>1. BodyEnd \in start .. M /\ (BodyEnd = M \/ EndsBody(BodyEnd)) /\ \A j \in start .. M : EndsBody(j) => BodyEnd <= j
    BY <1>1, <1>2, <1>10, BodyEndIs
  <2>2. e \in start .. M
    BY <1>1, <1>4, <1>5, <1>6
  <2>3. BodyEnd <= e /\ BodyEnd \in Nat
    BY <1>1, <1>2, <1>13, <2>1, <2>2
  <2>4. e <= BodyEnd
    BY <1>2, <1>14, <2>1, <2>2
  <2> QED
    BY <2>3, <2>4
<1>16. Len(nl) = 2
  BY Words
<1>17. Separated
  <2>1. From(e) = View(e, M) /\ From(l) = View(l, M) /\ M \in 0 .. M /\ e \in 0 .. M /\ l \in 0 .. M
    BY <1>2, <1>4, <1>6 DEF From, View
  <2>2. CR \in Seq(Symbols) /\ Len(CR) = 2
    BY Words
  <2>3. IsPrefix(CR, View(e, M))
    BY <1>1, <1>2, <1>5, <1>6, <2>1, <2>2, PrefixIs
  <2>4. After(CR, View(e, M)) = View(l, M)
    BY <1>1, <1>2, <1>6, <2>1, <2>2, AfterIs
  <2>5. IsEmptyPart(View(l, M))
    BY <1>1, <1>2, <1>4, <2>1, EmptyIs DEF Boundary
  <2>6. BoundaryLine(View(l, M))
    BY <2>5, Zenon DEF IsEmptyPart, BoundaryLine
  <2> QED
    BY <1>10, <1>15, <2>1, <2>3, <2>4, <2>6, Zenon DEF Separated
<1>18. LineBegin = l
  BY <1>6, <1>10, <1>15, <1>16 DEF LineBegin
<1>19. Foretold = IF p < n THEN "part" ELSE "eof"
  <2>1. LastBoundary(LineBegin) <=> ~(p < n)
    BY <1>1, <1>4, <1>18
  <2> QED
    BY <1>17, <2>1 DEF Foretold
<1> QED
  BY <1>3, <1>6, <1>10, <1>15, <1>17, <1>18, <1>19

(* What NextPart makes of a line before the first part, if it keeps to CRLF. *)
LEMMA JudgeFirst ==
    ASSUME partsRead = 0, NEW st, NEW line, st.nl = nl, st.expect = FALSE,
           ~(IsPrefix(Dash, line) /\ SkipLWSP(After(Dash, line)) = LF),
           NEW v, v = Verdict(line, FALSE), v # "error"
    PROVE  Judge(st, line) = [nl |-> nl, verdict |-> v, expect |-> FALSE]
<1> DEFINE rest     == SkipLWSP(After(Dash, line))
           is       == IsPrefix(Dash, line)
           isFinal  == IsPrefix(DashDash, line)
           switches == is /\ partsRead = 0 /\ rest = LF
           nl1      == IF switches THEN Tail(st.nl) ELSE st.nl
           final    == SkipLWSP(After(DashDash, line))
           verdict  == IF is /\ rest = nl1 THEN "part" ELSE IF isFinal /\ final \in {<<>>, nl1} THEN "eof"
                       ELSE IF st.expect THEN "error"
                       ELSE IF partsRead = 0 \/ line = nl1 THEN "none" ELSE "error"
           on       == verdict = "none" /\ partsRead > 0
<1>1. Judge(st, line) = IF switches /\ st.nl = <<>> THEN [st EXCEPT !.verdict = "panic"]
                        ELSE [nl |-> nl1, verdict |-> verdict, expect |-> on]
  BY Zenon DEF Judge, LF
<1>2. ~switches
  BY Zenon
<1>3. nl1 = nl
  BY <1>2, Zenon
<1>4. v = IF is /\ rest = nl THEN "part" ELSE IF isFinal /\ final \in {<<>>, nl} THEN "eof"
          ELSE IF line = nl THEN "none" ELSE "error"
  BY Zenon DEF Verdict
<1>5. v = verdict
  BY <1>3, <1>4
<1>6. on = FALSE
  BY DEF on
<1> HIDE DEF switches, nl1, verdict, on
<1> QED
  BY <1>1, <1>2, <1>3, <1>5, <1>6

(* The reader goes over to LF at no line of a message.                      *)
LEMMA NoSwitch ==
    ASSUME stream \in Seq(Symbols), \A i \in 1 .. Len(stream) : stream[i] # "sp",
           NEW c \in 0 .. Len(stream), NEW j \in 0 .. c, c < j + 3 \/ stream[j + 4] # "lf"
    PROVE  ~(IsPrefix(Dash, View(j, c)) /\ SkipLWSP(After(Dash, View(j, c))) = LF)
<1> SUFFICES ASSUME IsPrefix(Dash, View(j, c)), SkipLWSP(After(Dash, View(j, c))) = LF PROVE FALSE
  OBVIOUS
<1>1. PICK M \in Nat : M = Len(stream)
  BY LenProperties
<1>2. c \in Nat /\ j \in Nat /\ c <= M
  BY <1>1
<1>3. Stands(Dash, j, c) /\ Dash \in Seq(Symbols) /\ Len(Dash) = 3
  BY PrefixIs, Words
<1>4. j + 3 <= c /\ stream[j + 4] # "lf"
  BY <1>2, <1>3 DEF Stands
<1>5. PICK k \in Nat : k = j + 3
  BY <1>2
<1>6. k \in 0 .. c
  BY <1>2, <1>4, <1>5
<1>7. After(Dash, View(j, c)) = View(k, c)
  BY <1>3, <1>5, AfterIs
<1>8. PICK s \in k .. c : Skipped(k, s, c) /\ SkipLWSP(View(k, c)) = View(s, c)
  BY <1>6, SkipIs
<1>9. s = k
  <2>1. \A i \in k + 1 .. s : stream[i] = "sp"
    BY <1>8 DEF Skipped, Spaces
  <2>2. s > k => k + 1 \in k + 1 .. s /\ k + 1 \in 1 .. Len(stream)
    BY <1>1, <1>2, <1>5
  <2> QED
    BY <1>2, <1>5, <2>1, <2>2
<1>10. View(k, c) = LF
  BY <1>7, <1>8, <1>9
<1>11. Len(View(k, c)) = c - k /\ \A i \in 1 .. Len(View(k, c)) : View(k, c)[i] = stream[k + i]
  BY <1>6, ViewIs
<1>12. stream[k + 1] = "lf"
  <2>1. Len(LF) = 1 /\ LF[1] = "lf"
    BY Words
  <2>2. Len(View(k, c)) = 1 /\ View(k, c)[1] = "lf"
    BY <1>10, <2>1, Zenon
  <2>3. 1 \in 1 .. Len(View(k, c))
    BY <2>2
  <2> QED
    BY <1>11, <2>2, <2>3
<1>13. k + 1 = j + 4
  BY <1>2, <1>5
<1> QED
  BY <1>4, <1>12, <1>13

LEMMA PlainLine ==
    ASSUME TypeOK, nl = CR, partsRead = 0, \A i \in 1 .. Len(stream) : stream[i] # "sp",
           NEW c \in Nat, LineEnds(at, c), c < at + 3 \/ stream[at + 4] # "lf",
           NEW v, Verdict(View(at, c), FALSE) = v, v # "error"
    PROVE  Judge([nl |-> nl, expect |-> FALSE, verdict |-> "none"], View(at, c)) = [nl |-> nl, verdict |-> v, expect |-> FALSE]
<1>1. stream \in Seq(Symbols) /\ at \in Nat /\ Len(stream) \in Nat
  BY Facts
<1>2. c \in 0 .. Len(stream) /\ at \in 0 .. c
  BY <1>1 DEF LineEnds
<1>3. ~(IsPrefix(Dash, View(at, c)) /\ SkipLWSP(After(Dash, View(at, c))) = LF)
  BY <1>1, <1>2, NoSwitch
<1> DEFINE st == [nl |-> nl, expect |-> FALSE, verdict |-> "none"]
<1>4. st.nl = nl /\ st.expect = FALSE
  OBVIOUS
<1> HIDE DEF st
<1>5. Judge(st, View(at, c)) = [nl |-> nl, verdict |-> v, expect |-> FALSE]
  BY <1>3, <1>4, JudgeFirst
<1> QED
  BY <1>5 DEF st

(* Where the reader is before the first part, and what it makes of the next *)
(* line.                                                                    *)
AtFirst(n) == pc \in {"idle", "lines"} /\ partsRead = 0 /\ ~part.some /\ (at = 0 \/ (pc = "lines" /\ n = 0 /\ at = 2))

FirstLineIs(n, c, v) ==
    /\ LineEnds(at, c) /\ c <= at + 7
    /\ \/ n = 0 /\ at = 0 /\ c = 2 /\ v = "none"
       \/ n = 0 /\ v = "eof"
       \/ n > 0 /\ c = 5 /\ v = "part"
    /\ Judge([nl |-> nl, expect |-> FALSE, verdict |-> "none"], View(at, c)) = [nl |-> nl, verdict |-> v, expect |-> FALSE]

LEMMA FirstLine ==
    ASSUME TypeOK, nl = CR, NEW n, NEW L, NEW S, Laid(n, L, S), AtFirst(n)
    PROVE  \E c \in Nat, v \in {"none", "eof", "part"} : FirstLineIs(n, c, v)
<1>1. /\ stream \in Seq(Symbols) /\ at \in Nat /\ Len(stream) \in Nat /\ nl \in {CR, LF} /\ n \in Nat /\ partsRead = 0
      /\ \A i \in 1 .. Len(stream) : stream[i] # "sp"
  BY Facts DEF Laid, AtFirst
<1>2. CASE n = 0 /\ at = 0
  <2>1. Stands(CR, 0, Len(stream)) /\ Len(CR) = 2
    BY <1>2, Words DEF Laid
  <2>2. stream[1] = "cr" /\ stream[2] = "lf" /\ 2 <= Len(stream)
    <3>1. stream[0 + 1] = "cr" /\ stream[0 + 2] = "lf" /\ 0 + 2 <= Len(stream)
      BY <1>1, <2>1, CRStands
    <3> QED
      BY <3>1
  <2>3. LineEnds(0, 2)
    BY <1>1, <2>2 DEF LineEnds, NoLF
  <2>4. View(0, 2) = nl
    <3>1. Stands(nl, 0, 2)
      BY <2>1 DEF Stands
    <3>2. 2 \in 0 .. Len(stream) /\ 0 \in 0 .. 2 /\ 2 = 0 + Len(nl)
      BY <1>1, <2>1, <2>2
    <3> QED
      BY <1>1, <3>1, <3>2, ViewNl
  <2>5. Verdict(View(at, 2), FALSE) = "none"
    BY <1>1, <1>2, <2>4, BlankJudged
  <2>6. FirstLineIs(n, 2, "none")
    <3>1. 2 \in Nat /\ LineEnds(at, 2) /\ 2 < at + 3 /\ 2 <= at + 7
      BY <1>2, <2>3
    <3>2. Judge([nl |-> nl, expect |-> FALSE, verdict |-> "none"], View(at, 2)) = [nl |-> nl, verdict |-> "none", expect |-> FALSE]
      BY <1>1, <2>5, <3>1, PlainLine
    <3> QED
      BY <1>2, <3>1, <3>2 DEF FirstLineIs
  <2> QED
    BY <2>6
<1>3. CASE n = 0 /\ at = 2
  <2>1. Closing(at)
    <3>1. n + 1 = 1
      BY <1>3
    <3> QED
      BY <1>3, <3>1 DEF Laid
  <2>2. /\ Boundary(at) /\ LastBoundary(at) /\ LineEnds(at, at + 7) /\ stream[at + 4] = "-" /\ at \in 0 .. Len(stream)
    BY <1>1, <2>1, ClosingLine
  <2>3. Verdict(View(at, at + 7), FALSE) = "eof"
    <3>1. at + 7 \in Nat
      BY <1>1
    <3> QED
      BY <1>1, <2>2, <3>1, BoundaryJudged
  <2>4. FirstLineIs(n, at + 7, "eof")
    <3>1. at + 7 \in Nat /\ at + 7 <= at + 7
      BY <1>1
    <3>2. Judge([nl |-> nl, expect |-> FALSE, verdict |-> "none"], View(at, at + 7)) = [nl |-> nl, verdict |-> "eof", expect |-> FALSE]
      BY <1>1, <2>2, <2>3, <3>1, PlainLine
    <3> QED
      BY <1>3, <2>2, <3>1, <3>2 DEF FirstLineIs
  <2> QED
    BY <1>1, <2>4
<1>4. CASE n > 0
  <2>1. 1 \in 1 .. n /\ L[1] = 0 /\ at = 0
    BY <1>1, <1>4 DEF Laid, AtFirst
  <2>2. Opening(at, S[1]) /\ S[1] \in Nat
    BY <2>1 DEF Laid
  <2>3. /\ Boundary(at) /\ ~LastBoundary(at) /\ LineEnds(at, at + 5) /\ stream[at + 4] = "cr" /\ at \in 0 .. Len(stream)
    BY <1>1, <2>2, OpeningLine
  <2>4. Verdict(View(at, at + 5), FALSE) = "part"
    <3>1. at + 5 \in Nat
      BY <1>1
    <3> QED
      BY <1>1, <2>3, <3>1, BoundaryJudged
  <2>5. FirstLineIs(n, at + 5, "part")
    <3>1. at + 5 \in Nat /\ at + 5 <= at + 7 /\ at + 5 = 5
      BY <1>1, <2>1
    <3>2. Judge([nl |-> nl, expect |-> FALSE, verdict |-> "none"], View(at, at + 5)) = [nl |-> nl, verdict |-> "part", expect |-> FALSE]
      BY <1>1, <2>3, <2>4, <3>1, PlainLine
    <3> QED
      BY <1>4, <2>3, <3>1, <3>2 DEF FirstLineIs
  <2> QED
    BY <1>1, <2>5
<1> QED
  BY <1>1, <1>2, <1>3, <1>4 DEF AtFirst

(* In such a message nothing goes wrong, and the reader is before the first *)
(* part, at a part, at the header of one, or at the end.                    *)
AtPart(S)   == pc \in {"idle", "closing", "lines"} /\ partsRead > 0 /\ part.open /\ start = S[partsRead]
AtHead(L)   == pc = "header" /\ partsRead > 0 /\ at = L[partsRead] + 5
Through(n)  == pc = "eof" /\ partsRead = n
NothingBad  == ret \notin {"error", "malformed", "headererror", "panic"}

InMessage(n, L, S) ==
    /\ ending = "eof" /\ nl = CR /\ partsRead <= n /\ NothingBad
    /\ AtFirst(n) \/ AtPart(S) \/ AtHead(L) \/ Through(n)

LEMMA InPart ==
    ASSUME TypeOK, NEW n, NEW L, NEW S, Laid(n, L, S), InMessage(n, L, S), AtPart(S)
    PROVE  /\ Orderly /\ BodyEnd = L[partsRead + 1] - 2 /\ LineBegin = L[partsRead + 1]
           /\ Foretold = IF partsRead < n THEN "part" ELSE "eof"
           /\ partsRead \in 1 .. n
<1>1. stream \in Seq(Symbols) /\ partsRead \in Nat /\ n \in Nat /\ \A i \in 1 .. Len(stream) : stream[i] # "sp"
  BY Facts, TypeParts DEF FlagsOK, Laid
<1>2. partsRead \in 1 .. n /\ start = S[partsRead] /\ nl = CR /\ ending = "eof"
  BY <1>1 DEF InMessage, AtPart
<1>3. /\ ~EmptyBody /\ BodyEnd = L[partsRead + 1] - 2 /\ Separated /\ LineBegin = L[partsRead + 1]
      /\ Foretold = IF partsRead < n THEN "part" ELSE "eof"
  BY <1>2, BodyOf
<1>4. PaddingFits
  BY <1>1, NoPadding
<1> QED
  BY <1>2, <1>3, <1>4 DEF Orderly

LEMMA MessageRead ==
    ASSUME NInv, NEW n, NEW L, NEW S, Laid(n, L, S), InMessage(n, L, S), NEW k \in Sizes, Read(k)
    PROVE  InMessage(n, L, S)'
<1>1. TypeOK /\ CountInv
  BY DEF NInv, IInv
<1>2. pc = "idle" /\ part.open /\ part.some /\ UNCHANGED <<stream, ending, nl, partsRead, pc, expect, start>>
  BY <1>1 DEF Read, CountInv
<1>3. PICK r : ReadBy(r)
  BY <1>1, ReadIs
<1>4. ReadOK(r) /\ ReadFills(r) /\ Took(r) /\ (r.err = "eof" \/ r.err = "nil" \/ r.err = "error")
      /\ ret' = (CASE r.err = "nil" -> "data" [] OTHER -> r.err)
  BY <1>3 DEF ReadBy
<1>5. part'.open = part.open
  BY <1>1, <1>4, TookIs
<1>6. r.err # "error"
  BY <1>4 DEF ReadFills, InMessage
<1>7. NothingBad'
  BY <1>4, <1>6 DEF NothingBad
<1>8. AtPart(S)
  BY <1>2 DEF InMessage, AtFirst, AtHead, Through
<1>9. AtPart(S)'
  BY <1>2, <1>5, <1>8 DEF AtPart
<1> QED
  BY <1>2, <1>7, <1>9 DEF InMessage

LEMMA MessageNext ==
    ASSUME NInv, NEW n, NEW L, NEW S, Laid(n, L, S), InMessage(n, L, S), NextPart
    PROVE  InMessage(n, L, S)'
<1>1. /\ pc = "idle" /\ pc' = IF part.some THEN "closing" ELSE "lines"
      /\ UNCHANGED <<stream, ending, at, nl, partsRead, part, ret, start>>
  BY DEF NextPart
<1>2. CASE AtFirst(n)
  <2>1. AtFirst(n)'
    BY <1>1, <1>2 DEF AtFirst
  <2> QED
    BY <1>1, <2>1 DEF InMessage, NothingBad
<1>3. CASE AtPart(S)
  <2>1. AtPart(S)'
    BY <1>1, <1>3 DEF AtPart
  <2> QED
    BY <1>1, <2>1 DEF InMessage, NothingBad
<1> QED
  BY <1>1, <1>2, <1>3 DEF InMessage, AtHead, Through

LEMMA MessageClose ==
    ASSUME NInv, NEW n, NEW L, NEW S, Laid(n, L, S), InMessage(n, L, S), CloseRead
    PROVE  InMessage(n, L, S)'
<1>1. TypeOK
  BY DEF NInv, IInv
<1>2. pc = "closing" /\ UNCHANGED <<stream, ending, nl, partsRead, ret, start>>
  BY DEF CloseRead
<1>3. PICK r : ClosedBy(r)
  BY <1>1, CloseReadIs
<1>4. part'.open = part.open /\ pc' \in {"closing", "lines"}
  BY <1>1, <1>3, TookIs DEF ClosedBy
<1>5. AtPart(S)
  BY <1>2 DEF InMessage, AtFirst, AtHead, Through
<1>6. AtPart(S)'
  BY <1>2, <1>4, <1>5 DEF AtPart
<1> QED
  BY <1>2, <1>6 DEF InMessage, NothingBad

LEMMA MessageHeader ==
    ASSUME NInv, NEW n, NEW L, NEW S, Laid(n, L, S), InMessage(n, L, S), Header \/ OtherHeader \/ HeaderError
    PROVE  InMessage(n, L, S)'
<1>1. TypeOK /\ pc = "header"
  BY DEF NInv, IInv, Header, OtherHeader, HeaderError
<1>2. stream \in Seq(Symbols) /\ at \in Nat /\ at \in 0 .. Len(stream) /\ partsRead \in Nat /\ n \in Nat
  BY <1>1, Facts, TypeParts DEF FlagsOK, Laid
<1>3. PICK M \in Nat : M = Len(stream)
  BY <1>2, LenProperties
<1>4. AtHead(L) /\ partsRead \in 1 .. n
  BY <1>1, <1>2 DEF InMessage, AtFirst, AtPart, Through, AtHead
<1>5. PICK p \in 1 .. n : p = partsRead
  BY <1>4
<1>6. PICK l \in Nat : l = L[p]
  <2>1. p \in 1 .. n + 1
    BY <1>2
  <2> QED
    BY <2>1 DEF Laid
<1>7. at = l + 5 /\ Opening(l, S[p])
  BY <1>4, <1>5, <1>6 DEF AtHead, Laid
<1>8. Rest = View(at, M) /\ at \in 0 .. M /\ M \in 0 .. Len(stream) /\ <<"H">> \in Seq(Symbols) /\ Len(<<"H">>) = 1
  BY <1>2, <1>3 DEF Rest, View, Symbols
<1>9. AtHeader <=> Stands(<<"H">>, at, M)
  <2>1. AtHeader <=> IsPrefix(<<"H">>, View(at, M))
    BY <1>8 DEF AtHeader
  <2> QED
    BY <1>2, <1>8, <2>1, PrefixIs
<1>10. ASSUME at' = S[p], NewPart("part"), UNCHANGED <<stream, ending, nl, partsRead>>
       PROVE  InMessage(n, L, S)'
  <2>1. pc' = "idle" /\ ret' = "part" /\ part'.open /\ start' = S[p]
    BY <1>10 DEF NewPart, Returns
  <2>2. AtPart(S)'
    BY <1>4, <1>5, <1>10, <2>1 DEF AtPart
  <2> QED
    BY <1>10, <2>1, <2>2 DEF InMessage, NothingBad
<1>11. CASE Stands(<<"H">>, at, M)
  <2>1. AtHeader
    BY <1>9, <1>11
  <2>2. Header
    BY <2>1 DEF OtherHeader, HeaderError
  <2>3. at' = at + 1 /\ NewPart("part") /\ UNCHANGED <<stream, ending, nl, partsRead>>
    BY <2>2 DEF Header, Advance, NewPart
  <2>4. S[p] = l + 6
    <3> SUFFICES ASSUME Stands(CR, l + 5, M) PROVE FALSE
      BY <1>3, <1>7 DEF Opening
    <3>1. stream[at + 1] = "cr"
      BY <1>2, <1>7, CRStands
    <3>2. stream[at + 1] = "H"
      <4>1. PICK t : t = <<"H">> /\ Len(t) = 1
        BY <1>8
      <4>2. t[1] = "H"
        BY <4>1
      <4> QED
        BY <1>11, <4>1, <4>2 DEF Stands
    <3> QED
      BY <3>1, <3>2
  <2>5. at' = S[p]
    BY <1>7, <2>3, <2>4
  <2> QED
    BY <1>10, <2>3, <2>5
<1>12. CASE ~Stands(<<"H">>, at, M)
  <2>1. ~AtHeader /\ Stands(CR, at, M) /\ S[p] = l + 7
    BY <1>3, <1>7, <1>9, <1>12 DEF Opening
  <2>2. stream[at + 1] = "cr" /\ stream[at + 2] = "lf" /\ at + 2 <= M
    BY <1>2, <2>1, CRStands
  <2>3. LineEnds(at, at + 2)
    <3>1. \A i \in at + 1 .. (at + 2) - 1 : i = at + 1
      BY <1>2
    <3> QED
      BY <1>2, <1>3, <2>2, <3>1 DEF LineEnds, NoLF
  <2>4. at + 2 \in Nat
    BY <1>2
  <2>5. FirstLF = (at + 2) - at /\ SubSeq(Rest, 1, FirstLF) = View(at, at + 2)
    BY <1>1, <2>3, <2>4, LineIs
  <2>6. FirstLF = 2
    BY <1>2, <2>5
  <2>7. View(at, at + 2) = CR
    <3>1. at + 2 \in 0 .. Len(stream) /\ at \in 0 .. at + 2 /\ Len(CR) = 2
      BY <1>2, <1>3, <2>2, Words
    <3>2. Stands(CR, at, at + 2)
      BY <2>1, <3>1 DEF Stands
    <3>3. nl = CR
      BY DEF InMessage
    <3>4. nl \in {CR, LF}
      BY <3>3
    <3> QED
      BY <1>2, <3>1, <3>2, <3>3, <3>4, ViewNl
  <2>8. OtherHeader
    BY <2>1, <2>6 DEF Header, HeaderError
  <2>9. SubSeq(Rest, 1, FirstLF) \in {<<"lf">>, <<"cr", "lf">>}
    BY <2>5, <2>7 DEF CR
  <2>10. at' = at + 2 /\ NewPart("part") /\ UNCHANGED <<stream, ending, nl, partsRead>>
    <3>1. at' = at + FirstLF /\ NewPart("part")
      BY <2>8, <2>9, Zenon DEF OtherHeader, Advance
    <3> QED
      BY <2>6, <3>1 DEF NewPart
  <2>11. at' = S[p]
    BY <1>7, <2>1, <2>10
  <2> QED
    BY <1>10, <2>10, <2>11
<1> QED
  BY <1>11, <1>12

LEMMA MessageLine ==
    ASSUME NInv, NEW n, NEW L, NEW S, Laid(n, L, S), InMessage(n, L, S), NextLine
    PROVE  InMessage(n, L, S)'
<1>1. TypeOK /\ CountInv /\ pc = "lines" /\ UNCHANGED <<stream, ending, start>>
  BY DEF NextLine, NInv, IInv
<1>2. stream \in Seq(Symbols) /\ at \in Nat /\ at \in 0 .. Len(stream) /\ partsRead \in Nat /\ n \in Nat /\ nl = CR
  BY <1>1, Facts, TypeParts DEF FlagsOK, Laid, InMessage
<1>3. CASE AtFirst(n)
  <2>1. PICK c \in Nat, v \in {"none", "eof", "part"} : FirstLineIs(n, c, v)
    BY <1>1, <1>2, <1>3, FirstLine
  <2>2. LineEnds(at, c) /\ partsRead = 0 /\ expect = FALSE /\ ~part.some
    BY <1>1, <1>3, <2>1 DEF FirstLineIs, AtFirst, CountInv, TypeOK
  <2>3. SubSeq(Rest, 1, FirstLF) = View(at, c) /\ at + FirstLF = c
    BY <1>1, <2>2, LineIs
  <2>4. Judge([nl |-> nl, expect |-> expect, verdict |-> "none"], SubSeq(Rest, 1, FirstLF)) = [nl |-> nl, verdict |-> v, expect |-> FALSE]
    BY <2>1, <2>2, <2>3 DEF FirstLineIs
  <2>5. PICK st : /\ st = [nl |-> nl, verdict |-> v, expect |-> FALSE]
                  /\ nl' = st.nl /\ at' = at + FirstLF
                  /\ CASE st.verdict = "none" -> UNCHANGED <<pc, ret, partsRead, part, ended, checked>>
                       [] st.verdict = "part" -> /\ pc' = "header" /\ partsRead' = partsRead + 1
                                                 /\ UNCHANGED <<ret, part, ended, checked>>
                       [] OTHER -> Returns(st.verdict) /\ Closed /\ UNCHANGED partsRead
    BY <2>4, Zenon DEF NextLine, Advance
  <2>6. nl' = nl /\ st.verdict = v /\ at' = c
    BY <2>3, <2>5
  <2>7. CASE n = 0 /\ at = 0 /\ c = 2 /\ v = "none"
    <3>1. UNCHANGED <<pc, ret, partsRead, part>>
      BY <2>5, <2>6, <2>7
    <3>2. AtFirst(n)'
      BY <1>1, <2>2, <2>6, <2>7, <3>1 DEF AtFirst
    <3> QED
      BY <1>1, <2>6, <3>1, <3>2 DEF InMessage, NothingBad
  <2>8. CASE n = 0 /\ v = "eof"
    <3>1. Returns("eof") /\ UNCHANGED partsRead
      BY <2>5, <2>6, <2>8
    <3>2. Through(n)' /\ NothingBad'
      BY <2>2, <2>8, <3>1 DEF Returns, Through, NothingBad
    <3> QED
      BY <1>1, <2>6, <3>1, <3>2 DEF InMessage
  <2>9. CASE n > 0 /\ c = 5 /\ v = "part"
    <3>1. pc' = "header" /\ partsRead' = 1 /\ UNCHANGED ret
      BY <2>2, <2>5, <2>6, <2>9
    <3>2. at' = L[1] + 5 /\ 1 <= n
      BY <1>2, <2>6, <2>9 DEF Laid
    <3>3. AtHead(L)'
      BY <3>1, <3>2 DEF AtHead
    <3> QED
      BY <1>1, <2>6, <3>1, <3>2, <3>3 DEF InMessage, NothingBad
  <2> QED
    BY <2>1, <2>7, <2>8, <2>9 DEF FirstLineIs
<1>4. CASE AtPart(S)
  <2>1. /\ Orderly /\ LineBegin = L[partsRead + 1] /\ partsRead \in 1 .. n /\ part.open
        /\ Foretold = IF partsRead < n THEN "part" ELSE "eof"
    BY <1>1, <1>4, InPart DEF AtPart
  <2>2. BetweenLines
    BY <1>1, <2>1 DEF NInv, BetweenInv, LinesInv
  <2>3. OverBlank \/ FoundPart \/ FoundNoMore
    BY <1>1, <2>1, <2>2, LineStep
  <2>4. nl' = nl /\ at' = at + FirstLF
    <3>1. PICK st : LineFound(st)
      BY <1>1, NextLineIs
    <3> QED
      BY <2>1, <3>1 DEF LineFound, NextLine, Advance
  <2>5. CASE OverBlank
    <3>1. UNCHANGED <<partsRead, ret>>
      <4>1. PICK st : LineFound(st)
        BY <1>1, NextLineIs
      <4>2. st.verdict = "none"
        BY <2>5, <4>1 DEF OverBlank, LineFound, Returns, Verdicts
      <4> QED
        BY <4>1, <4>2 DEF LineFound
    <3>2. AtPart(S)'
      BY <1>1, <1>4, <2>5, <3>1 DEF OverBlank, AtPart
    <3> QED
      BY <1>1, <2>4, <3>1, <3>2 DEF InMessage, NothingBad
  <2>6. CASE FoundPart
    <3>1. at = L[partsRead + 1] /\ partsRead < n /\ pc' = "header" /\ partsRead' = partsRead + 1
      BY <2>1, <2>6 DEF FoundPart
    <3>2. partsRead + 1 \in 1 .. n
      BY <1>2, <2>1, <3>1
    <3>3. Opening(at, S[partsRead + 1]) /\ S[partsRead + 1] \in Nat
      BY <3>1, <3>2 DEF Laid
    <3>4. LineEnds(at, at + 5)
      BY <1>2, <3>3, OpeningLine
    <3>5. at' = L[partsRead + 1] + 5
      <4>1. at + 5 \in Nat
        BY <1>2
      <4>2. at + FirstLF = at + 5
        BY <1>1, <3>4, <4>1, LineIs
      <4> QED
        BY <2>4, <3>1, <4>2
    <3>6. AtHead(L)' /\ partsRead' <= n
      BY <3>1, <3>2, <3>5 DEF AtHead
    <3>7. UNCHANGED ret
      <4>1. PICK st : LineFound(st)
        BY <1>1, NextLineIs
      <4>2. st.verdict = "part"
        BY <1>1, <3>1, <4>1 DEF LineFound, Returns, Verdicts
      <4> QED
        BY <4>1, <4>2 DEF LineFound
    <3> QED
      BY <1>1, <2>4, <3>6, <3>7 DEF InMessage, NothingBad
  <2>7. CASE FoundNoMore
    <3>1. Through(n)' /\ NothingBad' /\ partsRead' = partsRead
      BY <1>2, <2>1, <2>7 DEF FoundNoMore, Through, NothingBad
    <3> QED
      BY <1>1, <2>4, <3>1 DEF InMessage
  <2> QED
    BY <2>3, <2>5, <2>6, <2>7
<1> QED
  BY <1>1, <1>3, <1>4 DEF InMessage, AtHead, Through

LEMMA MessageNoLine ==
    ASSUME NInv, NEW n, NEW L, NEW S, Laid(n, L, S), InMessage(n, L, S), NoLine
    PROVE  InMessage(n, L, S)'
<1>1. TypeOK /\ CountInv /\ pc = "lines" /\ UNCHANGED <<stream, ending, start, nl>>
  BY DEF NoLine, NInv, IInv
<1>2. at \in Nat /\ PeekSize \in Nat /\ PeekSize >= 7 /\ nl = CR /\ partsRead \in Nat /\ n \in Nat
  BY <1>1, Facts, TypeParts DEF FlagsOK, Laid, InMessage
<1>3. CASE AtFirst(n)
  <2>1. PICK c \in Nat : LineEnds(at, c) /\ c <= at + 7
    BY <1>1, <1>2, <1>3, FirstLine DEF FirstLineIs
  <2>2. FirstLF = c - at /\ at < c
    BY <1>1, <2>1, LineIs
  <2>3. FirstLF \in 1 .. PeekSize
    BY <1>2, <2>1, <2>2
  <2> QED
    BY <2>3 DEF NoLine
<1>4. CASE AtPart(S)
  <2>1. /\ Orderly /\ partsRead \in 1 .. n /\ part.open
        /\ Foretold = IF partsRead < n THEN "part" ELSE "eof"
    BY <1>1, <1>4, InPart DEF AtPart
  <2>2. BetweenLines
    BY <1>1, <2>1 DEF NInv, BetweenInv, LinesInv
  <2>3. FoundNoMore
    BY <1>1, <2>1, <2>2, NoLineStep
  <2>4. Through(n)' /\ NothingBad' /\ partsRead' = partsRead
    BY <1>2, <2>1, <2>3 DEF FoundNoMore, Through, NothingBad
  <2> QED
    BY <1>1, <2>4 DEF InMessage
<1> QED
  BY <1>1, <1>3, <1>4 DEF InMessage, AtHead, Through

(* The reader goes through a message from boundary to boundary.             *)
LEMMA MessageStep ==
    ASSUME NInv, NEW n, NEW L, NEW S, Laid(n, L, S), InMessage(n, L, S),
           (\E k \in Sizes : Read(k)) \/ NextPart \/ Proceed
    PROVE  InMessage(n, L, S)'
BY MessageRead, MessageNext, MessageClose, MessageHeader, MessageLine, MessageNoLine DEF Proceed

LEMMA MessageInit ==
    ASSUME Init, ending = "eof", NEW n \in Nat, NEW L, NEW S
    PROVE  InMessage(n, L, S)
<1>1. pc = "idle" /\ partsRead = 0 /\ at = 0 /\ ~part.some /\ nl = CR /\ ret = "none"
  BY DEF Init, NoPart, CR
<1>2. 0 <= n
  OBVIOUS
<1>3. partsRead <= n
  BY <1>1, <1>2, Zenon
<1>4. NothingBad /\ AtFirst(n)
  BY <1>1 DEF NothingBad, AtFirst
<1> QED
  BY <1>1, <1>3, <1>4, Zenon DEF InMessage

(* What the caller has got of a part is what has been written to it.        *)
LEMMA PartOfMessage ==
    ASSUME NInv, NEW n, NEW L, NEW S, Laid(n, L, S), InMessage(n, L, S), pc = "idle", part.open
    PROVE  /\ partsRead \in 1 .. n /\ S[partsRead] \in Nat /\ L[partsRead + 1] \in Nat
           /\ delivered \in Seq(Nat)
           /\ \A j \in 1 .. Len(delivered) : delivered[j] = S[partsRead] + j
           /\ S[partsRead] + Len(delivered) + 2 <= L[partsRead + 1]
           /\ ended => S[partsRead] + Len(delivered) + 2 = L[partsRead + 1]
<1>1. TypeOK /\ CountInv /\ TakenInv /\ EndInv
  BY DEF NInv, IInv
<1>2. AtPart(S)
  BY <1>1 DEF InMessage, AtFirst, AtHead, Through, CountInv
<1>3. PaddingFits /\ BodyEnd = L[partsRead + 1] - 2 /\ partsRead \in 1 .. n /\ start = S[partsRead]
  BY <1>1, <1>2, InPart DEF Orderly, AtPart
<1>4. partsRead + 1 \in 1 .. n + 1 /\ n \in Nat
  BY <1>3 DEF Laid
<1>5. L[partsRead + 1] \in Nat
  BY <1>4 DEF Laid
<1>6. at \in Nat /\ start \in Nat /\ start <= at
  BY <1>1, Facts
<1>7. delivered \in Seq(Nat) /\ part.buffer \in Seq(Nat)
  <2>1. delivered \in Seq(1 .. at) /\ part.buffer \in Seq(1 .. at) /\ 1 .. at \subseteq Nat
    BY <1>1, <1>6, TypeParts DEF PlacesOK, PartType
  <2> QED
    BY <2>1, SeqMonotonic
<1>8. delivered \o part.buffer = Taken(start, at) /\ at <= BodyEnd /\ (ended => start + Len(delivered) = BodyEnd)
  BY <1>1, <1>3 DEF TakenInv, EndInv
<1>9. PICK d \in Nat : d = Len(delivered)
  BY <1>7, LenProperties
<1>10. PICK b \in Nat : b = Len(part.buffer)
  BY <1>7, LenProperties
<1>11. Len(Taken(start, at)) = at - start /\ \A j \in 1 .. at - start : Taken(start, at)[j] = start + j
  BY <1>6, TakenIs
<1>12. Len(delivered \o part.buffer) = d + b /\ \A j \in 1 .. d : (delivered \o part.buffer)[j] = delivered[j]
  BY <1>7, <1>9, <1>10, ConcatProperties
<1>13. d + b = at - start
  BY <1>8, <1>11, <1>12
<1>14. \A j \in 1 .. d : j \in 1 .. at - start
  BY <1>6, <1>13
<1>15. \A j \in 1 .. d : delivered[j] = start + j
  BY <1>8, <1>11, <1>12, <1>14
<1>16. start + d + 2 <= L[partsRead + 1] /\ (ended => start + d + 2 = L[partsRead + 1])
  <2>1. PICK l \in Nat : l = L[partsRead + 1]
    BY <1>5
  <2>2. start + d <= at
    BY <1>6, <1>13
  <2>3. BodyEnd = l - 2
    BY <1>3, <2>1
  <2> QED
    BY <1>6, <1>8, <1>9, <2>1, <2>2, <2>3
<1> QED
  BY <1>3, <1>5, <1>6, <1>7, <1>9, <1>15, <1>16

=============================================================================
