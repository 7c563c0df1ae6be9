--------------------------- MODULE QPReaderProofs ---------------------------
(***************************************************************************)
(* Proofs about QPReader, for every size of the buffer and of the caller's *)
(* slices and for every stream: what Read delivers is what the stream      *)
(* decodes to.                                                             *)
(***************************************************************************)
EXTENDS QPReader, NatRecursion, SequenceTheorems

(* The bytes of the stream from behind a to b. *)
Stretch(a, b) == [j \in 1 .. b - a |-> a + j]

(* The bytes that are kept of a piece when it ends are real ones.           *)
PendingInv == \A k \in 0 .. hi - 1 : prev[k] \in 1 .. at

(* The invariant that every step preserves by itself.                       *)
IInv == TypeOK /\ PendingInv

-----------------------------------------------------------------------------
(* Sets of numbers up to a bound have a greatest one.                       *)
LEMMA GreatestNumber ==
    ASSUME NEW N \in Nat, NEW S \in SUBSET (1 .. N), S # {}
    PROVE  \E x \in S : \A y \in S : x >= y
<1> DEFINE T == { k \in Nat : \E y \in S : y + k = N }
<1>1. T \in SUBSET Nat /\ T # {}
  <2>1. PICK y \in S : TRUE
    OBVIOUS
  <2>2. N - y \in Nat /\ y + (N - y) = N
    BY <2>1
  <2> QED
    BY <2>1, <2>2
<1>2. PICK k \in T : \A l \in T : k <= l
  BY <1>1, LeastNumber
<1>3. PICK x \in S : x + k = N
  BY <1>2
<1>4. ASSUME NEW y \in S PROVE x >= y
  <2>1. N - y \in T
    <3>1. N - y \in Nat /\ y + (N - y) = N
      OBVIOUS
    <3> QED
      BY <3>1
  <2>2. k <= N - y
    BY <1>2, <2>1
  <2> QED
    BY <1>3, <2>2
<1> QED
  BY <1>3, <1>4

(* What is left of the stream, and its first line feed.                     *)
LEMMA RestIs ==
    ASSUME stream \in Seq(Symbols), at \in 0 .. Len(stream)
    PROVE  /\ Len(Rest) = Len(stream) - at /\ Len(Rest) \in Nat
           /\ DOMAIN Rest = 1 .. Len(Rest)
           /\ \A j \in 1 .. Len(Rest) : Rest[j] = at + j
           /\ Rest \in Seq(1 .. Len(stream))
<1>1. Len(stream) \in Nat /\ at \in Nat /\ at <= Len(stream) /\ Len(stream) - at \in Nat
  OBVIOUS
<1>2. Rest = [j \in 1 .. Len(stream) - at |-> at + j]
  BY DEF Rest
<1>3. Rest \in Seq(1 .. Len(stream))
  BY <1>1, <1>2
<1> QED
  BY <1>1, <1>2, <1>3

(* Where the next LF is, or that there is none.                             *)
LEMMA FirstLFIs ==
    ASSUME stream \in Seq(Symbols), at \in 0 .. Len(stream)
    PROVE  \/ FirstLF = 0 /\ \A j \in 1 .. Len(Rest) : stream[at + j] # "lf"
           \/ /\ FirstLF \in 1 .. Len(Rest) /\ stream[at + FirstLF] = "lf"
              /\ \A j \in 1 .. FirstLF - 1 : stream[at + j] # "lf"
<1> DEFINE I == { j \in 1 .. Len(Rest) : stream[Rest[j]] = "lf" }
<1>1. FirstLF = IF I # {} THEN Min(I) ELSE 0
  BY DEF FirstLF, SelectInSeq
<1>2. Len(Rest) \in Nat /\ \A j \in 1 .. Len(Rest) : Rest[j] = at + j
  BY RestIs
<1>3. CASE I = {}
  BY <1>1, <1>2, <1>3
<1>4. CASE I # {}
  <2>1. I \in SUBSET Nat
    BY <1>2
  <2>2. \E x \in I : \A y \in I : x <= y
    BY <1>4, <2>1, LeastNumber
  <2> HIDE DEF I
  <2>3. Min(I) \in I /\ \A y \in I : Min(I) <= y
    BY <2>2, Zenon DEF Min
  <2>4. FirstLF \in I /\ \A y \in I : FirstLF <= y
    BY <1>1, <1>4, <2>3
  <2>5. FirstLF \in 1 .. Len(Rest) /\ stream[at + FirstLF] = "lf"
    BY <1>2, <2>4 DEF I
  <2>6. ASSUME NEW j \in 1 .. FirstLF - 1, stream[at + j] = "lf" PROVE FALSE
    <3>1. j \in 1 .. Len(Rest) /\ Rest[j] = at + j
      BY <1>2, <2>5
    <3>2. j \in I
      BY <2>6, <3>1 DEF I
    <3> QED
      BY <1>2, <2>4, <2>5, <3>1, <3>2
  <2> QED
    BY <2>5, <2>6
<1> QED
  BY <1>3, <1>4

(* TrimRight leaves what ends with the last byte that is not white space.   *)
LEMMA TrimIs ==
    ASSUME stream \in Seq(Symbols), NEW s \in Seq(1 .. Len(stream))
    PROVE  \E m \in 0 .. Len(s) : /\ TrimRight(s) = SubSeq(s, 1, m)
                                  /\ m > 0 => stream[s[m]] \notin Space
                                  /\ \A k \in m + 1 .. Len(s) : stream[s[k]] \in Space
<1> DEFINE I == { k \in 1 .. Len(s) : stream[s[k]] \notin Space }
           m == IF I # {} THEN Max(I) ELSE 0
<1>1. TrimRight(s) = SubSeq(s, 1, m)
  BY DEF TrimRight, SelectLastInSeq
<1>2. Len(s) \in Nat
  OBVIOUS
<1>3. CASE I = {}
  <2>1. m = 0 /\ \A k \in 1 .. Len(s) : stream[s[k]] \in Space
    BY <1>3
  <2> HIDE DEF m
  <2> QED
    BY <1>1, <1>2, <2>1
<1>4. CASE I # {}
  <2>1. I \in SUBSET (1 .. Len(s))
    OBVIOUS
  <2> HIDE DEF I
  <2>2. \E x \in I : \A y \in I : x >= y
    BY <1>2, <1>4, <2>1, GreatestNumber
  <2>3. Max(I) \in I /\ \A y \in I : Max(I) >= y
    BY <2>2, Zenon DEF Max
  <2>4. m \in I /\ \A y \in I : m >= y
    BY <1>4, <2>3
  <2>5. m \in 1 .. Len(s) /\ stream[s[m]] \notin Space
    BY <2>4 DEF I
  <2> HIDE DEF m
  <2>6. \A k \in m + 1 .. Len(s) : stream[s[k]] \in Space
    <3> SUFFICES ASSUME NEW k \in m + 1 .. Len(s), stream[s[k]] \notin Space PROVE FALSE
      OBVIOUS
    <3>1. k \in 1 .. Len(s) /\ k > m
      BY <2>5
    <3>2. k \in I
      BY <3>1 DEF I
    <3> QED
      BY <2>4, <2>5, <3>1, <3>2
  <2> QED
    BY <1>1, <2>5, <2>6
<1> QED
  BY <1>3, <1>4

(* What bytes.HasPrefix asks.                                               *)
LEMMA PrefixIs ==
    ASSUME NEW p \in Seq(Symbols), NEW s \in Seq(Symbols)
    PROVE  IsPrefix(p, s) <=> Len(p) <= Len(s) /\ \A k \in 1 .. Len(p) : s[k] = p[k]
<1> DEFINE m == Len(p)
<1>1. m \in Nat /\ Len(s) \in Nat /\ \A k \in 1 .. Len(s) : s[k] \in Symbols
  OBVIOUS
<1>2. SubSeq(p, 1, m) = p
  BY SubSeqFull
<1>3. ASSUME m <= Len(s) PROVE SubSeq(p, 1, m) = SubSeq(s, 1, m) <=> \A k \in 1 .. m : s[k] = p[k]
  <2>1. /\ SubSeq(s, 1, m) \in Seq(Symbols) /\ Len(SubSeq(s, 1, m)) = m
        /\ \A k \in 1 .. m : SubSeq(s, 1, m)[k] = s[k]
    BY <1>1, <1>3
  <2> HIDE DEF m
  <2>2. (p = SubSeq(s, 1, m)) <=> \A k \in 1 .. m : p[k] = SubSeq(s, 1, m)[k]
    BY <2>1, SeqEqual, Zenon DEF m
  <2> QED
    BY <1>2, <2>1, <2>2
<1> QED
  BY <1>3 DEF IsPrefix, m

(* The ends of line that the code looks for.                                *)
LEMMA BytesIs ==
    ASSUME stream \in Seq(Symbols), NEW s \in Seq(1 .. Len(stream))
    PROVE  /\ Bytes(s) \in Seq(Symbols) /\ Len(Bytes(s)) = Len(s) /\ Len(s) \in Nat
           /\ \A k \in 1 .. Len(s) : Bytes(s)[k] = stream[s[k]]
<1>1. Len(s) \in Nat /\ DOMAIN s = 1 .. Len(s) /\ \A k \in 1 .. Len(s) : stream[s[k]] \in Symbols
  OBVIOUS
<1> QED
  BY <1>1 DEF Bytes

(* What bytes.HasSuffix asks of a line.                                     *)
LEMMA EndsLineIs ==
    ASSUME stream \in Seq(Symbols), NEW s \in Seq(1 .. Len(stream))
    PROVE  /\ \A x \in Symbols : EndsLine(s, <<x>>) <=> Len(s) >= 1 /\ stream[s[Len(s)]] = x
           /\ EndsLine(s, <<"cr", "lf">>) <=>
                  Len(s) >= 2 /\ stream[s[Len(s) - 1]] = "cr" /\ stream[s[Len(s)]] = "lf"
<1> DEFINE b == Bytes(s)
           r == Reverse(b)
<1>1. b \in Seq(Symbols) /\ Len(b) = Len(s) /\ Len(s) \in Nat /\ \A k \in 1 .. Len(s) : b[k] = stream[s[k]]
  BY BytesIs
<1> HIDE DEF b
<1>2. r \in Seq(Symbols) /\ Len(r) = Len(s) /\ \A k \in 1 .. Len(s) : r[k] = b[(Len(s) - k) + 1]
  BY <1>1 DEF Reverse
<1> HIDE DEF r
<1>3. \A k \in 1 .. Len(s) : r[k] = stream[s[(Len(s) - k) + 1]]
  BY <1>1, <1>2, SMTT(40)
<1>4. ASSUME NEW x \in Symbols PROVE EndsLine(s, <<x>>) <=> Len(s) >= 1 /\ stream[s[Len(s)]] = x
  <2>1. Reverse(<<x>>) = <<x>> /\ <<x>> \in Seq(Symbols)
    BY DEF Reverse
  <2>2. EndsLine(s, <<x>>) <=> IsPrefix(<<x>>, r)
    BY <2>1 DEF EndsLine, IsSuffix, r, b
  <2>3. IsPrefix(<<x>>, r) <=> 1 <= Len(r) /\ \A k \in 1 .. 1 : r[k] = <<x>>[k]
    BY <1>2, <2>1, PrefixIs
  <2>4. EndsLine(s, <<x>>) <=> 1 <= Len(r) /\ r[1] = x
    BY <2>2, <2>3
  <2> QED
    BY <1>1, <1>2, <1>3, <2>4
<1>5. EndsLine(s, <<"cr", "lf">>) <=> Len(s) >= 2 /\ stream[s[Len(s) - 1]] = "cr" /\ stream[s[Len(s)]] = "lf"
  <2>1. Reverse(<<"cr", "lf">>) = <<"lf", "cr">> /\ <<"lf", "cr">> \in Seq(Symbols)
    BY DEF Reverse, Symbols
  <2>2. EndsLine(s, <<"cr", "lf">>) <=> IsPrefix(<<"lf", "cr">>, r)
    BY <2>1 DEF EndsLine, IsSuffix, r, b
  <2>3. IsPrefix(<<"lf", "cr">>, r) <=> 2 <= Len(r) /\ \A k \in 1 .. 2 : r[k] = <<"lf", "cr">>[k]
    BY <1>2, <2>1, PrefixIs
  <2>4. EndsLine(s, <<"cr", "lf">>) <=> 2 <= Len(r) /\ r[1] = "lf" /\ r[2] = "cr"
    BY <2>2, <2>3
  <2>5. Len(s) >= 2 => r[1] = stream[s[Len(s)]] /\ r[2] = stream[s[Len(s) - 1]]
    <3> SUFFICES ASSUME Len(s) >= 2 PROVE r[1] = stream[s[Len(s)]] /\ r[2] = stream[s[Len(s) - 1]]
      OBVIOUS
    <3>1. 1 \in 1 .. Len(s) /\ 2 \in 1 .. Len(s) /\ (Len(s) - 2) + 1 = Len(s) - 1 /\ (Len(s) - 1) + 1 = Len(s)
      BY <1>1
    <3> QED
      BY <1>3, <3>1
  <2> QED
    BY <1>2, <2>4, <2>5
<1> QED
  BY <1>4, <1>5

(* Whether a line begins with an end of line.                               *)
LEMMA StartsLineIs ==
    ASSUME stream \in Seq(Symbols), NEW s \in Seq(1 .. Len(stream))
    PROVE  StartsLine(s) <=> \/ Len(s) >= 1 /\ stream[s[1]] = "lf"
                             \/ Len(s) >= 2 /\ stream[s[1]] = "cr" /\ stream[s[2]] = "lf"
<1> DEFINE b == Bytes(s)
<1>1. b \in Seq(Symbols) /\ Len(b) = Len(s) /\ Len(s) \in Nat /\ \A k \in 1 .. Len(s) : b[k] = stream[s[k]]
  BY BytesIs
<1>2. <<"lf">> \in Seq(Symbols) /\ <<"cr", "lf">> \in Seq(Symbols)
  BY DEF Symbols
<1> HIDE DEF b
<1>a. IsPrefix(<<"lf">>, b) <=> 1 <= Len(b) /\ \A k \in 1 .. 1 : b[k] = <<"lf">>[k]
  BY <1>1, <1>2, PrefixIs
<1>3. IsPrefix(<<"lf">>, b) <=> Len(b) >= 1 /\ b[1] = "lf"
  BY <1>1, <1>a
<1>4. IsPrefix(<<"cr", "lf">>, b) <=> 2 <= Len(b) /\ \A k \in 1 .. 2 : b[k] = <<"cr", "lf">>[k]
  BY <1>1, <1>2, PrefixIs
<1>5. IsPrefix(<<"cr", "lf">>, b) <=> Len(b) >= 2 /\ b[1] = "cr" /\ b[2] = "lf"
  BY <1>1, <1>4
<1> QED
  BY <1>1, <1>3, <1>5 DEF StartsLine, b

-----------------------------------------------------------------------------
(* A stretch of the stream and its part.                                    *)
LEMMA StretchIs ==
    ASSUME NEW a \in Nat, NEW b \in Nat, a <= b, NEW N \in Nat, b <= N
    PROVE  /\ Stretch(a, b) \in Seq(1 .. N) /\ Len(Stretch(a, b)) = b - a
           /\ DOMAIN Stretch(a, b) = 1 .. b - a
           /\ \A k \in 1 .. b - a : Stretch(a, b)[k] = a + k
BY DEF Stretch

(* A part of a stretch is a stretch.                                        *)
LEMMA StretchPart ==
    ASSUME NEW a \in Nat, NEW b \in Nat, a <= b,
           NEW l \in 0 .. b - a, NEW m \in l .. b - a
    PROVE  SubSeq(Stretch(a, b), l + 1, m) = Stretch(a + l, a + m)
<1> DEFINE s == Stretch(a, b)
           u == SubSeq(s, l + 1, m)
           v == Stretch(a + l, a + m)
<1>1. l \in Nat /\ m \in Nat /\ l <= m /\ m <= b - a
  OBVIOUS
<1>2. s \in Seq(1 .. b) /\ Len(s) = b - a /\ \A k \in 1 .. b - a : s[k] = a + k
  BY StretchIs
<1>3. v \in Seq(1 .. b) /\ Len(v) = m - l /\ \A k \in 1 .. m - l : v[k] = (a + l) + k
  <2>1. a + l \in Nat /\ a + m \in Nat /\ a + l <= a + m /\ a + m <= b /\ (a + m) - (a + l) = m - l
    BY <1>1
  <2> QED
    BY <2>1, StretchIs
<1> HIDE DEF s, v
<1>4. u \in Seq(1 .. b) /\ Len(u) = m - l /\ \A k \in 1 .. m - l : u[k] = s[l + k]
  <2>1. \A k \in l + 1 .. m : s[k] \in 1 .. b
    BY <1>1, <1>2
  <2>2. /\ u \in Seq(1 .. b) /\ Len(u) = (IF l + 1 <= m THEN m - (l + 1) + 1 ELSE 0)
        /\ \A k \in 1 .. m - (l + 1) + 1 : u[k] = s[(l + 1) + k - 1]
    BY <1>1, <2>1, SubSeqProperties
  <2>3. \A k \in 1 .. m - l : (l + 1) + k - 1 = l + k
    BY <1>1
  <2>4. m - (l + 1) + 1 = m - l /\ (IF l + 1 <= m THEN m - (l + 1) + 1 ELSE 0) = m - l
    BY <1>1
  <2> HIDE DEF u
  <2> QED
    BY <2>2, <2>3, <2>4
<1> HIDE DEF u
<1>5. \A k \in 1 .. m - l : u[k] = v[k]
  <2> SUFFICES ASSUME NEW k \in 1 .. m - l PROVE u[k] = v[k]
    OBVIOUS
  <2>1. l + k \in 1 .. b - a /\ a + (l + k) = (a + l) + k
    BY <1>1
  <2> QED
    BY <1>2, <1>3, <1>4, <2>1
<1>6. u = v
  BY <1>3, <1>4, <1>5, SeqEqual
<1> QED
  BY <1>6 DEF u, v, s

(* ReadSlice gives what there is up to the first line feed, or all.         *)
Line(c) ==
    /\ c \in at .. Len(stream)
    /\ \A j \in at + 1 .. c - 1 : stream[j] # "lf"
    /\ c = Len(stream) \/ (c > at /\ stream[c] = "lf")
    /\ FirstLF = 0 => c = Len(stream) /\ (c > at => stream[c] # "lf")

(* What ReadSlice returns: a stretch that ends with the next LF or the      *)
(* stream.                                                                  *)
LEMMA WholeIs ==
    ASSUME stream \in Seq(Symbols), at \in 0 .. Len(stream)
    PROVE  \E c \in at .. Len(stream) :
               /\ Whole = Stretch(at, c) /\ Len(Whole) = c - at
               /\ Line(c)
               /\ FirstLF \in 1 .. Len(Rest) => c = at + FirstLF
<1>1. Len(stream) \in Nat /\ at \in Nat /\ at <= Len(stream)
  OBVIOUS
<1>2. Len(Rest) = Len(stream) - at
  BY RestIs
<1>3. Rest = Stretch(at, Len(stream))
  BY DEF Rest, Stretch
<1>4. CASE FirstLF = 0
  <2>1. \A j \in 1 .. Len(Rest) : stream[at + j] # "lf"
    BY <1>2, <1>4, FirstLFIs
  <2>2. \A j \in at + 1 .. Len(stream) : stream[j] # "lf"
    <3> SUFFICES ASSUME NEW j \in at + 1 .. Len(stream) PROVE stream[j] # "lf"
      OBVIOUS
    <3>1. j - at \in 1 .. Len(Rest) /\ at + (j - at) = j
      BY <1>1, <1>2
    <3> QED
      BY <2>1, <3>1
  <2>3. Whole = SubSeq(Rest, 1, Len(Rest))
    BY <1>4 DEF Whole
  <2>4. Rest \in Seq(1 .. Len(stream))
    BY RestIs
  <2>5. Whole = Stretch(at, Len(stream))
    BY <1>3, <2>3, <2>4, SubSeqFull
  <2>6. Line(Len(stream))
    BY <1>1, <2>2 DEF Line
  <2> QED
    BY <1>1, <1>2, <1>3, <1>4, <2>4, <2>5, <2>6
<1>5. CASE FirstLF # 0
  <2>1. /\ FirstLF \in 1 .. Len(Rest) /\ stream[at + FirstLF] = "lf"
        /\ \A j \in 1 .. FirstLF - 1 : stream[at + j] # "lf"
    BY <1>5, FirstLFIs
  <2> DEFINE c == at + FirstLF
  <2>2. c \in Nat /\ c > at /\ c <= Len(stream) /\ c - at = FirstLF /\ FirstLF \in Nat
    BY <1>1, <1>2, <2>1
  <2>3. \A j \in at + 1 .. c - 1 : stream[j] # "lf"
    <3> SUFFICES ASSUME NEW j \in at + 1 .. c - 1 PROVE stream[j] # "lf"
      OBVIOUS
    <3>1. j - at \in 1 .. FirstLF - 1 /\ at + (j - at) = j
      BY <1>1, <2>2
    <3> QED
      BY <2>1, <3>1
  <2>4. Whole = SubSeq(Rest, 1, FirstLF)
    BY <1>5 DEF Whole
  <2>5. Whole = Stretch(at, c)
    <3>1. 0 \in 0 .. Len(stream) - at /\ FirstLF \in 0 .. Len(stream) - at /\ 0 + 1 = 1 /\ at + 0 = at
      BY <1>1, <2>2
    <3> QED
      BY <1>1, <1>3, <2>4, <3>1, StretchPart
  <2>6. Len(Whole) = c - at
    BY <1>1, <2>2, <2>5, StretchIs
  <2>7. Line(c)
    BY <1>1, <1>5, <2>1, <2>2, <2>3 DEF Line
  <2> QED
    BY <2>2, <2>5, <2>6, <2>7
<1> QED
  BY <1>4, <1>5

(* What is made of a line: e is where its white space begins.               *)
Trimmed(a, e, c) ==
    /\ e \in a .. c /\ (e > a => stream[e] \notin Space)
    /\ \A j \in e + 1 .. c : stream[j] \in Space

(* A line break begins at j and ends by c.                                  *)
BreakAt(j, c) == (j <= c /\ stream[j] = "lf") \/ (j + 1 <= c /\ stream[j] = "cr" /\ stream[j + 1] = "lf")

(* The end of line that comes back behind h. *)
EndFrom(a, h, c) ==
    \/ h = c /\ (c > a => stream[c] # "lf")
    \/ h = c - 1 /\ h >= a /\ stream[c] = "lf" /\ (h > a => stream[h] # "cr")
    \/ h = c - 2 /\ h >= a /\ stream[c - 1] = "cr" /\ stream[c] = "lf"

(* What is left of a line once the white space at its end is gone.          *)
LEMMA DecodedIs ==
    ASSUME stream \in Seq(Symbols), NEW a \in Nat, NEW c \in Nat, a <= c, c <= Len(stream)
    PROVE  \E e \in a .. c :
               /\ Trimmed(a, e, c)
               /\ e > a /\ stream[e] = "=" =>
                      /\ Decoded(Stretch(a, c)).line = Stretch(a, e - 1)
                      /\ Decoded(Stretch(a, c)).bad <=> ~BreakAt(e + 1, c)
               /\ ~(e > a /\ stream[e] = "=") =>
                      /\ ~Decoded(Stretch(a, c)).bad
                      /\ \E h \in e .. c : /\ EndFrom(a, h, c)
                                           /\ Decoded(Stretch(a, c)).line = Stretch(a, e) \o Stretch(h, c)
<1> DEFINE w == Stretch(a, c)
           d == Decoded(w)
<1>1. Len(stream) \in Nat /\ "lf" \in Symbols /\ "=" \in Symbols /\ c - a \in Nat
  BY DEF Symbols
<1>2. w \in Seq(1 .. Len(stream)) /\ Len(w) = c - a /\ \A k \in 1 .. c - a : w[k] = a + k
  BY <1>1, StretchIs
<1>3. PICK m \in 0 .. c - a : /\ TrimRight(w) = SubSeq(w, 1, m)
                              /\ m > 0 => stream[w[m]] \notin Space
                              /\ \A k \in m + 1 .. c - a : stream[w[k]] \in Space
  BY <1>1, <1>2, TrimIs
<1> DEFINE e == a + m
<1>4. e \in a .. c /\ e - a = m /\ e \in Nat
  OBVIOUS
<1>5. Trimmed(a, e, c)
  <2>1. e > a => stream[e] \notin Space
    <3>1. m > 0 => w[m] = a + m
      BY <1>2
    <3> QED
      BY <1>3, <3>1
  <2>2. ASSUME NEW j \in e + 1 .. c PROVE stream[j] \in Space
    <3>1. j - a \in m + 1 .. c - a /\ j - a \in 1 .. c - a /\ a + (j - a) = j
      OBVIOUS
    <3> QED
      BY <1>2, <1>3, <3>1
  <2> HIDE DEF e
  <2> QED
    BY <1>4, <2>1, <2>2 DEF Trimmed
<1> DEFINE t == TrimRight(w)
           z == SubSeq(w, Len(t) + 1, Len(w))
<1>6. t = Stretch(a, e)
  <2>1. 0 \in 0 .. c - a /\ m \in 0 .. c - a /\ 0 + 1 = 1 /\ a + 0 = a
    BY <1>1
  <2>2. SubSeq(Stretch(a, c), 0 + 1, m) = Stretch(a + 0, a + m)
    BY <2>1, StretchPart
  <2>3. SubSeq(w, 1, m) = Stretch(a, a + m)
    BY <2>1, <2>2
  <2> QED
    BY <1>3, <2>3
<1> HIDE DEF t, w
<1>7. t \in Seq(1 .. Len(stream)) /\ Len(t) = m /\ \A k \in 1 .. m : t[k] = a + k
  <2>1. e \in Nat /\ a <= e /\ e <= Len(stream)
    BY <1>1, <1>4
  <2> HIDE DEF e
  <2>2. /\ Stretch(a, e) \in Seq(1 .. Len(stream)) /\ Len(Stretch(a, e)) = e - a
        /\ \A k \in 1 .. e - a : Stretch(a, e)[k] = a + k
    BY <1>1, <2>1, StretchIs
  <2> QED
    BY <1>4, <1>6, <2>2
<1>8. z = Stretch(e, c)
  <2>1. m \in 0 .. c - a /\ c - a \in m .. c - a /\ a + (c - a) = c
    BY <1>1
  <2>2. Len(t) = m /\ Len(w) = c - a
    BY <1>2, <1>7
  <2>3. SubSeq(Stretch(a, c), m + 1, c - a) = Stretch(a + m, a + (c - a))
    BY <2>1, StretchPart
  <2> QED
    BY <2>1, <2>2, <2>3 DEF w
<1> HIDE DEF z
<1>9. z \in Seq(1 .. Len(stream)) /\ Len(z) = c - e /\ \A k \in 1 .. c - e : z[k] = e + k
  <2>1. e \in Nat /\ e <= c /\ c <= Len(stream)
    BY <1>1, <1>4
  <2> HIDE DEF e
  <2> QED
    BY <1>1, <1>8, <2>1, StretchIs
<1> DEFINE eol == IF EndsLine(w, <<"cr", "lf">>) THEN 2 ELSE IF EndsLine(w, <<"lf">>) THEN 1 ELSE 0
<1>10. d = IF EndsLine(t, <<"=">>)
           THEN [line |-> SubSeq(t, 1, Len(t) - 1), bad |-> ~StartsLine(z)]
           ELSE [line |-> t \o SubSeq(w, Len(w) - eol + 1, Len(w)), bad |-> FALSE]
  BY DEF Decoded, t, z
<1>11. EndsLine(t, <<"=">>) <=> e > a /\ stream[e] = "="
  <2>1. EndsLine(t, <<"=">>) <=> m >= 1 /\ stream[t[m]] = "="
    BY <1>1, <1>7, EndsLineIs
  <2>2. m >= 1 => t[m] = a + m
    BY <1>7
  <2> QED
    BY <2>1, <2>2
<1> HIDE DEF d, t, z, w
<1>12. CASE e > a /\ stream[e] = "="
  <2>1. d.line = SubSeq(t, 1, m - 1) /\ (d.bad <=> ~StartsLine(z))
    BY <1>7, <1>10, <1>11, <1>12
  <2>2. SubSeq(t, 1, m - 1) = Stretch(a, e - 1)
    <3>1. 0 \in 0 .. e - a /\ m - 1 \in 0 .. e - a /\ 0 + 1 = 1 /\ a + 0 = a /\ a + (m - 1) = e - 1 /\ a <= e
      BY <1>12
    <3> HIDE DEF e
    <3>2. SubSeq(Stretch(a, e), 0 + 1, m - 1) = Stretch(a + 0, a + (m - 1))
      BY <1>4, <3>1, StretchPart
    <3> QED
      BY <1>6, <3>1, <3>2
  <2>3. StartsLine(z) <=> BreakAt(e + 1, c)
    <3>1. StartsLine(z) <=> \/ c - e >= 1 /\ stream[z[1]] = "lf"
                            \/ c - e >= 2 /\ stream[z[1]] = "cr" /\ stream[z[2]] = "lf"
      BY <1>9, StartsLineIs
    <3>2. (c - e >= 1 => z[1] = e + 1) /\ (c - e >= 2 => z[2] = e + 2)
      BY <1>9
    <3>3. (c - e >= 1 <=> e + 1 <= c) /\ (c - e >= 2 <=> (e + 1) + 1 <= c) /\ (e + 1) + 1 = e + 2
      BY <1>4
    <3>4. c - e >= 2 => c - e >= 1
      BY <1>4
    <3> HIDE DEF e
    <3> QED
      BY <3>1, <3>2, <3>3, <3>4 DEF BreakAt
  <2> QED
    BY <1>4, <1>5, <1>12, <2>1, <2>2, <2>3 DEF d, w
<1>13. CASE ~(e > a /\ stream[e] = "=")
  <2>1. d.line = t \o SubSeq(w, (c - a) - eol + 1, c - a) /\ ~d.bad
    BY <1>2, <1>10, <1>11, <1>13
  <2>2. EndsLine(w, <<"lf">>) <=> c - a >= 1 /\ stream[w[c - a]] = "lf"
    BY <1>1, <1>2, EndsLineIs
  <2>3. EndsLine(w, <<"cr", "lf">>) <=> c - a >= 2 /\ stream[w[(c - a) - 1]] = "cr" /\ stream[w[c - a]] = "lf"
    BY <1>1, <1>2, EndsLineIs
  <2>4. /\ c - a >= 1 => w[c - a] = c
        /\ c - a >= 2 => w[(c - a) - 1] = c - 1
    BY <1>2
  <2> DEFINE h == c - eol
  <2>5. EndFrom(a, h, c) /\ h \in a .. c
    <3>1. CASE EndsLine(w, <<"cr", "lf">>)
      BY <2>3, <2>4, <3>1 DEF EndFrom
    <3>2. CASE ~EndsLine(w, <<"cr", "lf">>) /\ EndsLine(w, <<"lf">>)
      <4>1. h = c - 1 /\ h >= a /\ stream[c] = "lf"
        BY <2>2, <2>4, <3>2
      <4>2. h > a => stream[h] # "cr"
        BY <2>3, <2>4, <3>2, <4>1
      <4> HIDE DEF h
      <4> QED
        BY <4>1, <4>2 DEF EndFrom
    <3>3. CASE ~EndsLine(w, <<"cr", "lf">>) /\ ~EndsLine(w, <<"lf">>)
      BY <2>2, <2>4, <3>3 DEF EndFrom
    <3> QED
      BY <3>1, <3>2, <3>3
  <2>6. h \in e .. c
    <3>1. stream[c] = "lf" => e = a \/ e # c
      BY <1>5 DEF Trimmed, Space
    <3>2. stream[c - 1] = "cr" => e = a \/ e # c - 1
      BY <1>5 DEF Trimmed, Space
    <3> HIDE DEF h, e
    <3> QED
      BY <1>4, <2>5, <3>1, <3>2 DEF EndFrom
  <2>7. SubSeq(w, (c - a) - eol + 1, c - a) = Stretch(h, c)
    <3>1. (c - a) - eol = h - a /\ h - a \in 0 .. c - a /\ c - a \in h - a .. c - a /\ a + (h - a) = h /\ a + (c - a) = c
      BY <2>5
    <3> HIDE DEF h, eol
    <3>2. SubSeq(Stretch(a, c), (h - a) + 1, c - a) = Stretch(a + (h - a), a + (c - a))
      BY <3>1, StretchPart
    <3> QED
      BY <3>1, <3>2 DEF w
  <2> HIDE DEF h, e, eol
  <2> QED
    BY <1>4, <1>5, <1>6, <1>13, <2>1, <2>5, <2>6, <2>7 DEF d, w
<1> QED
  BY <1>12, <1>13

-----------------------------------------------------------------------------
(* What is known of a state, for the leaves below.                          *)
LEMMA Known ==
    ASSUME IInv
    PROVE  /\ stream \in Seq(Symbols) /\ Len(stream) \in Nat
           /\ at \in Nat /\ at <= Len(stream) /\ at \in 0 .. Len(stream)
           /\ line \in Seq(1 .. at) /\ line \in Seq(1 .. Len(stream)) /\ Len(line) \in Nat
           /\ DOMAIN line = 1 .. Len(line) /\ \A k \in 1 .. Len(line) : line[k] \in 1 .. at
           /\ line # <<>> <=> Len(line) >= 1
           /\ lo \in Nat /\ hi \in Nat /\ lo <= hi /\ hi <= 3 /\ Lasting = hi - lo /\ Lasting \in 0 .. 3
           /\ \A k \in lo .. hi - 1 : prev[k] \in 1 .. at
           /\ out \in Seq(Seq(1 .. at)) /\ room \in Nat
<1>1. stream \in Seq(Symbols) /\ at \in 0 .. Len(stream) /\ line \in Seq(1 .. at)
  BY DEF IInv, TypeOK
<1>2. Len(stream) \in Nat
  BY <1>1
<1>3. 1 .. at \subseteq 1 .. Len(stream)
  BY <1>1, <1>2
<1>4. line \in Seq(1 .. Len(stream))
  BY <1>1, <1>3, SeqMonotonic
<1>5. /\ lo \in Nat /\ hi \in Nat /\ lo <= hi /\ hi <= 3 /\ Lasting = hi - lo /\ Lasting \in 0 .. 3
      /\ \A k \in lo .. hi - 1 : prev[k] \in 1 .. at
  BY DEF IInv, TypeOK, PendingInv, MaxQPBuf, Lasting
<1>6. Len(line) \in Nat /\ DOMAIN line = 1 .. Len(line) /\ \A k \in 1 .. Len(line) : line[k] \in 1 .. at
  BY <1>1
<1>7. line # <<>> <=> Len(line) >= 1
  BY <1>1
<1> QED
  BY <1>1, <1>2, <1>4, <1>5, <1>6, <1>7 DEF IInv, TypeOK

(* One lemma for each operation: it keeps the invariant.                    *)
LEMMA InitOK == Init => IInv
<1> SUFFICES ASSUME Init PROVE IInv
  OBVIOUS
<1>1. stream \in Seq(Symbols) /\ ending \in {"eof", "fail"}
  BY StreamsAssumption DEF Init
<1>2. Len(stream) \in Nat
  BY <1>1
<1>3. TypeOK
  BY <1>1, <1>2 DEF Init, TypeOK, MaxQPBuf
<1>4. PendingInv
  BY DEF Init, PendingInv
<1> QED
  BY <1>3, <1>4 DEF IInv

(* The caller: a call, its return, and what follows the last one.           *)
LEMMA CallOK == ASSUME IInv, (\E k \in Sizes : Read(k)) \/ Return \/ Stopped PROVE IInv'
<1> USE DEF IInv, TypeOK, PendingInv
<1>1. CASE \E k \in Sizes : Read(k)
  BY <1>1, SizesAssumption DEF Read, source, reader, pending
<1>2. CASE Return
  BY <1>2 DEF Return, source, reader, pending
<1>3. CASE Stopped
  BY <1>3 DEF Stopped, vars, source, reader, pending
<1> QED
  BY <1>1, <1>2, <1>3

(* A fetch goes on in the stream, and what is out and held stays.           *)
LEMMA OnWith ==
    ASSUME IInv, UNCHANGED <<source, pending, pc, room, ret, out>>, at' \in Nat, at <= at', at' <= Len(stream),
           line' \in Seq(1 .. at'), full' \in BOOLEAN, err' \in {"nil", "eof", "fail"},
           first' \in {"nil", "full", "softbreak", "hex", "byte"}, cuts' \subseteq 1 .. at'
    PROVE  IInv'
<1>1. at \in Nat /\ 1 .. at \subseteq 1 .. at' /\ 0 .. at \subseteq 0 .. at'
  BY Known
<1>2. Seq(1 .. at) \subseteq Seq(1 .. at')
  BY <1>1, SeqMonotonic
<1>3. Seq(Seq(1 .. at)) \subseteq Seq(Seq(1 .. at'))
  BY <1>2, SeqMonotonic
<1>4. TypeOK'
  BY <1>1, <1>3 DEF IInv, TypeOK, source, pending
<1>5. PendingInv'
  BY <1>1 DEF IInv, PendingInv, pending
<1> QED
  BY <1>4, <1>5 DEF IInv

(* The buffer is full before the line ends.                                 *)
LEMMA FetchPieceOK == ASSUME IInv, FetchPiece PROVE IInv'
<1>k. at \in Nat /\ Len(stream) \in Nat /\ at <= Len(stream)
  BY Known
<1>1. BufSize \in Nat /\ BufSize >= 1 /\ BufSize <= Len(Rest) /\ Len(Rest) = Len(stream) - at
  BY Known, RestIs, BufSizeAssumption DEF FetchPiece
<1>2. line' = Stretch(at, at + BufSize)
  <2>1. Rest = Stretch(at, Len(stream))
    BY DEF Rest, Stretch
  <2>2. 0 \in 0 .. Len(stream) - at /\ BufSize \in 0 .. Len(stream) - at /\ 0 + 1 = 1 /\ at + 0 = at
    BY <1>1, <1>k
  <2>3. SubSeq(Stretch(at, Len(stream)), 0 + 1, BufSize) = Stretch(at + 0, at + BufSize)
    BY <1>k, <2>2, StretchPart
  <2> QED
    BY <2>1, <2>2, <2>3 DEF FetchPiece
<1>3. at' = at + BufSize /\ at' \in Nat /\ at <= at' /\ at' <= Len(stream)
  BY <1>1, <1>k DEF FetchPiece
<1>4. line' \in Seq(1 .. at')
  BY <1>2, <1>3, <1>k, StretchIs
<1>5. cuts' \subseteq 1 .. at'
  BY <1>1, <1>3, <1>k DEF FetchPiece, IInv, TypeOK
<1>6. full' \in BOOLEAN /\ err' \in {"nil", "eof", "fail"} /\ first' \in {"nil", "full", "softbreak", "hex", "byte"}
  BY DEF FetchPiece, AddError, IInv, TypeOK
<1> QED
  BY <1>3, <1>4, <1>5, <1>6, OnWith DEF FetchPiece

(* What a fetch of a line makes of line and at.                             *)
LEMMA FetchLineIs ==
    ASSUME IInv, FetchLine
    PROVE  \E c \in Nat, e \in Nat :
               /\ c = at' /\ at <= c /\ c <= Len(stream) /\ Line(c) /\ Trimmed(at, e, c)
               /\ e > at /\ stream[e] = "=" =>
                      /\ line' = Stretch(at, e - 1)
                      /\ first' = IF first = "nil" /\ ~BreakAt(e + 1, c) THEN "softbreak" ELSE first
               /\ ~(e > at /\ stream[e] = "=") =>
                      /\ first' = first
                      /\ \E h \in e .. c : EndFrom(at, h, c) /\ line' = Stretch(at, e) \o Stretch(h, c)
<1>1. PICK c \in at .. Len(stream) : Whole = Stretch(at, c) /\ Len(Whole) = c - at /\ Line(c)
  BY Known, WholeIs
<1>2. c \in Nat /\ at <= c /\ c <= Len(stream) /\ at + (c - at) = c
  BY <1>1, Known
<1> DEFINE d == Decoded(Stretch(at, c))
<1>3. line' = d.line /\ at' = c /\ (IF d.bad THEN AddError("softbreak") ELSE UNCHANGED first)
  BY <1>1, <1>2 DEF FetchLine
<1>4. PICK e \in at .. c :
           /\ Trimmed(at, e, c)
           /\ e > at /\ stream[e] = "=" => d.line = Stretch(at, e - 1) /\ (d.bad <=> ~BreakAt(e + 1, c))
           /\ ~(e > at /\ stream[e] = "=") =>
                  /\ ~d.bad
                  /\ \E h \in e .. c : EndFrom(at, h, c) /\ d.line = Stretch(at, e) \o Stretch(h, c)
  BY <1>2, Known, DecodedIs
<1> HIDE DEF d
<1>5. e \in Nat
  BY <1>4, <1>2, Known
<1>6. first' = IF d.bad /\ first = "nil" THEN "softbreak" ELSE first
  BY <1>3 DEF AddError
<1> QED
  BY <1>1, <1>2, <1>3, <1>4, <1>5, <1>6

(* A line, or the rest of the stream.                                       *)
LEMMA FetchLineOK == ASSUME IInv, FetchLine PROVE IInv'
<1>1. PICK c \in Nat, e \in Nat :
               /\ c = at' /\ at <= c /\ c <= Len(stream) /\ Line(c) /\ Trimmed(at, e, c)
               /\ e > at /\ stream[e] = "=" =>
                      /\ line' = Stretch(at, e - 1)
                      /\ first' = IF first = "nil" /\ ~BreakAt(e + 1, c) THEN "softbreak" ELSE first
               /\ ~(e > at /\ stream[e] = "=") =>
                      /\ first' = first
                      /\ \E h \in e .. c : EndFrom(at, h, c) /\ line' = Stretch(at, e) \o Stretch(h, c)
  BY FetchLineIs
<1>k. at \in Nat /\ Len(stream) \in Nat /\ at <= Len(stream)
  BY Known
<1>2. e <= c /\ at <= e
  BY <1>1, <1>k DEF Trimmed
<1>3. line' \in Seq(1 .. at')
  <2>1. CASE e > at /\ stream[e] = "="
    <3>1. e - 1 \in Nat /\ at <= e - 1 /\ e - 1 <= c
      BY <1>2, <2>1, <1>k
    <3> QED
      BY <1>1, <2>1, <3>1, <1>k, StretchIs
  <2>2. CASE ~(e > at /\ stream[e] = "=")
    <3>1. PICK h \in e .. c : line' = Stretch(at, e) \o Stretch(h, c)
      BY <1>1, <2>2
    <3>2. Stretch(at, e) \in Seq(1 .. c) /\ Stretch(h, c) \in Seq(1 .. c)
      <4>1. h \in Nat /\ h <= c
        BY <1>1
      <4>2. c \in Nat /\ c <= c /\ e \in Nat
        BY <1>1
      <4>3. Stretch(at, e) \in Seq(1 .. c)
        BY <1>2, <4>2, <1>k, StretchIs
      <4>4. Stretch(h, c) \in Seq(1 .. c)
        BY <4>1, <4>2, StretchIs
      <4> QED
        BY <4>3, <4>4
    <3> QED
      BY <1>1, <3>1, <3>2
  <2> QED
    BY <2>1, <2>2
<1>4. first' \in {"nil", "full", "softbreak", "hex", "byte"}
  BY <1>1 DEF IInv, TypeOK
<1>5. full' \in BOOLEAN /\ err' \in {"nil", "eof", "fail"} /\ cuts' \subseteq 1 .. at'
  <2>1. 1 .. at \subseteq 1 .. at'
    BY <1>1, <1>k
  <2>2. cuts' = cuts /\ full' = FALSE /\ err' \in {ending, err}
    BY DEF FetchLine
  <2> QED
    BY <2>1, <2>2 DEF IInv, TypeOK
<1> QED
  BY <1>1, <1>3, <1>4, <1>5, OnWith DEF FetchLine

(* What a turn of the loop leaves of line.                                  *)
LEMMA LineOn ==
    ASSUME IInv, NEW m \in 1 .. Len(line) + 1
    PROVE  /\ SubSeq(line, m, Len(line)) \in Seq(1 .. at)
           /\ Len(SubSeq(line, m, Len(line))) = Len(line) - m + 1
           /\ \A k \in 1 .. Len(line) - m + 1 : SubSeq(line, m, Len(line))[k] = line[m + k - 1]
<1>1. Len(line) \in Nat /\ \A k \in m .. Len(line) : line[k] \in 1 .. at
  <2>1. Len(line) \in Nat /\ \A k \in 1 .. Len(line) : line[k] \in 1 .. at
    BY Known
  <2> QED
    BY <2>1
<1>2. m <= Len(line) \/ m = Len(line) + 1
  BY <1>1
<1>3. /\ SubSeq(line, m, Len(line)) \in Seq(1 .. at)
      /\ Len(SubSeq(line, m, Len(line))) = IF m <= Len(line) THEN Len(line) - m + 1 ELSE 0
      /\ \A k \in 1 .. Len(line) - m + 1 : SubSeq(line, m, Len(line))[k] = line[m + k - 1]
  BY <1>1, SubSeqProperties
<1>4. (IF m <= Len(line) THEN Len(line) - m + 1 ELSE 0) = Len(line) - m + 1
  BY <1>1, <1>2
<1> QED
  BY <1>3, <1>4

(* A byte is taken off the line.                                            *)
LEMMA TailOn ==
    ASSUME IInv, line # <<>>
    PROVE  Tail(line) = SubSeq(line, 2, Len(line)) /\ 2 \in 1 .. Len(line) + 1 /\ Tail(line) \in Seq(1 .. at)
<1>1. line \in Seq(1 .. at) /\ Len(line) \in Nat /\ Len(line) >= 1
  BY Known
<1>2. Tail(line) = SubSeq(line, 2, Len(line))
  BY <1>1, TailIsSubSeq
<1>3. 2 \in 1 .. Len(line) + 1
  BY <1>1
<1> QED
  BY <1>1, <1>2, <1>3, LineOn

(* Something is stored in the caller's slice.                               *)
LEMMA EmitOne ==
    ASSUME IInv, NEW o, o \in Seq(1 .. at), Emit(o), room > 0
    PROVE  out' \in Seq(Seq(1 .. at)) /\ room' \in Nat
BY Known DEF Emit

(* A byte, and the two digits of an escape.                                 *)
LEMMA OneDigits ==
    ASSUME NEW N, NEW x \in 1 .. N, NEW y \in 1 .. N
    PROVE  <<x>> \in Seq(1 .. N) /\ <<x, y>> \in Seq(1 .. N)
OBVIOUS

(* A turn of the loop stays where the stream is.                            *)
LEMMA TurnOK ==
    ASSUME IInv, UNCHANGED <<source, at, full, err, cuts, ret>>, pc' \in {"idle", "loop", "ended"},
           line' \in Seq(1 .. at), first' \in {"nil", "full", "softbreak", "hex", "byte"},
           prev' \in [0 .. 3 -> 0 .. at], lo' \in 0 .. hi', hi' \in 0 .. 3,
           \A k \in 0 .. hi' - 1 : prev'[k] \in 1 .. at,
           room' \in Nat, out' \in Seq(Seq(1 .. at))
    PROVE  IInv'
BY DEF IInv, TypeOK, PendingInv, source, MaxQPBuf

(* The error that was met is returned.                                      *)
LEMMA ReturnErrorOK == ASSUME IInv, ReturnError PROVE IInv'
<1>1. /\ lo \in Nat /\ hi \in Nat /\ lo <= hi /\ hi <= 3 /\ Lasting = hi - lo /\ room \in Nat
      /\ \A k \in lo .. hi - 1 : prev[k] \in 1 .. at
      /\ out \in Seq(Seq(1 .. at))
  BY Known
<1> DEFINE m == IF Lasting < room THEN Lasting ELSE room
           u == [j \in 1 .. m |-> <<prev[lo + j - 1]>>]
<1>2. m \in 0 .. hi - lo /\ m \in 0 .. room
  BY <1>1
<1>3. out' = out \o u /\ lo' = lo + m /\ room' = room - m /\ hi' = hi /\ prev' = prev /\ ret' = Fn /\ pc' = "ended"
  BY DEF ReturnError
<1> HIDE DEF m
<1>4. u \in Seq(Seq(1 .. at))
  <2>1. ASSUME NEW j \in 1 .. m PROVE <<prev[lo + j - 1]>> \in Seq(1 .. at)
    <3>1. lo + j - 1 \in lo .. hi - 1
      BY <1>1, <1>2
    <3>2. prev[lo + j - 1] \in 1 .. at
      BY <1>1, <3>1
    <3> QED
      BY <3>2, OneDigits
  <2> QED
    BY <1>2, <2>1
<1> HIDE DEF u
<1>5. out' \in Seq(Seq(1 .. at))
  BY <1>1, <1>3, <1>4
<1>6. lo' \in 0 .. hi' /\ room' \in Nat
  BY <1>1, <1>2, <1>3
<1>7. ret' \in {"nil", "eof", "fail", "full", "softbreak", "hex", "byte"}
  BY <1>3 DEF Fn, IInv, TypeOK
<1>8. UNCHANGED <<source, reader, prev, hi, cuts>>
  BY DEF ReturnError
<1>9. TypeOK'
  BY <1>3, <1>5, <1>6, <1>7, <1>8 DEF IInv, TypeOK, source, reader
<1>10. PendingInv'
  BY <1>8 DEF IInv, PendingInv, reader
<1> QED
  BY <1>9, <1>10 DEF IInv

(* The kept "=" was that of a soft line break.                              *)
LEMMA SoftBreakOK == ASSUME IInv, SoftBreak PROVE IInv'
<1>1. Len(line) \in Nat /\ Len(line) >= 1 /\ line \in Seq(1 .. Len(stream)) /\ stream \in Seq(Symbols)
  BY Known DEF SoftBreak, Decoding
<1>2. (Len(line) >= 1 /\ stream[line[1]] = "lf") \/ Len(line) >= 2
  BY <1>1, StartsLineIs DEF SoftBreak
<1> DEFINE m == IF stream[line[1]] = "lf" THEN 2 ELSE 3
<1>3. m \in 1 .. Len(line) + 1
  BY <1>1, <1>2
<1>4. line' = SubSeq(line, m, Len(line))
  BY DEF SoftBreak
<1> HIDE DEF m
<1>5. line' \in Seq(1 .. at)
  BY <1>3, <1>4, LineOn
<1>6. lo' = 0 /\ hi' = 0 /\ UNCHANGED <<source, at, full, first, err, prev, pc, room, ret, out, cuts>>
  BY DEF SoftBreak
<1> QED
  BY <1>5, <1>6, TurnOK DEF IInv, TypeOK

(* One more byte is kept.                                                   *)
LEMMA SaveOneOK == ASSUME IInv, SaveOne PROVE IInv'
<1>1. Tail(line) \in Seq(1 .. at) /\ line[1] \in 1 .. at
  BY Known, TailOn DEF SaveOne, Decoding
<1>2. /\ prev' = [prev EXCEPT ![1] = line[1]] /\ lo' = 0 /\ hi' = 2 /\ line' = Tail(line)
      /\ UNCHANGED <<source, at, full, first, err, pc, room, ret, out, cuts>>
  BY DEF SaveOne
<1>3. prev \in [0 .. 3 -> 0 .. at] /\ hi - lo = 1 /\ lo \in Nat /\ hi \in Nat
  BY Known DEF IInv, TypeOK, SaveOne
<1>4. prev[0] \in 1 .. at
  BY <1>3 DEF IInv, PendingInv
<1>5. prev' \in [0 .. 3 -> 0 .. at] /\ \A k \in 0 .. hi' - 1 : prev'[k] \in 1 .. at
  BY <1>1, <1>2, <1>3, <1>4
<1>6. line' \in Seq(1 .. at) /\ lo' \in 0 .. hi' /\ hi' \in 0 .. 3 /\ room' \in Nat /\ out' \in Seq(Seq(1 .. at))
  BY <1>1, <1>2, Known
<1>7. pc' \in {"idle", "loop", "ended"} /\ first' \in {"nil", "full", "softbreak", "hex", "byte"}
  BY <1>2 DEF IInv, TypeOK
<1> QED
  BY <1>2, <1>5, <1>6, <1>7, TurnOK

(* The kept bytes meet those that follow.                                   *)
LEMMA JoinOK == ASSUME IInv, Join PROVE IInv'
<1>1. /\ Lasting \in 1 .. 3 /\ Lasting = hi - lo /\ lo \in Nat /\ hi \in 0 .. 3 /\ prev \in [0 .. 3 -> 0 .. at] /\ at \in Nat
      /\ Len(line) \in Nat /\ Len(line) >= 3 - Lasting
      /\ \A k \in 1 .. Len(line) : line[k] \in 1 .. at
      /\ room > 0
  <2>1. Lasting > 0 /\ room > 0 /\ line # <<>> /\ (Lasting = 1 => Len(line) >= 2)
    BY DEF Join, AtEscape, Decoding
  <2>2. Lasting \in 1 .. 3 /\ Len(line) \in Nat /\ Len(line) >= 1 /\ Len(line) >= 3 - Lasting
    BY <2>1, Known, SMTT(40)
  <2> QED
    BY <2>1, <2>2, Known DEF IInv, TypeOK
<1> DEFINE l == Lasting
           joined == [k \in 0 .. 3 |-> IF k \in l .. MaxQPBuf - 1 THEN line[k - l + 1] ELSE prev[k]]
           digits == <<joined[1], joined[2]>>
<1>2. /\ prev' = joined /\ line' = SubSeq(line, MaxQPBuf - l + 1, Len(line)) /\ hi' = MaxQPBuf
      /\ \/ Emit(digits) /\ lo' = MaxQPBuf /\ UNCHANGED first
         \/ Emit(<<joined[0]>>) /\ lo' = 1 /\ AddError("hex")
      /\ UNCHANGED <<source, at, full, err, pc, ret, cuts>>
  BY DEF Join
<1> HIDE DEF l
<1>3. \A k \in 0 .. 2 : joined[k] \in 1 .. at
  <2> SUFFICES ASSUME NEW k \in 0 .. 2 PROVE joined[k] \in 1 .. at
    OBVIOUS
  <2>1. CASE k >= l
    <3>1. k \in l .. MaxQPBuf - 1 /\ k - l + 1 \in 1 .. Len(line)
      BY <1>1, <2>1 DEF l, MaxQPBuf
    <3> QED
      BY <1>1, <3>1
  <2>2. CASE k < l
    <3>1. k \in 0 .. hi - 1 /\ k \notin l .. MaxQPBuf - 1
      BY <1>1, <2>2 DEF l
    <3>2. prev[k] \in 1 .. at
      BY <3>1 DEF IInv, PendingInv
    <3> QED
      BY <3>1, <3>2
  <2> QED
    BY <1>1, <2>1, <2>2 DEF l
<1>4. joined \in [0 .. 3 -> 0 .. at]
  <2> SUFFICES ASSUME NEW k \in 0 .. 3 PROVE joined[k] \in 0 .. at
    OBVIOUS
  <2>1. CASE k = 3
    BY <1>1, <2>1 DEF MaxQPBuf
  <2>2. CASE k \in 0 .. 2
    <3>1. joined[k] \in 1 .. at
      BY <1>3, <2>2
    <3> QED
      BY <3>1
  <2> QED
    BY <2>1, <2>2
<1> HIDE DEF joined
<1>5. line' \in Seq(1 .. at)
  <2>1. MaxQPBuf - l + 1 \in 1 .. Len(line) + 1
    BY <1>1 DEF l, MaxQPBuf
  <2> QED
    BY <1>2, <2>1, LineOn
<1>6. digits \in Seq(1 .. at) /\ <<joined[0]>> \in Seq(1 .. at)
  <2>1. joined[0] \in 1 .. at /\ joined[1] \in 1 .. at /\ joined[2] \in 1 .. at
    BY <1>3
  <2> QED
    BY <2>1, OneDigits
<1> HIDE DEF digits
<1>7. out' \in Seq(Seq(1 .. at)) /\ room' \in Nat
  BY <1>1, <1>2, <1>6, EmitOne
<1>8. first' \in {"nil", "full", "softbreak", "hex", "byte"} /\ lo' \in 0 .. hi' /\ hi' \in 0 .. 3
  BY <1>2 DEF AddError, IInv, TypeOK, MaxQPBuf
<1>9. \A k \in 0 .. hi' - 1 : prev'[k] \in 1 .. at
  BY <1>2, <1>3 DEF MaxQPBuf
<1>10. pc' \in {"idle", "loop", "ended"}
  BY <1>2 DEF IInv, TypeOK
<1> QED
  BY <1>2, <1>4, <1>5, <1>7, <1>8, <1>9, <1>10, TurnOK

(* What is kept is stored as it is.                                         *)
LEMMA FlushOK == ASSUME IInv, Flush PROVE IInv'
<1>1. Lasting > 0 /\ room > 0 /\ Emit(<<prev[lo]>>) /\ lo' = lo + 1 /\ UNCHANGED <<source, reader, prev, hi, pc, ret, cuts>>
  BY DEF Flush, Decoding
<1>2. prev[lo] \in 1 .. at /\ lo' \in 0 .. hi
  <2>1. lo \in Nat /\ hi \in Nat /\ hi - lo > 0 /\ \A k \in lo .. hi - 1 : prev[k] \in 1 .. at
    BY <1>1, Known
  <2>2. lo \in lo .. hi - 1
    BY <2>1
  <2> QED
    BY <1>1, <2>1, <2>2
<1>3. out' \in Seq(Seq(1 .. at)) /\ room' \in Nat
  BY <1>1, <1>2, OneDigits, EmitOne
<1> QED
  BY <1>1, <1>2, <1>3, TurnOK DEF IInv, TypeOK, PendingInv, reader, MaxQPBuf

(* An escape that is whole in the line.                                     *)
LEMMA EscapeOK == ASSUME IInv, Escape PROVE IInv'
<1>1. line # <<>> /\ room > 0 /\ Len(Tail(line)) >= 2
  BY DEF Escape, Escaped, Decoding, IsHex
<1>2. Len(line) \in Nat /\ Len(line) >= 3 /\ line[2] \in 1 .. at /\ line[3] \in 1 .. at
  <2>1. line \in Seq(1 .. at) /\ Len(line) >= 1 /\ Len(line) \in Nat
    BY <1>1, Known
  <2>2. Len(line) >= 3
    BY <1>1, <2>1
  <2>3. 2 \in 1 .. Len(line) /\ 3 \in 1 .. Len(line)
    BY <2>1, <2>2
  <2> QED
    BY <2>1, <2>2, <2>3, Known
<1>3. Emit(<<line[2], line[3]>>) /\ line' = SubSeq(line, 4, Len(line)) /\ UNCHANGED <<source, at, full, first, err, pending, pc, ret, cuts>>
  BY DEF Escape
<1>4. line' \in Seq(1 .. at)
  <2>1. 4 \in 1 .. Len(line) + 1
    BY <1>2
  <2> QED
    BY <1>3, <2>1, LineOn
<1>5. out' \in Seq(Seq(1 .. at)) /\ room' \in Nat
  BY <1>1, <1>2, <1>3, OneDigits, EmitOne
<1> QED
  BY <1>3, <1>4, <1>5, TurnOK DEF IInv, TypeOK, PendingInv, pending, MaxQPBuf

(* The beginning of an escape is kept.                                      *)
LEMMA SaveOK == ASSUME IInv, Save PROVE IInv'
<1>1. Len(line) \in 1 .. 2 /\ (\A k \in 1 .. Len(line) : line[k] \in 1 .. at) /\ at \in Nat
  <2>1. line # <<>> /\ Len(line) < 3
    BY DEF Save, Escaped, Decoding
  <2>2. Len(line) \in Nat /\ Len(line) >= 1 /\ (\A k \in 1 .. Len(line) : line[k] \in 1 .. at) /\ at \in Nat
    BY <2>1, Known
  <2>3. Len(line) \in 1 .. 2
    <3>1. Len(line) \in Nat /\ Len(line) >= 1 /\ Len(line) < 3
      BY <2>1, <2>2
    <3>2. \A m \in Nat : m >= 1 /\ m < 3 => m \in 1 .. 2
      OBVIOUS
    <3> QED
      BY <3>1, <3>2, Zenon
  <2> QED
    BY <2>2, <2>3
<1>2. /\ prev' = [k \in 0 .. 3 |-> IF k < Len(line) THEN line[k + 1] ELSE prev[k]]
      /\ lo' = 0 /\ hi' = Len(line) /\ line' = <<>>
      /\ UNCHANGED <<source, at, full, first, err, pc, room, ret, out, cuts>>
  BY DEF Save
<1>3. prev \in [0 .. 3 -> 0 .. at]
  BY DEF IInv, TypeOK
<1>4. \A k \in 0 .. hi' - 1 : prev'[k] \in 1 .. at
  BY <1>1, <1>2
<1>5. prev' \in [0 .. 3 -> 0 .. at]
  BY <1>1, <1>2, <1>3
<1>6. line' \in Seq(1 .. at) /\ lo' \in 0 .. hi' /\ hi' \in 0 .. 3
  BY <1>1, <1>2
<1> QED
  BY <1>2, <1>4, <1>5, <1>6, TurnOK DEF IInv, TypeOK

(* A byte that is stored as it is.                                          *)
LEMMA OneOK ==
    ASSUME IInv, line # <<>>, room > 0, Emit(<<line[1]>>), line' = Tail(line),
           first' \in {"nil", "full", "softbreak", "hex", "byte"},
           UNCHANGED <<source, at, full, err, pending, pc, ret, cuts>>
    PROVE  IInv'
<1>1. line' \in Seq(1 .. at) /\ line[1] \in 1 .. at
  BY Known, TailOn
<1>2. out' \in Seq(Seq(1 .. at)) /\ room' \in Nat
  BY <1>1, OneDigits, EmitOne
<1> QED
  BY <1>1, <1>2, TurnOK DEF IInv, TypeOK, PendingInv, pending, MaxQPBuf

(* An escape that is none.                                                  *)
LEMMA BadEscapeOK == ASSUME IInv, BadEscape PROVE IInv'
<1>1. first' \in {"nil", "full", "softbreak", "hex", "byte"}
  BY DEF BadEscape, AddError, IInv, TypeOK
<1> QED
  BY <1>1, OneOK DEF BadEscape, Escaped, Decoding

(* A byte that is no escape.                                                *)
LEMMA LiteralOK == ASSUME IInv, Literal PROVE IInv'
<1>1. first' \in {"nil", "full", "softbreak", "hex", "byte"}
  BY DEF Literal, AddError, IInv, TypeOK
<1> QED
  BY <1>1, OneOK DEF Literal, Decoding

(* Every step keeps the invariant.                                          *)
LEMMA StepOK == IInv /\ [Next]_vars => IInv'
<1> SUFFICES ASSUME IInv, [Next]_vars PROVE IInv'
  OBVIOUS
<1>1. CASE UNCHANGED vars
  BY <1>1 DEF vars, source, reader, pending, IInv, TypeOK, PendingInv
<1>2. CASE Next
  BY <1>2, CallOK, ReturnErrorOK, FetchPieceOK, FetchLineOK, SoftBreakOK, SaveOneOK, JoinOK, FlushOK,
     EscapeOK, SaveOK, BadEscapeOK, LiteralOK DEF Next, Loop
<1> QED
  BY <1>1, <1>2

(* So it always holds.                                                      *)
LEMMA Inductive == Spec => []IInv
<1> QED
  BY InitOK, StepOK, PTL DEF Spec

(* Every index that Read uses is within line, prev and last, and what it    *)
(* stores comes from what it has read, whatever the stream.                 *)
THEOREM TypeCorrect == Spec => []TypeOK
<1>1. IInv => TypeOK
  BY DEF IInv
<1> QED
  BY <1>1, Inductive, PTL

-----------------------------------------------------------------------------
(* What the stream decodes to.                                              *)
LEMMA EscapesIs ==
    ASSUME stream \in Seq(Symbols), NEW j \in Int
    PROVE  Escapes(j) <=> /\ j \in 1 .. Len(stream) /\ j + 1 \in 1 .. Len(stream) /\ j + 2 \in 1 .. Len(stream)
                          /\ stream[j] = "=" /\ stream[j + 1] \in HexDigits /\ stream[j + 2] \in HexDigits
BY DEF Escapes, Is

(* Bytes that never stay are white space.                                   *)
LEMMA TrailingIs ==
    ASSUME stream \in Seq(Symbols), NEW j \in 1 .. Len(stream), Trailing(j)
    PROVE  stream[j] \in Space
BY DEF Trailing

(* Those behind a soft line break as well.                                  *)
LEMMA AfterSoftIs ==
    ASSUME stream \in Seq(Symbols), NEW j \in 1 .. Len(stream), AfterSoft(j)
    PROVE  stream[j] \in Space
<1>1. PICK k \in 1 .. j - 1 : \A l \in k + 1 .. j : Is(l, Space)
  BY DEF AfterSoft
<1>2. j \in k + 1 .. j
  BY <1>1
<1>3. Is(j, Space)
  BY <1>1, <1>2
<1> QED
  BY <1>3 DEF Is

(* An escape is not at the end of its line, nor is it part of another one.  *)
LEMMA EscapeStays ==
    ASSUME stream \in Seq(Symbols), NEW j \in Int, Escapes(j)
    PROVE  Stays(j) /\ ~Soft(j)
<1>1. /\ j \in 1 .. Len(stream) /\ j + 1 \in 1 .. Len(stream) /\ j + 2 \in 1 .. Len(stream)
      /\ stream[j] = "=" /\ stream[j + 1] \in HexDigits /\ stream[j + 2] \in HexDigits
  BY EscapesIs
<1>2. ~Soft(j)
  <2>1. ~Trailing(j + 1)
    BY <1>1, TrailingIs DEF HexDigits, Space
  <2>2. j # Len(stream)
    BY <1>1
  <2> QED
    BY <2>1, <2>2 DEF Soft
<1>3. ~AfterSoft(j)
  BY <1>1, AfterSoftIs DEF Space
<1>4. ~Trailing(j)
  BY <1>1, TrailingIs DEF Space
<1>5. ~Escapes(j - 1) /\ ~Escapes(j - 2)
  <2>1. Escapes(j - 1) => stream[(j - 1) + 1] \in HexDigits
    BY EscapesIs
  <2>2. Escapes(j - 2) => stream[(j - 2) + 2] \in HexDigits
    BY EscapesIs
  <2>3. (j - 1) + 1 = j /\ (j - 2) + 2 = j
    OBVIOUS
  <2> QED
    BY <1>1, <2>1, <2>2, <2>3 DEF HexDigits
<1> QED
  BY <1>2, <1>3, <1>4, <1>5 DEF Stays

(* The digits of an escape do not stay: the escape does.                    *)
LEMMA DigitsGo ==
    ASSUME NEW j \in Int, Escapes(j)
    PROVE  ~Stays(j + 1) /\ ~Stays(j + 2)
<1>1. (j + 1) - 1 = j /\ (j + 2) - 2 = j
  OBVIOUS
<1>2. ~Stays(j + 1)
  BY <1>1 DEF Stays
<1>3. ~Stays(j + 2)
  BY <1>1 DEF Stays
<1> QED
  BY <1>2, <1>3

(* Where a line ends.                                                       *)
LEMMA LineEndIs ==
    ASSUME stream \in Seq(Symbols), NEW j \in Int
    PROVE  LineEnd(j) <=> /\ j \in 1 .. Len(stream)
                          /\ \/ stream[j] = "lf"
                             \/ j + 1 \in 1 .. Len(stream) /\ stream[j] = "cr" /\ stream[j + 1] = "lf"
BY DEF LineEnd, Is

(* In a well-formed stream a soft line break has its end of line.           *)
LEMMA SoftIs ==
    ASSUME stream \in Seq(Symbols), WellFormed, NEW j \in Int, Soft(j)
    PROVE  /\ j \in 1 .. Len(stream) /\ stream[j] = "=" /\ ~Escapes(j)
           /\ LineEnd(j + 1) /\ j + 1 \in 1 .. Len(stream)
<1>1. j \in 1 .. Len(stream) /\ stream[j] = "="
  BY DEF Soft, Is
<1>2. ~Escapes(j)
  BY EscapeStays
<1>3. Is(j, {"="}) /\ j \in DOMAIN stream
  BY <1>1 DEF Is
<1>4. LineEnd(j + 1)
  BY <1>2, <1>3 DEF WellFormed
<1> QED
  BY <1>1, <1>2, <1>4, LineEndIs

(* In a well-formed stream a "=" that begins no escape is a soft line       *)
(* break.                                                                   *)
LEMMA EqualsIs ==
    ASSUME stream \in Seq(Symbols), WellFormed, NEW j \in 1 .. Len(stream), stream[j] = "=", ~Escapes(j)
    PROVE  Soft(j)
<1>1. Is(j, {"="}) /\ j \in DOMAIN stream
  BY DEF Is
<1> QED
  BY <1>1 DEF WellFormed

(* And nothing else follows it.                                             *)
LEMMA AfterSoftFormed ==
    ASSUME stream \in Seq(Symbols), WellFormed, NEW j \in 1 .. Len(stream), NEW k \in 1 .. j - 1, Soft(k),
           \A l \in k + 1 .. j : Is(l, Space) /\ (l < j => ~Is(l, {"lf"}))
    PROVE  \/ j = k + 1 /\ LineEnd(j)
           \/ j = k + 2 /\ stream[k + 1] = "cr" /\ stream[j] = "lf"
<1>1. LineEnd(k + 1) /\ k + 1 \in 1 .. Len(stream) /\ k \in Nat /\ j \in Nat
  BY SoftIs
<1>2. CASE j = k + 1
  BY <1>1, <1>2
<1>3. CASE j # k + 1
  <2>1. k + 1 \in k + 1 .. j /\ k + 1 < j
    BY <1>1, <1>3
  <2>2. ~Is(k + 1, {"lf"})
    BY <2>1
  <2>3. stream[k + 1] # "lf"
    BY <1>1, <2>2 DEF Is
  <2>4. stream[k + 1] = "cr" /\ stream[(k + 1) + 1] = "lf" /\ (k + 1) + 1 \in 1 .. Len(stream)
    BY <1>1, <2>3, LineEndIs
  <2>5. (k + 1) + 1 = k + 2
    BY <1>1
  <2>6. ~(k + 2 < j)
    <3> SUFFICES ASSUME k + 2 < j PROVE FALSE
      OBVIOUS
    <3>1. k + 2 \in k + 1 .. j
      BY <1>1
    <3>2. ~Is(k + 2, {"lf"})
      BY <3>1
    <3> QED
      BY <2>4, <2>5, <3>2 DEF Is
  <2> QED
    BY <1>1, <2>1, <2>4, <2>5, <2>6
<1> QED
  BY <1>2, <1>3

(* The line from behind a to c, whose white space begins behind e.          *)
LEMMA LineTrailing ==
    ASSUME stream \in Seq(Symbols), NEW a \in Nat, NEW c \in Nat, a <= c, c <= Len(stream),
           \A j \in a + 1 .. c - 1 : stream[j] # "lf", c = Len(stream) \/ (c > a /\ stream[c] = "lf"),
           NEW e, Trimmed(a, e, c), NEW j \in a + 1 .. c
    PROVE  Trailing(j) <=> j > e
<1>1. e \in Nat /\ a <= e /\ e <= c /\ Len(stream) \in Nat /\ (e > a => stream[e] \notin Space) /\ j \in Nat
  BY DEF Trimmed
<1>2. ASSUME j > e PROVE Trailing(j)
  <2>1. c \in j .. Len(stream) /\ (\A l \in j .. c : stream[l] \in Space) /\ (stream[c] = "lf" \/ c = Len(stream))
    BY <1>1, <1>2 DEF Trimmed
  <2>2. \A l \in j .. c - 1 : stream[l] # "lf"
    BY <1>1, <1>2
  <2> QED
    BY <2>1, <2>2 DEF Trailing
<1>3. ASSUME j <= e, Trailing(j) PROVE FALSE
  <2>1. PICK f \in j .. Len(stream) : /\ \A l \in j .. f : stream[l] \in Space
                                      /\ stream[f] = "lf" \/ f = Len(stream)
                                      /\ \A l \in j .. f - 1 : stream[l] # "lf"
    BY <1>3 DEF Trailing
  <2>2. e > a /\ stream[e] \notin Space
    BY <1>1, <1>3
  <2>3. f < e
    <3> SUFFICES ASSUME e <= f PROVE FALSE
      BY <1>1, <2>1
    <3>1. e \in j .. f
      BY <1>1, <1>3, <2>1
    <3> QED
      BY <2>1, <2>2, <3>1
  <2>4. f \in a + 1 .. c - 1 /\ f # Len(stream)
    BY <1>1, <2>1, <2>3
  <2> QED
    BY <2>1, <2>4
<1> QED
  BY <1>1, <1>2, <1>3

(* A line has a soft line break only where its text ends.                   *)
LEMMA LineSoft ==
    ASSUME stream \in Seq(Symbols), NEW a \in Nat, NEW c \in Nat, a <= c, c <= Len(stream),
           \A j \in a + 1 .. c - 1 : stream[j] # "lf", c = Len(stream) \/ (c > a /\ stream[c] = "lf"),
           NEW e, Trimmed(a, e, c), NEW j \in a + 1 .. c
    PROVE  Soft(j) <=> j = e /\ stream[e] = "="
<1>1. e \in Nat /\ a <= e /\ e <= c /\ Len(stream) \in Nat /\ (e > a => stream[e] \notin Space) /\ j \in Nat /\ j <= Len(stream)
  BY DEF Trimmed
<1>2. Soft(j) <=> stream[j] = "=" /\ (j = Len(stream) \/ Trailing(j + 1))
  BY <1>1 DEF Soft, Is
<1>3. stream[j] = "=" => j <= e
  <2> SUFFICES ASSUME stream[j] = "=", j > e PROVE FALSE
    BY <1>1
  <2>1. j \in e + 1 .. c
    BY <1>1
  <2> QED
    BY <2>1 DEF Trimmed, Space
<1>4. ASSUME stream[j] = "=" PROVE (j = Len(stream) \/ Trailing(j + 1)) <=> j = e
  <2>1. CASE j < c
    <3>1. j + 1 \in a + 1 .. c /\ j # Len(stream)
      BY <1>1, <2>1
    <3>2. Trailing(j + 1) <=> j + 1 > e
      BY <3>1, LineTrailing
    <3> QED
      BY <1>1, <1>3, <1>4, <3>1, <3>2
  <2>2. CASE j = c
    <3>1. c = Len(stream)
      BY <1>4, <2>2
    <3>2. j <= e
      BY <1>3, <1>4
    <3> QED
      BY <1>1, <2>2, <3>1, <3>2
  <2> QED
    BY <1>1, <2>1, <2>2
<1> QED
  BY <1>1, <1>2, <1>4

(* Where the "=" that comes before white space stands.                      *)
LEMMA LineAfterSoft ==
    ASSUME stream \in Seq(Symbols), NEW a \in Nat, NEW c \in Nat, a <= c, c <= Len(stream),
           \A j \in a + 1 .. c - 1 : stream[j] # "lf", c = Len(stream) \/ (c > a /\ stream[c] = "lf"),
           NEW e, Trimmed(a, e, c), NEW j \in a + 1 .. c
    PROVE  /\ j > e /\ e > a /\ stream[e] = "=" => AfterSoft(j)
           /\ AfterSoft(j) =>
                  \/ j > e /\ e > a /\ stream[e] = "="
                  \/ \E k \in 1 .. a : /\ Soft(k) /\ k \in 1 .. j - 1
                                       /\ \A l \in k + 1 .. j : Is(l, Space) /\ (l < j => ~Is(l, {"lf"}))
<1>1. e \in Nat /\ a <= e /\ e <= c /\ Len(stream) \in Nat /\ (e > a => stream[e] \notin Space) /\ j \in Nat /\ j <= Len(stream)
  BY DEF Trimmed
<1>2. ASSUME j > e, e > a, stream[e] = "=" PROVE AfterSoft(j)
  <2>1. e \in a + 1 .. c /\ e \in 1 .. j - 1
    BY <1>1, <1>2
  <2>2. Soft(e)
    BY <1>2, <2>1, LineSoft
  <2>3. ASSUME NEW l \in e + 1 .. j PROVE Is(l, Space) /\ (l < j => ~Is(l, {"lf"}))
    <3>1. l \in e + 1 .. c /\ l \in 1 .. Len(stream) /\ (l < j => l \in a + 1 .. c - 1)
      BY <1>1, <1>2
    <3>2. stream[l] \in Space
      BY <3>1 DEF Trimmed
    <3>3. l < j => stream[l] # "lf"
      BY <3>1
    <3> QED
      BY <3>1, <3>2, <3>3 DEF Is
  <2> QED
    BY <2>1, <2>2, <2>3 DEF AfterSoft
<1>3. ASSUME AfterSoft(j)
      PROVE  \/ j > e /\ e > a /\ stream[e] = "="
             \/ \E k \in 1 .. a : /\ Soft(k) /\ k \in 1 .. j - 1
                                  /\ \A l \in k + 1 .. j : Is(l, Space) /\ (l < j => ~Is(l, {"lf"}))
  <2>1. PICK k \in 1 .. j - 1 : Soft(k) /\ \A l \in k + 1 .. j : Is(l, Space) /\ (l < j => ~Is(l, {"lf"}))
    BY <1>3 DEF AfterSoft
  <2>2. CASE k > a
    <3>1. k \in a + 1 .. c
      BY <1>1, <2>2
    <3>2. k = e /\ stream[e] = "="
      BY <2>1, <3>1, LineSoft
    <3> QED
      BY <1>1, <2>2, <3>2
  <2>3. CASE k <= a
    <3>1. k \in 1 .. a
      BY <2>3
    <3> QED
      BY <2>1, <3>1
  <2> QED
    BY <2>2, <2>3
<1> QED
  BY <1>2, <1>3

-----------------------------------------------------------------------------
(* The states DecodesReference speaks of, as far as the past goes.          *)
Good == cuts = {} \/ (WellFormed /\ ~BreakCut /\ ~strict)

(* The bytes that are read and not yet stored, in order.                    *)
Pending == [k \in 1 .. Lasting |-> prev[lo + k - 1]]
(* They, and the bytes of the line after them.                              *)
Left == Pending \o line

(* The bytes at k, k + 1 and k + 2 of q follow each other in the stream.    *)
Three(q, k) == k + 2 <= Len(q) /\ q[k + 1] = q[k] + 1 /\ q[k + 2] = q[k] + 2

(* From k on, q is the end of a piece, too short for an escape.             *)
ToCut(q, k) ==
    /\ full /\ q[k] + 2 > at /\ Len(q) = k + (at - q[k])
    /\ \A l \in k .. Len(q) : q[l] = q[k] + (l - k)

(* An escape that has begun is there with its digits, or the piece ends.    *)
EscapesWhole(q) == \A k \in DOMAIN q : Escapes(q[k]) => Three(q, k) \/ ToCut(q, k)

(* What is no escape in the stream does not look like one in q.             *)
NoFalseEscape(q) ==
    \A k \in DOMAIN q : ~Escapes(q[k]) /\ stream[q[k]] = "=" =>
        ~(k + 2 <= Len(q) /\ stream[q[k + 1]] \in HexDigits /\ stream[q[k + 2]] \in HexDigits)

(* last is a "=" whose end of line comes next. *)
SoftPending == lo = 0 /\ hi = 1 /\ Soft(prev[0])

(* And line is just that.                                                   *)
BreakNext == SoftPending /\ StartsLine(line) /\ Len(line) = (IF stream[line[1]] = "lf" THEN 1 ELSE 2)

(* What is left stays, or belongs to an escape or a soft line break.        *)
Members(q) ==
    \A k \in DOMAIN q : \/ Stays(q[k])
                        \/ k >= 2 /\ q[k - 1] = q[k] - 1 /\ Escapes(q[k] - 1)
                        \/ k >= 3 /\ q[k - 2] = q[k] - 2 /\ Escapes(q[k] - 2)
                        \/ Soft(q[k])
                        \/ SoftPending

(* A soft line break is left only where a piece ends with its "=".          *)
SoftLast(q) ==
    \A k \in DOMAIN q : Soft(q[k]) =>
        \/ k = Len(q) /\ q[k] = at /\ full
        \/ BreakNext /\ k = 1 /\ \A l \in 2 .. Len(q) : ~Stays(q[l])

(* A soft line break at the end of what is read is still left.              *)
SoftHeld(q) == WellFormed /\ Soft(at) => \E k \in DOMAIN q : q[k] = at

(* A byte, or the "=" of the escape that gave it, for each that is out.     *)
HeadOf(o) == IF Len(o) = 1 THEN o[1] ELSE o[1] - 1
(* Those of all that is out.                                                *)
Heads == [k \in DOMAIN out |-> HeadOf(out[k])]
(* What byte j, or the escape that begins there, is stored as.              *)
Means(j) == IF Escapes(j) THEN <<j + 1, j + 2>> ELSE <<j>>

(* All that stays so far is out or left, and what is out comes before.      *)
Told(q) ==
    /\ \A k \in DOMAIN out : Stays(Heads[k]) /\ out[k] = Means(Heads[k])
    /\ Rising(Heads) /\ Rising(q)
    /\ \A k \in DOMAIN out, l \in DOMAIN q : Heads[k] < q[l]
    /\ \A j \in 1 .. at : Stays(j) => (\E k \in DOMAIN out : j = Heads[k]) \/ (\E k \in DOMAIN q : j = q[k])

(* What is known of the bytes q that are read and not yet stored.           *)
Account(q) ==
    EscapesWhole(q) /\ NoFalseEscape(q) /\ Members(q) /\ SoftLast(q) /\ SoftHeld(q) /\ Told(q)

(* last holds the beginning of an escape, or nothing.                       *)
Begun ==
    /\ lo = hi \/ (lo = 0 /\ hi \in {1, 2} /\ stream[prev[0]] = "=")
    /\ cuts = {} => lo = hi /\ ~full

(* Where a fetch goes on, and how the stream ends.                          *)
Where ==
    /\ at = 0 \/ at = Len(stream) \/ stream[at] = "lf" \/ at \in cuts
    /\ err # "nil" => err = ending /\ at = Len(stream)
    /\ pc = "ended" => line = <<>> /\ ret = Fn /\ Fn # "nil"

(* The strict reader has nothing to complain of.                            *)
Unblamed ==
    cuts = {} /\ WellFormed /\ (\A j \in DOMAIN stream : ~Is(j, {"8"})) => first = "nil"

(* The strengthening of DecodesReference and StrictAccepts that is          *)
(* inductive beside IInv.                                                   *)
Order == Where /\ Unblamed /\ (Good => Begun /\ \E q : q = Left /\ Account(q))

(* What is said of the stream does not change while the stream does not.    *)
LEMMA Unmoved ==
    ASSUME stream' = stream
    PROVE  /\ \A j : (Escapes(j)' <=> Escapes(j)) /\ (Soft(j)' <=> Soft(j)) /\ (Stays(j)' <=> Stays(j))
           /\ \A j : Means(j)' = Means(j) /\ (Is(j, {"8"})' <=> Is(j, {"8"}))
           /\ WellFormed' <=> WellFormed
<1>1. \A j : (Escapes(j)' <=> Escapes(j)) /\ (Trailing(j)' <=> Trailing(j)) /\ (LineEnd(j)' <=> LineEnd(j))
  BY DEF Escapes, Trailing, LineEnd, Is
<1>2. \A j : Soft(j)' <=> Soft(j)
  BY <1>1 DEF Soft, Is
<1>3. \A j : AfterSoft(j)' <=> AfterSoft(j)
  BY <1>2 DEF AfterSoft, Is
<1>4. \A j : Stays(j)' <=> Stays(j)
  BY <1>1, <1>2, <1>3 DEF Stays
<1>5. \A j : Means(j)' = Means(j)
  BY <1>1 DEF Means
<1>6. WellFormed' <=> WellFormed
  BY <1>1, <1>2 DEF WellFormed, Is
<1> QED
  BY <1>1, <1>2, <1>4, <1>5, <1>6 DEF Is

(* What is left, byte by byte.                                              *)
LEMMA LeftIs ==
    ASSUME IInv
    PROVE  /\ Left \in Seq(1 .. at) /\ Len(Left) = Lasting + Len(line) /\ Len(Left) \in Nat
           /\ \A k \in 1 .. Lasting : Left[k] = prev[lo + k - 1]
           /\ \A k \in 1 .. Len(line) : Left[Lasting + k] = line[k]
<1>1. /\ Lasting \in Nat /\ Lasting = hi - lo /\ lo \in Nat /\ hi \in Nat /\ line \in Seq(1 .. at) /\ Len(line) \in Nat
      /\ \A k \in lo .. hi - 1 : prev[k] \in 1 .. at
  BY Known
<1>2. \A k \in 1 .. Lasting : prev[lo + k - 1] \in 1 .. at
  BY <1>1
<1>3. Pending \in Seq(1 .. at) /\ Len(Pending) = Lasting /\ \A k \in 1 .. Lasting : Pending[k] = prev[lo + k - 1]
  BY <1>1, <1>2 DEF Pending
<1>4. PICK u : u = Pending
  OBVIOUS
<1>5. PICK v : v = line
  OBVIOUS
<1>6. /\ u \o v \in Seq(1 .. at) /\ Len(u \o v) = Len(u) + Len(v) /\ Len(u \o v) \in Nat
      /\ \A k \in 1 .. Len(u) : (u \o v)[k] = u[k]
      /\ \A k \in 1 .. Len(v) : (u \o v)[Len(u) + k] = v[k]
  BY <1>1, <1>3, <1>4, <1>5
<1> QED
  BY <1>3, <1>4, <1>5, <1>6 DEF Left

(* Good states come from good ones.                                         *)
LEMMA GoodBefore ==
    ASSUME stream' = stream, strict' = strict, cuts \subseteq cuts', Good'
    PROVE  Good
<1>1. WellFormed' <=> WellFormed
  BY Unmoved
<1>2. BreakCut => BreakCut'
  BY DEF BreakCut, Is
<1> QED
  BY <1>1, <1>2 DEF Good

-----------------------------------------------------------------------------
(* An account of the next state, said in this one.                          *)
LEMMA NextAccount ==
    ASSUME stream' = stream, NEW z, NEW o, o = out', NEW g, g = Heads',
           \A k \in DOMAIN z : Escapes(z[k]) => Three(z, k) \/ ToCut(z, k)',
           NoFalseEscape(z),
           \A k \in DOMAIN z : \/ Stays(z[k])
                               \/ k >= 2 /\ z[k - 1] = z[k] - 1 /\ Escapes(z[k] - 1)
                               \/ k >= 3 /\ z[k - 2] = z[k] - 2 /\ Escapes(z[k] - 2)
                               \/ Soft(z[k])
                               \/ SoftPending',
           \A k \in DOMAIN z : Soft(z[k]) =>
               \/ k = Len(z) /\ z[k] = at' /\ full'
               \/ BreakNext' /\ k = 1 /\ \A l \in 2 .. Len(z) : ~Stays(z[l]),
           WellFormed /\ Soft(at') => \E k \in DOMAIN z : z[k] = at',
           \A k \in DOMAIN o : Stays(g[k]) /\ o[k] = Means(g[k]),
           Rising(g), Rising(z), \A k \in DOMAIN o, l \in DOMAIN z : g[k] < z[l],
           \A j \in 1 .. at' : Stays(j) => (\E k \in DOMAIN o : j = g[k]) \/ (\E k \in DOMAIN z : j = z[k])
    PROVE  Account(z)'
<1>1. EscapesWhole(z)'
  BY Unmoved DEF EscapesWhole, Three
<1>2. NoFalseEscape(z)'
  BY Unmoved DEF NoFalseEscape
<1>3. Members(z)'
  BY Unmoved DEF Members
<1>4. SoftLast(z)'
  BY Unmoved DEF SoftLast
<1>5. SoftHeld(z)'
  BY Unmoved DEF SoftHeld
<1>6. Told(z)'
  BY Unmoved DEF Told
<1> QED
  BY <1>1, <1>2, <1>3, <1>4, <1>5, <1>6 DEF Account

(* Nothing more is out, and the same is left.                               *)
LEMMA SameAccount ==
    ASSUME UNCHANGED <<stream, at, full, out>>, NEW q, Account(q),
           SoftPending => SoftPending' /\ line' = line
    PROVE  Account(q)'
<1>1. PICK o1 : o1 = out
  OBVIOUS
<1>2. PICK g1 : g1 = Heads
  OBVIOUS
<1>3. g1 = Heads' /\ o1 = out'
  BY <1>1, <1>2 DEF Heads
<1>4. \A k \in DOMAIN q : Escapes(q[k]) => Three(q, k) \/ ToCut(q, k)'
  BY DEF Account, EscapesWhole, ToCut
<1>5. BreakNext => BreakNext'
  <2> SUFFICES ASSUME BreakNext PROVE BreakNext'
    OBVIOUS
  <2>1. SoftPending' /\ line' = line
    BY DEF BreakNext
  <2>2. StartsLine(line)' <=> StartsLine(line)
    BY <2>1 DEF StartsLine, Bytes
  <2> QED
    BY <2>1, <2>2 DEF BreakNext
<1>6. \A k \in DOMAIN q : \/ Stays(q[k])
                          \/ k >= 2 /\ q[k - 1] = q[k] - 1 /\ Escapes(q[k] - 1)
                          \/ k >= 3 /\ q[k - 2] = q[k] - 2 /\ Escapes(q[k] - 2)
                          \/ Soft(q[k])
                          \/ SoftPending'
  BY DEF Account, Members
<1>7. \A k \in DOMAIN q : Soft(q[k]) =>
               \/ k = Len(q) /\ q[k] = at' /\ full'
               \/ BreakNext' /\ k = 1 /\ \A l \in 2 .. Len(q) : ~Stays(q[l])
  BY <1>5 DEF Account, SoftLast
<1>8. NoFalseEscape(q)
  BY DEF Account
<1>9. WellFormed /\ Soft(at') => \E k \in DOMAIN q : q[k] = at'
  BY DEF Account, SoftHeld
<1>10. \A k \in DOMAIN o1 : Stays(g1[k]) /\ o1[k] = Means(g1[k])
  BY <1>1, <1>2 DEF Account, Told
<1>11. /\ Rising(g1) /\ Rising(q) /\ \A k \in DOMAIN o1, l \in DOMAIN q : g1[k] < q[l]
       /\ \A j \in 1 .. at' : Stays(j) => (\E k \in DOMAIN o1 : j = g1[k]) \/ (\E k \in DOMAIN q : j = q[k])
  BY <1>1, <1>2 DEF Account, Told
<1> QED
  BY <1>3, <1>4, <1>6, <1>7, <1>8, <1>9, <1>10, <1>11, NextAccount

(* The byte that something was stored for is found again.                   *)
LEMMA MeansIs ==
    ASSUME NEW j \in Int
    PROVE  Len(Means(j)) >= 1 /\ HeadOf(Means(j)) = j
<1>1. HeadOf(<<j>>) = j /\ Len(<<j>>) = 1
  BY DEF HeadOf
<1>2. HeadOf(<<j + 1, j + 2>>) = j /\ Len(<<j + 1, j + 2>>) = 2
  BY DEF HeadOf
<1> QED
  BY <1>1, <1>2 DEF Means

(* The elements of a sequence of numbers up to N.                           *)
LEMMA SeqIs ==
    ASSUME NEW N \in Nat, NEW q, q \in Seq(1 .. N)
    PROVE  Len(q) \in Nat /\ DOMAIN q = 1 .. Len(q) /\ \A k \in 1 .. Len(q) : q[k] \in 1 .. N
OBVIOUS

(* The rest of a sequence, m elements on.                                   *)
LEMMA SuffixIs ==
    ASSUME NEW N \in Nat, NEW q, q \in Seq(1 .. N), NEW m \in Nat, NEW n \in Nat, Len(q) = n + m
    PROVE  /\ SubSeq(q, m + 1, Len(q)) \in Seq(1 .. N) /\ Len(SubSeq(q, m + 1, Len(q))) = n
           /\ \A k \in 1 .. n : SubSeq(q, m + 1, Len(q))[k] = q[k + m]
<1>1. PICK w : w = Len(q)
  OBVIOUS
<1>2. w \in Nat /\ w = n + m
  BY <1>1
<1>3. \A k \in m + 1 .. w : q[k] \in 1 .. N
  BY <1>1
<1>4. /\ SubSeq(q, m + 1, w) \in Seq(1 .. N)
      /\ Len(SubSeq(q, m + 1, w)) = IF m + 1 <= w THEN w - (m + 1) + 1 ELSE 0
      /\ \A k \in 1 .. w - (m + 1) + 1 : SubSeq(q, m + 1, w)[k] = q[(m + 1) + k - 1]
  BY <1>2, <1>3, SubSeqProperties
<1>5. (IF m + 1 <= w THEN w - (m + 1) + 1 ELSE 0) = n /\ w - (m + 1) + 1 = n
  BY <1>2
<1>6. \A k \in 1 .. n : (m + 1) + k - 1 = k + m
  OBVIOUS
<1> QED
  BY <1>1, <1>4, <1>5, <1>6

(* The first m bytes that are left go out as one.                           *)
Drops(q, m, z) ==
    /\ UNCHANGED <<stream, at, full>> /\ ~SoftPending
    /\ q \in Seq(1 .. at) /\ m <= Len(q) /\ z = SubSeq(q, m + 1, Len(q))
    /\ Stays(q[1]) /\ out' = Append(out, Means(q[1]))
    /\ \/ m = 1 /\ ~Escapes(q[1])
       \/ m = 3 /\ Escapes(q[1]) /\ Three(q, 1)

(* q without its first m is z, which has n.                                 *)
Suffix(q, m, n, z) ==
    /\ m >= 1 /\ Len(q) = n + m /\ DOMAIN q = 1 .. n + m /\ (\A k \in 1 .. n + m : q[k] \in 1 .. at)
    /\ Len(z) = n /\ DOMAIN z = 1 .. n /\ \A k \in 1 .. n : z[k] = q[k + m]

(* What remains when the first bytes of q are done with.                    *)
LEMMA DropIs ==
    ASSUME IInv, NEW q, NEW m \in Nat, NEW z, Drops(q, m, z)
    PROVE  \E n \in Nat : Suffix(q, m, n, z)
<1>k. at \in Nat
  BY Known
<1>1. q \in Seq(1 .. at) /\ m <= Len(q) /\ z = SubSeq(q, m + 1, Len(q)) /\ (m = 1 \/ m = 3)
  BY DEF Drops
<1>2. Len(q) \in Nat /\ DOMAIN q = 1 .. Len(q) /\ \A k \in 1 .. Len(q) : q[k] \in 1 .. at
  BY <1>k, <1>1, SeqIs
<1>3. \E n \in Nat : Len(q) = n + m
  <2>1. PICK w : w = Len(q)
    OBVIOUS
  <2>2. w \in Nat /\ m <= w
    BY <1>1, <1>2, <2>1
  <2>3. w - m \in Nat /\ w = (w - m) + m
    BY <2>2
  <2> QED
    BY <2>1, <2>3
<1>4. PICK n \in Nat : Len(q) = n + m
  BY <1>3
<1>5. z \in Seq(1 .. at) /\ Len(z) = n /\ \A k \in 1 .. n : z[k] = q[k + m]
  BY <1>k, <1>1, <1>4, SuffixIs
<1>6. DOMAIN z = 1 .. n
  <2>1. z \in Seq(1 .. at) /\ Len(z) = n
    BY <1>5
  <2> QED
    BY <2>1
<1>7. m >= 1
  BY <1>1
<1>8. DOMAIN q = 1 .. n + m /\ \A k \in 1 .. n + m : q[k] \in 1 .. at
  BY <1>2, <1>4
<1> QED
  BY <1>4, <1>5, <1>6, <1>7, <1>8, Zenon DEF Suffix

(* A byte of the rest is one of q, m places on.                             *)
LEMMA SuffixAt ==
    ASSUME NEW q, NEW z, NEW m \in Nat, NEW n \in Nat, Suffix(q, m, n, z), at \in Nat,
           NEW k \in Int, 1 <= k, k <= n
    PROVE  /\ k \in DOMAIN z /\ k + m \in DOMAIN q /\ z[k] = q[k + m] /\ z[k] \in 1 .. at /\ z[k] \in Int
<1>1. k \in 1 .. n
  OBVIOUS
<1>2. m >= 1
  BY DEF Suffix
<1>3. k + m \in 1 .. n + m
  BY <1>2
<1>4. DOMAIN z = 1 .. n /\ DOMAIN q = 1 .. n + m /\ z[k] = q[k + m] /\ q[k + m] \in 1 .. at
  BY <1>1, <1>3, Zenon DEF Suffix
<1>5. q[k + m] \in Int
  BY <1>4
<1> QED
  BY <1>1, <1>3, <1>4, <1>5, Zenon

(* An escape in the rest is as whole as it was.                             *)
LEMMA SuffixEscapes ==
    ASSUME at \in Nat, full' = full, at' = at, NEW q, NEW z, NEW m \in Nat, NEW n \in Nat, Suffix(q, m, n, z), EscapesWhole(q),
           NEW k \in Int, 1 <= k, k <= n, Escapes(z[k])
    PROVE  Three(z, k) \/ ToCut(z, k)'
<1>1. k + m \in DOMAIN q /\ z[k] = q[k + m] /\ z[k] \in Int
  BY SuffixAt
<1>2. Len(q) = n + m /\ Len(z) = n
  BY DEF Suffix
<1>3. Three(q, k + m) \/ ToCut(q, k + m)
  BY <1>1 DEF EscapesWhole
<1>4. CASE Three(q, k + m)
  <2>1. k + m + 2 <= Len(q) /\ q[k + m + 1] = q[k + m] + 1 /\ q[k + m + 2] = q[k + m] + 2
    BY <1>4 DEF Three
  <2>2. k + 2 <= n
    <3>1. k + m + 2 <= n + m
      BY <1>2, <2>1
    <3> QED
      BY <3>1
  <2>3. z[k + 1] = q[(k + 1) + m] /\ z[k + 2] = q[(k + 2) + m]
    <3>1. k + 1 \in Int /\ 1 <= k + 1 /\ k + 1 <= n /\ k + 2 \in Int /\ 1 <= k + 2
      BY <2>2
    <3> QED
      BY <2>2, <3>1, SuffixAt
  <2>4. (k + 1) + m = k + m + 1 /\ (k + 2) + m = k + m + 2
    OBVIOUS
  <2> QED
    BY <1>1, <1>2, <2>1, <2>2, <2>3, <2>4 DEF Three
<1>5. CASE ToCut(q, k + m)
  <2>1. /\ full /\ q[k + m] + 2 > at /\ Len(q) = (k + m) + (at - q[k + m])
        /\ \A l \in k + m .. Len(q) : q[l] = q[k + m] + (l - (k + m))
    BY <1>5 DEF ToCut
  <2>2. n + m = (k + m) + (at - z[k])
    BY <1>1, <1>2, <2>1
  <2>3. n = k + (at - z[k])
    BY <1>1, <2>2
  <2>4. ASSUME NEW l \in k .. n PROVE z[l] = z[k] + (l - k)
    <3>1. l \in Int /\ 1 <= l /\ l <= n /\ l + m \in k + m .. n + m
      OBVIOUS
    <3>2. z[l] = q[l + m]
      BY <3>1, SuffixAt
    <3>3. q[l + m] = z[k] + ((l + m) - (k + m))
      BY <1>1, <1>2, <2>1, <3>1
    <3>4. (l + m) - (k + m) = l - k
      OBVIOUS
    <3> QED
      BY <3>2, <3>3, <3>4
  <2>5. full' /\ z[k] + 2 > at'
    BY <1>1, <2>1
  <2> QED
    BY <1>2, <2>3, <2>4, <2>5 DEF ToCut
<1> QED
  BY <1>3, <1>4, <1>5

(* Nothing in the rest looks like an escape that did not before.            *)
LEMMA SuffixNoEscape ==
    ASSUME at \in Nat, NEW q, NEW z, NEW m \in Nat, NEW n \in Nat, Suffix(q, m, n, z), NoFalseEscape(q),
           NEW k \in Int, 1 <= k, k + 2 <= n, ~Escapes(z[k]), stream[z[k]] = "=",
           stream[z[k + 1]] \in HexDigits
    PROVE  stream[z[k + 2]] \notin HexDigits
<1>1. Len(q) = n + m
  BY DEF Suffix
<1>2. k <= n /\ k + 1 \in Int /\ 1 <= k + 1 /\ k + 1 <= n /\ k + 2 \in Int /\ 1 <= k + 2
  OBVIOUS
<1>3. k + m \in DOMAIN q /\ z[k] = q[k + m]
  BY <1>2, SuffixAt
<1>4. z[k + 1] = q[(k + 1) + m] /\ z[k + 2] = q[(k + 2) + m]
  BY <1>2, SuffixAt
<1>5. (k + 1) + m = (k + m) + 1 /\ (k + 2) + m = (k + m) + 2 /\ (k + m) + 2 <= n + m
  OBVIOUS
<1> QED
  BY <1>1, <1>3, <1>4, <1>5 DEF NoFalseEscape

(* What the dropped bytes are, when they are an escape.                     *)
LEMMA DroppedIs ==
    ASSUME IInv, NEW q, NEW m \in Nat, NEW n \in Nat, NEW z, Drops(q, m, z), Suffix(q, m, n, z)
    PROVE  /\ m = 1 => ~Escapes(q[1])
           /\ m = 3 => Escapes(q[1]) /\ q[2] = q[1] + 1 /\ q[3] = q[1] + 2
           /\ m = 3 => /\ ~Escapes(q[2]) /\ ~Escapes(q[3]) /\ ~Soft(q[2]) /\ ~Soft(q[3])
                       /\ ~Stays(q[2]) /\ ~Stays(q[3])
           /\ Stays(q[1]) /\ ~Soft(q[1]) /\ q[1] \in 1 .. at /\ q[1] \in Int
<1>1. stream \in Seq(Symbols) /\ at \in Nat
  BY Known
<1>2. Stays(q[1]) /\ ~Soft(q[1]) /\ (m = 1 => ~Escapes(q[1])) /\ (m = 3 => Escapes(q[1]) /\ Three(q, 1))
  BY DEF Drops, Stays
<1>3. q[1] \in 1 .. at
  <2>1. m >= 1 /\ \A k \in 1 .. n + m : q[k] \in 1 .. at
    BY Zenon DEF Suffix
  <2>2. 1 \in 1 .. n + m
    BY <2>1
  <2> QED
    BY <2>1, <2>2
<1>4. q[1] \in Int
  BY <1>1, <1>3
<1>5. ASSUME m = 3
      PROVE  /\ q[2] = q[1] + 1 /\ q[3] = q[1] + 2
             /\ ~Escapes(q[2]) /\ ~Escapes(q[3]) /\ ~Soft(q[2]) /\ ~Soft(q[3]) /\ ~Stays(q[2]) /\ ~Stays(q[3])
  <2>1. Escapes(q[1]) /\ q[2] = q[1] + 1 /\ q[3] = q[1] + 2
    BY <1>2, <1>5 DEF Three
  <2>2. stream[q[2]] \in HexDigits /\ stream[q[3]] \in HexDigits
    BY <1>1, <1>4, <2>1, EscapesIs
  <2>3. ~Escapes(q[2]) /\ ~Escapes(q[3]) /\ ~Soft(q[2]) /\ ~Soft(q[3])
    BY <2>2 DEF Escapes, Soft, Is, HexDigits
  <2>4. ~Stays(q[2]) /\ ~Stays(q[3])
    BY <1>4, <2>1, DigitsGo
  <2> QED
    BY <2>1, <2>3, <2>4
<1> QED
  BY <1>2, <1>3, <1>4, <1>5

(* The rest has no digits without their escape.                             *)
LEMMA DropMembers ==
    ASSUME IInv, NEW q, NEW m \in Nat, NEW n \in Nat, NEW z, Drops(q, m, z), Suffix(q, m, n, z), Members(q),
           NEW k \in Int, 1 <= k, k <= n
    PROVE  \/ Stays(z[k])
           \/ k >= 2 /\ z[k - 1] = z[k] - 1 /\ Escapes(z[k] - 1)
           \/ k >= 3 /\ z[k - 2] = z[k] - 2 /\ Escapes(z[k] - 2)
           \/ Soft(z[k])
<1>k. at \in Nat
  BY Known
<1>m. (m = 1 \/ m = 3) /\ ~SoftPending
  BY DEF Drops
<1>1. k + m \in DOMAIN q /\ z[k] = q[k + m]
  BY <1>k, SuffixAt
<1>2. \/ Stays(z[k])
      \/ q[(k + m) - 1] = z[k] - 1 /\ Escapes(z[k] - 1)
      \/ k + m >= 3 /\ q[(k + m) - 2] = z[k] - 2 /\ Escapes(z[k] - 2)
      \/ Soft(z[k])
  BY <1>m, <1>1 DEF Members
<1>3. /\ m = 1 => ~Escapes(q[1])
      /\ m = 3 => ~Escapes(q[2]) /\ ~Escapes(q[3])
  BY DroppedIs
<1>4. CASE q[(k + m) - 1] = z[k] - 1 /\ Escapes(z[k] - 1)
  <2>1. CASE k >= 2
    <3>1. k - 1 \in Int /\ 1 <= k - 1 /\ k - 1 <= n /\ (k - 1) + m = (k + m) - 1
      BY <2>1
    <3>2. z[k - 1] = q[(k - 1) + m]
      BY <1>k, <3>1, SuffixAt
    <3> QED
      BY <1>4, <2>1, <3>1, <3>2
  <2>2. CASE k = 1
    <3>1. (k + m) - 1 = m
      BY <2>2
    <3>2. Escapes(q[m])
      BY <1>4, <3>1
    <3> QED
      BY <1>m, <1>3, <3>2
  <2>3. k >= 2 \/ k = 1
    OBVIOUS
  <2> QED
    BY <2>1, <2>2, <2>3
<1>5. CASE k + m >= 3 /\ q[(k + m) - 2] = z[k] - 2 /\ Escapes(z[k] - 2)
  <2>1. CASE k >= 3
    <3>1. k - 2 \in Int /\ 1 <= k - 2 /\ k - 2 <= n /\ (k - 2) + m = (k + m) - 2
      BY <2>1
    <3>2. z[k - 2] = q[(k - 2) + m]
      BY <1>k, <3>1, SuffixAt
    <3> QED
      BY <1>5, <2>1, <3>1, <3>2
  <2>2. CASE k = 2
    <3>1. (k + m) - 2 = m
      BY <2>2
    <3>2. Escapes(q[m])
      BY <1>5, <3>1
    <3> QED
      BY <1>m, <1>3, <3>2
  <2>3. CASE k = 1
    <3>1. k + m >= 3
      BY <1>5
    <3>2. m = 3
      BY <1>m, <2>3, <3>1
    <3>3. (k + m) - 2 = 2
      BY <2>3, <3>2
    <3>4. Escapes(q[2])
      BY <1>5, <3>3
    <3> QED
      BY <1>3, <3>2, <3>4
  <2>4. k >= 3 \/ k = 2 \/ k = 1
    OBVIOUS
  <2> QED
    BY <2>1, <2>2, <2>3, <2>4
<1> QED
  BY <1>2, <1>4, <1>5

(* A soft line break in the rest is at its end still.                       *)
LEMMA DropSoft ==
    ASSUME IInv, NEW q, NEW m \in Nat, NEW n \in Nat, NEW z, Drops(q, m, z), Suffix(q, m, n, z)
    PROVE  /\ SoftLast(q) => \A k \in 1 .. n : Soft(z[k]) => k = n /\ z[k] = at /\ full
           /\ SoftHeld(q) => (WellFormed /\ Soft(at) => \E k \in 1 .. n : z[k] = at)
<1>k. at \in Nat
  BY Known
<1>m. (m = 1 \/ m = 3) /\ ~SoftPending
  BY DEF Drops
<1>1. m >= 1 /\ Len(q) = n + m /\ DOMAIN q = 1 .. n + m
  BY Zenon DEF Suffix
<1>2. ASSUME SoftLast(q), NEW k \in 1 .. n, Soft(z[k]) PROVE k = n /\ z[k] = at /\ full
  <2>1. k \in Int /\ 1 <= k /\ k <= n
    OBVIOUS
  <2>2. k + m \in DOMAIN q /\ z[k] = q[k + m]
    BY <1>k, <2>1, SuffixAt
  <2>3. k + m = Len(q) /\ z[k] = at /\ full
    BY <1>m, <1>2, <2>2 DEF SoftLast, BreakNext
  <2>4. k + m = n + m
    BY <1>1, <2>3
  <2>5. k = n
    BY <2>1, <2>4
  <2> QED
    BY <2>3, <2>5
<1>3. ASSUME SoftHeld(q), WellFormed, Soft(at) PROVE \E k \in 1 .. n : z[k] = at
  <2>1. PICK l \in 1 .. n + m : q[l] = at
    BY <1>1, <1>3 DEF SoftHeld
  <2>2. Soft(q[l])
    BY <1>3, <2>1
  <2>3. l \in Int /\ 1 <= l /\ l <= n + m
    OBVIOUS
  <2>4. ~Soft(q[1]) /\ (m = 3 => ~Soft(q[2]) /\ ~Soft(q[3]))
    BY DroppedIs
  <2>5. l # 1 /\ (m = 3 => l # 2 /\ l # 3)
    BY <2>2, <2>4
  <2>6. l > m
    BY <1>m, <2>3, <2>5
  <2>7. l - m \in Int /\ 1 <= l - m /\ l - m <= n /\ (l - m) + m = l
    BY <2>3, <2>6
  <2>8. z[l - m] = at
    <3>1. z[l - m] = q[(l - m) + m]
      BY <1>k, <2>7, SuffixAt
    <3> QED
      BY <2>1, <2>7, <3>1
  <2>9. l - m \in 1 .. n
    BY <2>7
  <2> QED
    BY <2>8, <2>9
<1> QED
  BY <1>2, <1>3

(* One more is out.                                                         *)
Grows(w, o, g, j) ==
    /\ DOMAIN out = 1 .. w /\ DOMAIN o = 1 .. w + 1 /\ DOMAIN g = 1 .. w + 1
    /\ o[w + 1] = Means(j) /\ g[w + 1] = j
    /\ \A k \in 1 .. w : o[k] = out[k] /\ g[k] = Heads[k]

(* One more thing is out, and the others are as before.                     *)
LEMMA OutMore ==
    ASSUME IInv, NEW j \in Int, NEW o, o = Append(out, Means(j))
    PROVE  \E w \in Nat : Grows(w, o, [k \in DOMAIN o |-> HeadOf(o[k])], j)
<1>1. out \in Seq(Seq(1 .. at))
  BY Known
<1>2. PICK w \in Nat : w = Len(out) /\ DOMAIN out = 1 .. w
  BY <1>1
<1>3. PICK e : e = Means(j)
  OBVIOUS
<1>4. o = Append(out, e)
  BY <1>3
<1>5. DOMAIN o = 1 .. w + 1 /\ o[w + 1] = e /\ \A k \in 1 .. w : o[k] = out[k]
  BY <1>1, <1>2, <1>4
<1>6. HeadOf(e) = j
  BY <1>3, MeansIs
<1> DEFINE g == [k \in DOMAIN o |-> HeadOf(o[k])]
<1>7. DOMAIN g = 1 .. w + 1 /\ g[w + 1] = j
  <2>1. w + 1 \in 1 .. w + 1
    BY <1>2
  <2>2. g[w + 1] = HeadOf(o[w + 1])
    BY <1>5, <2>1
  <2> QED
    BY <1>5, <1>6, <2>2
<1>8. ASSUME NEW k \in 1 .. w PROVE g[k] = Heads[k]
  <2>1. k \in DOMAIN o /\ k \in DOMAIN out /\ o[k] = out[k]
    BY <1>2, <1>5
  <2> QED
    BY <2>1 DEF Heads
<1> HIDE DEF g
<1>9. Grows(w, o, g, j)
  BY <1>2, <1>3, <1>5, <1>7, <1>8, Zenon DEF Grows
<1> QED
  BY <1>9 DEF g

(* Numbers up to w + 1.                                                     *)
LEMMA OneMore ==
    ASSUME NEW w \in Nat
    PROVE  /\ \A k \in 1 .. w + 1 : k \in 1 .. w \/ k = w + 1
           /\ \A k \in 1 .. w : k \in 1 .. w + 1
           /\ w + 1 \in 1 .. w + 1
           /\ \A a, b \in 1 .. w + 1 : a < b => a \in 1 .. w
OBVIOUS

(* What goes out is what stays and comes first.                             *)
LEMMA DropTold ==
    ASSUME IInv, NEW q, NEW m \in Nat, NEW n \in Nat, NEW z, Drops(q, m, z), Suffix(q, m, n, z), Told(q),
           NEW w \in Nat, NEW o, NEW g, Grows(w, o, g, q[1])
    PROVE  /\ \A k \in DOMAIN o : Stays(g[k]) /\ o[k] = Means(g[k])
           /\ Rising(g) /\ Rising(z) /\ \A k \in DOMAIN o, l \in DOMAIN z : g[k] < z[l]
           /\ \A j \in 1 .. at : Stays(j) => (\E k \in DOMAIN o : j = g[k]) \/ (\E k \in DOMAIN z : j = z[k])
<1>k. at \in Nat
  BY Known
<1>o. /\ DOMAIN out = 1 .. w /\ DOMAIN o = 1 .. w + 1 /\ DOMAIN g = 1 .. w + 1
      /\ o[w + 1] = Means(q[1]) /\ g[w + 1] = q[1]
      /\ \A k \in 1 .. w : o[k] = out[k] /\ g[k] = Heads[k]
  BY Zenon DEF Grows
<1>h. DOMAIN Heads = 1 .. w
  BY <1>o DEF Heads
<1>t. /\ \A k \in 1 .. w : Stays(Heads[k]) /\ out[k] = Means(Heads[k])
      /\ \A a, b \in 1 .. w : a < b => Heads[a] < Heads[b]
      /\ \A a, b \in DOMAIN q : a < b => q[a] < q[b]
      /\ \A k \in 1 .. w, l \in DOMAIN q : Heads[k] < q[l]
      /\ \A j \in 1 .. at : Stays(j) => (\E k \in 1 .. w : j = Heads[k]) \/ (\E k \in DOMAIN q : j = q[k])
  BY <1>o, <1>h, ZenonT(40) DEF Told, Rising
<1>s. m >= 1 /\ (m = 1 \/ m = 3) /\ Stays(q[1])
  BY DEF Drops
<1>q. 1 \in DOMAIN q /\ DOMAIN z = 1 .. n /\ DOMAIN q = 1 .. n + m
  <2>1. DOMAIN q = 1 .. n + m /\ DOMAIN z = 1 .. n
    BY Zenon DEF Suffix
  <2>2. 1 \in 1 .. n + m
    BY <1>s
  <2> QED
    BY <2>1, <2>2
<1>z. ASSUME NEW k \in 1 .. n PROVE k + m \in DOMAIN q /\ z[k] = q[k + m] /\ k + m > 1
  <2>1. k \in Int /\ 1 <= k /\ k <= n
    OBVIOUS
  <2>2. k + m > 1
    BY <1>s
  <2> QED
    BY <1>k, <2>1, <2>2, SuffixAt
<1>1. \A k \in DOMAIN o : Stays(g[k]) /\ o[k] = Means(g[k])
  <2> SUFFICES ASSUME NEW k \in 1 .. w + 1 PROVE Stays(g[k]) /\ o[k] = Means(g[k])
    BY <1>o
  <2>1. CASE k \in 1 .. w
    BY <1>o, <1>t, <2>1, Zenon
  <2>2. CASE k = w + 1
    BY <1>o, <1>s, <2>2, Zenon
  <2> QED
    BY <2>1, <2>2, OneMore
<1>2. Rising(g)
  <2>1. ASSUME NEW a \in 1 .. w + 1, NEW b \in 1 .. w + 1, a < b PROVE g[a] < g[b]
    <3>1. a \in 1 .. w
      BY <2>1, OneMore
    <3>2. CASE b \in 1 .. w
      <4>1. g[a] = Heads[a] /\ g[b] = Heads[b] /\ Heads[a] < Heads[b]
        BY <1>o, <1>t, <2>1, <3>1, <3>2, Zenon
      <4> QED
        BY <4>1
    <3>3. CASE b = w + 1
      <4>1. g[a] = Heads[a] /\ g[b] = q[1] /\ Heads[a] < q[1]
        BY <1>o, <1>q, <1>t, <3>1, <3>3, Zenon
      <4> QED
        BY <4>1
    <3> QED
      BY <3>2, <3>3, OneMore
  <2> QED
    BY <1>o, <2>1, Zenon DEF Rising
<1>3. Rising(z)
  <2>1. ASSUME NEW a \in 1 .. n, NEW b \in 1 .. n, a < b PROVE z[a] < z[b]
    <3>1. a + m < b + m
      BY <2>1
    <3>2. q[a + m] < q[b + m]
      BY <1>t, <1>z, <3>1, Zenon
    <3>3. z[a] = q[a + m] /\ z[b] = q[b + m]
      BY <1>z
    <3> QED
      BY <3>2, <3>3
  <2> QED
    BY <1>q, <2>1, Zenon DEF Rising
<1>4. \A k \in DOMAIN o, l \in DOMAIN z : g[k] < z[l]
  <2> SUFFICES ASSUME NEW k \in 1 .. w + 1, NEW l \in 1 .. n PROVE g[k] < z[l]
    BY <1>o, <1>q, Zenon
  <2>1. l + m \in DOMAIN q /\ z[l] = q[l + m] /\ 1 < l + m
    <3>1. l + m \in DOMAIN q /\ z[l] = q[l + m] /\ l + m > 1
      BY <1>z
    <3>2. l + m \in Int
      OBVIOUS
    <3> QED
      BY <3>1, <3>2
  <2>2. CASE k \in 1 .. w
    <3>1. g[k] = Heads[k] /\ Heads[k] < q[l + m]
      BY <1>o, <1>t, <2>1, <2>2, Zenon
    <3> QED
      BY <2>1, <3>1
  <2>3. CASE k = w + 1
    <3>1. g[k] = q[1] /\ q[1] < q[l + m]
      BY <1>o, <1>q, <1>t, <2>1, <2>3, Zenon
    <3> QED
      BY <2>1, <3>1
  <2> QED
    BY <2>2, <2>3, OneMore
<1>5. ASSUME NEW j \in 1 .. at, Stays(j), \A k \in DOMAIN o : j # g[k] PROVE \E k \in DOMAIN z : j = z[k]
  <2>1. \A k \in 1 .. w : j # Heads[k]
    BY <1>o, <1>5, OneMore, Zenon
  <2>2. PICK l \in DOMAIN q : j = q[l]
    BY <1>t, <1>5, <2>1, Zenon
  <2>3. j # q[1]
    BY <1>o, <1>5, OneMore, Zenon
  <2>4. m = 3 => ~Stays(q[2]) /\ ~Stays(q[3])
    BY DroppedIs
  <2>5. l # 1 /\ (m = 3 => l # 2 /\ l # 3)
    BY <1>5, <2>2, <2>3, <2>4, Zenon
  <2>6. l \in 1 .. n + m
    BY <1>q
  <2>7. l \in Int /\ l >= 1 /\ l <= n + m
    BY <2>6
  <2>8. l > m
    BY <1>s, <2>5, <2>7
  <2>9. l - m \in 1 .. n /\ (l - m) + m = l
    BY <2>7, <2>8
  <2>10. z[l - m] = j
    <3>1. z[l - m] = q[(l - m) + m]
      BY <1>z, <2>9
    <3> QED
      BY <2>2, <2>9, <3>1
  <2> QED
    BY <1>q, <2>9, <2>10
<1> QED
  BY <1>1, <1>2, <1>3, <1>4, <1>5

(* The account holds when the first of q goes out and the rest remains.     *)
LEMMA DropAccount ==
    ASSUME IInv, NEW q, NEW m \in Nat, NEW z, Account(q), Drops(q, m, z)
    PROVE  Account(z)'
<1>k. at \in Nat
  BY Known
<1>u. stream' = stream /\ at' = at /\ full' = full /\ out' = Append(out, Means(q[1]))
  BY DEF Drops
<1>a. /\ EscapesWhole(q) /\ NoFalseEscape(q) /\ Members(q) /\ SoftLast(q) /\ SoftHeld(q) /\ Told(q)
  BY DEF Account
<1>n. PICK n \in Nat : Suffix(q, m, n, z)
  BY DropIs
<1>z. DOMAIN z = 1 .. n /\ Len(z) = n
  BY <1>n, Zenon DEF Suffix
<1>p. \A k \in 1 .. n : k \in Int /\ 1 <= k /\ k <= n
  OBVIOUS
<1>1. PICK o : o = out'
  OBVIOUS
<1>2. PICK g : g = Heads'
  OBVIOUS
<1>3. q[1] \in Int
  BY <1>n, DroppedIs
<1>4. PICK w \in Nat : Grows(w, o, g, q[1])
  <2>1. o = Append(out, Means(q[1]))
    BY <1>u, <1>1
  <2>2. g = [k \in DOMAIN o |-> HeadOf(o[k])]
    BY <1>1, <1>2 DEF Heads
  <2> QED
    BY <1>3, <2>1, <2>2, OutMore
<1>5. /\ \A k \in DOMAIN o : Stays(g[k]) /\ o[k] = Means(g[k])
      /\ Rising(g) /\ Rising(z) /\ \A k \in DOMAIN o, l \in DOMAIN z : g[k] < z[l]
      /\ \A j \in 1 .. at : Stays(j) => (\E k \in DOMAIN o : j = g[k]) \/ (\E k \in DOMAIN z : j = z[k])
  BY <1>a, <1>n, <1>4, DropTold
<1>6. \A k \in DOMAIN z : Escapes(z[k]) => Three(z, k) \/ ToCut(z, k)'
  BY <1>k, <1>u, <1>a, <1>n, <1>z, <1>p, SuffixEscapes
<1>7. NoFalseEscape(z)
  <2> SUFFICES ASSUME NEW k \in 1 .. n, k + 2 <= n, ~Escapes(z[k]), stream[z[k]] = "=", stream[z[k + 1]] \in HexDigits
               PROVE  stream[z[k + 2]] \notin HexDigits
    BY <1>z DEF NoFalseEscape
  <2>1. k \in Int /\ 1 <= k
    OBVIOUS
  <2> QED
    BY <1>k, <1>a, <1>n, <2>1, SuffixNoEscape
<1>8. \A k \in DOMAIN z : \/ Stays(z[k])
                          \/ k >= 2 /\ z[k - 1] = z[k] - 1 /\ Escapes(z[k] - 1)
                          \/ k >= 3 /\ z[k - 2] = z[k] - 2 /\ Escapes(z[k] - 2)
                          \/ Soft(z[k])
                          \/ SoftPending'
  BY <1>a, <1>n, <1>z, <1>p, DropMembers
<1>9. \A k \in 1 .. n : Soft(z[k]) => k = n /\ z[k] = at /\ full
  BY <1>a, <1>n, DropSoft
<1>10. WellFormed /\ Soft(at) => \E k \in 1 .. n : z[k] = at
  BY <1>a, <1>n, DropSoft
<1>11. \A k \in DOMAIN z : Soft(z[k]) =>
               \/ k = Len(z) /\ z[k] = at' /\ full'
               \/ BreakNext' /\ k = 1 /\ \A l \in 2 .. Len(z) : ~Stays(z[l])
  BY <1>u, <1>z, <1>9
<1>12. WellFormed /\ Soft(at') => \E k \in DOMAIN z : z[k] = at'
  BY <1>u, <1>z, <1>10
<1>13. \A j \in 1 .. at' : Stays(j) => (\E k \in DOMAIN o : j = g[k]) \/ (\E k \in DOMAIN z : j = z[k])
  BY <1>u, <1>5
<1>14. stream' = stream
  BY <1>u
<1> QED
  BY <1>14, <1>1, <1>2, <1>5, <1>6, <1>7, <1>8, <1>11, <1>12, <1>13, NextAccount, Zenon

-----------------------------------------------------------------------------
(* Where last is empty, line is all that is left.                           *)
LEMMA NoneHeld ==
    ASSUME IInv, lo = hi
    PROVE  Left = line /\ Lasting = 0 /\ ~SoftPending
<1>1. Lasting = 0 /\ line \in Seq(1 .. at) /\ lo \in Nat
  BY Known
<1>2. Pending = <<>>
  BY <1>1 DEF Pending
<1>3. Left = line
  BY <1>1, <1>2 DEF Left
<1> QED
  BY <1>1, <1>3 DEF SoftPending

(* With nothing kept, what is left is the line.                             *)
LEMMA NoneHeldNext ==
    ASSUME IInv', lo' = hi'
    PROVE  Left' = line'
<1>1. lo' \in Nat /\ line' \in Seq(1 .. at')
  BY DEF IInv, TypeOK, MaxQPBuf
<1>2. Lasting' = 0
  <2>1. lo' \in Nat
    BY <1>1
  <2>2. Lasting' = hi' - lo'
    BY DEF Lasting
  <2>3. PICK n \in Nat : n = lo' /\ n = hi'
    BY <2>1
  <2>4. Lasting' = n - n
    BY <2>2, <2>3, Zenon
  <2> QED
    BY <2>4
<1>3. Pending' = <<>>
  BY <1>2 DEF Pending
<1> QED
  BY <1>1, <1>3 DEF Left

(* Where it is not, it begins at prev[0].                                   *)
LEMMA SomeHeld ==
    ASSUME IInv, Begun, lo # hi, NEW q, q = Left
    PROVE  /\ lo = 0 /\ Lasting = hi /\ hi \in {1, 2} /\ AtEscape
           /\ stream[q[1]] = "=" /\ q[1] = prev[0] /\ (hi = 2 => q[2] = prev[1])
           /\ Len(q) = hi + Len(line) /\ Len(q) \in Nat /\ q \in Seq(1 .. at) /\ 1 \in DOMAIN q
           /\ q[1] \in 1 .. at /\ q[1] \in Int
           /\ \A k \in 1 .. Len(line) : q[hi + k] = line[k]
           /\ cuts # {}
<1>1. lo = 0 /\ hi \in {1, 2} /\ stream[prev[0]] = "=" /\ cuts # {}
  BY DEF Begun
<1>2. Lasting = hi
  BY <1>1 DEF Lasting
<1>3. /\ q \in Seq(1 .. at) /\ Len(q) = hi + Len(line) /\ Len(q) \in Nat /\ Len(line) \in Nat
      /\ \A k \in 1 .. hi : q[k] = prev[lo + k - 1]
      /\ \A k \in 1 .. Len(line) : q[hi + k] = line[k]
  BY <1>2, LeftIs, Known
<1>4. q[1] = prev[0] /\ (hi = 2 => q[2] = prev[1])
  BY <1>1, <1>3
<1>5. 1 \in DOMAIN q
  BY <1>1, <1>3
<1>6. AtEscape
  BY <1>1, <1>2 DEF AtEscape
<1>7. q[1] \in 1 .. at
  <2>1. at \in Nat /\ q \in Seq(1 .. at)
    BY <1>3, Known
  <2> QED
    BY <1>5, <2>1, SeqIs
<1>8. q[1] \in Int
  BY <1>7
<1> QED
  BY <1>1, <1>2, <1>3, <1>4, <1>5, <1>6, <1>7, <1>8

(* One or three bytes go out of line.                                       *)
LEMMA LineDrops ==
    ASSUME IInv, IInv', NEW q, q = Left, Account(q), lo = hi, lo' = hi', UNCHANGED <<stream, at, full>>,
           NEW m \in {1, 3}, m <= Len(line), line' = SubSeq(line, m + 1, Len(line)),
           out' = Append(out, Means(line[1])), Stays(line[1]),
           (m = 1 /\ ~Escapes(line[1])) \/ (m = 3 /\ Escapes(line[1]) /\ Three(line, 1))
    PROVE  \E z : z = Left' /\ Account(z)'
<1>1. q = line /\ ~SoftPending
  BY NoneHeld
<1>2. PICK z : z = line'
  OBVIOUS
<1>3. q \in Seq(1 .. at)
  BY <1>1, Known
<1>4. Drops(q, m, z)
  BY <1>1, <1>2, <1>3 DEF Drops
<1>5. m \in Nat
  OBVIOUS
<1>6. Account(z)'
  BY <1>4, <1>5, DropAccount
<1>7. z = Left'
  BY <1>2, NoneHeldNext
<1> QED
  BY <1>6, <1>7

(* The first byte of line, when last is empty: an escape or not.            *)
LEMMA LineFirst ==
    ASSUME IInv, NEW q, q = Left, Account(q), lo = hi, line # <<>>
    PROVE  /\ Len(line) \in Nat /\ Len(line) >= 1 /\ 1 \in DOMAIN line
           /\ Escapes(line[1]) => Stays(line[1]) /\ stream[line[1]] = "=" /\ (Three(line, 1) \/ (full /\ Len(line) < 3))
           /\ stream[line[1]] = "=" /\ Len(line) >= 3 /\ stream[line[2]] \in HexDigits /\ stream[line[3]] \in HexDigits
                => Escapes(line[1])
           /\ Stays(line[1]) \/ (Soft(line[1]) /\ stream[line[1]] = "=" /\ Len(line) = 1 /\ full)
<1>1. q = line /\ ~SoftPending
  BY NoneHeld
<1>2. Len(line) \in Nat /\ Len(line) >= 1 /\ 1 \in DOMAIN line /\ line[1] \in 1 .. at /\ line[1] \in Int /\ at \in Nat /\ stream \in Seq(Symbols)
  BY Known
<1>3. /\ EscapesWhole(line) /\ NoFalseEscape(line) /\ Members(line) /\ SoftLast(line)
  BY <1>1 DEF Account
<1>4. ASSUME Escapes(line[1]) PROVE Stays(line[1]) /\ stream[line[1]] = "=" /\ (Three(line, 1) \/ (full /\ Len(line) < 3))
  <2>1. Stays(line[1]) /\ stream[line[1]] = "="
    BY <1>2, <1>4, EscapeStays, EscapesIs
  <2>2. Three(line, 1) \/ ToCut(line, 1)
    BY <1>2, <1>3, <1>4 DEF EscapesWhole
  <2>3. ToCut(line, 1) => full /\ Len(line) < 3
    <3> SUFFICES ASSUME ToCut(line, 1) PROVE full /\ Len(line) < 3
      OBVIOUS
    <3>1. full /\ line[1] + 2 > at /\ Len(line) = 1 + (at - line[1])
      BY DEF ToCut
    <3> QED
      BY <1>2, <3>1
  <2> QED
    BY <2>1, <2>2, <2>3
<1>5. stream[line[1]] = "=" /\ Len(line) >= 3 /\ stream[line[2]] \in HexDigits /\ stream[line[3]] \in HexDigits => Escapes(line[1])
  <2>1. 1 + 1 = 2 /\ 1 + 2 = 3
    OBVIOUS
  <2> QED
    BY <1>2, <1>3, <2>1 DEF NoFalseEscape
<1>6. Stays(line[1]) \/ (Soft(line[1]) /\ stream[line[1]] = "=" /\ Len(line) = 1 /\ full)
  <2>1. Stays(line[1]) \/ Soft(line[1])
    BY <1>1, <1>2, <1>3 DEF Members
  <2>2. Soft(line[1]) => stream[line[1]] = "="
    BY DEF Soft, Is
  <2>3. Soft(line[1]) => Len(line) = 1 /\ full
    BY <1>1, <1>2, <1>3 DEF SoftLast, BreakNext
  <2> QED
    BY <2>1, <2>2, <2>3
<1> QED
  BY <1>2, <1>4, <1>5, <1>6

(* One lemma for each operation: the account holds after it as before.      *)
LEMMA EscapeOrder ==
    ASSUME IInv, IInv', Begun, NEW q, q = Left, Account(q), Escape
    PROVE  Begun' /\ \E z : z = Left' /\ Account(z)'
<1>1. /\ line # <<>> /\ Lasting = 0 /\ stream[line[1]] = "=" /\ IsHex(Tail(line))
      /\ Emit(<<line[2], line[3]>>) /\ line' = SubSeq(line, 4, Len(line))
      /\ UNCHANGED <<source, at, full, first, err, pending, pc, ret, cuts>>
  BY DEF Escape, Escaped, Decoding
<1>2. lo = hi /\ line \in Seq(1 .. at) /\ Len(line) \in Nat /\ at \in Nat
  BY <1>1, Known
<1>3. Len(line) >= 3 /\ stream[line[2]] \in HexDigits /\ stream[line[3]] \in HexDigits
  <2>1. Len(Tail(line)) = Len(line) - 1 /\ \A k \in 1 .. Len(line) - 1 : Tail(line)[k] = line[k + 1]
    BY <1>1, <1>2
  <2>2. Len(line) - 1 >= 2 /\ stream[Tail(line)[1]] \in HexDigits /\ stream[Tail(line)[2]] \in HexDigits
    BY <1>1, <2>1 DEF IsHex
  <2>3. Tail(line)[1] = line[2] /\ Tail(line)[2] = line[3]
    BY <1>2, <2>1, <2>2
  <2> QED
    BY <1>2, <2>2, <2>3
<1>4. Escapes(line[1]) /\ Stays(line[1]) /\ Three(line, 1)
  BY <1>1, <1>2, <1>3, LineFirst
<1>5. out' = Append(out, Means(line[1]))
  <2>1. line[2] = line[1] + 1 /\ line[3] = line[1] + 2
    BY <1>4 DEF Three
  <2> QED
    BY <1>1, <1>4, <2>1 DEF Emit, Means
<1>6. lo' = hi' /\ UNCHANGED <<stream, at, full>> /\ 3 + 1 = 4
  BY <1>1, <1>2 DEF source, pending
<1>7. \E z : z = Left' /\ Account(z)'
  BY <1>1, <1>2, <1>3, <1>4, <1>5, <1>6, LineDrops
<1>8. Begun'
  BY <1>1, <1>2 DEF Begun, pending
<1> QED
  BY <1>7, <1>8

(* A byte that stays is stored.                                             *)
LEMMA OneOrder ==
    ASSUME IInv, IInv', Begun, NEW q, q = Left, Account(q), line # <<>>, lo = hi,
           Emit(<<line[1]>>), line' = Tail(line), UNCHANGED <<source, at, full, pending, cuts>>,
           Stays(line[1]), ~Escapes(line[1])
    PROVE  Begun' /\ \E z : z = Left' /\ Account(z)'
<1>1. line' = SubSeq(line, 1 + 1, Len(line)) /\ 1 <= Len(line)
  BY TailOn, Known
<1>2. out' = Append(out, Means(line[1]))
  BY DEF Emit, Means
<1>3. lo' = hi' /\ UNCHANGED <<stream, at, full>>
  BY DEF source, pending
<1>4. \E z : z = Left' /\ Account(z)'
  BY <1>1, <1>2, <1>3, LineDrops
<1>5. Begun'
  BY <1>3 DEF Begun
<1> QED
  BY <1>4, <1>5

(* A byte that is no escape stays.                                          *)
LEMMA LiteralOrder ==
    ASSUME IInv, IInv', Begun, NEW q, q = Left, Account(q), Literal
    PROVE  Begun' /\ \E z : z = Left' /\ Account(z)'
<1>1. line # <<>> /\ Lasting = 0 /\ stream[line[1]] # "=" /\ Emit(<<line[1]>>) /\ line' = Tail(line)
      /\ UNCHANGED <<source, at, full, err, pending, pc, ret, cuts>>
  BY DEF Literal, Decoding
<1>2. lo = hi
  BY <1>1, Known
<1>3. Stays(line[1]) /\ ~Escapes(line[1])
  BY <1>1, <1>2, LineFirst
<1> QED
  BY <1>1, <1>2, <1>3, OneOrder

(* A "=" that is let through is no escape and ends no line.                 *)
LEMMA BadEscapeIs ==
    ASSUME IInv, NEW q, q = Left, Account(q), BadEscape
    PROVE  /\ lo = hi /\ line # <<>> /\ Stays(line[1]) /\ ~Escapes(line[1]) /\ stream[line[1]] = "="
<1>1. line # <<>> /\ Lasting = 0 /\ stream[line[1]] = "=" /\ ~IsHex(Tail(line)) /\ ~(Len(line) < 3 /\ full)
  BY DEF BadEscape, Escaped, Decoding
<1>2. lo = hi /\ line \in Seq(1 .. at) /\ Len(line) \in Nat /\ Len(line) >= 1 /\ at \in Nat /\ stream \in Seq(Symbols) /\ line[1] \in Int
  <2>1. lo = hi /\ line \in Seq(1 .. at) /\ Len(line) \in Nat /\ Len(line) >= 1 /\ at \in Nat /\ stream \in Seq(Symbols)
    BY <1>1, Known
  <2>2. line[1] \in Int
    BY <2>1
  <2> QED
    BY <2>1, <2>2
<1>3. ASSUME Escapes(line[1]) PROVE FALSE
  <2>1. Three(line, 1)
    BY <1>1, <1>2, <1>3, LineFirst
  <2>2. 3 <= Len(line) /\ line[2] = line[1] + 1 /\ line[3] = line[1] + 2
    BY <2>1 DEF Three
  <2>3. stream[line[2]] \in HexDigits /\ stream[line[3]] \in HexDigits
    BY <1>2, <1>3, <2>2, EscapesIs
  <2>4. Len(Tail(line)) = Len(line) - 1 /\ \A k \in 1 .. Len(line) - 1 : Tail(line)[k] = line[k + 1]
    BY <1>1, <1>2
  <2>5. Tail(line)[1] = line[2] /\ Tail(line)[2] = line[3] /\ Len(Tail(line)) >= 2
    BY <1>2, <2>2, <2>4
  <2> QED
    BY <1>1, <2>3, <2>5 DEF IsHex
<1>4. Stays(line[1])
  BY <1>1, <1>2, LineFirst
<1> QED
  BY <1>1, <1>2, <1>3, <1>4

(* A "=" that begins no escape is stored as itself.                        *)
LEMMA BadEscapeOrder ==
    ASSUME IInv, IInv', Begun, NEW q, q = Left, Account(q), BadEscape
    PROVE  Begun' /\ \E z : z = Left' /\ Account(z)'
<1>1. Emit(<<line[1]>>) /\ line' = Tail(line) /\ UNCHANGED <<source, at, full, pending, cuts>>
  BY DEF BadEscape
<1> QED
  BY <1>1, BadEscapeIs, OneOrder

(* What last holds is the beginning of an escape, or a "=" whose end of     *)
(* line is next.                                                            *)
LEMMA HeldIs ==
    ASSUME IInv, Good, Begun, lo # hi, NEW q, q = Left, Account(q)
    PROVE  /\ WellFormed /\ ~BreakCut /\ ~strict
           /\ Escapes(q[1]) \/ Soft(q[1])
           /\ Escapes(q[1]) => Three(q, 1) \/ (Len(q) < 3 /\ q[1] + 2 > at /\ Len(q) = 1 + (at - q[1]) /\ \A l \in 1 .. Len(q) : q[l] = q[1] + (l - 1))
           /\ Soft(q[1]) => (Len(q) = 1 /\ q[1] = at /\ full) \/ (BreakNext /\ \A l \in 2 .. Len(q) : ~Stays(q[l]))
           /\ SoftPending => Soft(q[1])
<1>1. stream[q[1]] = "=" /\ q \in Seq(1 .. at) /\ 1 \in DOMAIN q /\ cuts # {} /\ q[1] = prev[0] /\ Len(q) \in Nat
  BY SomeHeld
<1>2. WellFormed /\ ~BreakCut /\ ~strict
  BY <1>1 DEF Good
<1>3. stream \in Seq(Symbols) /\ at \in Nat /\ at <= Len(stream) /\ Len(stream) \in Nat
  BY Known
<1>4. q[1] \in 1 .. at
  BY SomeHeld
<1>5. q[1] \in 1 .. Len(stream)
  BY <1>3, <1>4
<1>6. Escapes(q[1]) \/ Soft(q[1])
  BY <1>1, <1>2, <1>3, <1>5, EqualsIs
<1>7. EscapesWhole(q) /\ SoftLast(q)
  BY DEF Account
<1>8. Escapes(q[1]) => Three(q, 1) \/ (Len(q) < 3 /\ q[1] + 2 > at /\ Len(q) = 1 + (at - q[1]) /\ \A l \in 1 .. Len(q) : q[l] = q[1] + (l - 1))
  <2> SUFFICES ASSUME Escapes(q[1]), ~Three(q, 1)
               PROVE  Len(q) < 3 /\ q[1] + 2 > at /\ Len(q) = 1 + (at - q[1]) /\ \A l \in 1 .. Len(q) : q[l] = q[1] + (l - 1)
    OBVIOUS
  <2>1. ToCut(q, 1)
    BY <1>1, <1>7 DEF EscapesWhole
  <2>2. q[1] + 2 > at /\ Len(q) = 1 + (at - q[1]) /\ \A l \in 1 .. Len(q) : q[l] = q[1] + (l - 1)
    BY <2>1 DEF ToCut
  <2>3. Len(q) < 3
    <3>1. q[1] + 2 > at /\ Len(q) = 1 + (at - q[1])
      BY <2>2
    <3> QED
      BY <1>3, <1>4, <3>1
  <2> QED
    BY <2>2, <2>3
<1>9. Soft(q[1]) => (Len(q) = 1 /\ q[1] = at /\ full) \/ (BreakNext /\ \A l \in 2 .. Len(q) : ~Stays(q[l]))
  BY <1>1, <1>7 DEF SoftLast
<1>10. SoftPending => Soft(q[1])
  BY <1>1 DEF SoftPending
<1> QED
  BY <1>2, <1>6, <1>8, <1>9, <1>10

(* The kept bytes and those that follow are an escape.                      *)
LEMMA JoinOrder ==
    ASSUME IInv, IInv', Good, Begun, NEW q, q = Left, Account(q), Join
    PROVE  Begun' /\ \E z : z = Left' /\ Account(z)'
<1>1. Lasting > 0 /\ line # <<>> /\ (Lasting = 1 => ~StartsLine(line) /\ Len(line) >= 2) /\ UNCHANGED <<source, at, full, err, pc, ret, cuts>>
  BY DEF Join, AtEscape, Decoding
<1>2. lo # hi
  BY <1>1, Known
<1>3. /\ lo = 0 /\ Lasting = hi /\ hi \in {1, 2} /\ q[1] = prev[0] /\ (hi = 2 => q[2] = prev[1])
      /\ Len(q) = hi + Len(line) /\ Len(q) \in Nat /\ q \in Seq(1 .. at) /\ 1 \in DOMAIN q
      /\ \A k \in 1 .. Len(line) : q[hi + k] = line[k]
  BY <1>2, SomeHeld
<1>4. Len(line) \in Nat /\ Len(line) >= 1 /\ line \in Seq(1 .. at) /\ at \in Nat /\ stream \in Seq(Symbols)
  BY <1>1, Known
<1>5. PICK n \in Nat : Len(line) = n + (3 - hi)
  <2>1. Len(line) - (3 - hi) \in Nat /\ Len(line) = (Len(line) - (3 - hi)) + (3 - hi)
    <3>1. CASE hi = 1
      <4>1. Len(line) >= 2
        BY <1>1, <1>3, <3>1
      <4> QED
        BY <1>4, <3>1, <4>1
    <3>2. CASE hi = 2
      BY <1>4, <3>2
    <3> QED
      BY <1>3, <3>1, <3>2
  <2> QED
    BY <2>1
<1>6. Len(q) = n + 3 /\ Len(q) >= 3
  BY <1>3, <1>5
<1>7. ~SoftPending /\ ~Soft(q[1]) /\ Escapes(q[1]) /\ Three(q, 1)
  <2>1. ~BreakNext
    BY <1>1, <1>3 DEF BreakNext, SoftPending
  <2>a. Soft(q[1]) => Len(q) = 1 \/ BreakNext
    BY <1>2, HeldIs
  <2>b. Len(q) # 1
    BY <1>6
  <2>2. ~Soft(q[1])
    BY <2>1, <2>a, <2>b
  <2>3. Escapes(q[1])
    BY <1>2, <2>2, HeldIs
  <2>4. Three(q, 1)
    BY <1>2, <1>6, <2>3, HeldIs
  <2>5. ~SoftPending
    BY <1>2, <2>2, HeldIs
  <2> QED
    BY <2>2, <2>3, <2>4, <2>5
<1>8. q[2] = q[1] + 1 /\ q[3] = q[1] + 2
  BY <1>7 DEF Three
<1>9. q[2] = (IF hi = 1 THEN line[1] ELSE prev[1]) /\ q[3] = (IF hi = 1 THEN line[2] ELSE line[1])
  <2>1. CASE hi = 1
    <3>1. 1 \in 1 .. Len(line) /\ 2 \in 1 .. Len(line) /\ hi + 1 = 2 /\ hi + 2 = 3
      BY <1>1, <1>3, <1>4, <2>1
    <3> QED
      BY <1>3, <2>1, <3>1
  <2>2. CASE hi = 2
    <3>1. 1 \in 1 .. Len(line) /\ hi + 1 = 3
      BY <1>4, <2>2
    <3> QED
      BY <1>3, <2>2, <3>1
  <2> QED
    BY <1>3, <2>1, <2>2
<1> DEFINE joined == [k \in 0 .. 3 |-> IF k \in Lasting .. MaxQPBuf - 1 THEN line[k - Lasting + 1] ELSE prev[k]]
           digits == <<joined[1], joined[2]>>
<1>10. /\ line' = SubSeq(line, (MaxQPBuf - Lasting) + 1, Len(line)) /\ hi' = MaxQPBuf
       /\ IF IsHex(digits) THEN Emit(digits) /\ lo' = MaxQPBuf /\ UNCHANGED first
          ELSE Emit(<<joined[0]>>) /\ lo' = 1 /\ AddError("hex")
  BY DEF Join
<1>11. joined[1] = q[2] /\ joined[2] = q[3]
  <2>1. CASE hi = 1
    BY <1>3, <1>9, <2>1 DEF MaxQPBuf
  <2>2. CASE hi = 2
    BY <1>3, <1>9, <2>2 DEF MaxQPBuf
  <2> QED
    BY <1>3, <2>1, <2>2
<1> HIDE DEF joined
<1>12. IsHex(digits) /\ digits = Means(q[1])
  <2>2. q[1] \in Int
    BY <1>2, SomeHeld
  <2>3. stream[q[2]] \in HexDigits /\ stream[q[3]] \in HexDigits
    BY <1>4, <1>7, <1>8, <2>2, EscapesIs
  <2>4. IsHex(digits)
    BY <1>11, <2>3 DEF IsHex
  <2>5. digits = Means(q[1])
    BY <1>7, <1>8, <1>11 DEF Means
  <2> QED
    BY <2>4, <2>5
<1> HIDE DEF digits
<1>13. out' = Append(out, Means(q[1])) /\ lo' = hi' /\ line' = SubSeq(line, (3 - hi) + 1, Len(line))
  BY <1>3, <1>10, <1>12 DEF Emit, MaxQPBuf
<1>14. PICK z : z = line'
  OBVIOUS
<1>15. z = SubSeq(q, 3 + 1, Len(q))
  <2>1. PICK m \in Nat : m = 3 - hi
    BY <1>3
  <2>a. Len(line) = n + m
    BY <1>5, <2>1
  <2>b. PICK t \in Nat : t = 3
    OBVIOUS
  <2>c. Len(q) = n + t
    BY <1>6, <2>b
  <2>2. /\ SubSeq(line, m + 1, Len(line)) \in Seq(1 .. at) /\ Len(SubSeq(line, m + 1, Len(line))) = n
        /\ \A k \in 1 .. n : SubSeq(line, m + 1, Len(line))[k] = line[k + m]
    BY <1>4, <2>a, SuffixIs
  <2>3. /\ SubSeq(q, t + 1, Len(q)) \in Seq(1 .. at) /\ Len(SubSeq(q, t + 1, Len(q))) = n
        /\ \A k \in 1 .. n : SubSeq(q, t + 1, Len(q))[k] = q[k + t]
    <3>1. at \in Nat /\ q \in Seq(1 .. at)
      BY <1>3, <1>4
    <3>2. PICK r : r = q
      OBVIOUS
    <3>3. at \in Nat /\ r \in Seq(1 .. at) /\ Len(r) = n + t
      BY <2>c, <3>1, <3>2
    <3>4. /\ SubSeq(r, t + 1, Len(r)) \in Seq(1 .. at) /\ Len(SubSeq(r, t + 1, Len(r))) = n
          /\ \A k \in 1 .. n : SubSeq(r, t + 1, Len(r))[k] = r[k + t]
      BY <3>3, SuffixIs
    <3> QED
      BY <3>2, <3>4
  <2>4. z \in Seq(1 .. at) /\ Len(z) = n /\ \A k \in 1 .. n : z[k] = line[k + m]
    BY <1>13, <1>14, <2>1, <2>2
  <2>5. PICK s : s = SubSeq(q, 3 + 1, Len(q))
    OBVIOUS
  <2>6. s \in Seq(1 .. at) /\ Len(s) = n /\ \A k \in 1 .. n : s[k] = q[k + 3]
    BY <2>3, <2>5, <2>b
  <2>7. ASSUME NEW k \in 1 .. n PROVE z[k] = s[k]
    <3>1. k + m \in 1 .. Len(line) /\ hi + (k + m) = k + 3
      BY <1>3, <1>5, <2>1
    <3>2. q[hi + (k + m)] = line[k + m]
      BY <1>3, <3>1
    <3> QED
      BY <2>4, <2>6, <3>1, <3>2
  <2>8. z = s
    BY <2>4, <2>6, <2>7, SeqEqual
  <2> QED
    BY <2>5, <2>8
<1>16. UNCHANGED <<stream, at, full>>
  BY <1>1 DEF source
<1>17. Stays(q[1])
  <2>2. q[1] \in Int
    BY <1>2, SomeHeld
  <2> QED
    BY <1>4, <1>7, <2>2, EscapeStays
<1>18. Drops(q, 3, z)
  BY <1>3, <1>6, <1>7, <1>13, <1>15, <1>16, <1>17 DEF Drops
<1>19. Account(z)'
  BY <1>18, DropAccount
<1>20. z = Left'
  BY <1>13, <1>14, NoneHeldNext
<1>21. Begun'
  BY <1>1, <1>2, <1>13 DEF Begun
<1> QED
  BY <1>19, <1>20, <1>21

(* last begins with a "=", so that its first byte is never stored as it is. *)
LEMMA FlushOrder == ASSUME IInv, Begun, Flush PROVE FALSE
<1>1. Lasting > 0 /\ ~AtEscape
  BY DEF Flush
<1>2. lo # hi
  BY <1>1, Known
<1>3. lo = 0 /\ stream[prev[0]] = "="
  BY <1>2 DEF Begun
<1> QED
  BY <1>1, <1>3 DEF AtEscape

(* A step that leaves the bytes where they are.                             *)
LEMMA QuietOrder ==
    ASSUME IInv, Begun, NEW q, q = Left, Account(q), UNCHANGED <<source, reader, pending, out, cuts>>
    PROVE  Begun' /\ \E z : z = Left' /\ Account(z)'
<1>1. UNCHANGED <<stream, at, full, out, line, prev, lo, hi, cuts>>
  BY DEF source, reader, pending
<1>2. Left' = Left /\ Begun'
  BY <1>1 DEF Left, Pending, Lasting, Begun
<1>3. SoftPending => SoftPending'
  BY <1>1, Unmoved DEF SoftPending
<1>4. Account(q)'
  BY <1>1, <1>3, SameAccount
<1> QED
  BY <1>2, <1>4

(* The beginning of an escape goes from the line to what is kept.           *)
LEMMA SaveOrder ==
    ASSUME IInv, Begun, NEW q, q = Left, Account(q), Save
    PROVE  Begun' /\ \E z : z = Left' /\ Account(z)'
<1>1. /\ line # <<>> /\ Lasting = 0 /\ stream[line[1]] = "=" /\ Len(line) < 3 /\ full
      /\ prev' = [k \in 0 .. 3 |-> IF k < Len(line) THEN line[k + 1] ELSE prev[k]]
      /\ lo' = 0 /\ hi' = Len(line) /\ line' = <<>>
      /\ UNCHANGED <<source, at, full, first, err, pc, room, ret, out, cuts>>
  BY DEF Save, Escaped, Decoding
<1>2. lo = hi /\ line \in Seq(1 .. at) /\ Len(line) \in Nat /\ Len(line) >= 1
  BY <1>1, Known
<1>3. Len(line) \in {1, 2}
  <2>1. \A m \in Nat : m >= 1 /\ m < 3 => m \in {1, 2}
    OBVIOUS
  <2> QED
    BY <1>1, <1>2, <2>1, Zenon
<1>4. prev'[0] = line[1] /\ \A k \in 1 .. Len(line) : prev'[k - 1] = line[k]
  BY <1>1, <1>3
<1>5. q = line /\ ~SoftPending
  BY <1>2, NoneHeld
<1>6. Left' = line
  <2>1. Lasting' = Len(line)
    <3>1. Lasting' = hi' - lo'
      BY DEF Lasting
    <3> QED
      BY <1>1, <1>2, <3>1
  <2>2. Pending' = [k \in 1 .. Len(line) |-> prev'[0 + k - 1]]
    BY <1>1, <2>1 DEF Pending
  <2>3. ASSUME NEW k \in 1 .. Len(line) PROVE prev'[0 + k - 1] = line[k]
    <3>1. 0 + k - 1 = k - 1
      OBVIOUS
    <3> QED
      BY <1>4, <3>1
  <2>4. Pending' = [k \in 1 .. Len(line) |-> line[k]]
    BY <2>2, <2>3
  <2>5. [k \in 1 .. Len(line) |-> line[k]] = line
    BY <1>2
  <2>6. line \o <<>> = line
    BY <1>2, ConcatEmptySeq
  <2> QED
    BY <1>1, <2>4, <2>5, <2>6 DEF Left
<1>7. Account(q)'
  <2>1. UNCHANGED <<stream, at, full, out>>
    BY <1>1 DEF source
  <2> QED
    BY <1>5, <2>1, SameAccount
<1>8. Begun'
  <2>1. cuts # {}
    BY <1>1 DEF Begun
  <2>2. stream'[prev'[0]] = "="
    BY <1>1, <1>4 DEF source
  <2> QED
    BY <1>1, <1>3, <2>1, <2>2 DEF Begun
<1> QED
  BY <1>5, <1>6, <1>7, <1>8

(* A sequence with two elements before it.                                  *)
LEMMA TwoBefore ==
    ASSUME NEW N \in Nat, NEW x \in 1 .. N, NEW y \in 1 .. N, NEW u \in Seq(1 .. N)
    PROVE  /\ <<x, y>> \o u \in Seq(1 .. N) /\ Len(<<x, y>> \o u) = 2 + Len(u)
           /\ (<<x, y>> \o u)[1] = x /\ (<<x, y>> \o u)[2] = y
           /\ \A k \in 1 .. Len(u) : (<<x, y>> \o u)[2 + k] = u[k]
<1>1. PICK v : v = <<x, y>>
  OBVIOUS
<1>2. v \in Seq(1 .. N) /\ Len(v) = 2 /\ v[1] = x /\ v[2] = y
  BY <1>1
<1>3. /\ v \o u \in Seq(1 .. N) /\ Len(v \o u) = Len(v) + Len(u)
      /\ \A k \in 1 .. Len(v) + Len(u) : (v \o u)[k] = IF k <= Len(v) THEN v[k] ELSE u[k - Len(v)]
  BY <1>2, ConcatProperties
<1>4. Len(u) \in Nat
  OBVIOUS
<1>5. (v \o u)[1] = x /\ (v \o u)[2] = y
  BY <1>2, <1>3, <1>4
<1>6. ASSUME NEW k \in 1 .. Len(u) PROVE (v \o u)[2 + k] = u[k]
  <2>1. 2 + k \in 1 .. 2 + Len(u) /\ ~(2 + k <= 2) /\ (2 + k) - 2 = k
    BY <1>4
  <2> QED
    BY <1>2, <1>3, <2>1
<1> QED
  BY <1>1, <1>2, <1>3, <1>5, <1>6

(* And so does one byte more of it.                                         *)
LEMMA SaveOneOrder ==
    ASSUME IInv, Good, Begun, NEW q, q = Left, Account(q), SaveOne
    PROVE  Begun' /\ \E z : z = Left' /\ Account(z)'
<1>1. /\ line # <<>> /\ Lasting = 1 /\ ~StartsLine(line)
      /\ prev' = [prev EXCEPT ![1] = line[1]] /\ lo' = 0 /\ hi' = 2 /\ line' = Tail(line)
      /\ UNCHANGED <<source, at, full, first, err, pc, room, ret, out, cuts>>
  BY DEF SaveOne, Decoding
<1>2. lo # hi /\ line \in Seq(1 .. at) /\ Len(line) \in Nat /\ Len(line) >= 1 /\ at \in Nat
  BY <1>1, Known
<1>3. /\ lo = 0 /\ hi = 1 /\ q[1] = prev[0] /\ stream[q[1]] = "=" /\ cuts # {}
      /\ Len(q) = hi + Len(line) /\ q \in Seq(1 .. at) /\ Len(q) \in Nat
      /\ \A k \in 1 .. Len(line) : q[hi + k] = line[k]
  BY <1>1, <1>2, SomeHeld
<1>4. ~SoftPending
  <2>1. Soft(q[1]) => Len(q) = 1 \/ BreakNext
    BY <1>2, HeldIs
  <2>2. ~BreakNext
    BY <1>1 DEF BreakNext
  <2>3. Len(q) # 1
    BY <1>2, <1>3
  <2> QED
    BY <1>2, <2>1, <2>2, <2>3, HeldIs
<1>5. prev \in [0 .. 3 -> 0 .. at]
  BY DEF IInv, TypeOK
<1>6. prev'[0] = prev[0] /\ prev'[1] = line[1]
  BY <1>1, <1>5
<1>7. PICK z : z = Left'
  OBVIOUS
<1>8. PICK u : u = line'
  OBVIOUS
<1>9. u \in Seq(1 .. at) /\ Len(u) = Len(line) - 1 /\ \A k \in 1 .. Len(line) - 1 : u[k] = line[k + 1]
  <2>1. u = Tail(line)
    BY <1>1, <1>8
  <2> QED
    BY <1>1, <1>2, <2>1
<1>10. z = <<prev[0], line[1]>> \o u
  <2>1. Lasting' = 2
    BY <1>1 DEF Lasting
  <2>2. Pending' = [k \in 1 .. 2 |-> prev'[0 + k - 1]]
    BY <1>1, <2>1 DEF Pending
  <2>3. Pending' = <<prev'[0], prev'[1]>>
    BY <2>2
  <2> QED
    BY <1>6, <1>7, <1>8, <2>3 DEF Left
<1>11. z = q
  <2>1. prev[0] \in 1 .. at /\ line[1] \in 1 .. at
    <3>1. q[1] \in 1 .. at
      BY <1>2, SomeHeld
    <3>2. line[1] \in 1 .. at
      BY <1>2
    <3> QED
      BY <1>3, <3>1, <3>2
  <2>2. /\ z \in Seq(1 .. at) /\ Len(z) = 2 + Len(u) /\ z[1] = prev[0] /\ z[2] = line[1]
        /\ \A k \in 1 .. Len(u) : z[2 + k] = u[k]
    BY <1>2, <1>9, <1>10, <2>1, TwoBefore
  <2>3. Len(u) = Len(line) - 1 /\ Len(z) = Len(q)
    BY <1>2, <1>3, <1>9, <2>2
  <2>4. \A k \in 1 .. Len(line) - 1 : z[2 + k] = line[k + 1]
    BY <1>9, <2>2, <2>3
  <2>5. z \in Seq(1 .. at) /\ Len(z) = Len(q) /\ z[1] = prev[0] /\ z[2] = line[1] /\ \A k \in 1 .. Len(line) - 1 : z[2 + k] = line[k + 1]
    BY <2>2, <2>3, <2>4
  <2>6. ASSUME NEW k \in 1 .. Len(q) PROVE z[k] = q[k]
    <3>1. CASE k = 1
      BY <1>3, <2>5, <3>1
    <3>2. CASE k = 2
      <4>1. 1 \in 1 .. Len(line) /\ hi + 1 = 2
        BY <1>2, <1>3
      <4> QED
        BY <1>3, <2>5, <3>2, <4>1
    <3>3. CASE k > 2
      <4>1. k - 2 \in 1 .. Len(line) - 1 /\ (k - 2) + 1 \in 1 .. Len(line) /\ hi + ((k - 2) + 1) = k /\ 2 + (k - 2) = k
        BY <1>2, <1>3, <3>3
      <4>2. z[2 + (k - 2)] = line[(k - 2) + 1] /\ q[hi + ((k - 2) + 1)] = line[(k - 2) + 1]
        BY <1>3, <2>5, <4>1
      <4> QED
        BY <4>1, <4>2
    <3>4. k = 1 \/ k = 2 \/ k > 2
      BY <1>3
    <3> QED
      BY <3>1, <3>2, <3>3, <3>4
  <2> QED
    BY <1>3, <2>5, <2>6, SeqEqual
<1>12. Account(q)'
  <2>1. UNCHANGED <<stream, at, full, out>>
    BY <1>1 DEF source
  <2> QED
    BY <1>4, <2>1, SameAccount
<1>13. Begun'
  BY <1>1, <1>3, <1>6 DEF Begun, source
<1> QED
  BY <1>7, <1>11, <1>12, <1>13

(* Nothing is left: what stays is out.                                      *)
LEMMA EmptyAccount ==
    ASSUME IInv, UNCHANGED <<stream, at, full, out>>, NEW q, Account(q),
           \A k \in DOMAIN q : ~Stays(q[k]), ~(WellFormed /\ Soft(at))
    PROVE  Account(<<>>)'
<1>1. PICK o : o = out
  OBVIOUS
<1>2. PICK g : g = Heads
  OBVIOUS
<1>3. PICK z : z = <<>>
  OBVIOUS
<1>4. DOMAIN z = {} /\ Len(z) = 0
  BY <1>3
<1>5. o = out' /\ g = Heads'
  BY <1>1, <1>2 DEF Heads
<1>6. \A k \in DOMAIN o : Stays(g[k]) /\ o[k] = Means(g[k])
  BY <1>1, <1>2 DEF Account, Told
<1>7. Rising(g) /\ Rising(z)
  BY <1>2, <1>4 DEF Account, Told, Rising
<1>8. \A j \in 1 .. at' : Stays(j) => (\E k \in DOMAIN o : j = g[k]) \/ (\E k \in DOMAIN z : j = z[k])
  BY <1>1, <1>2 DEF Account, Told
<1>9. NoFalseEscape(z)
  BY <1>4 DEF NoFalseEscape
<1>10. stream' = stream /\ ~(WellFormed /\ Soft(at'))
  OBVIOUS
<1>11. Account(z)'
  BY <1>4, <1>5, <1>6, <1>7, <1>8, <1>9, <1>10, NextAccount
<1> QED
  BY <1>3, <1>11

(* A soft line break goes, and nothing of it stays.                         *)
LEMMA SoftBreakOrder ==
    ASSUME IInv, IInv', Good, Begun, NEW q, q = Left, Account(q), SoftBreak
    PROVE  Begun' /\ \E z : z = Left' /\ Account(z)'
<1>1. /\ line # <<>> /\ Lasting = 1 /\ StartsLine(line)
      /\ line' = SubSeq(line, IF stream[line[1]] = "lf" THEN 2 ELSE 3, Len(line))
      /\ lo' = 0 /\ hi' = 0
      /\ UNCHANGED <<source, at, full, first, err, prev, pc, room, ret, out, cuts>>
  BY DEF SoftBreak, Decoding
<1>2. lo # hi /\ line \in Seq(1 .. at) /\ line \in Seq(1 .. Len(stream)) /\ Len(line) \in Nat /\ Len(line) >= 1 /\ at \in Nat /\ stream \in Seq(Symbols)
  BY <1>1, Known
<1>3. /\ lo = 0 /\ hi = 1 /\ q[1] = prev[0] /\ q[1] \in Int
      /\ Len(q) = 1 + Len(line) /\ Len(q) \in Nat /\ q \in Seq(1 .. at)
      /\ \A k \in 1 .. Len(line) : q[1 + k] = line[k]
  BY <1>1, <1>2, SomeHeld
<1>4. \/ stream[line[1]] = "lf"
      \/ Len(line) >= 2 /\ stream[line[1]] = "cr" /\ stream[line[2]] = "lf"
  BY <1>1, <1>2, StartsLineIs
<1>5. q[2] = line[1]
  <2>1. 1 \in 1 .. Len(line) /\ 1 + 1 = 2
    BY <1>2
  <2> QED
    BY <1>3, <2>1
<1>6. Soft(q[1])
  <2> SUFFICES ASSUME Escapes(q[1]) PROVE FALSE
    BY <1>2, HeldIs
  <2>1. q[2] = q[1] + 1
    <3>1. CASE Three(q, 1)
      BY <3>1 DEF Three
    <3>2. CASE \A l \in 1 .. Len(q) : q[l] = q[1] + (l - 1)
      <4>1. 2 \in 1 .. Len(q) /\ 2 - 1 = 1
        BY <1>2, <1>3
      <4> QED
        BY <3>2, <4>1
    <3> QED
      BY <1>2, <3>1, <3>2, HeldIs
  <2>2. stream[q[1] + 1] \in HexDigits
    BY <1>2, <1>3, EscapesIs
  <2> QED
    BY <1>4, <1>5, <2>1, <2>2 DEF HexDigits
<1>7. BreakNext /\ \A l \in 2 .. Len(q) : ~Stays(q[l])
  <2>1. Len(q) # 1
    BY <1>2, <1>3
  <2> QED
    BY <1>2, <1>6, <2>1, HeldIs
<1>8. Len(line) = IF stream[line[1]] = "lf" THEN 1 ELSE 2
  BY <1>7 DEF BreakNext
<1>9. line' = <<>>
  <2>1. PICK m : m = IF stream[line[1]] = "lf" THEN 2 ELSE 3
    OBVIOUS
  <2>2. line' = SubSeq(line, m, Len(line))
    BY <1>1, <2>1
  <2>3. m \in Int /\ Len(line) \in Int /\ Len(line) < m
    BY <1>8, <2>1
  <2> QED
    BY <2>2, <2>3, SubSeqEmpty
<1>10. stream[q[Len(q)]] = "lf"
  <2>1. CASE stream[line[1]] = "lf"
    <3>1. Len(q) = 2
      BY <1>3, <1>8, <2>1
    <3> QED
      BY <1>5, <2>1, <3>1
  <2>2. CASE stream[line[1]] # "lf"
    <3>1. Len(q) = 3 /\ 2 \in 1 .. Len(line) /\ 1 + 2 = 3
      BY <1>3, <1>8, <2>2
    <3>2. q[3] = line[2]
      BY <1>3, <3>1
    <3> QED
      BY <1>4, <2>2, <3>1, <3>2
  <2> QED
    BY <2>1, <2>2
<1>11. ~(WellFormed /\ Soft(at))
  <2> SUFFICES ASSUME WellFormed, Soft(at) PROVE FALSE
    OBVIOUS
  <2>1. PICK k \in DOMAIN q : q[k] = at
    BY DEF Account, SoftHeld
  <2>2. k \in 1 .. Len(q) /\ Len(q) \in 1 .. Len(q)
    BY <1>2, <1>3, <2>1
  <2>3. q[Len(q)] \in 1 .. at
    BY <1>2, <1>3, <2>2, SeqIs
  <2>4. k < Len(q) => at < q[Len(q)]
    BY <1>3, <2>1, <2>2 DEF Account, Told, Rising
  <2>5. k = Len(q)
    BY <1>2, <2>2, <2>3, <2>4
  <2> QED
    BY <1>10, <2>1, <2>5 DEF Soft, Is
<1>12. \A k \in DOMAIN q : ~Stays(q[k])
  <2>1. ~Stays(q[1])
    BY <1>6 DEF Stays
  <2>2. \A k \in 1 .. Len(q) : k = 1 \/ k \in 2 .. Len(q)
    BY <1>3
  <2>3. DOMAIN q = 1 .. Len(q)
    BY <1>2, <1>3, SeqIs
  <2> QED
    BY <1>7, <2>1, <2>2, <2>3
<1>13. Account(<<>>)'
  <2>1. UNCHANGED <<stream, at, full, out>>
    BY <1>1 DEF source
  <2> QED
    BY <1>11, <1>12, <2>1, EmptyAccount
<1>14. Left' = <<>> /\ Begun'
  BY <1>1, <1>9, NoneHeldNext, <1>2 DEF Begun
<1> QED
  BY <1>13, <1>14

(* At the end of the stream nothing is held.                                *)
LEMMA ReturnErrorIs ==
    ASSUME IInv, Where, Good, Begun, NEW q, q = Left, Account(q), ReturnError
    PROVE  lo = hi /\ line = <<>>
<1>1. line = <<>> /\ Fn # "nil"
  BY DEF ReturnError
<1> SUFFICES ASSUME lo # hi PROVE FALSE
  BY <1>1
<1>2. /\ hi \in {1, 2} /\ Len(q) = hi + Len(line) /\ Len(q) \in Nat /\ q[1] \in 1 .. at /\ q[1] \in Int
  BY SomeHeld
<1>3. stream \in Seq(Symbols) /\ at \in Nat /\ Len(stream) \in Nat /\ line \in Seq(1 .. Len(stream)) /\ Len(line) = 0
  BY <1>1, Known
<1>4. WellFormed /\ ~strict
  BY HeldIs
<1>5. at = Len(stream)
  BY <1>1, <1>4 DEF Fn, Where
<1>6. ~Escapes(q[1])
  <2> SUFFICES ASSUME Escapes(q[1]) PROVE FALSE
    OBVIOUS
  <2>1. q[1] + 2 \in 1 .. Len(stream)
    BY <1>2, <1>3, EscapesIs
  <2>2. Three(q, 1) => 1 + 2 <= Len(q)
    BY DEF Three
  <2>3. ~Three(q, 1)
    BY <1>2, <1>3, <2>2
  <2>4. q[1] + 2 > at
    BY <2>3, HeldIs
  <2> QED
    BY <1>2, <1>3, <1>5, <2>1, <2>4
<1>7. Soft(q[1])
  BY <1>6, HeldIs
<1>8. q[1] + 1 \in 1 .. Len(stream)
  BY <1>2, <1>3, <1>4, <1>7, SoftIs
<1>9. ~BreakNext
  BY <1>3, StartsLineIs DEF BreakNext
<1>10. q[1] = at
  BY <1>7, <1>9, HeldIs
<1> QED
  BY <1>3, <1>5, <1>8, <1>10

(* The error of the source comes when the line is used up.                  *)
LEMMA ReturnErrorOrder ==
    ASSUME IInv, IInv', Where, Good, Begun, NEW q, q = Left, Account(q), ReturnError
    PROVE  Begun' /\ \E z : z = Left' /\ Account(z)'
<1>1. lo = hi /\ line = <<>>
  BY ReturnErrorIs
<1>2. lo \in Nat /\ Lasting = 0 /\ out \in Seq(Seq(1 .. at)) /\ q = line /\ ~SoftPending
  BY <1>1, Known, NoneHeld
<1>3. room > 0 /\ UNCHANGED <<source, reader, prev, hi, cuts>>
  BY DEF ReturnError
<1>4. out' = out \o [j \in 1 .. 0 |-> <<prev[lo + j - 1]>>] /\ lo' = lo + 0
  BY <1>2, <1>3 DEF ReturnError
<1>5. out' = out /\ lo' = lo
  <2>1. [j \in 1 .. 0 |-> <<prev[lo + j - 1]>>] = <<>>
    OBVIOUS
  <2>2. out \o <<>> = out
    BY <1>2, ConcatEmptySeq
  <2> QED
    BY <1>2, <1>4, <2>1, <2>2
<1>6. UNCHANGED <<stream, at, full, out, line, hi, cuts>>
  BY <1>3, <1>5 DEF source, reader
<1>7. Account(q)'
  BY <1>2, <1>6, SameAccount
<1>8. Left' = line' /\ Begun'
  BY <1>1, <1>5, <1>6, NoneHeldNext DEF Begun
<1> QED
  BY <1>2, <1>6, <1>7, <1>8

-----------------------------------------------------------------------------
(* What is out comes from bytes that are read.                              *)
LEMMA HeadsBelow ==
    ASSUME IInv, NEW q, Account(q), NEW k \in DOMAIN out
    PROVE  Heads[k] \in Int /\ Heads[k] >= 1 /\ Heads[k] <= at /\ (Escapes(Heads[k]) => Heads[k] + 2 <= at)
<1>1. PICK e : e = out[k]
  OBVIOUS
<1>2. PICK j : j = Heads[k]
  OBVIOUS
<1>3. e \in Seq(1 .. at) /\ at \in Nat
  BY <1>1, Known
<1>4. j = HeadOf(e)
  BY <1>1, <1>2 DEF Heads
<1>5. e = Means(j)
  BY <1>1, <1>2 DEF Account, Told
<1>6. CASE Escapes(j)
  <2>1. e = <<j + 1, j + 2>>
    BY <1>5, <1>6 DEF Means
  <2>2. Len(e) = 2 /\ e[1] = j + 1 /\ e[2] = j + 2
    BY <2>1
  <2>3. e[1] \in 1 .. at /\ e[2] \in 1 .. at
    <3>1. \A l \in 1 .. 2 : e[l] \in 1 .. at
      BY <1>3, <2>2, SeqIs
    <3> QED
      BY <3>1
  <2>4. j = e[1] - 1
    BY <1>4, <2>2 DEF HeadOf
  <2>5. j \in Int
    BY <1>3, <2>3, <2>4
  <2>6. j + 2 <= at
    BY <1>3, <2>2, <2>3
  <2>7. j <= at
    BY <1>3, <2>5, <2>6
  <2>8. j >= 1
    BY <1>6, <2>5, Known, EscapesIs
  <2> QED
    BY <1>2, <2>5, <2>6, <2>7, <2>8
<1>7. CASE ~Escapes(j)
  <2>1. e = <<j>>
    BY <1>5, <1>7 DEF Means
  <2>2. Len(e) = 1 /\ e[1] = j
    BY <2>1
  <2>3. e[1] \in 1 .. at
    <3>1. \A l \in 1 .. 1 : e[l] \in 1 .. at
      BY <1>3, <2>2, SeqIs
    <3> QED
      BY <3>1
  <2> QED
    BY <1>2, <1>3, <1>7, <2>2, <2>3
<1> QED
  BY <1>6, <1>7

(* An escape that is not all read is left.                                  *)
LEMMA EscapeLeft ==
    ASSUME IInv, NEW q, q \in Seq(1 .. at), Account(q), NEW p \in 1 .. at, Escapes(p), p + 2 > at
    PROVE  \E k \in DOMAIN q : q[k] = p /\ ToCut(q, k)
<1>1. stream \in Seq(Symbols) /\ at \in Nat /\ p \in Int
  BY Known
<1>2. Stays(p)
  BY <1>1, EscapeStays
<1>3. ~\E k \in DOMAIN out : p = Heads[k]
  <2> SUFFICES ASSUME NEW k \in DOMAIN out, p = Heads[k] PROVE FALSE
    OBVIOUS
  <2>1. p + 2 <= at
    BY HeadsBelow
  <2> QED
    BY <1>1, <2>1
<1>4. PICK k \in DOMAIN q : p = q[k]
  BY <1>2, <1>3 DEF Account, Told
<1>5. Three(q, k) \/ ToCut(q, k)
  BY <1>4 DEF Account, EscapesWhole
<1>6. ~Three(q, k)
  <2> SUFFICES ASSUME Three(q, k) PROVE FALSE
    OBVIOUS
  <2>1. k + 2 <= Len(q) /\ q[k + 2] = p + 2
    BY <1>4 DEF Three
  <2>2. DOMAIN q = 1 .. Len(q) /\ \A l \in 1 .. Len(q) : q[l] \in 1 .. at
    BY <1>1, SeqIs
  <2>3. k \in 1 .. Len(q) /\ Len(q) \in Nat
    BY <1>1, <1>4, <2>2, SeqIs
  <2>4. k + 2 \in 1 .. Len(q)
    BY <2>1, <2>3
  <2>5. p + 2 \in 1 .. at
    BY <2>1, <2>2, <2>4
  <2> QED
    BY <1>1, <2>5
<1> QED
  BY <1>4, <1>5, <1>6

(* u is fetched, from behind at to b; its first d bytes are those behind    *)
(* at.                                                                      *)
Follows(u, m, d, b) ==
    /\ Len(u) = m /\ DOMAIN u = 1 .. m /\ d <= m /\ Rising(u)
    /\ \A l \in 1 .. d : u[l] = at + l
    /\ \A l \in 1 .. m : u[l] \in at + 1 .. b

(* z is q, which has n, and then u.                                         *)
Joined(q, n, u, m, z) ==
    /\ Len(q) = n /\ DOMAIN q = 1 .. n
    /\ Len(z) = n + m /\ DOMAIN z = 1 .. n + m
    /\ \A k \in 1 .. n : z[k] = q[k]
    /\ \A l \in 1 .. m : z[n + l] = u[l]

(* An element of z is one of q or one of u.                                 *)
LEMMA JoinedAt ==
    ASSUME NEW q, NEW n \in Nat, NEW u, NEW m \in Nat, NEW z, Joined(q, n, u, m, z), NEW k \in Int, 1 <= k, k <= n + m
    PROVE  /\ k \in DOMAIN z
           /\ k <= n => k \in DOMAIN q /\ z[k] = q[k]
           /\ k > n => k - n \in 1 .. m /\ z[k] = u[k - n]
<1>1. k \in 1 .. n + m
  OBVIOUS
<1>2. k \in DOMAIN z
  BY <1>1, Zenon DEF Joined
<1>3. ASSUME k <= n PROVE k \in DOMAIN q /\ z[k] = q[k]
  <2>1. k \in 1 .. n
    BY <1>3
  <2> QED
    BY <2>1, Zenon DEF Joined
<1>4. ASSUME k > n PROVE k - n \in 1 .. m /\ z[k] = u[k - n]
  <2>1. k - n \in 1 .. m /\ n + (k - n) = k
    BY <1>4
  <2>2. z[n + (k - n)] = u[k - n]
    BY <2>1, Zenon DEF Joined
  <2> QED
    BY <2>1, <2>2
<1> QED
  BY <1>2, <1>3, <1>4

(* Where the bytes behind an escape, or what may be one, stand.             *)
LEMMA ChainOn ==
    ASSUME at \in Nat, NEW q, NEW n \in Nat, NEW u, NEW m \in Nat, NEW z, Joined(q, n, u, m, z),
           NEW d \in Nat, NEW b, Follows(u, m, d, b),
           NEW k \in Int, 1 <= k, k <= n, NEW p \in Int, q[k] = p, n = k + (at - p), \A l \in k .. n : q[l] = p + (l - k),
           NEW i \in Nat, p + i <= at + d
    PROVE  z[k + i] = p + i
<1>1. d <= m
  BY DEF Follows
<1>2. k + i \in Int /\ 1 <= k + i /\ k + i <= n + m
  BY <1>1
<1>3. CASE p + i <= at
  <2>1. k + i \in k .. n /\ (k + i) - k = i
    BY <1>3
  <2>2. q[k + i] = p + ((k + i) - k)
    BY <2>1
  <2>3. PICK x \in Int : x = k + i
    BY <1>2
  <2>4. 1 <= x /\ x <= n + m /\ x <= n
    BY <1>2, <1>3, <2>3
  <2>5. z[x] = q[x]
    <3>1. x \in 1 .. n
      BY <2>4
    <3> QED
      BY <3>1, Zenon DEF Joined
  <2> QED
    BY <2>1, <2>2, <2>3, <2>5
<1>4. CASE p + i > at
  <2>1. k + i > n /\ (k + i) - n = (p + i) - at /\ (p + i) - at \in 1 .. d /\ at + ((p + i) - at) = p + i
    BY <1>4
  <2>2. PICK x \in Int : x = k + i
    BY <1>2
  <2>4. 1 <= x /\ x <= n + m /\ x > n
    BY <1>2, <2>1, <2>2
  <2>5. z[x] = u[x - n]
    BY <2>4, JoinedAt
  <2>6. x - n = (p + i) - at
    BY <2>1, <2>2
  <2>3. u[(p + i) - at] = at + ((p + i) - at)
    BY <2>1, Zenon DEF Follows
  <2> QED
    BY <2>1, <2>2, <2>3, <2>5, <2>6
<1> QED
  BY <1>3, <1>4

(* The first bytes of u follow those of the stream read before.             *)
LEMMA ChainIn ==
    ASSUME at \in Nat, NEW q, NEW n \in Nat, NEW u, NEW m \in Nat, NEW z, Joined(q, n, u, m, z),
           NEW d \in Nat, NEW b, Follows(u, m, d, b),
           NEW l \in Int, 1 <= l, l <= d
    PROVE  z[n + l] = at + l
<1>1. d <= m
  BY DEF Follows
<1>2. n + l \in Int /\ 1 <= n + l /\ n + l <= n + m /\ n + l > n /\ (n + l) - n = l
  BY <1>1
<1>3. z[n + l] = u[l]
  <2>1. PICK x \in Int : x = n + l
    BY <1>2
  <2>2. 1 <= x /\ x <= n + m /\ x > n /\ x - n = l
    BY <1>2, <2>1
  <2>3. z[x] = u[x - n]
    BY <2>2, JoinedAt
  <2> QED
    BY <2>1, <2>2, <2>3
<1>4. l \in 1 .. d
  OBVIOUS
<1>5. u[l] = at + l
  BY <1>4, Zenon DEF Follows
<1> QED
  BY <1>3, <1>5

-----------------------------------------------------------------------------
(* Before a fetch, what last holds is the end of what is read: nothing, the *)
(* beginning of an escape, or a soft line break's "=".                      *)
Held(q, n) ==
    /\ Len(q) = n /\ DOMAIN q = 1 .. n /\ n <= at
    /\ \A k \in 1 .. n : q[k] = (at - n) + k
    /\ n > 0 => Escapes((at - n) + 1) \/ (n = 1 /\ Soft(at))

(* What is left when a line is used up: nothing, or the beginning of an     *)
(* escape or a soft line break.                                             *)
LEMMA HeldShape ==
    ASSUME IInv, Good, Begun, line = <<>>, NEW q, q = Left, Account(q)
    PROVE  /\ q \in Seq(1 .. at) /\ q = Pending
           /\ \E n \in 0 .. 2 : Held(q, n) /\ (n > 0 => cuts # {} /\ WellFormed /\ ~BreakCut /\ ~strict)
           /\ SoftPending => WellFormed /\ Soft(at)
           /\ WellFormed /\ Soft(at) => SoftPending
<1>1. line \in Seq(1 .. at) /\ Len(line) = 0 /\ at \in Nat /\ stream \in Seq(Symbols) /\ Lasting \in 0 .. 3
  BY Known
<1>2. q \in Seq(1 .. at) /\ Len(q) \in Nat /\ DOMAIN q = 1 .. Len(q)
  BY <1>1, LeftIs, SeqIs
<1>3. q = Pending
  <2>1. \A k \in lo .. hi - 1 : prev[k] \in 1 .. at
    BY Known
  <2>2. lo \in Nat /\ Lasting = hi - lo /\ hi \in Nat
    BY Known
  <2>3. \A k \in 1 .. Lasting : prev[lo + k - 1] \in 1 .. at
    BY <2>1, <2>2
  <2>4. Pending \in Seq(1 .. at)
    BY <1>1, <2>3 DEF Pending
  <2>5. Pending \o <<>> = Pending
    BY <2>4, ConcatEmptySeq
  <2> QED
    BY <2>5 DEF Left
<1>4. CASE lo = hi
  <2>1. q = <<>> /\ ~SoftPending
    BY <1>4, NoneHeld
  <2>2. Len(q) = 0 /\ \A k \in DOMAIN q : FALSE
    BY <2>1
  <2>3. Held(q, 0)
    BY <1>1, <1>2, <2>2 DEF Held
  <2>4. ~(WellFormed /\ Soft(at))
    BY <2>2 DEF Account, SoftHeld
  <2> QED
    BY <1>2, <1>3, <2>1, <2>3, <2>4
<1>5. CASE lo # hi
  <2>1. /\ lo = 0 /\ hi \in {1, 2} /\ q[1] = prev[0] /\ q[1] \in 1 .. at /\ Len(q) = hi /\ cuts # {}
    BY <1>1, <1>5, SomeHeld
  <2>2. WellFormed /\ ~BreakCut /\ ~strict /\ (Escapes(q[1]) \/ Soft(q[1])) /\ (SoftPending => Soft(q[1]))
    BY <1>5, HeldIs
  <2>3. ~BreakNext
    <3>1. line \in Seq(1 .. Len(stream))
      BY Known
    <3> QED
      BY <1>1, <3>1, StartsLineIs DEF BreakNext
  <2>4. Soft(q[1]) => Len(q) = 1 /\ q[1] = at
    BY <1>5, <2>3, HeldIs
  <2>5. ASSUME Escapes(q[1]) PROVE \E n \in 1 .. 2 : Held(q, n) /\ n > 0
    <3>1. ~Three(q, 1)
      BY <2>1 DEF Three
    <3>2. Len(q) < 3 /\ Len(q) = 1 + (at - q[1]) /\ \A l \in 1 .. Len(q) : q[l] = q[1] + (l - 1)
      BY <1>5, <2>5, <3>1, HeldIs
    <3>3. PICK p \in 1 .. at : p = q[1]
      BY <2>1
    <3>a. Len(q) \in Nat
      BY <1>2
    <3>4. PICK n \in Nat : n = Len(q)
      BY <3>a
    <3>5. n \in 1 .. 2 /\ n = 1 + (at - p) /\ \A l \in 1 .. n : q[l] = p + (l - 1)
      BY <2>1, <3>2, <3>3, <3>4
    <3>6. (at - n) + 1 = p /\ n <= at /\ \A k \in 1 .. n : (at - n) + k = p + (k - 1)
      BY <1>1, <3>5
    <3>7. Held(q, n)
      BY <1>2, <2>5, <3>3, <3>4, <3>5, <3>6 DEF Held
    <3> QED
      BY <3>5, <3>7
  <2>6. ASSUME Soft(q[1]) PROVE Held(q, 1) /\ Soft(at) /\ SoftPending
    <3>1. Len(q) = 1 /\ q[1] = at /\ 1 <= at /\ (at - 1) + 1 = at
      BY <1>1, <2>1, <2>4, <2>6
    <3>2. hi = 1
      BY <2>1, <3>1
    <3> QED
      BY <1>2, <2>1, <2>6, <3>1, <3>2 DEF Held, SoftPending
  <2>7. Escapes(q[1]) => ~Soft(q[1]) /\ ~SoftPending
    BY <1>1, <2>1, <2>2, EscapeStays
  <2>8. Escapes(q[1]) => ~(WellFormed /\ Soft(at))
    <3> SUFFICES ASSUME Escapes(q[1]), Soft(at) PROVE FALSE
      OBVIOUS
    <3>1. stream[at] = "="
      BY DEF Soft, Is
    <3>2. PICK n \in 1 .. 2 : Held(q, n) /\ n > 0
      BY <2>5
    <3>3. Len(q) = n /\ q[1] = (at - n) + 1 /\ 1 \in 1 .. n
      BY <3>2 DEF Held
    <3>4. q[1] = at \/ q[1] + 1 = at
      BY <1>1, <3>3
    <3>5. stream[q[1] + 1] \in HexDigits
      BY <1>1, <2>1, EscapesIs
    <3> QED
      BY <2>7, <3>1, <3>4, <3>5 DEF HexDigits
  <2>9. \E n \in 1 .. 2 : Held(q, n)
    BY <2>2, <2>5, <2>6
  <2> QED
    BY <1>2, <1>3, <2>1, <2>2, <2>6, <2>7, <2>8, <2>9
<1> QED
  BY <1>4, <1>5

(* The bytes behind a, w of them, and then white space.                     *)
Run(z, n, a, w) ==
    /\ Len(z) = n /\ DOMAIN z = 1 .. n /\ w <= n
    /\ \A k \in 1 .. w : z[k] = a + k
    /\ \A k \in w + 1 .. n : stream[z[k]] \in Space

(* What is no white space belongs to the run.                               *)
LEMMA RunNot ==
    ASSUME stream \in Seq(Symbols), NEW z, NEW n \in Nat, NEW a \in Nat, NEW w \in Nat, Run(z, n, a, w),
           NEW k \in Int, 1 <= k, k <= n, stream[z[k]] \notin Space
    PROVE  k <= w /\ z[k] = a + k
<1>1. k <= w
  <2> SUFFICES ASSUME k > w PROVE FALSE
    OBVIOUS
  <2>1. k \in w + 1 .. n
    OBVIOUS
  <2> QED
    BY <2>1, Zenon DEF Run
<1>2. k \in 1 .. w
  BY <1>1
<1>3. z[k] = a + k
  BY <1>2, Zenon DEF Run
<1> QED
  BY <1>1, <1>3

(* The run is a stretch of the stream.                                      *)
LEMMA RunAt ==
    ASSUME NEW z, NEW n \in Nat, NEW a \in Nat, NEW w \in Nat, Run(z, n, a, w),
           NEW k \in Int, 1 <= k, k <= w
    PROVE  z[k] = a + k
<1>1. k \in 1 .. w
  OBVIOUS
<1> QED
  BY <1>1, Zenon DEF Run

(* An escape in it is whole, or cut by the end at b.                        *)
RunCut(z, n, a, w, b) ==
    \A k \in 1 .. n, p \in Int :
        p = z[k] /\ Escapes(p) /\ (p + 2 <= a + w \/ (p + 2 > b /\ w = n /\ a + w = b)) =>
            \/ Three(z, k)
            \/ /\ p + 2 > b /\ Len(z) = k + (b - p) /\ p + 2 > a + w
               /\ \A l \in k .. Len(z) : z[l] = p + (l - k)

(* An escape in it is whole, or cut where the run ends.                     *)
LEMMA RunEscapes ==
    ASSUME stream \in Seq(Symbols), NEW z, NEW n \in Nat, NEW a \in Nat, NEW w \in Nat, Run(z, n, a, w),
           NEW b \in Nat
    PROVE  RunCut(z, n, a, w, b)
<1> SUFFICES ASSUME NEW k \in 1 .. n, NEW p \in Int, p = z[k], Escapes(p),
                    p + 2 <= a + w \/ (p + 2 > b /\ w = n /\ a + w = b)
             PROVE  \/ Three(z, k)
                    \/ /\ p + 2 > b /\ Len(z) = k + (b - p) /\ p + 2 > a + w
                       /\ \A l \in k .. Len(z) : z[l] = p + (l - k)
  BY DEF RunCut
<1>1. p \in Int /\ stream[p] = "="
  BY EscapesIs
<1>2. k <= w /\ p = a + k
  <2>1. k \in Int /\ 1 <= k /\ k <= n
    OBVIOUS
  <2> QED
    BY <1>1, <2>1, RunNot DEF Space
<1>3. w <= n /\ Len(z) = n
  BY DEF Run
<1>4. CASE p + 2 <= a + w
  <2>1. k + 1 <= w /\ k + 2 <= w /\ k + 1 \in Int /\ k + 2 \in Int /\ a + (k + 1) = p + 1 /\ a + (k + 2) = p + 2 /\ k + 2 <= n
    BY <1>2, <1>3, <1>4
  <2>2. PICK x \in Int, y \in Int : x = k + 1 /\ y = k + 2
    BY <2>1
  <2>3. 1 <= x /\ x <= w /\ 1 <= y /\ y <= w
    BY <2>1, <2>2
  <2>4. z[x] = a + x /\ z[y] = a + y
    BY <2>3, RunAt
  <2> QED
    BY <1>3, <2>1, <2>2, <2>4 DEF Three
<1>5. CASE p + 2 > a + w
  <2>1. p + 2 > b /\ w = n /\ a + w = b
    BY <1>2, <1>5
  <2>2. Len(z) = k + (b - p)
    BY <1>2, <1>3, <2>1
  <2>3. ASSUME NEW l \in k .. Len(z) PROVE z[l] = p + (l - k)
    <3>1. l \in Int /\ 1 <= l /\ l <= w /\ a + l = p + (l - k)
      BY <1>2, <1>3, <2>1
    <3>2. z[l] = a + l
      BY <3>1, RunAt
    <3> QED
      BY <3>1, <3>2
  <2> QED
    BY <1>5, <2>1, <2>2, <2>3
<1> QED
  BY <1>2, <1>4, <1>5

(* And what looks like an escape is one.                                    *)
LEMMA RunNoFalse ==
    ASSUME stream \in Seq(Symbols), NEW z, NEW n \in Nat, NEW a \in Nat, NEW w \in Nat, Run(z, n, a, w),
           NEW k \in Int, 1 <= k, k + 2 <= n, NEW p \in Int, p = z[k], p \in 1 .. Len(stream), stream[p] = "=",
           stream[z[k + 1]] \in HexDigits, stream[z[k + 2]] \in HexDigits,
           \A l \in 1 .. n : z[l] \in 1 .. Len(stream)
    PROVE  Escapes(p)
<1>1. PICK x \in Int, y \in Int : x = k + 1 /\ y = k + 2
  OBVIOUS
<1>2. 1 <= x /\ x <= n /\ 1 <= y /\ y <= n /\ k <= n /\ y \in 1 .. n
  BY <1>1
<1>3. stream[z[x]] \notin Space /\ stream[z[y]] \notin Space
  BY <1>1 DEF HexDigits, Space
<1>4. z[x] = a + x /\ z[y] = a + y
  BY <1>2, <1>3, RunNot
<1>5. stream[z[k]] \notin Space
  BY DEF Space
<1>6. z[k] = a + k
  BY <1>2, <1>5, RunNot
<1>7. z[x] = p + 1 /\ z[y] = p + 2
  BY <1>1, <1>4, <1>6
<1>8. p + 1 \in 1 .. Len(stream) /\ p + 2 \in 1 .. Len(stream)
  <2>1. x \in 1 .. n
    BY <1>2
  <2> QED
    BY <1>2, <1>7, <2>1
<1> QED
  BY <1>1, <1>7, <1>8, EscapesIs

(* What is fetched: u, which has m bytes from behind at to b.               *)
Fetched(u, m, d, b) ==
    /\ \A l \in d + 1 .. m : stream[u[l]] \in Space
    /\ \A p \in 1 .. b : Escapes(p) /\ p + 2 > at => p + 2 <= at + d \/ (full' /\ p + 2 > b /\ d = m /\ at + d = b)
    /\ \A l \in 1 .. m : \/ Stays(u[l]) \/ Soft(u[l]) \/ BreakNext'
                         \/ l <= d /\ (Escapes(u[l] - 1) \/ Escapes(u[l] - 2))
    /\ \A l \in 1 .. m : Soft(u[l]) => l = m /\ u[l] = b /\ full'
    /\ WellFormed /\ Soft(at) => BreakNext' /\ \A l \in 1 .. m : ~Stays(u[l])
    /\ WellFormed /\ Soft(b) => \E l \in 1 .. m : u[l] = b
    /\ \A j \in at + 1 .. b : Stays(j) => \E l \in 1 .. m : j = u[l]

(* A sequence, and another after it.                                        *)
LEMMA JoinIs ==
    ASSUME NEW N \in Nat, NEW q, q \in Seq(1 .. N), NEW M \in Nat, N <= M, NEW u, u \in Seq(1 .. M)
    PROVE  Joined(q, Len(q), u, Len(u), q \o u) /\ q \o u \in Seq(1 .. M)
<1>1. q \in Seq(1 .. M)
  <2>1. Len(q) \in Nat /\ q = [k \in 1 .. Len(q) |-> q[k]] /\ \A k \in 1 .. Len(q) : q[k] \in 1 .. M
    OBVIOUS
  <2> QED
    BY <2>1
<1>2. Len(q) \in Nat /\ Len(u) \in Nat /\ DOMAIN q = 1 .. Len(q)
  BY <1>1
<1>3. /\ q \o u \in Seq(1 .. M) /\ Len(q \o u) = Len(q) + Len(u)
      /\ \A k \in 1 .. Len(q) + Len(u) : (q \o u)[k] = IF k <= Len(q) THEN q[k] ELSE u[k - Len(q)]
  BY <1>1, ConcatProperties
<1>4. DOMAIN (q \o u) = 1 .. Len(q) + Len(u)
  BY <1>3
<1>5. \A k \in 1 .. Len(q) : (q \o u)[k] = q[k]
  BY <1>2, <1>3
<1>6. \A l \in 1 .. Len(u) : (q \o u)[Len(q) + l] = u[l]
  <2> SUFFICES ASSUME NEW l \in 1 .. Len(u) PROVE (q \o u)[Len(q) + l] = u[l]
    OBVIOUS
  <2>1. Len(q) + l \in 1 .. Len(q) + Len(u) /\ ~(Len(q) + l <= Len(q)) /\ (Len(q) + l) - Len(q) = l
    BY <1>2
  <2> QED
    BY <1>3, <2>1
<1> QED
  BY <1>2, <1>3, <1>4, <1>5, <1>6 DEF Joined

(* With what last holds it is a run again.                                  *)
LEMMA JoinRun ==
    ASSUME at \in Nat, NEW q, NEW n \in Nat, Held(q, n), NEW u, NEW m \in Nat, NEW d \in Nat, NEW b \in Nat,
           Follows(u, m, d, b), \A l \in d + 1 .. m : stream[u[l]] \in Space,
           NEW z, Joined(q, n, u, m, z)
    PROVE  Run(z, n + m, at - n, n + d) /\ at - n \in Nat
<1>1. n <= at /\ d <= m /\ Len(z) = n + m /\ DOMAIN z = 1 .. n + m
  BY Zenon DEF Held, Follows, Joined
<1>2. ASSUME NEW k \in 1 .. n + d PROVE z[k] = (at - n) + k
  <2>1. k \in Int /\ 1 <= k /\ k <= n + m
    BY <1>1
  <2>2. CASE k <= n
    <3>1. k \in 1 .. n
      BY <2>1, <2>2
    <3>2. z[k] = q[k] /\ q[k] = (at - n) + k
      BY <3>1, Zenon DEF Held, Joined
    <3> QED
      BY <3>2
  <2>3. CASE k > n
    <3>1. PICK l \in 1 .. d : k = n + l
      <4>1. k - n \in 1 .. d /\ k = n + (k - n)
        BY <2>3
      <4> QED
        BY <4>1
    <3>2. l \in 1 .. m
      BY <1>1
    <3>3. z[n + l] = u[l] /\ u[l] = at + l
      BY <3>2, Zenon DEF Joined, Follows
    <3> QED
      BY <3>1, <3>3
  <2> QED
    BY <2>1, <2>2, <2>3
<1>3. ASSUME NEW k \in n + d + 1 .. n + m PROVE stream[z[k]] \in Space
  <2>1. PICK l \in d + 1 .. m : k = n + l
    <3>1. k - n \in d + 1 .. m /\ k = n + (k - n)
      OBVIOUS
    <3> QED
      BY <3>1
  <2>2. l \in 1 .. m
    OBVIOUS
  <2>3. z[n + l] = u[l]
    BY <2>2, Zenon DEF Joined
  <2> QED
    BY <2>1, <2>3
<1> QED
  BY <1>1, <1>2, <1>3 DEF Run

(* Every element of z is one of q or one of u.                              *)
Splits(q, n, u, m, z) ==
    \A k \in 1 .. n + m : \/ k \in 1 .. n /\ z[k] = q[k]
                          \/ \E l \in 1 .. m : k = n + l /\ z[k] = u[l]

(* Which is so.                                                             *)
LEMMA JoinedSplit ==
    ASSUME NEW q, NEW n \in Nat, NEW u, NEW m \in Nat, NEW z, Joined(q, n, u, m, z)
    PROVE  Splits(q, n, u, m, z)
<1> SUFFICES ASSUME NEW k \in 1 .. n + m
             PROVE  \/ k \in 1 .. n /\ z[k] = q[k]
                    \/ \E l \in 1 .. m : k = n + l /\ z[k] = u[l]
  BY DEF Splits
<1>1. CASE k <= n
  <2>1. k \in 1 .. n
    BY <1>1
  <2> QED
    BY <2>1, Zenon DEF Joined
<1>2. CASE k > n
  <2>1. k - n \in 1 .. m /\ k = n + (k - n)
    BY <1>2
  <2>2. PICK l \in 1 .. m : k = n + l
    BY <2>1
  <2>3. z[n + l] = u[l]
    BY Zenon DEF Joined
  <2> QED
    BY <2>2, <2>3
<1> QED
  BY <1>1, <1>2

(* What was left and what is fetched rise together.                         *)
LEMMA JoinRising ==
    ASSUME at \in Nat, NEW q, q \in Seq(1 .. at), NEW n \in Nat, Rising(q), NEW u, NEW m \in Nat, NEW d \in Nat, NEW b \in Nat,
           Follows(u, m, d, b), NEW z, Joined(q, n, u, m, z)
    PROVE  Rising(z)
<1>1. Rising(u) /\ DOMAIN z = 1 .. n + m /\ DOMAIN q = 1 .. n /\ DOMAIN u = 1 .. m /\ \A l \in 1 .. m : u[l] \in at + 1 .. b
  BY Zenon DEF Follows, Joined
<1>2. \A k \in 1 .. n : q[k] \in 1 .. at
  BY <1>1
<1> SUFFICES ASSUME NEW x \in 1 .. n + m, NEW y \in 1 .. n + m, x < y PROVE z[x] < z[y]
  BY <1>1 DEF Rising
<1>3. \A k \in 1 .. n + m : \/ k \in 1 .. n /\ z[k] = q[k]
                            \/ \E l \in 1 .. m : k = n + l /\ z[k] = u[l]
  <2>1. Splits(q, n, u, m, z)
    BY JoinedSplit
  <2> QED
    BY <2>1 DEF Splits
<1>4. (x \in 1 .. n /\ z[x] = q[x]) \/ \E l \in 1 .. m : x = n + l /\ z[x] = u[l]
  BY <1>3
<1>5. (y \in 1 .. n /\ z[y] = q[y]) \/ \E l \in 1 .. m : y = n + l /\ z[y] = u[l]
  BY <1>3
<1>6. CASE y \in 1 .. n /\ z[y] = q[y]
  <2>1. x \in 1 .. n /\ z[x] = q[x]
    BY <1>4, <1>6
  <2> QED
    BY <1>1, <1>6, <2>1 DEF Rising
<1>7. CASE \E l \in 1 .. m : y = n + l /\ z[y] = u[l]
  <2>1. PICK l \in 1 .. m : y = n + l /\ z[y] = u[l]
    BY <1>7
  <2>2. CASE x \in 1 .. n /\ z[x] = q[x]
    <3>1. q[x] \in 1 .. at /\ u[l] \in at + 1 .. b
      BY <1>1, <1>2, <2>2
    <3>2. \A v \in 1 .. at, w \in at + 1 .. b : v < w
      OBVIOUS
    <3>3. q[x] < u[l]
      BY <3>1, <3>2
    <3> QED
      BY <2>1, <2>2, <3>3
  <2>3. CASE \E i \in 1 .. m : x = n + i /\ z[x] = u[i]
    <3>1. PICK i \in 1 .. m : x = n + i /\ z[x] = u[i]
      BY <2>3
    <3>2. i < l
      BY <2>1, <3>1
    <3> QED
      BY <1>1, <2>1, <3>1, <3>2 DEF Rising
  <2> QED
    BY <1>4, <2>2, <2>3
<1> QED
  BY <1>5, <1>6, <1>7

(* What is kept stays, is a digit of an escape that does, or is a soft line *)
(* break.                                                                   *)
LEMMA HeldMembers ==
    ASSUME stream \in Seq(Symbols), at \in Nat, NEW q, NEW n \in 0 .. 2, Held(q, n), NEW k \in 1 .. n
    PROVE  /\ Stays(q[k]) \/ (k >= 2 /\ q[k - 1] = q[k] - 1 /\ Escapes(q[k] - 1)) \/ Soft(q[k])
           /\ Soft(q[k]) => n = 1 /\ k = 1 /\ Soft(at)
<1>1. /\ n <= at /\ \A i \in 1 .. n : q[i] = (at - n) + i
      /\ Escapes((at - n) + 1) \/ (n = 1 /\ Soft(at))
  BY DEF Held
<1>2. CASE Escapes((at - n) + 1)
  <2>1. PICK p \in Int : p = (at - n) + 1
    OBVIOUS
  <2>2. Stays(p) /\ ~Soft(p) /\ stream[p + 1] \in HexDigits
    BY <1>2, <2>1, EscapeStays, EscapesIs
  <2>3. CASE k = 1
    <3>1. q[k] = p
      BY <1>1, <2>1, <2>3
    <3> QED
      BY <2>2, <3>1
  <2>4. CASE k = 2
    <3>1. q[k] = p + 1 /\ q[k - 1] = p
      BY <1>1, <2>1, <2>4
    <3>2. ~Soft(p + 1)
      BY <2>2 DEF Soft, Is, HexDigits
    <3>3. q[k] - 1 = p
      BY <3>1
    <3> QED
      BY <1>2, <2>1, <2>4, <3>1, <3>2, <3>3
  <2> QED
    BY <2>3, <2>4
<1>3. CASE n = 1 /\ Soft(at)
  <2>1. k = 1 /\ q[k] = at
    BY <1>1, <1>3
  <2> QED
    BY <1>3, <2>1
<1> QED
  BY <1>1, <1>2, <1>3

(* The digits of an escape follow it.                                       *)
LEMMA GrowDigits ==
    ASSUME IInv, NEW q, q \in Seq(1 .. at), Account(q), NEW n \in Nat, Held(q, n),
           NEW l \in Nat \ {0}, NEW i \in {1, 2}, Escapes((at + l) - i)
    PROVE  n + l > i
<1>1. at \in Nat /\ stream \in Seq(Symbols) /\ n <= at /\ DOMAIN q = 1 .. n /\ \A k \in 1 .. n : q[k] = (at - n) + k
  BY Known DEF Held
<1>2. CASE l > i
  BY <1>2
<1>3. CASE l <= i
  <2>1. PICK p \in Int : p = (at + l) - i
    BY <1>1
  <2>2. p >= 1
    BY <1>1, <1>3, <2>1, EscapesIs
  <2>3. p \in 1 .. at /\ p + 2 > at /\ Escapes(p)
    BY <1>1, <1>3, <2>1, <2>2
  <2>4. PICK k \in DOMAIN q : q[k] = p
    BY <2>3, EscapeLeft
  <2>5. k \in 1 .. n /\ p = (at - n) + k
    BY <1>1, <2>4
  <2> QED
    BY <1>1, <1>3, <2>1, <2>5
<1> QED
  BY <1>2, <1>3

(* The digits in u have their escape before them in z.                      *)
DigitsBehind(z, n, u, m, d) ==
    \A l \in 1 .. m, i \in {1, 2} :
        l <= d /\ Escapes(u[l] - i) => n + l > i /\ z[(n + l) - i] = z[n + l] - i

(* They have, also when the escape was cut.                                 *)
LEMMA GrowMembers ==
    ASSUME IInv, NEW q, q \in Seq(1 .. at), Account(q), NEW n \in 0 .. 2, Held(q, n),
           NEW u, NEW m \in Nat, NEW d \in Nat, NEW b \in Nat, Follows(u, m, d, b), NEW z, Joined(q, n, u, m, z),
           Run(z, n + m, at - n, n + d)
    PROVE  DigitsBehind(z, n, u, m, d)
<1> SUFFICES ASSUME NEW l \in 1 .. m, l <= d, NEW i \in {1, 2}, Escapes(u[l] - i)
             PROVE  n + l > i /\ z[(n + l) - i] = z[n + l] - i
  BY DEF DigitsBehind
<1>1. at \in Nat /\ n <= at
  BY Known DEF Held
<1>2. l \in 1 .. d
  OBVIOUS
<1>3. u[l] = at + l /\ z[n + l] = u[l]
  BY <1>2, Zenon DEF Follows, Joined
<1>4. n + l > i
  <2>1. l \in Nat \ {0} /\ n \in Nat
    OBVIOUS
  <2> QED
    BY <1>3, <2>1, GrowDigits
<1>5. PICK x \in Nat : x = (n + l) - i
  BY <1>4
<1>6. x \in 1 .. n + d
  BY <1>4, <1>5
<1>7. z[x] = (at - n) + x
  BY <1>6, Zenon DEF Run
<1>8. (at - n) + x = (at + l) - i
  BY <1>1, <1>5
<1> QED
  BY <1>3, <1>4, <1>5, <1>7, <1>8

(* A fetch reads up to b and puts u in the line.                            *)
FetchTo(q, u, b) ==
    /\ q = Left /\ line = <<>> /\ UNCHANGED <<stream, out, prev, lo, hi>>
    /\ b = at' /\ at <= b /\ b <= Len(stream) /\ u = line' /\ u \in Seq(1 .. b)

(* The account holds when what is left grows by u.                          *)
LEMMA GrowAccount ==
    ASSUME IInv, Good, Begun, NEW q, Account(q), NEW b \in Nat, NEW u, FetchTo(q, u, b),
           NEW m \in Nat, NEW d \in Nat, Follows(u, m, d, b), Fetched(u, m, d, b)
    PROVE  \E z : z = Left' /\ Account(z)'
<1>0. /\ q = Left /\ line = <<>> /\ UNCHANGED <<stream, out, prev, lo, hi>>
      /\ b = at' /\ at <= b /\ b <= Len(stream) /\ u = line' /\ u \in Seq(1 .. b)
  BY DEF FetchTo
<1>1. stream \in Seq(Symbols) /\ at \in Nat /\ Len(stream) \in Nat
  BY Known
<1>2. q \in Seq(1 .. at) /\ q = Pending
  BY <1>0, HeldShape
<1>3. PICK n \in 0 .. 2 : Held(q, n) /\ (n > 0 => WellFormed)
  BY <1>0, HeldShape
<1>4. PICK z : z = q \o u
  OBVIOUS
<1>5. z = Left'
  BY <1>0, <1>2, <1>4 DEF Left, Pending, Lasting
<1>6. Joined(q, n, u, m, z) /\ z \in Seq(1 .. b)
  <2>1. Len(q) = n /\ Len(u) = m
    BY <1>3 DEF Held, Follows
  <2>2. Joined(q, Len(q), u, Len(u), q \o u) /\ q \o u \in Seq(1 .. b)
    BY <1>0, <1>1, <1>2, JoinIs
  <2> QED
    BY <1>4, <2>1, <2>2
<1>7. /\ \A l \in d + 1 .. m : stream[u[l]] \in Space
      /\ \A p \in 1 .. b : Escapes(p) /\ p + 2 > at => p + 2 <= at + d \/ (full' /\ p + 2 > b /\ d = m /\ at + d = b)
      /\ \A l \in 1 .. m : \/ Stays(u[l]) \/ Soft(u[l]) \/ BreakNext'
                           \/ l <= d /\ (Escapes(u[l] - 1) \/ Escapes(u[l] - 2))
      /\ \A l \in 1 .. m : Soft(u[l]) => l = m /\ u[l] = b /\ full'
      /\ WellFormed /\ Soft(at) => BreakNext' /\ \A l \in 1 .. m : ~Stays(u[l])
      /\ WellFormed /\ Soft(b) => \E l \in 1 .. m : u[l] = b
      /\ \A j \in at + 1 .. b : Stays(j) => \E l \in 1 .. m : j = u[l]
  BY DEF Fetched
<1>8. n \in Nat /\ n <= at /\ d <= m /\ DOMAIN z = 1 .. n + m /\ Len(z) = n + m /\ DOMAIN q = 1 .. n
  BY <1>3, <1>6 DEF Held, Follows, Joined
<1>9. Run(z, n + m, at - n, n + d) /\ at - n \in Nat
  BY <1>1, <1>3, <1>6, <1>7, <1>8, JoinRun
<1>10. \A k \in 1 .. n + m : z[k] \in 1 .. b
  BY <1>6, <1>8, SeqIs
<1>11. \A k \in 1 .. n + m : \/ k \in 1 .. n /\ z[k] = q[k]
                             \/ \E l \in 1 .. m : k = n + l /\ z[k] = u[l]
  <2>1. n \in Nat
    BY <1>8
  <2>2. Joined(q, n, u, m, z)
    BY <1>6
  <2>3. Splits(q, n, u, m, z)
    BY <1>1, <2>1, <2>2, JoinedSplit, Zenon
  <2> QED
    BY <2>3 DEF Splits
<1>12. PICK a \in Nat, w \in Nat, M \in Nat : a = at - n /\ w = n + d /\ M = n + m
  BY <1>8, <1>9
<1>13. Run(z, M, a, w) /\ DOMAIN z = 1 .. M /\ Len(z) = M /\ a + w = at + d /\ (w = M <=> d = m)
  BY <1>1, <1>8, <1>9, <1>12
<1>14. ASSUME NEW k \in DOMAIN z, Escapes(z[k]) PROVE Three(z, k) \/ ToCut(z, k)'
  <2>1. k \in Int /\ 1 <= k /\ k <= M
    BY <1>13
  <2>2. PICK p \in 1 .. b : p = z[k]
    BY <1>8, <1>10
  <2>3. p \in Int /\ Escapes(p)
    BY <1>14, <2>2
  <2>4. p + 2 <= at + d \/ (full' /\ p + 2 > b /\ d = m /\ at + d = b)
    <3>1. CASE p + 2 > at
      BY <1>7, <2>3, <3>1
    <3>2. CASE p + 2 <= at
      BY <1>1, <3>2
    <3> QED
      BY <1>1, <3>1, <3>2
  <2>5. p + 2 <= a + w \/ (full' /\ p + 2 > b /\ w = M /\ a + w = b)
    BY <1>13, <2>4
  <2>a. p + 2 <= a + w \/ (p + 2 > b /\ w = M /\ a + w = b)
    BY <2>5
  <2>b. Run(z, M, a, w)
    BY <1>13
  <2>c. RunCut(z, M, a, w, b)
    BY <1>1, <2>b, RunEscapes
  <2>6. \/ Three(z, k)
        \/ p + 2 > b /\ Len(z) = k + (b - p) /\ p + 2 > a + w /\ \A l \in k .. Len(z) : z[l] = p + (l - k)
    BY <1>13, <2>a, <2>2, <2>3, <2>c, Zenon DEF RunCut
  <2>7. ASSUME p + 2 > b, Len(z) = k + (b - p), p + 2 > a + w, \A l \in k .. Len(z) : z[l] = p + (l - k) PROVE ToCut(z, k)'
    <3>1. full'
      <4>1. ~(p + 2 <= a + w)
        <5>1. p + 2 > a + w /\ p + 2 \in Int /\ a + w \in Int
          BY <2>3, <2>7
        <5> QED
          BY <5>1
      <4> QED
        BY <2>5, <4>1, Zenon
    <3> QED
      BY <1>0, <2>2, <2>7, <3>1 DEF ToCut
  <2> QED
    BY <2>6, <2>7
<1>15. NoFalseEscape(z)
  <2> SUFFICES ASSUME NEW k \in DOMAIN z, ~Escapes(z[k]), stream[z[k]] = "=", k + 2 <= Len(z),
                      stream[z[k + 1]] \in HexDigits, stream[z[k + 2]] \in HexDigits
               PROVE  FALSE
    BY DEF NoFalseEscape
  <2>1. PICK p \in 1 .. b : p = z[k]
    BY <1>8, <1>10
  <2>2. k \in Int /\ 1 <= k /\ k + 2 <= M /\ p \in Int /\ p \in 1 .. Len(stream)
    BY <1>0, <1>1, <1>13
  <2>3. \A l \in 1 .. M : z[l] \in 1 .. Len(stream)
    <3>1. \A x \in 1 .. b : x \in 1 .. Len(stream)
      BY <1>0, <1>1
    <3>2. \A l \in 1 .. M : z[l] \in 1 .. b
      BY <1>10, <1>12
    <3> QED
      BY <3>1, <3>2
  <2>4. Escapes(p)
    BY <1>1, <1>13, <2>1, <2>2, <2>3, RunNoFalse
  <2> QED
    BY <2>1, <2>4
<1>16. SoftPending => BreakNext'
  BY <1>0, <1>7, HeldShape
<1>17. ASSUME NEW k \in DOMAIN z
       PROVE  \/ Stays(z[k])
              \/ k >= 2 /\ z[k - 1] = z[k] - 1 /\ Escapes(z[k] - 1)
              \/ k >= 3 /\ z[k - 2] = z[k] - 2 /\ Escapes(z[k] - 2)
              \/ Soft(z[k])
              \/ SoftPending'
  <2>1. CASE k \in 1 .. n /\ z[k] = q[k]
    <3>1. Stays(q[k]) \/ (k >= 2 /\ q[k - 1] = q[k] - 1 /\ Escapes(q[k] - 1)) \/ Soft(q[k])
      BY <1>1, <1>3, <2>1, HeldMembers
    <3>2. k >= 2 => z[k - 1] = q[k - 1]
      <4> SUFFICES ASSUME k >= 2 PROVE z[k - 1] = q[k - 1]
        OBVIOUS
      <4>1. k - 1 \in 1 .. n
        BY <2>1
      <4> QED
        BY <1>6, <4>1, Zenon DEF Joined
    <3> QED
      BY <2>1, <3>1, <3>2
  <2>2. CASE \E l \in 1 .. m : k = n + l /\ z[k] = u[l]
    <3>1. PICK l \in 1 .. m : k = n + l /\ z[k] = u[l]
      BY <2>2
    <3>2. \/ Stays(u[l]) \/ Soft(u[l]) \/ BreakNext'
          \/ l <= d /\ (Escapes(u[l] - 1) \/ Escapes(u[l] - 2))
      BY <1>7
    <3>3. ASSUME NEW i \in {1, 2}, l <= d, Escapes(u[l] - i) PROVE k > i /\ z[k - i] = z[k] - i
      <4>1. Joined(q, n, u, m, z) /\ Run(z, n + m, at - n, n + d) /\ Held(q, n)
        BY <1>3, <1>6, <1>9
      <4>3. DigitsBehind(z, n, u, m, d)
        BY <1>2, <4>1, GrowMembers
      <4>2. n + l > i /\ z[(n + l) - i] = z[n + l] - i
        BY <3>3, <4>3 DEF DigitsBehind
      <4> QED
        BY <3>1, <4>2
    <3>4. ASSUME l <= d, Escapes(u[l] - 1) PROVE k >= 2 /\ z[k - 1] = z[k] - 1 /\ Escapes(z[k] - 1)
      BY <1>8, <3>1, <3>3, <3>4
    <3>5. ASSUME l <= d, Escapes(u[l] - 2) PROVE k >= 3 /\ z[k - 2] = z[k] - 2 /\ Escapes(z[k] - 2)
      BY <1>8, <3>1, <3>3, <3>5
    <3>6. BreakNext' => SoftPending'
      BY DEF BreakNext
    <3> QED
      BY <3>1, <3>2, <3>4, <3>5, <3>6
  <2> QED
    BY <1>8, <1>11, <2>1, <2>2
<1>18. ASSUME NEW k \in DOMAIN z, Soft(z[k])
       PROVE  \/ k = Len(z) /\ z[k] = at' /\ full'
              \/ BreakNext' /\ k = 1 /\ \A l \in 2 .. Len(z) : ~Stays(z[l])
  <2>1. CASE k \in 1 .. n /\ z[k] = q[k]
    <3>1. n = 1 /\ k = 1 /\ Soft(at)
      BY <1>1, <1>3, <1>18, <2>1, HeldMembers
    <3>2. WellFormed
      BY <1>3, <3>1
    <3>3. BreakNext' /\ \A l \in 1 .. m : ~Stays(u[l])
      BY <1>7, <3>1, <3>2
    <3>4. ASSUME NEW l \in 2 .. Len(z) PROVE ~Stays(z[l])
      <4>1. l \in 1 .. n + m /\ l \notin 1 .. n
        BY <1>8, <3>1
      <4> QED
        BY <1>11, <3>3, <4>1
    <3> QED
      BY <3>1, <3>3, <3>4
  <2>2. CASE \E l \in 1 .. m : k = n + l /\ z[k] = u[l]
    <3>1. PICK l \in 1 .. m : k = n + l /\ z[k] = u[l]
      BY <2>2
    <3>2. l = m /\ u[l] = b /\ full'
      BY <1>7, <1>18, <3>1
    <3> QED
      BY <1>0, <1>8, <3>1, <3>2
  <2> QED
    BY <1>8, <1>11, <2>1, <2>2
<1>19. ASSUME NEW l \in 1 .. m PROVE n + l \in DOMAIN z /\ z[n + l] = u[l]
  <2>1. z[n + l] = u[l]
    BY <1>6, Zenon DEF Joined
  <2>2. n + l \in 1 .. n + m
    BY <1>8
  <2> QED
    BY <1>8, <2>1, <2>2
<1>20. WellFormed /\ Soft(at') => \E k \in DOMAIN z : z[k] = at'
  BY <1>0, <1>7, <1>19
<1>21. PICK o : o = out'
  OBVIOUS
<1>22. PICK g : g = Heads'
  OBVIOUS
<1>23. o = out /\ g = Heads
  BY <1>0, <1>21, <1>22 DEF Heads
<1>24. Told(q)
  BY DEF Account
<1>25. \A k \in DOMAIN o : Stays(g[k]) /\ o[k] = Means(g[k])
  BY <1>23, <1>24 DEF Told
<1>26. Rising(g) /\ Rising(z)
  BY <1>1, <1>2, <1>6, <1>8, <1>23, <1>24, JoinRising DEF Told
<1>27. ASSUME NEW k \in DOMAIN o, NEW l \in DOMAIN z PROVE g[k] < z[l]
  <2>1. CASE l \in 1 .. n /\ z[l] = q[l]
    BY <1>8, <1>23, <1>24, <2>1 DEF Told
  <2>2. CASE \E i \in 1 .. m : l = n + i /\ z[l] = u[i]
    <3>1. PICK i \in 1 .. m : z[l] = u[i]
      BY <2>2
    <3>2. u[i] \in at + 1 .. b
      BY Zenon DEF Follows
    <3>3. g[k] \in Int /\ g[k] <= at
      BY <1>23, HeadsBelow
    <3>4. \A x \in Int, y \in at + 1 .. b : x <= at => x < y
      BY <1>1
    <3> QED
      BY <3>1, <3>2, <3>3, <3>4
  <2> QED
    BY <1>8, <1>11, <2>1, <2>2
<1>28. ASSUME NEW j \in 1 .. at', Stays(j) PROVE (\E k \in DOMAIN o : j = g[k]) \/ (\E k \in DOMAIN z : j = z[k])
  <2>1. CASE j \in 1 .. at
    <3>1. (\E k \in DOMAIN o : j = g[k]) \/ (\E k \in DOMAIN q : j = q[k])
      BY <1>23, <1>24, <1>28, <2>1 DEF Told
    <3>2. \A k \in DOMAIN q : k \in DOMAIN z /\ z[k] = q[k]
      <4>1. \A k \in 1 .. n : z[k] = q[k]
        BY <1>6, Zenon DEF Joined
      <4>2. \A k \in 1 .. n : k \in 1 .. n + m
        BY <1>8
      <4> QED
        BY <1>8, <4>1, <4>2
    <3> QED
      BY <3>1, <3>2
  <2>2. CASE j \in at + 1 .. b
    <3>1. PICK l \in 1 .. m : j = u[l]
      BY <1>7, <1>28, <2>2
    <3> QED
      BY <1>19, <3>1
  <2> QED
    BY <1>0, <1>1, <2>1, <2>2
<1>29. Account(z)'
  BY <1>14, <1>15, <1>17, <1>18, <1>20, <1>21, <1>22, <1>25, <1>26, <1>27, <1>28, <1>0, NextAccount
<1> QED
  BY <1>5, <1>29

-----------------------------------------------------------------------------
(* A piece of a line, where it does not cut the end of a soft line break.   *)
LEMMA PieceSoft ==
    ASSUME stream \in Seq(Symbols), WellFormed, NEW a \in Nat, NEW b \in Nat, b <= Len(stream),
           \A j \in a + 1 .. b : stream[j] # "lf",
           ~(Is(b, {"cr"}) /\ Is(b - 1, {"="}) /\ Is(b + 1, {"lf"})),
           NEW j \in Int, a <= j, j < b
    PROVE  ~Soft(j)
<1> SUFFICES ASSUME Soft(j) PROVE FALSE
  OBVIOUS
<1>1. j \in 1 .. Len(stream) /\ stream[j] = "=" /\ LineEnd(j + 1) /\ Len(stream) \in Nat
  BY SoftIs
<1>2. PICK i \in a + 1 .. b : i = j + 1
  BY <1>1
<1>3. stream[i] # "lf" /\ LineEnd(i) /\ i \in Int
  BY <1>1, <1>2
<1>4. i + 1 \in 1 .. Len(stream) /\ stream[i] = "cr" /\ stream[i + 1] = "lf" /\ i \in 1 .. Len(stream)
  BY <1>3, LineEndIs
<1>5. i = b
  <2> SUFFICES ASSUME i # b PROVE FALSE
    OBVIOUS
  <2>1. i + 1 \in a + 1 .. b
    BY <1>2
  <2> QED
    BY <1>4, <2>1
<1>6. i - 1 = j
  BY <1>1, <1>2
<1>7. DOMAIN stream = 1 .. Len(stream)
  OBVIOUS
<1> QED
  BY <1>1, <1>4, <1>5, <1>6, <1>7 DEF Is

(* What is in a piece stays, or belongs to an escape or a soft line break.  *)
LEMMA PieceStays ==
    ASSUME stream \in Seq(Symbols), WellFormed, NEW a \in Nat, NEW b \in Nat, b <= Len(stream),
           \A j \in a + 1 .. b : stream[j] # "lf",
           ~(Is(b, {"cr"}) /\ Is(b - 1, {"="}) /\ Is(b + 1, {"lf"})),
           NEW j \in Int, a < j, j <= b
    PROVE  Stays(j) \/ Soft(j) \/ Escapes(j - 1) \/ Escapes(j - 2)
<1>1. j \in a + 1 .. b /\ j \in 1 .. Len(stream) /\ Len(stream) \in Nat /\ DOMAIN stream = 1 .. Len(stream)
  OBVIOUS
<1>2. stream[j] # "lf"
  BY <1>1
<1>3. Trailing(j) => LineEnd(j)
  BY <1>1 DEF WellFormed
<1>4. ~AfterSoft(j)
  <2> SUFFICES ASSUME AfterSoft(j) PROVE FALSE
    OBVIOUS
  <2>1. PICK k \in 1 .. j - 1 : Soft(k) /\ \A l \in k + 1 .. j : Is(l, Space) /\ (l < j => ~Is(l, {"lf"}))
    BY DEF AfterSoft
  <2>2. j = k + 1 /\ LineEnd(j)
    BY <1>1, <1>2, <2>1, AfterSoftFormed
  <2>3. stream[j] = "cr" /\ j + 1 \in 1 .. Len(stream) /\ stream[j + 1] = "lf"
    BY <1>2, <2>2, LineEndIs
  <2>4. j = b
    <3> SUFFICES ASSUME j # b PROVE FALSE
      OBVIOUS
    <3>1. j + 1 \in a + 1 .. b
      BY <1>1
    <3> QED
      BY <2>3, <3>1
  <2>5. k = j - 1 /\ k \in Int
    BY <2>2
  <2>6. Is(j - 1, {"="})
    BY <2>1, <2>5 DEF Soft
  <2> QED
    BY <1>1, <2>3, <2>4, <2>6 DEF Is
<1> QED
  BY <1>3, <1>4 DEF Stays

(* A piece is a stretch without LF.                                         *)
LEMMA PieceIs ==
    ASSUME IInv, FetchPiece
    PROVE  /\ line = <<>> /\ line' = Stretch(at, at') /\ at' \in Nat /\ at < at' /\ at' <= Len(stream)
           /\ full' = TRUE /\ cuts' = cuts \union {at'} /\ Fn = "nil"
           /\ UNCHANGED <<source, err, pending, pc, room, ret, out>>
           /\ \A j \in at + 1 .. at' : stream[j] # "lf"
<1>k. at \in Nat /\ Len(stream) \in Nat /\ at <= Len(stream) /\ stream \in Seq(Symbols) /\ at \in 0 .. Len(stream)
  BY Known
<1>1. BufSize \in Nat /\ BufSize >= 1 /\ BufSize <= Len(Rest) /\ Len(Rest) = Len(stream) - at
  BY <1>k, RestIs, BufSizeAssumption DEF FetchPiece
<1>2. line' = Stretch(at, at + BufSize)
  <2>1. Rest = Stretch(at, Len(stream))
    BY DEF Rest, Stretch
  <2>2. 0 \in 0 .. Len(stream) - at /\ BufSize \in 0 .. Len(stream) - at /\ 0 + 1 = 1 /\ at + 0 = at
    BY <1>1, <1>k
  <2>3. SubSeq(Stretch(at, Len(stream)), 0 + 1, BufSize) = Stretch(at + 0, at + BufSize)
    BY <1>k, <2>2, StretchPart
  <2> QED
    BY <2>1, <2>2, <2>3 DEF FetchPiece
<1>3. at' = at + BufSize /\ at' \in Nat /\ at < at' /\ at' <= Len(stream)
  BY <1>1, <1>k DEF FetchPiece
<1>4. \A j \in 1 .. BufSize : stream[at + j] # "lf"
  <2>1. FirstLF \notin 1 .. BufSize
    BY DEF FetchPiece
  <2>2. CASE FirstLF = 0
    <3>1. \A j \in 1 .. Len(Rest) : stream[at + j] # "lf"
      BY <1>k, <2>2, FirstLFIs
    <3> QED
      BY <1>1, <1>k, <3>1
  <2>3. CASE FirstLF # 0
    <3>1. FirstLF \in 1 .. Len(Rest) /\ \A j \in 1 .. FirstLF - 1 : stream[at + j] # "lf"
      BY <1>k, <2>3, FirstLFIs
    <3> QED
      BY <1>1, <1>k, <2>1, <3>1
  <2> QED
    BY <2>2, <2>3
<1>5. ASSUME NEW j \in at + 1 .. at' PROVE stream[j] # "lf"
  <2>1. j - at \in 1 .. BufSize /\ at + (j - at) = j
    BY <1>1, <1>3, <1>k
  <2> QED
    BY <1>4, <2>1
<1>6. full' = TRUE /\ cuts' = cuts \union {at'} /\ line = <<>> /\ Fn = "nil" /\ UNCHANGED <<source, err, pending, pc, room, ret, out>>
  BY DEF FetchPiece, Fetching
<1> QED
  BY <1>2, <1>3, <1>5, <1>6

(* A stretch is what a fetch goes on with.                                  *)
LEMMA StretchFollows ==
    ASSUME at \in Nat, NEW b \in Nat, NEW c \in Nat, at <= c, c <= b
    PROVE  /\ Follows(Stretch(at, c), c - at, c - at, b) /\ c - at \in Nat /\ Stretch(at, c) \in Seq(1 .. b)
           /\ \A l \in 1 .. c - at : Stretch(at, c)[l] = at + l
<1>1. PICK u : u = Stretch(at, c)
  OBVIOUS
<1>2. PICK m \in Nat : m = c - at
  OBVIOUS
<1>3. u \in Seq(1 .. b) /\ Len(u) = m /\ DOMAIN u = 1 .. m /\ \A l \in 1 .. m : u[l] = at + l
  BY <1>1, <1>2, StretchIs
<1>4. Rising(u)
  BY <1>3 DEF Rising
<1>5. \A l \in 1 .. m : u[l] \in at + 1 .. b
  BY <1>2, <1>3
<1> QED
  BY <1>1, <1>2, <1>3, <1>4, <1>5 DEF Follows

(* Good asks of it that it ends not between the CR and the LF of a soft     *)
(* line break.                                                              *)
LEMMA PieceGood ==
    ASSUME IInv, FetchPiece, Good', NEW b, b = at'
    PROVE  WellFormed /\ ~(Is(b, {"cr"}) /\ Is(b - 1, {"="}) /\ Is(b + 1, {"lf"}))
<1>1. stream' = stream /\ cuts' = cuts \union {b}
  BY PieceIs DEF source
<1>2. WellFormed' /\ ~BreakCut'
  BY <1>1 DEF Good
<1>3. WellFormed
  BY <1>1, <1>2, Unmoved
<1>4. ~(Is(b, {"cr"}) /\ Is(b - 1, {"="}) /\ Is(b + 1, {"lf"}))
  BY <1>1, <1>2 DEF BreakCut, Is
<1> QED
  BY <1>3, <1>4

(* The account holds after a piece.                                         *)
LEMMA FetchPieceOrder ==
    ASSUME IInv, Good, Good', Begun, NEW q, q = Left, Account(q), FetchPiece
    PROVE  Begun' /\ \E z : z = Left' /\ Account(z)'
<1>1. /\ line = <<>> /\ line' = Stretch(at, at') /\ at' \in Nat /\ at < at' /\ at' <= Len(stream)
      /\ full' = TRUE /\ cuts' = cuts \union {at'} /\ UNCHANGED <<source, pending, out>>
      /\ \A j \in at + 1 .. at' : stream[j] # "lf"
  BY PieceIs
<1>2. stream \in Seq(Symbols) /\ at \in Nat /\ Len(stream) \in Nat
  BY Known
<1>3. PICK b \in Nat : b = at'
  BY <1>1
<1>4. WellFormed /\ ~(Is(b, {"cr"}) /\ Is(b - 1, {"="}) /\ Is(b + 1, {"lf"}))
  BY <1>3, PieceGood
<1>5. PICK u : u = Stretch(at, b)
  OBVIOUS
<1>7. at < b /\ b <= Len(stream) /\ \A j \in at + 1 .. b : stream[j] # "lf"
  BY <1>1, <1>3
<1>6. PICK m \in Nat : m = b - at
  <2>1. b - at \in Nat
    BY <1>2, <1>7
  <2> QED
    BY <2>1
<1>8. Follows(u, m, m, b) /\ u \in Seq(1 .. b) /\ \A l \in 1 .. m : u[l] = at + l
  <2>1. at <= b /\ b <= b
    BY <1>2, <1>7
  <2> QED
    BY <1>2, <1>5, <1>6, <2>1, StretchFollows
<1>9. at + m = b
  BY <1>2, <1>6
<1>10. ~Soft(at) /\ \A j \in at + 1 .. b : Soft(j) => j = b
  <2>1. ASSUME NEW j \in Int, at <= j, j < b PROVE ~Soft(j)
    BY <1>2, <1>4, <1>7, <2>1, PieceSoft
  <2>2. ~Soft(at)
    BY <1>2, <1>7, <2>1
  <2>3. ASSUME NEW j \in at + 1 .. b, j # b PROVE ~Soft(j)
    <3>1. j \in Int /\ at <= j /\ j < b
      BY <1>2, <2>3
    <3> QED
      BY <2>1, <3>1
  <2> QED
    BY <2>2, <2>3
<1>11. \A j \in at + 1 .. b : Stays(j) \/ Soft(j) \/ Escapes(j - 1) \/ Escapes(j - 2)
  <2> SUFFICES ASSUME NEW j \in at + 1 .. b PROVE Stays(j) \/ Soft(j) \/ Escapes(j - 1) \/ Escapes(j - 2)
    OBVIOUS
  <2>1. j \in Int /\ at < j /\ j <= b
    BY <1>2
  <2> QED
    BY <1>2, <1>4, <1>7, <2>1, PieceStays
<1>12. \A l \in 1 .. m : u[l] \in at + 1 .. b
  BY <1>8, Zenon DEF Follows
<1>13. \A l \in m + 1 .. m : stream[u[l]] \in Space
  OBVIOUS
<1>14. ASSUME NEW p \in 1 .. b, Escapes(p), p + 2 > at PROVE p + 2 <= at + m \/ (full' /\ p + 2 > b /\ m = m /\ at + m = b)
  <2>1. p + 2 <= b \/ p + 2 > b
    OBVIOUS
  <2> QED
    BY <1>1, <1>9, <2>1
<1>15. ASSUME NEW l \in 1 .. m
       PROVE  \/ Stays(u[l]) \/ Soft(u[l]) \/ BreakNext'
              \/ l <= m /\ (Escapes(u[l] - 1) \/ Escapes(u[l] - 2))
  BY <1>11, <1>12
<1>16. ASSUME NEW l \in 1 .. m, Soft(u[l]) PROVE l = m /\ u[l] = b /\ full'
  <2>1. u[l] = b /\ u[l] = at + l
    BY <1>8, <1>10, <1>12, <1>16
  <2>2. l = m
    BY <1>2, <1>6, <2>1
  <2> QED
    BY <1>1, <2>1, <2>2
<1>17. ~(WellFormed /\ Soft(at))
  BY <1>10
<1>18. ASSUME NEW j \in at + 1 .. b PROVE \E l \in 1 .. m : j = u[l]
  <2>1. j - at \in 1 .. m /\ at + (j - at) = j
    BY <1>2, <1>6
  <2> QED
    BY <1>8, <2>1
<1>19. b \in at + 1 .. b
  BY <1>2, <1>7
<1>20. WellFormed /\ Soft(b) => \E l \in 1 .. m : u[l] = b
  BY <1>18, <1>19
<1>21. Fetched(u, m, m, b)
  BY <1>13, <1>14, <1>15, <1>16, <1>17, <1>18, <1>20 DEF Fetched
<1>22. FetchTo(q, u, b)
  <2>1. u = line' /\ at <= b
    BY <1>1, <1>2, <1>3, <1>5, <1>7
  <2> QED
    BY <1>1, <1>3, <1>7, <1>8, <2>1 DEF FetchTo, source, pending
<1>23. \E z : z = Left' /\ Account(z)'
  BY <1>8, <1>21, <1>22, GrowAccount
<1>24. Begun'
  BY <1>1 DEF Begun, source, pending
<1> QED
  BY <1>23, <1>24

-----------------------------------------------------------------------------
(* A line, and where the white space at its end begins.                     *)
LineOf(a, e, c) ==
    /\ a <= c /\ c <= Len(stream) /\ e \in Nat /\ a <= e /\ e <= c
    /\ \A j \in a + 1 .. c - 1 : stream[j] # "lf"
    /\ c = Len(stream) \/ (c > a /\ stream[c] = "lf")
    /\ Trimmed(a, e, c)

(* What comes before it is the end of a line, or nothing.                   *)
Begins(a) == a = 0 \/ a = Len(stream) \/ stream[a] = "lf"

(* An end of line is white space at the end of a line.                      *)
LEMMA LineEndTrailing ==
    ASSUME stream \in Seq(Symbols), NEW j \in 1 .. Len(stream), LineEnd(j)
    PROVE  Trailing(j)
<1>1. stream[j] = "lf" \/ (j + 1 \in 1 .. Len(stream) /\ stream[j] = "cr" /\ stream[j + 1] = "lf")
  BY LineEndIs
<1>2. CASE stream[j] = "lf"
  <2>1. j \in j .. Len(stream) /\ (\A l \in j .. j : stream[l] \in Space) /\ \A l \in j .. j - 1 : stream[l] # "lf"
    BY <1>2 DEF Space
  <2> QED
    BY <1>2, <2>1 DEF Trailing
<1>3. CASE j + 1 \in 1 .. Len(stream) /\ stream[j] = "cr" /\ stream[j + 1] = "lf"
  <2>1. /\ j + 1 \in j .. Len(stream) /\ (\A l \in j .. j + 1 : stream[l] \in Space)
        /\ \A l \in j .. (j + 1) - 1 : stream[l] # "lf"
    <3>1. \A l \in j .. j + 1 : l = j \/ l = j + 1
      OBVIOUS
    <3>2. \A l \in j .. (j + 1) - 1 : l = j
      OBVIOUS
    <3> QED
      BY <1>3, <3>1, <3>2 DEF Space
  <2> QED
    BY <1>3, <2>1 DEF Trailing
<1> QED
  BY <1>1, <1>2, <1>3

(* What does not stay of a line: the white space at its end, and the soft   *)
(* line break.                                                              *)
LEMMA LineKnown ==
    ASSUME stream \in Seq(Symbols), NEW a \in Nat, NEW c \in Nat, NEW e, LineOf(a, e, c), NEW j \in a + 1 .. c
    PROVE  /\ j \in 1 .. Len(stream) /\ j \in Int
           /\ Trailing(j) <=> j > e
           /\ Soft(j) <=> j = e /\ stream[e] = "="
           /\ j > e /\ e > a /\ stream[e] = "=" => AfterSoft(j)
           /\ AfterSoft(j) =>
                  \/ j > e /\ e > a /\ stream[e] = "="
                  \/ \E k \in 1 .. a : /\ Soft(k) /\ k \in 1 .. j - 1
                                       /\ \A l \in k + 1 .. j : Is(l, Space) /\ (l < j => ~Is(l, {"lf"}))
<1>1. /\ a <= c /\ c <= Len(stream) /\ Len(stream) \in Nat
      /\ \A i \in a + 1 .. c - 1 : stream[i] # "lf"
      /\ c = Len(stream) \/ (c > a /\ stream[c] = "lf")
      /\ Trimmed(a, e, c)
  BY DEF LineOf
<1>2. j \in 1 .. Len(stream) /\ j \in Int
  BY <1>1
<1>3. Trailing(j) <=> j > e
  BY <1>1, LineTrailing
<1>4. Soft(j) <=> j = e /\ stream[e] = "="
  BY <1>1, LineSoft
<1>5. /\ j > e /\ e > a /\ stream[e] = "=" => AfterSoft(j)
      /\ AfterSoft(j) =>
                  \/ j > e /\ e > a /\ stream[e] = "="
                  \/ \E k \in 1 .. a : /\ Soft(k) /\ k \in 1 .. j - 1
                                       /\ \A l \in k + 1 .. j : Is(l, Space) /\ (l < j => ~Is(l, {"lf"}))
  BY <1>1, LineAfterSoft
<1> QED
  BY <1>2, <1>3, <1>4, <1>5

(* An escape that begins in a line is in it whole.                          *)
LEMMA LineEscapes ==
    ASSUME stream \in Seq(Symbols), NEW a \in Nat, NEW c \in Nat, NEW e, LineOf(a, e, c),
           NEW p \in 1 .. c, Escapes(p), p + 2 > a
    PROVE  p + 2 <= e /\ (stream[e] = "=" => p + 2 < e)
<1>1. /\ p + 2 \in 1 .. Len(stream) /\ Len(stream) \in Nat
      /\ stream[p] = "=" /\ stream[p + 1] \in HexDigits /\ stream[p + 2] \in HexDigits
  BY EscapesIs
<1>2. /\ a <= c /\ e \in Nat /\ e <= c
      /\ c = Len(stream) \/ (c > a /\ stream[c] = "lf")
      /\ \A j \in e + 1 .. c : stream[j] \in Space
  BY DEF LineOf, Trimmed
<1>3. p + 2 <= c
  <2> SUFFICES ASSUME p + 2 > c PROVE FALSE
    OBVIOUS
  <2>1. stream[c] = "lf"
    BY <1>1, <1>2
  <2>2. c = p \/ c = p + 1
    OBVIOUS
  <2> QED
    BY <1>1, <2>1, <2>2 DEF HexDigits
<1>4. p + 2 <= e
  <2> SUFFICES ASSUME ~(p + 2 <= e) PROVE FALSE
    OBVIOUS
  <2>1. p + 2 \in e + 1 .. c
    BY <1>2, <1>3
  <2>2. stream[p + 2] \in Space
    BY <1>2, <2>1
  <2> QED
    BY <1>1, <2>2 DEF HexDigits, Space
<1>5. ASSUME stream[e] = "=" PROVE p + 2 < e
  <2>1. p + 2 # e
    BY <1>1, <1>5 DEF HexDigits
  <2> QED
    BY <1>2, <1>4, <2>1
<1> QED
  BY <1>4, <1>5

(* Behind the end of a line nothing goes on.                                *)
LEMMA BeginsClean ==
    ASSUME stream \in Seq(Symbols), NEW a \in Nat, Begins(a), NEW j \in Int, j > a, NEW k \in 1 .. a, Soft(k),
           \A l \in k + 1 .. j : Is(l, Space) /\ (l < j => ~Is(l, {"lf"})), a <= Len(stream)
    PROVE  FALSE
<1>1. a \in 1 .. Len(stream) /\ stream[a] = "lf" /\ DOMAIN stream = 1 .. Len(stream)
  <2>1. j \in k + 1 .. j
    OBVIOUS
  <2>2. Is(j, Space)
    BY <2>1
  <2>3. DOMAIN stream = 1 .. Len(stream) /\ Len(stream) \in Nat
    OBVIOUS
  <2>4. j <= Len(stream)
    BY <2>2, <2>3 DEF Is
  <2>a. Len(stream) \in Nat
    BY <2>3
  <2>5. PICK N \in Nat : N = Len(stream)
    BY <2>a
  <2>6. a # 0 /\ a # N /\ a \in 1 .. N
    BY <2>4, <2>5
  <2>7. stream[a] = "lf"
    BY <2>5, <2>6 DEF Begins
  <2>8. a \in 1 .. Len(stream)
    BY <2>5, <2>6
  <2> QED
    BY <2>3, <2>7, <2>8
<1>2. CASE k = a
  <2>1. Is(a, {"="})
    BY <1>2 DEF Soft
  <2> QED
    BY <1>1, <2>1 DEF Is
<1>3. CASE k < a
  <2>1. a \in k + 1 .. j
    BY <1>3
  <2>2. ~Is(a, {"lf"})
    BY <2>1
  <2> QED
    BY <1>1, <2>2 DEF Is
<1> QED
  BY <1>2, <1>3

(* The rest of it stays.                                                    *)
LEMMA LineStays ==
    ASSUME stream \in Seq(Symbols), NEW a \in Nat, NEW c \in Nat, NEW e, LineOf(a, e, c), WellFormed \/ Begins(a),
           NEW j \in a + 1 .. c, j <= e, ~(j = e /\ stream[e] = "=")
    PROVE  Stays(j) \/ Escapes(j - 1) \/ Escapes(j - 2)
<1>1. a <= c /\ c <= Len(stream) /\ Len(stream) \in Nat /\ e \in Nat
  BY DEF LineOf
<1>2. j \in 1 .. Len(stream) /\ j \in Int /\ (Trailing(j) <=> j > e) /\ (Soft(j) <=> j = e /\ stream[e] = "=")
  BY LineKnown
<1>3. ~Trailing(j) /\ ~Soft(j)
  BY <1>1, <1>2
<1>4. ~AfterSoft(j)
  <2> SUFFICES ASSUME AfterSoft(j) PROVE FALSE
    OBVIOUS
  <2>1. ~(j > e)
    BY <1>1, <1>2
  <2>2. PICK k \in 1 .. a : /\ Soft(k) /\ k \in 1 .. j - 1
                            /\ \A l \in k + 1 .. j : Is(l, Space) /\ (l < j => ~Is(l, {"lf"}))
    BY <2>1, LineKnown
  <2>3. ~Begins(a)
    <3>1. j > a /\ a <= Len(stream)
      BY <1>1
    <3> QED
      BY <1>2, <2>2, <3>1, BeginsClean
  <2>4. LineEnd(j) \/ stream[j] = "lf"
    BY <1>2, <2>2, <2>3, AfterSoftFormed
  <2>5. LineEnd(j)
    BY <1>2, <2>4, LineEndIs
  <2> QED
    BY <1>2, <1>3, <2>5, LineEndTrailing
<1> QED
  BY <1>3, <1>4 DEF Stays

(* The end of a line stays, but that of a soft line break.                  *)
LEMMA LineEndStays ==
    ASSUME stream \in Seq(Symbols), NEW a \in Nat, NEW c \in Nat, NEW e, LineOf(a, e, c),
           Begins(a) \/ (WellFormed /\ ~(Is(a, {"cr"}) /\ Is(a - 1, {"="}) /\ Is(a + 1, {"lf"}))),
           ~(e > a /\ stream[e] = "="), NEW j \in a + 1 .. c, j > e, LineEnd(j)
    PROVE  Stays(j) \/ (WellFormed /\ Soft(a))
<1>1. a <= c /\ c <= Len(stream) /\ Len(stream) \in Nat /\ e \in Nat /\ DOMAIN stream = 1 .. Len(stream) /\ a <= e
  BY DEF LineOf
<1>2. j \in 1 .. Len(stream) /\ j \in Int /\ (Soft(j) <=> j = e /\ stream[e] = "=")
  BY LineKnown
<1>3. ~Soft(j)
  BY <1>1, <1>2
<1>4. stream[j] \in {"cr", "lf"}
  BY <1>2, LineEndIs
<1>5. ~Escapes(j - 1) /\ ~Escapes(j - 2)
  <2>1. Escapes(j - 1) => stream[(j - 1) + 1] \in HexDigits
    BY <1>2, EscapesIs
  <2>2. Escapes(j - 2) => stream[(j - 2) + 2] \in HexDigits
    BY <1>2, EscapesIs
  <2>3. (j - 1) + 1 = j /\ (j - 2) + 2 = j
    BY <1>2
  <2> QED
    BY <1>4, <2>1, <2>2, <2>3 DEF HexDigits
<1>6. ASSUME AfterSoft(j) PROVE WellFormed /\ Soft(a)
  <2>2. PICK k \in 1 .. a : /\ Soft(k) /\ k \in 1 .. j - 1
                            /\ \A l \in k + 1 .. j : Is(l, Space) /\ (l < j => ~Is(l, {"lf"}))
    BY <1>6, LineKnown
  <2>3. ~Begins(a)
    <3>1. j > a /\ a <= Len(stream)
      BY <1>1
    <3> QED
      BY <1>2, <2>2, <3>1, BeginsClean
  <2>4. WellFormed /\ ~(Is(a, {"cr"}) /\ Is(a - 1, {"="}) /\ Is(a + 1, {"lf"}))
    BY <2>3
  <2>5. \/ j = k + 1 /\ LineEnd(j)
        \/ j = k + 2 /\ stream[k + 1] = "cr" /\ stream[j] = "lf"
    BY <1>2, <2>2, <2>4, AfterSoftFormed
  <2>6. CASE k = a
    BY <2>2, <2>4, <2>6
  <2>7. CASE k # a
    <3>1. j = k + 2 /\ a = k + 1 /\ j = a + 1 /\ k = a - 1 /\ k \in Int
      BY <2>5, <2>7
    <3>2. stream[a] = "cr" /\ stream[a + 1] = "lf" /\ a \in 1 .. Len(stream) /\ a + 1 \in 1 .. Len(stream)
      BY <1>1, <1>2, <2>5, <3>1
    <3>3. Is(a - 1, {"="})
      BY <2>2, <3>1 DEF Soft
    <3> QED
      BY <1>1, <2>4, <3>2, <3>3 DEF Is
  <2> QED
    BY <2>6, <2>7
<1> QED
  BY <1>3, <1>5, <1>6 DEF Stays

(* The line behind a "=" that ends a piece is the end of its line.          *)
LEMMA LineSoftBefore ==
    ASSUME stream \in Seq(Symbols), WellFormed, NEW a \in Nat, NEW c \in Nat, NEW e, LineOf(a, e, c), Soft(a)
    PROVE  e = a /\ a + 1 \in a + 1 .. c /\ LineEnd(a + 1) /\ a + 1 <= Len(stream)
<1>1. a \in 1 .. Len(stream) /\ LineEnd(a + 1) /\ a + 1 \in 1 .. Len(stream) /\ Len(stream) \in Nat
  BY SoftIs
<1>2. a <= c /\ (c = Len(stream) \/ c > a) /\ e \in Nat /\ a <= e
  BY DEF LineOf
<1>3. a + 1 \in a + 1 .. c
  BY <1>1, <1>2
<1>4. Trailing(a + 1)
  BY <1>1, LineEndTrailing
<1>5. a + 1 > e
  BY <1>3, <1>4, LineKnown
<1> QED
  BY <1>1, <1>2, <1>3, <1>5

(* After the "=" of a soft line break that a piece ended with, the line is  *)
(* its end alone.                                                           *)
LEMMA LineBreakEnd ==
    ASSUME stream \in Seq(Symbols), WellFormed, NEW a \in Nat, NEW c \in Nat, NEW e, LineOf(a, e, c), Soft(a),
           NEW h \in Int, a <= h, h <= c, EndFrom(a, h, c)
    PROVE  /\ h = a
           /\ (c = a + 1 /\ stream[c] = "lf") \/ (c = a + 2 /\ stream[a + 1] = "cr" /\ stream[c] = "lf")
           /\ \A j \in a + 1 .. c : ~Stays(j)
<1>1. a + 1 \in a + 1 .. c /\ LineEnd(a + 1) /\ a + 1 <= Len(stream) /\ Len(stream) \in Nat /\ DOMAIN stream = 1 .. Len(stream)
  BY LineSoftBefore
<1>2. /\ c = Len(stream) \/ (c > a /\ stream[c] = "lf")
      /\ \A j \in a + 1 .. c - 1 : stream[j] # "lf"
      /\ c <= Len(stream)
  BY DEF LineOf
<1>3. stream[a + 1] = "lf" \/ (a + 2 \in 1 .. Len(stream) /\ stream[a + 1] = "cr" /\ stream[a + 2] = "lf")
  <2>1. (a + 1) + 1 = a + 2
    OBVIOUS
  <2> QED
    BY <1>1, <2>1, LineEndIs
<1>4. (c = a + 1 /\ stream[c] = "lf") \/ (c = a + 2 /\ stream[a + 1] = "cr" /\ stream[c] = "lf")
  <2>1. CASE stream[a + 1] = "lf"
    <3>1. ~(a + 1 \in a + 1 .. c - 1)
      BY <1>2, <2>1
    <3>2. c = a + 1
      BY <1>1, <3>1
    <3> QED
      BY <2>1, <3>2
  <2>2. CASE a + 2 \in 1 .. Len(stream) /\ stream[a + 1] = "cr" /\ stream[a + 2] = "lf"
    <3>1. ~(a + 2 \in a + 1 .. c - 1)
      BY <1>2, <2>2
    <3>2. c # a + 1
      <4> SUFFICES ASSUME c = a + 1 PROVE FALSE
        OBVIOUS
      <4>1. stream[c] = "cr"
        BY <2>2
      <4>2. c = Len(stream)
        BY <1>2, <4>1
      <4>3. a + 2 <= Len(stream)
        BY <2>2
      <4> QED
        BY <4>2, <4>3
    <3>3. c = a + 2
      BY <1>1, <3>1, <3>2
    <3> QED
      BY <2>2, <3>3
  <2> QED
    BY <1>3, <2>1, <2>2
<1>5. h = a
  <2>1. CASE h = c /\ (c > a => stream[c] # "lf")
    BY <1>1, <1>4, <2>1
  <2>2. CASE h = c - 1 /\ h >= a /\ stream[c] = "lf" /\ (h > a => stream[h] # "cr")
    <3>1. c = a + 1 => h = a
      BY <2>2
    <3>2. c = a + 2 => h = a + 1 /\ h > a
      BY <2>2
    <3> QED
      BY <1>4, <2>2, <3>1, <3>2
  <2>3. CASE h = c - 2 /\ h >= a /\ stream[c - 1] = "cr" /\ stream[c] = "lf"
    BY <1>4, <2>3
  <2> QED
    BY <2>1, <2>2, <2>3 DEF EndFrom
<1>6. a \in Int /\ a >= 1
  BY SoftIs
<1>7. AfterSoft(a + 1)
  <2>1. Is(a + 1, Space)
    BY <1>1, <1>3 DEF Is, Space
  <2>2. a \in 1 .. (a + 1) - 1 /\ \A l \in a + 1 .. a + 1 : l = a + 1
    BY <1>6
  <2>3. \A l \in a + 1 .. a + 1 : Is(l, Space) /\ (l < a + 1 => ~Is(l, {"lf"}))
    <3> SUFFICES ASSUME NEW l \in a + 1 .. a + 1 PROVE Is(l, Space) /\ (l < a + 1 => ~Is(l, {"lf"}))
      OBVIOUS
    <3>1. l = a + 1 /\ ~(l < a + 1)
      OBVIOUS
    <3> QED
      BY <2>1, <3>1
  <2> QED
    BY <2>2, <2>3 DEF AfterSoft
<1>8. ASSUME c = a + 2, stream[a + 1] = "cr", stream[c] = "lf" PROVE AfterSoft(a + 2)
  <2>1. Is(a + 1, Space) /\ ~Is(a + 1, {"lf"}) /\ Is(a + 2, Space)
    <3>1. a + 1 \in 1 .. Len(stream) /\ a + 2 \in 1 .. Len(stream)
      <4>a. Len(stream) \in Nat
        BY <1>1
      <4>1. PICK N \in Nat : N = Len(stream)
        BY <4>a
      <4>2. a + 2 <= N
        BY <1>2, <1>8, <4>1
      <4>3. a + 1 \in 1 .. N /\ a + 2 \in 1 .. N
        BY <4>2
      <4> QED
        BY <4>1, <4>3
    <3> QED
      BY <1>1, <1>8, <3>1 DEF Is, Space
  <2>2. a \in 1 .. (a + 2) - 1
    BY <1>6
  <2>3. \A l \in a + 1 .. a + 2 : Is(l, Space) /\ (l < a + 2 => ~Is(l, {"lf"}))
    <3> SUFFICES ASSUME NEW l \in a + 1 .. a + 2 PROVE Is(l, Space) /\ (l < a + 2 => ~Is(l, {"lf"}))
      OBVIOUS
    <3>1. l = a + 1 \/ (l = a + 2 /\ ~(l < a + 2))
      OBVIOUS
    <3> QED
      BY <2>1, <3>1
  <2> QED
    BY <2>2, <2>3 DEF AfterSoft
<1>9. ASSUME NEW j \in a + 1 .. c PROVE ~Stays(j)
  <2>1. j = a + 1 \/ (j = a + 2 /\ c = a + 2 /\ stream[a + 1] = "cr" /\ stream[c] = "lf")
    BY <1>4
  <2> QED
    BY <1>7, <1>8, <2>1 DEF Stays
<1> QED
  BY <1>4, <1>5, <1>9

(* A line does not end with the "=" of a soft line break.                   *)
LEMMA LineNotSoft ==
    ASSUME stream \in Seq(Symbols), WellFormed, NEW a \in Nat, NEW c \in Nat, NEW e, LineOf(a, e, c)
    PROVE  ~Soft(c)
<1> SUFFICES ASSUME Soft(c) PROVE FALSE
  OBVIOUS
<1>1. c + 1 \in 1 .. Len(stream) /\ stream[c] = "=" /\ Len(stream) \in Nat
  BY SoftIs
<1>2. stream[c] = "lf"
  BY <1>1 DEF LineOf
<1> QED
  BY <1>1, <1>2

(* Where a fetch of a line begins.                                          *)
Starts(a) == Begins(a) \/ (WellFormed /\ ~(Is(a, {"cr"}) /\ Is(a - 1, {"="}) /\ Is(a + 1, {"lf"})))

(* What a fetch of a line takes.                                            *)
LEMMA LineTaken ==
    ASSUME IInv, Where, Good, FetchLine
    PROVE  /\ Starts(at) /\ line = <<>> /\ full' = FALSE /\ UNCHANGED <<stream, out, prev, lo, hi, cuts>>
           /\ \E c \in Nat, e \in Nat :
                  /\ c = at' /\ LineOf(at, e, c)
                  /\ e > at /\ stream[e] = "=" => line' = Stretch(at, e - 1)
                  /\ ~(e > at /\ stream[e] = "=") =>
                        \E h \in e .. c : EndFrom(at, h, c) /\ line' = Stretch(at, e) \o Stretch(h, c)
<1>1. at \in Nat /\ Len(stream) \in Nat
  BY Known
<1>2. line = <<>> /\ full' = FALSE /\ UNCHANGED <<stream, out, prev, lo, hi, cuts>>
  BY DEF FetchLine, Fetching, source, pending
<1>3. PICK c \in Nat, e \in Nat :
               /\ c = at' /\ at <= c /\ c <= Len(stream) /\ Line(c) /\ Trimmed(at, e, c)
               /\ e > at /\ stream[e] = "=" => line' = Stretch(at, e - 1)
               /\ ~(e > at /\ stream[e] = "=") =>
                      \E h \in e .. c : EndFrom(at, h, c) /\ line' = Stretch(at, e) \o Stretch(h, c)
  BY FetchLineIs
<1>4. e \in Nat /\ at <= e /\ e <= c
  BY <1>1, <1>3 DEF Trimmed
<1>5. LineOf(at, e, c)
  BY <1>3, <1>4 DEF LineOf, Line
<1>6. Starts(at)
  <2>1. Begins(at) \/ at \in cuts
    BY DEF Where, Begins
  <2>2. CASE at \in cuts
    <3>1. WellFormed /\ ~BreakCut
      BY <2>2 DEF Good
    <3>2. ~(Is(at, {"cr"}) /\ Is(at - 1, {"="}) /\ Is(at + 1, {"lf"}))
      BY <2>2, <3>1 DEF BreakCut
    <3> QED
      BY <3>1, <3>2 DEF Starts
  <2> QED
    BY <2>1, <2>2 DEF Starts
<1> QED
  BY <1>2, <1>3, <1>5, <1>6

(* The account holds after a line with a soft line break.                   *)
LEMMA LineSoftOrder ==
    ASSUME IInv, Good, Begun, NEW q, Account(q), NEW c \in Nat, NEW e \in Nat, LineOf(at, e, c), Starts(at),
           e > at, stream[e] = "=", FetchTo(q, Stretch(at, e - 1), c)
    PROVE  \E z : z = Left' /\ Account(z)'
<1>1. stream \in Seq(Symbols) /\ at \in Nat /\ Len(stream) \in Nat
  BY Known
<1>2. at < e /\ e <= c /\ c <= Len(stream) /\ e - 1 \in Nat /\ at <= e - 1 /\ e - 1 <= c
  BY <1>1 DEF LineOf
<1>3. PICK u : u = Stretch(at, e - 1)
  OBVIOUS
<1>a. (e - 1) - at \in Nat
  BY <1>1, <1>2
<1>4. PICK m \in Nat : m = (e - 1) - at
  BY <1>a
<1>5. Follows(u, m, m, c) /\ \A l \in 1 .. m : u[l] = at + l
  BY <1>1, <1>2, <1>3, <1>4, StretchFollows
<1>6. at + m = e - 1
  BY <1>1, <1>4
<1>7. WellFormed \/ Begins(at)
  BY DEF Starts
<1>8. \A l \in m + 1 .. m : stream[u[l]] \in Space
  OBVIOUS
<1>9. ASSUME NEW p \in 1 .. c, Escapes(p), p + 2 > at PROVE p + 2 <= at + m
  <2>1. p + 2 < e
    BY <1>1, <1>9, LineEscapes
  <2> QED
    BY <1>2, <1>6, <2>1
<1>10. \A l \in 1 .. m : u[l] \in at + 1 .. c /\ u[l] \in Int /\ u[l] < e
  <2> SUFFICES ASSUME NEW l \in 1 .. m PROVE u[l] \in at + 1 .. c /\ u[l] \in Int /\ u[l] < e
    OBVIOUS
  <2>1. u[l] = at + l
    BY <1>5
  <2> QED
    BY <1>1, <1>2, <1>6, <2>1
<1>11. ASSUME NEW l \in 1 .. m
       PROVE  /\ Stays(u[l]) \/ Escapes(u[l] - 1) \/ Escapes(u[l] - 2)
              /\ ~Soft(u[l])
  <2>1. PICK j \in at + 1 .. c : j = u[l] /\ j < e
    BY <1>10
  <2>2. j <= e /\ ~(j = e)
    BY <1>1, <2>1
  <2>3. Stays(j) \/ Escapes(j - 1) \/ Escapes(j - 2)
    BY <1>1, <1>7, <2>2, LineStays
  <2>4. ~Soft(j)
    BY <1>1, <2>2, LineKnown
  <2> QED
    BY <2>1, <2>3, <2>4
<1>12. ~(WellFormed /\ Soft(at))
  <2> SUFFICES ASSUME WellFormed, Soft(at) PROVE FALSE
    OBVIOUS
  <2>1. e = at
    BY <1>1, LineSoftBefore
  <2> QED
    BY <1>2, <2>1
<1>13. ~(WellFormed /\ Soft(c))
  BY <1>1, LineNotSoft
<1>14. ASSUME NEW j \in at + 1 .. c, Stays(j) PROVE \E l \in 1 .. m : j = u[l]
  <2>1. ~Soft(j) /\ ~AfterSoft(j)
    BY <1>14 DEF Stays
  <2>2. j # e /\ ~(j > e)
    BY <1>1, <2>1, LineKnown
  <2>3. j - at \in 1 .. m /\ at + (j - at) = j
    BY <1>1, <1>6, <2>2
  <2> QED
    BY <1>5, <2>3
<1>15. Fetched(u, m, m, c)
  BY <1>8, <1>9, <1>11, <1>12, <1>13, <1>14 DEF Fetched
<1> QED
  BY <1>3, <1>5, <1>15, GrowAccount

(* A line without the white space at its end, and the end of the line.      *)
Plain(u, m, d, e, h, c) ==
    /\ at + d = e /\ m = d + (c - h) /\ Len(u) = m
    /\ \A l \in 1 .. m : \/ u[l] \in at + 1 .. e /\ l <= d
                         \/ u[l] \in h + 1 .. c /\ l > d
    /\ \A j \in at + 1 .. c : j <= e \/ j > h => \E l \in 1 .. m : j = u[l]
    /\ e = at /\ h = at => d = 0 /\ \A l \in 1 .. m : u[l] = at + l

(* The text of a line, and the end of line that is put back behind it.      *)
LEMMA PlainIs ==
    ASSUME at \in Nat, NEW e \in Nat, NEW h \in Nat, NEW c \in Nat, at <= e, e <= h, h <= c,
           NEW u, u = Stretch(at, e) \o Stretch(h, c)
    PROVE  u \in Seq(1 .. c) /\ \E m \in Nat, d \in Nat : Plain(u, m, d, e, h, c) /\ Follows(u, m, d, c)
<1>1. PICK x, y : x = Stretch(at, e) /\ y = Stretch(h, c)
  OBVIOUS
<1>2. PICK d \in Nat, s \in Nat : d = e - at /\ s = c - h
  OBVIOUS
<1>3. e <= c /\ c <= c
  OBVIOUS
<1>4. x \in Seq(1 .. c) /\ Len(x) = d /\ \A l \in 1 .. d : x[l] = at + l
  <2>1. /\ Stretch(at, e) \in Seq(1 .. c) /\ Len(Stretch(at, e)) = e - at
        /\ \A l \in 1 .. e - at : Stretch(at, e)[l] = at + l
    BY <1>3, StretchIs
  <2> QED
    BY <1>1, <1>2, <2>1
<1>5. y \in Seq(1 .. c) /\ Len(y) = s /\ \A l \in 1 .. s : y[l] = h + l
  <2>1. /\ Stretch(h, c) \in Seq(1 .. c) /\ Len(Stretch(h, c)) = c - h
        /\ \A l \in 1 .. c - h : Stretch(h, c)[l] = h + l
    BY <1>3, StretchIs
  <2> QED
    BY <1>1, <1>2, <2>1
<1>6. Joined(x, d, y, s, u) /\ u \in Seq(1 .. c)
  <2>1. Joined(x, Len(x), y, Len(y), x \o y) /\ x \o y \in Seq(1 .. c)
    BY <1>4, <1>5, JoinIs
  <2> QED
    BY <1>1, <1>4, <1>5, <2>1
<1>7. \A k \in 1 .. d + s : \/ k \in 1 .. d /\ u[k] = x[k]
                            \/ \E l \in 1 .. s : k = d + l /\ u[k] = y[l]
  <2>1. Splits(x, d, y, s, u)
    BY <1>6, JoinedSplit
  <2> QED
    BY <2>1 DEF Splits
<1>8. PICK m \in Nat : m = d + s
  OBVIOUS
<1>9. Len(u) = m /\ DOMAIN u = 1 .. m
  BY <1>6, <1>8 DEF Joined
<1>10. \A k \in 1 .. m : \/ k \in 1 .. d /\ u[k] = at + k
                         \/ \E l \in 1 .. s : k = d + l /\ u[k] = h + l
  <2> SUFFICES ASSUME NEW k \in 1 .. m
               PROVE  (k \in 1 .. d /\ u[k] = at + k) \/ \E l \in 1 .. s : k = d + l /\ u[k] = h + l
    OBVIOUS
  <2>1. (k \in 1 .. d /\ u[k] = x[k]) \/ \E l \in 1 .. s : k = d + l /\ u[k] = y[l]
    BY <1>7, <1>8
  <2>2. k \in 1 .. d => x[k] = at + k
    BY <1>4
  <2>3. \A l \in 1 .. s : y[l] = h + l
    BY <1>5
  <2> QED
    BY <2>1, <2>2, <2>3
<1>11. \A l \in 1 .. m : \/ u[l] \in at + 1 .. e /\ l <= d
                         \/ u[l] \in h + 1 .. c /\ l > d
  <2> SUFFICES ASSUME NEW k \in 1 .. m PROVE (u[k] \in at + 1 .. e /\ k <= d) \/ (u[k] \in h + 1 .. c /\ k > d)
    OBVIOUS
  <2>1. CASE k \in 1 .. d /\ u[k] = at + k
    BY <1>2, <2>1
  <2>2. CASE \E l \in 1 .. s : k = d + l /\ u[k] = h + l
    BY <1>2, <2>2
  <2> QED
    BY <1>10, <2>1, <2>2
<1>12. ASSUME NEW j \in at + 1 .. c, j <= e \/ j > h PROVE \E l \in 1 .. m : j = u[l]
  <2>1. CASE j <= e
    <3>1. PICK l \in 1 .. d : j = at + l
      <4>1. j - at \in 1 .. d /\ j = at + (j - at)
        BY <1>2, <2>1
      <4> QED
        BY <4>1
    <3>2. u[l] = at + l
      <4>1. u[l] = x[l]
        BY <1>6, Zenon DEF Joined
      <4> QED
        BY <1>4, <4>1
    <3>3. l \in 1 .. m
      BY <1>8
    <3> QED
      BY <3>1, <3>2, <3>3
  <2>2. CASE j > h
    <3>1. PICK l \in 1 .. s : j = h + l
      <4>1. j - h \in 1 .. s /\ j = h + (j - h)
        BY <1>2, <2>2
      <4> QED
        BY <4>1
    <3>2. u[d + l] = h + l
      <4>1. u[d + l] = y[l]
        BY <1>6, Zenon DEF Joined
      <4> QED
        BY <1>5, <4>1
    <3>3. d + l \in 1 .. m
      BY <1>8
    <3> QED
      BY <3>1, <3>2, <3>3
  <2> QED
    BY <1>12, <2>1, <2>2
<1>13. ASSUME e = at, h = at PROVE d = 0 /\ \A l \in 1 .. m : u[l] = at + l
  <2>1. d = 0
    BY <1>2, <1>13
  <2>2. ASSUME NEW k \in 1 .. m PROVE u[k] = at + k
    <3>1. ~(k \in 1 .. d)
      BY <2>1
    <3>2. PICK l \in 1 .. s : k = d + l /\ u[k] = h + l
      BY <1>10, <3>1
    <3> QED
      <4>1. k = l
        BY <2>1, <3>2
      <4>2. u[k] = h + l /\ h = at
        BY <1>13, <3>2
      <4> QED
        BY <4>1, <4>2
  <2> QED
    BY <2>1, <2>2
<1>14. Plain(u, m, d, e, h, c)
  <2>1. at + d = e /\ m = d + (c - h)
    BY <1>2, <1>8
  <2> QED
    BY <1>9, <1>11, <1>12, <1>13, <2>1 DEF Plain
<1>15. Rising(u)
  <2> SUFFICES ASSUME NEW a \in 1 .. m, NEW b \in 1 .. m, a < b PROVE u[a] < u[b]
    BY <1>9 DEF Rising
  <2>1. CASE b \in 1 .. d /\ u[b] = at + b
    <3>1. u[a] = at + a
      <4>1. \A l \in 1 .. s : a # d + l
        BY <2>1
      <4> QED
        BY <1>10, <4>1
    <3> QED
      BY <2>1, <3>1
  <2>2. CASE \E l \in 1 .. s : b = d + l /\ u[b] = h + l
    <3>1. PICK l \in 1 .. s : b = d + l /\ u[b] = h + l
      BY <2>2
    <3>2. CASE a \in 1 .. d /\ u[a] = at + a
      BY <1>2, <3>1, <3>2
    <3>3. CASE \E i \in 1 .. s : a = d + i /\ u[a] = h + i
      BY <3>1, <3>3
    <3> QED
      BY <1>10, <3>2, <3>3
  <2> QED
    BY <1>10, <2>1, <2>2
<1>16. \A l \in 1 .. d : u[l] = at + l
  <2> SUFFICES ASSUME NEW l \in 1 .. d PROVE u[l] = at + l
    OBVIOUS
  <2>1. u[l] = x[l]
    BY <1>6, Zenon DEF Joined
  <2> QED
    BY <1>4, <2>1
<1>17. \A l \in 1 .. m : u[l] \in at + 1 .. c
  <2> SUFFICES ASSUME NEW l \in 1 .. m PROVE u[l] \in at + 1 .. c
    OBVIOUS
  <2>1. u[l] \in at + 1 .. e \/ u[l] \in h + 1 .. c
    BY <1>11
  <2> QED
    <3>1. (\A v \in at + 1 .. e : v \in at + 1 .. c) /\ \A v \in h + 1 .. c : v \in at + 1 .. c
      OBVIOUS
    <3> QED
      BY <2>1, <3>1
<1>18. Follows(u, m, d, c)
  <2>1. d <= m
    BY <1>8
  <2> QED
    BY <1>9, <1>15, <1>16, <1>17, <2>1 DEF Follows
<1> QED
  BY <1>6, <1>14, <1>18

(* The bound may be greater.                                                *)
LEMMA SeqWiden ==
    ASSUME NEW N \in Nat, NEW M \in Nat, N <= M, NEW u, u \in Seq(1 .. N)
    PROVE  u \in Seq(1 .. M)
<1>1. Len(u) \in Nat /\ u = [k \in 1 .. Len(u) |-> u[k]] /\ \A k \in 1 .. Len(u) : u[k] \in 1 .. M
  OBVIOUS
<1> QED
  BY <1>1

(* The rest of a soft line break is the line.                               *)
LEMMA BreakNextIs ==
    ASSUME stream \in Seq(Symbols), UNCHANGED <<stream, prev, lo, hi>>, SoftPending, NEW u, u = line',
           u \in Seq(1 .. Len(stream)),
           (Len(u) = 1 /\ stream[u[1]] = "lf") \/ (Len(u) = 2 /\ stream[u[1]] = "cr" /\ stream[u[2]] = "lf")
    PROVE  BreakNext'
<1>1. SoftPending'
  BY Unmoved DEF SoftPending
<1>2. StartsLine(u)
  BY StartsLineIs
<1>3. StartsLine(line)'
  BY <1>2 DEF StartsLine, Bytes
<1>4. Len(u) = IF stream[u[1]] = "lf" THEN 1 ELSE 2
  OBVIOUS
<1> QED
  BY <1>1, <1>3, <1>4 DEF BreakNext

(* The account holds after a line that keeps its end.                       *)
LEMMA LinePlainOrder ==
    ASSUME IInv, Good, Begun, NEW q, Account(q), NEW c \in Nat, NEW e \in Nat, LineOf(at, e, c), Starts(at),
           ~(e > at /\ stream[e] = "="), NEW h \in Nat, e <= h, h <= c, EndFrom(at, h, c),
           FetchTo(q, Stretch(at, e) \o Stretch(h, c), c)
    PROVE  \E z : z = Left' /\ Account(z)'
<1>1. stream \in Seq(Symbols) /\ at \in Nat /\ Len(stream) \in Nat
  BY Known
<1>2. at <= e /\ e <= c /\ c <= Len(stream) /\ \A j \in e + 1 .. c : stream[j] \in Space
  BY DEF LineOf, Trimmed
<1>3. PICK u : u = Stretch(at, e) \o Stretch(h, c)
  OBVIOUS
<1>4. u \in Seq(1 .. c)
  BY <1>1, <1>2, <1>3, PlainIs
<1>5. PICK m \in Nat, d \in Nat : Plain(u, m, d, e, h, c) /\ Follows(u, m, d, c)
  BY <1>1, <1>2, <1>3, PlainIs
<1>6. /\ at + d = e /\ Len(u) = m /\ m = d + (c - h)
      /\ \A l \in 1 .. m : \/ u[l] \in at + 1 .. e /\ l <= d
                           \/ u[l] \in h + 1 .. c /\ l > d
      /\ \A j \in at + 1 .. c : j <= e \/ j > h => \E l \in 1 .. m : j = u[l]
      /\ e = at /\ h = at => d = 0 /\ \A l \in 1 .. m : u[l] = at + l
  BY <1>5 DEF Plain
<1>7. FetchTo(q, u, c)
  BY <1>3
<1>8. q = Left /\ line = <<>> /\ u = line' /\ UNCHANGED <<stream, prev, lo, hi>>
  BY <1>7 DEF FetchTo
<1>9. ASSUME WellFormed, Soft(at) PROVE BreakNext' /\ \A l \in 1 .. m : ~Stays(u[l])
  <2>1. SoftPending
    BY <1>8, <1>9, HeldShape
  <2>2. e = at
    BY <1>1, <1>9, LineSoftBefore
  <2>3. /\ h = at
        /\ (c = at + 1 /\ stream[c] = "lf") \/ (c = at + 2 /\ stream[at + 1] = "cr" /\ stream[c] = "lf")
        /\ \A j \in at + 1 .. c : ~Stays(j)
    <3>1. h \in Int /\ at <= h /\ h <= c
      BY <1>1, <1>2
    <3> QED
      BY <1>1, <1>9, <3>1, LineBreakEnd
  <2>4. m = c - at /\ \A l \in 1 .. m : u[l] = at + l
    BY <1>1, <1>6, <2>2, <2>3
  <2>5. (Len(u) = 1 /\ stream[u[1]] = "lf") \/ (Len(u) = 2 /\ stream[u[1]] = "cr" /\ stream[u[2]] = "lf")
    <3>1. CASE c = at + 1 /\ stream[c] = "lf"
      <4>1. m = 1 /\ u[1] = at + 1
        BY <1>1, <2>4, <3>1
      <4> QED
        BY <1>6, <3>1, <4>1
    <3>2. CASE c = at + 2 /\ stream[at + 1] = "cr" /\ stream[c] = "lf"
      <4>1. m = 2 /\ u[1] = at + 1 /\ u[2] = at + 2
        BY <1>1, <2>4, <3>2
      <4> QED
        BY <1>6, <3>2, <4>1
    <3> QED
      BY <2>3, <3>1, <3>2
  <2>6. u \in Seq(1 .. Len(stream))
    BY <1>1, <1>2, <1>4, SeqWiden
  <2>7. BreakNext'
    BY <1>1, <1>8, <2>1, <2>5, <2>6, BreakNextIs
  <2>8. \A l \in 1 .. m : u[l] \in at + 1 .. c
    BY <1>5, Zenon DEF Follows
  <2> QED
    BY <2>3, <2>7, <2>8
<1>10. ASSUME NEW l \in d + 1 .. m PROVE stream[u[l]] \in Space
  <2>1. l \in 1 .. m /\ ~(l <= d)
    OBVIOUS
  <2>2. u[l] \in h + 1 .. c
    BY <1>6, <2>1
  <2>3. \A j \in h + 1 .. c : j \in e + 1 .. c
    OBVIOUS
  <2> QED
    BY <1>2, <2>2, <2>3
<1>11. ASSUME NEW p \in 1 .. c, Escapes(p), p + 2 > at PROVE p + 2 <= at + d
  <2>1. p + 2 <= e
    BY <1>1, <1>11, LineEscapes
  <2> QED
    BY <1>6, <2>1
<1>12. ASSUME NEW l \in 1 .. m
       PROVE  /\ ~Soft(u[l])
              /\ \/ Stays(u[l]) \/ BreakNext'
                 \/ l <= d /\ (Escapes(u[l] - 1) \/ Escapes(u[l] - 2))
  <2>1. CASE u[l] \in at + 1 .. e /\ l <= d
    <3>1. PICK j \in at + 1 .. c : j = u[l] /\ j <= e /\ j > at
      BY <1>1, <1>2, <2>1
    <3>2. ~(j = e /\ stream[e] = "=")
      BY <3>1
    <3>3. Stays(j) \/ Escapes(j - 1) \/ Escapes(j - 2)
      BY <1>1, <3>1, <3>2, LineStays DEF Starts
    <3>4. ~Soft(j)
      BY <1>1, <3>2, LineKnown
    <3> QED
      BY <2>1, <3>1, <3>3, <3>4
  <2>2. CASE u[l] \in h + 1 .. c /\ l > d
    <3>1. PICK j \in at + 1 .. c : j = u[l] /\ j > e /\ j > h
      BY <1>1, <1>2, <2>2
    <3>2. ~Soft(j)
      <4>1. j # e
        BY <3>1
      <4> QED
        BY <1>1, <4>1, LineKnown
    <3>3. LineEnd(j)
      BY <1>1, <1>2, <3>1, LineEndIs DEF EndFrom
    <3>4. Stays(j) \/ (WellFormed /\ Soft(at))
      BY <1>1, <3>1, <3>3, LineEndStays DEF Starts
    <3> QED
      BY <1>9, <3>1, <3>2, <3>4
  <2> QED
    BY <1>6, <2>1, <2>2
<1>13. ~(WellFormed /\ Soft(c))
  BY <1>1, LineNotSoft
<1>14. ASSUME NEW j \in at + 1 .. c, Stays(j) PROVE \E l \in 1 .. m : j = u[l]
  <2>1. CASE j <= e
    BY <1>6, <2>1
  <2>2. CASE j > e
    <3>1. Trailing(j) /\ j \in 1 .. Len(stream) /\ j \in Int
      BY <1>1, <2>2, LineKnown
    <3>2. LineEnd(j)
      BY <1>14, <3>1 DEF Stays
    <3>3. stream[j] = "lf" \/ (j + 1 \in 1 .. Len(stream) /\ stream[j] = "cr" /\ stream[j + 1] = "lf")
      BY <1>1, <3>1, <3>2, LineEndIs
    <3>4. j > h
      <4>1. /\ c = Len(stream) \/ (c > at /\ stream[c] = "lf")
            /\ \A i \in at + 1 .. c - 1 : stream[i] # "lf"
        BY DEF LineOf
      <4>2. stream[j] = "lf" => j = c
        BY <1>1, <4>1
      <4>3. stream[j] = "cr" /\ stream[j + 1] = "lf" /\ j + 1 <= Len(stream) => j + 1 = c
        <5> SUFFICES ASSUME stream[j] = "cr", stream[j + 1] = "lf", j + 1 <= Len(stream) PROVE j + 1 = c
          OBVIOUS
        <5>1. j # c
          BY <1>1, <4>1
        <5>2. ~(j + 1 \in at + 1 .. c - 1)
          BY <4>1
        <5> QED
          BY <1>1, <5>1, <5>2
      <4> QED
        BY <1>1, <1>2, <3>3, <4>2, <4>3 DEF EndFrom
    <3> QED
      BY <1>6, <3>4
  <2> QED
    BY <1>1, <2>1, <2>2
<1>15. Fetched(u, m, d, c)
  BY <1>9, <1>10, <1>11, <1>12, <1>13, <1>14 DEF Fetched
<1> QED
  BY <1>5, <1>7, <1>15, GrowAccount

(* And so after every line.                                                 *)
LEMMA FetchLineOrder ==
    ASSUME IInv, IInv', Where, Good, Begun, NEW q, q = Left, Account(q), FetchLine
    PROVE  Begun' /\ \E z : z = Left' /\ Account(z)'
<1>1. Starts(at) /\ line = <<>> /\ full' = FALSE /\ UNCHANGED <<stream, out, prev, lo, hi, cuts>>
  BY LineTaken
<1>2. PICK c \in Nat, e \in Nat :
                  /\ c = at' /\ LineOf(at, e, c)
                  /\ e > at /\ stream[e] = "=" => line' = Stretch(at, e - 1)
                  /\ ~(e > at /\ stream[e] = "=") =>
                        \E h \in e .. c : EndFrom(at, h, c) /\ line' = Stretch(at, e) \o Stretch(h, c)
  BY LineTaken
<1>3. at \in Nat /\ at <= c /\ c <= Len(stream) /\ at <= e /\ e <= c
  BY <1>2, Known DEF LineOf
<1>4. CASE e > at /\ stream[e] = "="
  <2>1. Stretch(at, e - 1) \in Seq(1 .. c)
    <3>1. e - 1 \in Nat /\ at <= e - 1 /\ e - 1 <= c
      BY <1>3, <1>4
    <3> QED
      BY <1>3, <3>1, StretchIs
  <2>2. FetchTo(q, Stretch(at, e - 1), c)
    BY <1>1, <1>2, <1>3, <1>4, <2>1 DEF FetchTo
  <2>3. \E z : z = Left' /\ Account(z)'
    BY <1>1, <1>2, <1>4, <2>2, LineSoftOrder
  <2> QED
    BY <1>1, <2>3 DEF Begun
<1>5. CASE ~(e > at /\ stream[e] = "=")
  <2>1. PICK h \in e .. c : EndFrom(at, h, c) /\ line' = Stretch(at, e) \o Stretch(h, c)
    BY <1>2, <1>5
  <2>2. h \in Nat /\ e <= h /\ h <= c
    OBVIOUS
  <2>3. Stretch(at, e) \o Stretch(h, c) \in Seq(1 .. c)
    BY <1>3, <2>2, PlainIs
  <2>4. FetchTo(q, Stretch(at, e) \o Stretch(h, c), c)
    BY <1>1, <1>2, <1>3, <2>1, <2>3 DEF FetchTo
  <2>5. \E z : z = Left' /\ Account(z)'
    BY <1>1, <1>2, <1>5, <2>1, <2>2, <2>4, LinePlainOrder
  <2> QED
    BY <1>1, <2>5 DEF Begun
<1> QED
  BY <1>4, <1>5

-----------------------------------------------------------------------------
(* Where holds from step to step.                                           *)
LEMMA WhereTurn ==
    ASSUME IInv, Where, pc' = "loop", UNCHANGED <<source, at, err, cuts>>
    PROVE  Where'
BY DEF Where, source

(* Where holds after a piece,                                               *)
LEMMA WherePiece ==
    ASSUME IInv, Where, FetchPiece
    PROVE  Where'
<1>1. /\ cuts' = cuts \union {at'} /\ Fn = "nil" /\ UNCHANGED <<source, err, pending, pc, room, ret, out>> /\ at < at' /\ at' <= Len(stream)
  BY PieceIs
<1>2. pc = "loop"
  BY DEF FetchPiece, Fetching
<1>3. err = "nil"
  <2>1. at \in Nat /\ Len(stream) \in Nat /\ at' \in Nat
    BY Known, PieceIs
  <2> QED
    BY <1>1, <2>1 DEF Where
<1> QED
  BY <1>1, <1>2, <1>3 DEF Where, source

(* after a line,                                                            *)
LEMMA WhereLine ==
    ASSUME IInv, Where, FetchLine
    PROVE  Where'
<1>1. PICK c \in Nat, e \in Nat : c = at' /\ at <= c /\ c <= Len(stream) /\ Line(c)
  BY FetchLineIs
<1>2. pc = "loop" /\ UNCHANGED <<stream, ending, strict, pc>> /\ err' = (IF FirstLF = 0 THEN ending ELSE err)
  BY DEF FetchLine, Fetching, source
<1>3. c = Len(stream) \/ stream[c] = "lf"
  BY <1>1 DEF Line
<1>4. err' # "nil" => err' = ending /\ c = Len(stream)
  <2>1. CASE FirstLF = 0
    BY <1>1, <1>2, <2>1 DEF Line
  <2>2. CASE FirstLF # 0
    <3>1. at \in Nat /\ Len(stream) \in Nat
      BY Known
    <3> QED
      BY <1>1, <1>2, <2>2, <3>1 DEF Where
  <2> QED
    BY <2>1, <2>2
<1> QED
  BY <1>1, <1>2, <1>3, <1>4 DEF Where

(* after a return with an error,                                            *)
LEMMA WhereReturn ==
    ASSUME IInv, Where, ReturnError
    PROVE  Where'
<1>1. line = <<>> /\ Fn # "nil" /\ ret' = Fn /\ UNCHANGED <<source, reader, cuts>>
  BY DEF ReturnError
<1>2. line' = <<>> /\ Fn' = Fn
  BY <1>1 DEF Fn, source, reader
<1> QED
  BY <1>1, <1>2 DEF Where, source, reader

(* and after every step.                                                    *)
LEMMA WhereNext ==
    ASSUME IInv, Where, [Next]_vars
    PROVE  Where'
<1>1. CASE \E k \in Sizes : Read(k)
  <2>1. pc' = "loop" /\ UNCHANGED <<source, at, err, cuts>>
    BY <1>1 DEF Read, reader
  <2> QED
    BY <2>1, WhereTurn
<1>2. CASE Return
  <2>1. pc' = "idle" /\ UNCHANGED <<source, at, err, cuts>>
    BY <1>2 DEF Return, reader
  <2> QED
    BY <2>1 DEF Where, source
<1>3. CASE ReturnError
  BY <1>3, WhereReturn
<1>4. CASE FetchPiece
  BY <1>4, WherePiece
<1>5. CASE FetchLine
  BY <1>5, WhereLine
<1>6. CASE SoftBreak \/ SaveOne \/ Join \/ Flush \/ Escape \/ Save \/ BadEscape \/ Literal
  <2>1. pc = "loop"
    BY <1>6 DEF SoftBreak, SaveOne, Join, Flush, Escape, Save, BadEscape, Literal, Escaped, Decoding
  <2>2. UNCHANGED <<source, at, err, cuts, pc>>
    BY <1>6 DEF SoftBreak, SaveOne, Join, Flush, Escape, Save, BadEscape, Literal, reader
  <2> QED
    BY <2>1, <2>2, WhereTurn
<1>7. CASE Stopped \/ UNCHANGED vars
  <2>1. UNCHANGED vars
    BY <1>7 DEF Stopped
  <2>2. UNCHANGED <<stream, ending, strict, at, line, err, first, pc, ret, cuts>>
    BY <2>1 DEF vars, source, reader
  <2> QED
    BY <2>2 DEF Where, Fn
<1> QED
  BY <1>1, <1>2, <1>3, <1>4, <1>5, <1>6, <1>7 DEF Next, Loop

(* A "=" that ends a line of a well-formed stream has its end of line.      *)
LEMMA LineBreaks ==
    ASSUME stream \in Seq(Symbols), WellFormed, NEW a \in Nat, NEW c \in Nat, NEW e, LineOf(a, e, c), e > a, stream[e] = "="
    PROVE  BreakAt(e + 1, c)
<1>1. e \in Nat /\ e <= c /\ c <= Len(stream) /\ Len(stream) \in Nat /\ (c = Len(stream) \/ stream[c] = "lf")
  BY DEF LineOf
<1>2. e \in a + 1 .. c
  BY <1>1
<1>3. Soft(e)
  BY <1>2, LineKnown
<1>4. e # c
  BY <1>3, LineNotSoft
<1>5. LineEnd(e + 1) /\ e + 1 \in Int /\ e + 1 <= c
  BY <1>1, <1>3, <1>4, SoftIs
<1>6. stream[e + 1] = "lf" \/ ((e + 1) + 1 \in 1 .. Len(stream) /\ stream[e + 1] = "cr" /\ stream[(e + 1) + 1] = "lf")
  BY <1>5, LineEndIs
<1>7. stream[e + 1] = "cr" /\ (e + 1) + 1 \in 1 .. Len(stream) => (e + 1) + 1 <= c
  <2> SUFFICES ASSUME stream[e + 1] = "cr", (e + 1) + 1 \in 1 .. Len(stream) PROVE (e + 1) + 1 <= c
    OBVIOUS
  <2>1. c # e + 1
    BY <1>1
  <2> QED
    BY <1>1, <1>5, <2>1
<1> QED
  BY <1>5, <1>6, <1>7 DEF BreakAt

(* The streams of which StrictAccepts speaks.                               *)
Formed == cuts = {} /\ WellFormed /\ \A j \in DOMAIN stream : ~Is(j, {"8"})

(* The strict reader meets nothing in them to complain of.                  *)
LEMMA UnblamedNext ==
    ASSUME IInv, IInv', Where, Unblamed, Good => (Begun /\ \E q : q = Left /\ Account(q)), [Next]_vars
    PROVE  Unblamed'
<1>1. stream' = stream /\ cuts \subseteq cuts'
  BY DEF Next, Loop, vars, source, reader, Read, Return, ReturnError, FetchPiece, FetchLine, SoftBreak, SaveOne, Join, Flush, Escape, Save, BadEscape, Literal, Stopped
<1> SUFFICES ASSUME Formed' PROVE first' = "nil"
  BY DEF Unblamed, Formed
<1>2. Formed /\ cuts' = {}
  <2>1. WellFormed
    BY <1>1, Unmoved DEF Formed
  <2>2. \A j \in DOMAIN stream : ~Is(j, {"8"})
    BY <1>1 DEF Formed, Is
  <2> QED
    BY <1>1, <2>1, <2>2 DEF Formed
<1>3. first = "nil" /\ WellFormed /\ cuts = {}
  BY <1>2 DEF Unblamed, Formed
<1>4. lo = hi /\ Begun /\ Good
  BY <1>3 DEF Good, Begun
<1>5. PICK q : q = Left /\ Account(q)
  BY <1>4
<1>6. stream \in Seq(Symbols) /\ at \in Nat /\ Lasting = 0 /\ Len(stream) \in Nat /\ at <= Len(stream) /\ DOMAIN stream = 1 .. Len(stream)
  <2>1. lo \in Nat /\ Lasting = hi - lo
    BY Known
  <2>2. Lasting = 0
    BY <1>4, <2>1
  <2> QED
    BY <2>2, Known
<1>7. CASE FetchPiece
  BY <1>2, <1>7 DEF FetchPiece
<1>8. CASE FetchLine
  <2>1. PICK c \in Nat, e \in Nat :
               /\ c = at' /\ at <= c /\ c <= Len(stream) /\ Line(c) /\ Trimmed(at, e, c)
               /\ e > at /\ stream[e] = "=" =>
                      first' = IF first = "nil" /\ ~BreakAt(e + 1, c) THEN "softbreak" ELSE first
               /\ ~(e > at /\ stream[e] = "=") => first' = first
    BY <1>8, FetchLineIs
  <2>2. e \in Nat /\ at <= e /\ e <= c
    BY <1>6, <2>1 DEF Trimmed
  <2>3. LineOf(at, e, c)
    BY <2>1, <2>2 DEF LineOf, Line
  <2>4. e > at /\ stream[e] = "=" => BreakAt(e + 1, c)
    BY <1>3, <1>6, <2>3, LineBreaks
  <2> QED
    BY <1>3, <2>1, <2>4
<1>9. CASE Join
  <2>1. Lasting > 0
    BY <1>9 DEF Join, AtEscape
  <2> QED
    BY <1>6, <2>1
<1>10. CASE BadEscape
  <2>1. line # <<>> /\ Stays(line[1]) /\ ~Escapes(line[1]) /\ stream[line[1]] = "="
    BY <1>5, <1>10, BadEscapeIs
  <2>2. line[1] \in 1 .. at
    BY <2>1, Known
  <2>3. line[1] \in 1 .. Len(stream)
    BY <1>6, <2>2
  <2>4. Soft(line[1])
    BY <1>3, <1>6, <2>1, <2>3, EqualsIs
  <2> QED
    BY <2>1, <2>4 DEF Stays
<1>11. CASE Literal
  <2>1. line # <<>>
    BY <1>11 DEF Literal, Decoding
  <2>2. line[1] \in 1 .. at
    BY <2>1, Known
  <2>3. line[1] \in DOMAIN stream
    BY <1>6, <2>2
  <2>4. stream[line[1]] # "8"
    BY <1>2, <2>3 DEF Formed, Is
  <2> QED
    BY <1>3, <1>11, <2>4 DEF Literal
<1>12. CASE (\E k \in Sizes : Read(k)) \/ Return \/ ReturnError \/ SoftBreak \/ SaveOne \/ Flush \/ Escape \/ Save \/ Stopped \/ UNCHANGED vars
  <2>1. first' = first
    BY <1>12 DEF Read, Return, ReturnError, SoftBreak, SaveOne, Flush, Escape, Save, Stopped, vars, reader
  <2> QED
    BY <1>3, <2>1
<1> QED
  BY <1>7, <1>8, <1>9, <1>10, <1>11, <1>12 DEF Next, Loop

(* A state Good speaks of comes from one.                                   *)
LEMMA GoodNext ==
    ASSUME [Next]_vars, Good'
    PROVE  Good
<1>1. stream' = stream /\ strict' = strict /\ cuts \subseteq cuts'
  BY DEF Next, Loop, vars, source, reader, Read, Return, ReturnError, FetchPiece, FetchLine, SoftBreak, SaveOne, Join, Flush, Escape, Save, BadEscape, Literal, Stopped
<1> QED
  BY <1>1, GoodBefore

(* Every step keeps the account.                                            *)
LEMMA AccountNext ==
    ASSUME IInv, IInv', Where, Good, Good', Begun, NEW q, q = Left, Account(q), [Next]_vars
    PROVE  Begun' /\ \E z : z = Left' /\ Account(z)'
<1>1. CASE \E k \in Sizes : Read(k)
  <2>1. UNCHANGED <<source, reader, pending, out, cuts>>
    BY <1>1 DEF Read
  <2> QED
    BY <2>1, QuietOrder
<1>2. CASE Return
  <2>1. UNCHANGED <<source, reader, pending, out, cuts>>
    BY <1>2 DEF Return
  <2> QED
    BY <2>1, QuietOrder
<1>3. CASE ReturnError
  BY <1>3, ReturnErrorOrder
<1>4. CASE FetchPiece
  BY <1>4, FetchPieceOrder
<1>5. CASE FetchLine
  BY <1>5, FetchLineOrder
<1>6. CASE SoftBreak
  BY <1>6, SoftBreakOrder
<1>7. CASE SaveOne
  BY <1>7, SaveOneOrder
<1>8. CASE Join
  BY <1>8, JoinOrder
<1>9. CASE Flush
  BY <1>9, FlushOrder
<1>10. CASE Escape
  BY <1>10, EscapeOrder
<1>11. CASE Save
  BY <1>11, SaveOrder
<1>12. CASE BadEscape
  BY <1>12, BadEscapeOrder
<1>13. CASE Literal
  BY <1>13, LiteralOrder
<1>14. CASE Stopped \/ UNCHANGED vars
  <2>1. UNCHANGED vars
    BY <1>14 DEF Stopped
  <2>2. UNCHANGED <<source, reader, pending, out, cuts>>
    BY <2>1 DEF vars
  <2> QED
    BY <2>2, QuietOrder
<1> QED
  BY <1>1, <1>2, <1>3, <1>4, <1>5, <1>6, <1>7, <1>8, <1>9, <1>10, <1>11, <1>12, <1>13, <1>14 DEF Next, Loop

(* Nothing is read yet, and nothing left.                                   *)
LEMMA InitOrder == Init => Order
<1> SUFFICES ASSUME Init PROVE Order
  OBVIOUS
<1>1. /\ stream \in Seq(Symbols) /\ at = 0 /\ line = <<>> /\ full = FALSE /\ lo = 0 /\ hi = 0
      /\ first = "nil" /\ err = "nil" /\ pc = "idle" /\ out = <<>> /\ cuts = {}
  BY StreamsAssumption DEF Init
<1>2. IInv
  BY InitOK
<1>3. Where /\ Unblamed /\ Begun
  BY <1>1 DEF Where, Unblamed, Begun
<1>4. Left = <<>>
  BY <1>1, <1>2, NoneHeld
<1>5. Account(<<>>)
  <2>1. DOMAIN <<>> = {} /\ DOMAIN out = {} /\ 1 .. at = {}
    BY <1>1
  <2>2. EscapesWhole(<<>>) /\ NoFalseEscape(<<>>) /\ Members(<<>>) /\ SoftLast(<<>>)
    BY <2>1 DEF EscapesWhole, NoFalseEscape, Members, SoftLast
  <2>3. ~Soft(at)
    BY <1>1 DEF Soft, Is
  <2>4. Rising(Heads) /\ Rising(<<>>)
    BY <2>1 DEF Rising, Heads
  <2>5. Told(<<>>)
    BY <2>1, <2>4 DEF Told
  <2> QED
    BY <2>2, <2>3, <2>5 DEF Account, SoftHeld
<1> QED
  BY <1>3, <1>4, <1>5 DEF Order

(* Order is inductive beside IInv.                                          *)
LEMMA NextOrder == IInv /\ IInv' /\ Order /\ [Next]_vars => Order'
<1> SUFFICES ASSUME IInv, IInv', Order, [Next]_vars PROVE Order'
  OBVIOUS
<1>1. Where /\ Unblamed /\ (Good => Begun /\ \E q : q = Left /\ Account(q))
  BY DEF Order
<1>2. Where'
  BY <1>1, WhereNext
<1>3. Unblamed'
  BY <1>1, UnblamedNext
<1>4. ASSUME Good' PROVE Begun' /\ \E z : z = Left' /\ Account(z)'
  <2>1. Good
    BY <1>4, GoodNext
  <2>2. Begun /\ \E q : q = Left /\ Account(q)
    BY <1>1, <2>1
  <2>3. PICK q : q = Left /\ Account(q)
    BY <2>2
  <2> QED
    BY <1>1, <1>4, <2>1, <2>2, <2>3, AccountNext
<1> QED
  BY <1>2, <1>3, <1>4 DEF Order

(* So both always hold.                                                     *)
LEMMA OrderHolds == Spec => [](IInv /\ Order)
<1>1. Init => IInv /\ Order
  BY InitOK, InitOrder
<1>2. IInv /\ Order /\ [Next]_vars => (IInv /\ Order)'
  BY StepOK, NextOrder
<1> QED
  BY <1>1, <1>2, PTL DEF Spec

-----------------------------------------------------------------------------
(* The whole of it.                                                         *)
LEMMA PrefixFrom ==
    ASSUME NEW X, NEW p, p \in Seq(X), NEW s, s \in Seq(X), Len(p) <= Len(s), \A k \in 1 .. Len(p) : p[k] = s[k]
    PROVE  IsPrefix(p, s)
<1>1. Len(p) \in Nat /\ Len(s) \in Nat /\ \A k \in 1 .. Len(s) : s[k] \in X
  OBVIOUS
<1>2. SubSeq(p, 1, Len(p)) = p
  BY SubSeqFull
<1>3. PICK m \in Nat : m = Len(p)
  BY <1>1
<1>4. \A k \in 1 .. m : s[k] \in X
  BY <1>1, <1>3
<1>5. /\ SubSeq(s, 1, m) \in Seq(X) /\ Len(SubSeq(s, 1, m)) = m
      /\ \A k \in 1 .. m : SubSeq(s, 1, m)[k] = s[k]
  <2>1. /\ SubSeq(s, 1, m) \in Seq(X)
        /\ Len(SubSeq(s, 1, m)) = (IF 1 <= m THEN m - 1 + 1 ELSE 0)
        /\ \A k \in 1 .. m - 1 + 1 : SubSeq(s, 1, m)[k] = s[1 + k - 1]
    BY <1>4, SubSeqProperties
  <2>2. (IF 1 <= m THEN m - 1 + 1 ELSE 0) = m /\ m - 1 + 1 = m /\ \A k \in 1 .. m : 1 + k - 1 = k
    OBVIOUS
  <2> QED
    BY <2>1, <2>2
<1>6. PICK v : v = SubSeq(s, 1, m)
  OBVIOUS
<1>7. v \in Seq(X) /\ Len(v) = Len(p) /\ \A k \in 1 .. Len(p) : p[k] = v[k]
  BY <1>3, <1>5, <1>6
<1>8. p = v
  BY <1>7, SeqEqual
<1> QED
  BY <1>2, <1>3, <1>6, <1>8 DEF IsPrefix

(* The positions that stay, in order.                                       *)
LEMMA StayingRise ==
    ASSUME stream \in Seq(Symbols)
    PROVE  \E x \in Seq(Nat) : /\ x = Only([j \in DOMAIN stream |-> j], { j \in DOMAIN stream : Stays(j) })
                               /\ Rising(x) /\ Range(x) = { j \in 1 .. Len(stream) : Stays(j) }
<1>1. Len(stream) \in Nat /\ DOMAIN stream = 1 .. Len(stream)
  OBVIOUS
<1>2. PICK t : t = [j \in DOMAIN stream |-> j]
  OBVIOUS
<1>3. t \in Seq(Nat) /\ Rising(t) /\ Range(t) = 1 .. Len(stream)
  <2>1. t = [j \in 1 .. Len(stream) |-> j]
    BY <1>1, <1>2
  <2>2. t \in Seq(Nat)
    BY <1>1, <2>1
  <2>3. DOMAIN t = 1 .. Len(stream) /\ \A j \in 1 .. Len(stream) : t[j] = j
    BY <2>1
  <2> QED
    BY <2>2, <2>3 DEF Rising, Range
<1>4. PICK S : S = { j \in DOMAIN stream : Stays(j) }
  OBVIOUS
<1>5. Only(t, S) \in Seq(Nat) /\ Rising(Only(t, S)) /\ Range(Only(t, S)) = Range(t) \cap S
  BY <1>3, OnlyRises
<1>6. Range(t) \cap S = { j \in 1 .. Len(stream) : Stays(j) }
  BY <1>1, <1>3, <1>4
<1> QED
  BY <1>2, <1>4, <1>5, <1>6

(* What is out, by the byte it came from, rises.                            *)
LEMMA HeadsRise ==
    ASSUME IInv, NEW q, Account(q), NEW H, H = Heads
    PROVE  /\ H \in Seq(Nat) /\ Len(H) = Len(out) /\ DOMAIN H = 1 .. Len(out) /\ Len(out) \in Nat /\ Rising(H)
           /\ \A k \in 1 .. Len(out) : H[k] \in 1 .. at /\ Stays(H[k]) /\ out[k] = Means(H[k])
           /\ \A k \in 1 .. Len(out), l \in DOMAIN q : H[k] < q[l]
           /\ \A j \in 1 .. at : Stays(j) => (\E k \in 1 .. Len(out) : j = H[k]) \/ (\E k \in DOMAIN q : j = q[k])
<1>1. out \in Seq(Seq(1 .. at)) /\ at \in Nat
  BY Known
<1>2. Len(out) \in Nat /\ DOMAIN out = 1 .. Len(out)
  BY <1>1
<1>3. ASSUME NEW k \in DOMAIN out PROVE H[k] \in 1 .. at
  <2>1. H[k] \in Int /\ H[k] >= 1 /\ H[k] <= at
    BY HeadsBelow
  <2> QED
    BY <1>1, <2>1
<1>4. H = [k \in 1 .. Len(out) |-> HeadOf(out[k])]
  BY <1>2 DEF Heads
<1>5. DOMAIN H = 1 .. Len(out) /\ \A k \in 1 .. Len(out) : H[k] \in Nat
  <2>1. DOMAIN H = 1 .. Len(out)
    BY <1>4
  <2>2. ASSUME NEW k \in 1 .. Len(out) PROVE H[k] \in Nat
    <3>1. H[k] \in 1 .. at
      BY <1>2, <1>3
    <3> QED
      BY <1>1, <3>1
  <2> QED
    BY <2>1, <2>2
<1>6. H \in Seq(Nat) /\ Len(H) = Len(out)
  <2>1. H = [k \in 1 .. Len(out) |-> H[k]]
    BY <1>4, <1>5
  <2> QED
    BY <1>2, <1>5, <2>1
<1>7. Told(q)
  BY DEF Account
<1> QED
  BY <1>2, <1>3, <1>5, <1>6, <1>7 DEF Told

(* What is out begins what stays.                                           *)
LEMMA OutBegins ==
    ASSUME IInv, NEW q, Account(q), NEW x \in Seq(Nat), Rising(x), Range(x) = { j \in 1 .. Len(stream) : Stays(j) }
    PROVE  /\ Len(out) <= Len(x) /\ \A k \in 1 .. Len(out) : out[k] = Means(x[k])
           /\ at = Len(stream) /\ DOMAIN q = {} => Len(out) = Len(x)
<1>1. PICK H : H = Heads
  OBVIOUS
<1>2. /\ H \in Seq(Nat) /\ Len(H) = Len(out) /\ DOMAIN H = 1 .. Len(out) /\ Len(out) \in Nat /\ Rising(H)
      /\ \A k \in 1 .. Len(out) : H[k] \in 1 .. at /\ Stays(H[k]) /\ out[k] = Means(H[k])
      /\ \A k \in 1 .. Len(out), l \in DOMAIN q : H[k] < q[l]
      /\ \A j \in 1 .. at : Stays(j) => (\E k \in 1 .. Len(out) : j = H[k]) \/ (\E k \in DOMAIN q : j = q[k])
  BY <1>1, HeadsRise
<1>3. at \in Nat /\ at <= Len(stream) /\ Len(stream) \in Nat
  BY Known
<1>4. Range(H) = { H[k] : k \in 1 .. Len(out) }
  BY <1>2 DEF Range
<1>5. Range(H) \subseteq Range(x)
  <2> SUFFICES ASSUME NEW k \in 1 .. Len(out) PROVE H[k] \in Range(x)
    BY <1>4
  <2>1. H[k] \in 1 .. at /\ Stays(H[k])
    BY <1>2
  <2>2. H[k] \in 1 .. Len(stream)
    BY <1>3, <2>1
  <2> QED
    BY <2>1, <2>2
<1>6. ASSUME NEW p \in Range(x), p \in 1 .. at PROVE p \in Range(H) \/ \E l \in DOMAIN q : p = q[l]
  BY <1>2, <1>4, <1>6
<1>7. \A p \in Range(x) : \A k \in DOMAIN H : p <= H[k] => p \in Range(H)
  <2> SUFFICES ASSUME NEW p \in Range(x), NEW k \in 1 .. Len(out), p <= H[k] PROVE p \in Range(H)
    BY <1>2
  <2>1. p \in 1 .. Len(stream) /\ H[k] \in 1 .. at
    BY <1>2
  <2>2. p \in 1 .. at
    BY <1>3, <2>1
  <2>3. ASSUME NEW l \in DOMAIN q, p = q[l] PROVE FALSE
    <3>1. H[k] < p
      BY <1>2, <2>3
    <3> QED
      BY <2>1, <3>1
  <2> QED
    BY <1>6, <2>2, <2>3
<1>8. Len(H) <= Len(x) /\ \A k \in DOMAIN H : H[k] = x[k]
  BY <1>2, <1>5, <1>7, RisingPrefix
<1>9. ASSUME at = Len(stream), DOMAIN q = {} PROVE Len(out) = Len(x)
  <2>1. Range(x) \subseteq Range(H)
    BY <1>6, <1>9
  <2>2. \A p \in Range(H) : \A k \in DOMAIN x : p <= x[k] => p \in Range(x)
    BY <1>5
  <2>3. Len(x) <= Len(H)
    BY <1>2, <2>1, <2>2, RisingPrefix
  <2>4. Len(x) \in Nat
    OBVIOUS
  <2> QED
    BY <1>2, <1>8, <2>3, <2>4
<1> QED
  BY <1>2, <1>8, <1>9

(* At the source's own end nothing is left.                                 *)
LEMMA NoneLeft ==
    ASSUME IInv, Where, Good, Begun, NEW q, q = Left, Account(q), pc = "ended", ret = ending
    PROVE  at = Len(stream) /\ DOMAIN q = {}
<1>1. line = <<>> /\ ret = Fn /\ Fn # "nil"
  BY DEF Where
<1>2. at \in Nat /\ Len(stream) \in Nat /\ stream \in Seq(Symbols)
  BY Known
<1>3. ending \in {"eof", "fail"} /\ first \in {"nil", "full", "softbreak", "hex", "byte"}
  BY DEF IInv, TypeOK
<1>4. err # "nil"
  BY <1>1, <1>3 DEF Fn
<1>5. at = Len(stream)
  BY <1>4 DEF Where
<1>6. PICK n \in 0 .. 2 : Held(q, n) /\ (n > 0 => WellFormed)
  BY <1>1, HeldShape
<1>7. n = 0
  <2> SUFFICES ASSUME n > 0 PROVE FALSE
    OBVIOUS
  <2>1. n <= at /\ (Escapes((at - n) + 1) \/ Soft(at))
    BY <1>6 DEF Held
  <2>2. CASE Escapes((at - n) + 1)
    <3>1. PICK p \in Int : p = (at - n) + 1
      BY <1>2
    <3>2. p + 2 \in 1 .. Len(stream)
      BY <1>2, <2>2, <3>1, EscapesIs
    <3> QED
      BY <1>2, <1>5, <3>1, <3>2
  <2>3. CASE Soft(at)
    <3>1. at + 1 \in 1 .. Len(stream)
      BY <1>2, <1>6, <2>3, SoftIs
    <3> QED
      BY <1>5, <3>1
  <2> QED
    BY <2>1, <2>2, <2>3
<1>8. DOMAIN q = 1 .. 0
  BY <1>6, <1>7 DEF Held
<1> QED
  BY <1>5, <1>8

(* What Order says of the end is what DecodesReference says.                *)
LEMMA OrderDecodes == IInv /\ Order => DecodesReference
<1> SUFFICES ASSUME IInv, Order, Good
             PROVE  IsPrefix(out, Reference) /\ (pc = "ended" /\ ret = ending => out = Reference)
  BY DEF DecodesReference, Good
<1>1. Where /\ Begun
  BY DEF Order
<1>2. PICK q : q = Left /\ Account(q)
  BY DEF Order
<1>3. stream \in Seq(Symbols)
  BY Known
<1>4. PICK x \in Seq(Nat) : /\ x = Only([j \in DOMAIN stream |-> j], { j \in DOMAIN stream : Stays(j) })
                            /\ Rising(x) /\ Range(x) = { j \in 1 .. Len(stream) : Stays(j) }
  BY <1>3, StayingRise
<1>5. PICK s : s = [j \in DOMAIN x |-> Means(x[j])]
  OBVIOUS
<1>6. Reference = s
  BY <1>4, <1>5 DEF Reference, Means
<1>7. Len(out) <= Len(x) /\ \A k \in 1 .. Len(out) : out[k] = Means(x[k])
  BY <1>2, <1>4, OutBegins
<1>8. DOMAIN x = 1 .. Len(x) /\ Len(x) \in Nat /\ \A k \in 1 .. Len(x) : x[k] \in Nat
  OBVIOUS
<1>9. \A j \in Nat : Means(j) \in Seq(Nat)
  BY DEF Means
<1>10. s \in Seq(Seq(Nat)) /\ Len(s) = Len(x) /\ \A k \in 1 .. Len(x) : s[k] = Means(x[k])
  <2>1. s = [j \in 1 .. Len(x) |-> Means(x[j])]
    BY <1>5, <1>8
  <2>2. \A k \in 1 .. Len(x) : Means(x[k]) \in Seq(Nat)
    BY <1>8, <1>9
  <2> QED
    BY <1>8, <2>1, <2>2
<1>11. out \in Seq(Seq(1 .. at)) /\ at \in Nat /\ Len(out) \in Nat /\ DOMAIN out = 1 .. Len(out)
  BY Known
<1>12. \A k \in 1 .. Len(out) : k \in 1 .. Len(x) /\ out[k] = s[k] /\ out[k] \in Seq(Nat)
  <2> SUFFICES ASSUME NEW k \in 1 .. Len(out)
               PROVE  k \in 1 .. Len(x) /\ out[k] = s[k] /\ out[k] \in Seq(Nat)
    OBVIOUS
  <2>1. k \in 1 .. Len(x)
    BY <1>7, <1>8, <1>11
  <2>2. out[k] = Means(x[k])
    BY <1>7
  <2>3. s[k] = Means(x[k])
    BY <1>10, <2>1
  <2>4. x[k] \in Nat
    BY <1>8, <2>1
  <2> QED
    BY <1>9, <2>1, <2>2, <2>3, <2>4
<1>13. out \in Seq(Seq(Nat))
  <2>1. out = [k \in 1 .. Len(out) |-> out[k]]
    BY <1>11
  <2> QED
    BY <1>11, <1>12, <2>1
<1>14. IsPrefix(out, s)
  BY <1>7, <1>10, <1>12, <1>13, PrefixFrom
<1>15. ASSUME pc = "ended", ret = ending PROVE out = s
  <2>1. at = Len(stream) /\ DOMAIN q = {}
    BY <1>1, <1>2, <1>15, NoneLeft
  <2>2. Len(out) = Len(s)
    BY <1>2, <1>4, <1>10, <2>1, OutBegins
  <2> QED
    BY <1>10, <1>12, <1>13, <2>2, SeqEqual
<1> QED
  BY <1>6, <1>14, <1>15

(* And what StrictAccepts says.                                             *)
LEMMA OrderAccepts == IInv /\ Order => StrictAccepts
<1> SUFFICES ASSUME IInv, Order, pc = "ended", Formed PROVE ret = ending
  BY DEF StrictAccepts, Formed
<1>1. first = "nil"
  BY DEF Order, Unblamed, Formed
<1>2. ret = err /\ err # "nil"
  BY <1>1 DEF Order, Where, Fn
<1> QED
  BY <1>2 DEF Order, Where

(* Where no line is longer than the buffer, and for a well-formed stream    *)
(* wherever the buffer cuts it but within the end of a soft line break,     *)
(* Read delivers what the stream decodes to, in order, whatever the slices  *)
(* it is called with, and at the source's own end it has delivered all.     *)
THEOREM DecodesAll == Spec => []DecodesReference
<1> QED
  BY OrderHolds, OrderDecodes, PTL

(* The strict reader ends a well-formed stream whose lines fit as the       *)
(* source does: it finds nothing to complain of.                            *)
THEOREM StrictIsContent == Spec => []StrictAccepts
<1> QED
  BY OrderHolds, OrderAccepts, PTL
=============================================================================
