----------------------------- MODULE FormProofs -----------------------------
(***************************************************************************)
(* Proofs about Form, for messages of any number of parts of any size, and *)
(* for every limit: nothing is left behind, the form is the message, and   *)
(* the budgets are kept.                                                   *)
(***************************************************************************)
EXTENDS Form, NatRecursion, SequenceTheorems

Storing == pc \in {"value", "file", "temp", "copy"}     \* in the middle of part i
Over    == pc \in {"close", "returned", "removed"}
Past    == IF Storing THEN i - 1 ELSE i                 \* the parts dealt with

(* Where ReadForm is, and whether all has gone well so far. *)
PlaceInv ==
    /\ pc \notin {"close", "returned"} => err = "nil"
    /\ Over /\ err = "nil" => i = Len(parts)
    /\ Storing => i > 0 /\ parts[i].named /\ (pc = "value" <=> ~parts[i].file)
    /\ pc \in {"returned", "removed"} => open = {}
    /\ \A k \in DOMAIN files : files[k].part <= Past

(* The temporary files are those of the form, and the one being written. *)
DiskInv ==
    /\ err = "nil" /\ pc # "removed" => DOMAIN disk = Temps \union (IF pc = "copy" THEN {i} ELSE {})
    /\ pc = "close" => DOMAIN disk \subseteq Temps \union stuck
    /\ (pc = "returned" /\ err # "nil") \/ pc = "removed" => DOMAIN disk \subseteq stuck

(* What is left of the budgets is what has not been used. *)
FilesBudget ==
    /\ maxMemory = limit - Before(Len(files) + 1)
    /\ \A k \in DOMAIN files : files[k].temp <=> parts[files[k].part].size > limit - Before(k)
    /\ pc \in {"temp", "copy"} => parts[i].size > maxMemory

Took == Sums(values)[Len(values)]

BudgetInv ==
    /\ Took < MaxValueBytes
    /\ ~Over => maxValueBytes + Took = MaxValueBytes
    /\ limit < MaxInt => FilesBudget

(* What has been stored of the parts dealt with. *)
ValuesStored ==
    /\ Len(values) = Len(Picked(parts, FALSE)[Past])
    /\ \A k \in DOMAIN values : values[k] = parts[Picked(parts, FALSE)[Past][k]].size

FilesStored ==
    /\ Len(files) = Len(Picked(parts, TRUE)[Past])
    /\ \A k \in DOMAIN files :
          /\ files[k].part = Picked(parts, TRUE)[Past][k]
          /\ limit < MaxInt /\ ~files[k].temp => files[k].memory = parts[files[k].part].size
          /\ pc # "removed" /\ files[k].temp => disk[files[k].part] = parts[files[k].part].size

ExactInv == err = "nil" => ValuesStored /\ FilesStored

IInv == TypeOK /\ PlaceInv /\ DiskInv /\ BudgetInv /\ ExactInv
-----------------------------------------------------------------------------
(* The two recursions, unfolded. *)
LEMMA PickedUnfold ==
    ASSUME NEW ps \in Seq(PartType), NEW file \in BOOLEAN
    PROVE  /\ Picked(ps, file)[0] = <<>>
           /\ \A n \in 1 .. Len(ps) :
                 Picked(ps, file)[n] = IF ps[n].named /\ ps[n].file = file THEN Append(Picked(ps, file)[n - 1], n)
                                       ELSE Picked(ps, file)[n - 1]
           /\ \A n \in 0 .. Len(ps) : Picked(ps, file)[n] \in Seq(Nat)
<1> DEFINE N == Len(ps)
           Next1(n, w) == IF ps[n].named /\ ps[n].file = file THEN Append(w, n) ELSE w
           g == [p \in (1 .. N) \X Seq(Nat) |-> Next1(p[1], p[2])]
<1>1. N \in Nat
  BY LenProperties
<1>2. \A n \in 1 .. N, w \in Seq(Nat) : Next1(n, w) \in Seq(Nat)
  BY <1>1, AppendProperties
<1>3. g \in [(1 .. N) \X Seq(Nat) -> Seq(Nat)] /\ <<>> \in Seq(Nat)
  BY <1>2
<1>4. \A n \in 1 .. N, w \in Seq(Nat) : g[<<n, w>>] = Next1(n, w)
  <2> SUFFICES ASSUME NEW n \in 1 .. N, NEW w \in Seq(Nat) PROVE g[<<n, w>>] = Next1(n, w)
    OBVIOUS
  <2>1. <<n, w>> \in (1 .. N) \X Seq(Nat)
    OBVIOUS
  <2> HIDE DEF Next1
  <2> QED
    BY <2>1
<1> HIDE DEF g, N, Next1
<1>5. HasRecursiveFunction(N, Seq(Nat), <<>>, g)
  BY <1>1, <1>3, RecursiveFunction
<1>6. PICK f \in [0 .. N -> Seq(Nat)] : f[0] = <<>> /\ \A n \in 1 .. N : f[n] = g[<<n, f[n - 1]>>]
  BY <1>5 DEF HasRecursiveFunction
<1>7. f = [n \in 0 .. N |-> IF n = 0 THEN <<>> ELSE Next1(n, f[n - 1])]
  <2>1. ASSUME NEW n \in 0 .. N PROVE f[n] = IF n = 0 THEN <<>> ELSE Next1(n, f[n - 1])
    <3>1. CASE n = 0
      BY <1>6, <3>1
    <3>2. CASE n # 0
      <4>1. n \in 1 .. N /\ n - 1 \in 0 .. N
        BY <1>1, <3>2
      <4> QED
        BY <1>4, <1>6, <3>2, <4>1
    <3> QED
      BY <3>1, <3>2
  <2> QED
    BY <2>1
<1> DEFINE t == Picked(ps, file)
<1>8. t = [n \in 0 .. N |-> IF n = 0 THEN <<>> ELSE Next1(n, t[n - 1])]
  BY <1>7, Zenon DEF Picked, Next1, N
<1> HIDE DEF t
<1>9. t[0] = <<>> /\ \A n \in 1 .. N : t[n] = Next1(n, t[n - 1])
  <2>1. 0 \in 0 .. N /\ \A n \in 1 .. N : n \in 0 .. N /\ n # 0
    BY <1>1
  <2>2. \A n \in 0 .. N : t[n] = IF n = 0 THEN <<>> ELSE Next1(n, t[n - 1])
    BY <1>8
  <2> QED
    BY <2>1, <2>2
<1>10. \A n \in 0 .. N : t[n] \in Seq(Nat)
  <2>1. ASSUME NEW n \in 1 .. N, t[n - 1] \in Seq(Nat) PROVE t[n] \in Seq(Nat)
    BY <1>2, <1>9, <2>1
  <2>2. t[0] \in Seq(Nat)
    BY <1>3, <1>9
  <2> QED
    BY <1>1, <2>1, <2>2, AllValues, Zenon
<1> QED
  BY <1>9, <1>10 DEF t, N, Next1

LEMMA SumsUnfold ==
    ASSUME NEW s \in Seq(Nat)
    PROVE  /\ Sums(s)[0] = 0
           /\ \A n \in 1 .. Len(s) : Sums(s)[n] = Sums(s)[n - 1] + s[n]
           /\ \A n \in 0 .. Len(s) : Sums(s)[n] \in Nat
<1> DEFINE N == Len(s)
           g == [p \in (1 .. N) \X Nat |-> p[2] + s[p[1]]]
<1>1. N \in Nat /\ \A n \in 1 .. N : s[n] \in Nat
  BY LenProperties, ElementOfSeq
<1>2. g \in [(1 .. N) \X Nat -> Nat]
  <2> SUFFICES ASSUME NEW n \in 1 .. N, NEW w \in Nat PROVE w + s[n] \in Nat
    OBVIOUS
  <2> QED
    BY <1>1
<1>3. \A n \in 1 .. N, w \in Nat : g[<<n, w>>] = w + s[n]
  OBVIOUS
<1> HIDE DEF g, N
<1>4. HasRecursiveFunction(N, Nat, 0, g)
  BY <1>1, <1>2, RecursiveFunction
<1>5. PICK f \in [0 .. N -> Nat] : f[0] = 0 /\ \A n \in 1 .. N : f[n] = g[<<n, f[n - 1]>>]
  BY <1>4 DEF HasRecursiveFunction
<1>6. f = [n \in 0 .. N |-> IF n = 0 THEN 0 ELSE f[n - 1] + s[n]]
  <2>1. ASSUME NEW n \in 0 .. N PROVE f[n] = IF n = 0 THEN 0 ELSE f[n - 1] + s[n]
    <3>1. CASE n = 0
      BY <1>5, <3>1
    <3>2. CASE n # 0
      <4>1. n \in 1 .. N /\ n - 1 \in 0 .. N
        BY <1>1, <3>2
      <4> QED
        BY <1>3, <1>5, <3>2, <4>1
    <3> QED
      BY <3>1, <3>2
  <2> QED
    BY <2>1
<1> DEFINE t == Sums(s)
<1>7. t = [n \in 0 .. N |-> IF n = 0 THEN 0 ELSE t[n - 1] + s[n]]
  BY <1>6, Zenon DEF Sums, N
<1> HIDE DEF t
<1>8. t[0] = 0 /\ \A n \in 1 .. N : t[n] = t[n - 1] + s[n]
  <2>1. 0 \in 0 .. N /\ \A n \in 1 .. N : n \in 0 .. N /\ n # 0
    BY <1>1
  <2>2. \A n \in 0 .. N : t[n] = IF n = 0 THEN 0 ELSE t[n - 1] + s[n]
    BY <1>7
  <2> QED
    BY <2>1, <2>2
<1>9. \A n \in 0 .. N : t[n] \in Nat
  <2>1. ASSUME NEW n \in 1 .. N, t[n - 1] \in Nat PROVE t[n] \in Nat
    <3>1. t[n] = t[n - 1] + s[n] /\ s[n] \in Nat
      BY <1>1, <1>8
    <3> QED
      BY <2>1, <3>1
  <2>2. t[0] \in Nat
    BY <1>8
  <2> QED
    BY <1>1, <2>1, <2>2, AllValues, Zenon
<1> QED
  BY <1>8, <1>9 DEF t, N

(* One number more leaves the sums there were. *)
LEMMA SumsAppend ==
    ASSUME NEW s \in Seq(Nat), NEW x \in Nat
    PROVE  /\ \A n \in 0 .. Len(s) : Sums(Append(s, x))[n] = Sums(s)[n]
           /\ Sums(Append(s, x))[Len(s) + 1] = Sums(s)[Len(s)] + x
<1> DEFINE r == Append(s, x)
           N == Len(s)
           T == { n \in 0 .. N : Sums(r)[n] = Sums(s)[n] }
<1>1. /\ N \in Nat /\ r \in Seq(Nat) /\ Len(r) = N + 1
      /\ r[N + 1] = x /\ \A n \in 1 .. N : r[n] = s[n]
  BY LenProperties, AppendProperties
<1> HIDE DEF r, N
<1>2. /\ Sums(r)[0] = 0 /\ \A n \in 1 .. N + 1 : Sums(r)[n] = Sums(r)[n - 1] + r[n]
      /\ Sums(s)[0] = 0 /\ \A n \in 1 .. N : Sums(s)[n] = Sums(s)[n - 1] + s[n]
  BY <1>1, SumsUnfold DEF N
<1>3. 0 \in T
  BY <1>1, <1>2
<1>4. ASSUME NEW n \in 0 .. N - 1, n \in T PROVE n + 1 \in T
  <2>1. n + 1 \in 1 .. N /\ n + 1 \in 1 .. N + 1 /\ (n + 1) - 1 = n
    BY <1>1
  <2>2. Sums(r)[n + 1] = Sums(r)[n] + r[n + 1] /\ Sums(s)[n + 1] = Sums(s)[n] + s[n + 1]
    BY <1>2, <2>1
  <2> QED
    BY <1>1, <1>4, <2>1, <2>2
<1> HIDE DEF T
<1>5. 0 .. N \subseteq T
  BY <1>1, <1>3, <1>4, SetInductionUpTo
<1>6. Sums(r)[N + 1] = Sums(s)[N] + x
  <2>1. N + 1 \in 1 .. N + 1 /\ (N + 1) - 1 = N /\ N \in T
    BY <1>1, <1>5
  <2> QED
    BY <1>1, <1>2, <2>1 DEF T
<1> QED
  BY <1>5, <1>6 DEF T, r, N
-----------------------------------------------------------------------------
Kept(n) == [part : 1 .. n, memory : Nat, temp : BOOLEAN]

LEMMA Limits ==
    /\ MaxInt \in Nat /\ MaxValueBytes \in Nat /\ MaxValueBytes > 0
    /\ \A m \in MemoryLimits : m \in Int /\ m <= MaxInt
BY LimitsAssumption

(* What the steps ask of the data. *)
LEMMA Facts ==
    ASSUME TypeOK, PlaceInv
    PROVE  /\ Len(parts) \in Nat /\ DOMAIN parts = 1 .. Len(parts)
           /\ \A k \in 1 .. Len(parts) : parts[k] \in PartType
           /\ Storing => i \in 1 .. Len(parts) /\ part \in PartType
           /\ Len(files) \in Nat /\ DOMAIN files = 1 .. Len(files)
           /\ \A k \in DOMAIN files : files[k] \in Kept(i)
           /\ Len(values) \in Nat /\ DOMAIN values = 1 .. Len(values)
<1>1. /\ Len(parts) \in Nat /\ DOMAIN parts = 1 .. Len(parts)
      /\ \A k \in 1 .. Len(parts) : parts[k] \in PartType
  BY LenProperties, ElementOfSeq DEF TypeOK
<1>2. /\ Len(files) \in Nat /\ DOMAIN files = 1 .. Len(files)
      /\ \A k \in DOMAIN files : files[k] \in Kept(i)
  <2>1. files \in Seq(Kept(i))
    BY DEF TypeOK, Kept
  <2> QED
    BY <2>1, LenProperties, ElementOfSeq
<1>3. Len(values) \in Nat /\ DOMAIN values = 1 .. Len(values)
  BY LenProperties DEF TypeOK
<1>4. Storing => i \in 1 .. Len(parts) /\ part \in PartType
  <2>1. i \in 0 .. Len(parts)
    BY DEF TypeOK
  <2>2. Storing => i > 0
    BY DEF PlaceInv
  <2> QED
    BY <1>1, <2>1, <2>2 DEF part
<1> QED
  BY <1>1, <1>2, <1>3, <1>4

LEMMA CopiedIs ==
    ASSUME part \in PartType, NEW n \in Int
    PROVE  /\ Copied(n) \in Nat /\ Copied(n) <= part.size
           /\ n > 0 => Copied(n) <= n
           /\ n > 0 /\ Copied(n) < n => Copied(n) = part.size
           /\ n > 0 /\ part.size < n => Copied(n) = part.size
BY DEF PartType, Copied

LEMMA WithoutIs ==
    ASSUME NEW ks
    PROVE  /\ DOMAIN Without(ks) = DOMAIN disk \ (ks \ stuck)
           /\ disk \in [DOMAIN disk -> Nat] => Without(ks) \in [DOMAIN Without(ks) -> Nat]
BY DEF Without

LEMMA WrapIs == \A n \in Int : Wrap(n) \in Int /\ (n <= MaxInt => Wrap(n) = n)
BY Limits DEF Wrap

(* One file more. *)
LEMMA FilesAppend ==
    ASSUME TypeOK, PlaceInv, NEW f \in Kept(i), files' = Append(files, f)
    PROVE  /\ files' \in Seq(Kept(i))
           /\ Len(files') = Len(files) + 1 /\ DOMAIN files' = 1 .. Len(files) + 1
           /\ \A k \in DOMAIN files : k \in DOMAIN files' /\ files'[k] = files[k]
           /\ files'[Len(files) + 1] = f
           /\ \A k \in DOMAIN files' : k \in DOMAIN files \/ k = Len(files) + 1
           /\ Temps' = Temps \union (IF f.temp THEN {f.part} ELSE {})
<1>1. files \in Seq(Kept(i)) /\ Len(files) \in Nat /\ DOMAIN files = 1 .. Len(files)
  <2>1. files \in Seq(Kept(i))
    BY DEF TypeOK, Kept
  <2> QED
    BY <2>1, LenProperties
<1>2. /\ files' \in Seq(Kept(i)) /\ Len(files') = Len(files) + 1 /\ files'[Len(files) + 1] = f
      /\ \A k \in 1 .. Len(files) : files'[k] = files[k]
  BY <1>1, AppendProperties
<1>3. DOMAIN files' = 1 .. Len(files) + 1
  BY <1>2, LenProperties
<1>4. Temps' = Temps \union (IF f.temp THEN {f.part} ELSE {})
  BY <1>1, <1>2, <1>3 DEF Temps
<1> QED
  BY <1>1, <1>2, <1>3, <1>4

LEMMA TypeStep == TypeOK /\ PlaceInv /\ [Next]_vars => TypeOK'
<1> SUFFICES ASSUME TypeOK, PlaceInv, [Next]_vars PROVE TypeOK'
  OBVIOUS
<1> USE DEF Fail
<1>a. /\ Len(parts) \in Nat /\ i \in 0 .. Len(parts) /\ b \in Nat
      /\ maxValueBytes \in 0 .. MaxValueBytes /\ MaxValueBytes \in Nat
      /\ limit \in Int /\ maxMemory \in Int /\ maxMemory <= limit
      /\ values \in Seq(Nat) /\ files \in Seq(Kept(i))
  <2>1. Len(parts) \in Nat
    BY Facts
  <2> QED
    BY <2>1, Limits DEF TypeOK, Kept
<1>b. Storing => i \in 1 .. Len(parts) /\ part \in PartType /\ part.size \in Nat
  <2>1. Storing => i \in 1 .. Len(parts) /\ part \in PartType
    BY Facts
  <2> QED
    BY <2>1 DEF PartType
<1>1. ASSUME NextPart PROVE TypeOK'
  <2>1. i' = i + 1 /\ i' \in 0 .. Len(parts) /\ i \in Nat
    BY <1>1, <1>a DEF NextPart
  <2>2. files' \in Seq(Kept(i'))
    <3>1. files \in Seq(Kept(i)) /\ Kept(i) \subseteq Kept(i')
      BY <1>a, <2>1 DEF Kept
    <3>2. files \in Seq(Kept(i'))
      BY <3>1, LenProperties, ElementOfSeq, SeqDef
    <3> QED
      BY <1>1, <3>2 DEF NextPart
  <2> QED
    BY <1>1, <2>1, <2>2 DEF NextPart, TypeOK, Kept
<1>2. ASSUME NoMoreParts PROVE TypeOK'
  BY <1>2 DEF NoMoreParts, TypeOK
<1>3. ASSUME Value PROVE TypeOK'
  <2>1. part \in PartType /\ maxValueBytes \in Nat /\ maxValueBytes <= MaxValueBytes
    BY <1>3, <1>a, <1>b DEF Value, Storing, CopyFails
  <2>2. Copied(maxValueBytes) \in Nat /\ Copied(maxValueBytes) <= maxValueBytes
    BY <2>1, CopiedIs DEF Copied
  <2>3. maxValueBytes' \in 0 .. MaxValueBytes
    BY <1>3, <1>a, <2>1, <2>2 DEF Value
  <2>4. values' \in Seq(Nat)
    <3>1. Append(values, Copied(maxValueBytes)) \in Seq(Nat)
      BY <1>a, <2>2, AppendProperties
    <3>2. values' \in {values, Append(values, Copied(maxValueBytes))}
      BY <1>3 DEF Value
    <3> QED
      BY <1>a, <3>1, <3>2
  <2> QED
    BY <1>3, <2>3, <2>4 DEF Value, TypeOK
<1>4. ASSUME File PROVE TypeOK'
  <2> DEFINE n == Copied(Wrap(maxMemory + 1))
             f == [part |-> i, memory |-> n, temp |-> FALSE]
  <2>1. part \in PartType /\ maxMemory \in Int /\ maxMemory <= limit /\ i \in 1 .. Len(parts) /\ limit \in Int
    BY <1>4, <1>a, <1>b DEF File, Storing
  <2>2. n \in Nat
    <3>1. Wrap(maxMemory + 1) \in Int
      BY <2>1, WrapIs
    <3> QED
      BY <2>1, <3>1, CopiedIs
  <2>3. UNCHANGED <<parts, fails, limit, maxValueBytes, i, values, disk, stuck, open>>
    BY <1>4 DEF File
  <2> HIDE DEF n
  <2>4. CASE UNCHANGED files
    BY <1>4, <1>a, <2>1, <2>2, <2>3, <2>4 DEF File, TypeOK, n
  <2>5. CASE files' = Append(files, f)
    <3>1. files' \in Seq(Kept(i))
      <4>1. f \in Kept(i)
        BY <2>1, <2>2 DEF Kept
      <4> QED
        BY <2>5, <4>1, FilesAppend
    <3>2. /\ maxMemory' \in Int /\ maxMemory' <= limit /\ pc' \in {"next", "temp", "close"} /\ b' \in Nat
          /\ err' \in {"nil", "read", "toolarge", "temp", "copy"}
      BY <1>4, <2>1, <2>2 DEF File, TypeOK, n
    <3> QED
      BY <2>3, <3>1, <3>2 DEF TypeOK, Kept
  <2> QED
    BY <1>4, <2>4, <2>5 DEF File, n
<1>5. ASSUME TempFile PROVE TypeOK'
  <2>1. i \in 1 .. Len(parts)
    BY <1>5, <1>b DEF TempFile, Storing
  <2>2. disk' \in [DOMAIN disk' -> Nat] /\ DOMAIN disk' \subseteq 1 .. i
    <3>1. disk \in [DOMAIN disk -> Nat] /\ DOMAIN disk \subseteq 1 .. i
      BY DEF TypeOK
    <3>2. CASE UNCHANGED disk
      BY <3>1, <3>2
    <3>3. CASE disk' = [k \in DOMAIN disk \union {i} |-> IF k = i THEN 0 ELSE disk[k]]
      <4>1. \A k \in DOMAIN disk : disk[k] \in Nat
        BY <3>1
      <4>2. DOMAIN disk' = DOMAIN disk \union {i} /\ disk' \in [DOMAIN disk \union {i} -> Nat]
        BY <3>3, <4>1
      <4> QED
        BY <2>1, <3>1, <4>2
    <3> QED
      BY <1>5, <3>2, <3>3 DEF TempFile
  <2> QED
    BY <1>5, <2>1, <2>2 DEF TempFile, TypeOK
<1>6. ASSUME CopyDone PROVE TypeOK'
  <2> DEFINE f == [part |-> i, memory |-> 0, temp |-> TRUE]
  <2>1. i \in 1 .. Len(parts) /\ part \in PartType /\ b \in Nat
    BY <1>6, <1>a, <1>b DEF CopyDone, Storing
  <2>2. b + Unread = part.size /\ part.size \in Nat
    BY <2>1 DEF Unread, PartType
  <2>3. disk' \in [DOMAIN disk' -> Nat] /\ DOMAIN disk' = DOMAIN disk
    BY <1>6, <2>2 DEF CopyDone, TypeOK
  <2>4. files' = Append(files, f) /\ f \in Kept(i)
    BY <1>6, <2>1 DEF CopyDone, Kept
  <2>5. files' \in Seq(Kept(i))
    BY <2>4, FilesAppend
  <2> QED
    BY <1>6, <2>3, <2>5 DEF CopyDone, TypeOK, Kept
<1>7. ASSUME CopyFailed PROVE TypeOK'
  <2>1. disk' \in [DOMAIN disk' -> Nat] /\ DOMAIN disk' \subseteq DOMAIN disk
    BY <1>7, WithoutIs DEF CopyFailed, TypeOK
  <2> QED
    BY <1>7, <2>1 DEF CopyFailed, TypeOK
<1>8. ASSUME Close PROVE TypeOK'
  BY <1>8 DEF Close, TypeOK
<1>9. ASSUME Return PROVE TypeOK'
  <2>1. disk' \in [DOMAIN disk' -> Nat] /\ DOMAIN disk' \subseteq DOMAIN disk
    BY <1>9, WithoutIs DEF Return, TypeOK
  <2> QED
    BY <1>9, <2>1 DEF Return, TypeOK
<1>10. ASSUME RemoveAll PROVE TypeOK'
  <2>1. disk' \in [DOMAIN disk' -> Nat] /\ DOMAIN disk' \subseteq DOMAIN disk
    BY <1>10, WithoutIs DEF RemoveAll, TypeOK
  <2> QED
    BY <1>10, <2>1 DEF RemoveAll, TypeOK
<1>11. CASE UNCHANGED vars
  BY <1>11 DEF vars, TypeOK
<1> QED
  BY <1>1, <1>2, <1>3, <1>4, <1>5, <1>6, <1>7, <1>8, <1>9, <1>10, <1>11 DEF Next

-----------------------------------------------------------------------------
(* What the steps do that store something. *)
LEMMA ValueIs ==
    ASSUME TypeOK, PlaceInv, Value
    PROVE  /\ pc = "value" /\ i \in 1 .. Len(parts) /\ part \in PartType
           /\ UNCHANGED <<parts, limit, maxMemory, i, files, disk, stuck, open>>
           /\ pc' \in {"next", "close"} /\ (pc' = "close" => err' # "nil" /\ UNCHANGED values)
           /\ pc' = "next" => /\ UNCHANGED err /\ values' = Append(values, part.size)
                              /\ maxValueBytes' = maxValueBytes - part.size /\ maxValueBytes' > 0
<1> USE DEF Fail
<1>1. pc = "value" /\ i \in 1 .. Len(parts) /\ part \in PartType
  BY Facts DEF Value, Storing
<1>2. /\ UNCHANGED <<parts, limit, maxMemory, i, files, disk, stuck, open>>
      /\ pc' \in {"next", "close"} /\ (pc' = "close" => err' # "nil" /\ UNCHANGED values)
  BY DEF Value
<1>3. ASSUME pc' = "next"
      PROVE  /\ UNCHANGED err /\ values' = Append(values, part.size)
             /\ maxValueBytes' = maxValueBytes - part.size /\ maxValueBytes' > 0
  <2>1. /\ UNCHANGED err /\ values' = Append(values, Copied(maxValueBytes)) /\ maxValueBytes' # 0
        /\ maxValueBytes' = maxValueBytes - Copied(maxValueBytes)
    BY <1>3 DEF Value
  <2>2. maxValueBytes \in Nat /\ part.size \in Nat
    BY <1>1, Limits DEF TypeOK, PartType
  <2>3. Copied(maxValueBytes) = part.size /\ part.size < maxValueBytes
    BY <2>1, <2>2 DEF Copied
  <2> QED
    BY <2>1, <2>2, <2>3
<1> QED
  BY <1>1, <1>2, <1>3

InMemory(n) == [part |-> i, memory |-> n, temp |-> FALSE]
OnDisk      == [part |-> i, memory |-> 0, temp |-> TRUE]

(* All of the part and no more than was left, unless maxMemory + 1 wraps.  *)
Fits(n) == n \in Nat /\ (limit < MaxInt => n = part.size /\ n <= maxMemory)

LEMMA FileIs ==
    ASSUME TypeOK, PlaceInv, File
    PROVE  /\ pc = "file" /\ i \in 1 .. Len(parts) /\ part \in PartType
           /\ UNCHANGED <<parts, limit, maxValueBytes, i, values, disk, stuck, open>>
           /\ pc' \in {"next", "temp", "close"} /\ (pc' = "close" => err' # "nil" /\ UNCHANGED files)
           /\ pc' = "temp" => UNCHANGED <<files, maxMemory, err>> /\ (limit < MaxInt => part.size > maxMemory)
           /\ pc' = "next" => /\ UNCHANGED err
                              /\ \E n : /\ Fits(n) /\ files' = Append(files, InMemory(n))
                                        /\ InMemory(n) \in Kept(i) /\ maxMemory' = maxMemory - n
<1> USE DEF Fail
<1> DEFINE n == Copied(Wrap(maxMemory + 1))
<1>1. pc = "file" /\ i \in 1 .. Len(parts) /\ part \in PartType
  BY Facts DEF File, Storing
<1>2. /\ UNCHANGED <<parts, limit, maxValueBytes, i, values, disk, stuck, open>>
      /\ pc' \in {"next", "temp", "close"} /\ (pc' = "close" => err' # "nil" /\ UNCHANGED files)
      /\ pc' = "temp" => UNCHANGED <<files, maxMemory, err>> /\ n > maxMemory
      /\ pc' = "next" => /\ UNCHANGED err /\ ~(n > maxMemory) /\ files' = Append(files, InMemory(n))
                         /\ maxMemory' = maxMemory - n
  BY DEF File, InMemory
<1>3. maxMemory \in Int /\ maxMemory <= limit /\ limit \in Int /\ part.size \in Nat /\ MaxInt \in Nat
  BY <1>1, Limits DEF TypeOK, PartType
<1>4. n \in Nat
  <2>1. Wrap(maxMemory + 1) \in Int
    BY <1>3, WrapIs
  <2> QED
    BY <1>1, <2>1, CopiedIs
<1>5. limit < MaxInt => (n > maxMemory => part.size > maxMemory) /\ (n <= maxMemory => n = part.size)
  <2> SUFFICES ASSUME limit < MaxInt
               PROVE  (n > maxMemory => part.size > maxMemory) /\ (n <= maxMemory => n = part.size)
    OBVIOUS
  <2>1. Wrap(maxMemory + 1) = maxMemory + 1
    BY <1>3, WrapIs
  <2> QED
    BY <1>3, <2>1 DEF Copied
<1>6. InMemory(n) \in Kept(i)
  BY <1>1, <1>4 DEF InMemory, Kept
<1> HIDE DEF n
<1>7. pc' = "next" => Fits(n)
  BY <1>2, <1>3, <1>4, <1>5 DEF Fits
<1> QED
  BY <1>1, <1>2, <1>3, <1>5, <1>6, <1>7

LEMMA CopyDoneIs ==
    ASSUME TypeOK, PlaceInv, CopyDone
    PROVE  /\ pc = "copy" /\ pc' = "next" /\ i \in 1 .. Len(parts) /\ part \in PartType
           /\ UNCHANGED <<parts, limit, maxMemory, maxValueBytes, i, values, stuck, open, err>>
           /\ files' = Append(files, OnDisk) /\ OnDisk \in Kept(i)
           /\ disk' = [disk EXCEPT ![i] = part.size]
<1>1. pc = "copy" /\ i \in 1 .. Len(parts) /\ part \in PartType
  BY Facts DEF CopyDone, Storing
<1>2. b + Unread = part.size
  BY <1>1 DEF Unread, PartType, TypeOK
<1>3. OnDisk \in Kept(i)
  BY <1>1 DEF OnDisk, Kept
<1>4. /\ pc' = "next" /\ files' = Append(files, OnDisk) /\ disk' = [disk EXCEPT ![i] = part.size]
      /\ UNCHANGED <<parts, limit, maxMemory, maxValueBytes, i, values, stuck, open, err>>
  BY <1>2 DEF CopyDone, OnDisk
<1> QED
  BY <1>1, <1>3, <1>4

-----------------------------------------------------------------------------
LEMMA PlaceStep == TypeOK /\ PlaceInv /\ [Next]_vars => PlaceInv'
<1> SUFFICES ASSUME TypeOK, PlaceInv, [Next]_vars PROVE PlaceInv'
  OBVIOUS
<1> USE DEF Fail
<1>a. /\ Len(parts) \in Nat /\ i \in 0 .. Len(parts)
      /\ \A k \in 1 .. Len(parts) : parts[k] \in PartType
      /\ \A k \in DOMAIN files : files[k].part \in Nat
  <2>1. Len(parts) \in Nat /\ \A k \in DOMAIN files : files[k] \in Kept(i)
    BY Facts
  <2>2. \A k \in 1 .. Len(parts) : parts[k] \in PartType
    BY Facts
  <2> QED
    BY <2>1, <2>2 DEF TypeOK, Kept
<1>b. ASSUME NEW f \in Kept(i), f.part = i, files' = Append(files, f), Storing, pc' = "next", i' = i
      PROVE  \A k \in DOMAIN files' : files'[k].part <= Past'
  <2>1. \A k \in DOMAIN files' : (k \in DOMAIN files /\ files'[k] = files[k]) \/ files'[k].part = i
    BY <1>b, FilesAppend
  <2> QED
    BY <1>a, <1>b, <2>1 DEF PlaceInv, Past, Storing
<1>1. ASSUME NextPart PROVE PlaceInv'
  <2>1. parts[i + 1] \in PartType
    BY <1>1, <1>a DEF NextPart
  <2>2. parts[i + 1].named \in BOOLEAN /\ parts[i + 1].file \in BOOLEAN
    BY <2>1 DEF PartType
  <2>3. /\ pc = "next" /\ i' = i + 1 /\ UNCHANGED <<parts, files, err, open>>
        /\ pc' \in {"next", "file", "value"}
        /\ pc' # "next" => parts[i + 1].named
        /\ pc' = "file" => parts[i + 1].file
        /\ pc' = "value" => ~parts[i + 1].file
    BY <1>1, <2>2 DEF NextPart
  <2>4. \A k \in DOMAIN files' : files'[k].part <= Past'
    BY <1>a, <2>3 DEF PlaceInv, Past, Storing
  <2> QED
    BY <1>a, <2>2, <2>3, <2>4 DEF PlaceInv, Storing, Over
<1>2. ASSUME NoMoreParts PROVE PlaceInv'
  BY <1>2, <1>a DEF NoMoreParts, PlaceInv, Past, Storing, Over
<1>3. ASSUME Value PROVE PlaceInv'
  <2>1. /\ pc = "value" /\ UNCHANGED <<parts, files, open, i>> /\ pc' \in {"next", "close"}
        /\ pc' = "close" => err' # "nil"
        /\ pc' = "next" => UNCHANGED err
    BY <1>3, ValueIs
  <2> QED
    BY <1>a, <2>1 DEF PlaceInv, Past, Storing, Over
<1>4. ASSUME File PROVE PlaceInv'
  <2>1. /\ pc = "file" /\ UNCHANGED <<parts, open, i>> /\ pc' \in {"next", "temp", "close"}
        /\ pc' = "close" => err' # "nil" /\ UNCHANGED files
        /\ pc' = "temp" => UNCHANGED <<files, err>>
        /\ pc' = "next" => UNCHANGED err /\ \E n : files' = Append(files, InMemory(n)) /\ InMemory(n) \in Kept(i)
    BY <1>4, FileIs
  <2>2. \A k \in DOMAIN files' : files'[k].part <= Past'
    <3>1. CASE pc' # "next"
      BY <1>a, <2>1, <3>1 DEF PlaceInv, Past, Storing
    <3>2. CASE pc' = "next"
      <4>1. PICK n : files' = Append(files, InMemory(n)) /\ InMemory(n) \in Kept(i)
        BY <2>1, <3>2
      <4> QED
        BY <1>b, <2>1, <3>2, <4>1 DEF InMemory, Storing
    <3> QED
      BY <3>1, <3>2
  <2> QED
    BY <1>a, <2>1, <2>2 DEF PlaceInv, Storing, Over
<1>5. ASSUME TempFile PROVE PlaceInv'
  <2>1. /\ pc = "temp" /\ UNCHANGED <<parts, files, i>> /\ pc' \in {"copy", "close"}
        /\ pc' = "close" => err' # "nil"
        /\ pc' = "copy" => UNCHANGED err
    BY <1>5 DEF TempFile
  <2> QED
    BY <1>a, <2>1 DEF PlaceInv, Past, Storing, Over
<1>6. ASSUME CopyDone PROVE PlaceInv'
  <2>1. /\ pc = "copy" /\ pc' = "next" /\ UNCHANGED <<parts, i, open, err>>
        /\ files' = Append(files, OnDisk) /\ OnDisk \in Kept(i)
    BY <1>6, CopyDoneIs
  <2>2. \A k \in DOMAIN files' : files'[k].part <= Past'
    BY <1>b, <2>1 DEF OnDisk, Storing
  <2> QED
    BY <1>a, <2>1, <2>2 DEF PlaceInv, Storing, Over
<1>7. ASSUME CopyFailed PROVE PlaceInv'
  BY <1>7, <1>a DEF CopyFailed, PlaceInv, Past, Storing, Over
<1>8. ASSUME Close PROVE PlaceInv'
  BY <1>8, <1>a DEF Close, PlaceInv, Past, Storing, Over
<1>9. ASSUME Return PROVE PlaceInv'
  BY <1>9, <1>a DEF Return, PlaceInv, Past, Storing, Over
<1>10. ASSUME RemoveAll PROVE PlaceInv'
  BY <1>10, <1>a DEF RemoveAll, PlaceInv, Past, Storing, Over
<1>11. CASE UNCHANGED vars
  BY <1>11 DEF vars, PlaceInv, Past, Storing, Over
<1> QED
  BY <1>1, <1>2, <1>3, <1>4, <1>5, <1>6, <1>7, <1>8, <1>9, <1>10, <1>11 DEF Next

LEMMA DiskStep == TypeOK /\ PlaceInv /\ DiskInv /\ [Next]_vars => DiskInv'
<1> SUFFICES ASSUME TypeOK, PlaceInv, DiskInv, [Next]_vars PROVE DiskInv'
  OBVIOUS
<1> USE DEF Fail
<1>a. UNCHANGED files => Temps' = Temps
  BY DEF Temps
<1>b. pc \notin {"close", "returned"} => err = "nil"
  BY DEF PlaceInv
<1>1. ASSUME NextPart PROVE DiskInv'
  BY <1>1, <1>a, <1>b DEF NextPart, DiskInv
<1>2. ASSUME NoMoreParts PROVE DiskInv'
  BY <1>2, <1>a, <1>b DEF NoMoreParts, DiskInv
<1>3. ASSUME Value PROVE DiskInv'
  <2>1. pc = "value" /\ UNCHANGED <<files, disk, stuck>> /\ pc' \in {"next", "close"}
    BY <1>3, ValueIs
  <2> QED
    BY <1>a, <1>b, <2>1 DEF DiskInv
<1>4. ASSUME File PROVE DiskInv'
  <2>1. /\ pc = "file" /\ UNCHANGED <<disk, stuck>> /\ pc' \in {"next", "temp", "close"}
        /\ pc' # "next" => UNCHANGED files
        /\ pc' = "next" => \E n : files' = Append(files, InMemory(n)) /\ InMemory(n) \in Kept(i)
    BY <1>4, FileIs
  <2>2. Temps' = Temps
    <3>1. CASE pc' # "next"
      BY <1>a, <2>1, <3>1
    <3>2. CASE pc' = "next"
      <4>1. PICK n : files' = Append(files, InMemory(n)) /\ InMemory(n) \in Kept(i)
        BY <2>1, <3>2
      <4>2. Temps' = Temps \union (IF InMemory(n).temp THEN {InMemory(n).part} ELSE {})
        BY <4>1, FilesAppend
      <4> QED
        BY <4>2 DEF InMemory
    <3> QED
      BY <3>1, <3>2
  <2> QED
    BY <1>b, <2>1, <2>2 DEF DiskInv
<1>5. ASSUME TempFile PROVE DiskInv'
  <2>1. /\ pc = "temp" /\ UNCHANGED <<files, i, stuck>> /\ pc' \in {"copy", "close"}
        /\ pc' = "close" => err' # "nil" /\ UNCHANGED disk
        /\ pc' = "copy" => UNCHANGED err /\ DOMAIN disk' = DOMAIN disk \union {i}
    BY <1>5 DEF TempFile
  <2> QED
    BY <1>a, <1>b, <2>1 DEF DiskInv
<1>6. ASSUME CopyDone PROVE DiskInv'
  <2>1. /\ pc = "copy" /\ pc' = "next" /\ UNCHANGED err
        /\ files' = Append(files, OnDisk) /\ OnDisk \in Kept(i) /\ DOMAIN disk' = DOMAIN disk
    BY <1>6, CopyDoneIs
  <2>2. Temps' = Temps \union (IF OnDisk.temp THEN {OnDisk.part} ELSE {})
    BY <2>1, FilesAppend
  <2>3. Temps' = Temps \union {i}
    BY <2>2 DEF OnDisk
  <2> QED
    BY <1>b, <2>1, <2>3 DEF DiskInv
<1>7. ASSUME CopyFailed PROVE DiskInv'
  <2>1. pc = "copy" /\ pc' = "close" /\ err' # "nil" /\ UNCHANGED <<files, stuck>> /\ disk' = Without({i})
    BY <1>7 DEF CopyFailed
  <2>2. DOMAIN disk' = DOMAIN disk \ ({i} \ stuck)
    BY <2>1, WithoutIs
  <2> QED
    BY <1>a, <1>b, <2>1, <2>2 DEF DiskInv
<1>8. ASSUME Close PROVE DiskInv'
  BY <1>8, <1>a DEF Close, DiskInv
<1>9. ASSUME Return PROVE DiskInv'
  <2>1. pc = "close" /\ pc' = "returned" /\ UNCHANGED <<files, stuck, err>>
    BY <1>9 DEF Return
  <2>2. CASE err = "nil"
    BY <1>9, <1>a, <2>1, <2>2 DEF Return, DiskInv
  <2>3. CASE err # "nil"
    <3>1. DOMAIN disk' = DOMAIN disk \ (Temps \ stuck)
      BY <1>9, <2>3, WithoutIs DEF Return
    <3> QED
      BY <1>a, <2>1, <2>3, <3>1 DEF DiskInv
  <2> QED
    BY <2>2, <2>3
<1>10. ASSUME RemoveAll PROVE DiskInv'
  <2>1. /\ pc = "returned" /\ pc' = "removed" /\ err = "nil" /\ UNCHANGED <<files, stuck, err>>
        /\ disk' = Without(Temps)
    BY <1>10 DEF RemoveAll
  <2>2. DOMAIN disk' = DOMAIN disk \ (Temps \ stuck)
    BY <2>1, WithoutIs
  <2> QED
    BY <1>a, <2>1, <2>2 DEF DiskInv
<1>11. CASE UNCHANGED vars
  BY <1>11, <1>a DEF vars, DiskInv
<1> QED
  BY <1>1, <1>2, <1>3, <1>4, <1>5, <1>6, <1>7, <1>8, <1>9, <1>10, <1>11 DEF Next

-----------------------------------------------------------------------------
LEMMA MemoryTyped == TypeOK /\ PlaceInv => Memory \in Seq(Nat) /\ Len(Memory) = Len(files)
<1> SUFFICES ASSUME TypeOK, PlaceInv PROVE Memory \in Seq(Nat) /\ Len(Memory) = Len(files)
  OBVIOUS
<1>1. Len(files) \in Nat /\ DOMAIN files = 1 .. Len(files) /\ \A k \in DOMAIN files : files[k] \in Kept(i)
  BY Facts
<1>2. Memory \in [1 .. Len(files) -> Nat]
  <2>1. \A k \in DOMAIN files : files[k].memory \in Nat
    BY <1>1 DEF Kept
  <2> QED
    BY <1>1, <2>1 DEF Memory
<1> QED
  BY <1>1, <1>2, SeqDef, LenProperties

LEMMA BeforeTyped == TypeOK /\ PlaceInv => \A k \in 1 .. Len(files) + 1 : Before(k) \in Nat
<1> SUFFICES ASSUME TypeOK, PlaceInv, NEW k \in 1 .. Len(files) + 1 PROVE Before(k) \in Nat
  OBVIOUS
<1>1. Len(files) \in Nat /\ Memory \in Seq(Nat) /\ Len(Memory) = Len(files)
  BY Facts, MemoryTyped
<1>2. k - 1 \in 0 .. Len(Memory)
  BY <1>1
<1> QED
  BY <1>1, <1>2, SumsUnfold DEF Before

(* The memory that is taken, with one file more. *)
LEMMA BeforeAppend ==
    ASSUME TypeOK, PlaceInv, NEW f \in Kept(i), files' = Append(files, f)
    PROVE  /\ \A k \in 1 .. Len(files) + 1 : Before(k)' = Before(k)
           /\ Sums(Memory')[Len(files) + 1] = Before(Len(files) + 1) + f.memory
<1> DEFINE N == Len(files)
<1>1. /\ N \in Nat /\ DOMAIN files = 1 .. N /\ \A k \in 1 .. N : files[k].memory \in Nat
      /\ f.memory \in Nat
  <2>1. N \in Nat /\ DOMAIN files = 1 .. N /\ \A k \in DOMAIN files : files[k] \in Kept(i)
    BY Facts
  <2> QED
    BY <2>1 DEF Kept
<1>2. /\ DOMAIN files' = 1 .. N + 1 /\ files'[N + 1] = f
      /\ \A k \in 1 .. N : files'[k] = files[k]
  <2>1. /\ DOMAIN files' = 1 .. N + 1 /\ files'[N + 1] = f
        /\ \A k \in DOMAIN files : files'[k] = files[k]
    BY FilesAppend
  <2> QED
    BY <1>1, <2>1
<1> HIDE DEF N
<1>3. Memory \in Seq(Nat) /\ Len(Memory) = N
  BY MemoryTyped DEF N
<1>4. Memory' = Append(Memory, f.memory)
  <2>1. Memory' = [k \in 1 .. N + 1 |-> files'[k].memory]
    BY <1>2 DEF Memory
  <2>2. /\ Append(Memory, f.memory) \in Seq(Nat) /\ Len(Append(Memory, f.memory)) = N + 1
        /\ \A k \in 1 .. N : Append(Memory, f.memory)[k] = Memory[k]
        /\ Append(Memory, f.memory)[N + 1] = f.memory
    BY <1>1, <1>3, AppendProperties
  <2>3. \A k \in 1 .. N : Memory[k] = files[k].memory
    BY <1>1 DEF Memory
  <2> DEFINE m == Append(Memory, f.memory)
  <2>4. m \in [1 .. N + 1 -> Nat]
    BY <2>2, LenProperties
  <2>5. ASSUME NEW k \in 1 .. N + 1 PROVE m[k] = files'[k].memory
    BY <1>1, <1>2, <2>2, <2>3
  <2> HIDE DEF m
  <2>6. m = [k \in 1 .. N + 1 |-> files'[k].memory]
    BY <2>4, <2>5
  <2> QED
    BY <2>1, <2>6 DEF m
<1>5. /\ \A n \in 0 .. N : Sums(Append(Memory, f.memory))[n] = Sums(Memory)[n]
      /\ Sums(Append(Memory, f.memory))[N + 1] = Sums(Memory)[N] + f.memory
  BY <1>1, <1>3, SumsAppend
<1>6. ASSUME NEW k \in 1 .. N + 1 PROVE Before(k)' = Before(k)
  <2>1. k - 1 \in 0 .. N
    BY <1>1
  <2> QED
    BY <1>4, <1>5, <2>1 DEF Before
<1>7. Sums(Memory')[N + 1] = Before(N + 1) + f.memory
  <2>1. (N + 1) - 1 = N
    BY <1>1
  <2> QED
    BY <1>4, <1>5, <2>1 DEF Before
<1> QED
  BY <1>6, <1>7 DEF N

(* A file is added that was kept in memory or written to disk as it should *)
(* be.                                                                     *)
LEMMA BudgetAppend ==
    ASSUME TypeOK, PlaceInv, FilesBudget, NEW f \in Kept(i), f.part = i, files' = Append(files, f), pc' = "next",
           UNCHANGED <<parts, limit>>, maxMemory' = maxMemory - f.memory, f.temp <=> parts[i].size > maxMemory
    PROVE  FilesBudget'
<1> DEFINE N == Len(files)
<1>1. N \in Nat /\ DOMAIN files = 1 .. N
  BY Facts
<1>2. /\ Len(files') = N + 1 /\ files'[N + 1] = f
      /\ \A k \in DOMAIN files : files'[k] = files[k]
      /\ \A k \in DOMAIN files' : k \in DOMAIN files \/ k = N + 1
  BY FilesAppend
<1>3. (\A k \in 1 .. N + 1 : Before(k)' = Before(k)) /\ Sums(Memory')[N + 1] = Before(N + 1) + f.memory
  BY BeforeAppend
<1>4. limit \in Int /\ maxMemory = limit - Before(N + 1) /\ maxMemory \in Int /\ f.memory \in Nat
  BY Limits DEF FilesBudget, TypeOK, Kept
<1>5. Before(N + 1) \in Int
  BY <1>1, BeforeTyped
<1>6. maxMemory' = limit' - Sums(Memory')[Len(files')]
  BY <1>2, <1>3, <1>4, <1>5
<1>7. ASSUME NEW k \in DOMAIN files' PROVE files'[k].temp <=> parts'[files'[k].part].size > limit' - Before(k)'
  <2>1. CASE k \in DOMAIN files
    BY <1>1, <1>2, <1>3, <2>1 DEF FilesBudget
  <2>2. CASE k = N + 1
    BY <1>1, <1>2, <1>3, <1>4, <2>2
  <2> QED
    BY <1>2, <2>1, <2>2
<1>8. Before(Len(files) + 1)' = Sums(Memory')[Len(files')]
  BY <1>1, <1>2 DEF Before
<1> QED
  BY <1>6, <1>7, <1>8 DEF FilesBudget

(* A step that stores no file leaves their budget as it is. *)
LEMMA BudgetKept ==
    ASSUME FilesBudget, UNCHANGED <<files, parts, limit, maxMemory>>,
           pc' \in {"temp", "copy"} => UNCHANGED i /\ (pc = "temp" \/ parts[i].size > maxMemory)
    PROVE  FilesBudget'
<1>1. Memory' = Memory
  BY DEF Memory
<1> QED
  BY <1>1 DEF FilesBudget, Before

LEMMA BudgetStep == TypeOK /\ PlaceInv /\ BudgetInv /\ [Next]_vars => BudgetInv'
<1> SUFFICES ASSUME TypeOK, PlaceInv, BudgetInv, [Next]_vars PROVE BudgetInv'
  OBVIOUS
<1> USE DEF Fail
<1>a. values \in Seq(Nat) /\ Len(values) \in Nat /\ Took \in Nat /\ maxValueBytes \in Nat /\ MaxValueBytes \in Nat
  <2>1. values \in Seq(Nat) /\ maxValueBytes \in Nat /\ MaxValueBytes \in Nat
    BY Limits DEF TypeOK
  <2>2. Len(values) \in Nat /\ Len(values) \in 0 .. Len(values)
    BY <2>1, LenProperties
  <2> QED
    BY <2>1, <2>2, SumsUnfold DEF Took
<1>b. Took < MaxValueBytes /\ (~Over => maxValueBytes + Took = MaxValueBytes)
  BY DEF BudgetInv
<1>c. limit < MaxInt => FilesBudget
  BY DEF BudgetInv
<1>d. ASSUME UNCHANGED values, Over' \/ UNCHANGED <<maxValueBytes, Over>>, UNCHANGED limit,
             limit < MaxInt => FilesBudget'
      PROVE  BudgetInv'
  <2>1. Took' = Took
    BY <1>d DEF Took
  <2>2. Took' < MaxValueBytes /\ (~Over' => maxValueBytes' + Took' = MaxValueBytes)
    BY <1>b, <1>d, <2>1
  <2> QED
    BY <1>d, <2>2 DEF BudgetInv
<1>1. ASSUME NextPart PROVE BudgetInv'
  <2>1. /\ UNCHANGED <<values, maxValueBytes, limit, files, parts, maxMemory>>
        /\ pc = "next" /\ pc' \in {"next", "file", "value"}
    BY <1>1 DEF NextPart
  <2> QED
    BY <1>c, <1>d, <2>1, BudgetKept DEF Over
<1>2. ASSUME NoMoreParts PROVE BudgetInv'
  <2>1. /\ UNCHANGED <<values, maxValueBytes, limit, files, parts, maxMemory>> /\ pc' = "close"
    BY <1>2 DEF NoMoreParts
  <2> QED
    BY <1>c, <1>d, <2>1, BudgetKept DEF Over
<1>3. ASSUME Value PROVE BudgetInv'
  <2>1. /\ pc = "value" /\ part \in PartType /\ UNCHANGED <<limit, files, parts, maxMemory>> /\ pc' \in {"next", "close"}
        /\ pc' = "close" => UNCHANGED values
        /\ pc' = "next" => /\ values' = Append(values, part.size)
                           /\ maxValueBytes' = maxValueBytes - part.size /\ maxValueBytes' > 0
    BY <1>3, ValueIs
  <2>2. limit < MaxInt => FilesBudget'
    BY <1>c, <2>1, BudgetKept
  <2>3. CASE pc' = "close"
    BY <1>d, <2>1, <2>2, <2>3 DEF Over
  <2>4. CASE pc' = "next"
    <3>1. part.size \in Nat
      BY <2>1 DEF PartType
    <3>2. Len(values') = Len(values) + 1 /\ Sums(values')[Len(values) + 1] = Took + part.size
      <4>1. Len(Append(values, part.size)) = Len(values) + 1
        BY <1>a, <3>1, AppendProperties
      <4>2. Sums(Append(values, part.size))[Len(values) + 1] = Took + part.size
        BY <1>a, <3>1, SumsAppend DEF Took
      <4> QED
        BY <2>1, <2>4, <4>1, <4>2
    <3>3. Took' = Took + part.size
      BY <3>2 DEF Took
    <3>4. Took' < MaxValueBytes /\ maxValueBytes' + Took' = MaxValueBytes
      <4>1. maxValueBytes + Took = MaxValueBytes
        BY <1>b, <2>1 DEF Over
      <4>2. maxValueBytes' = maxValueBytes - part.size /\ maxValueBytes' > 0
        BY <2>1, <2>4
      <4>3. \A m, t, n, all \in Nat : m + t = all /\ m - n > 0 => t + n < all /\ (m - n) + (t + n) = all
        OBVIOUS
      <4> QED
        BY <1>a, <3>1, <3>3, <4>1, <4>2, <4>3
    <3> QED
      BY <2>1, <2>2, <3>4 DEF BudgetInv
  <2> QED
    BY <2>1, <2>3, <2>4
<1>4. ASSUME File PROVE BudgetInv'
  <2>1. /\ pc = "file" /\ part \in PartType /\ UNCHANGED <<limit, parts, maxValueBytes, values, i>>
        /\ pc' \in {"next", "temp", "close"}
        /\ pc' = "close" => UNCHANGED files
        /\ pc' = "temp" => UNCHANGED <<files, maxMemory>> /\ (limit < MaxInt => part.size > maxMemory)
        /\ pc' = "next" => \E n : /\ Fits(n) /\ files' = Append(files, InMemory(n))
                                  /\ InMemory(n) \in Kept(i) /\ maxMemory' = maxMemory - n
    BY <1>4, FileIs
  <2>2. ASSUME limit < MaxInt PROVE FilesBudget'
    <3>1. CASE pc' = "close"
      BY <1>4, <1>c, <2>1, <2>2, <3>1, BudgetKept DEF File
    <3>2. CASE pc' = "temp"
      BY <1>c, <2>1, <2>2, <3>2, BudgetKept DEF part
    <3>3. CASE pc' = "next"
      <4>1. PICK n : /\ Fits(n) /\ files' = Append(files, InMemory(n))
                     /\ InMemory(n) \in Kept(i) /\ maxMemory' = maxMemory - n
        BY <2>1, <3>3
      <4>2. InMemory(n).part = i /\ InMemory(n).memory = n /\ InMemory(n).temp = FALSE
        BY DEF InMemory
      <4>3. ~(parts[i].size > maxMemory)
        BY <2>1, <2>2, <4>1 DEF Fits, part, PartType, TypeOK
      <4> QED
        BY <1>c, <2>1, <2>2, <3>3, <4>1, <4>2, <4>3, BudgetAppend
    <3> QED
      BY <2>1, <3>1, <3>2, <3>3
  <2> QED
    BY <1>d, <2>1, <2>2 DEF Over
<1>5. ASSUME TempFile PROVE BudgetInv'
  <2>1. /\ UNCHANGED <<values, maxValueBytes, limit, files, parts, maxMemory, i>>
        /\ pc = "temp" /\ pc' \in {"copy", "close"}
    BY <1>5 DEF TempFile
  <2> QED
    BY <1>c, <1>d, <2>1, BudgetKept DEF Over
<1>6. ASSUME CopyDone PROVE BudgetInv'
  <2>1. /\ pc = "copy" /\ pc' = "next" /\ UNCHANGED <<parts, limit, maxMemory, maxValueBytes, i, values>>
        /\ files' = Append(files, OnDisk) /\ OnDisk \in Kept(i)
    BY <1>6, CopyDoneIs
  <2>2. ASSUME limit < MaxInt PROVE FilesBudget'
    <3>1. FilesBudget /\ parts[i].size > maxMemory /\ maxMemory \in Int
      BY <1>c, <2>1, <2>2 DEF FilesBudget, TypeOK
    <3>2. OnDisk.part = i /\ OnDisk.memory = 0 /\ OnDisk.temp = TRUE
      BY DEF OnDisk
    <3>3. maxMemory' = maxMemory - OnDisk.memory
      BY <2>1, <3>1, <3>2
    <3> QED
      BY <2>1, <3>1, <3>2, <3>3, BudgetAppend
  <2> QED
    BY <1>d, <2>1, <2>2 DEF Over
<1>7. ASSUME CopyFailed PROVE BudgetInv'
  <2>1. UNCHANGED <<values, maxValueBytes, limit, files, parts, maxMemory>> /\ pc' = "close"
    BY <1>7 DEF CopyFailed
  <2> QED
    BY <1>c, <1>d, <2>1, BudgetKept DEF Over
<1>8. ASSUME Close PROVE BudgetInv'
  <2>1. UNCHANGED <<values, maxValueBytes, limit, files, parts, maxMemory>> /\ pc' = "close"
    BY <1>8 DEF Close
  <2> QED
    BY <1>c, <1>d, <2>1, BudgetKept DEF Over
<1>9. ASSUME Return PROVE BudgetInv'
  <2>1. UNCHANGED <<values, maxValueBytes, limit, files, parts, maxMemory>> /\ pc' = "returned"
    BY <1>9 DEF Return
  <2> QED
    BY <1>c, <1>d, <2>1, BudgetKept DEF Over
<1>10. ASSUME RemoveAll PROVE BudgetInv'
  <2>1. UNCHANGED <<values, maxValueBytes, limit, files, parts, maxMemory>> /\ pc' = "removed"
    BY <1>10 DEF RemoveAll
  <2> QED
    BY <1>c, <1>d, <2>1, BudgetKept DEF Over
<1>11. CASE UNCHANGED vars
  <2>1. UNCHANGED <<values, maxValueBytes, limit, files, parts, maxMemory, i, pc>>
    BY <1>11 DEF vars
  <2> QED
    BY <1>c, <1>d, <2>1, BudgetKept DEF Over, FilesBudget
<1> QED
  BY <1>1, <1>2, <1>3, <1>4, <1>5, <1>6, <1>7, <1>8, <1>9, <1>10, <1>11 DEF Next

-----------------------------------------------------------------------------
(* One part more is dealt with. *)
LEMMA PickedStep ==
    ASSUME TypeOK, PlaceInv, NEW n \in 1 .. Len(parts), NEW file \in BOOLEAN
    PROVE  /\ Len(Picked(parts, file)[n - 1]) \in Nat
           /\ ~(parts[n].named /\ parts[n].file = file) => Picked(parts, file)[n] = Picked(parts, file)[n - 1]
           /\ parts[n].named /\ parts[n].file = file =>
                 /\ Len(Picked(parts, file)[n]) = Len(Picked(parts, file)[n - 1]) + 1
                 /\ Picked(parts, file)[n][Len(Picked(parts, file)[n - 1]) + 1] = n
                 /\ \A k \in 1 .. Len(Picked(parts, file)[n - 1]) :
                       Picked(parts, file)[n][k] = Picked(parts, file)[n - 1][k]
<1> DEFINE w == Picked(parts, file)
<1>1. parts \in Seq(PartType) /\ Len(parts) \in Nat
  BY Facts DEF TypeOK
<1>2. n - 1 \in 0 .. Len(parts) /\ n \in Nat
  BY <1>1
<1>3. /\ w[n] = IF parts[n].named /\ parts[n].file = file THEN Append(w[n - 1], n) ELSE w[n - 1]
      /\ w[n - 1] \in Seq(Nat)
  BY <1>1, <1>2, PickedUnfold
<1> HIDE DEF w
<1>4. /\ Len(w[n - 1]) \in Nat
      /\ Len(Append(w[n - 1], n)) = Len(w[n - 1]) + 1 /\ Append(w[n - 1], n)[Len(w[n - 1]) + 1] = n
      /\ \A k \in 1 .. Len(w[n - 1]) : Append(w[n - 1], n)[k] = w[n - 1][k]
  BY <1>2, <1>3, LenProperties, AppendProperties
<1> QED
  BY <1>3, <1>4 DEF w

LEMMA ExactStep == TypeOK /\ PlaceInv /\ DiskInv /\ ExactInv /\ [Next]_vars => ExactInv'
<1> SUFFICES ASSUME TypeOK, PlaceInv, DiskInv, ExactInv, [Next]_vars, err' = "nil"
             PROVE  ValuesStored' /\ FilesStored'
  BY DEF ExactInv
<1> USE DEF Fail
<1>a. /\ Len(parts) \in Nat /\ i \in 0 .. Len(parts)
      /\ Len(files) \in Nat /\ DOMAIN files = 1 .. Len(files) /\ Len(values) \in Nat /\ DOMAIN values = 1 .. Len(values)
  <2>1. i \in 0 .. Len(parts)
    BY DEF TypeOK
  <2> QED
    BY <2>1, Facts
<1>b. pc \notin {"close", "returned"} => err = "nil"
  BY DEF PlaceInv
<1>c. err = "nil" => ValuesStored /\ FilesStored
  BY DEF ExactInv
<1>d. ASSUME err = "nil", UNCHANGED <<values, parts>>, Picked(parts, FALSE)[Past'] = Picked(parts, FALSE)[Past]
      PROVE  ValuesStored'
  BY <1>c, <1>d DEF ValuesStored
<1>e. ASSUME err = "nil", UNCHANGED <<files, parts, limit>>, Picked(parts, TRUE)[Past'] = Picked(parts, TRUE)[Past],
             pc' = "removed" \/ (pc # "removed" /\ \A k \in DOMAIN files : files[k].temp => disk'[files[k].part] = disk[files[k].part])
      PROVE  FilesStored'
  BY <1>c, <1>e DEF FilesStored
<1>f. ASSUME err = "nil", Storing, pc' = "next", UNCHANGED <<parts, limit, i>>,
             parts[i].named, parts[i].file = TRUE, NEW f \in Kept(i), f.part = i, files' = Append(files, f),
             limit < MaxInt /\ ~f.temp => f.memory = parts[i].size,
             f.temp => disk'[i] = parts[i].size,
             \A k \in DOMAIN files : files[k].temp => disk'[files[k].part] = disk[files[k].part]
      PROVE  FilesStored'
  <2>1. i \in 1 .. Len(parts) /\ Past = i - 1 /\ Past' = i
    BY <1>a, <1>f DEF PlaceInv, Past, Storing
  <2> DEFINE was == Picked(parts, TRUE)[i - 1]
             now == Picked(parts, TRUE)[i]
  <2>2. Len(was) \in Nat /\ Len(now) = Len(was) + 1 /\ now[Len(was) + 1] = i /\ \A k \in 1 .. Len(was) : now[k] = was[k]
    BY <1>f, <2>1, PickedStep
  <2>3. /\ Len(files') = Len(files) + 1 /\ DOMAIN files' = 1 .. Len(files) + 1 /\ files'[Len(files) + 1] = f
        /\ \A k \in DOMAIN files : files'[k] = files[k]
    BY <1>f, FilesAppend
  <2>4. /\ Len(files) = Len(was)
        /\ \A k \in DOMAIN files :
              /\ files[k].part = was[k]
              /\ limit < MaxInt /\ ~files[k].temp => files[k].memory = parts[files[k].part].size
              /\ files[k].temp => disk[files[k].part] = parts[files[k].part].size
    BY <1>c, <1>f, <2>1 DEF FilesStored, Storing
  <2> HIDE DEF was, now
  <2>5. Len(files') = Len(now)
    BY <2>2, <2>3, <2>4
  <2>6. ASSUME NEW k \in DOMAIN files'
        PROVE  /\ files'[k].part = now[k]
               /\ limit < MaxInt /\ ~files'[k].temp => files'[k].memory = parts[files'[k].part].size
               /\ files'[k].temp => disk'[files'[k].part] = parts[files'[k].part].size
    <3>1. CASE k \in DOMAIN files
      BY <1>a, <1>f, <2>2, <2>3, <2>4, <3>1
    <3>2. CASE k = Len(files) + 1
      BY <1>f, <2>2, <2>3, <2>4, <3>2
    <3> QED
      BY <1>a, <2>3, <3>1, <3>2
  <2> QED
    BY <1>f, <2>1, <2>5, <2>6 DEF FilesStored, now
<1>1. ASSUME NextPart PROVE ValuesStored' /\ FilesStored'
  <2>1. /\ pc = "next" /\ i' = i + 1 /\ i + 1 \in 1 .. Len(parts) /\ pc' \in {"next", "file", "value"}
        /\ pc' = "next" <=> ~parts[i + 1].named
        /\ UNCHANGED <<parts, limit, values, files, disk>>
    BY <1>1, <1>a DEF NextPart
  <2>2. \A file \in BOOLEAN : Picked(parts, file)[Past'] = Picked(parts, file)[Past]
    <3>1. CASE pc' = "next"
      <4>1. Past = (i + 1) - 1 /\ Past' = i + 1
        BY <1>a, <2>1, <3>1 DEF Past, Storing
      <4> QED
        BY <2>1, <3>1, <4>1, PickedStep
    <3>2. CASE pc' # "next"
      <4>1. Past' = Past
        BY <1>a, <2>1, <3>2 DEF Past, Storing
      <4> QED
        BY <4>1
    <3> QED
      BY <3>1, <3>2
  <2> QED
    BY <1>b, <1>d, <1>e, <2>1, <2>2
<1>2. ASSUME NoMoreParts PROVE ValuesStored' /\ FilesStored'
  <2>1. /\ pc = "next" /\ pc' = "close" /\ UNCHANGED <<i, parts, limit, values, files, disk>>
    BY <1>2 DEF NoMoreParts
  <2>2. Past' = Past
    BY <2>1 DEF Past, Storing
  <2> QED
    BY <1>b, <1>d, <1>e, <2>1, <2>2
<1>3. ASSUME Value PROVE ValuesStored' /\ FilesStored'
  <2>1. /\ pc = "value" /\ pc' = "next" /\ part \in PartType /\ UNCHANGED <<i, parts, limit, files, disk>>
        /\ values' = Append(values, part.size)
    BY <1>3, ValueIs
  <2>2. i \in 1 .. Len(parts) /\ Past = i - 1 /\ Past' = i /\ parts[i].named /\ ~parts[i].file
    BY <1>a, <2>1 DEF PlaceInv, Past, Storing
  <2>3. parts[i].file = FALSE /\ part.size \in Nat
    BY <2>1, <2>2 DEF part, PartType
  <2>4. FilesStored'
    <3>1. Picked(parts, TRUE)[i] = Picked(parts, TRUE)[i - 1]
      BY <2>2, <2>3, PickedStep
    <3> QED
      BY <1>b, <1>e, <2>1, <2>2, <3>1
  <2>5. ValuesStored'
    <3> DEFINE was == Picked(parts, FALSE)[i - 1]
               now == Picked(parts, FALSE)[i]
    <3>1. Len(was) \in Nat /\ Len(now) = Len(was) + 1 /\ now[Len(was) + 1] = i /\ \A k \in 1 .. Len(was) : now[k] = was[k]
      BY <2>2, <2>3, PickedStep
    <3>2. /\ Len(values') = Len(values) + 1 /\ values'[Len(values) + 1] = part.size /\ values' \in Seq(Nat)
          /\ \A k \in 1 .. Len(values) : values'[k] = values[k]
      BY <2>1, <2>3, AppendProperties DEF TypeOK
    <3>3. DOMAIN values' = 1 .. Len(values) + 1
      BY <3>2, LenProperties
    <3>4. Len(values) = Len(was) /\ \A k \in 1 .. Len(values) : values[k] = parts[was[k]].size
      BY <1>a, <1>b, <1>c, <2>1, <2>2 DEF ValuesStored
    <3> HIDE DEF was, now
    <3>5. ASSUME NEW k \in DOMAIN values' PROVE values'[k] = parts[now[k]].size
      <4>1. CASE k \in 1 .. Len(values)
        BY <3>1, <3>2, <3>4, <4>1
      <4>2. CASE k = Len(values) + 1
        BY <3>1, <3>2, <3>4, <4>2 DEF part
      <4> QED
        BY <1>a, <3>3, <4>1, <4>2
    <3>6. Len(values') = Len(now)
      BY <3>1, <3>2, <3>4
    <3> QED
      BY <2>1, <2>2, <3>5, <3>6 DEF ValuesStored, now
  <2> QED
    BY <2>4, <2>5
<1>4. ASSUME File PROVE ValuesStored' /\ FilesStored'
  <2>1. /\ pc = "file" /\ UNCHANGED <<i, parts, limit, values, disk>> /\ pc' \in {"next", "temp"}
        /\ pc' = "temp" => UNCHANGED files
        /\ pc' = "next" => \E n : Fits(n) /\ files' = Append(files, InMemory(n)) /\ InMemory(n) \in Kept(i)
        /\ part \in PartType
    BY <1>4, FileIs
  <2>2. i \in 1 .. Len(parts) /\ Past = i - 1 /\ parts[i].named /\ parts[i].file
    BY <1>a, <2>1 DEF PlaceInv, Past, Storing
  <2>3. parts[i].file = TRUE
    BY <2>1, <2>2 DEF part, PartType
  <2>4. CASE pc' = "temp"
    <3>1. Past' = Past
      BY <2>1, <2>4 DEF Past, Storing
    <3> QED
      BY <1>b, <1>d, <1>e, <2>1, <2>4, <3>1
  <2>5. CASE pc' = "next"
    <3>1. Past' = i
      BY <2>1, <2>5 DEF Past, Storing
    <3>2. Picked(parts, FALSE)[i] = Picked(parts, FALSE)[i - 1]
      BY <2>2, <2>3, PickedStep
    <3>3. ValuesStored'
      BY <1>b, <1>d, <2>1, <2>2, <3>1, <3>2
    <3>4. PICK n : Fits(n) /\ files' = Append(files, InMemory(n)) /\ InMemory(n) \in Kept(i)
      BY <2>1, <2>5
    <3>5. InMemory(n).part = i /\ ~InMemory(n).temp /\ InMemory(n).memory = n
      BY DEF InMemory
    <3>6. limit < MaxInt => n = parts[i].size
      BY <3>4 DEF Fits, part
    <3>7. FilesStored'
      BY <1>b, <1>f, <2>1, <2>2, <2>3, <2>5, <3>4, <3>5, <3>6 DEF Storing
    <3> QED
      BY <3>3, <3>7
  <2> QED
    BY <2>1, <2>4, <2>5
<1>5. ASSUME TempFile PROVE ValuesStored' /\ FilesStored'
  <2>1. /\ pc = "temp" /\ pc' = "copy" /\ UNCHANGED <<i, parts, limit, values, files>>
        /\ disk' = [k \in DOMAIN disk \union {i} |-> IF k = i THEN 0 ELSE disk[k]]
    BY <1>5 DEF TempFile
  <2>2. Past' = Past /\ Past = i - 1
    BY <2>1 DEF Past, Storing
  <2>3. ASSUME NEW k \in DOMAIN files, files[k].temp PROVE disk'[files[k].part] = disk[files[k].part]
    <3>1. files[k].part \in DOMAIN disk
      BY <1>b, <2>1, <2>3 DEF DiskInv, Temps
    <3>2. files[k].part # i
      <4>1. files[k].part <= i - 1 /\ files[k] \in Kept(i)
        BY <2>2, Facts DEF PlaceInv
      <4> QED
        BY <1>a, <4>1 DEF Kept
    <3> QED
      BY <2>1, <3>1, <3>2
  <2> QED
    BY <1>b, <1>d, <1>e, <2>1, <2>2, <2>3
<1>6. ASSUME CopyDone PROVE ValuesStored' /\ FilesStored'
  <2>1. /\ pc = "copy" /\ pc' = "next" /\ UNCHANGED <<i, parts, limit, values>> /\ part \in PartType
        /\ files' = Append(files, OnDisk) /\ OnDisk \in Kept(i) /\ disk' = [disk EXCEPT ![i] = part.size]
    BY <1>6, CopyDoneIs
  <2>2. i \in 1 .. Len(parts) /\ Past = i - 1 /\ Past' = i /\ parts[i].named /\ parts[i].file
    BY <1>a, <2>1 DEF PlaceInv, Past, Storing
  <2>3. parts[i].file = TRUE
    BY <2>1, <2>2 DEF part, PartType
  <2>4. ValuesStored'
    <3>1. Picked(parts, FALSE)[i] = Picked(parts, FALSE)[i - 1]
      BY <2>2, <2>3, PickedStep
    <3> QED
      BY <1>b, <1>d, <2>1, <2>2, <3>1
  <2>5. ASSUME NEW k \in DOMAIN files, files[k].temp PROVE disk'[files[k].part] = disk[files[k].part]
    <3>1. files[k].part # i
      <4>1. files[k].part <= i - 1 /\ files[k] \in Kept(i)
        BY <2>2, Facts DEF PlaceInv
      <4> QED
        BY <1>a, <4>1 DEF Kept
    <3> QED
      BY <2>1, <3>1
  <2>6. disk'[i] = parts[i].size
    <3>1. i \in DOMAIN disk
      BY <1>b, <2>1 DEF DiskInv
    <3> QED
      BY <2>1, <3>1 DEF part
  <2>7. OnDisk.part = i /\ OnDisk.temp
    BY DEF OnDisk
  <2>8. FilesStored'
    BY <1>b, <1>f, <2>1, <2>2, <2>3, <2>5, <2>6, <2>7 DEF Storing
  <2> QED
    BY <2>4, <2>8
<1>7. ASSUME CopyFailed PROVE ValuesStored' /\ FilesStored'
  BY <1>7 DEF CopyFailed
<1>8. ASSUME Close PROVE ValuesStored' /\ FilesStored'
  <2>1. pc = "close" /\ pc' = "close" /\ UNCHANGED <<i, parts, limit, values, files, disk, err>>
    BY <1>8 DEF Close
  <2>2. Past' = Past
    BY <2>1 DEF Past, Storing
  <2> QED
    BY <1>d, <1>e, <2>1, <2>2
<1>9. ASSUME Return PROVE ValuesStored' /\ FilesStored'
  <2>1. pc = "close" /\ pc' = "returned" /\ UNCHANGED <<i, parts, limit, values, files, disk, err>>
    BY <1>9 DEF Return
  <2>2. Past' = Past
    BY <2>1 DEF Past, Storing
  <2> QED
    BY <1>d, <1>e, <2>1, <2>2
<1>10. ASSUME RemoveAll PROVE ValuesStored' /\ FilesStored'
  <2>1. pc = "returned" /\ pc' = "removed" /\ UNCHANGED <<i, parts, limit, values, files, err>>
    BY <1>10 DEF RemoveAll
  <2>2. Past' = Past
    BY <2>1 DEF Past, Storing
  <2> QED
    BY <1>d, <1>e, <2>1, <2>2
<1>11. CASE UNCHANGED vars
  <2>1. UNCHANGED <<i, parts, limit, values, files, disk, err, pc>>
    BY <1>11 DEF vars
  <2>2. Past' = Past
    BY <2>1 DEF Past, Storing
  <2> QED
    BY <1>d, <1>e, <2>1, <2>2
<1> QED
  BY <1>1, <1>2, <1>3, <1>4, <1>5, <1>6, <1>7, <1>8, <1>9, <1>10, <1>11 DEF Next
-----------------------------------------------------------------------------
(* The whole invariant: where ReadForm starts, and along every step. *)
LEMMA InitOK == Init => IInv
<1> SUFFICES ASSUME Init PROVE IInv
  OBVIOUS
<1>1. parts \in Seq(PartType) /\ fails \in BOOLEAN
  BY MessagesAssumption DEF Init
<1>2. /\ limit \in MemoryLimits /\ limit \in Int /\ maxMemory = limit /\ maxValueBytes = MaxValueBytes
      /\ i = 0 /\ b = 0 /\ values = <<>> /\ files = <<>> /\ DOMAIN disk = {} /\ disk = <<>>
      /\ stuck \in SUBSET DOMAIN parts /\ open = {} /\ err = "nil" /\ pc = "next"
  BY Limits, LimitsAssumption DEF Init
<1>3. MaxValueBytes \in Nat /\ MaxValueBytes > 0
  BY LimitsAssumption
<1>4. \A S : <<>> \in Seq(S)
  OBVIOUS
<1>5. Len(parts) \in Nat /\ Len(<<>>) = 0 /\ DOMAIN <<>> = {}
  BY <1>1
<1>6. TypeOK
  <2>1. values \in Seq(Nat) /\ files \in Seq([part : 1 .. i, memory : Nat, temp : BOOLEAN])
    BY <1>2, <1>4
  <2>2. disk \in [DOMAIN disk -> Nat] /\ DOMAIN disk \subseteq 1 .. i
    BY <1>2
  <2> QED
    BY <1>1, <1>2, <1>3, <1>5, <2>1, <2>2 DEF TypeOK
<1>7. PlaceInv
  BY <1>2, <1>5 DEF PlaceInv, Over, Storing
<1>8. DiskInv
  <2>1. Temps = {}
    BY <1>2, <1>5 DEF Temps
  <2> QED
    BY <1>2, <2>1 DEF DiskInv
<1>9. BudgetInv
  <2>1. Sums(<<>>)[0] = 0
    BY <1>4, SumsUnfold, Zenon
  <2>2. Took = 0
    BY <1>2, <1>5, <2>1 DEF Took
  <2>3. Memory = <<>>
    BY <1>2, <1>5 DEF Memory
  <2>4. Before(Len(files) + 1) = 0
    <3>1. Len(files) + 1 - 1 = 0
      BY <1>2, <1>5
    <3> QED
      BY <2>1, <2>3, <3>1 DEF Before
  <2>5. FilesBudget
    BY <1>2, <1>5, <2>4 DEF FilesBudget
  <2> QED
    BY <1>2, <1>3, <2>2, <2>5 DEF BudgetInv
<1>10. ExactInv
  <2>1. Past = 0
    BY <1>2 DEF Past, Storing
  <2>2. Picked(parts, FALSE)[0] = <<>> /\ Picked(parts, TRUE)[0] = <<>>
    BY <1>1, PickedUnfold, Zenon
  <2> QED
    BY <1>2, <1>5, <2>1, <2>2 DEF ExactInv, ValuesStored, FilesStored
<1> QED
  BY <1>6, <1>7, <1>8, <1>9, <1>10 DEF IInv

LEMMA StepOK == IInv /\ [Next]_vars => IInv'
BY TypeStep, PlaceStep, DiskStep, BudgetStep, ExactStep DEF IInv

LEMMA Inductive == Spec => []IInv
BY InitOK, StepOK, PTL DEF Spec

(* Every variable of ReadForm has its type, for every message and limit. *)
THEOREM TypeCorrect == Spec => []TypeOK
<1>1. IInv => TypeOK
  BY DEF IInv
<1> QED
  BY <1>1, Inductive, PTL

(* ReadForm and RemoveAll leave no temporary file behind but those that    *)
(* the system refuses to remove, and no descriptor open.                   *)
THEOREM Cleaned == Spec => []NothingLeft
<1>1. IInv => NothingLeft
  BY DEF IInv, PlaceInv, DiskInv, NothingLeft
<1> QED
  BY <1>1, Inductive, PTL

(* A file is on disk exactly if it does not fit in what the files before   *)
(* it have left, and the values together stay below their limit.           *)
THEOREM WithinBudgets == Spec => []BudgetsKept
<1>1. IInv => BudgetsKept
  BY DEF IInv, BudgetInv, FilesBudget, Took, BudgetsKept
<1> QED
  BY <1>1, Inductive, PTL

(* A form that is returned without an error is the message: every value    *)
(* and every file, in order, with all of its bytes.                        *)
THEOREM Exact == Spec => []FormExact
<1>1. ASSUME IInv PROVE FormExact
  <2> SUFFICES ASSUME pc = "returned", err = "nil" PROVE ValuesExact /\ (limit < MaxInt => FilesExact)
    BY DEF FormExact, ValuesExact, FilesExact
  <2>1. Past = Len(parts)
    BY <1>1 DEF IInv, PlaceInv, Over, Past, Storing
  <2>2. ValuesStored /\ FilesStored
    BY <1>1 DEF IInv, ExactInv
  <2>3. /\ parts \in Seq(PartType) /\ values \in Seq(Nat) /\ Len(parts) \in Nat
        /\ files \in Seq([part : 1 .. i, memory : Nat, temp : BOOLEAN])
    BY <1>1 DEF IInv, TypeOK
  <2>4. ASSUME NEW file \in BOOLEAN PROVE Wanted(file) \in Seq(Nat) /\ Wanted(file) = Picked(parts, file)[Past]
    BY <2>1, <2>3, PickedUnfold DEF Wanted
  <2>5. ValuesExact
    <3> DEFINE w == Wanted(FALSE)
    <3>1. w \in Seq(Nat) /\ Len(values) = Len(w) /\ \A k \in DOMAIN values : values[k] = parts[w[k]].size
      BY <2>2, <2>4, Zenon DEF ValuesStored
    <3> HIDE DEF w
    <3>2. DOMAIN values = DOMAIN w /\ values = [k \in DOMAIN values |-> values[k]]
      BY <2>3, <3>1
    <3>3. values = [k \in DOMAIN w |-> parts[w[k]].size]
      BY <3>1, <3>2
    <3> QED
      BY <3>3 DEF ValuesExact, w
  <2>6. ASSUME limit < MaxInt PROVE FilesExact
    <3> DEFINE w == Wanted(TRUE)
    <3>1. w \in Seq(Nat) /\ Len(files) = Len(w)
      BY <2>2, <2>4, Zenon DEF FilesStored
    <3>2. ASSUME NEW k \in DOMAIN files
          PROVE  files[k].part = w[k] /\ Content(files[k]) = parts[w[k]].size
      <4>1. files[k].part = w[k]
        BY <2>2, <2>4 DEF FilesStored
      <4>2. files[k].temp => disk[files[k].part] = parts[files[k].part].size
        BY <2>2 DEF FilesStored
      <4>3. ~files[k].temp => files[k].memory = parts[files[k].part].size
        BY <2>2, <2>6 DEF FilesStored
      <4> HIDE DEF w
      <4> QED
        BY <4>1, <4>2, <4>3 DEF Content
    <3> HIDE DEF w
    <3>3. DOMAIN files = DOMAIN w
      BY <2>3, <3>1
    <3>4. [k \in DOMAIN files |-> <<files[k].part, Content(files[k])>>]
          = [k \in DOMAIN w |-> <<w[k], parts[w[k]].size>>]
      BY <3>2, <3>3
    <3> QED
      BY <3>4 DEF FilesExact, w
  <2> QED
    BY <2>5, <2>6
<1> QED
  BY <1>1, Inductive, PTL
=============================================================================
