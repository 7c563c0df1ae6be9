------------------------- MODULE TypeRegistryProofs -------------------------
(***************************************************************************)
(* Proofs about TypeRegistry, for any number of threads and calls, any     *)
(* types files, any built-in table: it is free of races, its maps agree,   *)
(* and it implements Registry.                                             *)
(***************************************************************************)
EXTENDS TypeRegistry, NatRecursion, SequenceTheorems, FiniteSetTheorems

Outside == {"idle", "enter", "once", "return"}          \* not at the maps
Setters == {"parse", "lock", "drain", "lower", "append"}    \* in setExtensionType
Holding == {"drain", "lower", "append"}                 \* between Lock and Unlock
Readers == {"rlock", "rwait", "read", "readlower"}

(* One goroutine runs initMime, and the others are kept out till it is     *)
(* done.                                                                   *)
OnceInv ==
    /\ once = "new" => entry = 1 /\ \A t \in Threads : pc[t] \in Outside
    /\ once = "running" =>
          \E l \in Threads : /\ pc[l] \in {"set", "load"} \union Setters
                             /\ \A t \in Threads \ {l} : pc[t] \in Outside
    /\ once = "done" => \A t \in Threads : pc[t] \notin {"set", "load"}

(* The lock: who has it, and that readers see no writer at work. *)
LockInv ==
    /\ \A t \in Threads : t \in holder <=> pc[t] \in Holding
    /\ \A s, t \in Threads : Reading(s) => pc[t] \notin {"lower", "append"}

(* What is known of a call at each place, and of what it sets. *)
CallInv ==
    \A t \in Threads :
        /\ pc[t] \notin {"idle", "enter", "return"} => ~RefusedAtOnce(call[t])
        /\ once = "done" /\ pc[t] \in Setters =>
              call[t].op = "add" /\ job[t] = [ext |-> call[t].ext, type |-> call[t].type]
        /\ pc[t] \in Setters \ {"parse"} => job[t].type.clean
        /\ pc[t] \in Readers => once = "done" /\ call[t].op # "add"
        /\ pc[t] = "readlower" => call[t].op = "type" /\ mimeTypes[call[t].ext] = Nothing

(* What has been set, and how the maps agree while it is. *)
MapsInv ==
    /\ \A t \in Threads :
          /\ pc[t] \in {"lower", "append"} => mimeTypes[job[t].ext] = Stored(job[t].type)
          /\ pc[t] = "append" => mimeTypesLower[Lower[job[t].ext]] = Stored(job[t].type)
    /\ \A l \in LowerExts :
          /\ \A t \in Threads : pc[t] = "append" => l # Lower[job[t].ext]
          /\ mimeTypesLower[l] # Nothing
          => l \in ToSet(extensions[mimeTypesLower[l].just])
    /\ \A j \in JustTypes : IsInjective(extensions[j])
    /\ \A l \in LowerExts :
          (\A t \in Threads : pc[t] = "lower" => l # Lower[job[t].ext]) =>
              \E e \in Exts : Lower[e] = l /\ mimeTypesLower[l] = mimeTypes[e]

(* How far initMime has come. *)
LoadInv ==
    once = "running" => \A t \in Threads :
        /\ pc[t] = "set" => entry = 1
        /\ pc[t] = "load" => Table = TablesOf(files.entries)[entry - 1]
        /\ pc[t] \in Setters => entry > 1 /\ job[t] = files.entries[entry - 1]
        /\ pc[t] \in {"parse", "lock", "drain"} => Table = TablesOf(files.entries)[entry - 2]
        /\ pc[t] \in {"lower", "append"} =>
              Put(Table, job[t].ext, job[t].type) = TablesOf(files.entries)[entry - 1]

IInv == TypeOK /\ OnceInv /\ LockInv /\ CallInv /\ MapsInv /\ LoadInv
-----------------------------------------------------------------------------
(* Tables. *)
TablesSet == [types : [Exts -> Values], lower : [LowerExts -> Values], lists : [JustTypes -> SUBSET LowerExts]]

USE ExtsAssumption, DottedAssumption, TypesAssumption, BuiltinAssumption, AskedAssumption, FilesAssumption

LEMMA Basics ==
    /\ Exts # {} /\ MimeTypes # {} /\ LowerExts \subseteq Exts
    /\ \A e \in Exts : Lower[e] \in LowerExts
    /\ \A l \in LowerExts : Lower[l] = l
    /\ \A m \in MimeTypes : m.just \in JustTypes /\ Stored(m) \in Values
    /\ Nothing \in Values
    /\ \A m \in MimeTypes : Stored(m) # Nothing => Stored(m).just = m.just
    /\ \A v \in Values : v # Nothing => v.just \in JustTypes
<1>1. Exts # {} /\ MimeTypes # {} /\ LowerExts \subseteq Exts
  BY DEF LowerExts
<1>2. (\A e \in Exts : Lower[e] \in LowerExts) /\ \A l \in LowerExts : Lower[l] = l
  BY DEF LowerExts
<1>3. \A m \in MimeTypes : m.just \in JustTypes /\ Stored(m) \in Values
  BY DEF JustTypes, Values
<1>4. Nothing \in Values
  BY DEF Values
<1>5. \A m \in MimeTypes : Stored(m) # Nothing => Stored(m).just = m.just
  BY DEF Stored
<1>6. \A v \in Values : v # Nothing => v.just \in JustTypes
  BY <1>3, <1>5 DEF Values
<1> QED
  BY <1>1, <1>2, <1>3, <1>4, <1>5, <1>6

LEMMA BuiltinTyped ==
    /\ BuiltinTypes \in [Exts -> Values] /\ BuiltinLists \in [JustTypes -> SUBSET LowerExts]
    /\ BuiltinTable \in TablesSet
<1>1. BuiltinTypes \in [Exts -> Values]
  <2> SUFFICES ASSUME NEW e \in Exts
               PROVE  (IF e \in DOMAIN Builtin THEN Builtin[e] ELSE Nothing) \in Values
    BY DEF BuiltinTypes
  <2> QED
    BY DEF Values
<1>2. BuiltinLists \in [JustTypes -> SUBSET LowerExts]
  BY DEF BuiltinLists
<1>3. [l \in LowerExts |-> BuiltinTypes[l]] \in [LowerExts -> Values]
  BY <1>1, Basics
<1> QED
  BY <1>1, <1>2, <1>3 DEF BuiltinTable, TablesSet

LEMMA PutTyped ==
    ASSUME NEW table \in TablesSet, NEW e \in Exts, NEW m \in MimeTypes
    PROVE  Put(table, e, m) \in TablesSet
<1>1. [table.types EXCEPT ![e] = Stored(m)] \in [Exts -> Values]
  BY Basics DEF TablesSet
<1>2. [table.lower EXCEPT ![Lower[e]] = Stored(m)] \in [LowerExts -> Values]
  BY Basics DEF TablesSet
<1>3. [table.lists EXCEPT ![m.just] = @ \union {Lower[e]}] \in [JustTypes -> SUBSET LowerExts]
  BY Basics DEF TablesSet
<1> QED
  BY <1>1, <1>2, <1>3 DEF Put, TablesSet

(* The tables that the entries of the files make, unfolded. *)
LEMMA TablesUnfold ==
    ASSUME NEW entries \in Seq([ext : Exts, type : MimeTypes])
    PROVE  /\ TablesOf(entries)[0] = BuiltinTable
           /\ \A n \in 1 .. Len(entries) :
                 TablesOf(entries)[n] = WithEntry(TablesOf(entries)[n - 1], entries[n])
<1> DEFINE N == Len(entries)
           g == [p \in (1 .. N) \X TablesSet |-> WithEntry(p[2], entries[p[1]])]
<1>1. N \in Nat /\ \A n \in 1 .. N : entries[n] \in [ext : Exts, type : MimeTypes]
  BY LenProperties, ElementOfSeq
<1>2. g \in [(1 .. N) \X TablesSet -> TablesSet]
  <2> SUFFICES ASSUME NEW n \in 1 .. N, NEW table \in TablesSet
               PROVE  WithEntry(table, entries[n]) \in TablesSet
    OBVIOUS
  <2> QED
    BY <1>1, PutTyped DEF WithEntry
<1>3. N \in Nat /\ BuiltinTable \in TablesSet
  BY <1>1, BuiltinTyped
<1>4. PICK f \in [0 .. N -> TablesSet] : f[0] = BuiltinTable /\ \A n \in 1 .. N : f[n] = g[<<n, f[n - 1]>>]
  <2> HIDE DEF g, N
  <2>1. HasRecursiveFunction(N, TablesSet, BuiltinTable, g)
    BY <1>2, <1>3, RecursiveFunction
  <2> QED
    BY <2>1 DEF HasRecursiveFunction
<1>5. \A n \in 1 .. N : g[<<n, f[n - 1]>>] = WithEntry(f[n - 1], entries[n])
  <2> SUFFICES ASSUME NEW n \in 1 .. N PROVE g[<<n, f[n - 1]>>] = WithEntry(f[n - 1], entries[n])
    OBVIOUS
  <2>1. <<n, f[n - 1]>> \in (1 .. N) \X TablesSet
    BY <1>1
  <2> QED
    BY <2>1
<1>6. f = [n \in 0 .. N |-> IF n = 0 THEN BuiltinTable ELSE WithEntry(f[n - 1], entries[n])]
  <2> HIDE DEF g, N
  <2>1. ASSUME NEW n \in 0 .. N
        PROVE  f[n] = IF n = 0 THEN BuiltinTable ELSE WithEntry(f[n - 1], entries[n])
    <3>1. CASE n = 0
      BY <3>1, <1>4
    <3>2. CASE n # 0
      <4>1. n \in 1 .. N
        BY <1>3, <3>2
      <4> QED
        BY <4>1, <1>4, <1>5, <3>2
    <3> QED
      BY <3>1, <3>2
  <2> QED
    BY <2>1
<1> DEFINE t == TablesOf(entries)
<1>7. t = [n \in 0 .. N |-> IF n = 0 THEN BuiltinTable ELSE WithEntry(t[n - 1], entries[n])]
  BY <1>6, Zenon DEF TablesOf
<1> HIDE DEF t
<1>8. t[0] = BuiltinTable /\ \A n \in 1 .. N : t[n] = WithEntry(t[n - 1], entries[n])
  <2> HIDE DEF N
  <2>1. 0 \in 0 .. N /\ \A n \in 1 .. N : n \in 0 .. N /\ n # 0
    BY <1>1
  <2>2. \A n \in 0 .. N : t[n] = IF n = 0 THEN BuiltinTable ELSE WithEntry(t[n - 1], entries[n])
    BY <1>7
  <2> QED
    BY <2>1, <2>2
<1> QED
  BY <1>8 DEF t

(* The orders in which invert may list a finite set, and adding to a list. *)
LEMMA ListsOf ==
    ASSUME NEW S \in SUBSET LowerExts, IsFiniteSet(S), NEW s \in SetToSeqs(S)
    PROVE  s \in Seq(LowerExts) /\ IsInjective(s) /\ ToSet(s) = S
<1> DEFINE D == 1 .. Cardinality(S)
<1>1. Cardinality(S) \in Nat
  BY FS_CardinalityType
<1>2. s \in [D -> S] /\ \A a, b \in D : a # b => s[a] # s[b]
  BY DEF SetToSeqs
<1>3. s \in Injection(D, S)
  BY <1>2 DEF Injection, IsInjective
<1>4. Cardinality(D) = Cardinality(S)
  BY <1>1, FS_Interval
<1>5. s \in Surjection(D, S)
  BY <1>3, <1>4, FS_Injection
<1>6. ToSet(s) = S
  BY <1>2, <1>5 DEF ToSet, Surjection
<1>7. s \in Seq(LowerExts)
  BY <1>1, <1>2
<1> QED
  BY <1>2, <1>6, <1>7 DEF IsInjective

LEMMA AppendNewProperties ==
    ASSUME NEW list \in Seq(LowerExts), NEW l \in LowerExts
    PROVE  /\ AppendNew(list, l) \in Seq(LowerExts)
           /\ ToSet(AppendNew(list, l)) = ToSet(list) \union {l}
           /\ IsInjective(list) => IsInjective(AppendNew(list, l))
<1>0. Len(list) \in Nat /\ list \in [1 .. Len(list) -> LowerExts]
  BY LenProperties
<1>1. CASE Contains(list, l)
  <2>1. AppendNew(list, l) = list
    BY <1>1 DEF AppendNew
  <2>2. l \in ToSet(list)
    BY <1>0, <1>1 DEF Contains, ToSet
  <2> QED
    BY <2>1, <2>2
<1>2. CASE ~Contains(list, l)
  <2> DEFINE new == AppendNew(list, l)
  <2>1. new = Append(list, l)
    BY <1>2 DEF AppendNew
  <2>2. /\ new \in Seq(LowerExts) /\ Len(new) = Len(list) + 1
        /\ \A x \in 1 .. Len(list) : new[x] = list[x]
        /\ new[Len(list) + 1] = l
    BY <2>1, AppendProperties
  <2> HIDE DEF new
  <2>3. DOMAIN new = 1 .. Len(list) + 1 /\ DOMAIN list = 1 .. Len(list)
    BY <1>0, <2>2, LenProperties
  <2>4. ToSet(new) = ToSet(list) \union {l}
    BY <1>0, <2>2, <2>3 DEF ToSet
  <2>5. ASSUME IsInjective(list) PROVE IsInjective(new)
    <3> SUFFICES ASSUME NEW a \in 1 .. Len(list) + 1, NEW b \in 1 .. Len(list) + 1, new[a] = new[b]
                 PROVE  a = b
      BY <2>3 DEF IsInjective
    <3>1. \A x \in 1 .. Len(list) : new[x] # l
      BY <1>2, <2>2 DEF Contains
    <3>2. \A x, y \in 1 .. Len(list) : list[x] = list[y] => x = y
      BY <2>3, <2>5 DEF IsInjective
    <3> QED
      BY <1>0, <2>2, <3>1, <3>2
  <2> QED
    BY <2>2, <2>4, <2>5 DEF new
<1> QED
  BY <1>1, <1>2

(* What setMimeTypes puts in. *)
LEMMA SetProperties ==
    ASSUME TypeOK, NEW t \in Threads, SetMimeTypes(t)
    PROVE  /\ mimeTypes' = BuiltinTypes /\ mimeTypesLower' = BuiltinTable.lower
           /\ extensions' \in [JustTypes -> Seq(LowerExts)]
           /\ \A j \in JustTypes : IsInjective(extensions'[j]) /\ ToSet(extensions'[j]) = BuiltinLists[j]
<1>1. /\ mimeTypes' = BuiltinTypes /\ mimeTypesLower' = BuiltinTable.lower
      /\ DOMAIN extensions' = JustTypes /\ extensions' = [j \in JustTypes |-> extensions'[j]]
      /\ \A j \in JustTypes : extensions'[j] \in SetToSeqs(BuiltinLists[j])
  BY DEF SetMimeTypes
<1>2. \A j \in JustTypes : BuiltinLists[j] \in SUBSET LowerExts /\ IsFiniteSet(BuiltinLists[j])
  <2> SUFFICES ASSUME NEW j \in JustTypes
               PROVE  BuiltinLists[j] \in SUBSET LowerExts /\ IsFiniteSet(BuiltinLists[j])
    OBVIOUS
  <2>1. BuiltinLists[j] \in SUBSET DOMAIN Builtin
    BY DEF BuiltinLists
  <2>2. IsFiniteSet(BuiltinLists[j])
    BY <2>1, FS_Subset
  <2> QED
    BY <2>1, <2>2
<1>3. \A j \in JustTypes : /\ extensions'[j] \in Seq(LowerExts) /\ IsInjective(extensions'[j])
                           /\ ToSet(extensions'[j]) = BuiltinLists[j]
  BY <1>1, <1>2, ListsOf
<1> QED
  BY <1>1, <1>3

-----------------------------------------------------------------------------
(* Types. *)
Places == Outside \union {"set", "load"} \union Setters \union Readers

LEMMA CallTypes ==
    ASSUME NEW c \in Calls
    PROVE  /\ c.op \in {"type", "exts", "add"}
           /\ c.op # "exts" => c.ext \in Exts
           /\ c.op # "type" => c.type \in MimeTypes
<1>1. CASE c \in { [op |-> "type", ext |-> e, type |-> Nothing] : e \in Exts }
  BY <1>1
<1>2. CASE c \in [op : {"exts"}, ext : {""}, type : MimeTypes]
  BY <1>2
<1>3. CASE c \in [op : {"add"}, ext : Exts, type : MimeTypes]
  BY <1>3
<1> QED
  BY <1>1, <1>2, <1>3 DEF Calls

LEMMA AnswerTypes ==
    /\ \A k \in {"none", "nil", "error", "panic"} : Plain(k) \in Answers
    /\ \A v \in Values : Answer("type", v, {}) \in Answers
    /\ \A x \in SUBSET LowerExts : Answer("exts", Nothing, x) \in Answers
BY Basics DEF Plain, Answer, Answers

LEMMA TypeInit == Init => TypeOK
<1> SUFFICES ASSUME Init PROVE TypeOK
  OBVIOUS
<1>1. Calls # {} /\ Job # {}
  <2>1. PICK e \in Exts, m \in MimeTypes : TRUE
    BY Basics
  <2>2. [op |-> "add", ext |-> e, type |-> m] \in Calls /\ [ext |-> e, type |-> m] \in Job
    BY DEF Calls, Job
  <2> QED
    BY <2>2
<1>2. (CHOOSE c \in Calls : TRUE) \in Calls /\ (CHOOSE x \in Job : TRUE) \in Job
  BY <1>1
<1>3. Len(files.entries) \in Nat
  BY LenProperties DEF Init
<1>4. mimeTypes \in [Exts -> Values] /\ mimeTypesLower \in [LowerExts -> Values]
  BY Basics DEF Init
<1> QED
  BY <1>2, <1>3, <1>4, AnswerTypes DEF Init, TypeOK, Places, Outside, Setters, Readers

LEMMA TypeStep == TypeOK /\ CallInv /\ [Next]_vars => TypeOK'
<1> SUFFICES ASSUME TypeOK, CallInv, [Next]_vars PROVE TypeOK'
  OBVIOUS
<1> USE DEF Go, Says, maps
<1>0. /\ Len(files.entries) \in Nat
      /\ \A n \in 1 .. Len(files.entries) : files.entries[n] \in Job
  BY LenProperties, ElementOfSeq DEF TypeOK, Job
<1>1. ASSUME NEW t \in Threads, Call(t) PROVE TypeOK'
  BY <1>1, AnswerTypes DEF Call, TypeOK
<1>2. ASSUME NEW t \in Threads, Enter(t) PROVE TypeOK'
  BY <1>2, AnswerTypes DEF Enter, TypeOK
<1>3. ASSUME NEW t \in Threads, OnceFirst(t) PROVE TypeOK'
  BY <1>3 DEF OnceFirst, TypeOK
<1>4. ASSUME NEW t \in Threads PROVE TheJob(t) \in Job
  <2>1. call[t] \in Calls /\ job[t] \in Job
    BY DEF TypeOK
  <2>2. call[t].op = "add" => call[t].ext \in Exts /\ call[t].type \in MimeTypes
    BY <2>1, CallTypes
  <2> QED
    BY <2>1, <2>2 DEF TheJob, Job
<1>5. ASSUME NEW t \in Threads, OnceDone(t) PROVE TypeOK'
  BY <1>4, <1>5 DEF OnceDone, AfterOnce, TypeOK
<1>6. ASSUME NEW t \in Threads, SetMimeTypes(t) PROVE TypeOK'
  <2>1. BuiltinTable.lower \in [LowerExts -> Values]
    BY BuiltinTyped DEF TablesSet
  <2> QED
    BY <1>6, <2>1, BuiltinTyped, SetProperties DEF SetMimeTypes, TypeOK
<1>7. ASSUME NEW t \in Threads, LoadEntry(t) PROVE TypeOK'
  BY <1>0, <1>7 DEF LoadEntry, TypeOK
<1>8. ASSUME NEW t \in Threads, LoadEnd(t) PROVE TypeOK'
  <2>1. pc' \in [Threads -> Places] /\ once' = "done"
    <3>1. pc' = [pc EXCEPT ![t] = pc'[t]] /\ pc'[t] \in {"return", "parse", "rlock"} /\ once' = "done"
      BY <1>8 DEF LoadEnd, AfterOnce, TypeOK
    <3>2. pc \in [Threads -> Places]
      BY DEF TypeOK, Places, Outside, Setters, Readers
    <3>3. {"return", "parse", "rlock"} \subseteq Places
      BY DEF Places, Outside, Setters, Readers
    <3> QED
      BY <3>1, <3>2, <3>3
  <2>4. answer' \in [Threads -> Answers]
    BY <1>8, AnswerTypes DEF LoadEnd, TypeOK
  <2>2. job' \in [Threads -> Job]
    BY <1>4, <1>8 DEF LoadEnd, TypeOK
  <2>3. UNCHANGED <<files, mimeTypes, mimeTypesLower, extensions, entry, holder, call, calls>>
    BY <1>8 DEF LoadEnd
  <2> QED
    BY <2>1, <2>2, <2>3, <2>4 DEF TypeOK, Places, Outside, Setters, Readers
<1>9. ASSUME NEW t \in Threads, Parse(t) PROVE TypeOK'
  BY <1>9, AnswerTypes DEF Parse, TypeOK
<1>10. ASSUME NEW t \in Threads, Lock(t) PROVE TypeOK'
  BY <1>10 DEF Lock, TypeOK
<1>11. ASSUME NEW t \in Threads, SetType(t) PROVE TypeOK'
  BY <1>11, Basics, AnswerTypes DEF SetType, TypeOK, Job
<1>12. ASSUME NEW t \in Threads, SetLower(t) PROVE TypeOK'
  BY <1>12, Basics DEF SetLower, TypeOK, Job
<1>13. ASSUME NEW t \in Threads, AddExtension(t) PROVE TypeOK'
  <2>1. job[t].type.just \in JustTypes /\ Lower[job[t].ext] \in LowerExts
    BY Basics DEF TypeOK, Job
  <2>2. extensions' \in [JustTypes -> Seq(LowerExts)]
    BY <1>13, <2>1, AppendNewProperties DEF AddExtension, TypeOK
  <2> QED
    BY <1>13, <2>2 DEF AddExtension, AfterSet, TypeOK
<1>14. ASSUME NEW t \in Threads, RLock(t) PROVE TypeOK'
  BY <1>14 DEF RLock, TypeOK
<1>15. ASSUME NEW t \in Threads, Read(t) PROVE TypeOK'
  <2>1. call[t] \in Calls
    BY DEF TypeOK
  <2>2. CASE call[t].op = "exts"
    <3>1. call[t].type.just \in JustTypes
      <4>1. call[t].type \in MimeTypes
        BY <2>1, <2>2, CallTypes
      <4> QED
        BY <4>1, Basics
    <3>2. ToSet(extensions[call[t].type.just]) \in SUBSET LowerExts
      BY <3>1, LenProperties, ElementOfSeq DEF ToSet, TypeOK
    <3> QED
      BY <1>15, <2>2, <3>2, AnswerTypes DEF Read, TypeOK
  <2>3. CASE call[t].op # "exts"
    <3>1. call[t].ext \in Exts
      BY <2>1, <2>3, CallTypes
    <3>2. Answer("type", mimeTypes[call[t].ext], {}) \in Answers
      BY <3>1, AnswerTypes DEF TypeOK
    <3> QED
      BY <1>15, <2>3, <3>2 DEF Read, TypeOK
  <2> QED
    BY <2>2, <2>3
<1>16. ASSUME NEW t \in Threads, ReadLower(t) PROVE TypeOK'
  <2>1. call[t].op = "type"
    BY <1>16 DEF ReadLower, CallInv
  <2>2. call[t].ext \in Exts
    BY <2>1, CallTypes DEF TypeOK
  <2>3. Answer("type", mimeTypesLower[Lower[call[t].ext]], {}) \in Answers
    BY <2>2, AnswerTypes, Basics DEF TypeOK
  <2> QED
    BY <1>16, <2>3 DEF ReadLower, TypeOK
<1>17. ASSUME NEW t \in Threads, Return(t) PROVE TypeOK'
  BY <1>17 DEF Return, TypeOK
<1>18. CASE UNCHANGED vars
  BY <1>18 DEF vars, TypeOK
<1> QED
  BY <1>1, <1>2, <1>3, <1>5, <1>6, <1>7, <1>8, <1>9, <1>10, <1>11, <1>12, <1>13, <1>14, <1>15, <1>16,
     <1>17, <1>18 DEF Next, Step, Finished

-----------------------------------------------------------------------------
(* The first conjunct of the invariant: who runs initMime. *)
LEMMA OnceStep == TypeOK /\ OnceInv /\ [Next]_vars => OnceInv'
<1> SUFFICES ASSUME TypeOK, OnceInv, [Next]_vars PROVE OnceInv'
  OBVIOUS
<1>a. ASSUME NEW t \in Threads, UNCHANGED <<once, entry>>, \A s \in Threads \ {t} : pc'[s] = pc[s],
             \/ pc[t] \in Outside /\ pc'[t] \in Outside
             \/ pc[t] \in Setters /\ pc'[t] \in Setters \union {"load"} /\ once = "running"
             \/ pc[t] \in Setters /\ pc'[t] \in Setters \union {"return"} /\ once = "done"
      PROVE  OnceInv'
  BY <1>a DEF OnceInv, Outside, Setters
<1>b. DOMAIN pc = Threads
  BY DEF TypeOK
<1> USE <1>b DEF OnceInv, Go, Says, Outside, Setters, Readers
<1>1. ASSUME NEW t \in Threads, Call(t) PROVE OnceInv'
  BY <1>1 DEF Call
<1>2. ASSUME NEW t \in Threads, Enter(t) PROVE OnceInv'
  <2>1. UNCHANGED <<once, entry>> /\ \A s \in Threads \ {t} : pc'[s] = pc[s]
    BY <1>2 DEF Enter
  <2>2. pc[t] \in Outside /\ pc'[t] \in Outside
    BY <1>2 DEF Enter
  <2> QED
    BY <2>1, <2>2, <1>a
<1>3. ASSUME NEW t \in Threads, OnceFirst(t) PROVE OnceInv'
  BY <1>3 DEF OnceFirst
<1>4. ASSUME NEW t \in Threads, OnceDone(t) PROVE OnceInv'
  BY <1>4 DEF OnceDone, AfterOnce
<1>5. ASSUME NEW t \in Threads, SetMimeTypes(t) PROVE OnceInv'
  BY <1>5 DEF SetMimeTypes
<1>6. ASSUME NEW t \in Threads, LoadEntry(t) PROVE OnceInv'
  BY <1>6 DEF LoadEntry
<1>7. ASSUME NEW t \in Threads, LoadEnd(t) PROVE OnceInv'
  <2>1. once' = "done" /\ \A s \in Threads \ {t} : pc'[s] = pc[s]
    BY <1>7 DEF LoadEnd
  <2>2. pc[t] = "load" /\ pc'[t] \in {"return", "parse", "rlock"}
    BY <1>7 DEF LoadEnd, AfterOnce
  <2>3. \A s \in Threads \ {t} : pc[s] \in Outside
    BY <2>2 DEF OnceInv, Outside, Setters, TypeOK
  <2> QED
    BY <2>1, <2>2, <2>3
<1>8. ASSUME NEW t \in Threads, Parse(t) PROVE OnceInv'
  <2>1. UNCHANGED <<once, entry>> /\ \A s \in Threads \ {t} : pc'[s] = pc[s]
    BY <1>8 DEF Parse
  <2>2. pc[t] = "parse" /\ once # "new"
    BY <1>8 DEF Parse
  <2>3. pc'[t] = "lock" \/ (once = "running" /\ pc'[t] = "load") \/ (once # "running" /\ pc'[t] = "return")
    BY <1>8 DEF Parse
  <2>4. once \in {"new", "running", "done"}
    BY DEF TypeOK
  <2> QED
    BY <2>1, <2>2, <2>3, <2>4, <1>a
<1>9. ASSUME NEW t \in Threads, Lock(t) PROVE OnceInv'
  BY <1>9 DEF Lock
<1>10. ASSUME NEW t \in Threads, SetType(t) PROVE OnceInv'
  BY <1>10 DEF SetType
<1>11. ASSUME NEW t \in Threads, SetLower(t) PROVE OnceInv'
  BY <1>11 DEF SetLower
<1>12. ASSUME NEW t \in Threads, AddExtension(t) PROVE OnceInv'
  BY <1>12 DEF AddExtension, AfterSet
<1>13. ASSUME NEW t \in Threads, RLock(t) PROVE OnceInv'
  BY <1>13 DEF RLock
<1>14. ASSUME NEW t \in Threads, Read(t) PROVE OnceInv'
  BY <1>14 DEF Read
<1>15. ASSUME NEW t \in Threads, ReadLower(t) PROVE OnceInv'
  BY <1>15 DEF ReadLower
<1>16. ASSUME NEW t \in Threads, Return(t) PROVE OnceInv'
  BY <1>16 DEF Return
<1>17. CASE UNCHANGED vars
  BY <1>17 DEF vars
<1> QED
  BY <1>1, <1>2, <1>3, <1>4, <1>5, <1>6, <1>7, <1>8, <1>9, <1>10, <1>11, <1>12, <1>13, <1>14, <1>15,
     <1>16, <1>17 DEF Next, Step, Finished

(* The second: who has the lock. *)
LEMMA LockStep == TypeOK /\ OnceInv /\ LockInv /\ [Next]_vars => LockInv'
<1> SUFFICES ASSUME TypeOK, OnceInv, LockInv, [Next]_vars PROVE LockInv'
  OBVIOUS
<1> USE DEF TypeOK, OnceInv, LockInv, Go, Says, Reading, Outside, Setters, Holding, Readers
<1>1. ASSUME NEW t \in Threads, Call(t) PROVE LockInv'
  BY <1>1 DEF Call
<1>2. ASSUME NEW t \in Threads, Enter(t) PROVE LockInv'
  BY <1>2 DEF Enter
<1>3. ASSUME NEW t \in Threads, OnceFirst(t) PROVE LockInv'
  BY <1>3 DEF OnceFirst
<1>4. ASSUME NEW t \in Threads, OnceDone(t) PROVE LockInv'
  BY <1>4 DEF OnceDone, AfterOnce
<1>5. ASSUME NEW t \in Threads, SetMimeTypes(t) PROVE LockInv'
  BY <1>5 DEF SetMimeTypes
<1>6. ASSUME NEW t \in Threads, LoadEntry(t) PROVE LockInv'
  BY <1>6 DEF LoadEntry
<1>7. ASSUME NEW t \in Threads, LoadEnd(t) PROVE LockInv'
  BY <1>7 DEF LoadEnd, AfterOnce
<1>8. ASSUME NEW t \in Threads, Parse(t) PROVE LockInv'
  BY <1>8 DEF Parse
<1>9. ASSUME NEW t \in Threads, Lock(t) PROVE LockInv'
  BY <1>9 DEF Lock
<1>10. ASSUME NEW t \in Threads, SetType(t) PROVE LockInv'
  BY <1>10 DEF SetType
<1>11. ASSUME NEW t \in Threads, SetLower(t) PROVE LockInv'
  BY <1>11 DEF SetLower
<1>12. ASSUME NEW t \in Threads, AddExtension(t) PROVE LockInv'
  BY <1>12 DEF AddExtension, AfterSet
<1>13. ASSUME NEW t \in Threads, RLock(t) PROVE LockInv'
  BY <1>13 DEF RLock
<1>14. ASSUME NEW t \in Threads, Read(t) PROVE LockInv'
  BY <1>14 DEF Read
<1>15. ASSUME NEW t \in Threads, ReadLower(t) PROVE LockInv'
  BY <1>15 DEF ReadLower
<1>16. ASSUME NEW t \in Threads, Return(t) PROVE LockInv'
  BY <1>16 DEF Return
<1>17. CASE UNCHANGED vars
  BY <1>17 DEF vars
<1> QED
  BY <1>1, <1>2, <1>3, <1>4, <1>5, <1>6, <1>7, <1>8, <1>9, <1>10, <1>11, <1>12, <1>13, <1>14, <1>15,
     <1>16, <1>17 DEF Next, Step, Finished

(* The third: what is known of the calls. *)
LEMMA CallStep == TypeOK /\ OnceInv /\ LockInv /\ CallInv /\ [Next]_vars => CallInv'
<1> SUFFICES ASSUME TypeOK, OnceInv, LockInv, CallInv, [Next]_vars PROVE CallInv'
  OBVIOUS
<1> USE DEF TypeOK, OnceInv, LockInv, CallInv, Go, Says, maps, Reading, Outside, Setters, Holding, Readers
<1>1. ASSUME NEW t \in Threads, Call(t) PROVE CallInv'
  BY <1>1 DEF Call
<1>2. ASSUME NEW t \in Threads, Enter(t) PROVE CallInv'
  BY <1>2 DEF Enter
<1>3. ASSUME NEW t \in Threads, OnceFirst(t) PROVE CallInv'
  BY <1>3 DEF OnceFirst
<1>4. ASSUME NEW t \in Threads, OnceDone(t) PROVE CallInv'
  BY <1>4 DEF OnceDone, AfterOnce, TheJob
<1>5. ASSUME NEW t \in Threads, SetMimeTypes(t) PROVE CallInv'
  BY <1>5 DEF SetMimeTypes
<1>6. ASSUME NEW t \in Threads, LoadEntry(t) PROVE CallInv'
  BY <1>6 DEF LoadEntry
<1>7. ASSUME NEW t \in Threads, LoadEnd(t) PROVE CallInv'
  <2>1. once = "running" /\ \A s \in Threads \ {t} : pc[s] \in Outside
    BY <1>7 DEF LoadEnd
  <2>2. CASE files.fails
    BY <1>7, <2>1, <2>2 DEF LoadEnd
  <2>3. CASE ~files.fails /\ call[t].op = "add"
    <3>1. /\ pc' = [pc EXCEPT ![t] = "parse"] /\ call' = call /\ pc[t] = "load"
          /\ job' = [job EXCEPT ![t] = [ext |-> call[t].ext, type |-> call[t].type]]
      BY <1>7, <2>3 DEF LoadEnd, AfterOnce, TheJob
    <3>2. \A s \in Threads \ {t} : pc'[s] \in Outside /\ pc'[s] = pc[s]
      BY <2>1, <3>1
    <3>3. pc'[t] = "parse" /\ job'[t] = [ext |-> call[t].ext, type |-> call[t].type]
      BY <3>1
    <3> QED
      BY <2>3, <3>1, <3>2, <3>3
  <2>4. CASE ~files.fails /\ call[t].op # "add"
    BY <1>7, <2>1, <2>4 DEF LoadEnd, AfterOnce, TheJob
  <2> QED
    BY <2>2, <2>3, <2>4
<1>8. ASSUME NEW t \in Threads, Parse(t) PROVE CallInv'
  BY <1>8 DEF Parse
<1>9. ASSUME NEW t \in Threads, Lock(t) PROVE CallInv'
  BY <1>9 DEF Lock
<1>10. ASSUME NEW t \in Threads, SetType(t) PROVE CallInv'
  BY <1>10 DEF SetType
<1>11. ASSUME NEW t \in Threads, SetLower(t) PROVE CallInv'
  BY <1>11 DEF SetLower
<1>12. ASSUME NEW t \in Threads, AddExtension(t) PROVE CallInv'
  BY <1>12 DEF AddExtension, AfterSet
<1>13. ASSUME NEW t \in Threads, RLock(t) PROVE CallInv'
  BY <1>13 DEF RLock
<1>14. ASSUME NEW t \in Threads, Read(t) PROVE CallInv'
  <2>1. call[t].op \in {"type", "exts", "add"}
    BY CallTypes
  <2> QED
    BY <1>14, <2>1 DEF Read
<1>15. ASSUME NEW t \in Threads, ReadLower(t) PROVE CallInv'
  BY <1>15 DEF ReadLower
<1>16. ASSUME NEW t \in Threads, Return(t) PROVE CallInv'
  BY <1>16 DEF Return
<1>17. CASE UNCHANGED vars
  BY <1>17 DEF vars
<1> QED
  BY <1>1, <1>2, <1>3, <1>4, <1>5, <1>6, <1>7, <1>8, <1>9, <1>10, <1>11, <1>12, <1>13, <1>14, <1>15,
     <1>16, <1>17 DEF Next, Step, Finished

(* One goroutine sets entries at a time. *)
LEMMA Alone ==
    ASSUME TypeOK, LockInv, NEW t \in Threads, pc[t] \in Holding
    PROVE  \A s \in Threads \ {t} : pc[s] \notin Holding
BY DEF TypeOK, LockInv

(* Steps that touch no map, and begin or end no setting. *)
LEMMA MapsKept ==
    ASSUME MapsInv, UNCHANGED maps,
           \A s \in Threads : /\ pc'[s] = "lower" <=> pc[s] = "lower"
                              /\ pc'[s] = "append" <=> pc[s] = "append"
                              /\ pc[s] \in {"lower", "append"} => job'[s] = job[s]
    PROVE  MapsInv'
BY DEF MapsInv, maps

(* The fourth: what the maps hold. *)
LEMMA MapsStep == TypeOK /\ OnceInv /\ LockInv /\ CallInv /\ MapsInv /\ [Next]_vars => MapsInv'
<1> SUFFICES ASSUME TypeOK, OnceInv, LockInv, CallInv, MapsInv, [Next]_vars PROVE MapsInv'
  OBVIOUS
<1> USE DEF TypeOK, Go, Says
<1>1. ASSUME NEW t \in Threads, Call(t) PROVE MapsInv'
  BY <1>1, MapsKept DEF Call, maps
<1>2. ASSUME NEW t \in Threads, Enter(t) PROVE MapsInv'
  BY <1>2, MapsKept DEF Enter, maps
<1>3. ASSUME NEW t \in Threads, OnceFirst(t) PROVE MapsInv'
  BY <1>3, MapsKept DEF OnceFirst, maps
<1>4. ASSUME NEW t \in Threads, OnceDone(t) PROVE MapsInv'
  BY <1>4, MapsKept DEF OnceDone, maps, AfterOnce, TheJob
<1>5. ASSUME NEW t \in Threads, SetMimeTypes(t) PROVE MapsInv'
  <2>1. \A s \in Threads : pc'[s] \notin {"lower", "append"}
    BY <1>5 DEF SetMimeTypes, Outside, Setters, OnceInv, Readers
  <2>2. \A l \in LowerExts : mimeTypesLower'[l] = BuiltinTypes[l] /\ mimeTypes'[l] = BuiltinTypes[l] /\ l \in Exts
    BY <1>5, SetProperties, Basics DEF BuiltinTable
  <2>3. ASSUME NEW l \in LowerExts, BuiltinTypes[l] # Nothing
        PROVE  l \in ToSet(extensions'[BuiltinTypes[l].just])
    <3>1. l \in DOMAIN Builtin /\ BuiltinTypes[l] = Builtin[l]
      BY <2>2, <2>3 DEF BuiltinTypes
    <3>2. BuiltinTypes[l].just \in JustTypes /\ l \in BuiltinLists[BuiltinTypes[l].just]
      BY <3>1, Basics DEF BuiltinLists
    <3> QED
      BY <1>5, <3>2, SetProperties
  <2>4. \A j \in JustTypes : IsInjective(extensions'[j])
    BY <1>5, SetProperties
  <2> QED
    BY <2>1, <2>2, <2>3, <2>4, Basics DEF MapsInv
<1>6. ASSUME NEW t \in Threads, LoadEntry(t) PROVE MapsInv'
  BY <1>6, MapsKept DEF LoadEntry, maps
<1>7. ASSUME NEW t \in Threads, LoadEnd(t) PROVE MapsInv'
  BY <1>7, MapsKept DEF LoadEnd, maps, AfterOnce, TheJob
<1>8. ASSUME NEW t \in Threads, Parse(t) PROVE MapsInv'
  BY <1>8, MapsKept DEF Parse, maps
<1>9. ASSUME NEW t \in Threads, Lock(t) PROVE MapsInv'
  BY <1>9, MapsKept DEF Lock, maps
<1>10. ASSUME NEW t \in Threads, SetType(t) PROVE MapsInv'
  <2> DEFINE e == job[t].ext
             v == Stored(job[t].type)
  <2>1. /\ pc' = [pc EXCEPT ![t] = "lower"] /\ mimeTypes' = [mimeTypes EXCEPT ![e] = v]
        /\ pc[t] = "drain" /\ UNCHANGED <<mimeTypesLower, extensions, job>>
    BY <1>10 DEF SetType
  <2>2. e \in Exts /\ mimeTypes \in [Exts -> Values]
    BY DEF Job
  <2>3. \A s \in Threads : /\ pc[s] \notin {"lower", "append"} /\ pc'[s] # "append"
                           /\ pc'[s] = "lower" <=> s = t
    BY <2>1, Alone DEF Holding
  <2>4. \A s \in Threads : /\ pc'[s] \in {"lower", "append"} => mimeTypes'[job'[s].ext] = Stored(job'[s].type)
                           /\ pc'[s] # "append"
    BY <2>1, <2>2, <2>3
  <2>5. ASSUME NEW l \in LowerExts, \A s \in Threads : pc'[s] = "lower" => l # Lower[job'[s].ext]
        PROVE  \E d \in Exts : Lower[d] = l /\ mimeTypesLower'[l] = mimeTypes'[d]
    <3>1. l # Lower[e]
      BY <2>1, <2>3, <2>5
    <3>2. PICK d \in Exts : Lower[d] = l /\ mimeTypesLower[l] = mimeTypes[d]
      BY <2>3 DEF MapsInv
    <3>3. mimeTypes'[d] = mimeTypes[d]
      BY <2>1, <2>2, <3>1, <3>2
    <3> QED
      BY <2>1, <3>2, <3>3
  <2>6. \A l \in LowerExts : mimeTypesLower'[l] # Nothing => l \in ToSet(extensions'[mimeTypesLower'[l].just])
    BY <2>1, <2>3 DEF MapsInv
  <2>7. \A j \in JustTypes : IsInjective(extensions'[j])
    BY <2>1 DEF MapsInv
  <2> QED
    BY <2>4, <2>5, <2>6, <2>7 DEF MapsInv
<1>11. ASSUME NEW t \in Threads, SetLower(t) PROVE MapsInv'
  <2> DEFINE e == job[t].ext
             v == Stored(job[t].type)
  <2>1. /\ pc' = [pc EXCEPT ![t] = "append"] /\ mimeTypesLower' = [mimeTypesLower EXCEPT ![Lower[e]] = v]
        /\ pc[t] = "lower" /\ UNCHANGED <<mimeTypes, extensions, job>>
    BY <1>11 DEF SetLower
  <2>2. e \in Exts /\ Lower[e] \in LowerExts /\ mimeTypesLower \in [LowerExts -> Values] /\ mimeTypes[e] = v
    BY <2>1, Basics DEF Job, MapsInv
  <2>3. \A s \in Threads : /\ pc[s] # "append" /\ pc'[s] # "lower"
                           /\ pc[s] = "lower" <=> s = t
                           /\ pc'[s] = "append" <=> s = t
    BY <2>1, Alone DEF Holding
  <2>4. \A s \in Threads : /\ pc'[s] \in {"lower", "append"} => mimeTypes'[job'[s].ext] = Stored(job'[s].type)
                           /\ pc'[s] = "append" => mimeTypesLower'[Lower[job'[s].ext]] = Stored(job'[s].type)
    BY <2>1, <2>2, <2>3
  <2>5. ASSUME NEW l \in LowerExts
        PROVE  \E d \in Exts : Lower[d] = l /\ mimeTypesLower'[l] = mimeTypes'[d]
    <3>1. CASE l = Lower[e]
      BY <2>1, <2>2, <3>1
    <3>2. CASE l # Lower[e]
      <4>1. PICK d \in Exts : Lower[d] = l /\ mimeTypesLower[l] = mimeTypes[d]
        BY <2>3, <3>2 DEF MapsInv
      <4> QED
        BY <2>1, <2>2, <3>2, <4>1
    <3> QED
      BY <3>1, <3>2
  <2>6. ASSUME NEW l \in LowerExts, \A s \in Threads : pc'[s] = "append" => l # Lower[job'[s].ext],
               mimeTypesLower'[l] # Nothing
        PROVE  l \in ToSet(extensions'[mimeTypesLower'[l].just])
    <3>1. l # Lower[e] /\ mimeTypesLower'[l] = mimeTypesLower[l]
      BY <2>1, <2>2, <2>3, <2>6
    <3> QED
      BY <2>1, <2>3, <2>6, <3>1 DEF MapsInv
  <2>7. \A j \in JustTypes : IsInjective(extensions'[j])
    BY <2>1 DEF MapsInv
  <2> QED
    BY <2>4, <2>5, <2>6, <2>7 DEF MapsInv
<1>12. ASSUME NEW t \in Threads, AddExtension(t) PROVE MapsInv'
  <2> DEFINE l0 == Lower[job[t].ext]
             m == job[t].type
  <2>1. /\ pc[t] = "append" /\ UNCHANGED <<mimeTypes, mimeTypesLower, job>>
        /\ extensions' = [extensions EXCEPT ![m.just] = AppendNew(@, l0)]
        /\ \A s \in Threads : pc'[s] \in {"lower", "append"} => pc'[s] = pc[s] /\ s # t
    BY <1>12 DEF AddExtension, AfterSet
  <2>2. /\ l0 \in LowerExts /\ m \in MimeTypes /\ m.just \in JustTypes /\ mimeTypesLower[l0] = Stored(m)
        /\ extensions \in [JustTypes -> Seq(LowerExts)]
    BY <2>1, Basics DEF Job, MapsInv
  <2>3. \A s \in Threads : /\ pc'[s] \notin {"lower", "append"} /\ pc[s] # "lower"
                           /\ pc[s] = "append" <=> s = t
    BY <2>1, Alone DEF Holding
  <2>4. \A j \in JustTypes : /\ IsInjective(extensions'[j])
                             /\ ToSet(extensions[j]) \subseteq ToSet(extensions'[j])
                             /\ j = m.just => l0 \in ToSet(extensions'[j])
    <3> SUFFICES ASSUME NEW j \in JustTypes
                 PROVE  /\ IsInjective(extensions'[j])
                        /\ ToSet(extensions[j]) \subseteq ToSet(extensions'[j])
                        /\ j = m.just => l0 \in ToSet(extensions'[j])
      OBVIOUS
    <3>1. IsInjective(extensions[j]) /\ extensions[j] \in Seq(LowerExts)
      BY <2>2 DEF MapsInv
    <3>2. extensions'[j] = IF j = m.just THEN AppendNew(extensions[j], l0) ELSE extensions[j]
      BY <2>1, <2>2
    <3>3. /\ ToSet(AppendNew(extensions[j], l0)) = ToSet(extensions[j]) \union {l0}
          /\ IsInjective(AppendNew(extensions[j], l0))
      BY <2>2, <3>1, AppendNewProperties
    <3> QED
      BY <3>1, <3>2, <3>3
  <2>5. ASSUME NEW l \in LowerExts, mimeTypesLower[l] # Nothing
        PROVE  l \in ToSet(extensions'[mimeTypesLower[l].just])
    <3>1. mimeTypesLower[l].just \in JustTypes
      BY <2>5, Basics
    <3>2. CASE l = l0
      BY <2>2, <2>4, <2>5, <3>2, Basics
    <3>3. CASE l # l0
      <4>1. l \in ToSet(extensions[mimeTypesLower[l].just])
        BY <2>3, <2>5, <3>3 DEF MapsInv
      <4> QED
        BY <2>4, <3>1, <4>1
    <3> QED
      BY <3>2, <3>3
  <2>6. \A l \in LowerExts : \E d \in Exts : Lower[d] = l /\ mimeTypesLower[l] = mimeTypes[d]
    BY <2>3 DEF MapsInv
  <2> QED
    BY <2>1, <2>3, <2>4, <2>5, <2>6 DEF MapsInv
<1>13. ASSUME NEW t \in Threads, RLock(t) PROVE MapsInv'
  BY <1>13, MapsKept DEF RLock, maps
<1>14. ASSUME NEW t \in Threads, Read(t) PROVE MapsInv'
  BY <1>14, MapsKept DEF Read, maps
<1>15. ASSUME NEW t \in Threads, ReadLower(t) PROVE MapsInv'
  BY <1>15, MapsKept DEF ReadLower, maps
<1>16. ASSUME NEW t \in Threads, Return(t) PROVE MapsInv'
  BY <1>16, MapsKept DEF Return, maps
<1>17. CASE UNCHANGED vars
  BY <1>17 DEF vars, maps, MapsInv
<1> QED
  BY <1>1, <1>2, <1>3, <1>4, <1>5, <1>6, <1>7, <1>8, <1>9, <1>10, <1>11, <1>12, <1>13, <1>14, <1>15,
     <1>16, <1>17 DEF Next, Step, Finished

(* The entry that is being set, and the maps with the part of it that has  *)
(* been set already.                                                       *)
LEMMA TableSteps ==
    ASSUME TypeOK, NEW t \in Threads
    PROVE  /\ Table \in TablesSet
           /\ SetType(t) => Put(Table', job[t].ext, job[t].type) = Put(Table, job[t].ext, job[t].type)
           /\ SetLower(t) => Put(Table', job[t].ext, job[t].type) = Put(Table, job[t].ext, job[t].type)
           /\ MapsInv /\ AddExtension(t) => Table' = Put(Table, job[t].ext, job[t].type)
           /\ SetMimeTypes(t) => Table' = BuiltinTable
<1> DEFINE e == job[t].ext
           m == job[t].type
           lists == [j \in JustTypes |-> ToSet(extensions[j])]
<1>1. e \in Exts /\ m \in MimeTypes
  BY DEF TypeOK, Job
<1>2. lists \in [JustTypes -> SUBSET LowerExts]
  <2> SUFFICES ASSUME NEW j \in JustTypes PROVE ToSet(extensions[j]) \in SUBSET LowerExts
    OBVIOUS
  <2>1. extensions[j] \in Seq(LowerExts)
    BY DEF TypeOK
  <2> QED
    BY <2>1, LenProperties, ElementOfSeq DEF ToSet
<1>3. Table = [types |-> mimeTypes, lower |-> mimeTypesLower, lists |-> lists] /\ Table \in TablesSet
  BY <1>2 DEF Table, TablesSet, TypeOK
<1>4. mimeTypes \in [Exts -> Values] /\ mimeTypesLower \in [LowerExts -> Values]
  BY DEF TypeOK
<1>a. /\ Put([types |-> [mimeTypes EXCEPT ![e] = Stored(m)], lower |-> mimeTypesLower, lists |-> lists], e, m)
         = Put([types |-> mimeTypes, lower |-> mimeTypesLower, lists |-> lists], e, m)
      /\ Put([types |-> mimeTypes, lower |-> [mimeTypesLower EXCEPT ![Lower[e]] = Stored(m)], lists |-> lists], e, m)
         = Put([types |-> mimeTypes, lower |-> mimeTypesLower, lists |-> lists], e, m)
      /\ mimeTypes[e] = Stored(m) /\ mimeTypesLower[Lower[e]] = Stored(m) =>
         Put([types |-> mimeTypes, lower |-> mimeTypesLower, lists |-> lists], e, m)
         = [types |-> mimeTypes, lower |-> mimeTypesLower, lists |-> [lists EXCEPT ![m.just] = @ \union {Lower[e]}]]
  <2> HIDE DEF e, m, lists
  <2>1. [[mimeTypes EXCEPT ![e] = Stored(m)] EXCEPT ![e] = Stored(m)] = [mimeTypes EXCEPT ![e] = Stored(m)]
    BY <1>1, <1>4
  <2>2. [[mimeTypesLower EXCEPT ![Lower[e]] = Stored(m)] EXCEPT ![Lower[e]] = Stored(m)]
        = [mimeTypesLower EXCEPT ![Lower[e]] = Stored(m)]
    BY <1>1, <1>4
  <2>3. mimeTypes[e] = Stored(m) => [mimeTypes EXCEPT ![e] = Stored(m)] = mimeTypes
    BY <1>1, <1>4
  <2>4. mimeTypesLower[Lower[e]] = Stored(m) => [mimeTypesLower EXCEPT ![Lower[e]] = Stored(m)] = mimeTypesLower
    BY <1>1, <1>4
  <2> QED
    BY <2>1, <2>2, <2>3, <2>4 DEF Put
<1>5. ASSUME SetType(t) PROVE Put(Table', e, m) = Put(Table, e, m)
  <2>1. Table' = [types |-> [mimeTypes EXCEPT ![e] = Stored(m)], lower |-> mimeTypesLower, lists |-> lists]
    BY <1>5 DEF SetType, Table
  <2> QED
    BY <1>3, <1>a, <2>1
<1>6. ASSUME SetLower(t) PROVE Put(Table', e, m) = Put(Table, e, m)
  <2>1. Table' = [types |-> mimeTypes, lower |-> [mimeTypesLower EXCEPT ![Lower[e]] = Stored(m)], lists |-> lists]
    BY <1>6 DEF SetLower, Table
  <2> QED
    BY <1>3, <1>a, <2>1
<1>7. ASSUME MapsInv, AddExtension(t) PROVE Table' = Put(Table, e, m)
  <2>1. mimeTypes[e] = Stored(m) /\ mimeTypesLower[Lower[e]] = Stored(m)
    BY <1>7 DEF AddExtension, MapsInv
  <2>2. Put(Table, e, m) = [types |-> mimeTypes, lower |-> mimeTypesLower,
                            lists |-> [lists EXCEPT ![m.just] = @ \union {Lower[e]}]]
    BY <1>3, <1>a, <2>1
  <2>3. [j \in JustTypes |-> ToSet(extensions'[j])] = [lists EXCEPT ![m.just] = @ \union {Lower[e]}]
    <3>1. m.just \in JustTypes /\ Lower[e] \in LowerExts
      BY <1>1, Basics
    <3>2. /\ extensions \in [JustTypes -> Seq(LowerExts)]
          /\ extensions' = [extensions EXCEPT ![m.just] = AppendNew(@, Lower[e])]
      BY <1>7 DEF AddExtension, TypeOK
    <3>3. ToSet(AppendNew(extensions[m.just], Lower[e])) = ToSet(extensions[m.just]) \union {Lower[e]}
      BY <3>1, <3>2, AppendNewProperties
    <3>4. ASSUME NEW j \in JustTypes
          PROVE  ToSet(extensions'[j]) = [lists EXCEPT ![m.just] = @ \union {Lower[e]}][j]
      <4>1. extensions'[j] = IF j = m.just THEN AppendNew(extensions[j], Lower[e]) ELSE extensions[j]
        BY <3>1, <3>2
      <4>2. [lists EXCEPT ![m.just] = @ \union {Lower[e]}][j]
            = IF j = m.just THEN ToSet(extensions[j]) \union {Lower[e]} ELSE ToSet(extensions[j])
        BY <3>1
      <4> QED
        BY <3>3, <4>1, <4>2
    <3> QED
      BY <3>4
  <2>4. Table' = [types |-> mimeTypes, lower |-> mimeTypesLower, lists |-> [j \in JustTypes |-> ToSet(extensions'[j])]]
    BY <1>7 DEF AddExtension, Table
  <2> QED
    BY <2>2, <2>3, <2>4
<1>8. ASSUME SetMimeTypes(t) PROVE Table' = BuiltinTable
  <2>1. /\ mimeTypes' = BuiltinTypes /\ mimeTypesLower' = BuiltinTable.lower
        /\ \A j \in JustTypes : ToSet(extensions'[j]) = BuiltinLists[j]
    BY <1>8, SetProperties
  <2>2. [j \in JustTypes |-> ToSet(extensions'[j])] = BuiltinLists
    BY <2>1 DEF BuiltinLists
  <2> QED
    BY <2>1, <2>2 DEF Table, BuiltinTable
<1> QED
  BY <1>3, <1>5, <1>6, <1>7, <1>8

(* The fifth: how far initMime has come. *)
LEMMA LoadStep == TypeOK /\ OnceInv /\ LockInv /\ CallInv /\ MapsInv /\ LoadInv /\ [Next]_vars => LoadInv'
<1> SUFFICES ASSUME TypeOK, OnceInv, LockInv, CallInv, MapsInv, LoadInv, [Next]_vars PROVE LoadInv'
  OBVIOUS
<1> USE DEF Go, Says, maps
<1>0. /\ files.entries \in Seq([ext : Exts, type : MimeTypes]) /\ Len(files.entries) \in Nat
  BY LenProperties DEF TypeOK
<1>1. ASSUME NEW t \in Threads, Call(t) PROVE LoadInv'
  BY <1>1 DEF Call, Table, TypeOK, LoadInv, OnceInv, CallInv, Outside, Setters, Readers
<1>2. ASSUME NEW t \in Threads, Enter(t) PROVE LoadInv'
  <2>1. \A s \in Threads : pc'[s] = pc[s] \/ pc'[s] \in Outside
    BY <1>2 DEF Enter, TypeOK, Outside
  <2>2. UNCHANGED <<job, files, entry, once>> /\ Table' = Table
    BY <1>2 DEF Enter, Table
  <2> QED
    BY <2>1, <2>2 DEF LoadInv, Outside, Setters
<1>3. ASSUME NEW t \in Threads, OnceFirst(t) PROVE LoadInv'
  <2>1. entry = 1 /\ UNCHANGED <<files, entry>> /\ once' = "running"
    BY <1>3 DEF OnceFirst, OnceInv
  <2>2. \A s \in Threads : pc'[s] \in Outside \union {"set"}
    BY <1>3 DEF OnceFirst, OnceInv, TypeOK, Outside
  <2> QED
    BY <2>1, <2>2 DEF LoadInv, Outside, Setters
<1>4. ASSUME NEW t \in Threads, OnceDone(t) PROVE LoadInv'
  BY <1>4 DEF OnceDone, Table, TypeOK, LoadInv, OnceInv, CallInv, Outside, Setters, Readers, AfterOnce, TheJob
<1>5. ASSUME NEW t \in Threads, SetMimeTypes(t) PROVE LoadInv'
  <2>1. /\ once = "running" /\ pc[t] = "set" /\ pc'[t] = "load" /\ entry = 1 /\ UNCHANGED <<files, entry>>
        /\ \A s \in Threads \ {t} : pc'[s] \in Outside
    BY <1>5 DEF SetMimeTypes, OnceInv, Outside, Setters, LoadInv, TypeOK
  <2>2. Table' = TablesOf(files.entries)[entry - 1]
    <3>1. entry - 1 = 0 /\ Table' = BuiltinTable
      BY <1>5, <2>1, TableSteps
    <3>2. TablesOf(files.entries)[0] = BuiltinTable
      BY <1>0, TablesUnfold
    <3> QED
      BY <3>1, <3>2
  <2> QED
    BY <2>1, <2>2 DEF LoadInv, Outside, Setters
<1>6. ASSUME NEW t \in Threads, LoadEntry(t) PROVE LoadInv'
  <2>1. /\ once = "running" /\ pc[t] = "load" /\ pc'[t] = "parse" /\ entry' = entry + 1 /\ UNCHANGED files
        /\ job'[t] = files.entries[entry] /\ Table' = Table
        /\ \A s \in Threads \ {t} : pc'[s] \in Outside
    BY <1>6 DEF LoadEntry, OnceInv, Outside, Setters, TypeOK, Table
  <2>2. entry \in Nat /\ entry > 0 /\ entry' - 1 = entry /\ entry' - 2 = entry - 1
    BY <1>0, <2>1 DEF TypeOK
  <2> QED
    BY <2>1, <2>2 DEF LoadInv, Outside, Setters
<1>7. ASSUME NEW t \in Threads, LoadEnd(t) PROVE LoadInv'
  BY <1>7 DEF LoadEnd, Table, TypeOK, LoadInv, OnceInv, CallInv, Outside, Setters, Readers, AfterOnce, TheJob
<1>8. ASSUME NEW t \in Threads, Parse(t) PROVE LoadInv'
  <2>1. CASE once # "running"
    BY <1>8, <2>1 DEF Parse, LoadInv
  <2>2. CASE once = "running"
    <3>1. /\ pc[t] = "parse" /\ \A s \in Threads \ {t} : pc'[s] \in Outside
          /\ pc'[t] = IF job[t].type.clean THEN "lock" ELSE "load"
          /\ UNCHANGED <<job, files, entry, once>> /\ Table' = Table
      BY <1>8, <2>2 DEF Parse, Table, OnceInv, Outside, Setters, TypeOK
    <3>2. ~job[t].type.clean => TablesOf(files.entries)[entry - 1] = TablesOf(files.entries)[entry - 2]
      <4>1. entry - 1 \in 1 .. Len(files.entries) /\ job[t] = files.entries[entry - 1]
        BY <1>0, <2>2, <3>1 DEF LoadInv, Setters, TypeOK
      <4>2. TablesOf(files.entries)[entry - 1] = WithEntry(TablesOf(files.entries)[(entry - 1) - 1], files.entries[entry - 1])
        BY <1>0, <4>1, TablesUnfold
      <4>3. (entry - 1) - 1 = entry - 2
        BY <1>0, <4>1 DEF TypeOK
      <4> QED
        BY <4>1, <4>2, <4>3 DEF WithEntry
    <3> QED
      BY <2>2, <3>1, <3>2 DEF LoadInv, Setters, Outside
  <2> QED
    BY <2>1, <2>2
<1>9. ASSUME NEW t \in Threads, Lock(t) PROVE LoadInv'
  BY <1>9 DEF Lock, Table, TypeOK, LoadInv, OnceInv, Outside, Setters
<1>10. ASSUME NEW t \in Threads, SetType(t) PROVE LoadInv'
  <2>1. CASE once # "running"
    BY <1>10, <2>1 DEF SetType, LoadInv
  <2>2. CASE once = "running"
    <3>1. /\ pc[t] = "drain" /\ pc'[t] = "lower" /\ UNCHANGED <<job, files, entry>>
          /\ \A s \in Threads \ {t} : pc'[s] \in Outside
      BY <1>10, <2>2 DEF SetType, OnceInv, Outside, Setters, TypeOK
    <3>2. Put(Table', job'[t].ext, job'[t].type) = Put(Table, job[t].ext, job[t].type)
      BY <1>10, <3>1, TableSteps
    <3>3. Put(Table, job[t].ext, job[t].type) = TablesOf(files.entries)[entry - 1]
      <4>1. /\ entry - 1 \in 1 .. Len(files.entries) /\ job[t] = files.entries[entry - 1]
            /\ Table = TablesOf(files.entries)[entry - 2] /\ job[t].type.clean
        BY <1>0, <2>2, <3>1 DEF LoadInv, CallInv, Setters, TypeOK
      <4>2. TablesOf(files.entries)[entry - 1] = WithEntry(TablesOf(files.entries)[(entry - 1) - 1], files.entries[entry - 1])
        BY <1>0, <4>1, TablesUnfold
      <4>3. (entry - 1) - 1 = entry - 2
        BY <1>0, <4>1 DEF TypeOK
      <4> QED
        BY <4>1, <4>2, <4>3 DEF WithEntry
    <3> QED
      BY <2>2, <3>1, <3>2, <3>3 DEF LoadInv, Setters, Outside
  <2> QED
    BY <2>1, <2>2
<1>11. ASSUME NEW t \in Threads, SetLower(t) PROVE LoadInv'
  <2>1. CASE once # "running"
    BY <1>11, <2>1 DEF SetLower, LoadInv
  <2>2. CASE once = "running"
    <3>1. /\ pc[t] = "lower" /\ pc'[t] = "append" /\ UNCHANGED <<job, files, entry>>
          /\ \A s \in Threads \ {t} : pc'[s] \in Outside
      BY <1>11, <2>2 DEF SetLower, OnceInv, Outside, Setters, TypeOK
    <3>2. Put(Table', job'[t].ext, job'[t].type) = Put(Table, job[t].ext, job[t].type)
      BY <1>11, <3>1, TableSteps
    <3> QED
      BY <2>2, <3>1, <3>2 DEF LoadInv, Setters, Outside
  <2> QED
    BY <2>1, <2>2
<1>12. ASSUME NEW t \in Threads, AddExtension(t) PROVE LoadInv'
  <2>1. CASE once # "running"
    BY <1>12, <2>1 DEF AddExtension, LoadInv
  <2>2. CASE once = "running"
    <3>1. /\ pc[t] = "append" /\ pc'[t] = "load" /\ UNCHANGED <<job, files, entry>>
          /\ \A s \in Threads \ {t} : pc'[s] \in Outside
      BY <1>12, <2>2 DEF AddExtension, AfterSet, OnceInv, Outside, Setters, TypeOK
    <3>2. Table' = Put(Table, job[t].ext, job[t].type)
      BY <1>12, TableSteps
    <3> QED
      BY <2>2, <3>1, <3>2 DEF LoadInv, Setters, Outside
  <2> QED
    BY <2>1, <2>2
<1>13. ASSUME NEW t \in Threads, RLock(t) PROVE LoadInv'
  BY <1>13 DEF RLock, Table, TypeOK, LoadInv, OnceInv, CallInv, Outside, Setters, Readers
<1>14. ASSUME NEW t \in Threads, Read(t) PROVE LoadInv'
  BY <1>14 DEF Read, Table, TypeOK, LoadInv, OnceInv, CallInv, Outside, Setters, Readers
<1>15. ASSUME NEW t \in Threads, ReadLower(t) PROVE LoadInv'
  BY <1>15 DEF ReadLower, Table, TypeOK, LoadInv, OnceInv, CallInv, Outside, Setters, Readers
<1>16. ASSUME NEW t \in Threads, Return(t) PROVE LoadInv'
  BY <1>16 DEF Return, Table, TypeOK, LoadInv, OnceInv, CallInv, Outside, Setters, Readers
<1>17. CASE UNCHANGED vars
  BY <1>17 DEF vars, maps, Table, LoadInv
<1> QED
  BY <1>1, <1>2, <1>3, <1>4, <1>5, <1>6, <1>7, <1>8, <1>9, <1>10, <1>11, <1>12, <1>13, <1>14, <1>15,
     <1>16, <1>17 DEF Next, Step, Finished

-----------------------------------------------------------------------------
LEMMA InitOK == Init => IInv
<1> SUFFICES ASSUME Init PROVE IInv
  OBVIOUS
<1>1. OnceInv
  BY DEF Init, OnceInv, Outside
<1>2. LockInv
  BY DEF Init, LockInv, Reading, Holding
<1>3. CallInv
  BY DEF Init, CallInv, Setters, Readers
<1>4. MapsInv
  <2>1. ASSUME NEW l \in LowerExts PROVE \E e \in Exts : Lower[e] = l /\ mimeTypesLower[l] = mimeTypes[e]
    BY Basics DEF Init
  <2>2. \A j \in JustTypes : IsInjective(extensions[j])
    BY DEF Init, IsInjective
  <2>3. \A l \in LowerExts : mimeTypesLower[l] = Nothing
    BY DEF Init
  <2> QED
    BY <2>1, <2>2, <2>3 DEF Init, MapsInv
<1>5. LoadInv
  BY DEF Init, LoadInv
<1> QED
  BY <1>1, <1>2, <1>3, <1>4, <1>5, TypeInit DEF IInv

LEMMA StepOK == IInv /\ [Next]_vars => IInv'
BY TypeStep, OnceStep, LockStep, CallStep, MapsStep, LoadStep DEF IInv

(* The invariant holds in every state, whatever the goroutines do.         *)
LEMMA Inductive == Spec => []IInv
<1>1. Init => IInv
  BY InitOK
<1>2. IInv /\ [Next]_vars => IInv'
  BY StepOK
<1> QED
  BY <1>1, <1>2, PTL DEF Spec

(* What the maps, the lock and the goroutines hold has its type: the maps  *)
(* hold types that were given, an index of the files is never out of       *)
(* range, and the lock is held by one goroutine or none.                   *)
THEOREM TypeCorrect == Spec => []TypeOK
<1>1. IInv => TypeOK
  BY DEF IInv
<1> QED
  BY <1>1, Inductive, PTL

(* Only one goroutine is between Lock and Unlock, and it is the holder of  *)
(* the lock; who writes a map holds it, or is alone past once.Do, where    *)
(* all others are outside while initMime runs.                             *)
Exclusive ==
    /\ \A t \in Threads : pc[t] \in Holding => holder = {t}
    /\ \A t \in Threads : Writing(t) =>
          \/ holder = {t}
          \/ once = "running" /\ \A s \in Threads \ {t} : pc[s] \in Outside

(* Lock and once each let one goroutine in, whatever the scheduler does.   *)
THEOREM MutualExclusion == Spec => []Exclusive
<1>1. IInv => Exclusive
  <2> SUFFICES ASSUME IInv PROVE Exclusive
    OBVIOUS
  <2>1. ASSUME NEW t \in Threads, pc[t] \in Holding PROVE holder = {t}
    <3>1. t \in holder /\ holder \in {{}} \union { {s} : s \in Threads }
      BY <2>1 DEF IInv, LockInv, TypeOK
    <3> QED
      BY <3>1
  <2>2. ASSUME NEW t \in Threads, pc[t] = "set"
        PROVE  once = "running" /\ \A s \in Threads \ {t} : pc[s] \in Outside
    <3>1. once = "running"
      BY <2>2 DEF IInv, TypeOK, OnceInv, Outside
    <3> QED
      BY <2>2, <3>1 DEF IInv, OnceInv, Outside
  <2>3. \A t \in Threads : Writing(t) => pc[t] = "set" \/ pc[t] \in Holding
    BY DEF Writing, Holding
  <2> QED
    BY <2>1, <2>2, <2>3 DEF Exclusive
<1> QED
  BY <1>1, Inductive, PTL

(* No map is read or written while another goroutine writes one, although  *)
(* initMime fills them without the lock: once keeps the others out.        *)
THEOREM RaceFree == Spec => []NoRace
<1>1. IInv => NoRace
  <2> SUFFICES ASSUME IInv, NEW s \in Threads, NEW t \in Threads, s # t, Writing(s)
               PROVE  ~Writing(t) /\ ~Reading(t)
    BY DEF NoRace
  <2>1. CASE pc[s] = "set" \/ pc[t] = "set"
    <3>1. once = "running"
      BY <2>1 DEF IInv, TypeOK, OnceInv, Outside
    <3> QED
      BY <2>1, <3>1 DEF IInv, OnceInv, Outside, Writing, Reading
  <2>2. CASE pc[s] # "set" /\ pc[t] # "set"
    <3>1. pc[s] \in {"lower", "append"} /\ pc[s] \in Holding
      BY <2>2 DEF Writing, Holding
    <3>2. pc[t] \notin Holding
      BY <3>1, Alone DEF IInv
    <3>3. ~Reading(t)
      BY <3>1 DEF IInv, LockInv
    <3> QED
      BY <2>2, <3>2, <3>3 DEF Writing, Holding
  <2> QED
    BY <2>1, <2>2
<1> QED
  BY <1>1, Inductive, PTL

(* Whenever the maps may be read, the three of them agree: an extension    *)
(* with a type in the lower-case map is listed under it, once, and what    *)
(* that map holds, a type or nothing, mimeTypes holds for some spelling.   *)
THEOREM MapsAgree == Spec => []ListsAgree
<1>1. IInv => ListsAgree
  <2> SUFFICES ASSUME IInv, Current PROVE
        /\ \A l \in LowerExts : mimeTypesLower[l] # Nothing => Contains(extensions[mimeTypesLower[l].just], l)
        /\ \A j \in JustTypes : IsInjective(extensions[j])
        /\ \A l \in LowerExts : mimeTypesLower[l] \in { mimeTypes[e] : e \in { e \in Exts : Lower[e] = l } }
    BY DEF ListsAgree
  <2>1. \A t \in Threads : pc[t] \notin {"lower", "append"}
    BY DEF Current, Writing
  <2>2. ASSUME NEW l \in LowerExts, mimeTypesLower[l] # Nothing
        PROVE  Contains(extensions[mimeTypesLower[l].just], l)
    <3> DEFINE list == extensions[mimeTypesLower[l].just]
    <3>1. mimeTypesLower[l] \in Values /\ mimeTypesLower[l].just \in JustTypes
      BY <2>2, Basics DEF IInv, TypeOK
    <3>2. list \in Seq(LowerExts)
      BY <3>1 DEF IInv, TypeOK
    <3>3. l \in ToSet(list)
      BY <2>1, <2>2 DEF IInv, MapsInv
    <3>4. Len(list) \in Nat /\ DOMAIN list = 1 .. Len(list)
      BY <3>2, LenProperties
    <3> HIDE DEF list
    <3>5. Contains(list, l)
      BY <3>3, <3>4 DEF ToSet, Contains
    <3> QED
      BY <3>5 DEF list
  <2>3. ASSUME NEW l \in LowerExts
        PROVE  mimeTypesLower[l] \in { mimeTypes[e] : e \in { e \in Exts : Lower[e] = l } }
    BY <2>1 DEF IInv, MapsInv
  <2>4. \A j \in JustTypes : IsInjective(extensions[j])
    BY DEF IInv, MapsInv
  <2> QED
    BY <2>2, <2>3, <2>4
<1> QED
  BY <1>1, Inductive, PTL

-----------------------------------------------------------------------------
(* The tables of Registry are the ones of TypeRegistry. *)
LEMMA SameTables ==
    /\ Abstract!Nothing = Nothing /\ Abstract!Calls = Calls
    /\ \A k : Abstract!Plain(k) = Plain(k)
    /\ \A k, v, x : Abstract!Answer(k, v, x) = Answer(k, v, x)
    /\ \A c : Abstract!Refused(c) <=> Refused(c)
    /\ \A table, e : Abstract!LookUp(table, e) = LookUp(table, e)
    /\ \A table, e, m : Abstract!Put(table, e, m) = Put(table, e, m)
    /\ \A entries : Abstract!Loaded(entries) = Loaded(entries)
<1>1. Abstract!Nothing = Nothing /\ Abstract!LowerExts = LowerExts /\ Abstract!JustTypes = JustTypes
  BY DEF Nothing, Abstract!Nothing, LowerExts, Abstract!LowerExts, JustTypes, Abstract!JustTypes
<1>2. Abstract!Calls = Calls
  BY Zenon DEF Calls, Abstract!Calls, Nothing, Abstract!Nothing
<1>3. \A k, v, x : Abstract!Answer(k, v, x) = Answer(k, v, x)
  BY DEF Answer, Abstract!Answer
<1>4. \A k : Abstract!Plain(k) = Plain(k)
  BY <1>1, <1>3 DEF Plain, Abstract!Plain
<1>5. \A c : Abstract!Refused(c) <=> Refused(c)
  BY DEF Refused, Abstract!Refused
<1>6. \A table, e : Abstract!LookUp(table, e) = LookUp(table, e)
  BY <1>1 DEF LookUp, Abstract!LookUp
<1>7. \A m : Abstract!Stored(m) = Stored(m)
  BY <1>1 DEF Stored, Abstract!Stored
<1>8. \A table, e, m : Abstract!Put(table, e, m) = Put(table, e, m)
  BY <1>7 DEF Put, Abstract!Put
<1>9. \A entries : Abstract!Loaded(entries) = Loaded(entries)
  BY Zenon DEF Loaded, TablesOf, WithEntry, Put, Stored, BuiltinTable, BuiltinTypes, BuiltinLists,
               Nothing, LowerExts, JustTypes,
               Abstract!Loaded, Abstract!TablesOf, Abstract!WithEntry, Abstract!Put, Abstract!Stored,
               Abstract!BuiltinTable, Abstract!BuiltinTypes, Abstract!BuiltinLists,
               Abstract!Nothing, Abstract!LowerExts, Abstract!JustTypes
<1> QED
  BY <1>1, <1>2, <1>3, <1>4, <1>5, <1>6, <1>8, <1>9

(* The table that callers see. *)
SeenIs ==
    /\ once # "done" => Seen = Loaded(files.entries)
    /\ once = "done" /\ (\A t \in Threads : pc[t] \notin {"lower", "append"}) => Seen = Table
    /\ \A t \in Threads : once = "done" /\ pc[t] \in {"lower", "append"} =>
          Seen = Put(Table, job[t].ext, job[t].type)

LEMMA SeenOK == IInv => SeenIs
<1> SUFFICES ASSUME IInv PROVE SeenIs
  OBVIOUS
<1>1. once # "done" => Seen = Loaded(files.entries)
  BY DEF Seen
<1>2. once = "done" /\ (\A t \in Threads : pc[t] \notin {"lower", "append"}) => Seen = Table
  BY DEF Seen, Setting
<1>3. ASSUME NEW t \in Threads, once = "done", pc[t] \in {"lower", "append"}
      PROVE  Seen = Put(Table, job[t].ext, job[t].type)
  <2>1. Setting = {t}
    BY <1>3, Alone DEF IInv, Setting, Holding
  <2>2. (CHOOSE s \in Setting : TRUE) = t
    BY <2>1
  <2> QED
    BY <1>3, <2>1, <2>2 DEF Seen
<1> QED
  BY <1>1, <1>2, <1>3 DEF SeenIs

LEMMA SeenNext == IInv' => SeenIs'
BY SeenOK, PTL

Phases == [t \in Threads |-> Phase(t)]

(* A step of Registry, or none. *)
AbsStep == [Abstract!Next]_<<Seen, (once = "done"), call, Phases, answer, files>>
Stutter == UNCHANGED <<Seen, (once = "done"), call, Phases, answer, files>>

(* Steps that leave the table alone that callers see. *)
LEMMA SeenKept ==
    ASSUME IInv, IInv', UNCHANGED <<maps, files, (once = "done")>>,
           \A t \in Threads : /\ pc'[t] \in {"lower", "append"} <=> pc[t] \in {"lower", "append"}
                              /\ pc[t] \in {"lower", "append"} => job'[t] = job[t]
    PROVE  Seen' = Seen
<1>0. Table' = Table
  BY DEF Table, maps
<1>1. CASE once # "done"
  BY <1>1, SeenOK, SeenNext DEF SeenIs
<1>2. CASE once = "done" /\ \A t \in Threads : pc[t] \notin {"lower", "append"}
  BY <1>0, <1>2, SeenOK, SeenNext DEF SeenIs
<1>3. CASE once = "done" /\ \E t \in Threads : pc[t] \in {"lower", "append"}
  <2>1. PICK t \in Threads : pc[t] \in {"lower", "append"}
    BY <1>3
  <2>2. pc'[t] \in {"lower", "append"} /\ job'[t] = job[t] /\ once' = "done"
    BY <1>3, <2>1
  <2> QED
    BY <1>0, <1>3, <2>1, <2>2, SeenOK, SeenNext DEF SeenIs
<1> QED
  BY <1>1, <1>2, <1>3

(* The places of a call, as Registry tells them apart. *)
LEMMA PhaseIs ==
    ASSUME NEW t \in Threads
    PROVE  /\ pc[t] = "idle" => Phase(t) = "idle"
           /\ pc[t] = "return" => Phase(t) = "performed"
           /\ once = "done" /\ pc[t] \in {"lower", "append"} => Phase(t) = "performed"
           /\ pc[t] \notin {"idle", "return"} /\ (pc[t] \notin {"lower", "append"} \/ once # "done") =>
                 Phase(t) = "asked"
BY DEF Phase, Setting

LEMMA PhaseNext ==
    ASSUME NEW t \in Threads
    PROVE  /\ pc'[t] = "idle" => Phase(t)' = "idle"
           /\ pc'[t] = "return" => Phase(t)' = "performed"
           /\ once' = "done" /\ pc'[t] \in {"lower", "append"} => Phase(t)' = "performed"
           /\ pc'[t] \notin {"idle", "return"} /\ (pc'[t] \notin {"lower", "append"} \/ once' # "done") =>
                 Phase(t)' = "asked"
BY DEF Phase, Setting

(* A step of one goroutine moves the others no further. *)
LEMMA OnePhase ==
    ASSUME NEW t \in Threads, TypeOK, TypeOK',
           \A s \in Threads \ {t} : /\ (pc'[s] = pc[s] \/ (pc[s] = "rwait" /\ pc'[s] = "read"))
                                    /\ ((once' = "done" <=> once = "done") \/ (pc[s] \in Outside /\ pc'[s] = pc[s]))
    PROVE  /\ Phases' = [Phases EXCEPT ![t] = Phase(t)']
           /\ Phase(t)' = Phase(t) => Phases' = Phases
<1>1. ASSUME NEW s \in Threads \ {t} PROVE Phase(s)' = Phase(s)
  BY <1>1 DEF Phase, Setting, Outside
<1> QED
  BY <1>1 DEF Phases

(* Every step of the code is a step of Registry, or none: a lookup takes   *)
(* effect with its last read, an addition when it begins to set, initMime  *)
(* when once is done.                                                      *)
LEMMA StepRefines == IInv /\ IInv' /\ [Next]_vars => AbsStep
<1> SUFFICES ASSUME IInv, IInv', [Next]_vars PROVE AbsStep
  OBVIOUS
<1> USE DEF Go, Says, maps
<1>a. TypeOK /\ TypeOK' /\ OnceInv /\ OnceInv' /\ LockInv /\ CallInv /\ SeenIs /\ SeenIs'
  BY SeenOK, SeenNext DEF IInv
<1>b. Stutter => AbsStep
  BY DEF Stutter, AbsStep
<1>c. \A t \in Threads : Phases[t] = Phase(t)
  BY DEF Phases
<1>1. ASSUME NEW t \in Threads, Call(t) PROVE AbsStep
  <2>1. Seen' = Seen
    BY <1>1, <1>a, SeenKept DEF Call, TypeOK
  <2>2. pc[t] = "idle" /\ pc'[t] = "enter" /\ \A s \in Threads \ {t} : pc'[s] = pc[s]
    BY <1>1, <1>a DEF Call, TypeOK
  <2>3. Phases[t] = "idle" /\ Phases' = [Phases EXCEPT ![t] = "asked"]
    BY <1>1, <1>a, <1>c, <2>2, PhaseIs, PhaseNext, OnePhase DEF Call
  <2>4. call'[t] \in Calls /\ call' = [call EXCEPT ![t] = call'[t]]
    BY <1>1, <1>a DEF Call, TypeOK
  <2>5. answer' = [answer EXCEPT ![t] = Plain("none")] /\ UNCHANGED <<once, files>>
    BY <1>1 DEF Call
  <2>6. Abstract!Ask(t)
    BY <2>1, <2>3, <2>4, <2>5, SameTables DEF Abstract!Ask, Phases
  <2> QED
    BY <2>6 DEF AbsStep, Abstract!Next
<1>2. ASSUME NEW t \in Threads, Enter(t) PROVE AbsStep
  <2>1. Seen' = Seen
    BY <1>2, <1>a, SeenKept DEF Enter, TypeOK
  <2>2. CASE RefusedAtOnce(call[t])
    <3>1. pc[t] = "enter" /\ pc'[t] = "return" /\ \A s \in Threads \ {t} : pc'[s] = pc[s]
      BY <1>2, <1>a, <2>2 DEF Enter, TypeOK
    <3>2. Phases[t] = "asked" /\ Phases' = [Phases EXCEPT ![t] = "performed"]
      BY <1>2, <1>a, <1>c, <3>1, PhaseIs, PhaseNext, OnePhase DEF Enter
    <3>3. Refused(call[t]) /\ answer' = [answer EXCEPT ![t] = Plain("error")] /\ UNCHANGED <<once, call, files>>
      BY <1>2, <2>2 DEF Enter, RefusedAtOnce
    <3>4. Abstract!Refuse(t)
      BY <2>1, <3>2, <3>3, SameTables DEF Abstract!Refuse, Abstract!Perform, Phases
    <3> QED
      BY <3>4 DEF AbsStep, Abstract!Next
  <2>3. CASE ~RefusedAtOnce(call[t])
    <3>1. pc[t] = "enter" /\ pc'[t] = "once" /\ \A s \in Threads \ {t} : pc'[s] = pc[s]
      BY <1>2, <1>a, <2>3 DEF Enter, TypeOK
    <3>2. Phases' = Phases
      BY <1>2, <1>a, <3>1, PhaseIs, PhaseNext, OnePhase DEF Enter
    <3> QED
      BY <1>2, <1>b, <2>1, <2>3, <3>2 DEF Enter, Stutter
  <2> QED
    BY <2>2, <2>3
<1>3. ASSUME NEW t \in Threads, OnceFirst(t) PROVE AbsStep
  <2>1. Seen' = Seen
    BY <1>3, <1>a, SeenKept DEF OnceFirst, TypeOK
  <2>2. Phases' = Phases
    BY <1>3, <1>a, PhaseIs, PhaseNext, OnePhase DEF OnceFirst, TypeOK
  <2> QED
    BY <1>3, <1>b, <2>1, <2>2 DEF OnceFirst, Stutter
<1>4. ASSUME NEW t \in Threads, OnceDone(t) PROVE AbsStep
  <2>1. Seen' = Seen
    BY <1>4, <1>a, SeenKept DEF OnceDone, TypeOK, AfterOnce
  <2>2. Phases' = Phases
    BY <1>4, <1>a, PhaseIs, PhaseNext, OnePhase DEF OnceDone, TypeOK, AfterOnce
  <2> QED
    BY <1>4, <1>b, <2>1, <2>2 DEF OnceDone, Stutter
<1>5. ASSUME NEW t \in Threads, SetMimeTypes(t) PROVE AbsStep
  <2>1. Seen' = Seen
    <3>1. once # "done" /\ UNCHANGED <<once, files>>
      BY <1>5, <1>a DEF SetMimeTypes, OnceInv
    <3> QED
      BY <3>1, <1>a DEF SeenIs
  <2>2. Phases' = Phases
    BY <1>5, <1>a, PhaseIs, PhaseNext, OnePhase DEF SetMimeTypes, TypeOK
  <2> QED
    BY <1>5, <1>b, <2>1, <2>2 DEF SetMimeTypes, Stutter
<1>6. ASSUME NEW t \in Threads, LoadEntry(t) PROVE AbsStep
  <2>1. Seen' = Seen
    BY <1>6, <1>a, SeenKept DEF LoadEntry, TypeOK
  <2>2. Phases' = Phases
    BY <1>6, <1>a, PhaseIs, PhaseNext, OnePhase DEF LoadEntry, TypeOK
  <2> QED
    BY <1>6, <1>b, <2>1, <2>2 DEF LoadEntry, Stutter
<1>7. ASSUME NEW t \in Threads, LoadEnd(t) PROVE AbsStep
  <2>1. /\ once = "running" /\ once' = "done" /\ pc[t] = "load" /\ UNCHANGED <<maps, call, files>>
        /\ \A s \in Threads \ {t} : pc[s] \in Outside /\ pc'[s] = pc[s]
        /\ pc'[t] \in {"return", "parse", "rlock"}
        /\ pc'[t] = "return" <=> files.fails
    BY SMTT(30), <1>7, <1>a DEF LoadEnd, AfterOnce, TypeOK, OnceInv, Outside
  <2>2. Seen' = Seen
    <3>1. Len(files.entries) \in Nat /\ entry = Len(files.entries) + 1
      BY <1>7, <1>a, LenProperties DEF LoadEnd, TypeOK
    <3>2. Table = TablesOf(files.entries)[entry - 1]
      BY <2>1 DEF IInv, LoadInv
    <3>3. Seen = Loaded(files.entries)
      BY <2>1, <1>a DEF SeenIs
    <3>4. entry - 1 = Len(files.entries)
      BY <3>1
    <3>5. Seen = Table
      BY <3>2, <3>3, <3>4 DEF Loaded
    <3>6. Seen' = Table'
      BY <2>1, <1>a DEF SeenIs, Outside
    <3>7. Table' = Table
      BY <2>1 DEF Table
    <3> QED
      BY <3>5, <3>6, <3>7
  <2>3. CASE files.fails
    <3>1. Phases[t] = "asked" /\ Phases' = [Phases EXCEPT ![t] = "performed"]
      BY <1>a, <1>c, <2>1, <2>3, PhaseIs, PhaseNext, OnePhase
    <3>2. answer' = [answer EXCEPT ![t] = Plain("panic")]
      BY <1>7, <2>3 DEF LoadEnd
    <3>3. Abstract!Panic(t)
      BY <2>1, <2>2, <2>3, <3>1, <3>2, SameTables DEF Abstract!Panic, Abstract!Perform, Phases
    <3> QED
      BY <3>3 DEF AbsStep, Abstract!Next
  <2>4. CASE ~files.fails
    <3>1. Phases' = Phases
      BY <1>a, <2>1, <2>4, PhaseIs, PhaseNext, OnePhase
    <3>2. UNCHANGED answer
      BY <1>7, <2>4 DEF LoadEnd
    <3>3. Abstract!GetReady
      BY <2>1, <2>2, <3>1, <3>2 DEF Abstract!GetReady, Phases
    <3> QED
      BY <3>3 DEF AbsStep, Abstract!Next
  <2> QED
    BY <2>3, <2>4
<1>8. ASSUME NEW t \in Threads, Parse(t) PROVE AbsStep
  <2>1. Seen' = Seen
    BY <1>8, <1>a, SeenKept DEF Parse, TypeOK
  <2>2. CASE ~job[t].type.clean /\ once # "running"
    <3>1. pc[t] = "parse" /\ pc'[t] = "return" /\ \A s \in Threads \ {t} : pc'[s] = pc[s]
      BY <1>8, <1>a, <2>2 DEF Parse, TypeOK
    <3>2. Phases[t] = "asked" /\ Phases' = [Phases EXCEPT ![t] = "performed"]
      BY <1>8, <1>a, <1>c, <3>1, PhaseIs, PhaseNext, OnePhase DEF Parse
    <3>3. once = "done"
      BY <1>a, <2>2, <3>1 DEF TypeOK, OnceInv, Outside
    <3>4. call[t].op = "add" /\ job[t].type = call[t].type
      <4>1. call[t].op = "add" /\ job[t] = [ext |-> call[t].ext, type |-> call[t].type]
        BY <1>a, <3>1, <3>3 DEF CallInv, Setters
      <4> QED
        BY <4>1
    <3>5. Refused(call[t]) /\ answer' = [answer EXCEPT ![t] = Plain("error")] /\ UNCHANGED <<once, call, files>>
      BY <1>8, <2>2, <3>4 DEF Parse, Refused
    <3>6. Abstract!Refuse(t)
      BY <2>1, <3>2, <3>5, SameTables DEF Abstract!Refuse, Abstract!Perform, Phases
    <3> QED
      BY <3>6 DEF AbsStep, Abstract!Next
  <2>3. CASE job[t].type.clean \/ once = "running"
    <3>1. pc[t] = "parse" /\ pc'[t] \in {"lock", "load"} /\ \A s \in Threads \ {t} : pc'[s] = pc[s]
      BY <1>8, <1>a, <2>3 DEF Parse, TypeOK
    <3>2. Phases' = Phases
      BY <1>8, <1>a, <3>1, PhaseIs, PhaseNext, OnePhase DEF Parse
    <3>3. UNCHANGED <<once, call, files, answer>>
      BY <1>8, <2>3 DEF Parse
    <3> QED
      BY <1>b, <2>1, <3>2, <3>3 DEF Stutter
  <2> QED
    BY <2>2, <2>3
<1>9. ASSUME NEW t \in Threads, Lock(t) PROVE AbsStep
  <2>1. Seen' = Seen
    BY <1>9, <1>a, SeenKept DEF Lock, TypeOK
  <2>2. Phases' = Phases
    BY <1>9, <1>a, PhaseIs, PhaseNext, OnePhase DEF Lock, TypeOK
  <2> QED
    BY <1>9, <1>b, <2>1, <2>2 DEF Lock, Stutter
<1>10. ASSUME NEW t \in Threads, SetType(t) PROVE AbsStep
  <2>1. /\ pc[t] = "drain" /\ pc'[t] = "lower" /\ \A s \in Threads \ {t} : pc'[s] = pc[s]
        /\ UNCHANGED <<once, call, job, files>>
    BY <1>10, <1>a DEF SetType, TypeOK
  <2>2. once \in {"running", "done"}
    BY <1>a, <2>1 DEF TypeOK, OnceInv, Outside
  <2>3. CASE once = "running"
    <3>1. Phases' = Phases
      BY <1>a, <2>1, <2>3, PhaseIs, PhaseNext, OnePhase
    <3>2. Seen' = Seen
      BY <1>a, <2>1, <2>3 DEF SeenIs
    <3>3. UNCHANGED answer
      BY <1>10, <2>3 DEF SetType
    <3> QED
      BY <1>b, <2>1, <3>1, <3>2, <3>3 DEF Stutter
  <2>4. CASE once = "done"
    <3>1. Phases[t] = "asked" /\ Phases' = [Phases EXCEPT ![t] = "performed"]
      BY <1>a, <1>c, <2>1, <2>4, PhaseIs, PhaseNext, OnePhase
    <3>2. \A s \in Threads : pc[s] \notin {"lower", "append"}
      BY <1>a, <2>1, Alone DEF Holding
    <3>3. Seen = Table
      BY <1>a, <2>4, <3>2 DEF SeenIs
    <3>4. Seen' = Put(Table', job'[t].ext, job'[t].type)
      BY <1>a, <2>1, <2>4 DEF SeenIs
    <3>5. Put(Table', job[t].ext, job[t].type) = Put(Table, job[t].ext, job[t].type)
      BY <1>10, <1>a, TableSteps
    <3>6. /\ call[t].op = "add" /\ job[t] = [ext |-> call[t].ext, type |-> call[t].type] /\ job[t].type.clean
          /\ ~RefusedAtOnce(call[t])
      BY <1>a, <2>1, <2>4 DEF CallInv, Setters
    <3>7. ~Refused(call[t])
      BY <3>6 DEF Refused, RefusedAtOnce
    <3>8. Seen' = Put(Seen, call[t].ext, call[t].type)
      BY <2>1, <3>3, <3>4, <3>5, <3>6
    <3>9. answer' = [answer EXCEPT ![t] = Plain("nil")]
      BY <1>10, <2>4 DEF SetType
    <3>10. Abstract!Add(t)
      BY <2>1, <2>4, <3>1, <3>6, <3>7, <3>8, <3>9, SameTables DEF Abstract!Add, Abstract!Perform, Phases
    <3> QED
      BY <3>10 DEF AbsStep, Abstract!Next
  <2> QED
    BY <2>2, <2>3, <2>4
<1>11. ASSUME NEW t \in Threads, SetLower(t) PROVE AbsStep
  <2>1. /\ pc[t] = "lower" /\ pc'[t] = "append" /\ \A s \in Threads \ {t} : pc'[s] = pc[s]
        /\ UNCHANGED <<once, call, job, files, answer>>
    BY <1>11, <1>a DEF SetLower, TypeOK
  <2>2. Phases' = Phases
    BY <1>a, <2>1, PhaseIs, PhaseNext, OnePhase
  <2>3. Put(Table', job[t].ext, job[t].type) = Put(Table, job[t].ext, job[t].type)
    BY <1>11, <1>a, TableSteps
  <2>4. Seen' = Seen
    BY <1>a, <2>1, <2>3 DEF SeenIs
  <2> QED
    BY <1>b, <2>1, <2>2, <2>4 DEF Stutter
<1>12. ASSUME NEW t \in Threads, AddExtension(t) PROVE AbsStep
  <2>1. /\ pc[t] = "append" /\ pc'[t] = (IF once = "running" THEN "load" ELSE "return")
        /\ \A s \in Threads \ {t} : pc'[s] = pc[s] \/ (pc[s] = "rwait" /\ pc'[s] = "read")
        /\ UNCHANGED <<once, call, job, files, answer>>
    BY <1>12, <1>a DEF AddExtension, AfterSet, TypeOK
  <2>2. once \in {"running", "done"}
    BY <1>a, <2>1 DEF TypeOK, OnceInv, Outside
  <2>3. Phases' = Phases
    BY <1>a, <2>1, <2>2, PhaseIs, PhaseNext, OnePhase
  <2>4. Seen' = Seen
    <3>1. CASE once = "running"
      BY <1>a, <2>1, <3>1 DEF SeenIs
    <3>2. CASE once = "done"
      <4>1. \A s \in Threads : pc'[s] \notin {"lower", "append"}
        BY <1>a, <2>1, <3>2, Alone DEF Holding
      <4>2. Seen = Put(Table, job[t].ext, job[t].type) /\ Seen' = Table'
        BY <1>a, <2>1, <3>2, <4>1 DEF SeenIs
      <4>3. Table' = Put(Table, job[t].ext, job[t].type)
        BY <1>12, <1>a, TableSteps DEF IInv
      <4> QED
        BY <4>2, <4>3
    <3> QED
      BY <2>2, <3>1, <3>2
  <2> QED
    BY <1>b, <2>1, <2>3, <2>4 DEF Stutter
<1>13. ASSUME NEW t \in Threads, RLock(t) PROVE AbsStep
  <2>1. Seen' = Seen
    BY <1>13, <1>a, SeenKept DEF RLock, TypeOK
  <2>2. Phases' = Phases
    BY <1>13, <1>a, PhaseIs, PhaseNext, OnePhase DEF RLock, TypeOK
  <2> QED
    BY <1>13, <1>b, <2>1, <2>2 DEF RLock, Stutter
<1>14. ASSUME NEW t \in Threads, Read(t) PROVE AbsStep
  <2>1. Seen' = Seen
    BY <1>14, <1>a, SeenKept DEF Read, TypeOK
  <2>2. /\ pc[t] = "read" /\ pc'[t] \in {"return", "readlower"} /\ \A s \in Threads \ {t} : pc'[s] = pc[s]
        /\ UNCHANGED <<once, call, files>>
    BY <1>14, <1>a DEF Read, TypeOK
  <2>3. once = "done" /\ call[t].op \in {"type", "exts"} /\ ~Refused(call[t])
    BY <1>a, <2>2, CallTypes DEF CallInv, Readers, RefusedAtOnce, TypeOK
  <2>4. Seen = Table
    BY <1>a, <2>2, <2>3 DEF SeenIs, LockInv, Reading
  <2>5. CASE pc'[t] = "return"
    <3>1. Phases[t] = "asked" /\ Phases' = [Phases EXCEPT ![t] = "performed"]
      BY <1>a, <1>c, <2>2, <2>5, PhaseIs, PhaseNext, OnePhase
    <3>2. CASE call[t].op = "exts"
      <4>1. call[t].type.just \in JustTypes
        BY <1>a, <3>2, CallTypes, Basics DEF TypeOK
      <4>2. Table.lists[call[t].type.just] = ToSet(extensions[call[t].type.just])
        BY <4>1 DEF Table
      <4>3. answer' = [answer EXCEPT ![t] = Answer("exts", Nothing, Seen.lists[call[t].type.just])]
        BY <1>14, <2>4, <3>2, <4>2 DEF Read
      <4>4. Abstract!LookUpNow(t)
        BY <2>1, <2>2, <2>3, <3>1, <3>2, <4>3, SameTables DEF Abstract!LookUpNow, Abstract!Perform, Phases
      <4> QED
        BY <4>4 DEF AbsStep, Abstract!Next
    <3>3. CASE call[t].op = "type"
      <4>1. /\ mimeTypes[call[t].ext] # Nothing
            /\ answer' = [answer EXCEPT ![t] = Answer("type", mimeTypes[call[t].ext], {})]
        BY <1>14, <1>a, <2>5, <3>3 DEF Read, TypeOK
      <4>2. mimeTypes[call[t].ext] = LookUp(Seen, call[t].ext)
        BY <2>4, <4>1 DEF Table, LookUp
      <4>3. Abstract!LookUpNow(t)
        BY <2>1, <2>2, <2>3, <3>1, <3>3, <4>1, <4>2, SameTables DEF Abstract!LookUpNow, Abstract!Perform, Phases
      <4> QED
        BY <4>3 DEF AbsStep, Abstract!Next
    <3> QED
      BY <2>3, <3>2, <3>3
  <2>6. CASE pc'[t] = "readlower"
    <3>1. Phases' = Phases
      BY <1>a, <2>2, <2>6, PhaseIs, PhaseNext, OnePhase
    <3>2. UNCHANGED answer
      BY <1>14, <1>a, <2>6 DEF Read, TypeOK
    <3> QED
      BY <1>b, <2>1, <2>2, <3>1, <3>2 DEF Stutter
  <2> QED
    BY <2>2, <2>5, <2>6
<1>15. ASSUME NEW t \in Threads, ReadLower(t) PROVE AbsStep
  <2>1. Seen' = Seen
    BY <1>15, <1>a, SeenKept DEF ReadLower, TypeOK
  <2>2. /\ pc[t] = "readlower" /\ pc'[t] = "return" /\ \A s \in Threads \ {t} : pc'[s] = pc[s]
        /\ UNCHANGED <<once, call, files>>
    BY <1>15, <1>a DEF ReadLower, TypeOK
  <2>3. once = "done" /\ call[t].op = "type" /\ mimeTypes[call[t].ext] = Nothing /\ ~Refused(call[t])
    BY <1>a, <2>2 DEF CallInv, Readers, RefusedAtOnce
  <2>4. Seen = Table
    BY <1>a, <2>2, <2>3 DEF SeenIs, LockInv, Reading
  <2>5. Phases[t] = "asked" /\ Phases' = [Phases EXCEPT ![t] = "performed"]
    BY <1>a, <1>c, <2>2, PhaseIs, PhaseNext, OnePhase
  <2>6. answer' = [answer EXCEPT ![t] = Answer("type", LookUp(Seen, call[t].ext), {})]
    BY <1>15, <2>3, <2>4 DEF ReadLower, Table, LookUp
  <2>7. Abstract!LookUpNow(t)
    BY <2>1, <2>2, <2>3, <2>5, <2>6, SameTables DEF Abstract!LookUpNow, Abstract!Perform, Phases
  <2> QED
    BY <2>7 DEF AbsStep, Abstract!Next
<1>16. ASSUME NEW t \in Threads, Return(t) PROVE AbsStep
  <2>1. Seen' = Seen
    BY <1>16, <1>a, SeenKept DEF Return, TypeOK
  <2>2. pc[t] = "return" /\ pc'[t] = "idle" /\ \A s \in Threads \ {t} : pc'[s] = pc[s]
    BY <1>16, <1>a DEF Return, TypeOK
  <2>3. Phases[t] = "performed" /\ Phases' = [Phases EXCEPT ![t] = "idle"]
    BY <1>16, <1>a, <1>c, <2>2, PhaseIs, PhaseNext, OnePhase DEF Return
  <2>4. Abstract!Return(t)
    BY <1>16, <2>1, <2>3 DEF Return, Abstract!Return, Phases
  <2> QED
    BY <2>4 DEF AbsStep, Abstract!Next
<1>17. CASE UNCHANGED vars
  <2>1. Seen' = Seen
    BY <1>17, SeenKept DEF vars
  <2>2. Phases' = Phases
    BY <1>17 DEF vars, Phases, Phase, Setting
  <2> QED
    BY <1>17, <1>b, <2>1, <2>2 DEF vars, Stutter
<1> QED
  BY <1>1, <1>2, <1>3, <1>4, <1>5, <1>6, <1>7, <1>8, <1>9, <1>10, <1>11, <1>12, <1>13, <1>14, <1>15,
     <1>16, <1>17 DEF Next, Step, Finished

(* The registry is what its callers are promised: whatever goroutines do,  *)
(* every call takes effect, or is answered, by one complete table at one   *)
(* moment between its start and its end.                                   *)
THEOREM Linearizable == Spec => Implements
<1>1. Init => Abstract!Init
  <2> SUFFICES ASSUME Init PROVE Abstract!Init
    OBVIOUS
  <2>1. IInv
    BY InitOK
  <2>2. Seen = Abstract!Loaded(files.entries) /\ once # "done"
    BY SameTables DEF Init, Seen
  <2>3. [t \in Threads |-> Phase(t)] = [t \in Threads |-> "idle"]
    BY DEF Init, Phase
  <2>4. call \in [Threads -> Abstract!Calls] /\ files \in Files
    BY <2>1, SameTables DEF IInv, TypeOK
  <2>5. answer = [t \in Threads |-> Abstract!Plain("none")]
    BY SameTables DEF Init
  <2> QED
    BY <2>2, <2>3, <2>4, <2>5 DEF Abstract!Init
<1>2. IInv /\ IInv' /\ [Next]_vars
      => [Abstract!Next]_<<Seen, (once = "done"), call, [t \in Threads |-> Phase(t)], answer, files>>
  BY StepRefines DEF AbsStep, Phases
<1> QED
  BY <1>1, <1>2, Inductive, PTL DEF Spec, Implements, Abstract!Spec
=============================================================================
