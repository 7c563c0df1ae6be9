---------------------------- MODULE NatRecursion ----------------------------
(***************************************************************************)
(* Induction over the natural numbers, and functions defined by recursion  *)
(* over them, in a form that needs no operator as a parameter: what is to  *)
(* be shown is a set of numbers, and the step of a recursion a function.   *)
(* Behind it, what Only picks from a rising sequence, and when one rising  *)
(* sequence begins another one.                                            *)
(***************************************************************************)
EXTENDS Integers, Sequences, Functions, Subsequences, WellFoundedInduction, TLAPS

(* A set of numbers with zero, and with the successor of each of its own,  *)
(* has them all: the least one that is missing would have a predecessor.   *)
THEOREM SetInduction ==
    ASSUME NEW S \in SUBSET Nat, 0 \in S, \A n \in S : n + 1 \in S
    PROVE  S = Nat
<1> DEFINE T == Nat \ S
<1> SUFFICES ASSUME T # {} PROVE FALSE
  OBVIOUS
<1>1. T \subseteq Nat
  OBVIOUS
<1> HIDE DEF T
<1>2. PICK m \in T : \A k \in T : <<k, m>> \notin OpToRel(<, Nat)
  BY <1>1, WFMin, NatLessThanWellFounded, Zenon
<1>3. \A k \in T : ~(k < m)
  BY <1>1, <1>2 DEF OpToRel
<1>4. m # 0 /\ m \in Nat
  BY <1>1 DEF T
<1>5. m - 1 \in Nat /\ m - 1 < m /\ (m - 1) + 1 = m
  BY <1>4
<1>6. m - 1 \in S
  BY <1>3, <1>5 DEF T
<1> QED
  BY <1>5, <1>6 DEF T

(* The same up to a bound. *)
THEOREM SetInductionUpTo ==
    ASSUME NEW N \in Nat, NEW S, 0 \in S, \A n \in 0 .. N - 1 : n \in S => n + 1 \in S
    PROVE  0 .. N \subseteq S
<1> DEFINE T == { n \in Nat : n <= N => n \in S }
<1>1. T \in SUBSET Nat /\ 0 \in T
  OBVIOUS
<1>2. \A n \in T : n + 1 \in T
  OBVIOUS
<1> HIDE DEF T
<1>3. T = Nat
  BY <1>1, <1>2, SetInduction
<1> QED
  BY <1>3 DEF T

(* A function on 0 .. N that begins with b and goes on by g. *)
HasRecursiveFunction(N, S, b, g) ==
    \E f \in [0 .. N -> S] : f[0] = b /\ \A n \in 1 .. N : f[n] = g[<<n, f[n - 1]>>]

(* A recursion whose steps stay in a set defines a function into it. *)
THEOREM RecursiveFunction ==
    ASSUME NEW N \in Nat, NEW S, NEW b \in S, NEW g \in [(1 .. N) \X S -> S]
    PROVE  HasRecursiveFunction(N, S, b, g)
<1> DEFINE Def(f, n) == f \in [0 .. n -> S] /\ f[0] = b /\ \A k \in 1 .. n : f[k] = g[<<k, f[k - 1]>>]
           T == { n \in 0 .. N : \E f : Def(f, n) }
<1>1. 0 \in T
  <2> DEFINE f == [k \in 0 .. 0 |-> b]
  <2>1. Def(f, 0)
    OBVIOUS
  <2> HIDE DEF f, Def
  <2> QED
    BY <2>1
<1>2. ASSUME NEW n \in 0 .. N - 1, n \in T PROVE n + 1 \in T
  <2>1. PICK f : Def(f, n)
    BY <1>2
  <2> DEFINE h == [k \in 0 .. n + 1 |-> IF k <= n THEN f[k] ELSE g[<<n + 1, f[n]>>]]
  <2>2. g[<<n + 1, f[n]>>] \in S
    <3>1. <<n + 1, f[n]>> \in (1 .. N) \X S
      BY <2>1
    <3> QED
      BY <3>1
  <2>3. h \in [0 .. n + 1 -> S]
    BY <2>1, <2>2
  <2>4. ASSUME NEW k \in 1 .. n + 1 PROVE h[k] = g[<<k, h[k - 1]>>]
    <3>1. CASE k <= n
      BY <2>1, <3>1
    <3>2. CASE k = n + 1
      <4>1. h[k] = g[<<n + 1, f[n]>>] /\ h[k - 1] = f[n]
        BY <3>2
      <4> QED
        BY <4>1, <3>2
    <3> QED
      BY <3>1, <3>2
  <2>5. Def(h, n + 1)
    <3>1. h[0] = b
      BY <2>1
    <3> HIDE DEF h
    <3> QED
      BY <2>3, <2>4, <3>1
  <2>6. n + 1 \in 0 .. N
    OBVIOUS
  <2> HIDE DEF h, Def
  <2> QED
    BY <2>5, <2>6
<1> HIDE DEF T
<1>3. 0 .. N \subseteq T
  BY <1>1, <1>2, SetInductionUpTo
<1>4. PICK f : Def(f, N)
  BY <1>3 DEF T
<1> QED
  BY <1>4 DEF HasRecursiveFunction

(* What is so of the first value of a function, and of each that follows   *)
(* one of which it is so, is so of all.                                    *)
THEOREM AllValues ==
    ASSUME NEW N \in Nat, NEW S, NEW f, f[0] \in S, \A n \in 1 .. N : f[n - 1] \in S => f[n] \in S
    PROVE  \A n \in 0 .. N : f[n] \in S
<1> DEFINE T == { n \in 0 .. N : f[n] \in S }
<1>1. 0 \in T
  OBVIOUS
<1>2. ASSUME NEW n \in 0 .. N - 1, n \in T PROVE n + 1 \in T
  <2>1. n + 1 \in 1 .. N /\ (n + 1) - 1 = n
    OBVIOUS
  <2> QED
    BY <1>2, <2>1
<1> HIDE DEF T
<1>3. 0 .. N \subseteq T
  BY <1>1, <1>2, SetInductionUpTo
<1> QED
  BY <1>3 DEF T

(* A set of numbers that is not empty has a least one. *)
THEOREM LeastNumber ==
    ASSUME NEW S \in SUBSET Nat, S # {}
    PROVE  \E x \in S : \A y \in S : x <= y
<1>1. PICK x \in S : \A y \in S : <<y, x>> \notin OpToRel(<, Nat)
  BY WFMin, NatLessThanWellFounded, Zenon
<1>2. \A y \in S : ~(y < x)
  BY <1>1 DEF OpToRel
<1>3. \A y \in S : x <= y
  BY <1>2
<1> QED
  BY <1>3

-----------------------------------------------------------------------------
(* The first members of q that are in S: rising if q is, and no others.     *)
THEOREM OnlyRises ==
    ASSUME NEW q \in Seq(Nat), Rising(q), NEW S
    PROVE  Only(q, S) \in Seq(Nat) /\ Rising(Only(q, S)) /\ Range(Only(q, S)) = Range(q) \cap S
<1> DEFINE N == Len(q)
           g == [a \in (1 .. N) \X Seq(Nat) |-> IF q[a[1]] \in S THEN Append(a[2], q[a[1]]) ELSE a[2]]
           F(h) == h = [k \in 0 .. N |-> IF k = 0 THEN <<>>
                                         ELSE IF q[k] \in S THEN Append(h[k - 1], q[k]) ELSE h[k - 1]]
           c == CHOOSE h : F(h)
<1>1. N \in Nat /\ <<>> \in Seq(Nat) /\ DOMAIN q = 1 .. N /\ \A k \in 1 .. N : q[k] \in Nat
  OBVIOUS
<1>2. g \in [(1 .. N) \X Seq(Nat) -> Seq(Nat)] /\ <<>> \in Seq(Nat)
  <2> SUFFICES ASSUME NEW a \in (1 .. N) \X Seq(Nat)
               PROVE  (IF q[a[1]] \in S THEN Append(a[2], q[a[1]]) ELSE a[2]) \in Seq(Nat)
    BY <1>1
  <2>1. a[1] \in 1 .. N /\ a[2] \in Seq(Nat)
    OBVIOUS
  <2> QED
    BY <1>1, <2>1
<1>3. \A k \in 1 .. N, t \in Seq(Nat) : g[<<k, t>>] = IF q[k] \in S THEN Append(t, q[k]) ELSE t
  <2> SUFFICES ASSUME NEW k \in 1 .. N, NEW t \in Seq(Nat)
               PROVE  g[<<k, t>>] = IF q[k] \in S THEN Append(t, q[k]) ELSE t
    OBVIOUS
  <2>1. <<k, t>> \in (1 .. N) \X Seq(Nat)
    OBVIOUS
  <2> QED
    BY <2>1
<1> HIDE DEF g
<1>4. HasRecursiveFunction(N, Seq(Nat), <<>>, g)
  BY <1>1, <1>2, RecursiveFunction
<1>5. PICK f \in [0 .. N -> Seq(Nat)] : f[0] = <<>> /\ \A k \in 1 .. N : f[k] = g[<<k, f[k - 1]>>]
  BY <1>4 DEF HasRecursiveFunction
<1>a. \A k \in 0 .. N : f[k] = IF k = 0 THEN <<>>
                               ELSE IF q[k] \in S THEN Append(f[k - 1], q[k]) ELSE f[k - 1]
  <2> SUFFICES ASSUME NEW k \in 0 .. N, k # 0
               PROVE  f[k] = IF q[k] \in S THEN Append(f[k - 1], q[k]) ELSE f[k - 1]
    BY <1>5
  <2>1. k \in 1 .. N /\ k - 1 \in 0 .. N
    BY <1>1
  <2>2. f[k - 1] \in Seq(Nat)
    BY <1>5, <2>1
  <2> QED
    BY <1>3, <1>5, <2>1, <2>2
<1>b. F(f)
  <2> HIDE DEF N
  <2> QED
    BY <1>5, <1>a, Zenon
<1>6. F(c)
  BY <1>b, Zenon
<1>7. Only(q, S) = c[N]
  BY DEF Only
<1> HIDE DEF F, c
<1>8. c[0] = <<>> /\ \A k \in 1 .. N : c[k] = IF q[k] \in S THEN Append(c[k - 1], q[k]) ELSE c[k - 1]
  <2>1. c = [k \in 0 .. N |-> IF k = 0 THEN <<>>
                             ELSE IF q[k] \in S THEN Append(c[k - 1], q[k]) ELSE c[k - 1]]
    BY <1>6 DEF F
  <2> HIDE DEF N
  <2>2. \A k \in 0 .. N : c[k] = IF k = 0 THEN <<>>
                                 ELSE IF q[k] \in S THEN Append(c[k - 1], q[k]) ELSE c[k - 1]
    BY <2>1, Zenon
  <2>3. 0 \in 0 .. N /\ \A k \in 1 .. N : k \in 0 .. N /\ k # 0
    BY <1>1
  <2> QED
    BY <2>2, <2>3
<1> DEFINE Good(k, t) == t \in Seq(Nat) /\ Rising(t) /\ Range(t) = { q[j] : j \in 1 .. k } \cap S
           T == { k \in 0 .. N : Good(k, c[k]) }
<1>9. 0 \in T
  <2>1. c[0] = <<>> /\ Rising(<<>>) /\ Range(<<>>) = {}
    BY <1>8 DEF Rising, Range
  <2>2. { q[j] : j \in 1 .. 0 } = {}
    OBVIOUS
  <2>3. Good(0, c[0])
    BY <1>1, <2>1, <2>2
  <2>4. 0 \in 0 .. N
    BY <1>1
  <2> QED
    BY <2>3, <2>4
<1>10. ASSUME NEW k \in 0 .. N - 1, k \in T PROVE k + 1 \in T
  <2>1. k + 1 \in 1 .. N /\ (k + 1) - 1 = k /\ k + 1 \in 0 .. N
    BY <1>1
  <2>2. Good(k, c[k])
    BY <1>10
  <2>3. c[k + 1] = IF q[k + 1] \in S THEN Append(c[k], q[k + 1]) ELSE c[k]
    BY <1>8, <2>1
  <2>4. { q[j] : j \in 1 .. k + 1 } = { q[j] : j \in 1 .. k } \union {q[k + 1]}
    <3>1. 1 .. k + 1 = (1 .. k) \union {k + 1}
      BY <2>1
    <3> QED
      BY <3>1
  <2>5. CASE q[k + 1] \notin S
    BY <2>1, <2>2, <2>3, <2>4, <2>5
  <2>6. CASE q[k + 1] \in S
    <3> DEFINE t == c[k]
               x == q[k + 1]
               u == Append(t, x)
    <3>1. t \in Seq(Nat) /\ Rising(t) /\ Range(t) = { q[j] : j \in 1 .. k } \cap S /\ x \in Nat
      BY <1>1, <2>1, <2>2
    <3>2. \A j \in 1 .. k : q[j] < x
      <4>1. \A a, b \in 1 .. N : a < b => q[a] < q[b]
        BY <1>1 DEF Rising
      <4> HIDE DEF N
      <4> QED
        BY <1>1, <2>1, <4>1
    <3> HIDE DEF t, x
    <3>3. /\ u \in Seq(Nat) /\ Len(u) = Len(t) + 1 /\ Len(t) \in Nat /\ DOMAIN u = 1 .. Len(t) + 1
          /\ DOMAIN t = 1 .. Len(t) /\ u[Len(t) + 1] = x /\ \A a \in 1 .. Len(t) : u[a] = t[a]
      BY <3>1
    <3>4. \A a \in 1 .. Len(t) : t[a] < x
      BY <3>1, <3>2, <3>3 DEF Range
    <3> HIDE DEF u
    <3>5. Rising(u)
      <4>1. \A a, b \in 1 .. Len(t) : a < b => t[a] < t[b]
        BY <3>1, <3>3 DEF Rising
      <4>2. \A a, b \in 1 .. Len(t) + 1 : a < b => u[a] < u[b]
        <5> SUFFICES ASSUME NEW a \in 1 .. Len(t) + 1, NEW b \in 1 .. Len(t) + 1, a < b PROVE u[a] < u[b]
          OBVIOUS
        <5>1. a \in 1 .. Len(t) /\ (b \in 1 .. Len(t) \/ b = Len(t) + 1)
          BY SMTT(30), <3>3
        <5> QED
          BY <3>3, <3>4, <4>1, <5>1
      <4> QED
        BY <3>3, <4>2 DEF Rising
    <3>6. Range(u) = Range(t) \union {x}
      <4>1. 1 .. Len(t) + 1 = (1 .. Len(t)) \union {Len(t) + 1}
        BY <3>3
      <4>2. Range(u) = { u[a] : a \in (1 .. Len(t)) \union {Len(t) + 1} }
        BY <3>3, <4>1 DEF Range
      <4>3. Range(t) = { t[a] : a \in 1 .. Len(t) }
        BY <3>3 DEF Range
      <4> QED
        BY <3>3, <4>2, <4>3
    <3>7. Range(u) = { q[j] : j \in 1 .. k + 1 } \cap S
      BY <2>4, <2>6, <3>1, <3>6 DEF x
    <3>8. c[k + 1] = u
      BY <2>3, <2>6 DEF u, t, x
    <3> QED
      BY <2>1, <3>3, <3>5, <3>7, <3>8
  <2> QED
    BY <2>5, <2>6
<1> HIDE DEF T, Good
<1>11. 0 .. N \subseteq T
  BY <1>1, <1>9, <1>10, SetInductionUpTo
<1>12. Good(N, c[N])
  BY <1>1, <1>11 DEF T
<1> QED
  BY <1>1, <1>7, <1>12 DEF Good, Range

(* A rising sequence that has the members of another one up to some place   *)
(* is what that one begins with.                                            *)
THEOREM RisingPrefix ==
    ASSUME NEW d \in Seq(Nat), NEW x \in Seq(Nat), Rising(d), Rising(x), Range(d) \subseteq Range(x),
           \A p \in Range(x) : \A k \in DOMAIN d : p <= d[k] => p \in Range(d)
    PROVE  Len(d) <= Len(x) /\ \A k \in DOMAIN d : d[k] = x[k]
<1> DEFINE N == Len(d)
           T == { m \in 0 .. N : m <= Len(x) /\ \A k \in 1 .. m : d[k] = x[k] }
<1>1. /\ N \in Nat /\ Len(x) \in Nat /\ DOMAIN d = 1 .. N /\ DOMAIN x = 1 .. Len(x)
      /\ \A k \in 1 .. N : d[k] \in Nat
      /\ \A k \in 1 .. Len(x) : x[k] \in Nat
  OBVIOUS
<1>a. /\ \A a, b \in 1 .. N : a < b => d[a] < d[b]
      /\ \A a, b \in 1 .. Len(x) : a < b => x[a] < x[b]
  BY <1>1 DEF Rising
<1> HIDE DEF N
<1>2. 0 \in T
  BY <1>1
<1>3. ASSUME NEW m \in 0 .. N - 1, m \in T PROVE m + 1 \in T
  <2>1. m + 1 \in 1 .. N /\ m + 1 \in 0 .. N /\ m \in Nat /\ m <= Len(x) /\ \A k \in 1 .. m : d[k] = x[k]
    BY <1>1, <1>3
  <2>2. PICK a \in 1 .. Len(x) : x[a] = d[m + 1]
    BY <1>1, <2>1 DEF Range
  <2>3. a > m
    <3> SUFFICES ASSUME a <= m PROVE FALSE
      BY <1>1, <2>1
    <3>1. d[a] = x[a] /\ d[a] < d[m + 1]
      BY <1>1, <1>a, <2>1, <2>2
    <3> QED
      BY <1>1, <2>1, <2>2, <3>1
  <2>4. m + 1 \in 1 .. Len(x) /\ x[m + 1] <= d[m + 1]
    <3>1. m + 1 \in 1 .. Len(x) /\ (a = m + 1 \/ m + 1 < a)
      BY <1>1, <2>1, <2>3
    <3>2. x[m + 1] <= x[a]
      BY <1>1, <1>a, <3>1
    <3> QED
      BY <2>2, <3>1, <3>2
  <2>5. PICK b \in 1 .. N : d[b] = x[m + 1]
    BY <1>1, <2>1, <2>4 DEF Range
  <2>6. b = m + 1
    <3>1. ~(b > m + 1)
      BY SMTT(30), <1>1, <1>a, <2>1, <2>4, <2>5
    <3>2. ~(b <= m)
      <4> SUFFICES ASSUME b <= m PROVE FALSE
        OBVIOUS
      <4>1. x[b] = d[b] /\ x[b] < x[m + 1]
        BY SMTT(30), <1>1, <1>a, <2>1, <2>4, <2>5
      <4> QED
        BY <1>1, <2>4, <2>5, <4>1
    <3> QED
      BY <1>1, <2>1, <3>1, <3>2
  <2>7. \A k \in 1 .. m + 1 : d[k] = x[k]
    BY <2>1, <2>5, <2>6
  <2> QED
    BY <2>1, <2>4, <2>7
<1> HIDE DEF T
<1>4. 0 .. N \subseteq T
  BY <1>1, <1>2, <1>3, SetInductionUpTo
<1>5. N \in T
  BY <1>1, <1>4
<1> QED
  BY <1>1, <1>5 DEF T, N
=============================================================================
