----------------------------- MODULE TwccProofs -----------------------------
(***************************************************************************)
(* Proofs about transport-wide congestion control, for every size of the   *)
(* number space, of deltas and of windows: what is told as received is     *)
(* true (ReceivedIsTrue), and no arrival is forgotten (NothingForgotten).  *)
(*                                                                         *)
(* Both rest on what a feedback says: that run-length chunks, deltas and   *)
(* reference time decode to what was encoded (ChunksDecode,                *)
(* FeedbackDecodes).  A number belongs to one packet (NumberInv, OnceInv), *)
(* what is noted and what a feedback in the network tells has arrived      *)
(* (ReceiveInv, FeedbackInv), the window of the next feedback holds all    *)
(* that is noted (WindowInv), and an arrival is noted, under way or told   *)
(* (KnownInv).                                                             *)
(*                                                                         *)
(* The timer of the receiver may fire at any time in the model, so the     *)
(* theorems say how often it must: before the arrivals that wait are too   *)
(* far apart for a delta (TimelyFeedback) and before the window outgrows a *)
(* feedback (FittingFeedback).                                             *)
(***************************************************************************)
EXTENDS Twcc, FiniteSetTheorems, WellFoundedInduction, TLAPS

-----------------------------------------------------------------------------
(* Numbers, least and largest elements, induction                          *)

LEMMA LeastNumber ==
  ASSUME NEW T \in SUBSET Nat, T # {}
  PROVE  \E m \in T : \A y \in T : m <= y
<1> DEFINE R == {ss \in Nat \X Nat : ss[1] < ss[2]}
<1>1. IsWellFoundedOn(R, Nat)
  BY NatLessThanWellFounded, Zenon DEF OpToRel
<1> HIDE DEF R
<1>2. PICK m \in T : \A y \in T : ~(<<y, m>> \in R)
  BY <1>1, WFMin
<1>3. \A y \in T : ~(y < m)
  BY <1>2 DEF R
<1> QED BY <1>3

\* Induction over a set of numbers.
LEMMA InductionOver ==
  ASSUME NEW T \in SUBSET Nat, 0 \in T, \A n \in T : n + 1 \in T
  PROVE  T = Nat
<1> SUFFICES ASSUME Nat \ T # {} PROVE FALSE
  OBVIOUS
<1>1. PICK m \in Nat \ T : \A y \in Nat \ T : m <= y
  BY LeastNumber
<1>2. m # 0 /\ m - 1 \in Nat /\ m - 1 \in T
  BY <1>1
<1> QED BY <1>1, <1>2

LEMMA MinIs ==
  ASSUME NEW S \in SUBSET Nat, S # {}
  PROVE  Min(S) \in S /\ \A y \in S : Min(S) <= y
BY LeastNumber DEF Min

LEMMA MaxIs ==
  ASSUME NEW S \in SUBSET Nat, NEW x \in S, \A y \in S : y <= x
  PROVE  Max(S) = x
<1>1. \E z \in S : \A y \in S : z >= y
  OBVIOUS
<1>2. Max(S) \in S /\ \A y \in S : Max(S) >= y
  BY <1>1 DEF Max
<1> DEFINE m == Max(S)
<1>3. m \in S /\ m >= x /\ m <= x
  BY <1>2
<1> HIDE DEF m
<1>4. m \in Nat /\ x \in Nat
  BY <1>3
<1>5. m = x
  BY <1>3, <1>4
<1> QED BY <1>5 DEF m

-----------------------------------------------------------------------------
(* Ascending                                                               *)

Ascends(f, S) ==
  /\ f \in [1 .. Cardinality(S) -> S]
  /\ \A i, j \in 1 .. Cardinality(S) : i < j => f[i] < f[j]

LEMMA SubsetOfRange ==
  ASSUME NEW n \in Nat, NEW S \in SUBSET (1 .. n)
  PROVE  IsFiniteSet(S) /\ Cardinality(S) \in Nat /\ Cardinality(S) <= n
<1>1. IsFiniteSet(1 .. n) /\ Cardinality(1 .. n) = n
  BY FS_Interval
<1>2. IsFiniteSet(S) /\ Cardinality(S) <= Cardinality(1 .. n)
  BY <1>1, FS_Subset
<1>3. Cardinality(S) \in Nat
  BY <1>2, FS_CardinalityType
<1> QED BY <1>1, <1>2, <1>3

\* Every set of numbers up to n can be put in order: by induction over n.
LEMMA AscendingExists ==
  ASSUME NEW n \in Nat, NEW S \in SUBSET (1 .. n)
  PROVE  \E f : Ascends(f, S)
<1> DEFINE T == {m \in Nat : \A X \in SUBSET (1 .. m) : \E f : Ascends(f, X)}
<1>1. 0 \in T
  <2> SUFFICES ASSUME NEW X \in SUBSET (1 .. 0) PROVE \E f : Ascends(f, X)
    OBVIOUS
  <2>0. \A x \in 1 .. 0 : FALSE
    OBVIOUS
  <2>1. X = {} /\ Cardinality(X) = 0
    BY <2>0, FS_EmptySet, Zenon
  <2>2. Ascends([i \in 1 .. 0 |-> i], X)
    BY <2>1 DEF Ascends
  <2> QED BY <2>2
<1>2. ASSUME NEW m \in T PROVE m + 1 \in T
  <2> SUFFICES ASSUME NEW X \in SUBSET (1 .. m + 1) PROVE \E f : Ascends(f, X)
    OBVIOUS
  <2>0. m \in Nat /\ \A Y \in SUBSET (1 .. m) : \E f : Ascends(f, Y)
    OBVIOUS
  <2> HIDE DEF T
  <2> DEFINE Y == X \ {m + 1}
             c == Cardinality(Y)
  <2>1. Y \in SUBSET (1 .. m)
    BY <2>0
  <2>2. IsFiniteSet(X) /\ IsFiniteSet(Y) /\ c \in Nat
    BY <2>0, <2>1, SubsetOfRange
  <2>3. PICK f : Ascends(f, Y)
    BY <2>0, <2>1
  <2>4. CASE m + 1 \notin X
    <3>1. Y = X
      BY <2>4
    <3> QED BY <2>3, <3>1
  <2>5. CASE m + 1 \in X
    <3>1. Cardinality(X) = c + 1
      <4>1. X = Y \cup {m + 1} /\ m + 1 \notin Y
        BY <2>5
      <4> HIDE DEF Y
      <4> QED BY <2>2, <4>1, FS_AddElement
    <3> DEFINE g == [i \in 1 .. c + 1 |-> IF i <= c THEN f[i] ELSE m + 1]
    <3>2. \A i \in 1 .. c : f[i] \in Y /\ f[i] \in X /\ f[i] \in Int /\ f[i] < m + 1
      <4> SUFFICES ASSUME NEW i \in 1 .. c PROVE f[i] \in Y /\ f[i] \in X /\ f[i] \in Int /\ f[i] < m + 1
        OBVIOUS
      <4>1. f[i] \in Y
        BY <2>3 DEF Ascends
      <4>2. f[i] \in 1 .. m /\ f[i] \in X
        BY <2>1, <4>1
      <4> QED BY <2>0, <4>1, <4>2
    <3>3. \A i, j \in 1 .. c : i < j => f[i] < f[j]
      BY <2>3 DEF Ascends
    <3> HIDE DEF c, Y
    <3>4. g \in [1 .. c + 1 -> X]
      BY <2>2, <2>5, <3>2
    <3>5. \A i, j \in 1 .. c + 1 : i < j => g[i] < g[j]
      BY <2>0, <2>2, <3>2, <3>3
    <3>6. Ascends(g, X)
      BY <3>1, <3>4, <3>5 DEF Ascends
    <3> QED BY <3>6
  <2> QED BY <2>4, <2>5
<1> HIDE DEF T
<1>3. T = Nat
  <2>1. T \in SUBSET Nat
    BY DEF T
  <2> QED BY <1>1, <1>2, <2>1, InductionOver
<1>4. n \in T
  BY <1>3
<1> QED BY <1>4 DEF T

\* It lists the elements of S, each in the place that counts those up to it.
LEMMA AscendingIs ==
  ASSUME NEW n \in Nat, NEW S \in SUBSET (1 .. n)
  PROVE  /\ Ascends(Ascending(S), S)
         /\ \A x \in S : \E k \in 1 .. Cardinality(S) : Ascending(S)[k] = x
<1> DEFINE c == Cardinality(S)
           f == Ascending(S)
<1>0. IsFiniteSet(S) /\ c \in Nat
  BY SubsetOfRange
<1>1. PICK g : Ascends(g, S)
  BY AscendingExists
<1>2. /\ g \in [1 .. c -> S] /\ DOMAIN g = 1 .. c
      /\ \A i, j \in 1 .. c : i < j => g[i] < g[j]
  BY <1>1 DEF Ascends
<1>3. \E h \in [1 .. c -> S] : \A i, j \in DOMAIN h : i < j => h[i] < h[j]
  BY <1>2, Zenon
<1>4. f \in [1 .. c -> S] /\ \A i, j \in DOMAIN f : i < j => f[i] < f[j]
  BY <1>3 DEF Ascending
<1>5. DOMAIN f = 1 .. c
  BY <1>4
<1>6. Ascends(f, S)
  BY <1>4, <1>5 DEF Ascends
<1> HIDE DEF f
<1>7. \A i, j \in 1 .. c : f[i] = f[j] => i = j
  <2> SUFFICES ASSUME NEW i \in 1 .. c, NEW j \in 1 .. c, f[i] = f[j], i # j PROVE FALSE
    OBVIOUS
  <2>1. f[i] \in Int /\ f[j] \in Int /\ i \in Int /\ j \in Int
    <3>1. f[i] \in S /\ f[j] \in S
      BY <1>4
    <3>2. f[i] \in 1 .. n /\ f[j] \in 1 .. n
      BY <3>1
    <3> QED BY <3>2
  <2>2. i < j \/ j < i
    BY <2>1
  <2> QED BY <1>4, <1>5, <2>1, <2>2
<1>8. f \in Injection(1 .. c, S)
  BY <1>4, <1>5, <1>7 DEF Injection, IsInjective
<1>9. Cardinality(1 .. c) = c
  BY <1>0, FS_Interval
<1> HIDE DEF c
<1>10. f \in Surjection(1 .. c, S)
  BY <1>0, <1>8, <1>9, FS_Injection DEF c
<1>11. \A x \in S : \E k \in 1 .. c : f[k] = x
  BY <1>10 DEF Surjection
<1> QED BY <1>6, <1>11 DEF c, f

\* The place of an element counts the elements up to it.
LEMMA AscendingRank ==
  ASSUME NEW n \in Nat, NEW S \in SUBSET (1 .. n), NEW k \in 1 .. Cardinality(S)
  PROVE  Cardinality({j \in S : j <= Ascending(S)[k]}) = k
<1> DEFINE c == Cardinality(S)
           f == Ascending(S)
           A == {j \in S : j <= f[k]}
           g == [i \in 1 .. k |-> f[i]]
<1>0. c \in Nat /\ k \in 1 .. c
  BY SubsetOfRange
<1>1. /\ \A i \in 1 .. c : f[i] \in S
      /\ \A i, j \in 1 .. c : i < j => f[i] < f[j]
      /\ \A x \in S : \E i \in 1 .. c : f[i] = x
  BY AscendingIs DEF Ascends
<1>2. \A i \in 1 .. c : f[i] \in Int
  <2>1. S \subseteq Int
    OBVIOUS
  <2> QED BY <1>1, <2>1
<1> HIDE DEF c, f
<1>3. \A i \in 1 .. k : g[i] = f[i] /\ g[i] \in A
  <2> SUFFICES ASSUME NEW i \in 1 .. k PROVE g[i] = f[i] /\ g[i] \in A
    OBVIOUS
  <2>1. i \in 1 .. c /\ (i = k \/ i < k)
    BY <1>0
  <2>2. f[i] \in S /\ f[i] <= f[k]
    BY <1>0, <1>1, <1>2, <2>1
  <2> QED BY <2>2
<1>4. \A i, j \in 1 .. k : g[i] = g[j] => i = j
  <2> SUFFICES ASSUME NEW i \in 1 .. k, NEW j \in 1 .. k, g[i] = g[j], i # j PROVE FALSE
    OBVIOUS
  <2>1. i \in 1 .. c /\ j \in 1 .. c /\ f[i] = f[j] /\ (i < j \/ j < i)
    BY <1>0
  <2> QED BY <1>1, <1>2, <2>1
<1>5. \A x \in A : \E i \in 1 .. k : g[i] = x
  <2> SUFFICES ASSUME NEW x \in A PROVE \E i \in 1 .. k : g[i] = x
    OBVIOUS
  <2>1. x \in S /\ x <= f[k]
    OBVIOUS
  <2>2. PICK i \in 1 .. c : f[i] = x
    BY <1>1, <2>1
  <2>3. ~(k < i)
    BY <1>0, <1>1, <1>2, <2>1, <2>2
  <2>4. i \in 1 .. k
    BY <1>0, <2>2, <2>3
  <2> QED BY <2>2, <2>4
<1> HIDE DEF A
<1>6. g \in [1 .. k -> A]
  BY <1>3
<1> HIDE DEF g
<1>7. g \in Bijection(1 .. k, A)
  BY <1>4, <1>5, <1>6 DEF Bijection, Injection, Surjection, IsInjective
<1>8. ExistsBijection(1 .. k, A)
  BY <1>7 DEF ExistsBijection
<1>9. Cardinality(A) = k
  BY <1>0, <1>8, FS_CountingElements
<1> QED BY <1>9 DEF A, f

-----------------------------------------------------------------------------
(* Chunks                                                                  *)

LEMMA Concatenates ==
  ASSUME NEW X, NEW a \in Seq(X), NEW b \in Seq(X), NEW c \in Seq(X), Len(c) = Len(a) + Len(b),
         \A j \in 1 .. Len(a) : c[j] = a[j], \A j \in 1 .. Len(b) : c[Len(a) + j] = b[j]
  PROVE  a \o b = c
<1>1. a \o b \in Seq(X) /\ Len(a \o b) = Len(c) /\ Len(a) \in Nat /\ Len(b) \in Nat
  OBVIOUS
<1>2. \A j \in 1 .. Len(c) : (a \o b)[j] = c[j]
  <2> TAKE j \in 1 .. Len(c)
  <2>1. CASE j <= Len(a)
    BY <1>1, <2>1
  <2>2. CASE j > Len(a)
    <3>1. j - Len(a) \in 1 .. Len(b) /\ Len(a) + (j - Len(a)) = j
      BY <1>1, <2>2
    <3>2. (a \o b)[j] = b[j - Len(a)]
      BY <1>1, <2>2
    <3> QED BY <3>1, <3>2
  <2> QED BY <1>1, <2>1, <2>2
<1> QED BY <1>1, <1>2

\* The chunks decode to the symbols they were made of.
LEMMA ChunksDecode ==
  ASSUME NEW X, NEW s \in Seq(X), Len(s) >= 1, NEW m, m.chunks = Chunks(s)
  PROVE  Symbols(m) = s
<1> DEFINE n == Len(s)
           begins == {i \in DOMAIN s : i = 1 \/ s[i] # s[i - 1]}
           st == Ascending(begins)
           K == Cardinality(begins)
           e(k) == IF k = K THEN n + 1 ELSE st[k + 1]
<1>0. n \in Nat /\ n >= 1 /\ DOMAIN s = 1 .. n /\ \A i \in 1 .. n : s[i] \in X
  OBVIOUS
<1>1. begins \in SUBSET (1 .. n) /\ 1 \in begins
  BY <1>0
<1>2. K \in Nat
  BY <1>0, <1>1, SubsetOfRange
<1>3. /\ st \in [1 .. K -> begins] /\ DOMAIN st = 1 .. K
      /\ \A i \in 1 .. K : st[i] \in begins
      /\ \A i, j \in 1 .. K : i < j => st[i] < st[j]
      /\ \A x \in begins : \E i \in 1 .. K : st[i] = x
  BY <1>0, <1>1, AscendingIs DEF Ascends
<1>4. \A i \in 1 .. K : st[i] \in 1 .. n
  BY <1>1, <1>3
<1>5. K >= 1 /\ st[1] = 1
  <2>1. PICK i \in 1 .. K : st[i] = 1
    BY <1>1, <1>3
  <2>2. K >= 1 /\ 1 \in 1 .. K
    BY <1>2, <2>1
  <2>3. i = 1
    BY <1>2, <1>3, <1>4, <2>1, <2>2
  <2> QED BY <2>1, <2>2, <2>3
<1>b. \A j \in 2 .. n : j \notin begins => s[j] = s[j - 1]
  BY <1>0
<1>c. Chunks(s) = [k \in DOMAIN st |-> [symbol |-> s[st[k]], run |-> e(k) - st[k]]]
  <2>1. Len(st) = K
    BY <1>2, <1>3
  <2> QED BY <2>1 DEF Chunks
<1> HIDE DEF begins, st, K, n
<1>6. \A k \in 1 .. K : st[k] < e(k) /\ e(k) <= n + 1 /\ e(k) \in Int
  BY <1>0, <1>2, <1>3, <1>4
<1>7. \A k \in 1 .. K : \A j \in st[k] + 1 .. e(k) - 1 : j \notin begins /\ j \in 2 .. n
  <2> SUFFICES ASSUME NEW k \in 1 .. K, NEW j \in st[k] + 1 .. e(k) - 1
               PROVE  j \notin begins /\ j \in 2 .. n
    OBVIOUS
  <2>1. st[k] \in 1 .. n /\ e(k) \in Int /\ e(k) <= n + 1
    BY <1>4, <1>6
  <2>2. j \in 2 .. n /\ st[k] < j /\ j < e(k)
    BY <1>0, <2>1
  <2>3. ASSUME j \in begins PROVE FALSE
    <3>1. PICK l \in 1 .. K : st[l] = j
      BY <1>3, <2>3
    <3>2. k < l
      BY <1>2, <1>3, <1>4, <2>2, <3>1
    <3>3. k # K /\ k + 1 \in 1 .. K /\ (l = k + 1 \/ k + 1 < l)
      BY <1>2, <3>2
    <3>4. e(k) = st[k + 1] /\ st[k + 1] <= st[l]
      BY <1>3, <1>4, <3>3
    <3> QED BY <1>4, <2>2, <3>1, <3>3, <3>4
  <2> QED BY <2>2, <2>3
<1>8. \A k \in 1 .. K : \A j \in st[k] .. e(k) - 1 : s[j] = s[st[k]]
  <2> SUFFICES ASSUME NEW k \in 1 .. K
               PROVE  \A j \in st[k] .. e(k) - 1 : s[j] = s[st[k]]
    OBVIOUS
  <2> DEFINE a == st[k]
             z == e(k)
             T == {d \in Nat : a + d < z => s[a + d] = s[a]}
  <2>0. a \in 1 .. n /\ z \in Int /\ \A j \in a + 1 .. z - 1 : s[j] = s[j - 1]
    BY <1>4, <1>6, <1>7, <1>b
  <2> HIDE DEF a, z
  <2>1. 0 \in T
    BY <2>0
  <2>2. ASSUME NEW d \in T PROVE d + 1 \in T
    <3> SUFFICES ASSUME a + (d + 1) < z PROVE s[a + (d + 1)] = s[a]
      OBVIOUS
    <3>1. d \in Nat /\ a + (d + 1) \in a + 1 .. z - 1 /\ a + (d + 1) - 1 = a + d /\ a + d < z
      BY <2>0
    <3>2. s[a + d] = s[a]
      BY <3>1
    <3> QED BY <2>0, <3>1, <3>2
  <2>3. T = Nat
    <3>1. T \in SUBSET Nat
      OBVIOUS
    <3> HIDE DEF T
    <3> QED BY <2>1, <2>2, <3>1, InductionOver
  <2>4. ASSUME NEW j \in a .. z - 1 PROVE s[j] = s[a]
    <3>1. j - a \in Nat /\ a + (j - a) = j /\ j < z
      BY <2>0
    <3>2. j - a \in T
      BY <2>3, <3>1
    <3> QED BY <3>1, <3>2
  <2> QED BY <2>4 DEF a, z

<1> DEFINE q == [k \in 1 .. K |-> [i \in 1 .. e(k) - st[k] |-> s[st[k]]]]
           w == [k \in 1 .. K |-> [j \in 1 .. e(k) - 1 |-> s[j]]]
           Eq(f) == f = [i \in 1 .. K |-> IF i = 1 THEN q[i] ELSE f[i - 1] \o q[i]]
<1>9. Symbols(m) = FlattenSeq(q)
  <2> DEFINE C == m.chunks
  <2>1. DOMAIN C = 1 .. K /\ \A k \in 1 .. K : C[k].symbol = s[st[k]] /\ C[k].run = e(k) - st[k]
    BY <1>3, <1>c
  <2> HIDE DEF C
  <2>2. [k \in DOMAIN C |-> [i \in 1 .. C[k].run |-> C[k].symbol]] = q
    BY <2>1, Zenon
  <2> QED BY <2>2 DEF Symbols, C
<1>10. \A k \in 1 .. K : /\ q[k] \in Seq(X) /\ Len(q[k]) = e(k) - st[k]
                         /\ \A i \in 1 .. e(k) - st[k] : q[k][i] = s[st[k]]
  <2> SUFFICES ASSUME NEW k \in 1 .. K
               PROVE  /\ q[k] \in Seq(X) /\ Len(q[k]) = e(k) - st[k]
                      /\ \A i \in 1 .. e(k) - st[k] : q[k][i] = s[st[k]]
    OBVIOUS
  <2> DEFINE r == e(k) - st[k]
             x == s[st[k]]
  <2>1. r \in Nat /\ x \in X
    BY <1>0, <1>4, <1>6
  <2>2. q[k] = [i \in 1 .. r |-> x]
    OBVIOUS
  <2> HIDE DEF r, x, q
  <2>3. [i \in 1 .. r |-> x] \in Seq(X) /\ Len([i \in 1 .. r |-> x]) = r
    BY <2>1
  <2>4. \A i \in 1 .. r : q[k][i] = x
    BY <2>2
  <2> QED BY <2>2, <2>3, <2>4 DEF r, x
<1>11. \A k \in 1 .. K : /\ w[k] \in Seq(X) /\ Len(w[k]) = e(k) - 1
                         /\ \A j \in 1 .. e(k) - 1 : w[k][j] = s[j]
  <2> SUFFICES ASSUME NEW k \in 1 .. K
               PROVE  /\ w[k] \in Seq(X) /\ Len(w[k]) = e(k) - 1
                      /\ \A j \in 1 .. e(k) - 1 : w[k][j] = s[j]
    OBVIOUS
  <2> DEFINE r == e(k) - 1
  <2>1. r \in Nat /\ \A j \in 1 .. r : s[j] \in X
    BY <1>0, <1>4, <1>6
  <2>2. w[k] = [j \in 1 .. r |-> s[j]]
    OBVIOUS
  <2> HIDE DEF r, w
  <2>3. [j \in 1 .. r |-> s[j]] \in Seq(X) /\ Len([j \in 1 .. r |-> s[j]]) = r
    BY <2>1
  <2>4. \A j \in 1 .. r : w[k][j] = s[j]
    BY <2>2
  <2> QED BY <2>2, <2>3, <2>4 DEF r
<1>12. w[1] = q[1]
  <2>1. 1 \in 1 .. K /\ e(1) \in Int
    BY <1>2, <1>5, <1>6
  <2>2. \A j \in 1 .. e(1) - 1 : s[j] = s[1]
    BY <1>5, <1>8, <2>1
  <2>3. w[1] = [j \in 1 .. e(1) - 1 |-> s[j]] /\ q[1] = [j \in 1 .. e(1) - 1 |-> s[1]]
    BY <1>5, <2>1
  <2> HIDE DEF w, q
  <2> QED BY <2>2, <2>3
<1>13. \A k \in 2 .. K : w[k] = w[k - 1] \o q[k]
  <2> SUFFICES ASSUME NEW k \in 2 .. K PROVE w[k - 1] \o q[k] = w[k]
    OBVIOUS
  <2>1. k \in 1 .. K /\ k - 1 \in 1 .. K /\ e(k - 1) = st[k]
    BY <1>2
  <2>2. st[k] \in 1 .. n /\ e(k) \in Int /\ st[k] < e(k)
    BY <1>4, <1>6, <2>1
  <2> DEFINE a == w[k - 1]
             b == q[k]
             c == w[k]
             u == st[k]
             z == e(k)
  <2>3. /\ a \in Seq(X) /\ Len(a) = u - 1 /\ \A j \in 1 .. u - 1 : a[j] = s[j]
        /\ b \in Seq(X) /\ Len(b) = z - u /\ \A j \in 1 .. z - u : b[j] = s[u]
        /\ c \in Seq(X) /\ Len(c) = z - 1 /\ \A j \in 1 .. z - 1 : c[j] = s[j]
    BY <1>10, <1>11, <2>1
  <2>4. u \in 1 .. n /\ z \in Int /\ u < z /\ \A j \in u .. z - 1 : s[j] = s[u]
    BY <1>8, <2>1, <2>2
  <2> HIDE DEF a, b, c, u, z, w, q
  <2>5. Len(c) = Len(a) + Len(b)
    BY <2>3, <2>4
  <2>6. \A j \in 1 .. Len(a) : c[j] = a[j]
    BY <2>3, <2>4
  <2>7. \A j \in 1 .. Len(b) : c[Len(a) + j] = b[j]
    BY <2>3, <2>4
  <2>8. a \o b = c
    BY <2>3, <2>5, <2>6, <2>7, Concatenates
  <2> QED BY <2>8 DEF a, b, c
<1>14. Len(q) = K
  BY <1>2
<1>15. DOMAIN w = 1 .. K
  OBVIOUS
<1>w. w = [k \in 1 .. K |-> w[k]]
  OBVIOUS
<1> HIDE DEF w, q
<1>16. Eq(w)
  <2>1. \A i \in 1 .. K : w[i] = IF i = 1 THEN q[i] ELSE w[i - 1] \o q[i]
    <3> TAKE i \in 1 .. K
    <3>1. CASE i = 1
      BY <1>12, <3>1
    <3>2. CASE i # 1
      <4>1. i \in 2 .. K
        BY <1>2, <3>2
      <4> QED BY <1>13, <3>2, <4>1
    <3> QED BY <3>1, <3>2
  <2> QED BY <2>1, <1>w
<1>17. FlattenSeq(q) = (CHOOSE f : Eq(f))[K]
  <2>1. K # 0
    BY <1>2, <1>5
  <2> QED BY <1>14, <2>1, Zenon DEF FlattenSeq
<1> DEFINE f == CHOOSE h : Eq(h)
<1>18. Eq(f)
  BY <1>16
<1> HIDE DEF f
<1>19. f[1] = w[1] /\ \A i \in 2 .. K : f[i] = f[i - 1] \o q[i]
  <2>1. \A i \in 1 .. K : f[i] = IF i = 1 THEN q[i] ELSE f[i - 1] \o q[i]
    BY <1>18, Zenon
  <2>2. 1 \in 1 .. K /\ \A i \in 2 .. K : i \in 1 .. K /\ i # 1
    BY <1>2, <1>5
  <2> QED BY <1>12, <2>1, <2>2
<1> DEFINE T == {d \in Nat : d + 1 <= K => f[d + 1] = w[d + 1]}
<1>20. 0 \in T
  BY <1>19
<1>21. ASSUME NEW d \in T PROVE d + 1 \in T
  <2> SUFFICES ASSUME (d + 1) + 1 <= K PROVE f[(d + 1) + 1] = w[(d + 1) + 1]
    OBVIOUS
  <2> DEFINE k == (d + 1) + 1
  <2>1. d \in Nat /\ k \in 2 .. K /\ k - 1 = d + 1 /\ d + 1 <= K
    BY <1>2
  <2>2. f[k - 1] = w[k - 1]
    BY <2>1
  <2> HIDE DEF k
  <2>3. f[k] = w[k]
    BY <1>13, <1>19, <2>1, <2>2
  <2> QED BY <2>3 DEF k
<1>22. T = Nat
  <2>1. T \in SUBSET Nat
    OBVIOUS
  <2> HIDE DEF T
  <2> QED BY <1>20, <1>21, <2>1, InductionOver
<1>23. f[K] = w[K]
  <2>1. K - 1 \in Nat /\ (K - 1) + 1 = K /\ (K - 1) + 1 <= K
    BY <1>2, <1>5
  <2>2. K - 1 \in T
    BY <1>22, <2>1
  <2> QED BY <2>1, <2>2
<1>24. w[K] = s
  <2>1. K \in 1 .. K /\ e(K) = n + 1
    BY <1>2, <1>5
  <2>2. w[K] \in Seq(X) /\ Len(w[K]) = n /\ \A j \in 1 .. n : w[K][j] = s[j]
    BY <1>0, <1>11, <2>1
  <2> QED BY <2>2 DEF n
<1> QED BY <1>9, <1>17, <1>23, <1>24 DEF f

-----------------------------------------------------------------------------
(* A feedback                                                              *)

LEMMA LargestNumber ==
  ASSUME NEW n \in Nat, NEW S \in SUBSET (1 .. n), S # {}
  PROVE  Max(S) \in S /\ \A y \in S : y <= Max(S)
<1> DEFINE T == {n - x : x \in S}
<1>0. \A x \in S : x \in 1 .. n /\ n - x \in Nat
  OBVIOUS
<1>1. T \in SUBSET Nat /\ T # {}
  BY <1>0
<1>2. PICK d \in T : \A y \in T : d <= y
  BY <1>1, LeastNumber
<1>3. PICK x \in S : d = n - x
  BY <1>2
<1>4. \A y \in S : y <= x
  <2> TAKE y \in S
  <2>1. n - y \in T /\ d <= n - y
    BY <1>2
  <2> QED BY <1>0, <1>3, <2>1
<1>5. S \in SUBSET Nat
  BY <1>0
<1> HIDE DEF T
<1>6. Max(S) = x
  BY <1>4, <1>5, MaxIs
<1> QED BY <1>4, <1>6

Symbol == {"not", "small", "large"}

\* The timer that reports arrivals runs often enough: those that wait for one feedback are no
\* further apart than a delta can tell.
TimelyFeedback ==
  \A m, n \in Numbers :
    received[m] # None /\ received[n] # None => received[m] - received[n] <= LargeDelta

Noting == received \in [Numbers -> Nat \cup {None}]

\* The packets that were received of those that are told, and when.
Got(told) == {i \in DOMAIN told : received[told[i]] # None}

LEMMA GotFacts ==
  ASSUME NEW N \in Nat \ {0}, NEW told \in [1 .. N -> Numbers], Noting, Got(told) # {}
  PROVE  /\ Got(told) \in SUBSET (1 .. N)
         /\ \A i \in Got(told) : received[told[i]] \in Nat
         /\ Min(Got(told)) \in Got(told) /\ \A i \in Got(told) : Min(Got(told)) <= i
<1>1. DOMAIN told = 1 .. N
  OBVIOUS
<1>2. Got(told) \in SUBSET (1 .. N) /\ Got(told) \in SUBSET Nat
  BY <1>1 DEF Got
<1>3. \A i \in Got(told) : received[told[i]] \in Nat
  BY <1>1 DEF Got, Noting
<1> QED BY <1>2, <1>3, MinIs

\* The delta of a packet counts from the arrival told before it, or else from the reference.
LEMMA ArrivalBeforeIs ==
  ASSUME NEW N \in Nat \ {0}, NEW told \in [1 .. N -> Numbers], Noting, NEW i \in Got(told),
         NEW before, before = {j \in Got(told) : j < i}
  PROVE  ArrivalBefore(told, i) =
           IF before = {} THEN Reference(told) * ReferenceUnit ELSE received[told[Max(before)]]
<1>1. Got(told) \in SUBSET (1 .. N) /\ DOMAIN told = 1 .. N
  BY GotFacts
<1>2. before = {j \in 1 .. i - 1 : received[told[j]] # None}
  <2>1. ASSUME NEW j PROVE j \in before <=> j \in 1 .. i - 1 /\ received[told[j]] # None
    <3>1. i \in 1 .. N
      BY <1>1
    <3>2. j \in 1 .. i - 1 => j \in 1 .. N /\ j < i
      BY <3>1
    <3>3. j \in 1 .. N /\ j < i => j \in 1 .. i - 1
      BY <3>1
    <3> QED BY <1>1, <3>2, <3>3 DEF Got
  <2> QED BY <2>1
<1> QED BY <1>2 DEF ArrivalBefore

\* A delta can be told, and is not the one that is none.
LEMMA DeltaFits ==
  ASSUME NEW N \in Nat \ {0}, NEW told \in [1 .. N -> Numbers], Noting, TimelyFeedback,
         NEW i \in Got(told)
  PROVE  /\ Delta(told, i) \in -LargeDelta .. LargeDelta
         /\ Delta(told, i) = received[told[i]] - ArrivalBefore(told, i)
         /\ ArrivalBefore(told, i) \in Int
<1> DEFINE before == {j \in Got(told) : j < i}
           r == received[told[i]]
           b == ArrivalBefore(told, i)
<1>0. /\ Got(told) \in SUBSET (1 .. N) /\ DOMAIN told = 1 .. N /\ i \in 1 .. N
      /\ \A j \in Got(told) : received[told[j]] \in Nat /\ told[j] \in Numbers
      /\ Min(Got(told)) \in Got(told) /\ \A j \in Got(told) : Min(Got(told)) <= j
  BY GotFacts
<1>1. Delta(told, i) = r - b /\ r \in Nat
  BY <1>0 DEF Delta
<1>2. b = IF before = {} THEN Reference(told) * ReferenceUnit ELSE received[told[Max(before)]]
  BY ArrivalBeforeIs
<1>3. CASE before = {}
  <2>1. Min(Got(told)) = i
    BY <1>0, <1>3
  <2>2. Reference(told) = r \div ReferenceUnit
    BY <1>0, <2>1 DEF Reference, Got
  <2> DEFINE u == ReferenceUnit
             d == r \div u
  <2>3. u \in Nat \ {0} /\ u <= LargeDelta /\ LargeDelta \in Nat
    BY TwccAssumption
  <2> HIDE DEF u, r
  <2>4. d \in Int /\ d * u \in Int /\ 0 <= r - d * u /\ r - d * u < u
    BY <1>1, <2>3
  <2>5. b = d * u
    BY <1>2, <1>3, <2>2 DEF u
  <2> HIDE DEF d, b
  <2>6. r - b \in -LargeDelta .. LargeDelta /\ b \in Int
    BY <1>1, <2>3, <2>4, <2>5
  <2> QED BY <1>1, <2>6 DEF b, r
<1>4. CASE before # {}
  <2>1. before \in SUBSET (1 .. N)
    BY <1>0
  <2>2. Max(before) \in before
    BY <1>4, <2>1, LargestNumber
  <2> DEFINE a == received[told[Max(before)]]
  <2>3. a \in Nat /\ a # None /\ r # None /\ told[Max(before)] \in Numbers /\ told[i] \in Numbers
    BY <1>0, <2>2 DEF Got
  <2>4. a - r <= LargeDelta /\ r - a <= LargeDelta
    BY <2>3 DEF TimelyFeedback
  <2>5. b = a
    BY <1>2, <1>4
  <2>6. LargeDelta \in Nat
    BY TwccAssumption
  <2> HIDE DEF a, b, r
  <2>7. r - b \in -LargeDelta .. LargeDelta /\ b \in Int
    BY <1>1, <2>3, <2>4, <2>5, <2>6
  <2> QED BY <1>1, <2>7 DEF b, r
<1> QED BY <1>3, <1>4

\* A packet is told as received if it was.
LEMMA StatusesAre ==
  ASSUME NEW N \in Nat \ {0}, NEW told \in [1 .. N -> Numbers], Noting, TimelyFeedback
  PROVE  /\ Statuses(told) \in Seq(Symbol) /\ Len(Statuses(told)) = N
         /\ DOMAIN Statuses(told) = 1 .. N
         /\ \A i \in 1 .. N : Statuses(told)[i] # "not" <=> i \in Got(told)
<1> DEFINE st(i) == IF received[told[i]] = None THEN "not" ELSE getTwccPacketStatus(Delta(told, i))
<1>0. DOMAIN told = 1 .. N
  OBVIOUS
<1>1. Statuses(told) = [i \in 1 .. N |-> st(i)]
  BY <1>0 DEF Statuses
<1>2. ASSUME NEW i \in 1 .. N PROVE st(i) \in Symbol /\ (st(i) # "not" <=> i \in Got(told))
  <2>1. CASE received[told[i]] = None
    BY <1>0, <2>1 DEF Got, Symbol
  <2>2. CASE received[told[i]] # None
    <3>1. i \in Got(told)
      BY <1>0, <2>2 DEF Got
    <3>2. Delta(told, i) \in -LargeDelta .. LargeDelta
      BY <3>1, DeltaFits
    <3>3. LargeDelta \in Nat /\ SmallDelta \in Nat
      BY TwccAssumption
    <3>4. getTwccPacketStatus(Delta(told, i)) \in {"small", "large"}
      BY <3>2, <3>3 DEF getTwccPacketStatus
    <3> QED BY <2>2, <3>1, <3>4 DEF Symbol
  <2> QED BY <2>1, <2>2
<1> HIDE DEF st
<1>3. [i \in 1 .. N |-> st(i)] \in Seq(Symbol) /\ Len([i \in 1 .. N |-> st(i)]) = N
  BY <1>2
<1> QED BY <1>1, <1>2, <1>3

\* The k-th packet received counts from the one before it.
LEMMA ArrivalBeforeKth ==
  ASSUME NEW N \in Nat \ {0}, NEW told \in [1 .. N -> Numbers], Noting,
         NEW k \in 1 .. Cardinality(Got(told))
  PROVE  ArrivalBefore(told, Ascending(Got(told))[k]) =
           IF k = 1 THEN Reference(told) * ReferenceUnit
                    ELSE received[told[Ascending(Got(told))[k - 1]]]
<1> DEFINE G == Got(told)
           c == Cardinality(G)
           f == Ascending(G)
           before == {j \in G : j < f[k]}
<1>0. DOMAIN told = 1 .. N
  OBVIOUS
<1>1. G \in SUBSET (1 .. N) /\ c \in Nat
  <2>1. G \in SUBSET (1 .. N)
    BY <1>0 DEF Got
  <2> HIDE DEF G
  <2> QED BY <2>1, SubsetOfRange
<1> HIDE DEF G
<1>2. /\ \A i \in 1 .. c : f[i] \in G
      /\ \A i, j \in 1 .. c : i < j => f[i] < f[j]
      /\ \A x \in G : \E i \in 1 .. c : f[i] = x
  BY <1>1, AscendingIs DEF Ascends
<1> HIDE DEF c, f
<1>k. k \in 1 .. c
  BY DEF c, G
<1>3. \A i \in 1 .. c : f[i] \in 1 .. N
  BY <1>1, <1>2
<1>4. ArrivalBefore(told, f[k]) =
        IF before = {} THEN Reference(told) * ReferenceUnit ELSE received[told[Max(before)]]
  BY <1>2, <1>k, ArrivalBeforeIs DEF G
<1>5. CASE k = 1
  <2>1. before = {}
    <3> SUFFICES ASSUME NEW x \in before PROVE FALSE
      OBVIOUS
    <3>1. PICK i \in 1 .. c : f[i] = x
      BY <1>2
    <3>2. f[i] < f[1] /\ 1 \in 1 .. c
      BY <1>5, <1>k, <3>1
    <3>3. i = 1 \/ 1 < i
      OBVIOUS
    <3> QED BY <1>2, <1>3, <3>1, <3>2, <3>3
  <2> HIDE DEF before
  <2>2. ArrivalBefore(told, f[k]) = Reference(told) * ReferenceUnit
    BY <1>4, <2>1, Zenon
  <2> QED BY <1>5, <2>2, Zenon DEF f, G
<1>6. CASE k # 1
  <2>0. k - 1 \in 1 .. c /\ k - 1 < k
    BY <1>1, <1>6, <1>k
  <2>1. f[k - 1] \in before
    BY <1>2, <1>k, <2>0
  <2>2. \A x \in before : x <= f[k - 1]
    <3> SUFFICES ASSUME NEW x \in before PROVE x <= f[k - 1]
      OBVIOUS
    <3>1. PICK i \in 1 .. c : f[i] = x
      BY <1>2
    <3>2. ~(k < i) /\ i # k
      BY <1>2, <1>3, <1>k, <3>1
    <3>3. i = k - 1 \/ i < k - 1
      BY <1>k, <3>1, <3>2
    <3> QED BY <1>2, <1>3, <2>0, <3>1, <3>3
  <2>3. before \in SUBSET Nat
    <3>1. 1 .. N \subseteq Nat
      OBVIOUS
    <3> QED BY <1>1, <3>1, Zenon
  <2> HIDE DEF before
  <2>4. Max(before) = f[k - 1]
    BY <2>1, <2>2, <2>3, MaxIs
  <2>5. before # {}
    BY <2>1
  <2>6. ArrivalBefore(told, f[k]) = received[told[f[k - 1]]]
    BY <1>4, <2>4, <2>5, Zenon
  <2> QED BY <1>6, <2>6, Zenon DEF f, G
<1> QED BY <1>5, <1>6

\* What a feedback decodes to is what it was made of: a packet is told as received if it was, and
\* the deltas add up to the time of its arrival.
LEMMA FeedbackDecodes ==
  ASSUME NEW N \in Nat \ {0}, NEW told \in [1 .. N -> Numbers], Noting, TimelyFeedback, NEW m,
         m.reference = Reference(told), m.chunks = Chunks(Statuses(told)), m.deltas = Deltas(told)
  PROVE  /\ Symbols(m) \in Seq(Symbol) /\ Len(Symbols(m)) = N
         /\ \A i \in 1 .. N : Symbols(m)[i] # "not" <=> i \in Got(told)
         /\ \A i \in Got(told) : DeltaOf(m, i) # NoDelta /\ RemoteTime(m, i) = received[told[i]]
<1> DEFINE G == Got(told)
           c == Cardinality(G)
           f == Ascending(G)
           s == Statuses(told)
           D == m.deltas
<1>0. DOMAIN told = 1 .. N
  OBVIOUS
<1>1. G \in SUBSET (1 .. N) /\ c \in Nat
  <2>1. G \in SUBSET (1 .. N)
    BY <1>0 DEF Got
  <2> HIDE DEF G
  <2> QED BY <2>1, SubsetOfRange
<1>2. /\ s \in Seq(Symbol) /\ Len(s) = N
      /\ \A i \in 1 .. N : s[i] # "not" <=> i \in G
  BY StatusesAre
<1>3. Symbols(m) = s
  <2>1. Len(s) >= 1
    BY <1>2
  <2> HIDE DEF s
  <2> QED BY <1>2, <2>1, ChunksDecode DEF s
<1>d. {i \in DOMAIN told : s[i] # "not"} = G
  BY <1>0, <1>1, <1>2
<1> HIDE DEF G, s
<1>4. /\ f \in [1 .. c -> G]
      /\ \A i \in 1 .. c : f[i] \in G
      /\ \A i, j \in 1 .. c : i < j => f[i] < f[j]
      /\ \A x \in G : \E i \in 1 .. c : f[i] = x
  BY <1>1, AscendingIs DEF Ascends
<1>5. D = [k \in DOMAIN f |-> Delta(told, f[k])]
  BY <1>d DEF Deltas, s
<1>6. \A k \in 1 .. c : D[k] = Delta(told, f[k])
  BY <1>4, <1>5
<1>7. ASSUME NEW k \in 1 .. c
      PROVE  Cardinality({j \in 1 .. f[k] : Symbols(m)[j] # "not"}) = k
  <2>1. f[k] \in 1 .. N
    BY <1>1, <1>4
  <2>2. {j \in 1 .. f[k] : Symbols(m)[j] # "not"} = {j \in G : j <= f[k]}
    <3>1. ASSUME NEW j PROVE (j \in 1 .. f[k] /\ s[j] # "not") <=> (j \in G /\ j <= f[k])
      <4>1. j \in 1 .. f[k] <=> j \in 1 .. N /\ j <= f[k]
        BY <2>1
      <4> QED BY <1>1, <1>2, <4>1
    <3> QED BY <1>3, <3>1
  <2> QED BY <1>1, <2>2, AscendingRank
<1>8. ASSUME NEW k \in 1 .. c
      PROVE  /\ D[k] \in Int /\ D[k] # NoDelta
             /\ D[k] = received[told[f[k]]] - ArrivalBefore(told, f[k])
             /\ ArrivalBefore(told, f[k]) \in Int /\ received[told[f[k]]] \in Int
  <2>1. f[k] \in Got(told)
    BY <1>4 DEF G
  <2>2. /\ D[k] \in -LargeDelta .. LargeDelta
        /\ D[k] = received[told[f[k]]] - ArrivalBefore(told, f[k])
        /\ ArrivalBefore(told, f[k]) \in Int
    BY <1>6, <2>1, DeltaFits
  <2>3. LargeDelta \in Nat /\ NoDelta = -LargeDelta - 1
    BY TwccAssumption DEF NoDelta
  <2>4. received[told[f[k]]] \in Int
    BY <2>1, GotFacts
  <2> QED BY <2>2, <2>3, <2>4
<1> HIDE DEF D, f, c
<1> DEFINE ref == Reference(told) * ReferenceUnit
           t(k) == IF k = 0 THEN ref ELSE received[told[f[k]]]
<1>9. \A k \in 1 .. c : t(k) = t(k - 1) + D[k]
  <2> SUFFICES ASSUME NEW k \in 1 .. c PROVE t(k) = t(k - 1) + D[k]
    OBVIOUS
  <2>1. ArrivalBefore(told, f[k]) =
          IF k = 1 THEN Reference(told) * ReferenceUnit ELSE received[told[f[k - 1]]]
    BY ArrivalBeforeKth DEF f, c, G
  <2>2. t(k - 1) = ArrivalBefore(told, f[k])
    BY <1>1, <2>1
  <2>3. t(k) = received[told[f[k]]]
    BY <1>1
  <2> DEFINE x == t(k)
             y == t(k - 1)
  <2>4. x \in Int /\ y \in Int /\ D[k] = x - y
    BY <1>8, <2>2, <2>3
  <2> HIDE DEF x, y, t
  <2>5. x = y + D[k]
    BY <2>4
  <2> QED BY <2>5 DEF x, y
<1> HIDE DEF t, ref
<1>10. ASSUME NEW k \in 1 .. c
       PROVE  DeltaOf(m, f[k]) # NoDelta /\ RemoteTime(m, f[k]) = received[told[f[k]]]
  <2>1. DeltaOf(m, f[k]) = D[k]
    BY <1>7 DEF DeltaOf, D
  <2> DEFINE step(l) == IF D[l] = NoDelta THEN 0 ELSE D[l]
             Eq(g) == g = [l \in 0 .. k |-> IF l = 0 THEN ref ELSE g[l - 1] + step(l)]
             w == [l \in 0 .. k |-> t(l)]
  <2>2. k \in Nat /\ 0 \in 0 .. k /\ \A l \in 0 .. k : l # 0 => l - 1 \in 0 .. k /\ l \in 1 .. c
    BY <1>1
  <2>3. \A l \in 1 .. c : step(l) = D[l]
    BY <1>8
  <2> HIDE DEF step
  <2>4. Eq(w)
    <3>1. \A l \in 0 .. k : t(l) = IF l = 0 THEN ref ELSE w[l - 1] + step(l)
      <4> TAKE l \in 0 .. k
      <4>1. CASE l = 0
        BY <4>1 DEF t
      <4>2. CASE l # 0
        <5>1. w[l - 1] = t(l - 1) /\ l \in 1 .. c
          BY <2>2, <4>2
        <5> QED BY <1>9, <2>3, <4>2, <5>1
      <4> QED BY <4>1, <4>2
    <3> QED BY <3>1, Zenon
  <2> DEFINE g == CHOOSE h : Eq(h)
  <2>5. Eq(g)
    BY <2>4
  <2>6. RemoteTime(m, f[k]) = g[k]
    BY <1>7 DEF RemoteTime, D, ref, step
  <2> HIDE DEF g
  <2>7. g[0] = ref /\ \A l \in 1 .. k : g[l] = g[l - 1] + D[l]
    <3>1. \A l \in 0 .. k : g[l] = IF l = 0 THEN ref ELSE g[l - 1] + step(l)
      BY <2>5, Zenon
    <3>2. \A l \in 1 .. k : l \in 0 .. k /\ l # 0 /\ l \in 1 .. c
      BY <1>1
    <3> QED BY <2>2, <2>3, <3>1, <3>2
  <2> DEFINE T == {l \in Nat : l <= k => g[l] = t(l)}
  <2>8. 0 \in T
    BY <2>7 DEF t
  <2>9. ASSUME NEW l \in T PROVE l + 1 \in T
    <3> SUFFICES ASSUME l + 1 <= k PROVE g[l + 1] = t(l + 1)
      OBVIOUS
    <3> DEFINE j == l + 1
    <3>1. l \in Nat /\ j \in 1 .. k /\ j \in 1 .. c /\ j - 1 = l /\ l <= k
      BY <1>1, <2>2
    <3>2. g[l] = t(l)
      BY <3>1
    <3> HIDE DEF j
    <3>3. g[j] = t(j)
      BY <1>9, <2>7, <3>1, <3>2
    <3> QED BY <3>3 DEF j
  <2>10. T = Nat
    <3>1. T \in SUBSET Nat
      OBVIOUS
    <3> HIDE DEF T
    <3> QED BY <2>8, <2>9, <3>1, InductionOver
  <2>11. g[k] = t(k)
    <3>1. k \in T /\ k <= k
      BY <2>2, <2>10
    <3> QED BY <3>1
  <2>12. t(k) = received[told[f[k]]]
    BY <2>2 DEF t
  <2> QED BY <1>8, <2>1, <2>6, <2>11, <2>12
<1>11. \A i \in G : DeltaOf(m, i) # NoDelta /\ RemoteTime(m, i) = received[told[i]]
  BY <1>4, <1>10
<1> QED BY <1>2, <1>3, <1>11 DEF G

-----------------------------------------------------------------------------
(* The inductive invariant                                                 *)

\* the numbers taken so far
Used == {n \in Numbers : (numbered.next - n - 1) % TwccSpace < numbered.count}

\* the packet n has its number and not its entry
Underway(n) ==
  \/ out["writer"].num = n \/ out["pacer"].num = n
  \/ \E i \in 1 .. Len(paced) : paced[i] = n

\* Who has a number.
NumberInv ==
  /\ budget \in Budgets /\ numbered.next \in Numbers /\ numbered.count \in Nat
  /\ numbered.count <= budget.packets /\ clock \in Nat
  /\ paced \in Seq(Used) /\ packets \subseteq Used /\ resent \subseteq Used /\ delivered \subseteq Used
  /\ out \in [Threads -> [num : Used \cup {None}, sentTime : Nat \cup {None}]]
  /\ out["resender"].num \in resent \cup {None}
  /\ table \in [Numbers -> [localTime : Nat \cup {None}, remoteTime : {Lost}]]
  /\ \A n \in Numbers : table[n] # NoEntry => n \in Used

\* A number is used for one packet: it is in one place at a time, and its entry is made once.
OnceInv ==
  /\ \A i, j \in 1 .. Len(paced) : paced[i] = paced[j] => i = j
  /\ \A i \in 1 .. Len(paced) : paced[i] # out["writer"].num /\ paced[i] # out["pacer"].num
  /\ out["writer"].num = out["pacer"].num => out["writer"].num = None
  /\ \A n \in Numbers \ resent : Underway(n) => table[n] = NoEntry /\ n \notin delivered
  /\ \A n \in delivered \ resent : table[n] = NoEntry

\* What the receiver has noted has arrived at that time.
ReceiveInv ==
  /\ Noting /\ baseTimeKvs \in Nat \cup {None} /\ baseTimeKvs <= clock
  /\ firstPacketReceived \in BOOLEAN /\ firstSeqNum \in Numbers /\ lastSeqNum \in Numbers
  /\ arrivals \in [Numbers -> SUBSET Nat]
  /\ \A n \in Numbers : received[n] # None =>
       baseTimeKvs # None /\ received[n] + baseTimeKvs \in arrivals[n]

\* A feedback tells as received what has arrived, with the time of its arrival.
Truthful(m) ==
  /\ baseTimeKvs # None /\ m.baseSeqNum \in Numbers
  /\ Symbols(m) \in Seq(Symbol) /\ Len(Symbols(m)) \in 1 .. TwccSpace - 1
  /\ \A i \in 1 .. Len(Symbols(m)) : Symbols(m)[i] # "not" =>
       /\ DeltaOf(m, i) # NoDelta /\ RemoteTime(m, i) \in Nat
       /\ RemoteTime(m, i) + baseTimeKvs \in arrivals[NumberAt(m, i)]

FeedbackInv == \A m \in feedback : Truthful(m)

TwccInv == NumberInv /\ OnceInv /\ ReceiveInv /\ FeedbackInv /\ ReceivedIsTrue

\* how many numbers were taken after n
Back(n) == (numbered.next - n - 1) % TwccSpace

\* The window of the next feedback holds all that was noted.
WindowInv ==
  /\ firstPacketReceived =>
       firstSeqNum \in Used /\ lastSeqNum \in Used /\ Back(lastSeqNum) <= Back(firstSeqNum)
  /\ \A n \in Numbers : received[n] # None =>
       /\ firstPacketReceived /\ n \in Used
       /\ Back(lastSeqNum) <= Back(n) /\ Back(n) <= Back(firstSeqNum)

\* An arrival is noted, told by a feedback in the network, or was told.
KnownInv ==
  \A n \in Numbers : arrivals[n] # {} =>
    \/ received[n] # None \/ ToldBy(n) # {}
    \/ n \in missed \/ n \in resent \/ n \in delivered

-----------------------------------------------------------------------------
(* Remainders and the order of numbers                                     *)

LEMMA RemainderIs ==
  ASSUME NEW S \in Nat \ {0}, NEW a \in Int, NEW r, r = a % S
  PROVE  r \in 0 .. S - 1 /\ \E q \in Int : S * q \in Int /\ a = S * q + r
<1> DEFINE k == a \div S
           x == S * k
<1>1. r \in 0 .. S - 1 /\ k \in Int /\ a - x = r
  OBVIOUS
<1> HIDE DEF k
<1>2. x \in Int
  BY <1>1
<1> HIDE DEF x
<1>3. r \in Int
  BY <1>1
<1>4. \A u, v \in Int : a - u = v => a = u + v
  OBVIOUS
<1>5. a = x + r
  BY <1>1, <1>2, <1>3, <1>4
<1>6. S * k \in Int /\ a = S * k + r
  BY <1>2, <1>5, Zenon DEF x
<1> QED BY <1>1, <1>6, Zenon

LEMMA RemainderUnique ==
  ASSUME NEW S \in Nat \ {0}, NEW q \in Int, NEW r \in 0 .. S - 1
  PROVE  (S * q + r) % S = r
OBVIOUS

\* A remainder may be taken before the rest is added.
LEMMA RemainderSum ==
  ASSUME NEW S \in Nat \ {0}, NEW a \in Int, NEW b \in Int
  PROVE  ((a % S) + b) % S = (a + b) % S
<1> DEFINE r == a % S
           z == (r + b) % S
<1>r. r = a % S
  OBVIOUS
<1> HIDE DEF r
<1>1. PICK q \in Int : r \in 0 .. S - 1 /\ S * q \in Int /\ a = S * q + r
  BY ZenonT(60), <1>r, RemainderIs
<1>2. r + b \in Int /\ z = (r + b) % S
  BY <1>1
<1> HIDE DEF z
<1>3. PICK p \in Int : z \in 0 .. S - 1 /\ S * p \in Int /\ r + b = S * p + z
  <2> DEFINE x == r + b
  <2>1. x \in Int /\ z = x % S
    BY <1>2
  <2> HIDE DEF x
  <2>2. PICK p \in Int : z \in 0 .. S - 1 /\ S * p \in Int /\ x = S * p + z
    BY <2>1, RemainderIs, ZenonT(60)
  <2> QED BY <2>2 DEF x
<1>4. q + p \in Int /\ S * (q + p) = S * q + S * p
  BY <1>1, <1>3
<1>5. a + b = S * (q + p) + z
  BY <1>1, <1>3, <1>4
<1>6. (S * (q + p) + z) % S = z
  BY <1>3, <1>4, RemainderUnique
<1> QED BY <1>5, <1>6 DEF z, r

LEMMA RemainderDifference ==
  ASSUME NEW S \in Nat \ {0}, NEW a \in Int, NEW b \in Int
  PROVE  ((a % S) - (b % S)) % S = (a - b) % S
<1> DEFINE r == b % S
<1>r. r = b % S
  OBVIOUS
<1> HIDE DEF r
<1>1. PICK q \in Int : r \in 0 .. S - 1 /\ S * q \in Int /\ b = S * q + r
  BY <1>r, RemainderIs
<1>2. ((a % S) + (-r)) % S = (a + (-r)) % S
  <2>1. -r \in Int
    BY <1>1
  <2> QED BY <2>1, RemainderSum
<1>3. a % S \in Int /\ (a % S) + (-r) = (a % S) - r /\ a + (-r) = a - r
  BY <1>1
<1> DEFINE z == (a - r) % S
<1>4. a - r \in Int /\ z = (a - r) % S
  BY <1>1
<1> HIDE DEF z
<1>5. PICK p \in Int : z \in 0 .. S - 1 /\ S * p \in Int /\ a - r = S * p + z
  <2> DEFINE x == a - r
  <2>1. x \in Int /\ z = x % S
    BY <1>4
  <2> HIDE DEF x
  <2>2. PICK p \in Int : z \in 0 .. S - 1 /\ S * p \in Int /\ x = S * p + z
    BY <2>1, RemainderIs, ZenonT(60)
  <2> QED BY <2>2 DEF x
<1>6. p - q \in Int /\ S * (p - q) = S * p - S * q
  BY <1>1, <1>5
<1>7. a - b = S * (p - q) + z
  BY <1>1, <1>5, <1>6
<1>8. (S * (p - q) + z) % S = z
  BY <1>5, <1>6, RemainderUnique
<1> QED BY <1>2, <1>3, <1>7, <1>8 DEF z, r

\* A number less than a turn from 0, in either direction.
LEMMA RemainderNear ==
  ASSUME NEW S \in Nat \ {0}, NEW a \in 1 - S .. S - 1
  PROVE  a % S = IF a >= 0 THEN a ELSE a + S
<1>1. CASE a >= 0
  <2>1. (S * 0 + a) % S = a
    BY <1>1, RemainderUnique
  <2>2. S * 0 + a = a
    OBVIOUS
  <2> QED BY <1>1, <2>1, <2>2
<1>2. CASE a < 0
  <2>1. a + S \in 0 .. S - 1 /\ -1 \in Int
    BY <1>2
  <2>2. (S * (-1) + (a + S)) % S = a + S
    BY <2>1, RemainderUnique
  <2>3. S * (-1) + (a + S) = a
    OBVIOUS
  <2> QED BY <1>2, <2>2, <2>3
<1> QED BY <1>1, <1>2

LEMMA SpaceFacts ==
  /\ TwccSpace \in Nat \ {0} /\ TwccSpace > 1 /\ TwccSpace \div 2 \in Nat
  /\ 2 * (TwccSpace \div 2) = TwccSpace
  /\ \A b \in Budgets : b.packets \in Nat /\ b.packets < TwccSpace \div 2
<1>1. TwccSpace \in Nat /\ TwccSpace > 1 /\ TwccSpace % 2 = 0
  BY TwccAssumption
<1>2. TwccSpace \div 2 \in Nat /\ 2 * (TwccSpace \div 2) = TwccSpace
  BY <1>1
<1>3. ASSUME NEW b \in Budgets PROVE b.packets \in Nat /\ b.packets < TwccSpace \div 2
  <2>1. b.packets \in 0 .. TwccSpace \div 2 - 1
    BY TwccAssumption
  <2> QED BY <1>2, <2>1
<1> QED BY <1>1, <1>2, <1>3

LEMMA BackRange ==
  ASSUME NumberInv
  PROVE  /\ \A n \in Numbers : Back(n) \in 0 .. TwccSpace - 1 /\ (n \in Used <=> Back(n) < numbered.count)
         /\ Used \subseteq Numbers /\ numbered.count \in Nat /\ numbered.count < TwccSpace \div 2
<1>1. numbered.next \in Numbers /\ numbered.count \in Nat /\ numbered.count <= budget.packets /\ budget \in Budgets
  BY DEF NumberInv
<1>2. numbered.count < TwccSpace \div 2
  BY <1>1, SpaceFacts
<1>3. ASSUME NEW n \in Numbers PROVE Back(n) \in 0 .. TwccSpace - 1
  <2> DEFINE a == numbered.next - n - 1
  <2>1. a \in Int
    BY <1>1, SpaceFacts DEF Numbers
  <2> HIDE DEF a
  <2>2. a % TwccSpace \in 0 .. TwccSpace - 1
    BY <2>1, SpaceFacts
  <2> QED BY <2>2 DEF a, Back
<1> QED BY <1>1, <1>2, <1>3 DEF Used, Back

\* The next number is the one that stands a whole turn back.
LEMMA NextIsFurthest ==
  ASSUME NumberInv, NEW n \in Numbers
  PROVE  Back(n) = TwccSpace - 1 <=> n = numbered.next
<1> DEFINE S == TwccSpace
           a == numbered.next - n - 1
<1>1. numbered.next \in 0 .. S - 1 /\ n \in 0 .. S - 1 /\ S \in Nat \ {0} /\ S > 1
  BY SpaceFacts DEF NumberInv, Numbers
<1>2. Back(n) = a % S
  BY DEF Back
<1>3. a \in -S .. S - 2 /\ (a = -1 <=> n = numbered.next)
  BY <1>1
<1> HIDE DEF a, S
<1>4. CASE a = -S
  <2>1. (S * (-1) + 0) % S = 0
    BY <1>1, RemainderUnique
  <2>2. S * (-1) + 0 = -S
    BY <1>1
  <2> QED BY <1>1, <1>2, <1>3, <1>4, <2>1, <2>2 DEF S
<1>5. CASE a # -S
  <2>1. a \in 1 - S .. S - 1
    BY <1>1, <1>3, <1>5
  <2>2. a % S = IF a >= 0 THEN a ELSE a + S
    BY <1>1, <2>1, RemainderNear
  <2>3. a % S = S - 1 <=> a = -1
    BY <1>1, <1>3, <2>1, <2>2
  <2> QED BY <1>2, <1>3, <2>3 DEF S
<1> QED BY <1>4, <1>5

\* A number that is taken is new, and moves the others back by one.
LEMMA Taken ==
  ASSUME NumberInv, TakeNumber
  PROVE  /\ Used' = Used \cup {numbered.next} /\ numbered.next \notin Used
         /\ numbered.next \in Numbers /\ numbered'.next \in Numbers /\ numbered'.count \in Nat
         /\ numbered'.count <= budget.packets /\ numbered'.count = numbered.count + 1
         /\ \A n \in Used : Back(n)' = Back(n) + 1
<1> DEFINE S == TwccSpace
           a(n) == numbered.next - n - 1
<1>1. /\ numbered.next \in Numbers /\ numbered.count \in Nat /\ numbered.count < budget.packets
      /\ budget \in Budgets /\ budget.packets \in Nat /\ budget.packets < TwccSpace \div 2
      /\ S \in Nat \ {0} /\ S > 1 /\ S \div 2 \in Nat /\ 2 * (S \div 2) = S
  BY SpaceFacts DEF NumberInv, TakeNumber
<1>2. numbered'.next = (numbered.next + 1) % S /\ numbered'.count = numbered.count + 1
  BY DEF TakeNumber
<1>3. numbered'.next \in Numbers /\ numbered'.count \in Nat /\ numbered'.count <= budget.packets
  <2>1. numbered.next + 1 \in Int
    BY <1>1 DEF Numbers
  <2>2. (numbered.next + 1) % S \in 0 .. S - 1
    BY <1>1, <2>1
  <2> QED BY <1>1, <1>2, <2>2 DEF Numbers
<1>4. ASSUME NEW n \in Numbers
      PROVE  Back(n)' = IF Back(n) + 1 < S THEN Back(n) + 1 ELSE 0
  <2> DEFINE b == -n - 1
             x == numbered.next + 1
             y == a(n)
  <2>1. x \in Int /\ b \in Int /\ y \in Int /\ x + b = y + 1 /\ (x % S) \in Int /\ (x % S) - n - 1 = (x % S) + b
    BY <1>1 DEF Numbers
  <2>2. Back(n)' = ((x % S) - n - 1) % S
    BY <1>2 DEF Back
  <2> HIDE DEF x, b, y
  <2>3. ((x % S) + b) % S = (x + b) % S
    BY <1>1, <2>1, RemainderSum
  <2>4. ((y % S) + 1) % S = (y + 1) % S
    <3> DEFINE o == 1
    <3>1. o \in Int
      OBVIOUS
    <3> HIDE DEF o
    <3>2. ((y % S) + o) % S = (y + o) % S
      BY <1>1, <2>1, <3>1, RemainderSum
    <3> QED BY <3>2 DEF o
  <2>5. Back(n)' = (Back(n) + 1) % S
    BY <2>1, <2>2, <2>3, <2>4 DEF Back, y
  <2>6. Back(n) \in 0 .. S - 1
    BY BackRange
  <2>7. CASE Back(n) + 1 < S
    <3>1. Back(n) + 1 \in 1 - S .. S - 1 /\ Back(n) + 1 >= 0
      BY <1>1, <2>6, <2>7
    <3> QED BY <1>1, <2>5, <2>7, <3>1, RemainderNear
  <2>8. CASE ~(Back(n) + 1 < S)
    <3>1. Back(n) + 1 = S
      BY <1>1, <2>6, <2>8
    <3>2. S % S = 0
      BY <1>1
    <3> QED BY <2>5, <2>8, <3>1, <3>2
  <2> QED BY <2>7, <2>8
<1>c. numbered.count < S - 1 /\ ~(S - 1 < numbered.count)
  BY <1>1
<1> HIDE DEF S
<1>5. ASSUME NEW n \in Numbers
      PROVE  n \in Used' <=> n \in Used \/ n = numbered.next
  <2>1. n \in Used' <=> Back(n)' < numbered.count + 1
    <3>1. Numbers' = Numbers
      BY DEF Numbers
    <3> QED BY <1>2, <3>1 DEF Used, Back
  <2>2. n \in Used <=> Back(n) < numbered.count
    BY BackRange
  <2>3. Back(n) \in 0 .. S - 1 /\ (Back(n) = S - 1 <=> n = numbered.next)
    BY BackRange, NextIsFurthest DEF S
  <2> QED BY <1>1, <1>4, <2>1, <2>2, <2>3
<1>6. numbered.next \notin Used
  <2>1. Back(numbered.next) = S - 1
    BY <1>1, NextIsFurthest DEF S
  <2>2. numbered.next \in Used <=> Back(numbered.next) < numbered.count
    BY <1>1, BackRange
  <2> QED BY <1>c, <2>1, <2>2
<1>7. Used' \subseteq Numbers /\ Used \subseteq Numbers
  BY DEF Used, Numbers
<1>8. Used' = Used \cup {numbered.next}
  BY <1>1, <1>5, <1>7
<1>9. \A n \in Used : Back(n)' = Back(n) + 1
  <2> TAKE n \in Used
  <2>1. n \in Numbers /\ Back(n) < numbered.count /\ Back(n) \in 0 .. S - 1
    BY <1>7, BackRange DEF S
  <2>2. Back(n) + 1 < S
    BY <1>1, <1>c, <2>1
  <2> QED BY <1>4, <2>1, <2>2
<1> QED BY <1>1, <1>2, <1>3, <1>6, <1>8, <1>9

-----------------------------------------------------------------------------
(* NumberInv and OnceInv                                                   *)

LEMMA InitNumbers ==
  ASSUME TwccInit
  PROVE  NumberInv /\ OnceInv
<1>1. PICK n \in FirstNumbers : numbered = [next |-> n, count |-> 0]
  BY DEF TwccInit
<1>2. /\ n \in Numbers /\ budget \in Budgets /\ budget.packets \in Nat
      /\ numbered.next \in Numbers /\ numbered.count = 0 /\ clock = 0
  BY <1>1, TwccAssumption, SpaceFacts DEF TwccInit, Numbers
<1>3. /\ paced = <<>> /\ packets = {} /\ resent = {} /\ delivered = {}
      /\ out = [t \in Threads |-> NoPacket] /\ table = [k \in Numbers |-> NoEntry]
  BY DEF TwccInit
<1>4. paced \in Seq(Used) /\ Len(paced) = 0
  BY <1>3
<1>5. \A t \in Threads : out[t].num = None /\ out[t].sentTime = None
  BY <1>3 DEF NoPacket
<1>6. out \in [Threads -> [num : Used \cup {None}, sentTime : Nat \cup {None}]]
  BY <1>3 DEF NoPacket
<1>7. table \in [Numbers -> [localTime : Nat \cup {None}, remoteTime : {Lost}]]
  BY <1>3 DEF NoEntry
<1>8. \A k \in Numbers : table[k] = NoEntry
  BY <1>3
<1>9. NumberInv
  BY <1>2, <1>3, <1>4, <1>5, <1>6, <1>7, <1>8 DEF NumberInv, Threads
<1>10. OnceInv
  BY <1>3, <1>4, <1>5, <1>8 DEF OnceInv, Threads
<1> QED BY <1>9, <1>10

\* Steps that leave the sender alone.
LEMMA SenderKeeps ==
  ASSUME NumberInv, OnceInv, budget' = budget, numbered' = numbered, clock' \in Nat, paced' = paced,
         out' = out, table' = table, packets' \subseteq packets, resent' = resent,
         delivered' = delivered
  PROVE  NumberInv' /\ OnceInv' /\ Used' = Used
<1>1. Used' = Used
  BY DEF Used, Numbers
<1>2. NumberInv'
  BY <1>1 DEF NumberInv, Numbers
<1>3. OnceInv'
  BY DEF OnceInv, Underway, Numbers
<1> QED BY <1>1, <1>2, <1>3

\* the entry of a packet is made, or not made
LEMMA EntryKeeps ==
  ASSUME NumberInv, OnceInv, NEW t \in Threads, out' = [out EXCEPT ![t] = NoPacket],
         budget' = budget, numbered' = numbered, clock' = clock, paced' = paced,
         packets' = packets, resent' = resent, delivered' = delivered,
         table' \in [Numbers -> [localTime : Nat \cup {None}, remoteTime : {Lost}]],
         \A n \in Numbers : table'[n] # NoEntry => table[n] # NoEntry \/ n = out[t].num
  PROVE  NumberInv' /\ OnceInv' /\ Used' = Used
<1>1. Used' = Used
  BY DEF Used, Numbers
<1>2. /\ out \in [Threads -> [num : Used \cup {None}, sentTime : Nat \cup {None}]]
      /\ \A u \in Threads : out'[u] = IF u = t THEN NoPacket ELSE out[u]
  BY DEF NumberInv
<1>3. /\ out' \in [Threads -> [num : Used \cup {None}, sentTime : Nat \cup {None}]]
      /\ \A u \in Threads : out'[u].num = IF u = t THEN None ELSE out[u].num
  BY <1>2 DEF NoPacket
<1>4. /\ "writer" \in Threads /\ "pacer" \in Threads /\ "resender" \in Threads
      /\ t = "writer" \/ t = "pacer" \/ t = "resender"
  BY DEF Threads
<1>5. out[t].num \in Used \cup {None} /\ None \notin Numbers
  BY <1>2 DEF Numbers, None
<1>6. NumberInv'
  <2>1. \A n \in Numbers : table'[n] # NoEntry => n \in Used
    BY <1>5 DEF NumberInv
  <2>2. out'["resender"].num \in resent \cup {None}
    BY <1>3, <1>4 DEF NumberInv
  <2>3. Numbers' = Numbers
    BY DEF Numbers
  <2> QED BY <1>1, <1>3, <2>1, <2>2, <2>3 DEF NumberInv
<1>p. \A i \in 1 .. Len(paced) : paced[i] \in Used /\ paced[i] # None
  BY <1>5 DEF NumberInv, Used
<1>7. /\ \A i, j \in 1 .. Len(paced') : paced'[i] = paced'[j] => i = j
      /\ \A i \in 1 .. Len(paced') : paced'[i] # out'["writer"].num /\ paced'[i] # out'["pacer"].num
      /\ out'["writer"].num = out'["pacer"].num => out'["writer"].num = None
  BY <1>3, <1>4, <1>p DEF OnceInv
<1>8. ASSUME NEW n \in Numbers \ resent, Underway(n)' PROVE table'[n] = NoEntry /\ n \notin delivered
  <2>1. n # None
    BY <1>5
  <2>2. Underway(n)
    BY <1>3, <1>4, <1>8, <2>1 DEF Underway
  <2>3. n # out[t].num
    <3>1. CASE t = "writer"
      BY <1>3, <1>4, <1>8, <2>1, <3>1 DEF Underway, OnceInv
    <3>2. CASE t = "pacer"
      BY <1>3, <1>4, <1>8, <2>1, <3>2 DEF Underway, OnceInv
    <3>3. CASE t = "resender"
      BY <2>1, <3>3 DEF NumberInv
    <3> QED BY <1>4, <3>1, <3>2, <3>3
  <2> QED BY <2>2, <2>3 DEF OnceInv
<1>9. ASSUME NEW n \in delivered \ resent PROVE table'[n] = NoEntry
  <2>1. n \in Numbers /\ n # None
    BY <1>5 DEF NumberInv, Used
  <2>2. n # out[t].num
    <3>1. CASE t = "writer"
      BY <2>1, <3>1 DEF Underway, OnceInv
    <3>2. CASE t = "pacer"
      BY <2>1, <3>2 DEF Underway, OnceInv
    <3>3. CASE t = "resender"
      BY <2>1, <3>3 DEF NumberInv
    <3> QED BY <1>4, <3>1, <3>2, <3>3
  <2> QED BY <2>1, <2>2 DEF OnceInv
<1>10. OnceInv'
  <2>1. Numbers' = Numbers
    BY DEF Numbers
  <2> QED BY <1>7, <1>8, <1>9, <2>1 DEF OnceInv
<1> QED BY <1>1, <1>6, <1>10

\* A thread takes a packet over: a new one, or the head of the queue.
LEMMA TransmitKeeps ==
  ASSUME NumberInv, OnceInv, budget' = budget, clock' = clock, table' = table, resent' = resent,
         delivered' = delivered, NEW t \in {"writer", "pacer"}, NEW n \in Numbers, out[t].num = None,
         Transmit(t, n), n \in Used', Used \subseteq Used', n \notin resent => table[n] = NoEntry /\ n \notin delivered,
         numbered'.next \in Numbers, numbered'.count \in Nat, numbered'.count <= budget.packets,
         paced' \in Seq(Used'), \A i, j \in 1 .. Len(paced') : paced'[i] = paced'[j] => i = j,
         \A i \in 1 .. Len(paced') : paced'[i] # n /\ \E j \in 1 .. Len(paced) : paced'[i] = paced[j],
         \A u \in {"writer", "pacer"} : out[u].num # n
  PROVE  NumberInv' /\ OnceInv'
<1> DEFINE Out == [num : Used \cup {None}, sentTime : Nat \cup {None}]
           Outp == [num : Used' \cup {None}, sentTime : Nat \cup {None}]
<1>0. "writer" \in Threads /\ "pacer" \in Threads /\ "resender" \in Threads /\ t \in Threads
  BY DEF Threads
<1>1. out \in [Threads -> Out] /\ clock \in Nat /\ None \notin Numbers
  BY DEF NumberInv, None, Numbers
<1>2. /\ out' = out \/ out' = [out EXCEPT ![t] = [num |-> n, sentTime |-> clock]]
      /\ packets' \subseteq packets \cup {n}
  BY DEF Transmit
<1>3. out \in [Threads -> Outp]
  BY <1>1
<1>4. [num |-> n, sentTime |-> clock] \in Outp
  BY <1>1
<1>5. out' \in [Threads -> Outp]
  BY <1>2, <1>3, <1>4
<1>6. \A u \in Threads : out'[u].num = out[u].num \/ (u = t /\ out'[u].num = n)
  BY <1>0, <1>1, <1>2
<1>7. NumberInv'
  <2>1. out'["resender"].num \in resent \cup {None}
    <3>1. "resender" # t
      OBVIOUS
    <3> QED BY <1>0, <1>6, <3>1 DEF NumberInv
  <2>2. /\ packets' \subseteq Used' /\ resent \subseteq Used' /\ delivered \subseteq Used'
        /\ \A k \in Numbers : table[k] # NoEntry => k \in Used'
    BY <1>2 DEF NumberInv
  <2>3. Numbers' = Numbers
    BY DEF Numbers
  <2> QED BY <1>1, <1>5, <2>1, <2>2, <2>3 DEF NumberInv
<1>8. /\ \A i \in 1 .. Len(paced') : paced'[i] # out'["writer"].num /\ paced'[i] # out'["pacer"].num
      /\ out'["writer"].num = out'["pacer"].num => out'["writer"].num = None
  <2>1. \A i \in 1 .. Len(paced') : paced'[i] # out["writer"].num /\ paced'[i] # out["pacer"].num
    BY DEF OnceInv
  <2>2. out["writer"].num = out["pacer"].num => out["writer"].num = None
    BY DEF OnceInv
  <2> QED BY <1>0, <1>6, <2>1, <2>2
<1>9. ASSUME NEW k \in Numbers \ resent, Underway(k)' PROVE table[k] = NoEntry /\ k \notin delivered
  <2>1. k = n \/ Underway(k)
    BY <1>0, <1>6, <1>9 DEF Underway
  <2> QED BY <2>1 DEF OnceInv
<1>10. OnceInv'
  <2>1. Numbers' = Numbers
    BY DEF Numbers
  <2>2. \A k \in delivered \ resent : table[k] = NoEntry
    BY DEF OnceInv
  <2> QED BY <1>8, <1>9, <2>1, <2>2 DEF OnceInv
<1> QED BY <1>7, <1>10

LEMMA SendAtOnceNumbers ==
  ASSUME NumberInv, OnceInv, SendAtOnce
  PROVE  NumberInv' /\ OnceInv'
<1> DEFINE n == numbered.next
<1>1. /\ TakeNumber /\ Transmit("writer", n) /\ budget' = budget /\ clock' = clock /\ table' = table
      /\ resent' = resent /\ delivered' = delivered /\ paced' = paced
  BY DEF SendAtOnce, twccTold
<1>2. /\ Used' = Used \cup {n} /\ n \notin Used /\ n \in Numbers /\ numbered'.next \in Numbers
      /\ numbered'.count \in Nat /\ numbered'.count <= budget.packets
  BY <1>1, Taken
<1>3. out["writer"].num = None
  BY <1>1 DEF TakeNumber, SrtpSessionFree, NoPacket
<1>4. paced \in Seq(Used) /\ Used \subseteq Used' /\ n \in Used'
  BY <1>2 DEF NumberInv
<1>5. /\ \A i \in 1 .. Len(paced) : paced[i] \in Used /\ paced[i] # n
      /\ paced \in Seq(Used')
  BY <1>2, <1>4
<1>6. table[n] = NoEntry /\ n \notin delivered
  BY <1>2 DEF NumberInv
<1>7. \A u \in {"writer", "pacer"} : out[u].num # n
  <2>1. out["pacer"].num \in Used \cup {None} /\ n # None
    BY <1>2 DEF NumberInv, Threads, Numbers, None
  <2> QED BY <1>2, <1>3, <2>1
<1>8. \A i, j \in 1 .. Len(paced) : paced[i] = paced[j] => i = j
  BY DEF OnceInv
<1> HIDE DEF n
<1> QED BY <1>1, <1>2, <1>3, <1>4, <1>5, <1>6, <1>7, <1>8, TransmitKeeps

LEMMA SendPacedNumbers ==
  ASSUME NumberInv, OnceInv, SendPaced
  PROVE  NumberInv' /\ OnceInv'
<1> DEFINE n == numbered.next
<1>1. /\ TakeNumber /\ paced' = Append(paced, n) /\ budget' = budget /\ clock' = clock
      /\ table' = table /\ resent' = resent /\ delivered' = delivered /\ out' = out
      /\ packets' = packets
  BY DEF SendPaced, twccTold
<1>2. /\ Used' = Used \cup {n} /\ n \notin Used /\ n \in Numbers /\ numbered'.next \in Numbers
      /\ numbered'.count \in Nat /\ numbered'.count <= budget.packets
  BY <1>1, Taken
<1>3. paced \in Seq(Used) /\ paced \in Seq(Used') /\ n \in Used' /\ Len(paced) \in Nat
  BY <1>2 DEF NumberInv
<1> DEFINE L == Len(paced)
<1>4. /\ paced' \in Seq(Used') /\ Len(paced') = L + 1 /\ paced'[L + 1] = n
      /\ \A i \in 1 .. L : paced'[i] = paced[i] /\ paced[i] \in Used
  BY <1>1, <1>3
<1>5. NumberInv'
  <2>1. out \in [Threads -> [num : Used' \cup {None}, sentTime : Nat \cup {None}]]
    BY <1>2 DEF NumberInv
  <2>2. Numbers' = Numbers
    BY DEF Numbers
  <2> QED BY <1>1, <1>2, <1>4, <2>1, <2>2 DEF NumberInv
<1>6. /\ table[n] = NoEntry /\ n \notin delivered
      /\ out["writer"].num # n /\ out["pacer"].num # n
  <2>1. out["pacer"].num \in Used \cup {None} /\ out["writer"].num \in Used \cup {None} /\ n # None
    BY <1>2 DEF NumberInv, Threads, Numbers, None
  <2> QED BY <1>2, <2>1 DEF NumberInv
<1> HIDE DEF n, L
<1>l. L \in Nat /\ L = Len(paced)
  BY <1>3 DEF L
<1>i. \A i \in 1 .. L + 1 : i \in 1 .. L \/ i = L + 1
  BY <1>l
<1>7. \A i, j \in 1 .. Len(paced') : paced'[i] = paced'[j] => i = j
  BY <1>2, <1>4, <1>i, <1>l DEF OnceInv
<1>8. \A i \in 1 .. Len(paced') : paced'[i] # out'["writer"].num /\ paced'[i] # out'["pacer"].num
  BY <1>1, <1>4, <1>6, <1>i, <1>l DEF OnceInv
<1>9. ASSUME NEW k \in Numbers \ resent, Underway(k)' PROVE table[k] = NoEntry /\ k \notin delivered
  <2>1. k = n \/ Underway(k)
    BY <1>1, <1>4, <1>9, <1>i, <1>l DEF Underway
  <2> QED BY <1>6, <2>1 DEF OnceInv
<1>10. OnceInv'
  <2>1. Numbers' = Numbers
    BY DEF Numbers
  <2> QED BY <1>1, <1>7, <1>8, <1>9, <2>1 DEF OnceInv
<1> QED BY <1>5, <1>10

LEMMA DrainPacedNumbers ==
  ASSUME NumberInv, OnceInv, DrainPaced
  PROVE  NumberInv' /\ OnceInv'
<1> DEFINE n == Head(paced)
<1>1. /\ paced # <<>> /\ out["pacer"] = NoPacket /\ paced' = Tail(paced) /\ Transmit("pacer", n)
      /\ budget' = budget /\ clock' = clock /\ table' = table /\ numbered' = numbered
      /\ resent' = resent /\ delivered' = delivered
  BY DEF DrainPaced, twccTold
<1>2. Used' = Used
  BY <1>1 DEF Used, Numbers
<1>3. paced \in Seq(Used) /\ Used \subseteq Numbers
  BY DEF NumberInv, Used
<1>4. /\ Len(paced) \in Nat /\ Len(paced) >= 1 /\ n = paced[1] /\ n \in Used /\ n \in Numbers
      /\ paced' \in Seq(Used) /\ Len(paced') = Len(paced) - 1
      /\ \A i \in 1 .. Len(paced') : i + 1 \in 1 .. Len(paced) /\ paced'[i] = paced[i + 1]
  BY <1>1, <1>3
<1>5. out["pacer"].num = None
  BY <1>1 DEF NoPacket
<1>6. Underway(n) /\ n # None
  BY <1>4 DEF Underway, Numbers, None
<1>7. n \notin resent => table[n] = NoEntry /\ n \notin delivered
  BY <1>4, <1>6 DEF OnceInv
<1>8. \A i, j \in 1 .. Len(paced) : paced[i] = paced[j] => i = j
  BY DEF OnceInv
<1>9. /\ \A i, j \in 1 .. Len(paced') : paced'[i] = paced'[j] => i = j
      /\ \A i \in 1 .. Len(paced') : paced'[i] # n /\ \E j \in 1 .. Len(paced) : paced'[i] = paced[j]
  <2>1. ASSUME NEW i \in 1 .. Len(paced'), NEW j \in 1 .. Len(paced'), paced'[i] = paced'[j]
        PROVE  i = j
    <3>1. i + 1 = j + 1
      BY <1>4, <1>8, <2>1
    <3> QED BY <1>4, <3>1
  <2>2. ASSUME NEW i \in 1 .. Len(paced') PROVE paced'[i] # n
    <3>1. i + 1 \in 1 .. Len(paced) /\ 1 \in 1 .. Len(paced) /\ i + 1 # 1
      BY <1>4
    <3> QED BY <1>4, <1>8, <3>1
  <2> QED BY <1>4, <2>1, <2>2
<1>10. \A u \in {"writer", "pacer"} : out[u].num # n
  BY <1>4, <1>5, <1>6 DEF OnceInv
<1>11. /\ numbered'.next \in Numbers /\ numbered'.count \in Nat /\ numbered'.count <= budget.packets
  BY <1>1 DEF NumberInv
<1> HIDE DEF n
<1> QED BY <1>1, <1>2, <1>4, <1>5, <1>7, <1>9, <1>10, <1>11, TransmitKeeps

LEMMA ResendNumbers ==
  ASSUME NumberInv, OnceInv, NEW n \in Numbers, ResendOnNack(n)
  PROVE  NumberInv' /\ OnceInv'
<1>1. /\ out' = [out EXCEPT !["resender"] = [num |-> n, sentTime |-> clock]]
      /\ packets' = packets \cup {n} /\ resent' = resent \cup {n} /\ budget' = budget
      /\ clock' = clock /\ numbered' = numbered /\ paced' = paced /\ table' = table
      /\ delivered' = delivered /\ n \in Used
  BY DEF ResendOnNack, twccTold, Used
<1>2. Used' = Used
  BY <1>1 DEF Used, Numbers
<1>3. /\ out \in [Threads -> [num : Used \cup {None}, sentTime : Nat \cup {None}]] /\ clock \in Nat
      /\ "writer" \in Threads /\ "pacer" \in Threads /\ "resender" \in Threads
  BY DEF NumberInv, Threads
<1>4. [num |-> n, sentTime |-> clock] \in [num : Used \cup {None}, sentTime : Nat \cup {None}]
  BY <1>1, <1>3
<1>5. /\ out' \in [Threads -> [num : Used \cup {None}, sentTime : Nat \cup {None}]]
      /\ out'["writer"] = out["writer"] /\ out'["pacer"] = out["pacer"]
      /\ out'["resender"].num = n
  BY <1>1, <1>3, <1>4
<1>6. NumberInv'
  <2>1. Numbers' = Numbers
    BY DEF Numbers
  <2> QED BY <1>1, <1>2, <1>5, <2>1 DEF NumberInv
<1>7. \A k \in Numbers : Underway(k)' <=> Underway(k)
  BY <1>1, <1>5 DEF Underway
<1>8. OnceInv'
  <2>1. Numbers' = Numbers
    BY DEF Numbers
  <2>2. /\ \A k \in Numbers \ resent' : Underway(k)' => table'[k] = NoEntry /\ k \notin delivered'
        /\ \A k \in delivered' \ resent' : table'[k] = NoEntry
    BY <1>1, <1>7 DEF OnceInv
  <2> QED BY <1>1, <1>5, <2>1, <2>2 DEF OnceInv
<1> QED BY <1>6, <1>8

Entries == [Numbers -> [localTime : Nat \cup {None}, remoteTime : {Lost}]]

LEMMA EnteredIs ==
  ASSUME NumberInv, NEW t \in Threads, NEW e, e = Entered(out[t])
  PROVE  e \in Entries /\ \A n \in Numbers : e[n] # NoEntry => table[n] # NoEntry \/ n = out[t].num
<1> DEFINE p == out[t]
           x == [localTime |-> p.sentTime, remoteTime |-> Lost]
<1>1. table \in Entries /\ p \in [num : Used \cup {None}, sentTime : Nat \cup {None}]
  BY DEF NumberInv, Entries
<1>2. x \in [localTime : Nat \cup {None}, remoteTime : {Lost}]
  BY <1>1
<1>3. e = [table EXCEPT ![p.num] = x]
  BY DEF Entered
<1> HIDE DEF x, p
<1>4. e \in Entries
  BY <1>1, <1>2, <1>3 DEF Entries
<1>5. \A n \in Numbers : n # p.num => e[n] = table[n]
  BY <1>1, <1>3 DEF Entries
<1> QED BY <1>4, <1>5 DEF p

LEMMA PacketSentNumbers ==
  ASSUME NumberInv, OnceInv, NEW t \in {"writer", "resender"}, twccManagerOnPacketSent(t)
  PROVE  NumberInv' /\ OnceInv' /\ Used' = Used
<1>1. /\ out' = [out EXCEPT ![t] = NoPacket] /\ budget' = budget /\ clock' = clock
      /\ numbered' = numbered /\ paced' = paced /\ packets' = packets /\ resent' = resent
      /\ delivered' = delivered /\ t \in Threads
  BY DEF twccManagerOnPacketSent, twccTold, Threads
<1> DEFINE e == Entered(out[t])
<1>2. e \in Entries /\ \A n \in Numbers : e[n] # NoEntry => table[n] # NoEntry \/ n = out[t].num
  BY <1>1, EnteredIs
<1>3. table' \in Entries /\ \A n \in Numbers : table'[n] # NoEntry => table[n] # NoEntry \/ n = out[t].num
  <2>1. CASE "bandwidth" \in callbacks
    <3>1. twccRollingWindowDeletion(e, out[t])
      BY <2>1 DEF twccManagerOnPacketSent
    <3> HIDE DEF e
    <3> DEFINE passed == {Walk(out[t])[i] : i \in 1 .. WalkLength(e, out[t])}
               Gone(n) == n \in passed /\ e[n] # NoEntry /\ TooOld(e[n], out[t])
    <3>2. table' = [n \in Numbers |-> IF Gone(n) THEN NoEntry ELSE e[n]]
      BY <3>1 DEF twccRollingWindowDeletion
    <3> HIDE DEF Gone
    <3>3. NoEntry \in [localTime : Nat \cup {None}, remoteTime : {Lost}]
      BY DEF NoEntry
    <3>4. table' \in Entries
      BY <1>2, <3>2, <3>3 DEF Entries
    <3>5. \A n \in Numbers : table'[n] # NoEntry => e[n] # NoEntry
      BY <3>2
    <3> QED BY <1>2, <3>4, <3>5
  <2>2. CASE "bandwidth" \notin callbacks
    <3>1. table' = table
      BY <2>2 DEF twccManagerOnPacketSent
    <3> QED BY <3>1 DEF NumberInv, Entries
  <2> QED BY <2>1, <2>2
<1> HIDE DEF e
<1> QED BY <1>1, <1>3, EntryKeeps DEF Entries

LEMMA PacedPacketSentNumbers ==
  ASSUME NumberInv, OnceInv, twccManagerOnPacedPacketSent
  PROVE  NumberInv' /\ OnceInv' /\ Used' = Used
<1> DEFINE t == "pacer"
<1>1. /\ out' = [out EXCEPT ![t] = NoPacket] /\ budget' = budget /\ clock' = clock
      /\ numbered' = numbered /\ paced' = paced /\ packets' = packets /\ resent' = resent
      /\ delivered' = delivered /\ t \in Threads
      /\ table' = Entered(out[t]) \/ table' = table
  BY DEF twccManagerOnPacedPacketSent, twccTold, Threads
<1>2. table \in Entries
  BY DEF NumberInv, Entries
<1> HIDE DEF t
<1>3. table' \in Entries /\ \A n \in Numbers : table'[n] # NoEntry => table[n] # NoEntry \/ n = out[t].num
  BY <1>1, <1>2, EnteredIs
<1> QED BY <1>1, <1>3, EntryKeeps DEF Entries

-----------------------------------------------------------------------------
(* ReceiveInv and FeedbackInv                                              *)

LEMMA InitReceive ==
  ASSUME TwccInit
  PROVE  ReceiveInv /\ FeedbackInv
<1>1. /\ received = [n \in Numbers |-> None] /\ arrivals = [n \in Numbers |-> {}] /\ feedback = {}
      /\ firstPacketReceived = FALSE /\ firstSeqNum = 0 /\ lastSeqNum = 0 /\ clock = 0
      /\ baseTimeKvs = None \/ baseTimeKvs = 0
  BY DEF TwccInit
<1>2. 0 \in Numbers
  BY SpaceFacts DEF Numbers
<1>3. baseTimeKvs \in Nat \cup {None} /\ baseTimeKvs <= clock
  BY <1>1 DEF None
<1>4. Noting /\ \A n \in Numbers : received[n] = None
  BY <1>1 DEF Noting
<1>5. arrivals \in [Numbers -> SUBSET Nat] /\ firstPacketReceived \in BOOLEAN
  BY <1>1
<1>6. ReceiveInv
  BY <1>1, <1>2, <1>3, <1>4, <1>5 DEF ReceiveInv
<1> QED BY <1>1, <1>6 DEF FeedbackInv

\* Feedback stays true: arrivals are not undone and the base time is set once.
LEMMA TruthfulStays ==
  ASSUME NEW m, Truthful(m), baseTimeKvs' = baseTimeKvs,
         \A n \in Numbers : arrivals[n] \subseteq arrivals'[n]
  PROVE  Truthful(m)'
<1>1. \A i \in 1 .. Len(Symbols(m)) : NumberAt(m, i) \in Numbers
  <2> TAKE i \in 1 .. Len(Symbols(m))
  <2> DEFINE a == m.baseSeqNum + i - 1
  <2>1. a \in Int /\ TwccSpace \in Nat \ {0}
    BY SpaceFacts DEF Truthful, Numbers
  <2> HIDE DEF a
  <2>2. a % TwccSpace \in 0 .. TwccSpace - 1
    BY <2>1
  <2> QED BY <2>2 DEF a, NumberAt, Numbers
<1> QED BY <1>1 DEF Truthful, Numbers

LEMMA FeedbackKeeps ==
  ASSUME FeedbackInv, feedback' \subseteq feedback, feedback # {} => baseTimeKvs' = baseTimeKvs,
         \A n \in Numbers : arrivals[n] \subseteq arrivals'[n]
  PROVE  FeedbackInv'
<1> SUFFICES ASSUME NEW m \in feedback' PROVE Truthful(m)'
  BY DEF FeedbackInv
<1>1. Truthful(m) /\ baseTimeKvs' = baseTimeKvs
  BY DEF FeedbackInv
<1> QED BY <1>1, TruthfulStays

LEMMA ReceiverKeeps ==
  ASSUME ReceiveInv, FeedbackInv, clock \in Nat, clock' \in Nat, clock <= clock',
         UNCHANGED twccReceiver, feedback' \subseteq feedback
  PROVE  ReceiveInv' /\ FeedbackInv'
<1>1. /\ received' = received /\ firstPacketReceived' = firstPacketReceived
      /\ firstSeqNum' = firstSeqNum /\ lastSeqNum' = lastSeqNum
      /\ baseTimeKvs' = baseTimeKvs /\ arrivals' = arrivals
  BY DEF twccReceiver
<1>2. baseTimeKvs \in Int /\ baseTimeKvs <= clock /\ baseTimeKvs' <= clock'
  BY <1>1 DEF ReceiveInv, None
<1>3. ReceiveInv'
  <2>1. Noting'
    BY <1>1 DEF ReceiveInv, Noting, Numbers
  <2>2. Numbers' = Numbers
    BY DEF Numbers
  <2> QED BY <1>1, <1>2, <2>1, <2>2 DEF ReceiveInv
<1> QED BY <1>1, <1>3, FeedbackKeeps

LEMMA ReceivedReceive ==
  ASSUME NumberInv, ReceiveInv, FeedbackInv, NEW n \in packets, twccReceiverOnPacketReceived(n)
  PROVE  ReceiveInv' /\ FeedbackInv'
<1>1. /\ arrivals' = [arrivals EXCEPT ![n] = @ \cup {clock}] /\ clock' = clock /\ feedback' = feedback
      /\ clock \in Nat /\ n \in Numbers
  BY DEF twccReceiverOnPacketReceived, NumberInv, Used
<1>2. /\ Noting /\ arrivals \in [Numbers -> SUBSET Nat] /\ baseTimeKvs \in Nat \cup {None}
      /\ baseTimeKvs <= clock /\ firstSeqNum \in Numbers /\ lastSeqNum \in Numbers
      /\ firstPacketReceived \in BOOLEAN
      /\ \A k \in Numbers : received[k] # None =>
           baseTimeKvs # None /\ received[k] + baseTimeKvs \in arrivals[k]
  BY DEF ReceiveInv
<1>3. /\ arrivals' \in [Numbers -> SUBSET Nat] /\ clock \in arrivals'[n]
      /\ \A k \in Numbers : arrivals[k] \subseteq arrivals'[k]
  BY <1>1, <1>2
<1>n. Numbers' = Numbers
  BY DEF Numbers
<1>4. CASE received[n] # None
  <2>1. /\ received' = received /\ firstPacketReceived' = firstPacketReceived
        /\ firstSeqNum' = firstSeqNum /\ lastSeqNum' = lastSeqNum /\ baseTimeKvs' = baseTimeKvs
    BY <1>4 DEF twccReceiverOnPacketReceived
  <2>2. FeedbackInv'
    BY <1>1, <1>3, <2>1, FeedbackKeeps
  <2>3. Noting'
    BY <1>2, <1>n, <2>1 DEF Noting
  <2>4. ReceiveInv'
    BY <1>1, <1>2, <1>3, <1>n, <2>1, <2>3 DEF ReceiveInv
  <2> QED BY <2>2, <2>4
<1>5. CASE received[n] = None
  <2>1. /\ baseTimeKvs' = IF baseTimeKvs = None THEN clock ELSE baseTimeKvs
        /\ received' = [received EXCEPT ![n] = clock - baseTimeKvs'] /\ firstPacketReceived' = TRUE
        /\ firstSeqNum' \in {n, firstSeqNum} /\ lastSeqNum' \in {n, lastSeqNum}
    BY <1>5 DEF twccReceiverOnPacketReceived
  <2>2. baseTimeKvs' \in Nat /\ baseTimeKvs' <= clock /\ baseTimeKvs' # None
    BY <1>1, <1>2, <2>1 DEF None
  <2> DEFINE v == clock - baseTimeKvs'
  <2>3. v \in Nat /\ v + baseTimeKvs' = clock
    <3>1. \A x, y \in Nat : y <= x => x - y \in Nat /\ (x - y) + y = x
      OBVIOUS
    <3> QED BY <1>1, <2>2, <3>1, Zenon
  <2> HIDE DEF v
  <2>4. received' = [received EXCEPT ![n] = v]
    BY <2>1 DEF v
  <2>5. Noting'
    BY <1>2, <1>n, <2>3, <2>4 DEF Noting
  <2>6. feedback # {} => baseTimeKvs' = baseTimeKvs
    BY <2>1 DEF FeedbackInv, Truthful
  <2>7. FeedbackInv'
    BY <1>1, <1>3, <2>6, FeedbackKeeps
  <2>8. ASSUME NEW k \in Numbers, received'[k] # None
        PROVE  baseTimeKvs' # None /\ received'[k] + baseTimeKvs' \in arrivals'[k]
    <3>1. CASE k = n
      <4>1. received'[k] = v
        BY <1>1, <1>2, <2>4, <3>1 DEF Noting
      <4> QED BY <1>3, <2>2, <2>3, <3>1, <4>1
    <3>2. CASE k # n
      <4>1. received'[k] = received[k]
        BY <1>2, <2>4, <3>2 DEF Noting
      <4>2. baseTimeKvs' = baseTimeKvs /\ received[k] + baseTimeKvs \in arrivals[k]
        BY <1>2, <2>1, <2>8, <4>1
      <4> QED BY <1>3, <2>2, <4>1, <4>2
    <3> QED BY <3>1, <3>2
  <2>9. firstSeqNum' \in Numbers /\ lastSeqNum' \in Numbers /\ firstPacketReceived' \in BOOLEAN
    BY <1>1, <1>2, <2>1, Zenon
  <2>10. ReceiveInv'
    BY <1>1, <1>3, <1>n, <2>2, <2>5, <2>8, <2>9 DEF ReceiveInv
  <2> QED BY <2>7, <2>10
<1> QED BY <1>4, <1>5

-----------------------------------------------------------------------------
(* Sending feedback                                                        *)

LEMMA LeastOfTwo ==
  ASSUME NEW a \in Int, NEW b \in Int
  PROVE  Min({a, b}) = IF a <= b THEN a ELSE b
<1>1. \E x \in {a, b} : \A y \in {a, b} : x <= y
  OBVIOUS
<1>2. Min({a, b}) \in {a, b} /\ \A y \in {a, b} : Min({a, b}) <= y
  BY <1>1 DEF Min
<1> QED BY <1>2

\* how many packets the next feedback tells of
Length == Min({(lastSeqNum - firstSeqNum + 1) % TwccSpace, TWCC_MAX_PACKET_STATUS_COUNT})

Message(told) ==
  [baseSeqNum |-> firstSeqNum, reference |-> Reference(told),
   chunks |-> Chunks(Statuses(told)), deltas |-> Deltas(told)]

LEMMA NumbersFromIs ==
  ASSUME NEW a \in Numbers, NEW n \in Nat
  PROVE  /\ NumbersFrom(a, n) \in [1 .. n -> Numbers]
         /\ \A i \in 1 .. n : NumbersFrom(a, n)[i] = (a + i - 1) % TwccSpace
<1>1. ASSUME NEW i \in 1 .. n PROVE (a + i - 1) % TwccSpace \in Numbers
  <2> DEFINE x == a + i - 1
  <2>1. x \in Int /\ TwccSpace \in Nat \ {0}
    BY SpaceFacts DEF Numbers
  <2> HIDE DEF x
  <2>2. x % TwccSpace \in 0 .. TwccSpace - 1
    BY <2>1
  <2> QED BY <2>2 DEF x, Numbers
<1> QED BY <1>1 DEF NumbersFrom

\* A feedback that is sent is true, and tells of every packet noted in its range.
LEMMA SendFacts ==
  ASSUME ReceiveInv, TimelyFeedback, sendRtcpTwccFeedback,
         NEW told, told = NumbersFrom(firstSeqNum, Length), NEW m, m = Message(told)
  PROVE  /\ Length \in 1 .. TwccSpace - 1 /\ told \in [1 .. Length -> Numbers]
         /\ feedback' = feedback \cup {m} /\ received' = Kept(told) /\ m.baseSeqNum = firstSeqNum
         /\ \A i \in 1 .. Length : NumberAt(m, i) = told[i]
         /\ Symbols(m) \in Seq(Symbol) /\ Len(Symbols(m)) = Length
         /\ \A i \in 1 .. Length : Symbols(m)[i] # "not" <=> received[told[i]] # None
         /\ \A i \in 1 .. Length : Symbols(m)[i] # "not" =>
              DeltaOf(m, i) # NoDelta /\ RemoteTime(m, i) = received[told[i]]
<1> DEFINE N == Length
           x == (lastSeqNum - firstSeqNum + 1) % TwccSpace
           y == TWCC_MAX_PACKET_STATUS_COUNT
<1>1. firstSeqNum \in Numbers /\ lastSeqNum \in Numbers /\ Noting
  BY DEF ReceiveInv
<1>2. x \in Int /\ y \in 1 .. TwccSpace - 1
  <2> DEFINE a == lastSeqNum - firstSeqNum + 1
  <2>1. a \in Int /\ TwccSpace \in Nat \ {0}
    BY <1>1, SpaceFacts DEF Numbers
  <2> HIDE DEF a
  <2>2. a % TwccSpace \in Int
    BY <2>1
  <2> QED BY <2>2, TwccAssumption DEF a
<1>3. N = IF x <= y THEN x ELSE y
  BY <1>2, LeastOfTwo DEF Length
<1>4. /\ \E i \in DOMAIN told : received[told[i]] # None
      /\ feedback' = feedback \cup {m} /\ received' = Kept(told)
  BY DEF sendRtcpTwccFeedback, Length, Message
<1> HIDE DEF x, y
<1>5. N \in 1 .. TwccSpace - 1
  <2>1. N \in Int /\ N <= TwccSpace - 1
    BY <1>2, <1>3, SpaceFacts
  <2>2. DOMAIN told = 1 .. N
    BY DEF NumbersFrom
  <2>3. N >= 1
    BY <1>4, <2>1, <2>2
  <2> QED BY <2>1, <2>3, SpaceFacts
<1>6. N \in Nat \ {0} /\ N \in Nat
  BY <1>5, SpaceFacts
<1> HIDE DEF N
<1>n. told = NumbersFrom(firstSeqNum, N)
  BY DEF N
<1>7. told \in [1 .. N -> Numbers] /\ \A i \in 1 .. N : told[i] = (firstSeqNum + i - 1) % TwccSpace
  BY <1>1, <1>6, <1>n, NumbersFromIs
<1>8. /\ m.reference = Reference(told) /\ m.chunks = Chunks(Statuses(told))
      /\ m.deltas = Deltas(told) /\ m.baseSeqNum = firstSeqNum
  BY DEF Message
<1>9. /\ Symbols(m) \in Seq(Symbol) /\ Len(Symbols(m)) = N
      /\ \A i \in 1 .. N : Symbols(m)[i] # "not" <=> i \in Got(told)
      /\ \A i \in Got(told) : DeltaOf(m, i) # NoDelta /\ RemoteTime(m, i) = received[told[i]]
  BY <1>1, <1>6, <1>7, <1>8, FeedbackDecodes
<1>10. \A i \in 1 .. N : i \in Got(told) <=> received[told[i]] # None
  BY <1>7 DEF Got
<1>11. \A i \in 1 .. N : NumberAt(m, i) = told[i]
  BY <1>7, <1>8 DEF NumberAt
<1> QED BY <1>4, <1>5, <1>7, <1>8, <1>9, <1>10, <1>11 DEF N

LEMMA SendReceive ==
  ASSUME ReceiveInv, FeedbackInv, TimelyFeedback, sendRtcpTwccFeedback
  PROVE  ReceiveInv' /\ FeedbackInv'
<1>1. PICK told : told = NumbersFrom(firstSeqNum, Length)
  OBVIOUS
<1>2. PICK m : m = Message(told)
  OBVIOUS
<1>3. /\ Length \in 1 .. TwccSpace - 1 /\ told \in [1 .. Length -> Numbers]
      /\ feedback' = feedback \cup {m} /\ received' = Kept(told) /\ m.baseSeqNum = firstSeqNum
      /\ \A i \in 1 .. Length : NumberAt(m, i) = told[i]
      /\ Symbols(m) \in Seq(Symbol) /\ Len(Symbols(m)) = Length
      /\ \A i \in 1 .. Length : Symbols(m)[i] # "not" <=> received[told[i]] # None
      /\ \A i \in 1 .. Length : Symbols(m)[i] # "not" =>
           DeltaOf(m, i) # NoDelta /\ RemoteTime(m, i) = received[told[i]]
  BY <1>1, <1>2, SendFacts
<1>4. /\ clock' = clock /\ baseTimeKvs' = baseTimeKvs /\ arrivals' = arrivals
      /\ firstPacketReceived' = FALSE /\ firstSeqNum' = 0 /\ lastSeqNum' = 0
      /\ \E i \in 1 .. Length : received[told[i]] # None
  <2>1. \E i \in DOMAIN told : received[told[i]] # None
    BY <1>1 DEF sendRtcpTwccFeedback, Length
  <2>2. DOMAIN told = 1 .. Length
    BY <1>3
  <2> QED BY <2>1, <2>2 DEF sendRtcpTwccFeedback
<1>5. /\ Noting /\ firstSeqNum \in Numbers /\ 0 \in Numbers
      /\ \A k \in Numbers : received[k] # None =>
           baseTimeKvs # None /\ received[k] + baseTimeKvs \in arrivals[k]
  BY SpaceFacts DEF ReceiveInv, Numbers
<1>6. Truthful(m)
  <2>1. baseTimeKvs # None
    BY <1>3, <1>4, <1>5
  <2>2. ASSUME NEW i \in 1 .. Len(Symbols(m)), Symbols(m)[i] # "not"
        PROVE  /\ DeltaOf(m, i) # NoDelta /\ RemoteTime(m, i) \in Nat
               /\ RemoteTime(m, i) + baseTimeKvs \in arrivals[NumberAt(m, i)]
    <3>1. told[i] \in Numbers /\ received[told[i]] # None
      BY <1>3, <2>2
    <3>2. received[told[i]] \in Nat
      BY <1>5, <3>1 DEF Noting
    <3> QED BY <1>3, <1>5, <2>2, <3>1, <3>2
  <2> QED BY <1>3, <1>5, <2>1, <2>2 DEF Truthful
<1>7. FeedbackInv'
  <2> SUFFICES ASSUME NEW k \in feedback' PROVE Truthful(k)'
    BY DEF FeedbackInv
  <2>1. Truthful(k)
    BY <1>3, <1>6 DEF FeedbackInv
  <2> QED BY <1>4, <2>1, TruthfulStays
<1>8. \A k \in Numbers : received'[k] = None \/ received'[k] = received[k]
  BY <1>3 DEF Kept
<1>9. Noting'
  <2>1. Numbers' = Numbers
    BY DEF Numbers
  <2> QED BY <1>3, <1>5, <2>1 DEF Kept, Noting
<1>10. ReceiveInv'
  <2>1. Numbers' = Numbers
    BY DEF Numbers
  <2>2. firstPacketReceived' \in BOOLEAN
    BY <1>4, Zenon
  <2> QED BY <1>4, <1>5, <1>8, <1>9, <2>1, <2>2 DEF ReceiveInv
<1> QED BY <1>7, <1>10

-----------------------------------------------------------------------------
(* Receiving feedback                                                      *)

\* Numbers less than a turn apart are not the same.
LEMMA NumberAtOnce ==
  ASSUME NEW m, Truthful(m), NEW i \in 1 .. Len(Symbols(m)), NEW j \in 1 .. Len(Symbols(m)),
         NumberAt(m, i) = NumberAt(m, j)
  PROVE  i = j
<1> DEFINE S == TwccSpace
           a == m.baseSeqNum + i - 1
           b == m.baseSeqNum + j - 1
<1>1. /\ m.baseSeqNum \in 0 .. S - 1 /\ Len(Symbols(m)) \in 1 .. S - 1 /\ S \in Nat \ {0}
      /\ i \in Int /\ j \in Int
  BY SpaceFacts DEF Truthful, Numbers
<1>2. a \in Int /\ b \in Int /\ a - b = i - j /\ i - j \in 1 - S .. S - 1
  BY <1>1
<1>3. a % S = b % S
  BY DEF NumberAt
<1> HIDE DEF a, b, S
<1>4. ((a % S) - (b % S)) % S = (a - b) % S
  BY <1>1, <1>2, RemainderDifference
<1>5. (a % S) - (b % S) = 0 /\ 0 % S = 0
  BY <1>1, <1>2, <1>3
<1>6. (i - j) % S = IF i - j >= 0 THEN i - j ELSE i - j + S
  BY <1>1, <1>2, RemainderNear
<1> QED BY <1>1, <1>2, <1>4, <1>5, <1>6

LEMMA NumberAtIs ==
  ASSUME NEW m, Truthful(m), NEW i \in 1 .. Len(Symbols(m))
  PROVE  NumberAt(m, i) \in Numbers
<1> DEFINE a == m.baseSeqNum + i - 1
<1>1. a \in Int /\ TwccSpace \in Nat \ {0}
  BY SpaceFacts DEF Truthful, Numbers
<1> HIDE DEF a
<1>2. a % TwccSpace \in 0 .. TwccSpace - 1
  BY <1>1
<1> QED BY <1>2 DEF a, NumberAt, Numbers

\* All symbols are acted upon, and the numbers gone through are theirs.
LEMMA CoveredIs ==
  ASSUME NEW m, Truthful(m)
  PROVE  /\ Parsed(m) = 1 .. Len(Symbols(m))
         /\ Range(Covered(m)) = {NumberAt(m, i) : i \in 1 .. Len(Symbols(m))}
<1> DEFINE L == Len(Symbols(m))
           S == TwccSpace
           z == m.baseSeqNum
<1>1. L \in 1 .. S - 1 /\ S \in Nat \ {0} /\ L \in Nat /\ DOMAIN Symbols(m) = 1 .. L /\ z \in 0 .. S - 1
  BY SpaceFacts DEF Truthful, Numbers
<1>2. Parsed(m) = 1 .. L
  BY <1>1 DEF Parsed, Truthful
<1> HIDE DEF L, S
<1>3. Max(Parsed(m)) = L /\ Parsed(m) # {}
  <2>1. 1 .. L \in SUBSET Nat /\ L \in 1 .. L /\ \A y \in 1 .. L : y <= L
    BY <1>1
  <2>2. Max(1 .. L) = L
    BY <2>1, MaxIs
  <2>3. 1 .. L # {}
    BY <2>1
  <2> QED BY <1>2, <2>2, <2>3, Zenon
<1>4. ParsedLast(m) = (z + L - 1) % S
  BY <1>3 DEF ParsedLast, NumberAt, S
<1>5. (ParsedLast(m) - z + 1) % S = L
  <2> DEFINE a == z + L - 1
             b == 1 - z
  <2>0. a \in Int /\ b \in Int /\ a + b = L /\ z \in Int
    BY <1>1
  <2>1. (a % S) - z + 1 = (a % S) + b
    <3> DEFINE r == a % S
    <3>1. r \in Int
      <4> HIDE DEF a
      <4> QED BY <1>1, <2>0
    <3> HIDE DEF r
    <3>2. r - z + 1 = r + (1 - z)
      BY <2>0, <3>1
    <3> QED BY <3>2, Zenon DEF r
  <2>2. ParsedLast(m) = a % S
    BY <1>4
  <2> HIDE DEF a, b, z
  <2>3. ((a % S) + b) % S = (a + b) % S
    BY <1>1, <2>0, RemainderSum
  <2>4. L \in 1 - S .. S - 1 /\ L >= 0
    BY <1>1
  <2>5. L % S = L
    BY <1>1, <2>4, RemainderNear
  <2> QED BY <2>0, <2>1, <2>2, <2>3, <2>5
<1>6. Covered(m) = NumbersFrom(z, L)
  BY <1>5 DEF Covered, S
<1>7. NumbersFrom(z, L) = [i \in 1 .. L |-> NumberAt(m, i)]
  BY DEF NumbersFrom, NumberAt
<1>8. Range(Covered(m)) = {NumberAt(m, i) : i \in 1 .. L}
  BY <1>6, <1>7 DEF Range
<1> QED BY <1>2, <1>8 DEF L

Told(m) == {NumberAt(m, i) : i \in {j \in 1 .. Len(Symbols(m)) : Symbols(m)[j] # "not"}}

LEMMA ParsedTableIs ==
  ASSUME NumberInv, NEW m, Truthful(m)
  PROVE  /\ \A i \in 1 .. Len(Symbols(m)) :
              table[NumberAt(m, i)] # NoEntry /\ Symbols(m)[i] # "not" =>
                ParsedTable(m)[NumberAt(m, i)].remoteTime = RemoteTime(m, i)
         /\ \A n \in Numbers : n \notin Told(m) \/ table[n] = NoEntry => ParsedTable(m)[n] = table[n]
<1> DEFINE L == Len(Symbols(m))
           at(n) == {i \in Parsed(m) : NumberAt(m, i) = n}
           time(n) == IF Symbols(m)[Max(at(n))] = "not" THEN Lost ELSE RemoteTime(m, Max(at(n)))
           new(n) == IF table[n] = NoEntry \/ at(n) = {} THEN table[n]
                     ELSE [table[n] EXCEPT !.remoteTime = time(n)]
<1>1. ParsedTable(m) = [n \in Numbers |-> new(n)]
  BY DEF ParsedTable
<1>2. Parsed(m) = 1 .. L /\ L \in Nat
  BY CoveredIs DEF Truthful
<1>3. ASSUME NEW i \in 1 .. L
      PROVE  at(NumberAt(m, i)) = {i} /\ NumberAt(m, i) \in Numbers
  <2>1. ASSUME NEW j \in at(NumberAt(m, i)) PROVE j = i
    <3>1. j \in 1 .. L /\ NumberAt(m, j) = NumberAt(m, i)
      BY <1>2
    <3> QED BY <3>1, NumberAtOnce
  <2>2. i \in at(NumberAt(m, i))
    BY <1>2
  <2>3. NumberAt(m, i) \in Numbers
    BY NumberAtIs
  <2> HIDE DEF at
  <2> QED BY <2>1, <2>2, <2>3
<1>4. \A i \in 1 .. L : Max({i}) = i
  <2> TAKE i \in 1 .. L
  <2>1. {i} \in SUBSET Nat /\ i \in {i} /\ \A y \in {i} : y <= i
    BY <1>2
  <2> QED BY <2>1, MaxIs
<1>5. table \in Entries
  BY DEF NumberInv, Entries
<1> HIDE DEF L
<1>6. ASSUME NEW i \in 1 .. L, table[NumberAt(m, i)] # NoEntry
      PROVE  /\ NumberAt(m, i) \in Numbers
             /\ ParsedTable(m)[NumberAt(m, i)] =
                  [table[NumberAt(m, i)] EXCEPT
                     !.remoteTime = IF Symbols(m)[i] = "not" THEN Lost ELSE RemoteTime(m, i)]
  <2> DEFINE n == NumberAt(m, i)
  <2>1. at(n) = {i} /\ Max(at(n)) = i /\ n \in Numbers
    BY <1>3, <1>4
  <2>2. at(n) # {}
    BY <2>1
  <2> HIDE DEF n, at
  <2>3. table[n] # NoEntry
    BY <1>6 DEF n
  <2>4. ParsedTable(m)[n] = [table[n] EXCEPT !.remoteTime = time(n)]
    BY <1>1, <2>1, <2>2, <2>3
  <2>5. time(n) = IF Symbols(m)[i] = "not" THEN Lost ELSE RemoteTime(m, i)
    BY <2>1
  <2> HIDE DEF time
  <2> QED BY <2>1, <2>4, <2>5 DEF n
<1>7. ASSUME NEW i \in 1 .. L, table[NumberAt(m, i)] # NoEntry, Symbols(m)[i] # "not"
      PROVE  ParsedTable(m)[NumberAt(m, i)].remoteTime = RemoteTime(m, i)
  <2>1. NumberAt(m, i) \in Numbers
    BY <1>6, <1>7
  <2>2. table[NumberAt(m, i)] \in [localTime : Nat \cup {None}, remoteTime : {Lost}]
    BY <1>5, <2>1 DEF Entries
  <2> QED BY <1>6, <1>7, <2>2
<1>8. ASSUME NEW n \in Numbers, n \notin Told(m) \/ table[n] = NoEntry
      PROVE  ParsedTable(m)[n] = table[n]
  <2>1. CASE table[n] = NoEntry \/ at(n) = {}
    BY <1>1, <2>1
  <2>2. CASE table[n] # NoEntry /\ at(n) # {}
    <3>1. PICK i \in 1 .. L : NumberAt(m, i) = n
      BY <1>2, <2>2 DEF L
    <3>2. Symbols(m)[i] = "not"
      BY <1>8, <2>2, <3>1 DEF Told, L
    <3>3. ParsedTable(m)[n] = [table[n] EXCEPT !.remoteTime = Lost]
      BY <1>6, <2>2, <3>1, <3>2
    <3>4. table[n] \in [localTime : Nat \cup {None}, remoteTime : {Lost}]
      BY <1>5 DEF Entries
    <3>5. table[n].remoteTime = Lost
      BY <3>4
    <3>6. [table[n] EXCEPT !.remoteTime = Lost] = table[n]
      BY <3>4, <3>5
    <3> QED BY <3>3, <3>6
  <2> QED BY <2>1, <2>2
<1> QED BY <1>7, <1>8 DEF L

\* The packets told as received are those of the feedback that have an entry.
LEMMA FoundIs ==
  ASSUME NumberInv, NEW m, Truthful(m)
  PROVE  /\ Found(m) \subseteq Numbers /\ \A n \in Found(m) : table[n] # NoEntry
         /\ FoundReceived(m) = {n \in Told(m) : table[n] # NoEntry}
         /\ \A n \in Numbers \ FoundReceived(m) : ParsedTable(m)[n] = table[n]
         /\ FoundReceived(m) \subseteq Found(m)
<1> DEFINE L == Len(Symbols(m))
           F == {n \in Told(m) : table[n] # NoEntry}
<1>1. /\ \A i \in 1 .. L : table[NumberAt(m, i)] # NoEntry /\ Symbols(m)[i] # "not" =>
           ParsedTable(m)[NumberAt(m, i)].remoteTime = RemoteTime(m, i)
      /\ \A n \in Numbers : n \notin Told(m) \/ table[n] = NoEntry => ParsedTable(m)[n] = table[n]
  BY ParsedTableIs
<1>2. Range(Covered(m)) = {NumberAt(m, i) : i \in 1 .. L} /\ \A i \in 1 .. L : NumberAt(m, i) \in Numbers
  BY CoveredIs, NumberAtIs
<1>3. Told(m) \subseteq Range(Covered(m)) /\ Range(Covered(m)) \subseteq Numbers
  BY <1>2 DEF Told
<1>4. Found(m) \subseteq Numbers /\ \A n \in Found(m) : table[n] # NoEntry
  BY <1>1, <1>3 DEF Found
<1>5. ASSUME NEW n \in FoundReceived(m) PROVE n \in F
  <2>1. n \in Found(m) /\ ParsedTable(m)[n].remoteTime # Lost
    BY DEF FoundReceived
  <2>2. n \in Numbers /\ table[n] # NoEntry
    BY <1>4, <2>1
  <2>3. table[n].remoteTime = Lost
    BY <2>2 DEF NumberInv
  <2>4. n \in Told(m)
    BY <1>1, <2>1, <2>2, <2>3
  <2> QED BY <2>2, <2>4
<1>6. ASSUME NEW n \in F PROVE n \in FoundReceived(m)
  <2>1. n \in Told(m) /\ table[n] # NoEntry
    OBVIOUS
  <2>2. PICK i \in 1 .. L : n = NumberAt(m, i) /\ Symbols(m)[i] # "not"
    BY <2>1 DEF Told
  <2>3. ParsedTable(m)[n].remoteTime = RemoteTime(m, i)
    BY <1>1, <2>1, <2>2
  <2>4. RemoteTime(m, i) \in Nat /\ RemoteTime(m, i) # Lost
    BY <2>2 DEF Truthful, Lost
  <2>5. ParsedTable(m)[n] # NoEntry
    <3>1. NoEntry.remoteTime = Lost
      BY DEF NoEntry
    <3> QED BY <2>3, <2>4, <3>1
  <2>6. n \in Range(Covered(m))
    BY <1>3, <2>1
  <2> QED BY <2>3, <2>4, <2>5, <2>6 DEF FoundReceived, Found
<1>7. FoundReceived(m) = F
  <2> HIDE DEF F
  <2> QED BY <1>5, <1>6
<1>8. \A n \in Numbers \ FoundReceived(m) : ParsedTable(m)[n] = table[n]
  BY <1>1, <1>7
<1>9. FoundReceived(m) \subseteq Found(m)
  BY DEF FoundReceived
<1> QED BY <1>4, <1>7, <1>8, <1>9

LEMMA FeedbackNumbers ==
  ASSUME NumberInv, OnceInv, NEW m, Truthful(m), onRtcpTwccPacket(m)
  PROVE  /\ NumberInv' /\ OnceInv' /\ Used' = Used /\ delivered' = delivered \cup FoundReceived(m)
         /\ \A n \in Numbers : table'[n] = IF n \in FoundReceived(m) THEN NoEntry ELSE table[n]
<1> DEFINE F == FoundReceived(m)
<1>1. /\ budget' = budget /\ clock' = clock /\ numbered' = numbered /\ paced' = paced /\ out' = out
      /\ packets' = packets /\ resent' = resent /\ delivered' = delivered \cup F
      /\ table' = [n \in Numbers |-> IF n \in F THEN NoEntry ELSE ParsedTable(m)[n]]
  BY DEF onRtcpTwccPacket, Removed
<1>2. /\ F \subseteq Numbers /\ \A n \in F : table[n] # NoEntry
      /\ \A n \in Numbers \ F : ParsedTable(m)[n] = table[n]
  BY FoundIs
<1> HIDE DEF F
<1>3. /\ table' = [n \in Numbers |-> IF n \in F THEN NoEntry ELSE table[n]]
      /\ \A n \in Numbers : table'[n] = IF n \in F THEN NoEntry ELSE table[n]
  BY <1>1, <1>2
<1>4. table' \in Entries
  <2>1. NoEntry \in [localTime : Nat \cup {None}, remoteTime : {Lost}]
    BY DEF NoEntry
  <2> QED BY <1>3, <2>1 DEF NumberInv, Entries
<1>5. Used' = Used /\ Numbers' = Numbers
  BY <1>1 DEF Used, Numbers
<1>6. NumberInv'
  <2>1. F \subseteq Used /\ \A n \in Numbers : table'[n] # NoEntry => n \in Used
    BY <1>2, <1>3 DEF NumberInv
  <2>2. delivered' \subseteq Used /\ delivered \subseteq Used
    BY <1>1, <2>1 DEF NumberInv
  <2> QED BY <1>1, <1>4, <1>5, <2>1, <2>2 DEF NumberInv, Entries
<1>7. \A n \in Numbers : Underway(n)' <=> Underway(n)
  BY <1>1 DEF Underway
<1>8. \A n \in Numbers \ resent : Underway(n)' => table'[n] = NoEntry /\ n \notin delivered'
  BY <1>1, <1>2, <1>3, <1>7 DEF OnceInv
<1>9. \A n \in delivered' \ resent : table'[n] = NoEntry
  <2> TAKE n \in delivered' \ resent
  <2>1. n \in F \/ (n \in delivered \ resent /\ n \in Numbers)
    BY <1>1 DEF NumberInv, Used
  <2> QED BY <1>2, <1>3, <2>1 DEF OnceInv
<1>10. OnceInv'
  BY <1>1, <1>5, <1>8, <1>9 DEF OnceInv
<1> QED BY <1>1, <1>3, <1>5, <1>6, <1>10 DEF F

LEMMA ImageSize ==
  ASSUME NEW S, IsFiniteSet(S), NEW g, DOMAIN g = S, g = [x \in S |-> g[x]], IsInjective(g), NEW T, T = {g[x] : x \in S}
  PROVE  Cardinality(T) = Cardinality(S)
<1>1. g \in [S -> T]
  OBVIOUS
<1>2. g \in Bijection(S, T)
  BY <1>1 DEF Bijection, Injection, Surjection, IsInjective
<1>3. ExistsBijection(S, T)
  BY <1>2 DEF ExistsBijection
<1> QED BY <1>3, FS_Bijection

LEMMA FeedbackReports ==
  ASSUME NumberInv, OnceInv, ReceiveInv, NEW m, Truthful(m), onRtcpTwccPacket(m)
  PROVE  ReceivedIsTrue'
<1> DEFINE F == Found(m)
           R == FoundReceived(m)
           rec(n) == [num |-> n, arrivalTime |-> ParsedTable(m)[n].remoteTime,
                      received |-> n \in R, again |-> n \in delivered]
<1>1. /\ F \subseteq Numbers /\ \A n \in F : table[n] # NoEntry
      /\ R = {n \in Told(m) : table[n] # NoEntry} /\ R \subseteq F
  BY FoundIs
<1>2. /\ baseTimeKvs' = baseTimeKvs /\ arrivals' = arrivals /\ resent' = resent
      /\ callbacks' = callbacks
  BY DEF onRtcpTwccPacket, twccReceiver
<1>3. reports' = IF "report" \notin callbacks THEN {} ELSE {rec(n) : n \in F}
  BY DEF onRtcpTwccPacket
<1>4. estimate' = NoEstimate \/ (/\ estimate'.sent = Cardinality(F)
                                 /\ estimate'.received = Cardinality(R))
  BY DEF onRtcpTwccPacket
<1>5. ASSUME NEW n \in R
      PROVE  /\ ParsedTable(m)[n].remoteTime + baseTimeKvs \in arrivals[n]
             /\ n \in delivered => n \in resent
  <2>1. n \in Told(m) /\ table[n] # NoEntry /\ n \in Numbers
    BY <1>1
  <2>2. PICK i \in 1 .. Len(Symbols(m)) : n = NumberAt(m, i) /\ Symbols(m)[i] # "not"
    BY <2>1 DEF Told
  <2>3. ParsedTable(m)[n].remoteTime = RemoteTime(m, i)
    BY <2>1, <2>2, ParsedTableIs
  <2>4. RemoteTime(m, i) + baseTimeKvs \in arrivals[n]
    BY <2>2 DEF Truthful
  <2>5. n \in delivered => n \in resent
    BY <2>1 DEF OnceInv
  <2> QED BY <2>3, <2>4, <2>5
<1>6. \A n \in F : /\ rec(n).num = n /\ rec(n).arrivalTime = ParsedTable(m)[n].remoteTime
                   /\ rec(n).received = (n \in R) /\ rec(n).again = (n \in delivered)
  OBVIOUS
<1> HIDE DEF F, R, rec
<1>7. ASSUME NEW r \in reports', r.received
      PROVE  /\ r.arrivalTime + baseTimeKvs \in arrivals[r.num]
             /\ ~r.again \/ r.num \in resent
  <2>1. PICK n \in F : r = rec(n)
    BY <1>3
  <2>2. n \in R /\ r.num = n /\ r.arrivalTime = ParsedTable(m)[n].remoteTime /\ r.again = (n \in delivered)
    BY <1>6, <1>7, <2>1
  <2> QED BY <1>5, <2>2
<1>8. ASSUME estimate' # NoEstimate, "report" \in callbacks
      PROVE  /\ estimate'.sent = Cardinality(reports')
             /\ estimate'.received = Cardinality({r \in reports' : r.received})
  <2>1. reports' = {rec(n) : n \in F}
    BY <1>3, <1>8
  <2>2. IsFiniteSet(F) /\ IsFiniteSet(R)
    <3>1. IsFiniteSet(Numbers)
      BY SpaceFacts, FS_Interval DEF Numbers
    <3>2. F \in SUBSET Numbers /\ R \in SUBSET Numbers
      BY <1>1
    <3> QED BY <3>1, <3>2, FS_Subset
  <2>3. Cardinality(reports') = Cardinality(F)
    <3>1. PICK g : g = [n \in F |-> rec(n)]
      OBVIOUS
    <3>2. DOMAIN g = F /\ \A n \in F : g[n] = rec(n)
      BY <3>1
    <3>3. g = [n \in F |-> g[n]] /\ IsInjective(g)
      BY <1>6, <3>1, <3>2 DEF IsInjective
    <3>4. reports' = {g[n] : n \in F}
      BY <2>1, <3>2
    <3>5. PICK T : T = {g[n] : n \in F}
      OBVIOUS
    <3>6. Cardinality(T) = Cardinality(F)
      BY <2>2, <3>2, <3>3, <3>5, ImageSize
    <3> QED BY <3>4, <3>5, <3>6
  <2>4. {r \in reports' : r.received} = {rec(n) : n \in R}
    <3>1. ASSUME NEW r \in reports', r.received PROVE r \in {rec(n) : n \in R}
      BY <1>6, <2>1, <3>1
    <3>2. ASSUME NEW n \in R PROVE rec(n) \in reports' /\ rec(n).received
      BY <1>1, <1>6, <2>1
    <3> QED BY <3>1, <3>2
  <2>5. Cardinality({r \in reports' : r.received}) = Cardinality(R)
    <3>1. PICK g : g = [n \in R |-> rec(n)]
      OBVIOUS
    <3>2. DOMAIN g = R /\ \A n \in R : g[n] = rec(n)
      BY <3>1
    <3>3. g = [n \in R |-> g[n]] /\ IsInjective(g)
      BY <1>1, <1>6, <3>1, <3>2 DEF IsInjective
    <3>4. {r \in reports' : r.received} = {g[n] : n \in R}
      BY <2>4, <3>2
    <3>5. PICK T : T = {g[n] : n \in R}
      OBVIOUS
    <3>6. Cardinality(T) = Cardinality(R)
      BY <2>2, <3>2, <3>3, <3>5, ImageSize
    <3> QED BY <3>4, <3>5, <3>6
  <2> QED BY <1>4, <1>8, <2>3, <2>5
<1> QED BY <1>2, <1>7, <1>8 DEF ReceivedIsTrue

LEMMA QuietReports ==
  ASSUME Quiet
  PROVE  ReceivedIsTrue'
BY DEF Quiet, ReceivedIsTrue

-----------------------------------------------------------------------------
(* ReceivedIsTrue                                                          *)

LEMMA TwccInvInit == TwccInit => TwccInv
<1> SUFFICES ASSUME TwccInit PROVE TwccInv
  OBVIOUS
<1>1. ReceivedIsTrue
  BY DEF TwccInit, ReceivedIsTrue
<1> QED BY <1>1, InitNumbers, InitReceive DEF TwccInv

\* what the steps of the sender leave alone
LEMMA SenderSteps ==
  ASSUME \/ SendAtOnce \/ SendPaced \/ DrainPaced \/ (\E n \in Numbers : ResendOnNack(n))
         \/ (\E t \in {"writer", "resender"} : twccManagerOnPacketSent(t))
         \/ twccManagerOnPacedPacketSent
  PROVE  Quiet /\ UNCHANGED twccReceiver /\ feedback' = feedback /\ clock' = clock /\ missed' = missed
BY DEF SendAtOnce, SendPaced, DrainPaced, ResendOnNack, twccManagerOnPacketSent,
       twccManagerOnPacedPacketSent, twccTold

LEMMA TwccInvStep ==
  ASSUME TwccInv, TimelyFeedback, [TwccNext]_twccVars
  PROVE  TwccInv'
<1>0. NumberInv /\ OnceInv /\ ReceiveInv /\ FeedbackInv /\ ReceivedIsTrue /\ clock \in Nat
  BY DEF TwccInv, NumberInv
<1>s. ASSUME Quiet, UNCHANGED twccReceiver, feedback' = feedback, clock' = clock, NumberInv', OnceInv'
      PROVE  TwccInv'
  BY <1>0, <1>s, ReceiverKeeps, QuietReports DEF TwccInv
<1>1. CASE SendAtOnce
  BY <1>0, <1>1, <1>s, SenderSteps, SendAtOnceNumbers
<1>2. CASE SendPaced
  BY <1>0, <1>2, <1>s, SenderSteps, SendPacedNumbers
<1>3. CASE DrainPaced
  BY <1>0, <1>3, <1>s, SenderSteps, DrainPacedNumbers
<1>4. CASE \E n \in Numbers : ResendOnNack(n)
  BY <1>0, <1>4, <1>s, SenderSteps, ResendNumbers
<1>5. CASE \E t \in {"writer", "resender"} : twccManagerOnPacketSent(t)
  BY <1>0, <1>5, <1>s, SenderSteps, PacketSentNumbers
<1>6. CASE twccManagerOnPacedPacketSent
  BY <1>0, <1>6, <1>s, SenderSteps, PacedPacketSentNumbers
<1>7. ASSUME NEW n \in packets, twccReceiverOnPacketReceived(n) PROVE TwccInv'
  <2>1. /\ budget' = budget /\ clock' = clock /\ numbered' = numbered /\ paced' = paced
        /\ out' = out /\ table' = table /\ packets' \subseteq packets /\ resent' = resent
        /\ delivered' = delivered /\ Quiet
    BY <1>7 DEF twccReceiverOnPacketReceived, twccSender, twccTold
  <2>2. NumberInv' /\ OnceInv'
    BY <1>0, <2>1, SenderKeeps
  <2>3. ReceiveInv' /\ FeedbackInv'
    BY <1>0, <1>7, ReceivedReceive
  <2> QED BY <2>1, <2>2, <2>3, QuietReports DEF TwccInv
<1>8. CASE sendRtcpTwccFeedback
  <2>1. /\ budget' = budget /\ clock' = clock /\ numbered' = numbered /\ paced' = paced
        /\ out' = out /\ table' = table /\ packets' = packets /\ resent' = resent
        /\ delivered' = delivered /\ Quiet
    BY <1>8 DEF sendRtcpTwccFeedback, twccSender, twccTold
  <2>2. NumberInv' /\ OnceInv'
    BY <1>0, <2>1, SenderKeeps
  <2>3. ReceiveInv' /\ FeedbackInv'
    BY <1>0, <1>8, SendReceive
  <2> QED BY <2>1, <2>2, <2>3, QuietReports DEF TwccInv
<1>9. ASSUME NEW m \in feedback, onRtcpTwccPacket(m) PROVE TwccInv'
  <2>1. UNCHANGED twccReceiver /\ feedback' \subseteq feedback /\ clock' = clock /\ Truthful(m)
    BY <1>0, <1>9 DEF onRtcpTwccPacket, FeedbackInv
  <2>2. ReceiveInv' /\ FeedbackInv'
    BY <1>0, <2>1, ReceiverKeeps
  <2>3. NumberInv' /\ OnceInv'
    BY <1>0, <1>9, <2>1, FeedbackNumbers
  <2>4. ReceivedIsTrue'
    BY <1>0, <1>9, <2>1, FeedbackReports
  <2> QED BY <2>2, <2>3, <2>4 DEF TwccInv
<1>10. CASE Tick
  <2>1. /\ budget' = budget /\ clock' = clock + 1 /\ numbered' = numbered /\ paced' = paced
        /\ out' = out /\ table' = table /\ packets' = packets /\ resent' = resent
        /\ delivered' = delivered /\ Quiet /\ UNCHANGED twccReceiver /\ feedback' = feedback
    BY <1>10 DEF Tick, twccSender, twccTold
  <2>2. clock' \in Nat /\ clock <= clock'
    BY <1>0, <2>1
  <2>3. NumberInv' /\ OnceInv'
    BY <1>0, <2>1, <2>2, SenderKeeps
  <2>4. ReceiveInv' /\ FeedbackInv'
    BY <1>0, <2>1, <2>2, ReceiverKeeps
  <2> QED BY <2>1, <2>3, <2>4, QuietReports DEF TwccInv
<1>11. CASE UNCHANGED twccVars
  <2>1. /\ budget' = budget /\ clock' = clock /\ numbered' = numbered /\ paced' = paced
        /\ out' = out /\ table' = table /\ packets' = packets /\ resent' = resent
        /\ delivered' = delivered /\ UNCHANGED twccReceiver /\ feedback' = feedback
        /\ reports' = reports /\ estimate' = estimate /\ callbacks' = callbacks
        /\ baseTimeKvs' = baseTimeKvs /\ arrivals' = arrivals
    BY <1>11 DEF twccVars, twccSender, twccTold, twccReceiver
  <2>2. NumberInv' /\ OnceInv'
    BY <1>0, <2>1, SenderKeeps
  <2>3. ReceiveInv' /\ FeedbackInv'
    BY <1>0, <2>1, ReceiverKeeps
  <2>4. ReceivedIsTrue'
    BY <1>0, <2>1 DEF ReceivedIsTrue
  <2> QED BY <2>2, <2>3, <2>4 DEF TwccInv
<1> QED
  BY <1>1, <1>2, <1>3, <1>4, <1>5, <1>6, <1>7, <1>8, <1>9, <1>10, <1>11 DEF TwccNext

\* As long as the timer of the receiver runs often enough, what the application is told as received
\* has arrived, at the time it is told, and is told once unless it was sent again; and the two
\* callbacks count the same packets (sendRtcpTwccFeedback, parseRtcpTwccPacket, onRtcpTwccPacket).
THEOREM ReportsTrue == TwccSpec /\ []TimelyFeedback => []ReceivedIsTrue
<1>1. TwccInv /\ TimelyFeedback /\ [TwccNext]_twccVars => TwccInv'
  BY TwccInvStep
<1>2. TwccInv => ReceivedIsTrue
  BY DEF TwccInv
<1> QED BY <1>1, <1>2, TwccInvInit, PTL DEF TwccSpec

-----------------------------------------------------------------------------
(* NothingForgotten                                                        *)

\* The timer of the receiver runs often enough: the window fits in one feedback.
FittingFeedback ==
  firstPacketReceived => (lastSeqNum - firstSeqNum) % TwccSpace < TWCC_MAX_PACKET_STATUS_COUNT

\* The numbers taken so far are in the order in which they were taken.
LEMMA UsedOrder ==
  ASSUME NumberInv, NEW m \in Used, NEW n \in Used
  PROVE  /\ (m - n) % TwccSpace = IF Back(m) <= Back(n) THEN Back(n) - Back(m)
                                  ELSE Back(n) - Back(m) + TwccSpace
         /\ Earlier(m, n) <=> Back(n) < Back(m)
         /\ Back(m) \in Nat /\ Back(n) \in Nat
<1> DEFINE S == TwccSpace
           x == numbered.next
           a == x - n - 1
           b == x - m - 1
           u == (m - n) % S
<1>1. /\ m \in 0 .. S - 1 /\ n \in 0 .. S - 1 /\ x \in 0 .. S - 1 /\ S \in Nat \ {0}
      /\ S \div 2 \in Nat /\ 2 * (S \div 2) = S
      /\ Back(m) \in 0 .. S - 1 /\ Back(n) \in 0 .. S - 1
      /\ Back(m) < S \div 2 /\ Back(n) < S \div 2
  <2>1. m \in Numbers /\ n \in Numbers /\ x \in Numbers /\ Numbers = 0 .. S - 1
    BY BackRange DEF NumberInv, Numbers
  <2>2. /\ Back(m) < numbered.count /\ Back(n) < numbered.count /\ numbered.count < S \div 2
        /\ Back(m) \in 0 .. S - 1 /\ Back(n) \in 0 .. S - 1 /\ numbered.count \in Nat
    BY <2>1, BackRange
  <2> QED BY <2>1, <2>2, SpaceFacts
<1>2. a \in Int /\ b \in Int /\ a - b = m - n /\ Back(n) = a % S /\ Back(m) = b % S
  BY <1>1 DEF Back
<1> HIDE DEF a, b, S
<1>3. ((a % S) - (b % S)) % S = (a - b) % S
  BY <1>1, <1>2, RemainderDifference
<1>4. u = (Back(n) - Back(m)) % S
  BY <1>2, <1>3
<1> DEFINE d == Back(n) - Back(m)
<1>5. d \in 1 - S .. S - 1 /\ d \in Int
  BY <1>1
<1>6. d % S = IF d >= 0 THEN d ELSE d + S
  <2> HIDE DEF d
  <2> QED BY <1>1, <1>5, RemainderNear
<1>7. u = IF Back(m) <= Back(n) THEN Back(n) - Back(m) ELSE Back(n) - Back(m) + S
  BY <1>1, <1>4, <1>6
<1> HIDE DEF u
<1>8. Earlier(m, n) <=> (IF u >= S \div 2 THEN u - S ELSE u) < 0
  BY DEF Earlier, Signed, u, S
<1>9. Earlier(m, n) <=> Back(n) < Back(m)
  BY <1>1, <1>7, <1>8
<1> QED BY <1>1, <1>7, <1>9 DEF u, S

LEMMA InitKnown ==
  ASSUME TwccInit
  PROVE  WindowInv /\ KnownInv
<1>1. /\ received = [n \in Numbers |-> None] /\ arrivals = [n \in Numbers |-> {}]
      /\ firstPacketReceived = FALSE
  BY DEF TwccInit
<1>2. \A n \in Numbers : received[n] = None /\ arrivals[n] = {}
  BY <1>1
<1> QED BY <1>1, <1>2 DEF WindowInv, KnownInv

\* A number that is taken leaves the order of the others.
LEMMA TakenWindow ==
  ASSUME NumberInv, ReceiveInv, WindowInv, TakeNumber, UNCHANGED twccReceiver
  PROVE  WindowInv'
<1>1. /\ received' = received /\ firstPacketReceived' = firstPacketReceived
      /\ firstSeqNum' = firstSeqNum /\ lastSeqNum' = lastSeqNum
  BY DEF twccReceiver
<1>2. Used \subseteq Used' /\ \A n \in Used : Back(n)' = Back(n) + 1
  BY Taken
<1>3. \A n \in Used : Back(n) \in Int
  BY BackRange
<1>4. Numbers' = Numbers
  BY DEF Numbers
<1> DEFINE f == firstSeqNum
           l == lastSeqNum
<1>5. ASSUME firstPacketReceived
      PROVE  /\ f \in Used /\ l \in Used /\ Back(l) <= Back(f)
             /\ f \in Used' /\ l \in Used' /\ Back(l)' <= Back(f)'
  <2>1. f \in Used /\ l \in Used /\ Back(l) <= Back(f)
    BY <1>5 DEF WindowInv
  <2> DEFINE x == Back(f)
             y == Back(l)
  <2>2. x \in Int /\ y \in Int /\ y <= x
    BY <1>3, <2>1
  <2> HIDE DEF x, y
  <2>3. y + 1 <= x + 1
    BY <2>2
  <2>4. Back(l)' = y + 1 /\ Back(f)' = x + 1
    BY <1>1, <1>2, <2>1 DEF x, y
  <2> QED BY <1>2, <2>1, <2>3, <2>4
<1>6. ASSUME NEW n \in Numbers, received[n] # None
      PROVE  firstPacketReceived /\ n \in Used' /\ Back(l)' <= Back(n)' /\ Back(n)' <= Back(f)'
  <2>1. firstPacketReceived /\ n \in Used /\ Back(l) <= Back(n) /\ Back(n) <= Back(f)
    BY <1>6 DEF WindowInv
  <2>2. f \in Used /\ l \in Used
    BY <1>5, <2>1
  <2> DEFINE x == Back(f)
             y == Back(l)
             z == Back(n)
  <2>3. x \in Int /\ y \in Int /\ z \in Int /\ y <= z /\ z <= x
    BY <1>3, <2>1, <2>2
  <2> HIDE DEF x, y, z
  <2>4. y + 1 <= z + 1 /\ z + 1 <= x + 1
    BY <2>3
  <2>5. Back(l)' = y + 1 /\ Back(f)' = x + 1 /\ Back(n)' = z + 1
    BY <1>1, <1>2, <2>1, <2>2 DEF x, y, z
  <2> QED BY <1>2, <2>1, <2>4, <2>5
<1> HIDE DEF f, l
<1> QED BY <1>1, <1>4, <1>5, <1>6 DEF WindowInv, f, l

LEMMA WindowKeeps ==
  ASSUME WindowInv, UNCHANGED twccReceiver, numbered' = numbered
  PROVE  WindowInv'
BY DEF WindowInv, twccReceiver, Back, Used, Numbers

LEMMA KnownKeeps ==
  ASSUME KnownInv, UNCHANGED twccReceiver, feedback' = feedback, missed \subseteq missed',
         resent \subseteq resent', delivered \subseteq delivered'
  PROVE  KnownInv'
BY DEF KnownInv, twccReceiver, ToldBy, Numbers

\* A packet that arrives widens the window.
LEMMA ReceivedWindow ==
  ASSUME NumberInv, ReceiveInv, WindowInv, KnownInv, NEW n \in packets, twccReceiverOnPacketReceived(n)
  PROVE  WindowInv' /\ KnownInv'
<1>1. /\ numbered' = numbered /\ feedback' = feedback /\ missed' = missed /\ resent' = resent
      /\ delivered' = delivered /\ arrivals' = [arrivals EXCEPT ![n] = @ \cup {clock}]
  BY DEF twccReceiverOnPacketReceived, twccSender, twccTold
<1>2. n \in Used /\ n \in Numbers /\ clock \in Nat
  BY DEF NumberInv, Used
<1>3. /\ Noting /\ arrivals \in [Numbers -> SUBSET Nat] /\ baseTimeKvs \in Nat \cup {None}
      /\ baseTimeKvs <= clock
  BY DEF ReceiveInv
<1>4. /\ Numbers' = Numbers /\ Used' = Used /\ \A k : ToldBy(k)' = ToldBy(k)
  BY <1>1 DEF Numbers, Used, ToldBy
<1>5. \A k \in Numbers \ {n} : arrivals'[k] = arrivals[k]
  BY <1>1, <1>3
<1>6. CASE received[n] # None
  <2>1. /\ received' = received /\ firstPacketReceived' = firstPacketReceived
        /\ firstSeqNum' = firstSeqNum /\ lastSeqNum' = lastSeqNum
    BY <1>6 DEF twccReceiverOnPacketReceived
  <2>2. WindowInv'
    BY <1>1, <1>4, <2>1 DEF WindowInv, Back
  <2>3. KnownInv'
    BY <1>1, <1>4, <1>5, <1>6, <2>1 DEF KnownInv
  <2> QED BY <2>2, <2>3
<1>7. CASE received[n] = None
  <2>1. /\ baseTimeKvs' = IF baseTimeKvs = None THEN clock ELSE baseTimeKvs
        /\ received' = [received EXCEPT ![n] = clock - baseTimeKvs'] /\ firstPacketReceived' = TRUE
        /\ firstSeqNum' = IF ~firstPacketReceived \/ Earlier(n, firstSeqNum) THEN n ELSE firstSeqNum
        /\ lastSeqNum' = IF ~firstPacketReceived \/ Earlier(lastSeqNum, n) THEN n ELSE lastSeqNum
    BY <1>7 DEF twccReceiverOnPacketReceived
  <2>2. baseTimeKvs' \in Nat /\ baseTimeKvs' <= clock
    BY <1>2, <1>3, <2>1 DEF None
  <2> DEFINE v == clock - baseTimeKvs'
  <2>3. v \in Nat
    <3>1. \A x, y \in Nat : y <= x => x - y \in Nat
      OBVIOUS
    <3> QED BY <1>2, <2>2, <3>1, Zenon
  <2>4. v # None
    BY <2>3 DEF None
  <2> HIDE DEF v
  <2>5. /\ received'[n] # None /\ \A k \in Numbers \ {n} : received'[k] = received[k]
    <3>1. received' = [received EXCEPT ![n] = v]
      BY <2>1 DEF v
    <3> QED BY <1>2, <1>3, <2>4, <3>1 DEF Noting
  <2>6. PICK f : f = IF ~firstPacketReceived \/ Earlier(n, firstSeqNum) THEN n ELSE firstSeqNum
    OBVIOUS
  <2>7. PICK l : l = IF ~firstPacketReceived \/ Earlier(lastSeqNum, n) THEN n ELSE lastSeqNum
    OBVIOUS
  <2>8. /\ firstSeqNum' = f /\ lastSeqNum' = l /\ \A k : Back(k)' = Back(k)
        /\ Back(firstSeqNum)' = Back(f) /\ Back(lastSeqNum)' = Back(l)
    BY <1>1, <2>1, <2>6, <2>7 DEF Back
  <2>9. Back(n) \in Nat
    BY <1>2, UsedOrder
  <2>10. /\ f \in Used /\ l \in Used /\ Back(l) <= Back(n) /\ Back(n) <= Back(f)
         /\ firstPacketReceived => Back(l) <= Back(lastSeqNum) /\ Back(firstSeqNum) <= Back(f)
    <3>1. CASE ~firstPacketReceived
      BY <1>2, <2>6, <2>7, <2>9, <3>1
    <3>2. CASE firstPacketReceived
      <4>1. firstSeqNum \in Used /\ lastSeqNum \in Used
        BY <3>2 DEF WindowInv
      <4>2. /\ Earlier(n, firstSeqNum) <=> Back(firstSeqNum) < Back(n)
            /\ Earlier(lastSeqNum, n) <=> Back(n) < Back(lastSeqNum)
            /\ Back(firstSeqNum) \in Nat /\ Back(lastSeqNum) \in Nat
        BY <1>2, <4>1, UsedOrder
      <4>3. /\ f = IF Back(firstSeqNum) < Back(n) THEN n ELSE firstSeqNum
            /\ l = IF Back(n) < Back(lastSeqNum) THEN n ELSE lastSeqNum
        BY <2>6, <2>7, <3>2, <4>2
      <4>4. f \in Used /\ Back(n) <= Back(f) /\ Back(firstSeqNum) <= Back(f)
        BY <1>2, <2>9, <4>1, <4>2, <4>3
      <4>5. l \in Used /\ Back(l) <= Back(n) /\ Back(l) <= Back(lastSeqNum)
        BY <1>2, <2>9, <4>1, <4>2, <4>3
      <4> QED BY <4>4, <4>5
    <3> QED BY <3>1, <3>2
  <2>11. Back(f) \in Nat /\ Back(l) \in Nat
    BY <2>10, UsedOrder
  <2>12. ASSUME NEW k \in Numbers, received'[k] # None
         PROVE  k \in Used /\ Back(l) <= Back(k) /\ Back(k) <= Back(f)
    <3>1. CASE k = n
      BY <1>2, <2>10, <3>1
    <3>2. CASE k # n
      <4>1. received[k] # None
        BY <2>5, <2>12, <3>2
      <4>2. /\ firstPacketReceived /\ k \in Used /\ Back(lastSeqNum) <= Back(k)
            /\ Back(k) <= Back(firstSeqNum) /\ firstSeqNum \in Used /\ lastSeqNum \in Used
        BY <4>1 DEF WindowInv
      <4>3. Back(k) \in Nat /\ Back(firstSeqNum) \in Nat /\ Back(lastSeqNum) \in Nat
        BY <4>2, UsedOrder
      <4> QED BY <2>10, <2>11, <4>2, <4>3
    <3> QED BY <3>1, <3>2
  <2>13. Back(l) <= Back(f)
    BY <2>9, <2>10, <2>11
  <2>14. WindowInv'
    BY <1>4, <2>1, <2>8, <2>10, <2>12, <2>13 DEF WindowInv
  <2>15. KnownInv'
    BY <1>1, <1>4, <1>5, <2>5 DEF KnownInv
  <2> QED BY <2>14, <2>15
<1> QED BY <1>6, <1>7

\* A window that fits is told as a whole.
LEMMA WindowTold ==
  ASSUME NumberInv, ReceiveInv, WindowInv, FittingFeedback, firstPacketReceived,
         NEW n \in Numbers, received[n] # None
  PROVE  \E i \in 1 .. Length : (firstSeqNum + i - 1) % TwccSpace = n
<1> DEFINE S == TwccSpace
           M == TWCC_MAX_PACKET_STATUS_COUNT
           f == firstSeqNum
           l == lastSeqNum
<1>1. /\ f \in Used /\ l \in Used /\ n \in Used
      /\ Back(l) <= Back(n) /\ Back(n) <= Back(f) /\ Back(l) <= Back(f)
  BY DEF WindowInv
<1>2. f \in 0 .. S - 1 /\ l \in 0 .. S - 1 /\ n \in 0 .. S - 1 /\ S \in Nat \ {0} /\ M \in 1 .. S - 1
  BY <1>1, SpaceFacts, TwccAssumption DEF Used, Numbers
<1> HIDE DEF f, l, S, M
<1>3. Back(f) \in Nat /\ Back(l) \in Nat /\ Back(n) \in Nat
  BY <1>1, UsedOrder
<1> DEFINE w == (l - f) % S
           d == (n - f) % S
<1>4. w = Back(f) - Back(l) /\ d = Back(f) - Back(n)
  BY <1>1, <1>3, UsedOrder DEF S
<1>5. w < M
  BY DEF FittingFeedback, f, l, S, M
<1>6. w \in Nat /\ d \in Nat /\ d <= w
  BY <1>1, <1>3, <1>4
<1>7. (l - f + 1) % S = w + 1
  <2> DEFINE a == l - f
             b == 1
  <2>1. a \in Int /\ b \in Int /\ l - f + 1 = a + b /\ w = a % S
    BY <1>2
  <2> HIDE DEF a, b, w
  <2>2. ((a % S) + b) % S = (a + b) % S
    BY <1>2, <2>1, RemainderSum
  <2>3. w + 1 \in 1 - S .. S - 1 /\ w + 1 >= 0
    BY <1>2, <1>5, <1>6
  <2> DEFINE c == w + 1
  <2>4. c \in 1 - S .. S - 1 /\ c >= 0
    BY <2>3
  <2> HIDE DEF c
  <2>5. c % S = c
    BY <1>2, <2>4, RemainderNear
  <2> QED BY <2>1, <2>2, <2>5 DEF b, c
<1>8. (f + d) % S = n
  <2> DEFINE a == n - f
  <2>1. a \in Int /\ a + f = n /\ d = a % S /\ f \in Int
    BY <1>2
  <2> HIDE DEF a, d
  <2>2. ((a % S) + f) % S = (a + f) % S
    BY <1>2, <2>1, RemainderSum
  <2>3. n \in 1 - S .. S - 1 /\ n >= 0
    BY <1>2
  <2>4. n % S = n
    BY <1>2, <2>3, RemainderNear
  <2>5. f + d = d + f
    BY <1>6, <2>1
  <2> QED BY <2>1, <2>2, <2>4, <2>5
<1> HIDE DEF w, d
<1>9. Length = w + 1
  <2> DEFINE x == (l - f + 1) % S
  <2>1. x = w + 1 /\ x \in Int /\ M \in Int /\ x <= M
    BY <1>2, <1>5, <1>6, <1>7
  <2> HIDE DEF x
  <2>2. Min({x, M}) = x
    BY <2>1, LeastOfTwo
  <2> QED BY <2>1, <2>2 DEF Length, x, l, f, S, M
<1>10. d + 1 \in 1 .. Length /\ f + (d + 1) - 1 = f + d
  BY <1>2, <1>6, <1>9
<1> QED BY <1>8, <1>10 DEF f, S

\* A feedback that is sent takes over all that was noted.
LEMMA SendWindow ==
  ASSUME NumberInv, ReceiveInv, WindowInv, KnownInv, TimelyFeedback, FittingFeedback,
         sendRtcpTwccFeedback
  PROVE  WindowInv' /\ KnownInv'
<1>1. PICK told : told = NumbersFrom(firstSeqNum, Length)
  OBVIOUS
<1>2. PICK m : m = Message(told)
  OBVIOUS
<1>3. /\ Length \in 1 .. TwccSpace - 1 /\ told \in [1 .. Length -> Numbers]
      /\ feedback' = feedback \cup {m} /\ received' = Kept(told)
      /\ \A i \in 1 .. Length : NumberAt(m, i) = told[i]
      /\ Symbols(m) \in Seq(Symbol) /\ Len(Symbols(m)) = Length
      /\ \A i \in 1 .. Length : Symbols(m)[i] # "not" <=> received[told[i]] # None
  BY <1>1, <1>2, SendFacts
<1>4. /\ firstPacketReceived /\ firstPacketReceived' = FALSE /\ arrivals' = arrivals
      /\ missed' = missed /\ resent' = resent /\ delivered' = delivered
  BY DEF sendRtcpTwccFeedback, twccSender, twccTold
<1>5. Length \in Nat /\ firstSeqNum \in Numbers
  BY <1>3, SpaceFacts DEF ReceiveInv
<1>6. \A i \in 1 .. Length : told[i] = (firstSeqNum + i - 1) % TwccSpace
  BY <1>1, <1>5, NumbersFromIs
<1>7. ASSUME NEW n \in Numbers, received[n] # None
      PROVE  received'[n] = None /\ m \in ToldBy(n)'
  <2>1. PICK i \in 1 .. Length : told[i] = n
    BY <1>4, <1>6, <1>7, WindowTold
  <2>2. n \in Range(told)
    BY <1>3, <2>1 DEF Range
  <2>3. received'[n] = None
    BY <1>3, <2>2 DEF Kept
  <2>4. i \in DOMAIN Symbols(m) /\ NumberAt(m, i) = n /\ Symbols(m)[i] # "not"
    BY <1>3, <1>5, <1>7, <2>1
  <2>5. m \in feedback'
    BY <1>3
  <2> QED BY <2>3, <2>4, <2>5 DEF ToldBy
<1>8. Numbers' = Numbers /\ \A n : ToldBy(n) \subseteq ToldBy(n)'
  BY <1>3 DEF Numbers, ToldBy
<1>9. \A n \in Numbers : received'[n] = None
  BY <1>3, <1>7 DEF Kept
<1>10. WindowInv'
  BY <1>4, <1>8, <1>9 DEF WindowInv
<1>11. ASSUME NEW n \in Numbers, arrivals'[n] # {}
       PROVE  \/ ToldBy(n)' # {} \/ n \in missed' \/ n \in resent' \/ n \in delivered'
  <2>1. \/ received[n] # None \/ ToldBy(n) # {}
        \/ n \in missed \/ n \in resent \/ n \in delivered
    BY <1>4, <1>11 DEF KnownInv
  <2> QED BY <1>4, <1>7, <1>8, <2>1
<1>12. KnownInv'
  BY <1>8, <1>11 DEF KnownInv
<1> QED BY <1>10, <1>12

\* What a feedback told of is told to the application, unless it had no entry.
LEMMA FeedbackKnown ==
  ASSUME NumberInv, OnceInv, KnownInv, NEW m \in feedback, Truthful(m), onRtcpTwccPacket(m)
  PROVE  KnownInv'
<1>1. /\ feedback' = feedback \ {m} /\ arrivals' = arrivals /\ received' = received /\ resent' = resent
      /\ delivered' = delivered \cup FoundReceived(m)
      /\ missed' = missed \cup {NumberAt(m, i) : i \in {j \in DOMAIN Symbols(m) :
                                  Symbols(m)[j] # "not" /\ table[NumberAt(m, j)] = NoEntry}}
  BY DEF onRtcpTwccPacket, twccReceiver
<1>2. FoundReceived(m) = {n \in Told(m) : table[n] # NoEntry}
  BY FoundIs
<1>3. DOMAIN Symbols(m) = 1 .. Len(Symbols(m))
  BY DEF Truthful
<1>4. ASSUME NEW n, ToldBy(n) # {}
      PROVE  ToldBy(n)' # {} \/ n \in missed' \/ n \in delivered'
  <2>1. PICK k \in feedback : \E i \in DOMAIN Symbols(k) : NumberAt(k, i) = n /\ Symbols(k)[i] # "not"
    BY <1>4 DEF ToldBy
  <2>2. CASE k # m
    <3>1. k \in feedback'
      BY <1>1, <2>2
    <3> QED BY <2>1, <3>1 DEF ToldBy
  <2>3. CASE k = m
    <3>1. PICK i \in DOMAIN Symbols(m) : NumberAt(m, i) = n /\ Symbols(m)[i] # "not"
      BY <2>1, <2>3
    <3>2. n \in Told(m)
      BY <1>3, <3>1 DEF Told
    <3>3. CASE table[n] = NoEntry
      <4>1. n \in missed'
        BY <1>1, <3>1, <3>3
      <4> QED BY <4>1
    <3>4. CASE table[n] # NoEntry
      BY <1>1, <1>2, <3>2, <3>4
    <3> QED BY <3>3, <3>4
  <2> QED BY <2>2, <2>3
<1>5. Numbers' = Numbers /\ missed \subseteq missed' /\ delivered \subseteq delivered'
  BY <1>1 DEF Numbers
<1> QED BY <1>1, <1>4, <1>5 DEF KnownInv

\* A thing that the receiver notes is in the window of its next feedback.
LEMMA NotedInWindow ==
  ASSUME NumberInv, WindowInv, NEW n \in Numbers, received[n] # None
  PROVE  Noted(n)
<1>1. /\ firstPacketReceived /\ firstSeqNum \in Used /\ lastSeqNum \in Used /\ n \in Used
      /\ Back(lastSeqNum) <= Back(n) /\ Back(n) <= Back(firstSeqNum)
      /\ Back(lastSeqNum) <= Back(firstSeqNum)
  BY DEF WindowInv
<1>2. /\ (n - firstSeqNum) % TwccSpace = Back(firstSeqNum) - Back(n)
      /\ (lastSeqNum - firstSeqNum) % TwccSpace = Back(firstSeqNum) - Back(lastSeqNum)
      /\ Back(firstSeqNum) \in Nat /\ Back(lastSeqNum) \in Nat /\ Back(n) \in Nat
  BY <1>1, UsedOrder
<1>3. Back(firstSeqNum) - Back(n) <= Back(firstSeqNum) - Back(lastSeqNum)
  BY <1>1, <1>2
<1> QED BY <1>1, <1>2, <1>3 DEF Noted

KnowledgeInv == TwccInv /\ WindowInv /\ KnownInv

LEMMA KnowledgeStep ==
  ASSUME KnowledgeInv, TimelyFeedback, FittingFeedback, [TwccNext]_twccVars
  PROVE  KnowledgeInv'
<1>0. /\ NumberInv /\ OnceInv /\ ReceiveInv /\ FeedbackInv /\ WindowInv /\ KnownInv /\ TwccInv
  BY DEF TwccInv, KnowledgeInv
<1>i. TwccInv'
  BY <1>0, TwccInvStep
<1>s. ASSUME UNCHANGED twccReceiver, feedback' = feedback, missed \subseteq missed',
             resent \subseteq resent', delivered \subseteq delivered', WindowInv'
      PROVE  KnowledgeInv'
  BY <1>0, <1>i, <1>s, KnownKeeps DEF KnowledgeInv
<1>1. CASE SendAtOnce
  <2>1. TakeNumber /\ UNCHANGED twccReceiver /\ resent' = resent /\ delivered' = delivered
    BY <1>1 DEF SendAtOnce, twccTold
  <2>2. WindowInv'
    BY <1>0, <2>1, TakenWindow
  <2> QED BY <1>1, <1>s, <2>1, <2>2, SenderSteps
<1>2. CASE SendPaced
  <2>1. TakeNumber /\ UNCHANGED twccReceiver /\ resent' = resent /\ delivered' = delivered
    BY <1>2 DEF SendPaced, twccTold
  <2>2. WindowInv'
    BY <1>0, <2>1, TakenWindow
  <2> QED BY <1>2, <1>s, <2>1, <2>2, SenderSteps
<1>3. CASE \/ DrainPaced \/ (\E n \in Numbers : ResendOnNack(n))
           \/ (\E t \in {"writer", "resender"} : twccManagerOnPacketSent(t))
           \/ twccManagerOnPacedPacketSent
  <2>1. numbered' = numbered /\ resent \subseteq resent' /\ delivered' = delivered
    BY <1>3 DEF DrainPaced, ResendOnNack, twccManagerOnPacketSent, twccManagerOnPacedPacketSent, twccTold
  <2>2. UNCHANGED twccReceiver /\ feedback' = feedback /\ missed' = missed
    BY <1>3, SenderSteps
  <2>3. WindowInv'
    BY <1>0, <2>1, <2>2, WindowKeeps
  <2> QED BY <1>s, <2>1, <2>2, <2>3
<1>4. ASSUME NEW n \in packets, twccReceiverOnPacketReceived(n) PROVE KnowledgeInv'
  BY <1>0, <1>i, <1>4, ReceivedWindow DEF KnowledgeInv
<1>5. CASE sendRtcpTwccFeedback
  BY <1>0, <1>i, <1>5, SendWindow DEF KnowledgeInv
<1>6. ASSUME NEW m \in feedback, onRtcpTwccPacket(m) PROVE KnowledgeInv'
  <2>1. UNCHANGED twccReceiver /\ numbered' = numbered /\ Truthful(m)
    BY <1>0, <1>6 DEF onRtcpTwccPacket, FeedbackInv
  <2>2. WindowInv'
    BY <1>0, <2>1, WindowKeeps
  <2>3. KnownInv'
    BY <1>0, <1>6, <2>1, FeedbackKnown
  <2> QED BY <1>i, <2>2, <2>3 DEF KnowledgeInv
<1>7. CASE Tick \/ UNCHANGED twccVars
  <2>1. /\ UNCHANGED twccReceiver /\ numbered' = numbered /\ feedback' = feedback
        /\ missed' = missed /\ resent' = resent /\ delivered' = delivered
    BY <1>7 DEF Tick, twccVars, twccSender, twccTold
  <2>2. WindowInv'
    BY <1>0, <2>1, WindowKeeps
  <2> QED BY <1>s, <2>1, <2>2
<1> QED BY <1>1, <1>2, <1>3, <1>4, <1>5, <1>6, <1>7 DEF TwccNext

\* As long as the timer of the receiver runs often enough, no arrival is lost between the two
\* ends: the entry of a packet that has arrived waits for news that is noted or under way, or
\* that came before the entry was made (twccReceiverOnPacketReceived, sendRtcpTwccFeedback,
\* twccManagerOnPacketSent, twccManagerOnPacedPacketSent, onRtcpTwccPacket).
THEOREM ArrivalsTold ==
  TwccSpec /\ [](TimelyFeedback /\ FittingFeedback) => []NothingForgotten
<1>1. TwccInit => KnowledgeInv
  BY TwccInvInit, InitKnown DEF KnowledgeInv
<1>2. KnowledgeInv /\ (TimelyFeedback /\ FittingFeedback) /\ [TwccNext]_twccVars => KnowledgeInv'
  BY KnowledgeStep
<1>3. KnowledgeInv => NothingForgotten
  <2> SUFFICES ASSUME KnowledgeInv, NEW n \in Numbers, table[n] # NoEntry, arrivals[n] # {}
               PROVE  Noted(n) \/ ToldBy(n) # {} \/ n \in missed \/ n \in resent
    BY DEF NothingForgotten
  <2>1. NumberInv /\ OnceInv /\ WindowInv /\ KnownInv
    BY DEF KnowledgeInv, TwccInv
  <2>2. \/ received[n] # None \/ ToldBy(n) # {}
        \/ n \in missed \/ n \in resent \/ n \in delivered
    BY <2>1 DEF KnownInv
  <2>3. n \in delivered => n \in resent
    BY <2>1 DEF OnceInv
  <2>4. received[n] # None => Noted(n)
    BY <2>1, NotedInWindow
  <2> QED BY <2>2, <2>3, <2>4
<1> QED BY <1>1, <1>2, <1>3, PTL DEF TwccSpec
=============================================================================
