-------------------------- MODULE RtpSenderProofs --------------------------
(***************************************************************************)
(* Proofs about the media send path.                                       *)
(*                                                                         *)
(* SenderInv is inductive.  Its parts: PacerInv (the pacer's counters, and *)
(* the queue with its oldest packet first), AppInv (how far writeFrame has *)
(* come), BufferInv (the window of the rolling buffer, and which slots it  *)
(* has not reached), NackInv (what the listener thread holds) and OneOwner *)
(* itself.  A packet that is added is new because every copy there is was  *)
(* constructed before it: that is what Added is for.                       *)
(*                                                                         *)
(* Sums and rtpRollingBufferGetValidSeqIndexList are recursive functions.  *)
(* That they satisfy their equations is proved by induction over a set of  *)
(* numbers (InductionOn), which rests on the well-foundedness of < on Nat. *)
(***************************************************************************)
EXTENDS RtpSender, FiniteSetTheorems, WellFoundedInduction, TLAPS

-----------------------------------------------------------------------------
(* Numbers, least elements and induction                                   *)

LEMMA NatLeast ==
  ASSUME NEW T \in SUBSET Nat, T # {}
  PROVE  \E m \in T : \A y \in T : m <= y
<1> DEFINE R == {ss \in Nat \X Nat : ss[1] < ss[2]}
<1>1. IsWellFoundedOn(R, Nat)
  BY NatLessThanWellFounded, Zenon DEF OpToRel
<1> HIDE DEF R
<1>2. PICK m \in T : \A y \in T : ~(<<y, m>> \in R)
  BY <1>1, WFMin
<1>3. \A y \in T : ~(y < m)
  BY <1>2 DEF R
<1> QED BY <1>3

\* Induction over a set of numbers.
LEMMA InductionOn ==
  ASSUME NEW T \in SUBSET Nat, 0 \in T, \A n \in T : n + 1 \in T
  PROVE  T = Nat
<1> SUFFICES ASSUME Nat \ T # {} PROVE FALSE
  OBVIOUS
<1>1. PICK m \in Nat \ T : \A y \in Nat \ T : m <= y
  BY NatLeast
<1>2. m # 0 /\ m - 1 \in Nat /\ m - 1 \in T
  BY <1>1
<1> QED BY <1>1, <1>2

LEMMA MinIsLeast ==
  ASSUME NEW S \in SUBSET Nat, S # {}
  PROVE  Min(S) \in S /\ \A y \in S : Min(S) <= y
BY NatLeast DEF Min

LEMMA MinOfTwo ==
  ASSUME NEW a \in Int, NEW b \in Int
  PROVE  Min({a, b}) = IF a <= b THEN a ELSE b
<1>1. \E x \in {a, b} : \A y \in {a, b} : x <= y
  OBVIOUS
<1>2. Min({a, b}) \in {a, b} /\ \A y \in {a, b} : Min({a, b}) <= y
  BY <1>1 DEF Min
<1> QED BY <1>2

LEMMA MaxOfTwo ==
  ASSUME NEW a \in Int, NEW b \in Int
  PROVE  Max({a, b}) = IF a >= b THEN a ELSE b
<1>1. \E x \in {a, b} : \A y \in {a, b} : x >= y
  OBVIOUS
<1>2. Max({a, b}) \in {a, b} /\ \A y \in {a, b} : Max({a, b}) >= y
  BY <1>1 DEF Max
<1> QED BY <1>2

\* A finite set of numbers has a largest one.
LEMMA MaxIsIn ==
  ASSUME NEW S \in SUBSET Nat, S # {}, IsFiniteSet(S)
  PROVE  Max(S) \in S /\ \A y \in S : Max(S) >= y
<1> DEFINE Above(x) == {y \in S : x < y}
           T == {Cardinality(Above(x)) : x \in S}
<1>1. \A x \in S : IsFiniteSet(Above(x)) /\ Cardinality(Above(x)) \in Nat
  BY FS_Subset, FS_CardinalityType
<1>2. T \in SUBSET Nat /\ T # {}
  BY <1>1
<1>3. PICK m \in T : \A c \in T : m <= c
  BY <1>2, NatLeast
<1>4. PICK x \in S : m = Cardinality(Above(x))
  BY <1>3
<1>5. \A y \in S : y <= x
  <2> SUFFICES ASSUME NEW y \in S, x < y PROVE FALSE
    OBVIOUS
  <2> DEFINE A == Above(y)
             B == Above(x)
  <2>1. A \subseteq B /\ y \in B /\ y \notin A /\ S \subseteq Nat
    <3>1. y \in B /\ y \notin A
      OBVIOUS
    <3>2. ASSUME NEW z \in A PROVE z \in B
      <4>1. z \in S /\ y < z /\ z \in Nat /\ y \in Nat /\ x \in Nat
        OBVIOUS
      <4>2. x < z
        BY <4>1
      <4> QED BY <4>1, <4>2
    <3> QED BY <3>1, <3>2
  <2>2. /\ IsFiniteSet(A) /\ IsFiniteSet(B) /\ Cardinality(A) \in Nat /\ Cardinality(B) \in Nat
        /\ Cardinality(B) <= Cardinality(A)
    BY <1>1, <1>3, <1>4
  <2> HIDE DEF A, B
  <2>3. Cardinality(A) <= Cardinality(B) /\ (Cardinality(B) = Cardinality(A) => B = A)
    BY <2>1, <2>2, FS_Subset
  <2> QED BY <2>1, <2>2, <2>3
<1>6. \E z \in S : \A y \in S : z >= y
  BY <1>5
<1> QED BY <1>6 DEF Max

-----------------------------------------------------------------------------
(* Remainders                                                              *)

LEMMA ModType ==
  ASSUME NEW S \in Nat \ {0}, NEW a \in Int, NEW r, r = a % S
  PROVE  r \in 0 .. S - 1 /\ \E q \in Int : S * q \in Int /\ a = S * q + r
<1> DEFINE k == a \div S
           x == S * k
<1>1. r \in 0 .. S - 1 /\ k \in Int /\ a - x = r
  OBVIOUS
<1> HIDE DEF k
<1>2. x \in Int
  BY <1>1
<1> HIDE DEF x
<1>3. r \in Int
  BY <1>1
<1>4. \A u, v \in Int : a - u = v => a = u + v
  OBVIOUS
<1>5. a = x + r
  BY <1>1, <1>2, <1>3, <1>4
<1>6. S * k \in Int /\ a = S * k + r
  BY <1>2, <1>5, Zenon DEF x
<1> QED BY <1>1, <1>6, Zenon

LEMMA ModUnique ==
  ASSUME NEW S \in Nat \ {0}, NEW q \in Int, NEW r \in 0 .. S - 1
  PROVE  (S * q + r) % S = r
OBVIOUS

\* A number d further, with or without a wrap-around.
LEMMA ModAdd ==
  ASSUME NEW S \in Nat \ {0}, NEW a \in Int, NEW d \in 0 .. S
  PROVE  (a + d) % S = IF (a % S) + d < S THEN (a % S) + d ELSE (a % S) + d - S
<1> DEFINE r == a % S
<1>r. r = a % S
  OBVIOUS
<1> HIDE DEF r
<1>0. r \in 0 .. S - 1 /\ \E q \in Int : S * q \in Int /\ a = S * q + r
  BY <1>r, ModType
<1>1. PICK q \in Int : r \in 0 .. S - 1 /\ a = S * q + r
  BY <1>0
<1>2. S * q \in Int /\ S * (q + 1) = S * q + S /\ q + 1 \in Int
  BY <1>1
<1>3. CASE r + d < S
  <2>1. a + d = S * q + (r + d) /\ r + d \in 0 .. S - 1
    BY <1>1, <1>2, <1>3
  <2>2. (S * q + (r + d)) % S = r + d
    BY <1>1, <2>1, ModUnique
  <2> QED BY <1>3, <2>1, <2>2 DEF r
<1>4. CASE ~(r + d < S)
  <2>1. a + d = S * (q + 1) + (r + d - S) /\ r + d - S \in 0 .. S - 1
    BY <1>1, <1>2, <1>4
  <2>2. (S * (q + 1) + (r + d - S)) % S = r + d - S
    BY <1>2, <2>1, ModUnique
  <2> QED BY <1>4, <2>1, <2>2 DEF r
<1> QED BY <1>3, <1>4

\* The number with remainder d in the same turn as a.
LEMMA ModSame ==
  ASSUME NEW S \in Nat \ {0}, NEW a \in Int, NEW d \in 0 .. S - 1
  PROVE  (a - (a % S) + d) % S = d
<1> DEFINE r == a % S
<1>r. r = a % S
  OBVIOUS
<1> HIDE DEF r
<1>0. r \in 0 .. S - 1 /\ \E q \in Int : S * q \in Int /\ a = S * q + r
  BY <1>r, ModType
<1>1. PICK q \in Int : S * q \in Int /\ a = S * q + r
  BY <1>0
<1>2. (S * q + d) % S = d
  BY ModUnique
<1>3. a - r + d = S * q + d
  BY <1>0, <1>1
<1> QED BY <1>2, <1>3 DEF r

LEMMA ModSmall ==
  ASSUME NEW S \in Nat \ {0}, NEW d \in 0 .. S - 1
  PROVE  d % S = d
OBVIOUS

-----------------------------------------------------------------------------
(* Sums                                                                    *)

\* Sums is what its equations say: by induction there is such a function.
LEMMA SumsDef ==
  ASSUME NEW s \in Seq(Nat)
  PROVE  /\ Sums(s) \in [0 .. Len(s) -> Nat] /\ Sums(s)[0] = 0
         /\ \A n \in 1 .. Len(s) : Sums(s)[n] = Sums(s)[n - 1] + s[n]
<1> DEFINE N == Len(s)
           Adds(f, m) == /\ f \in [0 .. m -> Nat] /\ f[0] = 0
                         /\ \A n \in 1 .. m : f[n] = f[n - 1] + s[n]
           T == {m \in Nat : m <= N => \E f : Adds(f, m)}
           Eq(f) == f = [n \in 0 .. N |-> IF n = 0 THEN 0 ELSE f[n - 1] + s[n]]
<1>0. N \in Nat /\ \A n \in 1 .. N : s[n] \in Nat
  OBVIOUS
<1> HIDE DEF N
<1>1. 0 \in T
  <2>1. Adds([i \in 0 .. 0 |-> 0], 0)
    OBVIOUS
  <2> QED BY <2>1
<1>2. ASSUME NEW m \in T PROVE m + 1 \in T
  <2>0. m \in Nat /\ m + 1 \in Nat
    OBVIOUS
  <2> SUFFICES ASSUME m + 1 <= N PROVE \E f : Adds(f, m + 1)
    BY <2>0, Zenon
  <2>1. m \in Nat /\ m <= N
    BY <1>0, <2>0
  <2>2. PICK f : Adds(f, m)
    BY <2>1, Zenon
  <2> DEFINE g == [i \in 0 .. m + 1 |-> IF i <= m THEN f[i] ELSE f[m] + s[m + 1]]
  <2>3. s[m + 1] \in Nat /\ f[m] \in Nat
    BY <1>0, <2>1, <2>2
  <2>4. g \in [0 .. m + 1 -> Nat] /\ g[0] = 0
    BY <2>1, <2>2, <2>3, SMTT(60)
  <2>5. \A n \in 1 .. m + 1 : g[n] = g[n - 1] + s[n]
    <3> TAKE n \in 1 .. m + 1
    <3>1. CASE n <= m
      BY <2>1, <2>2, <3>1
    <3>2. CASE n = m + 1
      BY <2>1, <3>2
    <3> QED BY <2>1, <3>1, <3>2
  <2> QED BY <2>4, <2>5
<1> HIDE DEF T
<1>3. T = Nat
  <2>1. T \in SUBSET Nat
    BY DEF T
  <2> QED BY <1>1, <1>2, <2>1, InductionOn
<1>4. PICK f : Adds(f, N)
  <2>1. N \in T /\ N <= N
    BY <1>0, <1>3
  <2> QED BY <2>1, Zenon DEF T
<1>5. Eq(f)
  BY <1>0, <1>4
<1>6. Sums(s) = CHOOSE h : Eq(h)
  BY DEF Sums, N
<1>7. Eq(Sums(s))
  BY <1>5, <1>6
<1> DEFINE h == Sums(s)
<1> HIDE DEF h
<1>8. h = [n \in 0 .. N |-> IF n = 0 THEN 0 ELSE h[n - 1] + s[n]]
  BY <1>7 DEF h
<1>9. h[0] = 0 /\ (\A n \in 1 .. N : h[n] = h[n - 1] + s[n]) /\ DOMAIN h = 0 .. N
  BY <1>0, <1>8
<1> DEFINE U == {m \in Nat : m <= N => h[m] \in Nat}
<1>10. 0 \in U
  BY <1>9
<1>11. ASSUME NEW m \in U PROVE m + 1 \in U
  <2> SUFFICES ASSUME m + 1 <= N PROVE h[m + 1] \in Nat
    OBVIOUS
  <2>1. m \in Nat /\ m + 1 \in 1 .. N /\ (m + 1) - 1 = m
    BY <1>0
  <2>2. h[m] \in Nat
    BY <1>0, <2>1
  <2> HIDE DEF U
  <2>3. h[m + 1] = h[m] + s[m + 1] /\ s[m + 1] \in Nat
    BY <1>0, <1>9, <2>1
  <2> QED BY <2>2, <2>3
<1> HIDE DEF U
<1>12. U = Nat
  <2>1. U \in SUBSET Nat
    BY DEF U
  <2> QED BY <1>10, <1>11, <2>1, InductionOn
<1>13. \A m \in 0 .. N : h[m] \in Nat
  BY <1>0, <1>12 DEF U
<1>14. h \in [0 .. N -> Nat]
  BY <1>8, <1>13
<1> QED BY <1>9, <1>14 DEF h, N

\* The same for a sequence of N numbers, with their types.
LEMMA SumsOf ==
  ASSUME NEW s \in Seq(Nat), NEW N, N = Len(s)
  PROVE  /\ N \in Nat /\ \A n \in 1 .. N : s[n] \in Nat
         /\ \A n \in 0 .. N : Sums(s)[n] \in Nat
         /\ Sums(s)[0] = 0 /\ \A n \in 0 .. N - 1 : Sums(s)[n + 1] = Sums(s)[n] + s[n + 1]
<1>1. N \in Nat /\ \A n \in 1 .. N : s[n] \in Nat
  OBVIOUS
<1> DEFINE f == Sums(s)
<1>2. f \in [0 .. N -> Nat] /\ f[0] = 0 /\ \A n \in 1 .. N : f[n] = f[n - 1] + s[n]
  BY SumsDef
<1> HIDE DEF f
<1>3. \A n \in 0 .. N - 1 : f[n + 1] = f[n] + s[n + 1]
  <2> TAKE n \in 0 .. N - 1
  <2>1. n + 1 \in 1 .. N /\ (n + 1) - 1 = n
    BY <1>1
  <2> QED BY <1>2, <2>1
<1> QED BY <1>1, <1>2, <1>3 DEF f

\* Two sequences that agree on their first k numbers agree on those sums.
LEMMA SumsAgree ==
  ASSUME NEW s \in Seq(Nat), NEW t \in Seq(Nat), NEW N, N = Len(s), NEW M, M = Len(t),
         NEW k \in Nat, k <= N, k <= M,
         \A i \in 1 .. k : s[i] = t[i]
  PROVE  \A i \in 0 .. k : Sums(s)[i] = Sums(t)[i]
<1> DEFINE f == Sums(s)
           g == Sums(t)
           T == {n \in Nat : n <= k => f[n] = g[n]}
<1>1. N \in Nat /\ f[0] = 0 /\ \A n \in 0 .. N - 1 : f[n + 1] = f[n] + s[n + 1]
  BY SumsOf
<1>2. M \in Nat /\ g[0] = 0 /\ \A n \in 0 .. M - 1 : g[n + 1] = g[n] + t[n + 1]
  BY SumsOf
<1> HIDE DEF f, g
<1>3. 0 \in T
  BY <1>1, <1>2
<1>4. ASSUME NEW n \in T PROVE n + 1 \in T
  <2> SUFFICES ASSUME n + 1 <= k PROVE f[n + 1] = g[n + 1]
    OBVIOUS
  <2>1. n \in 0 .. N - 1 /\ n \in 0 .. M - 1 /\ n + 1 \in 1 .. k /\ f[n] = g[n]
    BY <1>1, <1>2
  <2> QED BY <1>1, <1>2, <2>1
<1>5. T \in SUBSET Nat
  OBVIOUS
<1> HIDE DEF T
<1>6. T = Nat
  BY <1>3, <1>4, <1>5, InductionOn
<1>7. ASSUME NEW i \in 0 .. k PROVE f[i] = g[i]
  <2>1. i \in T /\ i <= k
    BY <1>6
  <2> QED BY <2>1 DEF T
<1> QED BY <1>7 DEF f, g

\* u goes on as t after its first k numbers.
GoesOnAs(u, k, t) == Len(u) = k + Len(t) /\ \A i \in 1 .. Len(t) : u[k + i] = t[i]

LEMMA SumsShift ==
  ASSUME NEW u \in Seq(Nat), NEW t \in Seq(Nat), NEW k \in Nat, GoesOnAs(u, k, t)
  PROVE  Sums(u)[Len(u)] = Sums(u)[k] + Sums(t)[Len(t)]
<1> DEFINE N == Len(u)
           M == Len(t)
           f == Sums(u)
           g == Sums(t)
           T == {n \in Nat : n <= M => f[k + n] = f[k] + g[n]}
<1>1. /\ N \in Nat /\ \A n \in 0 .. N : f[n] \in Nat
      /\ \A n \in 0 .. N - 1 : f[n + 1] = f[n] + u[n + 1]
  BY SumsOf
<1>2. /\ M \in Nat /\ \A n \in 0 .. M : g[n] \in Nat
      /\ g[0] = 0 /\ \A n \in 0 .. M - 1 : g[n + 1] = g[n] + t[n + 1]
      /\ \A n \in 1 .. M : t[n] \in Nat
  BY SumsOf
<1>0. N = k + M /\ \A i \in 1 .. M : u[k + i] = t[i]
  BY DEF GoesOnAs
<1> HIDE DEF f, g, N, M
<1>3. 0 \in T
  <2>1. f[k] \in Nat /\ k + 0 = k
    BY <1>0, <1>1, <1>2
  <2> QED BY <1>2, <2>1
<1>4. ASSUME NEW n \in T PROVE n + 1 \in T
  <2> SUFFICES ASSUME n + 1 <= M PROVE f[k + (n + 1)] = f[k] + g[n + 1]
    OBVIOUS
  <2>1. n \in Nat /\ n + 1 \in 1 .. M /\ n \in 0 .. M - 1 /\ n \in 0 .. M
    BY <1>2
  <2>2. f[k + n] = f[k] + g[n]
    BY <2>1
  <2>3. k \in 0 .. N /\ k + n \in 0 .. N - 1 /\ k + (n + 1) = (k + n) + 1
    BY <1>0, <1>1, <1>2, <2>1
  <2>4. f[k + (n + 1)] = f[k + n] + t[n + 1] /\ g[n + 1] = g[n] + t[n + 1]
    BY <1>0, <1>1, <1>2, <2>1, <2>3
  <2>5. f[k] \in Nat /\ g[n] \in Nat /\ t[n + 1] \in Nat
    BY <1>0, <1>1, <1>2, <2>1, <2>3
  <2> HIDE DEF T
  <2> QED BY <2>2, <2>4, <2>5
<1>5. T \in SUBSET Nat
  OBVIOUS
<1> HIDE DEF T
<1>6. T = Nat
  BY <1>3, <1>4, <1>5, InductionOn
<1>7. f[k + M] = f[k] + g[M]
  <2>1. M \in T /\ M <= M
    BY <1>2, <1>6
  <2> QED BY <2>1 DEF T
<1> QED BY <1>0, <1>7 DEF f, g, N, M

\* Numbers that are no larger have sums that are no larger.
LEMMA SumsBelow ==
  ASSUME NEW s \in Seq(Nat), NEW t \in Seq(Nat), NEW N, N = Len(s), N = Len(t),
         \A i \in 1 .. N : s[i] <= t[i]
  PROVE  \A i \in 0 .. N : Sums(s)[i] <= Sums(t)[i]
<1> DEFINE f == Sums(s)
           g == Sums(t)
           T == {n \in Nat : n <= N => f[n] <= g[n]}
<1>1. /\ N \in Nat /\ \A n \in 0 .. N : f[n] \in Nat
      /\ f[0] = 0 /\ \A n \in 0 .. N - 1 : f[n + 1] = f[n] + s[n + 1]
      /\ \A n \in 1 .. N : s[n] \in Nat
  BY SumsOf
<1>2. /\ \A n \in 0 .. N : g[n] \in Nat
      /\ g[0] = 0 /\ \A n \in 0 .. N - 1 : g[n + 1] = g[n] + t[n + 1]
      /\ \A n \in 1 .. N : t[n] \in Nat
  BY SumsOf
<1> HIDE DEF f, g
<1>3. 0 \in T
  BY <1>1, <1>2
<1>4. ASSUME NEW n \in T PROVE n + 1 \in T
  <2> SUFFICES ASSUME n + 1 <= N PROVE f[n + 1] <= g[n + 1]
    OBVIOUS
  <2>1. n \in Nat /\ n + 1 \in 1 .. N /\ n \in 0 .. N - 1 /\ n \in 0 .. N
    BY <1>1
  <2>2. f[n] <= g[n]
    BY <2>1
  <2>3. f[n + 1] = f[n] + s[n + 1] /\ g[n + 1] = g[n] + t[n + 1]
    BY <1>1, <1>2, <2>1
  <2>4. f[n] \in Nat /\ g[n] \in Nat /\ t[n + 1] \in Nat /\ s[n + 1] \in Nat /\ s[n + 1] <= t[n + 1]
    BY <1>1, <1>2, <2>1
  <2> HIDE DEF T
  <2> QED BY <2>2, <2>3, <2>4, SMTT(60)
<1>5. T \in SUBSET Nat
  OBVIOUS
<1> HIDE DEF T
<1>6. T = Nat
  BY <1>3, <1>4, <1>5, InductionOn
<1>7. ASSUME NEW i \in 0 .. N PROVE f[i] <= g[i]
  <2>1. i \in T /\ i <= N
    BY <1>1, <1>6
  <2> QED BY <2>1 DEF T
<1> QED BY <1>7 DEF f, g

-----------------------------------------------------------------------------
(* The bytes of packets                                                    *)

PacedPacket == [id : Nat, size : Sizes, age : 0 .. Max(QueueTimes)]

LEMMA SizesType ==
  ASSUME NEW p \in Seq(PacedPacket)
  PROVE  /\ SizesOf(p) \in Seq(Nat) /\ Len(SizesOf(p)) = Len(p) /\ Bytes(p) \in Nat
         /\ \A i \in 1 .. Len(p) : SizesOf(p)[i] = p[i].size /\ p[i].size \in Nat \ {0}
<1>1. Len(p) \in Nat /\ \A i \in 1 .. Len(p) : p[i] \in PacedPacket
  OBVIOUS
<1>2. \A i \in 1 .. Len(p) : p[i].size \in Nat \ {0}
  BY <1>1, PacerAssumption DEF PacedPacket
<1>3. SizesOf(p) \in Seq(Nat) /\ Len(SizesOf(p)) = Len(p)
  BY <1>1, <1>2 DEF SizesOf
<1>4. \A i \in 1 .. Len(p) : SizesOf(p)[i] = p[i].size
  BY DEF SizesOf
<1>5. Sums(SizesOf(p)) \in [0 .. Len(p) -> Nat]
  BY <1>3, SumsDef
<1>6. Bytes(p) \in Nat
  BY <1>1, <1>5 DEF Bytes
<1> QED BY <1>2, <1>3, <1>4, <1>6

\* The bytes of packets in two groups.
Joins(u, p, q) ==
  /\ Len(u) = Len(p) + Len(q)
  /\ \A i \in 1 .. Len(p) : u[i] = p[i]
  /\ \A i \in 1 .. Len(q) : u[Len(p) + i] = q[i]

LEMMA BytesSplit ==
  ASSUME NEW u \in Seq(PacedPacket), NEW p \in Seq(PacedPacket), NEW q \in Seq(PacedPacket),
         Joins(u, p, q)
  PROVE  Bytes(u) = Bytes(p) + Bytes(q)
<1> DEFINE su == SizesOf(u)
           sp == SizesOf(p)
           sq == SizesOf(q)
           N  == Len(p)
           M  == Len(q)
<1>j. /\ Len(u) = N + M /\ \A i \in 1 .. N : u[i] = p[i]
      /\ \A i \in 1 .. M : u[N + i] = q[i]
  BY DEF Joins
<1>0. N \in Nat /\ M \in Nat /\ N + M \in Nat /\ N <= N /\ N <= N + M
  OBVIOUS
<1>1. su \in Seq(Nat) /\ N + M = Len(su) /\ \A i \in 1 .. N + M : su[i] = u[i].size
  BY <1>j, SizesType
<1>2. sp \in Seq(Nat) /\ N = Len(sp) /\ \A i \in 1 .. N : sp[i] = p[i].size
  BY SizesType
<1>3. sq \in Seq(Nat) /\ M = Len(sq) /\ \A i \in 1 .. M : sq[i] = q[i].size
  BY SizesType
<1>4. Bytes(u) = Sums(su)[N + M] /\ Bytes(p) = Sums(sp)[N] /\ Bytes(q) = Sums(sq)[M]
  BY <1>j DEF Bytes
<1> HIDE DEF su, sp, sq, N, M
<1>5. ASSUME NEW i \in 1 .. N PROVE sp[i] = su[i]
  <2>1. i \in 1 .. N + M
    BY <1>0
  <2> QED BY <1>1, <1>2, <1>j, <2>1
<1>6. ASSUME NEW i \in 1 .. M PROVE su[N + i] = sq[i]
  <2>1. N + i \in 1 .. N + M
    BY <1>0
  <2> QED BY <1>1, <1>3, <1>j, <2>1
<1> DEFINE K == N + M
<1>k. K = N + M /\ K = Len(su) /\ N <= K
  BY <1>0, <1>1
<1> HIDE DEF K
<1>7. \A i \in 0 .. N : Sums(sp)[i] = Sums(su)[i]
  BY <1>0, <1>1, <1>2, <1>5, <1>k, SumsAgree, ZenonT(60)
<1>8. Sums(su)[K] = Sums(su)[N] + Sums(sq)[M]
  <2>1. GoesOnAs(su, N, sq)
    BY <1>1, <1>3, <1>6 DEF GoesOnAs
  <2> QED BY <1>0, <1>1, <1>3, <1>k, <2>1, SumsShift
<1>9. N \in 0 .. N /\ M \in 0 .. M
  BY <1>0
<1> QED BY <1>4, <1>7, <1>8, <1>9, <1>k

-----------------------------------------------------------------------------
(* The pacer                                                               *)

\* Packets enter at the tail with age 0: the head is the oldest.
OldestFirst == \A i, j \in 1 .. Len(packetQueue) : i <= j => packetQueue[j].age <= packetQueue[i].age

PacerInv ==
  /\ packetQueue \in Seq(PacedPacket)
  /\ budgetBytes \in Nat
  /\ targetBitrateBps \in Rates
  /\ maxQueueTimeKvs \in QueueTimes
  /\ elapsedTimeKvs \in 0 .. MaxElapsed
  /\ QueueAccounting
  /\ OldestFirst

\* The deadlines have a latest one, and a packet just collected fits its type.
LEMMA Deadlines == Max(QueueTimes) \in Nat /\ \A t \in QueueTimes : t <= Max(QueueTimes)
<1>1. QueueTimes \in SUBSET Nat /\ QueueTimes # {} /\ IsFiniteSet(QueueTimes)
  BY PacerAssumption
<1>2. Max(QueueTimes) \in QueueTimes /\ \A t \in QueueTimes : Max(QueueTimes) >= t
  BY <1>1, MaxIsIn
<1> DEFINE m == Max(QueueTimes)
<1> HIDE DEF m
<1>3. m \in QueueTimes /\ \A t \in QueueTimes : m >= t
  BY <1>2 DEF m
<1>4. m \in Nat /\ \A t \in QueueTimes : t <= m
  BY <1>1, <1>3
<1> QED BY <1>4 DEF m

LEMMA PacketOf ==
  ASSUME NEW p \in Seq(PacedPacket), NEW i \in 1 .. Len(p)
  PROVE  p[i] \in PacedPacket /\ p[i].size \in Sizes /\ p[i].age \in 0 .. Max(QueueTimes)
<1> DEFINE x == p[i]
<1>1. x \in PacedPacket
  OBVIOUS
<1> HIDE DEF x
<1>2. x.size \in Sizes /\ x.age \in 0 .. Max(QueueTimes)
  BY <1>1 DEF PacedPacket
<1> QED BY <1>1, <1>2 DEF x

LEMMA BytesOfNone == Bytes(<<>>) = 0 /\ <<>> \in Seq(PacedPacket)
<1>1. <<>> \in Seq(PacedPacket) /\ Len(<<>>) = 0
  OBVIOUS
<1>2. SizesOf(<<>>) \in Seq(Nat) /\ Len(SizesOf(<<>>)) = 0
  BY <1>1, SizesType
<1>3. Sums(SizesOf(<<>>))[0] = 0
  BY <1>2, SumsDef
<1> QED BY <1>1, <1>3 DEF Bytes

LEMMA PacerStarts == createPacer => PacerInv
<1> SUFFICES ASSUME createPacer PROVE PacerInv
  OBVIOUS
<1>1. Len(packetQueue) = 0 /\ packetQueue \in Seq(PacedPacket) /\ Bytes(packetQueue) = 0
  BY BytesOfNone DEF createPacer
<1>2. QueueAccounting
  BY <1>1, PacerAssumption DEF createPacer, QueueAccounting
<1>3. OldestFirst
  BY <1>1 DEF OldestFirst
<1>4. /\ budgetBytes \in Nat /\ targetBitrateBps \in Rates /\ maxQueueTimeKvs \in QueueTimes
      /\ elapsedTimeKvs \in 0 .. MaxElapsed
  BY PacerAssumption DEF createPacer
<1> QED BY <1>1, <1>2, <1>3, <1>4 DEF PacerInv

LEMMA EnqueueKeeps ==
  ASSUME PacerInv, NEW frame \in Seq(PacedPacket), \A i \in 1 .. Len(frame) : frame[i].age = 0,
         pacerEnqueueFrame(frame)
  PROVE  PacerInv'
<1> USE DEF PacerInv
<1>1. CASE HasRoom(frame)
  <2> DEFINE q == packetQueue \o frame
             N == Len(packetQueue)
             M == Len(frame)
  <2>1. q \in Seq(PacedPacket) /\ N \in Nat /\ M \in Nat /\ Len(q) = N + M
    OBVIOUS
  <2>2. /\ \A i \in 1 .. N : q[i] = packetQueue[i]
        /\ \A i \in 1 .. M : q[N + i] = frame[i]
    OBVIOUS
  <2>3. packetQueue' = q /\ queueSize' = queueSize + M /\ queueBytes' = queueBytes + Bytes(frame)
    BY <1>1 DEF pacerEnqueueFrame
  <2>4. Bytes(q) = Bytes(packetQueue) + Bytes(frame)
    <3>1. Joins(q, packetQueue, frame)
      BY <2>1, <2>2 DEF Joins
    <3> HIDE DEF q
    <3> QED BY <2>1, <3>1, BytesSplit
  <2>5. \A i \in 1 .. N : packetQueue[i].age \in Nat
    BY PacketOf, Deadlines
  <2> HIDE DEF q
  <2>6. QueueAccounting'
    BY <1>1, <2>1, <2>3, <2>4 DEF QueueAccounting, HasRoom
  <2>7. OldestFirst'
    <3> SUFFICES ASSUME NEW i \in 1 .. N + M, NEW j \in 1 .. N + M, i <= j
                 PROVE  q[j].age <= q[i].age
      BY <2>1, <2>3 DEF OldestFirst
    <3>1. ASSUME NEW k \in 1 .. N + M
          PROVE  (k <= N /\ q[k] = packetQueue[k]) \/ (k > N /\ q[k].age = 0)
      <4>1. CASE k <= N
        BY <2>1, <2>2, <4>1
      <4>2. CASE k > N
        <5>1. k - N \in 1 .. M /\ N + (k - N) = k
          BY <2>1, <4>2
        <5>2. q[k] = frame[k - N]
          BY <2>2, <5>1
        <5> QED BY <4>2, <5>1, <5>2
      <4> QED BY <2>1, <4>1, <4>2
    <3>2. q[i].age \in Nat
      BY <2>1, <2>5, <3>1
    <3>3. CASE j > N
      BY <2>1, <3>1, <3>2, <3>3
    <3>4. CASE j <= N
      <4>1. i \in 1 .. N /\ j \in 1 .. N /\ q[i] = packetQueue[i] /\ q[j] = packetQueue[j]
        BY <2>1, <3>1, <3>4
      <4> QED BY <4>1 DEF OldestFirst
    <3> QED BY <2>1, <3>3, <3>4
  <2> QED BY <2>1, <2>3, <2>6, <2>7 DEF pacerEnqueueFrame
<1>2. CASE ~HasRoom(frame)
  BY <1>2 DEF pacerEnqueueFrame, QueueAccounting, OldestFirst
<1> QED BY <1>1, <1>2

LEMMA RatesKeep ==
  ASSUME PacerInv, pacerSetTargetBitrate \/ pacerSetMaxQueueTime
  PROVE  PacerInv'
BY DEF PacerInv, pacerSetTargetBitrate, pacerSetMaxQueueTime, QueueAccounting, OldestFirst

LEMMA TickKeeps ==
  ASSUME PacerInv, PacerTick
  PROVE  PacerInv'
<1> USE DEF PacerInv
<1> DEFINE N == Len(packetQueue)
           m == Max(QueueTimes)
           q == packetQueue'
<1>1. N \in Nat /\ DOMAIN packetQueue = 1 .. N /\ m \in Nat
  BY Deadlines
<1>2. \A i \in 1 .. N : packetQueue[i] \in PacedPacket /\ packetQueue[i].age \in 0 .. m
  BY PacketOf
<1>3. q = [i \in 1 .. N |-> [packetQueue[i] EXCEPT !.age = Min({packetQueue[i].age + 1, m})]]
  BY <1>1 DEF PacerTick
<1> HIDE DEF m, q
<1>4. ASSUME NEW i \in 1 .. N
      PROVE  /\ q[i] \in PacedPacket /\ q[i].size = packetQueue[i].size
             /\ q[i].age = IF packetQueue[i].age + 1 <= m THEN packetQueue[i].age + 1 ELSE m
  <2> DEFINE a == packetQueue[i].age
             b == Min({a + 1, m})
  <2>1. a \in 0 .. m
    BY <1>2
  <2>2. b = IF a + 1 <= m THEN a + 1 ELSE m
    BY <1>1, <2>1, MinOfTwo
  <2>3. b \in 0 .. m
    BY <1>1, <2>1, <2>2
  <2> HIDE DEF b
  <2>4. q[i] = [packetQueue[i] EXCEPT !.age = b]
    BY <1>3 DEF b
  <2> QED BY <1>2, <2>2, <2>3, <2>4 DEF PacedPacket, m
<1>5. q \in Seq(PacedPacket) /\ Len(q) = N
  <2>1. DOMAIN q = 1 .. N /\ q = [i \in 1 .. N |-> q[i]]
    BY <1>3
  <2>2. q \in [1 .. N -> PacedPacket]
    BY <1>4, <2>1
  <2> QED BY <1>1, <2>2
<1>6. Bytes(q) = Bytes(packetQueue)
  <2>1. SizesOf(q) = SizesOf(packetQueue)
    BY <1>4, <1>5 DEF SizesOf
  <2> QED BY <1>5, <2>1 DEF Bytes
<1>7. QueueAccounting'
  BY <1>5, <1>6 DEF QueueAccounting, PacerTick, q
<1>8. OldestFirst'
  <2> SUFFICES ASSUME NEW i \in 1 .. N, NEW j \in 1 .. N, i <= j PROVE q[j].age <= q[i].age
    BY <1>5 DEF OldestFirst, q
  <2>1. packetQueue[j].age <= packetQueue[i].age
    BY DEF OldestFirst
  <2>2. packetQueue[j].age \in 0 .. m /\ packetQueue[i].age \in 0 .. m
    BY <1>2
  <2>3. /\ q[i].age = IF packetQueue[i].age + 1 <= m THEN packetQueue[i].age + 1 ELSE m
        /\ q[j].age = IF packetQueue[j].age + 1 <= m THEN packetQueue[j].age + 1 ELSE m
    BY <1>4
  <2> QED BY <1>1, <2>1, <2>2, <2>3
<1>9. elapsedTimeKvs' \in 0 .. MaxElapsed
  BY PacerAssumption DEF PacerTick
<1> QED BY <1>5, <1>7, <1>8, <1>9 DEF PacerTick, q

\* Sums never fall.
LEMMA SumsRise ==
  ASSUME NEW s \in Seq(Nat), NEW i \in 0 .. Len(s)
  PROVE  Sums(s)[i] <= Sums(s)[Len(s)]
<1> DEFINE N == Len(s)
           f == Sums(s)
           T == {d \in Nat : d <= N => f[N - d] <= f[N]}
<1>1. /\ N \in Nat /\ \A n \in 1 .. N : s[n] \in Nat
      /\ \A n \in 0 .. N : f[n] \in Nat
      /\ \A n \in 0 .. N - 1 : f[n + 1] = f[n] + s[n + 1]
  BY SumsOf
<1>2. i \in 0 .. N
  OBVIOUS
<1> HIDE DEF N, f
<1>3. 0 \in T
  <2>1. f[N] \in Nat /\ N - 0 = N
    BY <1>1
  <2> QED BY <2>1
<1>4. ASSUME NEW d \in T PROVE d + 1 \in T
  <2> SUFFICES ASSUME d + 1 <= N PROVE f[N - (d + 1)] <= f[N]
    OBVIOUS
  <2> DEFINE k == N - (d + 1)
  <2>1. d \in Nat /\ d <= N /\ k \in 0 .. N - 1 /\ k + 1 = N - d /\ k + 1 \in 1 .. N
    BY <1>1
  <2>2. f[k + 1] <= f[N]
    BY <2>1
  <2> HIDE DEF T, k
  <2>3. f[k + 1] = f[k] + s[k + 1] /\ s[k + 1] \in Nat /\ f[k] \in Nat /\ f[N] \in Nat
    BY <1>1, <2>1
  <2>4. f[k] <= f[N]
    BY <2>2, <2>3
  <2> QED BY <2>4 DEF k
<1>5. T \in SUBSET Nat
  OBVIOUS
<1> HIDE DEF T
<1>6. T = Nat
  BY <1>3, <1>4, <1>5, InductionOn
<1>7. f[i] <= f[N]
  <2>1. N - i \in T /\ N - i <= N /\ N - (N - i) = i
    BY <1>1, <1>2, <1>6
  <2> QED BY <2>1 DEF T
<1> QED BY <1>7 DEF N, f

LEMMA Products == \A a, b \in Nat : a * b \in Nat
OBVIOUS

LEMMA Quotients == \A a \in Nat, b \in Nat \ {0} : a \div b \in Nat
OBVIOUS

LEMMA BudgetType ==
  ASSUME PacerInv
  PROVE  DrainBudget \in Nat
<1> DEFINE earned == budgetBytes + pacerCalculateBudget(elapsedTimeKvs)
           left   == maxQueueTimeKvs - Head(packetQueue).age
<1>1. targetBitrateBps \in Nat /\ elapsedTimeKvs \in Nat /\ budgetBytes \in Nat
  BY PacerAssumption DEF PacerInv
<1>2. earned \in Nat
  BY <1>1, Products DEF pacerCalculateBudget
<1>3. queueBytes \in Nat
  BY SizesType DEF PacerInv, QueueAccounting
<1>4. CASE maxQueueTimeKvs = 0 \/ packetQueue = <<>>
  BY <1>2, <1>4 DEF DrainBudget
<1>5. CASE ~(maxQueueTimeKvs = 0 \/ packetQueue = <<>>)
  <2>1. 1 \in 1 .. Len(packetQueue) /\ Head(packetQueue) = packetQueue[1]
    BY <1>5 DEF PacerInv
  <2>2. Head(packetQueue).age \in Nat
    BY <2>1, PacketOf, Deadlines DEF PacerInv
  <2>3. maxQueueTimeKvs \in Nat
    BY PacerAssumption DEF PacerInv
  <2>4. left \in Int
    BY <2>2, <2>3
  <2>5. DrainBudget = IF left <= 0 THEN queueBytes ELSE Max({earned, queueBytes \div left})
    BY <1>5 DEF DrainBudget
  <2> HIDE DEF earned, left
  <2>6. CASE left <= 0
    BY <1>3, <2>5, <2>6
  <2>7. CASE left > 0
    <3>1. queueBytes \div left \in Nat
      BY <1>3, <2>4, <2>7, Quotients
    <3>2. Max({earned, queueBytes \div left}) \in Nat
      BY <1>2, <3>1, MaxOfTwo
    <3> QED BY <2>4, <2>5, <2>7, <3>2
  <2> QED BY <2>4, <2>6, <2>7
<1> QED BY <1>4, <1>5

\* What is charged for the first n packets is at most their bytes.
LEMMA ChargedWithin ==
  ASSUME PacerInv, NEW accepted, NEW N, N = Len(packetQueue)
  PROVE  /\ N \in Nat
         /\ \A n \in 0 .. N : Charged(accepted, n) \in Nat
                              /\ Charged(accepted, n) <= Sums(SizesOf(packetQueue))[n]
         /\ Charged(accepted, 0) = 0
         /\ \A n \in 0 .. N - 1 :
              Charged(accepted, n + 1) <= Charged(accepted, n) + packetQueue[n + 1].size
<1> DEFINE c == Charges(accepted)
           s == SizesOf(packetQueue)
<1>1. s \in Seq(Nat) /\ N = Len(s)
  BY SizesType DEF PacerInv
<1>2. \A i \in 1 .. N : s[i] = packetQueue[i].size /\ packetQueue[i].size \in Nat
  BY SizesType DEF PacerInv
<1>3. N \in Nat
  BY <1>1
<1>4. c \in Seq(Nat) /\ N = Len(c)
  BY <1>2, <1>3 DEF Charges
<1>5. \A i \in 1 .. N : c[i] <= s[i] /\ c[i] \in Nat
  BY <1>2, <1>3 DEF Charges
<1> HIDE DEF c, s
<1>6. \A n \in 0 .. N : Sums(c)[n] <= Sums(s)[n]
  BY <1>1, <1>4, <1>5, SumsBelow
<1>7. /\ \A n \in 0 .. N : Sums(c)[n] \in Nat
      /\ Sums(c)[0] = 0 /\ \A n \in 0 .. N - 1 : Sums(c)[n + 1] = Sums(c)[n] + c[n + 1]
  BY <1>4, SumsOf
<1>8. ASSUME NEW n \in 0 .. N - 1
      PROVE  Sums(c)[n + 1] <= Sums(c)[n] + packetQueue[n + 1].size
  <2>1. n + 1 \in 1 .. N /\ n \in 0 .. N
    BY <1>3
  <2>2. c[n + 1] \in Nat /\ packetQueue[n + 1].size \in Nat /\ c[n + 1] <= packetQueue[n + 1].size
    BY <1>2, <1>5, <2>1
  <2>3. Sums(c)[n] \in Nat /\ Sums(c)[n + 1] = Sums(c)[n] + c[n + 1]
    BY <1>7, <2>1
  <2> QED BY <2>2, <2>3
<1> QED BY <1>3, <1>6, <1>7, <1>8 DEF Charged, c, s

\* A run dequeues up to the first packet that exceeds what is left.
LEMMA DequeuedIs ==
  ASSUME PacerInv, NEW accepted, NEW budget \in Nat, NEW N, N = Len(packetQueue),
         NEW n, n = Dequeued(budget, accepted)
  PROVE  /\ n \in 0 .. N
         /\ Charged(accepted, n) \in Nat /\ Charged(accepted, n) <= budget
         /\ n < N => packetQueue[n + 1].size > budget - Charged(accepted, n)
<1> DEFINE Stops(k) == k < N => packetQueue[k + 1].size > budget - Charged(accepted, k)
           S == {k \in 0 .. N : Stops(k)}
<1>1. /\ N \in Nat
      /\ \A k \in 0 .. N : Charged(accepted, k) \in Nat
      /\ Charged(accepted, 0) = 0
      /\ \A k \in 0 .. N - 1 :
              Charged(accepted, k + 1) <= Charged(accepted, k) + packetQueue[k + 1].size
  BY ChargedWithin
<1>2. \A k \in 1 .. N : packetQueue[k].size \in Nat
  BY SizesType DEF PacerInv
<1>3. S \in SUBSET Nat /\ N \in S
  BY <1>1
<1>4. n = Min(S)
  BY DEF Dequeued
<1>5. n \in S /\ \A k \in S : n <= k
  BY <1>3, <1>4, MinIsLeast, ZenonT(60)
<1>6. n \in 0 .. N /\ Stops(n)
  BY <1>5
<1>7. CASE n = 0
  BY <1>1, <1>6, <1>7
<1>8. CASE n # 0
  <2> DEFINE k == n - 1
  <2>1. n \in Nat /\ k \in 0 .. N - 1 /\ k \in 0 .. N /\ k + 1 = n /\ ~(n <= k) /\ n \in 1 .. N
    BY <1>1, <1>6, <1>8
  <2> HIDE DEF k
  <2>2. k \notin S
    BY <1>5, <2>1
  <2>3. k < N /\ ~(packetQueue[n].size > budget - Charged(accepted, k))
    BY <2>1, <2>2
  <2>4. Charged(accepted, n) <= Charged(accepted, k) + packetQueue[n].size
    BY <1>1, <2>1
  <2>5. Charged(accepted, k) \in Nat /\ Charged(accepted, n) \in Nat /\ packetQueue[n].size \in Nat
    BY <1>1, <1>2, <1>6, <2>1
  <2>6. Charged(accepted, n) <= budget
    BY <2>3, <2>4, <2>5
  <2> QED BY <1>6, <2>5, <2>6
<1> QED BY <1>7, <1>8

\* What a run leaves in the queue.
LEMMA RestOf ==
  ASSUME PacerInv, NEW N, N = Len(packetQueue), NEW n \in 0 .. N,
         NEW q, q = SubSeq(packetQueue, n + 1, N)
  PROVE  /\ q \in Seq(PacedPacket) /\ Len(q) = N - n
         /\ \A i \in 1 .. N - n : n + i \in 1 .. N /\ q[i] = packetQueue[n + i]
         /\ Bytes(packetQueue) = Bytes(SubSeq(packetQueue, 1, n)) + Bytes(q)
         /\ Bytes(q) \in Nat /\ Bytes(SubSeq(packetQueue, 1, n)) \in Nat
<1> DEFINE p == SubSeq(packetQueue, 1, n)
<1>0. packetQueue \in Seq(PacedPacket) /\ N \in Nat /\ n \in Nat
  BY DEF PacerInv
<1>1. q \in Seq(PacedPacket) /\ Len(q) = N - n
  BY <1>0
<1>2. \A i \in 1 .. N - n : n + i \in 1 .. N /\ q[i] = packetQueue[n + i]
  BY <1>0
<1>3. p \in Seq(PacedPacket) /\ Len(p) = n /\ \A i \in 1 .. n : p[i] = packetQueue[i]
  BY <1>0
<1> HIDE DEF p
<1>4. Joins(packetQueue, p, q)
  <2>1. N = n + (N - n)
    BY <1>0
  <2> QED BY <1>1, <1>2, <1>3, <2>1 DEF Joins
<1>5. Bytes(packetQueue) = Bytes(p) + Bytes(q)
  BY <1>0, <1>1, <1>3, <1>4, BytesSplit, ZenonT(60)
<1>6. Bytes(p) \in Nat /\ Bytes(q) \in Nat
  BY <1>1, <1>3, SizesType
<1> QED BY <1>1, <1>2, <1>5, <1>6 DEF p

LEMMA DrainKeeps ==
  ASSUME PacerInv, NEW accepted, pacerDrainQueue(accepted)
  PROVE  PacerInv'
<1> DEFINE budget == DrainBudget
           n == Dequeued(budget, accepted)
           N == Len(packetQueue)
           q == packetQueue'
           c == Charged(accepted, n)
<1>1. budget \in Nat
  BY BudgetType
<1>2. /\ q = SubSeq(packetQueue, n + 1, N)
      /\ queueSize' = queueSize - n
      /\ queueBytes' = queueBytes - Bytes(SubSeq(packetQueue, 1, n))
      /\ budgetBytes' = CappedBudget(budget - c)
      /\ elapsedTimeKvs' = 0
      /\ UNCHANGED <<targetBitrateBps, maxQueueTimeKvs>>
  BY DEF pacerDrainQueue, DequeuedBytes
<1> HIDE DEF budget
<1>3. n \in 0 .. N /\ c \in Nat /\ c <= budget
  BY <1>1, DequeuedIs
<1> HIDE DEF n, c, q
<1>4. /\ q \in Seq(PacedPacket) /\ Len(q) = N - n
      /\ \A i \in 1 .. N - n : n + i \in 1 .. N /\ q[i] = packetQueue[n + i]
      /\ Bytes(packetQueue) = Bytes(SubSeq(packetQueue, 1, n)) + Bytes(q)
      /\ Bytes(q) \in Nat /\ Bytes(SubSeq(packetQueue, 1, n)) \in Nat
  BY <1>2, <1>3, RestOf
<1>5. N \in Nat
  BY DEF PacerInv
<1>6. QueueAccounting'
  <2>1. queueSize = N /\ queueSize <= maxQueueSize /\ queueBytes = Bytes(packetQueue) /\ queueBytes <= maxQueueBytes
    BY DEF PacerInv, QueueAccounting
  <2>2. queueSize' = Len(q) /\ queueSize' <= maxQueueSize
    BY <1>2, <1>3, <1>4, <1>5, <2>1, PacerAssumption
  <2>3. queueBytes' = Bytes(q) /\ queueBytes' <= maxQueueBytes
    BY <1>2, <1>4, <2>1, PacerAssumption
  <2> QED BY <2>2, <2>3 DEF QueueAccounting, q
<1>7. OldestFirst'
  <2> SUFFICES ASSUME NEW i \in 1 .. N - n, NEW j \in 1 .. N - n, i <= j PROVE q[j].age <= q[i].age
    BY <1>4 DEF OldestFirst, q
  <2>1. n + i \in 1 .. N /\ n + j \in 1 .. N /\ n + i <= n + j
    BY <1>3, <1>4, <1>5
  <2>2. packetQueue[n + j].age <= packetQueue[n + i].age
    BY <2>1 DEF OldestFirst, PacerInv
  <2> QED BY <1>4, <2>2
<1>8. budgetBytes' \in Nat
  <2> DEFINE x == budget - c
             y == pacerCalculateBudget(2)
  <2>1. x \in Nat
    BY <1>1, <1>3
  <2>2. y \in Nat
    BY PacerAssumption, Products DEF PacerInv, pacerCalculateBudget
  <2>3. budgetBytes' = Min({x, y})
    BY <1>2 DEF CappedBudget
  <2> HIDE DEF x, y
  <2> QED BY <2>1, <2>2, <2>3, MinOfTwo
<1>9. elapsedTimeKvs' \in 0 .. MaxElapsed
  BY <1>2, PacerAssumption
<1> QED BY <1>2, <1>4, <1>6, <1>7, <1>8, <1>9 DEF PacerInv, q

\* A run leaves nothing in the queue that has reached its deadline: either the
\* head has not, and it is the oldest, or the budget is the whole queue.
LEMMA DrainInTime ==
  ASSUME PacerInv, NEW accepted, pacerDrainQueue(accepted), maxQueueTimeKvs > 0
  PROVE  \A i \in DOMAIN packetQueue' : packetQueue'[i].age < maxQueueTimeKvs
<1> DEFINE budget == DrainBudget
           n == Dequeued(budget, accepted)
           N == Len(packetQueue)
           q == packetQueue'
<1>1. budget \in Nat
  BY BudgetType
<1>2. q = SubSeq(packetQueue, n + 1, N)
  BY DEF pacerDrainQueue
<1>3. N \in Nat /\ queueBytes = Bytes(packetQueue)
  BY DEF PacerInv, QueueAccounting
<1>4. /\ n \in 0 .. N
      /\ n < N => packetQueue[n + 1].size > budget - Charged(accepted, n)
  <2> HIDE DEF budget
  <2> QED BY <1>1, DequeuedIs
<1> HIDE DEF n, q
<1>5. /\ q \in Seq(PacedPacket) /\ Len(q) = N - n
      /\ \A i \in 1 .. N - n : n + i \in 1 .. N /\ q[i] = packetQueue[n + i]
  BY <1>2, <1>4, RestOf
<1> SUFFICES ASSUME NEW i \in 1 .. N - n PROVE q[i].age < maxQueueTimeKvs
  BY <1>5 DEF q
<1>6. n < N /\ 1 \in 1 .. N /\ n + i \in 1 .. N /\ 1 <= n + i /\ n + 1 \in 1 .. N /\ n \in 0 .. N - 1
  BY <1>3, <1>4, <1>5
<1>7. packetQueue # <<>> /\ Head(packetQueue) = packetQueue[1]
  BY <1>6 DEF PacerInv
<1>8. packetQueue[1].age \in Nat /\ maxQueueTimeKvs \in Nat
  BY <1>6, PacketOf, Deadlines, PacerAssumption DEF PacerInv
<1>9. CASE packetQueue[1].age < maxQueueTimeKvs
  <2>1. packetQueue[n + i].age <= packetQueue[1].age
    BY <1>6 DEF PacerInv, OldestFirst
  <2>2. packetQueue[n + i].age \in Nat
    BY <1>6, PacketOf, Deadlines DEF PacerInv
  <2> QED BY <1>5, <1>8, <1>9, <2>1, <2>2
<1>10. CASE ~(packetQueue[1].age < maxQueueTimeKvs)
  <2>1. budget = Bytes(packetQueue)
    BY <1>3, <1>7, <1>8, <1>10 DEF DrainBudget
  <2> HIDE DEF budget
  <2> DEFINE s == SizesOf(packetQueue)
  <2>2. s \in Seq(Nat) /\ N = Len(s) /\ Bytes(packetQueue) = Sums(s)[N]
    BY SizesType DEF PacerInv, Bytes
  <2>3. s[n + 1] = packetQueue[n + 1].size /\ packetQueue[n + 1].size \in Nat
    BY <1>6, SizesType DEF PacerInv
  <2> HIDE DEF s
  <2>4. Sums(s)[n + 1] <= Sums(s)[N]
    <3>1. n + 1 \in 0 .. Len(s)
      BY <1>6, <2>2
    <3> QED BY <2>2, <3>1, SumsRise
  <2>5. Sums(s)[n + 1] = Sums(s)[n] + s[n + 1] /\ Sums(s)[n] \in Nat /\ Sums(s)[N] \in Nat
    <3>1. /\ \A k \in 0 .. N : Sums(s)[k] \in Nat
          /\ \A k \in 0 .. N - 1 : Sums(s)[k + 1] = Sums(s)[k] + s[k + 1]
      BY <2>2, SumsOf
    <3>2. n \in 0 .. N - 1 /\ n \in 0 .. N /\ N \in 0 .. N
      BY <1>3, <1>4, <1>6
    <3> QED BY <3>1, <3>2
  <2>6. Charged(accepted, n) \in Nat /\ Charged(accepted, n) <= Sums(s)[n]
    BY <1>4, ChargedWithin DEF s
  <2>7. packetQueue[n + 1].size > budget - Charged(accepted, n)
    BY <1>4, <1>6
  <2> QED BY <2>1, <2>2, <2>3, <2>4, <2>5, <2>6, <2>7, SMTT(60)
<1> QED BY <1>9, <1>10

-----------------------------------------------------------------------------
(* One owner for each packet                                               *)

Slots == 0 .. capacity - 1
Buffered(buffer) == {slot \in Slots : buffer[slot] # NULL}
InHand(item) == {item} \ {NULL}

\* OneOwner, of any buffer, packet in hand and set of packets freed.
Owned(buffer, item, gone, count) ==
  /\ \A s, t \in Buffered(buffer) : buffer[s] = buffer[t] => s = t
  /\ \A s \in Buffered(buffer) : buffer[s] \notin gone \cup InHand(item)
  /\ InHand(item) \cap gone = {}
  /\ Cardinality(Buffered(buffer)) + Cardinality(InHand(item)) + Cardinality(gone) = count

One(item) == IF item = NULL THEN 0 ELSE 1

LEMMA InHandCounts ==
  ASSUME NEW item
  PROVE  IsFiniteSet(InHand(item)) /\ Cardinality(InHand(item)) = One(item)
<1>1. CASE item = NULL
  <2>1. InHand(item) = {}
    BY <1>1 DEF InHand
  <2> QED BY <1>1, <2>1, FS_EmptySet DEF One
<1>2. CASE item # NULL
  <2>1. InHand(item) = {item}
    BY <1>2 DEF InHand
  <2> QED BY <1>2, <2>1, FS_Singleton DEF One
<1> QED BY <1>1, <1>2

LEMMA SlotsFinite ==
  ASSUME NEW buffer
  PROVE  IsFiniteSet(Buffered(buffer)) /\ Cardinality(Buffered(buffer)) \in Nat
<1>1. IsFiniteSet(Slots)
  BY FS_Interval, SenderAssumption DEF Slots
<1>2. Buffered(buffer) \subseteq Slots
  BY DEF Buffered
<1> QED BY <1>1, <1>2, FS_Subset, FS_CardinalityType

\* What is buffered after one slot changes.
Changed(after, buffer, t, p) == after[t] = p /\ \A s \in Slots \ {t} : after[s] = buffer[s]

LEMMA SlotChanges ==
  ASSUME NEW buffer, NEW after, NEW t \in Slots, NEW p, Changed(after, buffer, t, p)
  PROVE  Cardinality(Buffered(after)) = Cardinality(Buffered(buffer)) - One(buffer[t]) + One(p)
<1> DEFINE B == Buffered(buffer) \ {t}
<1>1. after[t] = p /\ \A s \in Slots \ {t} : after[s] = buffer[s]
  BY DEF Changed
<1>2. IsFiniteSet(B) /\ Cardinality(B) \in Nat /\ t \notin B
  BY SlotsFinite, FS_RemoveElement, FS_Subset, FS_CardinalityType
<1> HIDE DEF B
<1>3. ASSUME NEW b, NEW x, b[t] = x, Buffered(b) \ {t} = B
      PROVE  Cardinality(Buffered(b)) = Cardinality(B) + One(x)
  <2>1. CASE x = NULL
    <3>1. Buffered(b) = B
      BY <1>3, <2>1 DEF Buffered
    <3> QED BY <1>2, <2>1, <3>1 DEF One
  <2>2. CASE x # NULL
    <3>1. Buffered(b) = B \cup {t}
      BY <1>3, <2>2 DEF Buffered
    <3>2. Cardinality(B \cup {t}) = Cardinality(B) + 1
      BY <1>2, FS_AddElement
    <3> QED BY <2>2, <3>1, <3>2 DEF One
  <2> QED BY <2>1, <2>2
<1>4. Buffered(after) \ {t} = B
  BY <1>1 DEF Buffered, B
<1>5. Cardinality(Buffered(after)) = Cardinality(B) + One(p)
  BY <1>1, <1>3, <1>4
<1>6. Cardinality(Buffered(buffer)) = Cardinality(B) + One(buffer[t])
  BY <1>3 DEF B
<1> QED BY <1>2, <1>5, <1>6 DEF One

LEMMA FreedCounts ==
  ASSUME NEW gone, IsFiniteSet(gone), NEW item, item \notin gone \/ item = NULL
  PROVE  /\ IsFiniteSet(gone \cup InHand(item)) /\ Cardinality(gone) \in Nat
         /\ Cardinality(gone \cup InHand(item)) = Cardinality(gone) + One(item)
<1>1. CASE item = NULL
  <2>1. gone \cup InHand(item) = gone /\ One(item) = 0
    BY <1>1 DEF InHand, One
  <2>2. Cardinality(gone) \in Nat
    BY FS_CardinalityType
  <2>3. Cardinality(gone) = Cardinality(gone) + One(item)
    BY <2>1, <2>2
  <2> QED BY <2>1, <2>2, <2>3
<1>2. CASE item # NULL
  <2>1. gone \cup InHand(item) = gone \cup {item}
    BY <1>2 DEF InHand
  <2> QED BY <1>2, <2>1, FS_AddElement, FS_CardinalityType DEF One
<1> QED BY <1>1, <1>2

\* The slot's packet is freed and another one takes its place: a new one, or
\* the one in hand.
ItsTurn(p, buffer, item, gone, later, more) ==
  \/ p = item /\ later = NULL /\ more = 0
  \/ later = item /\ more = 1 /\ p # item /\ p \notin gone /\ \A s \in Slots : buffer[s] # p

LEMMA OwnedReplace ==
  ASSUME NEW buffer, NEW item, NEW gone, IsFiniteSet(gone), NEW count \in Nat,
         Owned(buffer, item, gone, count),
         NEW t \in Slots, NEW p, p # NULL, NEW after, Changed(after, buffer, t, p),
         NEW later, NEW more, ItsTurn(p, buffer, item, gone, later, more)
  PROVE  Owned(after, later, gone \cup InHand(buffer[t]), count + more)
<1> DEFINE x == buffer[t]
           lost == gone \cup InHand(x)
<1> USE DEF ItsTurn
<1>1. after[t] = p /\ (\A s \in Slots \ {t} : after[s] = buffer[s])
  BY DEF Changed
<1>2. x # NULL => x \notin gone /\ x # item
  BY DEF Owned, Buffered, InHand
<1>3. p # x /\ p \notin gone /\ \A s \in Slots : buffer[s] # p
  BY <1>2 DEF Owned, Buffered, InHand
<1>4. \A s \in Slots \ {t} : buffer[s] # NULL =>
                /\ buffer[s] # x /\ buffer[s] \notin gone
                /\ buffer[s] \notin InHand(item)
  BY DEF Owned, Buffered, InHand
<1>5. \A s, u \in Buffered(after) : after[s] = after[u] => s = u
  BY <1>1, <1>3 DEF Owned, Buffered
<1>6. \A s \in Buffered(after) : after[s] \notin lost \cup InHand(later)
  BY <1>1, <1>3, <1>4 DEF Buffered, InHand
<1>7. InHand(later) \cap lost = {}
  BY <1>2 DEF InHand, Owned
<1>8. Cardinality(Buffered(after)) = Cardinality(Buffered(buffer)) - One(x) + 1
  <2>1. One(p) = 1
    BY DEF One
  <2>2. Changed(after, buffer, t, p)
    BY <1>1 DEF Changed
  <2>3. Cardinality(Buffered(after)) = Cardinality(Buffered(buffer)) - One(x) + One(p)
    BY <2>2, SlotChanges
  <2> QED BY <2>1, <2>3
<1>9. Cardinality(lost) = Cardinality(gone) + One(x) /\ Cardinality(gone) \in Nat
  BY <1>2, FreedCounts
<1>10. /\ Cardinality(InHand(item)) = One(item) /\ Cardinality(InHand(later)) = One(later)
       /\ Cardinality(Buffered(buffer)) \in Nat
  BY InHandCounts, SlotsFinite
<1>11. Cardinality(Buffered(buffer)) + Cardinality(InHand(item)) + Cardinality(gone) = count
  BY DEF Owned
<1>12. Cardinality(Buffered(after)) + Cardinality(InHand(later)) + Cardinality(lost) = count + more
  <2>1. One(item) \in Nat /\ One(later) \in Nat /\ One(x) \in Nat /\ One(item) + more = One(later) + 1
    BY DEF One
  <2> QED BY <1>8, <1>9, <1>10, <1>11, <2>1
<1> QED BY <1>5, <1>6, <1>7, <1>12 DEF Owned

\* A packet is taken out of its slot.
LEMMA OwnedExtract ==
  ASSUME NEW buffer, DOMAIN buffer = Slots, NEW gone, IsFiniteSet(gone), NEW count \in Nat,
         Owned(buffer, NULL, gone, count), NEW t \in Slots, buffer[t] # NULL
  PROVE  Owned([buffer EXCEPT ![t] = NULL], buffer[t], gone, count)
<1> DEFINE after == [buffer EXCEPT ![t] = NULL]
           x == buffer[t]
<1>1. after[t] = NULL /\ (\A s \in Slots \ {t} : after[s] = buffer[s]) /\ after = [buffer EXCEPT ![t] = NULL]
  OBVIOUS
<1> HIDE DEF after
<1>2. \A s, u \in Buffered(after) : after[s] = after[u] => s = u
  BY <1>1 DEF Owned, Buffered
<1>3. \A s \in Buffered(after) : after[s] \notin gone \cup InHand(x)
  BY <1>1 DEF Owned, Buffered, InHand
<1>4. InHand(x) \cap gone = {}
  BY DEF InHand, Owned, Buffered
<1>5. Cardinality(Buffered(after)) = Cardinality(Buffered(buffer)) - 1 + 0
  <2>1. One(NULL) = 0 /\ One(x) = 1
    BY DEF One
  <2>2. Changed(after, buffer, t, NULL)
    BY <1>1 DEF Changed
  <2>3. Cardinality(Buffered(after)) = Cardinality(Buffered(buffer)) - One(x) + One(NULL)
    BY <2>2, SlotChanges
  <2> QED BY <2>1, <2>3
<1>6. /\ Cardinality(InHand(NULL)) = 0 /\ Cardinality(InHand(x)) = 1
      /\ Cardinality(Buffered(buffer)) \in Nat /\ Cardinality(gone) \in Nat
  BY InHandCounts, SlotsFinite, FS_CardinalityType DEF One
<1>7. Cardinality(Buffered(buffer)) + Cardinality(InHand(NULL)) + Cardinality(gone) = count
  BY DEF Owned
<1>8. Cardinality(Buffered(after)) + Cardinality(InHand(x)) + Cardinality(gone) = count
  BY <1>5, <1>6, <1>7
<1> QED BY <1>2, <1>3, <1>4, <1>8 DEF Owned, after

\* The packet in hand is freed.
LEMMA OwnedFree ==
  ASSUME NEW buffer, NEW item, item # NULL, NEW gone, IsFiniteSet(gone), NEW count \in Nat,
         Owned(buffer, item, gone, count)
  PROVE  Owned(buffer, NULL, gone \cup {item}, count)
<1> DEFINE lost == gone \cup {item}
<1>1. lost = gone \cup InHand(item) /\ InHand(NULL) = {}
  BY DEF InHand
<1>2. item \notin gone
  BY DEF Owned, InHand
<1>3. Cardinality(lost) = Cardinality(gone) + 1 /\ Cardinality(gone) \in Nat
  BY <1>1, <1>2, FreedCounts DEF One
<1>4. /\ Cardinality(InHand(NULL)) = 0 /\ Cardinality(InHand(item)) = 1
      /\ Cardinality(Buffered(buffer)) \in Nat
  BY InHandCounts, SlotsFinite DEF One
<1>5. Cardinality(Buffered(buffer)) + Cardinality(InHand(item)) + Cardinality(gone) = count
  BY DEF Owned
<1>6. Cardinality(Buffered(buffer)) + Cardinality(InHand(NULL)) + Cardinality(lost) = count
  BY <1>3, <1>4, <1>5
<1>7. \A s \in Buffered(buffer) : buffer[s] \notin lost \cup InHand(NULL)
  BY <1>1 DEF Owned, InHand
<1> QED BY <1>1, <1>6, <1>7 DEF Owned

-----------------------------------------------------------------------------
(* The inductive invariant                                                 *)

\* The packets whose turn to be added has come.
Added == CASE app.pc \in {"append", "enqueue"} -> app.next
           [] app.pc \in {"index", "send"}     -> app.next + 1
           [] OTHER                            -> constructed
Copies == 0 .. Added - 1

AppType == [pc : {"idle", "append", "index", "send", "enqueue"}, next : Nat, end : Nat,
            frame : Seq(PacedPacket)]
NackType == [pc : {"idle", "extract", "send", "putback"}, list : Seq(0 .. SeqSpace - 1),
             valid : Seq(Int), index : Nat, item : Int]

\* A frame is collected packet by packet, and has room for those that remain.
AppInv ==
  /\ constructed \in 0 .. MaxPackets /\ srtpLocked \in BOOLEAN
  /\ app \in AppType
  /\ \A i \in 1 .. Len(app.frame) : app.frame[i].age = 0
  /\ app.end = constructed /\ app.next <= app.end
  /\ app.pc \in {"append", "index", "send"} => app.next < app.end
  /\ app.pc = "index" => headIndex > 0
  /\ app.pc = "idle" => app.frame = <<>>
  /\ app.pc # "idle" => Len(app.frame) + (app.end - app.next) <= MaxFrame

\* The window starts at 0 until the buffer is full, and the slots it has not
\* reached are empty: a packet that is added never covers one.
BufferInv ==
  /\ headIndex \in 0 .. Added /\ tailIndex \in 0 .. headIndex
  /\ BufferSize <= capacity /\ (BufferSize < capacity => tailIndex = 0)
  /\ dataBuffer \in [Slots -> Copies \cup {NULL}]
  /\ \A slot \in Slots : slot >= headIndex => dataBuffer[slot] = NULL
  /\ freed \subseteq Copies
  /\ lastIndex \in Nat

NackInv ==
  /\ nack \in NackType
  /\ nack.item \in Copies \cup {NULL}
  /\ Len(nack.valid) <= Len(nack.list) /\ Len(nack.valid) <= validIndexListLen
  /\ nack.pc # "idle" => nack.index \in 1 .. Len(nack.valid)
  /\ nack.pc \in {"send", "putback"} <=> nack.item # NULL

SenderInv == PacerInv /\ AppInv /\ BufferInv /\ NackInv /\ OneOwner

-----------------------------------------------------------------------------
(* The look-up of sequence numbers                                         *)

LEMMA WindowType ==
  ASSUME headIndex \in Nat, tailIndex \in Nat, lastIndex \in Nat
  PROVE  /\ startSeq \in 0 .. SeqSpace - 1 /\ endSeq \in 0 .. SeqSpace - 1
         /\ \A seqNum \in Nat : IndexOf(seqNum) \in Int
<1>1. SeqSpace \in Nat \ {0}
  BY SenderAssumption
<1>2. lastIndex - BufferSize + 1 \in Int
  BY DEF BufferSize
<1>3. startSeq \in 0 .. SeqSpace - 1
  BY <1>1, <1>2, ModType DEF startSeq
<1>4. endSeq \in 0 .. SeqSpace - 1
  BY <1>1, ModType DEF endSeq
<1>5. ASSUME NEW seqNum \in Nat PROVE IndexOf(seqNum) \in Int
  <2>1. startSeq \in Int /\ endSeq \in Int
    BY <1>1, <1>3, <1>4
  <2>2. lastIndex - BufferSize + 1 + seqNum - startSeq \in Int /\ lastIndex - endSeq + seqNum \in Int
    BY <1>2, <2>1
  <2> QED BY <2>2 DEF IndexOf
<1> QED BY <1>3, <1>4, <1>5

\* An index found has the sequence number asked for; with the last index noted,
\* each position of the buffer is found.
LEMMA LookupIsExact ==
  ASSUME headIndex \in Nat, tailIndex \in 0 .. headIndex, BufferSize <= capacity, lastIndex \in Nat
  PROVE  LookupExact
<1> DEFINE S == SeqSpace
           B == BufferSize
           b == lastIndex - B + 1
<1>1. S \in Nat \ {0} /\ capacity \in Nat /\ capacity < S
  BY SenderAssumption
<1>2. B \in Nat /\ B = headIndex - tailIndex /\ b \in Int /\ B <= capacity /\ tailIndex \in Nat
  BY DEF BufferSize
<1>3. startSeq = b % S /\ endSeq = lastIndex % S
  BY DEF startSeq, endSeq
<1>4. startSeq \in 0 .. S - 1 /\ endSeq \in 0 .. S - 1
  BY <1>2, WindowType
<1>5. \A seqNum : IndexOf(seqNum) = IF seqNum >= startSeq THEN b + seqNum - startSeq
                                                          ELSE lastIndex - endSeq + seqNum
  BY DEF IndexOf
<1>6. \A seqNum : FoundPacket(seqNum) <=>
        B > 0 /\ IF startSeq >= endSeq THEN seqNum >= startSeq \/ seqNum <= endSeq
                                       ELSE seqNum >= startSeq /\ seqNum <= endSeq
  BY DEF FoundPacket, crossMaxSeq
<1> HIDE DEF S, B, b
<1>7. ASSUME NEW seqNum \in 0 .. S - 1 PROVE IndexOf(seqNum) % S = seqNum
  <2>1. CASE seqNum >= startSeq
    <3>1. (b - (b % S) + seqNum) % S = seqNum
      BY <1>1, <1>2, ModSame
    <3>2. b + seqNum - startSeq = b - startSeq + seqNum
      BY <1>1, <1>2, <1>4
    <3> QED BY <1>3, <1>5, <2>1, <3>1, <3>2
  <2>2. CASE ~(seqNum >= startSeq)
    <3>1. (lastIndex - (lastIndex % S) + seqNum) % S = seqNum
      <4>1. lastIndex \in Int
        OBVIOUS
      <4> QED BY ONLY <1>1, <4>1, seqNum \in 0 .. S - 1, ModSame
    <3> QED BY <1>3, <1>5, <2>2, <3>1
  <2> QED BY <2>1, <2>2
<1>8. ASSUME lastIndex = headIndex - 1, NEW index \in tailIndex .. headIndex - 1
      PROVE  FoundPacket(index % S) /\ IndexOf(index % S) = index
  <2> DEFINE d == index - tailIndex
             seqNum == index % S
  <2>1. b = tailIndex /\ d \in 0 .. B - 1 /\ index = tailIndex + d /\ lastIndex = tailIndex + (B - 1)
    BY <1>2, <1>8 DEF b
  <2>2. B > 0 /\ d \in 0 .. S /\ B - 1 \in 0 .. S /\ B - 1 < S
    BY <1>1, <1>2, <2>1
  <2> HIDE DEF d
  <2>3. seqNum = IF startSeq + d < S THEN startSeq + d ELSE startSeq + d - S
    BY <1>1, <1>2, <1>3, <2>1, <2>2, ModAdd
  <2>4. endSeq = IF startSeq + (B - 1) < S THEN startSeq + (B - 1) ELSE startSeq + (B - 1) - S
    BY <1>1, <1>2, <1>3, <2>1, <2>2, ModAdd
  <2> HIDE DEF seqNum
  <2>5. FoundPacket(seqNum)
    BY <1>1, <1>2, <1>4, <1>6, <2>1, <2>2, <2>3, <2>4
  <2>6. IndexOf(seqNum) = index
    BY <1>1, <1>2, <1>4, <1>5, <2>1, <2>2, <2>3, <2>4
  <2> QED BY <2>5, <2>6 DEF seqNum
<1> QED BY <1>7, <1>8 DEF LookupExact, SequenceNumber, S

\* The list of indices has at most one for each number asked for, and fits its room.
LEMMA ValidListType ==
  ASSUME headIndex \in Nat, tailIndex \in Nat, lastIndex \in Nat, NEW list \in Seq(Nat),
         NEW valid, valid = rtpRollingBufferGetValidSeqIndexList(list)
  PROVE  valid \in Seq(Int) /\ Len(valid) <= Len(list) /\ Len(valid) <= validIndexListLen
<1> DEFINE N == Len(list)
           Adds(v, seqNum) == IF FoundPacket(seqNum) /\ Len(v) < validIndexListLen
                              THEN Append(v, IndexOf(seqNum)) ELSE v
           IsFcn(f, m) == f = [n \in 0 .. m |-> f[n]]
           Lists(f, m) == /\ IsFcn(f, m) /\ f[0] = <<>>
                          /\ \A n \in 1 .. m : f[n] = Adds(f[n - 1], list[n])
           T == {m \in Nat : m <= N => \E f : Lists(f, m)}
           Eq(f) == f = [n \in 0 .. N |-> IF n = 0 THEN <<>>
                                          ELSE IF FoundPacket(list[n]) /\ Len(f[n - 1]) < validIndexListLen
                                          THEN Append(f[n - 1], IndexOf(list[n]))
                                          ELSE f[n - 1]]
<1>0. N \in Nat /\ \A n \in 1 .. N : list[n] \in Nat
  OBVIOUS
<1>1. valid = (CHOOSE f : Eq(f))[N]
  BY DEF rtpRollingBufferGetValidSeqIndexList
<1> HIDE DEF N, Adds, IsFcn
<1>2. 0 \in T
  <2>1. Lists([i \in 0 .. 0 |-> <<>>], 0)
    BY DEF IsFcn
  <2> QED BY <2>1
<1>3. ASSUME NEW m \in T PROVE m + 1 \in T
  <2>0. m \in Nat /\ m + 1 \in Nat
    OBVIOUS
  <2> SUFFICES ASSUME m + 1 <= N PROVE \E f : Lists(f, m + 1)
    BY <2>0, Zenon
  <2>1. m \in Nat /\ m <= N
    BY <1>0, <2>0
  <2>2. PICK f : Lists(f, m)
    BY <2>1, Zenon
  <2> DEFINE g == [i \in 0 .. m + 1 |-> IF i <= m THEN f[i] ELSE Adds(f[m], list[m + 1])]
  <2>3. IsFcn(g, m + 1) /\ g[0] = <<>>
    BY <2>1, <2>2 DEF IsFcn
  <2>4. \A n \in 1 .. m + 1 : g[n] = Adds(g[n - 1], list[n])
    <3> TAKE n \in 1 .. m + 1
    <3>1. CASE n <= m
      BY <2>1, <2>2, <3>1
    <3>2. CASE n = m + 1
      <4>1. g[n] = Adds(f[m], list[m + 1]) /\ g[m] = f[m] /\ n - 1 = m
        BY <2>1, <3>2
      <4> QED BY <3>2, <4>1
    <3> QED BY <2>1, <3>1, <3>2
  <2> QED BY <2>3, <2>4
<1> HIDE DEF T
<1>4. T = Nat
  <2>1. T \in SUBSET Nat
    BY DEF T
  <2> QED BY <1>2, <1>3, <2>1, InductionOn
<1>5. PICK f : Lists(f, N)
  <2>1. N \in T /\ N <= N
    BY <1>0, <1>4
  <2> QED BY <2>1, Zenon DEF T
<1>6. Eq(f)
  <2> DEFINE g == [n \in 0 .. N |-> IF n = 0 THEN <<>> ELSE Adds(f[n - 1], list[n])]
  <2>1. f = [n \in 0 .. N |-> f[n]]
    BY <1>5 DEF IsFcn
  <2>2. \A n \in 0 .. N : f[n] = IF n = 0 THEN <<>> ELSE Adds(f[n - 1], list[n])
    BY <1>0, <1>5
  <2>3. f = g
    BY <2>1, <2>2
  <2> QED BY <2>3 DEF Adds
<1> DEFINE h == CHOOSE g : Eq(g)
<1>7. Eq(h)
  BY <1>6
<1> HIDE DEF h
<1>8. \A n \in 0 .. N : h[n] = IF n = 0 THEN <<>> ELSE Adds(h[n - 1], list[n])
  BY <1>7 DEF Adds
<1> DEFINE U == {m \in Nat : m <= N => h[m] \in Seq(Int) /\ Len(h[m]) <= m /\ Len(h[m]) <= validIndexListLen}
<1>9. 0 \in U
  <2>1. h[0] = <<>>
    BY <1>0, <1>8
  <2>2. <<>> \in Seq(Int) /\ Len(<<>>) <= 0 /\ Len(<<>>) <= validIndexListLen /\ 0 \in Nat
    BY SenderAssumption
  <2> QED BY <2>1, <2>2, Zenon
<1>10. ASSUME NEW m \in U PROVE m + 1 \in U
  <2> SUFFICES ASSUME m + 1 <= N
               PROVE  /\ h[m + 1] \in Seq(Int) /\ Len(h[m + 1]) <= m + 1
                      /\ Len(h[m + 1]) <= validIndexListLen
    OBVIOUS
  <2>1. m \in Nat /\ m + 1 \in 0 .. N /\ m + 1 # 0 /\ (m + 1) - 1 = m /\ list[m + 1] \in Nat
    BY <1>0
  <2>2. h[m] \in Seq(Int) /\ Len(h[m]) <= m /\ Len(h[m]) <= validIndexListLen
    BY <1>0, <2>1
  <2> HIDE DEF U
  <2>3. h[m + 1] = Adds(h[m], list[m + 1])
    BY <1>8, <2>1
  <2> DEFINE v == h[m]
             w == h[m + 1]
             x == IndexOf(list[m + 1])
  <2>4. x \in Int
    BY <2>1, WindowType
  <2>5. w = v \/ (w = Append(v, x) /\ Len(v) < validIndexListLen)
    BY <2>3 DEF Adds
  <2> HIDE DEF v, w, x
  <2>6. v \in Seq(Int) /\ Len(v) <= m /\ Len(v) <= validIndexListLen
    BY <2>2 DEF v
  <2>7. w \in Seq(Int) /\ Len(w) <= m + 1 /\ Len(w) <= validIndexListLen
    <3>1. validIndexListLen \in Nat /\ Len(v) \in Nat
      BY <2>6, SenderAssumption
    <3>2. CASE w = v
      BY <2>1, <2>6, <3>1, <3>2
    <3>3. CASE w = Append(v, x) /\ Len(v) < validIndexListLen
      <4>1. w \in Seq(Int) /\ Len(w) = Len(v) + 1
        BY <2>4, <2>6, <3>3
      <4> QED BY <2>1, <2>6, <3>1, <3>3, <4>1
    <3> QED BY <2>5, <3>2, <3>3
  <2> QED BY <2>7 DEF w
<1> HIDE DEF U
<1>11. U = Nat
  <2>1. U \in SUBSET Nat
    BY DEF U
  <2> QED BY <1>9, <1>10, <2>1, InductionOn
<1>12. h[N] \in Seq(Int) /\ Len(h[N]) <= N /\ Len(h[N]) <= validIndexListLen
  <2>1. N \in U /\ N <= N
    BY <1>0, <1>11
  <2> QED BY <2>1 DEF U
<1> QED BY <1>1, <1>12 DEF h, N

-----------------------------------------------------------------------------
(* Every step keeps the invariant                                          *)

LEMMA AddedType ==
  ASSUME AppInv
  PROVE  Added \in 0 .. constructed
<1>1. /\ app.pc \in {"idle", "append", "index", "send", "enqueue"} /\ app.next \in Nat
      /\ app.end \in Nat /\ constructed \in Nat
  BY SenderAssumption DEF AppInv, AppType
<1>2. /\ app.end = constructed /\ app.next <= app.end
      /\ app.pc \in {"append", "index", "send"} => app.next < app.end
  BY DEF AppInv
<1> QED BY <1>1, <1>2 DEF Added

LEMMA OwnerForm ==
  ASSUME DOMAIN dataBuffer = Slots
  PROVE  OneOwner <=> Owned(dataBuffer, nack.item, freed, headIndex)
BY DEF OneOwner, Owned, Buffered, InHand

LEMMA SenderStarts == Init => SenderInv
<1> SUFFICES ASSUME Init PROVE SenderInv
  OBVIOUS
<1>1. PacerInv
  BY PacerStarts DEF Init
<1>2. app \in AppType /\ app.frame = <<>>
  BY BytesOfNone DEF Init, AppType
<1>3. AppInv
  BY <1>2, SenderAssumption DEF Init, AppInv
<1>4. Added = 0
  BY DEF Init, Added
<1>5. dataBuffer \in [Slots -> Copies \cup {NULL}] /\ \A slot \in Slots : dataBuffer[slot] = NULL
  BY DEF Init, Slots
<1>6. lastIndex \in Nat
  BY DEF Init
<1>7. BufferInv
  BY <1>4, <1>5, <1>6, SenderAssumption DEF Init, BufferInv, BufferSize
<1>8. nack \in NackType
  BY DEF Init, Idle, NackType, NULL
<1>9. NackInv
  BY <1>8, SenderAssumption DEF Init, Idle, NackInv
<1>10. OneOwner
  <2>1. Buffered(dataBuffer) = {} /\ InHand(nack.item) = {} /\ freed = {} /\ headIndex = 0
    BY <1>5 DEF Buffered, InHand, Init, Idle
  <2>2. Owned(dataBuffer, nack.item, freed, headIndex)
    BY <2>1, FS_EmptySet DEF Owned
  <2> QED BY <1>5, <2>2, OwnerForm
<1> QED BY <1>1, <1>3, <1>7, <1>9, <1>10 DEF SenderInv

\* The buffer and the listener thread do not mind more packets being on their way.
LEMMA GrowKeeps ==
  ASSUME BufferInv, NackInv, OneOwner, UNCHANGED <<bufferVars, freed, nack>>, lastIndex' \in Nat,
         Added \in Nat, Added' \in Nat, Added <= Added'
  PROVE  BufferInv' /\ NackInv' /\ OneOwner'
<1>1. Copies \subseteq Copies'
  <2> DEFINE a == Added
             b == Added'
  <2>1. a \in Nat /\ b \in Nat /\ a <= b
    OBVIOUS
  <2> HIDE DEF a, b
  <2>2. 0 .. a - 1 \subseteq 0 .. b - 1
    BY <2>1
  <2> QED BY <2>2 DEF Copies, a, b
<1> HIDE DEF Added, Copies
<1>2. UNCHANGED <<headIndex, tailIndex, dataBuffer, freed, nack>>
  BY DEF bufferVars
<1>3. dataBuffer' \in [Slots -> Copies' \cup {NULL}] /\ freed' \subseteq Copies'
  BY <1>1, <1>2 DEF BufferInv
<1>4. headIndex' \in 0 .. Added'
  BY <1>2 DEF BufferInv
<1>5. BufferInv'
  BY <1>2, <1>3, <1>4 DEF BufferInv, BufferSize
<1>6. nack'.item \in Copies' \cup {NULL}
  BY <1>1, <1>2 DEF NackInv
<1>7. NackInv'
  BY <1>2, <1>6 DEF NackInv
<1>8. OneOwner'
  BY <1>2 DEF OneOwner
<1> QED BY <1>5, <1>7, <1>8

LEMMA WriteFrameKeeps ==
  ASSUME SenderInv, NEW n \in 1 .. MaxFrame, WriteFrame(n)
  PROVE  SenderInv'
<1> USE DEF SenderInv
<1>1. /\ app.pc = "idle" /\ constructed + n <= MaxPackets /\ srtpLocked' = TRUE
      /\ constructed' = constructed + n
      /\ app' = [pc |-> "append", next |-> constructed, end |-> constructed + n, frame |-> <<>>]
      /\ UNCHANGED <<pacerVars, mode, bufferVars, lastIndex, nack, freed, failures>>
  BY DEF WriteFrame
<1>2. constructed \in Nat /\ MaxPackets \in Nat /\ MaxFrame \in Nat /\ n \in Nat
  BY SenderAssumption DEF AppInv
<1>3. PacerInv'
  BY <1>1 DEF pacerVars, PacerInv, QueueAccounting, OldestFirst
<1>4. srtpLocked' \in BOOLEAN
  BY <1>1, Zenon
<1>5. app' \in AppType
  BY <1>1, <1>2, BytesOfNone DEF AppType
<1>6. AppInv'
  BY <1>1, <1>2, <1>4, <1>5 DEF AppInv
<1>7. Added = constructed /\ Added' = constructed
  BY <1>1 DEF Added
<1>8. lastIndex' \in Nat
  BY <1>1 DEF BufferInv
<1>9. BufferInv' /\ NackInv' /\ OneOwner'
  BY <1>1, <1>2, <1>7, <1>8, GrowKeeps
<1> QED BY <1>3, <1>6, <1>9

LEMMA NoteLastIndexKeeps ==
  ASSUME SenderInv, NoteLastIndex
  PROVE  SenderInv'
<1> USE DEF SenderInv
<1>1. /\ app.pc = "index" /\ lastIndex' = headIndex - 1 /\ app' = [app EXCEPT !.pc = "send"]
      /\ UNCHANGED <<pacerVars, mode, bufferVars, constructed, srtpLocked, nack, freed, failures>>
  BY DEF NoteLastIndex
<1>2. PacerInv'
  BY <1>1 DEF pacerVars, PacerInv, QueueAccounting, OldestFirst
<1>3. app' \in AppType /\ app'.pc = "send" /\ app'.next = app.next /\ app'.end = app.end /\ app'.frame = app.frame
  BY <1>1 DEF AppInv, AppType
<1>4. UNCHANGED <<constructed, srtpLocked, headIndex>>
  BY <1>1 DEF bufferVars
<1>5. AppInv'
  BY <1>1, <1>3, <1>4 DEF AppInv
<1>6. Added' = Added /\ Added \in Nat
  <2>1. Added = app.next + 1 /\ Added' = app.next + 1 /\ app.next \in Nat
    BY <1>1, <1>3 DEF Added, AppInv, AppType
  <2> QED BY <2>1
<1>7. lastIndex' \in Nat
  <2>1. headIndex \in Nat /\ headIndex > 0
    BY <1>1, <1>6 DEF AppInv, BufferInv
  <2> QED BY <1>1, <2>1
<1>8. BufferInv' /\ NackInv' /\ OneOwner'
  BY <1>1, <1>6, <1>7, GrowKeeps
<1> QED BY <1>2, <1>5, <1>8

LEMMA SendRtpPacketKeeps ==
  ASSUME SenderInv, NEW size \in Sizes, SendRtpPacket(size)
  PROVE  SenderInv'
<1> USE DEF SenderInv
<1> DEFINE packet == [id |-> app.next, size |-> size, age |-> 0]
           frame == IF useBatchPacing THEN Append(app.frame, packet) ELSE app.frame
           pc == IF app.next + 1 = app.end THEN "enqueue" ELSE "append"
<1>1. /\ app.pc = "send"
      /\ app' = [app EXCEPT !.pc = pc, !.next = app.next + 1, !.frame = frame]
      /\ UNCHANGED <<pacerVars, mode, bufferVars, lastIndex, constructed, srtpLocked, nack, freed, failures>>
  BY DEF SendRtpPacket
<1>2. app \in AppType /\ app.next \in Nat /\ app.end \in Nat /\ app.frame \in Seq(PacedPacket)
  BY DEF AppInv, AppType
<1>3. PacerInv'
  BY <1>1 DEF pacerVars, PacerInv, QueueAccounting, OldestFirst
<1>4. packet \in PacedPacket /\ packet.age = 0
  BY <1>2, Deadlines DEF PacedPacket
<1> HIDE DEF packet
<1>5. /\ frame \in Seq(PacedPacket) /\ Len(frame) \in Nat /\ Len(frame) <= Len(app.frame) + 1
      /\ \A i \in 1 .. Len(frame) : frame[i].age = 0
  <2>1. Len(app.frame) \in Nat /\ \A i \in 1 .. Len(app.frame) : app.frame[i].age = 0
    BY <1>2 DEF AppInv
  <2>2. CASE useBatchPacing
    <3>1. frame = Append(app.frame, packet)
      BY <2>2
    <3> DEFINE f == app.frame
    <3> HIDE DEF f
    <3>2. f \in Seq(PacedPacket) /\ frame = Append(f, packet) /\ Len(f) \in Nat
          /\ \A i \in 1 .. Len(f) : f[i].age = 0
      BY <1>2, <2>1, <3>1 DEF f
    <3> HIDE DEF frame
    <3>3. frame \in Seq(PacedPacket) /\ Len(frame) = Len(f) + 1
      BY <1>4, <3>2
    <3>4. ASSUME NEW i \in 1 .. Len(f) + 1 PROVE frame[i].age = 0
      <4>1. CASE i <= Len(f)
        <5>1. i \in 1 .. Len(f) /\ frame[i] = f[i]
          BY <3>2, <4>1
        <5> QED BY <3>2, <5>1
      <4>2. CASE i = Len(f) + 1
        BY <1>4, <3>2, <4>2
      <4> QED BY <3>2, <4>1, <4>2
    <3> QED BY <3>2, <3>3, <3>4 DEF f
  <2>3. CASE ~useBatchPacing
    BY <1>2, <2>1, <2>3
  <2> QED BY <2>2, <2>3
<1>6. pc \in {"append", "enqueue"} /\ (pc = "append" => app.next + 1 # app.end)
  OBVIOUS
<1> HIDE DEF frame, pc
<1>7. /\ app' \in AppType /\ app'.pc = pc /\ app'.next = app.next + 1 /\ app'.end = app.end
      /\ app'.frame = frame
  <2> DEFINE next == app.next + 1
  <2>1. next \in Nat
    BY <1>2
  <2> HIDE DEF next
  <2>2. app' = [app EXCEPT !.pc = pc, !.next = next, !.frame = frame]
    BY <1>1 DEF next
  <2>3. /\ app'.pc = pc /\ app'.next = next /\ app'.end = app.end /\ app'.frame = frame
    BY <1>2, <2>2 DEF AppType
  <2>4. app' \in AppType
    BY <1>2, <1>5, <1>6, <2>1, <2>2 DEF AppType
  <2> QED BY <2>3, <2>4 DEF next
<1>8. UNCHANGED <<constructed, srtpLocked, headIndex>>
  BY <1>1 DEF bufferVars
<1>9. AppInv'
  <2>1. app.next < app.end /\ Len(app.frame) + (app.end - app.next) <= MaxFrame /\ Len(app.frame) \in Nat
    BY <1>1, <1>2 DEF AppInv
  <2>2. app'.next <= app'.end /\ (app'.pc = "append" => app'.next < app'.end)
    BY <1>2, <1>6, <1>7, <2>1
  <2>3. Len(app'.frame) + (app'.end - app'.next) <= MaxFrame
    BY <1>2, <1>5, <1>7, <2>1, SenderAssumption
  <2>4. app'.pc # "idle" /\ app'.pc # "index" /\ app'.pc # "send"
    BY <1>6, <1>7
  <2> QED BY <1>5, <1>7, <1>8, <2>2, <2>3, <2>4 DEF AppInv
<1>10. Added' = Added /\ Added \in Nat
  <2>1. Added = app.next + 1 /\ Added' = app.next + 1
    BY <1>1, <1>6, <1>7 DEF Added
  <2> QED BY <1>2, <2>1
<1>11. lastIndex' \in Nat
  BY <1>1 DEF BufferInv
<1>12. BufferInv' /\ NackInv' /\ OneOwner'
  BY <1>1, <1>10, <1>11, GrowKeeps
<1> QED BY <1>3, <1>9, <1>12

LEMMA SlotType ==
  ASSUME NEW index \in Nat
  PROVE  Slot(index) \in Slots /\ (index < capacity => Slot(index) = index)
<1>1. capacity \in Nat \ {0}
  BY SenderAssumption
<1>2. Slot(index) \in Slots
  BY <1>1, ModType DEF Slot, Slots
<1>3. ASSUME index < capacity PROVE Slot(index) = index
  BY <1>1, <1>3, ModSmall DEF Slot
<1> QED BY <1>2, <1>3

\* The slot of a packet added holds the packet evicted, or nothing.
LEMMA EvictedIs ==
  ASSUME BufferInv, Added \in Nat
  PROVE  Evicted = InHand(dataBuffer[Slot(headIndex)])
<1>1. capacity \in Nat \ {0} /\ headIndex \in Nat /\ tailIndex \in Nat /\ BufferSize = headIndex - tailIndex
  BY SenderAssumption DEF BufferInv, BufferSize
<1>2. CASE BufferSize = capacity
  <2>1. headIndex = tailIndex + capacity /\ capacity \in 0 .. capacity
    BY <1>1, <1>2
  <2>2. tailIndex % capacity \in 0 .. capacity - 1
    BY <1>1, ModType
  <2>3. (tailIndex + capacity) % capacity = tailIndex % capacity
    <3> DEFINE r == tailIndex % capacity
    <3>1. (tailIndex + capacity) % capacity = IF r + capacity < capacity THEN r + capacity ELSE r + capacity - capacity
      <4>1. tailIndex \in Int /\ capacity \in Nat \ {0} /\ capacity \in 0 .. capacity
        BY <1>1, <2>1
      <4> QED BY ONLY <4>1, ModAdd
    <3>2. r \in 0 .. capacity - 1
      BY <2>2
    <3> HIDE DEF r
    <3>3. (tailIndex + capacity) % capacity = r
      BY <1>1, <3>1, <3>2
    <3> QED BY <3>3 DEF r
  <2>4. Slot(headIndex) = Slot(tailIndex)
    BY <2>1, <2>3 DEF Slot
  <2> QED BY <1>2, <2>4 DEF Evicted, InHand
<1>3. CASE BufferSize # capacity
  <2>1. headIndex < capacity
    BY <1>1, <1>3 DEF BufferInv
  <2>2. Slot(headIndex) = headIndex /\ headIndex \in Slots
    BY <1>1, <2>1, SlotType DEF Slots
  <2>3. dataBuffer[Slot(headIndex)] = NULL
    BY <1>1, <2>2 DEF BufferInv
  <2> QED BY <1>3, <2>3 DEF Evicted, InHand
<1> QED BY <1>2, <1>3

\* A slot in use gets another packet, or none.
LEMMA SlotKeeps ==
  ASSUME BufferInv, Added \in Nat, NEW index \in Nat, index < headIndex, NEW p \in Copies \cup {NULL},
         NEW after, after = [dataBuffer EXCEPT ![Slot(index)] = p]
  PROVE  /\ after \in [Slots -> Copies \cup {NULL}]
         /\ \A slot \in Slots : slot >= headIndex => after[slot] = NULL
<1>1. capacity \in Nat \ {0} /\ headIndex \in Nat
  BY SenderAssumption DEF BufferInv
<1>2. dataBuffer \in [Slots -> Copies \cup {NULL}] /\ \A slot \in Slots : slot >= headIndex => dataBuffer[slot] = NULL
  BY DEF BufferInv
<1>3. after \in [Slots -> Copies \cup {NULL}]
  BY <1>2
<1>4. ASSUME NEW slot \in Slots, slot >= headIndex PROVE after[slot] = NULL
  <2>1. slot \in Nat /\ slot < capacity
    BY <1>1 DEF Slots
  <2>2. index < capacity /\ index # slot
    BY <1>1, <1>4, <2>1
  <2>3. Slot(index) # slot
    BY <2>2, SlotType
  <2>4. after[slot] = dataBuffer[slot]
    BY <1>2, <2>3
  <2> QED BY <1>2, <1>4, <2>4
<1> QED BY <1>3, <1>4

LEMMA CopiesFinite ==
  ASSUME Added \in Nat, NEW gone, gone \subseteq Copies
  PROVE  IsFiniteSet(gone)
<1>1. IsFiniteSet(Copies)
  <2>1. Added - 1 \in Int /\ 0 \in Int
    OBVIOUS
  <2> QED BY <2>1, FS_Interval DEF Copies
<1> QED BY <1>1, FS_Subset

LEMMA AppendKeeps ==
  ASSUME SenderInv, app.pc = "append", rollingBufferAppendData(app.next),
         nack' = nack, lastIndex' = lastIndex, Added' = app.next + 1
  PROVE  BufferInv' /\ NackInv' /\ OneOwner'
<1> USE DEF SenderInv
<1> DEFINE p == app.next
           h == Slot(headIndex)
<1>1. p \in Nat /\ Added = p /\ Added \in Nat /\ Added' \in Nat
  BY DEF AppInv, AppType, Added
<1>2. /\ capacity \in Nat \ {0} /\ headIndex \in Nat /\ headIndex <= p /\ tailIndex \in 0 .. headIndex
      /\ BufferSize = headIndex - tailIndex /\ BufferSize <= capacity
      /\ (BufferSize < capacity => tailIndex = 0)
  BY <1>1, SenderAssumption DEF BufferInv, BufferSize
<1>3. /\ freed' = freed \cup InHand(dataBuffer[h])
      /\ dataBuffer' = [dataBuffer EXCEPT ![h] = p]
      /\ tailIndex' = IF BufferSize = capacity THEN tailIndex + 1 ELSE tailIndex
      /\ headIndex' = headIndex + 1
  BY <1>1, EvictedIs DEF rollingBufferAppendData, TailAfterAppend
<1>4. Copies = 0 .. p - 1 /\ Copies' = 0 .. p
  BY <1>1 DEF Copies
<1>5. h \in Slots /\ (headIndex < capacity => h = headIndex)
  BY <1>2, SlotType
<1>6. /\ dataBuffer \in [Slots -> Copies \cup {NULL}]
      /\ \A slot \in Slots : slot >= headIndex => dataBuffer[slot] = NULL
      /\ freed \subseteq Copies /\ lastIndex \in Nat
  BY DEF BufferInv
<1> HIDE DEF h, p
<1>7. Copies \subseteq Copies' /\ p \in Copies' /\ p \notin Copies /\ p # NULL
  BY <1>1, <1>4 DEF NULL
<1>8. dataBuffer' \in [Slots -> Copies' \cup {NULL}]
  BY <1>3, <1>5, <1>6, <1>7
<1>9. \A slot \in Slots : slot >= headIndex' => dataBuffer'[slot] = NULL
  <2> SUFFICES ASSUME NEW slot \in Slots, slot >= headIndex + 1 PROVE dataBuffer'[slot] = NULL
    BY <1>3
  <2>1. slot \in Nat /\ slot < capacity
    BY <1>2 DEF Slots
  <2>2. slot >= headIndex /\ slot # h
    BY <1>2, <1>5, <2>1
  <2> QED BY <1>3, <1>5, <1>6, <2>2
<1>10. freed' \subseteq Copies'
  BY <1>3, <1>5, <1>6, <1>7 DEF InHand
<1>11. /\ headIndex' \in 0 .. Added' /\ tailIndex' \in 0 .. headIndex'
       /\ BufferSize' <= capacity /\ (BufferSize' < capacity => tailIndex' = 0)
  <2>1. BufferSize' = headIndex' - tailIndex'
    BY DEF BufferSize
  <2> QED BY <1>1, <1>2, <1>3, <2>1 DEF p
<1>12. BufferInv'
  BY <1>6, <1>8, <1>9, <1>10, <1>11 DEF BufferInv
<1>13. NackInv'
  BY <1>7 DEF NackInv
<1>14. OneOwner'
  <2>1. Owned(dataBuffer, nack.item, freed, headIndex)
    BY <1>6, OwnerForm
  <2>2. IsFiniteSet(freed)
    BY <1>1, <1>6, CopiesFinite
  <2>3. p # nack.item /\ p \notin freed /\ \A s \in Slots : dataBuffer[s] # p
    BY <1>6, <1>7 DEF NackInv
  <2>4. DOMAIN dataBuffer = Slots /\ DOMAIN dataBuffer' = Slots
    BY <1>6, <1>8
  <2>5. Owned(dataBuffer', nack.item, freed \cup InHand(dataBuffer[h]), headIndex + 1)
    <3>1. Changed(dataBuffer', dataBuffer, h, p)
      BY <1>3, <1>5, <2>4 DEF Changed
    <3>2. ItsTurn(p, dataBuffer, nack.item, freed, nack.item, 1)
      BY <2>3 DEF ItsTurn
    <3> QED BY <1>2, <1>5, <1>7, <2>1, <2>2, <3>1, <3>2, OwnedReplace
  <2>6. Owned(dataBuffer', nack'.item, freed', headIndex')
    BY <1>3, <2>5
  <2> QED BY <2>4, <2>6 DEF OneOwner, Owned, Buffered, InHand
<1> QED BY <1>12, <1>13, <1>14

LEMMA AddRtpPacketKeeps ==
  ASSUME SenderInv, AddRtpPacket
  PROVE  SenderInv'
<1> USE DEF SenderInv
<1> DEFINE pc == IF rtx THEN "index" ELSE "send"
<1>1. /\ app.pc = "append" /\ app' = [app EXCEPT !.pc = pc]
      /\ UNCHANGED <<pacerVars, mode, lastIndex, constructed, srtpLocked, nack, failures>>
  BY DEF AddRtpPacket
<1>2. PacerInv'
  BY <1>1 DEF pacerVars, PacerInv, QueueAccounting, OldestFirst
<1>3. pc \in {"index", "send"} /\ (pc = "index" => rtx)
  OBVIOUS
<1> HIDE DEF pc
<1>4. app' \in AppType /\ app'.pc = pc /\ app'.next = app.next /\ app'.end = app.end /\ app'.frame = app.frame
  BY <1>1, <1>3 DEF AppInv, AppType
<1>5. app.next \in Nat /\ Added = app.next /\ Added' = app.next + 1
  BY <1>1, <1>3, <1>4 DEF Added, AppInv, AppType
<1>6. BufferInv' /\ NackInv' /\ OneOwner' /\ (rtx => headIndex' > 0)
  <2>1. CASE rtx
    <3>1. rollingBufferAppendData(app.next)
      BY <2>1 DEF AddRtpPacket
    <3>2. headIndex' > 0
      <4>1. headIndex \in Nat
        BY <1>5 DEF BufferInv
      <4> QED BY <3>1, <4>1 DEF rollingBufferAppendData
    <3> QED BY <1>1, <1>5, <3>1, <3>2, AppendKeeps
  <2>2. CASE ~rtx
    <3>1. UNCHANGED <<bufferVars, freed>>
      BY <2>2 DEF AddRtpPacket
    <3>2. lastIndex' \in Nat
      BY <1>1 DEF BufferInv
    <3> QED BY <1>1, <1>5, <2>2, <3>1, <3>2, GrowKeeps
  <2> QED BY <2>1, <2>2
<1>7. AppInv'
  BY <1>1, <1>3, <1>4, <1>6 DEF AppInv
<1> QED BY <1>2, <1>6, <1>7

LEMMA FrameEndsKeeps ==
  ASSUME AppInv, app.pc \in {"send", "enqueue"}, srtpLocked' = FALSE,
         app' = [app EXCEPT !.pc = "idle", !.frame = <<>>], constructed' = constructed
  PROVE  AppInv' /\ Added \in Nat /\ Added' \in Nat /\ Added <= Added'
<1>1. /\ app' \in AppType /\ app'.pc = "idle" /\ app'.next = app.next /\ app'.end = app.end
      /\ app'.frame = <<>>
  BY BytesOfNone DEF AppInv, AppType
<1>2. srtpLocked' \in BOOLEAN
  BY Zenon
<1>3. AppInv'
  BY <1>1, <1>2 DEF AppInv
<1>4. Added \in 0 .. constructed /\ constructed \in Nat
  BY AddedType, SenderAssumption DEF AppInv
<1>5. Added' = constructed
  BY <1>1 DEF Added
<1> QED BY <1>3, <1>4, <1>5

LEMMA BreakOffFrameKeeps ==
  ASSUME SenderInv, BreakOffFrame
  PROVE  SenderInv'
<1> USE DEF SenderInv
<1>1. /\ app.pc = "send" /\ srtpLocked' = FALSE /\ app' = [app EXCEPT !.pc = "idle", !.frame = <<>>]
      /\ UNCHANGED <<pacerVars, mode, bufferVars, lastIndex, constructed, nack, freed>>
  BY DEF BreakOffFrame, LockAfter
<1>2. PacerInv'
  BY <1>1 DEF pacerVars, PacerInv, QueueAccounting, OldestFirst
<1>3. AppInv' /\ Added \in Nat /\ Added' \in Nat /\ Added <= Added'
  BY <1>1, FrameEndsKeeps
<1>4. lastIndex' \in Nat
  BY <1>1 DEF BufferInv
<1>5. BufferInv' /\ NackInv' /\ OneOwner'
  BY <1>1, <1>3, <1>4, GrowKeeps
<1> QED BY <1>2, <1>3, <1>5

LEMMA EnqueueFrameKeeps ==
  ASSUME SenderInv, EnqueueFrame
  PROVE  SenderInv'
<1> USE DEF SenderInv
<1>1. /\ app.pc = "enqueue" /\ srtpLocked' = FALSE /\ app' = [app EXCEPT !.pc = "idle", !.frame = <<>>]
      /\ UNCHANGED <<mode, bufferVars, lastIndex, constructed, nack, freed, failures>>
      /\ IF useBatchPacing THEN pacerEnqueueFrame(app.frame) ELSE UNCHANGED pacerVars
  BY DEF EnqueueFrame, LockAfter
<1>2. PacerInv'
  <2>1. CASE useBatchPacing
    <3>1. app.frame \in Seq(PacedPacket) /\ \A i \in 1 .. Len(app.frame) : app.frame[i].age = 0
      BY DEF AppInv, AppType
    <3> QED BY <1>1, <2>1, <3>1, EnqueueKeeps
  <2>2. CASE ~useBatchPacing
    BY <1>1, <2>2 DEF pacerVars, PacerInv, QueueAccounting, OldestFirst
  <2> QED BY <2>1, <2>2
<1>3. AppInv' /\ Added \in Nat /\ Added' \in Nat /\ Added <= Added'
  BY <1>1, FrameEndsKeeps
<1>4. lastIndex' \in Nat
  BY <1>1 DEF BufferInv
<1>5. BufferInv' /\ NackInv' /\ OneOwner'
  BY <1>1, <1>3, <1>4, GrowKeeps
<1> QED BY <1>2, <1>3, <1>5

\* A step of the listener thread leaves the application thread and the pacer alone.
LEMMA ListenerAlone ==
  ASSUME SenderInv, UNCHANGED <<pacerVars, app, constructed, srtpLocked, headIndex>>
  PROVE  PacerInv' /\ AppInv' /\ Added' = Added /\ Copies' = Copies /\ Added \in Nat
<1> USE DEF SenderInv
<1>1. PacerInv'
  BY DEF pacerVars, PacerInv, QueueAccounting, OldestFirst
<1>2. AppInv'
  BY DEF AppInv
<1>3. Added' = Added
  BY DEF Added
<1>4. Copies' = Copies
  BY <1>3 DEF Copies
<1>5. Added \in Nat
  BY AddedType, SenderAssumption DEF AppInv
<1> QED BY <1>1, <1>2, <1>3, <1>4, <1>5

LEMMA NackIs ==
  ASSUME NEW pc \in {"idle", "extract", "send", "putback"}, NEW list \in Seq(0 .. SeqSpace - 1),
         NEW valid \in Seq(Int), NEW index \in Nat, NEW item \in Int
  PROVE  [pc |-> pc, list |-> list, valid |-> valid, index |-> index, item |-> item] \in NackType
BY DEF NackType

LEMMA IdleIsTyped ==
  ASSUME nack' = Idle
  PROVE  NackInv' /\ nack'.item = NULL
<1>1. nack' \in NackType
  BY DEF Idle, NackType, NULL
<1> QED BY <1>1, SenderAssumption DEF Idle, NackInv

LEMMA NextIndexKeeps ==
  ASSUME NackInv, nack.pc # "idle", nack' = NextIndex
  PROVE  NackInv' /\ nack'.item = NULL
<1>1. nack \in NackType /\ nack.index \in Nat /\ Len(nack.valid) \in Nat /\ nack.index \in 1 .. Len(nack.valid)
  BY DEF NackInv, NackType
<1>2. CASE nack.index < Len(nack.valid)
  <2> DEFINE k == nack.index + 1
  <2>1. k \in Nat /\ k \in 1 .. Len(nack.valid)
    BY <1>1, <1>2
  <2> HIDE DEF k
  <2>2. nack' = [nack EXCEPT !.pc = "extract", !.index = k, !.item = NULL]
    BY <1>2 DEF NextIndex, k
  <2>3. /\ nack'.pc = "extract" /\ nack'.index = k /\ nack'.item = NULL /\ nack'.list = nack.list
        /\ nack'.valid = nack.valid
    BY <1>1, <2>2 DEF NackType
  <2>4. nack' \in NackType
    <3>1. nack' = [pc |-> "extract", list |-> nack.list, valid |-> nack.valid, index |-> k, item |-> NULL]
      BY <1>1, <2>2 DEF NackType
    <3>2. nack.list \in Seq(0 .. SeqSpace - 1) /\ nack.valid \in Seq(Int) /\ NULL \in Int
      BY <1>1 DEF NackType, NULL
    <3> QED BY <2>1, <3>1, <3>2, NackIs
  <2> QED BY <2>1, <2>3, <2>4 DEF NackInv
<1>3. CASE ~(nack.index < Len(nack.valid))
  <2>1. nack' = Idle
    BY <1>3 DEF NextIndex
  <2> QED BY <2>1, IdleIsTyped DEF Idle
<1> QED BY <1>2, <1>3

LEMMA NackArrivesKeeps ==
  ASSUME SenderInv, NEW pid \in 0 .. SeqSpace - 1, NEW blp \in Blps, NackArrives(pid, blp)
  PROVE  SenderInv'
<1> USE DEF SenderInv
<1> DEFINE list  == rtcpNackListGet(pid, blp)
           valid == rtpRollingBufferGetValidSeqIndexList(list)
<1>1. /\ nack.pc = "idle" /\ valid # <<>>
      /\ nack' = [Idle EXCEPT !.pc = "extract", !.list = list, !.valid = valid]
      /\ UNCHANGED <<pacerVars, mode, bufferVars, lastIndex, constructed, srtpLocked, app, freed, failures>>
  BY DEF NackArrives
<1>2. list \in Seq(0 .. SeqSpace - 1) /\ list \in Seq(Nat)
  <2>1. PICK n \in 0 .. BlpBits : blp \in [1 .. n -> 1 .. BlpBits]
    BY DEF Blps
  <2>2. SeqSpace \in Nat \ {0} /\ BlpBits \in Nat /\ n \in Nat
    BY SenderAssumption
  <2> DEFINE rest == [i \in DOMAIN blp |-> (pid + blp[i]) % SeqSpace]
  <2>3. ASSUME NEW i \in 1 .. n PROVE (pid + blp[i]) % SeqSpace \in 0 .. SeqSpace - 1
    <3>1. pid + blp[i] \in Int
      BY <2>1, <2>2
    <3> QED BY <2>2, <3>1, ModType
  <2>4. rest \in [1 .. n -> 0 .. SeqSpace - 1]
    BY <2>1, <2>3
  <2>5. rest \in [1 .. n -> Nat]
    BY <2>2, <2>4
  <2> HIDE DEF rest
  <2>6. <<pid>> \o rest \in Seq(0 .. SeqSpace - 1) /\ <<pid>> \o rest \in Seq(Nat)
    <3>1. rest \in Seq(0 .. SeqSpace - 1) /\ rest \in Seq(Nat)
      BY <2>2, <2>4, <2>5
    <3>2. <<pid>> \in Seq(0 .. SeqSpace - 1) /\ <<pid>> \in Seq(Nat)
      BY <2>2
    <3> QED BY <3>1, <3>2
  <2> QED BY <2>6 DEF rtcpNackListGet, rest
<1> HIDE DEF list
<1>4. headIndex \in Nat /\ tailIndex \in Nat /\ lastIndex \in Nat
  BY AddedType, SenderAssumption DEF AppInv, BufferInv
<1>5. valid \in Seq(Int) /\ Len(valid) <= Len(list) /\ Len(valid) <= validIndexListLen
  BY <1>2, <1>4, ValidListType
<1> HIDE DEF valid
<1>6. /\ nack'.pc = "extract" /\ nack'.index = 1 /\ nack'.item = NULL /\ nack'.list = list
      /\ nack'.valid = valid
  BY <1>1 DEF Idle
<1>7. nack' \in NackType
  <2>1. nack' = [pc |-> "extract", list |-> list, valid |-> valid, index |-> 1, item |-> NULL]
    BY <1>1 DEF Idle
  <2>2. NULL \in Int /\ 1 \in Nat
    BY DEF NULL
  <2> QED BY <1>2, <1>5, <2>1, <2>2, NackIs
<1>8. 1 \in 1 .. Len(valid)
  BY <1>1, <1>5
<1>9. NackInv'
  BY <1>5, <1>6, <1>7, <1>8 DEF NackInv
<1>10. PacerInv' /\ AppInv' /\ Added' = Added /\ Copies' = Copies
  BY <1>1, ListenerAlone DEF bufferVars
<1>11. BufferInv'
  BY <1>1, <1>10 DEF BufferInv, BufferSize, bufferVars
<1>12. nack.item = NULL
  BY <1>1 DEF NackInv
<1>13. OneOwner'
  BY <1>1, <1>6, <1>12 DEF OneOwner, bufferVars
<1> QED BY <1>9, <1>10, <1>11, <1>13

LEMMA ExtractKeeps ==
  ASSUME SenderInv, rollingBufferExtractData
  PROVE  SenderInv'
<1> USE DEF SenderInv
<1> DEFINE index == nack.valid[nack.index]
           item  == IF InRange(index) THEN dataBuffer[Slot(index)] ELSE NULL
<1>1. /\ nack.pc = "extract"
      /\ IF item = NULL
           THEN nack' = NextIndex /\ UNCHANGED dataBuffer
           ELSE /\ nack' = [nack EXCEPT !.pc = "send", !.item = item]
                /\ dataBuffer' = [dataBuffer EXCEPT ![Slot(index)] = NULL]
      /\ UNCHANGED <<pacerVars, mode, headIndex, tailIndex, lastIndex, constructed, srtpLocked, app,
                     freed, failures>>
  BY DEF rollingBufferExtractData
<1>2. PacerInv' /\ AppInv' /\ Added' = Added /\ Copies' = Copies /\ Added \in Nat
  BY <1>1, ListenerAlone
<1>3. nack \in NackType /\ nack.item = NULL /\ nack.index \in 1 .. Len(nack.valid)
  BY <1>1 DEF NackInv
<1>4. index \in Int
  BY <1>3 DEF NackType
<1>5. /\ headIndex \in Nat /\ tailIndex \in Nat /\ freed \subseteq Copies
      /\ dataBuffer \in [Slots -> Copies \cup {NULL}]
  BY <1>2 DEF BufferInv
<1>6. Owned(dataBuffer, NULL, freed, headIndex)
  BY <1>3, <1>5, OwnerForm
<1>7. InRange(index) => index \in Nat /\ index < headIndex
  BY <1>4, <1>5 DEF InRange
<1>8. item # NULL => InRange(index) /\ item = dataBuffer[Slot(index)]
  OBVIOUS
<1> HIDE DEF index, item
<1>9. CASE item = NULL
  <2>1. nack' = NextIndex /\ UNCHANGED dataBuffer
    BY <1>1, <1>9
  <2>2. NackInv' /\ nack'.item = NULL
    BY <1>1, <2>1, NextIndexKeeps
  <2>3. BufferInv'
    BY <1>1, <1>2, <2>1 DEF BufferInv, BufferSize
  <2>4. Owned(dataBuffer', nack'.item, freed', headIndex')
    BY <1>1, <1>6, <2>1, <2>2
  <2>5. OneOwner'
    BY <1>5, <2>1, <2>4 DEF OneOwner, Owned, Buffered, InHand
  <2> QED BY <1>2, <2>2, <2>3, <2>5
<1>10. CASE item # NULL
  <2> DEFINE t == Slot(index)
  <2>1. /\ nack' = [nack EXCEPT !.pc = "send", !.item = item]
        /\ dataBuffer' = [dataBuffer EXCEPT ![t] = NULL]
        /\ item = dataBuffer[t] /\ index \in Nat /\ index < headIndex
    BY <1>1, <1>7, <1>8, <1>10
  <2>2. t \in Slots
    BY <2>1, SlotType
  <2>3. item \in Copies /\ item \in Int
    BY <1>2, <1>5, <1>10, <2>1, <2>2 DEF Copies
  <2>4. /\ nack'.pc = "send" /\ nack'.item = item /\ nack'.list = nack.list
        /\ nack'.valid = nack.valid /\ nack'.index = nack.index
    BY <1>3, <2>1 DEF NackType
  <2>5. nack' \in NackType
    <3>1. nack' = [pc |-> "send", list |-> nack.list, valid |-> nack.valid, index |-> nack.index, item |-> item]
      BY <1>3, <2>1 DEF NackType
    <3>2. nack.list \in Seq(0 .. SeqSpace - 1) /\ nack.valid \in Seq(Int) /\ nack.index \in Nat
      BY <1>3 DEF NackType
    <3> QED BY <2>3, <3>1, <3>2, NackIs
  <2>6. NackInv'
    BY <1>2, <1>3, <1>10, <2>3, <2>4, <2>5 DEF NackInv
  <2>7. /\ dataBuffer' \in [Slots -> Copies \cup {NULL}]
        /\ \A slot \in Slots : slot >= headIndex => dataBuffer'[slot] = NULL
    BY <1>2, <2>1, SlotKeeps
  <2>8. BufferInv'
    BY <1>1, <1>2, <2>7 DEF BufferInv, BufferSize
  <2>9. Owned(dataBuffer', item, freed, headIndex)
    <3>1. DOMAIN dataBuffer = Slots /\ IsFiniteSet(freed)
      BY <1>2, <1>5, CopiesFinite
    <3>2. Owned([dataBuffer EXCEPT ![t] = NULL], dataBuffer[t], freed, headIndex)
      BY <1>5, <1>6, <1>10, <2>1, <2>2, <3>1, OwnedExtract
    <3> QED BY <2>1, <3>2
  <2>10. Owned(dataBuffer', nack'.item, freed', headIndex') /\ DOMAIN dataBuffer' = Slots
    BY <1>1, <2>4, <2>7, <2>9
  <2>11. OneOwner'
    BY <2>10 DEF OneOwner, Owned, Buffered, InHand
  <2> QED BY <1>2, <2>6, <2>8, <2>11
<1> QED BY <1>9, <1>10

LEMMA ResendKeeps ==
  ASSUME SenderInv, Resend
  PROVE  SenderInv'
<1> USE DEF SenderInv
<1>1. /\ nack.pc = "send" /\ nack' = [nack EXCEPT !.pc = "putback"]
      /\ UNCHANGED <<pacerVars, mode, bufferVars, lastIndex, constructed, srtpLocked, app, freed, failures>>
  BY DEF Resend
<1>2. PacerInv' /\ AppInv' /\ Added' = Added /\ Copies' = Copies
  BY <1>1, ListenerAlone DEF bufferVars
<1>3. nack \in NackType
  BY DEF NackInv
<1>4. /\ nack'.pc = "putback" /\ nack'.item = nack.item /\ nack'.list = nack.list
      /\ nack'.valid = nack.valid /\ nack'.index = nack.index
  BY <1>1, <1>3 DEF NackType
<1>5. nack' \in NackType
  BY <1>1, <1>3 DEF NackType
<1>6. NackInv'
  BY <1>1, <1>2, <1>4, <1>5 DEF NackInv
<1>7. BufferInv'
  BY <1>1, <1>2 DEF BufferInv, BufferSize, bufferVars
<1>8. OneOwner'
  BY <1>1, <1>4 DEF OneOwner, bufferVars
<1> QED BY <1>2, <1>6, <1>7, <1>8

\* What the listener thread holds.
LEMMA HeldPacket ==
  ASSUME SenderInv, nack.pc \in {"send", "putback"}
  PROVE  /\ nack.item \in Copies /\ nack.item # NULL
         /\ headIndex \in Nat /\ tailIndex \in Nat /\ freed \subseteq Copies /\ IsFiniteSet(freed)
         /\ dataBuffer \in [Slots -> Copies \cup {NULL}] /\ DOMAIN dataBuffer = Slots
         /\ Owned(dataBuffer, nack.item, freed, headIndex)
<1> USE DEF SenderInv
<1>1. Added \in Nat
  BY AddedType, SenderAssumption DEF AppInv
<1>2. nack.item \in Copies /\ nack.item # NULL
  BY DEF NackInv
<1>3. /\ headIndex \in Nat /\ tailIndex \in Nat /\ freed \subseteq Copies
      /\ dataBuffer \in [Slots -> Copies \cup {NULL}]
  BY <1>1 DEF BufferInv
<1>4. DOMAIN dataBuffer = Slots /\ IsFiniteSet(freed)
  BY <1>1, <1>3, CopiesFinite
<1>5. Owned(dataBuffer, nack.item, freed, headIndex)
  BY <1>4, OwnerForm
<1> QED BY <1>2, <1>3, <1>4, <1>5

LEMMA GiveUpKeeps ==
  ASSUME SenderInv, GiveUp
  PROVE  SenderInv'
<1> USE DEF SenderInv
<1>1. /\ nack.pc = "send" /\ freed' = freed \cup {nack.item} /\ nack' = Idle
      /\ UNCHANGED <<pacerVars, mode, bufferVars, lastIndex, constructed, srtpLocked, app>>
  BY DEF GiveUp
<1>2. PacerInv' /\ AppInv' /\ Added' = Added /\ Copies' = Copies
  BY <1>1, ListenerAlone DEF bufferVars
<1>3. NackInv' /\ nack'.item = NULL
  BY <1>1, IdleIsTyped
<1>4. /\ nack.item \in Copies /\ nack.item # NULL /\ headIndex \in Nat
      /\ freed \subseteq Copies /\ IsFiniteSet(freed) /\ DOMAIN dataBuffer = Slots
      /\ Owned(dataBuffer, nack.item, freed, headIndex)
  BY <1>1, HeldPacket
<1>5. BufferInv'
  BY <1>1, <1>2, <1>4 DEF BufferInv, BufferSize, bufferVars
<1>6. Owned(dataBuffer, NULL, freed \cup {nack.item}, headIndex)
  BY <1>4, OwnedFree
<1>7. Owned(dataBuffer', nack'.item, freed', headIndex') /\ DOMAIN dataBuffer' = Slots
  BY <1>1, <1>3, <1>4, <1>6 DEF bufferVars
<1>8. OneOwner'
  BY <1>7 DEF OneOwner, Owned, Buffered, InHand
<1> QED BY <1>2, <1>3, <1>5, <1>8

LEMMA ElementOf ==
  ASSUME NEW D, NEW s \in Seq(D), NEW i \in 1 .. Len(s)
  PROVE  s[i] \in D
OBVIOUS

LEMMA PutBackKeeps ==
  ASSUME SenderInv, PutBack
  PROVE  SenderInv'
<1> USE DEF SenderInv
<1> DEFINE index == nack.list[nack.index]
           p == nack.item
           t == Slot(index)
<1>1. /\ nack.pc = "putback" /\ rollingBufferInsertData(index, p) /\ nack' = NextIndex
      /\ UNCHANGED <<pacerVars, mode, lastIndex, constructed, srtpLocked, app, failures>>
  BY DEF PutBack
<1>2. UNCHANGED <<headIndex, tailIndex>>
  BY <1>1 DEF rollingBufferInsertData
<1>3. PacerInv' /\ AppInv' /\ Added' = Added /\ Copies' = Copies /\ Added \in Nat
  BY <1>1, <1>2, ListenerAlone
<1>4. NackInv' /\ nack'.item = NULL
  BY <1>1, NextIndexKeeps
<1>5. index \in Nat
  <2>1. /\ nack.list \in Seq(0 .. SeqSpace - 1) /\ nack.valid \in Seq(Int) /\ nack.index \in 1 .. Len(nack.valid)
        /\ Len(nack.valid) <= Len(nack.list)
    BY <1>1 DEF NackInv, NackType
  <2>2. nack.index \in 1 .. Len(nack.list)
    BY <2>1
  <2>3. index \in 0 .. SeqSpace - 1
    BY <2>1, <2>2, ElementOf
  <2> QED BY <2>3, SenderAssumption
<1>6. /\ p \in Copies /\ p # NULL /\ headIndex \in Nat /\ tailIndex \in Nat
      /\ freed \subseteq Copies /\ IsFiniteSet(freed)
      /\ dataBuffer \in [Slots -> Copies \cup {NULL}] /\ DOMAIN dataBuffer = Slots
      /\ Owned(dataBuffer, p, freed, headIndex)
  BY <1>1, HeldPacket
<1>7. t \in Slots
  BY <1>5, SlotType
<1> HIDE DEF index, p, t
<1>8. CASE InRange(index)
  <2>1. freed' = freed \cup InHand(dataBuffer[t]) /\ dataBuffer' = [dataBuffer EXCEPT ![t] = p]
    BY <1>1, <1>8 DEF rollingBufferInsertData, InHand, t
  <2>2. index < headIndex
    BY <1>8 DEF InRange
  <2>3. /\ dataBuffer' \in [Slots -> Copies \cup {NULL}]
        /\ \A slot \in Slots : slot >= headIndex => dataBuffer'[slot] = NULL
    <3>1. dataBuffer' = [dataBuffer EXCEPT ![Slot(index)] = p] /\ p \in Copies \cup {NULL}
      BY <1>6, <2>1 DEF t
    <3> QED BY <1>3, <1>5, <2>2, <3>1, SlotKeeps
  <2>4. freed' \subseteq Copies
    BY <1>6, <1>7, <2>1 DEF InHand
  <2>5. BufferInv'
    BY <1>1, <1>2, <1>3, <2>3, <2>4 DEF BufferInv, BufferSize
  <2>6. Owned(dataBuffer', NULL, freed', headIndex + 0)
    <3>1. Changed(dataBuffer', dataBuffer, t, p)
      BY <1>6, <1>7, <2>1 DEF Changed
    <3>2. ItsTurn(p, dataBuffer, p, freed, NULL, 0)
      BY DEF ItsTurn
    <3>3. Owned(dataBuffer', NULL, freed \cup InHand(dataBuffer[t]), headIndex + 0)
      BY <1>6, <1>7, <3>1, <3>2, OwnedReplace
    <3> QED BY <2>1, <3>3
  <2>7. Owned(dataBuffer', nack'.item, freed', headIndex') /\ DOMAIN dataBuffer' = Slots
    <3>1. headIndex + 0 = headIndex
      BY <1>6
    <3> QED BY <1>2, <1>4, <2>3, <2>6, <3>1
  <2>8. OneOwner'
    BY <2>7 DEF OneOwner, Owned, Buffered, InHand
  <2> QED BY <1>3, <1>4, <2>5, <2>8
<1>9. CASE ~InRange(index)
  <2>1. freed' = freed \cup {p} /\ dataBuffer' = dataBuffer
    BY <1>1, <1>9 DEF rollingBufferInsertData
  <2>2. BufferInv'
    BY <1>1, <1>2, <1>3, <1>6, <2>1 DEF BufferInv, BufferSize
  <2>3. Owned(dataBuffer, NULL, freed \cup {p}, headIndex)
    BY <1>6, OwnedFree
  <2>4. Owned(dataBuffer', nack'.item, freed', headIndex') /\ DOMAIN dataBuffer' = Slots
    BY <1>2, <1>4, <1>6, <2>1, <2>3
  <2>5. OneOwner'
    BY <2>4 DEF OneOwner, Owned, Buffered, InHand
  <2> QED BY <1>3, <1>4, <2>2, <2>5
<1> QED BY <1>8, <1>9

LEMMA PacerStepKeeps ==
  ASSUME SenderInv, PacerStep
  PROVE  SenderInv'
<1> USE DEF SenderInv
<1>1. UNCHANGED senderVars
  BY DEF PacerStep
<1>2. PacerInv'
  <2>1. CASE PacerTick
    BY <2>1, TickKeeps
  <2>2. CASE pacerTimerCallback
    BY <2>2, DrainKeeps DEF pacerTimerCallback
  <2>3. CASE pacerSetTargetBitrate \/ pacerSetMaxQueueTime
    BY <2>3, RatesKeep
  <2> QED BY <2>1, <2>2, <2>3 DEF PacerStep
<1>3. UNCHANGED <<headIndex, tailIndex, dataBuffer, lastIndex, constructed, srtpLocked, app, nack, freed>>
  BY <1>1 DEF senderVars, bufferVars
<1>4. AppInv'
  BY <1>3 DEF AppInv
<1>5. Added' = Added
  BY <1>3 DEF Added
<1>6. Copies' = Copies
  BY <1>5 DEF Copies
<1>7. BufferInv'
  BY <1>3, <1>5, <1>6 DEF BufferInv, BufferSize
<1>8. NackInv'
  BY <1>3, <1>6 DEF NackInv
<1>9. OneOwner'
  BY <1>3 DEF OneOwner
<1> QED BY <1>2, <1>4, <1>7, <1>8, <1>9

-----------------------------------------------------------------------------
(* The theorems                                                            *)

LEMMA SenderSteps == SenderInv /\ [Next]_vars => SenderInv'
<1> SUFFICES ASSUME SenderInv, [Next]_vars PROVE SenderInv'
  OBVIOUS
<1>1. ASSUME NEW n \in 1 .. MaxFrame, WriteFrame(n) PROVE SenderInv'
  BY <1>1, WriteFrameKeeps
<1>2. CASE AddRtpPacket
  BY <1>2, AddRtpPacketKeeps
<1>3. CASE NoteLastIndex
  BY <1>3, NoteLastIndexKeeps
<1>4. ASSUME NEW size \in Sizes, SendRtpPacket(size) PROVE SenderInv'
  BY <1>4, SendRtpPacketKeeps
<1>5. CASE EnqueueFrame
  BY <1>5, EnqueueFrameKeeps
<1>6. CASE BreakOffFrame
  BY <1>6, BreakOffFrameKeeps
<1>7. ASSUME NEW pid \in 0 .. SeqSpace - 1, NEW blp \in Blps, NackArrives(pid, blp) PROVE SenderInv'
  BY <1>7, NackArrivesKeeps
<1>8. CASE rollingBufferExtractData
  BY <1>8, ExtractKeeps
<1>9. CASE Resend
  BY <1>9, ResendKeeps
<1>10. CASE PutBack
  BY <1>10, PutBackKeeps
<1>11. CASE GiveUp
  BY <1>11, GiveUpKeeps
<1>12. CASE PacerStep
  BY <1>12, PacerStepKeeps
<1>13. CASE UNCHANGED vars
  <2>1. UNCHANGED pacerVars /\ UNCHANGED senderVars
    BY <1>13 DEF vars
  <2>2. UNCHANGED <<headIndex, tailIndex, dataBuffer, lastIndex, constructed, srtpLocked, app, nack, freed>>
    BY <2>1 DEF senderVars, bufferVars
  <2>3. PacerInv' /\ AppInv' /\ Added' = Added /\ Copies' = Copies
    BY <2>1, <2>2, ListenerAlone
  <2>4. BufferInv'
    BY <2>2, <2>3 DEF SenderInv, BufferInv, BufferSize
  <2>5. NackInv' /\ OneOwner'
    BY <2>2, <2>3 DEF SenderInv, NackInv, OneOwner
  <2> QED BY <2>3, <2>4, <2>5 DEF SenderInv
<1> QED BY <1>1, <1>2, <1>3, <1>4, <1>5, <1>6, <1>7, <1>8, <1>9, <1>10, <1>11, <1>12, <1>13
        DEF Next, AppStep, NackStep

LEMMA SenderAlways == Spec => []SenderInv
BY SenderStarts, SenderSteps, PTL DEF Spec

LEMMA TypeFollows == SenderInv => TypeOK
<1> SUFFICES ASSUME SenderInv PROVE TypeOK
  OBVIOUS
<1> USE DEF SenderInv
<1>1. Added \in 0 .. constructed /\ constructed \in 0 .. MaxPackets /\ MaxPackets \in Nat
  BY AddedType, SenderAssumption DEF AppInv
<1>2. Copies \subseteq Packets
  BY <1>1 DEF Copies, Packets
<1>3. PacerTypeOK
  <2>1. packetQueue \in Seq(PacedPacket) /\ DOMAIN packetQueue = 1 .. Len(packetQueue) /\ Len(packetQueue) \in Nat
    BY DEF PacerInv
  <2>2. \A i \in DOMAIN packetQueue : packetQueue[i].size \in Sizes /\ packetQueue[i].age \in 0 .. Max(QueueTimes)
    BY <2>1, PacketOf
  <2>3. queueSize \in Nat /\ queueBytes \in Nat
    BY <2>1, SizesType DEF PacerInv, QueueAccounting
  <2> QED BY <2>2, <2>3 DEF PacerInv, PacerTypeOK
<1>4. /\ headIndex \in 0 .. MaxPackets /\ tailIndex \in 0 .. headIndex /\ BufferSize <= capacity
      /\ lastIndex \in Nat
  BY <1>1 DEF BufferInv
<1>5. dataBuffer \in [0 .. capacity - 1 -> Packets \cup {NULL}] /\ freed \subseteq Packets
  BY <1>2 DEF BufferInv, Slots
<1>6. /\ app.pc \in {"idle", "append", "index", "send", "enqueue"} /\ Len(app.frame) <= MaxFrame
      /\ srtpLocked \in BOOLEAN
  <2>1. app \in AppType /\ srtpLocked \in BOOLEAN
    BY DEF AppInv
  <2>2. app.pc \in {"idle", "append", "index", "send", "enqueue"} /\ app.next \in Nat /\ app.end \in Nat
        /\ app.frame \in Seq(PacedPacket) /\ Len(app.frame) \in Nat /\ app.next <= app.end
    BY <2>1 DEF AppType, AppInv
  <2>3. CASE app.pc = "idle"
    <3>1. Len(app.frame) = 0
      BY <2>3 DEF AppInv
    <3> QED BY <2>1, <2>2, <3>1, SenderAssumption
  <2>4. CASE app.pc # "idle"
    <3>1. Len(app.frame) + (app.end - app.next) <= MaxFrame
      BY <2>4 DEF AppInv
    <3> QED BY <2>1, <2>2, <3>1, SenderAssumption
  <2> QED BY <2>3, <2>4
<1>7. nack.pc \in {"idle", "extract", "send", "putback"} /\ nack.item \in Packets \cup {NULL}
  BY <1>2 DEF NackInv, NackType
<1>8. Len(nack.valid) <= Min({Len(nack.list), validIndexListLen})
  <2> DEFINE a == Len(nack.valid)
             b == Len(nack.list)
  <2>1. a \in Nat /\ b \in Nat /\ a <= b /\ a <= validIndexListLen /\ validIndexListLen \in Nat
    BY SenderAssumption DEF NackInv, NackType
  <2> HIDE DEF a, b
  <2>2. a <= Min({b, validIndexListLen})
    BY <2>1, MinOfTwo
  <2> QED BY <2>2 DEF a, b
<1> QED BY <1>1, <1>3, <1>4, <1>5, <1>6, <1>7, <1>8 DEF TypeOK

\* The variables of the media send path keep their types, and every list, queue
\* and window its bound, whatever the capacities, rates and sizes.
THEOREM TypeCorrect == Spec => []TypeOK
BY SenderAlways, TypeFollows, PTL

\* No packet is lost track of: each copy that entered the rolling buffer has
\* one owner however the threads interleave, and the pacer's counters say what
\* its queue holds.
THEOREM NoPacketLost == Spec => []PacketsAccounted
<1>1. SenderInv => PacketsAccounted
  BY DEF SenderInv, PacerInv, PacketsAccounted
<1> QED BY <1>1, SenderAlways, PTL

\* The look-up of sequence numbers is exact for every buffer smaller than the
\* space of sequence numbers, across their wrap-around.
THEOREM LookupCorrect == Spec => []LookupExact
<1>1. ASSUME SenderInv PROVE LookupExact
  <2>1. /\ headIndex \in Nat /\ tailIndex \in 0 .. headIndex /\ BufferSize <= capacity /\ lastIndex \in Nat
    BY <1>1, AddedType, SenderAssumption DEF SenderInv, AppInv, BufferInv
  <2> QED BY <2>1, LookupIsExact
<1> QED BY <1>1, SenderAlways, PTL

\* Only a run of the timer sets the time elapsed back to 0.
LEMMA OnlyDrainResets ==
  ASSUME SenderInv, [Next]_vars, elapsedTimeKvs' = 0, elapsedTimeKvs > 0
  PROVE  pacerTimerCallback
<1>1. elapsedTimeKvs \in Nat /\ elapsedTimeKvs' # elapsedTimeKvs /\ elapsedTimeKvs' # elapsedTimeKvs + 1
  BY PacerAssumption DEF SenderInv, PacerInv
<1>2. ~PacerTick /\ ~pacerSetTargetBitrate /\ ~pacerSetMaxQueueTime
  BY <1>1 DEF PacerTick, pacerSetTargetBitrate, pacerSetMaxQueueTime
<1>3. ~UNCHANGED pacerVars
  BY <1>1 DEF pacerVars
<1>4. ~EnqueueFrame
  BY <1>1, <1>3 DEF EnqueueFrame, pacerEnqueueFrame
<1>5. /\ ~AddRtpPacket /\ ~NoteLastIndex /\ ~BreakOffFrame /\ ~GiveUp
      /\ ~rollingBufferExtractData /\ ~Resend /\ ~PutBack
  BY <1>3 DEF AddRtpPacket, NoteLastIndex, BreakOffFrame, GiveUp, rollingBufferExtractData, Resend, PutBack
<1>6. /\ \A n \in 1 .. MaxFrame : ~WriteFrame(n)
      /\ \A size \in Sizes : ~SendRtpPacket(size)
      /\ \A pid \in 0 .. SeqSpace - 1, blp \in Blps : ~NackArrives(pid, blp)
  BY <1>3 DEF WriteFrame, SendRtpPacket, NackArrives
<1>7. ~UNCHANGED vars
  BY <1>3 DEF vars
<1>8. PacerStep
  BY <1>4, <1>5, <1>6, <1>7 DEF Next, AppStep, NackStep
<1> QED BY <1>2, <1>8 DEF PacerStep

\* With a deadline set, a run of the timer leaves no packet in the queue that
\* has reached it, whatever the bitrate and however many sends fail.
THEOREM DeadlineKept == Spec => DeadlineHonoured
<1>1. ASSUME SenderInv, [Next]_vars,
             elapsedTimeKvs' = 0, elapsedTimeKvs > 0, maxQueueTimeKvs > 0
      PROVE  \A i \in DOMAIN packetQueue' : packetQueue'[i].age < maxQueueTimeKvs
  <2>1. pacerTimerCallback
    BY <1>1, OnlyDrainResets
  <2>2. PICK accepted \in SUBSET QueuedIds : pacerDrainQueue(accepted)
    BY <2>1 DEF pacerTimerCallback
  <2>3. PacerInv
    BY <1>1 DEF SenderInv
  <2> QED BY <1>1, <2>2, <2>3, DrainInTime
<1>2. SenderInv /\ [Next]_vars
        => [elapsedTimeKvs' = 0 /\ elapsedTimeKvs > 0 /\ maxQueueTimeKvs > 0 =>
              \A i \in DOMAIN packetQueue' : packetQueue'[i].age < maxQueueTimeKvs]_vars
  BY <1>1
<1> QED BY <1>2, SenderAlways, PTL DEF Spec, DeadlineHonoured
=============================================================================
