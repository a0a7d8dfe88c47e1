--------------------------- MODULE TextSyncProofs ---------------------------
(***************************************************************************)
(* What holds of TextSync for every model at first, every text, and any    *)
(* number of handlers, edits and commits.  First what the operators of     *)
(* Snapshots and TextDiff compute: a fold by the states it goes through, a *)
(* print by how its lines nest, a diff by the line each of its ops is of.  *)
(* Then the types, and one invariant for each property on top of them.     *)
(* Last, of Snapshots alone, that a diff of two snapshots replays.         *)
(***************************************************************************)
EXTENDS TextSyncInvariants, FiniteSetTheorems, SequenceTheorems, WellFoundedInduction, TLAPS

(* A nonempty set of naturals has a least element. *)
LEMMA NatLeast ==
    ASSUME NEW T, T \subseteq Nat, T # {}
    PROVE  \E n \in T : \A m \in T : n <= m
<1> DEFINE R == {p \in Nat \X Nat : p[1] < p[2]}
<1>1. IsWellFoundedOn(R, Nat)
  <2>1. R = OpToRel(<, Nat)
    BY DEF OpToRel
  <2> QED
    BY <2>1, NatLessThanWellFounded
<1>2. \A n, m \in Nat : <<n, m>> \in R <=> n < m
  OBVIOUS
<1> HIDE DEF R
<1>3. \E n \in T : \A m \in T : ~(<<m, n>> \in R)
  BY <1>1, WFMin
<1>4. PICK n \in T : \A m \in T : ~(<<m, n>> \in R)
  BY <1>3
<1>5. ASSUME NEW m \in T PROVE n <= m
  <2>1. n \in Nat /\ m \in Nat
    BY <1>4, <1>5
  <2>2. ~(m < n)
    BY <1>2, <1>4, <1>5, <2>1
  <2> QED
    BY <2>1, <2>2
<1> QED
  BY <1>5

(* The ranks of the n members of a set are 0, ..., n - 1, each once. *)
LEMMA Ranks ==
    ASSUME NEW S, S \subseteq Nat, IsFiniteSet(S)
    PROVE  /\ \A i \in S : Rank(S, i) \in 0..(Cardinality(S) - 1)
           /\ \A i, j \in S : i < j <=> Rank(S, i) < Rank(S, j)
           /\ \A n \in 0..(Cardinality(S) - 1) : \E i \in S : Rank(S, i) = n
<1> DEFINE N == Cardinality(S)
<1>0. N \in Nat
  BY FS_CardinalityType
<1>1. ASSUME NEW i \in S PROVE Rank(S, i) \in 0..(N - 1)
  <2> DEFINE B == {j \in S : j < i}
  <2>1. B \in SUBSET S /\ B # S
    <3>1. i \in Nat /\ i \notin B
      OBVIOUS
    <3> QED
      BY <3>1
  <2>2. IsFiniteSet(B) /\ Cardinality(B) <= N /\ Cardinality(B) # N
    BY <2>1, FS_Subset
  <2>3. Cardinality(B) \in Nat
    BY <2>2, FS_CardinalityType
  <2> QED
    BY <1>0, <2>2, <2>3 DEF Rank
<1>2. ASSUME NEW i \in S, NEW j \in S, i < j PROVE Rank(S, i) < Rank(S, j)
  <2> DEFINE B == {k \in S : k < i}
             C == {k \in S : k < j}
  <2>0. \A k \in S : k \in Nat
    OBVIOUS
  <2>1. B \in SUBSET C /\ i \in C /\ i \notin B /\ C \in SUBSET S
    <3>1. \A k \in S : k < i => k < j
      BY <1>2, <2>0
    <3>2. ~(i < i)
      BY <2>0
    <3>3. B \in SUBSET C
      BY <3>1
    <3> QED
      BY <1>2, <3>2, <3>3
  <2>2. IsFiniteSet(C)
    BY <2>1, FS_Subset
  <2>3. IsFiniteSet(B) /\ Cardinality(B) <= Cardinality(C) /\ Cardinality(B) # Cardinality(C)
    BY <2>1, <2>2, FS_Subset
  <2>4. Cardinality(B) \in Nat /\ Cardinality(C) \in Nat
    BY <2>2, <2>3, FS_CardinalityType
  <2> QED
    BY <2>3, <2>4 DEF Rank
<1>3. \A i, j \in S : i < j <=> Rank(S, i) < Rank(S, j)
  <2> SUFFICES ASSUME NEW i \in S, NEW j \in S, ~(i < j) PROVE ~(Rank(S, i) < Rank(S, j))
    BY <1>2
  <2>1. i \in Nat /\ j \in Nat /\ Rank(S, i) \in Nat /\ Rank(S, j) \in Nat
    BY <1>0, <1>1
  <2>2. CASE i = j
    BY <2>1, <2>2
  <2>3. CASE j < i
    BY <1>2, <2>1, <2>3
  <2> QED
    BY <2>1, <2>2, <2>3
<1>4. \A n \in 0..(N - 1) : \E i \in S : Rank(S, i) = n
  <2> DEFINE f == [i \in S |-> Rank(S, i)]
             T == 0..(N - 1)
  <2>1. \A i, j \in S : f[i] = f[j] => i = j
    <3> SUFFICES ASSUME NEW i \in S, NEW j \in S, i # j PROVE f[i] # f[j]
      OBVIOUS
    <3>1. i \in Nat /\ j \in Nat /\ Rank(S, i) \in Nat /\ Rank(S, j) \in Nat
      BY <1>0, <1>1
    <3>2. Rank(S, i) < Rank(S, j) \/ Rank(S, j) < Rank(S, i)
      BY <1>2, <3>1
    <3> QED
      BY <3>1, <3>2
  <2>2. f \in [S -> T]
    BY <1>1
  <2>3. f \in Injection(S, T)
    BY <2>1, <2>2 DEF Injection, IsInjective
  <2>4. IsFiniteSet(T) /\ Cardinality(T) = N
    <3>1. 0 \in Int /\ N - 1 \in Int
      BY <1>0
    <3>2. IsFiniteSet(0..(N - 1)) /\ Cardinality(0..(N - 1)) = IF 0 > N - 1 THEN 0 ELSE (N - 1) - 0 + 1
      BY <3>1, FS_Interval
    <3> QED
      BY <1>0, <3>2
  <2>5. f \in Surjection(S, T)
    BY <2>3, <2>4, FS_Injection
  <2>6. \A n \in T : \E i \in S : f[i] = n
    BY <2>5 DEF Surjection
  <2> QED
    BY <2>6
<1> QED
  BY <1>1, <1>3, <1>4

(* SortedIds(S) lists S, each member once and the smaller before the larger. *)
LEMMA SortedIs ==
    ASSUME NEW S, S \subseteq Nat, IsFiniteSet(S)
    PROVE  /\ SortedIds(S) \in Seq(S) /\ Len(SortedIds(S)) = Cardinality(S)
           /\ ToSet(SortedIds(S)) = S
           /\ \A m, n \in 1..Cardinality(S) : m < n <=> SortedIds(S)[m] < SortedIds(S)[n]
<1> DEFINE N == Cardinality(S)
           O == SortedIds(S)
<1>0. N \in Nat
  BY FS_CardinalityType
<1>1. ASSUME NEW n \in 1..N PROVE O[n] \in S /\ Rank(S, O[n]) = n - 1
  <2>1. \E i \in S : Rank(S, i) = n - 1
    <3>1. n - 1 \in 0..(N - 1)
      BY <1>0
    <3> QED
      BY <3>1, Ranks
  <2>2. O[n] = CHOOSE i \in S : Rank(S, i) = n - 1
    BY DEF SortedIds, Rank
  <2> QED
    BY <2>1, <2>2
<1>2. DOMAIN O = 1..N
  BY DEF SortedIds
<1>3. O \in [1..N -> S]
  <2> DEFINE At(n) == CHOOSE i \in S : Rank(S, i) = n - 1
  <2>1. O = [n \in 1..N |-> At(n)]
    BY DEF SortedIds, Rank
  <2> HIDE DEF O, N, At
  <2>2. \A n \in 1..N : O[n] = At(n)
    BY <2>1
  <2> QED
    BY <1>1, <2>1, <2>2
<1>4. O \in Seq(S) /\ Len(O) = N
  BY <1>0, <1>3, SeqDef
<1>5. \A m, n \in 1..N : m < n <=> O[m] < O[n]
  <2> SUFFICES ASSUME NEW m \in 1..N, NEW n \in 1..N PROVE m < n <=> O[m] < O[n]
    OBVIOUS
  <2>1. m \in Nat /\ n \in Nat /\ Rank(S, O[m]) = m - 1 /\ Rank(S, O[n]) = n - 1
    BY <1>0, <1>1
  <2>2. O[m] < O[n] <=> Rank(S, O[m]) < Rank(S, O[n])
    BY <1>1, Ranks
  <2> QED
    BY <2>1, <2>2
<1>6. ToSet(O) = S
  <2>1. ASSUME NEW i \in S PROVE i \in ToSet(O)
    <3> DEFINE n == Rank(S, i) + 1
    <3>1. Rank(S, i) \in 0..(N - 1)
      BY Ranks
    <3>2. n \in 1..N /\ n - 1 = Rank(S, i)
      BY <1>0, <3>1
    <3> HIDE DEF n
    <3>3. O[n] \in S /\ Rank(S, O[n]) = Rank(S, i)
      BY <1>1, <3>2
    <3>4. ~(O[n] < i) /\ ~(i < O[n])
      <4>1. O[n] \in S /\ i \in S /\ Rank(S, i) \in Nat
        BY <1>0, <3>1, <3>3
      <4>2. ~(Rank(S, i) < Rank(S, i))
        BY <4>1
      <4> QED
        BY <3>3, <4>1, <4>2, Ranks
    <3>5. O[n] \in Nat /\ i \in Nat
      BY <3>3
    <3>6. O[n] = i
      BY <3>4, <3>5
    <3> QED
      BY <1>2, <3>2, <3>6 DEF ToSet
  <2>2. ToSet(O) \subseteq S
    BY <1>1, <1>2 DEF ToSet
  <2> QED
    BY <2>1, <2>2
<1> HIDE DEF O, N
<1>7. O = SortedIds(S) /\ N = Cardinality(S)
  BY DEF O, N
<1> QED
  BY <1>4, <1>5, <1>6, <1>7

(* The lists joined so far, which FoldSeq's definition computes. *)
LEMMA JoinDefined ==
    ASSUME NEW ss, NEW c \in Nat
    PROVE  \E f : Joins(ss, f, c)
<1> DEFINE T == {n \in 0..c : ~ \E f : Joins(ss, f, n)}
<1> SUFFICES ASSUME T # {} PROVE FALSE
  OBVIOUS
<1>0. T \subseteq Nat
  OBVIOUS
<1> HIDE DEF T
<1>1. PICK n \in T : \A m \in T : n <= m
  BY <1>0, NatLeast
<1>2. n \in 0..c /\ ~ \E f : Joins(ss, f, n)
  BY DEF T
<1>3. n # 0
  <2>1. Joins(ss, [i \in 1..0 |-> << >>], 0)
    BY DEF Joins
  <2> QED
    BY <1>2, <2>1
<1>4. PICK g : Joins(ss, g, n - 1)
  <2>1. n - 1 \in 0..c /\ ~(n <= n - 1)
    BY <1>2, <1>3
  <2> QED
    BY <1>1, <2>1 DEF T
<1> DEFINE h == [i \in 1..n |-> IF i # n THEN g[i] ELSE IF n = 1 THEN ss[n] ELSE g[n - 1] \o ss[n]]
<1>5. Joins(ss, h, n)
  <2> SUFFICES ASSUME NEW i \in 1..n
               PROVE  h[i] = IF i = 1 THEN ss[i] ELSE h[i - 1] \o ss[i]
    BY DEF Joins
  <2>0. n \in Nat /\ i \in Nat
    BY <1>2
  <2>1. CASE i = n /\ i = 1
    BY <2>1
  <2>2. CASE i = n /\ i # 1
    <3>1. i - 1 \in 1..n /\ i - 1 # n
      BY <2>0, <2>2
    <3>2. h[i - 1] = g[n - 1]
      BY <2>2, <3>1
    <3> QED
      BY <2>2, <3>2
  <2>3. CASE i # n
    <3>1. i \in 1..(n - 1)
      BY <2>0, <2>3
    <3>2. h[i] = g[i] /\ g[i] = IF i = 1 THEN ss[i] ELSE g[i - 1] \o ss[i]
      BY <1>4, <2>3, <3>1 DEF Joins
    <3>3. i # 1 => i - 1 \in 1..n /\ i - 1 # n
      BY <2>0, <3>1
    <3>4. i # 1 => h[i - 1] = g[i - 1]
      BY <3>3
    <3> QED
      BY <3>2, <3>4
  <2> QED
    BY <2>1, <2>2, <2>3
<1> QED
  BY <1>2, <1>5

(* One more list.                                                            *)
LEMMA PlacesOn ==
    ASSUME NEW S, NEW ss, NEW f \in Seq(S), NEW n \in Nat, ss[n + 1] \in Seq(S),
           NEW w, Places(ss, f, n, w)
    PROVE  \E v : Places(ss, f \o ss[n + 1], n + 1, v)
<1> DEFINE g == ss[n + 1]
           h == f \o g
           v == [k \in DOMAIN h |-> IF k <= Len(f) THEN w[k] ELSE <<n + 1, k - Len(f)>>]
<1>1. /\ Len(f) \in Nat /\ DOMAIN f = 1..Len(f) /\ Len(g) \in Nat /\ DOMAIN g = 1..Len(g)
      /\ DOMAIN h = 1..(Len(f) + Len(g))
      /\ \A k \in DOMAIN h : h[k] = IF k <= Len(f) THEN f[k] ELSE g[k - Len(f)]
  <2>1. g \in Seq(S)
    OBVIOUS
  <2> HIDE DEF g
  <2> QED
    BY <2>1, LenProperties, ConcatProperties
<1>2. /\ w \in [1..Len(f) -> Nat \X Nat]
      /\ \A k \in 1..Len(f) : /\ w[k][1] \in 1..n /\ w[k][2] \in DOMAIN ss[w[k][1]]
                              /\ f[k] = ss[w[k][1]][w[k][2]]
      /\ \A k, l \in 1..Len(f) : k < l => w[k][1] < w[l][1] \/ (w[k][1] = w[l][1] /\ w[k][2] < w[l][2])
      /\ \A m \in 1..n : \A j \in DOMAIN ss[m] : \E k \in 1..Len(f) : w[k] = <<m, j>>
  BY <1>1 DEF Places
<1>3. DOMAIN v = DOMAIN h
  OBVIOUS
<1>4. \A k \in DOMAIN h : v[k] = IF k <= Len(f) THEN w[k] ELSE <<n + 1, k - Len(f)>>
  OBVIOUS
<1>5. \A k \in DOMAIN h : k \in Nat /\ (k <= Len(f) => k \in 1..Len(f)) /\ (~(k <= Len(f)) => k - Len(f) \in 1..Len(g))
  BY <1>1
<1> HIDE DEF v, h
<1>6. ASSUME NEW k \in DOMAIN h
      PROVE  /\ v[k] \in Nat \X Nat
             /\ v[k][1] \in 1..(n + 1) /\ v[k][2] \in DOMAIN ss[v[k][1]] /\ h[k] = ss[v[k][1]][v[k][2]]
  <2>1. CASE k <= Len(f)
    <3>1. v[k] = w[k] /\ h[k] = f[k] /\ k \in 1..Len(f)
      BY <1>1, <1>4, <1>5, <2>1
    <3>2. v[k] \in Nat \X Nat /\ v[k][1] \in 1..n
      BY <1>2, <3>1
    <3> QED
      BY <1>2, <3>1, <3>2
  <2>2. CASE ~(k <= Len(f))
    <3>1. v[k] = <<n + 1, k - Len(f)>> /\ h[k] = g[k - Len(f)] /\ k - Len(f) \in 1..Len(g)
      BY <1>1, <1>4, <1>5, <2>2
    <3> QED
      BY <1>1, <3>1
  <2> QED
    BY <2>1, <2>2
<1>7. ASSUME NEW k \in DOMAIN h, NEW l \in DOMAIN h, k < l
      PROVE  v[k][1] < v[l][1] \/ (v[k][1] = v[l][1] /\ v[k][2] < v[l][2])
  <2>0. k \in Nat /\ l \in Nat /\ Len(f) \in Nat
    BY <1>1, <1>5
  <2>1. CASE l <= Len(f)
    <3>1. k <= Len(f)
      BY <1>7, <2>0, <2>1
    <3>2. v[k] = w[k] /\ v[l] = w[l] /\ k \in 1..Len(f) /\ l \in 1..Len(f)
      BY <1>4, <1>5, <2>1, <3>1
    <3> QED
      BY <1>2, <1>7, <3>2
  <2>2. CASE ~(l <= Len(f)) /\ k <= Len(f)
    <3>1. v[l] = <<n + 1, l - Len(f)>> /\ v[k] = w[k] /\ k \in 1..Len(f)
      BY <1>4, <1>5, <2>2
    <3>2. w[k][1] \in 1..n
      BY <1>2, <3>1
    <3>3. v[l][1] = n + 1 /\ v[k][1] = w[k][1]
      BY <3>1
    <3> QED
      BY <3>2, <3>3
  <2>3. CASE ~(l <= Len(f)) /\ ~(k <= Len(f))
    <3>1. v[l] = <<n + 1, l - Len(f)>> /\ v[k] = <<n + 1, k - Len(f)>>
      BY <1>4, <2>3
    <3> QED
      BY <1>7, <2>0, <3>1
  <2> QED
    BY <2>1, <2>2, <2>3
<1>8. ASSUME NEW m \in 1..(n + 1), NEW j \in DOMAIN ss[m] PROVE \E k \in DOMAIN h : v[k] = <<m, j>>
  <2>1. CASE m \in 1..n
    <3>1. PICK k \in 1..Len(f) : w[k] = <<m, j>>
      BY <1>2, <2>1
    <3>2. k \in DOMAIN h /\ k <= Len(f)
      BY <1>1
    <3> QED
      BY <1>4, <3>1, <3>2
  <2>2. CASE m = n + 1
    <3>1. j \in 1..Len(g)
      BY <1>1, <2>2
    <3>2. Len(f) + j \in DOMAIN h /\ ~(Len(f) + j <= Len(f)) /\ (Len(f) + j) - Len(f) = j
      BY <1>1, <3>1
    <3> QED
      BY <1>4, <2>2, <3>2
  <2> QED
    BY <2>1, <2>2
<1>9. v \in [DOMAIN h -> Nat \X Nat]
  <2>1. v = [k \in DOMAIN h |-> v[k]]
    BY DEF v
  <2> QED
    BY <1>6, <2>1
<1>10. Places(ss, h, n + 1, v)
  BY <1>6, <1>7, <1>8, <1>9 DEF Places
<1> QED
  BY <1>10 DEF h

(* A list of lists in a row.                                                 *)
LEMMA FlattenIs ==
    ASSUME NEW S, NEW ss \in Seq(Seq(S))
    PROVE  /\ FlattenSeq(ss) \in Seq(S)
           /\ \E w : Places(ss, FlattenSeq(ss), Len(ss), w)
<1> DEFINE c == Len(ss)
<1>0. c \in Nat /\ DOMAIN ss = 1..c /\ \A k \in 1..c : ss[k] \in Seq(S)
  BY ElementOfSeq, LenProperties
<1>1. CASE c = 0
  <2>1. FlattenSeq(ss) = << >> /\ DOMAIN ss = {} /\ ss = << >>
    BY <1>0, <1>1, EmptySeq DEF FlattenSeq
  <2>2. DOMAIN << >> = {} /\ << >> \in Seq(S)
    BY EmptySeq
  <2>3. Places(ss, << >>, 0, [k \in {} |-> <<0, 0>>])
    <3>1. [k \in {} |-> <<0, 0>>] \in [DOMAIN << >> -> Nat \X Nat]
      BY <2>2
    <3> QED
      BY <2>2, <3>1 DEF Places
  <2> QED
    BY <1>1, <2>1, <2>2, <2>3
<1>2. CASE c # 0
  <2> DEFINE f == CHOOSE f : Joins(ss, f, c)
  <2>1. Joins(ss, f, c)
    BY <1>0, JoinDefined
  <2>2. FlattenSeq(ss) = f[c]
    BY <1>0, <1>2 DEF FlattenSeq, Joins
  <2> HIDE DEF f
  <2>3. \A i \in 1..c : f[i] = IF i = 1 THEN ss[i] ELSE f[i - 1] \o ss[i]
    BY <2>1 DEF Joins
  <2> DEFINE Good(n) == f[n] \in Seq(S) /\ \E w : Places(ss, f[n], n, w)
             T == {n \in 1..c : ~Good(n)}
  <2>4. T = {}
    <3> SUFFICES ASSUME T # {} PROVE FALSE
      OBVIOUS
    <3>0. T \subseteq Nat
      BY <1>0
    <3> HIDE DEF T
    <3>1. PICK n \in T : \A m \in T : n <= m
      BY <3>0, NatLeast
    <3>2. n \in 1..c /\ ~Good(n) /\ n \in Nat
      BY <3>0 DEF T
    <3>3. n # 1
      <4> SUFFICES ASSUME n = 1 PROVE Good(1)
        BY <3>2
      <4>1. f[1] = ss[1] /\ ss[1] \in Seq(S) /\ 1..1 = {1}
        BY <1>0, <2>3, <3>2
      <4>2. Places(ss, ss[1], 1, [k \in DOMAIN ss[1] |-> <<1, k>>])
        <5> DEFINE g == ss[1]
                   w == [k \in DOMAIN g |-> <<1, k>>]
        <5>1. DOMAIN g \subseteq Nat /\ DOMAIN g = 1..Len(g) /\ Len(g) \in Nat
          BY <4>1, LenProperties
        <5>2. \A k \in DOMAIN g : w[k] = <<1, k>> /\ k \in Nat
          BY <5>1
        <5>3. w \in [DOMAIN g -> Nat \X Nat]
          BY <5>2
        <5> HIDE DEF w
        <5>4. \A k \in DOMAIN g : w[k][1] = 1 /\ w[k][2] = k
          BY <5>2
        <5>5. Places(ss, g, 1, w)
          BY <4>1, <5>2, <5>3, <5>4 DEF Places
        <5> QED
          BY <5>5 DEF w
      <4> QED
        BY <4>1, <4>2
    <3>4. Good(n - 1) /\ n - 1 \in Nat
      <4>1. n - 1 \in 1..c /\ ~(n <= n - 1) /\ n - 1 \in Nat
        BY <1>0, <3>2, <3>3
      <4>2. n - 1 \notin T
        BY <3>1, <4>1
      <4> HIDE DEF Good
      <4> QED
        BY <4>1, <4>2 DEF T
    <3>5. f[n] = f[n - 1] \o ss[n] /\ ss[n] \in Seq(S)
      BY <1>0, <2>3, <3>2, <3>3
    <3>6. f[n] \in Seq(S)
      BY <3>4, <3>5, ConcatProperties
    <3>7. \E v : Places(ss, f[n], n, v)
      <4>1. PICK w : Places(ss, f[n - 1], n - 1, w)
        BY <3>4
      <4>2. (n - 1) + 1 = n
        BY <3>2
      <4> QED
        BY <3>4, <3>5, <4>1, <4>2, PlacesOn
    <3> QED
      BY <3>2, <3>6, <3>7
  <2>5. c \in 1..c
    BY <1>0, <1>2
  <2> QED
    BY <2>2, <2>4, <2>5
<1> QED
  BY <1>1, <1>2

-----------------------------------------------------------------------------

(* The greatest of a set that a number bounds, if it is one of them. *)
LEMMA MaxIs ==
    ASSUME NEW n \in Nat, NEW s \in SUBSET (1..n), n \in s
    PROVE  Max(s) = n
<1>1. \A y \in s : n >= y /\ y \in Nat
  OBVIOUS
<1>2. \A x \in s : (\A y \in s : x >= y) => x = n
  BY <1>1
<1> QED
  BY <1>1, <1>2 DEF Max

(* The states a fold of ApplyGraphOp goes through. *)
LEMMA GraphOpSteps ==
    ASSUME NEW b, NEW q, NEW c \in Nat, DOMAIN q = 1..c
    PROVE  \E f : GraphOpRun(f, b, q, c)
<1> DEFINE Is(it, n) == it = [s \in SUBSET (1..n) |-> IF s = {} THEN b ELSE ApplyGraphOp(it[s \ {Max(s)}], q[Max(s)])]
           T == {n \in 0..c : ~ \E it : Is(it, n)}
<1>1. T = {}
  <2> SUFFICES ASSUME T # {} PROVE FALSE
    OBVIOUS
  <2>0. T \subseteq Nat
    OBVIOUS
  <2> HIDE DEF T
  <2>1. PICK n \in T : \A m \in T : n <= m
    BY <2>0, NatLeast
  <2>2. n \in 0..c /\ ~ \E it : Is(it, n)
    BY DEF T
  <2>3. n # 0
    <3> SUFFICES ASSUME n = 0 PROVE FALSE
      OBVIOUS
    <3>1. Is([s \in SUBSET (1..0) |-> b], 0)
      <4>1. \A s \in SUBSET (1..0) : s = {}
        OBVIOUS
      <4> QED
        BY <4>1
    <3> QED
      BY <2>2, <3>1
  <2>4. n - 1 \in Nat /\ n \in Nat /\ \E it : Is(it, n - 1)
    <3>1. n - 1 \in 0..c /\ ~(n <= n - 1) /\ n - 1 \in Nat /\ n \in Nat
      BY <2>2, <2>3
    <3>2. n - 1 \notin T
      BY <2>1, <3>1
    <3> HIDE DEF Is
    <3> QED
      BY <3>1, <3>2 DEF T
  <2>5. PICK g : Is(g, n - 1)
    BY <2>4
  <2> DEFINE h == [s \in SUBSET (1..n) |-> IF n \in s THEN ApplyGraphOp(g[s \ {n}], q[n]) ELSE g[s]]
  <2>6. \A s \in SUBSET (1..n) : n \notin s => s \in SUBSET (1..(n - 1))
    BY <2>4
  <2>7. \A s \in SUBSET (1..n) : h[s] = IF n \in s THEN ApplyGraphOp(g[s \ {n}], q[n]) ELSE g[s]
    OBVIOUS
  <2>8. \A s \in SUBSET (1..(n - 1)) : g[s] = IF s = {} THEN b ELSE ApplyGraphOp(g[s \ {Max(s)}], q[Max(s)])
    BY <2>5
  <2>9. h = [s \in SUBSET (1..n) |-> h[s]]
    OBVIOUS
  <2> HIDE DEF h
  <2>10. ASSUME NEW s \in SUBSET (1..n)
         PROVE  h[s] = IF s = {} THEN b ELSE ApplyGraphOp(h[s \ {Max(s)}], q[Max(s)])
    <3>1. s \ {Max(s)} \in SUBSET (1..n)
      OBVIOUS
    <3>2. CASE n \in s
      <4>1. Max(s) = n
        BY <2>4, <3>2, MaxIs
      <4>2. h[s \ {n}] = g[s \ {n}]
        BY <2>7, <3>1, <4>1
      <4> QED
        BY <2>7, <3>2, <4>1, <4>2
    <3>3. CASE n \notin s
      <4>1. h[s] = g[s] /\ h[s \ {Max(s)}] = g[s \ {Max(s)}]
        BY <2>7, <3>1, <3>3
      <4> QED
        BY <2>6, <2>8, <3>3, <4>1
    <3> QED
      BY <3>2, <3>3
  <2>11. Is(h, n)
    BY <2>9, <2>10
  <2> HIDE DEF Is
  <2> QED
    BY <2>2, <2>11
<1> DEFINE it == CHOOSE it : Is(it, c)
<1>2. Is(it, c)
  <2>1. c \in 0..c
    OBVIOUS
  <2> HIDE DEF Is
  <2>2. \E t : Is(t, c)
    BY <1>1, <2>1
  <2> QED
    BY <2>2
<1>3. GraphOpFold(b, q) = it[1..c]
  BY DEF GraphOpFold, FoldLeft, MapThenFoldSet
<1> HIDE DEF it, T
<1>4. \A s \in SUBSET (1..c) : it[s] = IF s = {} THEN b ELSE ApplyGraphOp(it[s \ {Max(s)}], q[Max(s)])
  BY <1>2
<1> DEFINE f == [k \in 0..c |-> it[1..k]]
<1>5. f[0] = b
  <2>1. 1..0 \in SUBSET (1..c) /\ 1..0 = {} /\ 0 \in 0..c
    OBVIOUS
  <2> QED
    BY <1>4, <2>1
<1>6. ASSUME NEW k \in 1..c PROVE f[k] = ApplyGraphOp(f[k - 1], q[k])
  <2>1. k \in 0..c /\ k - 1 \in 0..c /\ 1..k \in SUBSET (1..c) /\ k \in 1..k /\ k \in Nat
    OBVIOUS
  <2>2. Max(1..k) = k
    BY <2>1, MaxIs
  <2>3. (1..k) \ {k} = 1..(k - 1)
    BY <2>1
  <2>4. it[1..k] = ApplyGraphOp(it[1..(k - 1)], q[k])
    BY <1>4, <2>1, <2>2, <2>3
  <2>5. f[k] = it[1..k] /\ f[k - 1] = it[1..(k - 1)]
    BY <2>1
  <2> QED
    BY <2>4, <2>5
<1>7. GraphOpFold(b, q) = f[c]
  BY <1>3
<1> HIDE DEF f
<1>8. GraphOpRun(f, b, q, c)
  BY <1>5, <1>6, <1>7 DEF GraphOpRun
<1> QED
  BY <1>8

(* The states a fold of WriteOp goes through. *)
LEMMA WriteSteps ==
    ASSUME NEW b, NEW q, NEW c \in Nat, DOMAIN q = 1..c
    PROVE  \E f : WriteRun(f, b, q, c)
<1> DEFINE Is(it, n) == it = [s \in SUBSET (1..n) |-> IF s = {} THEN b ELSE WriteOp(it[s \ {Max(s)}], q[Max(s)])]
           T == {n \in 0..c : ~ \E it : Is(it, n)}
<1>1. T = {}
  <2> SUFFICES ASSUME T # {} PROVE FALSE
    OBVIOUS
  <2>0. T \subseteq Nat
    OBVIOUS
  <2> HIDE DEF T
  <2>1. PICK n \in T : \A m \in T : n <= m
    BY <2>0, NatLeast
  <2>2. n \in 0..c /\ ~ \E it : Is(it, n)
    BY DEF T
  <2>3. n # 0
    <3> SUFFICES ASSUME n = 0 PROVE FALSE
      OBVIOUS
    <3>1. Is([s \in SUBSET (1..0) |-> b], 0)
      <4>1. \A s \in SUBSET (1..0) : s = {}
        OBVIOUS
      <4> QED
        BY <4>1
    <3> QED
      BY <2>2, <3>1
  <2>4. n - 1 \in Nat /\ n \in Nat /\ \E it : Is(it, n - 1)
    <3>1. n - 1 \in 0..c /\ ~(n <= n - 1) /\ n - 1 \in Nat /\ n \in Nat
      BY <2>2, <2>3
    <3>2. n - 1 \notin T
      BY <2>1, <3>1
    <3> HIDE DEF Is
    <3> QED
      BY <3>1, <3>2 DEF T
  <2>5. PICK g : Is(g, n - 1)
    BY <2>4
  <2> DEFINE h == [s \in SUBSET (1..n) |-> IF n \in s THEN WriteOp(g[s \ {n}], q[n]) ELSE g[s]]
  <2>6. \A s \in SUBSET (1..n) : n \notin s => s \in SUBSET (1..(n - 1))
    BY <2>4
  <2>7. \A s \in SUBSET (1..n) : h[s] = IF n \in s THEN WriteOp(g[s \ {n}], q[n]) ELSE g[s]
    OBVIOUS
  <2>8. \A s \in SUBSET (1..(n - 1)) : g[s] = IF s = {} THEN b ELSE WriteOp(g[s \ {Max(s)}], q[Max(s)])
    BY <2>5
  <2>9. h = [s \in SUBSET (1..n) |-> h[s]]
    OBVIOUS
  <2> HIDE DEF h
  <2>10. ASSUME NEW s \in SUBSET (1..n)
         PROVE  h[s] = IF s = {} THEN b ELSE WriteOp(h[s \ {Max(s)}], q[Max(s)])
    <3>1. s \ {Max(s)} \in SUBSET (1..n)
      OBVIOUS
    <3>2. CASE n \in s
      <4>1. Max(s) = n
        BY <2>4, <3>2, MaxIs
      <4>2. h[s \ {n}] = g[s \ {n}]
        BY <2>7, <3>1, <4>1
      <4> QED
        BY <2>7, <3>2, <4>1, <4>2
    <3>3. CASE n \notin s
      <4>1. h[s] = g[s] /\ h[s \ {Max(s)}] = g[s \ {Max(s)}]
        BY <2>7, <3>1, <3>3
      <4> QED
        BY <2>6, <2>8, <3>3, <4>1
    <3> QED
      BY <3>2, <3>3
  <2>11. Is(h, n)
    BY <2>9, <2>10
  <2> HIDE DEF Is
  <2> QED
    BY <2>2, <2>11
<1> DEFINE it == CHOOSE it : Is(it, c)
<1>2. Is(it, c)
  <2>1. c \in 0..c
    OBVIOUS
  <2> HIDE DEF Is
  <2>2. \E t : Is(t, c)
    BY <1>1, <2>1
  <2> QED
    BY <2>2
<1>3. WriteFold(b, q) = it[1..c]
  BY DEF WriteFold, FoldLeft, MapThenFoldSet
<1> HIDE DEF it, T
<1>4. \A s \in SUBSET (1..c) : it[s] = IF s = {} THEN b ELSE WriteOp(it[s \ {Max(s)}], q[Max(s)])
  BY <1>2
<1> DEFINE f == [k \in 0..c |-> it[1..k]]
<1>5. f[0] = b
  <2>1. 1..0 \in SUBSET (1..c) /\ 1..0 = {} /\ 0 \in 0..c
    OBVIOUS
  <2> QED
    BY <1>4, <2>1
<1>6. ASSUME NEW k \in 1..c PROVE f[k] = WriteOp(f[k - 1], q[k])
  <2>1. k \in 0..c /\ k - 1 \in 0..c /\ 1..k \in SUBSET (1..c) /\ k \in 1..k /\ k \in Nat
    OBVIOUS
  <2>2. Max(1..k) = k
    BY <2>1, MaxIs
  <2>3. (1..k) \ {k} = 1..(k - 1)
    BY <2>1
  <2>4. it[1..k] = WriteOp(it[1..(k - 1)], q[k])
    BY <1>4, <2>1, <2>2, <2>3
  <2>5. f[k] = it[1..k] /\ f[k - 1] = it[1..(k - 1)]
    BY <2>1
  <2> QED
    BY <2>4, <2>5
<1>7. WriteFold(b, q) = f[c]
  BY <1>3
<1> HIDE DEF f
<1>8. WriteRun(f, b, q, c)
  BY <1>5, <1>6, <1>7 DEF WriteRun
<1> QED
  BY <1>8

(* The states a fold of CheckOp goes through. *)
LEMMA CheckSteps ==
    ASSUME NEW b, NEW q, NEW c \in Nat, DOMAIN q = 1..c
    PROVE  \E f : CheckRun(f, b, q, c)
<1> DEFINE Is(it, n) == it = [s \in SUBSET (1..n) |-> IF s = {} THEN b ELSE CheckOp(it[s \ {Max(s)}], q[Max(s)])]
           T == {n \in 0..c : ~ \E it : Is(it, n)}
<1>1. T = {}
  <2> SUFFICES ASSUME T # {} PROVE FALSE
    OBVIOUS
  <2>0. T \subseteq Nat
    OBVIOUS
  <2> HIDE DEF T
  <2>1. PICK n \in T : \A m \in T : n <= m
    BY <2>0, NatLeast
  <2>2. n \in 0..c /\ ~ \E it : Is(it, n)
    BY DEF T
  <2>3. n # 0
    <3> SUFFICES ASSUME n = 0 PROVE FALSE
      OBVIOUS
    <3>1. Is([s \in SUBSET (1..0) |-> b], 0)
      <4>1. \A s \in SUBSET (1..0) : s = {}
        OBVIOUS
      <4> QED
        BY <4>1
    <3> QED
      BY <2>2, <3>1
  <2>4. n - 1 \in Nat /\ n \in Nat /\ \E it : Is(it, n - 1)
    <3>1. n - 1 \in 0..c /\ ~(n <= n - 1) /\ n - 1 \in Nat /\ n \in Nat
      BY <2>2, <2>3
    <3>2. n - 1 \notin T
      BY <2>1, <3>1
    <3> HIDE DEF Is
    <3> QED
      BY <3>1, <3>2 DEF T
  <2>5. PICK g : Is(g, n - 1)
    BY <2>4
  <2> DEFINE h == [s \in SUBSET (1..n) |-> IF n \in s THEN CheckOp(g[s \ {n}], q[n]) ELSE g[s]]
  <2>6. \A s \in SUBSET (1..n) : n \notin s => s \in SUBSET (1..(n - 1))
    BY <2>4
  <2>7. \A s \in SUBSET (1..n) : h[s] = IF n \in s THEN CheckOp(g[s \ {n}], q[n]) ELSE g[s]
    OBVIOUS
  <2>8. \A s \in SUBSET (1..(n - 1)) : g[s] = IF s = {} THEN b ELSE CheckOp(g[s \ {Max(s)}], q[Max(s)])
    BY <2>5
  <2>9. h = [s \in SUBSET (1..n) |-> h[s]]
    OBVIOUS
  <2> HIDE DEF h
  <2>10. ASSUME NEW s \in SUBSET (1..n)
         PROVE  h[s] = IF s = {} THEN b ELSE CheckOp(h[s \ {Max(s)}], q[Max(s)])
    <3>1. s \ {Max(s)} \in SUBSET (1..n)
      OBVIOUS
    <3>2. CASE n \in s
      <4>1. Max(s) = n
        BY <2>4, <3>2, MaxIs
      <4>2. h[s \ {n}] = g[s \ {n}]
        BY <2>7, <3>1, <4>1
      <4> QED
        BY <2>7, <3>2, <4>1, <4>2
    <3>3. CASE n \notin s
      <4>1. h[s] = g[s] /\ h[s \ {Max(s)}] = g[s \ {Max(s)}]
        BY <2>7, <3>1, <3>3
      <4> QED
        BY <2>6, <2>8, <3>3, <4>1
    <3> QED
      BY <3>2, <3>3
  <2>11. Is(h, n)
    BY <2>9, <2>10
  <2> HIDE DEF Is
  <2> QED
    BY <2>2, <2>11
<1> DEFINE it == CHOOSE it : Is(it, c)
<1>2. Is(it, c)
  <2>1. c \in 0..c
    OBVIOUS
  <2> HIDE DEF Is
  <2>2. \E t : Is(t, c)
    BY <1>1, <2>1
  <2> QED
    BY <2>2
<1>3. CheckFold(b, q) = it[1..c]
  BY DEF CheckFold, FoldLeft, MapThenFoldSet
<1> HIDE DEF it, T
<1>4. \A s \in SUBSET (1..c) : it[s] = IF s = {} THEN b ELSE CheckOp(it[s \ {Max(s)}], q[Max(s)])
  BY <1>2
<1> DEFINE f == [k \in 0..c |-> it[1..k]]
<1>5. f[0] = b
  <2>1. 1..0 \in SUBSET (1..c) /\ 1..0 = {} /\ 0 \in 0..c
    OBVIOUS
  <2> QED
    BY <1>4, <2>1
<1>6. ASSUME NEW k \in 1..c PROVE f[k] = CheckOp(f[k - 1], q[k])
  <2>1. k \in 0..c /\ k - 1 \in 0..c /\ 1..k \in SUBSET (1..c) /\ k \in 1..k /\ k \in Nat
    OBVIOUS
  <2>2. Max(1..k) = k
    BY <2>1, MaxIs
  <2>3. (1..k) \ {k} = 1..(k - 1)
    BY <2>1
  <2>4. it[1..k] = CheckOp(it[1..(k - 1)], q[k])
    BY <1>4, <2>1, <2>2, <2>3
  <2>5. f[k] = it[1..k] /\ f[k - 1] = it[1..(k - 1)]
    BY <2>1
  <2> QED
    BY <2>4, <2>5
<1>7. CheckFold(b, q) = f[c]
  BY <1>3
<1> HIDE DEF f
<1>8. CheckRun(f, b, q, c)
  BY <1>5, <1>6, <1>7 DEF CheckRun
<1> QED
  BY <1>8

(* The states a fold of ApplyDiff goes through. *)
LEMMA DiffSteps ==
    ASSUME NEW b, NEW q, NEW c \in Nat, DOMAIN q = 1..c
    PROVE  \E f : DiffRun(f, b, q, c)
<1> DEFINE Is(it, n) == it = [s \in SUBSET (1..n) |-> IF s = {} THEN b ELSE ApplyDiff(it[s \ {Max(s)}], q[Max(s)])]
           T == {n \in 0..c : ~ \E it : Is(it, n)}
<1>1. T = {}
  <2> SUFFICES ASSUME T # {} PROVE FALSE
    OBVIOUS
  <2>0. T \subseteq Nat
    OBVIOUS
  <2> HIDE DEF T
  <2>1. PICK n \in T : \A m \in T : n <= m
    BY <2>0, NatLeast
  <2>2. n \in 0..c /\ ~ \E it : Is(it, n)
    BY DEF T
  <2>3. n # 0
    <3> SUFFICES ASSUME n = 0 PROVE FALSE
      OBVIOUS
    <3>1. Is([s \in SUBSET (1..0) |-> b], 0)
      <4>1. \A s \in SUBSET (1..0) : s = {}
        OBVIOUS
      <4> QED
        BY <4>1
    <3> QED
      BY <2>2, <3>1
  <2>4. n - 1 \in Nat /\ n \in Nat /\ \E it : Is(it, n - 1)
    <3>1. n - 1 \in 0..c /\ ~(n <= n - 1) /\ n - 1 \in Nat /\ n \in Nat
      BY <2>2, <2>3
    <3>2. n - 1 \notin T
      BY <2>1, <3>1
    <3> HIDE DEF Is
    <3> QED
      BY <3>1, <3>2 DEF T
  <2>5. PICK g : Is(g, n - 1)
    BY <2>4
  <2> DEFINE h == [s \in SUBSET (1..n) |-> IF n \in s THEN ApplyDiff(g[s \ {n}], q[n]) ELSE g[s]]
  <2>6. \A s \in SUBSET (1..n) : n \notin s => s \in SUBSET (1..(n - 1))
    BY <2>4
  <2>7. \A s \in SUBSET (1..n) : h[s] = IF n \in s THEN ApplyDiff(g[s \ {n}], q[n]) ELSE g[s]
    OBVIOUS
  <2>8. \A s \in SUBSET (1..(n - 1)) : g[s] = IF s = {} THEN b ELSE ApplyDiff(g[s \ {Max(s)}], q[Max(s)])
    BY <2>5
  <2>9. h = [s \in SUBSET (1..n) |-> h[s]]
    OBVIOUS
  <2> HIDE DEF h
  <2>10. ASSUME NEW s \in SUBSET (1..n)
         PROVE  h[s] = IF s = {} THEN b ELSE ApplyDiff(h[s \ {Max(s)}], q[Max(s)])
    <3>1. s \ {Max(s)} \in SUBSET (1..n)
      OBVIOUS
    <3>2. CASE n \in s
      <4>1. Max(s) = n
        BY <2>4, <3>2, MaxIs
      <4>2. h[s \ {n}] = g[s \ {n}]
        BY <2>7, <3>1, <4>1
      <4> QED
        BY <2>7, <3>2, <4>1, <4>2
    <3>3. CASE n \notin s
      <4>1. h[s] = g[s] /\ h[s \ {Max(s)}] = g[s \ {Max(s)}]
        BY <2>7, <3>1, <3>3
      <4> QED
        BY <2>6, <2>8, <3>3, <4>1
    <3> QED
      BY <3>2, <3>3
  <2>11. Is(h, n)
    BY <2>9, <2>10
  <2> HIDE DEF Is
  <2> QED
    BY <2>2, <2>11
<1> DEFINE it == CHOOSE it : Is(it, c)
<1>2. Is(it, c)
  <2>1. c \in 0..c
    OBVIOUS
  <2> HIDE DEF Is
  <2>2. \E t : Is(t, c)
    BY <1>1, <2>1
  <2> QED
    BY <2>2
<1>3. DiffFold(b, q) = it[1..c]
  BY DEF DiffFold, FoldLeft, MapThenFoldSet
<1> HIDE DEF it, T
<1>4. \A s \in SUBSET (1..c) : it[s] = IF s = {} THEN b ELSE ApplyDiff(it[s \ {Max(s)}], q[Max(s)])
  BY <1>2
<1> DEFINE f == [k \in 0..c |-> it[1..k]]
<1>5. f[0] = b
  <2>1. 1..0 \in SUBSET (1..c) /\ 1..0 = {} /\ 0 \in 0..c
    OBVIOUS
  <2> QED
    BY <1>4, <2>1
<1>6. ASSUME NEW k \in 1..c PROVE f[k] = ApplyDiff(f[k - 1], q[k])
  <2>1. k \in 0..c /\ k - 1 \in 0..c /\ 1..k \in SUBSET (1..c) /\ k \in 1..k /\ k \in Nat
    OBVIOUS
  <2>2. Max(1..k) = k
    BY <2>1, MaxIs
  <2>3. (1..k) \ {k} = 1..(k - 1)
    BY <2>1
  <2>4. it[1..k] = ApplyDiff(it[1..(k - 1)], q[k])
    BY <1>4, <2>1, <2>2, <2>3
  <2>5. f[k] = it[1..k] /\ f[k - 1] = it[1..(k - 1)]
    BY <2>1
  <2> QED
    BY <2>4, <2>5
<1>7. DiffFold(b, q) = f[c]
  BY <1>3
<1> HIDE DEF f
<1>8. DiffRun(f, b, q, c)
  BY <1>5, <1>6, <1>7 DEF DiffRun
<1> QED
  BY <1>8

-----------------------------------------------------------------------------

(* What SetName does. *)
LEMMA SetNameIs ==
    ASSUME NEW s, Snap(s), NEW i, NEW m
    PROVE  /\ Snap(SetName(s, i, m))
           /\ SetName(s, i, m).edges = s.edges
           /\ SetName(s, i, m).bodies = s.bodies
           /\ SetName(s, i, m).elements = Renamed(s.elements, i, m)
<1> DEFINE els == s.elements
<1>1. CASE i \in DOMAIN els
  <2>1. s = [elements |-> els, edges |-> s.edges, bodies |-> s.bodies]
    BY DEF Snap
  <2>2. SetName(s, i, m) = [s EXCEPT !.elements = [els EXCEPT ![i].name = m]]
    BY <1>1 DEF SetName
  <2> HIDE DEF els
  <2>3. SetName(s, i, m) = [elements |-> [els EXCEPT ![i].name = m], edges |-> s.edges, bodies |-> s.bodies]
    BY <2>1, <2>2
  <2>4. s.elements = els
    BY DEF els
  <2>5. Renamed(els, i, m) = [els EXCEPT ![i].name = m]
    BY <1>1 DEF Renamed
  <2> QED
    BY <2>3, <2>4, <2>5 DEF Snap
<1>2. CASE i \notin DOMAIN els
  BY <1>2 DEF SetName, Snap, Renamed
<1> QED
  BY <1>1, <1>2

(* What AddElement does. *)
LEMMA AddElementIs ==
    ASSUME NEW s, Snap(s), NEW i, NEW k, NEW m
    PROVE  /\ Snap(AddElement(s, i, k, m))
           /\ AddElement(s, i, k, m).edges = s.edges
           /\ AddElement(s, i, k, m).bodies = s.bodies
           /\ AddElement(s, i, k, m).elements =
                 IF i \in DOMAIN s.elements THEN s.elements ELSE With(s.elements, i, Element(k, m))
<1> DEFINE els == s.elements
<1>1. s = [elements |-> els, edges |-> s.edges, bodies |-> s.bodies]
  BY DEF Snap
<1>2. CASE i \notin DOMAIN els
  <2>2. AddElement(s, i, k, m) = [s EXCEPT !.elements = With(els, i, Element(k, m))]
    BY <1>2 DEF AddElement
  <2> HIDE DEF els
  <2>3. AddElement(s, i, k, m) = [elements |-> With(els, i, Element(k, m)), edges |-> s.edges, bodies |-> s.bodies]
    BY <1>1, <2>2
  <2>4. s.elements = els
    BY DEF els
  <2> QED
    BY <1>2, <2>3, <2>4 DEF Snap
<1>3. CASE i \in DOMAIN els
  BY <1>1, <1>3 DEF AddElement, Snap
<1> QED
  BY <1>2, <1>3

(* A model but for new edges. *)
LEMMA EdgesIs ==
    ASSUME NEW s, Snap(s), NEW E
    PROVE  /\ Snap([s EXCEPT !.edges = E]) /\ [s EXCEPT !.edges = E].edges = E
           /\ [s EXCEPT !.edges = E].elements = s.elements /\ [s EXCEPT !.edges = E].bodies = s.bodies
<1>1. [s EXCEPT !.edges = E] = [elements |-> s.elements, edges |-> E, bodies |-> s.bodies]
  BY DEF Snap
<1> QED
  BY <1>1 DEF Snap

(* What each op does to a live model. *)
LEMMA WriteOpIs ==
    ASSUME NEW s, Snap(s), NEW op,
           NEW there, there = IF op.do # "rename" /\ op.parent \in DOMAIN s.elements THEN op.parent ELSE NoOne
    PROVE  /\ op.do \in {"rename", "create", "reparent"} => Snap(WriteOp(s, op))
           /\ op.do = "rename" => WriteOp(s, op) = SetName(s, op.id, op.name)
           /\ op.do = "create" =>
                 /\ WriteOp(s, op).elements = AddElement(s, op.id, op.kind, op.name).elements
                 /\ WriteOp(s, op).edges = s.edges \cup ParentEdge(there, op.id)
           /\ op.do = "reparent" =>
                 /\ WriteOp(s, op).elements = s.elements
                 /\ WriteOp(s, op).edges = IF op.id \in DOMAIN s.elements THEN MovedEdges(s, op.id, there) ELSE s.edges
<1>1. CASE op.do = "rename"
  <2>1. WriteOp(s, op) = SetName(s, op.id, op.name)
    BY <1>1 DEF WriteOp
  <2> QED
    BY <1>1, <2>1, SetNameIs
<1>2. CASE op.do = "create"
  <2> DEFINE a == AddElement(s, op.id, op.kind, op.name)
  <2>1. WriteOp(s, op) = [a EXCEPT !.edges = a.edges \cup ParentEdge(there, op.id)]
    BY <1>2 DEF WriteOp
  <2>2. Snap(a) /\ a.edges = s.edges
    BY AddElementIs
  <2> HIDE DEF a
  <2>3. /\ Snap(WriteOp(s, op)) /\ WriteOp(s, op).elements = a.elements
        /\ WriteOp(s, op).edges = a.edges \cup ParentEdge(there, op.id)
    BY <2>1, <2>2, EdgesIs
  <2> QED
    BY <1>2, <2>2, <2>3 DEF a
<1>3. CASE op.do = "reparent" /\ op.id \in DOMAIN s.elements
  <2>1. WriteOp(s, op) = [s EXCEPT !.edges = MovedEdges(s, op.id, there)]
    BY <1>3 DEF WriteOp, MovedEdges
  <2> QED
    BY <1>3, <2>1, EdgesIs
<1>4. CASE op.do = "reparent" /\ op.id \notin DOMAIN s.elements
  <2>1. WriteOp(s, op) = s
    BY <1>4 DEF WriteOp
  <2> QED
    BY <1>4, <2>1
<1>5. CASE ~(op.do \in {"rename", "create", "reparent"})
  BY <1>5
<1> QED
  BY <1>1, <1>2, <1>3, <1>4, <1>5

(* What the replay of each op does. *)
LEMMA GraphOpIs ==
    ASSUME NEW s, Snap(s), NEW op
    PROVE  /\ op.do \in {"rename", "create", "reparent"} => Snap(ApplyGraphOp(s, op))
           /\ op.do = "rename" => ApplyGraphOp(s, op) = SetName(s, op.id, op.name)
           /\ op.do = "create" =>
                 /\ ApplyGraphOp(s, op).elements = AddElement(s, op.id, op.kind, op.name).elements
                 /\ ApplyGraphOp(s, op).edges = s.edges \cup ParentEdge(op.parent, op.id)
           /\ op.do = "reparent" =>
                 /\ ApplyGraphOp(s, op).elements = s.elements
                 /\ ApplyGraphOp(s, op).edges = MovedEdges(s, op.id, op.parent)
<1>1. CASE op.do = "rename"
  <2>1. ApplyGraphOp(s, op) = SetName(s, op.id, op.name)
    BY <1>1 DEF ApplyGraphOp
  <2> QED
    BY <1>1, <2>1, SetNameIs
<1>2. CASE op.do = "create"
  <2> DEFINE a == AddElement(s, op.id, op.kind, op.name)
  <2>1. ApplyGraphOp(s, op) = [a EXCEPT !.edges = a.edges \cup ParentEdge(op.parent, op.id)]
    BY <1>2 DEF ApplyGraphOp
  <2>2. Snap(a) /\ a.edges = s.edges
    BY AddElementIs
  <2> HIDE DEF a
  <2>3. /\ Snap(ApplyGraphOp(s, op)) /\ ApplyGraphOp(s, op).elements = a.elements
        /\ ApplyGraphOp(s, op).edges = a.edges \cup ParentEdge(op.parent, op.id)
    BY <2>1, <2>2, EdgesIs
  <2> QED
    BY <1>2, <2>2, <2>3 DEF a
<1>3. CASE op.do = "reparent"
  <2>1. ApplyGraphOp(s, op) = [s EXCEPT !.edges = MovedEdges(s, op.id, op.parent)]
    BY <1>3 DEF ApplyGraphOp, Reparented, MovedEdges
  <2> QED
    BY <1>3, <2>1, EdgesIs
<1>4. CASE ~(op.do \in {"rename", "create", "reparent"})
  BY <1>4
<1> QED
  BY <1>1, <1>2, <1>3, <1>4

(* An op whose element and parent are there is replayed as it was written. *)
LEMMA SameOp ==
    ASSUME NEW r, NEW s, Snap(r), Snap(s), Same(r, s), NEW op,
           op.do \in {"rename", "create", "reparent"},
           op.do # "rename" => op.parent \in DOMAIN s.elements \cup {NoOne},
           op.do = "reparent" => op.id \in DOMAIN s.elements
    PROVE  Same(ApplyGraphOp(r, op), WriteOp(s, op)) /\ Snap(ApplyGraphOp(r, op)) /\ Snap(WriteOp(s, op))
<1> DEFINE there == IF op.do # "rename" /\ op.parent \in DOMAIN s.elements THEN op.parent ELSE NoOne
<1>1. op.do # "rename" => there = op.parent
  OBVIOUS
<1> HIDE DEF there
<1>2. Snap(ApplyGraphOp(r, op)) /\ Snap(WriteOp(s, op))
  BY WriteOpIs, GraphOpIs
<1>3. CASE op.do = "rename"
  <2>1. ApplyGraphOp(r, op) = SetName(r, op.id, op.name) /\ WriteOp(s, op) = SetName(s, op.id, op.name)
    BY <1>3, WriteOpIs, GraphOpIs
  <2> QED
    BY <1>2, <2>1, SetNameIs DEF Same
<1>4. CASE op.do = "create"
  <2>1. /\ ApplyGraphOp(r, op).elements = AddElement(r, op.id, op.kind, op.name).elements
        /\ ApplyGraphOp(r, op).edges = r.edges \cup ParentEdge(op.parent, op.id)
    BY <1>4, GraphOpIs
  <2>2. /\ WriteOp(s, op).elements = AddElement(s, op.id, op.kind, op.name).elements
        /\ WriteOp(s, op).edges = s.edges \cup ParentEdge(op.parent, op.id)
    BY <1>1, <1>4, WriteOpIs DEF there
  <2>3. AddElement(r, op.id, op.kind, op.name).elements = AddElement(s, op.id, op.kind, op.name).elements
    BY AddElementIs DEF Same
  <2> QED
    BY <1>2, <2>1, <2>2, <2>3 DEF Same
<1>5. CASE op.do = "reparent"
  <2>1. /\ ApplyGraphOp(r, op).elements = r.elements
        /\ ApplyGraphOp(r, op).edges = MovedEdges(r, op.id, op.parent)
    BY <1>5, GraphOpIs
  <2>2. /\ WriteOp(s, op).elements = s.elements
        /\ WriteOp(s, op).edges = MovedEdges(s, op.id, op.parent)
    BY <1>1, <1>5, WriteOpIs DEF there
  <2> QED
    BY <1>2, <2>1, <2>2 DEF Same, MovedEdges
<1> QED
  BY <1>3, <1>4, <1>5

(* A name keeps a model what it is. *)
LEMMA SetNameWhole ==
    ASSUME NEW s, IsModel(s), NEW i, NEW m \in Name
    PROVE  /\ IsModel(SetName(s, i, m))
           /\ DOMAIN SetName(s, i, m).elements = DOMAIN s.elements
           /\ \A j \in DOMAIN s.elements :
                 /\ SetName(s, i, m).elements[j].kind = s.elements[j].kind
                 /\ SetName(s, i, m).elements[j].name = IF j = i THEN m ELSE s.elements[j].name
           /\ Whole(s) => Whole(SetName(s, i, m))
<1> DEFINE r == SetName(s, i, m)
<1>1. Snap(r) /\ r.edges = s.edges /\ r.elements = Renamed(s.elements, i, m)
  BY SetNameIs DEF IsModel
<1> HIDE DEF r
<1>2. /\ DOMAIN r.elements = DOMAIN s.elements
      /\ \A j \in DOMAIN s.elements :
            r.elements[j] = IF j = i THEN [s.elements[j] EXCEPT !.name = m] ELSE s.elements[j]
  BY <1>1 DEF Renamed
<1>3. \A j \in DOMAIN s.elements : s.elements[j] \in ElementRec
  BY DEF IsModel
<1>4. \A j \in DOMAIN s.elements : 
         /\ r.elements[j] \in ElementRec /\ r.elements[j].kind = s.elements[j].kind
         /\ r.elements[j].name = IF j = i THEN m ELSE s.elements[j].name
  BY <1>2, <1>3 DEF ElementRec
<1>5. r.elements \in [DOMAIN r.elements -> ElementRec]
  <2>1. r.elements = [j \in DOMAIN r.elements |-> r.elements[j]]
    BY <1>1 DEF IsModel, Renamed
  <2> QED
    BY <1>2, <1>4, <2>1
<1>6. IsModel(r)
  BY <1>1, <1>2, <1>5 DEF IsModel
<1>7. Whole(s) => Whole(r)
  BY <1>1, <1>2, <1>6 DEF Whole, OneParent, ContainsOf
<1> QED
  BY <1>2, <1>4, <1>6, <1>7 DEF r

(* Each op keeps a live model whole. *)
LEMMA WriteOpWhole ==
    ASSUME NEW s, Whole(s), NEW op,
           \/ IsRename(op) /\ op.name \in Name
           \/ IsCreate(op) /\ op.id \in Id \ DOMAIN s.elements /\ op.kind \in Kind /\ op.name \in Name
           \/ IsReparent(op)
    PROVE  /\ Whole(WriteOp(s, op))
           /\ DOMAIN WriteOp(s, op).elements = DOMAIN s.elements \cup (IF op.do = "create" THEN {op.id} ELSE {})
<1> DEFINE there == IF op.do # "rename" /\ op.parent \in DOMAIN s.elements THEN op.parent ELSE NoOne
           r == WriteOp(s, op)
<1>0. there \in DOMAIN s.elements \cup {NoOne} /\ IsModel(s) /\ Snap(s) /\ OneParent(s)
  BY DEF Whole, IsModel
<1>1. /\ op.do = "rename" => r = SetName(s, op.id, op.name)
      /\ op.do = "create" =>
            /\ r.elements = AddElement(s, op.id, op.kind, op.name).elements
            /\ r.edges = s.edges \cup ParentEdge(there, op.id)
      /\ op.do = "reparent" =>
            /\ r.elements = s.elements
            /\ r.edges = IF op.id \in DOMAIN s.elements THEN MovedEdges(s, op.id, there) ELSE s.edges
      /\ op.do \in {"rename", "create", "reparent"} => Snap(r)
  BY <1>0, WriteOpIs
<1> HIDE DEF r, there
<1>2. CASE IsRename(op) /\ op.name \in Name
  <2>1. op.do = "rename"
    BY <1>2 DEF IsRename
  <2> QED
    BY <1>0, <1>1, <1>2, <2>1, SetNameWhole DEF r
<1>3. CASE IsCreate(op) /\ op.id \in Id \ DOMAIN s.elements /\ op.kind \in Kind /\ op.name \in Name
  <2>1. op.do = "create"
    BY <1>3 DEF IsCreate
  <2>2. r.elements = With(s.elements, op.id, Element(op.kind, op.name))
    BY <1>0, <1>1, <1>3, <2>1, AddElementIs
  <2>3. DOMAIN r.elements = DOMAIN s.elements \cup {op.id}
    BY <2>2 DEF With
  <2>4. Element(op.kind, op.name) \in ElementRec
    BY <1>3 DEF Element, ElementRec, Origin
  <2>5. r.elements \in [DOMAIN r.elements -> ElementRec]
    <3>1. s.elements \in [DOMAIN s.elements -> ElementRec]
      BY <1>0 DEF IsModel
    <3> QED
      BY <2>2, <2>3, <2>4, <3>1 DEF With
  <2>6. \A e \in ParentEdge(there, op.id) :
           e.source = there /\ e.target = op.id /\ there \in DOMAIN s.elements /\ e.kind = "Contains" /\ e \in EdgeRec
           /\ e = Edge(there, op.id, "Contains")
    BY <1>0, <1>3 DEF ParentEdge, Edge, EdgeRec, EdgeKind, IsModel
  <2>7. IsModel(r)
    BY <1>0, <1>1, <1>3, <2>1, <2>3, <2>5, <2>6 DEF IsModel
  <2>8. \A e \in r.edges : e.source \in DOMAIN r.elements /\ e.target \in DOMAIN r.elements
    BY <1>1, <2>1, <2>3, <2>6 DEF Whole
  <2>9. OneParent(r)
    <3> SUFFICES ASSUME NEW d \in ContainsOf(r), NEW e \in ContainsOf(r), d.target = e.target PROVE d = e
      BY DEF OneParent
    <3>1. \A x \in ContainsOf(r) : x \in ContainsOf(s) \/ x = Edge(there, op.id, "Contains")
      BY <1>1, <2>1, <2>6 DEF ContainsOf
    <3>2. \A x \in ContainsOf(s) : x.target # op.id
      BY <1>3 DEF Whole, ContainsOf
    <3>3. Edge(there, op.id, "Contains").target = op.id
      BY DEF Edge
    <3> QED
      BY <1>0, <3>1, <3>2, <3>3 DEF OneParent
  <2> QED
    BY <2>1, <2>3, <2>7, <2>8, <2>9 DEF Whole, r
<1>4. CASE IsReparent(op)
  <2>1. op.do = "reparent"
    BY <1>4 DEF IsReparent
  <2>2. CASE op.id \notin DOMAIN s.elements
    <3>1. r.edges = s.edges /\ r.elements = s.elements /\ Snap(r)
      BY <1>1, <2>1, <2>2
    <3> QED
      BY <1>0, <2>1, <3>1 DEF Whole, r, IsModel, OneParent, ContainsOf
  <2>3. CASE op.id \in DOMAIN s.elements
    <3>1. r.elements = s.elements /\ r.edges = MovedEdges(s, op.id, there) /\ Snap(r)
      BY <1>1, <2>1, <2>3
    <3>2. \A e \in ParentEdge(there, op.id) :
             e.source = there /\ e.target = op.id /\ there \in DOMAIN s.elements /\ e.kind = "Contains" /\ e \in EdgeRec
             /\ e = Edge(there, op.id, "Contains")
      BY <1>0, <2>3 DEF ParentEdge, Edge, EdgeRec, EdgeKind, IsModel
    <3>3. \A e \in r.edges : \/ e \in s.edges /\ ~(e.target = op.id /\ e.kind = "Contains")
                             \/ e \in ParentEdge(there, op.id)
      BY <3>1 DEF MovedEdges
    <3>4. IsModel(r)
      BY <1>0, <3>1, <3>2, <3>3 DEF IsModel
    <3>5. \A e \in r.edges : e.source \in DOMAIN r.elements /\ e.target \in DOMAIN r.elements
      BY <2>3, <3>1, <3>2, <3>3 DEF Whole
    <3>6. OneParent(r)
      <4> SUFFICES ASSUME NEW d \in ContainsOf(r), NEW e \in ContainsOf(r), d.target = e.target PROVE d = e
        BY DEF OneParent
      <4>1. \A x \in ContainsOf(r) : (x \in ContainsOf(s) /\ x.target # op.id) \/ x = Edge(there, op.id, "Contains")
        BY <3>2, <3>3 DEF ContainsOf
      <4>3. Edge(there, op.id, "Contains").target = op.id
        BY DEF Edge
      <4> QED
        BY <1>0, <4>1, <4>3 DEF OneParent
    <3> QED
      BY <2>1, <3>1, <3>4, <3>5, <3>6 DEF Whole, r
  <2> QED
    BY <2>2, <2>3
<1> QED
  BY <1>2, <1>3, <1>4

(* An element that goes takes its edges with it. *)
LEMMA RemovedWhole ==
    ASSUME NEW s, Whole(s), NEW i
    PROVE  Whole(Removed(s, i)) /\ DOMAIN Removed(s, i).elements = DOMAIN s.elements \ {i}
<1> DEFINE r == Removed(s, i)
<1>1. Snap(r) /\ r.elements = Without(s.elements, i) /\ r.edges = {e \in s.edges : i \notin {e.source, e.target}}
  BY DEF Removed, Snap
<1> HIDE DEF r
<1>2. /\ DOMAIN r.elements = DOMAIN s.elements \ {i} /\ r.elements \in [DOMAIN r.elements -> ElementRec]
  BY <1>1 DEF Without, Whole, IsModel
<1>3. IsModel(r)
  BY <1>1, <1>2 DEF Whole, IsModel
<1>4. OneParent(r)
  BY <1>1 DEF Whole, OneParent, ContainsOf
<1> QED
  BY <1>1, <1>2, <1>3, <1>4 DEF Whole, r

-----------------------------------------------------------------------------

(* An op is one of three. *)
LEMMA OpIs ==
    ASSUME NEW op \in OpSet
    PROVE  \/ IsRename(op) /\ op.do = "rename" /\ op.id \in Id /\ op.name \in Name
           \/ IsCreate(op) /\ op.do = "create" /\ op.id \in Int /\ op.kind \in Kind /\ op.name \in Name
              /\ op.parent \in Int
           \/ IsReparent(op) /\ op.do = "reparent" /\ op.id \in Id /\ op.parent \in Int
BY DEF OpSet, IsRename, IsCreate, IsReparent

(* The positions of the creating ops, in order. *)
LEMMA CreatedIs ==
    ASSUME NEW ops, NEW c \in Nat, DOMAIN ops = 1..c
    PROVE  /\ DOMAIN Created(ops) = 1..Len(Created(ops)) /\ Len(Created(ops)) \in Nat
           /\ \A n \in DOMAIN Created(ops) : Created(ops)[n] \in DOMAIN ops /\ ops[Created(ops)[n]].do = "create"
           /\ \A k \in DOMAIN ops : ops[k].do = "create" => \E n \in DOMAIN Created(ops) : Created(ops)[n] = k
<1> DEFINE C == {n \in DOMAIN ops : ops[n].do = "create"}
           new == SortedIds(C)
<1>1. C \subseteq Nat /\ IsFiniteSet(C)
  <2>1. IsFiniteSet(1..c)
    BY FS_Interval
  <2>2. C \in SUBSET (1..c) /\ C \subseteq Nat
    OBVIOUS
  <2> QED
    BY <2>1, <2>2, FS_Subset
<1>2. new \in Seq(C) /\ ToSet(new) = C
  <2> HIDE DEF C
  <2> QED
    BY <1>1, SortedIs
<1>3. Created(ops) = new
  BY DEF Created
<1>4. \A k \in C : k \in DOMAIN ops /\ ops[k].do = "create"
  OBVIOUS
<1>5. \A k \in DOMAIN ops : ops[k].do = "create" => k \in C
  OBVIOUS
<1> HIDE DEF C, new
<1>6. DOMAIN new = 1..Len(new) /\ Len(new) \in Nat /\ \A n \in DOMAIN new : new[n] \in C
  BY <1>2, ElementOfSeq, LenProperties
<1>7. \A k \in C : \E n \in DOMAIN new : new[n] = k
  BY <1>2 DEF ToSet
<1> QED
  BY <1>3, <1>4, <1>5, <1>6, <1>7

(* The ids that are left are sorted, each once. *)
LEMMA UnusedIs ==
    /\ Len(Unused) \in Nat /\ DOMAIN Unused = 1..Len(Unused)
    /\ \A n \in 1..Len(Unused) : Unused[n] \in Id \ used
    /\ \A m, n \in 1..Len(Unused) : Unused[m] = Unused[n] => m = n
<1> DEFINE S == Id \ used
<1>1. S \subseteq Nat /\ IsFiniteSet(S)
  <2>1. S \in SUBSET Id
    OBVIOUS
  <2> QED
    BY <2>1, IdAssumption, FS_Subset
<1>2. Unused = SortedIds(S)
  BY DEF Unused
<1> HIDE DEF S
<1>3. /\ Unused \in Seq(S) /\ Len(Unused) = Cardinality(S)
      /\ \A m, n \in 1..Cardinality(S) : m < n <=> Unused[m] < Unused[n]
  BY <1>1, <1>2, SortedIs
<1>4. Len(Unused) \in Nat /\ DOMAIN Unused = 1..Len(Unused) /\ \A n \in 1..Len(Unused) : Unused[n] \in S
  BY <1>3, ElementOfSeq, LenProperties
<1>5. ASSUME NEW m \in 1..Len(Unused), NEW n \in 1..Len(Unused), Unused[m] = Unused[n] PROVE m = n
  <2>0. Unused[m] \in S
    BY <1>4
  <2>1. m \in Nat /\ n \in Nat
    BY <1>4
  <2>4. Unused[m] \in Nat
    BY <1>1, <2>0
  <2>2. ~(Unused[m] < Unused[n]) /\ ~(Unused[n] < Unused[m])
    BY <1>5, <2>4
  <2>3. ~(m < n) /\ ~(n < m)
    BY <1>3, <2>2
  <2> QED
    BY <2>1, <2>3
<1> QED
  BY <1>4, <1>5 DEF S

(* Each temporary id gets an id of its own that no element ever had. *)
LEMMA RealIdsAre ==
    ASSUME NEW ops, IsOps(ops), Len(Created(ops)) <= Len(Unused)
    PROVE  LET ids == RealIds(ops)
           IN  /\ DOMAIN ids = {ops[k].id : k \in {k \in DOMAIN ops : ops[k].do = "create"}}
               /\ \A i \in DOMAIN ids : i \in Int /\ i < 0 /\ ids[i] \in Id \ used
               /\ \A i, j \in DOMAIN ids : ids[i] = ids[j] => i = j
<1> DEFINE ids == RealIds(ops)
           new == Created(ops)
           Nth(i) == CHOOSE n \in DOMAIN new : ops[new[n]].id = i
<1>0. Len(ops) \in Nat /\ DOMAIN ops = 1..Len(ops) /\ \A k \in DOMAIN ops : ops[k] \in OpSet
  BY ElementOfSeq, LenProperties DEF IsOps
<1>1. /\ DOMAIN new = 1..Len(new) /\ Len(new) \in Nat
      /\ \A n \in DOMAIN new : new[n] \in DOMAIN ops /\ ops[new[n]].do = "create"
      /\ \A k \in DOMAIN ops : ops[k].do = "create" => \E n \in DOMAIN new : new[n] = k
  BY <1>0, CreatedIs
<1>2. ids = [i \in {ops[new[n]].id : n \in DOMAIN new} |-> Unused[Nth(i)]]
  BY DEF RealIds
<1> HIDE DEF ids, Nth
<1>3. DOMAIN ids = {ops[new[n]].id : n \in DOMAIN new} /\ \A i \in DOMAIN ids : ids[i] = Unused[Nth(i)]
  BY <1>2
<1>4. \A i \in DOMAIN ids : Nth(i) \in DOMAIN new /\ ops[new[Nth(i)]].id = i
  <2>1. \A i \in DOMAIN ids : \E n \in DOMAIN new : ops[new[n]].id = i
    BY <1>3
  <2> QED
    BY <2>1 DEF Nth
<1>5. Len(new) <= Len(Unused)
  OBVIOUS
<1> HIDE DEF new
<1>6. \A i \in DOMAIN ids : Nth(i) \in 1..Len(Unused)
  BY <1>1, <1>4, <1>5, UnusedIs
<1>7. DOMAIN ids = {ops[k].id : k \in {k \in DOMAIN ops : ops[k].do = "create"}}
  <2>1. \A i \in DOMAIN ids : \E k \in DOMAIN ops : ops[k].do = "create" /\ ops[k].id = i
    BY <1>1, <1>4
  <2>2. \A k \in DOMAIN ops : ops[k].do = "create" => ops[k].id \in DOMAIN ids
    BY <1>1, <1>3
  <2> QED
    BY <2>1, <2>2
<1>8. ASSUME NEW i \in DOMAIN ids PROVE i \in Int /\ i < 0 /\ ids[i] \in Id \ used
  <2>1. PICK k \in DOMAIN ops : ops[k].do = "create" /\ ops[k].id = i
    BY <1>7
  <2>2. i \in Int /\ i < 0
    BY <1>0, <2>1, OpIs DEF IsOps
  <2> QED
    BY <1>3, <1>6, <2>2, UnusedIs
<1>9. ASSUME NEW i \in DOMAIN ids, NEW j \in DOMAIN ids, ids[i] = ids[j] PROVE i = j
  <2>1. Nth(i) = Nth(j)
    BY <1>3, <1>6, <1>9, UnusedIs
  <2> QED
    BY <1>4, <2>1
<1> QED
  BY <1>7, <1>8, <1>9 DEF ids

(* A check that has failed stays so; one that has not fails if and only if   *)
(* the op is not allowed.                                                    *)
LEMMA CheckOpIs ==
    ASSUME NEW r, IsCheck(r), r.ok \in BOOLEAN, NEW op \in OpSet
    PROVE  /\ IsCheck(CheckOp(r, op)) /\ CheckOp(r, op).ok \in BOOLEAN
           /\ CheckOp(r, op).ok <=> r.ok /\ Allowed(r, op)
           /\ (r.ok /\ Allowed(r, op)) => CheckOp(r, op) = Checked(r, op)
<1> DEFINE known  == r.old \cup r.made
           parent == op.do = "rename" \/ op.parent \in known \cup {NoOne}
           allowed ==
               CASE op.do = "rename"   -> op.id \in r.old /\ op.name # Blank
                 [] op.do = "create"   -> parent
                 [] op.do = "reparent" -> op.id \in r.old /\ parent /\ ~Reaches(r.links, op.id, op.parent)
<1>1. CheckOp(r, op) =
         IF ~r.ok \/ ~allowed THEN [r EXCEPT !.ok = FALSE]
         ELSE [r EXCEPT !.made  = IF op.do = "create" THEN r.made \cup {op.id} ELSE r.made,
                        !.links = IF op.do = "rename" THEN r.links ELSE Moved(r.links, op.id, op.parent)]
  BY DEF CheckOp, IsCheck
<1>2. op.do \in {"rename", "create", "reparent"}
  BY OpIs
<1>3. allowed <=> Allowed(r, op)
  BY <1>2 DEF Allowed
<1> HIDE DEF allowed
<1>4. CASE ~r.ok \/ ~allowed
  <2>1. CheckOp(r, op) = [r EXCEPT !.ok = FALSE]
    BY <1>1, <1>4
  <2>2. CheckOp(r, op) = [ok |-> FALSE, old |-> r.old, made |-> r.made, links |-> r.links]
    BY <2>1 DEF IsCheck
  <2>3. CheckOp(r, op).ok = FALSE /\ IsCheck(CheckOp(r, op))
    BY <2>2 DEF IsCheck
  <2> QED
    BY <1>3, <1>4, <2>3
<1>5. CASE r.ok /\ allowed
  <2> DEFINE M == IF op.do = "create" THEN r.made \cup {op.id} ELSE r.made
             L == IF op.do = "rename" THEN r.links ELSE Moved(r.links, op.id, op.parent)
  <2>1. CheckOp(r, op) = [r EXCEPT !.made = M, !.links = L]
    BY <1>1, <1>5
  <2>2. Checked(r, op) = [ok |-> TRUE, old |-> r.old, made |-> M, links |-> L]
    BY DEF Checked
  <2> HIDE DEF M, L
  <2>3. CheckOp(r, op) = [ok |-> r.ok, old |-> r.old, made |-> M, links |-> L]
    BY <2>1 DEF IsCheck
  <2>4. r.ok = TRUE
    BY <1>5
  <2>5. CheckOp(r, op) = Checked(r, op)
    BY <2>2, <2>3, <2>4
  <2>6. IsCheck(CheckOp(r, op)) /\ CheckOp(r, op).ok = r.ok
    BY <2>3 DEF IsCheck
  <2> QED
    BY <1>3, <1>5, <2>5, <2>6
<1> QED
  BY <1>3, <1>4, <1>5

(* There is such a run of the check for every edit.                          *)
LEMMA AcceptsIs ==
    ASSUME NEW s, NEW c \in Nat, NEW ops, DOMAIN ops = 1..c, \A k \in 1..c : ops[k] \in OpSet
    PROVE  \E r : CheckedRun(r, s, ops, c)
<1>0. PICK r : CheckRun(r, CheckBase(s), ops, c)
  BY CheckSteps
<1>1. /\ r[0] = CheckBase(s)
      /\ \A k \in 1..c : r[k] = CheckOp(r[k - 1], ops[k])
      /\ CheckFold(CheckBase(s), ops) = r[c]
  BY <1>0 DEF CheckRun
<1>2. Accepts(s, ops) <=> r[c].ok
  <2>1. Accepts(s, ops) = CheckFold(CheckBase(s), ops).ok
    BY DEF Accepts, CheckBase, CheckFold
  <2> QED
    BY <1>1, <2>1
<1> DEFINE Good(k) == IsCheck(r[k]) /\ r[k].ok \in BOOLEAN
           T == {k \in 0..c : ~Good(k)}
<1>3. T = {}
  <2> SUFFICES ASSUME T # {} PROVE FALSE
    OBVIOUS
  <2>0. T \subseteq Nat
    OBVIOUS
  <2> HIDE DEF T, Good
  <2>1. PICK k \in T : \A m \in T : k <= m
    BY <2>0, NatLeast
  <2>2. k \in 0..c /\ ~Good(k)
    BY DEF T
  <2>3. k # 0
    <3>1. Good(0)
      BY <1>1 DEF Good, CheckBase, IsCheck
    <3> QED
      BY <2>2, <3>1
  <2>4. k - 1 \in 0..c /\ k \in 1..c /\ ~(k <= k - 1)
    BY <2>2, <2>3
  <2>5. Good(k - 1)
    BY <2>1, <2>4 DEF T
  <2>6. Good(k)
    BY <1>1, <2>4, <2>5, CheckOpIs DEF Good
  <2> QED
    BY <2>2, <2>6
<1>4. \A k \in 0..c : Good(k)
  BY <1>3
<1> HIDE DEF T, Good
<1>5. ASSUME NEW k \in 1..c
      PROVE  /\ r[k].ok <=> r[k - 1].ok /\ Allowed(r[k - 1], ops[k])
             /\ r[k].ok => r[k] = Checked(r[k - 1], ops[k])
  <2>1. Good(k - 1) /\ r[k] = CheckOp(r[k - 1], ops[k]) /\ ops[k] \in OpSet
    BY <1>1, <1>4
  <2> QED
    BY <2>1, CheckOpIs DEF Good
<1>6. ASSUME r[c].ok PROVE \A k \in 0..c : r[k].ok
  <2> SUFFICES ASSUME NEW m \in 0..c, ~r[m].ok PROVE FALSE
    OBVIOUS
  <2> DEFINE U == {k \in m..c : r[k].ok}
  <2>1. U # {} /\ U \subseteq Nat
    <3>1. c \in m..c
      OBVIOUS
    <3> QED
      BY <1>6, <3>1
  <2> HIDE DEF U
  <2>2. PICK k \in U : \A n \in U : k <= n
    BY <2>1, NatLeast
  <2>3. k \in m..c /\ r[k].ok
    BY DEF U
  <2>4. k # m
    BY <2>3
  <2>5. k \in 1..c /\ k - 1 \in m..c /\ ~(k <= k - 1)
    BY <2>3, <2>4
  <2>6. r[k - 1].ok
    BY <1>5, <2>3, <2>5
  <2> QED
    BY <2>2, <2>5, <2>6 DEF U
<1>7. CheckedRun(r, s, ops, c)
  BY <1>1, <1>2, <1>4, <1>5, <1>6 DEF Good, CheckedRun
<1> QED
  BY <1>7

-----------------------------------------------------------------------------

(* Induction up to c, on a set. *)
LEMMA UpTo ==
    ASSUME NEW c \in Nat, NEW G, 0 \in G, \A k \in 1..c : k - 1 \in G => k \in G
    PROVE  \A k \in 0..c : k \in G
<1> DEFINE T == {k \in 0..c : k \notin G}
<1> SUFFICES ASSUME T # {} PROVE FALSE
  OBVIOUS
<1>1. T \subseteq Nat
  OBVIOUS
<1> HIDE DEF T
<1>2. PICK k \in T : \A m \in T : k <= m
  BY <1>1, NatLeast
<1>3. k \in 0..c /\ k \notin G
  BY DEF T
<1>4. k # 0
  BY <1>3
<1>5. k - 1 \in 0..c /\ k \in 1..c /\ ~(k <= k - 1)
  BY <1>3, <1>4
<1>6. k - 1 \in G
  BY <1>2, <1>5 DEF T
<1> QED
  BY <1>3, <1>5, <1>6

(* Those of none, and of one more.                                           *)
LEMMA MadeByIs ==
    ASSUME NEW ops
    PROVE  /\ MadeBy(ops, 0) = {}
           /\ \A k \in Nat \ {0} :
                 MadeBy(ops, k) = MadeBy(ops, k - 1) \cup (IF ops[k].do = "create" THEN {ops[k].id} ELSE {})
<1>1. 1..0 = {}
  OBVIOUS
<1>2. MadeBy(ops, 0) = {}
  BY <1>1 DEF MadeBy
<1>3. ASSUME NEW k \in Nat \ {0}
      PROVE  MadeBy(ops, k) = MadeBy(ops, k - 1) \cup (IF ops[k].do = "create" THEN {ops[k].id} ELSE {})
  <2>1. 1..k = 1..(k - 1) \cup {k}
    OBVIOUS
  <2>2. ASSUME NEW i \in MadeBy(ops, k)
        PROVE  i \in MadeBy(ops, k - 1) \cup (IF ops[k].do = "create" THEN {ops[k].id} ELSE {})
    <3>1. PICK l \in 1..k : ops[l].do = "create" /\ i = ops[l].id
      BY <2>2 DEF MadeBy
    <3> QED
      BY <2>1, <3>1 DEF MadeBy
  <2>3. MadeBy(ops, k - 1) \subseteq MadeBy(ops, k)
    BY <2>1 DEF MadeBy
  <2>4. ops[k].do = "create" => ops[k].id \in MadeBy(ops, k)
    BY <2>1 DEF MadeBy
  <2> QED
    BY <2>2, <2>3, <2>4
<1> QED
  BY <1>2, <1>3

(* Ids that are no temporary id are real. *)
LEMMA RealIs ==
    ASSUME NEW ids, \A i \in DOMAIN ids : i \in Int /\ i < 0
    PROVE  /\ \A i \in Id \cup {NoOne} : Real(ids, i) = i /\ i \notin DOMAIN ids
           /\ \A i \in DOMAIN ids : Real(ids, i) = ids[i]
<1>1. \A i \in Id \cup {NoOne} : i \in Nat /\ ~(i < 0)
  BY IdAssumption DEF NoOne
<1> QED
  BY <1>1 DEF Real

(* The ops with their real ids. *)
LEMMA RealOpsAre ==
    ASSUME NEW ops, IsOps(ops), NEW ids, \A i \in DOMAIN ids : i \in Int /\ i < 0
    PROVE  /\ DOMAIN RealOps(ops, ids) = 1..Len(ops) /\ Len(ops) \in Nat
           /\ DOMAIN ops = 1..Len(ops) /\ \A k \in 1..Len(ops) : ops[k] \in OpSet
           /\ \A k \in 1..Len(ops) :
                 LET op == ops[k]
                     q  == RealOps(ops, ids)[k]
                 IN  /\ q.do = op.do
                     /\ op.do = "rename" => q = op /\ IsRename(q) /\ op.id \in Id /\ op.name \in Name
                     /\ op.do = "create" => /\ IsCreate(q) /\ q.id = Real(ids, op.id) /\ q.kind = op.kind
                                            /\ q.name = op.name /\ q.parent = Real(ids, op.parent)
                                            /\ op.kind \in Kind /\ op.name \in Name
                                            /\ op.parent \in Int /\ op.id \in Int
                     /\ op.do = "reparent" => /\ IsReparent(q) /\ q.id = op.id /\ q.parent = Real(ids, op.parent)
                                              /\ op.id \in Id /\ op.parent \in Int
<1>1. Len(ops) \in Nat /\ DOMAIN ops = 1..Len(ops) /\ \A k \in 1..Len(ops) : ops[k] \in OpSet
  BY ElementOfSeq, LenProperties DEF IsOps
<1>2. DOMAIN RealOps(ops, ids) = 1..Len(ops)
  BY <1>1 DEF RealOps
<1>3. ASSUME NEW k \in 1..Len(ops)
      PROVE  LET op == ops[k]
                 q  == RealOps(ops, ids)[k]
             IN  /\ q.do = op.do
                 /\ op.do = "rename" => q = op /\ IsRename(q) /\ op.id \in Id /\ op.name \in Name
                 /\ op.do = "create" => /\ IsCreate(q) /\ q.id = Real(ids, op.id) /\ q.kind = op.kind
                                        /\ q.name = op.name /\ q.parent = Real(ids, op.parent)
                                        /\ op.kind \in Kind /\ op.name \in Name
                                        /\ op.parent \in Int /\ op.id \in Int
                 /\ op.do = "reparent" => /\ IsReparent(q) /\ q.id = op.id /\ q.parent = Real(ids, op.parent)
                                          /\ op.id \in Id /\ op.parent \in Int
  <2> DEFINE op == ops[k]
             q == RealOps(ops, ids)[k]
  <2>1. q = IF op.do = "rename" THEN op ELSE [op EXCEPT !.id = Real(ids, op.id), !.parent = Real(ids, op.parent)]
    BY <1>1 DEF RealOps
  <2>2. \/ IsRename(op) /\ op.do = "rename" /\ op.id \in Id /\ op.name \in Name
        \/ IsCreate(op) /\ op.do = "create" /\ op.id \in Int /\ op.kind \in Kind /\ op.name \in Name
           /\ op.parent \in Int
        \/ IsReparent(op) /\ op.do = "reparent" /\ op.id \in Id /\ op.parent \in Int
    BY <1>1, OpIs
  <2> HIDE DEF op, q
  <2>3. CASE op.do = "rename"
    BY <2>1, <2>2, <2>3 DEF op, q
  <2>4. CASE op.do = "create"
    <3>1. op = [do |-> "create", id |-> op.id, kind |-> op.kind, name |-> op.name, parent |-> op.parent]
      BY <2>2, <2>4 DEF IsCreate
    <3>2. q = [do |-> "create", id |-> Real(ids, op.id), kind |-> op.kind, name |-> op.name,
               parent |-> Real(ids, op.parent)]
      BY <2>1, <2>4, <3>1
    <3>3. /\ IsCreate(q) /\ q.id = Real(ids, op.id) /\ q.kind = op.kind
          /\ q.name = op.name /\ q.parent = Real(ids, op.parent) /\ q.do = "create"
      BY <3>2 DEF IsCreate
    <3>4. op.kind \in Kind /\ op.name \in Name /\ op.parent \in Int /\ op.id \in Int
      BY <2>2, <2>4
    <3> QED
      BY <2>4, <3>3, <3>4 DEF op, q
  <2>5. CASE op.do = "reparent"
    <3>1. op = [do |-> "reparent", id |-> op.id, parent |-> op.parent] /\ op.id \in Id /\ op.parent \in Int
      BY <2>2, <2>5 DEF IsReparent
    <3>2. q = [do |-> "reparent", id |-> Real(ids, op.id), parent |-> Real(ids, op.parent)]
      BY <2>1, <2>5, <3>1
    <3>3. Real(ids, op.id) = op.id
      BY <3>1, RealIs
    <3>4. /\ IsReparent(q) /\ q.id = op.id /\ q.parent = Real(ids, op.parent) /\ q.do = "reparent"
      BY <3>2, <3>3 DEF IsReparent
    <3> QED
      BY <2>5, <3>1, <3>4 DEF op, q
  <2> QED
    BY <2>2, <2>3, <2>4, <2>5
<1> QED
  BY <1>1, <1>2, <1>3

(* A write keeps the model whole, and adds the ids it gave. *)
LEMMA WrittenSteps ==
    ASSUME NEW ops, IsOps(ops), Len(Created(ops)) <= Len(Unused),
           NEW s, Whole(s), DOMAIN s.elements \subseteq used
    PROVE  \E f : LET ids == RealIds(ops)
                      c   == Len(ops)
                  IN  /\ WriteRun(f, s, RealOps(ops, ids), c)
                      /\ \A k \in 0..c : /\ Whole(f[k])
                                         /\ DOMAIN f[k].elements =
                                               DOMAIN s.elements \cup {ids[i] : i \in MadeBy(ops, k)}
<1> DEFINE ids == RealIds(ops)
           c == Len(ops)
           q == RealOps(ops, ids)
<1>1. /\ DOMAIN ids = {ops[k].id : k \in {k \in DOMAIN ops : ops[k].do = "create"}}
      /\ \A i \in DOMAIN ids : i \in Int /\ i < 0 /\ ids[i] \in Id \ used
      /\ \A i, j \in DOMAIN ids : ids[i] = ids[j] => i = j
  BY RealIdsAre
<1> HIDE DEF ids
<1>2. /\ DOMAIN q = 1..c /\ c \in Nat /\ DOMAIN ops = 1..c
      /\ \A k \in 1..c : /\ ops[k] \in OpSet /\ q[k].do = ops[k].do
                         /\ ops[k].do = "rename" => IsRename(q[k]) /\ q[k] = ops[k] /\ ops[k].name \in Name
                         /\ ops[k].do = "create" => /\ IsCreate(q[k]) /\ q[k].id = Real(ids, ops[k].id)
                                                    /\ q[k].kind \in Kind /\ q[k].name \in Name
                         /\ ops[k].do = "reparent" => IsReparent(q[k])
  <2>1. \A i \in DOMAIN ids : i \in Int /\ i < 0
    BY <1>1
  <2> QED
    BY <2>1, RealOpsAre
<1> HIDE DEF q, c
<1>3. PICK f : WriteRun(f, s, q, c)
  BY <1>2, WriteSteps
<1>4. f[0] = s /\ \A k \in 1..c : f[k] = WriteOp(f[k - 1], q[k])
  BY <1>3 DEF WriteRun
<1> DEFINE Good(k) == /\ Whole(f[k])
                      /\ DOMAIN f[k].elements = DOMAIN s.elements \cup {ids[i] : i \in MadeBy(ops, k)}
           G == {k \in 0..c : Good(k)}
<1>5. 0 \in G
  <2>1. MadeBy(ops, 0) = {}
    BY MadeByIs
  <2> QED
    BY <1>2, <1>4, <2>1
<1>6. ASSUME NEW k \in 1..c, k - 1 \in G PROVE k \in G
  <2> DEFINE g == f[k - 1]
             op == q[k]
  <2>0. k \in Nat \ {0} /\ k \in 0..c
    BY <1>2
  <2>1. Whole(g) /\ DOMAIN g.elements = DOMAIN s.elements \cup {ids[i] : i \in MadeBy(ops, k - 1)}
    BY <1>6
  <2>2. f[k] = WriteOp(g, op)
    BY <1>4
  <2>3. MadeBy(ops, k) = MadeBy(ops, k - 1) \cup (IF ops[k].do = "create" THEN {ops[k].id} ELSE {})
    BY <2>0, MadeByIs
  <2> HIDE DEF G, g
  <2>4. CASE ops[k].do = "create"
    <3>1. ops[k].id \in DOMAIN ids
      BY <1>1, <1>2, <2>4
    <3>2. op.id = ids[ops[k].id]
      BY <1>1, <1>2, <2>4, <3>1, RealIs
    <3>3. \A i \in MadeBy(ops, k - 1) : i \in DOMAIN ids /\ i # ops[k].id
      <4> SUFFICES ASSUME NEW i \in MadeBy(ops, k - 1) PROVE i \in DOMAIN ids /\ i # ops[k].id
        OBVIOUS
      <4>1. PICK l \in 1..(k - 1) : ops[l].do = "create" /\ i = ops[l].id
        BY DEF MadeBy
      <4>2. l \in DOMAIN ops /\ l # k
        BY <1>2, <2>0, <4>1
      <4> QED
        BY <1>1, <1>2, <2>4, <4>1, <4>2 DEF IsOps
    <3>4. op.id \in Id \ DOMAIN g.elements
      <4>1. op.id \in Id \ used
        BY <1>1, <3>1, <3>2
      <4>2. \A i \in MadeBy(ops, k - 1) : ids[i] # op.id
        BY <1>1, <3>1, <3>2, <3>3
      <4> QED
        BY <2>1, <4>1, <4>2
    <3>5. IsCreate(op) /\ op.kind \in Kind /\ op.name \in Name /\ op.do = "create"
      BY <1>2, <2>4
    <3> HIDE DEF op
    <3>6. Whole(f[k]) /\ DOMAIN f[k].elements = DOMAIN g.elements \cup {op.id}
      BY <2>1, <2>2, <3>4, <3>5, WriteOpWhole
    <3>7. DOMAIN f[k].elements = DOMAIN s.elements \cup {ids[i] : i \in MadeBy(ops, k)}
      BY <2>1, <2>3, <2>4, <3>2, <3>6
    <3> QED
      BY <2>0, <3>6, <3>7 DEF G
  <2>5. CASE ops[k].do # "create"
    <3>1. \/ IsRename(op) /\ op.name \in Name
          \/ IsReparent(op)
      BY <1>2, <2>5, OpIs
    <3>2. op.do # "create"
      BY <1>2, <2>5
    <3> HIDE DEF op
    <3>3. Whole(f[k]) /\ DOMAIN f[k].elements = DOMAIN g.elements
      BY <2>1, <2>2, <3>1, <3>2, WriteOpWhole
    <3>4. DOMAIN f[k].elements = DOMAIN s.elements \cup {ids[i] : i \in MadeBy(ops, k)}
      BY <2>1, <2>3, <2>5, <3>3
    <3> QED
      BY <2>0, <3>3, <3>4 DEF G
  <2> QED
    BY <2>4, <2>5
<1> HIDE DEF G
<1>7. \A k \in 0..c : k \in G
  BY <1>2, <1>5, <1>6, UpTo
<1> QED
  BY <1>3, <1>7 DEF G, q, c, ids

(* There is such a run for every edit that is accepted.                      *)
LEMMA AcceptedSteps ==
    ASSUME NEW ops, IsOps(ops), NEW s, Accepts(s, ops)
    PROVE  \E r : AcceptRun(r, s, ops)
<1> DEFINE c == Len(ops)
<1>1. c \in Nat /\ DOMAIN ops = 1..c /\ \A k \in 1..c : ops[k] \in OpSet
  BY ElementOfSeq, LenProperties DEF IsOps
<1> HIDE DEF c
<1>0. PICK r : CheckedRun(r, s, ops, c)
  BY <1>1, AcceptsIs
<1>2. /\ r[0] = CheckBase(s)
      /\ \A k \in 1..c : r[k].ok => r[k] = Checked(r[k - 1], ops[k])
      /\ \A k \in 1..c : r[k].ok <=> r[k - 1].ok /\ Allowed(r[k - 1], ops[k])
      /\ Accepts(s, ops) <=> r[c].ok
      /\ r[c].ok => \A k \in 0..c : r[k].ok
  BY <1>0 DEF CheckedRun
<1>3. \A k \in 0..c : r[k].ok
  <2>1. r[c].ok
    BY <1>2
  <2>2. r[c].ok => \A k \in 0..c : r[k].ok
    BY <1>2
  <2> QED
    BY <2>1, <2>2
<1>4. ASSUME NEW k \in 1..c PROVE Allowed(r[k - 1], ops[k]) /\ r[k] = Checked(r[k - 1], ops[k])
  <2>1. k \in 0..c
    BY <1>1
  <2>2. r[k].ok
    BY <1>3, <2>1
  <2>3. (r[k].ok <=> r[k - 1].ok /\ Allowed(r[k - 1], ops[k])) /\ (r[k].ok => r[k] = Checked(r[k - 1], ops[k]))
    BY <1>2
  <2> QED
    BY <2>2, <2>3
<1>5. ASSUME NEW k \in 1..c
      PROVE  /\ r[k].old = r[k - 1].old
             /\ r[k].made = IF ops[k].do = "create" THEN r[k - 1].made \cup {ops[k].id} ELSE r[k - 1].made
             /\ r[k].links = IF ops[k].do = "rename" THEN r[k - 1].links
                             ELSE Moved(r[k - 1].links, ops[k].id, ops[k].parent)
  <2> DEFINE before == r[k - 1]
             op == ops[k]
             M == IF op.do = "create" THEN before.made \cup {op.id} ELSE before.made
             L == IF op.do = "rename" THEN before.links ELSE Moved(before.links, op.id, op.parent)
  <2>1. r[k] = Checked(before, op)
    BY <1>4
  <2>2. Checked(before, op) = [ok |-> TRUE, old |-> before.old, made |-> M, links |-> L]
    BY DEF Checked
  <2> HIDE DEF M, L
  <2>3. r[k].old = before.old /\ r[k].made = M /\ r[k].links = L
    BY <2>1, <2>2
  <2> QED
    BY <2>3 DEF M, L
<1> DEFINE G == {k \in 0..c : r[k].old = DOMAIN s.elements /\ r[k].made = MadeBy(ops, k)}
<1>6. 0 \in G
  <2>0. CheckBase(s).old = DOMAIN s.elements /\ CheckBase(s).made = {}
    BY DEF CheckBase
  <2>1. r[0].old = DOMAIN s.elements /\ r[0].made = {}
    BY <1>2, <2>0
  <2>2. MadeBy(ops, 0) = {}
    BY MadeByIs
  <2>3. 0 \in 0..c
    BY <1>1
  <2> QED
    BY <2>1, <2>2, <2>3
<1>7. ASSUME NEW k \in 1..c, k - 1 \in G PROVE k \in G
  <2>1. k \in Nat \ {0} /\ k \in 0..c
    BY <1>1
  <2>2. MadeBy(ops, k) = MadeBy(ops, k - 1) \cup (IF ops[k].do = "create" THEN {ops[k].id} ELSE {})
    BY <2>1, MadeByIs
  <2>3. r[k - 1].old = DOMAIN s.elements /\ r[k - 1].made = MadeBy(ops, k - 1)
    BY <1>7
  <2> QED
    BY <1>5, <2>1, <2>2, <2>3
<1> HIDE DEF G
<1>8. \A k \in 0..c : k \in G
  BY <1>1, <1>6, <1>7, UpTo
<1>9. AcceptRun(r, s, ops)
  BY <1>2, <1>4, <1>5, <1>8 DEF AcceptRun, c, G
<1> QED
  BY <1>9

(* An accepted edit is replayed as it was written. *)
LEMMA WriteReplays ==
    ASSUME NEW ops, IsOps(ops), Len(Created(ops)) <= Len(Unused),
           NEW s, Whole(s), DOMAIN s.elements \subseteq used, Accepts(s, ops),
           NEW R, Snap(R), Same(R, s)
    PROVE  LET q == RealOps(ops, RealIds(ops))
           IN  Same(GraphOpFold(R, q), WriteFold(s, q)) /\ Snap(GraphOpFold(R, q))
<1> DEFINE ids == RealIds(ops)
           c == Len(ops)
           q == RealOps(ops, ids)
<1>1. /\ DOMAIN ids = {ops[k].id : k \in {k \in DOMAIN ops : ops[k].do = "create"}}
      /\ \A i \in DOMAIN ids : i \in Int /\ i < 0
  BY RealIdsAre
<1>2. PICK f : /\ WriteRun(f, s, q, c)
               /\ \A k \in 0..c : /\ Whole(f[k])
                                  /\ DOMAIN f[k].elements = DOMAIN s.elements \cup {ids[i] : i \in MadeBy(ops, k)}
  BY WrittenSteps
<1> HIDE DEF ids
<1>3. /\ DOMAIN q = 1..c /\ c \in Nat /\ DOMAIN ops = 1..c
      /\ \A k \in 1..c : /\ ops[k] \in OpSet /\ q[k].do = ops[k].do
                         /\ ops[k].do # "rename" => q[k].parent = Real(ids, ops[k].parent)
                         /\ ops[k].do = "reparent" => q[k].id = ops[k].id
  <2>1. /\ DOMAIN q = 1..c /\ c \in Nat /\ DOMAIN ops = 1..c
        /\ \A k \in 1..c : /\ ops[k] \in OpSet /\ q[k].do = ops[k].do
                           /\ ops[k].do = "create" => q[k].parent = Real(ids, ops[k].parent)
                           /\ ops[k].do = "reparent" => q[k].id = ops[k].id /\ q[k].parent = Real(ids, ops[k].parent)
    BY <1>1, RealOpsAre
  <2> QED
    BY <2>1, OpIs
<1> HIDE DEF q, c
<1>4. f[0] = s /\ (\A k \in 1..c : f[k] = WriteOp(f[k - 1], q[k])) /\ WriteFold(s, q) = f[c]
  BY <1>2 DEF WriteRun
<1>5. PICK g : GraphOpRun(g, R, q, c)
  BY <1>3, GraphOpSteps
<1>6. g[0] = R /\ (\A k \in 1..c : g[k] = ApplyGraphOp(g[k - 1], q[k])) /\ GraphOpFold(R, q) = g[c]
  BY <1>5 DEF GraphOpRun
<1>7. PICK r : AcceptRun(r, s, ops)
  BY AcceptedSteps
<1> DEFINE G == {k \in 0..c : Same(g[k], f[k]) /\ Snap(g[k])}
<1>8. 0 \in G
  BY <1>3, <1>4, <1>6
<1>9. ASSUME NEW k \in 1..c, k - 1 \in G PROVE k \in G
  <2> DEFINE op == q[k]
  <2>0. k \in 0..c /\ k - 1 \in 0..c
    BY <1>3
  <2>1. Same(g[k - 1], f[k - 1]) /\ Snap(g[k - 1]) /\ Snap(f[k - 1])
    BY <1>2, <1>9, <2>0 DEF Whole, IsModel
  <2>2. Allowed(r[k - 1], ops[k]) /\ r[k - 1].old = DOMAIN s.elements /\ r[k - 1].made = MadeBy(ops, k - 1)
    BY <1>7, <2>0 DEF AcceptRun, c
  <2>3. ops[k].do \in {"rename", "create", "reparent"} /\ op.do = ops[k].do
    BY <1>3, OpIs
  <2>4. op.do # "rename" => op.parent \in DOMAIN f[k - 1].elements \cup {NoOne}
    <3> SUFFICES ASSUME op.do # "rename" PROVE op.parent \in DOMAIN f[k - 1].elements \cup {NoOne}
      OBVIOUS
    <3>1. ops[k].parent \in DOMAIN s.elements \cup MadeBy(ops, k - 1) \cup {NoOne}
      BY <2>2, <2>3 DEF Allowed
    <3>2. op.parent = Real(ids, ops[k].parent)
      BY <1>3, <2>3
    <3>3. DOMAIN f[k - 1].elements = DOMAIN s.elements \cup {ids[i] : i \in MadeBy(ops, k - 1)}
      BY <1>2, <2>0
    <3>4. CASE ops[k].parent \in MadeBy(ops, k - 1)
      <4>1. PICK l \in 1..(k - 1) : ops[l].do = "create" /\ ops[k].parent = ops[l].id
        BY <3>4 DEF MadeBy
      <4>2. l \in DOMAIN ops
        BY <1>3, <4>1
      <4>3. ops[k].parent \in DOMAIN ids
        BY <1>1, <4>1, <4>2
      <4>4. op.parent = ids[ops[k].parent]
        BY <1>1, <3>2, <4>3, RealIs
      <4> QED
        BY <3>3, <3>4, <4>4
    <3>5. CASE ops[k].parent \in DOMAIN s.elements \cup {NoOne}
      <4>1. ops[k].parent \in Id \cup {NoOne}
        BY <3>5 DEF Whole, IsModel
      <4>2. op.parent = ops[k].parent
        BY <1>1, <3>2, <4>1, RealIs
      <4> QED
        BY <3>3, <3>5, <4>2
    <3> QED
      BY <3>1, <3>4, <3>5
  <2>5. op.do = "reparent" => op.id \in DOMAIN f[k - 1].elements
    <3> SUFFICES ASSUME op.do = "reparent" PROVE op.id \in DOMAIN f[k - 1].elements
      OBVIOUS
    <3>1. ops[k].id \in DOMAIN s.elements
      BY <2>2, <2>3 DEF Allowed
    <3>2. op.id = ops[k].id
      BY <1>3, <2>3
    <3> QED
      BY <1>2, <2>0, <3>1, <3>2
  <2> HIDE DEF op
  <2>6. Same(ApplyGraphOp(g[k - 1], op), WriteOp(f[k - 1], op)) /\ Snap(ApplyGraphOp(g[k - 1], op))
    BY <2>1, <2>3, <2>4, <2>5, SameOp
  <2> QED
    BY <1>4, <1>6, <2>0, <2>6 DEF op
<1> HIDE DEF G
<1>10. c \in G
  <2>1. c \in 0..c
    BY <1>3
  <2> QED
    BY <1>3, <1>8, <1>9, <2>1, UpTo
<1>11. Same(GraphOpFold(R, q), WriteFold(s, q)) /\ Snap(GraphOpFold(R, q))
  BY <1>4, <1>6, <1>10 DEF G
<1> QED
  BY <1>11 DEF q, ids

-----------------------------------------------------------------------------

(* Parts in a row are a part. *)
LEMMA NestedRow ==
    ASSUME NEW s, NEW P, NEW d \in Nat, NEW ss \in Seq(Seq(LineRec)),
           \A m \in DOMAIN ss : Nested(ss[m], d, s, P)
    PROVE  Nested(FlattenSeq(ss), d, s, P)
<1> DEFINE q == FlattenSeq(ss)
           c == Len(ss)
<1>1. c \in Nat /\ DOMAIN ss = 1..c
  BY ElementOfSeq, LenProperties
<1>2. q \in Seq(LineRec) /\ \E w : Places(ss, q, c, w)
  BY FlattenIs
<1> HIDE DEF q, c
<1>3. PICK w : Places(ss, q, c, w)
  BY <1>2
<1>4. DOMAIN q = 1..Len(q) /\ Len(q) \in Nat /\ \A n \in DOMAIN q : q[n] \in LineRec
  BY <1>2, ElementOfSeq, LenProperties
<1>5. /\ \A k \in DOMAIN q : /\ w[k][1] \in 1..c /\ w[k][2] \in DOMAIN ss[w[k][1]]
                             /\ q[k] = ss[w[k][1]][w[k][2]]
      /\ \A k, l \in DOMAIN q :
            k < l => w[k][1] < w[l][1] \/ (w[k][1] = w[l][1] /\ w[k][2] < w[l][2])
      /\ \A m \in 1..c : \A j \in DOMAIN ss[m] : \E k \in DOMAIN q : w[k] = <<m, j>>
  BY <1>3 DEF Places
<1>6. \A m \in 1..c : ss[m] \in Seq(LineRec) /\ DOMAIN ss[m] = 1..Len(ss[m]) /\ Len(ss[m]) \in Nat
  BY <1>1, ElementOfSeq, LenProperties
<1>7. ASSUME NEW n \in DOMAIN q
      PROVE  /\ q[n].anchor \in DOMAIN s.elements
             /\ q[n].kind = s.elements[q[n].anchor].kind /\ q[n].name = s.elements[q[n].anchor].name
             /\ q[n].depth >= d
             /\ q[n].depth = d => q[n].anchor \in P
             /\ q[n].depth # d => InBlock(s, q, n)
  <2> DEFINE a == w[n][1]
             x == w[n][2]
             r == ss[a]
  <2>1. a \in 1..c /\ x \in DOMAIN r /\ q[n] = r[x]
    BY <1>5
  <2>2. Nested(r, d, s, P) /\ DOMAIN r = 1..Len(r) /\ Len(r) \in Nat
    BY <1>1, <1>6, <2>1
  <2> HIDE DEF a, x, r
  <2>3. /\ r[x].anchor \in DOMAIN s.elements
        /\ r[x].kind = s.elements[r[x].anchor].kind /\ r[x].name = s.elements[r[x].anchor].name
        /\ r[x].depth >= d
        /\ r[x].depth = d => r[x].anchor \in P
        /\ r[x].depth # d => InBlock(s, r, x)
    BY <2>1, <2>2 DEF Nested
  <2>4. ASSUME q[n].depth # d PROVE InBlock(s, q, n)
    <3>1. PICK y \in 1..(x - 1) : /\ r[y].depth + 1 = r[x].depth
                                  /\ \A k \in (y + 1)..(x - 1) : r[k].depth >= r[x].depth
                                  /\ Linked(s, r[y].anchor, r[x].anchor)
      BY <2>1, <2>3, <2>4 DEF InBlock
    <3>2. x \in Nat /\ y \in Nat /\ y < x /\ y \in DOMAIN r
      BY <2>1, <2>2
    <3>3. PICK m \in DOMAIN q : w[m] = <<a, y>>
      BY <1>5, <2>1, <3>2 DEF r
    <3>4. w[m][1] = a /\ w[m][2] = y /\ q[m] = r[y]
      BY <1>5, <3>3 DEF r
    <3>5. w[n][1] = a /\ w[n][2] = x
      BY DEF a, x
    <3>6. m \in Nat /\ n \in Nat /\ a \in Nat
      BY <1>1, <1>4, <2>1
    <3>7. m < n
      <4>1. m # n
        BY <3>2, <3>4, <3>5
      <4>2. ~(n < m)
        <5>1. ~(a < a) /\ ~(x < y)
          BY <3>2, <3>6
        <5> QED
          BY <1>5, <3>4, <3>5, <5>1
      <4> QED
        BY <3>6, <4>1, <4>2
    <3>8. ASSUME NEW k \in (m + 1)..(n - 1) PROVE q[k].depth >= q[n].depth
      <4>1. k \in DOMAIN q /\ m < k /\ k < n
        BY <1>4, <3>6
      <4>2. w[k][1] \in 1..c /\ w[k][2] \in DOMAIN ss[w[k][1]] /\ q[k] = ss[w[k][1]][w[k][2]]
        BY <1>5, <4>1
      <4>3. a < w[k][1] \/ (a = w[k][1] /\ y < w[k][2])
        BY <1>5, <3>4, <4>1
      <4>4. w[k][1] < a \/ (w[k][1] = a /\ w[k][2] < x)
        BY <1>5, <3>5, <4>1
      <4>5. w[k][1] \in Nat
        BY <1>1, <4>2
      <4>6. w[k][1] = a /\ y < w[k][2] /\ w[k][2] < x
        BY <3>6, <4>3, <4>4, <4>5
      <4>7. w[k][2] \in Nat
        BY <2>2, <4>2, <4>6 DEF r
      <4>8. w[k][2] \in (y + 1)..(x - 1)
        BY <3>2, <4>6, <4>7
      <4>9. q[k] = r[w[k][2]]
        BY <4>2, <4>6 DEF r
      <4> QED
        BY <2>1, <3>1, <4>8, <4>9
    <3>9. m \in 1..(n - 1)
      BY <1>4, <3>6, <3>7
    <3> QED
      BY <2>1, <3>1, <3>4, <3>8, <3>9 DEF InBlock
  <2> QED
    BY <2>1, <2>3, <2>4
<1>8. Nested(q, d, s, P)
  BY <1>2, <1>7 DEF Nested
<1> QED
  BY <1>8 DEF q

(* They are nested as each of them is.                                       *)
LEMMA NestedEach ==
    ASSUME NEW s, NEW S, S \subseteq Nat, IsFiniteSet(S), NEW d \in Nat,
           NEW print, \A i \in S : Nested(print[i], d, s, {i})
    PROVE  Nested(EachOf(S, print), d, s, S)
<1> DEFINE ids == SortedIds(S)
           ss == [k \in DOMAIN ids |-> print[ids[k]]]
<1>1. ids \in Seq(S)
  BY SortedIs
<1> HIDE DEF ids
<1>2. DOMAIN ids = 1..Len(ids) /\ Len(ids) \in Nat /\ \A k \in DOMAIN ids : ids[k] \in S
  BY <1>1, ElementOfSeq, LenProperties
<1>3. \A k \in DOMAIN ids : ss[k] = print[ids[k]] /\ Nested(ss[k], d, s, {ids[k]})
  BY <1>2
<1>4. \A k \in DOMAIN ids : Nested(ss[k], d, s, S)
  BY <1>2, <1>3 DEF Nested
<1>5. \A k \in DOMAIN ids : ss[k] \in Seq(LineRec)
  BY <1>4 DEF Nested
<1>6. ss \in Seq(Seq(LineRec)) /\ DOMAIN ss = DOMAIN ids
  <2>1. ss \in [1..Len(ids) -> Seq(LineRec)]
    BY <1>2, <1>5
  <2> QED
    BY <1>2, <2>1, SeqDef
<1> HIDE DEF ss
<1>7. Nested(FlattenSeq(ss), d, s, S)
  BY <1>4, <1>6, NestedRow
<1> QED
  BY <1>7 DEF ss, ids, EachOf

(* An element above what is in it. *)
LEMMA NestedUnder ==
    ASSUME NEW s, IsModel(s), NEW i \in DOMAIN s.elements, NEW d \in Nat,
           NEW q, q = << >> \/ Nested(q, d + 1, s, ChildrenOf(s, i))
    PROVE  Nested(<<Line(i, s, d)>> \o q, d, s, {i})
<1> DEFINE h == <<Line(i, s, d)>>
           r == h \o q
<1>1. Line(i, s, d) \in LineRec
  BY DEF Line, LineRec, IsModel, ElementRec
<1>2. h \in Seq(LineRec) /\ Len(h) = 1 /\ h[1] = Line(i, s, d)
  BY <1>1
<1>3. q \in Seq(LineRec)
  <2>1. << >> \in Seq(LineRec)
    BY EmptySeq
  <2> QED
    BY <2>1 DEF Nested
<1> HIDE DEF h
<1>4. /\ r \in Seq(LineRec) /\ Len(q) \in Nat /\ DOMAIN q = 1..Len(q) /\ DOMAIN r = 1..(1 + Len(q))
      /\ r[1] = Line(i, s, d)
      /\ \A n \in DOMAIN q : r[n + 1] = q[n]
  <2>1. r \in Seq(LineRec) /\ Len(r) = 1 + Len(q) /\ Len(q) \in Nat
    BY <1>2, <1>3, ConcatProperties, LenProperties
  <2>6. \A n \in 1..(Len(h) + Len(q)) : (h \o q)[n] = IF n <= Len(h) THEN h[n] ELSE q[n - Len(h)]
    BY <1>2, <1>3, ConcatProperties
  <2>2. \A n \in 1..Len(r) : r[n] = IF n <= 1 THEN h[n] ELSE q[n - 1]
    BY <1>2, <2>1, <2>6
  <2>3. DOMAIN q = 1..Len(q) /\ DOMAIN r = 1..(1 + Len(q))
    BY <1>3, <2>1, LenProperties
  <2>4. r[1] = Line(i, s, d)
    <3>1. 1 \in 1..Len(r)
      BY <2>1
    <3> QED
      BY <1>2, <2>2, <3>1
  <2>5. ASSUME NEW n \in DOMAIN q PROVE r[n + 1] = q[n]
    <3>1. n + 1 \in 1..Len(r) /\ ~(n + 1 <= 1) /\ (n + 1) - 1 = n
      BY <2>1, <2>3
    <3> QED
      BY <2>2, <3>1
  <2> QED
    BY <2>1, <2>3, <2>4, <2>5
<1> HIDE DEF r
<1>5. r[1].depth = d /\ r[1].anchor = i /\ r[1].kind = s.elements[i].kind /\ r[1].name = s.elements[i].name
  BY <1>4 DEF Line
<1>6. ASSUME NEW n \in DOMAIN r, n # 1
      PROVE  /\ r[n].anchor \in DOMAIN s.elements
             /\ r[n].kind = s.elements[r[n].anchor].kind /\ r[n].name = s.elements[r[n].anchor].name
             /\ r[n].depth >= d /\ r[n].depth # d
             /\ InBlock(s, r, n)
  <2> DEFINE x == n - 1
  <2>1. x \in DOMAIN q /\ n = x + 1 /\ x \in Nat /\ n \in Nat
    BY <1>4, <1>6
  <2> HIDE DEF x
  <2>2. r[n] = q[x] /\ q[x] \in LineRec
    <3>1. r[n] = q[x]
      BY <1>4, <2>1
    <3>2. q[x] \in LineRec
      BY <1>3, <2>1, ElementOfSeq, LenProperties
    <3> QED
      BY <3>1, <3>2
  <2>3. q # << >>
    BY <2>1
  <2>4. /\ q[x].anchor \in DOMAIN s.elements
        /\ q[x].kind = s.elements[q[x].anchor].kind /\ q[x].name = s.elements[q[x].anchor].name
        /\ q[x].depth >= d + 1
        /\ q[x].depth = d + 1 => q[x].anchor \in ChildrenOf(s, i)
        /\ q[x].depth # d + 1 => InBlock(s, q, x)
    BY <2>1, <2>3 DEF Nested
  <2>5. q[x].depth \in Nat
    BY <2>2 DEF LineRec
  <2>6. \A m \in DOMAIN q : q[m].depth >= d + 1
    BY <2>3 DEF Nested
  <2>7. CASE q[x].depth = d + 1
    <3>1. Linked(s, i, q[x].anchor)
      BY <2>4, <2>7 DEF ChildrenOf, Linked
    <3>2. ASSUME NEW k \in 2..(n - 1) PROVE r[k].depth >= r[n].depth
      <4>1. k - 1 \in DOMAIN q /\ (k - 1) + 1 = k
        BY <1>4, <2>1
      <4>2. r[k] = q[k - 1]
        BY <1>4, <4>1
      <4> QED
        BY <2>2, <2>6, <2>7, <4>1, <4>2
    <3>3. 1 \in 1..(n - 1) /\ 1 + 1 = 2
      BY <1>4, <1>6, <2>1
    <3>4. InBlock(s, r, n)
      BY <1>5, <2>2, <2>7, <3>1, <3>2, <3>3 DEF InBlock
    <3>5. d + 1 >= d /\ d + 1 # d
      OBVIOUS
    <3> QED
      BY <2>2, <2>4, <2>7, <3>4, <3>5
  <2>8. CASE q[x].depth # d + 1
    <3>1. PICK m \in 1..(x - 1) : /\ q[m].depth + 1 = q[x].depth
                                  /\ \A k \in (m + 1)..(x - 1) : q[k].depth >= q[x].depth
                                  /\ Linked(s, q[m].anchor, q[x].anchor)
      BY <2>4, <2>8 DEF InBlock
    <3>2. m \in DOMAIN q /\ m + 1 \in 1..(n - 1) /\ m \in Nat
      BY <1>4, <2>1
    <3>3. r[m + 1] = q[m]
      BY <1>4, <3>2
    <3>4. ASSUME NEW k \in ((m + 1) + 1)..(n - 1) PROVE r[k].depth >= r[n].depth
      <4>1. k - 1 \in DOMAIN q /\ (k - 1) + 1 = k /\ k - 1 \in (m + 1)..(x - 1)
        BY <1>4, <2>1, <3>2
      <4>2. r[k] = q[k - 1]
        BY <1>4, <4>1
      <4> QED
        BY <2>2, <3>1, <4>1, <4>2
    <3>5. InBlock(s, r, n)
      BY <2>2, <3>1, <3>2, <3>3, <3>4 DEF InBlock
    <3>6. q[x].depth >= d /\ q[x].depth # d
      BY <2>4, <2>5
    <3> QED
      BY <2>2, <2>4, <3>5, <3>6
  <2> QED
    BY <2>7, <2>8
<1>7. Nested(r, d, s, {i})
  <2>1. ASSUME NEW n \in DOMAIN r
        PROVE  /\ r[n].anchor \in DOMAIN s.elements
               /\ r[n].kind = s.elements[r[n].anchor].kind /\ r[n].name = s.elements[r[n].anchor].name
               /\ r[n].depth >= d
               /\ r[n].depth = d => r[n].anchor \in {i}
               /\ r[n].depth # d => InBlock(s, r, n)
    <3>1. d >= d
      OBVIOUS
    <3>2. CASE n = 1
      BY <1>5, <3>1, <3>2
    <3>3. CASE n # 1
      BY <1>6, <3>3
    <3> QED
      BY <3>2, <3>3
  <2> QED
    BY <1>4, <2>1 DEF Nested
<1> QED
  BY <1>7 DEF r, h

(* The prints exist to any depth.                                            *)
LEMMA BelowDefined ==
    ASSUME NEW s, NEW c \in Nat
    PROVE  \E f : BelowIs(f, s, c)
<1> DEFINE G == {n \in 0..c : \E f : BelowIs(f, s, n)}
           At(left, next) == LevelOf(s, left, next)
<1>0. \A f, n : BelowIs(f, s, n) <=> f = [left \in 0..n |-> At(left, IF left = 0 THEN << >> ELSE f[left - 1])]
  BY DEF BelowIs
<1> HIDE DEF At
<1>1. 0 \in G
  <2>1. 0..0 = {0}
    OBVIOUS
  <2> DEFINE g == [left \in 0..0 |-> At(left, << >>)]
  <2>2. \A left \in 0..0 : g[left] = At(left, IF left = 0 THEN << >> ELSE g[left - 1])
    BY <2>1
  <2>3. g = [left \in 0..0 |-> g[left]]
    OBVIOUS
  <2> HIDE DEF g
  <2>4. g = [left \in 0..0 |-> At(left, IF left = 0 THEN << >> ELSE g[left - 1])]
    BY <2>2, <2>3
  <2>5. BelowIs(g, s, 0)
    BY <1>0, <2>4
  <2> QED
    BY <2>5
<1>2. ASSUME NEW n \in 1..c, n - 1 \in G PROVE n \in G
  <2>0. n \in Nat /\ n \in 0..c
    OBVIOUS
  <2>1. PICK g : g = [left \in 0..(n - 1) |-> At(left, IF left = 0 THEN << >> ELSE g[left - 1])]
    BY <1>0, <1>2
  <2> DEFINE h == [left \in 0..n |-> IF left # n THEN g[left] ELSE At(n, g[n - 1])]
  <2>2. \A left \in 0..n : h[left] = At(left, IF left = 0 THEN << >> ELSE h[left - 1])
    <3> SUFFICES ASSUME NEW left \in 0..n PROVE h[left] = At(left, IF left = 0 THEN << >> ELSE h[left - 1])
      OBVIOUS
    <3>1. CASE left = n
      <4>1. n # 0 /\ n - 1 \in 0..n /\ n - 1 # n
        BY <1>2, <2>0
      <4>2. h[n - 1] = g[n - 1]
        BY <4>1
      <4> QED
        BY <3>1, <4>1, <4>2
    <3>2. CASE left # n
      <4>1. left \in 0..(n - 1) /\ (left # 0 => left - 1 \in 0..n /\ left - 1 # n)
        BY <2>0, <3>2
      <4>2. h[left] = g[left] /\ (left # 0 => h[left - 1] = g[left - 1])
        BY <3>2, <4>1
      <4>3. g[left] = At(left, IF left = 0 THEN << >> ELSE g[left - 1])
        BY <2>1, <4>1
      <4> QED
        BY <4>2, <4>3
    <3> QED
      BY <3>1, <3>2
  <2>3. h = [left \in 0..n |-> h[left]]
    OBVIOUS
  <2> HIDE DEF h
  <2>4. h = [left \in 0..n |-> At(left, IF left = 0 THEN << >> ELSE h[left - 1])]
    BY <2>2, <2>3
  <2>5. BelowIs(h, s, n)
    BY <1>0, <2>4
  <2> QED
    BY <2>0, <2>5
<1> HIDE DEF G
<1>3. c \in G
  <2>1. c \in 0..c
    OBVIOUS
  <2> QED
    BY <1>1, <1>2, <2>1, UpTo
<1> QED
  BY <1>3 DEF G

(* A print is its roots, each above what is in it, at the depth it is in it. *)
LEMMA PrintIs ==
    ASSUME NEW s, IsModel(s)
    PROVE  Nested(PrintTree(s), 0, s, Roots(s))
<1> DEFINE D == DOMAIN s.elements
           c == Cardinality(D)
<1>1. D \subseteq Nat /\ IsFiniteSet(D) /\ \A S \in SUBSET D : S \subseteq Nat /\ IsFiniteSet(S)
  <2>1. D \in SUBSET Id
    BY DEF IsModel
  <2>2. \A S \in SUBSET D : S \in SUBSET Id
    BY <2>1
  <2> QED
    BY <2>1, <2>2, IdAssumption, FS_Subset
<1>2. c \in Nat
  BY <1>1, FS_CardinalityType
<1> DEFINE f == CHOOSE f : BelowIs(f, s, c)
<1>3. BelowIs(f, s, c)
  BY <1>2, BelowDefined
<1>4. PrintTree(s) = EachOf(Roots(s), f[c])
  BY DEF PrintTree, EachOf, BelowIs, LevelOf
<1> HIDE DEF f, c, D
<1>5. \A left \in 0..c : \A i \in D :
         f[left][i] = <<Line(i, s, c - left)>>
                          \o (IF left = 0 THEN << >>
                              ELSE EachOf(ChildrenOf(s, i), IF left = 0 THEN << >> ELSE f[left - 1]))
  <2> SUFFICES ASSUME NEW left \in 0..c, NEW i \in D
               PROVE  f[left][i] = <<Line(i, s, c - left)>>
                                       \o (IF left = 0 THEN << >>
                                           ELSE EachOf(ChildrenOf(s, i), IF left = 0 THEN << >> ELSE f[left - 1]))
    OBVIOUS
  <2>1. f[left] = LevelOf(s, left, IF left = 0 THEN << >> ELSE f[left - 1])
    BY <1>3 DEF BelowIs
  <2> DEFINE next == IF left = 0 THEN << >> ELSE f[left - 1]
  <2> HIDE DEF next
  <2>2. LevelOf(s, left, next)[i] =
           <<Line(i, s, c - left)>> \o (IF left = 0 THEN << >> ELSE EachOf(ChildrenOf(s, i), next))
    BY DEF LevelOf, c, D
  <2> QED
    BY <2>1, <2>2 DEF next
<1> DEFINE G == {left \in 0..c : \A i \in D : Nested(f[left][i], c - left, s, {i})}
<1>6. 0 \in G
  <2>1. 0 \in 0..c /\ c - 0 \in Nat /\ c - 0 = c
    BY <1>2
  <2>2. ASSUME NEW i \in D PROVE Nested(f[0][i], c - 0, s, {i})
    <3>1. f[0][i] = <<Line(i, s, c - 0)>> \o << >>
      BY <1>5, <2>1
    <3>2. Nested(<<Line(i, s, c - 0)>> \o << >>, c - 0, s, {i})
      BY <2>1, NestedUnder DEF D
    <3> QED
      BY <3>1, <3>2
  <2> QED
    BY <2>1, <2>2
<1>7. ASSUME NEW left \in 1..c, left - 1 \in G PROVE left \in G
  <2>1. left \in 0..c /\ left # 0 /\ c - left \in Nat /\ c - (left - 1) = (c - left) + 1 /\ (c - left) + 1 \in Nat
    BY <1>2
  <2>2. \A i \in D : Nested(f[left - 1][i], (c - left) + 1, s, {i})
    BY <1>7, <2>1
  <2>3. ASSUME NEW i \in D PROVE Nested(f[left][i], c - left, s, {i})
    <3> DEFINE q == EachOf(ChildrenOf(s, i), f[left - 1])
    <3>1. f[left][i] = <<Line(i, s, c - left)>> \o q
      BY <1>5, <2>1
    <3>2. ChildrenOf(s, i) \in SUBSET D
      BY DEF ChildrenOf, D
    <3>3. ChildrenOf(s, i) \subseteq Nat /\ IsFiniteSet(ChildrenOf(s, i))
      BY <1>1, <3>2
    <3>4. \A j \in ChildrenOf(s, i) : Nested(f[left - 1][j], (c - left) + 1, s, {j})
      BY <2>2, <3>2
    <3>5. Nested(q, (c - left) + 1, s, ChildrenOf(s, i))
      BY <2>1, <3>3, <3>4, NestedEach
    <3> HIDE DEF q
    <3>6. Nested(<<Line(i, s, c - left)>> \o q, c - left, s, {i})
      BY <2>1, <3>5, NestedUnder DEF D
    <3> QED
      BY <3>1, <3>6
  <2> QED
    BY <2>1, <2>3
<1> HIDE DEF G
<1>8. c \in G
  <2>1. c \in 0..c
    BY <1>2
  <2> QED
    BY <1>2, <1>6, <1>7, <2>1, UpTo
<1>9. \A i \in Roots(s) : Nested(f[c][i], 0, s, {i})
  <2>1. c - c = 0
    BY <1>2
  <2> QED
    BY <1>8, <2>1 DEF G, Roots, D
<1>10. Roots(s) \in SUBSET D
  BY DEF Roots, D
<1>11. Nested(EachOf(Roots(s), f[c]), 0, s, Roots(s))
  BY <1>1, <1>9, <1>10, NestedEach
<1> QED
  BY <1>4, <1>11

-----------------------------------------------------------------------------

(* What a line's block is in: the last line above that is not as deep. *)
LEMMA BlockIs ==
    ASSUME NEW t \in Seq(LineRec), NEW n \in DOMAIN t
    PROVE  /\ BlockOf(t, n) \in 0..(n - 1) /\ n \in Nat
           /\ BlockOf(t, n) = 0 => \A m \in 1..(n - 1) : ~(t[m].depth < t[n].depth)
           /\ BlockOf(t, n) # 0 => /\ t[BlockOf(t, n)].depth < t[n].depth
                                   /\ \A k \in (BlockOf(t, n) + 1)..(n - 1) : ~(t[k].depth < t[n].depth)
<1> DEFINE above == {m \in 1..(n - 1) : t[m].depth < t[n].depth}
           b == BlockOf(t, n)
<1>0. DOMAIN t = 1..Len(t) /\ Len(t) \in Nat /\ n \in Nat
  BY LenProperties
<1>1. b = IF above = {} THEN 0 ELSE CHOOSE m \in above : \A k \in above : k <= m
  BY DEF BlockOf
<1> HIDE DEF b
<1>2. CASE above = {}
  BY <1>0, <1>1, <1>2 DEF b
<1>3. CASE above # {}
  <2> DEFINE T == {n - m : m \in above}
  <2>1. T \subseteq Nat /\ T # {}
    BY <1>0, <1>3
  <2>2. \A m \in above : m \in 1..(n - 1) /\ t[m].depth < t[n].depth
    OBVIOUS
  <2>3. \A m \in 1..(n - 1) : t[m].depth < t[n].depth => m \in above
    OBVIOUS
  <2> HIDE DEF above
  <2>4. \A m \in above : n - m \in T
    OBVIOUS
  <2>5. \A x \in T : \E m \in above : x = n - m
    OBVIOUS
  <2> HIDE DEF T
  <2>6. PICK x \in T : \A y \in T : x <= y
    BY <2>1, NatLeast
  <2>7. PICK m \in above : x = n - m
    BY <2>5
  <2>8. \A k \in above : k <= m
    <3> SUFFICES ASSUME NEW k \in above PROVE k <= m
      OBVIOUS
    <3>1. n - m <= n - k
      BY <2>4, <2>6, <2>7
    <3>2. k \in Nat /\ m \in Nat
      BY <1>0, <2>2
    <3> QED
      BY <1>0, <3>1, <3>2
  <2>9. b \in above /\ \A k \in above : k <= b
    BY <1>1, <1>3, <2>8
  <2>10. b \in 1..(n - 1) /\ t[b].depth < t[n].depth
    BY <2>2, <2>9
  <2>11. ASSUME NEW k \in (b + 1)..(n - 1) PROVE ~(t[k].depth < t[n].depth)
    <3>1. k \in 1..(n - 1) /\ ~(k <= b)
      BY <1>0, <2>10
    <3> QED
      BY <2>3, <2>9, <3>1
  <2>12. b \in 0..(n - 1) /\ b # 0
    BY <1>0, <2>10
  <2> QED
    BY <1>0, <2>10, <2>11, <2>12 DEF b
<1> QED
  BY <1>2, <1>3

(* Two ops in a row, if they are there. *)
LEMMA TwoOps ==
    ASSUME NEW S, NEW x \in S, NEW y \in S
    PROVE  /\ <<x>> \o <<y>> \in Seq(S) /\ DOMAIN (<<x>> \o <<y>>) = {1, 2}
           /\ (<<x>> \o <<y>>)[1] = x /\ (<<x>> \o <<y>>)[2] = y
           /\ <<x>> \o << >> = <<x>> /\ << >> \o <<y>> = <<y>> /\ << >> \o << >> = << >>
           /\ <<x>> \in Seq(S) /\ DOMAIN <<x>> = {1} /\ << >> \in Seq(S) /\ DOMAIN << >> = {}
<1>1. <<x>> \in Seq(S) /\ <<y>> \in Seq(S) /\ Len(<<x>>) = 1 /\ Len(<<y>>) = 1
  OBVIOUS
<1>2. <<x>> \o <<y>> \in Seq(S) /\ Len(<<x>> \o <<y>>) = 2
  BY <1>1, ConcatProperties
<1>3. \A i \in 1..2 : (<<x>> \o <<y>>)[i] = IF i <= 1 THEN <<x>>[i] ELSE <<y>>[i - 1]
  <2>1. \A i \in 1..(Len(<<x>>) + Len(<<y>>)) :
           (<<x>> \o <<y>>)[i] = IF i <= Len(<<x>>) THEN <<x>>[i] ELSE <<y>>[i - Len(<<x>>)]
    BY <1>1, ConcatProperties
  <2> QED
    BY <1>1, <2>1
<1>4. DOMAIN (<<x>> \o <<y>>) = 1..2 /\ 1..2 = {1, 2}
  BY <1>2, LenProperties
<1>5. (<<x>> \o <<y>>)[1] = x /\ (<<x>> \o <<y>>)[2] = y
  BY <1>3
<1>6. << >> \in Seq(S) /\ DOMAIN << >> = {} /\ DOMAIN <<x>> = {1}
  BY EmptySeq
<1>7. <<x>> \o << >> = <<x>> /\ << >> \o <<y>> = <<y>> /\ << >> \o << >> = << >>
  BY <1>1, <1>6, ConcatEmptySeq
<1> QED
  BY <1>1, <1>2, <1>4, <1>5, <1>6, <1>7

(* What a line refers to: an element's id, or a temporary one. *)
LEMMA RefIs ==
    ASSUME NEW t \in Seq(LineRec)
    PROVE  /\ RefOf(t, 0) = NoOne
           /\ \A n \in DOMAIN t :
                 /\ t[n].anchor # NoOne => RefOf(t, n) = t[n].anchor /\ RefOf(t, n) \in Id
                 /\ t[n].anchor = NoOne => RefOf(t, n) = 0 - n /\ RefOf(t, n) < 0
                 /\ RefOf(t, n) \in Int /\ RefOf(t, n) # NoOne
<1>1. RefOf(t, 0) = NoOne
  BY DEF RefOf
<1>2. ASSUME NEW n \in DOMAIN t
      PROVE  /\ t[n].anchor # NoOne => RefOf(t, n) = t[n].anchor /\ RefOf(t, n) \in Id
             /\ t[n].anchor = NoOne => RefOf(t, n) = 0 - n /\ RefOf(t, n) < 0
             /\ RefOf(t, n) \in Int /\ RefOf(t, n) # NoOne
  <2>1. n \in Nat /\ n > 0
    BY LenProperties
  <2>2. t[n] \in LineRec
    BY ElementOfSeq, LenProperties
  <2>3. t[n].anchor \in Id \cup {NoOne}
    BY <2>2 DEF LineRec
  <2>4. RefOf(t, n) = IF t[n].anchor # NoOne THEN t[n].anchor ELSE 0 - n
    BY <2>1 DEF RefOf
  <2>5. CASE t[n].anchor # NoOne
    <3>1. RefOf(t, n) \in Id /\ RefOf(t, n) = t[n].anchor
      BY <2>3, <2>4, <2>5
    <3>2. \A i \in Id : i \in Int
      BY IdAssumption
    <3>3. RefOf(t, n) \in Int
      BY <3>1, <3>2
    <3> QED
      BY <2>5, <3>1, <3>3
  <2>6. CASE t[n].anchor = NoOne
    <3>1. RefOf(t, n) = 0 - n
      BY <2>4, <2>6
    <3>2. RefOf(t, n) < 0 /\ RefOf(t, n) \in Int
      BY <2>1, <3>1
    <3> QED
      BY <2>6, <3>1, <3>2 DEF NoOne
  <2> QED
    BY <2>5, <2>6
<1> QED
  BY <1>1, <1>2

(* What a line is in, or nothing. *)
LEMMA ParentRefIs ==
    ASSUME NEW t \in Seq(LineRec), NEW n \in DOMAIN t
    PROVE  RefOf(t, BlockOf(t, n)) \in Int
<1>1. BlockOf(t, n) \in 0..(n - 1) /\ n \in Nat
  BY BlockIs
<1>2. DOMAIN t = 1..Len(t) /\ Len(t) \in Nat
  BY LenProperties
<1>3. BlockOf(t, n) = 0 \/ BlockOf(t, n) \in DOMAIN t
  BY <1>1, <1>2
<1> QED
  BY <1>3, RefIs DEF NoOne

(* What the diff has for a line is that.                                     *)
LEMMA OpsOfIs ==
    ASSUME NEW s, NEW t \in Seq(LineRec), NEW n \in DOMAIN t
    PROVE  LineOps(OpsOf(s, t, n), s, t, n)
<1> DEFINE q == OpsOf(s, t, n)
           i == t[n].anchor
           p == RefOf(t, BlockOf(t, n))
           mk == [do |-> "create", id |-> RefOf(t, n), kind |-> t[n].kind, name |-> t[n].name, parent |-> p]
           nm == [do |-> "rename", id |-> i, name |-> t[n].name]
           mv == [do |-> "reparent", id |-> i, parent |-> p]
<1>1. i \in Id \cup {NoOne} /\ t[n].kind \in Kind /\ t[n].name \in Name
  <2>1. t[n] \in LineRec
    BY ElementOfSeq, LenProperties
  <2> QED
    BY <2>1 DEF LineRec
<1>2. p \in Int /\ RefOf(t, n) \in Int
  BY ParentRefIs, RefIs
<1>3. q = IF i = NoOne THEN <<mk>>
          ELSE (IF s.elements[i].name # t[n].name THEN <<nm>> ELSE << >>)
               \o (IF ParentOf(s, i) # p THEN <<mv>> ELSE << >>)
  BY DEF OpsOf
<1> HIDE DEF q
<1> SUFFICES LineOps(q, s, t, n)
  BY DEF q
<1>4. CASE i = NoOne
  <2>1. mk \in OpSet /\ Makes(mk, t, n)
    BY <1>1, <1>2, <1>4 DEF OpSet, Makes
  <2> HIDE DEF mk
  <2>2. q = <<mk>> /\ q \in Seq(OpSet) /\ DOMAIN q = {1} /\ q[1] = mk
    <3>1. q = <<mk>>
      BY <1>3, <1>4
    <3> QED
      BY <2>1, <3>1, TwoOps
  <2>3. \A j, l \in DOMAIN q : ~(j < l)
    BY <2>2
  <2> QED
    BY <1>4, <2>1, <2>2, <2>3 DEF LineOps
<1>5. CASE i # NoOne
  <2>1. nm \in OpSet /\ mv \in OpSet
    BY <1>1, <1>2, <1>5 DEF OpSet
  <2>2. nm.do = "rename" /\ mv.do = "reparent"
    OBVIOUS
  <2>3. s.elements[i].name # t[n].name <=> Names(nm, s, t, n)
    BY <1>5 DEF Names
  <2>4. ParentOf(s, i) # p <=> Moves(mv, s, t, n)
    BY <1>5 DEF Moves
  <2> HIDE DEF nm, mv
  <2>5. q = (IF Names(nm, s, t, n) THEN <<nm>> ELSE << >>) \o (IF Moves(mv, s, t, n) THEN <<mv>> ELSE << >>)
    BY <1>3, <1>5, <2>3, <2>4
  <2>6. CASE Names(nm, s, t, n) /\ Moves(mv, s, t, n)
    <3>1. q = <<nm>> \o <<mv>>
      BY <2>5, <2>6
    <3>2. q \in Seq(OpSet) /\ DOMAIN q = {1, 2} /\ q[1] = nm /\ q[2] = mv
      BY <2>1, <3>1, TwoOps
    <3>3. \A j, l \in DOMAIN q : j < l => j = 1 /\ l = 2
      BY <3>2
    <3> QED
      BY <1>5, <2>2, <2>6, <3>2, <3>3 DEF LineOps
  <2>7. CASE Names(nm, s, t, n) /\ ~Moves(mv, s, t, n)
    <3>1. q = <<nm>>
      BY <2>1, <2>5, <2>7, TwoOps
    <3>2. q \in Seq(OpSet) /\ DOMAIN q = {1} /\ q[1] = nm
      BY <2>1, <3>1, TwoOps
    <3>3. \A j, l \in DOMAIN q : ~(j < l)
      BY <3>2
    <3> QED
      BY <1>5, <2>4, <2>7, <3>2, <3>3 DEF LineOps
  <2>8. CASE ~Names(nm, s, t, n) /\ Moves(mv, s, t, n)
    <3>1. q = <<mv>>
      BY <2>1, <2>5, <2>8, TwoOps
    <3>2. q \in Seq(OpSet) /\ DOMAIN q = {1} /\ q[1] = mv
      BY <2>1, <3>1, TwoOps
    <3>3. \A j, l \in DOMAIN q : ~(j < l)
      BY <3>2
    <3> QED
      BY <1>5, <2>3, <2>8, <3>2, <3>3 DEF LineOps
  <2>9. CASE ~Names(nm, s, t, n) /\ ~Moves(mv, s, t, n)
    <3>1. q = << >>
      BY <2>1, <2>5, <2>9, TwoOps
    <3>2. q \in Seq(OpSet) /\ DOMAIN q = {}
      BY <2>1, <3>1, TwoOps
    <3> QED
      BY <1>5, <2>3, <2>4, <2>9, <3>2 DEF LineOps
  <2> QED
    BY <2>6, <2>7, <2>8, <2>9
<1> QED
  BY <1>4, <1>5

(* A diff is made of such ops.                                               *)
LEMMA OpsAre ==
    ASSUME NEW s, NEW t \in Seq(LineRec)
    PROVE  /\ IsOps(DiffOps(s, t))
           /\ \E w : OpsFrom(w, s, t, DiffOps(s, t))
<1> DEFINE ops == DiffOps(s, t)
           ss == [n \in DOMAIN t |-> OpsOf(s, t, n)]
           c == Len(t)
<1>1. DOMAIN t = 1..c /\ c \in Nat
  BY LenProperties
<1>2. \A n \in DOMAIN t : ss[n] = OpsOf(s, t, n) /\ ss[n] \in Seq(OpSet)
  BY OpsOfIs DEF LineOps
<1>3. ss \in Seq(Seq(OpSet)) /\ Len(ss) = c /\ DOMAIN ss = 1..c
  <2>1. ss \in [1..c -> Seq(OpSet)]
    BY <1>1, <1>2
  <2>2. ss \in Seq(Seq(OpSet))
    BY <1>1, <2>1, SeqDef
  <2> QED
    BY <1>1, <2>1, <2>2
<1>4. ops = FlattenSeq(ss)
  BY DEF DiffOps
<1> HIDE DEF ops, ss, c
<1>5. ops \in Seq(OpSet)
  BY <1>3, <1>4, FlattenIs
<1>6. PICK v : Places(ss, ops, c, v)
  BY <1>3, <1>4, FlattenIs
<1>7. DOMAIN ops = 1..Len(ops) /\ Len(ops) \in Nat /\ \A k \in DOMAIN ops : ops[k] \in OpSet
  BY <1>5, ElementOfSeq, LenProperties
<1>8. /\ \A k \in DOMAIN ops : /\ v[k][1] \in 1..c /\ v[k][2] \in DOMAIN ss[v[k][1]]
                               /\ ops[k] = ss[v[k][1]][v[k][2]]
      /\ \A k, l \in DOMAIN ops :
            k < l => v[k][1] < v[l][1] \/ (v[k][1] = v[l][1] /\ v[k][2] < v[l][2])
      /\ \A m \in 1..c : \A j \in DOMAIN ss[m] : \E k \in DOMAIN ops : v[k] = <<m, j>>
  BY <1>6 DEF Places
<1> DEFINE w == [k \in DOMAIN ops |-> v[k][1]]
<1>9. \A k \in DOMAIN ops : w[k] = v[k][1]
  OBVIOUS
<1> HIDE DEF w
<1>10. ASSUME NEW n \in DOMAIN t
       PROVE  /\ \A j \in DOMAIN ss[n] : Makes(ss[n][j], t, n) \/ Names(ss[n][j], s, t, n) \/ Moves(ss[n][j], s, t, n)
              /\ \A j, l \in DOMAIN ss[n] : j < l => ss[n][j].do = "rename" /\ ss[n][l].do = "reparent"
              /\ t[n].anchor = NoOne => \E j \in DOMAIN ss[n] : Makes(ss[n][j], t, n)
              /\ (t[n].anchor # NoOne /\ s.elements[t[n].anchor].name # t[n].name) =>
                    \E j \in DOMAIN ss[n] : Names(ss[n][j], s, t, n)
              /\ (t[n].anchor # NoOne /\ ParentOf(s, t[n].anchor) # RefOf(t, BlockOf(t, n))) =>
                    \E j \in DOMAIN ss[n] : Moves(ss[n][j], s, t, n)
  <2>1. ss[n] = OpsOf(s, t, n)
    BY <1>2
  <2>2. LineOps(ss[n], s, t, n)
    BY <2>1, OpsOfIs
  <2> QED
    BY <2>2 DEF LineOps
<1>11. ASSUME NEW n \in DOMAIN t, NEW j \in DOMAIN ss[n] PROVE \E k \in DOMAIN ops : w[k] = n /\ ops[k] = ss[n][j]
  <2>1. PICK k \in DOMAIN ops : v[k] = <<n, j>>
    BY <1>1, <1>8
  <2>2. v[k][1] = n /\ v[k][2] = j
    BY <2>1
  <2>3. ops[k] = ss[n][j]
    BY <1>8, <2>2
  <2> QED
    BY <1>9, <2>2, <2>3
<1>12. \A k \in DOMAIN ops :
          /\ w[k] \in DOMAIN t
          /\ Makes(ops[k], t, w[k]) \/ Names(ops[k], s, t, w[k]) \/ Moves(ops[k], s, t, w[k])
  BY <1>1, <1>8, <1>9, <1>10
<1>13. ASSUME NEW k \in DOMAIN ops, NEW l \in DOMAIN ops, k < l
       PROVE  w[k] < w[l] \/ (w[k] = w[l] /\ ops[k].do = "rename" /\ ops[l].do = "reparent")
  <2>1. CASE v[k][1] < v[l][1]
    BY <1>9, <2>1
  <2>2. CASE v[k][1] = v[l][1] /\ v[k][2] < v[l][2]
    <3> DEFINE n == v[k][1]
    <3>1. n \in DOMAIN t /\ v[k][2] \in DOMAIN ss[n] /\ v[l][2] \in DOMAIN ss[n]
      BY <1>1, <1>8, <2>2
    <3>2. ops[k] = ss[n][v[k][2]] /\ ops[l] = ss[n][v[l][2]]
      BY <1>8, <2>2
    <3>3. ss[n][v[k][2]].do = "rename" /\ ss[n][v[l][2]].do = "reparent"
      BY <1>10, <2>2, <3>1
    <3> QED
      BY <1>9, <2>2, <3>2, <3>3
  <2> QED
    BY <1>8, <1>13, <2>1, <2>2
<1>14. ASSUME NEW n \in DOMAIN t
       PROVE  /\ t[n].anchor = NoOne => \E k \in DOMAIN ops : w[k] = n /\ Makes(ops[k], t, n)
              /\ (t[n].anchor # NoOne /\ s.elements[t[n].anchor].name # t[n].name) =>
                    \E k \in DOMAIN ops : w[k] = n /\ Names(ops[k], s, t, n)
              /\ (t[n].anchor # NoOne /\ ParentOf(s, t[n].anchor) # RefOf(t, BlockOf(t, n))) =>
                    \E k \in DOMAIN ops : w[k] = n /\ Moves(ops[k], s, t, n)
  <2>1. ASSUME t[n].anchor = NoOne PROVE \E k \in DOMAIN ops : w[k] = n /\ Makes(ops[k], t, n)
    <3>1. PICK j \in DOMAIN ss[n] : Makes(ss[n][j], t, n)
      BY <1>10, <2>1
    <3>2. PICK k \in DOMAIN ops : w[k] = n /\ ops[k] = ss[n][j]
      BY <1>11
    <3> QED
      BY <3>1, <3>2
  <2>2. ASSUME t[n].anchor # NoOne, s.elements[t[n].anchor].name # t[n].name
        PROVE  \E k \in DOMAIN ops : w[k] = n /\ Names(ops[k], s, t, n)
    <3>1. PICK j \in DOMAIN ss[n] : Names(ss[n][j], s, t, n)
      BY <1>10, <2>2
    <3>2. PICK k \in DOMAIN ops : w[k] = n /\ ops[k] = ss[n][j]
      BY <1>11
    <3> QED
      BY <3>1, <3>2
  <2>3. ASSUME t[n].anchor # NoOne, ParentOf(s, t[n].anchor) # RefOf(t, BlockOf(t, n))
        PROVE  \E k \in DOMAIN ops : w[k] = n /\ Moves(ops[k], s, t, n)
    <3>1. PICK j \in DOMAIN ss[n] : Moves(ss[n][j], s, t, n)
      BY <1>10, <2>3
    <3>2. PICK k \in DOMAIN ops : w[k] = n /\ ops[k] = ss[n][j]
      BY <1>11
    <3> QED
      BY <3>1, <3>2
  <2> QED
    BY <2>1, <2>2, <2>3
<1>15. OpsFrom(w, s, t, ops)
  BY <1>12, <1>13, <1>14 DEF OpsFrom
<1>16. \A k \in DOMAIN ops : ops[k].do = "create" => Makes(ops[k], t, w[k])
  BY <1>12 DEF Names, Moves
<1>17. \A k \in DOMAIN ops : ops[k].do = "create" => ops[k].id = 0 - w[k] /\ ops[k].id < 0 /\ w[k] \in Nat
  <2> SUFFICES ASSUME NEW k \in DOMAIN ops, ops[k].do = "create"
               PROVE  ops[k].id = 0 - w[k] /\ ops[k].id < 0 /\ w[k] \in Nat
    OBVIOUS
  <2>1. w[k] \in DOMAIN t /\ t[w[k]].anchor = NoOne /\ ops[k].id = RefOf(t, w[k])
    BY <1>12, <1>16 DEF Makes
  <2> QED
    BY <1>1, <2>1, RefIs
<1>18. ASSUME NEW k \in DOMAIN ops, NEW l \in DOMAIN ops, ops[k].do = "create", ops[l].do = "create",
              ops[k].id = ops[l].id
       PROVE  k = l
  <2>0. k \in Nat /\ l \in Nat
    BY <1>7
  <2>1. w[k] = w[l]
    <3>1. 0 - w[k] = 0 - w[l] /\ w[k] \in Nat /\ w[l] \in Nat
      BY <1>17, <1>18
    <3> QED
      BY <3>1
  <2>3. ~(w[k] < w[l]) /\ ~(w[l] < w[k])
    <3>1. w[k] \in Nat /\ w[l] \in Nat
      BY <1>17, <1>18
    <3> QED
      BY <2>1, <3>1
  <2>4. ops[k].do # "rename" /\ ops[l].do # "rename"
    BY <1>18
  <2>2. ~(k < l) /\ ~(l < k)
    BY <1>13, <2>3, <2>4
  <2> QED
    BY <2>0, <2>2
<1>19. IsOps(ops)
  BY <1>5, <1>17, <1>18 DEF IsOps
<1> QED
  BY <1>15, <1>19 DEF ops

-----------------------------------------------------------------------------

(* No model at all. *)
LEMMA EmptyIs == IsModel(Empty) /\ OneParent(Empty) /\ IsElements(<< >>)
<1>1. DOMAIN << >> = {} /\ << >> \in [DOMAIN << >> -> ElementRec]
  <2>1. << >> \in Seq(ElementRec) /\ Len(<< >>) = 0
    BY EmptySeq
  <2> QED
    BY <2>1, LenProperties
<1>2. Empty.elements = << >> /\ Empty.edges = {} /\ Snap(Empty)
  BY DEF Empty, Snap
<1> QED
  BY <1>1, <1>2 DEF IsModel, OneParent, ContainsOf, IsElements

(* What is printed is a text. *)
LEMMA PrintType == ASSUME NEW s, IsModel(s) PROVE PrintTree(s) \in Seq(LineRec)
BY PrintIs DEF Nested

(* What a write leaves. *)
LEMMA WrittenIs ==
    ASSUME NEW ops, IsOps(ops), Len(Created(ops)) <= Len(Unused),
           NEW s, Whole(s), DOMAIN s.elements \subseteq used
    PROVE  /\ Whole(Written(s, ops, RealIds(ops)))
           /\ DOMAIN Written(s, ops, RealIds(ops)).elements \subseteq used \cup Range(RealIds(ops))
           /\ Range(RealIds(ops)) \subseteq Id
           /\ RealOps(ops, RealIds(ops)) \in Seq(OpSet)
<1> DEFINE ids == RealIds(ops)
           q == RealOps(ops, ids)
           c == Len(ops)
<1>1. /\ DOMAIN ids = {ops[k].id : k \in {k \in DOMAIN ops : ops[k].do = "create"}}
      /\ \A i \in DOMAIN ids : i \in Int /\ i < 0 /\ ids[i] \in Id \ used
  BY RealIdsAre
<1>2. PICK f : /\ WriteRun(f, s, q, c)
               /\ \A k \in 0..c : /\ Whole(f[k])
                                  /\ DOMAIN f[k].elements = DOMAIN s.elements \cup {ids[i] : i \in MadeBy(ops, k)}
  BY WrittenSteps
<1>3. Written(s, ops, ids) = WriteFold(s, q)
  BY DEF Written, WriteFold
<1> HIDE DEF ids
<1>4. /\ DOMAIN q = 1..c /\ c \in Nat /\ DOMAIN ops = 1..c
      /\ \A k \in 1..c : /\ ops[k] \in OpSet /\ q[k].do = ops[k].do
                         /\ ops[k].do = "rename" => q[k] = ops[k]
                         /\ ops[k].do = "create" => /\ IsCreate(q[k]) /\ q[k].id = Real(ids, ops[k].id)
                                                    /\ q[k].kind = ops[k].kind /\ q[k].name = ops[k].name
                                                    /\ q[k].parent = Real(ids, ops[k].parent)
                                                    /\ ops[k].kind \in Kind /\ ops[k].name \in Name
                                                    /\ ops[k].parent \in Int /\ ops[k].id \in Int
                         /\ ops[k].do = "reparent" => /\ IsReparent(q[k]) /\ q[k].id = ops[k].id
                                                      /\ q[k].parent = Real(ids, ops[k].parent)
                                                      /\ ops[k].id \in Id /\ ops[k].parent \in Int
  <2>1. \A i \in DOMAIN ids : i \in Int /\ i < 0
    BY <1>1
  <2> QED
    BY <2>1, RealOpsAre
<1>5. Written(s, ops, ids) = f[c] /\ c \in 0..c
  BY <1>2, <1>3, <1>4 DEF WriteRun
<1> HIDE DEF q, c
<1>6. \A i \in MadeBy(ops, c) : i \in DOMAIN ids
  BY <1>1, <1>4 DEF MadeBy
<1>7. \A i \in DOMAIN ids : ids[i] \in Range(ids)
  BY DEF Range
<1>8. DOMAIN Written(s, ops, ids).elements \subseteq used \cup Range(ids) /\ Whole(Written(s, ops, ids))
  BY <1>2, <1>5, <1>6, <1>7
<1>9. Range(ids) \subseteq Id
  BY <1>1 DEF Range
<1>10. \A i \in Id : i \in Int
  BY IdAssumption
<1>11. \A i \in Int : Real(ids, i) \in Int
  BY <1>1, <1>10 DEF Real
<1>12. ASSUME NEW k \in 1..c PROVE q[k] \in OpSet
  <2>1. ops[k].do \in {"rename", "create", "reparent"}
    BY <1>4, OpIs
  <2>2. CASE ops[k].do = "rename"
    BY <1>4, <2>2
  <2>3. CASE ops[k].do = "create"
    <3>1. /\ q[k] = [do |-> "create", id |-> q[k].id, kind |-> q[k].kind, name |-> q[k].name, parent |-> q[k].parent]
          /\ q[k].id \in Int /\ q[k].kind \in Kind /\ q[k].name \in Name /\ q[k].parent \in Int
      BY <1>4, <1>11, <2>3 DEF IsCreate
    <3> QED
      BY <3>1 DEF OpSet
  <2>4. CASE ops[k].do = "reparent"
    <3>1. /\ q[k] = [do |-> "reparent", id |-> q[k].id, parent |-> q[k].parent]
          /\ q[k].id \in Id /\ q[k].parent \in Int
      BY <1>4, <1>11, <2>4 DEF IsReparent
    <3> QED
      BY <3>1 DEF OpSet
  <2> QED
    BY <2>1, <2>2, <2>3, <2>4
<1>13. q \in Seq(OpSet)
  <2>1. q = [k \in 1..c |-> q[k]]
    BY <1>4 DEF q, RealOps
  <2>2. q \in [1..c -> OpSet]
    BY <1>12, <2>1
  <2> QED
    BY <1>4, <2>2, SeqDef
<1> QED
  BY <1>8, <1>9, <1>13 DEF q, ids

(* The block that begins at a line: a range of lines below it, deeper. *)
LEMMA BlockRange ==
    ASSUME text \in Seq(LineRec), NEW n \in DOMAIN text
    PROVE  \E m \in n..Len(text) : /\ Block(n) = n..m /\ Cardinality(Block(n)) = m - n + 1
                                   /\ \A k \in (n + 1)..m : text[k].depth > text[n].depth
<1> DEFINE Is(m) == /\ \A k \in (n + 1)..m : text[k].depth > text[n].depth
                    /\ m = Len(text) \/ text[m + 1].depth <= text[n].depth
           T == {k \in (n + 1)..Len(text) : ~(text[k].depth > text[n].depth)}
<1>0. Len(text) \in Nat /\ DOMAIN text = 1..Len(text) /\ n \in Nat
  BY LenProperties
<1>1. \A k \in DOMAIN text : text[k].depth \in Nat
  <2>1. \A k \in DOMAIN text : text[k] \in LineRec
    BY ElementOfSeq, LenProperties
  <2> QED
    BY <2>1 DEF LineRec
<1>2. \E m \in n..Len(text) : Is(m)
  <2>1. CASE T = {}
    <3>1. Len(text) \in n..Len(text)
      BY <1>0
    <3> QED
      BY <2>1, <3>1
  <2>2. CASE T # {}
    <3>1. T \subseteq Nat
      BY <1>0
    <3>2. \A k \in T : k \in (n + 1)..Len(text) /\ ~(text[k].depth > text[n].depth)
      OBVIOUS
    <3>3. \A k \in (n + 1)..Len(text) : ~(text[k].depth > text[n].depth) => k \in T
      OBVIOUS
    <3> HIDE DEF T
    <3>4. PICK x \in T : \A y \in T : x <= y
      BY <2>2, <3>1, NatLeast
    <3>5. x \in (n + 1)..Len(text) /\ text[x].depth <= text[n].depth /\ x \in Nat
      <4>1. x \in (n + 1)..Len(text) /\ ~(text[x].depth > text[n].depth)
        BY <3>2
      <4>2. x \in DOMAIN text /\ x \in Nat
        BY <1>0, <4>1
      <4>3. text[x].depth \in Nat /\ text[n].depth \in Nat
        BY <1>1, <4>2
      <4> QED
        BY <4>1, <4>2, <4>3
    <3>6. \A k \in (n + 1)..(x - 1) : text[k].depth > text[n].depth
      <4> SUFFICES ASSUME NEW k \in (n + 1)..(x - 1), ~(text[k].depth > text[n].depth) PROVE FALSE
        OBVIOUS
      <4>1. k \in (n + 1)..Len(text) /\ ~(x <= k)
        BY <1>0, <3>5
      <4> QED
        BY <3>3, <3>4, <4>1
    <3>7. x - 1 \in n..Len(text) /\ (x - 1) + 1 = x
      BY <1>0, <3>5
    <3> QED
      BY <3>5, <3>6, <3>7
  <2> QED
    BY <2>1, <2>2
<1> DEFINE m == CHOOSE m \in n..Len(text) : Is(m)
<1>3. Block(n) = n..m
  BY DEF Block
<1> HIDE DEF Is
<1>4. m \in n..Len(text) /\ Is(m)
  BY <1>2
<1> HIDE DEF m
<1>5. Cardinality(Block(n)) = m - n + 1
  <2>1. n \in Int /\ m \in Int /\ ~(n > m)
    BY <1>0, <1>4
  <2> QED
    BY <1>3, <2>1, FS_Interval
<1> QED
  BY <1>3, <1>4, <1>5 DEF Is

(* An edited text is a text. *)
LEMMA EditType ==
    ASSUME TText, Typing
    PROVE  /\ text \in Seq(LineRec)
           /\ text' \in Texts
           /\ UNCHANGED base
<1>0. text \in Texts /\ base \in Seq(LineRec)
  BY DEF TText
<1>1. text # Unparsable
  BY DEF Typing, Retitle, Rekind, Indent, Cut, Copy, Spoil, Insert, Type
<1>2. text \in Seq(LineRec)
  BY <1>0, <1>1 DEF Texts
<1>3. Len(text) \in Nat /\ DOMAIN text = 1..Len(text) /\ text \in [1..Len(text) -> LineRec]
  BY <1>2, LenProperties
<1>4. \A n \in DOMAIN text : text[n] \in LineRec
  BY <1>3
<1>5. UNCHANGED base
  BY DEF Typing, Retitle, Rekind, Indent, Cut, Copy, Spoil, Insert, Type
<1>6. \A t : t \in Seq(LineRec) => t \in Texts
  BY DEF Texts
<1>7. ASSUME NEW t, t \in [1..Len(text) -> LineRec] PROVE t \in Seq(LineRec)
  BY <1>3, <1>7, SeqDef
<1>8. CASE Retitle
  <2>1. PICK n \in DOMAIN text, m \in Name : text' = [text EXCEPT ![n].name = m]
    BY <1>8 DEF Retitle, Type
  <2>2. [text[n] EXCEPT !.name = m] \in LineRec
    BY <1>4 DEF LineRec
  <2>3. text' = [text EXCEPT ![n] = [text[n] EXCEPT !.name = m]]
    BY <2>1
  <2> DEFINE line == [text[n] EXCEPT !.name = m]
  <2> HIDE DEF line
  <2>4. [text EXCEPT ![n] = line] \in [1..Len(text) -> LineRec]
    BY <1>3, <2>2 DEF line
  <2> QED
    BY <1>2, <1>5, <1>6, <1>7, <2>3, <2>4 DEF line
<1>9. CASE Rekind
  <2>1. PICK n \in DOMAIN text, m \in Kind : text' = [text EXCEPT ![n].kind = m]
    BY <1>9 DEF Rekind, Type
  <2>2. [text[n] EXCEPT !.kind = m] \in LineRec
    BY <1>4 DEF LineRec
  <2>3. text' = [text EXCEPT ![n] = [text[n] EXCEPT !.kind = m]]
    BY <2>1
  <2> DEFINE line == [text[n] EXCEPT !.kind = m]
  <2> HIDE DEF line
  <2>4. [text EXCEPT ![n] = line] \in [1..Len(text) -> LineRec]
    BY <1>3, <2>2 DEF line
  <2> QED
    BY <1>2, <1>5, <1>6, <1>7, <2>3, <2>4 DEF line
<1>10. CASE Indent
  <2>1. PICK n \in DOMAIN text, by \in {-1, 1} :
           /\ text[n].depth + by >= 0
           /\ text' = [m \in DOMAIN text |->
                          IF m \in Block(n) THEN [text[m] EXCEPT !.depth = @ + by] ELSE text[m]]
    BY <1>10 DEF Indent, Type
  <2>2. PICK last \in n..Len(text) : /\ Block(n) = n..last
                                     /\ \A k \in (n + 1)..last : text[k].depth > text[n].depth
    BY <1>2, BlockRange
  <2>3. ASSUME NEW k \in Block(n) PROVE [text[k] EXCEPT !.depth = @ + by] \in LineRec /\ k \in DOMAIN text
    <3>1. k \in DOMAIN text /\ n \in Nat /\ k \in Nat /\ (k = n \/ k \in (n + 1)..last)
      BY <1>3, <2>2
    <3>2. text[k] \in LineRec /\ text[n] \in LineRec
      BY <1>4, <3>1
    <3>3. text[k].depth \in Nat /\ text[n].depth \in Nat
      BY <3>2 DEF LineRec
    <3>4. text[k].depth = text[n].depth \/ text[k].depth > text[n].depth
      BY <2>2, <3>1
    <3>5. text[k].depth + by \in Nat
      BY <2>1, <3>3, <3>4
    <3> QED
      BY <3>1, <3>2, <3>5 DEF LineRec
  <2>4. text' \in [1..Len(text) -> LineRec]
    BY <1>3, <1>4, <2>1, <2>3
  <2> QED
    BY <1>2, <1>5, <1>6, <1>7, <2>4
<1>11. CASE Cut
  <2>1. PICK n \in DOMAIN text :
           text' = SubSeq(text, 1, n - 1) \o SubSeq(text, n + Cardinality(Block(n)), Len(text))
    BY <1>11 DEF Cut, Type
  <2>2. PICK last \in n..Len(text) : Cardinality(Block(n)) = last - n + 1
    BY <1>2, BlockRange
  <2> DEFINE x == n + Cardinality(Block(n))
  <2>3. x \in Nat /\ x >= 1 /\ n - 1 \in Int
    BY <1>3, <2>2
  <2> HIDE DEF x
  <2>4. (\A i \in 1..(n - 1) : text[i] \in LineRec) /\ (\A i \in x..Len(text) : text[i] \in LineRec)
    BY <1>3, <1>4, <2>3
  <2>5. SubSeq(text, 1, n - 1) \in Seq(LineRec)
    BY <2>3, <2>4, SubSeqProperties
  <2>6. SubSeq(text, x, Len(text)) \in Seq(LineRec)
    BY <1>3, <2>3, <2>4, SubSeqProperties
  <2>7. text' \in Seq(LineRec)
    BY <2>1, <2>5, <2>6, ConcatProperties DEF x
  <2> QED
    BY <1>2, <1>5, <1>6, <2>7
<1>12. CASE Copy
  <2>1. PICK n \in DOMAIN text : text' = Append(text, [text[n] EXCEPT !.depth = 0])
    BY <1>12 DEF Copy, Type
  <2>2. [text[n] EXCEPT !.depth = 0] \in LineRec
    BY <1>4 DEF LineRec
  <2>3. text' \in Seq(LineRec)
    BY <1>2, <2>1, <2>2, AppendProperties
  <2> QED
    BY <1>2, <1>5, <1>6, <2>3
<1>13. CASE Spoil
  BY <1>2, <1>5, <1>13 DEF Spoil, Type, Texts
<1>14. CASE Insert
  <2>1. PICK n \in 0..Len(text), l \in NewLines, d \in 0..Len(text) :
           text' = InsertAt(text, n + 1, [anchor |-> NoOne, kind |-> l.kind, name |-> l.name, depth |-> d])
    BY <1>14 DEF Insert, Type
  <2> DEFINE line == [anchor |-> NoOne, kind |-> l.kind, name |-> l.name, depth |-> d]
  <2>2. line \in LineRec
    <3>1. l.kind \in Kind /\ l.name \in Name /\ d \in Nat
      BY LinesAssumption
    <3> QED
      BY <3>1 DEF LineRec
  <2> HIDE DEF line
  <2>3. /\ text' = SubSeq(text, 1, n) \o <<line>> \o SubSeq(text, n + 1, Len(text))
    <3>1. (n + 1) - 1 = n
      BY <1>3
    <3> QED
      BY <2>1, <3>1 DEF InsertAt, line
  <2>4. n \in Int /\ n + 1 \in Int /\ 1 \in Int /\ Len(text) \in Int
    BY <1>3
  <2>5. (\A i \in 1..n : text[i] \in LineRec) /\ (\A i \in (n + 1)..Len(text) : text[i] \in LineRec)
    BY <1>3, <1>4
  <2>6. SubSeq(text, 1, n) \in Seq(LineRec) /\ SubSeq(text, n + 1, Len(text)) \in Seq(LineRec)
    BY <2>4, <2>5, SubSeqProperties
  <2>7. <<line>> \in Seq(LineRec)
    BY <2>2
  <2>8. SubSeq(text, 1, n) \o <<line>> \in Seq(LineRec)
    BY <2>6, <2>7, ConcatProperties
  <2>9. text' \in Seq(LineRec)
    BY <2>3, <2>6, <2>8, ConcatProperties
  <2> QED
    BY <1>2, <1>5, <1>6, <2>9
<1> QED
  BY <1>8, <1>9, <1>10, <1>11, <1>12, <1>13, <1>14 DEF Typing

-----------------------------------------------------------------------------

(* What the server reads of a model is a model. *)
LEMMA ReadIs ==
    ASSUME NEW s, IsModel(s), OneParent(s)
    PROVE  IsModel(Read(s.elements, ContainsOf(s))) /\ OneParent(Read(s.elements, ContainsOf(s)))
<1> DEFINE r == Read(s.elements, ContainsOf(s))
<1>1. r.elements = s.elements /\ r.edges = ContainsOf(s) /\ Snap(r)
  BY DEF Read, Snap
<1>2. ContainsOf(r) = ContainsOf(s) /\ ContainsOf(s) \subseteq s.edges
  BY <1>1 DEF ContainsOf
<1> HIDE DEF r
<1> QED
  BY <1>1, <1>2 DEF r, IsModel, OneParent

(* Fewer edges, or no elements, are a model too. *)
LEMMA ReadLess ==
    ASSUME NEW els, IsElements(els), NEW s, IsModel(s), OneParent(s)
    PROVE  /\ IsModel(Read(els, ContainsOf(s))) /\ OneParent(Read(els, ContainsOf(s)))
           /\ IsModel(Read(els, {})) /\ OneParent(Read(els, {}))
<1>1. ASSUME NEW E, E \subseteq ContainsOf(s)
      PROVE  IsModel(Read(els, E)) /\ OneParent(Read(els, E))
  <2> DEFINE r == Read(els, E)
  <2>1. r.elements = els /\ r.edges = E /\ Snap(r)
    BY DEF Read, Snap
  <2>2. ContainsOf(r) \subseteq ContainsOf(s) /\ ContainsOf(s) \subseteq s.edges
    BY <1>1, <2>1 DEF ContainsOf
  <2> HIDE DEF r
  <2> QED
    BY <1>1, <2>1, <2>2 DEF r, IsModel, OneParent, IsElements
<1> QED
  BY <1>1

(* What is installed is what was read. *)
LEMMA InstallIs ==
    ASSUME NEW els, NEW E
    PROVE  [Empty EXCEPT !.elements = els, !.edges = E] = Read(els, E)
<1> DEFINE e == [Empty EXCEPT !.elements = els, !.edges = E]
<1>1. DOMAIN Empty = {"elements", "edges", "bodies"}
  BY DEF Empty
<1>2. e = [f \in DOMAIN Empty |-> IF f = "edges" THEN E ELSE IF f = "elements" THEN els ELSE Empty[f]]
  OBVIOUS
<1>3. Empty["bodies"] = << >>
  BY DEF Empty
<1>4. Read(els, E) = [f \in {"elements", "edges", "bodies"} |->
                        IF f = "edges" THEN E ELSE IF f = "elements" THEN els ELSE << >>]
  BY DEF Read
<1> QED
  BY <1>1, <1>2, <1>3, <1>4

(* A handler goes to where its job is in order. *)
LEMMA GotoOK ==
    ASSUME TJobs, NEW h \in Handler, NEW j, JobOK(j), Goto(h, j)
    PROVE  TJobs'
BY DEF TJobs, Goto

(* A message at the head of the queue. *)
LEMMA MessageIs ==
    ASSUME TServer, toServer # << >>
    PROVE  /\ Head(toServer) \in Message /\ Tail(toServer) \in Seq(Message)
           /\ Head(toServer).what = "text" =>
                 /\ Head(toServer) = [what |-> "text", text |-> Head(toServer).text, base |-> Head(toServer).base]
                 /\ Head(toServer).text \in Texts /\ Head(toServer).base \in Seq(LineRec)
           /\ Head(toServer).what = "renamed" =>
                 Head(toServer).id \in Id /\ Head(toServer).name \in Name
<1>1. Head(toServer) \in Message /\ Tail(toServer) \in Seq(Message)
  BY HeadTailProperties DEF TServer
<1> DEFINE m == Head(toServer)
<1>2. m \in Message
  BY <1>1
<1> HIDE DEF m
<1>3. /\ m.what = "text" => m = [what |-> "text", text |-> m.text, base |-> m.base] /\ m.text \in Texts /\ m.base \in Seq(LineRec)
      /\ m.what = "renamed" => m.id \in Id /\ m.name \in Name
  BY <1>2 DEF Message
<1> QED
  BY <1>1, <1>3 DEF m

(* What a job at each of its steps carries. *)
LEMMA JobIs ==
    ASSUME NEW j, JobOK(j)
    PROVE  /\ j.pc = "check" => /\ j = [pc |-> "check", ops |-> j.ops, text |-> j.text, base |-> j.base, read |-> j.read]
                                /\ j.ops = DiffOps(j.read, j.text) /\ ~HasErrors(j.read, j.text)
                                /\ IsModel(j.read) /\ OneParent(j.read)
                                /\ j.text \in Seq(LineRec) /\ j.base \in Seq(LineRec)
           /\ j.pc = "write" => IsOps(j.ops) /\ Accepts(j.seen, j.ops)
           /\ j.pc = "record" => j.ops \in Seq(OpSet)
           /\ j.pc = "contains" => IsElements(j.elements)
           /\ j.pc = "install" => IsModel(Read(j.elements, j.edges)) /\ OneParent(Read(j.elements, j.edges))
           /\ j # Idle => j.pc \in {"check", "write", "record", "answer", "elements", "contains", "install"}
           /\ j.pc = "idle" => j = Idle
BY DEF JobOK, Idle

(* At first. *)
LEMMA TypeInit == Init => TypeOK
<1> SUFFICES ASSUME Init PROVE TypeOK
  OBVIOUS
<1>1. Whole(First)
  <2>1. Snap(First) /\ DOMAIN First.elements \subseteq Id
    BY FirstAssumption DEF Snap
  <2>2. First.elements \in [DOMAIN First.elements -> ElementRec]
    <3> SUFFICES ASSUME NEW i \in DOMAIN First.elements PROVE First.elements[i] \in ElementRec
      BY FirstAssumption
    <3>1. First.elements[i] \in [kind : Kind, name : Name, active : BOOLEAN, origin : STRING]
      BY FirstAssumption
    <3>2. First.elements[i].origin \in Origin
      BY DEF Origin
    <3> QED
      BY <3>1, <3>2 DEF ElementRec
  <2>3. ASSUME NEW e \in First.edges
        PROVE  e \in EdgeRec /\ e.source \in DOMAIN First.elements /\ e.target \in DOMAIN First.elements
    <3>1. e \in [source : DOMAIN First.elements, target : DOMAIN First.elements, kind : STRING]
      BY FirstAssumption
    <3>2. e.kind \in EdgeKind
      BY DEF EdgeKind
    <3> QED
      BY <2>1, <3>1, <3>2 DEF EdgeRec
  <2>4. OneParent(First)
    BY FirstAssumption DEF OneParent
  <2> QED
    BY <2>1, <2>2, <2>3, <2>4 DEF Whole, IsModel
<1>2. TGraph
  BY <1>1, FirstAssumption DEF Init, TGraph
<1>3. TCommit /\ TServer /\ TEditor
  BY DEF Init, TCommit, TServer, TEditor
<1>4. TSnap
  BY EmptyIs DEF Init, TSnap
<1>5. TJobs
  <2>1. JobOK([pc |-> "elements"]) /\ JobOK(Idle)
    BY DEF JobOK
  <2> QED
    BY <2>1 DEF Init, TJobs
<1>6. TText
  BY DEF Init, TText, Texts
<1>7. TCanvas /\ TFlags /\ TCounts
  BY DEF Init, TCanvas, TFlags, TCounts
<1> QED
  BY <1>2, <1>3, <1>4, <1>5, <1>6, <1>7 DEF TypeOK

(* Each step. *)
LEMMA TypeNext == TypeOK /\ [Next]_vars => TypeOK'
<1> SUFFICES ASSUME TypeOK, [Next]_vars PROVE TypeOK'
  OBVIOUS
<1> USE DEF TypeOK
<1>0. /\ TGraph /\ TCommit /\ TSnap /\ TJobs /\ TServer /\ TEditor /\ TText /\ TCanvas /\ TFlags /\ TCounts
  OBVIOUS
<1> HIDE DEF TypeOK
<1>a. IsModel(graph) /\ OneParent(graph) /\ Whole(graph) /\ IsModel(snapshot)
  BY <1>0 DEF TGraph, TSnap, Whole
<1>1. CASE UNCHANGED vars
  <2>1. TGraph' /\ TCommit' /\ TSnap' /\ TServer' /\ TEditor' /\ TText' /\ TCanvas'
    BY <1>0, <1>1 DEF vars, model, editor, counts, ghosts, TGraph, TCommit, TSnap, TServer, TEditor, TText, TCanvas
  <2>2. TJobs' /\ TFlags' /\ TCounts'
    BY <1>0, <1>1 DEF vars, model, editor, counts, ghosts, TJobs, TFlags, TCounts
  <2> QED
    BY <2>1, <2>2 DEF TypeOK
<1>2. CASE Typing
  <2>1. /\ UNCHANGED <<model, snapshot, open, job, toServer, toEditor, base, shown, canvas, renamed, others, lost, ghosts>>
        /\ typed' = typed + 1 /\ due' = TRUE
    BY <1>2 DEF Typing, Retitle, Rekind, Indent, Cut, Copy, Spoil, Insert, Type
  <2>2. inserted' \in {inserted, inserted + 1}
    BY <1>2 DEF Typing, Retitle, Rekind, Indent, Cut, Copy, Spoil, Insert
  <2>3. TText'
    BY <1>0, <1>2, EditType DEF TText
  <2>4. TGraph' /\ TCommit' /\ TSnap' /\ TServer' /\ TEditor' /\ TCanvas' /\ TJobs'
    BY <1>0, <2>1 DEF model, ghosts, TGraph, TCommit, TSnap, TServer, TEditor, TCanvas, TJobs
  <2>5. TFlags' /\ TCounts'
    BY <1>0, <2>1, <2>2 DEF model, ghosts, TFlags, TCounts
  <2> QED
    BY <2>3, <2>4, <2>5 DEF TypeOK
<1>3. CASE Send
  <2> DEFINE m == [what |-> "text", text |-> text, base |-> base]
  <2>1. m \in Message
    BY <1>0 DEF TText, Message
  <2>2. TServer'
    BY <1>0, <1>3, <2>1, AppendProperties DEF Send, TServer
  <2>3. TGraph' /\ TCommit' /\ TSnap' /\ TEditor' /\ TCanvas' /\ TJobs' /\ TText'
    BY <1>0, <1>3 DEF Send, model, counts, ghosts, TGraph, TCommit, TSnap, TEditor, TCanvas, TJobs, TText
  <2>4. TFlags' /\ TCounts'
    BY <1>0, <1>3 DEF Send, counts, ghosts, TFlags, TCounts
  <2> QED
    BY <2>2, <2>3, <2>4 DEF TypeOK
<1>4. CASE Pushed
  <2>1. Head(toEditor) \in Seq(LineRec) /\ Tail(toEditor) \in Seq(Seq(LineRec))
    BY <1>0, <1>4, HeadTailProperties DEF Pushed, TEditor
  <2>2. TEditor' /\ TText'
    BY <1>4, <2>1 DEF Pushed, TEditor, TText, Texts
  <2>3. TGraph' /\ TCommit' /\ TSnap' /\ TServer' /\ TCanvas' /\ TJobs'
    BY <1>0, <1>4 DEF Pushed, model, counts, ghosts, TGraph, TCommit, TSnap, TServer, TCanvas, TJobs
  <2>4. TFlags' /\ TCounts'
    BY <1>0, <1>4 DEF Pushed, counts, ghosts, TFlags, TCounts
  <2> QED
    BY <2>2, <2>3, <2>4 DEF TypeOK
<1>5. ASSUME NEW h \in Handler, HandleText(h) PROVE TypeOK'
  <2> DEFINE m == Head(toServer)
             bad == m.text = Unparsable \/ HasErrors(snapshot, m.text)
             ops == IF bad THEN << >> ELSE DiffOps(snapshot, m.text)
             j == [pc |-> "check", ops |-> ops, text |-> m.text, base |-> m.base, read |-> snapshot]
  <2>1. /\ toServer # << >> /\ m.what = "text" /\ toServer' = Tail(toServer)
        /\ \/ shown' = bad /\ UNCHANGED job
           \/ ops # << >> /\ Goto(h, j) /\ UNCHANGED shown
        /\ crossed' = (crossed \/ Busy # {} \/ m.base # PrintTree(snapshot) \/ Renaming)
        /\ UNCHANGED <<model, snapshot, open, toEditor, text, base, due, canvas, counts,
                       raced, unrecorded, unread, stale>>
    BY <1>5 DEF HandleText
  <2>2. m.text \in Texts /\ m.base \in Seq(LineRec) /\ Tail(toServer) \in Seq(Message)
    BY <1>0, <2>1, MessageIs
  <2>3. TServer'
    BY <2>1, <2>2 DEF TServer
  <2>4. ASSUME ops # << >> PROVE JobOK(j)
    <3>1. ~bad
      BY <2>4
    <3>2. m.text \in Seq(LineRec) /\ ~HasErrors(snapshot, m.text)
      BY <2>2, <3>1 DEF Texts
    <3>3. ops = DiffOps(snapshot, m.text)
      BY <3>1
    <3> QED
      BY <1>0, <2>2, <3>2, <3>3 DEF JobOK, TSnap
  <2>5. TJobs'
    <3>1. CASE UNCHANGED job
      BY <1>0, <3>1 DEF TJobs
    <3>2. CASE ops # << >> /\ Goto(h, j)
      <4>1. JobOK(j)
        BY <2>4, <3>2
      <4> HIDE DEF j, ops, bad, m
      <4> QED
        BY <1>0, <3>2, <4>1, GotoOK
    <3> QED
      BY <2>1, <3>1, <3>2
  <2>6. TGraph' /\ TCommit' /\ TSnap' /\ TEditor' /\ TCanvas' /\ TText'
    BY <1>0, <2>1 DEF model, TGraph, TCommit, TSnap, TEditor, TCanvas, TText
  <2>7. bad \in BOOLEAN
    BY DEF HasErrors
  <2>8. shown' \in BOOLEAN
    BY <1>0, <2>1, <2>7 DEF TFlags
  <2>9. crossed' \in BOOLEAN
    BY <1>0, <2>1 DEF TFlags, Renaming
  <2>10. TFlags' /\ TCounts'
    BY <1>0, <2>1, <2>8, <2>9 DEF counts, TFlags, TCounts
  <2> QED
    BY <2>3, <2>5, <2>6, <2>10 DEF TypeOK
<1>6. ASSUME NEW h \in Handler, HandleRenamed(h) PROVE TypeOK'
  <2> DEFINE m == Head(toServer)
             s == SetName(snapshot, m.id, m.name)
  <2>1. /\ toServer # << >> /\ m.what = "renamed" /\ toServer' = Tail(toServer) /\ snapshot' = s
        /\ toEditor' = IF open THEN Append(toEditor, PrintTree(s)) ELSE toEditor
        /\ crossed' = (crossed \/ Busy # {})
        /\ UNCHANGED <<model, open, job, editor, canvas, counts, raced, unrecorded, unread, stale>>
    BY <1>6 DEF HandleRenamed
  <2>2. m.id \in Id /\ m.name \in Name /\ Tail(toServer) \in Seq(Message)
    BY <1>0, <2>1, MessageIs
  <2>3. TServer'
    BY <2>1, <2>2 DEF TServer
  <2>4. IsModel(s) /\ s.edges = snapshot.edges
    BY <1>a, <2>2, SetNameWhole, SetNameIs DEF IsModel
  <2>5. TSnap'
    BY <1>0, <2>1, <2>4 DEF TSnap, OneParent, ContainsOf
  <2>6. PrintTree(s) \in Seq(LineRec)
    BY <2>4, PrintType
  <2>7. TEditor'
    <3> DEFINE p == PrintTree(s)
    <3>1. p \in Seq(LineRec)
      BY <2>6
    <3> HIDE DEF p
    <3>2. Append(toEditor, p) \in Seq(Seq(LineRec))
      BY <1>0, <3>1, AppendProperties DEF TEditor
    <3> QED
      BY <1>0, <2>1, <3>2 DEF TEditor, p
  <2>8. TGraph' /\ TCommit' /\ TCanvas' /\ TText' /\ TJobs'
    BY <1>0, <2>1 DEF model, editor, TGraph, TCommit, TCanvas, TText, TJobs
  <2>9. TFlags' /\ TCounts'
    BY <1>0, <2>1 DEF counts, editor, TFlags, TCounts
  <2> QED
    BY <2>3, <2>5, <2>7, <2>8, <2>9 DEF TypeOK
<1>7. ASSUME NEW h \in Handler, Check(h) PROVE TypeOK'
  <2>1. /\ job[h].pc = "check"
        /\ \/ /\ Accepts(graph, job[h].ops)
              /\ Goto(h, [pc |-> "write", ops |-> job[h].ops, seen |-> graph]) /\ UNCHANGED shown
           \/ Goto(h, Idle) /\ shown' = TRUE
        /\ UNCHANGED <<model, snapshot, open, toServer, toEditor, text, base, due, canvas, counts, ghosts>>
    BY <1>7 DEF Check
  <2>2. job[h].ops = DiffOps(job[h].read, job[h].text) /\ job[h].text \in Seq(LineRec)
    BY <1>0, <2>1, JobIs DEF TJobs
  <2>3. IsOps(job[h].ops)
    BY <2>2, OpsAre
  <2>4. TJobs'
    <3>1. JobOK(Idle)
      BY DEF JobOK
    <3>2. Accepts(graph, job[h].ops) => JobOK([pc |-> "write", ops |-> job[h].ops, seen |-> graph])
      BY <2>3 DEF JobOK
    <3> QED
      BY <1>0, <2>1, <3>1, <3>2, GotoOK
  <2>5. TGraph' /\ TCommit' /\ TSnap' /\ TServer' /\ TEditor' /\ TCanvas' /\ TText'
    BY <1>0, <2>1 DEF model, TGraph, TCommit, TSnap, TServer, TEditor, TCanvas, TText
  <2>6. TFlags' /\ TCounts'
    BY <1>0, <2>1 DEF counts, ghosts, TFlags, TCounts
  <2> QED
    BY <2>4, <2>5, <2>6 DEF TypeOK
<1>8. ASSUME NEW h \in Handler, Write(h) PROVE TypeOK'
  <2> DEFINE ops == job[h].ops
             ids == RealIds(ops)
  <2>1. /\ job[h].pc = "write" /\ Len(Created(ops)) <= Len(Unused)
        /\ graph' = Written(graph, ops, ids) /\ used' = used \cup Range(ids)
        /\ Goto(h, [pc |-> "record", ops |-> RealOps(ops, ids)])
        /\ raced' = (raced \/ Recording \/ graph # job[h].seen)
        /\ crossed' = (crossed \/ Renaming)
        /\ UNCHANGED <<commits, snapshot, open, toServer, toEditor, editor, canvas, counts,
                       unrecorded, unread, stale>>
    BY <1>8 DEF Write
  <2>2. IsOps(ops)
    BY <1>0, <2>1, JobIs DEF TJobs
  <2> HIDE DEF ops
  <2>3. /\ Whole(Written(graph, ops, ids))
        /\ DOMAIN Written(graph, ops, ids).elements \subseteq used \cup Range(ids)
        /\ Range(ids) \subseteq Id
        /\ RealOps(ops, ids) \in Seq(OpSet)
    BY <1>0, <2>1, <2>2, WrittenIs DEF TGraph
  <2> HIDE DEF ids
  <2>4. TGraph'
    BY <1>0, <2>1, <2>3 DEF TGraph
  <2>5. TJobs'
    <3>1. JobOK([pc |-> "record", ops |-> RealOps(ops, ids)])
      BY <2>3 DEF JobOK
    <3> QED
      BY <1>0, <2>1, <3>1, GotoOK
  <2>6. TCommit' /\ TSnap' /\ TServer' /\ TEditor' /\ TCanvas' /\ TText'
    BY <1>0, <2>1 DEF editor, TCommit, TSnap, TServer, TEditor, TCanvas, TText
  <2>7. raced' \in BOOLEAN /\ crossed' \in BOOLEAN
    BY <1>0, <2>1 DEF TFlags, Recording, Renaming
  <2>8. TFlags' /\ TCounts'
    BY <1>0, <2>1, <2>7 DEF counts, editor, TFlags, TCounts
  <2> QED
    BY <2>4, <2>5, <2>6, <2>8 DEF TypeOK
<1>9. ASSUME NEW h \in Handler, Record(h) PROVE TypeOK'
  <2> DEFINE d == [do |-> "text", ops |-> job[h].ops]
  <2>1. /\ job[h].pc = "record" /\ commits' = Append(commits, d) /\ Goto(h, [pc |-> "answer"])
        /\ UNCHANGED <<graph, used, snapshot, open, toServer, toEditor, editor, canvas, counts, ghosts>>
    BY <1>9 DEF Record
  <2>2. job[h].ops \in Seq(OpSet)
    BY <1>0, <2>1, JobIs DEF TJobs
  <2>3. d \in Entry
    BY <2>2 DEF Entry
  <2>4. TCommit'
    BY <1>0, <2>1, <2>3, AppendProperties DEF TCommit
  <2>5. JobOK([pc |-> "answer"])
    BY DEF JobOK
  <2>6. TJobs'
    BY <1>0, <2>1, <2>5, GotoOK
  <2>7. TGraph' /\ TSnap' /\ TServer' /\ TEditor' /\ TCanvas' /\ TText'
    BY <1>0, <2>1 DEF editor, TGraph, TSnap, TServer, TEditor, TCanvas, TText
  <2>8. TFlags' /\ TCounts'
    BY <1>0, <2>1 DEF counts, editor, ghosts, TFlags, TCounts
  <2> QED
    BY <2>4, <2>6, <2>7, <2>8 DEF TypeOK
<1>10. ASSUME NEW h \in Handler, Answer(h) PROVE TypeOK'
  <2>1. JobOK([pc |-> "elements"])
    BY DEF JobOK
  <2>2. TJobs'
    BY <1>0, <1>10, <2>1, GotoOK DEF Answer
  <2>3. TGraph' /\ TCommit' /\ TSnap' /\ TServer' /\ TEditor' /\ TCanvas' /\ TText'
    BY <1>0, <1>10 DEF Answer, model, TGraph, TCommit, TSnap, TServer, TEditor, TCanvas, TText
  <2>4. TFlags' /\ TCounts'
    BY <1>0, <1>10 DEF Answer, counts, ghosts, TFlags, TCounts
  <2> QED
    BY <2>2, <2>3, <2>4 DEF TypeOK
<1>11. ASSUME NEW h \in Handler, Lose(h) PROVE TypeOK'
  <2>1. JobOK(Idle)
    BY DEF JobOK
  <2>2. TJobs'
    BY <1>0, <1>11, <2>1, GotoOK DEF Lose
  <2>3. TGraph' /\ TCommit' /\ TSnap' /\ TServer' /\ TEditor' /\ TCanvas' /\ TText'
    BY <1>0, <1>11 DEF Lose, model, TGraph, TCommit, TSnap, TServer, TEditor, TCanvas, TText
  <2>4. unrecorded' \in BOOLEAN /\ unread' \in BOOLEAN /\ stale' \in BOOLEAN
    BY <1>0, <1>11, Zenon DEF Lose, TFlags
  <2>5. TFlags' /\ TCounts'
    BY <1>0, <1>11, <2>4 DEF Lose, TFlags, TCounts
  <2> QED
    BY <2>2, <2>3, <2>5 DEF TypeOK
<1>12. ASSUME NEW h \in Handler, ReadElements(h) PROVE TypeOK'
  <2>1. /\ \/ Goto(h, [pc |-> "contains", elements |-> graph.elements]) /\ UNCHANGED <<lost, unread, stale>>
           \/ /\ lost' = lost + 1 /\ stale' = TRUE /\ unread' = (unread \/ Made # {})
              /\ Goto(h, [pc |-> "contains", elements |-> << >>])
        /\ UNCHANGED <<model, snapshot, open, toServer, toEditor, editor, canvas,
                       typed, inserted, renamed, others, crossed, raced, unrecorded>>
    BY <1>12 DEF ReadElements
  <2>2. JobOK([pc |-> "contains", elements |-> graph.elements])
    <3>1. IsElements(graph.elements)
      BY <1>a DEF IsModel, IsElements
    <3> QED
      BY <3>1 DEF JobOK
  <2>3. JobOK([pc |-> "contains", elements |-> << >>])
    BY EmptyIs DEF JobOK
  <2>4. TJobs'
    BY <1>0, <2>1, <2>2, <2>3, GotoOK
  <2>5. TGraph' /\ TCommit' /\ TSnap' /\ TServer' /\ TEditor' /\ TCanvas' /\ TText'
    BY <1>0, <2>1 DEF model, editor, TGraph, TCommit, TSnap, TServer, TEditor, TCanvas, TText
  <2>6. TFlags' /\ TCounts'
    <3>0. lost' = lost \/ lost' = lost + 1
      BY <2>1
    <3>1. lost' \in Nat
      BY <1>0, <3>0 DEF TCounts
    <3>2. UNCHANGED <<model, snapshot, open, toServer, toEditor, editor, canvas,
                      typed, inserted, renamed, others, crossed, raced, unrecorded>>
      BY <2>1
    <3>3. TCounts'
      BY <1>0, <3>1, <3>2 DEF TCounts
    <3>4. UNCHANGED <<open, due, shown, crossed, raced, unrecorded>>
      BY <3>2 DEF editor
    <3>5. unread' \in BOOLEAN /\ stale' \in BOOLEAN
      BY <1>0, <2>1, Zenon DEF TFlags
    <3>6. TFlags'
      BY <1>0, <3>4, <3>5 DEF TFlags
    <3> QED
      BY <3>3, <3>6
  <2> QED
    BY <2>4, <2>5, <2>6 DEF TypeOK
<1>13. ASSUME NEW h \in Handler, ReadContains(h) PROVE TypeOK'
  <2> DEFINE Got(edges) == [pc |-> "install", elements |-> job[h].elements, edges |-> edges]
  <2>1. /\ job[h].pc = "contains"
        /\ \/ Goto(h, Got(ContainsOf(graph))) /\ UNCHANGED <<lost, stale>>
           \/ lost' = lost + 1 /\ stale' = TRUE /\ Goto(h, Got({}))
        /\ UNCHANGED <<model, snapshot, open, toServer, toEditor, editor, canvas,
                       typed, inserted, renamed, others, crossed, raced, unrecorded, unread>>
    BY <1>13 DEF ReadContains
  <2>2. IsElements(job[h].elements)
    BY <1>0, <2>1, JobIs DEF TJobs
  <2>3. JobOK(Got(ContainsOf(graph))) /\ JobOK(Got({}))
    BY <1>a, <2>2, ReadLess DEF JobOK
  <2> HIDE DEF Got
  <2>4. TJobs'
    BY <1>0, <2>1, <2>3, GotoOK
  <2>5. TGraph' /\ TCommit' /\ TSnap' /\ TServer' /\ TEditor' /\ TCanvas' /\ TText'
    BY <1>0, <2>1 DEF model, editor, TGraph, TCommit, TSnap, TServer, TEditor, TCanvas, TText
  <2>6. TFlags' /\ TCounts'
    <3>0. lost' = lost \/ lost' = lost + 1
      BY <2>1
    <3>1. lost' \in Nat
      BY <1>0, <3>0 DEF TCounts
    <3>2. UNCHANGED <<model, snapshot, open, toServer, toEditor, editor, canvas,
                      typed, inserted, renamed, others, crossed, raced, unrecorded, unread>>
      BY <2>1
    <3>3. TCounts'
      BY <1>0, <3>1, <3>2 DEF TCounts
    <3>4. UNCHANGED <<open, due, shown, crossed, raced, unrecorded>>
      BY <3>2 DEF editor
    <3>5. unread' \in BOOLEAN /\ stale' \in BOOLEAN
      BY <1>0, <2>1, Zenon DEF TFlags
    <3>6. TFlags'
      BY <1>0, <3>4, <3>5 DEF TFlags
    <3> QED
      BY <3>3, <3>6
  <2> QED
    BY <2>4, <2>5, <2>6 DEF TypeOK
<1>14. ASSUME NEW h \in Handler, Install(h) PROVE TypeOK'
  <2> DEFINE s == [Empty EXCEPT !.elements = job[h].elements, !.edges = job[h].edges]
  <2>1. /\ job[h].pc = "install" /\ snapshot' = s /\ open' = TRUE
        /\ toEditor' = Append(toEditor, PrintTree(s)) /\ Goto(h, Idle)
        /\ (stale' = stale \/ stale' = FALSE)
        /\ UNCHANGED <<model, toServer, editor, canvas, counts, crossed, raced, unrecorded, unread>>
    BY <1>0, <1>14, Zenon DEF Install, TFlags
  <2>2. s = Read(job[h].elements, job[h].edges)
    BY InstallIs
  <2>3. IsModel(s) /\ OneParent(s)
    BY <1>0, <2>1, <2>2, JobIs DEF TJobs
  <2> HIDE DEF s
  <2>4. TSnap'
    BY <2>1, <2>3 DEF TSnap
  <2>5. PrintTree(s) \in Seq(LineRec)
    BY <2>3, PrintType
  <2>6. TEditor'
    BY <1>0, <2>1, <2>5, AppendProperties DEF TEditor
  <2>7. TJobs'
    <3>1. JobOK(Idle)
      BY DEF JobOK
    <3> QED
      BY <1>0, <2>1, <3>1, GotoOK
  <2>8. TGraph' /\ TCommit' /\ TServer' /\ TCanvas' /\ TText'
    BY <1>0, <2>1 DEF model, editor, TGraph, TCommit, TServer, TCanvas, TText
  <2>9. TFlags' /\ TCounts'
    BY <1>0, <2>1 DEF editor, counts, TFlags, TCounts
  <2> QED
    BY <2>4, <2>6, <2>7, <2>8, <2>9 DEF TypeOK
<1>15. CASE CanvasWrite
  <2>1. PICK i \in DOMAIN graph.elements, m \in Name :
           graph' = SetName(graph, i, m) /\ canvas' = [pc |-> "record", id |-> i, name |-> m]
    BY <1>15 DEF CanvasWrite
  <2>2. TGraph'
    BY <1>0, <1>a, <1>15, <2>1, SetNameWhole DEF CanvasWrite, TGraph
  <2>3. TCanvas'
    BY <1>a, <2>1 DEF TCanvas, IsModel
  <2>4. TCommit' /\ TSnap' /\ TServer' /\ TEditor' /\ TText' /\ TJobs'
    BY <1>0, <1>15 DEF CanvasWrite, editor, TCommit, TSnap, TServer, TEditor, TText, TJobs
  <2>5. TFlags' /\ TCounts'
    BY <1>0, <1>15 DEF CanvasWrite, editor, TFlags, TCounts, Recording
  <2> QED
    BY <2>2, <2>3, <2>4, <2>5 DEF TypeOK
<1>16. CASE CanvasRecord
  <2> DEFINE d == [do |-> "renamed", id |-> canvas.id, to |-> canvas.name]
  <2>1. /\ canvas.pc = "record" /\ commits' = Append(commits, d) /\ canvas' = [canvas EXCEPT !.pc = "notify"]
        /\ UNCHANGED <<graph, used, snapshot, open, job, toServer, toEditor, editor, counts, ghosts>>
    BY <1>16 DEF CanvasRecord
  <2>2. canvas \in [pc : {"record", "notify"}, id : Id, name : Name]
    BY <1>0, <2>1 DEF TCanvas, Idle
  <2>3. d \in Entry
    BY <2>2 DEF Entry
  <2>4. TCommit' /\ TCanvas'
    BY <1>0, <2>1, <2>2, <2>3, AppendProperties DEF TCommit, TCanvas
  <2>5. TGraph' /\ TSnap' /\ TServer' /\ TEditor' /\ TText' /\ TJobs'
    BY <1>0, <2>1 DEF editor, TGraph, TSnap, TServer, TEditor, TText, TJobs
  <2>6. TFlags' /\ TCounts'
    BY <1>0, <2>1 DEF editor, counts, ghosts, TFlags, TCounts
  <2> QED
    BY <2>4, <2>5, <2>6 DEF TypeOK
<1>17. CASE CanvasNotify
  <2> DEFINE m == [what |-> "renamed", id |-> canvas.id, name |-> canvas.name]
  <2>1. canvas.pc = "notify" /\ toServer' = Append(toServer, m) /\ canvas' = Idle
        /\ UNCHANGED <<model, snapshot, open, job, toEditor, editor, counts, ghosts>>
    BY <1>17 DEF CanvasNotify
  <2>2. canvas \in [pc : {"record", "notify"}, id : Id, name : Name]
    BY <1>0, <2>1 DEF TCanvas, Idle
  <2>3. m \in Message
    BY <2>2 DEF Message
  <2>4. TServer' /\ TCanvas'
    BY <1>0, <2>1, <2>3, AppendProperties DEF TServer, TCanvas
  <2>5. TGraph' /\ TCommit' /\ TSnap' /\ TEditor' /\ TText' /\ TJobs'
    BY <1>0, <2>1 DEF editor, model, TGraph, TCommit, TSnap, TEditor, TText, TJobs
  <2>6. TFlags' /\ TCounts'
    BY <1>0, <2>1 DEF editor, counts, ghosts, TFlags, TCounts
  <2> QED
    BY <2>4, <2>5, <2>6 DEF TypeOK
<1>18. CASE Other
  <2>1. PICK i \in DOMAIN graph.elements :
           \/ \E m \in Name : /\ graph' = SetName(graph, i, m)
                              /\ commits' = Append(commits, [do |-> "renamed", id |-> i, to |-> m])
           \/ /\ graph' = Removed(graph, i)
              /\ commits' = Append(commits, [do |-> "deleted", id |-> i])
    BY <1>18 DEF Other
  <2>2. i \in Id /\ DOMAIN graph.elements \subseteq used
    BY <1>0, <1>a DEF IsModel, TGraph
  <2>3. UNCHANGED used
    BY <1>18 DEF Other
  <2>4. Whole(graph') /\ DOMAIN graph'.elements \subseteq DOMAIN graph.elements
    <3>1. ASSUME NEW m \in Name, graph' = SetName(graph, i, m)
          PROVE  Whole(graph') /\ DOMAIN graph'.elements \subseteq DOMAIN graph.elements
      BY <1>a, <3>1, SetNameWhole
    <3>2. ASSUME graph' = Removed(graph, i)
          PROVE  Whole(graph') /\ DOMAIN graph'.elements \subseteq DOMAIN graph.elements
      BY <1>a, <3>2, RemovedWhole
    <3> QED
      BY <2>1, <3>1, <3>2
  <2>5. TGraph'
    BY <1>0, <2>2, <2>3, <2>4 DEF TGraph
  <2>6. TCommit'
    <3>1. ASSUME NEW m \in Name PROVE [do |-> "renamed", id |-> i, to |-> m] \in Entry
      BY <2>2 DEF Entry
    <3>2. [do |-> "deleted", id |-> i] \in Entry
      BY <2>2 DEF Entry
    <3> QED
      BY <1>0, <2>1, <3>1, <3>2, AppendProperties DEF TCommit
  <2>7. TSnap' /\ TServer' /\ TEditor' /\ TText' /\ TJobs' /\ TCanvas'
    BY <1>0, <1>18 DEF Other, editor, TSnap, TServer, TEditor, TText, TJobs, TCanvas
  <2>8. unread' \in BOOLEAN /\ raced' \in BOOLEAN
    BY <1>0, <1>18, Zenon DEF Other, TFlags
  <2>9. TFlags' /\ TCounts'
    BY <1>0, <1>18, <2>8 DEF Other, editor, TFlags, TCounts
  <2> QED
    BY <2>5, <2>6, <2>7, <2>9 DEF TypeOK
<1>19. CASE CanvasFails
  <2>1. /\ UNCHANGED <<model, snapshot, open, job, toServer, toEditor, editor,
                       typed, inserted, renamed, others, crossed, raced, unread>>
        /\ lost' = lost + 1
    BY <1>19 DEF CanvasFails
  <2>2. unrecorded' \in BOOLEAN /\ stale' \in BOOLEAN
    BY <1>0, <1>19, Zenon DEF CanvasFails, TFlags
  <2>3. TFlags' /\ TCounts'
    BY <1>0, <2>1, <2>2 DEF editor, TFlags, TCounts
  <2>4. TGraph' /\ TCommit' /\ TSnap' /\ TServer' /\ TEditor' /\ TText' /\ TJobs'
    BY <1>0, <2>1 DEF editor, model, TGraph, TCommit, TSnap, TServer, TEditor, TText, TJobs
  <2>5. TCanvas'
    <3>1. CASE canvas.pc = "record" /\ canvas' = [canvas EXCEPT !.pc = "notify"]
      BY <1>0, <3>1 DEF TCanvas, Idle
    <3>2. CASE \E i \in used, m \in Name : canvas' = [pc |-> "notify", id |-> i, name |-> m]
      BY <1>0, <3>2 DEF TCanvas, TGraph
    <3>3. CASE canvas' = Idle
      BY <3>3 DEF TCanvas
    <3> QED
      BY <1>19, <3>1, <3>2, <3>3 DEF CanvasFails
  <2> QED
    BY <2>3, <2>4, <2>5 DEF TypeOK
<1> QED
  <2>1. Next \/ UNCHANGED vars
    OBVIOUS
  <2>2. CASE Next
    BY <1>2, <1>3, <1>4, <1>5, <1>6, <1>7, <1>8, <1>9, <1>10, <1>11, <1>12, <1>13, <1>14,
       <1>15, <1>16, <1>17, <1>18, <1>19, <2>2 DEF Next, Handle
  <2> QED
    BY <1>1, <2>1, <2>2

(* Every part of the state is what it should be, and the live model keeps    *)
(* its edges' ends and one parent for each element, whatever is written.     *)
THEOREM TypeCorrect == Spec => []TypeOK
BY TypeInit, TypeNext, PTL DEF Spec

-----------------------------------------------------------------------------

(* One entry more is replayed last. *)
LEMMA ReplayAppend ==
    ASSUME NEW S, NEW q \in Seq(S), NEW d \in S
    PROVE  Replay(First, Append(q, d)) = ApplyDiff(Replay(First, q), d)
<1> DEFINE p == Append(q, d)
           c == Len(q)
<1>1. c \in Nat /\ DOMAIN q = 1..c
  BY LenProperties
<1>2. Len(p) = c + 1 /\ DOMAIN p = 1..(c + 1) /\ p[c + 1] = d /\ \A k \in 1..c : p[k] = q[k]
  BY <1>1, AppendProperties, LenProperties
<1> HIDE DEF p, c
<1>3. PICK f : DiffRun(f, First, q, c)
  BY <1>1, DiffSteps
<1>4. c + 1 \in Nat
  BY <1>1
<1>5. PICK g : DiffRun(g, First, p, c + 1)
  BY <1>2, <1>4, DiffSteps
<1>6. /\ f[0] = First /\ \A k \in 1..c : f[k] = ApplyDiff(f[k - 1], q[k])
      /\ DiffFold(First, q) = f[c]
  BY <1>3 DEF DiffRun
<1>7. /\ g[0] = First /\ \A k \in 1..(c + 1) : g[k] = ApplyDiff(g[k - 1], p[k])
      /\ DiffFold(First, p) = g[c + 1]
  BY <1>5 DEF DiffRun
<1> DEFINE G == {k \in 0..c : f[k] = g[k]}
<1>8. \A k \in 0..c : k \in G
  <2>1. 0 \in G
    BY <1>1, <1>6, <1>7
  <2>2. ASSUME NEW k \in 1..c, k - 1 \in G PROVE k \in G
    <3>1. f[k - 1] = g[k - 1] /\ k \in 0..c /\ k \in 1..(c + 1)
      BY <1>1, <2>2
    <3>2. f[k] = ApplyDiff(f[k - 1], q[k]) /\ g[k] = ApplyDiff(g[k - 1], p[k]) /\ p[k] = q[k]
      BY <1>2, <1>6, <1>7, <3>1
    <3> QED
      BY <3>1, <3>2
  <2> HIDE DEF G
  <2> QED
    BY <1>1, <2>1, <2>2, UpTo
<1>9. f[c] = g[c]
  <2>1. c \in 0..c
    BY <1>1
  <2> QED
    BY <1>8, <2>1
<1>10. g[c + 1] = ApplyDiff(g[c], d)
  <2>1. c + 1 \in 1..(c + 1) /\ (c + 1) - 1 = c
    BY <1>1
  <2> QED
    BY <1>2, <1>7, <2>1
<1> QED
  BY <1>6, <1>7, <1>9, <1>10 DEF Replay, DiffFold, p

(* The replay of an edit leaves a snapshot. *)
LEMMA FoldSnap ==
    ASSUME NEW R, Snap(R), NEW ops \in Seq(OpSet)
    PROVE  Snap(GraphOpFold(R, ops))
<1>1. Len(ops) \in Nat /\ DOMAIN ops = 1..Len(ops) /\ \A k \in 1..Len(ops) : ops[k] \in OpSet
  BY LenProperties, ElementOfSeq
<1>2. PICK f : GraphOpRun(f, R, ops, Len(ops))
  BY <1>1, GraphOpSteps
<1>3. /\ f[0] = R /\ \A k \in 1..Len(ops) : f[k] = ApplyGraphOp(f[k - 1], ops[k])
      /\ GraphOpFold(R, ops) = f[Len(ops)]
  BY <1>2 DEF GraphOpRun
<1> DEFINE G == {k \in 0..Len(ops) : Snap(f[k])}
<1>4. 0 \in G
  BY <1>1, <1>3
<1>5. ASSUME NEW k \in 1..Len(ops), k - 1 \in G PROVE k \in G
  <2>1. Snap(f[k - 1]) /\ k \in 0..Len(ops)
    BY <1>1, <1>5
  <2>2. ops[k].do \in {"rename", "create", "reparent"}
    BY <1>1, OpIs
  <2>3. Snap(ApplyGraphOp(f[k - 1], ops[k]))
    BY <2>1, <2>2, GraphOpIs
  <2> QED
    BY <1>3, <2>1, <2>3
<1> HIDE DEF G
<1>6. \A k \in 0..Len(ops) : k \in G
  BY <1>1, <1>4, <1>5, UpTo
<1>7. Len(ops) \in 0..Len(ops)
  BY <1>1
<1> QED
  BY <1>3, <1>6, <1>7 DEF G

(* What is equal but for bodies stays so under a rename and a delete. *)
LEMMA SameName ==
    ASSUME NEW r, NEW s, Snap(r), Snap(s), Same(r, s), NEW i, NEW m
    PROVE  Same(SetName(r, i, m), SetName(s, i, m))
BY SetNameIs DEF Same

(* So it does under a delete.                                                *)
LEMMA SameRemoved ==
    ASSUME NEW r, NEW s, Same(r, s), NEW i
    PROVE  Same(Removed(r, i), Removed(s, i)) /\ Snap(Removed(r, i))
BY DEF Same, Removed, Snap

(* Steps that write and record nothing. *)
LEMMA ReplayFrame ==
    ASSUME ReplayInv, UNCHANGED <<graph, commits, Apart>>,
           \A h \in Handler : (job[h].pc = "record" \/ job'[h].pc = "record") => job'[h] = job[h],
           (canvas.pc = "record" \/ canvas'.pc = "record") => canvas' = canvas
    PROVE  ReplayInv'
<1>1. Replayed' = Replayed
  BY DEF Replayed
<1>2. /\ \A h \in Handler : job'[h].pc = "record" <=> job[h].pc = "record"
      /\ canvas'.pc = "record" <=> canvas.pc = "record"
  OBVIOUS
<1>3. Recording' <=> Recording
  BY <1>2 DEF Recording
<1>4. Snap(Replayed)'
  BY <1>1 DEF ReplayInv
<1>5. ASSUME ~Apart' PROVE ~Apart
  BY <1>5
<1>6. ASSUME ~Apart', ~Recording' PROVE Same(Replayed, graph)'
  BY <1>1, <1>3, <1>6 DEF ReplayInv
<1>7. ASSUME ~Apart', canvas'.pc = "record"
      PROVE  /\ \A h \in Handler : job'[h].pc # "record"
             /\ Same(SetName(Replayed, canvas.id, canvas.name), graph)'
  BY <1>1, <1>2, <1>7 DEF ReplayInv
<1>8. ASSUME ~Apart', NEW h \in Handler, job'[h].pc = "record"
      PROVE  /\ canvas'.pc # "record"
             /\ \A g \in Handler : job'[g].pc = "record" => g = h
             /\ Same(GraphOpFold(Replayed, job[h].ops), graph)'
  BY <1>1, <1>2, <1>8 DEF ReplayInv
<1> QED
  BY <1>4, <1>6, <1>7, <1>8 DEF ReplayInv

(* A handler goes from one step to another that is not the commit. *)
LEMMA ReplayGoto ==
    ASSUME TypeOK, ReplayInv, NEW h \in Handler, NEW j, Goto(h, j), job[h].pc # "record", j.pc # "record",
           UNCHANGED <<graph, commits, Apart, canvas>>
    PROVE  ReplayInv'
<1>1. \A g \in Handler : job'[g] = IF g = h THEN j ELSE job[g]
  BY DEF Goto, TypeOK, TJobs
<1>2. \A g \in Handler : (job[g].pc = "record" \/ job'[g].pc = "record") => job'[g] = job[g]
  BY <1>1
<1> QED
  BY <1>2, ReplayFrame

(* Each step. *)
LEMMA ReplayNext == TypeOK /\ ReplayInv /\ [Next]_vars => ReplayInv'
<1> SUFFICES ASSUME TypeOK, ReplayInv, [Next]_vars PROVE ReplayInv'
  OBVIOUS
<1>0. /\ TGraph /\ TCommit /\ TJobs /\ TCanvas
  BY DEF TypeOK
<1>a. Snap(graph) /\ Whole(graph) /\ DOMAIN graph.elements \subseteq used
  BY <1>0 DEF TGraph, Whole, IsModel
<1>b. Snap(Replayed)
  BY DEF ReplayInv
<1>1. CASE UNCHANGED vars
  <2>1. UNCHANGED <<graph, commits, Apart, job, canvas>>
    BY <1>1 DEF vars, model, ghosts, Apart
  <2> QED
    BY <2>1, ReplayFrame
<1>2. CASE Typing
  <2>0. UNCHANGED <<graph, commits, raced, unrecorded, job, canvas>>
    BY <1>2 DEF Typing, Retitle, Rekind, Indent, Cut, Copy, Spoil, Insert, Type, model, ghosts
  <2>1. UNCHANGED <<graph, commits, Apart, job, canvas>>
    BY <2>0 DEF Apart
  <2> QED
    BY <2>1, ReplayFrame
<1>3. CASE Send \/ Pushed
  <2>1. UNCHANGED <<graph, commits, Apart, job, canvas>>
    BY <1>3 DEF Send, Pushed, model, ghosts, Apart
  <2> QED
    BY <2>1, ReplayFrame
<1>4. ASSUME NEW h \in Handler, HandleText(h) PROVE ReplayInv'
  <2>1. /\ UNCHANGED <<graph, commits, Apart, canvas>> /\ h \notin Busy
        /\ \/ UNCHANGED job
           \/ \E ops, t, b, r : Goto(h, [pc |-> "check", ops |-> ops, text |-> t, base |-> b, read |-> r])
    BY <1>4 DEF HandleText, model, Free, Apart
  <2>2. job[h].pc # "record"
    BY <2>1 DEF Busy, Idle
  <2>3. CASE UNCHANGED job
    BY <2>1, <2>3, ReplayFrame
  <2>4. ASSUME NEW ops, NEW t, NEW b, NEW r,
               Goto(h, [pc |-> "check", ops |-> ops, text |-> t, base |-> b, read |-> r])
        PROVE  ReplayInv'
    BY <2>1, <2>2, <2>4, ReplayGoto
  <2> QED
    BY <2>1, <2>3, <2>4
<1>5. ASSUME NEW h \in Handler, HandleRenamed(h) PROVE ReplayInv'
  <2>1. UNCHANGED <<graph, commits, Apart, job, canvas>>
    BY <1>5 DEF HandleRenamed, model, Apart
  <2> QED
    BY <2>1, ReplayFrame
<1>6. ASSUME NEW h \in Handler, Check(h) PROVE ReplayInv'
  <2>1. /\ job[h].pc = "check" /\ UNCHANGED <<graph, commits, Apart, canvas>>
        /\ \/ Goto(h, [pc |-> "write", ops |-> job[h].ops, seen |-> graph])
           \/ Goto(h, Idle)
    BY <1>6 DEF Check, model, ghosts, Apart
  <2>2. Idle.pc # "record"
    BY DEF Idle
  <2>3. CASE Goto(h, Idle)
    BY <2>1, <2>2, <2>3, ReplayGoto
  <2>4. CASE Goto(h, [pc |-> "write", ops |-> job[h].ops, seen |-> graph])
    BY <2>1, <2>4, ReplayGoto
  <2> QED
    BY <2>1, <2>3, <2>4
<1>7. ASSUME NEW h \in Handler, Write(h) PROVE ReplayInv'
  <2> DEFINE ops == job[h].ops
             q == RealOps(ops, RealIds(ops))
             j == [pc |-> "record", ops |-> q]
  <2>1. /\ job[h].pc = "write" /\ Len(Created(ops)) <= Len(Unused)
        /\ graph' = Written(graph, ops, RealIds(ops)) /\ Goto(h, j)
        /\ Apart' <=> (Apart \/ Recording \/ graph # job[h].seen)
        /\ UNCHANGED <<commits, canvas>>
    BY <1>7 DEF Write, Apart
  <2>2. IsOps(ops) /\ Accepts(job[h].seen, ops)
    BY <1>0, <2>1, JobIs DEF TJobs
  <2> HIDE DEF ops
  <2>3. Replayed' = Replayed
    BY <2>1 DEF Replayed
  <2>4. graph' = WriteFold(graph, q)
    BY <2>1 DEF Written, WriteFold
  <2>5. \A g \in Handler : job'[g] = IF g = h THEN j ELSE job[g]
    BY <1>0, <2>1 DEF Goto, TJobs
  <2>6. CASE ~Apart'
    <3>1. ~Apart /\ ~Recording /\ graph = job[h].seen
      BY <2>1, <2>6
    <3>2. Same(Replayed, graph) /\ Accepts(graph, ops)
      BY <2>2, <3>1 DEF ReplayInv
    <3>3. Same(GraphOpFold(Replayed, q), WriteFold(graph, q))
      BY <1>a, <1>b, <2>1, <2>2, <3>2, WriteReplays
    <3>4. Same(GraphOpFold(Replayed', q), graph')
      BY <2>3, <2>4, <3>3
    <3> HIDE DEF q
    <3>5. j.pc = "record" /\ j.ops = q
      OBVIOUS
    <3> HIDE DEF j
    <3>6. job'[h].pc = "record" /\ job'[h].ops = q
      BY <2>5, <3>5
    <3>7. canvas'.pc # "record" /\ \A g \in Handler : g # h => job'[g].pc # "record"
      BY <2>1, <2>5, <3>1 DEF Recording
    <3>8. Recording'
      BY <3>6 DEF Recording
    <3>9. Snap(Replayed')
      BY <1>b, <2>3
    <3>10. ASSUME NEW g \in Handler, job'[g].pc = "record"
           PROVE  g = h /\ Same(GraphOpFold(Replayed', job'[g].ops), graph')
      BY <3>4, <3>6, <3>7, <3>10
    <3> QED
      BY <3>7, <3>8, <3>9, <3>10 DEF ReplayInv
  <2>7. CASE Apart'
    BY <1>b, <2>3, <2>7 DEF ReplayInv
  <2> QED
    BY <2>6, <2>7
<1>8. ASSUME NEW h \in Handler, Record(h) PROVE ReplayInv'
  <2> DEFINE d == [do |-> "text", ops |-> job[h].ops]
  <2>1. /\ job[h].pc = "record" /\ commits' = Append(commits, d) /\ Goto(h, [pc |-> "answer"])
        /\ UNCHANGED <<graph, Apart, canvas>>
    BY <1>8 DEF Record, ghosts, Apart
  <2>2. job[h].ops \in Seq(OpSet)
    BY <1>0, <2>1, JobIs DEF TJobs
  <2>3. Replayed' = GraphOpFold(Replayed, job[h].ops)
    <3>1. d \in Entry
      BY <2>2 DEF Entry
    <3> DEFINE e == d
    <3>2. e.do = "text" /\ e.ops = job[h].ops /\ e \in Entry
      BY <3>1
    <3> HIDE DEF e
    <3>3. Replay(First, Append(commits, e)) = ApplyDiff(Replayed, e)
      BY <1>0, <3>2, ReplayAppend DEF TCommit, Replayed
    <3>4. ApplyDiff(Replayed, e) = GraphOpFold(Replayed, e.ops)
      BY <3>2 DEF ApplyDiff, GraphOpFold
    <3> QED
      BY <2>1, <3>2, <3>3, <3>4 DEF Replayed, e
  <2>4. Snap(Replayed')
    BY <1>b, <2>2, <2>3, FoldSnap
  <2>5. ASSUME NEW g \in Handler PROVE job'[g] = IF g = h THEN [pc |-> "answer"] ELSE job[g]
    BY <1>0, <2>1 DEF Goto, TJobs
  <2>6. CASE ~Apart'
    <3>1. /\ canvas'.pc # "record" /\ \A g \in Handler : job[g].pc = "record" => g = h
          /\ Same(GraphOpFold(Replayed, job[h].ops), graph)
      BY <2>1, <2>6 DEF ReplayInv
    <3>2. \A g \in Handler : job'[g].pc # "record"
      BY <2>5, <3>1
    <3>3. Same(Replayed', graph')
      BY <2>1, <2>3, <3>1
    <3> QED
      BY <2>4, <3>1, <3>2, <3>3 DEF ReplayInv
  <2>7. CASE Apart'
    BY <2>4, <2>7 DEF ReplayInv
  <2> QED
    BY <2>6, <2>7
<1>9. ASSUME NEW h \in Handler, Answer(h) PROVE ReplayInv'
  <2>1. /\ job[h].pc = "answer" /\ Goto(h, [pc |-> "elements"])
        /\ UNCHANGED <<graph, commits, Apart, canvas>>
    BY <1>9 DEF Answer, model, ghosts, Apart
  <2> QED
    BY <2>1, ReplayGoto
<1>10. ASSUME NEW h \in Handler, Lose(h) PROVE ReplayInv'
  <2>1. Goto(h, Idle) /\ UNCHANGED <<graph, commits, raced, canvas>> /\ Idle.pc # "record"
        /\ unrecorded' = (unrecorded \/ job[h].pc = "record")
    BY <1>10 DEF Lose, model, Idle
  <2>2. CASE job[h].pc # "record"
    <3>1. UNCHANGED Apart
      BY <2>1, <2>2 DEF Apart
    <3> QED
      BY <2>1, <2>2, <3>1, ReplayGoto
  <2>3. CASE job[h].pc = "record"
    BY <1>b, <2>1, <2>3 DEF Apart, ReplayInv, Replayed
  <2> QED
    BY <2>2, <2>3
<1>11. ASSUME NEW h \in Handler, ReadElements(h) PROVE ReplayInv'
  <2>1. /\ job[h].pc = "elements" /\ \E els : Goto(h, [pc |-> "contains", elements |-> els])
        /\ UNCHANGED <<graph, commits, Apart, canvas>>
    BY <1>11 DEF ReadElements, model, Apart
  <2> QED
    BY <2>1, ReplayGoto
<1>12. ASSUME NEW h \in Handler, ReadContains(h) PROVE ReplayInv'
  <2>1. /\ job[h].pc = "contains"
        /\ \E els, E : Goto(h, [pc |-> "install", elements |-> els, edges |-> E])
        /\ UNCHANGED <<graph, commits, Apart, canvas>>
    BY <1>12 DEF ReadContains, model, Apart
  <2> QED
    BY <2>1, ReplayGoto
<1>13. ASSUME NEW h \in Handler, Install(h) PROVE ReplayInv'
  <2>1. job[h].pc = "install" /\ Goto(h, Idle) /\ UNCHANGED <<graph, commits, Apart, canvas>> /\ Idle.pc # "record"
    BY <1>13 DEF Install, model, Idle, Apart
  <2> QED
    BY <2>1, ReplayGoto
<1>14. CASE CanvasWrite
  <2>1. PICK i \in DOMAIN graph.elements, m \in Name :
           graph' = SetName(graph, i, m) /\ canvas' = [pc |-> "record", id |-> i, name |-> m]
    BY <1>14 DEF CanvasWrite
  <2>2. (Apart' <=> (Apart \/ Recording)) /\ UNCHANGED <<commits, job>>
    BY <1>14 DEF CanvasWrite, Apart
  <2>3. Replayed' = Replayed
    BY <2>2 DEF Replayed
  <2>4. CASE ~Apart'
    <3>1. ~Apart /\ ~Recording
      BY <2>2, <2>4
    <3>2. Same(Replayed, graph) /\ \A g \in Handler : job'[g].pc # "record"
      BY <2>2, <3>1 DEF ReplayInv, Recording
    <3>3. Same(SetName(Replayed, i, m), SetName(graph, i, m))
      BY <1>a, <1>b, <3>2, SameName
    <3>4. canvas'.pc = "record" /\ canvas'.id = i /\ canvas'.name = m
      BY <2>1
    <3>5. Same(SetName(Replayed', canvas'.id, canvas'.name), graph')
      BY <2>1, <2>3, <3>3, <3>4
    <3> QED
      BY <1>b, <2>3, <3>2, <3>4, <3>5 DEF ReplayInv, Recording
  <2>5. CASE Apart'
    BY <1>b, <2>3, <2>5 DEF ReplayInv
  <2> QED
    BY <2>4, <2>5
<1>15. CASE CanvasRecord
  <2> DEFINE d == [do |-> "renamed", id |-> canvas.id, to |-> canvas.name]
  <2>1. /\ canvas.pc = "record" /\ commits' = Append(commits, d) /\ canvas' = [canvas EXCEPT !.pc = "notify"]
        /\ UNCHANGED <<graph, job, Apart>>
    BY <1>15 DEF CanvasRecord, ghosts, Apart
  <2>2. canvas \in [pc : {"record", "notify"}, id : Id, name : Name]
    BY <1>0, <2>1 DEF TCanvas, Idle
  <2>3. canvas'.pc = "notify"
    BY <2>1, <2>2
  <2>4. Replayed' = SetName(Replayed, canvas.id, canvas.name)
    <3> DEFINE e == d
    <3>1. e.do = "renamed" /\ e.id = canvas.id /\ e.to = canvas.name /\ e \in Entry
      BY <2>2 DEF Entry
    <3> HIDE DEF e
    <3>2. Replay(First, Append(commits, e)) = ApplyDiff(Replayed, e)
      BY <1>0, <3>1, ReplayAppend DEF TCommit, Replayed
    <3>3. ApplyDiff(Replayed, e) = SetName(Replayed, e.id, e.to)
      BY <3>1 DEF ApplyDiff
    <3> QED
      BY <2>1, <3>1, <3>2, <3>3 DEF Replayed, e
  <2>5. Snap(Replayed')
    BY <1>b, <2>4, SetNameIs
  <2>6. CASE ~Apart'
    <3>1. (\A g \in Handler : job'[g].pc # "record") /\ Same(Replayed', graph')
      BY <2>1, <2>4, <2>6 DEF ReplayInv
    <3> QED
      BY <2>3, <2>5, <3>1 DEF ReplayInv
  <2>7. CASE Apart'
    BY <2>5, <2>7 DEF ReplayInv
  <2> QED
    BY <2>6, <2>7
<1>16. CASE CanvasNotify
  <2>1. canvas.pc = "notify" /\ canvas' = Idle /\ UNCHANGED <<graph, commits, Apart, job>>
    BY <1>16 DEF CanvasNotify, model, ghosts, Apart
  <2>2. canvas.pc # "record" /\ canvas'.pc # "record"
    BY <2>1 DEF Idle
  <2> QED
    BY <2>1, <2>2, ReplayFrame
<1>17. CASE Other
  <2>1. PICK i \in DOMAIN graph.elements :
           \/ \E m \in Name : /\ graph' = SetName(graph, i, m)
                              /\ commits' = Append(commits, [do |-> "renamed", id |-> i, to |-> m])
           \/ /\ graph' = Removed(graph, i)
              /\ commits' = Append(commits, [do |-> "deleted", id |-> i])
    BY <1>17 DEF Other
  <2>2. i \in Id
    BY <1>a DEF Whole, IsModel
  <2>3. (Apart' <=> (Apart \/ Recording)) /\ UNCHANGED <<job, canvas>>
    BY <1>17 DEF Other, Apart
  <2>4. Snap(Replayed') /\ (Same(Replayed, graph) => Same(Replayed', graph'))
    <3>1. ASSUME NEW m \in Name, graph' = SetName(graph, i, m),
                 commits' = Append(commits, [do |-> "renamed", id |-> i, to |-> m])
          PROVE  Snap(Replayed') /\ (Same(Replayed, graph) => Same(Replayed', graph'))
      <4> DEFINE e == [do |-> "renamed", id |-> i, to |-> m]
      <4>1. e.do = "renamed" /\ e.id = i /\ e.to = m /\ e \in Entry
        BY <2>2 DEF Entry
      <4> HIDE DEF e
      <4>2. Replay(First, Append(commits, e)) = ApplyDiff(Replayed, e)
        BY <1>0, <4>1, ReplayAppend DEF TCommit, Replayed
      <4>3. ApplyDiff(Replayed, e) = SetName(Replayed, i, m)
        BY <4>1 DEF ApplyDiff
      <4>4. Replayed' = SetName(Replayed, i, m)
        BY <3>1, <4>2, <4>3 DEF Replayed, e
      <4>5. Snap(Replayed')
        BY <1>b, <4>4, SetNameIs
      <4> QED
        BY <1>a, <1>b, <3>1, <4>4, <4>5, SameName
    <3>2. ASSUME graph' = Removed(graph, i), commits' = Append(commits, [do |-> "deleted", id |-> i])
          PROVE  Snap(Replayed') /\ (Same(Replayed, graph) => Same(Replayed', graph'))
      <4> DEFINE e == [do |-> "deleted", id |-> i]
      <4>1. e.do = "deleted" /\ e.id = i /\ e \in Entry
        BY <2>2 DEF Entry
      <4> HIDE DEF e
      <4>2. Replay(First, Append(commits, e)) = ApplyDiff(Replayed, e)
        BY <1>0, <4>1, ReplayAppend DEF TCommit, Replayed
      <4>3. ApplyDiff(Replayed, e) = Removed(Replayed, i)
        BY <4>1 DEF ApplyDiff
      <4>4. Replayed' = Removed(Replayed, i)
        BY <3>2, <4>2, <4>3 DEF Replayed, e
      <4>5. Snap(Replayed')
        BY <4>4 DEF Removed, Snap
      <4> QED
        BY <3>2, <4>4, <4>5, SameRemoved
    <3> QED
      BY <2>1, <3>1, <3>2
  <2>5. CASE ~Apart'
    <3>1. ~Apart /\ ~Recording
      BY <2>3, <2>5
    <3>2. Same(Replayed', graph')
      BY <2>4, <3>1 DEF ReplayInv
    <3>3. (\A g \in Handler : job'[g].pc # "record") /\ canvas'.pc # "record"
      BY <2>3, <3>1 DEF Recording
    <3> QED
      BY <2>4, <3>2, <3>3 DEF ReplayInv
  <2>6. CASE Apart'
    BY <2>4, <2>6 DEF ReplayInv
  <2> QED
    BY <2>5, <2>6
<1>18. CASE CanvasFails
  <2>1. UNCHANGED <<graph, commits, raced, job>> /\ Idle.pc # "record"
    BY <1>18 DEF CanvasFails, model, Idle
  <2>2. CASE canvas.pc = "record"
    <3>1. unrecorded'
      BY <1>18, <2>1, <2>2 DEF CanvasFails
    <3> QED
      BY <1>b, <2>1, <3>1 DEF Apart, ReplayInv, Replayed
  <2>3. CASE canvas.pc # "record"
    <3>0. \/ \E i, m : canvas' = [pc |-> "notify", id |-> i, name |-> m] /\ unrecorded' = unrecorded
          \/ canvas' = Idle /\ unrecorded' = (unrecorded \/ canvas.pc = "record")
      BY <1>18, <2>3 DEF CanvasFails
    <3>a. canvas'.pc # "record"
      BY <2>1, <3>0
    <3>b. unrecorded' <=> unrecorded
      BY <2>3, <3>0 DEF TypeOK, TFlags
    <3>1. canvas'.pc # "record" /\ (unrecorded' <=> unrecorded)
      BY <3>a, <3>b
    <3>2. UNCHANGED Apart
      BY <2>1, <3>1 DEF Apart
    <3> QED
      BY <2>1, <2>3, <3>1, <3>2, ReplayFrame
  <2> QED
    BY <2>2, <2>3
<1> QED
  <2>1. Next \/ UNCHANGED vars
    OBVIOUS
  <2>2. CASE Next
    BY <1>2, <1>3, <1>4, <1>5, <1>6, <1>7, <1>8, <1>9, <1>10, <1>11, <1>12, <1>13, <1>14,
       <1>15, <1>16, <1>17, <1>18, <2>2 DEF Next, Handle
  <2> QED
    BY <1>1, <2>1, <2>2

(* At first nothing is recorded, and the chain is empty. *)
LEMMA ReplayInit == Init => ReplayInv
<1> SUFFICES ASSUME Init PROVE ReplayInv
  OBVIOUS
<1>1. Replayed = First
  <2>1. DOMAIN << >> = 1..0 /\ 0 \in Nat
    OBVIOUS
  <2>2. PICK f : DiffRun(f, First, << >>, 0)
    BY <2>1, DiffSteps
  <2> QED
    BY <2>2 DEF DiffRun, DiffFold, Replay, Replayed, Init
<1>2. Snap(First) /\ graph = First
  BY FirstAssumption DEF Snap, Init
<1>3. canvas.pc # "record" /\ \A h \in Handler : job[h].pc # "record"
  BY DEF Init, Idle
<1> QED
  BY <1>1, <1>2, <1>3 DEF ReplayInv, Same

(* Whenever no write fell between the check, the write and the commit of     *)
(* another, no request failed after its write, and none is waiting for its   *)
(* commit, the replay of the commits on the first model gives the elements   *)
(* and edges of the live one.                                                *)
THEOREM ReplayedIsLive == Spec => []ReplayIsLive
<1>1. ReplayInv => ReplayIsLive
  BY DEF ReplayInv, ReplayIsLive, Same, Replayed, Apart
<1> QED
  BY <1>1, TypeInit, TypeNext, ReplayInit, ReplayNext, PTL DEF Spec

-----------------------------------------------------------------------------

(* Lines that stay where they are. *)
LEMMA EditInPlace ==
    ASSUME NEW t, NEW u, DOMAIN u = DOMAIN t, \A n \in DOMAIN t : u[n].anchor = t[n].anchor,
           NEW was, DOMAIN t \subseteq Nat \ {0}
    PROVE  Edited(t, u, was, was)
<1> DEFINE f == [n \in DOMAIN u |-> n]
<1>1. EditFrom(f, t, u, 0)
  BY DEF EditFrom
<1>2. 0 \notin NewIn(u)
  BY DEF NewIn
<1> QED
  BY <1>1, <1>2 DEF Edited

(* Every edit but one that leaves no text. *)
LEMMA EditIs ==
    ASSUME TText, TCounts, Typing
    PROVE  (text' = Unparsable /\ inserted' = inserted) \/ Edited(text, text', inserted, inserted')
<1>1. text \in Seq(LineRec) /\ text' \in Texts
  BY EditType
<1>2. Len(text) \in Nat /\ DOMAIN text = 1..Len(text) /\ DOMAIN text \subseteq Nat \ {0}
  BY <1>1, LenProperties
<1>3. \A n \in DOMAIN text : text[n] \in LineRec
  BY <1>1, <1>2, ElementOfSeq
<1>4. CASE Retitle
  <2>1. PICK n \in DOMAIN text, m \in Name : text' = [text EXCEPT ![n].name = m] /\ UNCHANGED inserted
    BY <1>4 DEF Retitle, Type
  <2>2. DOMAIN text' = DOMAIN text /\ \A k \in DOMAIN text : text'[k].anchor = text[k].anchor
    BY <1>3, <2>1 DEF LineRec
  <2> QED
    BY <1>2, <2>1, <2>2, EditInPlace
<1>5. CASE Rekind
  <2>1. PICK n \in DOMAIN text, m \in Kind : text' = [text EXCEPT ![n].kind = m] /\ UNCHANGED inserted
    BY <1>5 DEF Rekind, Type
  <2>2. DOMAIN text' = DOMAIN text /\ \A k \in DOMAIN text : text'[k].anchor = text[k].anchor
    BY <1>3, <2>1 DEF LineRec
  <2> QED
    BY <1>2, <2>1, <2>2, EditInPlace
<1>6. CASE Indent
  <2>1. PICK n \in DOMAIN text, by \in {-1, 1} :
           /\ text' = [m \in DOMAIN text |->
                          IF m \in Block(n) THEN [text[m] EXCEPT !.depth = @ + by] ELSE text[m]]
           /\ UNCHANGED inserted
    BY <1>6 DEF Indent, Type
  <2>2. DOMAIN text' = DOMAIN text /\ \A k \in DOMAIN text : text'[k].anchor = text[k].anchor
    BY <1>3, <2>1 DEF LineRec
  <2> QED
    BY <1>2, <2>1, <2>2, EditInPlace
<1>7. CASE Cut
  <2>1. PICK n \in DOMAIN text :
           /\ text' = SubSeq(text, 1, n - 1) \o SubSeq(text, n + Cardinality(Block(n)), Len(text))
           /\ UNCHANGED inserted
    BY <1>7 DEF Cut, Type
  <2>2. PICK last \in n..Len(text) : Cardinality(Block(n)) = last - n + 1
    BY <1>1, BlockRange
  <2> DEFINE x == n + Cardinality(Block(n))
             above == SubSeq(text, 1, n - 1)
             below == SubSeq(text, x, Len(text))
  <2>3. x \in Nat /\ x > n /\ n \in Nat /\ n >= 1 /\ x <= Len(text) + 1 /\ n - 1 \in Int /\ n - 1 <= Len(text)
    BY <1>2, <2>2
  <2> HIDE DEF x
  <2>4. (\A i \in 1..(n - 1) : text[i] \in LineRec) /\ (\A i \in x..Len(text) : text[i] \in LineRec)
    BY <1>2, <1>3, <2>3
  <2>5. /\ above \in Seq(LineRec) /\ Len(above) = n - 1
        /\ \A i \in 1..(n - 1) : above[i] = text[i]
    <3>1. /\ above \in Seq(LineRec) /\ Len(above) = (IF 1 <= n - 1 THEN (n - 1) - 1 + 1 ELSE 0)
          /\ \A i \in 1..((n - 1) - 1 + 1) : above[i] = text[1 + i - 1]
      BY <2>3, <2>4, SubSeqProperties
    <3> QED
      BY <2>3, <3>1
  <2>6. /\ below \in Seq(LineRec) /\ Len(below) = Len(text) - x + 1
        /\ \A i \in 1..(Len(text) - x + 1) : below[i] = text[x + i - 1]
    <3>1. /\ below \in Seq(LineRec) /\ Len(below) = (IF x <= Len(text) THEN Len(text) - x + 1 ELSE 0)
          /\ \A i \in 1..(Len(text) - x + 1) : below[i] = text[x + i - 1]
      BY <1>2, <2>3, <2>4, SubSeqProperties
    <3> QED
      BY <1>2, <2>3, <3>1
  <2> HIDE DEF above, below
  <2>7. /\ Len(text') = n - 1 + (Len(text) - x + 1) /\ text' \in Seq(LineRec)
        /\ \A i \in 1..Len(text') : text'[i] = IF i <= n - 1 THEN above[i] ELSE below[i - (n - 1)]
    <3>1. /\ above \o below \in Seq(LineRec) /\ Len(above \o below) = Len(above) + Len(below)
          /\ \A i \in 1..(Len(above) + Len(below)) :
                (above \o below)[i] = IF i <= Len(above) THEN above[i] ELSE below[i - Len(above)]
      BY <2>5, <2>6, ConcatProperties
    <3>2. text' = above \o below
      BY <2>1 DEF above, below, x
    <3>3. Len(text') = Len(above) + Len(below)
      BY <3>1, <3>2
    <3> QED
      BY <2>5, <2>6, <3>1, <3>2, <3>3
  <2>8. DOMAIN text' = 1..Len(text') /\ Len(text') \in Nat
    BY <2>7, LenProperties
  <2> DEFINE f == [i \in DOMAIN text' |-> IF i < n THEN i ELSE x + i - n]
  <2>9. ASSUME NEW i \in DOMAIN text' PROVE f[i] \in DOMAIN text /\ text'[i] = text[f[i]]
    <3>1. i \in 1..Len(text') /\ i \in Nat
      BY <2>8
    <3>2. CASE i < n
      <4>1. i \in 1..(n - 1) /\ i <= n - 1 /\ f[i] = i
        BY <2>3, <3>1, <3>2
      <4> QED
        BY <1>2, <2>3, <2>5, <2>7, <3>1, <4>1
    <3>3. CASE ~(i < n)
      <4>1. i - (n - 1) \in 1..(Len(text) - x + 1) /\ ~(i <= n - 1) /\ f[i] = x + i - n
            /\ x + (i - (n - 1)) - 1 = x + i - n
        BY <1>2, <2>3, <2>7, <3>1, <3>3
      <4>2. text'[i] = below[i - (n - 1)] /\ below[i - (n - 1)] = text[x + i - n]
        BY <2>6, <2>7, <3>1, <4>1
      <4>3. x + i - n \in 1..Len(text)
        BY <1>2, <2>3, <4>1
      <4> QED
        BY <1>2, <4>1, <4>2, <4>3
    <3> QED
      BY <3>2, <3>3
  <2>10. ASSUME NEW i \in DOMAIN text', NEW k \in DOMAIN text', f[i] = f[k] PROVE i = k
    <3>1. i \in Nat /\ k \in Nat
      BY <2>8
    <3>2. f[i] = (IF i < n THEN i ELSE x + i - n) /\ f[k] = (IF k < n THEN k ELSE x + k - n)
      OBVIOUS
    <3>3. f[i] = f[k]
      BY <2>10
    <3> HIDE DEF f
    <3>4. (IF i < n THEN i ELSE x + i - n) = (IF k < n THEN k ELSE x + k - n)
      BY <3>2, <3>3
    <3> QED
      BY <2>3, <3>1, <3>4
  <2> HIDE DEF f
  <2>11. EditFrom(f, text, text', 0) /\ 0 \notin NewIn(text')
    BY <2>8, <2>9, <2>10 DEF EditFrom, NewIn
  <2> QED
    BY <2>1, <2>11 DEF Edited
<1>8. CASE Copy
  <2>1. PICK n \in DOMAIN text :
           /\ text' = Append(text, [text[n] EXCEPT !.depth = 0])
           /\ inserted' = IF text[n].anchor = NoOne THEN inserted + 1 ELSE inserted
    BY <1>8 DEF Copy, Type
  <2> DEFINE line == [text[n] EXCEPT !.depth = 0]
             x == Len(text) + 1
             f == [i \in DOMAIN text |-> i]
  <2>2. line \in LineRec /\ line.anchor = text[n].anchor
    BY <1>3 DEF LineRec
  <2> HIDE DEF line
  <2>3. /\ text' \in Seq(LineRec) /\ Len(text') = x
        /\ \A i \in 1..Len(text) : text'[i] = text[i]
        /\ text'[x] = line
    BY <1>1, <2>1, <2>2, AppendProperties DEF line
  <2>4. DOMAIN text' = 1..x /\ x \in 1..x /\ DOMAIN text' \ {x} = DOMAIN text
    BY <1>2, <2>3, LenProperties
  <2>5. text[n].anchor \in {NoOne} \cup Anchors(text)
    BY DEF Anchors
  <2>6. EditFrom(f, text, text', x)
    BY <1>2, <2>2, <2>3, <2>4, <2>5 DEF EditFrom
  <2>7. x \in NewIn(text') <=> text[n].anchor = NoOne
    BY <2>2, <2>3, <2>4 DEF NewIn
  <2> HIDE DEF f, x
  <2> QED
    BY <2>1, <2>6, <2>7 DEF Edited
<1>9. CASE Spoil
  BY <1>9 DEF Spoil, Type
<1>10. CASE Insert
  <2>1. PICK n \in 0..Len(text), l \in NewLines, d \in 0..Len(text) :
           /\ text' = InsertAt(text, n + 1, [anchor |-> NoOne, kind |-> l.kind, name |-> l.name, depth |-> d])
           /\ inserted' = inserted + 1
    BY <1>10 DEF Insert, Type
  <2> DEFINE line == [anchor |-> NoOne, kind |-> l.kind, name |-> l.name, depth |-> d]
             above == SubSeq(text, 1, n)
             below == SubSeq(text, n + 1, Len(text))
             x == n + 1
  <2>2. line \in LineRec /\ line.anchor = NoOne
    <3>1. l.kind \in Kind /\ l.name \in Name /\ d \in Nat
      BY LinesAssumption
    <3> QED
      BY <3>1 DEF LineRec
  <2> HIDE DEF line
  <2>3. text' = above \o <<line>> \o below
    <3>1. (n + 1) - 1 = n
      BY <1>2
    <3> QED
      BY <2>1, <3>1 DEF InsertAt, line
  <2>4. n \in Int /\ n + 1 \in Int /\ 1 \in Int /\ Len(text) \in Int /\ n \in Nat /\ n <= Len(text)
    BY <1>2
  <2>5. (\A i \in 1..n : text[i] \in LineRec) /\ (\A i \in (n + 1)..Len(text) : text[i] \in LineRec)
    BY <1>2, <1>3
  <2>6. above \in Seq(LineRec) /\ Len(above) = n /\ \A i \in 1..n : above[i] = text[i]
    <3>1. /\ above \in Seq(LineRec) /\ Len(above) = (IF 1 <= n THEN n - 1 + 1 ELSE 0)
          /\ \A i \in 1..(n - 1 + 1) : above[i] = text[1 + i - 1]
      BY <2>4, <2>5, SubSeqProperties
    <3> QED
      BY <2>4, <3>1
  <2>7. /\ below \in Seq(LineRec) /\ Len(below) = Len(text) - n
        /\ \A i \in 1..(Len(text) - n) : below[i] = text[n + i]
    <3>1. /\ below \in Seq(LineRec)
          /\ Len(below) = (IF n + 1 <= Len(text) THEN Len(text) - (n + 1) + 1 ELSE 0)
          /\ \A i \in 1..(Len(text) - (n + 1) + 1) : below[i] = text[n + 1 + i - 1]
      BY <2>4, <2>5, SubSeqProperties
    <3>2. Len(text) - (n + 1) + 1 = Len(text) - n /\ \A i \in 1..(Len(text) - n) : n + 1 + i - 1 = n + i
      BY <2>4
    <3>3. Len(below) = Len(text) - n
      BY <2>4, <3>1
    <3>4. ASSUME NEW i \in 1..(Len(text) - n) PROVE below[i] = text[n + i]
      BY <3>1, <3>2
    <3> QED
      BY <3>1, <3>3, <3>4
  <2> HIDE DEF above, below
  <2>8. <<line>> \in Seq(LineRec) /\ Len(<<line>>) = 1 /\ <<line>>[1] = line
    BY <2>2
  <2> DEFINE top == above \o <<line>>
  <2>9. /\ top \in Seq(LineRec) /\ Len(top) = n + 1
        /\ \A i \in 1..n : top[i] = text[i]
        /\ top[n + 1] = line
    <3>1. /\ top \in Seq(LineRec) /\ Len(top) = n + 1
          /\ \A i \in 1..(n + 1) : top[i] = IF i <= n THEN above[i] ELSE <<line>>[i - n]
      BY <2>6, <2>8, ConcatProperties
    <3>2. n + 1 \in 1..(n + 1) /\ ~(n + 1 <= n) /\ (n + 1) - n = 1 /\ \A i \in 1..n : i \in 1..(n + 1) /\ i <= n
      BY <2>4
    <3> HIDE DEF top
    <3>3. top[n + 1] = <<line>>[1]
      BY <3>1, <3>2
    <3> QED
      BY <2>6, <2>8, <3>1, <3>2, <3>3
  <2> HIDE DEF top
  <2>10. /\ text' \in Seq(LineRec) /\ Len(text') = Len(text) + 1
         /\ \A i \in 1..(Len(text) + 1) : text'[i] = IF i <= n + 1 THEN top[i] ELSE below[i - (n + 1)]
    <3>1. /\ top \o below \in Seq(LineRec) /\ Len(top \o below) = (n + 1) + (Len(text) - n)
          /\ \A i \in 1..((n + 1) + (Len(text) - n)) :
                (top \o below)[i] = IF i <= n + 1 THEN top[i] ELSE below[i - (n + 1)]
      <4>1. /\ top \o below \in Seq(LineRec) /\ Len(top \o below) = Len(top) + Len(below)
            /\ \A i \in 1..(Len(top) + Len(below)) :
                  (top \o below)[i] = IF i <= Len(top) THEN top[i] ELSE below[i - Len(top)]
        BY <2>7, <2>9, ConcatProperties
      <4>2. Len(top) = n + 1 /\ Len(below) = Len(text) - n
        BY <2>7, <2>9
      <4> QED
        BY <4>1, <4>2
    <3>2. (n + 1) + (Len(text) - n) = Len(text) + 1
      BY <2>4
    <3>3. text' = top \o below
      BY <2>3 DEF top
    <3> QED
      BY <3>1, <3>2, <3>3
  <2>11. DOMAIN text' = 1..(Len(text) + 1)
    BY <2>10, LenProperties
  <2> DEFINE f == [i \in DOMAIN text' |-> IF i <= n THEN i ELSE i - 1]
  <2>12. ASSUME NEW i \in DOMAIN text' \ {x} PROVE f[i] \in DOMAIN text /\ text'[i] = text[f[i]]
    <3>1. i \in 1..(Len(text) + 1) /\ i \in Nat /\ i # n + 1
      BY <2>4, <2>11
    <3>2. CASE i <= n
      <4>1. i \in 1..n /\ i <= n + 1 /\ f[i] = i
        BY <2>4, <3>1, <3>2
      <4> QED
        BY <1>2, <2>4, <2>9, <2>10, <3>1, <4>1
    <3>3. CASE ~(i <= n)
      <4>1. i - (n + 1) \in 1..(Len(text) - n) /\ ~(i <= n + 1) /\ f[i] = i - 1 /\ n + (i - (n + 1)) = i - 1
        BY <2>4, <3>1, <3>3
      <4>2. text'[i] = below[i - (n + 1)] /\ below[i - (n + 1)] = text[i - 1]
        BY <2>7, <2>10, <3>1, <4>1
      <4>3. i - 1 \in 1..Len(text)
        BY <2>4, <3>1, <3>3
      <4> QED
        BY <1>2, <4>1, <4>2, <4>3
    <3> QED
      BY <3>2, <3>3
  <2>13. ASSUME NEW i \in DOMAIN text' \ {x}, NEW k \in DOMAIN text' \ {x}, f[i] = f[k] PROVE i = k
    <3>1. i \in Nat /\ k \in Nat /\ i # n + 1 /\ k # n + 1
      BY <2>11
    <3>2. f[i] = (IF i <= n THEN i ELSE i - 1) /\ f[k] = (IF k <= n THEN k ELSE k - 1)
      OBVIOUS
    <3>3. f[i] = f[k]
      BY <2>13
    <3> HIDE DEF f
    <3>4. (IF i <= n THEN i ELSE i - 1) = (IF k <= n THEN k ELSE k - 1)
      BY <3>2, <3>3
    <3> QED
      BY <2>4, <3>1, <3>4
  <2> HIDE DEF f
  <2>14. x \in DOMAIN text' /\ text'[x] = line
    <3>1. x \in 1..(Len(text) + 1) /\ x <= n + 1
      BY <2>4
    <3> QED
      BY <2>9, <2>10, <2>11, <3>1
  <2>15. EditFrom(f, text, text', x) /\ x \in NewIn(text')
    BY <2>2, <2>12, <2>13, <2>14 DEF EditFrom, NewIn
  <2> QED
    BY <2>1, <2>15 DEF Edited
<1> QED
  BY <1>4, <1>5, <1>6, <1>7, <1>8, <1>9, <1>10 DEF Typing

(* An edit makes no anchor. *)
LEMMA EditAnchors ==
    ASSUME TText, TCounts, Typing
    PROVE  Anchors(text') \subseteq Anchors(text)
<1>1. CASE text' = Unparsable
  BY <1>1 DEF Unparsable, Anchors
<1>2. CASE Edited(text, text', inserted, inserted')
  <2>1. PICK f, x : EditFrom(f, text, text', x)
    BY <1>2 DEF Edited
  <2> SUFFICES ASSUME NEW n \in DOMAIN text', text'[n].anchor # NoOne
               PROVE  text'[n].anchor \in Anchors(text)
    BY DEF Anchors
  <2>2. CASE n = x
    BY <2>1, <2>2 DEF EditFrom
  <2>3. CASE n # x
    BY <2>1, <2>3 DEF EditFrom, Anchors
  <2> QED
    BY <2>2, <2>3
<1> QED
  BY <1>1, <1>2, EditIs

-----------------------------------------------------------------------------

(* The parent of an element: the one source of its edges from above. *)
LEMMA ParentIs ==
    ASSUME NEW s, IsModel(s), OneParent(s)
    PROVE  \A i : /\ \A p : Linked(s, p, i) => ParentOf(s, i) = p
                  /\ (~\E p : Linked(s, p, i)) => ParentOf(s, i) = NoOne
                  /\ ParentOf(s, i) # NoOne => Linked(s, ParentOf(s, i), i)
                  /\ ParentOf(s, i) \in Id \cup {NoOne}
<1> TAKE i
<1> DEFINE up == {e.source : e \in {e \in ContainsOf(s) : e.target = i}}
<1>1. ParentOf(s, i) = IF up = {} THEN NoOne ELSE CHOOSE p \in up : TRUE
  BY DEF ParentOf
<1>2. \A p : p \in up <=> Linked(s, p, i)
  BY DEF Linked
<1>3. \A p, q : (Linked(s, p, i) /\ Linked(s, q, i)) => p = q
  BY DEF Linked, OneParent
<1>4. \A p : Linked(s, p, i) => p \in Id
  BY DEF Linked, IsModel, ContainsOf, EdgeRec
<1> HIDE DEF up
<1>5. CASE up = {}
  BY <1>1, <1>2, <1>5
<1>6. CASE up # {}
  <2>1. ParentOf(s, i) \in up
    BY <1>1, <1>6
  <2> QED
    BY <1>2, <1>3, <1>4, <2>1
<1> QED
  BY <1>5, <1>6

(* A print has the name and the place of each element on its line. *)
LEMMA PrintAt ==
    ASSUME NEW s, IsModel(s), OneParent(s), NEW b, b = PrintTree(s), NEW n \in DOMAIN b
    PROVE  /\ b[n].anchor \in DOMAIN s.elements /\ b[n].anchor # NoOne
           /\ b[n].kind = s.elements[b[n].anchor].kind
           /\ b[n].name = s.elements[b[n].anchor].name
           /\ RefOf(b, BlockOf(b, n)) = ParentOf(s, b[n].anchor)
<1>1. Nested(b, 0, s, Roots(s))
  BY PrintIs
<1>2. /\ b \in Seq(LineRec)
      /\ \A m \in DOMAIN b : b[m].anchor \in DOMAIN s.elements
      /\ b[n].kind = s.elements[b[n].anchor].kind /\ b[n].name = s.elements[b[n].anchor].name
      /\ b[n].depth = 0 => b[n].anchor \in Roots(s)
      /\ b[n].depth # 0 => InBlock(s, b, n)
  BY <1>1 DEF Nested
<1>3. \A m \in DOMAIN b : b[m].anchor # NoOne
  BY <1>2, IdAssumption DEF IsModel
<1>4. Len(b) \in Nat /\ DOMAIN b = 1..Len(b) /\ \A m \in DOMAIN b : b[m].depth \in Nat
  <2>1. Len(b) \in Nat /\ DOMAIN b = 1..Len(b) /\ \A m \in DOMAIN b : b[m] \in LineRec
    BY <1>2, LenProperties, ElementOfSeq
  <2> QED
    BY <2>1 DEF LineRec
<1>5. /\ BlockOf(b, n) \in 0..(n - 1) /\ n \in Nat
      /\ BlockOf(b, n) = 0 => \A m \in 1..(n - 1) : ~(b[m].depth < b[n].depth)
      /\ BlockOf(b, n) # 0 => /\ b[BlockOf(b, n)].depth < b[n].depth
                              /\ \A k \in (BlockOf(b, n) + 1)..(n - 1) : ~(b[k].depth < b[n].depth)
  BY <1>2, BlockIs
<1> DEFINE x == BlockOf(b, n)
<1> HIDE DEF x
<1>6. CASE b[n].depth = 0
  <2>1. x = 0
    <3> SUFFICES ASSUME x # 0 PROVE FALSE
      OBVIOUS
    <3>1. b[x].depth < b[n].depth /\ x \in DOMAIN b
      BY <1>4, <1>5 DEF x
    <3> QED
      BY <1>4, <1>6, <3>1
  <2>2. RefOf(b, x) = NoOne
    BY <2>1 DEF RefOf
  <2>3. ~\E p : Linked(s, p, b[n].anchor)
    BY <1>2, <1>6 DEF Linked, Roots
  <2> QED
    BY <1>2, <1>3, <2>2, <2>3, ParentIs DEF x
<1>7. CASE b[n].depth # 0
  <2>1. PICK m \in 1..(n - 1) : /\ b[m].depth + 1 = b[n].depth
                                /\ \A k \in (m + 1)..(n - 1) : b[k].depth >= b[n].depth
                                /\ Linked(s, b[m].anchor, b[n].anchor)
    BY <1>2, <1>7 DEF InBlock
  <2>2. m \in DOMAIN b /\ m \in Nat /\ m < n /\ \A k \in 1..(n - 1) : k \in DOMAIN b
    BY <1>4, <1>5
  <2>3. b[m].depth < b[n].depth
    BY <1>4, <2>1, <2>2
  <2>4. x # 0
    BY <1>5, <2>3 DEF x
  <2>5. x \in 1..(n - 1) /\ b[x].depth < b[n].depth /\ \A k \in (x + 1)..(n - 1) : ~(b[k].depth < b[n].depth)
    BY <1>5, <2>4 DEF x
  <2>6. x = m
    <3>1. ~(m > x)
      <4> SUFFICES ASSUME m > x PROVE FALSE
        OBVIOUS
      <4>1. m \in (x + 1)..(n - 1)
        BY <2>2, <2>5
      <4> QED
        BY <2>3, <2>5, <4>1
    <3>2. ~(x > m)
      <4> SUFFICES ASSUME x > m PROVE FALSE
        OBVIOUS
      <4>1. x \in (m + 1)..(n - 1)
        BY <2>2, <2>5
      <4>2. b[x].depth >= b[n].depth /\ b[x].depth \in Nat /\ b[n].depth \in Nat
        BY <1>4, <2>1, <2>2, <2>5, <4>1
      <4> QED
        BY <2>5, <4>2
    <3> QED
      BY <2>2, <2>5, <3>1, <3>2
  <2>7. RefOf(b, x) = b[m].anchor
    BY <1>3, <2>2, <2>4, <2>6 DEF RefOf
  <2> QED
    BY <1>2, <1>3, <2>1, <2>7, ParentIs DEF x
<1> QED
  BY <1>6, <1>7

(* There is no text at first.                                                *)
LEMMA AnchorInit == Init => AnchorInv
BY DEF Init, AnchorInv, Idle, Anchors

(* The message at the head, those behind it, and those before one more. *)
LEMMA HeadIs ==
    ASSUME TServer, toServer # << >>
    PROVE  /\ 1 \in DOMAIN toServer /\ Head(toServer) = toServer[1]
           /\ \A n \in DOMAIN Tail(toServer) : n + 1 \in DOMAIN toServer /\ Tail(toServer)[n] = toServer[n + 1]
           /\ Len(toServer) \in Nat /\ DOMAIN toServer = 1..Len(toServer) /\ Len(toServer) >= 1
           /\ DOMAIN Tail(toServer) = 1..(Len(toServer) - 1)
           /\ \A n \in 2..Len(toServer) : n - 1 \in DOMAIN Tail(toServer) /\ Tail(toServer)[n - 1] = toServer[n]
<1>1. /\ toServer \in Seq(Message) /\ Len(toServer) \in Nat /\ DOMAIN toServer = 1..Len(toServer)
      /\ Len(toServer) # 0
  BY LenProperties, EmptySeq DEF TServer
<1>2. Tail(toServer) \in Seq(Message) /\ Len(Tail(toServer)) = Len(toServer) - 1
      /\ \A n \in 1..Len(Tail(toServer)) : Tail(toServer)[n] = toServer[n + 1]
      /\ Head(toServer) = toServer[1]
  BY <1>1, HeadTailProperties
<1>3. DOMAIN Tail(toServer) = 1..(Len(toServer) - 1)
  BY <1>2, LenProperties
<1> QED
  BY <1>1, <1>2, <1>3

(* What is left under way when the first message is taken.                   *)
LEMMA TailAnchors ==
    ASSUME TServer, AnchorInv, toServer # << >>, toServer' = Tail(toServer)
    PROVE  \A n \in DOMAIN toServer' :
              toServer'[n].what = "text" => Anchors(toServer'[n].text) \subseteq Anchors(toServer'[n].base)
<1> SUFFICES ASSUME NEW n \in DOMAIN toServer', toServer'[n].what = "text"
             PROVE  Anchors(toServer'[n].text) \subseteq Anchors(toServer'[n].base)
  OBVIOUS
<1>1. n + 1 \in DOMAIN toServer /\ toServer'[n] = toServer[n + 1]
  BY HeadIs
<1>2. toServer[n + 1].what = "text"
      => Anchors(toServer[n + 1].text) \subseteq Anchors(toServer[n + 1].base)
  BY <1>1 DEF AnchorInv
<1> QED
  BY <1>1, <1>2

(* A message is sent behind those under way.                                 *)
LEMMA AppendIs ==
    ASSUME TServer, NEW m \in Message
    PROVE  /\ Len(toServer) \in Nat /\ DOMAIN toServer = 1..Len(toServer)
           /\ DOMAIN Append(toServer, m) = 1..(Len(toServer) + 1)
           /\ \A n \in DOMAIN toServer : Append(toServer, m)[n] = toServer[n]
           /\ Append(toServer, m)[Len(toServer) + 1] = m
BY AppendProperties, LenProperties DEF TServer

(* A handler goes to a step that checks no text. *)
LEMMA AnchorGoto ==
    ASSUME TypeOK, AnchorInv, NEW h \in Handler, NEW j, Goto(h, j), j.pc # "check",
           UNCHANGED <<text, base, toServer>>
    PROVE  AnchorInv'
<1>1. \A g \in Handler : job'[g] = IF g = h THEN j ELSE job[g]
  BY DEF Goto, TypeOK, TJobs
<1> QED
  BY <1>1 DEF AnchorInv

(* Editing adds no anchor.                                                   *)
LEMMA AnchorNext == TypeOK /\ AnchorInv /\ [Next]_vars => AnchorInv'
<1> SUFFICES ASSUME TypeOK, AnchorInv, [Next]_vars PROVE AnchorInv'
  OBVIOUS
<1>0. TServer /\ TJobs /\ TText /\ TCounts /\ TCanvas /\ TEditor
  BY DEF TypeOK
<1>a. Idle.pc # "check"
  BY DEF Idle
<1>1. CASE UNCHANGED vars
  BY <1>1 DEF vars, editor, AnchorInv
<1>2. CASE Typing
  <2>1. UNCHANGED <<base, toServer, job>>
    BY <1>2 DEF Typing, Retitle, Rekind, Indent, Cut, Copy, Spoil, Insert, Type
  <2>2. Anchors(text') \subseteq Anchors(base)
    BY <1>0, <1>2, EditAnchors DEF AnchorInv
  <2> QED
    BY <2>1, <2>2 DEF AnchorInv
<1>3. CASE Send
  <2> DEFINE m == [what |-> "text", text |-> text, base |-> base]
  <2>1. toServer' = Append(toServer, m) /\ UNCHANGED <<text, base, job>>
    BY <1>3 DEF Send
  <2>2. m \in Message /\ m.text = text /\ m.base = base
    BY <1>0 DEF TText, Message
  <2> HIDE DEF m
  <2>3. /\ DOMAIN toServer' = 1..(Len(toServer) + 1) /\ DOMAIN toServer = 1..Len(toServer) /\ Len(toServer) \in Nat
        /\ \A n \in DOMAIN toServer : toServer'[n] = toServer[n]
        /\ toServer'[Len(toServer) + 1] = m
    BY <1>0, <2>1, <2>2, AppendIs
  <2>4. ASSUME NEW n \in DOMAIN toServer', toServer'[n].what = "text"
        PROVE  Anchors(toServer'[n].text) \subseteq Anchors(toServer'[n].base)
    <3>1. n \in DOMAIN toServer \/ n = Len(toServer) + 1
      BY <2>3
    <3> QED
      BY <2>2, <2>3, <2>4, <3>1 DEF AnchorInv
  <2> QED
    BY <2>1, <2>4 DEF AnchorInv
<1>4. CASE Pushed
  BY <1>4 DEF Pushed, AnchorInv
<1>5. ASSUME NEW h \in Handler, HandleText(h) PROVE AnchorInv'
  <2> DEFINE m == Head(toServer)
  <2>1. /\ toServer # << >> /\ m.what = "text" /\ toServer' = Tail(toServer)
        /\ \/ UNCHANGED job
           \/ \E ops : Goto(h, [pc |-> "check", ops |-> ops, text |-> m.text, base |-> m.base, read |-> snapshot])
        /\ UNCHANGED <<text, base>>
    BY <1>5 DEF HandleText
  <2>2. Anchors(m.text) \subseteq Anchors(m.base)
    BY <1>0, <2>1, HeadIs DEF AnchorInv
  <2>3. \A n \in DOMAIN toServer' :
           toServer'[n].what = "text" => Anchors(toServer'[n].text) \subseteq Anchors(toServer'[n].base)
    BY <1>0, <2>1, TailAnchors
  <2> HIDE DEF m
  <2>4. ASSUME NEW g \in Handler, job'[g].pc = "check"
        PROVE  Anchors(job'[g].text) \subseteq Anchors(job'[g].base)
    <3>1. CASE UNCHANGED job
      BY <2>1, <2>4, <3>1 DEF AnchorInv
    <3>2. ASSUME NEW ops,
                 Goto(h, [pc |-> "check", ops |-> ops, text |-> m.text, base |-> m.base, read |-> snapshot])
          PROVE  Anchors(job'[g].text) \subseteq Anchors(job'[g].base)
      <4> DEFINE j == [pc |-> "check", ops |-> ops, text |-> m.text, base |-> m.base, read |-> snapshot]
      <4>1. j.text = m.text /\ j.base = m.base /\ j.read = snapshot /\ Goto(h, j)
        BY <3>2
      <4> HIDE DEF j
      <4>2. job'[g] = IF g = h THEN j ELSE job[g]
        BY <1>0, <4>1 DEF Goto, TJobs
      <4>3. CASE g = h
        BY <2>1, <2>2, <4>1, <4>2, <4>3
      <4>4. CASE g # h
        BY <2>1, <2>4, <4>2, <4>4 DEF AnchorInv
      <4> QED
        BY <4>3, <4>4
    <3> QED
      BY <2>1, <3>1, <3>2
  <2>5. Anchors(text') \subseteq Anchors(base')
    BY <2>1 DEF AnchorInv
  <2> QED
    BY <2>3, <2>4, <2>5 DEF AnchorInv
<1>6. ASSUME NEW h \in Handler, HandleRenamed(h) PROVE AnchorInv'
  <2>1. /\ toServer # << >> /\ toServer' = Tail(toServer)
        /\ UNCHANGED <<text, base, job>>
    BY <1>6 DEF HandleRenamed, editor
  <2>2. \A n \in DOMAIN toServer' :
           toServer'[n].what = "text" => Anchors(toServer'[n].text) \subseteq Anchors(toServer'[n].base)
    BY <1>0, <2>1, TailAnchors
  <2> QED
    BY <2>1, <2>2 DEF AnchorInv
<1>7. ASSUME NEW h \in Handler, Check(h) PROVE AnchorInv'
  <2>1. /\ UNCHANGED <<text, base, toServer>>
        /\ \/ Goto(h, [pc |-> "write", ops |-> job[h].ops, seen |-> graph])
           \/ Goto(h, Idle)
    BY <1>7 DEF Check
  <2>2. CASE Goto(h, Idle)
    BY <1>a, <2>1, <2>2, AnchorGoto
  <2>3. CASE Goto(h, [pc |-> "write", ops |-> job[h].ops, seen |-> graph])
    BY <2>1, <2>3, AnchorGoto
  <2> QED
    BY <2>1, <2>2, <2>3
<1>8. ASSUME NEW h \in Handler, Write(h) PROVE AnchorInv'
  <2>1. /\ UNCHANGED <<text, base, toServer>>
        /\ \E ops : Goto(h, [pc |-> "record", ops |-> ops])
    BY <1>8 DEF Write, editor
  <2> QED
    BY <2>1, AnchorGoto
<1>9. ASSUME NEW h \in Handler, Record(h) PROVE AnchorInv'
  <2>1. UNCHANGED <<text, base, toServer>> /\ Goto(h, [pc |-> "answer"])
    BY <1>9 DEF Record, editor
  <2> QED
    BY <2>1, AnchorGoto
<1>10. ASSUME NEW h \in Handler, Answer(h) PROVE AnchorInv'
  <2>1. UNCHANGED <<text, base, toServer>> /\ Goto(h, [pc |-> "elements"])
    BY <1>10 DEF Answer
  <2> QED
    BY <2>1, AnchorGoto
<1>11. ASSUME NEW h \in Handler, Lose(h) PROVE AnchorInv'
  <2>1. UNCHANGED <<text, base, toServer>> /\ Goto(h, Idle)
    BY <1>11 DEF Lose
  <2> QED
    BY <1>a, <2>1, AnchorGoto
<1>12. ASSUME NEW h \in Handler, ReadElements(h) PROVE AnchorInv'
  <2>1. /\ UNCHANGED <<text, base, toServer>>
        /\ \E els : Goto(h, [pc |-> "contains", elements |-> els])
    BY <1>12 DEF ReadElements, editor
  <2> QED
    BY <2>1, AnchorGoto
<1>13. ASSUME NEW h \in Handler, ReadContains(h) PROVE AnchorInv'
  <2>1. /\ UNCHANGED <<text, base, toServer>>
        /\ \E els, E : Goto(h, [pc |-> "install", elements |-> els, edges |-> E])
    BY <1>13 DEF ReadContains, editor
  <2> QED
    BY <2>1, AnchorGoto
<1>14. ASSUME NEW h \in Handler, Install(h) PROVE AnchorInv'
  <2>1. UNCHANGED <<text, base, toServer>> /\ Goto(h, Idle)
    BY <1>14 DEF Install, editor
  <2> QED
    BY <1>a, <2>1, AnchorGoto
<1>15. CASE CanvasWrite \/ CanvasRecord \/ CanvasFails \/ Other
  <2>1. UNCHANGED <<text, base, toServer, job>>
    BY <1>15 DEF CanvasWrite, CanvasRecord, CanvasFails, Other, editor
  <2> QED
    BY <2>1 DEF AnchorInv
<1>16. CASE CanvasNotify
  <2> DEFINE m == [what |-> "renamed", id |-> canvas.id, name |-> canvas.name]
  <2>1. canvas.pc = "notify" /\ toServer' = Append(toServer, m) /\ UNCHANGED <<text, base, job>>
    BY <1>16 DEF CanvasNotify, editor
  <2>2. m \in Message /\ m.what = "renamed"
    BY <1>0, <2>1 DEF TCanvas, Idle, Message
  <2> HIDE DEF m
  <2>3. /\ DOMAIN toServer' = 1..(Len(toServer) + 1) /\ DOMAIN toServer = 1..Len(toServer) /\ Len(toServer) \in Nat
        /\ \A n \in DOMAIN toServer : toServer'[n] = toServer[n]
        /\ toServer'[Len(toServer) + 1] = m
    BY <1>0, <2>1, <2>2, AppendIs
  <2>4. ASSUME NEW n \in DOMAIN toServer', toServer'[n].what = "text"
        PROVE  Anchors(toServer'[n].text) \subseteq Anchors(toServer'[n].base)
    <3>1. n \in DOMAIN toServer \/ n = Len(toServer) + 1
      BY <2>3
    <3> QED
      BY <2>2, <2>3, <2>4, <3>1 DEF AnchorInv
  <2> QED
    BY <2>1, <2>4 DEF AnchorInv
<1> QED
  <2>1. Next \/ UNCHANGED vars
    OBVIOUS
  <2>2. CASE Next
    BY <1>2, <1>3, <1>4, <1>5, <1>6, <1>7, <1>8, <1>9, <1>10, <1>11, <1>12, <1>13, <1>14,
       <1>15, <1>16, <2>2 DEF Next, Handle
  <2> QED
    BY <1>1, <2>1, <2>2

(* What an edit asks for is what its text has changed of its print. *)
LEMMA OthersFollow == TypeOK /\ AnchorInv => OthersStand
<1> SUFFICES ASSUME TypeOK, AnchorInv, NEW h \in Handler, job[h].pc = "check",
                    job[h].base = PrintTree(job[h].read),
                    NEW k \in DOMAIN job[h].ops
             PROVE  LET op   == job[h].ops[k]
                        At(t) == CHOOSE n \in DOMAIN t : t[n].anchor = op.id
                        t    == job[h].text
                        b    == job[h].base
                    IN  CASE op.do = "create"   -> TRUE
                          [] op.do = "rename"   -> b[At(b)].name # t[At(t)].name
                          [] op.do = "reparent" -> RefOf(b, BlockOf(b, At(b))) # RefOf(t, BlockOf(t, At(t)))
  BY DEF OthersStand
<1> DEFINE op == job[h].ops[k]
           t == job[h].text
           b == job[h].base
           s == job[h].read
           At(u) == CHOOSE n \in DOMAIN u : u[n].anchor = op.id
<1>1. /\ job[h].ops = DiffOps(s, t) /\ ~HasErrors(s, t) /\ IsModel(s) /\ OneParent(s) /\ t \in Seq(LineRec)
      /\ Anchors(t) \subseteq Anchors(b) /\ b = PrintTree(s)
  BY JobIs DEF TypeOK, TJobs, AnchorInv
<1>2. PICK w : OpsFrom(w, s, t, DiffOps(s, t))
  BY <1>1, OpsAre
<1> DEFINE n == w[k]
<1>3. n \in DOMAIN t /\ (Makes(op, t, n) \/ Names(op, s, t, n) \/ Moves(op, s, t, n))
  BY <1>1, <1>2 DEF OpsFrom
<1> HIDE DEF n, op, t, b, s
<1>4. CASE Makes(op, t, n)
  <2>1. op.do = "create"
    BY <1>4 DEF Makes
  <2> QED
    BY <2>1 DEF op
<1>5. ASSUME op.id = t[n].anchor, t[n].anchor # NoOne
      PROVE  /\ At(t) = n
             /\ At(b) \in DOMAIN b /\ b[At(b)].anchor = op.id
             /\ b[At(b)].name = s.elements[op.id].name
             /\ RefOf(b, BlockOf(b, At(b))) = ParentOf(s, op.id)
  <2>1. \A m \in DOMAIN t : t[m].anchor = op.id => m = n
    BY <1>1, <1>3, <1>5 DEF HasErrors
  <2>2. At(t) \in DOMAIN t /\ t[At(t)].anchor = op.id
    BY <1>3, <1>5
  <2>3. op.id \in Anchors(b)
    BY <1>1, <1>3, <1>5 DEF Anchors
  <2>4. \E m \in DOMAIN b : b[m].anchor = op.id
    BY <2>3 DEF Anchors
  <2>5. At(b) \in DOMAIN b /\ b[At(b)].anchor = op.id
    BY <2>4
  <2> HIDE DEF At
  <2>6. At(t) = n
    BY <2>1, <2>2
  <2>7. b[At(b)].name = s.elements[b[At(b)].anchor].name /\ RefOf(b, BlockOf(b, At(b))) = ParentOf(s, b[At(b)].anchor)
    BY <1>1, <2>5, PrintAt
  <2> QED
    BY <2>5, <2>6, <2>7
<1> HIDE DEF At
<1>6. CASE Names(op, s, t, n)
  <2>1. op.do = "rename" /\ op.id = t[n].anchor /\ t[n].anchor # NoOne /\ s.elements[op.id].name # t[n].name
    BY <1>6 DEF Names
  <2>2. b[At(b)].name # t[At(t)].name
    BY <1>5, <2>1
  <2> QED
    BY <2>1, <2>2 DEF op, At, b, t
<1>7. CASE Moves(op, s, t, n)
  <2>1. op.do = "reparent" /\ op.id = t[n].anchor /\ t[n].anchor # NoOne
        /\ ParentOf(s, op.id) # RefOf(t, BlockOf(t, n))
    BY <1>7 DEF Moves
  <2>2. RefOf(b, BlockOf(b, At(b))) # RefOf(t, BlockOf(t, At(t)))
    BY <1>5, <2>1
  <2> QED
    BY <2>1, <2>2 DEF op, At, b, t
<1> QED
  BY <1>3, <1>4, <1>6, <1>7

(* An edit that the server compares with the snapshot its text was printed   *)
(* from renames and moves no element but those whose line or block is        *)
(* another than in the print.                                                *)
THEOREM OnlyWhatChanged == Spec => []OthersStand
BY TypeInit, TypeNext, AnchorInit, AnchorNext, OthersFollow, PTL DEF Spec

-----------------------------------------------------------------------------

(* More to hear of keeps what was read in step. *)
LEMMA StepFrame ==
    ASSUME NEW els, NEW g, NEW c, NEW q, InStep(els, g, c, q),
           NEW k, NEW d, NEW r, DOMAIN k.elements = DOMAIN g.elements,
           \A i \in DOMAIN g.elements : /\ k.elements[i].kind = g.elements[i].kind
                                        /\ Awaited(i, d, r) \/ k.elements[i].name = g.elements[i].name,
           \A i : Awaited(i, c, q) => Awaited(i, d, r)
    PROVE  InStep(els, k, d, r)
BY DEF InStep

(* What is last under way stays so when the first is handled.                *)
LEMMA LatestTail ==
    ASSUME TServer, toServer # << >>, NEW c, NEW g, Latest(c, toServer, g)
    PROVE  Latest(c, Tail(toServer), g)
<1> DEFINE p == Tail(toServer)
<1>1. /\ \A n \in DOMAIN p : n + 1 \in DOMAIN toServer /\ p[n] = toServer[n + 1]
      /\ DOMAIN toServer = 1..Len(toServer) /\ Len(toServer) \in Nat
      /\ DOMAIN p = 1..(Len(toServer) - 1)
      /\ \A n \in 2..Len(toServer) : n - 1 \in DOMAIN p /\ p[n - 1] = toServer[n]
  BY HeadIs
<1> HIDE DEF p
<1>2. ASSUME NEW n \in DOMAIN p, p[n].what = "renamed"
      PROVE  \/ c # Idle /\ c.id = p[n].id
             \/ \E m \in DOMAIN p : m > n /\ p[m].what = "renamed" /\ p[m].id = p[n].id
             \/ g.elements[p[n].id].name = p[n].name
  <2>1. n + 1 \in DOMAIN toServer /\ p[n] = toServer[n + 1] /\ n \in Nat /\ n >= 1
    BY <1>1
  <2>2. \/ c # Idle /\ c.id = p[n].id
        \/ \E m \in DOMAIN toServer : m > n + 1 /\ toServer[m].what = "renamed" /\ toServer[m].id = p[n].id
        \/ g.elements[p[n].id].name = p[n].name
    BY <1>2, <2>1 DEF Latest
  <2>3. ASSUME NEW m \in DOMAIN toServer, m > n + 1, toServer[m].what = "renamed", toServer[m].id = p[n].id
        PROVE  \E l \in DOMAIN p : l > n /\ p[l].what = "renamed" /\ p[l].id = p[n].id
    <3>1. m \in 2..Len(toServer) /\ m - 1 > n
      BY <1>1, <2>1, <2>3
    <3>2. m - 1 \in DOMAIN p /\ p[m - 1] = toServer[m]
      BY <1>1, <3>1
    <3> QED
      BY <2>3, <3>1, <3>2
  <2> QED
    BY <2>2, <2>3
<1> QED
  BY <1>2 DEF Latest, p

(* The head of the queue is no longer awaited; all else is. *)
LEMMA AwaitedTail ==
    ASSUME TServer, toServer # << >>, NEW c, NEW i, Awaited(i, c, toServer)
    PROVE  Awaited(i, c, Tail(toServer)) \/ (Head(toServer).what = "renamed" /\ Head(toServer).id = i)
<1> DEFINE p == Tail(toServer)
<1>1. /\ DOMAIN toServer = 1..Len(toServer) /\ Len(toServer) \in Nat /\ Head(toServer) = toServer[1]
      /\ \A n \in 2..Len(toServer) : n - 1 \in DOMAIN p /\ p[n - 1] = toServer[n]
  BY HeadIs
<1> HIDE DEF p
<1>2. CASE c # Idle /\ c.id = i
  BY <1>2 DEF Awaited
<1>3. ASSUME NEW n \in DOMAIN toServer, toServer[n].what = "renamed", toServer[n].id = i
      PROVE  Awaited(i, c, p) \/ (Head(toServer).what = "renamed" /\ Head(toServer).id = i)
  <2>1. n = 1 \/ n \in 2..Len(toServer)
    BY <1>1
  <2>2. CASE n = 1
    BY <1>1, <1>3, <2>2
  <2>3. CASE n \in 2..Len(toServer)
    <3>1. n - 1 \in DOMAIN p /\ p[n - 1] = toServer[n]
      BY <1>1, <2>3
    <3> QED
      BY <1>3, <3>1 DEF Awaited
  <2> QED
    BY <2>1, <2>2, <2>3
<1> QED
  BY <1>2, <1>3 DEF Awaited, p

(* One message more. *)
LEMMA AwaitedAppend ==
    ASSUME TServer, NEW m \in Message, NEW c, NEW i, Awaited(i, c, toServer)
    PROVE  Awaited(i, c, Append(toServer, m))
<1>1. /\ DOMAIN toServer = 1..Len(toServer) /\ Len(toServer) \in Nat
      /\ DOMAIN Append(toServer, m) = 1..(Len(toServer) + 1)
      /\ \A n \in DOMAIN toServer : Append(toServer, m)[n] = toServer[n]
  BY AppendIs
<1>2. \A n \in DOMAIN toServer : n \in DOMAIN Append(toServer, m)
  BY <1>1
<1> DEFINE p == Append(toServer, m)
<1> HIDE DEF p
<1>3. \A n \in DOMAIN toServer : n \in DOMAIN p /\ p[n] = toServer[n]
  BY <1>1, <1>2 DEF p
<1>4. Awaited(i, c, p)
  BY <1>3 DEF Awaited
<1> QED
  BY <1>4 DEF p

(* Only the handler of a text starts anything, and alone if nothing crossed. *)
LEMMA SoloNext == TypeOK /\ (~crossed => Solo) /\ [Next]_vars => (~crossed => Solo)'
<1> SUFFICES ASSUME TypeOK, ~crossed => Solo, [Next]_vars, ~crossed' PROVE Solo'
  OBVIOUS
<1>a. ASSUME crossed => crossed', UNCHANGED job PROVE Solo'
  BY <1>a DEF Solo
<1>b. ASSUME crossed => crossed', NEW h \in Handler, NEW j, Goto(h, j), job[h] # Idle PROVE Solo'
  <2>1. \A g \in Handler : job'[g] = IF g = h THEN j ELSE job[g]
    BY <1>b DEF Goto, TypeOK, TJobs
  <2> QED
    BY <1>b, <2>1 DEF Solo
<1>1. CASE UNCHANGED vars
  BY <1>1, <1>a DEF vars, ghosts
<1>2. CASE Typing
  <2>1. UNCHANGED <<job, crossed>>
    BY <1>2 DEF Typing, Retitle, Rekind, Indent, Cut, Copy, Spoil, Insert, Type, ghosts
  <2> QED
    BY <2>1, <1>a
<1>3. CASE Send \/ Pushed \/ CanvasWrite \/ CanvasRecord \/ CanvasNotify \/ CanvasFails \/ Other
  <2>1. UNCHANGED <<job, crossed>>
    BY <1>3 DEF Send, Pushed, CanvasWrite, CanvasRecord, CanvasNotify, CanvasFails, Other, ghosts
  <2> QED
    BY <2>1, <1>a
<1>4. ASSUME NEW h \in Handler, HandleText(h) PROVE Solo'
  <2>1. (UNCHANGED job \/ \E j : Goto(h, j)) /\ Busy = {}
    BY <1>4 DEF HandleText
  <2>2. \A g \in Handler : job[g] = Idle
    BY <2>1 DEF Busy
  <2>3. ASSUME NEW j, Goto(h, j) PROVE Solo'
    <3>1. \A g \in Handler : job'[g] = IF g = h THEN j ELSE Idle
      BY <2>2, <2>3 DEF Goto, TypeOK, TJobs
    <3> QED
      BY <3>1 DEF Solo
  <2> QED
    BY <2>1, <2>2, <2>3 DEF Solo
<1>5. ASSUME NEW h \in Handler, HandleRenamed(h) PROVE Solo'
  BY <1>5, <1>a DEF HandleRenamed
<1>6. ASSUME NEW h \in Handler,
             \/ Check(h) \/ Write(h) \/ Record(h) \/ Answer(h) \/ Lose(h)
             \/ ReadElements(h) \/ ReadContains(h) \/ Install(h)
      PROVE  Solo'
  <2>1. (\E j : Goto(h, j)) /\ (crossed => crossed')
    <3>1. CASE Check(h)
      BY <3>1 DEF Check, ghosts
    <3>2. CASE Write(h)
      BY <3>2 DEF Write
    <3>3. CASE Record(h) \/ Answer(h)
      BY <3>3 DEF Record, Answer, ghosts
    <3>4. CASE Lose(h) \/ Install(h)
      BY <3>4 DEF Lose, Install
    <3>5. CASE ReadElements(h)
      BY <3>5 DEF ReadElements
    <3>6. CASE ReadContains(h)
      BY <3>6 DEF ReadContains
    <3> QED
      BY <1>6, <3>1, <3>2, <3>3, <3>4, <3>5, <3>6
  <2>2. job[h].pc # "idle"
    BY <1>6 DEF Check, Write, Record, Answer, Lose, ReadElements, ReadContains, Install
  <2>3. job[h] # Idle
    BY <2>2 DEF Idle
  <2> QED
    BY <2>1, <2>3, <1>b
<1> QED
  <2>1. Next \/ UNCHANGED vars
    OBVIOUS
  <2>2. CASE Next
    BY <1>2, <1>3, <1>4, <1>5, <1>6, <2>2 DEF Next, Handle
  <2> QED
    BY <1>1, <2>1, <2>2

(* At first one handler reads. *)
LEMMA SoloInit == Init => Solo
BY DEF Init, Solo

-----------------------------------------------------------------------------

(* Only the canvas makes the model differ from what the server has been told,*)
(* and it tells it in the order of its renames.                              *)
LEMMA NameNext == TypeOK /\ (Clear => NameInv) /\ [Next]_vars => (Clear => NameInv)'
<1> SUFFICES ASSUME TypeOK, Clear => NameInv, [Next]_vars, Clear' PROVE NameInv'
  OBVIOUS
<1>0. TServer /\ TJobs /\ TText /\ TGraph /\ TCanvas /\ Whole(graph) /\ IsModel(graph)
  BY DEF TypeOK, TGraph, Whole
<1>a. ASSUME crossed => crossed', stale => stale' PROVE NameInv
  BY <1>a DEF Clear
<1>b. ASSUME UNCHANGED <<graph, canvas, toServer>>, NameInv PROVE NameInv'
  BY <1>b DEF NameInv
<1>1. CASE UNCHANGED vars
  BY <1>1, <1>a, <1>b DEF vars, model, ghosts
<1>2. CASE Typing
  <2>1. UNCHANGED <<graph, used, canvas, toServer, crossed, stale>>
    BY <1>2 DEF Typing, Retitle, Rekind, Indent, Cut, Copy, Spoil, Insert, Type, model, ghosts
  <2> QED
    BY <2>1, <1>a, <1>b
<1>3. CASE Send
  <2> DEFINE m == [what |-> "text", text |-> text, base |-> base]
  <2>1. toServer' = Append(toServer, m) /\ UNCHANGED <<graph, used, canvas, crossed, stale>>
    BY <1>3 DEF Send, model, ghosts
  <2>2. m \in Message /\ m.what = "text"
    BY <1>0 DEF TText, Message
  <2> HIDE DEF m
  <2>3. /\ DOMAIN toServer' = 1..(Len(toServer) + 1) /\ DOMAIN toServer = 1..Len(toServer) /\ Len(toServer) \in Nat
        /\ \A n \in DOMAIN toServer : toServer'[n] = toServer[n]
        /\ toServer'[Len(toServer) + 1] = m
    BY <1>0, <2>1, <2>2, AppendIs
  <2>4. NameInv
    BY <1>a, <2>1
  <2>5. ASSUME NEW n \in DOMAIN toServer', toServer'[n].what = "renamed"
        PROVE  \/ canvas # Idle /\ canvas.id = toServer'[n].id
               \/ \E l \in DOMAIN toServer' : l > n /\ toServer'[l].what = "renamed" /\ toServer'[l].id = toServer'[n].id
               \/ graph.elements[toServer'[n].id].name = toServer'[n].name
    <3>1. n \in DOMAIN toServer \/ n = Len(toServer) + 1
      BY <2>3
    <3>2. n \in DOMAIN toServer /\ \A l \in DOMAIN toServer : l \in DOMAIN toServer'
      BY <2>2, <2>3, <2>5, <3>1
    <3> QED
      BY <2>3, <2>4, <2>5, <3>2 DEF NameInv, Latest
  <2> QED
    BY <2>1, <2>4, <2>5 DEF NameInv, Latest
<1>4. CASE Pushed
  BY <1>4, <1>a, <1>b DEF Pushed, model, ghosts
<1>5. ASSUME NEW h \in Handler, HandleText(h) \/ HandleRenamed(h) PROVE NameInv'
  <2>1. toServer # << >> /\ toServer' = Tail(toServer) /\ UNCHANGED <<graph, used, canvas, stale>>
        /\ (crossed => crossed')
    BY <1>5 DEF HandleText, HandleRenamed, model
  <2>2. NameInv
    BY <1>a, <2>1
  <2>3. Latest(canvas, Tail(toServer), graph)
    BY <1>0, <2>1, <2>2, LatestTail DEF NameInv
  <2> QED
    BY <2>1, <2>2, <2>3 DEF NameInv
<1>6. ASSUME NEW h \in Handler, Write(h) PROVE NameInv'
  <2>1. crossed' = (crossed \/ Renaming) /\ UNCHANGED <<canvas, toServer, stale>>
    BY <1>6 DEF Write
  <2>2. ~Renaming
    BY <2>1 DEF Clear
  <2>3. canvas = Idle /\ \A n \in DOMAIN toServer : toServer[n].what # "renamed"
    BY <2>2 DEF Renaming
  <2> QED
    BY <2>1, <2>3 DEF NameInv, Latest
<1>7. ASSUME NEW h \in Handler,
             Check(h) \/ Record(h) \/ Answer(h) \/ Lose(h) \/ ReadElements(h) \/ ReadContains(h)
      PROVE  NameInv'
  <2>1. UNCHANGED <<graph, canvas, toServer, crossed>> /\ (stale => stale')
    <3>1. CASE Check(h) \/ Record(h) \/ Answer(h)
      BY <3>1 DEF Check, Record, Answer, model, ghosts
    <3>2. CASE Lose(h)
      BY <3>2 DEF Lose, model
    <3>3. CASE ReadElements(h)
      BY <3>3 DEF ReadElements, model
    <3>4. CASE ReadContains(h)
      BY <3>4 DEF ReadContains, model
    <3> QED
      BY <1>7, <3>1, <3>2, <3>3, <3>4
  <2> QED
    BY <2>1, <1>a, <1>b
<1>12. ASSUME NEW h \in Handler, Install(h) PROVE NameInv'
  <2>1. /\ UNCHANGED <<graph, used, canvas, toServer, crossed>>
        /\ (stale => stale') \/ ~Renaming
    BY <1>12 DEF Install, model
  <2>2. CASE stale => stale'
    BY <2>1, <2>2, <1>a, <1>b
  <2>3. CASE ~Renaming
    BY <2>1, <2>3 DEF NameInv, Latest, Renaming
  <2> QED
    BY <2>1, <2>2, <2>3
<1>8. CASE CanvasWrite
  <2>1. PICK i \in DOMAIN graph.elements, m \in Name :
           /\ canvas = Idle /\ graph' = SetName(graph, i, m) /\ canvas' = [pc |-> "record", id |-> i, name |-> m]
           /\ UNCHANGED <<used, toServer, crossed, stale>>
    BY <1>8 DEF CanvasWrite
  <2>2. NameInv
    BY <1>a, <2>1
  <2>3. /\ DOMAIN graph'.elements = DOMAIN graph.elements
        /\ \A j \in DOMAIN graph.elements : graph'.elements[j].name = IF j = i THEN m ELSE graph.elements[j].name
    BY <1>0, <2>1, SetNameWhole
  <2>4. canvas' # Idle /\ canvas'.id = i /\ canvas'.name = m
    BY <2>1 DEF Idle
  <2>5. ASSUME NEW n \in DOMAIN toServer, toServer[n].what = "renamed", toServer[n].id # i
        PROVE  \/ \E l \in DOMAIN toServer : l > n /\ toServer[l].what = "renamed" /\ toServer[l].id = toServer[n].id
               \/ graph'.elements[toServer[n].id].name = toServer[n].name
    <3>1. graph'.elements[toServer[n].id] = graph.elements[toServer[n].id]
      BY <2>1, <2>5 DEF SetName
    <3> QED
      BY <2>1, <2>2, <2>5, <3>1 DEF NameInv, Latest
  <2>6. Latest(canvas', toServer, graph')
    BY <2>3, <2>4, <2>5 DEF Latest
  <2> QED
    BY <2>1, <2>2, <2>3, <2>6 DEF NameInv
<1>9. CASE CanvasRecord
  <2>1. canvas.pc = "record" /\ canvas' = [canvas EXCEPT !.pc = "notify"]
        /\ UNCHANGED <<graph, used, toServer, crossed, stale>>
    BY <1>9 DEF CanvasRecord, ghosts
  <2>2. canvas # Idle /\ canvas' # Idle /\ canvas'.id = canvas.id /\ canvas'.name = canvas.name
    BY <1>0, <2>1 DEF TCanvas, Idle
  <2> QED
    BY <1>a, <2>1, <2>2 DEF NameInv, Latest
<1>10. CASE CanvasNotify
  <2> DEFINE m == [what |-> "renamed", id |-> canvas.id, name |-> canvas.name]
  <2>1. /\ canvas.pc = "notify" /\ toServer' = Append(toServer, m) /\ canvas' = Idle
        /\ UNCHANGED <<graph, used, crossed, stale>>
    BY <1>10 DEF CanvasNotify, model, ghosts
  <2>2. m \in Message /\ m.what = "renamed" /\ m.id = canvas.id /\ m.name = canvas.name /\ canvas # Idle
    BY <1>0, <2>1 DEF TCanvas, Idle, Message
  <2> HIDE DEF m
  <2>3. /\ DOMAIN toServer' = 1..(Len(toServer) + 1) /\ DOMAIN toServer = 1..Len(toServer) /\ Len(toServer) \in Nat
        /\ \A n \in DOMAIN toServer : toServer'[n] = toServer[n]
        /\ toServer'[Len(toServer) + 1] = m
    BY <1>0, <2>1, <2>2, AppendIs
  <2>4. NameInv
    BY <1>a, <2>1
  <2>5. ASSUME NEW n \in DOMAIN toServer', toServer'[n].what = "renamed"
        PROVE  \/ \E l \in DOMAIN toServer' : l > n /\ toServer'[l].what = "renamed" /\ toServer'[l].id = toServer'[n].id
               \/ graph.elements[toServer'[n].id].name = toServer'[n].name
    <3>1. n \in DOMAIN toServer \/ n = Len(toServer) + 1
      BY <2>3
    <3>2. \A l \in DOMAIN toServer : l \in DOMAIN toServer' /\ l < Len(toServer) + 1
      BY <2>3
    <3>3. Len(toServer) + 1 \in DOMAIN toServer'
      BY <2>3
    <3>4. CASE n = Len(toServer) + 1
      BY <2>2, <2>3, <2>4, <3>4 DEF NameInv, Latest
    <3>5. CASE n \in DOMAIN toServer
      <4>1. \/ canvas.id = toServer[n].id
            \/ \E l \in DOMAIN toServer : l > n /\ toServer[l].what = "renamed" /\ toServer[l].id = toServer[n].id
            \/ graph.elements[toServer[n].id].name = toServer[n].name
        BY <2>3, <2>4, <2>5, <3>5 DEF NameInv, Latest
      <4>2. toServer'[n] = toServer[n]
        BY <2>3, <3>5
      <4>3. CASE canvas.id = toServer[n].id
        <5>1. Len(toServer) + 1 > n
          BY <2>3, <3>5
        <5> QED
          BY <2>2, <2>3, <3>3, <4>2, <4>3, <5>1
      <4>4. CASE \E l \in DOMAIN toServer : l > n /\ toServer[l].what = "renamed" /\ toServer[l].id = toServer[n].id
        BY <2>3, <3>2, <4>2, <4>4
      <4> QED
        BY <4>1, <4>2, <4>3, <4>4
    <3> QED
      BY <3>1, <3>4, <3>5
  <2> QED
    BY <2>1, <2>4, <2>5 DEF NameInv, Latest
<1>11. CASE Other
  BY <1>11 DEF Other, Clear
<1>13. CASE CanvasFails
  <2>1. canvas.pc = "record" /\ canvas' = [canvas EXCEPT !.pc = "notify"]
        /\ UNCHANGED <<graph, toServer, crossed, stale>>
    BY <1>13 DEF CanvasFails, Clear, model
  <2>2. canvas # Idle /\ canvas' # Idle /\ canvas'.id = canvas.id /\ canvas'.name = canvas.name
    BY <1>0, <2>1 DEF TCanvas, Idle
  <2> QED
    BY <1>a, <2>1, <2>2 DEF NameInv, Latest
<1> QED
  <2>1. Next \/ UNCHANGED vars
    OBVIOUS
  <2>2. CASE Next
    BY <1>2, <1>3, <1>4, <1>5, <1>6, <1>7, <1>8, <1>9, <1>10, <1>11, <1>12, <1>13, <2>2 DEF Next, Handle
  <2> QED
    BY <1>1, <2>1, <2>2

-----------------------------------------------------------------------------

(* The one handler that runs goes on. *)
LEMMA SourceGoto ==
    ASSUME TypeOK, NEW h \in Handler, NEW j, Goto(h, j), \A g \in Handler : g # h => job[g] = Idle,
           j = Idle => InSync(snapshot', graph', canvas', toServer'),
           Source(j, snapshot', graph', canvas', toServer')
    PROVE  SourceInv'
<1>1. \A g \in Handler : job'[g] = IF g = h THEN j ELSE Idle
  BY DEF Goto, TypeOK, TJobs
<1>2. Source(Idle, snapshot', graph', canvas', toServer')
  BY DEF Source, Idle
<1>3. \A g \in Handler : Source(job'[g], snapshot', graph', canvas', toServer')
  BY <1>1, <1>2
<1>4. (\A g \in Handler : job'[g] = Idle) => InSync(snapshot', graph', canvas', toServer')
  BY <1>1
<1> QED
  BY <1>3, <1>4 DEF SourceInv

(* No handler does anything, and no edge changes. *)
LEMMA SourceFrame ==
    ASSUME SourceInv, UNCHANGED <<job, snapshot>>,
           DOMAIN graph'.elements = DOMAIN graph.elements, ContainsOf(graph') = ContainsOf(graph),
           \A i \in DOMAIN graph.elements :
              /\ graph'.elements[i].kind = graph.elements[i].kind
              /\ Awaited(i, canvas', toServer') \/ graph'.elements[i].name = graph.elements[i].name,
           \A i : Awaited(i, canvas, toServer) => Awaited(i, canvas', toServer')
    PROVE  SourceInv'
<1>1. \A els : InStep(els, graph, canvas, toServer) => InStep(els, graph', canvas', toServer')
  BY StepFrame
<1>2. \A s : InSync(s, graph, canvas, toServer) => InSync(s, graph', canvas', toServer')
  BY <1>1 DEF InSync
<1>3. ASSUME NEW h \in Handler PROVE Source(job'[h], snapshot', graph', canvas', toServer')
  BY <1>1, <1>2 DEF Source, SourceInv
<1> QED
  BY <1>2, <1>3 DEF SourceInv

(* What a busy handler knows of the others. *)
LEMMA SourceBusy ==
    ASSUME Solo, NEW h \in Handler, job[h].pc # "idle"
    PROVE  /\ \A g \in Handler : g # h => job[g] = Idle
           /\ SourceInv => Source(job[h], snapshot, graph, canvas, toServer)
BY DEF Solo, SourceInv, Idle

(* A handler that read the model alone read it as it is, but for names.      *)
LEMMA SourceNext ==
    TypeOK /\ (~crossed => Solo) /\ (Clear => NameInv /\ SourceInv) /\ [Next]_vars => (Clear => SourceInv)'
<1> SUFFICES ASSUME TypeOK, ~crossed => Solo, Clear => NameInv /\ SourceInv, [Next]_vars, Clear' PROVE SourceInv'
  OBVIOUS
<1>0. /\ TServer /\ TJobs /\ TText /\ TGraph /\ TCanvas /\ TSnap
      /\ IsModel(graph) /\ IsModel(snapshot)
  BY DEF TypeOK, TGraph, TSnap, Whole
<1>a. ASSUME crossed => crossed', stale => stale' PROVE NameInv /\ SourceInv /\ Solo
  BY <1>a DEF Clear
<1>b. ASSUME UNCHANGED <<job, snapshot, graph>>, SourceInv,
             \A i : Awaited(i, canvas, toServer) => Awaited(i, canvas', toServer')
      PROVE  SourceInv'
  BY <1>b, SourceFrame
<1>1. CASE UNCHANGED vars
  BY <1>1, <1>a, <1>b DEF vars, model, ghosts
<1>2. CASE Typing
  <2>1. UNCHANGED <<graph, job, snapshot, canvas, toServer, crossed, stale>>
    BY <1>2 DEF Typing, Retitle, Rekind, Indent, Cut, Copy, Spoil, Insert, Type, model, ghosts
  <2> QED
    BY <2>1, <1>a, <1>b
<1>3. CASE Send
  <2> DEFINE m == [what |-> "text", text |-> text, base |-> base]
  <2>1. toServer' = Append(toServer, m) /\ UNCHANGED <<graph, job, snapshot, canvas, crossed, stale>>
    BY <1>3 DEF Send, model, ghosts
  <2>2. m \in Message
    BY <1>0 DEF TText, Message
  <2> HIDE DEF m
  <2>3. \A i : Awaited(i, canvas, toServer) => Awaited(i, canvas', toServer')
    BY <1>0, <2>1, <2>2, AwaitedAppend
  <2> QED
    BY <1>a, <1>b, <2>1, <2>3
<1>4. CASE Pushed
  BY <1>4, <1>a, <1>b DEF Pushed, model, ghosts
<1>5. ASSUME NEW h \in Handler, HandleText(h) PROVE SourceInv'
  <2> DEFINE m == Head(toServer)
  <2>1. /\ toServer # << >> /\ m.what = "text" /\ toServer' = Tail(toServer)
        /\ \/ UNCHANGED job
           \/ \E ops : Goto(h, [pc |-> "check", ops |-> ops, text |-> m.text, base |-> m.base, read |-> snapshot])
        /\ crossed' = (crossed \/ Busy # {} \/ m.base # PrintTree(snapshot) \/ Renaming)
        /\ UNCHANGED <<graph, snapshot, canvas, stale>>
    BY <1>5 DEF HandleText, model
  <2>2. NameInv /\ SourceInv /\ Busy = {}
    BY <1>a, <2>1 DEF Clear
  <2>3. \A i : Awaited(i, canvas, toServer) => Awaited(i, canvas, Tail(toServer))
    BY <1>0, <2>1, AwaitedTail
  <2>4. CASE UNCHANGED job
    BY <1>b, <2>1, <2>2, <2>3, <2>4
  <2>5. InSync(snapshot, graph, canvas, toServer) /\ \A g \in Handler : job[g] = Idle
    BY <2>2 DEF SourceInv, Busy
  <2>6. InSync(snapshot, graph, canvas, Tail(toServer))
    BY <2>3, <2>5, StepFrame DEF InSync, InStep
  <2> HIDE DEF m
  <2>7. ASSUME NEW ops, Goto(h, [pc |-> "check", ops |-> ops, text |-> m.text, base |-> m.base, read |-> snapshot])
        PROVE  SourceInv'
    <3> DEFINE j == [pc |-> "check", ops |-> ops, text |-> m.text, base |-> m.base, read |-> snapshot]
    <3>1. j.pc = "check" /\ j.read = snapshot /\ j # Idle /\ Goto(h, j)
      BY <2>7 DEF Idle
    <3> HIDE DEF j
    <3>2. Source(j, snapshot', graph', canvas', toServer')
      BY <2>1, <2>6, <3>1 DEF Source, InSync, InStep
    <3> QED
      BY <2>5, <3>1, <3>2, SourceGoto
  <2> QED
    BY <2>1, <2>4, <2>7
<1>6. ASSUME NEW h \in Handler, HandleRenamed(h) PROVE SourceInv'
  <2> DEFINE m == Head(toServer)
  <2>1. /\ toServer # << >> /\ m.what = "renamed" /\ toServer' = Tail(toServer)
        /\ snapshot' = SetName(snapshot, m.id, m.name)
        /\ crossed' = (crossed \/ Busy # {})
        /\ UNCHANGED <<graph, job, canvas, stale>>
    BY <1>6 DEF HandleRenamed, model
  <2>2. NameInv /\ SourceInv /\ Busy = {}
    BY <1>a, <2>1 DEF Clear
  <2>3. m.name \in Name /\ m = toServer[1] /\ 1 \in DOMAIN toServer /\ DOMAIN toServer = 1..Len(toServer)
        /\ Len(toServer) \in Nat
        /\ \A n \in 2..Len(toServer) : n - 1 \in DOMAIN Tail(toServer) /\ Tail(toServer)[n - 1] = toServer[n]
    BY <1>0, <2>1, MessageIs, HeadIs
  <2>4. \A i : Awaited(i, canvas, toServer) => Awaited(i, canvas, Tail(toServer)) \/ i = m.id
    BY <1>0, <2>1, AwaitedTail
  <2> HIDE DEF m
  <2>5. Awaited(m.id, canvas, Tail(toServer)) \/ graph.elements[m.id].name = m.name
    <3>1. \/ canvas # Idle /\ canvas.id = m.id
          \/ \E n \in DOMAIN toServer : n > 1 /\ toServer[n].what = "renamed" /\ toServer[n].id = m.id
          \/ graph.elements[m.id].name = m.name
      BY <2>1, <2>2, <2>3 DEF NameInv, Latest
    <3>2. ASSUME NEW n \in DOMAIN toServer, n > 1, toServer[n].what = "renamed", toServer[n].id = m.id
          PROVE  Awaited(m.id, canvas, Tail(toServer))
      <4>1. n \in 2..Len(toServer)
        BY <2>3, <3>2
      <4>2. n - 1 \in DOMAIN Tail(toServer) /\ Tail(toServer)[n - 1] = toServer[n]
        BY <2>3, <4>1
      <4> DEFINE p == Tail(toServer)
      <4> HIDE DEF p
      <4>3. n - 1 \in DOMAIN p /\ p[n - 1].what = "renamed" /\ p[n - 1].id = m.id
        BY <3>2, <4>2 DEF p
      <4>4. Awaited(m.id, canvas, p)
        BY <4>3 DEF Awaited
      <4> QED
        BY <4>4 DEF p
    <3>3. CASE canvas # Idle /\ canvas.id = m.id
      BY <3>3 DEF Awaited
    <3> QED
      BY <3>1, <3>2, <3>3
  <2>6. /\ DOMAIN snapshot'.elements = DOMAIN snapshot.elements /\ snapshot'.edges = snapshot.edges
        /\ \A j \in DOMAIN snapshot.elements :
              /\ snapshot'.elements[j].kind = snapshot.elements[j].kind
              /\ snapshot'.elements[j].name = IF j = m.id THEN m.name ELSE snapshot.elements[j].name
    BY <1>0, <2>1, <2>3, SetNameWhole, SetNameIs DEF IsModel
  <2>7. Handler # {} => InSync(snapshot, graph, canvas, toServer)
    BY <2>2 DEF SourceInv, Busy
  <2>8. InSync(snapshot', graph', canvas', toServer')
    <3>1. InStep(snapshot.elements, graph, canvas, toServer) /\ snapshot.edges = ContainsOf(graph)
      BY <2>7 DEF InSync
    <3>2. ASSUME NEW i \in DOMAIN snapshot'.elements
          PROVE  /\ snapshot'.elements[i].kind = graph.elements[i].kind
                 /\ Awaited(i, canvas, Tail(toServer)) \/ snapshot'.elements[i].name = graph.elements[i].name
      <4>1. CASE i = m.id
        BY <2>5, <2>6, <3>1, <4>1 DEF InStep
      <4>2. CASE i # m.id
        BY <2>4, <2>6, <3>1, <4>2 DEF InStep
      <4> QED
        BY <4>1, <4>2
    <3>3. InStep(snapshot'.elements, graph, canvas, Tail(toServer))
      BY <2>6, <3>1, <3>2 DEF InStep
    <3> QED
      BY <2>1, <2>6, <3>1, <3>3 DEF InSync
  <2>9. \A g \in Handler : job'[g] = Idle
    BY <2>1, <2>2 DEF Busy
  <2>10. Source(Idle, snapshot', graph', canvas', toServer')
    BY DEF Source, Idle
  <2> QED
    BY <2>8, <2>9, <2>10 DEF SourceInv
<1>7. ASSUME NEW h \in Handler, Check(h) PROVE SourceInv'
  <2>1. /\ job[h].pc = "check" /\ UNCHANGED <<graph, snapshot, canvas, toServer, crossed, stale>>
        /\ \/ Goto(h, [pc |-> "write", ops |-> job[h].ops, seen |-> graph])
           \/ Goto(h, Idle)
    BY <1>7 DEF Check, model, ghosts
  <2>2. SourceInv /\ Solo
    BY <1>a, <2>1
  <2>3. (\A g \in Handler : g # h => job[g] = Idle) /\ InSync(snapshot', graph', canvas', toServer')
    BY <2>1, <2>2, SourceBusy DEF Source
  <2>4. CASE Goto(h, Idle)
    <3>1. Source(Idle, snapshot', graph', canvas', toServer')
      BY DEF Source, Idle
    <3> QED
      BY <2>3, <2>4, <3>1, SourceGoto
  <2>5. CASE Goto(h, [pc |-> "write", ops |-> job[h].ops, seen |-> graph])
    <3> DEFINE j == [pc |-> "write", ops |-> job[h].ops, seen |-> graph]
    <3>1. j.pc = "write" /\ Goto(h, j)
      BY <2>5
    <3> HIDE DEF j
    <3>2. Source(j, snapshot', graph', canvas', toServer')
      BY <2>3, <3>1 DEF Source
    <3> QED
      BY <2>3, <3>1, <3>2, SourceGoto
  <2> QED
    BY <2>1, <2>4, <2>5
<1>8. ASSUME NEW h \in Handler, Write(h) \/ Record(h) \/ Answer(h) PROVE SourceInv'
  <2>1. PICK j : /\ Goto(h, j) /\ j.pc \in {"record", "answer", "elements"}
                 /\ job[h].pc # "idle" /\ (crossed => crossed') /\ (stale => stale')
    <3>1. CASE Write(h)
      BY <3>1 DEF Write
    <3>2. CASE Record(h)
      BY <3>2 DEF Record, ghosts
    <3>3. CASE Answer(h)
      BY <3>3 DEF Answer, ghosts
    <3> QED
      BY <1>8, <3>1, <3>2, <3>3
  <2>2. \A g \in Handler : g # h => job[g] = Idle
    BY <1>a, <2>1, SourceBusy
  <2>3. Source(j, snapshot', graph', canvas', toServer') /\ j # Idle
    BY <2>1 DEF Source, Idle
  <2> QED
    BY <2>1, <2>2, <2>3, SourceGoto
<1>9. ASSUME NEW h \in Handler, Lose(h) PROVE SourceInv'
  <2>1. /\ job[h].pc \in {"check", "write"} /\ Goto(h, Idle)
        /\ UNCHANGED <<graph, snapshot, canvas, toServer, crossed>> /\ (stale => stale')
    BY <1>9 DEF Lose, Clear, model
  <2>2. (\A g \in Handler : g # h => job[g] = Idle) /\ InSync(snapshot', graph', canvas', toServer')
    BY <1>a, <2>1, SourceBusy DEF Source
  <2>3. Source(Idle, snapshot', graph', canvas', toServer')
    BY DEF Source, Idle
  <2> QED
    BY <2>1, <2>2, <2>3, SourceGoto
<1>10. ASSUME NEW h \in Handler, ReadElements(h) PROVE SourceInv'
  <2>1. /\ job[h].pc = "elements" /\ Goto(h, [pc |-> "contains", elements |-> graph.elements])
        /\ UNCHANGED <<graph, snapshot, canvas, toServer, crossed, stale>>
    BY <1>10 DEF ReadElements, Clear, model
  <2>2. \A g \in Handler : g # h => job[g] = Idle
    BY <1>a, <2>1, SourceBusy
  <2> DEFINE j == [pc |-> "contains", elements |-> graph.elements]
  <2>3. j.pc = "contains" /\ j.elements = graph.elements /\ j # Idle /\ Goto(h, j)
    BY <2>1 DEF Idle
  <2> HIDE DEF j
  <2>4. Source(j, snapshot', graph', canvas', toServer')
    BY <2>1, <2>3 DEF Source, InStep
  <2> QED
    BY <2>2, <2>3, <2>4, SourceGoto
<1>11. ASSUME NEW h \in Handler, ReadContains(h) PROVE SourceInv'
  <2>1. /\ job[h].pc = "contains"
        /\ Goto(h, [pc |-> "install", elements |-> job[h].elements, edges |-> ContainsOf(graph)])
        /\ UNCHANGED <<graph, snapshot, canvas, toServer, crossed, stale>>
    BY <1>11 DEF ReadContains, Clear, model
  <2>2. /\ \A g \in Handler : g # h => job[g] = Idle
        /\ InStep(job[h].elements, graph, canvas, toServer)
    BY <1>a, <2>1, SourceBusy DEF Source
  <2> DEFINE j == [pc |-> "install", elements |-> job[h].elements, edges |-> ContainsOf(graph)]
  <2>3. j.pc = "install" /\ j.elements = job[h].elements /\ j.edges = ContainsOf(graph) /\ j # Idle /\ Goto(h, j)
    BY <2>1 DEF Idle
  <2> HIDE DEF j
  <2>4. InSync(Read(j.elements, j.edges), graph, canvas, toServer)
    BY <2>2, <2>3 DEF InSync, Read
  <2>5. Source(j, snapshot', graph', canvas', toServer')
    BY <2>1, <2>3, <2>4 DEF Source
  <2> QED
    BY <2>2, <2>3, <2>5, SourceGoto
<1>12. ASSUME NEW h \in Handler, Install(h) PROVE SourceInv'
  <2> DEFINE s == [Empty EXCEPT !.elements = job[h].elements, !.edges = job[h].edges]
  <2>1. /\ job[h].pc = "install" /\ Goto(h, Idle) /\ snapshot' = s
        /\ UNCHANGED <<graph, canvas, toServer, crossed>>
        /\ (stale => stale') \/ (s.elements = graph.elements /\ s.edges = ContainsOf(graph))
    BY <1>12 DEF Install, model
  <2>2. \A g \in Handler : g # h => job[g] = Idle
    <3>1. Solo
      BY <2>1 DEF Clear
    <3> QED
      BY <2>1, <3>1, SourceBusy
  <2>3. s = Read(job[h].elements, job[h].edges)
    BY InstallIs
  <2> HIDE DEF s
  <2>4. InSync(snapshot', graph', canvas', toServer')
    <3>1. CASE stale => stale'
      <4>1. InSync(Read(job[h].elements, job[h].edges), graph, canvas, toServer)
        BY <1>a, <2>1, <3>1, SourceBusy DEF Source
      <4> QED
        BY <2>1, <2>3, <4>1
    <3>2. CASE s.elements = graph.elements /\ s.edges = ContainsOf(graph)
      BY <2>1, <3>2 DEF InSync, InStep
    <3> QED
      BY <2>1, <3>1, <3>2
  <2>5. Source(Idle, snapshot', graph', canvas', toServer')
    BY DEF Source, Idle
  <2> QED
    BY <2>1, <2>2, <2>4, <2>5, SourceGoto
<1>13. CASE CanvasWrite
  <2>1. PICK i \in DOMAIN graph.elements, m \in Name :
           /\ canvas = Idle /\ graph' = SetName(graph, i, m) /\ canvas' = [pc |-> "record", id |-> i, name |-> m]
           /\ UNCHANGED <<job, snapshot, toServer, crossed, stale>>
    BY <1>13 DEF CanvasWrite
  <2>2. /\ DOMAIN graph'.elements = DOMAIN graph.elements /\ graph'.edges = graph.edges
        /\ \A j \in DOMAIN graph.elements :
              /\ graph'.elements[j].kind = graph.elements[j].kind
              /\ graph'.elements[j].name = IF j = i THEN m ELSE graph.elements[j].name
    BY <1>0, <2>1, SetNameWhole, SetNameIs DEF IsModel
  <2>3. ContainsOf(graph') = ContainsOf(graph)
    BY <2>2 DEF ContainsOf
  <2>4. canvas' # Idle /\ canvas'.id = i
    BY <2>1 DEF Idle
  <2>5. /\ Awaited(i, canvas', toServer')
        /\ \A j : Awaited(j, canvas, toServer) => Awaited(j, canvas', toServer')
    BY <2>1, <2>4 DEF Awaited
  <2>6. \A j \in DOMAIN graph.elements :
              /\ graph'.elements[j].kind = graph.elements[j].kind
              /\ Awaited(j, canvas', toServer') \/ graph'.elements[j].name = graph.elements[j].name
    BY <2>2, <2>5
  <2> QED
    BY <1>a, <2>1, <2>2, <2>3, <2>5, <2>6, SourceFrame
<1>14. CASE CanvasRecord
  <2>1. canvas.pc = "record" /\ canvas' = [canvas EXCEPT !.pc = "notify"]
        /\ UNCHANGED <<graph, job, snapshot, toServer, crossed, stale>>
    BY <1>14 DEF CanvasRecord, ghosts
  <2>2. canvas # Idle /\ canvas' # Idle /\ canvas'.id = canvas.id
    BY <1>0, <2>1 DEF TCanvas, Idle
  <2>3. \A i : Awaited(i, canvas, toServer) => Awaited(i, canvas', toServer')
    BY <2>1, <2>2 DEF Awaited
  <2> QED
    BY <1>a, <1>b, <2>1, <2>3
<1>15. CASE CanvasNotify
  <2> DEFINE m == [what |-> "renamed", id |-> canvas.id, name |-> canvas.name]
  <2>1. /\ canvas.pc = "notify" /\ toServer' = Append(toServer, m) /\ canvas' = Idle
        /\ UNCHANGED <<graph, job, snapshot, crossed, stale>>
    BY <1>15 DEF CanvasNotify, model, ghosts
  <2>2. m \in Message /\ m.what = "renamed" /\ m.id = canvas.id
    BY <1>0, <2>1 DEF TCanvas, Idle, Message
  <2> HIDE DEF m
  <2>3. /\ DOMAIN toServer' = 1..(Len(toServer) + 1) /\ DOMAIN toServer = 1..Len(toServer) /\ Len(toServer) \in Nat
        /\ \A n \in DOMAIN toServer : toServer'[n] = toServer[n]
        /\ toServer'[Len(toServer) + 1] = m
    BY <1>0, <2>1, <2>2, AppendIs
  <2>4. Len(toServer) + 1 \in DOMAIN toServer' /\ \A n \in DOMAIN toServer : n \in DOMAIN toServer'
    BY <2>3
  <2>5. ASSUME NEW i, Awaited(i, canvas, toServer) PROVE Awaited(i, canvas', toServer')
    <3>1. CASE canvas # Idle /\ canvas.id = i
      BY <2>2, <2>3, <2>4, <3>1 DEF Awaited
    <3>2. ASSUME NEW n \in DOMAIN toServer, toServer[n].what = "renamed", toServer[n].id = i
          PROVE  Awaited(i, canvas', toServer')
      BY <2>3, <2>4, <3>2 DEF Awaited
    <3> QED
      BY <2>5, <3>1, <3>2 DEF Awaited
  <2> QED
    BY <1>a, <1>b, <2>1, <2>5
<1>16. CASE Other
  BY <1>16 DEF Other, Clear
<1>17. CASE CanvasFails
  <2>1. canvas.pc = "record" /\ canvas' = [canvas EXCEPT !.pc = "notify"]
        /\ UNCHANGED <<graph, job, snapshot, toServer, crossed, stale>>
    BY <1>17 DEF CanvasFails, Clear, model
  <2>2. canvas # Idle /\ canvas' # Idle /\ canvas'.id = canvas.id
    BY <1>0, <2>1 DEF TCanvas, Idle
  <2>3. \A i : Awaited(i, canvas, toServer) => Awaited(i, canvas', toServer')
    BY <2>1, <2>2 DEF Awaited
  <2> QED
    BY <1>a, <1>b, <2>1, <2>3
<1> QED
  <2>1. Next \/ UNCHANGED vars
    OBVIOUS
  <2>2. CASE Next
    BY <1>2, <1>3, <1>4, <1>5, <1>6, <1>7, <1>8, <1>9, <1>10, <1>11, <1>12, <1>13, <1>14, <1>15, <1>16,
       <1>17, <2>2 DEF Next, Handle
  <2> QED
    BY <1>1, <2>1, <2>2

(* At first one handler reads, and nothing is renamed. *)
LEMMA SourceInit == Init => NameInv /\ SourceInv
<1> SUFFICES ASSUME Init PROVE NameInv /\ SourceInv
  OBVIOUS
<1>1. NameInv
  BY DEF Init, NameInv, Latest
<1> DEFINE one == CHOOSE g \in Handler : TRUE
<1>2. \A h \in Handler : job[h] = IF h = one THEN [pc |-> "elements"] ELSE Idle
  BY DEF Init
<1> HIDE DEF one
<1>3. \A h \in Handler : Source(job[h], snapshot, graph, canvas, toServer)
  BY <1>2 DEF Source, Idle
<1>4. Handler # {} => one \in Handler
  BY DEF one
<1>5. [pc |-> "elements"] # Idle
  BY DEF Idle
<1> QED
  BY <1>1, <1>2, <1>3, <1>4, <1>5 DEF SourceInv

-----------------------------------------------------------------------------

(* When the first is handled: what was sent last, and whether it is left.    *)
LEMMA LastTail ==
    ASSUME TServer, toServer # << >>, NEW t, LastText(toServer, t)
    PROVE  /\ LastText(Tail(toServer), t)
           /\ TextIn(toServer) => TextIn(Tail(toServer)) \/ Head(toServer).what = "text"
           /\ (Head(toServer).what = "text" /\ ~TextIn(Tail(toServer))) => Head(toServer).text = t
<1> DEFINE p == Tail(toServer)
<1>1. /\ \A n \in DOMAIN p : n + 1 \in DOMAIN toServer /\ p[n] = toServer[n + 1]
      /\ DOMAIN toServer = 1..Len(toServer) /\ Len(toServer) \in Nat /\ 1 \in DOMAIN toServer
      /\ DOMAIN p = 1..(Len(toServer) - 1) /\ Head(toServer) = toServer[1]
      /\ \A n \in 2..Len(toServer) : n - 1 \in DOMAIN p /\ p[n - 1] = toServer[n]
  BY HeadIs
<1> HIDE DEF p
<1>2. ASSUME NEW n \in DOMAIN p, p[n].what = "text", \A m \in DOMAIN p : m > n => p[m].what # "text"
      PROVE  p[n].text = t
  <2>1. n + 1 \in DOMAIN toServer /\ p[n] = toServer[n + 1] /\ n \in Nat /\ n >= 1
    BY <1>1
  <2>2. ASSUME NEW m \in DOMAIN toServer, m > n + 1 PROVE toServer[m].what # "text"
    <3>1. m \in 2..Len(toServer) /\ m - 1 > n
      BY <1>1, <2>1, <2>2
    <3>2. m - 1 \in DOMAIN p /\ p[m - 1] = toServer[m]
      BY <1>1, <3>1
    <3> QED
      BY <1>2, <3>1, <3>2
  <2> QED
    BY <1>2, <2>1, <2>2 DEF LastText
<1>3. ASSUME NEW n \in DOMAIN toServer, toServer[n].what = "text" PROVE TextIn(p) \/ Head(toServer).what = "text"
  <2>1. n = 1 \/ n \in 2..Len(toServer)
    BY <1>1
  <2>2. CASE n = 1
    BY <1>1, <1>3, <2>2
  <2>3. CASE n \in 2..Len(toServer)
    <3>1. n - 1 \in DOMAIN p /\ p[n - 1] = toServer[n]
      BY <1>1, <2>3
    <3> QED
      BY <1>3, <3>1 DEF TextIn
  <2> QED
    BY <2>1, <2>2, <2>3
<1>4. ASSUME Head(toServer).what = "text", ~TextIn(p) PROVE Head(toServer).text = t
  <2>1. ASSUME NEW m \in DOMAIN toServer, m > 1 PROVE toServer[m].what # "text"
    <3>1. m \in 2..Len(toServer)
      BY <1>1, <2>1
    <3>2. m - 1 \in DOMAIN p /\ p[m - 1] = toServer[m]
      BY <1>1, <3>1
    <3> QED
      BY <1>4, <3>2 DEF TextIn
  <2> QED
    BY <1>1, <1>4, <2>1 DEF LastText
<1> QED
  BY <1>2, <1>3, <1>4 DEF LastText, TextIn, p

(* When one more is sent: a text is the last one, a rename leaves it so.     *)
LEMMA LastAppend ==
    ASSUME TServer, NEW m \in Message
    PROVE  /\ m.what = "text" => LastText(Append(toServer, m), m.text) /\ TextIn(Append(toServer, m))
           /\ TextIn(toServer) => TextIn(Append(toServer, m))
           /\ \A t : (m.what # "text" /\ LastText(toServer, t)) => LastText(Append(toServer, m), t)
<1> DEFINE p == Append(toServer, m)
           x == Len(toServer) + 1
<1>1. /\ DOMAIN p = 1..x /\ DOMAIN toServer = 1..Len(toServer) /\ Len(toServer) \in Nat
      /\ \A n \in DOMAIN toServer : p[n] = toServer[n]
      /\ p[x] = m
  BY AppendIs
<1>2. x \in DOMAIN p /\ \A n \in DOMAIN p : n = x \/ (n \in DOMAIN toServer /\ x > n)
  BY <1>1
<1>3. \A n \in DOMAIN toServer : n \in DOMAIN p
  BY <1>1
<1> HIDE DEF p, x
<1>4. m.what = "text" => LastText(p, m.text) /\ TextIn(p)
  BY <1>1, <1>2 DEF LastText, TextIn
<1>5. TextIn(toServer) => TextIn(p)
  BY <1>1, <1>3 DEF TextIn
<1>6. ASSUME NEW t, m.what # "text", LastText(toServer, t) PROVE LastText(p, t)
  <2> SUFFICES ASSUME NEW n \in DOMAIN p, p[n].what = "text", \A l \in DOMAIN p : l > n => p[l].what # "text"
               PROVE  p[n].text = t
    BY DEF LastText
  <2>1. n \in DOMAIN toServer /\ p[n] = toServer[n]
    BY <1>1, <1>2, <1>6
  <2>2. \A l \in DOMAIN toServer : l > n => toServer[l].what # "text"
    BY <1>1, <1>3
  <2> QED
    BY <1>6, <2>1, <2>2 DEF LastText
<1> QED
  BY <1>4, <1>5, <1>6 DEF p

(* A handler goes to its next step. *)
LEMMA AskGoto ==
    ASSUME TypeOK, AskInv, NEW h \in Handler, NEW j, Goto(h, j), j # Idle \/ shown' \/ toEditor' # << >>,
           UNCHANGED <<due, toServer, text>>
    PROVE  AskInv'
<1>1. job'[h] = j
  BY DEF Goto, TypeOK, TJobs
<1> QED
  BY <1>1 DEF AskInv

(* A text is forgotten only when another follows it, when it is refused, or   *)
(* when it asks for nothing.                                                 *)
LEMMA AskNext == TypeOK /\ AskInv /\ [Next]_vars => AskInv'
<1> SUFFICES ASSUME TypeOK, AskInv, [Next]_vars PROVE AskInv'
  OBVIOUS
<1>0. TServer /\ TText /\ TCanvas /\ TEditor /\ TSnap /\ TJobs
  BY DEF TypeOK
<1>a. ASSUME UNCHANGED <<open, due, toEditor, toServer, shown, job, snapshot, text>> PROVE AskInv'
  BY <1>a DEF AskInv
<1>1. CASE UNCHANGED vars
  BY <1>1, <1>a DEF vars, editor
<1>2. CASE Typing
  <2>1. due' = TRUE /\ UNCHANGED open
    BY <1>2 DEF Typing, Retitle, Rekind, Indent, Cut, Copy, Spoil, Insert, Type
  <2> QED
    BY <2>1 DEF AskInv
<1>3. CASE Send
  <2> DEFINE m == [what |-> "text", text |-> text, base |-> base]
  <2>1. toServer' = Append(toServer, m) /\ UNCHANGED <<text, open>>
    BY <1>3 DEF Send
  <2>2. m \in Message /\ m.what = "text" /\ m.text = text
    BY <1>0 DEF TText, Message
  <2> HIDE DEF m
  <2>3. LastText(toServer', text) /\ TextIn(toServer')
    BY <1>0, <2>1, <2>2, LastAppend
  <2> QED
    BY <2>1, <2>3 DEF AskInv
<1>4. CASE Pushed
  BY <1>4 DEF Pushed, AskInv
<1>5. ASSUME NEW h \in Handler, HandleText(h) PROVE AskInv'
  <2> DEFINE m == Head(toServer)
             bad == m.text = Unparsable \/ HasErrors(snapshot, m.text)
             ops == IF bad THEN << >> ELSE DiffOps(snapshot, m.text)
  <2>1. /\ toServer # << >> /\ m.what = "text" /\ toServer' = Tail(toServer)
        /\ \/ ops = << >> /\ shown' = bad /\ UNCHANGED job
           \/ Goto(h, [pc |-> "check", ops |-> ops, text |-> m.text, base |-> m.base, read |-> snapshot])
        /\ UNCHANGED <<snapshot, open, toEditor, text, due>>
    BY <1>5 DEF HandleText
  <2>2. ~due => LastText(toServer', text)
    BY <1>0, <2>1, LastTail DEF AskInv
  <2>3. CASE Goto(h, [pc |-> "check", ops |-> ops, text |-> m.text, base |-> m.base, read |-> snapshot])
    <3> DEFINE j == [pc |-> "check", ops |-> ops, text |-> m.text, base |-> m.base, read |-> snapshot]
    <3>1. j # Idle /\ Goto(h, j)
      BY <2>3 DEF Idle
    <3> HIDE DEF j, ops, bad, m
    <3>2. job'[h] # Idle
      BY <1>0, <3>1 DEF Goto, TJobs
    <3> QED
      BY <2>1, <2>2, <3>2 DEF AskInv
  <2>4. CASE ops = << >> /\ shown' = bad /\ UNCHANGED job
    <3>1. ASSUME ~due, ~TextIn(toServer'), ~shown' PROVE Taken(snapshot, text)
      <4>1. ~bad /\ DiffOps(snapshot, m.text) = << >>
        BY <2>4, <3>1
      <4>2. m.text = text
        BY <1>0, <2>1, <3>1, LastTail DEF AskInv
      <4> QED
        BY <4>1, <4>2 DEF Taken
    <3> HIDE DEF ops, bad, m
    <3>2. open' => \/ due' \/ toEditor' # << >> \/ TextIn(toServer') \/ shown'
                   \/ Taken(snapshot', text')
      BY <2>1, <3>1
    <3> QED
      BY <2>1, <2>2, <3>2 DEF AskInv
  <2> QED
    BY <2>1, <2>3, <2>4
<1>6. ASSUME NEW h \in Handler, HandleRenamed(h) PROVE AskInv'
  <2> DEFINE s == SetName(snapshot, Head(toServer).id, Head(toServer).name)
  <2>1. /\ toServer # << >> /\ Head(toServer).what = "renamed" /\ toServer' = Tail(toServer)
        /\ toEditor' = IF open THEN Append(toEditor, PrintTree(s)) ELSE toEditor
        /\ UNCHANGED <<open, text, due>>
    BY <1>6 DEF HandleRenamed, editor
  <2>2. ~due => LastText(toServer', text)
    BY <1>0, <2>1, LastTail DEF AskInv
  <2>3. PrintTree(s) \in Seq(LineRec)
    <3>1. IsModel(s)
      BY <1>0, <2>1, MessageIs, SetNameWhole DEF TSnap
    <3> HIDE DEF s
    <3> QED
      BY <3>1, PrintType
  <2> HIDE DEF s
  <2>4. Append(toEditor, PrintTree(s)) # << >>
    BY <1>0, <2>3, AppendProperties DEF TEditor
  <2> QED
    BY <2>1, <2>2, <2>4 DEF AskInv
<1>7. ASSUME NEW h \in Handler, Check(h) PROVE AskInv'
  <2>1. /\ UNCHANGED <<open, due, toServer, text>>
        /\ \/ Goto(h, [pc |-> "write", ops |-> job[h].ops, seen |-> graph])
           \/ Goto(h, Idle) /\ shown'
    BY <1>7 DEF Check
  <2>2. CASE Goto(h, Idle) /\ shown'
    BY <2>1, <2>2, AskGoto
  <2>3. CASE Goto(h, [pc |-> "write", ops |-> job[h].ops, seen |-> graph])
    <3>1. [pc |-> "write", ops |-> job[h].ops, seen |-> graph] # Idle
      BY DEF Idle
    <3> QED
      BY <2>1, <2>3, <3>1, AskGoto
  <2> QED
    BY <2>1, <2>2, <2>3
<1>8. ASSUME NEW h \in Handler, Write(h) \/ Record(h) \/ Answer(h) \/ ReadElements(h) \/ ReadContains(h) PROVE AskInv'
  <2>1. PICK j : Goto(h, j) /\ j.pc \in {"record", "answer", "elements", "contains", "install"}
    <3>1. CASE Write(h)
      BY <3>1 DEF Write
    <3>2. CASE Record(h)
      BY <3>2 DEF Record
    <3>3. CASE Answer(h)
      BY <3>3 DEF Answer
    <3>4. CASE ReadElements(h)
      BY <3>4 DEF ReadElements
    <3>5. CASE ReadContains(h)
      BY <3>5 DEF ReadContains
    <3> QED
      BY <1>8, <3>1, <3>2, <3>3, <3>4, <3>5
  <2>2. UNCHANGED <<open, due, toServer, text>>
    BY <1>8 DEF Write, Record, Answer, ReadElements, ReadContains, editor
  <2>3. j # Idle
    BY <2>1 DEF Idle
  <2> QED
    BY <2>1, <2>2, <2>3, AskGoto
<1>9. ASSUME NEW h \in Handler, Lose(h) PROVE AskInv'
  <2>1. UNCHANGED <<open, due, toServer, text>> /\ Goto(h, Idle) /\ shown'
    BY <1>9 DEF Lose
  <2> QED
    BY <2>1, AskGoto
<1>10. ASSUME NEW h \in Handler, Install(h) PROVE AskInv'
  <2> DEFINE s == [Empty EXCEPT !.elements = job[h].elements, !.edges = job[h].edges]
  <2>1. /\ job[h].pc = "install" /\ toEditor' = Append(toEditor, PrintTree(s)) /\ UNCHANGED <<due, toServer, text>>
    BY <1>10 DEF Install, editor
  <2>2. PrintTree(s) \in Seq(LineRec)
    <3>1. s = Read(job[h].elements, job[h].edges)
      BY InstallIs
    <3>2. IsModel(s)
      BY <1>0, <2>1, <3>1, JobIs DEF TJobs
    <3> HIDE DEF s
    <3> QED
      BY <3>2, PrintType
  <2> HIDE DEF s
  <2>3. toEditor' # << >>
    BY <1>0, <2>1, <2>2, AppendProperties DEF TEditor
  <2> QED
    BY <2>1, <2>3 DEF AskInv
<1>11. CASE CanvasWrite \/ CanvasRecord \/ CanvasFails \/ Other
  BY <1>11, <1>a DEF CanvasWrite, CanvasRecord, CanvasFails, Other, editor
<1>12. CASE CanvasNotify
  <2> DEFINE m == [what |-> "renamed", id |-> canvas.id, name |-> canvas.name]
  <2>1. /\ canvas.pc = "notify" /\ toServer' = Append(toServer, m)
        /\ UNCHANGED <<open, due, toEditor, shown, job, snapshot, text>>
    BY <1>12 DEF CanvasNotify, editor
  <2>2. m \in Message /\ m.what # "text"
    BY <1>0, <2>1 DEF TCanvas, Idle, Message
  <2> HIDE DEF m
  <2>3. (TextIn(toServer) => TextIn(toServer')) /\ (LastText(toServer, text) => LastText(toServer', text))
    BY <1>0, <2>1, <2>2, LastAppend
  <2> QED
    BY <2>1, <2>3 DEF AskInv
<1> QED
  <2>1. Next \/ UNCHANGED vars
    OBVIOUS
  <2>2. CASE Next
    BY <1>2, <1>3, <1>4, <1>5, <1>6, <1>7, <1>8, <1>9, <1>10, <1>11, <1>12, <2>2 DEF Next, Handle
  <2> QED
    BY <1>1, <2>1, <2>2

(* The server does not know the document at first.                           *)
LEMMA AskInit == Init => AskInv
BY DEF Init, AskInv, LastText

(* A model that has what the server read of it asks nothing else of a text.  *)
LEMMA SameAsked ==
    ASSUME NEW s, NEW g, NEW t, DOMAIN s.elements = DOMAIN g.elements, s.edges = ContainsOf(g),
           \A i \in DOMAIN s.elements : s.elements[i].kind = g.elements[i].kind /\ s.elements[i].name = g.elements[i].name,
           Taken(s, t)
    PROVE  Taken(g, t)
<1>1. ContainsOf(s) = ContainsOf(g)
  BY DEF ContainsOf
<1>2. \A i : ParentOf(s, i) = ParentOf(g, i)
  BY <1>1 DEF ParentOf
<1>3. ~HasErrors(g, t)
  BY DEF Taken, HasErrors
<1>4. ASSUME NEW n \in DOMAIN t PROVE OpsOf(s, t, n) = OpsOf(g, t, n)
  <2>1. CASE t[n].anchor = NoOne
    BY <2>1 DEF OpsOf
  <2>2. CASE t[n].anchor # NoOne
    <3>1. t[n].anchor \in DOMAIN s.elements
      BY <2>2 DEF Taken, HasErrors, Anchors
    <3>2. s.elements[t[n].anchor].name = g.elements[t[n].anchor].name
      BY <3>1
    <3> QED
      BY <1>2, <2>2, <3>2 DEF OpsOf
  <2> QED
    BY <2>1, <2>2
<1>5. [n \in DOMAIN t |-> OpsOf(s, t, n)] = [n \in DOMAIN t |-> OpsOf(g, t, n)]
  BY <1>4
<1>6. DiffOps(s, t) = DiffOps(g, t)
  BY <1>5 DEF DiffOps
<1> QED
  BY <1>3, <1>6 DEF Taken

(* At rest. *)
LEMMA QuietFollows == AskInv /\ (Clear => NameInv /\ SourceInv) => QuietIsInSync
<1> SUFFICES ASSUME AskInv, Clear => NameInv /\ SourceInv, Quiet, open, ~crossed, ~stale, ~shown
             PROVE  ~HasErrors(graph, text) /\ DiffOps(graph, text) = << >>
  BY DEF QuietIsInSync
<1>1. Handler # {} /\ \A h \in Handler : job[h] = Idle
  BY DEF Quiet, Busy, AskInv
<1>2. ~TextIn(toServer)
  BY DEF Quiet, TextIn
<1>3. Taken(snapshot, text)
  BY <1>1, <1>2 DEF AskInv, Quiet
<1>4. InSync(snapshot, graph, canvas, toServer)
  BY <1>1 DEF Clear, SourceInv
<1>5. \A i : ~Awaited(i, canvas, toServer)
  BY DEF Quiet, Awaited
<1>6. Taken(graph, text)
  BY <1>3, <1>4, <1>5, SameAsked DEF InSync, InStep
<1> QED
  BY <1>6 DEF Taken

(* At rest, if texts never crossed and the server missed nothing, the text   *)
(* asks nothing of the live model: text and model say the same.              *)
THEOREM TextIsModel == Spec => []QuietIsInSync
<1>1. Init => TypeOK /\ (~crossed => Solo) /\ AskInv /\ (Clear => NameInv /\ SourceInv)
  BY TypeInit, SoloInit, AskInit, SourceInit
<1>2. TypeOK /\ (~crossed => Solo) /\ AskInv /\ (Clear => NameInv /\ SourceInv) /\ [Next]_vars
      => (TypeOK /\ (~crossed => Solo) /\ AskInv /\ (Clear => NameInv /\ SourceInv))'
  <2>1. ASSUME Clear => NameInv /\ SourceInv PROVE (Clear => NameInv) /\ (Clear => SourceInv)
    BY <2>1
  <2>2. ASSUME (Clear => NameInv)', (Clear => SourceInv)' PROVE (Clear => NameInv /\ SourceInv)'
    BY <2>2
  <2> QED
    BY TypeNext, SoloNext, AskNext, NameNext, SourceNext, <2>1, <2>2
<1> QED
  BY <1>1, <1>2, QuietFollows, PTL DEF Spec

-----------------------------------------------------------------------------

(* Both are finite.                                                          *)
LEMMA CountIs ==
    ASSUME NEW t \in Seq(LineRec), NEW b \in Seq(LineRec)
    PROVE  /\ IsFiniteSet(Anchors(b) \ Old) /\ IsFiniteSet(NewIn(t)) /\ Anchors(b) \subseteq Id
           /\ Cardinality(Anchors(b) \ Old) \in Nat /\ Cardinality(NewIn(t)) \in Nat
           /\ Count(t, b) \in Nat
<1>1. Anchors(b) \subseteq Id
  <2>1. \A n \in DOMAIN b : b[n] \in LineRec
    BY LenProperties, ElementOfSeq
  <2> QED
    BY <2>1 DEF Anchors, LineRec
<1>2. IsFiniteSet(Id)
  BY IdAssumption
<1>3. IsFiniteSet(Anchors(b) \ Old)
  <2>1. (Anchors(b) \ Old) \in SUBSET Id
    BY <1>1
  <2> QED
    BY <1>2, <2>1, FS_Subset
<1>4. IsFiniteSet(NewIn(t))
  <2>1. DOMAIN t = 1..Len(t) /\ Len(t) \in Nat
    BY LenProperties
  <2>2. IsFiniteSet(1..Len(t))
    BY <2>1, FS_Interval
  <2>3. NewIn(t) \in SUBSET (1..Len(t))
    BY <2>1 DEF NewIn
  <2> QED
    BY <2>2, <2>3, FS_Subset
<1>5. Cardinality(Anchors(b) \ Old) \in Nat /\ Cardinality(NewIn(t)) \in Nat
  BY <1>3, <1>4, FS_CardinalityType
<1> QED
  BY <1>1, <1>3, <1>4, <1>5 DEF Count

(* Elements of one set that differ on a function into another are no more.   *)
LEMMA NoMore ==
    ASSUME NEW S, IsFiniteSet(S), NEW T, IsFiniteSet(T), NEW f,
           \A x \in S : f[x] \in T,
           \A x, y \in S : f[x] = f[y] => x = y
    PROVE  Cardinality(S) <= Cardinality(T)
<1> SUFFICES ASSUME ~(Cardinality(S) <= Cardinality(T)) PROVE FALSE
  OBVIOUS
<1>1. Cardinality(T) < Cardinality(S)
  BY FS_CardinalityType
<1> DEFINE g == [x \in S |-> f[x]]
<1>2. g \in [S -> T]
  OBVIOUS
<1> HIDE DEF g
<1>3. \E x, y \in S : x # y /\ g[x] = g[y]
  BY <1>1, <1>2, FS_PigeonHole
<1> QED
  BY <1>3 DEF g

(* An edit has no more lines of no element than it typed.                    *)
LEMMA EditCount ==
    ASSUME NEW t \in Seq(LineRec), NEW u \in Seq(LineRec), NEW was \in Nat, NEW is, Edited(t, u, was, is)
    PROVE  Cardinality(NewIn(u)) - is <= Cardinality(NewIn(t)) - was /\ is \in {was, was + 1}
<1>1. PICK f, x : EditFrom(f, t, u, x) /\ is = (IF x \in NewIn(u) THEN was + 1 ELSE was)
  BY DEF Edited
<1> DEFINE S == NewIn(u) \ {x}
<1>2. IsFiniteSet(NewIn(u)) /\ IsFiniteSet(NewIn(t)) /\ Cardinality(NewIn(u)) \in Nat /\ Cardinality(NewIn(t)) \in Nat
  BY CountIs
<1>3. /\ IsFiniteSet(S)
      /\ Cardinality(S) = IF x \in NewIn(u) THEN Cardinality(NewIn(u)) - 1 ELSE Cardinality(NewIn(u))
  BY <1>2, FS_RemoveElement
<1>4. \A n \in S : f[n] \in NewIn(t)
  BY <1>1 DEF EditFrom, NewIn
<1>5. \A m, n \in S : f[m] = f[n] => m = n
  BY <1>1 DEF EditFrom, NewIn
<1> HIDE DEF S
<1>6. Cardinality(S) <= Cardinality(NewIn(t))
  BY <1>2, <1>3, <1>4, <1>5, NoMore
<1>7. CASE x \in NewIn(u)
  BY <1>1, <1>2, <1>3, <1>6, <1>7
<1>8. CASE x \notin NewIn(u)
  BY <1>1, <1>2, <1>3, <1>6, <1>8
<1> QED
  BY <1>7, <1>8

(* An edit creates an element for each line of none.                         *)
LEMMA CreatesAre ==
    ASSUME NEW s, NEW t \in Seq(LineRec)
    PROVE  /\ IsFiniteSet(Creates(DiffOps(s, t))) /\ Cardinality(Creates(DiffOps(s, t))) \in Nat
           /\ Cardinality(Creates(DiffOps(s, t))) <= Cardinality(NewIn(t))
<1> DEFINE ops == DiffOps(s, t)
<1>1. IsOps(ops) /\ IsFiniteSet(NewIn(t))
  BY OpsAre, CountIs
<1>2. PICK w : OpsFrom(w, s, t, ops)
  BY OpsAre
<1> HIDE DEF ops
<1>3. IsFiniteSet(Creates(ops)) /\ Cardinality(Creates(ops)) \in Nat
  <2>1. DOMAIN ops = 1..Len(ops) /\ Len(ops) \in Nat
    BY <1>1, LenProperties DEF IsOps
  <2>2. IsFiniteSet(1..Len(ops))
    BY <2>1, FS_Interval
  <2>3. Creates(ops) \in SUBSET (1..Len(ops))
    BY <2>1 DEF Creates
  <2>4. IsFiniteSet(Creates(ops))
    BY <2>2, <2>3, FS_Subset
  <2> QED
    BY <2>4, FS_CardinalityType
<1>4. ASSUME NEW k \in Creates(ops)
      PROVE  w[k] \in NewIn(t) /\ ops[k].id = RefOf(t, w[k])
  <2>1. k \in DOMAIN ops /\ ops[k].do = "create"
    BY DEF Creates
  <2>2. w[k] \in DOMAIN t /\ (Makes(ops[k], t, w[k]) \/ Names(ops[k], s, t, w[k]) \/ Moves(ops[k], s, t, w[k]))
    BY <1>2, <2>1 DEF OpsFrom
  <2>3. Makes(ops[k], t, w[k])
    BY <2>1, <2>2 DEF Names, Moves
  <2> QED
    BY <2>2, <2>3 DEF Makes, NewIn
<1>5. ASSUME NEW k \in Creates(ops), NEW l \in Creates(ops), w[k] = w[l] PROVE k = l
  <2>1. ops[k].id = ops[l].id
    BY <1>4, <1>5
  <2> QED
    BY <1>1, <2>1 DEF IsOps, Creates
<1>6. Cardinality(Creates(ops)) <= Cardinality(NewIn(t))
  BY <1>1, <1>3, <1>4, <1>5, NoMore
<1> QED
  BY <1>3, <1>6 DEF ops

(* No more ids are given than elements are created. *)
LEMMA IdsGiven ==
    ASSUME NEW ops, IsOps(ops), Len(Created(ops)) <= Len(Unused), IsFiniteSet(Creates(ops))
    PROVE  /\ IsFiniteSet(Range(RealIds(ops)))
           /\ Cardinality(Range(RealIds(ops))) <= Cardinality(Creates(ops))
<1> DEFINE ids == RealIds(ops)
           f == [i \in Range(ids) |-> CHOOSE k \in Creates(ops) : ids[ops[k].id] = i]
<1>1. /\ DOMAIN ids = {ops[k].id : k \in {k \in DOMAIN ops : ops[k].do = "create"}}
      /\ \A i \in DOMAIN ids : ids[i] \in Id
  BY RealIdsAre
<1> HIDE DEF ids
<1>2. IsFiniteSet(Range(ids))
  <2>1. Range(ids) \in SUBSET Id /\ IsFiniteSet(Id)
    BY <1>1, IdAssumption DEF Range
  <2> QED
    BY <2>1, FS_Subset
<1>3. ASSUME NEW i \in Range(ids) PROVE f[i] \in Creates(ops) /\ ids[ops[f[i]].id] = i
  <2>1. \E k \in Creates(ops) : ids[ops[k].id] = i
    BY <1>1 DEF Range, Creates
  <2> QED
    BY <2>1
<1> HIDE DEF f
<1>4. \A i, j \in Range(ids) : f[i] = f[j] => i = j
  BY <1>3
<1>5. Cardinality(Range(ids)) <= Cardinality(Creates(ops))
  BY <1>2, <1>3, <1>4, NoMore
<1> QED
  BY <1>2, <1>5 DEF ids

(* A set within another has no more. *)
LEMMA Within ==
    ASSUME NEW S, NEW T, IsFiniteSet(T), S \subseteq T
    PROVE  IsFiniteSet(S) /\ Cardinality(S) <= Cardinality(T) /\ Cardinality(S) \in Nat /\ Cardinality(T) \in Nat
BY FS_Subset, FS_CardinalityType

-----------------------------------------------------------------------------

(* A handler goes to its next step. *)
LEMMA KnownGoto ==
    ASSUME TypeOK, KnownInv, NEW h \in Handler, NEW j, Goto(h, j), used \subseteq used',
           DOMAIN snapshot'.elements \subseteq used,
           j.pc \in {"contains", "install"} => DOMAIN j.elements \subseteq used
    PROVE  KnownInv'
<1>1. \A g \in Handler : job'[g] = IF g = h THEN j ELSE job[g]
  BY DEF Goto, TypeOK, TJobs
<1>2. \A g \in Handler : job'[g].pc \in {"contains", "install"} => DOMAIN job'[g].elements \subseteq used'
  BY <1>1 DEF KnownInv
<1> QED
  BY <1>2 DEF KnownInv

(* What is read is of the model, and the model is of what there ever was.    *)
LEMMA KnownNext == TypeOK /\ KnownInv /\ [Next]_vars => KnownInv'
<1> SUFFICES ASSUME TypeOK, KnownInv, [Next]_vars PROVE KnownInv'
  OBVIOUS
<1>0. TGraph /\ TServer /\ TSnap
  BY DEF TypeOK
<1>a. ASSUME UNCHANGED <<used, snapshot, job>> PROVE KnownInv'
  BY <1>a DEF KnownInv
<1>1. CASE UNCHANGED vars
  BY <1>1, <1>a DEF vars, model
<1>2. CASE Typing
  <2>1. UNCHANGED <<used, snapshot, job>>
    BY <1>2 DEF Typing, Retitle, Rekind, Indent, Cut, Copy, Spoil, Insert, Type, model
  <2> QED
    BY <2>1, <1>a
<1>3. CASE Send \/ Pushed \/ CanvasWrite \/ CanvasRecord \/ CanvasNotify \/ CanvasFails \/ Other
  <2>1. UNCHANGED <<used, snapshot, job>>
    BY <1>3 DEF Send, Pushed, CanvasWrite, CanvasRecord, CanvasNotify, CanvasFails, Other, model
  <2> QED
    BY <2>1, <1>a
<1>4. ASSUME NEW h \in Handler, HandleText(h) PROVE KnownInv'
  <2>1. /\ UNCHANGED <<used, snapshot>>
        /\ UNCHANGED job \/ \E j : j.pc = "check" /\ Goto(h, j)
    BY <1>4 DEF HandleText, model
  <2>2. ASSUME NEW j, j.pc = "check", Goto(h, j) PROVE KnownInv'
    BY <2>1, <2>2, KnownGoto DEF KnownInv
  <2> QED
    BY <2>1, <2>2, <1>a
<1>5. ASSUME NEW h \in Handler, HandleRenamed(h) PROVE KnownInv'
  <2> DEFINE m == Head(toServer)
  <2>1. /\ toServer # << >> /\ m.what = "renamed" /\ snapshot' = SetName(snapshot, m.id, m.name)
        /\ UNCHANGED <<used, job>>
    BY <1>5 DEF HandleRenamed, model
  <2>2. m.name \in Name
    BY <1>0, <2>1, MessageIs
  <2> HIDE DEF m
  <2>3. DOMAIN snapshot'.elements = DOMAIN snapshot.elements
    BY <1>0, <2>1, <2>2, SetNameWhole DEF TSnap
  <2> QED
    BY <2>1, <2>3 DEF KnownInv
<1>6. ASSUME NEW h \in Handler, Check(h) \/ Write(h) \/ Record(h) \/ Answer(h) \/ Lose(h) PROVE KnownInv'
  <2>1. \E j : Goto(h, j) /\ j.pc \in {"idle", "write", "record", "answer", "elements"}
    <3>1. CASE Check(h)
      BY <3>1 DEF Check, Idle
    <3>2. CASE Write(h)
      BY <3>2 DEF Write
    <3>3. CASE Record(h) \/ Answer(h)
      BY <3>3 DEF Record, Answer
    <3>4. CASE Lose(h)
      BY <3>4 DEF Lose, Idle
    <3> QED
      BY <1>6, <3>1, <3>2, <3>3, <3>4
  <2>2. UNCHANGED snapshot /\ used \subseteq used'
    <3>1. CASE Write(h)
      BY <3>1 DEF Write
    <3>2. CASE Check(h) \/ Record(h) \/ Answer(h) \/ Lose(h)
      BY <3>2 DEF Check, Record, Answer, Lose, model
    <3> QED
      BY <1>6, <3>1, <3>2
  <2> QED
    BY <2>1, <2>2, KnownGoto DEF KnownInv
<1>7. ASSUME NEW h \in Handler, ReadElements(h) PROVE KnownInv'
  <2>1. /\ UNCHANGED <<used, snapshot>>
        /\ \E els : (els = graph.elements \/ els = << >>) /\ Goto(h, [pc |-> "contains", elements |-> els])
    BY <1>7 DEF ReadElements, model
  <2>2. PICK els : (els = graph.elements \/ els = << >>) /\ Goto(h, [pc |-> "contains", elements |-> els])
    BY <2>1
  <2>3. DOMAIN els \subseteq used
    BY <1>0, <2>2 DEF TGraph
  <2> QED
    BY <2>1, <2>2, <2>3, KnownGoto DEF KnownInv
<1>8. ASSUME NEW h \in Handler, ReadContains(h) PROVE KnownInv'
  <2>1. /\ UNCHANGED <<used, snapshot>> /\ job[h].pc = "contains"
        /\ \E E : Goto(h, [pc |-> "install", elements |-> job[h].elements, edges |-> E])
    BY <1>8 DEF ReadContains, model
  <2> QED
    BY <2>1, KnownGoto DEF KnownInv
<1>9. ASSUME NEW h \in Handler, Install(h) PROVE KnownInv'
  <2> DEFINE s == [Empty EXCEPT !.elements = job[h].elements, !.edges = job[h].edges]
  <2>1. /\ job[h].pc = "install" /\ snapshot' = s /\ UNCHANGED used /\ Goto(h, Idle)
    BY <1>9 DEF Install, model
  <2>2. s.elements = job[h].elements
    BY InstallIs DEF Read
  <2> HIDE DEF s
  <2>3. DOMAIN snapshot'.elements \subseteq used
    BY <2>1, <2>2 DEF KnownInv
  <2> QED
    BY <2>1, <2>3, KnownGoto DEF Idle
<1> QED
  <2>1. Next \/ UNCHANGED vars
    OBVIOUS
  <2>2. CASE Next
    BY <1>2, <1>3, <1>4, <1>5, <1>6, <1>7, <1>8, <1>9, <2>2 DEF Next, Handle
  <2> QED
    BY <1>1, <2>1, <2>2

(* At first the server knows of nothing. *)
LEMMA KnownInit == Init => KnownInv
<1> SUFFICES ASSUME Init PROVE KnownInv
  OBVIOUS
<1>1. DOMAIN snapshot.elements = {}
  BY DEF Init, Empty
<1>2. \A h \in Handler : job[h].pc \in {"elements", "idle"}
  BY DEF Init, Idle
<1> QED
  BY <1>1, <1>2 DEF KnownInv

(* The one handler that runs goes on. *)
LEMMA MadeGoto ==
    ASSUME TypeOK, NEW h \in Handler, NEW j, Goto(h, j), \A g \in Handler : g # h => job[g] = Idle,
           Made' \subseteq DOMAIN graph'.elements,
           j = Idle => Made' \subseteq DOMAIN snapshot'.elements,
           MadeIn(j, snapshot', Made')
    PROVE  MadeInv'
<1>1. \A g \in Handler : job'[g] = IF g = h THEN j ELSE Idle
  BY DEF Goto, TypeOK, TJobs
<1>2. MadeIn(Idle, snapshot', Made')
  BY DEF MadeIn, Idle
<1>3. \A g \in Handler : MadeIn(job'[g], snapshot', Made')
  BY <1>1, <1>2
<1>4. (\A g \in Handler : job'[g] = Idle) => Made' \subseteq DOMAIN snapshot'.elements
  BY <1>1
<1> QED
  BY <1>3, <1>4 DEF MadeInv

(* What a busy handler goes by, and that the others rest. *)
LEMMA MadeBusy ==
    ASSUME Solo, MadeInv, NEW h \in Handler, job[h].pc # "idle"
    PROVE  (\A g \in Handler : g # h => job[g] = Idle) /\ MadeIn(job[h], snapshot, Made)
BY DEF Solo, MadeInv, Idle

(* Nobody but another client takes away what a text has made, and the one    *)
(* handler reads it before it looks at the next text.                        *)
LEMMA MadeNext ==
    TypeOK /\ (~crossed => Solo) /\ (Heard => MadeInv) /\ [Next]_vars => (Heard => MadeInv)'
<1> SUFFICES ASSUME TypeOK, ~crossed => Solo, Heard => MadeInv, [Next]_vars, Heard' PROVE MadeInv'
  OBVIOUS
<1>0. TGraph /\ TServer /\ TSnap /\ TJobs /\ IsModel(graph) /\ Whole(graph)
  BY DEF TypeOK, TGraph, Whole
<1>a. ASSUME crossed => crossed', unread => unread' PROVE MadeInv /\ Solo
  BY <1>a DEF Heard
<1>b. ASSUME UNCHANGED <<used, job>>, MadeInv, DOMAIN snapshot'.elements = DOMAIN snapshot.elements,
             Made \subseteq DOMAIN graph'.elements
      PROVE  MadeInv'
  BY <1>b DEF MadeInv, MadeIn, Made
<1>1. CASE UNCHANGED vars
  <2>1. UNCHANGED <<used, graph, job, snapshot, crossed, unread>>
    BY <1>1 DEF vars, model, ghosts
  <2> QED
    BY <2>1, <1>a, <1>b DEF MadeInv
<1>2. CASE Typing
  <2>1. UNCHANGED <<used, graph, job, snapshot, crossed, unread>>
    BY <1>2 DEF Typing, Retitle, Rekind, Indent, Cut, Copy, Spoil, Insert, Type, model, ghosts
  <2> QED
    BY <2>1, <1>a, <1>b DEF MadeInv
<1>3. CASE Send \/ Pushed \/ CanvasRecord \/ CanvasNotify \/ CanvasFails
  <2>1. UNCHANGED <<used, graph, job, snapshot, crossed, unread>>
    BY <1>3 DEF Send, Pushed, CanvasRecord, CanvasNotify, CanvasFails, model, ghosts
  <2> QED
    BY <2>1, <1>a, <1>b DEF MadeInv
<1>4. CASE CanvasWrite
  <2>1. PICK i \in DOMAIN graph.elements, m \in Name : graph' = SetName(graph, i, m)
    BY <1>4 DEF CanvasWrite
  <2>2. UNCHANGED <<used, job, snapshot, crossed, unread>>
    BY <1>4 DEF CanvasWrite
  <2>3. DOMAIN graph'.elements = DOMAIN graph.elements
    BY <1>0, <2>1, SetNameWhole
  <2> QED
    BY <2>2, <2>3, <1>a, <1>b DEF MadeInv
<1>5. CASE Other
  <2>1. UNCHANGED <<used, job, snapshot, crossed>>
    BY <1>5 DEF Other
  <2>2. PICK i \in DOMAIN graph.elements :
           \/ UNCHANGED unread /\ \E m \in Name : graph' = SetName(graph, i, m)
           \/ graph' = Removed(graph, i) /\ unread' = (unread \/ i \in Made)
    BY <1>5 DEF Other
  <2>3. CASE UNCHANGED unread /\ \E m \in Name : graph' = SetName(graph, i, m)
    <3>1. DOMAIN graph'.elements = DOMAIN graph.elements
      BY <1>0, <2>3, SetNameWhole
    <3> QED
      BY <2>1, <2>3, <3>1, <1>a, <1>b DEF MadeInv
  <2>4. CASE graph' = Removed(graph, i) /\ unread' = (unread \/ i \in Made)
    <3>1. DOMAIN graph'.elements = DOMAIN graph.elements \ {i}
      BY <1>0, <2>4, RemovedWhole
    <3>2. i \notin Made /\ MadeInv
      BY <2>1, <2>4, <1>a DEF Heard
    <3>3. Made \subseteq DOMAIN graph'.elements
      BY <3>1, <3>2 DEF MadeInv
    <3> QED
      BY <2>1, <3>2, <3>3, <1>b
  <2> QED
    BY <2>2, <2>3, <2>4
<1>6. ASSUME NEW h \in Handler, HandleText(h) PROVE MadeInv'
  <2> DEFINE m == Head(toServer)
  <2>1. /\ UNCHANGED job \/ \E j : j.pc = "check" /\ j.read = snapshot /\ Goto(h, j)
        /\ crossed' = (crossed \/ Busy # {} \/ m.base # PrintTree(snapshot) \/ Renaming)
        /\ UNCHANGED <<used, graph, snapshot, unread>>
    BY <1>6 DEF HandleText, model
  <2>2. MadeInv /\ Busy = {}
    BY <1>a, <2>1 DEF Heard
  <2>3. (\A g \in Handler : job[g] = Idle) /\ Made \subseteq DOMAIN snapshot.elements
    BY <2>2 DEF MadeInv, Busy
  <2>4. ASSUME NEW j, j.pc = "check", j.read = snapshot, Goto(h, j) PROVE MadeInv'
    <3>1. Made' = Made /\ j # Idle
      BY <2>1, <2>4 DEF Made, Idle
    <3>2. MadeIn(j, snapshot', Made')
      BY <2>1, <2>3, <2>4, <3>1 DEF MadeIn
    <3> QED
      BY <2>1, <2>2, <2>3, <2>4, <3>1, <3>2, MadeGoto DEF MadeInv
  <2> QED
    BY <2>1, <2>2, <2>4, <1>b DEF MadeInv
<1>7. ASSUME NEW h \in Handler, HandleRenamed(h) PROVE MadeInv'
  <2> DEFINE m == Head(toServer)
  <2>1. /\ toServer # << >> /\ m.what = "renamed" /\ snapshot' = SetName(snapshot, m.id, m.name)
        /\ UNCHANGED <<used, graph, job, unread>> /\ (crossed => crossed')
    BY <1>7 DEF HandleRenamed, model
  <2>2. m.name \in Name
    BY <1>0, <2>1, MessageIs
  <2> HIDE DEF m
  <2>3. DOMAIN snapshot'.elements = DOMAIN snapshot.elements
    BY <1>0, <2>1, <2>2, SetNameWhole DEF TSnap
  <2> QED
    BY <2>1, <2>3, <1>a, <1>b DEF MadeInv
<1>8. ASSUME NEW h \in Handler, Check(h) PROVE MadeInv'
  <2>1. /\ job[h].pc = "check" /\ UNCHANGED <<used, graph, snapshot, crossed, unread>>
        /\ \E j : Goto(h, j) /\ (j = Idle \/ j.pc = "write")
    BY <1>8 DEF Check, model, ghosts
  <2>2. MadeInv /\ Solo /\ Made' = Made
    BY <1>a, <2>1 DEF Made
  <2>3. PICK j : Goto(h, j) /\ (j = Idle \/ j.pc = "write")
    BY <2>1
  <2>4. (\A g \in Handler : g # h => job[g] = Idle) /\ Made \subseteq DOMAIN snapshot.elements
    BY <2>1, <2>2, MadeBusy DEF MadeIn
  <2>5. MadeIn(j, snapshot', Made')
    BY <2>1, <2>2, <2>3, <2>4 DEF MadeIn, Idle
  <2> QED
    BY <2>1, <2>2, <2>3, <2>4, <2>5, MadeGoto DEF MadeInv
<1>9. ASSUME NEW h \in Handler, Write(h) PROVE MadeInv'
  <2> DEFINE ops == job[h].ops
             ids == RealIds(ops)
  <2>1. /\ job[h].pc = "write" /\ Len(Created(ops)) <= Len(Unused)
        /\ graph' = Written(graph, ops, ids) /\ used' = used \cup Range(ids)
        /\ UNCHANGED <<snapshot, unread>> /\ (crossed => crossed')
    BY <1>9 DEF Write
  <2>2. \E j : Goto(h, j) /\ j.pc = "record"
    BY <1>9 DEF Write
  <2>3. PICK j : Goto(h, j) /\ j.pc = "record"
    BY <2>2
  <2>4. MadeInv /\ Solo
    BY <1>a, <2>1
  <2>5. IsOps(ops)
    BY <1>0, <2>1, JobIs DEF TJobs
  <2> HIDE DEF ops
  <2>6. PICK f : /\ WriteRun(f, graph, RealOps(ops, ids), Len(ops))
                 /\ \A k \in 0..Len(ops) : DOMAIN f[k].elements = DOMAIN graph.elements \cup {ids[i] : i \in MadeBy(ops, k)}
    BY <1>0, <2>1, <2>5, WrittenSteps DEF TGraph
  <2>7. DOMAIN ids = {ops[k].id : k \in {k \in DOMAIN ops : ops[k].do = "create"}}
    BY <2>1, <2>5, RealIdsAre
  <2>8. Len(ops) \in Nat /\ DOMAIN ops = 1..Len(ops) /\ Len(ops) \in 0..Len(ops)
    <3>1. Len(ops) \in Nat /\ DOMAIN ops = 1..Len(ops)
      BY <2>5, LenProperties DEF IsOps
    <3> QED
      BY <3>1
  <2> HIDE DEF ids
  <2>9. graph' = f[Len(ops)]
    BY <2>1, <2>6 DEF Written, WriteFold, WriteRun
  <2>10. MadeBy(ops, Len(ops)) = DOMAIN ids
    BY <2>7, <2>8 DEF MadeBy
  <2>11. DOMAIN graph'.elements = DOMAIN graph.elements \cup Range(ids)
    <3>1. {ids[i] : i \in DOMAIN ids} = Range(ids)
      BY DEF Range
    <3>2. DOMAIN graph'.elements = DOMAIN graph.elements \cup {ids[i] : i \in DOMAIN ids}
      BY <2>6, <2>8, <2>9, <2>10
    <3> QED
      BY <3>1, <3>2
  <2>12. Made' \subseteq DOMAIN graph'.elements
    BY <2>1, <2>4, <2>11 DEF MadeInv, Made
  <2>13. MadeIn(j, snapshot', Made') /\ j # Idle
    BY <2>3 DEF MadeIn, Idle
  <2>14. \A g \in Handler : g # h => job[g] = Idle
    BY <2>1, <2>4, MadeBusy
  <2> QED
    BY <2>3, <2>12, <2>13, <2>14, MadeGoto
<1>10. ASSUME NEW h \in Handler, Record(h) \/ Answer(h) PROVE MadeInv'
  <2>1. /\ job[h].pc # "idle" /\ UNCHANGED <<used, graph, crossed, unread>>
        /\ \E j : Goto(h, j) /\ j.pc \in {"answer", "elements"}
    BY <1>10 DEF Record, Answer, model, ghosts
  <2>2. MadeInv /\ Solo /\ Made' = Made
    BY <1>a, <2>1 DEF Made
  <2>3. PICK j : Goto(h, j) /\ j.pc \in {"answer", "elements"}
    BY <2>1
  <2>4. MadeIn(j, snapshot', Made') /\ j # Idle
    BY <2>3 DEF MadeIn, Idle
  <2>5. \A g \in Handler : g # h => job[g] = Idle
    BY <2>1, <2>2, MadeBusy
  <2> QED
    BY <2>1, <2>2, <2>3, <2>4, <2>5, MadeGoto DEF MadeInv
<1>11. ASSUME NEW h \in Handler, Lose(h) PROVE MadeInv'
  <2>1. /\ job[h].pc # "idle" /\ Goto(h, Idle) /\ UNCHANGED <<used, graph, snapshot, crossed>>
        /\ unread' = (unread \/ ~(Made \subseteq DOMAIN snapshot.elements))
    BY <1>11 DEF Lose, model
  <2>2. MadeInv /\ Solo /\ Made' = Made /\ Made \subseteq DOMAIN snapshot.elements
    BY <1>a, <2>1 DEF Made, Heard
  <2>3. MadeIn(Idle, snapshot', Made')
    BY DEF MadeIn, Idle
  <2>4. \A g \in Handler : g # h => job[g] = Idle
    BY <2>1, <2>2, MadeBusy
  <2> QED
    BY <2>1, <2>2, <2>3, <2>4, MadeGoto DEF MadeInv
<1>12. ASSUME NEW h \in Handler, ReadElements(h) PROVE MadeInv'
  <2>1. /\ job[h].pc = "elements" /\ UNCHANGED <<used, graph, snapshot, crossed>>
        /\ \/ Goto(h, [pc |-> "contains", elements |-> graph.elements]) /\ UNCHANGED unread
           \/ Goto(h, [pc |-> "contains", elements |-> << >>]) /\ unread' = (unread \/ Made # {})
    BY <1>12 DEF ReadElements, model
  <2>2. MadeInv /\ Solo /\ Made' = Made
    BY <1>a, <2>1 DEF Made
  <2>3. \E els : Goto(h, [pc |-> "contains", elements |-> els]) /\ Made \subseteq DOMAIN els
    BY <2>1, <2>2 DEF MadeInv, Heard
  <2>4. PICK els : Goto(h, [pc |-> "contains", elements |-> els]) /\ Made \subseteq DOMAIN els
    BY <2>3
  <2> DEFINE j == [pc |-> "contains", elements |-> els]
  <2>5. j.pc = "contains" /\ j.elements = els /\ j # Idle /\ Goto(h, j)
    BY <2>4 DEF Idle
  <2> HIDE DEF j
  <2>6. MadeIn(j, snapshot', Made')
    BY <2>2, <2>4, <2>5 DEF MadeIn
  <2>7. \A g \in Handler : g # h => job[g] = Idle
    BY <2>1, <2>2, MadeBusy
  <2> QED
    BY <2>1, <2>2, <2>5, <2>6, <2>7, MadeGoto DEF MadeInv
<1>13. ASSUME NEW h \in Handler, ReadContains(h) PROVE MadeInv'
  <2>1. /\ job[h].pc = "contains" /\ UNCHANGED <<used, graph, snapshot, crossed, unread>>
        /\ \E E : Goto(h, [pc |-> "install", elements |-> job[h].elements, edges |-> E])
    BY <1>13 DEF ReadContains, model
  <2>2. MadeInv /\ Solo /\ Made' = Made
    BY <1>a, <2>1 DEF Made
  <2>3. PICK E : Goto(h, [pc |-> "install", elements |-> job[h].elements, edges |-> E])
    BY <2>1
  <2> DEFINE j == [pc |-> "install", elements |-> job[h].elements, edges |-> E]
  <2>4. j.pc = "install" /\ j.elements = job[h].elements /\ j # Idle /\ Goto(h, j)
    BY <2>3 DEF Idle
  <2> HIDE DEF j
  <2>5. (\A g \in Handler : g # h => job[g] = Idle) /\ Made \subseteq DOMAIN job[h].elements
    BY <2>1, <2>2, MadeBusy DEF MadeIn
  <2>6. MadeIn(j, snapshot', Made')
    BY <2>2, <2>4, <2>5 DEF MadeIn
  <2> QED
    BY <2>1, <2>2, <2>4, <2>5, <2>6, MadeGoto DEF MadeInv
<1>14. ASSUME NEW h \in Handler, Install(h) PROVE MadeInv'
  <2> DEFINE s == [Empty EXCEPT !.elements = job[h].elements, !.edges = job[h].edges]
  <2>1. /\ job[h].pc = "install" /\ Goto(h, Idle) /\ snapshot' = s
        /\ UNCHANGED <<used, graph, crossed, unread>>
    BY <1>14 DEF Install, model
  <2>2. MadeInv /\ Solo /\ Made' = Made
    BY <1>a, <2>1 DEF Made
  <2>3. s.elements = job[h].elements
    BY InstallIs DEF Read
  <2> HIDE DEF s
  <2>4. (\A g \in Handler : g # h => job[g] = Idle) /\ Made \subseteq DOMAIN job[h].elements
    BY <2>1, <2>2, MadeBusy DEF MadeIn
  <2>5. MadeIn(Idle, snapshot', Made') /\ Made' \subseteq DOMAIN snapshot'.elements
    BY <2>1, <2>2, <2>3, <2>4 DEF MadeIn, Idle
  <2> QED
    BY <2>1, <2>2, <2>4, <2>5, MadeGoto DEF MadeInv
<1> QED
  <2>1. Next \/ UNCHANGED vars
    OBVIOUS
  <2>2. CASE Next
    BY <1>2, <1>3, <1>4, <1>5, <1>6, <1>7, <1>8, <1>9, <1>10, <1>11, <1>12, <1>13, <1>14, <2>2
       DEF Next, Handle
  <2> QED
    BY <1>1, <2>1, <2>2

(* At first texts have made nothing. *)
LEMMA MadeInit == Init => MadeInv
<1> SUFFICES ASSUME Init PROVE MadeInv
  OBVIOUS
<1>1. Made = {}
  BY DEF Init, Made
<1> QED
  BY <1>1 DEF MadeInv, MadeIn

-----------------------------------------------------------------------------

(* A print has only the model's elements. *)
LEMMA PrintCount ==
    ASSUME NEW s, IsModel(s), DOMAIN s.elements \subseteq used, used \subseteq Id, inserted \in Nat,
           Cardinality(used \ Old) <= inserted
    PROVE  LET p == PrintTree(s)
           IN  p \in Seq(LineRec) /\ Cardinality(Anchors(p) \ Old) <= inserted /\ NewIn(p) = {}
<1> DEFINE p == PrintTree(s)
<1>1. p \in Seq(LineRec) /\ \A n \in DOMAIN p : p[n].anchor \in DOMAIN s.elements
  BY PrintIs DEF Nested
<1> HIDE DEF p
<1>2. Anchors(p) \subseteq used
  BY <1>1 DEF Anchors
<1>3. NewIn(p) = {}
  BY <1>1, IdAssumption DEF NewIn
<1>4. IsFiniteSet(used \ Old)
  <2>1. (used \ Old) \in SUBSET Id /\ IsFiniteSet(Id)
    BY IdAssumption
  <2> QED
    BY <2>1, FS_Subset
<1>5. (Anchors(p) \ Old) \subseteq (used \ Old)
  BY <1>2
<1> DEFINE S == Anchors(p) \ Old
           T == used \ Old
<1> HIDE DEF S, T
<1>6. Cardinality(S) <= Cardinality(T) /\ Cardinality(S) \in Nat /\ Cardinality(T) \in Nat
  BY <1>4, <1>5, Within DEF S, T
<1>7. Cardinality(S) <= inserted
  BY <1>6 DEF T
<1> QED
  BY <1>1, <1>3, <1>7 DEF S, p

(* What is pushed to the editor, and after what is under way. *)
LEMMA PushIs ==
    ASSUME TEditor
    PROVE  /\ \A p \in Seq(LineRec) : \A n \in DOMAIN Append(toEditor, p) :
                 (n \in DOMAIN toEditor /\ Append(toEditor, p)[n] = toEditor[n]) \/ Append(toEditor, p)[n] = p
           /\ toEditor # << >> =>
                 /\ 1 \in DOMAIN toEditor /\ Head(toEditor) = toEditor[1]
                 /\ \A n \in DOMAIN Tail(toEditor) : n + 1 \in DOMAIN toEditor /\ Tail(toEditor)[n] = toEditor[n + 1]
<1>0. toEditor \in Seq(Seq(LineRec)) /\ Len(toEditor) \in Nat /\ DOMAIN toEditor = 1..Len(toEditor)
  BY LenProperties DEF TEditor
<1>1. ASSUME NEW p \in Seq(LineRec), NEW n \in DOMAIN Append(toEditor, p)
      PROVE  (n \in DOMAIN toEditor /\ Append(toEditor, p)[n] = toEditor[n]) \/ Append(toEditor, p)[n] = p
  <2>1. /\ Append(toEditor, p) \in Seq(Seq(LineRec)) /\ Len(Append(toEditor, p)) = Len(toEditor) + 1
        /\ \A i \in 1..Len(toEditor) : Append(toEditor, p)[i] = toEditor[i]
        /\ Append(toEditor, p)[Len(toEditor) + 1] = p
    BY <1>0, AppendProperties
  <2>2. DOMAIN Append(toEditor, p) = 1..(Len(toEditor) + 1)
    BY <2>1, LenProperties
  <2>3. n \in 1..Len(toEditor) \/ n = Len(toEditor) + 1
    BY <1>0, <2>2
  <2> QED
    BY <1>0, <2>1, <2>3
<1>2. ASSUME toEditor # << >>
      PROVE  /\ 1 \in DOMAIN toEditor /\ Head(toEditor) = toEditor[1]
             /\ \A n \in DOMAIN Tail(toEditor) : n + 1 \in DOMAIN toEditor /\ Tail(toEditor)[n] = toEditor[n + 1]
  <2>1. Len(toEditor) # 0
    BY <1>0, <1>2, EmptySeq
  <2>2. Tail(toEditor) \in Seq(Seq(LineRec)) /\ Len(Tail(toEditor)) = Len(toEditor) - 1
        /\ \A n \in 1..Len(Tail(toEditor)) : Tail(toEditor)[n] = toEditor[n + 1]
        /\ Head(toEditor) = toEditor[1]
    BY <1>0, <1>2, HeadTailProperties
  <2>3. DOMAIN Tail(toEditor) = 1..(Len(toEditor) - 1)
    BY <2>2, LenProperties
  <2> QED
    BY <1>0, <2>1, <2>2, <2>3
<1> QED
  BY <1>1, <1>2

(* A handler goes to its next step, and nothing is new. *)
LEMMA CountGoto ==
    ASSUME TypeOK, CountInv, NEW h \in Handler, NEW j, Goto(h, j), Costs(j, used, inserted),
           UNCHANGED <<used, inserted, text, base>>,
           toServer' = toServer \/ (toServer # << >> /\ toServer' = Tail(toServer)),
           \A n \in DOMAIN toEditor' : /\ Cardinality(Anchors(toEditor'[n]) \ Old) <= inserted
                                       /\ NewIn(toEditor'[n]) = {}
    PROVE  CountInv'
<1>1. \A g \in Handler : job'[g] = IF g = h THEN j ELSE job[g]
  BY DEF Goto, TypeOK, TJobs
<1>2. \A g \in Handler : Costs(job'[g], used', inserted')
  BY <1>1 DEF CountInv
<1>3. ASSUME NEW n \in DOMAIN toServer', toServer'[n].what = "text", toServer'[n].text # Unparsable
      PROVE  Count(toServer'[n].text, toServer'[n].base) <= inserted
  <2>1. CASE toServer' = toServer
    BY <1>3, <2>1 DEF CountInv
  <2>2. CASE toServer # << >> /\ toServer' = Tail(toServer)
    <3>1. n + 1 \in DOMAIN toServer /\ toServer'[n] = toServer[n + 1]
      BY <2>2, HeadIs DEF TypeOK
    <3> QED
      BY <1>3, <3>1 DEF CountInv
  <2> QED
    BY <2>1, <2>2
<1> QED
  BY <1>2, <1>3 DEF CountInv

(* An edit that is written makes an element for each of its new lines, and   *)
(* the next text counts those lines no more: its print has their elements.   *)
LEMMA CountNext ==
    TypeOK /\ AnchorInv /\ (~crossed => Solo) /\ KnownInv /\ (Heard => MadeInv /\ CountInv) /\ [Next]_vars
    => (Heard => CountInv)'
<1> SUFFICES ASSUME TypeOK, AnchorInv, ~crossed => Solo, KnownInv, Heard => MadeInv /\ CountInv,
                    [Next]_vars, Heard'
             PROVE  CountInv'
  OBVIOUS
<1>0. TServer /\ TJobs /\ TText /\ TGraph /\ TCanvas /\ TSnap /\ TEditor /\ TCounts /\ inserted \in Nat
  BY DEF TypeOK, TCounts
<1>a. ASSUME crossed => crossed', unread => unread' PROVE Solo /\ MadeInv /\ CountInv
  BY <1>a DEF Heard
<1>b. ASSUME UNCHANGED <<used, inserted, text, base, toServer, toEditor, job>>, CountInv PROVE CountInv'
  BY <1>b DEF CountInv
<1>c. /\ IsFiniteSet(used \ Old) /\ Cardinality(used \ Old) \in Nat /\ used \subseteq Id
  <2>1. (used \ Old) \in SUBSET Id /\ IsFiniteSet(Id)
    BY <1>0, IdAssumption DEF TGraph
  <2>2. IsFiniteSet(used \ Old)
    BY <2>1, FS_Subset
  <2> QED
    BY <1>0, <2>2, FS_CardinalityType DEF TGraph
<1>d. \A p : Costs([pc |-> p], used, inserted) \/ p \in {"check", "write"}
  BY DEF Costs
<1>1. CASE UNCHANGED vars
  BY <1>1, <1>a, <1>b DEF vars, editor, model, counts, ghosts
<1>2. CASE Typing
  <2>1. UNCHANGED <<used, base, toServer, toEditor, job, crossed, unread>>
    BY <1>2 DEF Typing, Retitle, Rekind, Indent, Cut, Copy, Spoil, Insert, Type, model, ghosts
  <2>2. CountInv
    BY <1>a, <2>1
  <2>3. text \in Seq(LineRec) /\ text' \in Texts /\ base \in Seq(LineRec) /\ text # Unparsable
    <3>1. text # Unparsable
      BY <1>2 DEF Typing, Retitle, Rekind, Indent, Cut, Copy, Spoil, Insert, Type
    <3> QED
      BY <1>0, <1>2, <3>1, EditType DEF TText
  <2>4. (text' = Unparsable /\ inserted' = inserted) \/ Edited(text, text', inserted, inserted')
    BY <1>0, <1>2, EditIs
  <2>5. inserted' \in Nat /\ inserted <= inserted'
        /\ (text' # Unparsable => Count(text', base) <= inserted')
    <3>1. CASE text' = Unparsable /\ inserted' = inserted
      BY <1>0, <3>1
    <3>2. CASE text' # Unparsable
      <4>1. text' \in Seq(LineRec) /\ Edited(text, text', inserted, inserted')
        BY <2>3, <2>4, <3>2 DEF Texts
      <4>2. Cardinality(NewIn(text')) - inserted' <= Cardinality(NewIn(text)) - inserted
            /\ inserted' \in {inserted, inserted + 1}
        BY <1>0, <2>3, <4>1, EditCount
      <4>3. Cardinality(NewIn(text)) \in Nat /\ Cardinality(NewIn(text')) \in Nat
            /\ Cardinality(Anchors(base) \ Old) \in Nat
        BY <2>3, <4>1, CountIs
      <4>4. Cardinality(Anchors(base) \ Old) + Cardinality(NewIn(text)) <= inserted
        BY <2>2, <2>3 DEF CountInv, Count
      <4>5. Cardinality(Anchors(base) \ Old) + Cardinality(NewIn(text')) <= inserted'
        BY <1>0, <4>2, <4>3, <4>4
      <4> QED
        BY <1>0, <4>2, <4>5 DEF Count
    <3>3. CASE text' = Unparsable /\ inserted' # inserted
      <4>1. inserted' \in {inserted, inserted + 1}
        BY <2>4, <3>3 DEF Edited
      <4> QED
        BY <1>0, <3>3, <4>1
    <3> QED
      BY <3>1, <3>2, <3>3
  <2>6. ASSUME NEW x \in Nat, x <= inserted PROVE x <= inserted'
    BY <1>0, <2>5, <2>6
  <2>7. Cardinality(used' \ Old) <= inserted'
    BY <1>c, <2>1, <2>2, <2>6 DEF CountInv
  <2>8. ASSUME NEW n \in DOMAIN toServer', toServer'[n].what = "text", toServer'[n].text # Unparsable
        PROVE  Count(toServer'[n].text, toServer'[n].base) <= inserted'
    <3>1. toServer[n] \in Message
      BY <1>0, <2>1, LenProperties, ElementOfSeq DEF TServer
    <3>2. toServer[n].text \in Seq(LineRec) /\ toServer[n].base \in Seq(LineRec)
      <4>1. toServer[n].what = "text" /\ toServer[n].text # Unparsable
        BY <2>1, <2>8
      <4> QED
        BY <3>1, <4>1 DEF Message, Texts
    <3>3. Count(toServer[n].text, toServer[n].base) \in Nat
      BY <3>2, CountIs
    <3>4. Count(toServer[n].text, toServer[n].base) <= inserted
      BY <2>1, <2>2, <2>8 DEF CountInv
    <3> QED
      BY <2>1, <2>6, <3>3, <3>4
  <2>9. ASSUME NEW n \in DOMAIN toEditor'
        PROVE  Cardinality(Anchors(toEditor'[n]) \ Old) <= inserted' /\ NewIn(toEditor'[n]) = {}
    <3>1. toEditor[n] \in Seq(LineRec)
      BY <1>0, <2>1, LenProperties, ElementOfSeq DEF TEditor
    <3>2. Cardinality(Anchors(toEditor[n]) \ Old) \in Nat
      BY <3>1, CountIs
    <3> QED
      BY <2>1, <2>2, <2>6, <3>2 DEF CountInv
  <2>10. ASSUME NEW h \in Handler PROVE Costs(job'[h], used', inserted')
    <3>1. Costs(job[h], used, inserted) /\ JobOK(job[h])
      BY <1>0, <2>2 DEF CountInv, TJobs
    <3>2. ASSUME job[h].pc = "check" PROVE Count(job[h].text, job[h].base) <= inserted'
      <4>1. Count(job[h].text, job[h].base) \in Nat
        BY <3>1, <3>2, JobIs, CountIs
      <4> QED
        BY <2>6, <3>1, <3>2, <4>1 DEF Costs
    <3>3. ASSUME job[h].pc = "write" PROVE Cardinality(used \ Old) + Cardinality(Creates(job[h].ops)) <= inserted'
      <4> DEFINE ops == job[h].ops
      <4>1. ops \in Seq(OpSet)
        BY <3>1, <3>3, JobIs DEF IsOps
      <4> HIDE DEF ops
      <4>2. Creates(ops) \in SUBSET (1..Len(ops)) /\ Len(ops) \in Nat
        BY <4>1, LenProperties DEF Creates
      <4>3. IsFiniteSet(1..Len(ops))
        BY <4>2, FS_Interval
      <4>4. Cardinality(Creates(ops)) \in Nat
        BY <4>2, <4>3, FS_Subset, FS_CardinalityType
      <4>5. Cardinality(used \ Old) + Cardinality(Creates(ops)) <= inserted
        BY <3>1, <3>3 DEF Costs, ops
      <4>6. Cardinality(used \ Old) + Cardinality(Creates(ops)) \in Nat
        BY <1>c, <4>4
      <4> QED
        BY <2>6, <4>5, <4>6 DEF ops
    <3> QED
      BY <2>1, <3>2, <3>3 DEF Costs
  <2> QED
    BY <2>1, <2>5, <2>7, <2>8, <2>9, <2>10 DEF CountInv
<1>3. CASE Send
  <2> DEFINE m == [what |-> "text", text |-> text, base |-> base]
  <2>1. toServer' = Append(toServer, m) /\ UNCHANGED <<used, inserted, text, base, toEditor, job, crossed, unread>>
    BY <1>3 DEF Send, model, counts, ghosts
  <2>2. m \in Message /\ m.text = text /\ m.base = base
    BY <1>0 DEF TText, Message
  <2> HIDE DEF m
  <2>3. /\ DOMAIN toServer' = 1..(Len(toServer) + 1) /\ DOMAIN toServer = 1..Len(toServer) /\ Len(toServer) \in Nat
        /\ \A n \in DOMAIN toServer : toServer'[n] = toServer[n]
        /\ toServer'[Len(toServer) + 1] = m
    BY <1>0, <2>1, <2>2, AppendIs
  <2>4. CountInv
    BY <1>a, <2>1
  <2>5. ASSUME NEW n \in DOMAIN toServer', toServer'[n].what = "text", toServer'[n].text # Unparsable
        PROVE  Count(toServer'[n].text, toServer'[n].base) <= inserted
    <3>1. n \in DOMAIN toServer \/ n = Len(toServer) + 1
      BY <2>3
    <3> QED
      BY <2>2, <2>3, <2>4, <2>5, <3>1 DEF CountInv
  <2> QED
    BY <2>1, <2>4, <2>5 DEF CountInv
<1>4. CASE Pushed
  <2>1. /\ toEditor # << >> /\ text' = Head(toEditor) /\ base' = Head(toEditor) /\ toEditor' = Tail(toEditor)
        /\ UNCHANGED <<used, inserted, toServer, job, crossed, unread>>
    BY <1>4 DEF Pushed, model, counts, ghosts
  <2>2. CountInv
    BY <1>a, <2>1
  <2>3. /\ 1 \in DOMAIN toEditor /\ Head(toEditor) = toEditor[1]
        /\ \A n \in DOMAIN Tail(toEditor) : n + 1 \in DOMAIN toEditor /\ Tail(toEditor)[n] = toEditor[n + 1]
    BY <1>0, <2>1, PushIs
  <2>4. toEditor[1] \in Seq(LineRec)
    BY <1>0, <2>3, LenProperties, ElementOfSeq DEF TEditor
  <2>5. Cardinality(Anchors(text') \ Old) \in Nat /\ Cardinality(Anchors(text') \ Old) <= inserted /\ NewIn(text') = {}
    BY <2>1, <2>2, <2>3, <2>4, CountIs DEF CountInv
  <2>6. Cardinality(NewIn(text')) = 0
    BY <2>5, FS_EmptySet
  <2>7. Count(text', base') <= inserted
    BY <1>0, <2>1, <2>5, <2>6 DEF Count
  <2>8. ASSUME NEW n \in DOMAIN toEditor'
        PROVE  Cardinality(Anchors(toEditor'[n]) \ Old) <= inserted /\ NewIn(toEditor'[n]) = {}
    BY <2>1, <2>2, <2>3 DEF CountInv
  <2> QED
    BY <2>1, <2>2, <2>7, <2>8 DEF CountInv
<1>5. ASSUME NEW h \in Handler, HandleText(h) PROVE CountInv'
  <2> DEFINE m == Head(toServer)
             bad == m.text = Unparsable \/ HasErrors(snapshot, m.text)
             ops == IF bad THEN << >> ELSE DiffOps(snapshot, m.text)
  <2>1. /\ toServer # << >> /\ m.what = "text" /\ toServer' = Tail(toServer)
        /\ \/ UNCHANGED job
           \/ ops # << >> /\ Goto(h, [pc |-> "check", ops |-> ops, text |-> m.text, base |-> m.base, read |-> snapshot])
        /\ UNCHANGED <<used, inserted, text, base, toEditor, unread>> /\ (crossed => crossed')
    BY <1>5 DEF HandleText, model, counts
  <2>2. CountInv
    BY <1>a, <2>1
  <2>3. CASE UNCHANGED job
    <3>1. ASSUME NEW n \in DOMAIN toServer', toServer'[n].what = "text", toServer'[n].text # Unparsable
          PROVE  Count(toServer'[n].text, toServer'[n].base) <= inserted
      <4>1. n + 1 \in DOMAIN toServer /\ toServer'[n] = toServer[n + 1]
        BY <1>0, <2>1, HeadIs
      <4> QED
        BY <2>2, <3>1, <4>1 DEF CountInv
    <3> QED
      BY <2>1, <2>2, <2>3, <3>1 DEF CountInv
  <2>4. ops # << >> => Count(m.text, m.base) <= inserted
    <3>1. ops # << >> => m.text # Unparsable
      OBVIOUS
    <3>2. m = toServer[1] /\ 1 \in DOMAIN toServer
      BY <1>0, <2>1, HeadIs
    <3> HIDE DEF ops, bad
    <3> QED
      BY <2>1, <2>2, <3>1, <3>2 DEF CountInv
  <2> HIDE DEF ops, bad, m
  <2>5. CASE ops # << >> /\ Goto(h, [pc |-> "check", ops |-> ops, text |-> m.text, base |-> m.base, read |-> snapshot])
    <3> DEFINE j == [pc |-> "check", ops |-> ops, text |-> m.text, base |-> m.base, read |-> snapshot]
    <3>1. j.pc = "check" /\ j.text = m.text /\ j.base = m.base /\ Goto(h, j)
      BY <2>5
    <3> HIDE DEF j
    <3>2. Costs(j, used, inserted)
      BY <2>4, <2>5, <3>1 DEF Costs
    <3>3. \A n \in DOMAIN toEditor' : /\ Cardinality(Anchors(toEditor'[n]) \ Old) <= inserted
                                      /\ NewIn(toEditor'[n]) = {}
      BY <2>1, <2>2 DEF CountInv
    <3> QED
      BY <2>1, <2>2, <3>1, <3>2, <3>3, CountGoto
  <2> QED
    BY <2>1, <2>3, <2>5
<1>6. ASSUME NEW h \in Handler, HandleRenamed(h) PROVE CountInv'
  <2> DEFINE s == SetName(snapshot, Head(toServer).id, Head(toServer).name)
             p == PrintTree(s)
  <2>1. /\ toServer # << >> /\ Head(toServer).what = "renamed" /\ toServer' = Tail(toServer)
        /\ toEditor' = (IF open THEN Append(toEditor, p) ELSE toEditor)
        /\ crossed' = (crossed \/ Busy # {})
        /\ UNCHANGED <<used, inserted, text, base, job, unread>>
    BY <1>6 DEF HandleRenamed, editor, model, counts
  <2>2. CountInv
    BY <1>a, <2>1
  <2>3. DOMAIN snapshot.elements \subseteq used
    BY DEF KnownInv
  <2>4. IsModel(s) /\ DOMAIN s.elements \subseteq used
    BY <1>0, <2>1, <2>3, MessageIs, SetNameWhole DEF TSnap
  <2> HIDE DEF s
  <2>5. p \in Seq(LineRec) /\ Cardinality(Anchors(p) \ Old) <= inserted /\ NewIn(p) = {}
    BY <1>0, <1>c, <2>2, <2>4, PrintCount DEF CountInv
  <2> HIDE DEF p
  <2>6. ASSUME NEW n \in DOMAIN toEditor'
        PROVE  Cardinality(Anchors(toEditor'[n]) \ Old) <= inserted /\ NewIn(toEditor'[n]) = {}
    <3>1. (n \in DOMAIN toEditor /\ toEditor'[n] = toEditor[n]) \/ toEditor'[n] = p
      BY <1>0, <2>1, <2>5, PushIs
    <3> QED
      BY <2>2, <2>5, <3>1 DEF CountInv
  <2>7. ASSUME NEW n \in DOMAIN toServer', toServer'[n].what = "text", toServer'[n].text # Unparsable
        PROVE  Count(toServer'[n].text, toServer'[n].base) <= inserted
    <3>1. n + 1 \in DOMAIN toServer /\ toServer'[n] = toServer[n + 1]
      BY <1>0, <2>1, HeadIs
    <3> QED
      BY <2>2, <2>7, <3>1 DEF CountInv
  <2> QED
    BY <2>1, <2>2, <2>6, <2>7 DEF CountInv
<1>7. ASSUME NEW h \in Handler, Check(h) PROVE CountInv'
  <2>1. /\ job[h].pc = "check"
        /\ UNCHANGED <<used, inserted, text, base, toServer, toEditor, crossed, unread>>
        /\ \/ Goto(h, [pc |-> "write", ops |-> job[h].ops, seen |-> graph])
           \/ Goto(h, Idle)
    BY <1>7 DEF Check, model, counts, ghosts
  <2>2. Solo /\ MadeInv /\ CountInv
    BY <1>a, <2>1
  <2>3. \A n \in DOMAIN toEditor' : /\ Cardinality(Anchors(toEditor'[n]) \ Old) <= inserted
                                    /\ NewIn(toEditor'[n]) = {}
    BY <2>1, <2>2 DEF CountInv
  <2>4. CASE Goto(h, Idle)
    <3>1. Costs(Idle, used, inserted)
      BY DEF Costs, Idle
    <3> QED
      BY <2>1, <2>2, <2>3, <2>4, <3>1, CountGoto
  <2>5. CASE Goto(h, [pc |-> "write", ops |-> job[h].ops, seen |-> graph])
    <3> DEFINE t == job[h].text
               b == job[h].base
               s == job[h].read
               j == [pc |-> "write", ops |-> job[h].ops, seen |-> graph]
    <3>1. /\ job[h].ops = DiffOps(s, t) /\ ~HasErrors(s, t) /\ t \in Seq(LineRec) /\ b \in Seq(LineRec)
      BY <1>0, <2>1, JobIs DEF TJobs
    <3>2. Anchors(t) \subseteq Anchors(b)
      BY <2>1 DEF AnchorInv
    <3>3. (used \ Old) \subseteq DOMAIN s.elements
      BY <2>1, <2>2, MadeBusy DEF MadeIn, Made, Old
    <3>4. Count(t, b) <= inserted
      BY <2>1, <2>2 DEF CountInv, Costs
    <3>5. j.pc = "write" /\ j.ops = job[h].ops /\ Goto(h, j)
      BY <2>5
    <3> HIDE DEF t, b, s, j
    <3>6. (used \ Old) \subseteq Anchors(b)
      BY <3>1, <3>2, <3>3 DEF HasErrors
    <3>7. IsFiniteSet(Anchors(b) \ Old) /\ Cardinality(NewIn(t)) \in Nat /\ Cardinality(Anchors(b) \ Old) \in Nat
      BY <3>1, CountIs
    <3>8. Cardinality(used \ Old) <= Cardinality(Anchors(b) \ Old)
      <4>1. (used \ Old) \subseteq (Anchors(b) \ Old)
        BY <3>6
      <4> QED
        BY <3>7, <4>1, Within
    <3>9. Cardinality(Creates(j.ops)) <= Cardinality(NewIn(t)) /\ Cardinality(Creates(j.ops)) \in Nat
      BY <3>1, <3>5, CreatesAre
    <3>10. Cardinality(Anchors(b) \ Old) + Cardinality(NewIn(t)) <= inserted
      BY <3>4 DEF Count
    <3>11. Cardinality(used \ Old) + Cardinality(Creates(j.ops)) <= inserted
      BY <1>0, <1>c, <3>7, <3>8, <3>9, <3>10
    <3>12. Costs(j, used, inserted)
      BY <3>5, <3>11 DEF Costs
    <3> QED
      BY <2>1, <2>2, <2>3, <3>5, <3>12, CountGoto
  <2> QED
    BY <2>1, <2>4, <2>5
<1>8. ASSUME NEW h \in Handler, Write(h) PROVE CountInv'
  <2> DEFINE ops == job[h].ops
             ids == RealIds(ops)
             j == [pc |-> "record", ops |-> RealOps(ops, ids)]
  <2>1. /\ job[h].pc = "write" /\ Len(Created(ops)) <= Len(Unused)
        /\ used' = used \cup Range(ids) /\ Goto(h, j) /\ (crossed => crossed')
        /\ UNCHANGED <<inserted, text, base, toServer, toEditor, unread>>
    BY <1>8 DEF Write, editor, counts
  <2>2. Solo /\ MadeInv /\ CountInv
    BY <1>a, <2>1
  <2>3. IsOps(ops)
    BY <1>0, <2>1, JobIs DEF TJobs
  <2>4. Cardinality(used \ Old) + Cardinality(Creates(ops)) <= inserted
    BY <2>1, <2>2 DEF CountInv, Costs
  <2> HIDE DEF ops
  <2>5. IsFiniteSet(Creates(ops)) /\ Cardinality(Creates(ops)) \in Nat
    <3>1. Creates(ops) \in SUBSET (1..Len(ops)) /\ Len(ops) \in Nat
      BY <2>3, LenProperties DEF Creates, IsOps
    <3>2. IsFiniteSet(1..Len(ops))
      BY <3>1, FS_Interval
    <3> QED
      BY <3>1, <3>2, FS_Subset, FS_CardinalityType
  <2>6. IsFiniteSet(Range(ids)) /\ Cardinality(Range(ids)) <= Cardinality(Creates(ops))
    BY <2>1, <2>3, <2>5, IdsGiven
  <2>7. j.pc = "record"
    OBVIOUS
  <2> HIDE DEF ids, j
  <2>8. Cardinality(used' \ Old) <= inserted
    <3> DEFINE S == used \ Old
               T == Range(ids)
    <3>1. IsFiniteSet(S) /\ IsFiniteSet(T) /\ Cardinality(S) \in Nat
      BY <1>c, <2>6
    <3>2. (used' \ Old) \subseteq S \cup T
      BY <2>1
    <3> HIDE DEF S, T
    <3>3. /\ IsFiniteSet(S \cup T) /\ Cardinality(S \cup T) = Cardinality(S) + Cardinality(T) - Cardinality(S \cap T)
      BY <3>1, FS_Union
    <3>4. IsFiniteSet(S \cap T) /\ Cardinality(S \cap T) \in Nat
      BY <3>1, Within
    <3>5. Cardinality(T) \in Nat
      BY <3>1, FS_CardinalityType
    <3>6. Cardinality(used' \ Old) <= Cardinality(S \cup T) /\ Cardinality(used' \ Old) \in Nat
      BY <3>2, <3>3, Within
    <3>7. Cardinality(T) <= Cardinality(Creates(ops)) /\ Cardinality(S) + Cardinality(Creates(ops)) <= inserted
      BY <2>4, <2>6 DEF S, T
    <3> QED
      BY <1>0, <2>5, <3>1, <3>3, <3>4, <3>5, <3>6, <3>7
  <2>9. \A g \in Handler : job'[g] = IF g = h THEN j ELSE Idle
    <3>1. \A g \in Handler : g # h => job[g] = Idle
      BY <2>1, <2>2, MadeBusy
    <3> QED
      BY <1>0, <2>1, <3>1 DEF Goto, TJobs
  <2>10. \A g \in Handler : Costs(job'[g], used', inserted')
    BY <2>7, <2>9 DEF Costs, Idle
  <2> QED
    BY <2>1, <2>2, <2>8, <2>10 DEF CountInv
<1>9. ASSUME NEW h \in Handler, Record(h) \/ Answer(h) \/ Lose(h) \/ ReadElements(h) \/ ReadContains(h) PROVE CountInv'
  <2>1. PICK j : Goto(h, j) /\ j.pc \in {"answer", "elements", "contains", "install", "idle"}
    <3>1. CASE Record(h)
      BY <3>1 DEF Record
    <3>2. CASE Answer(h)
      BY <3>2 DEF Answer
    <3>3. CASE Lose(h)
      BY <3>3 DEF Lose, Idle
    <3>4. CASE ReadElements(h)
      BY <3>4 DEF ReadElements
    <3>5. CASE ReadContains(h)
      BY <3>5 DEF ReadContains
    <3> QED
      BY <1>9, <3>1, <3>2, <3>3, <3>4, <3>5
  <2>2. UNCHANGED <<used, inserted, text, base, toServer, toEditor, crossed>> /\ (unread => unread')
    <3>1. CASE Record(h) \/ Answer(h)
      BY <3>1 DEF Record, Answer, editor, model, counts, ghosts
    <3>2. CASE Lose(h)
      BY <3>2 DEF Lose, model
    <3>3. CASE ReadElements(h)
      <4>1. UNCHANGED <<used, inserted, text, base, toServer, toEditor, crossed>>
        BY <3>3 DEF ReadElements, editor, model
      <4>2. unread => unread'
        BY <3>3 DEF ReadElements
      <4> QED
        BY <4>1, <4>2
    <3>4. CASE ReadContains(h)
      BY <3>4 DEF ReadContains, editor, model
    <3> QED
      BY <1>9, <3>1, <3>2, <3>3, <3>4
  <2>3. Costs(j, used, inserted)
    BY <2>1 DEF Costs
  <2>4. CountInv
    BY <1>a, <2>2
  <2>5. \A n \in DOMAIN toEditor' : /\ Cardinality(Anchors(toEditor'[n]) \ Old) <= inserted
                                    /\ NewIn(toEditor'[n]) = {}
    BY <2>2, <2>4 DEF CountInv
  <2> QED
    BY <2>1, <2>2, <2>3, <2>4, <2>5, CountGoto
<1>10. ASSUME NEW h \in Handler, Install(h) PROVE CountInv'
  <2> DEFINE s == [Empty EXCEPT !.elements = job[h].elements, !.edges = job[h].edges]
             p == PrintTree(s)
  <2>1. /\ job[h].pc = "install" /\ toEditor' = Append(toEditor, p) /\ Goto(h, Idle)
        /\ UNCHANGED <<used, inserted, text, base, toServer, crossed, unread>>
    BY <1>10 DEF Install, editor, model, counts, ghosts
  <2>2. CountInv
    BY <1>a, <2>1
  <2>3. s = Read(job[h].elements, job[h].edges)
    BY InstallIs
  <2>4. IsModel(s) /\ DOMAIN s.elements \subseteq used
    <3>1. IsModel(s)
      BY <1>0, <2>1, <2>3, JobIs DEF TJobs
    <3> HIDE DEF s
    <3>2. s.elements = job[h].elements
      BY <2>3 DEF Read
    <3> QED
      BY <2>1, <3>1, <3>2 DEF KnownInv
  <2> HIDE DEF s
  <2>5. p \in Seq(LineRec) /\ Cardinality(Anchors(p) \ Old) <= inserted /\ NewIn(p) = {}
    BY <1>0, <1>c, <2>2, <2>4, PrintCount DEF CountInv
  <2> HIDE DEF p
  <2>6. ASSUME NEW n \in DOMAIN toEditor'
        PROVE  Cardinality(Anchors(toEditor'[n]) \ Old) <= inserted /\ NewIn(toEditor'[n]) = {}
    <3>1. (n \in DOMAIN toEditor /\ toEditor'[n] = toEditor[n]) \/ toEditor'[n] = p
      BY <1>0, <2>1, <2>5, PushIs
    <3> QED
      BY <2>2, <2>5, <3>1 DEF CountInv
  <2>7. Costs(Idle, used, inserted)
    BY DEF Costs, Idle
  <2> QED
    BY <2>1, <2>2, <2>6, <2>7, CountGoto
<1>11. CASE CanvasWrite \/ CanvasRecord \/ CanvasFails
  <2>1. UNCHANGED <<used, inserted, text, base, toServer, toEditor, job, crossed, unread>>
    <3>1. CASE CanvasWrite
      BY <3>1 DEF CanvasWrite, editor
    <3>2. CASE CanvasRecord
      BY <3>2 DEF CanvasRecord, editor, counts, ghosts
    <3>3. CASE CanvasFails
      BY <3>3 DEF CanvasFails, editor, model
    <3> QED
      BY <1>11, <3>1, <3>2, <3>3
  <2> QED
    BY <1>a, <1>b, <2>1
<1>12. CASE CanvasNotify
  <2> DEFINE m == [what |-> "renamed", id |-> canvas.id, name |-> canvas.name]
  <2>1. /\ canvas.pc = "notify" /\ toServer' = Append(toServer, m)
        /\ UNCHANGED <<used, inserted, text, base, toEditor, job, crossed, unread>>
    BY <1>12 DEF CanvasNotify, model, editor, counts, ghosts
  <2>2. m \in Message /\ m.what # "text"
    BY <1>0, <2>1 DEF TCanvas, Idle, Message
  <2> HIDE DEF m
  <2>3. /\ DOMAIN toServer' = 1..(Len(toServer) + 1) /\ DOMAIN toServer = 1..Len(toServer) /\ Len(toServer) \in Nat
        /\ \A n \in DOMAIN toServer : toServer'[n] = toServer[n]
        /\ toServer'[Len(toServer) + 1] = m
    BY <1>0, <2>1, <2>2, AppendIs
  <2>4. CountInv
    BY <1>a, <2>1
  <2>5. ASSUME NEW n \in DOMAIN toServer', toServer'[n].what = "text", toServer'[n].text # Unparsable
        PROVE  Count(toServer'[n].text, toServer'[n].base) <= inserted
    <3>1. n \in DOMAIN toServer \/ n = Len(toServer) + 1
      BY <2>3
    <3> QED
      BY <2>2, <2>3, <2>4, <2>5, <3>1 DEF CountInv
  <2> QED
    BY <2>1, <2>4, <2>5 DEF CountInv
<1>13. CASE Other
  <2>1. UNCHANGED <<used, inserted, text, base, toServer, toEditor, job, crossed>>
    BY <1>13 DEF Other, editor
  <2>2. PICK i : UNCHANGED unread \/ unread' = (unread \/ i \in Made)
    BY <1>13 DEF Other
  <2> QED
    BY <1>a, <1>b, <2>1, <2>2
<1> QED
  <2>1. Next \/ UNCHANGED vars
    OBVIOUS
  <2>2. CASE Next
    BY <1>2, <1>3, <1>4, <1>5, <1>6, <1>7, <1>8, <1>9, <1>10, <1>11, <1>12, <1>13, <2>2 DEF Next, Handle
  <2> QED
    BY <1>1, <2>1, <2>2

(* At first nothing is typed, and nothing printed. *)
LEMMA CountInit == Init => CountInv
<1> SUFFICES ASSUME Init PROVE CountInv
  OBVIOUS
<1>1. used \ Old = {} /\ Anchors(base) \ Old = {} /\ NewIn(text) = {} /\ inserted = 0
  BY DEF Init, Old, Anchors, NewIn
<1>2. Cardinality({}) = 0
  BY FS_EmptySet
<1>3. Count(text, base) <= inserted
  BY <1>1, <1>2 DEF Count
<1>4. \A h \in Handler : Costs(job[h], used, inserted)
  BY DEF Init, Costs, Idle
<1>5. DOMAIN toServer = {} /\ DOMAIN toEditor = {}
  BY DEF Init
<1>6. Cardinality(used \ Old) <= inserted
  BY <1>1, <1>2
<1> HIDE DEF Init
<1> QED
  BY <1>3, <1>4, <1>5, <1>6 DEF CountInv

(* A line typed once makes one element, unless texts cross, or the server    *)
(* misses an element that a line has made, because an answer is lost, the    *)
(* elements cannot be read or another client deletes it: there are never     *)
(* more new elements than lines were typed.                                  *)
THEOREM NoneTwice == Spec => []CreatedOnce
<1> DEFINE Inv == /\ TypeOK /\ AnchorInv /\ (~crossed => Solo) /\ KnownInv
                  /\ (Heard => MadeInv /\ CountInv)
<1>1. Init => Inv
  BY TypeInit, AnchorInit, SoloInit, KnownInit, MadeInit, CountInit
<1>2. Inv /\ [Next]_vars => Inv'
  <2>1. ASSUME Heard => MadeInv /\ CountInv PROVE Heard => MadeInv
    BY <2>1
  <2>2. ASSUME (Heard => MadeInv)', (Heard => CountInv)' PROVE (Heard => MadeInv /\ CountInv)'
    BY <2>2
  <2> QED
    BY TypeNext, AnchorNext, SoloNext, KnownNext, MadeNext, CountNext, <2>1, <2>2
<1>3. Inv => CreatedOnce
  BY DEF CreatedOnce, Heard, CountInv, Made, Old
<1> QED
  BY <1>1, <1>2, <1>3, PTL DEF Spec

-----------------------------------------------------------------------------

(* What can be reached in any number of steps. *)
LEMMA WithinDefined ==
    ASSUME NEW links, NEW from, NEW c \in Nat
    PROVE  \E f : WithinIs(f, links, from, c)
<1> DEFINE G == {n \in 0..c : \E f : WithinIs(f, links, from, n)}
           On(w) == w \cup {l[2] : l \in {l \in links : l[1] \in w}}
<1>0. \A f, n : WithinIs(f, links, from, n) <=> f = [k \in 0..n |-> IF k = 0 THEN {from} ELSE On(f[k - 1])]
  BY DEF WithinIs
<1> HIDE DEF On
<1>1. 0 \in G
  <2>1. 0..0 = {0}
    OBVIOUS
  <2> DEFINE g == [k \in 0..0 |-> {from}]
  <2>2. \A k \in 0..0 : g[k] = IF k = 0 THEN {from} ELSE On(g[k - 1])
    BY <2>1
  <2>3. g = [k \in 0..0 |-> g[k]]
    OBVIOUS
  <2> HIDE DEF g
  <2>4. g = [k \in 0..0 |-> IF k = 0 THEN {from} ELSE On(g[k - 1])]
    BY <2>2, <2>3
  <2>5. WithinIs(g, links, from, 0)
    BY <1>0, <2>4
  <2> QED
    BY <2>5
<1>2. ASSUME NEW n \in 1..c, n - 1 \in G PROVE n \in G
  <2>0. n \in Nat /\ n \in 0..c
    OBVIOUS
  <2>1. PICK g : g = [k \in 0..(n - 1) |-> IF k = 0 THEN {from} ELSE On(g[k - 1])]
    BY <1>0, <1>2
  <2> DEFINE h == [k \in 0..n |-> IF k # n THEN g[k] ELSE On(g[n - 1])]
  <2>2. \A k \in 0..n : h[k] = IF k = 0 THEN {from} ELSE On(h[k - 1])
    <3> SUFFICES ASSUME NEW k \in 0..n PROVE h[k] = IF k = 0 THEN {from} ELSE On(h[k - 1])
      OBVIOUS
    <3>1. CASE k = n
      <4>1. n # 0 /\ n - 1 \in 0..n /\ n - 1 # n
        BY <1>2, <2>0
      <4>2. h[n - 1] = g[n - 1]
        BY <4>1
      <4> QED
        BY <3>1, <4>1, <4>2
    <3>2. CASE k # n
      <4>1. k \in 0..(n - 1) /\ (k # 0 => k - 1 \in 0..n /\ k - 1 # n)
        BY <2>0, <3>2
      <4>2. h[k] = g[k] /\ (k # 0 => h[k - 1] = g[k - 1])
        BY <3>2, <4>1
      <4>3. g[k] = IF k = 0 THEN {from} ELSE On(g[k - 1])
        BY <2>1, <4>1
      <4> QED
        BY <4>2, <4>3
    <3> QED
      BY <3>1, <3>2
  <2>3. h = [k \in 0..n |-> h[k]]
    OBVIOUS
  <2> HIDE DEF h
  <2>4. h = [k \in 0..n |-> IF k = 0 THEN {from} ELSE On(h[k - 1])]
    BY <2>2, <2>3
  <2>5. WithinIs(h, links, from, n)
    BY <1>0, <2>4
  <2> QED
    BY <2>0, <2>5
<1> HIDE DEF G
<1>3. c \in G
  <2>1. c \in 0..c
    OBVIOUS
  <2> QED
    BY <1>1, <1>2, <2>1, UpTo
<1> QED
  BY <1>3 DEF G

(* What holds all that its members are under is not reached from outside.    *)
LEMMA NotReached ==
    ASSUME NEW links, IsFiniteSet(links), NEW Q, \A l \in links : l[2] \in Q => l[1] \in Q,
           NEW from, from \notin Q, NEW to \in Q
    PROVE  ~Reaches(links, from, to)
<1> DEFINE c == Cardinality(links)
           f == CHOOSE f : WithinIs(f, links, from, c)
<1>1. c \in Nat
  BY FS_CardinalityType
<1>2. WithinIs(f, links, from, c)
  BY <1>1, WithinDefined
<1>3. Reaches(links, from, to) <=> to \in f[c]
  BY DEF Reaches, WithinIs
<1> HIDE DEF f, c
<1>4. \A n \in 0..c : f[n] = IF n = 0 THEN {from} ELSE f[n - 1] \cup {l[2] : l \in {l \in links : l[1] \in f[n - 1]}}
  BY <1>2 DEF WithinIs
<1> DEFINE G == {n \in 0..c : f[n] \cap Q = {}}
<1>5. 0 \in G
  <2>1. 0 \in 0..c
    BY <1>1
  <2> QED
    BY <1>4, <2>1
<1>6. ASSUME NEW n \in 1..c, n - 1 \in G PROVE n \in G
  <2>1. n \in 0..c /\ n # 0
    BY <1>1
  <2>2. f[n] = f[n - 1] \cup {l[2] : l \in {l \in links : l[1] \in f[n - 1]}}
    BY <1>4, <2>1
  <2>3. f[n - 1] \cap Q = {}
    BY <1>6
  <2>4. \A l \in links : l[1] \in f[n - 1] => l[2] \notin Q
    BY <2>3
  <2> QED
    BY <2>1, <2>2, <2>3, <2>4
<1> HIDE DEF G
<1>7. c \in 0..c
  BY <1>1
<1>8. c \in G
  BY <1>1, <1>5, <1>6, <1>7, UpTo
<1> QED
  BY <1>3, <1>8 DEF G

(* A text without errors has a line for each element, and no two for one.    *)
LEMMA RefsAre ==
    ASSUME NEW s, DOMAIN s.elements \subseteq Id, NEW t \in Seq(LineRec), ~HasErrors(s, t)
    PROVE  /\ \A m, n \in DOMAIN t : RefOf(t, m) = RefOf(t, n) => m = n
           /\ \A n \in DOMAIN t : t[n].anchor # NoOne => t[n].anchor \in DOMAIN s.elements
           /\ \A i \in DOMAIN s.elements : \E n \in DOMAIN t : t[n].anchor = i
<1>1. Anchors(t) = DOMAIN s.elements
  BY DEF HasErrors
<1>2. \A m, n \in DOMAIN t : (t[m].anchor = t[n].anchor /\ t[m].anchor # NoOne) => m = n
  BY DEF HasErrors
<1>3. ASSUME NEW m \in DOMAIN t, NEW n \in DOMAIN t, RefOf(t, m) = RefOf(t, n) PROVE m = n
  <2>1. \A i \in Id : i \in Nat /\ ~(i < 0)
    BY IdAssumption
  <2>2. m \in Nat /\ n \in Nat
    BY LenProperties
  <2>3. CASE t[m].anchor # NoOne
    <3>1. RefOf(t, m) = t[m].anchor /\ RefOf(t, m) \in Id
      BY <2>3, RefIs
    <3>2. ~(RefOf(t, n) < 0)
      BY <1>3, <2>1, <3>1
    <3>3. t[n].anchor # NoOne
      BY <3>2, RefIs
    <3>4. RefOf(t, n) = t[n].anchor
      BY <3>3, RefIs
    <3> QED
      BY <1>2, <1>3, <2>3, <3>1, <3>4
  <2>4. CASE t[m].anchor = NoOne
    <3>1. RefOf(t, m) = 0 - m /\ RefOf(t, m) < 0
      BY <2>4, RefIs
    <3>2. t[n].anchor = NoOne
      <4>1. t[n].anchor # NoOne => RefOf(t, n) \in Id
        BY RefIs
      <4> QED
        BY <1>3, <2>1, <3>1, <4>1
    <3>3. RefOf(t, n) = 0 - n
      BY <3>2, RefIs
    <3>4. 0 - m = 0 - n
      BY <1>3, <3>1, <3>3
    <3> QED
      BY <2>2, <3>4
  <2> QED
    BY <2>3, <2>4
<1>4. \A n \in DOMAIN t : t[n].anchor # NoOne => t[n].anchor \in DOMAIN s.elements
  BY <1>1 DEF Anchors
<1>5. \A i \in DOMAIN s.elements : \E n \in DOMAIN t : t[n].anchor = i
  BY <1>1 DEF Anchors
<1> QED
  BY <1>3, <1>4, <1>5

(* Each op is one of those. *)
LEMMA OpAtIs ==
    ASSUME NEW s, NEW t \in Seq(LineRec), NEW ops, NEW w, OpsFrom(w, s, t, ops)
    PROVE  \A k \in DOMAIN ops : w[k] \in DOMAIN t /\ OpAt(ops[k], t, w[k])
<1> SUFFICES ASSUME NEW k \in DOMAIN ops PROVE w[k] \in DOMAIN t /\ OpAt(ops[k], t, w[k])
  OBVIOUS
<1> DEFINE n == w[k]
           op == ops[k]
<1>1. n \in DOMAIN t /\ (Makes(op, t, n) \/ Names(op, s, t, n) \/ Moves(op, s, t, n))
  BY DEF OpsFrom
<1> HIDE DEF n, op
<1>2. t[n].anchor # NoOne => RefOf(t, n) = t[n].anchor
  BY <1>1, RefIs
<1>3. CASE Makes(op, t, n)
  <2>1. /\ t[n].anchor = NoOne /\ op.do = "create" /\ op.id = RefOf(t, n) /\ op.name = t[n].name
        /\ op.parent = RefOf(t, BlockOf(t, n))
    BY <1>3 DEF Makes
  <2>2. OpAt(op, t, n)
    BY <2>1 DEF OpAt
  <2> QED
    BY <1>1, <2>2 DEF n, op
<1>4. CASE Names(op, s, t, n)
  <2>1. t[n].anchor # NoOne /\ op.do = "rename" /\ op.id = RefOf(t, n) /\ op.name = t[n].name
    BY <1>2, <1>4 DEF Names
  <2>2. OpAt(op, t, n)
    BY <2>1 DEF OpAt
  <2> QED
    BY <1>1, <2>2 DEF n, op
<1>5. CASE Moves(op, s, t, n)
  <2>1. /\ t[n].anchor # NoOne /\ op.do = "reparent" /\ op.id = RefOf(t, n)
        /\ op.parent = RefOf(t, BlockOf(t, n))
    BY <1>2, <1>5 DEF Moves
  <2>2. OpAt(op, t, n)
    BY <2>1 DEF OpAt
  <2> QED
    BY <1>1, <2>2 DEF n, op
<1> QED
  BY <1>1, <1>3, <1>4, <1>5 DEF n, op

-----------------------------------------------------------------------------

(* It has at first: where the text has a line elsewhere, an op moves it.     *)
LEMMA PlacedFirst ==
    ASSUME NEW s, Whole(s), NEW t \in Seq(LineRec), NEW ops, DOMAIN ops \subseteq Nat \ {0},
           NEW w, OpsFrom(w, s, t, ops)
    PROVE  PlacedIn(CheckBase(s).links, t, w, ops, 0)
<1> DEFINE L == {<<e.source, e.target>> : e \in ContainsOf(s)}
<1>0. CheckBase(s).links = L
  BY DEF CheckBase
<1>1. /\ IsModel(s) /\ OneParent(s)
      /\ \A e \in ContainsOf(s) : e \in s.edges /\ e.source \in Id /\ e.target \in Id
  BY DEF Whole, IsModel, ContainsOf, EdgeRec
<1>2. \A l \in L : \E e \in ContainsOf(s) : l = <<e.source, e.target>> /\ l[1] = e.source /\ l[2] = e.target
  OBVIOUS
<1> HIDE DEF L
<1>3. IsFiniteSet(L)
  <2>1. L \in SUBSET (Id \X Id)
    BY <1>1, <1>2
  <2>2. IsFiniteSet(Id \X Id)
    BY IdAssumption, FS_Product
  <2> QED
    BY <2>1, <2>2, FS_Subset
<1>4. \A l \in L : l[2] # NoOne
  BY <1>1, <1>2, IdAssumption
<1>5. ASSUME NEW n \in DOMAIN t, Placed(w, ops, 0, n), NEW l \in L, l[2] = RefOf(t, n)
      PROVE  l[1] = RefOf(t, BlockOf(t, n))
  <2>1. PICK e \in ContainsOf(s) : l[1] = e.source /\ l[2] = e.target
    BY <1>2
  <2>2. RefOf(t, n) \in Id
    BY <1>1, <1>5, <2>1
  <2>3. t[n].anchor # NoOne
    <3>1. \A i \in Id : i \in Nat /\ ~(i < 0)
      BY IdAssumption
    <3>2. ~(RefOf(t, n) < 0)
      BY <2>2, <3>1
    <3> QED
      BY <3>2, RefIs
  <2>4. RefOf(t, n) = t[n].anchor
    BY <2>3, RefIs
  <2>5. ParentOf(s, t[n].anchor) = RefOf(t, BlockOf(t, n))
    <3>1. ASSUME ParentOf(s, t[n].anchor) # RefOf(t, BlockOf(t, n)) PROVE FALSE
      <4>1. PICK k \in DOMAIN ops : w[k] = n /\ Moves(ops[k], s, t, n)
        BY <2>3, <3>1 DEF OpsFrom
      <4>2. ops[k].do = "reparent"
        BY <4>1 DEF Moves
      <4>3. k <= 0
        BY <1>5, <4>1, <4>2 DEF Placed
      <4>4. k \in Nat \ {0}
        OBVIOUS
      <4> QED
        BY <4>3, <4>4
    <3> QED
      BY <3>1
  <2>6. Linked(s, e.source, t[n].anchor)
    BY <1>5, <2>1, <2>4 DEF Linked
  <2> QED
    BY <1>1, <2>1, <2>5, <2>6, ParentIs
<1> QED
  BY <1>0, <1>3, <1>4, <1>5 DEF PlacedIn

(* Each op brings its line there, and no other away. *)
LEMMA PlacedNext ==
    ASSUME NEW t \in Seq(LineRec), \A m, n \in DOMAIN t : RefOf(t, m) = RefOf(t, n) => m = n,
           NEW ops, NEW c \in Nat, DOMAIN ops = 1..c, NEW w,
           NEW k \in 1..c, w[k] \in DOMAIN t, OpAt(ops[k], t, w[k]),
           NEW links, PlacedIn(links, t, w, ops, k - 1)
    PROVE  PlacedIn(IF ops[k].do = "rename" THEN links ELSE Moved(links, ops[k].id, ops[k].parent), t, w, ops, k)
<1>1. \A n \in DOMAIN t : (n # w[k] \/ ops[k].do = "rename") /\ Placed(w, ops, k, n) => Placed(w, ops, k - 1, n)
  <2> SUFFICES ASSUME NEW n \in DOMAIN t, n # w[k] \/ ops[k].do = "rename", Placed(w, ops, k, n),
                      NEW l \in DOMAIN ops, w[l] = n, ops[l].do # "rename"
               PROVE  l <= k - 1
    BY DEF Placed
  <2>1. l <= k /\ l # k
    BY DEF Placed
  <2> QED
    BY <2>1
<1>2. CASE ops[k].do = "rename"
  BY <1>1, <1>2 DEF PlacedIn
<1>3. CASE ops[k].do # "rename"
  <2> DEFINE i == ops[k].id
             p == ops[k].parent
             M == Moved(links, i, p)
  <2>1. i = RefOf(t, w[k]) /\ p = RefOf(t, BlockOf(t, w[k])) /\ i # NoOne
    BY <1>3, RefIs DEF OpAt
  <2> HIDE DEF i, p
  <2>2. M = {l \in links : l[2] # i} \cup (IF p = NoOne THEN {} ELSE {<<p, i>>})
    BY DEF Moved
  <2> HIDE DEF M
  <2>3. \A l \in M : (l \in links /\ l[2] # i) \/ (l[1] = p /\ l[2] = i)
    BY <2>2
  <2>4. IsFiniteSet(M)
    <3>1. M \in SUBSET (links \cup {<<p, i>>})
      BY <2>2
    <3>2. IsFiniteSet(links \cup {<<p, i>>})
      BY FS_AddElement DEF PlacedIn
    <3> QED
      BY <3>1, <3>2, FS_Subset
  <2>5. \A l \in M : l[2] # NoOne
    BY <2>1, <2>3 DEF PlacedIn
  <2>6. ASSUME NEW n \in DOMAIN t, Placed(w, ops, k, n), NEW l \in M, l[2] = RefOf(t, n)
        PROVE  l[1] = RefOf(t, BlockOf(t, n))
    <3>1. CASE n = w[k]
      BY <2>1, <2>3, <2>6, <3>1
    <3>2. CASE n # w[k]
      <4>1. RefOf(t, n) # i
        BY <2>1, <3>2
      <4>2. l \in links
        BY <2>3, <2>6, <4>1
      <4> QED
        BY <1>1, <2>6, <3>2, <4>2 DEF PlacedIn
    <3> QED
      BY <3>1, <3>2
  <2> QED
    BY <1>3, <2>4, <2>5, <2>6 DEF PlacedIn, M, i, p
<1> QED
  BY <1>2, <1>3

-----------------------------------------------------------------------------

(* What a line is in is an element there was, or one that is made before.    *)
LEMMA ParentMade ==
    ASSUME NEW s, Whole(s), NEW t \in Seq(LineRec), ~HasErrors(s, t),
           NEW ops, NEW c \in Nat, DOMAIN ops = 1..c, NEW w, OpsFrom(w, s, t, ops),
           NEW k \in 1..c, ops[k].do # "rename"
    PROVE  ops[k].parent \in DOMAIN s.elements \cup MadeBy(ops, k - 1) \cup {NoOne}
<1> DEFINE n == w[k]
           b == BlockOf(t, n)
<1>1. n \in DOMAIN t /\ OpAt(ops[k], t, n)
  BY OpAtIs
<1>2. ops[k].parent = RefOf(t, b) /\ b \in 0..(n - 1) /\ n \in Nat /\ DOMAIN t = 1..Len(t) /\ Len(t) \in Nat
  BY <1>1, BlockIs, LenProperties DEF OpAt
<1> HIDE DEF b
<1>3. CASE b = 0
  BY <1>2, <1>3, RefIs
<1>4. CASE b # 0
  <2>1. b \in DOMAIN t /\ b < n
    BY <1>1, <1>2, <1>4
  <2>2. CASE t[b].anchor # NoOne
    <3>1. t[b].anchor \in DOMAIN s.elements
      BY <2>1, <2>2, RefsAre DEF Whole, IsModel
    <3> QED
      BY <1>2, <2>1, <2>2, <3>1, RefIs
  <2>3. CASE t[b].anchor = NoOne
    <3>1. PICK l \in DOMAIN ops : w[l] = b /\ Makes(ops[l], t, b)
      BY <2>1, <2>3 DEF OpsFrom
    <3>2. ops[l].do = "create" /\ ops[l].id = RefOf(t, b)
      BY <3>1 DEF Makes
    <3>3. l < k
      <4>1. ASSUME k < l PROVE FALSE
        <5>1. w[k] < w[l] \/ w[k] = w[l]
          BY <3>1, <4>1 DEF OpsFrom
        <5> QED
          BY <1>2, <2>1, <3>1, <5>1
      <4>2. k # l
        BY <2>1, <3>1, <1>2
      <4>3. l \in 1..c
        OBVIOUS
      <4> QED
        BY <4>1, <4>2, <4>3
    <3>4. l \in 1..(k - 1)
      BY <3>3
    <3>5. ops[l].id \in MadeBy(ops, k - 1)
      BY <3>2, <3>4 DEF MadeBy
    <3> QED
      BY <1>2, <3>2, <3>5
  <2> QED
    BY <2>2, <2>3
<1> QED
  BY <1>3, <1>4

(* An op of a text is allowed in its turn: the lines above are where the     *)
(* text has them, so none of them, nor what it is in, is below this one.     *)
LEMMA OpAllowed ==
    ASSUME NEW s, Whole(s), NEW t \in Seq(LineRec), ~HasErrors(s, t), \A n \in DOMAIN t : t[n].name # Blank,
           NEW ops, NEW c \in Nat, DOMAIN ops = 1..c, NEW w, OpsFrom(w, s, t, ops),
           NEW k \in 1..c, NEW r, r.old = DOMAIN s.elements, r.made = MadeBy(ops, k - 1),
           PlacedIn(r.links, t, w, ops, k - 1)
    PROVE  Allowed(r, ops[k])
<1> DEFINE n == w[k]
           op == ops[k]
<1>1. n \in DOMAIN t /\ OpAt(op, t, n)
  BY OpAtIs
<1>2. op.do # "rename" => op.parent \in r.old \cup r.made \cup {NoOne}
  BY ParentMade
<1>3. t[n].anchor # NoOne => op.id \in r.old
  <2>1. t[n].anchor # NoOne => t[n].anchor \in DOMAIN s.elements /\ RefOf(t, n) = t[n].anchor
    BY <1>1, RefsAre, RefIs DEF Whole, IsModel
  <2> QED
    BY <1>1, <2>1 DEF OpAt
<1>4. ASSUME op.do = "reparent" PROVE ~Reaches(r.links, op.id, op.parent)
  <2> DEFINE Q == {RefOf(t, m) : m \in 1..(n - 1)} \cup {NoOne}
  <2>1. DOMAIN t = 1..Len(t) /\ Len(t) \in Nat /\ n \in Nat /\ \A m \in 1..(n - 1) : m \in DOMAIN t /\ m < n
    BY <1>1, LenProperties
  <2>2. op.id = RefOf(t, n) /\ op.parent = RefOf(t, BlockOf(t, n))
    BY <1>1, <1>4 DEF OpAt
  <2>3. \A m \in 1..n : RefOf(t, BlockOf(t, m)) \in Q
    <3> SUFFICES ASSUME NEW m \in 1..n PROVE RefOf(t, BlockOf(t, m)) \in Q
      OBVIOUS
    <3>1. m \in DOMAIN t
      BY <1>1, <2>1
    <3>2. BlockOf(t, m) \in 0..(m - 1)
      BY <3>1, BlockIs
    <3>3. BlockOf(t, m) = 0 \/ BlockOf(t, m) \in 1..(n - 1)
      BY <2>1, <3>2
    <3> QED
      BY <3>3, RefIs
  <2>4. op.id \notin Q
    <3>1. RefOf(t, n) # NoOne
      BY <1>1, RefIs
    <3>2. ASSUME NEW m \in 1..(n - 1) PROVE RefOf(t, m) # RefOf(t, n)
      <4>1. m \in DOMAIN t /\ m # n
        BY <2>1
      <4>2. RefOf(t, m) = RefOf(t, n) => m = n
        BY <1>1, <4>1, RefsAre DEF Whole, IsModel
      <4> QED
        BY <4>1, <4>2
    <3> QED
      BY <2>2, <3>1, <3>2
  <2>5. ASSUME NEW l \in r.links, l[2] \in Q PROVE l[1] \in Q
    <3>1. PICK m \in 1..(n - 1) : l[2] = RefOf(t, m)
      BY <2>5 DEF PlacedIn
    <3>2. m \in DOMAIN t /\ m < n /\ m \in 1..n
      BY <2>1
    <3>3. Placed(w, ops, k - 1, m)
      <4> SUFFICES ASSUME NEW j \in DOMAIN ops, w[j] = m PROVE j <= k - 1
        BY DEF Placed
      <4>1. ASSUME k < j PROVE FALSE
        <5>1. w[k] < w[j] \/ w[k] = w[j]
          BY <4>1 DEF OpsFrom
        <5> QED
          BY <2>1, <3>2, <5>1
      <4>2. k # j
        BY <3>2, <2>1
      <4>3. j \in 1..c
        OBVIOUS
      <4> QED
        BY <4>1, <4>2, <4>3
    <3>4. l[1] = RefOf(t, BlockOf(t, m))
      BY <3>1, <3>2, <3>3 DEF PlacedIn
    <3> QED
      BY <2>3, <3>2, <3>4
  <2>6. n \in 1..n
    BY <1>1, <2>1
  <2>7. op.parent \in Q
    BY <2>2, <2>3, <2>6
  <2>8. IsFiniteSet(r.links)
    BY DEF PlacedIn
  <2> HIDE DEF Q, op, n
  <2> QED
    BY <2>4, <2>5, <2>7, <2>8, NotReached
<1>5. t[n].name # Blank
  BY <1>1
<1> HIDE DEF n
<1>6. CASE op.do = "rename"
  <2>1. op.id \in r.old /\ op.name # Blank
    BY <1>1, <1>3, <1>5, <1>6 DEF OpAt
  <2> QED
    BY <1>6, <2>1 DEF Allowed
<1>7. CASE op.do = "create"
  BY <1>2, <1>7 DEF Allowed
<1>8. CASE op.do = "reparent"
  <2>1. op.id \in r.old
    BY <1>1, <1>3, <1>8 DEF OpAt
  <2> QED
    BY <1>2, <1>4, <1>8, <2>1 DEF Allowed
<1> QED
  BY <1>1, <1>6, <1>7, <1>8 DEF OpAt

(* So the edit is accepted. *)
LEMMA TextAccepted ==
    ASSUME NEW s, Whole(s), NEW t \in Seq(LineRec), ~HasErrors(s, t), \A n \in DOMAIN t : t[n].name # Blank
    PROVE  Accepts(s, DiffOps(s, t))
<1> DEFINE ops == DiffOps(s, t)
           c == Len(ops)
<1>1. IsOps(ops) /\ \E w : OpsFrom(w, s, t, ops)
  BY OpsAre
<1> HIDE DEF ops
<1>2. PICK w : OpsFrom(w, s, t, ops)
  BY <1>1
<1>3. c \in Nat /\ DOMAIN ops = 1..c /\ (\A k \in 1..c : ops[k] \in OpSet) /\ DOMAIN ops \subseteq Nat \ {0}
  BY <1>1, ElementOfSeq, LenProperties DEF IsOps
<1> HIDE DEF c
<1>4. PICK r : CheckedRun(r, s, ops, c)
  BY <1>3, AcceptsIs
<1>5. /\ r[0] = CheckBase(s)
      /\ \A k \in 1..c : r[k].ok <=> r[k - 1].ok /\ Allowed(r[k - 1], ops[k])
      /\ \A k \in 1..c : r[k].ok => r[k] = Checked(r[k - 1], ops[k])
      /\ Accepts(s, ops) <=> r[c].ok
  BY <1>4 DEF CheckedRun
<1> DEFINE G == {k \in 0..c : /\ r[k].ok /\ r[k].old = DOMAIN s.elements /\ r[k].made = MadeBy(ops, k)
                              /\ PlacedIn(r[k].links, t, w, ops, k)}
<1>6. 0 \in G
  <2>1. CheckBase(s).old = DOMAIN s.elements /\ CheckBase(s).made = {} /\ CheckBase(s).ok
    BY DEF CheckBase
  <2>2. MadeBy(ops, 0) = {} /\ 0 \in 0..c
    BY <1>3, MadeByIs
  <2>3. PlacedIn(CheckBase(s).links, t, w, ops, 0)
    BY <1>2, <1>3, PlacedFirst
  <2> QED
    BY <1>5, <2>1, <2>2, <2>3
<1>7. ASSUME NEW k \in 1..c, k - 1 \in G PROVE k \in G
  <2> DEFINE before == r[k - 1]
             op == ops[k]
             M == IF op.do = "create" THEN before.made \cup {op.id} ELSE before.made
             L == IF op.do = "rename" THEN before.links ELSE Moved(before.links, op.id, op.parent)
  <2>1. /\ before.ok /\ before.old = DOMAIN s.elements /\ before.made = MadeBy(ops, k - 1)
        /\ PlacedIn(before.links, t, w, ops, k - 1)
    BY <1>7
  <2>2. Allowed(before, op)
    BY <1>2, <1>3, <2>1, OpAllowed
  <2>3. r[k].ok /\ r[k] = Checked(before, op)
    BY <1>5, <2>1, <2>2
  <2>4. Checked(before, op) = [ok |-> TRUE, old |-> before.old, made |-> M, links |-> L]
    BY DEF Checked
  <2>5. MadeBy(ops, k) = MadeBy(ops, k - 1) \cup (IF op.do = "create" THEN {op.id} ELSE {})
    BY <1>3, MadeByIs
  <2>6. PlacedIn(L, t, w, ops, k)
    <3>1. w[k] \in DOMAIN t /\ OpAt(op, t, w[k])
      BY <1>2, <1>3, OpAtIs
    <3>2. \A m, n \in DOMAIN t : RefOf(t, m) = RefOf(t, n) => m = n
      BY RefsAre DEF Whole, IsModel
    <3> QED
      BY <1>3, <2>1, <3>1, <3>2, PlacedNext
  <2>7. M = MadeBy(ops, k)
    BY <2>1, <2>5
  <2> HIDE DEF M, L, op, before
  <2>8. r[k].old = before.old /\ r[k].made = M /\ r[k].links = L
    BY <2>3, <2>4
  <2>9. k \in 0..c
    BY <1>3
  <2> QED
    BY <2>1, <2>3, <2>6, <2>7, <2>8, <2>9
<1> HIDE DEF G
<1>8. c \in 0..c
  BY <1>3
<1>9. c \in G
  BY <1>3, <1>6, <1>7, <1>8, UpTo
<1> QED
  BY <1>5, <1>9 DEF G, ops

-----------------------------------------------------------------------------

(* Whom an edge from a parent links, and what a model links.                 *)
LEMMA LinkIs ==
    /\ \A p, i, x, j : LinkIn(ParentEdge(p, i), x, j) <=> (j = i /\ x = p /\ p # NoOne)
    /\ \A s, x, j : Linked(s, x, j) <=> LinkIn(s.edges, x, j)
<1>1. ASSUME NEW p, NEW i, NEW x, NEW j
      PROVE  LinkIn(ParentEdge(p, i), x, j) <=> (j = i /\ x = p /\ p # NoOne)
  <2> DEFINE new == ParentEdge(p, i)
             y   == Edge(p, i, "Contains")
  <2>1. y.kind = "Contains" /\ y.source = p /\ y.target = i
    BY DEF Edge
  <2>2. new = IF p = NoOne THEN {} ELSE {y}
    BY DEF ParentEdge
  <2> HIDE DEF new, y
  <2>3. LinkIn(new, x, j) <=> (j = i /\ x = p /\ p # NoOne)
    BY <2>1, <2>2 DEF LinkIn
  <2> QED
    BY <2>3 DEF new
<1>2. ASSUME NEW s, NEW x, NEW j PROVE Linked(s, x, j) <=> LinkIn(s.edges, x, j)
  <2>1. \A e : e \in ContainsOf(s) <=> e \in s.edges /\ e.kind = "Contains"
    BY DEF ContainsOf
  <2> QED
    BY <2>1 DEF Linked, LinkIn
<1> QED
  BY <1>1, <1>2

(* The parents of an element, when no edge changes. *)
LEMMA LinkedSame ==
    ASSUME NEW g, NEW h, h.edges = g.edges, NEW x, NEW j
    PROVE  Linked(h, x, j) <=> Linked(g, x, j)
BY LinkIs

(* When it is given one. *)
LEMMA LinkedMore ==
    ASSUME NEW g, NEW h, NEW i, NEW p, h.edges = g.edges \cup ParentEdge(p, i), NEW x, NEW j
    PROVE  Linked(h, x, j) <=> (Linked(g, x, j) \/ (j = i /\ x = p /\ p # NoOne))
<1> DEFINE new == ParentEdge(p, i)
<1>1. LinkIn(new, x, j) <=> (j = i /\ x = p /\ p # NoOne)
  BY LinkIs
<1> HIDE DEF new
<1>2. LinkIn(g.edges \cup new, x, j) <=> LinkIn(g.edges, x, j) \/ LinkIn(new, x, j)
  BY DEF LinkIn
<1>3. h.edges = g.edges \cup new
  BY DEF new
<1>4. (Linked(h, x, j) <=> LinkIn(h.edges, x, j)) /\ (Linked(g, x, j) <=> LinkIn(g.edges, x, j))
  BY LinkIs
<1> QED
  BY <1>1, <1>2, <1>3, <1>4

(* When it is moved to one. *)
LEMMA LinkedMoved ==
    ASSUME NEW g, NEW h, NEW i, NEW p, h.edges = MovedEdges(g, i, p), NEW x, NEW j
    PROVE  Linked(h, x, j) <=> ((j # i /\ Linked(g, x, j)) \/ (j = i /\ x = p /\ p # NoOne))
<1> DEFINE new  == ParentEdge(p, i)
           kept == {e \in g.edges : ~(e.target = i /\ e.kind = "Contains")}
<1>1. LinkIn(new, x, j) <=> (j = i /\ x = p /\ p # NoOne)
  BY LinkIs
<1>2. h.edges = kept \cup new
  BY DEF MovedEdges
<1>3. LinkIn(kept, x, j) <=> (j # i /\ LinkIn(g.edges, x, j))
  BY DEF LinkIn
<1> HIDE DEF new, kept
<1>4. LinkIn(kept \cup new, x, j) <=> LinkIn(kept, x, j) \/ LinkIn(new, x, j)
  BY DEF LinkIn
<1>5. (Linked(h, x, j) <=> LinkIn(h.edges, x, j)) /\ (Linked(g, x, j) <=> LinkIn(g.edges, x, j))
  BY LinkIs
<1> QED
  BY <1>1, <1>2, <1>3, <1>4, <1>5

(* They differ. *)
LEMMA RealRefs ==
    ASSUME NEW s, Whole(s), DOMAIN s.elements \subseteq used, NEW t \in Seq(LineRec), ~HasErrors(s, t),
           NEW ops, IsOps(ops), NEW w, OpsFrom(w, s, t, ops), Len(Created(ops)) <= Len(Unused)
    PROVE  RealIn(RealIds(ops), t, s)
<1> DEFINE ids == RealIds(ops)
<1>1. /\ DOMAIN ids = {ops[k].id : k \in {k \in DOMAIN ops : ops[k].do = "create"}}
      /\ \A i \in DOMAIN ids : i \in Int /\ i < 0 /\ ids[i] \in Id \ used
      /\ \A i, j \in DOMAIN ids : ids[i] = ids[j] => i = j
  BY RealIdsAre
<1> HIDE DEF ids
<1>2. /\ \A i \in Id \cup {NoOne} : Real(ids, i) = i
      /\ \A i \in DOMAIN ids : Real(ids, i) = ids[i]
  BY <1>1, RealIs
<1>3. /\ \A m, n \in DOMAIN t : RefOf(t, m) = RefOf(t, n) => m = n
      /\ \A n \in DOMAIN t : t[n].anchor # NoOne => t[n].anchor \in DOMAIN s.elements
      /\ DOMAIN s.elements \subseteq Id
  BY RefsAre DEF Whole, IsModel
<1>4. ASSUME NEW n \in DOMAIN t, t[n].anchor # NoOne
      PROVE  Real(ids, RefOf(t, n)) = t[n].anchor /\ t[n].anchor \in DOMAIN s.elements
  <2>1. RefOf(t, n) = t[n].anchor /\ RefOf(t, n) \in Id
    BY <1>4, RefIs
  <2> QED
    BY <1>2, <1>3, <1>4, <2>1
<1>5. ASSUME NEW n \in DOMAIN t, t[n].anchor = NoOne
      PROVE  /\ RefOf(t, n) \in DOMAIN ids /\ Real(ids, RefOf(t, n)) = ids[RefOf(t, n)]
             /\ Real(ids, RefOf(t, n)) \in Id \ used
  <2>1. PICK k \in DOMAIN ops : w[k] = n /\ Makes(ops[k], t, n)
    BY <1>5 DEF OpsFrom
  <2>2. ops[k].do = "create" /\ ops[k].id = RefOf(t, n)
    BY <2>1 DEF Makes
  <2>3. RefOf(t, n) \in DOMAIN ids
    BY <1>1, <2>2
  <2> QED
    BY <1>1, <1>2, <2>3
<1>6. ASSUME NEW m \in DOMAIN t, NEW n \in DOMAIN t, Real(ids, RefOf(t, m)) = Real(ids, RefOf(t, n)) PROVE m = n
  <2>1. CASE t[m].anchor # NoOne /\ t[n].anchor # NoOne
    <3>1. RefOf(t, m) = t[m].anchor /\ RefOf(t, n) = t[n].anchor
      BY <2>1, RefIs
    <3>2. RefOf(t, m) = RefOf(t, n)
      BY <1>4, <1>6, <2>1, <3>1
    <3> QED
      BY <1>3, <3>2
  <2>2. CASE t[m].anchor = NoOne /\ t[n].anchor = NoOne
    <3>1. RefOf(t, m) = RefOf(t, n)
      BY <1>1, <1>5, <1>6, <2>2
    <3> QED
      BY <1>3, <3>1
  <2>3. CASE t[m].anchor # NoOne /\ t[n].anchor = NoOne
    BY <1>4, <1>5, <1>6, <2>3
  <2>4. CASE t[m].anchor = NoOne /\ t[n].anchor # NoOne
    BY <1>4, <1>5, <1>6, <2>4
  <2> QED
    BY <2>1, <2>2, <2>3, <2>4
<1>7. Real(ids, NoOne) = NoOne
  BY <1>2
<1> QED
  BY <1>4, <1>5, <1>6, <1>7 DEF RealIn, ids

-----------------------------------------------------------------------------

(* A model that is as the text was read: an op is left for each difference.  *)
LEMMA SaysFirst ==
    ASSUME NEW s, Whole(s), NEW t \in Seq(LineRec), NEW ids, RealIn(ids, t, s), DOMAIN s.elements \subseteq used,
           NEW ops, DOMAIN ops \subseteq Nat \ {0}, NEW w, OpsFrom(w, s, t, ops)
    PROVE  Says(s, ids, t, w, ops, 0)
<1> SUFFICES ASSUME NEW n \in DOMAIN t
             PROVE  /\ Named(w, ops, 0, n) => /\ Real(ids, RefOf(t, n)) \in DOMAIN s.elements
                                              /\ s.elements[Real(ids, RefOf(t, n))].name = t[n].name
                    /\ Placed(w, ops, 0, n) =>
                          \A p : Linked(s, p, Real(ids, RefOf(t, n))) <=>
                                    (p = Real(ids, RefOf(t, BlockOf(t, n))) /\ p # NoOne)
  BY DEF Says
<1>0. IsModel(s) /\ OneParent(s)
  BY DEF Whole
<1>1. \A k \in DOMAIN ops : ~(k <= 0)
  OBVIOUS
<1>2. CASE t[n].anchor = NoOne
  <2>1. PICK k \in DOMAIN ops : w[k] = n /\ Makes(ops[k], t, n)
    BY <1>2 DEF OpsFrom
  <2>2. ops[k].do = "create"
    BY <2>1 DEF Makes
  <2>3. ~Named(w, ops, 0, n) /\ ~Placed(w, ops, 0, n)
    BY <1>1, <2>1, <2>2 DEF Named, Placed
  <2> QED
    BY <2>3
<1>3. CASE t[n].anchor # NoOne
  <2> DEFINE i == t[n].anchor
             b == RefOf(t, BlockOf(t, n))
  <2>1. Real(ids, RefOf(t, n)) = i /\ i \in DOMAIN s.elements
    BY <1>3 DEF RealIn
  <2>2. ASSUME Named(w, ops, 0, n), s.elements[i].name # t[n].name PROVE FALSE
    <3>1. PICK k \in DOMAIN ops : w[k] = n /\ Names(ops[k], s, t, n)
      BY <1>3, <2>2 DEF OpsFrom
    <3>2. ops[k].do = "rename"
      BY <3>1 DEF Names
    <3> QED
      BY <1>1, <2>2, <3>1, <3>2 DEF Named
  <2>3. ASSUME Placed(w, ops, 0, n) PROVE ParentOf(s, i) = b
    <3>1. ASSUME ParentOf(s, i) # b PROVE FALSE
      <4>1. PICK k \in DOMAIN ops : w[k] = n /\ Moves(ops[k], s, t, n)
        BY <1>3, <3>1 DEF OpsFrom
      <4>2. ops[k].do = "reparent"
        BY <4>1 DEF Moves
      <4> QED
        BY <1>1, <2>3, <4>1, <4>2 DEF Placed
    <3> QED
      BY <3>1
  <2>4. ASSUME ParentOf(s, i) = b PROVE Real(ids, b) = b
    <3>1. b \in Id \cup {NoOne}
      BY <1>0, <2>4, ParentIs
    <3>2. BlockOf(t, n) = 0 \/ BlockOf(t, n) \in DOMAIN t
      <4>1. BlockOf(t, n) \in 0..(n - 1) /\ n \in Nat /\ DOMAIN t = 1..Len(t) /\ Len(t) \in Nat
        BY BlockIs, LenProperties
      <4> QED
        BY <4>1
    <3>3. CASE BlockOf(t, n) = 0
      BY <3>3, RefIs DEF RealIn
    <3>4. CASE BlockOf(t, n) \in DOMAIN t
      <4>1. \A x \in Id \cup {NoOne} : ~(x < 0)
        BY IdAssumption DEF NoOne
      <4>2. t[BlockOf(t, n)].anchor # NoOne
        BY <3>1, <3>4, <4>1, RefIs
      <4> QED
        BY <3>4, <4>2, RefIs DEF RealIn
    <3> QED
      BY <3>2, <3>3, <3>4
  <2> HIDE DEF i, b
  <2>5. ASSUME Placed(w, ops, 0, n), NEW p PROVE Linked(s, p, i) <=> (p = Real(ids, b) /\ p # NoOne)
    <3>1. ParentOf(s, i) = b /\ Real(ids, b) = b
      BY <2>3, <2>4, <2>5
    <3>2. Linked(s, p, i) => p = b
      BY <1>0, <3>1, ParentIs
    <3>3. Linked(s, p, i) => p # NoOne
      <4>1. Linked(s, p, i) => p \in Id
        BY <1>0 DEF Linked, IsModel, ContainsOf, EdgeRec
      <4> QED
        BY <4>1, IdAssumption
    <3>4. b # NoOne => Linked(s, b, i)
      BY <1>0, <3>1, ParentIs
    <3> QED
      BY <3>1, <3>2, <3>3, <3>4
  <2> QED
    BY <2>1, <2>2, <2>5 DEF i, b
<1> QED
  BY <1>2, <1>3

(* Each op makes the model say what the text says of its line, and of no     *)
(* other line anything else.                                                 *)
LEMMA SaysNext ==
    ASSUME NEW s, NEW t \in Seq(LineRec), NEW ids, RealIn(ids, t, s),
           NEW ops, NEW c \in Nat, DOMAIN ops = 1..c, NEW w, NEW k \in 1..c,
           w[k] \in DOMAIN t, OpAt(ops[k], t, w[k]),
           NEW g, Whole(g), Says(g, ids, t, w, ops, k - 1),
           NEW q, q.do = ops[k].do,
           q.do = "rename" => IsRename(q) /\ q.name \in Name,
           q.do = "create" => IsCreate(q) /\ q.id \notin DOMAIN g.elements,
           q.do = "reparent" => IsReparent(q) /\ q.id \in DOMAIN g.elements,
           q.do = "rename" => q.id \in DOMAIN g.elements,
           q.id = Real(ids, ops[k].id),
           q.do # "reparent" => q.name = ops[k].name,
           q.do # "rename" => q.parent = Real(ids, ops[k].parent) /\ q.parent \in DOMAIN g.elements \cup {NoOne}
    PROVE  Says(WriteOp(g, q), ids, t, w, ops, k)
<1> DEFINE h == WriteOp(g, q)
           i == q.id
           m == w[k]
           R(n) == Real(ids, RefOf(t, n))
           P(n) == Real(ids, RefOf(t, BlockOf(t, n)))
<1>0. Snap(g) /\ IsModel(g)
  BY DEF Whole, IsModel
<1>1. /\ q.do \in {"rename", "create", "reparent"} /\ i = R(m) /\ m \in DOMAIN t
      /\ q.do # "reparent" => q.name = t[m].name
      /\ q.do # "rename" => q.parent = P(m)
  BY DEF OpAt
<1>2. \A n \in DOMAIN t : R(n) = R(m) => n = m
  BY DEF RealIn
<1>3. ASSUME NEW n \in DOMAIN t, n # m \/ q.do = "rename", Placed(w, ops, k, n) PROVE Placed(w, ops, k - 1, n)
  <2> SUFFICES ASSUME NEW l \in DOMAIN ops, w[l] = n, ops[l].do # "rename" PROVE l <= k - 1
    BY DEF Placed
  <2>1. l <= k /\ l # k
    BY <1>3 DEF Placed
  <2> QED
    BY <2>1
<1>4. ASSUME NEW n \in DOMAIN t, n # m \/ q.do = "reparent", Named(w, ops, k, n) PROVE Named(w, ops, k - 1, n)
  <2> SUFFICES ASSUME NEW l \in DOMAIN ops, w[l] = n, ops[l].do # "reparent" PROVE l <= k - 1
    BY DEF Named
  <2>1. l <= k /\ l # k
    BY <1>4 DEF Named
  <2> QED
    BY <2>1
<1>5. \A n \in DOMAIN t :
        /\ Named(w, ops, k - 1, n) => R(n) \in DOMAIN g.elements /\ g.elements[R(n)].name = t[n].name
        /\ Placed(w, ops, k - 1, n) => \A p : Linked(g, p, R(n)) <=> (p = P(n) /\ p # NoOne)
  BY DEF Says
<1>6. \A e \in g.edges : e.source \in DOMAIN g.elements /\ e.target \in DOMAIN g.elements
  BY DEF Whole
<1> SUFFICES ASSUME NEW n \in DOMAIN t
             PROVE  /\ Named(w, ops, k, n) => R(n) \in DOMAIN h.elements /\ h.elements[R(n)].name = t[n].name
                    /\ Placed(w, ops, k, n) => \A p : Linked(h, p, R(n)) <=> (p = P(n) /\ p # NoOne)
  BY DEF Says
<1> DEFINE there == IF q.do # "rename" /\ q.parent \in DOMAIN g.elements THEN q.parent ELSE NoOne
<1>7. q.do # "rename" => there = P(m)
  BY <1>1
<1>8. /\ q.do = "rename" => h = SetName(g, q.id, q.name)
      /\ q.do = "create" => /\ h.elements = AddElement(g, q.id, q.kind, q.name).elements
                            /\ h.edges = g.edges \cup ParentEdge(there, q.id)
      /\ q.do = "reparent" => /\ h.elements = g.elements
                              /\ h.edges = IF q.id \in DOMAIN g.elements THEN MovedEdges(g, q.id, there) ELSE g.edges
  BY <1>0, WriteOpIs
<1> HIDE DEF h, R, P, there, m
<1>9. CASE q.do = "rename"
  <2>1. /\ DOMAIN h.elements = DOMAIN g.elements /\ h.edges = g.edges
        /\ \A j \in DOMAIN g.elements : h.elements[j].name = IF j = q.id THEN q.name ELSE g.elements[j].name
    BY <1>0, <1>8, <1>9, SetNameWhole, SetNameIs
  <2>2. \A p, j : Linked(h, p, j) <=> Linked(g, p, j)
    BY <2>1, LinkedSame
  <2>3. ASSUME Named(w, ops, k, n) PROVE R(n) \in DOMAIN h.elements /\ h.elements[R(n)].name = t[n].name
    <3>1. CASE n = m
      BY <1>1, <1>9, <2>1, <3>1
    <3>2. CASE n # m
      BY <1>1, <1>2, <1>4, <1>5, <2>1, <2>3, <3>2
    <3> QED
      BY <3>1, <3>2
  <2>4. ASSUME Placed(w, ops, k, n), NEW p PROVE Linked(h, p, R(n)) <=> (p = P(n) /\ p # NoOne)
    BY <1>3, <1>5, <1>9, <2>2, <2>4
  <2> QED
    BY <2>3, <2>4
<1>10. CASE q.do = "create"
  <2>1. /\ h.elements = With(g.elements, i, Element(q.kind, q.name)) /\ h.edges = g.edges \cup ParentEdge(P(m), i)
        /\ i \notin DOMAIN g.elements
    BY <1>0, <1>7, <1>8, <1>10, AddElementIs
  <2>2. /\ DOMAIN h.elements = DOMAIN g.elements \cup {i} /\ h.elements[i].name = q.name
        /\ \A j \in DOMAIN g.elements : h.elements[j] = g.elements[j]
    <3> DEFINE x == Element(q.kind, q.name)
               els == g.elements
    <3>1. x.name = q.name
      BY DEF Element
    <3>2. h.elements = [y \in DOMAIN els \cup {i} |-> IF y = i THEN x ELSE els[y]] /\ i \notin DOMAIN els
      BY <2>1 DEF With
    <3> HIDE DEF x, els, i
    <3>3. DOMAIN h.elements = DOMAIN els \cup {i} /\ h.elements[i] = x /\ \A j \in DOMAIN els : h.elements[j] = els[j]
      BY <3>2
    <3> QED
      BY <3>1, <3>3 DEF els
  <2>3. \A p, j : Linked(h, p, j) <=> (Linked(g, p, j) \/ (j = i /\ p = P(m) /\ P(m) # NoOne))
    <3> SUFFICES ASSUME NEW x, NEW j
                 PROVE  Linked(h, x, j) <=> (Linked(g, x, j) \/ (j = i /\ x = P(m) /\ P(m) # NoOne))
      OBVIOUS
    <3> DEFINE more == ParentEdge(P(m), i)
               old  == g.edges
               now  == h.edges
    <3>1. now = old \cup more
      BY <2>1
    <3>2. /\ LinkIn(more, x, j) <=> (j = i /\ x = P(m) /\ P(m) # NoOne)
          /\ Linked(h, x, j) <=> LinkIn(now, x, j)
          /\ Linked(g, x, j) <=> LinkIn(old, x, j)
      BY LinkIs
    <3> HIDE DEF more, old, now
    <3>3. LinkIn(now, x, j) <=> LinkIn(old, x, j) \/ LinkIn(more, x, j)
      BY <3>1 DEF LinkIn
    <3> QED
      BY <3>2, <3>3
  <2>4. ASSUME NEW p, Linked(g, p, i) PROVE FALSE
    <3>1. PICK e \in ContainsOf(g) : e.target = i
      BY <2>4 DEF Linked
    <3>2. e \in g.edges
      BY DEF ContainsOf
    <3> QED
      BY <1>6, <2>1, <3>1, <3>2
  <2>5. ASSUME Named(w, ops, k, n) PROVE R(n) \in DOMAIN h.elements /\ h.elements[R(n)].name = t[n].name
    <3>1. CASE n = m
      BY <1>1, <1>10, <2>2, <3>1
    <3>2. CASE n # m
      BY <1>4, <1>5, <2>2, <2>5, <3>2
    <3> QED
      BY <3>1, <3>2
  <2>6. ASSUME Placed(w, ops, k, n), NEW p PROVE Linked(h, p, R(n)) <=> (p = P(n) /\ p # NoOne)
    <3>1. CASE n = m
      BY <1>1, <2>3, <2>4, <3>1
    <3>2. CASE n # m
      BY <1>1, <1>2, <1>3, <1>5, <2>3, <2>6, <3>2
    <3> QED
      BY <3>1, <3>2
  <2> QED
    BY <2>5, <2>6
<1>11. CASE q.do = "reparent"
  <2>1. h.elements = g.elements /\ h.edges = MovedEdges(g, i, P(m))
    BY <1>7, <1>8, <1>11
  <2>2. \A p, j : Linked(h, p, j) <=> ((j # i /\ Linked(g, p, j)) \/ (j = i /\ p = P(m) /\ P(m) # NoOne))
    BY <2>1, LinkedMoved
  <2>3. ASSUME Named(w, ops, k, n) PROVE R(n) \in DOMAIN h.elements /\ h.elements[R(n)].name = t[n].name
    BY <1>4, <1>5, <1>11, <2>1, <2>3
  <2>4. ASSUME Placed(w, ops, k, n), NEW p PROVE Linked(h, p, R(n)) <=> (p = P(n) /\ p # NoOne)
    <3>1. CASE n = m
      BY <1>1, <2>2, <3>1
    <3>2. CASE n # m
      BY <1>1, <1>2, <1>3, <1>5, <2>2, <2>4, <3>2
    <3> QED
      BY <3>1, <3>2
  <2> QED
    BY <2>3, <2>4
<1> QED
  BY <1>1, <1>9, <1>10, <1>11

-----------------------------------------------------------------------------

(* What is compared of a model: its elements and their parents.              *)
LEMMA SameRead ==
    ASSUME NEW r, NEW s, r.elements = s.elements, ContainsOf(r) = ContainsOf(s), NEW t
    PROVE  DiffOps(r, t) = DiffOps(s, t) /\ (HasErrors(r, t) <=> HasErrors(s, t))
<1>1. \A i : ParentOf(r, i) = ParentOf(s, i)
  BY DEF ParentOf
<1>2. \A n : OpsOf(r, t, n) = OpsOf(s, t, n)
  BY <1>1 DEF OpsOf
<1>3. [n \in DOMAIN t |-> OpsOf(r, t, n)] = [n \in DOMAIN t |-> OpsOf(s, t, n)]
  BY <1>2
<1>4. DiffOps(r, t) = DiffOps(s, t)
  BY <1>3 DEF DiffOps
<1>5. HasErrors(r, t) <=> HasErrors(s, t)
  BY DEF HasErrors
<1> QED
  BY <1>4, <1>5

(* Those of a text do.                                                       *)
LEMMA OpFits ==
    ASSUME NEW s, Whole(s), DOMAIN s.elements \subseteq used, NEW t \in Seq(LineRec), ~HasErrors(s, t),
           NEW ops, IsOps(ops), NEW w, OpsFrom(w, s, t, ops), Len(Created(ops)) <= Len(Unused),
           NEW k \in 1..Len(ops), NEW g,
           DOMAIN g.elements = DOMAIN s.elements \cup {RealIds(ops)[i] : i \in MadeBy(ops, k - 1)}
    PROVE  Fits(RealOps(ops, RealIds(ops))[k], ops[k], RealIds(ops), g)
<1> DEFINE ids == RealIds(ops)
           q   == RealOps(ops, ids)[k]
           op  == ops[k]
           n   == w[k]
<1>1. /\ DOMAIN ids = {ops[l].id : l \in {l \in DOMAIN ops : ops[l].do = "create"}}
      /\ \A i \in DOMAIN ids : i \in Int /\ i < 0 /\ ids[i] \in Id \ used
      /\ \A i, j \in DOMAIN ids : ids[i] = ids[j] => i = j
  BY RealIdsAre
<1>2. DOMAIN g.elements = DOMAIN s.elements \cup {ids[i] : i \in MadeBy(ops, k - 1)}
  OBVIOUS
<1> HIDE DEF ids
<1>3. /\ Len(ops) \in Nat /\ DOMAIN ops = 1..Len(ops) /\ q.do = op.do
      /\ op.do = "rename" => q = op /\ IsRename(q) /\ op.id \in Id /\ op.name \in Name
      /\ op.do = "create" => /\ IsCreate(q) /\ q.id = Real(ids, op.id)
                             /\ q.name = op.name /\ q.parent = Real(ids, op.parent)
      /\ op.do = "reparent" => IsReparent(q) /\ q.id = op.id /\ q.parent = Real(ids, op.parent) /\ op.id \in Id
  <2> DEFINE all == RealOps(ops, ids)
  <2>1. \A i \in DOMAIN ids : i \in Int /\ i < 0
    BY <1>1
  <2>2. /\ Len(ops) \in Nat /\ DOMAIN ops = 1..Len(ops)
        /\ \A l \in 1..Len(ops) :
              /\ all[l].do = ops[l].do
              /\ ops[l].do = "rename" => /\ all[l] = ops[l] /\ IsRename(all[l])
                                         /\ ops[l].id \in Id /\ ops[l].name \in Name
    BY <2>1, RealOpsAre
  <2>3. \A l \in 1..Len(ops) : ops[l].do = "create" => /\ IsCreate(all[l]) /\ all[l].id = Real(ids, ops[l].id)
                                                       /\ all[l].name = ops[l].name
                                                       /\ all[l].parent = Real(ids, ops[l].parent)
    BY <2>1, RealOpsAre
  <2>4. \A l \in 1..Len(ops) : ops[l].do = "reparent" => /\ IsReparent(all[l]) /\ all[l].id = ops[l].id
                                                         /\ all[l].parent = Real(ids, ops[l].parent)
                                                         /\ ops[l].id \in Id
    BY <2>1, RealOpsAre
  <2> HIDE DEF all
  <2> QED
    BY <2>2, <2>3, <2>4 DEF all
<1>4. n \in DOMAIN t /\ OpAt(op, t, n)
  BY <1>3, OpAtIs
<1>5. k \in DOMAIN ops /\ k \in Nat
  BY <1>3
<1>6. /\ \A i \in Id \cup {NoOne} : Real(ids, i) = i
      /\ \A i \in DOMAIN ids : Real(ids, i) = ids[i]
  BY <1>1, RealIs
<1>7. op.do # "rename" => op.parent \in DOMAIN s.elements \cup MadeBy(ops, k - 1) \cup {NoOne}
  BY <1>3, ParentMade
<1>8. \A i \in MadeBy(ops, k - 1) : \E l \in 1..(k - 1) : ops[l].do = "create" /\ i = ops[l].id
  BY DEF MadeBy
<1>9. \A l \in 1..(k - 1) : l \in DOMAIN ops /\ l # k
  BY <1>3, <1>5
<1>10. MadeBy(ops, k - 1) \subseteq DOMAIN ids
  BY <1>1, <1>8, <1>9
<1>11. DOMAIN s.elements \subseteq Id
  BY DEF Whole, IsModel
<1> HIDE DEF q, op, n
<1>12. op.do # "create" => op.id \in DOMAIN g.elements
  <2> SUFFICES ASSUME op.do # "create" PROVE op.id \in DOMAIN g.elements
    OBVIOUS
  <2>1. t[n].anchor # NoOne /\ op.id = RefOf(t, n)
    BY <1>4 DEF OpAt
  <2>2. op.id = t[n].anchor
    BY <1>4, <2>1, RefIs
  <2>3. t[n].anchor \in DOMAIN s.elements
    BY <1>4, <1>11, <2>1, RefsAre
  <2> QED
    BY <1>2, <2>2, <2>3
<1>13. op.do = "create" => q.id \notin DOMAIN g.elements
  <2> SUFFICES ASSUME op.do = "create" PROVE q.id \notin DOMAIN g.elements
    OBVIOUS
  <2>1. op.id \in DOMAIN ids
    BY <1>1, <1>5 DEF op
  <2>2. q.id = ids[op.id] /\ q.id \notin used
    BY <1>1, <1>3, <1>6, <2>1
  <2>3. ASSUME NEW i \in MadeBy(ops, k - 1) PROVE ids[i] # q.id
    <3>1. PICK l \in 1..(k - 1) : ops[l].do = "create" /\ i = ops[l].id
      BY <1>8
    <3>2. i # op.id
      BY <1>5, <1>9, <3>1 DEF IsOps, op
    <3> QED
      BY <1>1, <1>10, <2>1, <2>2, <3>2
  <2> QED
    BY <1>2, <2>2, <2>3
<1>14. op.do # "rename" => Real(ids, op.parent) \in DOMAIN g.elements \cup {NoOne}
  <2>1. CASE op.parent \in MadeBy(ops, k - 1)
    BY <1>2, <1>6, <1>10, <2>1
  <2>2. CASE op.parent \in DOMAIN s.elements \cup {NoOne}
    BY <1>2, <1>6, <1>11, <2>2
  <2> QED
    BY <1>7, <2>1, <2>2
<1>15. op.do \in {"create", "rename", "reparent"}
  BY <1>4 DEF OpAt
<1>16. Fits(q, op, ids, g)
  <2>1. CASE op.do = "rename"
    BY <1>3, <1>6, <1>12, <2>1 DEF Fits
  <2>2. CASE op.do = "create"
    BY <1>3, <1>13, <1>14, <2>2 DEF Fits
  <2>3. CASE op.do = "reparent"
    BY <1>3, <1>6, <1>12, <1>14, <2>3 DEF Fits
  <2> QED
    BY <1>15, <2>1, <2>2, <2>3
<1> QED
  BY <1>16 DEF q, op, ids

(* When all its ops are written the model says what the text says.           *)
LEMMA TextWritten ==
    ASSUME NEW s, Whole(s), DOMAIN s.elements \subseteq used, NEW t \in Seq(LineRec), ~HasErrors(s, t),
           NEW ops, IsOps(ops), NEW w, OpsFrom(w, s, t, ops), Len(Created(ops)) <= Len(Unused)
    PROVE  LET ids == RealIds(ops)
               g   == WriteFold(s, RealOps(ops, ids))
           IN  /\ Whole(g) /\ Says(g, ids, t, w, ops, Len(ops))
               /\ DOMAIN g.elements = DOMAIN s.elements \cup {ids[i] : i \in DOMAIN ids}
<1> DEFINE ids == RealIds(ops)
           c   == Len(ops)
           q   == RealOps(ops, ids)
<1>1. c \in Nat /\ DOMAIN ops = 1..c /\ DOMAIN ops \subseteq Nat \ {0}
  BY ElementOfSeq, LenProperties DEF IsOps
<1>2. PICK f : /\ WriteRun(f, s, q, c)
               /\ \A k \in 0..c : /\ Whole(f[k])
                                  /\ DOMAIN f[k].elements = DOMAIN s.elements \cup {ids[i] : i \in MadeBy(ops, k)}
  BY WrittenSteps
<1>3. \A k \in 1..c : \A g : DOMAIN g.elements = DOMAIN s.elements \cup {ids[i] : i \in MadeBy(ops, k - 1)}
                                => Fits(q[k], ops[k], ids, g)
  BY OpFits
<1>4. RealIn(ids, t, s)
  BY RealRefs
<1>5. DOMAIN ids = {ops[l].id : l \in {l \in DOMAIN ops : ops[l].do = "create"}}
  BY RealIdsAre
<1> HIDE DEF ids, q, c
<1>6. f[0] = s /\ (\A k \in 1..c : f[k] = WriteOp(f[k - 1], q[k])) /\ WriteFold(s, q) = f[c]
  BY <1>2 DEF WriteRun
<1> DEFINE G == {k \in 0..c : Says(f[k], ids, t, w, ops, k)}
<1>7. 0 \in G
  <2>1. 0 \in 0..c
    BY <1>1
  <2>2. Says(s, ids, t, w, ops, 0)
    BY <1>1, <1>4, SaysFirst
  <2> QED
    BY <1>6, <2>1, <2>2
<1>8. ASSUME NEW k \in 1..c, k - 1 \in G PROVE k \in G
  <2> DEFINE g == f[k - 1]
             x == q[k]
  <2>1. k \in 0..c /\ k - 1 \in 0..c /\ k \in DOMAIN ops
    BY <1>1
  <2>2. Whole(g) /\ Says(g, ids, t, w, ops, k - 1)
    BY <1>2, <1>8, <2>1
  <2>3. Fits(x, ops[k], ids, g)
    BY <1>2, <1>3, <2>1
  <2>4. w[k] \in DOMAIN t /\ OpAt(ops[k], t, w[k])
    BY <2>1, OpAtIs
  <2> HIDE DEF g, x
  <2>5. Says(WriteOp(g, x), ids, t, w, ops, k)
    BY <1>1, <1>4, <2>2, <2>3, <2>4, SaysNext DEF Fits
  <2> QED
    BY <1>6, <2>1, <2>5 DEF g, x
<1> HIDE DEF G
<1>9. \A k \in 0..c : k \in G
  BY <1>1, <1>7, <1>8, UpTo
<1>10. c \in 0..c
  BY <1>1
<1>11. Whole(f[c]) /\ Says(f[c], ids, t, w, ops, c)
  BY <1>2, <1>9, <1>10 DEF G
<1>12. MadeBy(ops, c) = DOMAIN ids
  BY <1>1, <1>5 DEF MadeBy
<1>13. DOMAIN f[c].elements = DOMAIN s.elements \cup {ids[i] : i \in DOMAIN ids}
  BY <1>2, <1>10, <1>12
<1> QED
  BY <1>6, <1>11, <1>13 DEF ids, q, c

(* A model that says so of all the text has its elements, names and parents. *)
LEMMA TextHolds ==
    ASSUME NEW s, Whole(s), DOMAIN s.elements \subseteq used, NEW t \in Seq(LineRec), ~HasErrors(s, t),
           NEW ops, IsOps(ops), NEW w, OpsFrom(w, s, t, ops), Len(Created(ops)) <= Len(Unused)
    PROVE  LET ids == RealIds(ops)
               g   == WriteFold(s, RealOps(ops, ids))
           IN  /\ DOMAIN g.elements = {Real(ids, RefOf(t, n)) : n \in DOMAIN t}
               /\ \A n \in DOMAIN t :
                     /\ g.elements[Real(ids, RefOf(t, n))].name = t[n].name
                     /\ ParentOf(g, Real(ids, RefOf(t, n))) = Real(ids, RefOf(t, BlockOf(t, n)))
<1> DEFINE ids == RealIds(ops)
           g   == WriteFold(s, RealOps(ops, ids))
           R(n) == Real(ids, RefOf(t, n))
           P(n) == Real(ids, RefOf(t, BlockOf(t, n)))
           c    == Len(ops)
<1>1. Whole(g) /\ Says(g, ids, t, w, ops, c) /\ DOMAIN g.elements = DOMAIN s.elements \cup {ids[i] : i \in DOMAIN ids}
  BY TextWritten
<1>2. RealIn(ids, t, s)
  BY RealRefs
<1>3. DOMAIN ids = {ops[l].id : l \in {l \in DOMAIN ops : ops[l].do = "create"}}
  BY RealIdsAre
<1>4. DOMAIN ops = 1..c /\ c \in Nat
  BY LenProperties DEF IsOps
<1> HIDE DEF ids, g, c
<1>5. \A n : Named(w, ops, c, n) /\ Placed(w, ops, c, n)
  BY <1>4 DEF Named, Placed
<1>6. \A n \in DOMAIN t : /\ R(n) \in DOMAIN g.elements /\ g.elements[R(n)].name = t[n].name
                          /\ \A p : Linked(g, p, R(n)) <=> (p = P(n) /\ p # NoOne)
  BY <1>1, <1>5 DEF Says
<1> HIDE DEF R, P
<1>7. ASSUME NEW n \in DOMAIN t PROVE ParentOf(g, R(n)) = P(n)
  <2>1. IsModel(g) /\ OneParent(g)
    BY <1>1 DEF Whole
  <2>2. CASE P(n) = NoOne
    BY <1>6, <2>1, <2>2, ParentIs
  <2>3. CASE P(n) # NoOne
    BY <1>6, <2>1, <2>3, ParentIs
  <2> QED
    BY <2>2, <2>3
<1>8. ASSUME NEW i \in DOMAIN g.elements PROVE \E n \in DOMAIN t : i = R(n)
  <2>1. CASE i \in DOMAIN s.elements
    <3>1. DOMAIN s.elements \subseteq Id /\ \A j \in Id : j # NoOne
      BY IdAssumption DEF Whole, IsModel
    <3>2. PICK n \in DOMAIN t : t[n].anchor = i
      BY <2>1, <3>1, RefsAre
    <3>3. t[n].anchor # NoOne
      BY <2>1, <3>1, <3>2
    <3> QED
      BY <1>2, <3>2, <3>3 DEF RealIn, R
  <2>2. CASE \E j \in DOMAIN ids : i = ids[j]
    <3>1. PICK j \in DOMAIN ids : i = ids[j]
      BY <2>2
    <3>2. PICK l \in DOMAIN ops : ops[l].do = "create" /\ j = ops[l].id
      BY <1>3, <3>1
    <3>3. w[l] \in DOMAIN t /\ OpAt(ops[l], t, w[l])
      BY <3>2, OpAtIs
    <3>4. t[w[l]].anchor = NoOne /\ RefOf(t, w[l]) = j
      BY <3>2, <3>3 DEF OpAt
    <3> QED
      BY <1>2, <3>1, <3>3, <3>4 DEF RealIn, R
  <2> QED
    BY <1>1, <2>1, <2>2
<1>9. DOMAIN g.elements = {R(n) : n \in DOMAIN t}
  BY <1>6, <1>8
<1> QED
  BY <1>6, <1>7, <1>9 DEF R, P, g, ids

(* The model says what the text says: ops computed of the model as it is are *)
(* never refused, unless for a blank name, and leave the elements of the     *)
(* text and nothing else, named as in the text and where they are in it.     *)
LEMMA TakenFollows == TypeOK => TextIsTaken
<1> SUFFICES ASSUME TypeOK, NEW h \in Handler, job[h].pc = "check",
                    job[h].read.elements = graph.elements, job[h].read.edges = ContainsOf(graph),
                    \A n \in DOMAIN job[h].text : job[h].text[n].name # Blank
             PROVE  LET j   == job[h]
                        t   == j.text
                        ids == RealIds(j.ops)
                        g   == Written(graph, j.ops, ids)
                    IN  /\ Accepts(graph, j.ops)
                        /\ Len(Created(j.ops)) <= Len(Unused) =>
                              /\ DOMAIN g.elements = {Real(ids, RefOf(t, n)) : n \in DOMAIN t}
                              /\ \A n \in DOMAIN t :
                                    LET i == Real(ids, RefOf(t, n))
                                    IN  /\ g.elements[i].name = t[n].name
                                        /\ ParentOf(g, i) = Real(ids, RefOf(t, BlockOf(t, n)))
  BY DEF TextIsTaken
<1> DEFINE j == job[h]
           t == j.text
           ops == j.ops
<1>1. /\ ops = DiffOps(j.read, t) /\ ~HasErrors(j.read, t) /\ t \in Seq(LineRec)
      /\ Whole(graph) /\ DOMAIN graph.elements \subseteq used
  BY JobIs DEF TypeOK, TJobs, TGraph
<1>2. ContainsOf(j.read) = ContainsOf(graph)
  BY DEF ContainsOf
<1>3. ops = DiffOps(graph, t) /\ ~HasErrors(graph, t)
  BY <1>1, <1>2, SameRead
<1>4. \A n \in DOMAIN t : t[n].name # Blank
  OBVIOUS
<1> HIDE DEF t, ops, j
<1>5. Accepts(graph, ops)
  BY <1>1, <1>3, <1>4, TextAccepted
<1>6. \A ids : Written(graph, ops, ids) = WriteFold(graph, RealOps(ops, ids))
  BY DEF Written, WriteFold
<1>7. IsOps(ops) /\ \E w : OpsFrom(w, graph, t, ops)
  BY <1>1, <1>3, OpsAre
<1>8. PICK w : OpsFrom(w, graph, t, ops)
  BY <1>7
<1>9. ASSUME Len(Created(ops)) <= Len(Unused)
      PROVE  LET ids == RealIds(ops)
                 g   == Written(graph, ops, ids)
             IN  /\ DOMAIN g.elements = {Real(ids, RefOf(t, n)) : n \in DOMAIN t}
                 /\ \A n \in DOMAIN t :
                       LET i == Real(ids, RefOf(t, n))
                       IN  /\ g.elements[i].name = t[n].name
                           /\ ParentOf(g, i) = Real(ids, RefOf(t, BlockOf(t, n)))
  <2> DEFINE ids == RealIds(ops)
             g   == Written(graph, ops, ids)
  <2>1. g = WriteFold(graph, RealOps(ops, ids))
    BY <1>6
  <2>2. LET f == WriteFold(graph, RealOps(ops, ids))
        IN  /\ DOMAIN f.elements = {Real(ids, RefOf(t, n)) : n \in DOMAIN t}
            /\ \A n \in DOMAIN t :
                  /\ f.elements[Real(ids, RefOf(t, n))].name = t[n].name
                  /\ ParentOf(f, Real(ids, RefOf(t, n))) = Real(ids, RefOf(t, BlockOf(t, n)))
    BY <1>1, <1>3, <1>7, <1>8, <1>9, TextHolds
  <2> HIDE DEF ids, g
  <2> QED
    BY <2>1, <2>2 DEF ids, g
<1> QED
  BY <1>5, <1>9 DEF j, t, ops

(* An edit of the model as it was read is taken, and leaves what the text    *)
(* says and nothing else: apply_text_model does to the model what the text   *)
(* asks.                                                                     *)
THEOREM TextIsApplied == Spec => []TextIsTaken
<1>1. Spec => []TypeOK
  BY TypeCorrect
<1> QED
  BY <1>1, TakenFollows, PTL

-----------------------------------------------------------------------------

(* A finite set is of a class that holds every subset all of whose           *)
(* remainders it holds.                                                      *)
LEMMA SubsetInduction ==
    ASSUME NEW S, IsFiniteSet(S), NEW G, {} \in G,
           \A D \in SUBSET S : D # {} /\ (\A x \in D : D \ {x} \in G) => D \in G
    PROVE  S \in G
<1> DEFINE T == {Cardinality(D) : D \in {D \in SUBSET S : D \notin G}}
<1>1. \A D \in SUBSET S : IsFiniteSet(D) /\ Cardinality(D) \in Nat
  BY FS_Subset, FS_CardinalityType
<1>2. T \subseteq Nat
  BY <1>1
<1> SUFFICES ASSUME S \notin G PROVE FALSE
  OBVIOUS
<1>3. Cardinality(S) \in T
  OBVIOUS
<1>4. \A n \in T : \E D \in SUBSET S : D \notin G /\ n = Cardinality(D)
  OBVIOUS
<1>5. \A D \in SUBSET S : D \notin G => Cardinality(D) \in T
  OBVIOUS
<1> HIDE DEF T
<1>6. PICK n \in T : \A m \in T : n <= m
  BY <1>2, <1>3, NatLeast
<1>7. PICK D \in SUBSET S : D \notin G /\ n = Cardinality(D)
  BY <1>4, <1>6
<1>8. PICK x \in D : D \ {x} \notin G
  BY <1>7
<1>9. D \ {x} \in SUBSET S
  OBVIOUS
<1>10. Cardinality(D \ {x}) = n - 1 /\ n \in Nat
  BY <1>1, <1>7, <1>8, FS_RemoveElement
<1>11. Cardinality(D \ {x}) \in T
  BY <1>5, <1>8, <1>9
<1> QED
  BY <1>6, <1>10, <1>11

(* The states a fold of ApplyDiff over a finite set goes through.            *)
LEMMA EntriesSteps ==
    ASSUME NEW b, NEW S, IsFiniteSet(S)
    PROVE  \E f : EntriesRun(f, b, S)
<1> DEFINE Some(D) == CHOOSE x \in D : TRUE
           Upto(n) == {D \in SUBSET S : Cardinality(D) <= n}
           Is(it, n) == it = [D \in Upto(n) |-> IF D = {} THEN b ELSE ApplyDiff(it[D \ {Some(D)}], Some(D))]
           c == Cardinality(S)
           T == {n \in 0..c : ~ \E it : Is(it, n)}
<1>a. \A D \in SUBSET S : IsFiniteSet(D) /\ Cardinality(D) \in Nat
  BY FS_Subset, FS_CardinalityType
<1>b. c \in Nat
  BY <1>a
<1>c. ASSUME NEW D \in SUBSET S, D # {}
      PROVE  Some(D) \in D /\ D \ {Some(D)} \in SUBSET S /\ Cardinality(D \ {Some(D)}) = Cardinality(D) - 1
  <2>1. Some(D) \in D
    BY <1>c
  <2> HIDE DEF Some
  <2> QED
    BY <2>1, <1>a, FS_RemoveElement
<1>d. \A D \in SUBSET S : Cardinality(D) = 0 <=> D = {}
  BY <1>a, FS_EmptySet
<1>e. Upto(c) = SUBSET S
  BY FS_Subset
<1> HIDE DEF Some, c
<1>1. T = {}
  <2> SUFFICES ASSUME T # {} PROVE FALSE
    OBVIOUS
  <2>0. T \subseteq Nat
    BY <1>b
  <2> HIDE DEF T
  <2>1. PICK n \in T : \A m \in T : n <= m
    BY <2>0, NatLeast
  <2>2. n \in 0..c /\ n \in Nat /\ ~ \E it : Is(it, n)
    <3> HIDE DEF Is
    <3>1. n \in 0..c /\ ~ \E it : Is(it, n)
      BY <2>1 DEF T
    <3> QED
      BY <1>b, <3>1
  <2>3. n # 0
    <3> SUFFICES ASSUME n = 0 PROVE FALSE
      OBVIOUS
    <3>1. Is([D \in Upto(0) |-> b], 0)
      <4>1. \A D \in Upto(0) : D = {}
        BY <1>a, <1>d
      <4> QED
        BY <4>1
    <3> QED
      BY <2>2, <3>1
  <2>4. n - 1 \in Nat /\ \E it : Is(it, n - 1)
    <3>1. n - 1 \in 0..c /\ ~(n <= n - 1) /\ n - 1 \in Nat
      BY <1>b, <2>2, <2>3
    <3>2. n - 1 \notin T
      BY <2>1, <3>1
    <3> HIDE DEF Is
    <3> QED
      BY <3>1, <3>2 DEF T
  <2>5. PICK g : Is(g, n - 1)
    BY <2>4
  <2> DEFINE h == [D \in Upto(n) |-> IF D = {} THEN b ELSE ApplyDiff(g[D \ {Some(D)}], Some(D))]
  <2>6. \A D \in Upto(n - 1) : g[D] = IF D = {} THEN b ELSE ApplyDiff(g[D \ {Some(D)}], Some(D))
    BY <2>5
  <2>7. \A D \in Upto(n) : h[D] = IF D = {} THEN b ELSE ApplyDiff(g[D \ {Some(D)}], Some(D))
    OBVIOUS
  <2>8. h = [D \in Upto(n) |-> h[D]]
    OBVIOUS
  <2>9. \A D \in Upto(n - 1) : D \in Upto(n)
    BY <1>a, <2>2, <2>4
  <2>10. \A D \in Upto(n) : D # {} => D \ {Some(D)} \in Upto(n - 1)
    BY <1>a, <1>c, <2>2
  <2> HIDE DEF h, Upto
  <2>11. \A D \in Upto(n - 1) : h[D] = g[D]
    BY <2>6, <2>7, <2>9
  <2>12. \A D \in Upto(n) : h[D] = IF D = {} THEN b ELSE ApplyDiff(h[D \ {Some(D)}], Some(D))
    BY <2>7, <2>10, <2>11
  <2>13. Is(h, n)
    BY <2>8, <2>12
  <2> HIDE DEF Is
  <2> QED
    BY <2>2, <2>13
<1> DEFINE it == CHOOSE it : Is(it, c)
<1>2. it = [D \in SUBSET S |-> IF D = {} THEN b ELSE ApplyDiff(it[D \ {Some(D)}], Some(D))]
  <2>1. c \in 0..c
    BY <1>b
  <2>2. Is(it, c)
    <3> HIDE DEF Is
    <3>2. \E t : Is(t, c)
      BY <1>1, <2>1
    <3> QED
      BY <3>2
  <2> HIDE DEF it, Upto
  <2> QED
    BY <1>e, <2>2
<1>3. ApplyEntries(b, S) = it[S]
  <2>1. \A t : Is(t, c) <=> t = [D \in SUBSET S |-> IF D = {} THEN b ELSE ApplyDiff(t[D \ {Some(D)}], Some(D))]
    <3> HIDE DEF Upto
    <3> QED
      BY <1>e
  <2>2. it = CHOOSE t : t = [D \in SUBSET S |-> IF D = {} THEN b ELSE ApplyDiff(t[D \ {Some(D)}], Some(D))]
    <3> HIDE DEF Is
    <3> QED
      BY <2>1
  <2> HIDE DEF it
  <2> QED
    BY <2>2 DEF ApplyEntries, FoldSet, MapThenFoldSet, Some
<1> HIDE DEF it
<1>4. it[{}] = b
  BY <1>2
<1>5. ASSUME NEW D \in SUBSET S, D # {} PROVE \E x \in D : it[D] = ApplyDiff(it[D \ {x}], x)
  <2>1. it[D] = ApplyDiff(it[D \ {Some(D)}], Some(D))
    BY <1>2, <1>5
  <2> QED
    BY <1>c, <1>5, <2>1
<1>6. EntriesRun(it, b, S)
  BY <1>3, <1>4, <1>5 DEF EntriesRun
<1> QED
  BY <1>6

-----------------------------------------------------------------------------

(* The states a fold of ApplyEntries goes through. *)
LEMMA EntriesFoldSteps ==
    ASSUME NEW b, NEW q, NEW c \in Nat, DOMAIN q = 1..c
    PROVE  \E f : EntriesFoldRun(f, b, q, c)
<1> DEFINE Is(it, n) == it = [s \in SUBSET (1..n) |-> IF s = {} THEN b ELSE ApplyEntries(it[s \ {Max(s)}], q[Max(s)])]
           T == {n \in 0..c : ~ \E it : Is(it, n)}
<1>1. T = {}
  <2> SUFFICES ASSUME T # {} PROVE FALSE
    OBVIOUS
  <2>0. T \subseteq Nat
    OBVIOUS
  <2> HIDE DEF T
  <2>1. PICK n \in T : \A m \in T : n <= m
    BY <2>0, NatLeast
  <2>2. n \in 0..c /\ ~ \E it : Is(it, n)
    BY DEF T
  <2>3. n # 0
    <3> SUFFICES ASSUME n = 0 PROVE FALSE
      OBVIOUS
    <3>1. Is([s \in SUBSET (1..0) |-> b], 0)
      <4>1. \A s \in SUBSET (1..0) : s = {}
        OBVIOUS
      <4> QED
        BY <4>1
    <3> QED
      BY <2>2, <3>1
  <2>4. n - 1 \in Nat /\ n \in Nat /\ \E it : Is(it, n - 1)
    <3>1. n - 1 \in 0..c /\ ~(n <= n - 1) /\ n - 1 \in Nat /\ n \in Nat
      BY <2>2, <2>3
    <3>2. n - 1 \notin T
      BY <2>1, <3>1
    <3> HIDE DEF Is
    <3> QED
      BY <3>1, <3>2 DEF T
  <2>5. PICK g : Is(g, n - 1)
    BY <2>4
  <2> DEFINE h == [s \in SUBSET (1..n) |-> IF n \in s THEN ApplyEntries(g[s \ {n}], q[n]) ELSE g[s]]
  <2>6. \A s \in SUBSET (1..n) : n \notin s => s \in SUBSET (1..(n - 1))
    BY <2>4
  <2>7. \A s \in SUBSET (1..n) : h[s] = IF n \in s THEN ApplyEntries(g[s \ {n}], q[n]) ELSE g[s]
    OBVIOUS
  <2>8. \A s \in SUBSET (1..(n - 1)) : g[s] = IF s = {} THEN b ELSE ApplyEntries(g[s \ {Max(s)}], q[Max(s)])
    BY <2>5
  <2>9. h = [s \in SUBSET (1..n) |-> h[s]]
    OBVIOUS
  <2> HIDE DEF h
  <2>10. ASSUME NEW s \in SUBSET (1..n)
         PROVE  h[s] = IF s = {} THEN b ELSE ApplyEntries(h[s \ {Max(s)}], q[Max(s)])
    <3>1. s \ {Max(s)} \in SUBSET (1..n)
      OBVIOUS
    <3>2. CASE n \in s
      <4>1. Max(s) = n
        BY <2>4, <3>2, MaxIs
      <4>2. h[s \ {n}] = g[s \ {n}]
        BY <2>7, <3>1, <4>1
      <4> QED
        BY <2>7, <3>2, <4>1, <4>2
    <3>3. CASE n \notin s
      <4>1. h[s] = g[s] /\ h[s \ {Max(s)}] = g[s \ {Max(s)}]
        BY <2>7, <3>1, <3>3
      <4> QED
        BY <2>6, <2>8, <3>3, <4>1
    <3> QED
      BY <3>2, <3>3
  <2>11. Is(h, n)
    BY <2>9, <2>10
  <2> HIDE DEF Is
  <2> QED
    BY <2>2, <2>11
<1> DEFINE it == CHOOSE it : Is(it, c)
<1>2. Is(it, c)
  <2>1. c \in 0..c
    OBVIOUS
  <2> HIDE DEF Is
  <2>2. \E t : Is(t, c)
    BY <1>1, <2>1
  <2> QED
    BY <2>2
<1>3. EntriesFold(b, q) = it[1..c]
  BY DEF EntriesFold, FoldLeft, MapThenFoldSet
<1> HIDE DEF it, T
<1>4. \A s \in SUBSET (1..c) : it[s] = IF s = {} THEN b ELSE ApplyEntries(it[s \ {Max(s)}], q[Max(s)])
  BY <1>2
<1> DEFINE f == [k \in 0..c |-> it[1..k]]
<1>5. f[0] = b
  <2>1. 1..0 \in SUBSET (1..c) /\ 1..0 = {} /\ 0 \in 0..c
    OBVIOUS
  <2> QED
    BY <1>4, <2>1
<1>6. ASSUME NEW k \in 1..c PROVE f[k] = ApplyEntries(f[k - 1], q[k])
  <2>1. k \in 0..c /\ k - 1 \in 0..c /\ 1..k \in SUBSET (1..c) /\ k \in 1..k /\ k \in Nat
    OBVIOUS
  <2>2. Max(1..k) = k
    BY <2>1, MaxIs
  <2>3. (1..k) \ {k} = 1..(k - 1)
    BY <2>1
  <2>4. it[1..k] = ApplyEntries(it[1..(k - 1)], q[k])
    BY <1>4, <2>1, <2>2, <2>3
  <2>5. f[k] = it[1..k] /\ f[k - 1] = it[1..(k - 1)]
    BY <2>1
  <2> QED
    BY <2>4, <2>5
<1>7. EntriesFold(b, q) = f[c]
  BY <1>3
<1> HIDE DEF f
<1>8. EntriesFoldRun(f, b, q, c)
  BY <1>5, <1>6, <1>7 DEF EntriesFoldRun
<1> QED
  BY <1>8

(* Five sets of entries, one after the other.                                *)
LEMMA FiveSets ==
    ASSUME NEW b, NEW q, DOMAIN q = 1..5
    PROVE  FoldLeft(ApplyEntries, b, q)
           = ApplyEntries(ApplyEntries(ApplyEntries(ApplyEntries(ApplyEntries(b, q[1]), q[2]), q[3]), q[4]), q[5])
<1>1. PICK f : EntriesFoldRun(f, b, q, 5)
  BY EntriesFoldSteps
<1>2. f[0] = b /\ EntriesFold(b, q) = f[5] /\ \A k \in 1..5 : f[k] = ApplyEntries(f[k - 1], q[k])
  BY <1>1 DEF EntriesFoldRun
<1>3. f[1] = ApplyEntries(f[0], q[1])
  BY <1>2
<1>4. f[2] = ApplyEntries(f[1], q[2])
  BY <1>2
<1>5. f[3] = ApplyEntries(f[2], q[3])
  BY <1>2
<1>6. f[4] = ApplyEntries(f[3], q[4])
  BY <1>2
<1>7. f[5] = ApplyEntries(f[4], q[5])
  BY <1>2
<1>8. EntriesFold(b, q) = ApplyEntries(ApplyEntries(ApplyEntries(ApplyEntries(ApplyEntries(b, q[1]), q[2]), q[3]), q[4]), q[5])
  BY <1>2, <1>3, <1>4, <1>5, <1>6, <1>7
<1> QED
  BY <1>8 DEF EntriesFold

(* What maps to the members of a finite set is finite.                       *)
LEMMA FiniteImage ==
    ASSUME NEW S, IsFiniteSet(S), NEW g, DOMAIN g = S
    PROVE  IsFiniteSet({g[x] : x \in S})
<1> DEFINE h == [x \in S |-> g[x]]
           R == {g[x] : x \in S}
<1>1. h \in Surjection(S, R)
  BY DEF Surjection
<1> QED
  BY <1>1, FS_Surjection

(* The entries about elements are finitely many.                             *)
LEMMA ElementEntriesAre ==
    ASSUME NEW old, NEW new, IsSnapshot(old), IsSnapshot(new)
    PROVE  /\ IsFiniteSet(ElementEntries(old, new))
           /\ \A x \in ElementEntries(old, new) :
                 \/ \E i \in Differ(old, new, "name") : x = RenamedTo(new, i)
                 \/ \E i \in Differ(old, new, "active") : x = ActiveTo(new, i)
                 \/ \E i \in Differ(old, new, "origin") : x = OriginTo(new, i)
                 \/ \E i \in Came(old, new) : x = CreatedAs(new, i)
           /\ \A i \in Differ(old, new, "name") : RenamedTo(new, i) \in ElementEntries(old, new)
           /\ \A i \in Differ(old, new, "active") : ActiveTo(new, i) \in ElementEntries(old, new)
           /\ \A i \in Differ(old, new, "origin") : OriginTo(new, i) \in ElementEntries(old, new)
           /\ \A i \in Came(old, new) : CreatedAs(new, i) \in ElementEntries(old, new)
<1> DEFINE A == {RenamedTo(new, i) : i \in Differ(old, new, "name")}
           B == {ActiveTo(new, i) : i \in Differ(old, new, "active")}
           C == {OriginTo(new, i) : i \in Differ(old, new, "origin")}
           E == {CreatedAs(new, i) : i \in Came(old, new)}
<1>1. ElementEntries(old, new) = A \cup B \cup C \cup E
  BY DEF ElementEntries, RenamedTo, ActiveTo, OriginTo, CreatedAs, Came
<1>2. \A field : IsFiniteSet(Differ(old, new, field))
  BY FS_Subset DEF Differ, IsSnapshot
<1>3. IsFiniteSet(Came(old, new))
  BY FS_Subset DEF Came, IsSnapshot
<1>4. IsFiniteSet(A)
  <2> DEFINE g == [i \in Differ(old, new, "name") |-> RenamedTo(new, i)]
  <2>1. A = {g[i] : i \in Differ(old, new, "name")}
    OBVIOUS
  <2>2. DOMAIN g = Differ(old, new, "name")
    OBVIOUS
  <2> HIDE DEF g, A
  <2> QED
    BY <1>2, <2>1, <2>2, FiniteImage
<1>5. IsFiniteSet(B)
  <2> DEFINE g == [i \in Differ(old, new, "active") |-> ActiveTo(new, i)]
  <2>1. B = {g[i] : i \in Differ(old, new, "active")}
    OBVIOUS
  <2>2. DOMAIN g = Differ(old, new, "active")
    OBVIOUS
  <2> HIDE DEF g, B
  <2> QED
    BY <1>2, <2>1, <2>2, FiniteImage
<1>6. IsFiniteSet(C)
  <2> DEFINE g == [i \in Differ(old, new, "origin") |-> OriginTo(new, i)]
  <2>1. C = {g[i] : i \in Differ(old, new, "origin")}
    OBVIOUS
  <2>2. DOMAIN g = Differ(old, new, "origin")
    OBVIOUS
  <2> HIDE DEF g, C
  <2> QED
    BY <1>2, <2>1, <2>2, FiniteImage
<1>7. IsFiniteSet(E)
  <2> DEFINE g == [i \in Came(old, new) |-> CreatedAs(new, i)]
  <2>1. E = {g[i] : i \in Came(old, new)}
    OBVIOUS
  <2>2. DOMAIN g = Came(old, new)
    OBVIOUS
  <2> HIDE DEF g, E
  <2> QED
    BY <1>3, <2>1, <2>2, FiniteImage
<1>8. IsFiniteSet(ElementEntries(old, new))
  <2> HIDE DEF A, B, C, E
  <2> QED
    BY <1>1, <1>4, <1>5, <1>6, <1>7, FS_Union
<1>9. \A x \in ElementEntries(old, new) :
          \/ \E i \in Differ(old, new, "name") : x = RenamedTo(new, i)
          \/ \E i \in Differ(old, new, "active") : x = ActiveTo(new, i)
          \/ \E i \in Differ(old, new, "origin") : x = OriginTo(new, i)
          \/ \E i \in Came(old, new) : x = CreatedAs(new, i)
  BY <1>1
<1>10. /\ \A i \in Differ(old, new, "name") : RenamedTo(new, i) \in ElementEntries(old, new)
       /\ \A i \in Differ(old, new, "active") : ActiveTo(new, i) \in ElementEntries(old, new)
       /\ \A i \in Differ(old, new, "origin") : OriginTo(new, i) \in ElementEntries(old, new)
       /\ \A i \in Came(old, new) : CreatedAs(new, i) \in ElementEntries(old, new)
  BY <1>1
<1> QED
  BY <1>8, <1>9, <1>10

-----------------------------------------------------------------------------

(* Entries of different sorts, or of different elements, are different.      *)
LEMMA ElementEntriesDiffer ==
    ASSUME NEW s, NEW i, NEW j
    PROVE  /\ RenamedTo(s, i) # ActiveTo(s, j)
           /\ RenamedTo(s, i) # OriginTo(s, j)
           /\ RenamedTo(s, i) # CreatedAs(s, j)
           /\ ActiveTo(s, i) # OriginTo(s, j)
           /\ ActiveTo(s, i) # CreatedAs(s, j)
           /\ OriginTo(s, i) # CreatedAs(s, j)
           /\ i # j => /\ RenamedTo(s, i) # RenamedTo(s, j)
                       /\ ActiveTo(s, i) # ActiveTo(s, j)
                       /\ OriginTo(s, i) # OriginTo(s, j)
                       /\ CreatedAs(s, i) # CreatedAs(s, j)
<1>1. /\ RenamedTo(s, i).do = "renamed" /\ RenamedTo(s, j).do = "renamed"
      /\ ActiveTo(s, i).do = "active" /\ ActiveTo(s, j).do = "active"
      /\ OriginTo(s, i).do = "origin" /\ OriginTo(s, j).do = "origin"
      /\ CreatedAs(s, i).do = "created" /\ CreatedAs(s, j).do = "created"
  BY DEF RenamedTo, ActiveTo, OriginTo, CreatedAs
<1>2. /\ RenamedTo(s, i).id = i /\ RenamedTo(s, j).id = j
      /\ ActiveTo(s, i).id = i /\ ActiveTo(s, j).id = j
      /\ OriginTo(s, i).id = i /\ OriginTo(s, j).id = j
      /\ CreatedAs(s, i).id = i /\ CreatedAs(s, j).id = j
  BY DEF RenamedTo, ActiveTo, OriginTo, CreatedAs
<1>3. /\ RenamedTo(s, i) # ActiveTo(s, j)
      /\ RenamedTo(s, i) # OriginTo(s, j)
      /\ RenamedTo(s, i) # CreatedAs(s, j)
  BY <1>1
<1>4. /\ ActiveTo(s, i) # OriginTo(s, j)
      /\ ActiveTo(s, i) # CreatedAs(s, j)
      /\ OriginTo(s, i) # CreatedAs(s, j)
  BY <1>1
<1>5. i # j => /\ RenamedTo(s, i) # RenamedTo(s, j)
               /\ ActiveTo(s, i) # ActiveTo(s, j)
               /\ OriginTo(s, i) # OriginTo(s, j)
               /\ CreatedAs(s, i) # CreatedAs(s, j)
  BY <1>2
<1> QED
  BY <1>3, <1>4, <1>5

(* A change of one field of one element of a snapshot, by its entry.         *)
LEMMA FieldApplied ==
    ASSUME NEW E, NEW edges, NEW bodies, NEW s, NEW i \in DOMAIN E,
           \A j \in DOMAIN E : IsElement(E[j]), E = [j \in DOMAIN E |-> E[j]]
    PROVE  LET r == [elements |-> E, edges |-> edges, bodies |-> bodies]
               Put(e) == [elements |-> [j \in DOMAIN E |-> IF j = i THEN e ELSE E[j]],
                          edges |-> edges, bodies |-> bodies]
           IN  /\ ApplyDiff(r, RenamedTo(s, i))
                  = Put([kind |-> E[i].kind, name |-> s.elements[i].name,
                         active |-> E[i].active, origin |-> E[i].origin])
               /\ ApplyDiff(r, ActiveTo(s, i))
                  = Put([kind |-> E[i].kind, name |-> E[i].name,
                         active |-> s.elements[i].active, origin |-> E[i].origin])
               /\ ApplyDiff(r, OriginTo(s, i))
                  = Put([kind |-> E[i].kind, name |-> E[i].name,
                         active |-> E[i].active, origin |-> s.elements[i].origin])
<1> DEFINE r == [elements |-> E, edges |-> edges, bodies |-> bodies]
           Put(e) == [elements |-> [j \in DOMAIN E |-> IF j = i THEN e ELSE E[j]],
                      edges |-> edges, bodies |-> bodies]
<1>1. IsElement(E[i])
  OBVIOUS
<1>2. ApplyDiff(r, RenamedTo(s, i)) = [r EXCEPT !.elements[i].name = s.elements[i].name]
  BY DEF ApplyDiff, RenamedTo, SetName
<1>3. ApplyDiff(r, ActiveTo(s, i)) = [r EXCEPT !.elements[i].active = s.elements[i].active]
  BY DEF ApplyDiff, ActiveTo
<1>4. ApplyDiff(r, OriginTo(s, i)) = [r EXCEPT !.elements[i].origin = s.elements[i].origin]
  BY DEF ApplyDiff, OriginTo
<1>5. ASSUME NEW v PROVE [r EXCEPT !.elements[i].name = v]
        = Put([kind |-> E[i].kind, name |-> v, active |-> E[i].active, origin |-> E[i].origin])
  BY <1>1 DEF IsElement
<1>6. ASSUME NEW v PROVE [r EXCEPT !.elements[i].active = v]
        = Put([kind |-> E[i].kind, name |-> E[i].name, active |-> v, origin |-> E[i].origin])
  BY <1>1 DEF IsElement
<1>7. ASSUME NEW v PROVE [r EXCEPT !.elements[i].origin = v]
        = Put([kind |-> E[i].kind, name |-> E[i].name, active |-> E[i].active, origin |-> v])
  BY <1>1 DEF IsElement
<1> HIDE DEF r, Put
<1>8. /\ ApplyDiff(r, RenamedTo(s, i))
         = Put([kind |-> E[i].kind, name |-> s.elements[i].name,
                active |-> E[i].active, origin |-> E[i].origin])
      /\ ApplyDiff(r, ActiveTo(s, i))
         = Put([kind |-> E[i].kind, name |-> E[i].name,
                active |-> s.elements[i].active, origin |-> E[i].origin])
      /\ ApplyDiff(r, OriginTo(s, i))
         = Put([kind |-> E[i].kind, name |-> E[i].name,
                active |-> E[i].active, origin |-> s.elements[i].origin])
  BY <1>2, <1>3, <1>4, <1>5, <1>6, <1>7
<1> QED
  BY <1>8 DEF r, Put

-----------------------------------------------------------------------------

(* What the entries of D make of the elements are elements.                  *)
LEMMA ElementsAfterAre ==
    ASSUME NEW old, NEW new, NEW D
    PROVE  /\ DOMAIN ElementsAfter(old, new, D) = ThereAfter(old, new, D)
           /\ ElementsAfter(old, new, D)
              = [j \in DOMAIN ElementsAfter(old, new, D) |-> ElementsAfter(old, new, D)[j]]
           /\ \A j \in ThereAfter(old, new, D) :
                 /\ ElementsAfter(old, new, D)[j] = ElementAfter(old, new, D, j)
                 /\ IsElement(ElementAfter(old, new, D, j))
<1>1. \A j : IsElement(ElementAfter(old, new, D, j))
  BY DEF ElementAfter, IsElement, Element
<1> QED
  BY <1>1 DEF ElementsAfter

(* One more entry of an element both have.                                   *)
LEMMA FieldStep ==
    ASSUME NEW old, NEW new, NEW D, NEW x \in D, NEW i \in DOMAIN old.elements,
           \/ i \in Differ(old, new, "name") /\ x = RenamedTo(new, i)
           \/ i \in Differ(old, new, "active") /\ x = ActiveTo(new, i)
           \/ i \in Differ(old, new, "origin") /\ x = OriginTo(new, i)
    PROVE  ApplyDiff(ElementStage(old, new, D \ {x}), x) = ElementStage(old, new, D)
<1> DEFINE C == D \ {x}
           E == ElementsAfter(old, new, C)
           Put(e) == [elements |-> [j \in DOMAIN E |-> IF j = i THEN e ELSE E[j]],
                      edges |-> old.edges, bodies |-> old.bodies]
<1>1. \A y : y # x => (y \in C <=> y \in D)
  OBVIOUS
<1>2. x \notin C /\ x \in D
  OBVIOUS
<1> HIDE DEF C
<1>3. \A j : CreatedAs(new, j) # x
  BY ElementEntriesDiffer
<1>4. ThereAfter(old, new, C) = ThereAfter(old, new, D)
  BY <1>1, <1>3 DEF ThereAfter
<1>5. i \in DOMAIN E /\ DOMAIN E = ThereAfter(old, new, D)
      /\ \A j \in DOMAIN E : E[j] = ElementAfter(old, new, C, j) /\ IsElement(E[j])
  <2>1. i \in ThereAfter(old, new, C)
    BY DEF ThereAfter
  <2>2. DOMAIN E = ThereAfter(old, new, C)
    BY ElementsAfterAre
  <2>3. \A j \in ThereAfter(old, new, C) : E[j] = ElementAfter(old, new, C, j) /\ IsElement(ElementAfter(old, new, C, j))
    BY ElementsAfterAre
  <2> HIDE DEF E
  <2>4. \A j \in DOMAIN E : E[j] = ElementAfter(old, new, C, j) /\ IsElement(E[j])
    BY <2>2, <2>3
  <2> QED
    BY <1>4, <2>1, <2>2, <2>4
<1>6. E = [j \in DOMAIN E |-> E[j]]
  BY ElementsAfterAre
<1>7. \A j : j # i => /\ RenamedTo(new, j) # x
                      /\ ActiveTo(new, j) # x
                      /\ OriginTo(new, j) # x
  BY ElementEntriesDiffer
<1>8. \A j : j # i => ElementAfter(old, new, C, j) = ElementAfter(old, new, D, j)
  BY <1>1, <1>7 DEF ElementAfter, NameAfter, ActiveAfter, OriginAfter
<1>9. ElementAfter(old, new, D, i)
      = [kind |-> old.elements[i].kind, name |-> NameAfter(old, new, D, i),
         active |-> ActiveAfter(old, new, D, i), origin |-> OriginAfter(old, new, D, i)]
  BY DEF ElementAfter
<1>10. E[i] = [kind |-> old.elements[i].kind, name |-> NameAfter(old, new, C, i),
               active |-> ActiveAfter(old, new, C, i), origin |-> OriginAfter(old, new, C, i)]
  BY <1>5 DEF ElementAfter
<1>11. Put(ElementAfter(old, new, D, i)) = ElementStage(old, new, D)
  <2>1. [j \in DOMAIN E |-> IF j = i THEN ElementAfter(old, new, D, i) ELSE E[j]]
        = ElementsAfter(old, new, D)
    <3> HIDE DEF E
    <3> QED
      BY <1>5, <1>8 DEF ElementsAfter
  <2> HIDE DEF E
  <2> QED
    BY <2>1 DEF ElementStage
<1>12. /\ ApplyDiff([elements |-> E, edges |-> old.edges, bodies |-> old.bodies], RenamedTo(new, i))
          = Put([kind |-> E[i].kind, name |-> new.elements[i].name,
                 active |-> E[i].active, origin |-> E[i].origin])
       /\ ApplyDiff([elements |-> E, edges |-> old.edges, bodies |-> old.bodies], ActiveTo(new, i))
          = Put([kind |-> E[i].kind, name |-> E[i].name,
                 active |-> new.elements[i].active, origin |-> E[i].origin])
       /\ ApplyDiff([elements |-> E, edges |-> old.edges, bodies |-> old.bodies], OriginTo(new, i))
          = Put([kind |-> E[i].kind, name |-> E[i].name,
                 active |-> E[i].active, origin |-> new.elements[i].origin])
  <2> HIDE DEF E
  <2> QED
    BY <1>5, <1>6, FieldApplied
<1>13. ElementStage(old, new, C) = [elements |-> E, edges |-> old.edges, bodies |-> old.bodies]
  BY DEF ElementStage
<1>14. CASE i \in Differ(old, new, "name") /\ x = RenamedTo(new, i)
  <2>1. x # ActiveTo(new, i) /\ x # OriginTo(new, i)
    BY <1>14, ElementEntriesDiffer
  <2>2. /\ NameAfter(old, new, D, i) = new.elements[i].name
        /\ ActiveAfter(old, new, D, i) = ActiveAfter(old, new, C, i)
        /\ OriginAfter(old, new, D, i) = OriginAfter(old, new, C, i)
    BY <1>1, <1>2, <1>14, <2>1 DEF NameAfter, ActiveAfter, OriginAfter
  <2>3. ElementAfter(old, new, D, i) = [kind |-> E[i].kind, name |-> new.elements[i].name,
                                        active |-> E[i].active, origin |-> E[i].origin]
    <3> HIDE DEF E
    <3> QED
      BY <1>9, <1>10, <2>2
  <2> HIDE DEF E, Put
  <2> QED
    BY <1>11, <1>12, <1>13, <1>14, <2>3 DEF C
<1>15. CASE i \in Differ(old, new, "active") /\ x = ActiveTo(new, i)
  <2>1. x # RenamedTo(new, i) /\ x # OriginTo(new, i)
    BY <1>15, ElementEntriesDiffer
  <2>2. /\ NameAfter(old, new, D, i) = NameAfter(old, new, C, i)
        /\ ActiveAfter(old, new, D, i) = new.elements[i].active
        /\ OriginAfter(old, new, D, i) = OriginAfter(old, new, C, i)
    BY <1>1, <1>2, <1>15, <2>1 DEF NameAfter, ActiveAfter, OriginAfter
  <2>3. ElementAfter(old, new, D, i) = [kind |-> E[i].kind, name |-> E[i].name,
                                        active |-> new.elements[i].active, origin |-> E[i].origin]
    <3> HIDE DEF E
    <3> QED
      BY <1>9, <1>10, <2>2
  <2> HIDE DEF E, Put
  <2> QED
    BY <1>11, <1>12, <1>13, <1>15, <2>3 DEF C
<1>16. CASE i \in Differ(old, new, "origin") /\ x = OriginTo(new, i)
  <2>1. x # RenamedTo(new, i) /\ x # ActiveTo(new, i)
    BY <1>16, ElementEntriesDiffer
  <2>2. /\ NameAfter(old, new, D, i) = NameAfter(old, new, C, i)
        /\ ActiveAfter(old, new, D, i) = ActiveAfter(old, new, C, i)
        /\ OriginAfter(old, new, D, i) = new.elements[i].origin
    BY <1>1, <1>2, <1>16, <2>1 DEF NameAfter, ActiveAfter, OriginAfter
  <2>3. ElementAfter(old, new, D, i) = [kind |-> E[i].kind, name |-> E[i].name,
                                        active |-> E[i].active, origin |-> new.elements[i].origin]
    <3> HIDE DEF E
    <3> QED
      BY <1>9, <1>10, <2>2
  <2> HIDE DEF E, Put
  <2> QED
    BY <1>11, <1>12, <1>13, <1>16, <2>3 DEF C
<1> QED
  BY <1>14, <1>15, <1>16

(* One more entry of an element that came.                                   *)
LEMMA CreatedStep ==
    ASSUME NEW old, NEW new, NEW D, NEW i \in Came(old, new), CreatedAs(new, i) \in D
    PROVE  ApplyDiff(ElementStage(old, new, D \ {CreatedAs(new, i)}), CreatedAs(new, i))
           = ElementStage(old, new, D)
<1> DEFINE x == CreatedAs(new, i)
           C == D \ {x}
           E == ElementsAfter(old, new, C)
           r == [elements |-> E, edges |-> old.edges, bodies |-> old.bodies]
<1>1. \A y : y # x => (y \in C <=> y \in D)
  OBVIOUS
<1>2. x \notin C /\ x \in D /\ i \notin DOMAIN old.elements
  BY DEF Came
<1> HIDE DEF C
<1>3. \A j : /\ RenamedTo(new, j) # x
             /\ ActiveTo(new, j) # x
             /\ OriginTo(new, j) # x
             /\ j # i => CreatedAs(new, j) # x
  BY ElementEntriesDiffer
<1>4. \A j : ElementAfter(old, new, C, j) = ElementAfter(old, new, D, j)
  BY <1>1, <1>3 DEF ElementAfter, NameAfter, ActiveAfter, OriginAfter, x
<1>5. ThereAfter(old, new, D) = ThereAfter(old, new, C) \cup {i} /\ i \notin ThereAfter(old, new, C)
  BY <1>1, <1>2, <1>3 DEF ThereAfter
<1>6. DOMAIN E = ThereAfter(old, new, C)
      /\ \A j \in DOMAIN E : E[j] = ElementAfter(old, new, D, j)
  BY <1>4, ElementsAfterAre
<1>7. ElementAfter(old, new, D, i) = Element(new.elements[i].kind, new.elements[i].name)
  BY <1>2 DEF ElementAfter
<1>8. ApplyDiff(r, x) = AddElement(r, i, new.elements[i].kind, new.elements[i].name)
  BY DEF ApplyDiff, CreatedAs
<1>9. AddElement(r, i, new.elements[i].kind, new.elements[i].name)
      = [elements |-> With(E, i, ElementAfter(old, new, D, i)), edges |-> old.edges, bodies |-> old.bodies]
  <2> HIDE DEF E
  <2> QED
    BY <1>5, <1>6, <1>7 DEF AddElement
<1>10. With(E, i, ElementAfter(old, new, D, i)) = ElementsAfter(old, new, D)
  <2> HIDE DEF E
  <2> QED
    BY <1>5, <1>6 DEF With, ElementsAfter
<1>11. r = ElementStage(old, new, C)
  BY DEF ElementStage
<1> HIDE DEF r, E
<1> QED
  BY <1>8, <1>9, <1>10, <1>11 DEF ElementStage, C

-----------------------------------------------------------------------------

(* The entries about elements, in any order, bring what came and change what *)
(* stays.                                                                    *)
LEMMA ElementsReplay ==
    ASSUME NEW old, NEW new, IsSnapshot(old), IsSnapshot(new), Expressible(old, new)
    PROVE  ApplyEntries(old, ElementEntries(old, new))
           = [elements |-> Joined(old, new), edges |-> old.edges, bodies |-> old.bodies]
<1> DEFINE S == ElementEntries(old, new)
<1>1. IsFiniteSet(S)
  BY ElementEntriesAre
<1>2. \A x \in S :
          \/ \E i \in Differ(old, new, "name") : x = RenamedTo(new, i)
          \/ \E i \in Differ(old, new, "active") : x = ActiveTo(new, i)
          \/ \E i \in Differ(old, new, "origin") : x = OriginTo(new, i)
          \/ \E i \in Came(old, new) : x = CreatedAs(new, i)
  BY ElementEntriesAre
<1>3. /\ \A i \in Differ(old, new, "name") : RenamedTo(new, i) \in S
      /\ \A i \in Differ(old, new, "active") : ActiveTo(new, i) \in S
      /\ \A i \in Differ(old, new, "origin") : OriginTo(new, i) \in S
      /\ \A i \in Came(old, new) : CreatedAs(new, i) \in S
  BY ElementEntriesAre
<1> HIDE DEF S
<1>4. PICK f : EntriesRun(f, old, S)
  BY <1>1, EntriesSteps
<1> DEFINE G == {D \in SUBSET S : f[D] = ElementStage(old, new, D)}
<1>5. ElementStage(old, new, {}) = old
  <2>1. ElementsAfter(old, new, {}) = old.elements
    <3>1. ThereAfter(old, new, {}) = DOMAIN old.elements
      BY DEF ThereAfter
    <3>2. \A i \in DOMAIN old.elements : ElementAfter(old, new, {}, i) = old.elements[i]
      BY DEF ElementAfter, NameAfter, ActiveAfter, OriginAfter, IsSnapshot, IsElement
    <3> QED
      BY <3>1, <3>2 DEF ElementsAfter, IsSnapshot
  <2> QED
    BY <2>1 DEF ElementStage, IsSnapshot, Snap
<1>6. {} \in G
  BY <1>4, <1>5 DEF EntriesRun
<1>7. ASSUME NEW D \in SUBSET S, D # {}, \A x \in D : D \ {x} \in G
      PROVE  D \in G
  <2>1. PICK x \in D : f[D] = ApplyDiff(f[D \ {x}], x)
    BY <1>4, <1>7 DEF EntriesRun
  <2>2. f[D \ {x}] = ElementStage(old, new, D \ {x})
    BY <1>7
  <2>3. ApplyDiff(ElementStage(old, new, D \ {x}), x) = ElementStage(old, new, D)
    <3>1. CASE \E i \in Differ(old, new, "name") : x = RenamedTo(new, i)
      <4>1. PICK i \in Differ(old, new, "name") : x = RenamedTo(new, i)
        BY <3>1
      <4>2. i \in DOMAIN old.elements
        BY DEF Differ
      <4> QED
        BY <4>1, <4>2, FieldStep
    <3>2. CASE \E i \in Differ(old, new, "active") : x = ActiveTo(new, i)
      <4>1. PICK i \in Differ(old, new, "active") : x = ActiveTo(new, i)
        BY <3>2
      <4>2. i \in DOMAIN old.elements
        BY DEF Differ
      <4> QED
        BY <4>1, <4>2, FieldStep
    <3>3. CASE \E i \in Differ(old, new, "origin") : x = OriginTo(new, i)
      <4>1. PICK i \in Differ(old, new, "origin") : x = OriginTo(new, i)
        BY <3>3
      <4>2. i \in DOMAIN old.elements
        BY DEF Differ
      <4> QED
        BY <4>1, <4>2, FieldStep
    <3>4. CASE \E i \in Came(old, new) : x = CreatedAs(new, i)
      BY <3>4, CreatedStep
    <3> QED
      BY <1>2, <3>1, <3>2, <3>3, <3>4
  <2> QED
    BY <2>1, <2>2, <2>3
<1>8. S \in G
  <2> HIDE DEF G
  <2> QED
    BY <1>1, <1>6, <1>7, SubsetInduction
<1>9. ApplyEntries(old, S) = ElementStage(old, new, S)
  BY <1>4, <1>8 DEF EntriesRun
<1>10. ElementsAfter(old, new, S) = Joined(old, new)
  <2>1. ThereAfter(old, new, S) = DOMAIN old.elements \cup DOMAIN new.elements
    BY <1>3 DEF ThereAfter, Came
  <2>2. ASSUME NEW i \in DOMAIN old.elements \cup DOMAIN new.elements
        PROVE  ElementAfter(old, new, S, i) = Joined(old, new)[i]
    <3>1. CASE i \in Came(old, new)
      <4>1. new.elements[i] = Element(new.elements[i].kind, new.elements[i].name)
        BY <3>1 DEF Came, Expressible
      <4> QED
        BY <3>1, <4>1 DEF Came, ElementAfter, Joined
    <3>2. CASE i \in DOMAIN old.elements /\ i \notin DOMAIN new.elements
      <4>1. /\ NameAfter(old, new, S, i) = old.elements[i].name
            /\ ActiveAfter(old, new, S, i) = old.elements[i].active
            /\ OriginAfter(old, new, S, i) = old.elements[i].origin
        BY <3>2 DEF NameAfter, ActiveAfter, OriginAfter, Differ
      <4>2. IsElement(old.elements[i])
        BY <3>2 DEF IsSnapshot
      <4> QED
        BY <3>2, <4>1, <4>2 DEF ElementAfter, Joined, IsElement
    <3>3. CASE i \in DOMAIN old.elements /\ i \in DOMAIN new.elements
      <4>1. NameAfter(old, new, S, i) = new.elements[i].name
        BY <1>3, <3>3 DEF NameAfter, Differ
      <4>2. ActiveAfter(old, new, S, i) = new.elements[i].active
        BY <1>3, <3>3 DEF ActiveAfter, Differ
      <4>3. OriginAfter(old, new, S, i) = new.elements[i].origin
        BY <1>3, <3>3 DEF OriginAfter, Differ
      <4>4. new.elements[i].kind = old.elements[i].kind
        BY <3>3 DEF Expressible
      <4>5. IsElement(new.elements[i])
        BY <3>3 DEF IsSnapshot
      <4> QED
        BY <3>3, <4>1, <4>2, <4>3, <4>4, <4>5 DEF ElementAfter, Joined, IsElement
    <3> QED
      BY <3>1, <3>2, <3>3 DEF Came
  <2>3. Joined(old, new) = [i \in DOMAIN old.elements \cup DOMAIN new.elements |-> Joined(old, new)[i]]
    BY DEF Joined
  <2> QED
    BY <2>1, <2>2, <2>3 DEF ElementsAfter
<1> QED
  BY <1>9, <1>10 DEF ElementStage, S

-----------------------------------------------------------------------------

(* One more element goes.                                                    *)
LEMMA DeletedStep ==
    ASSUME NEW s, NEW X, NEW i \in X
    PROVE  ApplyDiff(LeftWithout(s, X \ {i}), DeletedIs(i)) = LeftWithout(s, X)
<1> DEFINE r == LeftWithout(s, X \ {i})
<1>1. ApplyDiff(r, DeletedIs(i)) = Removed(r, i)
  BY DEF ApplyDiff, DeletedIs
<1>2. Without(r.elements, i) = LeftWithout(s, X).elements
  BY DEF LeftWithout, Without
<1>3. Without(r.bodies, i) = LeftWithout(s, X).bodies
  BY DEF LeftWithout, Without
<1>4. {e \in r.edges : i \notin {e.source, e.target}} = LeftWithout(s, X).edges
  BY DEF LeftWithout
<1> HIDE DEF r
<1>5. Removed(r, i) = [elements |-> LeftWithout(s, X).elements, bodies |-> LeftWithout(s, X).bodies,
                       edges |-> LeftWithout(s, X).edges]
  BY <1>2, <1>3, <1>4 DEF Removed
<1> QED
  BY <1>1, <1>5 DEF r, LeftWithout

(* The entries of what went, in any order, leave what stays.                 *)
LEMMA DeletedReplay ==
    ASSUME NEW old, NEW new, NEW s, IsSnapshot(old),
           s = [elements |-> s.elements, edges |-> s.edges, bodies |-> s.bodies],
           s.elements = [i \in DOMAIN s.elements |-> s.elements[i]],
           s.bodies = [i \in DOMAIN s.bodies |-> s.bodies[i]]
    PROVE  ApplyEntries(s, DeletedEntries(old, new)) = LeftWithout(s, Went(old, new))
<1> DEFINE S == DeletedEntries(old, new)
           W == Went(old, new)
           Of(D) == {i \in W : DeletedIs(i) \in D}
<1>1. S = {DeletedIs(i) : i \in W}
  BY DEF DeletedEntries, DeletedIs, Went
<1>2. IsFiniteSet(S)
  <2> DEFINE g == [i \in W |-> DeletedIs(i)]
  <2>1. S = {g[i] : i \in W}
    BY <1>1
  <2>2. DOMAIN g = W
    OBVIOUS
  <2>3. IsFiniteSet(W)
    BY FS_Subset DEF Went, IsSnapshot
  <2> HIDE DEF g, S, W
  <2> QED
    BY <2>1, <2>2, <2>3, FiniteImage
<1> HIDE DEF S, W
<1>3. PICK f : EntriesRun(f, s, S)
  BY <1>2, EntriesSteps
<1> DEFINE G == {D \in SUBSET S : f[D] = LeftWithout(s, Of(D))}
<1>4. \A i, j : DeletedIs(i) = DeletedIs(j) => i = j
  BY DEF DeletedIs
<1>5. LeftWithout(s, {}) = s
  <2>1. {e \in s.edges : e.source \notin {} /\ e.target \notin {}} = s.edges
    OBVIOUS
  <2>2. [i \in DOMAIN s.elements \ {} |-> s.elements[i]] = s.elements
    OBVIOUS
  <2>3. [i \in DOMAIN s.bodies \ {} |-> s.bodies[i]] = s.bodies
    OBVIOUS
  <2> QED
    BY <2>1, <2>2, <2>3 DEF LeftWithout
<1>6. {} \in G
  <2>1. Of({}) = {}
    OBVIOUS
  <2> QED
    BY <1>3, <1>5, <2>1 DEF EntriesRun
<1>7. ASSUME NEW D \in SUBSET S, D # {}, \A x \in D : D \ {x} \in G
      PROVE  D \in G
  <2>1. PICK x \in D : f[D] = ApplyDiff(f[D \ {x}], x)
    BY <1>3, <1>7 DEF EntriesRun
  <2>2. PICK i \in W : x = DeletedIs(i)
    BY <1>1
  <2>3. i \in Of(D) /\ Of(D \ {x}) = Of(D) \ {i}
    BY <1>4, <2>2
  <2>4. f[D \ {x}] = LeftWithout(s, Of(D) \ {i})
    BY <1>7, <2>3
  <2> HIDE DEF Of
  <2>5. ApplyDiff(LeftWithout(s, Of(D) \ {i}), DeletedIs(i)) = LeftWithout(s, Of(D))
    BY <2>3, DeletedStep
  <2> QED
    BY <2>1, <2>2, <2>4, <2>5
<1>8. S \in G
  <2> HIDE DEF G
  <2> QED
    BY <1>2, <1>6, <1>7, SubsetInduction
<1>9. Of(S) = W
  BY <1>1
<1>10. ApplyEntries(s, S) = LeftWithout(s, W)
  <2>1. f[S] = LeftWithout(s, Of(S))
    BY <1>8
  <2> HIDE DEF Of
  <2> QED
    BY <1>3, <1>9, <2>1 DEF EntriesRun
<1> QED
  BY <1>10 DEF S, W

(* The entries of the edges that came, in any order, add them.               *)
LEMMA LinkedReplay ==
    ASSUME NEW s, NEW L, IsFiniteSet(L),
           s = [elements |-> s.elements, edges |-> s.edges, bodies |-> s.bodies]
    PROVE  ApplyEntries(s, {LinkedIs(e) : e \in L})
           = [elements |-> s.elements, edges |-> s.edges \cup L, bodies |-> s.bodies]
<1> DEFINE S == {LinkedIs(e) : e \in L}
           Of(D) == {e \in L : LinkedIs(e) \in D}
           After(D) == [elements |-> s.elements, edges |-> s.edges \cup Of(D), bodies |-> s.bodies]
<1>1. \A x \in S : \E e \in L : x = LinkedIs(e)
  OBVIOUS
<1>2. IsFiniteSet(S)
  <2> DEFINE g == [e \in L |-> LinkedIs(e)]
  <2>1. S = {g[e] : e \in L}
    OBVIOUS
  <2>2. DOMAIN g = L
    OBVIOUS
  <2> HIDE DEF g, S
  <2> QED
    BY <2>1, <2>2, FiniteImage
<1>9. Of(S) = L
  OBVIOUS
<1> HIDE DEF S
<1>3. PICK f : EntriesRun(f, s, S)
  BY <1>2, EntriesSteps
<1> DEFINE G == {D \in SUBSET S : f[D] = After(D)}
<1>4. \A d, e : LinkedIs(d) = LinkedIs(e) => d = e
  BY DEF LinkedIs
<1>6. {} \in G
  <2>1. Of({}) = {}
    OBVIOUS
  <2>2. After({}) = s
    BY <2>1
  <2> QED
    BY <1>3, <2>2 DEF EntriesRun
<1>7. ASSUME NEW D \in SUBSET S, D # {}, \A x \in D : D \ {x} \in G
      PROVE  D \in G
  <2>1. PICK x \in D : f[D] = ApplyDiff(f[D \ {x}], x)
    BY <1>3, <1>7 DEF EntriesRun
  <2>2. PICK e \in L : x = LinkedIs(e)
    BY <1>1
  <2>3. e \in Of(D) /\ Of(D \ {x}) = Of(D) \ {e}
    BY <1>4, <2>2
  <2>4. f[D \ {x}] = After(D \ {x})
    BY <1>7
  <2> HIDE DEF Of
  <2>5. ApplyDiff(After(D \ {x}), LinkedIs(e)) = [After(D \ {x}) EXCEPT !.edges = @ \cup {e}]
    BY DEF ApplyDiff, LinkedIs
  <2>6. s.edges \cup Of(D \ {x}) \cup {e} = s.edges \cup Of(D)
    BY <2>3
  <2>7. [After(D \ {x}) EXCEPT !.edges = @ \cup {e}] = After(D)
    BY <2>6
  <2> HIDE DEF After
  <2> QED
    BY <2>1, <2>2, <2>4, <2>5, <2>7
<1>8. S \in G
  <2> HIDE DEF G
  <2> QED
    BY <1>2, <1>6, <1>7, SubsetInduction
<1>10. ApplyEntries(s, S) = After(S)
  <2> HIDE DEF After
  <2> QED
    BY <1>3, <1>8 DEF EntriesRun
<1> QED
  BY <1>9, <1>10 DEF S

(* The entries of the edges that went, in any order, take them out.          *)
LEMMA UnlinkedReplay ==
    ASSUME NEW s, NEW L, IsFiniteSet(L),
           s = [elements |-> s.elements, edges |-> s.edges, bodies |-> s.bodies]
    PROVE  ApplyEntries(s, {UnlinkedIs(e) : e \in L})
           = [elements |-> s.elements, edges |-> s.edges \ L, bodies |-> s.bodies]
<1> DEFINE S == {UnlinkedIs(e) : e \in L}
           Of(D) == {e \in L : UnlinkedIs(e) \in D}
           After(D) == [elements |-> s.elements, edges |-> s.edges \ Of(D), bodies |-> s.bodies]
<1>1. \A x \in S : \E e \in L : x = UnlinkedIs(e)
  OBVIOUS
<1>2. IsFiniteSet(S)
  <2> DEFINE g == [e \in L |-> UnlinkedIs(e)]
  <2>1. S = {g[e] : e \in L}
    OBVIOUS
  <2>2. DOMAIN g = L
    OBVIOUS
  <2> HIDE DEF g, S
  <2> QED
    BY <2>1, <2>2, FiniteImage
<1>9. Of(S) = L
  OBVIOUS
<1> HIDE DEF S
<1>3. PICK f : EntriesRun(f, s, S)
  BY <1>2, EntriesSteps
<1> DEFINE G == {D \in SUBSET S : f[D] = After(D)}
<1>4. \A d, e : UnlinkedIs(d) = UnlinkedIs(e) => d = e
  BY DEF UnlinkedIs
<1>6. {} \in G
  <2>1. Of({}) = {}
    OBVIOUS
  <2>2. After({}) = s
    BY <2>1
  <2> QED
    BY <1>3, <2>2 DEF EntriesRun
<1>7. ASSUME NEW D \in SUBSET S, D # {}, \A x \in D : D \ {x} \in G
      PROVE  D \in G
  <2>1. PICK x \in D : f[D] = ApplyDiff(f[D \ {x}], x)
    BY <1>3, <1>7 DEF EntriesRun
  <2>2. PICK e \in L : x = UnlinkedIs(e)
    BY <1>1
  <2>3. e \in Of(D) /\ Of(D \ {x}) = Of(D) \ {e}
    BY <1>4, <2>2
  <2>4. f[D \ {x}] = After(D \ {x})
    BY <1>7
  <2> HIDE DEF Of
  <2>5. ApplyDiff(After(D \ {x}), UnlinkedIs(e)) = [After(D \ {x}) EXCEPT !.edges = @ \ {e}]
    BY DEF ApplyDiff, UnlinkedIs
  <2>6. (s.edges \ Of(D \ {x})) \ {e} = s.edges \ Of(D)
    BY <2>3
  <2>7. [After(D \ {x}) EXCEPT !.edges = @ \ {e}] = After(D)
    BY <2>6
  <2> HIDE DEF After
  <2> QED
    BY <2>1, <2>2, <2>4, <2>5, <2>7
<1>8. S \in G
  <2> HIDE DEF G
  <2> QED
    BY <1>2, <1>6, <1>7, SubsetInduction
<1>10. ApplyEntries(s, S) = After(S)
  <2> HIDE DEF After
  <2> QED
    BY <1>3, <1>8 DEF EntriesRun
<1> QED
  BY <1>9, <1>10 DEF S

-----------------------------------------------------------------------------

(* The entries about bodies are finitely many.                               *)
LEMMA BodyEntriesAre ==
    ASSUME NEW old, NEW new, IsSnapshot(old), IsSnapshot(new)
    PROVE  /\ IsFiniteSet(BodyEntries(old, new))
           /\ \A x \in BodyEntries(old, new) :
                 \/ \E i \in BothBodies(old, new) : \E k \in ChangedKeys(old, new, i) : x = PropertyTo(new, i, k)
                 \/ \E i \in Reworded(old, new) : x = RationaleTo(new, i)
           /\ \A i \in BothBodies(old, new) : \A k \in ChangedKeys(old, new, i) :
                 PropertyTo(new, i, k) \in BodyEntries(old, new)
           /\ \A i \in Reworded(old, new) : RationaleTo(new, i) \in BodyEntries(old, new)
<1> DEFINE Each == {PropertyEntries(old, new, i) : i \in BothBodies(old, new)}
           R == {RationaleTo(new, i) : i \in Reworded(old, new)}
<1>1. BodyEntries(old, new) = (UNION Each) \cup R
  <2>1. BodyEntries(old, new) = (UNION {PropertyEntries(old, new, i) : i \in BothBodies(old, new)})
                                \cup {RationaleTo(new, i) : i \in Reworded(old, new)}
    BY DEF BodyEntries, RationaleTo
  <2> QED
    BY <2>1
<1>2. IsFiniteSet(BothBodies(old, new)) /\ IsFiniteSet(Reworded(old, new))
  BY FS_Subset DEF BothBodies, Reworded, IsSnapshot
<1>3. ASSUME NEW i \in BothBodies(old, new) PROVE IsFiniteSet(PropertyEntries(old, new, i))
  <2> DEFINE g == [k \in ChangedKeys(old, new, i) |-> PropertyTo(new, i, k)]
  <2>1. PropertyEntries(old, new, i) = {g[k] : k \in ChangedKeys(old, new, i)}
    BY DEF PropertyEntries, PropertyTo
  <2>2. DOMAIN g = ChangedKeys(old, new, i)
    OBVIOUS
  <2>3. IsFiniteSet(DOMAIN new.bodies[i].properties)
    BY DEF BothBodies, IsSnapshot, IsBody
  <2>4. IsFiniteSet(ChangedKeys(old, new, i))
    BY <2>3, FS_Subset DEF ChangedKeys
  <2> HIDE DEF g
  <2> QED
    BY <2>1, <2>2, <2>4, FiniteImage
<1>4. IsFiniteSet(Each)
  <2> DEFINE g == [i \in BothBodies(old, new) |-> PropertyEntries(old, new, i)]
  <2>1. Each = {g[i] : i \in BothBodies(old, new)}
    OBVIOUS
  <2>2. DOMAIN g = BothBodies(old, new)
    OBVIOUS
  <2> HIDE DEF g, Each
  <2> QED
    BY <1>2, <2>1, <2>2, FiniteImage
<1>5. IsFiniteSet(UNION Each)
  <2>1. \A T \in Each : IsFiniteSet(T)
    BY <1>3
  <2> HIDE DEF Each
  <2> QED
    BY <1>4, <2>1, FS_UNION
<1>6. IsFiniteSet(R)
  <2> DEFINE g == [i \in Reworded(old, new) |-> RationaleTo(new, i)]
  <2>1. R = {g[i] : i \in Reworded(old, new)}
    OBVIOUS
  <2>2. DOMAIN g = Reworded(old, new)
    OBVIOUS
  <2> HIDE DEF g, R
  <2> QED
    BY <1>2, <2>1, <2>2, FiniteImage
<1>7. IsFiniteSet(BodyEntries(old, new))
  <2> HIDE DEF Each, R
  <2> QED
    BY <1>1, <1>5, <1>6, FS_Union
<1>8. \A x \in BodyEntries(old, new) :
          \/ \E i \in BothBodies(old, new) : \E k \in ChangedKeys(old, new, i) : x = PropertyTo(new, i, k)
          \/ \E i \in Reworded(old, new) : x = RationaleTo(new, i)
  BY <1>1 DEF PropertyEntries, PropertyTo
<1>9. \A i \in BothBodies(old, new) : \A k \in ChangedKeys(old, new, i) :
          PropertyTo(new, i, k) \in BodyEntries(old, new)
  BY <1>1 DEF PropertyEntries, PropertyTo
<1>10. \A i \in Reworded(old, new) : RationaleTo(new, i) \in BodyEntries(old, new)
  BY <1>1
<1> QED
  BY <1>7, <1>8, <1>9, <1>10

(* Entries of different sorts, elements or keys are different.               *)
LEMMA BodyEntriesDiffer ==
    ASSUME NEW s, NEW i, NEW j, NEW k, NEW l
    PROVE  /\ RationaleTo(s, i) # PropertyTo(s, j, k)
           /\ i # j => RationaleTo(s, i) # RationaleTo(s, j)
           /\ i # j => PropertyTo(s, i, k) # PropertyTo(s, j, l)
           /\ k # l => PropertyTo(s, i, k) # PropertyTo(s, j, l)
<1>1. RationaleTo(s, i).do = "rationale" /\ RationaleTo(s, i).id = i /\ RationaleTo(s, j).id = j
  BY DEF RationaleTo
<1>2. /\ PropertyTo(s, j, k).do = "property"
      /\ PropertyTo(s, i, k).id = i /\ PropertyTo(s, j, l).id = j
      /\ PropertyTo(s, i, k).key = k /\ PropertyTo(s, j, l).key = l
  BY DEF PropertyTo
<1>3. RationaleTo(s, i) # PropertyTo(s, j, k)
  BY <1>1, <1>2
<1>4. i # j => RationaleTo(s, i) # RationaleTo(s, j)
  BY <1>1
<1>5. (i # j => PropertyTo(s, i, k) # PropertyTo(s, j, l)) /\ (k # l => PropertyTo(s, i, k) # PropertyTo(s, j, l))
  BY <1>2
<1> QED
  BY <1>3, <1>4, <1>5

(* A change of a body's rationale, by its entry.                             *)
LEMMA RationaleApplied ==
    ASSUME NEW E, NEW edges, NEW B, NEW s, NEW i \in DOMAIN B,
           B[i] = [rationale |-> B[i].rationale, properties |-> B[i].properties]
    PROVE  ApplyDiff([elements |-> E, edges |-> edges, bodies |-> B], RationaleTo(s, i))
           = [elements |-> E, edges |-> edges,
              bodies |-> [j \in DOMAIN B |->
                  IF j = i THEN [rationale |-> s.bodies[i].rationale, properties |-> B[i].properties] ELSE B[j]]]
<1> DEFINE r == [elements |-> E, edges |-> edges, bodies |-> B]
           b == [rationale |-> s.bodies[i].rationale, properties |-> B[i].properties]
<1>1. BodyOf(r, i) = B[i]
  BY DEF BodyOf
<1>2. With(B, i, b) = [j \in DOMAIN B |-> IF j = i THEN b ELSE B[j]]
  BY DEF With
<1>3. ApplyDiff(r, RationaleTo(s, i))
      = [r EXCEPT !.bodies = With(@, i, [BodyOf(r, i) EXCEPT !.rationale = s.bodies[i].rationale])]
  BY DEF ApplyDiff, RationaleTo
<1>4. [B[i] EXCEPT !.rationale = s.bodies[i].rationale] = b
  OBVIOUS
<1> HIDE DEF b
<1>5. [r EXCEPT !.bodies = With(@, i, b)] = [elements |-> E, edges |-> edges, bodies |-> With(B, i, b)]
  OBVIOUS
<1> HIDE DEF r
<1> QED
  BY <1>1, <1>2, <1>3, <1>4, <1>5 DEF b, r

(* A change of one property of a body, by its entry.                         *)
LEMMA PropertyApplied ==
    ASSUME NEW E, NEW edges, NEW B, NEW s, NEW i \in DOMAIN B, NEW k,
           B[i] = [rationale |-> B[i].rationale, properties |-> B[i].properties]
    PROVE  ApplyDiff([elements |-> E, edges |-> edges, bodies |-> B], PropertyTo(s, i, k))
           = [elements |-> E, edges |-> edges,
              bodies |-> [j \in DOMAIN B |->
                  IF j = i THEN [rationale |-> B[i].rationale,
                                 properties |-> With(B[i].properties, k, s.bodies[i].properties[k])] ELSE B[j]]]
<1> DEFINE r == [elements |-> E, edges |-> edges, bodies |-> B]
           v == s.bodies[i].properties[k]
           b == [rationale |-> B[i].rationale, properties |-> With(B[i].properties, k, v)]
<1>1. BodyOf(r, i) = B[i]
  BY DEF BodyOf
<1>2. With(B, i, b) = [j \in DOMAIN B |-> IF j = i THEN b ELSE B[j]]
  BY DEF With
<1>3. ApplyDiff(r, PropertyTo(s, i, k))
      = [r EXCEPT !.bodies = With(@, i, [BodyOf(r, i) EXCEPT !.properties = With(@, k, v)])]
  BY DEF ApplyDiff, PropertyTo
<1>4. [B[i] EXCEPT !.properties = With(@, k, v)] = b
  OBVIOUS
<1> HIDE DEF b
<1>5. [r EXCEPT !.bodies = With(@, i, b)] = [elements |-> E, edges |-> edges, bodies |-> With(B, i, b)]
  OBVIOUS
<1> HIDE DEF r
<1> QED
  BY <1>1, <1>2, <1>3, <1>4, <1>5 DEF b, r

-----------------------------------------------------------------------------

(* What the entries of D make of each body.                                  *)
LEMMA BodiesAfterAre ==
    ASSUME NEW old, NEW new, NEW D, NEW i \in BothBodies(old, new)
    PROVE  /\ DOMAIN BodiesAfter(old, new, D) = BothBodies(old, new)
           /\ BodiesAfter(old, new, D)[i] = BodyAfter(old, new, D, i)
  BY DEF BodiesAfter

(* One more entry of a rationale.                                            *)
LEMMA RationaleStep ==
    ASSUME NEW s, NEW old, NEW new, NEW D, NEW i \in Reworded(old, new), RationaleTo(new, i) \in D
    PROVE  ApplyDiff(BodyStage(s, old, new, D \ {RationaleTo(new, i)}), RationaleTo(new, i))
           = BodyStage(s, old, new, D)
<1> DEFINE x == RationaleTo(new, i)
           C == D \ {x}
           B == BodiesAfter(old, new, C)
           r == [elements |-> s.elements, edges |-> s.edges, bodies |-> B]
<1>1. \A y : y # x => (y \in C <=> y \in D)
  OBVIOUS
<1>2. x \in D /\ i \in BothBodies(old, new)
  BY DEF Reworded
<1> HIDE DEF C
<1>3. \A j : /\ j # i => RationaleTo(new, j) # x
             /\ \A k : PropertyTo(new, j, k) # x
  BY BodyEntriesDiffer
<1>4. \A j : KeysAfter(old, new, C, j) = KeysAfter(old, new, D, j)
  BY <1>1, <1>3 DEF KeysAfter
<1>5. \A j, k : PropertyAfter(old, new, C, j, k) = PropertyAfter(old, new, D, j, k)
  BY <1>1, <1>3 DEF PropertyAfter
<1>6. \A j : j # i => RationaleAfter(old, new, C, j) = RationaleAfter(old, new, D, j)
  BY <1>1, <1>3 DEF RationaleAfter
<1>7. RationaleAfter(old, new, D, i) = new.bodies[i].rationale
  BY <1>2 DEF RationaleAfter
<1>8. \A j : j # i => BodyAfter(old, new, C, j) = BodyAfter(old, new, D, j)
  BY <1>4, <1>5, <1>6 DEF BodyAfter
<1>9. /\ DOMAIN B = BothBodies(old, new)
      /\ B[i] = [rationale |-> B[i].rationale, properties |-> B[i].properties]
      /\ B[i].properties = [k \in KeysAfter(old, new, C, i) |-> PropertyAfter(old, new, C, i, k)]
      /\ \A j \in BothBodies(old, new) : B[j] = BodyAfter(old, new, C, j)
  <2>1. /\ DOMAIN B = BothBodies(old, new)
        /\ B[i] = BodyAfter(old, new, C, i)
        /\ \A j \in BothBodies(old, new) : B[j] = BodyAfter(old, new, C, j)
    BY <1>2, BodiesAfterAre
  <2>2. BodyAfter(old, new, C, i)
        = [rationale |-> BodyAfter(old, new, C, i).rationale, properties |-> BodyAfter(old, new, C, i).properties]
    BY DEF BodyAfter
  <2>3. BodyAfter(old, new, C, i).properties
        = [k \in KeysAfter(old, new, C, i) |-> PropertyAfter(old, new, C, i, k)]
    BY DEF BodyAfter
  <2> HIDE DEF B
  <2> QED
    BY <2>1, <2>2, <2>3
<1>10. BodyAfter(old, new, D, i) = [rationale |-> new.bodies[i].rationale, properties |-> B[i].properties]
  <2> HIDE DEF B
  <2> QED
    BY <1>4, <1>5, <1>7, <1>9 DEF BodyAfter
<1>11. ApplyDiff(r, x)
       = [elements |-> s.elements, edges |-> s.edges,
          bodies |-> [j \in DOMAIN B |->
              IF j = i THEN [rationale |-> new.bodies[i].rationale, properties |-> B[i].properties] ELSE B[j]]]
  <2>1. i \in DOMAIN B
    BY <1>2, <1>9
  <2>2. B[i] = [rationale |-> B[i].rationale, properties |-> B[i].properties]
    BY <1>9
  <2> HIDE DEF B
  <2> QED
    BY <2>1, <2>2, RationaleApplied
<1>12. [j \in DOMAIN B |->
           IF j = i THEN [rationale |-> new.bodies[i].rationale, properties |-> B[i].properties] ELSE B[j]]
       = BodiesAfter(old, new, D)
  <2> HIDE DEF B
  <2> QED
    BY <1>8, <1>9, <1>10 DEF BodiesAfter
<1>13. r = BodyStage(s, old, new, C)
  BY DEF BodyStage
<1> HIDE DEF r, B
<1> QED
  BY <1>11, <1>12, <1>13 DEF BodyStage, C

(* One more entry of a property.                                             *)
LEMMA PropertyStep ==
    ASSUME NEW s, NEW old, NEW new, NEW D, NEW i \in BothBodies(old, new),
           NEW k \in ChangedKeys(old, new, i), PropertyTo(new, i, k) \in D
    PROVE  ApplyDiff(BodyStage(s, old, new, D \ {PropertyTo(new, i, k)}), PropertyTo(new, i, k))
           = BodyStage(s, old, new, D)
<1> DEFINE x == PropertyTo(new, i, k)
           C == D \ {x}
           B == BodiesAfter(old, new, C)
           v == new.bodies[i].properties[k]
           r == [elements |-> s.elements, edges |-> s.edges, bodies |-> B]
<1>1. \A y : y # x => (y \in C <=> y \in D)
  OBVIOUS
<1>2. x \in D
  OBVIOUS
<1> HIDE DEF C
<1>3. \A j : /\ RationaleTo(new, j) # x
             /\ \A l : j # i \/ l # k => PropertyTo(new, j, l) # x
  BY BodyEntriesDiffer
<1>4. \A j : j # i => KeysAfter(old, new, C, j) = KeysAfter(old, new, D, j)
  BY <1>1, <1>3 DEF KeysAfter
<1>5. \A j, l : j # i \/ l # k => PropertyAfter(old, new, C, j, l) = PropertyAfter(old, new, D, j, l)
  BY <1>1, <1>3 DEF PropertyAfter
<1>6. \A j : RationaleAfter(old, new, C, j) = RationaleAfter(old, new, D, j)
  BY <1>1, <1>3 DEF RationaleAfter
<1>7. PropertyAfter(old, new, D, i, k) = v /\ KeysAfter(old, new, D, i) = KeysAfter(old, new, C, i) \cup {k}
  <2>1. PropertyAfter(old, new, D, i, k) = v
    BY <1>2 DEF PropertyAfter
  <2>2. KeysAfter(old, new, D, i) = KeysAfter(old, new, C, i) \cup {k}
    BY <1>1, <1>2, <1>3 DEF KeysAfter
  <2> QED
    BY <2>1, <2>2
<1>8. \A j : j # i => BodyAfter(old, new, C, j) = BodyAfter(old, new, D, j)
  BY <1>4, <1>5, <1>6 DEF BodyAfter
<1>9. /\ DOMAIN B = BothBodies(old, new)
      /\ B[i] = [rationale |-> B[i].rationale, properties |-> B[i].properties]
      /\ B[i].rationale = RationaleAfter(old, new, C, i)
      /\ B[i].properties = [l \in KeysAfter(old, new, C, i) |-> PropertyAfter(old, new, C, i, l)]
      /\ \A j \in BothBodies(old, new) : B[j] = BodyAfter(old, new, C, j)
  <2>1. /\ DOMAIN B = BothBodies(old, new)
        /\ B[i] = BodyAfter(old, new, C, i)
        /\ \A j \in BothBodies(old, new) : B[j] = BodyAfter(old, new, C, j)
    BY BodiesAfterAre
  <2>2. BodyAfter(old, new, C, i)
        = [rationale |-> BodyAfter(old, new, C, i).rationale, properties |-> BodyAfter(old, new, C, i).properties]
    BY DEF BodyAfter
  <2>3. /\ BodyAfter(old, new, C, i).rationale = RationaleAfter(old, new, C, i)
        /\ BodyAfter(old, new, C, i).properties
           = [l \in KeysAfter(old, new, C, i) |-> PropertyAfter(old, new, C, i, l)]
    BY DEF BodyAfter
  <2> HIDE DEF B
  <2> QED
    BY <2>1, <2>2, <2>3
<1>10. With(B[i].properties, k, v)
       = [l \in KeysAfter(old, new, D, i) |-> PropertyAfter(old, new, D, i, l)]
  <2> HIDE DEF B, v
  <2> QED
    BY <1>5, <1>7, <1>9 DEF With
<1>11. BodyAfter(old, new, D, i)
       = [rationale |-> B[i].rationale, properties |-> With(B[i].properties, k, v)]
  <2> HIDE DEF B, v
  <2> QED
    BY <1>6, <1>9, <1>10 DEF BodyAfter
<1>12. ApplyDiff(r, x)
       = [elements |-> s.elements, edges |-> s.edges,
          bodies |-> [j \in DOMAIN B |->
              IF j = i THEN [rationale |-> B[i].rationale, properties |-> With(B[i].properties, k, v)] ELSE B[j]]]
  <2>1. i \in DOMAIN B
    BY <1>9
  <2>2. B[i] = [rationale |-> B[i].rationale, properties |-> B[i].properties]
    BY <1>9
  <2> HIDE DEF B
  <2> QED
    BY <2>1, <2>2, PropertyApplied
<1>13. [j \in DOMAIN B |->
           IF j = i THEN [rationale |-> B[i].rationale, properties |-> With(B[i].properties, k, v)] ELSE B[j]]
       = BodiesAfter(old, new, D)
  <2> HIDE DEF B, v
  <2> QED
    BY <1>8, <1>9, <1>11 DEF BodiesAfter
<1>14. r = BodyStage(s, old, new, C)
  BY DEF BodyStage
<1> HIDE DEF r, B, v
<1> QED
  BY <1>12, <1>13, <1>14 DEF BodyStage, C

(* The entries about bodies, in any order, give the bodies of the second.    *)
LEMMA BodiesReplay ==
    ASSUME NEW old, NEW new, NEW s, IsSnapshot(old), IsSnapshot(new), Expressible(old, new), BodiesKept(s, old, new)
    PROVE  ApplyEntries(s, BodyEntries(old, new))
           = [elements |-> s.elements, edges |-> s.edges, bodies |-> new.bodies]
<1> DEFINE S == BodyEntries(old, new)
<1>1. IsFiniteSet(S)
  BY BodyEntriesAre
<1>2. \A x \in S :
          \/ \E i \in BothBodies(old, new) : \E k \in ChangedKeys(old, new, i) : x = PropertyTo(new, i, k)
          \/ \E i \in Reworded(old, new) : x = RationaleTo(new, i)
  BY BodyEntriesAre
<1>3. /\ \A i \in BothBodies(old, new) : \A k \in ChangedKeys(old, new, i) : PropertyTo(new, i, k) \in S
      /\ \A i \in Reworded(old, new) : RationaleTo(new, i) \in S
  BY BodyEntriesAre
<1> HIDE DEF S
<1>4. PICK f : EntriesRun(f, s, S)
  BY <1>1, EntriesSteps
<1> DEFINE G == {D \in SUBSET S : f[D] = BodyStage(s, old, new, D)}
<1>a. BothBodies(old, new) = DOMAIN old.bodies \ Went(old, new) /\ BothBodies(old, new) = DOMAIN new.bodies
  BY DEF BothBodies, Went, Expressible
<1>5. BodyStage(s, old, new, {}) = s
  <2>1. ASSUME NEW i \in BothBodies(old, new) PROVE BodyAfter(old, new, {}, i) = old.bodies[i]
    <3>1. KeysAfter(old, new, {}, i) = DOMAIN old.bodies[i].properties
      BY DEF KeysAfter
    <3>2. \A k : PropertyAfter(old, new, {}, i, k) = old.bodies[i].properties[k]
      BY DEF PropertyAfter
    <3>3. RationaleAfter(old, new, {}, i) = old.bodies[i].rationale
      BY DEF RationaleAfter
    <3>4. IsBody(old.bodies[i])
      BY DEF BothBodies, IsSnapshot
    <3>5. [k \in KeysAfter(old, new, {}, i) |-> PropertyAfter(old, new, {}, i, k)] = old.bodies[i].properties
      BY <3>1, <3>2, <3>4 DEF IsBody
    <3> QED
      BY <3>3, <3>4, <3>5 DEF BodyAfter, IsBody
  <2>2. BodiesAfter(old, new, {}) = s.bodies
    BY <1>a, <2>1 DEF BodiesAfter, BodiesKept
  <2> QED
    BY <2>2 DEF BodyStage, BodiesKept, Snap
<1>6. {} \in G
  BY <1>4, <1>5 DEF EntriesRun
<1>7. ASSUME NEW D \in SUBSET S, D # {}, \A x \in D : D \ {x} \in G
      PROVE  D \in G
  <2>1. PICK x \in D : f[D] = ApplyDiff(f[D \ {x}], x)
    BY <1>4, <1>7 DEF EntriesRun
  <2>2. f[D \ {x}] = BodyStage(s, old, new, D \ {x})
    BY <1>7
  <2>3. ApplyDiff(BodyStage(s, old, new, D \ {x}), x) = BodyStage(s, old, new, D)
    <3>1. CASE \E i \in BothBodies(old, new) : \E k \in ChangedKeys(old, new, i) : x = PropertyTo(new, i, k)
      <4>1. PICK i \in BothBodies(old, new) : \E k \in ChangedKeys(old, new, i) : x = PropertyTo(new, i, k)
        BY <3>1
      <4>2. PICK k \in ChangedKeys(old, new, i) : x = PropertyTo(new, i, k)
        BY <4>1
      <4> QED
        BY <4>2, PropertyStep
    <3>2. CASE \E i \in Reworded(old, new) : x = RationaleTo(new, i)
      BY <3>2, RationaleStep
    <3> QED
      BY <1>2, <3>1, <3>2
  <2> QED
    BY <2>1, <2>2, <2>3
<1>8. S \in G
  <2> HIDE DEF G
  <2> QED
    BY <1>1, <1>6, <1>7, SubsetInduction
<1>9. ApplyEntries(s, S) = BodyStage(s, old, new, S)
  BY <1>4, <1>8 DEF EntriesRun
<1>10. ASSUME NEW i \in BothBodies(old, new) PROVE BodyAfter(old, new, S, i) = new.bodies[i]
  <2> DEFINE was == old.bodies[i].properties
             now == new.bodies[i].properties
  <2>1. IsBody(new.bodies[i]) /\ DOMAIN was \subseteq DOMAIN now
        /\ \A k \in DOMAIN now \ DOMAIN was : now[k] # NoText
    BY <1>a DEF IsSnapshot, Expressible
  <2>2. RationaleAfter(old, new, S, i) = new.bodies[i].rationale
    BY <1>3 DEF RationaleAfter, Reworded
  <2>3. ASSUME NEW k \in DOMAIN now, k \notin ChangedKeys(old, new, i) PROVE k \in DOMAIN was /\ was[k] = now[k]
    BY <2>1, <2>3 DEF ChangedKeys, PropertyOf
  <2>4. KeysAfter(old, new, S, i) = DOMAIN now
    BY <1>3, <2>1, <2>3 DEF KeysAfter, ChangedKeys
  <2>5. \A k \in DOMAIN now : PropertyAfter(old, new, S, i, k) = now[k]
    BY <1>3, <2>3 DEF PropertyAfter
  <2>6. [k \in KeysAfter(old, new, S, i) |-> PropertyAfter(old, new, S, i, k)] = now
    BY <2>1, <2>4, <2>5 DEF IsBody
  <2> QED
    BY <2>1, <2>2, <2>6 DEF BodyAfter, IsBody
<1>11. BodiesAfter(old, new, S) = new.bodies
  BY <1>a, <1>10 DEF BodiesAfter, IsSnapshot
<1> QED
  BY <1>9, <1>11 DEF BodyStage, S

-----------------------------------------------------------------------------

(* DiffReplays: what compute_snapshot_diff lists of two snapshots, replayed  *)
(* by apply_diff on the first, gives the second, whatever the order in which *)
(* the entries of each sort are listed and however large the snapshots are.  *)
LEMMA EntriesReplay ==
    ASSUME NEW old, NEW new, IsSnapshot(old), IsSnapshot(new)
    PROVE  DiffReplays(old, new)
<1> SUFFICES ASSUME Expressible(old, new)
             PROVE  FoldLeft(ApplyEntries, old, SnapshotDiff(old, new)) = new
  BY DEF DiffReplays
<1> DEFINE q  == SnapshotDiff(old, new)
           W  == Went(old, new)
           s1 == [elements |-> Joined(old, new), edges |-> old.edges, bodies |-> old.bodies]
           s2 == LeftWithout(s1, W)
           s3 == [elements |-> s2.elements, edges |-> s2.edges, bodies |-> new.bodies]
           L  == new.edges \ old.edges
           U  == old.edges \ new.edges
           s4 == [elements |-> s3.elements, edges |-> s3.edges \cup L, bodies |-> s3.bodies]
           s5 == [elements |-> s4.elements, edges |-> s4.edges \ U, bodies |-> s4.bodies]
<1>1. /\ DOMAIN q = 1..5
      /\ q[1] = ElementEntries(old, new) /\ q[2] = DeletedEntries(old, new) /\ q[3] = BodyEntries(old, new)
      /\ q[4] = {LinkedIs(e) : e \in L} /\ q[5] = {UnlinkedIs(e) : e \in U}
  <2>1. EdgeEntries(old, new) = <<{LinkedIs(e) : e \in L}, {UnlinkedIs(e) : e \in U}>>
    BY DEF EdgeEntries, LinkedIs, UnlinkedIs
  <2> DEFINE first == <<ElementEntries(old, new), DeletedEntries(old, new), BodyEntries(old, new)>>
             last  == <<{LinkedIs(e) : e \in L}, {UnlinkedIs(e) : e \in U}>>
             All   == {first[1], first[2], first[3], last[1], last[2]}
  <2>2. /\ first[1] = ElementEntries(old, new) /\ first[2] = DeletedEntries(old, new)
        /\ first[3] = BodyEntries(old, new)
        /\ last[1] = {LinkedIs(e) : e \in L} /\ last[2] = {UnlinkedIs(e) : e \in U}
    OBVIOUS
  <2>3. /\ first \in Seq(All) /\ Len(first) = 3
        /\ last \in Seq(All) /\ Len(last) = 2
    OBVIOUS
  <2>4. q = first \o last
    BY <2>1 DEF SnapshotDiff
  <2> HIDE DEF q, L, U, first, last, All
  <2>5. /\ q \in Seq(All) /\ Len(q) = 5
        /\ \A n \in 1..5 : q[n] = IF n <= 3 THEN first[n] ELSE last[n - 3]
    <3>1. /\ first \o last \in Seq(All)
          /\ Len(first \o last) = Len(first) + Len(last)
          /\ \A n \in 1..Len(first) + Len(last) :
                (first \o last)[n] = IF n <= Len(first) THEN first[n] ELSE last[n - Len(first)]
      BY <2>3, ConcatProperties
    <3> QED
      BY <2>3, <2>4, <3>1
  <2>6. /\ DOMAIN q = 1..5 /\ q[1] = first[1] /\ q[2] = first[2] /\ q[3] = first[3]
        /\ q[4] = last[1] /\ q[5] = last[2]
    BY <2>5
  <2> QED
    BY <2>2, <2>6
<1>2. FoldLeft(ApplyEntries, old, q)
      = ApplyEntries(ApplyEntries(ApplyEntries(ApplyEntries(ApplyEntries(old, q[1]), q[2]), q[3]), q[4]), q[5])
  <2> HIDE DEF q
  <2> QED
    BY <1>1, FiveSets
<1>3. ApplyEntries(old, q[1]) = s1
  BY <1>1, ElementsReplay
<1>4. ApplyEntries(s1, q[2]) = s2
  <2>1. /\ s1 = [elements |-> s1.elements, edges |-> s1.edges, bodies |-> s1.bodies]
        /\ s1.elements = [i \in DOMAIN s1.elements |-> s1.elements[i]]
        /\ s1.bodies = [i \in DOMAIN s1.bodies |-> s1.bodies[i]]
    BY DEF IsSnapshot, Joined
  <2> HIDE DEF s1
  <2> QED
    BY <1>1, <2>1, DeletedReplay
<1>5. ApplyEntries(s2, q[3]) = s3
  <2>1. BodiesKept(s2, old, new)
    BY DEF LeftWithout, BodiesKept, Snap
  <2>2. q[3] = BodyEntries(old, new)
    BY <1>1
  <2> HIDE DEF s2, q, W
  <2>3. ApplyEntries(s2, BodyEntries(old, new))
        = [elements |-> s2.elements, edges |-> s2.edges, bodies |-> new.bodies]
    BY <2>1, BodiesReplay
  <2> QED
    BY <2>2, <2>3
<1>6. IsFiniteSet(L) /\ IsFiniteSet(U)
  BY FS_Subset DEF IsSnapshot
<1>7. ApplyEntries(s3, q[4]) = s4
  <2>1. s3 = [elements |-> s3.elements, edges |-> s3.edges, bodies |-> s3.bodies]
    OBVIOUS
  <2> HIDE DEF s3, L
  <2> QED
    BY <1>1, <1>6, <2>1, LinkedReplay
<1>8. ApplyEntries(s4, q[5]) = s5
  <2>1. s4 = [elements |-> s4.elements, edges |-> s4.edges, bodies |-> s4.bodies]
    OBVIOUS
  <2> HIDE DEF s4, U
  <2> QED
    BY <1>1, <1>6, <2>1, UnlinkedReplay
<1>9. s5 = new
  <2>1. s2.elements = new.elements
    <3>1. (DOMAIN old.elements \cup DOMAIN new.elements) \ W = DOMAIN new.elements
      BY DEF Went
    <3>2. s2.elements = [i \in DOMAIN new.elements |-> Joined(old, new)[i]]
      BY <3>1 DEF LeftWithout, Joined
    <3>3. \A i \in DOMAIN new.elements : Joined(old, new)[i] = new.elements[i]
      BY DEF Joined
    <3> HIDE DEF s2
    <3> QED
      BY <3>2, <3>3 DEF IsSnapshot
  <2>2. s2.edges = {e \in old.edges : e.source \notin W /\ e.target \notin W}
    BY DEF LeftWithout
  <2>3. \A e \in new.edges : e.source \notin W /\ e.target \notin W
    BY DEF Expressible, Went
  <2>4. (s2.edges \cup L) \ U = new.edges
    <3> HIDE DEF s2, W
    <3> QED
      BY <2>2, <2>3
  <2>5. s5 = [elements |-> s2.elements, edges |-> (s2.edges \cup L) \ U, bodies |-> new.bodies]
    OBVIOUS
  <2> HIDE DEF s2, s5, L, U
  <2> QED
    BY <2>1, <2>4, <2>5 DEF IsSnapshot, Snap
<1> HIDE DEF q, s1, s2, s3, s4, s5
<1> QED
  BY <1>2, <1>3, <1>4, <1>5, <1>7, <1>8, <1>9 DEF q

(* DiffsReplay of every comparison: a diff that can say what changed,        *)
(* replayed, rebuilds the branch.                                            *)
THEOREM DiffsRebuild == CompareSpec => []DiffsReplay
<1> DEFINE Asked == pair = Unread \/ pair \in Pairs
<1>1. CompareInit => Asked
  BY DEF CompareInit
<1>2. Asked /\ [Compare]_pair => Asked'
  BY DEF Compare
<1>3. Asked => DiffsReplay
  BY PairsAssumption, EntriesReplay DEF DiffsReplay
<1> HIDE DEF Asked
<1> QED
  BY <1>1, <1>2, <1>3, PTL DEF CompareSpec

=============================================================================
