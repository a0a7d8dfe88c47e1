-------------------------- MODULE TraversalProofs --------------------------
(***************************************************************************)
(* What holds of Traversal for every set of ids, graphs, requests, page    *)
(* sizes and edits.  Sorting and cutting come first: what Ordered, the     *)
(* rows of a query and a page are.  Then the search: its queue is in order *)
(* of distance, everything found has a neighbour one hop nearer, and what  *)
(* has left the queue has all its neighbours known unless the search was   *)
(* cut; that it is exact follows by least counterexample over Ball.  Then  *)
(* the pages: what they give when the graph is edited between them, and,   *)
(* when it is not, that each of their searches is the same one.            *)
(***************************************************************************)
EXTENDS Traversal, FiniteSetTheorems, SequenceTheorems, WellFoundedInduction, TLAPS

(* A nonempty set of naturals has a least element. *)
LEMMA NatLeast ==
    ASSUME NEW T, T \subseteq Nat, T # {}
    PROVE  \E n \in T : \A m \in T : n <= m
<1> DEFINE R == {p \in Nat \X Nat : p[1] < p[2]}
<1>1. IsWellFoundedOn(R, Nat)
  <2>1. R = OpToRel(<, Nat)
    BY DEF OpToRel
  <2> QED
    BY <2>1, NatLessThanWellFounded
<1>2. \A n, m \in Nat : <<n, m>> \in R <=> n < m
  OBVIOUS
<1> HIDE DEF R
<1>3. \E n \in T : \A m \in T : ~(<<m, n>> \in R)
  BY <1>1, WFMin
<1>4. PICK n \in T : \A m \in T : ~(<<m, n>> \in R)
  BY <1>3
<1>5. ASSUME NEW m \in T PROVE n <= m
  <2>1. n \in Nat /\ m \in Nat
    BY <1>4, <1>5
  <2>2. ~(m < n)
    BY <1>2, <1>4, <1>5, <2>1
  <2> QED
    BY <2>1, <2>2
<1> QED
  BY <1>5

(* How many of S come before i. *)
Rank(S, i) == Cardinality({j \in S : j < i})

(* The ranks of the n members of a set are 0, ..., n - 1, each once. *)
LEMMA Ranks ==
    ASSUME NEW S, S \subseteq Nat, IsFiniteSet(S)
    PROVE  /\ \A i \in S : Rank(S, i) \in 0..(Cardinality(S) - 1)
           /\ \A i, j \in S : i < j <=> Rank(S, i) < Rank(S, j)
           /\ \A n \in 0..(Cardinality(S) - 1) : \E i \in S : Rank(S, i) = n
<1> DEFINE N == Cardinality(S)
<1>0. N \in Nat
  BY FS_CardinalityType
<1>1. ASSUME NEW i \in S PROVE Rank(S, i) \in 0..(N - 1)
  <2> DEFINE B == {j \in S : j < i}
  <2>1. B \in SUBSET S /\ B # S
    <3>1. i \in Nat /\ i \notin B
      OBVIOUS
    <3> QED
      BY <3>1
  <2>2. IsFiniteSet(B) /\ Cardinality(B) <= N /\ Cardinality(B) # N
    BY <2>1, FS_Subset
  <2>3. Cardinality(B) \in Nat
    BY <2>2, FS_CardinalityType
  <2> QED
    BY <1>0, <2>2, <2>3 DEF Rank
<1>2. ASSUME NEW i \in S, NEW j \in S, i < j PROVE Rank(S, i) < Rank(S, j)
  <2> DEFINE B == {k \in S : k < i}
             C == {k \in S : k < j}
  <2>0. \A k \in S : k \in Nat
    OBVIOUS
  <2>1. B \in SUBSET C /\ i \in C /\ i \notin B /\ C \in SUBSET S
    <3>1. \A k \in S : k < i => k < j
      BY <1>2, <2>0
    <3>2. ~(i < i)
      BY <2>0
    <3>3. B \in SUBSET C
      BY <3>1
    <3> QED
      BY <1>2, <3>2, <3>3
  <2>2. IsFiniteSet(C)
    BY <2>1, FS_Subset
  <2>3. IsFiniteSet(B) /\ Cardinality(B) <= Cardinality(C) /\ Cardinality(B) # Cardinality(C)
    BY <2>1, <2>2, FS_Subset
  <2>4. Cardinality(B) \in Nat /\ Cardinality(C) \in Nat
    BY <2>2, <2>3, FS_CardinalityType
  <2> QED
    BY <2>3, <2>4 DEF Rank
<1>3. \A i, j \in S : i < j <=> Rank(S, i) < Rank(S, j)
  <2> SUFFICES ASSUME NEW i \in S, NEW j \in S, ~(i < j) PROVE ~(Rank(S, i) < Rank(S, j))
    BY <1>2
  <2>1. i \in Nat /\ j \in Nat /\ Rank(S, i) \in Nat /\ Rank(S, j) \in Nat
    BY <1>0, <1>1
  <2>2. CASE i = j
    BY <2>1, <2>2
  <2>3. CASE j < i
    BY <1>2, <2>1, <2>3
  <2> QED
    BY <2>1, <2>2, <2>3
<1>4. \A n \in 0..(N - 1) : \E i \in S : Rank(S, i) = n
  <2> DEFINE f == [i \in S |-> Rank(S, i)]
             T == 0..(N - 1)
  <2>1. \A i, j \in S : f[i] = f[j] => i = j
    <3> SUFFICES ASSUME NEW i \in S, NEW j \in S, i # j PROVE f[i] # f[j]
      OBVIOUS
    <3>1. i \in Nat /\ j \in Nat /\ Rank(S, i) \in Nat /\ Rank(S, j) \in Nat
      BY <1>0, <1>1
    <3>2. Rank(S, i) < Rank(S, j) \/ Rank(S, j) < Rank(S, i)
      BY <1>2, <3>1
    <3> QED
      BY <3>1, <3>2
  <2>2. f \in [S -> T]
    BY <1>1
  <2>3. f \in Injection(S, T)
    BY <2>1, <2>2 DEF Injection, IsInjective
  <2>4. IsFiniteSet(T) /\ Cardinality(T) = N
    <3>1. 0 \in Int /\ N - 1 \in Int
      BY <1>0
    <3>2. IsFiniteSet(0..(N - 1)) /\ Cardinality(0..(N - 1)) = IF 0 > N - 1 THEN 0 ELSE (N - 1) - 0 + 1
      BY <3>1, FS_Interval
    <3> QED
      BY <1>0, <3>2
  <2>5. f \in Surjection(S, T)
    BY <2>3, <2>4, FS_Injection
  <2>6. \A n \in T : \E i \in S : f[i] = n
    BY <2>5 DEF Surjection
  <2> QED
    BY <2>6
<1> QED
  BY <1>1, <1>3, <1>4

(* Ordered(S) lists S, each member once and the smaller before the larger. *)
LEMMA OrderedIs ==
    ASSUME NEW S, S \subseteq Nat, IsFiniteSet(S)
    PROVE  /\ Ordered(S) \in Seq(S) /\ Len(Ordered(S)) = Cardinality(S)
           /\ ToSet(Ordered(S)) = S
           /\ \A m, n \in 1..Cardinality(S) : m < n <=> Ordered(S)[m] < Ordered(S)[n]
<1> DEFINE N == Cardinality(S)
           O == Ordered(S)
<1>0. N \in Nat
  BY FS_CardinalityType
<1>1. ASSUME NEW n \in 1..N PROVE O[n] \in S /\ Rank(S, O[n]) = n - 1
  <2>1. \E i \in S : Rank(S, i) = n - 1
    <3>1. n - 1 \in 0..(N - 1)
      BY <1>0
    <3> QED
      BY <3>1, Ranks
  <2>2. O[n] = CHOOSE i \in S : Rank(S, i) = n - 1
    BY DEF Ordered, Rank
  <2> QED
    BY <2>1, <2>2
<1>2. DOMAIN O = 1..N
  BY DEF Ordered
<1>3. O \in [1..N -> S]
  <2> DEFINE At(n) == CHOOSE i \in S : Rank(S, i) = n - 1
  <2>1. O = [n \in 1..N |-> At(n)]
    BY DEF Ordered, Rank
  <2> HIDE DEF O, N, At
  <2>2. \A n \in 1..N : O[n] = At(n)
    BY <2>1
  <2> QED
    BY <1>1, <2>1, <2>2
<1>4. O \in Seq(S) /\ Len(O) = N
  BY <1>0, <1>3, SeqDef
<1>5. \A m, n \in 1..N : m < n <=> O[m] < O[n]
  <2> SUFFICES ASSUME NEW m \in 1..N, NEW n \in 1..N PROVE m < n <=> O[m] < O[n]
    OBVIOUS
  <2>1. m \in Nat /\ n \in Nat /\ Rank(S, O[m]) = m - 1 /\ Rank(S, O[n]) = n - 1
    BY <1>0, <1>1
  <2>2. O[m] < O[n] <=> Rank(S, O[m]) < Rank(S, O[n])
    BY <1>1, Ranks
  <2> QED
    BY <2>1, <2>2
<1>6. ToSet(O) = S
  <2>1. ASSUME NEW i \in S PROVE i \in ToSet(O)
    <3> DEFINE n == Rank(S, i) + 1
    <3>1. Rank(S, i) \in 0..(N - 1)
      BY Ranks
    <3>2. n \in 1..N /\ n - 1 = Rank(S, i)
      BY <1>0, <3>1
    <3> HIDE DEF n
    <3>3. O[n] \in S /\ Rank(S, O[n]) = Rank(S, i)
      BY <1>1, <3>2
    <3>4. ~(O[n] < i) /\ ~(i < O[n])
      <4>1. O[n] \in S /\ i \in S /\ Rank(S, i) \in Nat
        BY <1>0, <3>1, <3>3
      <4>2. ~(Rank(S, i) < Rank(S, i))
        BY <4>1
      <4> QED
        BY <3>3, <4>1, <4>2, Ranks
    <3>5. O[n] \in Nat /\ i \in Nat
      BY <3>3
    <3>6. O[n] = i
      BY <3>4, <3>5
    <3> QED
      BY <1>2, <3>2, <3>6 DEF ToSet
  <2>2. ToSet(O) \subseteq S
    BY <1>1, <1>2 DEF ToSet
  <2> QED
    BY <2>1, <2>2
<1> HIDE DEF O, N
<1>7. O = Ordered(S) /\ N = Cardinality(S)
  BY DEF O, N
<1> QED
  BY <1>4, <1>5, <1>6, <1>7

(* f joins the first sequences of ss: f[i] is the first i of them in a row. *)
Joins(ss, f, n) == f = [i \in 1..n |-> IF i = 1 THEN ss[i] ELSE f[i - 1] \o ss[i]]

(* The lists joined so far, which FoldSeq's definition computes. *)
LEMMA JoinDefined ==
    ASSUME NEW ss, NEW c \in Nat
    PROVE  \E f : Joins(ss, f, c)
<1> DEFINE T == {n \in 0..c : ~ \E f : Joins(ss, f, n)}
<1> SUFFICES ASSUME T # {} PROVE FALSE
  OBVIOUS
<1>0. T \subseteq Nat
  OBVIOUS
<1> HIDE DEF T
<1>1. PICK n \in T : \A m \in T : n <= m
  BY <1>0, NatLeast
<1>2. n \in 0..c /\ ~ \E f : Joins(ss, f, n)
  BY DEF T
<1>3. n # 0
  <2>1. Joins(ss, [i \in 1..0 |-> << >>], 0)
    BY DEF Joins
  <2> QED
    BY <1>2, <2>1
<1>4. PICK g : Joins(ss, g, n - 1)
  <2>1. n - 1 \in 0..c /\ ~(n <= n - 1)
    BY <1>2, <1>3
  <2> QED
    BY <1>1, <2>1 DEF T
<1> DEFINE h == [i \in 1..n |-> IF i # n THEN g[i] ELSE IF n = 1 THEN ss[n] ELSE g[n - 1] \o ss[n]]
<1>5. Joins(ss, h, n)
  <2> SUFFICES ASSUME NEW i \in 1..n
               PROVE  h[i] = IF i = 1 THEN ss[i] ELSE h[i - 1] \o ss[i]
    BY DEF Joins
  <2>0. n \in Nat /\ i \in Nat
    BY <1>2
  <2>1. CASE i = n /\ i = 1
    BY <2>1
  <2>2. CASE i = n /\ i # 1
    <3>1. i - 1 \in 1..n /\ i - 1 # n
      BY <2>0, <2>2
    <3>2. h[i - 1] = g[n - 1]
      BY <2>2, <3>1
    <3> QED
      BY <2>2, <3>2
  <2>3. CASE i # n
    <3>1. i \in 1..(n - 1)
      BY <2>0, <2>3
    <3>2. h[i] = g[i] /\ g[i] = IF i = 1 THEN ss[i] ELSE g[i - 1] \o ss[i]
      BY <1>4, <2>3, <3>1 DEF Joins
    <3>3. i # 1 => i - 1 \in 1..n /\ i - 1 # n
      BY <2>0, <3>1
    <3>4. i # 1 => h[i - 1] = g[i - 1]
      BY <3>3
    <3> QED
      BY <3>2, <3>4
  <2> QED
    BY <2>1, <2>2, <2>3
<1> QED
  BY <1>2, <1>5

(* A list of lists in a row has the members of all of them. *)
LEMMA FlattenIs ==
    ASSUME NEW S, NEW ss \in Seq(Seq(S))
    PROVE  /\ FlattenSeq(ss) \in Seq(S)
           /\ ToSet(FlattenSeq(ss)) = UNION {ToSet(ss[k]) : k \in DOMAIN ss}
<1> DEFINE c == Len(ss)
<1>0. c \in Nat /\ DOMAIN ss = 1..c /\ \A k \in 1..c : ss[k] \in Seq(S)
  BY ElementOfSeq, LenProperties
<1>1. CASE c = 0
  <2>1. FlattenSeq(ss) = << >> /\ DOMAIN ss = {}
    BY <1>0, <1>1 DEF FlattenSeq
  <2> QED
    BY <2>1 DEF ToSet
<1>2. CASE c # 0
  <2> DEFINE f == CHOOSE f : Joins(ss, f, c)
  <2>1. Joins(ss, f, c)
    BY <1>0, JoinDefined
  <2>2. FlattenSeq(ss) = f[c]
    BY <1>0, <1>2 DEF FlattenSeq, Joins
  <2> HIDE DEF f
  <2>3. \A i \in 1..c : f[i] = IF i = 1 THEN ss[i] ELSE f[i - 1] \o ss[i]
    BY <2>1 DEF Joins
  <2> DEFINE Good(n) == f[n] \in Seq(S) /\ ToSet(f[n]) = UNION {ToSet(ss[k]) : k \in 1..n}
             T == {n \in 1..c : ~Good(n)}
  <2>4. T = {}
    <3> SUFFICES ASSUME T # {} PROVE FALSE
      OBVIOUS
    <3>0. T \subseteq Nat
      BY <1>0
    <3> HIDE DEF T
    <3>1. PICK n \in T : \A m \in T : n <= m
      BY <3>0, NatLeast
    <3>2. n \in 1..c /\ ~Good(n)
      BY DEF T
    <3>3. n # 1
      <4> SUFFICES ASSUME n = 1 PROVE Good(1)
        BY <3>2
      <4>1. f[1] = ss[1] /\ ss[1] \in Seq(S) /\ 1..1 = {1}
        BY <1>0, <2>3, <3>2
      <4>2. UNION {ToSet(ss[k]) : k \in {1}} = ToSet(ss[1])
        OBVIOUS
      <4> QED
        BY <4>1, <4>2
    <3>4. Good(n - 1)
      <4>1. n - 1 \in 1..c /\ ~(n <= n - 1)
        BY <1>0, <3>2, <3>3
      <4> QED
        BY <3>1, <4>1 DEF T
    <3>5. f[n] = f[n - 1] \o ss[n] /\ ss[n] \in Seq(S)
      BY <1>0, <2>3, <3>2, <3>3
    <3>6. f[n] \in Seq(S) /\ ToSet(f[n]) = ToSet(f[n - 1]) \cup ToSet(ss[n])
      <4>1. f[n - 1] \in Seq(S)
        BY <3>4
      <4>2. /\ f[n - 1] \o ss[n] \in Seq(S)
            /\ Range(f[n - 1] \o ss[n]) = Range(f[n - 1]) \cup Range(ss[n])
        BY <3>5, <4>1, ConcatProperties, RangeConcatenation
      <4>3. \A s \in Seq(S) : ToSet(s) = Range(s)
        BY DEF ToSet, Range
      <4> QED
        BY <3>5, <4>1, <4>2, <4>3
    <3>7. 1..n = 1..(n - 1) \cup {n}
      BY <1>0, <3>2
    <3>8. Good(n)
      <4> HIDE DEF f
      <4>1. UNION {ToSet(ss[k]) : k \in 1..n} = (UNION {ToSet(ss[k]) : k \in 1..(n - 1)}) \cup ToSet(ss[n])
        BY <3>7
      <4> QED
        BY <3>4, <3>6, <4>1
    <3> QED
      BY <3>2, <3>8
  <2>5. c \in 1..c
    BY <1>0, <1>2
  <2>6. Good(c)
    BY <2>4, <2>5
  <2> QED
    BY <1>0, <2>2, <2>6
<1> QED
  BY <1>1, <1>2

----------------------------------------------------------------------------
(* The search. *)

Searching == pc \in {"first", "second", "visit", "hydrate"}

TypeOK ==
    /\ elements \subseteq Id /\ edges \subseteq Edge /\ ask \in Asks
    /\ pc \in {"ask", "first", "second", "visit", "hydrate", "done", "refused"}
    /\ DOMAIN visited \subseteq Id /\ visited \in [DOMAIN visited -> Nat]
    /\ frontier \in Seq(Id \X Nat)
    /\ pc \in {"second", "visit"} => frontier # << >>
    /\ pc = "hydrate" => frontier = << >>
    /\ heard \in [Id -> Nat] /\ truncated \in BOOLEAN
    /\ page \in Seq(Id) /\ more \in BOOLEAN /\ cursor \in Id \cup {0} /\ results \in Seq(Id)
    /\ steady \in BOOLEAN /\ still \in BOOLEAN /\ always \subseteq Id

(* There are finitely many edges, so a query has finitely many rows. *)
LEMMA EdgesFinite == IsFiniteSet(Edge)
<1> DEFINE T == Traced \X (Id \X Id)
           f == [e \in Edge |-> <<e.kind, <<e.source, e.target>>>>]
<1>1. IsFiniteSet(Id \X Id)
  BY IdAssumption, FS_Product
<1>2. IsFiniteSet(T)
  BY <1>1, IdAssumption, FS_Product
<1>3. f \in [Edge -> T]
  BY DEF Edge
<1>4. \A d, e \in Edge : f[d] = f[e] => d = e
  BY DEF Edge
<1>5. f \in Injection(Edge, T)
  BY <1>3, <1>4 DEF Injection, IsInjective
<1> QED
  BY <1>2, <1>5, FS_Injection

(* The rows a query reads: some of i if there is an edge to it. *)
LEMMA RowsAre ==
    ASSUME TypeOK
    PROVE  /\ RowsIn \in [Id -> Nat] /\ RowsOut \in [Id -> Nat] /\ Nobody \in [Id -> Nat]
           /\ \A i \in Id : RowsIn[i] > 0 <=> \E e \in edges : e.source = i /\ e.target = Current
           /\ \A i \in Id : RowsOut[i] > 0 <=> \E e \in edges : e.target = i /\ e.source = Current
<1>1. IsFiniteSet(edges)
  BY EdgesFinite, FS_Subset DEF TypeOK
<1>2. ASSUME NEW D \in SUBSET edges PROVE Cardinality(D) \in Nat /\ (Cardinality(D) > 0 <=> D # {})
  <2>1. IsFiniteSet(D)
    BY <1>1, <1>2, FS_Subset
  <2>2. Cardinality(D) \in Nat /\ (Cardinality(D) = 0 <=> D = {})
    BY <2>1, FS_CardinalityType, FS_EmptySet
  <2> QED
    BY <2>2
<1>3. ASSUME NEW i \in Id
      PROVE  RowsIn[i] \in Nat /\ (RowsIn[i] > 0 <=> \E e \in edges : e.source = i /\ e.target = Current)
  <2> DEFINE D == {e \in edges : e.source = i /\ e.target = Current}
  <2>1. RowsIn[i] = Cardinality(D)
    BY DEF RowsIn
  <2>2. D \in SUBSET edges /\ (D # {} <=> \E e \in edges : e.source = i /\ e.target = Current)
    OBVIOUS
  <2> QED
    BY <1>2, <2>1, <2>2
<1>4. ASSUME NEW i \in Id
      PROVE  RowsOut[i] \in Nat /\ (RowsOut[i] > 0 <=> \E e \in edges : e.target = i /\ e.source = Current)
  <2> DEFINE D == {e \in edges : e.target = i /\ e.source = Current}
  <2>1. RowsOut[i] = Cardinality(D)
    BY DEF RowsOut
  <2>2. D \in SUBSET edges /\ (D # {} <=> \E e \in edges : e.target = i /\ e.source = Current)
    OBVIOUS
  <2> QED
    BY <1>2, <2>1, <2>2
<1>5. RowsIn \in [Id -> Nat] /\ RowsOut \in [Id -> Nat] /\ Nobody \in [Id -> Nat]
  <2>1. Nobody \in [Id -> Nat]
    BY DEF Nobody
  <2>2. RowsIn \in [Id -> Nat]
    <3> DEFINE C(i) == Cardinality({e \in edges : e.source = i /\ e.target = Current})
    <3>1. RowsIn = [i \in Id |-> C(i)] /\ \A i \in Id : C(i) = RowsIn[i]
      BY DEF RowsIn
    <3> HIDE DEF C
    <3> QED
      BY <1>3, <3>1
  <2>3. RowsOut \in [Id -> Nat]
    <3> DEFINE C(i) == Cardinality({e \in edges : e.target = i /\ e.source = Current})
    <3>1. RowsOut = [i \in Id |-> C(i)] /\ \A i \in Id : C(i) = RowsOut[i]
      BY DEF RowsOut
    <3> HIDE DEF C
    <3> QED
      BY <1>4, <3>1
  <2> QED
    BY <2>1, <2>2, <2>3
<1> QED
  BY <1>3, <1>4, <1>5

(* The first n of the neighbours that rows were read for. *)
Around(rows) ==
    LET ids == Ordered(Id)
    IN  FlattenSeq([k \in DOMAIN ids |-> [n \in 1..rows[ids[k]] |-> ids[k]]])
Kept(rows, n) == SubSeq(Around(rows), 1, IF Len(Around(rows)) < n THEN Len(Around(rows)) ELSE n)

(* The neighbours after sorting and cutting: all of them, unless cut. *)
LEMMA KeptIs ==
    ASSUME NEW rows \in [Id -> Nat], NEW n \in Nat
    PROVE  /\ Len(Around(rows)) \in Nat
           /\ ToSet(Kept(rows, n)) \subseteq {i \in Id : rows[i] > 0}
           /\ ~(Len(Around(rows)) > n) => ToSet(Kept(rows, n)) = {i \in Id : rows[i] > 0}
<1> DEFINE ids == Ordered(Id)
           Times(k) == [m \in 1..rows[ids[k]] |-> ids[k]]
           ss == [k \in DOMAIN ids |-> Times(k)]
           all == Around(rows)
<1>1. ids \in Seq(Id) /\ ToSet(ids) = Id
  BY IdAssumption, OrderedIs
<1>2. Len(ids) \in Nat /\ DOMAIN ids = 1..Len(ids) /\ \A k \in DOMAIN ids : ids[k] \in Id
  BY <1>1, LenProperties, ElementOfSeq
<1>3. ASSUME NEW k \in DOMAIN ids
      PROVE  Times(k) \in Seq(Id) /\ ToSet(Times(k)) = IF rows[ids[k]] > 0 THEN {ids[k]} ELSE {}
  <2>1. rows[ids[k]] \in Nat /\ ids[k] \in Id
    BY <1>2
  <2> DEFINE r == rows[ids[k]]
             x == ids[k]
  <2>2. Times(k) = [m \in 1..r |-> x]
    OBVIOUS
  <2> HIDE DEF r, x, Times
  <2>3. r \in Nat /\ x \in Id
    BY <2>1 DEF r, x
  <2>4. Times(k) \in Seq(Id)
    <3>1. Times(k) \in [1..r -> Id]
      BY <2>2, <2>3
    <3> QED
      BY <2>3, <3>1, SeqDef
  <2>5. ToSet(Times(k)) = IF r > 0 THEN {x} ELSE {}
    <3>1. DOMAIN Times(k) = 1..r /\ \A m \in 1..r : Times(k)[m] = x
      BY <2>2
    <3>2. r > 0 => 1 \in 1..r
      BY <2>3
    <3>3. ~(r > 0) => 1..r = {}
      BY <2>3
    <3> QED
      BY <3>1, <3>2, <3>3 DEF ToSet
  <2> QED
    BY <2>4, <2>5 DEF r, x
<1>4. ss \in Seq(Seq(Id)) /\ DOMAIN ss = DOMAIN ids /\ \A k \in DOMAIN ids : ss[k] = Times(k)
  <2> HIDE DEF Times, ids
  <2>1. ss \in [1..Len(ids) -> Seq(Id)] /\ DOMAIN ss = DOMAIN ids /\ \A k \in DOMAIN ids : ss[k] = Times(k)
    BY <1>2, <1>3
  <2> QED
    BY <1>2, <2>1, SeqDef
<1>5. all = FlattenSeq(ss)
  BY DEF Around
<1>6. all \in Seq(Id) /\ ToSet(all) = UNION {ToSet(ss[k]) : k \in DOMAIN ss}
  <2> HIDE DEF ss, all
  <2> QED
    BY <1>4, <1>5, FlattenIs
<1> HIDE DEF ss, all, Times
<1>7. ToSet(all) = {i \in Id : rows[i] > 0}
  <2> HIDE DEF ids
  <2>1. \A i : i \in ToSet(all) <=> \E k \in DOMAIN ids : i \in ToSet(Times(k))
    BY <1>4, <1>6
  <2>2. \A i : i \in ToSet(all) <=> \E k \in DOMAIN ids : i = ids[k] /\ rows[ids[k]] > 0
    BY <1>3, <2>1
  <2>3. \A i \in Id : \E k \in DOMAIN ids : i = ids[k]
    BY <1>1 DEF ToSet
  <2> QED
    BY <1>2, <2>2, <2>3
<1>8. Len(all) \in Nat /\ DOMAIN all = 1..Len(all) /\ \A i \in 1..Len(all) : all[i] \in Id
  BY <1>6, LenProperties, ElementOfSeq
<1> DEFINE l == IF Len(all) < n THEN Len(all) ELSE n
<1>9. l \in Nat /\ 1..l \subseteq 1..Len(all) /\ (~(Len(all) > n) => l = Len(all))
  <2>1. Len(all) \in Nat
    BY <1>8
  <2> DEFINE c == Len(all)
  <2> HIDE DEF c
  <2>2. (IF c < n THEN c ELSE n) \in Nat /\ (IF c < n THEN c ELSE n) <= c
        /\ (~(c > n) => (IF c < n THEN c ELSE n) = c)
    BY <2>1 DEF c
  <2>3. l = IF c < n THEN c ELSE n
    BY DEF c
  <2> HIDE DEF l
  <2>4. l \in Nat /\ l <= c /\ (~(c > n) => l = c)
    BY <2>2, <2>3
  <2>5. 1..l \subseteq 1..c
    BY <2>1, <2>4 DEF c
  <2> QED
    BY <2>4, <2>5 DEF c
<1>10. Kept(rows, n) = SubSeq(all, 1, l)
  BY DEF Kept, all
<1> HIDE DEF l
<1>11. /\ SubSeq(all, 1, l) \in Seq(Id) /\ Len(SubSeq(all, 1, l)) = l
       /\ \A i \in 1..l : SubSeq(all, 1, l)[i] = all[i]
  <2>1. \A i \in 1..l : all[i] \in Id
    BY <1>8, <1>9
  <2>2. /\ SubSeq(all, 1, l) \in Seq(Id)
        /\ Len(SubSeq(all, 1, l)) = IF 1 <= l THEN l - 1 + 1 ELSE 0
        /\ \A i \in 1..(l - 1 + 1) : SubSeq(all, 1, l)[i] = all[1 + i - 1]
    BY <1>9, <2>1, SubSeqProperties
  <2> QED
    BY <1>9, <2>2
<1>12. DOMAIN SubSeq(all, 1, l) = 1..l
  BY <1>11, LenProperties
<1>13. ToSet(Kept(rows, n)) = {all[i] : i \in 1..l}
  BY <1>10, <1>11, <1>12 DEF ToSet
<1>14. {all[i] : i \in 1..l} \subseteq ToSet(all)
  BY <1>8, <1>9 DEF ToSet
<1>15. ~(Len(all) > n) => {all[i] : i \in 1..l} = ToSet(all)
  BY <1>8, <1>9 DEF ToSet
<1> QED
  BY <1>7, <1>8, <1>13, <1>14, <1>15 DEF all

(* What the search goes on with: the rest of the queue, and behind it what   *)
(* was found, all at the same distance.                                      *)
Longer(f, new, hops) == Tail(f) \o [k \in DOMAIN Ordered(new) |-> <<Ordered(new)[k], hops>>]

(* g is f without its head, and all of new behind it. *)
Goes(f, g, new, hops) ==
    /\ g \in Seq(Id \X Nat) /\ DOMAIN g \subseteq Nat \ {0}
    /\ Len(f) \in Nat \ {0} /\ DOMAIN f = 1..Len(f) /\ Head(f) = f[1] /\ f[1] \in Id \X Nat
    /\ \A k \in DOMAIN g : \/ k + 1 \in DOMAIN f /\ g[k] = f[k + 1]
                           \/ k + 1 > Len(f) /\ g[k][1] \in new /\ g[k][2] = hops
    /\ \A k \in DOMAIN f : k # 1 => \E l \in DOMAIN g : g[l] = f[k]
    /\ \A i \in new : \E l \in DOMAIN g : g[l][1] = i

(* The queue after a visit: what was in it, then what was new. *)
LEMMA LongerIs ==
    ASSUME NEW f \in Seq(Id \X Nat), f # << >>, NEW new, new \subseteq Id, NEW hops \in Nat
    PROVE  Goes(f, Longer(f, new, hops), new, hops)
<1> DEFINE O == Ordered(new)
           t == [k \in DOMAIN O |-> <<O[k], hops>>]
           g == Longer(f, new, hops)
           h == Tail(f)
           n == Len(f) - 1
<1>1. /\ Len(f) \in Nat \ {0} /\ DOMAIN f = 1..Len(f) /\ Head(f) = f[1] /\ f[1] \in Id \X Nat
      /\ h \in Seq(Id \X Nat) /\ Len(h) = n /\ n \in Nat /\ \A k \in 1..n : h[k] = f[k + 1]
  <2>1. Len(f) \in Nat \ {0} /\ DOMAIN f = 1..Len(f)
    BY EmptySeq, LenProperties
  <2>2. Head(f) = f[1] /\ Head(f) \in Id \X Nat /\ h \in Seq(Id \X Nat) /\ Len(h) = n
    BY HeadTailProperties
  <2>3. \A k \in 1..n : h[k] = f[k + 1]
    BY <2>1
  <2> QED
    BY <2>1, <2>2, <2>3
<1>2. O \in Seq(new) /\ ToSet(O) = new
  <2>1. IsFiniteSet(new) /\ new \subseteq Nat
    BY IdAssumption, FS_Subset
  <2> QED
    BY <2>1, OrderedIs
<1>3. Len(O) \in Nat /\ DOMAIN O = 1..Len(O) /\ \A k \in DOMAIN O : O[k] \in new
  BY <1>2, LenProperties, ElementOfSeq
<1> HIDE DEF O, h, n
<1>4. t \in Seq(Id \X Nat) /\ Len(t) = Len(O) /\ \A k \in 1..Len(O) : t[k] = <<O[k], hops>>
  <2>1. t \in [1..Len(O) -> Id \X Nat] /\ \A k \in 1..Len(O) : t[k] = <<O[k], hops>>
    BY <1>3
  <2> QED
    BY <1>3, <2>1, SeqDef, LenProperties
<1>5. g = h \o t
  BY DEF Longer, O, h
<1> HIDE DEF g, t
<1>6. /\ g \in Seq(Id \X Nat) /\ Len(g) = n + Len(O)
      /\ \A k \in 1..(n + Len(O)) : g[k] = IF k <= n THEN h[k] ELSE t[k - n]
  <2> DEFINE E == Id \X Nat
  <2>1. h \in Seq(E) /\ t \in Seq(E)
    BY <1>1, <1>4
  <2> HIDE DEF E
  <2>2. /\ h \o t \in Seq(E) /\ Len(h \o t) = Len(h) + Len(t)
        /\ \A k \in 1..(Len(h) + Len(t)) : (h \o t)[k] = IF k <= Len(h) THEN h[k] ELSE t[k - Len(h)]
    BY <2>1, ConcatProperties
  <2> QED
    BY <1>1, <1>4, <1>5, <2>2 DEF E
<1>7. DOMAIN g = 1..(n + Len(O))
  BY <1>6, LenProperties
<1>8. ASSUME NEW k \in DOMAIN g
      PROVE  \/ k + 1 \in DOMAIN f /\ g[k] = f[k + 1]
             \/ k + 1 > Len(f) /\ g[k][1] \in new /\ g[k][2] = hops
  <2>1. k \in 1..(n + Len(O)) /\ k \in Nat
    BY <1>1, <1>3, <1>7
  <2>2. CASE k <= n
    <3>1. k \in 1..n
      BY <1>1, <2>1, <2>2
    <3>2. k + 1 \in 1..Len(f)
      BY <1>1, <3>1 DEF n
    <3> QED
      BY <1>1, <1>6, <2>1, <2>2, <3>1, <3>2
  <2>3. CASE ~(k <= n)
    <3>1. k - n \in 1..Len(O) /\ k + 1 > Len(f)
      BY <1>1, <1>3, <2>1, <2>3 DEF n
    <3>2. g[k] = <<O[k - n], hops>>
      BY <1>4, <1>6, <2>1, <2>3, <3>1
    <3> QED
      BY <1>3, <3>1, <3>2
  <2> QED
    BY <2>2, <2>3
<1>9. ASSUME NEW k \in DOMAIN f, k # 1 PROVE \E l \in DOMAIN g : g[l] = f[k]
  <2>1. k - 1 \in 1..n /\ k - 1 + 1 = k
    BY <1>1, <1>9 DEF n
  <2>2. k - 1 \in 1..(n + Len(O)) /\ k - 1 <= n
    BY <1>1, <1>3, <2>1
  <2>3. g[k - 1] = f[k]
    BY <1>1, <1>6, <2>1, <2>2
  <2> QED
    BY <1>7, <2>2, <2>3
<1>10. ASSUME NEW i \in new PROVE \E l \in DOMAIN g : g[l][1] = i
  <2>1. PICK k \in 1..Len(O) : O[k] = i
    BY <1>2, <1>3 DEF ToSet
  <2> DEFINE m == k + n
  <2>2. m \in 1..(n + Len(O)) /\ ~(m <= n) /\ m - n = k
    BY <1>1, <1>3
  <2> HIDE DEF m
  <2>3. g[m] = t[m - n]
    BY <1>6, <2>2
  <2>4. g[m] = <<i, hops>>
    BY <1>4, <2>1, <2>2, <2>3
  <2> QED
    <3>1. m \in DOMAIN g
      BY <1>7, <2>2
    <3>2. g[m][1] = i
      BY <2>4
    <3> QED
      BY <3>1, <3>2
<1>11. DOMAIN g \subseteq Nat \ {0}
  BY <1>1, <1>3, <1>7
<1> QED
  <2>1. Goes(f, g, new, hops)
    BY <1>1, <1>6, <1>8, <1>9, <1>10, <1>11 DEF Goes
  <2> QED
    BY <2>1 DEF g

(* The queue without its head. *)
LEMMA TailIs ==
    ASSUME NEW f \in Seq(Id \X Nat), f # << >>
    PROVE  Goes(f, Tail(f), {}, 0)
<1> DEFINE h == Tail(f)
           n == Len(f) - 1
<1>1. Len(f) \in Nat \ {0} /\ DOMAIN f = 1..Len(f)
  BY EmptySeq, LenProperties
<1>2. Head(f) = f[1] /\ Head(f) \in Id \X Nat /\ h \in Seq(Id \X Nat) /\ Len(h) = n
  BY HeadTailProperties
<1>3. \A k \in 1..n : h[k] = f[k + 1]
  BY <1>1
<1>4. DOMAIN h = 1..n /\ n \in Nat
  BY <1>1, <1>2, LenProperties
<1> HIDE DEF h
<1>5. \A k \in 1..n : k + 1 \in DOMAIN f
  BY <1>1
<1>6. \A k \in DOMAIN f : k # 1 => k - 1 \in 1..n /\ k - 1 + 1 = k
  BY <1>1
<1>7. \A k \in DOMAIN f : k # 1 => h[k - 1] = f[k]
  BY <1>3, <1>6
<1> QED
  <2>1. Goes(f, h, {}, 0)
    BY <1>1, <1>2, <1>3, <1>4, <1>5, <1>6, <1>7 DEF Goes
  <2> QED
    BY <2>1 DEF h

(* What a visit finds of its element, and how far from the root. *)
Found == ToSet(Kept(heard, ask.fanout)) \ ({ask.root} \cup DOMAIN visited)
Hops == Head(frontier)[2] + 1

(* What a visit does, in terms of what it found. *)
LEMMA VisitIs ==
    ASSUME TypeOK, Visit
    PROVE  /\ Found \subseteq Id /\ Hops \in Nat \ {0} /\ Current \in Id /\ Head(frontier)[2] \in Nat
           /\ visited' = [i \in DOMAIN visited \cup Found |-> IF i \in Found THEN Hops ELSE visited[i]]
           /\ frontier' = Longer(frontier, Found, Hops)
           /\ truncated' = (truncated \/ Len(Around(heard)) > ask.fanout)
<1>1. ask.fanout \in Nat /\ heard \in [Id -> Nat]
  BY AsksAssumption DEF TypeOK
<1>2. ToSet(Kept(heard, ask.fanout)) \subseteq Id
  BY <1>1, KeptIs
<1>3. frontier \in Seq(Id \X Nat) /\ frontier # << >>
  BY DEF TypeOK, Visit
<1>4. Head(frontier) \in Id \X Nat
  BY <1>3, HeadTailProperties
<1>5. Neighbours = Around(heard)
  BY DEF Neighbours, Around
<1>6. SubSeq(Neighbours, 1, IF Len(Neighbours) < ask.fanout THEN Len(Neighbours) ELSE ask.fanout)
          = Kept(heard, ask.fanout)
  BY <1>5 DEF Kept
<1>7. /\ visited' = [i \in DOMAIN visited \cup Found |-> IF i \in Found THEN Hops ELSE visited[i]]
      /\ frontier' = Longer(frontier, Found, Hops)
      /\ truncated' = (truncated \/ Len(Around(heard)) > ask.fanout)
  BY <1>5, <1>6 DEF Visit, Found, Hops, Longer
<1>8. Current \in Id /\ Head(frontier)[2] \in Nat /\ Hops \in Nat \ {0}
  BY <1>4 DEF Current, Hops
<1> QED
  BY <1>2, <1>7, <1>8 DEF Found

(* The page is what follows the cursor, as far as a page goes. *)
Rest == Len(Ordered(DOMAIN visited)) - Start(Ordered(DOMAIN visited))
Size == IF Rest < PageSize THEN Rest ELSE PageSize

(* A page: a slice of the ids in order, from the cursor on. *)
LEMMA PaginateIs ==
    ASSUME TypeOK, Paginate, NEW ids, ids = Ordered(DOMAIN visited)
    PROVE  /\ ids \in Seq(Id) /\ ToSet(ids) = DOMAIN visited /\ DOMAIN ids = 1..Len(ids) /\ Len(ids) \in Nat
           /\ \A m, n \in DOMAIN ids : m < n <=> ids[m] < ids[n]
           /\ Start(ids) \in 0..Len(ids) /\ Rest = Len(ids) - Start(ids)
           /\ cursor \in DOMAIN visited => Start(ids) # 0 /\ ids[Start(ids)] = cursor
           /\ cursor \notin DOMAIN visited => Start(ids) = 0
           /\ Size \in Nat /\ page' \in Seq(Id) /\ Len(page') = Size
           /\ \A j \in 1..Size : page'[j] = ids[Start(ids) + j]
           /\ more' = (Rest > PageSize)
           /\ more' => cursor' = ids[Start(ids) + Size] /\ Size = PageSize /\ Start(ids) + Size \in DOMAIN ids
           /\ ~more' => cursor' = cursor /\ Start(ids) + Size = Len(ids)
<1> DEFINE st == Start(ids)
           c == Len(ids)
           rest == SubSeq(ids, st + 1, c)
           m == Size
           this == SubSeq(rest, 1, m)
<1>1. /\ ids \in Seq(DOMAIN visited) /\ c = Cardinality(DOMAIN visited) /\ ToSet(ids) = DOMAIN visited
      /\ \A k, n \in 1..c : k < n <=> ids[k] < ids[n]
  <2>1. DOMAIN visited \subseteq Nat /\ IsFiniteSet(DOMAIN visited)
    BY IdAssumption, FS_Subset DEF TypeOK
  <2> QED
    BY <2>1, OrderedIs
<1>2. ids \in Seq(Id) /\ c \in Nat /\ DOMAIN ids = 1..c /\ \A k \in 1..c : ids[k] \in Id
  <2>1. ids \in Seq(Id)
    BY <1>1, SeqMonotonic DEF TypeOK
  <2> QED
    BY <2>1, LenProperties, ElementOfSeq
<1>3. /\ st \in 0..c
      /\ cursor \in DOMAIN visited => st # 0 /\ ids[st] = cursor
      /\ cursor \notin DOMAIN visited => st = 0
  <2>1. CASE cursor \in DOMAIN visited
    <3>1. cursor \in ToSet(ids) /\ \E n \in DOMAIN ids : ids[n] = cursor
      BY <1>1, <2>1 DEF ToSet
    <3>2. st = CHOOSE n \in DOMAIN ids : ids[n] = cursor
      BY <3>1 DEF Start
    <3>3. st \in DOMAIN ids /\ ids[st] = cursor
      BY <3>1, <3>2
    <3> QED
      BY <1>2, <2>1, <3>3
  <2>2. CASE cursor \notin DOMAIN visited
    <3>1. st = 0
      BY <1>1, <2>2 DEF Start
    <3> QED
      BY <1>2, <2>2, <3>1
  <2> QED
    BY <2>1, <2>2
<1> HIDE DEF st, c
<1>4. st \in Nat /\ c \in Nat /\ st <= c
  BY <1>2, <1>3
<1>5. /\ rest \in Seq(Id) /\ Len(rest) = c - st
      /\ \A j \in 1..(c - st) : rest[j] = ids[st + j]
  <2>1. \A k \in (st + 1)..c : ids[k] \in Id
    BY <1>2, <1>4
  <2>2. /\ rest \in Seq(Id)
        /\ Len(rest) = IF st + 1 <= c THEN c - (st + 1) + 1 ELSE 0
        /\ \A j \in 1..(c - (st + 1) + 1) : rest[j] = ids[(st + 1) + j - 1]
    BY <1>4, <2>1, SubSeqProperties
  <2>3. Len(rest) = c - st
    BY <1>4, <2>2
  <2>4. ASSUME NEW j \in 1..(c - st) PROVE rest[j] = ids[st + j]
    <3>1. j \in 1..(c - (st + 1) + 1) /\ (st + 1) + j - 1 = st + j
      BY <1>4
    <3> QED
      BY <2>2, <3>1
  <2> QED
    BY <2>2, <2>3, <2>4
<1>6. Rest = c - st
  BY DEF Rest, st, c
<1>7. Rest \in Nat /\ m \in Nat /\ m <= Rest /\ (Rest > PageSize => m = PageSize /\ m > 0) /\ (~(Rest > PageSize) => m = Rest)
  BY <1>4, <1>6, PageAssumption DEF Size
<1> HIDE DEF rest, m
<1>8. this \in Seq(Id) /\ Len(this) = m /\ \A j \in 1..m : this[j] = rest[j]
  <2>1. Len(rest) \in Nat /\ \A k \in 1..Len(rest) : rest[k] \in Id
    BY <1>5, LenProperties, ElementOfSeq
  <2>2. \A k \in 1..m : rest[k] \in Id
    BY <1>5, <1>6, <1>7, <2>1
  <2>3. /\ this \in Seq(Id) /\ Len(this) = IF 1 <= m THEN m - 1 + 1 ELSE 0
        /\ \A j \in 1..(m - 1 + 1) : this[j] = rest[1 + j - 1]
    BY <1>7, <2>2, SubSeqProperties
  <2>4. m - 1 + 1 = m /\ \A j \in 1..m : 1 + j - 1 = j
    BY <1>7
  <2>5. Len(this) = m
    BY <1>7, <2>3
  <2> QED
    BY <2>3, <2>4, <2>5
<1>9. \A j \in 1..m : this[j] = ids[st + j]
  <2>1. \A j \in 1..m : j \in 1..(c - st)
    BY <1>4, <1>6, <1>7
  <2> QED
    BY <1>5, <1>8, <2>1
<1>10. page' = this /\ more' = (Rest > PageSize) /\ cursor' = IF Rest > PageSize THEN Last(this) ELSE cursor
  <2>1. rest = SubSeq(ids, Start(ids) + 1, Len(ids)) /\ Len(rest) = Rest
    BY <1>5, <1>6 DEF rest, st, c
  <2>2. /\ page' = SubSeq(rest, 1, IF Len(rest) < PageSize THEN Len(rest) ELSE PageSize)
        /\ more' = (Len(rest) > PageSize)
        /\ cursor' = IF Len(rest) > PageSize
                     THEN Last(SubSeq(rest, 1, IF Len(rest) < PageSize THEN Len(rest) ELSE PageSize))
                     ELSE cursor
    BY <2>1 DEF Paginate
  <2> QED
    BY <2>1, <2>2 DEF m, Size
<1> HIDE DEF this
<1>11. Rest > PageSize => Last(this) = ids[st + m] /\ st + m \in 1..c
  <2> SUFFICES ASSUME Rest > PageSize PROVE Last(this) = ids[st + m] /\ st + m \in 1..c
    OBVIOUS
  <2>1. m \in 1..m /\ st + m \in 1..c
    BY <1>4, <1>6, <1>7
  <2> QED
    BY <1>8, <1>9, <2>1 DEF Last
<1>12. ~(Rest > PageSize) => st + m = c
  BY <1>4, <1>6, <1>7
<1>13. st = Start(ids) /\ c = Len(ids) /\ m = Size
  BY DEF st, c, m
<1> QED
  BY <1>1, <1>2, <1>3, <1>6, <1>7, <1>8, <1>9, <1>10, <1>11, <1>12, <1>13

(* At first the types are right. *)
LEMMA InitTyped == Init => TypeOK
<1> SUFFICES ASSUME Init PROVE TypeOK
  OBVIOUS
<1>1. edges \subseteq Edge /\ ask \in Asks
  BY GraphsAssumption DEF Init
<1>2. visited = << >> /\ DOMAIN visited = {} /\ visited \in [DOMAIN visited -> Nat]
  BY DEF Init
<1>3. heard \in [Id -> Nat]
  BY DEF Init, Nobody
<1>4. frontier \in Seq(Id \X Nat) /\ page \in Seq(Id) /\ results \in Seq(Id)
  BY EmptySeq DEF Init
<1>5. DOMAIN visited \subseteq Id
  BY <1>2
<1> QED
  BY <1>1, <1>2, <1>3, <1>4, <1>5 DEF Init, TypeOK

(* Each step keeps the types. *)
LEMMA StepTyped == TypeOK /\ [Next]_vars => TypeOK'
<1> SUFFICES ASSUME TypeOK, [Next]_vars PROVE TypeOK'
  OBVIOUS
<1> USE DEF TypeOK
<1>0. ask.root \in Id /\ ask.depth \in Nat /\ ask.fanout \in Nat
  BY AsksAssumption
<1>1. CASE Begin
  <2>1. visited' = << >> /\ DOMAIN visited' = {} /\ visited' \in [DOMAIN visited' -> Nat]
    BY <1>1 DEF Begin
  <2>2. frontier' \in Seq(Id \X Nat)
    BY <1>0, <1>1 DEF Begin
  <2>3. heard' \in [Id -> Nat]
    BY <1>1 DEF Begin, Nobody
  <2> QED
    BY <1>1, <2>1, <2>2, <2>3 DEF Begin, graph, pages
<1>2. CASE Incoming
  <2>1. heard' \in [Id -> Nat]
    BY <1>2, RowsAre DEF Incoming
  <2> QED
    BY <1>2, <2>1 DEF Incoming, graph, pages
<1>3. CASE Outgoing
  <2>1. RowsOut \in [Id -> Nat]
    BY RowsAre
  <2>2. heard' \in [Id -> Nat]
    BY <1>3, <2>1 DEF Outgoing
  <2> QED
    BY <1>3, <2>2 DEF Outgoing, graph, pages
<1>4. CASE Visit
  <2>1. /\ Found \subseteq Id /\ Hops \in Nat
        /\ visited' = [i \in DOMAIN visited \cup Found |-> IF i \in Found THEN Hops ELSE visited[i]]
        /\ frontier' = Longer(frontier, Found, Hops)
        /\ truncated' = (truncated \/ Len(Around(heard)) > ask.fanout)
    BY <1>4, VisitIs
  <2>2. DOMAIN visited' = DOMAIN visited \cup Found /\ visited' \in [DOMAIN visited' -> Nat]
    BY <2>1
  <2>3. frontier' \in Seq(Id \X Nat)
    <3>1. frontier # << >>
      BY <1>4 DEF Visit
    <3> QED
      BY <2>1, <3>1, LongerIs DEF Goes
  <2>4. truncated' \in BOOLEAN
    BY <2>1
  <2> QED
    BY <1>4, <2>1, <2>2, <2>3, <2>4 DEF Visit, graph, pages
<1>5. CASE Skip
  <2>1. frontier' \in Seq(Id \X Nat)
    BY <1>5, TailIs DEF Skip, Goes
  <2> QED
    BY <1>5, <2>1 DEF Skip, graph, pages
<1>6. CASE Paginate
  <2> DEFINE ids == Ordered(DOMAIN visited)
  <2>1. page' \in Seq(Id) /\ more' = (Rest > PageSize) /\ (more' => Start(ids) + Size \in DOMAIN ids)
        /\ ids \in Seq(Id) /\ (more' => cursor' = ids[Start(ids) + Size]) /\ (~more' => cursor' = cursor)
        /\ DOMAIN ids = 1..Len(ids)
    BY <1>6, PaginateIs
  <2> HIDE DEF ids
  <2>2. cursor' \in Id \cup {0}
    BY <2>1, ElementOfSeq
  <2>3. more' \in BOOLEAN
    BY <2>1
  <2> QED
    BY <1>6, <2>1, <2>2, <2>3 DEF Paginate, graph, walk
<1>7. CASE Hydrate
  <2>1. Head(page) \in Id /\ page' \in Seq(Id)
    BY <1>7, HeadTailProperties DEF Hydrate
  <2>2. results' \in Seq(Id)
    BY <1>7, <2>1, AppendProperties DEF Hydrate
  <2> QED
    BY <1>7, <2>1, <2>2 DEF Hydrate, graph, walk
<1>8. CASE Respond
  BY <1>8 DEF Respond, graph, walk, pages
<1>9. CASE Edit
  <2>1. elements' \subseteq Id /\ edges' \subseteq Edge
    BY <1>9 DEF Edit
  <2> QED
    BY <1>9, <2>1 DEF Edit, walk, pages
<1>10. CASE UNCHANGED vars
  BY <1>10 DEF vars, graph, walk, pages
<1> QED
  BY <1>1, <1>2, <1>3, <1>4, <1>5, <1>6, <1>7, <1>8, <1>9, <1>10 DEF Next

(* What the search knows, and at what distance. *)
Known == {ask.root} \cup DOMAIN visited
level == [i \in Known |-> IF i = ask.root THEN 0 ELSE visited[i]]

(* The queue is in the order of distance, and nothing is more than one hop   *)
(* further than its head.                                                    *)
Layered ==
    /\ ask.root \notin DOMAIN visited
    /\ \A i \in DOMAIN visited : visited[i] \in 1..ask.depth
    /\ \A k \in DOMAIN frontier : frontier[k][1] \in Known /\ frontier[k][2] = level[frontier[k][1]]
    /\ \A k, l \in DOMAIN frontier : k <= l => frontier[k][2] <= frontier[l][2]
    /\ \A i \in Known : \A k \in DOMAIN frontier : level[i] <= frontier[k][2] + 1
    /\ pc \in {"second", "visit"} => Head(frontier)[2] < ask.depth

(* Each element was found from one that is a hop nearer to the root. *)
Attached == \A i \in DOMAIN visited : \E j \in Known : i \in Steps(j) /\ visited[i] = level[j] + 1

(* What was heard of the head's neighbours so far. *)
HeardIs ==
    /\ pc = "second" => \A i \in Id :
          heard[i] > 0 <=> ask.direction # "outgoing" /\ \E e \in edges : e.source = i /\ e.target = Current
    /\ pc = "visit" => \A i \in Id : heard[i] > 0 <=> i \in Steps(Current)

(* Whatever has left the queue has all its neighbours known, no more than a  *)
(* hop further.                                                              *)
Closed ==
    ~truncated => \A i \in Known :
        (level[i] < ask.depth /\ \A k \in DOMAIN frontier : frontier[k][1] # i) =>
            \A j \in Steps(i) : j \in Known /\ level[j] <= level[i] + 1

SearchInv ==
    /\ TypeOK
    /\ Searching => Layered
    /\ Searching /\ steady => Attached /\ HeardIs /\ Closed

(* A known element has a distance. *)
LEMMA LevelsTyped ==
    ASSUME TypeOK
    PROVE  /\ ask.root \in Id /\ ask.depth \in Nat /\ ask.fanout \in Nat /\ Known \subseteq Id
           /\ ask.direction \in {"incoming", "outgoing", "both"}
           /\ \A i \in Known : level[i] \in Nat
<1>1. ask \in Asks /\ DOMAIN visited \subseteq Id /\ visited \in [DOMAIN visited -> Nat]
  BY DEF TypeOK
<1>2. ask \in [root : Id, depth : Nat, fanout : Nat, direction : {"incoming", "outgoing", "both"}]
  BY <1>1, AsksAssumption
<1>3. \A i \in DOMAIN visited : visited[i] \in Nat
  BY <1>1
<1> QED
  BY <1>1, <1>2, <1>3 DEF Known, level

(* Neighbours are the ends of edges, by direction. *)
LEMMA StepsAre ==
    ASSUME TypeOK, NEW i
    PROVE  /\ Steps(i) \subseteq Id
           /\ \A j : j \in Steps(i) <=>
                 \/ ask.direction # "incoming" /\ \E e \in edges : e.target = j /\ e.source = i
                 \/ ask.direction # "outgoing" /\ \E e \in edges : e.source = j /\ e.target = i
<1>1. \A e \in edges : e.source \in Id /\ e.target \in Id
  BY DEF TypeOK, Edge
<1> QED
  BY <1>1 DEF Steps

(* The first question is put to the root. *)
LEMMA BeginSearch == TypeOK /\ Begin => SearchInv'
<1> SUFFICES ASSUME TypeOK, Begin PROVE SearchInv'
  OBVIOUS
<1>1. TypeOK'
  BY StepTyped DEF Next
<1>2. /\ visited' = << >> /\ DOMAIN visited' = {} /\ ask' = ask /\ Known' = {ask.root} /\ pc' \in {"first", "refused"}
      /\ frontier' = <<<<ask.root, 0>>>> /\ DOMAIN frontier' = {1} /\ frontier'[1] = <<ask.root, 0>>
      /\ level'[ask.root] = 0
  BY DEF Begin, Known, level
<1>3. ask'.depth \in Nat
  BY <1>1, <1>2, LevelsTyped
<1>4. Layered'
  BY <1>2, <1>3 DEF Layered, level
<1>5. Attached'
  BY <1>2 DEF Attached
<1>6. HeardIs'
  BY <1>2 DEF HeardIs
<1>7. Closed'
  <2>1. \A i \in Known' : \E k \in DOMAIN frontier' : frontier'[k][1] = i
    BY <1>2
  <2> QED
    BY <2>1 DEF Closed
<1> QED
  BY <1>1, <1>4, <1>5, <1>6, <1>7 DEF SearchInv

(* The two queries. *)
LEMMA IncomingSearch == SearchInv /\ Incoming => SearchInv'
<1> SUFFICES ASSUME SearchInv, Incoming PROVE SearchInv'
  OBVIOUS
<1>0. TypeOK /\ Layered /\ TypeOK'
  BY StepTyped DEF SearchInv, Incoming, Searching, Next
<1>1. /\ ask' = ask /\ visited' = visited /\ frontier' = frontier /\ edges' = edges /\ truncated' = truncated
      /\ steady' = steady /\ pc' = "second" /\ frontier # << >> /\ ~Far
  BY DEF Incoming, graph
<1>2. Known' = Known /\ level' = level /\ \A i : Steps(i)' = Steps(i)
  BY <1>1 DEF Known, level, Steps
<1>3. Layered'
  <2>1. Head(frontier)[2] < ask.depth
    <3>1. Head(frontier) \in Id \X Nat
      BY <1>0, <1>1, HeadTailProperties DEF TypeOK
    <3> QED
      BY <1>0, <1>1, <3>1, LevelsTyped DEF Far
  <2> QED
    BY <1>0, <1>1, <1>2, <2>1 DEF Layered
<1>4. ASSUME steady PROVE Attached' /\ HeardIs' /\ Closed'
  <2>1. Attached /\ Closed
    BY <1>4 DEF SearchInv, Incoming, Searching
  <2>2. Attached' /\ Closed'
    BY <1>1, <1>2, <2>1 DEF Attached, Closed
  <2>3. ASSUME NEW i \in Id
        PROVE  heard'[i] > 0 <=> ask.direction # "outgoing" /\ \E e \in edges : e.source = i /\ e.target = Current
    <3>1. CASE ask.direction = "outgoing"
      <4>1. heard'[i] = 0
        BY <3>1 DEF Incoming, Nobody
      <4> QED
        BY <3>1, <4>1
    <3>2. CASE ask.direction # "outgoing"
      <4>1. heard' = RowsIn
        BY <3>2 DEF Incoming
      <4> QED
        BY <1>0, <3>2, <4>1, RowsAre
    <3> QED
      BY <3>1, <3>2
  <2>4. HeardIs'
    BY <1>1, <2>3 DEF HeardIs, Current
  <2> QED
    BY <2>2, <2>4
<1> QED
  BY <1>0, <1>1, <1>3, <1>4 DEF SearchInv

(* The second query of an element adds the edges that leave it. *)
LEMMA OutgoingSearch == SearchInv /\ Outgoing => SearchInv'
<1> SUFFICES ASSUME SearchInv, Outgoing PROVE SearchInv'
  OBVIOUS
<1>0. TypeOK /\ Layered /\ TypeOK'
  BY StepTyped DEF SearchInv, Outgoing, Searching, Next
<1>1. /\ ask' = ask /\ visited' = visited /\ frontier' = frontier /\ edges' = edges /\ truncated' = truncated
      /\ steady' = steady /\ pc' = "visit" /\ pc = "second"
  BY DEF Outgoing, graph
<1>2. Known' = Known /\ level' = level /\ \A i : Steps(i)' = Steps(i)
  BY <1>1 DEF Known, level, Steps
<1>3. Layered'
  BY <1>0, <1>1, <1>2 DEF Layered
<1>4. ASSUME steady PROVE Attached' /\ HeardIs' /\ Closed'
  <2>1. Attached /\ HeardIs /\ Closed
    BY <1>4 DEF SearchInv, Outgoing, Searching
  <2>2. Attached' /\ Closed'
    BY <1>1, <1>2, <2>1 DEF Attached, Closed
  <2>3. ASSUME NEW i \in Id PROVE heard'[i] > 0 <=> i \in Steps(Current)
    <3>1. heard[i] > 0 <=> ask.direction # "outgoing" /\ \E e \in edges : e.source = i /\ e.target = Current
      BY <1>1, <2>1 DEF HeardIs
    <3>2. RowsOut[i] \in Nat /\ (RowsOut[i] > 0 <=> \E e \in edges : e.target = i /\ e.source = Current)
      BY <1>0, RowsAre
    <3>3. heard[i] \in Nat
      BY <1>0 DEF TypeOK
    <3>4. i \in Steps(Current) <=>
              \/ ask.direction # "incoming" /\ \E e \in edges : e.target = i /\ e.source = Current
              \/ ask.direction # "outgoing" /\ \E e \in edges : e.source = i /\ e.target = Current
      BY <1>0, StepsAre
    <3>5. heard'[i] = heard[i] + IF ask.direction = "incoming" THEN 0 ELSE RowsOut[i]
      BY DEF Outgoing
    <3>6. CASE ask.direction = "incoming"
      <4>1. heard'[i] = heard[i]
        BY <3>3, <3>5, <3>6
      <4> QED
        BY <3>1, <3>4, <3>6, <4>1
    <3>7. CASE ask.direction # "incoming"
      <4>1. heard'[i] > 0 <=> heard[i] > 0 \/ RowsOut[i] > 0
        BY <3>2, <3>3, <3>5, <3>7
      <4> QED
        BY <3>1, <3>2, <3>4, <3>7, <4>1
    <3> QED
      BY <3>6, <3>7
  <2>4. HeardIs'
    BY <1>1, <1>2, <2>3 DEF HeardIs, Current
  <2> QED
    BY <2>2, <2>4
<1> QED
  BY <1>0, <1>1, <1>3, <1>4 DEF SearchInv

(* A visit: everything found is one hop beyond the head, which is closed.    *)
LEMMA VisitSearch == SearchInv /\ Visit => SearchInv'
<1> SUFFICES ASSUME SearchInv, Visit PROVE SearchInv'
  OBVIOUS
<1>0. TypeOK /\ Layered /\ TypeOK'
  BY StepTyped DEF SearchInv, Visit, Searching, Next
<1> DEFINE d == Head(frontier)[2]
<1>1. /\ ask' = ask /\ edges' = edges /\ steady' = steady /\ pc' = "first" /\ pc = "visit" /\ frontier # << >>
  BY <1>0 DEF Visit, graph, TypeOK
<1>2. /\ Found \subseteq Id /\ Hops = d + 1 /\ Current \in Id /\ d \in Nat /\ d < ask.depth
      /\ visited' = [i \in DOMAIN visited \cup Found |-> IF i \in Found THEN Hops ELSE visited[i]]
      /\ frontier' = Longer(frontier, Found, Hops)
      /\ truncated' = (truncated \/ Len(Around(heard)) > ask.fanout)
  BY <1>0, <1>1, VisitIs DEF Hops, Layered
<1>3. /\ ask.root \in Id /\ ask.depth \in Nat /\ ask.fanout \in Nat /\ Known \subseteq Id
      /\ \A i \in Known : level[i] \in Nat
  BY <1>0, LevelsTyped
<1>4. Known' = Known \cup Found /\ \A i \in Known : i \notin Found
  BY <1>1, <1>2 DEF Known, Found
<1>5. (\A i \in Known : level'[i] = level[i]) /\ (\A i \in Found : level'[i] = Hops /\ visited'[i] = Hops /\ i \in DOMAIN visited')
  BY <1>1, <1>2, <1>4 DEF Known, level
<1>6. /\ DOMAIN frontier \subseteq Nat \ {0} /\ 1 \in DOMAIN frontier /\ Head(frontier) = frontier[1]
      /\ \A k \in DOMAIN frontier : frontier[k] \in Id \X Nat
      /\ DOMAIN frontier' \subseteq Nat \ {0}
      /\ \A k \in DOMAIN frontier' :
            \/ k + 1 \in DOMAIN frontier /\ frontier'[k] = frontier[k + 1]
            \/ k + 1 > Len(frontier) /\ frontier'[k][1] \in Found /\ frontier'[k][2] = Hops
      /\ \A k \in DOMAIN frontier : k <= Len(frontier)
      /\ \A k \in DOMAIN frontier : k # 1 => \E l \in DOMAIN frontier' : frontier'[l] = frontier[k]
      /\ \A i \in Found : \E l \in DOMAIN frontier' : frontier'[l][1] = i
  <2>0. frontier \in Seq(Id \X Nat)
    BY <1>0 DEF TypeOK
  <2>1. frontier \in Seq(Id \X Nat) /\ Hops \in Nat
    BY <1>2, <2>0
  <2>2. Len(frontier) \in Nat \ {0} /\ DOMAIN frontier = 1..Len(frontier)
    BY <1>1, <1>2, <2>1, LongerIs DEF Goes
  <2>3. /\ DOMAIN frontier \subseteq Nat \ {0} /\ 1 \in DOMAIN frontier
        /\ \A k \in DOMAIN frontier : k <= Len(frontier)
    BY <2>2
  <2>4. \A k \in DOMAIN frontier : frontier[k] \in Id \X Nat
    BY <2>1, <2>2, ElementOfSeq
  <2>5. Goes(frontier, frontier', Found, Hops)
    BY <1>1, <1>2, <2>1, LongerIs
  <2> QED
    BY <2>3, <2>4, <2>5 DEF Goes
<1> DEFINE Old(k) == k + 1 \in DOMAIN frontier /\ frontier'[k] = frontier[k + 1]
           New(k) == k + 1 > Len(frontier) /\ frontier'[k][2] = Hops /\ frontier'[k][1] \in Found
<1>7. \A k \in DOMAIN frontier' : Old(k) \/ New(k)
  BY <1>6
<1>8. \A k \in DOMAIN frontier : frontier[k][2] \in Nat /\ d <= frontier[k][2] /\ frontier[k][2] <= d + 1
  <2>1. \A k \in DOMAIN frontier : frontier[k][2] \in Nat
    BY <1>6
  <2>2. \A k \in DOMAIN frontier : 1 <= k
    BY <1>6
  <2>3. \A k \in DOMAIN frontier : frontier[1][2] <= frontier[k][2]
    BY <1>0, <1>6, <2>2 DEF Layered
  <2>4. \A k \in DOMAIN frontier : frontier[k][1] \in Known /\ frontier[k][2] = level[frontier[k][1]]
    BY <1>0 DEF Layered
  <2>5. \A k \in DOMAIN frontier : level[frontier[k][1]] <= frontier[1][2] + 1
    BY <1>0, <1>6, <2>4 DEF Layered
  <2> QED
    BY <1>6, <2>1, <2>3, <2>4, <2>5
<1> HIDE DEF d
<1>9. Layered'
  <2>1. ask.root \notin DOMAIN visited'
    BY <1>0, <1>2, <1>4 DEF Layered, Known
  <2>2. \A i \in DOMAIN visited' : visited'[i] \in 1..ask.depth
    <3>1. Hops \in 1..ask.depth
      BY <1>2, <1>3
    <3> QED
      BY <1>0, <1>2, <3>1 DEF Layered
  <2>3. ASSUME NEW k \in DOMAIN frontier'
        PROVE  /\ frontier'[k][1] \in Known' /\ frontier'[k][2] = level'[frontier'[k][1]]
               /\ frontier'[k][2] \in Nat /\ d <= frontier'[k][2] /\ frontier'[k][2] <= Hops
    <3>1. CASE Old(k)
      <4>1. frontier[k + 1][1] \in Known /\ frontier[k + 1][2] = level[frontier[k + 1][1]]
        BY <1>0, <3>1 DEF Layered
      <4>2. level'[frontier[k + 1][1]] = level[frontier[k + 1][1]]
        BY <1>5, <4>1
      <4> QED
        BY <1>2, <1>4, <1>8, <3>1, <4>1, <4>2
    <3>2. CASE New(k)
      BY <1>2, <1>4, <1>5, <3>2
    <3> QED
      BY <1>7, <3>1, <3>2
  <2>4. ASSUME NEW k \in DOMAIN frontier', NEW l \in DOMAIN frontier', k <= l
        PROVE  frontier'[k][2] <= frontier'[l][2]
    <3>1. k \in Nat /\ l \in Nat
      BY <1>6
    <3>2. CASE Old(k) /\ Old(l)
      <4>1. k + 1 <= l + 1
        BY <2>4, <3>1
      <4>2. frontier[k + 1][2] <= frontier[l + 1][2]
        BY <1>0, <3>2, <4>1 DEF Layered
      <4> QED
        BY <3>2, <4>2
    <3>3. CASE New(l)
      BY <2>3, <3>3
    <3>4. CASE New(k) /\ Old(l)
      <4>1. l + 1 <= Len(frontier) /\ k + 1 > Len(frontier)
        BY <1>6, <3>4
      <4>2. Len(frontier) \in Nat
        BY <1>0, LenProperties DEF TypeOK
      <4> QED
        BY <2>4, <3>1, <4>1, <4>2
    <3> QED
      BY <1>7, <3>2, <3>3, <3>4
  <2>5. ASSUME NEW i \in Known', NEW k \in DOMAIN frontier' PROVE level'[i] <= frontier'[k][2] + 1
    <3>1. level'[i] \in Nat /\ level'[i] <= d + 1
      <4>1. CASE i \in Known
        <5>1. level'[i] = level[i] /\ level[i] \in Nat /\ level[i] <= frontier[1][2] + 1
          BY <1>0, <1>3, <1>5, <1>6, <4>1 DEF Layered
        <5> QED
          BY <1>6, <5>1 DEF d
      <4>2. CASE i \in Found
        BY <1>2, <1>5, <4>2
      <4> QED
        BY <1>4, <4>1, <4>2
    <3> QED
      BY <1>2, <2>3, <3>1
  <2> QED
    BY <1>1, <2>1, <2>2, <2>3, <2>4, <2>5 DEF Layered
<1>10. ASSUME steady PROVE Attached' /\ HeardIs' /\ Closed'
  <2>1. Attached /\ HeardIs /\ Closed
    BY <1>10 DEF SearchInv, Visit, Searching
  <2>2. \A i : Steps(i)' = Steps(i)
    BY <1>1 DEF Steps
  <2>3. /\ Current \in Known /\ level[Current] = d
        /\ level'[Current] = d /\ \A i \in Found : i \in Steps(Current)
    <3>1. Current \in Known /\ level[Current] = d
      BY <1>0, <1>6 DEF Layered, Current, d
    <3>2. \A i \in Found : heard[i] > 0
      <4>1. heard \in [Id -> Nat]
        BY <1>0 DEF TypeOK
      <4> QED
        BY <1>3, <4>1, KeptIs DEF Found
    <3>3. \A i \in Found : i \in Steps(Current)
      BY <1>1, <1>2, <2>1, <3>2 DEF HeardIs
    <3> QED
      BY <1>5, <3>1, <3>3
  <2>4. Attached'
    <3> SUFFICES ASSUME NEW i \in DOMAIN visited'
                 PROVE  \E j \in Known' : i \in Steps(j)' /\ visited'[i] = level'[j] + 1
      BY DEF Attached
    <3>1. CASE i \in Found
      <4>1. Current \in Known' /\ i \in Steps(Current) /\ visited'[i] = d + 1
        BY <1>2, <1>4, <1>5, <2>3, <3>1
      <4>2. PICK c \in Known : c = Current
        BY <2>3
      <4>3. i \in Steps(c)' /\ level'[c] = d /\ c \in Known'
        BY <1>4, <2>2, <2>3, <4>1, <4>2
      <4> QED
        BY <4>1, <4>3
    <3>2. CASE i \notin Found
      <4>1. i \in DOMAIN visited /\ visited'[i] = visited[i]
        BY <1>2, <3>2
      <4>2. PICK j \in Known : i \in Steps(j) /\ visited[i] = level[j] + 1
        BY <2>1, <4>1 DEF Attached
      <4>3. j \in Known' /\ i \in Steps(j)' /\ level'[j] = level[j]
        BY <1>4, <1>5, <2>2, <4>2
      <4> QED
        BY <4>1, <4>2, <4>3
    <3> QED
      BY <3>1, <3>2
  <2>5. HeardIs'
    BY <1>1 DEF HeardIs
  <2>6. ASSUME ~truncated',
               NEW i \in Known', level'[i] < ask.depth, \A k \in DOMAIN frontier' : frontier'[k][1] # i,
               NEW j \in Steps(i)
        PROVE  j \in Known' /\ level'[j] <= level'[i] + 1
    <3>0. ~truncated /\ ~(Len(Around(heard)) > ask.fanout)
      BY <1>2, <2>6
    <3>1. i \notin Found
      BY <1>6, <2>6
    <3>2. i \in Known /\ level'[i] = level[i]
      BY <1>4, <1>5, <3>1
    <3>3. CASE i = Current
      <4>1. j \in Id /\ j \in Steps(Current)
        BY <1>0, <2>6, <3>3, StepsAre
      <4>2. heard[j] > 0
        BY <1>1, <2>1, <4>1 DEF HeardIs
      <4>3. j \in ToSet(Kept(heard, ask.fanout))
        <5>1. heard \in [Id -> Nat]
          BY <1>0 DEF TypeOK
        <5> QED
          BY <1>3, <3>0, <4>1, <4>2, <5>1, KeptIs
      <4>4. CASE j \in Found
        BY <1>2, <1>4, <1>5, <2>3, <3>2, <3>3, <4>4
      <4>5. CASE j \notin Found
        <5>1. j \in Known
          BY <4>3, <4>5 DEF Found, Known
        <5>2. level[j] <= frontier[1][2] + 1
          BY <1>0, <1>6, <5>1 DEF Layered
        <5> QED
          BY <1>4, <1>5, <1>6, <2>3, <3>2, <3>3, <5>1, <5>2 DEF d
      <4> QED
        BY <4>4, <4>5
    <3>4. CASE i # Current
      <4>1. ASSUME NEW k \in DOMAIN frontier PROVE frontier[k][1] # i
        <5>1. CASE k = 1
          BY <1>6, <3>4, <5>1 DEF Current
        <5>2. CASE k # 1
          BY <1>6, <2>6, <5>2
        <5> QED
          BY <5>1, <5>2
      <4>2. j \in Known /\ level[j] <= level[i] + 1
        BY <2>1, <2>6, <3>0, <3>2, <4>1 DEF Closed
      <4> QED
        BY <1>4, <1>5, <3>2, <4>2
    <3> QED
      BY <3>3, <3>4
  <2>7. Closed'
    BY <1>1, <2>2, <2>6 DEF Closed
  <2> QED
    BY <2>4, <2>5, <2>7
<1> QED
  BY <1>0, <1>1, <1>9, <1>10 DEF SearchInv

(* An element at the full depth leaves the queue. *)
LEMMA SkipSearch == SearchInv /\ Skip => SearchInv'
<1> SUFFICES ASSUME SearchInv, Skip PROVE SearchInv'
  OBVIOUS
<1>0. TypeOK /\ Layered /\ TypeOK'
  BY StepTyped DEF SearchInv, Skip, Searching, Next
<1>1. /\ ask' = ask /\ edges' = edges /\ steady' = steady /\ pc' = "first" /\ pc = "first" /\ frontier # << >>
      /\ visited' = visited /\ truncated' = truncated /\ frontier' = Tail(frontier) /\ Far
  BY DEF Skip, graph
<1>2. Known' = Known /\ level' = level /\ \A i : Steps(i)' = Steps(i)
  BY <1>1 DEF Known, level, Steps
<1>3. /\ frontier \in Seq(Id \X Nat) /\ DOMAIN frontier \subseteq Nat \ {0} /\ 1 \in DOMAIN frontier
      /\ Head(frontier) = frontier[1]
      /\ DOMAIN frontier' \subseteq Nat \ {0}
      /\ \A k \in DOMAIN frontier' : k + 1 \in DOMAIN frontier /\ frontier'[k] = frontier[k + 1]
      /\ \A k \in DOMAIN frontier : k # 1 => \E l \in DOMAIN frontier' : frontier'[l] = frontier[k]
  <2>1. frontier \in Seq(Id \X Nat)
    BY <1>0 DEF TypeOK
  <2>2. Len(frontier) \in Nat \ {0} /\ DOMAIN frontier = 1..Len(frontier)
    BY <1>1, <2>1, TailIs DEF Goes
  <2>3. DOMAIN frontier \subseteq Nat \ {0} /\ 1 \in DOMAIN frontier
    BY <2>2
  <2>4. Goes(frontier, frontier', {}, 0)
    BY <1>1, <2>1, TailIs
  <2> QED
    BY <2>1, <2>3, <2>4 DEF Goes
<1>4. Layered'
  <2>1. \A k, l \in DOMAIN frontier' : k <= l => k + 1 <= l + 1
    BY <1>3
  <2>2. \A k, l \in DOMAIN frontier' : k <= l => frontier'[k][2] <= frontier'[l][2]
    BY <1>0, <1>3, <2>1 DEF Layered
  <2>3. \A k \in DOMAIN frontier' : frontier'[k][1] \in Known /\ frontier'[k][2] = level[frontier'[k][1]]
    BY <1>0, <1>3 DEF Layered
  <2>4. \A i \in Known : \A k \in DOMAIN frontier' : level[i] <= frontier'[k][2] + 1
    BY <1>0, <1>3 DEF Layered
  <2>5. ask.root \notin DOMAIN visited' /\ \A i \in DOMAIN visited' : visited'[i] \in 1..ask.depth
    BY <1>0, <1>1 DEF Layered
  <2> QED
    BY <1>1, <1>2, <2>2, <2>3, <2>4, <2>5 DEF Layered
<1>5. ASSUME steady PROVE Attached' /\ HeardIs' /\ Closed'
  <2>1. Attached /\ Closed
    BY <1>5 DEF SearchInv, Skip, Searching
  <2>2. Attached' /\ HeardIs'
    BY <1>1, <1>2, <2>1 DEF Attached, HeardIs
  <2>3. ASSUME ~truncated,
               NEW i \in Known, level[i] < ask.depth, \A k \in DOMAIN frontier' : frontier'[k][1] # i,
               NEW j \in Steps(i)
        PROVE  j \in Known /\ level[j] <= level[i] + 1
    <3>1. ASSUME NEW k \in DOMAIN frontier PROVE frontier[k][1] # i
      <4>1. CASE k = 1
        <5>1. frontier[1][2] >= ask.depth /\ frontier[1][2] = level[frontier[1][1]]
          BY <1>0, <1>1, <1>3 DEF Far, Layered
        <5>2. level[i] \in Nat /\ ask.depth \in Nat
          BY <1>0, LevelsTyped
        <5> QED
          BY <2>3, <4>1, <5>1, <5>2
      <4>2. CASE k # 1
        BY <1>3, <2>3, <4>2
      <4> QED
        BY <4>1, <4>2
    <3> QED
      BY <2>1, <2>3, <3>1 DEF Closed
  <2>4. Closed'
    BY <1>1, <1>2, <2>3 DEF Closed
  <2> QED
    BY <2>2, <2>4
<1> QED
  BY <1>0, <1>1, <1>4, <1>5 DEF SearchInv

(* Each step keeps the invariant of the search. *)
LEMMA StepSearch == SearchInv /\ [Next]_vars => SearchInv'
<1> SUFFICES ASSUME SearchInv, [Next]_vars PROVE SearchInv'
  OBVIOUS
<1>0. TypeOK /\ TypeOK'
  BY StepTyped DEF SearchInv
<1>1. CASE Begin
  BY <1>0, <1>1, BeginSearch
<1>2. CASE Incoming
  BY <1>2, IncomingSearch
<1>3. CASE Outgoing
  BY <1>3, OutgoingSearch
<1>4. CASE Visit
  BY <1>4, VisitSearch
<1>5. CASE Skip
  BY <1>5, SkipSearch
<1>6. ASSUME walk' = walk, ask' = ask, Searching' => Searching, steady' => steady /\ edges' = edges,
             pc' \in {"second", "visit"} => pc' = pc /\ heard' = heard
      PROVE  SearchInv'
  <2>1. visited' = visited /\ frontier' = frontier /\ heard' = heard /\ truncated' = truncated
    BY <1>6 DEF walk
  <2>2. Known' = Known /\ level' = level /\ (edges' = edges => \A i : Steps(i)' = Steps(i))
    BY <1>6, <2>1 DEF Known, level, Steps
  <2>3. Searching' => Layered'
    <3> SUFFICES ASSUME Layered PROVE Layered'
      BY <1>6 DEF SearchInv
    <3> QED
      BY <1>6, <2>1, <2>2 DEF Layered
  <2>4. Searching' /\ steady' => Attached' /\ HeardIs' /\ Closed'
    <3> SUFFICES ASSUME edges' = edges, Attached, HeardIs, Closed PROVE Attached' /\ HeardIs' /\ Closed'
      BY <1>6 DEF SearchInv
    <3>1. Attached' /\ Closed'
      BY <1>6, <2>1, <2>2 DEF Attached, Closed
    <3>2. HeardIs'
      BY <1>6, <2>1, <2>2 DEF HeardIs, Current
    <3> QED
      BY <3>1, <3>2
  <2> QED
    BY <1>0, <2>3, <2>4 DEF SearchInv
<1>7. CASE Paginate
  <2>1. walk' = walk /\ ask' = ask /\ Searching /\ steady' = steady /\ edges' = edges /\ pc' = "hydrate"
    BY <1>7 DEF Paginate, graph, Searching
  <2> QED
    BY <1>6, <2>1
<1>8. CASE Hydrate
  <2>1. walk' = walk /\ ask' = ask /\ steady' = steady /\ edges' = edges /\ pc' = "hydrate" /\ pc = "hydrate"
    BY <1>8 DEF Hydrate, graph
  <2> QED
    BY <1>6, <2>1 DEF Searching
<1>9. CASE Respond
  <2>1. walk' = walk /\ ask' = ask /\ steady' = steady /\ edges' = edges /\ pc' \in {"ask", "done"}
    BY <1>9 DEF Respond, graph
  <2> QED
    BY <1>6, <2>1 DEF Searching
<1>10. CASE Edit
  <2>1. walk' = walk /\ ask' = ask /\ ~steady' /\ pc' = pc /\ heard' = heard
    BY <1>10 DEF Edit, walk
  <2> QED
    BY <1>6, <2>1 DEF Searching
<1>11. CASE UNCHANGED vars
  <2>1. walk' = walk /\ ask' = ask /\ steady' = steady /\ edges' = edges /\ pc' = pc /\ heard' = heard
    BY <1>11 DEF vars, walk, graph
  <2> QED
    BY <1>6, <2>1 DEF Searching
<1> QED
  BY <1>1, <1>2, <1>3, <1>4, <1>5, <1>7, <1>8, <1>9, <1>10, <1>11 DEF Next

(* At first there is no search. *)
LEMMA InitSearch == Init => SearchInv
<1> SUFFICES ASSUME Init PROVE SearchInv
  OBVIOUS
<1>1. TypeOK
  BY InitTyped
<1>2. ~Searching
  BY DEF Init, Searching
<1> QED
  BY <1>1, <1>2 DEF SearchInv

(* The types of Traversal, and how its search proceeds.                      *)
THEOREM SearchInvariant == Spec => []SearchInv
<1> QED
  BY InitSearch, StepSearch, PTL DEF Spec

(* f[k] is what is within k hops of the root. *)
Spheres(f, n) ==
    f = [k \in 0..n |-> IF k = 0 THEN {ask.root} ELSE f[k - 1] \cup UNION {Steps(i) : i \in f[k - 1]}]

(* The balls around the root exist, as a function on the depths up to n. *)
LEMMA SpheresDefined ==
    ASSUME NEW c \in Nat
    PROVE  \E f : Spheres(f, c)
<1> DEFINE T == {n \in 0..c : ~ \E f : Spheres(f, n)}
<1> SUFFICES ASSUME T # {} PROVE FALSE
  OBVIOUS
<1>0. T \subseteq Nat
  OBVIOUS
<1> HIDE DEF T
<1>1. PICK n \in T : \A m \in T : n <= m
  BY <1>0, NatLeast
<1>2. n \in 0..c /\ ~ \E f : Spheres(f, n)
  BY DEF T
<1>3. n # 0
  <2>1. Spheres([k \in 0..0 |-> {ask.root}], 0)
    BY DEF Spheres
  <2> QED
    BY <1>2, <2>1
<1>4. PICK g : Spheres(g, n - 1)
  <2>1. n - 1 \in 0..c /\ ~(n <= n - 1)
    BY <1>2, <1>3
  <2> QED
    BY <1>1, <2>1 DEF T
<1> DEFINE Wider(S) == S \cup UNION {Steps(i) : i \in S}
           h == [k \in 0..n |-> IF k # n THEN g[k] ELSE Wider(g[n - 1])]
<1>5. Spheres(h, n)
  <2> SUFFICES ASSUME NEW k \in 0..n
               PROVE  h[k] = IF k = 0 THEN {ask.root} ELSE Wider(h[k - 1])
    BY DEF Spheres
  <2>0. n \in Nat /\ k \in Nat
    BY <1>2
  <2>1. CASE k = n
    <3>1. k # 0 /\ k - 1 \in 0..n /\ k - 1 # n
      BY <1>3, <2>0, <2>1
    <3>2. h[k - 1] = g[k - 1] /\ h[k] = Wider(g[n - 1])
      BY <2>1, <3>1
    <3> QED
      BY <2>1, <3>1, <3>2
  <2>2. CASE k # n
    <3>1. k \in 0..(n - 1)
      BY <2>0, <2>2
    <3>2. h[k] = g[k] /\ g[k] = IF k = 0 THEN {ask.root} ELSE Wider(g[k - 1])
      BY <1>4, <2>2, <3>1 DEF Spheres
    <3>3. k # 0 => k - 1 \in 0..n /\ k - 1 # n
      BY <2>0, <3>1
    <3>4. k # 0 => h[k - 1] = g[k - 1]
      BY <3>3
    <3> QED
      BY <3>2, <3>4
  <2> QED
    BY <2>1, <2>2
<1> QED
  BY <1>2, <1>5

(* A ball is the one before it and what is one hop from it. *)
LEMMA BallIs ==
    ASSUME ask.depth \in Nat
    PROVE  /\ Ball[0] = {ask.root}
           /\ \A n \in 1..ask.depth : \A j : j \in Ball[n] <=> j \in Ball[n - 1] \/ \E i \in Ball[n - 1] : j \in Steps(i)
           /\ \A m, n \in 0..ask.depth : m <= n => Ball[m] \subseteq Ball[n]
<1>1. Spheres(Ball, ask.depth)
  <2>1. Ball = CHOOSE f : Spheres(f, ask.depth)
    BY DEF Ball, Spheres
  <2> QED
    BY <2>1, SpheresDefined
<1>2. \A n \in 0..ask.depth :
         Ball[n] = IF n = 0 THEN {ask.root} ELSE Ball[n - 1] \cup UNION {Steps(i) : i \in Ball[n - 1]}
  <2> DEFINE B == Ball
  <2>1. Spheres(B, ask.depth)
    BY <1>1
  <2> HIDE DEF B
  <2>2. \A n \in 0..ask.depth :
           B[n] = IF n = 0 THEN {ask.root} ELSE B[n - 1] \cup UNION {Steps(i) : i \in B[n - 1]}
    BY <2>1 DEF Spheres
  <2> QED
    BY <2>2 DEF B
<1>3. Ball[0] = {ask.root}
  <2>1. 0 \in 0..ask.depth
    OBVIOUS
  <2> QED
    BY <1>2, <2>1
<1>4. ASSUME NEW n \in 1..ask.depth, NEW j
      PROVE  j \in Ball[n] <=> j \in Ball[n - 1] \/ \E i \in Ball[n - 1] : j \in Steps(i)
  <2>1. n \in 0..ask.depth /\ n # 0
    OBVIOUS
  <2>2. Ball[n] = Ball[n - 1] \cup UNION {Steps(i) : i \in Ball[n - 1]}
    BY <1>2, <2>1
  <2> QED
    BY <2>2
<1>5. ASSUME NEW m \in 0..ask.depth, NEW j \in Ball[m]
      PROVE  \A n \in m..ask.depth : j \in Ball[n]
  <2> DEFINE T == {n \in m..ask.depth : j \notin Ball[n]}
  <2> SUFFICES ASSUME T # {} PROVE FALSE
    OBVIOUS
  <2>0. T \subseteq Nat
    OBVIOUS
  <2> HIDE DEF T
  <2>1. PICK n \in T : \A k \in T : n <= k
    BY <2>0, NatLeast
  <2>2. n \in m..ask.depth /\ j \notin Ball[n] /\ n # m
    BY <1>5 DEF T
  <2>3. n - 1 \in m..ask.depth /\ ~(n <= n - 1) /\ n \in 1..ask.depth
    BY <2>2
  <2>4. j \in Ball[n - 1]
    BY <2>1, <2>3 DEF T
  <2> QED
    BY <1>4, <2>2, <2>3, <2>4
<1>6. \A m, n \in 0..ask.depth : m <= n => n \in m..ask.depth
  OBVIOUS
<1>7. \A m, n \in 0..ask.depth : m <= n => Ball[m] \subseteq Ball[n]
  BY <1>5, <1>6
<1> QED
  BY <1>3, <1>4, <1>7

(* A search that no edit met finds what is within the depth, at its shortest *)
(* distance; if it was cut at the fan-out, nothing that is not there.        *)
THEOREM TraversalExact == Spec => []TraversalIsExact
<1>1. SearchInv => TraversalIsExact
  <2> SUFFICES ASSUME SearchInv, pc = "hydrate", steady
               PROVE  /\ DOMAIN visited \subseteq Ball[ask.depth] \ {ask.root}
                      /\ \A i \in DOMAIN visited : visited[i] > 0 /\ i \in Ball[visited[i]]
                      /\ ~truncated =>
                            /\ DOMAIN visited = Ball[ask.depth] \ {ask.root}
                            /\ \A i \in DOMAIN visited : i \notin Ball[visited[i] - 1]
    BY DEF TraversalIsExact
  <2>1. TypeOK /\ Layered /\ Attached /\ Closed /\ frontier = << >>
    BY DEF SearchInv, Searching, TypeOK
  <2>2. ask.depth \in Nat /\ \A i \in Known : level[i] \in Nat
    BY <2>1, LevelsTyped
  <2>3. \A i \in DOMAIN visited : /\ visited[i] \in 1..ask.depth /\ i # ask.root
                                  /\ i \in Known /\ level[i] = visited[i]
    BY <2>1 DEF Layered, Known, level
  <2>4. ask.root \in Known /\ level[ask.root] = 0 /\ \A i \in Known : i # ask.root => i \in DOMAIN visited
    BY DEF Known, level
  <2>5. \A i \in Known : i \in Ball[level[i]]
    <3> DEFINE T == {n \in Nat : \E i \in Known : level[i] = n /\ i \notin Ball[n]}
    <3> SUFFICES ASSUME T # {} PROVE FALSE
      BY <2>2
    <3>0. T \subseteq Nat
      OBVIOUS
    <3> HIDE DEF T
    <3>1. PICK n \in T : \A m \in T : n <= m
      BY <3>0, NatLeast
    <3>2. PICK i \in Known : level[i] = n /\ i \notin Ball[n]
      BY DEF T
    <3>3. i \in DOMAIN visited
      BY <2>2, <2>4, <3>2, BallIs
    <3>4. PICK j \in Known : i \in Steps(j) /\ visited[i] = level[j] + 1
      BY <2>1, <3>3 DEF Attached
    <3>5. n \in 1..ask.depth /\ level[j] = n - 1 /\ n - 1 \in Nat /\ ~(n <= n - 1)
      BY <2>2, <2>3, <3>2, <3>3, <3>4
    <3>6. j \in Ball[n - 1]
      BY <3>1, <3>5 DEF T
    <3> QED
      BY <2>2, <3>2, <3>4, <3>5, <3>6, BallIs
  <2>6. ASSUME ~truncated, NEW n \in 0..ask.depth, NEW i \in Ball[n] PROVE i \in Known /\ level[i] <= n
    <3> DEFINE T == {m \in 0..ask.depth : \E k \in Ball[m] : ~(k \in Known /\ level[k] <= m)}
    <3> SUFFICES ASSUME T # {} PROVE FALSE
      BY <2>6
    <3>0. T \subseteq Nat
      BY <2>2
    <3> HIDE DEF T
    <3>1. PICK m \in T : \A k \in T : m <= k
      BY <3>0, NatLeast
    <3>2. m \in 0..ask.depth
      BY DEF T
    <3>3. PICK k \in Ball[m] : ~(k \in Known /\ level[k] <= m)
      BY DEF T
    <3>4. m # 0
      BY <2>2, <2>4, <3>3, BallIs
    <3>5. m \in 1..ask.depth /\ m - 1 \in 0..ask.depth /\ ~(m <= m - 1)
      BY <2>2, <3>2, <3>4
    <3>6. \A l \in Ball[m - 1] : l \in Known /\ level[l] <= m - 1
      BY <3>1, <3>5 DEF T
    <3>7. CASE k \in Ball[m - 1]
      BY <2>2, <3>3, <3>5, <3>6, <3>7
    <3>8. CASE k \notin Ball[m - 1]
      <4>1. PICK l \in Ball[m - 1] : k \in Steps(l)
        BY <2>2, <3>5, <3>8, BallIs
      <4>2. l \in Known /\ level[l] <= m - 1 /\ level[l] < ask.depth /\ level[l] \in Nat
        BY <2>2, <3>5, <3>6
      <4>3. DOMAIN frontier = {}
        BY <2>1
      <4>4. k \in Known /\ level[k] <= level[l] + 1
        BY <2>1, <2>6, <4>1, <4>2, <4>3 DEF Closed
      <4> QED
        BY <2>2, <3>3, <3>5, <4>2, <4>4
    <3> QED
      BY <3>7, <3>8
  <2>7. DOMAIN visited \subseteq Ball[ask.depth] \ {ask.root}
    <3> SUFFICES ASSUME NEW i \in DOMAIN visited PROVE i \in Ball[ask.depth]
      BY <2>3
    <3>1. visited[i] \in 0..ask.depth /\ ask.depth \in 0..ask.depth /\ visited[i] <= ask.depth
      BY <2>2, <2>3
    <3> QED
      BY <2>2, <2>3, <2>5, <3>1, BallIs
  <2>8. \A i \in DOMAIN visited : visited[i] > 0 /\ i \in Ball[visited[i]]
    BY <2>2, <2>3, <2>5
  <2>9. ASSUME ~truncated
        PROVE  /\ DOMAIN visited = Ball[ask.depth] \ {ask.root}
               /\ \A i \in DOMAIN visited : i \notin Ball[visited[i] - 1]
    <3>1. Ball[ask.depth] \subseteq Known
      <4>1. ask.depth \in 0..ask.depth
        BY <2>2
      <4> QED
        BY <2>6, <2>9, <4>1
    <3>2. ASSUME NEW i \in DOMAIN visited, i \in Ball[visited[i] - 1] PROVE FALSE
      <4>1. visited[i] - 1 \in 0..ask.depth /\ ~(visited[i] <= visited[i] - 1)
        BY <2>2, <2>3
      <4>2. level[i] <= visited[i] - 1
        BY <2>6, <2>9, <3>2, <4>1
      <4> QED
        BY <2>3, <4>1, <4>2
    <3> QED
      BY <2>4, <2>7, <3>1, <3>2
  <2> QED
    BY <2>7, <2>8, <2>9
<1> QED
  BY <1>1, SearchInvariant, PTL

----------------------------------------------------------------------------
(* The pages. *)

(* What every traversal found and is still there was given, or will be: on   *)
(* this page, or after the cursor.                                           *)
Given ==
    /\ pc \in {"ask", "first", "second", "visit"} =>
          /\ page = << >>
          /\ \A i \in always \cap elements : i <= cursor => i \in ToSet(results)
    /\ pc = "hydrate" =>
          \A i \in always \cap elements : (more => i <= cursor) => i \in ToSet(page) \cup ToSet(results)
    /\ pc = "done" => always \cap elements \subseteq ToSet(results)

(* An appended element is a member, and nothing else is new. *)
LEMMA AppendSet ==
    ASSUME NEW S, NEW s \in Seq(S), NEW x \in S
    PROVE  ToSet(Append(s, x)) = ToSet(s) \cup {x}
<1>1. Len(s) \in Nat /\ DOMAIN s = 1..Len(s)
  BY LenProperties
<1>2. /\ DOMAIN Append(s, x) = 1..(Len(s) + 1)
      /\ \A i \in 1..Len(s) : Append(s, x)[i] = s[i]
      /\ Append(s, x)[Len(s) + 1] = x
  <2>1. Append(s, x) \in Seq(S) /\ Len(Append(s, x)) = Len(s) + 1
    BY AppendProperties
  <2>2. \A i \in 1..Len(s) : Append(s, x)[i] = s[i]
    BY AppendProperties
  <2>3. Append(s, x)[Len(s) + 1] = x
    BY AppendProperties
  <2> QED
    BY <2>1, <2>2, <2>3, LenProperties
<1>3. 1..(Len(s) + 1) = 1..Len(s) \cup {Len(s) + 1}
  BY <1>1
<1> QED
  BY <1>1, <1>2, <1>3 DEF ToSet

(* A list is its head and its tail. *)
LEMMA HeadSet ==
    ASSUME NEW S, NEW s \in Seq(S), s # << >>
    PROVE  ToSet(s) = {Head(s)} \cup ToSet(Tail(s))
<1>1. Len(s) \in Nat \ {0} /\ DOMAIN s = 1..Len(s)
  BY EmptySeq, LenProperties
<1>2. Tail(s) \in Seq(S) /\ Len(Tail(s)) = Len(s) - 1 /\ Head(s) = s[1]
  BY HeadTailProperties
<1>3. DOMAIN Tail(s) = 1..(Len(s) - 1) /\ \A i \in 1..(Len(s) - 1) : Tail(s)[i] = s[i + 1]
  <2>1. DOMAIN Tail(s) = 1..(Len(s) - 1)
    BY <1>2, LenProperties
  <2> QED
    BY <1>1, <2>1
<1>4. \A i \in 1..Len(s) : i = 1 \/ (i - 1 \in 1..(Len(s) - 1) /\ i = (i - 1) + 1)
  BY <1>1
<1>5. \A i \in 1..(Len(s) - 1) : i + 1 \in 1..Len(s)
  BY <1>1
<1>6. 1 \in 1..Len(s)
  BY <1>1
<1>7. ASSUME NEW i \in 1..Len(s) PROVE s[i] \in {Head(s)} \cup ToSet(Tail(s))
  <2>1. CASE i = 1
    BY <1>2, <2>1
  <2>2. CASE i # 1
    <3>1. i - 1 \in DOMAIN Tail(s) /\ Tail(s)[i - 1] = s[i]
      BY <1>3, <1>4, <2>2
    <3> QED
      BY <3>1 DEF ToSet
  <2> QED
    BY <2>1, <2>2
<1>8. ToSet(s) \subseteq {Head(s)} \cup ToSet(Tail(s))
  BY <1>1, <1>7 DEF ToSet
<1>9. {Head(s)} \cup ToSet(Tail(s)) \subseteq ToSet(s)
  BY <1>1, <1>2, <1>3, <1>5, <1>6 DEF ToSet
<1> QED
  BY <1>8, <1>9

(* Each step keeps what the pages have given. *)
LEMMA StepGiven == TypeOK /\ Given /\ [Next]_vars => Given'
<1> SUFFICES ASSUME TypeOK, Given, [Next]_vars PROVE Given'
  OBVIOUS
<1>0. TypeOK'
  BY StepTyped
<1>1. ASSUME Begin \/ Incoming \/ Outgoing \/ Visit \/ Skip PROVE Given'
  <2>1. /\ page' = page /\ cursor' = cursor /\ results' = results /\ elements' = elements /\ always' = always
        /\ pc \in {"ask", "first", "second", "visit"} /\ pc' \in {"first", "second", "visit", "refused"}
    BY <1>1 DEF Begin, Incoming, Outgoing, Visit, Skip, pages, graph
  <2> QED
    BY <2>1 DEF Given
<1>2. CASE Paginate
  <2> DEFINE ids == Ordered(DOMAIN visited)
             st == Start(ids)
             m == Size
  <2>1. /\ ids \in Seq(Id) /\ ToSet(ids) = DOMAIN visited /\ DOMAIN ids = 1..Len(ids) /\ Len(ids) \in Nat
        /\ \A k, n \in DOMAIN ids : k < n <=> ids[k] < ids[n]
        /\ st \in 0..Len(ids)
        /\ cursor \in DOMAIN visited => st # 0 /\ ids[st] = cursor
        /\ cursor \notin DOMAIN visited => st = 0
        /\ m \in Nat /\ page' \in Seq(Id) /\ Len(page') = m
        /\ \A j \in 1..m : page'[j] = ids[st + j]
        /\ more' => cursor' = ids[st + m] /\ st + m \in DOMAIN ids
        /\ ~more' => st + m = Len(ids)
    BY <1>2, PaginateIs
  <2> HIDE DEF ids, st, m
  <2>2. /\ pc' = "hydrate" /\ pc = "first" /\ results' = results /\ elements' = elements
        /\ always' = always \cap DOMAIN visited
    BY <1>2 DEF Paginate, graph
  <2>3. \A i \in always \cap elements : i <= cursor => i \in ToSet(results)
    BY <2>2 DEF Given
  <2> SUFFICES ASSUME NEW i \in always' \cap elements', more' => i <= cursor', i \notin ToSet(results)
               PROVE  i \in ToSet(page')
    BY <2>2 DEF Given
  <2>4. i \in DOMAIN visited /\ i \in Nat /\ i \in always \cap elements
    BY <2>2, IdAssumption DEF TypeOK
  <2>5. PICK n \in DOMAIN ids : ids[n] = i
    BY <2>1, <2>4 DEF ToSet
  <2> DEFINE c == Len(ids)
  <2> HIDE DEF c
  <2>6. c \in Nat /\ st \in 0..c /\ m \in Nat /\ DOMAIN ids = 1..c /\ (~more' => st + m = c)
    BY <2>1 DEF c
  <2>7. n \in Nat /\ 1 <= n /\ n <= c /\ st \in Nat /\ c \in Nat /\ st <= c
    BY <2>6
  <2>8. \A k \in DOMAIN ids : ids[k] \in Nat
    BY <2>1, IdAssumption, ElementOfSeq
  <2>9. st < n
    <3> SUFFICES ASSUME n <= st PROVE FALSE
      BY <2>7
    <3>1. st # 0 /\ st \in DOMAIN ids /\ ids[st] = cursor
      <4>1. st # 0 /\ st \in DOMAIN ids
        BY <2>7, <2>6
      <4> QED
        BY <2>1, <4>1
    <3>2. ~(ids[st] < ids[n])
      <4>1. ~(st < n) /\ n \in DOMAIN ids
        BY <2>7
      <4> QED
        BY <2>1, <3>1, <4>1
    <3>3. i <= cursor
      BY <2>5, <2>8, <3>1, <3>2
    <3> QED
      BY <2>3, <2>4, <3>3
  <2>10. n <= st + m
    <3>1. CASE more'
      <4>1. i <= ids[st + m] /\ st + m \in DOMAIN ids
        BY <2>1, <3>1
      <4>2. ~(ids[st + m] < ids[n])
        BY <2>5, <2>8, <4>1
      <4>3. ~(st + m < n)
        BY <2>1, <4>1, <4>2
      <4> QED
        BY <2>7, <2>6, <4>3
    <3>2. CASE ~more'
      BY <2>7, <2>6, <3>2
    <3> QED
      BY <3>1, <3>2
  <2>11. n - st \in 1..m /\ st + (n - st) = n
    BY <2>7, <2>9, <2>10, <2>6
  <2>12. page'[n - st] = i
    BY <2>1, <2>5, <2>11
  <2>13. DOMAIN page' = 1..m
    BY <2>1, LenProperties
  <2> QED
    BY <2>11, <2>12, <2>13 DEF ToSet
<1>3. CASE Hydrate
  <2>1. /\ pc = "hydrate" /\ pc' = "hydrate" /\ page \in Seq(Id) /\ page # << >> /\ results \in Seq(Id)
        /\ elements' = elements /\ always' = always /\ more' = more /\ cursor' = cursor /\ page' = Tail(page)
    BY <1>3 DEF Hydrate, graph, TypeOK
  <2>2. Head(page) \in Id /\ ToSet(page) = {Head(page)} \cup ToSet(page')
    BY <2>1, HeadTailProperties, HeadSet
  <2>3. Head(page) \in elements => ToSet(results') = ToSet(results) \cup {Head(page)}
    BY <1>3, <2>1, <2>2, AppendSet DEF Hydrate
  <2>4. Head(page) \notin elements => results' = results
    BY <1>3 DEF Hydrate
  <2> QED
    BY <2>1, <2>2, <2>3, <2>4 DEF Given
<1>4. CASE Respond
  <2>1. /\ pc = "hydrate" /\ page = << >> /\ pc' = (IF more THEN "ask" ELSE "done") /\ page' = page
        /\ elements' = elements /\ always' = always /\ cursor' = cursor /\ results' = results
    BY <1>4 DEF Respond, graph, pages
  <2>2. ToSet(page) = {}
    BY <2>1 DEF ToSet
  <2>3. \A i \in always \cap elements : (more => i <= cursor) => i \in ToSet(results)
    BY <2>1, <2>2 DEF Given
  <2>4. CASE more
    BY <2>1, <2>3, <2>4 DEF Given
  <2>5. CASE ~more
    BY <2>1, <2>3, <2>5 DEF Given
  <2> QED
    BY <2>4, <2>5
<1>5. CASE Edit
  <2>1. /\ elements' \subseteq elements /\ always' = always /\ pc' = pc /\ pc # "done" /\ page' = page
        /\ more' = more /\ cursor' = cursor /\ results' = results
    BY <1>5 DEF Edit, pages
  <2> QED
    BY <2>1 DEF Given
<1>6. CASE UNCHANGED vars
  BY <1>6 DEF vars, graph, pages, Given
<1> QED
  BY <1>1, <1>2, <1>3, <1>4, <1>5, <1>6 DEF Next

(* At first no page has given anything. *)
LEMMA InitGiven == Init => Given
<1> SUFFICES ASSUME Init PROVE Given
  OBVIOUS
<1>1. pc = "ask" /\ page = << >> /\ cursor = 0 /\ always = Id /\ \A i \in Id : i \in Nat /\ i # 0
  BY IdAssumption DEF Init
<1>2. \A i \in always : ~(i <= cursor)
  BY <1>1
<1> QED
  BY <1>1, <1>2 DEF Given

(* The search without its edits: what a query reads, and what one element's  *)
(* turn makes of what was visited and of the queue.                          *)
In(E, c) == [i \in Id |-> Cardinality({e \in E : e.source = i /\ e.target = c})]
Out(E, c) == [i \in Id |-> Cardinality({e \in E : e.target = i /\ e.source = c})]
First(E, a, c) == IF a.direction = "outgoing" THEN Nobody ELSE In(E, c)
Both(E, a, c) == [i \in Id |-> First(E, a, c)[i] + (IF a.direction = "incoming" THEN 0 ELSE Out(E, c)[i])]
New(E, a, c, v) == ToSet(Kept(Both(E, a, c), a.fanout)) \ ({a.root} \cup DOMAIN v)
Turned(v, new, hops) == [i \in DOMAIN v \cup new |-> IF i \in new THEN hops ELSE v[i]]
After(E, a, w) ==
    LET c == Head(w[2])[1]
        d == Head(w[2])[2]
    IN  IF d >= a.depth THEN <<w[1], Tail(w[2])>>
        ELSE <<Turned(w[1], New(E, a, c, w[1]), d + 1), Longer(w[2], New(E, a, c, w[1]), d + 1)>>

Outset(a) == <<<< >>, <<<<a.root, 0>>>>>>

Walks == (UNION {[D -> Nat] : D \in SUBSET Id}) \X Seq(Id \X Nat)
Onward(E, a, S) == \A w \in S : w[2] # << >> => After(E, a, w) \in S

(* The search gets from w to x: x is in whatever holds w and is closed under *)
(* its turns.                                                                *)
Leads(E, a, w, x) == \A S : w \in S /\ Onward(E, a, S) => x \in S

(* One turn further on the same way. *)
LEMMA LeadsOn ==
    ASSUME NEW E, NEW a, NEW w
    PROVE  /\ Leads(E, a, w, w)
           /\ \A x : Leads(E, a, w, x) /\ x[2] # << >> => Leads(E, a, w, After(E, a, x))
BY DEF Leads, Onward

(* A search stays a search. *)
LEMMA WalksGoOn ==
    ASSUME NEW E, E \subseteq Edge, NEW a \in Asks
    PROVE  Outset(a) \in Walks /\ Onward(E, a, Walks)
<1>0. a.root \in Id /\ a.depth \in Nat /\ a.fanout \in Nat
  BY AsksAssumption
<1>1. Outset(a) \in Walks
  <2> DEFINE D == {}
  <2>1. << >> \in [D -> Nat] /\ D \in SUBSET Id
    OBVIOUS
  <2>2. << >> \in UNION {[X -> Nat] : X \in SUBSET Id}
    BY <2>1
  <2>3. <<<<a.root, 0>>>> \in Seq(Id \X Nat)
    BY <1>0
  <2> QED
    BY <2>2, <2>3 DEF Outset, Walks
<1>2. ASSUME NEW c PROVE Both(E, a, c) \in [Id -> Nat]
  <2>1. ASSUME NEW D \in SUBSET E PROVE Cardinality(D) \in Nat
    <3>1. D \in SUBSET Edge
      OBVIOUS
    <3>2. IsFiniteSet(D)
      BY <3>1, EdgesFinite, FS_Subset
    <3> QED
      BY <3>2, FS_CardinalityType
  <2>2. ASSUME NEW i \in Id PROVE First(E, a, c)[i] \in Nat /\ Out(E, c)[i] \in Nat
    <3>1. {e \in E : e.source = i /\ e.target = c} \in SUBSET E /\ {e \in E : e.target = i /\ e.source = c} \in SUBSET E
      OBVIOUS
    <3>2. In(E, c)[i] \in Nat
      BY <2>1, <3>1 DEF In
    <3>3. Out(E, c)[i] \in Nat
      BY <2>1, <3>1 DEF Out
    <3> QED
      BY <3>2, <3>3 DEF First, Nobody
  <2> QED
    BY <2>2 DEF Both
<1>3. ASSUME NEW w \in Walks, w[2] # << >> PROVE After(E, a, w) \in Walks
  <2>1. PICK D \in SUBSET Id : w[1] \in [D -> Nat]
    BY DEF Walks
  <2>2. w[2] \in Seq(Id \X Nat) /\ DOMAIN w[1] = D
    BY <2>1 DEF Walks
  <2> DEFINE v == w[1]
             f == w[2]
             c == Head(f)[1]
             d == Head(f)[2]
             new == New(E, a, c, v)
  <2>3. Head(f) \in Id \X Nat /\ Tail(f) \in Seq(Id \X Nat)
    BY <1>3, <2>2, HeadTailProperties
  <2>4. d \in Nat /\ d + 1 \in Nat
    BY <2>3
  <2>5. new \subseteq Id
    BY <1>0, <1>2, KeptIs DEF New
  <2> HIDE DEF new
  <2>6. Turned(v, new, d + 1) \in UNION {[X -> Nat] : X \in SUBSET Id}
    <3>1. D \cup new \in SUBSET Id /\ v \in [D -> Nat] /\ DOMAIN v = D
      BY <2>1, <2>2, <2>5
    <3> HIDE DEF v, d
    <3>2. Turned(v, new, d + 1) \in [D \cup new -> Nat]
      BY <2>4, <3>1 DEF Turned
    <3> QED
      BY <3>1, <3>2
  <2>7. Longer(f, new, d + 1) \in Seq(Id \X Nat)
    <3>1. f \in Seq(Id \X Nat) /\ f # << >>
      BY <1>3, <2>2
    <3> HIDE DEF f, d
    <3> QED
      BY <2>4, <2>5, <3>1, LongerIs DEF Goes
  <2>8. After(E, a, w) = IF d >= a.depth THEN <<v, Tail(f)>> ELSE <<Turned(v, new, d + 1), Longer(f, new, d + 1)>>
    BY DEF After, new
  <2>9. v \in UNION {[X -> Nat] : X \in SUBSET Id}
    BY <2>1
  <2> DEFINE U == UNION {[X -> Nat] : X \in SUBSET Id}
             Q == Seq(Id \X Nat)
  <2>10. Walks = U \X Q /\ v \in U /\ Tail(f) \in Q /\ Turned(v, new, d + 1) \in U /\ Longer(f, new, d + 1) \in Q
    BY <2>3, <2>6, <2>7, <2>9 DEF Walks
  <2> HIDE DEF v, f, d, U, Q
  <2>11. <<v, Tail(f)>> \in Walks /\ <<Turned(v, new, d + 1), Longer(f, new, d + 1)>> \in Walks
    BY <2>10
  <2> QED
    BY <2>8, <2>11
<1> QED
  BY <1>1, <1>3 DEF Onward

(* It ends in one way. *)
LEMMA OneEnd ==
    ASSUME NEW E, E \subseteq Edge, NEW a \in Asks,
           NEW x, Leads(E, a, Outset(a), x), x[2] = << >>,
           NEW y, Leads(E, a, Outset(a), y), y[2] = << >>
    PROVE  x = y /\ x \in Walks
<1> DEFINE S == {z \in Walks : Leads(E, a, z, x)}
<1>1. Outset(a) \in S
  BY WalksGoOn
<1>2. ASSUME NEW z \in S, z[2] # << >> PROVE After(E, a, z) \in S
  <2>1. After(E, a, z) \in Walks
    BY <1>2, WalksGoOn DEF Onward
  <2>2. ASSUME NEW T, After(E, a, z) \in T, Onward(E, a, T) PROVE x \in T
    <3>1. z \in T \cup {z} /\ Onward(E, a, T \cup {z})
      BY <2>2 DEF Onward
    <3>2. x \in T \cup {z}
      BY <3>1 DEF Leads
    <3> QED
      BY <1>2, <3>2
  <2> QED
    BY <2>1, <2>2 DEF Leads
<1>3. y \in S /\ x \in S
  <2>1. Onward(E, a, S)
    BY <1>2 DEF Onward
  <2> HIDE DEF S
  <2> QED
    BY <1>1, <2>1 DEF Leads
<1>4. Onward(E, a, {y}) /\ Leads(E, a, y, x)
  BY <1>3 DEF Onward
<1>5. x \in {y}
  BY <1>4 DEF Leads
<1> QED
  BY <1>3, <1>5

(* A whole search, from this root in this graph, visits v. *)
Whole(v) == Leads(edges, ask, Outset(ask), <<v, << >>>>)

(* The pages so far are the first k of what a whole search visits. *)
Begun ==
    \/ cursor = 0 /\ results = << >>
    \/ \E v : /\ Whole(v)
              /\ \E k \in DOMAIN Ordered(DOMAIN v) :
                    /\ cursor = Ordered(DOMAIN v)[k] /\ Len(results) = k
                    /\ \A j \in 1..k : results[j] = Ordered(DOMAIN v)[j]

(* And so they are with the page under way. *)
Paged(ids) ==
    \E k \in 0..Len(ids) :
        /\ Len(results) + Len(page) = k
        /\ \A j \in 1..Len(results) : results[j] = ids[j]
        /\ \A j \in 1..Len(page) : page[j] = ids[Len(results) + j]
        /\ more => k # 0 /\ cursor = ids[k]
        /\ ~more => k = Len(ids)

(* Without an edit every page comes from the same search. *)
Repeats ==
    still =>
        /\ elements = Id
        /\ Searching => Leads(edges, ask, Outset(ask), <<visited, frontier>>)
        /\ pc = "second" => heard = First(edges, ask, Current)
        /\ pc = "visit" => heard = Both(edges, ask, Current)
        /\ pc \in {"ask", "first", "second", "visit"} => Begun
        /\ pc = "hydrate" => Paged(Ordered(DOMAIN visited))
        /\ pc = "done" => results = Ordered(DOMAIN visited)

(* A way of the search that has ended says what the elements found are. *)
LEMMA VisitedIs ==
    ASSUME TypeOK, NEW ids, ids = Ordered(DOMAIN visited)
    PROVE  /\ ids \in Seq(Id) /\ ToSet(ids) = DOMAIN visited /\ DOMAIN ids = 1..Len(ids) /\ Len(ids) \in Nat
           /\ \A m, n \in DOMAIN ids : m < n <=> ids[m] < ids[n]
<1>1. IsFiniteSet(DOMAIN visited) /\ DOMAIN visited \subseteq Nat /\ DOMAIN visited \subseteq Id
  BY IdAssumption, FS_Subset DEF TypeOK
<1>2. /\ ids \in Seq(DOMAIN visited) /\ Len(ids) = Cardinality(DOMAIN visited) /\ ToSet(ids) = DOMAIN visited
      /\ \A m, n \in 1..Cardinality(DOMAIN visited) : m < n <=> ids[m] < ids[n]
  BY <1>1, OrderedIs
<1>3. ids \in Seq(Id)
  BY <1>1, <1>2, SeqMonotonic
<1>4. DOMAIN ids = 1..Len(ids) /\ Len(ids) \in Nat
  BY <1>3, LenProperties
<1> QED
  BY <1>2, <1>3, <1>4

(* The search itself does one turn after the other. *)
LEMMA SearchRepeats ==
    ASSUME SearchInv, still, Repeats, Begin \/ Incoming \/ Outgoing \/ Visit \/ Skip
    PROVE  Repeats'
<1>0. TypeOK /\ TypeOK'
  BY StepTyped DEF SearchInv, Next
<1>1. /\ edges' = edges /\ ask' = ask /\ elements' = elements /\ elements = Id
      /\ cursor' = cursor /\ results' = results
      /\ pc \in {"ask", "first", "second", "visit"} /\ pc' \in {"first", "second", "visit", "refused"}
      /\ (pc' = "second" => Incoming) /\ (pc' = "visit" => Outgoing)
  BY <1>0 DEF Begin, Incoming, Outgoing, Visit, Skip, graph, pages, Repeats
<1>2. Begun'
  BY <1>1 DEF Repeats, Begun, Whole
<1>3. pc' = "second" => heard' = First(edges', ask', Current')
  <2> SUFFICES ASSUME Incoming PROVE heard' = First(edges', ask', Current')
    BY <1>1
  <2>1. RowsIn = In(edges, Current) /\ Current' = Current
    BY DEF RowsIn, In, Incoming, Current
  <2>2. heard' = First(edges, ask, Current)
    BY <2>1 DEF Incoming, First
  <2> QED
    BY <1>1, <2>1, <2>2
<1>4. pc' = "visit" => heard' = Both(edges', ask', Current')
  <2> SUFFICES ASSUME Outgoing PROVE heard' = Both(edges', ask', Current')
    BY <1>1
  <2>1. RowsOut = Out(edges, Current) /\ heard = First(edges, ask, Current) /\ Current' = Current
    BY DEF RowsOut, Out, Repeats, Outgoing, Current
  <2>2. heard' = Both(edges, ask, Current)
    BY <2>1 DEF Outgoing, Both
  <2> QED
    BY <1>1, <2>1, <2>2
<1>5. Searching' => Leads(edges, ask, Outset(ask), <<visited', frontier'>>)
  <2>1. CASE Begin
    <3>1. <<visited', frontier'>> = Outset(ask)
      BY <2>1 DEF Begin, Outset
    <3> QED
      BY <3>1, LeadsOn
  <2>2. CASE Incoming \/ Outgoing
    BY <2>2 DEF Repeats, Incoming, Outgoing, Searching
  <2> DEFINE w == <<visited, frontier>>
  <2>3. CASE Visit
    <3>1. /\ visited' = [i \in DOMAIN visited \cup Found |-> IF i \in Found THEN Hops ELSE visited[i]]
          /\ frontier' = Longer(frontier, Found, Hops) /\ Head(frontier)[2] \in Nat
      BY <1>0, <2>3, VisitIs
    <3>2. Leads(edges, ask, Outset(ask), w) /\ heard = Both(edges, ask, Current) /\ frontier # << >>
      BY <1>0, <2>3 DEF Repeats, Visit, Searching, TypeOK
    <3>3. ~(Head(frontier)[2] >= ask.depth)
      <4>1. Head(frontier)[2] < ask.depth
        BY <2>3 DEF SearchInv, Visit, Searching, Layered
      <4> QED
        BY <1>0, <3>1, <4>1, LevelsTyped
    <3>4. Found = New(edges, ask, Current, visited)
      BY <3>2 DEF Found, New
    <3>5. After(edges, ask, w) = <<visited', frontier'>>
      BY <3>1, <3>3, <3>4 DEF After, Turned, Hops, Current
    <3>6. w[2] # << >>
      BY <3>2
    <3> QED
      BY <3>2, <3>5, <3>6, LeadsOn
  <2>4. CASE Skip
    <3>1. Leads(edges, ask, Outset(ask), w) /\ w[2] # << >>
      BY <2>4 DEF Repeats, Skip, Searching
    <3>2. After(edges, ask, w) = <<visited', frontier'>>
      BY <2>4 DEF Skip, Far, After
    <3> QED
      BY <3>1, <3>2, LeadsOn
  <2> QED
    BY <2>1, <2>2, <2>3, <2>4
<1> QED
  BY <1>1, <1>2, <1>3, <1>4, <1>5 DEF Repeats

(* The next page goes on where the last one ended. *)
LEMMA PaginateRepeats ==
    ASSUME SearchInv, still, Repeats, Paginate
    PROVE  Repeats'
<1>0. TypeOK /\ edges \subseteq Edge /\ ask \in Asks
  BY DEF SearchInv, TypeOK
<1> DEFINE ids == Ordered(DOMAIN visited)
           st == Start(ids)
           m == Size
           c == Len(ids)
<1>1. /\ ids \in Seq(Id) /\ ToSet(ids) = DOMAIN visited /\ DOMAIN ids = 1..c /\ c \in Nat
      /\ \A k, n \in DOMAIN ids : k < n <=> ids[k] < ids[n]
      /\ st \in 0..c
      /\ cursor \in DOMAIN visited => st # 0 /\ ids[st] = cursor
      /\ cursor \notin DOMAIN visited => st = 0
      /\ m \in Nat /\ page' \in Seq(Id) /\ Len(page') = m
      /\ \A j \in 1..m : page'[j] = ids[st + j]
  BY <1>0, PaginateIs
<1>2. /\ more' => cursor' = ids[st + m] /\ st + m \in DOMAIN ids
      /\ ~more' => st + m = c
  BY <1>0, PaginateIs
<1>3. /\ pc' = "hydrate" /\ pc = "first" /\ frontier = << >> /\ visited' = visited /\ frontier' = frontier
      /\ results' = results /\ elements' = elements /\ edges' = edges /\ ask' = ask
  BY DEF Paginate, graph, walk
<1>4. Whole(visited)
  BY <1>3 DEF Whole, Repeats, Searching
<1>5. \A n \in DOMAIN ids : ids[n] \in Nat
  <2>1. \A n \in DOMAIN ids : ids[n] \in Id
    BY <1>1, ElementOfSeq
  <2> QED
    BY <2>1, IdAssumption
<1> HIDE DEF ids, st, m, c
<1>6. Len(results) = st /\ \A j \in 1..st : results[j] = ids[j]
  <2>1. Begun
    BY <1>3 DEF Repeats
  <2>2. CASE cursor = 0 /\ results = << >>
    <3>1. cursor \notin DOMAIN visited
      BY <1>0, <2>2, IdAssumption DEF TypeOK
    <3> QED
      BY <1>1, <2>2, <3>1
  <2>3. ASSUME NEW v, Whole(v), NEW k \in DOMAIN Ordered(DOMAIN v),
               cursor = Ordered(DOMAIN v)[k], Len(results) = k,
               \A j \in 1..k : results[j] = Ordered(DOMAIN v)[j]
        PROVE  Len(results) = st /\ \A j \in 1..st : results[j] = ids[j]
    <3>1. v = visited
      <4>1. <<v, << >>>> = <<visited, << >>>>
        BY <1>0, <1>4, <2>3, OneEnd DEF Whole
      <4> QED
        BY <4>1
    <3>2. k \in DOMAIN ids /\ cursor = ids[k] /\ \A j \in 1..k : results[j] = ids[j]
      BY <2>3, <3>1 DEF ids
    <3>3. cursor \in DOMAIN visited
      BY <1>1, <3>2 DEF ToSet
    <3>4. st \in DOMAIN ids /\ ids[st] = ids[k]
      <4>1. st # 0 /\ st \in 0..c /\ DOMAIN ids = 1..c
        BY <1>1, <3>3
      <4>2. st \in DOMAIN ids
        BY <4>1
      <4> QED
        BY <1>1, <3>2, <3>3, <4>2
    <3>5. st = k
      <4>1. ids[k] \in Nat /\ ids[st] \in Nat
        BY <1>5, <3>2, <3>4
      <4>2. ~(st < k) /\ ~(k < st)
        <5>1. ~(ids[st] < ids[k]) /\ ~(ids[k] < ids[st])
          BY <3>4, <4>1
        <5> QED
          BY <1>1, <3>2, <3>4, <5>1
      <4>3. st \in Nat /\ k \in Nat
        BY <1>1, <3>2, <3>4
      <4> QED
        BY <4>2, <4>3
    <3> QED
      BY <2>3, <3>2, <3>5
  <2> QED
    BY <2>1, <2>2, <2>3 DEF Begun
<1>7. Paged(ids)'
  <2> DEFINE k == st + m
  <2>1. st \in Nat /\ m \in Nat /\ c \in Nat /\ st <= c /\ DOMAIN ids = 1..c
    BY <1>1
  <2>2. k \in 0..c
    <3>1. CASE more'
      BY <1>2, <2>1, <3>1
    <3>2. CASE ~more'
      BY <1>2, <2>1, <3>2
    <3> QED
      BY <3>1, <3>2
  <2>3. more' => k # 0
    BY <1>2, <2>1
  <2>4. Len(results') + Len(page') = k
    BY <1>1, <1>3, <1>6
  <2>5. \A j \in 1..Len(results') : results'[j] = ids[j]
    BY <1>3, <1>6
  <2>6. \A j \in 1..Len(page') : page'[j] = ids[Len(results') + j]
    BY <1>1, <1>3, <1>6
  <2>7. ids' = ids /\ c = Len(ids)
    BY <1>3 DEF ids, c
  <2> HIDE DEF k
  <2>8. (more' => cursor' = ids[k]) /\ (~more' => k = c)
    BY <1>2 DEF k
  <2> QED
    BY <2>2, <2>3, <2>4, <2>5, <2>6, <2>7, <2>8 DEF Paged
<1> QED
  BY <1>3, <1>4, <1>7 DEF Repeats, Whole, ids

(* An element goes from the page to what the client was given. *)
LEMMA HydrateRepeats ==
    ASSUME SearchInv, still, Repeats, Hydrate
    PROVE  Repeats'
<1>0. TypeOK /\ page \in Seq(Id) /\ results \in Seq(Id) /\ page # << >>
  BY DEF SearchInv, TypeOK, Hydrate
<1> DEFINE ids == Ordered(DOMAIN visited)
           x == Head(page)
           r == Len(results)
           p == Len(page)
<1>1. /\ pc' = "hydrate" /\ pc = "hydrate" /\ walk' = walk /\ edges' = edges /\ ask' = ask /\ elements' = elements
      /\ more' = more /\ cursor' = cursor /\ page' = Tail(page) /\ elements = Id
  BY DEF Hydrate, graph, Repeats
<1>2. x \in Id /\ r \in Nat /\ p \in Nat \ {0} /\ x = page[1]
      /\ page' \in Seq(Id) /\ Len(page') = p - 1 /\ \A j \in 1..(p - 1) : page'[j] = page[j + 1]
  <2>1. x \in Id /\ page' \in Seq(Id) /\ Len(page') = p - 1 /\ x = page[1]
    BY <1>0, <1>1, HeadTailProperties
  <2>2. r \in Nat /\ p \in Nat \ {0}
    BY <1>0, EmptySeq, LenProperties
  <2>3. \A j \in 1..(p - 1) : Tail(page)[j] = page[j + 1]
    BY <1>0, <2>2
  <2> QED
    BY <1>1, <2>1, <2>2, <2>3
<1>3. results' = Append(results, x)
  BY <1>1, <1>2 DEF Hydrate
<1>4. /\ Len(results') = r + 1 /\ \A j \in 1..r : results'[j] = results[j]
      /\ results'[r + 1] = x
  <2>1. Len(Append(results, x)) = r + 1
    BY <1>0, <1>2, AppendProperties
  <2>2. \A j \in 1..r : Append(results, x)[j] = results[j]
    BY <1>0, <1>2, AppendProperties
  <2>3. Append(results, x)[r + 1] = x
    BY <1>0, <1>2, AppendProperties
  <2> QED
    BY <1>3, <2>1, <2>2, <2>3
<1>5. PICK k \in 0..Len(ids) :
        /\ r + p = k
        /\ \A j \in 1..r : results[j] = ids[j]
        /\ \A j \in 1..p : page[j] = ids[r + j]
        /\ more => k # 0 /\ cursor = ids[k]
        /\ ~more => k = Len(ids)
  BY <1>1 DEF Repeats, Paged
<1> HIDE DEF ids, x, r, p
<1>6. ids' = ids /\ Searching' /\ Searching
  BY <1>1 DEF walk, ids, Searching
<1>7. Len(results') + Len(page') = k
  BY <1>2, <1>4, <1>5
<1>8. ASSUME NEW j \in 1..Len(results') PROVE results'[j] = ids[j]
  <2>1. j \in 1..r \/ j = r + 1
    BY <1>2, <1>4
  <2>2. 1 \in 1..p
    BY <1>2
  <2>3. x = ids[r + 1]
    BY <1>2, <1>5, <2>2
  <2> QED
    BY <1>4, <1>5, <2>1, <2>3
<1>9. ASSUME NEW j \in 1..Len(page') PROVE page'[j] = ids[Len(results') + j]
  <2>1. j \in 1..(p - 1) /\ j + 1 \in 1..p /\ r + (j + 1) = Len(results') + j
    BY <1>2, <1>4
  <2>2. page'[j] = page[j + 1]
    BY <1>2, <2>1
  <2>3. page[j + 1] = ids[r + (j + 1)]
    BY <1>5, <2>1
  <2> QED
    BY <2>1, <2>2, <2>3
<1>10. Paged(ids)'
  BY <1>1, <1>5, <1>6, <1>7, <1>8, <1>9 DEF Paged
<1>11. Leads(edges, ask, Outset(ask), <<visited', frontier'>>)
  BY <1>1, <1>6 DEF Repeats, walk
<1> QED
  BY <1>1, <1>10, <1>11 DEF Repeats, ids

(* A page is complete, or the last one is. *)
LEMMA RespondRepeats ==
    ASSUME SearchInv, still, Repeats, Respond
    PROVE  Repeats'
<1> DEFINE ids == Ordered(DOMAIN visited)
           r == Len(results)
<1>0. TypeOK /\ results \in Seq(Id)
  BY DEF SearchInv, TypeOK
<1>1. /\ pc = "hydrate" /\ pc' = (IF more THEN "ask" ELSE "done") /\ page = << >> /\ frontier = << >>
      /\ visited' = visited /\ edges' = edges /\ ask' = ask /\ elements' = elements
      /\ cursor' = cursor /\ results' = results /\ elements = Id
  BY <1>0 DEF Respond, graph, walk, pages, Repeats, TypeOK
<1>2. ids \in Seq(Id) /\ DOMAIN ids = 1..Len(ids) /\ Len(ids) \in Nat /\ r \in Nat
  BY <1>0, VisitedIs, LenProperties
<1>3. PICK k \in 0..Len(ids) :
        /\ r + Len(page) = k
        /\ \A j \in 1..r : results[j] = ids[j]
        /\ more => k # 0 /\ cursor = ids[k]
        /\ ~more => k = Len(ids)
  BY <1>1 DEF Repeats, Paged
<1>4. k = r
  BY <1>1, <1>2, <1>3
<1>5. CASE more
  <2>1. Whole(visited)
    BY <1>1 DEF Repeats, Searching, Whole
  <2>2. Begun'
    <3>1. k \in DOMAIN ids /\ cursor = ids[k]
      BY <1>2, <1>3, <1>5
    <3> DEFINE v == visited
    <3>2. Whole(v)'
      BY <1>1, <2>1 DEF Whole
    <3> QED
      BY <1>1, <1>3, <1>4, <3>1, <3>2 DEF Begun
  <2> QED
    BY <1>1, <1>5, <2>2 DEF Repeats, Searching
<1>6. CASE ~more
  <2>1. Len(results) = Len(ids) /\ \A j \in 1..Len(results) : results[j] = ids[j]
    BY <1>3, <1>4, <1>6
  <2> HIDE DEF ids
  <2>2. results = ids
    BY <1>0, <1>2, <2>1, SeqEqual
  <2> QED
    BY <1>1, <1>6, <2>2 DEF Repeats, Searching, ids
<1> QED
  BY <1>5, <1>6

(* Each step keeps the invariant of the pages. *)
LEMMA StepRepeats == SearchInv /\ Repeats /\ [Next]_vars => Repeats'
<1> SUFFICES ASSUME SearchInv, Repeats, [Next]_vars, still' PROVE Repeats'
  BY DEF Repeats
<1>1. CASE Begin \/ Incoming \/ Outgoing \/ Visit \/ Skip
  BY <1>1, SearchRepeats DEF Begin, Incoming, Outgoing, Visit, Skip
<1>2. CASE Paginate
  BY <1>2, PaginateRepeats DEF Paginate
<1>3. CASE Hydrate
  BY <1>3, HydrateRepeats DEF Hydrate
<1>4. CASE Respond
  BY <1>4, RespondRepeats DEF Respond
<1>5. CASE Edit
  BY <1>5 DEF Edit
<1>6. CASE UNCHANGED vars
  <2>1. /\ pc' = pc /\ visited' = visited /\ frontier' = frontier /\ heard' = heard /\ edges' = edges /\ ask' = ask
        /\ elements' = elements /\ cursor' = cursor /\ results' = results /\ page' = page /\ more' = more
        /\ still' = still
    BY <1>6 DEF vars, graph, walk, pages
  <2>2. Paged(Ordered(DOMAIN visited))' = Paged(Ordered(DOMAIN visited)) /\ Begun' = Begun /\ Current' = Current
    BY <2>1 DEF Paged, Begun, Whole, Current
  <2> QED
    BY <2>1, <2>2 DEF Repeats, Searching
<1> QED
  BY <1>1, <1>2, <1>3, <1>4, <1>5, <1>6 DEF Next

(* What every page's traversal found and is still there is on some page; and *)
(* in one only, in the order of ids, if the graph was not edited meanwhile.  *)
THEOREM PagesAreWhole == Spec => []PagesMissNothing
<1>1. Init => SearchInv /\ Given /\ Repeats
  <2>1. Init => Repeats
    BY DEF Init, Repeats, Searching, Begun
  <2> QED
    BY <2>1, InitSearch, InitGiven
<1>2. SearchInv /\ Given /\ Repeats /\ [Next]_vars => (SearchInv /\ Given /\ Repeats)'
  BY StepSearch, StepGiven, StepRepeats DEF SearchInv
<1>3. Given /\ Repeats => PagesMissNothing
  BY DEF Given, Repeats, PagesMissNothing
<1> QED
  BY <1>1, <1>2, <1>3, PTL DEF Spec
=============================================================================
