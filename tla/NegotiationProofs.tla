-------------------------- MODULE NegotiationProofs --------------------------
(***************************************************************************)
(* What the operators of Negotiation compute, for any receipts and any     *)
(* readings: what a score is and how it moves when a receipt is added, the *)
(* numbers each side commits to at a risk, and the receipts it commits to. *)
(*                                                                         *)
(* These are sums and recursive definitions.  The library's induction is   *)
(* about a predicate, which no prover here can be given; the first part    *)
(* states it of a set instead, and derives from it that a recursive        *)
(* definition has a solution, without which CHOOSE says nothing.           *)
(***************************************************************************)
EXTENDS Negotiation, FiniteSetTheorems, WellFoundedInduction, TLAPS

-----------------------------------------------------------------------------
\* Induction.  The library states it for a predicate; here it is about a set, so that it can be
\* applied to {n \in Nat : P(n)}.

\* A set of naturals has a least element.
LEMMA LeastNatural ==
  ASSUME NEW T \in SUBSET Nat, T # {}
  PROVE  \E n \in T : \A m \in T : n <= m
<1>1. PICK n \in T : \A m \in T : ~(<<m, n>> \in OpToRel(<, Nat))
  BY WFMin, NatLessThanWellFounded
<1>2. \A m \in T : ~(m < n)
  BY <1>1 DEF OpToRel
<1>3. QED
  BY <1>2

\* A set that holds zero and every successor holds every natural.
LEMMA NaturalsByInduction ==
  ASSUME NEW T \in SUBSET Nat, 0 \in T, \A n \in T : n + 1 \in T
  PROVE  T = Nat
<1> SUFFICES ASSUME Nat \ T # {}
             PROVE  FALSE
  OBVIOUS
<1>1. PICK n \in Nat \ T : \A m \in Nat \ T : n <= m
  BY LeastNatural
<1>2. n # 0 /\ n - 1 \in Nat
  BY <1>1
<1>3. n - 1 \in T
  BY <1>1, <1>2
<1>4. (n - 1) + 1 \in T
  BY <1>3
<1>5. QED
  BY <1>1, <1>4

\* Induction over the subsets of a finite set, one element at a time.
LEMMA SubsetsByInduction ==
  ASSUME NEW S, IsFiniteSet(S), NEW T \in SUBSET (SUBSET S),
         \A s \in SUBSET S : (\A x \in s : s \ {x} \in T) => s \in T
  PROVE  T = SUBSET S
<1> DEFINE G == {n \in Nat : \A s \in SUBSET S : Cardinality(s) = n => s \in T}
<1>1. \A s \in SUBSET S : IsFiniteSet(s) /\ Cardinality(s) \in Nat
  BY FS_Subset, FS_CardinalityType
<1>2. 0 \in G
  <2>1. \A s \in SUBSET S : Cardinality(s) = 0 => s = {}
    BY <1>1, FS_EmptySet
  <2>2. QED
    BY <2>1
<1>3. ASSUME NEW n \in G
      PROVE  n + 1 \in G
  <2>1. SUFFICES ASSUME NEW s \in SUBSET S, Cardinality(s) = n + 1
                 PROVE  s \in T
    OBVIOUS
  <2>2. ASSUME NEW x \in s
        PROVE  s \ {x} \in T
    <3>1. IsFiniteSet(s) /\ n \in Nat
      BY <1>1
    <3>2. Cardinality(s \ {x}) = Cardinality(s) - 1
      BY <3>1, FS_RemoveElement
    <3>3. Cardinality(s \ {x}) = n
      BY <2>1, <3>1, <3>2
    <3>4. QED
      BY <3>3
  <2>3. QED
    BY <2>2
<1>4. G = Nat
  <2> HIDE DEF G
  <2>1. G \subseteq Nat
    BY DEF G
  <2>2. QED
    BY <1>2, <1>3, <2>1, NaturalsByInduction
<1>5. QED
  BY <1>1, <1>4

\* A recursive definition that looks at one earlier value has a solution: the functions that
\* solve it up to a rank, put together.
Follows(h, D, stop, base, prev, comb) ==
  \A d \in D : h[d] = IF d \in stop THEN base[d] ELSE comb[<<d, h[prev[d]]>>]
Descends(D, stop, prev, rank) == \A d \in D \ stop : rank[prev[d]] < rank[d]

\* Such a solution exists whenever what is looked at has a lower rank.
LEMMA RecursionExists ==
  ASSUME NEW D, NEW V, NEW rank \in [D -> Nat], NEW stop \in SUBSET D, NEW base \in [D -> V],
         NEW prev \in [D -> D], NEW comb \in [D \X V -> V],
         Descends(D, stop, prev, rank)
  PROVE  \E h \in [D -> V] : Follows(h, D, stop, base, prev, comb)
<1> USE DEF Descends
<1> DEFINE Value(h, d) == IF d \in stop THEN base[d] ELSE comb[<<d, h[prev[d]]>>]
           Solves(h, n) == \A d \in D : rank[d] <= n => h[d] = Value(h, d)
           G == {n \in Nat : \E h \in [D -> V] : Solves(h, n)}
           First(h) == [d \in D |-> Value(h, d)]
<1>1. ASSUME NEW h \in [D -> V]
      PROVE  First(h) \in [D -> V]
  OBVIOUS
<1>2. ASSUME NEW h \in [D -> V], NEW n \in Nat, Solves(h, n)
      PROVE  Solves(First(h), n + 1)
  <2>1. SUFFICES ASSUME NEW d \in D, rank[d] <= n + 1
                 PROVE  First(h)[d] = Value(First(h), d)
    OBVIOUS
  <2>2. CASE d \in stop
    BY <2>2
  <2>3. CASE d \notin stop
    <3>1. prev[d] \in D /\ rank[prev[d]] <= n
      BY <2>1, <2>3
    <3>2. First(h)[prev[d]] = h[prev[d]]
      BY <1>2, <3>1
    <3>3. QED
      BY <2>3, <3>2
  <2>4. QED
    BY <2>2, <2>3
<1>3. 0 \in G
  <2>1. \A d \in D : rank[d] <= 0 => d \in stop
    OBVIOUS
  <2>2. Solves(base, 0)
    BY <2>1
  <2>3. QED
    BY <2>2
<1>4. ASSUME NEW n \in G
      PROVE  n + 1 \in G
  <2>1. PICK h \in [D -> V] : Solves(h, n)
    OBVIOUS
  <2>2. First(h) \in [D -> V] /\ Solves(First(h), n + 1)
    BY <1>1, <1>2, <2>1
  <2> HIDE DEF First, Solves
  <2>3. QED
    BY <2>2
<1>5. G = Nat
  <2> HIDE DEF G
  <2>1. G \subseteq Nat
    BY DEF G
  <2>2. QED
    BY <1>3, <1>4, <2>1, NaturalsByInduction
<1>6. PICK H \in [Nat -> [D -> V]] : \A n \in Nat : Solves(H[n], n)
  <2>1. \A n \in Nat : \E h \in [D -> V] : Solves(h, n)
    BY <1>5
  <2> HIDE DEF Solves
  <2>2. DEFINE H == [n \in Nat |-> CHOOSE h \in [D -> V] : Solves(h, n)]
  <2>3. \A n \in Nat : H[n] \in [D -> V] /\ Solves(H[n], n)
    BY <2>1
  <2>4. H \in [Nat -> [D -> V]]
    BY <2>3
  <2>5. QED
    BY <2>3, <2>4
<1>7. ASSUME NEW g \in [D -> V], NEW h \in [D -> V], NEW n \in Nat, Solves(g, n), Solves(h, n)
      PROVE  \A d \in D : rank[d] <= n => g[d] = h[d]
  <2> DEFINE Same == {m \in Nat : \A d \in D : rank[d] <= m /\ rank[d] <= n => g[d] = h[d]}
  <2>1. 0 \in Same
    <3>1. \A d \in D : rank[d] <= 0 => d \in stop
      OBVIOUS
    <3>2. QED
      BY <1>7, <3>1
  <2>2. ASSUME NEW m \in Same
        PROVE  m + 1 \in Same
    <3>1. SUFFICES ASSUME NEW d \in D, rank[d] <= m + 1, rank[d] <= n
                   PROVE  g[d] = h[d]
      OBVIOUS
    <3>2. CASE d \in stop
      BY <1>7, <3>1, <3>2
    <3>3. CASE d \notin stop
      <4>1. prev[d] \in D /\ rank[prev[d]] <= m /\ rank[prev[d]] <= n
        BY <3>1, <3>3
      <4>2. g[prev[d]] = h[prev[d]]
        BY <4>1
      <4>3. QED
        BY <1>7, <3>1, <3>3, <4>2
    <3>4. QED
      BY <3>2, <3>3
  <2>3. Same = Nat
    <3> HIDE DEF Same
    <3>1. Same \subseteq Nat
      BY DEF Same
    <3>2. QED
      BY <2>1, <2>2, <3>1, NaturalsByInduction
  <2>4. n \in Same
    BY <2>3
  <2>5. QED
    BY <2>4
<1> DEFINE h == [d \in D |-> H[rank[d]][d]]
<1>8. h \in [D -> V]
  BY <1>6
<1>9. ASSUME NEW d \in D
      PROVE  h[d] = Value(h, d)
  <2>1. H[rank[d]] \in [D -> V] /\ Solves(H[rank[d]], rank[d])
    BY <1>6
  <2>2. h[d] = Value(H[rank[d]], d)
    <3>1. rank[d] \in Nat /\ rank[d] <= rank[d] /\ h[d] = H[rank[d]][d]
      OBVIOUS
    <3>2. QED
      BY <2>1, <3>1
  <2>3. CASE d \in stop
    BY <2>2, <2>3
  <2>4. CASE d \notin stop
    <3>1. prev[d] \in D /\ rank[prev[d]] \in Nat /\ rank[prev[d]] < rank[d] /\ rank[d] \in Nat
      BY <2>4
    <3> DEFINE k == rank[prev[d]]
    <3>2. H[k] \in [D -> V] /\ Solves(H[k], k)
      BY <1>6, <3>1
    <3>3. Solves(H[rank[d]], k)
      BY <2>1, <3>1
    <3>4. H[k][prev[d]] = H[rank[d]][prev[d]]
      <4>1. k \in Nat /\ rank[prev[d]] <= k
        BY <3>1
      <4> HIDE DEF Solves, k
      <4>2. \A e \in D : rank[e] <= k => H[k][e] = H[rank[d]][e]
        BY <1>7, <2>1, <3>2, <3>3, <4>1
      <4>3. QED
        BY <3>1, <4>1, <4>2
    <3>5. h[prev[d]] = H[k][prev[d]]
      BY <3>1
    <3>6. QED
      BY <2>2, <2>4, <3>4, <3>5
  <2>5. QED
    BY <2>3, <2>4
<1>10. QED
  BY <1>8, <1>9 DEF Follows

-----------------------------------------------------------------------------
\* Sums.  The community module adds up the values of a function in an order of its own; what
\* the risk of a side needs is that the order does not matter.

IsSum(it, w, S) ==
  it = [s \in SUBSET S |->
          IF s = {} THEN 0
          ELSE w[CHOOSE x \in s : TRUE] + it[s \ {CHOOSE x \in s : TRUE}]]

\* The equation has a solution.
LEMMA SumExists ==
  ASSUME NEW S, IsFiniteSet(S), NEW w \in [S -> Int]
  PROVE  \E it \in [SUBSET S -> Int] : IsSum(it, w, S)
<1> DEFINE D == SUBSET S
           first(s) == CHOOSE x \in s : TRUE
           rank == [s \in D |-> Cardinality(s)]
           stop == {{}}
           base == [s \in D |-> 0]
           prev == [s \in D |-> s \ {first(s)}]
           comb == [p \in D \X Int |-> IF p[1] = {} THEN 0 ELSE w[first(p[1])] + p[2]]
<1>1. \A s \in D : s # {} => first(s) \in s
  OBVIOUS
<1>2. \A s \in D : IsFiniteSet(s) /\ Cardinality(s) \in Nat
  BY FS_Subset, FS_CardinalityType
<1>3. rank \in [D -> Nat] /\ stop \in SUBSET D /\ base \in [D -> Int] /\ prev \in [D -> D]
  BY <1>2
<1>4. comb \in [D \X Int -> Int]
  <2> HIDE DEF first
  <2>1. ASSUME NEW s \in D, NEW v \in Int
        PROVE  (IF s = {} THEN 0 ELSE w[first(s)] + v) \in Int
    BY <1>1
  <2>2. QED
    BY <2>1
<1>5. ASSUME NEW s \in D \ stop
      PROVE  rank[prev[s]] < rank[s]
  <2> HIDE DEF first
  <2>1. IsFiniteSet(s) /\ Cardinality(s) \in Nat /\ first(s) \in s
    BY <1>1, <1>2
  <2>2. Cardinality(s \ {first(s)}) = Cardinality(s) - 1
    BY <2>1, FS_RemoveElement
  <2>3. QED
    BY <2>1, <2>2
<1>6. PICK it \in [D -> Int] : \A s \in D :
        it[s] = IF s \in stop THEN base[s] ELSE comb[<<s, it[prev[s]]>>]
  <2> DEFINE V == Int
  <2>1. rank \in [D -> Nat] /\ stop \in SUBSET D /\ base \in [D -> V] /\ prev \in [D -> D]
    BY <1>3
  <2>2. comb \in [D \X V -> V]
    BY <1>4
  <2>3. Descends(D, stop, prev, rank)
    BY <1>5 DEF Descends
  <2> HIDE DEF D, V, rank, stop, base, prev, comb
  <2>4. \E it \in [D -> V] : Follows(it, D, stop, base, prev, comb)
    BY <2>1, <2>2, <2>3, RecursionExists
  <2>5. QED
    BY <2>4 DEF V, Follows
<1>7. ASSUME NEW s \in D, s # {}
      PROVE  it[s] = w[first(s)] + it[s \ {first(s)}]
  <2> HIDE DEF first
  <2>1. it[s] = comb[<<s, it[s \ {first(s)}]>>]
    BY <1>6, <1>7
  <2>2. it[s \ {first(s)}] \in Int
    OBVIOUS
  <2>3. QED
    BY <1>7, <2>1, <2>2
<1>8. it[{}] = 0
  BY <1>6
<1>9. IsSum(it, w, S)
  BY <1>7, <1>8 DEF IsSum
<1>10. QED
  BY <1>9

\* The sum over every set of indices.
Sums(w) == CHOOSE it : IsSum(it, w, DOMAIN w)

\* So the chosen one is a solution, and an integer for every set of indices.
LEMMA SumsStep ==
  ASSUME NEW S, IsFiniteSet(S), NEW w \in [S -> Int]
  PROVE  /\ IsSum(Sums(w), w, S)
         /\ Sums(w) \in [SUBSET S -> Int]
         /\ Sums(w)[{}] = 0
<1>1. DOMAIN w = S /\ \E it : IsSum(it, w, S)
  BY SumExists
<1>2. IsSum(Sums(w), w, S)
  BY <1>1 DEF Sums
<1> DEFINE it == Sums(w)
           T == {s \in SUBSET S : it[s] \in Int}
           first(s) == CHOOSE x \in s : TRUE
<1>3. \A s \in SUBSET S :
        it[s] = IF s = {} THEN 0 ELSE w[first(s)] + it[s \ {first(s)}]
  BY <1>2 DEF IsSum
<1>4. it = [s \in SUBSET S |-> it[s]]
  BY <1>2 DEF IsSum
<1> HIDE DEF it
<1>5. \A s \in SUBSET S : (\A x \in s : s \ {x} \in T) => s \in T
  <2> SUFFICES ASSUME NEW s \in SUBSET S, \A x \in s : s \ {x} \in T
               PROVE  it[s] \in Int
    OBVIOUS
  <2>1. CASE s = {}
    BY <1>3, <2>1
  <2>2. CASE s # {}
    <3>1. first(s) \in s
      BY <2>2
    <3> HIDE DEF first
    <3>2. it[s \ {first(s)}] \in Int /\ w[first(s)] \in Int
      BY <3>1
    <3>3. QED
      BY <1>3, <2>2, <3>2
  <2>3. QED
    BY <2>1, <2>2
<1>6. T = SUBSET S
  <2> HIDE DEF T
  <2>1. T \in SUBSET (SUBSET S)
    BY DEF T
  <2>2. QED
    BY <1>5, <2>1, SubsetsByInduction
<1>7. it \in [SUBSET S -> Int]
  BY <1>4, <1>6
<1>8. QED
  BY <1>2, <1>3, <1>7 DEF it

\* Any element may be taken first.
Adds(it, w, S) ==
  /\ it \in [SUBSET S -> Int]
  /\ it[{}] = 0
  /\ \A s \in SUBSET S : \A x \in s : it[s] = w[x] + it[s \ {x}]

\* The order of the elements does not matter to a sum.
LEMMA SumsAdd ==
  ASSUME NEW S, IsFiniteSet(S), NEW w \in [S -> Int]
  PROVE  Adds(Sums(w), w, S)
<1> DEFINE it == Sums(w)
           first(s) == CHOOSE x \in s : TRUE
           T == {s \in SUBSET S : \A x \in s : it[s] = w[x] + it[s \ {x}]}
<1>1. /\ it \in [SUBSET S -> Int] /\ it[{}] = 0
      /\ \A s \in SUBSET S : s # {} => it[s] = w[first(s)] + it[s \ {first(s)}]
  <2>1. it \in [SUBSET S -> Int] /\ IsSum(it, w, S) /\ it[{}] = 0
    BY SumsStep
  <2> HIDE DEF it
  <2>2. QED
    BY <2>1 DEF IsSum
<1>2. \A s \in SUBSET S : s # {} => first(s) \in s
  OBVIOUS
<1> HIDE DEF it, first
<1>3. \A s \in SUBSET S : (\A x \in s : s \ {x} \in T) => s \in T
  <2> SUFFICES ASSUME NEW s \in SUBSET S, \A x \in s : s \ {x} \in T, NEW x \in s
               PROVE  it[s] = w[x] + it[s \ {x}]
    OBVIOUS
  <2> DEFINE c == first(s)
             both == s \ {x, c}
  <2>1. c \in s /\ it[s] = w[c] + it[s \ {c}]
    BY <1>1, <1>2
  <2> HIDE DEF c
  <2>2. CASE c = x
    BY <2>1, <2>2
  <2>3. CASE c # x
    <3>1. (s \ {c}) \ {x} = both /\ (s \ {x}) \ {c} = both
      OBVIOUS
    <3>2. it[s \ {c}] = w[x] + it[both]
      BY <2>1, <2>3, <3>1
    <3>3. it[s \ {x}] = w[c] + it[both]
      BY <2>1, <2>3, <3>1
    <3>4. it[both] \in Int /\ w[x] \in Int /\ w[c] \in Int
      BY <1>1, <2>1
    <3>5. QED
      BY <2>1, <3>2, <3>3, <3>4
  <2>4. QED
    BY <2>2, <2>3
<1>4. T = SUBSET S
  <2> HIDE DEF T
  <2>1. T \in SUBSET (SUBSET S)
    BY DEF T
  <2>2. QED
    BY <1>3, <2>1, SubsetsByInduction
<1>5. Adds(it, w, S)
  BY <1>1, <1>4 DEF Adds
<1>6. QED
  BY <1>5 DEF it

\* What the community module computes.
LEMMA SumFunctionIs ==
  ASSUME NEW S, IsFiniteSet(S), NEW w \in [S -> Int]
  PROVE  SumFunction(w) = Sums(w)[S]
<1> DEFINE P(iter) == iter = [s \in SUBSET S |->
                                IF s = {} THEN 0
                                ELSE LET x == CHOOSE x \in s : TRUE
                                     IN  w[x] + iter[s \ {x}]]
           it == CHOOSE iter : P(iter)
           jt == Sums(w)
           first(s) == CHOOSE x \in s : TRUE
           T == {s \in SUBSET S : it[s] = jt[s]}
<1>1. IsSum(jt, w, S)
  BY SumsStep
<1>2. IsSum(it, w, S)
  <2>1. P(jt)
    <3> HIDE DEF jt
    <3>1. QED
      BY <1>1 DEF IsSum
  <2>2. P(it)
    <3> HIDE DEF P
    <3>1. QED
      BY <2>1
  <2> HIDE DEF it
  <2>3. QED
    BY <2>2 DEF IsSum
<1>3. SumFunction(w) = it[S]
  <2>1. DOMAIN w = S
    OBVIOUS
  <2>2. QED
    BY <2>1 DEF SumFunction, SumFunctionOnSet, FoldFunctionOnSet, MapThenFoldSet
<1> HIDE DEF it, jt
<1>4. \A s \in SUBSET S : /\ it[s] = IF s = {} THEN 0 ELSE w[first(s)] + it[s \ {first(s)}]
                          /\ jt[s] = IF s = {} THEN 0 ELSE w[first(s)] + jt[s \ {first(s)}]
  BY <1>1, <1>2 DEF IsSum
<1>5. \A s \in SUBSET S : s # {} => first(s) \in s
  OBVIOUS
<1> HIDE DEF first
<1>6. \A s \in SUBSET S : (\A x \in s : s \ {x} \in T) => s \in T
  BY <1>4, <1>5
<1>7. T = SUBSET S
  <2> HIDE DEF T
  <2>1. T \in SUBSET (SUBSET S)
    BY DEF T
  <2>2. QED
    BY <1>6, <2>1, SubsetsByInduction
<1>8. QED
  BY <1>3, <1>7 DEF jt

\* A sum over a part of the indices.
LEMMA SumOfPart ==
  ASSUME NEW S, IsFiniteSet(S), NEW w \in [S -> Int], NEW part \in SUBSET S
  PROVE  SumFunction([x \in part |-> w[x]]) = Sums(w)[part]
<1> DEFINE v == [x \in part |-> w[x]]
           it == Sums(v)
           jt == Sums(w)
           T == {s \in SUBSET part : it[s] = jt[s]}
<1>1. IsFiniteSet(part) /\ v \in [part -> Int]
  BY FS_Subset
<1>2. /\ it[{}] = 0 /\ jt[{}] = 0
      /\ \A s \in SUBSET part : \A x \in s : it[s] = v[x] + it[s \ {x}]
      /\ \A s \in SUBSET part : \A x \in s : jt[s] = w[x] + jt[s \ {x}]
  <2>1. Adds(it, v, part)
    <3> HIDE DEF v
    <3>1. QED
      BY <1>1, SumsAdd
  <2>2. Adds(jt, w, S)
    BY SumsAdd
  <2> HIDE DEF it, jt, v
  <2>3. QED
    BY <2>1, <2>2 DEF Adds
<1> HIDE DEF it, jt
<1>3. \A s \in SUBSET part : (\A x \in s : s \ {x} \in T) => s \in T
  <2> SUFFICES ASSUME NEW s \in SUBSET part, \A x \in s : s \ {x} \in T
               PROVE  it[s] = jt[s]
    OBVIOUS
  <2>1. CASE s = {}
    BY <1>2, <2>1
  <2>2. ASSUME NEW x \in s
        PROVE  it[s] = jt[s]
    <3>1. it[s \ {x}] = jt[s \ {x}] /\ v[x] = w[x]
      OBVIOUS
    <3>2. QED
      BY <1>2, <3>1
  <2>3. QED
    BY <2>1, <2>2
<1>4. T = SUBSET part
  <2> HIDE DEF T
  <2>1. T \in SUBSET (SUBSET part)
    BY DEF T
  <2>2. QED
    BY <1>1, <1>3, <2>1, SubsetsByInduction
<1>5. SumFunction(v) = it[part]
  <2> HIDE DEF v
  <2>1. QED
    BY <1>1, SumFunctionIs DEF it
<1>6. QED
  BY <1>4, <1>5 DEF jt

\* Parts that are not below zero have no sum below zero.
LEMMA SumsNotNegative ==
  ASSUME NEW S, IsFiniteSet(S), NEW w \in [S -> Int], \A x \in S : w[x] >= 0
  PROVE  \A s \in SUBSET S : Sums(w)[s] >= 0
<1> DEFINE it == Sums(w)
           T == {s \in SUBSET S : it[s] >= 0}
<1>1. Adds(it, w, S)
  BY SumsAdd
<1> HIDE DEF it
<1> USE DEF Adds
<1>2. \A s \in SUBSET S : (\A x \in s : s \ {x} \in T) => s \in T
  <2> SUFFICES ASSUME NEW s \in SUBSET S, \A x \in s : s \ {x} \in T
               PROVE  it[s] >= 0
    OBVIOUS
  <2>1. CASE s = {}
    BY <1>1, <2>1
  <2>2. ASSUME NEW x \in s
        PROVE  it[s] >= 0
    <3>1. it[s \ {x}] >= 0 /\ it[s \ {x}] \in Int /\ w[x] >= 0 /\ w[x] \in Int
      BY <1>1
    <3>2. QED
      BY <1>1, <3>1
  <2>3. QED
    BY <2>1, <2>2
<1>3. T = SUBSET S
  <2> HIDE DEF T
  <2>1. T \in SUBSET (SUBSET S)
    BY DEF T
  <2>2. QED
    BY <1>2, <2>1, SubsetsByInduction
<1>4. QED
  BY <1>3 DEF it

\* What adds nothing may be left out.
LEMMA SumsOfSupport ==
  ASSUME NEW S, IsFiniteSet(S), NEW w \in [S -> Int]
  PROVE  \A s \in SUBSET S : Sums(w)[s] = Sums(w)[{x \in s : w[x] # 0}]
<1> DEFINE it == Sums(w)
           support(s) == {x \in s : w[x] # 0}
           T == {s \in SUBSET S : it[s] = it[support(s)]}
<1>1. Adds(it, w, S)
  BY SumsAdd
<1> HIDE DEF it
<1> USE DEF Adds
<1>2. \A s \in SUBSET S : (\A x \in s : s \ {x} \in T) => s \in T
  <2> SUFFICES ASSUME NEW s \in SUBSET S, \A x \in s : s \ {x} \in T
               PROVE  it[s] = it[support(s)]
    OBVIOUS
  <2>1. CASE s = {}
    <3>1. support(s) = s
      BY <2>1
    <3>2. QED
      BY <3>1
  <2>2. ASSUME NEW x \in s
        PROVE  it[s] = it[support(s)]
    <3>1. it[s] = w[x] + it[s \ {x}] /\ it[s \ {x}] = it[support(s \ {x})] /\ w[x] \in Int
      BY <1>1
    <3>2. CASE w[x] = 0
      <4>1. support(s \ {x}) = support(s)
        BY <3>2
      <4>2. support(s) \in SUBSET S /\ it[support(s)] \in Int
        BY <1>1
      <4>3. QED
        BY <3>1, <3>2, <4>1, <4>2
    <3>3. CASE w[x] # 0
      <4>1. support(s \ {x}) = support(s) \ {x} /\ x \in support(s) /\ support(s) \in SUBSET S
        BY <3>3
      <4>2. it[support(s)] = w[x] + it[support(s) \ {x}]
        BY <1>1, <4>1
      <4>3. QED
        BY <3>1, <4>1, <4>2
    <3>4. QED
      BY <3>2, <3>3
  <2>3. QED
    BY <2>1, <2>2
<1>3. T = SUBSET S
  <2> HIDE DEF T
  <2>1. T \in SUBSET (SUBSET S)
    BY DEF T
  <2>2. QED
    BY <1>2, <2>1, SubsetsByInduction
<1>4. QED
  BY <1>3 DEF it

-----------------------------------------------------------------------------
\* The risk of a side.

\* What each receipt adds.
Weights(readings, about, rate) == [e \in Receipts |-> Contribution(e, readings, about, rate)]

\* The readings a side may hold, each with a weight.
Weighed(readings, rate) ==
  IsFiniteSet(readings) /\ readings \subseteq Reading /\ rate \in [readings -> Nat]

\* The receipts are finitely many, and each has a type.
LEMMA ReceiptsFinite ==
  /\ IsFiniteSet(Receipts)
  /\ \A e \in Receipts : TypeOf[e] \in EventTypes
BY ReceiptsAssumption, TypeOfAssumption

\* A receipt adds a whole number; a complaint never takes away; and a side does not price its
\* own conduct.
LEMMA ContributionOfOne ==
  ASSUME NEW readings, NEW about, NEW rate, Weighed(readings, rate), NEW e \in Receipts
  PROVE  /\ Contribution(e, readings, about, rate) \in Int
         /\ TypeOf[e] # RELEASED => Contribution(e, readings, about, rate) >= 0
         /\ about \notin SUBJECTS_OF[TypeOf[e]] => Contribution(e, readings, about, rate) = 0
<1> DEFINE part == {d \in readings : d.source_event_type = TypeOf[e]}
           one(d) == VALENCE_OF[d.source_event_type] * d.magnitude * rate[d]
           v == [d \in part |-> one(d)]
<1>1. IsFiniteSet(part)
  BY FS_Subset DEF Weighed
<1>2. ASSUME NEW d \in part
      PROVE  one(d) \in Int /\ (TypeOf[e] # RELEASED => one(d) >= 0)
  <2>1. /\ d.source_event_type \in EventTypes /\ d.source_event_type = TypeOf[e]
        /\ d.magnitude \in Nat /\ rate[d] \in Nat
    BY DEF Weighed, Reading
  <2>2. /\ VALENCE_OF[d.source_event_type] \in Int
        /\ TypeOf[e] # RELEASED => VALENCE_OF[d.source_event_type] = 1
    BY <2>1 DEF VALENCE_OF
  <2>3. d.magnitude * rate[d] \in Nat
    BY <2>1
  <2>4. one(d) \in Int
    BY <2>1, <2>2
  <2>5. ASSUME TypeOf[e] # RELEASED
        PROVE  one(d) >= 0
    <3>1. one(d) = 1 * d.magnitude * rate[d]
      BY <2>2, <2>5
    <3>2. 1 * d.magnitude = d.magnitude
      BY <2>1
    <3>3. QED
      BY <2>3, <3>1, <3>2
  <2>6. QED
    BY <2>4, <2>5
<1> HIDE DEF one
<1>3. v \in [part -> Int] /\ (TypeOf[e] # RELEASED => \A d \in part : v[d] >= 0)
  BY <1>2
<1>4. /\ SumFunction(v) \in Int
      /\ TypeOf[e] # RELEASED => SumFunction(v) >= 0
  <2> HIDE DEF v, part
  <2>1. SumFunction(v) = Sums(v)[part]
    BY <1>1, <1>3, SumFunctionIs
  <2>2. Sums(v) \in [SUBSET part -> Int]
    BY <1>1, <1>3, SumsStep
  <2>3. TypeOf[e] # RELEASED => \A s \in SUBSET part : Sums(v)[s] >= 0
    BY <1>1, <1>3, SumsNotNegative
  <2>4. QED
    BY <2>1, <2>2, <2>3
<1>5. Contribution(e, readings, about, rate) =
        IF about \notin SUBJECTS_OF[TypeOf[e]] THEN 0 ELSE SumFunction(v)
  BY DEF Contribution, one
<1> HIDE DEF v
<1>6. QED
  BY <1>4, <1>5

\* Each receipt adds an integer.
LEMMA WeightsType ==
  ASSUME NEW readings, NEW about, NEW rate, Weighed(readings, rate)
  PROVE  Weights(readings, about, rate) \in [Receipts -> Int]
BY ContributionOfOne DEF Weights

\* The score is the sum, kept within the scale.
LEMMA ScoreIsSum ==
  ASSUME NEW readings, NEW about, NEW rate, Weighed(readings, rate),
         NEW events \in SUBSET Receipts
  PROVE  LET sum == Sums(Weights(readings, about, rate))[events] IN
         /\ _score(events, readings, about, rate) = Clamp(0, RISK_CEILING, sum)
         /\ sum \in Int
         /\ _score(events, readings, about, rate) \in 0 .. RISK_CEILING
<1> DEFINE w == Weights(readings, about, rate)
           sum == Sums(w)[events]
<1>1. w \in [Receipts -> Int]
  BY WeightsType
<1>2. [e \in events |-> Contribution(e, readings, about, rate)] = [e \in events |-> w[e]]
  BY DEF Weights
<1> HIDE DEF w
<1>3. SumFunction([e \in events |-> w[e]]) = sum
  BY <1>1, ReceiptsFinite, SumOfPart
<1>4. sum \in Int
  <2>1. Sums(w) \in [SUBSET Receipts -> Int]
    BY <1>1, ReceiptsFinite, SumsStep
  <2>2. QED
    BY <2>1
<1>5. _score(events, readings, about, rate) = Clamp(0, RISK_CEILING, sum)
  BY <1>2, <1>3 DEF _score
<1> HIDE DEF sum
<1>6. Clamp(0, RISK_CEILING, sum) \in 0 .. RISK_CEILING
  BY <1>4 DEF Clamp, RISK_CEILING
<1>7. QED
  BY <1>4, <1>5, <1>6 DEF sum, w

\* A complaint never lowers the risk, and one about the side itself does not move it.
LEMMA ScoreGrows ==
  ASSUME NEW readings, NEW about, NEW rate, Weighed(readings, rate),
         NEW events \in SUBSET Receipts, NEW r \in Receipts \ events, TypeOf[r] # RELEASED
  PROVE  /\ _score(events \cup {r}, readings, about, rate)
              >= _score(events, readings, about, rate)
         /\ about \notin SUBJECTS_OF[TypeOf[r]] =>
              _score(events \cup {r}, readings, about, rate) =
                _score(events, readings, about, rate)
<1> DEFINE w == Weights(readings, about, rate)
           it == Sums(w)
           more == events \cup {r}
<1>1. Adds(it, w, Receipts)
  BY WeightsType, ReceiptsFinite, SumsAdd
<1>2. /\ w[r] \in Int /\ w[r] >= 0
      /\ about \notin SUBJECTS_OF[TypeOf[r]] => w[r] = 0
  BY ContributionOfOne DEF Weights
<1>3. /\ _score(events, readings, about, rate) = Clamp(0, RISK_CEILING, it[events])
      /\ _score(more, readings, about, rate) = Clamp(0, RISK_CEILING, it[more])
      /\ it[events] \in Int /\ it[more] \in Int
  BY ScoreIsSum
<1> HIDE DEF it, w
<1>4. it[more] = w[r] + it[events]
  <2>1. more \in SUBSET Receipts /\ r \in more /\ more \ {r} = events
    OBVIOUS
  <2>2. QED
    BY <1>1, <2>1 DEF Adds
<1>5. QED
  BY <1>2, <1>3, <1>4 DEF Clamp, RISK_CEILING

\* The receipts that add nothing can be left out.
LEMMA ScoreOfUsed ==
  ASSUME NEW readings, NEW about, NEW rate, Weighed(readings, rate),
         NEW events \in SUBSET Receipts
  PROVE  /\ used(events, readings, about, rate) \in SUBSET events
         /\ _score(used(events, readings, about, rate), readings, about, rate) =
              _score(events, readings, about, rate)
<1> DEFINE w == Weights(readings, about, rate)
           it == Sums(w)
           part == used(events, readings, about, rate)
<1>1. part = {e \in events : w[e] # 0}
  BY DEF used, Weights
<1>2. it[events] = it[{e \in events : w[e] # 0}]
  <2>1. w \in [Receipts -> Int]
    BY WeightsType
  <2> HIDE DEF w
  <2>2. QED
    BY <2>1, ReceiptsFinite, SumsOfSupport
<1>3. /\ _score(events, readings, about, rate) = Clamp(0, RISK_CEILING, it[events])
      /\ _score(part, readings, about, rate) = Clamp(0, RISK_CEILING, it[part])
  <2>1. part \in SUBSET Receipts
    BY DEF used
  <2>2. QED
    BY <2>1, ScoreIsSum
<1>4. part \in SUBSET events
  BY DEF used
<1>5. QED
  BY <1>1, <1>2, <1>3, <1>4

-----------------------------------------------------------------------------
\* The numbers that a risk moves.

\* The three profiles, of which only the window's sensitivity may be below zero.
LEMMA ProfilesSensible ==
  ASSUME NEW name \in DOMAIN PROFILES
  PROVE  /\ PROFILES[name].risk_weight \in Nat
         /\ PROFILES[name].bond_sensitivity_bps \in Nat
         /\ PROFILES[name].window_buffer_seconds \in Int
         /\ PROFILES[name].price_ceiling_premium_bps \in Nat
         /\ PROFILES[name].payout_delay_floor_bps \in 0 .. BPS_DENOMINATOR
<1>1. name \in {"urgent", "budget", "sensitive"}
  BY DEF PROFILES
<1>2. CASE name = "urgent"
  BY <1>2 DEF PROFILES, BPS_DENOMINATOR
<1>3. CASE name = "budget"
  BY <1>3 DEF PROFILES, BPS_DENOMINATOR
<1>4. CASE name = "sensitive"
  BY <1>4 DEF PROFILES, BPS_DENOMINATOR
<1>5. QED
  BY <1>1, <1>2, <1>3, <1>4

\* A product with a natural grows with its other factor.
LEMMA ProductGrows ==
  ASSUME NEW a \in Nat, NEW b \in Nat, NEW s \in Nat, a <= b
  PROVE  a * s \in Nat /\ b * s \in Nat /\ a * s <= b * s
<1>1. PICK k \in Nat : b = a + k
  <2>1. b - a \in Nat /\ b = a + (b - a)
    OBVIOUS
  <2>2. QED
    BY <2>1
<1>2. b * s = a * s + k * s /\ k * s \in Nat /\ a * s \in Nat
  BY <1>1
<1>3. QED
  BY <1>2

\* Rounding keeps an order.
LEMMA RoundingGrows ==
  ASSUME NEW x \in Nat, NEW y \in Nat, x <= y
  PROVE  /\ _round_decimal(x, RISK_CEILING) \in Nat
         /\ _round_decimal(x, RISK_CEILING) <= _round_decimal(y, RISK_CEILING)
BY DEF _round_decimal, RISK_CEILING

\* More is spent at a higher risk.
LEMMA SpentGrows ==
  ASSUME NEW a \in Nat, NEW b \in Nat, NEW s \in Nat, a <= b
  PROVE  /\ Spent(a, s) \in Nat /\ Spent(b, s) \in Nat
         /\ Spent(a, s) <= Spent(b, s)
BY ProductGrows, RoundingGrows DEF Spent

\* What is spent is an integer, whatever the sensitivity's sign.
LEMMA SpentType ==
  ASSUME NEW a \in Nat, NEW s \in Int
  PROVE  Spent(a, s) \in Int
<1> DEFINE x == a * s
<1>1. x \in Int
  OBVIOUS
<1> HIDE DEF x
<1>2. _round_decimal(x, RISK_CEILING) \in Int
  BY <1>1 DEF _round_decimal, RISK_CEILING
<1>3. QED
  BY <1>2 DEF Spent, x

\* A clamp stays within its bounds, keeps an order and moves towards them only.
LEMMA ClampBounds ==
  ASSUME NEW low \in Int, NEW high \in Int, low <= high, NEW x \in Int, NEW y \in Int, x <= y
  PROVE  /\ Clamp(low, high, x) \in low .. high
         /\ Clamp(low, high, x) <= Clamp(low, high, y)
         /\ x >= low => Clamp(low, high, x) <= x
         /\ x <= high => Clamp(low, high, x) >= x
BY DEF Clamp

\* A baseline that the command and the endpoint let through.
Sound(base) ==
  /\ base.price_wei \in Nat \ {0}
  /\ base.provider_bond_bps \in 0 .. MAX_PROVIDER_BOND_BPS
  /\ base.service_window \in 1 .. MAX_DURATION
  /\ base.payout_delay \in 1 .. MAX_DURATION

\* The bounds of the two durations and of the bond, without their literals.
LEMMA LongestDuration == MAX_DURATION \in Nat /\ MAX_DURATION >= 300
BY SMT DEF MAX_DURATION

LEMMA SoundNumbers ==
  ASSUME NEW base, Sound(base)
  PROVE  /\ base.provider_bond_bps \in 0 .. MAX_PROVIDER_BOND_BPS
         /\ base.service_window \in 1 .. MAX_DURATION
         /\ base.payout_delay \in 1 .. MAX_DURATION
BY DEF Sound

\* The committed numbers of each side, from its risk.
BuyerNumbers(risk, profile, base) ==
  [provider_bond_bps |->
     clamp_bond_bps(base.provider_bond_bps + Spent(risk, profile.bond_sensitivity_bps)),
   service_window |->
     Clamp(IF base.service_window < MIN_SERVICE_WINDOW_SECONDS
           THEN base.service_window ELSE MIN_SERVICE_WINDOW_SECONDS,
           MAX_DURATION, base.service_window + Spent(risk, profile.window_buffer_seconds))]

ProviderNumbers(risk, base) ==
  [price_bps |-> BPS_DENOMINATOR + Spent(risk, 2500),
   payout_delay |->
     Clamp(IF base.payout_delay < MIN_PAYOUT_DELAY_SECONDS
           THEN base.payout_delay ELSE MIN_PAYOUT_DELAY_SECONDS,
           MAX_DURATION, base.payout_delay - Spent(risk, 1260)),
   max_bond_bps |-> clamp_bond_bps(MAX_BOND_BPS - Spent(risk, 3500)),
   price_floor_bps |-> BPS_DENOMINATOR + _round_decimal(risk * 2500 * 3, RISK_CEILING * 4)]

\* What each side commits to depends on its memory through its risk alone.
LEMMA CommittedAtRisk ==
  ASSUME NEW events, NEW readings, NEW profile, NEW base
  PROVE  /\ BuyerCommitted(events, readings, profile, base) =
              BuyerNumbers(BuyerRisk(events, readings, profile), profile, base)
         /\ ProviderCommitted(events, readings, base) =
              ProviderNumbers(ProviderRisk(events, readings), base)
<1>1. (1800 * Persona.cashflow_sensitivity) \div 100 = 1260
  BY DEF Persona
<1>2. (MAX_BOND_BPS * Persona.cashflow_sensitivity) \div 100 = 3500
  BY DEF Persona, MAX_BOND_BPS
<1>3. Persona.delay_sensitivity_seconds = 1800 /\ Persona.price_sensitivity_bps = 2500
  BY DEF Persona
<1>4. QED
  BY <1>1, <1>2, <1>3 DEF BuyerCommitted, BuyerNumbers, ProviderCommitted, ProviderNumbers

\* Every number a buyer commits to is one the contract takes, and its bond is no lower than the
\* baseline's; and a riskier provider posts no less.
LEMMA BuyerNumbersGrow ==
  ASSUME NEW name \in DOMAIN PROFILES, NEW base, Sound(base),
         NEW a \in 0 .. RISK_CEILING, NEW b \in 0 .. RISK_CEILING, a <= b
  PROVE  LET low == BuyerNumbers(a, PROFILES[name], base)
             high == BuyerNumbers(b, PROFILES[name], base)
         IN  /\ low.provider_bond_bps \in base.provider_bond_bps .. MAX_PROVIDER_BOND_BPS
             /\ low.service_window \in 1 .. MAX_DURATION
             /\ low.provider_bond_bps <= high.provider_bond_bps
<1> DEFINE profile == PROFILES[name]
           s == Spent(a, profile.bond_sensitivity_bps)
           t == Spent(b, profile.bond_sensitivity_bps)
           u == Spent(a, profile.window_buffer_seconds)
<1>1. /\ a \in Nat /\ b \in Nat
      /\ profile.bond_sensitivity_bps \in Nat /\ profile.window_buffer_seconds \in Int
  BY ProfilesSensible DEF RISK_CEILING
<1>2. s \in Nat /\ t \in Nat /\ s <= t /\ u \in Int
  <2> HIDE DEF profile
  <2>1. QED
    BY <1>1, SpentGrows, SpentType
<1>3. /\ BuyerNumbers(a, profile, base).provider_bond_bps =
           clamp_bond_bps(base.provider_bond_bps + s)
      /\ BuyerNumbers(b, profile, base).provider_bond_bps =
           clamp_bond_bps(base.provider_bond_bps + t)
      /\ BuyerNumbers(a, profile, base).service_window =
           Clamp(IF base.service_window < MIN_SERVICE_WINDOW_SECONDS
                 THEN base.service_window ELSE MIN_SERVICE_WINDOW_SECONDS,
                 MAX_DURATION, base.service_window + u)
  BY DEF BuyerNumbers
<1> DEFINE bond == base.provider_bond_bps
           shortest == IF base.service_window < MIN_SERVICE_WINDOW_SECONDS
                       THEN base.service_window ELSE MIN_SERVICE_WINDOW_SECONDS
<1> HIDE DEF s, t, u, profile
<1>4. /\ bond \in 0 .. MAX_PROVIDER_BOND_BPS /\ bond + s \in Int /\ bond + t \in Int
      /\ bond <= bond + s /\ bond + s <= bond + t
  <2>1. bond \in 0 .. MAX_PROVIDER_BOND_BPS
    BY SoundNumbers
  <2> HIDE DEF bond
  <2>2. QED
    BY <1>2, <2>1 DEF MAX_PROVIDER_BOND_BPS
<1>5. /\ shortest \in Nat \ {0} /\ shortest <= MAX_DURATION /\ MAX_DURATION \in Int
      /\ base.service_window + u \in Int
  <2> DEFINE window == base.service_window
  <2>1. window \in 1 .. MAX_DURATION
    BY SoundNumbers
  <2> HIDE DEF window
  <2>2. QED
    BY <1>2, <2>1, LongestDuration DEF MIN_SERVICE_WINDOW_SECONDS, window
<1> HIDE DEF bond, shortest
<1>6. /\ Clamp(0, 10000, bond + s) \in bond .. 10000
      /\ Clamp(0, 10000, bond + s) <= Clamp(0, 10000, bond + t)
  BY <1>4 DEF Clamp, MAX_PROVIDER_BOND_BPS
<1>7. Clamp(shortest, MAX_DURATION, base.service_window + u) \in 1 .. MAX_DURATION
  <2>1. Clamp(shortest, MAX_DURATION, base.service_window + u) \in shortest .. MAX_DURATION
    BY <1>5, ClampBounds
  <2>2. QED
    BY <1>5, <2>1
<1>8. QED
  BY <1>3, <1>6, <1>7 DEF clamp_bond_bps, MAX_PROVIDER_BOND_BPS, profile, bond, shortest

\* The same of a provider: it never asks for less than the baseline price nor walks away below
\* it, never waits longer for its money, and at a higher risk it asks for more of each.
LEMMA ProviderNumbersGrow ==
  ASSUME NEW base, Sound(base),
         NEW a \in 0 .. RISK_CEILING, NEW b \in 0 .. RISK_CEILING, a <= b
  PROVE  LET low == ProviderNumbers(a, base)
             high == ProviderNumbers(b, base)
         IN  /\ low.price_bps \in Nat /\ low.price_floor_bps \in BPS_DENOMINATOR .. low.price_bps
             /\ low.payout_delay \in 1 .. base.payout_delay
             /\ low.max_bond_bps \in 0 .. MAX_BOND_BPS
             /\ low.price_bps <= high.price_bps
             /\ low.price_floor_bps <= high.price_floor_bps
             /\ high.payout_delay <= low.payout_delay
             /\ high.max_bond_bps <= low.max_bond_bps
<1>1. a \in Nat /\ b \in Nat
  BY DEF RISK_CEILING
<1> DEFINE floor(risk) == _round_decimal(risk * 2500 * 3, RISK_CEILING * 4)
<1>2. /\ Spent(a, 2500) \in Nat /\ Spent(b, 2500) \in Nat /\ Spent(a, 2500) <= Spent(b, 2500)
      /\ Spent(a, 1260) \in Nat /\ Spent(b, 1260) \in Nat /\ Spent(a, 1260) <= Spent(b, 1260)
      /\ Spent(a, 3500) \in Nat /\ Spent(b, 3500) \in Nat /\ Spent(a, 3500) <= Spent(b, 3500)
  <2>1. \A s \in Nat : Spent(a, s) \in Nat /\ Spent(b, s) \in Nat /\ Spent(a, s) <= Spent(b, s)
    BY <1>1, SpentGrows
  <2>2. QED
    BY <2>1
<1>3. floor(a) \in Nat /\ floor(b) \in Nat /\ floor(a) <= floor(b)
  BY <1>1 DEF _round_decimal, RISK_CEILING
<1>4. floor(a) <= Spent(a, 2500)
  BY <1>1 DEF Spent, _round_decimal, RISK_CEILING
<1>5. \A risk \in {a, b} :
        /\ ProviderNumbers(risk, base).price_bps = BPS_DENOMINATOR + Spent(risk, 2500)
        /\ ProviderNumbers(risk, base).payout_delay =
             Clamp(IF base.payout_delay < MIN_PAYOUT_DELAY_SECONDS
                   THEN base.payout_delay ELSE MIN_PAYOUT_DELAY_SECONDS,
                   MAX_DURATION, base.payout_delay - Spent(risk, 1260))
        /\ ProviderNumbers(risk, base).max_bond_bps =
             clamp_bond_bps(MAX_BOND_BPS - Spent(risk, 3500))
        /\ ProviderNumbers(risk, base).price_floor_bps = BPS_DENOMINATOR + floor(risk)
  BY DEF ProviderNumbers
<1> HIDE DEF floor
<1> DEFINE delay == base.payout_delay
           shortest == IF base.payout_delay < MIN_PAYOUT_DELAY_SECONDS
                       THEN base.payout_delay ELSE MIN_PAYOUT_DELAY_SECONDS
           paid(risk) == Clamp(shortest, MAX_DURATION, delay - Spent(risk, 1260))
           posted(risk) == clamp_bond_bps(MAX_BOND_BPS - Spent(risk, 3500))
<1>6. paid(a) \in 1 .. delay /\ paid(b) <= paid(a)
  <2>1. /\ delay \in 1 .. MAX_DURATION /\ shortest \in 1 .. delay /\ MAX_DURATION \in Nat
        /\ shortest <= MAX_DURATION
    BY LongestDuration, SoundNumbers DEF MIN_PAYOUT_DELAY_SECONDS
  <2> HIDE DEF delay, shortest
  <2>2. QED
    BY <1>2, <2>1 DEF Clamp
<1>7. posted(a) \in 0 .. MAX_BOND_BPS /\ posted(b) <= posted(a)
  <2> DEFINE v == Spent(a, 3500)
             w == Spent(b, 3500)
  <2>1. v \in Nat /\ w \in Nat /\ v <= w
    BY <1>2
  <2> HIDE DEF v, w
  <2>2. /\ clamp_bond_bps(MAX_BOND_BPS - v) \in 0 .. MAX_BOND_BPS
        /\ clamp_bond_bps(MAX_BOND_BPS - w) <= clamp_bond_bps(MAX_BOND_BPS - v)
    BY <2>1 DEF clamp_bond_bps, Clamp, MAX_BOND_BPS, MAX_PROVIDER_BOND_BPS
  <2>3. QED
    BY <2>2 DEF v, w
<1>8. \A risk \in {a, b} : /\ ProviderNumbers(risk, base).payout_delay = paid(risk)
                           /\ ProviderNumbers(risk, base).max_bond_bps = posted(risk)
  BY <1>5
<1> HIDE DEF paid, posted
<1>9. QED
  BY <1>2, <1>3, <1>4, <1>5, <1>6, <1>7, <1>8 DEF delay, BPS_DENOMINATOR

-----------------------------------------------------------------------------
\* The receipts a side commits to.

\* Induction over the subsets of a finite set, from all the smaller ones.
LEMMA SubsetsByStrongInduction ==
  ASSUME NEW S, IsFiniteSet(S), NEW T \in SUBSET (SUBSET S),
         \A s \in SUBSET S : (\A t \in SUBSET s : t # s => t \in T) => s \in T
  PROVE  T = SUBSET S
<1> DEFINE below == {s \in SUBSET S : SUBSET s \subseteq T}
<1>1. \A s \in SUBSET S : (\A x \in s : s \ {x} \in below) => s \in below
  <2> SUFFICES ASSUME NEW s \in SUBSET S, \A x \in s : s \ {x} \in below
               PROVE  SUBSET s \subseteq T
    OBVIOUS
  <2>1. ASSUME NEW t \in SUBSET s, t # s
        PROVE  t \in T
    <3>1. PICK x \in s : t \in SUBSET (s \ {x})
      BY <2>1
    <3>2. QED
      BY <3>1
  <2>2. s \in T
    BY <2>1
  <2>3. QED
    BY <2>1, <2>2
<1>2. below = SUBSET S
  <2> HIDE DEF below
  <2>1. below \in SUBSET (SUBSET S)
    BY DEF below
  <2>2. QED
    BY <1>1, <2>1, SubsetsByInduction
<1>3. QED
  BY <1>2

\* What is kept, as one receipt after the other is tried.
Tried(after, keep, committed, target) ==
  /\ after \in [Nat -> SUBSET Receipts]
  /\ after[0] = keep
  /\ \A n \in Nat \ {0} :
       after[n] = IF n \in after[n - 1] /\ committed[after[n - 1] \ {n}] = target
                  THEN after[n - 1] \ {n} ELSE after[n - 1]

\* A pass is its receipts tried in order.
LEMMA PassTries ==
  ASSUME NEW keep \in SUBSET Receipts, NEW committed, NEW target
  PROVE  \E after : /\ Tried(after, keep, committed, target)
                    /\ Pass(keep, committed, target) = after[Cardinality(Receipts)]
<1> DEFINE V == SUBSET Receipts
           D == Nat
           next(n, kept) ==
             IF n \in kept /\ committed[kept \ {n}] = target THEN kept \ {n} ELSE kept
           stop == {0}
           rank == [n \in D |-> n]
           base == [n \in D |-> keep]
           prev == [n \in D |-> IF n = 0 THEN 0 ELSE n - 1]
           comb == [p \in D \X V |-> next(p[1], p[2])]
<1>1. /\ rank \in [D -> Nat] /\ stop \in SUBSET D /\ base \in [D -> V] /\ prev \in [D -> D]
      /\ comb \in [D \X V -> V] /\ Descends(D, stop, prev, rank)
  <2>1. prev \in [D -> D] /\ Descends(D, stop, prev, rank)
    BY DEF Descends
  <2>2. comb \in [D \X V -> V]
    OBVIOUS
  <2>3. QED
    BY <2>1, <2>2
<1>2. PICK h \in [D -> V] : Follows(h, D, stop, base, prev, comb)
  <2> HIDE DEF D, V, rank, stop, base, prev, comb
  <2>1. QED
    BY <1>1, RecursionExists
<1>3. /\ h[0] = keep
      /\ \A n \in Nat \ {0} : h[n] = next(n, h[n - 1])
  <2>1. h[0] = keep
    BY <1>2 DEF Follows
  <2>2. ASSUME NEW n \in Nat \ {0}
        PROVE  h[n] = next(n, h[n - 1])
    <3>1. h[n] = comb[<<n, h[prev[n]]>>]
      BY <1>2 DEF Follows
    <3>2. prev[n] = n - 1 /\ n - 1 \in D /\ h[n - 1] \in V
      OBVIOUS
    <3>3. comb[<<n, h[n - 1]>>] = next(n, h[n - 1])
      BY <3>2
    <3>4. QED
      BY <3>1, <3>2, <3>3
  <2>3. QED
    BY <2>1, <2>2
<1> DEFINE P(after) == after = [n \in Nat |->
                                  IF n = 0 THEN keep
                                  ELSE LET kept == after[n - 1] IN
                                       IF n \in kept /\ committed[kept \ {n}] = target
                                       THEN kept \ {n} ELSE kept]
           it == CHOOSE after : P(after)
<1>4. P(h)
  BY <1>3
<1>5. P(it)
  <2> HIDE DEF P
  <2>1. QED
    BY <1>4
<1>6. Pass(keep, committed, target) = it[Cardinality(Receipts)]
  BY DEF Pass
<1> HIDE DEF it
<1>7. /\ it[0] = keep
      /\ \A n \in Nat \ {0} : it[n] = next(n, it[n - 1])
      /\ it = [n \in Nat |-> it[n]]
  BY <1>5
<1>8. it \in [Nat -> SUBSET Receipts]
  <2> DEFINE T == {n \in Nat : it[n] \in SUBSET Receipts}
  <2>1. 0 \in T
    BY <1>7
  <2>2. ASSUME NEW n \in T
        PROVE  n + 1 \in T
    <3>1. n + 1 \in Nat \ {0} /\ (n + 1) - 1 = n
      OBVIOUS
    <3>2. it[n + 1] = next(n + 1, it[n])
      BY <1>7, <3>1
    <3>3. QED
      BY <3>2
  <2>3. T = Nat
    <3> HIDE DEF T
    <3>1. T \subseteq Nat
      BY DEF T
    <3>2. QED
      BY <2>1, <2>2, <3>1, NaturalsByInduction
  <2>4. QED
    BY <1>7, <2>3
<1>9. QED
  BY <1>6, <1>7, <1>8 DEF Tried

\* A pass only drops; it keeps the numbers; and one that drops nothing found nothing to drop.
LEMMA PassDrops ==
  ASSUME NEW keep \in SUBSET Receipts, NEW committed, NEW target
  PROVE  /\ Pass(keep, committed, target) \in SUBSET keep
         /\ committed[keep] = target => committed[Pass(keep, committed, target)] = target
         /\ Pass(keep, committed, target) = keep =>
              \A e \in keep : committed[keep \ {e}] # target
<1>1. PICK after : /\ Tried(after, keep, committed, target)
                   /\ Pass(keep, committed, target) = after[Cardinality(Receipts)]
  BY PassTries
<1> DEFINE T == {n \in Nat : /\ after[n] \in SUBSET keep
                             /\ committed[keep] = target => committed[after[n]] = target
                             /\ \A m \in 0 .. n : after[n] \in SUBSET after[m]}
<1>2. 0 \in T
  BY <1>1 DEF Tried
<1>3. ASSUME NEW n \in T
      PROVE  n + 1 \in T
  <2>1. n + 1 \in Nat \ {0} /\ (n + 1) - 1 = n
    OBVIOUS
  <2>2. after[n + 1] = IF n + 1 \in after[n] /\ committed[after[n] \ {n + 1}] = target
                       THEN after[n] \ {n + 1} ELSE after[n]
    BY <1>1, <2>1 DEF Tried
  <2>3. after[n + 1] \in SUBSET after[n]
    BY <2>2
  <2>4. \A m \in 0 .. n + 1 : after[n + 1] \in SUBSET after[m]
    <3>1. \A m \in 0 .. n + 1 : m = n + 1 \/ m \in 0 .. n
      BY <2>1
    <3>2. QED
      BY <2>3, <3>1
  <2>5. committed[keep] = target => committed[after[n + 1]] = target
    BY <2>2
  <2>6. QED
    BY <2>1, <2>3, <2>4, <2>5
<1>4. T = Nat
  <2> HIDE DEF T
  <2>1. T \subseteq Nat
    BY DEF T
  <2>2. QED
    BY <1>2, <1>3, <2>1, NaturalsByInduction
<1>5. Cardinality(Receipts) \in Nat
  BY ReceiptsFinite, FS_CardinalityType
<1>6. ASSUME after[Cardinality(Receipts)] = keep, NEW e \in keep
      PROVE  committed[keep \ {e}] # target
  <2>1. /\ e \in Nat \ {0} /\ e - 1 \in Nat
        /\ e \in 0 .. Cardinality(Receipts) /\ e - 1 \in 0 .. Cardinality(Receipts)
    BY <1>5, ReceiptsAssumption
  <2>2. after[e - 1] = keep /\ after[e] = keep
    BY <1>4, <1>5, <1>6, <2>1
  <2>3. after[e] = IF e \in after[e - 1] /\ committed[after[e - 1] \ {e}] = target
                   THEN after[e - 1] \ {e} ELSE after[e - 1]
    BY <1>1, <2>1 DEF Tried
  <2>4. QED
    BY <2>2, <2>3
<1>7. QED
  BY <1>1, <1>4, <1>5, <1>6

\* Passes until one drops nothing.
Settles(fixed, committed, target) ==
  /\ fixed \in [SUBSET Receipts -> SUBSET Receipts]
  /\ \A keep \in SUBSET Receipts :
       fixed[keep] = IF Pass(keep, committed, target) = keep THEN keep
                     ELSE fixed[Pass(keep, committed, target)]

\* The passes come to an end: each that drops something leaves fewer.
LEMMA CausalSetSettles ==
  ASSUME NEW events, NEW candidates \in SUBSET Receipts, NEW committed
  PROVE  \E fixed : /\ Settles(fixed, committed, committed[events])
                    /\ _minimal_causal_set(events, candidates, committed) = fixed[candidates]
<1> DEFINE target == committed[events]
           D == SUBSET Receipts
           pass(keep) == Pass(keep, committed, target)
           stop == {keep \in D : pass(keep) = keep}
           rank == [keep \in D |-> Cardinality(keep)]
           base == [keep \in D |-> keep]
           prev == [keep \in D |-> pass(keep)]
           comb == [p \in D \X D |-> p[2]]
<1>1. \A keep \in D : pass(keep) \in SUBSET keep
  BY PassDrops
<1>2. \A keep \in D : IsFiniteSet(keep) /\ Cardinality(keep) \in Nat
  BY ReceiptsFinite, FS_Subset, FS_CardinalityType
<1> HIDE DEF pass
<1>3. /\ rank \in [D -> Nat] /\ stop \in SUBSET D /\ base \in [D -> D]
      /\ prev \in [D -> D] /\ comb \in [D \X D -> D]
  BY <1>1, <1>2
<1>4. Descends(D, stop, prev, rank)
  <2> SUFFICES ASSUME NEW keep \in D, pass(keep) # keep
               PROVE  Cardinality(pass(keep)) < Cardinality(keep)
    BY <1>1 DEF Descends
  <2>1. pass(keep) \in SUBSET keep /\ pass(keep) \in D /\ IsFiniteSet(keep)
    BY <1>1, <1>2
  <2>2. /\ Cardinality(pass(keep)) <= Cardinality(keep)
        /\ Cardinality(keep) # Cardinality(pass(keep))
    BY <2>1, FS_Subset
  <2>3. Cardinality(pass(keep)) \in Nat /\ Cardinality(keep) \in Nat
    BY <1>2, <2>1
  <2>4. QED
    BY <2>2, <2>3
<1>5. PICK h \in [D -> D] : Follows(h, D, stop, base, prev, comb)
  <2> HIDE DEF D, rank, stop, base, prev, comb
  <2>1. QED
    BY <1>3, <1>4, RecursionExists
<1>6. \A keep \in D : h[keep] = IF pass(keep) = keep THEN keep ELSE h[pass(keep)]
  BY <1>1, <1>5 DEF Follows
<1> DEFINE P(fixed) == fixed = [keep \in SUBSET Receipts |->
                                  LET next == pass(keep) IN
                                  IF next = keep THEN keep ELSE fixed[next]]
           it == CHOOSE fixed : P(fixed)
<1>7. P(h)
  BY <1>6
<1>8. P(it)
  <2> HIDE DEF P
  <2>1. QED
    BY <1>7
<1>9. _minimal_causal_set(events, candidates, committed) = it[candidates]
  BY DEF _minimal_causal_set, pass
<1> HIDE DEF it
<1>10. /\ it = [keep \in SUBSET Receipts |-> it[keep]]
       /\ \A keep \in D : it[keep] = IF pass(keep) = keep THEN keep ELSE it[pass(keep)]
  BY <1>8
<1> DEFINE T == {keep \in D : it[keep] \in D}
<1>11. \A s \in D : (\A t \in SUBSET s : t # s => t \in T) => s \in T
  BY <1>1, <1>10
<1>12. T = D
  <2> HIDE DEF T
  <2>1. T \in SUBSET (SUBSET Receipts)
    BY DEF T
  <2>2. QED
    BY <1>11, <2>1, ReceiptsFinite, SubsetsByStrongInduction
<1>13. it \in [SUBSET Receipts -> SUBSET Receipts]
  BY <1>10, <1>12
<1>14. Settles(it, committed, target)
  BY <1>10, <1>13 DEF Settles, pass
<1>15. QED
  BY <1>9, <1>14

\* What is committed to gives the numbers, and none of it can be left out.
LEMMA MinimalCausalSet ==
  ASSUME NEW events, NEW candidates \in SUBSET Receipts, NEW committed,
         committed[candidates] = committed[events]
  PROVE  LET causes == _minimal_causal_set(events, candidates, committed) IN
         /\ causes \in SUBSET candidates
         /\ committed[causes] = committed[events]
         /\ \A e \in causes : committed[causes \ {e}] # committed[events]
<1> DEFINE target == committed[events]
           pass(keep) == Pass(keep, committed, target)
           D == SUBSET Receipts
<1>1. PICK fixed : /\ Settles(fixed, committed, target)
                   /\ _minimal_causal_set(events, candidates, committed) = fixed[candidates]
  BY CausalSetSettles
<1>2. \A keep \in D : /\ pass(keep) \in SUBSET keep
                      /\ committed[keep] = target => committed[pass(keep)] = target
                      /\ pass(keep) = keep => \A e \in keep : committed[keep \ {e}] # target
  BY PassDrops
<1>3. \A keep \in D : fixed[keep] = IF pass(keep) = keep THEN keep ELSE fixed[pass(keep)]
  BY <1>1 DEF Settles
<1> HIDE DEF pass, target
<1> DEFINE T == {keep \in D : committed[keep] = target =>
                   /\ fixed[keep] \in SUBSET keep
                   /\ committed[fixed[keep]] = target
                   /\ \A e \in fixed[keep] : committed[fixed[keep] \ {e}] # target}
<1>4. \A s \in D : (\A t \in SUBSET s : t # s => t \in T) => s \in T
  <2> SUFFICES ASSUME NEW s \in D, \A t \in SUBSET s : t # s => t \in T, committed[s] = target
               PROVE  /\ fixed[s] \in SUBSET s
                      /\ committed[fixed[s]] = target
                      /\ \A e \in fixed[s] : committed[fixed[s] \ {e}] # target
    OBVIOUS
  <2>1. CASE pass(s) = s
    BY <1>2, <1>3, <2>1
  <2>2. CASE pass(s) # s
    <3>1. fixed[s] = fixed[pass(s)] /\ pass(s) \in SUBSET s /\ committed[pass(s)] = target
      BY <1>2, <1>3, <2>2
    <3>2. pass(s) \in T
      BY <2>2, <3>1
    <3>3. QED
      BY <3>1, <3>2
  <2>3. QED
    BY <2>1, <2>2
<1>5. T = D
  <2> HIDE DEF T
  <2>1. T \in SUBSET (SUBSET Receipts)
    BY DEF T
  <2>2. QED
    BY <1>4, <2>1, ReceiptsFinite, SubsetsByStrongInduction
<1>6. candidates \in T /\ committed[candidates] = target
  BY <1>5 DEF target
<1>7. QED
  BY <1>1, <1>6 DEF target

-----------------------------------------------------------------------------
\* The two sides, as the engines call the above.

Ontology(readings) == IsFiniteSet(readings) /\ readings \subseteq Reading

\* Both sides weigh every reading with a natural number.
LEMMA RatesWeigh ==
  ASSUME NEW readings, Ontology(readings)
  PROVE  /\ \A name \in DOMAIN PROFILES : Weighed(readings, BuyerRate(readings, PROFILES[name]))
         /\ Weighed(readings, ProviderRate(readings))
<1>1. ASSUME NEW name \in DOMAIN PROFILES
      PROVE  Weighed(readings, BuyerRate(readings, PROFILES[name]))
  <2> DEFINE profile == PROFILES[name]
  <2>1. profile.risk_weight \in Nat
    BY ProfilesSensible
  <2> HIDE DEF profile
  <2>2. BuyerRate(readings, profile) \in [readings -> Nat]
    BY <2>1 DEF BuyerRate
  <2>3. QED
    BY <2>2 DEF Weighed, Ontology, profile
<1>2. Weighed(readings, ProviderRate(readings))
  BY DEF Weighed, Ontology, ProviderRate
<1>3. QED
  BY <1>1, <1>2

\* Both risks lie on the scale.
LEMMA RisksInScale ==
  ASSUME NEW readings, Ontology(readings), NEW events \in SUBSET Receipts
  PROVE  /\ \A name \in DOMAIN PROFILES :
              BuyerRisk(events, readings, PROFILES[name]) \in 0 .. RISK_CEILING
         /\ ProviderRisk(events, readings) \in 0 .. RISK_CEILING
<1>1. ASSUME NEW name \in DOMAIN PROFILES
      PROVE  BuyerRisk(events, readings, PROFILES[name]) \in 0 .. RISK_CEILING
  <2>1. Weighed(readings, BuyerRate(readings, PROFILES[name]))
    BY RatesWeigh
  <2>2. QED
    BY <2>1, ScoreIsSum DEF BuyerRisk
<1>2. ProviderRisk(events, readings) \in 0 .. RISK_CEILING
  <2>1. Weighed(readings, ProviderRate(readings))
    BY RatesWeigh
  <2>2. QED
    BY <2>1, ScoreIsSum DEF ProviderRisk
<1>3. QED
  BY <1>1, <1>2

\* One more complaint: the side that made it sees no less risk, and the other side's is as it was.
LEMMA RisksGrow ==
  ASSUME NEW readings, Ontology(readings),
         NEW events \in SUBSET Receipts, NEW r \in Receipts \ events
  PROVE  /\ TypeOf[r] = TIMEOUT =>
              /\ ProviderRisk(events \cup {r}, readings) = ProviderRisk(events, readings)
              /\ \A name \in DOMAIN PROFILES :
                   BuyerRisk(events \cup {r}, readings, PROFILES[name])
                     >= BuyerRisk(events, readings, PROFILES[name])
         /\ TypeOf[r] = CLAIMED =>
              /\ ProviderRisk(events \cup {r}, readings) >= ProviderRisk(events, readings)
              /\ \A name \in DOMAIN PROFILES :
                   BuyerRisk(events \cup {r}, readings, PROFILES[name])
                     = BuyerRisk(events, readings, PROFILES[name])
<1>1. /\ TypeOf[r] = TIMEOUT => TypeOf[r] # RELEASED /\ "buyer" \notin SUBJECTS_OF[TypeOf[r]]
      /\ TypeOf[r] = CLAIMED => TypeOf[r] # RELEASED /\ "provider" \notin SUBJECTS_OF[TypeOf[r]]
  BY DEF TIMEOUT, CLAIMED, RELEASED, SUBJECTS_OF, EventTypes
<1>2. ASSUME NEW name \in DOMAIN PROFILES
      PROVE  /\ TypeOf[r] # RELEASED =>
                  BuyerRisk(events \cup {r}, readings, PROFILES[name])
                    >= BuyerRisk(events, readings, PROFILES[name])
             /\ TypeOf[r] # RELEASED /\ "provider" \notin SUBJECTS_OF[TypeOf[r]] =>
                  BuyerRisk(events \cup {r}, readings, PROFILES[name])
                    = BuyerRisk(events, readings, PROFILES[name])
  <2>1. Weighed(readings, BuyerRate(readings, PROFILES[name]))
    BY RatesWeigh
  <2>2. QED
    BY <2>1, ScoreGrows DEF BuyerRisk
<1>3. /\ TypeOf[r] # RELEASED =>
           ProviderRisk(events \cup {r}, readings) >= ProviderRisk(events, readings)
      /\ TypeOf[r] # RELEASED /\ "buyer" \notin SUBJECTS_OF[TypeOf[r]] =>
           ProviderRisk(events \cup {r}, readings) = ProviderRisk(events, readings)
  <2>1. Weighed(readings, ProviderRate(readings))
    BY RatesWeigh
  <2>2. QED
    BY <2>1, ScoreGrows DEF ProviderRisk
<1>4. QED
  BY <1>1, <1>2, <1>3

\* What a buyer commits to are receipts it recalled, they give its numbers, and each of them is
\* needed.
LEMMA BuyerCauses ==
  ASSUME NEW readings, Ontology(readings), NEW events \in SUBSET Receipts,
         NEW name \in DOMAIN PROFILES, NEW base
  PROVE  LET causes == BuyerUsed(events, readings, PROFILES[name], base)
             numbers(s) == BuyerCommitted(s, readings, PROFILES[name], base)
         IN  /\ causes \in SUBSET events
             /\ numbers(causes) = numbers(events)
             /\ \A e \in causes : numbers(causes \ {e}) # numbers(events)
<1> DEFINE profile == PROFILES[name]
           numbers(s) == BuyerCommitted(s, readings, profile, base)
           committed == [s \in SUBSET events |-> numbers(s)]
           rate == BuyerRate(readings, profile)
           candidates == used(events, readings, "provider", rate)
           causes == _minimal_causal_set(events, candidates, committed)
<1>1. Weighed(readings, rate)
  BY RatesWeigh
<1>2. /\ candidates \in SUBSET events
      /\ BuyerRisk(candidates, readings, profile) = BuyerRisk(events, readings, profile)
  <2> HIDE DEF rate
  <2>1. /\ candidates \in SUBSET events
        /\ _score(candidates, readings, "provider", rate) = _score(events, readings, "provider", rate)
    BY <1>1, ScoreOfUsed
  <2>2. QED
    BY <2>1 DEF BuyerRisk, rate
<1>3. numbers(candidates) = numbers(events)
  <2> HIDE DEF candidates, profile
  <2>1. \A s : numbers(s) = BuyerNumbers(BuyerRisk(s, readings, profile), profile, base)
    BY CommittedAtRisk
  <2> HIDE DEF numbers
  <2>2. QED
    BY <1>2, <2>1
<1>4. BuyerUsed(events, readings, profile, base) = causes
  BY DEF BuyerUsed
<1> HIDE DEF numbers, candidates, profile, rate
<1>5. candidates \in SUBSET Receipts /\ committed[candidates] = committed[events]
  BY <1>2, <1>3
<1>6. /\ causes \in SUBSET candidates
      /\ committed[causes] = committed[events]
      /\ \A e \in causes : committed[causes \ {e}] # committed[events]
  <2> HIDE DEF committed
  <2>1. QED
    BY <1>5, MinimalCausalSet
<1> HIDE DEF causes
<1>7. /\ causes \in SUBSET events /\ numbers(causes) = numbers(events)
      /\ \A e \in causes : numbers(causes \ {e}) # numbers(events)
  BY <1>2, <1>6
<1>8. QED
  BY <1>4, <1>7 DEF numbers, profile

\* The same of a provider.
LEMMA ProviderCauses ==
  ASSUME NEW readings, Ontology(readings), NEW events \in SUBSET Receipts, NEW base
  PROVE  LET causes == ProviderUsed(events, readings, base)
             numbers(s) == ProviderCommitted(s, readings, base)
         IN  /\ causes \in SUBSET events
             /\ numbers(causes) = numbers(events)
             /\ \A e \in causes : numbers(causes \ {e}) # numbers(events)
<1> DEFINE numbers(s) == ProviderCommitted(s, readings, base)
           committed == [s \in SUBSET events |-> numbers(s)]
           rate == ProviderRate(readings)
           candidates == used(events, readings, "buyer", rate)
           causes == _minimal_causal_set(events, candidates, committed)
<1>1. Weighed(readings, rate)
  BY RatesWeigh
<1>2. /\ candidates \in SUBSET events
      /\ ProviderRisk(candidates, readings) = ProviderRisk(events, readings)
  <2> HIDE DEF rate
  <2>1. /\ candidates \in SUBSET events
        /\ _score(candidates, readings, "buyer", rate) = _score(events, readings, "buyer", rate)
    BY <1>1, ScoreOfUsed
  <2>2. QED
    BY <2>1 DEF ProviderRisk, rate
<1>3. numbers(candidates) = numbers(events)
  <2> HIDE DEF candidates
  <2>1. \A s : numbers(s) = ProviderNumbers(ProviderRisk(s, readings), base)
    BY CommittedAtRisk
  <2> HIDE DEF numbers
  <2>2. QED
    BY <1>2, <2>1
<1>4. ProviderUsed(events, readings, base) = causes
  BY DEF ProviderUsed
<1> HIDE DEF numbers, candidates, rate
<1>5. candidates \in SUBSET Receipts /\ committed[candidates] = committed[events]
  BY <1>2, <1>3
<1>6. /\ causes \in SUBSET candidates
      /\ committed[causes] = committed[events]
      /\ \A e \in causes : committed[causes \ {e}] # committed[events]
  <2> HIDE DEF committed
  <2>1. QED
    BY <1>5, MinimalCausalSet
<1> HIDE DEF causes
<1>7. /\ causes \in SUBSET events /\ numbers(causes) = numbers(events)
      /\ \A e \in causes : numbers(causes \ {e}) # numbers(events)
  BY <1>2, <1>6
<1>8. QED
  BY <1>4, <1>7 DEF numbers
=============================================================================
