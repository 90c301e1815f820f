-------------------------- MODULE Operators_proofs --------------------------
(***************************************************************************)
(* Lemmas about the operators the models share.  Of Listing: an order lists *)
(* every element of a finite set once, so filtering, flattening, stable     *)
(* sorting and keeping the first of each key are maps of positions.  Of     *)
(* SourceText: where an offset is, that later offsets are at later places,  *)
(* and how places of a part of a text are places of the text.               *)
(***************************************************************************)
EXTENDS SourceText, Listing, FiniteSetTheorems, WellFoundedInduction, TLAPS

\* A set of natural numbers has a least one, so a property of the numbers that
\* fails has a first failure.
LEMMA LeastNumber ==
    ASSUME NEW S \in SUBSET Nat, S # {}
    PROVE  \E n \in S : \A k \in S : n <= k
<1>1. PICK n \in S : \A k \in S : <<k, n>> \notin OpToRel(<, Nat)
  BY NatLessThanWellFounded, WFMin
<1>2. ASSUME NEW k \in S PROVE n <= k
  <2>1. <<k, n>> \in Nat \X Nat /\ ~(k < n)
    BY <1>1 DEF OpToRel
  <2>2. QED
    BY <2>1
<1>3. QED
  BY <1>2

-----------------------------------------------------------------------------
\* R orders S: of two different elements exactly one is before the other.
Orders(R, S) ==
    /\ \A e \in S : <<e, e>> \notin R
    /\ \A d, e \in S : d # e => <<d, e>> \in R \/ <<e, d>> \in R
    /\ \A c, d, e \in S : <<c, d>> \in R /\ <<d, e>> \in R => <<c, e>> \in R

Rank(S, R, e) == Cardinality({d \in S : <<d, e>> \in R})

\* A bounded set of numbers has a greatest one.
LEMMA GreatestNumber ==
    ASSUME NEW n \in Nat, NEW S \in SUBSET (1..n), S # {}
    PROVE  \E k \in S : \A j \in S : k >= j
<1>1. PICK D : D = {n - k : k \in S}
  OBVIOUS
<1>2. D \in SUBSET Nat /\ D # {}
  <2>1. \A k \in S : n - k \in Nat /\ n - k \in D
    BY <1>1
  <2>2. \A d \in D : d \in Nat
    BY <1>1, <2>1
  <2>3. PICK k : k \in S
    OBVIOUS
  <2>4. QED
    BY <2>1, <2>2, <2>3
<1>3. PICK d \in D : \A e \in D : d <= e
  BY <1>2, LeastNumber
<1>4. PICK k \in S : d = n - k
  BY <1>1, <1>3
<1>5. ASSUME NEW j \in S PROVE k >= j
  <2>1. n - j \in D
    BY <1>1
  <2>2. n - k <= n - j
    BY <1>3, <1>4, <2>1
  <2>3. QED
    BY <2>2
<1>6. QED
  BY <1>5

\* A rank is a number.
LEMMA RankType ==
    ASSUME NEW S, IsFiniteSet(S), NEW R, NEW e
    PROVE  Rank(S, R, e) \in Nat /\ Rank(S, R, e) <= Cardinality(S)
<1>1. {d \in S : <<d, e>> \in R} \in SUBSET S
  OBVIOUS
<1>2. QED
  BY <1>1, FS_Subset, FS_CardinalityType DEF Rank

\* What is before has fewer before it.
LEMMA RankGrows ==
    ASSUME NEW S, IsFiniteSet(S), NEW R, Orders(R, S), NEW d \in S, NEW e \in S,
           <<d, e>> \in R
    PROVE  Rank(S, R, d) < Rank(S, R, e)
<1> DEFINE D == {c \in S : <<c, d>> \in R}
           E == {c \in S : <<c, e>> \in R}
<1>1. IsFiniteSet(D) /\ IsFiniteSet(E)
  BY FS_Subset
<1>2. Cardinality(D) \in Nat /\ Cardinality(E) \in Nat
  BY <1>1, FS_CardinalityType
<1>3. D \subseteq E
  BY DEF Orders
<1>4. d \in E /\ d \notin D
  BY DEF Orders
<1>5. Cardinality(D) <= Cardinality(E) /\ (Cardinality(D) = Cardinality(E) => E = D)
  BY <1>1, <1>3, FS_Subset
<1>6. QED
  BY <1>2, <1>4, <1>5 DEF Rank

\* The ranks are the numbers 0 to Cardinality(S) - 1.
LEMMA RankRange ==
    ASSUME NEW S, IsFiniteSet(S), NEW R, Orders(R, S)
    PROVE  /\ Cardinality(S) \in Nat
           /\ \A e \in S : Rank(S, R, e) + 1 \in 1..Cardinality(S)
           /\ \A d, e \in S : Rank(S, R, d) = Rank(S, R, e) => d = e
           /\ \A k \in 1..Cardinality(S) : \E e \in S : Rank(S, R, e) = k - 1
<1>1. Cardinality(S) \in Nat
  BY FS_CardinalityType
<1>2. ASSUME NEW e \in S PROVE Rank(S, R, e) + 1 \in 1..Cardinality(S)
  <2> DEFINE E == {c \in S : <<c, e>> \in R}
  <2>1. IsFiniteSet(E) /\ Cardinality(E) <= Cardinality(S)
        /\ (Cardinality(S) = Cardinality(E) => S = E)
    BY FS_Subset
  <2>2. e \notin E
    BY DEF Orders
  <2>3. Cardinality(E) \in Nat
    BY <2>1, FS_CardinalityType
  <2>4. QED
    BY <1>1, <2>1, <2>2, <2>3 DEF Rank
<1>3. ASSUME NEW d \in S, NEW e \in S, Rank(S, R, d) = Rank(S, R, e) PROVE d = e
  <2>1. Rank(S, R, d) \in Int /\ Rank(S, R, e) \in Int
    BY RankType
  <2>2. <<d, e>> \notin R /\ <<e, d>> \notin R
    BY <1>3, <2>1, RankGrows
  <2>3. QED
    BY <2>2 DEF Orders
<1>4. \A k \in 1..Cardinality(S) : \E e \in S : Rank(S, R, e) = k - 1
  <2> DEFINE g == [e \in S |-> Rank(S, R, e) + 1]
  <2>1. \A e \in S : Rank(S, R, e) \in Int
    BY RankType
  <2>2. g \in Injection(S, 1..Cardinality(S))
    <3>1. g \in [S -> 1..Cardinality(S)]
      BY <1>2
    <3>2. ASSUME NEW d \in S, NEW e \in S, g[d] = g[e] PROVE d = e
      <4>1. Rank(S, R, d) = Rank(S, R, e)
        BY <2>1, <3>2
      <4>2. QED
        BY <1>3, <4>1
    <3>3. QED
      BY <3>1, <3>2 DEF Injection, IsInjective
  <2>3. IsFiniteSet(1..Cardinality(S)) /\ Cardinality(1..Cardinality(S)) = Cardinality(S)
    BY <1>1, FS_Interval
  <2>4. g \in Surjection(S, 1..Cardinality(S))
    BY <2>2, <2>3, FS_Injection
  <2>5. ASSUME NEW k \in 1..Cardinality(S) PROVE \E e \in S : Rank(S, R, e) = k - 1
    <3>1. PICK e \in S : g[e] = k
      BY <2>4 DEF Surjection
    <3>2. Rank(S, R, e) + 1 = k /\ Rank(S, R, e) \in Int
      BY <2>1, <3>1
    <3>3. QED
      BY <3>2
  <2>6. QED
    BY <2>5
<1>5. QED
  BY <1>1, <1>2, <1>3, <1>4

\* Listed lists every element once, in the order.
LEMMA ListedInOrder ==
    ASSUME NEW S, IsFiniteSet(S), NEW R, Orders(R, S),
           NEW L, L = Listed(S, R)
    PROVE  /\ Cardinality(S) \in Nat /\ L \in [1..Cardinality(S) -> S]
           /\ \A k \in 1..Cardinality(S) : Rank(S, R, L[k]) = k - 1
           /\ \A e \in S : \E k \in 1..Cardinality(S) : L[k] = e
           /\ \A k, l \in 1..Cardinality(S) : L[k] = L[l] => k = l
           /\ \A k, l \in 1..Cardinality(S) : <<L[k], L[l]>> \in R <=> k < l
<1> DEFINE n == Cardinality(S)
<1>1. n \in Nat
  BY RankRange
<1>2. L = [k \in 1..n |-> CHOOSE e \in S : Rank(S, R, e) = k - 1]
  BY DEF Listed, Rank
<1>3. ASSUME NEW k \in 1..n PROVE L[k] \in S /\ Rank(S, R, L[k]) = k - 1
  <2>1. L[k] = CHOOSE e \in S : Rank(S, R, e) = k - 1
    BY <1>2
  <2>2. \E e \in S : Rank(S, R, e) = k - 1
    BY RankRange
  <2>3. QED
    BY <2>1, <2>2
<1>4. L \in [1..n -> S]
  BY <1>2, <1>3
<1>5. ASSUME NEW e \in S PROVE \E k \in 1..n : L[k] = e
  <2>1. PICK k \in 1..n : k = Rank(S, R, e) + 1
    BY RankRange
  <2>2. Rank(S, R, e) \in Int
    BY RankType
  <2>3. Rank(S, R, L[k]) = Rank(S, R, e)
    BY <1>3, <2>1, <2>2
  <2>4. L[k] = e
    BY <1>3, <2>3, RankRange
  <2>5. QED
    BY <2>4
<1>6. ASSUME NEW k \in 1..n, NEW l \in 1..n, L[k] = L[l] PROVE k = l
  <2>1. k - 1 = l - 1
    BY <1>3, <1>6
  <2>2. QED
    BY <2>1
<1>7. ASSUME NEW k \in 1..n, NEW l \in 1..n PROVE <<L[k], L[l]>> \in R <=> k < l
  <2>1. L[k] \in S /\ L[l] \in S /\ Rank(S, R, L[k]) = k - 1 /\ Rank(S, R, L[l]) = l - 1
    BY <1>3
  <2>2. k \in Int /\ l \in Int
    BY <1>1
  <2>3. <<L[k], L[l]>> \in R => k - 1 < l - 1
    BY <2>1, RankGrows
  <2>4. <<L[l], L[k]>> \in R => l - 1 < k - 1
    BY <2>1, RankGrows
  <2>5. L[k] = L[l] => k = l
    BY <1>6
  <2>6. L[k] # L[l] => <<L[k], L[l]>> \in R \/ <<L[l], L[k]>> \in R
    BY <2>1 DEF Orders
  <2>7. QED
    BY <2>2, <2>3, <2>4, <2>5, <2>6
<1>8. QED
  BY <1>1, <1>3, <1>4, <1>5, <1>6, <1>7

\* M runs through S in the order R, the k-th being M[k].
Runs(M, S, R) ==
    /\ IsFiniteSet(S) /\ Cardinality(S) \in Nat
    /\ M \in [1..Cardinality(S) -> S]
    /\ \A e \in S : \E k \in 1..Cardinality(S) : M[k] = e
    /\ \A k, l \in 1..Cardinality(S) : M[k] = M[l] => k = l
    /\ \A k, l \in 1..Cardinality(S) : <<M[k], M[l]>> \in R <=> k < l

\* 1 to n are n numbers.
LEMMA IntervalSize ==
    ASSUME NEW n \in Nat, NEW D, D = 1..n PROVE IsFiniteSet(D) /\ Cardinality(D) = n
BY FS_Interval

\* Evaluating a sequence does not change it.
LEMMA EvaluatedIsIt == ASSUME NEW T, NEW s \in Seq(T) PROVE Evaluated(s) = s
BY DEF Evaluated

\* What is taken through an order of positions, position by position.
LEMMA ThroughPositions ==
    ASSUME NEW T, NEW s \in Seq(T), NEW n \in Nat, NEW M \in [1..n -> DOMAIN s]
    PROVE  /\ Through(s, M) = [k \in 1..n |-> s[M[k]]]
           /\ Through(s, M) \in Seq(T) /\ Len(Through(s, M)) = n
<1> DEFINE r == [k \in 1..n |-> s[M[k]]]
<1>1. \A k \in 1..n : M[k] \in DOMAIN s /\ s[M[k]] \in T
  OBVIOUS
<1>2. r \in [1..n -> T]
  BY <1>1
<1>3. r \in Seq(T) /\ Len(r) = n
  BY <1>2
<1>4. Through(s, M) = Evaluated(r)
  BY DEF Through
<1>5. QED
  BY <1>3, <1>4, EvaluatedIsIt

\* Numbers are ordered.
LEMMA AscendingOrders ==
    ASSUME NEW S \in SUBSET Int PROVE Orders(Ascending(S), S)
BY DEF Orders, Ascending

\* Filtering keeps the order of what it keeps.
LEMMA PickedPositions ==
    ASSUME NEW T, NEW s \in Seq(T), NEW S \in SUBSET DOMAIN s
    PROVE  \E M : /\ Runs(M, S, Ascending(S))
                  /\ \A k, l \in 1..Cardinality(S) : M[k] < M[l] <=> k < l
                  /\ Picked(s, S) = [k \in 1..Cardinality(S) |-> s[M[k]]]
                  /\ Picked(s, S) \in Seq(T) /\ Len(Picked(s, S)) = Cardinality(S)
<1>1. DOMAIN s = 1..Len(s) /\ Len(s) \in Nat
  OBVIOUS
<1>2. IsFiniteSet(DOMAIN s)
  BY <1>1, FS_Interval
<1>3. IsFiniteSet(S)
  BY <1>2, FS_Subset
<1>4. S \in SUBSET Int
  BY <1>1
<1>5. Orders(Ascending(S), S)
  BY <1>4, AscendingOrders
<1>6. PICK M : M = Listed(S, Ascending(S))
  OBVIOUS
<1>7. Runs(M, S, Ascending(S))
  <2>1. /\ Cardinality(S) \in Nat /\ M \in [1..Cardinality(S) -> S]
        /\ \A e \in S : \E k \in 1..Cardinality(S) : M[k] = e
        /\ \A k, l \in 1..Cardinality(S) : M[k] = M[l] => k = l
        /\ \A k, l \in 1..Cardinality(S) : <<M[k], M[l]>> \in Ascending(S) <=> k < l
    BY <1>3, <1>5, <1>6, ListedInOrder
  <2>2. QED
    BY <1>3, <2>1 DEF Runs
<1>8. Picked(s, S) = Through(s, M)
  <2>1. {Through(s, Listed(x, Ascending(x))) : x \in {S}} = {Through(s, M)}
    BY <1>6
  <2>2. Picked(s, S) = CHOOSE r \in {Through(s, M)} : TRUE
    BY <2>1, Zenon DEF Picked, Once
  <2>3. QED
    BY <2>2
<1>9. M \in [1..Cardinality(S) -> DOMAIN s] /\ Cardinality(S) \in Nat
  BY <1>7 DEF Runs
<1>10. \A k, l \in 1..Cardinality(S) : M[k] < M[l] <=> k < l
  <2>1. \A k, l \in 1..Cardinality(S) : M[k] \in S /\ M[l] \in S
    BY <1>7 DEF Runs
  <2>2. QED
    BY <1>7, <2>1 DEF Runs, Ascending
<1>11. QED
  BY <1>7, <1>8, <1>9, <1>10, ThroughPositions

\* Where the keys K are new.
FirstsOf(K) == {i \in DOMAIN K : \A j \in 1..(i - 1) : K[j] # K[i]}

\* M takes r out of s: every key of K is kept, once and in order.
KeptFrom(s, K, r, M) ==
    /\ M \in [DOMAIN r -> DOMAIN s]
    /\ \A k \in DOMAIN r : r[k] = s[M[k]]
    /\ \A k, l \in DOMAIN r : M[k] < M[l] <=> k < l
    /\ \A k, l \in DOMAIN r : K[M[k]] = K[M[l]] => k = l
    /\ \A i \in DOMAIN s : \E k \in DOMAIN r : K[M[k]] = K[i] /\ M[k] <= i

\* Keeping the first element of each key keeps every key, once.
LEMMA KeptKeys ==
    ASSUME NEW T, NEW s \in Seq(T), NEW K, DOMAIN K = DOMAIN s,
           NEW r, r = Picked(s, FirstsOf(K))
    PROVE  r \in Seq(T) /\ \E M : KeptFrom(s, K, r, M)
<1>0. PICK S : S = FirstsOf(K) /\ S = {i \in DOMAIN s : \A j \in 1..(i - 1) : K[j] # K[i]}
  BY DEF FirstsOf
<1>1. DOMAIN s = 1..Len(s) /\ Len(s) \in Nat /\ S \in SUBSET DOMAIN s
  BY <1>0
<1>2. PICK M : /\ Runs(M, S, Ascending(S))
               /\ \A k, l \in 1..Cardinality(S) : M[k] < M[l] <=> k < l
               /\ Picked(s, S) = [k \in 1..Cardinality(S) |-> s[M[k]]]
               /\ Picked(s, S) \in Seq(T) /\ Len(Picked(s, S)) = Cardinality(S)
  BY <1>1, PickedPositions
<1>3. /\ DOMAIN Picked(s, S) = 1..Cardinality(S) /\ Cardinality(S) \in Nat
      /\ M \in [1..Cardinality(S) -> S]
      /\ \A i \in S : \E k \in 1..Cardinality(S) : M[k] = i
      /\ \A k, l \in 1..Cardinality(S) : M[k] = M[l] => k = l
  BY <1>2 DEF Runs
<1>4. \A i, j \in S : K[i] = K[j] => i = j
  <2>1. ASSUME NEW i \in S, NEW j \in S, K[i] = K[j] PROVE ~(i < j)
    BY <1>0, <1>1, <2>1
  <2>2. \A i, j \in S : i \in Int /\ j \in Int
    BY <1>1
  <2>3. QED
    BY <2>1, <2>2
<1>5. ASSUME NEW i \in DOMAIN s PROVE \E f \in S : K[f] = K[i] /\ f <= i
  <2> DEFINE C == {j \in DOMAIN s : K[j] = K[i]}
  <2>1. i \in C /\ C \in SUBSET Nat
    BY <1>1
  <2>2. PICK f \in C : \A j \in C : f <= j
    BY <2>1, LeastNumber
  <2>3. f \in S
    BY <1>0, <1>1, <2>2
  <2>4. QED
    BY <2>1, <2>2, <2>3
<1>6. ASSUME NEW i \in DOMAIN s
      PROVE  \E k \in 1..Cardinality(S) : K[M[k]] = K[i] /\ M[k] <= i
  <2>1. PICK f \in S : K[f] = K[i] /\ f <= i
    BY <1>5
  <2>2. PICK k \in 1..Cardinality(S) : M[k] = f
    BY <1>3, <2>1
  <2>3. QED
    BY <2>1, <2>2
<1>7. ASSUME NEW k \in 1..Cardinality(S), NEW l \in 1..Cardinality(S), K[M[k]] = K[M[l]]
      PROVE  k = l
  <2>1. M[k] \in S /\ M[l] \in S
    BY <1>3
  <2>2. M[k] = M[l]
    BY <1>4, <1>7, <2>1
  <2>3. QED
    BY <1>3, <2>2
<1>8. M \in [1..Cardinality(S) -> DOMAIN s]
  BY <1>1, <1>3
<1>9. r = Picked(s, S)
  BY <1>0
<1>10. KeptFrom(s, K, r, M)
  <2>1. DOMAIN r = 1..Cardinality(S) /\ \A k \in DOMAIN r : r[k] = s[M[k]]
    BY <1>2, <1>3, <1>9
  <2>2. QED
    BY <1>2, <1>6, <1>7, <1>8, <2>1 DEF KeptFrom
<1>11. QED
  BY <1>2, <1>9, <1>10

\* Sorting moves the elements and loses none.
LEMMA SortedPositions ==
    ASSUME NEW T, NEW s \in Seq(T), NEW R, Orders(R, DOMAIN s),
           NEW M, M = Listed(DOMAIN s, R)
    PROVE  /\ Runs(M, DOMAIN s, R) /\ M \in [DOMAIN s -> DOMAIN s]
           /\ \A i \in DOMAIN s : \E k \in DOMAIN s : M[k] = i
           /\ \A k, l \in DOMAIN s : M[k] = M[l] => k = l
           /\ \A k \in DOMAIN s : Rank(DOMAIN s, R, M[k]) = k - 1
           /\ Through(s, M) = [k \in DOMAIN s |-> s[M[k]]]
           /\ Through(s, M) \in Seq(T) /\ Len(Through(s, M)) = Len(s)
<1>1. DOMAIN s = 1..Len(s) /\ Len(s) \in Nat
  OBVIOUS
<1>2. IsFiniteSet(DOMAIN s) /\ Cardinality(DOMAIN s) = Len(s)
  BY <1>1, FS_Interval
<1>3. PICK D : D = DOMAIN s
  OBVIOUS
<1>4. IsFiniteSet(D) /\ Orders(R, D) /\ M = Listed(D, R) /\ Cardinality(D) = Len(s)
      /\ D = 1..Cardinality(D)
  BY <1>1, <1>2, <1>3
<1>5. /\ Cardinality(D) \in Nat /\ M \in [1..Cardinality(D) -> D]
      /\ \A k \in 1..Cardinality(D) : Rank(D, R, M[k]) = k - 1
      /\ \A e \in D : \E k \in 1..Cardinality(D) : M[k] = e
      /\ \A k, l \in 1..Cardinality(D) : M[k] = M[l] => k = l
      /\ \A k, l \in 1..Cardinality(D) : <<M[k], M[l]>> \in R <=> k < l
  BY <1>4, ListedInOrder
<1>6. Runs(M, D, R)
  BY <1>4, <1>5 DEF Runs
<1>7. /\ M \in [D -> D]
      /\ \A k \in D : Rank(D, R, M[k]) = k - 1
      /\ \A e \in D : \E k \in D : M[k] = e
      /\ \A k, l \in D : M[k] = M[l] => k = l
  BY <1>4, <1>5
<1>8. /\ Through(s, M) = [k \in 1..Len(s) |-> s[M[k]]]
      /\ Through(s, M) \in Seq(T) /\ Len(Through(s, M)) = Len(s)
  <2>1. PICK n \in Nat : n = Len(s)
    OBVIOUS
  <2>2. M \in [1..n -> DOMAIN s]
    BY <1>1, <1>3, <1>7, <2>1
  <2>3. /\ Through(s, M) = [k \in 1..n |-> s[M[k]]]
        /\ Through(s, M) \in Seq(T) /\ Len(Through(s, M)) = n
    BY <2>2, ThroughPositions
  <2>4. QED
    BY <2>1, <2>3
<1>9. QED
  BY <1>1, <1>3, <1>6, <1>7, <1>8

\* P maps S, ordered by R, onto T, ordered by Q.
KeepsOrder(P, S, R, T, Q) ==
    /\ P \in [S -> T]
    /\ \A t \in T : \E e \in S : P[e] = t
    /\ \A d, e \in S : P[d] = P[e] => d = e
    /\ \A d, e \in S : <<P[d], P[e]>> \in Q <=> <<d, e>> \in R

\* A map that keeps the order keeps the ranks.
LEMMA RanksMoved ==
    ASSUME NEW S, IsFiniteSet(S), NEW R, NEW T, NEW Q, NEW P, KeepsOrder(P, S, R, T, Q)
    PROVE  /\ IsFiniteSet(T) /\ Cardinality(T) = Cardinality(S)
           /\ \A e \in S : Rank(T, Q, P[e]) = Rank(S, R, e)
<1> USE DEF KeepsOrder
<1>1. IsFiniteSet(T) /\ Cardinality(T) = Cardinality(S)
  <2>1. P \in Bijection(S, T)
    BY DEF Bijection, Injection, Surjection, IsInjective
  <2>2. QED
    BY <2>1, FS_Bijection DEF ExistsBijection
<1>2. ASSUME NEW e \in S PROVE Rank(T, Q, P[e]) = Rank(S, R, e)
  <2> DEFINE D == {d \in S : <<d, e>> \in R}
             C == {t \in T : <<t, P[e]>> \in Q}
             g == [d \in D |-> P[d]]
  <2>1. IsFiniteSet(D)
    BY FS_Subset
  <2>2. g \in [D -> C]
    OBVIOUS
  <2>3. \A t \in C : \E d \in D : g[d] = t
    OBVIOUS
  <2>4. \A c, d \in D : g[c] = g[d] => c = d
    OBVIOUS
  <2>5. g \in Bijection(D, C)
    BY <2>2, <2>3, <2>4 DEF Bijection, Injection, Surjection, IsInjective
  <2>6. Cardinality(C) = Cardinality(D)
    BY <2>1, <2>5, FS_Bijection DEF ExistsBijection
  <2>7. QED
    BY <2>6 DEF Rank
<1>3. QED
  BY <1>1, <1>2

\* n sequences over T, and the sequence of the elements of all of them.
Parts(ss, n, T) == n \in Nat /\ DOMAIN ss = 1..n /\ \A i \in 1..n : ss[i] \in Seq(T)

ElementsOf(ss, all) ==
    /\ \A k \in DOMAIN all : \E i \in DOMAIN ss : \E j \in DOMAIN ss[i] : all[k] = ss[i][j]
    /\ \A i \in DOMAIN ss : \A j \in DOMAIN ss[i] : \E k \in DOMAIN all : all[k] = ss[i][j]

\* Flattening loses nothing and makes nothing up.
LEMMA FlattenedPlaces ==
    ASSUME NEW T, NEW ss, NEW n, Parts(ss, n, T), NEW all, all = Flattened(ss)
    PROVE  all \in Seq(T) /\ ElementsOf(ss, all)
<1>0. n \in Nat /\ DOMAIN ss = 1..n /\ \A i \in 1..n : ss[i] \in Seq(T)
  BY DEF Parts
<1> DEFINE P == PlacesIn(ss)
<1>1. P = {e \in Nat \X Nat : e[1] \in 1..n /\ e[2] \in DOMAIN ss[e[1]]}
  <2>1. \A i \in 1..n : DOMAIN ss[i] \in SUBSET Nat
    <3>1. ASSUME NEW i \in 1..n PROVE DOMAIN ss[i] \in SUBSET Nat
      <4>1. PICK s \in Seq(T) : s = ss[i]
        BY <1>0
      <4>2. DOMAIN s \in SUBSET Nat
        OBVIOUS
      <4>3. QED
        BY <4>1, <4>2
    <3>2. QED
      BY <3>1
  <2>2. QED
    BY <1>0, <2>1 DEF PlacesIn
<1>2. IsFiniteSet(P)
  <2>1. \A i \in 1..n : IsFiniteSet({i} \X (DOMAIN ss[i]))
    <3>1. ASSUME NEW i \in 1..n PROVE IsFiniteSet({i} \X (DOMAIN ss[i]))
      <4>1. PICK s \in Seq(T) : s = ss[i]
        BY <1>0
      <4>2. DOMAIN s = 1..Len(s) /\ Len(s) \in Nat
        OBVIOUS
      <4>3. IsFiniteSet(DOMAIN s)
        BY <4>2, FS_Interval
      <4>5. IsFiniteSet({i})
        BY FS_Singleton
      <4>4. QED
        BY <4>1, <4>3, <4>5, FS_Product
    <3>2. QED
      BY <3>1
  <2>2. IsFiniteSet(1..n)
    BY <1>0, FS_Interval
  <2>3. PICK g : g = [i \in 1..n |-> {i} \X (DOMAIN ss[i])]
    OBVIOUS
  <2>4. IsFiniteSet({g[i] : i \in 1..n})
    <3> DEFINE G == {g[i] : i \in 1..n}
    <3>1. g \in Surjection(1..n, G)
      BY <2>3 DEF Surjection
    <3>2. QED
      BY <2>2, <3>1, FS_Surjection
  <2>5. {g[i] : i \in 1..n} = {{i} \X (DOMAIN ss[i]) : i \in DOMAIN ss}
    BY <1>0, <2>3
  <2>6. QED
    BY <1>0, <2>1, <2>4, <2>5, FS_UNION DEF PlacesIn
<1>3. Orders(InTurn(P), P)
  <2>1. \A d, e \in P : <<d, e>> \in InTurn(P) <=>
             (d[1] < e[1] \/ (d[1] = e[1] /\ d[2] < e[2]))
    BY DEF InTurn
  <2>2. \A e \in P : e[1] \in Nat /\ e[2] \in Nat /\ e = <<e[1], e[2]>>
    BY <1>1
  <2>3. \A e \in P : <<e, e>> \notin InTurn(P)
    BY <2>1, <2>2
  <2>4. \A d, e \in P : d # e => <<d, e>> \in InTurn(P) \/ <<e, d>> \in InTurn(P)
    BY <2>1, <2>2
  <2>5. \A c, d, e \in P : <<c, d>> \in InTurn(P) /\ <<d, e>> \in InTurn(P)
                            => <<c, e>> \in InTurn(P)
    BY <2>1, <2>2
  <2>6. QED
    BY <2>3, <2>4, <2>5 DEF Orders
<1>4. PICK M, m : M = Listed(P, InTurn(P)) /\ m = Cardinality(P)
  OBVIOUS
<1>5. m \in Nat /\ M \in [1..m -> P] /\ \A e \in P : \E k \in 1..m : M[k] = e
  BY <1>2, <1>3, <1>4, ListedInOrder
<1> DEFINE r == [k \in 1..m |-> ss[M[k][1]][M[k][2]]]
<1>6. ASSUME NEW e \in P
      PROVE  e[1] \in 1..n /\ e[2] \in DOMAIN ss[e[1]] /\ ss[e[1]][e[2]] \in T
  <2>1. e[1] \in 1..n /\ e[2] \in DOMAIN ss[e[1]] /\ ss[e[1]] \in Seq(T)
    BY <1>0, <1>1
  <2>2. PICK s \in Seq(T) : s = ss[e[1]]
    BY <2>1
  <2>3. QED
    BY <2>1, <2>2
<1>7. r \in [1..m -> T]
  BY <1>5, <1>6
<1>8. r \in Seq(T)
  BY <1>5, <1>7
<1>9. Flattened(ss) = r
  <2>1. Flattened(ss) = Evaluated(r)
    BY <1>4, <1>5 DEF Flattened
  <2>2. QED
    BY <1>8, <2>1, EvaluatedIsIt
<1>10. \A k \in 1..m : \E i \in 1..n : \E j \in DOMAIN ss[i] : r[k] = ss[i][j]
  BY <1>5, <1>6
<1>11. ASSUME NEW i \in 1..n, NEW j \in DOMAIN ss[i]
       PROVE  \E k \in 1..m : r[k] = ss[i][j]
  <2>1. <<i, j>> \in P
    BY <1>0 DEF PlacesIn
  <2>2. PICK k \in 1..m : M[k] = <<i, j>>
    BY <1>5, <2>1
  <2>3. r[k] = ss[i][j]
    BY <2>2
  <2>4. QED
    BY <2>3
<1>12. DOMAIN r = 1..m
  OBVIOUS
<1> HIDE DEF r
<1>13. all = r /\ DOMAIN all = 1..m /\ DOMAIN ss = 1..n
  BY <1>0, <1>9, <1>12
<1>14. \A k \in DOMAIN all : \E i \in DOMAIN ss : \E j \in DOMAIN ss[i] : all[k] = ss[i][j]
  BY <1>10, <1>13
<1>15. \A i \in DOMAIN ss : \A j \in DOMAIN ss[i] : \E k \in DOMAIN all : all[k] = ss[i][j]
  BY <1>11, <1>13
<1>16. QED
  BY <1>8, <1>13, <1>14, <1>15 DEF ElementsOf

-----------------------------------------------------------------------------
\* Positions in a text are counted by finite sets.
LEMMA PlaceTypes ==
    ASSUME NEW t \in Seq(Lexeme), NEW p \in DOMAIN t
    PROVE  /\ IsFiniteSet(Newlines(t, p)) /\ IsFiniteSet(LineSoFar(t, p))
           /\ line_for_offset(t, p) \in 1..p /\ column_for_offset(t, p) \in 1..p
<1>1. p \in Nat /\ p >= 1 /\ p - 1 \in Int
  OBVIOUS
<1>2. IsFiniteSet(1..(p - 1)) /\ Cardinality(1..(p - 1)) = p - 1
  BY <1>1, FS_Interval
<1>3. ASSUME NEW S \in SUBSET (1..(p - 1))
      PROVE  IsFiniteSet(S) /\ Cardinality(S) \in Nat /\ Cardinality(S) <= p - 1
  BY <1>2, FS_Subset, FS_CardinalityType
<1>4. Newlines(t, p) \in SUBSET (1..(p - 1)) /\ LineSoFar(t, p) \in SUBSET (1..(p - 1))
  BY DEF Newlines, LineSoFar
<1>5. QED
  BY <1>1, <1>3, <1>4 DEF line_for_offset, column_for_offset

\* The line of an offset begins behind the last newline before it.
LEMMA LineStartIs ==
    ASSUME NEW t \in Seq(Lexeme), NEW p \in DOMAIN t
    PROVE  /\ LineStart(t, p) \in 1..p
           /\ LineStart(t, p) = 1 \/ t[LineStart(t, p) - 1] = "newline"
           /\ \A q \in LineStart(t, p)..(p - 1) : t[q] # "newline"
<1> DEFINE starts == {s \in 1..p : s = 1 \/ t[s - 1] = "newline"}
<1>1. p \in Nat /\ p >= 1
  OBVIOUS
<1>2. PICK s \in starts : \A q \in starts : s >= q
  <2>1. starts \in SUBSET (1..p) /\ 1 \in starts
    BY <1>1
  <2> HIDE DEF starts
  <2>2. QED
    BY <1>1, <2>1, GreatestNumber
<1>3. ASSUME NEW q \in s..(p - 1) PROVE t[q] # "newline"
  <2>1. SUFFICES ASSUME t[q] = "newline" PROVE FALSE
    OBVIOUS
  <2>2. q + 1 \in 1..p /\ (q + 1) - 1 = q
    BY <1>1, <1>2
  <2>3. q + 1 \in starts
    BY <2>1, <2>2
  <2>4. QED
    BY <1>1, <1>2, <2>3
<1>4. /\ s \in 1..p /\ (s = 1 \/ t[s - 1] = "newline")
      /\ \A q \in s..(p - 1) : t[q] # "newline"
  BY <1>2, <1>3
<1>5. QED
  BY <1>4 DEF LineStart

\* A match is skipped for a comment where one begins its line.
LEMMA CommentOfTheLine ==
    ASSUME NEW t \in Seq(Lexeme), NEW p \in DOMAIN t, t[p] \in Matched
    PROVE  is_comment_only_line(t, p) <=>
             \E q \in 1..(p - 1) :
                /\ t[q] = "remark"
                /\ \A b \in 1..(q - 1) : t[b] = "blank" \/ \E n \in b..q : t[n] = "newline"
                /\ \A n \in q..p : t[n] # "newline"
<1>1. PICK s : s = LineStart(t, p)
  OBVIOUS
<1>2. /\ s \in 1..p /\ (s = 1 \/ t[s - 1] = "newline")
      /\ \A q \in s..(p - 1) : t[q] # "newline"
  BY <1>1, LineStartIs
<1>3. p \in Nat /\ p >= 1 /\ t[p] # "remark" /\ t[p] # "newline"
  BY DEF Matched
<1>4. is_comment_only_line(t, p) <=>
        \E q \in s..p : t[q] = "remark" /\ \A b \in s..(q - 1) : t[b] = "blank"
  BY <1>1 DEF is_comment_only_line
<1>5. ASSUME NEW q \in s..p, t[q] = "remark", \A b \in s..(q - 1) : t[b] = "blank"
      PROVE  /\ q \in 1..(p - 1)
             /\ \A b \in 1..(q - 1) : t[b] = "blank" \/ \E n \in b..q : t[n] = "newline"
             /\ \A n \in q..p : t[n] # "newline"
  <2>1. q \in 1..(p - 1)
    BY <1>2, <1>3, <1>5
  <2>2. ASSUME NEW b \in 1..(q - 1), t[b] # "blank" PROVE \E n \in b..q : t[n] = "newline"
    <3>1. b < s
      BY <1>2, <1>5, <2>2
    <3>2. s - 1 \in b..q /\ t[s - 1] = "newline"
      BY <1>2, <1>3, <2>1, <3>1
    <3>3. QED
      BY <3>2
  <2>3. ASSUME NEW n \in q..p PROVE t[n] # "newline"
    <3>1. n = p \/ n \in s..(p - 1)
      BY <1>2, <1>3
    <3>2. QED
      BY <1>2, <1>3, <3>1
  <2>4. QED
    BY <2>1, <2>2, <2>3
<1>6. ASSUME NEW q \in 1..(p - 1), t[q] = "remark",
             \A b \in 1..(q - 1) : t[b] = "blank" \/ \E n \in b..q : t[n] = "newline",
             \A n \in q..p : t[n] # "newline"
      PROVE  q \in s..p /\ \A b \in s..(q - 1) : t[b] = "blank"
  <2>1. s <= q
    <3>1. SUFFICES ASSUME s > q PROVE FALSE
      BY <1>2, <1>3
    <3>2. s - 1 \in q..p /\ t[s - 1] = "newline"
      BY <1>2, <1>3, <3>1
    <3>3. QED
      BY <1>6, <3>2
  <2>2. ASSUME NEW b \in s..(q - 1) PROVE t[b] = "blank"
    <3>1. b \in 1..(q - 1)
      BY <1>2
    <3>2. \A n \in b..q : n \in s..(p - 1)
      BY <1>2, <1>3
    <3>3. QED
      BY <1>2, <1>6, <3>1, <3>2
  <2>3. QED
    BY <1>2, <1>3, <2>1, <2>2
<1>7. QED
  BY <1>4, <1>5, <1>6

\* Of two offsets the later is on a later line, or further right on the same.
LEMMA PlacesInOrder ==
    ASSUME NEW t \in Seq(Lexeme), NEW p \in DOMAIN t, NEW q \in DOMAIN t, p < q
    PROVE  \/ line_for_offset(t, p) < line_for_offset(t, q)
           \/ /\ line_for_offset(t, p) = line_for_offset(t, q)
              /\ column_for_offset(t, p) < column_for_offset(t, q)
<1>1. p \in Nat /\ q \in Nat /\ p >= 1
  OBVIOUS
<1>2. /\ IsFiniteSet(Newlines(t, p)) /\ IsFiniteSet(Newlines(t, q))
      /\ IsFiniteSet(LineSoFar(t, p)) /\ IsFiniteSet(LineSoFar(t, q))
  BY PlaceTypes
<1>3. /\ Cardinality(Newlines(t, p)) \in Nat /\ Cardinality(Newlines(t, q)) \in Nat
      /\ Cardinality(LineSoFar(t, p)) \in Nat /\ Cardinality(LineSoFar(t, q)) \in Nat
  BY <1>2, FS_CardinalityType
<1>4. Newlines(t, p) \subseteq Newlines(t, q)
  BY <1>1 DEF Newlines
<1>5. Cardinality(Newlines(t, p)) <= Cardinality(Newlines(t, q))
  BY <1>2, <1>4, FS_Subset
<1>6. CASE Cardinality(Newlines(t, p)) = Cardinality(Newlines(t, q))
  <2>1. Newlines(t, p) = Newlines(t, q)
    BY <1>2, <1>4, <1>6, FS_Subset
  <2>2. \A n \in p..(q - 1) : t[n] # "newline"
    BY <1>1, <2>1 DEF Newlines
  <2>3. LineSoFar(t, p) \subseteq LineSoFar(t, q)
    BY <1>1, <2>2 DEF LineSoFar
  <2>4. p \in LineSoFar(t, q) /\ p \notin LineSoFar(t, p)
    BY <1>1, <2>2 DEF LineSoFar
  <2>5. Cardinality(LineSoFar(t, p)) <= Cardinality(LineSoFar(t, q))
    BY <1>2, <2>3, FS_Subset
  <2>6. Cardinality(LineSoFar(t, p)) # Cardinality(LineSoFar(t, q))
    BY <1>2, <2>3, <2>4, FS_Subset
  <2>7. QED
    BY <1>3, <1>6, <2>5, <2>6 DEF line_for_offset, column_for_offset
<1>7. CASE Cardinality(Newlines(t, p)) # Cardinality(Newlines(t, q))
  BY <1>3, <1>5, <1>7 DEF line_for_offset
<1>8. QED
  BY <1>6, <1>7

\* Along a line there are more and more bytes before an offset.
LEMMA ExtraBytesGrow ==
    ASSUME NEW t \in Seq(Lexeme), NEW p \in DOMAIN t, NEW q \in DOMAIN t, p <= q,
           line_for_offset(t, p) = line_for_offset(t, q)
    PROVE  /\ ExtraBytes(t, p) \in Nat /\ ExtraBytes(t, q) \in Nat
           /\ ExtraBytes(t, p) <= ExtraBytes(t, q)
<1> DEFINE W(x) == {b \in LineSoFar(t, x) : t[b] = "wide"}
<1>1. p \in Nat /\ q \in Nat /\ p >= 1
  OBVIOUS
<1>2. /\ IsFiniteSet(Newlines(t, p)) /\ IsFiniteSet(Newlines(t, q))
      /\ IsFiniteSet(LineSoFar(t, p)) /\ IsFiniteSet(LineSoFar(t, q))
  BY PlaceTypes
<1>3. /\ Cardinality(Newlines(t, p)) \in Nat /\ Cardinality(Newlines(t, q)) \in Nat
  BY <1>2, FS_CardinalityType
<1>4. Newlines(t, p) \subseteq Newlines(t, q)
  BY <1>1 DEF Newlines
<1>5. Cardinality(Newlines(t, p)) = Cardinality(Newlines(t, q))
  BY <1>3 DEF line_for_offset
<1>6. Newlines(t, p) = Newlines(t, q)
  BY <1>2, <1>4, <1>5, FS_Subset
<1>7. \A n \in p..(q - 1) : t[n] # "newline"
  BY <1>1, <1>6 DEF Newlines
<1>8. LineSoFar(t, p) \subseteq LineSoFar(t, q)
  BY <1>1, <1>7 DEF LineSoFar
<1>9. W(p) \subseteq W(q) /\ W(q) \subseteq LineSoFar(t, q)
  BY <1>8
<1>10. IsFiniteSet(W(q))
  BY <1>2, <1>9, FS_Subset
<1>11. IsFiniteSet(W(p)) /\ Cardinality(W(p)) <= Cardinality(W(q))
  BY <1>9, <1>10, FS_Subset
<1>12. Cardinality(W(p)) \in Nat /\ Cardinality(W(q)) \in Nat
  BY <1>10, <1>11, FS_CardinalityType
<1>13. ExtraBytes(t, p) = Cardinality(W(p)) /\ ExtraBytes(t, q) = Cardinality(W(q))
  BY <1>12 DEF ExtraBytes, WideBytes
<1>14. QED
  BY <1>11, <1>12, <1>13

\* The first byte of a character is not counted twice.
LEMMA ExtraBytesType ==
    ASSUME NEW t \in Seq(Lexeme), NEW p \in DOMAIN t
    PROVE  ExtraBytes(t, p) \in Nat
BY ExtraBytesGrow

\* Matches are offsets, and finitely many.
LEMMA FoundTypes ==
    ASSUME NEW t \in Seq(Lexeme), NEW w
    PROVE  /\ Found(t, w) \subseteq Nat \ {0} /\ Found(t, w) \subseteq DOMAIN t
           /\ \A S \in SUBSET Found(t, w) : IsFiniteSet(S) /\ Cardinality(S) \in Nat
<1>1. DOMAIN t = 1..Len(t) /\ Len(t) \in Nat /\ Found(t, w) \subseteq DOMAIN t
  BY DEF Found
<1>2. IsFiniteSet(DOMAIN t)
  BY <1>1, FS_Interval
<1>3. QED
  BY <1>1, <1>2, FS_Subset, FS_CardinalityType

\* Moving a set of numbers changes none of their number.
LEMMA Moved ==
    ASSUME NEW S \in SUBSET Int, IsFiniteSet(S), NEW c \in Int
    PROVE  /\ IsFiniteSet({i + c : i \in S})
           /\ Cardinality({i + c : i \in S}) = Cardinality(S)
<1> DEFINE T == {i + c : i \in S}
<1>1. PICK g : g = [i \in S |-> i + c]
  OBVIOUS
<1>2. g \in [S -> T]
  BY <1>1
<1>3. ASSUME NEW i \in S, NEW j \in S, g[i] = g[j] PROVE i = j
  <2>1. i \in Int /\ j \in Int /\ i + c = j + c
    BY <1>1, <1>3
  <2>2. QED
    BY <2>1
<1>4. g \in Injection(S, T)
  BY <1>2, <1>3 DEF Injection, IsInjective
<1>5. g \in Surjection(S, T)
  BY <1>1, <1>2 DEF Surjection
<1>6. QED
  BY <1>4, <1>5, FS_Bijection DEF ExistsBijection, Bijection

\* The place in the text of an offset in a part of it that begins at `first`: on
\* the line of `first` the columns add up, below it they are those of the part.
LEMMA PlaceWithin ==
    ASSUME NEW t \in Seq(Lexeme), NEW w \in Seq(Lexeme), NEW first \in DOMAIN t,
           first + Len(w) - 1 <= Len(t),
           \A i \in DOMAIN w : w[i] = t[first + i - 1],
           NEW at \in DOMAIN w
    PROVE  /\ first + at - 1 \in DOMAIN t
           /\ line_for_offset(t, first + at - 1)
                = line_for_offset(t, first) + line_for_offset(w, at) - 1
           /\ column_for_offset(t, first + at - 1)
                = IF line_for_offset(w, at) = 1
                  THEN column_for_offset(t, first) + column_for_offset(w, at) - 1
                  ELSE column_for_offset(w, at)
<1>1. PICK p, c : p = first + at - 1 /\ c = first - 1
  OBVIOUS
<1>2. /\ DOMAIN t = 1..Len(t) /\ DOMAIN w = 1..Len(w) /\ Len(t) \in Nat /\ Len(w) \in Nat
      /\ first \in Nat /\ at \in Nat /\ p \in Nat /\ c \in Nat /\ p \in DOMAIN t
      /\ first >= 1 /\ at >= 1 /\ p = c + at /\ first = c + 1 /\ at <= Len(w)
  <2>1. /\ DOMAIN t = 1..Len(t) /\ DOMAIN w = 1..Len(w) /\ Len(t) \in Nat /\ Len(w) \in Nat
    OBVIOUS
  <2>2. /\ first \in Nat /\ at \in Nat /\ first >= 1 /\ at >= 1 /\ at <= Len(w)
    BY <2>1
  <2>3. p \in Nat /\ c \in Nat /\ p = c + at /\ first = c + 1
    BY <1>1, <2>2
  <2>4. p >= 1 /\ p <= Len(t)
    BY <1>1, <2>1, <2>2
  <2>5. QED
    BY <2>1, <2>2, <2>3, <2>4
<1>3. ASSUME NEW i \in 1..at PROVE w[i] = t[i + c]
  <2>1. i \in DOMAIN w /\ first + i - 1 = i + c
    BY <1>2
  <2>2. w[i] = t[first + i - 1]
    BY <2>1
  <2>3. QED
    BY <2>1, <2>2
<1>4. /\ IsFiniteSet(Newlines(t, first)) /\ IsFiniteSet(LineSoFar(t, first))
      /\ IsFiniteSet(Newlines(w, at)) /\ IsFiniteSet(LineSoFar(w, at))
  BY PlaceTypes
<1>5. Newlines(w, at) \in SUBSET Int /\ LineSoFar(w, at) \in SUBSET Int
  BY DEF Newlines, LineSoFar
<1> DEFINE S == {i + c : i \in Newlines(w, at)}
           B == {i + c : i \in LineSoFar(w, at)}
<1>6. /\ IsFiniteSet(S) /\ Cardinality(S) = Cardinality(Newlines(w, at))
      /\ IsFiniteSet(B) /\ Cardinality(B) = Cardinality(LineSoFar(w, at))
  <2>1. c \in Int
    BY <1>2
  <2>2. IsFiniteSet(S) /\ Cardinality(S) = Cardinality(Newlines(w, at))
    BY <1>4, <1>5, <2>1, Moved
  <2>3. IsFiniteSet(B) /\ Cardinality(B) = Cardinality(LineSoFar(w, at))
    BY <1>4, <1>5, <2>1, Moved
  <2>4. QED
    BY <2>2, <2>3
<1>7. ASSUME NEW b \in Int PROVE b \in first..(p - 1) <=> b - c \in 1..(at - 1) /\ b = (b - c) + c
  BY <1>2
<1>8. Newlines(t, p) = Newlines(t, first) \cup S
  <2>1. ASSUME NEW b \in Newlines(t, p) PROVE b \in Newlines(t, first) \cup S
    <3>1. b \in Int /\ b \in 1..(p - 1) /\ t[b] = "newline"
      BY DEF Newlines
    <3>2. CASE b < first
      BY <1>2, <3>1, <3>2 DEF Newlines
    <3>3. CASE b >= first
      <4>1. b - c \in 1..(at - 1) /\ b = (b - c) + c
        BY <1>2, <3>1, <3>3
      <4>2. b - c \in Newlines(w, at)
        <5>1. PICK i : i = b - c
          OBVIOUS
        <5>2. i \in 1..at /\ i \in 1..(at - 1) /\ i + c = b
          BY <1>2, <4>1, <5>1
        <5>3. w[i] = "newline"
          BY <1>3, <3>1, <5>2
        <5>4. QED
          BY <5>1, <5>2, <5>3 DEF Newlines
      <4>3. QED
        BY <4>1, <4>2
    <3>4. QED
      BY <1>2, <3>1, <3>2, <3>3
  <2>2. Newlines(t, first) \subseteq Newlines(t, p)
    BY <1>2 DEF Newlines
  <2>3. ASSUME NEW i \in Newlines(w, at) PROVE i + c \in Newlines(t, p)
    BY <1>2, <1>3 DEF Newlines
  <2>4. QED
    BY <2>1, <2>2, <2>3
<1>9. Newlines(t, first) \cap S = {}
  BY <1>2 DEF Newlines
<1>10. Cardinality(Newlines(t, p)) = Cardinality(Newlines(t, first)) + Cardinality(Newlines(w, at))
  <2>1. Cardinality(Newlines(t, first) \cap S) = 0
    BY <1>9, FS_EmptySet
  <2>2. /\ Cardinality(Newlines(t, first)) \in Nat /\ Cardinality(S) \in Nat
    BY <1>4, <1>6, FS_CardinalityType
  <2>3. Cardinality(Newlines(t, first) \cup S)
          = Cardinality(Newlines(t, first)) + Cardinality(S)
              - Cardinality(Newlines(t, first) \cap S)
    BY <1>4, <1>6, FS_Union
  <2>4. Cardinality(Newlines(t, p)) = Cardinality(Newlines(t, first)) + Cardinality(S) - 0
    BY <1>8, <2>1, <2>3
  <2>5. QED
    BY <1>6, <2>2, <2>4
<1>11. /\ Cardinality(Newlines(t, first)) \in Nat /\ Cardinality(Newlines(w, at)) \in Nat
       /\ Cardinality(LineSoFar(t, first)) \in Nat /\ Cardinality(LineSoFar(w, at)) \in Nat
  BY <1>4, FS_CardinalityType
<1>12. ASSUME line_for_offset(w, at) = 1
       PROVE  column_for_offset(t, p) = column_for_offset(t, first) + column_for_offset(w, at) - 1
  <2>1. Newlines(w, at) = {}
    BY <1>4, <1>11, <1>12, FS_EmptySet DEF line_for_offset
  <2>2. LineSoFar(w, at) = 1..(at - 1)
    BY <1>2, <2>1 DEF LineSoFar, Newlines
  <2>3. \A q \in first..(p - 1) : t[q] # "newline"
    <3>1. ASSUME NEW q \in first..(p - 1) PROVE t[q] # "newline"
      <4>1. q - c \in 1..(at - 1) /\ (q - c) + c = q
        BY <1>2
      <4>2. PICK i \in 1..(at - 1) : i + c = q
        BY <4>1
      <4>3. i \in 1..at /\ i \notin Newlines(w, at)
        BY <1>2, <2>1
      <4>4. w[i] = t[q] /\ w[i] # "newline"
        BY <1>3, <4>2, <4>3 DEF Newlines
      <4>5. QED
        BY <4>4
    <3>2. QED
      BY <3>1
  <2>4. LineSoFar(t, p) = LineSoFar(t, first) \cup B
    <3>1. ASSUME NEW b \in LineSoFar(t, p) PROVE b \in LineSoFar(t, first) \cup B
      <4>1. b \in Int /\ b \in 1..(p - 1) /\ \A q \in b..(p - 1) : t[q] # "newline"
        BY DEF LineSoFar
      <4>2. CASE b < first
        <5>1. \A q \in b..(first - 1) : q \in b..(p - 1)
          BY <1>2
        <5>2. b \in 1..(first - 1)
          BY <1>2, <4>1, <4>2
        <5>3. QED
          BY <4>1, <5>1, <5>2 DEF LineSoFar
      <4>3. CASE b >= first
        <5>1. b - c \in 1..(at - 1) /\ b = (b - c) + c
          BY <1>2, <4>1, <4>3
        <5>2. QED
          BY <2>2, <5>1
      <4>4. QED
        BY <1>2, <4>1, <4>2, <4>3
    <3>2. ASSUME NEW b \in LineSoFar(t, first) PROVE b \in LineSoFar(t, p)
      <4>1. b \in Int /\ b \in 1..(first - 1) /\ \A q \in b..(first - 1) : t[q] # "newline"
        BY DEF LineSoFar
      <4>2. b \in 1..(p - 1)
        BY <1>2, <4>1
      <4>3. \A q \in b..(p - 1) : q \in b..(first - 1) \/ q \in first..(p - 1)
        BY <1>2, <4>1
      <4>4. QED
        BY <2>3, <4>1, <4>2, <4>3 DEF LineSoFar
    <3>3. ASSUME NEW i \in LineSoFar(w, at) PROVE i + c \in LineSoFar(t, p)
      <4>1. i \in 1..(at - 1) /\ i + c \in 1..(p - 1) /\ i + c >= first /\ i \in Int
        BY <1>2, <2>2
      <4>2. \A q \in (i + c)..(p - 1) : q \in first..(p - 1)
        BY <1>2, <4>1
      <4>3. QED
        BY <2>3, <4>1, <4>2 DEF LineSoFar
    <3>4. QED
      BY <3>1, <3>2, <3>3
  <2>5. LineSoFar(t, first) \cap B = {}
    BY <1>2, <2>2 DEF LineSoFar
  <2>6. Cardinality(LineSoFar(t, p)) = Cardinality(LineSoFar(t, first)) + Cardinality(LineSoFar(w, at))
    <3>1. Cardinality(LineSoFar(t, first) \cap B) = 0
      BY <2>5, FS_EmptySet
    <3>2. Cardinality(LineSoFar(t, first) \cup B)
            = Cardinality(LineSoFar(t, first)) + Cardinality(B) - Cardinality(LineSoFar(t, first) \cap B)
      BY <1>4, <1>6, FS_Union
    <3>3. Cardinality(LineSoFar(t, p)) = Cardinality(LineSoFar(t, first)) + Cardinality(B) - 0
      BY <2>4, <3>1, <3>2
    <3>4. QED
      BY <1>6, <1>11, <3>3
  <2>7. column_for_offset(t, p) = column_for_offset(t, first) + column_for_offset(w, at) - 1
    BY <1>11, <2>6 DEF column_for_offset
  <2>8. QED
    BY <2>7
<1>13. ASSUME line_for_offset(w, at) # 1
       PROVE  column_for_offset(t, p) = column_for_offset(w, at)
  <2>1. PICK n : n \in Newlines(w, at)
    <3>1. Newlines(w, at) = {} => line_for_offset(w, at) = 1 + 0
      BY FS_EmptySet DEF line_for_offset
    <3>2. Newlines(w, at) # {}
      BY <1>13, <3>1
    <3>3. QED
      BY <3>2
  <2>2. n \in 1..(at - 1) /\ n \in Int /\ n + c \in first..(p - 1) /\ t[n + c] = "newline"
    BY <1>2, <1>3, <2>1 DEF Newlines
  <2>3. LineSoFar(t, p) = B
    <3>1. ASSUME NEW b \in LineSoFar(t, p) PROVE b \in B
      <4>1. b \in Int /\ b \in 1..(p - 1) /\ \A q \in b..(p - 1) : t[q] # "newline"
        BY DEF LineSoFar
      <4>2. ~(b <= n + c)
        BY <1>2, <2>2, <4>1
      <4>3. b - c \in 1..(at - 1) /\ b = (b - c) + c
        BY <1>2, <2>2, <4>1, <4>2
      <4>4. ASSUME NEW q \in (b - c)..(at - 1) PROVE w[q] # "newline"
        <5>1. q \in 1..at /\ q + c \in b..(p - 1)
          BY <1>2, <4>1, <4>3
        <5>2. QED
          BY <1>3, <4>1, <5>1
      <4>5. b - c \in LineSoFar(w, at)
        BY <4>3, <4>4 DEF LineSoFar
      <4>6. QED
        BY <4>3, <4>5
    <3>2. ASSUME NEW i \in LineSoFar(w, at) PROVE i + c \in LineSoFar(t, p)
      <4>1. i \in Int /\ i \in 1..(at - 1) /\ \A q \in i..(at - 1) : w[q] # "newline"
        BY DEF LineSoFar
      <4>2. i + c \in 1..(p - 1)
        BY <1>2, <4>1
      <4>3. ASSUME NEW q \in (i + c)..(p - 1) PROVE t[q] # "newline"
        <5>1. q - c \in i..(at - 1) /\ q - c \in 1..at /\ q = (q - c) + c
          BY <1>2, <4>1
        <5>2. QED
          BY <1>3, <4>1, <5>1
      <4>4. QED
        BY <4>2, <4>3 DEF LineSoFar
    <3>3. QED
      BY <3>1, <3>2
  <2>4. column_for_offset(t, p) = column_for_offset(w, at)
    BY <1>6, <2>3 DEF column_for_offset
  <2>5. QED
    BY <2>4
<1>14. line_for_offset(t, p) = line_for_offset(t, first) + line_for_offset(w, at) - 1
  BY <1>10, <1>11 DEF line_for_offset
<1>15. column_for_offset(t, p) = IF line_for_offset(w, at) = 1
                                THEN column_for_offset(t, first) + column_for_offset(w, at) - 1
                                ELSE column_for_offset(w, at)
  BY <1>12, <1>13
<1>16. QED
  BY <1>1, <1>2, <1>14, <1>15
=============================================================================
