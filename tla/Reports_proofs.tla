--------------------------- MODULE Reports_proofs ---------------------------
(***************************************************************************)
(* Theorems about Reports, for any rules, files, findings and limits, and    *)
(* about Delivery, which writes the reports, for any number of invocations.  *)
(***************************************************************************)
EXTENDS Reports, Delivery, Operators_proofs, SequenceTheorems

\* b holds what s has at the positions in S, each once, in some order.
Collects(b, s, S) ==
    \E M \in [DOMAIN b -> S] :
        /\ \A k \in DOMAIN b : b[k] = s[M[k]]
        /\ \A k, l \in DOMAIN b : M[k] = M[l] => k = l
        /\ \A i \in S : \E k \in DOMAIN b : M[k] = i

\* Neither a key nor a secret.
Masked == Texts \ {"key", "secret"}
Clean(f) == f.match \in Masked /\ f.snippet \in Seq(Masked)

\* How many findings the loops have sanitized, put into buckets, and written
\* to SARIF.
Upto(this, before) == IF phase = this THEN at - 1 ELSE IF phase \in before THEN 0 ELSE Len(findings)
Cleaned == Upto("sanitize", {})
Distributed == Upto("bucket", {"sanitize"})
Reached == Upto("sarif", {"sanitize", "bucket", "group"})

Loops ==
    /\ findings \in Seq(Finding) /\ ScanOrder(findings)
    /\ phase \in {"sanitize", "bucket", "group", "sarif", "read", "done"}
    /\ at \in 1..(Len(findings) + 1)

Masking == \A i \in 1..Cleaned : Clean(findings[i])

\* What the CBOM says of a finding, the reports say masked.
CbomKept ==
    \A i \in DOMAIN findings : \E k \in DOMAIN cbom :
        /\ cbom[k].rule = findings[i].rule /\ cbom[k].line = findings[i].line
        /\ cbom[k].file = findings[i].file
        /\ findings[i].match = IF i <= Cleaned THEN sanitize_text_fragment(cbom[k].match)
                               ELSE cbom[k].match

Buckets ==
    /\ DOMAIN buckets = Rules
    /\ \A r \in Rules : /\ buckets[r] \in Seq(Finding)
                        /\ Collects(buckets[r], findings, {i \in Of(r) : i <= Distributed})

Filled == {r \in Rules : buckets[r] # << >>}
GroupOf(r) == GroupedFinding(ByPlace(buckets[r]))

\* The groups are those of different rules, in the end of all, and in order.
Groups ==
    /\ groups \in Seq({GroupOf(r) : r \in Filled})
    /\ \A j, k \in DOMAIN groups : groups[j].rule = groups[k].rule => j = k
    /\ phase \in {"sanitize", "bucket"} => groups = << >>
    /\ phase \in {"sarif", "read", "done"} =>
         /\ \A r \in Filled : \E k \in DOMAIN groups : groups[k] = GroupOf(r)
         /\ \A j, k \in DOMAIN groups : j < k => Before(groups[j], groups[k])

\* The documents are not written yet, or of all groups.
AllWritten ==
    /\ html = [k \in DOMAIN groups |-> HtmlArticle(groups[k])]
    /\ markdown = [k \in DOMAIN groups |-> MarkdownSection(groups[k])]
    /\ cbom_rows = [k \in DOMAIN cbom |-> CbomRow(cbom[k])]

Documents ==
    /\ \/ AllWritten /\ phase \in {"sarif", "read", "done"}
       \/ html = << >> /\ markdown = << >> /\ cbom_rows = << >>
    /\ Reached > 0 => AllWritten

\* A rule has the level of its first finding.
Sarif ==
    /\ DOMAIN levels = {findings[i].rule : i \in 1..Reached}
    /\ \A r \in DOMAIN levels : \E i \in Of(r) :
         /\ levels[r] = severity_to_level(findings[i].severity)
         /\ \A j \in Of(r) : i <= j
    /\ results \in Seq({to_result(f) : f \in Finding}) /\ Len(results) = Reached
    /\ \A i \in 1..Reached : results[i] = to_result(findings[i])

Shown ==
    /\ opened \subseteq Panels
    /\ ~Read => opened = {}

Inv == Loops /\ Masking /\ CbomKept /\ Buckets /\ Groups /\ Documents /\ Sarif /\ Shown
-----------------------------------------------------------------------------
\* Collecting from what was collected.
LEMMA CollectedTwice ==
    ASSUME NEW a, NEW b, NEW s, NEW S, Collects(a, b, DOMAIN b), Collects(b, s, S)
    PROVE  Collects(a, s, S)
<1>1. PICK M \in [DOMAIN a -> DOMAIN b] :
         /\ \A k \in DOMAIN a : a[k] = b[M[k]]
         /\ \A k, l \in DOMAIN a : M[k] = M[l] => k = l
         /\ \A i \in DOMAIN b : \E k \in DOMAIN a : M[k] = i
  BY DEF Collects
<1>2. PICK N \in [DOMAIN b -> S] :
         /\ \A k \in DOMAIN b : b[k] = s[N[k]]
         /\ \A k, l \in DOMAIN b : N[k] = N[l] => k = l
         /\ \A i \in S : \E k \in DOMAIN b : N[k] = i
  BY DEF Collects
<1>3. PICK P : P = [k \in DOMAIN a |-> N[M[k]]]
  OBVIOUS
<1>4. P \in [DOMAIN a -> S] /\ (\A k \in DOMAIN a : P[k] = N[M[k]])
      /\ (\A k \in DOMAIN a : a[k] = s[P[k]])
  BY <1>1, <1>2, <1>3
<1>5. ASSUME NEW k \in DOMAIN a, NEW l \in DOMAIN a, P[k] = P[l] PROVE k = l
  BY <1>1, <1>2, <1>4, <1>5
<1>6. ASSUME NEW i \in S PROVE \E k \in DOMAIN a : P[k] = i
  <2>1. PICK j \in DOMAIN b : N[j] = i
    BY <1>2
  <2>2. PICK k \in DOMAIN a : M[k] = j
    BY <1>1
  <2>3. QED
    BY <1>4, <2>1, <2>2
<1>7. QED
  BY <1>4, <1>5, <1>6, Zenon DEF Collects

\* What is collected is as much as it is collected from.
LEMMA CollectedSize ==
    ASSUME NEW T, NEW b \in Seq(T), NEW s, NEW S, Collects(b, s, S)
    PROVE  IsFiniteSet(S) /\ Cardinality(S) = Len(b)
<1>1. PICK M \in [DOMAIN b -> S] :
         /\ \A k, l \in DOMAIN b : M[k] = M[l] => k = l
         /\ \A i \in S : \E k \in DOMAIN b : M[k] = i
  BY DEF Collects
<1>2. M \in Bijection(DOMAIN b, S)
  BY <1>1 DEF Bijection, Injection, Surjection, IsInjective
<1>3. IsFiniteSet(DOMAIN b) /\ Cardinality(DOMAIN b) = Len(b)
  BY FS_Interval
<1>4. QED
  BY <1>2, <1>3, FS_Bijection DEF ExistsBijection

\* The positions in S at which s has an element of Q.
Within(s, S, Q) == {i \in S : s[i] \in Q}

\* Filtering what was collected collects the part the filter names.
LEMMA CollectedPart ==
    ASSUME NEW T, NEW b \in Seq(T), NEW s, NEW S, Collects(b, s, S),
           NEW Q, NEW P, P = Within(b, DOMAIN b, Q),
           NEW W, W = Within(s, S, Q), NEW c, c = Picked(b, P)
    PROVE  c \in Seq(T) /\ Collects(c, s, W)
<1> USE DEF Within
<1>1. P \in SUBSET DOMAIN b
  OBVIOUS
<1>2. PICK N : /\ Runs(N, P, Ascending(P))
               /\ c = [k \in 1..Cardinality(P) |-> b[N[k]]]
               /\ c \in Seq(T) /\ Len(c) = Cardinality(P)
  BY <1>1, PickedPositions
<1>3. /\ DOMAIN c = 1..Cardinality(P) /\ N \in [DOMAIN c -> P]
      /\ \A k \in DOMAIN c : c[k] = b[N[k]]
      /\ \A k, l \in DOMAIN c : N[k] = N[l] => k = l
      /\ \A i \in P : \E k \in DOMAIN c : N[k] = i
  BY <1>2 DEF Runs
<1>4. PICK M \in [DOMAIN b -> S] :
         /\ \A k \in DOMAIN b : b[k] = s[M[k]]
         /\ \A k, l \in DOMAIN b : M[k] = M[l] => k = l
         /\ \A i \in S : \E k \in DOMAIN b : M[k] = i
  BY DEF Collects
<1>5. PICK L : L = [k \in DOMAIN c |-> M[N[k]]]
  OBVIOUS
<1>6. ASSUME NEW k \in DOMAIN c
      PROVE  N[k] \in DOMAIN b /\ L[k] = M[N[k]] /\ c[k] = s[L[k]] /\ L[k] \in W
  <2>1. N[k] \in P /\ N[k] \in DOMAIN b /\ L[k] = M[N[k]] /\ c[k] = b[N[k]] /\ b[N[k]] \in Q
    <3>1. N[k] \in P /\ L[k] = M[N[k]] /\ c[k] = b[N[k]]
      BY <1>3, <1>5
    <3>2. QED
      BY <3>1
  <2>2. M[N[k]] \in S /\ b[N[k]] = s[M[N[k]]]
    BY <1>4, <2>1
  <2>3. QED
    BY <2>1, <2>2
<1>7. L \in [DOMAIN c -> W]
  BY <1>5, <1>6
<1>8. ASSUME NEW k \in DOMAIN c, NEW l \in DOMAIN c, L[k] = L[l] PROVE k = l
  <2>1. N[k] = N[l]
    BY <1>4, <1>6, <1>8
  <2>2. QED
    BY <1>3, <2>1
<1>9. ASSUME NEW i \in W PROVE \E k \in DOMAIN c : L[k] = i
  <2>1. PICK j \in DOMAIN b : M[j] = i
    BY <1>4
  <2>2. j \in P
    BY <1>4, <2>1
  <2>3. PICK k \in DOMAIN c : N[k] = j
    BY <1>3, <2>2
  <2>4. QED
    BY <1>6, <2>1, <2>3
<1>10. Collects(c, s, W)
  BY <1>6, <1>7, <1>8, <1>9, Zenon DEF Collects
<1>11. QED
  BY <1>2, <1>10

\* The numbers of a finite set in their order.
LEMMA SortedNumbers ==
    ASSUME NEW S \in SUBSET Nat, IsFiniteSet(S), NEW n, n = Sorted(S)
    PROVE  /\ n \in Seq(S) /\ Len(n) = Cardinality(S)
           /\ \A e \in S : \E k \in DOMAIN n : n[k] = e
           /\ \A k, l \in DOMAIN n : n[k] < n[l] <=> k < l
<1>1. Orders(Ascending(S), S)
  BY AscendingOrders
<1>2. PICK L : L = Listed(S, Ascending(S))
  OBVIOUS
<1>3. /\ Cardinality(S) \in Nat /\ L \in [1..Cardinality(S) -> S]
      /\ \A e \in S : \E k \in 1..Cardinality(S) : L[k] = e
      /\ \A k, l \in 1..Cardinality(S) : <<L[k], L[l]>> \in Ascending(S) <=> k < l
  BY <1>1, <1>2, ListedInOrder
<1>4. L \in Seq(S) /\ Len(L) = Cardinality(S) /\ DOMAIN L = 1..Cardinality(S)
  BY <1>3
<1>5. n = L
  BY <1>2, <1>4, EvaluatedIsIt DEF Sorted
<1>6. \A k, l \in DOMAIN L : L[k] < L[l] <=> <<L[k], L[l]>> \in Ascending(S)
  BY <1>3, <1>4 DEF Ascending
<1>7. QED
  BY <1>3, <1>4, <1>5, <1>6

\* What is sorted by three keys, one after the other, and then stays in place.
KeysBefore(x, y, z, d, e) ==
    \/ x[d] < x[e]
    \/ x[d] = x[e] /\ y[d] < y[e]
    \/ x[d] = x[e] /\ y[d] = y[e] /\ z[d] < z[e]
    \/ x[d] = x[e] /\ y[d] = y[e] /\ z[d] = z[e] /\ d < e

\* That is an order.
LEMMA ThreeKeys ==
    ASSUME NEW D \in SUBSET Nat, NEW x \in [D -> Int], NEW y \in [D -> Int], NEW z \in [D -> Int],
           NEW R, \A d, e \in D : <<d, e>> \in R <=> KeysBefore(x, y, z, d, e)
    PROVE  Orders(R, D)
<1>1. \A d \in D : d \in Nat /\ x[d] \in Int /\ y[d] \in Int /\ z[d] \in Int
  OBVIOUS
<1>2. \A e \in D : <<e, e>> \notin R
  BY <1>1 DEF KeysBefore
<1>3. \A d, e \in D : d # e => <<d, e>> \in R \/ <<e, d>> \in R
  BY <1>1 DEF KeysBefore
<1>4. ASSUME NEW a \in D, NEW b \in D, NEW c \in D, <<a, b>> \in R, <<b, c>> \in R
      PROVE  <<a, c>> \in R
  <2>1. KeysBefore(x, y, z, a, b) /\ KeysBefore(x, y, z, b, c)
    BY <1>4
  <2>2. KeysBefore(x, y, z, a, c)
    BY <1>1, <2>1 DEF KeysBefore
  <2>3. QED
    BY <2>2
<1>5. QED
  BY <1>2, <1>3, <1>4 DEF Orders

\* Sorting a bucket by place moves its findings and loses none.
LEMMA ByPlaceCollects ==
    ASSUME NEW b \in Seq(Finding), NEW s, s = ByPlace(b)
    PROVE  s \in Seq(Finding) /\ Len(s) = Len(b) /\ Collects(s, b, DOMAIN b)
<1>1. PICK R : R = {p \in (DOMAIN b) \X (DOMAIN b) :
                      \/ EarlierPlace(b[p[1]], b[p[2]])
                      \/ ~EarlierPlace(b[p[2]], b[p[1]]) /\ p[1] < p[2]}
  OBVIOUS
<1>2. \A i \in DOMAIN b : b[i].file \in Nat /\ b[i].line \in Nat /\ b[i].column \in Nat /\ i \in Nat
  <2> TAKE i \in DOMAIN b
  <2>1. b[i] \in Finding /\ i \in Nat
    OBVIOUS
  <2>2. b[i].file \in Files /\ b[i].line \in Nat /\ b[i].column \in Nat
    BY <2>1 DEF Finding
  <2>3. QED
    BY <2>1, <2>2, ReportsAssumption
<1>3. Orders(R, DOMAIN b)
  <2>1. \A d, e \in DOMAIN b : <<d, e>> \in R <=>
            \/ EarlierPlace(b[d], b[e])
            \/ ~EarlierPlace(b[e], b[d]) /\ d < e
    BY <1>1
  <2>2. PICK f, l, c : /\ f = [i \in DOMAIN b |-> b[i].file]
                       /\ l = [i \in DOMAIN b |-> b[i].line]
                       /\ c = [i \in DOMAIN b |-> b[i].column]
    OBVIOUS
  <2>3. PICK D : D = DOMAIN b
    OBVIOUS
  <2>4. f \in [D -> Int] /\ l \in [D -> Int] /\ c \in [D -> Int] /\ D \in SUBSET Nat
    BY <1>2, <2>2, <2>3
  <2>5. ASSUME NEW d \in D, NEW e \in D PROVE <<d, e>> \in R <=> KeysBefore(f, l, c, d, e)
    <3>1. /\ f[d] = b[d].file /\ l[d] = b[d].line /\ c[d] = b[d].column
          /\ f[e] = b[e].file /\ l[e] = b[e].line /\ c[e] = b[e].column
      BY <2>2, <2>3
    <3>2. /\ f[d] \in Int /\ f[e] \in Int /\ l[d] \in Int /\ l[e] \in Int
          /\ c[d] \in Int /\ c[e] \in Int
      BY <2>4
    <3>3. /\ EarlierPlace(b[d], b[e]) <=>
                \/ f[d] < f[e]
                \/ f[d] = f[e] /\ l[d] < l[e]
                \/ f[d] = f[e] /\ l[d] = l[e] /\ c[d] < c[e]
          /\ EarlierPlace(b[e], b[d]) <=>
                \/ f[e] < f[d]
                \/ f[e] = f[d] /\ l[e] < l[d]
                \/ f[e] = f[d] /\ l[e] = l[d] /\ c[e] < c[d]
      BY <3>1 DEF EarlierPlace
    <3>4. d \in DOMAIN b /\ e \in DOMAIN b /\ d \in Nat /\ e \in Nat
      BY <2>3, <2>4
    <3>5. <<d, e>> \in R <=>
                \/ EarlierPlace(b[d], b[e])
                \/ ~EarlierPlace(b[e], b[d]) /\ d < e
      BY <2>1, <3>4
    <3>6. QED
      BY <3>2, <3>3, <3>4, <3>5 DEF KeysBefore
  <2>6. Orders(R, D)
    BY <2>4, <2>5, ThreeKeys
  <2>7. QED
    BY <2>3, <2>6
<1>4. PICK M : M = Listed(DOMAIN b, R)
  OBVIOUS
<1>5. s = Through(b, M)
  <2> DEFINE sort(t) == Through(t, Listed(DOMAIN t,
                          {p \in (DOMAIN t) \X (DOMAIN t) :
                              \/ EarlierPlace(t[p[1]], t[p[2]])
                              \/ ~EarlierPlace(t[p[2]], t[p[1]]) /\ p[1] < p[2]}))
  <2>1. sort(b) = Through(b, M)
    BY <1>1, <1>4
  <2>2. s = CHOOSE r \in {sort(t) : t \in {b}} : TRUE
    BY DEF ByPlace, StableSort, Once
  <2> HIDE DEF sort
  <2>3. {sort(t) : t \in {b}} = {sort(b)}
    OBVIOUS
  <2>4. QED
    BY <2>1, <2>2, <2>3
<1>6. /\ M \in [DOMAIN b -> DOMAIN b]
      /\ \A i \in DOMAIN b : \E k \in DOMAIN b : M[k] = i
      /\ \A k, l \in DOMAIN b : M[k] = M[l] => k = l
      /\ s = [k \in DOMAIN b |-> b[M[k]]] /\ s \in Seq(Finding) /\ Len(s) = Len(b)
  BY <1>3, <1>4, <1>5, SortedPositions
<1>7. /\ M \in [DOMAIN s -> DOMAIN b] /\ (\A k \in DOMAIN s : s[k] = b[M[k]])
      /\ \A i \in DOMAIN b : \E k \in DOMAIN s : M[k] = i
      /\ \A k, l \in DOMAIN s : M[k] = M[l] => k = l
  BY <1>6
<1>8. Collects(s, b, DOMAIN b)
  BY <1>7, Zenon DEF Collects
<1>9. QED
  BY <1>6, <1>8
-----------------------------------------------------------------------------
\* The first elements of a sequence.
LEMMA Taken ==
    ASSUME NEW T, NEW s \in Seq(T), NEW n \in Nat, NEW t, t = take(s, n)
    PROVE  /\ t \in Seq(T) /\ Len(t) = (IF Len(s) < n THEN Len(s) ELSE n)
           /\ \A i \in DOMAIN t : i \in DOMAIN s /\ t[i] = s[i]
<1>1. PICK m : m = IF Len(s) < n THEN Len(s) ELSE n
  OBVIOUS
<1>2. m \in Nat /\ m <= Len(s) /\ Len(s) \in Nat
  BY <1>1
<1>3. \A i \in 1..m : i \in DOMAIN s /\ s[i] \in T
  BY <1>2
<1>4. t = SubSeq(s, 1, m)
  BY <1>1 DEF take
<1>5. /\ t \in Seq(T) /\ Len(t) = (IF 1 <= m THEN m - 1 + 1 ELSE 0)
      /\ \A i \in 1..(m - 1 + 1) : t[i] = s[1 + i - 1]
  BY <1>2, <1>3, <1>4, SubSeqProperties
<1>6. Len(t) = m /\ DOMAIN t = 1..m
  BY <1>2, <1>5
<1>7. \A i \in 1..m : i \in 1..(m - 1 + 1) /\ 1 + i - 1 = i
  BY <1>2
<1>8. \A i \in DOMAIN t : i \in DOMAIN s /\ t[i] = s[i]
  BY <1>3, <1>5, <1>6, <1>7
<1>9. QED
  BY <1>1, <1>5, <1>6, <1>8

\* The images of the elements of a sequence are finitely many.
LEMMA ImageFinite ==
    ASSUME NEW n \in Nat, NEW f, DOMAIN f = 1..n
    PROVE  IsFiniteSet({f[i] : i \in 1..n})
<1>1. PICK T, g : T = {f[i] : i \in 1..n} /\ g = [i \in 1..n |-> f[i]]
  OBVIOUS
<1>2. g \in Surjection(1..n, T)
  BY <1>1 DEF Surjection
<1>3. IsFiniteSet(1..n)
  BY FS_Interval
<1>4. IsFiniteSet(T)
  BY <1>2, <1>3, FS_Surjection
<1>5. QED
  BY <1>1, <1>4

\* Of some severities one is the worst.
LEMMA WorstExists ==
    ASSUME NEW S \in SUBSET Severity, S # {}
    PROVE  \E v \in Severity : IsWorst(v, S)
<1>1. \A v \in Severity : v \in Int /\ v + 1 \in 1..5
  BY DEF Severity, Info, Critical
<1>2. PICK T : T = {v + 1 : v \in S}
  OBVIOUS
<1>3. \A v \in S : v + 1 \in T /\ v \in Int /\ v + 1 \in 1..5
  BY <1>1, <1>2
<1>4. T \in SUBSET (1..5) /\ T # {}
  BY <1>2, <1>3
<1>5. PICK k \in T : \A j \in T : k >= j
  BY <1>4, GreatestNumber
<1>6. PICK v \in S : k = v + 1
  BY <1>2, <1>5
<1>7. ASSUME NEW w \in S PROVE v >= w
  <2>1. v \in Int /\ w \in Int /\ v + 1 >= w + 1
    BY <1>3, <1>5, <1>6
  <2>2. QED
    BY <2>1
<1>8. QED
  BY <1>7 DEF IsWorst

\* The fold over the severities of a bucket returns the worst.
LEMMA WorstIs ==
    ASSUME NEW s \in Seq(Finding), s # << >>, NEW S, S = {s[i].severity : i \in DOMAIN s}
    PROVE  worst_severity(s) \in Severity /\ IsWorst(worst_severity(s), S)
<1>1. S \in SUBSET Severity /\ S # {}
  <2>1. \A i \in DOMAIN s : s[i] \in Finding
    OBVIOUS
  <2>2. \A i \in DOMAIN s : s[i].severity \in Severity
    BY <2>1 DEF Finding
  <2>3. 1 \in DOMAIN s
    OBVIOUS
  <2>4. QED
    BY <2>2, <2>3
<1>2. \E v \in Severity : IsWorst(v, S)
  BY <1>1, WorstExists
<1>3. worst_severity(s) = CHOOSE v \in Severity : IsWorst(v, S)
  BY DEF worst_severity
<1>4. QED
  BY <1>2, <1>3

\* The evidence is what some of the findings matched.
LEMMA EvidenceIs ==
    ASSUME NEW s \in Seq(Finding), NEW S, S = {s[i].match : i \in DOMAIN s}
    PROVE  Evidence(s) \in Seq(S)
<1>1. PICK t : t = [i \in DOMAIN s |-> s[i].match]
  OBVIOUS
<1>2. t \in Seq(S)
  BY <1>1
<1>3. PICK P : P = {i \in DOMAIN s : /\ s[i].match # ""
                                     /\ \A j \in 1..(i - 1) : s[j].match # s[i].match}
  OBVIOUS
<1>4. P \in SUBSET DOMAIN t
  BY <1>1, <1>3
<1>5. Picked(t, P) \in Seq(S)
  BY <1>2, <1>4, PickedPositions
<1>6. QED
  BY <1>1, <1>3, <1>5 DEF Evidence

\* What a row knows of the findings of its file, which are s.
RowTells(o, s) ==
    /\ o.file = s[1].file /\ o.hits = Len(s)
    /\ o.lines \in Seq({s[i].line : i \in DOMAIN s} \ {0})
    /\ Len(o.lines) = Cardinality({s[i].line : i \in DOMAIN s} \ {0})
    /\ o.sample_evidence \in Seq({s[i].match : i \in DOMAIN s})
    /\ o.sample_findings \in Seq({s[i] : i \in DOMAIN s})

\* The row built of them (FileOccurrence) knows that.
LEMMA OccurrenceTells ==
    ASSUME NEW s \in Seq(Finding)
    PROVE  RowTells(FileOccurrence(s), s)
<1>1. PICK n, D : n = Len(s) /\ n \in Nat /\ D = DOMAIN s /\ D = 1..n
  OBVIOUS
<1>2. PICK L : L = {s[i].line : i \in DOMAIN s} \ {0}
  OBVIOUS
<1>3. IsFiniteSet(L) /\ L \in SUBSET Nat
  <2>1. PICK f : f = [i \in 1..n |-> s[i].line]
    OBVIOUS
  <2>2. IsFiniteSet({f[i] : i \in 1..n})
    BY <1>1, <2>1, ImageFinite
  <2>3. L \in SUBSET {f[i] : i \in 1..n}
    BY <1>1, <1>2, <2>1
  <2>4. \A i \in DOMAIN s : s[i] \in Finding
    OBVIOUS
  <2>5. \A i \in DOMAIN s : s[i].line \in Nat
    BY <2>4 DEF Finding
  <2>6. QED
    BY <1>2, <2>2, <2>3, <2>5, FS_Subset
<1>4. KnownLines(s) \in Seq(L) /\ Len(KnownLines(s)) = Cardinality(L)
  <2>1. KnownLines(s) = Sorted(L)
    BY <1>2 DEF KnownLines
  <2>2. QED
    BY <1>3, <2>1, SortedNumbers
<1>5. PICK F : F = {s[i] : i \in DOMAIN s}
  OBVIOUS
<1>6. take(Picked(s, {i \in DOMAIN s : s[i].snippet # NoSnippet}), Samples) \in Seq(F)
  <2>1. s \in Seq(F)
    BY <1>1, <1>5
  <2>2. PICK P : P = {i \in DOMAIN s : s[i].snippet # NoSnippet}
    OBVIOUS
  <2>3. P \in SUBSET DOMAIN s
    BY <2>2
  <2>4. Picked(s, P) \in Seq(F)
    BY <2>1, <2>3, PickedPositions
  <2>5. Samples \in Nat
    BY ReportsAssumption
  <2>6. QED
    BY <2>2, <2>4, <2>5, Taken
<1>7. Evidence(s) \in Seq({s[i].match : i \in DOMAIN s})
  BY EvidenceIs
<1>8. PICK o : o = FileOccurrence(s)
  OBVIOUS
<1>9. /\ o.file = s[1].file /\ o.hits = Len(s) /\ o.lines = KnownLines(s)
      /\ o.sample_evidence = Evidence(s)
      /\ o.sample_findings = take(Picked(s, {i \in DOMAIN s : s[i].snippet # NoSnippet}), Samples)
  BY <1>8 DEF FileOccurrence
<1>10. RowTells(o, s)
  BY <1>2, <1>4, <1>5, <1>6, <1>7, <1>9 DEF RowTells
<1>11. QED
  BY <1>8, <1>10
-----------------------------------------------------------------------------
\* What is collected has the elements it is collected from.
LEMMA SameElements ==
    ASSUME NEW b, NEW s, NEW S, Collects(b, s, S)
    PROVE  /\ \A k \in DOMAIN b : \E i \in S : b[k] = s[i]
           /\ \A i \in S : \E k \in DOMAIN b : b[k] = s[i]
<1>1. PICK M \in [DOMAIN b -> S] :
         /\ \A k \in DOMAIN b : b[k] = s[M[k]]
         /\ \A i \in S : \E k \in DOMAIN b : M[k] = i
  BY DEF Collects
<1>2. QED
  BY <1>1

\* What a row says is of the findings at the positions in S.
TellsFile(o, S) ==
    /\ o.hits = Cardinality(S)
    /\ o.lines \in Seq({findings[i].line : i \in S} \ {0})
    /\ Len(o.lines) = Cardinality({findings[i].line : i \in S} \ {0})
    /\ o.sample_evidence \in Seq({findings[i].match : i \in S})
    /\ o.sample_findings \in Seq({findings[i] : i \in S})

\* So the row of findings collected from those positions tells of them.
LEMMA RowOfFile ==
    ASSUME NEW q \in Seq(Finding), NEW S, Collects(q, findings, S)
    PROVE  TellsFile(FileOccurrence(q), S)
<1>1. PICK o : o = FileOccurrence(q)
  OBVIOUS
<1>2. RowTells(o, q)
  BY <1>1, OccurrenceTells
<1>3. Cardinality(S) = Len(q)
  BY CollectedSize
<1>4. /\ {q[k] : k \in DOMAIN q} = {findings[i] : i \in S}
      /\ {q[k].line : k \in DOMAIN q} = {findings[i].line : i \in S}
      /\ {q[k].match : k \in DOMAIN q} = {findings[i].match : i \in S}
  BY SameElements
<1>5. QED
  BY <1>1, <1>2, <1>3, <1>4 DEF RowTells, TellsFile

\* The rows of a rule: one of each file with a finding of it.
TellsFiles(rows, r) ==
    /\ \E n \in Nat : DOMAIN rows = 1..n
    /\ \A k \in DOMAIN rows :
         /\ rows[k].file \in Files /\ In(r, rows[k].file) # {}
         /\ TellsFile(rows[k], In(r, rows[k].file))
    /\ \A j, k \in DOMAIN rows : rows[j].file = rows[k].file => j = k
    /\ \A i \in Of(r) : \E k \in DOMAIN rows : rows[k].file = findings[i].file

\* The rows built of the findings of a rule tell of them all.
LEMMA OccurrencesTell ==
    ASSUME findings \in Seq(Finding), NEW r, NEW s \in Seq(Finding),
           Collects(s, findings, Of(r)), NEW rows, rows = FileOccurrences(s)
    PROVE  TellsFiles(rows, r)
<1>1. PICK N : N = {s[i].file : i \in DOMAIN s}
  OBVIOUS
<1>2. /\ \A i \in DOMAIN s : s[i] \in Finding /\ s[i].file \in Files
      /\ \A i \in Of(r) : findings[i] \in Finding /\ findings[i].file \in Files
  <2>1. \A i \in DOMAIN s : s[i] \in Finding
    OBVIOUS
  <2>2. \A i \in Of(r) : findings[i] \in Finding
    BY DEF Of
  <2>3. QED
    BY <2>1, <2>2 DEF Finding
<1>3. N \in SUBSET Nat /\ N \in SUBSET Files /\ IsFiniteSet(N)
  <2>1. PICK n \in Nat : DOMAIN s = 1..n
    BY LenProperties
  <2>2. PICK f : f = [i \in 1..n |-> s[i].file]
    OBVIOUS
  <2>3. IsFiniteSet({f[i] : i \in 1..n})
    BY <2>2, ImageFinite
  <2>4. N = {f[i] : i \in 1..n}
    BY <1>1, <2>1, <2>2
  <2>5. QED
    BY <1>1, <1>2, <2>3, <2>4, ReportsAssumption
<1>4. PICK names : names = Sorted(N)
  OBVIOUS
<1>5. /\ names \in Seq(N) /\ \A e \in N : \E k \in DOMAIN names : names[k] = e
      /\ \A k, l \in DOMAIN names : names[k] < names[l] <=> k < l
  BY <1>3, <1>4, SortedNumbers
<1>6. /\ DOMAIN rows = DOMAIN names
      /\ \A k \in DOMAIN names :
           rows[k] = FileOccurrence(Picked(s, {i \in DOMAIN s : s[i].file = names[k]}))
  BY <1>1, <1>4 DEF FileOccurrences
<1>7. ASSUME NEW k \in DOMAIN names
      PROVE  rows[k].file = names[k] /\ In(r, names[k]) # {} /\ TellsFile(rows[k], In(r, names[k]))
  <2>1. PICK f : f = names[k] /\ f \in N
    BY <1>5
  <2>2. PICK Q, P, R, W : /\ Q = {x \in Finding : x.file = f} /\ R = Of(r)
                          /\ P = Within(s, DOMAIN s, Q) /\ W = Within(findings, R, Q)
    OBVIOUS
  <2>3. P = {i \in DOMAIN s : s[i].file = f}
    BY <1>2, <2>2 DEF Within
  <2>4. PICK q : q = Picked(s, P)
    OBVIOUS
  <2>5. Collects(s, findings, R)
    BY <2>2
  <2>6. q \in Seq(Finding) /\ Collects(q, findings, In(r, f))
    <3>1. q \in Seq(Finding) /\ Collects(q, findings, W)
      BY <2>2, <2>4, <2>5, CollectedPart
    <3>2. W = In(r, f)
      BY <1>2, <2>2 DEF In, Within
    <3>3. QED
      BY <3>1, <3>2
  <2>7. rows[k] = FileOccurrence(q)
    BY <1>6, <2>1, <2>3, <2>4
  <2>8. TellsFile(rows[k], In(r, f))
    BY <2>6, <2>7, RowOfFile
  <2>9. PICK j \in DOMAIN s : s[j].file = f
    BY <1>1, <2>1
  <2>10. PICK i \in Of(r) : findings[i] = s[j]
    BY SameElements
  <2>11. i \in In(r, f)
    BY <2>9, <2>10 DEF In
  <2>12. q[1].file = f /\ rows[k].file = q[1].file
    <3>1. PICK l \in DOMAIN q : q[l] = findings[i]
      BY <2>6, <2>11, SameElements
    <3>2. 1 \in DOMAIN q
      BY <2>6, <3>1
    <3>3. PICK m \in In(r, f) : q[1] = findings[m]
      BY <2>6, <3>2, SameElements
    <3>4. q[1].file = f
      BY <3>3 DEF In
    <3>5. QED
      BY <2>7, <3>4 DEF FileOccurrence
  <2>13. QED
    BY <2>1, <2>8, <2>11, <2>12
<1>8. ASSUME NEW i \in Of(r) PROVE \E k \in DOMAIN rows : rows[k].file = findings[i].file
  <2>1. PICK j \in DOMAIN s : s[j] = findings[i]
    BY SameElements
  <2>2. findings[i].file \in N
    BY <1>1, <2>1
  <2>3. PICK k \in DOMAIN names : names[k] = findings[i].file
    BY <1>5, <2>2
  <2>4. QED
    BY <1>6, <1>7, <2>3
<1>9. ASSUME NEW j \in DOMAIN rows, NEW k \in DOMAIN rows, rows[j].file = rows[k].file PROVE j = k
  <2>1. j \in DOMAIN names /\ k \in DOMAIN names /\ names[j] = names[k]
    BY <1>6, <1>7, <1>9
  <2>2. names[j] \in N /\ j \in Int /\ k \in Int
    BY <1>5, <2>1
  <2>3. QED
    BY <1>3, <1>5, <2>1, <2>2
<1>10. \E n \in Nat : DOMAIN rows = 1..n
  BY <1>5, <1>6, LenProperties
<1>11. ASSUME NEW k \in DOMAIN rows PROVE rows[k].file \in Files
  <2>1. k \in DOMAIN names /\ rows[k].file = names[k]
    BY <1>6, <1>7
  <2>2. names[k] \in N
    BY <1>5, <2>1
  <2>3. QED
    BY <1>3, <2>1, <2>2
<1>12. QED
  BY <1>6, <1>7, <1>8, <1>9, <1>10, <1>11 DEF TellsFiles
-----------------------------------------------------------------------------
\* What the findings at the positions in S advise.
AdviceOf(S) == UNION {{findings[i].actions[a] : a \in DOMAIN findings[i].actions} : i \in S}

\* A group advises all of it, once.
TellsActions(advice, S) ==
    /\ advice \in Seq(ActionIds)
    /\ {advice[i] : i \in DOMAIN advice} = AdviceOf(S)
    /\ \A i, j \in DOMAIN advice : advice[i] = advice[j] => i = j

\* The fold that pushes unless already there does so.
LEMMA ActionsTell ==
    ASSUME findings \in Seq(Finding), NEW S, NEW s \in Seq(Finding), Collects(s, findings, S),
           NEW advice, advice = Actions(s)
    PROVE  TellsActions(advice, S)
<1>1. PICK n, ss : n = Len(s) /\ ss = [i \in DOMAIN s |-> s[i].actions]
  OBVIOUS
<1>2. n \in Nat /\ DOMAIN s = 1..n /\ DOMAIN ss = 1..n /\ \A i \in 1..n : ss[i] = s[i].actions
  BY <1>1
<1>3. Parts(ss, n, ActionIds)
  <2>1. \A i \in 1..n : s[i] \in Finding
    BY <1>2
  <2>2. \A i \in 1..n : ss[i] \in Seq(ActionIds)
    BY <1>2, <2>1 DEF Finding
  <2>3. QED
    BY <1>2, <2>2 DEF Parts
<1>4. PICK all : all = Flattened(ss)
  OBVIOUS
<1>5. all \in Seq(ActionIds) /\ ElementsOf(ss, all)
  BY <1>3, <1>4, FlattenedPlaces
<1>6. advice = Picked(all, FirstsOf(all))
  <2> DEFINE first(t) == {i \in DOMAIN t : \A j \in 1..(i - 1) : t[j] # t[i]}
             keep(t) == Picked(t, first(t))
  <2>1. AllActions(s) = all
    BY <1>1, <1>4 DEF AllActions
  <2>2. keep(all) = Picked(all, FirstsOf(all))
    BY DEF FirstsOf
  <2>3. advice = CHOOSE r \in {keep(t) : t \in {all}} : TRUE
    BY <2>1 DEF Actions, KeepFirst, Once
  <2> HIDE DEF keep
  <2>4. {keep(t) : t \in {all}} = {keep(all)}
    OBVIOUS
  <2>5. QED
    BY <2>2, <2>3, <2>4
<1>7. advice \in Seq(ActionIds)
  BY <1>5, <1>6, KeptKeys
<1>8. PICK M : KeptFrom(all, all, advice, M)
  BY <1>5, <1>6, KeptKeys
<1>9. /\ \A k \in DOMAIN advice : M[k] \in DOMAIN all /\ advice[k] = all[M[k]]
      /\ \A k, l \in DOMAIN advice : advice[k] = advice[l] => k = l
      /\ \A i \in DOMAIN all : \E k \in DOMAIN advice : advice[k] = all[i]
  BY <1>8 DEF KeptFrom
<1>10. ASSUME NEW k \in DOMAIN advice PROVE advice[k] \in AdviceOf(S)
  <2>1. PICK l \in DOMAIN all : advice[k] = all[l]
    BY <1>9
  <2>2. PICK i \in DOMAIN ss : \E j \in DOMAIN ss[i] : advice[k] = ss[i][j]
    BY <1>5, <2>1 DEF ElementsOf
  <2>3. PICK m \in S : s[i] = findings[m]
    BY <1>2, <2>2, SameElements
  <2>4. PICK j \in DOMAIN findings[m].actions : advice[k] = findings[m].actions[j]
    BY <1>2, <2>2, <2>3
  <2>5. QED
    BY <2>4 DEF AdviceOf
<1>11. ASSUME NEW x \in AdviceOf(S) PROVE \E k \in DOMAIN advice : advice[k] = x
  <2>1. PICK m \in S : \E j \in DOMAIN findings[m].actions : x = findings[m].actions[j]
    BY DEF AdviceOf
  <2>2. PICK i \in DOMAIN s : s[i] = findings[m]
    BY SameElements
  <2>3. PICK j \in DOMAIN ss[i] : x = ss[i][j]
    BY <1>2, <2>1, <2>2
  <2>4. PICK l \in DOMAIN all : all[l] = x
    BY <1>2, <1>5, <2>3 DEF ElementsOf
  <2>5. QED
    BY <1>9, <2>4
<1>12. {advice[i] : i \in DOMAIN advice} = AdviceOf(S)
  BY <1>10, <1>11
<1>13. QED
  BY <1>7, <1>9, <1>12 DEF TellsActions

\* What a group says is of the findings of its rule.
TellsRule(g, r) ==
    /\ g.rule = r
    /\ g.severity \in Severity
    /\ IsWorst(g.severity, {findings[i].severity : i \in Of(r)})
    /\ g.total_hits = Cardinality(Of(r)) /\ g.total_hits \in Nat \ {0}
    /\ TellsFiles(g.files, r)
    /\ g.sample_evidence \in Seq({findings[i].match : i \in Of(r)})
    /\ TellsActions(g.actions, Of(r))

\* And the group built of the bucket of a rule tells all of it.
LEMMA GroupTells ==
    ASSUME findings \in Seq(Finding), NEW r, NEW b \in Seq(Finding), b # << >>,
           Collects(b, findings, Of(r)), NEW g, g = GroupedFinding(ByPlace(b))
    PROVE  TellsRule(g, r)
<1>1. PICK s : s = ByPlace(b)
  OBVIOUS
<1>2. s \in Seq(Finding) /\ Len(s) = Len(b) /\ Collects(s, b, DOMAIN b)
  BY <1>1, ByPlaceCollects
<1>3. Collects(s, findings, Of(r)) /\ 1 \in DOMAIN s /\ s # << >>
  <2>1. PICK S : S = Of(r)
    OBVIOUS
  <2>2. Collects(s, findings, S)
    BY <1>2, <2>1, CollectedTwice
  <2>3. QED
    BY <1>2, <2>1, <2>2
<1>4. /\ g.rule = s[1].rule /\ g.severity = worst_severity(s) /\ g.total_hits = Len(s)
      /\ g.files = FileOccurrences(s) /\ g.sample_evidence = take(Evidence(s), Samples)
      /\ g.actions = Actions(s)
  BY <1>1 DEF GroupedFinding
<1>5. s[1].rule = r
  <2>1. PICK i \in Of(r) : s[1] = findings[i]
    BY <1>3, SameElements
  <2>2. QED
    BY <2>1 DEF Of
<1>6. /\ {s[k].severity : k \in DOMAIN s} = {findings[i].severity : i \in Of(r)}
      /\ {s[k].match : k \in DOMAIN s} = {findings[i].match : i \in Of(r)}
  <2>1. PICK S : S = Of(r)
    OBVIOUS
  <2>2. /\ \A k \in DOMAIN s : \E i \in S : s[k] = findings[i]
        /\ \A i \in S : \E k \in DOMAIN s : s[k] = findings[i]
    BY <1>3, <2>1, SameElements
  <2>3. QED
    BY <2>1, <2>2
<1>7. g.severity \in Severity /\ IsWorst(g.severity, {findings[i].severity : i \in Of(r)})
  BY <1>2, <1>3, <1>4, <1>6, WorstIs
<1>8. g.total_hits = Cardinality(Of(r)) /\ g.total_hits \in Nat \ {0}
  <2>1. Len(s) = Cardinality(Of(r))
    BY <1>2, <1>3, CollectedSize
  <2>2. Len(s) \in Nat \ {0}
    BY <1>2, <1>3
  <2>3. QED
    BY <1>4, <2>1, <2>2
<1>9. TellsFiles(g.files, r)
  BY <1>2, <1>3, <1>4, OccurrencesTell
<1>10. g.sample_evidence \in Seq({findings[i].match : i \in Of(r)})
  <2>1. PICK T : T = {s[k].match : k \in DOMAIN s}
    OBVIOUS
  <2>2. Evidence(s) \in Seq(T)
    BY <1>2, <2>1, EvidenceIs
  <2>3. Samples \in Nat
    BY ReportsAssumption
  <2>4. take(Evidence(s), Samples) \in Seq(T)
    BY <2>2, <2>3, Taken
  <2>5. QED
    BY <1>4, <1>6, <2>1, <2>4
<1>11. TellsActions(g.actions, Of(r))
  BY <1>2, <1>3, <1>4, ActionsTell
<1>12. QED
  BY <1>4, <1>5, <1>7, <1>8, <1>9, <1>10, <1>11 DEF TellsRule
-----------------------------------------------------------------------------
\* From nothing nothing is collected, and nothing from nothing else.
LEMMA NothingCollected ==
    ASSUME NEW T, NEW b \in Seq(T), NEW s
    PROVE  Collects(b, s, {}) <=> b = << >>
<1>1. ASSUME Collects(b, s, {}) PROVE b = << >>
  <2>1. PICK M : M \in [DOMAIN b -> {}]
    BY <1>1 DEF Collects
  <2>2. DOMAIN b = {}
    BY <2>1
  <2>3. QED
    BY <2>2
<1>2. ASSUME b = << >> PROVE Collects(b, s, {})
  <2>1. PICK M : M = [k \in DOMAIN b |-> k]
    OBVIOUS
  <2>2. DOMAIN b = {} /\ M \in [DOMAIN b -> {}]
    BY <1>2, <2>1
  <2>3. QED
    BY <2>2 DEF Collects
<1>3. QED
  BY <1>1, <1>2

\* Pushing one more element collects it.
LEMMA OneMoreCollected ==
    ASSUME NEW T, NEW b \in Seq(T), NEW s, NEW S, Collects(b, s, S),
           NEW j, j \notin S, s[j] \in T, NEW c, c = Append(b, s[j]), NEW W, W = S \cup {j}
    PROVE  c \in Seq(T) /\ Collects(c, s, W)
<1>1. PICK M \in [DOMAIN b -> S] :
         /\ \A k \in DOMAIN b : b[k] = s[M[k]]
         /\ \A k, l \in DOMAIN b : M[k] = M[l] => k = l
         /\ \A i \in S : \E k \in DOMAIN b : M[k] = i
  BY DEF Collects
<1>2. PICK n : n = Len(b) + 1
  OBVIOUS
<1>3. /\ c \in Seq(T) /\ DOMAIN c = 1..n /\ DOMAIN b = 1..(n - 1) /\ n \in Nat /\ n >= 1
      /\ \A k \in DOMAIN b : c[k] = b[k]
      /\ c[n] = s[j]
  BY <1>2
<1>4. \A k \in DOMAIN c : k = n \/ k \in DOMAIN b
  BY <1>3
<1>5. n \notin DOMAIN b /\ n \in DOMAIN c /\ \A k \in DOMAIN b : k \in DOMAIN c
  BY <1>3
<1>6. PICK N : N = [k \in DOMAIN c |-> IF k = n THEN j ELSE M[k]]
  OBVIOUS
<1>7. N[n] = j /\ (\A k \in DOMAIN b : N[k] = M[k] /\ M[k] \in S)
  BY <1>1, <1>5, <1>6
<1>8. N \in [DOMAIN c -> W]
  BY <1>4, <1>6, <1>7
<1>9. ASSUME NEW k \in DOMAIN c PROVE c[k] = s[N[k]]
  <2>1. CASE k = n
    BY <1>3, <1>7, <2>1
  <2>2. CASE k \in DOMAIN b
    BY <1>1, <1>3, <1>7, <2>2
  <2>3. QED
    BY <1>4, <2>1, <2>2
<1>10. ASSUME NEW k \in DOMAIN c, NEW l \in DOMAIN c, N[k] = N[l] PROVE k = l
  <2>1. CASE k = n /\ l = n
    BY <2>1
  <2>2. CASE k = n /\ l \in DOMAIN b
    BY <1>7, <1>10, <2>2
  <2>3. CASE k \in DOMAIN b /\ l = n
    BY <1>7, <1>10, <2>3
  <2>4. CASE k \in DOMAIN b /\ l \in DOMAIN b
    BY <1>1, <1>7, <1>10, <2>4
  <2>5. QED
    BY <1>4, <2>1, <2>2, <2>3, <2>4
<1>11. ASSUME NEW i \in W PROVE \E k \in DOMAIN c : N[k] = i
  <2>1. CASE i = j
    BY <1>5, <1>7, <2>1
  <2>2. CASE i \in S
    <3>1. PICK k \in DOMAIN b : M[k] = i
      BY <1>1, <2>2
    <3>2. QED
      BY <1>5, <1>7, <3>1
  <2>3. QED
    BY <2>1, <2>2
<1>12. Collects(c, s, W)
  BY <1>8, <1>9, <1>10, <1>11, Zenon DEF Collects
<1>13. QED
  BY <1>3, <1>12

-----------------------------------------------------------------------------
\* What has been said of the CBOM when it is built.
LEMMA CbomBuilt ==
    ASSUME NEW s \in Seq(Finding), NEW c, c = Cbom(s), NEW i \in DOMAIN s
    PROVE  \E k \in DOMAIN c : /\ c[k].rule = s[i].rule /\ c[k].line = s[i].line
                               /\ c[k].file = s[i].file /\ c[k].match = s[i].match
<1>1. PICK T, t : /\ t = [j \in DOMAIN s |-> [rule |-> s[j].rule, file |-> s[j].file,
                                            line |-> s[j].line, match |-> s[j].match]]
                  /\ T = {t[j] : j \in DOMAIN s}
  OBVIOUS
<1>2. t \in Seq(T) /\ DOMAIN t = DOMAIN s
  BY <1>1
<1>3. c = Picked(t, FirstsOf(t))
  <2> DEFINE first(u) == {l \in DOMAIN u : \A j \in 1..(l - 1) : u[j] # u[l]}
             keep(u) == Picked(u, first(u))
  <2>1. keep(t) = Picked(t, FirstsOf(t))
    BY DEF FirstsOf
  <2>2. c = CHOOSE r \in {keep(u) : u \in {t}} : TRUE
    BY <1>1 DEF Cbom, KeepFirst, Once
  <2> HIDE DEF keep
  <2>3. {keep(u) : u \in {t}} = {keep(t)}
    OBVIOUS
  <2>4. QED
    BY <2>1, <2>2, <2>3
<1>4. PICK M : KeptFrom(t, t, c, M)
  BY <1>2, <1>3, KeptKeys
<1>5. PICK k \in DOMAIN c : t[M[k]] = t[i]
  BY <1>2, <1>4 DEF KeptFrom
<1>6. c[k] = t[i]
  BY <1>4, <1>5 DEF KeptFrom
<1>7. QED
  BY <1>1, <1>6

\* The invariant holds of a scan's findings and its CBOM.
LEMMA InitInv == Init => Inv
<1> SUFFICES ASSUME Init PROVE Inv
  OBVIOUS
<1>1. /\ findings \in Seq(Finding) /\ ScanOrder(findings)
      /\ phase = "sanitize" /\ at = 1 /\ cbom = Cbom(findings)
  BY ReportsAssumption DEF Init
<1>2. Cleaned = 0 /\ Distributed = 0 /\ Reached = 0
  BY <1>1 DEF Cleaned, Distributed, Reached, Upto
<1>3. Loops
  <2>1. at \in 1..(Len(findings) + 1)
    BY <1>1
  <2>2. QED
    BY <1>1, <2>1 DEF Loops
<1>4. Masking
  BY <1>2 DEF Masking
<1>5. CbomKept
  <2>1. PICK s \in Seq(Finding) : s = findings
    BY <1>1
  <2>2. ASSUME NEW i \in DOMAIN findings
        PROVE  \E k \in DOMAIN cbom : /\ cbom[k].rule = findings[i].rule
                                      /\ cbom[k].line = findings[i].line
                                      /\ cbom[k].file = findings[i].file
                                      /\ cbom[k].match = findings[i].match
    BY <1>1, <2>1, CbomBuilt
  <2>3. \A i \in DOMAIN findings : ~(i <= Cleaned)
    <3>1. \A i \in DOMAIN findings : i \in Nat /\ i >= 1
      BY <1>1
    <3>2. QED
      BY <1>2, <3>1
  <2>4. QED
    BY <2>2, <2>3 DEF CbomKept
<1>6. Buckets
  <2>1. DOMAIN buckets = Rules /\ \A r \in Rules : buckets[r] = << >>
    BY DEF Init
  <2>2. \A r \in Rules : buckets[r] \in Seq(Finding) /\ Collects(buckets[r], findings, {})
    <3>1. PICK e : e = << >>
      OBVIOUS
    <3>2. e \in Seq(Finding)
      BY <3>1
    <3>3. Collects(e, findings, {})
      BY <3>1, <3>2, NothingCollected
    <3>4. QED
      BY <2>1, <3>1, <3>2, <3>3
  <2>3. \A r \in Rules : {i \in Of(r) : i <= Distributed} = {}
    BY <1>1, <1>2 DEF Of
  <2>4. QED
    BY <2>1, <2>2, <2>3 DEF Buckets
<1>7. Groups
  BY <1>1 DEF Init, Groups
<1>8. Documents
  BY <1>2 DEF Init, Documents
<1>9. Sarif
  <2>1. levels = << >> /\ results = << >>
    BY DEF Init
  <2>2. DOMAIN levels = {}
    BY <2>1
  <2>3. results \in Seq({to_result(f) : f \in Finding}) /\ Len(results) = 0
    BY <2>1
  <2>4. {findings[i].rule : i \in 1..Reached} = {} /\ 1..Reached = {}
    BY <1>2
  <2>5. QED
    BY <1>2, <2>2, <2>3, <2>4 DEF Sarif
<1>10. Shown
  BY <1>1 DEF Init, Shown, Read
<1>11. QED
  BY <1>3, <1>4, <1>5, <1>6, <1>7, <1>8, <1>9, <1>10 DEF Inv
-----------------------------------------------------------------------------
\* What is sanitized shows neither a key nor a secret.
LEMMA SanitizedMasked ==
    /\ \A t \in Texts : sanitize_text_fragment(t) \in Masked
    /\ \A s \in Seq(Texts) : SanitizedSnippet(s) \in Seq(Masked)
    /\ Masked \subseteq Texts
<1>1. \A t \in Texts : sanitize_text_fragment(t) \in Masked
  BY DEF Texts, Masked, sanitize_text_fragment
<1>2. ASSUME NEW s \in Seq(Texts) PROVE SanitizedSnippet(s) \in Seq(Masked)
  <2>1. PICK c : c = SanitizedSnippet(s)
    OBVIOUS
  <2>2. /\ DOMAIN c = DOMAIN s
        /\ \A i \in DOMAIN s : s[i] \in Texts /\ c[i] = sanitize_text_fragment(s[i])
    BY <2>1 DEF SanitizedSnippet
  <2>3. c = [i \in DOMAIN s |-> c[i]]
    BY <2>1, <2>2 DEF SanitizedSnippet
  <2>4. \A i \in DOMAIN s : c[i] \in Masked
    BY <1>1, <2>2
  <2>5. c \in [1..Len(s) -> Masked] /\ Len(s) \in Nat
    BY <2>3, <2>4
  <2>6. QED
    BY <2>1, <2>5
<1>3. QED
  BY <1>1, <1>2 DEF Masked

\* How a finding is sanitized.
SanitizedFinding(f, g) ==
    /\ g \in Finding /\ Clean(g)
    /\ g.rule = f.rule /\ g.severity = f.severity /\ g.file = f.file /\ g.line = f.line
    /\ g.match = sanitize_text_fragment(f.match)

\* The loop does that to one finding and to no other.
LEMMA SanitizingOne ==
    ASSUME Inv, sanitize_scan_result
    PROVE  /\ at \in 1..Len(findings)
           /\ findings' \in Seq(Finding) /\ Len(findings') = Len(findings)
           /\ DOMAIN findings' = DOMAIN findings
           /\ \A i \in DOMAIN findings : i # at => findings'[i] = findings[i]
           /\ SanitizedFinding(findings[at], findings'[at])
<1>1. findings \in Seq(Finding) /\ at \in 1..Len(findings) /\ at \in DOMAIN findings
  BY DEF Inv, Loops, sanitize_scan_result
<1>2. findings[at] \in Finding
  BY <1>1
<1>3. PICK f : f = findings[at] /\ f \in Finding
  BY <1>2
<1>4. PICK g : g = [f EXCEPT !.match = sanitize_text_fragment(@),
                              !.preview = sanitize_text_fragment(@),
                              !.snippet = SanitizedSnippet(@)]
  OBVIOUS
<1>5. /\ f = findings[at] /\ f \in Finding
      /\ g = [f EXCEPT !.match = sanitize_text_fragment(@),
                       !.preview = sanitize_text_fragment(@),
                       !.snippet = SanitizedSnippet(@)]
  BY <1>3, <1>4
<1>6. /\ f.match \in Texts /\ f.preview \in Texts /\ f.snippet \in Seq(Texts)
      /\ f = [rule |-> f.rule, severity |-> f.severity, file |-> f.file, line |-> f.line,
              column |-> f.column, match |-> f.match, preview |-> f.preview,
              snippet |-> f.snippet, actions |-> f.actions]
  BY <1>5 DEF Finding
<1>7. g = [rule |-> f.rule, severity |-> f.severity, file |-> f.file, line |-> f.line,
           column |-> f.column, match |-> sanitize_text_fragment(f.match),
           preview |-> sanitize_text_fragment(f.preview),
           snippet |-> SanitizedSnippet(f.snippet), actions |-> f.actions]
  BY <1>5, <1>6
<1>8. /\ sanitize_text_fragment(f.match) \in Masked /\ sanitize_text_fragment(f.match) \in Texts
      /\ sanitize_text_fragment(f.preview) \in Texts
      /\ SanitizedSnippet(f.snippet) \in Seq(Masked) /\ SanitizedSnippet(f.snippet) \in Seq(Texts)
  <2>1. /\ sanitize_text_fragment(f.match) \in Masked
        /\ sanitize_text_fragment(f.preview) \in Masked
        /\ SanitizedSnippet(f.snippet) \in Seq(Masked) /\ Masked \subseteq Texts
    BY <1>6, SanitizedMasked
  <2>2. SanitizedSnippet(f.snippet) \in Seq(Texts)
    BY <2>1
  <2>3. QED
    BY <2>1, <2>2
<1>9. /\ f.rule \in Rules /\ f.severity \in Severity /\ f.file \in Files
      /\ f.line \in Nat /\ f.column \in Nat /\ f.actions \in Seq(ActionIds)
  BY <1>5 DEF Finding
<1>10. g \in Finding
  BY <1>7, <1>8, <1>9 DEF Finding
<1>11. SanitizedFinding(f, g)
  <2>1. /\ g.rule = f.rule /\ g.severity = f.severity /\ g.file = f.file /\ g.line = f.line
        /\ g.match = sanitize_text_fragment(f.match) /\ g.snippet = SanitizedSnippet(f.snippet)
    BY <1>7
  <2>2. QED
    BY <1>8, <1>10, <2>1 DEF SanitizedFinding, Clean
<1>12. findings' = [findings EXCEPT ![at] = g]
  BY <1>1, <1>5 DEF sanitize_scan_result
<1>13. QED
  BY <1>1, <1>5, <1>10, <1>11, <1>12

\* So the invariant stays: one more finding is masked, and nothing else
\* depends on what is masked.
LEMMA SanitizeStep == ASSUME Inv, sanitize_scan_result PROVE Inv'
<1>1. PICK n, a : n = Len(findings) /\ a = at
  OBVIOUS
<1>2. /\ a \in 1..n /\ n \in Nat /\ DOMAIN findings = 1..n /\ findings \in Seq(Finding)
      /\ findings' \in Seq(Finding) /\ Len(findings') = n /\ DOMAIN findings' = 1..n
      /\ \A i \in 1..n : i # a => findings'[i] = findings[i]
      /\ SanitizedFinding(findings[a], findings'[a])
  BY <1>1, SanitizingOne DEF Inv, Loops
<1>3. /\ phase = "sanitize" /\ phase' = "sanitize" /\ at' = a + 1
      /\ UNCHANGED <<cbom, buckets, groups, levels, results, html, markdown, cbom_rows, opened>>
  BY <1>1 DEF sanitize_scan_result, written
<1>4. /\ Cleaned = a - 1 /\ Cleaned' = a
      /\ Distributed = 0 /\ Distributed' = 0 /\ Reached = 0 /\ Reached' = 0
  BY <1>1, <1>2, <1>3 DEF Cleaned, Distributed, Reached, Upto
<1>5. \A i \in 1..n : /\ findings'[i].rule = findings[i].rule
                      /\ findings'[i].severity = findings[i].severity
                      /\ findings'[i].file = findings[i].file
                      /\ findings'[i].line = findings[i].line
  BY <1>2 DEF SanitizedFinding
<1>6. Loops'
  <2>1. ScanOrder(findings)'
    BY <1>2, <1>5 DEF Inv, Loops, ScanOrder
  <2>2. at' \in 1..(n + 1)
    BY <1>2, <1>3
  <2>3. QED
    BY <1>2, <1>3, <2>1, <2>2 DEF Loops
<1>7. Masking'
  <2>1. \A i \in 1..(a - 1) : Clean(findings[i])
    BY <1>4 DEF Inv, Masking
  <2>2. ASSUME NEW i \in 1..a PROVE Clean(findings'[i])
    <3>1. CASE i = a
      BY <1>2, <3>1 DEF SanitizedFinding
    <3>2. CASE i # a
      <4>1. i \in 1..(a - 1) /\ i \in 1..n
        BY <1>2, <3>2
      <4>2. QED
        BY <1>2, <2>1, <3>2, <4>1
    <3>3. QED
      BY <3>1, <3>2
  <2>3. QED
    BY <1>4, <2>2 DEF Masking
<1>8. CbomKept'
  <2>1. ASSUME NEW i \in 1..n
        PROVE  \E k \in DOMAIN cbom :
                 /\ cbom[k].rule = findings'[i].rule /\ cbom[k].line = findings'[i].line
                 /\ cbom[k].file = findings'[i].file
                 /\ findings'[i].match = IF i <= a THEN sanitize_text_fragment(cbom[k].match)
                                         ELSE cbom[k].match
    <3>1. PICK k \in DOMAIN cbom :
            /\ cbom[k].rule = findings[i].rule /\ cbom[k].line = findings[i].line
            /\ cbom[k].file = findings[i].file
            /\ findings[i].match = IF i <= a - 1 THEN sanitize_text_fragment(cbom[k].match)
                                   ELSE cbom[k].match
      BY <1>2, <1>4 DEF Inv, CbomKept
    <3>2. findings'[i].match = IF i <= a THEN sanitize_text_fragment(cbom[k].match)
                               ELSE cbom[k].match
      <4>1. CASE i = a
        BY <1>2, <3>1, <4>1 DEF SanitizedFinding
      <4>2. CASE i # a
        BY <1>2, <3>1, <4>2
      <4>3. QED
        BY <4>1, <4>2
    <3>3. QED
      BY <1>5, <3>1, <3>2
  <2>2. QED
    BY <1>2, <1>3, <1>4, <2>1 DEF CbomKept
<1>9. Buckets'
  <2>1. ASSUME NEW r \in Rules PROVE buckets[r] = << >> /\ buckets[r] \in Seq(Finding)
    <3>1. {i \in Of(r) : i <= 0} = {}
      BY <1>2 DEF Of
    <3>2. QED
      BY <1>4, <3>1, NothingCollected DEF Inv, Buckets
  <2>2. ASSUME NEW r \in Rules PROVE Collects(buckets[r], findings', {})
    BY <2>1, NothingCollected
  <2>3. ASSUME NEW r \in Rules PROVE {i \in Of(r)' : i <= 0} = {}
    BY <1>2 DEF Of
  <2>4. DOMAIN buckets = Rules
    BY DEF Inv, Buckets
  <2>5. QED
    BY <1>3, <1>4, <2>1, <2>2, <2>3, <2>4 DEF Buckets
<1>10. Groups'
  BY <1>3 DEF Inv, Groups
<1>11. Documents'
  BY <1>3, <1>4 DEF Inv, Documents
<1>12. Sarif'
  <2>1. 1..Reached = {} /\ (1..Reached)' = {}
    BY <1>4
  <2>2. DOMAIN levels = {} /\ Len(results) = 0 /\ results \in Seq({to_result(f) : f \in Finding})
    BY <1>4, <2>1 DEF Inv, Sarif
  <2>3. QED
    BY <1>3, <1>4, <2>1, <2>2 DEF Sarif
<1>13. Shown'
  BY <1>3 DEF Inv, Shown, Panels, Read
<1>14. QED
  BY <1>6, <1>7, <1>8, <1>9, <1>10, <1>11, <1>12, <1>13 DEF Inv
-----------------------------------------------------------------------------
\* How far the loops are once a phase is over.
LEMMA AtEnd ==
    ASSUME Inv, at > Len(findings)
    PROVE  at - 1 = Len(findings) /\ Len(findings) \in Nat
<1>1. at \in 1..(Len(findings) + 1) /\ Len(findings) \in Nat
  BY DEF Inv, Loops
<1>2. QED
  BY <1>1

\* What a step keeps that moves neither a finding nor a loop over them.
LEMMA FindingsKept ==
    ASSUME Inv, UNCHANGED <<findings, cbom, buckets>>,
           Cleaned' = Cleaned, Distributed' = Distributed
    PROVE  Masking' /\ CbomKept' /\ Buckets'
<1>1. Masking'
  BY DEF Inv, Masking, Clean
<1>2. CbomKept'
  BY DEF Inv, CbomKept
<1>3. Buckets'
  <2>1. \A r : Of(r)' = Of(r)
    BY DEF Of
  <2>2. QED
    BY <2>1 DEF Inv, Buckets
<1>4. QED
  BY <1>1, <1>2, <1>3

\* Nor one that moves no SARIF result.
LEMMA SarifKept ==
    ASSUME Inv, UNCHANGED <<findings, levels, results>>, Reached' = Reached
    PROVE  Sarif'
<1>1. \A r : Of(r)' = Of(r)
  BY DEF Of
<1>2. QED
  BY <1>1 DEF Inv, Sarif

\* A phase ends and the next begins.
LEMMA EndStep == ASSUME Inv, Sanitized \/ Bucketed \/ Written PROVE Inv'
<1>1. /\ UNCHANGED <<findings, cbom, buckets, groups, levels, results>>
      /\ UNCHANGED <<html, markdown, cbom_rows, opened>>
      /\ at > Len(findings) /\ at' = 1
      /\ \/ phase = "sanitize" /\ phase' = "bucket"
         \/ phase = "bucket" /\ phase' = "group"
         \/ phase = "sarif" /\ phase' = "read"
  BY DEF Sanitized, Bucketed, Written, EndOf, written
<1>2. at - 1 = Len(findings) /\ Len(findings) \in Nat
  BY <1>1, AtEnd
<1>3. Cleaned' = Cleaned /\ Distributed' = Distributed /\ Reached' = Reached
  BY <1>1, <1>2 DEF Cleaned, Distributed, Reached, Upto
<1>4. Loops'
  <2>1. at' \in 1..(Len(findings) + 1)
    BY <1>1, <1>2
  <2>2. QED
    BY <1>1, <2>1 DEF Inv, Loops, ScanOrder
<1>5. Masking' /\ CbomKept' /\ Buckets' /\ Sarif'
  BY <1>1, <1>3, FindingsKept, SarifKept
<1>6. Groups'
  BY <1>1 DEF Inv, Groups, Filled, GroupOf
<1>7. Documents'
  BY <1>1, <1>3 DEF Inv, Documents, AllWritten
<1>8. Shown'
  <2>1. opened = {} /\ opened' = {}
    BY <1>1 DEF Inv, Shown, Read
  <2>2. QED
    BY <2>1 DEF Shown
<1>9. QED
  BY <1>4, <1>5, <1>6, <1>7, <1>8 DEF Inv

\* A finding goes into the bucket of its rule.
LEMMA BucketStep == ASSUME Inv, BucketFinding PROVE Inv'
<1>1. PICK a, r0, f : a = at /\ f = findings[a] /\ r0 = f.rule
  OBVIOUS
<1>2. /\ phase = "bucket" /\ phase' = "bucket" /\ at' = a + 1
      /\ buckets' = [buckets EXCEPT ![r0] = Append(@, f)]
      /\ UNCHANGED <<findings, cbom, groups, levels, results>>
      /\ UNCHANGED <<html, markdown, cbom_rows, opened>>
  BY <1>1 DEF BucketFinding, written
<1>3. /\ a \in 1..Len(findings) /\ a \in DOMAIN findings /\ Len(findings) \in Nat
      /\ findings \in Seq(Finding)
  BY <1>1 DEF Inv, Loops, BucketFinding
<1>4. f \in Finding /\ r0 \in Rules
  <2>1. f \in Finding
    BY <1>1, <1>3
  <2>2. QED
    BY <1>1, <2>1 DEF Finding
<1>5. /\ Cleaned' = Cleaned /\ Distributed = a - 1 /\ Distributed' = a
      /\ Reached = 0 /\ Reached' = 0
  BY <1>1, <1>2, <1>3 DEF Cleaned, Distributed, Reached, Upto
<1>6. Loops'
  <2>1. at' \in 1..(Len(findings) + 1)
    BY <1>2, <1>3
  <2>2. QED
    BY <1>2, <2>1 DEF Inv, Loops, ScanOrder
<1>7. Masking' /\ CbomKept'
  BY <1>2, <1>5 DEF Inv, Masking, CbomKept, Clean
<1>8. Buckets'
  <2>1. DOMAIN buckets = Rules /\ DOMAIN buckets' = Rules
    BY <1>2 DEF Inv, Buckets
  <2>2. ASSUME NEW r \in Rules
        PROVE  buckets'[r] \in Seq(Finding)
               /\ Collects(buckets'[r], findings, {i \in Of(r) : i <= a})
    <3>1. PICK b, c, S, W : /\ b = buckets[r] /\ c = buckets'[r]
                            /\ S = {i \in Of(r) : i <= a - 1} /\ W = {i \in Of(r) : i <= a}
      OBVIOUS
    <3>2. b \in Seq(Finding) /\ Collects(b, findings, S)
      BY <1>5, <3>1 DEF Inv, Buckets
    <3>3. CASE r = r0
      <4>1. c = Append(b, findings[a]) /\ findings[a] \in Finding
        BY <1>1, <1>2, <1>4, <2>1, <3>1, <3>3
      <4>2. W = S \cup {a} /\ a \notin S
        BY <1>1, <1>3, <3>1, <3>3 DEF Of
      <4>3. c \in Seq(Finding) /\ Collects(c, findings, W)
        BY <3>2, <4>1, <4>2, OneMoreCollected
      <4>4. QED
        BY <3>1, <4>3
    <3>4. CASE r # r0
      <4>1. c = b
        BY <1>2, <2>1, <3>1, <3>4
      <4>2. W = S
        BY <1>1, <1>3, <3>1, <3>4 DEF Of
      <4>3. QED
        BY <3>1, <3>2, <4>1, <4>2
    <3>5. QED
      BY <3>3, <3>4
  <2>3. \A r : Of(r)' = Of(r)
    BY <1>2 DEF Of
  <2>4. QED
    BY <1>2, <1>5, <2>1, <2>2, <2>3 DEF Buckets
<1>9. Groups'
  <2>1. groups' = << >>
    BY <1>2 DEF Inv, Groups
  <2>2. QED
    BY <1>2, <2>1 DEF Groups
<1>10. Documents'
  <2>1. html = << >> /\ markdown = << >> /\ cbom_rows = << >>
    BY <1>2 DEF Inv, Documents
  <2>2. ~(Reached > 0)'
    BY <1>5
  <2>3. QED
    BY <1>2, <2>1, <2>2 DEF Documents
<1>11. Sarif'
  BY <1>2, <1>5, SarifKept
<1>12. Shown'
  BY <1>2 DEF Inv, Shown, Read, Panels
<1>13. QED
  BY <1>6, <1>7, <1>8, <1>9, <1>10, <1>11, <1>12 DEF Inv
-----------------------------------------------------------------------------
\* Once all findings are in buckets, a group tells of all findings of its rule.
LEMMA BucketsFull ==
    ASSUME Inv, phase \notin {"sanitize", "bucket"}
    PROVE  \A r \in Rules : /\ r \in Filled <=> Of(r) # {}
                            /\ r \in Filled => TellsRule(GroupOf(r), r)
<1> TAKE r \in Rules
<1>1. Distributed = Len(findings) /\ findings \in Seq(Finding)
  BY DEF Inv, Loops, Distributed, Upto
<1>2. {i \in Of(r) : i <= Distributed} = Of(r)
  BY <1>1 DEF Of
<1>3. PICK b : b = buckets[r] /\ b \in Seq(Finding) /\ Collects(b, findings, Of(r))
  BY <1>2 DEF Inv, Buckets
<1>4. b = << >> <=> Of(r) = {}
  <2>1. ASSUME Of(r) = {} PROVE b = << >>
    BY <1>3, <2>1, NothingCollected
  <2>2. ASSUME b = << >>, NEW i \in Of(r) PROVE FALSE
    <3>1. \E k \in DOMAIN b : b[k] = findings[i]
      BY <1>3, SameElements
    <3>2. QED
      BY <2>2, <3>1
  <2>3. QED
    BY <2>1, <2>2
<1>5. r \in Filled <=> b # << >>
  BY <1>3 DEF Filled
<1>6. ASSUME b # << >> PROVE TellsRule(GroupOf(r), r)
  <2>1. PICK g : g = GroupedFinding(ByPlace(b))
    OBVIOUS
  <2>2. TellsRule(g, r)
    BY <1>1, <1>3, <1>6, <2>1, GroupTells
  <2>3. QED
    BY <1>3, <2>1, <2>2 DEF GroupOf
<1>7. QED
  BY <1>4, <1>5, <1>6

\* The groups there are tell of their rules.
LEMMA GroupsTell ==
    ASSUME Inv, phase \notin {"sanitize", "bucket"}, NEW k \in DOMAIN groups
    PROVE  /\ groups[k].rule \in Filled /\ groups[k].rule \in Rules
           /\ groups[k] = GroupOf(groups[k].rule)
           /\ TellsRule(groups[k], groups[k].rule)
<1>1. groups[k] \in {GroupOf(r) : r \in Filled}
  <2>1. groups \in Seq({GroupOf(r) : r \in Filled})
    BY DEF Inv, Groups
  <2>2. QED
    BY <2>1
<1>2. PICK r \in Filled : groups[k] = GroupOf(r)
  BY <1>1
<1>3. r \in Rules
  BY DEF Filled
<1>4. TellsRule(groups[k], r)
  BY <1>2, <1>3, BucketsFull
<1>5. groups[k].rule = r
  BY <1>4 DEF TellsRule
<1>6. QED
  BY <1>2, <1>3, <1>4, <1>5

\* A bucket becomes a group.
LEMMA GroupStep == ASSUME Inv, NEW r \in Rules, GroupBucket(r) PROVE Inv'
<1>1. PICK g, m : g = GroupOf(r) /\ m = Len(groups)
  OBVIOUS
<1>2. /\ phase = "group" /\ phase' = "group" /\ groups' = Append(groups, g)
      /\ \A k \in DOMAIN groups : groups[k].rule < r
      /\ UNCHANGED <<findings, cbom, at, buckets, levels, results>>
      /\ UNCHANGED <<html, markdown, cbom_rows, opened>>
  BY <1>1 DEF GroupBucket, GroupOf, written
<1>3. r \in Filled
  BY DEF GroupBucket, Filled
<1>4. PICK T : T = {GroupOf(q) : q \in Filled}
  OBVIOUS
<1>5. groups \in Seq(T) /\ g \in T /\ m \in Nat /\ DOMAIN groups = 1..m
  BY <1>1, <1>3, <1>4 DEF Inv, Groups
<1>6. g.rule = r /\ r \in Nat
  <2>1. TellsRule(g, r)
    BY <1>1, <1>2, <1>3, BucketsFull
  <2>2. QED
    BY <2>1, ReportsAssumption DEF TellsRule
<1>7. /\ groups' \in Seq(T) /\ DOMAIN groups' = 1..(m + 1) /\ groups'[m + 1] = g
      /\ \A k \in 1..m : groups'[k] = groups[k]
  BY <1>1, <1>2, <1>5
<1>8. ASSUME NEW j \in DOMAIN groups', NEW k \in DOMAIN groups', groups'[j].rule = groups'[k].rule
      PROVE  j = k
  <2>1. \A l \in 1..m : groups[l].rule < r /\ groups[l].rule \in Nat
    <3>1. \A l \in 1..m : groups[l].rule \in Rules
      BY <1>2, <1>5, GroupsTell
    <3>2. QED
      BY <1>2, <1>5, <3>1, ReportsAssumption
  <2>2. \A l \in 1..(m + 1) : l = m + 1 \/ l \in 1..m
    BY <1>5
  <2>3. CASE j \in 1..m /\ k \in 1..m
    <3>1. groups[j].rule = groups[k].rule
      BY <1>7, <1>8, <2>3
    <3>2. QED
      BY <1>5, <2>3, <3>1 DEF Inv, Groups
  <2>4. CASE j = m + 1 /\ k \in 1..m
    BY <1>6, <1>7, <1>8, <2>1, <2>4
  <2>5. CASE j \in 1..m /\ k = m + 1
    BY <1>6, <1>7, <1>8, <2>1, <2>5
  <2>6. QED
    BY <1>7, <2>2, <2>3, <2>4, <2>5
<1>9. Filled' = Filled /\ \A q : GroupOf(q)' = GroupOf(q)
  BY <1>2 DEF Filled, GroupOf
<1>10. Groups'
  <2>1. groups' \in Seq({GroupOf(q) : q \in Filled})
    BY <1>4, <1>7
  <2>2. QED
    BY <1>2, <1>8, <1>9, <2>1 DEF Groups
<1>11. Cleaned' = Cleaned /\ Distributed' = Distributed /\ Reached' = Reached /\ Reached = 0
  BY <1>2 DEF Cleaned, Distributed, Reached, Upto
<1>12. Masking' /\ CbomKept' /\ Buckets' /\ Sarif'
  BY <1>2, <1>11, FindingsKept, SarifKept
<1>13. Loops'
  BY <1>2 DEF Inv, Loops, ScanOrder
<1>14. Documents'
  <2>1. html = << >> /\ markdown = << >> /\ cbom_rows = << >>
    BY <1>2 DEF Inv, Documents
  <2>2. ~(Reached > 0)'
    BY <1>11
  <2>3. QED
    BY <1>2, <2>1, <2>2 DEF Documents
<1>15. Shown'
  BY <1>2 DEF Inv, Shown, Read, Panels
<1>16. QED
  BY <1>10, <1>12, <1>13, <1>14, <1>15 DEF Inv
-----------------------------------------------------------------------------
\* Of two numbers the larger has the smaller negative.
LEMMA Negated ==
    ASSUME NEW p \in Int, NEW q \in Int, NEW u, u = 0 - p, NEW v, v = 0 - q
    PROVE  /\ u \in Int /\ v \in Int
           /\ u < v <=> p > q
           /\ v < u <=> q > p
           /\ u = v <=> p = q
OBVIOUS

\* What the order of groups needs to know of them.
Comparable(g) ==
    /\ \A k \in DOMAIN g : g[k].severity \in Int /\ g[k].total_hits \in Int /\ g[k].rule \in Int
    /\ \A j, k \in DOMAIN g : g[j].rule = g[k].rule => j = k

\* Sorting the groups moves them, and puts each before those it is before of.
LEMMA GroupsSorted ==
    ASSUME NEW T, NEW g \in Seq(T), Comparable(g), NEW s, s = StableSort(g, Before)
    PROVE  /\ s \in Seq(T)
           /\ \A j, k \in DOMAIN s : s[j].rule = s[k].rule => j = k
           /\ \A i \in DOMAIN g : \E k \in DOMAIN s : s[k] = g[i]
           /\ \A j, k \in DOMAIN s : j < k => Before(s[j], s[k])
<1>1. PICK R, D : /\ D = DOMAIN g
                  /\ R = {p \in D \X D : \/ Before(g[p[1]], g[p[2]])
                                         \/ ~Before(g[p[2]], g[p[1]]) /\ p[1] < p[2]}
  OBVIOUS
<1>2. D \in SUBSET Nat
  BY <1>1
<1>3. PICK x, y, z : /\ x = [i \in D |-> 0 - g[i].severity]
                     /\ y = [i \in D |-> 0 - g[i].total_hits]
                     /\ z = [i \in D |-> g[i].rule]
  OBVIOUS
<1>4. \A i \in D : /\ g[i].severity \in Int /\ g[i].total_hits \in Int /\ g[i].rule \in Int
                   /\ x[i] = 0 - g[i].severity /\ y[i] = 0 - g[i].total_hits
                   /\ z[i] = g[i].rule /\ i \in Nat
  BY <1>1, <1>2, <1>3 DEF Comparable
<1>5. x \in [D -> Int] /\ y \in [D -> Int] /\ z \in [D -> Int]
  <2>1. \A i \in D : 0 - g[i].severity \in Int /\ 0 - g[i].total_hits \in Int
    BY <1>4
  <2>2. QED
    BY <1>3, <1>4, <2>1
<1>6. ASSUME NEW d \in D, NEW e \in D
      PROVE  /\ <<d, e>> \in R <=> KeysBefore(x, y, z, d, e)
             /\ d # e /\ <<d, e>> \in R => Before(g[d], g[e])
  <2>1. <<d, e>> \in R <=> \/ Before(g[d], g[e])
                           \/ ~Before(g[e], g[d]) /\ d < e
    BY <1>1
  <2>2. /\ g[d].severity \in Int /\ g[d].total_hits \in Int /\ g[d].rule \in Int
        /\ x[d] = 0 - g[d].severity /\ y[d] = 0 - g[d].total_hits /\ z[d] = g[d].rule /\ d \in Nat
        /\ g[e].severity \in Int /\ g[e].total_hits \in Int /\ g[e].rule \in Int
        /\ x[e] = 0 - g[e].severity /\ y[e] = 0 - g[e].total_hits /\ z[e] = g[e].rule /\ e \in Nat
    BY <1>4
  <2>3. d # e => g[d].rule # g[e].rule
    BY <1>1 DEF Comparable
  <2>4. /\ x[d] \in Int /\ x[e] \in Int /\ y[d] \in Int /\ y[e] \in Int
        /\ z[d] \in Int /\ z[e] \in Int
        /\ x[d] < x[e] <=> g[d].severity > g[e].severity
        /\ x[e] < x[d] <=> g[e].severity > g[d].severity
        /\ x[d] = x[e] <=> g[d].severity = g[e].severity
        /\ y[d] < y[e] <=> g[d].total_hits > g[e].total_hits
        /\ y[e] < y[d] <=> g[e].total_hits > g[d].total_hits
        /\ y[d] = y[e] <=> g[d].total_hits = g[e].total_hits
        /\ d \in Nat /\ e \in Nat
    <3>1. /\ x[d] \in Int /\ x[e] \in Int
          /\ x[d] < x[e] <=> g[d].severity > g[e].severity
          /\ x[e] < x[d] <=> g[e].severity > g[d].severity
          /\ x[d] = x[e] <=> g[d].severity = g[e].severity
      <4>1. PICK p, q, u, v : /\ p = g[d].severity /\ q = g[e].severity
                              /\ u = x[d] /\ v = x[e]
        OBVIOUS
      <4>2. p \in Int /\ q \in Int /\ u = 0 - p /\ v = 0 - q
        BY <2>2, <4>1
      <4>3. /\ u \in Int /\ v \in Int
            /\ u < v <=> p > q
            /\ v < u <=> q > p
            /\ u = v <=> p = q
        BY <4>2, Negated
      <4>4. QED
        BY <4>1, <4>3
    <3>2. /\ y[d] \in Int /\ y[e] \in Int
          /\ y[d] < y[e] <=> g[d].total_hits > g[e].total_hits
          /\ y[e] < y[d] <=> g[e].total_hits > g[d].total_hits
          /\ y[d] = y[e] <=> g[d].total_hits = g[e].total_hits
      <4>1. PICK p, q, u, v : /\ p = g[d].total_hits /\ q = g[e].total_hits
                              /\ u = y[d] /\ v = y[e]
        OBVIOUS
      <4>2. p \in Int /\ q \in Int /\ u = 0 - p /\ v = 0 - q
        BY <2>2, <4>1
      <4>3. /\ u \in Int /\ v \in Int
            /\ u < v <=> p > q
            /\ v < u <=> q > p
            /\ u = v <=> p = q
        BY <4>2, Negated
      <4>4. QED
        BY <4>1, <4>3
    <3>3. QED
      BY <2>2, <3>1, <3>2
  <2>5. /\ Before(g[d], g[e]) <=>
              \/ x[d] < x[e]
              \/ x[d] = x[e] /\ y[d] < y[e]
              \/ x[d] = x[e] /\ y[d] = y[e] /\ z[d] < z[e]
        /\ Before(g[e], g[d]) <=>
              \/ x[e] < x[d]
              \/ x[e] = x[d] /\ y[e] < y[d]
              \/ x[e] = x[d] /\ y[e] = y[d] /\ z[e] < z[d]
    BY <2>2, <2>4, Zenon DEF Before
  <2>6. z[d] = z[e] => d = e
    BY <2>2, <2>3
  <2>7. <<d, e>> \in R <=> KeysBefore(x, y, z, d, e)
    <3>1. /\ x[d] \in Int /\ x[e] \in Int /\ y[d] \in Int /\ y[e] \in Int
          /\ z[d] \in Int /\ z[e] \in Int /\ d \in Nat /\ e \in Nat
      BY <2>4
    <3>2. QED
      BY <2>1, <2>5, <3>1 DEF KeysBefore
  <2>8. ASSUME d # e, <<d, e>> \in R PROVE Before(g[d], g[e])
    BY <2>1, <2>4, <2>5, <2>6, <2>8
  <2>9. QED
    BY <2>7, <2>8
<1>7. Orders(R, D)
  BY <1>2, <1>5, <1>6, ThreeKeys
<1>8. PICK M : M = Listed(D, R)
  OBVIOUS
<1>9. s = Through(g, M)
  <2> DEFINE sort(t) == Through(t, Listed(DOMAIN t,
                          {p \in (DOMAIN t) \X (DOMAIN t) :
                              \/ Before(t[p[1]], t[p[2]])
                              \/ ~Before(t[p[2]], t[p[1]]) /\ p[1] < p[2]}))
  <2>1. sort(g) = Through(g, M)
    BY <1>1, <1>8
  <2>2. s = CHOOSE r \in {sort(t) : t \in {g}} : TRUE
    BY DEF StableSort, Once
  <2> HIDE DEF sort
  <2>3. {sort(t) : t \in {g}} = {sort(g)}
    OBVIOUS
  <2>4. QED
    BY <2>1, <2>2, <2>3
<1>10. /\ Runs(M, D, R) /\ M \in [D -> D]
       /\ \A i \in D : \E k \in D : M[k] = i
       /\ \A k, l \in D : M[k] = M[l] => k = l
       /\ s = [k \in D |-> g[M[k]]] /\ s \in Seq(T)
  <2>1. Orders(R, DOMAIN g) /\ M = Listed(DOMAIN g, R)
    BY <1>1, <1>7, <1>8
  <2>2. /\ Runs(M, DOMAIN g, R) /\ M \in [DOMAIN g -> DOMAIN g]
        /\ \A i \in DOMAIN g : \E k \in DOMAIN g : M[k] = i
        /\ \A k, l \in DOMAIN g : M[k] = M[l] => k = l
        /\ Through(g, M) = [k \in DOMAIN g |-> g[M[k]]]
        /\ Through(g, M) \in Seq(T)
    BY <2>1, SortedPositions
  <2>3. QED
    BY <1>1, <1>9, <2>2
<1>11. DOMAIN s = D /\ \A k \in D : M[k] \in D /\ s[k] = g[M[k]]
  BY <1>10
<1>12. ASSUME NEW j \in D, NEW k \in D, s[j].rule = s[k].rule PROVE j = k
  <2>1. M[j] \in DOMAIN g /\ M[k] \in DOMAIN g /\ g[M[j]].rule = g[M[k]].rule
    BY <1>1, <1>11, <1>12
  <2>2. M[j] = M[k]
    BY <2>1 DEF Comparable
  <2>3. QED
    BY <1>10, <2>2
<1>13. ASSUME NEW i \in D PROVE \E k \in D : s[k] = g[i]
  BY <1>10, <1>11
<1>14. ASSUME NEW j \in D, NEW k \in D, j < k PROVE Before(s[j], s[k])
  <2>1. D = 1..Cardinality(D)
    <3>1. PICK n \in Nat : D = 1..n
      BY <1>1, LenProperties
    <3>2. QED
      BY <3>1, IntervalSize
  <2>2. <<M[j], M[k]>> \in R
    BY <1>10, <1>14, <2>1 DEF Runs
  <2>3. M[j] # M[k]
    BY <1>2, <1>10, <1>14
  <2>4. QED
    BY <1>6, <1>11, <2>2, <2>3
<1>15. QED
  BY <1>1, <1>10, <1>11, <1>12, <1>13, <1>14

\* All groups are there, and sorted.
LEMMA SortStep == ASSUME Inv, SortGroups PROVE Inv'
<1>1. /\ phase = "group" /\ phase' = "sarif" /\ at' = 1 /\ groups' = StableSort(groups, Before)
      /\ \A r \in Rules : buckets[r] # << >> => \E k \in DOMAIN groups : groups[k].rule = r
      /\ UNCHANGED <<findings, cbom, buckets, levels, results, html, markdown, cbom_rows, opened>>
  BY DEF SortGroups, written
<1>2. PICK T, g : T = {GroupOf(r) : r \in Filled} /\ g = groups
  OBVIOUS
<1>3. g \in Seq(T)
  BY <1>2 DEF Inv, Groups
<1>4. Comparable(g)
  <2>1. ASSUME NEW k \in DOMAIN g
        PROVE  g[k].severity \in Int /\ g[k].total_hits \in Int /\ g[k].rule \in Int
    <3>1. /\ g[k].severity \in Severity /\ g[k].total_hits \in Nat \ {0} /\ g[k].rule \in Rules
      BY <1>1, <1>2, GroupsTell DEF TellsRule
    <3>2. \A v \in Severity : v \in Int
      BY DEF Severity, Info, Critical
    <3>3. \A q \in Rules : q \in Int
      BY ReportsAssumption
    <3>4. QED
      BY <3>1, <3>2, <3>3
  <2>2. \A j, k \in DOMAIN g : g[j].rule = g[k].rule => j = k
    BY <1>2 DEF Inv, Groups
  <2>3. QED
    BY <2>1, <2>2 DEF Comparable
<1>5. PICK s : s = groups' /\ s = StableSort(g, Before)
  BY <1>1, <1>2
<1>6. /\ s \in Seq(T)
      /\ \A j, k \in DOMAIN s : s[j].rule = s[k].rule => j = k
      /\ \A i \in DOMAIN g : \E k \in DOMAIN s : s[k] = g[i]
      /\ \A j, k \in DOMAIN s : j < k => Before(s[j], s[k])
  BY <1>3, <1>4, <1>5, GroupsSorted
<1>7. Filled' = Filled /\ \A q : GroupOf(q)' = GroupOf(q)
  BY <1>1 DEF Filled, GroupOf
<1>8. ASSUME NEW r \in Filled PROVE \E k \in DOMAIN s : s[k] = GroupOf(r)
  <2>1. r \in Rules /\ buckets[r] # << >>
    BY DEF Filled
  <2>2. PICK i \in DOMAIN groups : groups[i].rule = r
    BY <1>1, <2>1
  <2>3. groups[i] = GroupOf(r)
    BY <1>1, <2>2, GroupsTell
  <2>4. QED
    BY <1>2, <1>6, <2>2, <2>3
<1>9. Groups'
  <2>1. s \in Seq({GroupOf(r) : r \in Filled})
    BY <1>2, <1>6
  <2>2. QED
    <3>1. (groups \in Seq({GroupOf(r) : r \in Filled}))'
      BY <1>5, <1>7, <2>1
    <3>2. (\A r \in Filled : \E k \in DOMAIN groups : groups[k] = GroupOf(r))'
      BY <1>5, <1>7, <1>8
    <3>3. (\A j, k \in DOMAIN groups : groups[j].rule = groups[k].rule => j = k)'
      BY <1>5, <1>6
    <3>4. (\A j, k \in DOMAIN groups : j < k => Before(groups[j], groups[k]))'
      <4>1. \A j, k \in DOMAIN groups' : j < k => Before(groups'[j], groups'[k])
        BY <1>5, <1>6
      <4>2. QED
        BY <4>1
    <3>5. QED
      BY <1>1, <3>1, <3>2, <3>3, <3>4 DEF Groups
<1>10. Cleaned' = Cleaned /\ Distributed' = Distributed /\ Reached' = Reached /\ Reached = 0
  BY <1>1 DEF Cleaned, Distributed, Reached, Upto
<1>11. Masking' /\ CbomKept' /\ Buckets' /\ Sarif'
  BY <1>1, <1>10, FindingsKept, SarifKept
<1>12. Loops'
  <2>1. at' \in 1..(Len(findings) + 1)
    BY <1>1 DEF Inv, Loops
  <2>2. QED
    BY <1>1, <2>1 DEF Inv, Loops, ScanOrder
<1>13. Documents'
  <2>1. html = << >> /\ markdown = << >> /\ cbom_rows = << >>
    BY <1>1 DEF Inv, Documents
  <2>2. ~(Reached > 0)'
    BY <1>10
  <2>3. QED
    BY <1>1, <2>1, <2>2 DEF Documents
<1>14. Shown'
  BY <1>1 DEF Inv, Shown, Read, Panels
<1>15. QED
  BY <1>9, <1>11, <1>12, <1>13, <1>14 DEF Inv
-----------------------------------------------------------------------------
\* The HTML and Markdown documents are written.
LEMMA WriteStep == ASSUME Inv, WriteHtmlAndMarkdown PROVE Inv'
<1>1. /\ phase = "sarif" /\ AllWritten'
      /\ UNCHANGED <<findings, cbom, phase, at, buckets, groups, levels, results, opened>>
  BY DEF WriteHtmlAndMarkdown, AllWritten
<1>2. Cleaned' = Cleaned /\ Distributed' = Distributed /\ Reached' = Reached
  BY <1>1 DEF Cleaned, Distributed, Reached, Upto
<1>3. Masking' /\ CbomKept' /\ Buckets' /\ Sarif'
  BY <1>1, <1>2, FindingsKept, SarifKept
<1>4. Loops'
  BY <1>1 DEF Inv, Loops, ScanOrder
<1>5. Groups'
  BY <1>1 DEF Inv, Groups, Filled, GroupOf
<1>6. Documents'
  BY <1>1 DEF Documents
<1>7. Shown'
  <2>1. opened = {} /\ opened' = {}
    BY <1>1 DEF Inv, Shown, Read
  <2>2. QED
    BY <1>1, <2>1 DEF Shown
<1>8. QED
  BY <1>3, <1>4, <1>5, <1>6, <1>7 DEF Inv

\* A finding becomes a SARIF result, and decides the level of its rule if it
\* is the first of it.
LEMMA CollectStep == ASSUME Inv, CollectRuleAndResult PROVE Inv'
<1>1. PICK a, f : a = at /\ f = findings[a]
  OBVIOUS
<1>2. /\ phase = "sarif" /\ phase' = "sarif" /\ html # << >> /\ at' = a + 1
      /\ levels' = DefaultLevel(f) /\ results' = Append(results, to_result(f))
      /\ UNCHANGED <<findings, cbom, buckets, groups, html, markdown, cbom_rows, opened>>
  BY <1>1 DEF CollectRuleAndResult
<1>3. /\ a \in 1..Len(findings) /\ a \in DOMAIN findings /\ Len(findings) \in Nat
      /\ findings \in Seq(Finding) /\ f \in Finding
  <2>1. a \in 1..Len(findings) /\ findings \in Seq(Finding)
    BY <1>1 DEF Inv, Loops, CollectRuleAndResult
  <2>2. QED
    BY <1>1, <2>1
<1>4. Cleaned' = Cleaned /\ Distributed' = Distributed /\ Reached = a - 1 /\ Reached' = a
  BY <1>1, <1>2, <1>3 DEF Cleaned, Distributed, Reached, Upto
<1>5. Masking' /\ CbomKept' /\ Buckets'
  BY <1>2, <1>4, FindingsKept
<1>6. Loops'
  <2>1. at' \in 1..(Len(findings) + 1)
    BY <1>2, <1>3
  <2>2. QED
    BY <1>2, <2>1 DEF Inv, Loops, ScanOrder
<1>7. Groups'
  BY <1>2 DEF Inv, Groups, Filled, GroupOf
<1>8. Documents'
  <2>1. AllWritten
    BY <1>2 DEF Inv, Documents
  <2>2. AllWritten'
    BY <1>2, <2>1 DEF AllWritten
  <2>3. QED
    BY <1>2, <2>2 DEF Documents
<1>9. Sarif'
  <2>1. \A r : Of(r)' = Of(r)
    BY <1>2 DEF Of
  <2>2. /\ DOMAIN levels = {findings[i].rule : i \in 1..(a - 1)}
        /\ \A r \in DOMAIN levels : \E i \in Of(r) :
             /\ levels[r] = severity_to_level(findings[i].severity)
             /\ \A j \in Of(r) : i <= j
    BY <1>4 DEF Inv, Sarif
  <2>3. /\ DOMAIN levels' = DOMAIN levels \cup {f.rule}
        /\ \A r \in DOMAIN levels : levels'[r] = levels[r]
        /\ f.rule \notin DOMAIN levels => levels'[f.rule] = severity_to_level(f.severity)
    BY <1>2 DEF DefaultLevel
  <2>4. DOMAIN levels' = {findings[i].rule : i \in 1..a}
    <3>1. \A i : i \in 1..a <=> i \in 1..(a - 1) \/ i = a
      BY <1>3
    <3>2. QED
      BY <1>1, <2>2, <2>3, <3>1
  <2>5. ASSUME NEW r \in DOMAIN levels'
        PROVE  \E i \in Of(r) : /\ levels'[r] = severity_to_level(findings[i].severity)
                                /\ \A j \in Of(r) : i <= j
    <3>1. CASE r \in DOMAIN levels
      BY <2>2, <2>3, <3>1
    <3>2. CASE r \notin DOMAIN levels
      <4>1. r = f.rule /\ a \in Of(r) /\ levels'[r] = severity_to_level(findings[a].severity)
        BY <1>1, <1>3, <2>3, <3>2 DEF Of
      <4>2. ASSUME NEW j \in Of(r) PROVE a <= j
        <5>1. j \in 1..Len(findings) /\ findings[j].rule = r
          BY <1>3 DEF Of
        <5>2. j \notin 1..(a - 1)
          BY <2>2, <3>2, <5>1
        <5>3. QED
          BY <1>3, <5>1, <5>2
      <4>3. QED
        BY <4>1, <4>2
    <3>3. QED
      BY <3>1, <3>2
  <2>6. /\ results' \in Seq({to_result(g) : g \in Finding}) /\ Len(results') = a
        /\ \A i \in 1..a : results'[i] = to_result(findings[i])
    <3>1. PICK T, t : T = {to_result(g) : g \in Finding} /\ t = to_result(f)
      OBVIOUS
    <3>2. t \in T
      BY <1>3, <3>1
    <3>3. /\ results \in Seq(T) /\ Len(results) = a - 1
          /\ \A i \in 1..(a - 1) : results[i] = to_result(findings[i])
      BY <1>4, <3>1 DEF Inv, Sarif
    <3>4. /\ results' \in Seq(T) /\ Len(results') = a /\ results'[a] = t
          /\ \A i \in 1..(a - 1) : results'[i] = results[i]
      BY <1>2, <1>3, <3>1, <3>2, <3>3
    <3>5. \A i \in 1..a : i \in 1..(a - 1) \/ i = a
      BY <1>3
    <3>6. QED
      BY <1>1, <3>1, <3>3, <3>4, <3>5
  <2>7. QED
    BY <1>2, <1>4, <2>1, <2>4, <2>5, <2>6 DEF Sarif
<1>10. Shown'
  BY <1>2 DEF Inv, Shown, Read, Panels
<1>11. QED
  BY <1>5, <1>6, <1>7, <1>8, <1>9, <1>10 DEF Inv

-----------------------------------------------------------------------------
\* A panel is that of a group and a row.
LEMMA PanelTypes ==
    ASSUME Inv, NEW p \in Panels
    PROVE  /\ p = <<p[1], p[2]>> /\ p[1] \in Nat /\ p[2] \in Nat
           /\ p[1] \in DOMAIN html /\ p[2] \in DOMAIN html[p[1]].rows
           /\ html[p[1]].rows[p[2]].snippets # << >>
<1>1. PICK k \in DOMAIN html :
        p \in {<<k, i>> : i \in {j \in DOMAIN html[k].rows : html[k].rows[j].snippets # << >>}}
  BY DEF Panels
<1>2. PICK i \in DOMAIN html[k].rows : p = <<k, i>> /\ html[k].rows[i].snippets # << >>
  BY <1>1
<1>3. /\ AllWritten /\ phase \in {"sarif", "read", "done"}
      /\ k \in DOMAIN groups /\ html[k] = HtmlArticle(groups[k])
  <2>1. html # << >>
    BY <1>1
  <2>2. AllWritten /\ phase \in {"sarif", "read", "done"}
    BY <2>1 DEF Inv, Documents
  <2>3. QED
    BY <1>1, <2>2 DEF AllWritten
<1>4. k \in Nat
  BY <1>3 DEF Inv, Groups
<1>5. i \in Nat
  <2>1. TellsFiles(groups[k].files, groups[k].rule)
    BY <1>3, GroupsTell DEF TellsRule
  <2>2. DOMAIN html[k].rows = DOMAIN groups[k].files
    BY <1>3 DEF HtmlArticle
  <2>3. PICK n \in Nat : DOMAIN groups[k].files = 1..n
    BY <2>1 DEF TellsFiles
  <2>4. QED
    BY <1>2, <2>2, <2>3
<1>6. QED
  BY <1>2, <1>4, <1>5

\* Of the panels with an id one is the first.
LEMMA FirstPanel ==
    ASSUME Inv, NEW p \in Panels, NEW e, e = getElementById(panel_id(p))
    PROVE  e \in Panels /\ panel_id(e) = panel_id(p)
<1>1. PICK id, S : id = panel_id(p) /\ S = {q \in Panels : panel_id(q) = id}
  OBVIOUS
<1>2. p \in S /\ \A q \in S : q[1] \in Nat /\ q[2] \in Nat
  BY <1>1, PanelTypes
<1>3. PICK A : A = {q[1] : q \in S}
  OBVIOUS
<1>4. A \in SUBSET Nat /\ A # {}
  BY <1>2, <1>3
<1>5. PICK k \in A : \A l \in A : k <= l
  BY <1>4, LeastNumber
<1>6. PICK B : B = {q[2] : q \in {o \in S : o[1] = k}}
  OBVIOUS
<1>7. B \in SUBSET Nat /\ B # {}
  BY <1>2, <1>3, <1>5, <1>6
<1>8. PICK i \in B : \A j \in B : i <= j
  BY <1>7, LeastNumber
<1>9. PICK o \in S : o[1] = k /\ o[2] = i
  BY <1>6, <1>8
<1>10. ASSUME NEW q \in S PROVE o[1] < q[1] \/ (o[1] = q[1] /\ o[2] <= q[2])
  <2>1. q[1] \in Nat /\ q[2] \in Nat /\ k \in Nat /\ k <= q[1]
    BY <1>2, <1>3, <1>4, <1>5
  <2>2. CASE q[1] = k
    <3>1. q[2] \in B
      BY <1>6, <2>2
    <3>2. QED
      BY <1>8, <1>9, <2>2, <3>1
  <2>3. CASE q[1] # k
    BY <1>9, <2>1, <2>3
  <2>4. QED
    BY <2>2, <2>3
<1>11. e = CHOOSE q \in Panels :
              /\ panel_id(q) = id
              /\ \A x \in Panels : panel_id(x) = id =>
                    q[1] < x[1] \/ (q[1] = x[1] /\ q[2] <= x[2])
  BY <1>1 DEF getElementById
<1>12. /\ o \in Panels /\ panel_id(o) = id
       /\ \A q \in Panels : panel_id(q) = id => o[1] < q[1] \/ (o[1] = q[1] /\ o[2] <= q[2])
  BY <1>1, <1>10
<1>13. QED
  BY <1>1, <1>11, <1>12

\* A click, and the end.
LEMMA ReadStep ==
    ASSUME Inv, (\E p \in Panels : ClickFile(p)) \/ Close \/ UNCHANGED vars
    PROVE  Inv'
<1>1. /\ UNCHANGED <<findings, cbom, at, buckets, groups, levels, results>>
      /\ UNCHANGED <<html, markdown, cbom_rows>>
      /\ \/ phase' = phase
         \/ phase = "read" /\ phase' = "done"
  BY DEF ClickFile, Close, vars, written
<1>2. Cleaned' = Cleaned /\ Distributed' = Distributed /\ Reached' = Reached
  BY <1>1 DEF Cleaned, Distributed, Reached, Upto
<1>3. Masking' /\ CbomKept' /\ Buckets' /\ Sarif'
  BY <1>1, <1>2, FindingsKept, SarifKept
<1>4. Loops'
  BY <1>1 DEF Inv, Loops, ScanOrder
<1>5. Groups'
  BY <1>1 DEF Inv, Groups, Filled, GroupOf
<1>6. Documents'
  BY <1>1, <1>2 DEF Inv, Documents, AllWritten
<1>7. Panels' = Panels /\ opened \subseteq Panels
  BY <1>1 DEF Inv, Shown, Panels
<1>8. Shown'
  <2>1. CASE \E p \in Panels : ClickFile(p)
    <3>1. PICK p \in Panels : ClickFile(p)
      BY <2>1
    <3>2. PICK e : e = getElementById(panel_id(p))
      OBVIOUS
    <3>3. /\ phase = "read" /\ phase' = "read"
          /\ opened' = IF e \in opened THEN opened \ {e} ELSE opened \cup {e}
      BY <3>1, <3>2 DEF ClickFile
    <3>4. e \in Panels
      BY <3>2, FirstPanel
    <3>5. QED
      BY <1>7, <3>3, <3>4 DEF Shown, Read
  <2>2. CASE Close
    BY <1>7, <2>2 DEF Close, Shown, Read
  <2>3. CASE UNCHANGED vars
    BY <1>1, <1>7, <2>3 DEF vars, Inv, Shown, Read
  <2>4. QED
    BY <2>1, <2>2, <2>3
<1>9. QED
  BY <1>3, <1>4, <1>5, <1>6, <1>8 DEF Inv

\* Every step keeps the invariant.
LEMMA NextInv == ASSUME Inv, [Next]_vars PROVE Inv'
<1>1. CASE sanitize_scan_result
  BY <1>1, SanitizeStep
<1>2. CASE Sanitized \/ Bucketed \/ Written
  BY <1>2, EndStep
<1>3. CASE BucketFinding
  BY <1>3, BucketStep
<1>4. CASE \E r \in Rules : GroupBucket(r)
  BY <1>4, GroupStep
<1>5. CASE SortGroups
  BY <1>5, SortStep
<1>6. CASE WriteHtmlAndMarkdown
  BY <1>6, WriteStep
<1>7. CASE CollectRuleAndResult
  BY <1>7, CollectStep
<1>8. CASE (\E p \in Panels : ClickFile(p)) \/ Close \/ UNCHANGED vars
  BY <1>8, ReadStep
<1>9. QED
  BY <1>1, <1>2, <1>3, <1>4, <1>5, <1>6, <1>7, <1>8 DEF Next, Terminated

\* So it holds of every report, of any scan.
LEMMA Invariance == Spec => []Inv
<1>1. Init => Inv
  BY InitInv
<1>2. Inv /\ [Next]_vars => Inv'
  BY NextInv
<1>3. QED
  BY <1>1, <1>2, PTL DEF Spec
-----------------------------------------------------------------------------
\* The findings of a rule are finitely many, and those in a file some of them.
LEMMA OfFinite ==
    ASSUME findings \in Seq(Finding), NEW r
    PROVE  /\ IsFiniteSet(Of(r)) /\ Cardinality(Of(r)) \in Nat
           /\ \A f : /\ In(r, f) \subseteq Of(r) /\ IsFiniteSet(In(r, f))
                     /\ Cardinality(In(r, f)) \in Nat
                     /\ Cardinality(In(r, f)) <= Cardinality(Of(r))
                     /\ In(r, f) # {} => Cardinality(In(r, f)) >= 1
<1>1. PICK n \in Nat : DOMAIN findings = 1..n
  BY LenProperties
<1>2. Of(r) \subseteq 1..n /\ IsFiniteSet(1..n)
  BY <1>1, FS_Interval DEF Of
<1>3. IsFiniteSet(Of(r)) /\ Cardinality(Of(r)) \in Nat
  BY <1>2, FS_Subset, FS_CardinalityType
<1>4. ASSUME NEW f
      PROVE  /\ In(r, f) \subseteq Of(r) /\ IsFiniteSet(In(r, f))
             /\ Cardinality(In(r, f)) \in Nat
             /\ Cardinality(In(r, f)) <= Cardinality(Of(r))
             /\ In(r, f) # {} => Cardinality(In(r, f)) >= 1
  <2>1. PICK S, W : S = Of(r) /\ W = In(r, f)
    OBVIOUS
  <2>2. W \subseteq S /\ IsFiniteSet(S)
    BY <1>3, <2>1 DEF In
  <2>3. IsFiniteSet(W) /\ Cardinality(W) <= Cardinality(S)
    BY <2>2, FS_Subset
  <2>4. Cardinality(W) \in Nat
    BY <2>3, FS_CardinalityType
  <2>5. W # {} => Cardinality(W) # 0
    BY <2>3, FS_EmptySet
  <2>6. QED
    BY <2>1, <2>2, <2>3, <2>4, <2>5
<1>5. QED
  BY <1>3, <1>4

\* The loops stay within the findings, groups count some of the findings of
\* their rules, and only panels are open.
LEMMA InvTypes == Inv => TypeOK
<1> SUFFICES ASSUME Inv PROVE TypeOK
  OBVIOUS
<1>1. findings \in Seq(Finding)
  BY DEF Inv, Loops
<1>2. ASSUME NEW i \in DOMAIN findings
      PROVE  findings[i].match \in Texts /\ findings[i].severity \in Severity
  <2>1. findings[i] \in Finding
    BY <1>1
  <2>2. QED
    BY <2>1 DEF Finding
<1>3. ASSUME NEW k \in DOMAIN groups, NEW i \in DOMAIN groups[k].files
      PROVE  /\ groups[k].files[i].hits \in 1..groups[k].total_hits
             /\ \A l \in DOMAIN groups[k].files[i].lines :
                  groups[k].files[i].lines[l] \in Nat \ {0}
  <2>1. phase \notin {"sanitize", "bucket"}
    BY DEF Inv, Groups
  <2>2. PICK r, g, o : /\ g = groups[k] /\ r = g.rule /\ o = g.files[i] /\ TellsRule(g, r)
    BY <2>1, GroupsTell
  <2>3. PICK S : /\ S = In(r, o.file) /\ S # {} /\ TellsFile(o, S)
    BY <2>2 DEF TellsRule, TellsFiles
  <2>4. o.hits \in 1..g.total_hits
    <3>1. o.hits = Cardinality(S) /\ g.total_hits = Cardinality(Of(r))
      BY <2>2, <2>3 DEF TellsRule, TellsFile
    <3>2. /\ Cardinality(S) \in Nat /\ Cardinality(Of(r)) \in Nat
          /\ Cardinality(S) <= Cardinality(Of(r)) /\ Cardinality(S) >= 1
      BY <1>1, <2>3, OfFinite
    <3>3. QED
      BY <3>1, <3>2
  <2>5. ASSUME NEW l \in DOMAIN o.lines PROVE o.lines[l] \in Nat \ {0}
    <3>1. o.lines \in Seq({findings[j].line : j \in S} \ {0})
      BY <2>3 DEF TellsFile
    <3>2. PICK j \in S : o.lines[l] = findings[j].line /\ o.lines[l] # 0
      BY <3>1
    <3>3. findings[j] \in Finding
      BY <1>1, <2>3 DEF In, Of
    <3>4. QED
      BY <3>2, <3>3 DEF Finding
  <2>6. QED
    BY <2>2, <2>4, <2>5
<1>4. ASSUME NEW r \in DOMAIN levels
      PROVE  r \in Rules /\ levels[r] \in {"error", "warning", "note"}
  <2>1. PICK i \in Of(r) : levels[r] = severity_to_level(findings[i].severity)
    BY DEF Inv, Sarif
  <2>2. findings[i] \in Finding /\ findings[i].rule = r
    BY <1>1 DEF Of
  <2>3. QED
    BY <2>1, <2>2 DEF Finding, severity_to_level
<1>5. QED
  BY <1>2, <1>3, <1>4 DEF Inv, Loops, Shown, TypeOK

\* Every state is of its type, of reports on any findings of any rules and files.
THEOREM ReportTypes == Spec => []TypeOK
BY Invariance, InvTypes, PTL

-----------------------------------------------------------------------------
\* What a document says of its groups, in its rows and its numbers, is what
\* the groups say: k-th of k-th.
LaysOut(document) ==
    /\ DOMAIN document = DOMAIN groups
    /\ \A k \in DOMAIN groups :
         /\ document[k].rule = groups[k].rule /\ document[k].severity = groups[k].severity
         /\ document[k].hits = groups[k].total_hits /\ document[k].actions = groups[k].actions
         /\ DOMAIN document[k].rows = DOMAIN groups[k].files
         /\ \E n \in Nat \ {0} : \A j \in DOMAIN groups[k].files :
              /\ document[k].rows[j].file = groups[k].files[j].file
              /\ document[k].rows[j].hits = groups[k].files[j].hits
              /\ document[k].rows[j].lines = summarize_lines(groups[k].files[j].lines, n)

\* When the documents are read, they lay out all groups.
LEMMA DocumentsLayOut ==
    ASSUME Inv, Read
    PROVE  /\ \A document \in {html, markdown} : LaysOut(document)
           /\ phase \notin {"sanitize", "bucket"} /\ Cleaned = Len(findings)
           /\ Reached = Len(findings)
           /\ findings # << >> => AllWritten
<1>1. /\ phase \in {"sarif", "read", "done"} /\ phase \notin {"sanitize", "bucket"}
      /\ Cleaned = Len(findings) /\ Reached = Len(findings) /\ findings \in Seq(Finding)
  BY DEF Inv, Loops, Read, Cleaned, Reached, Upto
<1>2. ASSUME findings = << >> PROVE groups = << >>
  <2>1. ASSUME NEW k \in DOMAIN groups PROVE FALSE
    <3>1. Of(groups[k].rule) # {}
      BY <1>1, GroupsTell, BucketsFull
    <3>2. QED
      BY <1>2, <3>1 DEF Of
  <2>2. PICK T : groups \in Seq(T)
    BY DEF Inv, Groups
  <2>3. groups # << >> => 1 \in DOMAIN groups
    BY <2>2
  <2>4. QED
    BY <2>1, <2>3
<1>3. findings # << >> => AllWritten
  <2>1. findings # << >> => Reached > 0
    BY <1>1
  <2>2. QED
    BY <2>1 DEF Inv, Documents
<1>4. \/ AllWritten
      \/ groups = << >> /\ html = << >> /\ markdown = << >>
  BY <1>2, <1>3 DEF Inv, Documents
<1>5. LaysOut(html)
  <2>1. CASE AllWritten
    <3>1. /\ DOMAIN html = DOMAIN groups
          /\ \A k \in DOMAIN groups : html[k] = HtmlArticle(groups[k])
      BY <2>1 DEF AllWritten
    <3>2. ASSUME NEW k \in DOMAIN groups
          PROVE  /\ html[k].rule = groups[k].rule /\ html[k].severity = groups[k].severity
                 /\ html[k].hits = groups[k].total_hits /\ html[k].actions = groups[k].actions
                 /\ DOMAIN html[k].rows = DOMAIN groups[k].files
                 /\ \A j \in DOMAIN groups[k].files :
                      /\ html[k].rows[j].file = groups[k].files[j].file
                      /\ html[k].rows[j].hits = groups[k].files[j].hits
                      /\ html[k].rows[j].lines
                           = summarize_lines(groups[k].files[j].lines, HtmlLines)
      BY <3>1 DEF HtmlArticle, HtmlRow
    <3>3. HtmlLines \in Nat \ {0}
      BY ReportsAssumption
    <3>4. QED
      BY <3>1, <3>2, <3>3 DEF LaysOut
  <2>2. CASE groups = << >> /\ html = << >>
    BY <2>2 DEF LaysOut
  <2>3. QED
    BY <1>4, <2>1, <2>2
<1>6. LaysOut(markdown)
  <2>1. CASE AllWritten
    <3>1. /\ DOMAIN markdown = DOMAIN groups
          /\ \A k \in DOMAIN groups : markdown[k] = MarkdownSection(groups[k])
      BY <2>1 DEF AllWritten
    <3>2. ASSUME NEW k \in DOMAIN groups
          PROVE  /\ markdown[k].rule = groups[k].rule
                 /\ markdown[k].severity = groups[k].severity
                 /\ markdown[k].hits = groups[k].total_hits
                 /\ markdown[k].actions = groups[k].actions
                 /\ DOMAIN markdown[k].rows = DOMAIN groups[k].files
                 /\ \A j \in DOMAIN groups[k].files :
                      /\ markdown[k].rows[j].file = groups[k].files[j].file
                      /\ markdown[k].rows[j].hits = groups[k].files[j].hits
                      /\ markdown[k].rows[j].lines
                           = summarize_lines(groups[k].files[j].lines, MarkdownLines)
      BY <3>1 DEF MarkdownSection, MarkdownRow
    <3>3. MarkdownLines \in Nat \ {0}
      BY ReportsAssumption
    <3>4. QED
      BY <3>1, <3>2, <3>3 DEF LaysOut
  <2>2. CASE groups = << >> /\ markdown = << >>
    BY <2>2 DEF LaysOut
  <2>3. QED
    BY <1>4, <2>1, <2>2
<1>7. QED
  BY <1>1, <1>3, <1>5, <1>6
-----------------------------------------------------------------------------
\* Of the lines, those shown and those that are only counted are all.
LEMMA Summarized ==
    ASSUME NEW T, NEW s \in Seq(T), NEW n \in Nat \ {0}, NEW r, r = summarize_lines(s, n)
    PROVE  /\ Len(r.shown) + r.more = Len(s)
           /\ \A l \in DOMAIN r.shown : r.shown[l] \in T
           /\ r.unknown <=> s = << >>
<1>1. CASE s = << >>
  BY <1>1 DEF summarize_lines
<1>2. CASE s # << >>
  <2>1. PICK t : t = take(s, n)
    OBVIOUS
  <2>2. r = [shown |-> t, unknown |-> FALSE, more |-> IF Len(s) > n THEN Len(s) - n ELSE 0]
    BY <1>2, <2>1 DEF summarize_lines
  <2>3. /\ t \in Seq(T) /\ Len(t) = (IF Len(s) < n THEN Len(s) ELSE n)
        /\ Len(s) \in Nat
    BY <2>1, Taken
  <2>4. PICK m : m = IF Len(s) > n THEN Len(s) - n ELSE 0
    OBVIOUS
  <2>5. r.shown = t /\ r.unknown = FALSE /\ r.more = m
    BY <2>2, <2>4
  <2>6. Len(t) + m = Len(s)
    <3>1. CASE Len(s) > n
      BY <2>3, <2>4, <3>1
    <3>2. CASE ~(Len(s) > n)
      BY <2>3, <2>4, <3>2
    <3>3. QED
      BY <3>1, <3>2
  <2>7. QED
    BY <1>2, <2>3, <2>5, <2>6
<1>3. QED
  BY <1>1, <1>2

\* A rule with findings has one group, a rule without none.
LEMMA OneGroup ==
    ASSUME Inv, Read, NEW r \in Rules
    PROVE  Cardinality({k \in DOMAIN groups : groups[k].rule = r}) = IF Of(r) = {} THEN 0 ELSE 1
<1>1. phase \notin {"sanitize", "bucket"} /\ phase \in {"read", "done"}
  BY DEF Read
<1>2. PICK S : S = {k \in DOMAIN groups : groups[k].rule = r}
  OBVIOUS
<1>3. CASE Of(r) = {}
  <2>1. ASSUME NEW k \in S PROVE FALSE
    BY <1>1, <1>2, <1>3, BucketsFull, GroupsTell
  <2>2. S = {}
    BY <2>1
  <2>3. QED
    BY <1>2, <1>3, <2>2, FS_EmptySet
<1>4. CASE Of(r) # {}
  <2>1. r \in Filled /\ TellsRule(GroupOf(r), r)
    BY <1>1, <1>4, BucketsFull
  <2>2. PICK k \in DOMAIN groups : groups[k] = GroupOf(r)
    BY <1>1, <2>1 DEF Inv, Groups
  <2>3. groups[k].rule = r
    BY <2>1, <2>2 DEF TellsRule
  <2>4. \A j \in S : j = k
    BY <1>2, <2>2, <2>3 DEF Inv, Groups
  <2>5. S = {k}
    BY <1>2, <2>2, <2>3, <2>4
  <2>6. Cardinality(S) = 1
    BY <2>5, FS_Singleton
  <2>7. QED
    BY <1>2, <1>4, <2>6
<1>5. QED
  BY <1>3, <1>4

\* And one row for each file with findings of the rule.
LEMMA OneRow ==
    ASSUME NEW r, NEW rows, TellsFiles(rows, r), NEW i \in Of(r)
    PROVE  Cardinality({j \in DOMAIN rows : rows[j].file = findings[i].file}) = 1
<1>1. PICK S : S = {j \in DOMAIN rows : rows[j].file = findings[i].file}
  OBVIOUS
<1>2. PICK k \in DOMAIN rows : rows[k].file = findings[i].file
  BY DEF TellsFiles
<1>3. \A j \in S : j = k
  BY <1>1, <1>2 DEF TellsFiles
<1>4. S = {k}
  BY <1>1, <1>2, <1>3
<1>5. QED
  BY <1>1, <1>4, FS_Singleton

\* What a row accounts for.
LEMMA RowAccounts ==
    ASSUME findings \in Seq(Finding), NEW S \in SUBSET DOMAIN findings, NEW o, TellsFile(o, S),
           NEW n \in Nat \ {0}, NEW lines, lines = summarize_lines(o.lines, n),
           NEW known, known = {findings[i].line : i \in S} \ {0}
    PROVE  /\ o.hits = Cardinality(S)
           /\ Len(lines.shown) + lines.more = Cardinality(known)
           /\ \A l \in DOMAIN lines.shown : lines.shown[l] \in known
           /\ lines.unknown <=> known = {}
<1>1. PICK s, K, u : /\ s \in Seq(K) /\ Len(s) = Cardinality(K) /\ u = summarize_lines(s, n)
                     /\ s = o.lines /\ K = known /\ u = lines
  BY DEF TellsFile
<1>2. /\ Len(u.shown) + u.more = Len(s)
      /\ \A l \in DOMAIN u.shown : u.shown[l] \in K
      /\ u.unknown <=> s = << >>
  <2>1. s \in Seq(K) /\ u = summarize_lines(s, n)
    BY <1>1
  <2>2. QED
    BY <2>1, Summarized
<1>3. IsFiniteSet(known)
  <2>1. PICK m \in Nat : DOMAIN findings = 1..m
    BY LenProperties
  <2>2. PICK f : f = [i \in 1..m |-> findings[i].line]
    OBVIOUS
  <2>3. IsFiniteSet({f[i] : i \in 1..m})
    BY <2>2, ImageFinite
  <2>4. known \subseteq {f[i] : i \in 1..m}
    BY <2>1, <2>2
  <2>5. QED
    BY <2>3, <2>4, FS_Subset
<1>4. s = << >> <=> known = {}
  <2>1. Cardinality(known) = 0 <=> known = {}
    BY <1>3, FS_EmptySet
  <2>2. s = << >> <=> Len(s) = 0
    BY <1>1
  <2>3. QED
    BY <1>1, <2>1, <2>2
<1>5. o.hits = Cardinality(S)
  BY DEF TellsFile
<1>6. QED
  BY <1>1, <1>2, <1>4, <1>5

\* What the table of the CBOM says of each finding.
LEMMA CbomAccounts ==
    ASSUME Inv, Read, NEW i \in DOMAIN findings
    PROVE  \E k \in DOMAIN cbom_rows :
             /\ cbom[k].rule = findings[i].rule /\ cbom[k].line = findings[i].line
             /\ cbom_rows[k][1] = FileText[findings[i].file]
             /\ sanitize_text_fragment(cbom_rows[k][2]) = findings[i].match
<1>1. findings \in Seq(Finding) /\ Cleaned = Len(findings) /\ findings # << >> /\ AllWritten
  <2>1. findings \in Seq(Finding)
    BY DEF Inv, Loops
  <2>2. findings # << >>
    BY <2>1
  <2>3. QED
    BY <2>1, <2>2, DocumentsLayOut
<1>2. i <= Cleaned
  BY <1>1
<1>3. PICK k \in DOMAIN cbom :
        /\ cbom[k].rule = findings[i].rule /\ cbom[k].line = findings[i].line
        /\ cbom[k].file = findings[i].file
        /\ findings[i].match = sanitize_text_fragment(cbom[k].match)
  BY <1>2 DEF Inv, CbomKept
<1>4. k \in DOMAIN cbom_rows /\ cbom_rows[k] = <<FileText[cbom[k].file], cbom[k].match>>
  BY <1>1 DEF AllWritten, CbomRow
<1>5. QED
  BY <1>3, <1>4

\* So nothing is lost between the findings and the documents.
LEMMA InvAccounts == Inv => FindingsAccounted
<1> SUFFICES ASSUME Inv, Read PROVE FindingsAccounted
  BY DEF FindingsAccounted
<1>1. /\ findings \in Seq(Finding)
      /\ phase \notin {"sanitize", "bucket"} /\ phase \in {"sarif", "read", "done"}
  BY DEF Inv, Loops, Read
<1>2. ASSUME NEW document \in {html, markdown}
      PROVE  /\ \A r \in Rules : Cardinality({k \in DOMAIN document : document[k].rule = r})
                                   = IF Of(r) = {} THEN 0 ELSE 1
             /\ \A k \in DOMAIN document :
                  LET g == document[k]
                  IN  /\ g.hits = Cardinality(Of(g.rule))
                      /\ \A i \in Of(g.rule) :
                           Cardinality({j \in DOMAIN g.rows :
                                          g.rows[j].file = findings[i].file}) = 1
                      /\ \A j \in DOMAIN g.rows :
                           LET known == {findings[i].line : i \in In(g.rule, g.rows[j].file)} \ {0}
                               lines == g.rows[j].lines
                           IN  /\ g.rows[j].hits = Cardinality(In(g.rule, g.rows[j].file))
                               /\ Len(lines.shown) + lines.more = Cardinality(known)
                               /\ \A l \in DOMAIN lines.shown : lines.shown[l] \in known
                               /\ lines.unknown <=> known = {}
             /\ \A j, k \in DOMAIN document : j < k =>
                  \/ document[j].severity > document[k].severity
                  \/ /\ document[j].severity = document[k].severity
                     /\ document[j].hits >= document[k].hits
  <2>1. LaysOut(document)
    BY DocumentsLayOut
  <2>2. ASSUME NEW r \in Rules
        PROVE  Cardinality({k \in DOMAIN document : document[k].rule = r})
                 = IF Of(r) = {} THEN 0 ELSE 1
    <3>1. {k \in DOMAIN document : document[k].rule = r}
            = {k \in DOMAIN groups : groups[k].rule = r}
      BY <2>1 DEF LaysOut
    <3>2. QED
      BY <3>1, OneGroup
  <2>3. ASSUME NEW k \in DOMAIN document, NEW g, g = document[k]
        PROVE  /\ g.hits = Cardinality(Of(g.rule))
               /\ \A i \in Of(g.rule) :
                    Cardinality({j \in DOMAIN g.rows : g.rows[j].file = findings[i].file}) = 1
               /\ \A j \in DOMAIN g.rows :
                    LET known == {findings[i].line : i \in In(g.rule, g.rows[j].file)} \ {0}
                        lines == g.rows[j].lines
                    IN  /\ g.rows[j].hits = Cardinality(In(g.rule, g.rows[j].file))
                        /\ Len(lines.shown) + lines.more = Cardinality(known)
                        /\ \A l \in DOMAIN lines.shown : lines.shown[l] \in known
                        /\ lines.unknown <=> known = {}
    <3>1. PICK h, r : h = groups[k] /\ r = h.rule
      OBVIOUS
    <3>2. TellsRule(h, r) /\ k \in DOMAIN groups
      BY <1>1, <2>1, <2>3, <3>1, GroupsTell DEF LaysOut
    <3>3. /\ g.rule = r /\ g.hits = h.total_hits /\ DOMAIN g.rows = DOMAIN h.files
          /\ \E n \in Nat \ {0} : \A j \in DOMAIN h.files :
               /\ g.rows[j].file = h.files[j].file /\ g.rows[j].hits = h.files[j].hits
               /\ g.rows[j].lines = summarize_lines(h.files[j].lines, n)
      BY <2>1, <2>3, <3>1, <3>2 DEF LaysOut
    <3>4. g.hits = Cardinality(Of(g.rule))
      BY <3>2, <3>3 DEF TellsRule
    <3>5. ASSUME NEW i \in Of(g.rule)
          PROVE  Cardinality({j \in DOMAIN g.rows : g.rows[j].file = findings[i].file}) = 1
      <4>1. PICK rows : rows = h.files /\ TellsFiles(rows, r) /\ i \in Of(r)
        BY <3>2, <3>3, <3>5 DEF TellsRule
      <4>2. Cardinality({j \in DOMAIN rows : rows[j].file = findings[i].file}) = 1
        BY <4>1, OneRow
      <4>3. {j \in DOMAIN g.rows : g.rows[j].file = findings[i].file}
              = {j \in DOMAIN h.files : h.files[j].file = findings[i].file}
        BY <3>3
      <4>4. QED
        BY <4>1, <4>2, <4>3
    <3>6. ASSUME NEW j \in DOMAIN g.rows, NEW lines, lines = g.rows[j].lines,
                 NEW known, known = {findings[i].line : i \in In(g.rule, g.rows[j].file)} \ {0}
          PROVE  /\ g.rows[j].hits = Cardinality(In(g.rule, g.rows[j].file))
                 /\ Len(lines.shown) + lines.more = Cardinality(known)
                 /\ \A l \in DOMAIN lines.shown : lines.shown[l] \in known
                 /\ lines.unknown <=> known = {}
      <4>1. PICK o : o = h.files[j]
        OBVIOUS
      <4>2. PICK n \in Nat \ {0} :
              /\ g.rows[j].file = o.file /\ g.rows[j].hits = o.hits
              /\ lines = summarize_lines(o.lines, n)
        BY <3>3, <3>6, <4>1
      <4>3. PICK S \in SUBSET DOMAIN findings : S = In(r, o.file) /\ TellsFile(o, S)
        <5>1. In(r, o.file) \in SUBSET DOMAIN findings
          BY DEF In, Of
        <5>2. TellsFile(o, In(r, o.file))
          BY <3>2, <3>3, <4>1 DEF TellsRule, TellsFiles
        <5>3. QED
          BY <5>1, <5>2
      <4>4. known = {findings[i].line : i \in S} \ {0}
        BY <3>3, <3>6, <4>2, <4>3
      <4>5. /\ o.hits = Cardinality(S)
            /\ Len(lines.shown) + lines.more = Cardinality(known)
            /\ \A l \in DOMAIN lines.shown : lines.shown[l] \in known
            /\ lines.unknown <=> known = {}
        <5>1. /\ findings \in Seq(Finding) /\ TellsFile(o, S)
              /\ lines = summarize_lines(o.lines, n)
              /\ known = {findings[i].line : i \in S} \ {0}
          BY <1>1, <4>2, <4>3, <4>4
        <5>2. QED
          BY <5>1, RowAccounts, ZenonT(60)
      <4>6. QED
        BY <3>3, <4>2, <4>3, <4>5
    <3>7. QED
      BY <3>4, <3>5, <3>6
  <2>4. ASSUME NEW j \in DOMAIN document, NEW k \in DOMAIN document, j < k
        PROVE  \/ document[j].severity > document[k].severity
               \/ /\ document[j].severity = document[k].severity
                  /\ document[j].hits >= document[k].hits
    <3>1. /\ j \in DOMAIN groups /\ k \in DOMAIN groups
          /\ document[j].severity = groups[j].severity /\ document[j].hits = groups[j].total_hits
          /\ document[k].severity = groups[k].severity /\ document[k].hits = groups[k].total_hits
      BY <2>1 DEF LaysOut
    <3>2. Before(groups[j], groups[k])
      BY <1>1, <2>4, <3>1 DEF Inv, Groups
    <3>3. groups[j].total_hits \in Nat /\ groups[k].total_hits \in Nat
      BY <1>1, <3>1, GroupsTell DEF TellsRule
    <3>4. QED
      BY <3>1, <3>2, <3>3 DEF Before
  <2>5. QED
    BY <2>2, <2>3, <2>4
<1>3. QED
  BY <1>2, CbomAccounts DEF FindingsAccounted

\* The documents account for every finding once, whatever was found
\* (group_findings, write_html_report, write_markdown_report).
THEOREM AccountTheorem == Spec => []FindingsAccounted
BY Invariance, InvAccounts, PTL
-----------------------------------------------------------------------------
\* The first finding of a rule is as bad as its worst, since the list is in the
\* order of the scan.
LEMMA FirstIsWorst ==
    ASSUME findings \in Seq(Finding), ScanOrder(findings), NEW r,
           NEW i \in Of(r), \A j \in Of(r) : i <= j,
           NEW v, IsWorst(v, {findings[j].severity : j \in Of(r)})
    PROVE  v = findings[i].severity
<1>1. \A j \in Of(r) : /\ j \in DOMAIN findings /\ j \in Nat
                       /\ findings[j].severity \in Int
  <2> TAKE j \in Of(r)
  <2>1. findings[j] \in Finding /\ j \in DOMAIN findings
    BY DEF Of
  <2>2. findings[j].severity \in Severity
    BY <2>1 DEF Finding
  <2>3. \A w \in Severity : w \in Int
    BY DEF Severity, Info, Critical
  <2>4. QED
    BY <2>1, <2>2, <2>3
<1>2. PICK m \in Of(r) : v = findings[m].severity
  BY DEF IsWorst
<1>3. v >= findings[i].severity
  BY DEF IsWorst
<1>4. findings[i].severity >= findings[m].severity
  <2>1. CASE i = m
    BY <1>1, <2>1
  <2>2. CASE i # m
    <3>1. i < m /\ i \in DOMAIN findings /\ m \in DOMAIN findings
      BY <1>1, <2>2
    <3>2. \/ findings[i].severity > findings[m].severity
          \/ findings[i].severity = findings[m].severity
      BY <3>1 DEF ScanOrder
    <3>3. QED
      BY <1>1, <3>2
  <2>3. QED
    BY <2>1, <2>2
<1>5. QED
  BY <1>1, <1>2, <1>3, <1>4

\* Nothing less bad than an error has a worse level.
LEMMA LevelsGrow ==
    ASSUME NEW v \in Severity, NEW w \in Severity, v >= w, severity_to_level(w) = "error"
    PROVE  severity_to_level(v) = "error"
<1>1. v \in Int /\ w \in Int /\ v <= 4
  BY DEF Severity, Info, Critical
<1>2. w = 4 \/ w = 3
  BY DEF severity_to_level, Critical, High, Medium
<1>3. v = 4 \/ v = 3
  BY <1>1, <1>2
<1>4. v \in {Critical, High} /\ v # Medium
  BY <1>3 DEF Critical, High, Medium
<1>5. QED
  BY <1>4 DEF severity_to_level

\* So SARIF, which takes the first finding, agrees with the groups.
LEMMA InvAgrees == Inv => SeverityAgreed
<1> SUFFICES ASSUME Inv, Read, NEW k \in DOMAIN html
    PROVE  /\ markdown[k].severity = html[k].severity
           /\ IsWorst(html[k].severity, {findings[i].severity : i \in Of(html[k].rule)})
           /\ levels[html[k].rule] = severity_to_level(html[k].severity)
           /\ \A i \in DOMAIN results : results[i].rule = html[k].rule /\ results[i].level = "error"
                 => levels[html[k].rule] = "error"
  BY DEF SeverityAgreed
<1>1. /\ findings \in Seq(Finding) /\ ScanOrder(findings)
      /\ phase \notin {"sanitize", "bucket"} /\ Reached = Len(findings)
      /\ LaysOut(html) /\ LaysOut(markdown)
  BY DocumentsLayOut DEF Inv, Loops
<1>2. PICK r, v : /\ r = html[k].rule /\ v = html[k].severity
                  /\ r = groups[k].rule /\ v = groups[k].severity
                  /\ k \in DOMAIN groups /\ markdown[k].severity = v
  BY <1>1 DEF LaysOut
<1>3. /\ v \in Severity /\ IsWorst(v, {findings[i].severity : i \in Of(r)})
      /\ r \in Rules /\ Of(r) # {}
  <2>1. TellsRule(groups[k], r) /\ r \in Rules /\ r \in Filled
    BY <1>1, <1>2, GroupsTell
  <2>2. Of(r) # {}
    BY <1>1, <2>1, BucketsFull
  <2>3. QED
    BY <1>2, <2>1, <2>2 DEF TellsRule
<1>4. levels[r] = severity_to_level(v)
  <2>1. r \in DOMAIN levels
    <3>1. PICK i \in DOMAIN findings : findings[i].rule = r
      BY <1>3 DEF Of
    <3>2. i \in 1..Reached
      BY <1>1, <3>1
    <3>3. QED
      BY <3>1, <3>2 DEF Inv, Sarif
  <2>2. PICK i \in Of(r) : /\ levels[r] = severity_to_level(findings[i].severity)
                           /\ \A j \in Of(r) : i <= j
    BY <2>1 DEF Inv, Sarif
  <2>3. v = findings[i].severity
    BY <1>1, <1>3, <2>2, FirstIsWorst
  <2>4. QED
    BY <2>2, <2>3
<1>5. ASSUME NEW i \in DOMAIN results, results[i].rule = r, results[i].level = "error"
      PROVE  levels[r] = "error"
  <2>1. Len(results) = Len(findings) /\ DOMAIN results = 1..Len(results)
    BY <1>1 DEF Inv, Sarif
  <2>2. i \in 1..Reached /\ i \in DOMAIN findings
    BY <1>1, <2>1
  <2>3. results[i] = to_result(findings[i])
    BY <2>2 DEF Inv, Sarif
  <2>4. findings[i].rule = r /\ severity_to_level(findings[i].severity) = "error"
    BY <1>5, <2>3 DEF to_result
  <2>5. findings[i] \in Finding
    BY <1>1, <2>2
  <2>6. findings[i].severity \in Severity
    BY <2>5 DEF Finding
  <2>7. v >= findings[i].severity
    BY <1>3, <2>2, <2>4 DEF IsWorst, Of
  <2>8. QED
    BY <1>3, <1>4, <2>4, <2>6, <2>7, LevelsGrow
<1>6. QED
  BY <1>2, <1>3, <1>4, <1>5

\* The formats agree on how bad a rule is, for findings in the order of a scan
\* (group_findings, write_sarif_report).
THEOREM SeverityTheorem == Spec => []SeverityAgreed
BY Invariance, InvAgrees, PTL

-----------------------------------------------------------------------------
\* The documents repeat what the groups advise.
LEMMA InvAdvises == Inv => ActionsOnce
<1> SUFFICES ASSUME Inv, Read, NEW document \in {html, markdown}, NEW k \in DOMAIN document
    PROVE  /\ {document[k].actions[i] : i \in DOMAIN document[k].actions}
                = UNION {{findings[i].actions[a] : a \in DOMAIN findings[i].actions}
                           : i \in Of(document[k].rule)}
           /\ \A i, j \in DOMAIN document[k].actions :
                document[k].actions[i] = document[k].actions[j] => i = j
  BY DEF ActionsOnce
<1>1. LaysOut(document) /\ phase \notin {"sanitize", "bucket"}
  BY DocumentsLayOut
<1>2. /\ k \in DOMAIN groups /\ document[k].actions = groups[k].actions
      /\ document[k].rule = groups[k].rule
  BY <1>1 DEF LaysOut
<1>3. TellsActions(document[k].actions, Of(document[k].rule))
  BY <1>1, <1>2, GroupsTell DEF TellsRule
<1>4. QED
  BY <1>3, Zenon DEF TellsActions, AdviceOf

\* A group advises what any of its findings does, once (group_findings).
THEOREM ActionsTheorem == Spec => []ActionsOnce
BY Invariance, InvAdvises, PTL
-----------------------------------------------------------------------------
\* Escaping what is masked leaves it masked.
LEMMA Escaped ==
    ASSUME NEW t \in Masked
    PROVE  /\ escape_html(t) \notin {"key", "secret", "angle"}
           /\ escape_md_table_cell(t) \notin {"key", "secret"}
BY DEF Masked, Texts, escape_html, escape_md_table_cell

\* Nothing leaves the cells of a table.
LEMMA InTheCell ==
    /\ \A t : escape_html(t) # "angle"
    /\ \A t : escape_md_table_cell(t) # "pipe" /\ escape_md_table_cell(t) # "break"
BY DEF escape_html, escape_md_table_cell

\* When a document is written its groups tell of findings that are masked.
LEMMA GroupsMasked ==
    ASSUME Inv, AllWritten, phase \in {"sarif", "read", "done"}, NEW k \in DOMAIN groups
    PROVE  /\ groups[k].sample_evidence \in Seq(Masked)
           /\ \A j \in DOMAIN groups[k].files :
                /\ SampleOf(groups[k].files[j]) \in Masked
                /\ \A i \in DOMAIN groups[k].files[j].sample_findings :
                     groups[k].files[j].sample_findings[i].snippet \in Seq(Masked)
<1>1. /\ findings \in Seq(Finding) /\ Cleaned = Len(findings)
      /\ phase \notin {"sanitize", "bucket"}
  BY DEF Inv, Loops, Cleaned, Upto
<1>2. \A i \in DOMAIN findings : findings[i].match \in Masked /\ findings[i].snippet \in Seq(Masked)
  BY <1>1 DEF Inv, Masking, Clean
<1>3. PICK g, r : g = groups[k] /\ TellsRule(g, r)
  BY <1>1, GroupsTell
<1>4. g.sample_evidence \in Seq(Masked)
  <2>1. {findings[i].match : i \in Of(r)} \subseteq Masked
    BY <1>2 DEF Of
  <2>2. PICK T : T \subseteq Masked /\ g.sample_evidence \in Seq(T)
    BY <1>3, <2>1 DEF TellsRule
  <2>3. QED
    BY <2>2
<1>5. ASSUME NEW j \in DOMAIN g.files
      PROVE  /\ SampleOf(g.files[j]) \in Masked
             /\ \A i \in DOMAIN g.files[j].sample_findings :
                  g.files[j].sample_findings[i].snippet \in Seq(Masked)
  <2>1. PICK o, S : o = g.files[j] /\ S = In(r, o.file) /\ TellsFile(o, S)
    BY <1>3 DEF TellsRule, TellsFiles
  <2>2. S \subseteq DOMAIN findings
    BY <2>1 DEF In, Of
  <2>3. SampleOf(o) \in Masked
    <3>1. PICK e, T : /\ e = o.sample_evidence /\ e \in Seq(T)
                      /\ T = {findings[i].match : i \in S}
      BY <2>1 DEF TellsFile
    <3>2. T \subseteq Masked /\ "-" \in Masked
      BY <1>2, <2>2, <3>1 DEF Masked, Texts
    <3>3. e # << >> => e[1] \in T
      BY <3>1
    <3>4. SampleOf(o) = IF e = << >> THEN "-" ELSE e[1]
      BY <3>1 DEF SampleOf
    <3>5. QED
      BY <3>2, <3>3, <3>4
  <2>4. ASSUME NEW i \in DOMAIN o.sample_findings
        PROVE  o.sample_findings[i].snippet \in Seq(Masked)
    <3>1. o.sample_findings \in Seq({findings[m] : m \in S})
      BY <2>1 DEF TellsFile
    <3>2. PICK m \in S : o.sample_findings[i] = findings[m]
      BY <3>1
    <3>3. QED
      BY <1>2, <2>2, <3>2
  <2>5. QED
    BY <2>1, <2>3, <2>4
<1>6. QED
  BY <1>3, <1>4, <1>5

\* An article shows what is masked and escaped.
LEMMA ArticleClean ==
    ASSUME NEW g, g.sample_evidence \in Seq(Masked),
           \A j \in DOMAIN g.files :
             /\ SampleOf(g.files[j]) \in Masked
             /\ \A i \in DOMAIN g.files[j].sample_findings :
                  g.files[j].sample_findings[i].snippet \in Seq(Masked),
           NEW article, article = HtmlArticle(g)
    PROVE  /\ HtmlTexts(article) \cap {"key", "secret", "angle"} = {}
           /\ \A j \in DOMAIN article.rows : article.rows[j].path # "angle"
<1>1. PICK e : e = g.sample_evidence
  OBVIOUS
<1>2. /\ article.evidence = [i \in DOMAIN take(e, Samples) |-> escape_html(e[i])]
      /\ article.rows = [j \in DOMAIN g.files |-> HtmlRow(g.files[j])]
  BY <1>1 DEF HtmlArticle
<1>3. ASSUME NEW i \in DOMAIN article.evidence
      PROVE  article.evidence[i] \notin {"key", "secret", "angle"}
  <2>1. Samples \in Nat
    BY ReportsAssumption
  <2>2. i \in DOMAIN e
    BY <1>1, <1>2, <2>1, Taken
  <2>3. e[i] \in Masked
    BY <1>1, <2>2
  <2>4. article.evidence[i] = escape_html(e[i])
    BY <1>2
  <2>5. QED
    BY <2>3, <2>4, Escaped
<1>4. ASSUME NEW j \in DOMAIN article.rows
      PROVE  /\ article.rows[j].path # "angle"
             /\ article.rows[j].sample \notin {"key", "secret", "angle"}
             /\ \A i \in DOMAIN article.rows[j].snippets :
                  \A l \in DOMAIN article.rows[j].snippets[i] :
                    article.rows[j].snippets[i][l] \notin {"key", "secret", "angle"}
  <2>1. PICK o, row : o = g.files[j] /\ row = article.rows[j] /\ row = HtmlRow(o)
    BY <1>2
  <2>2. /\ SampleOf(o) \in Masked
        /\ \A i \in DOMAIN o.sample_findings : o.sample_findings[i].snippet \in Seq(Masked)
    BY <1>2, <2>1
  <2>3. /\ row.path = escape_html(FileText[o.file]) /\ row.sample = escape_html(SampleOf(o))
        /\ DOMAIN row.snippets = DOMAIN o.sample_findings
        /\ \A i \in DOMAIN o.sample_findings :
             row.snippets[i] = [l \in DOMAIN o.sample_findings[i].snippet |->
                                  escape_html(o.sample_findings[i].snippet[l])]
    BY <2>1 DEF HtmlRow
  <2>4. ASSUME NEW i \in DOMAIN row.snippets, NEW l \in DOMAIN row.snippets[i]
        PROVE  row.snippets[i][l] \notin {"key", "secret", "angle"}
    <3>1. PICK t : t = o.sample_findings[i].snippet /\ t \in Seq(Masked)
      BY <2>2, <2>3
    <3>2. row.snippets[i] = [x \in DOMAIN t |-> escape_html(t[x])]
      BY <2>3, <3>1
    <3>3. l \in DOMAIN t /\ row.snippets[i][l] = escape_html(t[l])
      BY <3>2
    <3>4. t[l] \in Masked
      BY <3>1, <3>3
    <3>5. QED
      BY <3>3, <3>4, Escaped
  <2>5. row.sample \notin {"key", "secret", "angle"}
    BY <2>2, <2>3, Escaped
  <2>6. row.path # "angle"
    BY <2>3, InTheCell
  <2>7. QED
    BY <2>1, <2>4, <2>5, <2>6
<1>5. \A t \in HtmlTexts(article) : t \notin {"key", "secret", "angle"}
  BY <1>3, <1>4 DEF HtmlTexts
<1>6. QED
  BY <1>4, <1>5

\* And so does a section, in whose table it stays in its cell.
LEMMA SectionClean ==
    ASSUME NEW g, g.sample_evidence \in Seq(Masked),
           \A j \in DOMAIN g.files : SampleOf(g.files[j]) \in Masked,
           NEW section, section = MarkdownSection(g)
    PROVE  /\ MarkdownTexts(section) \cap {"key", "secret"} = {}
           /\ \A j \in DOMAIN section.rows :
                {section.rows[j].path, section.rows[j].sample} \cap {"pipe", "break"} = {}
<1>1. PICK e, t : e = g.sample_evidence /\ t = take(e, 1)
  OBVIOUS
<1>2. /\ section.evidence = t
      /\ section.rows = [j \in DOMAIN g.files |-> MarkdownRow(g.files[j])]
  BY <1>1 DEF MarkdownSection
<1>3. t \in Seq(Masked)
  BY <1>1, Taken
<1>4. ASSUME NEW i \in DOMAIN section.evidence PROVE section.evidence[i] \notin {"key", "secret"}
  <2>1. section.evidence[i] \in Masked
    BY <1>2, <1>3
  <2>2. QED
    BY <2>1 DEF Masked
<1>5. ASSUME NEW j \in DOMAIN section.rows
      PROVE  /\ section.rows[j].sample \notin {"key", "secret"}
             /\ {section.rows[j].path, section.rows[j].sample} \cap {"pipe", "break"} = {}
  <2>1. PICK o, row : o = g.files[j] /\ row = section.rows[j] /\ row = MarkdownRow(o)
    BY <1>2
  <2>2. SampleOf(o) \in Masked
    BY <1>2, <2>1
  <2>3. /\ row.path = escape_md_table_cell(FileText[o.file])
        /\ row.sample = escape_md_table_cell(SampleOf(o))
    BY <2>1 DEF MarkdownRow
  <2>4. row.sample \notin {"key", "secret"}
    BY <2>2, <2>3, Escaped
  <2>5. {row.path, row.sample} \cap {"pipe", "break"} = {}
    BY <2>3, InTheCell
  <2>6. QED
    BY <2>1, <2>4, <2>5
<1>6. \A x \in MarkdownTexts(section) : x \notin {"key", "secret"}
  BY <1>4, <1>5 DEF MarkdownTexts
<1>7. QED
  BY <1>5, <1>6

\* So the documents are clean from when they are written.
LEMMA InvClean == Inv => DocumentsClean
<1> SUFFICES ASSUME Inv PROVE DocumentsClean
  OBVIOUS
<1>1. CASE html = << >> /\ markdown = << >>
  BY <1>1 DEF DocumentsClean
<1>2. CASE AllWritten /\ phase \in {"sarif", "read", "done"}
  <2>1. ASSUME NEW k \in DOMAIN html
        PROVE  /\ HtmlTexts(html[k]) \cap {"key", "secret", "angle"} = {}
               /\ \A j \in DOMAIN html[k].rows : html[k].rows[j].path # "angle"
    <3>1. PICK g, article : /\ k \in DOMAIN groups /\ g = groups[k]
                            /\ article = html[k] /\ article = HtmlArticle(g)
      BY <1>2 DEF AllWritten
    <3>2. /\ g.sample_evidence \in Seq(Masked)
          /\ \A j \in DOMAIN g.files :
               /\ SampleOf(g.files[j]) \in Masked
               /\ \A i \in DOMAIN g.files[j].sample_findings :
                    g.files[j].sample_findings[i].snippet \in Seq(Masked)
      BY <1>2, <3>1, GroupsMasked
    <3>3. QED
      BY <3>1, <3>2, ArticleClean
  <2>2. ASSUME NEW k \in DOMAIN markdown
        PROVE  /\ MarkdownTexts(markdown[k]) \cap {"key", "secret"} = {}
               /\ \A j \in DOMAIN markdown[k].rows :
                    {markdown[k].rows[j].path, markdown[k].rows[j].sample}
                      \cap {"pipe", "break"} = {}
    <3>1. PICK g, section : /\ k \in DOMAIN groups /\ g = groups[k]
                            /\ section = markdown[k] /\ section = MarkdownSection(g)
      BY <1>2 DEF AllWritten
    <3>2. /\ g.sample_evidence \in Seq(Masked)
          /\ \A j \in DOMAIN g.files : SampleOf(g.files[j]) \in Masked
      BY <1>2, <3>1, GroupsMasked
    <3>3. QED
      BY <3>1, <3>2, SectionClean
  <2>3. QED
    BY <2>1, <2>2 DEF DocumentsClean
<1>3. QED
  BY <1>1, <1>2 DEF Inv, Documents

\* No key and no secret of the sources is in an article or a section, and no text
\* leaves its element or cell (sanitize_scan_result, escape_html,
\* escape_md_table_cell).
THEOREM CleanTheorem == Spec => []DocumentsClean
BY Invariance, InvClean, PTL

-----------------------------------------------------------------------------
\* The id of a panel leads to it, if no other group has ids like its own.
LEMMA PanelFound ==
    ASSUME Inv, NEW p \in Panels,
           \A q \in DOMAIN html : q # p[1] => DomId[html[q].rule] # DomId[html[p[1]].rule]
    PROVE  getElementById(panel_id(p)) = p
<1>1. PICK e : e = getElementById(panel_id(p))
  OBVIOUS
<1>2. e \in Panels /\ panel_id(e) = panel_id(p)
  BY <1>1, FirstPanel
<1>3. DomId[html[e[1]].rule] = DomId[html[p[1]].rule] /\ e[2] = p[2]
  BY <1>2 DEF panel_id
<1>4. e[1] = p[1]
  BY <1>2, <1>3, PanelTypes
<1>5. e = p
  BY <1>2, <1>3, <1>4, PanelTypes
<1>6. QED
  BY <1>1, <1>5

\* A click shows or hides the snippets of its own file, unless another group has
\* the same id (panel_id and the script of html_report.rs).
THEOREM ClickTheorem == Spec => ClickShowsItsFile
<1>1. ASSUME Inv, NEW p \in Panels, ClickFile(p),
             \A q \in DOMAIN html : q # p[1] => DomId[html[q].rule] # DomId[html[p[1]].rule]
      PROVE  opened' = (opened \ {p}) \cup ({p} \ opened)
  <2>1. getElementById(panel_id(p)) = p
    BY <1>1, PanelFound
  <2>2. opened' = IF p \in opened THEN opened \ {p} ELSE opened \cup {p}
    BY <1>1, <2>1 DEF ClickFile
  <2>3. QED
    BY <2>2
<1>2. Inv => [\A p \in Panels :
                /\ ClickFile(p)
                /\ \A q \in DOMAIN html : q # p[1] => DomId[html[q].rule] # DomId[html[p[1]].rule]
                => opened' = (opened \ {p}) \cup ({p} \ opened)]_vars
  BY <1>1
<1>3. QED
  BY <1>2, Invariance, PTL DEF ClickShowsItsFile, Spec

-----------------------------------------------------------------------------
(***************************************************************************)
(* The delivery of the reports.                                             *)
(***************************************************************************)
\* The reports of a format argument.
LEMMA ExpandShape ==
    ASSUME NEW format \in FormatArg
    PROVE  /\ expand(format) \in Seq(File)
           /\ \/ /\ Len(expand(format)) = 4
                 /\ expand(format)[1] = "json" /\ expand(format)[2] = "html"
                 /\ expand(format)[3] = "md" /\ expand(format)[4] = "sarif"
              \/ /\ Len(expand(format)) = 1
                 /\ expand(format)[1] \in Format
<1>1. CASE format = "all"
  <2>1. expand(format) = <<"json", "html", "md", "sarif">>
    BY <1>1 DEF expand
  <2>2. QED
    BY <2>1 DEF File, Format
<1>2. CASE format # "all"
  <2>1. expand(format) = <<format>> /\ format \in Format
    BY <1>2 DEF expand, FormatArg
  <2>2. QED
    BY <2>1 DEF File
<1>3. QED
  BY <1>1, <1>2

\* The outputs of a format: its reports and then the two inventories.
LEMMA OutputsShape ==
    ASSUME NEW format \in FormatArg, NEW n, n = Len(expand(format))
    PROVE  /\ Outputs(format) \in Seq(File)
           /\ Len(Outputs(format)) = n + 2 /\ n \in {1, 4}
           /\ \A k \in 1..n : Outputs(format)[k] = expand(format)[k]
           /\ Outputs(format)[n + 1] = "cbom" /\ Outputs(format)[n + 2] = "sbom"
<1>1. PICK reports : reports = expand(format)
  OBVIOUS
<1>2. PICK inventories : inventories = <<"cbom", "sbom">>
  OBVIOUS
<1>3. reports \in Seq(File) /\ n = Len(reports) /\ n \in {1, 4}
  BY <1>1, ExpandShape
<1>4. inventories \in Seq(File) /\ Len(inventories) = 2
      /\ inventories[1] = "cbom" /\ inventories[2] = "sbom"
  BY <1>2 DEF File
<1>5. /\ reports \o inventories \in Seq(File)
      /\ Len(reports \o inventories) = Len(reports) + Len(inventories)
      /\ \A i \in 1..(Len(reports) + Len(inventories)) : (reports \o inventories)[i] =
                IF i <= Len(reports) THEN reports[i] ELSE inventories[i - Len(reports)]
  BY <1>3, <1>4, ConcatProperties
<1>6. Outputs(format) = reports \o inventories
  BY <1>1, <1>2 DEF Outputs
<1>7. QED
  BY <1>1, <1>3, <1>4, <1>5, <1>6

\* No file is written twice by one run.
LEMMA OutputsDistinct ==
    ASSUME NEW format \in FormatArg,
           NEW j \in 1..Len(Outputs(format)), NEW k \in 1..Len(Outputs(format)), j # k
    PROVE  Outputs(format)[j] # Outputs(format)[k]
<1>1. PICK o, e, n : o = Outputs(format) /\ e = expand(format) /\ n = Len(e)
  OBVIOUS
<1>2. /\ Len(o) = n + 2 /\ n \in {1, 4}
      /\ \A i \in 1..n : o[i] = e[i]
      /\ o[n + 1] = "cbom" /\ o[n + 2] = "sbom"
  <2>1. n = Len(expand(format))
    BY <1>1
  <2>2. /\ Len(Outputs(format)) = n + 2 /\ n \in {1, 4}
        /\ \A i \in 1..n : Outputs(format)[i] = expand(format)[i]
        /\ Outputs(format)[n + 1] = "cbom" /\ Outputs(format)[n + 2] = "sbom"
    BY <2>1, OutputsShape
  <2>3. QED
    BY <1>1, <2>2
<1>3. \/ n = 4 /\ e[1] = "json" /\ e[2] = "html" /\ e[3] = "md" /\ e[4] = "sarif"
      \/ n = 1 /\ e[1] \in Format
  BY <1>1, ExpandShape
<1>4. CASE n = 4
  <2>1. o[1] = e[1] /\ o[2] = e[2] /\ o[3] = e[3] /\ o[4] = e[4]
    BY <1>2, <1>4
  <2>2. /\ o[1] = "json" /\ o[2] = "html" /\ o[3] = "md"
        /\ o[4] = "sarif" /\ o[5] = "cbom" /\ o[6] = "sbom" /\ Len(o) = 6
    BY <1>2, <1>3, <1>4, <2>1
  <2>3. j \in {1, 2, 3, 4, 5, 6} /\ k \in {1, 2, 3, 4, 5, 6}
    BY <1>1, <2>2
  <2>4. QED
    BY <1>1, <2>2, <2>3
<1>5. CASE n = 1
  <2>1. o[1] \in Format /\ o[2] = "cbom" /\ o[3] = "sbom" /\ Len(o) = 3
    BY <1>2, <1>3, <1>5
  <2>2. j \in {1, 2, 3} /\ k \in {1, 2, 3}
    BY <1>1, <2>1
  <2>3. QED
    BY <1>1, <2>1, <2>2 DEF Format
<1>6. QED
  BY <1>2, <1>4, <1>5

-----------------------------------------------------------------------------
\* How far the current run is: the outputs before the next one are complete,
\* those after it are as earlier runs left them.
Progress ==
    /\ next <= Len(Outputs(args.format)) + 1
    /\ pc \in {"scan", "mkdir", "open", "fill", "gate"} => args.command = "scan"
    /\ pc = "gate" => args.fail_on # "none"
    /\ pc \in {"print", "gate"} /\ args.command = "scan" => next > Len(Outputs(args.format))

AlreadyWritten ==
    pc # "exited" => \A k \in 1..(next - 1) : Whole(Outputs(args.format)[k], run)

BeingWritten ==
    pc = "fill" =>
        /\ next <= Len(Outputs(args.format))
        /\ out[Outputs(args.format)[next]].run = run
        /\ out[Outputs(args.format)[next]].format = args.format
        /\ out[Outputs(args.format)[next]].state = "torn"

NotYetWritten ==
    pc # "exited" =>
        \A k \in 1..Len(Outputs(args.format)) :
            (k > next \/ (k = next /\ pc # "fill")) => out[Outputs(args.format)[k]].run < run

CliInv ==
    /\ CliTypeOK /\ Progress /\ AlreadyWritten /\ BeingWritten /\ NotYetWritten
    /\ VerdictDelivered /\ InventorySeals

\* The sequences of outputs, as the steps below use them.
LEMMA OutputsFacts ==
    ASSUME NEW format \in FormatArg
    PROVE  /\ Len(Outputs(format)) \in {3, 6}
           /\ DOMAIN Outputs(format) = 1..Len(Outputs(format))
           /\ \A k \in 1..Len(Outputs(format)) : Outputs(format)[k] \in File
           /\ Outputs(format)[Len(Outputs(format))] = "sbom"
<1>1. PICK n : n = Len(expand(format))
  OBVIOUS
<1>2. /\ Outputs(format) \in Seq(File)
      /\ Len(Outputs(format)) = n + 2 /\ n \in {1, 4}
      /\ Outputs(format)[n + 2] = "sbom"
  BY <1>1, OutputsShape
<1>3. QED
  BY <1>2

\* A run starts with nothing written.
LEMMA InvokeKeeps == CliInv /\ Invoke => CliInv'
<1> SUFFICES ASSUME CliInv, Invoke PROVE CliInv'
  OBVIOUS
<1> USE DeliveryAssumption
<1>1. CliTypeOK'
  BY SMTT(30) DEF CliInv, Invoke, CliTypeOK, Running, NoFinding
<1>2. Progress'
  <2>1. args'.format \in FormatArg
    BY <1>1 DEF CliTypeOK
  <2>2. Len(Outputs(args'.format)) \in {3, 6}
    BY <2>1, OutputsFacts
  <2>3. QED
    BY <2>2 DEF Invoke, Progress
<1>3. AlreadyWritten' /\ BeingWritten' /\ VerdictDelivered'
  BY DEF Invoke, AlreadyWritten, BeingWritten, VerdictDelivered
<1>4. NotYetWritten'
  <2>1. args'.format \in FormatArg
    BY <1>1 DEF CliTypeOK
  <2>2. \A k \in 1..Len(Outputs(args'.format)) : Outputs(args'.format)[k] \in File
    BY <2>1, OutputsFacts
  <2>3. \A f \in File : out'[f].run < run'
    <3> TAKE f \in File
    <3>1. out' = out /\ run' = run + 1 /\ run \in Nat
      BY DEF CliInv, Invoke, CliTypeOK
    <3>2. out[f].run \in 0..run
      BY DEF CliInv, CliTypeOK
    <3>3. QED
      BY <3>1, <3>2
  <2>4. QED
    BY <2>2, <2>3 DEF NotYetWritten
<1>5. InventorySeals'
  BY DEF CliInv, Invoke, InventorySeals, Whole
<1>6. QED
  BY <1>1, <1>2, <1>3, <1>4, <1>5 DEF CliInv

\* The steps that write nothing.
LEMMA QuietKeeps ==
    CliInv /\ (Usage \/ LoadRules \/ Scan \/ CreateDir \/ StartPrinting \/ PrintSummary \/ Gate
            \/ Kill \/ Finished \/ UNCHANGED cli_vars) => CliInv'
<1> SUFFICES ASSUME CliInv, Usage \/ LoadRules \/ Scan \/ CreateDir \/ StartPrinting \/ PrintSummary
                         \/ Gate \/ Kill \/ Finished \/ UNCHANGED cli_vars
             PROVE CliInv'
  OBVIOUS
<1> USE DeliveryAssumption
<1>0. /\ out' = out /\ run' = run /\ args' = args /\ next' = next
      /\ pc' # "fill" \/ pc' = pc
      /\ pc = "exited" => pc' = pc /\ exit' = exit /\ worst' = worst
  BY DEF Usage, LoadRules, Scan, CreateDir, StartPrinting, PrintSummary, Gate, Kill, Finished,
         Exit, cli_vars
<1>1. CliTypeOK'
  <2>1. pc' \in {"rules", "scan", "mkdir", "open", "fill", "print", "gate", "exited"}
    BY DEF CliInv, CliTypeOK, Usage, LoadRules, Scan, CreateDir, StartPrinting, PrintSummary,
           Gate, Kill, Finished, Exit, cli_vars
  <2>2. worst' \in Severity \cup {NoFinding}
    BY DEF CliInv, CliTypeOK, Usage, LoadRules, Scan, CreateDir, StartPrinting, PrintSummary,
           Gate, Kill, Finished, cli_vars
  <2>3. exit' \in {Running, 0, 1, 2, Killed}
    BY DEF CliInv, CliTypeOK, Usage, LoadRules, Scan, CreateDir, StartPrinting, PrintSummary,
           Gate, Kill, Finished, Exit, cli_vars, code
  <2>4. QED
    BY <1>0, <2>1, <2>2, <2>3 DEF CliInv, CliTypeOK
<1>2. Progress'
  BY <1>0 DEF CliInv, Progress, Usage, LoadRules, Scan, CreateDir, StartPrinting, PrintSummary,
              Gate, Kill, Finished, Exit, cli_vars
<1>3. AlreadyWritten' /\ BeingWritten'
  BY <1>0 DEF CliInv, AlreadyWritten, BeingWritten, Whole
<1>4. NotYetWritten'
  <2>1. pc = "fill" => pc' \in {"fill", "exited"}
    BY DEF Usage, LoadRules, Scan, CreateDir, StartPrinting, PrintSummary, Gate, Kill, Finished,
           Exit, cli_vars
  <2>2. QED
    BY <1>0, <2>1 DEF CliInv, NotYetWritten
<1>5. VerdictDelivered'
  <2> SUFFICES ASSUME pc' = "exited", run' > 0, args'.command = "scan", exit' \in {0, 2}
               PROVE  VerdictDelivered'
    BY DEF VerdictDelivered
  <2>1. CASE pc = "exited"
    BY <1>0, <2>1 DEF CliInv, VerdictDelivered, Whole
  <2>2. CASE pc # "exited"
    <3>1. \/ PrintSummary /\ args.fail_on = "none" /\ exit' = 0
          \/ Gate
      BY <1>0, <2>2 DEF Usage, LoadRules, Scan, CreateDir, StartPrinting, PrintSummary, Kill,
                        Finished, Exit, cli_vars, code, Killed
    <3>2. next > Len(Outputs(args.format))
      BY <1>0, <3>1 DEF CliInv, Progress, PrintSummary, Gate
    <3>3. \A k \in DOMAIN Outputs(args.format) : Whole(Outputs(args.format)[k], run)
      <4>1. args.format \in FormatArg
        BY DEF CliInv, CliTypeOK
      <4>2. /\ DOMAIN Outputs(args.format) = 1..Len(Outputs(args.format))
            /\ Len(Outputs(args.format)) \in {3, 6}
        BY <4>1, OutputsFacts
      <4>3. QED
        BY <2>2, <3>2, <4>2 DEF CliInv, AlreadyWritten, CliTypeOK
    <3>4. (exit' = 2) = (<<args.fail_on, worst'>> \in
               {<<"high", High>>, <<"high", Critical>>, <<"critical", Critical>>})
      <4>1. CASE PrintSummary /\ args.fail_on = "none" /\ exit' = 0
        BY <4>1
      <4>2. CASE Gate
        <5>1. worst' = worst /\ worst \in Severity \cup {NoFinding}
          BY <4>2 DEF Gate, CliInv, CliTypeOK
        <5>2. args.fail_on \in {"high", "critical"}
          BY <4>2 DEF Gate, CliInv, CliTypeOK, Progress, FailOn
        <5>3. exit' = (IF worst >= Threshold(args.fail_on) THEN 2 ELSE 0)
          BY <4>2 DEF Gate, exceeds_fail_threshold, Exit, code
        <5>4. QED
          BY <5>1, <5>2, <5>3 DEF Threshold, Severity, NoFinding, High, Critical
      <4>3. QED
        BY <3>1, <4>1, <4>2
    <3>5. QED
      BY <1>0, <3>3, <3>4 DEF VerdictDelivered, Whole
  <2>3. QED
    BY <2>1, <2>2
<1>6. InventorySeals'
  BY <1>0 DEF CliInv, InventorySeals, Whole
<1>7. QED
  BY <1>1, <1>2, <1>3, <1>4, <1>5, <1>6 DEF CliInv

\* What the file being opened is, and that it is one of the files.
LEMMA TargetFacts ==
    ASSUME CliInv, next <= Len(Outputs(args.format))
    PROVE  /\ args.format \in FormatArg
           /\ next \in 1..Len(Outputs(args.format))
           /\ Target \in File
           /\ \A k \in 1..Len(Outputs(args.format)) :
                  /\ Outputs(args.format)[k] \in File
                  /\ k # next => Outputs(args.format)[k] # Target
           /\ out \in [File -> [run : 0..run, format : FormatArg,
                                state : {"absent", "torn", "whole"}]]
<1>1. args.format \in FormatArg /\ next \in Nat \ {0}
  BY DEF CliInv, CliTypeOK
<1>2. next \in 1..Len(Outputs(args.format))
  BY <1>1, OutputsFacts
<1>3. \A k \in 1..Len(Outputs(args.format)) : Outputs(args.format)[k] \in File
  BY <1>1, OutputsFacts
<1>4. \A k \in 1..Len(Outputs(args.format)) :
          k # next => Outputs(args.format)[k] # Outputs(args.format)[next]
  BY <1>1, <1>2, OutputsDistinct
<1>5. QED
  BY <1>1, <1>2, <1>3, <1>4 DEF Target, CliInv, CliTypeOK

\* Opening an output: the inventory of the run cannot be complete yet.
LEMMA TruncateKeeps == CliInv /\ Truncate => CliInv'
<1> SUFFICES ASSUME CliInv, Truncate PROVE CliInv'
  OBVIOUS
<1>0. /\ run' = run /\ args' = args /\ next' = next /\ worst' = worst
      /\ pc = "open" /\ next <= Len(Outputs(args.format))
  BY DEF Truncate
<1>1. CASE out' = out /\ Exit(1)
  <2>1. CliTypeOK'
    BY <1>0, <1>1 DEF CliInv, CliTypeOK, Exit
  <2>2. Progress' /\ AlreadyWritten' /\ BeingWritten' /\ NotYetWritten'
    BY <1>0, <1>1 DEF CliInv, Progress, AlreadyWritten, BeingWritten, NotYetWritten, Exit
  <2>3. VerdictDelivered' /\ InventorySeals'
    BY <1>0, <1>1 DEF CliInv, VerdictDelivered, InventorySeals, Whole, Exit
  <2>4. QED
    BY <2>1, <2>2, <2>3 DEF CliInv
<1>2. CASE /\ out' = [out EXCEPT ![Target] = [run |-> run, format |-> args.format,
                                               state |-> "torn"]]
           /\ pc' = "fill" /\ exit' = exit
  <2>1. PICK t, o, n : t = Target /\ o = Outputs(args.format) /\ n = Len(o)
    OBVIOUS
  <2>2. /\ args.format \in FormatArg /\ next \in 1..n /\ t \in File /\ t = o[next]
        /\ \A k \in 1..n : o[k] \in File /\ (k # next => o[k] # t)
        /\ n \in {3, 6} /\ o[n] = "sbom" /\ DOMAIN o = 1..n
    BY <1>0, <2>1, TargetFacts, OutputsFacts DEF Target
  <2>3. out \in [File -> [run : 0..run, format : FormatArg, state : {"absent", "torn", "whole"}]]
    BY DEF CliInv, CliTypeOK
  <2>4. /\ out'[t] = [run |-> run, format |-> args.format, state |-> "torn"]
        /\ \A f \in File : f # t => out'[f] = out[f]
    BY <1>2, <2>1, <2>2, <2>3
  <2>5. run \in Nat
    BY DEF CliInv, CliTypeOK
  <2>6. CliTypeOK'
    <3>1. out' \in [File -> [run : 0..run, format : FormatArg,
                             state : {"absent", "torn", "whole"}]]
      BY <1>2, <2>1, <2>2, <2>3, <2>5
    <3>2. QED
      BY <1>0, <1>2, <3>1 DEF CliInv, CliTypeOK
  <2>7. Progress'
    BY <1>0, <1>2 DEF CliInv, Progress
  <2>8. AlreadyWritten'
    <3>1. \A k \in 1..(next - 1) : k \in 1..n /\ k # next
      BY <2>2
    <3>2. \A k \in 1..(next - 1) : out'[o[k]] = out[o[k]]
      BY <2>2, <2>4, <3>1
    <3>3. QED
      BY <1>0, <2>1, <3>2 DEF CliInv, AlreadyWritten, Whole
  <2>9. BeingWritten'
    BY <1>0, <2>1, <2>2, <2>4 DEF BeingWritten
  <2>10. NotYetWritten'
    <3>1. \A k \in 1..n : k > next => out[o[k]].run < run
      BY <1>0, <2>1 DEF CliInv, NotYetWritten
    <3>2. \A k \in 1..n : k > next => out'[o[k]].run < run
      BY <2>2, <2>4, <3>1
    <3>3. QED
      BY <1>0, <1>2, <2>1, <3>2 DEF NotYetWritten
  <2>11. VerdictDelivered'
    BY <1>2 DEF VerdictDelivered
  <2>12. InventorySeals'
    <3>1. CASE t = "sbom"
      BY <2>4, <3>1 DEF InventorySeals
    <3>2. CASE t # "sbom"
      <4>1. out'["sbom"] = out["sbom"] /\ "sbom" \in File
        BY <2>4, <3>2 DEF File
      <4>2. out["sbom"].run < run
        BY <1>0, <2>1, <2>2, <3>2 DEF CliInv, NotYetWritten
      <4>3. PICK s : s = Outputs(out["sbom"].format)
        OBVIOUS
      <4>4. \A k \in DOMAIN s : s[k] \in File
        BY <2>3, <4>1, <4>3, OutputsFacts
      <4>5. SUFFICES ASSUME out["sbom"].state = "whole", NEW k \in DOMAIN s
                     PROVE  Whole(s[k], out["sbom"].run)' \/ out'[s[k]].run > out["sbom"].run
        BY <4>1, <4>3 DEF InventorySeals, Whole
      <4>6. CASE s[k] = t
        BY <2>4, <2>5, <4>2, <4>6
      <4>7. CASE s[k] # t
        <5>1. out'[s[k]] = out[s[k]]
          BY <2>4, <4>4, <4>7
        <5>2. Whole(s[k], out["sbom"].run) \/ out[s[k]].run > out["sbom"].run
          BY <4>3, <4>5 DEF CliInv, InventorySeals
        <5>3. QED
          BY <4>1, <5>1, <5>2 DEF Whole
      <4>8. QED
        BY <4>6, <4>7
    <3>3. QED
      BY <3>1, <3>2
  <2>13. QED
    BY <2>6, <2>7, <2>8, <2>9, <2>10, <2>11, <2>12 DEF CliInv
<1>3. QED
  BY <1>1, <1>2 DEF Truncate

\* Completing an output: with the inventory, everything else is complete too.
LEMMA FillKeeps == CliInv /\ Fill => CliInv'
<1> SUFFICES ASSUME CliInv, Fill PROVE CliInv'
  OBVIOUS
<1>0. /\ run' = run /\ args' = args /\ worst' = worst
      /\ pc = "fill" /\ next <= Len(Outputs(args.format))
  BY DEF Fill, CliInv, BeingWritten
<1>1. CASE Exit(1) /\ UNCHANGED <<out, next>>
  <2>1. CliTypeOK'
    BY <1>0, <1>1 DEF CliInv, CliTypeOK, Exit
  <2>2. Progress' /\ AlreadyWritten' /\ BeingWritten' /\ NotYetWritten'
    BY <1>0, <1>1 DEF CliInv, Progress, AlreadyWritten, BeingWritten, NotYetWritten, Exit
  <2>3. VerdictDelivered' /\ InventorySeals'
    BY <1>0, <1>1 DEF CliInv, VerdictDelivered, InventorySeals, Whole, Exit
  <2>4. QED
    BY <2>1, <2>2, <2>3 DEF CliInv
<1>2. CASE /\ out' = [out EXCEPT ![Target].state = "whole"]
           /\ next' = next + 1
           /\ pc' = "open" /\ exit' = exit
  <2>1. PICK t, o, n : t = Target /\ o = Outputs(args.format) /\ n = Len(o)
    OBVIOUS
  <2>2. /\ args.format \in FormatArg /\ next \in 1..n /\ t \in File /\ t = o[next]
        /\ \A k \in 1..n : o[k] \in File /\ (k # next => o[k] # t)
        /\ n \in {3, 6} /\ o[n] = "sbom" /\ DOMAIN o = 1..n
    BY <1>0, <2>1, TargetFacts, OutputsFacts DEF Target
  <2>3. out \in [File -> [run : 0..run, format : FormatArg, state : {"absent", "torn", "whole"}]]
    BY DEF CliInv, CliTypeOK
  <2>4. out[t].run = run /\ out[t].format = args.format
    BY <1>0, <2>1, <2>2 DEF CliInv, BeingWritten
  <2>5. /\ out'[t].run = run /\ out'[t].format = args.format /\ out'[t].state = "whole"
        /\ \A f \in File : f # t => out'[f] = out[f]
    BY <1>2, <2>1, <2>2, <2>3, <2>4
  <2>6. CliTypeOK'
    <3>1. out' \in [File -> [run : 0..run, format : FormatArg,
                             state : {"absent", "torn", "whole"}]]
      BY <1>2, <2>1, <2>2, <2>3
    <3>2. next' \in 1..7
      BY <1>2, <2>2
    <3>3. QED
      BY <1>0, <1>2, <3>1, <3>2 DEF CliInv, CliTypeOK
  <2>7. Progress'
    <3>1. next' <= n + 1
      BY <1>2, <2>2
    <3>2. QED
      BY <1>0, <1>2, <2>1, <3>1 DEF CliInv, Progress
  <2>8. AlreadyWritten'
    <3>1. \A k \in 1..(next - 1) : k \in 1..n /\ k # next
      BY <2>2
    <3>2. \A k \in 1..(next - 1) : out'[o[k]] = out[o[k]]
      BY <2>2, <2>5, <3>1
    <3>3. \A k \in 1..(next - 1) : Whole(o[k], run)'
      BY <1>0, <2>1, <3>2 DEF CliInv, AlreadyWritten, Whole
    <3>4. Whole(t, run)'
      BY <1>0, <2>5 DEF Whole
    <3>5. \A k \in 1..(next' - 1) : Whole(o[k], run)'
      BY <1>2, <2>2, <3>3, <3>4
    <3>6. QED
      BY <1>0, <2>1, <3>5 DEF AlreadyWritten, Whole
  <2>9. BeingWritten' /\ VerdictDelivered'
    BY <1>2 DEF BeingWritten, VerdictDelivered
  <2>10. NotYetWritten'
    <3>1. \A k \in 1..n : k > next => out[o[k]].run < run
      BY <1>0, <2>1 DEF CliInv, NotYetWritten
    <3>2. \A k \in 1..n : k > next => out'[o[k]].run < run
      BY <2>2, <2>5, <3>1
    <3>3. \A k \in 1..n : k > next' \/ k = next' => out'[o[k]].run < run
      BY <1>2, <2>2, <3>2
    <3>4. QED
      BY <1>0, <2>1, <3>3 DEF NotYetWritten
  <2>11. InventorySeals'
    <3>1. CASE t = "sbom"
      <4>1. next = n
        BY <2>2, <3>1
      <4>2. \A k \in 1..n : Whole(o[k], run)'
        <5>1. TAKE k \in 1..n
        <5>2. CASE k = n
          BY <1>0, <2>2, <2>5, <4>1, <5>2 DEF Whole
        <5>3. CASE k # n
          <6>1. k \in 1..(next - 1) /\ o[k] \in File /\ o[k] # t
            BY <2>2, <4>1, <5>3
          <6>2. Whole(o[k], run) /\ out'[o[k]] = out[o[k]]
            BY <1>0, <2>1, <2>5, <6>1 DEF CliInv, AlreadyWritten
          <6>3. QED
            BY <1>0, <6>2 DEF Whole
        <5>4. QED
          BY <5>2, <5>3
      <4>3. out'["sbom"].run = run /\ Outputs(out'["sbom"].format) = o
        BY <2>1, <2>5, <3>1
      <4>4. QED
        BY <1>0, <2>2, <4>2, <4>3 DEF InventorySeals, Whole
    <3>2. CASE t # "sbom"
      <4>1. out'["sbom"] = out["sbom"] /\ "sbom" \in File
        BY <2>5, <3>2 DEF File
      <4>2. PICK s : s = Outputs(out["sbom"].format)
        OBVIOUS
      <4>3. \A k \in DOMAIN s : s[k] \in File
        BY <2>3, <4>1, <4>2, OutputsFacts
      <4>4. SUFFICES ASSUME out["sbom"].state = "whole", NEW k \in DOMAIN s
                     PROVE  Whole(s[k], out["sbom"].run)' \/ out'[s[k]].run > out["sbom"].run
        BY <4>1, <4>2 DEF InventorySeals, Whole
      <4>5. Whole(s[k], out["sbom"].run) \/ out[s[k]].run > out["sbom"].run
        BY <4>2, <4>4 DEF CliInv, InventorySeals
      <4>6. CASE s[k] = t
        BY <2>4, <2>5, <4>1, <4>5, <4>6 DEF Whole
      <4>7. CASE s[k] # t
        <5>1. out'[s[k]] = out[s[k]]
          BY <2>5, <4>3, <4>7
        <5>2. QED
          BY <4>1, <4>5, <5>1 DEF Whole
      <4>8. QED
        BY <4>6, <4>7
    <3>3. QED
      BY <3>1, <3>2
  <2>12. QED
    BY <2>6, <2>7, <2>8, <2>9, <2>10, <2>11 DEF CliInv
<1>3. QED
  BY <1>1, <1>2 DEF Fill

-----------------------------------------------------------------------------
\* The invariant holds of every invocation, whatever fails and whenever it is
\* killed.
LEMMA CliInvariance == CliSpec => []CliInv
<1>1. CliInit => CliInv
  <2> USE DeliveryAssumption
  <2>1. ASSUME CliInit PROVE CliInv
    <3>1. args.format = "all" /\ "all" \in FormatArg /\ next = 1 /\ run = 0
      BY <2>1 DEF CliInit, FormatArg
    <3>2. Len(Outputs(args.format)) \in {3, 6}
      BY <3>1, OutputsFacts
    <3>3. CliTypeOK
      BY <2>1 DEF CliInit, CliTypeOK, Running, NoFinding, Command, FormatArg, FailOn
    <3>4. Progress /\ AlreadyWritten /\ BeingWritten /\ NotYetWritten /\ VerdictDelivered
      BY <2>1, <3>1, <3>2
      DEF CliInit, Progress, AlreadyWritten, BeingWritten, NotYetWritten, VerdictDelivered
    <3>5. "sbom" \in File
      BY DEF File
    <3>6. InventorySeals
      BY <2>1, <3>5 DEF CliInit, InventorySeals
    <3>7. QED
      BY <3>3, <3>4, <3>6 DEF CliInv
  <2>2. QED
    BY <2>1
<1>2. CliInv /\ [CliNext]_cli_vars => CliInv'
  BY InvokeKeeps, QuietKeeps, TruncateKeeps, FillKeeps DEF CliNext
<1>3. QED
  BY <1>1, <1>2, PTL DEF CliSpec

\* Every state is of its type.
THEOREM CliTypes == CliSpec => []CliTypeOK
<1>1. CliInv => CliTypeOK
  BY DEF CliInv
<1>2. QED
  BY <1>1, CliInvariance, PTL

\* The exit code of a scan is its verdict, and comes with every output it was
\* asked for (scan_cmd, write_reports).
THEOREM VerdictTheorem == CliSpec => []VerdictDelivered
<1>1. CliInv => VerdictDelivered
  BY DEF CliInv
<1>2. QED
  BY <1>1, CliInvariance, PTL

\* A complete dependency inventory vouches for everything its run wrote, though
\* later runs may have failed or been killed (write_reports).
THEOREM InventoryTheorem == CliSpec => []InventorySeals
<1>1. CliInv => InventorySeals
  BY DEF CliInv
<1>2. QED
  BY <1>1, CliInvariance, PTL

\* A run writes its own outputs, in order, and touches nothing else
\* (write_reports).
THEOREM WritesTheorem == CliSpec => WritesItsOwnInOrder
<1>1. CliInv /\ [CliNext]_cli_vars =>
        [\A f \in File : out'[f] # out[f] =>
           /\ args.command = "scan" /\ out'[f].run = run
           /\ \E k \in DOMAIN Outputs(args.format) :
                /\ f = Outputs(args.format)[k]
                /\ \A j \in 1..(k - 1) : Whole(Outputs(args.format)[j], run)]_cli_vars
  <2> SUFFICES ASSUME CliInv, [CliNext]_cli_vars, NEW f \in File, out'[f] # out[f]
               PROVE  /\ args.command = "scan" /\ out'[f].run = run
                      /\ \E k \in DOMAIN Outputs(args.format) :
                           /\ f = Outputs(args.format)[k]
                           /\ \A j \in 1..(k - 1) : Whole(Outputs(args.format)[j], run)
    OBVIOUS
  <2>1. Truncate \/ Fill
    BY DEF CliNext, cli_vars, Invoke, Usage, LoadRules, Scan, CreateDir, StartPrinting,
           PrintSummary, Gate, Kill, Finished
  <2>2. /\ next <= Len(Outputs(args.format)) /\ pc \in {"open", "fill"}
    BY <2>1 DEF Truncate, Fill, CliInv, BeingWritten
  <2>3. /\ args.command = "scan"
        /\ \A j \in 1..(next - 1) : Whole(Outputs(args.format)[j], run)
    BY <2>2 DEF CliInv, Progress, AlreadyWritten
  <2>4. out \in [File -> [run : 0..run, format : FormatArg, state : {"absent", "torn", "whole"}]]
    BY DEF CliInv, CliTypeOK
  <2>5. f = Target /\ out'[f].run = run
    <3>1. Target \in File
      BY <2>2, TargetFacts
    <3>2. CASE Truncate
      BY <2>4, <3>1, <3>2 DEF Truncate
    <3>3. CASE Fill
      BY <2>4, <3>1, <3>3 DEF Fill, CliInv, BeingWritten, Target
    <3>4. QED
      BY <2>1, <3>2, <3>3
  <2>6. next \in DOMAIN Outputs(args.format)
    BY <2>2, TargetFacts, OutputsFacts
  <2>7. QED
    BY <2>3, <2>5, <2>6 DEF Target
<1>2. QED
  BY <1>1, CliInvariance, PTL DEF CliSpec, WritesItsOwnInOrder
=============================================================================
