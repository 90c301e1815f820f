-------------------- MODULE TreeSitterDetector_proofs --------------------
(***************************************************************************)
(* Theorems about TreeSitterDetector, for any texts, trees and rules.       *)
(***************************************************************************)
EXTENDS TreeSitterDetector, Operators_proofs, SequenceTheorems

Positions ==
    /\ parse \in Parses /\ language \in LanguageName
    /\ rules \in Seq(Rule)
    /\ stack \in Seq(DOMAIN tree) /\ candidates \in Seq(DOMAIN tree)
    /\ rule \in 1..(Len(rules) + 1) /\ candidate \in 1..(Len(candidates) + 1)
    /\ from \in Nat \ {0} /\ rule_hits \in 0..Limit

\* As many keys as hits.
KeysOfHits == IsFiniteSet(dedup) /\ Cardinality(dedup) = Len(out)

Report == [rule : Nat, line : Nat, column : Nat, match : Lexeme]

\* A hit stands for the match at p.
StandsFor(d, p) ==
    /\ d.line = line_for_offset(text, p) /\ d.match = text[p]
    /\ column_for_offset(text, p) <= d.column
    /\ d.column <= column_for_offset(text, p) + ExtraBytes(text, p)

\* The hits stand for matches of the source.
Located ==
    /\ out \in Seq(Report)
    /\ \A k \in DOMAIN out :
         /\ out[k].rule \in DOMAIN rules
         /\ \E p \in Found(text, rules[out[k].rule].pattern) : StandsFor(out[k], p)

Inv == Positions /\ KeysOfHits /\ Located
-----------------------------------------------------------------------------
LEMMA TreeOfTheText ==
    ASSUME parse \in Parses
    PROVE  /\ text \in Seq(Lexeme) /\ 1 \in DOMAIN tree
           /\ \A n \in DOMAIN tree :
                /\ tree[n].first \in DOMAIN text /\ tree[n].last \in DOMAIN text
                /\ tree[n].children \in Seq(DOMAIN tree)
BY ParsesAssumption DEF text, tree

\* What is kept of a node is a part of the source.
LEMMA PartOfTheSource ==
    ASSUME parse \in Parses, NEW n \in DOMAIN tree
    PROVE  /\ CandidateText(n) \in Seq(Lexeme)
           /\ \A i \in DOMAIN CandidateText(n) :
                CandidateText(n)[i] = text[tree[n].first + i - 1]
           /\ tree[n].first + Len(CandidateText(n)) - 1 <= Len(text)
<1>1. PICK a, b : a = tree[n].first /\ b = tree[n].last
  OBVIOUS
<1>2. /\ a \in DOMAIN text /\ b \in DOMAIN text /\ text \in Seq(Lexeme)
      /\ DOMAIN text = 1..Len(text) /\ Len(text) \in Nat /\ a \in Nat /\ b \in Nat
  BY <1>1, TreeOfTheText
<1>3. PICK e \in Int : clip_text(n) = a..e /\ e <= Len(text)
  <2>1. CASE b - a < ClipLength
    BY <1>1, <1>2, <2>1 DEF clip_text
  <2>2. CASE ~(b - a < ClipLength)
    <3>1. a + ClipLength - 1 \in Int /\ a + ClipLength - 1 <= Len(text)
      BY <1>2, <2>2, TreeSitterAssumption
    <3>2. QED
      BY <1>1, <2>2, <3>1 DEF clip_text
  <2>3. QED
    BY <2>1, <2>2
<1>4. PICK len : len = Cardinality(clip_text(n))
  OBVIOUS
<1>5. len = IF a > e THEN 0 ELSE e - a + 1
  <2>1. a \in Int /\ e \in Int
    BY <1>2
  <2>2. Cardinality(a..e) = IF a > e THEN 0 ELSE e - a + 1
    BY <2>1, FS_Interval
  <2>3. QED
    BY <1>3, <1>4, <2>2
<1>6. len \in Nat /\ a + len - 1 <= Len(text)
  BY <1>2, <1>3, <1>5
<1>7. CandidateText(n) = [i \in 1..len |-> text[a + i - 1]]
  BY <1>1, <1>4 DEF CandidateText
<1>8. ASSUME NEW i \in 1..len PROVE text[a + i - 1] \in Lexeme
  <2>1. a + i - 1 \in DOMAIN text
    BY <1>2, <1>6
  <2>2. QED
    BY <1>2, <2>1
<1>9. CandidateText(n) \in Seq(Lexeme) /\ Len(CandidateText(n)) = len
      /\ DOMAIN CandidateText(n) = 1..len
  BY <1>6, <1>7, <1>8
<1>10. QED
  BY <1>1, <1>6, <1>7, <1>9

\* A match in what is kept of a node is one of the source, and its column is
\* too far by no more than the bytes of the characters before it.
LEMMA HitInTheSource ==
    ASSUME parse \in Parses, NEW n \in DOMAIN tree, NEW w,
           NEW at \in Found(CandidateText(n), w),
           NEW p, p = tree[n].first + at - 1
    PROVE  /\ p \in Found(text, w) /\ text[p] = CandidateText(n)[at] /\ text[p] \in Lexeme
           /\ HitLine(n, at) = line_for_offset(text, p)
           /\ column_for_offset(text, p) <= HitColumn(n, at)
           /\ HitColumn(n, at) <= column_for_offset(text, p) + ExtraBytes(text, p)
           /\ HitLine(n, at) \in Nat /\ HitColumn(n, at) \in Nat
<1>1. PICK t, a : t = CandidateText(n) /\ a = tree[n].first
  OBVIOUS
<1>2. /\ text \in Seq(Lexeme) /\ a \in DOMAIN text /\ t \in Seq(Lexeme)
      /\ a + Len(t) - 1 <= Len(text)
      /\ \A i \in DOMAIN t : t[i] = text[a + i - 1]
      /\ at \in DOMAIN t /\ t[at] \in w
  BY <1>1, TreeOfTheText, PartOfTheSource DEF Found
<1>3. /\ p \in DOMAIN text
      /\ line_for_offset(text, p) = line_for_offset(text, a) + line_for_offset(t, at) - 1
      /\ column_for_offset(text, p)
           = IF line_for_offset(t, at) = 1
             THEN column_for_offset(text, a) + column_for_offset(t, at) - 1
             ELSE column_for_offset(t, at)
  BY <1>1, <1>2, PlaceWithin
<1>4. /\ line_for_offset(text, p) \in 1..p /\ column_for_offset(text, p) \in 1..p
      /\ line_for_offset(text, a) \in 1..a /\ column_for_offset(text, a) \in 1..a
      /\ line_for_offset(t, at) \in 1..at /\ column_for_offset(t, at) \in 1..at
  BY <1>2, <1>3, PlaceTypes
<1>5. p \in Found(text, w) /\ text[p] = t[at] /\ text[p] \in Lexeme
  <2>1. text[p] = t[at]
    BY <1>1, <1>2
  <2>2. QED
    BY <1>2, <1>3, <2>1 DEF Found
<1>6. HitLine(n, at) = line_for_offset(text, p)
  BY <1>1, <1>3 DEF HitLine
<1>7. ExtraBytes(text, p) \in Nat /\ ExtraBytes(text, a) \in Nat
  BY <1>2, <1>3, ExtraBytesType
<1>8. /\ column_for_offset(text, p) <= HitColumn(n, at)
      /\ HitColumn(n, at) <= column_for_offset(text, p) + ExtraBytes(text, p)
      /\ HitColumn(n, at) \in Nat
  <2>1. CASE line_for_offset(t, at) = 1
    <3>1. HitColumn(n, at) = column_for_offset(text, a) + ExtraBytes(text, a)
                               + column_for_offset(t, at) - 1
      BY <1>1, <2>1 DEF HitColumn, NodeColumn
    <3>2. line_for_offset(text, a) = line_for_offset(text, p)
      BY <1>3, <1>4, <2>1
    <3>3. a <= p
      <4>1. a \in Int /\ at \in Int /\ at >= 1
        BY <1>2
      <4>2. QED
        BY <1>1, <4>1
    <3>4. ExtraBytes(text, a) <= ExtraBytes(text, p)
      BY <1>2, <1>3, <3>2, <3>3, ExtraBytesGrow
    <3>5. QED
      BY <1>3, <1>4, <1>7, <2>1, <3>1, <3>4
  <2>2. CASE line_for_offset(t, at) # 1
    <3>1. HitColumn(n, at) = column_for_offset(t, at)
      BY <1>1, <2>2 DEF HitColumn
    <3>2. QED
      BY <1>3, <1>4, <1>7, <2>2, <3>1
  <2>3. QED
    BY <2>1, <2>2
<1>9. QED
  BY <1>1, <1>4, <1>5, <1>6, <1>8

LEMMA InitInv == Init => Inv
<1> SUFFICES ASSUME Init PROVE Inv
  OBVIOUS
<1>1. Positions
  <2>1. 1 \in DOMAIN tree /\ parse \in Parses
    BY TreeOfTheText DEF Init
  <2>2. <<1>> \in Seq(DOMAIN tree) /\ << >> \in Seq(DOMAIN tree) /\ Len(<< >>) = 0
    BY <2>1
  <2>3. rules \in Seq(Rule) /\ Len(rules) \in Nat
    BY RulesAssumption DEF Init
  <2>4. rule \in 1..(Len(rules) + 1) /\ candidate \in 1..(Len(candidates) + 1)
        /\ rule_hits \in 0..Limit /\ from \in Nat \ {0}
    BY <2>2, <2>3, TreeSitterAssumption DEF Init
  <2>5. QED
    BY <2>1, <2>2, <2>3, <2>4 DEF Init, Positions
<1>2. KeysOfHits
  BY FS_EmptySet DEF Init, KeysOfHits
<1>3. Located
  BY DEF Init, Located
<1>4. QED
  BY <1>1, <1>2, <1>3 DEF Inv

\* Steps that report nothing.
LEMMA NothingReported ==
    ASSUME Inv, UNCHANGED <<parse, language, rules, dedup, out>>
    PROVE  KeysOfHits' /\ Located'
BY DEF Inv, KeysOfHits, Located, StandsFor, text

\* The nodes visited are nodes of the tree.
LEMMA VisitStep == ASSUME Inv, Visit PROVE Inv'
<1> USE DEF Inv
<1>1. PICK n, s, rest : /\ n = Len(stack) /\ s = stack[n] /\ rest = SubSeq(stack, 1, n - 1)
  OBVIOUS
<1>2. /\ stack \in Seq(DOMAIN tree) /\ n \in Nat /\ n >= 1 /\ s \in DOMAIN tree
      /\ candidates \in Seq(DOMAIN tree) /\ tree' = tree
  BY <1>1 DEF Visit, Positions, tree
<1>3. rest \in Seq(DOMAIN tree)
  <2>1. \A i \in 1..(n - 1) : stack[i] \in DOMAIN tree
    BY <1>1, <1>2
  <2>2. 1 \in Int /\ n - 1 \in Int
    BY <1>2
  <2>3. QED
    BY <1>1, <2>1, <2>2, SubSeqProperties
<1>4. stack' = rest \o tree[s].children /\ tree[s].children \in Seq(DOMAIN tree)
  BY <1>1, <1>2, TreeOfTheText DEF Visit, Positions
<1>5. stack' \in Seq(DOMAIN tree)
  BY <1>3, <1>4, ConcatProperties
<1>6. candidates' = candidates \/ candidates' = Append(candidates, s)
  BY <1>1 DEF Visit
<1>7. candidates' \in Seq(DOMAIN tree) /\ Len(candidates') >= Len(candidates)
  BY <1>2, <1>6
<1>8. Positions'
  <2>1. Len(candidates) \in Nat /\ Len(candidates') \in Nat
    BY <1>2, <1>7
  <2>2. candidate' \in 1..(Len(candidates') + 1)
    BY <1>7, <2>1 DEF Visit, Positions
  <2>3. QED
    BY <1>2, <1>5, <1>7, <2>2 DEF Visit, Positions
<1>9. QED
  BY <1>8, NothingReported DEF Visit

\* Going on leaves the loops where they may be.
LEMMA HitPositions ==
    ASSUME Inv, NEW node \in DOMAIN tree, NEW at \in DOMAIN CandidateText(node), Hit(node, at),
           rule_hits' \in 0..Limit
    PROVE  Positions' /\ rule \in DOMAIN rules
           /\ at \in Found(CandidateText(node), rules[rule].pattern)
<1>1. CandidateText(node) \in Seq(Lexeme)
  BY PartOfTheSource DEF Inv, Positions
<1>2. at \in Nat \ {0}
  BY <1>1
<1>3. QED
  BY <1>2 DEF Inv, Positions, Hit, Searching, tree

LEMMA SkipStep ==
    ASSUME Inv, NEW node \in DOMAIN tree, NEW at \in DOMAIN CandidateText(node),
           SkipHit(node, at)
    PROVE  Inv'
<1>1. rule_hits' \in 0..Limit
  BY DEF SkipHit, Inv, Positions
<1>2. QED
  BY <1>1, HitPositions, NothingReported DEF SkipHit, Hit, Inv

\* A new key and a hit are added together, below the limit.
LEMMA ReportStep ==
    ASSUME Inv, NEW node \in DOMAIN tree, NEW at \in DOMAIN CandidateText(node),
           ReportHit(node, at)
    PROVE  Inv'
<1> USE DEF Inv
<1>1. /\ Hit(node, at) /\ rule_hits' = rule_hits + 1 /\ rule_hits < Limit
      /\ parse' = parse /\ rules' = rules /\ text' = text
  BY TreeSitterAssumption DEF ReportHit, Hit, Full, Positions, text
<1>2. Positions' /\ rule \in DOMAIN rules /\ rule \in Nat
      /\ at \in Found(CandidateText(node), rules[rule].pattern)
  <2>1. rule_hits' \in 0..Limit
    BY <1>1, TreeSitterAssumption DEF Positions
  <2>2. QED
    BY <1>1, <2>1, HitPositions DEF Positions
<1>3. PICK d : d = [rule |-> rule, line |-> HitLine(node, at), column |-> HitColumn(node, at),
                    match |-> CandidateText(node)[at]]
  OBVIOUS
<1>4. PICK p : p = tree[node].first + at - 1
  OBVIOUS
<1>5. /\ p \in Found(text, rules[rule].pattern)
      /\ text[p] = CandidateText(node)[at] /\ text[p] \in Lexeme
      /\ HitLine(node, at) = line_for_offset(text, p)
      /\ column_for_offset(text, p) <= HitColumn(node, at)
      /\ HitColumn(node, at) <= column_for_offset(text, p) + ExtraBytes(text, p)
      /\ HitLine(node, at) \in Nat /\ HitColumn(node, at) \in Nat
  BY <1>2, <1>4, HitInTheSource DEF Positions
<1>6. d \in Report /\ d.rule = rule /\ StandsFor(d, p)
  BY <1>2, <1>3, <1>5 DEF Report, StandsFor
<1>7. /\ out \in Seq(Report) /\ out' = Append(out, d)
  BY <1>3 DEF ReportHit, Located
<1>8. PICK n : n = Len(out)
  OBVIOUS
<1>9. /\ n \in Nat /\ DOMAIN out = 1..n /\ DOMAIN out' = 1..(n + 1) /\ Len(out') = n + 1
      /\ out' \in Seq(Report) /\ out'[n + 1] = d /\ \A k \in 1..n : out'[k] = out[k]
  BY <1>6, <1>7, <1>8
<1>10. KeysOfHits'
  <2>1. /\ dedup' = dedup \cup {Key(node, at)} /\ Key(node, at) \notin dedup
    BY DEF ReportHit
  <2>2. IsFiniteSet(dedup') /\ Cardinality(dedup') = Cardinality(dedup) + 1
    BY <2>1, FS_AddElement DEF KeysOfHits
  <2>3. QED
    BY <1>8, <1>9, <2>2 DEF KeysOfHits
<1>11. ASSUME NEW k \in DOMAIN out'
       PROVE  /\ out'[k].rule \in DOMAIN rules
              /\ \E q \in Found(text, rules[out'[k].rule].pattern) : StandsFor(out'[k], q)
  <2>1. CASE k = n + 1
    BY <1>2, <1>5, <1>6, <1>9, <2>1
  <2>2. CASE k \in 1..n
    BY <1>9, <2>2 DEF Located
  <2>3. QED
    BY <1>9, <2>1, <2>2
<1>12. Located'
  <2>1. \A k \in DOMAIN out' : \E q \in Found(text', rules'[out'[k].rule].pattern) :
          (StandsFor(out[k], q))'
    BY <1>1, <1>11 DEF StandsFor
  <2>2. QED
    BY <1>1, <1>9, <1>11, <2>1 DEF Located
<1>13. QED
  BY <1>2, <1>10, <1>12

LEMMA CandidateStep == ASSUME Inv, NextCandidate PROVE Inv'
<1>1. Positions'
  BY DEF Inv, Positions, NextCandidate, tree
<1>2. QED
  BY <1>1, NothingReported DEF NextCandidate, Inv

LEMMA RuleStep == ASSUME Inv, NextRule PROVE Inv'
<1>1. Positions'
  BY TreeSitterAssumption DEF Inv, Positions, NextRule, Searching, tree
<1>2. QED
  BY <1>1, NothingReported DEF NextRule, Inv

\* The invariant: loops within their bounds, and hits in the source.
THEOREM DetectorInvariance == Spec => []Inv
<1>1. Inv /\ [Next]_vars => Inv'
  <2> SUFFICES ASSUME Inv, [Next]_vars PROVE Inv'
    OBVIOUS
  <2>1. CASE UNCHANGED vars
    <3>1. Positions'
      BY <2>1 DEF vars, Inv, Positions, tree
    <3>2. QED
      BY <2>1, <3>1, NothingReported DEF vars, Inv
  <2>2. QED
    BY <2>1, VisitStep, SkipStep, ReportStep, CandidateStep, RuleStep DEF Next, Terminated
<1>2. QED
  BY InitInv, <1>1, PTL DEF Spec

\* The limit holds, and there are as many keys as hits.
THEOREM DetectorTypes == Spec => []TypeOK
<1>1. Inv => TypeOK
  BY DEF Inv, Positions, KeysOfHits, Located, TypeOK
<1>2. QED
  BY DetectorInvariance, <1>1, PTL

\* A hit is reported at the line of a match in the source, though its place was
\* counted from the beginning of a node, and at its column or, behind characters
\* of several bytes, at most as much too far as these are.
THEOREM HitsTheorem == Spec => []HitsLocated
<1>1. Inv => HitsLocated
  BY DEF Inv, Located, StandsFor, HitsLocated
<1>2. QED
  BY DetectorInvariance, <1>1, PTL
-----------------------------------------------------------------------------
\* Which offsets are kept of a node.
LEMMA KeptOffsets ==
    ASSUME parse \in Parses, NEW n \in DOMAIN tree
    PROVE  clip_text(n) = tree[n].first..(tree[n].first + Len(CandidateText(n)) - 1)
<1>1. PICK a, b : a = tree[n].first /\ b = tree[n].last
  OBVIOUS
<1>2. a \in Nat /\ b \in Nat
  <2>1. a \in DOMAIN text /\ b \in DOMAIN text /\ text \in Seq(Lexeme)
    BY <1>1, TreeOfTheText
  <2>2. QED
    BY <2>1
<1>3. PICK e \in Int : clip_text(n) = a..e
  <2>1. CASE b - a < ClipLength
    BY <1>1, <1>2, <2>1 DEF clip_text
  <2>2. CASE ~(b - a < ClipLength)
    <3>1. a + ClipLength - 1 \in Int
      BY <1>2, TreeSitterAssumption
    <3>2. QED
      BY <1>1, <2>2, <3>1 DEF clip_text
  <2>3. QED
    BY <2>1, <2>2
<1>4. PICK len : len = Cardinality(clip_text(n))
  OBVIOUS
<1>5. len = IF a > e THEN 0 ELSE e - a + 1
  <2>1. a \in Int /\ e \in Int
    BY <1>2
  <2>2. Cardinality(a..e) = IF a > e THEN 0 ELSE e - a + 1
    BY <2>1, FS_Interval
  <2>3. QED
    BY <1>3, <1>4, <2>2
<1>6. CandidateText(n) = [i \in 1..len |-> text[a + i - 1]]
  BY <1>1, <1>4 DEF CandidateText
<1>7. len \in Nat /\ Len(CandidateText(n)) = len
  <2>1. len \in Nat
    BY <1>2, <1>5
  <2>2. QED
    BY <1>6, <2>1
<1>8. a..e = a..(a + len - 1)
  BY <1>2, <1>5
<1>9. QED
  BY <1>1, <1>3, <1>7, <1>8

\* The code reports a match found in a node just when the node shows it.
LEMMA ShownWhereFound ==
    ASSUME parse \in Parses, NEW n \in DOMAIN tree, tree[n].semantic, NEW w \in Pattern,
           NEW at \in Found(CandidateText(n), w)
    PROVE  Shows(n, tree[n].first + at - 1) <=> ~Rejected(n, at)
<1>1. PICK t, a, p, len : /\ t = CandidateText(n) /\ a = tree[n].first /\ p = a + at - 1
                          /\ len = Len(t)
  OBVIOUS
<1>2. /\ t \in Seq(Lexeme) /\ at \in DOMAIN t /\ t[at] \in w
      /\ t[at] \in Matched /\ \A i \in DOMAIN t : t[i] = text[a + i - 1]
      /\ DOMAIN t = 1..len /\ len \in Nat /\ at \in Nat /\ 1 <= at /\ at <= len
      /\ \A i : i \in DOMAIN t <=> i \in Int /\ 1 <= i /\ i <= len
  <2>1. /\ t \in Seq(Lexeme) /\ at \in DOMAIN t /\ t[at] \in w
        /\ \A i \in DOMAIN t : t[i] = text[a + i - 1]
    BY <1>1, PartOfTheSource DEF Found
  <2>2. DOMAIN t = 1..len /\ len \in Nat
    BY <1>1, <2>1
  <2>3. t[at] \in Matched
    BY <2>1 DEF Pattern
  <2>4. QED
    BY <2>1, <2>2, <2>3
<1>3. /\ a \in Int /\ a >= 1 /\ at \in Int /\ len \in Int /\ p \in Int
      /\ p = a + at - 1 /\ 1 <= at /\ at <= len
  <2>1. a \in DOMAIN text /\ text \in Seq(Lexeme)
    BY <1>1, TreeOfTheText
  <2>2. a \in Nat /\ a >= 1
    BY <2>1
  <2>3. QED
    BY <1>1, <1>2, <2>2
<1>4. \A q : q \in clip_text(n) <=> q \in Int /\ a <= q /\ q <= a + len - 1
  <2>1. clip_text(n) = a..(a + len - 1)
    BY <1>1, KeptOffsets
  <2>2. a \in Int /\ a + len - 1 \in Int
    BY <1>2, <1>3
  <2>3. QED
    BY <2>1, <2>2
<1>5. \A q \in clip_text(n) : q - a + 1 \in 1..len /\ text[q] = t[q - a + 1]
  <2>1. TAKE q \in clip_text(n)
  <2>2. q - a + 1 \in 1..len /\ a + (q - a + 1) - 1 = q
    BY <1>2, <1>3, <1>4
  <2>3. QED
    BY <1>2, <2>2
<1>6. p \in clip_text(n) /\ text[p] = t[at]
  <2>1. p \in a..(a + len - 1) /\ p - a + 1 = at
    BY <1>1, <1>2, <1>3
  <2>2. QED
    BY <1>2, <1>4, <1>5, <2>1
<1>7. is_embedded_identifier_submatch(t, at) <=>
        ~(IsIdentifier(text[p]) =>
            \A q \in {p - 1, p + 1} \cap clip_text(n) : ~IsIdentifier(text[q]))
  <2>1. /\ p - 1 \in clip_text(n) <=> at > 1
        /\ p + 1 \in clip_text(n) <=> at < len
    BY <1>3, <1>4
  <2>2. ASSUME at > 1 PROVE text[p - 1] = t[at - 1]
    <3>1. p - 1 \in clip_text(n) /\ (p - 1) - a + 1 = at - 1
      BY <1>3, <2>1, <2>2
    <3>2. QED
      BY <1>5, <3>1
  <2>3. ASSUME at < len PROVE text[p + 1] = t[at + 1]
    <3>1. p + 1 \in clip_text(n) /\ (p + 1) - a + 1 = at + 1
      BY <1>3, <2>1, <2>3
    <3>2. QED
      BY <1>5, <3>1
  <2>4. IsIdentifier(text[p]) <=> IsIdentifier(t[at])
    BY <1>2, <1>6
  <2>5. is_embedded_identifier_submatch(t, at) <=>
          /\ IsIdentifier(t[at])
          /\ \/ at > 1 /\ IsIdentifier(t[at - 1])
             \/ at < len /\ IsIdentifier(t[at + 1])
    BY <1>1 DEF is_embedded_identifier_submatch
  <2>6. at > 1 => (IsIdentifier(text[p - 1]) <=> IsIdentifier(t[at - 1]))
    BY <2>2
  <2>7. at < len => (IsIdentifier(text[p + 1]) <=> IsIdentifier(t[at + 1]))
    BY <2>3
  <2>8. QED
    BY <2>1, <2>4, <2>5, <2>6, <2>7
<1> DEFINE hidden == \E q \in clip_text(n) :
                        /\ q < p /\ text[q] = "remark"
                        /\ \A b \in clip_text(n) : b < q => \/ text[b] = "blank"
                                                            \/ \E m \in b..q : text[m] = "newline"
                        /\ \A m \in q..p : text[m] # "newline"
<1>8. is_comment_only_line(t, at) <=> hidden
  <2>1. is_comment_only_line(t, at) <=>
          \E q \in 1..(at - 1) :
             /\ t[q] = "remark"
             /\ \A b \in 1..(q - 1) : t[b] = "blank" \/ \E m \in b..q : t[m] = "newline"
             /\ \A m \in q..at : t[m] # "newline"
    BY <1>2, CommentOfTheLine
  <2>2. ASSUME NEW q \in 1..(at - 1), t[q] = "remark",
               \A b \in 1..(q - 1) : t[b] = "blank" \/ \E m \in b..q : t[m] = "newline",
               \A m \in q..at : t[m] # "newline"
        PROVE  hidden
    <3>1. PICK k : k = a + q - 1
      OBVIOUS
    <3>2. k \in clip_text(n) /\ k \in Int /\ k < p /\ k - a + 1 = q
      BY <1>3, <1>4, <3>1
    <3>3. text[k] = "remark"
      BY <1>5, <2>2, <3>2
    <3>4. ASSUME NEW b \in clip_text(n), b < k
          PROVE  text[b] = "blank" \/ \E m \in b..k : text[m] = "newline"
      <4>1. b - a + 1 \in 1..(q - 1) /\ text[b] = t[b - a + 1]
        <5>1. b - a + 1 \in 1..(q - 1)
          BY <1>3, <1>4, <3>2, <3>4
        <5>2. QED
          BY <1>5, <5>1
      <4>2. CASE t[b - a + 1] = "blank"
        BY <4>1, <4>2
      <4>3. CASE \E m \in (b - a + 1)..q : t[m] = "newline"
        <5>1. PICK m \in (b - a + 1)..q : t[m] = "newline"
          BY <4>3
        <5>2. m \in 1..len /\ a + m - 1 \in b..k
          BY <1>2, <1>3, <1>4, <3>1, <4>1, <5>1
        <5>3. text[a + m - 1] = "newline"
          BY <1>2, <5>1, <5>2
        <5>4. QED
          BY <5>2, <5>3
      <4>4. QED
        BY <2>2, <4>1, <4>2, <4>3
    <3>5. ASSUME NEW m \in k..p PROVE text[m] # "newline"
      <4>1. m \in clip_text(n) /\ m - a + 1 \in q..at
        BY <1>3, <1>4, <3>2
      <4>2. QED
        BY <1>5, <2>2, <4>1
    <3>6. QED
      BY <3>2, <3>3, <3>4, <3>5
  <2>3. ASSUME NEW k \in clip_text(n), k < p, text[k] = "remark",
               \A b \in clip_text(n) : b < k => \/ text[b] = "blank"
                                                \/ \E m \in b..k : text[m] = "newline",
               \A m \in k..p : text[m] # "newline"
        PROVE  \E q \in 1..(at - 1) :
                 /\ t[q] = "remark"
                 /\ \A b \in 1..(q - 1) : t[b] = "blank" \/ \E m \in b..q : t[m] = "newline"
                 /\ \A m \in q..at : t[m] # "newline"
    <3>1. PICK q : q = k - a + 1
      OBVIOUS
    <3>2. q \in 1..(at - 1) /\ k = a + q - 1
      BY <1>3, <1>4, <2>3, <3>1
    <3>3. t[q] = "remark"
      BY <1>5, <2>3, <3>1
    <3>4. ASSUME NEW b \in 1..(q - 1)
          PROVE  t[b] = "blank" \/ \E m \in b..q : t[m] = "newline"
      <4>1. PICK c : c = a + b - 1
        OBVIOUS
      <4>2. c \in clip_text(n) /\ c \in Int /\ c < k /\ c - a + 1 = b
        BY <1>3, <1>4, <3>2, <4>1
      <4>3. text[c] = t[b]
        BY <1>5, <4>2
      <4>4. CASE text[c] = "blank"
        BY <4>3, <4>4
      <4>5. CASE \E m \in c..k : text[m] = "newline"
        <5>1. PICK m \in c..k : text[m] = "newline"
          BY <4>5
        <5>2. m \in clip_text(n) /\ m - a + 1 \in b..q
          BY <1>3, <1>4, <3>2, <4>1, <4>2, <5>1
        <5>3. t[m - a + 1] = "newline"
          BY <1>5, <5>1, <5>2
        <5>4. QED
          BY <5>2, <5>3
      <4>6. QED
        BY <2>3, <4>2, <4>4, <4>5
    <3>5. ASSUME NEW m \in q..at PROVE t[m] # "newline"
      <4>1. m \in DOMAIN t /\ a + m - 1 \in k..p
        <5>1. m \in Int /\ 1 <= m /\ m <= len /\ a + m - 1 \in k..p
          BY <1>3, <3>2
        <5>2. QED
          BY <1>2, <5>1
      <4>2. QED
        BY <1>2, <2>3, <4>1
    <3>6. QED
      BY <3>2, <3>3, <3>4, <3>5
  <2>4. QED
    BY <2>1, <2>2, <2>3
<1>9. should_skip_comment_only_match(Filter, t, at) <=> language # "java" /\ hidden
  BY <1>8 DEF should_skip_comment_only_match, Filter
<1>10. QED
  <2>1. Rejected(n, at) <=> should_skip_comment_only_match(Filter, t, at)
                            \/ is_embedded_identifier_submatch(t, at)
    BY <1>1 DEF Rejected
  <2>2. Shows(n, p) <=>
          /\ IsIdentifier(text[p]) =>
               \A q \in {p - 1, p + 1} \cap clip_text(n) : ~IsIdentifier(text[q])
          /\ language # "java" => ~hidden
    BY <1>6 DEF Shows
  <2>3. QED
    BY <1>1, <1>7, <1>9, <2>1, <2>2
-----------------------------------------------------------------------------
\* A node whose text is searched.
Telling(n) ==
    /\ tree[n].semantic
    /\ ~\A p \in tree[n].first..tree[n].last : text[p] \in {"blank", "newline"}

IsCandidate(n) == \E c \in DOMAIN candidates : candidates[c] = n

\* With a node, its children.
Closed(S) == \A n \in S : \A c \in DOMAIN tree[n].children : tree[n].children[c] \in S

\* The candidates are the nodes to search but for those still to be visited,
\* and they are not gone through before all were visited.
Traversed ==
    /\ \A n \in DOMAIN tree : IsCandidate(n) => Telling(n)
    /\ \A S \in SUBSET DOMAIN tree :
         Closed(S) /\ (\A k \in DOMAIN stack : stack[k] \in S)
         => \A n \in DOMAIN tree : Telling(n) => n \in S \/ IsCandidate(n)
    /\ stack # << >> => candidate = 1 /\ from = 1

\* What is found in a node: a line, and a match up to its case.
MatchIn(node, at) ==
    <<HitLine(node, at), normalize_match_for_dedup(CandidateText(node)[at])>>

Reported(k, m) == \E i \in DOMAIN out : out[i].rule = k /\ MatchOf(i) = m

\* A rule reports a match of a line once, and what it reported are the keys.
HitsApart ==
    /\ \A i, j \in DOMAIN out : out[i].rule = out[j].rule /\ MatchOf(i) = MatchOf(j) => i = j
    /\ \A k \in DOMAIN rules : \A line, match :
         <<k, line, match>> \in dedup <=> Reported(k, <<line, match>>)

\* The limit is one for each rule.
HitsCounted ==
    /\ rule_hits = Cardinality(HitsOf(rule))
    /\ \A k \in DOMAIN rules : Cardinality(HitsOf(k)) <= Limit
    /\ \A i \in DOMAIN out : out[i].rule <= rule

HitsShown ==
    \A i \in DOMAIN out :
        scope_matches(rules[out[i].rule].scope) /\ MatchOf(i) \in ShownMatches(out[i].rule)

\* Where the loops have been.
Passed(c, at) == c < candidate \/ (c = candidate /\ at < from)

Examined ==
    rule \in DOMAIN rules =>
        \A c \in DOMAIN candidates :
            \A at \in Found(CandidateText(candidates[c]), rules[rule].pattern) :
                Passed(c, at) /\ ~Rejected(candidates[c], at)
                => Reported(rule, MatchIn(candidates[c], at))

Finished ==
    \A k \in DOMAIN rules :
        k < rule /\ scope_matches(rules[k].scope)
        => Cardinality(HitsOf(k)) >= Limit \/ \A m \in ShownMatches(k) : Reported(k, m)

SearchInv ==
    Traversed /\ HitsApart /\ HitsCounted /\ HitsShown /\ Examined /\ Finished

\* A node that shows a match is one to search.
LEMMA ShownIsTelling ==
    ASSUME parse \in Parses, NEW n \in DOMAIN tree, NEW w \in Pattern,
           NEW p \in Found(text, w), Shows(n, p)
    PROVE  /\ Telling(n)
           /\ p - tree[n].first + 1 \in Found(CandidateText(n), w)
           /\ p = tree[n].first + (p - tree[n].first + 1) - 1
<1>1. PICK a, b : a = tree[n].first /\ b = tree[n].last
  OBVIOUS
<1>2. /\ a \in Nat /\ b \in Nat /\ p \in Int /\ text[p] \in w
  <2>1. a \in DOMAIN text /\ b \in DOMAIN text /\ text \in Seq(Lexeme)
    BY <1>1, TreeOfTheText
  <2>2. p \in DOMAIN text /\ text[p] \in w
    BY DEF Found
  <2>3. QED
    BY <2>1, <2>2
<1>3. tree[n].semantic /\ p \in clip_text(n)
  BY DEF Shows
<1>4. p \in a..b
  <2>1. CASE b - a < ClipLength
    BY <1>1, <1>3, <2>1 DEF clip_text
  <2>2. CASE ~(b - a < ClipLength)
    <3>1. clip_text(n) = a..(a + ClipLength - 1)
      BY <1>1, <2>2 DEF clip_text
    <3>2. ClipLength \in Nat
      BY TreeSitterAssumption
    <3>3. QED
      BY <1>2, <1>3, <2>2, <3>1, <3>2
  <2>3. QED
    BY <2>1, <2>2
<1>5. Telling(n)
  <2>1. text[p] \in Matched
    BY <1>2 DEF Pattern
  <2>2. text[p] \notin {"blank", "newline"}
    BY <2>1 DEF Matched
  <2>3. QED
    BY <1>1, <1>3, <1>4, <2>2 DEF Telling
<1>6. PICK len : len = Len(CandidateText(n))
  OBVIOUS
<1>7. /\ len \in Nat /\ DOMAIN CandidateText(n) = 1..len
      /\ \A i \in DOMAIN CandidateText(n) : CandidateText(n)[i] = text[a + i - 1]
  <2>1. CandidateText(n) \in Seq(Lexeme)
    BY PartOfTheSource
  <2>2. QED
    BY <1>1, <1>6, <2>1, PartOfTheSource
<1>8. p \in a..(a + len - 1)
  BY <1>1, <1>3, <1>6, KeptOffsets
<1>9. PICK at : at = p - a + 1
  OBVIOUS
<1>10. at \in 1..len /\ a + at - 1 = p
  BY <1>2, <1>7, <1>8, <1>9
<1>11. at \in Found(CandidateText(n), w)
  BY <1>2, <1>7, <1>10 DEF Found
<1>12. QED
  BY <1>1, <1>5, <1>9, <1>10, <1>11

\* The matches shown are finitely many.
LEMMA ShownMatchesFinite ==
    ASSUME parse \in Parses, NEW k
    PROVE  IsFiniteSet(ShownMatches(k)) /\ Cardinality(ShownMatches(k)) \in Nat
<1> DEFINE M == {m \in Found(text, rules[k].pattern) : \E node \in DOMAIN tree : Shows(node, m)}
           At(p) == <<line_for_offset(text, p), normalize_match_for_dedup(text[p])>>
<1>1. IsFiniteSet(M)
  BY TreeOfTheText, FoundTypes
<1>2. ShownMatches(k) = {At(p) : p \in M}
  BY DEF ShownMatches
<1>3. PICK f : f = [p \in M |-> At(p)]
  OBVIOUS
<1>4. f \in Surjection(M, ShownMatches(k))
  BY <1>2, <1>3 DEF Surjection
<1>5. QED
  BY <1>1, <1>4, FS_Surjection, FS_CardinalityType

\* While the text, the language and the rules are the same, so is what follows
\* from them alone.
LEMMA SameInput ==
    ASSUME UNCHANGED <<parse, language, rules>>
    PROVE  /\ text' = text /\ tree' = tree
           /\ \A n : (CandidateText(n))' = CandidateText(n)
           /\ \A n, at : (MatchIn(n, at))' = MatchIn(n, at)
           /\ \A n, at : (Rejected(n, at))' <=> Rejected(n, at)
           /\ \A n : (Telling(n))' <=> Telling(n)
           /\ \A S : (Closed(S))' <=> Closed(S)
           /\ \A k : (ShownMatches(k))' = ShownMatches(k)
           /\ \A scope : (scope_matches(scope))' <=> scope_matches(scope)
<1>1. text' = text /\ tree' = tree /\ Filter' = Filter
  BY DEF text, tree, Filter
<1>2. \A n : (clip_text(n))' = clip_text(n)
  BY <1>1 DEF clip_text
<1>3. \A n : (CandidateText(n))' = CandidateText(n)
  BY <1>1, <1>2 DEF CandidateText
<1>4. \A n, at : (MatchIn(n, at))' = MatchIn(n, at)
  BY <1>1, <1>3 DEF MatchIn, HitLine
<1>5. \A n, at : (Rejected(n, at))' <=> Rejected(n, at)
  BY <1>1, <1>3 DEF Rejected
<1>6. \A n : (Telling(n))' <=> Telling(n)
  BY <1>1 DEF Telling
<1>7. \A S : (Closed(S))' <=> Closed(S)
  BY <1>1 DEF Closed
<1>8. \A n, p : (Shows(n, p))' <=> Shows(n, p)
  BY <1>1, <1>2 DEF Shows
<1>9. ASSUME NEW k PROVE (ShownMatches(k))' = ShownMatches(k)
  <2>1. {m \in Found(text, rules[k].pattern) : \E node \in DOMAIN tree : Shows(node, m)}'
          = {m \in Found(text, rules[k].pattern) : \E node \in DOMAIN tree : Shows(node, m)}
    BY <1>1, <1>8
  <2>2. QED
    BY <1>1, <2>1 DEF ShownMatches
<1>10. \A scope : (scope_matches(scope))' <=> scope_matches(scope)
  BY DEF scope_matches
<1>11. QED
  BY <1>1, <1>3, <1>4, <1>5, <1>6, <1>7, <1>9, <1>10

LEMMA InitSearch == Init => SearchInv
<1> SUFFICES ASSUME Init PROVE SearchInv
  OBVIOUS
<1>1. DOMAIN out = {} /\ DOMAIN candidates = {} /\ stack = <<1>> /\ rules \in Seq(Rule)
  BY RulesAssumption DEF Init
<1>2. Traversed
  <2>1. \A n : ~IsCandidate(n)
    BY <1>1 DEF IsCandidate
  <2>2. ASSUME NEW S \in SUBSET DOMAIN tree, Closed(S), \A k \in DOMAIN stack : stack[k] \in S
        PROVE  S = DOMAIN tree
    <3>1. 1 \in S
      BY <1>1, <2>2
    <3>2. QED
      BY <2>2, <3>1, TreesAssumption DEF Init, Closed, tree
  <2>3. candidate = 1 /\ from = 1
    BY DEF Init
  <2>4. QED
    BY <2>1, <2>2, <2>3 DEF Traversed
<1>3. \A k, m : ~Reported(k, m)
  BY <1>1 DEF Reported
<1>4. HitsApart
  BY <1>1, <1>3 DEF HitsApart, Init
<1>5. HitsCounted
  <2>1. \A k : HitsOf(k) = {}
    BY <1>1 DEF HitsOf
  <2>2. \A k : Cardinality(HitsOf(k)) = 0
    BY <2>1, FS_EmptySet
  <2>3. QED
    BY <1>1, <2>2, TreeSitterAssumption DEF Init, HitsCounted
<1>6. HitsShown
  BY <1>1 DEF HitsShown
<1>7. Examined
  BY <1>1 DEF Examined
<1>8. Finished
  <2>1. rule = 1 /\ DOMAIN rules \subseteq Nat \ {0}
    BY <1>1 DEF Init
  <2>2. QED
    BY <2>1 DEF Finished
<1>9. QED
  BY <1>2, <1>4, <1>5, <1>6, <1>7, <1>8 DEF SearchInv

\* Steps that report nothing leave the hits as they were.
LEMMA SameHits ==
    ASSUME SearchInv, UNCHANGED <<parse, language, rules, dedup, out>>
    PROVE  /\ HitsApart' /\ HitsShown'
           /\ \A k : (HitsOf(k))' = HitsOf(k)
           /\ \A k, m : (Reported(k, m))' <=> Reported(k, m)
<1> \A i : (MatchOf(i))' = MatchOf(i)
  BY DEF MatchOf
<1>1. \A k : (HitsOf(k))' = HitsOf(k)
  BY DEF HitsOf
<1>2. \A k, m : (Reported(k, m))' <=> Reported(k, m)
  BY DEF Reported
<1>3. HitsApart'
  BY <1>2 DEF SearchInv, HitsApart
<1>4. HitsShown'
  BY SameInput DEF SearchInv, HitsShown
<1>5. QED
  BY <1>1, <1>2, <1>3, <1>4

\* Steps of the loop of one rule that report nothing need to show only that what
\* was passed is reported.
LEMMA SameRule ==
    ASSUME SearchInv, UNCHANGED <<parse, language, rules, dedup, out, rule, rule_hits>>,
           Traversed', Examined'
    PROVE  SearchInv'
<1>1. HitsCounted'
  BY SameHits DEF SearchInv, HitsCounted
<1>2. Finished'
  BY SameHits, SameInput DEF SearchInv, Finished
<1>3. QED
  BY <1>1, <1>2, SameHits DEF SearchInv

\* A node that was visited gives way to its children.
LEMMA VisitSearch == ASSUME Inv, SearchInv, Visit PROVE SearchInv'
<1>1. PICK len, s, rest : /\ len = Len(stack) /\ s = stack[len]
                          /\ rest = SubSeq(stack, 1, len - 1)
  OBVIOUS
<1>2. /\ stack \in Seq(DOMAIN tree) /\ candidates \in Seq(DOMAIN tree) /\ parse \in Parses
      /\ stack # << >> /\ UNCHANGED <<parse, language, rules, dedup, out, rule, rule_hits>>
      /\ UNCHANGED <<candidate, from>> /\ candidate = 1 /\ from = 1
  BY DEF Inv, Positions, SearchInv, Traversed, Visit
<1>3. len \in Nat /\ len >= 1 /\ DOMAIN stack = 1..len /\ s \in DOMAIN tree
  BY <1>1, <1>2
<1>4. tree' = tree /\ text' = text
  BY <1>2, SameInput
<1>5. stack' = rest \o tree[s].children /\ tree[s].children \in Seq(DOMAIN tree)
  BY <1>1, <1>2, <1>3, TreeOfTheText DEF Visit
<1>6. candidates' = IF Telling(s) THEN Append(candidates, s) ELSE candidates
  BY <1>1 DEF Visit, Telling
<1>7. candidates' \in Seq(DOMAIN tree)
  <2>1. candidates' = Append(candidates, s) \/ candidates' = candidates
    BY <1>6
  <2>2. Append(candidates, s) \in Seq(DOMAIN tree)
    BY <1>2, <1>3
  <2>3. QED
    BY <1>2, <2>1, <2>2
<1>8. ASSUME NEW n PROVE (IsCandidate(n))' <=> (IsCandidate(n) \/ (n = s /\ Telling(s)))
  <2>1. CASE Telling(s)
    <3>1. candidates' = Append(candidates, s)
      BY <1>6, <2>1
    <3>2. PICK m : m = Len(candidates)
      OBVIOUS
    <3>3. /\ m \in Nat /\ DOMAIN candidates = 1..m /\ DOMAIN candidates' = 1..(m + 1)
          /\ candidates'[m + 1] = s /\ \A c \in 1..m : candidates'[c] = candidates[c]
      BY <1>2, <1>3, <3>1, <3>2
    <3>4. QED
      BY <2>1, <3>3 DEF IsCandidate
  <2>2. CASE ~Telling(s)
    BY <1>6, <2>2 DEF IsCandidate
  <2>3. QED
    BY <2>1, <2>2
<1>9. \A n \in DOMAIN tree' : (IsCandidate(n))' => (Telling(n))'
  <2>1. \A n : (Telling(n))' <=> Telling(n)
    BY <1>2, SameInput
  <2>2. QED
    BY <1>4, <1>8, <2>1 DEF SearchInv, Traversed
<1>10. ASSUME NEW S \in SUBSET DOMAIN tree, Closed(S), \A k \in DOMAIN stack' : stack'[k] \in S,
              NEW n \in DOMAIN tree, Telling(n)
       PROVE  n \in S \/ (IsCandidate(n))'
  <2>1. PICK U : U = S \cup {s}
    OBVIOUS
  <2>2. /\ rest \in Seq(DOMAIN tree) /\ Len(rest) = len - 1
        /\ \A k \in 1..(len - 1) : rest[k] = stack[k]
    <3>1. \A i \in 1..(len - 1) : stack[i] \in DOMAIN tree
      BY <1>2, <1>3
    <3>2. 1 \in Int /\ len - 1 \in Int
      BY <1>3
    <3>3. rest \in Seq(DOMAIN tree)
          /\ Len(rest) = (IF 1 <= len - 1 THEN (len - 1) - 1 + 1 ELSE 0)
          /\ \A i \in 1..((len - 1) - 1 + 1) : rest[i] = stack[1 + i - 1]
      BY <1>1, <3>1, <3>2, SubSeqProperties
    <3>4. \A k \in 1..(len - 1) : rest[k] = stack[k]
      BY <1>3, <3>3
    <3>5. QED
      BY <1>3, <3>3, <3>4
  <2>3. PICK ch : ch = tree[s].children
    OBVIOUS
  <2>4. /\ DOMAIN stack' = 1..(len - 1 + Len(ch)) /\ Len(ch) \in Nat /\ DOMAIN ch = 1..Len(ch)
        /\ \A k \in 1..(len - 1) : stack'[k] = rest[k]
        /\ \A c \in 1..Len(ch) : stack'[len - 1 + c] = ch[c]
    <3>1. ch \in Seq(DOMAIN tree) /\ stack' = rest \o ch
      BY <1>5, <2>3
    <3>2. Len(ch) \in Nat /\ DOMAIN ch = 1..Len(ch)
      BY <3>1
    <3>3. /\ stack' \in Seq(DOMAIN tree) /\ Len(stack') = Len(rest) + Len(ch)
          /\ \A i \in 1..(Len(rest) + Len(ch)) :
               stack'[i] = IF i <= Len(rest) THEN rest[i] ELSE ch[i - Len(rest)]
      BY <2>2, <3>1, ConcatProperties
    <3>4. DOMAIN stack' = 1..(len - 1 + Len(ch))
      BY <2>2, <3>3
    <3>5. \A k \in 1..(len - 1) : stack'[k] = rest[k]
      BY <1>3, <2>2, <3>2, <3>3
    <3>6. \A c \in 1..Len(ch) : stack'[len - 1 + c] = ch[c]
      <4>1. TAKE c \in 1..Len(ch)
      <4>2. PICK i : i = len - 1 + c
        OBVIOUS
      <4>3. i \in 1..(Len(rest) + Len(ch)) /\ ~(i <= Len(rest)) /\ i - Len(rest) = c
        BY <1>3, <2>2, <3>2, <4>2
      <4>4. QED
        BY <3>3, <4>2, <4>3
    <3>7. QED
      BY <3>2, <3>4, <3>5, <3>6
  <2>5. \A c \in DOMAIN ch : ch[c] \in S
    <3>1. TAKE c \in DOMAIN ch
    <3>2. len - 1 + c \in DOMAIN stack' /\ stack'[len - 1 + c] = ch[c]
      BY <1>3, <2>4
    <3>3. QED
      BY <1>10, <3>2
  <2>6. Closed(U)
    BY <1>10, <2>1, <2>3, <2>5 DEF Closed
  <2>7. \A k \in DOMAIN stack : stack[k] \in U
    <3>1. TAKE k \in DOMAIN stack
    <3>2. CASE k = len
      BY <1>1, <2>1, <3>2
    <3>3. CASE k # len
      <4>1. k \in 1..(len - 1) /\ k \in DOMAIN stack'
        BY <1>3, <2>4, <3>3
      <4>2. stack'[k] = stack[k]
        BY <2>2, <2>4, <4>1
      <4>3. QED
        BY <1>10, <2>1, <4>1, <4>2
    <3>4. QED
      BY <3>2, <3>3
  <2>8. U \in SUBSET DOMAIN tree
    BY <1>3, <2>1
  <2>9. n \in U \/ IsCandidate(n)
    BY <1>10, <2>6, <2>7, <2>8 DEF SearchInv, Traversed
  <2>10. QED
    BY <1>8, <1>10, <2>1, <2>9
<1>11. Traversed'
  <2>1. \A n : (Telling(n))' <=> Telling(n)
    BY <1>2, SameInput
  <2>2. \A S : (Closed(S))' <=> Closed(S)
    BY <1>2, SameInput
  <2>3. QED
    BY <1>2, <1>4, <1>9, <1>10, <2>1, <2>2 DEF Traversed
<1>12. Examined'
  <2>1. ASSUME NEW c \in DOMAIN candidates', NEW at \in Found(CandidateText(candidates'[c]), rules[rule].pattern)
        PROVE  ~(Passed(c, at))'
    <3>1. c \in Nat \ {0}
      BY <1>7
    <3>2. at \in Nat \ {0}
      <4>1. candidates'[c] \in DOMAIN tree
        BY <1>7
      <4>2. CandidateText(candidates'[c]) \in Seq(Lexeme)
        BY <1>2, <4>1, PartOfTheSource
      <4>3. QED
        BY <4>2, FoundTypes
    <3>3. QED
      BY <1>2, <3>1, <3>2 DEF Passed
  <2>2. \A n : (CandidateText(n))' = CandidateText(n)
    BY <1>2, SameInput
  <2>3. QED
    BY <1>2, <2>1, <2>2 DEF Examined
<1>13. QED
  BY <1>2, <1>11, <1>12, SameRule

\* Where a hit is found, and how far the loop is after it.
LEMMA HitPassed ==
    ASSUME Inv, NEW node \in DOMAIN tree, NEW at \in DOMAIN CandidateText(node), Hit(node, at),
           NEW c \in DOMAIN candidates, NEW q \in Found(CandidateText(candidates[c]),
                                                        rules[rule].pattern),
           (Passed(c, q))'
    PROVE  Passed(c, q) \/ (candidates[c] = node /\ q = at)
<1>1. /\ node = candidates[candidate] /\ from' = at + 1 /\ candidate' = candidate
      /\ \A r \in Found(CandidateText(node), rules[rule].pattern) : r >= from => at <= r
  BY DEF Hit
<1>2. candidates[c] \in DOMAIN tree /\ parse \in Parses /\ from \in Nat /\ at \in Nat
  <2>1. candidates \in Seq(DOMAIN tree) /\ parse \in Parses /\ from \in Nat
    BY DEF Inv, Positions
  <2>2. CandidateText(node) \in Seq(Lexeme)
    BY <2>1, PartOfTheSource
  <2>3. QED
    BY <2>1, <2>2
<1>3. q \in Nat
  <2>1. CandidateText(candidates[c]) \in Seq(Lexeme)
    BY <1>2, PartOfTheSource
  <2>2. QED
    BY <2>1, FoundTypes
<1>4. CASE c < candidate
  BY <1>4 DEF Passed
<1>5. CASE c = candidate /\ q < from'
  <2>1. candidates[c] = node
    BY <1>1, <1>5
  <2>2. q < from \/ q = at
    BY <1>1, <1>2, <1>3, <1>5, <2>1
  <2>3. QED
    BY <1>5, <2>1, <2>2 DEF Passed
<1>6. QED
  BY <1>1, <1>4, <1>5 DEF Passed

\* A hit that is not reported is no hit, or its match is reported for its line.
LEMMA SkipSearch ==
    ASSUME Inv, SearchInv, NEW node \in DOMAIN tree, NEW at \in DOMAIN CandidateText(node),
           SkipHit(node, at)
    PROVE  SearchInv'
<1>1. /\ Hit(node, at) /\ (Rejected(node, at) \/ Key(node, at) \in dedup)
      /\ UNCHANGED <<parse, language, rules, dedup, out, rule, rule_hits, stack, candidates>>
      /\ candidate' = candidate /\ stack = << >>
  BY DEF SkipHit, Hit, Searching
<1>2. rule \in DOMAIN rules
  BY <1>1, HitPositions DEF Inv, Positions
<1>3. Traversed'
  BY <1>1, SameInput DEF SearchInv, Traversed, IsCandidate
<1>4. ASSUME NEW c \in DOMAIN candidates,
             NEW q \in Found(CandidateText(candidates[c]), rules[rule].pattern),
             (Passed(c, q))', ~Rejected(candidates[c], q)
      PROVE  Reported(rule, MatchIn(candidates[c], q))
  <2>1. CASE Passed(c, q)
    BY <1>2, <1>4, <2>1 DEF SearchInv, Examined
  <2>2. CASE candidates[c] = node /\ q = at
    <3>1. PICK line, match : /\ line = HitLine(node, at)
                             /\ match = normalize_match_for_dedup(CandidateText(node)[at])
      OBVIOUS
    <3>2. <<rule, line, match>> \in dedup
      BY <1>1, <1>4, <2>2, <3>1 DEF Key
    <3>3. Reported(rule, <<line, match>>)
      BY <1>2, <3>2 DEF SearchInv, HitsApart
    <3>4. QED
      BY <2>2, <3>1, <3>3 DEF MatchIn
  <2>3. QED
    BY <1>1, <1>4, <2>1, <2>2, HitPassed
<1>5. Examined'
  <2>1. \A k, m : (Reported(k, m))' <=> Reported(k, m)
    BY <1>1, SameHits
  <2>2. QED
    BY <1>1, <1>4, <2>1, SameInput DEF Examined
<1>6. QED
  BY <1>1, <1>3, <1>5, SameRule

\* A hit that is reported is a match shown, the first such of its line, and one more.
LEMMA ReportSearch ==
    ASSUME Inv, SearchInv, NEW node \in DOMAIN tree, NEW at \in DOMAIN CandidateText(node),
           ReportHit(node, at)
    PROVE  SearchInv'
<1>1. PICK d, l, x : /\ d = [rule |-> rule, line |-> HitLine(node, at),
                             column |-> HitColumn(node, at),
                             match |-> CandidateText(node)[at]]
                     /\ l = HitLine(node, at)
                     /\ x = normalize_match_for_dedup(CandidateText(node)[at])
  OBVIOUS
<1>2. /\ Hit(node, at) /\ ~Rejected(node, at) /\ Key(node, at) \notin dedup
      /\ UNCHANGED <<parse, language, rules, rule, stack, candidates>>
      /\ candidate' = candidate /\ stack = << >> /\ rule_hits' = rule_hits + 1
      /\ dedup' = dedup \cup {<<rule, l, x>>} /\ out' = Append(out, d)
      /\ ~(rule_hits >= Limit) /\ scope_matches(rules[rule].scope)
      /\ candidate \in DOMAIN candidates /\ node = candidates[candidate]
  BY <1>1 DEF ReportHit, Hit, Searching, Key, Full, Inv, Positions
<1>3. /\ rule \in DOMAIN rules /\ rule \in Nat /\ rule_hits \in Nat /\ Limit \in Nat
      /\ at \in Found(CandidateText(node), rules[rule].pattern)
      /\ parse \in Parses /\ rules \in Seq(Rule)
  <2>1. rule_hits + 1 \in 0..Limit /\ rule \in Nat /\ rule_hits \in Nat /\ Limit \in Nat
        /\ parse \in Parses /\ rules \in Seq(Rule)
    BY <1>2, TreeSitterAssumption DEF Inv, Positions
  <2>2. QED
    BY <1>2, <2>1, HitPositions
<1>4. PICK n : n = Len(out)
  OBVIOUS
<1>5. /\ n \in Nat /\ DOMAIN out = 1..n /\ DOMAIN out' = 1..(n + 1)
      /\ out'[n + 1] = d /\ \A k \in 1..n : out'[k] = out[k]
  BY <1>2, <1>4 DEF Inv, Located
<1>6. /\ d.rule = rule /\ (MatchOf(n + 1))' = <<l, x>>
      /\ \A k \in 1..n : (MatchOf(k))' = MatchOf(k)
  <2>1. (MatchOf(n + 1))' = <<l, x>>
    BY <1>1, <1>5 DEF MatchOf
  <2>2. \A k \in 1..n : (MatchOf(k))' = MatchOf(k)
    BY <1>5 DEF MatchOf
  <2>3. QED
    BY <1>1, <2>1, <2>2
<1>7. ~Reported(rule, <<l, x>>)
  <2>1. <<rule, l, x>> \notin dedup
    BY <1>1, <1>2 DEF Key
  <2>2. QED
    BY <1>3, <2>1 DEF SearchInv, HitsApart
<1>8. ASSUME NEW k, NEW m
      PROVE  (Reported(k, m))' <=> (Reported(k, m) \/ (k = rule /\ m = <<l, x>>))
  BY <1>5, <1>6 DEF Reported
<1>9. Traversed'
  BY <1>2, SameInput DEF SearchInv, Traversed, IsCandidate
<1>10. HitsApart'
  <2>1. ASSUME NEW i \in DOMAIN out', NEW j \in DOMAIN out',
               out'[i].rule = out'[j].rule, (MatchOf(i))' = (MatchOf(j))'
        PROVE  i = j
    <3>1. CASE i \in 1..n /\ j \in 1..n
      BY <1>5, <1>6, <2>1, <3>1 DEF SearchInv, HitsApart
    <3>2. CASE i = n + 1 /\ j \in 1..n
      BY <1>5, <1>6, <1>7, <2>1, <3>2 DEF Reported
    <3>3. CASE i \in 1..n /\ j = n + 1
      BY <1>5, <1>6, <1>7, <2>1, <3>3 DEF Reported
    <3>4. QED
      BY <1>5, <3>1, <3>2, <3>3
  <2>2. ASSUME NEW k \in DOMAIN rules, NEW line, NEW match
        PROVE  <<k, line, match>> \in dedup' <=> (Reported(k, <<line, match>>))'
    <3>1. <<k, line, match>> \in dedup <=> Reported(k, <<line, match>>)
      BY DEF SearchInv, HitsApart
    <3>2. <<k, line, match>> = <<rule, l, x>> <=> (k = rule /\ <<line, match>> = <<l, x>>)
      OBVIOUS
    <3>3. QED
      BY <1>2, <1>8, <3>1, <3>2
  <2>3. QED
    BY <1>2, <2>1, <2>2 DEF HitsApart
<1>11. ASSUME NEW k
       PROVE  (HitsOf(k))' = IF k = rule THEN HitsOf(k) \cup {n + 1} ELSE HitsOf(k)
  BY <1>5, <1>6 DEF HitsOf
<1>12. \A k : IsFiniteSet(HitsOf(k)) /\ n + 1 \notin HitsOf(k)
  <2>1. IsFiniteSet(DOMAIN out)
    BY <1>5, FS_Interval
  <2>2. \A k : HitsOf(k) \subseteq DOMAIN out
    BY DEF HitsOf
  <2>3. n + 1 \notin DOMAIN out
    BY <1>5
  <2>4. QED
    BY <2>1, <2>2, <2>3, FS_Subset
<1>13. Cardinality((HitsOf(rule))') = rule_hits + 1
  <2>1. Cardinality(HitsOf(rule) \cup {n + 1}) = Cardinality(HitsOf(rule)) + 1
    BY <1>12, FS_AddElement
  <2>2. (HitsOf(rule))' = HitsOf(rule) \cup {n + 1}
    <3>1. PICK r : r = rule
      OBVIOUS
    <3>2. (HitsOf(r))' = HitsOf(r) \cup {n + 1}
      BY <1>11, <3>1
    <3>3. QED
      BY <1>2, <3>1, <3>2 DEF HitsOf
  <2>3. Cardinality(HitsOf(rule)) = rule_hits
    BY DEF SearchInv, HitsCounted
  <2>4. QED
    BY <2>1, <2>2, <2>3
<1>14. HitsCounted'
  <2>1. ASSUME NEW k \in DOMAIN rules PROVE Cardinality((HitsOf(k))') <= Limit
    <3>1. CASE k = rule
      BY <1>2, <1>3, <1>13, <3>1
    <3>2. CASE k # rule
      BY <1>11, <3>2 DEF SearchInv, HitsCounted
    <3>3. QED
      BY <3>1, <3>2
  <2>2. ASSUME NEW i \in DOMAIN out' PROVE out'[i].rule <= rule
    <3>1. CASE i = n + 1
      BY <1>3, <1>5, <1>6, <3>1
    <3>2. CASE i \in 1..n
      BY <1>5, <3>2 DEF SearchInv, HitsCounted
    <3>3. QED
      BY <1>5, <3>1, <3>2
  <2>3. \A k : (HitsOf(k))' = {i \in DOMAIN out' : out'[i].rule = k}
    BY DEF HitsOf
  <2>4. rule_hits' = Cardinality({i \in DOMAIN out' : out'[i].rule = rule'})
    BY <1>2, <1>13, <2>3
  <2>5. QED
    BY <1>2, <2>1, <2>2, <2>3, <2>4 DEF HitsCounted, HitsOf
<1>15. HitsShown'
  <2>1. <<l, x>> \in ShownMatches(rule)
    <3>1. PICK p : p = tree[node].first + at - 1
      OBVIOUS
    <3>2. /\ p \in Found(text, rules[rule].pattern)
          /\ <<l, x>> = <<line_for_offset(text, p), normalize_match_for_dedup(text[p])>>
      BY <1>1, <1>3, <3>1, HitInTheSource
    <3>3. rules[rule].pattern \in Pattern
      <4>1. rules[rule] \in Rule
        BY <1>3
      <4>2. QED
        BY <4>1 DEF Rule
    <3>4. tree[node].semantic
      BY <1>2 DEF SearchInv, Traversed, IsCandidate, Telling
    <3>5. Shows(node, p)
      BY <1>2, <1>3, <3>1, <3>3, <3>4, ShownWhereFound
    <3>6. QED
      BY <3>2, <3>5 DEF ShownMatches
  <2>2. ASSUME NEW i \in DOMAIN out'
        PROVE  scope_matches(rules[out'[i].rule].scope)
               /\ (MatchOf(i))' \in ShownMatches(out'[i].rule)
    <3>1. CASE i = n + 1
      BY <1>2, <1>5, <1>6, <2>1, <3>1
    <3>2. CASE i \in 1..n
      BY <1>5, <1>6, <3>2 DEF SearchInv, HitsShown
    <3>3. QED
      BY <1>5, <3>1, <3>2
  <2>3. QED
    BY <1>2, <2>2, SameInput DEF HitsShown
<1>16. Examined'
  <2>1. ASSUME NEW c \in DOMAIN candidates,
               NEW q \in Found(CandidateText(candidates[c]), rules[rule].pattern),
               (Passed(c, q))', ~Rejected(candidates[c], q)
        PROVE  (Reported(rule, MatchIn(candidates[c], q)))'
    <3>1. PICK m : m = MatchIn(candidates[c], q)
      OBVIOUS
    <3>2. (MatchIn(candidates[c], q))' = m /\ rule' = rule
      BY <1>2, <3>1, SameInput
    <3>3. Reported(rule, m) \/ m = <<l, x>>
      <4>1. CASE Passed(c, q)
        BY <1>3, <2>1, <3>1, <4>1 DEF SearchInv, Examined
      <4>2. CASE candidates[c] = node /\ q = at
        BY <1>1, <3>1, <4>2 DEF MatchIn
      <4>3. QED
        BY <1>2, <2>1, <4>1, <4>2, HitPassed
    <3>4. (Reported(rule, m))'
      <4>1. PICK k : k = rule
        OBVIOUS
      <4>2. (Reported(k, m))'
        BY <1>8, <3>3, <4>1
      <4>3. QED
        BY <3>2, <4>1, <4>2
    <3>5. QED
      BY <3>2, <3>4
  <2>2. QED
    BY <1>2, <2>1, SameInput DEF Examined
<1>17. Finished'
  <2>1. ASSUME NEW k \in DOMAIN rules, k < rule, scope_matches(rules[k].scope)
        PROVE  \/ Cardinality((HitsOf(k))') >= Limit
               \/ \A m \in ShownMatches(k) : (Reported(k, m))'
    <3>1. k # rule
      BY <1>3, <2>1
    <3>2. (HitsOf(k))' = HitsOf(k)
      BY <1>11, <3>1
    <3>3. \A m : Reported(k, m) => (Reported(k, m))'
      BY <1>8
    <3>4. QED
      BY <2>1, <3>2, <3>3 DEF SearchInv, Finished
  <2>2. QED
    BY <1>2, <2>1, SameInput DEF Finished
<1>18. QED
  BY <1>9, <1>10, <1>14, <1>15, <1>16, <1>17 DEF SearchInv

\* Past a candidate, nothing of it is left to examine.
LEMMA CandidateSearch == ASSUME Inv, SearchInv, NextCandidate PROVE SearchInv'
<1>1. /\ UNCHANGED <<parse, language, rules, dedup, out, rule, rule_hits, stack, candidates>>
      /\ candidate' = candidate + 1 /\ from' = 1 /\ stack = << >>
      /\ \A p \in Found(CandidateText(candidates[candidate]), rules[rule].pattern) : p < from
      /\ candidates \in Seq(DOMAIN tree) /\ candidate \in Nat /\ parse \in Parses
  BY DEF NextCandidate, Searching, Inv, Positions
<1>2. Traversed'
  BY <1>1, SameInput DEF SearchInv, Traversed, IsCandidate
<1>3. ASSUME NEW c \in DOMAIN candidates,
             NEW q \in Found(CandidateText(candidates[c]), rules[rule].pattern),
             (Passed(c, q))'
      PROVE  Passed(c, q)
  <2>1. candidates[c] \in DOMAIN tree /\ c \in Nat
    BY <1>1
  <2>2. q \in Nat \ {0}
    <3>1. CandidateText(candidates[c]) \in Seq(Lexeme)
      BY <1>1, <2>1, PartOfTheSource
    <3>2. QED
      BY <3>1, FoundTypes
  <2>3. c < candidate + 1
    BY <1>1, <1>3, <2>2 DEF Passed
  <2>4. c < candidate \/ c = candidate
    BY <1>1, <2>1, <2>3
  <2>5. QED
    BY <1>1, <2>4 DEF Passed
<1>4. Examined'
  <2>1. \A k, m : (Reported(k, m))' <=> Reported(k, m)
    BY <1>1, SameHits
  <2>2. QED
    BY <1>1, <1>3, <2>1, SameInput DEF SearchInv, Examined
<1>5. QED
  BY <1>1, <1>2, <1>4, SameRule

\* After the last candidate every match shown is reported.
LEMMA AllExamined ==
    ASSUME Inv, SearchInv, stack = << >>, rule \in DOMAIN rules,
           candidate > Len(candidates), NEW m \in ShownMatches(rule)
    PROVE  Reported(rule, m)
<1>1. /\ candidates \in Seq(DOMAIN tree) /\ candidate \in Nat /\ parse \in Parses
      /\ rules \in Seq(Rule)
  BY DEF Inv, Positions
<1>2. PICK w : w = rules[rule].pattern
  OBVIOUS
<1>3. w \in Pattern
  <2>1. rules[rule] \in Rule
    BY <1>1
  <2>2. QED
    BY <1>2, <2>1 DEF Rule
<1>4. PICK p \in Found(text, w) :
        /\ m = <<line_for_offset(text, p), normalize_match_for_dedup(text[p])>>
        /\ \E node \in DOMAIN tree : Shows(node, p)
  BY <1>2 DEF ShownMatches
<1>5. PICK node \in DOMAIN tree : Shows(node, p)
  BY <1>4
<1>6. PICK at : at = p - tree[node].first + 1
  OBVIOUS
<1>7. Telling(node) /\ at \in Found(CandidateText(node), w) /\ p = tree[node].first + at - 1
  BY <1>1, <1>3, <1>5, <1>6, ShownIsTelling
<1>8. IsCandidate(node)
  <2>1. Closed({}) /\ {} \in SUBSET DOMAIN tree /\ \A k \in DOMAIN stack : stack[k] \in {}
    BY DEF Closed
  <2>2. QED
    BY <1>7, <2>1 DEF SearchInv, Traversed
<1>9. PICK c \in DOMAIN candidates : candidates[c] = node
  BY <1>8 DEF IsCandidate
<1>10. Passed(c, at)
  BY <1>1 DEF Passed
<1>11. ~Rejected(node, at)
  <2>1. tree[node].semantic
    BY <1>7 DEF Telling
  <2>2. QED
    BY <1>1, <1>3, <1>5, <1>7, <2>1, ShownWhereFound
<1>12. Reported(rule, MatchIn(node, at))
  BY <1>2, <1>7, <1>9, <1>10, <1>11 DEF SearchInv, Examined
<1>13. MatchIn(node, at) = m
  <2>1. at \in Found(CandidateText(node), w) /\ p = tree[node].first + at - 1
    BY <1>7
  <2>2. text[p] = CandidateText(node)[at] /\ HitLine(node, at) = line_for_offset(text, p)
    BY <1>1, <2>1, HitInTheSource
  <2>3. QED
    BY <1>4, <2>2 DEF MatchIn
<1>14. QED
  BY <1>12, <1>13

\* A rule is left when it is not in scope, has all its hits, or found all there is.
LEMMA RuleSearch == ASSUME Inv, SearchInv, NextRule PROVE SearchInv'
<1>1. /\ UNCHANGED <<parse, language, rules, dedup, out, stack, candidates>>
      /\ rule' = rule + 1 /\ candidate' = 1 /\ from' = 1 /\ rule_hits' = 0 /\ stack = << >>
      /\ rules \in Seq(Rule) /\ rule \in DOMAIN rules /\ rule \in Nat
      /\ candidates \in Seq(DOMAIN tree) /\ parse \in Parses
  BY DEF NextRule, Searching, Inv, Positions
<1>2. Traversed'
  BY <1>1, SameInput DEF SearchInv, Traversed, IsCandidate
<1>3. /\ HitsApart' /\ HitsShown' /\ \A k : (HitsOf(k))' = HitsOf(k)
      /\ \A k, m : (Reported(k, m))' <=> Reported(k, m)
  BY <1>1, SameHits
<1>4. HitsCounted'
  <2>1. \A i \in DOMAIN out : out[i].rule <= rule /\ out[i].rule \in Nat
    <3>1. TAKE i \in DOMAIN out
    <3>2. out[i] \in Report
      BY DEF Inv, Located
    <3>3. QED
      BY <3>2 DEF SearchInv, HitsCounted, Report
  <2>2. HitsOf(rule + 1) = {}
    BY <1>1, <2>1 DEF HitsOf
  <2>3. Cardinality(HitsOf(rule + 1)) = 0
    BY <2>2, FS_EmptySet
  <2>4. \A i \in DOMAIN out : out[i].rule <= rule + 1
    BY <1>1, <2>1
  <2>5. {i \in DOMAIN out' : out'[i].rule = rule'} = HitsOf(rule + 1)
    BY <1>1 DEF HitsOf
  <2>6. rule_hits' = Cardinality({i \in DOMAIN out' : out'[i].rule = rule'})
    BY <1>1, <2>3, <2>5
  <2>7. \A k \in DOMAIN rules : Cardinality((HitsOf(k))') <= Limit
    BY <1>3 DEF SearchInv, HitsCounted
  <2>8. QED
    BY <1>1, <2>4, <2>6, <2>7 DEF HitsCounted, HitsOf
<1>5. Examined'
  <2>1. ASSUME NEW c \in DOMAIN candidates, NEW w, NEW at \in Found(CandidateText(candidates[c]), w)
        PROVE  ~(Passed(c, at))'
    <3>1. c \in Nat \ {0} /\ candidates[c] \in DOMAIN tree
      BY <1>1
    <3>2. CandidateText(candidates[c]) \in Seq(Lexeme)
      BY <1>1, <3>1, PartOfTheSource
    <3>3. at \in Nat \ {0}
      BY <3>2, FoundTypes
    <3>4. QED
      BY <1>1, <3>1, <3>3 DEF Passed
  <2>2. \A n : (CandidateText(n))' = CandidateText(n)
    BY <1>1, SameInput
  <2>3. QED
    BY <1>1, <2>1, <2>2 DEF Examined
<1>6. Finished'
  <2>1. ASSUME NEW k \in DOMAIN rules, k < rule + 1, scope_matches(rules[k].scope)
        PROVE  \/ Cardinality(HitsOf(k)) >= Limit
               \/ \A m \in ShownMatches(k) : Reported(k, m)
    <3>1. CASE k < rule
      BY <2>1, <3>1 DEF SearchInv, Finished
    <3>2. CASE k = rule
      <4>1. Full \/ candidate > Len(candidates)
        BY <2>1, <3>2 DEF NextRule
      <4>2. CASE Full
        BY <3>2, <4>2 DEF Full, SearchInv, HitsCounted
      <4>3. CASE candidate > Len(candidates)
        BY <1>1, <3>2, <4>3, AllExamined
      <4>4. QED
        BY <4>1, <4>2, <4>3
    <3>3. QED
      BY <1>1, <2>1, <3>1, <3>2
  <2>2. QED
    BY <1>1, <1>3, <2>1, SameInput DEF Finished
<1>7. QED
  BY <1>2, <1>3, <1>4, <1>5, <1>6 DEF SearchInv

\* The invariant of the search: the nodes to search are all found before the
\* rules are gone through, and where a rule has been, what is shown is reported.
THEOREM SearchInvariance == Spec => []SearchInv
<1>1. Inv /\ SearchInv /\ [Next]_vars => SearchInv'
  <2> SUFFICES ASSUME Inv, SearchInv, [Next]_vars PROVE SearchInv'
    OBVIOUS
  <2>1. CASE UNCHANGED vars
    <3>1. /\ UNCHANGED <<parse, language, rules, dedup, out, rule, rule_hits, stack>>
          /\ UNCHANGED <<candidates, candidate, from>>
      BY <2>1 DEF vars
    <3>2. Traversed'
      BY <3>1, SameInput DEF SearchInv, Traversed, IsCandidate
    <3>3. Examined'
      <4>1. \A k, m : (Reported(k, m))' <=> Reported(k, m)
        BY <3>1, SameHits
      <4>2. QED
        BY <3>1, <4>1, SameInput DEF SearchInv, Examined, Passed
    <3>4. QED
      BY <3>1, <3>2, <3>3, SameRule
  <2>2. QED
    BY <2>1, VisitSearch, SkipSearch, ReportSearch, CandidateSearch, RuleSearch
       DEF Next, Terminated
<1>2. QED
  BY DetectorInvariance, InitSearch, <1>1, PTL DEF Spec

\* Whatever the nesting of the nodes and the other rules, a rule in scope reports
\* every match some node shows, once for each line, up to the limit.
THEOREM MatchesTheorem == Spec => []MatchesExact
<1>1. Inv /\ SearchInv => MatchesExact
  <2> SUFFICES ASSUME Inv, SearchInv, Done, NEW k \in DOMAIN rules
               PROVE  LET hits == HitsOf(k)
                          matches == IF scope_matches(rules[k].scope) THEN ShownMatches(k) ELSE {}
                      IN  /\ {MatchOf(i) : i \in hits} \subseteq matches
                          /\ \A i, j \in hits : MatchOf(i) = MatchOf(j) => i = j
                          /\ Cardinality(hits)
                               = IF Cardinality(matches) < Limit THEN Cardinality(matches) ELSE Limit
    BY DEF MatchesExact
  <2>1. PICK hits, matches :
           /\ hits = HitsOf(k)
           /\ matches = IF scope_matches(rules[k].scope) THEN ShownMatches(k) ELSE {}
    OBVIOUS
  <2>2. /\ parse \in Parses /\ rules \in Seq(Rule) /\ k < rule /\ Limit \in Nat \ {0}
        /\ out \in Seq(Report)
    BY TreeSitterAssumption DEF Inv, Positions, Located, Done
  <2>3. \A i \in hits : i \in DOMAIN out /\ out[i].rule = k
    BY <2>1 DEF HitsOf
  <2>4. IsFiniteSet(hits) /\ Cardinality(hits) \in Nat
    <3>1. DOMAIN out = 1..Len(out) /\ Len(out) \in Nat
      BY <2>2
    <3>2. IsFiniteSet(DOMAIN out)
      BY <3>1, FS_Interval
    <3>3. hits \in SUBSET DOMAIN out
      BY <2>3
    <3>4. QED
      BY <3>2, <3>3, FS_Subset, FS_CardinalityType
  <2>5. IsFiniteSet(matches) /\ Cardinality(matches) \in Nat
    BY <2>1, <2>2, ShownMatchesFinite, FS_EmptySet, FS_CardinalityType
  <2>6. PICK at : at = {MatchOf(i) : i \in hits}
    OBVIOUS
  <2>7. at \subseteq matches
    BY <2>1, <2>3, <2>6 DEF SearchInv, HitsShown
  <2>8. \A i, j \in hits : MatchOf(i) = MatchOf(j) => i = j
    BY <2>3 DEF SearchInv, HitsApart
  <2>9. IsFiniteSet(at) /\ Cardinality(at) = Cardinality(hits)
    <3>1. PICK f : f = [i \in hits |-> MatchOf(i)]
      OBVIOUS
    <3>2. f \in [hits -> at]
      BY <2>6, <3>1
    <3>3. f \in Injection(hits, at)
      BY <2>8, <3>1, <3>2 DEF Injection, IsInjective
    <3>4. f \in Surjection(hits, at)
      BY <2>6, <3>1, <3>2 DEF Surjection
    <3>5. QED
      BY <2>4, <3>3, <3>4, FS_Bijection DEF ExistsBijection, Bijection
  <2>10. Cardinality(hits) <= Limit
    BY <2>1 DEF SearchInv, HitsCounted
  <2>11. Cardinality(hits) <= Cardinality(matches)
    BY <2>5, <2>7, <2>9, FS_Subset
  <2>12. Cardinality(hits) >= Limit \/ at = matches
    <3>1. CASE scope_matches(rules[k].scope)
      <4>1. \/ Cardinality(hits) >= Limit
            \/ \A m \in ShownMatches(k) : Reported(k, m)
        BY <2>1, <2>2, <3>1 DEF SearchInv, Finished
      <4>2. ASSUME \A m \in ShownMatches(k) : Reported(k, m) PROVE matches \subseteq at
        BY <2>1, <2>6, <3>1, <4>2 DEF Reported, HitsOf
      <4>3. QED
        BY <2>7, <4>1, <4>2
    <3>2. CASE ~scope_matches(rules[k].scope)
      BY <2>1, <2>7, <3>2
    <3>3. QED
      BY <3>1, <3>2
  <2>13. Cardinality(hits)
           = IF Cardinality(matches) < Limit THEN Cardinality(matches) ELSE Limit
    BY <2>2, <2>4, <2>5, <2>9, <2>10, <2>11, <2>12
  <2>14. QED
    BY <2>1, <2>6, <2>7, <2>8, <2>13
<1>2. QED
  BY DetectorInvariance, SearchInvariance, <1>1, PTL
=============================================================================
