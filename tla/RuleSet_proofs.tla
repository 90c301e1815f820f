--------------------------- MODULE RuleSet_proofs ---------------------------
(***************************************************************************)
(* Theorems about RuleSet, for any rules directory and order of its walk.   *)
(***************************************************************************)
EXTENDS RuleSet, Operators_proofs, SequenceTheorems

\* g says for each position of the rules rs which rule of which file of the
\* directory d stands there; it is one to one onto the rules of the YAML files in `met`.
Places(g, d, rs, met) ==
    /\ g \in [DOMAIN rs -> Entries \X Nat]
    /\ \A i, j \in DOMAIN rs : g[i] = g[j] => i = j
    /\ \A i \in DOMAIN rs :
         /\ g[i][1] \in met /\ d[g[i][1]].state = "yaml"
         /\ g[i][2] \in DOMAIN d[g[i][1]].rules
         /\ rs[i] = d[g[i][1]].rules[g[i][2]]
    /\ \A e \in met : d[e].state = "yaml" =>
         \A k \in DOMAIN d[e].rules : \E i \in DOMAIN rs : g[i] = <<e, k>>

\* The rules are those of the files met so far, each as often as a file has it.
Gathered == \E g : Places(g, dir, rules, Entries \ unlisted)

\* The files met so far were sound.
MetSound == \A e \in Entries \ unlisted : Skipped(dir[e]) \/ Sound(dir[e])

\* The index holds the rules before `next` at their positions and no others.
Indexed ==
    /\ \A id \in DOMAIN index : index[id] \in 1..(next - 1) /\ rules[index[id]].id = id
    /\ \A k \in 1..(next - 1) : rules[k].id \in DOMAIN index /\ index[rules[k].id] = k

Phases ==
    /\ phase = "walk" => index = << >> /\ next = 1
    /\ phase \in {"index", "loaded"} => unlisted = {}
    /\ phase = "loaded" => next = Len(rules) + 1
    /\ phase = "failed" => ~Loadable

\* Once sorted, the rules are by id.
ById ==
    phase \in {"index", "loaded"} =>
        \A i, j \in DOMAIN rules : i < j => rules[i].id <= rules[j].id

Inv == TypeOK /\ Gathered /\ MetSound /\ Indexed /\ Phases /\ ById

LEMMA InitInv == Init => Inv
<1> SUFFICES ASSUME Init PROVE Inv
  OBVIOUS
<1>1. TypeOK
  BY RuleDirsAssumption DEF Init, TypeOK
<1>2. Places(<< >>, dir, rules, Entries \ unlisted)
  BY DEF Init, Places
<1>3. Gathered
  BY <1>2 DEF Gathered
<1>4. QED
  BY <1>1, <1>3 DEF Init, Inv, MetSound, Indexed, Phases, ById

\* A step that touches neither the directory nor what was met and gathered.
LEMMA Untouched ==
    ASSUME Inv, UNCHANGED <<dir, unlisted, rules>>
    PROVE  Gathered' /\ MetSound' /\ Loadable' = Loadable
BY DEF Inv, Gathered, MetSound, Loadable

\* An entry that is no rule file adds nothing.
LEMMA SkipStep == ASSUME Inv, NEW e \in Entries, SkipEntry(e) PROVE Inv'
<1> USE DEF Inv
<1>1. TypeOK'
  BY DEF TypeOK, SkipEntry
<1>2. Gathered'
  <2>1. PICK g : Places(g, dir, rules, Entries \ unlisted)
    BY DEF Gathered
  <2>2. /\ rules' = rules /\ dir' = dir /\ dir[e].state # "yaml"
        /\ Entries \ unlisted' = (Entries \ unlisted) \cup {e}
    BY DEF SkipEntry, Skipped
  <2>3. Places(g, dir, rules, (Entries \ unlisted) \cup {e})
    BY <2>1, <2>2 DEF Places
  <2>4. QED
    BY <2>2, <2>3 DEF Gathered
<1>3. MetSound'
  BY DEF SkipEntry, MetSound, Skipped, Sound, compiles
<1>4. Indexed'
  BY DEF SkipEntry, Indexed
<1>5. Phases'
  BY DEF SkipEntry, Phases, Loadable, Sound, compiles
<1>6. ById'
  BY DEF SkipEntry, ById
<1>7. QED
  BY <1>1, <1>2, <1>3, <1>4, <1>5, <1>6

\* A sound file adds its rules behind those before.
LEMMA LoadStep == ASSUME Inv, NEW e \in Entries, LoadFile(e) PROVE Inv'
<1> USE DEF Inv
<1>1. PICK held : held = dir[e].rules
  OBVIOUS
<1>2. /\ rules \in Seq(RuleTexts) /\ held \in Seq(RuleTexts) /\ dir[e].state = "yaml"
      /\ rules' = rules \o held /\ dir' = dir /\ e \in unlisted
  BY <1>1 DEF TypeOK, LoadFile, Sound, RuleFile
<1>3. /\ rules \o held \in Seq(RuleTexts)
      /\ Len(rules \o held) = Len(rules) + Len(held)
      /\ \A i \in 1..(Len(rules) + Len(held)) :
           (rules \o held)[i] = IF i <= Len(rules) THEN rules[i] ELSE held[i - Len(rules)]
  BY <1>2, ConcatProperties
<1>4. index = << >> /\ next = 1
  BY DEF LoadFile, Phases
<1>5. TypeOK'
  BY <1>2, <1>3, <1>4 DEF TypeOK, LoadFile
<1>6. Gathered'
  <2>1. PICK g : Places(g, dir, rules, Entries \ unlisted)
    BY DEF Gathered
  <2>2. PICK rs, n : rs = rules \o held /\ n = Len(rules)
    OBVIOUS
  <2>3. /\ rs \in Seq(RuleTexts) /\ n \in Nat /\ Len(rs) = n + Len(held)
        /\ DOMAIN rules = 1..n /\ DOMAIN rs = 1..(n + Len(held)) /\ Len(held) \in Nat
        /\ DOMAIN held = 1..Len(held)
        /\ \A i \in 1..n : rs[i] = rules[i]
        /\ \A k \in 1..Len(held) : rs[n + k] = held[k]
    BY <1>2, <1>3, <2>2
  <2> DEFINE h == [i \in DOMAIN rs |-> IF i <= n THEN g[i] ELSE <<e, i - n>>]
  <2>4. \A i \in 1..n : h[i] = g[i] /\ g[i] \in Entries \X Nat /\ g[i][1] # e
    <3>1. g \in [1..n -> Entries \X Nat] /\ \A i \in 1..n : g[i][1] \notin unlisted
      BY <2>1, <2>3 DEF Places
    <3>2. \A i \in 1..n : i \in DOMAIN rs /\ i <= n
      BY <2>3
    <3>3. \A i \in 1..n : h[i] = g[i]
      BY <3>2
    <3>4. QED
      BY <3>1, <3>3, <1>2
  <2>5. \A i \in DOMAIN rs : i > n =>
          h[i] = <<e, i - n>> /\ i - n \in 1..Len(held) /\ i = n + (i - n)
    BY <2>3
  <2>6. h \in [DOMAIN rs -> Entries \X Nat]
    <3>1. ASSUME NEW i \in DOMAIN rs PROVE h[i] \in Entries \X Nat
      <4>1. CASE i <= n
        <5>1. i \in 1..n
          BY <2>3, <4>1
        <5>2. QED
          BY <5>1, <2>4
      <4>2. CASE i > n
        <5>1. h[i] = <<e, i - n>> /\ i - n \in Nat
          BY <2>3, <2>5, <4>2
        <5>2. QED
          BY <5>1
      <4>3. QED
        BY <4>1, <4>2, <2>3
    <3>2. DOMAIN h = DOMAIN rs /\ h = [i \in DOMAIN h |-> h[i]]
      OBVIOUS
    <3>3. QED
      BY <3>1, <3>2
  <2>7. ASSUME NEW i \in DOMAIN rs, NEW j \in DOMAIN rs, h[i] = h[j]
        PROVE  i = j
    <3>1. i \in Nat /\ j \in Nat /\ n \in Nat /\ (i <= n => i \in 1..n) /\ (j <= n => j \in 1..n)
      BY <2>3
    <3>2. (i > n => h[i] = <<e, i - n>>) /\ (j > n => h[j] = <<e, j - n>>)
      BY <2>5
    <3>3. CASE i <= n /\ j <= n
      <4>1. i \in DOMAIN rules /\ j \in DOMAIN rules /\ g[i] = g[j]
        BY <3>1, <3>3, <2>3, <2>4, <2>7
      <4>2. QED
        BY <4>1, <2>1 DEF Places
    <3>4. CASE i > n /\ j > n
      <4>1. i - n = j - n
        BY <3>2, <3>4, <2>7
      <4>2. QED
        BY <4>1, <3>1
    <3>5. ~(i <= n /\ j > n) /\ ~(i > n /\ j <= n)
      <4>1. (i <= n => h[i][1] # e) /\ (j <= n => h[j][1] # e)
        BY <3>1, <2>4
      <4>2. (i > n => h[i][1] = e) /\ (j > n => h[j][1] = e)
        BY <3>2
      <4>3. QED
        BY <4>1, <4>2, <2>7
    <3>6. QED
      BY <3>1, <3>3, <3>4, <3>5
  <2>8. ASSUME NEW i \in DOMAIN rs
        PROVE  /\ h[i][1] \in (Entries \ unlisted) \cup {e} /\ dir[h[i][1]].state = "yaml"
               /\ h[i][2] \in DOMAIN dir[h[i][1]].rules
               /\ rs[i] = dir[h[i][1]].rules[h[i][2]]
    <3>1. CASE i <= n
      BY <3>1, <2>1, <2>3, <2>4 DEF Places
    <3>2. CASE i > n
      <4>1. h[i][1] = e /\ h[i][2] = i - n /\ i - n \in 1..Len(held) /\ rs[i] = held[i - n]
        BY <3>2, <2>3, <2>5
      <4>2. QED
        BY <4>1, <1>1, <1>2, <2>3
    <3>3. QED
      BY <3>1, <3>2, <2>3
  <2>9. ASSUME NEW f \in (Entries \ unlisted) \cup {e}, dir[f].state = "yaml",
               NEW k \in DOMAIN dir[f].rules
        PROVE  \E i \in DOMAIN rs : h[i] = <<f, k>>
    <3>1. CASE f = e
      <4>1. n + k \in DOMAIN rs /\ n + k > n /\ (n + k) - n = k
        BY <3>1, <2>3, <1>1
      <4>2. QED
        BY <4>1, <3>1, <2>5
    <3>2. CASE f # e
      <4>1. PICK i \in DOMAIN rules : g[i] = <<f, k>>
        BY <3>2, <2>1, <2>9 DEF Places
      <4>2. QED
        BY <4>1, <2>3, <2>4
    <3>3. QED
      BY <3>1, <3>2
  <2>10. Places(h, dir, rs, (Entries \ unlisted) \cup {e})
    <3> HIDE DEF h
    <3>1. QED
      BY <2>6, <2>7, <2>8, <2>9 DEF Places
  <2>11. rules' = rs /\ Entries \ unlisted' = (Entries \ unlisted) \cup {e}
    BY <1>2, <2>2 DEF LoadFile
  <2>12. QED
    BY <1>2, <2>10, <2>11 DEF Gathered
<1>7. MetSound'
  BY DEF LoadFile, MetSound, Skipped, Sound, compiles
<1>8. Indexed'
  BY <1>4 DEF LoadFile, Indexed
<1>9. Phases'
  BY DEF LoadFile, Phases, Loadable, Sound, compiles
<1>10. ById'
  BY DEF LoadFile, ById
<1>11. QED
  BY <1>5, <1>6, <1>7, <1>8, <1>9, <1>10

\* What the load keeps when it fails on an entry.
LEMMA RejectStep == ASSUME Inv, NEW e \in Entries, RejectFile(e) PROVE Inv'
<1> USE DEF Inv
<1>1. ~Loadable
  BY DEF RejectFile, Skipped, Loadable
<1>2. QED
  BY <1>1, Untouched DEF RejectFile, TypeOK, Indexed, Phases, ById

\* Sorting moves the rules and neither adds nor drops one: a one-to-one map of
\* the positions to themselves meets them all.
LEMMA SortStep == ASSUME Inv, Sort PROVE Inv'
<1> USE DEF Inv
<1>1. PICK n : n = Len(rules)
  OBVIOUS
<1>2. n \in Nat /\ DOMAIN rules = 1..n /\ rules \in Seq(RuleTexts)
  BY <1>1 DEF TypeOK
<1>3. PICK p \in [1..n -> 1..n] :
        /\ \A i, j \in 1..n : p[i] = p[j] => i = j
        /\ rules' = [i \in 1..n |-> rules[p[i]]]
        /\ \A i, j \in 1..n : i < j =>
             \/ rules[p[i]].id < rules[p[j]].id
             \/ rules[p[i]].id = rules[p[j]].id /\ p[i] < p[j]
  BY <1>2 DEF Sort, Sorted
<1>4. \A j \in 1..n : \E i \in 1..n : p[i] = j
  <2>1. IsFiniteSet(1..n)
    BY <1>2, FS_Interval
  <2>2. p \in Injection(1..n, 1..n)
    BY <1>3 DEF Injection, IsInjective
  <2>3. p \in Surjection(1..n, 1..n)
    BY <2>1, <2>2, FS_Injection
  <2>4. QED
    BY <2>3 DEF Surjection
<1>5. rules' \in Seq(RuleTexts) /\ Len(rules') = n /\ DOMAIN rules' = 1..n
  BY <1>2, <1>3
<1>6. /\ dir' = dir /\ unlisted' = unlisted /\ next' = next /\ index' = index
      /\ phase = "walk" /\ phase' = "index" /\ unlisted = {}
      /\ index = << >> /\ next = 1
  BY DEF Sort, Phases
<1>7. TypeOK'
  BY <1>5, <1>6 DEF TypeOK
<1>8. Gathered'
  <2>1. PICK g : Places(g, dir, rules, Entries \ unlisted)
    BY DEF Gathered
  <2>2. PICK rs : rs = rules'
    OBVIOUS
  <2> DEFINE h == [i \in 1..n |-> g[p[i]]]
  <2>3. /\ h \in [1..n -> Entries \X Nat] /\ DOMAIN rs = 1..n
        /\ \A i \in 1..n : p[i] \in 1..n /\ h[i] = g[p[i]] /\ rs[i] = rules[p[i]]
    BY <1>2, <1>3, <1>5, <2>1, <2>2 DEF Places
  <2>4. Places(h, dir, rs, Entries \ unlisted)
    <3>1. \A i, j \in DOMAIN rs : h[i] = h[j] => i = j
      BY <1>2, <1>3, <2>1, <2>3 DEF Places
    <3>2. \A i \in DOMAIN rs :
            /\ h[i][1] \in Entries \ unlisted /\ dir[h[i][1]].state = "yaml"
            /\ h[i][2] \in DOMAIN dir[h[i][1]].rules
            /\ rs[i] = dir[h[i][1]].rules[h[i][2]]
      BY <1>2, <2>1, <2>3 DEF Places
    <3>3. ASSUME NEW e \in Entries \ unlisted, dir[e].state = "yaml",
                 NEW k \in DOMAIN dir[e].rules
          PROVE  \E i \in DOMAIN rs : h[i] = <<e, k>>
      <4>1. PICK j \in DOMAIN rules : g[j] = <<e, k>>
        BY <2>1, <3>3 DEF Places
      <4>2. QED
        BY <4>1, <1>2, <1>4, <2>3
    <3>4. h \in [DOMAIN rs -> Entries \X Nat]
      BY <2>3
    <3> HIDE DEF h
    <3>5. QED
      BY <3>1, <3>2, <3>3, <3>4 DEF Places
  <2>5. QED
    BY <1>6, <2>2, <2>4 DEF Gathered
<1>9. MetSound'
  BY <1>6 DEF MetSound, Skipped, Sound, compiles
<1>10. Indexed'
  BY <1>6 DEF Indexed
<1>11. Phases'
  BY <1>6 DEF Phases
<1>12. ById'
  <2>1. \A i \in 1..n : p[i] \in 1..n /\ rules[p[i]].id \in Nat /\ rules'[i] = rules[p[i]]
    BY <1>2, <1>3, RuleTextsAssumption
  <2>2. \A i, j \in 1..n : i < j => rules'[i].id <= rules'[j].id
    BY <1>3, <2>1
  <2>3. QED
    BY <1>5, <2>2 DEF ById
<1>13. QED
  BY <1>7, <1>8, <1>9, <1>10, <1>11, <1>12

\* Indexing a rule whose id is new.
LEMMA IndexStep == ASSUME Inv, IndexRule PROVE Inv'
<1> USE DEF Inv
<1>1. PICK id : id = rules[next].id
  OBVIOUS
<1>2. /\ next \in 1..Len(rules) /\ next \in Nat /\ Len(rules) \in Nat
      /\ rules \in Seq(RuleTexts) /\ DOMAIN rules = 1..Len(rules)
      /\ id \notin DOMAIN index /\ next' = next + 1
      /\ index' = [i \in DOMAIN index \cup {id} |-> IF i = id THEN next ELSE index[i]]
      /\ dir' = dir /\ unlisted' = unlisted /\ phase' = phase /\ rules' = rules
      /\ phase = "index"
  BY <1>1 DEF IndexRule, Duplicate, Position, TypeOK
<1>3. TypeOK'
  BY <1>1, <1>2 DEF TypeOK
<1>4. Gathered' /\ MetSound' /\ Phases'
  BY <1>2, Untouched DEF Phases
<1>5. Indexed'
  <2>1. ASSUME NEW i \in DOMAIN index'
        PROVE  index'[i] \in 1..(next' - 1) /\ rules'[index'[i]].id = i
    BY <1>1, <1>2 DEF Indexed
  <2>2. ASSUME NEW k \in 1..(next' - 1)
        PROVE  rules'[k].id \in DOMAIN index' /\ index'[rules'[k].id] = k
    <3>1. CASE k = next
      BY <3>1, <1>1, <1>2
    <3>2. CASE k # next
      <4>1. k \in 1..(next - 1)
        BY <3>2, <1>2
      <4>2. rules[k].id \in DOMAIN index /\ index[rules[k].id] = k /\ rules[k].id # id
        BY <4>1, <1>2 DEF Indexed
      <4>3. QED
        BY <4>2, <1>2
    <3>3. QED
      BY <3>1, <3>2
  <2>3. QED
    BY <2>1, <2>2 DEF Indexed
<1>6. ById'
  BY <1>2 DEF ById
<1>7. QED
  BY <1>3, <1>4, <1>5, <1>6

\* The rules at two positions with one id are two rules of the directory.
LEMMA DuplicateStep == ASSUME Inv, RejectDuplicate PROVE Inv'
<1> USE DEF Inv
<1>1. PICK i : i = index[rules[next].id]
  OBVIOUS
<1>2. /\ next \in DOMAIN rules /\ next \in Nat /\ i \in DOMAIN rules /\ i # next
      /\ rules[i].id = rules[next].id
  <2>1. /\ next \in Nat /\ next \in 1..Len(rules) /\ Len(rules) \in Nat
        /\ DOMAIN rules = 1..Len(rules) /\ rules[next].id \in DOMAIN index
    BY DEF RejectDuplicate, Duplicate, TypeOK
  <2>2. i \in 1..(next - 1) /\ rules[i].id = rules[next].id
    BY <1>1, <2>1 DEF Indexed
  <2>3. QED
    BY <2>1, <2>2
<1>3. PICK g : Places(g, dir, rules, Entries \ unlisted)
  BY DEF Gathered
<1>4. ~Loadable
  <2>1. PICK e, j, f, k : e = g[i][1] /\ j = g[i][2] /\ f = g[next][1] /\ k = g[next][2]
    OBVIOUS
  <2>2. g[i] = <<e, j>> /\ g[next] = <<f, k>> /\ ~(e = f /\ j = k)
    BY <1>2, <1>3, <2>1 DEF Places
  <2>3. /\ e \in Entries /\ f \in Entries
        /\ dir[e].state = "yaml" /\ dir[f].state = "yaml"
        /\ j \in DOMAIN dir[e].rules /\ k \in DOMAIN dir[f].rules
        /\ dir[e].rules[j].id = dir[f].rules[k].id
    BY <1>2, <1>3, <2>1 DEF Places
  <2>4. QED
    BY <2>2, <2>3 DEF Loadable
<1>5. QED
  BY <1>4, Untouched DEF RejectDuplicate, TypeOK, Indexed, Phases, ById

LEMMA NextInv == Inv /\ [Next]_vars => Inv'
<1> SUFFICES ASSUME Inv, [Next]_vars PROVE Inv'
  OBVIOUS
<1>1. CASE Return
  <2>1. next = Len(rules) + 1
    BY <1>1 DEF Return, Inv, TypeOK
  <2>2. QED
    BY <1>1, <2>1, Untouched DEF Return, Inv, TypeOK, Indexed, Phases, ById
<1>2. CASE UNCHANGED vars
  BY <1>2, Untouched DEF vars, Inv, TypeOK, Indexed, Phases, ById
<1>3. QED
  BY <1>1, <1>2, SkipStep, LoadStep, RejectStep, SortStep, IndexStep, DuplicateStep
  DEF Next, Step, Terminated

\* The rules gathered, the index and the outcome, at every moment of a load.
THEOREM Invariance == Spec => []Inv
BY InitInv, NextInv, PTL DEF Spec

\* Every variable of a load keeps its type.
THEOREM TypeCorrect == Spec => []TypeOK
<1>1. Inv => TypeOK
  BY DEF Inv
<1>2. QED
  BY <1>1, Invariance, PTL

\* RuleSet.get answers an id of the directory with that very rule, and no other.
THEOREM LookupTheorem == Spec => []LookupExact
<1>1. Inv => LookupExact
  <2> SUFFICES ASSUME Inv, phase = "loaded"
               PROVE  /\ \A r \in Held : get(r.id) = r
                      /\ \A id \in DOMAIN index : get(id) \in Held /\ get(id).id = id
    BY DEF LookupExact
  <2>1. PICK g : Places(g, dir, rules, Entries)
    BY DEF Inv, Gathered, Phases
  <2>2. /\ DOMAIN rules = 1..(next - 1) /\ next \in Nat
    BY DEF Inv, Phases, TypeOK
  <2>3. ASSUME NEW r \in Held PROVE get(r.id) = r
    <3>1. PICK e \in Entries : dir[e].state = "yaml" /\ \E k \in DOMAIN dir[e].rules : r = dir[e].rules[k]
      BY <2>3 DEF Held
    <3>2. PICK k \in DOMAIN dir[e].rules : r = dir[e].rules[k]
      BY <3>1
    <3>3. PICK i \in DOMAIN rules : g[i] = <<e, k>>
      BY <2>1, <3>1 DEF Places
    <3>4. rules[i] = r
      BY <2>1, <3>2, <3>3 DEF Places
    <3>5. QED
      BY <2>2, <3>4 DEF get, Inv, Indexed
  <2>4. ASSUME NEW id \in DOMAIN index PROVE get(id) \in Held /\ get(id).id = id
    <3>1. PICK i : i = index[id]
      OBVIOUS
    <3>2. i \in DOMAIN rules /\ rules[i].id = id /\ get(id) = rules[i]
      BY <2>2, <3>1 DEF Inv, Indexed, get
    <3>3. /\ g[i][1] \in Entries /\ dir[g[i][1]].state = "yaml"
          /\ g[i][2] \in DOMAIN dir[g[i][1]].rules
          /\ rules[i] = dir[g[i][1]].rules[g[i][2]]
      BY <2>1, <3>2 DEF Places
    <3>4. QED
      BY <3>2, <3>3 DEF Held
  <2>5. QED
    BY <2>3, <2>4
<1>2. QED
  BY <1>1, Invariance, PTL

\* The rules of one kind that the detectors go through are those of the files,
\* by id, in whatever order the files were met.
THEOREM OrderTheorem == Spec => []OrderOfTheWalkForgotten
<1>1. ASSUME Inv, phase = "loaded", NEW kind \in RuleKind, NEW chosen, chosen = by_kind(kind)
      PROVE  /\ {chosen[k] : k \in DOMAIN chosen} = {r \in Held : r.kind = kind}
             /\ \A j, k \in DOMAIN chosen : j < k => chosen[j].id < chosen[k].id
  <2>1. PICK g : Places(g, dir, rules, Entries)
    BY <1>1 DEF Inv, Gathered, Phases
  <2>2. PICK rs, n : rs = rules /\ n = Len(rules)
    OBVIOUS
  <2>3. /\ rs \in Seq(RuleTexts) /\ n \in Nat /\ DOMAIN rs = 1..n
        /\ \A i \in 1..n : rs[i] \in RuleTexts /\ rs[i].id \in Nat
        /\ \A i, j \in 1..n : i < j => rs[i].id < rs[j].id
    <3>1. rs \in Seq(RuleTexts) /\ n \in Nat /\ DOMAIN rs = 1..n
      BY <1>1, <2>2 DEF Inv, TypeOK
    <3>2. \A i \in 1..n : rs[i] \in RuleTexts /\ rs[i].id \in Nat
      BY <3>1, RuleTextsAssumption
    <3>3. \A i, j \in 1..n : rs[i].id = rs[j].id => i = j
      BY <1>1, <2>2, <3>1 DEF Inv, Phases, Indexed, TypeOK
    <3>4. \A i, j \in 1..n : i < j => rs[i].id <= rs[j].id
      BY <1>1, <2>2, <3>1 DEF Inv, ById
    <3>5. QED
      BY <3>1, <3>2, <3>3, <3>4
  <2>4. PICK S : S = {k \in DOMAIN rs : rs[k].kind = kind}
    OBVIOUS
  <2>5. chosen = Picked(rs, S) /\ S \in SUBSET DOMAIN rs
    BY <1>1, <2>2, <2>4 DEF by_kind
  <2>6. PICK M : /\ Runs(M, S, Ascending(S))
                 /\ \A k, l \in 1..Cardinality(S) : M[k] < M[l] <=> k < l
                 /\ Picked(rs, S) = [k \in 1..Cardinality(S) |-> rs[M[k]]]
    BY <2>3, <2>5, PickedPositions
  <2>7. /\ DOMAIN chosen = 1..Cardinality(S)
        /\ \A k \in DOMAIN chosen : M[k] \in S /\ M[k] \in 1..n /\ chosen[k] = rs[M[k]]
        /\ \A i \in S : \E k \in DOMAIN chosen : M[k] = i
    BY <2>3, <2>4, <2>5, <2>6 DEF Runs
  <2>8. \A j, k \in DOMAIN chosen : j < k => chosen[j].id < chosen[k].id
    BY <2>3, <2>6, <2>7
  <2>9. ASSUME NEW k \in DOMAIN chosen PROVE chosen[k] \in {r \in Held : r.kind = kind}
    <3>1. M[k] \in DOMAIN rules /\ chosen[k] = rules[M[k]] /\ chosen[k].kind = kind
      BY <2>2, <2>3, <2>4, <2>7
    <3>2. PICK e, j : e = g[M[k]][1] /\ j = g[M[k]][2]
      OBVIOUS
    <3>3. e \in Entries /\ dir[e].state = "yaml" /\ j \in DOMAIN dir[e].rules
          /\ chosen[k] = dir[e].rules[j]
      BY <2>1, <3>1, <3>2 DEF Places
    <3>4. QED
      BY <3>1, <3>3 DEF Held
  <2>10. ASSUME NEW r \in Held, r.kind = kind PROVE \E k \in DOMAIN chosen : chosen[k] = r
    <3>1. PICK e \in Entries : dir[e].state = "yaml" /\ \E j \in DOMAIN dir[e].rules : r = dir[e].rules[j]
      BY <2>10 DEF Held
    <3>2. PICK j \in DOMAIN dir[e].rules : r = dir[e].rules[j]
      BY <3>1
    <3>3. PICK i \in DOMAIN rules : g[i] = <<e, j>>
      BY <2>1, <3>1 DEF Places
    <3>4. rs[i] = r /\ i \in S
      BY <2>1, <2>2, <2>4, <2>10, <3>2, <3>3 DEF Places
    <3>5. QED
      BY <2>7, <3>4
  <2>11. QED
    BY <2>8, <2>9, <2>10
<1>2. Inv => OrderOfTheWalkForgotten
  BY <1>1 DEF OrderOfTheWalkForgotten
<1>3. QED
  BY <1>2, Invariance, PTL

\* A directory loads only if every rule file is sound and no id is used twice,
\* and fails only if that is not so (load_from_dir, with_index).
THEOREM AllOrNothingTheorem == Spec => []AllOrNothing
<1>1. Inv => AllOrNothing
  <2> SUFFICES ASSUME Inv PROVE AllOrNothing
    OBVIOUS
  <2>1. ASSUME phase = "loaded" PROVE Loadable
    <3>1. PICK g : Places(g, dir, rules, Entries)
      BY <2>1 DEF Inv, Gathered, Phases
    <3>2. DOMAIN rules = 1..(next - 1) /\ next \in Nat
      BY <2>1 DEF Inv, Phases, TypeOK
    <3>3. \A e \in Entries : dir[e].state \notin {"walk-error", "other"} => Sound(dir[e])
      BY <2>1 DEF Inv, Phases, MetSound, Skipped
    <3>4. ASSUME NEW e \in Entries, NEW f \in Entries,
                 NEW j \in DOMAIN dir[e].rules, NEW k \in DOMAIN dir[f].rules,
                 dir[e].state = "yaml", dir[f].state = "yaml",
                 dir[e].rules[j].id = dir[f].rules[k].id
          PROVE  e = f /\ j = k
      <4>1. PICK a \in DOMAIN rules : g[a] = <<e, j>>
        BY <3>1, <3>4 DEF Places
      <4>2. PICK b \in DOMAIN rules : g[b] = <<f, k>>
        BY <3>1, <3>4 DEF Places
      <4>3. rules[a] = dir[e].rules[j] /\ rules[b] = dir[f].rules[k]
        BY <3>1, <4>1, <4>2 DEF Places
      <4>4. a = b
        BY <3>2, <3>4, <4>3 DEF Inv, Indexed
      <4>5. QED
        BY <4>1, <4>2, <4>4
    <3>5. QED
      BY <3>3, <3>4 DEF Loadable
  <2>2. QED
    BY <2>1 DEF AllOrNothing, Inv, Phases
<1>2. QED
  BY <1>1, Invariance, PTL
=============================================================================
