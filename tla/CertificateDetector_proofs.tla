------------------- MODULE CertificateDetector_proofs -------------------
(***************************************************************************)
(* Theorems about CertificateDetector, for files of any length and any      *)
(* number of rules.                                                         *)
(***************************************************************************)
EXTENDS CertificateDetector, FiniteSetTheorems, TLAPS

\* m takes every certificate to the block it was parsed from: each to one of its
\* own, and every block before `block` that parses is met.
From(m) ==
    /\ m \in [DOMAIN infos -> 1..(block - 1)]
    /\ \A k \in DOMAIN infos : infos[k] = Blocks[m[k]] /\ Parsed(Blocks[m[k]])
    /\ \A j, k \in DOMAIN infos : m[j] = m[k] => j = k
    /\ \A b \in 1..(block - 1) : Parsed(Blocks[b]) => \E k \in DOMAIN infos : m[k] = b

Gathered == \E m : From(m)

\* What the rules are tried on: each certificate, or the path alone.
Numbers == IF infos = << >> THEN {0} ELSE DOMAIN infos
TargetOf(i) == file.words \cup
    IF i = 0 THEN {ContainerWord(file)}
    ELSE {SignatureWord(infos[i]), BitsWord(infos[i])}

\* The pairs tried when the loops are at certificate n and rule q.
Tried(i, r, n, q) == i < n \/ (i = n /\ r < q)

\* The detections are the pairs tried of which the words match, each once.
Reported ==
    /\ out \in Seq(Nat \X Nat)
    /\ \A k \in DOMAIN out :
         /\ out[k][1] \in Numbers /\ out[k][2] \in DOMAIN rules
         /\ Tried(out[k][1], out[k][2], info, rule)
         /\ rules[out[k][2]] \in TargetOf(out[k][1])
    /\ \A j, k \in DOMAIN out : out[j] = out[k] => j = k
    /\ phase # "parse" /\ is_certificate_file =>
         \A i \in Numbers : \A r \in DOMAIN rules :
            Tried(i, r, info, rule) /\ rules[r] \in TargetOf(i)
              => \E k \in DOMAIN out : out[k] = <<i, r>>

Positions ==
    /\ file \in Files /\ rules \in Seq(Word) /\ infos \in Seq(Block)
    /\ phase \in {"parse", "match", "done"}
    /\ block \in 1..(Len(Blocks) + 1)
    /\ info \in Nat /\ rule \in 1..(Len(rules) + 1)

Phases ==
    /\ phase = "parse" => out = << >> /\ info = 1 /\ rule = 1
    /\ phase = "match" =>
         /\ is_certificate_file /\ block = Len(Blocks) + 1
         /\ IF infos = << >> THEN info = 0 ELSE info \in 1..(Len(infos) + 1)
    /\ phase = "done" /\ is_certificate_file =>
         /\ block = Len(Blocks) + 1
         /\ \A i \in Numbers : \A r \in DOMAIN rules : Tried(i, r, info, rule)
    /\ ~is_certificate_file => infos = << >> /\ out = << >> /\ info = 1 /\ rule = 1
    /\ info \in 0..(Len(infos) + 1)

Inv == Positions /\ Gathered /\ Reported /\ Phases

\* The blocks a file is read as are blocks of the file.
LEMMA BlocksOfTheFile ==
    ASSUME file \in Files
    PROVE  /\ Blocks \in Seq(Block)
           /\ Blocks = file.blocks \/ Blocks = << >>
           /\ file.blocks \in Seq(Block)
BY FilesAssumption DEF Blocks

LEMMA InitInv == Init => Inv
<1> SUFFICES ASSUME Init PROVE Inv
  OBVIOUS
<1>1. Positions
  BY BlocksOfTheFile, RulesAssumption DEF Init, Positions
<1>2. From(<< >>)
  BY DEF Init, From
<1>3. Reported
  BY DEF Init, Reported
<1>4. Phases
  BY <1>1 DEF Init, Phases
<1>5. QED
  BY <1>1, <1>2, <1>3, <1>4 DEF Inv, Gathered

\* A file of another kind is left alone.
LEMMA OtherFileStep == ASSUME Inv, NotACertificateFile PROVE Inv'
<1> USE DEF Inv, NotACertificateFile
<1>1. Blocks' = Blocks /\ is_certificate_file' = is_certificate_file
  BY DEF Blocks, is_certificate_file
<1>2. Positions'
  BY <1>1 DEF Positions
<1>3. Gathered'
  BY <1>1 DEF Gathered, From, Parsed
<1>4. Reported'
  BY <1>1 DEF Reported, Phases
<1>5. Phases'
  BY <1>1 DEF Phases
<1>6. QED
  BY <1>2, <1>3, <1>4, <1>5

\* A block that parses is met by a certificate of its own.
LEMMA ParseStep == ASSUME Inv, ParseBlock PROVE Inv'
<1> USE DEF Inv
<1>1. /\ Blocks' = Blocks /\ is_certificate_file' = is_certificate_file
      /\ file' = file /\ rules' = rules /\ phase = "parse" /\ phase' = "parse"
      /\ block' = block + 1 /\ block \in 1..Len(Blocks) /\ is_certificate_file
      /\ info' = info /\ rule' = rule /\ out' = out
  BY DEF ParseBlock, Blocks, is_certificate_file, Positions
<1>2. /\ Blocks \in Seq(Block) /\ Blocks[block] \in Block /\ infos \in Seq(Block)
      /\ block \in Nat /\ \A b : Parsed(b)' = Parsed(b)
  BY <1>1, BlocksOfTheFile DEF Positions, Parsed
<1>3. infos' = IF Parsed(Blocks[block]) THEN Append(infos, Blocks[block]) ELSE infos
  BY DEF ParseBlock
<1>4. Positions' /\ Phases'
  <2>1. infos' \in Seq(Block) /\ Len(infos') \in Nat
    BY <1>2, <1>3
  <2>2. QED
    BY <1>1, <2>1 DEF Positions, Phases
<1>5. Gathered'
  <2>1. PICK m : From(m)
    BY DEF Gathered
  <2>2. CASE ~Parsed(Blocks[block])
    <3>1. infos' = infos
      BY <1>3, <2>2
    <3>2. \A b \in 1..(block' - 1) : Parsed(Blocks[b]) => b \in 1..(block - 1)
      BY <1>1, <1>2, <2>2
    <3>3. m \in [DOMAIN infos -> 1..(block' - 1)]
      BY <1>1, <1>2, <2>1 DEF From
    <3>4. From(m)'
      BY <1>1, <1>2, <2>1, <3>1, <3>2, <3>3 DEF From
    <3>5. QED
      BY <3>4 DEF Gathered
  <2>3. CASE Parsed(Blocks[block])
    <3>1. PICK n : n = Len(infos)
      OBVIOUS
    <3>2. /\ n \in Nat /\ DOMAIN infos = 1..n /\ DOMAIN infos' = 1..(n + 1)
          /\ infos'[n + 1] = Blocks[block]
          /\ \A k \in 1..n : infos'[k] = infos[k]
      BY <1>2, <1>3, <2>3, <3>1
    <3>3. PICK h : h = [k \in 1..(n + 1) |-> IF k = n + 1 THEN block ELSE m[k]]
      OBVIOUS
    <3>4. /\ h[n + 1] = block
          /\ \A k \in 1..n : h[k] = m[k] /\ m[k] \in 1..(block - 1) /\ h[k] # block
      BY <1>2, <2>1, <3>2, <3>3 DEF From
    <3>5. \A k \in 1..(n + 1) : k = n + 1 \/ k \in 1..n
      BY <3>2
    <3>6. h \in [1..(n + 1) -> 1..(block' - 1)]
      <4>1. ASSUME NEW k \in 1..(n + 1) PROVE h[k] \in 1..(block' - 1)
        BY <1>1, <1>2, <3>4, <3>5
      <4>2. QED
        BY <3>3, <4>1
    <3>7. \A k \in 1..(n + 1) : infos'[k] = Blocks[h[k]] /\ Parsed(Blocks[h[k]])
      BY <2>1, <2>3, <3>2, <3>4, <3>5 DEF From
    <3>8. \A j, k \in 1..(n + 1) : h[j] = h[k] => j = k
      BY <2>1, <3>2, <3>4, <3>5 DEF From
    <3>9. ASSUME NEW b \in 1..(block' - 1), Parsed(Blocks[b])
          PROVE  \E k \in 1..(n + 1) : h[k] = b
      <4>1. CASE b = block
        BY <3>2, <3>4, <4>1
      <4>2. CASE b # block
        <5>1. b \in 1..(block - 1)
          BY <1>1, <1>2, <3>9, <4>2
        <5>2. PICK k \in 1..n : m[k] = b
          BY <2>1, <3>2, <3>9, <5>1 DEF From
        <5>3. QED
          BY <3>2, <3>4, <5>2
      <4>3. QED
        BY <4>1, <4>2
    <3>10. From(h)'
      BY <1>1, <1>2, <3>2, <3>6, <3>7, <3>8, <3>9 DEF From
    <3>11. QED
      BY <3>10 DEF Gathered
  <2>4. QED
    BY <2>2, <2>3
<1>6. Reported'
  BY <1>1 DEF Phases, Reported
<1>7. QED
  BY <1>4, <1>5, <1>6

\* Nothing has been tried when the rules are first looked at.
LEMMA StartStep == ASSUME Inv, StartMatching PROVE Inv'
<1> USE DEF Inv, StartMatching
<1>1. /\ Blocks' = Blocks /\ is_certificate_file' = is_certificate_file
      /\ Numbers' = Numbers
  BY DEF Blocks, is_certificate_file, Numbers
<1>2. infos \in Seq(Block) /\ out = << >> /\ rule = 1 /\ Len(infos) \in Nat
  BY DEF Phases, Positions
<1>3. IF infos = << >> THEN info' = 0 ELSE info' = 1
  BY DEF First
<1>4. Positions'
  BY <1>1, <1>3 DEF Positions
<1>5. Gathered'
  BY <1>1 DEF Gathered, From, Parsed
<1>6. Reported'
  <2>1. \A i \in Numbers : \A r \in DOMAIN rules : ~Tried(i, r, info', rule')
    BY <1>2, <1>3 DEF Numbers, Tried, Positions
  <2>2. QED
    BY <1>1, <1>2, <2>1 DEF Reported
<1>7. Phases'
  <2>1. infos # << >> => Len(infos) >= 1
    BY <1>2
  <2>2. block = Len(Blocks) + 1
    BY BlocksOfTheFile DEF Positions
  <2>3. QED
    BY <1>1, <1>2, <1>3, <2>1, <2>2 DEF Phases
<1>8. QED
  BY <1>4, <1>5, <1>6, <1>7

\* A pair is tried, and reported if its words match.
LEMMA TryStep == ASSUME Inv, TryRule PROVE Inv'
<1> USE DEF Inv
<1>1. /\ Blocks' = Blocks /\ is_certificate_file' = is_certificate_file
      /\ file' = file /\ rules' = rules /\ phase = "match" /\ phase' = "match"
      /\ block' = block /\ infos' = infos /\ info' = info /\ rule' = rule + 1
      /\ Numbers' = Numbers /\ \A i : TargetOf(i)' = TargetOf(i)
  BY DEF TryRule, Blocks, is_certificate_file, Numbers, TargetOf
<1>2. /\ infos \in Seq(Block) /\ rules \in Seq(Word) /\ info \in Numbers
      /\ rule \in DOMAIN rules /\ info \in Nat /\ rule \in Nat
      /\ out \in Seq(Nat \X Nat) /\ is_certificate_file
  BY DEF TryRule, Positions, Phases, Numbers, Reported
<1>3. Positions' /\ Phases'
  BY <1>1, <1>2 DEF Positions, Phases
<1>4. Gathered'
  BY <1>1 DEF Gathered, From, Parsed
<1>5. out' = IF rules[rule] \in TargetOf(info) THEN Append(out, <<info, rule>>) ELSE out
  <2>1. Target = TargetOf(info)
    BY DEF Target, TargetOf
  <2>2. QED
    BY <2>1 DEF TryRule, Detection
<1>6. /\ ~Tried(info, rule, info, rule)
      /\ \A i \in Nat, r \in Nat :
           Tried(i, r, info', rule') <=> Tried(i, r, info, rule) \/ (i = info /\ r = rule)
  BY <1>1, <1>2 DEF Tried
<1>7. Numbers \subseteq Nat /\ DOMAIN rules \subseteq Nat
  BY <1>2 DEF Numbers
<1>8. Reported'
  <2>1. CASE rules[rule] \notin TargetOf(info)
    BY <1>1, <1>2, <1>5, <1>6, <1>7, <2>1 DEF Reported
  <2>2. CASE rules[rule] \in TargetOf(info)
    <3>1. PICK n : n = Len(out)
      OBVIOUS
    <3>2. /\ n \in Nat /\ DOMAIN out = 1..n /\ DOMAIN out' = 1..(n + 1)
          /\ out' \in Seq(Nat \X Nat)
          /\ out'[n + 1] = <<info, rule>>
          /\ \A k \in 1..n : out'[k] = out[k]
      BY <1>2, <1>5, <2>2, <3>1
    <3>3. \A k \in 1..(n + 1) : k = n + 1 \/ k \in 1..n
      BY <3>2
    <3>4. \A k \in 1..n : out[k][1] \in Nat /\ out[k][2] \in Nat
      BY <1>7, <3>2 DEF Reported
    <3>5. ASSUME NEW k \in 1..n PROVE out[k] # <<info, rule>>
      <4>1. Tried(out[k][1], out[k][2], info, rule)
        BY <3>2 DEF Reported
      <4>2. out[k] = <<info, rule>> => out[k][1] = info /\ out[k][2] = rule
        OBVIOUS
      <4>3. QED
        BY <1>6, <4>1, <4>2
    <3>6. ASSUME NEW k \in DOMAIN out'
          PROVE  /\ out'[k][1] \in Numbers /\ out'[k][2] \in DOMAIN rules
                 /\ Tried(out'[k][1], out'[k][2], info', rule')
                 /\ rules[out'[k][2]] \in TargetOf(out'[k][1])
      <4>1. CASE k = n + 1
        BY <1>2, <1>6, <2>2, <3>2, <4>1
      <4>2. CASE k \in 1..n
        BY <1>6, <3>2, <3>4, <4>2 DEF Reported
      <4>3. QED
        BY <3>2, <3>3, <4>1, <4>2
    <3>7. \A j, k \in DOMAIN out' : out'[j] = out'[k] => j = k
      BY <3>2, <3>3, <3>5 DEF Reported
    <3>8. ASSUME NEW i \in Numbers, NEW r \in DOMAIN rules,
                 Tried(i, r, info', rule'), rules[r] \in TargetOf(i)
          PROVE  \E k \in DOMAIN out' : out'[k] = <<i, r>>
      <4>1. CASE i = info /\ r = rule
        BY <3>2, <4>1
      <4>2. CASE ~(i = info /\ r = rule)
        <5>1. Tried(i, r, info, rule)
          BY <1>6, <1>7, <3>8, <4>2
        <5>2. PICK k \in 1..n : out[k] = <<i, r>>
          BY <1>1, <1>2, <3>2, <3>8, <5>1 DEF Reported
        <5>3. k \in DOMAIN out' /\ out'[k] = <<i, r>>
          BY <3>2, <5>2
        <5>4. QED
          BY <5>3
      <4>3. QED
        BY <4>1, <4>2
    <3>9. QED
      BY <1>1, <3>2, <3>6, <3>7, <3>8 DEF Reported
  <2>3. QED
    BY <2>1, <2>2
<1>9. QED
  BY <1>3, <1>4, <1>8

\* With the rules tried on a certificate the next one's begin.
LEMMA NextInfoStep == ASSUME Inv, NextInfo PROVE Inv'
<1> USE DEF Inv
<1>1. /\ Blocks' = Blocks /\ is_certificate_file' = is_certificate_file
      /\ file' = file /\ rules' = rules /\ phase = "match" /\ rule > Len(rules)
      /\ block' = block /\ infos' = infos /\ out' = out
      /\ Numbers' = Numbers /\ \A i : TargetOf(i)' = TargetOf(i)
      /\ info <= Len(infos)
  BY DEF NextInfo, Blocks, is_certificate_file, Numbers, TargetOf
<1>2. /\ infos \in Seq(Block) /\ rules \in Seq(Word) /\ info \in Numbers /\ info \in Nat
      /\ rule = Len(rules) + 1 /\ Len(rules) \in Nat /\ is_certificate_file
      /\ info = 0 <=> infos = << >>
  BY <1>1 DEF Positions, Phases, Numbers
<1>3. Numbers \subseteq Nat /\ DOMAIN rules \subseteq 1..Len(rules)
  BY <1>2 DEF Numbers
<1>4. Gathered'
  BY <1>1 DEF Gathered, From, Parsed
<1>5. CASE info = 0 /\ phase' = "done" /\ UNCHANGED <<info, rule>>
  <2>1. \A i \in Numbers : \A r \in DOMAIN rules :
          Tried(i, r, info, rule) /\ Tried(i, r, info', rule')
    BY <1>2, <1>3, <1>5 DEF Tried, Numbers
  <2>2. Reported'
    BY <1>1, <1>2, <1>5, <2>1 DEF Reported
  <2>3. Positions' /\ Phases'
    BY <1>1, <1>2, <1>5, <2>1 DEF Positions, Phases
  <2>4. QED
    BY <1>4, <2>2, <2>3
<1>6. CASE info > 0 /\ info' = info + 1 /\ rule' = 1 /\ phase' = phase
  <2>1. \A i \in Numbers : \A r \in DOMAIN rules :
          Tried(i, r, info', rule') <=> Tried(i, r, info, rule)
    BY <1>2, <1>3, <1>6 DEF Tried
  <2>2. \A k \in DOMAIN out : Tried(out[k][1], out[k][2], info', rule')
    BY <2>1 DEF Reported
  <2>3. Reported'
    BY <1>1, <1>2, <1>6, <2>1, <2>2 DEF Reported
  <2>4. Positions' /\ Phases'
    BY <1>1, <1>2, <1>6 DEF Positions, Phases
  <2>5. QED
    BY <1>4, <2>3, <2>4
<1>7. QED
  BY <1>5, <1>6 DEF NextInfo

\* Behind the last certificate everything has been tried.
LEMMA ReturnStep == ASSUME Inv, Return PROVE Inv'
<1> USE DEF Inv, Return
<1>1. /\ Blocks' = Blocks /\ is_certificate_file' = is_certificate_file
      /\ Numbers' = Numbers /\ \A i : TargetOf(i)' = TargetOf(i)
      /\ info' = info /\ rule' = rule
  BY DEF Blocks, is_certificate_file, Numbers, TargetOf, Tried
<1>2. /\ infos \in Seq(Block) /\ rules \in Seq(Word) /\ is_certificate_file
      /\ info = Len(infos) + 1 /\ Len(infos) \in Nat /\ info # 0
  BY DEF Positions, Phases
<1>3. \A i \in Numbers : \A r \in DOMAIN rules : Tried(i, r, info, rule)
  BY <1>2 DEF Tried, Numbers, Phases
<1>4. Positions' /\ Phases'
  BY <1>1, <1>2, <1>3 DEF Positions, Phases
<1>5. Gathered'
  BY <1>1 DEF Gathered, From, Parsed
<1>6. Reported'
  BY <1>1, <1>2 DEF Reported
<1>7. QED
  BY <1>4, <1>5, <1>6

\* The invariant: what has been parsed, and what has been tried and reported.
THEOREM DetectorInvariance == Spec => []Inv
<1>1. Inv /\ [Next]_vars => Inv'
  <2> SUFFICES ASSUME Inv, [Next]_vars PROVE Inv'
    OBVIOUS
  <2>1. CASE UNCHANGED vars
    <3>1. /\ Blocks' = Blocks /\ is_certificate_file' = is_certificate_file
          /\ Numbers' = Numbers /\ \A i : TargetOf(i)' = TargetOf(i)
      BY <2>1 DEF vars, Blocks, is_certificate_file, Numbers, TargetOf
    <3>2. Positions' /\ Phases'
      BY <2>1, <3>1 DEF vars, Inv, Positions, Phases
    <3>3. Gathered'
      BY <2>1, <3>1 DEF vars, Inv, Gathered, From, Parsed
    <3>4. Reported'
      BY <2>1, <3>1 DEF vars, Inv, Reported
    <3>5. QED
      BY <3>2, <3>3, <3>4 DEF Inv
  <2>2. QED
    BY <2>1, OtherFileStep, ParseStep, StartStep, TryStep, NextInfoStep, ReturnStep
       DEF Next, Terminated
<1>2. QED
  BY InitInv, <1>1, PTL DEF Spec
\* Every detection is of a certificate, or the path, and a rule of the list.
THEOREM DetectorTypes == Spec => []TypeOK
<1>1. Inv => TypeOK
  <2> SUFFICES ASSUME Inv PROVE TypeOK
    OBVIOUS
  <2> USE DEF Inv
  <2>1. /\ Blocks \in Seq(Block) /\ (Blocks = file.blocks \/ Blocks = << >>)
        /\ file.blocks \in Seq(Block) /\ infos \in Seq(Block) /\ Len(infos) \in Nat
    BY BlocksOfTheFile DEF Positions
  <2>2. \A k \in DOMAIN infos : \E b \in DOMAIN file.blocks : infos[k] = file.blocks[b]
    <3>1. PICK m : From(m)
      BY DEF Gathered
    <3>2. ASSUME NEW k \in DOMAIN infos
          PROVE  m[k] \in DOMAIN file.blocks /\ infos[k] = file.blocks[m[k]]
      BY <2>1, <3>1 DEF From, Positions
    <3>3. QED
      BY <3>2
  <2>3. block \in 1..(Len(file.blocks) + 1)
    BY <2>1 DEF Positions
  <2>4. Numbers \subseteq 0..Len(infos)
    BY <2>1 DEF Numbers
  <2>5. QED
    BY <2>2, <2>3, <2>4 DEF TypeOK, Positions, Phases, Reported
<1>2. QED
  BY DetectorInvariance, <1>1, PTL

\* The words a rule may match a certificate by.
WordsOf(b) == file.words \cup {SignatureWord(file.blocks[b]), BitsWord(file.blocks[b])}

\* The positions of a finished run that report a rule, one for each certificate
\* the rule matches.
LEMMA OneForEach ==
    ASSUME Inv, phase = "done", is_certificate_file, NEW r \in DOMAIN rules
    PROVE  Times(r) =
             IF Certificates(file) = {}
             THEN IF rules[r] \in file.words \cup {ContainerWord(file)} THEN 1 ELSE 0
             ELSE Cardinality({b \in Certificates(file) : rules[r] \in WordsOf(b)})
<1> USE DEF Inv
<1> DEFINE T == {k \in DOMAIN out : out[k][2] = r}
           C == {b \in Certificates(file) : rules[r] \in WordsOf(b)}
<1>1. /\ Blocks \in Seq(Block) /\ block - 1 = Len(Blocks) /\ DOMAIN Blocks = 1..Len(Blocks)
      /\ infos \in Seq(Block) /\ (Blocks = file.blocks \/ Blocks = << >>)
      /\ Len(Blocks) \in Nat
  BY BlocksOfTheFile DEF Positions, Phases
<1>2. PICK m : From(m)
  BY DEF Gathered
<1>3. /\ \A b \in DOMAIN Blocks : Blocks[b] = file.blocks[b]
      /\ \A b : b \in Certificates(file) <=> b \in DOMAIN Blocks /\ Parsed(Blocks[b])
  <2>1. CASE \/ file.ext \in {"pem", "crt", "cer"} /\ file.encoding = "pem"
             \/ file.ext = "der" /\ file.encoding = "der"
    BY <2>1 DEF Blocks, Certificates, Parsed
  <2>2. CASE ~(\/ file.ext \in {"pem", "crt", "cer"} /\ file.encoding = "pem"
               \/ file.ext = "der" /\ file.encoding = "der")
    <3>1. Blocks = << >> /\ DOMAIN Blocks = {}
      BY <2>2 DEF Blocks
    <3>2. Certificates(file) = {}
      BY <2>2 DEF Certificates
    <3>3. QED
      BY <3>1, <3>2
  <2>3. QED
    BY <2>1, <2>2
<1>4. /\ m \in [DOMAIN infos -> Certificates(file)]
      /\ \A k \in DOMAIN infos : infos[k] = file.blocks[m[k]]
      /\ \A j, k \in DOMAIN infos : m[j] = m[k] => j = k
      /\ \A b \in Certificates(file) : \E k \in DOMAIN infos : m[k] = b
  BY <1>1, <1>2, <1>3 DEF From
<1>5. /\ \A k \in DOMAIN out : /\ out[k][1] \in Numbers
                                 /\ out[k] = <<out[k][1], out[k][2]>>
                                 /\ rules[out[k][2]] \in TargetOf(out[k][1])
      /\ \A j, k \in DOMAIN out : out[j] = out[k] => j = k
      /\ \A i \in Numbers :
           rules[r] \in TargetOf(i) => \E k \in DOMAIN out : out[k] = <<i, r>>
  BY <1>1 DEF Reported, Phases
<1>6. IsFiniteSet(T)
  <2>1. DOMAIN out = 1..Len(out) /\ Len(out) \in Int /\ T \subseteq DOMAIN out
    BY DEF Reported
  <2>2. IsFiniteSet(1..Len(out))
    BY <2>1, FS_Interval
  <2>3. QED
    BY <2>1, <2>2, FS_Subset
<1>7. CASE infos = << >>
  <2>1. Certificates(file) = {} /\ Numbers = {0}
    BY <1>4, <1>7 DEF Numbers
  <2>2. \A k \in DOMAIN out : /\ out[k] = <<0, out[k][2]>>
                              /\ rules[out[k][2]] \in file.words \cup {ContainerWord(file)}
    BY <1>5, <2>1 DEF TargetOf
  <2>3. CASE rules[r] \in file.words \cup {ContainerWord(file)}
    <3>1. PICK k \in DOMAIN out : out[k] = <<0, r>>
      BY <1>5, <2>1, <2>3 DEF TargetOf
    <3>2. T = {k}
      BY <1>5, <2>2, <3>1
    <3>3. QED
      BY <2>1, <2>3, <3>2, FS_Singleton DEF Times
  <2>4. CASE rules[r] \notin file.words \cup {ContainerWord(file)}
    <3>1. T = {}
      BY <2>2, <2>4
    <3>2. QED
      BY <2>1, <2>4, <3>1, FS_EmptySet DEF Times
  <2>5. QED
    BY <2>3, <2>4
<1>8. CASE infos # << >>
  <2>1. Certificates(file) # {} /\ Numbers = DOMAIN infos /\ 0 \notin DOMAIN infos
    <3>1. 1 \in DOMAIN infos /\ 0 \notin DOMAIN infos
      BY <1>1, <1>8
    <3>2. m[1] \in Certificates(file)
      BY <1>4, <3>1
    <3>3. QED
      BY <1>8, <3>1, <3>2 DEF Numbers
  <2>2. PICK g : g = [k \in T |-> m[out[k][1]]]
    OBVIOUS
  <2>3. \A i \in DOMAIN infos : TargetOf(i) = WordsOf(m[i])
    BY <1>4, <2>1 DEF TargetOf, WordsOf
  <2>4. ASSUME NEW k \in T PROVE out[k][1] \in DOMAIN infos /\ g[k] = m[out[k][1]] /\ g[k] \in C
    BY <1>4, <1>5, <2>1, <2>2, <2>3
  <2>5. ASSUME NEW j \in T, NEW k \in T, g[j] = g[k] PROVE j = k
    <3>1. out[j][1] = out[k][1] /\ out[j][2] = out[k][2]
      BY <1>4, <2>4, <2>5
    <3>2. QED
      BY <1>5, <3>1
  <2>6. ASSUME NEW b \in C PROVE \E k \in T : g[k] = b
    <3>1. PICK i \in DOMAIN infos : m[i] = b
      BY <1>4
    <3>2. PICK k \in DOMAIN out : out[k] = <<i, r>>
      BY <1>5, <2>1, <2>3, <3>1
    <3>3. k \in T /\ out[k][1] = i
      BY <3>2
    <3>4. QED
      BY <2>4, <3>1, <3>3
  <2>7. g \in Bijection(T, C)
    <3>1. g \in [T -> C]
      BY <2>2, <2>4
    <3>2. g \in Injection(T, C)
      BY <3>1, <2>2, <2>5 DEF Injection, IsInjective
    <3>3. g \in Surjection(T, C)
      BY <3>1, <2>6 DEF Surjection
    <3>4. QED
      BY <3>2, <3>3 DEF Bijection
  <2>8. Cardinality(C) = Cardinality(T)
    BY <1>6, <2>7, FS_Bijection DEF ExistsBijection
  <2>9. QED
    BY <2>1, <2>8 DEF Times
<1>9. QED
  BY <1>7, <1>8

\* Each rule reports a certificate file as often as it has certificates the rule
\* matches, and when it has none, once if the rule matches its path.
THEOREM ChainTheorem == Spec => []ChainCovered
<1>1. Inv => ChainCovered
  <2>1. \A w, b : w \in WordsOf(b) <=> \/ w \in file.words
                                       \/ w = SignatureWord(file.blocks[b])
                                       \/ w = BitsWord(file.blocks[b])
    BY DEF WordsOf
  <2>2. QED
    BY <2>1, OneForEach DEF ChainCovered
<1>2. QED
  BY DetectorInvariance, <1>1, PTL
=============================================================================
