--------------------------- MODULE Advice_proofs ---------------------------
(***************************************************************************)
(* Theorems about Advice, for repositories of any size.                     *)
(***************************************************************************)
EXTENDS Advice, Operators_proofs

\* How many files the profile has looked at.
Looked == IF phase = "files" THEN at - 1 ELSE Len(files)

\* The version known of a runtime is that of the first file that states one,
\* among those looked at.
Known(r, n) ==
    \/ versions[r] = None /\ \A i \in Stating(r) : i > n
    \/ \E m \in Stating(r) :
         /\ m <= n /\ \A j \in Stating(r) : m <= j
         /\ versions[r] = Hint(files[m])

HintInv ==
    /\ input \in Inputs
    /\ at \in Nat \ {0}
    /\ phase = "files" => at <= Len(files) + 1
    /\ versions = [r \in Runtime |-> versions[r]]
    /\ \A r \in Runtime : Known(r, Looked)

\* Files are numbered from one.
LEMMA FilesNumbered ==
    ASSUME input \in Inputs
    PROVE  /\ Len(files) \in Nat /\ DOMAIN files = 1..Len(files)
           /\ \A i \in DOMAIN files : files[i].readable \in BOOLEAN
BY AdviceAssumption DEF files

\* What a file says of a runtime that nothing is known of decides it, and what
\* it says of another is not asked.
LEMMA ProfileFileHint ==
    ASSUME HintInv, ProfileFile
    PROVE  HintInv'
<1>1. /\ phase = "files" /\ phase' = "files" /\ at' = at + 1 /\ input' = input
      /\ at \in 1..Len(files) /\ files' = files
  BY FilesNumbered DEF HintInv, ProfileFile, files
<1>2. Looked = at - 1 /\ Looked' = at
  BY <1>1 DEF Looked, HintInv
<1>3. ASSUME NEW r \in Runtime
      PROVE  /\ at \notin Stating(r) => versions'[r] = versions[r]
             /\ at \in Stating(r) /\ versions[r] = None => versions'[r] = Hint(files[at])
             /\ versions[r] # None => versions'[r] = versions[r]
             /\ Stating(r)' = Stating(r)
  <2>1. versions'[r] = IF files[at].name \in RuntimeFile /\ RuntimeOf[files[at].name] = r
                          /\ files[at].readable /\ Undecided(r)
                       THEN Hint(files[at]) ELSE versions[r]
    BY <1>3 DEF ProfileFile
  <2>2. Undecided(r) <=> versions[r] = None
    BY DEF Undecided
  <2>3. at \in Stating(r) <=> /\ files[at].name \in RuntimeFile /\ RuntimeOf[files[at].name] = r
                              /\ Hint(files[at]) # None
    BY <1>1, FilesNumbered DEF Stating, HintInv
  <2>4. ~files[at].readable => Hint(files[at]) = None
    BY DEF Hint
  <2>5. Stating(r)' = Stating(r)
    BY <1>1 DEF Stating, files
  <2>6. QED
    BY <2>1, <2>2, <2>3, <2>4, <2>5
<1>4. ASSUME NEW r \in Runtime
      PROVE  Known(r, Looked)'
  <2>1. Known(r, at - 1)
    BY <1>2 DEF HintInv
  <2>2. \A i \in Stating(r) : i \in Nat
    BY FilesNumbered DEF HintInv, Stating
  <2>3. at \in Nat
    BY DEF HintInv
  <2>4. CASE versions[r] = None /\ \A i \in Stating(r) : i > at - 1
    <3>1. CASE at \in Stating(r)
      <4>1. versions'[r] = Hint(files[at])
        BY <1>3, <2>4, <3>1
      <4>2. \A j \in Stating(r) : at <= j
        BY <2>2, <2>3, <2>4
      <4>3. at <= at
        BY <2>3
      <4>4. \E m \in Stating(r)' : /\ m <= at /\ \A j \in Stating(r)' : m <= j
                                   /\ versions'[r] = Hint(files[m])
        BY <1>3, <3>1, <4>1, <4>2, <4>3
      <4>5. QED
        BY <1>1, <1>2, <4>4 DEF Known, files
    <3>2. CASE at \notin Stating(r)
      <4>1. versions'[r] = None
        BY <1>3, <2>4, <3>2
      <4>2. \A i \in Stating(r)' : i > at
        BY <1>3, <2>2, <2>3, <2>4, <3>2
      <4>3. QED
        BY <1>2, <4>1, <4>2 DEF Known
    <3>3. QED
      BY <3>1, <3>2
  <2>5. CASE \E m \in Stating(r) : /\ m <= at - 1 /\ \A j \in Stating(r) : m <= j
                                   /\ versions[r] = Hint(files[m])
    <3>1. PICK m \in Stating(r) : /\ m <= at - 1 /\ \A j \in Stating(r) : m <= j
                                  /\ versions[r] = Hint(files[m])
      BY <2>5
    <3>2. versions[r] # None
      BY <3>1 DEF Stating
    <3>3. versions'[r] = Hint(files[m]) /\ m <= at
      BY <1>3, <2>2, <2>3, <3>1, <3>2
    <3>4. \E k \in Stating(r)' : /\ k <= at /\ \A j \in Stating(r)' : k <= j
                                 /\ versions'[r] = Hint(files[k])
      BY <1>3, <3>1, <3>3
    <3>5. QED
      BY <1>1, <1>2, <3>4 DEF Known, files
  <2>6. QED
    BY <2>1, <2>4, <2>5 DEF Known
<1>5. versions' = [r \in Runtime |-> versions'[r]]
  BY DEF ProfileFile
<1>6. QED
  BY <1>1, <1>4, <1>5 DEF HintInv

\* No other step changes what is known or which files state a version.
LEMMA OtherStepsHint ==
    ASSUME HintInv, UNCHANGED <<input, versions>>, at' \in Nat \ {0}, Looked' = Looked,
           phase' = "files" => at' <= Len(files) + 1
    PROVE  HintInv'
<1>1. files' = files /\ input' = input /\ versions' = versions
  BY DEF files
<1>2. ASSUME NEW r \in Runtime
      PROVE  Known(r, Looked)'
  <2>1. Stating(r)' = Stating(r)
    BY <1>1 DEF Stating
  <2>2. Known(r, Looked)
    BY DEF HintInv
  <2>3. QED
    BY <1>1, <2>1, <2>2 DEF Known
<1>3. QED
  BY <1>1, <1>2 DEF HintInv

\* HintInv holds of every state of a run.
THEOREM HintInvariance == Spec => []HintInv
<1>1. Init => HintInv
  <2>1. SUFFICES ASSUME Init PROVE HintInv
    OBVIOUS
  <2>2. Len(files) \in Nat /\ \A r \in Runtime : \A i \in Stating(r) : i \in 1..Len(files)
    BY <2>1, FilesNumbered DEF Init, Stating
  <2>3. Looked = 0
    BY <2>1 DEF Init, Looked
  <2>4. \A r \in Runtime : versions[r] = None
    BY <2>1 DEF Init
  <2>5. \A r \in Runtime : Known(r, 0)
    BY <2>2, <2>4 DEF Known
  <2>6. QED
    BY <2>1, <2>2, <2>3, <2>5 DEF Init, HintInv
<1>2. HintInv /\ [Next]_vars => HintInv'
  <2>1. SUFFICES ASSUME HintInv, [Next]_vars PROVE HintInv'
    OBVIOUS
  <2>2. Len(files) \in Nat /\ at \in Nat \ {0}
    BY <2>1, FilesNumbered DEF HintInv
  <2>3. CASE ProfileFile
    BY <2>1, <2>3, ProfileFileHint
  <2>4. CASE FilesProfiled
    <3>1. at = Len(files) + 1
      BY <2>1, <2>2, <2>4 DEF FilesProfiled, HintInv
    <3>2. Looked = Len(files) /\ Looked' = Len(files)
      BY <2>2, <2>4, <3>1 DEF FilesProfiled, Looked, files
    <3>3. QED
      BY <2>1, <2>4, <3>2, OtherStepsHint DEF FilesProfiled, profile
  <2>5. CASE ProfileDependency
    <3>1. Looked' = Looked /\ at' \in Nat \ {0}
      BY <2>2, <2>5 DEF ProfileDependency, Looked, files
    <3>2. QED
      BY <2>1, <2>5, <3>1, OtherStepsHint DEF ProfileDependency
  <2>6. CASE DependenciesProfiled
    <3>1. Looked' = Looked
      BY <2>6 DEF DependenciesProfiled, Looked, files
    <3>2. QED
      BY <2>1, <2>6, <3>1, OtherStepsHint DEF DependenciesProfiled, profile
  <2>7. CASE AnnotateFinding
    <3>1. Looked' = Looked /\ at' \in Nat \ {0}
      BY <2>2, <2>7 DEF AnnotateFinding, Looked, files, profile
    <3>2. QED
      BY <2>1, <2>7, <3>1, OtherStepsHint DEF AnnotateFinding, profile
  <2>8. CASE Annotated
    <3>1. Looked' = Looked
      BY <2>8 DEF Annotated, Looked, files
    <3>2. QED
      BY <2>1, <2>8, <3>1, OtherStepsHint DEF Annotated, profile
  <2>9. CASE UNCHANGED vars
    <3>1. /\ input' = input /\ versions' = versions /\ at' = at /\ phase' = phase
      BY <2>9 DEF vars, profile
    <3>2. Looked' = Looked
      BY <3>1 DEF Looked, files
    <3>3. QED
      BY <2>1, <2>2, <3>1, <3>2, OtherStepsHint DEF HintInv
  <2>10. QED
    BY <2>1, <2>3, <2>4, <2>5, <2>6, <2>7, <2>8, <2>9 DEF Next, Terminated
<1>3. QED
  BY <1>1, <1>2, PTL DEF Spec

\* The version believed of a runtime is that of the first file that states one,
\* and one is believed if any file states one (RuntimeProfile::from_repository).
THEOREM FirstHintTheorem == Spec => []FirstHintKept
<1>1. HintInv => FirstHintKept
  <2>1. SUFFICES ASSUME HintInv, phase # "files", NEW r \in Runtime
        PROVE  /\ Stating(r) = {} => versions[r] = None
               /\ \A i \in Stating(r) :
                    (\A j \in Stating(r) : i <= j) => versions[r] = Hint(files[i])
    BY DEF FirstHintKept
  <2>2. Len(files) \in Nat /\ \A i \in Stating(r) : i \in 1..Len(files)
    BY <2>1, FilesNumbered DEF HintInv, Stating
  <2>3. Known(r, Len(files))
    BY <2>1 DEF HintInv, Looked
  <2>4. CASE versions[r] = None /\ \A i \in Stating(r) : i > Len(files)
    BY <2>2, <2>4
  <2>5. CASE \E m \in Stating(r) : /\ m <= Len(files) /\ \A j \in Stating(r) : m <= j
                                   /\ versions[r] = Hint(files[m])
    <3>1. PICK m \in Stating(r) : /\ \A j \in Stating(r) : m <= j
                                  /\ versions[r] = Hint(files[m])
      BY <2>5
    <3>2. ASSUME NEW i \in Stating(r), \A j \in Stating(r) : i <= j
          PROVE  versions[r] = Hint(files[i])
      <4>1. i = m
        BY <2>2, <3>1, <3>2
      <4>2. QED
        BY <3>1, <4>1
    <3>3. QED
      BY <3>1, <3>2
  <2>6. QED
    BY <2>3, <2>4, <2>5 DEF Known
<1>2. QED
  BY <1>1, HintInvariance, PTL
-----------------------------------------------------------------------------
\* Which ids a list of actions has.
Ids(s) == {s[i].id : i \in DOMAIN s}

JavaIds == {"java.jca-ml-dsa-ml-kem", "java.runtime-upgrade-for-pqc", "java.bouncycastle-pqc"}

\* The ids of the other advice.
OtherIds ==
    {"k8s.pqc-signature-readiness-note", "nginx.pqc-signature-readiness-note",
     "envoy.pqc-signature-readiness-note", "istio.pqc-signature-readiness-note",
     "haproxy.pqc-signature-readiness-note", "traefik.pqc-signature-readiness-note",
     "jwt.remove-rsa-algorithms", "node.webcrypto.pqc", "go.hybrid-kem",
     "python.signing-gateway", "rust.oqs-integration", "ruby.crypto-service-boundary",
     "tls.remove-rsa-kex", "pki.hybrid-certificate-roadmap", "cryptoapi.abstraction-layer",
     "incident.private-key-rotation", "plan.hybrid-migration", "dependency.track-pqc-readiness"}

Priority == {"immediate", "near-term", "planned", "advisory"}
Action == [id : JavaIds \cup HardeningIds \cup OtherIds, priority : Priority]

\* s has the ids I and otherwise none for Java or for hardening.
Gives(s, I) == s \in Seq(Action) /\ Ids(s) \cap (JavaIds \cup HardeningIds) = I

\* The actions that harden a middleware, by their ids.
LEMMA HardeningIdsAre ==
    HardeningIds = {"tls.nginx-hardening", "tls.httpd-hardening", "tls.envoy-hardening",
                    "tls.istio-hardening", "tls.k8s-ingress-hardening"}
<1>1. /\ DOMAIN Hardening = 1..5
      /\ Hardening[1].id = "tls.nginx-hardening" /\ Hardening[2].id = "tls.httpd-hardening"
      /\ Hardening[3].id = "tls.envoy-hardening" /\ Hardening[4].id = "tls.istio-hardening"
      /\ Hardening[5].id = "tls.k8s-ingress-hardening"
  BY DEF Hardening
<1>2. QED
  BY <1>1 DEF HardeningIds

\* No other advice is on Java or on hardening.
LEMMA OtherIdsApart == OtherIds \cap (JavaIds \cup HardeningIds) = {}
BY HardeningIdsAre DEF OtherIds, JavaIds

\* An offer is one action or none.
LEMMA OneOffer ==
    ASSUME NEW c, NEW id \in JavaIds \cup HardeningIds \cup OtherIds, NEW p \in Priority
    PROVE  Offer(c, id, p) \in Seq(Action) /\ Ids(Offer(c, id, p)) = IF c THEN {id} ELSE {}
<1>1. CASE c
  <2>1. Offer(c, id, p) = <<[id |-> id, priority |-> p]>>
    BY <1>1 DEF Offer
  <2>2. <<[id |-> id, priority |-> p]>> \in Seq(Action)
    BY DEF Action
  <2>3. Ids(<<[id |-> id, priority |-> p]>>) = {id}
    BY DEF Ids
  <2>4. QED
    BY <1>1, <2>1, <2>2, <2>3
<1>2. CASE ~c
  <2>1. Offer(c, id, p) = << >>
    BY <1>2 DEF Offer
  <2>2. << >> \in Seq(Action) /\ Ids(<< >>) = {}
    BY DEF Ids
  <2>3. QED
    BY <1>2, <2>1, <2>2
<1>3. QED
  BY <1>1, <1>2

\* An offer of other advice.
LEMMA OtherOffer ==
    ASSUME NEW c, NEW id \in OtherIds, NEW p \in Priority PROVE Gives(Offer(c, id, p), {})
<1>1. PICK s : s = Offer(c, id, p)
  OBVIOUS
<1>2. s \in Seq(Action) /\ Ids(s) = IF c THEN {id} ELSE {}
  BY <1>1, OneOffer
<1>3. {id} \cap (JavaIds \cup HardeningIds) = {}
  BY OtherIdsApart
<1>4. Ids(s) \cap (JavaIds \cup HardeningIds) = {}
  BY <1>2, <1>3
<1>5. QED
  BY <1>1, <1>2, <1>4 DEF Gives

\* An offer of advice on Java or on hardening.
LEMMA OwnOffer ==
    ASSUME NEW c, NEW id \in JavaIds \cup HardeningIds, NEW p \in Priority
    PROVE  Gives(Offer(c, id, p), IF c THEN {id} ELSE {})
BY OneOffer DEF Gives

\* Two lists of actions, one behind the other.
LEMMA BothGive ==
    ASSUME NEW s, NEW t, NEW I, NEW J, Gives(s, I), Gives(t, J)
    PROVE  Gives(s \o t, I \cup J)
<1>1. /\ s \o t \in Seq(Action) /\ Len(s \o t) = Len(s) + Len(t)
      /\ s \in Seq(Action) /\ t \in Seq(Action)
      /\ \A i \in 1..(Len(s) + Len(t)) : (s \o t)[i] = IF i <= Len(s) THEN s[i] ELSE t[i - Len(s)]
  BY DEF Gives
<1>2. PICK r, m, n : r = s \o t /\ m = Len(s) /\ n = Len(t)
  OBVIOUS
<1>3. /\ m \in Nat /\ n \in Nat /\ DOMAIN s = 1..m /\ DOMAIN t = 1..n /\ DOMAIN r = 1..(m + n)
      /\ \A i \in 1..m : r[i] = s[i]
      /\ \A i \in 1..n : r[m + i] = t[i]
  BY <1>1, <1>2
<1>4. ASSUME NEW x \in Ids(r) PROVE x \in Ids(s) \cup Ids(t)
  <2>1. PICK i \in 1..(m + n) : x = r[i].id
    BY <1>3 DEF Ids
  <2>2. CASE i <= m
    BY <1>3, <2>1, <2>2 DEF Ids
  <2>3. CASE i > m
    <3>1. i - m \in 1..n /\ i = m + (i - m)
      BY <1>3, <2>1, <2>3
    <3>2. x = t[i - m].id
      BY <1>3, <2>1, <3>1
    <3>3. QED
      BY <1>3, <3>1, <3>2 DEF Ids
  <2>4. QED
    BY <1>3, <2>1, <2>2, <2>3
<1>5. ASSUME NEW x \in Ids(s) \cup Ids(t) PROVE x \in Ids(r)
  <2>1. CASE x \in Ids(s)
    BY <1>3, <2>1 DEF Ids
  <2>2. CASE x \in Ids(t)
    <3>1. PICK i \in 1..n : x = t[i].id
      BY <1>3, <2>2 DEF Ids
    <3>2. m + i \in DOMAIN r /\ x = r[m + i].id
      BY <1>3, <3>1
    <3>3. QED
      BY <3>2 DEF Ids
  <2>3. QED
    BY <1>5, <2>1, <2>2
<1>6. Ids(r) = Ids(s) \cup Ids(t)
  BY <1>4, <1>5
<1>7. QED
  BY <1>1, <1>2, <1>6 DEF Gives

\* push_action keeps every id that was offered.
LEMMA PushedIds == ASSUME NEW s, NEW I, Gives(s, I) PROVE Gives(push_actions(s), I)
<1>1. s \in Seq(Action)
  BY DEF Gives
<1>2. PICK K, r : K = [i \in DOMAIN s |-> s[i].id] /\ r = push_actions(s)
  OBVIOUS
<1>3. r = Picked(s, FirstsOf(K))
  <2> DEFINE first(t) == {i \in DOMAIN t : \A j \in 1..(i - 1) : t[j].id # t[i].id}
             keep(t) == Picked(t, first(t))
  <2>1. first(s) = FirstsOf(K)
    <3>1. \A i \in DOMAIN s : \A j \in 1..(i - 1) : j \in DOMAIN s
      BY <1>1
    <3>2. QED
      BY <1>2, <3>1 DEF FirstsOf
  <2>2. keep(s) = Picked(s, FirstsOf(K))
    BY <2>1
  <2>3. r = CHOOSE x \in {keep(t) : t \in {s}} : TRUE
    BY <1>2 DEF push_actions, KeepFirst, Once
  <2> HIDE DEF keep
  <2>4. {keep(t) : t \in {s}} = {keep(s)}
    OBVIOUS
  <2>5. QED
    BY <2>2, <2>3, <2>4
<1>4. DOMAIN K = DOMAIN s
  BY <1>2
<1>5. PICK M : r \in Seq(Action) /\ KeptFrom(s, K, r, M)
  BY <1>1, <1>3, <1>4, KeptKeys
<1>6. \A k \in DOMAIN r : M[k] \in DOMAIN s /\ r[k] = s[M[k]] /\ r[k].id = K[M[k]]
  BY <1>2, <1>5 DEF KeptFrom
<1>7. ASSUME NEW x \in Ids(s) PROVE x \in Ids(r)
  <2>1. PICK i \in DOMAIN s : x = K[i]
    BY <1>2 DEF Ids
  <2>2. PICK k \in DOMAIN r : K[M[k]] = K[i]
    BY <1>5, <2>1 DEF KeptFrom
  <2>3. QED
    BY <1>6, <2>1, <2>2 DEF Ids
<1>8. \A k \in DOMAIN r : r[k].id \in Ids(s)
  BY <1>6 DEF Ids
<1>9. Ids(r) = Ids(s)
  BY <1>7, <1>8 DEF Ids
<1>10. QED
  BY <1>2, <1>5, <1>9 DEF Gives

\* The advice for Java, and on hardening, given this profile.
JavaGiven ==
    (IF Java24 THEN {"java.jca-ml-dsa-ml-kem"} ELSE {"java.runtime-upgrade-for-pqc"})
    \cup (IF "java-bouncycastle" \in signals \/ ~Java24 THEN {"java.bouncycastle-pqc"} ELSE {})

HardeningGiven(finding) ==
    {Hardening[h].id : h \in {h \in 1..5 : \/ Hardening[h].word \in WordsAt(finding)
                                          \/ Hardening[h].target \in targets}}

JavaFinding(finding) ==
    finding.category \in {"jwt", "cryptoapi"} /\ detect_language(finding) = "java"

\* The notes on middleware are about neither.
LEMMA NotesGive ==
    ASSUME NEW finding PROVE Gives(add_middleware_pqc_signature_notes(finding), {})
<1> DEFINE note(t, id) == Offer(t \in NoteTargets(finding), id, "advisory")
<1>1. PICK a, b, c, d, e, f :
        /\ a = note("k8s", "k8s.pqc-signature-readiness-note")
        /\ b = note("nginx", "nginx.pqc-signature-readiness-note")
        /\ c = note("envoy", "envoy.pqc-signature-readiness-note")
        /\ d = note("istio", "istio.pqc-signature-readiness-note")
        /\ e = note("haproxy", "haproxy.pqc-signature-readiness-note")
        /\ f = note("traefik", "traefik.pqc-signature-readiness-note")
  OBVIOUS
<1>2. /\ Gives(a, {}) /\ Gives(b, {}) /\ Gives(c, {})
      /\ Gives(d, {}) /\ Gives(e, {}) /\ Gives(f, {})
  BY <1>1, OtherOffer DEF OtherIds, Priority
<1>3. Gives(a \o b, {})
  BY <1>2, BothGive
<1>4. Gives(a \o b \o c, {})
  BY <1>2, <1>3, BothGive
<1>5. Gives(a \o b \o c \o d, {})
  BY <1>2, <1>4, BothGive
<1>6. Gives(a \o b \o c \o d \o e, {})
  BY <1>2, <1>5, BothGive
<1>7. Gives(a \o b \o c \o d \o e \o f, {})
  BY <1>2, <1>6, BothGive
<1>8. add_middleware_pqc_signature_notes(finding) = a \o b \o c \o d \o e \o f
  BY <1>1 DEF add_middleware_pqc_signature_notes
<1>9. QED
  BY <1>7, <1>8

\* What is advised on Java depends on its version and on Bouncy Castle.
LEMMA JavaGives == Gives(add_java_actions, JavaGiven)
<1>1. PICK a, b, c :
        /\ a = Offer(Java24, "java.jca-ml-dsa-ml-kem", "near-term")
        /\ b = Offer(~Java24, "java.runtime-upgrade-for-pqc", "planned")
        /\ c = Offer("java-bouncycastle" \in signals \/ ~Java24, "java.bouncycastle-pqc", "near-term")
  OBVIOUS
<1>2. /\ Gives(a, IF Java24 THEN {"java.jca-ml-dsa-ml-kem"} ELSE {})
      /\ Gives(b, IF ~Java24 THEN {"java.runtime-upgrade-for-pqc"} ELSE {})
      /\ Gives(c, IF "java-bouncycastle" \in signals \/ ~Java24
                  THEN {"java.bouncycastle-pqc"} ELSE {})
  BY <1>1, OwnOffer DEF JavaIds, Priority
<1>3. PICK A, B, C :
        /\ A = IF Java24 THEN {"java.jca-ml-dsa-ml-kem"} ELSE {}
        /\ B = IF ~Java24 THEN {"java.runtime-upgrade-for-pqc"} ELSE {}
        /\ C = IF "java-bouncycastle" \in signals \/ ~Java24 THEN {"java.bouncycastle-pqc"} ELSE {}
  OBVIOUS
<1>4. Gives(a, A) /\ Gives(b, B) /\ Gives(c, C)
  BY <1>2, <1>3
<1>5. Gives(a \o b, A \cup B)
  BY <1>4, BothGive
<1>6. Gives(a \o b \o c, A \cup B \cup C)
  BY <1>4, <1>5, BothGive
<1>7. A \cup B \cup C = JavaGiven
  BY <1>3 DEF JavaGiven
<1>8. add_java_actions = a \o b \o c
  BY <1>1 DEF add_java_actions
<1>9. QED
  BY <1>6, <1>7, <1>8

\* The advice on tokens is that on Java where the finding's language is Java.
LEMMA JwtGives ==
    ASSUME NEW language
    PROVE  Gives(add_jwt_actions(language), IF language = "java" THEN JavaGiven ELSE {})
<1>1. PICK a, b, I :
        /\ a = Offer(TRUE, "jwt.remove-rsa-algorithms", "near-term")
        /\ b = CASE language = "java" -> add_java_actions
                 [] language \in {"javascript", "typescript"} ->
                      Offer(TRUE, "node.webcrypto.pqc",
                            IF version_at_least(versions["node"], 24) THEN "near-term" ELSE "planned")
                 [] language = "go" -> Offer(TRUE, "go.hybrid-kem", "near-term")
                 [] language = "python" -> Offer(TRUE, "python.signing-gateway", "planned")
                 [] language = "rust" -> Offer(TRUE, "rust.oqs-integration", "near-term")
                 [] language = "ruby" -> Offer(TRUE, "ruby.crypto-service-boundary", "planned")
                 [] OTHER -> << >>
        /\ I = IF language = "java" THEN JavaGiven ELSE {}
  OBVIOUS
<1>2. Gives(a, {})
  BY <1>1, OtherOffer DEF OtherIds, Priority
<1>3. Gives(b, I)
  <2>1. CASE language = "java"
    BY <1>1, <2>1, JavaGives
  <2>2. CASE language \in {"javascript", "typescript"}
    <3>1. PICK p : p = IF version_at_least(versions["node"], 24) THEN "near-term" ELSE "planned"
      OBVIOUS
    <3>2. p \in Priority
      BY <3>1 DEF Priority
    <3>3. b = Offer(TRUE, "node.webcrypto.pqc", p)
      BY <1>1, <2>2, <3>1
    <3>4. I = {}
      BY <1>1, <2>2
    <3>5. QED
      BY <3>2, <3>3, <3>4, OtherOffer DEF OtherIds
  <2>3. CASE language \in {"go", "python", "rust", "ruby"}
    <3>1. I = {}
      BY <1>1, <2>3
    <3>2. CASE language = "go"
      <4>1. b = Offer(TRUE, "go.hybrid-kem", "near-term")
        BY <1>1, <3>2
      <4>2. QED
        BY <3>1, <4>1, OtherOffer DEF OtherIds, Priority
    <3>3. CASE language = "python"
      <4>1. b = Offer(TRUE, "python.signing-gateway", "planned")
        BY <1>1, <3>3
      <4>2. QED
        BY <3>1, <4>1, OtherOffer DEF OtherIds, Priority
    <3>4. CASE language = "rust"
      <4>1. b = Offer(TRUE, "rust.oqs-integration", "near-term")
        BY <1>1, <3>4
      <4>2. QED
        BY <3>1, <4>1, OtherOffer DEF OtherIds, Priority
    <3>5. CASE language = "ruby"
      <4>1. b = Offer(TRUE, "ruby.crypto-service-boundary", "planned")
        BY <1>1, <3>5
      <4>2. QED
        BY <3>1, <4>1, OtherOffer DEF OtherIds, Priority
    <3>6. QED
      BY <2>3, <3>2, <3>3, <3>4, <3>5
  <2>4. CASE language \notin {"java", "javascript", "typescript", "go", "python", "rust", "ruby"}
    <3>1. b = << >> /\ I = {}
      BY <1>1, <2>4
    <3>2. QED
      BY <3>1 DEF Gives, Ids
  <2>5. QED
    BY <2>1, <2>2, <2>3, <2>4
<1>4. Gives(a \o b, I)
  BY <1>2, <1>3, BothGive
<1>5. add_jwt_actions(language) = a \o b
  BY <1>1 DEF add_jwt_actions
<1>6. QED
  BY <1>1, <1>4, <1>5

\* What is to be hardened is what the finding's path or the profile names.
LEMMA TlsGives ==
    ASSUME NEW finding PROVE Gives(add_tls_actions(finding), HardeningGiven(finding))
<1> DEFINE wanted(h) == Hardening[h].word \in WordsAt(finding) \/ Hardening[h].target \in targets
           given(h) == IF wanted(h) THEN {Hardening[h].id} ELSE {}
<1>1. PICK a, o : /\ a = Offer(TRUE, "tls.remove-rsa-kex", "near-term")
                  /\ o = [h \in 1..5 |-> Offer(wanted(h), Hardening[h].id, "near-term")]
  OBVIOUS
<1>2. Gives(a, {})
  BY <1>1, OtherOffer DEF OtherIds, Priority
<1>3. ASSUME NEW h \in 1..5 PROVE Gives(o[h], given(h))
  <2>1. Hardening[h].id \in HardeningIds /\ "near-term" \in Priority
    BY DEF Hardening, HardeningIds, Priority
  <2>2. o[h] = Offer(wanted(h), Hardening[h].id, "near-term")
    BY <1>1
  <2>3. PICK c, id : c = wanted(h) /\ id = Hardening[h].id
    OBVIOUS
  <2>4. Gives(Offer(c, id, "near-term"), IF c THEN {id} ELSE {})
    BY <2>1, <2>3, OwnOffer
  <2>5. QED
    BY <2>2, <2>3, <2>4
<1>4. PICK G : G = [h \in 1..5 |-> given(h)]
  OBVIOUS
<1>5. /\ Gives(o[1], G[1]) /\ Gives(o[2], G[2]) /\ Gives(o[3], G[3])
      /\ Gives(o[4], G[4]) /\ Gives(o[5], G[5])
  BY <1>3, <1>4
<1>6. Gives(a \o o[1], G[1])
  BY <1>2, <1>5, BothGive
<1>7. Gives(a \o o[1] \o o[2], G[1] \cup G[2])
  BY <1>5, <1>6, BothGive
<1>8. Gives(a \o o[1] \o o[2] \o o[3], G[1] \cup G[2] \cup G[3])
  BY <1>5, <1>7, BothGive
<1>9. Gives(a \o o[1] \o o[2] \o o[3] \o o[4], G[1] \cup G[2] \cup G[3] \cup G[4])
  BY <1>5, <1>8, BothGive
<1>10. Gives(a \o o[1] \o o[2] \o o[3] \o o[4] \o o[5],
             G[1] \cup G[2] \cup G[3] \cup G[4] \cup G[5])
  BY <1>5, <1>9, BothGive
<1>11. G[1] \cup G[2] \cup G[3] \cup G[4] \cup G[5] = HardeningGiven(finding)
  BY <1>4 DEF HardeningGiven
<1>12. add_tls_actions(finding) = a \o o[1] \o o[2] \o o[3] \o o[4] \o o[5]
  <2>1. /\ o[1] = Offer(wanted(1), Hardening[1].id, "near-term")
        /\ o[2] = Offer(wanted(2), Hardening[2].id, "near-term")
        /\ o[3] = Offer(wanted(3), Hardening[3].id, "near-term")
        /\ o[4] = Offer(wanted(4), Hardening[4].id, "near-term")
        /\ o[5] = Offer(wanted(5), Hardening[5].id, "near-term")
    BY <1>1
  <2>2. QED
    BY <1>1, <2>1 DEF add_tls_actions
<1>13. QED
  BY <1>10, <1>11, <1>12

\* What a finding is told on Java and on hardening.
LEMMA RecommendedIds ==
    ASSUME NEW finding
    PROVE  Gives(recommend_for_finding(finding),
                 IF JavaFinding(finding) THEN JavaGiven
                 ELSE IF finding.category = "tls" THEN HardeningGiven(finding) ELSE {})
<1>1. PICK I : I = IF JavaFinding(finding) THEN JavaGiven
                   ELSE IF finding.category = "tls" THEN HardeningGiven(finding) ELSE {}
  OBVIOUS
<1>2. Gives(add_category_actions(finding), I)
  <2>1. CASE finding.category = "jwt"
    BY <1>1, <2>1, JwtGives DEF add_category_actions, JavaFinding
  <2>2. CASE finding.category = "tls"
    BY <1>1, <2>2, TlsGives DEF add_category_actions, JavaFinding
  <2>3. CASE finding.category = "pki"
    <3>1. add_category_actions(finding) = Offer(TRUE, "pki.hybrid-certificate-roadmap", "near-term")
      BY <2>3 DEF add_category_actions, add_pki_actions
    <3>2. I = {}
      BY <1>1, <2>3 DEF JavaFinding
    <3>3. QED
      BY <3>1, <3>2, OtherOffer DEF OtherIds, Priority
  <2>4. CASE finding.category = "cryptoapi"
    <3>1. add_category_actions(finding) = add_crypto_api_actions(detect_language(finding))
      BY <2>4 DEF add_category_actions
    <3>2. CASE detect_language(finding) = "java"
      BY <1>1, <2>4, <3>1, <3>2, JavaGives DEF add_crypto_api_actions, JavaFinding
    <3>3. CASE detect_language(finding) # "java"
      <4>1. I = {} /\ add_category_actions(finding)
                       = Offer(TRUE, "cryptoapi.abstraction-layer", "near-term")
        BY <1>1, <2>4, <3>1, <3>3 DEF add_crypto_api_actions, JavaFinding
      <4>2. QED
        BY <4>1, OtherOffer DEF OtherIds, Priority
    <3>4. QED
      BY <3>2, <3>3
  <2>5. CASE finding.category \notin {"jwt", "tls", "pki", "cryptoapi"}
    <3>1. add_category_actions(finding) = << >> /\ I = {}
      BY <1>1, <2>5 DEF add_category_actions, JavaFinding
    <3>2. QED
      BY <3>1 DEF Gives, Ids
  <2>6. QED
    BY <2>1, <2>2, <2>3, <2>4, <2>5
<1>3. PICK a, b, c, d, e :
        /\ a = add_middleware_pqc_signature_notes(finding)
        /\ b = Offer(finding.kind = "private_key", "incident.private-key-rotation", "immediate")
        /\ c = Offer(finding.risk = "quantum-vulnerable", "plan.hybrid-migration", "near-term")
        /\ d = add_category_actions(finding)
        /\ e = Offer(finding.prefix = "dep", "dependency.track-pqc-readiness", "planned")
  OBVIOUS
<1>4. Gives(a, {}) /\ Gives(b, {}) /\ Gives(c, {}) /\ Gives(d, I) /\ Gives(e, {})
  BY <1>2, <1>3, NotesGive, OtherOffer DEF OtherIds, Priority
<1>5. Gives(a \o b, {})
  BY <1>4, BothGive
<1>6. Gives(a \o b \o c, {})
  BY <1>4, <1>5, BothGive
<1>7. Gives(a \o b \o c \o d, I)
  BY <1>4, <1>6, BothGive
<1>8. Gives(a \o b \o c \o d \o e, I)
  BY <1>4, <1>7, BothGive
<1>9. recommend_for_finding(finding) = push_actions(a \o b \o c \o d \o e)
  BY <1>3 DEF recommend_for_finding
<1>10. QED
  BY <1>1, <1>8, <1>9, PushedIds
-----------------------------------------------------------------------------
\* What is left of a hint is a hint.
LEMMA NormalizedHint ==
    ASSUME NEW hint \in Seq(Int) PROVE normalize_version_hint(hint) \in Seq(Int)
<1>1. PICK kept : kept = {i \in DOMAIN hint : hint[i] # Quote}
  OBVIOUS
<1>2. Len(hint) \in Nat /\ kept \in SUBSET (1..Len(hint))
  BY <1>1
<1>3. CASE kept = {}
  <2>1. normalize_version_hint(hint) = << >>
    BY <1>1, <1>3 DEF normalize_version_hint
  <2>2. QED
    BY <2>1
<1>4. CASE kept # {}
  <2>1. PICK a, b : /\ a = CHOOSE i \in kept : \A j \in kept : i <= j
                    /\ b = CHOOSE i \in kept : \A j \in kept : i >= j
    OBVIOUS
  <2>2. \E i \in kept : \A j \in kept : i <= j
    <3>1. kept \in SUBSET Nat
      BY <1>2
    <3>2. QED
      BY <1>4, <3>1, LeastNumber
  <2>3. \E i \in kept : \A j \in kept : i >= j
    BY <1>2, <1>4, GreatestNumber
  <2>4. a \in kept /\ b \in kept
    BY <2>1, <2>2, <2>3
  <2>5. a \in 1..Len(hint) /\ b \in 1..Len(hint)
    BY <1>2, <2>4
  <2>6. SubSeq(hint, a, b) \in Seq(Int)
    BY <2>5
  <2>7. normalize_version_hint(hint) = SubSeq(hint, a, b)
    BY <1>1, <1>4, <2>1 DEF normalize_version_hint
  <2>8. QED
    BY <2>6, <2>7
<1>5. QED
  BY <1>3, <1>4

\* The number of a hint is one that u32 holds.
LEMMA NumberInRange ==
    ASSUME NEW hint \in Seq(Int) PROVE first_number(hint) \in 0..U32Max
<1>1. PICK numbers : numbers = {i \in DOMAIN hint : hint[i] \in Nat}
  OBVIOUS
<1>2. CASE numbers = {}
  <2>1. first_number(hint) = 0
    BY <1>1, <1>2 DEF first_number
  <2>2. QED
    BY <2>1, AdviceAssumption
<1>3. CASE numbers # {}
  <2>1. PICK a : a = CHOOSE i \in numbers : \A j \in numbers : i <= j
    OBVIOUS
  <2>2. numbers \in SUBSET Nat
    BY <1>1
  <2>3. a \in numbers
    BY <1>3, <2>1, <2>2, LeastNumber
  <2>4. hint[a] \in Nat
    BY <1>1, <2>3
  <2>5. first_number(hint) = IF hint[a] > U32Max THEN 0 ELSE hint[a]
    BY <1>1, <1>3, <2>1 DEF first_number
  <2>6. QED
    BY <2>4, <2>5, AdviceAssumption
<1>4. QED
  BY <1>2, <1>3

\* The wordings a file of a runtime is searched for are numbered.
LEMMA WordingsNumbered ==
    ASSUME NEW name \in RuntimeFile PROVE DOMAIN Wordings[name] \in SUBSET Nat
BY DEF RuntimeFile, Wordings

\* What a file states is a hint.
LEMMA HintIsHint ==
    ASSUME input \in Inputs, NEW i \in DOMAIN files, Hint(files[i]) # None
    PROVE  Hint(files[i]) \in Seq(Int)
<1>1. PICK name, text : name = files[i].name /\ text = files[i].text
  OBVIOUS
<1>2. /\ Len(text) \in Nat /\ DOMAIN text = 1..Len(text)
      /\ \A j \in DOMAIN text : text[j].hint \in Seq(Int)
  BY <1>1, AdviceAssumption DEF files
<1>3. name \in RuntimeFile /\ Hint(files[i]) = Stated(name, text)
  BY <1>1 DEF Hint
<1>4. PICK L : L = [p \in DOMAIN Wordings[name] |->
                      {k \in DOMAIN text : text[k].wording \in Wordings[name][p]}]
  OBVIOUS
<1>5. PICK found : found = {p \in DOMAIN Wordings[name] : L[p] # {}}
  OBVIOUS
<1>6. PICK first : first = [p \in DOMAIN Wordings[name] |->
                              CHOOSE k \in L[p] : \A j \in L[p] : k <= j]
  OBVIOUS
<1>7. PICK q : q = CHOOSE p \in found : \A r \in found : p <= r
  OBVIOUS
<1>8. found # {} /\ Stated(name, text) = normalize_version_hint(text[first[q]].hint)
  <2> DEFINE lines(p) == {k \in DOMAIN text : text[k].wording \in Wordings[name][p]}
             known == {p \in DOMAIN Wordings[name] : lines(p) # {}}
             at_(p) == CHOOSE k \in lines(p) : \A j \in lines(p) : k <= j
             r == CHOOSE p \in known : \A j \in known : p <= j
  <2>1. Stated(name, text) = IF known = {} THEN None
                             ELSE normalize_version_hint(text[at_(r)].hint)
    BY DEF Stated
  <2>2. \A p \in DOMAIN Wordings[name] : L[p] = lines(p)
    BY <1>4
  <2>3. known = found
    BY <1>5, <2>2
  <2>4. r = q
    BY <1>7, <2>3
  <2>5. found # {}
    BY <1>3, <2>1, <2>3
  <2>6. q \in found
    <3>1. found \in SUBSET Nat
      BY <1>3, <1>5, WordingsNumbered
    <3>2. QED
      BY <1>7, <2>5, <3>1, LeastNumber
  <2>7. L[q] = lines(q) /\ q \in DOMAIN Wordings[name]
    BY <1>5, <2>2, <2>6
  <2>8. first[q] = at_(q)
    BY <1>6, <2>7
  <2>9. QED
    BY <2>1, <2>3, <2>4, <2>5, <2>8
<1>9. q \in found
  <2>1. found \in SUBSET Nat
    BY <1>3, <1>5, WordingsNumbered
  <2>2. QED
    BY <1>7, <1>8, <2>1, LeastNumber
<1>10. first[q] \in L[q]
  <2>1. L[q] \in SUBSET Nat /\ L[q] # {} /\ q \in DOMAIN Wordings[name]
    BY <1>2, <1>4, <1>5, <1>9
  <2>2. \E k \in L[q] : \A j \in L[q] : k <= j
    BY <2>1, LeastNumber
  <2>3. QED
    BY <1>6, <2>1, <2>2
<1>11. first[q] \in DOMAIN text
  BY <1>4, <1>5, <1>9, <1>10
<1>12. text[first[q]].hint \in Seq(Int)
  BY <1>2, <1>11
<1>13. QED
  BY <1>3, <1>8, <1>12, NormalizedHint
-----------------------------------------------------------------------------
\* How many dependencies the profile has looked at, and how many findings have
\* been annotated.
Asked == IF phase = "files" THEN 0 ELSE IF phase = "dependencies" THEN at - 1
         ELSE Len(dependencies)
Told == IF phase = "annotate" THEN at - 1 ELSE IF phase = "done" THEN Len(findings) ELSE 0

\* The middleware and the libraries known are those of the files and of the
\* dependencies looked at; the advice is that of the profile as it is now, which
\* is the profile of the whole repository while findings are annotated.
ProfileInv ==
    /\ input \in Inputs
    /\ phase \in {"files", "dependencies", "annotate", "done"}
    /\ at \in Nat \ {0}
    /\ phase = "files" => at <= Len(files) + 1
    /\ phase = "dependencies" => at <= Len(dependencies) + 1
    /\ phase = "annotate" => at <= Len(findings) + 1
    /\ phase = "done" => at = 1
    /\ \A t : t \in targets <=> \E i \in 1..Looked : t \in TargetsOf(files[i])
    /\ \A s : s \in signals <=> \E d \in 1..Asked : s \in SignalsOf(dependencies[d])
    /\ advice \in Seq(Seq(Action)) /\ Len(advice) = Told
    /\ \A k \in 1..Told : advice[k] = recommend_for_finding(findings[k])

\* The parts of an input are numbered from one.
LEMMA InputNumbered ==
    ASSUME input \in Inputs
    PROVE  /\ Len(files) \in Nat /\ DOMAIN files = 1..Len(files)
           /\ Len(dependencies) \in Nat /\ DOMAIN dependencies = 1..Len(dependencies)
           /\ Len(findings) \in Nat /\ DOMAIN findings = 1..Len(findings)
           /\ \A k \in DOMAIN findings : findings[k].file \in DOMAIN files
BY AdviceAssumption DEF files, dependencies, findings

\* A file adds the middleware its path names.
LEMMA ProfileFileStep == ASSUME ProfileInv, ProfileFile PROVE ProfileInv'
<1>1. /\ phase = "files" /\ phase' = "files" /\ at' = at + 1 /\ input' = input
      /\ signals' = signals /\ advice' = advice
      /\ at \in 1..Len(files) /\ targets' = targets \cup TargetsOf(files[at])
  BY InputNumbered DEF ProfileInv, ProfileFile, NextTargets
<1>2. files' = files /\ dependencies' = dependencies /\ findings' = findings
  BY <1>1 DEF files, dependencies, findings
<1>3. /\ Looked = at - 1 /\ Looked' = at /\ Asked = 0 /\ Asked' = 0 /\ Told = 0 /\ Told' = 0
  BY <1>1 DEF Looked, Asked, Told, ProfileInv
<1>4. \A t : t \in targets <=> \E i \in 1..(at - 1) : t \in TargetsOf(files[i])
  BY <1>3 DEF ProfileInv
<1>5. ASSUME NEW t PROVE t \in targets' <=> \E i \in 1..at : t \in TargetsOf(files[i])
  <2>1. \A i : i \in 1..at <=> i \in 1..(at - 1) \/ i = at
    BY <1>1
  <2>2. t \in targets' <=> t \in targets \/ t \in TargetsOf(files[at])
    BY <1>1
  <2>3. QED
    BY <1>4, <2>1, <2>2
<1>6. \A t : t \in targets' <=> \E i \in 1..Looked' : t \in TargetsOf(files[i])'
  BY <1>2, <1>3, <1>5 DEF TargetsOf
<1>7. ~(\E s : s \in signals')
  BY <1>1, <1>3 DEF ProfileInv
<1>8. QED
  BY <1>1, <1>2, <1>3, <1>6, <1>7 DEF ProfileInv

\* A dependency adds the libraries its name stands for.
LEMMA ProfileDependencyStep == ASSUME ProfileInv, ProfileDependency PROVE ProfileInv'
<1>1. /\ phase = "dependencies" /\ phase' = "dependencies" /\ at' = at + 1 /\ input' = input
      /\ targets' = targets /\ advice' = advice
      /\ at \in 1..Len(dependencies) /\ signals' = signals \cup SignalsOf(dependencies[at])
  BY InputNumbered DEF ProfileInv, ProfileDependency
<1>2. files' = files /\ dependencies' = dependencies /\ findings' = findings
  BY <1>1 DEF files, dependencies, findings
<1>3. /\ Looked' = Looked /\ Asked = at - 1 /\ Asked' = at /\ Told = 0 /\ Told' = 0
  BY <1>1, <1>2 DEF Looked, Asked, Told, ProfileInv
<1>4. \A s : s \in signals <=> \E d \in 1..(at - 1) : s \in SignalsOf(dependencies[d])
  BY <1>3 DEF ProfileInv
<1>5. ASSUME NEW s PROVE s \in signals' <=> \E d \in 1..at : s \in SignalsOf(dependencies[d])
  <2>1. \A d : d \in 1..at <=> d \in 1..(at - 1) \/ d = at
    BY <1>1
  <2>2. s \in signals' <=> s \in signals \/ s \in SignalsOf(dependencies[at])
    BY <1>1
  <2>3. QED
    BY <1>4, <2>1, <2>2
<1>6. \A s : s \in signals' <=> \E d \in 1..Asked' : s \in SignalsOf(dependencies[d])'
  BY <1>2, <1>3, <1>5 DEF SignalsOf
<1>7. \A t : t \in targets' <=> \E i \in 1..Looked' : t \in TargetsOf(files[i])'
  BY <1>1, <1>2, <1>3 DEF ProfileInv, TargetsOf
<1>8. QED
  BY <1>1, <1>2, <1>3, <1>6, <1>7 DEF ProfileInv

\* What a finding is told depends on the input and on the profile only.
LEMMA AdviceKept ==
    ASSUME NEW finding, UNCHANGED <<input, profile>>
    PROVE  recommend_for_finding(finding)' = recommend_for_finding(finding)
<1>1. /\ input' = input /\ versions' = versions /\ targets' = targets /\ signals' = signals
      /\ files' = files
  BY DEF profile, files
<1>2. Java24' = Java24 /\ detect_language(finding)' = detect_language(finding)
  BY <1>1 DEF Java24, detect_language
<1>3. add_java_actions' = add_java_actions
  BY <1>1, <1>2 DEF add_java_actions
<1>4. /\ add_middleware_pqc_signature_notes(finding)' = add_middleware_pqc_signature_notes(finding)
      /\ add_tls_actions(finding)' = add_tls_actions(finding)
  BY <1>1 DEF add_middleware_pqc_signature_notes, add_tls_actions, NoteTargets, WordsAt
<1>5. /\ add_jwt_actions(detect_language(finding))' = add_jwt_actions(detect_language(finding))
      /\ add_crypto_api_actions(detect_language(finding))'
           = add_crypto_api_actions(detect_language(finding))
  BY <1>1, <1>2, <1>3 DEF add_jwt_actions, add_crypto_api_actions
<1>6. add_category_actions(finding)' = add_category_actions(finding)
  BY <1>4, <1>5 DEF add_category_actions
<1>7. QED
  BY <1>4, <1>6 DEF recommend_for_finding

\* A step that leaves the profile alone and annotates nothing.
LEMMA ProfileKept ==
    ASSUME ProfileInv, UNCHANGED <<input, profile, advice>>,
           Looked' = Looked, Asked' = Asked, Told' = Told,
           phase' \in {"files", "dependencies", "annotate", "done"}, at' \in Nat \ {0},
           phase' = "files" => at' <= Len(files) + 1,
           phase' = "dependencies" => at' <= Len(dependencies) + 1,
           phase' = "annotate" => at' <= Len(findings) + 1,
           phase' = "done" => at' = 1
    PROVE  ProfileInv'
<1>1. /\ input' = input /\ targets' = targets /\ signals' = signals /\ advice' = advice
      /\ files' = files /\ dependencies' = dependencies /\ findings' = findings
  BY DEF profile, files, dependencies, findings
<1>2. \A t : t \in targets' <=> \E i \in 1..Looked' : t \in TargetsOf(files[i])'
  BY <1>1 DEF ProfileInv, TargetsOf
<1>3. \A s : s \in signals' <=> \E d \in 1..Asked' : s \in SignalsOf(dependencies[d])'
  BY <1>1 DEF ProfileInv, SignalsOf
<1>4. \A k \in 1..Told' : advice'[k] = recommend_for_finding(findings[k])'
  BY <1>1, AdviceKept DEF ProfileInv
<1>5. QED
  BY <1>1, <1>2, <1>3, <1>4 DEF ProfileInv

\* A finding is annotated with the advice of this profile.
LEMMA AnnotateFindingStep == ASSUME ProfileInv, AnnotateFinding PROVE ProfileInv'
<1>1. /\ phase = "annotate" /\ phase' = "annotate" /\ at' = at + 1
      /\ UNCHANGED <<input, profile>> /\ at \in 1..Len(findings)
      /\ advice' = Append(advice, recommend_for_finding(findings[at]))
  BY InputNumbered DEF ProfileInv, AnnotateFinding
<1>2. /\ input' = input /\ targets' = targets /\ signals' = signals
      /\ files' = files /\ dependencies' = dependencies /\ findings' = findings
  BY <1>1 DEF profile, files, dependencies, findings
<1>3. Looked' = Looked /\ Asked' = Asked /\ Told = at - 1 /\ Told' = at
  BY <1>1, <1>2 DEF Looked, Asked, Told, ProfileInv
<1>4. PICK told : told = recommend_for_finding(findings[at])
  OBVIOUS
<1>5. told \in Seq(Action)
  BY <1>4, RecommendedIds DEF Gives
<1>6. /\ advice' \in Seq(Seq(Action)) /\ Len(advice') = at /\ advice'[at] = told
      /\ \A k \in 1..(at - 1) : advice'[k] = advice[k]
  BY <1>1, <1>3, <1>4, <1>5 DEF ProfileInv
<1>7. ASSUME NEW k \in 1..at PROVE advice'[k] = recommend_for_finding(findings[k])'
  <2>1. recommend_for_finding(findings[k])' = recommend_for_finding(findings[k])
    BY <1>1, <1>2, AdviceKept
  <2>2. CASE k = at
    BY <1>4, <1>6, <2>1, <2>2
  <2>3. CASE k # at
    <3>1. k \in 1..(at - 1)
      BY <1>1, <2>3
    <3>2. QED
      BY <1>3, <1>6, <2>1, <3>1 DEF ProfileInv
  <2>4. QED
    BY <2>2, <2>3
<1>8. \A t : t \in targets' <=> \E i \in 1..Looked' : t \in TargetsOf(files[i])'
  BY <1>2, <1>3 DEF ProfileInv, TargetsOf
<1>9. \A s : s \in signals' <=> \E d \in 1..Asked' : s \in SignalsOf(dependencies[d])'
  BY <1>2, <1>3 DEF ProfileInv, SignalsOf
<1>10. QED
  BY <1>1, <1>2, <1>3, <1>6, <1>7, <1>8, <1>9 DEF ProfileInv

\* ProfileInv holds of every state of a run.
THEOREM ProfileInvariance == Spec => []ProfileInv
<1>1. Init => ProfileInv
  <2>1. SUFFICES ASSUME Init PROVE ProfileInv
    OBVIOUS
  <2>2. Looked = 0 /\ Asked = 0 /\ Told = 0
    BY <2>1 DEF Init, Looked, Asked, Told
  <2>3. QED
    BY <2>1, <2>2, InputNumbered DEF Init, ProfileInv
<1>2. ProfileInv /\ [Next]_vars => ProfileInv'
  <2>1. SUFFICES ASSUME ProfileInv, [Next]_vars PROVE ProfileInv'
    OBVIOUS
  <2>2. /\ Len(files) \in Nat /\ Len(dependencies) \in Nat /\ Len(findings) \in Nat
        /\ at \in Nat \ {0}
    BY <2>1, InputNumbered DEF ProfileInv
  <2>3. CASE ProfileFile
    BY <2>1, <2>3, ProfileFileStep
  <2>4. CASE FilesProfiled
    <3>1. /\ at = Len(files) + 1 /\ UNCHANGED <<input, profile, advice>>
          /\ phase = "files" /\ phase' = "dependencies" /\ at' = 1
      BY <2>1, <2>2, <2>4 DEF FilesProfiled, ProfileInv
    <3>2. Looked' = Looked /\ Asked' = Asked /\ Told' = Told
      BY <2>2, <3>1 DEF Looked, Asked, Told, files
    <3>3. QED
      BY <2>1, <2>2, <3>1, <3>2, ProfileKept
  <2>5. CASE ProfileDependency
    BY <2>1, <2>5, ProfileDependencyStep
  <2>6. CASE DependenciesProfiled
    <3>1. /\ at = Len(dependencies) + 1 /\ UNCHANGED <<input, profile, advice>>
          /\ phase = "dependencies" /\ phase' = "annotate" /\ at' = 1
      BY <2>1, <2>2, <2>6 DEF DependenciesProfiled, ProfileInv
    <3>2. Looked' = Looked /\ Asked' = Asked /\ Told' = Told
      BY <2>2, <3>1 DEF Looked, Asked, Told, files, dependencies
    <3>3. QED
      BY <2>1, <2>2, <3>1, <3>2, ProfileKept
  <2>7. CASE AnnotateFinding
    BY <2>1, <2>7, AnnotateFindingStep
  <2>8. CASE Annotated
    <3>1. /\ at = Len(findings) + 1 /\ UNCHANGED <<input, profile, advice>>
          /\ phase = "annotate" /\ phase' = "done" /\ at' = 1
      BY <2>1, <2>2, <2>8 DEF Annotated, ProfileInv
    <3>2. Looked' = Looked /\ Asked' = Asked /\ Told' = Told
      BY <2>2, <3>1 DEF Looked, Asked, Told, files, dependencies, findings
    <3>3. QED
      BY <2>1, <2>2, <3>1, <3>2, ProfileKept
  <2>9. CASE UNCHANGED vars
    <3>1. UNCHANGED <<input, profile, advice>> /\ phase' = phase /\ at' = at
      BY <2>9 DEF vars
    <3>2. Looked' = Looked /\ Asked' = Asked /\ Told' = Told
      BY <3>1 DEF Looked, Asked, Told, files, dependencies, findings
    <3>3. QED
      BY <2>1, <3>1, <3>2, ProfileKept DEF ProfileInv
  <2>10. QED
    BY <2>1, <2>3, <2>4, <2>5, <2>6, <2>7, <2>8, <2>9 DEF Next, Terminated
<1>3. QED
  BY <1>1, <1>2, PTL DEF Spec
-----------------------------------------------------------------------------
\* The advice keeps its type: a version believed is one that some file states,
\* and no finding is annotated twice (annotate_findings).
THEOREM TypeCorrect == Spec => []TypeOK
<1>1. HintInv /\ ProfileInv => TypeOK
  <2>1. SUFFICES ASSUME HintInv, ProfileInv PROVE TypeOK
    OBVIOUS
  <2>2. /\ Len(files) \in Nat /\ Len(dependencies) \in Nat /\ Len(findings) \in Nat
        /\ DOMAIN files = 1..Len(files) /\ at \in Nat \ {0}
    BY <2>1, InputNumbered DEF ProfileInv
  <2>3. at \in 1..(Len(files) + Len(dependencies) + Len(findings) + 1)
    BY <2>1, <2>2 DEF ProfileInv
  <2>4. ASSUME NEW r \in Runtime, versions[r] # None
        PROVE  \E i \in DOMAIN files : versions[r] = Hint(files[i])
    <3>1. Known(r, Looked)
      BY <2>1 DEF HintInv
    <3>2. PICK m \in Stating(r) : versions[r] = Hint(files[m])
      BY <2>4, <3>1 DEF Known
    <3>3. m \in DOMAIN files
      BY DEF Stating
    <3>4. QED
      BY <3>2, <3>3
  <2>5. targets \subseteq Target
    <3>1. \A file : TargetsOf(file) \subseteq Target
      BY DEF TargetsOf
    <3>2. QED
      BY <2>1, <3>1 DEF ProfileInv
  <2>6. ASSUME NEW s \in signals
        PROVE  s \in {"java-bouncycastle", "jwt-lib", "openssl"}
               \/ \E i \in DOMAIN dependencies :
                    \/ s = dependencies[i].name
                    \/ dependencies[i].pkg /\ s = dependencies[i].purl
    <3>1. PICK d \in 1..Asked : s \in SignalsOf(dependencies[d])
      BY <2>1, <2>6 DEF ProfileInv
    <3>2. d \in DOMAIN dependencies
      <4>1. Asked \in 0..Len(dependencies) /\ DOMAIN dependencies = 1..Len(dependencies)
        BY <2>1, <2>2, InputNumbered DEF ProfileInv, Asked
      <4>2. QED
        BY <2>2, <4>1
    <3>3. QED
      BY <3>1, <3>2 DEF SignalsOf
  <2>7. Len(advice) <= Len(findings)
    BY <2>1, <2>2 DEF ProfileInv, Told
  <2>8. QED
    BY <2>1, <2>3, <2>4, <2>5, <2>6, <2>7 DEF TypeOK, ProfileInv
<1>2. QED
  BY <1>1, HintInvariance, ProfileInvariance, PTL

\* The profile knows of a Java release that has the algorithms where the first
\* file that states a version states one of 24 or later.
LEMMA Java24Known ==
    ASSUME HintInv, phase # "files"
    PROVE  Java24 <=> \E i \in Stating("java") :
                         /\ \A j \in Stating("java") : i <= j
                         /\ first_number(Hint(files[i])) \in 24..U32Max
<1>1. "java" \in Runtime
  BY DEF Runtime
<1>2. /\ Len(files) \in Nat
      /\ \A i \in Stating("java") : i \in 1..Len(files) /\ i \in DOMAIN files
                                    /\ Hint(files[i]) # None
  BY FilesNumbered DEF HintInv, Stating
<1>3. Known("java", Len(files))
  BY <1>1 DEF HintInv, Looked
<1>4. CASE versions["java"] = None /\ \A i \in Stating("java") : i > Len(files)
  <2>1. Stating("java") = {}
    BY <1>2, <1>4
  <2>2. ~Java24
    BY <1>4 DEF Java24, version_at_least
  <2>3. QED
    BY <2>1, <2>2
<1>5. CASE \E m \in Stating("java") : /\ \A j \in Stating("java") : m <= j
                                      /\ versions["java"] = Hint(files[m])
  <2>1. PICK m \in Stating("java") : /\ \A j \in Stating("java") : m <= j
                                     /\ versions["java"] = Hint(files[m])
    BY <1>5
  <2>2. PICK n : n = first_number(Hint(files[m]))
    OBVIOUS
  <2>3. n \in 0..U32Max
    <3>1. Hint(files[m]) \in Seq(Int)
      BY <1>2, <2>1, HintIsHint DEF HintInv
    <3>2. QED
      BY <2>2, <3>1, NumberInRange
  <2>4. Java24 <=> n >= 24
    BY <1>2, <2>1, <2>2 DEF Java24, version_at_least
  <2>5. Java24 <=> n \in 24..U32Max
    BY <2>3, <2>4, AdviceAssumption
  <2>6. \A i \in Stating("java") : (\A j \in Stating("java") : i <= j) => i = m
    BY <1>2, <2>1
  <2>7. QED
    BY <2>1, <2>2, <2>5, <2>6
<1>6. QED
  BY <1>3, <1>4, <1>5 DEF Known

\* No action on Java hardens a middleware.
LEMMA JavaHardeningApart == JavaIds \cap HardeningIds = {}
BY HardeningIdsAre DEF JavaIds

\* The advice on Java that a finding gets depends on what the files state and
\* on the dependencies as JavaAdviceFits says (recommend_for_finding).
THEOREM JavaAdviceTheorem == Spec => []JavaAdviceFits
<1>1. HintInv /\ ProfileInv => JavaAdviceFits
  <2>1. SUFFICES ASSUME HintInv, ProfileInv, phase = "done", NEW k \in DOMAIN findings
        PROVE  LET known == \E i \in Stating("java") :
                       /\ \A j \in Stating("java") : i <= j
                       /\ first_number(Hint(files[i])) \in 24..U32Max
                   java == /\ findings[k].category \in {"jwt", "cryptoapi"}
                           /\ detect_language(findings[k]) = "java"
                   bouncy == \E d \in DOMAIN dependencies :
                       dependencies[d].words \cap {"bouncycastle", "bcprov", "bcpkix"} # {}
               IN  /\ "java.jca-ml-dsa-ml-kem" \in IdsOf(k) <=> java /\ known
                   /\ "java.runtime-upgrade-for-pqc" \in IdsOf(k) <=> java /\ ~known
                   /\ "java.bouncycastle-pqc" \in IdsOf(k) <=> java /\ (bouncy \/ ~known)
    BY DEF JavaAdviceFits
  <2> DEFINE known == \E i \in Stating("java") :
                 /\ \A j \in Stating("java") : i <= j
                 /\ first_number(Hint(files[i])) \in 24..U32Max
             bouncy == \E d \in DOMAIN dependencies :
                 dependencies[d].words \cap {"bouncycastle", "bcprov", "bcpkix"} # {}
  <2>2. /\ k \in 1..Len(findings) /\ Len(dependencies) \in Nat
        /\ DOMAIN dependencies = 1..Len(dependencies)
    BY <2>1, InputNumbered DEF ProfileInv
  <2>3. Java24 <=> known
    BY <2>1, Java24Known
  <2>4. "java-bouncycastle" \in signals <=> bouncy
    <3>1. \A d \in DOMAIN dependencies :
            "java-bouncycastle" \in SignalsOf(dependencies[d])
              <=> dependencies[d].words \cap {"bouncycastle", "bcprov", "bcpkix"} # {}
      <4>1. \A d \in DOMAIN dependencies :
              /\ dependencies[d].name = "java-bouncycastle"
                   => "bouncycastle" \in dependencies[d].words
              /\ dependencies[d].pkg => dependencies[d].purl # "java-bouncycastle"
        BY <2>1, AdviceAssumption DEF ProfileInv, dependencies
      <4>2. QED
        BY <4>1 DEF SignalsOf
    <3>2. "java-bouncycastle" \in signals
            <=> \E d \in 1..Len(dependencies) : "java-bouncycastle" \in SignalsOf(dependencies[d])
      BY <2>1 DEF ProfileInv, Asked
    <3>3. QED
      BY <2>2, <3>1, <3>2
  <2>5. advice[k] = recommend_for_finding(findings[k]) /\ IdsOf(k) = Ids(advice[k])
    BY <2>1, <2>2 DEF ProfileInv, Told, IdsOf, Ids
  <2>6. PICK I : I = IF JavaFinding(findings[k]) THEN JavaGiven
                     ELSE IF findings[k].category = "tls" THEN HardeningGiven(findings[k]) ELSE {}
    OBVIOUS
  <2>7. IdsOf(k) \cap (JavaIds \cup HardeningIds) = I
    BY <2>5, <2>6, RecommendedIds DEF Gives
  <2>8. HardeningGiven(findings[k]) \cap JavaIds = {}
    <3>1. HardeningGiven(findings[k]) \subseteq HardeningIds
      BY DEF HardeningGiven, HardeningIds, Hardening
    <3>2. QED
      BY <3>1, JavaHardeningApart
  <2>9. \A id \in JavaIds : id \in IdsOf(k) <=> JavaFinding(findings[k]) /\ id \in JavaGiven
    BY <2>6, <2>7, <2>8
  <2>10. /\ "java.jca-ml-dsa-ml-kem" \in JavaGiven <=> known
         /\ "java.runtime-upgrade-for-pqc" \in JavaGiven <=> ~known
         /\ "java.bouncycastle-pqc" \in JavaGiven <=> bouncy \/ ~known
    <3>1. PICK j, b : j = Java24 /\ b = ("java-bouncycastle" \in signals)
      OBVIOUS
    <3>2. JavaGiven = (IF j THEN {"java.jca-ml-dsa-ml-kem"} ELSE {"java.runtime-upgrade-for-pqc"})
                      \cup (IF b \/ ~j THEN {"java.bouncycastle-pqc"} ELSE {})
      BY <3>1 DEF JavaGiven
    <3>3. /\ "java.jca-ml-dsa-ml-kem" \in JavaGiven <=> j
          /\ "java.runtime-upgrade-for-pqc" \in JavaGiven <=> ~j
          /\ "java.bouncycastle-pqc" \in JavaGiven <=> b \/ ~j
      BY <3>2
    <3>4. QED
      BY <2>3, <2>4, <3>1, <3>3
  <2>11. /\ "java.jca-ml-dsa-ml-kem" \in JavaIds /\ "java.runtime-upgrade-for-pqc" \in JavaIds
         /\ "java.bouncycastle-pqc" \in JavaIds
    BY DEF JavaIds
  <2>12. QED
    BY <2>9, <2>10, <2>11 DEF JavaFinding
<1>2. QED
  BY <1>1, HintInvariance, ProfileInvariance, PTL

\* A finding's path that asks for hardening has made its middleware a target.
LEMMA PathsAreTargets ==
    ASSUME ProfileInv, phase # "files", NEW k \in DOMAIN findings, NEW h \in 1..5,
           Hardening[h].word \in WordsAt(findings[k])
    PROVE  Hardening[h].target \in targets
<1>1. PICK i, target, word : /\ i = findings[k].file /\ target = Hardening[h].target
                             /\ word = Hardening[h].word
  OBVIOUS
<1>2. i \in 1..Len(files)
  BY <1>1, InputNumbered DEF ProfileInv
<1>3. target \in Target /\ word \in TargetWords[target]
  <2>1. /\ "nginx" \in Target /\ "nginx" \in TargetWords["nginx"]
        /\ "httpd" \in Target /\ "httpd" \in TargetWords["httpd"]
        /\ "envoy" \in Target /\ "envoy" \in TargetWords["envoy"]
        /\ "istio" \in Target /\ "istio" \in TargetWords["istio"]
        /\ "k8s" \in Target /\ "ingress" \in TargetWords["k8s"]
    BY DEF Target, TargetWords
  <2>2. \/ target = "nginx" /\ word = "nginx"
        \/ target = "httpd" /\ word = "httpd"
        \/ target = "envoy" /\ word = "envoy"
        \/ target = "istio" /\ word = "istio"
        \/ target = "k8s" /\ word = "ingress"
    <3>1. /\ Hardening[1].target = "nginx" /\ Hardening[1].word = "nginx"
          /\ Hardening[2].target = "httpd" /\ Hardening[2].word = "httpd"
          /\ Hardening[3].target = "envoy" /\ Hardening[3].word = "envoy"
          /\ Hardening[4].target = "istio" /\ Hardening[4].word = "istio"
          /\ Hardening[5].target = "k8s" /\ Hardening[5].word = "ingress"
      BY DEF Hardening
    <3>2. CASE h = 1
      BY <1>1, <3>1, <3>2
    <3>3. CASE h = 2
      BY <1>1, <3>1, <3>3
    <3>4. CASE h = 3
      BY <1>1, <3>1, <3>4
    <3>5. CASE h = 4
      BY <1>1, <3>1, <3>5
    <3>6. CASE h = 5
      BY <1>1, <3>1, <3>6
    <3>7. QED
      BY <3>2, <3>3, <3>4, <3>5, <3>6
  <2>3. QED
    BY <2>1, <2>2
<1>4. word \in files[i].words
  BY <1>1 DEF WordsAt
<1>5. target \in TargetsOf(files[i])
  BY <1>3, <1>4 DEF TargetsOf
<1>6. QED
  BY <1>1, <1>2, <1>5 DEF ProfileInv, Looked

\* Any two TLS findings are told the same about each middleware, wherever they
\* were found (add_tls_actions).
THEOREM HardeningTheorem == Spec => []HardeningAgreed
<1>1. ProfileInv => HardeningAgreed
  <2>1. SUFFICES ASSUME ProfileInv, NEW j \in DOMAIN advice, NEW k \in DOMAIN advice,
                        findings[j].category = "tls", findings[k].category = "tls"
                 PROVE  IdsOf(j) \cap HardeningIds = IdsOf(k) \cap HardeningIds
    BY DEF HardeningAgreed
  <2>2. /\ Len(findings) \in Nat /\ DOMAIN findings = 1..Len(findings)
        /\ DOMAIN advice = 1..Told /\ at \in Nat \ {0}
    BY <2>1, InputNumbered DEF ProfileInv
  <2>3. phase # "files" /\ DOMAIN advice \subseteq DOMAIN findings
    BY <2>1, <2>2 DEF ProfileInv, Told
  <2>4. ASSUME NEW l \in DOMAIN advice, findings[l].category = "tls"
        PROVE  IdsOf(l) \cap HardeningIds
                 = {Hardening[h].id : h \in {h \in 1..5 : Hardening[h].target \in targets}}
    <3>1. advice[l] = recommend_for_finding(findings[l]) /\ IdsOf(l) = Ids(advice[l])
      BY <2>1, <2>2, <2>4 DEF ProfileInv, IdsOf, Ids
    <3>2. ~JavaFinding(findings[l])
      BY <2>4 DEF JavaFinding
    <3>3. Gives(advice[l], HardeningGiven(findings[l]))
      BY <2>4, <3>1, <3>2, RecommendedIds
    <3>4. IdsOf(l) \cap (JavaIds \cup HardeningIds) = HardeningGiven(findings[l])
      BY <3>1, <3>3 DEF Gives
    <3>5. IdsOf(l) \cap HardeningIds = HardeningGiven(findings[l])
      <4>1. HardeningGiven(findings[l]) \subseteq HardeningIds
        BY DEF HardeningGiven, HardeningIds, Hardening
      <4>2. QED
        BY <3>4, <4>1
    <3>6. \A h \in 1..5 :
            Hardening[h].word \in WordsAt(findings[l]) => Hardening[h].target \in targets
      BY <2>1, <2>3, <2>4, PathsAreTargets
    <3>7. HardeningGiven(findings[l])
            = {Hardening[h].id : h \in {h \in 1..5 : Hardening[h].target \in targets}}
      BY <3>6 DEF HardeningGiven
    <3>8. QED
      BY <3>5, <3>7
  <2>5. QED
    BY <2>1, <2>4
<1>2. QED
  BY <1>1, ProfileInvariance, PTL
=============================================================================
