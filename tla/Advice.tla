------------------------------- MODULE Advice -------------------------------
(***************************************************************************)
(* RuntimeProfile and annotate_findings                                     *)
(* (pqc_scan_core/src/recommendation.rs): the walked files are looked at a  *)
(* second time for the runtimes and the middleware of the repository, and   *)
(* every finding gets the actions that fit it and this profile.             *)
(*                                                                         *)
(* A path is the words looked for that it contains, besides its file name;  *)
(* what the code lower-cases before it compares is lower case here.  A text *)
(* is a sequence of lines, each with the wording a parser looks for and the *)
(* version it states: a hint, as a sequence of numbers, quotes and the rest.*)
(* A dependency is its name, the words looked for that the name contains,   *)
(* its purl, and whether that begins with "pkg:"; a component of an SBOM    *)
(* file need have no purl.                                                  *)
(***************************************************************************)
EXTENDS Listing, FiniteSets

CONSTANTS
    Inputs,     \* records [files, dependencies, findings]
    None,       \* no version
    U32Max      \* the largest number a u32 holds

\* The characters of a hint besides its numbers.
Quote == -1
Rest == -2

Runtime == {"java", "node", "go", "rust", "ruby", "python"}

\* The files that may state a version, each with the wordings its parser looks
\* for, in the order in which it does.  The first line of a runtime.txt
\* and the first line of a .ruby-version that is not blank count whatever they say.
Wording == {"release", "property", "source", "toolchain", "assigned", "directive", "other", "blank"}
Wordings == [name \in {"pom.xml", "build.gradle", "build.gradle.kts", "package.json", "go.mod",
                       "Cargo.toml", "Gemfile", ".ruby-version", "pyproject.toml", "runtime.txt"} |->
    CASE name = "pom.xml" -> <<{"release"}, {"property"}, {"source"}>>
      [] name \in {"build.gradle", "build.gradle.kts"} -> <<{"toolchain", "assigned"}>>
      [] name \in {"package.json", "go.mod", "Gemfile"} -> <<{"directive"}>>
      [] name \in {"Cargo.toml", "pyproject.toml"} -> <<{"assigned"}>>
      [] name = ".ruby-version" -> <<Wording \ {"blank"}>>
      [] name = "runtime.txt" -> <<Wording>>]

RuntimeFile == DOMAIN Wordings
RuntimeOf == [name \in RuntimeFile |->
    CASE name \in {"pom.xml", "build.gradle", "build.gradle.kts"} -> "java"
      [] name = "package.json" -> "node"
      [] name = "go.mod" -> "go"
      [] name = "Cargo.toml" -> "rust"
      [] name \in {"Gemfile", ".ruby-version"} -> "ruby"
      [] name \in {"pyproject.toml", "runtime.txt"} -> "python"]

\* The words of a path that make a middleware a target of the profile.
TargetWords == [target \in {"k8s", "nginx", "httpd", "envoy", "istio", "haproxy", "traefik"} |->
    CASE target = "k8s" -> {"k8s", "ingress"}
      [] target = "httpd" -> {"httpd", "apache"}
      [] OTHER -> {target}]
Target == DOMAIN TargetWords

ASSUME AdviceAssumption ==
    /\ U32Max \in Nat
    /\ \A in \in Inputs :
         /\ Len(in.files) \in Nat /\ DOMAIN in.files = 1..Len(in.files)
         /\ Len(in.dependencies) \in Nat /\ DOMAIN in.dependencies = 1..Len(in.dependencies)
         /\ Len(in.findings) \in Nat /\ DOMAIN in.findings = 1..Len(in.findings)
         /\ \A i \in DOMAIN in.files :
              LET text == in.files[i].text
              IN  /\ in.files[i].readable \in BOOLEAN
                  /\ Len(text) \in Nat /\ DOMAIN text = 1..Len(text)
                  /\ \A j \in DOMAIN text : text[j].hint \in Seq(Int)
         /\ \A k \in DOMAIN in.findings : in.findings[k].file \in DOMAIN in.files
         /\ \A i \in DOMAIN in.dependencies :
              LET d == in.dependencies[i]
              IN  /\ d.name = "java-bouncycastle" => "bouncycastle" \in d.words
                  /\ d.pkg => d.purl # "java-bouncycastle"

VARIABLES
    input,
    phase,      \* "files", "dependencies", "annotate" or "done"
    at,         \* where the loop of the phase is
    versions,   \* java_version, node_version, ...
    targets,    \* middleware_targets
    signals,    \* dependency_signals
    advice      \* recommended_actions, of the findings annotated

profile == <<versions, targets, signals>>
vars == <<input, phase, at, profile, advice>>

files == input.files
dependencies == input.dependencies
findings == input.findings
-----------------------------------------------------------------------------
\* Quotes are trimmed at both ends.
normalize_version_hint(hint) ==
    LET kept == {i \in DOMAIN hint : hint[i] # Quote}
    IN  IF kept = {} THEN << >>
        ELSE SubSeq(hint, CHOOSE i \in kept : \A j \in kept : i <= j,
                          CHOOSE i \in kept : \A j \in kept : i >= j)

\* 0 when there is no number, or one that u32 does not hold.
first_number_Unparsed(hint) ==
    LET numbers == {i \in DOMAIN hint : hint[i] \in Nat}
    IN  IF numbers = {} THEN 0 ELSE hint[CHOOSE i \in numbers : \A j \in numbers : i <= j]
first_number(hint) ==
    LET numbers == {i \in DOMAIN hint : hint[i] \in Nat}
        first == hint[CHOOSE i \in numbers : \A j \in numbers : i <= j]
    IN  IF numbers = {} \/ first > U32Max THEN 0 ELSE first

version_at_least(version, major) == version # None /\ first_number(version) >= major

\* parse_java_version_from_pom and the others: the first line with the first of
\* the wordings that occurs.
Stated(name, text) ==
    LET lines(p) == {i \in DOMAIN text : text[i].wording \in Wordings[name][p]}
        found == {p \in DOMAIN Wordings[name] : lines(p) # {}}
        at_(p) == CHOOSE i \in lines(p) : \A j \in lines(p) : i <= j
    IN  IF found = {} THEN None
        ELSE normalize_version_hint(text[at_(CHOOSE p \in found : \A q \in found : p <= q)].hint)

\* read_text_limited: a file that is too large, gone or no UTF-8 states nothing,
\* nor does a package.json that is no JSON.
Hint(file) == IF file.name \in RuntimeFile /\ file.readable
              THEN Stated(file.name, file.text) ELSE None

TargetsOf(file) == {t \in Target : TargetWords[t] \cap file.words # {}}

\* The is_none guard of each arm.
Undecided_Always(runtime) == TRUE
Undecided(runtime) == versions[runtime] = None

NextTargets_OfTheLastFile(file) == TargetsOf(file)
NextTargets(file) == targets \cup TargetsOf(file)

ProfileFile ==
    /\ phase = "files" /\ at <= Len(files)
    /\ at' = at + 1
    /\ targets' = NextTargets(files[at])
    /\ versions' = [r \in Runtime |->
           IF files[at].name \in RuntimeFile /\ RuntimeOf[files[at].name] = r
              /\ files[at].readable /\ Undecided(r)
           THEN Hint(files[at]) ELSE versions[r]]
    /\ UNCHANGED <<input, phase, signals, advice>>

FilesProfiled ==
    /\ phase = "files" /\ at > Len(files)
    /\ phase' = "dependencies" /\ at' = 1
    /\ UNCHANGED <<input, profile, advice>>

\* Of the signals only "java-bouncycastle" is ever asked for.
SignalsOf_AnyPurl(dependency) ==
    {dependency.name, dependency.purl}
    \cup (IF dependency.words \cap {"bouncycastle", "bcprov", "bcpkix"} # {}
          THEN {"java-bouncycastle"} ELSE {})
    \cup (IF "jsonwebtoken" \in dependency.words \/ dependency.name = "jose"
          THEN {"jwt-lib"} ELSE {})
    \cup (IF "openssl" \in dependency.words THEN {"openssl"} ELSE {})
SignalsOf(dependency) ==
    {dependency.name}
    \cup (IF dependency.pkg THEN {dependency.purl} ELSE {})
    \cup (IF dependency.words \cap {"bouncycastle", "bcprov", "bcpkix"} # {}
          THEN {"java-bouncycastle"} ELSE {})
    \cup (IF "jsonwebtoken" \in dependency.words \/ dependency.name = "jose"
          THEN {"jwt-lib"} ELSE {})
    \cup (IF "openssl" \in dependency.words THEN {"openssl"} ELSE {})

ProfileDependency ==
    /\ phase = "dependencies" /\ at <= Len(dependencies)
    /\ at' = at + 1
    /\ signals' = signals \cup SignalsOf(dependencies[at])
    /\ UNCHANGED <<input, phase, versions, targets, advice>>

DependenciesProfiled ==
    /\ phase = "dependencies" /\ at > Len(dependencies)
    /\ phase' = "annotate" /\ at' = 1
    /\ UNCHANGED <<input, profile, advice>>
-----------------------------------------------------------------------------
\* canonical_language_name of what the detector states, else by the extension.
canonical_language_name(language) ==
    CASE language \in {"java", "go", "rust", "python", "ruby"} -> language
      [] language \in {"javascript", "js"} -> "javascript"
      [] language \in {"typescript", "ts"} -> "typescript"
      [] language = "py" -> "python" [] language = "golang" -> "go"
      [] language = "rs" -> "rust" [] language = "rb" -> "ruby"
      [] OTHER -> "none"

LanguageOfExtension(extension) ==
    CASE extension = "java" -> "java"
      [] extension \in {"js", "mjs", "cjs", "jsx"} -> "javascript"
      [] extension \in {"ts", "tsx"} -> "typescript"
      [] extension = "py" -> "python" [] extension = "go" -> "go"
      [] extension = "rs" -> "rust" [] extension = "rb" -> "ruby"
      [] OTHER -> "none"

detect_language(finding) ==
    IF finding.language # "unstated" THEN canonical_language_name(finding.language)
    ELSE LanguageOfExtension(files[finding.file].extension)

\* An action, offered on a condition.
Offer(condition, id, priority) ==
    IF condition THEN <<[id |-> id, priority |-> priority]>> ELSE << >>

WordsAt(finding) == files[finding.file].words

\* detect_middleware_targets_for_finding; prefix is that of the rule's id.
NoteTargets(finding) ==
    {t \in {"k8s", "nginx", "envoy", "istio", "haproxy", "traefik"} :
        /\ finding.category \in {"middleware", "tls"}
        /\ \/ finding.prefix = t
           \/ WordsAt(finding) \cap (IF t = "k8s" THEN {"k8s", "kubernetes", "ingress", "gatewayapi"}
                                     ELSE {t}) # {}}

add_middleware_pqc_signature_notes(finding) ==
    LET Note(target, id) == Offer(target \in NoteTargets(finding), id, "advisory")
    IN  Note("k8s", "k8s.pqc-signature-readiness-note")
        \o Note("nginx", "nginx.pqc-signature-readiness-note")
        \o Note("envoy", "envoy.pqc-signature-readiness-note")
        \o Note("istio", "istio.pqc-signature-readiness-note")
        \o Note("haproxy", "haproxy.pqc-signature-readiness-note")
        \o Note("traefik", "traefik.pqc-signature-readiness-note")

Java24 == version_at_least(versions["java"], 24)

add_java_actions ==
    Offer(Java24, "java.jca-ml-dsa-ml-kem", "near-term")
    \o Offer(~Java24, "java.runtime-upgrade-for-pqc", "planned")
    \o Offer("java-bouncycastle" \in signals \/ ~Java24, "java.bouncycastle-pqc", "near-term")

add_jwt_actions(language) ==
    Offer(TRUE, "jwt.remove-rsa-algorithms", "near-term")
    \o CASE language = "java" -> add_java_actions
         [] language \in {"javascript", "typescript"} ->
              Offer(TRUE, "node.webcrypto.pqc",
                    IF version_at_least(versions["node"], 24) THEN "near-term" ELSE "planned")
         [] language = "go" -> Offer(TRUE, "go.hybrid-kem", "near-term")
         [] language = "python" -> Offer(TRUE, "python.signing-gateway", "planned")
         [] language = "rust" -> Offer(TRUE, "rust.oqs-integration", "near-term")
         [] language = "ruby" -> Offer(TRUE, "ruby.crypto-service-boundary", "planned")
         [] OTHER -> << >>

\* What hardens a middleware, and the word of the finding's own path that asks
\* for it as a target of the profile does.
Hardening == <<[target |-> "nginx", word |-> "nginx", id |-> "tls.nginx-hardening"],
               [target |-> "httpd", word |-> "httpd", id |-> "tls.httpd-hardening"],
               [target |-> "envoy", word |-> "envoy", id |-> "tls.envoy-hardening"],
               [target |-> "istio", word |-> "istio", id |-> "tls.istio-hardening"],
               [target |-> "k8s", word |-> "ingress", id |-> "tls.k8s-ingress-hardening"]>>

add_tls_actions(finding) ==
    LET harden(h) == Offer(h.word \in WordsAt(finding) \/ h.target \in targets, h.id, "near-term")
    IN  Offer(TRUE, "tls.remove-rsa-kex", "near-term")
        \o harden(Hardening[1]) \o harden(Hardening[2]) \o harden(Hardening[3])
        \o harden(Hardening[4]) \o harden(Hardening[5])

add_pki_actions == Offer(TRUE, "pki.hybrid-certificate-roadmap", "near-term")

add_crypto_api_actions(language) ==
    IF language = "java" THEN add_java_actions
    ELSE Offer(TRUE, "cryptoapi.abstraction-layer", "near-term")

\* push_action: an id that is there already is not added again.
push_actions(offered) == KeepFirst(offered, LAMBDA a : a.id)

add_category_actions(finding) ==
    CASE finding.category = "jwt" -> add_jwt_actions(detect_language(finding))
      [] finding.category = "tls" -> add_tls_actions(finding)
      [] finding.category = "pki" -> add_pki_actions
      [] finding.category = "cryptoapi" -> add_crypto_api_actions(detect_language(finding))
      [] OTHER -> << >>

\* The prefix DEP_ alone is compared as it is written: "dep" stands for it in
\* upper case.
recommend_for_finding(finding) ==
    push_actions(
        add_middleware_pqc_signature_notes(finding)
        \o Offer(finding.kind = "private_key", "incident.private-key-rotation", "immediate")
        \o Offer(finding.risk = "quantum-vulnerable", "plan.hybrid-migration", "near-term")
        \o add_category_actions(finding)
        \o Offer(finding.prefix = "dep", "dependency.track-pqc-readiness", "planned"))

AnnotateFinding ==
    /\ phase = "annotate" /\ at <= Len(findings)
    /\ at' = at + 1
    /\ advice' = Append(advice, recommend_for_finding(findings[at]))
    /\ UNCHANGED <<input, phase, profile>>

Annotated ==
    /\ phase = "annotate" /\ at > Len(findings)
    /\ phase' = "done" /\ at' = 1
    /\ UNCHANGED <<input, profile, advice>>

Terminated == phase = "done" /\ UNCHANGED vars

Init ==
    /\ input \in Inputs
    /\ phase = "files" /\ at = 1
    /\ versions = [r \in Runtime |-> None] /\ targets = {} /\ signals = {}
    /\ advice = << >>

Next ==
    \/ ProfileFile \/ FilesProfiled
    \/ ProfileDependency \/ DependenciesProfiled
    \/ AnnotateFinding \/ Annotated
    \/ Terminated

Spec == Init /\ [][Next]_vars
-----------------------------------------------------------------------------
TypeOK ==
    /\ input \in Inputs
    /\ phase \in {"files", "dependencies", "annotate", "done"}
    /\ at \in 1..(Len(files) + Len(dependencies) + Len(findings) + 1)
    /\ \A r \in Runtime : versions[r] # None => \E i \in DOMAIN files : versions[r] = Hint(files[i])
    /\ targets \subseteq Target
    /\ \A s \in signals :
         s \in {"java-bouncycastle", "jwt-lib", "openssl"}
         \/ \E i \in DOMAIN dependencies :
              \/ s = dependencies[i].name
              \/ dependencies[i].pkg /\ s = dependencies[i].purl
    /\ Len(advice) <= Len(findings)

\* The files that state a version of a runtime.
Stating(runtime) ==
    {i \in DOMAIN files : /\ files[i].name \in RuntimeFile /\ RuntimeOf[files[i].name] = runtime
                          /\ Hint(files[i]) # None}

\* A version that some readable file states is known to the profile, whatever
\* files of that runtime come before it and state none or cannot be read; and
\* it is the version of the first, which no later file replaces.  So the advice
\* depends on the order of the walk only where two files disagree.
FirstHintKept ==
    phase # "files" =>
        \A r \in Runtime :
            /\ Stating(r) = {} => versions[r] = None
            /\ \A i \in Stating(r) :
                 (\A j \in Stating(r) : i <= j) => versions[r] = Hint(files[i])

IdsOf(k) == {advice[k][i].id : i \in DOMAIN advice[k]}

\* Advice that needs a Java release goes only to repositories that are known
\* to have it: where no file states one, where the first that does is a
\* placeholder, and where the number is none, the way round is shown instead.
\* Nobody is told both to use a release and to upgrade to it.
JavaAdviceFits ==
    phase = "done" =>
        \A k \in DOMAIN findings :
            LET known == \E i \in Stating("java") :
                    /\ \A j \in Stating("java") : i <= j
                    /\ first_number(Hint(files[i])) \in 24..U32Max
                java == /\ findings[k].category \in {"jwt", "cryptoapi"}
                        /\ detect_language(findings[k]) = "java"
                bouncy == \E d \in DOMAIN dependencies :
                    dependencies[d].words \cap {"bouncycastle", "bcprov", "bcpkix"} # {}
            IN  /\ "java.jca-ml-dsa-ml-kem" \in IdsOf(k) <=> java /\ known
                /\ "java.runtime-upgrade-for-pqc" \in IdsOf(k) <=> java /\ ~known
                /\ "java.bouncycastle-pqc" \in IdsOf(k) <=> java /\ (bouncy \/ ~known)

HardeningIds == {Hardening[h].id : h \in DOMAIN Hardening}

\* The findings of a scan agree on how to harden: two TLS findings are told the
\* same about each middleware, though one has it in its own path and the other
\* has not, since a path of the repository that names it has been met before
\* the first finding is annotated.
HardeningAgreed ==
    \A j, k \in DOMAIN advice :
        findings[j].category = "tls" /\ findings[k].category = "tls" =>
            IdsOf(j) \cap HardeningIds = IdsOf(k) \cap HardeningIds
=============================================================================
