----------------------------- MODULE Manifests -----------------------------
(***************************************************************************)
(* DependencyDetector (pqc_scan_detectors/src/dependency_detector.rs): a    *)
(* manifest or SBOM is parsed into items, duplicates are dropped, and each  *)
(* item gives an inventory detection and one for every rule that matches.   *)
(*                                                                         *)
(* Its parsers are of four kinds: those that take each line by itself, those *)
(* that carry state from line to line, those that search the whole text with *)
(* a regular expression, and those that read a JSON value and then look for  *)
(* the line of each item in the text.  Names are numbers, 0 is the word // of *)
(* a comment or the name of a setting; a document has one entry per line,    *)
(* a pom.xml one per <dependency> element or line outside of them.           *)
(***************************************************************************)
EXTENDS Listing, FiniteSetsExt

CONSTANTS
    Names,      \* bound: the names in a document
    MaxLines,   \* bound: the lines of a document, per format
    Words,      \* what a dependency rule may look for
    Rules       \* the sequences of dependency rules, each the word it looks for

Gems == {"Gemfile", "gemspec", "Gemfile.lock"}
Npm == {"package.json", "package-lock.json", "pnpm-lock.yaml"}
Python == {"requirements.txt", "Pipfile.lock", "poetry.lock"}
Format == {"Cargo.toml", "Cargo.lock", "go.mod", "pom.xml", "build.gradle", "gradle.lockfile", "sbom"}
            \cup Gems \cup Npm \cup Python

ASSUME ManifestsAssumption ==
    Names \in Nat /\ MaxLines \in [Format -> Nat] /\ Rules \subseteq Seq(Words)

Name == 1..Names
Ecosystem == [f \in Format |->
    CASE f \in {"Cargo.toml", "Cargo.lock"} -> "cargo" [] f = "go.mod" -> "golang"
      [] f \in Python -> "pypi" [] f \in Npm -> "npm" [] f \in Gems -> "gem" [] OTHER -> "maven"]

Lines(kinds, names, versions, groups) ==
    [kind : kinds, name : names, version : versions, group : groups]
Others(kinds) == Lines(kinds, {0}, {"none"}, {0})

\* The sections of the JSON formats, in the order the parsers take them.
Sections == [f \in {"package.json", "package-lock.json", "Pipfile.lock"} |->
    CASE f = "package.json" -> <<"dependencies", "devDependencies", "peerDependencies", "optionalDependencies">>
      [] f = "package-lock.json" -> <<"dependencies", "packages">>
      [] f = "Pipfile.lock" -> <<"default", "develop">>]

\* The lines of a format.  An entry that states no version has "none"; "root" is a
\* key of a JSON object outside the sections, and group 0 a component without a
\* purl or a package of a lock file without a "name".  "extra" is a requirement
\* like a[b]==1, "indented" a gem in a group; "pretty" a <dependency> with each element on a line of its own.
Line == [f \in Format |->
    CASE f = "Cargo.toml" ->
            Lines({"entry"}, Name, {"1", "^1", "none"}, {0})
            \cup Others({"blank", "[dependencies]", "[package]", "[dependencies] #"})
      [] f = "go.mod" ->
            Lines({"entry", "require"}, Name, {"1", "2"}, {0})
            \cup Others({"blank", "comment", "require (", ")"})
      [] f \in {"Cargo.lock", "poetry.lock"} ->
            Lines({"name"}, Name, {"none"}, {0}) \cup Lines({"version"}, {0}, {"1", "2"}, {0})
            \cup Others({"blank", "[[package]]"})
      [] f = "requirements.txt" ->
            Lines({"entry"}, Name, {"1", "none"}, {0}) \cup Lines({"extra"}, Name, {"1"}, {0})
            \cup Others({"blank", "comment"})
      [] f = "Gemfile.lock" ->
            Lines({"entry", "nested"}, Name, {"1", "none"}, {0}) \cup Others({"blank"})
      [] f \in {"Gemfile", "gemspec", "build.gradle", "gradle.lockfile"} ->
            Lines(IF f = "Gemfile" THEN {"entry", "indented"} ELSE {"entry"}, Name,
                  {"1", IF f \in Gems THEN "none" ELSE "2"}, {0})
            \cup Others({"blank", "comment"})
      [] f = "pnpm-lock.yaml" ->
            Lines({"package", "entry"}, Name, {"1", "2"}, {0}) \cup Lines({"entry"}, {0}, {"1"}, {0})
            \cup Others({"blank", "dependencies: {}"})
      [] f = "pom.xml" ->
            Lines({"compact", "pretty"}, Name, {"1", "2"}, {0}) \cup Others({"comment"})
      [] f = "sbom" ->
            Lines({"metadata"}, Name, {"none"}, {0})
            \cup Lines({"component", "package"}, Name, {"1", "2"}, 0..Names)
      [] f = "package-lock.json" ->
            Lines({"root", "dependencies"}, Name, {"1"}, {0}) \cup Lines({"packages"}, Name, {"1", "2"}, 0..1)
      [] OTHER -> Lines({"root"} \cup Range(Sections[f]), Name, {"1", "^1"}, {0})]

\* Sections of a JSON object are contiguous and have no key twice; a lock begins
\* with a package, and Cargo writes the name and the version of one behind its
\* header; an SBOM is of one of the two standards.
WellFormed(f, text) ==
    CASE f \in DOMAIN Sections ->
            \A i, k \in DOMAIN text : i < k /\ text[i].kind = text[k].kind =>
                /\ text[i].name # text[k].name
                /\ \A j \in i..k : text[j].kind = text[i].kind
      [] f = "sbom" ->
            /\ Cardinality({i \in DOMAIN text : text[i].kind = "metadata"}) <= 1
            /\ \A i, k \in DOMAIN text : {text[i].kind, text[k].kind} # {"component", "package"}
      [] f = "poetry.lock" -> text # << >> => text[1].kind = "[[package]]"
      [] f = "Cargo.lock" ->
            \A i \in DOMAIN text :
                /\ text[i].kind = "[[package]]" => i + 2 <= Len(text)
                /\ text[i].kind = "name" <=> i > 1 /\ text[i - 1].kind = "[[package]]"
                /\ text[i].kind = "version" <=> i > 2 /\ text[i - 1].kind = "name"
      [] OTHER -> TRUE

Document(f) == {text \in UNION {[1..n -> Line[f]] : n \in 0..MaxLines[f]} : WellFormed(f, text)}

VARIABLES
    format,
    text,
    rules,
    phase,          \* "parse", "dedup", "match" or "done"
    at,             \* the line the parser is at
    section,        \* the Cargo or JSON section; "require" in a Go block; what pnpm is searched for
    name, version, current_line,    \* the Poetry package being read
    key,            \* the last key read of a JSON object
    items,
    item, rule,     \* where the loops of detect are; rule 0 is the inventory
    out

scanner == <<section, name, version, current_line, key>>
loops == <<item, rule, out>>
vars == <<format, text, rules, phase, at, scanner, items, loops>>

sanitize_version(v) == CASE v = "^1" -> "1" [] v = "none" -> "unknown" [] OTHER -> v

\* make_purl for a manifest; an SBOM item keeps the purl it has.
Purl(n, v, group) == IF format = "sbom" /\ group = 0 THEN << >>
                     ELSE <<Ecosystem[format], group, n, sanitize_version(v)>>

ecosystem_from_purl(purl) == IF purl = << >> THEN "unknown" ELSE purl[1]

Item(n, v, group, line) ==
    [name |-> n, version |-> sanitize_version(v), purl |-> Purl(n, v, group),
     ecosystem |-> ecosystem_from_purl(Purl(n, v, group)), line |-> line]

Push(n, v, group, line) == items' = Append(items, Item(n, v, group, line))

At == text[at]
LineNumber_FromZero == at - 1
LineNumber == at

Parsing(f) == phase = "parse" /\ format = f
Advance ==
    /\ at <= Len(text) /\ at' = at + 1
    /\ UNCHANGED <<format, text, rules, phase, loops>>

\* parse_cargo_toml: a header is a line that begins and ends with a bracket.
is_cargo_dependency_section(s) == s = "[dependencies]"

CargoLine ==
    /\ Parsing("Cargo.toml") /\ Advance
    /\ section' = IF At.kind \in {"[dependencies]", "[package]"} THEN At.kind ELSE section
    /\ IF At.kind = "entry" /\ is_cargo_dependency_section(section)
       THEN Push(At.name, At.version, 0, LineNumber) ELSE items' = items
    /\ UNCHANGED <<name, version, current_line, key>>

\* parse_go_mod: "require (" opens a block, a line ")" closes it.
GoTarget ==
    \/ At.kind = "require"
    \/ section = "require" /\ At.kind \in {"entry", "comment"}

GoLine ==
    /\ Parsing("go.mod") /\ Advance
    /\ section' = CASE At.kind = "require (" -> "require" [] At.kind = ")" -> "none" [] OTHER -> section
    /\ IF GoTarget THEN Push(At.name, At.version, 0, LineNumber) ELSE items' = items
    /\ UNCHANGED <<name, version, current_line, key>>

\* parse_poetry_lock: a package is pushed when the next one begins, or at the end.
PushPackage == IF name # 0 THEN Push(name, version, 0, current_line) ELSE items' = items

PoetryVersion_Kept == version
PoetryVersion == "none"

PoetryLine ==
    /\ Parsing("poetry.lock") /\ Advance
    /\ IF At.kind = "[[package]]"
       THEN /\ PushPackage
            /\ name' = 0 /\ version' = PoetryVersion /\ current_line' = LineNumber
       ELSE /\ name' = IF At.kind = "name" THEN At.name ELSE name
            /\ version' = IF At.kind = "version" THEN At.version ELSE version
            /\ UNCHANGED <<items, current_line>>
    /\ UNCHANGED <<section, key>>

\* parse_requirements, parse_gradle_lockfile and parse_gemfile_lock: every line
\* is taken by itself.  A version behind extras is not seen.
StatedVersion(i) == IF text[i].kind \in {"extra", "pretty"} THEN "none" ELSE text[i].version

TakeLine(kinds) ==
    /\ Advance
    /\ IF At.kind \in kinds
       THEN Push(At.name, StatedVersion(at), 0, LineNumber) ELSE items' = items
    /\ UNCHANGED scanner

RequirementLine == Parsing("requirements.txt") /\ TakeLine({"entry", "extra"})
GradleLockLine == Parsing("gradle.lockfile") /\ TakeLine({"entry"})
GemLockLine == Parsing("Gemfile.lock") /\ TakeLine({"entry"})

\* The parsers that search the text, parse_pnpm_lock twice.
Sought ==
    CASE format = "Cargo.lock" -> {"[[package]]"}
      [] format \in {"Gemfile", "gemspec", "build.gradle"} -> {"entry", "indented"}
      [] format = "pom.xml" -> {"compact", "pretty"}
      [] format = "pnpm-lock.yaml" -> {section}
      [] OTHER -> {}

NextMatch == {i \in at..Len(text) : /\ text[i].kind \in Sought
                                    /\ \A k \in at..(i - 1) : text[k].kind \notin Sought}

\* A match of a pattern that begins with ^ and white space begins at the blank
\* lines before its entry.
MatchStart(i) == Min({j \in at..i : \A k \in j..(i - 1) : text[k].kind = "blank"})

\* The pattern of a gem takes the white space behind a name to look for a comma:
\* the search goes on at the next text, and where that is indented, below it.
SearchFrom(i) ==
    IF text[i].version = "none"
    THEN LET next == Min({k \in (i + 1)..(Len(text) + 1) :
                            k <= Len(text) => text[k].kind # "blank"})
         IN IF next <= Len(text) /\ text[next].kind = "indented" THEN next + 1 ELSE next
    ELSE i + 1

Match(n, v, line, next) ==
    /\ Push(n, v, 0, line) /\ at' = next
    /\ UNCHANGED <<format, text, rules, phase, scanner, loops>>

CargoLockMatch ==
    /\ Parsing("Cargo.lock")
    /\ \E i \in NextMatch : Match(text[i + 1].name, text[i + 2].version, i, i + 3)
GemfileMatch ==
    /\ Parsing("Gemfile")
    /\ \E i \in NextMatch : Match(text[i].name, text[i].version, MatchStart(i), SearchFrom(i))
GemspecMatch ==
    /\ Parsing("gemspec")
    /\ \E i \in NextMatch : Match(text[i].name, text[i].version, MatchStart(i), i + 1)
GradleMatch ==
    /\ Parsing("build.gradle")
    /\ \E i \in NextMatch : Match(text[i].name, text[i].version, MatchStart(i), i + 1)
PomMatch ==
    /\ Parsing("pom.xml")
    /\ \E i \in NextMatch : Match(text[i].name, StatedVersion(i), i, i + 1)
PnpmPackage ==
    /\ Parsing("pnpm-lock.yaml") /\ section = "package"
    /\ \E i \in NextMatch : Match(text[i].name, text[i].version, MatchStart(i), i + 1)
PnpmDependency ==
    /\ Parsing("pnpm-lock.yaml") /\ section = "entry"
    /\ \E i \in NextMatch : Match(text[i].name, text[i].version, i, i + 1)

PnpmDependencies ==
    /\ Parsing("pnpm-lock.yaml") /\ section = "package" /\ NextMatch = {}
    /\ section' = "entry" /\ at' = 1
    /\ UNCHANGED <<format, text, rules, phase, name, version, current_line, key, items, loops>>

\* find_json_key_line and find_json_name_value_line: the first line of the
\* text where the name is a key, or is stated, wherever that is; or 0.
FirstOf(lines) == IF lines = {} THEN 0 ELSE Min(lines)
KeyLine(n) == FirstOf({i \in DOMAIN text : text[i].name = n /\ text[i].kind # "packages"})
NameLine(n) == FirstOf({i \in DOMAIN text : text[i].name = n /\
    \/ text[i].kind \in {"metadata", "component", "package"}
    \/ text[i].kind = "packages" /\ text[i].group = 1})

\* parse_package_json, parse_package_lock_json, parse_pipfile_lock: the keys of
\* a section in their order, section by section.
IsKey(n) == \E i \in DOMAIN text : text[i].kind = section /\ text[i].name = n
IsNextKey(n) == IsKey(n) /\ n > key /\ \A k \in Name : IsKey(k) /\ k > key => n <= k

NextKey == {i \in DOMAIN text : text[i].kind = section /\ IsNextKey(text[i].name)}

TakeKey(i, line) ==
    /\ Push(text[i].name, text[i].version, 0, line)
    /\ key' = text[i].name
    /\ UNCHANGED <<format, text, rules, phase, at, section, name, version, current_line, loops>>

PackageJsonKey ==
    Parsing("package.json") /\ \E i \in NextKey : TakeKey(i, KeyLine(text[i].name))
PackageLockKey ==
    /\ Parsing("package-lock.json") /\ section = "dependencies"
    /\ \E i \in NextKey : TakeKey(i, KeyLine(text[i].name))
PackageLockPath ==
    /\ Parsing("package-lock.json") /\ section = "packages"
    /\ \E i \in NextKey : TakeKey(i, NameLine(text[i].name))
PipfileKey ==
    Parsing("Pipfile.lock") /\ \E i \in NextKey : TakeKey(i, KeyLine(text[i].name))

SectionAfter(s) ==
    LET all == Sections[format]
        k == CHOOSE i \in DOMAIN all : all[i] = s
    IN IF k = Len(all) THEN "none" ELSE all[k + 1]

JsonSection ==
    /\ format \in DOMAIN Sections /\ Parsing(format) /\ section # "none"
    /\ \A n \in Name : ~IsNextKey(n)
    /\ section' = SectionAfter(section) /\ key' = 0
    /\ UNCHANGED <<format, text, rules, phase, at, name, version, current_line, items, loops>>

\* parse_sbom_dependencies: the components of a CycloneDX document, or the
\* packages of an SPDX document with the purl of their external references.
CycloneDxComponent ==
    /\ Parsing("sbom") /\ Advance /\ At.kind # "package"
    /\ IF At.kind = "component"
       THEN Push(At.name, At.version, At.group, NameLine(At.name)) ELSE items' = items
    /\ UNCHANGED scanner

SpdxPackage ==
    /\ Parsing("sbom") /\ Advance /\ At.kind = "package"
    /\ Push(At.name, At.version, At.group, NameLine(At.name))
    /\ UNCHANGED scanner

Parsed ==
    /\ phase = "parse"
    /\ CASE format \in DOMAIN Sections -> section = "none"
         [] Sought # {} -> section # "package" /\ NextMatch = {}
         [] OTHER -> at > Len(text)
    /\ phase' = "dedup"
    /\ IF format = "poetry.lock" THEN PushPackage ELSE items' = items
    /\ UNCHANGED <<format, text, rules, at, scanner, loops>>

\* dedup_items: the first item of each key stays.
Key(i) == <<i.ecosystem, i.name, i.version>>

dedup_items ==
    /\ phase = "dedup"
    /\ phase' = "match"
    /\ items' = KeepFirst(items, Key)
    /\ UNCHANGED <<format, text, rules, at, scanner, loops>>

\* The words a rule is matched against.
Target(i) == {<<"name", i.name>>, <<"version", i.version>>, <<"ecosystem", i.ecosystem>>,
              <<"purl", i.purl>>}

FirstRule_NotReset == rule
FirstRule == 0

inventory_detection ==
    /\ phase = "match" /\ item <= Len(items) /\ rule = 0
    /\ out' = Append(out, [item |-> item, rule |-> 0])
    /\ rule' = 1
    /\ UNCHANGED <<format, text, rules, phase, at, scanner, items, item>>

TryRule ==
    /\ phase = "match" /\ item <= Len(items) /\ rule \in DOMAIN rules
    /\ out' = IF rules[rule] \in Target(items[item])
              THEN Append(out, [item |-> item, rule |-> rule]) ELSE out
    /\ rule' = rule + 1
    /\ UNCHANGED <<format, text, rules, phase, at, scanner, items, item>>

NextItem ==
    /\ phase = "match" /\ item <= Len(items) /\ rule > Len(rules)
    /\ item' = item + 1 /\ rule' = FirstRule
    /\ UNCHANGED <<format, text, rules, phase, at, scanner, items, out>>

Return ==
    /\ phase = "match" /\ item > Len(items)
    /\ phase' = "done"
    /\ UNCHANGED <<format, text, rules, at, scanner, items, loops>>

Terminated == phase = "done" /\ UNCHANGED vars

Init ==
    /\ format \in Format /\ text \in Document(format) /\ rules \in Rules
    /\ phase = "parse" /\ at = 1
    /\ section = CASE format \in DOMAIN Sections -> Sections[format][1]
                   [] format = "pnpm-lock.yaml" -> "package" [] OTHER -> "none"
    /\ name = 0 /\ version = "none" /\ current_line = 1 /\ key = 0
    /\ items = << >> /\ item = 1 /\ rule = 0 /\ out = << >>

Next ==
    \/ CargoLine \/ GoLine \/ PoetryLine \/ RequirementLine \/ GradleLockLine \/ GemLockLine
    \/ CargoLockMatch \/ GemfileMatch \/ GemspecMatch \/ GradleMatch \/ PomMatch
    \/ PnpmPackage \/ PnpmDependency \/ PnpmDependencies
    \/ PackageJsonKey \/ PackageLockKey \/ PackageLockPath \/ PipfileKey \/ JsonSection
    \/ CycloneDxComponent \/ SpdxPackage
    \/ Parsed \/ dedup_items
    \/ inventory_detection \/ TryRule \/ NextItem \/ Return
    \/ Terminated

Spec == Init /\ [][Next]_vars
-----------------------------------------------------------------------------
TypeOK ==
    /\ format \in Format /\ phase \in {"parse", "dedup", "match", "done"}
    /\ at \in 1..(Len(text) + 1)
    /\ section \in {"none", "[dependencies]", "[package]", "require", "package", "entry"}
                    \cup UNION {Range(Sections[f]) : f \in DOMAIN Sections}
    /\ name \in 0..Names /\ key \in 0..Names /\ version \in {"none", "1", "2"}
    /\ \A k \in DOMAIN items :
         /\ items[k].name \in 0..Names
         /\ items[k].line \in IF format = "package-lock.json" THEN 0..Len(text) ELSE DOMAIN text
    /\ item \in 1..(Len(items) + 1) /\ rule \in 0..(Len(rules) + 1)
    /\ \A k \in DOMAIN out : out[k].item \in DOMAIN items /\ out[k].rule \in 0..Len(rules)

\* What a document declares, read off the text as a whole.  The latest line
\* before i of one of the kinds:
Latest(i, kinds, kind) ==
    \E h \in 1..(i - 1) :
        /\ text[h].kind = kind /\ kind \in kinds
        /\ \A j \in (h + 1)..(i - 1) : text[j].kind \notin kinds

InPackage(p, j) == p < j /\ \A k \in (p + 1)..j : text[k].kind # "[[package]]"
LastOf(p, kind) == {j \in DOMAIN text : /\ InPackage(p, j) /\ text[j].kind = kind
                                        /\ \A k \in DOMAIN text :
                                             InPackage(p, k) /\ text[k].kind = kind => k <= j}
VersionAt(lines) == IF lines = {} THEN "none" ELSE text[CHOOSE j \in lines : TRUE].version

Declaration(n, v, line) == [name |-> n, version |-> sanitize_version(v), line |-> line]

Declared ==
    CASE format = "Cargo.toml" ->
            {Declaration(text[i].name, text[i].version, i) : i \in {j \in DOMAIN text :
                /\ text[j].kind = "entry"
                /\ Latest(j, {"[dependencies]", "[package]"}, "[dependencies]")}}
      [] format = "go.mod" ->
            {Declaration(text[i].name, text[i].version, i) : i \in {j \in DOMAIN text :
                \/ text[j].kind = "require"
                \/ /\ text[j].kind = "entry"
                   /\ Latest(j, {"require (", ")"}, "require (")}}
      [] format \in {"Cargo.lock", "poetry.lock"} ->
            UNION {{Declaration(text[j].name, VersionAt(LastOf(p, "version")), p)
                      : j \in LastOf(p, "name")}
                   : p \in {q \in DOMAIN text : text[q].kind = "[[package]]"}}
      [] OTHER ->
            {Declaration(text[i].name, StatedVersion(i), i) : i \in {j \in DOMAIN text :
                text[j].name # 0 /\ text[j].kind \notin {"root", "metadata", "nested"}}}

Same(d, e) == d.name = e.name /\ d.version = e.version
First(d) == \A e \in Declared : Same(d, e) => d.line <= e.line

\* An item's line is that of the first line that declares it.  What a search
\* with leading white space finds is reported at the blank lines before it, and
\* pnpm is searched for packages before dependencies.
BlankBefore == {"Gemfile", "gemspec", "build.gradle", "pnpm-lock.yaml"}
LineRight(i) ==
    IF format \in BlankBefore
    THEN \E d \in Declared : /\ Same(d, i) /\ i.line <= d.line
                             /\ \A j \in i.line..(d.line - 1) : text[j].kind = "blank"
    ELSE \A d \in Declared : Same(d, i) /\ First(d) => i.line = d.line

Inventoried == {<<items[k].name, items[k].version>> : k \in {j \in DOMAIN items : items[j].name # 0}}
Stated(ds) == {<<d.name, d.version>> : d \in ds}

\* An indented gem behind one that states no version.
Hidden(i) ==
    /\ format = "Gemfile" /\ text[i].kind = "indented"
    /\ \E h \in 1..(i - 1) : /\ text[h].kind \in Sought /\ text[h].version = "none"
                            /\ \A k \in (h + 1)..(i - 1) : text[k].kind = "blank"

\* The items of a document are what it declares, every name and version once,
\* and where the parser does not search a JSON text for it, with the right line:
\* no state of the parser leaks from one section, block, package or match into
\* another.  Known limits are left out: a comment in a Go block gives an item
\* named // and a setting in a pnpm lock one of its name, a Cargo header with a
\* comment after it is no header to the parser, the version of a requirement
\* with extras and that of a pretty pom.xml is unknown, and hidden gems are lost.
InventoryExact ==
    phase \in {"match", "done"} =>
        /\ Inventoried \subseteq Stated(Declared)
        /\ Stated({d \in Declared : ~Hidden(d.line)}) \subseteq Inventoried
        /\ \A j, k \in DOMAIN items : Key(items[j]) = Key(items[k]) => j = k
        /\ format \notin DOMAIN Sections \cup {"sbom"} =>
               \A k \in DOMAIN items : items[k].name # 0 => LineRight(items[k])

\* Each item is in the inventory once, before the findings about it, which are
\* those of the rules that match it, in the order of the rules.
DetectionsExact ==
    phase = "done" =>
        /\ \A k \in DOMAIN items : \A r \in 0..Len(rules) :
             Cardinality({j \in DOMAIN out : out[j] = [item |-> k, rule |-> r]})
               = IF r = 0 \/ rules[r] \in Target(items[k]) THEN 1 ELSE 0
        /\ \A i, j \in DOMAIN out : i < j =>
             \/ out[i].item < out[j].item
             \/ /\ out[i].item = out[j].item
                /\ out[i].rule < out[j].rule

\* README.md: "Dependency inventory extracted from manifests and SBOM files",
\* the Gemfile being one of them: no gem it names is missing.
GemfileComplete ==
    (phase \in {"match", "done"} /\ format = "Gemfile") => Stated(Declared) \subseteq Inventoried
=============================================================================
