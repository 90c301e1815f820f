-------------------------- MODULE Manifests_proofs --------------------------
(***************************************************************************)
(* Theorems about Manifests, for documents of any length, any names, rules  *)
(* and formats.                                                             *)
(***************************************************************************)
EXTENDS Manifests, Operators_proofs, SequenceTheorems

\* The formats whose items have the very line that declares them.
Exact == Format \ (BlankBefore \cup DOMAIN Sections \cup {"sbom"})

\* The item is about the declaration, at its line or the blank lines before it.
Tells(i, d) ==
    /\ i.name = d.name /\ i.version = d.version
    /\ format \in Exact => i.line = d.line
    /\ format \in BlankBefore =>
         i.line <= d.line /\ \A j \in i.line..(d.line - 1) : text[j].kind = "blank"

\* The JSON section s is behind the loop over sections.
Behind(s) == \E i, j \in DOMAIN Sections[format] \cup {Len(Sections[format]) + 1} :
    /\ i < j /\ i \in DOMAIN Sections[format] /\ Sections[format][i] = s
    /\ IF j \in DOMAIN Sections[format] THEN section = Sections[format][j] ELSE section = "none"

\* The parser is past the declaration.
Handled(d) ==
    CASE format = "poetry.lock" -> d.line < current_line
      [] format \in DOMAIN Sections ->
            \/ Behind(text[d.line].kind)
            \/ text[d.line].kind = section /\ d.name <= key
      [] format = "pnpm-lock.yaml" ->
            \/ text[d.line].kind = "package" /\ section = "entry"
            \/ text[d.line].kind = section /\ d.line < at
      [] OTHER -> d.line < at

HandledSet == {d \in Declared : Handled(d)}
Bound == IF format = "poetry.lock" THEN current_line ELSE at

Version == {"none", "1", "2", "^1"}
Items == {Item(n, v, g, l) : n \in 0..Names, v \in Version, g \in 0..Names, l \in Nat}

\* The items are of declarations, those in H are among the items, and where
\* lines are exact the items are in the order of lines, which are below b.
Collected(its, H, b) ==
    /\ its \in Seq(Items)
    /\ \A k \in DOMAIN its : its[k].name # 0 => \E d \in Declared : Tells(its[k], d)
    /\ \A d \in H : Hidden(d.line) \/ \E k \in DOMAIN its : Tells(its[k], d)
    /\ format \in Exact =>
         /\ \A k \in DOMAIN its : its[k].line < b
         /\ \A j, k \in DOMAIN its : j < k => its[j].line < its[k].line

\* Each name and version of H is an item, once, from its first line.
Deduplicated ==
    /\ items \in Seq(Items)
    /\ \A k \in DOMAIN items : items[k].name # 0 => \E d \in Declared : Tells(items[k], d)
    /\ \A d \in Declared : Hidden(d.line) \/ \E k \in DOMAIN items : Same(d, items[k])
    /\ \A j, k \in DOMAIN items : Key(items[j]) = Key(items[k]) => j = k
    /\ format \in Exact =>
         \A k \in DOMAIN items : items[k].name # 0 =>
            \A d \in Declared : Same(d, items[k]) => items[k].line <= d.line

Given == format \in Format /\ text \in Document(format) /\ rules \in Rules

Lined == \A k \in DOMAIN items :
    items[k].line \in IF format = "package-lock.json" THEN 0..Len(text) ELSE DOMAIN text

SectionOf(f) ==
    CASE f = "Cargo.toml" -> {"none", "[dependencies]", "[package]"}
      [] f = "go.mod" -> {"none", "require"}
      [] f = "pnpm-lock.yaml" -> {"package", "entry"}
      [] f \in DOMAIN Sections -> Range(Sections[f]) \cup {"none"}
      [] OTHER -> {"none"}

Positions ==
    /\ phase \in {"parse", "dedup", "match", "done"}
    /\ at \in 1..(Len(text) + 1) /\ current_line \in 1..(Len(text) + 1)
    /\ current_line <= at /\ (format # "poetry.lock" => current_line = 1)
    /\ name \in 0..Names /\ key \in 0..Names /\ version \in {"none", "1", "2"}
    /\ section \in SectionOf(format)

\* What the scanners carry from line to line is said by the lines before.
InSection ==
    /\ format = "Cargo.toml" =>
         (section = "[dependencies]" <=> Latest(at, {"[dependencies]", "[package]"}, "[dependencies]"))
    /\ format = "go.mod" => (section = "require" <=> Latest(at, {"require (", ")"}, "require ("))

LastBefore(j, kind) ==
    /\ j \in current_line..(at - 1) /\ text[j].kind = kind
    /\ \A k \in (j + 1)..(at - 1) : text[k].kind # kind

InPoetry ==
    format = "poetry.lock" =>
    /\ at = 1 => current_line = 1 /\ name = 0 /\ version = "none"
    /\ at > 1 =>
         /\ current_line < at /\ text[current_line].kind = "[[package]]"
         /\ \A k \in (current_line + 1)..(at - 1) : text[k].kind # "[[package]]"
         /\ IF name = 0 THEN \A k \in current_line..(at - 1) : text[k].kind # "name"
            ELSE \E j \in DOMAIN text : LastBefore(j, "name") /\ text[j].name = name
         /\ IF version = "none" THEN \A k \in current_line..(at - 1) : text[k].kind # "version"
            ELSE \E j \in DOMAIN text : LastBefore(j, "version") /\ text[j].version = version

Gathered ==
    /\ phase = "parse" => InSection /\ InPoetry /\ Collected(items, HandledSet, Bound)
    /\ phase = "dedup" => Collected(items, Declared, Len(text) + 1)
    /\ phase \in {"match", "done"} => Deduplicated

\* The detection of a rule, or of the inventory, for an item is due.
Due(k, r) == r = 0 \/ rules[r] \in Target(items[k])
Passed(k, r) == k < item \/ (k = item /\ r < rule)

Detected ==
    /\ item \in Nat \ {0} /\ rule \in 0..(Len(rules) + 1)
    /\ phase \in {"parse", "dedup"} => item = 1 /\ rule = 0 /\ out = << >>
    /\ item \in 1..(Len(items) + 1)
    /\ phase = "done" => item > Len(items)
    /\ out \in Seq([item : Nat, rule : Nat])
    /\ \A j \in DOMAIN out :
         /\ out[j].item \in DOMAIN items /\ out[j].rule \in 0..Len(rules)
         /\ Due(out[j].item, out[j].rule) /\ Passed(out[j].item, out[j].rule)
    /\ \A k \in DOMAIN items : \A r \in 0..Len(rules) :
         Due(k, r) /\ Passed(k, r) => \E j \in DOMAIN out : out[j] = [item |-> k, rule |-> r]
    /\ \A i, j \in DOMAIN out : i < j =>
         \/ out[i].item < out[j].item
         \/ out[i].item = out[j].item /\ out[i].rule < out[j].rule

Inv == Given /\ Positions /\ Lined /\ Gathered /\ Detected
-----------------------------------------------------------------------------
\* A document is a sequence of lines.
LEMMA TextIs ==
    ASSUME Given
    PROVE  \E n \in Nat : /\ n = Len(text) /\ DOMAIN text = 1..n
                          /\ \A i \in 1..n : text[i] \in Line[format]
                          /\ WellFormed(format, text)
BY ManifestsAssumption DEF Given, Document

\* What a document declares does not change.
Fixed == <<format, text, rules>>

LEMMA FixedKept ==
    ASSUME UNCHANGED Fixed
    PROVE  /\ Declared' = Declared
           /\ \A i, d : Tells(i, d)' <=> Tells(i, d)
           /\ \A i : Hidden(i)' <=> Hidden(i)
           /\ \A i : StatedVersion(i)' = StatedVersion(i)
           /\ \A i, k, x : Latest(i, k, x)' <=> Latest(i, k, x)
<1>1. format' = format /\ text' = text
  BY DEF Fixed
<1>2. \A i : StatedVersion(i)' = StatedVersion(i)
  BY <1>1 DEF StatedVersion
<1>3. \A i, k, x : Latest(i, k, x)' <=> Latest(i, k, x)
  BY <1>1 DEF Latest
<1>4. \A p, j : InPackage(p, j)' <=> InPackage(p, j)
  BY <1>1 DEF InPackage
<1>5. \A p, kind : LastOf(p, kind)' = LastOf(p, kind)
  BY <1>1, <1>4 DEF LastOf
<1>6. \A lines : VersionAt(lines)' = VersionAt(lines)
  BY <1>1 DEF VersionAt
<1>7. Declared' = Declared
  <2>1. CASE format = "Cargo.toml"
    BY <2>1, <1>1, <1>3 DEF Declared
  <2>2. CASE format = "go.mod"
    BY <2>2, <1>1, <1>3 DEF Declared
  <2>3. CASE format \in {"Cargo.lock", "poetry.lock"}
    BY <2>3, <1>1, <1>5, <1>6 DEF Declared
  <2>4. CASE format \notin {"Cargo.toml", "go.mod", "Cargo.lock", "poetry.lock"}
    BY <2>4, <1>1, <1>2 DEF Declared
  <2>5. QED
    BY <2>1, <2>2, <2>3, <2>4
<1>8. \A i : Hidden(i)' <=> Hidden(i)
  BY <1>1 DEF Hidden, Sought
<1>9. \A i, d : Tells(i, d)' <=> Tells(i, d)
  BY <1>1 DEF Tells
<1>10. QED
  BY <1>2, <1>3, <1>7, <1>8, <1>9

\* The kinds of the JSON sections.
LEMMA SectionsAre ==
    /\ DOMAIN Sections = {"package.json", "package-lock.json", "Pipfile.lock"}
    /\ Sections["package.json"] =
         <<"dependencies", "devDependencies", "peerDependencies", "optionalDependencies">>
    /\ Sections["package-lock.json"] = <<"dependencies", "packages">>
    /\ Sections["Pipfile.lock"] = <<"default", "develop">>
BY DEF Sections

LEMMA RangesAre ==
    /\ Range(Sections["package.json"]) =
         {"dependencies", "devDependencies", "peerDependencies", "optionalDependencies"}
    /\ Range(Sections["package-lock.json"]) = {"dependencies", "packages"}
    /\ Range(Sections["Pipfile.lock"]) = {"default", "develop"}
BY SectionsAre DEF Range

\* The sections a parser can be in.
LEMMA SectionOfIs ==
    /\ SectionOf("Cargo.toml") = {"none", "[dependencies]", "[package]"}
    /\ SectionOf("go.mod") = {"none", "require"}
    /\ SectionOf("pnpm-lock.yaml") = {"package", "entry"}
    /\ \A f \in DOMAIN Sections : SectionOf(f) = Range(Sections[f]) \cup {"none"}
    /\ \A f : f \notin {"Cargo.toml", "go.mod", "pnpm-lock.yaml"} \cup DOMAIN Sections => SectionOf(f) = {"none"}
<1>1. SectionOf("Cargo.toml") = {"none", "[dependencies]", "[package]"}
  BY SectionsAre DEF SectionOf
<1>2. SectionOf("go.mod") = {"none", "require"}
  BY SectionsAre DEF SectionOf
<1>3. SectionOf("pnpm-lock.yaml") = {"package", "entry"}
  BY SectionsAre DEF SectionOf
<1>4. \A f \in DOMAIN Sections : SectionOf(f) = Range(Sections[f]) \cup {"none"}
  BY SectionsAre DEF SectionOf
<1>5. \A f : f \notin {"Cargo.toml", "go.mod", "pnpm-lock.yaml"} \cup DOMAIN Sections => SectionOf(f) = {"none"}
  BY SectionsAre DEF SectionOf
<1>6. QED
  BY <1>1, <1>2, <1>3, <1>4, <1>5

\* What the lines of each format are.
Typed(t) == t.name \in 0..Names /\ t.version \in Version /\ t.group \in 0..Names

LEMMA NamesAre == 0 \in 0..Names /\ 0 \notin Name /\ \A n \in Name : n \in 0..Names /\ n # 0
BY ManifestsAssumption DEF Name

LEMMA CargoTomlLine ==
    ASSUME NEW t \in Line["Cargo.toml"]
    PROVE  /\ Typed(t)
           /\ t.kind \in {"entry", "blank", "[dependencies]", "[package]", "[dependencies] #"}
           /\ t.kind = "entry" <=> t.name \in Name
           /\ t.kind # "entry" <=> t.name = 0
<1>1. Line["Cargo.toml"] =
          Lines({"entry"}, Name, {"1", "^1", "none"}, {0})
            \cup Others({"blank", "[dependencies]", "[package]", "[dependencies] #"})
  BY DEF Line, Format, Gems, Npm, Python, Sections
<1>2. QED
  BY <1>1, NamesAre DEF Lines, Others, Version, Typed

LEMMA GoModLine ==
    ASSUME NEW t \in Line["go.mod"]
    PROVE  /\ Typed(t)
           /\ t.kind \in {"entry", "require", "blank", "comment", "require (", ")"}
           /\ t.kind \in {"entry", "require"} <=> t.name \in Name
           /\ t.kind \notin {"entry", "require"} <=> t.name = 0
<1>1. Line["go.mod"] =
          Lines({"entry", "require"}, Name, {"1", "2"}, {0})
            \cup Others({"blank", "comment", "require (", ")"})
  BY DEF Line, Format, Gems, Npm, Python, Sections
<1>2. QED
  BY <1>1, NamesAre DEF Lines, Others, Version, Typed

LEMMA CargoLockLine ==
    ASSUME NEW t \in Line["Cargo.lock"]
    PROVE  /\ Typed(t)
           /\ t.kind \in {"name", "version", "blank", "[[package]]"}
           /\ t.kind = "name" <=> t.name \in Name
           /\ t.kind = "version" => t.version \in {"1", "2"}
<1>1. Line["Cargo.lock"] =
          Lines({"name"}, Name, {"none"}, {0}) \cup Lines({"version"}, {0}, {"1", "2"}, {0})
            \cup Others({"blank", "[[package]]"})
  BY DEF Line, Format, Gems, Npm, Python, Sections
<1>2. QED
  BY <1>1, NamesAre DEF Lines, Others, Version, Typed

LEMMA PoetryLockLine ==
    ASSUME NEW t \in Line["poetry.lock"]
    PROVE  /\ Typed(t)
           /\ t.kind \in {"name", "version", "blank", "[[package]]"}
           /\ t.kind = "name" <=> t.name \in Name
           /\ t.kind = "version" => t.version \in {"1", "2"}
<1>1. Line["poetry.lock"] =
          Lines({"name"}, Name, {"none"}, {0}) \cup Lines({"version"}, {0}, {"1", "2"}, {0})
            \cup Others({"blank", "[[package]]"})
  BY DEF Line, Format, Gems, Npm, Python, Sections
<1>2. QED
  BY <1>1, NamesAre DEF Lines, Others, Version, Typed

LEMMA RequirementsLine ==
    ASSUME NEW t \in Line["requirements.txt"]
    PROVE  /\ Typed(t)
           /\ t.kind \in {"entry", "extra", "blank", "comment"}
           /\ t.kind \in {"entry", "extra"} <=> t.name \in Name
           /\ t.kind \notin {"entry", "extra"} <=> t.name = 0
<1>1. Line["requirements.txt"] =
          Lines({"entry"}, Name, {"1", "none"}, {0}) \cup Lines({"extra"}, Name, {"1"}, {0})
            \cup Others({"blank", "comment"})
  BY DEF Line, Format, Gems, Npm, Python, Sections
<1>2. QED
  BY <1>1, NamesAre DEF Lines, Others, Version, Typed

LEMMA GemfileLockLine ==
    ASSUME NEW t \in Line["Gemfile.lock"]
    PROVE  /\ Typed(t)
           /\ t.kind \in {"entry", "nested", "blank"}
           /\ t.kind \in {"entry", "nested"} <=> t.name \in Name
           /\ t.kind = "blank" <=> t.name = 0
<1>1. Line["Gemfile.lock"] =
          Lines({"entry", "nested"}, Name, {"1", "none"}, {0}) \cup Others({"blank"})
  BY DEF Line, Format, Gems, Npm, Python, Sections
<1>2. QED
  BY <1>1, NamesAre DEF Lines, Others, Version, Typed

LEMMA GemfileLine ==
    ASSUME NEW t \in Line["Gemfile"]
    PROVE  /\ Typed(t)
           /\ t.kind \in {"entry", "indented", "blank", "comment"}
           /\ t.kind \in {"entry", "indented"} <=> t.name \in Name
           /\ t.kind \in {"blank", "comment"} <=> t.name = 0
<1>1. Line["Gemfile"] =
          Lines({"entry", "indented"}, Name, {"1", "none"}, {0})
            \cup Others({"blank", "comment"})
  BY DEF Line, Format, Gems, Npm, Python, Sections
<1>2. QED
  BY <1>1, NamesAre DEF Lines, Others, Version, Typed

LEMMA GemspecLine ==
    ASSUME NEW t \in Line["gemspec"]
    PROVE  /\ Typed(t)
           /\ t.kind \in {"entry", "blank", "comment"}
           /\ t.kind = "entry" <=> t.name \in Name
           /\ t.kind \in {"blank", "comment"} <=> t.name = 0
<1>1. Line["gemspec"] =
          Lines({"entry"}, Name, {"1", "none"}, {0}) \cup Others({"blank", "comment"})
  BY DEF Line, Format, Gems, Npm, Python, Sections
<1>2. QED
  BY <1>1, NamesAre DEF Lines, Others, Version, Typed

LEMMA GradleLine ==
    ASSUME NEW t \in Line["build.gradle"]
    PROVE  /\ Typed(t)
           /\ t.kind \in {"entry", "blank", "comment"}
           /\ t.kind = "entry" <=> t.name \in Name
           /\ t.kind \in {"blank", "comment"} <=> t.name = 0
<1>1. Line["build.gradle"] =
          Lines({"entry"}, Name, {"1", "2"}, {0}) \cup Others({"blank", "comment"})
  BY DEF Line, Format, Gems, Npm, Python, Sections
<1>2. QED
  BY <1>1, NamesAre DEF Lines, Others, Version, Typed

LEMMA GradleLockfileLine ==
    ASSUME NEW t \in Line["gradle.lockfile"]
    PROVE  /\ Typed(t)
           /\ t.kind \in {"entry", "blank", "comment"}
           /\ t.kind = "entry" <=> t.name \in Name
           /\ t.kind \in {"blank", "comment"} <=> t.name = 0
<1>1. Line["gradle.lockfile"] =
          Lines({"entry"}, Name, {"1", "2"}, {0}) \cup Others({"blank", "comment"})
  BY DEF Line, Format, Gems, Npm, Python, Sections
<1>2. QED
  BY <1>1, NamesAre DEF Lines, Others, Version, Typed

LEMMA PnpmLockLine ==
    ASSUME NEW t \in Line["pnpm-lock.yaml"]
    PROVE  /\ Typed(t)
           /\ t.kind \in {"package", "entry", "blank", "dependencies: {}"}
           /\ t.kind = "package" => t.name \in Name
           /\ t.kind \in {"blank", "dependencies: {}"} => t.name = 0
<1>1. Line["pnpm-lock.yaml"] =
          Lines({"package", "entry"}, Name, {"1", "2"}, {0}) \cup Lines({"entry"}, {0}, {"1"}, {0})
            \cup Others({"blank", "dependencies: {}"})
  BY DEF Line, Format, Gems, Npm, Python, Sections
<1>2. QED
  BY <1>1, NamesAre DEF Lines, Others, Version, Typed

LEMMA PomLine ==
    ASSUME NEW t \in Line["pom.xml"]
    PROVE  /\ Typed(t)
           /\ t.kind \in {"compact", "pretty", "comment"}
           /\ t.kind \in {"compact", "pretty"} <=> t.name \in Name
           /\ t.kind = "comment" <=> t.name = 0
<1>1. Line["pom.xml"] =
          Lines({"compact", "pretty"}, Name, {"1", "2"}, {0}) \cup Others({"comment"})
  BY DEF Line, Format, Gems, Npm, Python, Sections
<1>2. QED
  BY <1>1, NamesAre DEF Lines, Others, Version, Typed

LEMMA SbomLine ==
    ASSUME NEW t \in Line["sbom"]
    PROVE  /\ Typed(t)
           /\ t.kind \in {"metadata", "component", "package"}
           /\ t.name \in Name
<1>1. Line["sbom"] =
          Lines({"metadata"}, Name, {"none"}, {0})
            \cup Lines({"component", "package"}, Name, {"1", "2"}, 0..Names)
  BY DEF Line, Format, Gems, Npm, Python, Sections
<1>2. QED
  BY <1>1, NamesAre DEF Lines, Others, Version, Typed

LEMMA PackageLockLine ==
    ASSUME NEW t \in Line["package-lock.json"]
    PROVE  /\ Typed(t)
           /\ t.kind \in {"root", "dependencies", "packages"}
           /\ t.name \in Name
<1>1. Line["package-lock.json"] =
          Lines({"root", "dependencies"}, Name, {"1"}, {0})
            \cup Lines({"packages"}, Name, {"1", "2"}, 0..1)
  BY DEF Line, Format, Gems, Npm, Python, Sections
<1>2. t.name \in Name /\ t.group \in 0..1
  BY <1>1 DEF Lines
<1>3. t.name \in 0..Names /\ t.group \in 0..Names
  BY <1>1, <1>2, ManifestsAssumption DEF Lines, Name
<1>4. QED
  BY <1>1, <1>2, <1>3 DEF Lines, Version, Typed

LEMMA PackageJsonLine ==
    ASSUME NEW t \in Line["package.json"]
    PROVE  /\ Typed(t)
           /\ t.kind \in {"root"} \cup Range(Sections["package.json"])
           /\ t.name \in Name
<1>1. PICK R : R = {"root"} \cup Range(Sections["package.json"])
  OBVIOUS
<1>2. t \in Lines(R, Name, {"1", "^1"}, {0})
  BY <1>1 DEF Line, Format, Gems, Npm, Python, Sections
<1>3. t.kind \in R /\ t.name \in Name /\ t.version \in {"1", "^1"} /\ t.group = 0
  BY <1>2 DEF Lines
<1>4. QED
  BY <1>1, <1>3, NamesAre DEF Version, Typed

LEMMA PipfileLine ==
    ASSUME NEW t \in Line["Pipfile.lock"]
    PROVE  /\ Typed(t)
           /\ t.kind \in {"root"} \cup Range(Sections["Pipfile.lock"])
           /\ t.name \in Name
<1>1. PICK R : R = {"root"} \cup Range(Sections["Pipfile.lock"])
  OBVIOUS
<1>2. t \in Lines(R, Name, {"1", "^1"}, {0})
  BY <1>1 DEF Line, Format, Gems, Npm, Python, Sections
<1>3. t.kind \in R /\ t.name \in Name /\ t.version \in {"1", "^1"} /\ t.group = 0
  BY <1>2 DEF Lines
<1>4. QED
  BY <1>1, <1>3, NamesAre DEF Version, Typed

LEMMA LineTyped == ASSUME NEW f \in Format, NEW t \in Line[f] PROVE Typed(t)
BY CargoTomlLine, GoModLine, CargoLockLine, PoetryLockLine, RequirementsLine,
   GemfileLockLine, GemfileLine, GemspecLine, GradleLine, GradleLockfileLine,
   PnpmLockLine, PomLine, SbomLine, PackageLockLine, PackageJsonLine,
   PipfileLine
   DEF Format, Gems, Npm, Python

\* A declaration is at a line, and says what it does of a name.
LEMMA DeclaredAt ==
    ASSUME Given, NEW d \in Declared
    PROVE  /\ d.line \in DOMAIN text /\ d.name \in Name
           /\ format \notin {"Cargo.lock", "poetry.lock"} =>
                /\ d.name = text[d.line].name
                /\ d.version = sanitize_version(StatedVersion(d.line))
           /\ format \in {"Cargo.lock", "poetry.lock"} =>
                /\ text[d.line].kind = "[[package]]"
                /\ \E j \in LastOf(d.line, "name") : d.name = text[j].name
                /\ d.version = sanitize_version(VersionAt(LastOf(d.line, "version")))
           /\ format = "Cargo.toml" =>
                /\ text[d.line].kind = "entry"
                /\ Latest(d.line, {"[dependencies]", "[package]"}, "[dependencies]")
           /\ format = "go.mod" =>
                \/ text[d.line].kind = "require"
                \/ /\ text[d.line].kind = "entry"
                   /\ Latest(d.line, {"require (", ")"}, "require (")
           /\ format \notin {"Cargo.toml", "go.mod", "Cargo.lock", "poetry.lock"} =>
                text[d.line].kind \notin {"root", "metadata", "nested"}
<1>1. PICK n \in Nat : n = Len(text) /\ DOMAIN text = 1..n /\ \A i \in 1..n : text[i] \in Line[format]
  BY TextIs
<1>2. format \in Format
  BY DEF Given
<1>3. \A i \in 1..n : Typed(text[i])
  BY <1>1, <1>2, LineTyped
<1>4. CASE format = "Cargo.toml"
  <2>1. \A i \in 1..n : text[i].kind = "entry" => text[i].name \in Name
    BY <1>1, <1>4, CargoTomlLine
  <2>2. PICK j \in DOMAIN text :
          /\ text[j].kind = "entry"
          /\ Latest(j, {"[dependencies]", "[package]"}, "[dependencies]")
          /\ d = Declaration(text[j].name, text[j].version, j)
    BY <1>4 DEF Declared
  <2>3. QED
    BY <1>1, <1>4, <2>1, <2>2 DEF Declaration, StatedVersion
<1>5. CASE format = "go.mod"
  <2>1. \A i \in 1..n : text[i].kind \in {"entry", "require"} => text[i].name \in Name
    BY <1>1, <1>5, GoModLine
  <2>2. PICK j \in DOMAIN text :
          /\ \/ text[j].kind = "require"
             \/ /\ text[j].kind = "entry"
                /\ Latest(j, {"require (", ")"}, "require (")
          /\ d = Declaration(text[j].name, text[j].version, j)
    BY <1>5 DEF Declared
  <2>3. QED
    BY <1>1, <1>5, <2>1, <2>2 DEF Declaration, StatedVersion
<1>6. CASE format \in {"Cargo.lock", "poetry.lock"}
  <2>1. \A i \in 1..n : text[i].kind = "name" => text[i].name \in Name
    BY <1>1, <1>6, CargoLockLine, PoetryLockLine
  <2>2. PICK p, j :
          /\ p \in DOMAIN text /\ text[p].kind = "[[package]]" /\ j \in LastOf(p, "name")
          /\ d = Declaration(text[j].name, VersionAt(LastOf(p, "version")), p)
    BY <1>6 DEF Declared
  <2>3. j \in DOMAIN text /\ text[j].kind = "name"
    BY <2>2 DEF LastOf
  <2>4. QED
    BY <1>1, <1>6, <2>1, <2>2, <2>3 DEF Declaration
<1>7. CASE format \notin {"Cargo.toml", "go.mod", "Cargo.lock", "poetry.lock"}
  <2>1. PICK j \in DOMAIN text :
          /\ text[j].name # 0 /\ text[j].kind \notin {"root", "metadata", "nested"}
          /\ d = Declaration(text[j].name, StatedVersion(j), j)
    BY <1>7 DEF Declared
  <2>2. text[j].name \in Name
    BY <1>1, <1>3, <2>1, ManifestsAssumption DEF Name, Typed
  <2>3. QED
    BY <1>1, <1>7, <2>1, <2>2 DEF Declaration
<1>8. QED
  BY <1>4, <1>5, <1>6, <1>7

\* Items, and what they say.
LEMMA ItemIs ==
    ASSUME NEW n \in 0..Names, NEW v \in Version, NEW g \in 0..Names, NEW l \in Nat,
           NEW i, i = Item(n, v, g, l)
    PROVE  /\ i \in Items /\ i.name = n /\ i.version = sanitize_version(v) /\ i.line = l
BY DEF Items, Item

LEMMA ItemsAre ==
    ASSUME NEW i \in Items, format \in Format
    PROVE  /\ i.name \in 0..Names /\ i.line \in Nat
           /\ format # "sbom" => i.ecosystem = Ecosystem[format]
<1>1. PICK n \in 0..Names, v \in Version, g \in 0..Names, l \in Nat : i = Item(n, v, g, l)
  BY DEF Items
<1>2. format # "sbom" => Purl(n, v, g) = <<Ecosystem[format], g, n, sanitize_version(v)>>
  BY DEF Purl
<1>3. \A e, x, y, z : ecosystem_from_purl(<<e, x, y, z>>) = e
  BY DEF ecosystem_from_purl
<1>4. QED
  BY <1>1, <1>2, <1>3 DEF Item

LEMMA ItemsKept ==
    ASSUME UNCHANGED Fixed
    PROVE  Items' = Items /\ \A n, v, g, l : Item(n, v, g, l)' = Item(n, v, g, l)
<1>1. format' = format
  BY DEF Fixed
<1>2. \A n, v, g : Purl(n, v, g)' = Purl(n, v, g)
  BY <1>1 DEF Purl
<1>3. \A n, v, g, l : Item(n, v, g, l)' = Item(n, v, g, l)
  BY <1>2 DEF Item
<1>4. QED
  BY <1>3 DEF Items

\* Pushing an item about a declaration is one declaration more.
LEMMA PushCollects ==
    ASSUME Given, NEW s, NEW H, NEW b \in Nat, Collected(s, H, b),
           NEW i \in Items, NEW K, NEW c \in Nat,
           i.name # 0 => \E d \in Declared : Tells(i, d),
           \A d \in K : d \in H \/ Tells(i, d) \/ Hidden(d.line),
           format \in Exact => b <= i.line /\ i.line < c
    PROVE  Collected(Append(s, i), K, c)
<1>1. PICK n \in Nat : n = Len(s) /\ DOMAIN s = 1..n /\ s \in Seq(Items)
  BY DEF Collected
<1>2. PICK t : t = Append(s, i)
  OBVIOUS
<1>3. /\ t \in Seq(Items) /\ DOMAIN t = 1..(n + 1) /\ t[n + 1] = i
      /\ \A k \in 1..n : t[k] = s[k]
  BY <1>1, <1>2
<1>4. \A k \in DOMAIN t : k \in 1..n \/ k = n + 1
  BY <1>1, <1>3
<1>5. \A k \in DOMAIN t : t[k].name # 0 => \E d \in Declared : Tells(t[k], d)
  BY <1>1, <1>3, <1>4 DEF Collected
<1>6. ASSUME NEW d \in K PROVE Hidden(d.line) \/ \E k \in DOMAIN t : Tells(t[k], d)
  <2>1. CASE d \in H
    <3>1. Hidden(d.line) \/ \E k \in 1..n : Tells(s[k], d)
      BY <2>1, <1>1 DEF Collected
    <3>2. QED
      BY <3>1, <1>3
  <2>2. CASE Tells(i, d)
    BY <2>2, <1>3
  <2>3. QED
    BY <2>1, <2>2
<1>7. ASSUME format \in Exact
      PROVE  /\ \A k \in DOMAIN t : t[k].line < c
             /\ \A j, k \in DOMAIN t : j < k => t[j].line < t[k].line
  <2>1. /\ \A k \in 1..n : s[k].line < b /\ s[k] \in Items
        /\ \A j, k \in 1..n : j < k => s[j].line < s[k].line
    BY <1>1, <1>7 DEF Collected
  <2>2. \A k \in 1..n : s[k].line \in Nat
    BY <2>1, ItemsAre DEF Given
  <2>3. i.line \in Nat /\ b <= i.line /\ i.line < c
    BY <1>7, ItemsAre DEF Given
  <2>4. \A k \in 1..n : s[k].line < i.line
    BY <2>1, <2>2, <2>3
  <2>5. \A k \in DOMAIN t : t[k].line < c
    BY <1>3, <1>4, <2>2, <2>3, <2>4
  <2>6. ASSUME NEW j \in DOMAIN t, NEW k \in DOMAIN t, j < k PROVE t[j].line < t[k].line
    <3>1. j \in 1..n
      BY <2>6, <1>1, <1>3
    <3>2. QED
      BY <2>1, <2>4, <2>6, <3>1, <1>3, <1>4
  <2>7. QED
    BY <2>5, <2>6
<1>8. QED
  BY <1>2, <1>3, <1>5, <1>6, <1>7 DEF Collected

\* Pushing nothing may pass lines that declare nothing.
LEMMA NothingPushed ==
    ASSUME Given, NEW s, NEW H, NEW b \in Nat, Collected(s, H, b), NEW K, NEW c \in Nat,
           \A d \in K : d \in H \/ Hidden(d.line), format \in Exact => b <= c
    PROVE  Collected(s, K, c)
<1>1. \A k \in DOMAIN s : s[k].line \in Nat
  BY ItemsAre DEF Collected, Given
<1>2. \A d \in K : Hidden(d.line) \/ \E k \in DOMAIN s : Tells(s[k], d)
  BY DEF Collected
<1>3. format \in Exact => \A k \in DOMAIN s : s[k].line < c
  BY <1>1 DEF Collected
<1>4. QED
  BY <1>2, <1>3 DEF Collected

\* To collect is about what does not change, and the items.
LEMMA CollectedKept ==
    ASSUME UNCHANGED Fixed
    PROVE  \A s, H, b : Collected(s, H, b)' <=> Collected(s, H, b)
BY FixedKept, ItemsKept DEF Collected, Fixed

LEMMA NowCollected ==
    ASSUME UNCHANGED Fixed, NEW s, s = items', NEW H, H = HandledSet', NEW b, b = Bound',
           Collected(s, H, b)
    PROVE  Collected(items, HandledSet, Bound)'
BY CollectedKept
-----------------------------------------------------------------------------
\* What a step of a parser has to keep, when it pushes an item and when not.
Parses ==
    /\ phase = "parse" /\ phase' = "parse" /\ UNCHANGED <<Fixed, loops>>
    /\ Positions' /\ InSection' /\ InPoetry'

LEMMA NoneDetected ==
    ASSUME Inv, phase \in {"parse", "dedup"}, phase' \in {"parse", "dedup", "match"}, UNCHANGED <<Fixed, loops>>,
           items' \in Seq(Items)
    PROVE  Given' /\ Detected'
<1>1. item' = 1 /\ rule' = 0 /\ out' = << >> /\ rules' = rules /\ rules \in Seq(Words)
  BY ManifestsAssumption DEF Inv, Detected, loops, Fixed, Given
<1>2. PICK n \in Nat : n = Len(items') /\ DOMAIN items' = 1..n
  OBVIOUS
<1>3. \A k \in DOMAIN items' : \A r \in 0..Len(rules') : ~Passed(k, r)'
  BY <1>1, <1>2 DEF Passed
<1>4. Given'
  BY DEF Inv, Given, Fixed
<1>5. out' \in Seq([item : Nat, rule : Nat]) /\ DOMAIN out' = {}
  BY <1>1
<1>6. item' \in Nat \ {0} /\ item' \in 1..(Len(items') + 1) /\ rule' \in 0..(Len(rules') + 1)
  BY <1>1, <1>2
<1>7. QED
  BY <1>1, <1>3, <1>4, <1>5, <1>6 DEF Detected

LEMMA BoundIs == ASSUME Inv, Parses PROVE Bound \in Nat /\ Bound' \in Nat
<1>1. PICK n \in Nat : n = Len(text) /\ n = Len(text')
  BY TextIs DEF Inv, Parses, Fixed
<1>2. at \in 1..(n + 1) /\ current_line \in 1..(n + 1)
  BY <1>1 DEF Inv, Positions
<1>3. at' \in 1..(n + 1) /\ current_line' \in 1..(n + 1)
  BY <1>1 DEF Parses, Positions
<1>4. QED
  BY <1>2, <1>3 DEF Bound

LEMMA PushStep ==
    ASSUME Inv, Parses, NEW n \in 0..Names, NEW v \in Version, NEW g \in 0..Names, NEW l \in Nat,
           Push(n, v, g, l),
           l \in IF format = "package-lock.json" THEN 0..Len(text) ELSE DOMAIN text,
           n # 0 => \E d \in Declared : Tells(Item(n, v, g, l), d),
           \A d \in HandledSet' : d \in HandledSet \/ Tells(Item(n, v, g, l), d) \/ Hidden(d.line),
           format \in Exact => Bound <= l /\ l < Bound'
    PROVE  Inv'
<1>1. PICK i : i = Item(n, v, g, l)
  OBVIOUS
<1>2. i \in Items /\ i.name = n /\ i.line = l
  BY <1>1, ItemIs
<1>3. PICK s : s = items /\ s \in Seq(Items) /\ items' = Append(s, i)
  BY <1>1 DEF Inv, Gathered, Collected, Parses, Push
<1>4. PICK H, K : H = HandledSet /\ K = HandledSet'
  OBVIOUS
<1>5. PICK b \in Nat, c \in Nat : b = Bound /\ c = Bound'
  BY BoundIs
<1>6. Collected(s, H, b)
  BY <1>3, <1>4, <1>5 DEF Inv, Gathered, Parses
<1>7. i.name # 0 => \E d \in Declared : Tells(i, d)
  BY <1>1, <1>2
<1>8. \A d \in K : d \in H \/ Tells(i, d) \/ Hidden(d.line)
  BY <1>1, <1>4, <1>5
<1>9. format \in Exact => b <= i.line /\ i.line < c
  BY <1>2, <1>4, <1>5
<1>10. Collected(items', K, c)
  BY <1>2, <1>3, <1>6, <1>7, <1>8, <1>9, PushCollects DEF Inv
<1>11. Collected(items, HandledSet, Bound)'
  BY <1>4, <1>5, <1>10, NowCollected DEF Parses
<1>12. items' \in Seq(Items)
  BY <1>2, <1>3
<1>13. Lined'
  <2>1. PICK m \in Nat : m = Len(s) /\ DOMAIN s = 1..m
    BY <1>3
  <2>2. /\ DOMAIN items' = 1..(m + 1) /\ items'[m + 1] = i
        /\ \A k \in 1..m : items'[k] = s[k]
    BY <1>3, <2>1
  <2>3. text' = text /\ format' = format
    BY DEF Parses, Fixed
  <2>4. QED
    BY <1>2, <1>3, <2>1, <2>2, <2>3 DEF Lined, Inv
<1>14. Given' /\ Detected'
  BY <1>12, NoneDetected DEF Parses
<1>15. QED
  BY <1>11, <1>13, <1>14 DEF Inv, Gathered, Parses

LEMMA SilentStep ==
    ASSUME Inv, Parses, items' = items,
           \A d \in HandledSet' : d \in HandledSet \/ Hidden(d.line),
           format \in Exact => Bound <= Bound'
    PROVE  Inv'
<1>1. PICK s : s = items /\ s \in Seq(Items)
  BY DEF Inv, Gathered, Collected, Parses
<1>2. PICK H, K : H = HandledSet /\ K = HandledSet'
  OBVIOUS
<1>3. PICK b \in Nat, c \in Nat : b = Bound /\ c = Bound'
  BY BoundIs
<1>4. Collected(s, H, b)
  BY <1>1, <1>2, <1>3 DEF Inv, Gathered, Parses
<1>5. \A d \in K : d \in H \/ Hidden(d.line)
  BY <1>2
<1>6. format \in Exact => b <= c
  BY <1>3
<1>7. Collected(s, K, c)
  BY <1>4, <1>5, <1>6, NothingPushed DEF Inv
<1>8. Collected(items, HandledSet, Bound)'
  BY <1>1, <1>2, <1>3, <1>7, NowCollected DEF Parses
<1>9. Given' /\ Detected'
  BY <1>1, NoneDetected DEF Parses
<1>10. Lined'
  BY DEF Lined, Inv, Parses, Fixed
<1>11. QED
  BY <1>8, <1>9, <1>10 DEF Inv, Gathered, Parses

\* Where a declaration is handled when its line has been passed.
ByLine == Format \ ({"poetry.lock", "pnpm-lock.yaml"} \cup DOMAIN Sections)

LEMMA HandledByLine ==
    ASSUME format \in ByLine, UNCHANGED Fixed
    PROVE  /\ \A d : d \in HandledSet <=> d \in Declared /\ d.line < at
           /\ \A d : d \in HandledSet' <=> d \in Declared /\ d.line < at'
           /\ Bound = at /\ Bound' = at'
<1>1. \A d : Handled(d) <=> d.line < at
  BY DEF Handled, ByLine
<1>2. format' = format /\ Declared' = Declared
  BY FixedKept DEF Fixed
<1>3. \A d : Handled(d)' <=> d.line < at'
  BY <1>2 DEF Handled, ByLine
<1>4. Bound = at /\ Bound' = at'
  BY <1>2 DEF Bound, ByLine
<1>5. QED
  BY <1>1, <1>2, <1>3, <1>4 DEF HandledSet

\* An item made of a line tells of what the line declares.
LEMMA OwnLine ==
    ASSUME Given, NEW d \in Declared, format \notin {"Cargo.lock", "poetry.lock"},
           NEW j, j = d.line, NEW g \in 0..Names, NEW l \in Nat,
           format \in Exact => l = j,
           format \in BlankBefore => l <= j /\ \A k \in l..(j - 1) : text[k].kind = "blank"
    PROVE  Tells(Item(text[j].name, StatedVersion(j), g, l), d)
<1>1. j \in DOMAIN text /\ d.name = text[j].name /\ d.version = sanitize_version(StatedVersion(j))
  BY DeclaredAt
<1>2. Typed(text[j])
  BY <1>1, TextIs, LineTyped DEF Given
<1>3. text[j].name \in 0..Names /\ StatedVersion(j) \in Version
  BY <1>2 DEF Typed, StatedVersion, Version
<1>4. PICK i : i = Item(text[j].name, StatedVersion(j), g, l)
  OBVIOUS
<1>5. i.name = text[j].name /\ i.version = sanitize_version(StatedVersion(j)) /\ i.line = l
  BY <1>3, <1>4, ItemIs
<1>6. Tells(i, d)
  BY <1>1, <1>5 DEF Tells
<1>7. QED
  BY <1>4, <1>6

\* A line of most formats that states a name declares it.
LEMMA Declares ==
    ASSUME format \notin {"Cargo.toml", "go.mod", "Cargo.lock", "poetry.lock"},
           NEW j \in DOMAIN text, text[j].name # 0,
           text[j].kind \notin {"root", "metadata", "nested"}
    PROVE  \E d \in Declared : d.line = j
<1>1. Declaration(text[j].name, StatedVersion(j), j) \in Declared
  BY DEF Declared
<1>2. Declaration(text[j].name, StatedVersion(j), j).line = j
  BY DEF Declaration
<1>3. QED
  BY <1>1, <1>2
-----------------------------------------------------------------------------
\* The parsers that take each line by itself.
LEMMA Advanced ==
    ASSUME Inv, phase = "parse", Advance
    PROVE  /\ at \in DOMAIN text /\ at \in Nat /\ at' = at + 1 /\ Typed(text[at])
           /\ at' \in 1..(Len(text') + 1)
           /\ current_line \in 1..(Len(text') + 1) /\ current_line <= at' /\ current_line < at + 1
           /\ phase' = "parse" /\ UNCHANGED <<Fixed, loops>>
           /\ format' = format /\ text' = text
           /\ LineNumber = at /\ StatedVersion(at) \in Version
<1>1. PICK n \in Nat : n = Len(text) /\ DOMAIN text = 1..n /\ \A i \in 1..n : text[i] \in Line[format]
  BY TextIs DEF Inv
<1>2. at \in 1..n /\ at' = at + 1
  <2>1. at \in 1..(n + 1)
    BY <1>1 DEF Inv, Positions
  <2>2. QED
    BY <2>1, <1>1 DEF Advance
<1>3. text' = text /\ format' = format /\ phase' = "parse" /\ UNCHANGED <<Fixed, loops>>
  BY DEF Advance, Fixed
<1>4. Typed(text[at])
  BY <1>1, <1>2, LineTyped DEF Inv, Given
<1>5. current_line \in 1..(n + 1) /\ current_line <= at
  BY <1>1 DEF Inv, Positions
<1>6. StatedVersion(at) \in Version
  BY <1>4 DEF StatedVersion, Version, Typed
<1>7. QED
  BY <1>1, <1>2, <1>3, <1>4, <1>5, <1>6 DEF LineNumber

LEMMA HandledNext ==
    ASSUME Inv, phase = "parse", Advance, format \in ByLine
    PROVE  /\ Bound = at /\ Bound' = at + 1
           /\ \A d \in HandledSet' : d \in HandledSet \/ (d \in Declared /\ d.line = at)
<1>1. at \in Nat /\ at' = at + 1 /\ UNCHANGED Fixed
  BY Advanced
<1>2. ASSUME NEW d \in Declared PROVE d.line \in Nat
  <2>1. d.line \in DOMAIN text
    BY DeclaredAt DEF Inv
  <2>2. QED
    BY <2>1, TextIs DEF Inv
<1>3. QED
  BY <1>1, <1>2, HandledByLine

\* The name, version and line of an item pushed for the line the parser is at.
LEMMA PushLine ==
    ASSUME Inv, phase = "parse", Advance, Parses, format \in ByLine,
           format \notin BlankBefore \cup {"Cargo.lock"},
           NEW g \in 0..Names, NEW l \in Nat, format # "sbom" => l = at, l \in DOMAIN text,
           Push(text[at].name, StatedVersion(at), g, l),
           text[at].name # 0 => \E d \in Declared : d.line = at
    PROVE  Inv'
<1>1. /\ at \in DOMAIN text /\ at \in Nat /\ Typed(text[at]) /\ text' = text /\ StatedVersion(at) \in Version
      /\ format' = format
  BY Advanced
<1>2. PICK n \in 0..Names, v \in Version : n = text[at].name /\ v = StatedVersion(at)
  BY <1>1 DEF Typed
<1>3. format # "poetry.lock" /\ format # "package-lock.json" /\ format \notin BlankBefore
  BY SectionsAre DEF ByLine
<1>4. \A d \in Declared : d.line = at => Tells(Item(n, v, g, l), d)
  <2>1. ASSUME NEW d \in Declared, d.line = at PROVE Tells(Item(n, v, g, l), d)
    <3>1. format \in Exact => l = at
      BY DEF Exact
    <3>2. Tells(Item(text[at].name, StatedVersion(at), g, l), d)
      BY <2>1, <3>1, <1>3, OwnLine DEF Inv
    <3>3. QED
      BY <3>2, <1>2
  <2>2. QED
    BY <2>1
<1>5. n # 0 => \E d \in Declared : Tells(Item(n, v, g, l), d)
  BY <1>2, <1>4
<1>6. \A d \in HandledSet' : d \in HandledSet \/ Tells(Item(n, v, g, l), d) \/ Hidden(d.line)
  BY <1>4, HandledNext
<1>7. format \in Exact => Bound <= l /\ l < Bound'
  <2>1. format \in Exact => l = at
    BY DEF Exact
  <2>2. QED
    BY <2>1, <1>1, HandledNext
<1>8. l \in IF format = "package-lock.json" THEN 0..Len(text) ELSE DOMAIN text
  BY <1>3
<1>9. Push(n, v, g, l)
  BY <1>2
<1>10. QED
  BY <1>5, <1>6, <1>7, <1>8, <1>9, PushStep

LEMMA PassLine ==
    ASSUME Inv, phase = "parse", Advance, Parses, format \in ByLine, items' = items,
           \A d \in Declared : d.line # at
    PROVE  Inv'
<1>1. \A d \in HandledSet' : d \in HandledSet \/ Hidden(d.line)
  BY HandledNext
<1>2. Bound <= Bound'
  BY HandledNext, Advanced
<1>3. QED
  BY <1>1, <1>2, SilentStep

LEMMA LineStep == ASSUME Inv, RequirementLine \/ GradleLockLine \/ GemLockLine PROVE Inv'
<1>1. PICK K : /\ K = IF format = "requirements.txt" THEN {"entry", "extra"} ELSE {"entry"}
               /\ TakeLine(K)
  BY DEF RequirementLine, GradleLockLine, GemLockLine, Parsing
<1>2. /\ phase = "parse" /\ format \in {"requirements.txt", "gradle.lockfile", "Gemfile.lock"}
      /\ Advance /\ UNCHANGED scanner
  BY <1>1 DEF RequirementLine, GradleLockLine, GemLockLine, Parsing, TakeLine
<1>3. format \in ByLine /\ format \notin BlankBefore \cup {"Cargo.lock", "sbom"}
  BY <1>2, SectionsAre DEF ByLine, BlankBefore, Format, Gems, Npm, Python
<1>4. /\ at \in DOMAIN text /\ at \in Nat /\ text[at] \in Line[format] /\ text' = text /\ format' = format
      /\ LineNumber = at
  BY <1>2, Advanced, TextIs DEF Inv
<1>5. Parses
  <2>1. Positions'
    BY <1>2, <1>4, Advanced, SectionsAre DEF Inv, Positions, scanner
  <2>2. InSection' /\ InPoetry'
    BY <1>2, <1>4 DEF InSection, InPoetry
  <2>3. QED
    BY <2>1, <2>2, <1>2, Advanced DEF Parses
<1>6. text[at].kind \in K <=> text[at].name # 0 /\ text[at].kind # "nested"
  BY <1>1, <1>2, <1>4, RequirementsLine, GradleLockfileLine, GemfileLockLine, NamesAre
<1>7. CASE text[at].kind \in K
  <2>1. Push(text[at].name, StatedVersion(at), 0, at)
    BY <1>1, <1>4, <1>7 DEF TakeLine, At
  <2>2. \E d \in Declared : d.line = at
    <3>1. text[at].kind \notin {"root", "metadata", "nested"}
      BY <1>1, <1>7
    <3>2. QED
      BY <3>1, <1>2, <1>4, <1>6, <1>7, Declares
  <2>3. QED
    BY <2>1, <2>2, <1>2, <1>3, <1>4, <1>5, PushLine, NamesAre
<1>8. CASE text[at].kind \notin K
  <2>1. ASSUME NEW d \in Declared, d.line = at PROVE FALSE
    <3>1. text[at].name # 0 /\ text[at].kind # "nested"
      BY <1>2, <2>1, DeclaredAt, NamesAre DEF Inv
    <3>2. QED
      BY <3>1, <1>6, <1>8
  <2>2. items' = items
    BY <1>1, <1>8 DEF TakeLine, At
  <2>3. QED
    BY <2>1, <2>2, <1>2, <1>3, <1>5, PassLine
<1>9. QED
  BY <1>7, <1>8
-----------------------------------------------------------------------------
\* The parsers that carry a section: the latest header is at the line just
\* read, or was the latest already.
LEMMA LatestNext ==
    ASSUME NEW i \in Nat, i > 0, NEW K, NEW k \in K
    PROVE  Latest(i + 1, K, k) <=>
             text[i].kind = k \/ (text[i].kind \notin K /\ Latest(i, K, k))
<1>1. ASSUME Latest(i + 1, K, k), text[i].kind # k
      PROVE  text[i].kind \notin K /\ Latest(i, K, k)
  <2>1. PICK h \in 1..i : /\ text[h].kind = k
                          /\ \A j \in (h + 1)..i : text[j].kind \notin K
    BY <1>1 DEF Latest
  <2>2. h \in 1..(i - 1) /\ i \in (h + 1)..i
    BY <2>1, <1>1
  <2>3. QED
    BY <2>1, <2>2 DEF Latest
<1>2. ASSUME text[i].kind = k PROVE Latest(i + 1, K, k)
  <2>1. i \in 1..((i + 1) - 1) /\ \A j \in (i + 1)..((i + 1) - 1) : FALSE
    OBVIOUS
  <2>2. QED
    BY <2>1, <1>2 DEF Latest
<1>3. ASSUME text[i].kind \notin K, Latest(i, K, k) PROVE Latest(i + 1, K, k)
  <2>1. PICK h \in 1..(i - 1) : /\ text[h].kind = k
                                /\ \A j \in (h + 1)..(i - 1) : text[j].kind \notin K
    BY <1>3 DEF Latest
  <2>2. h \in 1..((i + 1) - 1) /\ \A j \in (h + 1)..((i + 1) - 1) : j = i \/ j \in (h + 1)..(i - 1)
    OBVIOUS
  <2>3. QED
    BY <2>1, <2>2, <1>3 DEF Latest
<1>4. QED
  BY <1>1, <1>2, <1>3

LEMMA CargoStep == ASSUME Inv, CargoLine PROVE Inv'
<1>1. phase = "parse" /\ format = "Cargo.toml" /\ Advance
  BY DEF CargoLine, Parsing
<1>2. /\ at \in DOMAIN text /\ at \in Nat /\ at > 0 /\ text[at] \in Line[format] /\ text' = text
      /\ format' = format /\ at' = at + 1 /\ UNCHANGED Fixed /\ LineNumber = at
  <2>1. at \in DOMAIN text /\ text[at] \in Line[format] /\ at > 0
    BY <1>1, Advanced, TextIs DEF Inv
  <2>2. QED
    BY <2>1, <1>1, Advanced
<1>3. format \in ByLine /\ format \notin BlankBefore \cup {"Cargo.lock", "sbom", "poetry.lock"}
  BY <1>1, SectionsAre DEF ByLine, BlankBefore, Format, Gems, Npm, Python
<1>4. PICK K : K = {"[dependencies]", "[package]"}
  OBVIOUS
<1>5. section = "[dependencies]" <=> Latest(at, K, "[dependencies]")
  BY <1>1, <1>4 DEF Inv, Gathered, InSection
<1>6. section' = IF text[at].kind \in K THEN text[at].kind ELSE section
  BY <1>4 DEF CargoLine, At
<1>7. UNCHANGED <<name, version, current_line, key>>
  BY DEF CargoLine
<1>8. section' = "[dependencies]" <=> Latest(at, K, "[dependencies]")'
  <2>1. "[dependencies]" \in K
    BY <1>4
  <2>2. section' = "[dependencies]" <=> Latest(at + 1, K, "[dependencies]")
    BY <1>2, <1>5, <1>6, <2>1, LatestNext
  <2>3. PICK a : a = at' /\ a = at + 1
    BY <1>2
  <2>4. QED
    BY <2>2, <2>3, <1>2, FixedKept
<1>9. Parses
  <2>1. section' \in {"none", "[dependencies]", "[package]"}
    <3>1. section \in SectionOf("Cargo.toml")
      BY <1>1 DEF Inv, Positions
    <3>2. section \in {"none", "[dependencies]", "[package]"}
      BY <3>1, SectionOfIs
    <3>3. QED
      BY <3>2, <1>4, <1>6
  <2>2. Positions'
    <3>1. section' \in SectionOf(format')
      BY <1>1, <1>2, <2>1, SectionOfIs
    <3>2. QED
      BY <1>1, <1>2, <1>7, <3>1, Advanced DEF Inv, Positions
  <2>3. InSection'
    BY <1>1, <1>2, <1>4, <1>8 DEF InSection
  <2>4. InPoetry'
    BY <1>1, <1>2 DEF InPoetry
  <2>5. QED
    BY <2>2, <2>3, <2>4, <1>1, Advanced DEF Parses
<1>10. /\ text[at].kind \in {"entry", "blank", "[dependencies]", "[package]", "[dependencies] #"}
       /\ text[at].kind = "entry" => StatedVersion(at) = text[at].version
  BY <1>1, <1>2, CargoTomlLine DEF StatedVersion
<1>11. CASE text[at].kind = "entry" /\ section = "[dependencies]"
  <2>1. Push(text[at].name, StatedVersion(at), 0, at)
    BY <1>2, <1>10, <1>11 DEF CargoLine, At, is_cargo_dependency_section
  <2>2. \E d \in Declared : d.line = at
    <3>1. Latest(at, {"[dependencies]", "[package]"}, "[dependencies]")
      BY <1>4, <1>5, <1>11
    <3>2. Declaration(text[at].name, text[at].version, at) \in Declared
      BY <1>1, <1>2, <1>11, <3>1 DEF Declared
    <3>3. QED
      BY <3>2 DEF Declaration
  <2>3. QED
    BY <2>1, <2>2, <1>1, <1>2, <1>3, <1>9, PushLine, NamesAre
<1>12. CASE ~(text[at].kind = "entry" /\ section = "[dependencies]")
  <2>1. ASSUME NEW d \in Declared, d.line = at PROVE FALSE
    <3>1. text[at].kind = "entry" /\ Latest(at, {"[dependencies]", "[package]"}, "[dependencies]")
      BY <1>1, <2>1, DeclaredAt DEF Inv
    <3>2. QED
      BY <3>1, <1>4, <1>5, <1>12
  <2>2. items' = items
    BY <1>12 DEF CargoLine, At, is_cargo_dependency_section
  <2>3. QED
    BY <2>1, <2>2, <1>1, <1>3, <1>9, PassLine
<1>13. QED
  BY <1>11, <1>12

LEMMA GoStep == ASSUME Inv, GoLine PROVE Inv'
<1>1. phase = "parse" /\ format = "go.mod" /\ Advance
  BY DEF GoLine, Parsing
<1>2. /\ at \in DOMAIN text /\ at \in Nat /\ at > 0 /\ text[at] \in Line[format] /\ text' = text
      /\ format' = format /\ at' = at + 1 /\ UNCHANGED Fixed /\ LineNumber = at
  <2>1. at \in DOMAIN text /\ text[at] \in Line[format] /\ at > 0
    BY <1>1, Advanced, TextIs DEF Inv
  <2>2. QED
    BY <2>1, <1>1, Advanced
<1>3. format \in ByLine /\ format \notin BlankBefore \cup {"Cargo.lock", "sbom", "poetry.lock"}
  BY <1>1, SectionsAre DEF ByLine, BlankBefore, Format, Gems, Npm, Python
<1>4. PICK K : K = {"require (", ")"}
  OBVIOUS
<1>5. section = "require" <=> Latest(at, K, "require (")
  BY <1>1, <1>4 DEF Inv, Gathered, InSection
<1>6. section' = CASE text[at].kind = "require (" -> "require" [] text[at].kind = ")" -> "none"
                   [] OTHER -> section
  BY DEF GoLine, At
<1>7. UNCHANGED <<name, version, current_line, key>>
  BY DEF GoLine
<1>8. section' = "require" <=> Latest(at, K, "require (")'
  <2>1. "require (" \in K
    BY <1>4
  <2>2. section' = "require" <=> Latest(at + 1, K, "require (")
    BY <1>2, <1>4, <1>5, <1>6, <2>1, LatestNext
  <2>3. PICK a : a = at' /\ a = at + 1
    BY <1>2
  <2>4. QED
    BY <2>2, <2>3, <1>2, FixedKept
<1>9. Parses
  <2>1. section' \in {"none", "require"}
    <3>1. section \in SectionOf("go.mod")
      BY <1>1 DEF Inv, Positions
    <3>2. section \in {"none", "require"}
      BY <3>1, SectionOfIs
    <3>3. QED
      BY <3>2, <1>6
  <2>2. Positions'
    <3>1. section' \in SectionOf(format')
      BY <1>1, <1>2, <2>1, SectionOfIs
    <3>2. QED
      BY <1>1, <1>2, <1>7, <3>1, Advanced DEF Inv, Positions
  <2>3. InSection'
    BY <1>1, <1>2, <1>4, <1>8 DEF InSection
  <2>4. InPoetry'
    BY <1>1, <1>2 DEF InPoetry
  <2>5. QED
    BY <2>2, <2>3, <2>4, <1>1, Advanced DEF Parses
<1>10. StatedVersion(at) = text[at].version /\ (text[at].kind = "comment" => text[at].name = 0)
  BY <1>1, <1>2, GoModLine DEF StatedVersion
<1>11. PICK D : D <=> \/ text[at].kind = "require"
                      \/ section = "require" /\ text[at].kind = "entry"
  OBVIOUS
<1>12. D <=> \E d \in Declared : d.line = at
  <2>1. ASSUME D PROVE \E d \in Declared : d.line = at
    <3>1. \/ text[at].kind = "require"
          \/ text[at].kind = "entry" /\ Latest(at, {"require (", ")"}, "require (")
      BY <1>4, <1>5, <1>11, <2>1
    <3>2. Declaration(text[at].name, text[at].version, at) \in Declared
      BY <1>1, <1>2, <3>1 DEF Declared
    <3>3. QED
      BY <3>2 DEF Declaration
  <2>2. ASSUME NEW d \in Declared, d.line = at PROVE D
    <3>1. \/ text[at].kind = "require"
          \/ text[at].kind = "entry" /\ Latest(at, {"require (", ")"}, "require (")
      BY <1>1, <2>2, DeclaredAt DEF Inv
    <3>2. QED
      BY <3>1, <1>4, <1>5, <1>11
  <2>3. QED
    BY <2>1, <2>2
<1>13. GoTarget <=> D \/ (section = "require" /\ text[at].kind = "comment")
  BY <1>11 DEF GoTarget, At
<1>14. CASE GoTarget
  <2>1. Push(text[at].name, StatedVersion(at), 0, at)
    BY <1>2, <1>10, <1>14 DEF GoLine, At
  <2>2. text[at].name # 0 => \E d \in Declared : d.line = at
    BY <1>10, <1>12, <1>13, <1>14
  <2>3. QED
    BY <2>1, <2>2, <1>1, <1>2, <1>3, <1>9, PushLine, NamesAre
<1>15. CASE ~GoTarget
  <2>1. \A d \in Declared : d.line # at
    BY <1>12, <1>13, <1>15
  <2>2. items' = items
    BY <1>15 DEF GoLine
  <2>3. QED
    BY <2>1, <2>2, <1>1, <1>3, <1>9, PassLine
<1>16. QED
  BY <1>14, <1>15
-----------------------------------------------------------------------------
\* poetry.lock: a package reaches to the next header or the end of the text.
LEMMA LastHere ==
    ASSUME Given, NEW p \in Nat, NEW q \in Nat, NEW kind, kind # "[[package]]",
           p > 0, p < q, q <= Len(text) + 1, text[p].kind = "[[package]]",
           \A k \in (p + 1)..(q - 1) : text[k].kind # "[[package]]",
           q \in DOMAIN text => text[q].kind = "[[package]]"
    PROVE  \A j : j \in LastOf(p, kind) <=>
                    /\ j \in p..(q - 1) /\ text[j].kind = kind
                    /\ \A k \in (j + 1)..(q - 1) : text[k].kind # kind
<1>1. PICK n \in Nat : n = Len(text) /\ DOMAIN text = 1..n
  BY TextIs
<1>2. \A j \in 1..n : InPackage(p, j) <=> j \in (p + 1)..(q - 1)
  <2>1. ASSUME NEW j \in 1..n, InPackage(p, j) PROVE j \in (p + 1)..(q - 1)
    <3>1. p < j /\ \A k \in (p + 1)..j : text[k].kind # "[[package]]"
      BY <2>1 DEF InPackage
    <3>2. ~(q \in (p + 1)..j)
      <4>1. q <= j => q \in DOMAIN text
        BY <1>1
      <4>2. QED
        BY <3>1, <4>1
    <3>3. QED
      BY <3>1, <3>2
  <2>2. ASSUME NEW j \in 1..n, j \in (p + 1)..(q - 1) PROVE InPackage(p, j)
    BY <2>2 DEF InPackage
  <2>3. QED
    BY <2>1, <2>2
<1>3. \A j \in p..(q - 1) : text[j].kind = kind => j \in 1..n /\ j \in (p + 1)..(q - 1)
  BY <1>1
<1>4. \A j : j \in LastOf(p, kind) <=>
         /\ j \in 1..n /\ j \in (p + 1)..(q - 1) /\ text[j].kind = kind
         /\ \A k \in 1..n : k \in (p + 1)..(q - 1) /\ text[k].kind = kind => k <= j
  BY <1>1, <1>2 DEF LastOf
<1>5. ASSUME NEW j \in 1..n, j \in (p + 1)..(q - 1)
      PROVE  (\A k \in 1..n : k \in (p + 1)..(q - 1) /\ text[k].kind = kind => k <= j) <=>
             (\A k \in (j + 1)..(q - 1) : text[k].kind # kind)
  BY <1>1, <1>5
<1>6. QED
  BY <1>3, <1>4, <1>5

\* What is known of the package being read, where it ends.
LEMMA PoetryPackage ==
    ASSUME Inv, phase = "parse", format = "poetry.lock",
           at \in DOMAIN text => text[at].kind = "[[package]]"
    PROVE  /\ current_line \in Nat /\ at \in Nat /\ current_line <= at
           /\ \A d \in Declared : d.line \in Nat
           /\ \A d \in Declared : d.line < at => d.line <= current_line
           /\ name = 0 => \A d \in Declared : ~(d.line = current_line /\ d.line < at)
           /\ name # 0 =>
                /\ at > 1 /\ current_line < at /\ current_line \in DOMAIN text
                /\ \E d \in Declared : Tells(Item(name, version, 0, current_line), d)
                /\ \A d \in Declared : d.line = current_line =>
                     Tells(Item(name, version, 0, current_line), d)
<1>1. PICK n \in Nat : n = Len(text) /\ DOMAIN text = 1..n
  BY TextIs DEF Inv
<1>2. PICK a \in 1..(n + 1), p \in 1..(n + 1) : a = at /\ p = current_line /\ p <= a
  BY <1>1 DEF Inv, Positions
<1>3. PICK m \in 0..Names, v \in Version : m = name /\ v = version
  BY DEF Inv, Positions, Version
<1>4. \A d \in Declared : d.line \in 1..n /\ text[d.line].kind = "[[package]]"
  BY <1>1, DeclaredAt DEF Inv
<1>5. InPoetry
  BY DEF Inv, Gathered
<1>6. CASE a = 1
  <2>1. m = 0
    BY <1>2, <1>3, <1>5, <1>6 DEF InPoetry
  <2>2. QED
    BY <1>2, <1>3, <1>4, <1>6, <2>1
<1>7. CASE a > 1
  <2>1. /\ p < a /\ text[p].kind = "[[package]]"
        /\ \A k \in (p + 1)..(a - 1) : text[k].kind # "[[package]]"
        /\ IF m = 0 THEN \A k \in p..(a - 1) : text[k].kind # "name"
           ELSE \E j \in DOMAIN text : LastBefore(j, "name") /\ text[j].name = m
        /\ IF v = "none" THEN \A k \in p..(a - 1) : text[k].kind # "version"
           ELSE \E j \in DOMAIN text : LastBefore(j, "version") /\ text[j].version = v
    BY <1>2, <1>3, <1>5, <1>7 DEF InPoetry
  <2>2. \A j, kind : LastBefore(j, kind) <=>
           /\ j \in p..(a - 1) /\ text[j].kind = kind
           /\ \A k \in (j + 1)..(a - 1) : text[k].kind # kind
    BY <1>2 DEF LastBefore
  <2>3. \A j : j \in LastOf(p, "name") <=> LastBefore(j, "name")
    <3>1. \A j : j \in LastOf(p, "name") <=>
             /\ j \in p..(a - 1) /\ text[j].kind = "name"
             /\ \A k \in (j + 1)..(a - 1) : text[k].kind # "name"
      BY <1>1, <1>2, <2>1, LastHere DEF Inv
    <3>2. QED
      BY <2>2, <3>1
  <2>4. \A j : j \in LastOf(p, "version") <=> LastBefore(j, "version")
    <3>1. \A j : j \in LastOf(p, "version") <=>
             /\ j \in p..(a - 1) /\ text[j].kind = "version"
             /\ \A k \in (j + 1)..(a - 1) : text[k].kind # "version"
      BY <1>1, <1>2, <2>1, LastHere DEF Inv
    <3>2. QED
      BY <2>2, <3>1
  <2>5. \A j, k, kind : LastBefore(j, kind) /\ LastBefore(k, kind) => j = k
    <3>1. ASSUME NEW kind, NEW j, NEW k, LastBefore(j, kind), LastBefore(k, kind) PROVE j = k
      <4>1. j \in p..(a - 1) /\ k \in p..(a - 1) /\ ~(j \in (k + 1)..(a - 1)) /\ ~(k \in (j + 1)..(a - 1))
        BY <2>2, <3>1
      <4>2. QED
        BY <4>1
    <3>2. QED
      BY <3>1
  <2>6. VersionAt(LastOf(p, "version")) = v
    <3>1. CASE v = "none"
      <4>1. LastOf(p, "version") = {}
        BY <2>1, <2>2, <2>4, <3>1
      <4>2. QED
        BY <3>1, <4>1 DEF VersionAt
    <3>2. CASE v # "none"
      <4>1. PICK j : LastBefore(j, "version") /\ text[j].version = v
        BY <2>1, <3>2
      <4>2. LastOf(p, "version") = {j}
        BY <2>4, <2>5, <4>1
      <4>3. QED
        BY <4>1, <4>2 DEF VersionAt
    <3>3. QED
      BY <3>1, <3>2
  <2>7. \A d \in Declared : d.line < a => d.line <= p
    BY <1>2, <1>4, <2>1
  <2>8. \A d \in Declared : d.line = p =>
           /\ \E j \in LastOf(p, "name") : d.name = text[j].name
           /\ d.version = sanitize_version(v)
    BY <2>6, DeclaredAt DEF Inv
  <2>9. CASE m = 0
    <3>1. LastOf(p, "name") = {}
      BY <2>1, <2>2, <2>3, <2>9
    <3>2. QED
      BY <1>2, <1>3, <1>4, <2>7, <2>8, <2>9, <3>1
  <2>10. CASE m # 0
    <3>1. PICK j : LastBefore(j, "name") /\ text[j].name = m
      BY <2>1, <2>10
    <3>2. LastOf(p, "name") = {j}
      BY <2>3, <2>5, <3>1
    <3>3. PICK i : i = Item(m, v, 0, p)
      OBVIOUS
    <3>4. i.name = m /\ i.version = sanitize_version(v) /\ i.line = p
      <4>1. p \in Nat /\ 0 \in 0..Names
        BY <1>2, NamesAre
      <4>2. QED
        BY <3>3, <4>1, ItemIs
    <3>5. format \notin BlankBefore
      BY DEF BlankBefore
    <3>6. ASSUME NEW d \in Declared, d.line = p PROVE Tells(i, d)
      <4>1. d.name = m /\ d.version = sanitize_version(v)
        BY <2>8, <3>1, <3>2, <3>6
      <4>2. QED
        BY <3>4, <3>5, <3>6, <4>1 DEF Tells
    <3>7. \E d \in Declared : d.line = p
      <4>1. p \in DOMAIN text
        BY <1>1, <1>2, <2>1
      <4>2. Declaration(text[j].name, VersionAt(LastOf(p, "version")), p) \in Declared
        BY <2>1, <3>2, <4>1 DEF Declared
      <4>3. QED
        BY <4>2 DEF Declaration
    <3>8. PICK d \in Declared : Tells(i, d)
      BY <3>6, <3>7
    <3>9. p \in DOMAIN text /\ a > 1
      BY <1>1, <1>2, <2>1
    <3>10. QED
      BY <1>2, <1>3, <1>4, <2>1, <2>7, <2>10, <3>3, <3>6, <3>8, <3>9
  <2>11. QED
    BY <2>9, <2>10
<1>8. QED
  BY <1>2, <1>6, <1>7

LEMMA PoetryHandled ==
    ASSUME format = "poetry.lock", UNCHANGED Fixed
    PROVE  /\ \A d : d \in HandledSet <=> d \in Declared /\ d.line < current_line
           /\ \A d : d \in HandledSet' <=> d \in Declared /\ d.line < current_line'
           /\ Bound = current_line /\ Bound' = current_line'
<1>1. format' = format /\ Declared' = Declared
  BY FixedKept DEF Fixed
<1>2. \A d : Handled(d) <=> d.line < current_line
  BY SectionsAre DEF Handled
<1>3. \A d : Handled(d)' <=> d.line < current_line'
  BY <1>1, SectionsAre DEF Handled
<1>4. QED
  BY <1>1, <1>2, <1>3 DEF HandledSet, Bound

LEMMA PoetryStep == ASSUME Inv, PoetryLine PROVE Inv'
<1>1. phase = "parse" /\ format = "poetry.lock" /\ Advance
  BY DEF PoetryLine, Parsing
<1>2. /\ at \in DOMAIN text /\ at \in Nat /\ at > 0 /\ text[at] \in Line[format] /\ text' = text
      /\ format' = format /\ at' = at + 1 /\ UNCHANGED Fixed /\ LineNumber = at
  <2>1. at \in DOMAIN text /\ text[at] \in Line[format] /\ at > 0
    BY <1>1, Advanced, TextIs DEF Inv
  <2>2. QED
    BY <2>1, <1>1, Advanced
<1>3. PICK n \in Nat : n = Len(text) /\ DOMAIN text = 1..n
  BY TextIs DEF Inv
<1>4. PICK a \in 1..n, p \in 1..n : a = at /\ p = current_line /\ p <= a /\ a' = a /\ p' = p
  BY <1>1, <1>2, <1>3, Advanced DEF Inv, Positions
<1>5. section' = section /\ key' = key
  BY DEF PoetryLine
<1>6. /\ text[a].kind \in {"name", "version", "blank", "[[package]]"}
      /\ text[a].kind = "name" => text[a].name \in 0..Names /\ text[a].name # 0
      /\ text[a].kind = "version" => text[a].version \in {"1", "2"}
  BY <1>1, <1>2, <1>4, PoetryLockLine, NamesAre
<1>7. section' \in SectionOf(format')
  BY <1>2, <1>5 DEF Inv, Positions
<1>8. InSection'
  BY <1>1, <1>2 DEF InSection
<1>9. CASE text[a].kind = "[[package]]"
  <2>1. name' = 0 /\ version' = "none" /\ current_line' = a /\ PushPackage
    BY <1>2, <1>4, <1>9 DEF PoetryLine, At, PoetryVersion
  <2>2. Positions'
    <3>1. 0 \in 0..Names
      BY NamesAre
    <3>2. QED
      BY <1>1, <1>2, <1>3, <1>4, <1>5, <1>7, <2>1, <3>1, Advanced DEF Inv, Positions
  <2>3. InPoetry'
    BY <1>2, <1>4, <1>6, <1>9, <2>1 DEF InPoetry
  <2>4. Parses
    BY <1>1, <1>8, <2>2, <2>3, Advanced DEF Parses
  <2>5. /\ \A d \in Declared : d.line \in Nat /\ (d.line < a => d.line <= p)
        /\ name = 0 => \A d \in Declared : ~(d.line = p /\ d.line < a)
        /\ name # 0 =>
             /\ p < a
             /\ \E d \in Declared : Tells(Item(name, version, 0, p), d)
             /\ \A d \in Declared : d.line = p => Tells(Item(name, version, 0, p), d)
    BY <1>1, <1>4, <1>9, PoetryPackage
  <2>6. /\ \A d : d \in HandledSet <=> d \in Declared /\ d.line < p
        /\ \A d : d \in HandledSet' <=> d \in Declared /\ d.line < a
        /\ Bound = p /\ Bound' = a
    BY <1>1, <1>2, <1>4, <2>1, PoetryHandled
  <2>7. CASE name = 0
    <3>1. items' = items
      BY <2>1, <2>7 DEF PushPackage
    <3>2. \A d \in HandledSet' : d \in HandledSet \/ Hidden(d.line)
      BY <1>4, <2>5, <2>6, <2>7
    <3>3. Bound <= Bound'
      BY <1>4, <2>6
    <3>4. QED
      BY <2>4, <3>1, <3>2, <3>3, SilentStep
  <2>8. CASE name # 0
    <3>1. PICK m \in 0..Names, v \in Version : m = name /\ v = version
      BY DEF Inv, Positions, Version
    <3>2. Push(m, v, 0, p)
      BY <1>4, <2>1, <2>8, <3>1 DEF PushPackage
    <3>3. \A d \in HandledSet' : d \in HandledSet \/ Tells(Item(m, v, 0, p), d) \/ Hidden(d.line)
      BY <1>4, <2>5, <2>6, <2>8, <3>1
    <3>4. format \in Exact => Bound <= p /\ p < Bound'
      BY <1>4, <2>5, <2>6, <2>8
    <3>5. m # 0 => \E d \in Declared : Tells(Item(m, v, 0, p), d)
      BY <2>5, <3>1
    <3>6. p \in Nat /\ p \in IF format = "package-lock.json" THEN 0..Len(text) ELSE DOMAIN text
      BY <1>1, <1>3, <1>4
    <3>7. 0 \in 0..Names
      BY NamesAre
    <3>8. QED
      BY <2>4, <3>2, <3>3, <3>4, <3>5, <3>6, <3>7, PushStep
  <2>9. QED
    BY <2>7, <2>8
<1>10. CASE text[a].kind # "[[package]]"
  <2>1. /\ name' = IF text[a].kind = "name" THEN text[a].name ELSE name
        /\ version' = IF text[a].kind = "version" THEN text[a].version ELSE version
        /\ items' = items /\ current_line' = current_line
    BY <1>2, <1>4, <1>10 DEF PoetryLine, At
  <2>2. Positions'
    BY <1>1, <1>2, <1>3, <1>4, <1>5, <1>6, <1>7, <2>1, Advanced DEF Inv, Positions
  <2>3. a > 1
    <3>1. WellFormed(format, text) /\ text # << >>
      BY <1>2, TextIs DEF Inv
    <3>2. text[1].kind = "[[package]]"
      BY <1>1, <3>1, SectionsAre DEF WellFormed
    <3>3. QED
      BY <1>4, <1>10, <3>2
  <2>4. InPoetry'
    <3>1. /\ p < a /\ text[p].kind = "[[package]]"
          /\ \A k \in (p + 1)..(a - 1) : text[k].kind # "[[package]]"
          /\ IF name = 0 THEN \A k \in p..(a - 1) : text[k].kind # "name"
             ELSE \E j \in DOMAIN text : LastBefore(j, "name") /\ text[j].name = name
          /\ IF version = "none" THEN \A k \in p..(a - 1) : text[k].kind # "version"
             ELSE \E j \in DOMAIN text : LastBefore(j, "version") /\ text[j].version = version
      BY <1>1, <1>4, <2>3 DEF Inv, Gathered, InPoetry
    <3>2. \A k \in (p + 1)..a : text[k].kind # "[[package]]"
      BY <1>4, <1>10, <3>1
    <3>3. ASSUME NEW kind, NEW j \in 1..n, LastBefore(j, kind), text[a].kind # kind
          PROVE  LastBefore(j, kind)'
      <4>1. /\ j \in p..(a - 1) /\ text[j].kind = kind
            /\ \A k \in (j + 1)..(a - 1) : text[k].kind # kind
        BY <1>4, <3>3 DEF LastBefore
      <4>2. /\ j \in p..((a + 1) - 1) /\ \A k \in (j + 1)..((a + 1) - 1) : text[k].kind # kind
        BY <1>4, <3>3, <4>1
      <4>3. QED
        BY <1>2, <1>4, <2>1, <4>1, <4>2 DEF LastBefore
    <3>4. ASSUME NEW kind, text[a].kind = kind PROVE LastBefore(a, kind)'
      BY <1>2, <1>4, <2>1, <3>4 DEF LastBefore
    <3>5. IF name' = 0 THEN \A k \in p..((a + 1) - 1) : text[k].kind # "name"
          ELSE \E j \in DOMAIN text : LastBefore(j, "name")' /\ text[j].name = name'
      <4>1. CASE text[a].kind = "name"
        BY <1>3, <1>6, <2>1, <3>4, <4>1
      <4>2. CASE text[a].kind # "name" /\ name = 0
        BY <1>4, <2>1, <3>1, <4>2
      <4>3. CASE text[a].kind # "name" /\ name # 0
        BY <1>3, <2>1, <3>1, <3>3, <4>3
      <4>4. QED
        BY <4>1, <4>2, <4>3
    <3>6. IF version' = "none" THEN \A k \in p..((a + 1) - 1) : text[k].kind # "version"
          ELSE \E j \in DOMAIN text : LastBefore(j, "version")' /\ text[j].version = version'
      <4>1. CASE text[a].kind = "version"
        BY <1>3, <1>6, <2>1, <3>4, <4>1
      <4>2. CASE text[a].kind # "version" /\ version = "none"
        BY <1>4, <2>1, <3>1, <4>2
      <4>3. CASE text[a].kind # "version" /\ version # "none"
        BY <1>3, <2>1, <3>1, <3>3, <4>3
      <4>4. QED
        BY <4>1, <4>2, <4>3
    <3>7. QED
      BY <1>2, <1>4, <2>1, <3>1, <3>2, <3>5, <3>6 DEF InPoetry
  <2>5. Parses
    BY <1>1, <1>8, <2>2, <2>4, Advanced DEF Parses
  <2>6. \A d \in HandledSet' : d \in HandledSet \/ Hidden(d.line)
    BY <1>1, <1>2, <2>1, PoetryHandled
  <2>7. Bound <= Bound'
    BY <1>1, <1>2, <1>4, <2>1, PoetryHandled
  <2>8. QED
    BY <2>1, <2>5, <2>6, <2>7, SilentStep
<1>11. QED
  BY <1>9, <1>10
-----------------------------------------------------------------------------
\* The parsers that search the text: a match passes the lines it covers.
Searched == {"Cargo.lock", "Gemfile", "gemspec", "build.gradle", "pom.xml"}

LEMMA MatchAt ==
    ASSUME Inv, phase = "parse", NEW i \in NextMatch
    PROVE  \E n \in Nat, a \in Nat :
             /\ n = Len(text) /\ DOMAIN text = 1..n /\ a = at /\ a > 0 /\ i \in a..n
             /\ text[i].kind \in Sought /\ text[i] \in Line[format] /\ Typed(text[i])
             /\ \A k \in a..(i - 1) : text[k].kind \notin Sought
<1>1. PICK n \in Nat : n = Len(text) /\ DOMAIN text = 1..n /\ \A j \in 1..n : text[j] \in Line[format]
  BY TextIs DEF Inv
<1>2. PICK a \in 1..(n + 1) : a = at
  BY <1>1 DEF Inv, Positions
<1>3. /\ i \in a..n /\ text[i].kind \in Sought
      /\ \A k \in a..(i - 1) : text[k].kind \notin Sought
  BY <1>1, <1>2 DEF NextMatch
<1>4. Typed(text[i])
  BY <1>1, <1>2, <1>3, LineTyped DEF Inv, Given
<1>5. QED
  BY <1>1, <1>2, <1>3, <1>4

LEMMA MatchParses ==
    ASSUME Inv, phase = "parse", format \in Searched, NEW i \in NextMatch,
           NEW n, NEW v, NEW line, NEW next \in Nat, i < next, next <= Len(text) + 1,
           Match(n, v, line, next)
    PROVE  Parses /\ UNCHANGED Fixed /\ at' = next
<1>1. PICK m \in Nat, a \in Nat : m = Len(text) /\ a = at /\ i \in a..m /\ a > 0
  BY MatchAt
<1>2. /\ UNCHANGED <<format, text, rules, phase, section, name, version, current_line, key, loops>>
      /\ at' = next
  BY DEF Match, scanner
<1>3. UNCHANGED <<Fixed, loops>> /\ phase' = "parse"
  BY <1>2 DEF Fixed
<1>4. Positions'
  <2>1. section' \in SectionOf(format')
    BY <1>2 DEF Inv, Positions
  <2>2. a \in 1..(m + 1) /\ current_line \in 1..(m + 1) /\ current_line <= a
    BY <1>1 DEF Inv, Positions
  <2>3. at' \in 1..(Len(text') + 1) /\ current_line' \in 1..(Len(text') + 1) /\ current_line' <= at'
    BY <1>1, <1>2, <2>2
  <2>4. QED
    BY <1>2, <1>3, <2>1, <2>3 DEF Inv, Positions
<1>5. InSection' /\ InPoetry'
  BY <1>2 DEF InSection, InPoetry, Searched
<1>6. QED
  BY <1>2, <1>3, <1>4, <1>5 DEF Parses

LEMMA MatchStep ==
    ASSUME Inv, phase = "parse", format \in Searched, NEW i \in NextMatch,
           NEW n \in 0..Names, NEW v \in Version, NEW line \in DOMAIN text,
           NEW next \in Nat, i < next, next <= Len(text) + 1, Match(n, v, line, next),
           \A d \in Declared : d.line = i => Tells(Item(n, v, 0, line), d),
           \E d \in Declared : Tells(Item(n, v, 0, line), d),
           \A d \in Declared : text[d.line].kind \in Sought,
           \A d \in Declared : d.line \in (i + 1)..(next - 1) => Hidden(d.line),
           format \in Exact => line = i
    PROVE  Inv'
<1>1. PICK m \in Nat, a \in Nat :
        /\ m = Len(text) /\ DOMAIN text = 1..m /\ a = at /\ a > 0 /\ i \in a..m
        /\ \A k \in a..(i - 1) : text[k].kind \notin Sought
  BY MatchAt
<1>2. Parses /\ UNCHANGED Fixed /\ at' = next
  BY MatchParses
<1>3. format \in ByLine
  BY SectionsAre DEF Searched, ByLine, Format, Gems, Npm, Python
<1>4. /\ \A d : d \in HandledSet <=> d \in Declared /\ d.line < a
      /\ \A d : d \in HandledSet' <=> d \in Declared /\ d.line < next
      /\ Bound = a /\ Bound' = next
  BY <1>1, <1>2, <1>3, HandledByLine
<1>5. \A d \in Declared : d.line \in 1..m
  BY <1>1, DeclaredAt DEF Inv
<1>6. ASSUME NEW d \in HandledSet'
      PROVE  d \in HandledSet \/ Tells(Item(n, v, 0, line), d) \/ Hidden(d.line)
  <2>1. d \in Declared /\ d.line \in 1..m /\ d.line < next /\ text[d.line].kind \in Sought
    BY <1>4, <1>5, <1>6
  <2>2. d.line < a \/ d.line = i \/ d.line \in (i + 1)..(next - 1)
    BY <1>1, <2>1
  <2>3. QED
    BY <1>4, <2>1, <2>2
<1>7. format \in Exact => Bound <= line /\ line < Bound'
  BY <1>1, <1>4
<1>8. line \in Nat /\ line \in IF format = "package-lock.json" THEN 0..Len(text) ELSE DOMAIN text
  BY <1>1 DEF Searched
<1>9. Push(n, v, 0, line) /\ 0 \in 0..Names
  BY NamesAre DEF Match
<1>10. QED
  BY <1>2, <1>6, <1>7, <1>8, <1>9, PushStep

LEMMA MinIs ==
    ASSUME NEW S \in SUBSET Nat, S # {}
    PROVE  Min(S) \in S /\ \A k \in S : Min(S) <= k
<1>1. PICK m \in S : \A k \in S : m <= k
  BY LeastNumber
<1>2. \A x \in S : (\A y \in S : x <= y) => x = m
  BY <1>1
<1>3. QED
  BY <1>1, <1>2 DEF Min

\* The lines from the start of a match to its entry are blank.
LEMMA MatchStartIs ==
    ASSUME NEW i \in Nat, at \in Nat, at <= i
    PROVE  /\ MatchStart(i) \in at..i
           /\ \A k \in MatchStart(i)..(i - 1) : text[k].kind = "blank"
<1>1. PICK S : S = {j \in at..i : \A k \in j..(i - 1) : text[k].kind = "blank"}
  OBVIOUS
<1>2. i \in S /\ S \in SUBSET Nat
  BY <1>1
<1>3. Min(S) \in S
  BY <1>2, MinIs
<1>4. MatchStart(i) = Min(S)
  BY <1>1 DEF MatchStart
<1>5. QED
  BY <1>1, <1>3, <1>4

\* What is sought is what a line of these formats declares.
LEMMA SoughtDeclares ==
    ASSUME Given, format \in Searched \ {"Cargo.lock"}
    PROVE  /\ \A i \in DOMAIN text : text[i].kind \in Sought <=> text[i].name # 0
           /\ \A i \in DOMAIN text : text[i].kind \in Sought => \E d \in Declared : d.line = i
           /\ \A d \in Declared : text[d.line].kind \in Sought
<1>1. PICK n \in Nat : n = Len(text) /\ DOMAIN text = 1..n /\ \A j \in 1..n : text[j] \in Line[format]
  BY TextIs
<1>2. ASSUME NEW i \in 1..n
      PROVE  /\ text[i].kind \in Sought <=> text[i].name # 0
             /\ text[i].kind \in Sought => text[i].kind \notin {"root", "metadata", "nested"}
  <2>1. CASE format = "pom.xml"
    <3>1. Sought = {"compact", "pretty"}
      BY <2>1 DEF Sought
    <3>2. QED
      BY <1>1, <2>1, <3>1, PomLine, NamesAre
  <2>2. CASE format \in {"Gemfile", "gemspec", "build.gradle"}
    <3>1. Sought = {"entry", "indented"}
      BY <2>2 DEF Sought
    <3>2. QED
      BY <1>1, <2>2, <3>1, GemfileLine, GemspecLine, GradleLine, NamesAre
  <2>3. QED
    BY <2>1, <2>2 DEF Searched
<1>3. format \notin {"Cargo.toml", "go.mod", "Cargo.lock", "poetry.lock"}
  BY DEF Searched
<1>4. \A i \in 1..n : text[i].kind \in Sought => \E d \in Declared : d.line = i
  BY <1>1, <1>2, <1>3, Declares
<1>5. ASSUME NEW d \in Declared PROVE text[d.line].kind \in Sought
  <2>1. d.line \in 1..n /\ text[d.line].name \in Name
    BY <1>1, <1>3, DeclaredAt
  <2>2. QED
    BY <1>2, <2>1, NamesAre
<1>6. QED
  BY <1>1, <1>2, <1>4, <1>5

LEMMA EntryMatch ==
    ASSUME Inv, phase = "parse", format \in Searched \ {"Cargo.lock"}, NEW i \in NextMatch,
           NEW line, format = "pom.xml" => line = i,
           format # "pom.xml" => line = MatchStart(i),
           NEW next \in Nat, i < next, next <= Len(text) + 1,
           Match(text[i].name, StatedVersion(i), line, next),
           \A k \in (i + 1)..(next - 1) : text[k].kind \notin Sought \/ Hidden(k)
    PROVE  Inv'
<1>1. PICK m \in Nat, a \in Nat :
        /\ m = Len(text) /\ DOMAIN text = 1..m /\ a = at /\ a > 0 /\ i \in a..m
        /\ text[i].kind \in Sought /\ Typed(text[i])
  BY MatchAt
<1>2. /\ line \in a..i
      /\ format # "pom.xml" => \A k \in line..(i - 1) : text[k].kind = "blank"
  <2>1. CASE format = "pom.xml"
    BY <1>1, <2>1
  <2>2. CASE format # "pom.xml"
    <3>1. MatchStart(i) \in a..i /\ \A k \in MatchStart(i)..(i - 1) : text[k].kind = "blank"
      BY <1>1, MatchStartIs
    <3>2. QED
      BY <2>2, <3>1
  <2>3. QED
    BY <2>1, <2>2
<1>3. line \in DOMAIN text /\ line \in Nat /\ line <= i
  BY <1>1, <1>2
<1>4. PICK n \in 0..Names, v \in Version : n = text[i].name /\ v = StatedVersion(i)
  BY <1>1 DEF Typed, StatedVersion, Version
<1>5. format \in Exact => line = i
  BY DEF Exact, Searched, BlankBefore
<1>6. \A d \in Declared : d.line = i => Tells(Item(n, v, 0, line), d)
  <2>1. ASSUME NEW d \in Declared, d.line = i PROVE Tells(Item(n, v, 0, line), d)
    <3>1. format \notin {"Cargo.lock", "poetry.lock"} /\ 0 \in 0..Names
      BY NamesAre DEF Searched
    <3>2. format \in BlankBefore => line <= i /\ \A k \in line..(i - 1) : text[k].kind = "blank"
      BY <1>2, <1>3 DEF BlankBefore
    <3>3. Tells(Item(text[i].name, StatedVersion(i), 0, line), d)
      BY <1>3, <1>5, <2>1, <3>1, <3>2, OwnLine DEF Inv
    <3>4. QED
      BY <1>4, <3>3
  <2>2. QED
    BY <2>1
<1>7. \E d \in Declared : Tells(Item(n, v, 0, line), d)
  BY <1>1, <1>6, SoughtDeclares DEF Inv
<1>8. \A d \in Declared : text[d.line].kind \in Sought
  BY SoughtDeclares DEF Inv
<1>9. \A d \in Declared : d.line \in (i + 1)..(next - 1) => Hidden(d.line)
  BY <1>8
<1>10. Match(n, v, line, next)
  BY <1>4
<1>11. QED
  BY <1>3, <1>5, <1>6, <1>7, <1>8, <1>9, <1>10, MatchStep

LEMMA PomStep == ASSUME Inv, PomMatch PROVE Inv'
<1>1. phase = "parse" /\ format = "pom.xml"
  BY DEF PomMatch, Parsing
<1>2. PICK i \in NextMatch : Match(text[i].name, StatedVersion(i), i, i + 1)
  BY DEF PomMatch
<1>3. i \in Nat /\ i < i + 1 /\ i + 1 <= Len(text) + 1 /\ \A k \in (i + 1)..((i + 1) - 1) : FALSE
  BY <1>1, MatchAt
<1>4. QED
  BY <1>1, <1>2, <1>3, EntryMatch DEF Searched

LEMMA EntryStep == ASSUME Inv, GemspecMatch \/ GradleMatch PROVE Inv'
<1>1. phase = "parse" /\ format \in {"gemspec", "build.gradle"}
  BY DEF GemspecMatch, GradleMatch, Parsing
<1>2. PICK i \in NextMatch : Match(text[i].name, text[i].version, MatchStart(i), i + 1)
  BY DEF GemspecMatch, GradleMatch
<1>3. i \in Nat /\ i < i + 1 /\ i + 1 <= Len(text) + 1 /\ \A k \in (i + 1)..((i + 1) - 1) : FALSE
  BY <1>1, MatchAt
<1>4. StatedVersion(i) = text[i].version
  BY <1>1, MatchAt, GemspecLine, GradleLine DEF StatedVersion
<1>5. format \in Searched \ {"Cargo.lock"} /\ format # "pom.xml"
  BY <1>1 DEF Searched
<1>6. PICK next \in Nat : next = i + 1
  BY <1>3
<1>7. PICK line : line = MatchStart(i)
  OBVIOUS
<1>8. Match(text[i].name, StatedVersion(i), line, next)
  BY <1>2, <1>4, <1>6, <1>7
<1>9. \A k \in (i + 1)..(next - 1) : FALSE
  BY <1>3, <1>6
<1>10. QED
  BY <1>1, <1>3, <1>5, <1>6, <1>7, <1>8, <1>9, EntryMatch

\* Behind a gem that states no version, the search skips blank lines and, if
\* there is one, the hidden gem behind them.
LEMMA SearchFromIs ==
    ASSUME Given, format = "Gemfile", NEW i \in DOMAIN text, text[i].kind \in Sought
    PROVE  /\ SearchFrom(i) \in Nat /\ i < SearchFrom(i) /\ SearchFrom(i) <= Len(text) + 1
           /\ \A k \in (i + 1)..(SearchFrom(i) - 1) : text[k].kind = "blank" \/ Hidden(k)
<1>1. PICK n \in Nat : n = Len(text) /\ DOMAIN text = 1..n
  BY TextIs
<1>2. i \in 1..n
  BY <1>1
<1>3. CASE text[i].version # "none"
  BY <1>1, <1>2, <1>3 DEF SearchFrom
<1>4. CASE text[i].version = "none"
  <2>1. PICK S : S = {k \in (i + 1)..(n + 1) : k <= n => text[k].kind # "blank"}
    OBVIOUS
  <2>2. S \in SUBSET Nat /\ n + 1 \in S
    BY <1>2, <2>1
  <2>3. PICK m \in S : m = Min(S) /\ \A k \in S : m <= k
    BY <2>2, MinIs
  <2>4. m \in (i + 1)..(n + 1)
    BY <2>1, <2>3
  <2>5. ASSUME NEW k \in (i + 1)..(m - 1) PROVE text[k].kind = "blank"
    <3>1. k \in (i + 1)..(n + 1) /\ k <= n /\ ~(m <= k)
      BY <1>2, <2>4
    <3>2. QED
      BY <2>1, <2>3, <3>1
  <2>6. SearchFrom(i) = IF m <= n /\ text[m].kind = "indented" THEN m + 1 ELSE m
    BY <1>1, <1>4, <2>1, <2>3 DEF SearchFrom
  <2>7. CASE m <= n /\ text[m].kind = "indented"
    <3>1. Hidden(m)
      <4>1. i \in 1..(m - 1)
        BY <1>2, <2>4
      <4>2. QED
        BY <1>4, <2>5, <2>7, <4>1 DEF Hidden
    <3>2. SearchFrom(i) = m + 1
      BY <2>6, <2>7
    <3>3. \A k \in (i + 1)..((m + 1) - 1) : k = m \/ k \in (i + 1)..(m - 1)
      BY <1>2, <2>4
    <3>4. QED
      BY <1>1, <1>2, <2>4, <2>5, <2>7, <3>1, <3>2, <3>3
  <2>8. CASE ~(m <= n /\ text[m].kind = "indented")
    BY <1>1, <1>2, <2>4, <2>5, <2>6, <2>8
  <2>9. QED
    BY <2>7, <2>8
<1>5. QED
  BY <1>3, <1>4

LEMMA GemfileStep == ASSUME Inv, GemfileMatch PROVE Inv'
<1>1. phase = "parse" /\ format = "Gemfile"
  BY DEF GemfileMatch, Parsing
<1>2. PICK i \in NextMatch : Match(text[i].name, text[i].version, MatchStart(i), SearchFrom(i))
  BY DEF GemfileMatch
<1>3. i \in DOMAIN text /\ text[i].kind \in Sought /\ text[i] \in Line["Gemfile"]
  BY <1>1, MatchAt
<1>4. PICK next : next = SearchFrom(i)
  OBVIOUS
<1>5. /\ next \in Nat /\ i < next /\ next <= Len(text) + 1
      /\ \A k \in (i + 1)..(next - 1) : text[k].kind = "blank" \/ Hidden(k)
  BY <1>1, <1>3, <1>4, SearchFromIs DEF Inv
<1>6. StatedVersion(i) = text[i].version
  BY <1>3, GemfileLine DEF StatedVersion
<1>7. "blank" \notin Sought
  BY <1>1 DEF Sought
<1>8. QED
  BY <1>1, <1>2, <1>4, <1>5, <1>6, <1>7, EntryMatch DEF Searched

\* Cargo.lock: the package at p is named on the line behind its header.
LEMMA CargoPackage ==
    ASSUME Given, format = "Cargo.lock", NEW p \in DOMAIN text, text[p].kind = "[[package]]"
    PROVE  /\ p + 2 \in DOMAIN text
           /\ LastOf(p, "name") = {p + 1} /\ LastOf(p, "version") = {p + 2}
           /\ text[p + 1].kind = "name" /\ text[p + 2].kind = "version"
<1>1. PICK n \in Nat : n = Len(text) /\ DOMAIN text = 1..n /\ WellFormed(format, text)
  BY TextIs
<1>2. \A i \in 1..n :
        /\ text[i].kind = "[[package]]" => i + 2 <= n
        /\ text[i].kind = "name" <=> i > 1 /\ text[i - 1].kind = "[[package]]"
        /\ text[i].kind = "version" <=> i > 2 /\ text[i - 1].kind = "name"
  BY <1>1, SectionsAre DEF WellFormed
<1>3. p \in 1..n /\ p + 2 <= n /\ p + 1 \in 1..n /\ p + 2 \in 1..n
  BY <1>1, <1>2
<1>4. text[p + 1].kind = "name"
  BY <1>2, <1>3
<1>5. text[p + 2].kind = "version"
  BY <1>2, <1>3, <1>4
<1>6. InPackage(p, p + 1) /\ InPackage(p, p + 2)
  <2>1. \A k \in (p + 1)..(p + 2) : k = p + 1 \/ k = p + 2
    BY <1>3
  <2>2. \A k \in (p + 1)..(p + 1) : k = p + 1
    BY <1>3
  <2>3. QED
    BY <1>3, <1>4, <1>5, <2>1, <2>2 DEF InPackage
<1>7. ASSUME NEW k \in 1..n, InPackage(p, k), text[k].kind = "name" PROVE k = p + 1
  <2>1. k > 1 /\ text[k - 1].kind = "[[package]]" /\ p < k
    BY <1>2, <1>7 DEF InPackage
  <2>2. ~(k - 1 \in (p + 1)..k)
    BY <1>7, <2>1 DEF InPackage
  <2>3. QED
    BY <1>3, <2>1, <2>2
<1>8. ASSUME NEW k \in 1..n, InPackage(p, k), text[k].kind = "version" PROVE k = p + 2
  <2>1. k > 2 /\ text[k - 1].kind = "name" /\ p < k
    BY <1>2, <1>8 DEF InPackage
  <2>2. k - 1 \in 1..n /\ p < k - 1
    BY <1>3, <2>1
  <2>3. InPackage(p, k - 1)
    BY <1>3, <1>8, <2>2 DEF InPackage
  <2>4. QED
    BY <1>3, <1>7, <2>1, <2>2, <2>3
<1>9. LastOf(p, "name") = {p + 1}
  BY <1>1, <1>3, <1>4, <1>6, <1>7 DEF LastOf
<1>10. LastOf(p, "version") = {p + 2}
  BY <1>1, <1>3, <1>5, <1>6, <1>8 DEF LastOf
<1>11. QED
  BY <1>1, <1>3, <1>4, <1>5, <1>9, <1>10

LEMMA CargoLockStep == ASSUME Inv, CargoLockMatch PROVE Inv'
<1>1. phase = "parse" /\ format = "Cargo.lock"
  BY DEF CargoLockMatch, Parsing
<1>2. PICK i \in NextMatch : Match(text[i + 1].name, text[i + 2].version, i, i + 3)
  BY DEF CargoLockMatch
<1>3. Sought = {"[[package]]"}
  BY <1>1 DEF Sought
<1>4. PICK m \in Nat : m = Len(text) /\ DOMAIN text = 1..m /\ i \in 1..m /\ text[i].kind = "[[package]]"
  BY <1>1, <1>3, MatchAt
<1>5. /\ i + 2 \in 1..m
      /\ LastOf(i, "name") = {i + 1} /\ LastOf(i, "version") = {i + 2}
      /\ text[i + 1].kind = "name" /\ text[i + 2].kind = "version"
  BY <1>1, <1>4, CargoPackage DEF Inv
<1>6. text[i + 1] \in Line["Cargo.lock"] /\ text[i + 2] \in Line["Cargo.lock"]
  BY <1>1, <1>4, <1>5, TextIs DEF Inv
<1>7. PICK n \in 0..Names, v \in Version : n = text[i + 1].name /\ v = text[i + 2].version
  BY <1>6, CargoLockLine DEF Typed
<1>8. VersionAt(LastOf(i, "version")) = v
  BY <1>5, <1>7 DEF VersionAt
<1>9. PICK t : t = Item(n, v, 0, i)
  OBVIOUS
<1>10. t.name = n /\ t.version = sanitize_version(v) /\ t.line = i
  <2>1. i \in Nat /\ 0 \in 0..Names
    BY <1>4, NamesAre
  <2>2. QED
    BY <1>9, <2>1, ItemIs
<1>11. ASSUME NEW d \in Declared, d.line = i PROVE Tells(t, d)
  <2>1. d.name = n /\ d.version = sanitize_version(v)
    BY <1>1, <1>5, <1>7, <1>8, <1>11, DeclaredAt DEF Inv
  <2>2. QED
    BY <1>1, <1>10, <1>11, <2>1 DEF Tells, BlankBefore
<1>12. \E d \in Declared : d.line = i
  <2>1. Declaration(text[i + 1].name, VersionAt(LastOf(i, "version")), i) \in Declared
    BY <1>1, <1>4, <1>5 DEF Declared
  <2>2. QED
    BY <2>1 DEF Declaration
<1>13. \E d \in Declared : Tells(Item(n, v, 0, i), d)
  BY <1>9, <1>11, <1>12
<1>14. \A d \in Declared : text[d.line].kind \in Sought /\ d.line \in 1..m
  BY <1>1, <1>3, <1>4, DeclaredAt DEF Inv
<1>15. ASSUME NEW d \in Declared, d.line \in (i + 1)..((i + 3) - 1) PROVE FALSE
  <2>1. d.line = i + 1 \/ d.line = i + 2
    BY <1>4, <1>15
  <2>2. QED
    BY <1>3, <1>5, <1>14, <2>1
<1>16. i + 3 \in Nat /\ i < i + 3 /\ i + 3 <= Len(text) + 1 /\ i \in DOMAIN text
  BY <1>4, <1>5
<1>17. format \in Searched
  BY <1>1 DEF Searched
<1>18. Match(n, v, i, i + 3)
  BY <1>2, <1>7
<1>19. \A d \in Declared : d.line = i => Tells(Item(n, v, 0, i), d)
  BY <1>9, <1>11
<1>20. QED
  BY <1>1, <1>13, <1>14, <1>15, <1>16, <1>17, <1>18, <1>19, MatchStep
-----------------------------------------------------------------------------
\* Where nothing is found, what is sought is behind.
LEMMA NoMatch ==
    ASSUME Inv, phase = "parse", NextMatch = {}
    PROVE  \A i \in DOMAIN text : text[i].kind \in Sought => i < at
<1>1. PICK n \in Nat : n = Len(text) /\ DOMAIN text = 1..n
  BY TextIs DEF Inv
<1>2. PICK a \in 1..(n + 1) : a = at
  BY <1>1 DEF Inv, Positions
<1>3. PICK S : S = {i \in a..n : text[i].kind \in Sought}
  OBVIOUS
<1>4. ASSUME S # {} PROVE FALSE
  <2>1. PICK i \in S : \A k \in S : i <= k
    BY <1>3, <1>4, LeastNumber
  <2>2. i \in a..n /\ text[i].kind \in Sought
    BY <1>3, <2>1
  <2>3. ASSUME NEW k \in a..(i - 1) PROVE text[k].kind \notin Sought
    <3>1. k \in a..n /\ ~(i <= k)
      BY <2>2
    <3>2. QED
      BY <1>3, <2>1, <3>1
  <2>4. i \in NextMatch
    BY <1>1, <1>2, <2>2, <2>3 DEF NextMatch
  <2>5. QED
    BY <2>4
<1>5. QED
  BY <1>1, <1>2, <1>3, <1>4

\* pnpm-lock.yaml: the packages first, then the dependencies, each in turn.
LEMMA PnpmDeclares ==
    ASSUME Given, format = "pnpm-lock.yaml"
    PROVE  /\ \A d \in Declared : /\ d.line \in Nat /\ d.line > 0 /\ d.line \in DOMAIN text
                                  /\ text[d.line].kind \in {"package", "entry"}
           /\ \A i \in DOMAIN text :
                text[i].kind \in {"package", "entry"} /\ text[i].name # 0 => \E d \in Declared : d.line = i
           /\ \A i \in DOMAIN text : text[i].kind \in {"package", "entry"} =>
                StatedVersion(i) = text[i].version
<1>1. PICK n \in Nat : n = Len(text) /\ DOMAIN text = 1..n /\ \A j \in 1..n : text[j] \in Line[format]
  BY TextIs
<1>2. ASSUME NEW d \in Declared
      PROVE  d.line \in 1..n /\ text[d.line].kind \in {"package", "entry"}
  <2>1. d.line \in 1..n /\ text[d.line].name \in Name
    BY <1>1, DeclaredAt
  <2>2. QED
    BY <1>1, <2>1, PnpmLockLine, NamesAre
<1>3. \A i \in DOMAIN text :
        text[i].kind \in {"package", "entry"} /\ text[i].name # 0 => \E d \in Declared : d.line = i
  BY Declares
<1>4. \A i \in DOMAIN text : text[i].kind \in {"package", "entry"} => StatedVersion(i) = text[i].version
  BY DEF StatedVersion
<1>5. QED
  BY <1>1, <1>2, <1>3, <1>4

LEMMA PnpmHandled ==
    ASSUME format = "pnpm-lock.yaml", UNCHANGED Fixed
    PROVE  /\ \A d : d \in HandledSet <=>
                d \in Declared /\ \/ text[d.line].kind = "package" /\ section = "entry"
                                  \/ text[d.line].kind = section /\ d.line < at
           /\ \A d : d \in HandledSet' <=>
                d \in Declared /\ \/ text[d.line].kind = "package" /\ section' = "entry"
                                  \/ text[d.line].kind = section' /\ d.line < at'
           /\ Bound = at /\ Bound' = at'
<1>1. format' = format /\ text' = text /\ Declared' = Declared
  BY FixedKept DEF Fixed
<1>2. \A d : Handled(d) <=> \/ text[d.line].kind = "package" /\ section = "entry"
                            \/ text[d.line].kind = section /\ d.line < at
  BY SectionsAre DEF Handled
<1>3. \A d : Handled(d)' <=> \/ text[d.line].kind = "package" /\ section' = "entry"
                             \/ text[d.line].kind = section' /\ d.line < at'
  BY <1>1, SectionsAre DEF Handled
<1>4. Bound = at /\ Bound' = at'
  BY <1>1 DEF Bound
<1>5. QED
  BY <1>1, <1>2, <1>3, <1>4 DEF HandledSet

LEMMA PnpmMatch ==
    ASSUME Inv, phase = "parse", format = "pnpm-lock.yaml", section \in {"package", "entry"},
           NEW i \in NextMatch, NEW line \in DOMAIN text, line <= i,
           \A k \in line..(i - 1) : text[k].kind = "blank",
           Match(text[i].name, text[i].version, line, i + 1)
    PROVE  Inv'
<1>1. PICK m \in Nat, a \in Nat :
        /\ m = Len(text) /\ DOMAIN text = 1..m /\ a = at /\ a > 0 /\ i \in a..m
        /\ text[i].kind \in Sought /\ Typed(text[i])
        /\ \A k \in a..(i - 1) : text[k].kind \notin Sought
  BY MatchAt
<1>2. Sought = {section}
  BY DEF Sought
<1>3. /\ UNCHANGED <<format, text, rules, phase, section, name, version, current_line, key, loops>>
      /\ at' = i + 1
  BY DEF Match, scanner
<1>4. UNCHANGED <<Fixed, loops>> /\ phase' = "parse"
  BY <1>3 DEF Fixed
<1>5. Parses
  <2>1. section' \in SectionOf(format')
    BY <1>3 DEF Inv, Positions
  <2>2. at' \in 1..(Len(text') + 1) /\ current_line' \in 1..(Len(text') + 1)
    BY <1>1, <1>3 DEF Inv, Positions
  <2>3. current_line' = 1 /\ current_line' <= at'
    BY <1>1, <1>3 DEF Inv, Positions
  <2>4. Positions'
    BY <1>3, <1>4, <2>1, <2>2, <2>3 DEF Inv, Positions
  <2>5. InSection' /\ InPoetry'
    BY <1>3 DEF InSection, InPoetry
  <2>6. QED
    BY <1>4, <2>4, <2>5 DEF Parses
<1>6. PICK n \in 0..Names, v \in Version : n = text[i].name /\ v = text[i].version
  BY <1>1 DEF Typed
<1>7. v = StatedVersion(i) /\ text[i].kind \in {"package", "entry"}
  BY <1>1, <1>2, <1>6, PnpmDeclares DEF Inv
<1>8. ASSUME NEW d \in Declared, d.line = i PROVE Tells(Item(n, v, 0, line), d)
  <2>1. line \in Nat /\ 0 \in 0..Names /\ format \notin Exact /\ format \notin {"Cargo.lock", "poetry.lock"}
    BY <1>1, NamesAre DEF Exact, BlankBefore
  <2>2. Tells(Item(text[i].name, StatedVersion(i), 0, line), d)
    BY <1>8, <2>1, OwnLine DEF Inv
  <2>3. QED
    BY <1>6, <1>7, <2>2
<1>9. n # 0 => \E d \in Declared : Tells(Item(n, v, 0, line), d)
  BY <1>1, <1>6, <1>7, <1>8, PnpmDeclares DEF Inv
<1>10. ASSUME NEW d \in HandledSet'
       PROVE  d \in HandledSet \/ Tells(Item(n, v, 0, line), d) \/ Hidden(d.line)
  <2>1. /\ d \in Declared
        /\ \/ text[d.line].kind = "package" /\ section = "entry"
           \/ text[d.line].kind = section /\ d.line < i + 1
    BY <1>3, <1>4, <1>10, PnpmHandled
  <2>2. d.line \in Nat
    BY <2>1, PnpmDeclares DEF Inv
  <2>3. CASE text[d.line].kind = section /\ d.line < i + 1 /\ ~(d.line < a)
    <3>1. d.line = i
      BY <1>1, <1>2, <2>2, <2>3
    <3>2. QED
      BY <1>8, <2>1, <3>1
  <2>4. QED
    BY <1>1, <1>4, <2>1, <2>3, PnpmHandled
<1>11. format \notin Exact
  BY DEF Exact, BlankBefore
<1>12. line \in Nat /\ line \in IF format = "package-lock.json" THEN 0..Len(text) ELSE DOMAIN text
  BY <1>1
<1>13. Push(n, v, 0, line) /\ 0 \in 0..Names
  BY <1>6, NamesAre DEF Match
<1>14. QED
  BY <1>5, <1>9, <1>10, <1>11, <1>12, <1>13, PushStep

LEMMA PnpmStep == ASSUME Inv, PnpmPackage \/ PnpmDependency PROVE Inv'
<1>1. CASE PnpmPackage
  <2>1. phase = "parse" /\ format = "pnpm-lock.yaml" /\ section = "package"
    BY <1>1 DEF PnpmPackage, Parsing
  <2>2. PICK i \in NextMatch : Match(text[i].name, text[i].version, MatchStart(i), i + 1)
    BY <1>1 DEF PnpmPackage
  <2>3. PICK m \in Nat, a \in Nat : m = Len(text) /\ DOMAIN text = 1..m /\ a = at /\ a > 0 /\ i \in a..m
    BY <2>1, MatchAt
  <2>4. PICK line \in a..i : line = MatchStart(i) /\ \A k \in line..(i - 1) : text[k].kind = "blank"
    BY <2>3, MatchStartIs
  <2>5. line \in DOMAIN text /\ line <= i
    BY <2>3
  <2>6. QED
    BY <2>1, <2>2, <2>4, <2>5, PnpmMatch
<1>2. CASE PnpmDependency
  <2>1. phase = "parse" /\ format = "pnpm-lock.yaml" /\ section = "entry"
    BY <1>2 DEF PnpmDependency, Parsing
  <2>2. PICK i \in NextMatch : Match(text[i].name, text[i].version, i, i + 1)
    BY <1>2 DEF PnpmDependency
  <2>3. PICK m \in Nat, a \in Nat : m = Len(text) /\ DOMAIN text = 1..m /\ a = at /\ a > 0 /\ i \in a..m
    BY <2>1, MatchAt
  <2>4. i \in DOMAIN text /\ i <= i /\ \A k \in i..(i - 1) : FALSE
    BY <2>3
  <2>5. QED
    BY <2>1, <2>2, <2>4, PnpmMatch
<1>3. QED
  BY <1>1, <1>2

LEMMA PnpmSections == ASSUME Inv, PnpmDependencies PROVE Inv'
<1>1. phase = "parse" /\ format = "pnpm-lock.yaml" /\ section = "package" /\ NextMatch = {}
  BY DEF PnpmDependencies, Parsing
<1>2. /\ UNCHANGED <<format, text, rules, phase, name, version, current_line, key, items, loops>>
      /\ at' = 1 /\ section' = "entry"
  BY DEF PnpmDependencies
<1>3. UNCHANGED <<Fixed, loops>> /\ phase' = "parse"
  BY <1>1, <1>2 DEF Fixed
<1>4. PICK m \in Nat : m = Len(text)
  BY TextIs DEF Inv
<1>5. at \in 1..(m + 1) /\ current_line = 1
  BY <1>1, <1>4 DEF Inv, Positions
<1>6. Parses
  <2>1. section' \in SectionOf(format')
    BY <1>1, <1>2, SectionOfIs
  <2>2. Positions'
    BY <1>2, <1>3, <1>4, <1>5, <2>1 DEF Inv, Positions
  <2>3. InSection' /\ InPoetry'
    BY <1>1, <1>2 DEF InSection, InPoetry
  <2>4. QED
    BY <1>1, <1>3, <2>2, <2>3 DEF Parses
<1>7. ASSUME NEW d \in HandledSet' PROVE d \in HandledSet
  <2>1. d \in Declared /\ (text[d.line].kind = "package" \/ d.line < 1)
    BY <1>1, <1>2, <1>3, <1>7, PnpmHandled
  <2>2. d.line \in Nat /\ d.line > 0 /\ d.line \in DOMAIN text
    BY <1>1, <2>1, PnpmDeclares DEF Inv
  <2>3. Sought = {"package"}
    BY <1>1 DEF Sought
  <2>4. d.line < at
    BY <1>1, <2>1, <2>2, <2>3, NoMatch
  <2>5. QED
    BY <1>1, <1>3, <2>1, <2>2, <2>4, PnpmHandled
<1>8. format \notin Exact
  BY <1>1 DEF Exact, BlankBefore
<1>9. QED
  BY <1>2, <1>6, <1>7, <1>8, SilentStep
-----------------------------------------------------------------------------
\* The JSON formats: what a text is, and the order of its sections.
LEMMA JsonText ==
    ASSUME Given, format \in DOMAIN Sections
    PROVE  /\ \A i \in DOMAIN text :
                /\ text[i].kind \in {"root"} \cup Range(Sections[format])
                /\ text[i].name \in Name /\ Typed(text[i]) /\ StatedVersion(i) = text[i].version
           /\ \A i, k \in DOMAIN text :
                text[i].kind = text[k].kind /\ text[i].name = text[k].name => i = k
           /\ \A d \in Declared : d.line \in DOMAIN text /\ d.name = text[d.line].name /\ d.name \in Name
                                  /\ text[d.line].kind \in Range(Sections[format])
           /\ \A i \in DOMAIN text :
                text[i].kind \in Range(Sections[format]) => \E d \in Declared : d.line = i
<1>1. PICK n \in Nat :
        /\ n = Len(text) /\ DOMAIN text = 1..n /\ \A j \in 1..n : text[j] \in Line[format]
        /\ WellFormed(format, text)
  BY TextIs
<1>2. ASSUME NEW i \in 1..n
      PROVE  /\ text[i].kind \in {"root"} \cup Range(Sections[format])
             /\ text[i].name \in Name /\ Typed(text[i])
  BY <1>1, SectionsAre, RangesAre, PackageLockLine, PackageJsonLine, PipfileLine
<1>3. "extra" \notin {"root"} \cup Range(Sections[format])
      /\ "pretty" \notin {"root"} \cup Range(Sections[format])
      /\ {"root", "metadata", "nested"} \cap Range(Sections[format]) = {}
  BY SectionsAre, RangesAre
<1>4. \A i \in 1..n : StatedVersion(i) = text[i].version
  BY <1>2, <1>3 DEF StatedVersion
<1>5. \A i, k \in 1..n : i < k /\ text[i].kind = text[k].kind => text[i].name # text[k].name
  BY <1>1, SectionsAre DEF WellFormed
<1>6. \A i, k \in 1..n : text[i].kind = text[k].kind /\ text[i].name = text[k].name => i = k
  <2>1. ASSUME NEW i \in 1..n, NEW k \in 1..n, text[i].kind = text[k].kind,
               text[i].name = text[k].name
        PROVE  i = k
    <3>1. ~(i < k) /\ ~(k < i)
      BY <1>5, <2>1
    <3>2. QED
      BY <3>1
  <2>2. QED
    BY <2>1
<1>7. format \notin {"Cargo.toml", "go.mod", "Cargo.lock", "poetry.lock"}
  BY SectionsAre
<1>8. ASSUME NEW d \in Declared
      PROVE  /\ d.line \in 1..n /\ d.name = text[d.line].name /\ d.name \in Name
             /\ text[d.line].kind \in Range(Sections[format])
  <2>1. /\ d.line \in 1..n /\ d.name = text[d.line].name /\ d.name \in Name
        /\ text[d.line].kind \notin {"root", "metadata", "nested"}
    BY <1>1, <1>7, DeclaredAt
  <2>2. QED
    BY <1>2, <2>1
<1>9. \A i \in 1..n : text[i].kind \in Range(Sections[format]) => \E d \in Declared : d.line = i
  <2>1. ASSUME NEW i \in 1..n, text[i].kind \in Range(Sections[format])
        PROVE  \E d \in Declared : d.line = i
    <3>1. text[i].kind \notin {"root", "metadata", "nested"} /\ text[i].name # 0
      BY <1>2, <1>3, <2>1, NamesAre
    <3>2. QED
      BY <1>1, <1>7, <3>1, Declares
  <2>2. QED
    BY <2>1
<1>10. QED
  BY <1>1, <1>2, <1>4, <1>6, <1>8, <1>9

LEMMA SectionOrder ==
    ASSUME NEW f \in DOMAIN Sections
    PROVE  \E n \in Nat :
             /\ n = Len(Sections[f]) /\ DOMAIN Sections[f] = 1..n /\ n > 0
             /\ \A i, j \in 1..n : Sections[f][i] = Sections[f][j] => i = j
             /\ Range(Sections[f]) = {Sections[f][i] : i \in 1..n}
             /\ \A i \in 1..n : Sections[f][i] \notin {"none", "root"}
<1>1. CASE f = "package.json"
  BY <1>1, SectionsAre DEF Range
<1>2. CASE f = "package-lock.json"
  BY <1>2, SectionsAre DEF Range
<1>3. CASE f = "Pipfile.lock"
  BY <1>3, SectionsAre DEF Range
<1>4. QED
  BY <1>1, <1>2, <1>3, SectionsAre

LEMMA JsonHandled ==
    ASSUME format \in DOMAIN Sections, UNCHANGED Fixed
    PROVE  /\ \A d : d \in HandledSet <=>
                d \in Declared /\ \/ Behind(text[d.line].kind)
                                  \/ text[d.line].kind = section /\ d.name <= key
           /\ \A d : d \in HandledSet' <=>
                d \in Declared /\ \/ Behind(text[d.line].kind)'
                                  \/ text[d.line].kind = section' /\ d.name <= key'
           /\ format \notin Exact
<1>1. format' = format /\ text' = text /\ Declared' = Declared
  BY FixedKept DEF Fixed
<1>2. \A d : Handled(d) <=> \/ Behind(text[d.line].kind)
                            \/ text[d.line].kind = section /\ d.name <= key
  BY SectionsAre DEF Handled
<1>3. \A d : Handled(d)' <=> \/ Behind(text[d.line].kind)'
                             \/ text[d.line].kind = section' /\ d.name <= key'
  BY <1>1, SectionsAre DEF Handled
<1>4. format \notin Exact
  BY DEF Exact
<1>5. QED
  BY <1>1, <1>2, <1>3, <1>4 DEF HandledSet

\* A line that is searched for is a line of the text, or 0.
LEMMA FirstOfIs ==
    ASSUME NEW S, NEW n \in Nat, S \in SUBSET (1..n)
    PROVE  FirstOf(S) \in 0..n /\ (S # {} => FirstOf(S) \in S)
<1>1. S \in SUBSET Nat
  OBVIOUS
<1>2. CASE S = {}
  BY <1>2 DEF FirstOf
<1>3. CASE S # {}
  <2>1. Min(S) \in S
    BY <1>1, <1>3, MinIs
  <2>2. FirstOf(S) = Min(S)
    BY <1>3 DEF FirstOf
  <2>3. PICK x \in S : x = Min(S)
    BY <2>1
  <2>4. x \in 1..n /\ FirstOf(S) = x
    BY <2>2, <2>3
  <2>5. QED
    BY <2>3, <2>4
<1>4. QED
  BY <1>2, <1>3

LEMMA KeyLines ==
    ASSUME Given, NEW n
    PROVE  /\ KeyLine(n) \in 0..Len(text) /\ NameLine(n) \in 0..Len(text)
           /\ (\E i \in DOMAIN text : text[i].name = n /\ text[i].kind # "packages")
                => KeyLine(n) \in DOMAIN text
           /\ (\E i \in DOMAIN text : text[i].name = n /\ text[i].kind \in {"metadata", "component", "package"})
                => NameLine(n) \in DOMAIN text
<1>1. PICK m \in Nat : m = Len(text) /\ DOMAIN text = 1..m
  BY TextIs
<1>2. PICK S : S = {i \in DOMAIN text : text[i].name = n /\ text[i].kind # "packages"}
  OBVIOUS
<1>3. PICK T : T = {i \in DOMAIN text : text[i].name = n /\
                      \/ text[i].kind \in {"metadata", "component", "package"}
                      \/ text[i].kind = "packages" /\ text[i].group = 1}
  OBVIOUS
<1>4. KeyLine(n) = FirstOf(S) /\ NameLine(n) = FirstOf(T)
  BY <1>2, <1>3 DEF KeyLine, NameLine
<1>5. S \in SUBSET (1..m) /\ T \in SUBSET (1..m)
  BY <1>1, <1>2, <1>3
<1>6. /\ FirstOf(S) \in 0..m /\ (S # {} => FirstOf(S) \in S)
      /\ FirstOf(T) \in 0..m /\ (T # {} => FirstOf(T) \in T)
  BY <1>5, FirstOfIs
<1>7. (\E i \in DOMAIN text : text[i].name = n /\ text[i].kind # "packages") => S # {}
  BY <1>2
<1>8. (\E i \in DOMAIN text : text[i].name = n /\ text[i].kind \in {"metadata", "component", "package"})
        => T # {}
  BY <1>3
<1>9. QED
  BY <1>1, <1>4, <1>5, <1>6, <1>7, <1>8

\* A key that is taken is the next one of its section.
LEMMA KeyTaken ==
    ASSUME Inv, phase = "parse", format \in DOMAIN Sections, NEW i \in NextKey, NEW line,
           line \in IF format = "package-lock.json" THEN 0..Len(text) ELSE DOMAIN text,
           TakeKey(i, line)
    PROVE  Inv'
<1>1. PICK m \in Nat : m = Len(text) /\ DOMAIN text = 1..m
  BY TextIs DEF Inv
<1>2. i \in 1..m /\ text[i].kind = section /\ IsNextKey(text[i].name)
  BY <1>1 DEF NextKey
<1>3. text[i].name \in Name /\ Typed(text[i]) /\ StatedVersion(i) = text[i].version
  BY <1>1, <1>2, JsonText DEF Inv
<1>4. PICK n \in 0..Names, v \in Version : n = text[i].name /\ v = text[i].version
  BY <1>3 DEF Typed
<1>5. /\ UNCHANGED <<format, text, rules, phase, at, section, name, version, current_line, loops>>
      /\ key' = n
  BY <1>4 DEF TakeKey
<1>6. UNCHANGED <<Fixed, loops>> /\ phase' = "parse"
  BY <1>5 DEF Fixed
<1>7. Parses
  <2>1. section' \in SectionOf(format')
    BY <1>5 DEF Inv, Positions
  <2>2. Positions'
    BY <1>1, <1>5, <2>1 DEF Inv, Positions
  <2>3. InSection' /\ InPoetry'
    BY <1>5, SectionsAre DEF InSection, InPoetry
  <2>4. QED
    BY <1>6, <2>2, <2>3 DEF Parses
<1>8. section \in Range(Sections[format])
  <2>1. section \in Range(Sections[format]) \cup {"none"}
    BY SectionOfIs DEF Inv, Positions
  <2>2. text[i].kind \in {"root"} \cup Range(Sections[format])
    BY <1>1, <1>2, JsonText DEF Inv
  <2>3. "none" \notin {"root"} \cup Range(Sections[format])
    BY SectionsAre, RangesAre
  <2>4. QED
    BY <1>2, <2>1, <2>2, <2>3
<1>9. ASSUME NEW d \in Declared, d.line = i PROVE Tells(Item(n, v, 0, line), d)
  <2>1. format \notin Exact /\ format \notin BlankBefore \cup {"Cargo.lock", "poetry.lock"}
    BY SectionsAre DEF Exact, BlankBefore
  <2>2. line \in Nat /\ 0 \in 0..Names
    BY <1>1, NamesAre
  <2>3. Tells(Item(text[i].name, StatedVersion(i), 0, line), d)
    BY <1>9, <2>1, <2>2, OwnLine DEF Inv
  <2>4. QED
    BY <1>3, <1>4, <2>3
<1>10. \E d \in Declared : Tells(Item(n, v, 0, line), d)
  <2>1. PICK d \in Declared : d.line = i
    BY <1>1, <1>2, <1>8, JsonText DEF Inv
  <2>2. QED
    BY <1>9, <2>1
<1>11. \A s : Behind(s)' <=> Behind(s)
  BY <1>5 DEF Behind
<1>12. key \in 0..Names
  BY DEF Inv, Positions
<1>13. ASSUME NEW d \in HandledSet'
       PROVE  d \in HandledSet \/ Tells(Item(n, v, 0, line), d) \/ Hidden(d.line)
  <2>1. /\ d \in Declared
        /\ Behind(text[d.line].kind) \/ (text[d.line].kind = section /\ d.name <= n)
    BY <1>5, <1>6, <1>11, <1>13, JsonHandled
  <2>2. d.line \in 1..m /\ d.name = text[d.line].name /\ d.name \in Name
    BY <1>1, <2>1, JsonText DEF Inv
  <2>3. CASE text[d.line].kind = section /\ d.name <= n /\ ~(d.name <= key)
    <3>1. IsKey(d.name) /\ d.name > key
      BY <1>1, <1>12, <2>2, <2>3, ManifestsAssumption DEF IsKey, Name
    <3>2. n <= d.name
      BY <1>2, <1>4, <2>2, <3>1 DEF IsNextKey
    <3>3. n = d.name
      BY <2>2, <2>3, <3>2, ManifestsAssumption DEF Name
    <3>4. d.line = i
      BY <1>1, <1>2, <1>4, <2>2, <2>3, <3>3, JsonText DEF Inv
    <3>5. QED
      BY <1>9, <2>1, <3>4
  <2>4. QED
    BY <1>6, <2>1, <2>3, JsonHandled
<1>14. format \notin Exact
  BY DEF Exact
<1>15. Push(n, v, 0, line) /\ 0 \in 0..Names /\ line \in Nat
  BY <1>1, <1>4, NamesAre DEF TakeKey
<1>16. QED
  BY <1>7, <1>10, <1>13, <1>14, <1>15, PushStep

LEMMA KeyStep ==
    ASSUME Inv, PackageJsonKey \/ PackageLockKey \/ PackageLockPath \/ PipfileKey PROVE Inv'
<1>1. phase = "parse" /\ format \in DOMAIN Sections
  BY SectionsAre DEF PackageJsonKey, PackageLockKey, PackageLockPath, PipfileKey, Parsing
<1>2. PICK m \in Nat : m = Len(text) /\ DOMAIN text = 1..m
  BY TextIs DEF Inv
<1>3. CASE PackageJsonKey \/ PipfileKey
  <2>1. PICK i \in NextKey : TakeKey(i, KeyLine(text[i].name))
    BY <1>3 DEF PackageJsonKey, PipfileKey
  <2>2. format \in {"package.json", "Pipfile.lock"}
    BY <1>3 DEF PackageJsonKey, PipfileKey, Parsing
  <2>3. i \in DOMAIN text
    BY DEF NextKey
  <2>4. text[i].kind # "packages"
    <3>1. text[i].kind \in {"root"} \cup Range(Sections[format])
      BY <1>1, <2>3, JsonText DEF Inv
    <3>2. QED
      BY <2>2, <3>1, RangesAre
  <2>5. KeyLine(text[i].name) \in DOMAIN text
    BY <2>3, <2>4, KeyLines DEF Inv
  <2>6. QED
    BY <1>1, <2>1, <2>2, <2>5, KeyTaken
<1>4. CASE PackageLockKey
  <2>1. PICK i \in NextKey : TakeKey(i, KeyLine(text[i].name))
    BY <1>4 DEF PackageLockKey
  <2>2. format = "package-lock.json"
    BY <1>4 DEF PackageLockKey, Parsing
  <2>3. KeyLine(text[i].name) \in 0..Len(text)
    BY KeyLines DEF Inv
  <2>4. QED
    BY <1>1, <2>1, <2>2, <2>3, KeyTaken
<1>5. CASE PackageLockPath
  <2>1. PICK i \in NextKey : TakeKey(i, NameLine(text[i].name))
    BY <1>5 DEF PackageLockPath
  <2>2. format = "package-lock.json"
    BY <1>5 DEF PackageLockPath, Parsing
  <2>3. NameLine(text[i].name) \in 0..Len(text)
    BY KeyLines DEF Inv
  <2>4. QED
    BY <1>1, <2>1, <2>2, <2>3, KeyTaken
<1>6. QED
  BY <1>3, <1>4, <1>5

\* The sections behind the next one are those behind this one, and this one.
LEMMA BehindNext ==
    ASSUME format \in DOMAIN Sections, format' = format, section \in Range(Sections[format]),
           section' = SectionAfter(section)
    PROVE  /\ section' \in SectionOf(format')
           /\ \A s : Behind(s)' => Behind(s) \/ s = section
<1>1. PICK all : all = Sections[format]
  OBVIOUS
<1>2. PICK n \in Nat :
        /\ n = Len(all) /\ DOMAIN all = 1..n /\ n > 0
        /\ \A i, j \in 1..n : all[i] = all[j] => i = j
        /\ Range(all) = {all[i] : i \in 1..n}
        /\ \A i \in 1..n : all[i] # "none"
  BY <1>1, SectionOrder
<1>3. PICK k \in 1..n : section = all[k]
  BY <1>1, <1>2
<1>4. \A i \in 1..n : all[i] = section => i = k
  BY <1>2, <1>3
<1>5. (CHOOSE i \in DOMAIN all : all[i] = section) = k
  BY <1>2, <1>3, <1>4
<1>6. section' = IF k = n THEN "none" ELSE all[k + 1]
  BY <1>1, <1>2, <1>5 DEF SectionAfter
<1>7. section' \in SectionOf(format')
  <2>1. SectionOf(format') = Range(all) \cup {"none"}
    BY <1>1, <1>2, SectionOfIs
  <2>2. k = n \/ k + 1 \in 1..n
    BY <1>2, <1>3
  <2>3. QED
    BY <1>2, <1>6, <2>1, <2>2
<1>8. \A s : Behind(s) <=> \E i, j \in 1..(n + 1) :
         i < j /\ i \in 1..n /\ all[i] = s /\ IF j \in 1..n THEN section = all[j] ELSE section = "none"
  BY <1>1, <1>2 DEF Behind
<1>9. \A s : Behind(s)' <=> \E i, j \in 1..(n + 1) :
         i < j /\ i \in 1..n /\ all[i] = s /\ IF j \in 1..n THEN section' = all[j] ELSE section' = "none"
  BY <1>1, <1>2 DEF Behind
<1>10. ASSUME NEW s, Behind(s)' PROVE Behind(s) \/ s = section
  <2>1. PICK i \in 1..(n + 1), j \in 1..(n + 1) :
          i < j /\ i \in 1..n /\ all[i] = s /\ IF j \in 1..n THEN section' = all[j] ELSE section' = "none"
    BY <1>9, <1>10
  <2>2. j = k + 1
    <3>1. CASE j \in 1..n
      <4>1. k # n /\ k + 1 \in 1..n
        BY <1>2, <1>3, <1>6, <2>1, <3>1
      <4>2. QED
        BY <1>2, <1>6, <2>1, <3>1, <4>1
    <3>2. CASE j \notin 1..n
      <4>1. k = n
        <5>1. k # n => k + 1 \in 1..n
          BY <1>2, <1>3
        <5>2. QED
          BY <1>2, <1>6, <2>1, <3>2, <5>1
      <4>2. QED
        BY <1>2, <3>2, <4>1
    <3>3. QED
      BY <3>1, <3>2
  <2>3. CASE i = k
    BY <1>3, <2>1, <2>3
  <2>4. CASE i < k
    BY <1>3, <1>8, <2>1, <2>4
  <2>5. QED
    BY <1>2, <2>1, <2>2, <2>3, <2>4
<1>11. QED
  BY <1>7, <1>10

\* Where no key is next, all keys of the section have been taken.
LEMMA NoNextKey ==
    ASSUME Inv, \A n \in Name : ~IsNextKey(n)
    PROVE  \A n \in Name : IsKey(n) => n <= key
<1>1. key \in Nat /\ Name \in SUBSET Nat
  BY ManifestsAssumption DEF Inv, Positions, Name
<1>2. PICK S : S = {n \in Name : IsKey(n) /\ n > key}
  OBVIOUS
<1>3. ASSUME S # {} PROVE FALSE
  <2>1. S \in SUBSET Nat
    BY <1>1, <1>2
  <2>2. PICK n \in S : \A k \in S : n <= k
    BY <1>3, <2>1, LeastNumber
  <2>3. IsNextKey(n) /\ n \in Name
    BY <1>2, <2>2 DEF IsNextKey
  <2>4. QED
    BY <2>3
<1>4. QED
  BY <1>1, <1>2, <1>3

LEMMA SectionStep == ASSUME Inv, JsonSection PROVE Inv'
<1>1. /\ phase = "parse" /\ format \in DOMAIN Sections /\ section # "none"
      /\ \A n \in Name : ~IsNextKey(n)
  BY DEF JsonSection, Parsing
<1>2. /\ UNCHANGED <<format, text, rules, phase, at, name, version, current_line, items, loops>>
      /\ section' = SectionAfter(section) /\ key' = 0
  BY DEF JsonSection
<1>3. UNCHANGED <<Fixed, loops>> /\ phase' = "parse" /\ 0 \in 0..Names
  BY <1>1, <1>2, NamesAre DEF Fixed
<1>4. section \in Range(Sections[format])
  <2>1. section \in Range(Sections[format]) \cup {"none"}
    BY <1>1, SectionOfIs DEF Inv, Positions
  <2>2. QED
    BY <1>1, <2>1
<1>5. /\ section' \in SectionOf(format')
      /\ \A s : Behind(s)' => Behind(s) \/ s = section
  BY <1>1, <1>2, <1>4, BehindNext
<1>6. Parses
  <2>1. Positions'
    BY <1>2, <1>3, <1>5 DEF Inv, Positions
  <2>2. InSection' /\ InPoetry'
    BY <1>1, <1>2, SectionsAre DEF InSection, InPoetry
  <2>3. QED
    BY <1>1, <1>3, <2>1, <2>2 DEF Parses
<1>7. ASSUME NEW d \in HandledSet' PROVE d \in HandledSet
  <2>1. d \in Declared /\ (Behind(text[d.line].kind)' \/ d.name <= 0)
    BY <1>1, <1>2, <1>3, <1>7, JsonHandled
  <2>2. d.name \in Name /\ d.name = text[d.line].name /\ d.line \in DOMAIN text /\ d.name > 0 /\ d.name \in Nat
    BY <1>1, <2>1, JsonText, ManifestsAssumption DEF Inv, Name
  <2>3. Behind(text[d.line].kind) \/ text[d.line].kind = section
    <3>1. PICK s : s = text[d.line].kind /\ (Behind(s)' \/ d.name <= 0)
      BY <1>2, <2>1
    <3>2. Behind(s) \/ s = section
      BY <1>5, <2>2, <3>1
    <3>3. QED
      BY <3>1, <3>2
  <2>4. text[d.line].kind = section => d.name <= key
    <3>1. text[d.line].kind = section => IsKey(d.name)
      BY <2>2 DEF IsKey
    <3>2. QED
      BY <1>1, <2>2, <3>1, NoNextKey
  <2>5. QED
    BY <1>1, <1>3, <2>1, <2>3, <2>4, JsonHandled
<1>8. format \notin Exact
  BY <1>1 DEF Exact
<1>9. QED
  BY <1>2, <1>6, <1>7, <1>8, SilentStep
-----------------------------------------------------------------------------
\* An SBOM.
LEMMA SbomStep == ASSUME Inv, CycloneDxComponent \/ SpdxPackage PROVE Inv'
<1>1. phase = "parse" /\ format = "sbom" /\ Advance /\ UNCHANGED scanner
  BY DEF CycloneDxComponent, SpdxPackage, Parsing
<1>2. /\ at \in DOMAIN text /\ at \in Nat /\ at' = at + 1 /\ text' = text /\ format' = format
      /\ text[at] \in Line[format] /\ Typed(text[at])
  BY <1>1, Advanced, TextIs DEF Inv
<1>3. /\ text[at].kind \in {"metadata", "component", "package"} /\ text[at].name \in Name
      /\ text[at].name # 0
  BY <1>1, <1>2, SbomLine, NamesAre
<1>4. format \in ByLine /\ format \notin BlankBefore \cup {"Cargo.lock"}
  BY <1>1, SectionsAre DEF ByLine, BlankBefore, Format
<1>5. Parses
  <2>1. section' \in SectionOf(format')
    BY <1>1, <1>2 DEF Inv, Positions, scanner
  <2>2. Positions'
    BY <1>1, <1>2, <2>1, Advanced DEF Inv, Positions, scanner
  <2>3. InSection' /\ InPoetry'
    BY <1>1, <1>2 DEF InSection, InPoetry
  <2>4. QED
    BY <2>2, <2>3, <1>1, Advanced DEF Parses
<1>6. CASE text[at].kind \in {"component", "package"}
  <2>1. PICK l : l = NameLine(text[at].name)
    OBVIOUS
  <2>2. Push(text[at].name, text[at].version, text[at].group, l)
    BY <1>6, <2>1 DEF CycloneDxComponent, SpdxPackage, At
  <2>3. StatedVersion(at) = text[at].version
    BY <1>6 DEF StatedVersion
  <2>4. l \in DOMAIN text /\ l \in Nat
    <3>1. l \in DOMAIN text
      BY <1>2, <1>3, <2>1, KeyLines DEF Inv
    <3>2. QED
      BY <3>1, TextIs DEF Inv
  <2>5. \E d \in Declared : d.line = at
    <3>1. text[at].kind \notin {"root", "metadata", "nested"}
      BY <1>6
    <3>2. QED
      BY <1>1, <1>2, <1>3, <3>1, Declares
  <2>6. text[at].group \in 0..Names
    BY <1>2 DEF Typed
  <2>7. QED
    BY <1>1, <1>4, <1>5, <2>2, <2>3, <2>4, <2>5, <2>6, PushLine
<1>7. CASE text[at].kind = "metadata"
  <2>1. items' = items
    BY <1>7 DEF CycloneDxComponent, SpdxPackage, At
  <2>2. \A d \in Declared : d.line # at
    BY <1>1, <1>7, DeclaredAt DEF Inv
  <2>3. QED
    BY <1>1, <1>4, <1>5, <2>1, <2>2, PassLine
<1>8. QED
  BY <1>3, <1>6, <1>7

\* A parser that has ended is past every declaration.
LEMMA AllHandled ==
    ASSUME Inv, Parsed, NEW d \in Declared, format # "poetry.lock"
    PROVE  Handled(d)
<1>1. PICK n \in Nat : n = Len(text) /\ DOMAIN text = 1..n
  BY TextIs DEF Inv
<1>2. d.line \in 1..n /\ phase = "parse"
  BY <1>1, DeclaredAt DEF Inv, Parsed
<1>3. at \in 1..(n + 1)
  BY <1>1 DEF Inv, Positions
<1>4. CASE format \in DOMAIN Sections
  <2>1. section = "none"
    BY <1>4, SectionsAre DEF Parsed, Sought
  <2>2. PICK all : all = Sections[format]
    OBVIOUS
  <2>3. PICK m \in Nat : m = Len(all) /\ DOMAIN all = 1..m /\ Range(all) = {all[i] : i \in 1..m}
    BY <1>4, <2>2, SectionOrder
  <2>4. text[d.line].kind \in Range(all)
    BY <1>4, <2>2, JsonText DEF Inv
  <2>5. PICK i \in 1..m : text[d.line].kind = all[i]
    BY <2>3, <2>4
  <2>6. i < m + 1 /\ m + 1 \notin 1..m
    BY <2>3
  <2>7. Behind(text[d.line].kind)
    BY <2>1, <2>2, <2>3, <2>5, <2>6 DEF Behind
  <2>8. QED
    BY <1>4, <2>7, SectionsAre DEF Handled
<1>5. CASE format = "pnpm-lock.yaml"
  <2>1. section \in {"package", "entry"}
    BY <1>5, SectionOfIs DEF Inv, Positions
  <2>2. Sought = {section}
    BY <1>5 DEF Sought
  <2>3. section # "package" /\ NextMatch = {}
    BY <1>5, <2>2, SectionsAre DEF Parsed
  <2>4. text[d.line].kind \in {"package", "entry"}
    BY <1>5, PnpmDeclares DEF Inv
  <2>5. text[d.line].kind = "entry" => d.line < at
    BY <1>1, <1>2, <2>1, <2>2, <2>3, NoMatch
  <2>6. QED
    BY <1>5, <2>1, <2>3, <2>4, <2>5, SectionsAre DEF Handled
<1>6. CASE format \in Searched
  <2>1. Sought # {}
    BY <1>6 DEF Searched, Sought
  <2>2. NextMatch = {}
    BY <1>6, <2>1, SectionsAre DEF Parsed, Searched
  <2>3. text[d.line].kind \in Sought
    <3>1. CASE format = "Cargo.lock"
      BY <3>1, DeclaredAt DEF Inv, Sought
    <3>2. CASE format # "Cargo.lock"
      BY <1>6, <3>2, SoughtDeclares DEF Inv
    <3>3. QED
      BY <3>1, <3>2
  <2>4. d.line < at
    BY <1>1, <1>2, <2>2, <2>3, NoMatch
  <2>5. QED
    BY <1>6, <2>4, SectionsAre DEF Handled, Searched
<1>7. CASE format \notin DOMAIN Sections \cup {"pnpm-lock.yaml"} \cup Searched
  <2>1. Sought = {}
    BY <1>7 DEF Sought, Searched
  <2>2. at > n
    BY <1>1, <1>7, <2>1 DEF Parsed
  <2>3. QED
    BY <1>2, <1>3, <1>7, <2>2 DEF Handled
<1>8. QED
  BY <1>4, <1>5, <1>6, <1>7

LEMMA ParsedStep == ASSUME Inv, Parsed PROVE Inv'
<1>1. PICK n \in Nat : n = Len(text) /\ DOMAIN text = 1..n
  BY TextIs DEF Inv
<1>2. /\ phase = "parse" /\ phase' = "dedup"
      /\ UNCHANGED <<format, text, rules, at, section, name, version, current_line, key, loops>>
  BY DEF Parsed, scanner
<1>3. UNCHANGED <<Fixed, loops>> /\ format' = format /\ text' = text
  BY <1>2 DEF Fixed
<1>4. PICK s : s = items /\ s \in Seq(Items) /\ Collected(s, HandledSet, Bound)
  BY <1>2 DEF Inv, Gathered, Collected
<1>5. PICK b \in Nat : b = Bound /\ b <= n + 1
  BY <1>1 DEF Inv, Positions, Bound
<1>6. Positions'
  BY <1>2, <1>3 DEF Inv, Positions
<1>7. /\ items' \in Seq(Items) /\ Collected(items', Declared, n + 1) /\ Lined'
  <2>1. CASE format # "poetry.lock"
    <3>1. items' = items
      BY <2>1 DEF Parsed
    <3>2. \A d \in Declared : d \in HandledSet
      BY <2>1, AllHandled DEF HandledSet
    <3>3. Collected(s, Declared, n + 1)
      BY <1>4, <1>5, <3>2, NothingPushed DEF Inv
    <3>4. QED
      BY <1>3, <1>4, <3>1, <3>3 DEF Lined, Inv
  <2>2. CASE format = "poetry.lock"
    <3>1. PICK p \in 1..(n + 1), a \in 1..(n + 1) : p = current_line /\ a = at
      BY <1>1 DEF Inv, Positions
    <3>2. a = n + 1
      <4>1. Sought = {}
        BY <2>2 DEF Sought
      <4>2. at > Len(text)
        BY <2>2, <4>1, SectionsAre DEF Parsed
      <4>3. QED
        BY <1>1, <3>1, <4>2
    <3>3. /\ \A d \in Declared : d.line \in Nat /\ (d.line < a => d.line <= p)
          /\ name = 0 => \A d \in Declared : ~(d.line = p /\ d.line < a)
          /\ name # 0 =>
               /\ p < a /\ p \in DOMAIN text
               /\ \E d \in Declared : Tells(Item(name, version, 0, p), d)
               /\ \A d \in Declared : d.line = p => Tells(Item(name, version, 0, p), d)
      BY <1>1, <1>2, <2>2, <3>1, <3>2, PoetryPackage
    <3>4. \A d : d \in HandledSet <=> d \in Declared /\ d.line < p
      BY <1>3, <2>2, <3>1, PoetryHandled
    <3>5. \A d \in Declared : d.line < a
      <4>1. \A d \in Declared : d.line \in 1..n
        BY <1>1, DeclaredAt DEF Inv
      <4>2. QED
        BY <3>2, <4>1
    <3>6. b = p
      BY <1>5, <2>2, <3>1 DEF Bound
    <3>7. PushPackage
      BY <2>2 DEF Parsed
    <3>8. PICK H : H = HandledSet
      OBVIOUS
    <3>9. Collected(s, H, b)
      BY <1>4, <1>5, <3>8
    <3>10. CASE name = 0
      <4>1. items' = items
        BY <3>7, <3>10 DEF PushPackage
      <4>2. \A d \in Declared : d \in H
        BY <3>3, <3>4, <3>5, <3>8, <3>10
      <4>3. Collected(s, Declared, n + 1)
        BY <1>5, <3>9, <4>2, NothingPushed DEF Inv
      <4>4. QED
        BY <1>3, <1>4, <4>1, <4>3 DEF Lined, Inv
    <3>11. CASE name # 0
      <4>1. PICK m \in 0..Names, v \in Version : m = name /\ v = version
        BY DEF Inv, Positions, Version
      <4>2. PICK i : i = Item(m, v, 0, p)
        OBVIOUS
      <4>3. i \in Items /\ i.name = m /\ i.line = p
        BY <4>2, ItemIs, NamesAre
      <4>4. items' = Append(s, i)
        BY <1>4, <3>1, <3>7, <3>11, <4>1, <4>2 DEF PushPackage, Push
      <4>5. i.name # 0 => \E d \in Declared : Tells(i, d)
        BY <3>3, <3>11, <4>1, <4>2
      <4>6. \A d \in Declared : d \in H \/ Tells(i, d) \/ Hidden(d.line)
        BY <3>3, <3>4, <3>5, <3>8, <3>11, <4>1, <4>2
      <4>7. format \in Exact => b <= i.line /\ i.line < n + 1
        BY <3>2, <3>3, <3>6, <3>11, <4>3
      <4>8. Collected(Append(s, i), Declared, n + 1)
        BY <3>9, <4>3, <4>5, <4>6, <4>7, PushCollects DEF Inv
      <4>9. items' \in Seq(Items)
        BY <1>4, <4>3, <4>4
      <4>10. Lined'
        <5>1. PICK q \in Nat : q = Len(s) /\ DOMAIN s = 1..q
          BY <1>4
        <5>2. /\ DOMAIN items' = 1..(q + 1) /\ items'[q + 1] = i
              /\ \A k \in 1..q : items'[k] = s[k]
          BY <1>4, <4>3, <4>4, <5>1
        <5>3. i.line \in DOMAIN text
          BY <3>3, <3>11, <4>3
        <5>4. QED
          BY <1>3, <1>4, <2>2, <5>1, <5>2, <5>3 DEF Lined, Inv
      <4>11. QED
        BY <4>4, <4>8, <4>9, <4>10
    <3>12. QED
      BY <3>10, <3>11
  <2>3. QED
    BY <2>1, <2>2
<1>8. Collected(items, Declared, Len(text) + 1)'
  <2>1. PICK t, D, c : t = items' /\ D = Declared /\ c = n + 1
    OBVIOUS
  <2>2. Collected(t, D, c)'
    BY <1>3, <1>7, <2>1, CollectedKept
  <2>3. Declared' = D /\ Len(text') + 1 = c
    BY <1>1, <1>3, <2>1, FixedKept
  <2>4. QED
    BY <2>1, <2>2, <2>3
<1>9. Given' /\ Detected'
  BY <1>2, <1>3, <1>7, NoneDetected
<1>10. Gathered'
  BY <1>2, <1>8 DEF Gathered
<1>11. QED
  BY <1>6, <1>7, <1>9, <1>10 DEF Inv
-----------------------------------------------------------------------------
\* Dropping duplicates keeps the first item of each key.
LEMMA DedupStep == ASSUME Inv, dedup_items PROVE Inv'
<1>1. /\ phase = "dedup" /\ phase' = "match" /\ items' = KeepFirst(items, Key)
      /\ UNCHANGED <<format, text, rules, at, section, name, version, current_line, key, loops>>
  BY DEF dedup_items, scanner
<1>2. UNCHANGED <<Fixed, loops>> /\ format' = format /\ text' = text
  BY <1>1 DEF Fixed
<1>3. PICK s : s = items /\ s \in Seq(Items) /\ Collected(s, Declared, Len(text) + 1)
  BY <1>1 DEF Inv, Gathered, Collected
<1>4. PICK K : K = [i \in DOMAIN s |-> Key(s[i])]
  OBVIOUS
<1>5. PICK r : r = items'
  OBVIOUS
<1>6. r = Picked(s, FirstsOf(K))
  <2> DEFINE keep(t) == Picked(t, {i \in DOMAIN t : \A j \in 1..(i - 1) : Key(t[j]) # Key(t[i])})
  <2>1. DOMAIN s = 1..Len(s) /\ Len(s) \in Nat
    BY <1>3
  <2>2. {i \in DOMAIN s : \A j \in 1..(i - 1) : Key(s[j]) # Key(s[i])} = FirstsOf(K)
    <3>1. \A i \in DOMAIN s : K[i] = Key(s[i]) /\ \A j \in 1..(i - 1) : K[j] = Key(s[j])
      BY <1>4, <2>1
    <3>2. FirstsOf(K) = {i \in DOMAIN s : \A j \in 1..(i - 1) : K[j] # K[i]}
      BY <1>4 DEF FirstsOf
    <3>3. QED
      BY <3>1, <3>2
  <2>3. keep(s) = Picked(s, FirstsOf(K))
    BY <2>2
  <2>4. r = CHOOSE x \in {keep(t) : t \in {s}} : TRUE
    BY <1>1, <1>3, <1>5 DEF KeepFirst, Once
  <2> HIDE DEF keep
  <2>5. {keep(t) : t \in {s}} = {keep(s)}
    OBVIOUS
  <2>6. QED
    BY <2>3, <2>4, <2>5
<1>7. DOMAIN K = DOMAIN s
  BY <1>4
<1>8. r \in Seq(Items)
  BY <1>3, <1>6, <1>7, KeptKeys
<1>9. PICK M : KeptFrom(s, K, r, M)
  BY <1>3, <1>6, <1>7, KeptKeys
<1>10. /\ \A k \in DOMAIN r : M[k] \in DOMAIN s /\ r[k] = s[M[k]] /\ K[M[k]] = Key(r[k])
       /\ \A k, l \in DOMAIN r : K[M[k]] = K[M[l]] => k = l
       /\ \A i \in DOMAIN s : \E k \in DOMAIN r : K[M[k]] = K[i] /\ M[k] <= i
       /\ \A i \in DOMAIN s : K[i] = Key(s[i])
  BY <1>4, <1>9 DEF KeptFrom
<1>11. PICK D : D = Declared /\ D = Declared'
  BY <1>2, FixedKept
<1>12. \A k \in DOMAIN r : r[k].name # 0 => \E d \in D : Tells(r[k], d)
  BY <1>3, <1>10, <1>11 DEF Collected
<1>13. \A i, j : Key(i) = Key(j) <=>
         i.ecosystem = j.ecosystem /\ i.name = j.name /\ i.version = j.version
  BY DEF Key
<1>14. ASSUME NEW d \in D PROVE Hidden(d.line) \/ \E k \in DOMAIN r : Same(d, r[k])
  <2>1. CASE ~Hidden(d.line)
    <3>1. PICK j \in DOMAIN s : Tells(s[j], d)
      BY <1>3, <1>11, <2>1 DEF Collected
    <3>2. PICK k \in DOMAIN r : Key(r[k]) = Key(s[j])
      BY <1>10
    <3>3. Same(d, r[k])
      BY <1>13, <3>1, <3>2 DEF Tells, Same
    <3>4. QED
      BY <3>3
  <2>2. QED
    BY <2>1
<1>15. \A j, k \in DOMAIN r : Key(r[j]) = Key(r[k]) => j = k
  BY <1>10
<1>16. ASSUME format \in Exact, NEW k \in DOMAIN r, r[k].name # 0, NEW d \in D, Same(d, r[k])
       PROVE  r[k].line <= d.line
  <2>1. format \notin {"sbom", "Gemfile"} /\ format \in Format
    BY <1>16 DEF Exact, BlankBefore
  <2>2. ~Hidden(d.line)
    BY <2>1 DEF Hidden
  <2>3. PICK j \in DOMAIN s : Tells(s[j], d)
    BY <1>3, <1>11, <2>2 DEF Collected
  <2>4. s[j].line = d.line /\ s[j].name = r[k].name /\ s[j].version = r[k].version
    BY <1>16, <2>3 DEF Tells, Same
  <2>5. s[j] \in Items /\ r[k] \in Items
    BY <1>3, <1>8
  <2>6. s[j].ecosystem = r[k].ecosystem
    BY <2>1, <2>5, ItemsAre
  <2>7. K[j] = K[M[k]]
    BY <1>10, <1>13, <2>4, <2>6
  <2>8. PICK l \in DOMAIN r : K[M[l]] = K[j] /\ M[l] <= j
    BY <1>10
  <2>9. l = k
    BY <1>10, <2>7, <2>8
  <2>10. M[k] = j \/ M[k] < j
    <3>1. M[k] \in Nat /\ j \in Nat
      <4>1. DOMAIN s = 1..Len(s) /\ Len(s) \in Nat
        BY <1>3
      <4>2. M[k] \in DOMAIN s
        BY <1>10, <1>16
      <4>3. QED
        BY <4>1, <4>2
    <3>2. QED
      BY <2>8, <2>9, <3>1
  <2>11. s[M[k]].line = s[j].line \/ s[M[k]].line < s[j].line
    BY <1>3, <1>10, <1>16, <2>10 DEF Collected
  <2>12. s[M[k]].line \in Nat /\ s[j].line \in Nat
    BY <1>10, <2>1, <2>5, ItemsAre
  <2>13. QED
    BY <1>10, <2>4, <2>11, <2>12
<1>17. Deduplicated'
  <2>1. Items' = Items /\ format' = format
    BY <1>2, ItemsKept
  <2>2. \A i, d : Tells(i, d)' <=> Tells(i, d)
    BY <1>2, FixedKept
  <2>3. \A i : Hidden(i)' <=> Hidden(i)
    BY <1>2, FixedKept
  <2>4. r \in Seq(Items')
    BY <1>8, <2>1
  <2>5. \A k \in DOMAIN r : r[k].name # 0 => \E d \in D : Tells(r[k], d)'
    BY <1>12, <2>2
  <2>6. \A d \in D : Hidden(d.line)' \/ \E k \in DOMAIN r : Same(d, r[k])
    BY <1>14, <2>3
  <2>7. format \in Exact =>
          \A k \in DOMAIN r : r[k].name # 0 => \A d \in D : Same(d, r[k]) => r[k].line <= d.line
    BY <1>16
  <2>8. QED
    BY <1>5, <1>11, <1>15, <2>1, <2>4, <2>5, <2>6, <2>7 DEF Deduplicated
<1>18. Lined'
  BY <1>2, <1>3, <1>5, <1>10 DEF Lined, Inv
<1>19. Given' /\ Detected'
  BY <1>1, <1>2, <1>5, <1>8, NoneDetected
<1>20. Positions'
  BY <1>1, <1>2 DEF Inv, Positions
<1>21. Gathered'
  BY <1>1, <1>17 DEF Gathered
<1>22. QED
  BY <1>18, <1>19, <1>20, <1>21 DEF Inv
-----------------------------------------------------------------------------
\* Matching the items with the rules.
Loop == <<format, text, rules, at, section, name, version, current_line, key, items>>

LEMMA LoopKept ==
    ASSUME Inv, phase = "match", phase' \in {"match", "done"}, UNCHANGED Loop
    PROVE  /\ Given' /\ Positions' /\ Lined' /\ Gathered'
           /\ \A k, r : Due(k, r)' <=> Due(k, r)
           /\ items' = items /\ rules' = rules
<1>1. UNCHANGED Fixed /\ items' = items /\ rules' = rules /\ format' = format /\ text' = text
  BY DEF Loop, Fixed
<1>2. Given' /\ Lined'
  BY <1>1 DEF Inv, Given, Lined
<1>3. Positions'
  BY <1>1 DEF Inv, Positions, Loop
<1>4. PICK s, D, I : s = items /\ D = Declared /\ I = Items /\ s = items' /\ D = Declared' /\ I = Items'
  BY <1>1, FixedKept, ItemsKept
<1>5. \A i, d : Tells(i, d)' <=> Tells(i, d)
  BY <1>1, FixedKept
<1>6. \A i : Hidden(i)' <=> Hidden(i)
  BY <1>1, FixedKept
<1>7. Deduplicated
  BY DEF Inv, Gathered
<1>8. Deduplicated'
  BY <1>1, <1>4, <1>5, <1>6, <1>7 DEF Deduplicated
<1>9. Gathered'
  BY <1>8 DEF Gathered
<1>10. \A i : Target(i)' = Target(i)
  BY DEF Target
<1>11. \A k, r : Due(k, r)' <=> Due(k, r)
  BY <1>1, <1>10 DEF Due
<1>12. QED
  BY <1>1, <1>2, <1>3, <1>9, <1>11

\* What the invariant says of the detections o for m items and q rules.
DetectionsOf(o, m, q) ==
    /\ \A j \in DOMAIN o :
         /\ o[j].item \in 1..m /\ o[j].rule \in 0..q
         /\ Due(o[j].item, o[j].rule) /\ Passed(o[j].item, o[j].rule)
    /\ \A k \in 1..m : \A r \in 0..q :
         Due(k, r) /\ Passed(k, r) => \E j \in DOMAIN o : o[j] = [item |-> k, rule |-> r]
    /\ \A i, j \in DOMAIN o : i < j =>
         \/ o[i].item < o[j].item
         \/ o[i].item = o[j].item /\ o[i].rule < o[j].rule

LEMMA DetectedIs ==
    ASSUME Inv, NEW o, o = out, NEW m, DOMAIN items = 1..m, NEW q, q = Len(rules)
    PROVE  DetectionsOf(o, m, q)
<1>1. \A j \in DOMAIN o :
        /\ o[j].item \in 1..m /\ o[j].rule \in 0..q
        /\ Due(o[j].item, o[j].rule) /\ Passed(o[j].item, o[j].rule)
  BY DEF Inv, Detected
<1>2. \A k \in 1..m : \A r \in 0..q :
        Due(k, r) /\ Passed(k, r) => \E j \in DOMAIN o : o[j] = [item |-> k, rule |-> r]
  BY DEF Inv, Detected
<1>3. \A i, j \in DOMAIN o : i < j =>
        \/ o[i].item < o[j].item
        \/ o[i].item = o[j].item /\ o[i].rule < o[j].rule
  BY DEF Inv, Detected
<1>4. QED
  BY <1>1, <1>2, <1>3 DEF DetectionsOf

\* The detection a step decides about is behind all that are out.
Decides ==
    /\ item' = item /\ rule' = rule + 1
    /\ out' = IF Due(item, rule) THEN Append(out, [item |-> item, rule |-> rule]) ELSE out

LEMMA Decided ==
    ASSUME Inv, phase = "match", item <= Len(items), rule <= Len(rules),
           UNCHANGED Loop, phase' = "match", Decides
    PROVE  Inv'
<1>1. PICK m \in Nat, q \in Nat : m = Len(items) /\ DOMAIN items = 1..m /\ q = Len(rules)
  BY ManifestsAssumption DEF Inv, Given, Gathered, Deduplicated
<1>2. PICK x \in 1..m, y \in 0..q : x = item /\ y = rule
  BY <1>1 DEF Inv, Detected
<1>3. PICK o : o = out /\ o \in Seq([item : Nat, rule : Nat])
  BY DEF Inv, Detected
<1>4. PICK n \in Nat : n = Len(o) /\ DOMAIN o = 1..n
  BY <1>3
<1>5. /\ Given' /\ Positions' /\ Lined' /\ Gathered'
      /\ \A k, r : Due(k, r)' <=> Due(k, r)
      /\ items' = items /\ rules' = rules
  BY LoopKept
<1>6. item' = x /\ rule' = y + 1 /\ out' = IF Due(x, y) THEN Append(o, [item |-> x, rule |-> y]) ELSE o
  BY <1>2, <1>3 DEF Decides
<1>7. \A k, r : Passed(k, r) <=> k < x \/ (k = x /\ r < y)
  BY <1>2 DEF Passed
<1>8. \A k, r : Passed(k, r)' <=> k < x \/ (k = x /\ r < y + 1)
  BY <1>6 DEF Passed
<1>9. /\ \A j \in DOMAIN o :
           /\ o[j].item \in 1..m /\ o[j].rule \in 0..q
           /\ Due(o[j].item, o[j].rule) /\ Passed(o[j].item, o[j].rule)
      /\ \A k \in 1..m : \A r \in 0..q :
           Due(k, r) /\ Passed(k, r) => \E j \in DOMAIN o : o[j] = [item |-> k, rule |-> r]
      /\ \A i, j \in DOMAIN o : i < j =>
           \/ o[i].item < o[j].item
           \/ o[i].item = o[j].item /\ o[i].rule < o[j].rule
  <2>1. DetectionsOf(o, m, q)
    BY <1>1, <1>3, DetectedIs
  <2>2. QED
    BY <2>1 DEF DetectionsOf
<1>10. /\ item' \in Nat \ {0} /\ rule' \in 0..(Len(rules') + 1) /\ item' \in 1..(Len(items') + 1)
  BY <1>1, <1>2, <1>5, <1>6
<1>11. CASE Due(x, y)
  <2>1. PICK e : e = [item |-> x, rule |-> y]
    OBVIOUS
  <2>2. e \in [item : Nat, rule : Nat] /\ e.item = x /\ e.rule = y
    <3>1. x \in Nat /\ y \in Nat
      BY <1>1, <1>2
    <3>2. QED
      BY <2>1, <3>1
  <2>3. PICK p : p = Append(o, e)
    OBVIOUS
  <2>4. /\ p \in Seq([item : Nat, rule : Nat]) /\ DOMAIN p = 1..(n + 1) /\ p[n + 1] = e
        /\ \A j \in 1..n : p[j] = o[j]
    <3>1. PICK T : T = [item : Nat, rule : Nat]
      OBVIOUS
    <3>2. o \in Seq(T) /\ e \in T
      BY <1>3, <2>2, <3>1
    <3>3. /\ p \in Seq(T) /\ DOMAIN p = 1..(n + 1) /\ p[n + 1] = e
          /\ \A j \in 1..n : p[j] = o[j]
      BY <1>4, <2>3, <3>2
    <3>4. QED
      BY <3>1, <3>3
  <2>5. \A j \in DOMAIN p : j \in 1..n \/ j = n + 1
    BY <1>4, <2>4
  <2>6. ASSUME NEW j \in DOMAIN p
        PROVE  /\ p[j].item \in 1..m /\ p[j].rule \in 0..q
               /\ Due(p[j].item, p[j].rule) /\ Passed(p[j].item, p[j].rule)'
    <3>1. CASE j \in 1..n
      <4>1. o[j].item \in 1..m /\ o[j].rule \in 0..q /\ Due(o[j].item, o[j].rule)
            /\ Passed(o[j].item, o[j].rule) /\ p[j] = o[j]
        BY <1>4, <1>9, <2>4, <3>1
      <4>2. PICK k \in 1..m, r \in 0..q : k = o[j].item /\ r = o[j].rule
        BY <4>1
      <4>3. Passed(k, r)'
        BY <1>2, <1>7, <1>8, <4>1, <4>2
      <4>4. QED
        BY <4>1, <4>2, <4>3
    <3>2. CASE j = n + 1
      <4>1. p[j].item = x /\ p[j].rule = y
        BY <2>2, <2>4, <3>2
      <4>2. Passed(x, y)'
        BY <1>2, <1>8
      <4>3. QED
        BY <1>2, <1>11, <4>1, <4>2
    <3>3. QED
      BY <2>5, <3>1, <3>2
  <2>7. ASSUME NEW k \in 1..m, NEW r \in 0..q, Due(k, r), Passed(k, r)'
        PROVE  \E j \in DOMAIN p : p[j] = [item |-> k, rule |-> r]
    <3>1. CASE Passed(k, r)
      <4>1. PICK j \in 1..n : o[j] = [item |-> k, rule |-> r]
        BY <1>4, <1>9, <2>7, <3>1
      <4>2. j \in DOMAIN p /\ p[j] = o[j]
        BY <1>4, <2>4
      <4>3. QED
        BY <4>1, <4>2
    <3>2. CASE ~Passed(k, r)
      <4>1. k = x /\ r = y
        BY <1>2, <1>7, <1>8, <2>7, <3>2
      <4>2. n + 1 \in DOMAIN p /\ p[n + 1] = [item |-> k, rule |-> r]
        BY <1>4, <2>1, <2>4, <4>1
      <4>3. QED
        BY <4>2
    <3>3. QED
      BY <3>1, <3>2
  <2>8. ASSUME NEW i \in DOMAIN p, NEW j \in DOMAIN p, i < j
        PROVE  \/ p[i].item < p[j].item
               \/ p[i].item = p[j].item /\ p[i].rule < p[j].rule
    <3>1. i \in 1..n
      BY <1>4, <2>4, <2>8
    <3>2. CASE j \in 1..n
      <4>1. i \in DOMAIN o /\ j \in DOMAIN o /\ p[i] = o[i] /\ p[j] = o[j]
        BY <1>4, <2>4, <3>1, <3>2
      <4>2. \/ o[i].item < o[j].item
            \/ o[i].item = o[j].item /\ o[i].rule < o[j].rule
        BY <1>9, <2>8, <4>1
      <4>3. QED
        BY <4>1, <4>2
    <3>3. CASE j = n + 1
      <4>1. /\ o[i].item \in 1..m /\ o[i].rule \in 0..q /\ Passed(o[i].item, o[i].rule)
            /\ p[i] = o[i] /\ p[j].item = x /\ p[j].rule = y
        BY <1>4, <1>9, <2>2, <2>4, <3>1, <3>3
      <4>2. QED
        BY <1>7, <4>1
    <3>4. QED
      BY <2>5, <3>2, <3>3
  <2>9. Detected'
    <3>1. out' = p
      BY <1>6, <1>11, <2>1, <2>3
    <3>2. /\ \A j \in DOMAIN p :
               /\ p[j].item \in 1..m /\ p[j].rule \in 0..q
               /\ Due(p[j].item, p[j].rule) /\ Passed(p[j].item, p[j].rule)'
          /\ \A k \in 1..m : \A r \in 0..q :
               Due(k, r) /\ Passed(k, r)' => \E j \in DOMAIN p : p[j] = [item |-> k, rule |-> r]
          /\ \A i, j \in DOMAIN p : i < j =>
               \/ p[i].item < p[j].item
               \/ p[i].item = p[j].item /\ p[i].rule < p[j].rule
      BY <2>6, <2>7, <2>8
    <3>3. (\A j \in DOMAIN out :
              /\ out[j].item \in DOMAIN items /\ out[j].rule \in 0..Len(rules)
              /\ Due(out[j].item, out[j].rule) /\ Passed(out[j].item, out[j].rule))'
      BY <1>1, <1>5, <3>1, <3>2
    <3>4. \A k \in DOMAIN items' : \A r \in 0..Len(rules') :
             Due(k, r)' /\ Passed(k, r)' => \E j \in DOMAIN out' : out'[j] = [item |-> k, rule |-> r]
      BY <1>1, <1>5, <3>1, <3>2
    <3>5. QED
      BY <1>10, <2>4, <3>1, <3>2, <3>3, <3>4 DEF Detected
  <2>10. QED
    BY <1>5, <2>9 DEF Inv
<1>12. CASE ~Due(x, y)
  <2>1. out' = o
    BY <1>6, <1>12
  <2>2. \A j \in DOMAIN o : Passed(o[j].item, o[j].rule)'
    <3>1. ASSUME NEW j \in DOMAIN o PROVE Passed(o[j].item, o[j].rule)'
      <4>1. PICK k \in 1..m, r \in 0..q : k = o[j].item /\ r = o[j].rule /\ Passed(k, r)
        BY <1>9
      <4>2. Passed(k, r)'
        BY <1>2, <1>7, <1>8, <4>1
      <4>3. QED
        BY <4>1, <4>2
    <3>2. QED
      BY <3>1
  <2>3. \A k \in 1..m : \A r \in 0..q :
           Due(k, r) /\ Passed(k, r)' => \E j \in DOMAIN o : o[j] = [item |-> k, rule |-> r]
    <3>1. ASSUME NEW k \in 1..m, NEW r \in 0..q, Due(k, r), Passed(k, r)' PROVE Passed(k, r)
      <4>1. ~(k = x /\ r = y)
        BY <1>12, <3>1
      <4>2. QED
        BY <1>2, <1>7, <1>8, <3>1, <4>1
    <3>2. QED
      BY <1>4, <1>9, <3>1
  <2>4. Detected'
    BY <1>1, <1>3, <1>5, <1>9, <1>10, <2>1, <2>2, <2>3 DEF Detected
  <2>5. QED
    BY <1>5, <2>4 DEF Inv
<1>13. QED
  BY <1>11, <1>12

LEMMA MatchLoop == ASSUME Inv, inventory_detection \/ TryRule PROVE Inv'
<1>1. /\ phase = "match" /\ item <= Len(items) /\ phase' = "match" /\ UNCHANGED Loop
      /\ item' = item
  BY DEF inventory_detection, TryRule, Loop, scanner
<1>2. rules \in Seq(Words)
  BY ManifestsAssumption DEF Inv, Given
<1>3. CASE inventory_detection
  <2>1. rule = 0 /\ rule' = rule + 1 /\ rule <= Len(rules) /\ Due(item, rule)
    BY <1>2, <1>3 DEF inventory_detection, Due
  <2>2. out' = Append(out, [item |-> item, rule |-> rule])
    BY <1>3, <2>1 DEF inventory_detection
  <2>3. QED
    BY <1>1, <2>1, <2>2, Decided DEF Decides
<1>4. CASE TryRule
  <2>1. rule' = rule + 1 /\ rule \in 1..Len(rules)
    BY <1>2, <1>4 DEF TryRule
  <2>2. Due(item, rule) <=> rules[rule] \in Target(items[item])
    BY <1>2, <2>1 DEF Due
  <2>3. out' = IF Due(item, rule) THEN Append(out, [item |-> item, rule |-> rule]) ELSE out
    BY <1>4, <2>2 DEF TryRule
  <2>4. rule <= Len(rules)
    BY <1>2, <2>1
  <2>5. QED
    BY <1>1, <2>1, <2>3, <2>4, Decided DEF Decides
<1>5. QED
  BY <1>3, <1>4

LEMMA NextItemStep == ASSUME Inv, NextItem PROVE Inv'
<1>1. /\ phase = "match" /\ item <= Len(items) /\ rule > Len(rules) /\ phase' = "match"
      /\ UNCHANGED Loop /\ out' = out /\ item' = item + 1 /\ rule' = 0
  BY DEF NextItem, Loop, scanner, FirstRule
<1>2. PICK m \in Nat, q \in Nat : m = Len(items) /\ DOMAIN items = 1..m /\ q = Len(rules)
  BY ManifestsAssumption DEF Inv, Given, Gathered, Deduplicated
<1>3. PICK x \in 1..m, y \in 0..(q + 1) : x = item /\ y = rule /\ y > q
  BY <1>1, <1>2 DEF Inv, Detected
<1>4. /\ Given' /\ Positions' /\ Lined' /\ Gathered'
      /\ \A k, r : Due(k, r)' <=> Due(k, r)
      /\ items' = items /\ rules' = rules
  BY <1>1, LoopKept
<1>5. \A k, r : Passed(k, r) <=> k < x \/ (k = x /\ r < y)
  BY <1>3 DEF Passed
<1>6. \A k, r : Passed(k, r)' <=> k < x + 1 \/ (k = x + 1 /\ r < 0)
  BY <1>1, <1>3 DEF Passed
<1>7. \A k \in 1..m, r \in 0..q : Passed(k, r)' <=> Passed(k, r)
  BY <1>3, <1>5, <1>6
<1>8. PICK o : o = out /\ o = out' /\ o \in Seq([item : Nat, rule : Nat])
  BY <1>1 DEF Inv, Detected
<1>9. /\ \A j \in DOMAIN o :
           /\ o[j].item \in 1..m /\ o[j].rule \in 0..q
           /\ Due(o[j].item, o[j].rule) /\ Passed(o[j].item, o[j].rule)
      /\ \A k \in 1..m : \A r \in 0..q :
           Due(k, r) /\ Passed(k, r) => \E j \in DOMAIN o : o[j] = [item |-> k, rule |-> r]
      /\ \A i, j \in DOMAIN o : i < j =>
           \/ o[i].item < o[j].item
           \/ o[i].item = o[j].item /\ o[i].rule < o[j].rule
  <2>1. DetectionsOf(o, m, q)
    BY <1>2, <1>8, DetectedIs
  <2>2. QED
    BY <2>1 DEF DetectionsOf
<1>10. \A j \in DOMAIN o : Passed(o[j].item, o[j].rule)'
  <2>1. ASSUME NEW j \in DOMAIN o PROVE Passed(o[j].item, o[j].rule)'
    <3>1. PICK k \in 1..m, r \in 0..q : k = o[j].item /\ r = o[j].rule /\ Passed(k, r)
      BY <1>9
    <3>2. Passed(k, r)'
      BY <1>7, <3>1
    <3>3. QED
      BY <3>1, <3>2
  <2>2. QED
    BY <2>1
<1>11. \A k \in 1..m : \A r \in 0..q :
          Due(k, r) /\ Passed(k, r)' => \E j \in DOMAIN o : o[j] = [item |-> k, rule |-> r]
  BY <1>7, <1>9
<1>12. item' \in Nat \ {0} /\ rule' \in 0..(Len(rules') + 1) /\ item' \in 1..(Len(items') + 1)
  BY <1>1, <1>2, <1>3, <1>4
<1>13. Detected'
  BY <1>1, <1>2, <1>4, <1>8, <1>9, <1>10, <1>11, <1>12 DEF Detected
<1>14. QED
  BY <1>4, <1>13 DEF Inv

LEMMA ReturnStep == ASSUME Inv, Return PROVE Inv'
<1>1. /\ phase = "match" /\ item > Len(items) /\ phase' = "done" /\ UNCHANGED Loop
      /\ UNCHANGED <<item, rule, out>>
  BY DEF Return, Loop, scanner, loops
<1>2. /\ Given' /\ Positions' /\ Lined' /\ Gathered'
      /\ \A k, r : Due(k, r)' <=> Due(k, r)
      /\ items' = items /\ rules' = rules
  BY <1>1, LoopKept
<1>3. \A k, r : Passed(k, r)' <=> Passed(k, r)
  BY <1>1 DEF Passed
<1>4. PICK o, x, y : o = out /\ o = out' /\ x = item /\ x = item' /\ y = rule /\ y = rule'
  BY <1>1
<1>5. Detected'
  BY <1>1, <1>2, <1>3, <1>4 DEF Inv, Detected
<1>6. QED
  BY <1>2, <1>5 DEF Inv
-----------------------------------------------------------------------------
LEMMA InitInv == Init => Inv
<1> SUFFICES ASSUME Init PROVE Inv
  OBVIOUS
<1>1. /\ Given /\ phase = "parse" /\ at = 1 /\ name = 0 /\ version = "none" /\ current_line = 1
      /\ key = 0 /\ items = << >> /\ item = 1 /\ rule = 0 /\ out = << >>
  BY DEF Init, Given
<1>2. PICK n \in Nat : n = Len(text)
  BY <1>1, TextIs
<1>3. section \in SectionOf(format) /\ (format \notin DOMAIN Sections => section \notin {"entry", "[dependencies]", "require"})
      /\ (format \in DOMAIN Sections => section = Sections[format][1])
  <2>1. CASE format \in DOMAIN Sections
    <3>1. section = Sections[format][1]
      BY <2>1, SectionsAre DEF Init
    <3>2. section \in Range(Sections[format])
      BY <2>1, <3>1, SectionsAre, RangesAre
    <3>3. QED
      BY <2>1, <3>1, <3>2, SectionOfIs
  <2>2. CASE format = "pnpm-lock.yaml"
    BY <2>2, SectionsAre, SectionOfIs DEF Init
  <2>3. CASE format \notin DOMAIN Sections \cup {"pnpm-lock.yaml"}
    <3>1. section = "none"
      BY <2>3 DEF Init
    <3>2. "none" \in SectionOf(format)
      BY <2>3, SectionOfIs
    <3>3. QED
      BY <2>3, <3>1, <3>2
  <2>4. QED
    BY <2>1, <2>2, <2>3
<1>4. Positions
  <2>1. 0 \in 0..Names /\ 1 \in 1..(n + 1)
    BY NamesAre
  <2>2. QED
    BY <1>1, <1>2, <1>3, <2>1 DEF Positions
<1>5. InSection /\ InPoetry
  <2>1. \A K, k : ~Latest(1, K, k)
    BY DEF Latest
  <2>2. InSection
    BY <1>1, <1>3, <2>1, SectionsAre DEF InSection
  <2>3. QED
    BY <1>1, <2>2 DEF InPoetry
<1>6. ASSUME NEW d \in Declared PROVE ~Handled(d)
  <2>1. d.line \in DOMAIN text /\ d.name \in Name
    BY <1>1, DeclaredAt
  <2>2. d.line \in Nat /\ d.line > 0
    BY <1>1, <2>1, TextIs
  <2>3. ~(d.line < 1) /\ ~(d.name <= 0)
    BY <2>1, <2>2, ManifestsAssumption DEF Name
  <2>4. CASE format \in DOMAIN Sections
    <3>1. PICK all : all = Sections[format]
      OBVIOUS
    <3>2. PICK m \in Nat :
            /\ m = Len(all) /\ DOMAIN all = 1..m /\ m > 0
            /\ \A i, j \in 1..m : all[i] = all[j] => i = j
            /\ \A i \in 1..m : all[i] # "none"
      BY <2>4, <3>1, SectionOrder
    <3>3. ASSUME NEW s, Behind(s) PROVE FALSE
      <4>1. PICK i \in 1..m, j \in 1..(m + 1) :
              i < j /\ IF j \in 1..m THEN section = all[j] ELSE section = "none"
        BY <3>1, <3>2, <3>3 DEF Behind
      <4>2. section = all[1] /\ 1 \in 1..m
        BY <1>3, <2>4, <3>1, <3>2
      <4>3. j = 1
        BY <3>2, <4>1, <4>2
      <4>4. QED
        BY <4>1, <4>3
    <3>4. QED
      BY <1>1, <2>3, <2>4, <3>3, SectionsAre DEF Handled
  <2>5. CASE format = "pnpm-lock.yaml"
    BY <1>1, <1>3, <2>3, <2>5, SectionsAre DEF Handled
  <2>6. CASE format \notin DOMAIN Sections \cup {"pnpm-lock.yaml"}
    BY <1>1, <2>3, <2>6 DEF Handled
  <2>7. QED
    BY <2>4, <2>5, <2>6
<1>7. Collected(items, HandledSet, Bound)
  <2>1. HandledSet = {}
    BY <1>6 DEF HandledSet
  <2>2. items \in Seq(Items) /\ DOMAIN items = {}
    BY <1>1
  <2>3. QED
    BY <2>1, <2>2 DEF Collected
<1>8. Gathered
  BY <1>1, <1>5, <1>7 DEF Gathered
<1>9. Lined
  BY <1>1 DEF Lined
<1>10. Detected
  <2>1. Len(rules) \in Nat
    BY <1>1, ManifestsAssumption DEF Given
  <2>2. DOMAIN items = {} /\ DOMAIN out = {} /\ Len(items) = 0 /\ out \in Seq([item : Nat, rule : Nat])
    BY <1>1
  <2>3. QED
    BY <1>1, <2>1, <2>2 DEF Detected
<1>11. QED
  BY <1>1, <1>4, <1>8, <1>9, <1>10 DEF Inv

LEMMA Unmoved == ASSUME Inv, UNCHANGED vars PROVE Inv'
<1>1. /\ UNCHANGED <<format, text, rules, phase, at, section, name, version, current_line, key>>
      /\ UNCHANGED <<items, item, rule, out, Fixed>>
  BY DEF vars, scanner, loops, Fixed
<1>2. Given' /\ Positions' /\ Lined'
  BY <1>1 DEF Inv, Given, Positions, Lined
<1>3. PICK s, D, I : s = items /\ D = Declared /\ I = Items /\ s = items' /\ D = Declared' /\ I = Items'
  BY <1>1, FixedKept, ItemsKept
<1>4. \A i, d : Tells(i, d)' <=> Tells(i, d)
  BY <1>1, FixedKept
<1>5. \A i : Hidden(i)' <=> Hidden(i)
  BY <1>1, FixedKept
<1>6. Deduplicated => Deduplicated'
  BY <1>1, <1>3, <1>4, <1>5 DEF Deduplicated
<1>7. \A i, K, k : Latest(i, K, k)' <=> Latest(i, K, k)
  BY <1>1, FixedKept
<1>8. InSection => InSection'
  BY <1>1, <1>7 DEF InSection
<1>9. \A j, kind : LastBefore(j, kind)' <=> LastBefore(j, kind)
  BY <1>1 DEF LastBefore
<1>10. InPoetry => InPoetry'
  BY <1>1, <1>9 DEF InPoetry
<1>11. \A x : Behind(x)' <=> Behind(x)
  BY <1>1 DEF Behind
<1>12. \A d : Handled(d)' <=> Handled(d)
  BY <1>1, <1>11 DEF Handled
<1>13. PICK H, b : H = HandledSet /\ H = HandledSet' /\ b = Bound /\ b = Bound'
  BY <1>1, <1>3, <1>12 DEF HandledSet, Bound
<1>14. \A t, K, c : Collected(t, K, c)' <=> Collected(t, K, c)
  BY <1>1, CollectedKept
<1>15. Collected(items, HandledSet, Bound) => Collected(items, HandledSet, Bound)'
  BY <1>3, <1>13, <1>14
<1>16. Collected(items, Declared, Len(text) + 1) => Collected(items, Declared, Len(text) + 1)'
  <2>1. PICK c : c = Len(text) + 1 /\ c = Len(text') + 1
    BY <1>1
  <2>2. QED
    BY <1>3, <1>14, <2>1
<1>17. Gathered'
  BY <1>1, <1>6, <1>8, <1>10, <1>15, <1>16 DEF Inv, Gathered
<1>18. \A k, r : (Due(k, r)' <=> Due(k, r)) /\ (Passed(k, r)' <=> Passed(k, r))
  <2>1. \A i : Target(i)' = Target(i)
    BY DEF Target
  <2>2. QED
    BY <1>1, <2>1 DEF Due, Passed
<1>19. PICK o, x, y, q : /\ o = out /\ o = out' /\ x = item /\ x = item' /\ y = rule /\ y = rule'
                         /\ q = rules /\ q = rules'
  BY <1>1
<1>20. Detected'
  BY <1>1, <1>3, <1>18, <1>19 DEF Inv, Detected
<1>21. QED
  BY <1>2, <1>17, <1>20 DEF Inv

LEMMA InvStep == Inv /\ [Next]_vars => Inv'
<1> SUFFICES ASSUME Inv, [Next]_vars PROVE Inv'
  OBVIOUS
<1>1. CASE CargoLine
  BY <1>1, CargoStep
<1>2. CASE GoLine
  BY <1>2, GoStep
<1>3. CASE PoetryLine
  BY <1>3, PoetryStep
<1>4. CASE RequirementLine \/ GradleLockLine \/ GemLockLine
  BY <1>4, LineStep
<1>5. CASE CargoLockMatch
  BY <1>5, CargoLockStep
<1>6. CASE GemfileMatch
  BY <1>6, GemfileStep
<1>7. CASE GemspecMatch \/ GradleMatch
  BY <1>7, EntryStep
<1>8. CASE PomMatch
  BY <1>8, PomStep
<1>9. CASE PnpmPackage \/ PnpmDependency
  BY <1>9, PnpmStep
<1>10. CASE PnpmDependencies
  BY <1>10, PnpmSections
<1>11. CASE PackageJsonKey \/ PackageLockKey \/ PackageLockPath \/ PipfileKey
  BY <1>11, KeyStep
<1>12. CASE JsonSection
  BY <1>12, SectionStep
<1>13. CASE CycloneDxComponent \/ SpdxPackage
  BY <1>13, SbomStep
<1>14. CASE Parsed
  BY <1>14, ParsedStep
<1>15. CASE dedup_items
  BY <1>15, DedupStep
<1>16. CASE inventory_detection \/ TryRule
  BY <1>16, MatchLoop
<1>17. CASE NextItem
  BY <1>17, NextItemStep
<1>18. CASE Return
  BY <1>18, ReturnStep
<1>19. CASE Terminated \/ UNCHANGED vars
  BY <1>19, Unmoved DEF Terminated
<1>20. QED
  BY <1>1, <1>2, <1>3, <1>4, <1>5, <1>6, <1>7, <1>8, <1>9, <1>10, <1>11, <1>12, <1>13, <1>14,
     <1>15, <1>16, <1>17, <1>18, <1>19 DEF Next

\* The inductive invariant of Manifests: what the scanners carry is said by the
\* lines before, and the items are those of the declarations behind.
THEOREM ManifestsInvariant == Spec => []Inv
<1>1. Init => Inv
  BY InitInv
<1>2. Inv /\ [Next]_vars => Inv'
  BY InvStep
<1>3. QED
  BY <1>1, <1>2, PTL DEF Spec
-----------------------------------------------------------------------------
LEMMA InvTypeOK == Inv => TypeOK
<1> SUFFICES ASSUME Inv PROVE TypeOK
  OBVIOUS
<1>1. PICK n \in Nat : n = Len(text)
  BY TextIs DEF Inv
<1>2. /\ format \in Format /\ phase \in {"parse", "dedup", "match", "done"}
      /\ at \in 1..(Len(text) + 1) /\ name \in 0..Names /\ key \in 0..Names /\ version \in {"none", "1", "2"}
  BY DEF Inv, Given, Positions
<1>3. section \in {"none", "[dependencies]", "[package]", "require", "package", "entry"}
                    \cup UNION {Range(Sections[f]) : f \in DOMAIN Sections}
  <2>1. section \in SectionOf(format)
    BY DEF Inv, Positions
  <2>2. CASE format \in DOMAIN Sections
    <3>1. section \in Range(Sections[format]) \cup {"none"}
      BY <2>1, <2>2, SectionOfIs
    <3>2. QED
      BY <2>2, <3>1
  <2>3. CASE format \notin DOMAIN Sections
    BY <2>1, <2>3, SectionOfIs
  <2>4. QED
    BY <2>2, <2>3
<1>4. items \in Seq(Items)
  BY <1>2 DEF Inv, Gathered, Collected, Deduplicated
<1>5. \A k \in DOMAIN items : items[k].name \in 0..Names
  BY <1>2, <1>4, ItemsAre
<1>6. item \in 1..(Len(items) + 1) /\ rule \in 0..(Len(rules) + 1)
      /\ \A k \in DOMAIN out : out[k].item \in DOMAIN items /\ out[k].rule \in 0..Len(rules)
  BY DEF Inv, Detected
<1>7. QED
  BY <1>2, <1>3, <1>5, <1>6 DEF TypeOK, Inv, Lined

\* The parsers and the loops of detect are where TypeOK says, in every document.
THEOREM ManifestsTypes == Spec => []TypeOK
BY ManifestsInvariant, InvTypeOK, PTL

LEMMA InvExact == Inv => InventoryExact
<1> SUFFICES ASSUME Inv, phase \in {"match", "done"}
             PROVE  /\ Inventoried \subseteq Stated(Declared)
                    /\ Stated({d \in Declared : ~Hidden(d.line)}) \subseteq Inventoried
                    /\ \A j, k \in DOMAIN items : Key(items[j]) = Key(items[k]) => j = k
                    /\ format \notin DOMAIN Sections \cup {"sbom"} =>
                           \A k \in DOMAIN items : items[k].name # 0 => LineRight(items[k])
  BY DEF InventoryExact
<1>1. Deduplicated /\ format \in Format
  BY DEF Inv, Gathered, Given
<1>2. Inventoried \subseteq Stated(Declared)
  <2>1. ASSUME NEW k \in DOMAIN items, items[k].name # 0
        PROVE  <<items[k].name, items[k].version>> \in Stated(Declared)
    <3>1. PICK d \in Declared : Tells(items[k], d)
      BY <1>1, <2>1 DEF Deduplicated
    <3>2. items[k].name = d.name /\ items[k].version = d.version
      BY <3>1 DEF Tells
    <3>3. QED
      BY <3>2 DEF Stated
  <2>2. QED
    BY <2>1 DEF Inventoried
<1>3. Stated({d \in Declared : ~Hidden(d.line)}) \subseteq Inventoried
  <2>1. ASSUME NEW d \in Declared, ~Hidden(d.line) PROVE <<d.name, d.version>> \in Inventoried
    <3>1. PICK k \in DOMAIN items : Same(d, items[k])
      BY <1>1, <2>1 DEF Deduplicated
    <3>2. d.name = items[k].name /\ d.version = items[k].version /\ d.name # 0
      BY <2>1, <3>1, DeclaredAt, NamesAre DEF Same, Inv
    <3>3. QED
      BY <3>2 DEF Inventoried
  <2>2. QED
    BY <2>1 DEF Stated
<1>4. \A j, k \in DOMAIN items : Key(items[j]) = Key(items[k]) => j = k
  BY <1>1 DEF Deduplicated
<1>5. ASSUME format \notin DOMAIN Sections \cup {"sbom"}, NEW k \in DOMAIN items, items[k].name # 0
      PROVE  LineRight(items[k])
  <2>1. PICK d \in Declared : Tells(items[k], d)
    BY <1>1, <1>5 DEF Deduplicated
  <2>2. Same(d, items[k])
    BY <2>1 DEF Tells, Same
  <2>3. CASE format \in BlankBefore
    BY <2>1, <2>2, <2>3 DEF LineRight, Tells
  <2>4. CASE format \notin BlankBefore
    <3>1. format \in Exact
      BY <1>1, <1>5, <2>4 DEF Exact
    <3>2. items[k].line = d.line
      BY <2>1, <3>1 DEF Tells
    <3>3. ASSUME NEW e \in Declared, Same(e, items[k]), First(e) PROVE items[k].line = e.line
      <4>1. items[k].line <= e.line
        BY <1>1, <1>5, <3>1, <3>3 DEF Deduplicated
      <4>2. Same(e, d)
        BY <2>2, <3>3 DEF Same
      <4>3. e.line <= d.line
        BY <3>3, <4>2 DEF First
      <4>4. d.line \in Nat /\ e.line \in Nat
        <5>1. d.line \in DOMAIN text /\ e.line \in DOMAIN text
          BY DeclaredAt DEF Inv
        <5>2. QED
          BY <5>1, TextIs DEF Inv
      <4>5. QED
        BY <3>2, <4>1, <4>3, <4>4
    <3>4. QED
      BY <2>4, <3>3 DEF LineRight
  <2>5. QED
    BY <2>3, <2>4
<1>6. QED
  BY <1>2, <1>3, <1>4, <1>5

\* The inventory is what the document declares, once each and with its line.
THEOREM InventoryIsExact == Spec => []InventoryExact
BY ManifestsInvariant, InvExact, PTL

LEMMA InvDetections == Inv => DetectionsExact
<1> SUFFICES ASSUME Inv, phase = "done"
             PROVE  /\ \A k \in DOMAIN items : \A r \in 0..Len(rules) :
                         Cardinality({j \in DOMAIN out : out[j] = [item |-> k, rule |-> r]})
                           = IF r = 0 \/ rules[r] \in Target(items[k]) THEN 1 ELSE 0
                    /\ \A i, j \in DOMAIN out : i < j =>
                         \/ out[i].item < out[j].item
                         \/ /\ out[i].item = out[j].item
                            /\ out[i].rule < out[j].rule
  BY DEF DetectionsExact
<1>1. PICK m \in Nat, q \in Nat : m = Len(items) /\ DOMAIN items = 1..m /\ q = Len(rules)
  BY ManifestsAssumption DEF Inv, Given, Gathered, Deduplicated
<1>2. PICK o : o = out /\ o \in Seq([item : Nat, rule : Nat])
  BY DEF Inv, Detected
<1>3. item \in Nat /\ item > m
  BY <1>1 DEF Inv, Detected
<1>4. \A k \in 1..m : \A r : Passed(k, r)
  BY <1>3 DEF Passed
<1>5. /\ \A j \in DOMAIN o :
           /\ o[j].item \in 1..m /\ o[j].rule \in 0..q
           /\ Due(o[j].item, o[j].rule) /\ Passed(o[j].item, o[j].rule)
      /\ \A k \in 1..m : \A r \in 0..q :
           Due(k, r) /\ Passed(k, r) => \E j \in DOMAIN o : o[j] = [item |-> k, rule |-> r]
      /\ \A i, j \in DOMAIN o : i < j =>
           \/ o[i].item < o[j].item
           \/ o[i].item = o[j].item /\ o[i].rule < o[j].rule
  <2>1. DetectionsOf(o, m, q)
    BY <1>1, <1>2, DetectedIs
  <2>2. QED
    BY <2>1 DEF DetectionsOf
<1>6. ASSUME NEW k \in 1..m, NEW r \in 0..q
      PROVE  Cardinality({j \in DOMAIN o : o[j] = [item |-> k, rule |-> r]})
               = IF r = 0 \/ rules[r] \in Target(items[k]) THEN 1 ELSE 0
  <2>1. PICK e : e = [item |-> k, rule |-> r]
    OBVIOUS
  <2>2. e.item = k /\ e.rule = r
    BY <2>1
  <2>3. PICK S : S = {j \in DOMAIN o : o[j] = e}
    OBVIOUS
  <2>4. CASE Due(k, r)
    <3>1. PICK j \in DOMAIN o : o[j] = e
      BY <1>4, <1>5, <2>1, <2>4
    <3>2. ASSUME NEW i \in DOMAIN o, o[i] = e PROVE i = j
      <4>1. ~(i < j) /\ ~(j < i)
        <5>1. ~(k < k) /\ ~(r < r)
          OBVIOUS
        <5>2. o[i].item = k /\ o[i].rule = r /\ o[j].item = k /\ o[j].rule = r
          BY <2>2, <3>1, <3>2
        <5>3. QED
          BY <1>5, <5>1, <5>2
      <4>2. i \in Nat /\ j \in Nat
        BY <1>2
      <4>3. QED
        BY <4>1, <4>2
    <3>3. S = {j}
      BY <2>3, <3>1, <3>2
    <3>4. Cardinality(S) = 1
      BY <3>3, FS_Singleton
    <3>5. QED
      BY <2>1, <2>3, <2>4, <3>4 DEF Due
  <2>5. CASE ~Due(k, r)
    <3>1. S = {}
      BY <1>5, <2>2, <2>3, <2>5
    <3>2. Cardinality(S) = 0
      BY <3>1, FS_EmptySet
    <3>3. QED
      BY <2>1, <2>3, <2>5, <3>2 DEF Due
  <2>6. QED
    BY <2>4, <2>5
<1>7. QED
  BY <1>1, <1>2, <1>5, <1>6

\* Every item is in the output once, and with each rule that matches it, in order.
THEOREM DetectionsAreExact == Spec => []DetectionsExact
BY ManifestsInvariant, InvDetections, PTL
=============================================================================
