# A TLA+ verification project for pqc-scan

`pqc-scan` walks a source repository, runs five detectors over every file in a
thread pool, turns what they find into findings, a cryptographic bill of
materials (CBOM) and a dependency inventory, and writes reports. The modules in
this directory are translated from its Rust sources, the `MC*` modules and
`.cfg` files check them with TLC on small instances, and `*_proofs.tla` holds
theorems for every value of the constants, checked by TLAPS.

Paths below are relative to `src/crates/`, without the `pqc_scan_` prefix where
it is obvious. `PROJECT.json` gives the source lines of every definition.

## 1. Inventory

### Components

| component | source | state it keeps | operations |
|---|---|---|---|
| command line | `cli/src/main.rs` | the exit status; otherwise none | `run_cli`, `scan_cmd`, `list_rules_cmd`, `show_rule_cmd` |
| rule loader | `rules/src/lib.rs` | `RuleSet`: sorted `rules`, `index_by_id` | `load_from_dir`, `get`, `by_kind`, `counts_by_kind` |
| repository walker | `core/src/walker.rs` | `files`, `WalkStats` | `walk_repository`, `should_exclude` |
| scan pipeline | `core/src/pipeline.rs` | detections per file, findings, `text_cache`, `ScanResult` | `scan_repository` and the passes it makes |
| severity engine | `core/src/risk.rs` | none | `adjusted_severity`, `bump_severity` |
| file classifier | `core/src/classifier.rs` | none | three predicates on file names |
| data model | `core/src/model.rs` | the records that flow between the parts | `from_bytes`, `line_col_for_offset`, `mask_preview` |
| runtime profile and advice | `core/src/recommendation.rs` | `RuntimeProfile`: versions, targets, signals; per finding its actions | `from_repository`, `annotate_findings` |
| regex and key detectors | `detectors/src/{regex,key}_detector.rs`, `comment_filter.rs` | per file: position, matches taken | `detect` |
| tree-sitter detector | `detectors/src/tree_sitter_detector.rs` | per file: candidate nodes, `dedup` keys, hits of the rule | `detect` |
| certificate detector | `detectors/src/certificate_detector.rs` | per file: the certificates parsed | `detect` |
| dependency detector | `detectors/src/dependency_detector.rs` | per file: section, block or package being read; items | `detect`, sixteen parsers |
| report delivery | `report/src/lib.rs` | the files of the output directory | `write_reports` |
| report contents | `report/src/{grouping,sarif_report,html_report,markdown_report}.rs` | the sanitized copy, groups of findings, the documents; the panels open in a reader's browser | `sanitize_scan_result`, `group_findings`, `collect_rules`, `to_result`, the three writers, the script of the HTML |
| rule packs, docs, examples | `rules/default/*.yml`, `docs/`, `examples/` | data | none |

### How they interact

One process makes one pass. The command line loads the rules, then calls
`scan_repository`, then `write_reports`, prints a summary and compares the
worst severity with `--fail-on`. `scan_repository` calls the walker, hands the
list of files to a `rayon` pool in which each file is read and given to the five
detectors in turn, collects the detections in the order of the list, and goes
on in one thread: inventory, runtime profile (which reads some files again),
normalization (severity, deduplication), advice, snippets (which read files a
third time), sort, CBOM, summary. The only memory that threads share is the slot
of each file in the collected result. Everything else is shared with the outside:
the repository, which other processes may edit at any time, and the output
directory, which keeps what earlier runs left there.

### What is hard to get right here

- **Concurrency.** Threads take and finish files in any order; the report must
  not show it.
- **Time of check and time of use.** A file is looked at up to four times (walk,
  detectors, profile, snippets), with edits in between.
- **Failure.** A file may vanish or be unreadable at each of those times; a rule
  file or pattern may be bad; any call that writes may fail; a run may be killed.
- **Order.** `WalkDir` and `ignore` yield entries in no fixed order, maps and
  sorts have to remove its traces.
- **Limits and numbers.** Caps on matches per rule, clamping of snippet windows,
  saturation of severities, lines that are 0, sizes of encodings taken for sizes
  of keys.
- **State carried along a text.** Line scanners that remember a section, a block
  or a package; searches that go on where the last match ended, which may be
  inside the next entry; comment filters; cursors into nested nodes.
- **Several writers of one thing.** Four formats group, sort, cut and mask the
  same findings by code of their own and have to agree.

`hazards` in `PROJECT.json` lists each of these at its line, with the properties
that would notice it going wrong or the reason there is none.

### What makes each component correct

| component | correctness |
|---|---|
| rule loader | a loaded set answers every id of the directory with its rule and nothing else; the outcome and the order the detectors see do not depend on the order of the walk; one bad file or repeated id and nothing loads |
| pipeline | the report is a function of the bytes read of each file, whatever the threads, the walk order and later edits; deduplication loses no place; snippets are of one version, never of a file that names a private key of a kind the code knows (RSA, PKCS#8, OPENSSH), and on target; the scan ends |
| severity engine | a severity is never lowered and never leaves its range |
| command line, delivery | exit status 0 or 2 means that all outputs of the run are there, 2 exactly at the threshold; a complete inventory file seals those of its run |
| pattern detectors | each rule reports the places of its first matches that no comment holds, independently of the other rules |
| tree-sitter detector | each match some node shows is a hit, once per line and spelling (but for case), on its line |
| certificate detector | every certificate that is parsed is matched on its own, and a file without one by its path |
| dependency detector | the items are those the document declares, once, and nothing leaks from one section or package into the next |
| runtime profile and advice | a version some file states is found and never replaced; advice that needs a release goes only where it is known; all TLS findings are told the same hardening |
| report contents | every document accounts for every finding once, and what is cut is counted; the formats agree on severities; no action twice; no key, secret or markup of the sources in an article of the HTML or a section of the Markdown; a click opens its own file when ids stay apart |

## 2. Modules and how they correspond to the code

| module | models | state variables and the code's | actions |
|---|---|---|---|
| `Risk` | `risk.rs`, enums of the rules crate | none (pure) | |
| `Snippet` | the window of a snippet and the masking of its lines in `pipeline.rs` | none (pure) | |
| `Listing` | filters, flattening, stable sort and first occurrences, as sets and functions: each lists places in an order and takes what is there | none (pure) | |
| `Scan` | `scan_repository`, `walk_repository` | `files`, `skipped`: the walk; `job`: what each thread is at; `bytes`, `found`: what was read and detected per file; `profile`; `findings`; `at`: the loop positions; `cache`: `text_cache`; `report`: the `ScanResult`; `disk`, `edits`: the environment | one per step that touches shared state: an entry of the walk, taking and reading a file, storing its detections, the collect, reading a file for the profile, each detection normalized, each snippet, the final assembly |
| `ScanPromise` | what a scan promises | `status`, `observed`, `result` | `Observe`, `Publish`, `Fail` |
| `ScanRefinement` | the mapping of `Scan` to `ScanPromise` | | |
| `RuleSet` | `load_from_dir` | `rules`, `index` (`index_by_id`), `next` | an entry of the walk skipped, loaded or rejected; sort; a rule indexed or rejected |
| `Delivery` | `main.rs`, `write_reports` | `out`: the directory; `args`, `pc`, `worst`, `next`, `exit` | one per call that may fail; each write is two, truncate and fill; `Kill` anywhere |
| `SourceText` | positions of an offset, the comment filter | none (pure) | |
| `PatternDetectors` | `regex_detector`, `key_detector` | `rule`, `taken`, `from`: `find_iter().take()`; `out` | a match skipped or reported, next rule (`DetectNext`) |
| `TreeSitterDetector` | `tree_sitter_detector` | candidate nodes, `dedup`, cursor, hits of the rule | a hit skipped or reported, next candidate, next rule |
| `CertificateDetector` | `certificate_detector`, `is_certificate_file` | `infos`, loop positions, `out` | a block parsed, a rule tried, next certificate |
| `Manifests` | `dependency_detector`, its sixteen parsers | `section` (also `in_require_block`, and the pattern pnpm locks are searched for), `name`, `version`, `current_line`; `at`: the line, or where a search goes on; `key`: in a JSON object; `items`; loop positions; `out` | one per parser and loop of it: a line, the next match, the next key or component; `dedup_items`, inventory detection, a rule tried |
| `Advice` | `recommendation.rs` | `versions`, `targets`, `signals`: `RuntimeProfile`; `at`: the loop positions; `advice`: `recommended_actions` of each finding | a file or a dependency profiled, a finding annotated |
| `Reports` | `grouping.rs`, `sarif_report.rs`, `html_report.rs`, `markdown_report.rs`, `sanitize_scan_result` | `findings`: the copy; `buckets`, `groups`; `levels`, `results`: the SARIF; `html`, `markdown`, `cbom_rows`: the documents; `opened`: panels of the HTML shown | a finding sanitized, bucketed, or written to SARIF; a bucket made a group; the groups sorted and written; a click |
| `Scan_proofs`, `RuleSet_proofs`, `TreeSitterDetector_proofs`, `CertificateDetector_proofs`, `Manifests_proofs`, `Advice_proofs`, `Reports_proofs` | theorems about the module of that name; `Scan_proofs` also those about `PatternDetectors`, and `Reports_proofs` those about `Delivery`, whose states and specifications are named apart (`DetectSpec`, `CliSpec`) for it | | |
| `Operators_proofs` | lemmas about the operators of `Listing` and `SourceText` | | |
| `MC*` | constants for TLC | | |

Composition: `Scan` extends `Risk`, `Snippet` and `Listing`; `ScanRefinement`
extends `Scan` and instantiates `ScanPromise`; the detectors are modules of
their own because, inside the pipeline, a detector is a pure function of the
bytes of a file and of the rules (`Detector: Send + Sync`, `&self` without
interior mutability), which is how `Scan` takes them (`Detections[c]`).
`Delivery` uses of a scan only the worst severity among its findings. `Advice`
takes the files in the order the walk of `Scan` lists them, with what each
contains; `Reports` takes any list of findings in the order `Scan` sorts them
into (`ScanOrder`), so the properties hold of what a scan hands over and not of
lists no scan yields. `Scan` and `Advice` share the profile: `Scan` models that it
reads the files a second time, `Advice` what it makes of them.

Abstractions worth knowing:

- A path is its rank in the order of names, a content is a model value with what
  the properties ask of it (lines, version hints, detections). A line is of one of
  eight classes (`LineClass`), those the masking of `pipeline.rs` tells apart and two
  it does not: a BEGIN or END line of a kind of key it does not know, and a line of a
  key that does not look like base64 to it. `Lines` is any map of contents to such
  lines.
- A lexeme is one character wide; one is of `WideBytes` bytes, because the tree-sitter
  detector adds a column in bytes to one in characters.
- What a certificate rule looks for is a word anywhere in the line it is applied to
  (that of the path alone, or that of the path and a certificate), or, as the
  pattern of `CERT_PEM_CONTAINER`, an extension at its end.
- The regular expressions of rules are not evaluated: a rule is the word it
  looks for, a text a sequence of lexemes. The regex engine, the grammars of
  tree-sitter, the PEM and DER parsers and serde are external.
- A manifest is a sequence of lines, each what its parser sees in it (an entry, a
  header, a blank line); names and versions are few values. A match of a regular
  expression is the entry it finds, the line it begins on and the line the search
  goes on from, since blank lines and indentation decide both.
- A text shown in a report is what the sanitizer and the escaping tell apart: a
  key, a secret, a markup character, a table separator, a line break, or none of
  these. A secret that is part of a longer line is not among them; a break is a
  newline, and the carriage return that may come before it, which
  `escape_md_table_cell` leaves, is not modelled.
- A version hint is a sequence of numbers, quotes and other characters; a path in
  `Advice` the words of it that the code looks for.
- A dependency in `Advice` has a name, the words the code looks for in it, and a purl,
  which begins with `pkg:` or not; its name and such a purl are signals of the profile.
  `AdviceAssumption` says what an identity of names has to: a name equal to a signal
  the code makes holds the word that makes it, and no purl with `pkg:` is one.
- The passes between normalization and assembly that neither read files nor
  interact with anything are not split into steps.
- Confidence is the one bit `risk.rs` computes from it.

## 3. The runs

All run in about a minute or less. Deadlock is checked in every run; each module
has an explicit step for having finished.

| run | question | instance | result |
|---|---|---|---|
| `scan` | Does a report depend on anything but the bytes read? Which of several detections with one key makes the finding? Are snippets consistent, on target and without lines of the keys the code knows? Does a scan end? | 4 files (one excluded, one a link), 2 threads, 8 contents, 4 repositories, every walk order and schedule, one edit to any content at any moment | holds |
| `scan_key_kinds` | Is private key content never exported, as `docs/architecture.md` says? | one repository with an RSA and an EC key, no edits | violated: lines of the EC key are shown |
| `rules` | Is the loaded set that of the directory, whatever the order of the walk? | 3 entries in every state, rules with equal ids and bad patterns | holds |
| `delivery` | What do the exit status and the files left behind say? | 2 invocations of any command line, failure at every call, kill at every moment | holds |
| `patterns` | Are the hits of a rule the first matches, at the right places? | every text of up to 5 lexemes out of 6 kinds, with and without comment syntax, both detectors; one rule, two, and one pattern in two rules | holds |
| `tree_sitter` | Is every match a node shows reported, once per line and spelling, on the right line and at the right column? | every text of 7 lexemes that fits four trees of nested, overlapping nodes, one a string that begins with an escape; matches in either case, wide characters; two rule sets | holds, the column up to the wide characters before the node |
| `certificates` | Is every certificate matched on its own, and a file without any by its path? | files of up to 3 blocks, each encoding and extension, with and without a word of the path that rules look for | holds |
| `certificates_size` | Is the number matched the size of the key? | the same | violated: it is the length of the encoded key |
| `manifests` | Are the items those the document declares, at its lines? | every document of sixteen formats: JSON, pnpm and pom of 3 lines, Cargo and Poetry locks of 6, the others of 4; two rule sets | holds |
| `manifest_gems` | Is every gem of a Gemfile in the inventory, as `README.md` says of manifests? | the same | violated: an indented gem behind one without a version is lost |
| `advice` | Which version of a runtime is believed, and what is every finding told? | repositories of 3 files in every order of the walk, with hints that hold several numbers, quotes, none, or one too large; findings of every category in repositories of 2 | holds |
| `reports` | Do all formats account for every finding, agree, mask and escape? | every 2 findings of 3 rules, 3 and 4 of fewer kinds, at lines 0 to 3 of 2 files; every sequence of clicks | holds |

Why these bounds are enough:

- Two threads and three scanned files give every order of taking and finishing
  that matters (a thread that overtakes another, a collect that has to wait); the
  slots are independent, so more files repeat the same cases. One edit suffices
  to put a change between any two of the looks at a file; a second would change
  it again between two later ones, which the properties do not tell apart.
  The theorems remove these bounds for the safety properties.
- Two invocations let a second run meet everything a first may leave, torn files
  included. The theorems about `Delivery` (in `Reports_proofs`) remove the bound.
- Three rule entries allow a repeated id within a file, across files and beside a
  bad file, in any order; a walk order is a permutation of three. `RuleSet_proofs`
  removes the bound.
- Eight contents are a text with an inline secret, a long line and an END line, a lock
  file, one text with an RSA key and one with an EC key, what is left after an edit
  that shortens a file, a binary, an unreadable and an oversize one: each reason to
  mask or to show nothing, and an edit that puts any of them in place of another.
  The theorems hold of any lines.
- Texts of five lexemes hold more matches than the limit, matches before and
  after a comment and over two lines; two rules show whether the count of the one
  is left to the other, and with one pattern whether they hide each other's hits.
  The theorems about `PatternDetectors` (in `Scan_proofs`) and `TreeSitterDetector_proofs`
  remove the bound on texts, trees, rules and limit, `CertificateDetector_proofs` that on blocks. In the
  tree with an escape a name stands right behind an escape, outside the node that shows it:
  it is found there, since a node is searched without what is around it. Manifests of four lines hold two headers
  and two entries, or two gems with blank lines between and above them; three
  lines of a JSON document hold one name as a key outside and in two sections;
  six lines of a Poetry or Cargo lock hold two packages with a name and
  a version each, which a leak from one into the other needs. `Manifests_proofs` removes
  the bounds on lines, names and rules.
- `advice`: three files are a statement, one before it that states nothing or
  cannot be read, and one after it that states something else. `U32Max` is 99:
  the hints hold numbers on both sides of it and of 24. `Advice_proofs` removes the
  bounds.
- `reports`: the limits (`Samples` = 1, `HtmlLines` = 1, `MarkdownLines` = 2,
  `NextActions` = 2; in the code 3 to 20) are below what four findings need, so
  that every cut happens and is counted; two findings show every pair of rules,
  severities, files and texts, four a rule with several findings per file.
  `Reports_proofs` removes the bounds on findings, rules, files, lines and limits.

### Fairness

`Scan` alone has a liveness property, `Termination`. It assumes weak fairness of
`Step`, the disjunction of the scan's own actions: the operating system goes on
running the process, and `rayon` some thread with work. Nothing is assumed of
the environment (`Edit`) or of errors (`Abort`), and no fairness is needed per
thread, since a pool of which any thread runs makes progress.

### Mutants

Each property of a passing run has a mutant in `PROJECT.json`: a mapped
definition and the form a plausible bug would give it (kept beside it in the
module, named `definition_WhatIsWrong`). With it TLC finds the property violated.

## 4. What is proved

From the named assumptions on the constants, which TLC evaluates on every run
(`PathsAssumption`, `ContentAssumption`, `RuleAssumption`, `HitAssumption`,
`DiskAssumption`; `EntriesAssumption`, `RuleTextsAssumption`, `RuleDirsAssumption`;
`DeliveryAssumption`; `ReportsAssumption`; `PatternDetectorsAssumption`; `TreeSitterAssumption`,
`ParsesAssumption`, `TreesAssumption`, `RulesAssumption` of the tree-sitter detector; `FilesAssumption`,
`RulesAssumption` of the certificate detector; `ManifestsAssumption`; `AdviceAssumption`), for any number of
files, contents, threads, rules, edits and invocations, and texts and manifests of any length:

**`Scan_proofs`.** `Invariance` is the inductive invariant
`IInv == TypeOK /\ PoolInv /\ DetectionsAsRead`. Types and `DetectionsAsRead`
alone are not inductive: that a thread which finishes a file stores detections of
bytes it has read needs `PoolInv` (a thread with a job has read its file and
not stored its result; slots exist exactly from the start of the pool on; a file
the walk has yet to list is not in the list). From it follow `TypeCorrect` and
`ScheduleIndependence` (`DetectionsAsRead`). `SeverityKept`,
`DeduplicationExact`, `OneVersion`, `KeysMasked` and `Highlighted` add an
invariant each: what the normalizing loop has passed, and `SnippetInv`: the snippet of a
finding the loop has passed is what `snippet_source` makes of the cached content of its
file, and its preview is masked with it. `KeysMasked` then follows a line through the
two maskings: `TextLines` and `WindowLines` leave no BEGIN, END or base64 line, and a content with a
BEGIN of a known kind gives no lines. It promises nothing of other kinds of keys: of
those `scan_key_kinds` shows the contrary. `FirstsTheorem` (`FirstsInOrder`) rests on `FindingsExact` and on the place of
the first detection with a key, which is unique: the loop meets detections in the order
of their places, so the first it meets is that one. `WrittenOnce` is the action property `WriteOnce`: it needs that a thread
finishing a file finds its slot pending, which is part of `PoolInv`. One lemma per
group of actions, lemmas on the pure operators (`AdjustedSeverity`,
`WindowWithinFile`) before them.

`Refinement` is `Spec => ImplementsPromise`: the scan implements `ScanPromise` under
the mapping of `ScanRefinement`. Initial states map to initial states
(`InitPromise`). Reading a file's bytes is `Observe` (`ReadObserves`), an error is
`Fail` (`AbortFails`), the steps that neither read nor publish are stutters
(`OtherStepsUnseen`), and the assembly is `Publish` (`AssemblePublishes`), which says that
the report is the function of what was observed that `ScanPromise` states. Its three
parts are shown one by one. For the findings: `DetectionsAsRead` and `FindingsExact` give
the same places (`ReportedAsFound`), `FirstsInOrder` the same numbering of them
(`FindingsAsPromised`), and two stable sorts of sequences that agree position by
position agree (`SortedAsPromised`, by `RanksMoved`). For the CBOM: the first of each key
of a sequence depends on the keys alone (`CbomAsPromised`). For the SBOM: dropping
repetitions within each file and then among all files keeps the same items, in the same
order, as dropping them once (`ItemsOnce`, `SbomAsPromised`).

**`RuleSet_proofs`.** In the inductive invariant
`Inv == TypeOK /\ Gathered /\ MetSound /\ Indexed /\ Phases /\ ById`, `Gathered` says that some
one-to-one map takes the positions of `rules` onto the rules of the files met, as
pairs of a file and a place in it: a rule read twice is then told from two rules
that are equal. Appending a file extends the map; the stable sort composes it with a
permutation, which meets every position because the positions are finitely many
(`FS_Injection`). `Indexed` says the index is exact on the rules the loop has passed.
`LookupTheorem` follows, and `AllOrNothingTheorem`: two rules with one id in `rules`
are two places of the directory, and a whole index has no two. `ById` (from the sort on,
ids never fall) gives `OrderTheorem`: the rules of one kind, in the order of `rules`, are in
the order of their ids, and a loaded set has each of the directory once, so nothing is left
of the order in which the directory was walked.

**`Reports_proofs`.** Of the constants `ReportsAssumption` says that rules and files are numbers
(their order is that of names), that the findings of a scan are in the order in which
`scan_repository` sorts them, and that the limits are not 0; `ActionIds` is any set, and
`DomId` any map. None of the properties is inductive: they speak of the documents, which are
written in one step from what three loops have left. The inductive invariant is

    Inv == Loops /\ Masking /\ CbomKept /\ Buckets /\ Groups /\ Documents /\ Sarif /\ Shown

`Buckets` says that the bucket of a rule holds the findings of that rule that the loop has
passed, each once (`Collects`: some map takes the positions of the one one-to-one onto the
positions of the other); `Groups` that each group is made of the whole bucket of a rule of its own,
and, from the sort on, that all are there and in order; `Sarif` that a rule has the level of its
first finding and every finding its result; `Masking` that what the loop has passed holds no
secret; `CbomKept` that the CBOM still says of each finding what the copy says masked.
The rest is what a group tells of its bucket. `Collects` is kept by sorting, by taking the
findings of one file, and by composing the two (`ByPlaceCollects`, `CollectedPart`,
`CollectedTwice`), so counts and sets of lines, matches and actions agree with those of the
whole list: `TellsFile` for a row, `TellsRule` for a group (`RowOfFile`, `OccurrencesTell`,
`ActionsTell`, `GroupTells`). `GroupsSorted` shows that the order of groups is total because
rules differ. From `Inv`: `AccountTheorem` (`RowAccounts`, `OneRow`, `OneGroup`; `Summarized` for
what is cut), `ActionsTheorem`, and `CleanTheorem`, which follows a text from the sanitized
copy through group, row and escaping. `SeverityTheorem` needs the order of the list:
the first finding of a rule is its worst (`FirstIsWorst`, from `ScanOrder`), and the loops keep it
(sanitizing changes neither severity nor place). `ClickTheorem` needs that the first panel in
the document exists (`FirstPanel`, by least numbers) and is the one clicked when ids stay
apart (`PanelFound`).

About `Delivery`, `CliInv` adds to types what every output before `next` holds and what the
sealing inventory implies; with the shape of `Outputs` (`OutputsShape`, `OutputsDistinct`)
it gives `VerdictTheorem`, `InventoryTheorem` and, for the action property, `WritesTheorem`.

**`Operators_proofs`.** Of `Listing`: an order lists every element of a finite set once
(`ListedInOrder`, from `RankRange`: the ranks of the elements are the numbers below the
cardinality), so filtering, flattening, stable sorting and keeping the first of each key
each take some one-to-one map of positions (`PickedPositions`, `FlattenedPlaces`,
`SortedPositions`, `KeptKeys`). These lemmas take the place of induction over sequences,
which is why `Listing` builds on sets and cardinalities. Of `SourceText`: of two offsets the later is on a later
line or further right on the same (`PlacesInOrder`), so no two offsets share a
place; and the place of an offset in a part of a text, added to the place where the
part begins as `tree_sitter_detector.rs` adds them, is its place in the text
(`PlaceWithin`). Both count sets, so they rest on the library's facts about
cardinalities; `Moved` says that shifting a set of offsets keeps its size.
`CommentOfTheLine` says without the start of a line what makes it a comment, which is how
a part of a text and the text are compared.

**`PatternDetectors`, in `Scan_proofs`.** `HitsExact` speaks of the end only. The inductive
invariant `DetectInv == DetectPositions /\ Counted /\ Marked` says of every state that the matches
counted are those behind the place where the search goes on (`Counted`; without it
nothing ties the counter to the first matches), and that some map takes the
detections to the offsets of their matches, in increasing order, onto all that are
reportable and behind the loops (`Marked`). Steps extend the map by one match, which
is the least ahead; leaving a rule needs that nothing reportable is ahead of a
full counter. `HitsTheorem` then counts the detections of a rule through that map,
which `PlacesInOrder` makes one-to-one on places.

**`TreeSitterDetector_proofs`.** `Inv == Positions /\ KeysOfHits /\ Located`: every hit is
on the line of a match in the source, by `PlaceWithin` on what is kept of a node, cut
or not, and there are as many keys as hits. `HitsTheorem` is `HitsLocated`: the line is
exact, and the column is that of the match plus the bytes by which wide characters
before the node exceed their number, which are among those before the match
(`ExtraBytes`); without such characters it is exact. `MatchesTheorem` (`MatchesExact`) needs `SearchInv` besides, in six parts. `Traversed`: whatever set of nodes is
closed under children and holds the stack, each node to search is in it or a candidate; so
when the stack is empty all are candidates. This says of a tree what an induction over it
would, and rests on `TreesAssumption`, that every node is below the root. `HitsApart`: the
keys are the rule, line and match (but for case) of what is reported, each once. `HitsCounted`: the limit is one for
each rule. `HitsShown`: what is reported is shown (`ShownWhereFound`: the two filters of the
code, which see a node's text, reject just what the node does not show). `Examined` and
`Finished`: what the loops have passed is reported, unless the rule was full.

**`CertificateDetector_proofs`.** `Inv == Positions /\ Gathered /\ Reported /\ Phases`:
a one-to-one map takes the certificates parsed to their blocks, onto all blocks before
the current one that parse, and the detections are exactly the pairs of certificate and
rule tried that match, each once. `ChainTheorem` composes the two maps: the
detections of a rule are as many as the certificates of the file it matches, and for a
file without any, malformed ones and other encodings included, there is one for each
rule for its path or extension.

**`Manifests_proofs`.** `ManifestsAssumption` says only that the bounds are numbers and that a
rule set is a sequence of words. `InventoryExact` compares the items with what the text
as a whole declares (`Declared`), at the end. The inductive invariant says it of every
step:

    Inv == Given /\ Positions /\ Lined /\ Gathered /\ Detected

`Gathered` holds three parts while a manifest is parsed. `Collected`: each item tells of a
declaration, each declaration the parser is past (`Handled`) is told of by an item, and where
a format is read line by line the items are in the order of its lines, all behind
`Bound`. `InSection`: a header flag is up just when the latest header before the line is
the one it is for. `InPoetry`: name and version are those of the package block the parser
is in, and unset if the block has none yet. What is handled differs with the parser: the
lines before `at` for the scanners and searches; the blocks begun before the current one for Poetry,
whose items are pushed a block late; for JSON the sections before the current one and in it the
names up to `key`; for pnpm all packages, then the dependencies before `at`. There is
a lemma for each kind of step: `CargoStep`, `GoStep`, `LineStep`, `PoetryStep`; the
searches `EntryStep`, `GemfileStep`, `CargoLockStep`, `PomStep`, `PnpmStep`, `PnpmSections`, for which `NoMatch` says
that nothing declared is left ahead of a search that fails; `KeyStep` and `SectionStep`
of JSON; `SbomStep`. Each comes down to `PushCollects` (one item and one
declaration more) or to none of either, and `AllHandled` says that a parser that has ended
is past all. `DedupStep` rests on `KeptKeys`: what is dropped has the key of an earlier
item, so a declaration is still told of, by its first line. `Detected` says that the
detections are those due for the items and rules passed, in strict order, so
none is there twice (`MatchLoop`, by `Decided`). From `Inv`: `ManifestsTypes`, `InventoryIsExact`,
`DetectionsAreExact`.

**`Advice_proofs`.** `FirstHintKept` is not inductive, since it says nothing while files
are being read. `HintInv` says of every prefix of the files: a version is unknown and
no file of the prefix states one, or it is that of the first that does. `ProfileInv` says
that the targets and signals are those of the files and dependencies looked at, and the
advice given that of the profile, which is complete and no longer changes when the first
finding is annotated. What a finding is told is then an expression, and lemmas say which of
the ids that matter it holds (`Gives(s, I)`: the advice `s` and no other gives the ids in
`I`): for one offer, for two joined, for `push_actions`, for the parts of
`recommend_for_finding` (`JavaGives`, `JwtGives`, `TlsGives`), up to `RecommendedIds`.
`JavaAdviceTheorem` adds `HintInv` (`Java24Known`: the release believed is the first stated,
if its number can be read); `HardeningTheorem` adds that what a finding's own path names the
repository's paths name as well (`PathsAreTargets`). `TypeCorrect` is `TypeOK`.

**Model-checked only.** `Termination`: liveness under fairness, which the prover does not
reach. Every other property of a passing run is a theorem. What the three violation runs
refute is not provable, of course; each shows it by a trace of TLC.

## 5. Disagreements between code and documents

The three violation runs on documents and tests above and, besides them, met
while modelling and not given a run:

- `dependency_detector.rs:550`: a pom's version is captured only if `<version>`
  follows `</artifactId>` with nothing between, so every dependency of a formatted
  `pom.xml` (that of `examples/java` too) is of version `unknown`. An element that
  gives its artifact before its group takes the artifact of the next one.
- `dependency_detector.rs:266`, `314`, `431`, `579`: a match that begins with
  white space begins at the blank lines before its entry, so the gem or package
  after a blank line is reported at the blank line.
- `dependency_detector.rs:828`: the line of a `package.json` dependency is the
  first where its name is a key, though a test is named
  `package_json_dependency_detection_reports_actual_line`.
- `dependency_detector.rs:449`: any key and value indented by two spaces in a pnpm
  lock is a dependency, its settings too; 475: a requirement with extras has no
  version; 412: a nested package of a `package-lock.json` has its path as name.
- `rules/src/lib.rs:153` rejects two rule packs that share an id, where
  `docs/architecture.md:78` says "Rule IDs are deduplicated".
- `risk.rs:11`: a private key found by a rule outside the promoted categories, or by
  one of low confidence, keeps the rule's severity, where `docs/architecture.md:168`
  says "Private key evidence is forced to highest severity path".
- `tree_sitter_detector.rs:180` cuts the text of a long node, and an identifier
  cut at its beginning is a hit, though a test is named
  `rejects_substring_inside_identifier`.
- `tree_sitter_detector.rs:99`: the key that keeps repeats out holds the matched text,
  so one rule reports a line several times when it matches different texts there.
- `certificate_detector.rs:35`: one malformed PEM block loses all certificates of the
  file without an error; 100: the pattern of `CERT_PEM_CONTAINER` ends with the
  extension, so it matches the path of a file without certificates and never that
  of a file with one.
- `markdown_report.rs:154` leaves the carriage return of a line break in a cell;
  121: the rows of the CBOM and of the dependencies are not
  escaped, though a test is named
  `markdown_report_preserves_grouping_and_escapes_table_cells`.
- `pipeline.rs:184`: the CBOM is built before the findings are sanitized and is
  not sanitized itself: a match that the reports mask is in `cbom.json`.
- `html_report.rs:235`: rules whose ids differ only in punctuation share the ids
  of their panels.
- `recommendation.rs`: the note for Java says that the version "appears older" when
  none was found; paths with `kubernetes` or `gatewayapi` and rules with a
  middleware's prefix get its note without its hardening; the versions of Go,
  Python, Rust and Ruby are gathered and never used.
- `pipeline.rs:156` hashes the parts of an id without separators; `risk.rs:20` takes
  a confidence that is not a number as above the threshold;
  `tree_sitter_detector.rs:173` counts the column of a node in bytes and adds the column of
  the hit in it, in characters: behind a character above ASCII the sum is neither.

- `walker.rs:48` reads the size of a symbolic link, so `README.md:212` ("Files
  larger than 2 MB are skipped") does not hold for what a link names.
- `walker.rs:60` looks for excluded names in the whole path: a repository below a
  directory named `target`, `dist` or `docs` is scanned as empty, with status 0.
- `main.rs:42` puts the default output directory inside a repository scanned as
  `.`, so the reports of one scan are files of the next.
- `certificate_detector.rs:33` parses DER only under the extension `der`; a DER
  certificate named `.crt` or `.cer` is matched by its path alone.
- `regex_detector.rs:30` counts matches in comments towards the limit of a rule.
- `dependency_detector.rs`: a Cargo header followed by a comment is not seen
  (183), only a bare `)` closes a Go block and comments in it are items (520),
  components that differ in their namespace are one item (143), a package of
  `package-lock.json` without a name has line 0 (413), which SARIF does not
  allow.

## 6. Plan

In order of importance; all but the eleventh are done.

1. `Risk`, `Snippet`, `Listing`, `Scan` with `MCScan`: the pipeline. *Done.*
2. `ScanPromise`, `ScanRefinement`: its abstract specification. *Done.*
3. `Scan_proofs`. *Done.*
4. `RuleSet` with `MCRuleSet`, `RuleSet_proofs`. *Done.*
5. `Delivery` and its theorems. *Done.*
6. `SourceText`, `PatternDetectors`, `TreeSitterDetector`. *Done.*
7. `CertificateDetector`. *Done.*
8. `Manifests`, the parsers that carry state. *Done.*
9. `Reports`: grouping and the three writers. *Done.*
10. `Advice`: the profile and the branches of `recommend_for_finding`. *Done.*
11. `Walker`: names along a path, ignore rules and links. To check: exclusion
    depends on the part of a path below the root.
12. The other parsers of `Manifests`. *Done.*
13. Theorems about the detectors and the profile: `HitsExact`, `HitsLocated`,
    `MatchesExact`, `ChainCovered`, `FirstHintKept`, `JavaAdviceFits`, `HardeningAgreed`;
    `OrderOfTheWalkForgotten`; the refinement. *Done.*
14. Theorems about `Reports`. *Done.*
15. Theorems about `Manifests`, whose deduplication is that of `Listing` for it. *Done.*

## 7. What is not modelled, and why

Style sheet, headings and summary counts of the documents, terminal output, texts
of advice and of rules, hashing of finding ids: no behaviour depends on them. Which
characters make a name or a version in a manifest: data. The regex engine, `ignore`,
`rayon`'s stealing of work, the tree-sitter grammars, the PEM, X.509, JSON and
YAML parsers: libraries, taken at their contracts. Numbers that are not numbers in
`confidence`: one bit. The order of findings with equal sort keys is modelled
(the sort is stable) and promised by `ScanPromise`.
