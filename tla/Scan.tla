-------------------------------- MODULE Scan --------------------------------
(***************************************************************************)
(* scan_repository (pqc_scan_core/src/pipeline.rs and walker.rs): walk the  *)
(* repository, detect in a rayon pool, normalize, annotate, attach source   *)
(* snippets, sort and summarise, while other processes go on editing the    *)
(* files being scanned.                                                     *)
(*                                                                         *)
(* A path is its rank in the order of the file names, so that comparing two *)
(* locations is comparing two numbers.  The five detectors are pure         *)
(* functions of the bytes and of the rules: Detections[c] is what they      *)
(* find, in their order, in a file with content c.                          *)
(***************************************************************************)
EXTENDS Risk, Snippet, Listing

CONSTANTS
    Paths,          \* the files a walk may meet
    Ignored,        \* those a .gitignore rule hides from the walk
    Excluded,       \* those should_exclude rejects
    Symlinks,       \* those that are symbolic links (to a file)
    Contents,       \* what a file may hold
    Oversize,       \* contents longer than max_file_size_bytes
    Unreadable,     \* files present that fs::read fails on (permissions)
    Binary,         \* contents with a NUL among their first 1024 bytes
    Lines,          \* [Contents -> Seq(LineClass)]
    VersionHint,    \* [Contents -> Nat]: the runtime version named, 0 if none
    RuleIds,        \* the ids of the loaded rules
    RuleOf,         \* [RuleIds -> Rule]
    Hits,           \* the detections that occur in some content
    Detections,     \* [Contents -> Seq(Hits)]
    Workers,        \* the threads of the pool
    StartDisks,     \* the repositories a scan may start on
    MaxEdits,       \* bound: how often another process edits a file
    Absent, Unread, Pending, NoCache, NoReport

Hit == [rule : STRING, line : Nat, column : Nat, match : Nat,
        kind : EvidenceKind, dep : Nat]

ASSUME PathsAssumption == Paths \subseteq Nat /\ IsFiniteSet(Paths)
ASSUME ContentAssumption ==
    /\ Oversize \cup Unreadable \cup Binary \subseteq Contents
    /\ Lines \in [Contents -> Seq(LineClass)]
    /\ VersionHint \in [Contents -> Nat]
    /\ Absent \notin Contents
    /\ Unread \notin Contents \cup {Absent}
    /\ NoCache \notin Contents \cup {Absent}
ASSUME RuleAssumption == RuleIds \subseteq STRING /\ RuleOf \in [RuleIds -> Rule]
ASSUME HitAssumption ==
    /\ \A h \in Hits : h \in Hit
    /\ Detections \in [Contents -> Seq(Hits)]
    /\ Pending \notin Seq(Paths \X Hits)
ASSUME DiskAssumption ==
    /\ StartDisks \subseteq [Paths -> Contents \cup {Absent}]
    /\ MaxEdits \in Nat
    /\ Workers # {}

VARIABLES
    disk,       \* the repository: what each file holds now
    edits,      \* how often it was edited
    phase,      \* the step of scan_repository that runs
    unlisted,   \* the directory entries the walk has not met
    files,      \* the walked files, in the order readdir gave them
    skipped,    \* walk_stats.skipped (walk_stats.scanned is Len(files))
    job,        \* job[w]: the index of the file worker w is on, 0 when idle
    bytes,      \* bytes[i]: what fs::read returned for files[i]
    found,      \* found[i]: the detections in files[i], Pending until known
    profile,    \* the runtime profile's version hint, 0 when there is none
    findings,   \* the findings made so far
    at,         \* the loop position: slot and hit of the detection, or finding
    cache,      \* text_cache: what load_snippet_source read, by file
    report      \* the ScanResult

vars == <<disk, edits, phase, unlisted, files, skipped, job, bytes, found,
          profile, findings, at, cache, report>>

scanVars == <<phase, unlisted, files, skipped, job, bytes, found, profile,
              findings, at, cache, report>>

-----------------------------------------------------------------------------
Readable(c) == c # Absent /\ c \notin Unreadable

\* The body of the par_iter closure for one file: a failed read finds nothing.
detect(path, content) ==
    LET hits == IF Readable(content) THEN Detections[content] ELSE << >>
    IN  [k \in DOMAIN hits |-> <<path, hits[k]>>]

\* The repository may change whenever the scan is about to read it.  An edit
\* made while the scan computes is the same edit made just before its next read.
Edit ==
    /\ phase \in {"walk", "detect", "profile", "snippets"}
    /\ edits < MaxEdits
    /\ edits' = edits + 1
    /\ \E p \in Paths, c \in Contents \cup {Absent} :
        /\ c # disk[p]
        /\ disk' = [disk EXCEPT ![p] = c]
    /\ UNCHANGED scanVars

-----------------------------------------------------------------------------
\* walk_repository, one directory entry at a time, in any order.

\* The entry was removed before its directory was read.
WalkVanished(p) ==
    /\ phase = "walk" /\ p \in unlisted /\ disk[p] = Absent
    /\ unlisted' = unlisted \ {p}
    /\ UNCHANGED <<disk, edits, phase, files, skipped, job, bytes, found,
                   profile, findings, at, cache, report>>

\* The size of a symbolic link is its own, not that of the file it names.
TooLarge(p) == p \notin Symlinks /\ disk[p] \in Oversize

\* Excluded by name, gone when its metadata is asked for, or too large.
WalkSkip(p) ==
    /\ phase = "walk" /\ p \in unlisted
    /\ p \in Excluded \/ disk[p] = Absent \/ TooLarge(p)
    /\ unlisted' = unlisted \ {p}
    /\ skipped' = skipped + 1
    /\ UNCHANGED <<disk, edits, phase, files, job, bytes, found,
                   profile, findings, at, cache, report>>

WalkKeep(p) ==
    /\ phase = "walk" /\ p \in unlisted
    /\ p \notin Excluded /\ disk[p] # Absent /\ ~TooLarge(p)
    /\ unlisted' = unlisted \ {p}
    /\ files' = Append(files, p)
    /\ UNCHANGED <<disk, edits, phase, skipped, job, bytes, found,
                   profile, findings, at, cache, report>>

\* A directory that cannot be read ends the scan, and so does a pool that
\* cannot be built.
Abort ==
    /\ phase = "walk"
    /\ phase' = "failed"
    /\ UNCHANGED <<disk, edits, unlisted, files, skipped, job, bytes, found,
                   profile, findings, at, cache, report>>

StartPool ==
    /\ phase = "walk" /\ unlisted = {}
    /\ phase' = "detect"
    /\ bytes' = [i \in DOMAIN files |-> Unread]
    /\ found' = [i \in DOMAIN files |-> Pending]
    /\ UNCHANGED <<disk, edits, unlisted, files, skipped, job,
                   profile, findings, at, cache, report>>

-----------------------------------------------------------------------------
\* The pool: any idle worker takes any file nobody took.

Unclaimed_Unfinished(i) == found[i] = Pending
Unclaimed(i) == bytes[i] = Unread

Read(w) ==
    /\ phase = "detect" /\ job[w] = 0
    /\ \E i \in DOMAIN files :
        /\ Unclaimed(i)
        /\ job' = [job EXCEPT ![w] = i]
        /\ bytes' = [bytes EXCEPT ![i] = disk[files[i]]]
    /\ UNCHANGED <<disk, edits, phase, unlisted, files, skipped, found,
                   profile, findings, at, cache, report>>

\* The slot a worker's result goes to: its own file's.
Slot_InOrderOfCompletion(w) ==
    CHOOSE i \in DOMAIN found : /\ found[i] = Pending
                                /\ \A j \in 1..(i - 1) : found[j] # Pending
Slot(w) == job[w]

Finish(w) ==
    /\ phase = "detect" /\ job[w] # 0
    /\ found' = [found EXCEPT ![Slot(w)] = detect(files[job[w]], bytes[job[w]])]
    /\ job' = [job EXCEPT ![w] = 0]
    /\ UNCHANGED <<disk, edits, phase, unlisted, files, skipped, bytes,
                   profile, findings, at, cache, report>>

\* The parallel collect returns when every file is done; found, read by slot
\* and then by hit, is the Vec<Detection> it returns.
Collect ==
    /\ phase = "detect"
    /\ \A i \in DOMAIN files : found[i] # Pending
    /\ phase' = "profile"
    /\ UNCHANGED <<disk, edits, unlisted, files, skipped, job, bytes, found,
                   profile, findings, at, cache, report>>

-----------------------------------------------------------------------------
\* RuntimeProfile::from_repository reads the walked files again, in order; the
\* first that names a version wins, and at[1] is the file it reads next.

NextFile_OnlyAfterARead ==
    IF Readable(disk[files[at[1]]]) THEN <<at[1] + 1, 1>> ELSE at
NextFile == <<at[1] + 1, 1>>

ProfileFile ==
    /\ phase = "profile" /\ at[1] <= Len(files)
    /\ LET content == disk[files[at[1]]]
       IN  profile' = IF profile = 0 /\ Readable(content)
                      THEN VersionHint[content] ELSE profile
    /\ at' = NextFile
    /\ UNCHANGED <<disk, edits, phase, unlisted, files, skipped, job, bytes,
                   found, findings, cache, report>>

StartNormalize ==
    /\ phase = "profile" /\ at[1] > Len(files)
    /\ phase' = "normalize"
    /\ at' = <<1, 1>>
    /\ UNCHANGED <<disk, edits, unlisted, files, skipped, job, bytes, found,
                   profile, findings, cache, report>>

-----------------------------------------------------------------------------
\* normalize_findings and annotate_findings: one detection a step.

FindingKey(f) == <<f.rule, f.file, f.line, f.column, f.match>>
DetectionKey(d) == <<d[2].rule, d[1], d[2].line, d[2].column, d[2].match>>

\* text says what is shown: nothing, a mask, or lines of the content `of`.
SnippetText == {"none", "masked-key", "masked-file", "lines"}
OneLine(n) == [first |-> n, last |-> n, highlighted |-> n]
Without == [text |-> "none", of |-> Unread, window |-> NoSnippet, lines |-> << >>]
Mask(text, n) == [text |-> text, of |-> Unread, window |-> OneLine(n), lines |-> << >>]
Excerpt(content, window) ==
    [text |-> "lines", of |-> content, window |-> window,
     lines |-> WindowLines(Lines[content], window)]

\* advice stands for the recommended actions, which depend on the profile.
NewFinding_AtRulesSeverity(d) ==
    [rule |-> d[2].rule, file |-> d[1], line |-> d[2].line,
     column |-> d[2].column, match |-> d[2].match, kind |-> d[2].kind,
     severity |-> RuleOf[d[2].rule].severity,
     advice |-> profile, preview |-> "evidence", snippet |-> Without]
NewFinding(d) ==
    [rule |-> d[2].rule, file |-> d[1], line |-> d[2].line,
     column |-> d[2].column, match |-> d[2].match, kind |-> d[2].kind,
     severity |-> adjusted_severity(RuleOf[d[2].rule], d[2].kind),
     advice |-> profile, preview |-> "evidence", snippet |-> Without]

Seen_ForgettingColumn(d) ==
    \E k \in DOMAIN findings :
        <<findings[k].rule, findings[k].file, findings[k].line>>
            = <<d[2].rule, d[1], d[2].line>>
Seen(d) == \E k \in DOMAIN findings : FindingKey(findings[k]) = DetectionKey(d)

\* A detection of an unknown rule id (the dependency inventory's) or one that
\* repeats an earlier finding makes no finding.
NormalizeHit ==
    /\ phase = "normalize"
    /\ at[1] <= Len(files) /\ at[2] <= Len(found[at[1]])
    /\ LET d == found[at[1]][at[2]]
       IN  findings' = IF d[2].rule \in RuleIds /\ ~Seen(d)
                       THEN Append(findings, NewFinding(d)) ELSE findings
    /\ at' = <<at[1], at[2] + 1>>
    /\ UNCHANGED <<disk, edits, phase, unlisted, files, skipped, job, bytes,
                   found, profile, cache, report>>

NormalizeSlot ==
    /\ phase = "normalize"
    /\ at[1] <= Len(files) /\ at[2] > Len(found[at[1]])
    /\ at' = <<at[1] + 1, 1>>
    /\ UNCHANGED <<disk, edits, phase, unlisted, files, skipped, job, bytes,
                   found, profile, findings, cache, report>>

StartSnippets ==
    /\ phase = "normalize" /\ at[1] > Len(files)
    /\ phase' = "snippets"
    /\ at' = <<1, 1>>
    /\ UNCHANGED <<disk, edits, unlisted, files, skipped, job, bytes, found,
                   profile, findings, cache, report>>

-----------------------------------------------------------------------------
\* attach_source_snippets: one finding a step, at[1] the finding.

Unavailable(content) == ~Readable(content) \/ content \in Binary

\* A readable text is masked as a whole or shown line by line.
snippet_source(content, line) ==
    IF Unavailable(content) THEN Without
    ELSE IF contains_private_key_marker(Lines[content]) THEN Mask("masked-file", line)
    ELSE LET window == build_source_snippet(Len(Lines[content]), line, Before, After)
         IN  IF window = NoSnippet THEN Without ELSE Excerpt(content, window)

\* Private key evidence is masked without reading the file.
AttachMasked ==
    /\ phase = "snippets" /\ at[1] <= Len(findings)
    /\ findings[at[1]].kind = "private_key"
    /\ findings' = [findings EXCEPT ![at[1]].snippet =
                      Mask("masked-key", findings[at[1]].line)]
    /\ at' = <<at[1] + 1, 1>>
    /\ UNCHANGED <<disk, edits, phase, unlisted, files, skipped, job, bytes,
                   found, profile, cache, report>>

\* The file is read again, once for all its findings.
CachedContent_Reread(p) == disk[p]
CachedContent(p) == IF cache[p] = NoCache THEN disk[p] ELSE cache[p]

AttachSource ==
    /\ phase = "snippets" /\ at[1] <= Len(findings)
    /\ findings[at[1]].kind # "private_key"
    /\ LET f == findings[at[1]]
           content == CachedContent(f.file)
           snippet == snippet_source(content, f.line)
           preview == IF snippet.text = "masked-file" THEN "masked" ELSE f.preview
       IN  /\ cache' = [cache EXCEPT ![f.file] = content]
           /\ findings' = [findings EXCEPT ![at[1]].snippet = snippet,
                                           ![at[1]].preview = preview]
    /\ at' = <<at[1] + 1, 1>>
    /\ UNCHANGED <<disk, edits, phase, unlisted, files, skipped, job, bytes,
                   found, profile, report>>

-----------------------------------------------------------------------------
\* What is computed from the detections and the findings without reading.

AllDetections == Flattened(found)

DependencyKey(d) == <<d[2].dep, d[1]>>

\* dep is the rank of (ecosystem, name, version), 0 when the detection is not
\* a dependency inventory item or has no name.
DependencyItems ==
    LET all == AllDetections IN Picked(all, {i \in DOMAIN all : all[i][2].dep # 0})

ByDependency(a, b) ==
    \/ a[2].dep < b[2].dep
    \/ a[2].dep = b[2].dep /\ a[1] < b[1]

\* Each package once for each file that names it, sorted.
UniqueItems == KeepFirst(DependencyItems, DependencyKey)
build_dependency_sbom == StableSort(UniqueItems, ByDependency)

CbomKey(f) == <<f.rule, f.file, f.line, f.match>>
build_cbom(fs) == KeepFirst(fs, CbomKey)

Precedes_BySeverityOnly(a, b) == a.severity > b.severity

\* The most severe first, then by file.
Precedes(a, b) ==
    \/ a.severity > b.severity
    \/ a.severity = b.severity /\ a.file < b.file

SortedFindings == StableSort(findings, Precedes)

Summary(fs) ==
    [total |-> Len(fs),
     by_severity |-> [s \in Severity |->
                        Cardinality({k \in DOMAIN fs : fs[k].severity = s})],
     scanned |-> Len(files), skipped |-> skipped]

Assemble ==
    /\ phase = "snippets" /\ at[1] > Len(findings)
    /\ phase' = "done"
    /\ LET sorted == SortedFindings
       IN  report' = [findings |-> sorted, cbom |-> build_cbom(sorted),
                      sbom |-> build_dependency_sbom, summary |-> Summary(sorted)]
    /\ UNCHANGED <<disk, edits, unlisted, files, skipped, job, bytes, found,
                   profile, findings, at, cache>>

Terminated == phase \in {"done", "failed"} /\ UNCHANGED vars

-----------------------------------------------------------------------------
Init ==
    /\ disk \in StartDisks
    /\ edits = 0
    /\ phase = "walk"
    /\ unlisted = Paths \ Ignored
    /\ files = << >>
    /\ skipped = 0
    /\ job = [w \in Workers |-> 0]
    /\ bytes = << >>
    /\ found = << >>
    /\ profile = 0
    /\ findings = << >>
    /\ at = <<1, 1>>
    /\ cache = [p \in Paths |-> NoCache]
    /\ report = NoReport

Walk == \/ \E p \in Paths : WalkVanished(p) \/ WalkSkip(p) \/ WalkKeep(p)
        \/ StartPool
Detect == (\E w \in Workers : Read(w) \/ Finish(w)) \/ Collect
Profile == ProfileFile \/ StartNormalize
Normalize == NormalizeHit \/ NormalizeSlot \/ StartSnippets
Attach == AttachMasked \/ AttachSource \/ Assemble

\* A step of the scan itself.
Step == Walk \/ Detect \/ Profile \/ Normalize \/ Attach

Next == Step \/ Edit \/ Abort \/ Terminated

\* The process runs and the pool's threads are scheduled; nobody has to edit
\* the repository and no error has to happen.
Spec == Init /\ [][Next]_vars /\ WF_vars(Step)
-----------------------------------------------------------------------------
Phase == {"walk", "detect", "profile", "normalize", "snippets", "done", "failed"}
Detection == Paths \X Hits
Window == [first : Nat, last : Nat, highlighted : Nat]
SourceSnippet ==
    [text : SnippetText, of : Contents \cup {Unread}, window : Window, lines : Seq(ShownLine)]
Finding ==
    [rule : RuleIds, file : Paths, line : Nat, column : Nat, match : Nat,
     kind : EvidenceKind, severity : Severity, advice : Nat,
     preview : {"evidence", "masked"},
     snippet : SourceSnippet]

TypeOK ==
    /\ disk \in [Paths -> Contents \cup {Absent}]
    /\ edits \in 0..MaxEdits
    /\ phase \in Phase
    /\ unlisted \subseteq Paths
    /\ files \in Seq(Paths)
    /\ skipped \in Nat
    /\ job \in [Workers -> 0..Len(files)]
    /\ bytes \in Seq(Contents \cup {Absent, Unread})
    /\ found \in Seq(Seq(Detection) \cup {Pending})
    /\ profile \in Nat
    /\ findings \in Seq(Finding)
    /\ at \in (Nat \ {0}) \X (Nat \ {0})
    /\ cache \in [Paths -> Contents \cup {Absent, NoCache}]

Collected == phase \in {"profile", "normalize", "snippets", "done"}

\* Whatever the order in which the threads took and finished the files, the
\* slot of a file holds what the detectors find in the bytes read for it, no
\* file has two slots, no two threads share one, and the collect waits for all.
DetectionsAsRead ==
    /\ \A i, j \in DOMAIN files : files[i] = files[j] => i = j
    /\ \A v, w \in Workers : job[v] = job[w] /\ job[v] # 0 => v = w
    /\ \A i \in DOMAIN found :
         found[i] # Pending => /\ bytes[i] # Unread
                               /\ found[i] = detect(files[i], bytes[i])
    /\ Collected => \A i \in DOMAIN files : found[i] # Pending

\* The detections the normalizing loop has passed.
Passed(i, k) == \/ phase \in {"snippets", "done"}
                \/ phase = "normalize" /\ (i < at[1] \/ (i = at[1] /\ k < at[2]))

HasFinding(d) == \E k \in DOMAIN findings : FindingKey(findings[k]) = DetectionKey(d)

\* Deduplication drops repetitions and nothing else: two findings differ in
\* their key, every detection of a known rule that was passed has a finding, and
\* every finding is one of the detections.
FindingsExact ==
    /\ \A k, l \in DOMAIN findings :
         FindingKey(findings[k]) = FindingKey(findings[l]) => k = l
    /\ \A i \in DOMAIN found : found[i] # Pending =>
         \A k \in DOMAIN found[i] :
            Passed(i, k) /\ found[i][k][2].rule \in RuleIds => HasFinding(found[i][k])
    /\ \A k \in DOMAIN findings : \E i \in DOMAIN found :
         /\ found[i] # Pending
         /\ \E l \in DOMAIN found[i] :
              DetectionKey(found[i][l]) = FindingKey(findings[k])

\* Places of detections, <<slot, hit>>, in the order of the collected Vec.
Sooner(d, e) == d[1] < e[1] \/ (d[1] = e[1] /\ d[2] < e[2])
At(e) == found[e[1]][e[2]]

\* The places of known rules whose detection repeats none of its file.
FirstPlaces ==
    {e \in UNION {{i} \X (DOMAIN found[i]) : i \in {i \in DOMAIN found : found[i] # Pending}} :
        /\ At(e)[2].rule \in RuleIds
        /\ \A j \in 1..(e[2] - 1) : DetectionKey(found[e[1]][j]) # DetectionKey(At(e))}

MadeOf(f, d) ==
    /\ FindingKey(f) = DetectionKey(d) /\ f.kind = d[2].kind
    /\ f.severity = adjusted_severity(RuleOf[d[2].rule], d[2].kind)

\* Of detections with one key it is the first that makes the finding and gives
\* it its severity, and the findings are in the order of these detections.
FirstsInOrder ==
    /\ \A k \in DOMAIN findings :
         \E e \in FirstPlaces : Passed(e[1], e[2]) /\ MadeOf(findings[k], At(e))
    /\ \A k, l \in DOMAIN findings : \A d, e \in FirstPlaces :
         k < l /\ MadeOf(findings[k], At(d)) /\ MadeOf(findings[l], At(e)) => Sooner(d, e)

\* The adjustment never lowers a finding below its rule's severity, so a
\* --fail-on gate set at a rule's severity sees every finding of that rule.
SeverityNeverLowered ==
    \A k \in DOMAIN findings : findings[k].severity >= RuleOf[findings[k].rule].severity

\* The snippets of a file all come from one version of it, however often it is
\* edited while they are attached.
OneVersionPerFile ==
    \A k, l \in DOMAIN findings :
        /\ findings[k].file = findings[l].file
        /\ findings[k].snippet.text = "lines" /\ findings[l].snippet.text = "lines"
        => findings[k].snippet.of = findings[l].snippet.of

\* The findings attach_source_snippets has passed.
Attached(k) == phase = "done" \/ (phase = "snippets" /\ k < at[1])

\* A file in which, when it is read for its snippets, some line names a private
\* key of a known kind: all its findings are masked, the preview of their
\* evidence and their source, even if the detectors read something else.  Of any
\* other file no snippet shows an END marker or an unbroken base64 secret.
KnownKeysMasked ==
    \A k \in DOMAIN findings : Attached(k) =>
        LET f == findings[k]
            content == cache[f.file]
            holdsKey == /\ ~Unavailable(content)
                        /\ \E i \in DOMAIN Lines[content] : Lines[content][i] \in Begins
        IN  /\ f.kind # "private_key" /\ holdsKey =>
                 f.preview = "masked" /\ f.snippet.lines = << >>
            /\ \A i \in DOMAIN f.snippet.lines :
                 f.snippet.lines[i] \notin Begins \cup Ends \cup {"secret"}

\* docs/architecture.md: "private key content is never exported".  The code knows
\* three kinds of private key and shows the lines of any other kind.
PrivateKeysNeverEmitted ==
    \A k \in DOMAIN findings : \A i \in DOMAIN findings[k].snippet.lines :
        findings[k].snippet.lines[i] \notin
            Begins \cup Ends \cup {"foreign", "secret", "body"}

\* A snippet lies within the content it shows and highlights the line of the
\* finding, or the last line when the file has been cut short of it.
SnippetOnTarget ==
    \A k \in DOMAIN findings :
        LET f == findings[k]
            w == f.snippet.window
            n == Len(Lines[f.snippet.of])
        IN  f.snippet.text = "lines" =>
              /\ 1 <= w.first /\ w.first <= w.highlighted
              /\ w.highlighted <= w.last /\ w.last <= n
              /\ w.highlighted = IF f.line <= n THEN f.line ELSE n

\* What the safety properties above rest on, and what makes them inductive.
PoolInv ==
    /\ phase # "detect" => \A w \in Workers : job[w] = 0
    /\ \A w \in Workers :
         job[w] # 0 => bytes[job[w]] # Unread /\ found[job[w]] = Pending
    /\ phase \in {"walk", "failed"} => bytes = << >> /\ found = << >>
    /\ phase \notin {"walk", "failed"} =>
         Len(bytes) = Len(files) /\ Len(found) = Len(files)
    /\ \A i \in DOMAIN files : files[i] \notin unlisted
    /\ phase \notin {"normalize", "snippets", "done"} => findings = << >>

SnippetInv ==
    \A k \in DOMAIN findings :
        LET f == findings[k]
            content == cache[f.file]
        IN  IF ~Attached(k) THEN f.snippet = Without
            ELSE IF f.kind = "private_key" THEN f.snippet = Mask("masked-key", f.line)
            ELSE /\ content # NoCache
                 /\ f.snippet = snippet_source(content, f.line)
                 /\ f.snippet.text = "masked-file" => f.preview = "masked"

\* What was read of a file, what was found in it, what is cached of it and the
\* identity of a finding are never rewritten.
WriteOnce ==
    [][/\ \A i \in DOMAIN bytes : bytes[i] # Unread => bytes'[i] = bytes[i]
       /\ \A i \in DOMAIN found : found[i] # Pending => found'[i] = found[i]
       /\ \A p \in Paths : cache[p] # NoCache => cache'[p] = cache[p]
       /\ \A k \in DOMAIN findings :
            /\ FindingKey(findings'[k]) = FindingKey(findings[k])
            /\ findings'[k].severity = findings[k].severity]_vars

\* The scan ends, whatever is edited meanwhile.
Termination == <>(phase \in {"done", "failed"})
=============================================================================
