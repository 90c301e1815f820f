------------------------------ MODULE Reports ------------------------------
(***************************************************************************)
(* The contents of the reports (pqc_scan_report/src/lib.rs, grouping.rs,    *)
(* html_report.rs, markdown_report.rs, sarif_report.rs): the findings of a  *)
(* scan are sanitized and grouped by rule, the groups are laid out as       *)
(* tables, and a reader of the HTML report opens and closes the snippets.   *)
(*                                                                         *)
(* Rules and files are numbers in the order of their names.  A text is a    *)
(* model of what the writers tell apart: "key" mentions a private key,      *)
(* "secret" is a long base64 word, "pipe" holds a |, "break" a newline and    *)
(* "angle" a < or another character that HTML wants escaped.                *)
(***************************************************************************)
EXTENDS Risk, Listing

CONSTANTS
    Results,        \* the sequences of findings of a scan
    FileText,       \* the text of each file's path
    ActionIds,
    DomId,          \* dom_id of each rule: several rules may share one
    Samples,        \* evidence of a group, and snippets of a file: 3 in the code
    HtmlLines, MarkdownLines,   \* lines listed of a file: 16 and 20
    NextActions     \* actions in a SARIF result: 4

Texts == {"", "-", "rsa", "pipe", "break", "angle", "key", "secret",
          "masked-key", "masked-secret", "escaped", "joined"}

NoSnippet == << >>

Rules == DOMAIN DomId
Files == DOMAIN FileText

Finding == [rule : Rules, severity : Severity, file : Files, line : Nat, column : Nat,
            match : Texts, preview : Texts, snippet : Seq(Texts), actions : Seq(ActionIds)]

\* As scan_repository sorts them: the most severe first, then by file.
ScanOrder(s) ==
    \A i, j \in DOMAIN s : i < j =>
        \/ s[i].severity > s[j].severity
        \/ s[i].severity = s[j].severity /\ s[i].file <= s[j].file

ASSUME ReportsAssumption ==
    /\ Rules \subseteq Nat /\ Files \subseteq Nat /\ \A f \in Files : FileText[f] \in Texts
    /\ \A s \in Results : s \in Seq(Finding) /\ ScanOrder(s)
    /\ {Samples, HtmlLines, MarkdownLines, NextActions} \subseteq Nat \ {0}

VARIABLES
    findings,
    cbom,
    phase,      \* "sanitize", "bucket", "group", "sarif", "read" or "done"
    at,         \* the finding the loop of the phase is at
    buckets,    \* the findings of each rule
    groups,
    levels,     \* default level of each SARIF rule
    results,    \* SARIF results
    html,       \* the articles of the HTML report
    markdown,   \* the sections of the Markdown report, and below them
    cbom_rows,  \* its table of the CBOM
    opened      \* the panels of the HTML report that are not hidden

written == <<levels, results, html, markdown, cbom_rows>>
vars == <<findings, cbom, phase, at, buckets, groups, written, opened>>
-----------------------------------------------------------------------------
sanitize_text_fragment(t) ==
    CASE t = "key" -> "masked-key" [] t = "secret" -> "masked-secret" [] OTHER -> t

SanitizedSnippet_AsRead(lines) == lines
SanitizedSnippet(lines) == [i \in DOMAIN lines |-> sanitize_text_fragment(lines[i])]

sanitize_scan_result ==
    /\ phase = "sanitize" /\ at <= Len(findings)
    /\ at' = at + 1
    /\ findings' = [findings EXCEPT
           ![at].match = sanitize_text_fragment(@),
           ![at].preview = sanitize_text_fragment(@),
           ![at].snippet = SanitizedSnippet(@)]
    /\ UNCHANGED <<cbom, phase, buckets, groups, written, opened>>

EndOf(this, next) ==
    /\ phase = this /\ at > Len(findings)
    /\ phase' = next /\ at' = 1

Sanitized ==
    /\ EndOf("sanitize", "bucket")
    /\ UNCHANGED <<findings, cbom, buckets, groups, written, opened>>

BucketFinding ==
    /\ phase = "bucket" /\ at <= Len(findings)
    /\ at' = at + 1
    /\ buckets' = [buckets EXCEPT ![findings[at].rule] = Append(@, findings[at])]
    /\ UNCHANGED <<findings, cbom, phase, groups, written, opened>>

Bucketed ==
    /\ EndOf("bucket", "group")
    /\ UNCHANGED <<findings, cbom, buckets, groups, written, opened>>
-----------------------------------------------------------------------------
\* A bucket by place; findings at one place keep their order.
EarlierPlace(f, g) ==
    \/ f.file < g.file
    \/ f.file = g.file /\ f.line < g.line
    \/ f.file = g.file /\ f.line = g.line /\ f.column < g.column
ByPlace(bucket) == StableSort(bucket, EarlierPlace)

take(s, n) == SubSeq(s, 1, IF Len(s) < n THEN Len(s) ELSE n)

\* Distinct evidence that is not empty, in order.
Evidence(s) ==
    Picked([i \in DOMAIN s |-> s[i].match],
            {i \in DOMAIN s : s[i].match # "" /\ \A j \in 1..(i - 1) : s[j].match # s[i].match})

\* Lines that are known, in order.
Sorted(S) == Evaluated(Listed(S, Ascending(S)))
KnownLines_WithZero(s) == Sorted({s[i].line : i \in DOMAIN s})
KnownLines(s) == Sorted({s[i].line : i \in DOMAIN s} \ {0})

FileOccurrence(s) ==
    [file |-> s[1].file, hits |-> Len(s), lines |-> KnownLines(s),
     sample_evidence |-> Evidence(s),
     sample_findings |-> take(Picked(s, {i \in DOMAIN s : s[i].snippet # NoSnippet}), Samples)]

\* The findings of one file of a bucket are already in the order the code
\* sorts them again.
FileOccurrences(s) ==
    LET names == Sorted({s[i].file : i \in DOMAIN s})
    IN  [k \in DOMAIN names |-> FileOccurrence(Picked(s, {i \in DOMAIN s : s[i].file = names[k]}))]

\* The worst of the severities in S.
IsWorst(v, S) == v \in S /\ \A w \in S : v >= w

worst_severity_OfTheFirst(s) == s[1].severity
worst_severity(s) == CHOOSE v \in Severity : IsWorst(v, {s[i].severity : i \in DOMAIN s})

AllActions(s) == Flattened([i \in DOMAIN s |-> s[i].actions])
Actions_Repeated(s) == AllActions(s)
Actions(s) == KeepFirst(AllActions(s), LAMBDA a : a)

GroupedFinding(s) ==
    [rule |-> s[1].rule, severity |-> worst_severity(s), total_hits |-> Len(s),
     files |-> FileOccurrences(s), sample_evidence |-> take(Evidence(s), Samples),
     actions |-> Actions(s)]

\* Buckets are met in the order of the rules.
GroupBucket(rule) ==
    /\ phase = "group"
    /\ buckets[rule] # << >>
    /\ \A k \in DOMAIN groups : groups[k].rule < rule
    /\ \A q \in Rules : buckets[q] # << >> /\ q < rule
         => \E k \in DOMAIN groups : groups[k].rule = q
    /\ groups' = Append(groups, GroupedFinding(ByPlace(buckets[rule])))
    /\ UNCHANGED <<findings, cbom, phase, at, buckets, written, opened>>

\* The worst first, then the most frequent, then by rule.
Before_ByRule(g, h) == g.rule < h.rule
Before(g, h) ==
    \/ g.severity > h.severity
    \/ g.severity = h.severity /\ g.total_hits > h.total_hits
    \/ g.severity = h.severity /\ g.total_hits = h.total_hits /\ g.rule < h.rule

SortGroups ==
    /\ phase = "group"
    /\ \A r \in Rules : buckets[r] # << >> => \E k \in DOMAIN groups : groups[k].rule = r
    /\ phase' = "sarif" /\ at' = 1
    /\ groups' = StableSort(groups, Before)
    /\ UNCHANGED <<findings, cbom, buckets, written, opened>>
-----------------------------------------------------------------------------
\* summarize_lines: some of the lines, and how many more there are.
summarize_lines(lines, max_lines) ==
    IF lines = << >> THEN [shown |-> << >>, more |-> 0, unknown |-> TRUE]
    ELSE [shown |-> take(lines, max_lines), unknown |-> FALSE,
          more |-> IF Len(lines) > max_lines THEN Len(lines) - max_lines ELSE 0]

SampleOf(occurrence) ==
    IF occurrence.sample_evidence = << >> THEN "-" ELSE occurrence.sample_evidence[1]

\* write_html_report: an article for each group.  Every text is escaped; under
\* the row of a file with snippets is a panel of them, hidden at first.
escape_html(t) == IF t = "angle" THEN "escaped" ELSE t

HtmlRow(o) ==
    [file |-> o.file, path |-> escape_html(FileText[o.file]), hits |-> o.hits,
     lines |-> summarize_lines(o.lines, HtmlLines), sample |-> escape_html(SampleOf(o)),
     snippets |-> [i \in DOMAIN o.sample_findings |->
                     [l \in DOMAIN o.sample_findings[i].snippet |->
                        escape_html(o.sample_findings[i].snippet[l])]]]

HtmlArticle(g) ==
    [rule |-> g.rule, severity |-> g.severity, hits |-> g.total_hits, actions |-> g.actions,
     evidence |-> [i \in DOMAIN take(g.sample_evidence, Samples) |->
                     escape_html(g.sample_evidence[i])],
     rows |-> [i \in DOMAIN g.files |-> HtmlRow(g.files[i])]]

\* write_markdown_report: a section for each group, the cells of its table
\* escaped, and after them the CBOM.  A break is a newline; the carriage return
\* before it, which the code leaves, is no text of its own.
escape_md_table_cell(t) == CASE t = "pipe" -> "escaped" [] t = "break" -> "joined" [] OTHER -> t

MarkdownRow(o) ==
    [file |-> o.file, path |-> escape_md_table_cell(FileText[o.file]), hits |-> o.hits,
     lines |-> summarize_lines(o.lines, MarkdownLines),
     sample |-> escape_md_table_cell(SampleOf(o))]

MarkdownSection(g) ==
    [rule |-> g.rule, severity |-> g.severity, hits |-> g.total_hits, actions |-> g.actions,
     evidence |-> take(g.sample_evidence, 1),
     rows |-> [i \in DOMAIN g.files |-> MarkdownRow(g.files[i])]]

CbomRow(item) == <<FileText[item.file], item.match>>

WriteHtmlAndMarkdown ==
    /\ phase = "sarif" /\ html = << >>
    /\ html' = [k \in DOMAIN groups |-> HtmlArticle(groups[k])]
    /\ markdown' = [k \in DOMAIN groups |-> MarkdownSection(groups[k])]
    /\ cbom_rows' = [k \in DOMAIN cbom |-> CbomRow(cbom[k])]
    /\ UNCHANGED <<findings, cbom, phase, at, buckets, groups, levels, results, opened>>
-----------------------------------------------------------------------------
\* The rows of snippets, in the document that is read.
Panels == UNION {{<<k, i>> : i \in {j \in DOMAIN html[k].rows : html[k].rows[j].snippets # << >>}}
                    : k \in DOMAIN html}

panel_id_OfTheGroup(p) == <<DomId[html[p[1]].rule], 0>>
panel_id(p) == <<DomId[html[p[1]].rule], p[2]>>

\* The first panel with that id, in the order of the document.
getElementById(id) ==
    CHOOSE p \in Panels :
        /\ panel_id(p) = id
        /\ \A q \in Panels : panel_id(q) = id => p[1] < q[1] \/ (p[1] = q[1] /\ p[2] <= q[2])

\* A click on the button of a file with snippets.
ClickFile(p) ==
    /\ phase = "read" /\ p \in Panels
    /\ LET panel == getElementById(panel_id(p))
       IN  opened' = IF panel \in opened THEN opened \ {panel} ELSE opened \cup {panel}
    /\ UNCHANGED <<findings, cbom, phase, at, buckets, groups, written>>
-----------------------------------------------------------------------------
severity_to_level(s) ==
    CASE s \in {Critical, High} -> "error" [] s = Medium -> "warning" [] OTHER -> "note"

\* The first finding of a rule decides.
DefaultLevel(finding) ==
    [rule \in DOMAIN levels \cup {finding.rule} |->
        IF rule \in DOMAIN levels THEN levels[rule] ELSE severity_to_level(finding.severity)]

to_result(f) ==
    [rule |-> f.rule, level |-> severity_to_level(f.severity), file |-> f.file,
     start_line |-> f.line, start_column |-> f.column, next |-> take(f.actions, NextActions)]

CollectRuleAndResult ==
    /\ phase = "sarif" /\ html # << >> /\ at <= Len(findings)
    /\ at' = at + 1
    /\ levels' = DefaultLevel(findings[at])
    /\ results' = Append(results, to_result(findings[at]))
    /\ UNCHANGED <<findings, cbom, phase, buckets, groups, html, markdown, cbom_rows, opened>>

Written ==
    /\ EndOf("sarif", "read")
    /\ UNCHANGED <<findings, cbom, buckets, groups, written, opened>>

Close ==
    /\ phase = "read" /\ phase' = "done"
    /\ UNCHANGED <<findings, cbom, at, buckets, groups, written, opened>>

Terminated == phase = "done" /\ UNCHANGED vars

\* build_cbom has run over the findings before they are sanitized.
Cbom(s) == KeepFirst([i \in DOMAIN s |-> [rule |-> s[i].rule, file |-> s[i].file,
                                          line |-> s[i].line, match |-> s[i].match]],
                     LAMBDA entry : entry)

Init ==
    /\ findings \in Results
    /\ cbom = Cbom(findings)
    /\ phase = "sanitize" /\ at = 1
    /\ buckets = [r \in Rules |-> << >>] /\ groups = << >>
    /\ levels = << >> /\ results = << >> /\ html = << >> /\ markdown = << >> /\ cbom_rows = << >>
    /\ opened = {}

Next ==
    \/ sanitize_scan_result \/ Sanitized
    \/ BucketFinding \/ Bucketed
    \/ \E r \in Rules : GroupBucket(r)
    \/ SortGroups
    \/ WriteHtmlAndMarkdown \/ CollectRuleAndResult \/ Written
    \/ \E p \in Panels : ClickFile(p)
    \/ Close
    \/ Terminated

Spec == Init /\ [][Next]_vars
-----------------------------------------------------------------------------
Read == phase \in {"read", "done"}

TypeOK ==
    /\ phase \in {"sanitize", "bucket", "group", "sarif", "read", "done"}
    /\ at \in 1..(Len(findings) + 1)
    /\ \A i \in DOMAIN findings : findings[i].match \in Texts /\ findings[i].severity \in Severity
    /\ \A k \in DOMAIN groups : \A i \in DOMAIN groups[k].files :
         /\ groups[k].files[i].hits \in 1..groups[k].total_hits
         /\ \A l \in DOMAIN groups[k].files[i].lines : groups[k].files[i].lines[l] \in Nat \ {0}
    /\ \A r \in DOMAIN levels : r \in Rules /\ levels[r] \in {"error", "warning", "note"}
    /\ opened \subseteq Panels

\* The findings of a rule, by the whole list.
Of(rule) == {i \in DOMAIN findings : findings[i].rule = rule}
In(rule, file) == {i \in Of(rule) : findings[i].file = file}

\* Both documents account for every finding once: a rule has one group and in
\* it a file one row, whose hits are the findings of the rule in the file and
\* whose lines, shown or counted as more, are those known of them.
\* A reader finds the worst group first, of equally bad ones the largest, and
\* below them in Markdown a row of the CBOM for what each finding is about.
FindingsAccounted ==
    Read =>
    /\ \A i \in DOMAIN findings : \E k \in DOMAIN cbom_rows :
         /\ cbom[k].rule = findings[i].rule /\ cbom[k].line = findings[i].line
         /\ cbom_rows[k][1] = FileText[findings[i].file]
         /\ sanitize_text_fragment(cbom_rows[k][2]) = findings[i].match
    /\ \A document \in {html, markdown} :
        /\ \A r \in Rules : Cardinality({k \in DOMAIN document : document[k].rule = r})
                              = IF Of(r) = {} THEN 0 ELSE 1
        /\ \A k \in DOMAIN document :
             LET g == document[k]
             IN  /\ g.hits = Cardinality(Of(g.rule))
                 /\ \A i \in Of(g.rule) :
                      Cardinality({j \in DOMAIN g.rows : g.rows[j].file = findings[i].file}) = 1
                 /\ \A j \in DOMAIN g.rows :
                      LET known == {findings[i].line : i \in In(g.rule, g.rows[j].file)} \ {0}
                          lines == g.rows[j].lines
                      IN  /\ g.rows[j].hits = Cardinality(In(g.rule, g.rows[j].file))
                          /\ Len(lines.shown) + lines.more = Cardinality(known)
                          /\ \A l \in DOMAIN lines.shown : lines.shown[l] \in known
                          /\ lines.unknown <=> known = {}
        /\ \A j, k \in DOMAIN document : j < k =>
             \/ document[j].severity > document[k].severity
             \/ /\ document[j].severity = document[k].severity
                /\ document[j].hits >= document[k].hits

\* The formats agree on how bad a rule is, though HTML and Markdown take the
\* worst of its findings and SARIF the first of the list: a rule's default level
\* is that of its group, and no result of the rule is worse.
SeverityAgreed ==
    Read =>
        \A k \in DOMAIN html :
            /\ markdown[k].severity = html[k].severity
            /\ IsWorst(html[k].severity, {findings[i].severity : i \in Of(html[k].rule)})
            /\ levels[html[k].rule] = severity_to_level(html[k].severity)
            /\ \A i \in DOMAIN results : results[i].rule = html[k].rule /\ results[i].level = "error"
                  => levels[html[k].rule] = "error"

\* What any finding of a rule advises, its group advises, once.
ActionsOnce ==
    Read =>
        \A document \in {html, markdown} : \A k \in DOMAIN document :
            /\ {document[k].actions[i] : i \in DOMAIN document[k].actions}
                 = UNION {{findings[i].actions[a] : a \in DOMAIN findings[i].actions}
                            : i \in Of(document[k].rule)}
            /\ \A i, j \in DOMAIN document[k].actions :
                 document[k].actions[i] = document[k].actions[j] => i = j

\* What the articles and sections show of the contents of the sources.
HtmlTexts(article) ==
    {article.evidence[i] : i \in DOMAIN article.evidence}
    \cup UNION {{article.rows[j].sample}
                 \cup UNION {{article.rows[j].snippets[i][l] : l \in DOMAIN article.rows[j].snippets[i]}
                               : i \in DOMAIN article.rows[j].snippets}
               : j \in DOMAIN article.rows}
MarkdownTexts(section) ==
    {section.evidence[i] : i \in DOMAIN section.evidence}
    \cup {section.rows[j].sample : j \in DOMAIN section.rows}

\* No article or section shows a key or a secret, neither as evidence nor in a
\* snippet; no text of the sources and no path can close an element of the HTML,
\* and none adds a cell to the table of a section.
DocumentsClean ==
    /\ \A k \in DOMAIN html :
         /\ HtmlTexts(html[k]) \cap {"key", "secret", "angle"} = {}
         /\ \A j \in DOMAIN html[k].rows : html[k].rows[j].path # "angle"
    /\ \A k \in DOMAIN markdown :
         /\ MarkdownTexts(markdown[k]) \cap {"key", "secret"} = {}
         /\ \A j \in DOMAIN markdown[k].rows :
              {markdown[k].rows[j].path, markdown[k].rows[j].sample} \cap {"pipe", "break"} = {}

\* A click on a file shows or hides the snippets of that file in that group,
\* and of no other, unless the ids of two rules become one in the document.
ClickShowsItsFile ==
    [][\A p \in Panels :
         /\ ClickFile(p)
         /\ \A q \in DOMAIN html : q # p[1] => DomId[html[q].rule] # DomId[html[p[1]].rule]
         => opened' = (opened \ {p}) \cup ({p} \ opened)]_vars
=============================================================================
