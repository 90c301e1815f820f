---------------------------- MODULE Scan_proofs ----------------------------
(***************************************************************************)
(* Theorems about Scan, for any repository, rules, detectors and number of  *)
(* threads and edits, and about the pattern detectors it runs on a file,    *)
(* for texts of any length, any rules and any limit.  The two share no      *)
(* state: the definitions of PatternDetectors, which this module extends    *)
(* next to those of Scan, have names of their own.                          *)
(***************************************************************************)
EXTENDS ScanRefinement, PatternDetectors, Operators_proofs, SequenceTheorems

\* The adjusted severity is a severity, and never below the rule's.
LEMMA AdjustedSeverity ==
    ASSUME NEW r \in Rule, NEW kind
    PROVE  /\ adjusted_severity(r, kind) \in Severity
           /\ adjusted_severity(r, kind) >= r.severity
BY DEF adjusted_severity, bump_severity, Rule, Severity, Info, Critical

\* The window build_source_snippet cuts lies within the file and contains the
\* highlighted line, which is the target or, in a shorter file, the last line.
LEMMA WindowWithinFile ==
    ASSUME NEW n \in Nat, NEW target \in Nat, NEW before \in Nat, NEW after \in Nat
    PROVE  LET w == build_source_snippet(n, target, before, after)
           IN  /\ w \in Window
               /\ w # NoSnippet =>
                    /\ 1 <= w.first /\ w.first <= w.highlighted
                    /\ w.highlighted <= w.last /\ w.last <= n
                    /\ w.highlighted = IF target <= n THEN target ELSE n
BY DEF build_source_snippet, NoSnippet, Window

\* What the detectors find in a file that was read is a sequence of detections.
LEMMA DetectType ==
    ASSUME NEW p \in Paths, NEW c \in Contents \cup {Absent}
    PROVE  detect(p, c) \in Seq(Detection)
<1>1. CASE Readable(c)
  <2>1. Detections[c] \in Seq(Hits)
    BY <1>1, HitAssumption DEF Readable
  <2>2. QED
    BY <1>1, <2>1 DEF detect, Detection
<1>2. CASE ~Readable(c)
  BY <1>2 DEF detect, Detection
<1>3. QED
  BY <1>1, <1>2

\* Sanitizing leaves no marker and no secret of a line.
LEMMA Sanitized ==
    ASSUME NEW line \in ShownLine
    PROVE  /\ sanitize_source_line(line) \in ShownLine
           /\ sanitize_source_line(line) \notin Begins \cup Ends \cup {"secret"}
BY DEF sanitize_source_line, ShownLine, LineClass, Begins, Ends

\* The lines of a window within a text are sanitized lines.
LEMMA WindowIsSanitized ==
    ASSUME NEW lines \in Seq(LineClass), NEW w \in Window, 1 <= w.first, w.last <= Len(lines)
    PROVE  /\ WindowLines(lines, w) \in Seq(ShownLine)
           /\ \A i \in DOMAIN WindowLines(lines, w) :
                WindowLines(lines, w)[i] \notin Begins \cup Ends \cup {"secret"}
<1>1. /\ w.first \in Nat /\ w.last \in Nat /\ Len(lines) \in Nat
      /\ DOMAIN lines = 1..Len(lines)
  BY DEF Window
<1>2. PICK blocks : blocks = mask_private_key_blocks(lines)
  OBVIOUS
<1>3. ASSUME NEW i \in DOMAIN lines PROVE blocks[i] \in ShownLine
  BY <1>2 DEF mask_private_key_blocks, ShownLine
<1>4. PICK shown : shown = TextLines(lines)
  OBVIOUS
<1>5. ASSUME NEW i \in DOMAIN lines PROVE shown[i] \in ShownLine
  BY <1>2, <1>3, <1>4, Sanitized DEF TextLines
<1>6. PICK n \in Int : n = w.last - w.first + 1
  BY <1>1
<1>7. WindowLines(lines, w) = [i \in 1..n |-> sanitize_source_line(shown[w.first + i - 1])]
  BY <1>4, <1>6 DEF WindowLines
<1>8. ASSUME NEW i \in 1..n
      PROVE  /\ sanitize_source_line(shown[w.first + i - 1]) \in ShownLine
             /\ sanitize_source_line(shown[w.first + i - 1]) \notin Begins \cup Ends \cup {"secret"}
  <2>1. w.first + i - 1 \in DOMAIN lines
    BY <1>1, <1>6
  <2>2. QED
    BY <1>5, <2>1, Sanitized
<1>9. CASE n \in Nat
  BY <1>7, <1>8, <1>9
<1>10. CASE n \notin Nat
  <2>1. 1..n = 1..0
    BY <1>6, <1>10
  <2>2. QED
    BY <1>7, <1>8, <2>1
<1>11. QED
  BY <1>9, <1>10

\* Every snippet snippet_source builds is one a finding may hold; none of its
\* lines is a marker or a secret.
LEMMA SnippetType ==
    ASSUME NEW c \in Contents \cup {Absent}, NEW line \in Nat
    PROVE  /\ snippet_source(c, line) \in SourceSnippet
           /\ \A i \in DOMAIN snippet_source(c, line).lines :
                snippet_source(c, line).lines[i] \notin Begins \cup Ends \cup {"secret"}
<1>1. CASE ~Unavailable(c) /\ ~contains_private_key_marker(Lines[c])
  <2>1. c \in Contents /\ Lines[c] \in Seq(LineClass) /\ Len(Lines[c]) \in Nat
    BY <1>1, ContentAssumption DEF Unavailable, Readable
  <2>2. PICK w : w = build_source_snippet(Len(Lines[c]), line, Before, After)
    OBVIOUS
  <2>3. /\ w \in Window
        /\ w # NoSnippet => 1 <= w.first /\ w.last <= Len(Lines[c])
    BY <2>1, <2>2, WindowWithinFile DEF Before, After
  <2>4. snippet_source(c, line) = IF w = NoSnippet THEN Without ELSE Excerpt(c, w)
    BY <1>1, <2>2 DEF snippet_source
  <2>5. CASE w = NoSnippet
    BY <2>4, <2>5 DEF Without, NoSnippet, SnippetText, SourceSnippet, Window
  <2>6. CASE w # NoSnippet
    <3>1. PICK shown : shown = WindowLines(Lines[c], w)
      OBVIOUS
    <3>2. /\ shown \in Seq(ShownLine)
          /\ \A i \in DOMAIN shown : shown[i] \notin Begins \cup Ends \cup {"secret"}
      BY <2>1, <2>3, <2>6, <3>1, WindowIsSanitized
    <3>3. snippet_source(c, line)
            = [text |-> "lines", of |-> c, window |-> w, lines |-> shown]
      BY <2>4, <2>6, <3>1 DEF Excerpt
    <3>4. QED
      BY <2>1, <2>3, <3>2, <3>3 DEF SnippetText, SourceSnippet
  <2>7. QED
    BY <2>5, <2>6
<1>2. CASE Unavailable(c)
  BY <1>2 DEF snippet_source, Without, NoSnippet, SnippetText, SourceSnippet, Window
<1>3. CASE ~Unavailable(c) /\ contains_private_key_marker(Lines[c])
  BY <1>3 DEF snippet_source, Mask, OneLine, SnippetText, SourceSnippet, Window
<1>4. QED
  BY <1>1, <1>2, <1>3

-----------------------------------------------------------------------------
IInv == TypeOK /\ PoolInv /\ DetectionsAsRead

\* The inductive invariant holds before the first directory entry is read.
LEMMA InitIInv == Init => IInv
<1> SUFFICES ASSUME Init PROVE IInv
  OBVIOUS
<1>1. TypeOK
  BY DiskAssumption DEF Init, TypeOK, Phase
<1>2. PoolInv /\ DetectionsAsRead
  BY DEF Init, PoolInv, DetectionsAsRead, Collected
<1>3. QED
  BY <1>1, <1>2 DEF IInv

\* The steps that leave the detections alone, and those that make them.
LEMMA WalkStep ==
    ASSUME IInv, NEW p \in Paths, WalkVanished(p) \/ WalkSkip(p) \/ WalkKeep(p)
    PROVE  IInv'
<1> USE DEF IInv
<1>1. CASE WalkVanished(p) \/ WalkSkip(p)
  BY <1>1 DEF WalkVanished, WalkSkip, TypeOK, PoolInv, DetectionsAsRead, Collected
<1>2. CASE WalkKeep(p)
  <2>1. /\ files' = Append(files, p) /\ p \in unlisted /\ unlisted' = unlisted \ {p}
        /\ phase = "walk" /\ bytes = << >> /\ found = << >>
        /\ \A w \in Workers : job[w] = 0
    BY <1>2 DEF WalkKeep, PoolInv
  <2>2. /\ files' \in Seq(Paths) /\ Len(files') = Len(files) + 1
        /\ \A i \in 1..Len(files) : files'[i] = files[i]
        /\ files'[Len(files) + 1] = p
    BY <2>1 DEF TypeOK
  <2>3. TypeOK'
    BY <1>2, <2>1, <2>2 DEF WalkKeep, TypeOK
  <2>4. PoolInv'
    BY <1>2, <2>1, <2>2 DEF WalkKeep, PoolInv, TypeOK
  <2>5. DetectionsAsRead'
    BY <1>2, <2>1, <2>2 DEF WalkKeep, PoolInv, TypeOK, DetectionsAsRead, Collected
  <2>6. QED
    BY <2>3, <2>4, <2>5
<1>3. QED
  BY <1>1, <1>2

\* Claiming a file, finishing it and collecting keep it: a worker writes the
\* slot of the file it holds, and nobody else holds that file.
LEMMA PoolStep ==
    ASSUME IInv,
           StartPool \/ Collect \/ \E w \in Workers : Read(w) \/ Finish(w)
    PROVE  IInv'
<1> USE DEF IInv
<1>1. CASE StartPool
  BY <1>1, ContentAssumption, HitAssumption
     DEF StartPool, TypeOK, PoolInv, DetectionsAsRead, Collected, Phase
<1>2. CASE Collect
  <2>1. /\ \A i \in 1..Len(files) : found[i] # Pending
        /\ \A w \in Workers : job[w] \in 0..Len(files)
    BY <1>2 DEF Collect, TypeOK
  <2>2. \A w \in Workers : job[w] = 0
    BY <2>1 DEF PoolInv
  <2>3. TypeOK'
    BY <1>2 DEF Collect, TypeOK, Phase
  <2>4. PoolInv'
    BY <1>2, <2>2 DEF Collect, PoolInv
  <2>5. DetectionsAsRead'
    BY <1>2, <2>1 DEF Collect, DetectionsAsRead, Collected, TypeOK
  <2>6. QED
    BY <2>3, <2>4, <2>5
<1>3. ASSUME NEW w \in Workers, Read(w) PROVE IInv'
  <2>1. PICK i \in DOMAIN files :
          /\ bytes[i] = Unread
          /\ job' = [job EXCEPT ![w] = i]
          /\ bytes' = [bytes EXCEPT ![i] = disk[files[i]]]
    BY <1>3 DEF Read, Unclaimed
  <2>2. /\ files[i] \in Paths /\ disk[files[i]] \in Contents \cup {Absent}
        /\ disk[files[i]] # Unread /\ i \in DOMAIN bytes /\ i \in DOMAIN found
        /\ phase = "detect" /\ job[w] = 0
    BY <1>3, ContentAssumption DEF Read, TypeOK, PoolInv
  <2>3. found[i] = Pending
    BY <2>1, <2>2 DEF DetectionsAsRead
  <2>4. TypeOK'
    BY <1>3, <2>1, <2>2 DEF Read, TypeOK
  <2>5. PoolInv'
    BY <1>3, <2>1, <2>2, <2>3 DEF Read, TypeOK, PoolInv
  <2>6. DetectionsAsRead'
    BY <1>3, <2>1, <2>2, <2>3 DEF Read, TypeOK, PoolInv, DetectionsAsRead, Collected
  <2>7. QED
    BY <2>4, <2>5, <2>6
<1>4. ASSUME NEW w \in Workers, Finish(w) PROVE IInv'
  <2> DEFINE i == job[w]
  <2>1. /\ i \in DOMAIN files /\ i \in DOMAIN bytes /\ i \in DOMAIN found
        /\ phase = "detect" /\ i # 0 /\ bytes[i] # Unread /\ found[i] = Pending
        /\ found' = [found EXCEPT ![i] = detect(files[i], bytes[i])]
        /\ job' = [job EXCEPT ![w] = 0]
    BY <1>4 DEF Finish, Slot, TypeOK, PoolInv
  <2>2. files[i] \in Paths /\ bytes[i] \in Contents \cup {Absent}
    BY <2>1 DEF TypeOK
  <2>3. detect(files[i], bytes[i]) \in Seq(Detection)
    BY <2>2, DetectType
  <2>4. TypeOK'
    <3>1. found' \in Seq(Seq(Detection) \cup {Pending})
      BY <2>1, <2>3, ExceptSeq DEF TypeOK
    <3>2. job' \in [Workers -> 0..Len(files)]
      BY <2>1 DEF TypeOK
    <3>3. QED
      BY <1>4, <3>1, <3>2 DEF Finish, TypeOK
  <2>5. PoolInv'
    BY <1>4, <2>1 DEF Finish, TypeOK, PoolInv, DetectionsAsRead
  <2>6. DetectionsAsRead'
    BY <1>4, <2>1 DEF Finish, TypeOK, PoolInv, DetectionsAsRead, Collected
  <2>7. QED
    BY <2>4, <2>5, <2>6
<1>5. QED
  BY <1>1, <1>2, <1>3, <1>4

\* Reading the files for the runtime profile touches no detection.
LEMMA ProfileStep ==
    ASSUME IInv, ProfileFile \/ StartNormalize
    PROVE  IInv'
<1> USE DEF IInv
<1>1. CASE ProfileFile
  <2>1. /\ phase = "profile" /\ at[1] \in Nat \ {0} /\ at[1] <= Len(files)
        /\ at' = <<at[1] + 1, 1>>
    BY <1>1 DEF ProfileFile, NextFile, TypeOK
  <2>2. files[at[1]] \in Paths /\ disk[files[at[1]]] \in Contents \cup {Absent}
    BY <2>1 DEF TypeOK
  <2>3. profile' \in Nat
    BY <1>1, <2>2, ContentAssumption DEF ProfileFile, Readable, TypeOK
  <2>4. TypeOK'
    BY <1>1, <2>1, <2>3 DEF ProfileFile, TypeOK
  <2>5. QED
    BY <1>1, <2>4 DEF ProfileFile, PoolInv, DetectionsAsRead, Collected
<1>2. CASE StartNormalize
  BY <1>2 DEF StartNormalize, TypeOK, PoolInv, DetectionsAsRead, Collected, Phase
<1>3. QED
  BY <1>1, <1>2

\* The detection the normalizing loop is at.
LEMMA CurrentDetection ==
    ASSUME IInv, phase = "normalize", at[1] <= Len(files)
    PROVE  /\ at[1] \in DOMAIN found /\ found[at[1]] # Pending
           /\ found[at[1]] \in Seq(Detection)
           /\ at[2] <= Len(found[at[1]]) => found[at[1]][at[2]] \in Detection
<1>1. at[1] \in 1..Len(files) /\ at[2] \in Nat \ {0} /\ Len(found) = Len(files)
  BY DEF IInv, TypeOK, PoolInv
<1>2. found[at[1]] # Pending /\ at[1] \in DOMAIN found
  BY <1>1 DEF IInv, TypeOK, DetectionsAsRead, Collected
<1>3. found[at[1]] \in Seq(Detection)
  BY <1>2 DEF IInv, TypeOK
<1>4. QED
  BY <1>1, <1>2, <1>3

\* A finding made of a detection has its type.
LEMMA NewFindingType ==
    ASSUME IInv, NEW d \in Detection, d[2].rule \in RuleIds
    PROVE  NewFinding(d) \in Finding
<1>1. d[1] \in Paths /\ d[2] \in Hit
  BY HitAssumption DEF Detection
<1>2. adjusted_severity(RuleOf[d[2].rule], d[2].kind) \in Severity
  BY RuleAssumption, AdjustedSeverity
<1>3. Without \in SourceSnippet
  BY DEF Without, NoSnippet, SnippetText, SourceSnippet, Window
<1>4. QED
  BY <1>1, <1>2, <1>3 DEF NewFinding, Finding, Hit, IInv, TypeOK

\* The normalizing loop keeps it: it appends findings and moves on.
LEMMA NormalizeStep ==
    ASSUME IInv, NormalizeHit \/ NormalizeSlot \/ StartSnippets
    PROVE  IInv'
<1> USE DEF IInv
<1>1. CASE NormalizeHit
  <2>1. /\ phase = "normalize" /\ found[at[1]][at[2]] \in Detection
        /\ at' = <<at[1], at[2] + 1>>
    BY <1>1, CurrentDetection DEF NormalizeHit
  <2>2. findings' \in Seq(Finding)
    BY <1>1, <2>1, NewFindingType DEF NormalizeHit, TypeOK
  <2>3. TypeOK'
    BY <1>1, <2>1, <2>2 DEF NormalizeHit, TypeOK
  <2>4. QED
    BY <1>1, <2>1, <2>3 DEF NormalizeHit, PoolInv, DetectionsAsRead, Collected
<1>2. CASE NormalizeSlot \/ StartSnippets
  BY <1>2 DEF NormalizeSlot, StartSnippets, TypeOK, PoolInv, DetectionsAsRead,
              Collected, Phase
<1>3. QED
  BY <1>1, <1>2

\* Attaching snippets keeps it: only the snippet, the preview and the cache change.
LEMMA AttachStep ==
    ASSUME IInv, AttachMasked \/ AttachSource
    PROVE  IInv'
<1> USE DEF IInv
<1> DEFINE k == at[1]
           f == findings[k]
<1>1. /\ phase = "snippets" /\ k \in 1..Len(findings) /\ f \in Finding
      /\ at' = <<k + 1, 1>>
  BY DEF AttachMasked, AttachSource, TypeOK
<1>2. findings' \in Seq(Finding) /\ cache' \in [Paths -> Contents \cup {Absent, NoCache}]
  <2>1. CASE AttachMasked
    <3>1. Mask("masked-key", f.line) \in SourceSnippet
      BY <1>1 DEF Mask, OneLine, SnippetText, SourceSnippet, Window, Finding
    <3>2. [f EXCEPT !.snippet = Mask("masked-key", f.line)] \in Finding
      BY <1>1, <3>1 DEF Finding
    <3>3. QED
      BY <1>1, <2>1, <3>2, ExceptSeq DEF AttachMasked, TypeOK
  <2>2. CASE AttachSource
    <3> DEFINE content == CachedContent(f.file)
               snippet == snippet_source(content, f.line)
               preview == IF snippet.text = "masked-file" THEN "masked" ELSE f.preview
    <3>1. content \in Contents \cup {Absent} /\ f.file \in Paths /\ f.line \in Nat
      BY <1>1 DEF CachedContent, TypeOK, Finding
    <3>2. snippet \in SourceSnippet
      BY <3>1, SnippetType
    <3> HIDE DEF content, snippet
    <3>3. [[f EXCEPT !.snippet = snippet] EXCEPT !.preview = preview] \in Finding
      BY <1>1, <3>2 DEF Finding
    <3>4. /\ cache' = [cache EXCEPT ![f.file] = content]
          /\ findings' = [findings EXCEPT ![k] =
               [[f EXCEPT !.snippet = snippet] EXCEPT !.preview = preview]]
      BY <1>1, <2>2 DEF AttachSource, TypeOK, content, snippet
    <3>5. QED
      BY <1>1, <3>1, <3>3, <3>4, ExceptSeq DEF TypeOK
  <2>3. QED
    BY <2>1, <2>2
<1>3. TypeOK'
  BY <1>1, <1>2 DEF AttachMasked, AttachSource, TypeOK
<1>4. QED
  BY <1>1, <1>3 DEF AttachMasked, AttachSource, PoolInv, DetectionsAsRead, Collected

\* Every step of the system keeps the inductive invariant.
LEMMA NextIInv == IInv /\ [Next]_vars => IInv'
<1> SUFFICES ASSUME IInv, [Next]_vars PROVE IInv'
  OBVIOUS
<1> USE DEF IInv
<1>1. CASE Edit
  <2>1. edits' \in 0..MaxEdits /\ disk' \in [Paths -> Contents \cup {Absent}]
    BY <1>1, DiskAssumption DEF Edit, TypeOK
  <2>2. UNCHANGED scanVars
    BY <1>1 DEF Edit
  <2>3. TypeOK'
    BY <2>1, <2>2 DEF scanVars, TypeOK
  <2>4. QED
    BY <2>2, <2>3 DEF scanVars, PoolInv, DetectionsAsRead, Collected
<1>2. CASE Abort \/ Assemble
  BY <1>2 DEF Abort, Assemble, TypeOK, PoolInv, DetectionsAsRead, Collected, Phase
<1>3. CASE UNCHANGED vars
  BY <1>3 DEF vars, TypeOK, PoolInv, DetectionsAsRead, Collected
<1>4. CASE Step
  BY <1>2, <1>4, WalkStep, PoolStep, ProfileStep, NormalizeStep, AttachStep
     DEF Step, Walk, Detect, Profile, Normalize, Attach
<1>5. QED
  BY <1>1, <1>2, <1>3, <1>4 DEF Next, Terminated

\* Types, the pool's bookkeeping and the contents of the slots, at every moment.
THEOREM Invariance == Spec => []IInv
BY InitIInv, NextIInv, PTL DEF Spec

\* Every variable of a scan has its type.
THEOREM TypeCorrect == Spec => []TypeOK
BY Invariance, PTL DEF IInv

\* The detections are those of the bytes read, whatever the schedule.
THEOREM ScheduleIndependence == Spec => []DetectionsAsRead
BY Invariance, PTL DEF IInv

-----------------------------------------------------------------------------
\* What the steps do to the findings: one is appended while detections are
\* normalized, and a snippet is attached to one without touching its identity.

Same(f, g) == /\ f.rule = g.rule /\ f.file = g.file /\ f.line = g.line
              /\ f.severity = g.severity /\ f.kind = g.kind
              /\ FindingKey(f) = FindingKey(g)

\* Attaching a snippet changes no finding's identity or severity.
LEMMA AttachKeeps ==
    ASSUME IInv, AttachMasked \/ AttachSource
    PROVE  /\ Len(findings') = Len(findings) /\ findings' \in Seq(Finding)
           /\ \A k \in DOMAIN findings :
                /\ Same(findings'[k], findings[k])
                /\ k # at[1] => findings'[k] = findings[k]
<1>1. at[1] \in DOMAIN findings /\ findings[at[1]] \in Finding
  BY DEF AttachMasked, AttachSource, IInv, TypeOK
<1>2. findings' \in Seq(Finding)
  BY AttachStep DEF IInv, TypeOK
<1>3. Len(findings') = Len(findings)
  BY <1>1 DEF AttachMasked, AttachSource, IInv, TypeOK
<1>4. ASSUME NEW k \in DOMAIN findings, k # at[1] PROVE findings'[k] = findings[k]
  BY <1>1, <1>4 DEF AttachMasked, AttachSource, IInv, TypeOK
<1>5. Same(findings'[at[1]], findings[at[1]])
  <2>1. CASE AttachMasked
    BY <1>1, <2>1 DEF AttachMasked, Same, FindingKey, Finding, IInv, TypeOK
  <2>2. CASE AttachSource
    BY <1>1, <2>2 DEF AttachSource, Same, FindingKey, Finding, IInv, TypeOK
  <2>3. QED
    BY <2>1, <2>2
<1>6. QED
  BY <1>2, <1>3, <1>4, <1>5 DEF Same

\* The normalizing loop keeps the findings it made.
LEMMA NormalizeAppends ==
    ASSUME IInv, NormalizeHit
    PROVE  LET d == found[at[1]][at[2]]
           IN  /\ phase = "normalize" /\ at[1] \in DOMAIN found /\ at[2] \in DOMAIN found[at[1]]
               /\ d \in Detection /\ found[at[1]] # Pending
               /\ \/ /\ findings' = findings
                     /\ d[2].rule \notin RuleIds \/ Seen(d)
                  \/ /\ d[2].rule \in RuleIds /\ ~Seen(d)
                     /\ Len(findings') = Len(findings) + 1
                     /\ \A k \in DOMAIN findings : findings'[k] = findings[k]
                     /\ findings'[Len(findings) + 1] = NewFinding(d)
<1>1. /\ phase = "normalize" /\ at[1] <= Len(files) /\ at[2] <= Len(found[at[1]])
      /\ at[2] \in Nat \ {0}
  BY DEF NormalizeHit, IInv, TypeOK
<1>2. /\ at[1] \in DOMAIN found /\ found[at[1]] # Pending /\ at[2] \in DOMAIN found[at[1]]
      /\ found[at[1]][at[2]] \in Detection
  BY <1>1, CurrentDetection
<1>3. QED
  BY <1>1, <1>2 DEF NormalizeHit, IInv, TypeOK

\* Every other step leaves the findings alone or finds none to touch.
LEMMA OthersKeepFindings ==
    ASSUME IInv, [Next]_vars, ~NormalizeHit, ~AttachMasked, ~AttachSource
    PROVE  findings' = findings
BY DEF Next, Step, Walk, Detect, Profile, Normalize, Attach, Terminated, vars,
       scanVars, WalkVanished, WalkSkip, WalkKeep, StartPool, Read, Finish, Collect,
       ProfileFile, StartNormalize, NormalizeSlot, StartSnippets, Assemble, Edit, Abort

-----------------------------------------------------------------------------
\* No step makes a finding less severe than its rule.
LEMMA SeverityStep == IInv /\ SeverityNeverLowered /\ [Next]_vars => SeverityNeverLowered'
<1> SUFFICES ASSUME IInv, SeverityNeverLowered, [Next]_vars PROVE SeverityNeverLowered'
  OBVIOUS
<1>1. CASE NormalizeHit
  <2> DEFINE d == found[at[1]][at[2]]
  <2>1. CASE findings' = findings
    BY <2>1 DEF SeverityNeverLowered
  <2>2. CASE findings' # findings
    <3>1. /\ d[2].rule \in RuleIds /\ Len(findings') = Len(findings) + 1
          /\ \A k \in DOMAIN findings : findings'[k] = findings[k]
          /\ findings'[Len(findings) + 1] = NewFinding(d)
      BY <1>1, <2>2, NormalizeAppends
    <3>2. NewFinding(d).severity >= RuleOf[NewFinding(d).rule].severity
      BY <3>1, RuleAssumption, AdjustedSeverity DEF NewFinding
    <3>3. findings' \in Seq(Finding) /\ findings \in Seq(Finding)
      BY NextIInv DEF IInv, TypeOK
    <3>4. QED
      BY <3>1, <3>2, <3>3 DEF SeverityNeverLowered
  <2>3. QED
    BY <2>1, <2>2
<1>2. CASE AttachMasked \/ AttachSource
  <2>1. DOMAIN findings' = DOMAIN findings
    BY <1>2, AttachKeeps DEF IInv, TypeOK
  <2>2. QED
    BY <1>2, <2>1, AttachKeeps DEF SeverityNeverLowered, Same
<1>3. CASE ~NormalizeHit /\ ~AttachMasked /\ ~AttachSource
  BY <1>3, OthersKeepFindings DEF SeverityNeverLowered
<1>4. QED
  BY <1>1, <1>2, <1>3

\* No finding is less severe than its rule.
THEOREM SeverityKept == Spec => []SeverityNeverLowered
<1>1. Init => SeverityNeverLowered
  BY DEF Init, SeverityNeverLowered
<1>2. QED
  BY <1>1, SeverityStep, Invariance, PTL DEF Spec

-----------------------------------------------------------------------------
\* A new finding has the key of its detection, which no finding had.
LEMMA NewFindingKey ==
    ASSUME NEW d PROVE FindingKey(NewFinding(d)) = DetectionKey(d)
BY DEF FindingKey, NewFinding, DetectionKey

\* One round of the normalizing loop: the detection it passes has a finding
\* afterwards, and no two findings share a key.
LEMMA ExactWhileNormalizing ==
    ASSUME IInv, FindingsExact, NormalizeHit PROVE FindingsExact'
<1> DEFINE d == found[at[1]][at[2]]
<1>1. /\ phase = "normalize" /\ phase' = "normalize" /\ found' = found
      /\ at' = <<at[1], at[2] + 1>> /\ at[1] \in Nat /\ at[2] \in Nat
      /\ at[1] \in DOMAIN found /\ at[2] \in DOMAIN found[at[1]] /\ found[at[1]] # Pending
  BY NormalizeAppends DEF NormalizeHit, IInv, TypeOK
<1>2. ASSUME NEW i \in DOMAIN found, found[i] # Pending, NEW k \in DOMAIN found[i]
      PROVE  Passed(i, k)' <=> Passed(i, k) \/ (i = at[1] /\ k = at[2])
  <2>1. i \in Nat /\ k \in Nat
    BY <1>2 DEF IInv, TypeOK
  <2>2. QED
    BY <1>1, <2>1 DEF Passed
<1>3. CASE findings' = findings
  <2>1. d[2].rule \notin RuleIds \/ HasFinding(d)
    <3>1. d[2].rule \notin RuleIds \/ Seen(d)
      BY <1>3, NormalizeAppends DEF IInv, TypeOK
    <3>2. QED
      BY <3>1 DEF Seen, HasFinding
  <2>2. \A x : HasFinding(x)' <=> HasFinding(x)
    BY <1>3 DEF HasFinding
  <2>3. QED
    BY <1>1, <1>2, <1>3, <2>1, <2>2 DEF FindingsExact
<1>4. CASE findings' # findings
  <2>1. /\ d[2].rule \in RuleIds /\ ~Seen(d) /\ Len(findings') = Len(findings) + 1
        /\ \A k \in DOMAIN findings : findings'[k] = findings[k]
        /\ findings'[Len(findings) + 1] = NewFinding(d)
    BY <1>4, NormalizeAppends
  <2>2. findings \in Seq(Finding) /\ findings' \in Seq(Finding)
    BY NextIInv, NormalizeStep DEF IInv, TypeOK
  <2>3. DOMAIN findings' = DOMAIN findings \cup {Len(findings) + 1}
    BY <2>1, <2>2
  <2>4. FindingKey(findings'[Len(findings) + 1]) = DetectionKey(d)
    BY <2>1, NewFindingKey
  <2>5. \A k \in DOMAIN findings : FindingKey(findings[k]) # DetectionKey(d)
    BY <2>1 DEF Seen
  <2>6. \A x : HasFinding(x) => HasFinding(x)'
    BY <2>1, <2>3 DEF HasFinding
  <2>7. \A x : x = d => HasFinding(x)'
    BY <2>3, <2>4 DEF HasFinding
  <2>8. \A k, l \in DOMAIN findings' :
          FindingKey(findings'[k]) = FindingKey(findings'[l]) => k = l
    BY <2>1, <2>3, <2>4, <2>5 DEF FindingsExact
  <2>9. \A k \in DOMAIN findings' : \E i \in DOMAIN found :
          /\ found[i] # Pending
          /\ \E l \in DOMAIN found[i] :
               DetectionKey(found[i][l]) = FindingKey(findings'[k])
    BY <1>1, <2>1, <2>3, <2>4 DEF FindingsExact
  <2>10. \A i \in DOMAIN found : found[i] # Pending =>
           \A k \in DOMAIN found[i] :
             Passed(i, k)' /\ found[i][k][2].rule \in RuleIds => HasFinding(found[i][k])'
    <3>1. ASSUME NEW i \in DOMAIN found, found[i] # Pending, NEW k \in DOMAIN found[i],
                 Passed(i, k)', found[i][k][2].rule \in RuleIds
          PROVE  \A x : x = found[i][k] => HasFinding(x)'
      <4>1. CASE Passed(i, k)
        BY <3>1, <4>1, <2>6 DEF FindingsExact
      <4>2. CASE i = at[1] /\ k = at[2]
        BY <4>2, <2>7
      <4>3. QED
        BY <1>2, <3>1, <4>1, <4>2
    <3>2. QED
      BY <1>1, <3>1
  <2>11. QED
    BY <1>1, <2>8, <2>9, <2>10 DEF FindingsExact
<1>5. QED
  BY <1>3, <1>4

\* Moving to the next file, or on to the snippets, passes no detection unseen.
LEMMA ExactWhenAdvancing ==
    ASSUME IInv, FindingsExact, NormalizeSlot \/ StartSnippets PROVE FindingsExact'
<1>1. findings' = findings /\ found' = found /\ at[1] \in Nat /\ at[2] \in Nat
      /\ phase = "normalize" /\ Len(found) = Len(files)
  BY DEF NormalizeSlot, StartSnippets, IInv, TypeOK, PoolInv
<1>2. \A x : HasFinding(x)' <=> HasFinding(x)
  BY <1>1 DEF HasFinding
<1>3. ASSUME NEW i \in DOMAIN found, found[i] # Pending, NEW k \in DOMAIN found[i],
             Passed(i, k)'
      PROVE  Passed(i, k)
  <2>1. i \in 1..Len(files) /\ k \in 1..Len(found[i])
    BY <1>1, <1>3 DEF IInv, TypeOK
  <2>2. QED
    BY <1>1, <1>3, <2>1 DEF NormalizeSlot, StartSnippets, Passed
<1>4. QED
  BY <1>1, <1>2, <1>3 DEF FindingsExact

\* Every step keeps the findings exact.
LEMMA ExactStep == IInv /\ FindingsExact /\ [Next]_vars => FindingsExact'
<1> SUFFICES ASSUME IInv, FindingsExact, [Next]_vars PROVE FindingsExact'
  OBVIOUS
<1>1. CASE AttachMasked \/ AttachSource
  <2>1. /\ DOMAIN findings' = DOMAIN findings /\ found' = found
        /\ \A k \in DOMAIN findings : FindingKey(findings'[k]) = FindingKey(findings[k])
        /\ \A i, k : Passed(i, k)
    BY <1>1, AttachKeeps DEF AttachMasked, AttachSource, Same, Passed, IInv, TypeOK
  <2>2. \A x : HasFinding(x)' <=> HasFinding(x)
    BY <2>1 DEF HasFinding
  <2>3. QED
    BY <2>1, <2>2 DEF FindingsExact
<1>2. CASE ~NormalizeHit /\ ~NormalizeSlot /\ ~StartSnippets
           /\ ~AttachMasked /\ ~AttachSource
  <2>1. findings' = findings
    BY <1>2, OthersKeepFindings
  <2>2. CASE found' = found
    <3>1. ASSUME NEW i \in DOMAIN found, found[i] # Pending, NEW k \in DOMAIN found[i],
                 Passed(i, k)'
          PROVE  Passed(i, k)
      <4>1. i \in Nat \ {0} /\ k \in Nat \ {0}
        BY <3>1 DEF IInv, TypeOK
      <4>2. QED
        BY <1>2, <3>1, <4>1
           DEF Passed, Next, Step, Walk, Detect, Profile, Normalize, Attach,
               Terminated, vars, scanVars, WalkVanished, WalkSkip, WalkKeep,
               StartPool, Read, Finish, Collect, ProfileFile, StartNormalize,
               Assemble, Edit, Abort
    <3>2. \A x : HasFinding(x)' <=> HasFinding(x)
      BY <2>1 DEF HasFinding
    <3>3. QED
      BY <2>1, <2>2, <3>1, <3>2 DEF FindingsExact
  <2>3. CASE found' # found
    <3>1. phase' = "detect" /\ findings = << >>
      BY <1>2, <2>3
         DEF Next, Step, Walk, Detect, Profile, Normalize, Attach, Terminated, vars,
             scanVars, WalkVanished, WalkSkip, WalkKeep, StartPool, Read, Finish,
             Collect, ProfileFile, StartNormalize, Assemble, Edit, Abort, IInv, PoolInv
    <3>2. \A i, k : ~Passed(i, k)'
      BY <3>1 DEF Passed
    <3>3. QED
      BY <2>1, <3>1, <3>2 DEF FindingsExact
  <2>4. QED
    BY <2>2, <2>3
<1>3. QED
  BY <1>1, <1>2, ExactWhileNormalizing, ExactWhenAdvancing

\* Deduplication drops repetitions and nothing else.
THEOREM DeduplicationExact == Spec => []FindingsExact
<1>1. Init => FindingsExact
  BY DEF Init, FindingsExact
<1>2. QED
  BY <1>1, ExactStep, Invariance, PTL DEF Spec

-----------------------------------------------------------------------------
\* A place of FirstPlaces, and the detection there.
LEMMA FirstPlaceFacts ==
    ASSUME IInv, NEW e \in FirstPlaces
    PROVE  /\ e = <<e[1], e[2]>> /\ e[1] \in DOMAIN files /\ e[1] \in DOMAIN found
           /\ found[e[1]] # Pending /\ found[e[1]] \in Seq(Detection)
           /\ e[1] \in Nat \ {0} /\ e[2] \in Nat \ {0} /\ e[2] \in DOMAIN found[e[1]]
           /\ At(e) = found[e[1]][e[2]] /\ At(e) \in Detection /\ At(e)[1] = files[e[1]]
           /\ At(e)[2].rule \in RuleIds
           /\ \A j \in 1..(e[2] - 1) : DetectionKey(found[e[1]][j]) # DetectionKey(At(e))
<1>1. /\ e = <<e[1], e[2]>> /\ e[1] \in DOMAIN found /\ found[e[1]] # Pending
      /\ e[2] \in DOMAIN found[e[1]] /\ At(e)[2].rule \in RuleIds
      /\ \A j \in 1..(e[2] - 1) : DetectionKey(found[e[1]][j]) # DetectionKey(At(e))
  BY DEF FirstPlaces
<1>2. found[e[1]] \in Seq(Detection)
  BY <1>1 DEF IInv, TypeOK
<1>3. e[1] \in Nat \ {0} /\ e[2] \in Nat \ {0} /\ At(e) \in Detection
  BY <1>1, <1>2 DEF At, IInv, TypeOK
<1>4. e[1] \in DOMAIN files
  BY <1>1 DEF IInv, TypeOK, PoolInv
<1>5. At(e)[1] = files[e[1]]
  BY <1>1 DEF At, detect, IInv, DetectionsAsRead
<1>6. QED
  BY <1>1, <1>2, <1>3, <1>4, <1>5 DEF At

\* A file has one slot, so a key has one first place.
LEMMA FirstPlaceUnique ==
    ASSUME IInv, NEW d \in FirstPlaces, NEW e \in FirstPlaces,
           DetectionKey(At(d)) = DetectionKey(At(e))
    PROVE  d = e
<1>1. At(d)[1] = At(e)[1]
  BY DEF DetectionKey
<1>2. d[1] = e[1]
  BY <1>1, FirstPlaceFacts DEF IInv, DetectionsAsRead
<1>3. ~(d[2] < e[2]) /\ ~(e[2] < d[2])
  <2>1. d[2] \in Nat \ {0} /\ e[2] \in Nat \ {0}
    BY FirstPlaceFacts
  <2>2. d[2] \notin 1..(e[2] - 1) /\ e[2] \notin 1..(d[2] - 1)
    BY <1>2, FirstPlaceFacts
  <2>3. QED
    BY <2>1, <2>2
<1>4. QED
  BY <1>2, <1>3, FirstPlaceFacts

\* One round of the normalizing loop.
LEMMA FirstsWhileNormalizing ==
    ASSUME IInv, FindingsExact, FirstsInOrder, NormalizeHit PROVE FirstsInOrder'
<1> DEFINE d == found[at[1]][at[2]]
<1>0. PICK here : here = <<at[1], at[2]>>
  OBVIOUS
<1>1. /\ phase = "normalize" /\ phase' = "normalize" /\ found' = found
      /\ at' = <<at[1], at[2] + 1>> /\ at[1] \in Nat /\ at[2] \in Nat
      /\ at[1] \in DOMAIN found /\ at[2] \in DOMAIN found[at[1]] /\ found[at[1]] # Pending
  BY NormalizeAppends DEF NormalizeHit, IInv, TypeOK
<1>2. FirstPlaces' = FirstPlaces /\ \A e : At(e)' = At(e)
  BY <1>1 DEF FirstPlaces, At
<1>3. \A e \in FirstPlaces : Passed(e[1], e[2]) => Passed(e[1], e[2])'
  BY <1>1, FirstPlaceFacts DEF Passed
<1>4. CASE findings' = findings
  BY <1>2, <1>3, <1>4 DEF FirstsInOrder
<1>5. CASE findings' # findings
  <2>1. /\ d[2].rule \in RuleIds /\ ~Seen(d) /\ Len(findings') = Len(findings) + 1
        /\ \A k \in DOMAIN findings : findings'[k] = findings[k]
        /\ findings'[Len(findings) + 1] = NewFinding(d)
    BY <1>5, NormalizeAppends
  <2>2. findings \in Seq(Finding) /\ findings' \in Seq(Finding)
    BY NextIInv, NormalizeStep DEF IInv, TypeOK
  <2>3. DOMAIN findings' = DOMAIN findings \cup {Len(findings) + 1}
    BY <2>1, <2>2
  <2>4. here \in FirstPlaces
    <3>1. ASSUME NEW j \in 1..(at[2] - 1) PROVE DetectionKey(found[at[1]][j]) # DetectionKey(d)
      <4>1. j \in DOMAIN found[at[1]] /\ Passed(at[1], j)
        BY <1>1, CurrentDetection DEF Passed, NormalizeHit, IInv, TypeOK
      <4>2. CASE found[at[1]][j][2].rule \in RuleIds
        BY <1>1, <2>1, <4>1, <4>2 DEF FindingsExact, HasFinding, Seen
      <4>3. CASE found[at[1]][j][2].rule \notin RuleIds
        BY <2>1, <4>3 DEF DetectionKey
      <4>4. QED
        BY <4>2, <4>3
    <3>2. here \in UNION {{i} \X (DOMAIN found[i]) : i \in {i \in DOMAIN found : found[i] # Pending}}
      BY <1>0, <1>1
    <3>3. QED
      BY <1>0, <2>1, <3>1, <3>2 DEF FirstPlaces, At
  <2>5. MadeOf(NewFinding(d), At(here)) /\ Passed(here[1], here[2])'
    <3>1. MadeOf(NewFinding(d), At(here))
      BY <1>0 DEF MadeOf, At, NewFinding, FindingKey, DetectionKey
    <3>2. Passed(here[1], here[2])'
      BY <1>0, <1>1 DEF Passed
    <3>3. QED
      BY <3>1, <3>2
  <2>6. \A k \in DOMAIN findings' :
          \E e \in FirstPlaces : Passed(e[1], e[2])' /\ MadeOf(findings'[k], At(e))
    BY <1>3, <2>1, <2>3, <2>4, <2>5 DEF FirstsInOrder
  <2>7. ASSUME NEW e \in FirstPlaces, MadeOf(NewFinding(d), At(e)) PROVE e = here
    BY <2>4, <2>5, <2>7, FirstPlaceUnique DEF MadeOf
  <2>8. ASSUME NEW k \in DOMAIN findings, NEW c \in FirstPlaces, MadeOf(findings[k], At(c))
        PROVE  Sooner(c, here)
    <3>1. PICK e \in FirstPlaces : Passed(e[1], e[2]) /\ MadeOf(findings[k], At(e))
      BY DEF FirstsInOrder
    <3>2. c = e
      BY <2>8, <3>1, FirstPlaceUnique DEF MadeOf
    <3>3. QED
      BY <1>0, <1>1, <3>1, <3>2 DEF Passed, Sooner
  <2>9. ASSUME NEW k \in DOMAIN findings', NEW l \in DOMAIN findings', k < l,
               NEW c \in FirstPlaces, NEW e \in FirstPlaces,
               MadeOf(findings'[k], At(c)), MadeOf(findings'[l], At(e))
        PROVE  Sooner(c, e)
    <3>1. k \in DOMAIN findings
      BY <2>2, <2>3, <2>9
    <3>2. CASE l \in DOMAIN findings
      BY <2>1, <2>9, <3>1, <3>2 DEF FirstsInOrder
    <3>3. CASE l = Len(findings) + 1
      BY <2>1, <2>7, <2>8, <2>9, <3>1, <3>3
    <3>4. QED
      BY <2>3, <3>2, <3>3
  <2>10. QED
    BY <1>2, <2>6, <2>9 DEF FirstsInOrder
<1>6. QED
  BY <1>4, <1>5

\* Every step keeps the order of the findings.
LEMMA FirstsStep == IInv /\ FindingsExact /\ FirstsInOrder /\ [Next]_vars => FirstsInOrder'
<1> SUFFICES ASSUME IInv, FindingsExact, FirstsInOrder, [Next]_vars PROVE FirstsInOrder'
  OBVIOUS
<1>1. CASE AttachMasked \/ AttachSource
  <2>1. /\ DOMAIN findings' = DOMAIN findings /\ found' = found
        /\ \A k \in DOMAIN findings : Same(findings'[k], findings[k])
        /\ \A i, k : Passed(i, k)'
    BY <1>1, AttachKeeps DEF AttachMasked, AttachSource, Passed, IInv, TypeOK
  <2>2. FirstPlaces' = FirstPlaces /\ \A e : At(e)' = At(e)
    BY <2>1 DEF FirstPlaces, At
  <2>3. \A k \in DOMAIN findings : \A x : MadeOf(findings'[k], x) <=> MadeOf(findings[k], x)
    BY <2>1 DEF MadeOf, Same
  <2>4. QED
    BY <2>1, <2>2, <2>3 DEF FirstsInOrder
<1>2. CASE ~NormalizeHit /\ ~AttachMasked /\ ~AttachSource
  <2>1. findings' = findings
    BY <1>2, OthersKeepFindings
  <2>2. CASE findings = << >>
    BY <2>1, <2>2 DEF FirstsInOrder
  <2>3. CASE findings # << >>
    <3>1. /\ found' = found /\ phase \in {"normalize", "snippets", "done"}
          /\ \/ phase' = phase /\ at' = at
             \/ phase' \in {"snippets", "done"}
             \/ phase' = "normalize" /\ phase = "normalize" /\ at' = <<at[1] + 1, 1>>
      BY <1>2, <2>3
         DEF Next, Step, Walk, Detect, Profile, Normalize, Attach, Terminated, vars,
             scanVars, WalkVanished, WalkSkip, WalkKeep, StartPool, Read, Finish,
             Collect, ProfileFile, StartNormalize, NormalizeSlot, StartSnippets,
             Assemble, Edit, Abort, IInv, PoolInv
    <3>2. FirstPlaces' = FirstPlaces /\ \A e : At(e)' = At(e)
      BY <3>1 DEF FirstPlaces, At
    <3>3. \A e \in FirstPlaces : Passed(e[1], e[2]) => Passed(e[1], e[2])'
      <4>1. at[1] \in Nat /\ at[2] \in Nat
        BY DEF IInv, TypeOK
      <4>2. QED
        BY <3>1, <4>1, FirstPlaceFacts DEF Passed
    <3>4. QED
      BY <2>1, <3>2, <3>3 DEF FirstsInOrder
  <2>4. QED
    BY <2>2, <2>3
<1>3. QED
  BY <1>1, <1>2, FirstsWhileNormalizing

\* Of equal detections the first makes the finding, and the findings keep the
\* order of the detections.
THEOREM FirstsTheorem == Spec => []FirstsInOrder
<1>1. Init => FirstsInOrder
  BY DEF Init, FirstsInOrder
<1>2. QED
  BY <1>1, FirstsStep, Invariance, DeduplicationExact, PTL DEF Spec

-----------------------------------------------------------------------------
\* What is known of a finding's snippet: past says whether it is attached,
\* content what was read of its file.
Settled(f, past, content) ==
    IF ~past THEN f.snippet = Without
    ELSE IF f.kind = "private_key" THEN f.snippet = Mask("masked-key", f.line)
    ELSE /\ content # NoCache
         /\ f.snippet = snippet_source(content, f.line)
         /\ f.snippet.text = "masked-file" => f.preview = "masked"

LEMMA SnippetInvIs ==
    SnippetInv <=> \A k \in DOMAIN findings :
                      Settled(findings[k], Attached(k), cache[findings[k].file])
BY DEF SnippetInv, Settled

\* Masking a finding without a look at its file settles it, and no other.
LEMMA MaskedSnippetStep == IInv /\ SnippetInv /\ AttachMasked => SnippetInv'
<1> SUFFICES ASSUME IInv, SnippetInv, AttachMasked PROVE SnippetInv'
  OBVIOUS
<1>1. /\ phase = "snippets" /\ phase' = "snippets" /\ cache' = cache
      /\ at[1] \in DOMAIN findings /\ at[1] \in Nat /\ at'[1] = at[1] + 1
      /\ findings \in Seq(Finding) /\ DOMAIN findings \subseteq Nat
  BY DEF AttachMasked, IInv, TypeOK
<1>2. /\ DOMAIN findings' = DOMAIN findings
      /\ \A k \in DOMAIN findings : k # at[1] => findings'[k] = findings[k]
  BY AttachKeeps, <1>1 DEF IInv, TypeOK
<1>3. \A k \in DOMAIN findings : /\ Attached(k) <=> k < at[1]
                                 /\ Attached(k)' <=> k < at[1] + 1
  BY <1>1 DEF Attached
<1>4. ASSUME NEW k \in DOMAIN findings, k # at[1]
      PROVE  Settled(findings'[k], Attached(k)', cache'[findings'[k].file])
  <2>1. Attached(k)' <=> Attached(k)
    BY <1>1, <1>3, <1>4
  <2>2. Settled(findings[k], Attached(k), cache[findings[k].file])
    BY SnippetInvIs
  <2>3. QED
    BY <1>1, <1>2, <1>4, <2>1, <2>2 DEF Settled
<1>5. ASSUME NEW k \in DOMAIN findings, k = at[1]
      PROVE  Settled(findings'[k], Attached(k)', cache'[findings'[k].file])
  <2>1. Attached(k)'
    BY <1>1, <1>3, <1>5
  <2>2. /\ findings'[k].kind = "private_key"
        /\ findings'[k].snippet = Mask("masked-key", findings'[k].line)
    <3>1. findings[k] \in Finding
      BY <1>1, <1>5
    <3>2. /\ findings[k].kind = "private_key"
          /\ findings' = [findings EXCEPT ![k].snippet = Mask("masked-key", findings[k].line)]
      BY <1>5 DEF AttachMasked
    <3>3. QED
      BY <1>1, <3>1, <3>2 DEF Finding
  <2>3. QED
    BY <2>1, <2>2 DEF Settled
<1>6. QED
  BY <1>2, <1>4, <1>5 DEF SnippetInv, Settled

\* Cutting a snippet from its file settles the finding, and keeps the others:
\* what was read for them stays in the cache.
LEMMA SourceSnippetStep == IInv /\ SnippetInv /\ AttachSource => SnippetInv'
<1> SUFFICES ASSUME IInv, SnippetInv, AttachSource PROVE SnippetInv'
  OBVIOUS
<1>1. /\ phase = "snippets" /\ phase' = "snippets"
      /\ at[1] \in DOMAIN findings /\ at[1] \in Nat /\ at'[1] = at[1] + 1
      /\ findings \in Seq(Finding) /\ DOMAIN findings \subseteq Nat
  BY DEF AttachSource, IInv, TypeOK
<1>2. PICK n : n = at[1]
  OBVIOUS
<1>3. PICK f, content : f = findings[n] /\ content = CachedContent(f.file)
  OBVIOUS
<1>4. f \in Finding /\ f.file \in Paths
  <2>1. f \in Finding
    BY <1>1, <1>2, <1>3
  <2>2. QED
    BY <2>1 DEF Finding
<1>5. /\ content \in Contents \cup {Absent} /\ content # NoCache
      /\ cache' = [cache EXCEPT ![f.file] = content] /\ cache'[f.file] = content
      /\ \A p \in Paths : cache[p] # NoCache => cache'[p] = cache[p]
  BY <1>2, <1>3, <1>4, ContentAssumption DEF AttachSource, CachedContent, IInv, TypeOK
<1>6. /\ DOMAIN findings' = DOMAIN findings
      /\ \A k \in DOMAIN findings : /\ Same(findings'[k], findings[k])
                                    /\ k # n => findings'[k] = findings[k]
  BY AttachKeeps, <1>1, <1>2 DEF IInv, TypeOK
<1>7. \A k \in DOMAIN findings : /\ Attached(k) <=> k < n
                                 /\ Attached(k)' <=> k < n + 1
  BY <1>1, <1>2 DEF Attached
<1>8. ASSUME NEW k \in DOMAIN findings, k # n
      PROVE  Settled(findings'[k], Attached(k)', cache'[findings'[k].file])
  <2>1. (Attached(k)' <=> Attached(k)) /\ findings'[k] = findings[k]
    <3>1. k < n <=> k < n + 1
      BY <1>1, <1>2, <1>8
    <3>2. Attached(k)' <=> Attached(k)
      BY <1>7, <3>1
    <3>3. findings'[k] = findings[k]
      BY <1>6, <1>8
    <3>4. QED
      BY <3>2, <3>3
  <2>2. Settled(findings[k], Attached(k), cache[findings[k].file])
    BY SnippetInvIs
  <2>3. findings[k].file \in Paths
    <3>1. findings[k] \in Finding
      BY <1>1
    <3>2. QED
      BY <3>1 DEF Finding
  <2>4. QED
    BY <1>5, <2>1, <2>2, <2>3 DEF Settled
<1>9. Settled(findings'[n], Attached(n)', cache'[findings'[n].file])
  <2>1. PICK snippet : snippet = snippet_source(content, f.line)
    OBVIOUS
  <2>2. /\ f.kind # "private_key"
        /\ findings' = [findings EXCEPT ![n].snippet = snippet, ![n].preview =
             IF snippet.text = "masked-file" THEN "masked" ELSE f.preview]
    BY <1>2, <1>3, <2>1 DEF AttachSource
  <2>3. /\ findings'[n].snippet = snippet
        /\ findings'[n].preview = IF snippet.text = "masked-file" THEN "masked" ELSE f.preview
    BY <1>1, <1>2, <1>3, <1>4, <2>2 DEF Finding
  <2>4. /\ findings'[n].kind = f.kind /\ findings'[n].file = f.file
        /\ findings'[n].line = f.line /\ Attached(n)'
    <3>1. n \in DOMAIN findings /\ n < n + 1
      BY <1>1, <1>2
    <3>2. Attached(n)'
      BY <1>7, <3>1
    <3>3. Same(findings'[n], f)
      BY <1>3, <1>6, <3>1
    <3>4. QED
      BY <3>2, <3>3 DEF Same
  <2>5. QED
    BY <1>5, <2>1, <2>2, <2>3, <2>4 DEF Settled
<1>10. QED
  BY <1>2, <1>6, <1>8, <1>9 DEF SnippetInv, Settled

\* Every step keeps what is known of the snippets.
LEMMA SnippetStep == IInv /\ SnippetInv /\ [Next]_vars => SnippetInv'
<1> SUFFICES ASSUME IInv, SnippetInv, [Next]_vars PROVE SnippetInv'
  OBVIOUS
<1>1. CASE NormalizeHit
  <2>1. /\ phase = "normalize" /\ phase' = "normalize"
        /\ findings \in Seq(Finding) /\ findings' \in Seq(Finding)
    BY <1>1, NormalizeStep DEF NormalizeHit, IInv, TypeOK
  <2>2. \A k : ~Attached(k) /\ ~Attached(k)'
    BY <2>1 DEF Attached
  <2>3. \A k \in DOMAIN findings : findings[k].snippet = Without
    BY <2>2 DEF SnippetInv
  <2>4. \A d : NewFinding(d).snippet = Without
    BY DEF NewFinding
  <2>5. \A k \in DOMAIN findings' : findings'[k].snippet = Without
    BY <1>1, <2>1, <2>3, <2>4, NormalizeAppends
  <2>6. QED
    BY <2>2, <2>5 DEF SnippetInv
<1>2. CASE AttachMasked
  BY <1>2, MaskedSnippetStep
<1>3. CASE AttachSource
  BY <1>3, SourceSnippetStep
<1>4. CASE StartSnippets
  <2>1. /\ phase = "normalize" /\ phase' = "snippets" /\ at' = <<1, 1>>
        /\ findings' = findings /\ findings \in Seq(Finding)
    BY <1>4 DEF StartSnippets, IInv, TypeOK
  <2>2. \A k \in DOMAIN findings : ~Attached(k) /\ ~Attached(k)'
    BY <2>1 DEF Attached
  <2>3. QED
    BY <2>1, <2>2 DEF SnippetInv
<1>5. CASE Assemble
  <2>1. /\ phase = "snippets" /\ phase' = "done" /\ at[1] > Len(findings)
        /\ findings' = findings /\ cache' = cache /\ findings \in Seq(Finding)
        /\ at[1] \in Nat
    BY <1>5 DEF Assemble, IInv, TypeOK
  <2>2. \A k \in DOMAIN findings : Attached(k) /\ Attached(k)'
    BY <2>1 DEF Attached
  <2>3. QED
    BY <2>1, <2>2 DEF SnippetInv
<1>6. CASE Edit \/ Terminated \/ UNCHANGED vars
  <2>1. UNCHANGED <<phase, at, findings, cache>>
    BY <1>6 DEF Edit, Terminated, vars, scanVars
  <2>2. QED
    BY <2>1 DEF SnippetInv, Attached
<1>7. CASE Walk \/ Detect \/ Profile \/ Abort \/ NormalizeSlot
  <2>1. CASE NormalizeSlot
    <3>1. phase = "normalize" /\ phase' = "normalize" /\ UNCHANGED <<findings, cache>>
      BY <2>1 DEF NormalizeSlot
    <3>2. QED
      BY <3>1 DEF SnippetInv, Attached
  <2>2. CASE Walk \/ Detect \/ Profile \/ Abort
    <3>1. phase \in {"walk", "detect", "profile"} /\ findings' = findings
      BY <2>2 DEF Walk, Detect, Profile, WalkVanished, WalkSkip, WalkKeep, StartPool, Read,
                  Finish, Collect, ProfileFile, StartNormalize, Abort
    <3>2. findings = << >> /\ findings' = << >>
      BY <3>1 DEF IInv, PoolInv
    <3>3. QED
      BY <3>2 DEF SnippetInv
  <2>3. QED
    BY <1>7, <2>1, <2>2
<1>8. QED
  BY <1>1, <1>2, <1>3, <1>4, <1>5, <1>6, <1>7 DEF Next, Step, Normalize, Attach

\* Each snippet shows what was read of its file, at every moment.
LEMMA SnippetInvariance == Spec => []SnippetInv
<1>1. Init => SnippetInv
  BY DEF Init, SnippetInv
<1>2. QED
  BY <1>1, SnippetStep, Invariance, PTL DEF Spec

\* A snippet that shows lines shows those of the content that was read.
LEMMA LinesOfTheContent ==
    ASSUME IInv, SnippetInv, NEW k \in DOMAIN findings, findings[k].snippet.text = "lines"
    PROVE  LET f == findings[k]
               content == cache[f.file]
               window == build_source_snippet(Len(Lines[content]), f.line, Before, After)
           IN  /\ content \in Contents /\ window # NoSnippet
               /\ f.snippet = Excerpt(content, window)
<1>1. PICK f, content, window :
        /\ f = findings[k] /\ content = cache[f.file]
        /\ window = build_source_snippet(Len(Lines[content]), f.line, Before, After)
  OBVIOUS
<1>2. Settled(f, Attached(k), content)
  BY <1>1, SnippetInvIs
<1>3. f \in Finding /\ content \in Contents \cup {Absent, NoCache}
  <2>1. f \in Finding
    BY <1>1 DEF IInv, TypeOK
  <2>2. f.file \in Paths
    BY <2>1 DEF Finding
  <2>3. QED
    BY <1>1, <2>1, <2>2 DEF IInv, TypeOK
<1>4. content # NoCache /\ f.snippet = snippet_source(content, f.line)
  BY <1>1, <1>2 DEF Settled, Without, Mask
<1>5. ~Unavailable(content) /\ ~contains_private_key_marker(Lines[content])
  BY <1>1, <1>4 DEF snippet_source, Without, Mask
<1>6. window # NoSnippet /\ f.snippet = Excerpt(content, window)
  BY <1>1, <1>4, <1>5 DEF snippet_source, Without
<1>7. content \in Contents
  BY <1>3, <1>4, <1>5 DEF Unavailable, Readable
<1>8. QED
  BY <1>1, <1>6, <1>7

\* All snippets of a file come from one version of it.
THEOREM OneVersion == Spec => []OneVersionPerFile
<1>1. IInv /\ SnippetInv => OneVersionPerFile
  <2> SUFFICES ASSUME IInv, SnippetInv,
                      NEW k \in DOMAIN findings, NEW l \in DOMAIN findings,
                      findings[k].file = findings[l].file,
                      findings[k].snippet.text = "lines", findings[l].snippet.text = "lines"
               PROVE  findings[k].snippet.of = findings[l].snippet.of
    BY DEF OneVersionPerFile
  <2>1. findings[k].snippet.of = cache[findings[k].file]
    <3>1. PICK content, window : /\ content = cache[findings[k].file]
                                 /\ findings[k].snippet = Excerpt(content, window)
      BY LinesOfTheContent
    <3>2. QED
      BY <3>1 DEF Excerpt
  <2>2. findings[l].snippet.of = cache[findings[l].file]
    <3>1. PICK content, window : /\ content = cache[findings[l].file]
                                 /\ findings[l].snippet = Excerpt(content, window)
      BY LinesOfTheContent
    <3>2. QED
      BY <3>1 DEF Excerpt
  <2>3. QED
    BY <2>1, <2>2
<1>2. QED
  BY <1>1, SnippetInvariance, Invariance, PTL

\* Where a private key of a known kind was read, evidence and source are masked;
\* anywhere else the lines of markers and secrets are.
THEOREM KeysMasked == Spec => []KnownKeysMasked
<1>1. IInv /\ SnippetInv => KnownKeysMasked
  <2> SUFFICES ASSUME IInv, SnippetInv, NEW k \in DOMAIN findings, Attached(k)
               PROVE  LET f == findings[k]
                          content == cache[f.file]
                          holdsKey ==
                            /\ ~Unavailable(content)
                            /\ \E i \in DOMAIN Lines[content] : Lines[content][i] \in Begins
                      IN  /\ f.kind # "private_key" /\ holdsKey =>
                               f.preview = "masked" /\ f.snippet.lines = << >>
                          /\ \A i \in DOMAIN f.snippet.lines :
                               f.snippet.lines[i] \notin Begins \cup Ends \cup {"secret"}
    BY DEF KnownKeysMasked
  <2>1. PICK f, content : f = findings[k] /\ content = cache[f.file]
    OBVIOUS
  <2>2. Settled(f, TRUE, content)
    BY <2>1, SnippetInvIs
  <2>3. f \in Finding /\ f.line \in Nat /\ content \in Contents \cup {Absent, NoCache}
    <3>1. f \in Finding
      BY <2>1 DEF IInv, TypeOK
    <3>2. f.file \in Paths /\ f.line \in Nat
      BY <3>1 DEF Finding
    <3>3. QED
      BY <2>1, <3>1, <3>2 DEF IInv, TypeOK
  <2>4. CASE f.kind = "private_key"
    <3>1. f.snippet.lines = << >>
      BY <2>2, <2>4 DEF Settled, Mask
    <3>2. QED
      BY <2>1, <2>4, <3>1
  <2>5. CASE f.kind # "private_key"
    <3>1. /\ content \in Contents \cup {Absent} /\ f.snippet = snippet_source(content, f.line)
          /\ f.snippet.text = "masked-file" => f.preview = "masked"
      BY <2>2, <2>3, <2>5 DEF Settled
    <3>2. \A i \in DOMAIN f.snippet.lines :
            f.snippet.lines[i] \notin Begins \cup Ends \cup {"secret"}
      BY <2>3, <3>1, SnippetType
    <3>3. ASSUME ~Unavailable(content),
                 \E i \in DOMAIN Lines[content] : Lines[content][i] \in Begins
          PROVE  f.preview = "masked" /\ f.snippet.lines = << >>
      BY <3>1, <3>3 DEF snippet_source, contains_private_key_marker, Mask
    <3>4. QED
      BY <2>1, <3>2, <3>3
  <2>6. QED
    BY <2>4, <2>5
<1>2. QED
  BY <1>1, SnippetInvariance, Invariance, PTL

\* A snippet lies within what it shows and highlights the finding's line.
THEOREM Highlighted == Spec => []SnippetOnTarget
<1>1. IInv /\ SnippetInv => SnippetOnTarget
  <2> SUFFICES ASSUME IInv, SnippetInv, NEW k \in DOMAIN findings,
                      findings[k].snippet.text = "lines"
               PROVE  LET w == findings[k].snippet.window
                          n == Len(Lines[findings[k].snippet.of])
                      IN  /\ 1 <= w.first /\ w.first <= w.highlighted
                          /\ w.highlighted <= w.last /\ w.last <= n
                          /\ w.highlighted = IF findings[k].line <= n
                                             THEN findings[k].line ELSE n
    BY DEF SnippetOnTarget
  <2>1. findings[k].line \in Nat
    <3>1. findings[k] \in Finding
      BY DEF IInv, TypeOK
    <3>2. QED
      BY <3>1 DEF Finding
  <2>2. PICK content, n, t, w :
          /\ content = cache[findings[k].file] /\ n = Len(Lines[content])
          /\ t = findings[k].line /\ w = build_source_snippet(n, t, Before, After)
    OBVIOUS
  <2>3. content \in Contents /\ w # NoSnippet /\ findings[k].snippet = Excerpt(content, w)
    BY <2>2, LinesOfTheContent
  <2>4. findings[k].snippet.of = content /\ findings[k].snippet.window = w
    BY <2>3 DEF Excerpt
  <2>5. n \in Nat /\ t \in Nat /\ Before \in Nat /\ After \in Nat
    BY <2>1, <2>2, <2>3, ContentAssumption DEF Before, After
  <2>6. /\ 1 <= w.first /\ w.first <= w.highlighted
        /\ w.highlighted <= w.last /\ w.last <= n
        /\ w.highlighted = IF t <= n THEN t ELSE n
    BY <2>2, <2>3, <2>5, WindowWithinFile
  <2>7. QED
    BY <2>2, <2>4, <2>6
<1>2. QED
  BY <1>1, SnippetInvariance, Invariance, PTL

-----------------------------------------------------------------------------
\* What was read and what was found is written in the slots of the pool and
\* nowhere else, and a slot once.
LEMMA SlotsKept ==
    ASSUME IInv, [Next]_vars
    PROVE  /\ \A i \in DOMAIN bytes : bytes[i] # Unread => bytes'[i] = bytes[i]
           /\ \A i \in DOMAIN found : found[i] # Pending => found'[i] = found[i]
<1>1. CASE StartPool
  <2>1. bytes = << >> /\ found = << >>
    BY <1>1 DEF StartPool, IInv, PoolInv
  <2>2. QED
    BY <2>1
<1>2. ASSUME NEW w \in Workers, Read(w)
      PROVE  /\ \A i \in DOMAIN bytes : bytes[i] # Unread => bytes'[i] = bytes[i]
             /\ found' = found
  BY <1>2 DEF Read, Unclaimed, IInv, TypeOK
<1>3. ASSUME NEW w \in Workers, Finish(w)
      PROVE  /\ \A i \in DOMAIN found : found[i] # Pending => found'[i] = found[i]
             /\ bytes' = bytes
  <2>1. found[job[w]] = Pending
    BY <1>3 DEF Finish, IInv, PoolInv
  <2>2. QED
    BY <1>3, <2>1 DEF Finish, Slot, IInv, TypeOK
<1>4. CASE /\ ~StartPool
           /\ \A w \in Workers : ~Read(w) /\ ~Finish(w)
  <2>1. bytes' = bytes /\ found' = found
    BY <1>4 DEF Next, Step, Walk, Detect, Profile, Normalize, Attach, Terminated, vars,
       scanVars, WalkVanished, WalkSkip, WalkKeep, Collect, ProfileFile, StartNormalize,
       NormalizeHit, NormalizeSlot, StartSnippets, AttachMasked, AttachSource, Assemble,
       Edit, Abort
  <2>2. QED
    BY <2>1
<1>5. QED
  BY <1>1, <1>2, <1>3, <1>4

\* The first content cached of a file stays.
LEMMA CacheKept ==
    ASSUME IInv, [Next]_vars, NEW p \in Paths, cache[p] # NoCache
    PROVE  cache'[p] = cache[p]
<1>1. CASE AttachSource
  BY <1>1 DEF AttachSource, CachedContent, IInv, TypeOK
<1>2. CASE ~AttachSource
  <2>1. cache' = cache
    BY <1>2 DEF Next, Step, Walk, Detect, Profile, Normalize, Attach, Terminated, vars,
       scanVars, WalkVanished, WalkSkip, WalkKeep, StartPool, Read, Finish, Collect,
       ProfileFile, StartNormalize, NormalizeHit, NormalizeSlot, StartSnippets,
       AttachMasked, Assemble, Edit, Abort
  <2>2. QED
    BY <2>1
<1>3. QED
  BY <1>1, <1>2

\* A finding keeps its place and its severity.
LEMMA FindingsKept ==
    ASSUME IInv, [Next]_vars, NEW k \in DOMAIN findings
    PROVE  /\ FindingKey(findings'[k]) = FindingKey(findings[k])
           /\ findings'[k].severity = findings[k].severity
<1>1. CASE NormalizeHit
  <2>1. findings'[k] = findings[k]
    BY <1>1, NormalizeAppends
  <2>2. QED
    BY <2>1 DEF FindingKey
<1>2. CASE AttachMasked \/ AttachSource
  BY <1>2, AttachKeeps DEF Same
<1>3. CASE ~NormalizeHit /\ ~AttachMasked /\ ~AttachSource
  <2>1. findings' = findings
    BY <1>3, OthersKeepFindings
  <2>2. QED
    BY <2>1 DEF FindingKey
<1>4. QED
  BY <1>1, <1>2, <1>3

\* Bytes, detections, cached contents and the identity of findings are written
\* once, by whichever thread and however the repository changes meanwhile.
THEOREM WrittenOnce == Spec => WriteOnce
<1>1. IInv /\ [Next]_vars =>
        [/\ \A i \in DOMAIN bytes : bytes[i] # Unread => bytes'[i] = bytes[i]
         /\ \A i \in DOMAIN found : found[i] # Pending => found'[i] = found[i]
         /\ \A p \in Paths : cache[p] # NoCache => cache'[p] = cache[p]
         /\ \A k \in DOMAIN findings :
              /\ FindingKey(findings'[k]) = FindingKey(findings[k])
              /\ findings'[k].severity = findings[k].severity]_vars
  BY SlotsKept, CacheKept, FindingsKept
<1>2. QED
  BY <1>1, Invariance, PTL DEF Spec, WriteOnce

-----------------------------------------------------------------------------
\* A file has one slot, so CHOOSE finds it.
LEMMA ObservedIs ==
    ASSUME IInv
    PROVE  /\ DOMAIN bytes \subseteq DOMAIN files
           /\ \A i \in DOMAIN bytes : files[i] \in Paths /\ observed[files[i]] = bytes[i]
           /\ \A p \in Paths : (\A i \in DOMAIN bytes : files[i] # p) => observed[p] = Unread
<1>1. DOMAIN bytes \subseteq DOMAIN files
  BY DEF IInv, TypeOK, PoolInv
<1>2. ASSUME NEW i \in DOMAIN bytes PROVE files[i] \in Paths /\ observed[files[i]] = bytes[i]
  <2>1. files[i] \in Paths
    BY <1>1 DEF IInv, TypeOK
  <2>2. \A j \in DOMAIN bytes : files[j] = files[i] => j = i
    BY <1>1 DEF IInv, DetectionsAsRead
  <2>3. (CHOOSE j \in DOMAIN bytes : files[j] = files[i]) = i
    BY <2>2
  <2>4. QED
    BY <2>1, <2>3 DEF observed
<1>3. \A p \in Paths : (\A i \in DOMAIN bytes : files[i] # p) => observed[p] = Unread
  BY DEF observed
<1>4. QED
  BY <1>1, <1>2, <1>3

\* A scan starts as the promise does.
LEMMA InitPromise == Init => Promise!Init
BY DEF Init, Promise!Init, status, observed, result

\* Reading a file observes it.
LEMMA ReadObserves ==
    ASSUME IInv, NEW w \in Workers, Read(w) PROVE Promise!Observe
<1>1. PICK i \in DOMAIN files :
        /\ bytes[i] = Unread /\ bytes' = [bytes EXCEPT ![i] = disk[files[i]]]
        /\ phase = "detect" /\ UNCHANGED <<phase, files, report>>
  BY DEF Read, Unclaimed
<1>2. /\ i \in DOMAIN bytes /\ DOMAIN bytes = DOMAIN files /\ DOMAIN bytes' = DOMAIN bytes
      /\ files[i] \in Paths /\ disk[files[i]] \in Contents \cup {Absent}
  BY <1>1 DEF IInv, TypeOK, PoolInv
<1>3. observed[files[i]] = Unread
  BY <1>1, <1>2, ObservedIs
<1>4. observed' = [observed EXCEPT ![files[i]] = disk[files[i]]]
  <2> DEFINE slot(p) == CHOOSE j \in DOMAIN bytes : files[j] = p
  <2>1. observed' = [p \in Paths |-> IF \E j \in DOMAIN bytes : files[j] = p
                                     THEN bytes'[slot(p)] ELSE Unread]
    BY <1>1, <1>2 DEF observed
  <2>2. ASSUME NEW p \in Paths
        PROVE  observed'[p] = IF p = files[i] THEN disk[files[i]] ELSE observed[p]
    <3>1. CASE \E j \in DOMAIN bytes : files[j] = p
      <4>1. PICK j \in DOMAIN bytes : files[j] = p
        BY <3>1
      <4>2. slot(p) \in DOMAIN bytes /\ files[slot(p)] = p
        BY <3>1
      <4>3. slot(p) = j
        BY <1>2, <4>1, <4>2 DEF IInv, DetectionsAsRead
      <4>4. p = files[i] <=> j = i
        BY <1>2, <4>1 DEF IInv, DetectionsAsRead
      <4>5. observed'[p] = bytes'[j] /\ observed[p] = bytes[j]
        BY <2>1, <3>1, <4>3 DEF observed
      <4>6. bytes'[j] = IF j = i THEN disk[files[i]] ELSE bytes[j]
        BY <1>1, <1>2 DEF IInv, TypeOK
      <4>7. QED
        BY <4>4, <4>5, <4>6
    <3>2. CASE \A j \in DOMAIN bytes : files[j] # p
      BY <1>2, <2>1, <3>2 DEF observed
    <3>3. QED
      BY <3>1, <3>2
  <2>3. QED
    BY <1>2, <2>1, <2>2 DEF observed
<1>5. status = "scanning" /\ UNCHANGED <<status, result>>
  BY <1>1 DEF status, result
<1>6. QED
  BY <1>2, <1>3, <1>4, <1>5 DEF Promise!Observe

\* An abort, before anything is read, is a failure.
LEMMA AbortFails == ASSUME IInv, Abort PROVE Promise!Fail
BY DEF Abort, Promise!Fail, status, observed, result

\* The other steps are not seen, but for the one that assembles the report.
LEMMA OtherStepsUnseen ==
    ASSUME IInv, [Next]_vars, ~Abort, ~Assemble, \A w \in Workers : ~Read(w)
    PROVE  UNCHANGED <<status, observed, result>>
<1>1. CASE StartPool \/ \E p \in Paths : WalkKeep(p)
  <2>1. phase = "walk" /\ phase' \in {"walk", "detect"} /\ bytes = << >>
        /\ \A i \in DOMAIN bytes' : bytes'[i] = Unread
    BY <1>1 DEF StartPool, WalkKeep, IInv, PoolInv
  <2>2. observed = [p \in Paths |-> Unread]
    BY <2>1 DEF observed
  <2>3. observed' = [p \in Paths |-> Unread]
    <3> DEFINE slot(p) == CHOOSE i \in DOMAIN bytes' : files'[i] = p
    <3>1. \A p \in Paths : (\E i \in DOMAIN bytes' : files'[i] = p) => slot(p) \in DOMAIN bytes'
      OBVIOUS
    <3>2. observed' = [p \in Paths |-> IF \E i \in DOMAIN bytes' : files'[i] = p
                                       THEN bytes'[slot(p)] ELSE Unread]
      BY DEF observed
    <3>3. QED
      BY <2>1, <3>1, <3>2
  <2>4. QED
    BY <2>1, <2>2, <2>3 DEF status, result
<1>2. CASE ~StartPool /\ \A p \in Paths : ~WalkKeep(p)
  <2>1. /\ UNCHANGED <<bytes, files, report>>
        /\ \/ phase' = phase
           \/ phase \notin {"done", "failed"} /\ phase' \notin {"done", "failed"}
    BY <1>2
       DEF Next, Step, Walk, Detect, Profile, Normalize, Attach, Terminated, vars,
           scanVars, WalkVanished, WalkSkip, Finish, Collect, ProfileFile, StartNormalize,
           NormalizeHit, NormalizeSlot, StartSnippets, AttachMasked, AttachSource, Edit
  <2>2. UNCHANGED observed
    BY <2>1 DEF observed
  <2>3. QED
    BY <2>1, <2>2 DEF status, result
<1>3. QED
  BY <1>1, <1>2
-----------------------------------------------------------------------------
\* When the report is assembled, every file of the walk was read and searched.
LEMMA AllFound ==
    ASSUME IInv, phase = "snippets"
    PROVE  /\ DOMAIN bytes = DOMAIN files /\ DOMAIN found = DOMAIN files
           /\ \A i \in DOMAIN files :
                /\ found[i] # Pending /\ found[i] \in Seq(Detection)
                /\ bytes[i] \in Contents \cup {Absent}
                /\ found[i] = detect(files[i], bytes[i])
           /\ \A i, k : Passed(i, k)
<1>1. DOMAIN bytes = DOMAIN files /\ DOMAIN found = DOMAIN files
  BY DEF IInv, TypeOK, PoolInv
<1>2. \A i \in DOMAIN files : found[i] # Pending
  BY DEF IInv, DetectionsAsRead, Collected
<1>3. QED
  BY <1>1, <1>2 DEF IInv, TypeOK, DetectionsAsRead, Passed

\* What the promise says is in a file is what was found in it.
LEMMA HitsAsFound ==
    ASSUME IInv, phase = "snippets", NEW i \in DOMAIN files
    PROVE  /\ files[i] \in Paths
           /\ DOMAIN Promise!HitsIn(files[i]) = DOMAIN found[i]
           /\ \A j \in DOMAIN found[i] :
                found[i][j] = <<files[i], Promise!HitsIn(files[i])[j]>>
<1>1. files[i] \in Paths /\ observed[files[i]] = bytes[i]
  BY ObservedIs, AllFound
<1>2. bytes[i] \in Contents \cup {Absent} /\ found[i] = detect(files[i], bytes[i])
  BY AllFound
<1>3. Promise!HitsIn(files[i]) =
        IF Readable(bytes[i]) THEN Detections[bytes[i]] ELSE << >>
  BY <1>1, <1>2, ContentAssumption DEF Promise!HitsIn, Readable
<1>4. found[i] = [k \in DOMAIN Promise!HitsIn(files[i]) |->
                    <<files[i], Promise!HitsIn(files[i])[k]>>]
  BY <1>2, <1>3 DEF detect
<1>5. QED
  BY <1>1, <1>4

\* A file the walk did not keep was not observed.
LEMMA NoHitsElsewhere ==
    ASSUME IInv, phase = "snippets", NEW p \in Paths, \A i \in DOMAIN files : files[i] # p
    PROVE  Promise!HitsIn(p) = << >>
<1>1. observed[p] = Unread
  BY ObservedIs, AllFound
<1>2. QED
  BY <1>1, ContentAssumption DEF Promise!HitsIn

\* Both use the adjustment of Risk.
LEMMA SameAdjustment ==
    ASSUME NEW r, NEW kind
    PROVE  Promise!adjusted_severity(r, kind) = adjusted_severity(r, kind)
<1>1. Promise!Promoted(r) <=> Promoted(r)
  BY DEF Promise!Promoted, Promoted, Promise!SensitiveCategory, SensitiveCategory
<1>2. Promise!bump_severity(r.severity) = bump_severity(r.severity)
  BY DEF Promise!bump_severity, bump_severity, Promise!Critical, Critical
<1>3. QED
  BY <1>1, <1>2 DEF Promise!adjusted_severity, adjusted_severity, Promise!Critical, Critical

\* The place of a detection, in the terms of the promise.
FilePlace(e) == <<files[e[1]], e[2]>>

\* The places of the promise are the first places.
LEMMA ReportedAsFound ==
    ASSUME IInv, phase = "snippets"
    PROVE  /\ \A e \in FirstPlaces :
                /\ FilePlace(e) \in Promise!Reported
                /\ Promise!HitAt(FilePlace(e)) = At(e)[2]
                /\ Promise!SeverityAt(FilePlace(e))
                     = adjusted_severity(RuleOf[At(e)[2].rule], At(e)[2].kind)
           /\ \A r \in Promise!Reported : \E e \in FirstPlaces : r = FilePlace(e)
           /\ \A d, e \in FirstPlaces : FilePlace(d) = FilePlace(e) => d = e
<1>1. ASSUME NEW i \in DOMAIN files, NEW j \in DOMAIN found[i], NEW k \in DOMAIN found[i]
      PROVE  Promise!HitKey(Promise!HitsIn(files[i])[k]) = Promise!HitKey(Promise!HitsIn(files[i])[j])
               <=> DetectionKey(found[i][k]) = DetectionKey(found[i][j])
  <2>1. /\ found[i][j] = <<files[i], Promise!HitsIn(files[i])[j]>>
        /\ found[i][k] = <<files[i], Promise!HitsIn(files[i])[k]>>
    BY HitsAsFound
  <2>2. QED
    BY <2>1 DEF DetectionKey, Promise!HitKey
<1>2. ASSUME NEW e \in FirstPlaces
      PROVE  /\ FilePlace(e) \in Promise!Reported
             /\ Promise!HitAt(FilePlace(e)) = At(e)[2]
             /\ Promise!SeverityAt(FilePlace(e))
                  = adjusted_severity(RuleOf[At(e)[2].rule], At(e)[2].kind)
  <2>1. PICK i, j : i = e[1] /\ j = e[2]
    OBVIOUS
  <2>2. /\ i \in DOMAIN files /\ j \in DOMAIN found[i] /\ j \in Nat \ {0}
        /\ At(e) = found[i][j] /\ found[i][j][2].rule \in RuleIds
        /\ found[i] \in Seq(Detection)
        /\ \A k \in 1..(j - 1) : DetectionKey(found[i][k]) # DetectionKey(found[i][j])
    BY <2>1, FirstPlaceFacts
  <2>3. \A k \in 1..(j - 1) : k \in DOMAIN found[i]
    BY <2>2
  <2>4. /\ files[i] \in Paths /\ DOMAIN Promise!HitsIn(files[i]) = DOMAIN found[i]
        /\ found[i][j] = <<files[i], Promise!HitsIn(files[i])[j]>>
    BY <2>2, HitsAsFound
  <2>5. \A k \in 1..(j - 1) : Promise!HitKey(Promise!HitsIn(files[i])[k])
                                # Promise!HitKey(Promise!HitsIn(files[i])[j])
    BY <1>1, <2>2, <2>3
  <2>6. <<files[i], j>> \in UNION {{p} \X DOMAIN Promise!HitsIn(p) : p \in Paths}
    BY <2>2, <2>4
  <2>7. <<files[i], j>> \in Promise!Reported
    BY <2>2, <2>4, <2>5, <2>6 DEF Promise!Reported
  <2>8. Promise!HitAt(<<files[i], j>>) = At(e)[2]
    BY <2>2, <2>4 DEF Promise!HitAt
  <2>9. QED
    BY <2>1, <2>7, <2>8, SameAdjustment DEF FilePlace, Promise!SeverityAt
<1>3. ASSUME NEW r \in Promise!Reported PROVE \E e \in FirstPlaces : r = FilePlace(e)
  <2>1. PICK p \in Paths : r \in {p} \X DOMAIN Promise!HitsIn(p)
    BY DEF Promise!Reported
  <2>2. PICK j \in DOMAIN Promise!HitsIn(p) : r = <<p, j>>
    BY <2>1
  <2>3. PICK i \in DOMAIN files : files[i] = p
    BY <2>2, NoHitsElsewhere
  <2>4. /\ DOMAIN Promise!HitsIn(p) = DOMAIN found[i]
        /\ found[i][j] = <<p, Promise!HitsIn(p)[j]>>
    BY <2>2, <2>3, HitsAsFound
  <2>5. /\ found[i] # Pending /\ found[i] \in Seq(Detection) /\ i \in DOMAIN found
    BY AllFound
  <2>6. /\ Promise!HitsIn(p)[j].rule \in RuleIds
        /\ \A k \in 1..(j - 1) : Promise!HitKey(Promise!HitsIn(p)[k])
                                   # Promise!HitKey(Promise!HitsIn(p)[j])
    BY <2>2 DEF Promise!Reported
  <2>7. \A k \in 1..(j - 1) : k \in DOMAIN found[i]
    BY <2>2, <2>4, <2>5
  <2>8. \A k \in 1..(j - 1) : DetectionKey(found[i][k]) # DetectionKey(found[i][j])
    BY <1>1, <2>2, <2>3, <2>4, <2>6, <2>7
  <2>9. <<i, j>> \in FirstPlaces
    <3>1. <<i, j>> \in UNION {{x} \X (DOMAIN found[x]) : x \in {x \in DOMAIN found : found[x] # Pending}}
      BY <2>2, <2>4, <2>5
    <3>2. QED
      BY <2>4, <2>6, <2>8, <3>1 DEF FirstPlaces, At
  <2>10. r = FilePlace(<<i, j>>)
    BY <2>2, <2>3 DEF FilePlace
  <2>11. QED
    BY <2>9, <2>10
<1>4. \A d, e \in FirstPlaces : FilePlace(d) = FilePlace(e) => d = e
  BY FirstPlaceFacts DEF FilePlace, IInv, DetectionsAsRead
<1>5. QED
  BY <1>2, <1>3, <1>4

\* The order of sort_by: Precedes, and the place for findings it does not order.
Sorts == {p \in (DOMAIN findings) \X (DOMAIN findings) :
            \/ Precedes(findings[p[1]], findings[p[2]])
            \/ ~Precedes(findings[p[2]], findings[p[1]]) /\ p[1] < p[2]}

\* What sort_by compares is numbers.
LEMMA FindingNumbers ==
    ASSUME NEW f \in Finding PROVE f.severity \in Nat /\ f.file \in Nat
<1>1. f.severity \in Severity /\ f.file \in Paths
  BY DEF Finding
<1>2. Severity \subseteq Nat /\ Paths \subseteq Nat
  BY PathsAssumption DEF Severity, Info, Critical
<1>3. QED
  BY <1>1, <1>2

\* Every finding is a promised one, in the order of the promise.
LEMMA FindingsAsPromised ==
    ASSUME IInv, FindingsExact, FirstsInOrder, phase = "snippets"
    PROVE  \E P \in [DOMAIN findings -> Promise!Reported] :
             /\ \A r \in Promise!Reported : \E k \in DOMAIN findings : P[k] = r
             /\ \A k, l \in DOMAIN findings : P[k] = P[l] => k = l
             /\ \A k \in DOMAIN findings :
                  /\ PromisedPart(findings[k]) = Promise!PromisedFinding(P[k])
                  /\ CbomKey(findings[k]) = <<Promise!HitAt(P[k]).rule, P[k][1],
                       Promise!HitAt(P[k]).line, Promise!HitAt(P[k]).match>>
             /\ \A k, l \in DOMAIN findings :
                  Promise!Earlier(P[k], P[l]) <=> <<k, l>> \in Sorts
<1>1. PICK E : E = [k \in DOMAIN findings |->
                      CHOOSE e \in FirstPlaces : MadeOf(findings[k], At(e))]
  OBVIOUS
<1>2. ASSUME NEW k \in DOMAIN findings
      PROVE  E[k] \in FirstPlaces /\ MadeOf(findings[k], At(E[k]))
  <2>1. \E e \in FirstPlaces : MadeOf(findings[k], At(e))
    BY DEF FirstsInOrder
  <2>2. QED
    BY <1>1, <2>1
<1>3. PICK P : P = [k \in DOMAIN findings |-> FilePlace(E[k])]
  OBVIOUS
<1>4. P \in [DOMAIN findings -> Promise!Reported]
  BY <1>2, <1>3, ReportedAsFound
<1>5. ASSUME NEW r \in Promise!Reported PROVE \E k \in DOMAIN findings : P[k] = r
  <2>1. PICK e \in FirstPlaces : r = FilePlace(e)
    BY ReportedAsFound
  <2>2. PICK k \in DOMAIN findings : FindingKey(findings[k]) = DetectionKey(At(e))
    BY AllFound, FirstPlaceFacts DEF FindingsExact, HasFinding
  <2>3. E[k] = e
    BY <1>2, <2>2, FirstPlaceUnique DEF MadeOf
  <2>4. QED
    BY <1>3, <2>1, <2>3
<1>6. ASSUME NEW k \in DOMAIN findings, NEW l \in DOMAIN findings, P[k] = P[l] PROVE k = l
  <2>1. E[k] = E[l]
    BY <1>2, <1>3, <1>6, ReportedAsFound
  <2>2. FindingKey(findings[k]) = FindingKey(findings[l])
    BY <1>2, <2>1 DEF MadeOf
  <2>3. QED
    BY <2>2 DEF FindingsExact
<1>7. ASSUME NEW k \in DOMAIN findings
      PROVE  /\ PromisedPart(findings[k]) = Promise!PromisedFinding(P[k])
             /\ CbomKey(findings[k]) = <<Promise!HitAt(P[k]).rule, P[k][1],
                  Promise!HitAt(P[k]).line, Promise!HitAt(P[k]).match>>
             /\ Promise!SeverityAt(P[k]) = findings[k].severity
             /\ P[k][1] = findings[k].file /\ P[k][2] = E[k][2]
  <2>1. /\ At(E[k])[1] = P[k][1] /\ Promise!HitAt(P[k]) = At(E[k])[2]
        /\ Promise!SeverityAt(P[k])
             = adjusted_severity(RuleOf[At(E[k])[2].rule], At(E[k])[2].kind)
        /\ P[k][2] = E[k][2]
    BY <1>2, <1>3, FirstPlaceFacts, ReportedAsFound DEF FilePlace
  <2>2. MadeOf(findings[k], At(E[k]))
    BY <1>2
  <2>3. /\ findings[k].rule = At(E[k])[2].rule /\ findings[k].file = At(E[k])[1]
        /\ findings[k].line = At(E[k])[2].line /\ findings[k].column = At(E[k])[2].column
        /\ findings[k].match = At(E[k])[2].match
        /\ findings[k].severity = Promise!SeverityAt(P[k])
    BY <2>1, <2>2 DEF MadeOf, FindingKey, DetectionKey
  <2>4. QED
    BY <2>1, <2>3 DEF PromisedPart, Promise!PromisedFinding, CbomKey
<1>8. ASSUME NEW k \in DOMAIN findings, NEW l \in DOMAIN findings
      PROVE  Promise!Earlier(P[k], P[l]) <=> <<k, l>> \in Sorts
  <2>1. /\ k \in Nat /\ l \in Nat /\ findings[k] \in Finding /\ findings[l] \in Finding
    BY DEF IInv, TypeOK
  <2>2. /\ findings[k].severity \in Nat /\ findings[l].severity \in Nat
        /\ findings[k].file \in Nat /\ findings[l].file \in Nat
    BY <2>1, FindingNumbers
  <2>3. <<k, l>> \in Sorts <=>
          \/ findings[k].severity > findings[l].severity
          \/ /\ findings[k].severity = findings[l].severity
             /\ findings[k].file < findings[l].file \/ (findings[k].file = findings[l].file /\ k < l)
    BY <2>1, <2>2 DEF Sorts, Precedes
  <2>4. Promise!Earlier(P[k], P[l]) <=>
          \/ findings[k].severity > findings[l].severity
          \/ /\ findings[k].severity = findings[l].severity
             /\ findings[k].file < findings[l].file \/ (findings[k].file = findings[l].file /\ E[k][2] < E[l][2])
    BY <1>7 DEF Promise!Earlier
  <2>5. ASSUME findings[k].file = findings[l].file PROVE E[k][2] < E[l][2] <=> k < l
    <3>1. /\ E[k] \in FirstPlaces /\ E[l] \in FirstPlaces
          /\ MadeOf(findings[k], At(E[k])) /\ MadeOf(findings[l], At(E[l]))
      BY <1>2
    <3>2. /\ E[k][1] \in DOMAIN files /\ E[l][1] \in DOMAIN files
          /\ E[k][1] \in Nat /\ E[l][1] \in Nat /\ E[k][2] \in Nat /\ E[l][2] \in Nat
          /\ At(E[k])[1] = files[E[k][1]] /\ At(E[l])[1] = files[E[l][1]]
      BY <3>1, FirstPlaceFacts
    <3>3. files[E[k][1]] = files[E[l][1]]
      BY <2>5, <3>1, <3>2 DEF MadeOf, FindingKey, DetectionKey
    <3>4. E[k][1] = E[l][1]
      BY <3>2, <3>3 DEF IInv, DetectionsAsRead
    <3>5. k < l => Sooner(E[k], E[l])
      BY <3>1 DEF FirstsInOrder
    <3>6. l < k => Sooner(E[l], E[k])
      BY <3>1 DEF FirstsInOrder
    <3>7. k = l => E[k] = E[l]
      OBVIOUS
    <3>8. QED
      BY <2>1, <3>2, <3>4, <3>5, <3>6, <3>7 DEF Sooner
  <2>6. QED
    BY <2>2, <2>3, <2>4, <2>5
<1>9. QED
  BY <1>4, <1>5, <1>6, <1>7, <1>8

\* The order of sort_by is one.
LEMMA SortsOrders == ASSUME IInv PROVE Orders(Sorts, DOMAIN findings)
<1>1. \A k \in DOMAIN findings : k \in Nat /\ findings[k].severity \in Nat /\ findings[k].file \in Nat
  <2>1. \A k \in DOMAIN findings : k \in Nat /\ findings[k] \in Finding
    BY DEF IInv, TypeOK
  <2>2. QED
    BY <2>1, FindingNumbers
<1>2. \A k, l \in DOMAIN findings : <<k, l>> \in Sorts <=>
          \/ findings[k].severity > findings[l].severity
          \/ /\ findings[k].severity = findings[l].severity
             /\ findings[k].file < findings[l].file \/ (findings[k].file = findings[l].file /\ k < l)
  BY <1>1 DEF Sorts, Precedes
<1>3. QED
  BY <1>1, <1>2 DEF Orders

\* The instance has operators of its own.
LEMMA SameCardinality == \A S : Promise!Cardinality(S) = Cardinality(S)
BY Zenon DEF Promise!Cardinality, Cardinality

PromisedParts(s) == [k \in DOMAIN s |-> PromisedPart(s[k])]
CbomKeys(s) == {CbomKey(s[k]) : k \in DOMAIN s}

\* The sorted findings are those promised, in their order.
LEMMA SortedAsPromised ==
    ASSUME IInv, FindingsExact, FirstsInOrder, phase = "snippets",
           NEW sorted, sorted = SortedFindings
    PROVE  /\ sorted \in Seq(Finding)
           /\ PromisedParts(sorted) = Promise!Promised.findings
           /\ CbomKeys(sorted) = Promise!Promised.cbom
<1>1. PICK D, n : /\ D = DOMAIN findings /\ n = Len(findings) /\ D = 1..n /\ n \in Nat
                  /\ findings \in Seq(Finding)
  BY DEF IInv, TypeOK
<1>2. PICK M : M = Listed(DOMAIN findings, Sorts)
  OBVIOUS
<1>3. sorted = Through(findings, M)
  <2> DEFINE sort(t) == Through(t, Listed(DOMAIN t,
                          {p \in (DOMAIN t) \X (DOMAIN t) :
                              \/ Precedes(t[p[1]], t[p[2]])
                              \/ ~Precedes(t[p[2]], t[p[1]]) /\ p[1] < p[2]}))
  <2>1. sort(findings) = Through(findings, M)
    BY <1>2 DEF Sorts
  <2>2. sorted = CHOOSE r \in {sort(t) : t \in {findings}} : TRUE
    BY DEF SortedFindings, StableSort, Once
  <2> HIDE DEF sort
  <2>3. {sort(t) : t \in {findings}} = {sort(findings)}
    OBVIOUS
  <2>4. QED
    BY <2>1, <2>2, <2>3
<1>4. /\ M \in [D -> D]
      /\ \A i \in D : \E k \in D : M[k] = i
      /\ \A k \in D : Rank(D, Sorts, M[k]) = k - 1
      /\ sorted = [k \in D |-> findings[M[k]]]
      /\ sorted \in Seq(Finding) /\ Len(sorted) = n /\ DOMAIN sorted = D
  <2>1. PICK s \in Seq(Finding) : s = findings /\ D = DOMAIN s /\ n = Len(s)
    BY <1>1
  <2>2. Orders(Sorts, DOMAIN s) /\ M = Listed(DOMAIN s, Sorts) /\ sorted = Through(s, M)
    BY <1>1, <1>2, <1>3, <2>1, SortsOrders
  <2>3. /\ M \in [DOMAIN s -> DOMAIN s]
        /\ \A i \in DOMAIN s : \E k \in DOMAIN s : M[k] = i
        /\ \A k \in DOMAIN s : Rank(DOMAIN s, Sorts, M[k]) = k - 1
        /\ sorted = [k \in DOMAIN s |-> s[M[k]]]
        /\ sorted \in Seq(Finding) /\ Len(sorted) = Len(s)
    BY <2>2, SortedPositions
  <2>4. QED
    BY <1>1, <2>1, <2>3
<1>5. PICK P \in [D -> Promise!Reported] :
        /\ \A r \in Promise!Reported : \E k \in D : P[k] = r
        /\ \A k, l \in D : P[k] = P[l] => k = l
        /\ \A k \in D :
             /\ PromisedPart(findings[k]) = Promise!PromisedFinding(P[k])
             /\ CbomKey(findings[k]) = <<Promise!HitAt(P[k]).rule, P[k][1],
                  Promise!HitAt(P[k]).line, Promise!HitAt(P[k]).match>>
        /\ \A k, l \in D : Promise!Earlier(P[k], P[l]) <=> <<k, l>> \in Sorts
  BY <1>1, FindingsAsPromised
<1>6. PICK T, Q : /\ T = Promise!Reported
                  /\ Q = {p \in T \X T : Promise!Earlier(p[1], p[2])}
  OBVIOUS
<1>7. IsFiniteSet(D) /\ Cardinality(D) = n /\ Orders(Sorts, D)
  <2>1. IsFiniteSet(D) /\ Cardinality(D) = n
    BY <1>1, IntervalSize
  <2>2. QED
    BY <1>1, <2>1, SortsOrders
<1>8. /\ P \in [D -> T]
      /\ \A k, l \in D : P[k] = P[l] => k = l
      /\ \A r \in T : \E k \in D : P[k] = r
      /\ \A k, l \in D : <<P[k], P[l]>> \in Q <=> <<k, l>> \in Sorts
  BY <1>5, <1>6
<1>9. /\ IsFiniteSet(T) /\ Cardinality(T) = n
      /\ \A k \in D : Rank(T, Q, P[k]) = Rank(D, Sorts, k)
  <2>1. PICK R : R = Sorts
    OBVIOUS
  <2>2. IsFiniteSet(D) /\ KeepsOrder(P, D, R, T, Q)
    BY <1>7, <1>8, <2>1 DEF KeepsOrder
  <2>3. /\ IsFiniteSet(T) /\ Cardinality(T) = Cardinality(D)
        /\ \A k \in D : Rank(T, Q, P[k]) = Rank(D, R, k)
    BY <2>2, RanksMoved
  <2>4. QED
    BY <1>7, <2>1, <2>3
<1>10. \A k, l \in D : Rank(D, Sorts, k) = Rank(D, Sorts, l) => k = l
  BY <1>7, RankRange
<1>11. ASSUME NEW k \in D PROVE Promise!Ranked(k) = P[M[k]]
  <2>1. M[k] \in D /\ P[M[k]] \in T /\ Rank(T, Q, P[M[k]]) = k - 1
    BY <1>4, <1>8, <1>9
  <2>2. ASSUME NEW r \in T, Rank(T, Q, r) = k - 1 PROVE r = P[M[k]]
    <3>1. PICK l \in D : P[l] = r
      BY <1>8
    <3>2. Rank(D, Sorts, l) = Rank(D, Sorts, M[k])
      BY <1>4, <1>9, <2>1, <2>2, <3>1
    <3>3. QED
      BY <1>10, <2>1, <3>1, <3>2
  <2>3. \A r \in T : Cardinality({d \in T : Promise!Earlier(d, r)}) = Rank(T, Q, r)
    <3>1. ASSUME NEW r \in T PROVE {d \in T : Promise!Earlier(d, r)} = {d \in T : <<d, r>> \in Q}
      BY <1>6
    <3>2. QED
      BY <3>1 DEF Rank
  <2>4. \A r \in Promise!Reported :
          Cardinality({d \in Promise!Reported : Promise!Earlier(d, r)}) = k - 1 <=> r = P[M[k]]
    BY <1>6, <2>1, <2>2, <2>3
  <2>5. P[M[k]] \in Promise!Reported
    BY <1>6, <2>1
  <2>6. QED
    BY <2>4, <2>5, SameCardinality, Zenon DEF Promise!Ranked
<1>12. PromisedParts(sorted) = Promise!Promised.findings
  <2>1. Promise!Promised.findings =
          [k \in 1..Cardinality(Promise!Reported) |-> Promise!PromisedFinding(Promise!Ranked(k))]
    <3>1. PICK F : F = [k \in 1..Cardinality(Promise!Reported) |->
                          Promise!PromisedFinding(Promise!Ranked(k))]
      OBVIOUS
    <3>2. QED
      BY <3>1, SameCardinality DEF Promise!Promised
  <2>2. ASSUME NEW k \in D
        PROVE  PromisedPart(sorted[k]) = Promise!PromisedFinding(Promise!Ranked(k))
    <3>1. M[k] \in D /\ sorted[k] = findings[M[k]]
      BY <1>4
    <3>2. PromisedPart(findings[M[k]]) = Promise!PromisedFinding(P[M[k]])
      BY <1>5, <3>1
    <3>3. QED
      BY <1>11, <3>1, <3>2
  <2>3. DOMAIN sorted = D /\ D = 1..Cardinality(Promise!Reported)
    BY <1>1, <1>4, <1>6, <1>9
  <2>4. QED
    BY <2>1, <2>2, <2>3 DEF PromisedParts
<1>13. CbomKeys(sorted) = Promise!Promised.cbom
  <2> DEFINE key(r) == <<Promise!HitAt(r).rule, r[1], Promise!HitAt(r).line, Promise!HitAt(r).match>>
  <2>1. Promise!Promised.cbom = {key(r) : r \in T}
    BY <1>6 DEF Promise!Promised
  <2>2. \A k \in D : CbomKey(findings[k]) = key(P[k]) /\ P[k] \in T
    BY <1>5, <1>6
  <2>3. \A r \in T : \E k \in D : P[k] = r
    BY <1>8
  <2> HIDE DEF key
  <2>4. {CbomKey(findings[k]) : k \in D} = {key(r) : r \in T}
    BY <2>2, <2>3
  <2>5. {CbomKey(sorted[k]) : k \in DOMAIN sorted} = {CbomKey(findings[k]) : k \in D}
    <3>1. \A k \in D : sorted[k] = findings[M[k]] /\ M[k] \in D
      BY <1>4
    <3>2. DOMAIN sorted = D /\ \A i \in D : \E k \in D : M[k] = i
      BY <1>4
    <3>3. QED
      BY <3>1, <3>2
  <2>6. QED
    BY <2>1, <2>4, <2>5 DEF CbomKeys
<1>14. QED
  BY <1>4, <1>12, <1>13

\* The CBOM of the sorted findings has the entries promised, each once.
LEMMA CbomAsPromised ==
    ASSUME IInv, FindingsExact, FirstsInOrder, phase = "snippets",
           NEW sorted, sorted = SortedFindings,
           NEW cbom, cbom = build_cbom(sorted)
    PROVE  AsSet([k \in DOMAIN cbom |-> CbomKey(cbom[k])]) = Promise!Promised.cbom
<1>1. sorted \in Seq(Finding) /\ CbomKeys(sorted) = Promise!Promised.cbom
  BY SortedAsPromised
<1>2. PICK K : K = [k \in DOMAIN sorted |-> CbomKey(sorted[k])]
  OBVIOUS
<1>3. cbom = Picked(sorted, FirstsOf(K))
  <2> DEFINE first(t) == {i \in DOMAIN t : \A j \in 1..(i - 1) : CbomKey(t[j]) # CbomKey(t[i])}
             keep(t) == Picked(t, first(t))
  <2>1. first(sorted) = FirstsOf(K)
    <3>1. \A i \in DOMAIN sorted : \A j \in 1..(i - 1) : j \in DOMAIN sorted
      BY <1>1
    <3>2. QED
      BY <1>2, <3>1 DEF FirstsOf
  <2>2. keep(sorted) = Picked(sorted, FirstsOf(K))
    BY <2>1
  <2>3. cbom = CHOOSE r \in {keep(t) : t \in {sorted}} : TRUE
    BY DEF build_cbom, KeepFirst, Once
  <2> HIDE DEF keep
  <2>4. {keep(t) : t \in {sorted}} = {keep(sorted)}
    OBVIOUS
  <2>5. QED
    BY <2>2, <2>3, <2>4
<1>4. PICK M : KeptFrom(sorted, K, cbom, M)
  BY <1>1, <1>2, <1>3, KeptKeys
<1>5. PICK f : f = [k \in DOMAIN cbom |-> CbomKey(cbom[k])]
  OBVIOUS
<1>6. DOMAIN f = DOMAIN cbom /\ \A k \in DOMAIN f : f[k] = K[M[k]] /\ M[k] \in DOMAIN K
  BY <1>2, <1>4, <1>5 DEF KeptFrom
<1>7. AsSet(f) = {f[k] : k \in DOMAIN f}
  BY <1>4, <1>6 DEF AsSet, KeptFrom
<1>8. {f[k] : k \in DOMAIN f} = {K[i] : i \in DOMAIN K}
  <2>1. ASSUME NEW i \in DOMAIN K PROVE \E k \in DOMAIN f : f[k] = K[i]
    <3>1. PICK k \in DOMAIN cbom : K[M[k]] = K[i]
      BY <1>2, <1>4 DEF KeptFrom
    <3>2. QED
      BY <1>6, <3>1
  <2>2. QED
    BY <1>6, <2>1
<1>9. {K[i] : i \in DOMAIN K} = CbomKeys(sorted)
  BY <1>2 DEF CbomKeys
<1>10. QED
  BY <1>1, <1>5, <1>7, <1>8, <1>9

\* The Vec of detections has what was found in every file, and nothing else.
LEMMA DetectionsOfFiles ==
    ASSUME IInv, phase = "snippets", NEW all, all = AllDetections
    PROVE  /\ all \in Seq(Detection)
           /\ \A k \in DOMAIN all : \E i \in DOMAIN files : \E j \in DOMAIN found[i] :
                all[k] = found[i][j]
           /\ \A i \in DOMAIN files : \A j \in DOMAIN found[i] : \E k \in DOMAIN all :
                all[k] = found[i][j]
<1>1. PICK n, ss : n = Len(files) /\ ss = found
  OBVIOUS
<1>2. DOMAIN files = 1..n /\ DOMAIN ss = 1..n /\ n \in Nat
  BY <1>1, AllFound DEF IInv, TypeOK
<1>3. Parts(ss, n, Detection)
  BY <1>1, <1>2, AllFound DEF Parts
<1>4. all = Flattened(ss)
  BY <1>1 DEF AllDetections
<1>5. all \in Seq(Detection) /\ ElementsOf(ss, all)
  BY <1>3, <1>4, FlattenedPlaces
<1>6. QED
  BY <1>1, <1>2, <1>5 DEF ElementsOf

DependencyKeys(s) == {DependencyKey(s[k]) : k \in DOMAIN s}

\* What the promised SBOM lists is what the files name.
LEMMA PromisedPackages ==
    ASSUME IInv, phase = "snippets", NEW all, all = AllDetections,
           NEW items, items = {DependencyKey(all[k]) : k \in {k \in DOMAIN all : all[k][2].dep # 0}}
    PROVE  items = Promise!Promised.sbom
<1> DEFINE pairs(p) == {<<Promise!HitsIn(p)[k].dep, p>> : k \in DOMAIN Promise!HitsIn(p)}
<1>1. Promise!Promised.sbom = (UNION {pairs(p) : p \in Paths}) \ {<<0, p>> : p \in Paths}
  BY DEF Promise!Promised
<1>2. ASSUME NEW x \in items PROVE x \in (UNION {pairs(p) : p \in Paths}) \ {<<0, p>> : p \in Paths}
  <2>1. PICK k \in DOMAIN all : all[k][2].dep # 0 /\ x = DependencyKey(all[k])
    OBVIOUS
  <2>2. PICK i \in DOMAIN files : \E j \in DOMAIN found[i] : all[k] = found[i][j]
    BY DetectionsOfFiles
  <2>7. PICK j \in DOMAIN found[i] : all[k] = found[i][j]
    BY <2>2
  <2>3. /\ files[i] \in Paths /\ j \in DOMAIN Promise!HitsIn(files[i])
        /\ found[i][j] = <<files[i], Promise!HitsIn(files[i])[j]>>
    BY HitsAsFound
  <2>4. x = <<Promise!HitsIn(files[i])[j].dep, files[i]>> /\ x[1] # 0
    BY <2>1, <2>3, <2>7 DEF DependencyKey
  <2>5. x \in pairs(files[i])
    BY <2>3, <2>4
  <2>6. QED
    BY <2>3, <2>4, <2>5
<1>3. ASSUME NEW x \in (UNION {pairs(p) : p \in Paths}) \ {<<0, p>> : p \in Paths} PROVE x \in items
  <2>1. PICK p \in Paths : x \in pairs(p)
    OBVIOUS
  <2>2. PICK j \in DOMAIN Promise!HitsIn(p) : x = <<Promise!HitsIn(p)[j].dep, p>>
    BY <2>1
  <2>3. Promise!HitsIn(p)[j].dep # 0
    BY <2>2
  <2>4. PICK i \in DOMAIN files : files[i] = p
    BY <2>2, NoHitsElsewhere
  <2>5. j \in DOMAIN found[i] /\ found[i][j] = <<p, Promise!HitsIn(p)[j]>>
    BY <2>2, <2>4, HitsAsFound
  <2>6. PICK k \in DOMAIN all : all[k] = found[i][j]
    BY <2>5, DetectionsOfFiles
  <2>7. all[k][2].dep # 0 /\ x = DependencyKey(all[k])
    BY <2>2, <2>3, <2>5, <2>6 DEF DependencyKey
  <2>8. QED
    BY <2>7
<1> HIDE DEF pairs
<1>4. QED
  BY <1>1, <1>2, <1>3

\* The items with a name, each once, and the places they come from.
LEMMA ItemsOnce ==
    ASSUME IInv, phase = "snippets", NEW items, items = UniqueItems
    PROVE  /\ items \in Seq(Detection)
           /\ \A k, l \in DOMAIN items : DependencyKey(items[k]) = DependencyKey(items[l]) => k = l
           /\ DependencyKeys(items) = Promise!Promised.sbom
<1>1. PICK all : all = AllDetections
  OBVIOUS
<1>2. all \in Seq(Detection)
  BY <1>1, DetectionsOfFiles
<1>3. PICK N : N = {i \in DOMAIN all : all[i][2].dep # 0}
  OBVIOUS
<1>4. PICK named : named = Picked(all, N)
  OBVIOUS
<1>5. named = DependencyItems
  BY <1>1, <1>3, <1>4 DEF DependencyItems
<1>6. PICK P : /\ Runs(P, N, Ascending(N))
               /\ \A k, l \in 1..Cardinality(N) : P[k] < P[l] <=> k < l
               /\ Picked(all, N) = [k \in 1..Cardinality(N) |-> all[P[k]]]
               /\ Picked(all, N) \in Seq(Detection) /\ Len(Picked(all, N)) = Cardinality(N)
  <2>1. N \in SUBSET DOMAIN all
    BY <1>3
  <2>2. QED
    BY <1>2, <2>1, PickedPositions
<1>7. /\ named \in Seq(Detection)
      /\ \A k \in DOMAIN named : P[k] \in N /\ named[k] = all[P[k]]
      /\ \A i \in N : \E k \in DOMAIN named : named[k] = all[i]
  <2>1. DOMAIN named = 1..Cardinality(N) /\ named = [k \in 1..Cardinality(N) |-> all[P[k]]]
    BY <1>4, <1>6
  <2>2. P \in [1..Cardinality(N) -> N] /\ \A i \in N : \E k \in 1..Cardinality(N) : P[k] = i
    BY <1>6 DEF Runs
  <2>3. QED
    BY <1>4, <1>6, <2>1, <2>2
<1>8. PICK K : K = [k \in DOMAIN named |-> DependencyKey(named[k])]
  OBVIOUS
<1>9. items = Picked(named, FirstsOf(K))
  <2> DEFINE first(t) == {i \in DOMAIN t : \A j \in 1..(i - 1) :
                             DependencyKey(t[j]) # DependencyKey(t[i])}
             keep(t) == Picked(t, first(t))
  <2>1. first(named) = FirstsOf(K)
    <3>1. \A i \in DOMAIN named : \A j \in 1..(i - 1) : j \in DOMAIN named
      BY <1>7
    <3>2. QED
      BY <1>8, <3>1 DEF FirstsOf
  <2>2. keep(named) = Picked(named, FirstsOf(K))
    BY <2>1
  <2>3. items = CHOOSE r \in {keep(t) : t \in {named}} : TRUE
    BY <1>5 DEF UniqueItems, KeepFirst, Once
  <2> HIDE DEF keep
  <2>4. {keep(t) : t \in {named}} = {keep(named)}
    OBVIOUS
  <2>5. QED
    BY <2>2, <2>3, <2>4
<1>10. PICK M : items \in Seq(Detection) /\ KeptFrom(named, K, items, M)
  BY <1>7, <1>8, <1>9, KeptKeys
<1>11. \A k \in DOMAIN items : M[k] \in DOMAIN named /\ items[k] = named[M[k]]
                               /\ DependencyKey(items[k]) = K[M[k]]
  BY <1>8, <1>10 DEF KeptFrom
<1>12. \A k, l \in DOMAIN items : DependencyKey(items[k]) = DependencyKey(items[l]) => k = l
  BY <1>10, <1>11 DEF KeptFrom
<1>13. PICK keys : keys = {DependencyKey(all[k]) : k \in N}
  OBVIOUS
<1>14. ASSUME NEW x \in DependencyKeys(items) PROVE x \in keys
  <2>1. PICK k \in DOMAIN items : x = DependencyKey(items[k])
    BY DEF DependencyKeys
  <2>2. P[M[k]] \in N /\ items[k] = all[P[M[k]]]
    BY <1>7, <1>11, <2>1
  <2>3. QED
    BY <1>13, <2>1, <2>2
<1>15. ASSUME NEW x \in keys PROVE x \in DependencyKeys(items)
  <2>1. PICK i \in N : x = DependencyKey(all[i])
    BY <1>13
  <2>2. PICK k \in DOMAIN named : named[k] = all[i]
    BY <1>7
  <2>3. PICK l \in DOMAIN items : K[M[l]] = K[k]
    BY <1>10 DEF KeptFrom
  <2>4. DependencyKey(items[l]) = x
    BY <1>8, <1>11, <2>1, <2>2, <2>3
  <2>5. QED
    BY <2>4 DEF DependencyKeys
<1>16. keys = Promise!Promised.sbom
  <2>1. keys = {DependencyKey(all[k]) : k \in {k \in DOMAIN all : all[k][2].dep # 0}}
    BY <1>3, <1>13
  <2>2. QED
    BY <1>1, <2>1, PromisedPackages
<1>17. QED
  BY <1>10, <1>12, <1>14, <1>15, <1>16

\* The order of the SBOM: by name, by file, then as found.
ByName(s) == {p \in (DOMAIN s) \X (DOMAIN s) :
                 \/ ByDependency(s[p[1]], s[p[2]])
                 \/ ~ByDependency(s[p[2]], s[p[1]]) /\ p[1] < p[2]}

\* It orders the items.
LEMMA ByNameOrders == ASSUME NEW s \in Seq(Detection) PROVE Orders(ByName(s), DOMAIN s)
<1>1. \A k \in DOMAIN s : k \in Nat /\ s[k][1] \in Nat /\ s[k][2].dep \in Nat
  <2>1. ASSUME NEW k \in DOMAIN s PROVE k \in Nat /\ s[k] \in Detection
    OBVIOUS
  <2>2. ASSUME NEW d \in Detection PROVE d[1] \in Nat /\ d[2].dep \in Nat
    <3>1. d[1] \in Paths /\ d[2] \in Hit
      BY HitAssumption DEF Detection
    <3>2. QED
      BY <3>1, PathsAssumption DEF Hit
  <2>3. QED
    BY <2>1, <2>2
<1>2. \A k, l \in DOMAIN s : <<k, l>> \in ByName(s) <=>
          \/ s[k][2].dep < s[l][2].dep
          \/ /\ s[k][2].dep = s[l][2].dep
             /\ s[k][1] < s[l][1] \/ (s[k][1] = s[l][1] /\ k < l)
  BY <1>1 DEF ByName, ByDependency
<1>3. PICK D, B : D = DOMAIN s /\ B = ByName(s)
  OBVIOUS
<1>4. \A e \in D : <<e, e>> \notin B
  BY <1>1, <1>2, <1>3
<1>5. \A d, e \in D : d # e => <<d, e>> \in B \/ <<e, d>> \in B
  BY <1>1, <1>2, <1>3
<1>6. ASSUME NEW c \in D, NEW d \in D, NEW e \in D, <<c, d>> \in B, <<d, e>> \in B
      PROVE  <<c, e>> \in B
  <2>1. PICK dep, file : dep = [k \in D |-> s[k][2].dep] /\ file = [k \in D |-> s[k][1]]
    OBVIOUS
  <2>2. \A k \in D : k \in Nat /\ dep[k] \in Nat /\ file[k] \in Nat
    BY <1>1, <1>3, <2>1
  <2>3. ASSUME NEW k \in D, NEW l \in D
        PROVE  <<k, l>> \in B <=>
                 \/ dep[k] < dep[l]
                 \/ dep[k] = dep[l] /\ (file[k] < file[l] \/ (file[k] = file[l] /\ k < l))
    <3>1. /\ dep[k] = s[k][2].dep /\ dep[l] = s[l][2].dep
          /\ file[k] = s[k][1] /\ file[l] = s[l][1]
      BY <2>1
    <3>2. <<k, l>> \in B <=>
            \/ s[k][2].dep < s[l][2].dep
            \/ /\ s[k][2].dep = s[l][2].dep
               /\ s[k][1] < s[l][1] \/ (s[k][1] = s[l][1] /\ k < l)
      BY <1>2, <1>3
    <3>3. QED
      BY <3>1, <3>2
  <2>4. QED
    BY <1>6, <2>2, <2>3
<1>7. QED
  BY <1>3, <1>4, <1>5, <1>6 DEF Orders

\* The SBOM has the packages promised, each once.
LEMMA SbomAsPromised ==
    ASSUME IInv, phase = "snippets", NEW sbom, sbom = build_dependency_sbom
    PROVE  AsSet([k \in DOMAIN sbom |-> DependencyKey(sbom[k])]) = Promise!Promised.sbom
<1>1. PICK items : items = UniqueItems
  OBVIOUS
<1>2. /\ items \in Seq(Detection)
      /\ \A k, l \in DOMAIN items : DependencyKey(items[k]) = DependencyKey(items[l]) => k = l
      /\ DependencyKeys(items) = Promise!Promised.sbom
  BY <1>1, ItemsOnce
<1>3. PICK M, R : R = ByName(items) /\ M = Listed(DOMAIN items, R)
  OBVIOUS
<1>4. sbom = Through(items, M)
  <2> DEFINE sort(t) == Through(t, Listed(DOMAIN t, ByName(t)))
  <2>1. sort(items) = Through(items, M)
    BY <1>3
  <2>2. sbom = CHOOSE r \in {sort(t) : t \in {items}} : TRUE
    BY <1>1 DEF build_dependency_sbom, StableSort, Once, ByName
  <2> HIDE DEF sort
  <2>3. {sort(t) : t \in {items}} = {sort(items)}
    OBVIOUS
  <2>4. QED
    BY <2>1, <2>2, <2>3
<1>5. /\ M \in [DOMAIN items -> DOMAIN items]
      /\ \A i \in DOMAIN items : \E k \in DOMAIN items : M[k] = i
      /\ \A k, l \in DOMAIN items : M[k] = M[l] => k = l
      /\ sbom = [k \in DOMAIN items |-> items[M[k]]]
  <2>1. Orders(R, DOMAIN items)
    BY <1>2, <1>3, ByNameOrders
  <2>2. /\ M \in [DOMAIN items -> DOMAIN items]
        /\ \A i \in DOMAIN items : \E k \in DOMAIN items : M[k] = i
        /\ \A k, l \in DOMAIN items : M[k] = M[l] => k = l
        /\ Through(items, M) = [k \in DOMAIN items |-> items[M[k]]]
    BY <1>2, <1>3, <2>1, SortedPositions
  <2>3. QED
    BY <1>4, <2>2
<1>6. PICK f : f = [k \in DOMAIN sbom |-> DependencyKey(sbom[k])]
  OBVIOUS
<1>7. DOMAIN f = DOMAIN items
      /\ \A k \in DOMAIN f : f[k] = DependencyKey(items[M[k]]) /\ M[k] \in DOMAIN items
  BY <1>5, <1>6
<1>8. AsSet(f) = {f[k] : k \in DOMAIN f}
  BY <1>2, <1>5, <1>7 DEF AsSet
<1>9. ASSUME NEW x \in DependencyKeys(items) PROVE x \in {f[k] : k \in DOMAIN f}
  <2>1. PICK i \in DOMAIN items : x = DependencyKey(items[i])
    BY DEF DependencyKeys
  <2>2. PICK k \in DOMAIN items : M[k] = i
    BY <1>5
  <2>3. QED
    BY <1>7, <2>1, <2>2
<1>10. \A k \in DOMAIN f : f[k] \in DependencyKeys(items)
  BY <1>7 DEF DependencyKeys
<1>11. {f[k] : k \in DOMAIN f} = DependencyKeys(items)
  BY <1>9, <1>10
<1>12. QED
  BY <1>2, <1>6, <1>8, <1>11

\* Assembling the report publishes what was promised.
LEMMA AssemblePublishes ==
    ASSUME IInv, FindingsExact, FirstsInOrder, Assemble PROVE Promise!Publish
<1>1. phase = "snippets" /\ phase' = "done" /\ UNCHANGED <<bytes, files>>
  BY DEF Assemble
<1>2. status = "scanning" /\ status' = "done" /\ UNCHANGED observed
  BY <1>1 DEF status, observed
<1>3. PICK sorted, cbom, sbom :
        sorted = SortedFindings /\ cbom = build_cbom(sorted) /\ sbom = build_dependency_sbom
  OBVIOUS
<1>4. report'.findings = sorted /\ report'.cbom = cbom /\ report'.sbom = sbom
  BY <1>3 DEF Assemble
<1>5. result' = [findings |-> PromisedParts(sorted),
                 cbom |-> AsSet([k \in DOMAIN cbom |-> CbomKey(cbom[k])]),
                 sbom |-> AsSet([k \in DOMAIN sbom |-> DependencyKey(sbom[k])])]
  BY <1>1, <1>4 DEF result, PromisedParts
<1>6. PromisedParts(sorted) = Promise!Promised.findings
  BY <1>1, <1>3, SortedAsPromised
<1>7. AsSet([k \in DOMAIN cbom |-> CbomKey(cbom[k])]) = Promise!Promised.cbom
  BY <1>1, <1>3, CbomAsPromised
<1>8. AsSet([k \in DOMAIN sbom |-> DependencyKey(sbom[k])]) = Promise!Promised.sbom
  BY <1>1, <1>3, SbomAsPromised
<1>9. Promise!Promised = [findings |-> Promise!Promised.findings,
                          cbom |-> Promise!Promised.cbom, sbom |-> Promise!Promised.sbom]
  BY DEF Promise!Promised
<1>10. result' = Promise!Promised
  BY <1>5, <1>6, <1>7, <1>8, <1>9
<1>11. QED
  BY <1>2, <1>10 DEF Promise!Publish

\* Every step of a scan is a step of the promise or is not seen.
LEMMA StepKeepsPromise ==
    IInv /\ FindingsExact /\ FirstsInOrder /\ [Next]_vars => [Promise!Next]_(Promise!vars)
<1> SUFFICES ASSUME IInv, FindingsExact, FirstsInOrder, [Next]_vars
             PROVE  [Promise!Next]_(Promise!vars)
  OBVIOUS
<1>1. CASE Assemble
  BY <1>1, AssemblePublishes DEF Promise!Next
<1>2. CASE Abort
  BY <1>2, AbortFails DEF Promise!Next
<1>3. CASE \E w \in Workers : Read(w)
  BY <1>3, ReadObserves DEF Promise!Next
<1>4. CASE ~Assemble /\ ~Abort /\ \A w \in Workers : ~Read(w)
  BY <1>4, OtherStepsUnseen DEF Promise!vars
<1>5. QED
  BY <1>1, <1>2, <1>3, <1>4

\* The report depends on what was read of each file and on nothing else.
THEOREM Refinement == Spec => ImplementsPromise
BY InitPromise, StepKeepsPromise, Invariance, DeduplicationExact, FirstsTheorem,
   PTL DEF Spec, ImplementsPromise, Promise!Spec
-----------------------------------------------------------------------------
(* The pattern detectors.                                                  *)

\* The match of rule k at p is behind loops that are at rule r and offset f.
Behind(k, p, r, f) == k < r \/ (k = r /\ p < f)

DetectPositions ==
    /\ detector \in Detector /\ language \in Language
    /\ text \in Seq(Lexeme) /\ Len(text) <= MaxLength
    /\ rules \in Seq(Pattern)
    /\ rule \in 1..(Len(rules) + 1) /\ taken \in 0..Limit /\ from \in 1..(Len(text) + 1)

\* The matches of the rule that are behind are those taken.
Counted ==
    rule <= Len(rules) => taken = Cardinality({q \in Found(text, rules[rule]) : q < from})

\* m takes every detection to the offset of its match.
Marks(m) ==
    /\ m \in [DOMAIN out -> DOMAIN text]
    /\ \A k \in DOMAIN out :
         /\ out[k].rule \in DOMAIN rules
         /\ out[k] = [rule |-> out[k].rule, line |-> line_for_offset(text, m[k]),
                      column |-> column_for_offset(text, m[k])]
         /\ m[k] \in Reportable(out[k].rule) /\ Behind(out[k].rule, m[k], rule, from)
    /\ \A j, k \in DOMAIN out : j < k =>
         out[j].rule < out[k].rule \/ (out[j].rule = out[k].rule /\ m[j] < m[k])
    /\ \A r \in DOMAIN rules : \A p \in Reportable(r) :
         Behind(r, p, rule, from) => \E k \in DOMAIN out : out[k].rule = r /\ m[k] = p

PatternHit == [rule : Nat, line : Nat, column : Nat]

Marked == out \in Seq(PatternHit) /\ (Gated => out = << >>) /\ (~Gated => \E m : Marks(m))

DetectInv == DetectPositions /\ Counted /\ Marked
-----------------------------------------------------------------------------
LEMMA DetectInitInv == DetectInit => DetectInv
<1> SUFFICES ASSUME DetectInit PROVE DetectInv
  OBVIOUS
<1>1. DetectPositions
  <2>1. PICK n \in 0..MaxLength : text \in [1..n -> Lexeme]
    <3>1. PICK n \in 0..MaxLength : text \in [1..n -> Alphabet]
      BY DEF DetectInit, Text
    <3>2. text \in [1..n -> Lexeme]
      BY <3>1, PatternDetectorsAssumption
    <3>3. QED
      BY <3>2
  <2>2. n \in Nat /\ text \in Seq(Lexeme) /\ Len(text) = n
    BY <2>1, PatternDetectorsAssumption
  <2>3. QED
    BY <2>1, <2>2, PatternDetectorsAssumption DEF DetectInit, DetectPositions
<1>2. Counted
  <2>1. {q \in Found(text, rules[rule]) : q < from} = {}
    BY <1>1, FoundTypes DEF DetectInit, DetectPositions
  <2>2. QED
    BY <2>1, FS_EmptySet DEF DetectInit, Counted
<1>3. Marks(<< >>)
  <2>1. \A r \in DOMAIN rules : \A p \in Reportable(r) : ~Behind(r, p, rule, from)
    <3>1. ASSUME NEW r \in DOMAIN rules, NEW p \in Reportable(r) PROVE ~Behind(r, p, rule, from)
      <4>1. p \in Nat \ {0} /\ r \in Nat \ {0}
        BY <1>1, FoundTypes DEF Reportable, FirstMatches, DetectPositions
      <4>2. QED
        BY <4>1 DEF Behind, DetectInit
    <3>2. QED
      BY <3>1
  <2>2. QED
    BY <2>1 DEF DetectInit, Marks
<1>4. QED
  BY <1>1, <1>2, <1>3 DEF DetectInv, Marked, DetectInit
-----------------------------------------------------------------------------
\* What a step of the loops leaves as it is.
Settings == <<detector, language, text, rules>>

LEMMA SettingsKept ==
    ASSUME UNCHANGED Settings
    PROVE  /\ Gated' = Gated /\ \A k : Reportable(k)' = Reportable(k)
           /\ \A p : Skips(p)' = Skips(p)
BY DEF Settings, Gated, Reportable, FirstMatches, Skips

\* The next match is the only one between the old place to go on from and the new.
LEMMA TakenCounted ==
    ASSUME DetectInv, NEW p \in DOMAIN text, Take(p)
    PROVE  /\ DetectPositions' /\ Counted'
           /\ UNCHANGED Settings /\ rule' = rule /\ from' = p + 1 /\ ~Gated
           /\ rule \in DOMAIN rules /\ p \in Nat /\ p >= from
           /\ p \in FirstMatches(rule)
           /\ \A q \in Found(text, rules[rule]) : q <= p => q < from \/ q = p
<1> USE DEF DetectInv
<1> DEFINE F == Found(text, rules[rule])
           Old == {q \in F : q < from}
<1>1. /\ UNCHANGED Settings /\ rule' = rule /\ from' = p + 1 /\ taken' = taken + 1 /\ ~Gated
      /\ rule <= Len(rules) /\ taken < Limit /\ p \in F /\ p >= from
      /\ \A q \in F : q >= from => p <= q
  BY DEF Take, IsNext, Settings
<1>2. /\ rule \in DOMAIN rules /\ F \subseteq Nat \ {0} /\ F \subseteq DOMAIN text
      /\ p \in Nat /\ from \in Nat /\ taken \in Nat /\ Limit \in Nat
      /\ p \in 1..Len(text) /\ Len(text) \in Nat
  BY <1>1, FoundTypes, PatternDetectorsAssumption DEF DetectPositions
<1>3. IsFiniteSet(Old) /\ p \notin Old /\ taken = Cardinality(Old)
  BY <1>1, <1>2, FoundTypes DEF Counted, DetectPositions
<1>4. Cardinality(Old \cup {p}) = taken + 1
  BY <1>3, FS_AddElement
<1>5. {q \in F : q <= p} = Old \cup {p} /\ {q \in F : q < p + 1} = Old \cup {p}
  BY <1>1, <1>2
<1>6. p \in FirstMatches(rule)
  <2>1. Cardinality({q \in F : q <= p}) = taken + 1
    BY <1>4, <1>5
  <2>2. Cardinality({q \in F : q <= p}) <= Limit
    BY <1>1, <1>2, <2>1
  <2>3. QED
    BY <1>1, <2>2 DEF FirstMatches
<1>7. DetectPositions'
  BY <1>1, <1>2 DEF DetectPositions, Settings
<1>8. Counted'
  BY <1>1, <1>4, <1>5 DEF Counted, Settings
<1>9. \A q \in F : q <= p => q < from \/ q = p
  BY <1>1, <1>2
<1>10. QED
  BY <1>1, <1>2, <1>6, <1>7, <1>8, <1>9

\* The pairs behind the loops after a match: those before it, and the match.
LEMMA PassedByTake ==
    ASSUME DetectInv, NEW p \in DOMAIN text, Take(p), NEW r \in DOMAIN rules, NEW q \in Reportable(r)
    PROVE  Behind(r, q, rule', from') <=> Behind(r, q, rule, from) \/ (r = rule /\ q = p)
<1>1. /\ rule' = rule /\ from' = p + 1 /\ p \in Nat /\ p >= from
      /\ \A k \in Found(text, rules[rule]) : k <= p => k < from \/ k = p
  BY TakenCounted
<1>2. q \in Nat /\ from \in Nat /\ q \in Found(text, rules[r])
  BY FoundTypes DEF Reportable, FirstMatches, DetectInv, DetectPositions
<1>3. QED
  BY <1>1, <1>2 DEF Behind

\* A match on a comment line is none to report.
LEMMA SkipStep ==
    ASSUME DetectInv, NEW p \in DOMAIN text, SkipComment(p)
    PROVE  DetectInv'
<1>1. Take(p) /\ Skips(p) /\ out' = out
  BY DEF SkipComment
<1>2. /\ DetectPositions' /\ Counted' /\ UNCHANGED Settings /\ ~Gated
      /\ p \in FirstMatches(rule)
  BY <1>1, TakenCounted
<1>3. /\ \A k : Reportable(k)' = Reportable(k)
      /\ Gated' = Gated /\ text' = text /\ rules' = rules
  BY <1>2, SettingsKept DEF Settings
<1>4. PICK m : Marks(m)
  BY <1>2 DEF DetectInv, Marked
<1>5. ASSUME NEW r \in DOMAIN rules, NEW q \in Reportable(r)
      PROVE  Behind(r, q, rule', from') <=> Behind(r, q, rule, from)
  <2>1. p \notin Reportable(rule)
    BY <1>1 DEF Reportable
  <2>2. QED
    BY <1>1, <2>1, PassedByTake
<1>6. \A k \in DOMAIN out : Behind(out[k].rule, m[k], rule', from')
  BY <1>4, <1>5 DEF Marks
<1>7. Marks(m)'
  BY <1>1, <1>3, <1>4, <1>5, <1>6 DEF Marks
<1>8. Marked'
  BY <1>1, <1>2, <1>3, <1>7 DEF Marked, DetectInv
<1>9. QED
  BY <1>2, <1>8 DEF DetectInv

\* Any other match is reported, behind what was reported before it.
LEMMA ReportStep ==
    ASSUME DetectInv, NEW p \in DOMAIN text, Report(p)
    PROVE  DetectInv'
<1>1. Take(p) /\ ~Skips(p)
  BY DEF Report
<1>2. /\ DetectPositions' /\ Counted' /\ UNCHANGED Settings /\ ~Gated /\ rule' = rule
      /\ p \in FirstMatches(rule) /\ rule \in DOMAIN rules /\ rule \in Nat
      /\ p \in Nat /\ p >= from /\ from' = p + 1 /\ from \in Nat
  BY <1>1, TakenCounted DEF DetectInv, DetectPositions
<1>3. /\ \A k : Reportable(k)' = Reportable(k)
      /\ Gated' = Gated /\ text' = text /\ rules' = rules
  BY <1>2, SettingsKept DEF Settings
<1>4. PICK m : Marks(m)
  BY <1>2 DEF DetectInv, Marked
<1>5. p \in Reportable(rule) /\ ~Behind(rule, p, rule, from) /\ Behind(rule, p, rule', from')
  BY <1>1, <1>2 DEF Reportable, Behind
<1>6. PICK n : n = Len(out)
  OBVIOUS
<1>7. PICK d : d = [rule |-> rule, line |-> line_for_offset(text, p),
                    column |-> column_for_offset(text, p)]
  OBVIOUS
<1>8. d \in PatternHit /\ d.rule = rule
  <2>1. text \in Seq(Lexeme)
    BY DEF DetectInv, DetectPositions
  <2>2. line_for_offset(text, p) \in Nat /\ column_for_offset(text, p) \in Nat
    BY <1>2, <2>1, PlaceTypes
  <2>3. QED
    BY <1>2, <1>7, <2>2 DEF PatternHit
<1>9. /\ n \in Nat /\ DOMAIN out = 1..n /\ DOMAIN out' = 1..(n + 1)
      /\ out' \in Seq(PatternHit) /\ out'[n + 1] = d
      /\ \A k \in 1..n : out'[k] = out[k]
  BY <1>6, <1>7, <1>8 DEF DetectInv, Marked, Report
<1>10. PICK h : h = [k \in 1..(n + 1) |-> IF k = n + 1 THEN p ELSE m[k]]
  OBVIOUS
<1>11. h[n + 1] = p /\ \A k \in 1..n : h[k] = m[k]
  BY <1>9, <1>10
<1>12. \A k \in 1..(n + 1) : k = n + 1 \/ k \in 1..n
  BY <1>9
<1>13. ASSUME NEW r \in DOMAIN rules, NEW q \in Reportable(r)
       PROVE  Behind(r, q, rule', from') <=> Behind(r, q, rule, from) \/ (r = rule /\ q = p)
  BY <1>1, PassedByTake
<1>14. h \in [1..(n + 1) -> DOMAIN text]
  BY <1>4, <1>9, <1>10, <1>11, <1>12 DEF Marks
<1>15. ASSUME NEW k \in 1..(n + 1)
       PROVE  /\ out'[k].rule \in DOMAIN rules
              /\ out'[k] = [rule |-> out'[k].rule, line |-> line_for_offset(text, h[k]),
                            column |-> column_for_offset(text, h[k])]
              /\ h[k] \in Reportable(out'[k].rule)
              /\ Behind(out'[k].rule, h[k], rule', from')
  <2>1. CASE k = n + 1
    BY <1>2, <1>5, <1>7, <1>8, <1>9, <1>11, <2>1
  <2>2. CASE k \in 1..n
    BY <1>4, <1>9, <1>11, <1>13, <2>2 DEF Marks
  <2>3. QED
    BY <1>12, <2>1, <2>2
<1>16. ASSUME NEW j \in 1..(n + 1), NEW k \in 1..(n + 1), j < k
       PROVE  out'[j].rule < out'[k].rule \/ (out'[j].rule = out'[k].rule /\ h[j] < h[k])
  <2>1. j \in 1..n
    BY <1>9, <1>16
  <2>2. CASE k = n + 1
    <3>1. Behind(out[j].rule, m[j], rule, from) /\ out[j].rule \in Nat /\ m[j] \in Nat
      <4>1. DOMAIN rules \subseteq Nat /\ DOMAIN text \subseteq Nat
        BY DEF DetectInv, DetectPositions
      <4>2. out[j].rule \in DOMAIN rules /\ m[j] \in DOMAIN text
        BY <1>4, <1>9, <2>1 DEF Marks
      <4>3. Behind(out[j].rule, m[j], rule, from)
        BY <1>4, <1>9, <2>1 DEF Marks
      <4>4. QED
        BY <4>1, <4>2, <4>3
    <3>2. out[j].rule < rule \/ (out[j].rule = rule /\ m[j] < p)
      BY <1>2, <3>1 DEF Behind
    <3>3. QED
      BY <1>8, <1>9, <1>11, <2>1, <2>2, <3>2
  <2>3. CASE k \in 1..n
    BY <1>4, <1>9, <1>11, <1>16, <2>1, <2>3 DEF Marks
  <2>4. QED
    BY <1>12, <2>2, <2>3
<1>17. ASSUME NEW r \in DOMAIN rules, NEW q \in Reportable(r), Behind(r, q, rule', from')
       PROVE  \E k \in 1..(n + 1) : out'[k].rule = r /\ h[k] = q
  <2>1. CASE r = rule /\ q = p
    BY <1>8, <1>9, <1>11, <2>1
  <2>2. CASE Behind(r, q, rule, from)
    <3>1. PICK k \in 1..n : out[k].rule = r /\ m[k] = q
      BY <1>4, <1>9, <1>17, <2>2 DEF Marks
    <3>2. k \in 1..(n + 1) /\ out'[k].rule = r /\ h[k] = q
      BY <1>9, <1>11, <3>1
    <3>3. QED
      BY <3>2
  <2>3. QED
    BY <1>13, <1>17, <2>1, <2>2
<1>18. Marks(h)'
  <2>1. /\ DOMAIN out' = 1..(n + 1) /\ DOMAIN text' = DOMAIN text
        /\ DOMAIN rules' = DOMAIN rules /\ h \in [DOMAIN out' -> DOMAIN text']
    BY <1>3, <1>9, <1>14
  <2>2. ASSUME NEW k \in DOMAIN out'
        PROVE  /\ out'[k].rule \in DOMAIN rules'
               /\ out'[k] = [rule |-> out'[k].rule, line |-> line_for_offset(text', h[k]),
                             column |-> column_for_offset(text', h[k])]
               /\ h[k] \in Reportable(out[k].rule)'
               /\ Behind(out'[k].rule, h[k], rule', from')
    BY <1>3, <1>15, <2>1
  <2>3. QED
    BY <1>3, <1>16, <1>17, <2>1, <2>2 DEF Marks
<1>19. Marked'
  BY <1>2, <1>3, <1>9, <1>18 DEF Marked
<1>20. QED
  BY <1>2, <1>19 DEF DetectInv

\* With no next match, every match a rule may report is behind.
LEMMA NextRuleStep == ASSUME DetectInv, NextRule PROVE DetectInv'
<1> USE DEF DetectInv
<1>1. /\ UNCHANGED Settings /\ rule' = rule + 1 /\ taken' = 0 /\ from' = 1 /\ out' = out
      /\ rule <= Len(rules) /\ ~Gated /\ \A p \in DOMAIN text : ~IsNext(p)
  BY DEF NextRule, Continue, Settings
<1>2. /\ \A k : Reportable(k)' = Reportable(k)
      /\ Gated' = Gated /\ text' = text /\ rules' = rules
  BY <1>1, SettingsKept DEF Settings
<1>3. /\ rule \in DOMAIN rules /\ rule \in Nat /\ rules \in Seq(Pattern) /\ text \in Seq(Lexeme)
      /\ from \in Nat /\ taken \in 0..Limit /\ Limit \in Nat
  BY <1>1, PatternDetectorsAssumption DEF DetectPositions
<1>4. DetectPositions'
  BY <1>1, <1>3 DEF DetectPositions, Settings
<1>5. Counted'
  <2>1. {q \in Found(text', rules'[rule']) : q < from'} = {}
    BY <1>1, <1>2, <1>3, FoundTypes
  <2>2. QED
    BY <1>1, <2>1, FS_EmptySet DEF Counted
<1> DEFINE F == Found(text, rules[rule])
           Old == {q \in F : q < from}
<1>6. ASSUME NEW p \in FirstMatches(rule) PROVE p < from
  <2>1. SUFFICES ASSUME p >= from PROVE FALSE
    BY <1>3, FoundTypes DEF FirstMatches
  <2>2. F \subseteq Nat \ {0} /\ F \subseteq DOMAIN text /\ p \in F
    BY <1>3, FoundTypes DEF FirstMatches
  <2>3. PICK n \in {q \in F : q >= from} : \A k \in {q \in F : q >= from} : n <= k
    BY <2>1, <2>2, LeastNumber
  <2>4. taken = Limit
    BY <1>1, <1>3, <2>2, <2>3 DEF IsNext
  <2>5. Cardinality(Old) = Limit /\ IsFiniteSet(Old) /\ p \notin Old
    BY <1>1, <1>3, <2>1, <2>2, <2>4, FoundTypes DEF Counted
  <2>6. Cardinality(Old \cup {p}) = Limit + 1
    BY <2>5, FS_AddElement
  <2>7. Old \cup {p} \subseteq {q \in F : q <= p}
    BY <1>3, <2>1, <2>2
  <2>8. IsFiniteSet({q \in F : q <= p}) /\ Cardinality({q \in F : q <= p}) \in Nat
    BY <1>3, FoundTypes
  <2>9. Limit + 1 <= Cardinality({q \in F : q <= p})
    BY <2>6, <2>7, <2>8, FS_Subset
  <2>10. Cardinality({q \in F : q <= p}) <= Limit
    BY DEF FirstMatches
  <2>11. QED
    BY <1>3, <2>8, <2>9, <2>10
<1>7. ASSUME NEW r \in DOMAIN rules, NEW q \in Reportable(r)
      PROVE  Behind(r, q, rule', from') <=> Behind(r, q, rule, from)
  <2>1. r \in Nat /\ q \in Nat \ {0}
    BY <1>3, FoundTypes DEF Reportable, FirstMatches
  <2>2. r = rule => q < from
    BY <1>6 DEF Reportable
  <2>3. QED
    BY <1>1, <1>3, <2>1, <2>2 DEF Behind
<1>8. PICK m : Marks(m)
  BY <1>1 DEF Marked
<1>9. \A k \in DOMAIN out : Behind(out[k].rule, m[k], rule', from')
  BY <1>7, <1>8 DEF Marks
<1>10. Marks(m)'
  BY <1>1, <1>2, <1>7, <1>8, <1>9 DEF Marks
<1>11. Marked'
  BY <1>1, <1>2, <1>10 DEF Marked
<1>12. QED
  BY <1>4, <1>5, <1>11

\* The invariant: matches taken are counted, and those behind the loops reported.
THEOREM DetectorInvariance == DetectSpec => []DetectInv
<1>1. DetectInv /\ [DetectNext]_detect_vars => DetectInv'
  <2> SUFFICES ASSUME DetectInv, [DetectNext]_detect_vars PROVE DetectInv'
    OBVIOUS
  <2>1. CASE UNCHANGED detect_vars
    <3>1. UNCHANGED Settings /\ UNCHANGED <<rule, taken, from, out>>
      BY <2>1 DEF detect_vars, Settings
    <3>2. \A k : Reportable(k)' = Reportable(k)
      BY <3>1, SettingsKept
    <3>3. DetectPositions' /\ Counted'
      BY <3>1 DEF DetectInv, DetectPositions, Counted, Settings
    <3>4. ASSUME NEW m, Marks(m) PROVE Marks(m)'
      BY <3>1, <3>2, <3>4 DEF Marks, Settings
    <3>5. Marked'
      BY <3>1, <3>4, SettingsKept DEF DetectInv, Marked
    <3>6. QED
      BY <3>3, <3>5 DEF DetectInv
  <2>2. QED
    BY <2>1, SkipStep, ReportStep, NextRuleStep DEF DetectNext, DetectTerminated
<1>2. QED
  BY DetectInitInv, <1>1, PTL DEF DetectSpec

\* Counters stay within the limit and places within the text.
THEOREM DetectorTypes == DetectSpec => []DetectTypeOK
<1>1. DetectInv => DetectTypeOK
  <2> SUFFICES ASSUME DetectInv PROVE DetectTypeOK
    OBVIOUS
  <2>1. /\ text \in Seq(Lexeme) /\ rules \in Seq(Pattern) /\ Len(text) \in Nat
        /\ out \in Seq(PatternHit)
    BY DEF DetectInv, DetectPositions, Marked
  <2>2. ASSUME NEW k \in DOMAIN out
        PROVE  /\ out[k].rule \in DOMAIN rules
               /\ out[k].line \in 1..(Len(text) + 1) /\ out[k].column \in 1..Len(text)
    <3>1. ~Gated
      BY DEF DetectInv, Marked
    <3>2. PICK m : Marks(m)
      BY <3>1 DEF DetectInv, Marked
    <3>3. /\ out[k].rule \in DOMAIN rules /\ m[k] \in DOMAIN text
          /\ out[k].line = line_for_offset(text, m[k])
          /\ out[k].column = column_for_offset(text, m[k])
      BY <3>2 DEF Marks
    <3>4. QED
      BY <2>1, <3>3, PlaceTypes
  <2>3. QED
    BY <2>1, <2>2 DEF DetectTypeOK, DetectInv, DetectPositions
<1>2. QED
  BY DetectorInvariance, <1>1, PTL

\* When the loops are through, the detections of a rule are its first matches,
\* but for those on comment lines, one for each and in the order of the text.
LEMMA OneForEach ==
    ASSUME DetectInv, Done, NEW r \in DOMAIN rules
    PROVE  LET expected == IF Gated THEN {} ELSE Reportable(r)
           IN  /\ Cardinality(ReportedBy(r)) = Cardinality(expected)
               /\ {[line |-> out[i].line, column |-> out[i].column] : i \in ReportedBy(r)}
                    = {Place(p) : p \in expected}
               /\ \A i, j \in ReportedBy(r) : i < j =>
                    \/ out[i].line < out[j].line
                    \/ out[i].line = out[j].line /\ out[i].column < out[j].column
<1>1. CASE Gated
  <2>1. ReportedBy(r) = {}
    BY <1>1 DEF DetectInv, Marked, ReportedBy
  <2>2. QED
    BY <1>1, <2>1, FS_EmptySet
<1>2. CASE ~Gated
  <2>1. PICK m : Marks(m)
    BY <1>2 DEF DetectInv, Marked
  <2>2. /\ text \in Seq(Lexeme) /\ rules \in Seq(Pattern) /\ out \in Seq(PatternHit)
        /\ rule > Len(rules) /\ DOMAIN out \subseteq Nat /\ r \in Nat /\ rule \in Nat
        /\ DOMAIN text \subseteq Nat
    BY <1>2 DEF DetectInv, DetectPositions, Marked, Done
  <2>3. ASSUME NEW i \in ReportedBy(r)
        PROVE  /\ i \in DOMAIN out /\ m[i] \in Reportable(r) /\ m[i] \in DOMAIN text
               /\ out[i].line = line_for_offset(text, m[i])
               /\ out[i].column = column_for_offset(text, m[i])
               /\ [line |-> out[i].line, column |-> out[i].column] = Place(m[i])
    BY <2>1 DEF Marks, ReportedBy, Place
  <2>4. ASSUME NEW i \in ReportedBy(r), NEW j \in ReportedBy(r), i < j PROVE m[i] < m[j]
    <3>1. out[i].rule = r /\ out[j].rule = r /\ i \in DOMAIN out /\ j \in DOMAIN out
      BY DEF ReportedBy
    <3>2. QED
      BY <2>1, <2>2, <2>4, <3>1 DEF Marks
  <2>5. ASSUME NEW p \in Reportable(r) PROVE \E i \in ReportedBy(r) : m[i] = p
    <3>1. Behind(r, p, rule, from)
      BY <2>2 DEF Behind
    <3>2. QED
      BY <2>1, <3>1 DEF Marks, ReportedBy
  <2>6. PICK g : g = [i \in ReportedBy(r) |-> m[i]]
    OBVIOUS
  <2>7. g \in Bijection(ReportedBy(r), Reportable(r))
    <3>1. g \in [ReportedBy(r) -> Reportable(r)]
      BY <2>3, <2>6
    <3>2. ASSUME NEW i \in ReportedBy(r), NEW j \in ReportedBy(r), g[i] = g[j] PROVE i = j
      <4>1. i \in Nat /\ j \in Nat /\ m[i] \in Nat /\ m[i] = m[j]
        BY <2>2, <2>3, <2>6, <3>2
      <4>2. QED
        BY <2>4, <4>1
    <3>3. g \in Injection(ReportedBy(r), Reportable(r))
      BY <3>1, <3>2 DEF Injection, IsInjective
    <3>4. ASSUME NEW p \in Reportable(r) PROVE \E i \in ReportedBy(r) : g[i] = p
      BY <2>5, <2>6
    <3>5. g \in Surjection(ReportedBy(r), Reportable(r))
      BY <3>1, <3>4 DEF Surjection
    <3>6. QED
      BY <3>3, <3>5 DEF Bijection
  <2>8. IsFiniteSet(ReportedBy(r))
    <3>1. DOMAIN out = 1..Len(out) /\ Len(out) \in Int /\ ReportedBy(r) \subseteq DOMAIN out
      BY <2>2 DEF ReportedBy
    <3>2. IsFiniteSet(1..Len(out))
      BY <3>1, FS_Interval
    <3>3. QED
      BY <3>1, <3>2, FS_Subset
  <2>9. Cardinality(ReportedBy(r)) = Cardinality(Reportable(r))
    BY <2>7, <2>8, FS_Bijection DEF ExistsBijection
  <2>10. {[line |-> out[i].line, column |-> out[i].column] : i \in ReportedBy(r)}
           = {Place(p) : p \in Reportable(r)}
    <3>1. ASSUME NEW i \in ReportedBy(r)
          PROVE  [line |-> out[i].line, column |-> out[i].column]
                   \in {Place(p) : p \in Reportable(r)}
      BY <2>3
    <3>2. ASSUME NEW p \in Reportable(r)
          PROVE  Place(p) \in {[line |-> out[i].line, column |-> out[i].column]
                                 : i \in ReportedBy(r)}
      <4>1. PICK i \in ReportedBy(r) : m[i] = p
        BY <2>5
      <4>2. [line |-> out[i].line, column |-> out[i].column] = Place(p)
        BY <2>3, <4>1
      <4>3. QED
        BY <4>2
    <3>3. QED
      BY <3>1, <3>2
  <2>11. ASSUME NEW i \in ReportedBy(r), NEW j \in ReportedBy(r), i < j
         PROVE  \/ out[i].line < out[j].line
                \/ out[i].line = out[j].line /\ out[i].column < out[j].column
    BY <2>2, <2>3, <2>4, <2>11, PlacesInOrder
  <2>12. QED
    BY <1>2, <2>9, <2>10, <2>11
<1>3. QED
  BY <1>1, <1>2

\* What a rule reports in a text is its first matches outside comments, each once,
\* whatever the other rules find.
THEOREM HitsTheorem == DetectSpec => []HitsExact
<1>1. DetectInv => HitsExact
  BY OneForEach DEF HitsExact
<1>2. QED
  BY DetectorInvariance, <1>1, PTL
=============================================================================
