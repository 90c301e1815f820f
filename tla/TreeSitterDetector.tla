------------------------- MODULE TreeSitterDetector -------------------------
(***************************************************************************)
(* TreeSitterDetector (pqc_scan_detectors/src/tree_sitter_detector.rs): the *)
(* semantic nodes of a syntax tree are collected, and the text of each is   *)
(* searched for the patterns of the rules.                                  *)
(*                                                                         *)
(* Nodes nest, so one place of the source is met in the text of several of  *)
(* them; a set of keys keeps the repeats out.  A node's text is cut after   *)
(* ClipLength characters.                                                   *)
(*                                                                         *)
(* What the grammar makes of a text is a constant: Parses holds the texts   *)
(* and their trees.  A tree is a function of its nodes, 1 the root, each    *)
(* with the offsets of its first and last lexeme and its children.          *)
(***************************************************************************)
EXTENDS SourceText, Sequences

CONSTANTS
    Parses,         \* records [text, tree]
    Rules,          \* the sequences of tree_sitter rules
    ClipLength,     \* characters kept of a node: 2000 in the code
    Limit           \* hits kept of a rule: 32 in the code

Rule == [pattern : Pattern, scope : SUBSET STRING]

ASSUME TreeSitterAssumption == ClipLength \in Nat \ {0} /\ Limit \in Nat \ {0}
ASSUME ParsesAssumption ==
    \A p \in Parses :
        /\ p.text \in Seq(Lexeme) /\ 1 \in DOMAIN p.tree
        /\ \A n \in DOMAIN p.tree :
             /\ p.tree[n].first \in DOMAIN p.text /\ p.tree[n].last \in DOMAIN p.text
             /\ p.tree[n].children \in Seq(DOMAIN p.tree)
\* Every node is below the root.
ASSUME TreesAssumption ==
    \A p \in Parses : \A S \in SUBSET DOMAIN p.tree :
        /\ 1 \in S
        /\ \A n \in S : \A c \in DOMAIN p.tree[n].children : p.tree[n].children[c] \in S
        => S = DOMAIN p.tree
ASSUME RulesAssumption == Rules \subseteq Seq(Rule)

\* How resolve_language calls a file.
LanguageName == {"java", "typescript"}

VARIABLES
    parse,
    language,
    rules,
    stack,          \* the nodes to visit
    candidates,     \* the semantic nodes, in the order of the visit
    rule, candidate, from,  \* where the loops are
    rule_hits,
    dedup,          \* the keys of what was reported
    out

vars == <<parse, language, rules, stack, candidates, rule, candidate, from, rule_hits, dedup, out>>

text == parse.text
tree == parse.tree

\* A child of a node is pushed after its elder siblings, and visited before.
Visit ==
    /\ stack # << >>
    /\ LET node == stack[Len(stack)]
           rest == SubSeq(stack, 1, Len(stack) - 1)
           blank == \A p \in tree[node].first..tree[node].last : text[p] \in {"blank", "newline"}
       IN  /\ stack' = rest \o tree[node].children
           /\ candidates' = IF tree[node].semantic /\ ~blank
                            THEN Append(candidates, node) ELSE candidates
    /\ UNCHANGED <<parse, language, rules, rule, candidate, from, rule_hits, dedup, out>>

\* The text of a candidate, without the three dots that follow when it is cut.
clip_text(node) ==
    IF tree[node].last - tree[node].first < ClipLength
    THEN tree[node].first..tree[node].last
    ELSE tree[node].first..(tree[node].first + ClipLength - 1)

CandidateText(node) ==
    [i \in 1..Cardinality(clip_text(node)) |-> text[tree[node].first + i - 1]]

\* A scope is one word, or a list of languages; javascript covers typescript.
scope_matches(scope) ==
    \/ scope = {"any"}
    \/ language \in scope
    \/ language = "typescript" /\ "javascript" \in scope

IsIdentifier(lexeme) == lexeme \in {"name", "capital", "letter"}

is_embedded_identifier_submatch(word, at) ==
    /\ IsIdentifier(word[at])
    /\ \/ at > 1 /\ IsIdentifier(word[at - 1])
       \/ at < Len(word) /\ IsIdentifier(word[at + 1])

Filter == IF language = "java" THEN "java" ELSE "filtered"

\* Where a hit at offset `at` of a candidate's text is in the source.
HitLine(node, at) ==
    line_for_offset(text, tree[node].first) + line_for_offset(CandidateText(node), at) - 1

\* The column of a node is counted in bytes, that of the hit in its text in
\* characters.
NodeColumn(node) ==
    column_for_offset(text, tree[node].first) + ExtraBytes(text, tree[node].first)
HitColumn_OfTheFirstLine(node, at) ==
    NodeColumn(node) + column_for_offset(CandidateText(node), at) - 1
HitColumn(node, at) ==
    IF line_for_offset(CandidateText(node), at) = 1
    THEN NodeColumn(node) + column_for_offset(CandidateText(node), at) - 1
    ELSE column_for_offset(CandidateText(node), at)

\* In lower case; the quotes and blanks it trims are no part of a lexeme.
normalize_match_for_dedup(match) == IF match = "capital" THEN "name" ELSE match

Key_ByLine(node, at) == <<rule, HitLine(node, at)>>
Key(node, at) ==
    <<rule, HitLine(node, at), normalize_match_for_dedup(CandidateText(node)[at])>>

\* The rule has all the hits it may have.
Full_OffByOne == rule_hits > Limit
Full == rule_hits >= Limit

Searching == stack = << >> /\ rule <= Len(rules)

\* The regular expression is applied where it last stopped.
Hit(node, at) ==
    /\ Searching /\ scope_matches(rules[rule].scope)
    /\ candidate <= Len(candidates) /\ node = candidates[candidate]
    /\ ~Full
    /\ at \in Found(CandidateText(node), rules[rule].pattern)
    /\ at >= from
    /\ \A q \in Found(CandidateText(node), rules[rule].pattern) : q >= from => at <= q
    /\ from' = at + 1
    /\ UNCHANGED <<parse, language, rules, stack, candidates, rule, candidate>>

Rejected(node, at) ==
    \/ should_skip_comment_only_match(Filter, CandidateText(node), at)
    \/ is_embedded_identifier_submatch(CandidateText(node), at)

SkipHit(node, at) ==
    /\ Hit(node, at)
    /\ Rejected(node, at) \/ Key(node, at) \in dedup
    /\ UNCHANGED <<rule_hits, dedup, out>>

ReportHit(node, at) ==
    /\ Hit(node, at)
    /\ ~Rejected(node, at) /\ Key(node, at) \notin dedup
    /\ dedup' = dedup \cup {Key(node, at)}
    /\ out' = Append(out, [rule |-> rule, line |-> HitLine(node, at),
                           column |-> HitColumn(node, at), match |-> CandidateText(node)[at]])
    /\ rule_hits' = rule_hits + 1

NextCandidate ==
    /\ Searching /\ scope_matches(rules[rule].scope)
    /\ candidate <= Len(candidates) /\ ~Full
    /\ \A p \in Found(CandidateText(candidates[candidate]), rules[rule].pattern) : p < from
    /\ candidate' = candidate + 1 /\ from' = 1
    /\ UNCHANGED <<parse, language, rules, stack, candidates, rule, rule_hits, dedup, out>>

NextRule ==
    /\ Searching
    /\ \/ ~scope_matches(rules[rule].scope)
       \/ Full
       \/ candidate > Len(candidates)
    /\ rule' = rule + 1
    /\ candidate' = 1 /\ from' = 1 /\ rule_hits' = 0
    /\ UNCHANGED <<parse, language, rules, stack, candidates, dedup, out>>

Done == stack = << >> /\ rule > Len(rules)

Terminated == Done /\ UNCHANGED vars

Init ==
    /\ parse \in Parses /\ language \in LanguageName /\ rules \in Rules
    /\ stack = <<1>> /\ candidates = << >>
    /\ rule = 1 /\ candidate = 1 /\ from = 1 /\ rule_hits = 0
    /\ dedup = {} /\ out = << >>

Next ==
    \/ Visit
    \/ \E node \in DOMAIN tree : \E at \in DOMAIN CandidateText(node) :
         SkipHit(node, at) \/ ReportHit(node, at)
    \/ NextCandidate \/ NextRule
    \/ Terminated

Spec == Init /\ [][Next]_vars
-----------------------------------------------------------------------------
TypeOK ==
    /\ language \in LanguageName
    /\ \A k \in DOMAIN stack : stack[k] \in DOMAIN tree
    /\ \A k \in DOMAIN candidates : candidates[k] \in DOMAIN tree
    /\ rule \in 1..(Len(rules) + 1) /\ candidate \in 1..(Len(candidates) + 1)
    /\ from \in Nat \ {0} /\ rule_hits \in 0..Limit
    /\ \A k \in DOMAIN out : out[k].rule \in DOMAIN rules
    /\ Cardinality(dedup) = Len(out)

\* A node shows the match at p: it keeps that much of its text, what it keeps
\* does not make the match a part of a longer identifier, and no comment that
\* begins in the node and has its line to itself holds the match.
Shows(node, p) ==
    /\ tree[node].semantic /\ p \in clip_text(node)
    /\ IsIdentifier(text[p]) =>
         \A q \in {p - 1, p + 1} \cap clip_text(node) : ~IsIdentifier(text[q])
    /\ language # "java" =>
         ~\E q \in clip_text(node) :
            /\ q < p /\ text[q] = "remark"
            /\ \A b \in clip_text(node) : b < q => \/ text[b] = "blank"
                                                  \/ \E n \in b..q : text[n] = "newline"
            /\ \A n \in q..p : text[n] # "newline"

\* The lines some node shows a match on, with the matches up to their case.
ShownMatches(k) ==
    {<<line_for_offset(text, p), normalize_match_for_dedup(text[p])>> :
       p \in {m \in Found(text, rules[k].pattern) : \E node \in DOMAIN tree : Shows(node, m)}}

HitsOf(k) == {i \in DOMAIN out : out[i].rule = k}
MatchOf(i) == <<out[i].line, normalize_match_for_dedup(out[i].match)>>

\* A rule in scope reports every match that some node shows, once for each line,
\* up to the limit, whatever the nesting of the nodes and the other rules.
MatchesExact ==
    Done => \A k \in DOMAIN rules :
        LET hits == HitsOf(k)
            matches == IF scope_matches(rules[k].scope) THEN ShownMatches(k) ELSE {}
        IN  /\ {MatchOf(i) : i \in hits} \subseteq matches
            /\ \A i, j \in hits : MatchOf(i) = MatchOf(j) => i = j
            /\ Cardinality(hits) =
                 IF Cardinality(matches) < Limit THEN Cardinality(matches) ELSE Limit

\* A hit is at the line of such a match in the source, though it was counted
\* from the beginning of a node that may span lines.  Its column is that of the
\* match, in characters; behind wide characters it may be too far, but not
\* beyond the column in bytes.
HitsLocated ==
    \A k \in DOMAIN out :
        \E p \in Found(text, rules[out[k].rule].pattern) :
            /\ out[k].line = line_for_offset(text, p) /\ out[k].match = text[p]
            /\ column_for_offset(text, p) <= out[k].column
            /\ out[k].column <= column_for_offset(text, p) + ExtraBytes(text, p)
=============================================================================
